-------------------------------- MODULE FittsLaw --------------------------------
(***************************************************************************)
(* The Fitts law test: one SN_SageFittsLawTest widget per subject, the     *)
(* SN_FittsLawTestData object they share, the pointers that click in them  *)
(* and the receiving threads that fetch a frame for every mouse move of a  *)
(* real round.                                                             *)
(*                                                                         *)
(* startRound() runs processEvents(), so every other handler can run while *)
(* a click is being handled; calls is the stack of those clicks.  Only a   *)
(* receiver takes the mutex of its double buffer here, so the mutex is     *)
(* left out.  Pointers and streamers stay; what is drawn, measured and     *)
(* written to the data files is left out.                                  *)
(***************************************************************************)
EXTENDS Integers, Sequences, SequencesExt

CONSTANTS
    NumSubjects,    \* SN_FittsLawTestData::_NUM_SUBJECTS
    NumTargets,     \* SN_SageFittsLawTest::_NUM_TARGET_PER_ROUND
    NumWidgets,     \* bounds the widgets launched
    Streams,        \* the widgets whose streamer connects
    Pointers,       \* the shared pointers
    MaxPresses,     \* bounds how often Next Round and Practice Round are pressed
    MaxCalls        \* bounds the clicks that are suspended in startRound()

ASSUME SubjectsAssumption == NumSubjects \in 1..3
ASSUME TargetsAssumption == {NumTargets, MaxPresses, MaxCalls} \subseteq Nat \ {0}
ASSUME WidgetsAssumption == NumWidgets \in Nat /\ Streams \subseteq 1..NumWidgets

Widgets    == 1..NumWidgets
NobodyElse == "nobody"
ASSUME PointersAssumption == NobodyElse \notin Pointers

\* _NUM_ROUND_PER_USER
NumRounds == 2 ^ (NumSubjects - 1)

VARIABLES
    launched,   \* how many widgets were launched
    members,    \* _widgetMap: the widgets of users A, B and C
    dataObject, \* _dataObject exists
    RoundID,    \* SN_SageFittsLawTest::RoundID
    practice,   \* SN_FittsLawTestData::_isDryRun
    test,       \* the round of each widget: running, dry, ready, hits, rounds, pointer
    targetPos,  \* the entries of _targetPosList that are not null
    trap,       \* SN_PolygonArrowPointer::_trapWidget, 0 for none
    calls,      \* the clicks suspended in startRound()
    doomed,     \* closed widgets that wait for their deferred delete, in order
    closedOne,  \* a widget was closed on its own
    missed,     \* history: the tests that no Finish button closes
    gui,        \* what the GUI thread is doing, and for which widget
    presses     \* how often the two round buttons were pressed

VARIABLES
    rpc,            \* where each receiving thread is
    end,            \* SN_SagePixelReceiver::_end
    sema,           \* __sema->available()
    queueLength,    \* DoubleBuffer::_queueLength
    frameReceived,  \* frameReceived() signals queued to the GUI thread
    gone            \* the widgets whose socket is closed

roundVars == <<members, dataObject, RoundID, practice, test, targetPos, trap>>
guiVars   == <<presses, launched, calls, doomed, closedOne, missed, gui>>
rcvVars   == <<rpc, end, sema, queueLength, frameReceived, gone>>
vars == <<roundVars, guiVars, rcvVars>>

Fresh == [running |-> FALSE, dry |-> FALSE, ready |-> FALSE, hits |-> 0, rounds |-> 0,
          pointer |-> NobodyElse]

\* Every position is null, for each target of each round.
ClearTargetPosList == targetPos = [w \in Widgets |-> {}]

Init == /\ launched = 0
        /\ members = <<>>
        /\ dataObject = FALSE
        /\ RoundID = -1
        /\ practice = TRUE
        /\ test = [w \in Widgets |-> Fresh]
        /\ ClearTargetPosList
        /\ trap = [p \in Pointers |-> 0]
        /\ calls = <<>>
        /\ doomed = <<>>
        /\ closedOne = FALSE
        /\ missed = {}
        /\ gui = [at |-> "loop", for |-> 0]
        /\ presses = 0
        /\ rpc = [w \in Widgets |-> "none"]
        /\ end = [w \in Widgets |-> FALSE]
        /\ sema = [w \in Widgets |-> 0]
        /\ queueLength = [w \in Widgets |-> 0]
        /\ frameReceived = [w \in Widgets |-> 0]
        /\ gone = {}

\* The widgets that were launched and not yet destroyed.
alive == {w \in 1..launched : rpc[w] # "destroyed"}
open  == alive \ ToSet(doomed)

\* The GUI thread runs its event loop, or the one inside startRound().
Idle == gui.at = "loop"

Index(t) == t.rounds * NumTargets + t.hits

-------------------------------------------------------------------------------
(* The widgets and the object they share                                     *)

\* The data object is made by the first widget, and starts before any round.
NewDataObject == /\ dataObject' = TRUE
                 /\ IF dataObject THEN UNCHANGED <<RoundID, practice>>
                    ELSE RoundID' = -1 /\ practice' = TRUE

\* addWidget(): users become A, B and C in the order of their widgets; every widget
\* after the third is user C again and takes the place of the one before.
AddWidget(w) == members' = IF ~dataObject THEN <<w>>
                           ELSE IF Len(members) < 3 THEN Append(members, w)
                           ELSE [members EXCEPT ![3] = w]

DeleteDataObject == dataObject' = FALSE /\ members' = <<>>

\* The controller's window, which comes with the last subject's widget.
ControllerShown == dataObject /\ Len(members) >= NumSubjects

\* The tests that closeAll() does not find: a user C whose place is taken, and one
\* that comes while the others wait for their deletion.
Overlooked(w) == (IF dataObject /\ Len(members) = 3 THEN {members[3]} ELSE {})
                     \cup (IF doomed # <<>> THEN {w} ELSE {})

\* The constructor.  The deletions that were posted together run one after the other:
\* nobody launches a widget between them.
Launch == LET w == launched + 1 IN
          /\ Idle
          /\ w \in Widgets
          /\ dataObject \/ doomed = <<>>
          /\ launched' = w
          /\ NewDataObject
          /\ AddWidget(w)
          /\ missed' = missed \cup Overlooked(w)
          /\ UNCHANGED <<test, targetPos, trap, calls, doomed, closedOne, gui, presses,
                         rcvVars>>

\* startReceivingThread(), when the streamer has connected.
StreamerConnects(w) == /\ Idle
                       /\ w \in open \cap Streams
                       /\ rpc[w] = "none"
                       /\ rpc' = [rpc EXCEPT ![w] = "off"]
                       /\ UNCHANGED <<roundVars, guiVars, end, sema, queueLength, frameReceived,
                                      gone>>

\* Mutant: a finished round leaves its counter at the number of rounds.
RoundEndedNoReset(t) == [t EXCEPT !.running = FALSE, !.ready = FALSE, !.hits = 0,
                                  !.pointer = NobodyElse, !.rounds = IF t.dry THEN @ ELSE @ + 1]

\* The test's own state after finishRound().
RoundEnded(t) == [t EXCEPT !.running = FALSE, !.ready = FALSE, !.hits = 0, !.pointer = NobodyElse,
                           !.rounds = IF t.dry THEN @
                                      ELSE IF @ + 1 >= NumRounds THEN 0 ELSE @ + 1]

\* What finishRound() of the widgets W does to their pointers and receivers.
FinishRound(W) == /\ trap' = [p \in Pointers |->
                                IF \E w \in W : test[w].pointer = p THEN 0 ELSE trap[p]]
                  /\ end' = [w \in Widgets |-> end[w] \/ (w \in W /\ rpc[w] # "none")]

\* setReady(): a running round is finished first, under the new _isDryRun.
Readied(t, dry) == LET asked == [t EXCEPT !.dry = dry]
                       ended == IF t.running THEN RoundEnded(asked) ELSE asked
                   IN  [ended EXCEPT !.ready = TRUE, !.hits = 0,
                                         !.rounds = IF @ >= NumRounds THEN 0 ELSE @]

SetReady(W, dry) == /\ FinishRound({w \in W : test[w].running})
                    /\ test' = [w \in Widgets |-> IF w \in W THEN Readied(test[w], dry)
                                                             ELSE test[w]]

\* The users that take part in a round; users are numbered as A, B and C.
Participants(round) == CASE round = 1 -> {1}
                         [] round = 2 -> {2}
                         [] round = 3 -> IF NumSubjects = 3 THEN {3} ELSE {1, 2}
                         [] round = 4 -> {1, 2}
                         [] round = 5 -> {1, 3}
                         [] round = 6 -> {2, 3}
                         [] round = 7 -> {1, 2, 3}

\* advanceRound() with the given counter and flag.  Its assertion that there are not
\* more widgets than subjects is not in a release build and left out.
NextRound(id, dry) ==
    LET next == IF id + 1 > 2 ^ NumSubjects - 1 THEN 1 ELSE id + 1 IN
    /\ Idle
    /\ presses < MaxPresses
    /\ presses' = presses + 1
    /\ ControllerShown
    /\ RoundID' = next
    /\ IF next > 0 THEN /\ SetReady({members[u] : u \in Participants(next)}, FALSE)
                        /\ practice' = dry
       ELSE IF dry THEN /\ SetReady(ToSet(members), TRUE)
                        /\ practice' = FALSE
       ELSE /\ practice' = dry
            /\ UNCHANGED <<test, trap, end>>
    /\ UNCHANGED <<members, dataObject, targetPos, launched, calls, doomed,
                   closedOne, missed, gui, rpc, sema, queueLength,
                   frameReceived, gone>>

AdvanceRound == NextRound(RoundID, practice)

PracticeRound == NextRound(-1, TRUE)

-------------------------------------------------------------------------------
(* Clicks                                                                    *)

\* determineNextTargetPosition(): a position is chosen once and kept for the next test.
DetermineNextTarget(w, t) ==
    targetPos' = [targetPos EXCEPT ![w] = IF t.dry THEN @ ELSE @ \cup {Index(t)}]

\* The green icon: a practice round starts at once.
StartPractice(p, w) == LET t == [test[w] EXCEPT !.running = TRUE, !.hits = 0, !.pointer = p] IN
                       /\ test[w].dry
                       /\ test' = [test EXCEPT ![w] = t]
                       /\ DetermineNextTarget(w, t)
                       /\ UNCHANGED <<calls, rpc, end>>

\* resumeThreadLoop(): start() does nothing while the thread still runs.
ResumeThreadLoop(w) ==
    IF rpc[w] = "none" THEN UNCHANGED <<rpc, end>>
    ELSE /\ end' = [end EXCEPT ![w] = FALSE]
         /\ rpc' = [rpc EXCEPT ![w] = IF @ = "off" THEN "top" ELSE @]

\* A real round resumes the stream and handles events before the click goes on.
StartReal(p, w) == /\ ~test[w].dry
                   /\ Len(calls) < MaxCalls
                   /\ test' = [test EXCEPT ![w].running = TRUE, ![w].hits = 0, ![w].pointer = p]
                   /\ calls' = Append(calls, w)
                   /\ ResumeThreadLoop(w)
                   /\ UNCHANGED targetPos

StartRound(p, w) == /\ Idle
                    /\ w \in open
                    /\ test[w].ready /\ ~test[w].running
                    /\ dataObject
                    /\ trap' = [trap EXCEPT ![p] = w]
                    /\ StartPractice(p, w) \/ StartReal(p, w)
                    /\ UNCHANGED <<members, dataObject, RoundID, practice, launched, doomed,
                                   closedOne, missed, gui, presses, sema, queueLength, frameReceived, gone>>

\* processEvents() is done: the click chooses its first target, whatever happened meanwhile.
ClickGoesOn == LET w == Last(calls) IN
               /\ Idle
               /\ calls # <<>>
               /\ calls' = Front(calls)
               /\ DetermineNextTarget(w, test[w])
               /\ UNCHANGED <<members, dataObject, RoundID, practice, test, trap, launched, doomed,
                              closedOne, missed, gui, presses, rcvVars>>

\* The pointer of the round hits the target.
Hit(p, w) == LET t == [test[w] EXCEPT !.hits = @ + 1] IN
             /\ Idle
             /\ w \in open
             /\ dataObject
             /\ test[w].running /\ test[w].pointer = p
             /\ IF t.hits = NumTargets
                THEN /\ FinishRound({w})
                     /\ test' = [test EXCEPT ![w] = RoundEnded(t)]
                     /\ UNCHANGED targetPos
                ELSE /\ test' = [test EXCEPT ![w] = t]
                     /\ DetermineNextTarget(w, t)
                     /\ UNCHANGED <<trap, end>>
             /\ UNCHANGED <<members, dataObject, RoundID, practice, guiVars, rpc, sema,
                            queueLength, frameReceived, gone>>

\* A miss, anybody's; with the penalty another position replaces the target's.
Miss(w) == /\ Idle
           /\ w \in open
           /\ dataObject
           /\ test[w].running
           /\ DetermineNextTarget(w, test[w])
           /\ UNCHANGED <<members, dataObject, RoundID, practice, test, trap, guiVars, rcvVars>>

\* handlePointerDrag() in a real round asks for one frame.
Drag(w) == /\ Idle
           /\ w \in alive
           /\ test[w].running /\ ~test[w].dry
           /\ rpc[w] \notin {"none", "off"}
           /\ sema[w] < 1
           /\ sema' = [sema EXCEPT ![w] = @ + 1]
           /\ UNCHANGED <<roundVars, guiVars, rpc, end, queueLength, frameReceived, gone>>

-------------------------------------------------------------------------------
(* Closing                                                                   *)

\* Mutant: the Finish button schedules the deletion without hiding the widgets.
CloseAllStaysOpen == /\ Idle
                     /\ ControllerShown
                     /\ RoundID' = -1
                     /\ dataObject' = FALSE
                     /\ UNCHANGED <<launched, calls, closedOne, missed, gui, presses, members, practice,
                                    doomed, test, targetPos, trap, rcvVars>>

\* The widget of a user joins those that are closed.
CloseUser(u, q) == IF u \in DOMAIN members /\ members[u] \in open THEN Append(q, members[u]) ELSE q

\* closeAll(): the widgets of users A, B and C are closed and, later, deleted.
CloseAll == /\ Idle
            /\ ControllerShown
            /\ RoundID' = -1
            /\ doomed' = CloseUser(3, CloseUser(2, CloseUser(1, doomed)))
            /\ UNCHANGED <<launched, calls, closedOne, missed, gui, presses, members, dataObject,
                           practice, test, targetPos, trap, rcvVars>>

CloseOne(w) == /\ Idle
               /\ ~closedOne /\ doomed = <<>>
               /\ w \in open
               /\ doomed' = Append(doomed, w)
               /\ closedOne' = TRUE
               /\ UNCHANGED <<launched, missed, calls, gui, presses, roundVars, rcvVars>>

\* The destructor frees the pointer, stops the receiver and deletes the shared data object.
Destroy == LET w == Head(doomed) IN
           /\ Idle
           /\ calls = <<>> /\ doomed # <<>>
           /\ doomed' = Tail(doomed)
           /\ FinishRound({w})
           /\ test' = [test EXCEPT ![w] = Fresh]
           /\ DeleteDataObject
           /\ sema' = [sema EXCEPT ![w] = @ + 10]
           /\ gui' = [at |-> "locks", for |-> w]
           /\ UNCHANGED <<launched, calls, closedOne, missed, presses, RoundID, practice, targetPos,
                          rpc, queueLength, frameReceived, gone>>

\* The base class's part: endReceiver(), then releaseLocks().
ReleaseLocks == LET w == gui.for IN
                /\ gui.at = "locks"
                /\ gone' = gone \cup {w}
                /\ queueLength' = [queueLength EXCEPT ![w] = -1]
                /\ rpc' = [rpc EXCEPT ![w] = IF @ = "sleep" THEN "test" ELSE @]
                /\ gui' = [gui EXCEPT !.at = "join"]
                /\ UNCHANGED <<roundVars, launched, calls, doomed, closedOne, missed, presses, end, sema,
                               frameReceived>>

Destroyed == LET w == gui.for IN
             /\ gui.at = "join"
             /\ rpc[w] \in {"none", "off"}
             /\ rpc' = [rpc EXCEPT ![w] = "destroyed"]
             /\ end' = [end EXCEPT ![w] = FALSE]
             /\ sema' = [sema EXCEPT ![w] = 0]
             /\ queueLength' = [queueLength EXCEPT ![w] = 0]
             /\ frameReceived' = [frameReceived EXCEPT ![w] = 0]
             /\ targetPos' = [targetPos EXCEPT ![w] = {}]
             /\ gui' = [at |-> "loop", for |-> 0]
             /\ UNCHANGED <<members, dataObject, RoundID, practice, test, trap, launched, calls,
                            doomed, closedOne, missed, presses, gone>>

-------------------------------------------------------------------------------
(* scheduleDummyUpdate(), which gives the back buffer back without the mutex *)

\* Mutant: one update answers every signal that is queued, and gives no buffer back.
HandleAllFrames(w) == /\ Idle
                      /\ w \in alive
                      /\ frameReceived[w] > 0
                      /\ gui' = [at |-> "signal", for |-> w]
                      /\ frameReceived' = [frameReceived EXCEPT ![w] = 0]
                      /\ UNCHANGED <<roundVars, launched, calls, doomed, closedOne, missed, presses, rpc,
                                     end, sema, queueLength, gone>>

HandleFrame(w) == /\ Idle
                  /\ w \in alive
                  /\ frameReceived[w] > 0
                  /\ gui' = [at |-> "count", for |-> w]
                  /\ frameReceived' = [frameReceived EXCEPT ![w] = @ - 1]
                  /\ UNCHANGED <<roundVars, launched, calls, doomed, closedOne, missed, presses, rpc, end,
                                 sema, queueLength, gone>>

ReleaseBackBuffer == /\ gui.at = "count"
                     /\ queueLength' = [queueLength EXCEPT ![gui.for] = @ - 1]
                     /\ gui' = [gui EXCEPT !.at = "signal"]
                     /\ UNCHANGED <<roundVars, launched, calls, doomed, closedOne, missed, presses, rpc,
                                    end, sema, frameReceived, gone>>

SignalNotFull == LET w == gui.for IN
                 /\ gui.at = "signal"
                 /\ rpc' = [rpc EXCEPT ![w] = IF queueLength[w] = 0 /\ @ = "sleep" THEN "test"
                                              ELSE @]
                 /\ gui' = [at |-> "loop", for |-> 0]
                 /\ UNCHANGED <<roundVars, launched, calls, doomed, closedOne, missed, presses, end, sema,
                                queueLength, frameReceived, gone>>

-------------------------------------------------------------------------------
(* SN_SagePixelReceiver::run()                                               *)

Receiver(w, from, to) == /\ rpc[w] = from
                         /\ rpc' = [rpc EXCEPT ![w] = to]
                         /\ UNCHANGED <<roundVars, guiVars>>

LoopTop(w) == /\ Receiver(w, "top", IF end[w] THEN "ending" ELSE "test")
              /\ UNCHANGED <<end, sema, queueLength, frameReceived, gone>>

\* swapBuffer() waits while the counter is positive and passes when it is negative.
TestQueue(w) == /\ Receiver(w, "test", IF queueLength[w] > 0 THEN "toSleep"
                                       ELSE IF queueLength[w] = 0 THEN "swap" ELSE "emit")
                /\ UNCHANGED <<end, sema, queueLength, frameReceived, gone>>

SleepNotFull(w) == /\ Receiver(w, "toSleep", "sleep")
                   /\ UNCHANGED <<end, sema, queueLength, frameReceived, gone>>

SpuriousWake(w) == /\ Receiver(w, "sleep", "test")
                   /\ UNCHANGED <<end, sema, queueLength, frameReceived, gone>>

Swap(w) == /\ Receiver(w, "swap", "emit")
           /\ queueLength' = [queueLength EXCEPT ![w] = @ + 1]
           /\ UNCHANGED <<end, sema, frameReceived, gone>>

EmitFrame(w) == /\ Receiver(w, "emit", "acquire")
                /\ frameReceived' = [frameReceived EXCEPT ![w] = @ + 1]
                /\ UNCHANGED <<end, sema, queueLength, gone>>

\* The semaphore may already be deleted; then this is a use of freed memory that may pass or hang.
Acquire(w) == /\ sema[w] > 0
              /\ Receiver(w, "acquire", "recv")
              /\ sema' = [sema EXCEPT ![w] = @ - 1]
              /\ UNCHANGED <<end, queueLength, frameReceived, gone>>

RecvFrame(w) == /\ w \notin gone
                /\ Receiver(w, "recv", IF end[w] THEN "ending" ELSE "top")
                /\ UNCHANGED <<end, sema, queueLength, frameReceived, gone>>

RecvFails(w) == /\ w \in gone
                /\ Receiver(w, "recv", "ending")
                /\ end' = [end EXCEPT ![w] = TRUE]
                /\ UNCHANGED <<sema, queueLength, frameReceived, gone>>

\* run() has returned; until now isRunning() was true.
ThreadEnds(w) == /\ Receiver(w, "ending", "off")
                 /\ UNCHANGED <<end, sema, queueLength, frameReceived, gone>>

-------------------------------------------------------------------------------

GuiNext == \/ Launch \/ AdvanceRound \/ PracticeRound \/ ClickGoesOn \/ CloseAll
           \/ Destroy \/ ReleaseLocks \/ Destroyed \/ ReleaseBackBuffer \/ SignalNotFull
           \/ \E w \in Widgets : \/ StreamerConnects(w) \/ Miss(w) \/ Drag(w)
                                 \/ CloseOne(w) \/ HandleFrame(w)
                                 \/ \E p \in Pointers : StartRound(p, w) \/ Hit(p, w)

ReceiverNext(w) == \/ LoopTop(w) \/ TestQueue(w) \/ SleepNotFull(w) \/ SpuriousWake(w) \/ Swap(w)
                   \/ EmitFrame(w) \/ Acquire(w) \/ RecvFrame(w) \/ RecvFails(w) \/ ThreadEnds(w)

Next == GuiNext \/ \E w \in Streams : ReceiverNext(w)

Spec == Init /\ [][Next]_vars

-------------------------------------------------------------------------------
(* Properties                                                                *)

\* A pointer is trapped (handlePointerClick, finishRound, the destructor) only in a widget that
\* still runs a round and whose round is that pointer's, however rounds of several widgets begin
\* and end inside one another's clicks.
TrapHasRound == \A p \in Pointers : trap[p] # 0 =>
                    /\ trap[p] \in alive
                    /\ test[trap[p]].running
                    /\ test[trap[p]].pointer = p

\* While a real round runs, the position of the target its counters name is kept, so that the test
\* without the scheduler shows the same one (determineNextTargetPosition).
TargetKept == \A w \in alive : (test[w].running /\ ~test[w].dry /\ w \notin ToSet(calls)) =>
                  Index(test[w]) \in targetPos[w]

\* _targetPosList is never indexed past its end, not even by a click that goes on after other events
\* have finished its round and the user's last round with it.
TargetInList == \A w \in Widgets : targetPos[w] \subseteq 0 .. NumRounds * NumTargets - 1

\* What is announced of w and not given back yet.
Announced(w) == frameReceived[w] + (IF rpc[w] = "emit" THEN 1 ELSE 0)
                                 + (IF gui.at = "count" /\ gui.for = w THEN 1 ELSE 0)

\* The GUI thread is in the destructor of w.
Closing(w) == gui.at \in {"locks", "join"} /\ gui.for = w

\* The counter of the double buffer is the number of frames that are announced and not yet given
\* back.  swapBuffer() therefore never increments it while scheduleDummyUpdate() decrements it
\* without the mutex.
FramesAccounted == \A w \in alive : ~Closing(w) =>
                       /\ queueLength[w] = Announced(w)
                       /\ ~(rpc[w] = "swap" /\ gui.at = "count" /\ gui.for = w)

\* The Finish button leaves no widget that can still be clicked and would use the data object the
\* first destructor deletes (closeAll), except a user C whose place a later test took and a test
\* that came after the button; closing a single widget may leave others.
FinishIsSafe == (Idle /\ ~dataObject) =>
                    \A w \in open \ missed : (test[w].ready \/ test[w].running) => closedOne

\* A trapped pointer has a round that goes on, and the positions kept for the second test are those
\* of the targets that were shown.
RoundInv == TrapHasRound /\ TargetKept /\ TargetInList
===============================================================================
