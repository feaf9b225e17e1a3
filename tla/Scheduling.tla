------------------------------- MODULE Scheduling -------------------------------
(***************************************************************************)
(* SN_SchedulerControl, its scheduling thread and SN_ResourceMonitor.  The *)
(* GUI thread registers and destroys widgets, refreshes the monitor on a   *)
(* timer and starts and stops the scheduler; the scheduling thread runs    *)
(* doSchedule() once for every refresh it was connected to.  The widgets'  *)
(* list has a read-write lock; refresh() takes and gives it back within    *)
(* one handler of the GUI thread, so only the scheduler's hold shows.      *)
(*                                                                         *)
(* Global application ids are unique here, so the list and the map of      *)
(* widgets hold the same ones.  DividerWidget does nothing in this build   *)
(* (its fiducial widget is set by a plot that is commented out), and       *)
(* DelayDistribution creates no scheduler: neither is modelled.            *)
(***************************************************************************)
EXTENDS PerfMonitor, Sequences, FiniteSets, FiniteSetsExt, SequencesExt

CONSTANTS
    Widgets,            \* widgets that may register
    Declared,           \* the requirement a streamer declares
    Observations,       \* bandwidths a refresh may measure
    VisualShares,       \* weighted visual priorities
    InteractWeight,     \* _weight_interact
    ManualTR,           \* system/manualtotalbw, 0 when not set
    BucketParts,        \* TheSizeOfBucket is one part of so many (10 in the code)
    MaxRounds           \* bound: refreshes, and rounds of the scheduler

ASSUME SchedulingAssumption ==
    /\ IsFiniteSet(Widgets)
    /\ {"idle", "wait", "wait, then print", "kill", "gone"} \cap Widgets = {}
    /\ {Declared, InteractWeight, ManualTR, MaxRounds} \subseteq Nat
    /\ BucketParts \in Nat \ {0}
    /\ Observations \subseteq Nat
    /\ VisualShares \subseteq Nat

Full == 2100            \* quality 1.0
NaN == -1               \* a priority that is neither positive nor zero

VARIABLES
    fresh,              \* widgets not created yet: each model value is one object
    alive,              \* widgets created and not yet destroyed
    widgetList,         \* SN_ResourceMonitor::widgetList
    perf,               \* each widget's SN_PerfMonitor
    quality,            \* SN_BaseWidget::_quality in Full-ths
    effectiveTR,        \* _effective_TR_Mbps
    grid,               \* the priority grid's total: "off", "zero", "some", "nan"
    type,               \* schedType
    connected,          \* readyToSchedule() -> doSchedule()
    posted,             \* queued doSchedule() calls
    thread,             \* scheduling thread: "off", "loop", "visit", "apply", "compare"
    quitting,           \* QThread::quit() was called
    round,              \* doSchedule()'s local variables
    gui,                \* what the GUI thread is blocked in, or "idle"
    printing,           \* _printDataFlag
    dataFile,           \* "closed", "Sched" or "Nosched": the file's name
    refreshes           \* refreshes so far

registry == <<fresh, alive, widgetList>>
figures == <<perf, effectiveTR>>
control == <<type, connected, posted, thread, quitting>>
printer == <<printing, dataFile>>
vars == <<registry, figures, control, printer, quality, grid, round, gui, refreshes>>

NoRound == [order |-> <<>>]
Listed == Range(widgetList)

\* doSchedule() of ProportionalShare holds the list's lock for reading.
ReadLocked == thread \in {"visit", "apply"}
IsRunning == thread # "off"

\* The monitor starts with no widget; its first refresh finds nothing but a total
\* that is set by hand.
MonitorStarts == /\ fresh = Widgets
                 /\ alive = {}
                 /\ widgetList = <<>>
                 /\ perf = [w \in Widgets |-> NewPerf]
                 /\ quality = [w \in Widgets |-> Full]
                 /\ effectiveTR = ManualTR
                 /\ printing = FALSE
                 /\ dataFile = "closed"
                 /\ gui = "idle"
                 /\ refreshes = 0

\* buildRectangles(): a grid that is switched on starts with all cells at 0.
BuildGrid == grid \in {"off", "zero"}

\* A scheduler is created and not started: its thread is off, nothing connected.
LaunchScheduler == /\ type \in {"ProportionalShare", "SelfAdjusting"}
                   /\ connected = FALSE
                   /\ posted = 0
                   /\ thread = "off"
                   /\ quitting = FALSE
                   /\ round = NoRound

\* Only ProportionalShare reads the grid.
Init == /\ MonitorStarts
        /\ BuildGrid
        /\ LaunchScheduler
        /\ type = "ProportionalShare" \/ grid = "off"

-------------------------------------------------------------------------------
(* The GUI thread: widgets and the monitor                                   *)

\* Registering needs the lock for writing: it waits while a round holds it.
AddSchedulableWidget(w) ==
    /\ gui = "idle"
    /\ ~ReadLocked
    /\ w \in fresh
    /\ fresh' = fresh \ {w}
    /\ alive' = alive \cup {w}
    /\ widgetList' = <<w>> \o widgetList
    /\ UNCHANGED <<figures, control, printer, quality, grid, round, gui, refreshes>>

\* The widget's waiting thread has got the streamer's registration message.
StreamerConnects(w) ==
    /\ w \in alive
    /\ ~perf[w].priori
    /\ perf' = [perf EXCEPT ![w] = PrioriPerf(@, Declared)]
    /\ UNCHANGED <<registry, effectiveTR, control, printer, quality, grid, round,
                   gui, refreshes>>

\* A destructor of a widget begins: removeSchedulableWidget() asks for the lock.
CloseWidget(w) ==
    /\ gui = "idle"
    /\ w \in alive
    /\ gui' = w
    /\ UNCHANGED <<registry, figures, control, printer, quality, grid, round, refreshes>>

\* The list holds a widget once.
Without(gone) == LET I == {i \in DOMAIN widgetList : widgetList[i] = gone}
                 IN  IF I = {} THEN widgetList ELSE RemoveAt(widgetList, CHOOSE i \in I : TRUE)

\* What a destroyed object held is set back to keep the states few.
Destroyed(gone) ==
    /\ widgetList' = Without(gone)
    /\ alive' = alive \ {gone}
    /\ perf' = [perf EXCEPT ![gone] = NewPerf]
    /\ quality' = [quality EXCEPT ![gone] = Full]
    /\ gui' = "idle"

\* Mutant: the widget goes without the lock.
RemoveUnlocked ==
    /\ gui \in Widgets
    /\ Destroyed(gui)
    /\ UNCHANGED <<fresh, effectiveTR, control, printer, grid, round, refreshes>>

RemoveSchedulableWidget ==
    /\ gui \in Widgets
    /\ ~ReadLocked
    /\ Destroyed(gui)
    /\ UNCHANGED <<fresh, effectiveTR, control, printer, grid, round, refreshes>>

\* The total: set by hand; else what the widgets need, unless one of them gets
\* less than it was granted, which shows that the total was too high.
NewTotal(p) ==
    LET observed  == SumFunction([w \in Listed |-> p[w].cur])
        estimated == SumFunction([w \in Listed |-> p[w].required])
    IN  IF ManualTR # 0 THEN ManualTR
        ELSE IF \E w \in Listed : FallsShort(p[w], quality[w], Full)
             THEN Larger(effectiveTR, observed)
             ELSE estimated

\* timerEvent(): refresh() of every listed widget, then dataRefreshed(), which
\* queues a doSchedule() if the scheduler is connected; printData() follows.
Refresh ==
    /\ gui = "idle"
    /\ refreshes < MaxRounds
    /\ refreshes' = refreshes + 1
    /\ \E bw \in [Listed -> Observations] :
         /\ perf' = [w \in Widgets |-> IF w \in Listed THEN UpdateBWdata(perf[w], bw[w]) ELSE perf[w]]
         /\ effectiveTR' = NewTotal(perf')
    /\ posted' = IF connected THEN posted + 1 ELSE posted
    /\ UNCHANGED <<registry, type, connected, thread, quitting, printer, quality,
                   grid, round, gui>>

-------------------------------------------------------------------------------
(* The GUI thread: the scheduler control and the data file                   *)

Suffix(running) == IF running THEN "Sched" ELSE "Nosched"

StartScheduler ==
    /\ connected' = TRUE
    /\ thread' = "loop"
    /\ quitting' = FALSE

\* The toggle button while the scheduler is off; a file that was being written is
\* closed first and another one is opened afterwards, unless that fails.
ToggleOn ==
    /\ gui = "idle"
    /\ ~IsRunning
    /\ StartScheduler
    /\ \/ printing /\ dataFile' = Suffix(TRUE) /\ UNCHANGED printing
       \/ printing /\ dataFile' = "closed" /\ printing' = FALSE
       \/ ~printing /\ UNCHANGED printer
    /\ UNCHANGED <<registry, figures, type, posted, quality, grid, round, gui, refreshes>>

\* Mutant: the thread is waited for and not told to quit.
ToggleOffNoQuit ==
    /\ gui = "idle"
    /\ IsRunning
    /\ connected' = FALSE
    /\ gui' = IF printing THEN "wait, then print" ELSE "wait"
    /\ printing' = FALSE
    /\ dataFile' = IF printing THEN "closed" ELSE dataFile
    /\ UNCHANGED <<registry, figures, type, posted, thread, quitting, quality, grid, round, refreshes>>

\* stopScheduler() up to wait(): the signal is disconnected, calls already queued stay.
ToggleOff ==
    /\ gui = "idle"
    /\ IsRunning
    /\ connected' = FALSE
    /\ quitting' = TRUE
    /\ gui' = IF printing THEN "wait, then print" ELSE "wait"
    /\ printing' = FALSE
    /\ dataFile' = IF printing THEN "closed" ELSE dataFile
    /\ UNCHANGED <<registry, figures, type, posted, thread, quality, grid, round, refreshes>>

\* reset(): full quality for every listed widget.
Reset == [w \in Widgets |-> IF w \in Listed THEN Full ELSE quality[w]]

\* Mutant: the qualities are reset before the thread has ended.
ResetBeforeEnd ==
    /\ gui \in {"wait", "wait, then print"}
    /\ quality' = Reset
    /\ gui' = "idle"
    /\ UNCHANGED <<registry, figures, control, printer, grid, round, refreshes>>

\* wait() returns; reset() gives every listed widget its full quality.
StopScheduler ==
    /\ gui \in {"wait", "wait, then print"}
    /\ ~IsRunning
    /\ quality' = Reset
    /\ gui' = "idle"
    /\ IF gui = "wait" THEN UNCHANGED printer
       ELSE \/ dataFile' = Suffix(FALSE) /\ printing' = TRUE
            \/ UNCHANGED printer
    /\ UNCHANGED <<registry, figures, control, grid, round, refreshes>>

\* setPrintFile() of the monitor's window; opening the file may fail.
SetPrintFile ==
    /\ gui = "idle"
    /\ ~printing
    /\ \/ dataFile' = Suffix(IsRunning) /\ printing' = TRUE
       \/ dataFile' = "closed" /\ UNCHANGED printing
    /\ UNCHANGED <<registry, figures, control, quality, grid, round, gui, refreshes>>

StopPrintData ==
    /\ gui = "idle"
    /\ printing
    /\ printing' = FALSE
    /\ dataFile' = "closed"
    /\ UNCHANGED <<registry, figures, control, quality, grid, round, gui, refreshes>>

\* The event loop ends between two events; what is queued stays queued.
ThreadEnds ==
    /\ thread = "loop"
    /\ quitting
    /\ thread' = "off"
    /\ UNCHANGED <<registry, figures, type, connected, posted, quitting, printer, quality, grid,
                   round, gui, refreshes>>

\* ~SN_ResourceMonitor(): disconnect, quit and wait; then the scheduler is deleted.
KillScheduler ==
    /\ gui = "idle"
    /\ gui' = "kill"
    /\ connected' = FALSE
    /\ quitting' = TRUE
    /\ UNCHANGED <<registry, figures, type, posted, thread, printer, quality, grid, round, refreshes>>

SchedulerDeleted ==
    /\ gui = "kill"
    /\ ~IsRunning
    /\ gui' = "gone"
    /\ printing' = FALSE
    /\ dataFile' = "closed"
    /\ posted' = 0
    /\ UNCHANGED <<registry, figures, type, connected, thread, quitting, quality, grid, round,
                   refreshes>>

-------------------------------------------------------------------------------
(* Priorities                                                                *)

\* The visible part of a widget against that of all: 0 / 0 when none is visible.
Pvisual(seen, w) == IF SumFunction(seen) = 0 THEN NaN ELSE seen[w]

\* Each widget's part of the interactions since the last round; clicked holds the
\* widgets a pointer clicked or moved meanwhile, once each.
Pinteract(clicked, w) ==
    IF w \in clicked THEN InteractWeight \div Cardinality(clicked) ELSE 0

ComputePriority(seen, clicked, w) ==
    IF Pvisual(seen, w) = NaN THEN NaN ELSE Pvisual(seen, w) + Pinteract(clicked, w)

\* addPriorityOfApp(): what the sum of all cells becomes; NaN stays for good.
AddPriority(g, p) == IF g \in {"off", "nan"} \/ p = 0 THEN g
                     ELSE IF p = NaN THEN "nan" ELSE "some"

\* getPriorityOffset() divides by the sum of all cells.  Its weight is 0, which
\* makes no difference to a number and leaves NaN as it is.
WithOffset(g, p) == IF g \in {"zero", "nan"} THEN NaN ELSE p

\* The grid's total before the i-th widget of the list adds its own priority.
GridBefore(own) ==
    LET before[i \in 1 .. Len(widgetList) + 1] ==
            IF i = 1 THEN grid ELSE AddPriority(before[i - 1], own[widgetList[i - 1]])
    IN  before

\* One pass over the list: every widget's offset is read before its own priority
\* is added to the cells it covers.
Prioritize(own, before) ==
    [w \in Listed |-> WithOffset(before[CHOOSE i \in DOMAIN widgetList : widgetList[i] = w], own[w])]

\* insertMulti(): ascending priority, the later inserted of two equals first.  There
\* is one such sequence.
Ascending(prio, S) ==
    LET at(w)        == CHOOSE i \in DOMAIN widgetList : widgetList[i] = w
        before(v, w) == prio[v] < prio[w] \/ (prio[v] = prio[w] /\ at(v) > at(w))
    IN  {s \in SetToSeqs(S) : \A i, j \in DOMAIN s : i < j => before(s[i], s[j])}

-------------------------------------------------------------------------------
(* SN_ProportionalShareScheduler::doSchedule()                               *)

\* Nothing to share out, or nobody to share with: the call returns.
SkipRound ==
    /\ thread = "loop"
    /\ posted > 0
    /\ type = "ProportionalShare"
    /\ effectiveTR = 0 \/ widgetList = <<>>
    /\ posted' = posted - 1
    /\ UNCHANGED <<registry, figures, type, connected, thread, quitting, printer, quality, grid,
                   round, gui, refreshes>>

\* The lock is taken; priorities are computed.  A priority of 0 gives quality 0,
\* one that is no number gives full quality; the others compete.
RankWith(prio, sorted) ==
    /\ quality' = [w \in Widgets |-> IF w \notin Listed     THEN quality[w]
                                    ELSE IF prio[w] = 0 THEN 0
                                    ELSE IF prio[w] < 0 THEN Full
                                    ELSE quality[w]]
    /\ round' = [order |-> sorted,
                 prio  |-> prio,
                 asked |-> [w \in Range(sorted) |-> perf[w].required],
                 total |-> effectiveTR,
                 left  |-> effectiveTR,
                 got   |-> [w \in Range(sorted) |-> 0],
                 done  |-> {},
                 at    |-> 1,
                 steady |-> TRUE,
                 adjusted |-> SumFunctionOnSet(prio, Range(sorted))]
    /\ thread' = IF sorted = <<>> THEN "apply" ELSE "visit"

Rank ==
    /\ thread = "loop"
    /\ posted > 0
    /\ type = "ProportionalShare"
    /\ effectiveTR > 0 /\ widgetList # <<>>
    /\ posted' = posted - 1
    /\ UNCHANGED <<registry, perf, effectiveTR, type, connected, quitting, printer, gui, refreshes>>
    /\ \E seen \in [Listed -> VisualShares], clicked \in SUBSET Listed :
         \E own \in {[w \in Listed |-> ComputePriority(seen, clicked, w)]} :
           \E before \in {GridBefore(own)} :
             \E prio \in {Prioritize(own, before)} :
               /\ grid' = before[Len(widgetList) + 1]
               /\ \E sorted \in Ascending(prio, {w \in Listed : prio[w] > 0}) :
                    RankWith(prio, sorted)

\* What visiting w changes: an overfull share goes back, a full one is done; else
\* w takes a scoop, a bucket of its need in proportion to its priority among those
\* that are not done yet.  The need is read afresh.
Visited(r, w, need, scoop) ==
    LET settle == [r EXCEPT !.got[w] = need,
                            !.left = @ + r.got[w] - need,
                            !.done = @ \cup {w},
                            !.adjusted = @ - r.prio[w]]
    IN  IF r.got[w] >= need \/ scoop >= need - r.got[w] THEN settle
        ELSE [r EXCEPT !.got[w] = @ + scoop, !.left = @ - scoop, !.done = @ \ {w}]

\* After the last widget of a pass: another one while there is something left and
\* somebody is not done.
NextVisit(r) ==
    IF r.at < Len(r.order) THEN [r EXCEPT !.at = @ + 1]
    ELSE [r EXCEPT !.at = 1, !.adjusted = SumFunctionOnSet(r.prio, Range(r.order))]

AnotherPass(r) == r.at > 1 \/ (r.left > 0 /\ r.done # Range(r.order))

\* "steady" and "asked" only watch: did every visit find the need as it was?
Visit ==
    /\ thread = "visit"
    /\ UNCHANGED <<registry, figures, type, connected, posted, quitting, printer, quality, grid,
                   gui, refreshes>>
    /\ LET w      == round.order[round.at]
           need   == perf[w].required
           scoop  == (round.prio[w] * need) \div (BucketParts * round.adjusted)
           before == [round EXCEPT !.steady = @ /\ need = round.asked[w]]
       IN  \E r \in {Visited(before, w, need, scoop)} : round' = NextVisit(r)
    /\ thread' = IF AnotherPass(round') THEN "visit" ELSE "apply"

\* Mutant: the shares are handed out in the order of the list.
ApplyInListOrder ==
    /\ thread = "apply"
    /\ UNCHANGED <<registry, figures, type, connected, posted, quitting, printer, grid, gui,
                   refreshes>>
    /\ LET rows  == SelectSeq(widgetList, LAMBDA w : w \in Range(round.order))
           at(w) == CHOOSE i \in DOMAIN rows : rows[i] = w
       IN  quality' = [w \in Widgets |->
                         IF w \notin Range(round.order) THEN quality[w]
                         ELSE IF perf[w].required = 0 THEN 0
                         ELSE (round.got[round.order[at(w)]] * Full) \div perf[w].required]
    /\ thread' = "loop"
    /\ round' = NoRound

\* Every widget's quality is its share of what it needs now; the lock is given back.
Apply ==
    /\ thread = "apply"
    /\ UNCHANGED <<registry, figures, type, connected, posted, quitting, printer, grid, gui,
                   refreshes>>
    /\ quality' = [w \in Widgets |->
                     IF w \notin Range(round.order) THEN quality[w]
                     ELSE IF perf[w].required = 0 THEN 0
                     ELSE (round.got[w] * Full) \div perf[w].required]
    /\ thread' = "loop"
    /\ round' = NoRound

-------------------------------------------------------------------------------
(* SN_SelfAdjustingScheduler::doSchedule()                                   *)

\* SN_BaseWidget::priority().  Only ProportionalShare ever computes a priority:
\* under SelfAdjusting it stays at its first value.
Priority(w) == IF perf[w].required = 0 THEN 0 ELSE -1

\* A pair is at least another one.
AtLeast(a, b) == a[1] * b[2] >= b[1] * a[2]

Decrease == -(Full \div 10)             \* decreasingFactor
Increase == Full \div 5                 \* increasingFactor

\* rw compared with one other widget: how much the quality of rw and that of the
\* other one change.  adjustQuality() never tells that a quality cannot rise.
Adjustment(rw, other, fine, rank) ==
    LET mine   == ObservedRq(perf[rw])
        theirs == ObservedRq(perf[other])
        higher == Priority(rw) > Priority(other)
        equal  == Priority(rw) = Priority(other)
    IN  CASE fine /\ higher /\ ~AtLeast(mine, theirs)  -> <<(5 * Increase) \div (4 + rank), 0>>
          [] fine /\ equal /\ ~AtLeast(mine, theirs)   -> <<Increase, 0>>
          [] fine /\ ~higher /\ ~equal /\ AtLeast(mine, theirs) -> <<Decrease, 0>>
          [] ~fine /\ higher                           -> <<0, Decrease>>
          [] ~fine /\ equal /\ AtLeast(mine, theirs)   -> <<Decrease, 0>>
          [] ~fine /\ equal /\ ~AtLeast(mine, theirs)  -> <<0, Decrease>>
          [] OTHER                                     -> <<0, 0>>

\* The list is copied; the lock is not taken.
Copy ==
    /\ thread = "loop"
    /\ posted > 0
    /\ type = "SelfAdjusting"
    /\ posted' = posted - 1
    /\ UNCHANGED <<registry, figures, type, connected, quitting, printer, quality, grid, gui,
                   refreshes>>
    /\ IF widgetList = <<>> THEN UNCHANGED <<round, thread>>
       ELSE /\ \E order \in Ascending([w \in Listed |-> Priority(w)], Listed) :
                  round' = [order |-> order, at |-> 1]
            /\ thread' = "compare"

\* One widget, the highest first, against all others, the lowest first.
Compared(rw, rank, start) ==
    FoldLeft(LAMBDA q, other :
                LET fine  == ObservedDqAtLeast(perf[rw], start[rw], Full, 96)
                    delta == IF other = rw THEN <<0, 0>> ELSE Adjustment(rw, other, fine, rank)
                IN  [w \in Widgets |-> q[w] + IF w = rw THEN delta[1]
                                             ELSE IF w = other THEN delta[2] ELSE 0],
             IF rank = 1 THEN [start EXCEPT ![rw] = Full] ELSE start,
             round.order)

Compare ==
    /\ thread = "compare"
    /\ UNCHANGED <<registry, figures, type, connected, posted, quitting, printer, grid, gui,
                   refreshes>>
    /\ LET rw == round.order[Len(round.order) + 1 - round.at]
       IN  quality' = [w \in Widgets |-> IF w \in alive THEN Compared(rw, round.at, quality)[w]
                                          ELSE quality[w]]
    /\ IF round.at < Len(round.order)
       THEN round' = [round EXCEPT !.at = @ + 1] /\ UNCHANGED thread
       ELSE round' = NoRound /\ thread' = "loop"

-------------------------------------------------------------------------------
SchedulingThread == SkipRound \/ Rank \/ Visit \/ Apply \/ Copy \/ Compare \/ ThreadEnds

GuiContinues == RemoveSchedulableWidget \/ StopScheduler \/ SchedulerDeleted

Next == \/ \E w \in Widgets : \/ AddSchedulableWidget(w)
                              \/ StreamerConnects(w)
                              \/ CloseWidget(w)
        \/ Refresh
        \/ ToggleOn \/ ToggleOff
        \/ SetPrintFile \/ StopPrintData
        \/ KillScheduler
        \/ GuiContinues
        \/ SchedulingThread

\* A thread that can run does; a handler of the GUI thread goes on when it can.
Spec == Init /\ [][Next]_vars /\ WF_vars(SchedulingThread) /\ WF_vars(GuiContinues)

-------------------------------------------------------------------------------
(* Properties                                                                *)

TypeOK == /\ alive \subseteq Widgets \ fresh
          /\ widgetList \in Seq(alive)
          /\ perf \in [Widgets -> Perf]
          /\ effectiveTR \in Nat
          /\ posted \in 0 .. MaxRounds + 1
          /\ thread \in {"off", "loop", "visit", "apply", "compare"}
          /\ gui \in {"idle", "wait", "wait, then print", "kill", "gone"} \cup Widgets

\* Widgets whose pointers a round holds.
InUse == Range(round.order)

\* A proportional share round never works on a widget that is destroyed: the
\* destructor waits for the lock the round holds from first to last.
LockProtects == type = "ProportionalShare" => InUse \subseteq alive

\* Once stopScheduler() has returned every widget runs at its full quality, whatever
\* rounds were still queued or running when the button was pressed.
StoppedAtFull == ~IsRunning /\ gui = "idle" => \A w \in Listed : quality[w] = Full

\* The needs were those the round began with, whenever the round looked.
Steady == round.steady /\ \A w \in InUse : perf[w].required = round.asked[w]

\* A widget of higher priority is never left with less quality than one of lower
\* priority, as long as needs do not change under the round.
HigherPriorityFirst ==
    [][thread = "apply" /\ thread' = "loop" /\ Steady =>
         \A v, w \in InUse : /\ round.prio[w] > round.prio[v]
                             /\ perf[w].required > 0
                             => quality'[w] >= quality'[v]]_vars

\* When the total suffices everybody who needs something gets all of it.
EnoughServesAll ==
    [][thread = "apply" /\ thread' = "loop" /\ Steady /\
       SumFunction([w \in InUse |-> perf[w].required]) <= round.total =>
         \A w \in InUse : perf[w].required > 0 => quality'[w] = Full]_vars

\* While data is written the file's name says whether the scheduler runs.
FileNamesScheduler == printing /\ gui # "kill" => dataFile = Suffix(IsRunning)

\* Closing a widget, stopping the scheduler and the end of the monitor wait for the
\* scheduling thread, and get what they wait for.
GuiGoesOn == gui \notin {"idle", "gone"} ~> gui \in {"idle", "gone"}

\* The list holds living widgets, and so does a round of the proportional scheduler.
LockInv == TypeOK /\ LockProtects

\* Whether the scheduler runs shows in the widgets and in the data file alike.
StopInv == StoppedAtFull /\ FileNamesScheduler

\* A round serves by priority and wastes nothing.
SharesFairly == HigherPriorityFirst /\ EnoughServesAll
==============================================================================
