----------------------------- MODULE DoubleBuffer -----------------------------
(***************************************************************************)
(* The frame hand-off of one streaming widget: class DoubleBuffer with the *)
(* receiver thread (SN_SagePixelReceiver::run, branch without a PBO) as    *)
(* its producer and the GUI thread (SN_SageStreamWidget::scheduleUpdate)   *)
(* as its consumer.  One action is one step that the other thread can see: *)
(* an acquire or a release of the mutex, a wait, a wake-up, an access to   *)
(* queueLength, or an access to one of the two buffers.                    *)
(*                                                                         *)
(* Frame 0 is what the buffers hold before anything was received: run()    *)
(* swaps before its first recv(), so it is the first frame handed over.    *)
(***************************************************************************)
EXTENDS Integers

CONSTANT NumFrames      \* the frames the sender sends before it falls silent

ASSUME NumFramesAssumption == NumFrames \in Nat

VARIABLES
    queueLength,    \* 1: the back buffer holds a frame, 0: it does not, -1: released
    bufferIndex,    \* the front buffer
    doubleBuffer,   \* the frame in each of the two buffers
    mutex,          \* the thread that holds _mutex, or "none"
    asleep,         \* the receiver asleep on _notFull, the GUI thread on _notEmpty
    frameReceived,  \* frameReceived() signals queued to the GUI thread
    pc,             \* where each thread is
    filled,         \* the last frame received completely
    shown           \* the last frame converted for drawing

bufferVars == <<queueLength, bufferIndex, doubleBuffer>>
vars == <<bufferVars, mutex, asleep, frameReceived, pc, filled, shown>>

Thread == {"receiver", "gui"}

Torn    == -2               \* what a buffer holds while recv() is writing into it
Nothing == -1               \* no frame was shown yet

BackBuffer == doubleBuffer[1 - bufferIndex]

\* Mutant: the receiver waits one frame too late.
MustWaitOffByOne(t) == \/ t = "receiver" /\ queueLength > 1
                       \/ t = "gui" /\ queueLength = 0

\* The condition of the while loop around pthread_cond_wait in swapBuffer()
\* and in getBackBuffer().
MustWait(t) == \/ t = "receiver" /\ queueLength > 0
               \/ t = "gui" /\ queueLength = 0

Goto(t, label) == pc' = [pc EXCEPT ![t] = label]

Init == /\ queueLength = 0
        /\ bufferIndex = 0
        /\ doubleBuffer = [i \in 0..1 |-> 0]
        /\ mutex = "none"
        /\ asleep = {}
        /\ frameReceived = 0
        /\ pc = [receiver |-> "lock", gui |-> "idle"]
        /\ filled = 0
        /\ shown = Nothing

-------------------------------------------------------------------------------
(* The monitor: how swapBuffer() and getBackBuffer() begin.                  *)

Lock(t) == /\ pc[t] = "lock"
           /\ mutex = "none"
           /\ mutex' = t
           /\ Goto(t, "test")
           /\ UNCHANGED <<bufferVars, asleep, frameReceived, filled, shown>>

Wait(t) == /\ pc[t] = "test"
           /\ MustWait(t)
           /\ Goto(t, "sleep")
           /\ UNCHANGED <<bufferVars, mutex, asleep, frameReceived, filled, shown>>

\* pthread_cond_wait() joins the sleepers and gives up the mutex in one step.
Sleep(t) == /\ pc[t] = "sleep"
            /\ mutex' = "none"
            /\ asleep' = asleep \cup {t}
            /\ Goto(t, "wait")
            /\ UNCHANGED <<bufferVars, frameReceived, filled, shown>>

Wake(t) == /\ pc[t] = "wait"
           /\ t \notin asleep
           /\ mutex = "none"
           /\ mutex' = t
           /\ Goto(t, "test")
           /\ UNCHANGED <<bufferVars, asleep, frameReceived, filled, shown>>

\* pthread_cond_wait() may return without a signal.
SpuriousWake(t) == /\ t \in asleep
                   /\ asleep' = asleep \ {t}
                   /\ UNCHANGED <<bufferVars, mutex, frameReceived, pc, filled, shown>>

-------------------------------------------------------------------------------
(* The receiver: swapBuffer(), emit frameReceived(), getFrontBuffer(), recv() *)

\* A released buffer (queueLength < 0) is neither flipped nor counted.
SwapTest == /\ pc["receiver"] = "test"
            /\ ~MustWait("receiver")
            /\ Goto("receiver", IF queueLength = 0 THEN "flip" ELSE "unlock")
            /\ UNCHANGED <<bufferVars, mutex, asleep, frameReceived, filled, shown>>

\* Mutant: the frame is counted but the buffers are not exchanged.
SwapCountOnly == /\ pc["receiver"] = "flip"
                 /\ queueLength' = queueLength + 1
                 /\ Goto("receiver", "unlock")
                 /\ UNCHANGED <<bufferIndex, doubleBuffer, mutex, asleep, frameReceived, filled, shown>>

SwapFlip == /\ pc["receiver"] = "flip"
            /\ bufferIndex' = 1 - bufferIndex
            /\ queueLength' = queueLength + 1
            /\ Goto("receiver", "unlock")
            /\ UNCHANGED <<doubleBuffer, mutex, asleep, frameReceived, filled, shown>>

SwapUnlock == /\ pc["receiver"] = "unlock"
              /\ mutex' = "none"
              /\ Goto("receiver", "signal")
              /\ UNCHANGED <<bufferVars, asleep, frameReceived, filled, shown>>

SwapSignal == /\ pc["receiver"] = "signal"
              /\ asleep' = asleep \ {"gui"}
              /\ Goto("receiver", "emit")
              /\ UNCHANGED <<bufferVars, mutex, frameReceived, filled, shown>>

\* Mutant: the signal is connected to the slot twice.
EmitTwice == /\ pc["receiver"] = "emit"
             /\ frameReceived' = frameReceived + 2
             /\ Goto("receiver", "recv")
             /\ UNCHANGED <<bufferVars, mutex, asleep, filled, shown>>

Emit == /\ pc["receiver"] = "emit"
        /\ frameReceived' = frameReceived + 1
        /\ Goto("receiver", "recv")
        /\ UNCHANGED <<bufferVars, mutex, asleep, filled, shown>>

\* Mutant: recv() is given the back buffer.
RecvIntoBack == /\ pc["receiver"] = "recv"
                /\ filled < NumFrames
                /\ doubleBuffer' = [doubleBuffer EXCEPT ![1 - bufferIndex] = Torn]
                /\ Goto("receiver", "fill")
                /\ UNCHANGED <<queueLength, bufferIndex, mutex, asleep, frameReceived, filled, shown>>

\* recv() writes the next frame into the front buffer, without the mutex.
RecvBegin == /\ pc["receiver"] = "recv"
             /\ filled < NumFrames
             /\ doubleBuffer' = [doubleBuffer EXCEPT ![bufferIndex] = Torn]
             /\ Goto("receiver", "fill")
             /\ UNCHANGED <<queueLength, bufferIndex, mutex, asleep, frameReceived, filled, shown>>

RecvEnd == /\ pc["receiver"] = "fill"
           /\ doubleBuffer' = [doubleBuffer EXCEPT ![bufferIndex] = filled + 1]
           /\ filled' = filled + 1
           /\ Goto("receiver", "lock")
           /\ UNCHANGED <<queueLength, bufferIndex, mutex, asleep, frameReceived, shown>>

-------------------------------------------------------------------------------
(* The GUI thread: scheduleUpdate() on a queued frameReceived()              *)

ScheduleUpdate == /\ pc["gui"] = "idle"
                  /\ frameReceived > 0
                  /\ frameReceived' = frameReceived - 1
                  /\ Goto("gui", "lock")
                  /\ UNCHANGED <<bufferVars, mutex, asleep, filled, shown>>

\* getBackBuffer() returns with the mutex held; the image is converted under it.
GetBackBuffer == /\ pc["gui"] = "test"
                 /\ ~MustWait("gui")
                 /\ Goto("gui", "read")
                 /\ UNCHANGED <<bufferVars, mutex, asleep, frameReceived, filled, shown>>

Convert == /\ pc["gui"] = "read"
           /\ shown' = BackBuffer
           /\ Goto("gui", "release")
           /\ UNCHANGED <<bufferVars, mutex, asleep, frameReceived, filled>>

ReleaseBackBuffer == /\ pc["gui"] = "release"
                     /\ queueLength' = queueLength - 1
                     /\ mutex' = "none"
                     /\ Goto("gui", "check")
                     /\ UNCHANGED <<bufferIndex, doubleBuffer, asleep, frameReceived, filled, shown>>

\* Mutant: releaseBackBuffer() does not signal _notFull.
ReleaseNoSignal == /\ pc["gui"] = "check"
                   /\ Goto("gui", "idle")
                   /\ UNCHANGED <<bufferVars, mutex, asleep, frameReceived, filled, shown>>

\* queueLength is read again after the mutex was given up.
ReleaseSignal == /\ pc["gui"] = "check"
                 /\ asleep' = IF queueLength = 0 THEN asleep \ {"receiver"} ELSE asleep
                 /\ Goto("gui", "idle")
                 /\ UNCHANGED <<bufferVars, mutex, frameReceived, filled, shown>>

\* releaseLocks(), when the widget is being closed.
ReleaseLocks == /\ pc["gui"] = "idle"
                /\ mutex = "none"
                /\ queueLength' = -1
                /\ asleep' = {}
                /\ Goto("gui", "closed")
                /\ UNCHANGED <<bufferIndex, doubleBuffer, mutex, frameReceived, filled, shown>>

-------------------------------------------------------------------------------
Monitor(t) == Lock(t) \/ Wait(t) \/ Sleep(t) \/ Wake(t)

Receiver == \/ Monitor("receiver") \/ SwapTest \/ SwapFlip \/ SwapUnlock \/ SwapSignal
            \/ Emit \/ RecvBegin \/ RecvEnd

Gui == \/ Monitor("gui") \/ ScheduleUpdate \/ GetBackBuffer \/ Convert
       \/ ReleaseBackBuffer \/ ReleaseSignal

Next == Receiver \/ Gui \/ ReleaseLocks \/ \E t \in Thread : SpuriousWake(t)

\* Both threads run, and the GUI thread gets a mutex that is free again and again
\* (spurious wake-ups may let the receiver take it any number of times).  Nobody
\* has to close the widget, and no spurious wake-up has to happen.
Spec == /\ Init /\ [][Next]_vars
        /\ WF_vars(Receiver)
        /\ WF_vars(Gui)
        /\ SF_vars(Lock("gui"))

-------------------------------------------------------------------------------
TypeOK == /\ queueLength \in {-1, 0, 1}
          /\ bufferIndex \in 0..1
          /\ doubleBuffer \in [0..1 -> {Torn} \cup Nat]
          /\ mutex \in {"none"} \cup Thread
          /\ asleep \in SUBSET Thread
          /\ frameReceived \in Nat
          /\ pc \in [receiver : {"lock", "test", "sleep", "wait", "flip", "unlock",
                                 "signal", "emit", "recv", "fill"},
                     gui : {"idle", "lock", "test", "sleep", "wait", "read", "release",
                            "check", "closed"}]
          /\ filled \in 0..NumFrames
          /\ shown \in {Nothing} \cup Nat

\* While the GUI thread converts the back buffer, recv() never writes into it:
\* what is drawn is one complete frame (getBackBuffer to releaseBackBuffer,
\* against the recv() that runs outside the mutex).
NoTearing == pc["gui"] \in {"read", "release"} => BackBuffer \in Nat

\* A receiver asleep on _notFull has a full buffer in front of it or a consumer
\* that will still signal: releaseBackBuffer tests queueLength after it gave up
\* the mutex, and the test never misses a sleeper.
NoLostNotFull == "receiver" \in asleep => (queueLength = 1 \/ pc["gui"] = "check")

\* The GUI thread never blocks on _notEmpty: one frameReceived() is queued per
\* swapped frame, so scheduleUpdate finds a frame whenever it runs.
GuiNeverWaits == pc["gui"] \notin {"sleep", "wait"}

\* Frames are converted in the order received, none skipped, none twice.
FramesInOrder == [][pc["gui"] = "read" /\ pc'["gui"] # "read" => shown' = shown + 1]_vars

\* The buffer implements the one-place hand-off: a frame is on offer from the
\* flip to the conversion.
Slot == IF queueLength < 0 THEN -2
        ELSE IF queueLength = 1 /\ pc["gui"] # "release" THEN BackBuffer ELSE -1

Handoff == INSTANCE FrameHandoff WITH slot <- Slot

HandoffSpec == Handoff!Spec
===============================================================================
