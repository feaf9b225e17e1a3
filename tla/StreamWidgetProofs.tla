-------------------------- MODULE StreamWidgetProofs --------------------------
(***************************************************************************)
(* Theorems about DoubleBuffer and about StreamWidget, for every number of *)
(* frames, with and without a scheduler that pauses the receiver.          *)
(*                                                                         *)
(* The invariant of the double buffer is inductive because it says where   *)
(* the one token of the hand-off is: a flipped frame is either not         *)
(* announced yet, or announced by a queued signal, or in the hands of the  *)
(* GUI thread.  In the widget the token is still there while the receiver  *)
(* runs; once it is finished, scheduleUpdate() throws announcements away,  *)
(* and there are at most as many of them as frames.  The destructor begins *)
(* where the GUI thread has nothing in hand, and from there on the double  *)
(* buffer is in no order at all: its unlocked releaseBackBuffer() breaks   *)
(* the monitor.                                                            *)
(***************************************************************************)
EXTENDS StreamWidget, TLAPS

-------------------------------------------------------------------------------
(* The double buffer alone                                                   *)

Closed == pc["gui"] = "closed"

\* The receiver holds the mutex exactly inside its critical section, and so
\* does the GUI thread.
MutexInv == /\ mutex = "receiver" <=> pc["receiver"] \in {"test", "sleep", "flip", "unlock"}
            /\ mutex = "gui" <=> pc["gui"] \in {"test", "sleep", "read", "release"}

\* Only a thread inside pthread_cond_wait() is asleep; the receiver flips an
\* empty buffer and goes to sleep before a full one; the length is negative exactly after releaseLocks().
MonitorInv == /\ \A t \in asleep : pc[t] = "wait"
              /\ pc["receiver"] = "flip" => queueLength = 0
              /\ \A t \in Thread : pc[t] = "sleep" => MustWait(t)
              /\ Closed <=> queueLength = -1

\* Where the announcement of the frame in the back buffer is.
Unannounced == pc["receiver"] \in {"unlock", "signal", "emit"}
Taken       == pc["gui"] \in {"lock", "test", "sleep", "wait", "read", "release"}

TokenInv ==
    ~Closed => queueLength = (IF Unannounced THEN 1 ELSE 0) + frameReceived
                                + (IF Taken THEN 1 ELSE 0)

\* The frames that are flipped but not converted: the one in a full buffer,
\* unless the GUI thread has converted it already.
Offered == IF queueLength = 1 /\ pc["gui"] # "release" THEN 1 ELSE 0

\* The receiver has a complete frame in the front buffer.
Loaded == pc["receiver"] \in {"lock", "test", "sleep", "wait", "flip"}

FrameInv == /\ Loaded => doubleBuffer[bufferIndex] = filled
            /\ ~Closed => filled = shown + Offered + (IF Loaded THEN 1 ELSE 0)
            /\ ~Closed /\ queueLength = 1 => BackBuffer = shown + Offered
            /\ ~Closed /\ pc["gui"] = "release" => shown >= 0
            /\ pc["receiver"] = "fill" => filled < NumFrames

IInv == /\ TypeOK
        /\ MutexInv
        /\ MonitorInv
        /\ TokenInv
        /\ FrameInv
        /\ NoLostNotFull
-------------------------------------------------------------------------------
(* What follows from the invariant in one state.                             *)

\* A thread inside getBackBuffer() holds the token, so there is a frame.
LEMMA TakenFrame == ASSUME IInv, Taken PROVE queueLength = 1 /\ frameReceived = 0
BY NumFramesAssumption DEF IInv, TypeOK, MonitorInv, TokenInv, Taken, Closed

-------------------------------------------------------------------------------
(* The invariant holds initially, and every step preserves it.               *)

\* An empty buffer, a free mutex and frame 0 about to be handed over.
LEMMA InitInv == Init => IInv
BY NumFramesAssumption
   DEF Init, IInv, TypeOK, MutexInv, MonitorInv, TokenInv, FrameInv, NoLostNotFull,
       Closed, Unannounced, Taken, Offered, Loaded, BackBuffer, Thread, Torn, Nothing, MustWait

\* One step of either thread, or of nobody.
LEMMA StepInv == IInv /\ [Next]_vars => IInv'
<1> SUFFICES ASSUME IInv, [Next]_vars PROVE IInv'
  OBVIOUS
<1> USE NumFramesAssumption
    DEF IInv, TypeOK, MutexInv, MonitorInv, TokenInv, FrameInv, NoLostNotFull,
        Closed, Unannounced, Taken, Offered, Loaded, BackBuffer, Thread, Torn, Nothing,
        Goto, MustWait, bufferVars
<1>1. ASSUME NEW t \in Thread, Lock(t) PROVE IInv'
  BY <1>1 DEF Lock
<1>2. ASSUME NEW t \in Thread, Wait(t) PROVE IInv'
  BY <1>2 DEF Wait
<1>3. ASSUME NEW t \in Thread, Sleep(t) PROVE IInv'
  BY <1>3 DEF Sleep
<1>4. ASSUME NEW t \in Thread, Wake(t) PROVE IInv'
  BY <1>4 DEF Wake
<1>5. ASSUME NEW t \in Thread, SpuriousWake(t) PROVE IInv'
  BY <1>5 DEF SpuriousWake
<1>6. CASE SwapTest
  BY <1>6 DEF SwapTest
<1>7. CASE SwapFlip
  BY <1>7 DEF SwapFlip
<1>8. CASE SwapUnlock
  BY <1>8 DEF SwapUnlock
<1>9. CASE SwapSignal
  BY <1>9 DEF SwapSignal
<1>10. CASE Emit
  BY <1>10 DEF Emit
<1>11. CASE RecvBegin
  BY <1>11 DEF RecvBegin
<1>12. CASE RecvEnd
  BY <1>12 DEF RecvEnd
<1>13. CASE ScheduleUpdate
  BY <1>13 DEF ScheduleUpdate
<1>14. CASE GetBackBuffer
  BY <1>14 DEF GetBackBuffer
<1>15. CASE Convert
  BY <1>15 DEF Convert
<1>16. CASE ReleaseBackBuffer
  BY <1>16 DEF ReleaseBackBuffer
<1>17. CASE ReleaseSignal
  BY <1>17 DEF ReleaseSignal
<1>18. CASE ReleaseLocks
  BY <1>18 DEF ReleaseLocks
<1>19. CASE UNCHANGED vars
  BY <1>19 DEF vars
<1> QED
  BY <1>1, <1>2, <1>3, <1>4, <1>5, <1>6, <1>7, <1>8, <1>9, <1>10,
     <1>11, <1>12, <1>13, <1>14, <1>15, <1>16, <1>17, <1>18, <1>19
     DEF Next, Receiver, Gui, Monitor

-------------------------------------------------------------------------------
\* The variables keep their types, for every number of frames.
THEOREM TypeCorrect == Spec => []TypeOK
<1>1. IInv => TypeOK
  BY DEF IInv
<1> QED
  BY InitInv, StepInv, <1>1, PTL DEF Spec

\* What the GUI thread draws is never a frame recv() is writing.
THEOREM NoTearingThm == Spec => []NoTearing
<1>1. IInv => NoTearing
  BY TakenFrame DEF IInv, TypeOK, MonitorInv, FrameInv, Closed, Offered, Taken, NoTearing,
                    BackBuffer, Nothing
<1> QED
  BY InitInv, StepInv, <1>1, PTL DEF Spec

\* A sleeping receiver never misses the signal that a buffer became free.
THEOREM NoLostNotFullThm == Spec => []NoLostNotFull
<1>1. IInv => NoLostNotFull
  BY DEF IInv
<1> QED
  BY InitInv, StepInv, <1>1, PTL DEF Spec

\* The GUI thread is never asleep inside getBackBuffer().
THEOREM GuiNeverWaitsThm == Spec => []GuiNeverWaits
<1>1. Init => GuiNeverWaits
  BY DEF Init, GuiNeverWaits
<1>2. IInv /\ GuiNeverWaits /\ [Next]_vars => GuiNeverWaits'
  <2> SUFFICES ASSUME IInv, GuiNeverWaits, [Next]_vars PROVE GuiNeverWaits'
    OBVIOUS
  <2> USE DEF GuiNeverWaits, Goto, IInv, TypeOK
  <2>1. ASSUME NEW t \in Thread, Wait(t) PROVE GuiNeverWaits'
    <3>1. t = "receiver"
      BY <2>1, TakenFrame DEF Wait, MustWait, Thread, Taken
    <3> QED
      BY <2>1, <3>1 DEF Wait
  <2>2. ASSUME NEW t \in Thread, Lock(t) \/ Sleep(t) \/ Wake(t) \/ SpuriousWake(t)
        PROVE  GuiNeverWaits'
    BY <2>2 DEF Lock, Sleep, Wake, SpuriousWake, Thread
  <2>3. CASE SwapTest \/ SwapFlip \/ SwapUnlock \/ SwapSignal \/ Emit \/ RecvBegin \/ RecvEnd
    BY <2>3 DEF SwapTest, SwapFlip, SwapUnlock, SwapSignal, Emit, RecvBegin, RecvEnd
  <2>4. CASE ScheduleUpdate \/ GetBackBuffer \/ Convert \/ ReleaseBackBuffer \/ ReleaseSignal
              \/ ReleaseLocks
    BY <2>4 DEF ScheduleUpdate, GetBackBuffer, Convert, ReleaseBackBuffer, ReleaseSignal,
                ReleaseLocks
  <2>5. CASE UNCHANGED vars
    BY <2>5 DEF vars
  <2> QED
    BY <2>1, <2>2, <2>3, <2>4, <2>5 DEF Next, Receiver, Gui, Monitor, Thread
<1> QED
  BY InitInv, StepInv, <1>1, <1>2, PTL DEF Spec

\* A conversion shows the frame after the last one shown; nothing else ends it.
THEOREM FramesInOrderThm == Spec => FramesInOrder
<1> DEFINE Conversion == pc["gui"] = "read" /\ pc'["gui"] # "read" => shown' = shown + 1
<1>1. IInv /\ [Next]_vars => [Conversion]_vars
  <2> SUFFICES ASSUME IInv, Next, pc["gui"] = "read", pc'["gui"] # "read"
               PROVE  shown' = shown + 1
    BY DEF vars
  <2>1. Convert
    BY DEF IInv, TypeOK, Next, Receiver, Gui, Monitor, Thread, Goto, Lock, Wait, Sleep,
           Wake, SpuriousWake, SwapTest, SwapFlip, SwapUnlock, SwapSignal, Emit, RecvBegin, RecvEnd,
           ScheduleUpdate, GetBackBuffer, ReleaseBackBuffer, ReleaseSignal, ReleaseLocks
  <2> QED
    BY <2>1, TakenFrame DEF IInv, TypeOK, FrameInv, Closed, Offered, Taken, Convert, BackBuffer
<1> QED
  BY InitInv, StepInv, <1>1, PTL DEF Spec, FramesInOrder

-------------------------------------------------------------------------------
(* The double buffer implements the one-place hand-off (its safety part).    *)

\* Nothing is on offer and nothing was shown.
LEMMA InitRefines == Init => Handoff!Init
BY DEF Init, Handoff!Init, Slot, Nothing, Handoff!Empty

\* The flip offers, the conversion takes, releaseLocks() closes.
LEMMA StepRefines == IInv /\ [Next]_vars => [Handoff!Next]_<<Slot, shown>>
<1> SUFFICES ASSUME IInv, [Next]_vars PROVE [Handoff!Next]_<<Slot, shown>>
  OBVIOUS
<1> USE DEF IInv, TypeOK, Goto, Slot, BackBuffer, Nothing, Handoff!Empty, Handoff!Closed
<1>1. CASE SwapFlip
  <2>1. queueLength = 0 /\ pc["gui"] \notin {"closed", "release"} /\ bufferIndex \in 0..1
    BY <1>1 DEF SwapFlip, MonitorInv, Closed, MutexInv
  <2>2. doubleBuffer[bufferIndex] = shown + 1
    BY <1>1, <2>1, NumFramesAssumption DEF SwapFlip, FrameInv, Loaded, Offered, Closed
  <2>3. /\ queueLength' = 1 /\ pc'["gui"] = pc["gui"] /\ shown' = shown
        /\ BackBuffer' = doubleBuffer[bufferIndex]
    BY <1>1, <2>1 DEF SwapFlip
  <2>4. Slot = -1 /\ Slot' = shown + 1
    BY <2>1, <2>2, <2>3
  <2> QED
    BY <2>3, <2>4 DEF Handoff!Next, Handoff!Offer
<1>2. CASE Convert
  <2>1. queueLength = 1 /\ pc["gui"] = "read" /\ pc'["gui"] = "release"
    BY <1>2, TakenFrame DEF Convert, Taken
  <2>2. BackBuffer >= 0
    BY <2>1 DEF FrameInv, Offered, Closed, Nothing
  <2>3. Slot = BackBuffer /\ Slot' = -1 /\ shown' = BackBuffer
    BY <1>2, <2>1 DEF Convert, bufferVars
  <2> QED
    BY <2>2, <2>3 DEF Handoff!Next, Handoff!Take
<1>3. CASE ReleaseLocks
  <2>1. Handoff!Close
    BY <1>3 DEF ReleaseLocks, Handoff!Close, MonitorInv, FrameInv, Offered, Closed, Nothing
  <2> QED
    BY <2>1 DEF Handoff!Next
<1>4. CASE ReleaseBackBuffer
  BY <1>4, TakenFrame DEF ReleaseBackBuffer, Taken
<1>5. CASE RecvBegin \/ RecvEnd
  BY <1>5 DEF RecvBegin, RecvEnd
<1>6. ASSUME NEW t \in Thread, Monitor(t) \/ SpuriousWake(t) PROVE UNCHANGED <<Slot, shown>>
  BY <1>6 DEF Monitor, Lock, Wait, Sleep, Wake, SpuriousWake, bufferVars, Thread
<1>7. CASE SwapTest \/ SwapUnlock \/ SwapSignal \/ Emit
  BY <1>7 DEF SwapTest, SwapUnlock, SwapSignal, Emit, bufferVars
<1>8. CASE ScheduleUpdate \/ GetBackBuffer \/ ReleaseSignal
  BY <1>8 DEF ScheduleUpdate, GetBackBuffer, ReleaseSignal, bufferVars
<1>9. CASE UNCHANGED vars
  BY <1>9 DEF vars, bufferVars
<1> QED
  BY <1>1, <1>2, <1>3, <1>4, <1>5, <1>6, <1>7, <1>8, <1>9 DEF Next, Receiver, Gui, Thread

\* Every behaviour of the two threads is a behaviour of the one-place slot.
THEOREM Refinement == Spec => Handoff!Init /\ [][Handoff!Next]_<<Slot, shown>>
BY InitInv, StepInv, InitRefines, StepRefines, PTL DEF Spec

-------------------------------------------------------------------------------
(* The streaming widget                                                      *)

\* The types, for the widget's labels and a length that the destructor lowers.
WidgetTypeInv ==
    /\ queueLength \in Int
    /\ bufferIndex \in 0..1
    /\ doubleBuffer \in [0..1 -> {Torn} \cup Nat]
    /\ mutex \in {"none"} \cup Thread
    /\ asleep \in SUBSET Thread
    /\ frameReceived \in Nat
    /\ pc \in [receiver : {"lock", "test", "sleep", "wait", "flip", "unlock", "signal", "emit",
                           "recv", "fill", "pace", "done"},
               gui : {"idle", "lock", "test", "sleep", "wait", "read", "release", "check",
                      "end", "drop", "dropunlock", "dropcheck", "unblock", "join", "closed"}]
    /\ filled \in Nat
    /\ shown \in {Nothing} \cup Nat

\* The monitor, before releaseLocks().
OpenMonitorInv == /\ MutexInv
                  /\ queueLength \in {0, 1}
                  /\ \A t \in asleep : pc[t] = "wait"
                  /\ pc["receiver"] = "flip" => queueLength = 0
                  /\ \A t \in Thread : pc[t] = "sleep" => MustWait(t)
                  /\ NoLostNotFull

\* The announcements; those of a finished receiver may be dropped.
Tokens == (IF Unannounced THEN 1 ELSE 0) + frameReceived + (IF Taken THEN 1 ELSE 0)

OpenTokenInv == IF Finished THEN queueLength >= Tokens ELSE queueLength = Tokens

\* The receiver has a complete frame in the front buffer, also before Pace.
InFront == Loaded \/ pc["receiver"] = "pace"

\* The frames.  A finished receiver may have left a torn one in the front buffer.
OpenFrameInv == /\ InFront => doubleBuffer[bufferIndex] = filled
                /\ ~Finished => filled = shown + Offered + (IF InFront THEN 1 ELSE 0)
                /\ queueLength = 1 => BackBuffer = shown + Offered
                /\ pc["gui"] = "release" => shown >= 0

OpenInv == OpenMonitorInv /\ OpenTokenInv /\ OpenFrameInv

\* As long as the widget is not being closed everything is in order.
WidgetInv == WidgetTypeInv /\ (~Closing => OpenInv)
-------------------------------------------------------------------------------
\* A GUI thread between ScheduleUpdate and the release has a frame.
LEMMA OpenTakenFrame ==
    ASSUME WidgetInv, Taken
    PROVE  queueLength = 1 /\ frameReceived = 0 /\ ~Closing /\ ~Unannounced
BY DEF WidgetInv, WidgetTypeInv, OpenInv, OpenMonitorInv, OpenTokenInv, Tokens, Taken, Closing,
       Unannounced

\* As in DoubleBuffer.
LEMMA WidgetInitInv == WidgetInit => WidgetInv
BY DEF WidgetInit, Init, WidgetInv, WidgetTypeInv, Closing, OpenInv, OpenMonitorInv, MutexInv,
       OpenTokenInv, OpenFrameInv, NoLostNotFull, Tokens, Unannounced, Taken, Offered, Loaded, InFront,
       Finished, BackBuffer, Thread, Torn, Nothing, MustWait

\* A step of a thread, the sender, the scheduler or the user.
LEMMA WidgetStepInv == WidgetInv /\ [WidgetNext]_widgetVars => WidgetInv'
<1> SUFFICES ASSUME WidgetInv, [WidgetNext]_widgetVars PROVE WidgetInv'
  OBVIOUS
<1> USE DEF WidgetInv, WidgetTypeInv, Closing, OpenInv, OpenMonitorInv, MutexInv,
            OpenTokenInv, OpenFrameInv, NoLostNotFull, Tokens, Unannounced, Taken, Offered, Loaded,
            InFront, Finished, BackBuffer, Thread, Torn, Nothing, MustWait, Goto, bufferVars
<1>1. ASSUME NEW t \in Thread, Lock(t) PROVE WidgetInv'
  BY <1>1 DEF Lock
<1>2. ASSUME NEW t \in Thread, Wait(t) PROVE WidgetInv'
  BY <1>2 DEF Wait
<1>3. ASSUME NEW t \in Thread, Sleep(t) PROVE WidgetInv'
  BY <1>3 DEF Sleep
<1>4. ASSUME NEW t \in Thread, Wake(t) PROVE WidgetInv'
  BY <1>4 DEF Wake
<1>5. ASSUME NEW t \in Thread, SpuriousWake(t) PROVE WidgetInv'
  BY <1>5 DEF SpuriousWake
<1>6. CASE SwapTest
  BY <1>6 DEF SwapTest
<1>7. CASE SwapFlip
  BY <1>7 DEF SwapFlip
<1>8. CASE SwapUnlock
  BY <1>8 DEF SwapUnlock
<1>9. CASE SwapSignal
  BY <1>9 DEF SwapSignal
<1>10. CASE Emit
  BY <1>10 DEF Emit
<1>11. CASE RecvBegin
  BY <1>11 DEF RecvBegin
<1>12. CASE FrameComplete
  BY <1>12 DEF FrameComplete
<1>13. CASE RecvFails
  BY <1>13 DEF RecvFails
<1>14. CASE Pace
  BY <1>14 DEF Pace
<1>15. CASE ScheduleUpdate
  BY <1>15 DEF ScheduleUpdate
<1>16. CASE SkipUpdate
  BY <1>16 DEF SkipUpdate
<1>17. CASE GetBackBuffer
  BY <1>17 DEF GetBackBuffer
<1>18. CASE Convert
  BY <1>18 DEF Convert
<1>19. CASE ReleaseBackBuffer
  BY <1>19 DEF ReleaseBackBuffer
<1>20. CASE ReleaseSignal
  BY <1>20 DEF ReleaseSignal
<1>21. CASE CloseBegin
  BY <1>21 DEF CloseBegin
<1>22. CASE Destroy
  <2>1. Closing /\ Closing'
    BY <1>22 DEF Destroy, EndReceiver, DropBackBuffer, DropUnlock, DropSignal, Unblock, Join
  <2>2. WidgetTypeInv'
    <3>1. CASE EndReceiver
      BY <3>1 DEF EndReceiver
    <3>2. CASE DropBackBuffer
      BY <3>2 DEF DropBackBuffer
    <3>3. CASE DropUnlock
      BY <3>3 DEF DropUnlock
    <3>4. CASE DropSignal
      BY <3>4 DEF DropSignal
    <3>5. CASE Unblock
      BY <3>5 DEF Unblock
    <3>6. CASE Join
      BY <3>6 DEF Join
    <3> QED
      BY <1>22, <3>1, <3>2, <3>3, <3>4, <3>5, <3>6 DEF Destroy
  <2> QED
    BY <2>1, <2>2
<1>23. CASE UNCHANGED vars
  BY <1>23 DEF vars
<1> QED
  <2>1. CASE UNCHANGED widgetVars
    BY <1>23, <2>1 DEF widgetVars
  <2>2. CASE SenderLeaves \/ SetDelay
    BY <1>23, <2>2 DEF SenderLeaves, SetDelay
  <2>3. CASE ReceiverStep
    BY <1>1, <1>2, <1>3, <1>4, <1>6, <1>7, <1>8, <1>9, <1>10, <1>11, <1>12, <1>13, <1>14, <2>3
       DEF ReceiverStep, SwapOrEmit, Monitor
  <2>4. CASE GuiStep
    BY <1>1, <1>2, <1>3, <1>4, <1>15, <1>16, <1>17, <1>18, <1>19, <1>20, <1>21, <1>22, <2>4
       DEF GuiStep, Consume, Update, FinishedCloses, Monitor
  <2> QED
    BY <1>5, <1>21, <2>1, <2>2, <2>3, <2>4 DEF WidgetNext, UserCloses

-------------------------------------------------------------------------------
\* What a widget draws is never a frame that recv() is writing, also while its
\* receiver ends in the middle of one.
THEOREM WidgetNoTearingThm == WidgetSpec => []NoTearing
<1>1. WidgetInv => NoTearing
  <2> SUFFICES ASSUME WidgetInv, pc["gui"] \in {"read", "release"} PROVE BackBuffer \in Nat
    BY DEF NoTearing
  <2>1. queueLength = 1 /\ OpenFrameInv
    BY OpenTakenFrame DEF WidgetInv, OpenInv, Taken, Closing
  <2> QED
    BY <2>1 DEF OpenFrameInv, Offered, WidgetInv, WidgetTypeInv, Nothing
<1> QED
  BY WidgetInitInv, WidgetStepInv, <1>1, PTL DEF WidgetSpec

\* Until the widget is closed the receiver never sleeps on before a free buffer.
THEOREM SleepsOnlyOnFullThm == WidgetSpec => []SleepsOnlyOnFull
<1>1. WidgetInv => SleepsOnlyOnFull
  BY DEF WidgetInv, OpenInv, OpenMonitorInv, SleepsOnlyOnFull
<1> QED
  BY WidgetInitInv, WidgetStepInv, <1>1, PTL DEF WidgetSpec

\* The GUI thread never sleeps in getBackBuffer(), not even for a receiver that
\* is finished: the wall would stand still.
THEOREM WidgetGuiNeverWaitsThm == WidgetSpec => []GuiNeverWaits
<1>1. WidgetInit => GuiNeverWaits
  BY DEF WidgetInit, Init, GuiNeverWaits
<1>2. WidgetInv /\ GuiNeverWaits /\ [WidgetNext]_widgetVars => GuiNeverWaits'
  <2> SUFFICES ASSUME WidgetInv, GuiNeverWaits, [WidgetNext]_widgetVars,
                      pc'["gui"] \in {"sleep", "wait"}
               PROVE  FALSE
    BY DEF GuiNeverWaits
  <2> USE DEF Goto, WidgetInv, WidgetTypeInv
  <2>1. ~Wait("gui")
    BY OpenTakenFrame DEF Wait, MustWait, Taken
  <2>2. pc["gui"] \notin {"sleep", "wait"}
    BY DEF GuiNeverWaits
  <2>3. ~UNCHANGED pc
    BY <2>2
  <2>4. ~(\E t \in Thread : Monitor(t) \/ SpuriousWake(t))
    BY <2>1, <2>2 DEF Monitor, Lock, Wait, Sleep, Wake, SpuriousWake, Thread
  <2>5. ~ReceiverStep
    BY <2>2, <2>4 DEF ReceiverStep, SwapOrEmit, SwapTest, SwapFlip, SwapUnlock, SwapSignal, Emit,
                      RecvBegin, FrameComplete, RecvFails, Pace, Thread
  <2>6. ~GuiStep
    BY <2>2, <2>3, <2>4
       DEF GuiStep, Consume, Update, ScheduleUpdate, SkipUpdate, FinishedCloses, CloseBegin, Destroy,
           GetBackBuffer, Convert, ReleaseBackBuffer, ReleaseSignal,
           EndReceiver, DropBackBuffer, DropUnlock, DropSignal, Unblock, Join, Thread
  <2> QED
    BY <2>2, <2>3, <2>4, <2>5, <2>6
       DEF WidgetNext, SenderLeaves, SetDelay, UserCloses, CloseBegin, widgetVars, vars
<1> QED
  BY WidgetInitInv, WidgetStepInv, <1>1, <1>2, PTL DEF WidgetSpec

\* The conversion, and nothing else, leaves "read" (the destructor waits for the
\* event loop).
LEMMA OnlyConvert ==
    ASSUME WidgetInv, [WidgetNext]_widgetVars,
           shown' # shown \/ (pc["gui"] = "read" /\ pc'["gui"] # "read")
    PROVE  Convert
<1> USE DEF Goto, WidgetInv, WidgetTypeInv
<1>1. ~UNCHANGED <<pc, shown>>
  OBVIOUS
<1>2. ~(\E t \in Thread : Monitor(t) \/ SpuriousWake(t))
  BY DEF Monitor, Lock, Wait, Sleep, Wake, SpuriousWake, Thread
<1>3. ~ReceiverStep
  BY <1>2 DEF ReceiverStep, SwapOrEmit, SwapTest, SwapFlip, SwapUnlock, SwapSignal, Emit,
              RecvBegin, FrameComplete, RecvFails, Pace, Thread
<1>4. GuiStep => Convert
  BY <1>1, <1>2
     DEF GuiStep, Consume, Update, ScheduleUpdate, SkipUpdate, FinishedCloses, CloseBegin, Destroy,
         GetBackBuffer, ReleaseBackBuffer, ReleaseSignal,
         EndReceiver, DropBackBuffer, DropUnlock, DropSignal, Unblock, Join, Thread
<1> QED
  BY <1>1, <1>2, <1>3, <1>4
     DEF WidgetNext, SenderLeaves, SetDelay, UserCloses, CloseBegin, widgetVars, vars

\* Frames are shown one by one in the order received, until the widget is closed
\* and however its receiver ends.
THEOREM WidgetFramesInOrderThm == WidgetSpec => FramesInOrder
<1> DEFINE Conversion == pc["gui"] = "read" /\ pc'["gui"] # "read" => shown' = shown + 1
<1>1. WidgetInv /\ [WidgetNext]_widgetVars => [Conversion]_vars
  <2> SUFFICES ASSUME WidgetInv, [WidgetNext]_widgetVars, pc["gui"] = "read", pc'["gui"] # "read"
               PROVE  shown' = shown + 1
    OBVIOUS
  <2>1. Convert
    BY OnlyConvert
  <2> QED
    BY <2>1, OpenTakenFrame
       DEF WidgetInv, OpenInv, OpenFrameInv, Offered, Taken, Convert, BackBuffer
<1> QED
  BY WidgetInitInv, WidgetStepInv, <1>1, PTL DEF WidgetSpec, FramesInOrder

-------------------------------------------------------------------------------
(* The widget implements the one-place hand-off (its safety part).           *)

\* Nothing is on offer and nothing was shown.
LEMMA WidgetInitRefines == WidgetInit => WidgetHandoff!Init
BY DEF WidgetInit, Init, WidgetHandoff!Init, WidgetHandoff!Empty, Closing, Slot, Nothing

\* The flip offers, the conversion takes, the beginning of the destructor closes;
\* after that nothing is seen of the hand-off any more.
LEMMA WidgetStepRefines ==
    WidgetInv /\ [WidgetNext]_widgetVars
        => [WidgetHandoff!Next]_<<IF Closing THEN -2 ELSE Slot, shown>>
<1> SUFFICES ASSUME WidgetInv, [WidgetNext]_widgetVars
             PROVE  [WidgetHandoff!Next]_<<IF Closing THEN -2 ELSE Slot, shown>>
  OBVIOUS
<1> DEFINE slot == IF Closing THEN -2 ELSE Slot
<1> USE DEF WidgetInv, WidgetTypeInv, Goto, Closing, Slot, BackBuffer, Nothing,
            WidgetHandoff!Empty, WidgetHandoff!Closed
<1>1. CASE SwapFlip
  <2>1. CASE Closing
    BY <1>1, <2>1 DEF SwapFlip
  <2>2. CASE ~Closing
    <3>1. queueLength = 0 /\ pc["gui"] # "release" /\ bufferIndex \in 0..1
      BY <1>1, <2>2 DEF SwapFlip, OpenInv, OpenMonitorInv, MutexInv
    <3>2. doubleBuffer[bufferIndex] = shown + 1
      BY <1>1, <2>2, <3>1
         DEF SwapFlip, OpenInv, OpenFrameInv, Offered, InFront, Loaded, Finished
    <3>3. /\ queueLength' = 1 /\ pc'["gui"] = pc["gui"] /\ shown' = shown
          /\ BackBuffer' = doubleBuffer[bufferIndex]
      BY <1>1, <3>1 DEF SwapFlip
    <3>4. slot = -1 /\ slot' = shown + 1
      BY <2>2, <3>1, <3>2, <3>3
    <3> QED
      BY <3>3, <3>4 DEF WidgetHandoff!Next, WidgetHandoff!Offer
  <2> QED
    BY <2>1, <2>2
<1>2. CASE Convert
  <2>1. queueLength = 1 /\ ~Closing /\ pc["gui"] = "read" /\ pc'["gui"] = "release"
    BY <1>2, OpenTakenFrame DEF Convert, Taken
  <2>2. BackBuffer >= 0
    BY <2>1 DEF OpenInv, OpenFrameInv, Offered
  <2>3. slot = BackBuffer /\ slot' = -1 /\ shown' = BackBuffer
    BY <1>2, <2>1 DEF Convert, bufferVars
  <2> QED
    BY <2>2, <2>3 DEF WidgetHandoff!Next, WidgetHandoff!Take
<1>3. CASE CloseBegin
  <2>1. slot # -2 /\ slot' = -2 /\ shown' = shown
    BY <1>3 DEF CloseBegin, OpenInv, OpenMonitorInv, OpenFrameInv, Offered, bufferVars
  <2> QED
    BY <2>1 DEF WidgetHandoff!Next, WidgetHandoff!Close
<1>4. CASE Destroy
  BY <1>4 DEF Destroy, EndReceiver, DropBackBuffer, DropUnlock, DropSignal, Unblock, Join
<1>5. CASE ReleaseBackBuffer
  BY <1>5, OpenTakenFrame DEF ReleaseBackBuffer, Taken
<1>6. CASE RecvBegin \/ FrameComplete
  BY <1>6 DEF RecvBegin, FrameComplete
<1>7. ASSUME NEW t \in Thread, Monitor(t) \/ SpuriousWake(t) PROVE UNCHANGED <<slot, shown>>
  BY <1>7 DEF Monitor, Lock, Wait, Sleep, Wake, SpuriousWake, bufferVars, Thread
<1>8. CASE SwapTest \/ SwapUnlock \/ SwapSignal \/ Emit \/ RecvFails \/ Pace
  BY <1>8 DEF SwapTest, SwapUnlock, SwapSignal, Emit, RecvFails, Pace, bufferVars
<1>9. CASE ScheduleUpdate \/ SkipUpdate \/ GetBackBuffer \/ ReleaseSignal
  BY <1>9 DEF ScheduleUpdate, SkipUpdate, GetBackBuffer, ReleaseSignal, bufferVars
<1>10. CASE UNCHANGED vars
  BY <1>10 DEF vars, bufferVars
<1> QED
  BY <1>1, <1>2, <1>3, <1>4, <1>5, <1>6, <1>7, <1>8, <1>9, <1>10
     DEF WidgetNext, ReceiverStep, SwapOrEmit, GuiStep, Consume, Update, FinishedCloses, UserCloses,
         SenderLeaves, SetDelay, Thread, widgetVars

\* Every behaviour of a widget, with pauses, a sender that leaves and a destructor
\* at any moment, is a behaviour of the one-place slot.
THEOREM WidgetRefinement ==
    WidgetSpec => WidgetHandoff!Init
                  /\ [][WidgetHandoff!Next]_<<IF Closing THEN -2 ELSE Slot, shown>>
BY WidgetInitInv, WidgetStepInv, WidgetInitRefines, WidgetStepRefines, PTL DEF WidgetSpec
===============================================================================
