--------------------------- MODULE PboStreamProofs ---------------------------
(***************************************************************************)
(* Theorems about PboStream for any number of frames.  Receiver and GUI    *)
(* thread take turns although nothing in the code counts turns: the        *)
(* receiver announces a buffer and sleeps, the GUI thread flips its index, *)
(* maps the other buffer and signals, and the receiver flips its own.      *)
(* That holds until pthread_cond_wait() returns without a signal, and      *)
(* until the widget is closed, whose signal has no buffer behind it.       *)
(***************************************************************************)
EXTENDS PboStream, TLAPS

\* The types; of the flags nothing is needed but whether they are set.
TypeInv ==
    /\ mutex \in {"none", "receiver"}
    /\ frameReceived \in Nat
    /\ rpc \in {"lock", "emit", "sleep", "wait", "top", "recv", "fill", "done"}
    /\ gpc \in {"idle", "map", "lock", "wake", "join", "closed"}
    /\ ridx \in Buffer /\ gidx \in Buffer
    /\ mapped \subseteq Buffer
    /\ bufarray \in [Buffer -> {"null", "pointer"}]
    /\ content \in [Buffer -> {Torn} \cup Nat]
    /\ filled \in Nat
    /\ shown \in {Torn, Nothing} \cup Nat

Closing == gpc \in {"wake", "join", "closed"}

\* The turns are kept.
Regular == ~spurious /\ ~Closing

\* The receiver announces and falls asleep with the mutex in hand; nothing is
\* received through a socket that is shut.
ThreadInv == /\ rpc \in {"emit", "sleep"} => mutex = "receiver"
             /\ Closing => stream = "shut"
             /\ asleep => rpc = "wait"

\* The GUI thread works on an announcement.
Updating == gpc \in {"map", "lock"}

\* What the GUI thread does to the two buffers on its own.
MapInv == /\ mapped \subseteq {gidx}
          /\ gpc = "map" => mapped = {}
          /\ isFirstFrame => mapped = {} /\ ~Updating
          /\ gpc # "map" /\ bufarray[gidx] = "pointer" => gidx \in mapped

\* The receiver has announced a buffer and nothing has been signalled yet.
Announced == rpc = "sleep" \/ (rpc = "wait" /\ asleep)

\* Whose turn it is, and where the two indices are then.
TurnInv ==
    Regular =>
        /\ Announced => /\ frameReceived = (IF Updating THEN 0 ELSE 1)
                        /\ ridx = (IF Updating THEN 1 - gidx ELSE gidx)
        /\ ~Announced => /\ frameReceived = 0 /\ ~Updating
                         /\ ridx = (IF rpc = "wait" THEN 1 - gidx ELSE gidx)

\* recv() writes into the mapped buffer; a buffer in nobody's hands holds the
\* last frame or nothing.
BufferInv == /\ rpc = "recv" /\ Regular => ridx \in mapped
             /\ rpc = "fill" /\ ~spurious => ridx \in mapped
             /\ rpc \notin {"fill", "done"} /\ gpc # "map" /\ Regular => content[gidx] \in {0, filled}

IInv == TypeInv /\ ThreadInv /\ MapInv /\ TurnInv /\ BufferInv
-------------------------------------------------------------------------------
\* It is the receiver's turn; nothing is mapped.
LEMMA InitInv == Init => IInv
<1> SUFFICES ASSUME Init PROVE IInv
  OBVIOUS
<1>1. TypeInv
  BY DEF Init, InitPboMutex, TypeInv, Buffer, Nothing, Torn
<1>2. ThreadInv /\ MapInv
  BY DEF Init, InitPboMutex, ThreadInv, MapInv, Closing, Updating, Buffer
<1>3. TurnInv
  BY DEF Init, InitPboMutex, TurnInv, Regular, Closing, Announced, Updating
<1>4. BufferInv
  BY DEF Init, BufferInv, Regular, Buffer
<1> QED
  BY <1>1, <1>2, <1>3, <1>4 DEF IInv

\* Every step keeps the turns or ends them.
LEMMA StepInv == IInv /\ [Next]_vars => IInv'
<1> SUFFICES ASSUME IInv, [Next]_vars PROVE IInv'
  OBVIOUS
<1> USE DEF IInv, TypeInv, ThreadInv, MapInv, TurnInv, BufferInv, Regular, Closing, Updating,
            Announced, Buffer, Nothing, Torn, receiverVars, guiVars, streamVars
<1>1. CASE RecvLock
  BY <1>1 DEF RecvLock
<1>2. CASE Emit
  BY <1>2 DEF Emit
<1>3. CASE Sleep
  BY <1>3 DEF Sleep
<1>4. CASE Wake
  BY <1>4 DEF Wake
<1>5. CASE Top
  BY <1>5 DEF Top
<1>6. CASE RecvBegin
  BY <1>6 DEF RecvBegin
<1>7. CASE FrameComplete
  BY <1>7 DEF FrameComplete
<1>8. CASE RecvFails
  BY <1>8 DEF RecvFails
<1>9. CASE Update
  BY <1>9 DEF Update
<1>10. CASE MapBuffer
  <2>1. gpc = "map" /\ gpc' = "lock" /\ content' = [content EXCEPT ![gidx] = 0]
    BY <1>10 DEF MapBuffer
  <2>2. \/ /\ mapped' = mapped \cup {gidx}
           /\ bufarray' = [bufarray EXCEPT ![gidx] = "pointer"]
        \/ mapped' = mapped /\ bufarray' = [bufarray EXCEPT ![gidx] = "null"]
    BY <1>10 DEF MapBuffer
  <2>3. UNCHANGED <<receiverVars, streamVars, mutex, asleep, frameReceived, gidx,
                    isFirstFrame, shown>>
    BY <1>10 DEF MapBuffer
  <2> QED
    BY <2>1, <2>2, <2>3
<1>11. CASE Signal
  BY <1>11 DEF Signal
<1>12. CASE CloseBegin
  BY <1>12 DEF CloseBegin
<1>13. CASE WakeReceiver
  BY <1>13 DEF WakeReceiver
<1>14. CASE Join
  BY <1>14 DEF Join
<1>15. CASE SenderLeaves
  BY <1>15 DEF SenderLeaves
<1>16. CASE SpuriousWake
  BY <1>16 DEF SpuriousWake
<1>17. CASE UNCHANGED vars
  BY <1>17 DEF vars
<1> QED
  BY <1>1, <1>2, <1>3, <1>4, <1>5, <1>6, <1>7, <1>8, <1>9, <1>10, <1>11, <1>12, <1>13, <1>14,
     <1>15, <1>16, <1>17
     DEF Next, ReceiverStep, GuiStep, UserCloses, FinishedCloses

-------------------------------------------------------------------------------
\* As long as no wait() returned by itself, recv() writes through a pointer whose
\* buffer is mapped; and never more than one buffer is, none while one is uploaded.
THEOREM MappedInStepThm == Spec => []MappedInStep
<1>1. IInv => MappedInStep
  BY DEF IInv, MapInv, BufferInv, MappedInStep
<1> QED
  BY InitInv, StepInv, <1>1, PTL DEF Spec

\* schedulePboUpdate() uploads the frame received last, whole, or the undefined
\* contents of a buffer nothing was received into.
THEOREM UploadsFreshThm == Spec => UploadsFresh
<1> DEFINE Fresh == shown' # shown /\ ~spurious => shown' \in {0, filled}
<1>1. IInv /\ [Next]_vars => [Fresh]_vars
  <2> SUFFICES ASSUME IInv, Next, shown' # shown, ~spurious PROVE shown' \in {0, filled}
    BY DEF vars
  <2>1. Update
    BY DEF Next, ReceiverStep, GuiStep, UserCloses, FinishedCloses, CloseBegin, guiVars,
           RecvLock, Emit, Sleep, Wake, Top, RecvBegin, FrameComplete, RecvFails, MapBuffer, Signal,
           WakeReceiver, Join, SenderLeaves, SpuriousWake
  <2>2. Regular /\ gpc = "idle" /\ frameReceived > 0
    BY <2>1 DEF Update, Regular, Closing
  <2>3. rpc \notin {"fill", "done"}
    BY <2>2 DEF IInv, TypeInv, TurnInv, Announced
  <2> QED
    BY <2>1, <2>2, <2>3 DEF IInv, TypeInv, BufferInv, Update
<1> QED
  BY InitInv, StepInv, <1>1, PTL DEF Spec, UploadsFresh
===============================================================================
