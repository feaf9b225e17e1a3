--------------------------- MODULE VncStreamProofs ---------------------------
(***************************************************************************)
(* Theorems about VncStream for any number of frames.  As with the double  *)
(* buffer there is one token: the mapped buffer is being made by the GUI   *)
(* thread, or on offer (bufferMapped), or being filled by the receiving    *)
(* thread, or announced by a queued frameReceived().  A failed mapping, or *)
(* a network that fails, drops the token for good.                         *)
(***************************************************************************)
EXTENDS VncStream, TLAPS

\* The types; of the flags nothing is needed but whether they are set.
TypeInv ==
    /\ mutex \in {"none", "receiver"}
    /\ frameReceived \in Nat
    /\ rpc \in {"absent", "top", "test", "wait", "network", "copy", "emit", "done"}
    /\ gpc \in {"init", "idle", "map", "lock", "join", "closed"}
    /\ pboBufIdx \in Buffer
    /\ target \in {NoBuffer} \cup Buffer
    /\ mapped \subseteq Buffer
    /\ content \in [Buffer -> {Torn} \cup Nat]
    /\ filled \in Nat
    /\ shown \in {Torn, Nothing} \cup Nat

\* The receiving thread is there from startImageRecvThread() on, and it works
\* with the mutex in hand.
ThreadInv == /\ gpc = "init" => rpc = "absent"
             /\ rpc = "absent" => gpc \in {"init", "join", "closed"}
             /\ rpc \in {"test", "network", "copy"} => mutex = "receiver"
             /\ gpc = "closed" => rpc \in {"absent", "done"}

\* Where the token is.
Mapping == gpc \in {"map", "lock"}
Filling == rpc \in {"network", "copy", "emit"}

Token == /\ Mapping => ~bufferMapped /\ ~Filling /\ frameReceived = 0
         /\ bufferMapped /\ gpc # "closed" => ~Filling /\ frameReceived = 0
         /\ Filling => ~bufferMapped /\ frameReceived = 0
         /\ frameReceived <= 1
         /\ gpc = "init" => ~bufferMapped /\ frameReceived = 0

\* Whoever has the token finds the buffer mapped; announced is what was copied.
BufferInv == /\ gpc = "lock" => pboBufIdx \in mapped
             /\ (bufferMapped /\ gpc # "closed") \/ Filling => target = pboBufIdx /\ target \in mapped
             /\ rpc = "emit" \/ frameReceived > 0 => content[pboBufIdx] = filled
             /\ gpc = "init" => content[pboBufIdx] = 0

IInv == TypeInv /\ ThreadInv /\ Token /\ BufferInv
-------------------------------------------------------------------------------
\* There is no token before the thread is started.
LEMMA InitInv == Init => IInv
<1> SUFFICES ASSUME Init PROVE IInv
  OBVIOUS
<1>1. TypeInv
  BY DEF Init, TypeInv, Buffer, NoBuffer, Nothing, Torn
<1>2. ThreadInv
  BY DEF Init, ThreadInv
<1>3. Token
  BY DEF Init, Token, Mapping, Filling
<1>4. BufferInv
  BY DEF Init, BufferInv, Filling, Buffer
<1> QED
  BY <1>1, <1>2, <1>3, <1>4 DEF IInv

\* Every step of either thread hands the token on or drops it.
LEMMA StepInv == IInv /\ [Next]_vars => IInv'
<1> SUFFICES ASSUME IInv, [Next]_vars PROVE IInv'
  OBVIOUS
<1> USE DEF IInv, TypeInv, ThreadInv, Token, BufferInv, Mapping, Filling, Buffer, NoBuffer,
            Nothing, Torn, bufferVars
<1>1. CASE RecvTop
  BY <1>1 DEF RecvTop
<1>2. CASE RecvSleep
  BY <1>2 DEF RecvSleep
<1>3. CASE RecvWake
  BY <1>3 DEF RecvWake
<1>4. CASE TakeBuffer
  BY <1>4 DEF TakeBuffer
<1>5. CASE NetworkDone
  BY <1>5 DEF NetworkDone
<1>6. CASE NetworkFails
  BY <1>6 DEF NetworkFails
<1>7. CASE CopyDone
  BY <1>7 DEF CopyDone
<1>8. CASE Emit
  BY <1>8 DEF Emit
<1>9. CASE StartThread
  BY <1>9 DEF StartThread, Upload
<1>10. CASE Update
  BY <1>10 DEF Update, Upload
<1>11. CASE MapBuffer
  <2>1. CASE mapped' = mapped \cup {pboBufIdx} /\ gpc' = "lock"
    BY <1>11, <2>1 DEF MapBuffer
  <2>2. CASE mapped' = mapped /\ gpc' = "idle"
    BY <1>11, <2>2 DEF MapBuffer
  <2> QED
    BY <1>11, <2>1, <2>2 DEF MapBuffer
<1>12. CASE Signal
  BY <1>12 DEF Signal
<1>13. CASE CloseBegin
  BY <1>13 DEF CloseBegin
<1>14. CASE Join
  BY <1>14 DEF Join
<1>15. CASE ServerGoes
  BY <1>15 DEF ServerGoes
<1>16. CASE SpuriousWake
  BY <1>16 DEF SpuriousWake
<1>17. CASE UNCHANGED vars
  BY <1>17 DEF vars
<1> QED
  BY <1>1, <1>2, <1>3, <1>4, <1>5, <1>6, <1>7, <1>8, <1>9, <1>10, <1>11, <1>12, <1>13, <1>14,
     <1>15, <1>16, <1>17
     DEF Next, ReceiverStep, GuiStep, InitFails, UserCloses, ThreadCloses

-------------------------------------------------------------------------------
\* scheduleUpdate() never blocks on _pbomutex while receivingThread() keeps it
\* for the network, and memcpy() goes into the buffer that is mapped.
THEOREM SharesBufferThm == Spec => []SharesBuffer
<1>1. IInv => SharesBuffer
  BY DEF IInv, Token, BufferInv, Mapping, Filling, SharesBuffer, GuiNeverWaitsForNetwork,
         CopiesIntoMapped
<1> QED
  BY InitInv, StepInv, <1>1, PTL DEF Spec

\* scheduleUpdate() uploads the frame copied last, whole, or undefined contents
\* of a buffer nothing was copied into.
THEOREM UploadsFreshThm == Spec => UploadsFresh
<1> DEFINE Fresh == shown' # shown => shown' \in {0, filled}
<1>1. IInv /\ [Next]_vars => [Fresh]_vars
  <2> SUFFICES ASSUME IInv, Next, shown' # shown PROVE shown' \in {0, filled}
    BY DEF vars
  <2>1. StartThread \/ Update
    BY DEF Next, ReceiverStep, GuiStep, InitFails, UserCloses, ThreadCloses, CloseBegin,
           RecvTop, RecvSleep, RecvWake, TakeBuffer, NetworkDone, NetworkFails, CopyDone, Emit,
           MapBuffer, Signal, Join, ServerGoes, SpuriousWake
  <2> QED
    BY <2>1 DEF IInv, TypeInv, BufferInv, StartThread, Update, Upload
<1> QED
  BY InitInv, StepInv, <1>1, PTL DEF Spec, UploadsFresh
===============================================================================
