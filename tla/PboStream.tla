------------------------------- MODULE PboStream -------------------------------
(***************************************************************************)
(* The frame hand-off of a streaming widget that draws through OpenGL pixel *)
(* buffer objects: the PBO branch of SN_SagePixelReceiver::run, in its own  *)
(* thread, with SN_SageStreamWidget::schedulePboUpdate and the widget's     *)
(* destructor in the GUI thread.  The receiver emits frameReceived() with   *)
(* the mutex held and sleeps until the GUI thread has mapped a buffer for   *)
(* it; each side keeps an index of its own and flips it once per frame.     *)
(*                                                                          *)
(* The scheduler's pauses are left to StreamWidget.  Frame 0 stands for the *)
(* undefined contents that allocating a buffer leaves in it.                *)
(***************************************************************************)
EXTENDS Integers

CONSTANTS
    NumFrames,      \* the frames the sender sends before it falls silent
    MapFails,       \* the driver may fail to map a buffer
    Closes          \* users may close the widget

ASSUME PboNumFramesAssumption == NumFrames \in Nat
ASSUME PboChoicesAssumption == {MapFails, Closes} \subseteq BOOLEAN

VARIABLES
    mutex,          \* the thread that holds _pbomutex, or "none"
    asleep,         \* the receiver sleeps on _pbobufferready
    frameReceived,  \* frameReceived() signals queued to the GUI thread
    rpc, gpc,       \* where the receiver and the GUI thread are
    ridx, gidx,     \* _pboBufIdx of the receiver and of the widget
    mapped,         \* the buffers that are mapped into memory
    bufarray,       \* whether _pbobufarray[i] is null or was ever a mapping
    content,        \* the frame in each buffer object
    isFirstFrame,
    filled,         \* the last frame received completely
    shown,          \* the last contents uploaded to the texture
    end,            \* SN_SagePixelReceiver::_end
    stream,         \* the streaming socket: "open", "eof" or "shut"
    spurious        \* history: pthread_cond_wait() has returned without a signal

receiverVars == <<rpc, ridx, filled, spurious>>
guiVars      == <<gpc, gidx, mapped, bufarray, isFirstFrame, shown>>
streamVars   == <<end, stream>>
vars == <<receiverVars, guiVars, streamVars, mutex, asleep, frameReceived, content>>

Torn    == -2               \* what a buffer holds while recv() is writing into it
Nothing == -1               \* nothing was uploaded yet
Buffer  == 0..1

\* _initPboMutex(): nobody holds the mutex, nobody sleeps.
InitPboMutex == mutex = "none" /\ asleep = FALSE

Init == /\ InitPboMutex
        /\ frameReceived = 0
        /\ rpc = "lock" /\ gpc = "idle"
        /\ ridx = 0 /\ gidx = 0
        /\ mapped = {}
        /\ bufarray = [i \in Buffer |-> "null"]
        /\ content = [i \in Buffer |-> 0]
        /\ isFirstFrame = TRUE
        /\ filled = 0
        /\ shown = Nothing
        /\ end = FALSE
        /\ stream = "open"
        /\ spurious = FALSE

-------------------------------------------------------------------------------
(* The receiver                                                              *)

RecvLock == /\ rpc = "lock"
            /\ mutex = "none"
            /\ mutex' = "receiver"
            /\ rpc' = "emit"
            /\ UNCHANGED <<guiVars, streamVars, asleep, frameReceived, content, ridx, filled, spurious>>

Emit == /\ rpc = "emit"
        /\ frameReceived' = frameReceived + 1
        /\ rpc' = "sleep"
        /\ UNCHANGED <<guiVars, streamVars, mutex, asleep, content, ridx, filled, spurious>>

\* pthread_cond_wait() joins the sleepers and gives up the mutex in one step.
Sleep == /\ rpc = "sleep"
         /\ mutex' = "none"
         /\ asleep' = TRUE
         /\ rpc' = "wait"
         /\ UNCHANGED <<guiVars, streamVars, frameReceived, content, ridx, filled, spurious>>

\* Mutant: the receiver keeps its index.
WakeSameBuffer == /\ rpc = "wait"
                  /\ ~asleep
                  /\ mutex = "none"
                  /\ rpc' = IF bufarray[ridx] = "null" THEN "top" ELSE "recv"
                  /\ UNCHANGED <<guiVars, streamVars, mutex, asleep, frameReceived, content, ridx,
                                 filled, spurious>>

\* No condition is looked at: the mutex is taken and given up again, the index
\* flipped, and a null pointer skipped.
Wake == /\ rpc = "wait"
        /\ ~asleep
        /\ mutex = "none"
        /\ ridx' = 1 - ridx
        /\ rpc' = IF bufarray[1 - ridx] = "null" THEN "top" ELSE "recv"
        /\ UNCHANGED <<guiVars, streamVars, mutex, asleep, frameReceived, content, filled, spurious>>

\* while (!_end)
Top == /\ rpc = "top"
       /\ rpc' = IF end THEN "done" ELSE "lock"
       /\ UNCHANGED <<guiVars, streamVars, mutex, asleep, frameReceived, content, ridx, filled, spurious>>

\* Nothing is received through a socket that endReceiver() has closed.
RecvBegin == /\ rpc = "recv"
             /\ stream # "shut"
             /\ filled < NumFrames
             /\ content' = [content EXCEPT ![ridx] = Torn]
             /\ rpc' = "fill"
             /\ UNCHANGED <<guiVars, streamVars, mutex, asleep, frameReceived, ridx, filled, spurious>>

FrameComplete == /\ rpc = "fill"
                 /\ content' = [content EXCEPT ![ridx] = filled + 1]
                 /\ filled' = filled + 1
                 /\ rpc' = IF end THEN "done" ELSE "top"
                 /\ UNCHANGED <<guiVars, streamVars, mutex, asleep, frameReceived, ridx, spurious>>

RecvFails == /\ rpc \in {"recv", "fill"}
             /\ stream # "open"
             /\ end' = TRUE
             /\ rpc' = "done"
             /\ UNCHANGED <<guiVars, mutex, asleep, frameReceived, content, ridx, filled, stream,
                            spurious>>

\* POSIX allows it; one is enough to bring the two indices out of step, and with
\* more the queue of signals has no bound.
SpuriousWake == /\ asleep
                /\ ~spurious
                /\ asleep' = FALSE
                /\ spurious' = TRUE
                /\ UNCHANGED <<rpc, ridx, filled, guiVars, streamVars, mutex, frameReceived,
                               content>>

SenderLeaves == /\ stream = "open"
                /\ stream' = "eof"
                /\ UNCHANGED <<receiverVars, guiVars, mutex, asleep, frameReceived, content, end>>

-------------------------------------------------------------------------------
(* schedulePboUpdate() on a queued frameReceived()                           *)

\* Mutant: the buffer that is about to be mapped is drawn.
UpdateOther == /\ gpc = "idle"
               /\ frameReceived > 0
               /\ frameReceived' = frameReceived - 1
               /\ gidx' = 1 - gidx
               /\ mapped' = IF isFirstFrame THEN mapped ELSE mapped \ {gidx}
               /\ shown' = content[1 - gidx]
               /\ isFirstFrame' = FALSE
               /\ gpc' = "map"
               /\ UNCHANGED <<receiverVars, streamVars, mutex, asleep, content, bufarray>>

\* The index is flipped, the buffer the receiver has filled is unmapped and
\* uploaded to the texture; _pbobufarray keeps its pointer.
Update == /\ gpc = "idle"
          /\ frameReceived > 0
          /\ frameReceived' = frameReceived - 1
          /\ gidx' = 1 - gidx
          /\ mapped' = IF isFirstFrame THEN mapped ELSE mapped \ {gidx}
          /\ shown' = content[gidx]
          /\ isFirstFrame' = FALSE
          /\ gpc' = "map"
          /\ UNCHANGED <<receiverVars, streamVars, mutex, asleep, content, bufarray>>

\* The other buffer is allocated anew and mapped.
MapBuffer == /\ gpc = "map"
             /\ content' = [content EXCEPT ![gidx] = 0]
             /\ \E ok \in IF MapFails THEN BOOLEAN ELSE {TRUE} :
                   /\ mapped' = IF ok THEN mapped \cup {gidx} ELSE mapped
                   /\ bufarray' = [bufarray EXCEPT ![gidx] = IF ok THEN "pointer" ELSE "null"]
             /\ gpc' = "lock"
             /\ UNCHANGED <<receiverVars, streamVars, mutex, asleep, frameReceived, gidx,
                            isFirstFrame, shown>>

\* The mutex is taken, the condition signalled and the mutex given up.
Signal == /\ gpc = "lock"
          /\ mutex = "none"
          /\ asleep' = FALSE
          /\ gpc' = "idle"
          /\ UNCHANGED <<receiverVars, streamVars, mutex, frameReceived, content, gidx, mapped,
                         bufarray, isFirstFrame, shown>>

-------------------------------------------------------------------------------
(* ~SN_SageStreamWidget                                                      *)

CloseBegin == /\ gpc = "idle"
              /\ end' = TRUE
              /\ stream' = "shut"
              /\ gpc' = "wake"
              /\ UNCHANGED <<receiverVars, mutex, asleep, frameReceived, content, gidx, mapped,
                             bufarray, isFirstFrame, shown>>

UserCloses == Closes /\ CloseBegin

\* finished() is connected to close().
FinishedCloses == rpc = "done" /\ CloseBegin

\* Mutant: the signal is left out.
WakeNobody == /\ gpc = "wake"
              /\ gpc' = "join"
              /\ UNCHANGED <<receiverVars, streamVars, mutex, asleep, frameReceived, content, gidx,
                             mapped, bufarray, isFirstFrame, shown>>

\* pthread_cond_signal() without the mutex and without a flag.
WakeReceiver == /\ gpc = "wake"
                /\ asleep' = FALSE
                /\ gpc' = "join"
                /\ UNCHANGED <<receiverVars, streamVars, mutex, frameReceived, content, gidx, mapped,
                               bufarray, isFirstFrame, shown>>

Join == /\ gpc = "join"
        /\ rpc = "done"
        /\ gpc' = "closed"
        /\ UNCHANGED <<receiverVars, streamVars, mutex, asleep, frameReceived, content, gidx, mapped,
                       bufarray, isFirstFrame, shown>>

-------------------------------------------------------------------------------
ReceiverStep == \/ RecvLock \/ Emit \/ Sleep \/ Wake \/ Top
                \/ RecvBegin \/ FrameComplete \/ RecvFails

GuiStep == Update \/ MapBuffer \/ Signal \/ FinishedCloses \/ WakeReceiver \/ Join

Next == ReceiverStep \/ GuiStep \/ UserCloses \/ SenderLeaves \/ SpuriousWake

\* Both threads run.  Users, the sender and spurious wake-ups are not counted on.
Spec == /\ Init /\ [][Next]_vars
        /\ WF_vars(ReceiverStep)
        /\ WF_vars(GuiStep)

-------------------------------------------------------------------------------
\* recv() writes only through a pointer whose buffer is mapped, and at most one buffer
\* is mapped, none that is being uploaded: the two indices are kept in step although
\* each thread flips its own.  (The wait has no condition: after a spurious wake-up
\* nothing keeps them so.)
MappedInStep == /\ rpc = "fill" /\ ~spurious => ridx \in mapped
                /\ mapped \subseteq {gidx}
                /\ gpc = "map" => mapped = {}

\* What is uploaded is the frame received last, never a part of one, and no frame
\* twice; only a buffer nothing was received into shows undefined contents.
UploadsFresh == [][shown' # shown /\ ~spurious => shown' \in {0, filled}]_vars

\* Every frame is uploaded unless the stream ends or the widget is closed.
EveryFrameUploaded ==
    \A n \in 1..NumFrames : (rpc = "top" /\ content[ridx] = n) ~> (shown = n \/ end \/ spurious)

\* A receiver that ended, for whatever reason, has its widget destroyed.
FinishedPboCloses == (rpc = "done") ~> (gpc = "closed")

\* A destructor that meets a receiver asleep or receiving gets through its wait():
\* the signal without which, a comment says, that wait() "will block forever".
ClosesAsleepOrReceiving ==
    (gpc = "wake" /\ rpc \in {"wait", "top", "recv", "fill"}) ~> (gpc = "closed")

\* What was received is what is drawn: whole, and every frame.
Uploads == UploadsFresh /\ EveryFrameUploaded

\* The widget goes when its stream ends, and a destructor that finds the receiver
\* asleep or receiving ends.
WidgetCloses == FinishedPboCloses /\ ClosesAsleepOrReceiving
===============================================================================
