------------------------------- MODULE VncStream -------------------------------
(***************************************************************************)
(* A VNC viewer widget that draws through OpenGL pixel buffer objects:     *)
(* SN_VNCClientWidget::receivingThread in a pool thread, scheduleUpdate    *)
(* and the destructor in the GUI thread.  Unlike the SAGE receiver, this   *)
(* thread keeps the mutex from the moment a buffer is mapped until it has  *)
(* copied the screen of the VNC server into it, all of the network input   *)
(* in between included, and it says frameReceived() afterwards.            *)
(*                                                                         *)
(* The path without a PBO (the widget's QImage) takes no lock and is left  *)
(* out.  Frame 0 stands for the undefined contents of a fresh buffer.      *)
(***************************************************************************)
EXTENDS Integers

CONSTANTS
    NumFrames,      \* bounds the screens copied
    MapFails,       \* the driver may fail to map a buffer
    Closes          \* users may close the widget

ASSUME VncNumFramesAssumption == NumFrames \in Nat
ASSUME VncChoicesAssumption == {MapFails, Closes} \subseteq BOOLEAN

VARIABLES
    mutex,          \* the thread that holds _pbomutex, or "none"
    bufferMapped,   \* __bufferMapped
    asleep,         \* the receiving thread sleeps on _pbobufferready
    frameReceived,  \* frameReceived() signals queued to the GUI thread
    rpc, gpc,       \* where the receiving thread and the GUI thread are
    pboBufIdx,      \* the buffer the GUI thread maps next or has mapped
    target,         \* the buffer _mappedBufferPtr points into, or NoBuffer
    mapped,         \* the buffers that are mapped into memory
    content,        \* the frame in each buffer object
    filled,         \* the last frame copied completely
    shown,          \* the last contents uploaded to the texture
    end,            \* _end
    server          \* the VNC server: "up" or "gone"

bufferVars == <<pboBufIdx, target, mapped>>
vars == <<bufferVars, mutex, bufferMapped, asleep, frameReceived, rpc, gpc, content, filled, shown,
          end, server>>

Torn     == -2              \* what a buffer holds while memcpy() is writing into it
Nothing  == -1              \* nothing was uploaded yet
NoBuffer == -1
Buffer   == 0..1

Init == /\ mutex = "none"
        /\ bufferMapped = FALSE
        /\ asleep = FALSE
        /\ frameReceived = 0
        /\ rpc = "absent" /\ gpc = "init"
        /\ pboBufIdx = 0
        /\ target = NoBuffer
        /\ mapped = {}
        /\ content = [i \in Buffer |-> 0]
        /\ filled = 0
        /\ shown = Nothing
        /\ end = FALSE
        /\ server = "up"

-------------------------------------------------------------------------------
(* receivingThread()                                                         *)

\* while (!_end), then the mutex.
RecvTop == /\ rpc = "top"
           /\ \/ /\ end
                 /\ rpc' = "done"
                 /\ UNCHANGED mutex
              \/ /\ ~end
                 /\ mutex = "none"
                 /\ mutex' = "receiver"
                 /\ rpc' = "test"
           /\ UNCHANGED <<bufferVars, bufferMapped, asleep, frameReceived, gpc, content, filled,
                          shown, end, server>>

\* pthread_cond_wait(), joining the sleepers and giving up the mutex in one step.
RecvSleep == /\ rpc = "test"
             /\ ~bufferMapped
             /\ mutex' = "none"
             /\ asleep' = TRUE
             /\ rpc' = "wait"
             /\ UNCHANGED <<bufferVars, bufferMapped, frameReceived, gpc, content, filled, shown,
                            end, server>>

RecvWake == /\ rpc = "wait"
            /\ ~asleep
            /\ mutex = "none"
            /\ mutex' = "receiver"
            /\ rpc' = "test"
            /\ UNCHANGED <<bufferVars, bufferMapped, asleep, frameReceived, gpc, content, filled,
                           shown, end, server>>

SpuriousWake == /\ asleep
                /\ asleep' = FALSE
                /\ UNCHANGED <<bufferVars, mutex, bufferMapped, frameReceived, rpc, gpc, content,
                               filled, shown, end, server>>

\* Mutant: the flag is not reset.
TakeKeepsFlag == /\ rpc = "test"
                 /\ bufferMapped
                 /\ rpc' = "network"
                 /\ UNCHANGED <<bufferVars, mutex, bufferMapped, asleep, frameReceived, gpc, content,
                                filled, shown, end, server>>

TakeBuffer == /\ rpc = "test"
              /\ bufferMapped
              /\ bufferMapped' = FALSE
              /\ rpc' = "network"
              /\ UNCHANGED <<bufferVars, mutex, asleep, frameReceived, gpc, content, filled, shown,
                             end, server>>

\* The messages of one frame interval were handled; memcpy() begins.
NetworkDone == /\ rpc = "network"
               /\ ~end
               /\ filled < NumFrames
               /\ content' = [content EXCEPT ![target] = Torn]
               /\ rpc' = "copy"
               /\ UNCHANGED <<bufferVars, mutex, bufferMapped, asleep, frameReceived, gpc, filled,
                              shown, end, server>>

\* _end was set, or a message could not be read: the thread leaves, mutex in hand.
NetworkFails == /\ rpc = "network"
                /\ end \/ server = "gone"
                /\ end' = TRUE
                /\ rpc' = "done"
                /\ UNCHANGED <<bufferVars, mutex, bufferMapped, asleep, frameReceived, gpc, content,
                               filled, shown, server>>

CopyDone == /\ rpc = "copy"
            /\ content' = [content EXCEPT ![target] = filled + 1]
            /\ filled' = filled + 1
            /\ mutex' = "none"
            /\ rpc' = "emit"
            /\ UNCHANGED <<bufferVars, bufferMapped, asleep, frameReceived, gpc, shown, end, server>>

Emit == /\ rpc = "emit"
        /\ frameReceived' = frameReceived + 1
        /\ rpc' = "top"
        /\ UNCHANGED <<bufferVars, mutex, bufferMapped, asleep, gpc, content, filled, shown, end,
                       server>>

ServerGoes == /\ server = "up"
              /\ server' = "gone"
              /\ UNCHANGED <<bufferVars, mutex, bufferMapped, asleep, frameReceived, rpc, gpc,
                             content, filled, shown, end>>

-------------------------------------------------------------------------------
(* scheduleUpdate()                                                          *)

\* Mutant: the buffer that is mapped next is uploaded.
UploadOther == /\ pboBufIdx' = 1 - pboBufIdx
               /\ mapped' = mapped \ {pboBufIdx}
               /\ shown' = content[1 - pboBufIdx]
               /\ gpc' = "map"

\* The buffer written last is unmapped (there is none at the first call) and
\* uploaded; the other one is next.
Upload == /\ pboBufIdx' = 1 - pboBufIdx
          /\ mapped' = mapped \ {pboBufIdx}
          /\ shown' = content[pboBufIdx]
          /\ gpc' = "map"

\* startImageRecvThread(): the connection is made; the thread starts and
\* scheduleUpdate() is called to map the first buffer.
StartThread == /\ gpc = "init"
               /\ rpc' = "top"
               /\ Upload
               /\ UNCHANGED <<target, mutex, bufferMapped, asleep, frameReceived, content, filled,
                              end, server>>

Update == /\ gpc = "idle"
          /\ frameReceived > 0
          /\ frameReceived' = frameReceived - 1
          /\ Upload
          /\ UNCHANGED <<target, mutex, bufferMapped, asleep, rpc, content, filled, end, server>>

\* Without a mapping nobody is told.
MapBuffer == /\ gpc = "map"
             /\ content' = [content EXCEPT ![pboBufIdx] = 0]
             /\ \/ /\ mapped' = mapped \cup {pboBufIdx}
                   /\ gpc' = "lock"
                \/ /\ MapFails
                   /\ gpc' = "idle"
                   /\ UNCHANGED mapped
             /\ UNCHANGED <<pboBufIdx, target, mutex, bufferMapped, asleep, frameReceived, rpc,
                            filled, shown, end, server>>

\* Mutant: the pointer of the first buffer is kept.
SignalOldPointer == /\ gpc = "lock"
                    /\ mutex = "none"
                    /\ bufferMapped' = TRUE
                    /\ target' = IF target = NoBuffer THEN pboBufIdx ELSE target
                    /\ asleep' = FALSE
                    /\ gpc' = "idle"
                    /\ UNCHANGED <<pboBufIdx, mapped, mutex, frameReceived, rpc, content, filled,
                                   shown, end, server>>

\* The mutex is taken, the flag, the pointer and the signal set, and it is given up.
Signal == /\ gpc = "lock"
          /\ mutex = "none"
          /\ bufferMapped' = TRUE
          /\ target' = pboBufIdx
          /\ asleep' = FALSE
          /\ gpc' = "idle"
          /\ UNCHANGED <<pboBufIdx, mapped, mutex, frameReceived, rpc, content, filled, shown, end,
                         server>>

-------------------------------------------------------------------------------
(* ~SN_VNCClientWidget                                                       *)

CloseBegin == /\ gpc \in {"init", "idle"}
              /\ end' = TRUE
              /\ gpc' = "join"
              /\ UNCHANGED <<bufferVars, mutex, bufferMapped, asleep, frameReceived, rpc, content,
                             filled, shown, server>>

UserCloses == Closes /\ CloseBegin

\* rfbInitClient() failed: the widget deletes itself.
InitFails == gpc = "init" /\ CloseBegin

\* The thread's last statement queues close().
ThreadCloses == rpc = "done" /\ gpc = "idle" /\ CloseBegin

\* waitForFinished(); only then is the condition signalled and the mutex freed.
Join == /\ gpc = "join"
        /\ rpc \in {"absent", "done"}
        /\ bufferMapped' = TRUE
        /\ mutex' = "none"
        /\ gpc' = "closed"
        /\ UNCHANGED <<bufferVars, asleep, frameReceived, rpc, content, filled, shown, end, server>>

-------------------------------------------------------------------------------
ReceiverStep == \/ RecvTop \/ RecvSleep \/ RecvWake \/ TakeBuffer
                \/ NetworkDone \/ NetworkFails \/ CopyDone \/ Emit

GuiStep == StartThread \/ Update \/ MapBuffer \/ Signal \/ ThreadCloses \/ Join

Next == ReceiverStep \/ GuiStep \/ InitFails \/ UserCloses \/ ServerGoes \/ SpuriousWake

\* Both threads run, and the GUI thread gets a mutex that is free again and again
\* (spurious wake-ups may let the other thread take it any number of times).
\* Users, the server and spurious wake-ups are not counted on.
Spec == /\ Init /\ [][Next]_vars
        /\ WF_vars(ReceiverStep)
        /\ WF_vars(GuiStep)
        /\ SF_vars(Signal)

-------------------------------------------------------------------------------
\* The GUI thread never asks for the mutex while the receiving thread keeps it for
\* as long as the network takes: updates and frames alternate.
GuiNeverWaitsForNetwork == gpc = "lock" => rpc \notin {"network", "copy"}

\* memcpy() writes only into the buffer that is mapped.
CopiesIntoMapped == rpc = "copy" => target \in mapped

\* What is uploaded is the frame copied last, never a part of one; only a buffer
\* nothing was copied into shows undefined contents.
UploadsFresh == [][shown' # shown => shown' \in {0, filled}]_vars

\* Every frame copied is uploaded unless the widget is closed.
EveryFrameUploaded == \A n \in 1..NumFrames : (filled = n) ~> (shown = n \/ end)

\* A thread that ended, a lost connection's too, which keeps the mutex for good,
\* has its widget closed and destroyed: the GUI thread never asks for that mutex.
EndedThreadCloses == (rpc = "done") ~> (gpc = "closed")

\* A destructor that meets a thread with a buffer to fill gets through its
\* waitForFinished().
ClosesWithMappedBuffer ==
    (gpc = "join" /\ (bufferMapped \/ rpc \in {"network", "copy", "emit", "top"}))
        ~> (gpc = "closed")

\* The mutex and the flag __bufferMapped divide the mapped memory between the two
\* threads, and never make the GUI thread wait for the network.
SharesBuffer == GuiNeverWaitsForNetwork /\ CopiesIntoMapped

\* What was copied is what is drawn: whole, and every frame.
Uploads == UploadsFresh /\ EveryFrameUploaded

\* The widget goes when its thread ended, and a destructor that finds the thread
\* with a buffer to fill ends.
WidgetCloses == EndedThreadCloses /\ ClosesWithMappedBuffer
===============================================================================
