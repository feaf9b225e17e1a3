----------------------------- MODULE StreamWidget -----------------------------
(***************************************************************************)
(* One SN_SageStreamWidget from the start of its receiving thread to the   *)
(* end of its destructor: the double buffer, the scheduler's demand on the *)
(* receiver's pace, a sender that may leave, and the widget being closed   *)
(* by a user or because the receiver finished.                             *)
(*                                                                         *)
(* The destructor's unlocked releaseBackBuffer() is undefined by POSIX; a  *)
(* default pthread mutex has no owner check and simply becomes free.       *)
(*                                                                         *)
(* Only ~SN_TheScene hides a widget, so scheduleUpdate()'s test of         *)
(* isVisible() is left out.                                                *)
(***************************************************************************)
EXTENDS DoubleBuffer

CONSTANT Pauses         \* the scheduler may demand quality 0

ASSUME PausesAssumption == Pauses \in BOOLEAN

VARIABLES
    end,        \* SN_SagePixelReceiver::_end
    paused,     \* SN_SagePixelReceiver::_delay < 0
    stream      \* the streaming socket: "open", "eof" (sender left) or "shut"

streamVars == <<end, paused, stream>>
widgetVars == <<vars, streamVars>>

Finished == pc["receiver"] = "done"

WidgetInit == /\ Init
              /\ end = FALSE
              /\ paused = FALSE
              /\ stream = "open"

-------------------------------------------------------------------------------
(* The receiver's loop around swapBuffer()                                   *)

\* A frame has arrived; _end and then the scheduler's demand are looked at.
FrameComplete == /\ pc["receiver"] = "fill"
                /\ doubleBuffer' = [doubleBuffer EXCEPT ![bufferIndex] = filled + 1]
                /\ filled' = filled + 1
                /\ Goto("receiver", IF end THEN "done" ELSE "pace")
                /\ UNCHANGED <<queueLength, bufferIndex, mutex, asleep, frameReceived, shown,
                                streamVars>>

\* Mutant: a sender that leaves between two frames is not noticed.
RecvFailsInside == /\ pc["receiver"] = "fill"
                  /\ stream # "open"
                  /\ end' = TRUE
                  /\ Goto("receiver", "done")
                  /\ UNCHANGED <<bufferVars, mutex, asleep, frameReceived, filled, shown, paused,
                                  stream>>

\* recv() returns 0 or -1, before or inside a frame.
RecvFails == /\ pc["receiver"] \in {"recv", "fill"}
             /\ stream # "open"
             /\ end' = TRUE
             /\ Goto("receiver", "done")
             /\ UNCHANGED <<bufferVars, mutex, asleep, frameReceived, filled, shown, paused, stream>>

\* A negative delay keeps the thread in a loop of naps; then while (!_end).
Pace == /\ pc["receiver"] = "pace"
        /\ ~paused
        /\ Goto("receiver", IF end THEN "done" ELSE "lock")
        /\ UNCHANGED <<bufferVars, mutex, asleep, frameReceived, filled, shown, streamVars>>

\* The sender closes the streaming channel.
SenderLeaves == /\ stream = "open"
                /\ stream' = "eof"
                /\ UNCHANGED <<vars, end, paused>>

-------------------------------------------------------------------------------
(* The GUI thread's event loop                                               *)

\* setDelay_msec(), queued by setQuality(): quality 0 pauses, any other resumes.
SetDelay == /\ Pauses
            /\ pc["gui"] = "idle"
            /\ paused' = ~paused
            /\ UNCHANGED <<vars, end, stream>>

Update == /\ ~Finished
          /\ ScheduleUpdate
          /\ UNCHANGED streamVars

\* scheduleUpdate() returns at once when the receiver is finished.
SkipUpdate == /\ Finished
              /\ pc["gui"] = "idle"
              /\ frameReceived > 0
              /\ frameReceived' = frameReceived - 1
              /\ UNCHANGED <<bufferVars, mutex, asleep, pc, filled, shown, streamVars>>

-------------------------------------------------------------------------------
(* ~SN_SageStreamWidget                                                      *)

CloseBegin == /\ pc["gui"] = "idle"
              /\ Goto("gui", "end")
              /\ UNCHANGED <<bufferVars, mutex, asleep, frameReceived, filled, shown, streamVars>>

UserCloses == CloseBegin

\* finished() is connected to close().
FinishedCloses == Finished /\ CloseBegin

\* Mutant: the flag is set, the socket is left open.
EndFlagOnly == /\ pc["gui"] = "end"
               /\ end' = TRUE
               /\ Goto("gui", "drop")
               /\ UNCHANGED <<bufferVars, mutex, asleep, frameReceived, filled, shown, paused, stream>>

EndReceiver == /\ pc["gui"] = "end"
               /\ end' = TRUE
               /\ stream' = "shut"
               /\ Goto("gui", "drop")
               /\ UNCHANGED <<bufferVars, mutex, asleep, frameReceived, filled, shown, paused>>

\* releaseBackBuffer() by a thread that does not hold the mutex: the counter first.
DropBackBuffer == /\ pc["gui"] = "drop"
                  /\ queueLength' = queueLength - 1
                  /\ Goto("gui", "dropunlock")
                  /\ UNCHANGED <<bufferIndex, doubleBuffer, mutex, asleep, frameReceived, filled,
                                  shown, streamVars>>

DropUnlock == /\ pc["gui"] = "dropunlock"
              /\ mutex' = "none"
              /\ Goto("gui", "dropcheck")
              /\ UNCHANGED <<bufferVars, asleep, frameReceived, filled, shown, streamVars>>

DropSignal == /\ pc["gui"] = "dropcheck"
              /\ asleep' = IF queueLength = 0 THEN asleep \ {"receiver"} ELSE asleep
              /\ Goto("gui", "unblock")
              /\ UNCHANGED <<bufferVars, mutex, frameReceived, filled, shown, streamVars>>

Unblock == /\ pc["gui"] = "unblock"
           /\ mutex = "none"
           /\ queueLength' = -1
           /\ asleep' = {}
           /\ Goto("gui", "join")
           /\ UNCHANGED <<bufferIndex, doubleBuffer, mutex, frameReceived, filled, shown, streamVars>>

\* _receiverThread->wait(), then the double buffer is deleted.
Join == /\ pc["gui"] = "join"
        /\ Finished
        /\ Goto("gui", "closed")
        /\ UNCHANGED <<bufferVars, mutex, asleep, frameReceived, filled, shown, streamVars>>

-------------------------------------------------------------------------------
SwapOrEmit == \/ Monitor("receiver") \/ SwapTest \/ SwapFlip \/ SwapUnlock \/ SwapSignal
              \/ Emit \/ RecvBegin

ReceiverStep == (SwapOrEmit /\ UNCHANGED streamVars) \/ FrameComplete \/ RecvFails \/ Pace

Consume == Monitor("gui") \/ GetBackBuffer \/ Convert \/ ReleaseBackBuffer \/ ReleaseSignal

Destroy == EndReceiver \/ DropBackBuffer \/ DropUnlock \/ DropSignal \/ Unblock \/ Join

GuiStep == (Consume /\ UNCHANGED streamVars) \/ Update \/ SkipUpdate \/ FinishedCloses \/ Destroy

WidgetNext == \/ ReceiverStep \/ GuiStep \/ SenderLeaves \/ SetDelay \/ UserCloses
              \/ (\E t \in Thread : SpuriousWake(t)) /\ UNCHANGED streamVars

\* As in DoubleBuffer.  The sender, the scheduler and the user do as they like.
WidgetSpec == /\ WidgetInit /\ [][WidgetNext]_widgetVars
              /\ WF_widgetVars(ReceiverStep)
              /\ WF_widgetVars(GuiStep)
              /\ SF_widgetVars(Lock("gui") /\ UNCHANGED streamVars)
-------------------------------------------------------------------------------
Closing == pc["gui"] \in {"end", "drop", "dropunlock", "dropcheck", "unblock", "join", "closed"}

\* As long as it is not closed no receiver sleeps on in front of a free buffer.
SleepsOnlyOnFull == Closing \/ NoLostNotFull

\* A widget whose receiver ended, for whatever reason, is closed and destroyed:
\* no window is left behind on the wall without a stream.
FinishedWidgetCloses == Finished ~> (pc["gui"] = "closed")

\* When the sender leaves, the receiver notices, wherever it was, unless the
\* scheduler keeps it paused.
SenderGone == (stream = "eof" /\ <>[]~paused) ~> (Finished \/ Closing)

\* Once _end is set, a receiver that is neither inside swapBuffer() nor in the
\* naps of the scheduler's pause leaves, and the destructor gets through its wait().
ClosesOutsideSwap ==
    (/\ pc["gui"] = "drop"
     /\ \/ pc["receiver"] \in {"recv", "fill", "done"}
        \/ pc["receiver"] = "pace" /\ ~paused)
        ~> (pc["gui"] = "closed")

\* Until it is closed the widget implements the one-place hand-off of frames, and
\* closing it is the hand-off's end, whatever its destructor does to the buffer.
WidgetHandoff == INSTANCE FrameHandoff WITH slot <- IF Closing THEN -2 ELSE Slot

WidgetHandoffSpec == WidgetHandoff!Spec

\* What the destructor's comments promise: the receiver exits from run() and the
\* destructor ends.
ClosingEnds == (pc["gui"] = "end") ~> (pc["gui"] = "closed")

\* A stream that ends, at the sender or in the receiver, takes its widget with it.
EndsWithStream == SenderGone /\ FinishedWidgetCloses
===============================================================================
