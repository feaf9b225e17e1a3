----------------------------- MODULE FrameHandoff -----------------------------
(***************************************************************************)
(* What DoubleBuffer (src/thewall/common/sn_doublebuffer.h) promises to    *)
(* its two users, with no mutex, no condition and no second buffer: a      *)
(* one-place slot.  The receiver offers frames in the order in which they  *)
(* were received, the widget takes each of them exactly once, and closing  *)
(* the widget closes the slot for good.                                    *)
(***************************************************************************)
EXTENDS Integers

VARIABLES
    slot,   \* the frame on offer, Empty, or Closed
    shown   \* the last frame the widget converted for drawing

handoffVars == <<slot, shown>>

Empty  == -1
Closed == -2

Init == /\ slot = Empty
        /\ shown = -1

\* The receiver hands over the frame after the last one shown.
Offer == /\ slot = Empty
         /\ slot' = shown + 1
         /\ UNCHANGED shown

\* The widget takes the frame on offer.
Take == /\ slot >= 0
        /\ shown' = slot
        /\ slot' = Empty

\* The widget is closed: a frame on offer is dropped.
Close == /\ slot # Closed
         /\ slot' = Closed
         /\ UNCHANGED shown

Next == Offer \/ Take \/ Close

\* A frame on offer is taken unless the widget is closed.
Spec == Init /\ [][Next]_handoffVars /\ WF_handoffVars(Take)
===============================================================================
