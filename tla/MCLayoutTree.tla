----------------------------- MODULE MCLayoutTree -----------------------------
(* TLC instances of LayoutTree: a wall of 4 by 4 is split at most twice, so   *)
(* that all halves are whole numbers, and a bar is dragged across half of it.  *)
(* The sessions are saved of a wall without partitions and of one that is      *)
(* split; each has a window.                                                   *)
EXTENDS LayoutTree

OneWindow == {"a"}

TwoPositions == {Point(1, 1), Point(0, 2)}

Placed == AddItem(EmptyWall, "a", Point(0, 0), Point(0, 2))

OneSplit == LET h == Halves(EmptyWall.layout[Root], "vertical")
            IN  CreateChildPartitions(Placed, Root, "vertical", h[1], h[2])

FlatSession  == SaveSession(Placed, Root)
SplitSession == SaveSession(OneSplit, Root)

TwoSessions == {FlatSession, SplitSession}

BothWays == {-2, 2}
===============================================================================
