--------------------------- MODULE MCSharedPointers ---------------------------
(* Two users on a wall with one window that is up and one that may come.     *)
EXTENDS SharedPointers

CONSTANT First          \* the window that is up

MCInit == /\ ptr = [p \in Pointers |-> NewPointer]
          /\ \E isWindow \in BOOLEAN : win = [w \in {First} |-> NewWindow(1, isWindow)]
          /\ stack = <<First>>
          /\ hoverAcceptingApps = {First} \cap Hovering
          /\ steps = 0

Symmetry == Permutations(Pointers)

MCSpec == MCInit /\ [][Next]_vars
==============================================================================
