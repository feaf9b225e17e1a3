------------------------------ MODULE MCFittsLaw ------------------------------
(***************************************************************************)
(* Two subjects and two pointers.  A run starts after an earlier test that  *)
(* used up the first widgets, or when the wall has three tests, as many     *)
(* users as there are, and rounds are still to be asked for.               *)
(***************************************************************************)
EXTENDS FittsLaw, TLC

\* The pointers are alike.
Symmetry == Permutations(Pointers)

\* What both starts share: no round, no click, nothing on its way.
Quiet == /\ RoundID = -1
         /\ practice = TRUE
         /\ test = [w \in Widgets |-> Fresh]
         /\ ClearTargetPosList
         /\ trap = [p \in Pointers |-> 0]
         /\ calls = <<>> /\ doomed = <<>>
         /\ closedOne = FALSE
         /\ missed = {}
         /\ gui = [at |-> "loop", for |-> 0]
         /\ end = [w \in Widgets |-> FALSE]
         /\ sema = [w \in Widgets |-> 0]
         /\ queueLength = [w \in Widgets |-> 0]
         /\ frameReceived = [w \in Widgets |-> 0]

\* The tests 1 and 2 were launched, finished and destroyed.
AfterATest == /\ Quiet
              /\ launched = 2
              /\ dataObject = FALSE /\ members = <<>>
              /\ presses = 0
              /\ rpc = [w \in Widgets |-> IF w <= 2 THEN "destroyed" ELSE "none"]
              /\ gone = {1, 2}

\* The tests 1, 2 and 3 were launched, and a round button was pressed before in another test.
ThreeTests == /\ Quiet
              /\ launched = 3
              /\ dataObject = TRUE /\ members = <<1, 2, 3>>
              /\ presses = MaxPresses - 2
              /\ rpc = [w \in Widgets |-> "none"]
              /\ gone = {}

MCInit == AfterATest \/ ThreeTests

MCSpec == MCInit /\ [][Next]_vars
===============================================================================
