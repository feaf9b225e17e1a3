--------------------------- MODULE MCPointerClients ---------------------------
(* Two pointer programs that make two connections between them.            *)
EXTENDS PointerClients, TLC

\* The two programs are alike.
Symmetry == Permutations(Clients)
===============================================================================
