------------------------------ MODULE MCLauncher ------------------------------
(* TLC instance of Launcher.                                                   *)
EXTENDS Launcher, TLC

CONSTANTS w1, w2

Symmetry == Permutations(Widget)
===============================================================================
