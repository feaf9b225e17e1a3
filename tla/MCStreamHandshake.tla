--------------------------- MODULE MCStreamHandshake ---------------------------
(* Model-checking instance of StreamHandshake: applications are model values, *)
(* and those the launcher started are interchangeable.                        *)
EXTENDS StreamHandshake, TLC

Symmetry == Permutations(Launched)
===============================================================================
