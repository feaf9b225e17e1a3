------------------------------ MODULE MCPboStream ------------------------------
(* TLC instances of PboStream; NumFrames bounds the runs, which cover both     *)
(* parities of the two indices with four frames.                               *)
EXTENDS PboStream
===============================================================================
