------------------------------ MODULE MCVncStream ------------------------------
(* TLC instances of VncStream; NumFrames bounds the runs.                      *)
EXTENDS VncStream
===============================================================================
