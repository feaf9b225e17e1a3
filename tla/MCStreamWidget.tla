---------------------------- MODULE MCStreamWidget ----------------------------
(* Model-checking instance of StreamWidget.                                  *)
EXTENDS StreamWidget
===============================================================================
