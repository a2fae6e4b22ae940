--------------------------- MODULE MCStopListener ---------------------------
(* StopListener for TLC: the constants are sets of model values.           *)
EXTENDS StopListener
=============================================================================
