--------------------------- MODULE MCInputCapture ---------------------------
(* InputCapture for TLC: the bounds are in the configurations.             *)
EXTENDS InputCapture
=============================================================================
