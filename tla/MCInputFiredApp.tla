--------------------------- MODULE MCInputFiredApp ---------------------------
(* Instances of InputFiredApp for TLC: the parameter sets a graph may give  *)
(* an InputFiredAppDROP, written here because a .cfg cannot hold -1.       *)
EXTENDS InputFiredApp, TLC

\* BarrierAppDROP (-1) or an app that proceeds after the first input (1).
BarrierOrFirst == {BARRIER, 1}
BarrierOnly    == {BARRIER}
FirstOnly      == {1}
=============================================================================
