----------------------------- MODULE MCDropGraph -----------------------------
(***************************************************************************)
(* Model-checking instance of DropGraph.  Drops are model values.  Data   *)
(* drops are interchangeable, and so are the apps and the plain            *)
(* containers: no action names one of them.                               *)
(***************************************************************************)
EXTENDS DropGraph, TLC

DropSymmetry == Permutations(Data) \cup Permutations(Apps)

=============================================================================
