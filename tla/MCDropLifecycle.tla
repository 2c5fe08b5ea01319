-------------------------- MODULE MCDropLifecycle --------------------------
(***************************************************************************)
(* Model-checking instance of DropLifecycle.  The thread sets are given as *)
(* model values in the .cfg files; producers are interchangeable threads, *)
(* so runs with several of them may use ProducerSymmetry.                 *)
(***************************************************************************)
EXTENDS DropLifecycle, TLC

\* expectedSize: not given (-1), or given as two bytes.
NoExpectedSize   == {-1}
AnyExpectedSize  == {-1, 2}
TwoBytesExpected == {2}

\* Producer threads are interchangeable: none is named by the code.
ProducerSymmetry == Permutations(Producers)

=============================================================================
