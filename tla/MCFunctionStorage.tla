-------------------------- MODULE MCFunctionStorage --------------------------
(* Constants for model checking FunctionStorage.                           *)
EXTENDS FunctionStorage, TLC

CONSTANTS p1, p2, p3, a, b, c

MCBatches == {<<a, b>>, <<c>>}
Symmetry == Permutations(Procs)
=============================================================================
