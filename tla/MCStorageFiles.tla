--------------------------- MODULE MCStorageFiles ----------------------------
(* Constants for model checking StorageFiles.                              *)
EXTENDS StorageFiles, TLC

CONSTANTS p1, p2, p3, a, b, c, v1, v2

MCBatches == {<<a, b>>, <<c>>}
MCChunks == <<c>>

\* One thread per process: stdio and pooled workers.
OneEach == [t \in Threads |-> t]

\* The threads are the processes.
Symmetry == Permutations(Procs)
=============================================================================
