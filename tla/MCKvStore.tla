------------------------------ MODULE MCKvStore ------------------------------
(* Constants for model checking KvStore.                                   *)
EXTENDS KvStore

CONSTANTS t1, t2, v1, v2

\* All threads in one process: an HTTP worker dispatching in parallel.
OneProcess == [t \in Threads |-> t1]
=============================================================================
