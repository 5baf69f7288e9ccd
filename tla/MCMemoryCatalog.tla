--------------------------- MODULE MCMemoryCatalog ---------------------------
(* Constants for model checking MemoryCatalog.                             *)
EXTENDS MemoryCatalog

CONSTANTS lo, up

\* Two spellings of one name.
LowerCase == [n \in Names |-> lo]

\* contents_memory, contents_hash and contents_reval of the example worker.
ExampleOptions ==
  {[unversioned |-> TRUE, etag |-> "none"],
   [unversioned |-> FALSE, etag |-> "hash"],
   [unversioned |-> FALSE, etag |-> "generation"]}
=============================================================================
