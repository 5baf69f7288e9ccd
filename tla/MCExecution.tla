----------------------------- MODULE MCExecution -----------------------------
(* Small instances of Execution.                                           *)
EXTENDS Execution, Integers

\* Every kind under a name of its own, and the COPY format's shared name.
MCRegistrations ==
  {{"in_out"}, {"scalar"}, {"aggregate"}, {"table"}, {"table", "buffering"}}

\* Rows without output first, last and between; an input with none at all.
MCInputs == {<<>>, <<0>>, <<2, 0>>, <<0, 3>>, <<1, 0, 2>>}

\* A group of only NULLs, NULLs among values, two rows of a group in a batch that
\* cancel.
MCUpdates ==
  {<<<<"g", Null>>>>,
   <<<<"g", 1>>, <<"h", Null>>>>,
   <<<<"h", 2>>, <<"h", -2>>>>}

\* With and without a FILTER and a NULL.
MCWindows ==
  {[rows |-> <<1, 2, 4>>, mask |-> <<>>],
   [rows |-> <<8, Null, 16>>, mask |-> <<TRUE, TRUE, FALSE>>]}

\* No frame, one, and two of which the last runs past the partition.
MCFrames == {<<>>, <<<<0, 2>>>>, <<<<0, 1>>, <<2, 9>>>>}

\* Two partition keys, of which one is a prefix of the other.
MCChunks ==
  {<<<<<<7>>, 1>>, <<<<7>>, 2>>>>,
   <<<<<<7>>, Null>>, <<<<7, 8>>, 1>>>>,
   <<<<<<7, 8>>, Null>>>>}

MCScanPages == <<{1, 2}, {3}>>

Predicate(i, keeps, advisory) ==
  [id |-> i, keeps |-> keeps, advisory |-> advisory]
Update(i, revision, keeps) ==
  [id |-> i, revision |-> revision, keeps |-> keeps]

\* The condition of TableScan that raises.
MCBroken == {0}

\* None, one required, one of each, and each of them raising.
MCSnapshots ==
  {{},
   {Predicate("a", {1, 3}, FALSE)},
   {Predicate("a", {1, 3}, FALSE), Predicate("b", {1, 2, 3}, TRUE)},
   {Predicate("a", MCBroken, FALSE)},
   {Predicate("b", MCBroken, TRUE)}}

\* Successive revisions of b, a removal, a tie, a delta of two that may name a
\* required predicate, one that may pass the limit of ids, and one that names a
\* predicate twice.
MCDeltas ==
  {{Update("b", 1, {{1}})},
   {Update("b", 2, {})},
   {Update("b", 2, {{3}})},
   {Update("a", 1, {}), Update("b", 1, {MCBroken})},
   {Update("b", 1, {{2}}), Update("c", 1, {{1, 2}})},
   {Update("b", 1, {{1}}), Update("b", 3, {{2}})}}
=============================================================================
