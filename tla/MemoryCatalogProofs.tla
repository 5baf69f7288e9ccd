------------------------- MODULE MemoryCatalogProofs -------------------------
(***************************************************************************)
(* Proofs about MemoryCatalog, for any paths, names and definitions, any   *)
(* number of attachments and callers, and each etag mode.                  *)
(***************************************************************************)
EXTENDS MemoryCatalog, SequenceTheorems, TLAPS

-----------------------------------------------------------------------------
(* Paths                                                                   *)

\* A path is a non-empty sequence of components.
LEMMA PathType ==
  ASSUME NEW p \in Paths
  PROVE  p \in Seq(Components) /\ Len(p) \in Nat /\ Len(p) >= 1
<1>1. PICK n \in 1..MaxDepth : p \in [1..n -> Components]
  BY DEF Paths
<1>2. n \in Nat /\ n >= 1
  BY MemoryCatalogAssumption
<1>3. p \in Seq(Components) /\ Len(p) = n
  BY <1>1, <1>2
<1> QED
  BY <1>2, <1>3

\* The path of "main" is a path.
LEMMA MainPath == <<Main>> \in Paths
<1>1. <<Main>> \in [1..1 -> Components] /\ 1 \in 1..MaxDepth
  BY MemoryCatalogAssumption
<1> QED
  BY <1>1 DEF Paths

\* What is below a schema, or below one of its children, is below it: the
\* prefix test of schema_drop finds every level.
LEMMA BelowParent ==
  ASSUME NEW p \in Paths, NEW q \in Paths, Len(q) > 1,
         Parent(q) = p \/ Below(Parent(q), p)
  PROVE  Below(q, p)
<1>1. /\ p \in Seq(Components) /\ Len(p) \in Nat /\ Len(p) >= 1
      /\ q \in Seq(Components) /\ Len(q) \in Nat
  BY PathType
<1> DEFINE r == SubSeq(q, 1, Len(q) - 1)
<1>2. /\ r \in Seq(Components)
      /\ Len(r) = Len(q) - 1
      /\ \A i \in 1..(Len(q) - 1) : r[i] = q[i]
  BY <1>1
<1>3. CASE r = p
  BY <1>1, <1>2, <1>3 DEF Below
<1>4. CASE Below(r, p)
  <2>1. Len(q) - 1 > Len(p) /\ SubSeq(r, 1, Len(p)) = p
    BY <1>2, <1>4 DEF Below
  <2>2. SubSeq(q, 1, Len(p)) = SubSeq(r, 1, Len(p))
    <3>1. /\ SubSeq(q, 1, Len(p)) \in Seq(Components)
          /\ SubSeq(r, 1, Len(p)) \in Seq(Components)
          /\ Len(SubSeq(q, 1, Len(p))) = Len(p)
          /\ Len(SubSeq(r, 1, Len(p))) = Len(p)
      BY <1>1, <1>2, <2>1
    <3>2. \A i \in 1..Len(p) : SubSeq(q, 1, Len(p))[i] = SubSeq(r, 1, Len(p))[i]
      BY <1>1, <1>2, <2>1
    <3> QED
      BY <3>1, <3>2, SeqEqual
  <2> QED
    BY <1>1, <2>1, <2>2 DEF Below
<1> QED
  BY <1>3, <1>4 DEF Parent

-----------------------------------------------------------------------------
(* Type correctness                                                        *)

\* The catalog's own state keeps its type under every handler.
LEMMA TypeStep ==
  ASSUME TypeOK, [Next]_vars
  PROVE  TypeOK'
<1> USE DEF TypeOK
<1>1. ASSUME NEW a \in Attachments, NEW selected \in BOOLEAN, Attach(a, selected)
      PROVE  TypeOK'
  <2>1. [path |-> <<Main>>, comment |-> None] \in SchemaRows
    BY MainPath, MemoryCatalogAssumption DEF SchemaRows
  <2> QED
    BY <1>1, <2>1 DEF Attach
<1>2. ASSUME NEW a \in Attachments, Detach(a) PROVE TypeOK'
  BY <1>2 DEF Detach
<1>3. ASSUME NEW a \in Attachments, Ddl(a) PROVE TypeOK'
  <2>1. PICK p \in Paths, c \in Comments, name \in Names :
          \/ \E flag \in BOOLEAN : SchemaCreate(a, p, c, flag)
          \/ \E flag \in BOOLEAN : SchemaDrop(a, p, flag)
          \/ \E item \in Items, flag \in BOOLEAN :
               \/ TableCreate(a, p, name, item, flag)
               \/ ViewCreate(a, p, name, item, c, flag)
          \/ \E kind \in Kinds : DropObject(a, p, kind, name)
          \/ ViewCommentSet(a, p, name, c)
    BY <1>3 DEF Ddl
  <2>2. ASSUME NEW flag \in BOOLEAN, SchemaCreate(a, p, c, flag) PROVE TypeOK'
    <3>1. [path |-> p, comment |-> c] \in SchemaRows
      BY DEF SchemaRows
    <3> QED
      BY <2>2, <3>1 DEF SchemaCreate, Change
  <2>3. ASSUME NEW flag \in BOOLEAN, SchemaDrop(a, p, flag) PROVE TypeOK'
    BY <2>3 DEF SchemaDrop, Change
  <2>4. ASSUME NEW kind \in Kinds, NEW item \in Items, NEW flag \in BOOLEAN,
               NEW d \in Comments, PutObject(a, p, kind, name, item, d, flag)
        PROVE  TypeOK'
    <3> DEFINE o == [path |-> p, kind |-> kind, key |-> Lower[name],
                     item |-> item, comment |-> d,
                     revision |-> IF kind = "table" /\ item \in NotNull
                                  THEN version[a] ELSE 0]
    <3>1. o \in ObjectRows
      BY MemoryCatalogAssumption DEF ObjectRows
    <3>2. objects' = [objects EXCEPT ![a] =
            {x \in objects[a] : ~Holds(x, p, kind, name)} \cup {o}]
      BY <2>4 DEF PutObject
    <3> HIDE DEF o
    <3> QED
      BY <2>4, <3>1, <3>2 DEF PutObject, Change
  <2>5. ASSUME NEW kind \in Kinds, DropObject(a, p, kind, name) PROVE TypeOK'
    BY <2>5 DEF DropObject, Change
  <2>6. CASE ViewCommentSet(a, p, name, c)
    <3>1. PICK o \in objects[a] :
            objects' = [objects EXCEPT ![a] =
              (objects[a] \ {o}) \cup {[o EXCEPT !.comment = c]}]
      BY <2>6 DEF ViewCommentSet
    <3>2. o \in ObjectRows
      BY <3>1
    <3>3. [o EXCEPT !.comment = c] \in ObjectRows
      BY <3>2 DEF ObjectRows
    <3> QED
      BY <2>6, <3>1, <3>3 DEF ViewCommentSet, Change
  <2> QED
    BY <2>1, <2>2, <2>3, <2>4, <2>5, <2>6, MemoryCatalogAssumption
       DEF TableCreate, ViewCreate, Kinds
<1>4. ASSUME NEW t \in Callers, NEW a \in Attachments, ReadVersion(t, a)
      PROVE  TypeOK'
  BY <1>4 DEF ReadVersion
<1>5. ASSUME NEW t \in Callers, Validate(t) \/ Snapshot(t) \/ CallFails(t)
      PROVE  TypeOK'
  BY <1>5 DEF Validate, Snapshot, CallFails, Answered
<1>6. CASE UNCHANGED vars
  BY <1>6 DEF vars
<1> QED
  BY <1>1, <1>2, <1>3, <1>4, <1>5, <1>6 DEF Next

\* Type correctness of the in-memory catalog.
THEOREM CatalogTypeCorrect == Spec => []TypeOK
<1>1. Init => TypeOK
  BY DEF Init, TypeOK
<1>2. TypeOK /\ [Next]_vars => TypeOK'
  BY TypeStep
<1> QED
  BY <1>1, <1>2, PTL DEF Spec
-----------------------------------------------------------------------------
(* The tree of schemas                                                     *)

\* Every handler leaves the schemas closed under Parent, every object in a
\* schema, and one object of a name.
LEMMA TreeStep ==
  ASSUME TypeOK, NoOrphans, OneOfEach, [Next]_vars
  PROVE  NoOrphans' /\ OneOfEach'
<1> DEFINE Tree(a) ==
      /\ \A p \in PathsOf(a) : Len(p) > 1 => Parent(p) \in PathsOf(a)
      /\ \A o \in objects[a] : o.path \in PathsOf(a)
      /\ \A o1, o2 \in objects[a] :
           o1.path = o2.path /\ o1.kind = o2.kind /\ o1.key = o2.key => o1 = o2
      /\ \A s1, s2 \in schemas[a] : s1.path = s2.path => s1 = s2
<1>1. \A a \in Attachments : Tree(a)
  BY DEF NoOrphans, OneOfEach
<1>2. SUFFICES ASSUME NEW b \in Attachments PROVE Tree(b)'
  BY DEF NoOrphans, OneOfEach
<1>3. CASE schemas'[b] = schemas[b] /\ objects'[b] = objects[b]
  BY <1>1, <1>3 DEF PathsOf
<1>4. ASSUME NEW a \in Attachments, a # b, Ddl(a) \/ \E selected \in BOOLEAN : Attach(a, selected)
      PROVE  Tree(b)'
  BY <1>3, <1>4 DEF TypeOK, Ddl, SchemaCreate, SchemaDrop, TableCreate, ViewCreate, PutObject,
     DropObject, ViewCommentSet, Attach
<1>5. ASSUME NEW selected \in BOOLEAN, Attach(b, selected) PROVE Tree(b)'
  <2>1. /\ schemas'[b] = {[path |-> <<Main>>, comment |-> None]}
        /\ objects'[b] = {}
    BY <1>5 DEF Attach, TypeOK
  <2>2. PathsOf(b)' = {<<Main>>}
    BY <2>1 DEF PathsOf
  <2>3. Len(<<Main>>) = 1
    OBVIOUS
  <2> QED
    BY <2>1, <2>2, <2>3
<1>6. ASSUME Ddl(b) PROVE Tree(b)'
  <2>1. PICK p \in Paths, c \in Comments, name \in Names :
          \/ \E flag \in BOOLEAN : SchemaCreate(b, p, c, flag)
          \/ \E flag \in BOOLEAN : SchemaDrop(b, p, flag)
          \/ \E item \in Items, flag \in BOOLEAN :
               \/ TableCreate(b, p, name, item, flag)
               \/ ViewCreate(b, p, name, item, c, flag)
          \/ \E kind \in Kinds : DropObject(b, p, kind, name)
          \/ ViewCommentSet(b, p, name, c)
    BY <1>6 DEF Ddl
  <2>2. /\ schemas[b] \subseteq SchemaRows /\ objects[b] \subseteq ObjectRows
        /\ PathsOf(b) \subseteq Paths
    BY DEF TypeOK, PathsOf, SchemaRows
  <2>3. ASSUME NEW flag \in BOOLEAN, SchemaCreate(b, p, c, flag) PROVE Tree(b)'
    <3>1. /\ schemas'[b] = {s \in schemas[b] : s.path # p}
                             \cup {[path |-> p, comment |-> c]}
          /\ objects'[b] = {o \in objects[b] : o.path # p}
          /\ Len(p) > 1 => Parent(p) \in PathsOf(b)
      BY <2>3 DEF SchemaCreate, TypeOK
    <3>2. PathsOf(b)' = PathsOf(b) \cup {p}
      <4>1. [path |-> p, comment |-> c].path = p
        OBVIOUS
      <4> DEFINE n == [path |-> p, comment |-> c]
      <4>2. n.path = p /\ schemas'[b] = {s \in schemas[b] : s.path # p} \cup {n}
        BY <3>1, <4>1
      <4> HIDE DEF n
      <4> QED
        BY <4>2 DEF PathsOf
    <3> QED
      BY <1>1, <3>1, <3>2
  <2>4. ASSUME NEW flag \in BOOLEAN, SchemaDrop(b, p, flag) PROVE Tree(b)'
    <3> DEFINE gone == {q \in PathsOf(b) : q = p \/ Below(q, p)}
    <3>1. /\ schemas'[b] = {s \in schemas[b] : s.path \notin gone}
          /\ objects'[b] = {o \in objects[b] : o.path \notin gone}
      BY <1>1, <2>4 DEF SchemaDrop, TypeOK, PathsOf
    <3>2. PathsOf(b)' = PathsOf(b) \ gone
      BY <3>1 DEF PathsOf
    <3>3. ASSUME NEW q \in PathsOf(b)', Len(q) > 1 PROVE Parent(q) \in PathsOf(b)'
      <4>1. q \in PathsOf(b) /\ q \in Paths /\ Parent(q) \in PathsOf(b)
        BY <1>1, <2>2, <3>2, <3>3
      <4>2. ~(Parent(q) = p \/ Below(Parent(q), p))
        BY <3>2, <3>3, <4>1, BelowParent
      <4> QED
        BY <3>2, <4>1, <4>2
    <3> HIDE DEF gone
    <3>4. \A o \in objects'[b] : o.path \in PathsOf(b)'
      BY <1>1, <3>1, <3>2
    <3>5. /\ \A o1, o2 \in objects'[b] :
               o1.path = o2.path /\ o1.kind = o2.kind /\ o1.key = o2.key => o1 = o2
          /\ \A s1, s2 \in schemas'[b] : s1.path = s2.path => s1 = s2
      BY <1>1, <3>1
    <3> QED
      BY <3>3, <3>4, <3>5
  <2>5. ASSUME NEW kind \in Kinds, NEW item \in Items, NEW flag \in BOOLEAN,
               NEW d \in Comments, PutObject(b, p, kind, name, item, d, flag)
        PROVE  Tree(b)'
    <3> DEFINE o == [path |-> p, kind |-> kind, key |-> Lower[name],
                     item |-> item, comment |-> d,
                     revision |-> IF kind = "table" /\ item \in NotNull
                                  THEN version[b] ELSE 0]
    <3>1. o.path = p /\ o.kind = kind /\ o.key = Lower[name]
      OBVIOUS
    <3>2. /\ objects'[b] = {x \in objects[b] : ~Holds(x, p, kind, name)} \cup {o}
          /\ schemas' = schemas
          /\ p \in PathsOf(b)
      BY <2>5 DEF PutObject, TypeOK
    <3> HIDE DEF o
    <3>3. PathsOf(b)' = PathsOf(b)
      BY <3>2 DEF PathsOf
    <3> QED
      BY <1>1, <3>1, <3>2, <3>3 DEF Holds
  <2>6. ASSUME NEW kind \in Kinds, DropObject(b, p, kind, name) PROVE Tree(b)'
    <3>1. objects'[b] \subseteq objects[b] /\ schemas' = schemas
      BY <2>6 DEF DropObject, TypeOK
    <3> QED
      BY <1>1, <3>1 DEF PathsOf
  <2>7. CASE ViewCommentSet(b, p, name, c)
    <3>1. PICK o \in objects[b] :
            /\ objects' = [objects EXCEPT ![b] =
                 (objects[b] \ {o}) \cup {[o EXCEPT !.comment = c]}]
            /\ schemas' = schemas
      BY <2>7 DEF ViewCommentSet
    <3> DEFINE n == [o EXCEPT !.comment = c]
    <3>2. n.path = o.path /\ n.kind = o.kind /\ n.key = o.key
      BY <2>2, <3>1 DEF ObjectRows
    <3>3. objects'[b] = (objects[b] \ {o}) \cup {n}
      BY <3>1 DEF TypeOK
    <3> HIDE DEF n
    <3>4. PathsOf(b)' = PathsOf(b)
      BY <3>1 DEF PathsOf
    <3> QED
      BY <1>1, <3>1, <3>2, <3>3, <3>4
  <2> QED
    BY <2>1, <2>3, <2>4, <2>5, <2>6, <2>7, MemoryCatalogAssumption
       DEF TableCreate, ViewCreate, Kinds
<1>7. ASSUME NEW a \in Attachments, Detach(a) PROVE Tree(b)'
  BY <1>3, <1>7 DEF Detach
<1>8. ASSUME NEW t \in Callers,
             \/ \E a \in Attachments : ReadVersion(t, a)
             \/ Validate(t) \/ Snapshot(t) \/ CallFails(t)
      PROVE  Tree(b)'
  BY <1>3, <1>8 DEF ReadVersion, Validate, Snapshot, CallFails, Answered
<1>9. CASE UNCHANGED vars
  BY <1>3, <1>9 DEF vars
<1> QED
  BY <1>4, <1>5, <1>6, <1>7, <1>8, <1>9 DEF Next

\* After any sequence of creates, replaces and cascading drops every schema
\* has its parent and every table and view a schema, so check_paths never
\* refuses the catalog.
THEOREM CatalogTree == Spec => [](NoOrphans /\ OneOfEach)
<1>1. Init => TypeOK /\ NoOrphans /\ OneOfEach
  BY DEF Init, TypeOK, NoOrphans, OneOfEach, PathsOf
<1>2. TypeOK /\ NoOrphans /\ OneOfEach /\ [Next]_vars
        => TypeOK' /\ NoOrphans' /\ OneOfEach'
  BY TypeStep, TreeStep
<1> QED
  BY <1>1, <1>2, PTL DEF Spec

-----------------------------------------------------------------------------
(* Answers and versions                                                    *)

Calls == [on : Attachments, version : Nat, start : Nat]
Answers == [on : Attachments, version : Nat,
            etag : Nat \cup {None} \cup ((SUBSET SchemaRows) \X (SUBSET ObjectRows)),
            contents : (SUBSET SchemaRows) \X (SUBSET ObjectRows),
            start : Nat, at : Nat]

\* The type of calls in progress and of held answers.
CallsTyped ==
  /\ call \in [Callers -> Calls \cup {None}]
  /\ cache \in [Callers -> Answers \cup {None}]

CInv == TypeOK /\ CallsTyped /\ AnswersAreDated /\ AnswersAreFresh

\* One caller's part of CInv.
Sound(t) ==
  /\ call[t] \in Calls \cup {None} /\ cache[t] \in Answers \cup {None}
  /\ call[t] # None =>
       /\ call[t].on \in used
       /\ call[t].start <= version[call[t].on]
       /\ call[t].version = IF options.unversioned THEN 0 ELSE call[t].start
  /\ cache[t] # None =>
       /\ cache[t].on \in used
       /\ cache[t].at <= version[cache[t].on]
       /\ ~options.unversioned => cache[t].at >= cache[t].version
       /\ options.etag = "generation" =>
            cache[t].etag \in Nat /\ cache[t].at >= cache[t].etag
       /\ options.etag = "hash" => cache[t].etag = cache[t].contents
       /\ cache[t].at >= cache[t].start
       /\ cache[t].at = version[cache[t].on] =>
            cache[t].contents = Contents(cache[t].on)

\* A handler that leaves calls and answers alone, and moves the version of the
\* one attachment whose contents it changes, keeps every caller's part.
LEMMA ChangeIsDated ==
  ASSUME TypeOK, NEW t \in Callers, Sound(t), NEW a \in Attachments,
         version' = [version EXCEPT ![a] = version[a] + 1],
         \A b \in Attachments \ {a} : schemas'[b] = schemas[b] /\ objects'[b] = objects[b],
         used' = used, call' = call, cache' = cache, options' = options
  PROVE  Sound(t)'
<1>1. /\ version[a] \in Nat /\ version'[a] = version[a] + 1
      /\ \A b \in Attachments \ {a} : version'[b] = version[b]
  BY DEF TypeOK
<1>2. CASE cache[t] = None
  <2>1. CASE call[t] = None
    BY <1>2, <2>1 DEF Sound
  <2>2. CASE call[t] # None
    BY <1>1, <1>2, <2>2 DEF Sound, Calls, TypeOK
  <2> QED
    BY <2>1, <2>2
<1>3. CASE cache[t] # None
  <2>1. cache[t].on \in Attachments /\ cache[t].at \in Nat
    BY <1>3 DEF Sound, Answers
  <2>2. call[t] # None => call[t].on \in Attachments /\ call[t].start \in Nat
    BY DEF Sound, Calls
  <2>3. version[cache[t].on] \in Nat
    BY <2>1 DEF TypeOK
  <2>4. cache[t].at <= version'[cache[t].on]
    BY <1>1, <1>3, <2>1, <2>3 DEF Sound
  <2>5. cache[t].at = version'[cache[t].on] =>
          cache[t].contents = Contents(cache[t].on)'
    BY <1>1, <1>3, <2>1, <2>3 DEF Sound, Contents
  <2>6. call[t] # None => call[t].start <= version'[call[t].on]
    BY <1>1, <2>2 DEF Sound, TypeOK
  <2> QED
    BY <1>3, <2>4, <2>5, <2>6 DEF Sound
<1> QED
  BY <1>2, <1>3

\* What a not_modified answer changes of the one it revalidates.
LEMMA NotModifiedFields ==
  ASSUME CallsTyped, NEW t \in Callers, cache[t] # None, call[t] # None,
         NEW at \in Nat, NotModified(t, at)
  PROVE  /\ cache' \in [Callers -> Answers \cup {None}]
         /\ \A u \in Callers \ {t} : cache'[u] = cache[u]
         /\ cache'[t].on = cache[t].on /\ cache'[t].etag = cache[t].etag
         /\ cache'[t].contents = cache[t].contents
         /\ cache'[t].version = call[t].version
         /\ cache'[t].start = call[t].start /\ cache'[t].at = at
         /\ cache'[t] \in Answers
<1> DEFINE n == [cache[t] EXCEPT !.version = call[t].version,
                                 !.start = call[t].start, !.at = at]
<1>1. cache[t] \in Answers /\ call[t] \in Calls
  BY DEF CallsTyped
<1>2. call[t].version \in Nat /\ call[t].start \in Nat
  BY <1>1 DEF Calls
<1>3. /\ n \in Answers
      /\ n.on = cache[t].on /\ n.etag = cache[t].etag
      /\ n.contents = cache[t].contents /\ n.version = call[t].version
      /\ n.start = call[t].start /\ n.at = at
  BY <1>1, <1>2 DEF Answers
<1>4. cache' = [cache EXCEPT ![t] = n]
  BY DEF NotModified
<1> HIDE DEF n
<1> QED
  BY <1>3, <1>4 DEF CallsTyped

\* The two halves of catalog_contents, and everything in between, keep answers
\* dated and fresh.
LEMMA CacheStep ==
  ASSUME CInv, [Next]_vars
  PROVE  CInv'
<1>1. TypeOK /\ TypeOK'
  BY TypeStep DEF CInv
<1>2. \A t \in Callers : Sound(t)
  BY DEF CInv, CallsTyped, AnswersAreDated, AnswersAreFresh, Sound
<1>3. SUFFICES /\ \A t \in Callers : Sound(t)'
               /\ call' \in [Callers -> Calls \cup {None}]
               /\ cache' \in [Callers -> Answers \cup {None}]
  BY <1>1 DEF CInv, CallsTyped, AnswersAreDated, AnswersAreFresh, Sound
<1> DEFINE Goal == /\ \A t \in Callers : Sound(t)'
                   /\ call' \in [Callers -> Calls \cup {None}]
                   /\ cache' \in [Callers -> Answers \cup {None}]
<1>4. call \in [Callers -> Calls \cup {None}] /\ cache \in [Callers -> Answers \cup {None}]
  BY DEF CInv, CallsTyped
<1>5. ASSUME NEW a \in Attachments, NEW selected \in BOOLEAN, Attach(a, selected)
      PROVE  Goal
  <2>1. /\ a \notin used /\ used' = used \cup {a} /\ call' = call /\ cache' = cache
        /\ options' = options
        /\ \A b \in Attachments \ {a} :
             /\ version'[b] = version[b] /\ schemas'[b] = schemas[b]
             /\ objects'[b] = objects[b]
    BY <1>1, <1>5 DEF Attach, TypeOK
  <2>2. ASSUME NEW t \in Callers PROVE Sound(t)'
    <3>1. cache[t] # None => cache[t].on \in Attachments \ {a}
      BY <1>2, <2>1 DEF Sound, Answers
    <3>2. call[t] # None => call[t].on \in Attachments \ {a}
      BY <1>2, <2>1 DEF Sound, Calls
    <3> QED
      BY <1>2, <2>1, <3>1, <3>2 DEF Sound, Contents
  <2> QED
    BY <1>4, <2>1, <2>2
<1>6. ASSUME NEW a \in Attachments, Ddl(a) PROVE Goal
  <2>1. /\ version' = [version EXCEPT ![a] = version[a] + 1]
        /\ \A b \in Attachments \ {a} : schemas'[b] = schemas[b] /\ objects'[b] = objects[b]
        /\ used' = used /\ call' = call /\ cache' = cache
        /\ options' = options
    BY <1>1, <1>6 DEF Ddl, SchemaCreate, SchemaDrop, TableCreate, ViewCreate, PutObject,
     DropObject, ViewCommentSet, Change, TypeOK
  <2> QED
    BY <1>1, <1>2, <1>4, <2>1, ChangeIsDated
<1>7. ASSUME NEW a \in Attachments, Detach(a) PROVE Goal
  BY <1>2, <1>4, <1>7 DEF Detach, Sound, Contents
<1>8. ASSUME NEW t \in Callers, NEW a \in Attachments, ReadVersion(t, a) PROVE Goal
  <2> DEFINE c == [on |-> a, version |-> Reported(a), start |-> version[a]]
  <2>1. c \in Calls /\ c.on = a /\ c.version = Reported(a) /\ c.start = version[a]
    BY <1>1, MemoryCatalogAssumption DEF Calls, Reported, TypeOK
  <2>2. /\ call' = [call EXCEPT ![t] = c] /\ a \in used
        /\ used' = used /\ version' = version /\ schemas' = schemas
        /\ objects' = objects /\ cache' = cache /\ options' = options
    BY <1>1, <1>8 DEF ReadVersion, TypeOK
  <2> HIDE DEF c
  <2>3. call' \in [Callers -> Calls \cup {None}]
    BY <1>4, <2>1, <2>2
  <2>4. ASSUME NEW u \in Callers PROVE Sound(u)'
    <3>1. CASE u # t
      BY <1>2, <1>4, <2>2, <3>1 DEF Sound, Contents
    <3>2. CASE u = t
      <4>1. call'[u] = c /\ version[a] \in Nat
        BY <1>1, <1>4, <2>2, <3>2 DEF TypeOK
      <4> QED
        BY <1>2, <2>1, <2>2, <3>2, <4>1 DEF Sound, Contents, Reported
    <3> QED
      BY <3>1, <3>2
  <2> QED
    BY <1>4, <2>2, <2>3, <2>4
<1>9. ASSUME NEW t \in Callers, Validate(t) PROVE Goal
  <2>1. /\ call[t] # None /\ cache[t] # None /\ cache[t].on = call[t].on
        /\ cache[t].etag = call[t].version /\ options.etag = "generation"
        /\ NotModified(t, cache[t].at)
        /\ call' = [call EXCEPT ![t] = None]
        /\ UNCHANGED <<options, used, version, schemas, objects>>
    BY <1>9 DEF Validate, Offers, Answered
  <2>2. cache[t].at \in Nat /\ call[t].start \in Nat /\ ~options.unversioned
    BY <1>1, <1>2, <2>1, MemoryCatalogAssumption DEF Sound, Answers, Calls, TypeOK
  <2>3. call[t].version = call[t].start /\ cache[t].at >= call[t].start
    BY <1>2, <2>1, <2>2 DEF Sound
  <2>4. /\ cache' \in [Callers -> Answers \cup {None}]
        /\ \A u \in Callers \ {t} : cache'[u] = cache[u]
        /\ cache'[t].on = cache[t].on /\ cache'[t].etag = cache[t].etag
        /\ cache'[t].contents = cache[t].contents
        /\ cache'[t].version = call[t].version
        /\ cache'[t].start = call[t].start /\ cache'[t].at = cache[t].at
        /\ cache'[t] \in Answers
    BY <2>1, <2>2, NotModifiedFields DEF CInv
  <2>5. call' \in [Callers -> Calls \cup {None}] /\ call'[t] = None
        /\ \A u \in Callers \ {t} : call'[u] = call[u]
    BY <1>4, <2>1
  <2>6. ASSUME NEW u \in Callers, u # t PROVE Sound(u)'
    BY <1>2, <2>1, <2>4, <2>5, <2>6 DEF Sound, Contents
  <2>7. Sound(t)'
    BY <1>2, <2>1, <2>2, <2>3, <2>4, <2>5 DEF Sound, Contents
  <2> QED
    BY <2>4, <2>5, <2>6, <2>7
<1>10. ASSUME NEW t \in Callers, Snapshot(t) PROVE Goal
  <2> DEFINE a == call[t].on
  <2>1. /\ call[t] # None /\ a \in live
        /\ call' = [call EXCEPT ![t] = None]
        /\ UNCHANGED <<options, used, version, schemas, objects>>
    BY <1>10 DEF Snapshot, Answered
  <2>2. /\ a \in Attachments /\ a \in used /\ version[a] \in Nat
        /\ call[t].start \in Nat /\ call[t].version \in Nat
        /\ call[t].start <= version[a]
        /\ ~options.unversioned => call[t].version = call[t].start
        /\ Contents(a) \in (SUBSET SchemaRows) \X (SUBSET ObjectRows)
    <3>1. call[t] \in Calls /\ Sound(t)
      BY <1>2, <2>1 DEF Sound
    <3>2. a \in Attachments /\ call[t].start \in Nat /\ call[t].version \in Nat
      BY <3>1 DEF Calls
    <3>3. /\ a \in used /\ call[t].start <= version[a]
          /\ ~options.unversioned => call[t].version = call[t].start
      BY <2>1, <3>1 DEF Sound
    <3>4. /\ version[a] \in Nat /\ schemas[a] \in SUBSET SchemaRows
          /\ objects[a] \in SUBSET ObjectRows
      BY <1>1, <3>2 DEF TypeOK
    <3>5. ASSUME NEW x \in SUBSET SchemaRows, NEW y \in SUBSET ObjectRows
          PROVE  <<x, y>> \in (SUBSET SchemaRows) \X (SUBSET ObjectRows)
      OBVIOUS
    <3>6. Contents(a) \in (SUBSET SchemaRows) \X (SUBSET ObjectRows)
      BY <3>4, <3>5 DEF Contents
    <3> QED
      BY <3>2, <3>3, <3>4, <3>6
  <2>3. call' \in [Callers -> Calls \cup {None}] /\ call'[t] = None
        /\ \A u \in Callers \ {t} : call'[u] = call[u]
    BY <1>4, <2>1
  <2>4. CASE options.etag = "hash" /\ Offers(t, EtagOf(t))
    <3>1. /\ cache[t] # None /\ cache[t].on = a
          /\ cache[t].etag = Contents(a) /\ NotModified(t, version[a])
      BY <1>10, <2>4 DEF Snapshot, Offers, EtagOf
    <3>2. /\ cache' \in [Callers -> Answers \cup {None}]
          /\ \A u \in Callers \ {t} : cache'[u] = cache[u]
          /\ cache'[t].on = cache[t].on /\ cache'[t].etag = cache[t].etag
          /\ cache'[t].contents = cache[t].contents
          /\ cache'[t].version = call[t].version
          /\ cache'[t].start = call[t].start /\ cache'[t].at = version[a]
          /\ cache'[t] \in Answers
      BY <2>1, <2>2, <3>1, NotModifiedFields DEF CInv
    <3>3. cache[t].contents = Contents(a)
      BY <1>2, <2>4, <3>1 DEF Sound
    <3>4. ASSUME NEW u \in Callers, u # t PROVE Sound(u)'
      BY <1>2, <2>1, <2>3, <3>2, <3>4 DEF Sound, Contents
    <3>5. Sound(t)'
      BY <2>1, <2>2, <2>3, <2>4, <3>1, <3>2, <3>3 DEF Sound, Contents
    <3> QED
      BY <2>3, <3>2, <3>4, <3>5
  <2>5. CASE ~(options.etag = "hash" /\ Offers(t, EtagOf(t)))
    <3> DEFINE n == [on |-> a, version |-> call[t].version, etag |-> EtagOf(t),
                     contents |-> Contents(a), start |-> call[t].start,
                     at |-> version[a]]
    <3>1. /\ options.etag = "generation" => EtagOf(t) = call[t].version
          /\ options.etag = "hash" => EtagOf(t) = Contents(a)
          /\ EtagOf(t) \in Nat \cup {None} \cup ((SUBSET SchemaRows) \X (SUBSET ObjectRows))
      BY <1>1, <2>2, MemoryCatalogAssumption DEF EtagOf, OptionRows, TypeOK
    <3>2. /\ n \in Answers
          /\ n.on = a /\ n.version = call[t].version /\ n.etag = EtagOf(t)
          /\ n.contents = Contents(a) /\ n.start = call[t].start
          /\ n.at = version[a]
      BY <2>2, <3>1 DEF Answers
    <3>3. cache' = [cache EXCEPT ![t] = n]
      BY <1>10, <2>5 DEF Snapshot
    <3> HIDE DEF n
    <3>4. /\ cache' \in [Callers -> Answers \cup {None}] /\ cache'[t] = n
          /\ \A u \in Callers \ {t} : cache'[u] = cache[u]
      BY <1>4, <3>2, <3>3
    <3>5. ASSUME NEW u \in Callers, u # t PROVE Sound(u)'
      BY <1>2, <2>1, <2>3, <3>4, <3>5 DEF Sound, Contents
    <3>6. options.etag = "generation" => n.etag \in Nat /\ n.at >= n.etag
      BY <1>1, <2>2, <3>1, <3>2, MemoryCatalogAssumption DEF TypeOK
    <3>7. Sound(t)'
      BY <2>1, <2>2, <2>3, <3>1, <3>2, <3>4, <3>6 DEF Sound, Contents
    <3> QED
      BY <2>3, <3>4, <3>5, <3>7
  <2> QED
    BY <2>4, <2>5
<1>11. ASSUME NEW t \in Callers, CallFails(t) PROVE Goal
  <2>1. /\ call' = [call EXCEPT ![t] = None]
        /\ UNCHANGED <<options, used, version, schemas, objects, cache>>
    BY <1>11 DEF CallFails, Answered
  <2> QED
    BY <1>2, <1>4, <2>1 DEF Sound, Contents
<1>12. CASE UNCHANGED vars
  BY <1>2, <1>4, <1>12 DEF vars, Sound, Contents
<1> QED
  BY <1>5, <1>6, <1>7, <1>8, <1>9, <1>10, <1>11, <1>12 DEF Next

\* The inductive invariant of the cached answers holds in every reachable
\* state.
LEMMA AnswersInvariant == Spec => []CInv
<1>1. Init => CInv
  BY DEF Init, CInv, TypeOK, CallsTyped, AnswersAreDated, AnswersAreFresh
<1>2. CInv /\ [Next]_vars => CInv'
  BY CacheStep
<1> QED
  BY <1>1, <1>2, PTL DEF Spec

\* Whatever DDL falls between the two critical sections of catalog_contents,
\* an answer is of a version no older than the one its call found, and while
\* that version is the present one it is the catalog, in every etag mode.
THEOREM FreshAnswers == Spec => []AnswersAreFresh
  BY AnswersInvariant, PTL DEF CInv

\* An answer held under the catalog's present version is the catalog: a client
\* that compares versions before it trusts its cache is never misled, unless
\* the catalog was attached without versions.
THEOREM CatalogAnswers == Spec => []VersionTellsAll
<1>1. CInv => VersionTellsAll
  <2>1. SUFFICES ASSUME CInv, NEW t \in Callers, cache[t] # None, ~options.unversioned,
                        cache[t].version = version[cache[t].on]
                 PROVE  cache[t].contents = Contents(cache[t].on)
    BY DEF VersionTellsAll
  <2>2. cache[t].at \in Nat /\ version[cache[t].on] \in Nat
    BY <2>1 DEF CInv, CallsTyped, TypeOK, Answers
  <2>3. cache[t].at = version[cache[t].on]
    BY <2>1, <2>2 DEF CInv, AnswersAreDated
  <2> QED
    BY <2>1, <2>3 DEF CInv, AnswersAreFresh
<1> QED
  BY <1>1, AnswersInvariant, PTL
=============================================================================
