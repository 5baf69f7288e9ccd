---------------------------- MODULE MemoryCatalog ----------------------------
(***************************************************************************)
(* The DDL-capable in-memory catalog (src/memory_catalog.cpp) and the      *)
(* catalog_contents answer built on it (src/catalog_contents.cpp).         *)
(*                                                                         *)
(* Every DDL runs under one mutex and is one step here.  catalog_contents  *)
(* is not: it reads the version under the lock, lets go, and composes the  *)
(* snapshot under the lock a second time, so DDL of other threads falls in *)
(* between.  A caller (the engine, external) keeps the last answer with    *)
(* its version and etag and offers the etag back as if_none_match.         *)
(*                                                                         *)
(* A call that is refused, or that on_conflict = IGNORE or                 *)
(* ignore_not_found turns into a no-op, changes nothing: a stuttering step.*)
(* The constraint check of catalog_table_create is a critical section of   *)
(* its own, but reads a flag that is fixed at ATTACH.                      *)
(***************************************************************************)
EXTENDS Naturals, Sequences

CONSTANTS
  Attachments,   \* attach_opaque_data tokens
  Components,    \* names of schemas: the components of a path
  Main,          \* "main"
  Names,         \* names of tables and views
  Lower,         \* lower(): a function on Names
  Items,         \* table definitions and view definitions
  NotNull,       \* the table definitions that declare NOT NULL
  Comments,      \* optional comments of schemas and views, None among them
  Callers,       \* threads calling catalog_contents
  Options,       \* the MemoryCatalogOptions a worker may register
  None,
  MaxDepth,      \* bound on the length of a path
  MaxVersion     \* bound on the version of an attachment

Paths == UNION {[1..n -> Components] : n \in 1..MaxDepth}
Parent(p) == SubSeq(p, 1, Len(p) - 1)
Below(q, p) == Len(q) > Len(p) /\ SubSeq(q, 1, Len(p)) = p

\* unversioned, and where etags come from: nowhere, the content hash, or a
\* handler that names the generation.  A generation etag is the reported
\* version, so a catalog that reports none cannot use it.
OptionRows == [unversioned : BOOLEAN, etag : {"none", "hash", "generation"}]

ASSUME MemoryCatalogAssumption ==
  /\ MaxDepth \in Nat \ {0} /\ MaxVersion \in Nat
  /\ Main \in Components
  /\ Lower \in [Names -> Names]
  /\ NotNull \subseteq Items /\ None \in Comments
  /\ Options \subseteq OptionRows
  /\ \A o \in Options : o.etag = "generation" => ~o.unversioned

VARIABLES
  options,      \* options_, as the catalog was constructed
  live,         \* the attachments in attaches_
  used,         \* every token ever drawn
  constraints,  \* State::constraints
  version,      \* State::version
  schemas,      \* State::schemas: path and comment
  objects,      \* the tables and views of every schema
  call,         \* per caller: the catalog_contents call in progress
  cache         \* per caller: the last answer, and when it was true

vars ==
  <<options, live, used, constraints, version, schemas, objects, call, cache>>

Kinds == {"table", "view"}

SchemaRows == [path : Paths, comment : Comments]
ObjectRows ==
  [path : Paths, kind : Kinds, key : Names, item : Items, comment : Comments,
   revision : Nat]

PathsOf(a) == {s.path : s \in schemas[a]}
Contents(a) == <<schemas[a], objects[a]>>

\* reported_version
Reported(a) == IF options.unversioned THEN 0 ELSE version[a]

Init ==
  /\ options \in Options
  /\ live = {} /\ used = {}
  /\ constraints = [a \in Attachments |-> FALSE]
  /\ version = [a \in Attachments |-> 0]
  /\ schemas = [a \in Attachments |-> {}]
  /\ objects = [a \in Attachments |-> {}]
  /\ call = [t \in Callers |-> None]
  /\ cache = [t \in Callers |-> None]

-----------------------------------------------------------------------------
(* Attachments                                                             *)

\* catalog_attach: a random token, an empty "main", version 1.
Attach(a, selected) ==
  /\ a \notin used
  /\ used' = used \cup {a}
  /\ live' = live \cup {a}
  /\ constraints' = [constraints EXCEPT ![a] = selected]
  /\ version' = [version EXCEPT ![a] = 1]
  /\ schemas' = [schemas EXCEPT ![a] = {[path |-> <<Main>>, comment |-> None]}]
  /\ objects' = [objects EXCEPT ![a] = {}]
  /\ UNCHANGED <<options, call, cache>>

\* catalog_detach
Detach(a) ==
  /\ a \in live
  /\ live' = live \ {a}
  /\ UNCHANGED <<options, used, constraints, version, schemas, objects, call,
                cache>>

-----------------------------------------------------------------------------
(* DDL                                                                     *)

\* What every DDL that changes something does besides: ++st.version.
Change(a) ==
  /\ a \in live
  /\ version[a] < MaxVersion
  /\ version' = [version EXCEPT ![a] = @ + 1]
  /\ UNCHANGED <<options, live, used, constraints, call, cache>>

\* schema_create: an existing schema is replaced, tables and views and all,
\* only under on_conflict = REPLACE; its nested schemas stay.
SchemaCreate(a, p, c, replace) ==
  /\ Change(a)
  /\ p \in PathsOf(a) => replace
  /\ Len(p) > 1 => Parent(p) \in PathsOf(a)
  /\ schemas' = [schemas EXCEPT ![a] =
       {s \in @ : s.path # p} \cup {[path |-> p, comment |-> c]}]
  /\ objects' = [objects EXCEPT ![a] = {o \in @ : o.path # p}]

\* Mutant of SchemaDrop: CASCADE takes the children but not what is below
\* them.
SchemaDropShallow(a, p, cascade) ==
  LET children == {q \in PathsOf(a) : Len(q) > 1 /\ Parent(q) = p} IN
  /\ Change(a)
  /\ p \in PathsOf(a)
  /\ cascade \/ (children = {} /\ \A o \in objects[a] : o.path # p)
  /\ schemas' = [schemas EXCEPT ![a] =
       {s \in @ : s.path # p /\ s.path \notin children}]
  /\ objects' = [objects EXCEPT ![a] =
       {o \in @ : o.path # p /\ o.path \notin children}]

\* schema_drop: everything whose key starts with the path's key and a NUL
\* goes with it; without CASCADE the schema must be empty.
SchemaDrop(a, p, cascade) ==
  LET children == {q \in PathsOf(a) : Below(q, p)} IN
  /\ Change(a)
  /\ p \in PathsOf(a)
  /\ cascade \/ (children = {} /\ \A o \in objects[a] : o.path # p)
  /\ schemas' = [schemas EXCEPT ![a] =
       {s \in @ : s.path # p /\ s.path \notin children}]
  /\ objects' = [objects EXCEPT ![a] =
       {o \in @ : o.path # p /\ o.path \notin children}]

Holds(o, p, kind, name) == o.path = p /\ o.kind = kind /\ o.key = Lower[name]

\* put_object; a table that declares NOT NULL has a fresh definition_revision.
PutObject(a, p, kind, name, item, c, replace) ==
  /\ Change(a)
  /\ p \in PathsOf(a)
  /\ (\E o \in objects[a] : Holds(o, p, kind, name)) => replace
  /\ objects' = [objects EXCEPT ![a] =
       {o \in @ : ~Holds(o, p, kind, name)} \cup
       {[path |-> p, kind |-> kind, key |-> Lower[name], item |-> item,
         comment |-> c,
         revision |-> IF kind = "table" /\ item \in NotNull
                      THEN version[a] ELSE 0]}]
  /\ UNCHANGED schemas

\* catalog_table_create: no comment, and NOT NULL only under the negotiated
\* profile.
TableCreate(a, p, name, item, replace) ==
  /\ item \in NotNull => constraints[a]
  /\ PutObject(a, p, "table", name, item, None, replace)

\* catalog_view_create
ViewCreate(a, p, name, item, c, replace) ==
  PutObject(a, p, "view", name, item, c, replace)

\* catalog_table_drop and catalog_view_drop, through drop_object.
DropObject(a, p, kind, name) ==
  /\ Change(a)
  /\ \E o \in objects[a] : Holds(o, p, kind, name)
  /\ objects' = [objects EXCEPT ![a] = {o \in @ : ~Holds(o, p, kind, name)}]
  /\ UNCHANGED schemas

\* Mutant of ViewCommentSet: the version is not bumped.
ViewCommentSilent(a, p, name, c) ==
  /\ a \in live
  /\ \E o \in objects[a] :
       /\ Holds(o, p, "view", name)
       /\ objects' = [objects EXCEPT ![a] =
            (@ \ {o}) \cup {[o EXCEPT !.comment = c]}]
  /\ UNCHANGED <<options, live, used, constraints, version, schemas, call,
                cache>>

\* catalog_view_comment_set, catalog_view_column_comment_set
ViewCommentSet(a, p, name, c) ==
  /\ Change(a)
  /\ \E o \in objects[a] :
       /\ Holds(o, p, "view", name)
       /\ objects' = [objects EXCEPT ![a] =
            (@ \ {o}) \cup {[o EXCEPT !.comment = c]}]
  /\ UNCHANGED schemas

Ddl(a) ==
  \E p \in Paths, c \in Comments, name \in Names :
    \/ \E flag \in BOOLEAN : SchemaCreate(a, p, c, flag)
    \/ \E flag \in BOOLEAN : SchemaDrop(a, p, flag)
    \/ \E item \in Items, flag \in BOOLEAN :
         \/ TableCreate(a, p, name, item, flag)
         \/ ViewCreate(a, p, name, item, c, flag)
    \/ \E kind \in Kinds : DropObject(a, p, kind, name)
    \/ ViewCommentSet(a, p, name, c)

-----------------------------------------------------------------------------
(* catalog_contents                                                        *)

\* contents: the version, under the lock.
ReadVersion(t, a) ==
  /\ a \in live
  /\ call[t] = None
  /\ call' = [call EXCEPT ![t] =
       [on |-> a, version |-> Reported(a), start |-> version[a]]]
  /\ UNCHANGED <<options, live, used, constraints, version, schemas, objects,
                cache>>

\* if_none_match: the etag of what the caller holds of this attachment.
Offers(t, etag) ==
  /\ cache[t] # None
  /\ cache[t].on = call[t].on
  /\ cache[t].etag = etag

\* not_modified: the caller keeps its contents under the answered version.
NotModified(t, at) ==
  cache' = [cache EXCEPT ![t] =
    [@ EXCEPT !.version = call[t].version, !.start = call[t].start, !.at = at]]

Answered(t) ==
  /\ call' = [call EXCEPT ![t] = None]
  /\ UNCHANGED <<options, live, used, constraints, version, schemas, objects>>

\* Mutant of Validate: the handler trusts any etag it is offered.
ValidateAny(t) ==
  /\ call[t] # None
  /\ options.etag = "generation"
  /\ cache[t] # None
  /\ cache[t].on = call[t].on
  /\ NotModified(t, cache[t].at)
  /\ Answered(t)

\* A handler with a generation etag answers not_modified without a snapshot.
Validate(t) ==
  /\ call[t] # None
  /\ options.etag = "generation"
  /\ Offers(t, call[t].version)
  /\ NotModified(t, cache[t].at)
  /\ Answered(t)

\* The etag of a full answer: the handler's, or the content hash (external:
\* SHA-256, taken to be injective), or none.
EtagOf(t) ==
  CASE options.etag = "generation" -> call[t].version
    [] options.etag = "hash" -> Contents(call[t].on)
    [] options.etag = "none" -> None

\* snapshot, under the lock again, and the answer: not_modified when the hash
\* of what it found is the one the caller offered.
Snapshot(t) ==
  LET a == call[t].on IN
  /\ call[t] # None
  /\ a \in live
  /\ options.etag = "generation" => ~Offers(t, call[t].version)
  /\ IF options.etag = "hash" /\ Offers(t, EtagOf(t))
     THEN NotModified(t, version[a])
     ELSE cache' = [cache EXCEPT ![t] =
            [on |-> a, version |-> call[t].version, etag |-> EtagOf(t),
             contents |-> Contents(a), start |-> call[t].start,
             at |-> version[a]]]
  /\ Answered(t)

\* "not attached": detached between the two critical sections.
CallFails(t) ==
  /\ call[t] # None
  /\ call[t].on \notin live
  /\ UNCHANGED cache
  /\ Answered(t)

-----------------------------------------------------------------------------

Next ==
  \/ \E a \in Attachments :
       \/ \E selected \in BOOLEAN : Attach(a, selected)
       \/ Detach(a)
       \/ Ddl(a)
  \/ \E t \in Callers :
       \/ \E a \in Attachments : ReadVersion(t, a)
       \/ Validate(t) \/ Snapshot(t) \/ CallFails(t)

Spec == Init /\ [][Next]_vars

-----------------------------------------------------------------------------
(* Properties                                                              *)

TypeOK ==
  /\ options \in Options
  /\ live \subseteq used /\ used \subseteq Attachments
  /\ constraints \in [Attachments -> BOOLEAN]
  /\ version \in [Attachments -> Nat]
  /\ schemas \in [Attachments -> SUBSET SchemaRows]
  /\ objects \in [Attachments -> SUBSET ObjectRows]

\* Every schema's parent is there and every table and view is in a schema that
\* is: check_paths would otherwise refuse the whole catalog ("without its
\* parent"), after any sequence of creates, replaces and cascading drops.
NoOrphans ==
  \A a \in Attachments :
    /\ \A p \in PathsOf(a) : Len(p) > 1 => Parent(p) \in PathsOf(a)
    /\ \A o \in objects[a] : o.path \in PathsOf(a)

\* A schema holds at most one table and one view of a name, whatever the case
\* it is written in, and a path at most one schema: on_conflict decides
\* between the old and the new, never both.
OneOfEach ==
  \A a \in Attachments :
    /\ \A o1, o2 \in objects[a] :
         o1.path = o2.path /\ o1.kind = o2.kind /\ o1.key = o2.key => o1 = o2
    /\ \A s1, s2 \in schemas[a] : s1.path = s2.path => s1 = s2

\* The version a client polls is enough to know whether what it holds is
\* current ("Its version starts at 1, is bumped by every DDL"), although
\* catalog_contents reads the version and the contents in two critical
\* sections: an answer under the catalog's present version is the catalog.
VersionTellsAll ==
  \A t \in Callers :
    (/\ cache[t] # None /\ ~options.unversioned
     /\ cache[t].version = version[cache[t].on])
      => cache[t].contents = Contents(cache[t].on)

\* An answer, not_modified included, leaves the caller with contents the
\* catalog had at some moment after the call began: no etag mode revalidates
\* what a DDL completed before the call has changed.
AnswersAreFresh ==
  \A t \in Callers : cache[t] # None =>
    /\ cache[t].at >= cache[t].start
    /\ cache[t].at = version[cache[t].on] =>
         cache[t].contents = Contents(cache[t].on)
-----------------------------------------------------------------------------
(* The inductive strengthening                                             *)

\* What relates a held answer to the catalog: contents of a version no newer
\* than the present, no older than the version and the etag it goes by; and a
\* call in progress to the version it read.
AnswersAreDated ==
  \A t \in Callers :
    /\ call[t] # None =>
         /\ call[t].on \in used
         /\ call[t].start <= version[call[t].on]
         /\ call[t].version = IF options.unversioned THEN 0 ELSE call[t].start
    /\ cache[t] # None =>
         /\ cache[t].on \in used
         /\ cache[t].at <= version[cache[t].on]
         /\ ~options.unversioned => cache[t].at >= cache[t].version
         /\ options.etag = "generation" =>
              cache[t].etag \in Nat /\ cache[t].at >= cache[t].etag
         /\ options.etag = "hash" => cache[t].etag = cache[t].contents
=============================================================================
