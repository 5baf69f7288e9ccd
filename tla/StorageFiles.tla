---------------------------- MODULE StorageFiles -----------------------------
(***************************************************************************)
(* The files of one scope of FilesystemStorage: the log and its queue,     *)
(* pushed to one call at a time (WorkQueue), and the file of one key       *)
(* (KvStore).  They are different names of the directory, so a behaviour   *)
(* is of one or the other.                                                 *)
(***************************************************************************)
EXTENDS WorkQueue

CONSTANTS Threads, ProcOf, Values, Inodes, None     \* KvStore

VARIABLES half, path, temp, content, call, fd, value, got, raced

K == INSTANCE KvStore WITH pc <- call

keyVars == <<path, temp, content, call, fd, value, got, raced>>

\* An inode for the key and one for every writer: creating a file never fails.
EnoughInodes ==
  /\ IsFiniteSet(Threads) /\ IsFiniteSet(Inodes)
  /\ Cardinality(Inodes) > Cardinality(Threads)

\* Threads of one process share a temporary (KvThreads.cfg shows how that
\* fails), so a scope's calls come from processes of one thread.
ASSUME StorageFilesAssumption ==
  K!NoneAssumption /\ K!OneThreadPerProcess /\ EnoughInodes

FilesInit == half \in {"log", "key"} /\ Init /\ K!Init

Log == half = "log" /\ SerialNext /\ UNCHANGED <<half, keyVars>>
Key == half = "key" /\ K!Next /\ UNCHANGED <<half, vars>>

FilesSpec == FilesInit /\ [][Log \/ Key]_<<half, vars, keyVars>>

\* KvStore: the key's name is that of one complete payload, and kv_get, which
\* tests and reads in two calls, answers with one unless a kv_del came between.
ValuesAreWhole == K!NameIsWhole /\ K!GetIsHonest
=============================================================================
