------------------------------- MODULE KvStore -------------------------------
(***************************************************************************)
(* The key-value half of FilesystemStorage (src/storage.cpp): kv_put       *)
(* through write_file_atomically, kv_get and kv_del on one key.            *)
(*                                                                         *)
(* Files are inodes: a rename moves a name, an open file keeps writing to  *)
(* the inode it opened whatever name that inode has by then.  The          *)
(* temporary is named after the key and the pid, so the threads of one     *)
(* process share it.  An inode's content is the set of values written to   *)
(* it since it was last truncated: one value is a whole payload, none is   *)
(* an empty file and several are bytes of several writers.                 *)
(***************************************************************************)

CONSTANTS
  Threads,   \* threads dispatching calls
  ProcOf,    \* the process (pid) of each thread
  Values,    \* payloads
  Inodes,    \* what the file system allocates files from
  None

Pids == {ProcOf[t] : t \in Threads}

NoneAssumption == None \notin Inodes

\* Workers on stdio and pooled workers: a process serves one call at a time.
OneThreadPerProcess ==
  \A t, u \in Threads : ProcOf[t] = ProcOf[u] => t = u

VARIABLES
  path,      \* the inode kv_<key> names, or None
  temp,      \* the inode kv_<key>.tmp.<pid> names, or None
  content,   \* what each inode holds
  pc,        \* the next system call of each thread
  fd,        \* the temporary each writer has open
  value,     \* what it is writing
  got,       \* what the thread's last kv_get returned: None for nullopt
  raced      \* history: a kv_del fell inside the thread's last kv_get

vars == <<path, temp, content, pc, fd, value, got, raced>>

Whole == {{v} : v \in Values}

Init ==
  /\ path = None
  /\ temp = [q \in Pids |-> None]
  /\ content = [i \in Inodes |-> {}]
  /\ pc = [t \in Threads |-> "idle"]
  /\ fd = [t \in Threads |-> None]
  /\ value = [t \in Threads |-> None]
  /\ got = [t \in Threads |-> None]
  /\ raced = [t \in Threads |-> FALSE]

\* An inode no name and no open file refers to.
Free ==
  Inodes \ ({path} \cup {temp[q] : q \in Pids} \cup {fd[t] : t \in Threads})

Goto(t, from, to) == pc[t] = from /\ pc' = [pc EXCEPT ![t] = to]

\* std::ofstream(temporary, trunc): truncates the file if the name exists.
OpenTemp(t, v) ==
  LET q == ProcOf[t] IN
  /\ Goto(t, "idle", "write")
  /\ LET i == IF temp[q] = None THEN CHOOSE f \in Free : TRUE ELSE temp[q]
     IN /\ temp' = [temp EXCEPT ![q] = i]
        /\ content' = [content EXCEPT ![i] = {}]
        /\ fd' = [fd EXCEPT ![t] = i]
  /\ value' = [value EXCEPT ![t] = v]
  /\ UNCHANGED <<path, got, raced>>

\* out.write; out.flush
WriteTemp(t) ==
  /\ Goto(t, "write", "rename")
  /\ content' = [content EXCEPT ![fd[t]] = @ \cup {value[t]}]
  /\ fd' = [fd EXCEPT ![t] = None] /\ value' = [value EXCEPT ![t] = None]
  /\ UNCHANGED <<path, temp, got, raced>>

\* The write fails: the temporary is removed and the call throws.
WriteFails(t) ==
  /\ Goto(t, "write", "idle")
  /\ temp' = [temp EXCEPT ![ProcOf[t]] = None]
  /\ fd' = [fd EXCEPT ![t] = None] /\ value' = [value EXCEPT ![t] = None]
  /\ UNCHANGED <<path, content, got, raced>>

\* Mutant of RenameTemp: the value is written in place, under its own name.
RenameBeforeWrite(t) ==
  LET q == ProcOf[t] IN
  /\ pc[t] \in {"write", "rename"}
  /\ temp[q] # None
  /\ path' = temp[q]
  /\ temp' = [temp EXCEPT ![q] = None]
  /\ UNCHANGED <<content, pc, fd, value, got, raced>>

\* fs::rename(temporary, path); when the name is gone the call throws.
RenameTemp(t) ==
  LET q == ProcOf[t] IN
  /\ Goto(t, "rename", "idle")
  /\ path' = IF temp[q] = None THEN path ELSE temp[q]
  /\ temp' = [temp EXCEPT ![q] = None]
  /\ UNCHANGED <<content, fd, value, got, raced>>

\* kv_get: fs::exists decides between nullopt and reading.
GetExists(t) ==
  /\ Goto(t, "idle", IF path = None THEN "idle" ELSE "read")
  /\ got' = [got EXCEPT ![t] = None]
  /\ raced' = [raced EXCEPT ![t] = FALSE]
  /\ UNCHANGED <<path, temp, content, fd, value>>

\* read_file: a file that is gone by now reads as the empty string.
GetRead(t) ==
  /\ Goto(t, "read", "idle")
  /\ got' = [got EXCEPT ![t] = IF path = None THEN {} ELSE content[path]]
  /\ UNCHANGED <<path, temp, content, fd, value, raced>>

\* kv_del
Del(t) ==
  /\ pc[t] = "idle"
  /\ path' = None
  /\ raced' = [u \in Threads |-> raced[u] \/ pc[u] = "read"]
  /\ UNCHANGED <<temp, content, pc, fd, value, got>>

Next ==
  \E t \in Threads :
    \/ \E v \in Values : OpenTemp(t, v)
    \/ WriteTemp(t) \/ WriteFails(t) \/ RenameTemp(t)
    \/ GetExists(t) \/ GetRead(t) \/ Del(t)

Spec == Init /\ [][Next]_vars

-----------------------------------------------------------------------------
(* Properties                                                              *)

\* write_file_atomically: "Write through a temporary and rename, so a reader
\* never observes a half-written value".  The name of the key, while it
\* exists, is that of one complete payload.
NameIsWhole == path # None => content[path] \in Whole

\* A kv_get that answers at all answers with a value some kv_put wrote, whole,
\* whatever writers do in between: only a kv_del that falls between its test
\* and its read makes it answer with an empty value nobody put.
GetIsHonest ==
  \A t \in Threads : got[t] \in Whole \cup {None} \/ raced[t]
=============================================================================
