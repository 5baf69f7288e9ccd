------------------------------ MODULE SharedLog ------------------------------
(***************************************************************************)
(* What FunctionStorage promises of one log directory (include/vgi/        *)
(* storage.h), without files: an append-only set of payloads, each under   *)
(* an id of its own, each handed out by the queue at most once.            *)
(***************************************************************************)
VARIABLES
  log,   \* every payload appended so far
  out    \* the payloads the queue has handed out

vars == <<log, out>>

Init == log = {} /\ out = {}

\* A push makes one payload visible, under an id nobody used before.
Add ==
  /\ \E e \in log' :
       /\ \A f \in log : f.id # e.id
       /\ log' = log \cup {e}
  /\ UNCHANGED out

\* A pop hands out one payload that nobody was handed before.
Take ==
  /\ \E e \in log \ out : out' = out \cup {e}
  /\ UNCHANGED log

\* clear discards what is left.
Discard ==
  /\ out' = log
  /\ UNCHANGED log

Next == Add \/ Take \/ Discard

Spec == Init /\ [][Next]_vars
=============================================================================
