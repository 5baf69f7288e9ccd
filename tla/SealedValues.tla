---------------------------- MODULE SealedValues -----------------------------
(***************************************************************************)
(* The opaque attach and transaction values a client carries between calls *)
(* (src/opaque_seal.cpp).  A sealed value names the key and the caller it  *)
(* opens for; a transaction value also the attach value it was begun       *)
(* under.  Sealing is ideal: an envelope opens exactly under what it was   *)
(* sealed with.  Without a key a value is its plaintext.                   *)
(***************************************************************************)
EXTENDS Naturals, Sequences

CONSTANT NoKey      \* a worker on a transport without caller identities

\* A column that is null or not in the request: no sealed value has its domain.
Absent == [domain |-> "absent"]

\* Call::seal_attach and Call::seal_transaction.
seal_attach(key, caller, body) ==
  [key |-> key, domain |-> "attach", by |-> IF key = NoKey THEN Absent ELSE caller,
   under |-> Absent, body |-> body]
seal_transaction(key, caller, attach, id) ==
  [key |-> key, domain |-> "transaction", by |-> IF key = NoKey THEN Absent ELSE caller,
   under |-> IF key = NoKey THEN Absent ELSE attach, body |-> id]

open_attach(key, caller, value) ==
  value.key = key /\ value.domain = "attach" /\ value.by = caller
\* Mutant: the transaction's AAD leaves out the attach envelope.
open_transaction_unbound(key, caller, attach, value) ==
  value.key = key /\ value.domain = "transaction" /\ value.by = caller
open_transaction(key, caller, attach, value) ==
  /\ value.key = key /\ value.domain = "transaction" /\ value.by = caller
  /\ value.under = attach

\* A request is its nested records from the outside in (the parameters, the
\* request dataclass, its bind_call), each [rows, attach, transaction].
\* open_batch stops below a record that is not one row.
Reached(levels) ==
  {i \in DOMAIN levels : \A j \in 1..(i - 1) : levels[j].rows = 1}
\* attach_here: the value at this level, or else the enclosing one.
AttachHere(levels, i) ==
  LET at == {j \in 1..i : levels[j].attach # Absent} IN
  IF at = {} THEN Absent ELSE levels[CHOOSE j \in at : \A k \in at : k <= j].attach
\* attach_as_sent: the outermost one.
AttachAsSent(levels) ==
  LET at == {j \in Reached(levels) : levels[j].attach # Absent} IN
  IF at = {} THEN Absent ELSE levels[CHOOSE j \in at : \A k \in at : j <= k].attach

\* Call::open: whether any opaque value of the request is rejected.
open_rejects(key, caller, levels) ==
  /\ key # NoKey
  /\ \E i \in Reached(levels) :
       LET l == levels[i]
           here == AttachHere(levels, i)
       IN \/ l.rows # 1 /\ (l.attach # Absent \/ l.transaction # Absent)
          \/ l.attach # Absent /\ ~open_attach(key, caller, l.attach)
          \/ /\ l.transaction # Absent
             /\ here = Absent \/ ~open_transaction(key, caller, here, l.transaction)
=============================================================================
