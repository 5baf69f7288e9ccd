----------------------------- MODULE Attachments -----------------------------
(***************************************************************************)
(* The life of an attachment over a pool of worker processes: ATTACH,      *)
(* directly or through a ticket (src/dispatcher.cpp, install; src/         *)
(* catalog.cpp, catalog_attach; src/attach_ticket*.cpp), the value the     *)
(* client then carries, and the later calls that open and restore it on    *)
(* any process, restarted ones included (src/opaque_seal.cpp, src/         *)
(* worker.cpp).  All processes of a pool are started alike.                *)
(*                                                                         *)
(* A catalog model is a record of what CatalogVersions reads, its options  *)
(* and whether it is a memory catalog.  Time counts ticks.                 *)
(***************************************************************************)
EXTENDS CatalogVersions, AttachTickets, SealedValues

CONSTANTS
  Workers, Callers,
  Setups,         \* how the pool may be started: [transport, signing, grants, ceiling]
  Models,         \* per name, the catalogs every worker serves
  Primary,        \* the name of the first
  Requests,       \* the attaches a client may ask for: [name, spec, impl, options]
  Lifetimes,      \* the ttl_seconds it may ask a ticket for
  Day,            \* 24 h, in ticks
  MaxHeld,        \* attachments and tickets that clients hold at a time
  MaxRestarts, MaxElapsed

VARIABLES
  setup,      \* the element of Setups this pool was started with
  starts,     \* per worker, how often it was restarted
  ahead,      \* per worker, how far its clock is ahead
  elapsed,    \* ticks since the ticket was sealed
  ticket,     \* the ticket, with the worker and the request it was sealed for
  handles,    \* per attachment: who made it, what it is, the value handed out;
              \* and, as history, the options asked for and whether it was swept
  begun,      \* the transaction value, and the handle it was begun under
  secrets,    \* the scope vgi.attach_secrets: per attachment id, its options
  secretsAge  \* ticks since a name was put there

attachVars == <<setup, starts, ahead, elapsed, ticket, handles, begun, secrets,
                secretsAge>>

NoTicket == [made |-> FALSE]
NotBegun == [made |-> FALSE]
NoAlias == ""
Held == Len(handles) + (IF ticket.made THEN 1 ELSE 0)

IsSequence(s) == Len(s) \in Nat /\ s = [i \in 1..Len(s) |-> s[i]]

AttachmentsAssumption ==
  /\ Primary \in DOMAIN Models
  /\ \A n \in DOMAIN Models : \A o \in NamesOf(Models[n].options) : ~is_reserved_attach_option(o)
  /\ \A r \in Requests :
       DOMAIN r = {"name", "spec", "impl", "options"} /\ IsSequence(r.options)
  /\ Lifetimes \subseteq Nat /\ NoExpiry \notin Nat
  /\ \A s \in Setups : s.signing \in BOOLEAN /\ s.ceiling \in Nat \cup {NoExpiry}
  /\ ClockSkew \in Nat /\ Day \in Nat /\ MaxElapsed \in Nat

-----------------------------------------------------------------------------
(* Keys: run and build_server                                              *)

\* configure_signing_key: VGI_SIGNING_KEY, or a key of the process.
TokenKey(w) == IF setup.signing THEN <<"configured", 0>> ELSE <<w, starts[w]>>

\* HTTP, and TCP behind an Iroh bridge, know their callers; the latter never
\* reads the signing key.
OpaqueKey(w) ==
  CASE setup.transport = "http" -> TokenKey(w)
    [] setup.transport = "iroh_tcp" -> <<w, starts[w]>>
    [] OTHER -> NoKey

TicketKey(w) ==
  IF setup.transport = "http" /\ setup.signing THEN <<"configured", 0>> ELSE NoTicketKey

HostsTickets(w) == TicketKey(w) # NoTicketKey /\ setup.grants

\* Who the transport says is calling.
CallerOn(c) == IF setup.transport \in {"http", "iroh_tcp"} THEN c ELSE Anonymous

-----------------------------------------------------------------------------
(* ATTACH                                                                  *)

\* declared_attach_options
Declared == [n \in DOMAIN Models |-> Models[n].options]

\* catalog_attach's model, after memory catalogs were routed by name.
ModelFor(name) == IF name \in DOMAIN Models THEN name ELSE Primary

\* The versions first, then the options.
Outcome(data, impl, refused) ==
  CASE ~data.ok -> "version"
    [] data.ok /\ ~impl.ok -> "implementation"
    [] data.ok /\ impl.ok /\ refused -> "options"
    [] OTHER -> "attached"

Answered(request, catalog, data, outcome) ==
  [outcome |-> outcome, catalog |-> catalog, data_version |-> data.v,
   alias |-> request.name,
   options |-> IF outcome = "attached"
               THEN merge_attach_options(Models[catalog].options, request.options)
               ELSE NoOptions]

\* What catalog_attach answers a request with, but for the attachment's id.
Attached(request) ==
  LET catalog == ModelFor(request.name)
      model == Models[catalog]
  IN IF model.memory
     THEN [outcome |-> "attached", catalog |-> catalog, data_version |-> NoVersion,
           alias |-> NoAlias, options |-> NoOptions]
     ELSE Answered(request, catalog, AttachedVersion(model, request.spec),
                   Outcome(AttachedVersion(model, request.spec),
                           ImplementationVersion(model, request.impl),
                           merge_refuses(model.options, request.options)))

\* The clock of w in ticks since the ticket was sealed on its sealer's.
ClockOf(w) == IF ticket.made THEN elapsed + ahead[w] - ahead[ticket.on] ELSE 0

\* The client puts the ticket it holds in the option that is for it, however
\* the statement spells its name.
Asking(request) ==
  [request EXCEPT !.options = [i \in DOMAIN @ |->
     IF is_reserved_attach_option(@[i].name)
     THEN [name |-> @[i].name, value |-> ticket.token] ELSE @[i]]]

\* catalog_attach on worker w by caller c: why it is refused, or what it makes,
\* and of which options.
Reply(state, options, answer) ==
  [through |-> state, asked |-> options,
   outcome |-> IF state \in {"none", "open"} THEN answer.outcome ELSE state,
   made |-> [catalog |-> answer.catalog, data_version |-> answer.data_version,
             alias |-> answer.alias, id |-> Len(handles) + 1,
             options |-> answer.options]]
Attaching(w, c, asked) ==
  LET redeemed == redeem_attach_ticket(TicketKey(w), CallerOn(c), Asking(asked), ClockOf(w))
  IN Reply(redeemed.state, redeemed.request.options, Attached(redeemed.request))

\* It answers with a new value, and puts the secret options it keeps back.
Attach(w, c, asked) ==
  /\ Held < MaxHeld
  /\ TicketColumns(asked.options) # {} => ticket.made
  /\ \E call \in {Attaching(w, c, asked)} :
       LET made == call.made
           key == OpaqueKey(w)
           specs == Models[made.catalog].options
           body == [made EXCEPT !.options = Carried(specs, made.options, key # NoKey)]
           kept == KeptBack(specs, made.options, key # NoKey)
       IN /\ call.outcome = "attached"
          /\ handles' = Append(handles, [by |-> CallerOn(c), asked |-> call.asked, made |-> made,
                                         swept |-> FALSE, value |-> seal_attach(key, CallerOn(c), body)])
          /\ IF DOMAIN kept = {} THEN UNCHANGED <<secrets, secretsAge>>
             ELSE /\ secrets' = [i \in DOMAIN secrets \cup {made.id} |->
                                   IF i = made.id THEN kept ELSE secrets[i]]
                  /\ secretsAge' = 0
  /\ UNCHANGED <<setup, starts, ahead, elapsed, ticket, begun>>

\* vgi.attach_tickets.v1: seal_attach, of the attach the caller would make.
SealTicket(w, c, request, ttl) ==
  /\ HostsTickets(w) /\ ~ticket.made /\ Held < MaxHeld
  /\ CallerOn(c) # Anonymous
  /\ seal_attach_valid(Declared, request.name, request.options, ttl)
  /\ ticket' = [made |-> TRUE, on |-> w, request |-> request,
                token |-> Minted(TicketKey(w), CallerOn(c), request,
                                 Lifetime(ttl, setup.ceiling))]
  /\ elapsed' = 0
  /\ UNCHANGED <<setup, starts, ahead, handles, begun, secrets, secretsAge>>

-----------------------------------------------------------------------------
(* Later calls                                                             *)

\* attachment_of, for a value that was opened: an unknown catalog, or a value
\* that is no five fields, is the primary's on a transport that does not seal.
Foreign == [catalog |-> "elsewhere", data_version |-> NoVersion, alias |-> "elsewhere",
            id |-> 0, options |-> NoOptions]
NoAttachment == [catalog |-> Primary, data_version |-> NoVersion, alias |-> NoAlias,
                 id |-> 0, options |-> NoOptions]
attachment_of(body) ==
  IF body.catalog \notin DOMAIN Models THEN NoAttachment
  ELSE LET stored == IF body.id \in DOMAIN secrets THEN secrets[body.id] ELSE NoOptions
       IN [body EXCEPT !.options =
             restore_secret_options(Models[body.catalog].options, body.options, stored)]

\* The nested records of a call: catalog calls carry the value in their
\* parameters, bind in its request, init and planning in the bind call of it.
Levels(depth, attach, transaction) ==
  [i \in 1..depth |-> [rows |-> 1,
                       attach |-> IF i = depth THEN attach ELSE Absent,
                       transaction |-> IF i = depth THEN transaction ELSE Absent]]

\* What a call on worker w, by c, meets with the value of handle h (0: one that
\* another worker made) and, if withTransaction, the transaction's.  It changes
\* nothing here; calls on a memory catalog are MemoryCatalog's.
Serving(w, c, h, depth, withTransaction) ==
  LET value == IF h = 0 THEN [key |-> NoKey, domain |-> "attach", by |-> Absent,
                              under |-> Absent, body |-> Foreign]
               ELSE handles[h].value
      transaction == IF withTransaction THEN begun.value ELSE Absent
      rejected == open_rejects(OpaqueKey(w), CallerOn(c), Levels(depth, value, transaction))
  IN [rejected |-> rejected,
      got |-> IF rejected THEN NoAttachment ELSE attachment_of(value.body)]

\* catalog_transaction_begin, whose value is bound to the attach as sent.
Begin(w, c, h) ==
  LET levels == Levels(1, handles[h].value, Absent) IN
  /\ ~begun.made
  /\ ~open_rejects(OpaqueKey(w), CallerOn(c), levels)
  /\ begun' = [made |-> TRUE, h |-> h, by |-> CallerOn(c), on |-> OpaqueKey(w),
               value |-> seal_transaction(OpaqueKey(w), CallerOn(c), AttachAsSent(levels), "tx")]
  /\ UNCHANGED <<setup, starts, ahead, elapsed, ticket, handles, secrets, secretsAge>>

\* A worker starts again, with the sweep of every stale scope.
Restart(w) ==
  LET sweeps == secretsAge > Day /\ DOMAIN secrets # {} IN
  /\ \A v \in Workers : starts[v] < MaxRestarts
  /\ starts' = [starts EXCEPT ![w] = @ + 1]
  /\ secrets' = IF sweeps THEN [i \in {} |-> NoOptions] ELSE secrets
  /\ handles' = IF sweeps THEN [h \in DOMAIN handles |-> [handles[h] EXCEPT !.swept = TRUE]]
                ELSE handles
  /\ UNCHANGED <<setup, ahead, elapsed, ticket, begun, secretsAge>>

Tick ==
  /\ elapsed' = IF ticket.made /\ elapsed < MaxElapsed THEN elapsed + 1 ELSE elapsed
  /\ secretsAge' = IF DOMAIN secrets # {} /\ secretsAge <= Day THEN secretsAge + 1
                   ELSE secretsAge
  /\ UNCHANGED <<setup, starts, ahead, ticket, handles, begun, secrets>>

Init ==
  /\ setup \in Setups
  /\ starts = [w \in Workers |-> 0]
  /\ ahead \in [Workers -> 0..ClockSkew] /\ \E w \in Workers : ahead[w] = 0
  /\ ~setup.signing => \A w \in Workers : ahead[w] = 0
  /\ elapsed = 0 /\ ticket = NoTicket
  /\ handles = <<>> /\ begun = NotBegun
  /\ secrets = [i \in {} |-> NoOptions] /\ secretsAge = 0

Next ==
  \/ \E w \in Workers, c \in Callers :
       \/ \E r \in Requests : Attach(w, c, r)
       \/ \E r \in Requests, ttl \in Lifetimes : SealTicket(w, c, r, ttl)
       \/ \E h \in DOMAIN handles : Begin(w, c, h)
  \/ \E w \in Workers : Restart(w)
  \/ Tick

-----------------------------------------------------------------------------
(* Properties                                                              *)

AttachmentsTypeOK ==
  /\ setup \in Setups
  /\ starts \in [Workers -> 0..MaxRestarts]
  /\ elapsed \in 0..MaxElapsed /\ secretsAge \in 0..(Day + 1)
  /\ DOMAIN secrets \subseteq DOMAIN handles
  /\ Held <= MaxHeld
  /\ begun.made => begun.h \in DOMAIN handles

\* The attachments whose calls are served here.
Served == {h \in DOMAIN handles : ~Models[handles[h].made.catalog].memory}
Transactions == IF begun.made THEN BOOLEAN ELSE {FALSE}

\* seal_attachment, attachment_of and restore_secret_options undo each other on
\* every process of the pool, restarted or not: a call is served under exactly
\* the catalog, version, alias and options its ATTACH settled.  Only secret
\* options on a transport that does not seal can be missing, and only after the
\* whole scope went a day without an ATTACH and was swept.
ServedAsAttached ==
  \A w \in Workers, c \in Callers, h \in Served, depth \in 1..3 :
    LET call == Serving(w, c, h, depth, FALSE)
        made == handles[h].made
        lost == SecretNames(Models[made.catalog].options)
    IN \/ call.rejected
       \/ call.got = made
       \/ /\ handles[h].swept /\ handles[h].value.key = NoKey
          /\ call.got = [made EXCEPT !.options = [n \in DOMAIN @ \ lost |-> @[n]]]

\* On a sealing transport a value opens for the caller it was made for under
\* the key it was made with, at whatever depth of the request it sits, and a
\* transaction only beside the attach it was begun under; nothing else is
\* served, and nothing that should be is refused.
OpensForItsCaller ==
  \A w \in Workers, c \in Callers, h \in Served \cup {0}, depth \in 1..3, t \in Transactions :
    LET key == OpaqueKey(w)
        attachOpens == h # 0 /\ handles[h].value.key = key /\ handles[h].by = CallerOn(c)
        beginsHere == begun.h = h /\ begun.on = key /\ begun.by = CallerOn(c)
    IN Serving(w, c, h, depth, t).rejected =
         (key # NoKey /\ ~(attachOpens /\ (t => beginsHere)))

\* What travels unsealed tells nothing of a secret (merge_attach_options and
\* seal_attachment, which compare names differently): the value is the one the
\* same ATTACH with its secrets blank would have been answered with, in
\* whatever case the statement wrote their names and whether it was redeemed
\* from a ticket or not.
NoSecretOnTheWire ==
  \A h \in Served :
    LET specs == Models[handles[h].made.catalog].options
        blank == merge_attach_options(specs, Blanked(specs, handles[h].asked))
    IN handles[h].value.key = NoKey =>
         handles[h].value.body.options = Carried(specs, blank, FALSE)

\* The attaches by way of the ticket that may be asked for now.
Redeeming == {r \in Requests : ticket.made /\ TicketColumns(r.options) # {}}

\* An ATTACH by ticket settles what the sealed ATTACH would have, whatever name
\* the statement that redeems it gives, and misses no option its catalog
\* requires: it fails for its options only if a value cannot be cast.
TicketIsTheAttach ==
  \A w \in Workers, c \in Callers, r \in Redeeming :
    LET call == Attaching(w, c, r)
        direct == Attached(ticket.request)
    IN call.through = "open" =>
         /\ call.outcome = direct.outcome
         /\ call.made.catalog = direct.catalog /\ call.made.alias = direct.alias
         /\ call.made.data_version = direct.data_version /\ call.made.options = direct.options
         /\ call.outcome = "options" =>
              \E i \in DOMAIN ticket.request.options :
                ticket.request.options[i].value \in Uncastable

\* A ticket works on every worker of the pool, restarted or not, as long as it
\* lives by the clock it was sealed on, if no two clocks differ by more than
\* the skew; and only for its caller, and alone.
TicketHonoured ==
  \A w \in Workers, c \in Callers, r \in Redeeming :
    LET lives == ticket.token.expires_at = NoExpiry \/ elapsed < ticket.token.expires_at
        mine == c = ticket.token.by /\ Len(r.options) = 1
    IN /\ lives /\ mine => Attaching(w, c, r).through = "open"
       /\ ~mine => Attaching(w, c, r).through # "open"

\* A ticket is dead once its life is over by twice the skew.
TicketDies ==
  \A w \in Workers, c \in Callers, r \in Redeeming :
    /\ ticket.token.expires_at # NoExpiry
    /\ elapsed >= ticket.token.expires_at + 2 * ClockSkew
    => Attaching(w, c, r).through # "open"

\* Between the two: expiry is decided within the skew, at its boundary and for
\* tickets without one (open_attach_ticket).
TicketLifetime == TicketHonoured /\ TicketDies
=============================================================================
