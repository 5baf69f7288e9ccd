---------------------------- MODULE SessionProofs -----------------------------
(***************************************************************************)
(* Proofs about Session: what a transaction remembers, what a sweep may    *)
(* condemn, and what attachments and tickets promise, for any number of    *)
(* call sites, sweepers, workers, callers, catalogs and requests.          *)
(***************************************************************************)
EXTENDS Session, WellFoundedInduction, SequenceTheorems, TLAPS

-----------------------------------------------------------------------------
(* Sequences and least indices                                             *)

LEMMA Least ==
  ASSUME NEW A \in SUBSET Nat, A # {}
  PROVE  \E i \in A : \A j \in A : i <= j
<1>1. PICK i \in A : \A j \in A : ~(<<j, i>> \in OpToRel(<, Nat))
  BY WFMin, NatLessThanWellFounded
<1>2. \A j \in A : ~(j < i)
  BY <1>1 DEF OpToRel
<1>3. QED
  BY <1>2

\* One element more.
LEMMA AppendOne ==
  ASSUME NEW s, IsSequence(s), NEW e
  PROVE  /\ Len(Append(s, e)) = Len(s) + 1 /\ IsSequence(Append(s, e))
         /\ DOMAIN Append(s, e) = 1..(Len(s) + 1)
         /\ \A i \in 1..Len(s) : Append(s, e)[i] = s[i]
         /\ Append(s, e)[Len(s) + 1] = e
<1> DEFINE T == {s[i] : i \in 1..Len(s)} \cup {e}
<1>1. s \in Seq(T)
  BY DEF IsSequence
<1>2. e \in T
  OBVIOUS
<1> HIDE DEF T
<1>3. Append(s, e) \in Seq(T)
  BY <1>1, <1>2
<1>4. Len(Append(s, e)) = Len(s) + 1 /\ Len(s) \in Nat
  BY <1>1, <1>2
<1>5. /\ \A i \in 1..Len(s) : Append(s, e)[i] = s[i]
      /\ Append(s, e)[Len(s) + 1] = e
  BY <1>1, <1>2
<1>6. DOMAIN Append(s, e) = 1..(Len(s) + 1)
  BY <1>3, <1>4
<1>7. IsSequence(Append(s, e))
  <2>1. Append(s, e) \in [1..Len(Append(s, e)) -> T]
    BY <1>3, LenProperties
  <2>2. Append(s, e) = [i \in DOMAIN Append(s, e) |-> Append(s, e)[i]]
    BY <2>1
  <2>3. QED
    BY <1>4, <1>6, <2>2 DEF IsSequence
<1>8. QED
  BY <1>4, <1>5, <1>6, <1>7

\* Changing the elements keeps the length.
LEMMA SameLength ==
  ASSUME NEW s, IsSequence(s), NEW f, DOMAIN f = DOMAIN s,
         f = [i \in DOMAIN f |-> f[i]]
  PROVE  Len(f) = Len(s)
  BY DEF IsSequence

-----------------------------------------------------------------------------
(* The inductive invariant                                                 *)

SpecsOf(h) == Models[handles[h].made.catalog].options
Sealing(h) == handles[h].value.key # NoKey
BodyOf(h) ==
  [handles[h].made EXCEPT !.options =
     Carried(SpecsOf(h), handles[h].made.options, Sealing(h))]
KeptOf(h) == KeptBack(SpecsOf(h), handles[h].made.options, Sealing(h))

\* A handle's value carries what its attachment is, but for what is kept back;
\* the id in it is the handle's own, and its options are those asked for.
HandlesOK ==
  /\ IsSequence(handles)
  /\ \A h \in DOMAIN handles :
       LET made == handles[h].made IN
       /\ DOMAIN handles[h] = {"asked", "by", "made", "swept", "value"}
       /\ made = [catalog |-> made.catalog, data_version |-> made.data_version,
                  alias |-> made.alias, id |-> h, options |-> made.options]
       /\ made.catalog \in DOMAIN Models
       /\ made.options = [n \in DOMAIN made.options |-> made.options[n]]
       /\ DOMAIN made.options \subseteq NamesOf(SpecsOf(h))
       /\ handles[h].value = seal_attach(handles[h].value.key, handles[h].by, BodyOf(h))
       /\ DOMAIN handles[h].asked \subseteq Nat
       /\ ~Models[made.catalog].memory =>
            made.options = merge_attach_options(SpecsOf(h), handles[h].asked)

\* The store has what was kept back, until it is swept.
SecretsOK ==
  /\ DOMAIN secrets \subseteq DOMAIN handles
  /\ \A h \in DOMAIN secrets : secrets[h] = KeptOf(h)
  /\ \A h \in DOMAIN handles :
       ~handles[h].swept /\ DOMAIN KeptOf(h) # {} => h \in DOMAIN secrets

\* A transaction's value is bound to the attach it was begun under.
BegunOK ==
  begun.made =>
    /\ begun.h \in DOMAIN handles
    /\ begun.value = seal_transaction(begun.on, begun.by, handles[begun.h].value, "tx")

\* A ticket holds the request it was sealed for, which was valid.
TicketOK ==
  ticket.made =>
    /\ setup.transport = "http" /\ setup.signing
    /\ ticket.on \in Workers /\ ticket.request \in Requests
    /\ ticket.token = Minted(<<"configured", 0>>, ticket.token.by, ticket.request,
                             ticket.token.expires_at)
    /\ ticket.token.key # NoTicketKey /\ ticket.token.by # Anonymous
    /\ ticket.token.expires_at \in Nat \cup {NoExpiry}
    /\ \E ttl \in Lifetimes : seal_attach_valid(Declared, ticket.request.name,
                                                ticket.request.options, ttl)

ClocksOK ==
  /\ setup \in Setups /\ ahead \in [Workers -> 0..ClockSkew] /\ elapsed \in Nat

AInv == ClocksOK /\ HandlesOK /\ SecretsOK /\ BegunOK /\ TicketOK

LEMMA AttachmentsInit ==
  ASSUME AttachmentsAssumption, Init PROVE AInv
<1> USE DEF Init
<1>1. ClocksOK /\ BegunOK /\ TicketOK
  BY DEF ClocksOK, BegunOK, TicketOK, NoTicket, NotBegun
<1>2. HandlesOK /\ SecretsOK
  BY DEF HandlesOK, SecretsOK, IsSequence
<1>3. QED
  BY <1>1, <1>2 DEF AInv

LEMMA Optionless ==
  DOMAIN NoOptions = {} /\ NoOptions = [n \in DOMAIN NoOptions |-> NoOptions[n]]
  BY DEF NoOptions

\* What catalog_attach answers names a catalog there is and declared options.
LEMMA AttachedShape ==
  ASSUME AttachmentsAssumption, NEW request
  PROVE  LET answer == Attached(request) IN
         /\ answer.catalog \in DOMAIN Models
         /\ answer.options = [n \in DOMAIN answer.options |-> answer.options[n]]
         /\ DOMAIN answer.options \subseteq NamesOf(Models[answer.catalog].options)
         /\ answer.outcome = "attached" /\ ~Models[answer.catalog].memory =>
              answer.options = merge_attach_options(Models[answer.catalog].options,
                                                    request.options)
<1>1. ModelFor(request.name) \in DOMAIN Models
  BY DEF ModelFor, AttachmentsAssumption
<1> DEFINE catalog == ModelFor(request.name)
           data == AttachedVersion(Models[catalog], request.spec)
           refusal == Outcome(data, ImplementationVersion(Models[catalog], request.impl),
                              merge_refuses(Models[catalog].options, request.options))
<1>2. CASE Models[catalog].memory
  <2>1. Attached(request) = [outcome |-> "attached", catalog |-> catalog,
                             data_version |-> NoVersion, alias |-> NoAlias,
                             options |-> NoOptions]
    BY <1>2 DEF Attached
  <2> HIDE DEF catalog
  <2>2. Attached(request).catalog = catalog /\ Attached(request).options = NoOptions
    BY <2>1
  <2>3. QED
    BY <1>1, <1>2, <2>2, Optionless DEF catalog
<1>3. CASE ~Models[catalog].memory
  <2>1. Attached(request) = Answered(request, catalog, data, refusal)
    BY <1>3 DEF Attached
  <2> HIDE DEF catalog, data, refusal
  <2>2. Attached(request).catalog = catalog
    BY <2>1 DEF Answered
  <2>3. \/ Attached(request).options
             = merge_attach_options(Models[catalog].options, request.options)
        \/ /\ Attached(request).options = NoOptions
           /\ Attached(request).outcome # "attached"
    BY <2>1 DEF Answered
  <2>4. catalog \in DOMAIN Models
    BY <1>1 DEF catalog
  <2>5. CASE /\ Attached(request).options = NoOptions
             /\ Attached(request).outcome # "attached"
    BY <2>2, <2>4, <2>5, Optionless
  <2>6. CASE Attached(request).options
               = merge_attach_options(Models[catalog].options, request.options)
    <3> DEFINE specs == Models[catalog].options
    <3>1. DOMAIN merge_attach_options(specs, request.options) = NamesOf(specs)
      BY DEF merge_attach_options
    <3>2. merge_attach_options(specs, request.options)
            = [n \in NamesOf(specs) |-> merge_attach_options(specs, request.options)[n]]
      BY DEF merge_attach_options
    <3> HIDE DEF specs
    <3>3. QED
      BY <2>2, <2>4, <2>6, <3>1, <3>2 DEF specs
  <2>7. QED
    BY <2>3, <2>5, <2>6
<1>4. QED
  BY <1>2, <1>3

-----------------------------------------------------------------------------
(* Redeeming a ticket                                                      *)

\* The options of an attach by ticket: as many, and the ticket in its place.
LEMMA AskingByTicket ==
  ASSUME AttachmentsAssumption, NEW r \in Redeeming
  PROVE  /\ Len(Asking(r).options) = Len(r.options) /\ Len(r.options) \in Nat \ {0}
         /\ TicketColumns(Asking(r).options) = TicketColumns(r.options)
         /\ TicketColumns(r.options) # {} /\ TicketColumns(r.options) \subseteq 1..Len(r.options)
         /\ \A i \in TicketColumns(r.options) : Asking(r).options[i].value = ticket.token
         /\ DOMAIN Asking(r) = {"name", "spec", "impl", "options"}
<1>1. /\ DOMAIN r = {"name", "spec", "impl", "options"} /\ IsSequence(r.options)
      /\ TicketColumns(r.options) # {}
  BY DEF Redeeming, AttachmentsAssumption
<1> DEFINE old == r.options
           new == [i \in DOMAIN old |->
                     IF is_reserved_attach_option(old[i].name)
                     THEN [name |-> old[i].name, value |-> ticket.token] ELSE old[i]]
<1>2. Asking(r).options = new /\ DOMAIN Asking(r) = DOMAIN r
  BY <1>1 DEF Asking
<1>3. DOMAIN new = DOMAIN old /\ \A i \in DOMAIN old : new[i].name = old[i].name
  OBVIOUS
<1>4. \A i \in TicketColumns(old) : new[i].value = ticket.token
  BY DEF TicketColumns
<1>5. new = [i \in DOMAIN new |-> new[i]]
  OBVIOUS
<1> HIDE DEF new
<1>6. Len(new) = Len(old)
  BY <1>1, <1>3, <1>5, SameLength
<1>7. TicketColumns(new) = TicketColumns(old)
  BY <1>3 DEF TicketColumns
<1>8. Len(old) \in Nat /\ DOMAIN old = 1..Len(old)
  BY <1>1 DEF IsSequence
<1>9. TicketColumns(old) \subseteq 1..Len(old) /\ Len(old) # 0
  BY <1>1, <1>8 DEF TicketColumns
<1>10. QED
  BY <1>1, <1>2, <1>4, <1>6, <1>7, <1>8, <1>9

\* redeem_attach_ticket, of the ticket there is.
LEMMA Redeemed ==
  ASSUME AttachmentsAssumption, AInv, NEW w \in Workers, NEW c \in Callers,
         NEW r \in Redeeming
  PROVE  LET redeemed == redeem_attach_ticket(TicketKey(w), CallerOn(c), Asking(r), ClockOf(w))
         IN /\ Len(r.options) # 1 => redeemed.state = "refused"
            /\ Len(r.options) = 1 =>
                 redeemed.state = open_attach_ticket(ticket.token.key, c, ticket.token, ClockOf(w))
            /\ redeemed.state = "open" =>
                 /\ redeemed.request.name = ticket.request.name
                 /\ redeemed.request.spec = ticket.request.spec
                 /\ redeemed.request.impl = ticket.request.impl
                 /\ redeemed.request.options = ticket.request.options
<1> DEFINE key == TicketKey(w)
           by == CallerOn(c)
           asked == Asking(r)
           clock == ClockOf(w)
           redeemed == redeem_attach_ticket(key, by, asked, clock)
           state == RedeemState(key, by, asked.options, clock)
<1>1. TicketOK /\ ticket.made
  BY DEF AInv, Redeeming
<1>2. /\ key = ticket.token.key /\ key # NoTicketKey /\ by = c
      /\ ticket.token.name = ticket.request.name /\ ticket.token.spec = ticket.request.spec
      /\ ticket.token.impl = ticket.request.impl
      /\ ticket.token.options = ticket.request.options
  <2>1. /\ setup.transport = "http" /\ setup.signing /\ ticket.token.key # NoTicketKey
        /\ ticket.token = Minted(<<"configured", 0>>, ticket.token.by, ticket.request,
                                 ticket.token.expires_at)
    BY <1>1 DEF TicketOK
  <2>2. \A b, e : LET m == Minted(<<"configured", 0>>, b, ticket.request, e) IN
          /\ m.key = <<"configured", 0>> /\ m.name = ticket.request.name
          /\ m.spec = ticket.request.spec /\ m.impl = ticket.request.impl
          /\ m.options = ticket.request.options
    BY DEF Minted
  <2>3. QED
    BY <2>1, <2>2 DEF TicketKey, CallerOn
<1>3. /\ Len(asked.options) = Len(r.options) /\ Len(r.options) \in Nat \ {0}
      /\ TicketColumns(asked.options) # {}
      /\ TicketColumns(asked.options) \subseteq 1..Len(r.options)
      /\ \A i \in TicketColumns(asked.options) : asked.options[i].value = ticket.token
      /\ DOMAIN asked = {"name", "spec", "impl", "options"}
  BY AskingByTicket
<1>4. /\ redeemed.state = state
      /\ state = "open" => redeemed.request = Restored(asked, TicketOf(asked.options))
  BY DEF redeem_attach_ticket
<1> HIDE DEF key, by, asked, clock, redeemed, state
<1> DEFINE n == Len(r.options)
<1>5. CASE n # 1
  <2>1. n \in Nat \ {0, 1} /\ Len(asked.options) = n
    BY <1>3, <1>5
  <2> HIDE DEF n
  <2>2. n > 1
    BY <2>1
  <2>3. state = "refused"
    BY <1>3, <2>1, <2>2 DEF RedeemState, state
  <2>4. QED
    BY <1>4, <1>5, <2>3 DEF redeemed, key, by, asked, clock, n
<1>6. CASE n = 1
  <2>1. TicketColumns(asked.options) = {1}
    <3>1. 1..1 = {1}
      OBVIOUS
    <3>2. QED
      BY <1>3, <1>6, <3>1
  <2>2. TicketOf(asked.options) = ticket.token
    <3>1. (CHOOSE j \in {1} : \A k \in {1} : j <= k) = 1
      OBVIOUS
    <3>2. QED
      BY <1>3, <2>1, <3>1 DEF TicketOf
  <2>3. state = open_attach_ticket(key, by, ticket.token, clock)
    BY <1>2, <1>3, <1>6, <2>1, <2>2 DEF RedeemState, state
  <2>4. LET request == Restored(asked, ticket.token) IN
        /\ request.name = ticket.token.name /\ request.spec = ticket.token.spec
        /\ request.impl = ticket.token.impl /\ request.options = ticket.token.options
    BY <1>3 DEF Restored
  <2>5. QED
    BY <1>2, <1>4, <1>6, <2>2, <2>3, <2>4 DEF redeemed, key, by, asked, clock
<1>7. QED
  BY <1>5, <1>6

\* The options that an ATTACH is served with are numbered, as the statement's
\* or as the sealed one's.
LEMMA RedeemedColumns ==
  ASSUME AttachmentsAssumption, AInv, NEW w \in Workers, NEW c \in Callers,
         NEW r \in Requests, TicketColumns(r.options) # {} => ticket.made
  PROVE  LET redeemed == redeem_attach_ticket(TicketKey(w), CallerOn(c), Asking(r), ClockOf(w))
         IN DOMAIN redeemed.request.options \subseteq Nat /\ redeemed.state # "attached"
<1> DEFINE redeemed == redeem_attach_ticket(TicketKey(w), CallerOn(c), Asking(r), ClockOf(w))
           options == Asking(r).options
<1>1. \A q \in Requests : /\ DOMAIN q = {"name", "spec", "impl", "options"}
                          /\ DOMAIN q.options \subseteq Nat
  <2> SUFFICES ASSUME NEW q \in Requests
               PROVE  /\ DOMAIN q = {"name", "spec", "impl", "options"}
                      /\ DOMAIN q.options \subseteq Nat
    OBVIOUS
  <2>1. DOMAIN q = {"name", "spec", "impl", "options"} /\ IsSequence(q.options)
    BY DEF AttachmentsAssumption
  <2>2. DOMAIN q.options = 1..Len(q.options) /\ Len(q.options) \in Nat
    BY <2>1 DEF IsSequence
  <2>3. QED
    BY <2>1, <2>2
<1>2. DOMAIN options \subseteq Nat
  BY <1>1 DEF Asking
<1>3. /\ TicketColumns(options) = {} => redeemed.state = "none"
      /\ redeemed.state # "open" => redeemed.request.options = options
  BY DEF redeem_attach_ticket, RedeemState
<1>4. TicketColumns(options) # {} => r \in Redeeming
  BY <1>1 DEF TicketColumns, Asking, Redeeming
<1>5. ASSUME redeemed.state = "open" PROVE DOMAIN redeemed.request.options \subseteq Nat
  <2>1. r \in Redeeming /\ ticket.made
    BY <1>3, <1>4, <1>5 DEF Redeeming
  <2>2. redeemed.request.options = ticket.request.options
    BY <1>5, <2>1, Redeemed
  <2>3. QED
    BY <1>1, <2>1, <2>2 DEF AInv, TicketOK
<1>6. redeemed.state # "attached"
  <2>1. CASE TicketColumns(options) = {}
    BY <1>3, <2>1
  <2>2. CASE TicketColumns(options) # {}
    <3>1. \/ redeemed.state = "refused"
          \/ redeemed.state
               = open_attach_ticket(ticket.token.key, c, ticket.token, ClockOf(w))
      BY <1>4, <2>2, Redeemed
    <3>2. QED
      BY <3>1 DEF open_attach_ticket
  <2>3. QED
    BY <2>1, <2>2
<1>7. QED
  BY <1>2, <1>3, <1>5, <1>6

-----------------------------------------------------------------------------
(* Attaching                                                               *)

\* catalog_attach adds one handle, and puts what its value leaves out.
LEMMA AttachStep ==
  ASSUME AttachmentsAssumption, AInv,
         NEW w \in Workers, NEW c \in Callers, NEW asked \in Requests, Attach(w, c, asked)
  PROVE  AInv'
<1>1. ClocksOK /\ HandlesOK /\ SecretsOK /\ BegunOK /\ TicketOK
  BY DEF AInv
<1> DEFINE made == Attaching(w, c, asked).made
           options == Attaching(w, c, asked).asked
           n == Len(handles) + 1
           key == OpaqueKey(w)
           by == CallerOn(c)
           specs == Models[made.catalog].options
           body == [made EXCEPT !.options = Carried(specs, made.options, key # NoKey)]
           kept == KeptBack(specs, made.options, key # NoKey)
           new == [by |-> by, asked |-> options, made |-> made, swept |-> FALSE,
                   value |-> seal_attach(key, by, body)]
<1>2. /\ handles' = Append(handles, new)
      /\ IF DOMAIN kept = {} THEN secrets' = secrets
         ELSE secrets' = [i \in DOMAIN secrets \cup {made.id} |->
                            IF i = made.id THEN kept ELSE secrets[i]]
      /\ UNCHANGED <<setup, starts, ahead, elapsed, ticket, begun>>
  BY DEF Attach
<1>3. \E answer : /\ made = [catalog |-> answer.catalog,
                            data_version |-> answer.data_version,
                            alias |-> answer.alias, id |-> n,
                            options |-> answer.options]
                  /\ answer.catalog \in DOMAIN Models
                  /\ answer.options = [m \in DOMAIN answer.options |-> answer.options[m]]
                  /\ DOMAIN answer.options
                       \subseteq NamesOf(Models[answer.catalog].options)
                  /\ ~Models[answer.catalog].memory =>
                       answer.options = merge_attach_options(Models[answer.catalog].options,
                                                             options)
  <2> DEFINE redeemed == redeem_attach_ticket(TicketKey(w), CallerOn(c), Asking(asked),
                                              ClockOf(w))
           reply == Reply(redeemed.state, redeemed.request.options,
                          Attached(redeemed.request))
  <2>1. made = reply.made /\ options = reply.asked /\ reply.outcome = "attached"
    BY DEF Attaching, Attach
  <2>2. redeemed.state # "attached"
    BY RedeemedColumns DEF Attach
  <2> HIDE DEF made, options, redeemed
  <2>3. options = redeemed.request.options /\ Attached(redeemed.request).outcome = "attached"
    BY <2>1, <2>2 DEF Reply
  <2> DEFINE answer == Attached(redeemed.request)
  <2>4. /\ answer.catalog \in DOMAIN Models
        /\ answer.options = [m \in DOMAIN answer.options |-> answer.options[m]]
        /\ DOMAIN answer.options \subseteq NamesOf(Models[answer.catalog].options)
        /\ ~Models[answer.catalog].memory =>
             answer.options = merge_attach_options(Models[answer.catalog].options, options)
    BY <2>3, AttachedShape
  <2>5. made = [catalog |-> answer.catalog, data_version |-> answer.data_version,
                alias |-> answer.alias, id |-> n, options |-> answer.options]
    BY <2>1 DEF Reply
  <2> HIDE DEF answer
  <2>6. QED
    BY <2>4, <2>5
<1>a. DOMAIN options \subseteq Nat
  <2> DEFINE redeemed == redeem_attach_ticket(TicketKey(w), CallerOn(c), Asking(asked),
                                              ClockOf(w))
  <2>1. options = redeemed.request.options
    BY DEF Attaching, Reply
  <2>2. TicketColumns(asked.options) # {} => ticket.made
    BY DEF Attach
  <2> HIDE DEF options
  <2>3. QED
    BY <2>1, <2>2, RedeemedColumns
<1> HIDE DEF made, options
<1>4. /\ made = [catalog |-> made.catalog, data_version |-> made.data_version,
                 alias |-> made.alias, id |-> n, options |-> made.options]
      /\ made.catalog \in DOMAIN Models /\ made.id = n
      /\ made.options = [m \in DOMAIN made.options |-> made.options[m]]
      /\ DOMAIN made.options \subseteq NamesOf(specs)
      /\ ~Models[made.catalog].memory => made.options = merge_attach_options(specs, options)
  BY <1>3
<1>5. new.made = made /\ new.by = by /\ new.swept = FALSE /\ new.asked = options
      /\ new.value = seal_attach(key, by, body) /\ new.value.key = key
      /\ DOMAIN new = {"asked", "by", "made", "swept", "value"}
  BY DEF seal_attach
<1> HIDE DEF key, by, body, new
<1>6. IsSequence(handles) /\ DOMAIN handles = 1..Len(handles) /\ Len(handles) \in Nat
  BY <1>1 DEF HandlesOK, IsSequence
<1>7. /\ IsSequence(handles') /\ DOMAIN handles' = DOMAIN handles \cup {n}
      /\ \A h \in DOMAIN handles : handles'[h] = handles[h]
      /\ handles'[n] = new /\ n \notin DOMAIN handles
  BY <1>2, <1>6, AppendOne
<1>8. ClocksOK' /\ TicketOK'
  BY <1>1, <1>2 DEF ClocksOK, TicketOK, Declared
<1>9. BegunOK'
  BY <1>1, <1>2, <1>7 DEF BegunOK
<1>10. HandlesOK'
  <2> SUFFICES ASSUME NEW h \in DOMAIN handles'
               PROVE  LET m == handles'[h].made
                          sp == Models[handles'[h].made.catalog].options
                      IN
         /\ DOMAIN handles'[h] = {"asked", "by", "made", "swept", "value"}
         /\ m = [catalog |-> m.catalog, data_version |-> m.data_version,
                 alias |-> m.alias, id |-> h, options |-> m.options]
         /\ m.catalog \in DOMAIN Models
         /\ m.options = [x \in DOMAIN m.options |-> m.options[x]]
         /\ DOMAIN m.options \subseteq NamesOf(sp)
         /\ handles'[h].value =
              seal_attach(handles'[h].value.key, handles'[h].by,
                          [m EXCEPT !.options =
                             Carried(sp, m.options, handles'[h].value.key # NoKey)])
         /\ DOMAIN handles'[h].asked \subseteq Nat
         /\ ~Models[m.catalog].memory =>
              m.options = merge_attach_options(sp, handles'[h].asked)
    BY <1>7 DEF HandlesOK, SpecsOf, BodyOf, Sealing
  <2>1. CASE h \in DOMAIN handles
    BY <1>1, <1>7, <2>1 DEF HandlesOK, SpecsOf, BodyOf, Sealing
  <2>2. CASE h = n
    BY <1>a, <1>4, <1>5, <1>7, <2>2 DEF body
  <2>3. QED
    BY <1>7, <2>1, <2>2
<1>11. SecretsOK'
  <2>1. \A h \in DOMAIN handles : KeptOf(h)' = KeptOf(h)
    BY <1>7 DEF KeptOf, SpecsOf, Sealing
  <2>2. \A h : h = n => KeptOf(h)' = kept
    BY <1>5, <1>7 DEF KeptOf, SpecsOf, Sealing
  <2> HIDE DEF kept
  <2>3. CASE DOMAIN kept = {}
    BY <1>1, <1>2, <1>7, <2>1, <2>2, <2>3 DEF SecretsOK
  <2>4. CASE DOMAIN kept # {}
    <3>1. secrets' = [i \in DOMAIN secrets \cup {n} |-> IF i = n THEN kept ELSE secrets[i]]
      BY <1>2, <1>4, <2>4
    <3>2. QED
      BY <1>1, <1>7, <2>1, <2>2, <3>1 DEF SecretsOK
  <2>5. QED
    BY <2>3, <2>4
<1>12. QED
  BY <1>8, <1>9, <1>10, <1>11 DEF AInv
\* The request of one level carries the attach value as it was sent.
LEMMA SentAtOnce ==
  ASSUME NEW value, value # Absent
  PROVE  AttachAsSent(Levels(1, value, Absent)) = value
<1> DEFINE levels == Levels(1, value, Absent)
<1>1. /\ DOMAIN levels = {1} /\ levels[1].rows = 1 /\ levels[1].attach = value
  BY DEF Levels
<1> HIDE DEF levels
<1>2. Reached(levels) = {1}
  BY <1>1 DEF Reached
<1>3. {j \in Reached(levels) : levels[j].attach # Absent} = {1}
  BY <1>1, <1>2
<1>4. (CHOOSE j \in {1} : \A k \in {1} : j <= k) = 1
  OBVIOUS
<1>5. QED
  BY <1>1, <1>3, <1>4 DEF AttachAsSent, levels

LEMMA NeverAbsent ==
  ASSUME NEW key, NEW caller, NEW x
  PROVE  /\ seal_attach(key, caller, x) # Absent
         /\ \A attach : seal_transaction(key, caller, attach, x) # Absent
  BY DEF seal_attach, seal_transaction, Absent

LEMMA ValueOf ==
  ASSUME HandlesOK, NEW h \in DOMAIN handles
  PROVE  /\ handles[h].value = seal_attach(handles[h].value.key, handles[h].by, BodyOf(h))
         /\ BodyOf(h).id = h
<1>1. handles[h].value = seal_attach(handles[h].value.key, handles[h].by, BodyOf(h))
  BY DEF HandlesOK
<1>2. "id" \in DOMAIN handles[h].made /\ handles[h].made.id = h
  <2> DEFINE made == handles[h].made
  <2>1. made = [catalog |-> made.catalog, data_version |-> made.data_version,
                alias |-> made.alias, id |-> h, options |-> made.options]
    BY Zenon DEF HandlesOK
  <2> HIDE DEF made
  <2>2. made.id = h /\ "id" \in DOMAIN made
    BY <2>1
  <2>3. QED
    BY <2>2 DEF made
<1>3. QED
  BY <1>1, <1>2 DEF BodyOf

LEMMA AttachmentsStep ==
  ASSUME AttachmentsAssumption, AInv, [Next]_attachVars
  PROVE  AInv'
<1>1. ClocksOK /\ HandlesOK /\ SecretsOK /\ BegunOK /\ TicketOK
  BY DEF AInv
<1>2. ASSUME NEW w \in Workers, NEW c \in Callers, NEW r \in Requests, Attach(w, c, r)
      PROVE  AInv'
  BY <1>2, AttachStep
<1>3. ASSUME UNCHANGED handles PROVE HandlesOK'
  BY <1>1, <1>3 DEF HandlesOK, SpecsOf, BodyOf, Sealing
<1>4. ASSUME UNCHANGED <<handles, secrets>> PROVE SecretsOK'
  BY <1>1, <1>4 DEF SecretsOK, KeptOf, SpecsOf, Sealing
<1>5. ASSUME UNCHANGED <<setup, ticket>> PROVE TicketOK'
  BY <1>1, <1>5 DEF TicketOK
<1>6. ASSUME UNCHANGED <<handles, begun>> PROVE BegunOK'
  BY <1>1, <1>6 DEF BegunOK
<1>7. ASSUME NEW w \in Workers, NEW c \in Callers, NEW r \in Requests,
             NEW ttl \in Lifetimes, SealTicket(w, c, r, ttl)
      PROVE  AInv'
  <2>1. /\ HostsTickets(w) /\ CallerOn(c) # Anonymous /\ elapsed' = 0
        /\ seal_attach_valid(Declared, r.name, r.options, ttl)
        /\ ticket' = [made |-> TRUE, on |-> w, request |-> r,
                      token |-> Minted(TicketKey(w), CallerOn(c), r,
                                       Lifetime(ttl, setup.ceiling))]
        /\ UNCHANGED <<setup, ahead, handles, begun, secrets>>
    BY <1>7 DEF SealTicket
  <2>2. /\ setup.transport = "http" /\ setup.signing
        /\ TicketKey(w) = <<"configured", 0>> /\ TicketKey(w) # NoTicketKey
    BY <2>1 DEF HostsTickets, TicketKey
  <2>3. Lifetime(ttl, setup.ceiling) \in Nat \cup {NoExpiry}
    <3>1. ttl \in Nat /\ setup.ceiling \in Nat \cup {NoExpiry}
      BY <1>1 DEF ClocksOK, AttachmentsAssumption
    <3>2. QED
      BY <3>1 DEF Lifetime
  <2>4. TicketOK'
    <3> DEFINE life == Lifetime(ttl, setup.ceiling)
               key == TicketKey(w)
               by == CallerOn(c)
               token == Minted(key, by, r, life)
    <3> HIDE DEF life, key, by
    <3>1. /\ token.key = key /\ token.by = by /\ token.expires_at = life
      BY DEF Minted
    <3> HIDE DEF token
    <3>2. /\ ticket'.on = w /\ ticket'.request = r /\ ticket'.token = token
      BY <2>1 DEF token, life, key, by
    <3>3. ticket'.token = Minted(<<"configured", 0>>, ticket'.token.by, ticket'.request,
                                 ticket'.token.expires_at)
      BY <2>2, <3>1, <3>2 DEF token, key
    <3>4. setup' = setup
      BY <2>1
    <3>5. QED
      BY <2>1, <2>2, <2>3, <3>1, <3>2, <3>3, <3>4 DEF TicketOK, Declared, key, by, life
  <2>5. ClocksOK'
    BY <1>1, <2>1 DEF ClocksOK
  <2>6. QED
    BY <1>3, <1>4, <1>6, <2>1, <2>4, <2>5 DEF AInv
<1>8. ASSUME NEW w \in Workers, NEW c \in Callers, NEW h \in DOMAIN handles, Begin(w, c, h)
      PROVE  AInv'
  <2> DEFINE value == handles[h].value
  <2>1. /\ begun' = [made |-> TRUE, h |-> h, by |-> CallerOn(c), on |-> OpaqueKey(w),
                     value |-> seal_transaction(OpaqueKey(w), CallerOn(c),
                                  AttachAsSent(Levels(1, value, Absent)), "tx")]
        /\ UNCHANGED <<setup, starts, ahead, elapsed, ticket, handles, secrets>>
    BY <1>8 DEF Begin
  <2>2. value # Absent
    BY <1>1, ValueOf, NeverAbsent
  <2>3. AttachAsSent(Levels(1, value, Absent)) = value
    BY <2>2, SentAtOnce
  <2>4. BegunOK'
    BY <2>1, <2>3 DEF BegunOK
  <2>5. ClocksOK'
    BY <1>1, <2>1 DEF ClocksOK
  <2>6. QED
    BY <1>3, <1>4, <1>5, <2>1, <2>4, <2>5 DEF AInv
<1>9. ASSUME NEW w \in Workers, Restart(w) PROVE AInv'
  <2>1. UNCHANGED <<setup, ahead, elapsed, ticket, begun>>
    BY <1>9 DEF Restart
  <2>2. ClocksOK' /\ TicketOK'
    BY <1>1, <1>5, <2>1 DEF ClocksOK
  <2>3. CASE UNCHANGED <<handles, secrets>>
    BY <1>3, <1>4, <1>6, <2>1, <2>2, <2>3 DEF AInv
  <2>4. CASE /\ secrets' = [i \in {} |-> NoOptions]
             /\ handles' = [h \in DOMAIN handles |-> [handles[h] EXCEPT !.swept = TRUE]]
    <3>1. DOMAIN handles' = DOMAIN handles
      BY <2>4
    <3>2. \A h \in DOMAIN handles :
            /\ handles'[h].by = handles[h].by /\ handles'[h].made = handles[h].made
            /\ handles'[h].value = handles[h].value /\ handles'[h].swept
            /\ handles'[h].asked = handles[h].asked
            /\ DOMAIN handles'[h] = {"asked", "by", "made", "swept", "value"}
      BY <1>1, <2>4 DEF HandlesOK
    <3>3. IsSequence(handles')
      <4>1. IsSequence(handles) /\ DOMAIN handles = 1..Len(handles)
        BY <1>1 DEF HandlesOK, IsSequence
      <4>2. Len(handles') = Len(handles)
        BY <2>4, <3>1, <4>1, SameLength
      <4>3. handles' = [h \in 1..Len(handles) |-> handles'[h]]
        BY <2>4, <4>1
      <4>4. QED
        BY <4>1, <4>2, <4>3 DEF IsSequence
    <3>4. HandlesOK'
      BY <1>1, <3>1, <3>2, <3>3 DEF HandlesOK, SpecsOf, BodyOf, Sealing
    <3>5. SecretsOK'
      BY <2>4, <3>1, <3>2 DEF SecretsOK
    <3>6. BegunOK'
      BY <1>1, <2>1, <3>1, <3>2 DEF BegunOK
    <3>7. QED
      BY <2>2, <3>4, <3>5, <3>6 DEF AInv
  <2>5. QED
    BY <1>9, <2>3, <2>4 DEF Restart
<1>10. ASSUME Tick \/ UNCHANGED attachVars PROVE AInv'
  <2>1. UNCHANGED <<setup, ahead, ticket, handles, begun, secrets>>
    BY <1>10 DEF Tick, attachVars
  <2>2. elapsed' \in Nat
    BY <1>1, <1>10 DEF Tick, attachVars, ClocksOK
  <2>3. ClocksOK'
    BY <1>1, <2>1, <2>2 DEF ClocksOK
  <2>4. QED
    BY <1>3, <1>4, <1>5, <1>6, <2>1, <2>3 DEF AInv
<1>11. QED
  BY <1>2, <1>7, <1>8, <1>9, <1>10 DEF Next
-----------------------------------------------------------------------------
(* What a later call meets                                                 *)

LEMMA MadeOf ==
  ASSUME HandlesOK, NEW h \in DOMAIN handles
  PROVE  LET made == handles[h].made IN
         /\ made = [catalog |-> made.catalog, data_version |-> made.data_version,
                    alias |-> made.alias, id |-> h, options |-> made.options]
         /\ made.catalog \in DOMAIN Models
         /\ made.options = [n \in DOMAIN made.options |-> made.options[n]]
         /\ DOMAIN made.options \subseteq NamesOf(SpecsOf(h))
         /\ h # 0
<1>1. h # 0
  BY DEF HandlesOK, IsSequence
<1>2. QED
  BY <1>1, Zenon DEF HandlesOK

LEMMA SealFields ==
  \A key, caller, x :
    LET value == seal_attach(key, caller, x) IN
    /\ value.key = key /\ value.domain = "attach" /\ value.body = x
    /\ key # NoKey => value.by = caller
  BY DEF seal_attach

LEMMA Reoptioned ==
  ASSUME NEW m, m = [catalog |-> m.catalog, data_version |-> m.data_version,
                     alias |-> m.alias, id |-> m.id, options |-> m.options],
         NEW x
  PROVE  /\ [m EXCEPT !.options = x].options = x
         /\ [m EXCEPT !.options = x].catalog = m.catalog
         /\ \A y : [[m EXCEPT !.options = x] EXCEPT !.options = y]
                      = [m EXCEPT !.options = y]
         /\ [m EXCEPT !.options = m.options] = m
  OBVIOUS

\* seal_attachment and restore_secret_options undo each other, and without the
\* store what comes back is what travelled.
IsFunction(f) == f = [x \in DOMAIN f |-> f[x]]
Without(f, X) == [x \in DOMAIN f \ X |-> f[x]]
LEMMA Restoring ==
  ASSUME NEW specs, NEW options, NEW sealing \in BOOLEAN, IsFunction(options),
         DOMAIN options \subseteq NamesOf(specs)
  PROVE  LET carried == Carried(specs, options, sealing)
             kept == KeptBack(specs, options, sealing)
         IN /\ restore_secret_options(specs, carried, kept) = options
            /\ restore_secret_options(specs, carried, NoOptions) = carried
            /\ DOMAIN kept = {} => carried = options
            /\ sealing => DOMAIN kept = {}
            /\ ~sealing => carried = Without(options, SecretNames(specs))
<1> USE DEF IsFunction, Without
<1> DEFINE carried == Carried(specs, options, sealing)
           kept == KeptBack(specs, options, sealing)
<1>1. restore_secret_options(specs, carried, NoOptions) = carried
  BY DEF restore_secret_options
<1>2. CASE sealing
  <2>1. carried = options /\ kept = NoOptions
    BY <1>2 DEF Carried, KeptBack
  <2>2. QED
    BY <1>1, <1>2, <2>1, Optionless
<1>3. CASE ~sealing
  <2>1. /\ carried = [n \in DOMAIN options \ SecretNames(specs) |-> options[n]]
        /\ kept = [n \in DOMAIN options \cap SecretNames(specs) |-> options[n]]
    BY <1>3 DEF Carried, KeptBack
  <2> HIDE DEF carried, kept
  <2>2. /\ DOMAIN carried = DOMAIN options \ SecretNames(specs)
        /\ DOMAIN kept = DOMAIN options \cap SecretNames(specs)
    BY <2>1
  <2>3. DOMAIN kept = {} => carried = options
    <3> SUFFICES ASSUME DOMAIN kept = {} PROVE carried = options
      OBVIOUS
    <3>1. DOMAIN options \ SecretNames(specs) = DOMAIN options
      BY <2>2
    <3>2. QED
      BY <2>1, <3>1
  <2>4. restore_secret_options(specs, carried, kept) = options
    <3>1. CASE kept = NoOptions \/ SecretNames(specs) \ DOMAIN carried = {}
      <4>1. restore_secret_options(specs, carried, kept) = carried
        BY <3>1 DEF restore_secret_options
      <4>2. DOMAIN kept = {}
        BY <2>2, <3>1, Optionless
      <4>3. QED
        BY <2>3, <4>1, <4>2
    <3>2. CASE kept # NoOptions /\ SecretNames(specs) \ DOMAIN carried # {}
      <4> DEFINE names == {n \in NamesOf(specs) : n \in DOMAIN carried \/ n \in DOMAIN kept}
      <4>1. restore_secret_options(specs, carried, kept)
              = [n \in names |-> IF n \in DOMAIN carried THEN carried[n] ELSE kept[n]]
        BY <3>2 DEF restore_secret_options
      <4>2. names = DOMAIN options
        BY <2>2
      <4>3. \A n \in DOMAIN options :
              (IF n \in DOMAIN carried THEN carried[n] ELSE kept[n]) = options[n]
        BY <2>1, <2>2
      <4> HIDE DEF names
      <4>4. QED
        BY <4>1, <4>2, <4>3
    <3>3. QED
      BY <3>1, <3>2
  <2>5. QED
    BY <1>1, <1>3, <2>1, <2>3, <2>4 DEF carried, kept
<1>4. QED
  BY <1>2, <1>3

\* Blanking the secrets of a statement changes no plain option it settles: a
\* column that a plain option takes is not blank.
LEMMA BlankedPlain ==
  ASSUME NEW specs, NEW asked, DOMAIN asked \subseteq Nat,
         NEW n \in NamesOf(specs) \ SecretNames(specs)
  PROVE  merge_attach_options(specs, asked)[n]
           = merge_attach_options(specs, Blanked(specs, asked))[n]
<1> DEFINE blank == Blanked(specs, asked)
           cols == ColumnsFor(asked, n)
           first == CHOOSE i \in cols : \A j \in cols : i <= j
<1>1. /\ DOMAIN blank = DOMAIN asked
      /\ \A i \in DOMAIN asked : Fold(asked[i].name) = Fold(n) => blank[i] = asked[i]
  BY DEF Blanked
<1>2. \A i \in DOMAIN asked : blank[i].name = asked[i].name
  BY DEF Blanked
<1>3. ColumnsFor(blank, n) = cols
  BY <1>1, <1>2 DEF ColumnsFor
<1>4. cols # {} => first \in cols
  <2>1. cols \in SUBSET Nat
    BY DEF ColumnsFor
  <2>2. QED
    BY <2>1, Least
<1>5. cols # {} => blank[first] = asked[first]
  BY <1>1, <1>4 DEF ColumnsFor
<1>6. cols # {} => Supplied(blank, n) = Supplied(asked, n)
  BY <1>3, <1>5 DEF Supplied
<1>7. QED
  BY <1>3, <1>6 DEF merge_attach_options

\* Without the attachment's store: what travelled, no secret in it.
LEMMA WireIsSafe == AInv => NoSecretOnTheWire
<1> DEFINE Blank(h) == merge_attach_options(SpecsOf(h), Blanked(SpecsOf(h), handles[h].asked))
<1> SUFFICES ASSUME AInv, NEW h \in Served, handles[h].value.key = NoKey
             PROVE  handles[h].value.body.options = Carried(SpecsOf(h), Blank(h), FALSE)
  BY DEF NoSecretOnTheWire, SpecsOf
<1>a. h \in DOMAIN handles /\ ~Models[handles[h].made.catalog].memory
  BY DEF Served
<1>1. HandlesOK
  BY DEF AInv
<1>2. handles[h].value.body = BodyOf(h)
  BY <1>1, <1>a, ValueOf, SealFields
<1>3. BodyOf(h).options = Carried(SpecsOf(h), handles[h].made.options, FALSE)
  <2>1. BodyOf(h).options = Carried(SpecsOf(h), handles[h].made.options, Sealing(h))
    BY <1>1, <1>a, MadeOf, Reoptioned DEF BodyOf
  <2>2. QED
    BY <2>1 DEF Sealing
<1> DEFINE specs == SpecsOf(h)
           asked == handles[h].asked
           settled == merge_attach_options(specs, asked)
           blank == merge_attach_options(specs, Blanked(specs, asked))
<1>4. handles[h].made.options = settled /\ DOMAIN asked \subseteq Nat
  BY <1>1, <1>a DEF HandlesOK
<1> HIDE DEF specs, asked
<1>5. DOMAIN settled = NamesOf(specs) /\ DOMAIN blank = NamesOf(specs)
  BY DEF merge_attach_options
<1>6. \A n \in NamesOf(specs) \ SecretNames(specs) : settled[n] = blank[n]
  BY <1>4, BlankedPlain
<1> HIDE DEF settled, blank
<1>7. Carried(specs, settled, FALSE) = Carried(specs, blank, FALSE)
  BY <1>5, <1>6 DEF Carried
<1>8. QED
  BY <1>2, <1>3, <1>4, <1>7 DEF specs, asked, settled, blank

LEMMA CallsAreServed == AInv => ServedAsAttached
<1> SUFFICES ASSUME AInv, NEW w \in Workers, NEW c \in Callers, NEW h \in Served,
                    NEW depth \in 1..3
             PROVE  LET call == Serving(w, c, h, depth, FALSE)
                        made == handles[h].made
                        missed == SecretNames(Models[made.catalog].options)
                    IN \/ call.rejected
                       \/ call.got = made
                       \/ /\ handles[h].swept /\ handles[h].value.key = NoKey
                          /\ call.got = [made EXCEPT !.options =
                                           [n \in DOMAIN @ \ missed |-> @[n]]]
  BY DEF ServedAsAttached
<1> DEFINE made == handles[h].made
           specs == SpecsOf(h)
           carried == Carried(specs, made.options, Sealing(h))
           stored == IF h \in DOMAIN secrets THEN secrets[h] ELSE NoOptions
           restored == restore_secret_options(specs, carried, stored)
<1>1. HandlesOK /\ SecretsOK /\ h \in DOMAIN handles
  BY DEF AInv, Served
<1>2. h # 0 /\ handles[h].value.body = BodyOf(h) /\ BodyOf(h).id = h
  <2>1. h # 0
    BY <1>1, MadeOf
  <2>2. BodyOf(h).id = h
    BY <1>1, ValueOf
  <2>3. handles[h].value.body = BodyOf(h)
    BY <1>1, ValueOf, SealFields
  <2>4. QED
    BY <2>1, <2>2, <2>3
<1> DEFINE call == Serving(w, c, h, depth, FALSE)
<1>3. call.rejected \/ call.got = attachment_of(BodyOf(h))
  BY <1>2 DEF Serving
<1> HIDE DEF call
<1>4. /\ made = [catalog |-> made.catalog, data_version |-> made.data_version,
                 alias |-> made.alias, id |-> h, options |-> made.options]
      /\ made.catalog \in DOMAIN Models
      /\ made.options = [n \in DOMAIN made.options |-> made.options[n]]
      /\ DOMAIN made.options \subseteq NamesOf(specs)
  BY <1>1, MadeOf
<1> HIDE DEF made
<1>5. /\ BodyOf(h) = [made EXCEPT !.options = carried]
      /\ specs = Models[made.catalog].options
  BY DEF BodyOf, made, SpecsOf
<1>6. /\ BodyOf(h).catalog = made.catalog /\ BodyOf(h).options = carried
      /\ \A x : [BodyOf(h) EXCEPT !.options = x] = [made EXCEPT !.options = x]
  BY <1>4, <1>5
<1>7. attachment_of(BodyOf(h)) = [made EXCEPT !.options = restored]
  BY <1>2, <1>4, <1>5, <1>6 DEF attachment_of
<1>8. /\ restore_secret_options(specs, carried, KeptOf(h)) = made.options
      /\ restore_secret_options(specs, carried, NoOptions) = carried
      /\ DOMAIN KeptOf(h) = {} => carried = made.options
      /\ Sealing(h) => DOMAIN KeptOf(h) = {}
      /\ ~Sealing(h) => carried = Without(made.options, SecretNames(specs))
  <2>1. Sealing(h) \in BOOLEAN /\ KeptOf(h) = KeptBack(specs, made.options, Sealing(h))
    BY DEF Sealing, KeptOf, made
  <2>2. IsFunction(made.options) /\ DOMAIN made.options \subseteq NamesOf(specs)
    BY <1>4 DEF IsFunction
  <2> HIDE DEF specs
  <2>3. QED
    BY <2>1, <2>2, Restoring
<1>9. [made EXCEPT !.options = made.options] = made
  BY <1>4
<1>10. CASE h \in DOMAIN secrets
  BY <1>1, <1>3, <1>7, <1>8, <1>9, <1>10 DEF SecretsOK, made, call
<1>11. CASE h \notin DOMAIN secrets /\ DOMAIN KeptOf(h) = {}
  BY <1>3, <1>7, <1>8, <1>9, <1>11 DEF made, call
<1>12. CASE h \notin DOMAIN secrets /\ DOMAIN KeptOf(h) # {}
  <2>1. handles[h].swept /\ ~Sealing(h)
    BY <1>1, <1>8, <1>12 DEF SecretsOK
  <2>2. restored = Without(made.options, SecretNames(specs))
    BY <1>8, <1>12, <2>1
  <2>3. attachment_of(BodyOf(h))
          = [made EXCEPT !.options = [n \in DOMAIN @ \ SecretNames(specs) |-> @[n]]]
    BY <1>4, <1>7, <2>2 DEF Without
  <2>4. QED
    BY <1>3, <1>5, <2>1, <2>3 DEF made, call, Sealing
<1>13. QED
  BY <1>10, <1>11, <1>12
\* A request of any depth is rejected for its innermost values alone.
LEMMA Opening ==
  ASSUME NEW key, NEW caller, NEW depth \in 1..3, NEW attach, attach # Absent,
         NEW transaction
  PROVE  open_rejects(key, caller, Levels(depth, attach, transaction)) =
           (key # NoKey /\ ~(/\ open_attach(key, caller, attach)
                             /\ transaction # Absent =>
                                  open_transaction(key, caller, attach, transaction)))
<1> DEFINE levels == Levels(depth, attach, transaction)
<1>1. /\ DOMAIN levels = 1..depth
      /\ \A i \in 1..depth : levels[i].rows = 1
      /\ levels[depth].attach = attach /\ levels[depth].transaction = transaction
      /\ \A i \in 1..depth : i # depth =>
           levels[i].attach = Absent /\ levels[i].transaction = Absent
  BY DEF Levels
<1> HIDE DEF levels
<1>2. Reached(levels) = 1..depth
  BY <1>1 DEF Reached
<1>3. AttachHere(levels, depth) = attach
  <2>1. {j \in 1..depth : levels[j].attach # Absent} = {depth}
    BY <1>1
  <2>2. (CHOOSE j \in {depth} : \A k \in {depth} : k <= j) = depth
    OBVIOUS
  <2>3. QED
    BY <1>1, <2>1, <2>2 DEF AttachHere
<1>4. CASE key = NoKey
  BY <1>4 DEF open_rejects
<1>5. CASE key # NoKey
  <2>1. open_rejects(key, caller, levels) =
          \E i \in 1..depth :
            \/ levels[i].attach # Absent /\ ~open_attach(key, caller, levels[i].attach)
            \/ /\ levels[i].transaction # Absent
               /\ \/ AttachHere(levels, i) = Absent
                  \/ ~open_transaction(key, caller, AttachHere(levels, i),
                                       levels[i].transaction)
    BY <1>1, <1>2, <1>5 DEF open_rejects
  <2>2. depth \in 1..depth
    OBVIOUS
  <2>3. QED
    BY <1>1, <1>3, <1>5, <2>1, <2>2 DEF levels
<1>6. QED
  BY <1>4, <1>5

LEMMA ValuesOpen == AInv => OpensForItsCaller
<1> SUFFICES ASSUME AInv, NEW w \in Workers, NEW c \in Callers, NEW h \in Served \cup {0},
                    NEW depth \in 1..3, NEW t \in Transactions
             PROVE  LET key == OpaqueKey(w)
                        attachOpens == /\ h # 0 /\ handles[h].value.key = key
                                       /\ handles[h].by = CallerOn(c)
                        beginsHere == /\ begun.h = h /\ begun.on = key
                                      /\ begun.by = CallerOn(c)
                    IN Serving(w, c, h, depth, t).rejected =
                         (key # NoKey /\ ~(attachOpens /\ (t => beginsHere)))
  BY DEF OpensForItsCaller
<1> DEFINE key == OpaqueKey(w)
           by == CallerOn(c)
           foreign == [key |-> NoKey, domain |-> "attach", by |-> Absent,
                       under |-> Absent, body |-> Foreign]
           value == IF h = 0 THEN foreign ELSE handles[h].value
           transaction == IF t THEN begun.value ELSE Absent
<1>1. HandlesOK /\ BegunOK /\ t \in BOOLEAN /\ (t => begun.made)
  BY DEF AInv, Transactions
<1>2. Serving(w, c, h, depth, t).rejected
        = open_rejects(key, by, Levels(depth, value, transaction))
  BY DEF Serving
<1>3. /\ h = 0 => value.key = NoKey /\ value # Absent
      /\ h # 0 => h \in DOMAIN handles /\ value = handles[h].value
  BY DEF Absent, Served
<1> HIDE DEF key, by, value, transaction
<1> DEFINE opens == /\ open_attach(key, by, value)
                    /\ transaction # Absent => open_transaction(key, by, value, transaction)
           rejected == Serving(w, c, h, depth, t).rejected
<1>a. ASSUME value # Absent PROVE rejected = (key # NoKey /\ ~opens)
  BY <1>2, <1>a, Opening
<1> HIDE DEF rejected
<1>4. CASE h = 0
  <2>1. key # NoKey => ~opens
    BY <1>3, <1>4 DEF open_attach
  <2>2. rejected = (key # NoKey)
    BY <1>3, <1>4, <1>a, <2>1
  <2>3. QED
    BY <1>4, <2>2 DEF key, rejected
<1>5. CASE h # 0
  <2>1. /\ h \in DOMAIN handles /\ value = handles[h].value
        /\ value = seal_attach(value.key, handles[h].by, BodyOf(h))
    BY <1>1, <1>3, <1>5, ValueOf
  <2>2. value # Absent
    BY <2>1, NeverAbsent
  <2>3. key # NoKey => (open_attach(key, by, value)
                        <=> value.key = key /\ handles[h].by = by)
    BY <2>1, SealFields DEF open_attach
  <2>4. CASE ~t
    <3>1. transaction = Absent
      BY <2>4 DEF transaction
    <3>2. rejected = (key # NoKey /\ ~(value.key = key /\ handles[h].by = by))
      BY <1>a, <2>2, <2>3, <3>1
    <3>3. QED
      BY <1>5, <2>1, <2>4, <3>2 DEF key, by, rejected
  <2>5. CASE t
    <3>1. /\ begun.h \in DOMAIN handles
          /\ transaction = seal_transaction(begun.on, begun.by, handles[begun.h].value, "tx")
      BY <1>1, <2>5 DEF BegunOK, transaction
    <3>2. transaction # Absent
      BY <3>1, NeverAbsent
    <3>3. handles[begun.h].value = handles[h].value => begun.h = h
      <4>1. \A g \in DOMAIN handles : handles[g].value.body.id = g
        BY <1>1, ValueOf, SealFields
      <4>2. QED
        BY <2>1, <3>1, <4>1
    <3>4. key # NoKey => (open_transaction(key, by, value, transaction)
                          <=> begun.on = key /\ begun.by = by /\ begun.h = h)
      BY <2>1, <3>1, <3>3 DEF open_transaction, seal_transaction
    <3>5. rejected = (key # NoKey /\ ~(/\ value.key = key /\ handles[h].by = by
                                       /\ begun.on = key /\ begun.by = by /\ begun.h = h))
      BY <1>a, <2>2, <2>3, <3>2, <3>4
    <3>6. QED
      BY <1>5, <2>1, <2>5, <3>5 DEF key, by, rejected
  <2>6. QED
    BY <1>1, <2>4, <2>5
<1>6. QED
  BY <1>4, <1>5
-----------------------------------------------------------------------------
(* Tickets                                                                 *)

\* The ticket's life, decided by another clock within the skew.
LEMMA TicketsLive ==
  ASSUME AttachmentsAssumption, AInv PROVE TicketLifetime
<1> SUFFICES ASSUME NEW w \in Workers, NEW c \in Callers, NEW r \in Redeeming
             PROVE  LET through == Attaching(w, c, r).through
                        expires == ticket.token.expires_at
                        mine == c = ticket.token.by /\ Len(r.options) = 1
                    IN /\ (expires = NoExpiry \/ elapsed < expires) /\ mine
                            => through = "open"
                       /\ ~mine => through # "open"
                       /\ expires # NoExpiry /\ elapsed >= expires + 2 * ClockSkew
                            => through # "open"
  BY DEF TicketLifetime, TicketHonoured, TicketDies
<1> DEFINE through == Attaching(w, c, r).through
           expires == ticket.token.expires_at
           clock == ClockOf(w)
           opened == open_attach_ticket(ticket.token.key, c, ticket.token, clock)
<1>1. ClocksOK /\ TicketOK /\ ticket.made
  BY DEF AInv, Redeeming
<1>2. /\ Len(r.options) # 1 => through = "refused"
      /\ Len(r.options) = 1 => through = opened
  <2> DEFINE redeemed == redeem_attach_ticket(TicketKey(w), CallerOn(c), Asking(r), clock)
  <2>1. through = redeemed.state
    BY DEF Attaching, Reply
  <2> HIDE DEF through, redeemed
  <2>2. QED
    BY <2>1, Redeemed DEF redeemed
<1>3. /\ ticket.token.wellFormed /\ ticket.token.by # Anonymous
      /\ expires \in Nat \cup {NoExpiry} /\ NoExpiry \notin Nat
      /\ ticket.on \in Workers
  <2>1. \A k, b, q, e : Minted(k, b, q, e).wellFormed
    BY DEF Minted
  <2>2. QED
    BY <1>1, <2>1 DEF TicketOK, AttachmentsAssumption
<1>4. /\ clock = elapsed + ahead[w] - ahead[ticket.on] /\ elapsed \in Nat
      /\ ahead[w] \in 0..ClockSkew /\ ahead[ticket.on] \in 0..ClockSkew
      /\ ClockSkew \in Nat
  BY <1>1, <1>3 DEF ClockOf, ClocksOK, AttachmentsAssumption
<1> HIDE DEF through, expires, clock
<1>5. clock \in Int /\ clock >= elapsed - ClockSkew /\ clock <= elapsed + ClockSkew
      /\ ~(0 > clock + ClockSkew)
  BY <1>4
<1>6. opened = IF c = Anonymous \/ ticket.token.by # c THEN "invalid"
               ELSE IF expires # NoExpiry /\ clock >= expires + ClockSkew
               THEN "expired" ELSE "open"
  BY <1>3, <1>5 DEF open_attach_ticket, expires
<1> HIDE DEF opened
<1>7. ASSUME expires = NoExpiry \/ elapsed < expires, c = ticket.token.by
      PROVE  opened = "open"
  <2>1. ~(expires # NoExpiry /\ clock >= expires + ClockSkew)
    BY <1>3, <1>4, <1>5, <1>7
  <2>2. QED
    BY <1>3, <1>6, <1>7, <2>1
<1>8. ASSUME expires # NoExpiry, elapsed >= expires + 2 * ClockSkew
      PROVE  opened # "open"
  <2>1. clock >= expires + ClockSkew
    BY <1>3, <1>4, <1>5, <1>8
  <2>2. QED
    BY <1>6, <1>8, <2>1
<1>9. c # ticket.token.by => opened # "open"
  BY <1>6
<1>10. QED
  BY <1>2, <1>7, <1>8, <1>9 DEF through, expires

\* What catalog_attach answers depends on what a ticket restores alone.
LEMMA TicketsAttach ==
  ASSUME AttachmentsAssumption, AInv PROVE TicketIsTheAttach
<1> SUFFICES ASSUME NEW w \in Workers, NEW c \in Callers, NEW r \in Redeeming,
                    Attaching(w, c, r).through = "open"
             PROVE  LET call == Attaching(w, c, r)
                        direct == Attached(ticket.request)
                    IN /\ call.outcome = direct.outcome
                       /\ call.made.catalog = direct.catalog
                       /\ call.made.alias = direct.alias
                       /\ call.made.data_version = direct.data_version
                       /\ call.made.options = direct.options
                       /\ call.outcome = "options" =>
                            \E i \in DOMAIN ticket.request.options :
                              ticket.request.options[i].value \in Uncastable
  BY DEF TicketIsTheAttach
<1> DEFINE redeemed == redeem_attach_ticket(TicketKey(w), CallerOn(c), Asking(r), ClockOf(w))
           request == ticket.request
           answer == Attached(redeemed.request)
<1>1. TicketOK /\ ticket.made
  BY DEF AInv, Redeeming
<1>2. Attaching(w, c, r) = Reply(redeemed.state, redeemed.request.options, answer)
  BY DEF Attaching
<1>3. redeemed.state = "open"
  BY <1>2 DEF Reply
<1>4. /\ redeemed.request.name = request.name /\ redeemed.request.spec = request.spec
      /\ redeemed.request.impl = request.impl /\ redeemed.request.options = request.options
  BY <1>3, Redeemed
<1> HIDE DEF redeemed
<1>5. answer = Attached(request)
  BY <1>4 DEF Attached, Answered
<1> HIDE DEF answer
<1>6. /\ Attaching(w, c, r).outcome = answer.outcome
      /\ Attaching(w, c, r).made.catalog = answer.catalog
      /\ Attaching(w, c, r).made.alias = answer.alias
      /\ Attaching(w, c, r).made.data_version = answer.data_version
      /\ Attaching(w, c, r).made.options = answer.options
  BY <1>2, <1>3 DEF Reply
<1>7. ASSUME Attached(request).outcome = "options"
      PROVE  \E i \in DOMAIN request.options : request.options[i].value \in Uncastable
  <2> DEFINE specs == Models[request.name].options
  <2>1. /\ request.name \in DOMAIN Models /\ IsSequence(request.options)
        /\ \A i \in DOMAIN specs : specs[i].required =>
             Fold(specs[i].name) \in {Fold(request.options[j].name) :
                                        j \in DOMAIN request.options}
    BY <1>1 DEF TicketOK, seal_attach_valid, Declared, AttachmentsAssumption
  <2>2. merge_refuses(specs, request.options)
    BY <1>7, <2>1 DEF Attached, Answered, Outcome, ModelFor
  <2>3. PICK i \in DOMAIN specs :
          IF ColumnsFor(request.options, specs[i].name) # {}
          THEN Supplied(request.options, specs[i].name) \in Uncastable
          ELSE specs[i].default = None /\ specs[i].required
    BY <2>2 DEF merge_refuses
  <2> DEFINE at == ColumnsFor(request.options, specs[i].name)
  <2>4. at # {}
    BY <2>1, <2>3 DEF ColumnsFor
  <2>5. at \subseteq DOMAIN request.options /\ DOMAIN request.options \subseteq Nat
    BY <2>1 DEF ColumnsFor, IsSequence
  <2>6. PICK j \in at : \A k \in at : j <= k
    BY <2>4, <2>5, Least
  <2>7. (CHOOSE m \in at : \A k \in at : m <= k) \in at
    BY <2>6
  <2>8. QED
    BY <2>3, <2>4, <2>5, <2>7 DEF Supplied
<1>8. QED
  BY <1>5, <1>6, <1>7

-----------------------------------------------------------------------------
(* The memory of a transaction                                             *)

\* The calls of a site come in order, and what it saw is known once each ended.
SitesInOrder ==
  /\ \A s \in Sites :
       /\ saw[s] = [bind |-> saw[s].bind, init |-> saw[s].init]
       /\ site[s] \in {"new", "binding"} => saw[s].bind = Forgotten
       /\ site[s] # "done" => saw[s].init = Forgotten
       /\ looked[s] => site[s] \in {"binding", "scanning"} /\ ~autocommit
  /\ \A s, t \in Sites : site[s] = "binding" /\ site[t] = "binding" => s = t
  /\ \A s \in Sites : site[s] = "binding" => ~ended

\* What is stored is the seed of a site that asked for the key.
StoredSeeds ==
  \A k \in M!Keys : memory[k] # Forgotten =>
    \E t \in Sites : KeyOf[t] = k /\ memory[k] = SeedOf[t]

\* While the transaction runs and its scope is whole, a key holds what every
\* bound site of it saw, and only a bind can find it empty: a scan never
\* writes, so nothing it could write over is there.
Remembered ==
  ~autocommit /\ ~lost /\ ~ended =>
    \A s \in Sites :
      /\ site[s] \in {"bound", "scanning", "done"} =>
           memory[KeyOf[s]] = saw[s].bind /\ memory[KeyOf[s]] # Forgotten
      /\ looked[s] => site[s] = "binding" /\ memory[KeyOf[s]] = Forgotten

MemoryTypes ==
  /\ DOMAIN memory = M!Keys /\ memory = [k \in M!Keys |-> memory[k]]
  /\ site \in [Sites -> {"new", "binding", "bound", "scanning", "done"}]
  /\ looked \in [Sites -> BOOLEAN]
  /\ saw = [s \in Sites |-> saw[s]]
  /\ autocommit \in BOOLEAN /\ ended \in BOOLEAN /\ lost \in BOOLEAN

MInv == /\ MemoryTypes /\ SitesInOrder /\ StoredSeeds /\ Remembered
        /\ OneAnswerPerTransaction

LEMMA KeysOfSites == \A s \in Sites : KeyOf[s] \in M!Keys
  BY DEF M!Keys

LEMMA MemoryInit == M!Init => MInv
<1> SUFFICES ASSUME M!Init PROVE MInv
  OBVIOUS
<1> USE DEF M!Init, M!Empty
<1>1. MemoryTypes
  BY DEF MemoryTypes
<1>2. SitesInOrder /\ StoredSeeds /\ Remembered
  BY KeysOfSites DEF SitesInOrder, StoredSeeds, Remembered
<1>3. OneAnswerPerTransaction
  BY DEF OneAnswerPerTransaction, M!OneAnswerPerTransaction
<1>4. QED
  BY <1>1, <1>2, <1>3 DEF MInv

\* A call of resolve ends with v, found in the scope or put there.
LEMMA Resolving ==
  ASSUME MInv, NEW s \in Sites, NEW v, v # Forgotten,
         site[s] \in {"binding", "scanning"},
         site' = [site EXCEPT ![s] = M!After(s)],
         saw' = [saw EXCEPT ![s][M!CallOf(s)] = v],
         looked' = [looked EXCEPT ![s] = FALSE],
         memory' = [memory EXCEPT ![KeyOf[s]] = IF autocommit THEN @ ELSE v],
         UNCHANGED <<autocommit, ended, lost>>,
         ~autocommit => \E t \in Sites : KeyOf[t] = KeyOf[s] /\ v = SeedOf[t],
         ~autocommit /\ ~lost /\ ~ended =>
           \/ memory[KeyOf[s]] = v
           \/ memory[KeyOf[s]] = Forgotten /\ site[s] = "binding"
  PROVE  MInv'
<1>1. MemoryTypes /\ SitesInOrder /\ StoredSeeds /\ Remembered
  BY DEF MInv
<1>2. saw[s] = [bind |-> saw[s].bind, init |-> saw[s].init]
  BY <1>1 DEF SitesInOrder
<1>3. /\ site'[s] = IF site[s] = "binding" THEN "bound" ELSE "done"
      /\ \A t \in Sites \ {s} : site'[t] = site[t]
      /\ site' \in [Sites -> {"new", "binding", "bound", "scanning", "done"}]
  BY <1>1 DEF MemoryTypes, M!After
<1>4. /\ saw'[s] = [bind |-> IF site[s] = "binding" THEN v ELSE saw[s].bind,
                    init |-> IF site[s] = "binding" THEN saw[s].init ELSE v]
      /\ \A t \in Sites \ {s} : saw'[t] = saw[t]
      /\ saw' = [t \in Sites |-> saw'[t]]
  <2>1. CASE site[s] = "binding"
    BY <1>1, <1>2, <2>1 DEF MemoryTypes, M!CallOf
  <2>2. CASE site[s] # "binding"
    BY <1>1, <1>2, <2>2 DEF MemoryTypes, M!CallOf
  <2>3. QED
    BY <2>1, <2>2
<1>5. /\ ~looked'[s] /\ \A t \in Sites \ {s} : looked'[t] = looked[t]
      /\ looked' \in [Sites -> BOOLEAN]
  BY <1>1 DEF MemoryTypes
<1>6. /\ ~autocommit => memory'[KeyOf[s]] = v
      /\ autocommit => memory'[KeyOf[s]] = memory[KeyOf[s]]
      /\ \A k \in M!Keys \ {KeyOf[s]} : memory'[k] = memory[k]
      /\ DOMAIN memory' = M!Keys /\ memory' = [k \in M!Keys |-> memory'[k]]
  BY <1>1, KeysOfSites DEF MemoryTypes
<1>7. MemoryTypes'
  BY <1>1, <1>3, <1>4, <1>5, <1>6 DEF MemoryTypes
<1>8. SitesInOrder'
  <2>1. /\ saw'[s] = [bind |-> saw'[s].bind, init |-> saw'[s].init]
        /\ site'[s] \in {"bound", "done"} /\ ~looked'[s]
        /\ site'[s] = "bound" => saw'[s].init = Forgotten
    <3>1. saw'[s] = [bind |-> saw'[s].bind, init |-> saw'[s].init]
      BY <1>4
    <3>2. site[s] # "done" => saw[s].init = Forgotten
      BY <1>1 DEF SitesInOrder
    <3>3. site[s] = "binding" => saw'[s].init = Forgotten
      BY <1>4, <3>2
    <3>4. QED
      BY <1>3, <1>5, <3>1, <3>3
  <2>2. \A t \in Sites \ {s} :
          /\ saw'[t] = [bind |-> saw'[t].bind, init |-> saw'[t].init]
          /\ site'[t] \in {"new", "binding"} => saw'[t].bind = Forgotten
          /\ site'[t] # "done" => saw'[t].init = Forgotten
          /\ looked'[t] => site'[t] \in {"binding", "scanning"} /\ ~autocommit
          /\ site'[t] = "binding" => ~ended
    BY <1>1, <1>3, <1>4, <1>5 DEF SitesInOrder
  <2>3. \A t, u \in Sites : site'[t] = "binding" /\ site'[u] = "binding" => t = u
    BY <1>1, <1>3, <2>1 DEF SitesInOrder
  <2>4. QED
    BY <2>1, <2>2, <2>3 DEF SitesInOrder
<1>9. StoredSeeds'
  BY <1>1, <1>6 DEF StoredSeeds
<1>10. Remembered'
  <2> SUFFICES ASSUME ~autocommit, ~lost, ~ended, NEW t \in Sites
               PROVE  /\ site'[t] \in {"bound", "scanning", "done"} =>
                           /\ memory'[KeyOf[t]] = saw'[t].bind
                           /\ memory'[KeyOf[t]] # Forgotten
                      /\ looked'[t] => site'[t] = "binding"
                                       /\ memory'[KeyOf[t]] = Forgotten
    BY DEF Remembered
  <2>1. CASE t = s
    BY <1>1, <1>3, <1>4, <1>5, <1>6, <2>1 DEF Remembered
  <2>2. CASE t # s /\ KeyOf[t] = KeyOf[s]
    BY <1>1, <1>3, <1>4, <1>5, <1>6, <2>2 DEF Remembered, SitesInOrder
  <2>3. CASE KeyOf[t] # KeyOf[s]
    BY <1>1, <1>3, <1>4, <1>5, <1>6, <2>3, KeysOfSites DEF Remembered
  <2>4. QED
    BY <2>1, <2>2, <2>3
<1>11. OneAnswerPerTransaction'
  <2> SUFFICES ASSUME ~autocommit, ~lost
      PROVE  /\ \A t, u \in Sites : KeyOf[t] = KeyOf[u]
                    /\ Forgotten \notin {saw'[t].bind, saw'[u].bind}
                    => saw'[t].bind = saw'[u].bind
             /\ \A t \in Sites : saw'[t].init # Forgotten
                    /\ saw'[t].init # saw'[t].bind
                    => ended /\ \E u \in Sites : KeyOf[u] = KeyOf[t]
                                                 /\ saw'[t].init = SeedOf[u]
    BY DEF OneAnswerPerTransaction, M!OneAnswerPerTransaction
  <2>1. /\ \A t, u \in Sites : KeyOf[t] = KeyOf[u]
                /\ Forgotten \notin {saw[t].bind, saw[u].bind}
                => saw[t].bind = saw[u].bind
        /\ \A t \in Sites : saw[t].init # Forgotten
                /\ saw[t].init # saw[t].bind
                => ended /\ \E u \in Sites : KeyOf[u] = KeyOf[t]
                                             /\ saw[t].init = SeedOf[u]
    BY DEF MInv, OneAnswerPerTransaction, M!OneAnswerPerTransaction
  <2>2. CASE site[s] = "binding"
    <3>1. ~ended
      BY <1>1, <2>2 DEF SitesInOrder
    <3>2. \A t \in Sites \ {s} : KeyOf[t] = KeyOf[s] /\ saw[t].bind # Forgotten
                                 => saw[t].bind = v
      BY <1>1, <2>2, <3>1 DEF Remembered, SitesInOrder, MemoryTypes
    <3>3. saw'[s].bind = v /\ saw'[s].init = Forgotten
      BY <1>1, <1>4, <2>2 DEF SitesInOrder
    <3>4. QED
      BY <1>4, <2>1, <3>2, <3>3
  <2>3. CASE site[s] = "scanning"
    <3>1. saw'[s].bind = saw[s].bind /\ saw'[s].init = v
      BY <1>4, <2>3
    <3>2. ~ended => v = saw[s].bind
      BY <1>1, <2>3 DEF Remembered
    <3>3. QED
      BY <1>4, <2>1, <3>1, <3>2
  <2>4. QED
    BY <2>2, <2>3
<1>12. QED
  BY <1>7, <1>8, <1>9, <1>10, <1>11 DEF MInv

LEMMA MemoryStep == MInv /\ [M!Next]_memVars => MInv'
<1> SUFFICES ASSUME MInv, [M!Next]_memVars PROVE MInv'
  OBVIOUS
<1>1. MemoryTypes /\ SitesInOrder /\ StoredSeeds /\ Remembered
  BY DEF MInv
<1>2. \A s \in Sites : SeedOf[s] # Forgotten
  BY SessionAssumption DEF M!TransactionMemoryAssumption
<1>3. ASSUME UNCHANGED <<autocommit, saw, lost>>, ended => ended'
      PROVE  OneAnswerPerTransaction'
  BY <1>3 DEF MInv, OneAnswerPerTransaction, M!OneAnswerPerTransaction
<1>4. ASSUME NEW s \in Sites, M!CallBind(s) PROVE MInv'
  <2>1. /\ site[s] = "new" /\ ~ended /\ \A t \in Sites : site[t] # "binding"
        /\ site' = [site EXCEPT ![s] = "binding"]
        /\ UNCHANGED <<autocommit, ended, memory, looked, saw, lost>>
    BY <1>4 DEF M!CallBind
  <2>2. MemoryTypes' /\ SitesInOrder' /\ StoredSeeds'
    BY <1>1, <2>1 DEF MemoryTypes, SitesInOrder, StoredSeeds
  <2>3. Remembered'
    BY <1>1, <2>1 DEF MemoryTypes, SitesInOrder, Remembered
  <2>4. QED
    BY <1>3, <2>1, <2>2, <2>3 DEF MInv
<1>5. ASSUME NEW s \in Sites, M!CallInit(s) PROVE MInv'
  <2>1. /\ site[s] = "bound" /\ ~ended
        /\ site' = [site EXCEPT ![s] = "scanning"]
        /\ UNCHANGED <<autocommit, ended, memory, looked, saw, lost>>
    BY <1>5 DEF M!CallInit
  <2>2. MemoryTypes' /\ SitesInOrder' /\ StoredSeeds'
    BY <1>1, <2>1 DEF MemoryTypes, SitesInOrder, StoredSeeds
  <2>3. Remembered'
    BY <1>1, <2>1 DEF MemoryTypes, SitesInOrder, Remembered
  <2>4. QED
    BY <1>3, <2>1, <2>2, <2>3 DEF MInv
<1>6. ASSUME NEW s \in Sites, M!ResolveGet(s) PROVE MInv'
  <2>1. /\ site[s] \in {"binding", "scanning"} /\ ~looked[s] /\ ~autocommit
        /\ UNCHANGED <<autocommit, ended, memory, lost>>
    BY <1>6 DEF M!ResolveGet
  <2>2. CASE memory[KeyOf[s]] = Forgotten
    <3>1. /\ looked' = [looked EXCEPT ![s] = TRUE] /\ UNCHANGED <<site, saw>>
      BY <1>6, <2>2 DEF M!ResolveGet
    <3>2. MemoryTypes' /\ SitesInOrder' /\ StoredSeeds'
      BY <1>1, <2>1, <3>1 DEF MemoryTypes, SitesInOrder, StoredSeeds
    <3>3. Remembered'
      BY <1>1, <2>1, <2>2, <3>1 DEF MemoryTypes, Remembered
    <3>4. QED
      BY <1>3, <2>1, <3>1, <3>2, <3>3 DEF MInv
  <2>3. CASE memory[KeyOf[s]] # Forgotten
    <3>1. /\ saw' = [saw EXCEPT ![s][M!CallOf(s)] = memory[KeyOf[s]]]
          /\ site' = [site EXCEPT ![s] = M!After(s)] /\ looked' = looked
      BY <1>6, <2>3 DEF M!ResolveGet
    <3>2. /\ looked' = [looked EXCEPT ![s] = FALSE]
          /\ memory' = [memory EXCEPT ![KeyOf[s]] =
                          IF autocommit THEN @ ELSE memory[KeyOf[s]]]
      BY <1>1, <2>1, <3>1 DEF MemoryTypes
    <3>3. \E t \in Sites : KeyOf[t] = KeyOf[s] /\ memory[KeyOf[s]] = SeedOf[t]
      BY <1>1, <2>3, KeysOfSites DEF StoredSeeds
    <3>4. QED
      BY <2>1, <2>3, <3>1, <3>2, <3>3, Resolving
  <2>4. QED
    BY <2>2, <2>3
<1>7. ASSUME NEW s \in Sites, M!ResolvePut(s) PROVE MInv'
  <2>1. /\ looked[s] /\ memory' = [memory EXCEPT ![KeyOf[s]] = SeedOf[s]]
        /\ saw' = [saw EXCEPT ![s][M!CallOf(s)] = SeedOf[s]]
        /\ site' = [site EXCEPT ![s] = M!After(s)]
        /\ looked' = [looked EXCEPT ![s] = FALSE]
        /\ UNCHANGED <<autocommit, ended, lost>>
    BY <1>7 DEF M!ResolvePut
  <2>2. site[s] \in {"binding", "scanning"} /\ ~autocommit
    BY <1>1, <2>1 DEF SitesInOrder
  <2>3. ~lost /\ ~ended => memory[KeyOf[s]] = Forgotten /\ site[s] = "binding"
    BY <1>1, <2>1, <2>2 DEF Remembered
  <2>4. memory' = [memory EXCEPT ![KeyOf[s]] = IF autocommit THEN @ ELSE SeedOf[s]]
    BY <2>1, <2>2
  <2>5. QED
    BY <1>2, <2>1, <2>2, <2>3, <2>4, Resolving
<1>8. ASSUME NEW s \in Sites, M!ResolveSeed(s) PROVE MInv'
  <2>1. /\ site[s] \in {"binding", "scanning"} /\ autocommit
        /\ saw' = [saw EXCEPT ![s][M!CallOf(s)] = SeedOf[s]]
        /\ site' = [site EXCEPT ![s] = M!After(s)]
        /\ UNCHANGED <<autocommit, ended, memory, looked, lost>>
    BY <1>8 DEF M!ResolveSeed
  <2>2. /\ looked' = [looked EXCEPT ![s] = FALSE]
        /\ memory' = [memory EXCEPT ![KeyOf[s]] = IF autocommit THEN @ ELSE SeedOf[s]]
    BY <1>1, <2>1 DEF MemoryTypes, SitesInOrder
  <2>3. QED
    BY <1>2, <2>1, <2>2, Resolving
<1>9. ASSUME M!End PROVE MInv'
  <2>1. /\ ended' = TRUE /\ memory' = M!Empty
        /\ \A s \in Sites : site[s] # "binding"
        /\ UNCHANGED <<autocommit, site, looked, saw, lost>>
    BY <1>9 DEF M!End
  <2>2. MemoryTypes' /\ SitesInOrder' /\ StoredSeeds' /\ Remembered'
    BY <1>1, <2>1 DEF MemoryTypes, SitesInOrder, StoredSeeds, Remembered, M!Empty
  <2>3. QED
    BY <1>3, <2>1, <2>2 DEF MInv
<1>10. ASSUME M!SweepMemory PROVE MInv'
  <2>1. /\ memory' = M!Empty /\ lost' = (lost \/ ~ended)
        /\ UNCHANGED <<autocommit, ended, site, looked, saw>>
    BY <1>10 DEF M!SweepMemory
  <2>2. MemoryTypes' /\ SitesInOrder' /\ StoredSeeds'
    BY <1>1, <2>1 DEF MemoryTypes, SitesInOrder, StoredSeeds, M!Empty
  <2>3. Remembered'
    BY <2>1 DEF Remembered
  <2>4. OneAnswerPerTransaction'
    BY <2>1 DEF MInv, OneAnswerPerTransaction, M!OneAnswerPerTransaction
  <2>5. QED
    BY <2>2, <2>3, <2>4 DEF MInv
<1>11. ASSUME M!Age \/ UNCHANGED memVars PROVE MInv'
  <2>1. UNCHANGED <<autocommit, ended, memory, site, looked, saw, lost>>
    BY <1>11 DEF M!Age, memVars
  <2>2. MemoryTypes' /\ SitesInOrder' /\ StoredSeeds' /\ Remembered'
    BY <1>1, <2>1 DEF MemoryTypes, SitesInOrder, StoredSeeds, Remembered
  <2>3. QED
    BY <1>3, <2>1, <2>2 DEF MInv
<1>12. QED
  BY <1>4, <1>5, <1>6, <1>7, <1>8, <1>9, <1>10, <1>11 DEF M!Next

\* Whichever processes serve the calls and in whatever order they read and
\* write the scope: while the transaction runs, all binds and scans of a key
\* resolve the one value.
THEOREM OneAnswer == SessionSpec => []OneAnswerPerTransaction
<1>1. SessionInit => MInv
  BY MemoryInit DEF SessionInit
<1>2. MInv /\ [SessionNext]_sessionVars => MInv'
  BY MemoryStep DEF SessionNext, Attachment, Remember, Reclaim, sessionVars
<1>3. MInv => OneAnswerPerTransaction
  BY DEF MInv
<1>4. QED
  BY <1>1, <1>2, <1>3, PTL DEF SessionSpec, SessionSafety
-----------------------------------------------------------------------------
(* The sweep of scopes                                                     *)

\* The directory of a scope is as fresh as the key in it, and a sweeper that
\* condemned the scope saw no fresher key there: one that is there now was put
\* since.
ScopeInv ==
  /\ dirAge \in S!Ages /\ kvAge \in S!Ages
  /\ kvAge <= SweepDay => dirAge <= kvAge
  /\ look \in [Sweepers -> {"none", "stale"}]
  /\ \A s \in Sweepers : look[s] = "stale" => kvAge > SweepDay \/ s \in late

LEMMA ScopeStep == ScopeInv /\ [S!Next]_scopeVars => ScopeInv'
<1> SUFFICES ASSUME ScopeInv, [S!Next]_scopeVars PROVE ScopeInv'
  OBVIOUS
<1>1. SweepDay \in Nat \ {0}
  BY SessionAssumption DEF S!DayAssumption
<1> USE <1>1 DEF ScopeInv, S!Ages, S!Old
<1>2. CASE S!KvPut \/ S!KvDel \/ S!Append
  BY <1>2 DEF S!KvPut, S!KvDel, S!Append
<1>3. CASE S!Clear \/ S!Abandon \/ UNCHANGED scopeVars
  BY <1>3 DEF S!Clear, S!Abandon, scopeVars
<1>4. CASE S!Tick
  BY <1>4 DEF S!Tick, S!Older
<1>5. ASSUME NEW s \in Sweepers, S!Look(s) PROVE ScopeInv'
  BY <1>5 DEF S!Look
<1>6. ASSUME NEW s \in Sweepers, S!Sweep(s) PROVE ScopeInv'
  BY <1>6 DEF S!Sweep
<1>7. QED
  BY <1>2, <1>3, <1>4, <1>5, <1>6 DEF S!Next

\* In whatever order any number of starting workers look, remove and put: what
\* sweep_stale removes holds no key put within the day, but for one put between
\* the look and the removal of that very worker.
THEOREM SweepIsSafe == SessionSpec => SweepSparesFreshKeys
<1>1. SessionInit => ScopeInv
  BY SessionAssumption DEF SessionInit, S!Init, ScopeInv, S!Ages, S!Old, S!DayAssumption
<1>2. ScopeInv /\ [SessionNext]_sessionVars => ScopeInv'
  BY ScopeStep DEF SessionNext, Attachment, Remember, Reclaim, sessionVars
<1>3. ScopeInv =>
        [\A s \in Sweepers : look[s] = "stale" /\ look'[s] = "none"
                             => kvAge > SweepDay \/ s \in late]_(S!vars)
  BY DEF ScopeInv
<1>4. QED
  BY <1>1, <1>2, <1>3, PTL
     DEF SessionSpec, SessionSafety, SweepSparesFreshKeys, S!SweepSparesFreshKeys

-----------------------------------------------------------------------------
(* Attachments and tickets in a session                                    *)

LEMMA AttachmentsInvariant == SessionSpec => []AInv
<1>1. AttachmentsAssumption
  BY SessionAssumption
<1>2. SessionInit => AInv
  BY <1>1, AttachmentsInit DEF SessionInit
<1>3. AInv /\ [SessionNext]_sessionVars => AInv'
  BY <1>1, AttachmentsStep DEF SessionNext, Attachment, Remember, Reclaim, sessionVars
<1>4. QED
  BY <1>2, <1>3, PTL DEF SessionSpec, SessionSafety

\* On every process of the pool, restarted or not, a call is served under what
\* its ATTACH settled; only swept secret options may be missing.
THEOREM ServedAsMade == SessionSpec => []ServedAsAttached
  BY AttachmentsInvariant, CallsAreServed, PTL

\* A value opens for its caller, under its key, at any depth of a request, and
\* a transaction's only beside the attach it was begun under.
THEOREM SealsHold == SessionSpec => []OpensForItsCaller
  BY AttachmentsInvariant, ValuesOpen, PTL

\* On a transport that does not seal, a value is what it would have been with
\* the secrets of its ATTACH blank, in whatever case they were spelled.
THEOREM SecretsStayHome == SessionSpec => []NoSecretOnTheWire
  BY AttachmentsInvariant, WireIsSafe, PTL

\* An ATTACH by ticket settles what the sealed one would have.
THEOREM TicketIsSound == SessionSpec => []TicketIsTheAttach
<1>1. AInv => TicketIsTheAttach
  BY TicketsAttach, SessionAssumption
<1>2. QED
  BY <1>1, AttachmentsInvariant, PTL

\* A ticket is honoured on every worker while it lives, for its caller and
\* alone, and dies within twice the skew of its end.
THEOREM TicketExpires == SessionSpec => []TicketLifetime
<1>1. AInv => TicketLifetime
  BY TicketsLive, SessionAssumption
<1>2. QED
  BY <1>1, AttachmentsInvariant, PTL
=============================================================================
