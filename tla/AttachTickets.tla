---------------------------- MODULE AttachTickets ----------------------------
(***************************************************************************)
(* Attach tickets: a caller seals the ATTACH it would make, and redeems it *)
(* later through the reserved option vgi_attach_ticket                     *)
(* (src/attach_ticket_service.cpp, src/attach_ticket.cpp).                 *)
(*                                                                         *)
(* Times are seconds on the sealing worker's clock since it sealed, so     *)
(* issued_at is 0; expires_at is NoExpiry or after it.  A token's spelling *)
(* (prefix, length, base64url, payload layout) is wellFormed or not.       *)
(***************************************************************************)
EXTENDS AttachOptions, Integers

CONSTANTS
  TicketOption,   \* vgi_attach_ticket, in lower case
  Anonymous,      \* a caller without a principal
  NoTicketKey,    \* no VGI_SIGNING_KEY, or not on HTTP
  NoExpiry,       \* expires_at = 0, and a ceiling that is not configured
  ClockSkew       \* kAttachTicketClockSkewSeconds

is_reserved_attach_option(name) == Fold(name) = TicketOption

\* Mutant: a required option may be left to the redeeming attach.
seal_attach_valid_lax(declared, catalog, supplied, ttl) ==
  /\ ttl >= 0
  /\ catalog \in DOMAIN declared
  /\ \A i \in DOMAIN supplied :
       \E j \in DOMAIN declared[catalog] :
         Fold(declared[catalog][j].name) = Fold(supplied[i].name)

\* seal_attach's violations, none of which may be there.
seal_attach_valid(declared, catalog, supplied, ttl) ==
  LET specs == declared[catalog]
      known == {Fold(n) : n \in NamesOf(specs)}
      given == {Fold(supplied[i].name) : i \in DOMAIN supplied}
  IN /\ ttl >= 0
     /\ catalog \in DOMAIN declared
     /\ \A n \in given : n # TicketOption /\ n \in known
     /\ \A i \in DOMAIN specs : specs[i].required => Fold(specs[i].name) \in given

\* 0 asks for the ceiling; otherwise the request, capped at it.
Lifetime(ttl, ceiling) ==
  CASE ttl = 0 -> ceiling
    [] ttl # 0 /\ ceiling = NoExpiry -> ttl
    [] ttl # 0 /\ ceiling # NoExpiry -> IF ttl <= ceiling THEN ttl ELSE ceiling

\* The claims mint_attach_ticket seals for its caller under the ticket key.
Minted(key, caller, request, lifetime) ==
  [key |-> key, by |-> caller, wellFormed |-> TRUE, expires_at |-> lifetime,
   name |-> request.name, spec |-> request.spec, impl |-> request.impl,
   options |-> request.options]

\* Mutant: the expiry check forgets the skew.
open_attach_ticket_strict(key, caller, ticket, clock) ==
  IF ~ticket.wellFormed \/ caller = Anonymous \/ ticket.key # key \/ ticket.by # caller
  THEN "invalid"
  ELSE IF ticket.expires_at # NoExpiry /\ clock >= ticket.expires_at
  THEN "expired" ELSE "open"
\* open_attach_ticket at `clock`, the redeeming worker's.
open_attach_ticket(key, caller, ticket, clock) ==
  IF ~ticket.wellFormed \/ caller = Anonymous \/ ticket.key # key \/ ticket.by # caller
  THEN "invalid"
  ELSE IF \/ 0 > clock + ClockSkew
          \/ ticket.expires_at # NoExpiry /\ clock >= ticket.expires_at + ClockSkew
  THEN "expired" ELSE "open"

\* The ticket is the first option spelled like one and has to be the only one.
TicketColumns(options) ==
  {i \in DOMAIN options : is_reserved_attach_option(options[i].name)}
TicketOf(options) ==
  options[CHOOSE j \in TicketColumns(options) :
            \A k \in TicketColumns(options) : j <= k].value
RedeemState(key, caller, options, clock) ==
  CASE TicketColumns(options) = {} -> "none"
    [] TicketColumns(options) # {} /\ Len(options) > 1 -> "refused"
    [] TicketColumns(options) # {} /\ Len(options) = 1 /\ key = NoTicketKey -> "invalid"
    [] TicketColumns(options) # {} /\ Len(options) = 1 /\ key # NoTicketKey ->
         open_attach_ticket(key, caller, TicketOf(options), clock)

\* The four columns of a request that a ticket seals.
Restored(request, ticket) ==
  [request EXCEPT !.name = ticket.name, !.spec = ticket.spec, !.impl = ticket.impl,
                  !.options = ticket.options]

\* redeem_attach_ticket: the request catalog_attach then serves, or why not.
redeem_attach_ticket(key, caller, request, clock) ==
  LET state == RedeemState(key, caller, request.options, clock) IN
  [state |-> state,
   request |-> IF state = "open" THEN Restored(request, TicketOf(request.options))
               ELSE request]
=============================================================================
