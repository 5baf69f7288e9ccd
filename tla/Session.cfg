SPECIFICATION SessionSpec
CONSTANTS
  Fold <- MCFold
  None = None
  Null = Null
  Uncastable <- MCUncastable
  TicketOption = "vgi_attach_ticket"
  Anonymous = Anonymous
  NoTicketKey = NoTicketKey
  NoExpiry = NoExpiry
  ClockSkew = 1
  NoKey = NoKey
  Workers = {"w1", "w2"}
  Callers = {"alice", "bob"}
  Setups <- MCSetups
  Models <- MCModels
  Primary = "versions"
  Requests <- MCRequests
  Lifetimes = {0, 1, 3}
  Day = 1
  MaxHeld = 2
  MaxRestarts = 1
  MaxElapsed = 5
  Sites = {"a", "b", "c"}
  KeyOf <- MCKeyOf
  SeedOf <- MCSeedOf
  Forgotten = 0
  MemoryDay = 1
  SweepDay = 3
  Sweepers = {1, 2}
INVARIANTS
  ServedAsAttached
  OpensForItsCaller
  NoSecretOnTheWire
  TicketIsTheAttach
  TicketLifetime
  OneAnswerPerTransaction
PROPERTIES
  EndedIsForgotten
  SweepSparesFreshKeys
  AbandonedIsReclaimed
\* A transaction may be left open.
CHECK_DEADLOCK FALSE
