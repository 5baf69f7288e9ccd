---------------------------- MODULE AttachOptions ----------------------------
(***************************************************************************)
(* The options of an attachment: merging what the ATTACH statement set     *)
(* into what the catalog declares, and keeping the secret ones off an      *)
(* unsealed wire (src/catalog.cpp: merge_attach_options, seal_attachment,  *)
(* attachment_of, restore_secret_options).                                 *)
(*                                                                         *)
(* A declared option is [name, default, required, secret], the supplied    *)
(* ones a sequence of [name, value]; options in force are a function from  *)
(* names to values, null included.                                         *)
(***************************************************************************)
EXTENDS Naturals, Sequences

CONSTANTS
  Fold(_),      \* a name in lower case
  None,         \* no default value
  Null,         \* a NULL value
  Uncastable    \* supplied values the declared type refuses

NoOptions == [n \in {} |-> Null]
NamesOf(specs) == {specs[i].name : i \in DOMAIN specs}
SecretNames(specs) == {specs[i].name : i \in {j \in DOMAIN specs : specs[j].secret}}
SpecOf(specs, n) == specs[CHOOSE i \in DOMAIN specs : specs[i].name = n]

\* equals_ignore_case; the first column that matches.
ColumnsFor(supplied, name) ==
  {i \in DOMAIN supplied : Fold(supplied[i].name) = Fold(name)}
Supplied(supplied, name) ==
  supplied[CHOOSE i \in ColumnsFor(supplied, name) :
             \A j \in ColumnsFor(supplied, name) : i <= j].value

\* Whether merge_attach_options throws: a cast that fails, or a required
\* option with neither a supplied column nor a default.
merge_refuses(specs, supplied) ==
  \E i \in DOMAIN specs :
    LET o == specs[i] IN
    IF ColumnsFor(supplied, o.name) # {} THEN Supplied(supplied, o.name) \in Uncastable
    ELSE o.default = None /\ o.required

\* Mutant: an option that was supplied keeps the spelling of the statement.
merge_as_spelled(specs, supplied) ==
  LET spelled(n) == IF ColumnsFor(supplied, n) = {} THEN n
                    ELSE supplied[CHOOSE i \in ColumnsFor(supplied, n) : TRUE].name
      declared(m) == CHOOSE n \in NamesOf(specs) : spelled(n) = m
  IN [m \in {spelled(n) : n \in NamesOf(specs)} |->
       IF ColumnsFor(supplied, m) # {} THEN Supplied(supplied, m)
       ELSE IF SpecOf(specs, declared(m)).default # None THEN SpecOf(specs, declared(m)).default
       ELSE Null]

\* Every column is named as it is declared, whatever the statement spelled.
merge_attach_options(specs, supplied) ==
  [n \in NamesOf(specs) |->
    IF ColumnsFor(supplied, n) # {} THEN Supplied(supplied, n)
    ELSE IF SpecOf(specs, n).default # None THEN SpecOf(specs, n).default ELSE Null]

\* seal_attachment: what the attach value carries, and what goes to the store
\* under the attachment's id instead.
Carried(specs, options, sealing) ==
  IF sealing THEN options
  ELSE [n \in DOMAIN options \ SecretNames(specs) |-> options[n]]
KeptBack(specs, options, sealing) ==
  IF sealing THEN NoOptions
  ELSE [n \in DOMAIN options \cap SecretNames(specs) |-> options[n]]

\* What the ATTACH statement would have been with its secrets blank: a column
\* that no plain option takes is for a secret one, in whatever case.
Blanked(specs, supplied) ==
  LET plain == {Fold(n) : n \in NamesOf(specs) \ SecretNames(specs)} IN
  [i \in DOMAIN supplied |->
    IF Fold(supplied[i].name) \in plain THEN supplied[i]
    ELSE [name |-> supplied[i].name, value |-> Null]]

\* Mutant: a secret option the value left out is not looked up.
RestoredAsCarried(specs, carried, stored) == carried

\* restore_secret_options: only if a secret option is missing, and then
\* whatever of it the store still has.
restore_secret_options(specs, carried, stored) ==
  LET wants == SecretNames(specs) \ DOMAIN carried # {}
      names == {n \in NamesOf(specs) : n \in DOMAIN carried \/ n \in DOMAIN stored}
  IN IF ~wants \/ stored = NoOptions THEN carried
     ELSE [n \in names |-> IF n \in DOMAIN carried THEN carried[n] ELSE stored[n]]
=============================================================================
