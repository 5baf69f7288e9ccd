------------------------------ MODULE MCSession ------------------------------
(* A small instance of Session.                                            *)
EXTENDS Session

MCFold(name) == IF name = "TOKEN" THEN "token" ELSE name

Option(name, default, required, secret) ==
  [name |-> name, default |-> default, required |-> required, secret |-> secret]

\* A catalog of versioned shapes, one with a secret and a required option, and
\* a memory catalog.  0.9.9 is listed and kept for nothing.
MCModels ==
  [versions |-> [memory |-> FALSE, npm |-> TRUE, default |-> <<1, 1, 0>>,
                 versions |-> <<<<1, 0, 0>>, <<2, 0, 1>>, <<1, 1, 0>>, <<1, 1, 2>>, <<0, 9, 9>>>>,
                 shapes |-> {<<1, 0, 0>>, <<1, 1, 0>>, <<1, 1, 2>>, <<2, 0, 1>>},
                 impl |-> <<3, 0, 0>>, impls |-> <<>>, options |-> <<>>],
   options |-> [memory |-> FALSE, npm |-> FALSE, default |-> NoVersion, versions |-> <<>>,
                shapes |-> {}, impl |-> NoVersion, impls |-> <<>>,
                options |-> <<Option("token", None, FALSE, TRUE), Option("region", "eu", FALSE, FALSE),
                              Option("tenant", None, TRUE, FALSE)>>],
   scratch |-> [memory |-> TRUE, options |-> <<>>]]

MCUncastable == {"bad"}
Ask(name, form, v, options) ==
  [name |-> name, spec |-> [form |-> form, v |-> v],
   impl |-> [form |-> "absent", v |-> NoVersion], options |-> options]
Plain(name, options) == Ask(name, "absent", NoVersion, options)
Given(name, value) == [name |-> name, value |-> value]

\* Ranges, an alias, refusals of each kind, options in another case and of the
\* wrong type, and the ticket alone and beside another option.
MCRequests ==
  {Ask("versions", "caret", <<1, 0, 0>>, <<>>), Ask("versions", "exact", <<0, 9, 9>>, <<>>),
   Plain("alias", <<>>), Plain("scratch", <<>>),
   [Plain("versions", <<>>) EXCEPT !.impl = [form |-> "exact", v |-> <<9, 9, 9>>]],
   Plain("options", <<>>),
   Plain("options", <<Given("TOKEN", "s3"), Given("tenant", "t")>>),
   Plain("options", <<Given("tenant", "bad")>>),
   Plain("alias", <<Given("vgi_attach_ticket", "the ticket")>>),
   Plain("options", <<Given("vgi_attach_ticket", "the ticket"), Given("tenant", "t")>>)}

Pool(transport, signing, grants, ceiling) ==
  [transport |-> transport, signing |-> signing, grants |-> grants, ceiling |-> ceiling]
MCSetups ==
  {Pool("pipe", FALSE, FALSE, NoExpiry), Pool("http", TRUE, TRUE, 2),
   Pool("http", FALSE, FALSE, NoExpiry), Pool("iroh_tcp", TRUE, FALSE, NoExpiry)}

MCKeyOf == [a |-> "k", b |-> "k", c |-> "l"]
MCSeedOf == [a |-> 1, b |-> 2, c |-> 3]
=============================================================================
