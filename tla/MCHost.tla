------------------------------- MODULE MCHost -------------------------------
(* Host on small instances: three ids, two processes and one project, three  *)
(* updates, three functions, and two files of scope rules.                   *)
EXTENDS Host

\* A module of functions f and g, of which g is new in a later version, and a
\* module that is new with it.
CONSTANTS f, g, h

MCFunc == {f, g, h}
MCLate == {g, h}
MCModule == {{f, g}, {h}}

\* Rules on a domain and a subdomain of it, and on a network and an address in it.
domain == <<"example">>
subdomain == <<"api", "example">>
address == <<"10.0.1.1">>
other == <<"10.0.2.1">>
Block(es) == [allow |-> FALSE, of |-> es]
Allow(es) == [allow |-> TRUE, of |-> es]

MCRuleName == {domain, subdomain}
MCOther == {address, other}
MCContents == {{Block({domain})}, {Block({domain}), Allow({subdomain})},
               {Block({address, other}), Allow({address})}}
=============================================================================
