---------------------------- MODULE MCScopeSync ----------------------------
(* ScopeSync on small instances: the target h, a second domain d, a         *)
(* subdomain of each and an address at d.                                   *)
EXTENDS ScopeSync

CONSTANTS h, d, s, t, a

MCAnchorOf == [e \in Sub \cup Mail |-> IF e = s THEN h ELSE d]

Rules(b, l) == [block |-> b, allow |-> l]

\* Rules on d and what is below it: nothing, d blocked, d blocked but for the
\* subdomain and the address, the subdomain blocked below an allowed d.
NameRules == {Rules({}, {}), Rules({d}, {}), Rules({d}, {t, a}), Rules({t}, {d})}

\* A rule on the subdomain of the target.
HomeRules == {Rules({}, {}), Rules({s}, {})}
=============================================================================
