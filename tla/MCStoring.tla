----------------------------- MODULE MCStoring -----------------------------
(* Everything the modules may hand over, and a small project.                *)
EXTENDS Storing, TLC

F == INSTANCE Findings

MCReporter == F!Functions
MCMayReport(fn) == F!Outputs(fn)

\* Names t, a and b, of which b, the target, belongs to a and has a property.
MCName == {"t", "a", "b"}
MCAnchorOf == ("t" :> {}) @@ ("a" :> {}) @@ ("b" :> {"a"})
MCProperties == {<<"b", "p">>}

\* Function f takes everything, and g the target.
MCInput == ("f" :> {<<n>> : n \in MCName} \cup MCProperties) @@ ("g" :> {<<"b">>})
=============================================================================
