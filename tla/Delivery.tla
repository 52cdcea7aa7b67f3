------------------------------ MODULE Delivery ------------------------------
(***************************************************************************)
(* What a module may rely on when it hands over an output: in one go its   *)
(* results are stored, every one of them once and below an entity that its *)
(* source may mean; or they are given up, which happens only when a source *)
(* means no entity, or one of several.                                     *)
(***************************************************************************)
CONSTANTS
    Contents(_),  \* the results of an output that are to be stored
    Meant(_)      \* for each of them, the entities that its source may mean

VARIABLES output, status, stored

vars == <<output, status, stored>>

\* Every source means one entity.
Clear(o) ==
    LET meant == Meant(o) IN \A r \in Contents(o) : \E e \in meant[r] : meant[r] = {e}

Init == status = "open" /\ stored = {}

Deliver ==
    /\ status = "open" /\ status' = "stored"
    /\ {s.result : s \in stored'} = Contents(output)
    /\ LET meant == Meant(output) IN \A s \in stored' : s.at \in meant[s.result]
    /\ \A s, t \in stored' : s.result = t.result => s = t
    /\ UNCHANGED output

GiveUp ==
    /\ status = "open" /\ status' = "given up"
    /\ ~Clear(output)
    /\ UNCHANGED <<output, stored>>

Next == Deliver \/ GiveUp

Spec == Init /\ [][Next]_vars
=============================================================================
