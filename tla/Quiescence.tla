----------------------------- MODULE Quiescence -----------------------------
(***************************************************************************)
(* What the token protocol of pipeline.Run promises, without channels and  *)
(* counters: work is worked off, work may lead to more work, new work may  *)
(* be brought in (a resumed scope) as long as the gate is open, and the    *)
(* gate is closed only when nothing is being worked on.  Once it is        *)
(* closed it stays closed and nothing starts again; it is closed in the    *)
(* end.                                                                    *)
(***************************************************************************)
CONSTANT Work

VARIABLES
    active,     \* the work in progress
    open        \* the gate: more work may come

qvars == <<active, open>>

Init == active \in (SUBSET Work) \ {{}} /\ open = TRUE

\* Progress of active work: some ends, some new work may come of it.
Progress ==
    /\ active # {}
    /\ open
    /\ active' \in SUBSET Work
    /\ UNCHANGED open

\* Nothing is active, and new work is brought in.
Bring ==
    /\ active = {}
    /\ open
    /\ active' \in (SUBSET Work) \ {{}}
    /\ UNCHANGED open

Shut ==
    /\ active = {}
    /\ open
    /\ open' = FALSE
    /\ UNCHANGED active

Next == Progress \/ Bring \/ Shut

SafeSpec == Init /\ [][Next]_qvars

\* The gate is shut in the end.
Spec == SafeSpec /\ <>(~open)
=============================================================================
