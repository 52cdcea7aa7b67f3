------------------------------ MODULE Pipeline ------------------------------
(***************************************************************************)
(* One run of the reconnaissance pipeline: pipeline.Run and the token      *)
(* protocol it shares with processor.Process, dispatcher.Dispatch,         *)
(* repository.Store and controller.CheckAndResumeScope.                    *)
(*                                                                         *)
(* Goroutines talk over two unbuffered channels, repoChan and              *)
(* dispatchChan, and count outstanding work in the WaitGroup               *)
(* repoWritersWg.  The closer goroutine closes repoChan once the counter   *)
(* is zero and the scope check has found nothing to resume; the store      *)
(* goroutine then closes dispatchChan; Run returns when both are drained.  *)
(*                                                                         *)
(* A Unit is one count of repoWritersWg.  Over its life it is carried by   *)
(* a result of a packet, an item of a batch, the goroutine of an item or   *)
(* a Process goroutine.  Units are not reused: Unit is the finite amount   *)
(* of work of a run.  What a module returns, which results Store keeps     *)
(* and which items Dispatch skips is left open.                            *)
(***************************************************************************)
EXTENDS Integers, FiniteSets

CONSTANTS
    Unit,       \* the counts a run may ever add to repoWritersWg
    MaxEdits    \* bound on the edits of the scope files during the run

ASSUME UnitAssumption == IsFiniteSet(Unit)
ASSUME EditsAssumption == MaxEdits \in Nat

VARIABLES
    stage,          \* where each unit is
    carry,          \* carry[p]: results in the packet Process p is sending
    hand,           \* results in the packet the store goroutine works on
    payload,        \* payload[s]: batch s is sending on dispatchChan
    repoWritersWg,  \* the counter of the WaitGroup
    closer,         \* control of the closer goroutine
    store,          \* control of the store goroutine
    dispatch,       \* control of the dispatch goroutine
    repoOpen,       \* repoChan has not been closed
    dispatchOpen,   \* dispatchChan has not been closed
    scope           \* scope files and controller.syncedProjects, see Scope

vars == <<stage, carry, hand, payload, repoWritersWg, closer, store,
          dispatch, repoOpen, dispatchOpen, scope>>

Sender == {"injector", "store", "closer"}

Stage == {"fresh", "injected", "proc", "sending", "sent", "result",
          "batched", "item", "dead"}

\* edits: changes the user still may make; stale: the files differ from the
\* rules in memory; synced: syncedProjects holds the current project.
Scope == [edits : 0..MaxEdits, stale : BOOLEAN, synced : BOOLEAN]

-----------------------------------------------------------------------------

At(S) == {u \in Unit : stage[u] \in S}
Fresh == At({"fresh"})
Live == Unit \ At({"fresh", "dead"})

\* The stage function with the units of S moved to stage x.
Moved(f, S, x) == [u \in Unit |-> IF u \in S THEN x ELSE f[u]]

\* WaitGroup.Add(n).  Reaching zero releases the goroutine blocked in Wait.
Add(n) ==
    /\ repoWritersWg' = repoWritersWg + n
    /\ closer' = IF closer = "blocked" /\ repoWritersWg + n = 0
                 THEN "released" ELSE closer

-----------------------------------------------------------------------------
(* Run: the counter is raised before the first goroutine starts.           *)

InjectProcessor ==
    \E u \in Unit :
        /\ stage = [v \in Unit |-> IF v = u THEN "injected" ELSE "fresh"]
        /\ payload = [s \in Sender |-> {}]
        /\ repoWritersWg = 1

InjectDispatcher ==
    \E B \in (SUBSET Unit) \ {{}} :
        /\ stage = [v \in Unit |-> IF v \in B THEN "batched" ELSE "fresh"]
        /\ payload = [s \in Sender |-> IF s = "injector" THEN B ELSE {}]
        /\ repoWritersWg = Cardinality(B)

Init ==
    /\ InjectProcessor \/ InjectDispatcher
    /\ carry = [u \in Unit |-> {}]
    /\ hand = {}
    /\ closer = "wait"
    /\ store = "recv"
    /\ dispatch = "recv"
    /\ repoOpen = TRUE
    /\ dispatchOpen = TRUE
    /\ scope \in Scope

-----------------------------------------------------------------------------
(* processor.Process                                                       *)

\* Mutant: the results are not counted.
BuildUncounted(p, R) ==
    /\ stage[p] \in {"injected", "proc"}
    /\ stage' = Moved(Moved(stage, R, "result"), {p}, "sending")
    /\ carry' = [carry EXCEPT ![p] = R]
    /\ UNCHANGED <<hand, payload, repoWritersWg, closer, store, dispatch, repoOpen, dispatchOpen, scope>>

\* The packet is built and its results are counted before it is sent.
Build(p, R) ==
    /\ stage[p] \in {"injected", "proc"}
    /\ stage' = Moved(Moved(stage, R, "result"), {p}, "sending")
    /\ carry' = [carry EXCEPT ![p] = R]
    /\ Add(Cardinality(R))
    /\ UNCHANGED <<hand, payload, store, dispatch, repoOpen, dispatchOpen, scope>>

\* Nothing to send.  A packet of the dispatcher names the function it
\* requested, which yields a result or an error: only an injected one is empty.
Drop(p) ==
    /\ stage[p] = "injected"
    /\ stage' = [stage EXCEPT ![p] = "dead"]
    /\ Add(-1)
    /\ UNCHANGED <<carry, hand, payload, store, dispatch, repoOpen, dispatchOpen, scope>>

\* The rendezvous on repoChan.
HandOver(p) ==
    /\ stage[p] = "sending"
    /\ store = "recv"
    /\ repoOpen
    /\ stage' = [stage EXCEPT ![p] = "sent"]
    /\ hand' = carry[p]
    /\ carry' = [carry EXCEPT ![p] = {}]
    /\ store' = "store"
    /\ UNCHANGED <<payload, repoWritersWg, closer, dispatch, repoOpen, dispatchOpen, scope>>

\* writersWg.Done() of the sender, while the packet may still be in Store.
Done(p) ==
    /\ stage[p] = "sent"
    /\ stage' = [stage EXCEPT ![p] = "dead"]
    /\ Add(-1)
    /\ UNCHANGED <<carry, hand, payload, store, dispatch, repoOpen, dispatchOpen, scope>>

Process(p) ==
    \/ \E R \in SUBSET Fresh : Build(p, R)
    \/ Drop(p)
    \/ HandOver(p)
    \/ Done(p)

-----------------------------------------------------------------------------
(* dispatcher.Dispatch: one goroutine per item                             *)

\* The item yields no packet: it is out of scope or too deep, no module takes
\* its type, no call is left to make, or every call made has failed.
Skip(i) ==
    /\ stage[i] = "item"
    /\ stage' = [stage EXCEPT ![i] = "dead"]
    /\ Add(-1)
    /\ UNCHANGED <<carry, hand, payload, store, dispatch, repoOpen, dispatchOpen, scope>>

\* Mutant: the count of the item itself is added again.
SpawnCountsAll(i, K) ==
    /\ stage[i] = "item"
    /\ stage' = Moved(stage, K \cup {i}, "proc")
    /\ Add(Cardinality(K) + 1)
    /\ UNCHANGED <<carry, hand, payload, store, dispatch, repoOpen, dispatchOpen, scope>>

\* The item holds one count: its packets but one are added.
Spawn(i, K) ==
    /\ stage[i] = "item"
    /\ stage' = Moved(stage, K \cup {i}, "proc")
    /\ Add(Cardinality(K))
    /\ UNCHANGED <<carry, hand, payload, store, dispatch, repoOpen, dispatchOpen, scope>>

Item(i) == Skip(i) \/ \E K \in SUBSET Fresh : Spawn(i, K)

-----------------------------------------------------------------------------
(* the store goroutine                                                     *)

\* Mutant: the counts of the batch are given back as well.
StoreGivesBackAll(kept) ==
    /\ store = "store"
    /\ stage' = Moved(Moved(stage, hand \ kept, "dead"), kept, "batched")
    /\ hand' = {}
    /\ payload' = [payload EXCEPT !["store"] = kept]
    /\ store' = IF kept = {} THEN "recv" ELSE "forward"
    /\ Add(-Cardinality(hand))
    /\ UNCHANGED <<carry, dispatch, repoOpen, dispatchOpen, scope>>

\* Mutant: nothing is given back when Store returns no batch.
StoreLeaksOnError(kept) ==
    /\ store = "store"
    /\ stage' = Moved(Moved(stage, hand \ kept, "dead"), kept, "batched")
    /\ hand' = {}
    /\ payload' = [payload EXCEPT !["store"] = kept]
    /\ store' = IF kept = {} THEN "recv" ELSE "forward"
    /\ Add(IF kept = {} THEN 0 ELSE -(Cardinality(hand \ kept)))
    /\ UNCHANGED <<carry, dispatch, repoOpen, dispatchOpen, scope>>

\* Mutant: a batch of one item is not forwarded.
StoreForwardsBeyondOne(kept) ==
    /\ store = "store"
    /\ stage' = Moved(Moved(stage, hand \ kept, "dead"), kept, "batched")
    /\ hand' = {}
    /\ payload' = [payload EXCEPT !["store"] = IF Cardinality(kept) > 1 THEN kept ELSE {}]
    /\ store' = IF Cardinality(kept) > 1 THEN "forward" ELSE "recv"
    /\ Add(-(Cardinality(hand \ kept)))
    /\ UNCHANGED <<carry, dispatch, repoOpen, dispatchOpen, scope>>

\* repository.Store returns the batch of the results it kept (none when it
\* fails); the counts of the others are given back.
Store(kept) ==
    /\ store = "store"
    /\ stage' = Moved(Moved(stage, hand \ kept, "dead"), kept, "batched")
    /\ hand' = {}
    /\ payload' = [payload EXCEPT !["store"] = kept]
    /\ store' = IF kept = {} THEN "recv" ELSE "forward"
    /\ Add(-(Cardinality(hand \ kept)))
    /\ UNCHANGED <<carry, dispatch, repoOpen, dispatchOpen, scope>>

\* range repoChan ends; the deferred close(dispatchChan) runs.
StoreExit ==
    /\ store = "recv"
    /\ ~repoOpen
    /\ store' = "done"
    /\ dispatchOpen' = FALSE
    /\ UNCHANGED <<stage, carry, hand, payload, repoWritersWg, closer, dispatch, repoOpen, scope>>

StoreStep ==
    \/ \E p \in Unit : HandOver(p)
    \/ \E kept \in SUBSET hand : Store(kept)
    \/ StoreExit

-----------------------------------------------------------------------------
(* the dispatch goroutine                                                  *)

\* The rendezvous on dispatchChan; Dispatch starts a goroutine per item and
\* returns without waiting for them.
Receive(s) ==
    /\ payload[s] # {}
    /\ dispatch = "recv"
    /\ dispatchOpen
    /\ stage' = Moved(stage, payload[s], "item")
    /\ payload' = [payload EXCEPT ![s] = {}]
    /\ store' = IF s = "store" THEN "recv" ELSE store
    /\ closer' = IF s = "closer" THEN "wait" ELSE closer
    /\ UNCHANGED <<carry, hand, repoWritersWg, dispatch, repoOpen, dispatchOpen, scope>>

DispatchExit ==
    /\ dispatch = "recv"
    /\ ~dispatchOpen
    /\ dispatch' = "done"
    /\ UNCHANGED <<stage, carry, hand, payload, repoWritersWg, closer, store, repoOpen, dispatchOpen, scope>>

DispatchStep == (\E s \in Sender : Receive(s)) \/ DispatchExit

-----------------------------------------------------------------------------
(* the closer goroutine and controller.CheckAndResumeScope                 *)

idle == <<stage, carry, hand, store, dispatch, dispatchOpen>>

\* Mutant: the counter is not waited for.
WaitNot ==
    /\ closer = "wait"
    /\ closer' = "check"
    /\ UNCHANGED <<idle, payload, repoWritersWg, repoOpen, scope>>

Wait ==
    /\ closer = "wait"
    /\ closer' = IF repoWritersWg = 0 THEN "check" ELSE "blocked"
    /\ UNCHANGED <<idle, payload, repoWritersWg, repoOpen, scope>>

Wake ==
    /\ closer = "released"
    /\ closer' = "check"
    /\ UNCHANGED <<idle, payload, repoWritersWg, repoOpen, scope>>

\* No current project, or the scope files cannot be read.
CheckFails ==
    /\ closer = "check"
    /\ closer' = "close"
    /\ UNCHANGED <<idle, payload, repoWritersWg, repoOpen, scope>>

\* scopemanager.Load; a change forgets which projects are in step with it.
Check ==
    /\ closer = "check"
    /\ scope' = [scope EXCEPT !.stale = FALSE, !.synced = @ /\ ~scope.stale]
    /\ closer' = IF scope'.synced THEN "close" ELSE "sync"
    /\ UNCHANGED <<idle, payload, repoWritersWg, repoOpen>>

SyncFails ==
    /\ closer = "sync"
    /\ closer' = "close"
    /\ UNCHANGED <<idle, payload, repoWritersWg, repoOpen, scope>>

\* SyncScopeWithDB has or has not unblocked an entity.
Sync ==
    /\ closer = "sync"
    /\ scope' = [scope EXCEPT !.synced = TRUE]
    /\ closer' \in {"close", "resume"}
    /\ UNCHANGED <<idle, payload, repoWritersWg, repoOpen>>

\* GetResumePayload fails or finds no pending entity.
NothingToResume ==
    /\ closer = "resume"
    /\ closer' = "close"
    /\ UNCHANGED <<idle, payload, repoWritersWg, repoOpen, scope>>

Resume(B) ==
    /\ closer = "resume"
    /\ stage' = Moved(stage, B, "batched")
    /\ payload' = [payload EXCEPT !["closer"] = B]
    /\ repoWritersWg' = repoWritersWg + Cardinality(B)
    /\ closer' = "send"
    /\ UNCHANGED <<carry, hand, store, dispatch, repoOpen, dispatchOpen, scope>>

Close ==
    /\ closer = "close"
    /\ closer' = "closed"
    /\ repoOpen' = FALSE
    /\ UNCHANGED <<idle, payload, repoWritersWg, scope>>

CloserStep ==
    \/ Wait \/ Wake \/ Check \/ CheckFails \/ Sync \/ SyncFails
    \/ NothingToResume \/ Close
    \/ \E B \in (SUBSET Fresh) \ {{}} : Resume(B)

-----------------------------------------------------------------------------

\* The user saves a scope file while the run is going on.
EditScope ==
    /\ scope.edits > 0
    /\ scope' = [scope EXCEPT !.edits = @ - 1, !.stale = TRUE]
    /\ UNCHANGED <<idle, payload, repoWritersWg, closer, repoOpen>>

\* wg.Wait() of Run returns once these goroutines have ended.
Returned == store = "done" /\ dispatch = "done" /\ payload["injector"] = {}

Terminated == Returned /\ UNCHANGED vars

Next ==
    \/ \E u \in Unit : Process(u) \/ Item(u)
    \/ StoreStep
    \/ DispatchStep
    \/ CloserStep
    \/ EditScope
    \/ Terminated

\* The Go scheduler runs every goroutine that can run; a module call that
\* ends is the assumption Dispatcher.tla examines.
Fairness ==
    /\ \A u \in Unit : WF_vars(Process(u)) /\ WF_vars(Item(u))
    /\ WF_vars(StoreStep)
    /\ WF_vars(DispatchStep)
    /\ WF_vars(CloserStep)

Spec == Init /\ [][Next]_vars
FairSpec == Spec /\ Fairness

-----------------------------------------------------------------------------
(* Properties                                                              *)

TypeOK ==
    /\ stage \in [Unit -> Stage]
    /\ carry \in [Unit -> SUBSET Unit]
    /\ hand \in SUBSET Unit
    /\ payload \in [Sender -> SUBSET Unit]
    /\ repoWritersWg \in Int
    /\ closer \in {"wait", "blocked", "released", "check", "sync", "resume",
                   "send", "close", "closed"}
    /\ store \in {"recv", "store", "forward", "done"}
    /\ dispatch \in {"recv", "done"}
    /\ repoOpen \in BOOLEAN
    /\ dispatchOpen \in BOOLEAN
    /\ scope \in Scope

\* The WaitGroup counts exactly the outstanding work: no Done is missing
\* (Run would hang) and none is made twice (the counter would go negative
\* and panic, or the channel would be closed under a sender).
Accounting == repoWritersWg = Cardinality(Live)

\* A goroutine that sends finds the channel open: a send on a closed
\* channel panics and takes the program down.
NoSendOnClosed ==
    /\ \A u \in Unit : stage[u] \in {"injected", "proc", "sending"} => repoOpen
    /\ \A s \in Sender : payload[s] # {} => dispatchOpen

\* Go panics with "WaitGroup is reused before previous Wait has returned"
\* when the counter is raised between the release of a waiter and its return.
NoReuseBeforeReturn == closer = "released" => repoWritersWg = 0

\* While the scope check decides whether to resume or to close, nothing is
\* running but the Store of a packet without results, so the project cannot
\* gain an entity behind its back.
QuietScopeCheck ==
    closer \in {"check", "sync", "resume", "close"} =>
        /\ Live = {}
        /\ hand = {}
        /\ \A s \in Sender : payload[s] = {}

\* Run returns whatever the modules, the store and the user do.
RunReturns == <>Returned

\* What Process found reaches Store, and every batch item is taken by the
\* dispatcher and answered: no unit is stranded.
EveryUnitSettles == \A u \in Unit : [](stage[u] # "fresh" => <>(stage[u] = "dead"))

\* The abstract promise of the token protocol: repoChan is closed only when
\* nothing is outstanding, nothing starts afterwards, and it is closed.
Q == INSTANCE Quiescence WITH Work <- Unit, active <- Live, open <- repoOpen
QuiescesSafely == Q!SafeSpec
Quiesces == Q!Spec

-----------------------------------------------------------------------------
(* The inductive invariant                                                 *)

\* A result is in at most one packet.
PacketsApart ==
    /\ hand \subseteq At({"result"})
    /\ \A p \in Unit : carry[p] \subseteq At({"result"}) /\ carry[p] \cap hand = {}
    /\ \A p, q \in Unit : p # q => carry[p] \cap carry[q] = {}

\* A batch item is in at most one batch.
BatchesApart ==
    /\ \A s \in Sender : payload[s] \subseteq At({"batched"})
    /\ \A s, t \in Sender : s # t => payload[s] \cap payload[t] = {}

\* From the release of the closer to its return to Wait nothing is live.
Quiet == closer \in {"released", "check", "sync", "resume", "close", "closed"} => Live = {}

ClosingOrder ==
    /\ ~repoOpen => closer = "closed"
    /\ ~dispatchOpen => ~repoOpen

\* What holds in every state and is kept by every step.
IInv ==
    /\ TypeOK
    /\ Accounting
    /\ PacketsApart
    /\ BatchesApart
    /\ Quiet
    /\ ClosingOrder
=============================================================================
