----------------------------- MODULE Dispatcher -----------------------------
(***************************************************************************)
(* dispatcher.Dispatch from the arrival of a batch item to the settlement  *)
(* of all its module calls.  Items wait for a global slot; an item starts  *)
(* a call for every function that its snapshot of completed functions does *)
(* not name and no other call has in flight; a call waits for the          *)
(* semaphore of its function, then races its executor goroutine against    *)
(* the global timer; five seconds after its verdict its in-flight key is   *)
(* dropped.  The packets of an item are sent on when its last call has a   *)
(* verdict, and the function log is written later still, by Store.         *)
(*                                                                         *)
(* Time is abstract: the timer of a call, and the five seconds of a key,   *)
(* may run out whenever they are running.                                  *)
(***************************************************************************)
EXTENDS Integers, FiniteSets

CONSTANTS
    Item,       \* batch items that may arrive during a run
    Entity,     \* stored entities
    EntityOf,   \* the entity of each item
    Fn,         \* module functions that accept these entities
    Slots,      \* GlobalMaxConcurrency
    Limit,      \* Limit[f]: capacity of the semaphore of function f
    MaxPauses   \* bound on the times the user pauses

ASSUME DispatcherAssumption ==
    /\ IsFiniteSet(Item) /\ IsFiniteSet(Fn)
    /\ EntityOf \in [Item -> Entity]
    /\ Slots \in Nat \ {0} /\ Limit \in [Fn -> Nat \ {0}] /\ MaxPauses \in Nat

VARIABLES
    item,       \* stage of each item
    known,      \* CompletedFunctions of each item, read when it was batched
    call,       \* stage of each call: its goroutine
    exec,       \* stage of each call's executor goroutine
    answer,     \* content of each call's resChan
    inFlight,   \* keys in dispatcher.inFlight
    expiring,   \* calls whose key is dropped when the five seconds are over
    sem,        \* tokens in moduleLimits[f].sem
    slots,      \* tokens in dispatcherConcurrencyLimit
    report,     \* what became of the packet of each call
    log,        \* entity_function_log
    paused,     \* isPaused
    pauses      \* times the user may still pause

vars == <<item, known, call, exec, answer, inFlight, expiring, sem, slots,
          report, log, paused, pauses>>

Call == Item \X Fn
Key(c) == <<EntityOf[c[1]], c[2]>>
CallsOf(i) == {c \in Call : c[1] = i}
Verdicts == {"skipped", "rejected", "answered", "failed", "timedOut"}
Executing == {"gate", "running", "leaving"}

Init ==
    /\ item = [i \in Item |-> "away"]
    /\ known = [i \in Item |-> {}]
    /\ call = [c \in Call |-> "idle"]
    /\ exec = [c \in Call |-> "off"]
    /\ answer = [c \in Call |-> "none"]
    /\ inFlight = {}
    /\ expiring = {}
    /\ sem = [f \in Fn |-> 0]
    /\ slots = 0
    /\ report = [c \in Call |-> "none"]
    /\ log = {}
    /\ paused = FALSE
    /\ pauses = MaxPauses

-----------------------------------------------------------------------------
(* The goroutine of an item                                                *)

\* The batch is built: buildBatchItems reads the log as it is now.
Arrive(i) ==
    /\ item[i] = "away"
    /\ item' = [item EXCEPT ![i] = "queued"]
    /\ known' = [known EXCEPT ![i] = {f \in Fn : <<EntityOf[i], f>> \in log}]
    /\ UNCHANGED <<call, exec, answer, inFlight, expiring, sem, slots, report, log, paused, pauses>>

Start(i) ==
    /\ item[i] = "queued"
    /\ slots < Slots
    /\ item' = [item EXCEPT ![i] = "open"]
    /\ slots' = slots + 1
    /\ UNCHANGED <<known, call, exec, answer, inFlight, expiring, sem, report, log, paused, pauses>>

\* Out of scope, too deep, or no module for the type: no call is started.
Decline(i) ==
    /\ item[i] = "open"
    /\ \A c \in CallsOf(i) : call[c] = "idle"
    /\ item' = [item EXCEPT ![i] = "declined"]
    /\ slots' = slots - 1
    /\ UNCHANGED <<known, call, exec, answer, inFlight, expiring, sem, report, log, paused, pauses>>

\* Mutant: a timeout sends no packet.
SettleDropsTimeouts(i) ==
    /\ item[i] = "open"
    /\ \A c \in CallsOf(i) : call[c] \in Verdicts
    /\ item' = [item EXCEPT ![i] = "settled"]
    /\ slots' = slots - 1
    /\ report' = [c \in Call |-> IF c \in CallsOf(i) /\ call[c] = "answered" THEN "sent" ELSE report[c]]
    /\ UNCHANGED <<known, call, exec, answer, inFlight, expiring, sem, log, paused, pauses>>

\* entryWg.Wait() returns; the packets of all calls are handed to Process.
Settle(i) ==
    /\ item[i] = "open"
    /\ \A c \in CallsOf(i) : call[c] \in Verdicts
    /\ item' = [item EXCEPT ![i] = "settled"]
    /\ slots' = slots - 1
    /\ report' = [c \in Call |-> IF c \in CallsOf(i) /\ call[c] \in {"answered", "timedOut"}
                                 THEN "sent" ELSE report[c]]
    /\ UNCHANGED <<known, call, exec, answer, inFlight, expiring, sem, log, paused, pauses>>

ItemStep(i) == Start(i) \/ Decline(i) \/ Settle(i)

-----------------------------------------------------------------------------
(* The goroutine of a call                                                 *)

\* matchTags refuses the entity.
Mismatch(c) ==
    /\ item[c[1]] = "open"
    /\ call[c] = "idle"
    /\ call' = [call EXCEPT ![c] = "rejected"]
    /\ UNCHANGED <<item, known, exec, answer, inFlight, expiring, sem, slots, report, log, paused, pauses>>

\* Completed before, or LoadOrStore finds the key.
Skip(c) ==
    /\ item[c[1]] = "open"
    /\ call[c] = "idle"
    /\ c[2] \in known[c[1]] \/ Key(c) \in inFlight
    /\ call' = [call EXCEPT ![c] = "skipped"]
    /\ UNCHANGED <<item, known, exec, answer, inFlight, expiring, sem, slots, report, log, paused, pauses>>

\* Mutant: the key is stored without looking whether it is there.
ReserveUnchecked(c) ==
    /\ item[c[1]] = "open"
    /\ call[c] = "idle"
    /\ c[2] \notin known[c[1]]
    /\ call' = [call EXCEPT ![c] = "reserved"]
    /\ inFlight' = inFlight \cup {Key(c)}
    /\ UNCHANGED <<item, known, exec, answer, expiring, sem, slots, report, log, paused, pauses>>

\* LoadOrStore stores the key.
Reserve(c) ==
    /\ item[c[1]] = "open"
    /\ call[c] = "idle"
    /\ c[2] \notin known[c[1]] /\ Key(c) \notin inFlight
    /\ call' = [call EXCEPT ![c] = "reserved"]
    /\ inFlight' = inFlight \cup {Key(c)}
    /\ UNCHANGED <<item, known, exec, answer, expiring, sem, slots, report, log, paused, pauses>>

\* Mutant: the key is kept.
NoCapabilitiesKeepsKey(c) ==
    /\ call[c] = "reserved"
    /\ call' = [call EXCEPT ![c] = "rejected"]
    /\ UNCHANGED <<item, known, exec, answer, inFlight, expiring, sem, slots, report, log, paused, pauses>>

\* Capabilities() fails: the key is given up at once.
NoCapabilities(c) ==
    /\ call[c] = "reserved"
    /\ call' = [call EXCEPT ![c] = "rejected"]
    /\ inFlight' = inFlight \ {Key(c)}
    /\ UNCHANGED <<item, known, exec, answer, expiring, sem, slots, report, log, paused, pauses>>

\* modLim.sem <- struct{}{}; then the executor and the timer are started.
Acquire(c) ==
    /\ call[c] = "reserved"
    /\ sem[c[2]] < Limit[c[2]]
    /\ sem' = [sem EXCEPT ![c[2]] = @ + 1]
    /\ call' = [call EXCEPT ![c] = "racing"]
    /\ exec' = [exec EXCEPT ![c] = "gate"]
    /\ UNCHANGED <<item, known, answer, inFlight, expiring, slots, report, log, paused, pauses>>

\* Mutant: the deletion of the key is not scheduled.
CollectKeepsKey(c) ==
    /\ call[c] = "racing"
    /\ answer[c] # "none"
    /\ call' = [call EXCEPT ![c] = IF answer[c] = "ok" THEN "answered" ELSE "failed"]
    /\ answer' = [answer EXCEPT ![c] = "none"]
    /\ UNCHANGED <<item, known, exec, inFlight, expiring, sem, slots, report, log, paused, pauses>>

\* The select takes the result.
Collect(c) ==
    /\ call[c] = "racing"
    /\ answer[c] # "none"
    /\ call' = [call EXCEPT ![c] = IF answer[c] = "ok" THEN "answered" ELSE "failed"]
    /\ answer' = [answer EXCEPT ![c] = "none"]
    /\ expiring' = expiring \cup {c}
    /\ UNCHANGED <<item, known, exec, inFlight, sem, slots, report, log, paused, pauses>>

\* Mutant: the semaphore is released by the call as well as by its executor.
TimeoutReleases(c) ==
    /\ call[c] = "racing"
    /\ call' = [call EXCEPT ![c] = "timedOut"]
    /\ expiring' = expiring \cup {c}
    /\ sem' = [sem EXCEPT ![c[2]] = @ - 1]
    /\ UNCHANGED <<item, known, exec, answer, inFlight, slots, report, log, paused, pauses>>

\* The select takes the timer; the executor goes on and is not waited for.
Timeout(c) ==
    /\ call[c] = "racing"
    /\ call' = [call EXCEPT ![c] = "timedOut"]
    /\ expiring' = expiring \cup {c}
    /\ UNCHANGED <<item, known, exec, answer, inFlight, sem, slots, report, log, paused, pauses>>

\* Five seconds after the verdict.
Expire(c) ==
    /\ c \in expiring
    /\ expiring' = expiring \ {c}
    /\ inFlight' = inFlight \ {Key(c)}
    /\ UNCHANGED <<item, known, call, exec, answer, sem, slots, report, log, paused, pauses>>

-----------------------------------------------------------------------------
(* The executor goroutine of a call                                        *)

\* The rate limit has been slept out and the run is not paused.
Begin(c) ==
    /\ exec[c] = "gate"
    /\ ~paused
    /\ exec' = [exec EXCEPT ![c] = "running"]
    /\ UNCHANGED <<item, known, call, answer, inFlight, expiring, sem, slots, report, log, paused, pauses>>

\* Exec returns; resChan has room for the result, wanted or not.
Return(c) ==
    /\ exec[c] = "running"
    /\ exec' = [exec EXCEPT ![c] = "leaving"]
    /\ \E r \in {"ok", "err"} : answer' = [answer EXCEPT ![c] = r]
    /\ UNCHANGED <<item, known, call, inFlight, expiring, sem, slots, report, log, paused, pauses>>

\* Mutant: the token is kept.
ReleaseKeepsToken(c) ==
    /\ exec[c] = "leaving"
    /\ exec' = [exec EXCEPT ![c] = "off"]
    /\ UNCHANGED <<item, known, call, answer, inFlight, expiring, sem, slots, report, log, paused, pauses>>

\* The deferred <-modLim.sem.
Release(c) ==
    /\ exec[c] = "leaving"
    /\ exec' = [exec EXCEPT ![c] = "off"]
    /\ sem' = [sem EXCEPT ![c[2]] = @ - 1]
    /\ UNCHANGED <<item, known, call, answer, inFlight, expiring, slots, report, log, paused, pauses>>

-----------------------------------------------------------------------------
(* The rest of the program                                                 *)

\* Process and Store bring the packet to the function log, or Store fails.
Store(c) ==
    /\ report[c] = "sent"
    /\ \/ log' = log \cup {Key(c)} /\ report' = [report EXCEPT ![c] = "stored"]
       \/ log' = log /\ report' = [report EXCEPT ![c] = "dropped"]
    /\ UNCHANGED <<item, known, call, exec, answer, inFlight, expiring, sem, slots, paused, pauses>>

\* SetPause: the user pauses and resumes.
Pause ==
    /\ ~paused /\ pauses > 0
    /\ paused' = TRUE
    /\ pauses' = pauses - 1
    /\ UNCHANGED <<item, known, call, exec, answer, inFlight, expiring, sem, slots, report, log>>

Resume ==
    /\ paused
    /\ paused' = FALSE
    /\ UNCHANGED <<item, known, call, exec, answer, inFlight, expiring, sem, slots, report, log, pauses>>

Terminated ==
    /\ \A i \in Item : item[i] \in {"settled", "declined"}
    /\ \A c \in Call : exec[c] = "off" /\ report[c] # "sent"
    /\ expiring = {} /\ ~paused
    /\ UNCHANGED vars

-----------------------------------------------------------------------------

Admission(c) == Mismatch(c) \/ Skip(c) \/ Reserve(c)
Conclusion(c) == Collect(c) \/ Timeout(c)

Next ==
    \/ \E i \in Item : Arrive(i) \/ ItemStep(i)
    \/ \E c \in Call : \/ Admission(c) \/ NoCapabilities(c) \/ Acquire(c)
                       \/ Conclusion(c) \/ Expire(c)
                       \/ Begin(c) \/ Return(c) \/ Release(c) \/ Store(c)
    \/ Pause \/ Resume \/ Terminated

Spec == Init /\ [][Next]_vars

\* The scheduler runs goroutines that can run, timers fire, channels serve
\* blocked senders in turn (hence SF for the slot and the semaphore), Store
\* gets to every packet and the user resumes a paused run.  Nothing is said
\* of a module: its Exec may hang.
SchedulerFairness ==
    /\ \A i \in Item : SF_vars(Start(i)) /\ WF_vars(Settle(i))
    /\ \A c \in Call : /\ WF_vars(Admission(c)) /\ SF_vars(Acquire(c))
                       /\ WF_vars(Conclusion(c)) /\ WF_vars(Expire(c))
                       /\ WF_vars(Begin(c)) /\ WF_vars(Release(c)) /\ WF_vars(Store(c))
    /\ WF_vars(Resume)

FairSpec == Spec /\ SchedulerFairness

\* In addition every Exec returns.
ModulesReturn == \A c \in Call : WF_vars(Return(c))
ReturningSpec == FairSpec /\ ModulesReturn

-----------------------------------------------------------------------------
(* Properties                                                              *)

TypeOK ==
    /\ item \in [Item -> {"away", "queued", "open", "declined", "settled"}]
    /\ known \in [Item -> SUBSET Fn]
    /\ call \in [Call -> {"idle", "reserved", "racing"} \cup Verdicts]
    /\ exec \in [Call -> {"off"} \cup Executing]
    /\ answer \in [Call -> {"none", "ok", "err"}]
    /\ inFlight \in SUBSET (Entity \X Fn)
    /\ expiring \in SUBSET Call
    /\ sem \in [Fn -> Int]
    /\ slots \in Int
    /\ report \in [Call -> {"none", "sent", "stored", "dropped"}]
    /\ log \in SUBSET (Entity \X Fn)
    /\ paused \in BOOLEAN
    /\ pauses \in Int

\* A call owns its key from LoadOrStore to the deferred Delete.
Owns(c) == call[c] \in {"reserved", "racing"} \/ c \in expiring

\* A key has one owner at most, and is in inFlight exactly while it has one:
\* the late Delete of one call never removes the key of the next.
OneOwnerPerKey ==
    /\ \A c, d \in Call : Owns(c) /\ Owns(d) /\ Key(c) = Key(d) => c = d
    /\ inFlight = {Key(c) : c \in {d \in Call : Owns(d)}}

\* A function is executed for an entity by two goroutines at a time only when
\* all but one of the calls have been given up by a timeout.
NoTwinExecution ==
    \A c, d \in Call :
        c # d /\ Key(c) = Key(d) /\ exec[c] \in {"gate", "running"} /\ exec[d] \in {"gate", "running"}
            => call[c] = "timedOut" \/ call[d] = "timedOut"

\* Slots and semaphore tokens are held exactly by the open items and by the
\* executors, those that outlive their call included.
TokensAccounted ==
    /\ slots = Cardinality({i \in Item : item[i] = "open"}) /\ slots <= Slots
    /\ \A f \in Fn : /\ sem[f] = Cardinality({c \in Call : c[2] = f /\ exec[c] \in Executing})
                     /\ sem[f] <= Limit[f]

\* Which stages of a call, its executor and its key go together.
CallLife ==
    \A c \in Call :
        /\ exec[c] \in {"gate", "running"} => call[c] \in {"racing", "timedOut"} /\ answer[c] = "none"
        /\ exec[c] = "leaving" => call[c] \in {"racing", "answered", "failed", "timedOut"}
        /\ call[c] \in {"idle", "reserved"} => exec[c] = "off" /\ answer[c] = "none"
        /\ c \in expiring => call[c] \in {"answered", "failed", "timedOut"}

\* The inductive invariant.
IInv == TypeOK /\ CallLife /\ OneOwnerPerKey /\ TokensAccounted

\* When modules return and the user resumes, every item is settled.
ItemsSettle == \A i \in Item : item[i] = "queued" ~> item[i] \in {"settled", "declined"}

\* Whatever happens to a call that has a verdict, its key does not block the
\* function for the entity for good.
KeysExpire == \A c \in Call : (Key(c) \in inFlight) ~> (Key(c) \notin inFlight)

\* Leaving a call to the one in flight loses nothing: a function an item asks
\* for is logged, unless one of the calls for it was refused, failed, or was
\* lost by Store.
Attempted(k) ==
    \/ k \in log
    \/ \E c \in Call : Key(c) = k /\ \/ call[c] \in {"rejected", "failed"}
                                     \/ report[c] = "dropped"
                                     \/ item[c[1]] = "declined"
DemandMet == \A c \in Call : (item[c[1]] = "open") ~> Attempted(Key(c))

\* README.md: the dispatcher "tracks completed functions per entity to prevent
\* redundant execution".
NoRedundantExecution ==
    \A c, d \in Call : call[c] = "answered" /\ call[d] = "answered" /\ Key(c) = Key(d) => c = d

\* README.md: it "enforces a configurable global timeout per module call": a
\* call that has been admitted gets a verdict even if a module hangs.
CallsConclude == \A c \in Call : (call[c] = "reserved") ~> (call[c] \in Verdicts)
=============================================================================
