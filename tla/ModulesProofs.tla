------------------------- MODULE ModulesProofs -----------------------------
(***************************************************************************)
(* The collection modules, for any number of calls and any delay, and for  *)
(* any callers, addresses and name servers. Zone check: one caller at a    *)
(* time asks, what it concludes is what all learn, and it is what the      *)
(* answers that were heard make of it. API clients: the rate limiter       *)
(* spaces the calls of every client, and the calls of Shodan overdraw its  *)
(* credits by less than the number of them that may run at once.           *)
(***************************************************************************)
EXTENDS CollectionModules, Integers, FiniteSetTheorems, TLAPS

(* The zone check.                                                          *)

Asking == {"fetch", "resolve", "ask"}

ZoneTyped ==
    /\ pc \in [Caller -> {"idle", "wait", "done"} \cup Asking]
    /\ verdict \in [Caller -> Verdict \cup {"unknown"}]
    /\ err \in Verdict \cup {"unknown"}
    /\ confirmations \in Nat /\ checked \in Nat
    /\ word \in Word \cup {"none"}

\* LoadOrStore lets one caller through, before anything is known.
OneAsks ==
    /\ \A c, d \in Caller : pc[c] \in Asking /\ pc[d] \in Asking => c = d
    /\ \A c \in Caller : pc[c] \in Asking => err = "unknown"
    /\ (\A c \in Caller : pc[c] = "idle") => err = "unknown"

\* The first good answer ends the check, and bad answers are counted; nothing is heard
\* of the name servers before their names are.
Evidence ==
    /\ checked = confirmations
    /\ \A c \in Caller : pc[c] = "fetch" => bad = {}
    /\ (\A c \in Caller : pc[c] = "idle") => bad = {}
    /\ err = "unknown" => well = {} /\ word = "none" /\ (confirmations > 0 <=> bad # {})
    /\ err = "broken" => word \in Word \/ (bad # {} /\ well = {})
    /\ err = "sound" => word = "none" /\ ~(bad # {} /\ well = {})
    /\ err = "failed" => word = "none" /\ bad \cup well = {}

\* What a caller has learnt is what was concluded.
Agreement == \A c \in Caller : verdict[c] \in {"unknown", err}

ZoneInv == ZoneTyped /\ OneAsks /\ Evidence /\ Agreement

-----------------------------------------------------------------------------
LEMMA ZoneInitial == Init => ZoneInv
  <1> SUFFICES ASSUME Init PROVE ZoneInv
    OBVIOUS
  <1>1. ZoneTyped
    BY DEF Init, ZoneTyped, Verdict
  <1>2. OneAsks
    BY DEF Init, OneAsks, Asking
  <1>3. Evidence
    BY DEF Init, Evidence
  <1>4. Agreement
    BY DEF Init, Agreement
  <1> QED
    BY <1>1, <1>2, <1>3, <1>4 DEF ZoneInv

\* The steps of a caller that does not ask.
LEMMA ShareSteps ==
    ASSUME ZoneInv, NEW c \in Caller, Lead(c) \/ Join(c) \/ Learn(c)
    PROVE  ZoneInv'
  <1> USE DEF ZoneInv, ZoneTyped, OneAsks, Evidence, Agreement, Verdict, Asking, Goto, Conclude,
              count, lookup
  <1>1. CASE Lead(c)
    <2>1. CASE Goto(c, "fetch") /\ UNCHANGED <<verdict, err, word>>
      BY <1>1, <2>1 DEF Lead
    <2>2. CASE Conclude(c, "broken") /\ word' = "invalid"
      <3>1. pc' \in [Caller -> {"idle", "wait", "done"} \cup Asking]
        BY <1>1, <2>2 DEF Lead
      <3>2. ZoneTyped'
        BY <1>1, <2>2, <3>1 DEF Lead, Word
      <3>3. OneAsks'
        BY <1>1, <2>2, <3>1 DEF Lead
      <3>4. Evidence'
        BY <1>1, <2>2, <3>1 DEF Lead, Word
      <3>5. Agreement'
        BY <1>1, <2>2 DEF Lead
      <3> QED
        BY <3>2, <3>3, <3>4, <3>5
    <2> QED
      BY <1>1, <2>1, <2>2 DEF Lead
  <1>2. CASE Join(c)
    BY <1>2 DEF Join, history
  <1>3. CASE Learn(c)
    BY <1>3 DEF Learn, history
  <1> QED
    BY <1>1, <1>2, <1>3

\* Going on to the next name server, or concluding after the last, with the evidence
\* there is then.
LEMMA Onward ==
    ASSUME ZoneInv, NEW c \in Caller, pc[c] \in Asking,
           NEW confirmed \in Nat, NextNs(c, confirmed, confirmed), pc[c] # "fetch",
           UNCHANGED <<word, well>>, confirmed > 0 <=> bad' # {}
    PROVE  ZoneInv'
  <1> USE DEF ZoneInv, ZoneTyped, OneAsks, Evidence, Agreement, Verdict, Asking, Goto
  <1>1. CASE UNCHANGED <<verdict, err>> /\ pc' = [pc EXCEPT ![c] = "resolve"]
    BY <1>1 DEF NextNs
  <1>2. CASE Conclude(c, Believe(confirmed, confirmed))
    BY <1>2 DEF NextNs, Conclude, Believe
  <1> QED
    BY <1>1, <1>2 DEF NextNs

\* The steps of the caller that asks.
LEMMA AskSteps ==
    ASSUME ZoneInv, NEW c \in Caller,
           FetchNs(c) \/ ResolveNs(c) \/ QueryFails(c) \/ Answers(c, "bad") \/ Answers(c, "well")
    PROVE  ZoneInv'
  <1>1. CASE FetchNs(c)
    <2> USE DEF ZoneInv, ZoneTyped, OneAsks, Evidence, Agreement, Verdict, Asking, Goto, count
    <2>1. CASE Goto(c, "resolve") /\ UNCHANGED <<verdict, err, word>>
      BY <1>1, <2>1 DEF FetchNs
    <2>2. CASE Conclude(c, "broken") /\ word' \in {"no records", "misbehaving"}
      BY <1>1, <2>2 DEF FetchNs, Conclude, Word
    <2>3. CASE UNCHANGED <<pc, verdict, err, word>>
      BY <1>1, <2>3 DEF FetchNs
    <2>4. CASE Conclude(c, "failed") /\ UNCHANGED word
      BY <1>1, <2>4 DEF FetchNs, Conclude
    <2> QED
      BY <1>1, <2>1, <2>2, <2>3, <2>4 DEF FetchNs
  <1>2. CASE ResolveNs(c)
    <2>1. CASE NextNs(c, confirmations, checked)
      BY <1>2, <2>1, Onward DEF ResolveNs, history, ZoneInv, ZoneTyped, OneAsks, Evidence, Asking
    <2>2. CASE ~NextNs(c, confirmations, checked)
      BY <1>2, <2>2 DEF ResolveNs, history, count, ZoneInv, ZoneTyped, OneAsks, Evidence, Agreement,
                        Verdict, Asking, Goto
    <2> QED
      BY <2>1, <2>2
  <1>3. CASE QueryFails(c)
    BY <1>3, Onward DEF QueryFails, history, ZoneInv, ZoneTyped, OneAsks, Evidence, Asking
  <1>4. CASE Answers(c, "bad")
    BY <1>4, Onward DEF Answers, ZoneInv, ZoneTyped, OneAsks, Evidence, Asking
  <1>5. CASE Answers(c, "well")
    BY <1>5 DEF Answers, Conclude, count, ZoneInv, ZoneTyped, OneAsks, Evidence, Agreement, Verdict,
                Asking, Goto
  <1> QED
    BY <1>1, <1>2, <1>3, <1>4, <1>5

LEMMA ZoneStutter == ZoneInv /\ UNCHANGED vars => ZoneInv'
  BY DEF ZoneInv, ZoneTyped, OneAsks, Evidence, Agreement, vars, history, count

\* The inductive invariant holds in every state (PreFlightCheck, doPreFlightCheck).
THEOREM ZoneInductive == Spec => []ZoneInv
  <1>1. ZoneInv /\ [Next]_vars => ZoneInv'
    <2> SUFFICES ASSUME ZoneInv, [Next]_vars PROVE ZoneInv'
      OBVIOUS
    <2> QED
      BY ShareSteps, AskSteps, ZoneStutter DEF Next, Step
  <1> QED
    BY ZoneInitial, <1>1, PTL DEF Spec

\* Two callers that have an answer have the same one (PreFlightCheck's check.err).
THEOREM CallersAgree ==
    Spec => [](\A c, d \in Caller : verdict[c] # "unknown" /\ verdict[d] # "unknown"
                                    => verdict[c] = verdict[d])
  <1>1. ZoneInv => \A c, d \in Caller : verdict[c] # "unknown" /\ verdict[d] # "unknown"
                                        => verdict[c] = verdict[d]
    BY DEF ZoneInv, Agreement
  <1> QED
    BY ZoneInductive, <1>1, PTL

LEMMA ModulesHaveZone == ModulesSpec => Spec
  <1>1. ModulesInit => Init
    BY DEF ModulesInit
  <1>2. [ModulesNext]_moduleVars => [Next]_vars
    BY DEF ModulesNext, moduleVars
  <1> QED
    BY <1>1, <1>2, PTL DEF ModulesSpec, Spec

\* What a caller is told is what was found out (the verdict of PreFlightCheck): broken,
\* if the zone was condemned by the form of the target or by a plain resolver, or if a
\* name server confirmed it and none denied it, and else not.
THEOREM VerdictRestsOnEvidence == ModulesSpec => []VerdictOnEvidence
  <1>1. ZoneInv => VerdictOnEvidence
    <2> SUFFICES ASSUME ZoneInv, NEW c \in Caller, verdict[c] # "unknown"
                 PROVE  /\ verdict[c] = "broken" <=> word \in Word \/ (bad # {} /\ well = {})
                        /\ verdict[c] = "failed" => bad \cup well = {}
      BY DEF VerdictOnEvidence
    <2>1. verdict[c] = err /\ err \in Verdict
      BY DEF ZoneInv, ZoneTyped, Agreement
    <2>2. "none" \notin Word
      BY DEF Word
    <2> QED
      BY <2>1, <2>2 DEF ZoneInv, Evidence, Verdict
  <1> QED
    BY ModulesHaveZone, ZoneInductive, <1>1, PTL

-----------------------------------------------------------------------------
(* The calls of an API client.                                              *)

CallPc == {"idle", "account", "check", "limit", "sleep", "send", "done"}
\* The call waits for the limiter, or for an answer.
Requesting == {"limit", "sleep", "send"}

CallsTyped ==
    /\ client \in A!Clients
    /\ aPc \in [Call -> CallPc] /\ asks \in [Call -> {"account", "page"}]
    /\ ago \in Int /\ woke \in [Call -> Int] /\ credits \in Int /\ limit \in Nat \ {0}

\* No call was let through after the last request that the limiter knows of, and two
\* of them are the delay apart.
LimiterInv ==
    /\ ago <= Delay
    /\ \A c \in Call : ago <= woke[c] /\ woke[c] <= Delay
    /\ A!SpacedGrants

\* One call sleeps with the mutex.
MutexInv ==
    \A c \in Call : aPc[c] = "sleep" /\ client.limiter \in {"holding", "exclusive"}
                        => holder = c

\* One call looks at the account, and no other passes before it has.
AccountInv ==
    /\ \A c \in Call : asks[c] = "account" => profile = "running" /\ aPc[c] \in Requesting
    /\ \A c, d \in Call : asks[c] = "account" /\ asks[d] = "account" => c = d
    /\ profile # "done" => \A c \in Call : /\ aPc[c] # "check"
                                           /\ aPc[c] \in Requesting => asks[c] = "account"

\* The calls that may spend credits and have begun, and those of them that are about
\* to spend one. A call is about to when it has seen a credit, and when a request of
\* each has been paid for, the credits are overdrawn by less than the limit.
Running == {c \in Spending : A!InFlight(c)}
Pending == {c \in Spending : aPc[c] \in Requesting /\ asks[c] = "page"}

CreditInv ==
    client = A!Shodan =>
        /\ Cardinality(Running) <= limit
        /\ credits - Cardinality(Pending) > -limit

ClientInv == CallsTyped /\ LimiterInv /\ MutexInv /\ AccountInv /\ CreditInv

-----------------------------------------------------------------------------
LEMMA ClientsDiffer ==
    /\ A!Shodan \in A!Clients /\ A!Shodan # A!Hunter /\ A!Shodan.credits
    /\ A!Shodan.limiter = "holding" /\ A!Shodan.retried = {}
  <1>1. "throttled" \in A!Hunter.retried
    BY DEF A!Hunter, A!Limited
  <1> QED
    BY <1>1 DEF A!Shodan, A!Clients

LEMMA SameCardinality == \A S : A!Cardinality(S) = Cardinality(S)
  BY DEF A!Cardinality, Cardinality

\* Pending calls are running; the numbers of both are numbers.
LEMMA SpendersCount ==
    /\ \A S \in SUBSET Spending : IsFiniteSet(S) /\ Cardinality(S) \in Nat
    /\ \A S, T \in SUBSET Spending : S \subseteq T => Cardinality(S) <= Cardinality(T)
    /\ \A S \in SUBSET Spending, c \in Spending :
           /\ c \notin S => Cardinality(S \cup {c}) = Cardinality(S) + 1
           /\ c \in S => Cardinality(S \ {c}) = Cardinality(S) - 1
  <1>1. IsFiniteSet(Spending)
    BY SpendingCalls, FS_Subset
  <1>2. \A S \in SUBSET Spending : IsFiniteSet(S) /\ Cardinality(S) \in Nat
    BY <1>1, FS_Subset, FS_CardinalityType
  <1>3. \A S, T \in SUBSET Spending : S \subseteq T => Cardinality(S) <= Cardinality(T)
    BY <1>2, FS_Subset
  <1>4. \A S \in SUBSET Spending, c \in Spending :
            c \notin S => Cardinality(S \cup {c}) = Cardinality(S) + 1
    BY <1>2, FS_AddElement
  <1>5. \A S \in SUBSET Spending, c \in Spending :
            c \in S => Cardinality(S \ {c}) = Cardinality(S) - 1
    BY <1>2, FS_RemoveElement
  <1> QED
    BY <1>2, <1>3, <1>4, <1>5

\* A step that adds no running and no pending call and leaves the credits alone.
LEMMA CreditsAlone ==
    ASSUME CreditInv, CallsTyped, UNCHANGED <<client, limit, credits>>,
           Running' \subseteq Running, Pending' \subseteq Pending
    PROVE  CreditInv'
  <1>1. /\ Running \in SUBSET Spending /\ Pending \in SUBSET Spending
        /\ Running' \in SUBSET Spending /\ Pending' \in SUBSET Spending
    BY DEF Running, Pending
  <1> DEFINE r == Cardinality(Running)    r2 == Cardinality(Running')
             p == Cardinality(Pending)    p2 == Cardinality(Pending')
  <1>2. r2 <= r /\ p2 <= p /\ r \in Nat /\ r2 \in Nat /\ p \in Nat /\ p2 \in Nat
    BY <1>1, SpendersCount
  <1>3. client = A!Shodan => r <= limit /\ credits - p > -limit
    BY DEF CreditInv
  <1>4. CreditInv' <=> (client = A!Shodan => r2 <= limit /\ credits - p2 > -limit)
    BY DEF CreditInv
  <1> HIDE DEF r, r2, p, p2
  <1> QED
    BY <1>2, <1>3, <1>4 DEF CallsTyped

LEMMA ClientInitial == A!Init => ClientInv
  <1> USE DelayNatural
  <1> SUFFICES ASSUME A!Init PROVE ClientInv
    OBVIOUS
  <1>1. CallsTyped
    BY LimitsPositive DEF A!Init, A!LimitsOf, CallsTyped, CallPc
  <1>2. LimiterInv
    BY DEF A!Init, LimiterInv, A!SpacedGrants
  <1>3. MutexInv /\ AccountInv
    BY DEF A!Init, MutexInv, AccountInv, Requesting
  <1>4. CreditInv
    <2>1. Running = {} /\ Pending = {} /\ credits = 0
      BY SpendingCalls DEF A!Init, Running, Pending, Requesting, A!InFlight
    <2>2. Cardinality({}) = 0
      BY FS_EmptySet
    <2> QED
      BY <1>1, <2>1, <2>2 DEF CreditInv, CallsTyped
  <1> QED
    BY <1>1, <1>2, <1>3, <1>4 DEF ClientInv

\* Up to the mutex of the limiter.
LEMMA ApproachSteps ==
    ASSUME ClientInv, NEW c \in Call,
           A!Begin(c) \/ A!LookAtAccount(c) \/ A!AccountSeen(c) \/ A!Check(c) \/ A!Lock(c)
    PROVE  ClientInv'
  <1> USE DEF ClientInv, A!shared, A!limiter
  <1>1. LimiterInv'
    BY DEF LimiterInv, A!SpacedGrants, A!Begin, A!LookAtAccount, A!AccountSeen, A!Check, A!Lock
  <1>2. CASE A!Begin(c)
    <2> USE <1>2 DEF A!Begin, A!Goto
    <2>1. CallsTyped'
      BY DEF CallsTyped, CallPc
    <2>2. MutexInv' /\ AccountInv'
      BY DEF MutexInv, AccountInv, CallsTyped, Requesting
    <2>3. CreditInv'
      <3>1. Pending' = Pending
        BY SpendingCalls DEF Pending, CallsTyped, Requesting
      <3>2. CASE client = A!Shodan /\ c \in Spending
        <4>1. /\ Running \in SUBSET Spending /\ Running' = Running \cup {c} /\ c \notin Running
          BY <3>2, SpendingCalls DEF Running, A!InFlight, CallsTyped
        <4>2. Cardinality(Running) < limit
          BY <3>2, SameCardinality DEF Running
        <4>3. Cardinality(Running') = Cardinality(Running) + 1 /\ Cardinality(Running) \in Nat
          BY <3>2, <4>1, SpendersCount
        <4> QED
          BY <3>1, <4>2, <4>3 DEF CreditInv, CallsTyped
      <3>3. CASE client = A!Shodan /\ c \notin Spending
        <4>1. Running' \subseteq Running
          BY <3>3, SpendingCalls DEF Running, A!InFlight, CallsTyped
        <4> QED
          BY <3>1, <4>1, CreditsAlone
      <3> QED
        BY <3>2, <3>3 DEF CreditInv
    <2> QED
      BY <1>1, <2>1, <2>2, <2>3
  <1>3. CASE A!LookAtAccount(c)
    <2> USE <1>3 DEF A!LookAtAccount, A!Goto
    <2>1. CallsTyped'
      BY DEF CallsTyped, CallPc
    <2>2. MutexInv' /\ AccountInv'
      BY DEF MutexInv, AccountInv, CallsTyped, Requesting
    <2>3. CreditInv'
      <3>1. Running' \subseteq Running /\ Pending' \subseteq Pending
        BY SpendingCalls DEF Running, Pending, CallsTyped, Requesting, A!InFlight
      <3> QED
        BY <3>1, CreditsAlone
    <2> QED
      BY <1>1, <2>1, <2>2, <2>3
  <1>4. CASE A!AccountSeen(c)
    <2> USE <1>4 DEF A!AccountSeen, A!Goto
    <2>1. CallsTyped'
      BY DEF CallsTyped, CallPc
    <2>2. MutexInv' /\ AccountInv'
      BY DEF MutexInv, AccountInv, CallsTyped, Requesting
    <2>3. CreditInv'
      <3>1. Running' \subseteq Running /\ Pending' \subseteq Pending
        BY SpendingCalls DEF Running, Pending, CallsTyped, Requesting, A!InFlight
      <3> QED
        BY <3>1, CreditsAlone
    <2> QED
      BY <1>1, <2>1, <2>2, <2>3
  <1>5. CASE A!Check(c)
    <2>0. /\ aPc[c] = "check"
          /\ UNCHANGED <<client, limit, profile, credits, holder, ago, woke, asks>>
          /\ \/ /\ A!MayAsk(c)
                /\ \E to \in {"send", "limit"} : aPc' = [aPc EXCEPT ![c] = to]
             \/ aPc' = [aPc EXCEPT ![c] = "done"]
      BY <1>5 DEF A!Check, A!Goto, A!ToLimiter, A!Conclude
    <2>1. CallsTyped'
      BY <2>0 DEF CallsTyped, CallPc
    <2>2. MutexInv' /\ AccountInv'
      BY <2>0 DEF MutexInv, AccountInv, CallsTyped, Requesting
    <2>3. CreditInv'
      <3>1. /\ Running' \subseteq Running /\ Pending' \subseteq Running'
            /\ Running' \in SUBSET Spending /\ Pending' \in SUBSET Spending
        BY <2>0, SpendingCalls DEF Running, Pending, CallsTyped, Requesting, A!InFlight
      <3>2. CASE Pending' \subseteq Pending
        BY <2>0, <3>1, <3>2, CreditsAlone
      <3>3. CASE client = A!Shodan /\ ~(Pending' \subseteq Pending)
        <4>1. c \in Spending /\ A!MayAsk(c)
          BY <2>0, <3>3, SpendingCalls DEF Pending, CallsTyped, Requesting
        <4>2. credits > 0
          BY <3>3, <4>1, ClientsDiffer DEF A!MayAsk, A!Spends
        <4>3. Running \in SUBSET Spending
          BY DEF Running
        <4> DEFINE r == Cardinality(Running)    r2 == Cardinality(Running')
                   p2 == Cardinality(Pending')
        <4>4. r2 <= r /\ p2 <= r2 /\ r \in Nat /\ r2 \in Nat /\ p2 \in Nat
          BY <3>1, <4>3, SpendersCount
        <4>5. r <= limit
          BY <3>3 DEF CreditInv
        <4>6. r2 <= limit /\ credits - p2 > -limit => CreditInv'
          BY <2>0 DEF CreditInv
        <4> HIDE DEF r, r2, p2
        <4> QED
          BY <4>2, <4>4, <4>5, <4>6 DEF CallsTyped
      <3> QED
        BY <2>0, <3>2, <3>3 DEF CreditInv
    <2> QED
      BY <1>1, <2>1, <2>2, <2>3
  <1>6. CASE A!Lock(c)
    <2> USE <1>6 DEF A!Lock, A!Goto
    <2>1. CallsTyped'
      BY DEF CallsTyped, CallPc
    <2>2. MutexInv' /\ AccountInv'
      BY NobodyApart DEF MutexInv, AccountInv, CallsTyped, Requesting
    <2>3. CreditInv'
      <3>1. Running' \subseteq Running /\ Pending' \subseteq Pending
        BY SpendingCalls DEF Running, Pending, CallsTyped, Requesting, A!InFlight
      <3> QED
        BY <3>1, CreditsAlone
    <2> QED
      BY <1>1, <2>1, <2>2, <2>3
  <1> QED
    BY <1>2, <1>3, <1>4, <1>5, <1>6

\* A call is let through when the last request is the delay ago, or at a moment
\* reserved the delay after it.
LEMMA GrantSteps ==
    ASSUME ClientInv, NEW c \in Call, A!Reserve(c) \/ A!Wake(c)
    PROVE  ClientInv'
  <1> USE DelayNatural DEF ClientInv, A!shared
  <1>1. CASE A!Reserve(c)
    <2> USE <1>1 DEF A!Reserve, A!Goto
    <2>1. CallsTyped'
      BY DEF CallsTyped, CallPc
    <2>2. ago' = ago - Delay /\ woke' = [woke EXCEPT ![c] = ago - Delay]
      <3>1. -(Delay - ago) = ago - Delay
        BY DEF CallsTyped
      <3> QED
        BY <3>1
    <2>3. LimiterInv'
      BY <2>2 DEF CallsTyped, LimiterInv, A!SpacedGrants
    <2>4. MutexInv' /\ AccountInv'
      BY DEF MutexInv, AccountInv, CallsTyped, Requesting
    <2>5. CreditInv'
      <3>1. Running' \subseteq Running /\ Pending' \subseteq Pending
        BY SpendingCalls DEF Running, Pending, CallsTyped, Requesting, A!InFlight
      <3> QED
        BY <3>1, CreditsAlone
    <2> QED
      BY <2>1, <2>3, <2>4, <2>5
  <1>2. CASE A!Wake(c)
    <2>0. /\ aPc[c] = "sleep" /\ aPc' = [aPc EXCEPT ![c] = "send"]
          /\ UNCHANGED <<client, limit, asks, profile, credits>>
          /\ holder' \in {holder, A!Nobody} /\ (holder' # holder => holder = c)
          /\ \/ UNCHANGED <<ago, woke>>
             \/ ago >= Delay /\ ago' = 0 /\ woke' = [woke EXCEPT ![c] = 0]
      BY <1>2 DEF A!Wake, A!Goto, A!Free
    <2>1. CallsTyped'
      BY <2>0 DEF CallsTyped, CallPc
    <2>2. LimiterInv'
      BY <2>0 DEF CallsTyped, LimiterInv, A!SpacedGrants
    <2>3. MutexInv' /\ AccountInv'
      BY <2>0 DEF MutexInv, AccountInv, CallsTyped, Requesting
    <2>4. CreditInv'
      <3>1. Running' \subseteq Running /\ Pending' \subseteq Pending
        BY <2>0, SpendingCalls DEF Running, Pending, CallsTyped, Requesting, A!InFlight
      <3> QED
        BY <2>0, <3>1, CreditsAlone
    <2> QED
      BY <2>1, <2>2, <2>3, <2>4
  <1> QED
    BY <1>1, <1>2

LEMMA TickStep == ASSUME ClientInv, A!Tick PROVE ClientInv'
  <1> USE DelayNatural DEF ClientInv, A!calls, A!shared
  <1>0. /\ ago' = A!Older(ago) /\ woke' = [c \in Call |-> A!Older(woke[c])]
        /\ UNCHANGED <<client, limit, aPc, asks, profile, credits, holder>>
    BY DEF A!Tick
  <1>1. CallsTyped'
    BY <1>0 DEF CallsTyped, A!Older
  <1>2. LimiterInv'
    BY <1>0 DEF CallsTyped, LimiterInv, A!SpacedGrants, A!Older
  <1>3. MutexInv' /\ AccountInv'
    BY <1>0 DEF MutexInv, AccountInv
  <1>4. CreditInv'
    BY <1>0, CreditsAlone DEF Running, Pending, A!InFlight
  <1> QED
    BY <1>1, <1>2, <1>3, <1>4

LEMMA AnswerSteps ==
    ASSUME ClientInv, NEW c \in Call, A!Answered(c)
    PROVE  ClientInv'
  <1> USE DEF ClientInv
  <1>0. aPc[c] = "send" /\ UNCHANGED <<client, limit, ago, woke>>
    BY DEF A!Answered, A!NextPage, A!AnswerAccount, A!Retry, A!Settle, A!limiter
  <1>1. LimiterInv'
    BY <1>0 DEF LimiterInv, A!SpacedGrants
  <1>2. ASSUME NEW a \in A!Answer, A!AnswerAccount(c, a) PROVE ClientInv'
    <2>0. \/ /\ \E to \in {"send", "limit"} : aPc' = [aPc EXCEPT ![c] = to]
             /\ UNCHANGED <<asks, profile, credits, holder>>
          \/ /\ asks[c] = "account" /\ aPc' = [aPc EXCEPT ![c] = "check"]
             /\ asks' = [asks EXCEPT ![c] = "page"]
             /\ profile' = "done" /\ credits' \in Int /\ credits' >= 0
             /\ holder' = IF holder = c THEN A!Nobody ELSE holder
      <3>1. CASE A!Retries(c, a, client.profile) /\ A!ToLimiter(c) /\ UNCHANGED <<A!shared, holder>>
        BY <3>1 DEF A!Retries, A!ToLimiter, A!Goto, A!shared
      <3>2. CASE ~(A!Retries(c, a, client.profile) /\ A!ToLimiter(c)
                   /\ UNCHANGED <<A!shared, holder>>)
        <4>1. PICK n \in IF a = "ok" /\ client.credits THEN 0..MaxCredits ELSE {0} : credits' = n
          BY <1>2, <3>2 DEF A!AnswerAccount
        <4>2. n \in Int /\ n >= 0
          OBVIOUS
        <4>3. /\ asks[c] = "account" /\ aPc' = [aPc EXCEPT ![c] = "check"]
              /\ asks' = [asks EXCEPT ![c] = "page"] /\ profile' = "done"
              /\ holder' = IF holder = c THEN A!Nobody ELSE holder
          BY <1>2, <3>2 DEF A!AnswerAccount, A!Goto, A!Free
        <4> QED
          BY <4>1, <4>2, <4>3
      <3> QED
        BY <3>1, <3>2
    <2>1. CASE /\ \E to \in {"send", "limit"} : aPc' = [aPc EXCEPT ![c] = to]
               /\ UNCHANGED <<asks, profile, credits, holder>>
      <3>1. CallsTyped'
        BY <1>0, <2>1 DEF CallsTyped, CallPc
      <3>2. MutexInv' /\ AccountInv'
        BY <1>0, <2>1 DEF MutexInv, AccountInv, CallsTyped, Requesting
      <3>3. Running' \subseteq Running /\ Pending' \subseteq Pending
        BY <1>0, <2>1, SpendingCalls DEF Running, Pending, CallsTyped, Requesting, A!InFlight
      <3>4. CreditInv'
        BY <1>0, <2>1, <3>3, CreditsAlone
      <3> QED
        BY <1>1, <3>1, <3>2, <3>4
    <2>2. CASE /\ asks[c] = "account" /\ aPc' = [aPc EXCEPT ![c] = "check"]
               /\ asks' = [asks EXCEPT ![c] = "page"]
               /\ profile' = "done" /\ credits' \in Int /\ credits' >= 0
               /\ holder' = IF holder = c THEN A!Nobody ELSE holder
      <3>1. CallsTyped'
        BY <1>0, <2>2 DEF CallsTyped, CallPc
      <3>2. MutexInv'
        BY <1>0, <2>2 DEF MutexInv, CallsTyped
      <3>3. AccountInv'
        BY <1>0, <2>2 DEF AccountInv, CallsTyped, Requesting
      <3>4. \A d \in Call : d # c => ~(aPc[d] \in Requesting /\ asks[d] = "page")
        BY <2>2 DEF AccountInv, CallsTyped
      <3>5. Running' \subseteq Running /\ Pending' = {}
        BY <1>0, <2>2, <3>4, SpendingCalls
        DEF Running, Pending, CallsTyped, Requesting, A!InFlight
      <3>6. Running \in SUBSET Spending /\ Running' \in SUBSET Spending
        BY DEF Running
      <3> DEFINE r == Cardinality(Running)    r2 == Cardinality(Running')
      <3>7. r2 <= r /\ r \in Nat /\ r2 \in Nat
        BY <3>5, <3>6, SpendersCount
      <3>8. Cardinality(Pending') = 0
        BY <3>5, FS_EmptySet
      <3>9. client = A!Shodan => r <= limit
        BY DEF CreditInv
      <3>10. limit \in Nat \ {0} /\ credits' \in Int /\ credits' >= 0
        BY <2>2 DEF CallsTyped
      <3>11. credits' - 0 > -limit
        <4>1. \A n \in Int, l \in Nat \ {0} : n >= 0 => n - 0 > -l
          OBVIOUS
        <4> QED
          BY <3>10, <4>1
      <3>12. client = A!Shodan => r2 <= limit
        BY <3>7, <3>9, <3>10
      <3>13. CreditInv'
        BY <1>0, <3>8, <3>11, <3>12 DEF CreditInv
      <3> QED
        BY <1>1, <3>1, <3>2, <3>3, <3>13
    <2> QED
      BY <2>0, <2>1, <2>2
  <1>3. ASSUME NEW a \in A!Answer, A!Retry(c, a) PROVE ClientInv'
    <2>0. /\ \E to \in {"send", "limit"} : aPc' = [aPc EXCEPT ![c] = to]
          /\ UNCHANGED <<asks, profile, credits, holder>>
      BY <1>0, <1>3 DEF A!Retry, A!Retries, A!ToLimiter, A!Goto, A!shared, A!limiter, CallsTyped
    <2>1. CallsTyped'
      BY <1>0, <2>0 DEF CallsTyped, CallPc
    <2>2. MutexInv' /\ AccountInv'
      BY <1>0, <2>0 DEF MutexInv, AccountInv, CallsTyped, Requesting
    <2>3. CreditInv'
      <3>1. Running' \subseteq Running /\ Pending' \subseteq Pending
        BY <1>0, <2>0, SpendingCalls DEF Running, Pending, CallsTyped, Requesting, A!InFlight
      <3> QED
        BY <1>0, <2>0, <3>1, CreditsAlone
    <2> QED
      BY <1>1, <2>1, <2>2, <2>3
  <1>4. ASSUME A!NextPage(c) \/ \E a \in A!Answer : A!Settle(c, a) PROVE ClientInv'
    <2>0. /\ asks[c] = "page" /\ UNCHANGED <<asks, profile>>
          /\ \E to \in CallPc \ {"sleep", "idle"} : aPc' = [aPc EXCEPT ![c] = to]
          /\ holder' = IF holder = c THEN A!Nobody ELSE holder
          /\ \E a \in A!Answer : A!Spend(c, a)
      BY <1>0, <1>4 DEF A!NextPage, A!Settle, A!Goto, A!Free, A!Conclude, CallsTyped, CallPc, A!Answer
    <2>1. profile = "done"
      BY <1>0, <2>0 DEF AccountInv, Requesting
    <2>2. credits' \in Int
      BY <2>0 DEF A!Spend, CallsTyped
    <2>3. CallsTyped'
      BY <1>0, <2>0, <2>2 DEF CallsTyped, CallPc
    <2>4. MutexInv' /\ AccountInv'
      BY <1>0, <2>0, <2>1 DEF MutexInv, AccountInv, CallsTyped, Requesting, CallPc
    <2>5. ASSUME client = A!Shodan
          PROVE  /\ credits' = credits \/ (c \in Spending /\ credits' = credits - 1)
                 /\ aPc'[c] \in {"check", "done"}
      <3>1. credits' = credits \/ (c \in Spending /\ credits' = credits - 1)
        BY <2>0, <2>5, ClientsDiffer DEF A!Spend, A!Spends
      <3>2. aPc'[c] \in {"check", "done"}
        <4>1. CASE A!NextPage(c)
          <5>1. A!Goto(c, "check")
            BY <2>5, <4>1, ClientsDiffer DEF A!NextPage
          <5> QED
            BY <5>1 DEF A!Goto, CallsTyped
        <4>2. CASE \E a \in A!Answer : A!Settle(c, a)
          BY <4>2 DEF A!Settle, A!Goto, A!Conclude, CallsTyped
        <4> QED
          BY <1>4, <4>1, <4>2
      <3> QED
        BY <3>1, <3>2
    <2>6. CreditInv'
      <3> SUFFICES ASSUME client = A!Shodan PROVE CreditInv'
        BY <1>0 DEF CreditInv
      <3>1. /\ Running' \subseteq Running /\ Pending' = Pending \ {c}
            /\ c \in Spending => c \in Pending
        BY <1>0, <2>0, <2>5, SpendingCalls
        DEF Running, Pending, CallsTyped, Requesting, A!InFlight
      <3>2. CASE credits' = credits
        BY <1>0, <3>1, <3>2, CreditsAlone
      <3>3. CASE c \in Spending /\ credits' = credits - 1
        <4>1. /\ Running \in SUBSET Spending /\ Running' \in SUBSET Spending
              /\ Pending \in SUBSET Spending
          BY DEF Running, Pending
        <4> DEFINE r == Cardinality(Running)    r2 == Cardinality(Running')
                   p == Cardinality(Pending)    p2 == Cardinality(Pending')
        <4>2. r2 <= r /\ r \in Nat /\ r2 \in Nat /\ p \in Nat
          BY <3>1, <4>1, SpendersCount
        <4>3. p2 = p - 1
          BY <3>1, <3>3, <4>1, SpendersCount
        <4>4. r <= limit /\ credits - p > -limit
          BY DEF CreditInv
        <4>5. r2 <= limit /\ credits' - p2 > -limit => CreditInv'
          BY <1>0 DEF CreditInv
        <4> HIDE DEF r, r2, p, p2
        <4> QED
          BY <3>3, <4>2, <4>3, <4>4, <4>5 DEF CallsTyped
      <3> QED
        BY <2>5, <3>2, <3>3
    <2> QED
      BY <1>1, <2>3, <2>4, <2>6
  <1> QED
    BY <1>2, <1>3, <1>4 DEF A!Answered

LEMMA ClientStutter == ClientInv /\ UNCHANGED A!vars => ClientInv'
  BY CreditsAlone
  DEF ClientInv, A!vars, A!calls, A!shared, A!limiter, CallsTyped, LimiterInv, MutexInv,
      AccountInv, Running, Pending, A!SpacedGrants, A!InFlight

\* The calls of a client keep their inductive invariant, whichever client it is (the Exec
\* of the modules and their rate limiters).
THEOREM ClientInductive == A!Spec => []ClientInv
  <1>1. ClientInv /\ [A!Next]_A!vars => ClientInv'
    <2> SUFFICES ASSUME ClientInv, [A!Next]_A!vars PROVE ClientInv'
      OBVIOUS
    <2> QED
      BY ApproachSteps, GrantSteps, TickStep, AnswerSteps, ClientStutter DEF A!Next, A!CallStep
  <1> QED
    BY ClientInitial, <1>1, PTL DEF A!Spec

LEMMA ModulesHaveClient == ModulesSpec => A!Spec
  <1>1. ModulesInit => A!Init
    BY DEF ModulesInit
  <1>2. [ModulesNext]_moduleVars => [A!Next]_A!vars
    BY DEF ModulesNext, moduleVars, apiClient, A!vars, A!calls, A!shared, A!limiter
  <1> QED
    BY <1>1, <1>2, PTL DEF ModulesSpec, A!Spec

\* The rate limiter of a client never lets two calls through within its delay, whether
\* they sleep with the mutex held or reserve their moments (waitRateLimit).
THEOREM GrantsAreSpaced == ModulesSpec => []SpacedGrants
  <1>1. ClientInv => SpacedGrants
    BY DEF ClientInv, LimiterInv, SpacedGrants
  <1> QED
    BY ModulesHaveClient, ClientInductive, <1>1, PTL

\* The domain lookups of Shodan overdraw its credits by less than the number of them that
\* may run at once, and one at a time not at all (checkQuota of every page).
THEOREM OverdraftIsBounded == ModulesSpec => []CreditsKept
  <1>1. ClientInv => CreditsKept
    <2> SUFFICES ASSUME ClientInv, client = A!Shodan PROVE credits > -limit
      BY DEF CreditsKept, A!CreditsKept
    <2>1. Pending \in SUBSET Spending
      BY DEF Pending
    <2> DEFINE p == Cardinality(Pending)
    <2>2. p \in Nat
      BY <2>1, SpendersCount
    <2>3. credits - p > -limit
      BY DEF ClientInv, CreditInv
    <2> HIDE DEF p
    <2> QED
      BY <2>2, <2>3 DEF ClientInv, CallsTyped
  <1> QED
    BY ModulesHaveClient, ClientInductive, <1>1, PTL
=============================================================================
