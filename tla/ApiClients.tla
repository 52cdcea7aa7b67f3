---------------------------- MODULE ApiClients ------------------------------
(***************************************************************************)
(* The modules that query remote services over HTTP (src/modules). They    *)
(* are written alike: a call asks whether the key has been refused, once   *)
(* per process looks at the account, waits for the rate limiter, sends a   *)
(* request, and then retries, asks for the next page, or concludes. They   *)
(* differ in what they do with an answer; the record of a client says it.  *)
(* The calls of one client are modelled; which one is chosen initially.    *)
(***************************************************************************)
EXTENDS Integers, FiniteSets

CONSTANTS Call,      \* calls of the functions of a client, which run at once
          Spending,  \* the calls of Shodan that spend query credits
          Tries,     \* attempts at a request
          MaxPages,
          Delay,     \* of the rate limiter, in units of time
          MaxCredits,
          Limits     \* how many domain lookups of Shodan's may run at once: config.txt
                     \* may set another number than the module's own, which is 1

\* What a request may end with. "exhausted" is a 429, or a 200 of HackerTarget,
\* whose headers or body say that the quota of the day is used up; "lost" is a
\* request or a body that failed; "malformed" a 200 that cannot be parsed.
Answer == {"ok", "malformed", "notFound", "unauthorized", "forbidden", "payment",
           "rejected", "throttled", "exhausted", "serverError", "lost"}
Denied == {"unauthorized", "forbidden"}
Limited == {"throttled", "exhausted"}

\* retried: answers that are retried while attempts are left; error: answers that
\* set exec.Error; info: answers that are reported as a result; of the others "ok"
\* gives data and the rest nothing. refused: answers after which later calls do
\* not ask. limiter: how the rate limiter waits; again: whether a retry waits for
\* it; profile: what the look at the account retries, if there is one.
NoProfile == {"no profile"}

Netlas == [
    retried |-> {"throttled", "serverError"},
    error   |-> Answer \ {"ok", "throttled"},
    info    |-> {"throttled"},
    refused |-> Denied \cup {"payment", "exhausted"},
    limiter |-> "holding", again |-> TRUE,
    profile |-> {"throttled", "exhausted", "serverError"}, pages |-> 1, credits |-> FALSE]

VirusTotal == [
    retried |-> Limited \cup {"serverError", "lost"},
    error   |-> {"malformed", "rejected", "serverError", "lost"},
    info    |-> Denied \cup Limited \cup {"payment"},
    refused |-> Denied,
    limiter |-> "reserving", again |-> TRUE,
    profile |-> NoProfile, pages |-> MaxPages, credits |-> FALSE]

Hunter == [
    retried |-> Limited \cup {"serverError", "lost"},
    error   |-> {"malformed", "serverError", "lost"},
    info    |-> Denied \cup Limited \cup {"notFound", "payment", "rejected"},
    refused |-> Denied \cup Limited,
    limiter |-> "holding", again |-> FALSE,
    profile |-> {}, pages |-> MaxPages, credits |-> TRUE]

HaveIBeenPwned == [
    retried |-> Limited \cup {"serverError"},
    error   |-> Answer \ {"ok", "notFound"},
    info    |-> {}, refused |-> {},
    limiter |-> "holding", again |-> TRUE,
    profile |-> NoProfile, pages |-> 1, credits |-> FALSE]

AbuseIPDB == [
    retried |-> {"throttled", "lost"},
    error   |-> Answer \ {"ok"},
    info    |-> {}, refused |-> {},
    limiter |-> "none", again |-> FALSE,
    profile |-> NoProfile, pages |-> 1, credits |-> FALSE]

IPinfo == [
    retried |-> {"serverError", "lost"},
    error   |-> Answer \ ({"ok"} \cup Limited),
    info    |-> Limited, refused |-> {},
    limiter |-> "none", again |-> FALSE,
    profile |-> NoProfile, pages |-> 1, credits |-> FALSE]

HackerTarget == [
    retried |-> {"throttled", "serverError", "lost"},
    error   |-> {},
    info    |-> {"exhausted"}, refused |-> {},
    limiter |-> "none", again |-> FALSE,
    profile |-> NoProfile, pages |-> 1, credits |-> FALSE]

Anubis == [
    retried |-> Limited \cup {"serverError", "lost"},
    error   |-> Answer \ {"ok", "forbidden"},
    info    |-> {"forbidden"}, refused |-> {},
    limiter |-> "none", again |-> FALSE,
    profile |-> NoProfile, pages |-> 1, credits |-> FALSE]

Shodan == [
    retried |-> {},
    error   |-> Answer \ {"ok", "notFound"},
    info    |-> {}, refused |-> {},
    limiter |-> "holding", again |-> FALSE,
    profile |-> {}, pages |-> MaxPages, credits |-> TRUE]

LeakIX == [
    retried |-> Limited \cup {"serverError", "malformed"},
    error   |-> Answer \ ({"ok", "notFound"} \cup Denied),
    info    |-> {}, refused |-> Denied,
    limiter |-> "holding", again |-> TRUE,
    profile |-> NoProfile, pages |-> 1, credits |-> FALSE]

Circl == [
    retried |-> Limited \cup {"serverError", "lost"},
    error   |-> Answer \ {"ok", "notFound", "malformed"},
    info    |-> {}, refused |-> {},
    limiter |-> "exclusive", again |-> FALSE,
    profile |-> NoProfile, pages |-> MaxPages, credits |-> FALSE]

Clients == {Netlas, VirusTotal, Hunter, HaveIBeenPwned, AbuseIPDB, IPinfo,
            HackerTarget, Anubis, Shodan, LeakIX, Circl}

VARIABLES
    client,   \* the client whose calls are modelled
    limit,    \* of the calls of Shodan's that spend credits
    pc,       \* "idle", "account" (waits for another call's look at the account),
              \* "check", "limit", "sleep", "send", "done"
    asks,     \* what the next request of a call asks for: the account or a page
    tries,    \* attempts made at it
    page,
    last,     \* the last answer to a call
    verdict,  \* what the call reports
    profile,  \* preflightOnce: "none", "running", "done"
    refused,  \* keyInvalid, quotaBlocked, quotaExceeded, blockedStatus
    credits,
    holder,   \* the call that holds the mutex
    ago,      \* time since lastReqTime, up to Delay; negative if it is ahead
    woke      \* time since the limiter let a call through, likewise

calls == <<pc, asks, tries, page, last, verdict>>
shared == <<profile, refused, credits>>
limiter == <<holder, ago, woke>>
vars == <<client, limit, calls, shared, limiter>>

Nobody == "nobody"
Verdict == {"data", "nothing", "info", "error"}
Ago == (-Delay * Cardinality(Call))..Delay

TypeOK ==
    /\ client \in Clients /\ limit \in Limits \cup {1}
    /\ pc \in [Call -> {"idle", "account", "check", "limit", "sleep", "send", "done"}]
    /\ asks \in [Call -> {"account", "page"}]
    /\ tries \in [Call -> 0..Tries] /\ page \in [Call -> 1..MaxPages]
    /\ last \in [Call -> Answer \cup {"none"}]
    /\ verdict \in [Call -> Verdict \cup {"none"}]
    /\ profile \in {"none", "running", "done"} /\ refused \in BOOLEAN /\ credits \in Int
    /\ holder \in Call \cup {Nobody} /\ ago \in Ago /\ woke \in [Call -> Ago]

\* loadMemoryConfig: what the file says comes before what the module declares.
LimitsOf(cl) == IF cl = Shodan THEN Limits ELSE {1}

Init ==
    /\ client \in Clients
    /\ limit \in LimitsOf(client)
    /\ pc = [c \in Call |-> "idle"] /\ asks = [c \in Call |-> "page"]
    /\ tries = [c \in Call |-> 0] /\ page = [c \in Call |-> 1]
    /\ last = [c \in Call |-> "none"] /\ verdict = [c \in Call |-> "none"]
    /\ profile = IF client.profile = NoProfile THEN "done" ELSE "none"
    /\ refused = FALSE /\ credits = 0
    /\ holder = Nobody /\ ago = Delay /\ woke = [c \in Call |-> Delay]

Goto(c, to) == pc' = [pc EXCEPT ![c] = to]
ToLimiter(c) == Goto(c, IF client.limiter = "none" THEN "send" ELSE "limit")

\* The mutant returns on an early path without unlocking.
FreeLater(c) == holder' = IF holder = c /\ tries[c] = 0 THEN Nobody ELSE holder
Free(c) == holder' = IF holder = c THEN Nobody ELSE holder

Conclude(c, v) ==
    /\ Goto(c, "done") /\ verdict' = [verdict EXCEPT ![c] = v]
    /\ UNCHANGED <<asks, tries, page>>

InFlight(c) == pc[c] \notin {"idle", "done"}

\* The dispatcher runs as many calls of a function at a time as its limit says.
Begin(c) ==
    /\ pc[c] = "idle" /\ Goto(c, "account")
    /\ client = Shodan /\ c \in Spending =>
           Cardinality({d \in Spending : InFlight(d)}) < limit
    /\ UNCHANGED <<client, limit, asks, tries, page, last, verdict, shared, limiter>>

\* preflightOnce.Do: the first call looks at the account, the others wait for it.
LookAtAccount(c) ==
    /\ pc[c] = "account" /\ profile = "none"
    /\ profile' = "running"
    /\ asks' = [asks EXCEPT ![c] = "account"] /\ Goto(c, "limit")
    /\ UNCHANGED <<client, limit, tries, page, last, verdict, refused, credits, limiter>>

AccountSeen(c) ==
    /\ pc[c] = "account" /\ profile = "done"
    /\ Goto(c, "check")
    /\ UNCHANGED <<client, limit, asks, tries, page, last, verdict, shared, limiter>>

Spends(c) == client.credits /\ (client = Hunter \/ c \in Spending)
MayAsk(c) == ~refused /\ (Spends(c) => credits > 0)

\* The mutant looks at the credits before the first page only.
CheckFirstPage(c) ==
    /\ pc[c] = "check"
    /\ \/ /\ (MayAsk(c) \/ page[c] > 1) /\ UNCHANGED <<asks, tries, page, verdict>>
          /\ IF page[c] > 1 THEN Goto(c, "send") ELSE ToLimiter(c)
       \/ /\ ~MayAsk(c) /\ page[c] = 1
          /\ Conclude(c, "info")
    /\ UNCHANGED <<client, limit, last, shared, limiter>>

\* Shodan asks again before every page, and stops without a word.
Check(c) ==
    /\ pc[c] = "check"
    /\ \/ /\ MayAsk(c) /\ UNCHANGED <<asks, tries, page, verdict>>
          /\ IF page[c] > 1 THEN Goto(c, "send") ELSE ToLimiter(c)
       \/ /\ ~MayAsk(c)
          /\ Conclude(c, IF page[c] = 1 THEN "info" ELSE "data")
    /\ UNCHANGED <<client, limit, last, shared, limiter>>

-----------------------------------------------------------------------------
(* The rate limiter. It sleeps with the mutex held; VirusTotal reserves a   *)
(* moment and sleeps without it; CIRCL holds its mutex until the answer.    *)

Lock(c) ==
    /\ pc[c] = "limit" /\ client.limiter \in {"holding", "exclusive"} /\ holder = Nobody
    /\ holder' = c /\ Goto(c, "sleep")
    /\ UNCHANGED <<client, limit, asks, tries, page, last, verdict, shared, ago, woke>>

Later(x, y) == IF x > y THEN x ELSE y

\* The mutant reserves from the present moment.
ReserveNow(c) ==
    /\ pc[c] = "limit" /\ client.limiter = "reserving"
    /\ LET ahead == IF ago >= Delay THEN 0 ELSE Delay - Later(ago, 0)
       IN  ago' = -ahead /\ woke' = [woke EXCEPT ![c] = -ahead]
    /\ Goto(c, "sleep")
    /\ UNCHANGED <<client, limit, asks, tries, page, last, verdict, shared, holder>>

Reserve(c) ==
    /\ pc[c] = "limit" /\ client.limiter = "reserving"
    /\ LET ahead == Delay - ago
       IN  ago' = -ahead /\ woke' = [woke EXCEPT ![c] = -ahead]
    /\ Goto(c, "sleep")
    /\ UNCHANGED <<client, limit, asks, tries, page, last, verdict, shared, holder>>

Wake(c) ==
    /\ pc[c] = "sleep"
    /\ IF client.limiter = "reserving"
         THEN woke[c] >= 0 /\ UNCHANGED <<ago, woke>>
         ELSE ago >= Delay /\ ago' = 0 /\ woke' = [woke EXCEPT ![c] = 0]
    /\ IF client.limiter = "holding" THEN Free(c) ELSE UNCHANGED holder
    /\ Goto(c, "send")
    /\ UNCHANGED <<client, limit, asks, tries, page, last, verdict, shared>>

Older(t) == IF t < Delay THEN t + 1 ELSE t

Tick ==
    /\ (ago < Delay) \/ (\E c \in Call : woke[c] < Delay)
    /\ ago' = Older(ago) /\ woke' = [c \in Call |-> Older(woke[c])]
    /\ UNCHANGED <<client, limit, calls, shared, holder>>

-----------------------------------------------------------------------------
(* Answers.                                                                  *)

Retries(c, a, retried) ==
    /\ a \in retried /\ tries[c] + 1 < Tries
    /\ last' = [last EXCEPT ![c] = a]
    /\ tries' = [tries EXCEPT ![c] = @ + 1]
    /\ UNCHANGED <<asks, page, verdict>>

Exhausts(c, a, retried) == a \notin retried \/ tries[c] + 1 = Tries

\* The look at the account: whatever else goes wrong condemns the key.
AnswerAccount(c, a) ==
    /\ pc[c] = "send" /\ asks[c] = "account"
    /\ \/ /\ Retries(c, a, client.profile)
          /\ ToLimiter(c) /\ UNCHANGED <<shared, holder>>
       \/ /\ Exhausts(c, a, client.profile)
          /\ last' = [last EXCEPT ![c] = a]
          /\ profile' = "done"
          /\ \E n \in IF a = "ok" /\ client.credits THEN 0..MaxCredits ELSE {0} :
                 /\ credits' = n
                 /\ refused' = (a # "ok" \/ (client = Hunter /\ n = 0))
          /\ asks' = [asks EXCEPT ![c] = "page"] /\ tries' = [tries EXCEPT ![c] = 0]
          /\ Goto(c, "check") /\ Free(c)
          /\ UNCHANGED <<page, verdict>>
    /\ UNCHANGED <<client, limit, ago, woke>>

Reported(a) == IF a \in client.error THEN "error" ELSE IF a \in client.info THEN "info"
               ELSE IF a = "ok" THEN "data" ELSE "nothing"

Retry(c, a) ==
    /\ pc[c] = "send" /\ asks[c] = "page"
    /\ Retries(c, a, client.retried)
    /\ IF client.again THEN ToLimiter(c) ELSE UNCHANGED pc
    /\ UNCHANGED <<client, limit, shared, limiter>>

Spend(c, a) == credits' = IF Spends(c) /\ a \in {"ok", "malformed"} THEN credits - 1
                          ELSE IF client = Hunter /\ a \in client.refused THEN 0 ELSE credits

NextPage(c) ==
    /\ pc[c] = "send" /\ asks[c] = "page" /\ page[c] < client.pages
    /\ client = Shodan => c \in Spending
    /\ last' = [last EXCEPT ![c] = "ok"] /\ Spend(c, "ok")
    /\ page' = [page EXCEPT ![c] = @ + 1] /\ tries' = [tries EXCEPT ![c] = 0]
    /\ CASE client = Shodan -> Goto(c, "check")
         [] client = Hunter -> UNCHANGED pc
         [] OTHER -> Goto(c, "limit")
    /\ Free(c)
    /\ UNCHANGED <<client, limit, asks, verdict, profile, refused, ago, woke>>

Settle(c, a) ==
    /\ pc[c] = "send" /\ asks[c] = "page"
    /\ Exhausts(c, a, client.retried)
    /\ last' = [last EXCEPT ![c] = a]
    /\ Conclude(c, Reported(a))
    /\ refused' = (refused \/ a \in client.refused) /\ Spend(c, a)
    /\ Free(c)
    /\ UNCHANGED <<client, limit, profile, ago, woke>>

-----------------------------------------------------------------------------
Answered(c) == NextPage(c) \/ \E a \in Answer : AnswerAccount(c, a) \/ Retry(c, a) \/ Settle(c, a)
CallStep(c) == \/ Begin(c) \/ LookAtAccount(c) \/ AccountSeen(c) \/ Check(c)
               \/ Lock(c) \/ Reserve(c) \/ Wake(c) \/ Answered(c)

Next == Tick \/ \E c \in Call : CallStep(c)

Spec == Init /\ [][Next]_vars

\* Requests have timeouts, time passes, and a mutex of Go does not starve a waiter.
Fairness == /\ WF_vars(Tick)
            /\ \A c \in Call : WF_vars(CallStep(c)) /\ SF_vars(Lock(c))

FairSpec == Spec /\ Fairness

-----------------------------------------------------------------------------
\* The limiter never lets two calls through within its delay, whether they sleep
\* with the mutex held or reserve their moments.
SpacedGrants ==
    \A c, d \in Call : c # d /\ woke[c] < Delay /\ woke[d] < Delay =>
        woke[c] - woke[d] >= Delay \/ woke[d] - woke[c] >= Delay

\* Shodan's domain lookups stop at the last credit, also between the pages of one
\* call. Lookups that run at once may all have seen that credit: each of them but
\* one overdraws it by a request, and one at a time overdraws nothing.
CreditsKept == client = Shodan => credits > -limit

\* A call comes to a verdict, through preflight, limiter, retries and pages.
CallsEnd == \A c \in Call : pc[c] = "account" ~> pc[c] = "done"

\* MODULE_GUIDE.md: Error must be set in the event of a technical failure, "e.g.,
\* network error, bad HTTP status, or parsing failure".
FailuresAreErrors ==
    \A c \in Call : pc[c] = "done" /\ last[c] \in {"lost", "serverError"} /\ asks[c] = "page"
                        => verdict[c] = "error" \/ refused
=============================================================================
