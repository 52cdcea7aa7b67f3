----------------------------- MODULE Preflight ------------------------------
(***************************************************************************)
(* The check of a DNS zone before its records are queried                  *)
(* (modules/utils/preflightcheck). Functions of the dns and mailcrypto     *)
(* modules ask for the same target at the same time: the first one looks   *)
(* up the name servers of the zone through the plain resolvers and asks    *)
(* up to two of them, the others wait for what it finds, and the verdict   *)
(* is kept for the life of the process.                                    *)
(***************************************************************************)
EXTENDS Naturals, FiniteSets

CONSTANTS Caller,
          Ip,        \* addresses of name servers
          Attempts,  \* min(MaxRetriesPreflight, number of plain resolvers)
          MaxNs      \* bound: name servers of the zone

VARIABLES
    pc,        \* "idle", "wait", "fetch", "resolve", "ask", "done"
    verdict,   \* what PreFlightCheck has returned to a caller
    err,       \* check.err; "unknown" until the channel is closed
    ns,        \* number of NS records
    at,        \* which of them, in their order, is being asked
    tries,     \* resolvers tried for the present lookup
    ip,        \* the address of the present name server
    cache,     \* dnsQueryCache: what an address has answered
    confirmations, checked,
    bad, well, \* history: addresses that answered with a broken or a good code
    word       \* history: what the zone was condemned by without asking a name server

lookup == <<ns, at, tries, ip>>
count == <<confirmations, checked>>
history == <<bad, well, word>>
vars == <<pc, verdict, err, lookup, cache, count, history>>

Verdict == {"sound", "broken", "failed"}
NoIp == "no address"

\* Without a name server: the target is no domain name, a plain resolver says that
\* there are no NS records, or it answers with an error ("server misbehaving").
Word == {"invalid", "no records", "misbehaving"}

TypeOK ==
    /\ pc \in [Caller -> {"idle", "wait", "fetch", "resolve", "ask", "done"}]
    /\ verdict \in [Caller -> Verdict \cup {"unknown"}] /\ err \in Verdict \cup {"unknown"}
    /\ ns \in 0..MaxNs /\ at \in 1..3 /\ tries \in 0..Attempts
    /\ ip \in Ip \cup {NoIp}
    /\ cache \in [Ip -> {"none", "bad", "well"}]
    /\ confirmations \in 0..2 /\ checked \in 0..2
    /\ bad \in SUBSET Ip /\ well \in SUBSET Ip /\ word \in Word \cup {"none"}

Init ==
    /\ pc = [c \in Caller |-> "idle"]
    /\ verdict = [c \in Caller |-> "unknown"] /\ err = "unknown"
    /\ ns = 0 /\ at = 1 /\ tries = 0 /\ ip = NoIp
    /\ cache = [a \in Ip |-> "none"]
    /\ confirmations = 0 /\ checked = 0
    /\ bad = {} /\ well = {} /\ word = "none"

Goto(c, to) == pc' = [pc EXCEPT ![c] = to]

\* The mutant returns without closing the channel.
ConcludeOpen(c, v) ==
    /\ verdict' = [verdict EXCEPT ![c] = v] /\ UNCHANGED err
    /\ Goto(c, "done")

\* The verdict is stored and the channel closed.
Conclude(c, v) ==
    /\ err' = v /\ verdict' = [verdict EXCEPT ![c] = v]
    /\ Goto(c, "done")

-----------------------------------------------------------------------------
\* LoadOrStore. An invalid target counts as a broken zone.
Lead(c) ==
    /\ pc[c] = "idle" /\ \A d \in Caller : pc[d] = "idle"
    /\ \/ Goto(c, "fetch") /\ UNCHANGED <<verdict, err, word>>
       \/ Conclude(c, "broken") /\ word' = "invalid"
    /\ UNCHANGED <<lookup, cache, count, bad, well>>

Join(c) ==
    /\ pc[c] = "idle" /\ \E d \in Caller : pc[d] # "idle"
    /\ Goto(c, "wait")
    /\ UNCHANGED <<verdict, err, lookup, cache, count, history>>

Learn(c) ==
    /\ pc[c] = "wait" /\ err # "unknown"
    /\ verdict' = [verdict EXCEPT ![c] = err] /\ Goto(c, "done")
    /\ UNCHANGED <<err, lookup, cache, count, history>>

TryNext == tries' = tries + 1

\* fetchNSRecords: the first resolver that says there is none, or that misbehaves,
\* is believed; after any other error the next one is asked.
FetchNs(c) ==
    /\ pc[c] = "fetch"
    /\ \/ /\ ns' \in 1..MaxNs /\ tries' = 0 /\ Goto(c, "resolve")
          /\ UNCHANGED <<verdict, err, word>>
       \/ /\ Conclude(c, "broken") /\ word' \in {"no records", "misbehaving"}
          /\ UNCHANGED <<ns, tries>>
       \/ /\ tries + 1 < Attempts /\ TryNext
          /\ UNCHANGED <<pc, verdict, err, ns, word>>
       \/ /\ tries + 1 = Attempts /\ Conclude(c, "failed")
          /\ UNCHANGED <<ns, tries, word>>
    /\ UNCHANGED <<at, ip, cache, count, bad, well>>

\* The verdict after the last name server.
Believe(confirmed, of) == IF confirmed > 0 /\ confirmed = of THEN "broken" ELSE "sound"

\* The loop goes on with the next name server, of which it asks at most two.
NextNs(c, confirmed, of) ==
    /\ confirmations' = confirmed /\ checked' = of
    /\ at' = at + 1 /\ tries' = 0 /\ ip' = NoIp
    /\ IF at < ns /\ at < 2 THEN Goto(c, "resolve") /\ UNCHANGED <<verdict, err>>
                            ELSE Conclude(c, Believe(confirmed, of))

\* resolveNSAddress: a name that does not exist ends the attempts.
ResolveNs(c) ==
    /\ pc[c] = "resolve"
    /\ \/ /\ ip' \in Ip /\ tries' = 0 /\ Goto(c, "ask")
          /\ UNCHANGED <<verdict, err, at, count>>
       \/ /\ tries + 1 < Attempts /\ TryNext
          /\ UNCHANGED <<pc, verdict, err, at, ip, count>>
       \/ NextNs(c, confirmations, checked)
    /\ UNCHANGED <<ns, cache, history>>

\* performDirectSOAQuery, unless the address has been asked before.
QueryFails(c) ==
    /\ pc[c] = "ask" /\ cache[ip] = "none"
    /\ NextNs(c, confirmations, checked)
    /\ UNCHANGED <<ns, cache, history>>

\* The mutant passes over a good answer as over none.
AnswersOn(c, a) ==
    /\ pc[c] = "ask" /\ cache[ip] \in {"none", a}
    /\ cache' = [cache EXCEPT ![ip] = a]
    /\ IF a = "bad" THEN NextNs(c, confirmations + 1, checked + 1)
       ELSE NextNs(c, confirmations, checked)
    /\ bad' = IF a = "bad" THEN bad \cup {ip} ELSE bad
    /\ well' = IF a = "well" THEN well \cup {ip} ELSE well
    /\ UNCHANGED <<ns, word>>

Answers(c, a) ==
    /\ pc[c] = "ask" /\ cache[ip] \in {"none", a}
    /\ cache' = [cache EXCEPT ![ip] = a]
    /\ IF a = "bad" THEN NextNs(c, confirmations + 1, checked + 1)
       ELSE Conclude(c, "sound") /\ UNCHANGED <<at, tries, ip, count>>
    /\ bad' = IF a = "bad" THEN bad \cup {ip} ELSE bad
    /\ well' = IF a = "well" THEN well \cup {ip} ELSE well
    /\ UNCHANGED <<ns, word>>

-----------------------------------------------------------------------------
Step(c) == \/ Lead(c) \/ Join(c) \/ Learn(c) \/ FetchNs(c) \/ ResolveNs(c) \/ QueryFails(c)
           \/ \E a \in {"bad", "well"} : Answers(c, a)

Next == \E c \in Caller : Step(c)

Spec == Init /\ [][Next]_vars

\* Every query has a timeout.
Fairness == \A c \in Caller : WF_vars(Step(c))

FairSpec == Spec /\ Fairness

-----------------------------------------------------------------------------
\* What a caller is told is what was found out, whoever found it out: the zone is
\* broken if and only if it was condemned without its name servers, by the form of
\* the target or by one plain resolver, or if a name server confirmed it and none
\* denied it; a check that failed has heard nothing from any of them.
VerdictOnEvidence ==
    \A c \in Caller : verdict[c] # "unknown" =>
        /\ verdict[c] = "broken" <=> word \in Word \/ (bad # {} /\ well = {})
        /\ verdict[c] = "failed" => bad \cup well = {}

\* Nobody waits forever for a check that another caller has begun.
CheckEnds == \A c \in Caller : pc[c] = "wait" ~> pc[c] = "done"

\* preflight.go:112: "A zone is only marked as broken when at least two independent
\* nameservers confirm the failure. If the parent zone has a single NS, one
\* confirmation suffices."
TwoConfirmations ==
    err = "broken" => word \in {"invalid", "no records"}
                      \/ Cardinality(bad) >= (IF ns = 1 THEN 1 ELSE 2)
=============================================================================
