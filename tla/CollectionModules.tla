------------------------ MODULE CollectionModules ---------------------------
(* What collection modules do by themselves, side by side: the calls of an   *)
(* API client, and the check of a DNS zone. "part" says which one a          *)
(* behaviour is about; the fairness is that of the part. Preflight is        *)
(* extended, ApiClients is an instance.                                      *)
EXTENDS Preflight

CONSTANTS Call, Spending, Tries, MaxPages, Delay, MaxCredits, Limits  \* ApiClients

VARIABLES
    part,
    client, limit, aPc, asks, aTries, page, last, aVerdict, profile, refused, credits, holder,
    ago, woke

apiClient == <<client, limit, aPc, asks, aTries, page, last, aVerdict, profile, refused,
               credits, holder, ago, woke>>
moduleVars == <<part, apiClient, vars>>

A == INSTANCE ApiClients WITH pc <- aPc, tries <- aTries, verdict <- aVerdict

\* The delay is a time; no call is the mark for an unlocked mutex.
ASSUME DelayNatural == Delay \in Nat
ASSUME NobodyApart == A!Nobody \notin Call
\* A limit is positive (dispatcher.go takes no other from the file).
ASSUME LimitsPositive == Limits \subseteq Nat \ {0}
ASSUME SpendingCalls == Spending \subseteq Call /\ IsFiniteSet(Call)

ModulesInit ==
    /\ part \in {"client", "zone"}
    /\ A!Init /\ Init
    /\ part # "client" => client = A!Anubis

ModulesNext ==
    /\ UNCHANGED part
    /\ \/ part = "client" /\ A!Next /\ UNCHANGED vars
       \/ part = "zone" /\ Next /\ UNCHANGED apiClient

\* The fairness of the part that runs.
ModulesFairness ==
    /\ WF_moduleVars(part = "client" /\ A!Tick /\ UNCHANGED <<part, vars>>)
    /\ \A c \in Call :
           /\ WF_moduleVars(part = "client" /\ A!CallStep(c) /\ UNCHANGED <<part, vars>>)
           /\ SF_moduleVars(part = "client" /\ A!Lock(c) /\ UNCHANGED <<part, vars>>)
    /\ \A c \in Caller :
           WF_moduleVars(part = "zone" /\ Step(c) /\ UNCHANGED <<part, apiClient>>)

ModulesSpec == ModulesInit /\ [][ModulesNext]_moduleVars /\ ModulesFairness

-----------------------------------------------------------------------------
\* The properties of the instance, under their own names. ApiClients: the limiter
\* spaces requests, only calls that run at once overdraw credits, and every call comes
\* to an end.
SpacedGrants == A!SpacedGrants
CreditsKept == A!CreditsKept
CallsEnd == A!CallsEnd
=============================================================================
