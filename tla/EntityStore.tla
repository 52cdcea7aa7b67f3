---------------------------- MODULE EntityStore ----------------------------
(***************************************************************************)
(* What repository.Store makes of packets over the sessions of a project:  *)
(* rows with their depths and anchors, relations, and the function log,    *)
(* from which a session, and after it every batch, takes its work.         *)
(*                                                                         *)
(* A node is a tuple <<n>>, a property of it <<n, k>>.  Packets come built *)
(* (see Packet) and are stored in any order; the dispatcher takes a batch  *)
(* at once.  Scope marks are left to ScopeSync: everything is in scope.    *)
(***************************************************************************)
EXTENDS Naturals, FiniteSets

CONSTANTS
    Name,         \* nodes
    Properties,   \* properties that a node may have
    Target,       \* the initial target of the project
    AnchorOf,     \* names to the set of their anchor, empty for a domain
    Function,     \* functions of the modules
    Input,        \* the entities a function takes
    Limit,        \* values of the setting max_depth
    MaxPackets,   \* bound on the packets of a project
    MaxSessions,  \* bound on its sessions
    MaxFailures,  \* bound on the calls that fail in it
    Unresolved    \* unresolvedDepth

Node == {<<n>> : n \in Name}
Entity == Node \cup Properties

\* A name has at most one anchor, a domain, which has none itself.
ASSUME NamesAnchored ==
    /\ Target \in Name /\ AnchorOf \in [Name -> SUBSET Name]
    /\ \A n \in Name : \A a \in AnchorOf[n] : AnchorOf[n] = {a} /\ AnchorOf[a] = {}
ASSUME PropertiesApart == Node \cap Properties = {}
ASSUME DepthsNatural == Unresolved \in Nat

VARIABLES
    row,         \* the rows of entities
    relations,
    log,         \* entity_function_log: is_success of an entity's functions
    running,     \* calls whose packet has not been stored
    open,        \* a session is open
    limit, strictDepth,  \* max_depth and strict_depth of the session, or 0 and FALSE
    packets, sessions, failures,  \* counters
    resumed,     \* history: the session has taken up what was pending
    vanished     \* history: calls of the session that ended without a trace

vars == <<row, relations, log, running, open, limit, strictDepth, packets, sessions,
          failures, resumed, vanished>>

-----------------------------------------------------------------------------
(* Rows and batches *)

Least(S) == CHOOSE d \in S : \A e \in S : d <= e

\* The anchor of an entity, as a set; properties have none.
Anchors(e) == IF e \in Node THEN {<<a>> : a \in AnchorOf[e[1]]} ELSE {}

\* COALESCE(a.depth_relaxed, e.depth_relaxed)
DepthRelaxed(rows, e) == Least({rows[x].relaxed :
                                x \in IF rows[e].anchored THEN Anchors(e) ELSE {e}})

\* What a batch knows of x before its results are looked at: rows of nodes and of
\* the source are loaded, and a node is an anchor until a result names it.
State(source, x) ==
    IF x = source \/ (x \in Node /\ x \in DOMAIN row)
    THEN [row[x] EXCEPT !.relaxed = DepthRelaxed(row, x)]
    ELSE [strict |-> Unresolved, relaxed |-> Unresolved, isAnchor |-> x \in Node,
          anchored |-> FALSE]

Named(source, results) ==
    {source} \cup {r.source : r \in results} \cup {r.entity : r \in results}

Batch(source, results) ==
    Named(source, results) \cup UNION {Anchors(r.entity) : r \in results}

\* A step to a node costs one, a property is where its source is.
Cost(e) == IF e \in Node THEN 1 ELSE 0

\* The mutant steps over nodes without a charge.
StrictForFree(s, r) == s[r.source].strict
Strict(s, r) == s[r.source].strict + Cost(r.entity)

Relaxed(s, r) == s[r.source].relaxed + Cost(r.entity)

\* One pass over the results.  What has an anchor is reached by way of it.
Relax(results, s) ==
    LET reached == {r \in results : s[r.source].strict # Unresolved}
    IN  [x \in DOMAIN s |->
            LET into == {r \in reached : r.entity = x}
                below == {r \in reached : x \in Anchors(r.entity)}
                free == {r \in into : Anchors(x) = {}}
                ofAnchor == IF into = {} THEN {} ELSE {s[a].relaxed : a \in Anchors(x)}
            IN  [s[x] EXCEPT
                    !.strict = Least({@} \cup {Strict(s, r) : r \in into}),
                    !.relaxed = Least({@} \cup ofAnchor
                        \cup {s[r.source].relaxed + 1 : r \in below}
                        \cup {Relaxed(s, r) : r \in free}),
                    !.anchored = @ \/ \E d \in ofAnchor : d < s[x].relaxed]]

\* The states of a batch after every number of passes, of which there are as many as
\* the batch has entities.
Before(source, results) ==
    [x \in Batch(source, results) |->
        [State(source, x) EXCEPT !.isAnchor = @ /\ x \notin Named(source, results)]]

Passes(source, results) ==
    LET after[n \in 0..Cardinality(Batch(source, results))] ==
            IF n = 0 THEN Before(source, results) ELSE Relax(results, after[n - 1])
    IN  after

States(source, results) == Passes(source, results)[Cardinality(Batch(source, results))]

\* The mutant lets a row that began as an anchor stay one.
UpsertKeepsAnchor(s) ==
    [x \in DOMAIN row \cup DOMAIN s |->
        IF x \notin DOMAIN s THEN row[x]
        ELSE IF x \notin DOMAIN row THEN s[x]
        ELSE [strict   |-> Least({row[x].strict, s[x].strict}),
              relaxed  |-> Least({row[x].relaxed, s[x].relaxed}),
              isAnchor |-> row[x].isAnchor \/ s[x].isAnchor,
              anchored |-> row[x].anchored \/ (s[x].anchored /\ Anchors(x) \subseteq DOMAIN s)]]

\* upsertAnchorNodes, upsertRegularNodes with syncNodeAnchors, upsertPropertyLayer:
\* depths only fall, and a row that was named is no anchor any more.
Upsert(s) ==
    [x \in DOMAIN row \cup DOMAIN s |->
        IF x \notin DOMAIN s THEN row[x]
        ELSE IF x \notin DOMAIN row THEN s[x]
        ELSE [strict   |-> Least({row[x].strict, s[x].strict}),
              relaxed  |-> Least({row[x].relaxed, s[x].relaxed}),
              isAnchor |-> row[x].isAnchor /\ s[x].isAnchor,
              anchored |-> row[x].anchored \/ (s[x].anchored /\ Anchors(x) \subseteq DOMAIN s)]]

-----------------------------------------------------------------------------
(* Work *)

\* The calls for an entity that are not in a log, which holds failed ones as well.
Missing(l, e) == {<<e, fn>> : fn \in {n \in Function : e \in Input[n]}} \ DOMAIN l

\* The mutant takes the limit for the first depth that is too deep.
DispatchedBelow(batch, l, inFlight, max, strict) ==
    (UNION {Missing(l, i.entity) :
            i \in {j \in batch : (IF strict THEN j.strict ELSE j.relaxed) < max}}) \ inFlight

\* dispatcher.Dispatch of a batch: the calls it adds to those in flight.
Dispatched(batch, l, inFlight, max, strict) ==
    (UNION {Missing(l, i.entity) :
            i \in {j \in batch : (IF strict THEN j.strict ELSE j.relaxed) <= max}}) \ inFlight

\* The batch items of entities as they are stored.
StoredItems(rows, es) ==
    {[entity |-> e, strict |-> rows[e].strict, relaxed |-> DepthRelaxed(rows, e)] : e \in es}

\* The batch that Store returns: its results, nodes with the depths of their states,
\* properties with those of their rows.
Items(s, results) ==
    {LET d == IF r.entity \in Properties THEN Upsert(s)[r.entity] ELSE s[r.entity]
     IN  [entity |-> r.entity, strict |-> d.strict, relaxed |-> d.relaxed] : r \in results}

Relations(results) == {<<r.source, r.entity>> : r \in results}

\* The entities for which the function is done: the source of the packet, the sources
\* in between, and the results if the module marks them as applied.
Done(e, results, applied) ==
    {e} \cup {r.source : r \in results} \cup {r.entity : r \in {q \in results : applied}}

\* The log with these calls in it, over what it had of them.
Logged(calls, success) ==
    [k \in DOMAIN log \cup calls |-> IF k \in calls THEN success ELSE log[k]]

\* Packets about e: nothing, or one or two results, of which one may be below the
\* other.
Results(s) ==
    {[source |-> s, entity |-> x] :
     x \in {y \in Entity \ {s} : y \in Node \/ (s \in Node /\ y[1] = s[1])}}
Packets(e) ==
    {{}} \cup UNION {{{a, b} : b \in Results(e) \cup Results(a.entity)} : a \in Results(e)}

-----------------------------------------------------------------------------
Init ==
    /\ row = [e \in {<<Target>>} \cup Anchors(<<Target>>) |->
                 IF e = <<Target>>
                 THEN [strict |-> 0, relaxed |-> 0, isAnchor |-> FALSE,
                       anchored |-> Anchors(e) # {}]
                 ELSE [strict |-> Unresolved, relaxed |-> 0, isAnchor |-> TRUE,
                       anchored |-> FALSE]]
    /\ relations = {} /\ log = <<>> /\ running = {} /\ vanished = {}
    /\ open = FALSE /\ resumed = FALSE
    /\ limit = 0 /\ strictDepth = FALSE
    /\ packets = 0 /\ sessions = 0 /\ failures = 0

\* GetResumePayload for a session of the user's choice: entities whose functions are
\* not all in the log, or which failed; failures are then forgotten.
Resume ==
    /\ ~open /\ sessions < MaxSessions
    /\ limit' \in Limit /\ strictDepth' \in BOOLEAN
    /\ \E pending, retry \in BOOLEAN :
           LET failed == {k \in DOMAIN log : ~log[k]}
               left == {k \in DOMAIN log : retry => log[k]}
               work == {e \in DOMAIN row :
                           \/ pending /\ ~row[e].isAnchor /\ Missing(log, e) # {}
                           \/ retry /\ \E fn \in Function : <<e, fn>> \in failed}
           IN  /\ work # {}
               /\ log' = [k \in left |-> log[k]]
               /\ running' = Dispatched(StoredItems(row, work), log', {}, limit', strictDepth')
               /\ resumed' = pending
    /\ open' = TRUE /\ vanished' = {} /\ sessions' = sessions + 1
    /\ UNCHANGED <<row, relations, packets, failures>>

\* ResetProjectLog for a rescan.
ResetProjectLog ==
    /\ ~open /\ log # <<>>
    /\ log' = <<>>
    /\ UNCHANGED <<row, relations, running, open, limit, strictDepth, packets, sessions,
                   failures, resumed, vanished>>

\* Store, of a packet without an error.
Store(e, fn) ==
    /\ <<e, fn>> \in running
    /\ \E results \in Packets(e), applied \in BOOLEAN :
           LET s == States(e, results)
           IN  /\ results # {} => packets < MaxPackets
               /\ packets' = packets + (IF results = {} THEN 0 ELSE 1)
               /\ row' = Upsert(s)
               /\ relations' = relations \cup Relations(results)
               /\ log' = Logged(Done(e, results, applied) \X {fn}, TRUE)
               /\ running' = (running \ {<<e, fn>>})
                      \cup Dispatched(Items(s, results), log', running, limit, strictDepth)
    /\ UNCHANGED <<open, limit, strictDepth, sessions, failures, resumed, vanished>>

\* Store, of a packet with nothing but an error.
StoreError(e, fn) ==
    /\ <<e, fn>> \in running /\ failures < MaxFailures
    /\ failures' = failures + 1
    /\ log' = Logged({<<e, fn>>}, FALSE)
    /\ running' = running \ {<<e, fn>>}
    /\ UNCHANGED <<row, relations, open, limit, strictDepth, packets, sessions, resumed,
                   vanished>>

\* Exec or Store returns an error, which is only printed.
Vanish(e, fn) ==
    /\ <<e, fn>> \in running /\ failures < MaxFailures
    /\ failures' = failures + 1
    /\ running' = running \ {<<e, fn>>}
    /\ vanished' = vanished \cup {<<e, fn>>}
    /\ UNCHANGED <<row, relations, log, open, limit, strictDepth, packets, sessions, resumed>>

\* The run has ended, or the process.
End ==
    /\ open
    /\ open' = FALSE /\ resumed' = FALSE
    /\ running' = {} /\ vanished' = {}
    /\ limit' = 0 /\ strictDepth' = FALSE
    /\ UNCHANGED <<row, relations, log, packets, sessions, failures>>

Next ==
    \/ Resume \/ ResetProjectLog \/ End
    \/ \E e \in Entity, fn \in Function :
           Store(e, fn) \/ StoreError(e, fn) \/ Vanish(e, fn)

Spec == Init /\ [][Next]_vars

TypeOK ==
    /\ DOMAIN row \subseteq Entity
    /\ \A e \in DOMAIN row : row[e] \in [strict : Nat, relaxed : Nat, isAnchor : BOOLEAN,
                                         anchored : BOOLEAN]
    /\ relations \subseteq Entity \X Entity
    /\ DOMAIN log \subseteq Entity \X Function
    /\ running \cup vanished \subseteq Entity \X Function
    /\ limit \in Limit \cup {0} /\ strictDepth \in BOOLEAN /\ open \in BOOLEAN

-----------------------------------------------------------------------------
\* The distance of every entity from the target over the stored relations, after every
\* number of passes over them.
AtTarget == [e \in Entity |-> IF e = <<Target>> THEN 0 ELSE Unresolved]
Nearer(d) == [e \in Entity |-> Least({d[e]} \cup {d[r[1]] + Cost(e) :
                                                  r \in {q \in relations : q[2] = e}})]
NearerAfter ==
    LET after[n \in 0..Cardinality(DOMAIN row)] ==
            IF n = 0 THEN AtTarget ELSE Nearer(after[n - 1])
    IN  after

Distances == NearerAfter[Cardinality(DOMAIN row)]

\* No entity is taken to be nearer than what is stored about it shows, or a scan would
\* grow beyond its limit; and the relaxed depth, which counts an organisation once, is
\* never above the strict one: relaxing the limit loses nothing.
DepthIsEarned ==
    LET d == Distances
    IN  \A e \in DOMAIN row : row[e].strict >= d[e] /\ DepthRelaxed(row, e) <= row[e].strict

\* The depth by which a session is limited.
Depth(e) == IF strictDepth THEN row[e].strict ELSE DepthRelaxed(row, e)

\* In a session that took up what was pending, every reported entity within its limit,
\* though it was only an anchor before, has been given to every function, and no call is
\* lost but those that ended without a trace.  By the relaxed depth this does not hold of
\* what moves with its anchor: that is found when the next session begins.
ReachedIsRun ==
    open /\ resumed =>
        \A e \in {<<Target>>} \cup {r[2] : r \in relations} :
            /\ Depth(e) <= limit
            /\ strictDepth \/ (~row[e].anchored /\ \A x \in Node : e \notin Anchors(x))
            => Missing(log, e) \subseteq running \cup vanished
=============================================================================
