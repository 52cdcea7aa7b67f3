------------------------------- MODULE Packet -------------------------------
(***************************************************************************)
(* The way of one output through processor.Process, which corrects types,  *)
(* marks what does not trace back to the target and groups results by      *)
(* their source, and repository.buildStoreBatch, which finds out what      *)
(* entity each group's source is.  Groups come from a Go map: they are     *)
(* visited in any order, those whose source is not known yet again later.  *)
(* An entity is the path of keys from a node through its properties.       *)
(***************************************************************************)
EXTENDS Results

CONSTANTS Function,       \* of the modules
          MayReport(_),   \* what a function may hand over
          Lossy           \* functions whose packets are known to get lost

VARIABLES
    output,
    pc,        \* "received", "building", "stored", "dropped"
    packet,    \* the results that processing lets through
    pending,   \* sources of the groups not resolved yet
    entities,  \* nodeIndex and propertyIndex
    localIDs,  \* localIDMap
    stored     \* batch.results: who hangs where

vars == <<output, pc, packet, pending, entities, localIDs, stored>>

\* The entities a module names in an output, before they are corrected.
Keys(o) == {o.target} \cup {r.key : r \in o.results} \cup {r.source.key : r \in o.results}

-----------------------------------------------------------------------------
(* processor.Process *)

\* validator.Validate: types of hosts and addresses are corrected, other
\* types accepted as they are.
Valid(k) ==
    CASE k.type \in {"domain", "subdomain"} -> k.value \in Names
      [] k.type \in {"ip", "ipv4", "ipv6"} -> k.value \in Addresses
      [] k.type = "email" -> k.value \in Mailboxes
      [] OTHER -> TRUE

Corrected(k) ==
    CASE k.type \in {"domain", "subdomain"} ->
             Key(IF k.value \in Registered THEN "domain" ELSE "subdomain", k.value)
      [] k.type \in {"ip", "ipv4", "ipv6"} -> Address(k.value)
      [] OTHER -> k

\* The registered domain that comes with a host below it, or with a mailbox.
Anchors(k) == IF k.type \in {"subdomain", "email"} THEN {Domain(Zone(k.value))} ELSE {}

\* Sources and results form a graph of keys; local ids do not count.
Onward(o, S) == S \cup {r.key : r \in {q \in o.results : q.source.key \in S}}

Reachable(o) ==
    LET after[n \in 0..Cardinality(Keys(o))] ==
            IF n = 0 THEN {o.target} ELSE Onward(o, after[n - 1])
    IN  after[Cardinality(Keys(o))]

\* The key an entity is known by after processing, if these trace back to the target.
Normal(reached, k) ==
    IF k \in reached /\ Valid(k) THEN Corrected(k) ELSE Key("invalid", k.value)

\* A result with the keys of its entity and of its source as they are then.
Normalised(reached, r) ==
    [r EXCEPT !.key = Normal(reached, r.key), !.source.key = Normal(reached, r.source.key)]

\* The mutant takes tags for no reason to keep a result.
RedundantEvenTagged(r) == r.key = r.source.key

\* Self-discovery, unless it brings tags.
Redundant(r) == r.key = r.source.key /\ ~r.tagged

\* Incomplete data: a type without a value.
Incomplete(r) == r.key.value = ""

\* The results of an output that go into its packet.
Kept(o) ==
    IF o.error THEN {}
    ELSE LET reached == Reachable(o)
             complete == {r \in o.results : ~Incomplete(r)}
         IN  {r \in {Normalised(reached, q) : q \in complete} : ~Redundant(r)}

Process ==
    /\ pc = "received"
    /\ packet' = Kept(output)
    /\ pending' = {r.source : r \in packet'}
    /\ pc' = "building"
    /\ UNCHANGED <<output, entities, localIDs, stored>>

-----------------------------------------------------------------------------
(* repository.buildStoreBatch *)

\* The mutant looks for type and value even of what has a local id.
ResolvedByKey(g) ==
    IF <<g.key>> \in entities THEN {<<g.key>>}
    ELSE {e \in entities : Len(e) > 1 /\ e[Len(e)] = g.key}

\* batch.resolveSource: the entities the source of a group may be.
Resolved(g) ==
    IF g.lid # 0 THEN {l.entity : l \in {i \in localIDs : i.lid = g.lid}}
    ELSE IF <<g.key>> \in entities THEN {<<g.key>>}
    ELSE {e \in entities : Len(e) > 1 /\ e[Len(e)] = g.key}

\* addNode and addProperty: where a result goes whose source is at e.
Place(r, e) == IF r.category = "node" THEN <<r.key>> ELSE Append(e, r.key)

\* Of the results with one local id the last one keeps it: what remains of them.
Latest(numbered) ==
    LET rivals == {r \in numbered : \E q \in numbered \ {r} : q.lid = r.lid}
    IN  {numbered \ S : S \in {R \in SUBSET rivals :
            \A r \in rivals : Cardinality({q \in rivals \ R : q.lid = r.lid}) = 1}}

Visit(g) ==
    /\ pc = "building" /\ g \in pending
    /\ Cardinality(Resolved(g)) = 1
    /\ LET group == {r \in packet : r.source = g}
           numbered == {r \in group : r.lid # 0}
       IN  \E e \in Resolved(g), last \in Latest(numbered) :
               /\ entities' = entities
                      \cup {Place(r, e) : r \in group}
                      \cup {<<a>> : a \in UNION {Anchors(r.key) : r \in group}}
               /\ localIDs' = {l \in localIDs : \A r \in numbered : r.lid # l.lid}
                      \cup {[lid |-> r.lid, entity |-> Place(r, e)] : r \in last}
               /\ stored' = stored \cup {[result |-> r, at |-> e] : r \in group}
    /\ pending' = pending \ {g}
    /\ UNCHANGED <<output, pc, packet>>

\* "batch source is ambiguous"
Ambiguous ==
    /\ pc = "building"
    /\ \E g \in pending : Cardinality(Resolved(g)) > 1
    /\ pc' = "dropped"
    /\ UNCHANGED <<output, packet, pending, entities, localIDs, stored>>

\* The mutant makes one pass over the groups.
UnresolvableYet ==
    /\ pc = "building"
    /\ \E g \in pending : Resolved(g) = {}
    /\ pc' = "dropped"
    /\ UNCHANGED <<output, packet, pending, entities, localIDs, stored>>

\* "batch source could not be resolved": a pass over the groups gets nowhere.
Unresolvable ==
    /\ pc = "building"
    /\ pending # {} /\ \A g \in pending : Resolved(g) = {}
    /\ pc' = "dropped"
    /\ UNCHANGED <<output, packet, pending, entities, localIDs, stored>>

Built ==
    /\ pc = "building" /\ pending = {}
    /\ pc' = "stored"
    /\ UNCHANGED <<output, packet, pending, entities, localIDs, stored>>

Init ==
    /\ \E fn \in Function : output \in MayReport(fn)
    /\ pc = "received" /\ packet = {} /\ pending = {} /\ localIDs = {} /\ stored = {}
    /\ entities = {<<output.target>>}

Next ==
    \/ Process \/ Ambiguous \/ Unresolvable \/ Built
    \/ \E g \in pending : Visit(g)

Spec == Init /\ [][Next]_vars

TypeOK ==
    /\ pc \in {"received", "building", "stored", "dropped"}
    /\ packet \subseteq Kept(output)
    /\ pending \subseteq {r.source : r \in packet}
    /\ \A e \in entities : Len(e) > 0
    /\ \A s \in stored : s.result \in packet /\ s.at \in entities

-----------------------------------------------------------------------------
(* What the module said, read without regard to any order. *)

\* The entities that a batch has by then, if results are placed so.
Batch(o, placed) ==
    {<<o.target>>} \cup {p.at : p \in placed}
        \cup UNION {{<<a>> : a \in Anchors(p.result.key)} : p \in placed}

\* What a source means among results placed so: what has its local id or, if it gives
\* none, whatever has its type and value.
Sources(batch, placed, g) ==
    IF g.lid # 0 THEN {p.at : p \in {q \in placed : q.result.lid = g.lid}}
    ELSE {e \in batch : e[Len(e)] = g.key}

\* The places of results whose sources are among those placed so.
Further(o, kept, placed) ==
    LET batch == Batch(o, placed)
    IN  UNION {{[result |-> r, at |-> Place(r, e)] : e \in Sources(batch, placed, r.source)} :
               r \in kept}

\* The places of the results of a packet, found from the target onwards in as many
\* steps as there are results.
Stages(o) ==
    LET kept == Kept(o)
        after[n \in 0..Cardinality(kept)] == IF n = 0 THEN {} ELSE Further(o, kept, after[n - 1])
    IN  after

Placed(o) == Stages(o)[Cardinality(Kept(o))]

Meant(o) ==
    LET placed == Placed(o)
        batch == Batch(o, placed)
    IN  [r \in Kept(o) |-> Sources(batch, placed, r.source)]

\* Outputs in which every source means one entity, as MODULE_GUIDE.md asks for.
Lawful(o) ==
    LET meant == Meant(o) IN \A r \in DOMAIN meant : \E e \in meant[r] : meant[r] = {e}

\* A lawful output is stored whole, and every result below the source its module
\* declared, in whatever order its groups are visited.
LawfulIsStored ==
    pc \in {"stored", "dropped"} /\ Lawful(output) =>
        /\ pc = "stored" /\ {s.result : s \in stored} = packet
        /\ LET meant == Meant(output) IN \A s \in stored : meant[s.result] = {s.at}

\* Process and Store together keep the promise of Delivery: also of what is not lawful
\* nothing is stored by halves or twice, or below what its source cannot mean.
D == INSTANCE Delivery WITH
        Contents <- Kept,
        status <- CASE pc = "stored" -> "stored" [] pc = "dropped" -> "given up" [] OTHER -> "open",
        stored <- IF pc = "stored" THEN stored ELSE {}
Delivers == D!Spec

\* No packet of the modules is given up: Store then puts the error "invalid_batch(core)"
\* in the place of everything the module has found.
NothingLost == pc = "dropped" => output.fn \in Lossy

\* Every stored result hangs below the entity its module declared, and none below
\* one of several that happened to be there first.
StoredAsDeclared ==
    pc = "stored" /\ output.fn \notin Lossy =>
        LET meant == Meant(output) IN \A s \in stored : meant[s.result] = {s.at}

\* Nothing a module reports is an island, which would be stored as "invalid"
\* without being malformed.
NoIslands ==
    pc = "building" =>
        LET reached == Reachable(output) IN \A r \in output.results : r.key \in reached
=============================================================================
