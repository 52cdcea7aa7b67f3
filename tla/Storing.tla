------------------------------ MODULE Storing ------------------------------
(***************************************************************************)
(* The storing of results, in two parts of which a behaviour has one:      *)
(* "packet" builds batches from what the modules hand over (Packet), and   *)
(* "store" stores packets in a project (EntityStore).                      *)
(***************************************************************************)
EXTENDS EntityStore

CONSTANTS Reporter,       \* functions of the modules
          MayReport(_),   \* what a function may hand over
          Lossy           \* functions whose packets are known to get lost

VARIABLES part, output, pc, packet, pending, entities, localIDs, stored

building == <<output, pc, packet, pending, entities, localIDs, stored>>

P == INSTANCE Packet WITH Function <- Reporter

\* Modules hand over lists.
ASSUME ListsAreFinite == \A fn \in Reporter : \A o \in MayReport(fn) : IsFiniteSet(o.results)

StoringInit ==
    /\ Init
    /\ \/ part = "packet" /\ P!Init
       \/ /\ part = "store" /\ output = P!Output("", P!T, {}, FALSE)
          /\ pc = "received" /\ packet = {} /\ pending = {} /\ localIDs = {} /\ stored = {}
          /\ entities = {<<output.target>>}

StoringNext ==
    /\ UNCHANGED part
    /\ \/ part = "packet" /\ P!Next /\ UNCHANGED vars
       \/ part = "store" /\ Next /\ UNCHANGED building

StoringSpec == StoringInit /\ [][StoringNext]_<<vars, building, part>>

-----------------------------------------------------------------------------
(* The properties of Packet under names of their own.                        *)

\* Every output is stored whole, each result once and below an entity that its source
\* may mean, or given up for a source that means none or several.
Delivers == P!Delivers

\* No packet of the modules is given up.
NothingLost == P!NothingLost

\* Every stored result hangs below the entity its module declared.
StoredAsDeclared == P!StoredAsDeclared

\* Nothing a module reports is an island.
NoIslands == P!NoIslands
=============================================================================
