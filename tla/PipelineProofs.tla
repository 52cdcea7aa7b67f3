--------------------------- MODULE PipelineProofs ---------------------------
(***************************************************************************)
(* The safety of the token protocol of Pipeline.tla for every finite Unit  *)
(* and every MaxEdits: IInv is inductive, and implies that the WaitGroup   *)
(* counts the outstanding work, that no goroutine sends on a closed        *)
(* channel and that the WaitGroup is never reused early; the protocol      *)
(* implements Quiescence.                                                  *)
(***************************************************************************)
EXTENDS Pipeline, FiniteSetTheorems, TLAPS

-----------------------------------------------------------------------------
(* Counting                                                                *)

LEMMA UnitsFinite == ASSUME NEW S \in SUBSET Unit
                     PROVE  IsFiniteSet(S) /\ Cardinality(S) \in Nat
  BY UnitAssumption, FS_Subset, FS_CardinalityType

LEMMA CardinalityGrows ==
    ASSUME NEW S \in SUBSET Unit, NEW T \in SUBSET Unit, S \cap T = {}
    PROVE  Cardinality(S \cup T) = Cardinality(S) + Cardinality(T)
  <1>1. IsFiniteSet(S) /\ IsFiniteSet(T) /\ Cardinality(S) \in Nat /\ Cardinality(T) \in Nat
    BY UnitsFinite
  <1>2. Cardinality(S \cup T) = Cardinality(S) + Cardinality(T) - Cardinality(S \cap T)
    BY <1>1, FS_Union
  <1>3. Cardinality(S \cap T) = 0
    BY FS_EmptySet
  <1> QED BY <1>1, <1>2, <1>3

LEMMA CardinalityShrinks ==
    ASSUME NEW S \in SUBSET Unit, NEW T \in SUBSET S
    PROVE  Cardinality(S \ T) = Cardinality(S) - Cardinality(T)
  <1>1. (S \ T) \cup T = S /\ (S \ T) \cap T = {} /\ S \ T \in SUBSET Unit /\ T \in SUBSET Unit
    OBVIOUS
  <1>2. Cardinality((S \ T) \cup T) = Cardinality(S \ T) + Cardinality(T)
    BY <1>1, CardinalityGrows
  <1>3. Cardinality(S) = Cardinality(S \ T) + Cardinality(T)
    BY <1>1, <1>2
  <1>4. Cardinality(S \ T) \in Nat /\ Cardinality(T) \in Nat
    BY <1>1, UnitsFinite
  <1> QED BY <1>3, <1>4

LEMMA SingletonCounts == ASSUME NEW u \in Unit PROVE Cardinality({u}) = 1
  BY FS_Singleton

\* A counter that counts Live is zero only when nothing is live.
LEMMA ZeroIsEmpty == ASSUME NEW S \in SUBSET Unit
                     PROVE  Cardinality(S) = 0 <=> S = {}
  BY UnitsFinite, FS_EmptySet

-----------------------------------------------------------------------------
(* Type correctness                                                        *)

LEMMA MovedType == ASSUME NEW f \in [Unit -> Stage], NEW S, NEW x \in Stage
                   PROVE  Moved(f, S, x) \in [Unit -> Stage]
  BY DEF Moved

LEMMA AddType == ASSUME TypeOK, NEW n \in Int, Add(n)
                 PROVE  repoWritersWg' \in Int /\ closer' \in {"wait", "blocked", "released", "check", "sync", "resume", "send", "close", "closed"}
  BY DEF TypeOK, Add

LEMMA ProcessType == ASSUME TypeOK, NEW p \in Unit, Process(p) PROVE TypeOK'
  <1>1. CASE \E R \in SUBSET Fresh : Build(p, R)
    <2> PICK R \in SUBSET Fresh : Build(p, R) BY <1>1
    <2>1. R \in SUBSET Unit BY DEF Fresh, At
    <2>2. Cardinality(R) \in Int BY <2>1, UnitsFinite
    <2>3. stage' \in [Unit -> Stage] BY MovedType DEF Build, TypeOK, Stage
    <2> QED BY <2>1, <2>2, <2>3, AddType DEF Build, TypeOK
  <1>2. CASE Drop(p) \/ Done(p)
    BY <1>2, AddType DEF Drop, Done, TypeOK, Stage
  <1>3. CASE HandOver(p)
    BY <1>3 DEF HandOver, TypeOK, Stage
  <1> QED BY <1>1, <1>2, <1>3 DEF Process

LEMMA ItemType == ASSUME TypeOK, NEW i \in Unit, Item(i) PROVE TypeOK'
  <1>1. CASE Skip(i)
    BY <1>1, AddType DEF Skip, TypeOK, Stage
  <1>2. CASE \E K \in SUBSET Fresh : Spawn(i, K)
    <2> PICK K \in SUBSET Fresh : Spawn(i, K) BY <1>2
    <2>1. Cardinality(K) \in Int BY UnitsFinite DEF Fresh, At
    <2>2. stage' \in [Unit -> Stage] BY MovedType DEF Spawn, TypeOK, Stage
    <2> QED BY <2>1, <2>2, AddType DEF Spawn, TypeOK
  <1> QED BY <1>1, <1>2 DEF Item

LEMMA StoreType == ASSUME TypeOK, StoreStep PROVE TypeOK'
  <1>1. CASE \E p \in Unit : HandOver(p)
    BY <1>1, ProcessType DEF Process
  <1>2. CASE \E kept \in SUBSET hand : Store(kept)
    <2> PICK kept \in SUBSET hand : Store(kept) BY <1>2
    <2>1. kept \in SUBSET Unit /\ hand \ kept \in SUBSET Unit BY DEF TypeOK
    <2>2. -(Cardinality(hand \ kept)) \in Int BY <2>1, UnitsFinite
    <2>3. stage' \in [Unit -> Stage] BY MovedType DEF Store, TypeOK, Stage
    <2> QED BY <2>1, <2>2, <2>3, AddType DEF Store, TypeOK
  <1>3. CASE StoreExit
    BY <1>3 DEF StoreExit, TypeOK
  <1> QED BY <1>1, <1>2, <1>3 DEF StoreStep

LEMMA DispatchType == ASSUME TypeOK, DispatchStep PROVE TypeOK'
  <1>1. CASE \E s \in Sender : Receive(s)
    <2> PICK s \in Sender : Receive(s) BY <1>1
    <2>1. stage' \in [Unit -> Stage] BY MovedType DEF Receive, TypeOK, Stage
    <2> QED BY <2>1 DEF Receive, TypeOK
  <1>2. CASE DispatchExit
    BY <1>2 DEF DispatchExit, TypeOK
  <1> QED BY <1>1, <1>2 DEF DispatchStep

LEMMA CloserType == ASSUME TypeOK, CloserStep PROVE TypeOK'
  <1>1. CASE Wait \/ Wake \/ CheckFails \/ SyncFails \/ NothingToResume \/ Close
    BY <1>1 DEF Wait, Wake, CheckFails, SyncFails, NothingToResume, Close, TypeOK, idle
  <1>2. CASE Check
    BY <1>2 DEF Check, TypeOK, idle, Scope
  <1>3. CASE Sync
    BY <1>3 DEF Sync, TypeOK, idle, Scope
  <1>4. CASE \E B \in (SUBSET Fresh) \ {{}} : Resume(B)
    <2> PICK B \in SUBSET Fresh : Resume(B) BY <1>4
    <2>1. B \in SUBSET Unit BY DEF Fresh, At
    <2>2. Cardinality(B) \in Int BY <2>1, UnitsFinite
    <2>3. stage' \in [Unit -> Stage] BY MovedType DEF Resume, TypeOK, Stage
    <2> QED BY <2>1, <2>2, <2>3 DEF Resume, TypeOK, Sender
  <1> QED BY <1>1, <1>2, <1>3, <1>4 DEF CloserStep

LEMMA TypeInit == Init => TypeOK
  <1> SUFFICES ASSUME Init PROVE TypeOK OBVIOUS
  <1>1. scope \in Scope /\ carry \in [Unit -> SUBSET Unit] BY DEF Init
  <1>2. CASE InjectProcessor
    BY <1>1, <1>2 DEF Init, InjectProcessor, TypeOK, Stage
  <1>3. CASE InjectDispatcher
    <2> PICK B \in SUBSET Unit :
          /\ stage = [v \in Unit |-> IF v \in B THEN "batched" ELSE "fresh"]
          /\ payload = [s \in Sender |-> IF s = "injector" THEN B ELSE {}]
          /\ repoWritersWg = Cardinality(B)
      BY <1>3 DEF InjectDispatcher
    <2>1. Cardinality(B) \in Int BY UnitsFinite
    <2> QED BY <1>1, <2>1 DEF Init, TypeOK, Stage
  <1> QED BY <1>2, <1>3 DEF Init

LEMMA TypeStep == TypeOK /\ [Next]_vars => TypeOK'
  <1> SUFFICES ASSUME TypeOK, [Next]_vars PROVE TypeOK' OBVIOUS
  <1>1. CASE EditScope
    <2>1. scope.edits - 1 \in 0..MaxEdits
      BY <1>1, EditsAssumption DEF EditScope, TypeOK, Scope
    <2>2. scope' \in Scope
      BY <1>1, <2>1 DEF EditScope, TypeOK, Scope
    <2> QED BY <1>1, <2>2 DEF EditScope, TypeOK, idle
  <1>2. CASE UNCHANGED vars
    BY <1>2 DEF vars, TypeOK
  <1> QED BY <1>1, <1>2, ProcessType, ItemType, StoreType, DispatchType, CloserType
          DEF Next, Terminated

\* Every variable keeps its type, for any number of units and edits.
THEOREM TypeCorrect == Spec => []TypeOK
  BY TypeInit, TypeStep, PTL DEF Spec

-----------------------------------------------------------------------------
(* IInv holds initially                                                    *)

LEMMA InitIInv == Init => IInv
  <1> SUFFICES ASSUME Init PROVE IInv OBVIOUS
  <1>1. TypeOK BY TypeInit
  <1>2. PacketsApart /\ Quiet /\ ClosingOrder
    BY DEF Init, PacketsApart, Quiet, ClosingOrder
  <1>3. Accounting /\ BatchesApart
    <2>1. CASE InjectProcessor
      <3> PICK u \in Unit :
            /\ stage = [v \in Unit |-> IF v = u THEN "injected" ELSE "fresh"]
            /\ payload = [s \in Sender |-> {}]
            /\ repoWritersWg = 1
        BY <2>1 DEF InjectProcessor
      <3>1. Live = {u} BY DEF Live, At
      <3> QED BY <3>1, SingletonCounts DEF Accounting, BatchesApart
    <2>2. CASE InjectDispatcher
      <3> PICK B \in SUBSET Unit :
            /\ stage = [v \in Unit |-> IF v \in B THEN "batched" ELSE "fresh"]
            /\ payload = [s \in Sender |-> IF s = "injector" THEN B ELSE {}]
            /\ repoWritersWg = Cardinality(B)
        BY <2>2 DEF InjectDispatcher
      <3>1. Live = B BY DEF Live, At
      <3>2. BatchesApart BY DEF BatchesApart, At, Sender
      <3> QED BY <3>1, <3>2 DEF Accounting
    <2> QED BY <2>1, <2>2 DEF Init
  <1> QED BY <1>1, <1>2, <1>3 DEF IInv

-----------------------------------------------------------------------------
(* IInv is kept                                                            *)

LEMMA LiveIsSet == Live \in SUBSET Unit /\ Fresh \in SUBSET Unit /\ Fresh \cap Live = {}
  BY DEF Live, Fresh, At

\* A step of live work leaves the closer where it is, or releases it when it
\* was the last.
LEMMA WorkStep ==
    ASSUME IInv, NEW n \in Int, Add(n), Live # {}, Accounting',
           UNCHANGED <<repoOpen, dispatchOpen>>
    PROVE  Quiet' /\ ClosingOrder'
  <1>1. closer \notin {"released", "check", "sync", "resume", "close", "closed"}
    BY DEF IInv, Quiet
  <1>2. ClosingOrder'
    BY <1>1 DEF IInv, ClosingOrder
  <1>3. Live' \in SUBSET Unit BY DEF Live
  <1>4. CASE repoWritersWg' = 0
    <2>1. Live' = {} BY <1>3, <1>4, ZeroIsEmpty DEF Accounting
    <2> QED BY <1>2, <2>1 DEF Quiet
  <1>5. CASE repoWritersWg' # 0
    BY <1>1, <1>2, <1>5 DEF Quiet, Add
  <1> QED BY <1>4, <1>5

\* The steps that end one unit: Drop and Done of Process, Skip of an item.
LEMMA EndKeepsIInv ==
    ASSUME IInv, NEW u \in Unit, stage[u] \in {"injected", "sent", "item"},
           stage' = [stage EXCEPT ![u] = "dead"], Add(-1),
           UNCHANGED <<carry, hand, payload, repoOpen, dispatchOpen>>
    PROVE  Accounting' /\ PacketsApart' /\ BatchesApart' /\ Quiet' /\ ClosingOrder'
  <1> USE DEF IInv
  <1>1. u \in Live /\ Live' = Live \ {u}
    BY DEF Live, At, TypeOK
  <1>2. Cardinality(Live') = Cardinality(Live) - 1
    BY <1>1, LiveIsSet, CardinalityShrinks, SingletonCounts
  <1>3. Accounting'
    BY <1>2 DEF Accounting, Add, TypeOK
  <1>4. At({"result"})' = At({"result"}) /\ At({"batched"})' = At({"batched"})
    BY DEF At, TypeOK
  <1>5. PacketsApart' /\ BatchesApart'
    BY <1>4 DEF PacketsApart, BatchesApart
  <1> QED BY <1>1, <1>3, <1>5, WorkStep

LEMMA BuildKeepsIInv ==
    ASSUME IInv, NEW p \in Unit, NEW R \in SUBSET Fresh, Build(p, R)
    PROVE  Accounting' /\ PacketsApart' /\ BatchesApart' /\ Quiet' /\ ClosingOrder'
  <1> USE DEF IInv
  <1>1. p \in Live /\ p \notin R /\ R \cap Live = {} /\ Live' = Live \cup R
    BY DEF Build, Moved, Live, Fresh, At, TypeOK
  <1>2. R \in SUBSET Unit /\ Cardinality(R) \in Int
    BY LiveIsSet, UnitsFinite
  <1>3. Cardinality(Live') = Cardinality(Live) + Cardinality(R)
    BY <1>1, <1>2, LiveIsSet, CardinalityGrows
  <1>4. Accounting'
    BY <1>3 DEF Build, Accounting, Add, TypeOK
  <1>5. /\ At({"result"})' = At({"result"}) \cup R
        /\ R \cap At({"result"}) = {}
        /\ At({"batched"})' = At({"batched"})
    BY <1>1, <1>2 DEF Build, Moved, Fresh, At, TypeOK
  <1>6. PacketsApart'
    <2>1. \A q \in Unit : carry'[q] = IF q = p THEN R ELSE carry[q]
      BY DEF Build, TypeOK
    <2>2. hand' = hand BY DEF Build
    <2> QED BY <1>5, <2>1, <2>2 DEF PacketsApart
  <1>7. BatchesApart'
    BY <1>5 DEF Build, BatchesApart
  <1>8. Quiet' /\ ClosingOrder'
    BY <1>1, <1>2, <1>4, WorkStep DEF Build
  <1> QED BY <1>4, <1>6, <1>7, <1>8

LEMMA HandOverKeepsIInv ==
    ASSUME IInv, NEW p \in Unit, HandOver(p)
    PROVE  Accounting' /\ PacketsApart' /\ BatchesApart' /\ Quiet' /\ ClosingOrder'
  <1> USE DEF IInv
  <1>1. Live' = Live /\ At({"result"})' = At({"result"}) /\ At({"batched"})' = At({"batched"})
    BY DEF HandOver, Live, At, TypeOK
  <1>2. \A q \in Unit : carry'[q] = IF q = p THEN {} ELSE carry[q]
    BY DEF HandOver, TypeOK
  <1>3. PacketsApart'
    BY <1>1, <1>2 DEF HandOver, PacketsApart
  <1> QED BY <1>1, <1>3 DEF HandOver, Accounting, BatchesApart, Quiet, ClosingOrder

LEMMA SpawnKeepsIInv ==
    ASSUME IInv, NEW i \in Unit, NEW K \in SUBSET Fresh, Spawn(i, K)
    PROVE  Accounting' /\ PacketsApart' /\ BatchesApart' /\ Quiet' /\ ClosingOrder'
  <1> USE DEF IInv
  <1>1. i \in Live /\ i \notin K /\ K \cap Live = {} /\ Live' = Live \cup K
    BY DEF Spawn, Moved, Live, Fresh, At, TypeOK
  <1>2. K \in SUBSET Unit /\ Cardinality(K) \in Int
    BY LiveIsSet, UnitsFinite
  <1>3. Cardinality(Live') = Cardinality(Live) + Cardinality(K)
    BY <1>1, <1>2, LiveIsSet, CardinalityGrows
  <1>4. Accounting'
    BY <1>3 DEF Spawn, Accounting, Add, TypeOK
  <1>5. At({"result"})' = At({"result"}) /\ At({"batched"})' = At({"batched"})
    BY <1>2 DEF Spawn, Moved, Fresh, At, TypeOK
  <1>6. PacketsApart' /\ BatchesApart'
    BY <1>5 DEF Spawn, PacketsApart, BatchesApart
  <1>7. Quiet' /\ ClosingOrder'
    BY <1>1, <1>2, <1>4, WorkStep DEF Spawn
  <1> QED BY <1>4, <1>6, <1>7

LEMMA StoreKeepsIInv ==
    ASSUME IInv, NEW kept \in SUBSET hand, Store(kept)
    PROVE  Accounting' /\ PacketsApart' /\ BatchesApart' /\ Quiet' /\ ClosingOrder'
  <1> USE DEF IInv
  <1> DEFINE lost == hand \ kept
  <1>1. hand \in SUBSET At({"result"}) /\ lost \in SUBSET Live /\ lost \in SUBSET Unit
    BY DEF PacketsApart, Live, At
  <1>2. Live' = Live \ lost
    BY <1>1 DEF Store, Moved, Live, At, TypeOK
  <1>3. /\ At({"result"})' = At({"result"}) \ hand
        /\ At({"batched"})' = At({"batched"}) \cup kept
        /\ kept \cap At({"batched"}) = {}
    BY <1>1 DEF Store, Moved, At, TypeOK
  <1>4. Cardinality(lost) \in Int /\ Cardinality(Live) \in Int
    BY <1>1, LiveIsSet, UnitsFinite
  <1>5. Cardinality(Live') = Cardinality(Live) - Cardinality(lost)
    BY <1>1, <1>2, LiveIsSet, CardinalityShrinks
  <1>6. Accounting'
    <2>1. repoWritersWg' = repoWritersWg + (-(Cardinality(lost)))
      BY DEF Store, Add
    <2>2. repoWritersWg = Cardinality(Live) BY DEF Accounting
    <2>3. repoWritersWg' = Cardinality(Live') BY <1>4, <1>5, <2>1, <2>2
    <2> QED BY <2>3 DEF Accounting
  <1>7. PacketsApart'
    BY <1>3 DEF Store, PacketsApart
  <1>8. BatchesApart'
    <2>1. \A s \in Sender : payload'[s] = IF s = "store" THEN kept ELSE payload[s]
      BY DEF Store, TypeOK
    <2> QED BY <1>3, <2>1 DEF BatchesApart
  <1>9. Quiet' /\ ClosingOrder'
    <2>1. CASE Live # {}
      <3>1. -(Cardinality(lost)) \in Int BY <1>4
      <3> QED BY <1>6, <2>1, <3>1, WorkStep DEF Store
    <2>2. CASE Live = {}
      <3>1. Live' = {} BY <1>2, <2>2
      <3>2. closer = "closed" => closer' = "closed"
        BY DEF Store, Add
      <3> QED BY <3>1, <3>2 DEF Store, Quiet, ClosingOrder
    <2> QED BY <2>1, <2>2
  <1> QED BY <1>6, <1>7, <1>8, <1>9

LEMMA ReceiveKeepsIInv ==
    ASSUME IInv, NEW s \in Sender, Receive(s)
    PROVE  Accounting' /\ PacketsApart' /\ BatchesApart' /\ Quiet' /\ ClosingOrder'
  <1> USE DEF IInv
  <1>1. payload[s] \in SUBSET At({"batched"}) /\ payload[s] # {}
    BY DEF Receive, BatchesApart
  <1>2. Live' = Live /\ Live # {}
    BY <1>1 DEF Receive, Moved, Live, At, TypeOK
  <1>3. At({"result"})' = At({"result"}) /\ At({"batched"})' = At({"batched"}) \ payload[s]
    BY <1>1 DEF Receive, Moved, At, TypeOK
  <1>4. \A t \in Sender : payload'[t] = IF t = s THEN {} ELSE payload[t]
    BY DEF Receive, TypeOK
  <1>5. BatchesApart'
    BY <1>3, <1>4 DEF BatchesApart
  <1>6. Quiet' /\ ClosingOrder'
    BY <1>2 DEF Receive, Quiet, ClosingOrder
  <1> QED BY <1>2, <1>3, <1>5, <1>6 DEF Receive, Accounting, PacketsApart

LEMMA ResumeKeepsIInv ==
    ASSUME IInv, NEW B \in SUBSET Fresh, Resume(B)
    PROVE  Accounting' /\ PacketsApart' /\ BatchesApart' /\ Quiet' /\ ClosingOrder'
  <1> USE DEF IInv
  <1>1. B \cap Live = {} /\ Live' = Live \cup B
    BY DEF Resume, Moved, Live, Fresh, At, TypeOK
  <1>2. B \in SUBSET Unit /\ Cardinality(B) \in Int
    BY LiveIsSet, UnitsFinite
  <1>3. Cardinality(Live') = Cardinality(Live) + Cardinality(B)
    BY <1>1, <1>2, LiveIsSet, CardinalityGrows
  <1>4. Accounting'
    BY <1>3 DEF Resume, Accounting, TypeOK
  <1>5. /\ At({"result"})' = At({"result"})
        /\ At({"batched"})' = At({"batched"}) \cup B
        /\ B \cap At({"batched"}) = {}
    BY <1>2 DEF Resume, Moved, Fresh, At, TypeOK
  <1>6. \A t \in Sender : payload'[t] = IF t = "closer" THEN B ELSE payload[t]
    BY DEF Resume, TypeOK
  <1>7. BatchesApart'
    BY <1>5, <1>6 DEF BatchesApart
  <1>8. Quiet' /\ ClosingOrder'
    BY DEF Resume, Quiet, ClosingOrder
  <1> QED BY <1>4, <1>5, <1>7, <1>8 DEF Resume, PacketsApart

\* The steps that touch no unit: of the closer, of the user, and the exits.
LEMMA IdleKeepsUnits ==
    ASSUME IInv, UNCHANGED <<stage, carry, hand, payload, repoWritersWg>>
    PROVE  Accounting' /\ PacketsApart' /\ BatchesApart' /\ Live' = Live
  BY DEF IInv, Accounting, PacketsApart, BatchesApart, Live, At

LEMMA ExitKeepsIInv ==
    ASSUME IInv, StoreExit \/ DispatchExit \/ EditScope \/ UNCHANGED vars
    PROVE  Accounting' /\ PacketsApart' /\ BatchesApart' /\ Quiet' /\ ClosingOrder'
  <1>1. UNCHANGED <<stage, carry, hand, payload, repoWritersWg, closer, repoOpen>>
    BY DEF StoreExit, DispatchExit, EditScope, idle, vars
  <1>2. ~dispatchOpen' => ~repoOpen'
    BY DEF IInv, ClosingOrder, StoreExit, DispatchExit, EditScope, idle, vars
  <1> QED BY <1>1, <1>2, IdleKeepsUnits DEF IInv, Quiet, ClosingOrder

LEMMA CloserKeepsIInv ==
    ASSUME IInv, CloserStep
    PROVE  Accounting' /\ PacketsApart' /\ BatchesApart' /\ Quiet' /\ ClosingOrder'
  <1>1. CASE Wait
    <2>1. Accounting' /\ PacketsApart' /\ BatchesApart' /\ Live' = Live
      BY <1>1, IdleKeepsUnits DEF Wait, idle
    <2>2. Quiet'
      <3>1. closer' = "check" => Live = {}
        BY <1>1, LiveIsSet, ZeroIsEmpty DEF Wait, IInv, Accounting
      <3> QED BY <1>1, <2>1, <3>1 DEF Wait, Quiet
    <2>3. ClosingOrder'
      BY <1>1 DEF Wait, idle, IInv, ClosingOrder
    <2> QED BY <2>1, <2>2, <2>3
  <1>2. CASE Wake \/ Check \/ CheckFails \/ Sync \/ SyncFails \/ NothingToResume
    <2>1. UNCHANGED <<stage, carry, hand, payload, repoWritersWg, repoOpen, dispatchOpen>>
      BY <1>2 DEF Wake, Check, CheckFails, Sync, SyncFails, NothingToResume, idle
    <2>2. closer \in {"released", "check", "sync", "resume"}
      BY <1>2 DEF Wake, Check, CheckFails, Sync, SyncFails, NothingToResume
    <2> QED BY <2>1, <2>2, IdleKeepsUnits DEF IInv, Quiet, ClosingOrder
  <1>3. CASE Close
    BY <1>3, IdleKeepsUnits DEF Close, idle, IInv, Quiet, ClosingOrder
  <1>4. CASE \E B \in (SUBSET Fresh) \ {{}} : Resume(B)
    BY <1>4, ResumeKeepsIInv
  <1> QED BY <1>1, <1>2, <1>3, <1>4 DEF CloserStep

LEMMA StepIInv == IInv /\ [Next]_vars => IInv'
  <1> SUFFICES ASSUME IInv, [Next]_vars PROVE IInv' OBVIOUS
  <1> DEFINE Rest == Accounting' /\ PacketsApart' /\ BatchesApart' /\ Quiet' /\ ClosingOrder'
  <1>1. TypeOK' BY TypeStep DEF IInv
  <1> SUFFICES Rest BY <1>1 DEF IInv
  <1>2. ASSUME NEW u \in Unit, Process(u) PROVE Rest
    <2>1. CASE \E R \in SUBSET Fresh : Build(u, R)
      BY <2>1, BuildKeepsIInv
    <2>2. CASE Drop(u) \/ Done(u)
      BY <2>2, EndKeepsIInv DEF Drop, Done
    <2>3. CASE HandOver(u)
      BY <2>3, HandOverKeepsIInv
    <2> QED BY <1>2, <2>1, <2>2, <2>3 DEF Process
  <1>3. ASSUME NEW u \in Unit, Item(u) PROVE Rest
    <2>1. CASE Skip(u)
      BY <2>1, EndKeepsIInv DEF Skip
    <2>2. CASE \E K \in SUBSET Fresh : Spawn(u, K)
      BY <2>2, SpawnKeepsIInv
    <2> QED BY <1>3, <2>1, <2>2 DEF Item
  <1>4. CASE StoreStep
    BY <1>4, HandOverKeepsIInv, StoreKeepsIInv, ExitKeepsIInv DEF StoreStep
  <1>5. CASE DispatchStep
    BY <1>5, ReceiveKeepsIInv, ExitKeepsIInv DEF DispatchStep
  <1>6. CASE CloserStep
    BY <1>6, CloserKeepsIInv
  <1>7. CASE EditScope \/ UNCHANGED vars
    BY <1>7, ExitKeepsIInv
  <1> QED BY <1>2, <1>3, <1>4, <1>5, <1>6, <1>7 DEF Next, Terminated

\* IInv holds in every reachable state.
THEOREM Inductive == Spec => []IInv
  BY InitIInv, StepIInv, PTL DEF Spec

-----------------------------------------------------------------------------
(* The properties                                                          *)

\* repoWritersWg counts exactly the outstanding results, items and Process
\* goroutines of the run, however they interleave.
THEOREM CounterIsExact == Spec => []Accounting
  <1>1. IInv => Accounting BY DEF IInv
  <1> QED BY <1>1, Inductive, PTL

\* No goroutine of a run ever sends on repoChan or dispatchChan after it was
\* closed.
THEOREM ChannelsOutliveSenders == Spec => []NoSendOnClosed
  <1>1. IInv => NoSendOnClosed
    <2> SUFFICES ASSUME IInv PROVE NoSendOnClosed OBVIOUS
    <2>1. ~repoOpen => Live = {}
      BY DEF IInv, ClosingOrder, Quiet
    <2>2. \A u \in Unit : stage[u] \in {"injected", "proc", "sending"} => u \in Live
      BY DEF Live, At
    <2>3. \A s \in Sender : payload[s] # {} => Live # {}
      BY DEF IInv, BatchesApart, Live, At
    <2>4. ~dispatchOpen => ~repoOpen
      BY DEF IInv, ClosingOrder
    <2> QED BY <2>1, <2>2, <2>3, <2>4 DEF NoSendOnClosed
  <1> QED BY <1>1, Inductive, PTL

\* The counter is still zero when the closer returns from Wait.
THEOREM WaitGroupNotReused == Spec => []NoReuseBeforeReturn
  <1>1. IInv => NoReuseBeforeReturn
    BY FS_EmptySet DEF IInv, Quiet, Accounting, NoReuseBeforeReturn
  <1> QED BY <1>1, Inductive, PTL

\* The scope check of the closer runs alone.
THEOREM ScopeCheckIsQuiet == Spec => []QuietScopeCheck
  <1>1. IInv => QuietScopeCheck
    <2>1. IInv => hand \subseteq Live /\ \A s \in Sender : payload[s] \subseteq Live
      BY DEF IInv, PacketsApart, BatchesApart, Live, At
    <2> QED BY <2>1 DEF IInv, Quiet, QuietScopeCheck
  <1> QED BY <1>1, Inductive, PTL

-----------------------------------------------------------------------------
(* The token protocol implements Quiescence                                *)

LEMMA InitRefines == Init => Q!Init
  <1> SUFFICES ASSUME Init PROVE Live \in (SUBSET Unit) \ {{}} /\ repoOpen = TRUE
    BY DEF Q!Init
  <1>1. CASE InjectProcessor
    BY <1>1 DEF Init, InjectProcessor, Live, At
  <1>2. CASE InjectDispatcher
    BY <1>2 DEF Init, InjectDispatcher, Live, At
  <1> QED BY <1>1, <1>2 DEF Init

LEMMA LiveStays == ASSUME UNCHANGED stage PROVE Live' = Live
  BY DEF Live, At

LEMMA StepRefines == IInv /\ [Next]_vars => [Q!Next]_(Q!qvars)
  <1> SUFFICES ASSUME IInv, [Next]_vars PROVE [Q!Next]_(Q!qvars) OBVIOUS
  <1>1. Live' \in SUBSET Unit BY DEF Live
  <1>2. ~repoOpen => Live = {} BY DEF IInv, ClosingOrder, Quiet
  <1>3. ASSUME UNCHANGED repoOpen, Live # {} PROVE [Q!Next]_(Q!qvars)
    BY <1>1, <1>2, <1>3 DEF IInv, TypeOK, Q!Next, Q!Progress
  <1>4. ASSUME UNCHANGED <<repoOpen, stage>> PROVE [Q!Next]_(Q!qvars)
    BY <1>4, LiveStays DEF Q!qvars
  <1>5. ASSUME NEW u \in Unit, Process(u) \/ Item(u) PROVE [Q!Next]_(Q!qvars)
    <2>1. u \in Live
      BY <1>5 DEF Process, Item, Build, Drop, HandOver, Done, Skip, Spawn, Live, At
    <2>2. UNCHANGED repoOpen
      BY <1>5 DEF Process, Item, Build, Drop, HandOver, Done, Skip, Spawn
    <2> QED BY <1>3, <2>1, <2>2
  <1>6. ASSUME StoreStep PROVE [Q!Next]_(Q!qvars)
    <2>1. CASE \E p \in Unit : HandOver(p)
      BY <1>5, <2>1 DEF Process
    <2>2. CASE \E kept \in SUBSET hand : Store(kept)
      <3> PICK kept \in SUBSET hand : Store(kept) BY <2>2
      <3>1. CASE hand = {}
        <4>1. stage' = stage
          BY <3>1 DEF Store, Moved, IInv, TypeOK
        <4> QED BY <1>4, <4>1 DEF Store
      <3>2. CASE hand # {}
        <4>1. Live # {} BY <3>2 DEF IInv, PacketsApart, Live, At
        <4> QED BY <1>3, <4>1 DEF Store
      <3> QED BY <3>1, <3>2
    <2>3. CASE StoreExit
      BY <1>4, <2>3 DEF StoreExit
    <2> QED BY <1>6, <2>1, <2>2, <2>3 DEF StoreStep
  <1>7. ASSUME DispatchStep PROVE [Q!Next]_(Q!qvars)
    <2>1. CASE \E s \in Sender : Receive(s)
      <3>1. Live # {} BY <2>1 DEF Receive, IInv, BatchesApart, Live, At
      <3> QED BY <1>3, <2>1, <3>1 DEF Receive
    <2>2. CASE DispatchExit
      BY <1>4, <2>2 DEF DispatchExit
    <2> QED BY <1>7, <2>1, <2>2 DEF DispatchStep
  <1>8. ASSUME CloserStep PROVE [Q!Next]_(Q!qvars)
    <2>1. CASE Wait \/ Wake \/ Check \/ CheckFails \/ Sync \/ SyncFails \/ NothingToResume
      BY <1>4, <2>1 DEF Wait, Wake, Check, CheckFails, Sync, SyncFails, NothingToResume, idle
    <2>2. CASE Close
      <3>1. Live = {} /\ Live' = Live /\ repoOpen = TRUE /\ repoOpen' = FALSE
        BY <2>2, LiveStays DEF Close, idle, IInv, Quiet, ClosingOrder, TypeOK
      <3> QED BY <3>1 DEF Q!Next, Q!Shut
    <2>3. CASE \E B \in (SUBSET Fresh) \ {{}} : Resume(B)
      <3> PICK B \in (SUBSET Fresh) \ {{}} : Resume(B) BY <2>3
      <3>1. Live = {} /\ repoOpen = TRUE /\ repoOpen' = repoOpen
        BY DEF Resume, IInv, Quiet, ClosingOrder, TypeOK
      <3>2. Live' = Live \cup B /\ B # {}
        BY DEF Resume, Moved, Live, Fresh, At, IInv, TypeOK
      <3> QED BY <1>1, <3>1, <3>2 DEF Q!Next, Q!Bring
    <2> QED BY <1>8, <2>1, <2>2, <2>3 DEF CloserStep
  <1>9. ASSUME EditScope \/ UNCHANGED vars PROVE [Q!Next]_(Q!qvars)
    BY <1>4, <1>9 DEF EditScope, idle, vars
  <1> QED BY <1>5, <1>6, <1>7, <1>8, <1>9 DEF Next, Terminated

\* Whatever modules return, a run works like Quiescence: it closes only when
\* nothing is outstanding, and nothing starts after it has closed.
THEOREM ImplementsQuiescence == Spec => QuiescesSafely
  BY InitRefines, StepRefines, Inductive, PTL DEF Spec, QuiescesSafely, Q!SafeSpec
=============================================================================
