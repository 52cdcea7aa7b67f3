-------------------------- MODULE DispatcherProofs --------------------------
(***************************************************************************)
(* The in-flight bookkeeping of Dispatcher.tla for every finite set of     *)
(* items and functions and all limits: a key has one owner, only timed-out *)
(* calls run beside another call of their key, and slots and semaphore     *)
(* tokens are held by whom they should be.                                 *)
(***************************************************************************)
EXTENDS Dispatcher, FiniteSetTheorems, TLAPS

Open == {i \in Item : item[i] = "open"}
Holders(f) == {c \in Call : c[2] = f /\ exec[c] \in Executing}

LEMMA CallsFinite == IsFiniteSet(Call) /\ IsFiniteSet(Item)
  BY DispatcherAssumption, FS_Product DEF Call

LEMMA KeyType == ASSUME NEW c \in Call PROVE Key(c) \in Entity \X Fn /\ c[1] \in Item /\ c[2] \in Fn
  BY DispatcherAssumption DEF Call, Key

-----------------------------------------------------------------------------
(* Types                                                                   *)

LEMMA TypeInit == Init => TypeOK
  <1> SUFFICES ASSUME Init PROVE TypeOK OBVIOUS
  <1>1. sem \in [Fn -> Int] /\ slots \in Int /\ pauses \in Int
    BY DispatcherAssumption DEF Init
  <1>2. known \in [Item -> SUBSET Fn] /\ item \in [Item -> {"away", "queued", "open", "declined", "settled"}]
    BY DEF Init
  <1> QED BY <1>1, <1>2 DEF Init, TypeOK

LEMMA TypeStep == TypeOK /\ [Next]_vars => TypeOK'
  <1> SUFFICES ASSUME TypeOK, [Next]_vars PROVE TypeOK' OBVIOUS
  <1> USE DEF TypeOK, Verdicts, Executing
  <1>1. ASSUME NEW i \in Item, Arrive(i) PROVE TypeOK'
    BY <1>1 DEF Arrive
  <1>2. ASSUME NEW i \in Item, Start(i) \/ Decline(i) PROVE TypeOK'
    BY <1>2 DEF Start, Decline
  <1>3. ASSUME NEW i \in Item, Settle(i) PROVE TypeOK'
    BY <1>3 DEF Settle
  <1>4. ASSUME NEW c \in Call, Mismatch(c) \/ Skip(c) PROVE TypeOK'
    BY <1>4 DEF Mismatch, Skip
  <1>5. ASSUME NEW c \in Call, Reserve(c) \/ NoCapabilities(c) \/ Expire(c) PROVE TypeOK'
    BY <1>5, KeyType DEF Reserve, NoCapabilities, Expire
  <1>6. ASSUME NEW c \in Call, Acquire(c) PROVE TypeOK'
    BY <1>6, KeyType DEF Acquire
  <1>7. ASSUME NEW c \in Call, Collect(c) PROVE TypeOK'
    BY <1>7 DEF Collect
  <1>8. ASSUME NEW c \in Call, Timeout(c) \/ Begin(c) PROVE TypeOK'
    BY <1>8 DEF Timeout, Begin
  <1>9. ASSUME NEW c \in Call, Return(c) PROVE TypeOK'
    BY <1>9 DEF Return
  <1>10. ASSUME NEW c \in Call, Release(c) PROVE TypeOK'
    BY <1>10, KeyType DEF Release
  <1>11. ASSUME NEW c \in Call, Store(c) PROVE TypeOK'
    BY <1>11, KeyType DEF Store
  <1>12. CASE Pause \/ Resume
    <2>1. /\ UNCHANGED <<item, known, call, exec, answer, inFlight, expiring, sem, slots, report, log>>
          /\ paused' \in BOOLEAN
      BY <1>12 DEF Pause, Resume
    <2>2. pauses' \in Int
      BY <1>12 DEF Pause, Resume
    <2> QED BY <2>1, <2>2
  <1>13. CASE UNCHANGED vars
    BY <1>13 DEF vars
  <1> QED
    BY <1>1, <1>2, <1>3, <1>4, <1>5, <1>6, <1>7, <1>8, <1>9, <1>10, <1>11, <1>12, <1>13
       DEF Next, ItemStep, Admission, Conclusion, Terminated

\* Every variable keeps its type.
THEOREM TypeCorrect == Spec => []TypeOK
  BY TypeInit, TypeStep, PTL DEF Spec

-----------------------------------------------------------------------------
(* The life of a call                                                      *)

LEMMA LifeStep == TypeOK /\ CallLife /\ [Next]_vars => CallLife'
  <1> SUFFICES ASSUME TypeOK, CallLife, [Next]_vars PROVE CallLife' OBVIOUS
  <1> USE DEF TypeOK, CallLife
  <1>1. ASSUME UNCHANGED <<call, exec, answer, expiring>> PROVE CallLife'
    BY <1>1
  <1>2. ASSUME NEW i \in Item, Arrive(i) \/ ItemStep(i) PROVE CallLife'
    BY <1>1, <1>2 DEF Arrive, ItemStep, Start, Decline, Settle
  <1>3. ASSUME NEW c \in Call, Mismatch(c) \/ Skip(c) \/ Reserve(c) \/ NoCapabilities(c) PROVE CallLife'
    BY <1>3 DEF Mismatch, Skip, Reserve, NoCapabilities
  <1>4. ASSUME NEW c \in Call, Acquire(c) PROVE CallLife'
    BY <1>4 DEF Acquire
  <1>5. ASSUME NEW c \in Call, Collect(c) PROVE CallLife'
    BY <1>5 DEF Collect
  <1>6. ASSUME NEW c \in Call, Timeout(c) \/ Expire(c) PROVE CallLife'
    BY <1>6 DEF Timeout, Expire
  <1>7. ASSUME NEW c \in Call, Begin(c) \/ Release(c) PROVE CallLife'
    BY <1>7 DEF Begin, Release
  <1>8. ASSUME NEW c \in Call, Return(c) PROVE CallLife'
    BY <1>8 DEF Return
  <1>9. ASSUME NEW c \in Call, Store(c) PROVE CallLife'
    BY <1>1, <1>9 DEF Store
  <1>10. CASE Pause \/ Resume \/ UNCHANGED vars
    BY <1>1, <1>10 DEF Pause, Resume, vars
  <1> QED
    BY <1>2, <1>3, <1>4, <1>5, <1>6, <1>7, <1>8, <1>9, <1>10
       DEF Next, Admission, Conclusion, Terminated

-----------------------------------------------------------------------------
(* The owner of a key                                                      *)

\* While the owners stay the same, so does the ownership of keys.
LEMMA SameOwners ==
    ASSUME OneOwnerPerKey, UNCHANGED inFlight, \A c \in Call : Owns(c)' <=> Owns(c)
    PROVE  OneOwnerPerKey'
  <1>1. {Key(c) : c \in {d \in Call : Owns(d)}}' = {Key(c) : c \in {d \in Call : Owns(d)}}
    BY DEF Key
  <1>2. \A c \in Call : Key(c)' = Key(c) BY DEF Key
  <1> QED BY <1>1, <1>2 DEF OneOwnerPerKey

\* A call that stops owning its key takes it away from nobody else.
LEMMA OwnerLeaves ==
    ASSUME OneOwnerPerKey, NEW c \in Call, Owns(c), ~Owns(c)',
           \A d \in Call : d # c => (Owns(d)' <=> Owns(d)),
           inFlight' = inFlight \ {Key(c)}
    PROVE  OneOwnerPerKey'
  <1>1. \A d \in Call : Key(d)' = Key(d) BY DEF Key
  <1>2. \A d, g \in Call : Owns(d)' /\ Owns(g)' /\ Key(d) = Key(g) => d = g
    BY DEF OneOwnerPerKey
  <1>3. \A k : k \in inFlight' <=> \E d \in Call : Owns(d)' /\ k = Key(d)
    BY DEF OneOwnerPerKey
  <1> QED BY <1>1, <1>2, <1>3 DEF OneOwnerPerKey

LEMMA OwnerStep == TypeOK /\ CallLife /\ OneOwnerPerKey /\ [Next]_vars => OneOwnerPerKey'
  <1> SUFFICES ASSUME TypeOK, CallLife, OneOwnerPerKey, [Next]_vars PROVE OneOwnerPerKey' OBVIOUS
  <1>1. ASSUME UNCHANGED <<call, expiring, inFlight>> PROVE OneOwnerPerKey'
    BY <1>1, SameOwners DEF Owns
  <1>2. ASSUME NEW c \in Call, Mismatch(c) \/ Skip(c) PROVE OneOwnerPerKey'
    <2>1. \A d \in Call : Owns(d)' <=> Owns(d)
      BY <1>2 DEF Mismatch, Skip, Owns, TypeOK
    <2> QED BY <1>2, <2>1, SameOwners DEF Mismatch, Skip
  <1>3. ASSUME NEW c \in Call, Reserve(c) PROVE OneOwnerPerKey'
    <2>1. /\ Owns(c)'
          /\ \A d \in Call : d # c => (Owns(d)' <=> Owns(d))
      BY <1>3 DEF Reserve, Owns, TypeOK
    <2>2. \A d \in Call : Owns(d) => Key(d) # Key(c)
      BY <1>3 DEF Reserve, OneOwnerPerKey
    <2>3. \A d \in Call : Key(d)' = Key(d) BY DEF Key
    <2>4. \A d, g \in Call : Owns(d)' /\ Owns(g)' /\ Key(d) = Key(g) => d = g
      BY <2>1, <2>2 DEF OneOwnerPerKey
    <2>5. \A k : k \in inFlight' <=> \E d \in Call : Owns(d)' /\ k = Key(d)
      <3>1. inFlight' = inFlight \cup {Key(c)} BY <1>3 DEF Reserve
      <3>2. \A k : k \in inFlight <=> \E d \in Call : Owns(d) /\ k = Key(d)
        BY DEF OneOwnerPerKey
      <3>3. ~Owns(c)
        BY <1>3 DEF Reserve, Owns, CallLife
      <3> QED BY <2>1, <3>1, <3>2, <3>3
    <2> QED BY <2>3, <2>4, <2>5 DEF OneOwnerPerKey
  <1>4. ASSUME NEW c \in Call, NoCapabilities(c) PROVE OneOwnerPerKey'
    <2>1. Owns(c) /\ ~Owns(c)' /\ \A d \in Call : d # c => (Owns(d)' <=> Owns(d))
      BY <1>4 DEF NoCapabilities, Owns, CallLife, TypeOK
    <2> QED BY <1>4, <2>1, OwnerLeaves DEF NoCapabilities
  <1>5. ASSUME NEW c \in Call, Acquire(c) \/ Collect(c) \/ Timeout(c) PROVE OneOwnerPerKey'
    <2>1. \A d \in Call : Owns(d)' <=> Owns(d)
      BY <1>5 DEF Acquire, Collect, Timeout, Owns, TypeOK
    <2> QED BY <1>5, <2>1, SameOwners DEF Acquire, Collect, Timeout
  <1>6. ASSUME NEW c \in Call, Expire(c) PROVE OneOwnerPerKey'
    <2>1. Owns(c) /\ ~Owns(c)' /\ \A d \in Call : d # c => (Owns(d)' <=> Owns(d))
      BY <1>6 DEF Expire, Owns, CallLife, TypeOK
    <2> QED BY <1>6, <2>1, OwnerLeaves DEF Expire
  <1>7. ASSUME NEW c \in Call, Begin(c) \/ Return(c) \/ Release(c) \/ Store(c) PROVE OneOwnerPerKey'
    BY <1>1, <1>7 DEF Begin, Return, Release, Store
  <1>8. ASSUME NEW i \in Item, Arrive(i) \/ ItemStep(i) PROVE OneOwnerPerKey'
    BY <1>1, <1>8 DEF Arrive, ItemStep, Start, Decline, Settle
  <1>9. CASE Pause \/ Resume \/ UNCHANGED vars
    BY <1>1, <1>9 DEF Pause, Resume, vars
  <1> QED
    BY <1>2, <1>3, <1>4, <1>5, <1>6, <1>7, <1>8, <1>9 DEF Next, Admission, Conclusion, Terminated

-----------------------------------------------------------------------------
(* Slots and semaphore tokens                                              *)

LEMMA HoldersFinite ==
    IsFiniteSet(Open) /\ \A f \in Fn : IsFiniteSet(Holders(f))
  <1>1. Open \in SUBSET Item /\ \A f \in Fn : Holders(f) \in SUBSET Call
    BY DEF Open, Holders
  <1> QED BY <1>1, CallsFinite, FS_Subset

LEMMA TokensInit == Init => TokensAccounted
  <1> SUFFICES ASSUME Init PROVE TokensAccounted OBVIOUS
  <1>1. Open = {} /\ \A f \in Fn : Holders(f) = {}
    BY DEF Init, Open, Holders, Executing
  <1>2. slots = 0 /\ 0 <= Slots /\ \A f \in Fn : sem[f] = 0 /\ 0 <= Limit[f]
    BY DispatcherAssumption DEF Init
  <1>3. Cardinality(Open) = 0 /\ \A f \in Fn : Cardinality(Holders(f)) = 0
    BY <1>1, FS_EmptySet
  <1> QED BY <1>2, <1>3 DEF TokensAccounted, Open, Holders

\* Steps that touch neither the slots nor the semaphores.
LEMMA SlotsStay ==
    ASSUME TokensAccounted, UNCHANGED slots, Open' = Open,
           UNCHANGED sem, \A f \in Fn : Holders(f)' = Holders(f)
    PROVE  TokensAccounted'
  BY DEF TokensAccounted, Open, Holders

LEMMA SlotStep ==
    ASSUME TypeOK, TokensAccounted, NEW i \in Item, Start(i) \/ Decline(i) \/ Settle(i)
    PROVE  TokensAccounted'
  <1>1. UNCHANGED <<sem, exec>> BY DEF Start, Decline, Settle
  <1>2. \A f \in Fn : sem'[f] = Cardinality(Holders(f)') /\ sem'[f] <= Limit[f]
    BY <1>1 DEF TokensAccounted, Holders
  <1>3. slots' = Cardinality(Open') /\ slots' <= Slots
    <2>1. CASE Start(i)
      <3>1. i \notin Open /\ Open' = Open \cup {i} /\ slots' = slots + 1 /\ slots < Slots
        BY <2>1 DEF Start, Open, TypeOK
      <3>2. Cardinality(Open') = Cardinality(Open) + 1
        BY <3>1, HoldersFinite, FS_AddElement
      <3> QED BY <3>1, <3>2, DispatcherAssumption DEF TokensAccounted, TypeOK, Open
    <2>2. CASE Decline(i) \/ Settle(i)
      <3>1. i \in Open /\ Open' = Open \ {i} /\ slots' = slots - 1
        BY <2>2 DEF Decline, Settle, Open, TypeOK
      <3>2. Cardinality(Open') = Cardinality(Open) - 1
        BY <3>1, HoldersFinite, FS_RemoveElement
      <3> QED BY <3>1, <3>2, DispatcherAssumption DEF TokensAccounted, TypeOK, Open
    <2> QED BY <2>1, <2>2
  <1> QED BY <1>2, <1>3 DEF TokensAccounted, Open, Holders

LEMMA SemaphoreStep ==
    ASSUME TypeOK, CallLife, TokensAccounted, NEW c \in Call, Acquire(c) \/ Release(c)
    PROVE  TokensAccounted'
  <1>1. UNCHANGED <<slots, item>> BY DEF Acquire, Release
  <1>2. c[2] \in Fn BY KeyType
  <1>3. ASSUME NEW f \in Fn PROVE sem'[f] = Cardinality(Holders(f)') /\ sem'[f] <= Limit[f]
    <2>1. sem[f] = Cardinality(Holders(f)) /\ sem[f] <= Limit[f] /\ sem[f] \in Int
      BY DEF TokensAccounted, Holders, TypeOK
    <2>2. CASE f # c[2]
      <3>1. Holders(f)' = Holders(f) /\ sem'[f] = sem[f]
        BY <2>2 DEF Acquire, Release, Holders, TypeOK
      <3> QED BY <2>1, <3>1
    <2>3. CASE f = c[2] /\ Acquire(c)
      <3>1. c \notin Holders(f) /\ Holders(f)' = Holders(f) \cup {c}
        BY <2>3 DEF Acquire, CallLife, Holders, Executing, TypeOK
      <3>2. Cardinality(Holders(f)') = Cardinality(Holders(f)) + 1
        BY <3>1, HoldersFinite, FS_AddElement
      <3>3. sem'[f] = sem[f] + 1 /\ sem[f] < Limit[f]
        BY <2>3, <1>2 DEF Acquire, TypeOK
      <3> QED BY <2>1, <3>2, <3>3, DispatcherAssumption
    <2>4. CASE f = c[2] /\ Release(c)
      <3>1. c \in Holders(f) /\ Holders(f)' = Holders(f) \ {c}
        BY <2>4 DEF Release, Holders, Executing, TypeOK
      <3>2. Cardinality(Holders(f)') = Cardinality(Holders(f)) - 1
        BY <3>1, HoldersFinite, FS_RemoveElement
      <3>3. sem'[f] = sem[f] - 1
        BY <2>4, <1>2 DEF Release, TypeOK
      <3> QED BY <2>1, <3>2, <3>3, DispatcherAssumption
    <2> QED BY <2>2, <2>3, <2>4
  <1> QED BY <1>1, <1>3 DEF TokensAccounted, Open, Holders

LEMMA TokensStep == TypeOK /\ CallLife /\ TokensAccounted /\ [Next]_vars => TokensAccounted'
  <1> SUFFICES ASSUME TypeOK, CallLife, TokensAccounted, [Next]_vars PROVE TokensAccounted'
    OBVIOUS
  <1>1. ASSUME UNCHANGED <<item, exec, slots, sem>> PROVE TokensAccounted'
    BY <1>1, SlotsStay DEF Open, Holders
  <1>2. ASSUME NEW i \in Item, Arrive(i) PROVE TokensAccounted'
    <2>1. Open' = Open /\ \A f \in Fn : Holders(f)' = Holders(f)
      BY <1>2 DEF Arrive, Open, Holders, TypeOK
    <2> QED BY <1>2, <2>1, SlotsStay DEF Arrive
  <1>3. ASSUME NEW i \in Item, ItemStep(i) PROVE TokensAccounted'
    BY <1>3, SlotStep DEF ItemStep
  <1>4. ASSUME NEW c \in Call, Begin(c) \/ Return(c) PROVE TokensAccounted'
    <2>1. Open' = Open /\ \A f \in Fn : Holders(f)' = Holders(f)
      BY <1>4 DEF Begin, Return, Open, Holders, Executing, TypeOK
    <2> QED BY <1>4, <2>1, SlotsStay DEF Begin, Return
  <1>5. ASSUME NEW c \in Call, Acquire(c) \/ Release(c) PROVE TokensAccounted'
    BY <1>5, SemaphoreStep
  <1>6. ASSUME NEW c \in Call, Admission(c) \/ NoCapabilities(c) \/ Conclusion(c) \/ Expire(c) \/ Store(c)
        PROVE  TokensAccounted'
    BY <1>1, <1>6 DEF Admission, Mismatch, Skip, Reserve, NoCapabilities, Conclusion, Collect,
                      Timeout, Expire, Store
  <1>7. CASE Pause \/ Resume \/ UNCHANGED vars
    BY <1>1, <1>7 DEF Pause, Resume, vars
  <1> QED BY <1>2, <1>3, <1>4, <1>5, <1>6, <1>7 DEF Next, Terminated

-----------------------------------------------------------------------------
(* The theorems                                                            *)

LEMMA InitIInv == Init => IInv
  <1> SUFFICES ASSUME Init PROVE IInv OBVIOUS
  <1>1. CallLife BY DEF Init, CallLife
  <1>2. OneOwnerPerKey BY DEF Init, OneOwnerPerKey, Owns
  <1> QED BY <1>1, <1>2, TypeInit, TokensInit DEF IInv

LEMMA StepIInv == IInv /\ [Next]_vars => IInv'
  BY TypeStep, LifeStep, OwnerStep, TokensStep DEF IInv

\* IInv holds in every reachable state.
THEOREM Inductive == Spec => []IInv
  BY InitIInv, StepIInv, PTL DEF Spec

\* An in-flight key has one owner at most and is there exactly while it has.
THEOREM KeysHaveOneOwner == Spec => []OneOwnerPerKey
  <1>1. IInv => OneOwnerPerKey BY DEF IInv
  <1> QED BY <1>1, Inductive, PTL

\* Of two executions of one function for one entity at a time, one belongs to
\* a call that timed out.
THEOREM TwinsTimedOut == Spec => []NoTwinExecution
  <1>1. IInv => NoTwinExecution
    BY DEF IInv, CallLife, OneOwnerPerKey, Owns, NoTwinExecution
  <1> QED BY <1>1, Inductive, PTL

\* The global limit and the limit of each function are kept.
THEOREM LimitsKept == Spec => []TokensAccounted
  <1>1. IInv => TokensAccounted BY DEF IInv
  <1> QED BY <1>1, Inductive, PTL
=============================================================================
