---------------------------- MODULE PacketProofs ----------------------------
(***************************************************************************)
(* The way of one output into a batch, for whatever finite sets of results *)
(* the modules hand over: however the groups of a packet are visited, what *)
(* is stored is the whole packet, each result once and below an entity     *)
(* that its source may mean, and a packet whose sources each mean one      *)
(* entity is stored.  Meaning is given by the stages of Placed: what the   *)
(* n-th visit finds lies within the n-th stage, and what a stage finds     *)
(* is found by visits before they can come to an end.                      *)
(***************************************************************************)
EXTENDS Storing, SequenceTheorems, FiniteSetTheorems, WellFoundedInduction, TLAPS

-----------------------------------------------------------------------------
(* The inductive invariant.                                                *)

Groups == {r.source : r \in packet}
Visits == Cardinality(Groups \ pending)

\* The results stored are those of the groups visited, each of them once.
Whole ==
    /\ pc = "received" =>
           packet = {} /\ localIDs = {} /\ entities = {<<output.target>>}
    /\ pc # "received" => packet = P!Kept(output)
    /\ pc = "stored" => pending = {}
    /\ pending \subseteq Groups
    /\ {s.result : s \in stored} = {r \in packet : r.source \notin pending}
    /\ stored \subseteq [result : packet, at : entities]
    /\ \A s, t \in stored : s.result = t.result => s = t

\* Nothing is found in as many visits that the stages do not find in as many steps.
Traced ==
    LET placed == P!Stages(output)[Visits]
        batch == P!Batch(output, placed)
    IN  /\ entities \subseteq batch
        /\ \A l \in localIDs : \E p \in placed : p.result.lid = l.lid /\ p.at = l.entity
        /\ \A s \in stored : s.at \in P!Sources(batch, placed, s.result.source)

\* What is known, and that the results stored made it known.
Known ==
    /\ <<output.target>> \in entities
    /\ \A l \in localIDs : l.entity \in entities
    /\ \A s \in stored :
           /\ P!Place(s.result, s.at) \in entities
           /\ \A a \in P!Anchors(s.result.key) : <<a>> \in entities
           /\ s.result.lid # 0 => \E l \in localIDs : l.lid = s.result.lid

PacketInv ==
    /\ IsFiniteSet(output.results)
    /\ pc \in {"received", "building", "stored", "dropped"}
    /\ Whole /\ Traced /\ Known

-----------------------------------------------------------------------------
(* Induction over the natural numbers, for sets of them.                   *)

Below == {ss \in Nat \X Nat : ss[1] < ss[2]}

LEMMA LeastMember == ASSUME NEW S \in SUBSET Nat, S # {} PROVE \E x \in S : \A y \in S : x <= y
  <1>1. IsWellFoundedOn(Below, Nat)
    BY NatLessThanWellFounded DEF Below, OpToRel
  <1>2. PICK x \in S : \A y \in S : ~(<<y, x>> \in Below)
    BY <1>1, WFMin
  <1>3. ASSUME NEW y \in S PROVE x <= y
    <2>1. <<y, x>> \in Nat \X Nat /\ <<y, x>>[1] = y /\ <<y, x>>[2] = x
      OBVIOUS
    <2>2. ~(y < x)
      BY <1>2, <2>1 DEF Below
    <2> QED
      BY <2>2
  <1> QED
    BY <1>3

LEMMA Induction ==
    ASSUME NEW S \in SUBSET Nat, 0 \in S, \A n \in S : n + 1 \in S
    PROVE  S = Nat
  <1> SUFFICES ASSUME Nat \ S # {} PROVE FALSE
    OBVIOUS
  <1>1. PICK x \in Nat \ S : \A y \in Nat \ S : x <= y
    BY LeastMember
  <1>2. x # 0 /\ x - 1 \in S
    BY <1>1
  <1> QED
    BY <1>1, <1>2

\* The same up to a number.
LEMMA InductionUpTo ==
    ASSUME NEW N \in Nat, NEW S, 0 \in S, \A n \in 1..N : n - 1 \in S => n \in S
    PROVE  0..N \subseteq S
  <1> DEFINE U == {n \in Nat : n \in S \/ n > N}
  <1>1. \A n \in U : n + 1 \in U
    <2> TAKE n \in U
    <2>1. CASE n + 1 > N
      BY <2>1
    <2>2. CASE n + 1 <= N
      <3>1. n + 1 \in 1..N /\ n \in S /\ (n + 1) - 1 = n
        BY <2>2
      <3> QED
        BY <3>1
    <2> QED
      BY <2>1, <2>2
  <1>2. U = Nat
    BY <1>1, Induction
  <1> QED
    BY <1>2

\* The instance of Packet has its own instance of FiniteSets.
LEMMA SameCardinality == \A S : P!Cardinality(S) = Cardinality(S)
  BY DEF P!Cardinality, Cardinality

-----------------------------------------------------------------------------
(* What processing takes to trace back to the target.                      *)

LEMMA ImageFinite ==
    ASSUME NEW f, IsFiniteSet(DOMAIN f)
    PROVE  LET image == {f[x] : x \in DOMAIN f}
           IN  IsFiniteSet(image) /\ Cardinality(image) <= Cardinality(DOMAIN f)
  <1> DEFINE image == {f[x] : x \in DOMAIN f}
             g == [x \in DOMAIN f |-> f[x]]
  <1>1. g \in Surjection(DOMAIN f, image)
    BY DEF Surjection
  <1> QED
    BY <1>1, FS_Surjection, Zenon

ReachingUpTo(o, n, h) ==
    h = [i \in 0..n |-> IF i = 0 THEN {o.target} ELSE P!Onward(o, h[i - 1])]

LEMMA ReachingExists ==
    ASSUME NEW o
    PROVE  \A n \in Nat : \E h : ReachingUpTo(o, n, h)
  <1> DEFINE S == {n \in Nat : \E h : ReachingUpTo(o, n, h)}
  <1>1. 0 \in S
    <2>1. ReachingUpTo(o, 0, [i \in 0..0 |-> {o.target}])
      BY DEF ReachingUpTo
    <2> QED
      BY <2>1
  <1>2. ASSUME NEW n \in S PROVE n + 1 \in S
    <2>1. PICK h : ReachingUpTo(o, n, h)
      OBVIOUS
    <2> DEFINE k == [i \in 0..(n + 1) |-> IF i = n + 1 THEN P!Onward(o, h[n]) ELSE h[i]]
    <2>2. \A i \in 0..n : h[i] = IF i = 0 THEN {o.target} ELSE P!Onward(o, h[i - 1])
      BY <2>1, Zenon DEF ReachingUpTo
    <2>3. ASSUME NEW i \in 0..(n + 1)
          PROVE  k[i] = IF i = 0 THEN {o.target} ELSE P!Onward(o, k[i - 1])
      <3>1. CASE i = n + 1
        <4>1. n \in 0..(n + 1) /\ n # n + 1 /\ i # 0 /\ i - 1 = n
          BY <3>1
        <4>2. k[n] = h[n] /\ k[i] = P!Onward(o, h[n])
          BY <3>1, <4>1
        <4> QED
          BY <4>1, <4>2
      <3>2. CASE i = 0
        <4>1. i \in 0..n /\ i # n + 1
          BY <3>2
        <4> QED
          BY <4>1, <3>2, <2>2
      <3>3. CASE i # n + 1 /\ i # 0
        <4>1. i \in 0..n /\ i - 1 \in 0..(n + 1) /\ i - 1 # n + 1
          BY <3>3
        <4>2. k[i] = h[i] /\ k[i - 1] = h[i - 1]
          BY <3>3, <4>1
        <4> QED
          BY <4>1, <4>2, <3>3, <2>2
      <3> QED
        BY <3>1, <3>2, <3>3
    <2>4. k = [i \in 0..(n + 1) |-> k[i]]
      OBVIOUS
    <2> HIDE DEF k
    <2>5. ReachingUpTo(o, n + 1, k)
      BY <2>3, <2>4, Zenon DEF ReachingUpTo
    <2> QED
      BY <2>5
  <1>3. S = Nat
    BY <1>1, <1>2, Induction
  <1> QED
    BY <1>3

LEMMA ReachingUnfolds ==
    ASSUME NEW o, Cardinality(P!Keys(o)) \in Nat
    PROVE  \E h : /\ h[0] = {o.target} /\ h[Cardinality(P!Keys(o))] = P!Reachable(o)
                  /\ \A n \in 1..Cardinality(P!Keys(o)) : h[n] = P!Onward(o, h[n - 1])
  <1> DEFINE N == Cardinality(P!Keys(o))
             h == CHOOSE g : ReachingUpTo(o, N, g)
  <1>1. ReachingUpTo(o, N, h)
    BY ReachingExists
  <1>2. h[N] = P!Reachable(o)
    <2>1. P!Cardinality(P!Keys(o)) = N
      BY SameCardinality
    <2> HIDE DEF N
    <2> QED
      BY <2>1 DEF P!Reachable, ReachingUpTo
  <1> HIDE DEF N, h
  <1>3. h = [i \in 0..N |-> IF i = 0 THEN {o.target} ELSE P!Onward(o, h[i - 1])]
    BY <1>1 DEF ReachingUpTo
  <1>4. \A n \in 0..N : h[n] = IF n = 0 THEN {o.target} ELSE P!Onward(o, h[n - 1])
    BY <1>3, Zenon
  <1>5. h[0] = {o.target} /\ \A n \in 1..N : h[n] = P!Onward(o, h[n - 1])
    BY <1>4 DEF N
  <1> QED
    BY <1>2, <1>5 DEF N

LEMMA KeysFinite ==
    ASSUME NEW o, IsFiniteSet(o.results)
    PROVE  IsFiniteSet(P!Keys(o)) /\ Cardinality(P!Keys(o)) \in Nat
  <1> DEFINE f == [r \in o.results |-> r.key]
             g == [r \in o.results |-> r.source.key]
             found == {f[r] : r \in DOMAIN f}
             sources == {g[r] : r \in DOMAIN g}
  <1>1. DOMAIN f = o.results /\ DOMAIN g = o.results
    OBVIOUS
  <1>2. P!Keys(o) = ({o.target} \cup found) \cup sources
    BY DEF P!Keys
  <1>3. IsFiniteSet(found) /\ IsFiniteSet(sources) /\ IsFiniteSet({o.target})
    <2>1. IsFiniteSet({o.target})
      BY FS_Singleton, Zenon
    <2> HIDE DEF f, g
    <2>2. IsFiniteSet(DOMAIN f) /\ IsFiniteSet(DOMAIN g)
      BY <1>1
    <2>3. IsFiniteSet(found)
      BY <2>2, ImageFinite
    <2>4. IsFiniteSet(sources)
      BY <2>2, ImageFinite
    <2> QED
      BY <2>1, <2>3, <2>4
  <1> HIDE DEF found, sources
  <1>4. IsFiniteSet({o.target} \cup found)
    BY <1>3, FS_Union, Zenon
  <1>5. IsFiniteSet(P!Keys(o))
    BY <1>2, <1>3, <1>4, FS_Union, Zenon
  <1> QED
    BY <1>5, FS_CardinalityType

\* Sets of keys that hold the target and whatever a result has found in one of them.
Closed(o, S) == o.target \in S /\ \A r \in o.results : r.source.key \in S => r.key \in S

\* What processing does not mark as invalid for being an island is what a chain of sources
\* leads to from the target, in whatever order the results come: the least closed set.
THEOREM ReachableIsLeast ==
    ASSUME NEW o, IsFiniteSet(o.results)
    PROVE  /\ Closed(o, P!Reachable(o))
           /\ \A S : Closed(o, S) => P!Reachable(o) \subseteq S
  <1> DEFINE N == Cardinality(P!Keys(o))
  <1>1. IsFiniteSet(P!Keys(o)) /\ N \in Nat
    BY KeysFinite
  <1>2. PICK h : /\ h[0] = {o.target} /\ h[N] = P!Reachable(o)
                 /\ \A n \in 1..N : h[n] = P!Onward(o, h[n - 1])
    BY <1>1, ReachingUnfolds, Zenon
  <1> DEFINE Within == {n \in 0..N : o.target \in h[n] /\ h[n] \subseteq P!Keys(o)}
             Grown == {n \in 0..N : Closed(o, h[n]) \/ Cardinality(h[n]) > n}
  <1> HIDE DEF N
  <1>3. 0..N \subseteq Within
    <2>1. 0 \in Within
      BY <1>1, <1>2 DEF P!Keys
    <2>2. \A n \in 1..N : n - 1 \in Within => n \in Within
      BY <1>1, <1>2 DEF P!Onward, P!Keys
    <2> HIDE DEF Within
    <2> QED
      BY <1>1, <2>1, <2>2, InductionUpTo
  <1>4. \A n \in 0..N : IsFiniteSet(h[n]) /\ Cardinality(h[n]) \in Nat /\ Cardinality(h[n]) <= N
    BY <1>1, <1>3, FS_Subset, FS_CardinalityType DEF N
  <1>5. 0..N \subseteq Grown
    <2>1. 0 \in Grown
      <3>1. Cardinality({o.target}) = 1
        BY FS_Singleton, Zenon
      <3> QED
        BY <1>1, <1>2, <3>1
    <2>2. ASSUME NEW n \in 1..N, n - 1 \in Grown PROVE n \in Grown
      <3>1. n \in 0..N /\ n - 1 \in 0..N /\ h[n] = P!Onward(o, h[n - 1])
        BY <1>1, <1>2
      <3>2. h[n - 1] \subseteq h[n]
        BY <3>1 DEF P!Onward
      <3>3. CASE h[n] = h[n - 1]
        <4>1. Closed(o, h[n])
          BY <3>1, <3>3, <1>3 DEF P!Onward, Closed
        <4> QED
          BY <3>1, <4>1
      <3>4. CASE h[n] # h[n - 1]
        <4>1. ~Closed(o, h[n - 1])
          BY <3>1, <3>4 DEF P!Onward, Closed
        <4>2. Cardinality(h[n - 1]) > n - 1
          BY <2>2, <4>1
        <4>3. Cardinality(h[n - 1]) <= Cardinality(h[n]) /\ Cardinality(h[n - 1]) # Cardinality(h[n])
          BY <3>1, <3>2, <3>4, <1>4, FS_Subset
        <4>4. Cardinality(h[n]) > n
          BY <3>1, <4>2, <4>3, <1>4
        <4> QED
          BY <3>1, <4>4
      <3> QED
        BY <3>3, <3>4
    <2> HIDE DEF Grown
    <2> QED
      BY <1>1, <2>1, <2>2, InductionUpTo
  <1>6. Closed(o, P!Reachable(o))
    <2>1. N \in 0..N
      BY <1>1
    <2>2. ~(Cardinality(h[N]) > N)
      BY <2>1, <1>1, <1>4
    <2>3. N \in Grown
      BY <2>1, <1>5, Zenon
    <2> QED
      BY <2>2, <2>3, <1>2
  <1>7. ASSUME NEW S, Closed(o, S) PROVE P!Reachable(o) \subseteq S
    <2> DEFINE Inside == {n \in 0..N : h[n] \subseteq S}
    <2>1. 0 \in Inside
      BY <1>1, <1>2, <1>7 DEF Closed
    <2>2. \A n \in 1..N : n - 1 \in Inside => n \in Inside
      BY <1>1, <1>2, <1>7 DEF P!Onward, Closed
    <2> HIDE DEF Inside
    <2>3. 0..N \subseteq Inside
      BY <1>1, <2>1, <2>2, InductionUpTo
    <2>4. N \in 0..N
      BY <1>1
    <2> QED
      BY <2>3, <2>4, <1>2 DEF Inside
  <1> QED
    BY <1>6, <1>7

-----------------------------------------------------------------------------
(* The number of results of a packet, and the stages, one by one.          *)

LEMMA KeptFinite ==
    ASSUME NEW o, IsFiniteSet(o.results)
    PROVE  IsFiniteSet(P!Kept(o)) /\ Cardinality(P!Kept(o)) \in Nat
  <1>1. IsFiniteSet(P!Kept(o))
    <2>1. CASE o.error
      BY <2>1, FS_EmptySet DEF P!Kept
    <2>2. CASE ~o.error
      <3> DEFINE complete == {r \in o.results : ~P!Incomplete(r)}
                 f == [q \in complete |-> P!Normalised(P!Reachable(o), q)]
                 image == {f[x] : x \in DOMAIN f}
      <3>1. complete \in SUBSET o.results
        OBVIOUS
      <3>2. IsFiniteSet(complete)
        BY <3>1, FS_Subset, Zenon
      <3>3. DOMAIN f = complete /\ \A q \in complete : f[q] = P!Normalised(P!Reachable(o), q)
        OBVIOUS
      <3>4. IsFiniteSet(image)
        <4> HIDE DEF f
        <4> QED
          BY <3>2, <3>3, ImageFinite
      <3>5. P!Kept(o) \in SUBSET image
        BY <2>2, <3>3, Zenon DEF P!Kept
      <3> QED
        BY <3>4, <3>5, FS_Subset, Zenon
    <2> QED
      BY <2>1, <2>2
  <1> QED
    BY <1>1, FS_CardinalityType

StagesUpTo(o, n, h) ==
    h = [i \in 0..n |-> IF i = 0 THEN {} ELSE P!Further(o, P!Kept(o), h[i - 1])]

LEMMA StagesExist ==
    ASSUME NEW o
    PROVE  \A n \in Nat : \E h : StagesUpTo(o, n, h)
  <1> DEFINE S == {n \in Nat : \E h : StagesUpTo(o, n, h)}
  <1>1. 0 \in S
    <2>1. StagesUpTo(o, 0, [i \in 0..0 |-> {}])
      BY DEF StagesUpTo
    <2> QED
      BY <2>1
  <1>2. ASSUME NEW n \in S PROVE n + 1 \in S
    <2>1. PICK h : StagesUpTo(o, n, h)
      OBVIOUS
    <2> DEFINE k == [i \in 0..(n + 1) |-> IF i = n + 1 THEN P!Further(o, P!Kept(o), h[n]) ELSE h[i]]
    <2>2. \A i \in 0..n : h[i] = IF i = 0 THEN {} ELSE P!Further(o, P!Kept(o), h[i - 1])
      BY <2>1, Zenon DEF StagesUpTo
    <2>3. StagesUpTo(o, n + 1, k)
      BY <2>2 DEF StagesUpTo
    <2> QED
      BY <2>3
  <1>3. S = Nat
    BY <1>1, <1>2, Induction
  <1> QED
    BY <1>3

LEMMA StagesUnfold ==
    ASSUME NEW o, Cardinality(P!Kept(o)) \in Nat
    PROVE  /\ P!Stages(o)[0] = {}
           /\ \A n \in 1..Cardinality(P!Kept(o)) :
                  P!Stages(o)[n] = P!Further(o, P!Kept(o), P!Stages(o)[n - 1])
  <1> DEFINE N == Cardinality(P!Kept(o))
             h == P!Stages(o)
  <1>1. \E g : StagesUpTo(o, N, g)
    BY StagesExist
  <1>2. h = CHOOSE g : StagesUpTo(o, N, g)
    <2>1. P!Cardinality(P!Kept(o)) = N
      BY SameCardinality
    <2> HIDE DEF N
    <2> QED
      BY <2>1 DEF P!Stages, StagesUpTo
  <1>3. StagesUpTo(o, N, h)
    BY <1>1, <1>2
  <1>4. h = [i \in 0..N |-> IF i = 0 THEN {} ELSE P!Further(o, P!Kept(o), h[i - 1])]
    BY <1>3 DEF StagesUpTo
  <1> HIDE DEF N, h
  <1>5. \A n \in 0..N : h[n] = IF n = 0 THEN {} ELSE P!Further(o, P!Kept(o), h[n - 1])
    BY <1>4, Zenon
  <1> QED
    BY <1>5 DEF N, h

-----------------------------------------------------------------------------
(* What the stages find.                                                   *)

LEMMA MoreSources ==
    ASSUME NEW o, NEW A, NEW B, A \subseteq B
    PROVE  /\ P!Batch(o, A) \subseteq P!Batch(o, B)
           /\ \A g : P!Sources(P!Batch(o, A), A, g) \subseteq P!Sources(P!Batch(o, B), B, g)
  <1>1. P!Batch(o, A) \subseteq P!Batch(o, B)
    BY DEF P!Batch
  <1> QED
    BY <1>1 DEF P!Sources

LEMMA FurtherIs ==
    ASSUME NEW o, NEW kept, NEW placed, NEW p
    PROVE  p \in P!Further(o, kept, placed)
             <=> \E r \in kept : \E e \in P!Sources(P!Batch(o, placed), placed, r.source) :
                     p = [result |-> r, at |-> P!Place(r, e)]
  <1> DEFINE sources(r) == P!Sources(P!Batch(o, placed), placed, r.source)
             of(r) == {[result |-> r, at |-> P!Place(r, e)] : e \in sources(r)}
  <1>1. P!Further(o, kept, placed) = UNION {of(r) : r \in kept}
    BY DEF P!Further
  <1>2. \A r : p \in of(r) <=> \E e \in sources(r) : p = [result |-> r, at |-> P!Place(r, e)]
    OBVIOUS
  <1>3. p \in UNION {of(r) : r \in kept} <=> \E r \in kept : p \in of(r)
    <2> HIDE DEF of
    <2> QED
      OBVIOUS
  <1> HIDE DEF of, sources
  <1>4. p \in P!Further(o, kept, placed)
          <=> \E r \in kept : \E e \in sources(r) : p = [result |-> r, at |-> P!Place(r, e)]
    BY <1>1, <1>2, <1>3, Zenon
  <1> QED
    BY <1>4, Zenon DEF sources

LEMMA MoreFurther ==
    ASSUME NEW o, NEW kept, NEW A, NEW B, A \subseteq B
    PROVE  P!Further(o, kept, A) \subseteq P!Further(o, kept, B)
  <1>1. \A g : P!Sources(P!Batch(o, A), A, g) \subseteq P!Sources(P!Batch(o, B), B, g)
    BY MoreSources
  <1>2. ASSUME NEW p \in P!Further(o, kept, A) PROVE p \in P!Further(o, kept, B)
    <2>1. PICK r \in kept : \E e \in P!Sources(P!Batch(o, A), A, r.source) :
              p = [result |-> r, at |-> P!Place(r, e)]
      BY FurtherIs
    <2>2. \E e \in P!Sources(P!Batch(o, B), B, r.source) : p = [result |-> r, at |-> P!Place(r, e)]
      BY <2>1, <1>1, Zenon
    <2> QED
      BY <2>2, FurtherIs, Zenon
  <1> QED
    BY <1>2

LEMMA StagesGrow ==
    ASSUME NEW o, IsFiniteSet(o.results)
    PROVE  /\ \A n \in 1..Cardinality(P!Kept(o)) : P!Stages(o)[n - 1] \subseteq P!Stages(o)[n]
           /\ \A n \in 0..Cardinality(P!Kept(o)) : P!Stages(o)[n] \subseteq P!Placed(o)
  <1> DEFINE N == Cardinality(P!Kept(o))
             h == P!Stages(o)
             S == {n \in 0..N : n # 0 => h[n - 1] \subseteq h[n]}
             L == {n \in 0..N : h[N - n] \subseteq h[N]}
  <1>1. N \in Nat /\ h[0] = {} /\ \A n \in 1..N : h[n] = P!Further(o, P!Kept(o), h[n - 1])
    BY KeptFinite, StagesUnfold
  <1> HIDE DEF N, h
  <1>2. 0..N \subseteq S
    <2>1. 0 \in S
      BY <1>1
    <2>2. ASSUME NEW n \in 1..N, n - 1 \in S PROVE n \in S
      <3>1. CASE n = 1
        BY <3>1, <1>1
      <3>2. CASE n # 1
        <4>1. n - 1 \in 1..N /\ n \in 0..N /\ h[(n - 1) - 1] \subseteq h[n - 1]
          BY <3>2, <2>2, <1>1
        <4>2. h[n - 1] = P!Further(o, P!Kept(o), h[(n - 1) - 1]) /\ h[n] = P!Further(o, P!Kept(o), h[n - 1])
          BY <4>1, <1>1
        <4>3. h[n - 1] \subseteq h[n]
          BY <4>1, <4>2, MoreFurther
        <4> QED
          BY <4>1, <4>3
      <3> QED
        BY <3>1, <3>2
    <2> HIDE DEF S
    <2> QED
      BY <1>1, <2>1, <2>2, InductionUpTo
  <1>3. \A n \in 1..N : h[n - 1] \subseteq h[n]
    BY <1>1, <1>2
  <1>4. 0..N \subseteq L
    <2>1. 0 \in L
      BY <1>1
    <2>2. ASSUME NEW n \in 1..N, n - 1 \in L PROVE n \in L
      <3>1. N - (n - 1) \in 1..N /\ (N - (n - 1)) - 1 = N - n /\ n \in 0..N
        BY <1>1
      <3>2. h[N - n] \subseteq h[N - (n - 1)]
        BY <3>1, <1>3
      <3> QED
        BY <2>2, <3>1, <3>2
    <2> HIDE DEF L
    <2> QED
      BY <1>1, <2>1, <2>2, InductionUpTo
  <1>5. ASSUME NEW n \in 0..N PROVE h[n] \subseteq h[N]
    <2>1. N - n \in 0..N /\ N - (N - n) = n
      BY <1>1
    <2> QED
      BY <2>1, <1>4
  <1> QED
    BY <1>3, <1>5, SameCardinality, Zenon DEF N, h, P!Placed

\* Entities are paths of keys: those of the results, of the target and of anchors.
Steps(o) ==
    {o.target} \cup {r.key : r \in P!Kept(o)} \cup UNION {P!Anchors(r.key) : r \in P!Kept(o)}
Paths(o) == {e \in Seq(Steps(o)) : e # <<>>}

LEMMA NotEmpty == ASSUME NEW K, NEW e \in Seq(K), e # <<>> PROVE Len(e) > 0
  <1> DEFINE n == Len(e)
  <1>1. n # 0
    <2> SUFFICES ASSUME Len(e) = 0 PROVE FALSE
      OBVIOUS
    <2>1. <<>> \in Seq(K) /\ Len(<<>>) = 0
      BY EmptySeq
    <2>2. e = <<>>
      BY <2>1, SeqEqual
    <2> QED
      BY <2>2
  <1>2. n \in Nat
    BY LenProperties, Zenon
  <1> HIDE DEF n
  <1>3. n > 0
    BY <1>1, <1>2
  <1> QED
    BY <1>3 DEF n

LEMMA OneStep ==
    ASSUME NEW K, NEW e \in Seq(K), e # <<>>, ~(Len(e) > 1)
    PROVE  e = <<e[1]>> /\ Len(e) = 1
  <1>1. Len(e) = 1
    <2> DEFINE n == Len(e)
    <2>1. n \in Nat /\ n > 0 /\ ~(n > 1)
      BY NotEmpty, LenProperties, Zenon
    <2> HIDE DEF n
    <2>2. n = 1
      BY <2>1
    <2> QED
      BY <2>2 DEF n
  <1>2. e[1] \in K
    BY <1>1, ElementOfSeq
  <1>3. <<e[1]>> \in Seq(K) /\ Len(<<e[1]>>) = 1 /\ <<e[1]>>[1] = e[1]
    BY <1>2
  <1>4. \A i \in 1..Len(e) : e[i] = <<e[1]>>[i]
    BY <1>1, <1>3
  <1> QED
    BY <1>1, <1>3, <1>4, SeqEqual

LEMMA BatchPaths ==
    ASSUME NEW o, NEW placed, \A p \in placed : p.result \in P!Kept(o) /\ p.at \in Paths(o)
    PROVE  P!Batch(o, placed) \subseteq Paths(o)
  <1> DEFINE K == Steps(o)
  <1>1. ASSUME NEW k \in K PROVE <<k>> \in Paths(o)
    <2> HIDE DEF K
    <2>1. <<k>> \in Seq(K) /\ <<k>> # <<>>
      OBVIOUS
    <2> QED
      BY <2>1 DEF K, Paths
  <1>2. o.target \in K
    BY DEF Steps
  <1>3. ASSUME NEW p \in placed, NEW a \in P!Anchors(p.result.key) PROVE a \in K
    BY <1>3 DEF Steps
  <1> HIDE DEF K
  <1> QED
    BY <1>1, <1>2, <1>3 DEF P!Batch

LEMMA PlacePath ==
    ASSUME NEW o, NEW r \in P!Kept(o), NEW e \in Paths(o)
    PROVE  P!Place(r, e) \in Paths(o)
  <1> DEFINE K == Steps(o)
  <1>1. r.key \in K
    BY DEF Steps
  <1>2. e \in Seq(K)
    BY DEF Paths
  <1> HIDE DEF K
  <1>3. <<r.key>> \in Seq(K) /\ <<r.key>> # <<>>
    BY <1>1
  <1>4. Append(e, r.key) \in Seq(K) /\ Append(e, r.key) # <<>>
    BY <1>1, <1>2
  <1> QED
    BY <1>3, <1>4 DEF P!Place, Paths, K

LEMMA StagesPaths ==
    ASSUME NEW o, IsFiniteSet(o.results)
    PROVE  \A n \in 0..Cardinality(P!Kept(o)) :
               \A p \in P!Stages(o)[n] : p.result \in P!Kept(o) /\ p.at \in Paths(o)
  <1> DEFINE N == Cardinality(P!Kept(o))
             h == P!Stages(o)
             S == {n \in 0..N : \A p \in h[n] : p.result \in P!Kept(o) /\ p.at \in Paths(o)}
  <1>1. N \in Nat /\ h[0] = {} /\ \A n \in 1..N : h[n] = P!Further(o, P!Kept(o), h[n - 1])
    BY KeptFinite, StagesUnfold
  <1> HIDE DEF N, h
  <1>2. 0 \in S
    BY <1>1
  <1>3. ASSUME NEW n \in 1..N, n - 1 \in S PROVE n \in S
    <2>1. \A p \in h[n - 1] : p.result \in P!Kept(o) /\ p.at \in Paths(o)
      BY <1>3
    <2>2. P!Batch(o, h[n - 1]) \subseteq Paths(o)
      BY <2>1, BatchPaths
    <2>3. ASSUME NEW g PROVE P!Sources(P!Batch(o, h[n - 1]), h[n - 1], g) \subseteq Paths(o)
      BY <2>1, <2>2 DEF P!Sources
    <2>4. ASSUME NEW p \in h[n] PROVE p.result \in P!Kept(o) /\ p.at \in Paths(o)
      <3>1. PICK r \in P!Kept(o) : \E e \in P!Sources(P!Batch(o, h[n - 1]), h[n - 1], r.source) :
                p = [result |-> r, at |-> P!Place(r, e)]
        <4>1. p \in P!Further(o, P!Kept(o), h[n - 1])
          BY <1>1, Zenon
        <4> QED
          BY <4>1, FurtherIs
      <3>2. PICK e \in P!Sources(P!Batch(o, h[n - 1]), h[n - 1], r.source) :
                p = [result |-> r, at |-> P!Place(r, e)]
        BY <3>1
      <3>3. P!Place(r, e) \in Paths(o)
        BY <2>3, PlacePath
      <3> QED
        BY <3>2, <3>3
    <2> QED
      BY <2>4
  <1> HIDE DEF S
  <1>4. 0..N \subseteq S
    BY <1>1, <1>2, <1>3, InductionUpTo
  <1> QED
    BY <1>4 DEF S, N, h

-----------------------------------------------------------------------------
(* Every step keeps the invariant.                                         *)

LEMMA VisitsBounded ==
    ASSUME NEW o, IsFiniteSet(o.results), NEW V \in SUBSET {r.source : r \in P!Kept(o)}
    PROVE  IsFiniteSet(V) /\ Cardinality(V) \in 0..Cardinality(P!Kept(o))
  <1> DEFINE f == [r \in P!Kept(o) |-> r.source]
             image == {f[r] : r \in DOMAIN f}
  <1>1. IsFiniteSet(P!Kept(o)) /\ Cardinality(P!Kept(o)) \in Nat
    BY KeptFinite
  <1>2. DOMAIN f = P!Kept(o) /\ image = {r.source : r \in P!Kept(o)}
    OBVIOUS
  <1>3. IsFiniteSet(image) /\ Cardinality(image) <= Cardinality(P!Kept(o))
    <2> HIDE DEF f
    <2> QED
      BY <1>1, <1>2, ImageFinite
  <1> HIDE DEF image
  <1>4. IsFiniteSet(V) /\ Cardinality(V) <= Cardinality(image)
    BY <1>2, <1>3, FS_Subset
  <1>5. Cardinality(V) \in Nat /\ Cardinality(image) \in Nat
    BY <1>3, <1>4, FS_CardinalityType
  <1> QED
    BY <1>1, <1>3, <1>4, <1>5

\* What Resolved finds is among what the source means.
LEMMA ResolvedIsMeant ==
    ASSUME Traced, NEW g
    PROVE  LET placed == P!Stages(output)[Visits]
           IN  P!Resolved(g) \subseteq P!Sources(P!Batch(output, placed), placed, g)
  <1> DEFINE placed == P!Stages(output)[Visits]
  <1>1. entities \subseteq P!Batch(output, placed)
    BY DEF Traced
  <1>2. \A l \in localIDs : \E p \in placed : p.result.lid = l.lid /\ p.at = l.entity
    BY DEF Traced
  <1> SUFFICES P!Resolved(g) \subseteq P!Sources(P!Batch(output, placed), placed, g)
    OBVIOUS
  <1> HIDE DEF placed
  <1>3. CASE g.lid # 0
    BY <1>2, <1>3 DEF P!Resolved, P!Sources
  <1>4. CASE g.lid = 0
    <2>1. <<g.key>>[Len(<<g.key>>)] = g.key
      OBVIOUS
    <2> QED
      BY <1>1, <1>4, <2>1 DEF P!Resolved, P!Sources
  <1> QED
    BY <1>3, <1>4

\* In the part "store" there is an output of no results, which nothing is done about.
LEMMA StoringBegins ==
    ASSUME StoringInit
    PROVE  /\ \/ \E fn \in Reporter : output \in MayReport(fn)
              \/ output = P!Output("", P!T, {}, FALSE)
           /\ pc = "received" /\ packet = {} /\ pending = {} /\ localIDs = {} /\ stored = {}
           /\ entities = {<<output.target>>}
  BY DEF StoringInit, P!Init

LEMMA StoringSteps ==
    ASSUME [StoringNext]_<<vars, building, part>> PROVE [P!Next]_(P!vars)
  BY DEF StoringNext, building, P!vars

LEMMA InitInv == ASSUME StoringInit PROVE PacketInv /\ pc = "received"
  <1> USE StoringBegins
  <1>1. IsFiniteSet(output.results)
    <2>1. IsFiniteSet(P!Output("", P!T, {}, FALSE).results)
      BY FS_EmptySet DEF P!Output
    <2> QED
      BY <2>1, ListsAreFinite
  <1>2. Groups = {} /\ Visits = 0
    BY FS_EmptySet DEF Groups, Visits
  <1>3. Whole
    BY <1>2 DEF Whole
  <1>4. Traced
    BY <1>2 DEF Traced, P!Batch
  <1>5. Known
    BY DEF Known
  <1> QED
    BY <1>1, <1>3, <1>4, <1>5 DEF PacketInv

LEMMA ProcessInv == ASSUME PacketInv, P!Process PROVE PacketInv'
  <1> USE DEF PacketInv
  <1>1. packet = {} /\ localIDs = {} /\ entities = {<<output.target>>} /\ stored = {}
    BY DEF P!Process, Whole
  <1>2. /\ packet' = P!Kept(output) /\ pending' = {r.source : r \in packet'} /\ pc' = "building"
        /\ output' = output /\ entities' = {<<output.target>>} /\ localIDs' = {} /\ stored' = {}
    BY <1>1 DEF P!Process
  <1>3. Groups' = pending' /\ Visits' = 0
    <2>1. Groups' = pending'
      BY <1>2 DEF Groups
    <2>2. Groups' \ pending' = {}
      BY <2>1
    <2> QED
      BY <2>1, <2>2, FS_EmptySet DEF Visits
  <1>4. Whole'
    <2>1. \A r \in packet' : r.source \in pending'
      BY <1>2
    <2> QED
      BY <1>2, <1>3, <2>1 DEF Whole
  <1>5. Traced'
    BY <1>2, <1>3 DEF Traced, P!Batch
  <1>6. Known'
    BY <1>2 DEF Known
  <1> QED
    BY <1>2, <1>4, <1>5, <1>6

LEMMA LatestKeeps ==
    ASSUME NEW numbered, NEW last \in P!Latest(numbered)
    PROVE  /\ last \subseteq numbered
           /\ \A r \in numbered : \E q \in last : q.lid = r.lid
  <1> DEFINE rivals == {r \in numbered : \E q \in numbered \ {r} : q.lid = r.lid}
             same(R, r) == {q \in rivals \ R : q.lid = r.lid}
  <1>1. PICK R \in SUBSET rivals : /\ last = numbered \ R
                                   /\ \A r \in rivals : P!Cardinality(same(R, r)) = 1
    BY Zenon DEF P!Latest
  <1>2. \A r \in rivals : same(R, r) # {}
    <2> HIDE DEF same, rivals
    <2> QED
      BY <1>1, FS_EmptySet, SameCardinality
  <1>3. ASSUME NEW r \in numbered PROVE \E q \in last : q.lid = r.lid
    <2>1. CASE r \in rivals
      BY <2>1, <1>1, <1>2
    <2>2. CASE r \notin rivals
      BY <2>2, <1>1
    <2> QED
      BY <2>1, <2>2
  <1> QED
    BY <1>1, <1>3

LEMMA VisitInv ==
    ASSUME PacketInv, NEW g \in pending, P!Visit(g)
    PROVE  PacketInv'
  <1> USE DEF PacketInv
  <1> DEFINE N == Cardinality(P!Kept(output))
             V == Groups \ pending
             h == P!Stages(output)
             found == h[Visits]
             then == h[Visits + 1]
             group == {r \in packet : r.source = g}
             numbered == {r \in group : r.lid # 0}
  <1>1. pc = "building" /\ packet = P!Kept(output) /\ g \in Groups
    BY DEF P!Visit, Whole
  <1>2. Visits' = Visits + 1 /\ Visits + 1 \in 1..N /\ (Visits + 1) - 1 = Visits /\ Visits \in Nat
    <2>1. V \in SUBSET {r.source : r \in P!Kept(output)}
          /\ V \cup {g} \in SUBSET {r.source : r \in P!Kept(output)}
      BY <1>1 DEF Groups
    <2>2. IsFiniteSet(V) /\ Cardinality(V) \in 0..N /\ Cardinality(V \cup {g}) \in 0..N
      BY <2>1, VisitsBounded, Zenon
    <2>3. Cardinality(V \cup {g}) = Cardinality(V) + 1
      BY <2>2, FS_AddElement
    <2>4. (Groups \ pending)' = V \cup {g}
      BY <1>1 DEF P!Visit, Groups
    <2> HIDE DEF V, N
    <2>5. Visits' = Cardinality(V \cup {g}) /\ Visits = Cardinality(V)
      BY <2>4 DEF Visits, V
    <2>6. N \in Nat
      BY KeptFinite DEF N
    <2> QED
      BY <2>2, <2>3, <2>5, <2>6
  <1>3. found \subseteq then /\ then = P!Further(output, packet, found)
    BY <1>1, <1>2, KeptFinite, StagesUnfold, StagesGrow
  <1>4. PICK e \in P!Resolved(g), last \in P!Latest(numbered) :
            /\ entities' = entities
                   \cup {P!Place(r, e) : r \in group}
                   \cup {<<a>> : a \in UNION {P!Anchors(r.key) : r \in group}}
            /\ localIDs' = {l \in localIDs : \A r \in numbered : r.lid # l.lid}
                   \cup {[lid |-> r.lid, entity |-> P!Place(r, e)] : r \in last}
            /\ stored' = stored \cup {[result |-> r, at |-> e] : r \in group}
    BY DEF P!Visit
  <1>5. /\ pending' = pending \ {g}
        /\ output' = output /\ pc' = pc /\ packet' = packet /\ Groups' = Groups
    BY DEF P!Visit, Groups
  <1>6. e \in P!Sources(P!Batch(output, found), found, g)
    BY ResolvedIsMeant
  <1>7. \A r \in group : [result |-> r, at |-> P!Place(r, e)] \in then
    <2> TAKE r \in group
    <2>1. r \in packet /\ e \in P!Sources(P!Batch(output, found), found, r.source)
      BY <1>6
    <2> HIDE DEF found, then
    <2>2. [result |-> r, at |-> P!Place(r, e)] \in P!Further(output, packet, found)
      BY <2>1, FurtherIs
    <2> QED
      BY <1>3, <2>2
  <1>8. last \subseteq numbered /\ \A r \in numbered : \E q \in last : q.lid = r.lid
    BY LatestKeeps
  <1>9. Whole'
    <2>1. {s.result : s \in stored'} = {s.result : s \in stored} \cup group
      <3> DEFINE new == {[result |-> r, at |-> e] : r \in group}
      <3>1. \A s \in new : s.result \in group
        OBVIOUS
      <3>2. ASSUME NEW r \in group PROVE \E s \in new : s.result = r
        <4>1. [result |-> r, at |-> e] \in new /\ [result |-> r, at |-> e].result = r
          OBVIOUS
        <4> QED
          BY <4>1, Zenon
      <3>3. stored' = stored \cup new
        BY <1>4
      <3> HIDE DEF new, group
      <3> QED
        BY <3>1, <3>2, <3>3
    <2>2. {s.result : s \in stored'} = {r \in packet : r.source \notin pending'}
      BY <2>1, <1>5 DEF Whole
    <2>3. e \in entities
      <3>1. CASE g.lid # 0
        <4>1. PICK l \in localIDs : l.entity = e
          BY <3>1 DEF P!Resolved
        <4> QED
          BY <4>1 DEF Known
      <3>2. CASE g.lid = 0
        BY <3>2 DEF P!Resolved
      <3> QED
        BY <3>1, <3>2
    <2>4. stored' \subseteq [result : packet', at : entities']
      BY <2>3, <1>4, <1>5 DEF Whole
    <2>5. ASSUME NEW s \in stored', NEW t \in stored', s.result = t.result PROVE s = t
      <3>1. \A x \in stored : x.result.source # g
        BY DEF Whole
      <3>2. \A x \in stored' : x \in stored \/ (x.result.source = g /\ x = [result |-> x.result, at |-> e])
        BY <1>4
      <3> QED
        BY <3>1, <3>2, <2>5 DEF Whole
    <2> QED
      BY <1>1, <1>5, <2>2, <2>4, <2>5 DEF Whole
  <1>10. Traced'
    <2> DEFINE batch == P!Batch(output, found)
               larger == P!Batch(output, then)
    <2>1. batch \subseteq larger /\ \A s : P!Sources(batch, found, s) \subseteq P!Sources(larger, then, s)
      BY <1>3, MoreSources
    <2>2. \A r \in group : P!Place(r, e) \in larger /\ \A a \in P!Anchors(r.key) : <<a>> \in larger
      <3> TAKE r \in group
      <3> DEFINE p == [result |-> r, at |-> P!Place(r, e)]
      <3>1. p \in then /\ p.result = r /\ p.at = P!Place(r, e)
        BY <1>7
      <3> HIDE DEF p, then
      <3> QED
        BY <3>1 DEF P!Batch
    <2>3. entities' \subseteq larger
      BY <1>4, <2>1, <2>2 DEF Traced
    <2>4. ASSUME NEW l \in localIDs'
          PROVE  \E p \in then : p.result.lid = l.lid /\ p.at = l.entity
      <3>1. CASE l \in localIDs
        BY <3>1, <1>3 DEF Traced
      <3>2. CASE l \notin localIDs
        <4>1. PICK r \in last : l = [lid |-> r.lid, entity |-> P!Place(r, e)]
          BY <3>2, <1>4
        <4>2. [result |-> r, at |-> P!Place(r, e)] \in then
          BY <1>7, <1>8
        <4> QED
          BY <4>1, <4>2
      <3> QED
        BY <3>1, <3>2
    <2>5. ASSUME NEW s \in stored' PROVE s.at \in P!Sources(larger, then, s.result.source)
      <3>1. CASE s \in stored
        BY <3>1, <2>1 DEF Traced
      <3>2. CASE s \notin stored
        <4>1. s.result.source = g /\ s.at = e
          BY <3>2, <1>4
        <4> QED
          BY <4>1, <1>6, <2>1
      <3> QED
        BY <3>1, <3>2
    <2>6. P!Stages(output)'[Visits'] = then
      BY <1>2, <1>5
    <2> HIDE DEF then
    <2> QED
      BY <1>5, <2>3, <2>4, <2>5, <2>6 DEF Traced
  <1>11. Known'
    <2>1. <<output'.target>> \in entities' /\ \A l \in localIDs' : l.entity \in entities'
      BY <1>4, <1>5, <1>8 DEF Known
    <2>2. ASSUME NEW s \in stored'
          PROVE  /\ P!Place(s.result, s.at) \in entities'
                 /\ \A a \in P!Anchors(s.result.key) : <<a>> \in entities'
                 /\ s.result.lid # 0 => \E l \in localIDs' : l.lid = s.result.lid
      <3>1. s \in stored \/ (s.result \in group /\ s.at = e)
        BY <1>4
      <3>2. P!Place(s.result, s.at) \in entities'
        BY <3>1, <1>4 DEF Known
      <3>3. \A a \in P!Anchors(s.result.key) : <<a>> \in entities'
        BY <3>1, <1>4 DEF Known
      <3>4. ASSUME s.result.lid # 0 PROVE \E l \in localIDs' : l.lid = s.result.lid
        <4>1. CASE \E r \in numbered : r.lid = s.result.lid
          <5>1. PICK q \in last : q.lid = s.result.lid
            BY <4>1, <1>8
          <5>2. [lid |-> q.lid, entity |-> P!Place(q, e)] \in localIDs'
            BY <1>4
          <5> QED
            BY <5>1, <5>2
        <4>2. CASE ~ \E r \in numbered : r.lid = s.result.lid
          <5>1. s \in stored
            BY <3>1, <3>4, <4>2
          <5> QED
            BY <5>1, <3>4, <4>2, <1>4 DEF Known
        <4> QED
          BY <4>1, <4>2
      <3> QED
        BY <3>2, <3>3, <3>4
    <2> QED
      BY <2>1, <2>2, <1>5 DEF Known
  <1> QED
    BY <1>5, <1>9, <1>10, <1>11

LEMMA StepInv == ASSUME PacketInv, P!Next PROVE PacketInv'
  <1>1. CASE P!Process
    BY <1>1, ProcessInv
  <1>2. CASE \E g \in pending : P!Visit(g)
    BY <1>2, VisitInv
  <1>3. CASE P!Ambiguous \/ P!Unresolvable \/ P!Built
    <2>1. /\ pc' \in {"stored", "dropped"} /\ pc = "building" /\ (pc' = "stored" => pending = {})
          /\ UNCHANGED <<output, packet, pending, entities, localIDs, stored>>
      BY <1>3 DEF P!Ambiguous, P!Unresolvable, P!Built
    <2>2. Groups' = Groups /\ Visits' = Visits /\ Known'
      BY <2>1 DEF Groups, Visits, Known, PacketInv
    <2>3. Whole'
      BY <2>1, <2>2 DEF Whole, PacketInv
    <2>4. Traced'
      BY <2>1, <2>2 DEF Traced, PacketInv
    <2> QED
      BY <2>1, <2>2, <2>3, <2>4 DEF PacketInv
  <1> QED
    BY <1>1, <1>2, <1>3 DEF P!Next

LEMMA StutterInv == ASSUME PacketInv, UNCHANGED P!vars PROVE PacketInv'
  <1>1. Groups' = Groups /\ Visits' = Visits /\ Known'
    BY DEF Groups, Visits, Known, PacketInv, P!vars
  <1>2. Whole'
    BY <1>1 DEF Whole, PacketInv, P!vars
  <1>3. Traced'
    BY <1>1 DEF Traced, PacketInv, P!vars
  <1> QED
    BY <1>1, <1>2, <1>3 DEF PacketInv, P!vars

\* What is in a batch and in whose place, whatever the modules report: the state of
\* buildStoreBatch after every visit.
THEOREM PacketInductive == StoringSpec => []PacketInv
  <1>1. StoringInit => PacketInv
    BY InitInv
  <1>2. PacketInv /\ [StoringNext]_<<vars, building, part>> => PacketInv'
    BY StoringSteps, StepInv, StutterInv
  <1> QED
    BY <1>1, <1>2, PTL DEF StoringSpec

\* A packet is a part of what is kept, and so is every result stored, each below an
\* entity of the batch; entities are paths of at least one key.
THEOREM PacketTypes == StoringSpec => []P!TypeOK
  <1>1. PacketInv => P!TypeOK
    <2> SUFFICES ASSUME PacketInv PROVE P!TypeOK
      OBVIOUS
    <2> DEFINE placed == P!Stages(output)[Visits]
    <2>1. packet \subseteq P!Kept(output) /\ pending \subseteq {r.source : r \in packet}
      BY DEF PacketInv, Whole, Groups
    <2>2. \A s \in stored : s.result \in packet /\ s.at \in entities
      BY DEF PacketInv, Whole
    <2>3. Visits \in 0..Cardinality(P!Kept(output))
      <3>1. Groups \ pending \in SUBSET {r.source : r \in P!Kept(output)}
        BY <2>1 DEF Groups
      <3> QED
        BY <3>1, VisitsBounded, Zenon DEF PacketInv, Visits
    <2>4. \A p \in placed : p.result \in P!Kept(output) /\ p.at \in Paths(output)
      BY <2>3, StagesPaths, Zenon DEF PacketInv
    <2>5. entities \subseteq Paths(output)
      <3> HIDE DEF placed
      <3>1. P!Batch(output, placed) \subseteq Paths(output)
        BY <2>4, BatchPaths
      <3> QED
        BY <3>1 DEF PacketInv, Traced, placed
    <2>6. ASSUME NEW e \in entities PROVE Len(e) > 0
      <3>1. e \in Seq(Steps(output)) /\ e # <<>>
        BY <2>5 DEF Paths
      <3> QED
        BY <3>1, NotEmpty, Zenon
    <2> QED
      BY <2>1, <2>2, <2>6 DEF P!TypeOK, PacketInv
  <1> QED
    BY <1>1, PacketInductive, PTL

-----------------------------------------------------------------------------
(* What is stored is meant, and what is lawful is stored.                  *)

LEMMA MeantIs ==
    ASSUME NEW o
    PROVE  /\ DOMAIN P!Meant(o) = P!Kept(o)
           /\ \A r \in P!Kept(o) :
                  P!Meant(o)[r] = P!Sources(P!Batch(o, P!Placed(o)), P!Placed(o), r.source)
  BY DEF P!Meant

LEMMA MeantByThen ==
    ASSUME PacketInv
    PROVE  LET placed == P!Stages(output)[Visits]
           IN  \A r \in P!Kept(output) :
                   P!Sources(P!Batch(output, placed), placed, r.source) \subseteq P!Meant(output)[r]
  <1> DEFINE placed == P!Stages(output)[Visits]
             final == P!Placed(output)
  <1>1. Groups \ pending \in SUBSET {r.source : r \in P!Kept(output)}
    BY DEF PacketInv, Whole, Groups
  <1>2. Visits \in 0..Cardinality(P!Kept(output))
    BY <1>1, VisitsBounded, Zenon DEF PacketInv, Visits
  <1>3. placed \subseteq final
    BY <1>2, StagesGrow, Zenon DEF PacketInv
  <1> SUFFICES ASSUME NEW r \in P!Kept(output)
               PROVE  P!Sources(P!Batch(output, placed), placed, r.source) \subseteq P!Meant(output)[r]
    OBVIOUS
  <1> HIDE DEF placed
  <1>4. P!Sources(P!Batch(output, placed), placed, r.source)
          \subseteq P!Sources(P!Batch(output, final), final, r.source)
    BY <1>3, MoreSources
  <1> QED
    BY <1>4, MeantIs

LEMMA StoredIsMeant ==
    ASSUME PacketInv, NEW s \in stored
    PROVE  s.result \in P!Kept(output) /\ s.at \in P!Meant(output)[s.result]
  <1>1. s.result \in packet /\ packet \subseteq P!Kept(output)
    BY DEF PacketInv, Whole
  <1>2. LET placed == P!Stages(output)[Visits]
        IN  s.at \in P!Sources(P!Batch(output, placed), placed, s.result.source)
    BY DEF PacketInv, Traced
  <1> QED
    BY <1>1, <1>2, MeantByThen

\* Whoever waits for what the first stages find need not wait for ever.
LEMMA StageResolves ==
    ASSUME PacketInv, pc = "building", NEW n \in 0..Cardinality(P!Kept(output)),
           \A p \in P!Stages(output)[n] : p.result.source \notin pending /\ p.at \in entities,
           NEW g, P!Sources(P!Batch(output, P!Stages(output)[n]), P!Stages(output)[n], g) # {}
    PROVE  P!Resolved(g) # {}
  <1> DEFINE placed == P!Stages(output)[n]
             batch == P!Batch(output, placed)
  <1>1. \A p \in placed : p.result \in P!Kept(output) /\ p.at \in Paths(output)
    BY StagesPaths, Zenon DEF PacketInv
  <1>2. packet = P!Kept(output)
    BY DEF PacketInv, Whole
  <1>3. \A p \in placed : \E s \in stored : s.result = p.result
    <2> TAKE p \in placed
    <2>1. p.result \in {r \in packet : r.source \notin pending}
      BY <1>1, <1>2
    <2>2. p.result \in {s.result : s \in stored}
      BY <2>1 DEF PacketInv, Whole
    <2> QED
      BY <2>2
  <1> USE DEF PacketInv
  <1>4. CASE g.lid # 0
    <2>1. PICK p \in placed : p.result.lid = g.lid
      BY <1>4 DEF P!Sources
    <2>2. PICK s \in stored : s.result = p.result
      BY <1>3
    <2>3. PICK l \in localIDs : l.lid = g.lid
      BY <2>1, <2>2, <1>4 DEF Known
    <2> QED
      BY <2>3, <1>4 DEF P!Resolved
  <1>5. CASE g.lid = 0
    <2>1. PICK e \in batch : e[Len(e)] = g.key
      BY <1>5 DEF P!Sources
    <2>2. e \in entities
      <3> HIDE DEF placed
      <3>1. CASE e = <<output.target>> \/ e \in {p.at : p \in placed}
        BY <3>1 DEF Known, placed
      <3>2. CASE ~(e = <<output.target>> \/ e \in {p.at : p \in placed})
        <4>1. PICK p \in placed : \E a \in P!Anchors(p.result.key) : e = <<a>>
          BY <2>1, <3>2 DEF P!Batch
        <4>2. PICK s \in stored : s.result = p.result
          BY <1>3
        <4> QED
          BY <4>1, <4>2 DEF Known
      <3> QED
        BY <3>1, <3>2
    <2>3. e \in Paths(output)
      BY <1>1, <2>1, BatchPaths
    <2>4. e \in Seq(Steps(output)) /\ e # <<>>
      BY <2>3 DEF Paths
    <2>5. CASE Len(e) > 1
      BY <2>1, <2>2, <2>5, <1>5 DEF P!Resolved
    <2>6. CASE ~(Len(e) > 1)
      <3>1. e = <<e[1]>> /\ Len(e) = 1
        BY <2>4, <2>6, OneStep
      <3>2. <<g.key>> \in entities
        BY <2>1, <2>2, <3>1
      <3> QED
        BY <3>2, <1>5 DEF P!Resolved
    <2> QED
      BY <2>5, <2>6
  <1> QED
    BY <1>4, <1>5

LEMMA LawfulIsResolved ==
    ASSUME PacketInv, pc = "building", P!Lawful(output), pending # {}
    PROVE  \E g \in pending : P!Resolved(g) # {}
  <1> SUFFICES ASSUME \A g \in pending : P!Resolved(g) = {} PROVE FALSE
    OBVIOUS
  <1> DEFINE N == Cardinality(P!Kept(output))
             h == P!Stages(output)
             S == {n \in 0..N : \A p \in h[n] : p.result.source \notin pending /\ p.at \in entities}
  <1>1. /\ N \in Nat /\ h[0] = {} /\ h[N] = P!Placed(output)
        /\ \A n \in 1..N : h[n] = P!Further(output, P!Kept(output), h[n - 1])
    BY KeptFinite, StagesUnfold, SameCardinality DEF PacketInv, P!Placed
  <1>2. ASSUME NEW n \in S, NEW g, P!Sources(P!Batch(output, h[n]), h[n], g) # {} PROVE g \notin pending
    BY <1>2, StageResolves
  <1>3. \A n \in 0..N : h[n] \subseteq P!Placed(output)
    BY StagesGrow DEF PacketInv
  <1> HIDE DEF N, h
  <1>4. 0 \in S
    BY <1>1
  <1>5. ASSUME NEW n \in 1..N, n - 1 \in S PROVE n \in S
    <2>1. n \in 0..N /\ n - 1 \in 0..N
      BY <1>1
    <2>2. ASSUME NEW p \in h[n] PROVE p.result.source \notin pending /\ p.at \in entities
      <3> DEFINE here == P!Sources(P!Batch(output, h[n - 1]), h[n - 1], p.result.source)
      <3>1. PICK r \in P!Kept(output) :
                \E e \in P!Sources(P!Batch(output, h[n - 1]), h[n - 1], r.source) :
                    p = [result |-> r, at |-> P!Place(r, e)]
        <4>1. p \in P!Further(output, P!Kept(output), h[n - 1])
          BY <1>1, Zenon
        <4> QED
          BY <4>1, FurtherIs
      <3> PICK e \in P!Sources(P!Batch(output, h[n - 1]), h[n - 1], r.source) :
              p = [result |-> r, at |-> P!Place(r, e)]
        BY <3>1
      <3>2. p.result = r /\ p.at = P!Place(r, e) /\ e \in here
        OBVIOUS
      <3>3. r.source \notin pending
        BY <3>2, <1>2, <1>5
      <3>4. e \in P!Meant(output)[r]
        <4>1. here \subseteq P!Sources(P!Batch(output, P!Placed(output)), P!Placed(output), r.source)
          <5>1. h[n - 1] \subseteq P!Placed(output)
            BY <2>1, <1>3
          <5> QED
            BY <5>1, <3>2, MoreSources
        <4> QED
          BY <4>1, <3>2, MeantIs
      <3>5. PICK s \in stored : s.result = r
        <4>1. r \in {x \in packet : x.source \notin pending}
          BY <3>3 DEF PacketInv, Whole
        <4>2. r \in {s.result : s \in stored}
          BY <4>1 DEF PacketInv, Whole
        <4> QED
          BY <4>2
      <3>6. s.at = e
        <4>1. s.at \in P!Meant(output)[r]
          BY <3>5, StoredIsMeant
        <4> QED
          BY <4>1, <3>4, MeantIs DEF P!Lawful
      <3> QED
        BY <3>2, <3>3, <3>5, <3>6 DEF PacketInv, Known
    <2> QED
      BY <2>1, <2>2
  <1> HIDE DEF S
  <1>6. N \in S
    <2>1. 0..N \subseteq S
      BY <1>1, <1>4, <1>5, InductionUpTo
    <2> QED
      BY <2>1, <1>1
  <1>7. PICK r \in P!Kept(output) : r.source \in pending
    BY DEF PacketInv, Whole, Groups
  <1>8. P!Sources(P!Batch(output, h[N]), h[N], r.source) # {}
    BY <1>1, MeantIs DEF P!Lawful
  <1> QED
    BY <1>2, <1>6, <1>7, <1>8

LEMMA LawfulIsClear ==
    ASSUME PacketInv, pc = "building", P!Lawful(output), NEW g \in pending
    PROVE  ~(Cardinality(P!Resolved(g)) > 1)
  <1>1. PICK r \in P!Kept(output) : r.source = g
    BY DEF PacketInv, Whole, Groups
  <1>2. P!Resolved(g) \subseteq P!Meant(output)[r]
    <2>1. P!Resolved(r.source) \subseteq P!Meant(output)[r]
      BY ResolvedIsMeant, MeantByThen DEF PacketInv
    <2> QED
      BY <1>1, <2>1
  <1>3. PICK e : P!Meant(output)[r] = {e}
    BY MeantIs DEF P!Lawful
  <1>4. P!Resolved(g) = {} \/ P!Resolved(g) = {e}
    BY <1>2, <1>3
  <1>5. Cardinality(P!Resolved(g)) = 0 \/ Cardinality(P!Resolved(g)) = 1
    BY <1>4, FS_EmptySet, FS_Singleton
  <1> QED
    BY <1>5

LEMMA LawfulIsNotGivenUp ==
    ASSUME PacketInv, P!Lawful(output)
    PROVE  ~P!Ambiguous /\ ~P!Unresolvable
  BY LawfulIsResolved, LawfulIsClear, SameCardinality DEF P!Ambiguous, P!Unresolvable

\* A packet whose sources each mean one entity is stored whole, and every result below
\* that entity, whatever the order in which its groups are visited.
THEOREM LawfulPacketsAreStored == StoringSpec => []P!LawfulIsStored
  <1> DEFINE Inv == PacketInv /\ (P!Lawful(output) => pc # "dropped")
  <1>1. StoringInit => Inv
    BY InitInv
  <1>2. Inv /\ [StoringNext]_<<vars, building, part>> => Inv'
    <2> SUFFICES ASSUME Inv, [P!Next]_(P!vars) PROVE Inv'
      BY StoringSteps
    <2>1. PacketInv'
      BY StepInv, StutterInv
    <2>2. ASSUME P!Lawful(output'), pc' = "dropped" PROVE FALSE
      <3>1. output' = output
        BY DEF P!Next, P!Process, P!Ambiguous, P!Unresolvable, P!Built, P!Visit, P!vars
      <3>2. pc # "dropped"
        BY <2>2, <3>1
      <3>3. ~P!Ambiguous /\ ~P!Unresolvable
        BY <2>2, <3>1, LawfulIsNotGivenUp
      <3> QED
        BY <2>2, <3>2, <3>3 DEF P!Next, P!Process, P!Built, P!Visit, P!vars
    <2> QED
      BY <2>1, <2>2
  <1>3. Inv => P!LawfulIsStored
    <2> SUFFICES ASSUME PacketInv, pc = "stored", P!Lawful(output)
                 PROVE  /\ {s.result : s \in stored} = packet
                        /\ \A s \in stored : P!Meant(output)[s.result] = {s.at}
      BY DEF P!LawfulIsStored
    <2>1. {s.result : s \in stored} = packet
      BY DEF PacketInv, Whole
    <2>2. ASSUME NEW s \in stored PROVE P!Meant(output)[s.result] = {s.at}
      BY StoredIsMeant, MeantIs DEF P!Lawful
    <2> QED
      BY <2>1, <2>2
  <1> QED
    BY <1>1, <1>2, <1>3, PTL DEF StoringSpec

\* That the modules keep to the rule, those apart whose packets are known to get lost.
LawfulOutputs ==
    \A fn \in Reporter : \A o \in MayReport(fn) : o.fn \notin Lossy => P!Lawful(o)

LEMMA PacketsAreLawful ==
    ASSUME LawfulOutputs
    PROVE  StoringSpec => [](P!LawfulIsStored /\ (output.fn \notin Lossy => P!Lawful(output)))
  <1> DEFINE Kind == output.fn \notin Lossy => P!Lawful(output)
  <1>1. StoringInit => Kind
    <2> DEFINE none == P!Output("", P!T, {}, FALSE)
    <2>1. none.results = {} /\ none.error = FALSE
      BY DEF P!Output
    <2> HIDE DEF none
    <2>2. P!Kept(none) = {}
      BY <2>1 DEF P!Kept
    <2>3. P!Lawful(none)
      BY <2>2, MeantIs DEF P!Lawful
    <2> QED
      BY <2>3, StoringBegins DEF LawfulOutputs, none
  <1>2. Kind /\ [StoringNext]_<<vars, building, part>> => Kind'
    <2>1. [P!Next]_(P!vars) => output' = output
      BY DEF P!Next, P!Process, P!Ambiguous, P!Unresolvable, P!Built, P!Visit, P!vars
    <2> QED
      BY <2>1, StoringSteps
  <1>3. StoringSpec => []P!LawfulIsStored
    BY LawfulPacketsAreStored
  <1> HIDE DEF Kind
  <1>4. StoringSpec => [](P!LawfulIsStored /\ Kind)
    BY <1>1, <1>2, <1>3, PTL DEF StoringSpec
  <1> QED
    BY <1>4 DEF Kind

\* Where the modules keep to the rule no packet of theirs is given up: whether one is
\* stored is a matter of what they report, and of no order of the groups.
THEOREM LawfulModulesLoseNothing ==
    ASSUME LawfulOutputs PROVE StoringSpec => []NothingLost
  <1>1. P!LawfulIsStored /\ (output.fn \notin Lossy => P!Lawful(output)) => NothingLost
    BY DEF NothingLost, P!LawfulIsStored, P!NothingLost
  <1> QED
    BY <1>1, PacketsAreLawful, PTL

\* And none of their results hangs below an entity that another order of the groups would
\* not have given it.
THEOREM LawfulModulesAreStoredAsDeclared ==
    ASSUME LawfulOutputs PROVE StoringSpec => []StoredAsDeclared
  <1>1. P!LawfulIsStored /\ (output.fn \notin Lossy => P!Lawful(output)) => StoredAsDeclared
    BY DEF StoredAsDeclared, P!LawfulIsStored, P!StoredAsDeclared
  <1> QED
    BY <1>1, PacketsAreLawful, PTL

-----------------------------------------------------------------------------
(* Packet implements Delivery.                                             *)

\* Whatever a module hands over is stored in one go, whole, each result once and below an
\* entity that its source may mean; or given up, if a source means none or several.
THEOREM PacketDelivers == StoringSpec => Delivers
  <1>1. StoringInit => P!D!Init
    BY StoringBegins DEF P!D!Init
  <1>2. PacketInv /\ [StoringNext]_<<vars, building, part>> => [P!D!Next]_(P!D!vars)
    <2> SUFFICES ASSUME PacketInv, [P!Next]_(P!vars) PROVE [P!D!Next]_(P!D!vars)
      BY StoringSteps
    <2>1. CASE P!Process
      BY <2>1 DEF P!Process, P!D!vars
    <2>2. CASE \E g \in pending : P!Visit(g)
      BY <2>2 DEF P!Visit, P!D!vars
    <2>3. CASE P!Built
      <3>1. {s.result : s \in stored} = P!Kept(output)
        BY <2>3 DEF PacketInv, Whole, P!Built
      <3>2. \A s \in stored : s.at \in P!Meant(output)[s.result]
        BY StoredIsMeant
      <3>3. \A s, t \in stored : s.result = t.result => s = t
        BY DEF PacketInv, Whole
      <3>4. P!D!Deliver
        BY <2>3, <3>1, <3>2, <3>3 DEF P!Built, P!D!Deliver
      <3> QED
        BY <3>4 DEF P!D!Next
    <2>4. CASE P!Ambiguous \/ P!Unresolvable
      <3>1. ~P!Lawful(output)
        BY <2>4, LawfulIsNotGivenUp
      <3>2. ~P!D!Clear(output)
        BY <3>1, MeantIs DEF P!Lawful, P!D!Clear
      <3>3. P!D!GiveUp
        BY <2>4, <3>2 DEF P!Ambiguous, P!Unresolvable, P!D!GiveUp
      <3> QED
        BY <3>3 DEF P!D!Next
    <2>5. CASE UNCHANGED P!vars
      BY <2>5 DEF P!vars, P!D!vars
    <2> QED
      BY <2>1, <2>2, <2>3, <2>4, <2>5 DEF P!Next
  <1>3. StoringSpec => []PacketInv
    BY PacketInductive
  <1> QED
    BY <1>1, <1>2, <1>3, PTL DEF StoringSpec, Delivers, P!Delivers, P!D!Spec
=============================================================================
