------------------------- MODULE EntityStoreProofs -------------------------
(***************************************************************************)
(* The storing of results, for any entities, functions, limits and         *)
(* packets: depths are earned, the relaxed depth is never above the strict *)
(* one, and what a session may reach is given to every function.  What the *)
(* passes of Relax and Nearer compute is shown by induction over their     *)
(* number.                                                                 *)
(***************************************************************************)
EXTENDS EntityStore, FiniteSetTheorems, WellFoundedInduction, TLAPS

-----------------------------------------------------------------------------
(* Induction over the natural numbers, for sets of them, and least members. *)

Below == {ss \in Nat \X Nat : ss[1] < ss[2]}

LEMMA LeastMember == ASSUME NEW T \in SUBSET Nat, T # {} PROVE \E x \in T : \A y \in T : x <= y
  <1>1. IsWellFoundedOn(Below, Nat)
    BY NatLessThanWellFounded DEF Below, OpToRel
  <1>2. PICK x \in T : \A y \in T : ~(<<y, x>> \in Below)
    BY <1>1, WFMin
  <1>3. ASSUME NEW y \in T PROVE x <= y
    <2>1. <<y, x>> \in Nat \X Nat /\ <<y, x>>[1] = y /\ <<y, x>>[2] = x
      OBVIOUS
    <2>2. ~(y < x)
      BY <1>2, <2>1 DEF Below
    <2> QED
      BY <2>2
  <1> QED
    BY <1>3

LEMMA Induction ==
    ASSUME NEW T \in SUBSET Nat, 0 \in T, \A n \in T : n + 1 \in T
    PROVE  T = Nat
  <1> SUFFICES ASSUME Nat \ T # {} PROVE FALSE
    OBVIOUS
  <1>1. PICK x \in Nat \ T : \A y \in Nat \ T : x <= y
    BY LeastMember
  <1>2. x # 0 /\ x - 1 \in T
    BY <1>1
  <1> QED
    BY <1>1, <1>2

LEMMA LeastIs ==
    ASSUME NEW S \in SUBSET Nat, S # {}
    PROVE  Least(S) \in S /\ \A e \in S : Least(S) <= e
  BY LeastMember DEF Least

-----------------------------------------------------------------------------
(* The passes, one by one.                                                  *)

PassesUpTo(source, results, n, h) ==
    h = [i \in 0..n |-> IF i = 0 THEN Before(source, results) ELSE Relax(results, h[i - 1])]

LEMMA PassesExist ==
    ASSUME NEW source, NEW results
    PROVE  \A n \in Nat : \E h : PassesUpTo(source, results, n, h)
  <1> DEFINE T == {n \in Nat : \E h : PassesUpTo(source, results, n, h)}
  <1>1. 0 \in T
    <2>1. PassesUpTo(source, results, 0, [i \in 0..0 |-> Before(source, results)])
      BY DEF PassesUpTo
    <2> QED
      BY <2>1
  <1>2. ASSUME NEW n \in T PROVE n + 1 \in T
    <2>1. PICK h : PassesUpTo(source, results, n, h)
      OBVIOUS
    <2> DEFINE k == [i \in 0..(n + 1) |-> IF i = n + 1 THEN Relax(results, h[n]) ELSE h[i]]
    <2>2. \A i \in 0..n : h[i] = IF i = 0 THEN Before(source, results) ELSE Relax(results, h[i - 1])
      BY <2>1, Zenon DEF PassesUpTo
    <2>3. PassesUpTo(source, results, n + 1, k)
      BY <2>2 DEF PassesUpTo
    <2> QED
      BY <2>3
  <1>3. T = Nat
    BY <1>1, <1>2, Induction
  <1> QED
    BY <1>3

LEMMA PassesUnfold ==
    ASSUME NEW source, NEW results, Cardinality(Batch(source, results)) \in Nat
    PROVE  /\ Passes(source, results)[0] = Before(source, results)
           /\ \A n \in 0..Cardinality(Batch(source, results)) :
                  n # 0 => Passes(source, results)[n] = Relax(results, Passes(source, results)[n - 1])
  <1> DEFINE N == Cardinality(Batch(source, results))
             p == Passes(source, results)
  <1>1. \E h : PassesUpTo(source, results, N, h)
    BY PassesExist
  <1>2. p = CHOOSE h : PassesUpTo(source, results, N, h)
    BY DEF Passes, PassesUpTo
  <1>3. PassesUpTo(source, results, N, p)
    BY <1>1, <1>2
  <1>4. p = [i \in 0..N |-> IF i = 0 THEN Before(source, results) ELSE Relax(results, p[i - 1])]
    BY <1>3 DEF PassesUpTo
  <1> HIDE DEF N, p
  <1>5. \A n \in 0..N : p[n] = IF n = 0 THEN Before(source, results) ELSE Relax(results, p[n - 1])
    BY <1>4, Zenon
  <1> QED
    BY <1>5 DEF N, p

-----------------------------------------------------------------------------
(* One pass over the results.                                               *)

Depths == 0..Unresolved
States0 == [strict : Depths, relaxed : Depths, isAnchor : BOOLEAN, anchored : BOOLEAN]
Links == [source : Entity, entity : Entity]

\* States s of a batch of packets with these results.
Loaded(results, s) ==
    /\ results \subseteq Links
    /\ DOMAIN s \subseteq Entity /\ \A x \in DOMAIN s : s[x] \in States0
    /\ \A r \in results : r.source \in DOMAIN s /\ r.entity \in DOMAIN s
                          /\ Anchors(r.entity) \subseteq DOMAIN s

LEMMA AnchorsAre ==
    ASSUME NEW x \in Entity
    PROVE  /\ Anchors(x) \subseteq Node
           /\ \A a \in Anchors(x) : Anchors(x) = {a} /\ Anchors(a) = {} /\ x \in Node /\ a # x
           /\ x \in Properties => Anchors(x) = {}
           /\ IsFiniteSet(Anchors(x))
  <1>1. CASE x \in Node
    <2>1. PICK n \in Name : x = <<n>>
      BY <1>1 DEF Node
    <2>2. Anchors(x) = {<<a>> : a \in AnchorOf[n]}
      BY <1>1, <2>1 DEF Anchors
    <2>3. AnchorOf[n] \subseteq Name
      BY NamesAnchored
    <2>4. \A a \in AnchorOf[n] : <<a>> \in Node /\ <<a>>[1] = a /\ Anchors(x) = {<<a>>} /\ Anchors(<<a>>) = {}
      BY <2>2, <2>3, NamesAnchored DEF Anchors, Node
    <2>5. \A a \in Anchors(x) : a # x
      BY <2>2, <2>4
    <2>6. IsFiniteSet(Anchors(x))
      <3>1. CASE Anchors(x) = {}
        BY <3>1, FS_EmptySet
      <3>2. CASE Anchors(x) # {}
        <4>1. PICK a \in Anchors(x) : Anchors(x) = {a}
          BY <2>2, <2>4, <3>2
        <4> QED
          BY <4>1, FS_Singleton
      <3> QED
        BY <3>1, <3>2
    <2> QED
      BY <1>1, <2>2, <2>4, <2>5, <2>6, PropertiesApart
  <1>2. CASE x \notin Node
    BY <1>2, FS_EmptySet DEF Anchors
  <1> QED
    BY <1>1, <1>2

\* What a pass makes of the depths of x, from those before it.
LEMMA OnePass ==
    ASSUME NEW results, NEW s, Loaded(results, s), NEW x \in DOMAIN s
    PROVE  LET t == Relax(results, s)
               reached == {r \in results : s[r.source].strict # Unresolved}
               into == {r \in reached : r.entity = x}
               below == {r \in reached : x \in Anchors(r.entity)}
           IN  /\ t[x] \in States0
               /\ t[x].strict <= s[x].strict /\ t[x].relaxed <= s[x].relaxed
               /\ t[x].isAnchor = s[x].isAnchor
               /\ \/ t[x].strict = s[x].strict
                  \/ \E r \in into : t[x].strict = s[r.source].strict + Cost(x)
               /\ \A r \in results : s[r.source].strict # Unresolved =>
                      /\ r.entity = x =>
                             /\ t[x].strict <= s[r.source].strict + Cost(x)
                             /\ Anchors(x) = {} => t[x].relaxed <= s[r.source].relaxed + Cost(x)
                             /\ \A a \in Anchors(x) : t[x].relaxed <= s[a].relaxed
                      /\ x \in Anchors(r.entity) => t[x].relaxed <= s[r.source].relaxed + 1
               /\ \A a \in Anchors(x) :
                      \/ t[x].relaxed = s[x].relaxed /\ t[x].anchored = s[x].anchored
                      \/ t[x].relaxed = s[a].relaxed /\ into # {}
               /\ Anchors(x) = {} => t[x].anchored = s[x].anchored
               /\ s[x].anchored => t[x].anchored
               /\ into = {} => t[x].strict = s[x].strict /\ t[x].anchored = s[x].anchored
               /\ into = {} /\ below = {} => t[x] = s[x]
  <1> DEFINE t == Relax(results, s)
             reached == {r \in results : s[r.source].strict # Unresolved}
             into == {r \in reached : r.entity = x}
             below == {r \in reached : x \in Anchors(r.entity)}
             free == {r \in into : Anchors(x) = {}}
             ofAnchor == IF into = {} THEN {} ELSE {s[a].relaxed : a \in Anchors(x)}
             SS == {s[x].strict} \cup {Strict(s, r) : r \in into}
             RR == {s[x].relaxed} \cup ofAnchor \cup {s[r.source].relaxed + 1 : r \in below}
                       \cup {Relaxed(s, r) : r \in free}
             anch == s[x].anchored \/ \E d \in ofAnchor : d < s[x].relaxed
  <1>1. t[x] = [s[x] EXCEPT !.strict = Least(SS), !.relaxed = Least(RR), !.anchored = anch]
    BY DEF Relax
  <1>2. s[x] \in States0
    BY DEF Loaded
  <1>3. t[x].strict = Least(SS) /\ t[x].relaxed = Least(RR) /\ t[x].anchored = anch
        /\ t[x].isAnchor = s[x].isAnchor
        /\ t[x] = [strict |-> Least(SS), relaxed |-> Least(RR), isAnchor |-> s[x].isAnchor,
                   anchored |-> anch]
    BY <1>1, <1>2 DEF States0
  <1>4. \A r \in results : /\ s[r.source].strict \in Depths /\ s[r.source].relaxed \in Depths
                           /\ Cost(r.entity) \in {0, 1}
    BY DEF Loaded, States0, Cost
  <1>5. \A r \in into : /\ Strict(s, r) = s[r.source].strict + Cost(x)
                        /\ Relaxed(s, r) = s[r.source].relaxed + Cost(x)
    BY DEF Strict, Relaxed
  <1>6. \A a \in Anchors(x) : into # {} => s[a].relaxed \in Depths
    BY DEF Loaded, States0
  <1>7. SS \in SUBSET Nat /\ SS # {}
    BY <1>2, <1>4, <1>5, DepthsNatural DEF States0, Depths
  <1>8. RR \in SUBSET Nat /\ RR # {}
    BY <1>2, <1>4, <1>5, <1>6, DepthsNatural DEF States0, Depths
  <1> HIDE DEF t, SS, RR
  <1>9. t[x].strict \in SS /\ \A e \in SS : t[x].strict <= e
    BY <1>3, <1>7, LeastIs
  <1>10. t[x].relaxed \in RR /\ \A e \in RR : t[x].relaxed <= e
    BY <1>3, <1>8, LeastIs
  <1> USE DEF SS, RR
  <1>11. t[x].strict \in Nat /\ t[x].relaxed \in Nat
    BY <1>7, <1>8, <1>9, <1>10
  <1>12. t[x].strict <= s[x].strict /\ t[x].relaxed <= s[x].relaxed
    BY <1>9, <1>10
  <1>13. t[x] \in States0
    BY <1>2, <1>3, <1>11, <1>12, DepthsNatural DEF States0, Depths
  <1>14. \/ t[x].strict = s[x].strict
         \/ \E r \in into : t[x].strict = s[r.source].strict + Cost(x)
    BY <1>5, <1>9
  <1>15. \A r \in into : /\ t[x].strict <= s[r.source].strict + Cost(x)
                         /\ Anchors(x) = {} => t[x].relaxed <= s[r.source].relaxed + Cost(x)
                         /\ \A a \in Anchors(x) : t[x].relaxed <= s[a].relaxed
    BY <1>5, <1>9, <1>10
  <1>16. \A r \in below : t[x].relaxed <= s[r.source].relaxed + 1
    BY <1>10
  <1>16a. ASSUME NEW r \in results, s[r.source].strict # Unresolved
         PROVE  /\ r.entity = x =>
                       /\ t[x].strict <= s[r.source].strict + Cost(x)
                       /\ Anchors(x) = {} => t[x].relaxed <= s[r.source].relaxed + Cost(x)
                       /\ \A a \in Anchors(x) : t[x].relaxed <= s[a].relaxed
                /\ x \in Anchors(r.entity) => t[x].relaxed <= s[r.source].relaxed + 1
    <2>1. r.entity = x => r \in into
      BY <1>16a
    <2>2. x \in Anchors(r.entity) => r \in below
      BY <1>16a
    <2> HIDE DEF into, below
    <2> QED
      BY <1>15, <1>16, <2>1, <2>2
  <1>17. ASSUME NEW a \in Anchors(x)
         PROVE  \/ t[x].relaxed = s[x].relaxed /\ t[x].anchored = s[x].anchored
                \/ t[x].relaxed = s[a].relaxed /\ into # {}
    <2>1. x \in Entity /\ Anchors(x) = {a}
      BY AnchorsAre DEF Loaded
    <2>2. free = {}
      BY <2>1
    <2>3. below = {}
      BY <2>1, AnchorsAre DEF Loaded, Links
    <2>4. CASE into = {}
      <3>1. ofAnchor = {} /\ RR = {s[x].relaxed}
        BY <2>2, <2>3, <2>4
      <3>2. t[x].relaxed = s[x].relaxed
        BY <1>10, <3>1
      <3>3. t[x].anchored = s[x].anchored
        BY <1>2, <1>3, <3>1 DEF States0
      <3> QED
        BY <3>2, <3>3
    <2>5. CASE into # {}
      <3>1. ofAnchor = {s[a].relaxed}
        BY <2>1, <2>5
      <3>2. RR = {s[x].relaxed, s[a].relaxed}
        BY <2>2, <2>3, <3>1
      <3>3. CASE t[x].relaxed = s[a].relaxed
        BY <2>5, <3>3
      <3>4. CASE t[x].relaxed # s[a].relaxed
        <4>1. t[x].relaxed = s[x].relaxed /\ ~(s[a].relaxed < s[x].relaxed)
          <5>1. t[x].relaxed \in {s[x].relaxed, s[a].relaxed} /\ t[x].relaxed <= s[a].relaxed
            BY <1>10, <3>2
          <5>2. s[x].relaxed \in Nat /\ s[a].relaxed \in Nat
            BY <1>2, <1>6, <2>5, DepthsNatural DEF States0, Depths
          <5> QED
            BY <3>4, <5>1, <5>2
        <4>2. t[x].anchored = s[x].anchored
          BY <1>2, <1>3, <3>1, <4>1 DEF States0
        <4> QED
          BY <4>1, <4>2
      <3> QED
        BY <3>3, <3>4
    <2> QED
      BY <2>4, <2>5
  <1>18. s[x].anchored => t[x].anchored
    BY <1>3
  <1>19. Anchors(x) = {} => t[x].anchored = s[x].anchored
    BY <1>2, <1>3 DEF States0
  <1>20. into = {} => t[x].strict = s[x].strict /\ t[x].anchored = s[x].anchored
    BY <1>2, <1>3, <1>9 DEF States0
  <1>21. into = {} /\ below = {} => t[x] = s[x]
    <2> HAVE into = {} /\ below = {}
    <2>1. t[x].relaxed = s[x].relaxed
      BY <1>10
    <2> QED
      BY <1>2, <1>3, <1>20, <2>1 DEF States0
  <1> QED
    BY <1>3, <1>12, <1>13, <1>14, <1>16a, <1>17, <1>18, <1>19, <1>20, <1>21 DEF t

LEMMA OneResult ==
    ASSUME NEW results, NEW s, Loaded(results, s), NEW r \in results,
           s[r.source].strict # Unresolved, NEW x, x = r.entity
    PROVE  LET t == Relax(results, s)
           IN  /\ t[x].strict <= s[r.source].strict + Cost(x)
               /\ Anchors(x) = {} => t[x].relaxed <= s[r.source].relaxed + Cost(x)
               /\ \A a \in Anchors(x) : /\ t[x].relaxed <= s[a].relaxed
                                         /\ t[a].relaxed <= s[r.source].relaxed + 1
  <1> DEFINE t == Relax(results, s)
  <1>1. x \in DOMAIN s /\ Anchors(x) \subseteq DOMAIN s /\ Anchors(r.entity) = Anchors(x)
    BY DEF Loaded
  <1>2. DOMAIN t = DOMAIN s
    BY DEF Relax
  <1>3. /\ t[x].strict <= s[r.source].strict + Cost(x)
        /\ Anchors(x) = {} => t[x].relaxed <= s[r.source].relaxed + Cost(x)
        /\ \A a \in Anchors(x) : t[x].relaxed <= s[a].relaxed
    BY <1>1, <1>2, OnePass
  <1>4. ASSUME NEW a \in Anchors(x) PROVE t[a].relaxed <= s[r.source].relaxed + 1
    BY <1>1, <1>2, OnePass
  <1> QED
    BY <1>3, <1>4

-----------------------------------------------------------------------------
(* Rows, and the batch that is loaded from them.                            *)

RowsTyped(rows) ==
    /\ DOMAIN rows \subseteq Entity /\ IsFiniteSet(DOMAIN rows)
    /\ \A x \in DOMAIN rows : rows[x] \in States0

\* What is reached by way of its anchor has a row for it.
AnchoredInv(rows) ==
    \A x \in DOMAIN rows : rows[x].anchored => Anchors(x) # {} /\ Anchors(x) \subseteq DOMAIN rows

\* Relaxing the limit loses nothing.
DepthsInv(rows) == \A x \in DOMAIN rows : DepthRelaxed(rows, x) <= rows[x].strict

LoadingInv == RowsTyped(row) /\ AnchoredInv(row) /\ DepthsInv(row)

\* A packet about e that may be stored: properties are those of nodes.
Storable(e, results) ==
    /\ e \in DOMAIN row /\ results \subseteq Links /\ IsFiniteSet(results)
    /\ \A r \in results : r.entity \in Properties => r.source \in Node

LEMMA LeastOfOne == ASSUME NEW d \in Nat PROVE Least({d}) = d
  BY LeastIs

LEMMA DepthRelaxedIs ==
    ASSUME NEW rows, NEW x \in DOMAIN rows, DOMAIN rows \subseteq Entity,
           \A y \in DOMAIN rows : rows[y] \in States0,
           rows[x].anchored => Anchors(x) # {} /\ Anchors(x) \subseteq DOMAIN rows
    PROVE  /\ ~rows[x].anchored => DepthRelaxed(rows, x) = rows[x].relaxed
           /\ rows[x].anchored => \A a \in Anchors(x) : DepthRelaxed(rows, x) = rows[a].relaxed
           /\ DepthRelaxed(rows, x) \in Depths
  <1>0. \A y \in DOMAIN rows : rows[y].relaxed \in Depths /\ rows[y].relaxed \in Nat
    BY DepthsNatural DEF States0, Depths
  <1>1. CASE ~rows[x].anchored
    <2>1. {rows[y].relaxed : y \in IF rows[x].anchored THEN Anchors(x) ELSE {x}} = {rows[x].relaxed}
      BY <1>1
    <2> QED
      BY <1>0, <1>1, <2>1, LeastOfOne DEF DepthRelaxed
  <1>2. CASE rows[x].anchored
    <2>1. PICK a \in Anchors(x) : TRUE
      BY <1>2
    <2>2. Anchors(x) = {a} /\ a \in DOMAIN rows
      BY <1>2, <2>1, AnchorsAre
    <2>3. {rows[y].relaxed : y \in IF rows[x].anchored THEN Anchors(x) ELSE {x}} = {rows[a].relaxed}
      BY <1>2, <2>2
    <2> QED
      BY <1>0, <1>2, <2>2, <2>3, LeastOfOne DEF DepthRelaxed
  <1> QED
    BY <1>1, <1>2

LEMMA RelaxedOfRows ==
    ASSUME LoadingInv, NEW x \in DOMAIN row
    PROVE  /\ ~row[x].anchored => DepthRelaxed(row, x) = row[x].relaxed
           /\ row[x].anchored => \A a \in Anchors(x) : DepthRelaxed(row, x) = row[a].relaxed
           /\ DepthRelaxed(row, x) \in Depths
  BY DepthRelaxedIs DEF LoadingInv, RowsTyped, AnchoredInv

LEMMA BatchIs ==
    ASSUME LoadingInv, NEW e, NEW results, Storable(e, results)
    PROVE  LET B == Batch(e, results)
           IN  /\ B \subseteq Entity /\ IsFiniteSet(B) /\ Cardinality(B) \in Nat
               /\ e \in B /\ Named(e, results) \subseteq B
               /\ \A r \in results : r.source \in B /\ r.entity \in B /\ Anchors(r.entity) \subseteq B
  <1> DEFINE sources == {r.source : r \in results}
             entities == {r.entity : r \in results}
             anchors == {Anchors(r.entity) : r \in results}
  <1>1. IsFiniteSet(sources)
    <2>1. [r \in results |-> r.source] \in Surjection(results, sources)
      BY DEF Surjection
    <2> QED
      BY <2>1, FS_Surjection DEF Storable
  <1>2. IsFiniteSet(entities)
    <2>1. [r \in results |-> r.entity] \in Surjection(results, entities)
      BY DEF Surjection
    <2> QED
      BY <2>1, FS_Surjection DEF Storable
  <1>3. IsFiniteSet(UNION anchors)
    <2>1. [r \in results |-> Anchors(r.entity)] \in Surjection(results, anchors)
      BY DEF Surjection
    <2>2. IsFiniteSet(anchors)
      BY <2>1, FS_Surjection DEF Storable
    <2>3. \A A \in anchors : IsFiniteSet(A)
      BY AnchorsAre DEF Storable, Links
    <2> QED
      BY <2>2, <2>3, FS_UNION
  <1>4. e \in Entity /\ \A r \in results : r.source \in Entity /\ r.entity \in Entity
    BY DEF Storable, Links, LoadingInv, RowsTyped
  <1>5. UNION anchors \subseteq Entity
    BY <1>4, AnchorsAre DEF Entity
  <1>6. Batch(e, results) = ({e} \cup sources \cup entities) \cup UNION anchors
    BY DEF Batch, Named
  <1>7. IsFiniteSet({e} \cup sources \cup entities)
    BY <1>1, <1>2, FS_Singleton, FS_Union
  <1>8. IsFiniteSet(Batch(e, results))
    <2> HIDE DEF sources, entities, anchors
    <2>1. IsFiniteSet(({e} \cup sources \cup entities) \cup UNION anchors)
      BY <1>3, <1>7, FS_Union
    <2> QED
      BY <1>6, <2>1
  <1>9. \A r \in results : Anchors(r.entity) \subseteq UNION anchors
    OBVIOUS
  <1>10. Batch(e, results) \subseteq Entity
    BY <1>4, <1>5, <1>6
  <1> QED
    BY <1>6, <1>8, <1>9, <1>10, FS_CardinalityType DEF Named

\* What a batch begins with.
Begins(e, results, x) ==
    LET s == Before(e, results)
    IN  /\ x \in DOMAIN s /\ s[x] \in States0
        /\ s[x].isAnchor => x \notin Named(e, results)
        /\ IF x \in DOMAIN row /\ (x \in Node \/ x = e)
           THEN /\ s[x].strict = row[x].strict
                /\ s[x].relaxed = DepthRelaxed(row, x)
                /\ s[x].anchored = row[x].anchored
           ELSE /\ s[x].strict = Unresolved /\ s[x].relaxed = Unresolved
                /\ s[x].anchored = FALSE

LEMMA BeforeIs ==
    ASSUME LoadingInv, NEW e, NEW results, Storable(e, results), NEW x \in Batch(e, results)
    PROVE  Begins(e, results, x)
  <1> DEFINE s == Before(e, results)
  <1>1. s[x] = [State(e, x) EXCEPT !.isAnchor = @ /\ x \notin Named(e, results)]
    BY DEF Before
  <1>2. CASE x \in DOMAIN row /\ (x \in Node \/ x = e)
    <2>1. State(e, x) = [row[x] EXCEPT !.relaxed = DepthRelaxed(row, x)]
      BY <1>2 DEF State
    <2>2. row[x] \in States0 /\ DepthRelaxed(row, x) \in Depths
      BY <1>2, RelaxedOfRows DEF LoadingInv, RowsTyped
    <2>3. /\ State(e, x) \in States0 /\ State(e, x).strict = row[x].strict
          /\ State(e, x).relaxed = DepthRelaxed(row, x) /\ State(e, x).anchored = row[x].anchored
      BY <2>1, <2>2 DEF States0
    <2>4. x \in DOMAIN s
      BY DEF Before
    <2> QED
      BY <1>1, <1>2, <2>3, <2>4 DEF States0, Begins
  <1>3. CASE ~(x \in DOMAIN row /\ (x \in Node \/ x = e))
    <2>1. State(e, x) = [strict |-> Unresolved, relaxed |-> Unresolved, isAnchor |-> x \in Node,
                         anchored |-> FALSE]
      BY <1>3 DEF State, Storable
    <2>2. /\ State(e, x) \in States0 /\ State(e, x).strict = Unresolved
          /\ State(e, x).relaxed = Unresolved /\ State(e, x).anchored = FALSE
      BY <2>1, DepthsNatural DEF States0, Depths
    <2>3. x \in DOMAIN s
      BY DEF Before
    <2> QED
      BY <1>1, <1>3, <2>2, <2>3 DEF States0, Begins
  <1> QED
    BY <1>2, <1>3

LEMMA BeforeLoaded ==
    ASSUME LoadingInv, NEW e, NEW results, Storable(e, results)
    PROVE  DOMAIN Before(e, results) = Batch(e, results) /\ Loaded(results, Before(e, results))
  <1>1. DOMAIN Before(e, results) = Batch(e, results)
    BY DEF Before
  <1>2. \A x \in Batch(e, results) : Before(e, results)[x] \in States0
    BY BeforeIs DEF Begins
  <1> QED
    BY <1>1, <1>2, BatchIs DEF Loaded, Storable

-----------------------------------------------------------------------------
(* All passes.                                                              *)

\* The states after n passes, against those before the first.
PassInv(e, results, n) ==
    LET B == Batch(e, results)
        s == Before(e, results)
        t == Passes(e, results)[n]
    IN  /\ DOMAIN t = B /\ Loaded(results, t)
        /\ \A x \in B :
               /\ t[x].isAnchor = s[x].isAnchor
               /\ t[x].strict <= s[x].strict /\ t[x].relaxed <= s[x].relaxed
               /\ s[x].anchored => t[x].anchored
               /\ t[x].anchored => /\ Anchors(x) # {}
                                  /\ \A a \in Anchors(x) \cap B : t[a].relaxed <= t[x].relaxed
               /\ t[x].anchored /\ ~s[x].anchored => Anchors(x) \subseteq B
               /\ (\A r \in results : r.entity # x)
                      => t[x].strict = s[x].strict /\ t[x].anchored = s[x].anchored
               /\ (\A r \in results : r.entity # x /\ x \notin Anchors(r.entity)) => t[x] = s[x]

LEMMA PassInvBefore ==
    ASSUME LoadingInv, NEW e, NEW results, Storable(e, results)
    PROVE  PassInv(e, results, 0)
  <1> DEFINE B == Batch(e, results)
             s == Before(e, results)
  <1>1. Passes(e, results)[0] = s /\ DOMAIN s = B /\ Loaded(results, s)
    BY PassesUnfold, BatchIs, BeforeLoaded
  <1>2. \A x \in B : s[x] \in States0
    BY <1>1 DEF Loaded
  <1>3. ASSUME NEW x \in B, s[x].anchored
        PROVE  Anchors(x) # {} /\ \A a \in Anchors(x) \cap B : s[a].relaxed <= s[x].relaxed
    <2>1. x \in DOMAIN row /\ row[x].anchored /\ s[x].relaxed = DepthRelaxed(row, x)
      BY <1>3, BeforeIs DEF Begins
    <2>2. Anchors(x) # {} /\ Anchors(x) \subseteq DOMAIN row
      BY <2>1 DEF LoadingInv, AnchoredInv
    <2>3. ASSUME NEW a \in Anchors(x) \cap B
          PROVE  s[a].relaxed = s[x].relaxed
      <3>1. a \in Node /\ Anchors(a) = {} /\ a \in DOMAIN row
        BY <1>1, <2>2, <2>3, AnchorsAre DEF Loaded
      <3>2. ~row[a].anchored
        BY <3>1 DEF LoadingInv, AnchoredInv
      <3>3. s[a].relaxed = row[a].relaxed
        <4>1. s[a].relaxed = DepthRelaxed(row, a)
          BY <2>3, <3>1, BeforeIs DEF Begins
        <4> QED
          BY <3>1, <3>2, <4>1, RelaxedOfRows
      <3>4. s[x].relaxed = row[a].relaxed
        BY <2>1, <2>3, RelaxedOfRows
      <3> QED
        BY <3>3, <3>4
    <2> QED
      BY <1>2, <2>2, <2>3, DepthsNatural DEF States0, Depths
  <1> HIDE DEF s, B
  <1>4. \A x \in B : s[x].strict <= s[x].strict /\ s[x].relaxed <= s[x].relaxed
    BY <1>2, DepthsNatural DEF States0, Depths
  <1> QED
    BY <1>1, <1>3, <1>4 DEF PassInv, s, B

LEMMA PassInvNext ==
    ASSUME LoadingInv, NEW e, NEW results, Storable(e, results),
           NEW n \in Nat, n + 1 <= Cardinality(Batch(e, results)), PassInv(e, results, n)
    PROVE  PassInv(e, results, n + 1)
  <1> DEFINE B == Batch(e, results)
             s == Before(e, results)
             t == Passes(e, results)[n]
             u == Passes(e, results)[n + 1]
  <1>1. u = Relax(results, t)
    <2>1. Cardinality(B) \in Nat
      BY BatchIs
    <2>2. n + 1 \in 0..Cardinality(B) /\ n + 1 # 0 /\ (n + 1) - 1 = n
      BY <2>1
    <2> QED
      BY <2>1, <2>2, PassesUnfold
  <1>2. DOMAIN t = B /\ Loaded(results, t)
    BY DEF PassInv
  <1>3. DOMAIN u = B
    BY <1>1, <1>2 DEF Relax
  <1>4. \A x \in B : u[x] \in States0 /\ t[x] \in States0 /\ s[x] \in States0
    <2>1. \A x \in B : t[x] \in States0
      BY <1>2 DEF Loaded
    <2>2. \A x \in B : s[x] \in States0
      BY BeforeLoaded DEF Loaded
    <2>3. \A x \in B : u[x] \in States0
      BY <1>1, <1>2, OnePass
    <2> QED
      BY <2>1, <2>2, <2>3
  <1>5. Loaded(results, u)
    BY <1>2, <1>3, <1>4 DEF Loaded
  <1>6. ASSUME NEW x \in B
        PROVE  /\ u[x].isAnchor = s[x].isAnchor
               /\ u[x].strict <= s[x].strict /\ u[x].relaxed <= s[x].relaxed
               /\ s[x].anchored => u[x].anchored
    <2>1. /\ t[x].isAnchor = s[x].isAnchor
          /\ t[x].strict <= s[x].strict /\ t[x].relaxed <= s[x].relaxed
          /\ s[x].anchored => t[x].anchored
      BY DEF PassInv
    <2>2. /\ u[x].isAnchor = t[x].isAnchor
          /\ u[x].strict <= t[x].strict /\ u[x].relaxed <= t[x].relaxed
          /\ t[x].anchored => u[x].anchored
      BY <1>1, <1>2, OnePass
    <2> QED
      BY <1>4, <2>1, <2>2, DepthsNatural DEF States0, Depths
  <1>7. ASSUME NEW x \in B, u[x].anchored
        PROVE  /\ Anchors(x) # {}
               /\ \A a \in Anchors(x) \cap B : u[a].relaxed <= u[x].relaxed
               /\ ~s[x].anchored => Anchors(x) \subseteq B
    <2>1. CASE Anchors(x) = {}
      <3>1. t[x].anchored
        BY <1>1, <1>2, <1>7, <2>1, OnePass
      <3> QED
        BY <2>1, <3>1 DEF PassInv
    <2>2. CASE Anchors(x) # {}
      <3>1. PICK a \in Anchors(x) : Anchors(x) = {a}
        BY <1>2, <2>2, AnchorsAre DEF Loaded
      <3>2. CASE u[x].relaxed = t[x].relaxed /\ u[x].anchored = t[x].anchored
        <4>1. t[x].anchored
          BY <1>7, <3>2
        <4>2. ~s[x].anchored => Anchors(x) \subseteq B
          BY <4>1 DEF PassInv
        <4>3. a \in B => t[a].relaxed <= t[x].relaxed
          BY <4>1, <3>1 DEF PassInv
        <4>4. a \in B => u[a].relaxed <= t[a].relaxed
          BY <1>1, <1>2, OnePass
        <4>5. a \in B => u[a].relaxed <= u[x].relaxed
          BY <1>4, <3>2, <4>3, <4>4, DepthsNatural DEF States0, Depths
        <4> QED
          BY <3>1, <4>2, <4>5
      <3>3. CASE /\ u[x].relaxed = t[a].relaxed
                 /\ {r \in {q \in results : t[q.source].strict # Unresolved} : r.entity = x} # {}
        <4>1. Anchors(x) \subseteq B
          BY <1>2, <3>3 DEF Loaded
        <4>2. u[a].relaxed <= t[a].relaxed
          BY <1>1, <1>2, <4>1, OnePass
        <4> QED
          BY <3>1, <3>3, <4>1, <4>2
      <3> QED
        BY <1>1, <1>2, <3>1, <3>2, <3>3, OnePass
    <2> QED
      BY <2>1, <2>2
  <1>8. ASSUME NEW x \in B, \A r \in results : r.entity # x
        PROVE  u[x].strict = s[x].strict /\ u[x].anchored = s[x].anchored
    <2>1. t[x].strict = s[x].strict /\ t[x].anchored = s[x].anchored
      BY <1>8 DEF PassInv
    <2>2. {r \in {q \in results : t[q.source].strict # Unresolved} : r.entity = x} = {}
      BY <1>8
    <2>3. u[x].strict = t[x].strict /\ u[x].anchored = t[x].anchored
      BY <1>1, <1>2, <2>2, OnePass
    <2> QED
      BY <2>1, <2>3
  <1>9. ASSUME NEW x \in B, \A r \in results : r.entity # x /\ x \notin Anchors(r.entity)
        PROVE  u[x] = s[x]
    <2>1. t[x] = s[x]
      BY <1>9 DEF PassInv
    <2>2. /\ {r \in {q \in results : t[q.source].strict # Unresolved} : r.entity = x} = {}
          /\ {r \in {q \in results : t[q.source].strict # Unresolved} : x \in Anchors(r.entity)} = {}
      BY <1>9
    <2>3. u[x] = t[x]
      BY <1>1, <1>2, <2>2, OnePass
    <2> QED
      BY <2>1, <2>3
  <1> HIDE DEF u, s, B
  <1>10. /\ DOMAIN u = B /\ Loaded(results, u)
         /\ \A x \in B :
               /\ u[x].isAnchor = s[x].isAnchor
               /\ u[x].strict <= s[x].strict /\ u[x].relaxed <= s[x].relaxed
               /\ s[x].anchored => u[x].anchored
               /\ u[x].anchored => /\ Anchors(x) # {}
                                  /\ \A a \in Anchors(x) \cap B : u[a].relaxed <= u[x].relaxed
               /\ u[x].anchored /\ ~s[x].anchored => Anchors(x) \subseteq B
               /\ (\A r \in results : r.entity # x)
                      => u[x].strict = s[x].strict /\ u[x].anchored = s[x].anchored
               /\ (\A r \in results : r.entity # x /\ x \notin Anchors(r.entity)) => u[x] = s[x]
    BY <1>3, <1>5, <1>6, <1>7, <1>8, <1>9
  <1> QED
    BY <1>10 DEF PassInv, u, s, B

LEMMA PassInvAlways ==
    ASSUME LoadingInv, NEW e, NEW results, Storable(e, results)
    PROVE  \A n \in 0..Cardinality(Batch(e, results)) : PassInv(e, results, n)
  <1> DEFINE T == {n \in Nat : n <= Cardinality(Batch(e, results)) => PassInv(e, results, n)}
  <1>0. Cardinality(Batch(e, results)) \in Nat
    BY BatchIs
  <1>1. 0 \in T
    BY PassInvBefore
  <1>2. ASSUME NEW n \in T PROVE n + 1 \in T
    BY <1>0, PassInvNext
  <1>3. T = Nat
    BY <1>1, <1>2, Induction
  <1> QED
    BY <1>0, <1>3

\* From one pass to the next, and over all of them, depths only fall.
LEMMA PassFalls ==
    ASSUME LoadingInv, NEW e, NEW results, Storable(e, results),
           NEW n \in Nat, n + 1 <= Cardinality(Batch(e, results))
    PROVE  LET p == Passes(e, results)
           IN  /\ p[n + 1] = Relax(results, p[n])
               /\ \A x \in Batch(e, results) : /\ p[n + 1][x].strict <= p[n][x].strict
                                               /\ p[n + 1][x].relaxed <= p[n][x].relaxed
  <1>0. Cardinality(Batch(e, results)) \in Nat
    BY BatchIs
  <1>1. n + 1 \in 0..Cardinality(Batch(e, results)) /\ n + 1 # 0 /\ (n + 1) - 1 = n
        /\ n \in 0..Cardinality(Batch(e, results))
    BY <1>0
  <1>2. Passes(e, results)[n + 1] = Relax(results, Passes(e, results)[n])
    BY <1>0, <1>1, PassesUnfold
  <1>3. /\ DOMAIN Passes(e, results)[n] = Batch(e, results)
        /\ Loaded(results, Passes(e, results)[n])
    BY <1>1, PassInvAlways DEF PassInv
  <1> QED
    BY <1>2, <1>3, OnePass

LEMMA DepthsFall ==
    ASSUME LoadingInv, NEW e, NEW results, Storable(e, results), NEW m \in Nat
    PROVE  \A n \in Nat : m + n <= Cardinality(Batch(e, results)) =>
               \A x \in Batch(e, results) :
                   /\ Passes(e, results)[m + n][x].strict <= Passes(e, results)[m][x].strict
                   /\ Passes(e, results)[m + n][x].relaxed <= Passes(e, results)[m][x].relaxed
  <1> DEFINE N == Cardinality(Batch(e, results))
             p == Passes(e, results)
             Falls(n) == \A x \in Batch(e, results) : p[m + n][x].strict <= p[m][x].strict
                                                     /\ p[m + n][x].relaxed <= p[m][x].relaxed
             T == {n \in Nat : m + n <= N => Falls(n)}
  <1>0. N \in Nat
    BY BatchIs
  <1>a. \A n \in 0..N : \A x \in Batch(e, results) : p[n][x].strict \in Nat /\ p[n][x].relaxed \in Nat
    BY PassInvAlways, DepthsNatural DEF PassInv, Loaded, States0, Depths
  <1> HIDE DEF p, N
  <1>1. 0 \in T
    BY <1>0, <1>a
  <1>2. ASSUME NEW n \in T PROVE n + 1 \in T
    <2> SUFFICES ASSUME m + (n + 1) <= N PROVE Falls(n + 1)
      OBVIOUS
    <2>1. Falls(n)
      BY <1>0
    <2>2. m + (n + 1) = (m + n) + 1 /\ m + n \in Nat /\ m \in 0..N /\ m + n \in 0..N /\ m + (n + 1) \in 0..N
      BY <1>0
    <2>3. \A x \in Batch(e, results) : p[m + (n + 1)][x].strict <= p[m + n][x].strict
                                      /\ p[m + (n + 1)][x].relaxed <= p[m + n][x].relaxed
      BY <2>2, PassFalls DEF p, N
    <2> QED
      BY <1>a, <2>1, <2>2, <2>3
  <1>3. T = Nat
    BY <1>1, <1>2, Induction
  <1> QED
    BY <1>3 DEF p, N

LEMMA DepthsFallTo ==
    ASSUME LoadingInv, NEW e, NEW results, Storable(e, results),
           NEW m \in Nat, NEW n \in Nat, m <= n, n <= Cardinality(Batch(e, results)),
           NEW x \in Batch(e, results)
    PROVE  /\ Passes(e, results)[n][x].strict <= Passes(e, results)[m][x].strict
           /\ Passes(e, results)[n][x].relaxed <= Passes(e, results)[m][x].relaxed
           /\ Passes(e, results)[n][x] \in States0
  <1> DEFINE N == Cardinality(Batch(e, results))
  <1>1. N \in Nat
    BY BatchIs
  <1>2. n - m \in Nat /\ m + (n - m) = n /\ n \in 0..N
    BY <1>1
  <1>3. Passes(e, results)[n][x] \in States0
    BY <1>2, PassInvAlways DEF PassInv, Loaded
  <1> QED
    BY <1>2, <1>3, DepthsFall

\* The members of T have a depth of at most c after as many passes as there are other
\* members.
StrictWithin(e, results, T, c) ==
    \A v \in T : Passes(e, results)[Cardinality(T) - 1][v].strict <= c
RelaxedWithin(e, results, T, c) ==
    \A v \in T : Passes(e, results)[Cardinality(T) - 1][v].relaxed <= c

\* Such a set takes in another member with one pass more.
LEMMA Sizes ==
    ASSUME LoadingInv, NEW e, NEW results, Storable(e, results),
           NEW T \in SUBSET Batch(e, results), T # {}, NEW v \in Batch(e, results)
    PROVE  /\ Cardinality(T) \in Nat /\ Cardinality(T) - 1 \in Nat
           /\ Cardinality(T) <= Cardinality(Batch(e, results))
           /\ Cardinality(Batch(e, results)) \in Nat
           /\ v \in T => Cardinality(T \cup {v}) = Cardinality(T)
           /\ v \notin T => /\ Cardinality(T \cup {v}) = Cardinality(T) + 1
                            /\ Cardinality(T) + 1 <= Cardinality(Batch(e, results))
  <1>1. IsFiniteSet(Batch(e, results)) /\ Cardinality(Batch(e, results)) \in Nat
    BY BatchIs
  <1>2. IsFiniteSet(T) /\ Cardinality(T) <= Cardinality(Batch(e, results))
    BY <1>1, FS_Subset
  <1>3. Cardinality(T) \in Nat
    BY <1>2, FS_CardinalityType
  <1>4. Cardinality(T) # 0
    BY <1>2, FS_EmptySet
  <1>5. Cardinality(T \cup {v}) = IF v \in T THEN Cardinality(T) ELSE Cardinality(T) + 1
    BY <1>2, FS_AddElement
  <1>6. Cardinality(T \cup {v}) <= Cardinality(Batch(e, results))
    BY <1>1, FS_Subset
  <1> QED
    BY <1>1, <1>2, <1>3, <1>4, <1>5, <1>6

LEMMA StrictGrows ==
    ASSUME LoadingInv, NEW e, NEW results, Storable(e, results),
           NEW T \in SUBSET Batch(e, results), T # {}, NEW v \in Batch(e, results),
           NEW c \in Nat, StrictWithin(e, results, T, c),
           v \notin T => Passes(e, results)[Cardinality(T)][v].strict <= c
    PROVE  StrictWithin(e, results, T \cup {v}, c)
  <1>1. CASE v \in T
    <2>1. T \cup {v} = T
      BY <1>1
    <2> QED
      BY <2>1
  <1>2. CASE v \notin T
    <2> DEFINE k == Cardinality(T)
               p == Passes(e, results)
    <2>1. k \in Nat /\ k - 1 \in Nat /\ k - 1 <= k /\ k <= Cardinality(Batch(e, results))
          /\ Cardinality(Batch(e, results)) \in Nat
          /\ Cardinality(T \cup {v}) - 1 = k
      BY <1>2, Sizes
    <2>2. ASSUME NEW w \in T PROVE p[k][w].strict <= c
      <3>1. p[k][w].strict <= p[k - 1][w].strict /\ p[k][w] \in States0 /\ p[k - 1][w] \in States0
        BY <2>1, DepthsFallTo
      <3>2. p[k - 1][w].strict <= c
        BY DEF StrictWithin
      <3>3. p[k][w].strict \in Nat /\ p[k - 1][w].strict \in Nat
        BY <3>1, DepthsNatural DEF States0, Depths
      <3> QED
        BY <3>1, <3>2, <3>3
    <2> QED
      BY <1>2, <2>1, <2>2 DEF StrictWithin
  <1> QED
    BY <1>1, <1>2

LEMMA RelaxedGrows ==
    ASSUME LoadingInv, NEW e, NEW results, Storable(e, results),
           NEW T \in SUBSET Batch(e, results), T # {}, NEW v \in Batch(e, results),
           NEW c \in Nat, RelaxedWithin(e, results, T, c),
           v \notin T => Passes(e, results)[Cardinality(T)][v].relaxed <= c
    PROVE  RelaxedWithin(e, results, T \cup {v}, c)
  <1>1. CASE v \in T
    <2>1. T \cup {v} = T
      BY <1>1
    <2> QED
      BY <2>1
  <1>2. CASE v \notin T
    <2> DEFINE k == Cardinality(T)
               p == Passes(e, results)
    <2>1. k \in Nat /\ k - 1 \in Nat /\ k - 1 <= k /\ k <= Cardinality(Batch(e, results))
          /\ Cardinality(Batch(e, results)) \in Nat
          /\ Cardinality(T \cup {v}) - 1 = k
      BY <1>2, Sizes
    <2>2. ASSUME NEW w \in T PROVE p[k][w].relaxed <= c
      <3>1. p[k][w].relaxed <= p[k - 1][w].relaxed /\ p[k][w] \in States0 /\ p[k - 1][w] \in States0
        BY <2>1, DepthsFallTo
      <3>2. p[k - 1][w].relaxed <= c
        BY DEF RelaxedWithin
      <3>3. p[k][w].relaxed \in Nat /\ p[k - 1][w].relaxed \in Nat
        BY <3>1, DepthsNatural DEF States0, Depths
      <3> QED
        BY <3>1, <3>2, <3>3
    <2> QED
      BY <1>2, <2>1, <2>2 DEF RelaxedWithin
  <1> QED
    BY <1>1, <1>2

\* A result whose source is within c takes its entity, and the anchor it has, along.
LEMMA OneMore ==
    ASSUME LoadingInv, NEW e, NEW results, Storable(e, results), NEW r \in results,
           NEW T \in SUBSET Batch(e, results), NEW Y \in SUBSET T, r.source \in Y,
           NEW c \in Nat, c < Unresolved,
           StrictWithin(e, results, Y, c), RelaxedWithin(e, results, T, c)
    PROVE  /\ StrictWithin(e, results, Y \cup {r.entity}, c + Cost(r.entity))
           /\ \E U \in SUBSET Batch(e, results) :
                  T \subseteq U /\ r.entity \in U
                  /\ RelaxedWithin(e, results, U, c + Cost(r.entity))
  <1> DEFINE B == Batch(e, results)
             p == Passes(e, results)
             x == r.entity
             y == r.source
             d == c + Cost(x)
             Gate(k) == {q \in results : p[k][q.source].strict # Unresolved}
  <1>1. x \in B /\ y \in B /\ Anchors(x) \subseteq B /\ B \subseteq Entity /\ d \in Nat /\ c <= d
    BY BatchIs DEF Cost
  <1>2. Cardinality(B) \in Nat /\ Cardinality(Y) \in Nat /\ Cardinality(Y) - 1 \in Nat
        /\ Cardinality(T) \in Nat /\ Cardinality(T) <= Cardinality(B)
        /\ Cardinality(Y) <= Cardinality(T)
    <2>1. Y # {} /\ T # {} /\ Y \in SUBSET B
      OBVIOUS
    <2>2. IsFiniteSet(T)
      BY BatchIs, FS_Subset
    <2>3. Cardinality(Y) <= Cardinality(T)
      BY <2>2, FS_Subset
    <2> QED
      BY <1>1, <2>1, <2>3, Sizes
  <1>3. StrictWithin(e, results, Y, d) /\ RelaxedWithin(e, results, T, d)
    <2>1. ASSUME NEW v \in Y PROVE p[Cardinality(Y) - 1][v].strict <= d
      <3>1. p[Cardinality(Y) - 1][v].strict <= c
        BY DEF StrictWithin
      <3>2. p[Cardinality(Y) - 1][v] \in States0
        BY <1>2, DepthsFallTo
      <3>3. p[Cardinality(Y) - 1][v].strict \in Nat
        BY <3>2, DepthsNatural DEF States0, Depths
      <3> QED
        BY <1>1, <3>1, <3>3
    <2>2. ASSUME NEW v \in T PROVE p[Cardinality(T) - 1][v].relaxed <= d
      <3>1. p[Cardinality(T) - 1][v].relaxed <= c
        BY DEF RelaxedWithin
      <3>2. p[Cardinality(T) - 1][v] \in States0
        BY <1>2, DepthsFallTo
      <3>3. p[Cardinality(T) - 1][v].relaxed \in Nat
        BY <3>2, DepthsNatural DEF States0, Depths
      <3> QED
        BY <1>1, <3>1, <3>3
    <2> QED
      BY <2>1, <2>2 DEF StrictWithin, RelaxedWithin
  \* From then on the result is looked at.
  <1>4. ASSUME NEW k \in Nat, Cardinality(Y) - 1 <= k, k + 1 <= Cardinality(B)
        PROVE  /\ r \in Gate(k)
               /\ p[k][y].strict <= c
               /\ p[k + 1] = Relax(results, p[k])
               /\ DOMAIN p[k] = B /\ Loaded(results, p[k])
               /\ p[k + 1][x] \in States0 /\ p[k][y] \in States0
    <2>1. p[k][y].strict <= p[Cardinality(Y) - 1][y].strict /\ p[k][y] \in States0
          /\ p[Cardinality(Y) - 1][y] \in States0
      BY <1>1, <1>2, <1>4, DepthsFallTo
    <2>2. p[Cardinality(Y) - 1][y].strict <= c
      BY DEF StrictWithin
    <2>3. p[k][y].strict <= c /\ p[k][y].strict # Unresolved
      <3>1. p[k][y].strict \in Nat /\ p[Cardinality(Y) - 1][y].strict \in Nat
        BY <2>1, DepthsNatural DEF States0, Depths
      <3> QED
        BY <2>1, <2>2, <3>1, DepthsNatural
    <2>4. p[k + 1] = Relax(results, p[k])
      BY <1>4, PassFalls
    <2>5. DOMAIN p[k] = B /\ Loaded(results, p[k])
      <3>1. k \in 0..Cardinality(B)
        BY <1>2, <1>4
      <3> QED
        BY <3>1, PassInvAlways DEF PassInv
    <2>6. p[k + 1][x] \in States0
      BY <1>1, <2>4, <2>5, OnePass
    <2> QED
      BY <2>1, <2>3, <2>4, <2>5, <2>6
  <1>5. StrictWithin(e, results, Y \cup {x}, d)
    <2>1. ASSUME x \notin Y PROVE p[Cardinality(Y)][x].strict <= d
      <3> DEFINE k == Cardinality(Y) - 1
      <3>1. Cardinality(Y) + 1 <= Cardinality(B)
        BY <1>1, <2>1, Sizes
      <3>2. k \in Nat /\ Cardinality(Y) - 1 <= k /\ k + 1 <= Cardinality(B) /\ k + 1 = Cardinality(Y)
        BY <1>2, <3>1
      <3> HIDE DEF k
      <3>3. p[k + 1][x].strict <= p[k][y].strict + Cost(x) /\ p[k][y].strict <= c
        <4>1. Loaded(results, p[k]) /\ r \in Gate(k) /\ p[k + 1] = Relax(results, p[k])
              /\ p[k][y].strict <= c
          BY <1>4, <3>2
        <4> QED
          BY <4>1, OneResult
      <3>4. p[k + 1][x].strict \in Nat /\ p[k][y].strict \in Nat /\ Cost(x) \in Nat
        BY <1>4, <3>2, DepthsNatural DEF States0, Depths, Cost
      <3> QED
        BY <3>2, <3>3, <3>4
    <2>2. Y \in SUBSET B /\ Y # {}
      OBVIOUS
    <2> QED
      BY <1>1, <1>3, <2>1, <2>2, StrictGrows
  <1>6. \E U \in SUBSET B : T \subseteq U /\ x \in U /\ RelaxedWithin(e, results, U, d)
    <2> DEFINE k == Cardinality(T) - 1
    <2>1. k \in Nat /\ Cardinality(Y) - 1 <= k /\ k + 1 = Cardinality(T)
      BY <1>2
    <2>2. p[k][y].relaxed <= c /\ p[k][y] \in States0
      BY <1>1, <1>2, <2>1, DepthsFallTo DEF RelaxedWithin
    <2>3. p[k][y].relaxed \in Nat /\ Cost(x) \in Nat
      BY <2>2, DepthsNatural DEF States0, Depths, Cost
    <2> HIDE DEF k
    <2>4. CASE Anchors(x) = {}
      <3>1. ASSUME x \notin T PROVE p[Cardinality(T)][x].relaxed <= d
        <4>1. k + 1 <= Cardinality(B)
          BY <1>1, <1>2, <2>1, <3>1, Sizes
        <4>2. p[k + 1][x].relaxed <= p[k][y].relaxed + Cost(x)
          <5>1. Loaded(results, p[k]) /\ r \in Gate(k) /\ p[k + 1] = Relax(results, p[k])
            BY <1>4, <2>1, <4>1
          <5> QED
            BY <2>4, <5>1, OneResult
        <4>3. p[k + 1][x].relaxed \in Nat
          BY <1>4, <2>1, <4>1, DepthsNatural DEF States0, Depths
        <4> QED
          BY <2>1, <2>2, <2>3, <4>2, <4>3
      <3>2. RelaxedWithin(e, results, T \cup {x}, d)
        BY <1>1, <1>3, <3>1, RelaxedGrows
      <3> QED
        BY <1>1, <3>2
    <2>5. CASE Anchors(x) # {}
      <3>1. PICK a \in Anchors(x) : Anchors(x) = {a} /\ x \in Node /\ a \in B
        BY <1>1, <2>5, AnchorsAre
      <3>2. d = c + 1 /\ Cost(x) = 1
        BY <3>1 DEF Cost
      <3>3. ASSUME a \notin T PROVE p[Cardinality(T)][a].relaxed <= d
        <4>1. k + 1 <= Cardinality(B)
          BY <1>2, <2>1, <3>1, <3>3, Sizes
        <4>2. p[k + 1][a].relaxed <= p[k][y].relaxed + 1
          <5>1. Loaded(results, p[k]) /\ r \in Gate(k) /\ p[k + 1] = Relax(results, p[k])
            BY <1>4, <2>1, <4>1
          <5> QED
            BY <3>1, <5>1, OneResult
        <4>3. p[k + 1][a] \in States0
          BY <1>4, <2>1, <3>1, <4>1, OnePass
        <4>4. p[k + 1][a].relaxed \in Nat
          BY <4>3, DepthsNatural DEF States0, Depths
        <4> QED
          BY <2>1, <2>2, <2>3, <3>2, <4>2, <4>4
      <3> DEFINE V == T \cup {a}
                 j == Cardinality(V) - 1
      <3>4. RelaxedWithin(e, results, V, d) /\ V \in SUBSET B /\ V # {}
        BY <1>1, <1>3, <3>1, <3>3, RelaxedGrows
      <3>5. Cardinality(V) \in Nat /\ j \in Nat /\ Cardinality(Y) - 1 <= j /\ j + 1 = Cardinality(V)
        BY <1>1, <1>2, <3>1, <3>4, Sizes
      <3> HIDE DEF V, j
      <3>6. ASSUME x \notin V PROVE p[Cardinality(V)][x].relaxed <= d
        <4>1. j + 1 <= Cardinality(B)
          BY <1>1, <1>2, <3>4, <3>5, <3>6, Sizes
        <4>2. p[j + 1][x].relaxed <= p[j][a].relaxed
          <5>1. Loaded(results, p[j]) /\ r \in Gate(j) /\ p[j + 1] = Relax(results, p[j])
            BY <1>4, <3>5, <4>1
          <5> QED
            BY <3>1, <5>1, OneResult
        <4>3. p[j][a].relaxed <= d
          BY <3>4 DEF RelaxedWithin, V, j
        <4>4. p[j + 1][x].relaxed \in Nat /\ p[j][a].relaxed \in Nat
          BY <1>4, <3>1, <3>5, <4>1, DepthsNatural DEF States0, Depths, Loaded
        <4> QED
          BY <1>1, <3>5, <4>2, <4>3, <4>4
      <3>7. RelaxedWithin(e, results, V \cup {x}, d)
        BY <1>1, <3>4, <3>6, RelaxedGrows
      <3> QED
        BY <1>1, <3>4, <3>7 DEF V
    <2> QED
      BY <2>4, <2>5
  <1> QED
    BY <1>5, <1>6

\* Whatever the strict depth of x is after n passes, the relaxed depth reaches it over no
\* more entities than the batch has.
Catches(e, results, n, x) ==
    \E T \in SUBSET Batch(e, results) : \E Y \in SUBSET T :
        /\ x \in Y
        /\ StrictWithin(e, results, Y, Passes(e, results)[n][x].strict)
        /\ RelaxedWithin(e, results, T, Passes(e, results)[n][x].strict)

LEMMA CatchesFirst ==
    ASSUME LoadingInv, NEW e, NEW results, Storable(e, results), NEW x \in Batch(e, results)
    PROVE  Catches(e, results, 0, x)
  <1> DEFINE s == Before(e, results)
  <1>1. Passes(e, results)[0] = s
    BY PassesUnfold, BatchIs
  <1>2. Cardinality({x}) - 1 = 0
    BY FS_Singleton
  <1>b. Begins(e, results, x)
    BY BeforeIs
  <1>3. s[x].strict \in Nat /\ s[x].relaxed \in Nat
    BY <1>b, DepthsNatural DEF Begins, States0, Depths
  <1>4. s[x].relaxed <= s[x].strict
    <2>1. CASE x \in DOMAIN row /\ (x \in Node \/ x = e)
      <3>1. s[x].strict = row[x].strict /\ s[x].relaxed = DepthRelaxed(row, x)
        BY <2>1, <1>b DEF Begins
      <3> QED
        BY <2>1, <3>1 DEF LoadingInv, DepthsInv
    <2>2. CASE ~(x \in DOMAIN row /\ (x \in Node \/ x = e))
      <3>1. s[x].strict = Unresolved /\ s[x].relaxed = Unresolved
        BY <2>2, <1>b DEF Begins
      <3> QED
        BY <1>3, <3>1
    <2> QED
      BY <2>1, <2>2
  <1>5. /\ StrictWithin(e, results, {x}, Passes(e, results)[0][x].strict)
        /\ RelaxedWithin(e, results, {x}, Passes(e, results)[0][x].strict)
    <2> HIDE DEF s
    <2> QED
      BY <1>1, <1>2, <1>3, <1>4 DEF StrictWithin, RelaxedWithin
  <1> QED
    BY <1>5 DEF Catches

LEMMA CatchesNext ==
    ASSUME LoadingInv, NEW e, NEW results, Storable(e, results),
           NEW n \in Nat, n + 1 <= Cardinality(Batch(e, results)),
           \A x \in Batch(e, results) : Catches(e, results, n, x), NEW x \in Batch(e, results)
    PROVE  Catches(e, results, n + 1, x)
  <1> DEFINE p == Passes(e, results)
             B == Batch(e, results)
  <1>1. p[n + 1] = Relax(results, p[n]) /\ n \in 0..Cardinality(B)
    BY PassFalls, BatchIs
  <1>2. DOMAIN p[n] = B /\ Loaded(results, p[n])
    BY <1>1, PassInvAlways DEF PassInv
  <1>3. CASE p[n + 1][x].strict = p[n][x].strict
    BY <1>3 DEF Catches
  <1>4. ASSUME NEW r \in results, p[n][r.source].strict # Unresolved, r.entity = x,
               p[n + 1][x].strict = p[n][r.source].strict + Cost(x)
        PROVE  Catches(e, results, n + 1, x)
    <2> DEFINE c == p[n][r.source].strict
    <2>1. r.source \in B /\ p[n][r.source] \in States0
      BY <1>2 DEF Loaded
    <2>2. c \in Nat /\ c < Unresolved
      BY <1>4, <2>1, DepthsNatural DEF States0, Depths
    <2>3. PICK T \in SUBSET B : \E Y \in SUBSET T :
              r.source \in Y /\ StrictWithin(e, results, Y, c) /\ RelaxedWithin(e, results, T, c)
      BY <2>1 DEF Catches
    <2>4. PICK Y \in SUBSET T :
              r.source \in Y /\ StrictWithin(e, results, Y, c) /\ RelaxedWithin(e, results, T, c)
      BY <2>3
    <2> HIDE DEF c
    <2>5. /\ StrictWithin(e, results, Y \cup {x}, c + Cost(x))
          /\ \E U \in SUBSET B : T \subseteq U /\ x \in U /\ RelaxedWithin(e, results, U, c + Cost(x))
      BY <1>4, <2>2, <2>4, OneMore
    <2>6. PICK U \in SUBSET B : T \subseteq U /\ x \in U /\ RelaxedWithin(e, results, U, c + Cost(x))
      BY <2>5
    <2>7. Y \cup {x} \in SUBSET U /\ p[n + 1][x].strict = c + Cost(x)
      BY <1>4, <2>4, <2>6 DEF c
    <2> QED
      BY <2>5, <2>6, <2>7 DEF Catches
  <1> QED
    <2>1. \/ p[n + 1][x].strict = p[n][x].strict
          \/ \E r \in results : /\ p[n][r.source].strict # Unresolved /\ r.entity = x
                                /\ p[n + 1][x].strict = p[n][r.source].strict + Cost(x)
      BY <1>1, <1>2, OnePass
    <2> QED
      BY <1>3, <1>4, <2>1

\* When the passes are over, the relaxed depth is not above the strict one.
LEMMA RelaxedCatchesUp ==
    ASSUME LoadingInv, NEW e, NEW results, Storable(e, results), NEW x \in Batch(e, results)
    PROVE  States(e, results)[x].relaxed <= States(e, results)[x].strict
  <1> DEFINE p == Passes(e, results)
             B == Batch(e, results)
             N == Cardinality(B)
             T == {n \in Nat : n <= N => \A v \in B : Catches(e, results, n, v)}
  <1>0. N \in Nat
    BY BatchIs
  <1>1. 0 \in T
    BY CatchesFirst
  <1>2. ASSUME NEW n \in T PROVE n + 1 \in T
    BY <1>0, CatchesNext
  <1>3. T = Nat
    BY <1>1, <1>2, Induction
  <1>4. Catches(e, results, N, x)
    BY <1>0, <1>3
  <1>5. PICK U \in SUBSET B : x \in U /\ RelaxedWithin(e, results, U, p[N][x].strict)
    BY <1>4 DEF Catches
  <1>6. Cardinality(U) - 1 \in Nat /\ Cardinality(U) - 1 <= N
    <2>1. Cardinality(U) \in Nat /\ Cardinality(U) - 1 \in Nat /\ Cardinality(U) <= N
      BY <1>5, Sizes
    <2> QED
      BY <1>0, <2>1
  <1>7. p[Cardinality(U) - 1][x].relaxed <= p[N][x].strict
    BY <1>5 DEF RelaxedWithin
  <1>8. /\ p[N][x].relaxed <= p[Cardinality(U) - 1][x].relaxed
        /\ p[N][x] \in States0 /\ p[Cardinality(U) - 1][x] \in States0
    BY <1>0, <1>6, DepthsFallTo
  <1>9. p[N][x].relaxed \in Nat /\ p[N][x].strict \in Nat /\ p[Cardinality(U) - 1][x].relaxed \in Nat
    BY <1>8, DepthsNatural DEF States0, Depths
  <1>10. p[N][x].relaxed <= p[N][x].strict
    BY <1>7, <1>8, <1>9
  <1> QED
    BY <1>10 DEF States

-----------------------------------------------------------------------------
(* What a batch ends with, and what is made of the rows.                    *)

\* A strict depth that has fallen is that of a source, and a step.
Stepped(e, results, n, x) ==
    LET p == Passes(e, results)
    IN  \/ p[n][x].strict = p[0][x].strict
        \/ \E r \in results : r.entity = x /\ p[n][r.source].strict + Cost(x) <= p[n][x].strict

LEMMA SteppedNext ==
    ASSUME LoadingInv, NEW e, NEW results, Storable(e, results),
           NEW n \in Nat, n + 1 <= Cardinality(Batch(e, results)),
           NEW x \in Batch(e, results), Stepped(e, results, n, x)
    PROVE  Stepped(e, results, n + 1, x)
  <1> DEFINE p == Passes(e, results)
             B == Batch(e, results)
  <1>1. /\ Cardinality(B) \in Nat /\ n <= n + 1 /\ n + 1 \in Nat
        /\ p[n + 1] = Relax(results, p[n]) /\ n \in 0..Cardinality(B)
    BY PassFalls, BatchIs
  <1>2. DOMAIN p[n] = B /\ Loaded(results, p[n])
    BY <1>1, PassInvAlways DEF PassInv
  <1>3. \A r \in results : /\ r.source \in B
                           /\ p[n + 1][r.source].strict <= p[n][r.source].strict
                           /\ p[n + 1][r.source].strict \in Nat /\ p[n][r.source].strict \in Nat
    <2>1. ASSUME NEW r \in results PROVE r.source \in B
      BY BatchIs
    <2>2. ASSUME NEW y \in B
          PROVE  /\ p[n + 1][y].strict <= p[n][y].strict
                 /\ p[n + 1][y] \in States0 /\ p[n][y] \in States0
      <3>1. n <= n
        BY <1>1
      <3> QED
        BY <1>1, <3>1, DepthsFallTo
    <2>3. \A y \in B : p[n + 1][y].strict \in Nat /\ p[n][y].strict \in Nat
      BY <2>2, DepthsNatural DEF States0, Depths
    <2> QED
      BY <2>1, <2>2, <2>3
  <1>4. \/ p[n + 1][x].strict = p[n][x].strict
        \/ \E r \in results : r.entity = x /\ p[n + 1][x].strict = p[n][r.source].strict + Cost(x)
    BY <1>1, <1>2, OnePass
  <1>5. Cost(x) \in Nat
    BY DEF Cost
  <1>6. CASE \E r \in results : r.entity = x /\ p[n + 1][x].strict = p[n][r.source].strict + Cost(x)
    <2>1. PICK r \in results : r.entity = x /\ p[n + 1][x].strict = p[n][r.source].strict + Cost(x)
      BY <1>6
    <2>2. p[n + 1][r.source].strict + Cost(x) <= p[n + 1][x].strict
      BY <1>3, <1>5, <2>1
    <2> QED
      BY <2>1, <2>2 DEF Stepped
  <1>7. CASE p[n + 1][x].strict = p[n][x].strict
    <2>1. CASE p[n][x].strict = p[0][x].strict
      BY <1>7, <2>1 DEF Stepped
    <2>2. ASSUME NEW r \in results, r.entity = x, p[n][r.source].strict + Cost(x) <= p[n][x].strict
          PROVE  Stepped(e, results, n + 1, x)
      <3>1. p[n][x].strict \in Nat
        BY <1>2, DepthsNatural DEF Loaded, States0, Depths
      <3>2. p[n + 1][r.source].strict + Cost(x) <= p[n + 1][x].strict
        BY <1>3, <1>5, <1>7, <2>2, <3>1
      <3> QED
        BY <2>2, <3>2 DEF Stepped
    <2> QED
      BY <2>1, <2>2 DEF Stepped
  <1> QED
    BY <1>4, <1>6, <1>7

\* What a batch ends with.
Ends(e, results, x) ==
    LET s == Before(e, results)
        t == States(e, results)
    IN  /\ x \in DOMAIN t /\ t[x] \in States0
        /\ t[x].relaxed <= t[x].strict
        /\ t[x].strict <= s[x].strict /\ t[x].relaxed <= s[x].relaxed
        /\ t[x].isAnchor = s[x].isAnchor
        /\ s[x].anchored => t[x].anchored
        /\ t[x].anchored => /\ Anchors(x) # {}
                            /\ \A a \in Anchors(x) \cap Batch(e, results) :
                                   t[a].relaxed <= t[x].relaxed
        /\ t[x].anchored /\ ~s[x].anchored => Anchors(x) \subseteq Batch(e, results)
        /\ (\A r \in results : r.entity # x) => t[x].strict = s[x].strict
        /\ (\A r \in results : r.entity # x /\ x \notin Anchors(r.entity)) => t[x] = s[x]
        /\ \/ t[x].strict = s[x].strict
           \/ \E r \in results : r.entity = x /\ t[r.source].strict + Cost(x) <= t[x].strict

LEMMA EndsIs ==
    ASSUME LoadingInv, NEW e, NEW results, Storable(e, results), NEW x \in Batch(e, results)
    PROVE  Ends(e, results, x)
  <1> DEFINE p == Passes(e, results)
             B == Batch(e, results)
             N == Cardinality(B)
             T == {n \in Nat : n <= N => Stepped(e, results, n, x)}
  <1>0. N \in Nat /\ N \in 0..N
    BY BatchIs
  <1>1. 0 \in T
    BY DEF Stepped
  <1>2. ASSUME NEW n \in T PROVE n + 1 \in T
    BY <1>0, SteppedNext
  <1>3. T = Nat
    BY <1>1, <1>2, Induction
  <1>4. Stepped(e, results, N, x)
    BY <1>0, <1>3
  <1>5. p[0] = Before(e, results) /\ p[N] = States(e, results)
    BY <1>0, PassesUnfold DEF States
  <1>6. PassInv(e, results, N)
    BY <1>0, PassInvAlways
  <1>7. States(e, results)[x].relaxed <= States(e, results)[x].strict
    BY RelaxedCatchesUp
  <1>8. x \in DOMAIN p[N] /\ p[N][x] \in States0
    BY <1>6 DEF PassInv, Loaded
  <1> HIDE DEF p, N
  <1>9. \/ p[N][x].strict = Before(e, results)[x].strict
        \/ \E r \in results : r.entity = x /\ p[N][r.source].strict + Cost(x) <= p[N][x].strict
    BY <1>4, <1>5 DEF Stepped, p, N
  <1>10. LET s == Before(e, results)
             t == p[N]
         IN  /\ t[x].strict <= s[x].strict /\ t[x].relaxed <= s[x].relaxed
             /\ t[x].isAnchor = s[x].isAnchor
             /\ s[x].anchored => t[x].anchored
             /\ t[x].anchored => /\ Anchors(x) # {}
                                 /\ \A a \in Anchors(x) \cap B : t[a].relaxed <= t[x].relaxed
             /\ t[x].anchored /\ ~s[x].anchored => Anchors(x) \subseteq B
             /\ (\A r \in results : r.entity # x) => t[x].strict = s[x].strict
             /\ (\A r \in results : r.entity # x /\ x \notin Anchors(r.entity)) => t[x] = s[x]
    BY <1>6 DEF PassInv, p, N
  <1> QED
    BY <1>5, <1>7, <1>8, <1>9, <1>10 DEF Ends

\* The row that Upsert makes of an entity.
Merged(e, results, x) ==
    LET B == Batch(e, results)
        t == States(e, results)
        q == Upsert(t)
    IN  /\ x \in DOMAIN q /\ q[x] \in States0
        /\ x \in DOMAIN row => /\ q[x].strict <= row[x].strict /\ q[x].relaxed <= row[x].relaxed
                               /\ row[x].anchored => q[x].anchored
                               /\ q[x].isAnchor => row[x].isAnchor
        /\ x \in B => /\ q[x].strict <= t[x].strict /\ q[x].relaxed <= t[x].relaxed
                      /\ q[x].isAnchor => t[x].isAnchor
        /\ x \notin B => q[x] = row[x]
        /\ x \notin DOMAIN row => q[x] = t[x]
        /\ \/ x \in DOMAIN row /\ q[x].strict = row[x].strict
           \/ x \in B /\ q[x].strict = t[x].strict
        /\ \/ x \in DOMAIN row /\ q[x].relaxed = row[x].relaxed
           \/ x \in B /\ q[x].relaxed = t[x].relaxed
        /\ q[x].anchored => \/ x \in DOMAIN row /\ row[x].anchored
                            \/ x \in B /\ t[x].anchored /\ Anchors(x) \subseteq B

LEMMA UpsertDomain ==
    ASSUME LoadingInv, NEW e, NEW results, Storable(e, results)
    PROVE  /\ DOMAIN States(e, results) = Batch(e, results)
           /\ DOMAIN Upsert(States(e, results)) = DOMAIN row \cup Batch(e, results)
  <1>1. DOMAIN States(e, results) = Batch(e, results)
    <2>1. Cardinality(Batch(e, results)) \in 0..Cardinality(Batch(e, results))
      BY BatchIs
    <2> QED
      BY <2>1, PassInvAlways DEF PassInv, States
  <1> QED
    BY <1>1 DEF Upsert

LEMMA LeastOfTwo ==
    ASSUME NEW a \in Nat, NEW b \in Nat
    PROVE  Least({a, b}) \in {a, b} /\ Least({a, b}) <= a /\ Least({a, b}) <= b
  BY LeastIs

LEMMA MergedIs ==
    ASSUME LoadingInv, NEW e, NEW results, Storable(e, results),
           NEW x \in DOMAIN row \cup Batch(e, results)
    PROVE  Merged(e, results, x)
  <1> DEFINE B == Batch(e, results)
             t == States(e, results)
             q == Upsert(t)
  <1>1. DOMAIN t = B /\ DOMAIN q = DOMAIN row \cup B
    BY UpsertDomain
  <1>2. x \in DOMAIN row => row[x] \in States0 /\ row[x].strict \in Nat /\ row[x].relaxed \in Nat
    BY DepthsNatural DEF LoadingInv, RowsTyped, States0, Depths
  <1>3. x \in B => Ends(e, results, x)
    BY EndsIs
  <1>4. x \in B => t[x] \in States0 /\ t[x].strict \in Nat /\ t[x].relaxed \in Nat
    BY <1>3, DepthsNatural DEF Ends, States0, Depths
  <1>5. CASE x \notin B
    <2>1. q[x] = row[x] /\ x \in DOMAIN row
      BY <1>1, <1>5 DEF Upsert
    <2> HIDE DEF q, t, B
    <2> QED
      BY <1>1, <1>2, <1>5, <2>1 DEF Merged, q, t, B
  <1>6. CASE x \in B /\ x \notin DOMAIN row
    <2>1. q[x] = t[x]
      BY <1>1, <1>6 DEF Upsert
    <2>2. t[x].anchored => Anchors(x) \subseteq B
      <3>1. Begins(e, results, x)
        BY <1>6, BeforeIs
      <3>2. Before(e, results)[x].anchored = FALSE
        BY <1>6, <3>1 DEF Begins
      <3> QED
        BY <1>3, <1>6, <3>2 DEF Ends
    <2> HIDE DEF q, t, B
    <2>3. q[x].strict <= t[x].strict /\ q[x].relaxed <= t[x].relaxed
      BY <1>4, <1>6, <2>1
    <2> QED
      BY <1>1, <1>4, <1>6, <2>1, <2>2, <2>3 DEF Merged, q, t, B
  <1>7. CASE x \in B /\ x \in DOMAIN row
    <2>1. q[x] = [strict   |-> Least({row[x].strict, t[x].strict}),
                  relaxed  |-> Least({row[x].relaxed, t[x].relaxed}),
                  isAnchor |-> row[x].isAnchor /\ t[x].isAnchor,
                  anchored |-> row[x].anchored \/ (t[x].anchored /\ Anchors(x) \subseteq DOMAIN t)]
      BY <1>1, <1>7 DEF Upsert
    <2> HIDE DEF q, t
    <2>2. /\ q[x].strict = Least({row[x].strict, t[x].strict})
          /\ q[x].relaxed = Least({row[x].relaxed, t[x].relaxed})
          /\ q[x].isAnchor = (row[x].isAnchor /\ t[x].isAnchor)
          /\ q[x].anchored = (row[x].anchored \/ (t[x].anchored /\ Anchors(x) \subseteq B))
      BY <1>1, <2>1
    <2>3. /\ q[x].strict \in {row[x].strict, t[x].strict}
          /\ q[x].strict <= row[x].strict /\ q[x].strict <= t[x].strict
      BY <1>2, <1>4, <1>7, <2>2, LeastOfTwo
    <2>4. /\ q[x].relaxed \in {row[x].relaxed, t[x].relaxed}
          /\ q[x].relaxed <= row[x].relaxed /\ q[x].relaxed <= t[x].relaxed
      BY <1>2, <1>4, <1>7, <2>2, LeastOfTwo
    <2>5. q[x] \in States0
      <3>1. q[x].strict \in Depths /\ q[x].relaxed \in Depths
        BY <1>2, <1>4, <1>7, <2>3, <2>4 DEF States0
      <3>2. q[x] = [strict |-> q[x].strict, relaxed |-> q[x].relaxed,
                    isAnchor |-> q[x].isAnchor, anchored |-> q[x].anchored]
        BY <2>1, <2>2
      <3>3. q[x].isAnchor \in BOOLEAN /\ q[x].anchored \in BOOLEAN
        BY <2>2
      <3> QED
        BY <3>1, <3>2, <3>3 DEF States0
    <2> HIDE DEF B
    <2>6. /\ row[x].anchored => q[x].anchored
          /\ q[x].isAnchor => row[x].isAnchor /\ t[x].isAnchor
          /\ q[x].anchored => row[x].anchored \/ (t[x].anchored /\ Anchors(x) \subseteq B)
      BY <2>2
    <2> QED
      BY <1>1, <1>7, <2>3, <2>4, <2>5, <2>6 DEF Merged, q, t, B
  <1> QED
    BY <1>5, <1>6, <1>7

\* A row of a node has been loaded: its strict depth is that of the batch.
LEMMA NodesAreLoaded ==
    ASSUME LoadingInv, NEW e, NEW results, Storable(e, results),
           NEW x \in Batch(e, results), x \in Node \/ x = e
    PROVE  LET t == States(e, results)
               q == Upsert(t)
           IN  /\ q[x].strict = t[x].strict
               /\ ~q[x].anchored => q[x].relaxed = t[x].relaxed
               /\ x \in DOMAIN row /\ row[x].anchored => t[x].anchored
  <1> DEFINE t == States(e, results)
             q == Upsert(t)
             s == Before(e, results)
  <1>1. Merged(e, results, x) /\ Ends(e, results, x) /\ Begins(e, results, x)
    BY MergedIs, EndsIs, BeforeIs
  <1>2. CASE x \notin DOMAIN row
    BY <1>1, <1>2 DEF Merged
  <1>3. CASE x \in DOMAIN row
    <2>1. /\ s[x].strict = row[x].strict /\ s[x].relaxed = DepthRelaxed(row, x)
          /\ s[x].anchored = row[x].anchored
      BY <1>1, <1>3 DEF Begins
    <2>2. /\ t[x].strict <= s[x].strict /\ t[x].relaxed <= s[x].relaxed
          /\ s[x].anchored => t[x].anchored
          /\ t[x] \in States0 /\ s[x] \in States0
      BY <1>1 DEF Ends, Begins
    <2>3. /\ q[x].strict <= t[x].strict /\ q[x].relaxed <= t[x].relaxed
          /\ q[x].strict \in {row[x].strict, t[x].strict}
          /\ q[x].relaxed \in {row[x].relaxed, t[x].relaxed}
          /\ row[x].anchored => q[x].anchored
      BY <1>1, <1>3 DEF Merged
    <2>4. row[x] \in States0
      BY <1>3 DEF LoadingInv, RowsTyped
    <2>5. ~row[x].anchored => s[x].relaxed = row[x].relaxed
      BY <1>3, <2>1, RelaxedOfRows
    <2>6. /\ t[x].strict \in Nat /\ s[x].strict \in Nat /\ row[x].strict \in Nat
          /\ t[x].relaxed \in Nat /\ s[x].relaxed \in Nat /\ row[x].relaxed \in Nat
      BY <2>2, <2>4, DepthsNatural DEF States0, Depths
    <2> HIDE DEF t, q, s
    <2>7. q[x].strict = t[x].strict
      BY <2>1, <2>2, <2>3, <2>6
    <2>8. ~q[x].anchored => q[x].relaxed = t[x].relaxed
      BY <2>2, <2>3, <2>5, <2>6
    <2>9. row[x].anchored => t[x].anchored
      BY <2>1, <2>2
    <2> QED
      BY <2>7, <2>8, <2>9 DEF t, q, s
  <1> QED
    BY <1>2, <1>3

\* Storing keeps what loading relies on.
LEMMA StoreKeepsRows ==
    ASSUME LoadingInv, NEW e, NEW results, Storable(e, results), NEW q,
           q = Upsert(States(e, results))
    PROVE  RowsTyped(q) /\ AnchoredInv(q)
  <1> DEFINE B == Batch(e, results)
             t == States(e, results)
  <1>1. DOMAIN q = DOMAIN row \cup B
    BY UpsertDomain
  <1>2. \A x \in DOMAIN q : Merged(e, results, x)
    BY <1>1, MergedIs
  <1>3. RowsTyped(q)
    <2>1. DOMAIN q \subseteq Entity
      BY <1>1, BatchIs DEF LoadingInv, RowsTyped
    <2>2. IsFiniteSet(DOMAIN q)
      BY <1>1, BatchIs, FS_Union DEF LoadingInv, RowsTyped
    <2>3. \A x \in DOMAIN q : q[x] \in States0
      BY <1>2 DEF Merged
    <2> QED
      BY <2>1, <2>2, <2>3 DEF RowsTyped
  <1>4. AnchoredInv(q)
    <2>1. ASSUME NEW x \in DOMAIN q, q[x].anchored
          PROVE  Anchors(x) # {} /\ Anchors(x) \subseteq DOMAIN q
      <3>1. \/ x \in DOMAIN row /\ row[x].anchored
            \/ x \in B /\ t[x].anchored /\ Anchors(x) \subseteq B
        BY <1>2, <2>1 DEF Merged
      <3>2. CASE x \in DOMAIN row /\ row[x].anchored
        BY <1>1, <3>2 DEF LoadingInv, AnchoredInv
      <3>3. CASE x \in B /\ t[x].anchored /\ Anchors(x) \subseteq B
        <4>1. Ends(e, results, x)
          BY <3>3, EndsIs
        <4> QED
          BY <1>1, <3>3, <4>1 DEF Ends
      <3> QED
        BY <3>1, <3>2, <3>3
    <2> QED
      BY <2>1 DEF AnchoredInv
  <1> QED
    BY <1>3, <1>4

LEMMA StoreKeepsDepths ==
    ASSUME LoadingInv, NEW e, NEW results, Storable(e, results), NEW q,
           q = Upsert(States(e, results))
    PROVE  DepthsInv(q)
  <1> DEFINE B == Batch(e, results)
             t == States(e, results)
  <1>1. DOMAIN q = DOMAIN row \cup B
    BY UpsertDomain
  <1>2. RowsTyped(q) /\ AnchoredInv(q)
    BY StoreKeepsRows
  <1> SUFFICES ASSUME NEW x \in DOMAIN q PROVE DepthRelaxed(q, x) <= q[x].strict
    BY DEF DepthsInv
  <1>3. Merged(e, results, x)
    BY <1>1, MergedIs
  <1>4. /\ ~q[x].anchored => DepthRelaxed(q, x) = q[x].relaxed
        /\ q[x].anchored => \A a \in Anchors(x) : DepthRelaxed(q, x) = q[a].relaxed
    BY <1>2, DepthRelaxedIs DEF RowsTyped, AnchoredInv
  <1>5. q[x] \in States0 /\ q[x].strict \in Nat /\ q[x].relaxed \in Nat
    BY <1>2, DepthsNatural DEF RowsTyped, States0, Depths
  <1>6. x \in DOMAIN row => /\ row[x] \in States0
                            /\ row[x].strict \in Nat /\ row[x].relaxed \in Nat
                            /\ DepthRelaxed(row, x) <= row[x].strict
    BY DepthsNatural DEF LoadingInv, RowsTyped, DepthsInv, States0, Depths
  <1>7. x \in B => /\ Ends(e, results, x) /\ t[x] \in States0
                   /\ t[x].strict \in Nat /\ t[x].relaxed \in Nat /\ t[x].relaxed <= t[x].strict
    <2> HAVE x \in B
    <2>1. Ends(e, results, x)
      BY EndsIs
    <2> QED
      BY <2>1, DepthsNatural DEF Ends, States0, Depths
  <1>8. CASE ~q[x].anchored
    <2>1. x \in DOMAIN row => row[x].relaxed <= row[x].strict
      <3> HAVE x \in DOMAIN row
      <3>1. ~row[x].anchored
        BY <1>3, <1>8 DEF Merged
      <3> QED
        BY <1>6, <3>1, RelaxedOfRows
    <2>2. /\ x \in DOMAIN row => q[x].relaxed <= row[x].relaxed
          /\ x \in B => q[x].relaxed <= t[x].relaxed
          /\ \/ x \in DOMAIN row /\ q[x].strict = row[x].strict
             \/ x \in B /\ q[x].strict = t[x].strict
      BY <1>3 DEF Merged
    <2> HIDE DEF t, B
    <2>3. q[x].relaxed <= q[x].strict
      BY <1>5, <1>6, <1>7, <2>1, <2>2
    <2> QED
      BY <1>4, <1>8, <2>3
  <1>9. CASE q[x].anchored
    <2>1. PICK a \in Anchors(x) : Anchors(x) = {a} /\ x \in Node /\ a \in DOMAIN q
      BY <1>2, <1>9, AnchorsAre DEF AnchoredInv, RowsTyped
    <2>2. DepthRelaxed(q, x) = q[a].relaxed
      BY <1>4, <1>9, <2>1
    <2>3. Merged(e, results, a) /\ q[a] \in States0 /\ q[a].relaxed \in Nat
      BY <1>1, <1>2, <2>1, MergedIs, DepthsNatural DEF RowsTyped, States0, Depths
    <2>4. a \in DOMAIN row => q[a].relaxed <= row[a].relaxed /\ row[a].relaxed \in Nat
      BY <2>3, DepthsNatural DEF Merged, LoadingInv, RowsTyped, States0, Depths
    <2>5. a \in B => q[a].relaxed <= t[a].relaxed /\ t[a].relaxed \in Nat
      <3> HAVE a \in B
      <3>1. Ends(e, results, a)
        BY EndsIs
      <3> QED
        BY <2>3, <3>1, DepthsNatural DEF Merged, Ends, States0, Depths
    <2>6. CASE x \notin B
      <3>1. x \in DOMAIN row /\ q[x] = row[x]
        BY <1>1, <1>3, <2>6 DEF Merged
      <3>2. row[x].anchored
        BY <1>9, <3>1
      <3>3. a \in DOMAIN row /\ row[a].relaxed <= row[x].strict
        BY <1>6, <2>1, <3>1, <3>2, RelaxedOfRows DEF LoadingInv, AnchoredInv
      <3> HIDE DEF t, B
      <3> QED
        BY <1>6, <2>2, <2>3, <2>4, <3>1, <3>3
    <2>7. CASE x \in B
      <3>1. q[x].strict = t[x].strict
        BY <2>1, <2>7, NodesAreLoaded
      <3>2. CASE a \in B
        <4>1. t[x].anchored
          <5>1. \/ x \in DOMAIN row /\ row[x].anchored
                \/ x \in B /\ t[x].anchored /\ Anchors(x) \subseteq B
            BY <1>3, <1>9 DEF Merged
          <5> QED
            BY <2>1, <2>7, <5>1, NodesAreLoaded
        <4>2. t[a].relaxed <= t[x].relaxed
          BY <1>7, <2>1, <2>7, <3>2, <4>1 DEF Ends
        <4> HIDE DEF t, B
        <4> QED
          BY <1>7, <2>2, <2>3, <2>5, <2>7, <3>1, <3>2, <4>2
      <3>3. CASE a \notin B
        <4>1. x \in DOMAIN row /\ row[x].anchored
          BY <1>3, <1>9, <2>1, <3>3 DEF Merged
        <4>2. a \in DOMAIN row /\ row[a].relaxed <= row[x].strict
          BY <1>6, <2>1, <4>1, RelaxedOfRows DEF LoadingInv, AnchoredInv
        <4>3. \A r \in results : r.entity # x
          BY <2>1, <3>3, BatchIs
        <4>4. t[x].strict = Before(e, results)[x].strict
          BY <1>7, <2>7, <4>3 DEF Ends
        <4>5. Before(e, results)[x].strict = row[x].strict
          <5>1. Begins(e, results, x)
            BY <2>7, BeforeIs
          <5> QED
            BY <2>1, <4>1, <5>1 DEF Begins
        <4> HIDE DEF t, B
        <4> QED
          BY <1>6, <2>2, <2>3, <2>4, <3>1, <4>1, <4>2, <4>4, <4>5
      <3> QED
        BY <3>2, <3>3
    <2> QED
      BY <2>6, <2>7
  <1> QED
    BY <1>8, <1>9

\* A row that is nearer than unresolved, and not the target's, is that of an entity one
\* step from another; a property is one of a node.
EarnedInv(rows, rels) ==
    \A x \in DOMAIN rows :
        \/ rows[x].strict = Unresolved \/ x = <<Target>>
        \/ \E v \in DOMAIN rows : /\ <<v, x>> \in rels
                                  /\ rows[v].strict + Cost(x) <= rows[x].strict
                                  /\ x \in Properties => v \in Node

LEMMA StoreKeepsEarned ==
    ASSUME LoadingInv, EarnedInv(row, relations), NEW e, NEW results, Storable(e, results),
           NEW q, q = Upsert(States(e, results)),
           NEW rels, rels = relations \cup Relations(results)
    PROVE  EarnedInv(q, rels)
  <1> DEFINE B == Batch(e, results)
             t == States(e, results)
  <1>1. DOMAIN q = DOMAIN row \cup B
    BY UpsertDomain
  <1>2. \A y \in DOMAIN q : Merged(e, results, y) /\ q[y] \in States0 /\ q[y].strict \in Nat
    <2>1. \A y \in DOMAIN q : Merged(e, results, y)
      BY <1>1, MergedIs
    <2>2. RowsTyped(q)
      BY StoreKeepsRows
    <2> QED
      BY <2>1, <2>2, DepthsNatural DEF RowsTyped, States0, Depths
  <1> SUFFICES ASSUME NEW x \in DOMAIN q, q[x].strict # Unresolved, x # <<Target>>
               PROVE  \E v \in DOMAIN q : /\ <<v, x>> \in rels
                                          /\ q[v].strict + Cost(x) <= q[x].strict
                                          /\ x \in Properties => v \in Node
    BY DEF EarnedInv
  <1>3. \A y \in DOMAIN row : row[y] \in States0 /\ row[y].strict \in Nat
    BY DepthsNatural DEF LoadingInv, RowsTyped, States0, Depths
  <1>4. Cost(x) \in Nat
    BY DEF Cost
  <1>5. CASE x \in DOMAIN row /\ q[x].strict = row[x].strict
    <2>1. PICK v \in DOMAIN row : /\ <<v, x>> \in relations
                                  /\ row[v].strict + Cost(x) <= row[x].strict
                                  /\ x \in Properties => v \in Node
      BY <1>5 DEF EarnedInv
    <2>2. v \in DOMAIN q
      BY <1>1
    <2>3. q[v].strict <= row[v].strict
      BY <1>2, <2>2 DEF Merged
    <2>4. q[v].strict + Cost(x) <= q[x].strict
      BY <1>2, <1>3, <1>4, <1>5, <2>1, <2>2, <2>3
    <2> QED
      BY <2>1, <2>2, <2>4
  <1>6. ASSUME NEW r \in results, x \in B, r.entity = x, t[r.source].strict + Cost(x) <= t[x].strict,
               q[x].strict = t[x].strict
        PROVE  \E v \in DOMAIN q : /\ <<v, x>> \in rels
                                   /\ q[v].strict + Cost(x) <= q[x].strict
                                   /\ x \in Properties => v \in Node
    <2>1. r.source \in B /\ r.source \in DOMAIN q
      BY <1>1, BatchIs
    <2>2. Ends(e, results, r.source)
      BY <2>1, EndsIs
    <2>3. t[r.source].strict \in Nat
      BY <2>2, DepthsNatural DEF Ends, States0, Depths
    <2>4. q[r.source].strict <= t[r.source].strict
      BY <1>2, <2>1 DEF Merged
    <2>5. <<r.source, x>> \in rels
      BY <1>6 DEF Relations
    <2>6. x \in Properties => r.source \in Node
      BY <1>6 DEF Storable
    <2>7. q[r.source].strict \in Nat /\ q[x].strict \in Nat
      BY <1>2, <2>1
    <2>8. q[r.source].strict + Cost(x) <= q[x].strict
      BY <1>4, <1>6, <2>3, <2>4, <2>7
    <2> QED
      BY <2>1, <2>5, <2>6, <2>8
  <1>7. CASE x \in B /\ q[x].strict = t[x].strict /\ ~(x \in DOMAIN row /\ q[x].strict = row[x].strict)
    <2>1. Ends(e, results, x) /\ Begins(e, results, x)
      BY <1>7, EndsIs, BeforeIs
    <2>2. CASE t[x].strict = Before(e, results)[x].strict
      <3>1. ~(x \in DOMAIN row /\ (x \in Node \/ x = e))
        BY <1>7, <2>1, <2>2 DEF Begins
      <3>2. t[x].strict = Unresolved
        BY <2>1, <2>2, <3>1 DEF Begins
      <3> QED
        BY <1>7, <3>2
    <2>3. CASE \E r \in results : r.entity = x /\ t[r.source].strict + Cost(x) <= t[x].strict
      BY <1>6, <1>7, <2>3
    <2> QED
      BY <2>1, <2>2, <2>3 DEF Ends
  <1> QED
    BY <1>2, <1>5, <1>7 DEF Merged

-----------------------------------------------------------------------------
(* The distances from the target, one pass after the other.                 *)

NearerUpTo(n, h) == h = [i \in 0..n |-> IF i = 0 THEN AtTarget ELSE Nearer(h[i - 1])]

LEMMA NearerExists == \A n \in Nat : \E h : NearerUpTo(n, h)
  <1> DEFINE T == {n \in Nat : \E h : NearerUpTo(n, h)}
  <1>1. 0 \in T
    <2>1. NearerUpTo(0, [i \in 0..0 |-> AtTarget])
      BY DEF NearerUpTo
    <2> QED
      BY <2>1
  <1>2. ASSUME NEW n \in T PROVE n + 1 \in T
    <2>1. PICK h : NearerUpTo(n, h)
      OBVIOUS
    <2> DEFINE k == [i \in 0..(n + 1) |-> IF i = n + 1 THEN Nearer(h[n]) ELSE h[i]]
    <2>2. \A i \in 0..n : h[i] = IF i = 0 THEN AtTarget ELSE Nearer(h[i - 1])
      BY <2>1, Zenon DEF NearerUpTo
    <2>3. NearerUpTo(n + 1, k)
      BY <2>2 DEF NearerUpTo
    <2> QED
      BY <2>3
  <1>3. T = Nat
    BY <1>1, <1>2, Induction
  <1> QED
    BY <1>3

LEMMA NearerUnfold ==
    ASSUME Cardinality(DOMAIN row) \in Nat
    PROVE  /\ NearerAfter[0] = AtTarget
           /\ \A n \in 0..Cardinality(DOMAIN row) :
                  n # 0 => NearerAfter[n] = Nearer(NearerAfter[n - 1])
  <1> DEFINE N == Cardinality(DOMAIN row)
             p == NearerAfter
  <1>1. \E h : NearerUpTo(N, h)
    BY NearerExists
  <1>2. p = CHOOSE h : NearerUpTo(N, h)
    BY DEF NearerAfter, NearerUpTo
  <1>3. NearerUpTo(N, p)
    BY <1>1, <1>2
  <1>4. p = [i \in 0..N |-> IF i = 0 THEN AtTarget ELSE Nearer(p[i - 1])]
    BY <1>3 DEF NearerUpTo
  <1> HIDE DEF N, p
  <1>5. \A n \in 0..N : p[n] = IF n = 0 THEN AtTarget ELSE Nearer(p[n - 1])
    BY <1>4, Zenon
  <1> QED
    BY <1>5 DEF N, p

\* One pass: an entity is as near as before, or nearer by way of what is related to it.
LEMMA OneNearer ==
    ASSUME NEW d \in [Entity -> Nat], relations \subseteq Entity \X Entity
    PROVE  /\ Nearer(d) \in [Entity -> Nat]
           /\ \A x \in Entity : Nearer(d)[x] <= d[x]
           /\ \A v, x \in Entity : <<v, x>> \in relations => Nearer(d)[x] <= d[v] + Cost(x)
  <1> DEFINE S(x) == {d[x]} \cup {d[r[1]] + Cost(x) : r \in {q \in relations : q[2] = x}}
  <1>1. ASSUME NEW x \in Entity
        PROVE  /\ Least(S(x)) \in Nat /\ Least(S(x)) <= d[x]
               /\ \A v \in Entity : <<v, x>> \in relations => Least(S(x)) <= d[v] + Cost(x)
    <2>1. Cost(x) \in Nat
      BY DEF Cost
    <2>2. S(x) \in SUBSET Nat /\ S(x) # {}
      BY <2>1
    <2>3. ASSUME NEW v \in Entity, <<v, x>> \in relations PROVE d[v] + Cost(x) \in S(x)
      <3>1. <<v, x>> \in {q \in relations : q[2] = x} /\ <<v, x>>[1] = v
        BY <2>3
      <3> QED
        BY <3>1
    <2>4. d[x] \in S(x)
      OBVIOUS
    <2> HIDE DEF S
    <2>5. Least(S(x)) \in S(x) /\ \A c \in S(x) : Least(S(x)) <= c
      BY <2>2, LeastIs
    <2> QED
      BY <2>2, <2>3, <2>4, <2>5
  <1>2. Nearer(d) = [x \in Entity |-> Least(S(x))]
    BY DEF Nearer
  <1> HIDE DEF S
  <1> QED
    BY <1>1, <1>2

LEMMA DistancesTyped ==
    ASSUME RowsTyped(row), relations \subseteq Entity \X Entity
    PROVE  \A n \in 0..Cardinality(DOMAIN row) : NearerAfter[n] \in [Entity -> Nat]
  <1> DEFINE N == Cardinality(DOMAIN row)
             T == {n \in Nat : n <= N => NearerAfter[n] \in [Entity -> Nat]}
  <1>0. N \in Nat
    BY FS_CardinalityType DEF RowsTyped
  <1>1. 0 \in T
    BY <1>0, NearerUnfold, DepthsNatural DEF AtTarget
  <1>2. ASSUME NEW n \in T PROVE n + 1 \in T
    <2> SUFFICES ASSUME n + 1 <= N PROVE NearerAfter[n + 1] \in [Entity -> Nat]
      OBVIOUS
    <2>1. n + 1 \in 0..N /\ n + 1 # 0 /\ (n + 1) - 1 = n /\ NearerAfter[n] \in [Entity -> Nat]
      BY <1>0
    <2>2. NearerAfter[n + 1] = Nearer(NearerAfter[n])
      BY <1>0, <2>1, NearerUnfold
    <2> QED
      BY <2>1, <2>2, OneNearer
  <1>3. T = Nat
    BY <1>1, <1>2, Induction
  <1> QED
    BY <1>0, <1>3

LEMMA DistancesFall ==
    ASSUME RowsTyped(row), relations \subseteq Entity \X Entity, NEW x \in Entity, NEW m \in Nat
    PROVE  \A n \in Nat : m + n <= Cardinality(DOMAIN row)
               => NearerAfter[m + n][x] <= NearerAfter[m][x]
  <1> DEFINE N == Cardinality(DOMAIN row)
             p == NearerAfter
             T == {n \in Nat : m + n <= N => p[m + n][x] <= p[m][x]}
  <1>0. N \in Nat
    BY FS_CardinalityType DEF RowsTyped
  <1>a. \A n \in 0..N : p[n] \in [Entity -> Nat]
    BY DistancesTyped
  <1> HIDE DEF p, N
  <1>1. 0 \in T
    BY <1>0, <1>a
  <1>2. ASSUME NEW n \in T PROVE n + 1 \in T
    <2> SUFFICES ASSUME m + (n + 1) <= N PROVE p[m + (n + 1)][x] <= p[m][x]
      OBVIOUS
    <2>1. m + (n + 1) \in 0..N /\ m + (n + 1) # 0 /\ (m + (n + 1)) - 1 = m + n
          /\ m \in 0..N /\ m + n \in 0..N
      BY <1>0
    <2>2. p[m + (n + 1)] = Nearer(p[m + n])
      BY <1>0, <2>1, NearerUnfold DEF p, N
    <2>3. p[m + (n + 1)][x] <= p[m + n][x]
      BY <1>a, <2>1, <2>2, OneNearer
    <2>4. p[m + n][x] <= p[m][x]
      BY <1>0
    <2>5. p[m + (n + 1)][x] \in Nat /\ p[m + n][x] \in Nat /\ p[m][x] \in Nat
      BY <1>a, <2>1
    <2> QED
      BY <2>3, <2>4, <2>5
  <1>3. T = Nat
    BY <1>1, <1>2, Induction
  <1> QED
    BY <1>3 DEF p, N

-----------------------------------------------------------------------------
(* Rows that are earned step by step are as far as the relations show.      *)

\* Steps to a node raise the depth, steps to a property only this key.
Key(x) == 2 * row[x].strict + (IF x \in Properties THEN 1 ELSE 0)
Lower(x) == {u \in DOMAIN row : Key(u) <= Key(x)}

LEMMA KeysAreNatural ==
    ASSUME RowsTyped(row), NEW x \in DOMAIN row
    PROVE  Key(x) \in Nat /\ row[x].strict \in Nat
  BY DepthsNatural DEF Key, RowsTyped, States0, Depths

\* The entity from which x is reached has a lower key.
LEMMA StepRaisesKey ==
    ASSUME RowsTyped(row), NEW x \in DOMAIN row, NEW v \in DOMAIN row,
           row[v].strict + Cost(x) <= row[x].strict, x \in Properties => v \in Node
    PROVE  Key(v) < Key(x)
  <1>1. row[v].strict \in Nat /\ row[x].strict \in Nat
    BY KeysAreNatural
  <1>2. CASE x \in Properties
    <2>1. v \notin Properties
      BY <1>2, PropertiesApart
    <2>2. row[v].strict <= row[x].strict
      BY <1>1 DEF Cost
    <2> QED
      BY <1>1, <1>2, <2>1, <2>2 DEF Key
  <1>3. CASE x \notin Properties
    <2>1. x \in Node
      BY <1>3 DEF RowsTyped, Entity
    <2>2. row[v].strict + 1 <= row[x].strict
      BY <2>1 DEF Cost
    <2> QED
      BY <1>1, <1>3, <2>2 DEF Key
  <1> QED
    BY <1>2, <1>3

LEMMA LowerIs ==
    ASSUME RowsTyped(row), NEW x \in DOMAIN row
    PROVE  /\ Cardinality(Lower(x)) \in Nat /\ Cardinality(Lower(x)) - 1 \in Nat
           /\ Cardinality(Lower(x)) <= Cardinality(DOMAIN row)
           /\ Cardinality(DOMAIN row) \in Nat
           /\ \A v \in DOMAIN row : Key(v) < Key(x) => Cardinality(Lower(v)) < Cardinality(Lower(x))
  <1>1. IsFiniteSet(DOMAIN row) /\ Cardinality(DOMAIN row) \in Nat
    BY FS_CardinalityType DEF RowsTyped
  <1>2. \A v \in DOMAIN row : IsFiniteSet(Lower(v)) /\ Cardinality(Lower(v)) \in Nat
                              /\ Cardinality(Lower(v)) <= Cardinality(DOMAIN row)
    <2>1. \A v \in DOMAIN row : Lower(v) \in SUBSET DOMAIN row
      BY DEF Lower
    <2> QED
      BY <1>1, <2>1, FS_Subset, FS_CardinalityType
  <1>3. x \in Lower(x)
    BY KeysAreNatural DEF Lower
  <1>4. Cardinality(Lower(x)) # 0
    BY <1>2, <1>3, FS_EmptySet
  <1>5. ASSUME NEW v \in DOMAIN row, Key(v) < Key(x)
        PROVE  Cardinality(Lower(v)) < Cardinality(Lower(x))
    <2>1. \A u \in DOMAIN row : Key(u) \in Nat
      BY KeysAreNatural
    <2>2. Lower(v) \in SUBSET Lower(x) /\ x \notin Lower(v)
      BY <1>5, <2>1 DEF Lower
    <2>3. /\ Cardinality(Lower(v)) <= Cardinality(Lower(x))
          /\ Cardinality(Lower(x)) = Cardinality(Lower(v)) => Lower(x) = Lower(v)
      BY <1>2, <2>2, FS_Subset
    <2> QED
      BY <1>2, <1>3, <2>2, <2>3
  <1> QED
    BY <1>1, <1>2, <1>4, <1>5

\* So many passes as there are entities with a key that is not above that of x show that
\* it is as near as its row has it.
LEMMA NearEnough ==
    ASSUME RowsTyped(row), EarnedInv(row, relations), relations \subseteq Entity \X Entity
    PROVE  \A x \in DOMAIN row : NearerAfter[Cardinality(Lower(x)) - 1][x] <= row[x].strict
  <1> DEFINE N == Cardinality(DOMAIN row)
             p == NearerAfter
             Near(x) == p[Cardinality(Lower(x)) - 1][x] <= row[x].strict
             T == {n \in Nat : \A x \in DOMAIN row : Key(x) < n => Near(x)}
  <1>0. N \in Nat /\ DOMAIN row \subseteq Entity
    BY FS_CardinalityType DEF RowsTyped
  <1>a. \A n \in 0..N : p[n] \in [Entity -> Nat]
    BY DistancesTyped
  <1>b. \A x \in DOMAIN row : Cardinality(Lower(x)) - 1 \in 0..N /\ Cardinality(Lower(x)) \in Nat
    BY <1>0, LowerIs
  <1>c. \A x \in DOMAIN row : Key(x) \in Nat /\ row[x].strict \in Nat
    BY KeysAreNatural
  <1>d. \A x \in DOMAIN row : p[Cardinality(Lower(x)) - 1][x] <= p[0][x]
    <2>1. ASSUME NEW x \in DOMAIN row PROVE p[Cardinality(Lower(x)) - 1][x] <= p[0][x]
      <3>1. Cardinality(Lower(x)) - 1 \in Nat /\ 0 + (Cardinality(Lower(x)) - 1) <= N
            /\ 0 + (Cardinality(Lower(x)) - 1) = Cardinality(Lower(x)) - 1
        BY <1>0, <1>b
      <3> QED
        BY <1>0, <3>1, DistancesFall
    <2> QED
      BY <2>1
  <1>1. 0 \in T
    BY <1>c
  <1>2. ASSUME NEW n \in T PROVE n + 1 \in T
    <2> SUFFICES ASSUME NEW x \in DOMAIN row, Key(x) < n + 1 PROVE Near(x)
      OBVIOUS
    <2>0. p[0] = AtTarget /\ p[0][x] \in Nat /\ p[Cardinality(Lower(x)) - 1][x] \in Nat
      BY <1>0, <1>a, <1>b, NearerUnfold
    <2>1. CASE row[x].strict = Unresolved \/ x = <<Target>>
      <3>1. p[0][x] <= row[x].strict
        BY <1>0, <1>c, <2>0, <2>1, DepthsNatural DEF AtTarget
      <3> QED
        BY <1>c, <1>d, <2>0, <3>1
    <2>2. CASE ~(row[x].strict = Unresolved \/ x = <<Target>>)
      <3>1. PICK v \in DOMAIN row : /\ <<v, x>> \in relations
                                    /\ row[v].strict + Cost(x) <= row[x].strict
                                    /\ x \in Properties => v \in Node
        BY <2>2 DEF EarnedInv
      <3>2. Key(v) < Key(x)
        BY <3>1, StepRaisesKey
      <3>3. Near(v)
        BY <1>c, <3>2
      <3> DEFINE k == Cardinality(Lower(x)) - 1
                 j == Cardinality(Lower(v)) - 1
      <3>4. /\ j \in Nat /\ k \in 0..N /\ k # 0 /\ k - 1 \in Nat /\ k - 1 \in 0..N
            /\ (k - 1) - j \in Nat /\ j + ((k - 1) - j) = k - 1 /\ k - 1 <= N /\ j \in 0..N
        BY <1>0, <1>b, <3>2, LowerIs
      <3>5. p[k] = Nearer(p[k - 1])
        BY <1>0, <3>4, NearerUnfold
      <3>6. p[k][x] <= p[k - 1][v] + Cost(x)
        BY <1>0, <1>a, <3>1, <3>4, <3>5, OneNearer
      <3>7. p[k - 1][v] <= p[j][v]
        BY <1>0, <3>4, DistancesFall
      <3>8. p[j][v] <= row[v].strict
        BY <3>3
      <3>9. p[k][x] \in Nat /\ p[k - 1][v] \in Nat /\ p[j][v] \in Nat /\ Cost(x) \in Nat
            /\ row[v].strict \in Nat /\ row[x].strict \in Nat
        BY <1>0, <1>a, <1>c, <3>4 DEF Cost
      <3> HIDE DEF j, k, p
      <3>10. p[k][x] <= row[x].strict
        BY <3>1, <3>6, <3>7, <3>8, <3>9
      <3> QED
        BY <3>10 DEF j, k, p
    <2> QED
      BY <2>1, <2>2
  <1>3. T = Nat
    BY <1>1, <1>2, Induction
  <1>4. ASSUME NEW x \in DOMAIN row PROVE Near(x)
    <2>1. Key(x) + 1 \in T /\ Key(x) < Key(x) + 1
      BY <1>3, <1>c
    <2> QED
      BY <2>1
  <1> QED
    BY <1>4

LEMMA EarnedIsEnough ==
    ASSUME LoadingInv, EarnedInv(row, relations), relations \subseteq Entity \X Entity
    PROVE  DepthIsEarned
  <1> DEFINE N == Cardinality(DOMAIN row)
  <1>0. RowsTyped(row) /\ N \in Nat /\ DOMAIN row \subseteq Entity
    BY FS_CardinalityType DEF LoadingInv, RowsTyped
  <1> SUFFICES ASSUME NEW x \in DOMAIN row
               PROVE  row[x].strict >= Distances[x] /\ DepthRelaxed(row, x) <= row[x].strict
    BY DEF DepthIsEarned
  <1> DEFINE k == Cardinality(Lower(x)) - 1
  <1>1. k \in Nat /\ N - k \in Nat /\ k + (N - k) = N /\ k \in 0..N /\ N \in 0..N
    BY <1>0, LowerIs
  <1>2. NearerAfter[N][x] <= NearerAfter[k][x]
    <2>1. x \in Entity /\ k + (N - k) <= N
      BY <1>0, <1>1
    <2>2. NearerAfter[k + (N - k)][x] <= NearerAfter[k][x]
      <3>1. \A n \in Nat : k + n <= N => NearerAfter[k + n][x] <= NearerAfter[k][x]
        <4> HIDE DEF k
        <4> QED
          BY <1>0, <1>1, <2>1, DistancesFall
      <3> QED
        BY <1>1, <2>1, <3>1
    <2> QED
      BY <1>1, <2>2
  <1>3. NearerAfter[k][x] <= row[x].strict
    BY <1>0, NearEnough
  <1>4. NearerAfter[N][x] \in Nat /\ NearerAfter[k][x] \in Nat /\ row[x].strict \in Nat
    BY <1>0, <1>1, DistancesTyped, KeysAreNatural
  <1>5. Distances[x] <= row[x].strict
    BY <1>2, <1>3, <1>4 DEF Distances
  <1> QED
    BY <1>4, <1>5 DEF LoadingInv, DepthsInv, Distances

-----------------------------------------------------------------------------
(* The specification.                                                       *)

Reported == {<<Target>>} \cup {r[2] : r \in relations}

StoreInv ==
    /\ TypeOK /\ LoadingInv /\ EarnedInv(row, relations)
    \* What has been reported has a row, and is no mere anchor any more.
    /\ \A x \in Reported : x \in DOMAIN row /\ ~row[x].isAnchor
    \* Calls are about what has a row.
    /\ \A k \in running : \E e \in DOMAIN row, fn \in Function : k = <<e, fn>>
    /\ ReachedIsRun

\* The packets that Store takes are those of which the lemmas above speak.
LEMMA PacketsAreStorable ==
    ASSUME NEW e \in DOMAIN row, DOMAIN row \subseteq Entity, NEW results \in Packets(e)
    PROVE  Storable(e, results)
  <1>1. \A s \in Entity : \A r \in Results(s) :
            /\ r \in Links /\ r.source = s
            /\ r.entity \in Properties => r.source \in Node
    <2>1. ASSUME NEW s \in Entity, NEW r \in Results(s)
          PROVE  /\ r \in Links /\ r.source = s
                 /\ r.entity \in Properties => r.source \in Node
      <3>1. PICK x \in {y \in Entity \ {s} : y \in Node \/ (s \in Node /\ y[1] = s[1])} :
                r = [source |-> s, entity |-> x]
        BY DEF Results
      <3>2. r.source = s /\ r.entity = x /\ r \in Links
        BY <3>1 DEF Links
      <3> QED
        BY <3>1, <3>2, PropertiesApart
    <2> QED
      BY <2>1
  <1>2. CASE results = {}
    BY <1>2, FS_EmptySet DEF Storable
  <1>3. CASE results # {}
    <2>1. PICK a \in Results(e) : \E b \in Results(e) \cup Results(a.entity) : results = {a, b}
      BY <1>3 DEF Packets
    <2>2. PICK b \in Results(e) \cup Results(a.entity) : results = {a, b}
      BY <2>1
    <2>3. a \in Links /\ (a.entity \in Properties => a.source \in Node)
      BY <1>1
    <2>4. b \in Links /\ (b.entity \in Properties => b.source \in Node)
      BY <1>1, <2>3 DEF Links
    <2>5. IsFiniteSet({a} \cup {b})
      BY FS_Singleton, FS_AddElement
    <2>6. IsFiniteSet(results)
      BY <2>2, <2>5
    <2> QED
      BY <2>2, <2>3, <2>4, <2>6 DEF Storable
  <1> QED
    BY <1>2, <1>3

LEMMA MissingIs ==
    ASSUME NEW l, NEW x, NEW k
    PROVE  k \in Missing(l, x) <=> /\ \E fn \in Function : x \in Input[fn] /\ k = <<x, fn>>
                                   /\ k \notin DOMAIN l
  BY DEF Missing

LEMMA DispatchedIs ==
    ASSUME NEW batch, NEW l, NEW inFlight, NEW max, NEW strict, NEW i \in batch,
           (IF strict THEN i.strict ELSE i.relaxed) <= max,
           NEW k \in Missing(l, i.entity), k \notin inFlight
    PROVE  k \in Dispatched(batch, l, inFlight, max, strict)
  BY DEF Dispatched

LEMMA InitStore == Init => StoreInv
  <1> SUFFICES ASSUME Init PROVE StoreInv
    OBVIOUS
  <1> DEFINE g == <<Target>>
  <1>1. g \in Node /\ g \in Entity
    BY NamesAnchored DEF Node, Entity
  <1>2. Anchors(g) \subseteq Node /\ IsFiniteSet(Anchors(g)) /\ \A a \in Anchors(g) : Anchors(a) = {} /\ a # g
    BY <1>1, AnchorsAre
  <1>3. DOMAIN row = {g} \cup Anchors(g)
    BY DEF Init
  <1>4. row[g] = [strict |-> 0, relaxed |-> 0, isAnchor |-> FALSE,
                  anchored |-> IF Anchors(g) = {} THEN FALSE ELSE TRUE]
    <2>1. (Anchors(g) # {}) = (IF Anchors(g) = {} THEN FALSE ELSE TRUE)
      OBVIOUS
    <2>2. row[g] = [strict |-> 0, relaxed |-> 0, isAnchor |-> FALSE, anchored |-> Anchors(g) # {}]
      BY DEF Init
    <2> HIDE DEF g
    <2> QED
      BY <2>1, <2>2
  <1>5. \A a \in Anchors(g) : row[a] = [strict |-> Unresolved, relaxed |-> 0, isAnchor |-> TRUE,
                                        anchored |-> FALSE]
    BY <1>2 DEF Init
  <1> HIDE DEF g
  <1>6. row[g] \in States0 /\ \A a \in Anchors(g) : row[a] \in States0
    <2>1. 0 \in Depths /\ Unresolved \in Depths
      BY DepthsNatural DEF Depths
    <2>2. (IF Anchors(g) = {} THEN FALSE ELSE TRUE) \in BOOLEAN
      OBVIOUS
    <2>3. row[g] \in States0
      BY <1>4, <2>1, <2>2 DEF States0
    <2>4. ASSUME NEW a \in Anchors(g) PROVE row[a] \in States0
      <3>1. row[a] = [strict |-> Unresolved, relaxed |-> 0, isAnchor |-> TRUE, anchored |-> FALSE]
        BY <1>5
      <3> QED
        BY <2>1, <3>1 DEF States0
    <2> QED
      BY <2>3, <2>4
  <1>7. RowsTyped(row)
    <2>1. IsFiniteSet({g} \cup Anchors(g))
      BY <1>2, FS_Singleton, FS_Union
    <2>2. {g} \cup Anchors(g) \subseteq Entity
      BY <1>1, <1>2 DEF Entity
    <2> QED
      BY <1>3, <1>6, <2>1, <2>2 DEF RowsTyped
  <1>8. AnchoredInv(row)
    BY <1>3, <1>4, <1>5 DEF AnchoredInv
  <1>9. DepthsInv(row)
    <2> SUFFICES ASSUME NEW x \in DOMAIN row PROVE DepthRelaxed(row, x) <= row[x].strict
      BY DEF DepthsInv
    <2>1. /\ ~row[x].anchored => DepthRelaxed(row, x) = row[x].relaxed
          /\ row[x].anchored => \A a \in Anchors(x) : DepthRelaxed(row, x) = row[a].relaxed
      BY <1>7, <1>8, DepthRelaxedIs DEF RowsTyped, AnchoredInv
    <2>2. DepthRelaxed(row, x) = 0
      <3>1. CASE x = g
        <4>1. CASE Anchors(g) = {}
          BY <1>4, <2>1, <3>1, <4>1
        <4>2. CASE Anchors(g) # {}
          <5>1. PICK a \in Anchors(g) : TRUE
            BY <4>2
          <5>2. row[x].anchored /\ row[a].relaxed = 0
            BY <1>4, <1>5, <3>1, <5>1, <4>2
          <5> QED
            BY <2>1, <3>1, <5>1, <5>2
        <4> QED
          BY <4>1, <4>2
      <3>2. CASE x \in Anchors(g)
        BY <1>5, <2>1, <3>2
      <3> QED
        BY <1>3, <3>1, <3>2
    <2>3. row[x].strict \in Nat
      BY <1>7, KeysAreNatural
    <2> QED
      BY <2>2, <2>3
  <1>10. EarnedInv(row, relations)
    BY <1>3, <1>5 DEF EarnedInv, g
  <1>11. \A x \in Reported : x \in DOMAIN row /\ ~row[x].isAnchor
    BY <1>3, <1>4 DEF Reported, Init, g
  <1>12. TypeOK
    <2>1. \A x \in DOMAIN row : row[x] \in [strict : Nat, relaxed : Nat, isAnchor : BOOLEAN,
                                            anchored : BOOLEAN]
      BY <1>7, DepthsNatural DEF RowsTyped, States0, Depths
    <2>2. DOMAIN log = {}
      BY DEF Init
    <2> QED
      BY <1>7, <2>1, <2>2 DEF TypeOK, RowsTyped, Init
  <1> QED
    BY <1>7, <1>8, <1>9, <1>10, <1>11, <1>12 DEF StoreInv, LoadingInv, ReachedIsRun, Init

\* What Resume takes up is all that is missing.
LEMMA ResumeKeeps == ASSUME StoreInv, Resume PROVE StoreInv'
  <1>1. PICK pending \in BOOLEAN, retry \in BOOLEAN :
           LET failed == {k \in DOMAIN log : ~log[k]}
               left == {k \in DOMAIN log : retry => log[k]}
               work == {e \in DOMAIN row :
                           \/ pending /\ ~row[e].isAnchor /\ Missing(log, e) # {}
                           \/ retry /\ \E fn \in Function : <<e, fn>> \in failed}
           IN  /\ log' = [k \in left |-> log[k]]
               /\ running' = Dispatched(StoredItems(row, work), log', {}, limit', strictDepth')
               /\ resumed' = pending
    BY DEF Resume
  <1> DEFINE failed == {k \in DOMAIN log : ~log[k]}
             left == {k \in DOMAIN log : retry => log[k]}
             work == {e \in DOMAIN row :
                           \/ pending /\ ~row[e].isAnchor /\ Missing(log, e) # {}
                           \/ retry /\ \E fn \in Function : <<e, fn>> \in failed}
  <1>2. /\ row' = row /\ relations' = relations /\ vanished' = {}
        /\ limit' \in Limit /\ strictDepth' \in BOOLEAN /\ open' = TRUE
        /\ DOMAIN log' = left
        /\ running' = Dispatched(StoredItems(row, work), log', {}, limit', strictDepth')
        /\ resumed' = pending
    BY <1>1 DEF Resume
  <1> HIDE DEF left, work
  <1>3. \A k \in running' : \E e \in DOMAIN row, fn \in Function : k = <<e, fn>>
    <2> SUFFICES ASSUME NEW k \in running'
                 PROVE  \E e \in DOMAIN row, fn \in Function : k = <<e, fn>>
      OBVIOUS
    <2>1. PICK i \in StoredItems(row, work) : k \in Missing(log', i.entity)
      BY <1>2 DEF Dispatched
    <2>2. i.entity \in DOMAIN row
      BY DEF StoredItems, work
    <2> QED
      BY <2>1, <2>2 DEF Missing
  <1>4. TypeOK'
    <2>1. running' \cup vanished' \subseteq Entity \X Function
      BY <1>2, <1>3 DEF StoreInv, TypeOK
    <2>2. DOMAIN log' \subseteq Entity \X Function
      BY <1>2 DEF StoreInv, TypeOK, left
    <2> QED
      BY <1>2, <2>1, <2>2 DEF StoreInv, TypeOK
  <1>5. LoadingInv' /\ EarnedInv(row, relations)'
        /\ \A x \in Reported' : x \in DOMAIN row' /\ ~row'[x].isAnchor
    BY <1>2 DEF StoreInv, LoadingInv, RowsTyped, AnchoredInv, DepthsInv, EarnedInv, Reported
  <1>6. ReachedIsRun'
    <2> SUFFICES ASSUME pending, NEW x \in Reported', Depth(x)' <= limit', NEW k \in Missing(log, x)'
                 PROVE  k \in running'
      BY <1>2 DEF ReachedIsRun, Reported
    <2>1. x \in DOMAIN row /\ ~row[x].isAnchor
      BY <1>2 DEF StoreInv, Reported
    <2>2. k \in Missing(log', x)
      OBVIOUS
    <2>3. PICK fn \in Function : x \in Input[fn] /\ k = <<x, fn>> /\ k \notin left
      BY <1>2, <2>2, MissingIs
    <2>4. x \in work
      <3>1. CASE k \in DOMAIN log
        <4>1. retry /\ k \in failed
          BY <2>3, <3>1 DEF left
        <4> QED
          BY <2>1, <2>3, <4>1 DEF work
      <3>2. CASE k \notin DOMAIN log
        <4>1. k \in Missing(log, x)
          BY <2>3, <3>2, MissingIs
        <4> QED
          BY <2>1, <4>1 DEF work
      <3> QED
        BY <3>1, <3>2
    <2> DEFINE i == [entity |-> x, strict |-> row[x].strict, relaxed |-> DepthRelaxed(row, x)]
    <2>5. i \in StoredItems(row, work)
      BY <2>4 DEF StoredItems
    <2>6. (IF strictDepth' THEN i.strict ELSE i.relaxed) <= limit'
      BY <1>2 DEF Depth
    <2> HIDE DEF i
    <2>7. i.entity = x
      BY DEF i
    <2> QED
      BY <1>2, <2>2, <2>5, <2>6, <2>7 DEF Dispatched
  <1> QED
    BY <1>2, <1>3, <1>4, <1>5, <1>6 DEF StoreInv

\* Calls that end without a packet leave rows as they are.
LEMMA CallsEndKeeps ==
    ASSUME StoreInv, NEW e \in Entity, NEW fn \in Function, StoreError(e, fn) \/ Vanish(e, fn)
    PROVE  StoreInv'
  <1>1. /\ row' = row /\ relations' = relations /\ open' = open /\ resumed' = resumed
        /\ limit' = limit /\ strictDepth' = strictDepth
        /\ running' = running \ {<<e, fn>>} /\ <<e, fn>> \in running
    BY DEF StoreError, Vanish
  <1>2. \/ DOMAIN log' = DOMAIN log \cup {<<e, fn>>} /\ vanished' = vanished
        \/ log' = log /\ vanished' = vanished \cup {<<e, fn>>}
    <2>1. CASE StoreError(e, fn)
      BY <2>1 DEF StoreError, Logged
    <2>2. CASE Vanish(e, fn)
      BY <2>2 DEF Vanish
    <2> QED
      BY <2>1, <2>2
  <1>3. TypeOK'
    <2>1. running' \cup vanished' \subseteq Entity \X Function /\ DOMAIN log' \subseteq Entity \X Function
      BY <1>1, <1>2 DEF StoreInv, TypeOK
    <2> QED
      BY <1>1, <2>1 DEF StoreInv, TypeOK
  <1>4. LoadingInv' /\ EarnedInv(row, relations)'
        /\ (\A x \in Reported' : x \in DOMAIN row' /\ ~row'[x].isAnchor)
        /\ (\A k \in running' : \E y \in DOMAIN row', f \in Function : k = <<y, f>>)
    BY <1>1 DEF StoreInv, LoadingInv, RowsTyped, AnchoredInv, DepthsInv, EarnedInv, Reported
  <1>5. ReachedIsRun'
    <2> SUFFICES ASSUME open, resumed, NEW x \in Reported, Depth(x)' <= limit,
                        strictDepth \/ (~row[x].anchored /\ \A y \in Node : x \notin Anchors(y)),
                        NEW k \in Missing(log, x)'
                 PROVE  k \in running' \cup vanished'
      BY <1>1 DEF ReachedIsRun, Reported
    <2>1. Depth(x)' = Depth(x)
      BY <1>1 DEF Depth
    <2>2. k \in Missing(log', x)
      OBVIOUS
    <2>3. k \in Missing(log, x)
      BY <1>2, <2>2, MissingIs
    <2>4. k \in running \cup vanished
      BY <2>1, <2>3 DEF StoreInv, ReachedIsRun, Reported
    <2>5. k = <<e, fn>> => k \in vanished'
      BY <1>2, <2>2, MissingIs
    <2> QED
      BY <1>1, <1>2, <2>4, <2>5
  <1> QED
    BY <1>3, <1>4, <1>5 DEF StoreInv

\* What Store makes of a reported entity, and of its call list.
LEMMA StoreKeeps ==
    ASSUME StoreInv, NEW e \in Entity, NEW fn \in Function, Store(e, fn)
    PROVE  StoreInv'
  <1>0. <<e, fn>> \in running
    BY DEF Store
  <1>1. PICK results \in Packets(e), applied \in BOOLEAN :
            /\ row' = Upsert(States(e, results))
            /\ relations' = relations \cup Relations(results)
            /\ log' = Logged(Done(e, results, applied) \X {fn}, TRUE)
            /\ running' = (running \ {<<e, fn>>})
                   \cup Dispatched(Items(States(e, results), results), log', running, limit, strictDepth)
    BY DEF Store
  <1> DEFINE B == Batch(e, results)
             t == States(e, results)
             q == Upsert(t)
             rels == relations \cup Relations(results)
             taken == Dispatched(Items(t, results), log', running, limit, strictDepth)
  <1>2. open' = open /\ limit' = limit /\ strictDepth' = strictDepth /\ resumed' = resumed
        /\ vanished' = vanished
    BY DEF Store
  <1>3. LoadingInv /\ EarnedInv(row, relations) /\ RowsTyped(row) /\ DOMAIN row \subseteq Entity
        /\ relations \subseteq Entity \X Entity /\ DOMAIN log \subseteq Entity \X Function
        /\ running \cup vanished \subseteq Entity \X Function
        /\ limit \in Limit \cup {0} /\ strictDepth \in BOOLEAN /\ open \in BOOLEAN
    BY DEF StoreInv, TypeOK, LoadingInv, RowsTyped
  <1>4. e \in DOMAIN row
    BY <1>0 DEF StoreInv
  <1>5. Storable(e, results)
    BY <1>3, <1>4, PacketsAreStorable
  <1>6. DOMAIN q = DOMAIN row \cup B
    BY <1>3, <1>5, UpsertDomain
  <1>7. LoadingInv'
    <2>1. RowsTyped(q) /\ AnchoredInv(q) /\ DepthsInv(q)
      BY <1>3, <1>5, StoreKeepsRows, StoreKeepsDepths
    <2>2. RowsTyped(row') /\ AnchoredInv(row') /\ DepthsInv(row')
      BY <1>1, <2>1
    <2> QED
      BY <2>2 DEF LoadingInv
  <1>8. EarnedInv(row', relations')
    BY <1>1, <1>3, <1>5, StoreKeepsEarned
  <1>9. \A r \in results : r.entity \in B /\ r.source \in B /\ r.entity \in Entity /\ r.source \in Entity
    BY <1>3, <1>5, BatchIs DEF Storable, Links
  <1>10. relations' \subseteq Entity \X Entity
    BY <1>1, <1>3, <1>9 DEF Relations
  <1>11. DOMAIN log' = DOMAIN log \cup (Done(e, results, applied) \X {fn})
    BY <1>1 DEF Logged
  <1>12. Done(e, results, applied) \subseteq Entity /\ <<e, fn>> \in DOMAIN log'
    BY <1>9, <1>11 DEF Done
  <1>13. \A k \in running' : \E y \in DOMAIN row', f \in Function : k = <<y, f>>
    <2>1. ASSUME NEW k \in taken PROVE \E y \in DOMAIN row', f \in Function : k = <<y, f>>
      <3>1. PICK i \in Items(t, results) : k \in Missing(log', i.entity)
        BY DEF Dispatched
      <3>2. PICK r \in results : i.entity = r.entity
        BY DEF Items
      <3>3. i.entity \in DOMAIN row'
        BY <1>1, <1>6, <1>9, <3>2
      <3> QED
        BY <3>1, <3>3 DEF Missing
    <2>2. ASSUME NEW k \in running PROVE \E y \in DOMAIN row', f \in Function : k = <<y, f>>
      <3>1. \E y \in DOMAIN row, f \in Function : k = <<y, f>>
        BY DEF StoreInv
      <3> QED
        BY <1>1, <1>6, <3>1
    <2> QED
      BY <1>1, <2>1, <2>2
  <1>14. TypeOK'
    <2>1. DOMAIN row' \subseteq Entity
          /\ \A x \in DOMAIN row' : row'[x] \in [strict : Nat, relaxed : Nat, isAnchor : BOOLEAN,
                                                 anchored : BOOLEAN]
      BY <1>7, DepthsNatural DEF LoadingInv, RowsTyped, States0, Depths
    <2>2. DOMAIN log' \subseteq Entity \X Function
      BY <1>3, <1>11, <1>12
    <2>3. running' \cup vanished' \subseteq Entity \X Function
      BY <1>2, <1>3, <1>13, <2>1
    <2> QED
      BY <1>2, <1>3, <1>10, <2>1, <2>2, <2>3 DEF TypeOK
  <1>15. Reported' = Reported \cup {r.entity : r \in results}
    <2>1. {p[2] : p \in Relations(results)} = {r.entity : r \in results}
      <3>1. ASSUME NEW r \in results PROVE \E p \in Relations(results) : p[2] = r.entity
        <4>1. <<r.source, r.entity>> \in Relations(results) /\ <<r.source, r.entity>>[2] = r.entity
          BY DEF Relations
        <4> QED
          BY <4>1
      <3>2. ASSUME NEW p \in Relations(results) PROVE \E r \in results : p[2] = r.entity
        BY DEF Relations
      <3> QED
        BY <3>1, <3>2
    <2>2. Reported' = {<<Target>>} \cup {p[2] : p \in relations \cup Relations(results)}
      BY <1>1 DEF Reported
    <2> QED
      BY <2>1, <2>2 DEF Reported
  <1>16. ASSUME NEW x \in Reported' PROVE x \in DOMAIN row' /\ ~row'[x].isAnchor
    <2>1. x \in DOMAIN row \cup B
      BY <1>9, <1>15 DEF StoreInv
    <2>2. Merged(e, results, x)
      BY <1>3, <1>5, <2>1, MergedIs
    <2>3. CASE x \in {r.entity : r \in results}
      <3>1. x \in B /\ x \in Named(e, results)
        BY <1>9, <2>3 DEF Named
      <3>2. Begins(e, results, x) /\ Ends(e, results, x)
        BY <1>3, <1>5, <3>1, BeforeIs, EndsIs
      <3>3. ~t[x].isAnchor
        BY <3>1, <3>2 DEF Begins, Ends
      <3> QED
        BY <1>1, <1>6, <2>1, <2>2, <3>1, <3>3 DEF Merged
    <2>4. CASE x \in Reported
      <3>1. x \in DOMAIN row /\ ~row[x].isAnchor
        BY <2>4 DEF StoreInv
      <3> QED
        BY <1>1, <1>6, <2>1, <2>2, <3>1 DEF Merged
    <2> QED
      BY <1>15, <2>3, <2>4
  <1>17. ReachedIsRun'
    <2> SUFFICES ASSUME open, resumed, NEW x \in Reported', Depth(x)' <= limit,
                        strictDepth \/ (~row'[x].anchored /\ \A y \in Node : x \notin Anchors(y)),
                        NEW k \in Missing(log', x)
                 PROVE  k \in running' \cup vanished
      BY <1>2 DEF ReachedIsRun, Reported
    <2>1. PICK f \in Function : x \in Input[f] /\ k = <<x, f>> /\ k \notin DOMAIN log'
      BY MissingIs
    <2>2. k \notin DOMAIN log /\ k # <<e, fn>> /\ k \in Missing(log, x)
      BY <1>11, <1>12, <2>1, MissingIs
    <2>3. x \in DOMAIN row \cup B /\ x \in DOMAIN row' /\ DOMAIN row' = DOMAIN row \cup B
      BY <1>1, <1>6, <1>16
    <2>4. Merged(e, results, x)
      BY <1>3, <1>5, <2>3, MergedIs
    <2>5. Depth(x)' = IF strictDepth THEN q[x].strict ELSE DepthRelaxed(q, x)
      BY <1>1, <1>2 DEF Depth
    <2>6. ~q[x].anchored => DepthRelaxed(q, x) = q[x].relaxed
      <3>1. RowsTyped(q) /\ AnchoredInv(q)
        BY <1>3, <1>5, StoreKeepsRows
      <3> QED
        BY <1>6, <2>3, <3>1, DepthRelaxedIs DEF RowsTyped, AnchoredInv
    <2>7. CASE x \in {r.entity : r \in results}
      <3>1. PICK r \in results : r.entity = x
        BY <2>7
      <3> DEFINE d == IF x \in Properties THEN q[x] ELSE t[x]
                 i == [entity |-> x, strict |-> d.strict, relaxed |-> d.relaxed]
      <3>2. i \in Items(t, results)
        BY <3>1 DEF Items
      <3>3. d.strict = q[x].strict /\ (~q[x].anchored => d.relaxed = q[x].relaxed)
        <4>1. CASE x \in Properties
          BY <4>1
        <4>2. CASE x \notin Properties
          <5>1. x \in Node /\ x \in B
            BY <1>9, <3>1, <4>2 DEF Entity
          <5>2. q[x].strict = t[x].strict /\ (~q[x].anchored => q[x].relaxed = t[x].relaxed)
            BY <1>3, <1>5, <5>1, NodesAreLoaded
          <5> QED
            BY <4>2, <5>2
        <4> QED
          BY <4>1, <4>2
      <3> HIDE DEF d, q, t
      <3>4. i.entity = x /\ i.strict = d.strict /\ i.relaxed = d.relaxed
        OBVIOUS
      <3> HIDE DEF i
      <3>5. (IF strictDepth THEN i.strict ELSE i.relaxed) <= limit
        BY <1>1, <2>5, <2>6, <3>3, <3>4 DEF q, t
      <3>6. CASE k \in running
        BY <1>1, <2>2, <3>6
      <3>7. CASE k \notin running
        <4>1. k \in Missing(log', i.entity)
          BY <3>4
        <4>2. k \in Dispatched(Items(t, results), log', running, limit, strictDepth)
          BY <3>2, <3>5, <3>7, <4>1, DispatchedIs
        <4> QED
          BY <1>1, <4>2 DEF t
      <3> QED
        BY <3>6, <3>7
    <2>8. CASE x \in Reported /\ x \notin {r.entity : r \in results}
      <3>1. x \in DOMAIN row /\ row[x] \in States0
        BY <1>3, <2>8 DEF StoreInv, RowsTyped
      <3>2. \A r \in results : r.entity # x
        BY <2>8
      <3>3. row[x].strict \in Nat /\ row[x].relaxed \in Nat /\ row[x].strict <= Unresolved
            /\ row[x].relaxed <= Unresolved
        BY <3>1, DepthsNatural DEF States0, Depths
      <3>4. x \in B => Ends(e, results, x) /\ Begins(e, results, x)
        BY <1>3, <1>5, EndsIs, BeforeIs
      <3>5. x \in B => t[x].strict = row[x].strict \/ t[x].strict = Unresolved
        BY <3>1, <3>2, <3>4 DEF Ends, Begins
      <3>6. q[x].strict = row[x].strict
        <4>1. CASE x \notin B
          BY <2>4, <4>1 DEF Merged
        <4>2. CASE x \in B
          <5>1. q[x].strict <= row[x].strict /\ q[x].strict \in {row[x].strict, t[x].strict}
            BY <2>4, <3>1 DEF Merged
          <5> HIDE DEF q, t
          <5> QED
            BY <3>3, <3>5, <4>2, <5>1, DepthsNatural
        <4> QED
          BY <4>1, <4>2
      <3>7. ASSUME ~strictDepth PROVE DepthRelaxed(q, x) = DepthRelaxed(row, x) /\ ~row[x].anchored
        <4>1. ~q[x].anchored /\ \A y \in Node : x \notin Anchors(y)
          BY <1>1, <3>7
        <4>2. ~row[x].anchored
          BY <2>4, <3>1, <4>1 DEF Merged
        <4>3. DepthRelaxed(row, x) = row[x].relaxed
          BY <1>3, <3>1, <4>2, RelaxedOfRows
        <4>4. \A r \in results : x \notin Anchors(r.entity)
          BY <1>9, <4>1, AnchorsAre DEF Anchors
        <4>5. x \in B => t[x].relaxed = row[x].relaxed \/ t[x].relaxed = Unresolved
          BY <3>1, <3>2, <3>4, <4>3, <4>4 DEF Ends, Begins
        <4>6. q[x].relaxed = row[x].relaxed
          <5>1. CASE x \notin B
            BY <2>4, <5>1 DEF Merged
          <5>2. CASE x \in B
            <6>1. q[x].relaxed <= row[x].relaxed /\ q[x].relaxed \in {row[x].relaxed, t[x].relaxed}
              BY <2>4, <3>1 DEF Merged
            <6> HIDE DEF q, t
            <6> QED
              BY <3>3, <4>5, <5>2, <6>1, DepthsNatural
          <5> QED
            BY <5>1, <5>2
        <4> QED
          BY <2>6, <4>1, <4>2, <4>3, <4>6
      <3> HIDE DEF q, t
      <3>8. Depth(x) <= limit
        BY <2>5, <3>6, <3>7 DEF Depth
      <3>9. strictDepth \/ (~row[x].anchored /\ \A y \in Node : x \notin Anchors(y))
        BY <3>7
      <3>10. k \in running \cup vanished
        BY <2>2, <2>8, <3>8, <3>9 DEF StoreInv, ReachedIsRun, Reported
      <3> QED
        BY <1>1, <2>2, <3>10
    <2> QED
      BY <1>15, <2>7, <2>8
  <1> QED
    BY <1>7, <1>8, <1>13, <1>14, <1>16, <1>17 DEF StoreInv

LEMMA NextStore == StoreInv /\ [Next]_vars => StoreInv'
  <1> SUFFICES ASSUME StoreInv, [Next]_vars PROVE StoreInv'
    OBVIOUS
  <1>1. CASE Resume
    BY <1>1, ResumeKeeps
  <1>2. CASE ResetProjectLog
    <2>1. /\ row' = row /\ relations' = relations /\ running' = running /\ vanished' = vanished
          /\ open' = open /\ ~open /\ limit' = limit /\ strictDepth' = strictDepth
          /\ DOMAIN log' = {}
      BY <1>2 DEF ResetProjectLog
    <2> QED
      BY <2>1 DEF StoreInv, TypeOK, LoadingInv, RowsTyped, AnchoredInv, DepthsInv, EarnedInv,
                  Reported, ReachedIsRun
  <1>3. CASE End
    <2>1. /\ row' = row /\ relations' = relations /\ log' = log /\ running' = {} /\ vanished' = {}
          /\ open' = FALSE /\ limit' = 0 /\ strictDepth' = FALSE
      BY <1>3 DEF End
    <2> QED
      BY <2>1 DEF StoreInv, TypeOK, LoadingInv, RowsTyped, AnchoredInv, DepthsInv, EarnedInv,
                  Reported, ReachedIsRun
  <1>4. ASSUME NEW e \in Entity, NEW fn \in Function, Store(e, fn) PROVE StoreInv'
    BY <1>4, StoreKeeps
  <1>5. ASSUME NEW e \in Entity, NEW fn \in Function, StoreError(e, fn) \/ Vanish(e, fn)
        PROVE  StoreInv'
    BY <1>5, CallsEndKeeps
  <1>6. CASE UNCHANGED vars
    <2>1. /\ row' = row /\ relations' = relations /\ log' = log /\ running' = running
          /\ vanished' = vanished /\ open' = open /\ resumed' = resumed /\ limit' = limit
          /\ strictDepth' = strictDepth
      BY <1>6 DEF vars
    <2> QED
      BY <2>1 DEF StoreInv, TypeOK, LoadingInv, RowsTyped, AnchoredInv, DepthsInv, EarnedInv,
                  Reported, ReachedIsRun, Depth, Missing
  <1> QED
    BY <1>1, <1>2, <1>3, <1>4, <1>5, <1>6 DEF Next

\* In every state rows are typed, depths and anchors are what a batch loads, and what the
\* session may reach is run.
THEOREM StoreInductive == Spec => []StoreInv
  BY InitStore, NextStore, PTL DEF Spec

\* repository.Store gives no entity a depth below its distance from the target over the
\* relations it stores, and no relaxed depth above the strict one.
THEOREM DepthsAreEarned == Spec => []DepthIsEarned
  <1>1. StoreInv => DepthIsEarned
    BY EarnedIsEnough DEF StoreInv, TypeOK
  <1> QED
    BY <1>1, StoreInductive, PTL

\* What repository.Store returns and GetResumePayload takes up gives every reported entity
\* within the limit of the session to all its functions.
THEOREM ReachIsRun == Spec => []ReachedIsRun
  <1>1. StoreInv => ReachedIsRun
    BY DEF StoreInv
  <1> QED
    BY <1>1, StoreInductive, PTL
=============================================================================
