-------------------------- MODULE ScopeSyncProofs --------------------------
(***************************************************************************)
(* Scope marks for all rules, entities and projects: nothing blocked comes *)
(* back unless an allow rule names it or its anchor, a synchronisation     *)
(* leaves no name blocked that an allow rule covers, and a run that ends   *)
(* leaves nothing in scope unanswered.                                     *)
(***************************************************************************)
EXTENDS ScopeSync, TLAPS

LEMMA Anchors ==
    /\ Home \in Entity /\ Domain \subseteq Entity /\ Sub \subseteq Entity /\ Mail \subseteq Entity
    /\ \A e \in Sub \cup Mail : AnchorOf[e] \in Domain /\ AnchorOf[e] \in Entity /\ ~HasAnchor(AnchorOf[e])
    /\ ~HasAnchor(Home)
  BY ScopeAssumption DEF Entity, HasAnchor

-----------------------------------------------------------------------------
(* The marks of one project                                                *)

\* The invariant of one project's marks.
Orderly(m) ==
    /\ m \in [Entity -> Mark]
    /\ \A e \in Sub \cup Mail : m[e] # "absent" => m[AnchorOf[e]] # "absent"
    /\ \A e \in Sub : m[e] = "null" => m[AnchorOf[e]] # "zero"

\* An anchor that a rule allows makes its subdomains allowed.
LEMMA AllowedBelow ==
    ASSUME NEW r, NEW e \in Sub, IsExplicitlyAllowed(r, AnchorOf[e])
    PROVE  IsExplicitlyAllowed(r, e)
  BY Anchors DEF IsExplicitlyAllowed, HasAnchor

\* What SyncScopeWithDB makes of a row.
LEMMA SyncRow ==
    ASSUME NEW m \in [Entity -> Mark], NEW r, NEW e \in Entity
    PROVE  /\ Sync(m, r) \in [Entity -> Mark]
           /\ m[e] = "zero" /\ IsExplicitlyAllowed(r, e) => Sync(m, r)[e] = "zero"
           /\ m[e] = "zero" /\ ~IsExplicitlyAllowed(r, e) => Sync(m, r)[e] \in {"one", "null"}
           /\ m[e] # "zero" /\ Blocked(m, e) /\ IsExplicitlyAllowed(r, e) => Sync(m, r)[e] = "zero"
           /\ m[e] # "zero" /\ ~(Blocked(m, e) /\ IsExplicitlyAllowed(r, e)) => Sync(m, r)[e] = m[e]
  <1> DEFINE P(x) == m[x] = "zero" /\ ~IsExplicitlyAllowed(r, x)
             Q(x) == Blocked(m, x) /\ IsExplicitlyAllowed(r, x)
  <1>1. \A x \in Entity : Q(x) => m[x] \in {"one", "null"}
    BY DEF Blocked
  <1>2. \A x \in Entity : Sync(m, r)[x] =
            CASE P(x) -> (IF IsOutOfScope(r, x) THEN "one" ELSE "null") [] Q(x) -> "zero" [] OTHER -> m[x]
    BY DEF Sync
  <1>3. \A x \in Entity : Sync(m, r)[x] \in Mark
    <2> SUFFICES ASSUME NEW x \in Entity PROVE Sync(m, r)[x] \in Mark OBVIOUS
    <2>1. P(x) => ~Q(x)
      BY <1>1
    <2> HIDE DEF P, Q
    <2> QED BY <1>2, <2>1 DEF Mark
  <1>4. Sync(m, r) = [x \in Entity |-> Sync(m, r)[x]]
    BY DEF Sync
  <1>5. P(e) => ~Q(e)
    BY <1>1
  <1>6. /\ P(e) => Sync(m, r)[e] \in {"one", "null"}
        /\ Q(e) => Sync(m, r)[e] = "zero"
        /\ ~P(e) /\ ~Q(e) => Sync(m, r)[e] = m[e]
    <2> HIDE DEF P, Q
    <2> QED BY <1>2, <1>5
  <1>7. Sync(m, r) \in [Entity -> Mark]
    BY <1>3, <1>4
  <1>8. m[e] = "zero" => ~Q(e)
    BY <1>1
  <1> QED BY <1>6, <1>7, <1>8

\* SyncScopeWithDB keeps the marks orderly.
LEMMA SyncOrderly ==
    ASSUME NEW m, Orderly(m), NEW r PROVE Orderly(Sync(m, r))
  <1> DEFINE n == Sync(m, r)
  <1>0. /\ m \in [Entity -> Mark] /\ n \in [Entity -> Mark]
        /\ \A x \in Entity :
              /\ m[x] = "zero" /\ IsExplicitlyAllowed(r, x) => n[x] = "zero"
              /\ m[x] = "zero" /\ ~IsExplicitlyAllowed(r, x) => n[x] \in {"one", "null"}
              /\ m[x] # "zero" /\ Blocked(m, x) /\ IsExplicitlyAllowed(r, x) => n[x] = "zero"
              /\ m[x] # "zero" /\ ~(Blocked(m, x) /\ IsExplicitlyAllowed(r, x)) => n[x] = m[x]
    <2>1. m \in [Entity -> Mark] /\ Home \in Entity
      BY Anchors DEF Orderly
    <2> QED BY <2>1, SyncRow
  <1> HIDE DEF n
  <1>1. m \in [Entity -> Mark] /\ n \in [Entity -> Mark]
    BY <1>0
  <1>2. ASSUME NEW e \in Sub \cup Mail, n[e] # "absent" PROVE n[AnchorOf[e]] # "absent"
    <2>1. e \in Entity /\ AnchorOf[e] \in Entity
      BY Anchors
    <2>2. m[e] # "absent"
      BY <1>1, <1>2, <2>1, <1>0 DEF Blocked
    <2>3. m[AnchorOf[e]] # "absent"
      BY <2>2 DEF Orderly
    <2> QED BY <1>1, <2>1, <2>3, <1>0
  <1>3. ASSUME NEW e \in Sub, n[e] = "null" PROVE n[AnchorOf[e]] # "zero"
    <2> DEFINE a == AnchorOf[e]
    <2>1. e \in Entity /\ a \in Entity /\ ~HasAnchor(a) /\ HasAnchor(e)
      BY Anchors DEF HasAnchor
    <2>2. ~IsExplicitlyAllowed(r, e) \/ (~Blocked(m, e) /\ m[e] = "null")
      BY <1>1, <1>3, <2>1, <1>0
    <2>3. CASE ~IsExplicitlyAllowed(r, e)
      <3>1. ~IsExplicitlyAllowed(r, a)
        BY <2>3, AllowedBelow
      <3> QED BY <1>1, <2>1, <3>1, <1>0
    <2>4. CASE ~Blocked(m, e) /\ m[e] = "null"
      <3>1. m[a] # "zero"
        BY <2>4 DEF Orderly
      <3>2. ~Blocked(m, a)
        BY <2>1, <2>4 DEF Blocked
      <3> QED BY <1>1, <2>1, <3>1, <3>2, <1>0
    <2> QED BY <2>2, <2>3, <2>4
  <1> QED BY <1>1, <1>2, <1>3 DEF Orderly, n

\* SyncScopeWithDB unblocks only what a rule allows, itself or by its anchor.
LEMMA SyncUnblocks ==
    ASSUME NEW m \in [Entity -> Mark], NEW r, NEW e \in Entity,
           Blocked(m, e), ~Blocked(Sync(m, r), e)
    PROVE  IsExplicitlyAllowed(r, e) \/ (HasAnchor(e) /\ IsExplicitlyAllowed(r, AnchorOf[e]))
  <1> DEFINE n == Sync(m, r)
  <1> SUFFICES ASSUME ~IsExplicitlyAllowed(r, e)
               PROVE  HasAnchor(e) /\ IsExplicitlyAllowed(r, AnchorOf[e])
    OBVIOUS
  <1>1. m[e] # "zero" /\ n[e] = m[e]
    BY SyncRow DEF Blocked
  <1>2. m[e] = "null" /\ HasAnchor(e) /\ m[AnchorOf[e]] = "one" /\ n[AnchorOf[e]] # "one"
    BY <1>1 DEF Blocked
  <1>3. AnchorOf[e] \in Entity
    BY <1>2, Anchors DEF HasAnchor
  <1> QED BY <1>2, <1>3, SyncRow

\* SyncScopeWithDB leaves no name blocked that a rule allows.
LEMMA SyncAllows ==
    ASSUME NEW m, Orderly(m), NEW r, NEW e \in Domain \cup Sub, IsExplicitlyAllowed(r, e)
    PROVE  ~Blocked(Sync(m, r), e)
  <1> DEFINE n == Sync(m, r)
  <1>1. m \in [Entity -> Mark] /\ e \in Entity /\ e \notin Mail
    BY Anchors, ScopeAssumption DEF Orderly
  <1>2. CASE m[e] = "zero" \/ Blocked(m, e)
    <2>1. n[e] = "zero"
      BY <1>1, <1>2, SyncRow
    <2> QED BY <2>1 DEF Blocked
  <1>3. CASE m[e] # "zero" /\ ~Blocked(m, e)
    <2>1. n[e] = m[e] /\ n[e] # "one"
      BY <1>1, <1>3, SyncRow DEF Blocked
    <2>2. ASSUME n[e] = "null", HasAnchor(e) PROVE n[AnchorOf[e]] # "one"
      <3>1. e \in Sub /\ AnchorOf[e] \in Entity
        BY <1>1, <2>2, Anchors DEF HasAnchor
      <3>2. m[AnchorOf[e]] # "zero" /\ m[AnchorOf[e]] # "one"
        BY <1>3, <2>1, <2>2, <3>1 DEF Orderly, Blocked
      <3> QED BY <1>1, <3>1, <3>2, SyncRow
    <2> QED BY <2>1, <2>2 DEF Blocked
  <1> QED BY <1>2, <1>3

\* Store keeps the marks orderly.
LEMMA WrittenOrderly ==
    ASSUME NEW m, Orderly(m), NEW s \in Entity, NEW found, NEW r,
           m[s] # "absent", DOMAIN found \subseteq Entity
    PROVE  Orderly(Written(m, s, found, r))
  <1> DEFINE n == Written(m, s, found, r)
             B == {s} \cup DOMAIN found \cup AnchorsOf(DOMAIN found)
  <1>0. \A x \in Entity : n[x] = IF x \notin B THEN m[x]
                                 ELSE IF StateBlocked(m, found, r, x) THEN "one"
                                 ELSE IF m[x] = "absent" THEN "zero" ELSE m[x]
    BY DEF Written
  <1>1. m \in [Entity -> Mark] /\ n \in [Entity -> Mark]
    BY DEF Written, Orderly, Mark
  <1>2. \A x \in Entity : n[x] = "absent" <=> m[x] = "absent" /\ x \notin B
    BY <1>0
  <1>3. ASSUME NEW e \in Sub \cup Mail, n[e] # "absent" PROVE n[AnchorOf[e]] # "absent"
    <2>1. e \in Entity /\ AnchorOf[e] \in Entity /\ HasAnchor(e)
      BY Anchors DEF HasAnchor
    <2>2. CASE m[e] # "absent"
      BY <1>2, <2>1, <2>2 DEF Orderly
    <2>3. CASE e \in DOMAIN found
      <3>1. AnchorOf[e] \in B
        BY <2>1, <2>3 DEF AnchorsOf
      <3> QED BY <1>2, <2>1, <3>1
    <2>4. CASE m[e] = "absent" /\ e \notin DOMAIN found
      <3>1. e \in AnchorsOf(DOMAIN found)
        BY <1>2, <1>3, <2>1, <2>4
      <3>2. ~HasAnchor(e)
        BY <3>1, Anchors DEF AnchorsOf, HasAnchor
      <3> QED BY <2>1, <3>2
    <2> QED BY <2>2, <2>3, <2>4
  <1>4. ASSUME NEW e \in Sub, n[e] = "null" PROVE n[AnchorOf[e]] # "zero"
    <2>1. e \in Entity /\ AnchorOf[e] \in Entity
      BY Anchors
    <2>2. m[e] = "null"
      BY <1>0, <1>4, <2>1
    <2>3. m[AnchorOf[e]] # "zero" /\ m[AnchorOf[e]] # "absent"
      BY <2>2 DEF Orderly
    <2> QED BY <1>0, <2>1, <2>3
  <1> QED BY <1>1, <1>3, <1>4 DEF Orderly

\* Store unblocks nothing.
LEMMA WrittenBlocks ==
    ASSUME NEW m \in [Entity -> Mark], NEW s, NEW found, NEW r, NEW e \in Entity, Blocked(m, e)
    PROVE  Blocked(Written(m, s, found, r), e)
  <1> DEFINE n == Written(m, s, found, r)
             B == {s} \cup DOMAIN found \cup AnchorsOf(DOMAIN found)
  <1>0. \A x \in Entity : n[x] = IF x \notin B THEN m[x]
                                 ELSE IF StateBlocked(m, found, r, x) THEN "one"
                                 ELSE IF m[x] = "absent" THEN "zero" ELSE m[x]
    BY DEF Written
  <1>1. \A x \in Entity : Blocked(m, x) => n[x] = "one" \/ (x \notin B /\ n[x] = m[x])
    BY <1>0 DEF StateBlocked
  <1>2. CASE n[e] = "one"
    BY <1>2 DEF Blocked
  <1>3. CASE n[e] = m[e] /\ n[e] # "one"
    <2>1. m[e] = "null" /\ HasAnchor(e) /\ m[AnchorOf[e]] = "one"
      BY <1>3 DEF Blocked
    <2>2. AnchorOf[e] \in Entity
      BY <2>1, Anchors DEF HasAnchor
    <2>3. Blocked(m, AnchorOf[e])
      BY <2>1 DEF Blocked
    <2>4. n[AnchorOf[e]] = "one"
      BY <1>1, <2>1, <2>2, <2>3
    <2> QED BY <1>3, <2>1, <2>4 DEF Blocked
  <1> QED BY <1>1, <1>2, <1>3

-----------------------------------------------------------------------------
(* The invariant                                                           *)

\* IInv, project by project.
LEMMA IInvOrderly ==
    IInv <=> /\ mark \in [Project -> [Entity -> Mark]]
             /\ node \in [Project -> SUBSET Entity]
             /\ WorkStored /\ Fresh
             /\ \A p \in Project : Orderly(mark[p])
  BY DEF IInv, Orderly, RowAnchored, InheritsNoAllow

LEMMA InitIInv == Init => IInv
  BY Anchors DEF Init, IInv, Mark, WorkStored, Fresh, RowAnchored, InheritsNoAllow

\* A step that synchronises p or leaves the marks alone, and dispatches only
\* what is pending.
LEMMA SyncStep ==
    ASSUME IInv, NEW p \in Project, LoadAndSync(p), node[p] # {}
    PROVE  /\ mark' \in [Project -> [Entity -> Mark]]
           /\ node' \in [Project -> SUBSET Entity]
           /\ \A q \in Project : Orderly(mark'[q])
           /\ \A q \in Project : \A e \in node'[q] : mark'[q][e] # "absent"
           /\ Fresh'
  <1>1. node' = node /\ (mark' = mark \/ mark' = [mark EXCEPT ![p] = Sync(@, file)])
    BY DEF LoadAndSync
  <1>2. CASE mark' = mark
    BY <1>1, <1>2, IInvOrderly DEF Fresh, WorkStored
  <1>3. CASE mark' = [mark EXCEPT ![p] = Sync(@, file)]
    <2>1. mark[p] \in [Entity -> Mark] /\ Orderly(mark[p])
      BY IInvOrderly
    <2>2. Orderly(Sync(mark[p], file))
      BY <2>1, SyncOrderly
    <2>3. \A q \in Project : mark'[q] = IF q = p THEN Sync(mark[p], file) ELSE mark[q]
      BY <1>3, IInvOrderly
    <2>4. mark' \in [Project -> [Entity -> Mark]]
      BY <1>3, <2>2, IInvOrderly DEF Orderly
    <2>5. \A e \in Entity : mark[p][e] # "absent" => mark'[p][e] # "absent"
      BY <2>1, <2>3, SyncRow
    <2>6. \A q \in Project : \A e \in node'[q] : mark'[q][e] # "absent"
      BY <1>1, <2>3, <2>5, IInvOrderly DEF WorkStored
    <2>7. Fresh'
      BY <1>1, <2>3, IInvOrderly DEF Fresh
    <2> QED BY <1>1, <2>2, <2>3, <2>4, <2>6, <2>7, IInvOrderly
  <1> QED BY <1>1, <1>2, <1>3

LEMMA StepIInv == IInv /\ [Next]_vars => IInv'
  <1> SUFFICES ASSUME IInv, [Next]_vars PROVE IInv' OBVIOUS
  <1> DEFINE Stored == \A q \in Project : \A e \in node[q] : mark[q][e] # "absent"
             Dispatched == \A e \in work : running \in Project /\ e \in node[running]
  <1>0. WorkStored <=> Stored /\ Dispatched
    BY DEF WorkStored
  <1>1. CASE EditFile \/ ValidateTarget \/ Back \/ UNCHANGED vars
    <2>1. UNCHANGED <<mark, node, work, running>>
      BY <1>1 DEF EditFile, ValidateTarget, Back, vars
    <2> QED BY <2>1 DEF IInv, WorkStored, Fresh, RowAnchored, InheritsNoAllow
  <1>2. ASSUME Restart \/ \E p \in Project : CheckFails(p) PROVE IInv'
    <2>1. UNCHANGED <<mark, node>> /\ work' = {}
      BY <1>2 DEF Restart, CheckFails
    <2> QED BY <2>1 DEF IInv, WorkStored, Fresh, RowAnchored, InheritsNoAllow
  <1>3. ASSUME NEW p \in Project, ProjectStatus(p) PROVE IInv'
    <2>1. LoadAndSync(p) /\ node[p] # {} /\ node' = node /\ UNCHANGED <<work, running>>
      BY <1>3 DEF ProjectStatus, LoadAndSync
    <2>2. Dispatched'
      BY <1>0, <2>1, IInvOrderly
    <2> QED BY <2>1, <2>2, SyncStep DEF IInv, WorkStored, Orderly, RowAnchored, InheritsNoAllow
  <1>4. ASSUME NEW p \in Project, CheckAndResumeScope(p) \/ ResumeFails(p) PROVE IInv'
    <2>1. LoadAndSync(p) /\ node' = node /\ work' \subseteq node'[p]
          /\ (work' # {} => running' = p)
      BY <1>4 DEF CheckAndResumeScope, ResumeFails, LoadAndSync, Pending
    <2>2. Dispatched'
      BY <2>1
    <2>3. CASE node[p] # {}
      BY <2>1, <2>2, <2>3, SyncStep DEF IInv, WorkStored, Orderly, RowAnchored, InheritsNoAllow
    <2>4. CASE node[p] = {}
      <3>1. mark[p] \in [Entity -> Mark] /\ \A e \in Entity : mark[p][e] = "absent"
        BY <2>4 DEF IInv, Fresh
      <3>2. \A e \in Entity : Sync(mark[p], file)[e] = mark[p][e]
        BY <3>1, SyncRow DEF Blocked
      <3>3. Sync(mark[p], file) \in [Entity -> Mark]
        BY <3>1, Anchors, SyncRow
      <3>4. Sync(mark[p], file) = mark[p]
        BY <3>1, <3>2, <3>3
      <3>5. mark' = mark
        BY <2>1, <3>4 DEF LoadAndSync, IInv
      <3> QED BY <2>1, <2>2, <3>5 DEF IInv, WorkStored, Fresh, RowAnchored, InheritsNoAllow
    <2> QED BY <2>3, <2>4
  <1>5. ASSUME NEW p \in Project, NewProject(p) PROVE IInv'
    <2>1. /\ \A e \in Entity : mark[p][e] = "absent"
          /\ mark' = [mark EXCEPT ![p][Home] = "null"]
          /\ node' = [node EXCEPT ![p] = {Home}]
          /\ running' = p /\ work' = {Home}
      BY <1>5 DEF NewProject, IInv, Fresh
    <2>2. mark' \in [Project -> [Entity -> Mark]] /\ node' \in [Project -> SUBSET Entity]
      BY <2>1, Anchors DEF IInv, Mark
    <2>3. \A q \in Project, e \in Entity :
             mark'[q][e] = IF q = p /\ e = Home THEN "null" ELSE mark[q][e]
      BY <2>1 DEF IInv
    <2>4. \A q \in Project : node'[q] = IF q = p THEN {Home} ELSE node[q]
      BY <2>1 DEF IInv
    <2>5. WorkStored' /\ Fresh'
      BY <2>1, <2>3, <2>4, Anchors DEF IInv, WorkStored, Fresh
    <2>6. RowAnchored' /\ InheritsNoAllow'
      BY <2>1, <2>3, Anchors DEF IInv, RowAnchored, InheritsNoAllow, HasAnchor
    <2> QED BY <2>2, <2>5, <2>6 DEF IInv
  <1>6. ASSUME NEW p \in Project, StartRun(p) PROVE IInv'
    <2>1. UNCHANGED <<mark, node>> /\ work' \subseteq node[p] /\ running' = p
      BY <1>6 DEF StartRun
    <2> QED BY <2>1 DEF IInv, WorkStored, Fresh, RowAnchored, InheritsNoAllow
  <1>7. ASSUME NEW p \in Project, NEW s \in work, NEW found \in Packets,
                     NEW answered \in SUBSET DOMAIN found, Store(p, s, found, answered)
        PROVE  IInv'
    <2> DEFINE w == Written(mark[p], s, found, mem)
    <2>1. /\ running = p /\ running' = p /\ mark' = [mark EXCEPT ![p] = w]
          /\ node' = [node EXCEPT ![p] = @ \cup {s} \cup DOMAIN found]
          /\ work' \subseteq work \cup DOMAIN found
      BY <1>7 DEF Store
    <2>2. DOMAIN found \subseteq Entity
      BY DEF Packets
    <2>3. s \in node[p] /\ s \in Entity /\ mark[p][s] # "absent" /\ mark[p] \in [Entity -> Mark]
      BY <2>1 DEF IInv, WorkStored
    <2>4. Orderly(mark[p])
      BY IInvOrderly
    <2>5. Orderly(w)
      BY <2>2, <2>3, <2>4, WrittenOrderly
    <2>6. \A e \in Entity : (e \in {s} \cup DOMAIN found \/ mark[p][e] # "absent") => w[e] # "absent"
      BY DEF Written
    <2> HIDE DEF w
    <2>7. \A q \in Project : mark'[q] = IF q = p THEN w ELSE mark[q]
      BY <2>1 DEF IInv
    <2>12. node'[p] = node[p] \cup {s} \cup DOMAIN found
           /\ \A q \in Project \ {p} : node'[q] = node[q]
      BY <2>1 DEF IInv
    <2>8. mark' \in [Project -> [Entity -> Mark]] /\ node' \in [Project -> SUBSET Entity]
      BY <2>1, <2>2, <2>3, <2>5 DEF IInv, Orderly
    <2>9. Stored' /\ Dispatched'
      <3>1. \A e \in node'[p] : mark'[p][e] # "absent"
        BY <2>2, <2>3, <2>6, <2>7, <2>12 DEF IInv, WorkStored
      <3>2. \A q \in Project \ {p} : \A e \in node'[q] : mark'[q][e] # "absent"
        BY <2>7, <2>12 DEF IInv, WorkStored
      <3>3. Dispatched'
        BY <2>1, <2>12 DEF IInv, WorkStored
      <3> QED BY <3>1, <3>2, <3>3
    <2>10. Fresh'
      <3>1. node'[p] # {}
        BY <2>12
      <3>2. \A q \in Project \ {p} : mark'[q] = mark[q] /\ node'[q] = node[q]
        BY <2>7, <2>12
      <3>3. ASSUME NEW q \in Project, node'[q] = {} PROVE \A e \in Entity : mark'[q][e] = "absent"
        BY <3>1, <3>2, <3>3 DEF IInv, Fresh
      <3> QED BY <3>3 DEF Fresh
    <2>11. \A q \in Project : Orderly(mark'[q])
      <3>1. \A q \in Project : Orderly(mark[q])
        BY IInvOrderly
      <3> QED BY <2>5, <2>7, <3>1
    <2> QED BY <2>8, <2>9, <2>10, <2>11 DEF IInv, WorkStored, Orderly, RowAnchored, InheritsNoAllow
  <1> QED BY <1>1, <1>2, <1>3, <1>4, <1>5, <1>6, <1>7 DEF Next

\* The marks are orderly in every reachable state.
THEOREM OrderlyMarks == Spec => []IInv
  BY InitIInv, StepIInv, PTL DEF Spec

\* Types: the rules come from the files, and a run is a run of a project.
THEOREM TypeCorrect == Spec => []TypeOK
  <1>1. Init => TypeOK
    BY Anchors DEF Init, TypeOK, Mark
  <1>2. TypeOK /\ IInv' /\ [Next]_vars => TypeOK'
    <2> SUFFICES ASSUME TypeOK, IInv', [Next]_vars PROVE TypeOK' OBVIOUS
    <2>1. mark' \in [Project -> [Entity -> Mark]] /\ node' \in [Project -> SUBSET Entity]
      BY DEF IInv
    <2>2. work' \subseteq Entity
      BY <2>1 DEF IInv, WorkStored
    <2> USE <2>1, <2>2 DEF TypeOK
    <2>3. CASE EditFile \/ ValidateTarget \/ Back \/ Restart \/ UNCHANGED vars
      BY <2>3 DEF EditFile, ValidateTarget, Back, Restart, vars
    <2>4. ASSUME NEW p \in Project, ProjectStatus(p) \/ CheckAndResumeScope(p) \/ ResumeFails(p)
          PROVE  TypeOK'
      BY <2>4 DEF ProjectStatus, CheckAndResumeScope, ResumeFails, LoadAndSync, SyncedAfterLoad
    <2>5. ASSUME NEW p \in Project, NewProject(p) \/ CheckFails(p) PROVE TypeOK'
      BY <2>5 DEF NewProject, CheckFails, SyncedAfterLoad
    <2>6. ASSUME NEW p \in Project, StartRun(p) PROVE TypeOK'
      <3>1. logged' \in [Project -> SUBSET Entity]
        BY <2>6 DEF StartRun
      <3> QED BY <2>6, <3>1 DEF StartRun
    <2>7. ASSUME NEW p \in Project, NEW s \in work, NEW found \in Packets,
                 NEW answered \in SUBSET DOMAIN found, Store(p, s, found, answered)
          PROVE  TypeOK'
      <3>1. DOMAIN found \subseteq Entity
        BY DEF Packets
      <3> QED BY <2>7, <3>1 DEF Store
    <2> QED BY <2>3, <2>4, <2>5, <2>6, <2>7 DEF Next
  <1> QED BY <1>1, <1>2, OrderlyMarks, PTL DEF Spec

-----------------------------------------------------------------------------
(* Action properties                                                       *)

\* A row out of scope comes back only by an allow rule for it or its anchor.
THEOREM UnblockedByAllow == Spec => UnblockedOnlyByAllow
  <1> DEFINE Allowed(e) == \/ IsExplicitlyAllowed(mem', e)
                           \/ HasAnchor(e) /\ IsExplicitlyAllowed(mem', AnchorOf[e])
             A == \A p \in Project, e \in Entity :
                      Blocked(mark[p], e) /\ ~Blocked(mark'[p], e) => Allowed(e)
  <1>1. IInv /\ [Next]_vars => [A]_vars
    <2> SUFFICES ASSUME IInv, Next, NEW p \in Project, NEW e \in Entity,
                        Blocked(mark[p], e), ~Blocked(mark'[p], e)
                 PROVE  Allowed(e)
      OBVIOUS
    <2>1. mark[p] \in [Entity -> Mark] /\ mark'[p] # mark[p]
      BY DEF IInv
    <2>2. ASSUME NEW q \in Project, LoadAndSync(q) PROVE Allowed(e)
      <3>1. mem' = file /\ mark'[p] = Sync(mark[p], file)
        BY <2>1, <2>2 DEF LoadAndSync, IInv
      <3> QED BY <2>1, <3>1, SyncUnblocks
    <2>3. ASSUME NEW q \in Project, NewProject(q) PROVE FALSE
      <3>1. q = p
        BY <2>1, <2>3 DEF NewProject, IInv
      <3>2. mark[p][e] = "absent"
        BY <2>3, <3>1 DEF NewProject, IInv, Fresh
      <3>3. e \notin Sub \cup Mail \/ mark[p][e] # "null"
        BY <3>2
      <3> QED BY <3>2 DEF Blocked
    <2>4. ASSUME NEW q \in Project, NEW s \in work, NEW found \in Packets,
                 NEW answered \in SUBSET DOMAIN found, Store(q, s, found, answered)
          PROVE  FALSE
      <3>1. mark'[p] = Written(mark[p], s, found, mem)
        BY <2>1, <2>4 DEF Store, IInv
      <3> QED BY <2>1, <3>1, WrittenBlocks
    <2>5. ASSUME \/ EditFile \/ ValidateTarget \/ Back \/ Restart
                 \/ \E q \in Project : StartRun(q) \/ CheckFails(q)
          PROVE  FALSE
      BY <2>1, <2>5 DEF EditFile, ValidateTarget, Back, Restart, StartRun, CheckFails
    <2> QED BY <2>2, <2>3, <2>4, <2>5 DEF Next, ProjectStatus, CheckAndResumeScope, ResumeFails
  <1>2. Spec => [][A]_vars
    BY <1>1, OrderlyMarks, PTL DEF Spec
  <1> QED BY <1>2 DEF UnblockedOnlyByAllow

\* A synchronisation leaves no name blocked that an allow rule covers.
THEOREM SyncRespectsAllow == Spec => AllowedTakesPrecedence
  <1> DEFINE A == \A p \in Project : Syncs(p) =>
                     \A e \in Domain \cup Sub :
                        IsExplicitlyAllowed(mem', e) => ~Blocked(mark'[p], e)
  <1>1. IInv => [A]_vars
    <2> SUFFICES ASSUME IInv, NEW p \in Project, Syncs(p),
                        NEW e \in Domain \cup Sub, IsExplicitlyAllowed(mem', e)
                 PROVE  ~Blocked(mark'[p], e)
      OBVIOUS
    <2>1. mem' = file /\ mark'[p] = Sync(mark[p], file)
      BY DEF Syncs, ProjectStatus, CheckAndResumeScope, ResumeFails, LoadAndSync, IInv
    <2>2. Orderly(mark[p])
      BY IInvOrderly
    <2> QED BY <2>1, <2>2, SyncAllows
  <1>2. Spec => [][A]_vars
    BY <1>1, OrderlyMarks, PTL DEF Spec
  <1> QED BY <1>2 DEF AllowedTakesPrecedence

-----------------------------------------------------------------------------
(* Nothing is left behind                                                  *)

\* During a run all that is pending has been dispatched.
PendingDispatched == \A p \in Project : running = p => Pending(p) \subseteq work

\* SyncScopeWithDB unblocks nothing when no rule allows a blocked row: a row that
\* inherits its block inherits it from such a row.
LEMMA SyncUnblocksNoneElse ==
    ASSUME NEW m \in [Entity -> Mark], NEW r, Unblocked(m, r) = {},
           NEW e \in Entity, Blocked(m, e)
    PROVE  Blocked(Sync(m, r), e)
  <1> DEFINE n == Sync(m, r)
  <1>1. ASSUME NEW x \in Entity, Blocked(m, x) PROVE m[x] # "zero" /\ n[x] = m[x]
    <2>1. ~IsExplicitlyAllowed(r, x) /\ m[x] # "zero"
      BY <1>1 DEF Unblocked, Blocked
    <2> QED BY <1>1, <2>1, SyncRow
  <1>2. CASE m[e] = "one"
    BY <1>1, <1>2 DEF Blocked
  <1>3. CASE m[e] = "null" /\ HasAnchor(e) /\ m[AnchorOf[e]] = "one"
    <2>1. AnchorOf[e] \in Entity /\ Blocked(m, AnchorOf[e])
      BY <1>3, Anchors DEF HasAnchor, Blocked
    <2>2. n[e] = "null" /\ n[AnchorOf[e]] = "one"
      BY <1>1, <1>3, <2>1
    <2> QED BY <1>3, <2>2 DEF Blocked
  <1> QED BY <1>2, <1>3 DEF Blocked

\* What a packet adds to what is pending is dispatched with it.
LEMMA StoreDispatches ==
    ASSUME IInv, PendingDispatched, NEW p \in Project, NEW s \in work,
           NEW found \in Packets, NEW answered \in SUBSET DOMAIN found,
           Store(p, s, found, answered), logged \in [Project -> SUBSET Entity]
    PROVE  Pending(p)' \subseteq work'
  <1> SUFFICES ASSUME NEW e \in node'[p], ~Blocked(mark'[p], e), e \notin logged'[p]
               PROVE  e \in work'
    BY DEF Pending
  <1>1. /\ mark[p] \in [Entity -> Mark] /\ mark'[p] = Written(mark[p], s, found, mem)
        /\ node[p] \subseteq Entity /\ node'[p] = node[p] \cup {s} \cup DOMAIN found
        /\ logged'[p] = logged[p] \cup {s} \cup answered
    BY DEF Store, IInv
  <1>2. DOMAIN found \subseteq Entity /\ e # s /\ e \notin logged[p]
    BY <1>1 DEF Packets
  <1>3. CASE e \in node[p]
    <2>1. ~Blocked(mark[p], e)
      BY <1>1, <1>3, WrittenBlocks
    <2>2. e \in work
      BY <1>2, <1>3, <2>1 DEF Pending, PendingDispatched, Store
    <2> QED BY <2>2 DEF Store
  <1>4. CASE e \in DOMAIN found
    <2>1. ~StateBlocked(mark[p], found, mem, e)
      BY <1>1, <1>2, <1>4 DEF Written, Blocked
    <2> QED BY <1>4, <2>1 DEF Store
  <1> QED BY <1>1, <1>2, <1>3, <1>4

LEMMA StepPending ==
    ASSUME TypeOK, IInv, PendingDispatched, [Next]_vars PROVE PendingDispatched'
  <1> SUFFICES ASSUME NEW p \in Project, running' = p PROVE Pending(p)' \subseteq work'
    BY DEF PendingDispatched
  <1>0. p # None
    BY ScopeAssumption
  <1>1. CASE EditFile \/ ValidateTarget \/ Back \/ UNCHANGED vars
    BY <1>1 DEF EditFile, ValidateTarget, Back, vars, PendingDispatched, Pending
  <1>2. CASE Restart
    BY <1>0, <1>2 DEF Restart
  <1>3. ASSUME NEW q \in Project, ProjectStatus(q) \/ CheckFails(q) \/ ResumeFails(q)
        PROVE  FALSE
    BY <1>0, <1>3 DEF ProjectStatus, CheckFails, ResumeFails
  <1>4. ASSUME NEW q \in Project, CheckAndResumeScope(q) PROVE Pending(p)' \subseteq work'
    BY <1>0, <1>4 DEF CheckAndResumeScope
  <1>5. ASSUME NEW q \in Project, NewProject(q) PROVE Pending(p)' \subseteq work'
    <2>1. q = p /\ node'[p] = {Home} /\ work' = {Home}
      BY <1>5 DEF NewProject, IInv
    <2> QED BY <2>1 DEF Pending
  <1>6. ASSUME NEW q \in Project, StartRun(q) PROVE Pending(p)' \subseteq work'
    BY <1>6 DEF StartRun, Pending
  <1>7. ASSUME NEW q \in Project, NEW s \in work, NEW found \in Packets,
               NEW answered \in SUBSET DOMAIN found, Store(q, s, found, answered)
        PROVE  Pending(p)' \subseteq work'
    <2>1. q = p
      BY <1>7 DEF Store
    <2> QED BY <1>7, <2>1, StoreDispatches DEF TypeOK
  <1> QED BY <1>1, <1>2, <1>3, <1>4, <1>5, <1>6, <1>7 DEF Next

\* When CheckAndResumeScope lets a run end, no entity in scope is waiting for a function.
THEOREM NothingIsLeft == Spec => RunLeavesNothing
  <1> DEFINE A == \A p \in Project :
                      CheckAndResumeScope(p) /\ running' = None => Pending(p)' = {}
  <1>1. Init => PendingDispatched
    BY ScopeAssumption DEF Init, PendingDispatched
  <1>2. IInv /\ PendingDispatched => [A]_vars
    <2> SUFFICES ASSUME IInv, PendingDispatched, NEW p \in Project,
                        CheckAndResumeScope(p), running' = None
                 PROVE  Pending(p)' = {}
      OBVIOUS
    <2>0. p # None
      BY ScopeAssumption
    <2>1. /\ Pending(p) = {} /\ mark[p] \in [Entity -> Mark] /\ node[p] \subseteq Entity
          /\ node' = node /\ logged' = logged
      BY DEF PendingDispatched, CheckAndResumeScope, LoadAndSync, IInv
    <2>2. CASE p \in SyncedAfterLoad
      <3>1. mark' = mark
        BY <2>2 DEF CheckAndResumeScope, LoadAndSync
      <3> QED BY <2>1, <3>1 DEF Pending
    <2>3. CASE p \notin SyncedAfterLoad /\ Unblocked(mark[p], file) = {}
      <3>1. mark'[p] = Sync(mark[p], file)
        BY <2>3 DEF CheckAndResumeScope, LoadAndSync, IInv
      <3>2. \A e \in node[p] : Blocked(mark[p], e) => Blocked(mark'[p], e)
        BY <2>1, <2>3, <3>1, SyncUnblocksNoneElse
      <3> QED BY <2>1, <3>2 DEF Pending
    <2>4. CASE p \notin SyncedAfterLoad /\ Unblocked(mark[p], file) # {}
      BY <2>0, <2>4 DEF CheckAndResumeScope
    <2> QED BY <2>2, <2>3, <2>4
  <1>3. Spec => []PendingDispatched
    BY <1>1, StepPending, OrderlyMarks, TypeCorrect, PTL DEF Spec
  <1>4. Spec => [][A]_vars
    BY <1>2, <1>3, OrderlyMarks, PTL DEF Spec
  <1> QED BY <1>4 DEF RunLeavesNothing
=============================================================================
