----------------------------- MODULE ScopeSync -----------------------------
(***************************************************************************)
(* Scope rules and scope marks.  The rules live in files the user may edit *)
(* at any time; scopemanager.Load copies them to memory; the controller    *)
(* brings the marks of a project's entities (the column out_of_scope) in   *)
(* step with the rules in memory and remembers in syncedProjects that it   *)
(* did.  While a project runs, Store writes marks and hands entities that  *)
(* are in scope to the dispatcher.                                         *)
(*                                                                         *)
(* A rule names a domain or an e-mail address; addresses of other types    *)
(* (IP ranges, AS numbers) and entity depths are left out.  All functions  *)
(* of an entity are one: an entity is answered once, by one packet, and is *)
(* then in the function log.                                               *)
(***************************************************************************)
EXTENDS Integers, FiniteSets

CONSTANTS
    Domain,      \* entities of type domain
    Sub,         \* entities of type subdomain
    Mail,        \* entities of type email
    Home,        \* the initial target, row 1 of every project database
    AnchorOf,    \* the organisational domain of a subdomain or an address
    RuleSets,    \* what the scope files may say: blocked and allowed names
    Project,     \* project databases
    None,        \* no project
    MaxEdits,    \* bound on the edits of the scope files
    MaxResults   \* bound on the results of a packet

Entity == Domain \cup Sub \cup Mail
Mark == {"absent", "null", "zero", "one"}

ASSUME ScopeAssumption ==
    /\ Home \in Domain
    /\ Domain \cap (Sub \cup Mail) = {} /\ Sub \cap Mail = {}
    /\ AnchorOf \in [Sub \cup Mail -> Domain]
    /\ RuleSets \subseteq [block : SUBSET Entity, allow : SUBSET Entity]
    /\ None \notin Project

VARIABLES
    file,     \* the rules in the scope files
    mem,      \* the rules in memory
    edits,    \* edits made so far
    synced,   \* syncedProjects
    mark,     \* out_of_scope of each row, "absent" when there is no row
    node,     \* rows with is_anchor = 0
    logged,   \* entities in the function log
    screen,   \* currentProjID, the project whose menu is open
    running,  \* the project the pipeline works on
    work,     \* entities dispatched and not yet answered
    applied   \* history: the rules a project was last brought in step with

vars == <<file, mem, edits, synced, mark, node, logged, screen, running, work,
          applied>>

-----------------------------------------------------------------------------
(* scopemanager                                                            *)

\* The rule of the most specific name wins; only names have a suffix.
IsOutOfScope(r, e) ==
    /\ e \notin r.allow
    /\ \/ e \in r.block
       \/ e \in Sub /\ AnchorOf[e] \in r.block \ r.allow

IsExplicitlyAllowed(r, e) ==
    e \in r.allow \/ (e \in Sub /\ AnchorOf[e] \in r.allow)

-----------------------------------------------------------------------------
(* The marks of one project: m \in [Entity -> Mark]                        *)

HasAnchor(e) == e \in Sub \cup Mail

\* COALESCE(e.out_of_scope, a.out_of_scope, 0) = 1
Blocked(m, e) ==
    \/ m[e] = "one"
    \/ m[e] = "null" /\ HasAnchor(e) /\ m[AnchorOf[e]] = "one"

\* GetResumePayload with resumePending.
Pending(p) ==
    {e \in node[p] : ~Blocked(mark[p], e) /\ e \notin logged[p]}

SyncUnblocksUnlisted(m, r) ==
    [e \in Entity |->
        CASE m[e] = "zero" /\ ~IsExplicitlyAllowed(r, e) ->
                 IF IsOutOfScope(r, e) THEN "one" ELSE "null"
          [] Blocked(m, e) /\ ~IsOutOfScope(r, e) -> "zero"
          [] OTHER -> m[e]]

SyncForgetsZero(m, r) ==
    [e \in Entity |->
        CASE m[e] = "zero" /\ ~IsExplicitlyAllowed(r, e) ->
                 IF IsOutOfScope(r, e) THEN "one" ELSE "null"
          [] Blocked(m, e) /\ IsExplicitlyAllowed(r, e) -> "null"
          [] OTHER -> m[e]]

\* SyncScopeWithDB: rows marked 0 that no rule allows become 1 or NULL, and
\* blocked rows that a rule allows become 0.
Sync(m, r) ==
    [e \in Entity |->
        CASE m[e] = "zero" /\ ~IsExplicitlyAllowed(r, e) ->
                 IF IsOutOfScope(r, e) THEN "one" ELSE "null"
          [] Blocked(m, e) /\ IsExplicitlyAllowed(r, e) -> "zero"
          [] OTHER -> m[e]]

Unblocked(m, r) == {e \in Entity : Blocked(m, e) /\ IsExplicitlyAllowed(r, e)}

-----------------------------------------------------------------------------
(* Store.  A packet is a function from the entities found to BOOLEAN: what *)
(* the module says of OutOfScope.                                          *)

Packets == UNION {[T -> BOOLEAN] : T \in {S \in SUBSET Entity : Cardinality(S) <= MaxResults}}

\* The Processor: an allow rule overrules the module, a block rule adds to it.
OutOfScope(found, r, t) ==
    \/ found[t] /\ ~IsExplicitlyAllowed(r, t)
    \/ IsOutOfScope(r, t)

AnchorsOf(T) == {AnchorOf[t] : t \in {u \in T : HasAnchor(u)}}

\* The state of a node of the batch before it is written.  A subdomain that
\* is out of scope takes its anchor along, except that below row 1 neither
\* is marked.
StateBlocked(m, found, r, x) ==
    \/ Blocked(m, x)
    \/ /\ x \in DOMAIN found
       /\ OutOfScope(found, r, x)
       /\ x \in Sub => AnchorOf[x] # Home
    \/ \E t \in Sub \cap DOMAIN found :
           AnchorOf[t] = x /\ x # Home /\ OutOfScope(found, r, t)

\* The upserts: out_of_scope OR excluded.out_of_scope, where NULL OR 0 is NULL.
Written(m, s, found, r) ==
    [x \in Entity |->
        IF x \notin {s} \cup DOMAIN found \cup AnchorsOf(DOMAIN found) THEN m[x]
        ELSE IF StateBlocked(m, found, r, x) THEN "one"
        ELSE IF m[x] = "absent" THEN "zero" ELSE m[x]]

-----------------------------------------------------------------------------
Init ==
    /\ file \in RuleSets /\ mem = file
    /\ edits = 0
    /\ synced = {}
    /\ mark = [p \in Project |-> [e \in Entity |-> "absent"]]
    /\ node = [p \in Project |-> {}]
    /\ logged = [p \in Project |-> {}]
    /\ screen = None /\ running = None /\ work = {}
    /\ applied = [p \in Project |-> None]

\* The user edits the scope files.
EditFile ==
    /\ edits < MaxEdits
    /\ edits' = edits + 1
    /\ file' \in RuleSets \ {file}
    /\ UNCHANGED <<mem, synced, mark, node, logged, screen, running, work, applied>>

\* syncedProjects after a Load that reports whether the rules have changed.
SyncedAfterLoad == IF file # mem THEN {} ELSE synced

\* Load and, for a project that is not known to be in step, SyncScopeWithDB.
LoadAndSync(p) ==
    /\ mem' = file
    /\ synced' = SyncedAfterLoad \cup {p}
    /\ IF p \in SyncedAfterLoad
       THEN UNCHANGED <<mark, applied>>
       ELSE /\ mark' = [mark EXCEPT ![p] = Sync(@, file)]
            /\ applied' = [applied EXCEPT ![p] = file]
    /\ UNCHANGED <<file, edits, node, logged>>

\* GetProjectStatus, when the menu of a project is shown.
ProjectStatus(p) ==
    /\ running = None /\ screen \in {None, p} /\ node[p] # {}
    /\ LoadAndSync(p)
    /\ screen' = p
    /\ UNCHANGED <<running, work>>

\* ValidateTarget for a target that is then refused or not used: Load, whose
\* report of a change is dropped.
ValidateTarget ==
    /\ running = None /\ file # mem
    /\ mem' = file
    /\ UNCHANGED <<file, edits, synced, mark, node, logged, screen, running, work, applied>>

\* Back to the choice of a target: ClearActiveProject.
Back ==
    /\ running = None /\ screen # None
    /\ screen' = None
    /\ UNCHANGED <<file, mem, edits, synced, mark, node, logged, running, work, applied>>

\* CreateNewProject, whose first row is the target, and the start of its run.
NewProject(p) ==
    /\ running = None /\ screen = None /\ node[p] = {}
    /\ mem' = file /\ ~IsOutOfScope(file, Home)
    /\ mark' = [mark EXCEPT ![p][Home] = "null"]
    /\ node' = [node EXCEPT ![p] = {Home}]
    /\ screen' = p /\ running' = p /\ work' = {Home}
    /\ UNCHANGED <<file, edits, synced, logged, applied>>

\* A run of a project: of what is pending, or of everything when the user has
\* ResetProjectLog forget the log first.
StartRun(p) ==
    /\ running = None /\ screen = p
    /\ mem' = file /\ ~IsOutOfScope(file, Home)
    /\ \/ UNCHANGED logged
       \/ logged' = [logged EXCEPT ![p] = {}]
    /\ work' = {e \in node[p] : ~Blocked(mark[p], e) /\ e \notin logged'[p]}
    /\ work' # {}
    /\ running' = p
    /\ UNCHANGED <<file, edits, synced, mark, node, screen, applied>>

\* Store writes the packet of a dispatched entity, with the log of that entity
\* and of those found that the module answered for as well (Applied), and
\* returns what it found; the dispatcher passes over what is out of scope or
\* was answered before.
Store(p, s, found, answered) ==
    /\ running = p /\ s \in work
    /\ mark' = [mark EXCEPT ![p] = Written(@, s, found, mem)]
    /\ node' = [node EXCEPT ![p] = @ \cup {s} \cup DOMAIN found]
    /\ logged' = [logged EXCEPT ![p] = @ \cup {s} \cup answered]
    /\ work' = (work \cup {t \in DOMAIN found : ~StateBlocked(mark[p], found, mem, t)})
                   \ logged'[p]
    /\ UNCHANGED <<file, mem, edits, synced, screen, running, applied>>

CheckNeverResumes(p) ==
    /\ running = p /\ work = {}
    /\ LoadAndSync(p)
    /\ UNCHANGED <<screen, work>>
    /\ running' = None

\* CheckAndResumeScope, when nothing is left to do: the run goes on when the
\* synchronisation unblocked something and anything is pending.
CheckAndResumeScope(p) ==
    /\ running = p /\ work = {}
    /\ LoadAndSync(p)
    /\ work' = IF p \notin SyncedAfterLoad /\ Unblocked(mark[p], file) # {}
               THEN Pending(p)' ELSE {}
    /\ running' = IF work' = {} THEN None ELSE p
    /\ UNCHANGED screen

\* Its error returns: Load fails, or the synchronisation does.
CheckFails(p) ==
    /\ running = p /\ work = {}
    /\ \/ UNCHANGED <<mem, synced>>
       \/ mem' = file /\ synced' = SyncedAfterLoad /\ p \notin synced'
    /\ running' = None
    /\ UNCHANGED <<file, edits, mark, node, logged, screen, work, applied>>

\* The last of them: what was unblocked cannot be read back.
ResumeFails(p) ==
    /\ running = p /\ work = {}
    /\ p \notin SyncedAfterLoad /\ Unblocked(mark[p], file) # {}
    /\ LoadAndSync(p)
    /\ running' = None
    /\ UNCHANGED <<screen, work>>

\* The process ends, at any point, and is started again: Setup loads the rules.
Restart ==
    /\ mem' = file
    /\ synced' = {} /\ screen' = None /\ running' = None /\ work' = {}
    /\ UNCHANGED <<file, edits, mark, node, logged, applied>>

Next ==
    \/ EditFile \/ ValidateTarget \/ Back \/ Restart
    \/ \E p \in Project :
        \/ ProjectStatus(p) \/ NewProject(p) \/ StartRun(p)
        \/ CheckAndResumeScope(p) \/ CheckFails(p) \/ ResumeFails(p)
        \/ \E s \in work, found \in Packets :
               \E answered \in SUBSET DOMAIN found : Store(p, s, found, answered)

Spec == Init /\ [][Next]_vars

-----------------------------------------------------------------------------
(* Properties                                                              *)

TypeOK ==
    /\ file \in RuleSets /\ mem \in RuleSets
    /\ synced \subseteq Project
    /\ mark \in [Project -> [Entity -> Mark]]
    /\ node \in [Project -> SUBSET Entity]
    /\ logged \in [Project -> SUBSET Entity]
    /\ screen \in Project \cup {None} /\ running \in Project \cup {None}
    /\ work \subseteq Entity

\* What the marks always satisfy: what is dispatched has a row, a project that
\* was not created has none, the anchor of a row has a row, and a subdomain
\* that inherits (NULL) never inherits from an anchor that was allowed (0): a
\* synchronisation that takes an allow rule from an anchor would block the
\* subdomain behind the back of a rule that allows it.
WorkStored ==
    /\ \A p \in Project : \A e \in node[p] : mark[p][e] # "absent"
    /\ \A e \in work : running \in Project /\ e \in node[running]

Fresh == \A p \in Project : node[p] = {} => \A e \in Entity : mark[p][e] = "absent"

RowAnchored == \A p \in Project, e \in Sub \cup Mail :
    mark[p][e] # "absent" => mark[p][AnchorOf[e]] # "absent"

InheritsNoAllow == \A p \in Project, e \in Sub :
    mark[p][e] = "null" => mark[p][AnchorOf[e]] # "zero"

IInv ==
    /\ mark \in [Project -> [Entity -> Mark]]
    /\ node \in [Project -> SUBSET Entity]
    /\ WorkStored /\ Fresh /\ RowAnchored /\ InheritsNoAllow

\* A row that is out of scope, for whatever reason, comes back only when a
\* rule in memory allows it or its anchor by name: neither a rescan, nor a
\* packet, nor the removal of the rule that blocked it lets it in.
UnblockedOnlyByAllow ==
    [][\A p \in Project, e \in Entity :
           Blocked(mark[p], e) /\ ~Blocked(mark'[p], e) =>
               \/ IsExplicitlyAllowed(mem', e)
               \/ HasAnchor(e) /\ IsExplicitlyAllowed(mem', AnchorOf[e])]_vars

\* A step that runs SyncScopeWithDB to its end.
Syncs(p) ==
    /\ ProjectStatus(p) \/ CheckAndResumeScope(p) \/ ResumeFails(p)
    /\ p \notin SyncedAfterLoad

\* SyncScopeWithDB leaves no name blocked that an allow rule covers, although
\* it changes the mark of an anchor and of the rows that inherit it at once.
\* (Of addresses this is not true: their anchor's rules do not cover them.)
AllowedTakesPrecedence ==
    [][\A p \in Project : Syncs(p) =>
           \A e \in Domain \cup Sub :
               IsExplicitlyAllowed(mem', e) => ~Blocked(mark'[p], e)]_vars

\* When CheckAndResumeScope lets a run end, no entity in scope is waiting for
\* a function: what was unblocked in the menu or by the check itself was run.
RunLeavesNothing ==
    [][\A p \in Project : CheckAndResumeScope(p) /\ running' = None => Pending(p)' = {}]_vars

\* A run ends with the marks of its project in step with the rules in memory.
RunEndsInStep ==
    [][\A p \in Project : CheckAndResumeScope(p) /\ running' = None => applied'[p] = mem']_vars

\* After a synchronisation the rows that the rules block are blocked.
SyncBlocks ==
    [][\A p \in Project : Syncs(p) =>
           \A e \in Entity :
               mark'[p][e] # "absent" /\ IsOutOfScope(mem', e) /\ ~IsExplicitlyAllowed(mem', e)
                   => Blocked(mark'[p], e)]_vars

\* Nothing the rules block is handed to modules.
BlockedIsNotRun == \A e \in work : ~IsOutOfScope(mem, e)
=============================================================================
