--------------------------- MODULE TempDatabases ---------------------------
(***************************************************************************)
(* The temporary databases of standalone runs (internal/repository,        *)
(* internal/controller). Such a database is named by the id of its         *)
(* process: a row of master.db and the files <pid>.db and <pid>.db-wal in  *)
(* storage/tmp. Every process first cleans up after those that died, and   *)
(* may die itself between any two of its steps; the system gives its id to *)
(* another process, of this program or of another, at any time, also       *)
(* while a clean-up that found the id dead is still at work. The processes *)
(* see one another: those of one host, or of one container.                *)
(***************************************************************************)
EXTENDS Naturals, FiniteSets

CONSTANTS Pid,
          MaxAlive   \* bound: ids in use at a time

VARIABLES
    pc,       \* what process p is doing; "off" if there is none
    tempRow,  \* ids with a temporary row in master.db
    db, wal,  \* the files: "none", written by the process of this id ("own"),
              \* or left by an earlier one of the same id ("old")
    rows,     \* ids a clean-up has found to be dead: rows that it is to delete,
    dead,     \* .db files that it is to remove, and the -wal file it removes next
    wals,
    route,    \* the route of the temporary database exists
    shown,    \* its results have been shown, which deletes it
    orphans,  \* history: orphaned databases when p's clean-up began, until its run does
    stray,    \* a project database was created under the name of p's route
    taken     \* history: processes whose id a clean-up was deleting when they began

files == <<db, wal>>
sweep == <<rows, dead, wals>>
vars == <<pc, tempRow, files, sweep, route, shown, orphans, stray, taken>>

File == {"none", "own", "old"}

Cleaning == {"cleaning", "removing", "wiping"}
Preparing == {"unlink", "unlinkWal", "create", "register", "attach"}
Standalone == {"run", "hideDb", "hideWal", "detach"}

TypeOK ==
    /\ pc \in [Pid -> {"off", "ready"} \cup Cleaning \cup Preparing \cup Standalone]
    /\ tempRow \in SUBSET Pid
    /\ db \in [Pid -> File] /\ wal \in [Pid -> File]
    /\ rows \in [Pid -> SUBSET Pid]
    /\ dead \in [Pid -> SUBSET Pid] /\ wals \in [Pid -> SUBSET Pid]
    /\ route \in [Pid -> BOOLEAN] /\ shown \in [Pid -> BOOLEAN]
    /\ orphans \in [Pid -> SUBSET Pid]
    /\ stray \in SUBSET Pid /\ taken \in SUBSET Pid

Init ==
    /\ pc = [p \in Pid |-> "off"]
    /\ tempRow = {}
    /\ db = [p \in Pid |-> "none"] /\ wal = [p \in Pid |-> "none"]
    /\ rows = [p \in Pid |-> {}]
    /\ dead = [p \in Pid |-> {}] /\ wals = [p \in Pid |-> {}]
    /\ route = [p \in Pid |-> FALSE] /\ shown = [p \in Pid |-> FALSE]
    /\ orphans = [p \in Pid |-> {}]
    /\ stray = {} /\ taken = {}

Alive(p) == pc[p] # "off"
Goto(p, from, to) == pc[p] = from /\ pc' = [pc EXCEPT ![p] = to]

Old(f, p) == [f EXCEPT ![p] = IF @ = "own" THEN "old" ELSE @]

\* os.Exit, an error that ends the program, or a crash.
Exit(p) ==
    /\ pc[p] # "off"
    /\ pc' = [pc EXCEPT ![p] = "off"]
    /\ db' = Old(db, p) /\ wal' = Old(wal, p)
    /\ rows' = [rows EXCEPT ![p] = {}]
    /\ dead' = [dead EXCEPT ![p] = {}] /\ wals' = [wals EXCEPT ![p] = {}]
    /\ route' = [route EXCEPT ![p] = FALSE] /\ shown' = [shown EXCEPT ![p] = FALSE]
    /\ orphans' = [orphans EXCEPT ![p] = {}]
    /\ stray' = stray \ {p} /\ taken' = taken \ {p}
    /\ UNCHANGED tempRow

Deleting(q) == rows[q] \cup dead[q] \cup wals[q]

\* The system does not give an id twice at a time, and knows nothing of clean-ups. A
\* process of another program is one that ends before it does anything here.
Start(p) ==
    /\ ~Alive(p) /\ Cardinality({q \in Pid : Alive(q)}) < MaxAlive
    /\ pc' = [pc EXCEPT ![p] = "cleaning"]
    /\ orphans' = [q \in Pid |-> orphans[q] \ {p}]
    /\ taken' = IF \E q \in Pid : p \in Deleting(q) THEN taken \cup {p} ELSE taken
    /\ UNCHANGED <<tempRow, files, sweep, route, shown, stray>>

-----------------------------------------------------------------------------
(* CleanupOrphanedTempDatabases: the temporary rows of dead processes, then *)
(* their files; then whatever .db files of dead processes are left.         *)

SelectDead(p) ==
    /\ Goto(p, "cleaning", "removing")
    /\ rows' = [rows EXCEPT ![p] = {q \in tempRow : q # p /\ ~Alive(q)}]
    /\ dead' = [dead EXCEPT ![p] = rows'[p]]
    /\ orphans' = [orphans EXCEPT ![p] = {q \in Pid \ {p} : ~Alive(q) /\ db[q] = "old"}]
    /\ UNCHANGED <<tempRow, files, wals, route, shown, stray, taken>>

\* Nobody asks again whether the process is still dead.
DeleteRow(p) ==
    /\ pc[p] = "removing"
    /\ \E q \in rows[p] : /\ tempRow' = tempRow \ {q}
                          /\ rows' = [rows EXCEPT ![p] = @ \ {q}]
    /\ UNCHANGED <<pc, files, dead, wals, route, shown, orphans, stray, taken>>

\* DeleteTempDatabases removes the .db file of a target, then its -wal and -shm.
RemoveDb(p) ==
    /\ pc[p] \in {"removing", "wiping"} /\ rows[p] = {} /\ wals[p] = {}
    /\ \E q \in dead[p] : /\ db' = [db EXCEPT ![q] = "none"]
                          /\ dead' = [dead EXCEPT ![p] = @ \ {q}]
                          /\ wals' = [wals EXCEPT ![p] = {q}]
    /\ UNCHANGED <<pc, tempRow, wal, rows, route, shown, orphans, stray, taken>>

RemoveWal(p) ==
    /\ \E q \in wals[p] : wal' = [wal EXCEPT ![q] = "none"]
    /\ wals' = [wals EXCEPT ![p] = {}]
    /\ UNCHANGED <<pc, tempRow, db, rows, dead, route, shown, orphans, stray, taken>>

Wipe(p, targets) ==
    /\ rows[p] = {} /\ dead[p] = {} /\ wals[p] = {}
    /\ Goto(p, "removing", "wiping")
    /\ dead' = [dead EXCEPT ![p] = targets]
    /\ UNCHANGED <<tempRow, files, rows, wals, route, shown, orphans, stray, taken>>

\* The mutant asks the table instead of the directory.
ScanRows(p) == Wipe(p, {q \in tempRow : db[q] # "none" /\ q # p /\ ~Alive(q)})

\* The mutant forgets to ask whether the process is alive.
ScanAll(p) == Wipe(p, {q \in Pid : db[q] # "none" /\ q # p})

Scan(p) == Wipe(p, {q \in Pid : db[q] # "none" /\ q # p /\ ~Alive(q)})

EndCleanup(p) ==
    /\ dead[p] = {} /\ wals[p] = {}
    /\ Goto(p, "wiping", "ready")
    /\ UNCHANGED <<tempRow, files, sweep, route, shown, orphans, stray, taken>>

-----------------------------------------------------------------------------
(* A standalone run: initProjectDB with temp = TRUE, the pipeline's reads   *)
(* and writes, and GetActiveGraph, which may be called while it runs.       *)

Unregister(p) ==
    /\ Goto(p, "ready", "unlink")
    /\ tempRow' = tempRow \ {p}
    /\ UNCHANGED <<files, sweep, route, shown, orphans, stray, taken>>

Unlink(p) ==
    /\ Goto(p, "unlink", "unlinkWal")
    /\ db' = [db EXCEPT ![p] = "none"]
    /\ UNCHANGED <<tempRow, wal, sweep, route, shown, orphans, stray, taken>>

\* The mutant takes the absence of the .db file for the absence of the others.
UnlinkDbOnly(p) ==
    /\ Goto(p, "unlinkWal", "create")
    /\ UNCHANGED <<tempRow, files, sweep, route, shown, orphans, stray, taken>>

UnlinkWal(p) ==
    /\ Goto(p, "unlinkWal", "create")
    /\ wal' = [wal EXCEPT ![p] = "none"]
    /\ UNCHANGED <<tempRow, db, sweep, route, shown, orphans, stray, taken>>

\* SQLite opens what is there and creates what is missing.
Opened(f, p) == [f EXCEPT ![p] = IF @ = "none" THEN "own" ELSE @]

Create(p) ==
    /\ Goto(p, "create", "register")
    /\ db' = Opened(db, p) /\ wal' = Opened(wal, p)
    /\ UNCHANGED <<tempRow, sweep, route, shown, orphans, stray, taken>>

Register(p) ==
    /\ Goto(p, "register", "attach")
    /\ tempRow' = tempRow \cup {p}
    /\ UNCHANGED <<files, sweep, route, shown, orphans, stray, taken>>

Attach(p) ==
    /\ Goto(p, "attach", "run")
    /\ route' = [route EXCEPT ![p] = TRUE]
    /\ orphans' = [orphans EXCEPT ![p] = {}]
    /\ UNCHANGED <<tempRow, files, sweep, shown, stray, taken>>

\* Store, or any other access of the pipeline: by the route if there is one,
\* otherwise getProjectDBPath takes the reference for the name of a project.
\* The last connection to close removes the -wal file.
Access(p) ==
    /\ pc[p] \in Standalone
    /\ IF route[p]
         THEN /\ db' = Opened(db, p)
              /\ \E closed \in BOOLEAN :
                     wal' = IF closed THEN [wal EXCEPT ![p] = "none"] ELSE Opened(wal, p)
              /\ UNCHANGED stray
         ELSE stray' = stray \cup {p} /\ UNCHANGED files
    /\ UNCHANGED <<pc, tempRow, sweep, route, shown, orphans, taken>>

\* GetActiveGraph: DeleteTempProjectRecord, then DeleteTempDatabases if there was a row.
Hide(p) ==
    /\ ~shown[p] /\ Goto(p, "run", IF p \in tempRow THEN "hideDb" ELSE "run")
    /\ tempRow' = tempRow \ {p}
    /\ UNCHANGED <<files, sweep, route, shown, orphans, stray, taken>>

HideDb(p) ==
    /\ Goto(p, "hideDb", "hideWal")
    /\ db' = [db EXCEPT ![p] = "none"]
    /\ UNCHANGED <<tempRow, wal, sweep, route, shown, orphans, stray, taken>>

HideWal(p) ==
    /\ Goto(p, "hideWal", "detach")
    /\ wal' = [wal EXCEPT ![p] = "none"]
    /\ UNCHANGED <<tempRow, db, sweep, route, shown, orphans, stray, taken>>

\* The route is dropped, and ClearActiveProject forgets the run.
Detach(p) ==
    /\ Goto(p, "detach", "run")
    /\ route' = [route EXCEPT ![p] = FALSE]
    /\ shown' = [shown EXCEPT ![p] = TRUE]
    /\ UNCHANGED <<tempRow, files, sweep, orphans, stray, taken>>

-----------------------------------------------------------------------------
SystemStep(p) == Start(p) \/ Exit(p)
CleanupStep(p) == \/ SelectDead(p) \/ DeleteRow(p) \/ RemoveDb(p) \/ RemoveWal(p)
                  \/ Scan(p) \/ EndCleanup(p)
PrepareStep(p) == \/ Unregister(p) \/ Unlink(p) \/ UnlinkWal(p)
                  \/ Create(p) \/ Register(p) \/ Attach(p)
RunStep(p) == Access(p) \/ Hide(p) \/ HideDb(p) \/ HideWal(p) \/ Detach(p)

Next == \E p \in Pid : SystemStep(p) \/ CleanupStep(p) \/ PrepareStep(p) \/ RunStep(p)

Spec == Init /\ [][Next]_vars

-----------------------------------------------------------------------------
\* A clean-up asks once whether a process lives and deletes later. It takes no
\* database of a run that began before it asked: a run has its file, its row and
\* its route until its results are shown, unless its id was given to it while a
\* clean-up that had found the id dead was still deleting.
OlderRunKept ==
    \A p \in Pid \ taken :
        pc[p] = "run" /\ ~shown[p] => db[p] = "own" /\ p \in tempRow /\ route[p]

\* Process ids come back: a new temporary database never finds the file, or the
\* write-ahead log, of an earlier process of the same id beside it.
FreshTemp ==
    \A p \in Pid : pc[p] \in {"register", "attach"} \cup Standalone => db[p] # "old" /\ wal[p] # "old"

\* Whatever step a process died in, the next clean-up that begins after its death
\* removes its temporary database, unless its id is in use again.
OrphansGo ==
    \A p \in Pid : pc[p] \in {"ready"} \cup Preparing => \A q \in orphans[p] : db[q] # "old"

\* repository.go:780: the clean-up is for "dangling temporary databases from
\* terminated processes": no run loses its database to it.
LiveTempKept ==
    \A p \in Pid : pc[p] = "run" /\ ~shown[p] => db[p] = "own" /\ p \in tempRow /\ route[p]

\* repository.go:422: CreateTempProjectDB "creates an isolated temporary project
\* database in storage/tmp for standalone runs": the run leaves nothing among
\* the projects.
StandaloneIsIsolated == stray = {}
=============================================================================
