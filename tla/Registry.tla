------------------------------ MODULE Registry ------------------------------
(***************************************************************************)
(* Full projects (internal/repository, internal/controller): a project is  *)
(* a file in storage/projects and a row of master.db. Every process that   *)
(* the user runs, beside or after one another, brings the rows in line     *)
(* with the files when it boots and when a run of a project is prepared,   *)
(* and creates, opens and deletes projects from its menu. A process may    *)
(* die between any two of its steps.                                       *)
(***************************************************************************)
EXTENDS Naturals, FiniteSets

CONSTANTS Process,
          Project,   \* identifiers of projects, drawn once each
          MaxRows    \* bound: rows of one name in master.db

\* A reference to a route that was dropped is taken for the name of a project;
\* the process stands for the reference here.
Name == Project \cup Process

VARIABLES
    pc,       \* what process p is doing; "off" if there is none
    disk,     \* names with a .db file in storage/projects
    row,      \* number of active rows of a name
    listed,   \* syncProjectsDB: the names found on disk
    known,    \* syncProjectsDB: the names found in active rows
    cur,      \* the project a process works on
    alone,    \* history: no other process has lived since this one started
    drawn,    \* history: identifiers that have been drawn
    gone      \* history: projects deleted by a process that was alone

vars == <<pc, disk, row, listed, known, cur, alone, drawn, gone>>

NoProject == "no project"

TypeOK ==
    /\ pc \in [Process -> {"off", "boot", "listed", "syncing", "synced", "menu",
                           "creating", "open", "deleting", "standalone"}]
    /\ disk \in SUBSET Name
    /\ row \in [Name -> 0..MaxRows]
    /\ listed \in [Process -> SUBSET Name] /\ known \in [Process -> SUBSET Name]
    /\ cur \in [Process -> Name \cup {NoProject}]
    /\ alone \in [Process -> BOOLEAN]
    /\ drawn \in SUBSET Project /\ gone \in SUBSET Project

Init ==
    /\ pc = [p \in Process |-> "off"]
    /\ disk = {} /\ row = [n \in Name |-> 0]
    /\ listed = [p \in Process |-> {}] /\ known = [p \in Process |-> {}]
    /\ cur = [p \in Process |-> NoProject]
    /\ alone = [p \in Process |-> FALSE]
    /\ drawn = {} /\ gone = {}

Goto(p, from, to) == pc[p] = from /\ pc' = [pc EXCEPT ![p] = to]
AddedRow(n) == row' = [row EXCEPT ![n] = @ + 1]

Start(p) ==
    /\ Goto(p, "off", "boot")
    /\ alone' = [q \in Process |-> q = p /\ \A r \in Process : pc[r] = "off"]
    /\ UNCHANGED <<disk, row, listed, known, cur, drawn, gone>>

\* os.Exit, an error that ends the program, or a crash.
Exit(p) ==
    /\ pc[p] # "off" /\ pc' = [pc EXCEPT ![p] = "off"]
    /\ listed' = [listed EXCEPT ![p] = {}] /\ known' = [known EXCEPT ![p] = {}]
    /\ cur' = [cur EXCEPT ![p] = NoProject]
    /\ UNCHANGED <<disk, row, alone, drawn, gone>>

-----------------------------------------------------------------------------
(* syncProjectsDB: the directory is read, then the rows, and the rows are   *)
(* brought in line one by one.                                              *)

ReadDir(p) ==
    /\ Goto(p, "boot", "listed")
    /\ listed' = [listed EXCEPT ![p] = disk]
    /\ UNCHANGED <<disk, row, known, cur, alone, drawn, gone>>

SelectRows(p) ==
    /\ Goto(p, "listed", "syncing")
    /\ known' = [known EXCEPT ![p] = {n \in Name : row[n] > 0}]
    /\ UNCHANGED <<disk, row, listed, cur, alone, drawn, gone>>

\* DELETE ... WHERE id = ?: the rows that were read.
DropRow(p) ==
    /\ pc[p] = "syncing"
    /\ \E n \in known[p] \ listed[p] :
           row' = [row EXCEPT ![n] = 0] /\ known' = [known EXCEPT ![p] = @ \ {n}]
    /\ UNCHANGED <<pc, disk, listed, cur, alone, drawn, gone>>

\* inspectProjectDB opens the file, and SQLite creates it if it is missing.
AddRow(p) ==
    /\ pc[p] = "syncing"
    /\ \E n \in listed[p] \ known[p] :
           /\ row[n] < MaxRows
           /\ disk' = disk \cup {n} /\ AddedRow(n)
           /\ known' = [known EXCEPT ![p] = @ \cup {n}]
    /\ UNCHANGED <<pc, listed, cur, alone, drawn, gone>>

\* The mutant stops after the first pass: rows without a file are kept.
EndSyncEarly(p) ==
    /\ listed[p] \subseteq known[p]
    /\ Goto(p, "syncing", "synced")
    /\ listed' = [listed EXCEPT ![p] = {}] /\ known' = [known EXCEPT ![p] = {}]
    /\ UNCHANGED <<disk, row, cur, alone, drawn, gone>>

EndSync(p) ==
    /\ known[p] = listed[p]
    /\ Goto(p, "syncing", "synced")
    /\ listed' = [listed EXCEPT ![p] = {}] /\ known' = [known EXCEPT ![p] = {}]
    /\ UNCHANGED <<disk, row, cur, alone, drawn, gone>>

-----------------------------------------------------------------------------
(* The menu.                                                                *)

Proceed(p) ==
    /\ Goto(p, "synced", IF cur[p] = NoProject THEN "menu" ELSE "open")
    /\ UNCHANGED <<disk, row, listed, known, cur, alone, drawn, gone>>

\* initProjectDB writes the file first and the row last.
CreateFile(p) ==
    /\ Goto(p, "menu", "creating")
    /\ \E x \in Project \ drawn :
           /\ drawn' = drawn \cup {x}
           /\ disk' = disk \cup {x}
           /\ cur' = [cur EXCEPT ![p] = x]
    /\ UNCHANGED <<row, listed, known, alone, gone>>

CreateRow(p) ==
    /\ Goto(p, "creating", "open")
    /\ row[cur[p]] < MaxRows /\ AddedRow(cur[p])
    /\ UNCHANGED <<disk, listed, known, cur, alone, drawn, gone>>

CreateFails(p) ==
    /\ Goto(p, "creating", "menu")
    /\ cur' = [cur EXCEPT ![p] = NoProject]
    /\ UNCHANGED <<disk, row, listed, known, alone, drawn, gone>>

\* FindProjects selects the active rows and gives each a route.
Open(p) ==
    /\ Goto(p, "menu", "open")
    /\ \E n \in Name : row[n] > 0 /\ cur' = [cur EXCEPT ![p] = n]
    /\ UNCHANGED <<disk, row, listed, known, alone, drawn, gone>>

\* GetProjectStatus and the Stores of a run open the file.
Touch(p) ==
    /\ pc[p] = "open"
    /\ disk' = disk \cup {cur[p]}
    /\ UNCHANGED <<pc, row, listed, known, cur, alone, drawn, gone>>

\* SetResumeSession loads the configuration again, SyncMasterDB included.
Resync(p) ==
    /\ Goto(p, "open", "boot")
    /\ UNCHANGED <<disk, row, listed, known, cur, alone, drawn, gone>>

Back(p) ==
    /\ Goto(p, "open", "menu")
    /\ cur' = [cur EXCEPT ![p] = NoProject]
    /\ UNCHANGED <<disk, row, listed, known, alone, drawn, gone>>

DeleteRow(p) ==
    /\ Goto(p, "open", "deleting")
    /\ row' = [row EXCEPT ![cur[p]] = 0]
    /\ UNCHANGED <<disk, listed, known, cur, alone, drawn, gone>>

\* The mutant leaves the file to the next synchronisation.
RemoveFileLater(p) ==
    /\ Goto(p, "deleting", "menu")
    /\ cur' = [cur EXCEPT ![p] = NoProject]
    /\ gone' = IF alone[p] THEN gone \cup ({cur[p]} \cap Project) ELSE gone
    /\ UNCHANGED <<disk, row, listed, known, alone, drawn>>

RemoveFile(p) ==
    /\ Goto(p, "deleting", "menu")
    /\ disk' = disk \ {cur[p]}
    /\ cur' = [cur EXCEPT ![p] = NoProject]
    /\ gone' = IF alone[p] THEN gone \cup ({cur[p]} \cap Project) ELSE gone
    /\ UNCHANGED <<row, listed, known, alone, drawn>>

\* os.Remove fails when the route is gone already: the menu goes on with a
\* reference that resolves to the name of a new project.
RemoveFails(p) ==
    /\ Goto(p, "deleting", "open")
    /\ cur' = [cur EXCEPT ![p] = p]
    /\ UNCHANGED <<disk, row, listed, known, alone, drawn, gone>>

\* A standalone run whose route was dropped when its results were shown.
RunStandalone(p) ==
    /\ cur[p] = NoProject /\ Goto(p, "synced", "standalone")
    /\ UNCHANGED <<disk, row, listed, known, cur, alone, drawn, gone>>

Stray(p) ==
    /\ pc[p] = "standalone"
    /\ disk' = disk \cup {p}
    /\ UNCHANGED <<pc, row, listed, known, cur, alone, drawn, gone>>

-----------------------------------------------------------------------------
SyncStep(p) == ReadDir(p) \/ SelectRows(p) \/ DropRow(p) \/ AddRow(p) \/ EndSync(p)
MenuStep(p) == \/ Proceed(p) \/ CreateFile(p) \/ CreateRow(p) \/ CreateFails(p) \/ Open(p)
               \/ Touch(p) \/ Resync(p) \/ Back(p) \/ DeleteRow(p) \/ RemoveFile(p) \/ RemoveFails(p)

Next == \E p \in Process : \/ Start(p) \/ Exit(p) \/ SyncStep(p) \/ MenuStep(p)
                           \/ RunStandalone(p) \/ Stray(p)

Spec == Init /\ [][Next]_vars

-----------------------------------------------------------------------------
\* Whatever step an earlier process died in, a process that runs by itself lists
\* exactly the projects that have a file once it has synchronised.
ListedAsStored ==
    \A p \in Process : pc[p] = "synced" /\ alone[p] => {n \in Name : row[n] > 0} = disk

\* A project that a process has deleted while it was alone never comes back,
\* whatever later processes run beside one another.
DeletedStaysDeleted == \A x \in gone : x \notin disk /\ row[x] = 0
=============================================================================
