--------------------------- MODULE DatabasesProofs ---------------------------
(***************************************************************************)
(* The databases of a host: the temporary ones of any number of processes, *)
(* which start, die and take over each other's ids, and the list of        *)
(* projects, which any number of them work on.                             *)
(***************************************************************************)
EXTENDS Host, TLAPS

\* A behaviour of the host is one of each of its parts.
LEMMA HostHasTemp == HostSpec => Spec
  <1>1. HostInit => Init
    BY DEF HostInit
  <1>2. [HostNext]_hostVars => [Next]_vars
    BY DEF HostNext, hostVars
  <1> QED
    BY <1>1, <1>2, PTL DEF HostSpec, Spec

LEMMA HostHasRegistry == HostSpec => R!Spec
  <1>1. HostInit => R!Init
    BY DEF HostInit
  <1>2. [HostNext]_hostVars => [R!Next]_R!vars
    BY DEF HostNext, hostVars, registry, R!vars
  <1> QED
    BY <1>1, <1>2, PTL DEF HostSpec, R!Spec

-----------------------------------------------------------------------------
(* Temporary databases: a run keeps its database, but for clean-ups that    *)
(* were deleting under its id when it began; it begins with a fresh one,    *)
(* and what the dead have left is gone after the next clean-up.             *)

\* What a clean-up deletes belongs to the dead, or to a process that has taken the id
\* since the clean-up asked.
DeadInv == \A p \in Pid : \A q \in Deleting(p) : pc[q] = "off" \/ q \in taken

\* The database of p in the steps of its run.
RunInv ==
    \A p \in Pid :
        /\ pc[p] \in {"unlinkWal", "create"} => db[p] = "none"
        /\ pc[p] = "create" => wal[p] = "none"
        /\ pc[p] \in {"register", "attach"} \cup Standalone => db[p] # "old" /\ wal[p] # "old"
        /\ p \notin taken =>
               /\ pc[p] \in {"register", "attach"} => db[p] = "own"
               /\ pc[p] = "attach" => p \in tempRow
               /\ pc[p] = "run" /\ ~shown[p]
                      => db[p] = "own" /\ p \in tempRow /\ route[p]

\* An orphan stays one, or gets its id back; it is found by the scan of the directory,
\* and gone when that is through.
OrphanInv ==
    \A p \in Pid : \A q \in orphans[p] :
        /\ q # p /\ ~Alive(q)
        /\ pc[p] = "wiping" /\ db[q] = "old" => q \in dead[p]
        /\ pc[p] \in {"ready"} \cup Preparing => db[q] # "old"

TempInv == TypeOK /\ DeadInv /\ RunInv /\ OrphanInv

-----------------------------------------------------------------------------
LEMMA TempInitial == Init => TempInv
  BY DEF Init, TempInv, TypeOK, DeadInv, RunInv, OrphanInv, Deleting, File, Cleaning, Preparing, Standalone

\* Processes come and go.
LEMMA SystemSteps ==
    ASSUME TempInv, NEW p \in Pid, SystemStep(p)
    PROVE  TempInv'
  <1> USE DEF TempInv, File, Alive, files, sweep, Deleting
  <1>1. CASE Exit(p)
    <2>1. TypeOK'
      BY <1>1 DEF Exit, Old, TypeOK
    <2>2. DeadInv'
      BY <1>1 DEF Exit, DeadInv, TypeOK
    <2>3. RunInv'
      BY <1>1 DEF Exit, Old, RunInv, TypeOK, Standalone
    <2>4. OrphanInv'
      BY <1>1 DEF Exit, Old, OrphanInv, TypeOK, Preparing
    <2> QED
      BY <2>1, <2>2, <2>3, <2>4
  <1>2. CASE Start(p)
    <2>1. TypeOK'
      BY <1>2 DEF Start, TypeOK, Cleaning
    <2>2. DeadInv'
      BY <1>2 DEF Start, DeadInv, TypeOK
    <2>3. RunInv'
      BY <1>2 DEF Start, RunInv, TypeOK, Standalone
    <2>4. OrphanInv'
      BY <1>2 DEF Start, OrphanInv, TypeOK, Preparing
    <2> QED
      BY <2>1, <2>2, <2>3, <2>4
  <1> QED
    BY <1>1, <1>2 DEF SystemStep

\* A clean-up deletes nothing of the living, but for those that took an id it was deleting.
LEMMA CleanupSteps ==
    ASSUME TempInv, NEW p \in Pid, CleanupStep(p)
    PROVE  TempInv'
  <1> USE DEF TempInv, File, Goto, files, sweep, Deleting
  <1>1. CASE SelectDead(p)
    <2>1. TypeOK'
      BY <1>1 DEF SelectDead, TypeOK, Cleaning
    <2>2. DeadInv'
      BY <1>1 DEF SelectDead, DeadInv, TypeOK, Alive
    <2>3. RunInv'
      BY <1>1 DEF SelectDead, RunInv, TypeOK, Standalone
    <2>4. OrphanInv'
      BY <1>1 DEF SelectDead, OrphanInv, TypeOK, Alive, Preparing
    <2> QED
      BY <2>1, <2>2, <2>3, <2>4
  <1>2. CASE DeleteRow(p)
    <2>1. TypeOK' /\ DeadInv' /\ OrphanInv'
      BY <1>2 DEF DeleteRow, TypeOK, DeadInv, OrphanInv, Alive
    <2>2. RunInv'
      BY <1>2 DEF DeleteRow, DeadInv, RunInv, TypeOK, Standalone
    <2> QED
      BY <2>1, <2>2
  <1>3. CASE RemoveDb(p)
    <2>1. PICK q \in dead[p] : /\ db' = [db EXCEPT ![q] = "none"]
                               /\ dead' = [dead EXCEPT ![p] = @ \ {q}]
                               /\ wals' = [wals EXCEPT ![p] = {q}]
      BY <1>3 DEF RemoveDb
    <2>2. q \in Pid /\ (pc[q] = "off" \/ q \in taken)
      BY <2>1 DEF DeadInv, TypeOK
    <2>3. UNCHANGED <<pc, tempRow, wal, rows, route, shown, orphans, stray, taken>>
      BY <1>3 DEF RemoveDb
    <2>4. TypeOK'
      BY <2>1, <2>2, <2>3 DEF TypeOK
    <2>5. DeadInv'
      BY <2>1, <2>2, <2>3 DEF DeadInv, TypeOK
    <2>6. RunInv'
      BY <2>1, <2>2, <2>3 DEF RunInv, TypeOK, Standalone
    <2>7. OrphanInv'
      BY <2>1, <2>2, <2>3 DEF OrphanInv, TypeOK, Alive
    <2> QED
      BY <2>4, <2>5, <2>6, <2>7
  <1>4. CASE RemoveWal(p)
    <2>1. PICK q \in wals[p] : wal' = [wal EXCEPT ![q] = "none"]
      BY <1>4 DEF RemoveWal
    <2>2. q \in Pid
      BY <2>1 DEF TypeOK
    <2>3. /\ wals' = [wals EXCEPT ![p] = {}]
          /\ UNCHANGED <<pc, tempRow, db, rows, dead, route, shown, orphans, stray, taken>>
      BY <1>4 DEF RemoveWal
    <2>4. TypeOK' /\ DeadInv'
      BY <2>1, <2>2, <2>3 DEF TypeOK, DeadInv
    <2>5. RunInv'
      BY <2>1, <2>2, <2>3 DEF RunInv, TypeOK, Standalone
    <2>6. OrphanInv'
      BY <2>3 DEF OrphanInv, Alive
    <2> QED
      BY <2>4, <2>5, <2>6
  <1>5. CASE Scan(p)
    <2>1. TypeOK'
      BY <1>5 DEF Scan, Wipe, TypeOK, Cleaning
    <2>2. DeadInv'
      BY <1>5 DEF Scan, Wipe, DeadInv, TypeOK, Alive
    <2>3. RunInv'
      BY <1>5 DEF Scan, Wipe, RunInv, TypeOK, Standalone
    <2>4. OrphanInv'
      BY <1>5 DEF Scan, Wipe, OrphanInv, TypeOK, Alive, Preparing
    <2> QED
      BY <2>1, <2>2, <2>3, <2>4
  <1>6. CASE EndCleanup(p)
    <2>1. TypeOK' /\ DeadInv'
      BY <1>6 DEF EndCleanup, TypeOK, DeadInv, Cleaning
    <2>2. RunInv' /\ OrphanInv'
      BY <1>6 DEF EndCleanup, RunInv, OrphanInv, TypeOK, Alive, Preparing, Standalone
    <2> QED
      BY <2>1, <2>2
  <1> QED
    BY <1>1, <1>2, <1>3, <1>4, <1>5, <1>6 DEF CleanupStep

\* A process prepares its own run.
LEMMA PrepareSteps ==
    ASSUME TempInv, NEW p \in Pid, PrepareStep(p)
    PROVE  TempInv'
  <1> USE DEF TempInv, File, Goto, files, sweep, Deleting, Alive
  <1>1. \A q \in Pid : p \notin orphans[q]
    BY DEF PrepareStep, Unregister, Unlink, UnlinkWal, Create, Register, Attach, OrphanInv
  <1>2. TypeOK'
    BY DEF PrepareStep, Unregister, Unlink, UnlinkWal, Create, Opened, Register, Attach, TypeOK,
           Preparing, Standalone
  <1>3. DeadInv'
    BY DEF PrepareStep, Unregister, Unlink, UnlinkWal, Create, Register, Attach, TypeOK, DeadInv
  <1>4. OrphanInv'
    BY <1>1 DEF PrepareStep, Unregister, Unlink, UnlinkWal, Create, Opened, Register, Attach,
                TypeOK, OrphanInv, Preparing
  <1>5. RunInv'
    <2> USE DEF RunInv, TypeOK, Standalone
    <2>1. CASE Unregister(p)
      BY <2>1 DEF Unregister
    <2>2. CASE Unlink(p)
      BY <2>2 DEF Unlink
    <2>3. CASE UnlinkWal(p)
      BY <2>3 DEF UnlinkWal
    <2>4. CASE Create(p)
      BY <2>4 DEF Create, Opened
    <2>5. CASE Register(p)
      BY <2>5 DEF Register
    <2>6. CASE Attach(p)
      BY <2>6 DEF Attach
    <2> QED
      BY <2>1, <2>2, <2>3, <2>4, <2>5, <2>6 DEF PrepareStep
  <1> QED
    BY <1>2, <1>3, <1>4, <1>5

\* The run itself, and the display of its results.
LEMMA RunSteps ==
    ASSUME TempInv, NEW p \in Pid, RunStep(p)
    PROVE  TempInv'
  <1> USE DEF TempInv, File, Goto, files, sweep, Deleting, Alive
  <1>1. pc[p] \in Standalone /\ \A q \in Pid : p \notin orphans[q]
    BY DEF RunStep, Access, Hide, HideDb, HideWal, Detach, OrphanInv, Standalone
  <1>2. TypeOK'
    <2> USE DEF TypeOK, Standalone
    <2>1. CASE Access(p)
      BY <2>1 DEF Access, Opened
    <2>2. CASE Hide(p)
      BY <2>2 DEF Hide
    <2>3. CASE HideDb(p)
      BY <2>3 DEF HideDb
    <2>4. CASE HideWal(p)
      BY <2>4 DEF HideWal
    <2>5. CASE Detach(p)
      BY <2>5 DEF Detach
    <2> QED
      BY <2>1, <2>2, <2>3, <2>4, <2>5 DEF RunStep
  <1>3. DeadInv'
    BY DEF RunStep, Access, Hide, HideDb, HideWal, Detach, TypeOK, DeadInv
  <1>4. OrphanInv'
    <2> USE <1>1 DEF TypeOK, OrphanInv, Preparing, Standalone
    <2>1. CASE Access(p)
      BY <2>1 DEF Access, Opened
    <2>2. CASE Hide(p)
      BY <2>2 DEF Hide
    <2>3. CASE HideDb(p)
      BY <2>3 DEF HideDb
    <2>4. CASE HideWal(p)
      BY <2>4 DEF HideWal
    <2>5. CASE Detach(p)
      BY <2>5 DEF Detach
    <2> QED
      BY <2>1, <2>2, <2>3, <2>4, <2>5 DEF RunStep
  <1>5. RunInv'
    <2> USE DEF RunInv, TypeOK, Standalone
    <2>1. CASE Access(p)
      BY <2>1 DEF Access, Opened
    <2>2. CASE Hide(p)
      BY <2>2 DEF Hide
    <2>3. CASE HideDb(p)
      BY <2>3 DEF HideDb
    <2>4. CASE HideWal(p)
      BY <2>4 DEF HideWal
    <2>5. CASE Detach(p)
      BY <2>5 DEF Detach
    <2> QED
      BY <2>1, <2>2, <2>3, <2>4, <2>5 DEF RunStep
  <1> QED
    BY <1>2, <1>3, <1>4, <1>5

LEMMA TempStutter == TempInv /\ UNCHANGED vars => TempInv'
  BY DEF TempInv, TypeOK, DeadInv, RunInv, OrphanInv, Alive, Deleting, vars, files, sweep

\* The inductive invariant holds in every state.
THEOREM TempInductive == Spec => []TempInv
  <1>1. TempInv /\ [Next]_vars => TempInv'
    <2> SUFFICES ASSUME TempInv, [Next]_vars PROVE TempInv'
      OBVIOUS
    <2> QED
      BY SystemSteps, CleanupSteps, PrepareSteps, RunSteps, TempStutter DEF Next
  <1> QED
    BY TempInitial, <1>1, PTL DEF Spec

\* The variables keep their types.
THEOREM TempTypeCorrect == Spec => []TypeOK
  <1>1. TempInv => TypeOK
    BY DEF TempInv
  <1> QED
    BY TempInductive, <1>1, PTL


\* A standalone run keeps its database beside any clean-ups (CleanupOrphanedTempDatabases
\* asks whether its process lives), unless one was deleting under its id when it began.
THEOREM RunKeepsItsDatabase == HostSpec => []OlderRunKept
  <1>1. TempInv => OlderRunKept
    BY DEF TempInv, RunInv, OlderRunKept
  <1> QED
    BY <1>1, HostHasTemp, TempInductive, PTL

\* A new temporary database finds nothing of an earlier process of its id (initProjectDB).
THEOREM RunStartsFresh == HostSpec => []FreshTemp
  <1>1. TempInv => FreshTemp
    BY DEF TempInv, RunInv, FreshTemp
  <1> QED
    BY <1>1, HostHasTemp, TempInductive, PTL

\* A clean-up leaves no database of those that were dead when it began.
THEOREM OrphansAreRemoved == HostSpec => []OrphansGo
  <1>1. TempInv => OrphansGo
    BY DEF TempInv, OrphanInv, OrphansGo
  <1> QED
    BY <1>1, HostHasTemp, TempInductive, PTL

-----------------------------------------------------------------------------
(* The list of projects: a process that is alone finds what it has read     *)
(* unchanged, and leaves no trace of a project it has deleted that a later  *)
(* synchronisation could bring back.                                        *)

RowsTyped ==
    /\ rPc \in [Process -> {"off", "boot", "listed", "syncing", "synced", "menu",
                           "creating", "open", "deleting", "standalone"}]
    /\ disk \in SUBSET R!Name
    /\ row \in [R!Name -> Nat]
    /\ listed \in [Process -> SUBSET R!Name] /\ known \in [Process -> SUBSET R!Name]
    /\ cur \in [Process -> R!Name \cup {R!NoProject}]
    /\ alone \in [Process -> BOOLEAN]

Rows == {n \in R!Name : row[n] > 0}

\* Nobody else lives; what is read is there; what a synchronisation has dealt with is so.
AloneInv ==
    \A p \in Process : alone[p] =>
        /\ \A q \in Process : q # p => rPc[q] = "off"
        /\ rPc[p] \in {"listed", "syncing"} => listed[p] = disk
        /\ rPc[p] = "syncing" => known[p] = Rows
        /\ rPc[p] = "synced" => Rows = disk
        /\ rPc[p] = "deleting" => row[cur[p]] = 0

\* Lists are kept during a synchronisation only, and a project while it is worked on.
ListsInv ==
    \A p \in Process :
        /\ rPc[p] \notin {"listed", "syncing"} => listed[p] = {}
        /\ rPc[p] # "syncing" => known[p] = {}
        /\ rPc[p] \in {"off", "menu"} => cur[p] = R!NoProject
        /\ rPc[p] \in {"creating", "open", "deleting"} => cur[p] \in R!Name

\* A name that occurs anywhere.
Used(n) == n \in disk \/ row[n] > 0 \/ \E p \in Process : n \in listed[p] \cup known[p] \cup {cur[p]}

\* Identifiers that are used have been drawn, and what was deleted is used nowhere.
DrawnInv == \A x \in Project : Used(x) => x \in drawn
GoneInv == gone \subseteq drawn \cap Project /\ \A x \in gone : ~Used(x)

RegistryInv == RowsTyped /\ AloneInv /\ ListsInv /\ DrawnInv /\ GoneInv

-----------------------------------------------------------------------------
LEMMA RegistryInitial == ASSUME R!Init PROVE RegistryInv
  <1>1. RowsTyped
    BY DEF R!Init, RowsTyped
  <1>2. AloneInv /\ ListsInv
    BY DEF R!Init, AloneInv, ListsInv
  <1>3. DrawnInv /\ GoneInv
    BY NamesApart DEF R!Init, DrawnInv, GoneInv, Used, R!Name
  <1> QED
    BY <1>1, <1>2, <1>3 DEF RegistryInv

\* A step after which only names are used that were used before.
LEMMA NothingNew ==
    ASSUME RegistryInv, gone' = gone, drawn' = drawn, \A x \in Project : Used(x)' => Used(x)
    PROVE  DrawnInv' /\ GoneInv'
  BY DEF RegistryInv, DrawnInv, GoneInv

LEMMA LifeSteps ==
    ASSUME RegistryInv, NEW p \in Process,
        R!Start(p) \/ R!Exit(p) \/ R!RunStandalone(p) \/ R!Stray(p)
    PROVE  RegistryInv'
  <1>1. RowsTyped'
    BY DEF R!Start, R!Exit, R!RunStandalone, R!Stray, R!Goto, RegistryInv, RowsTyped, R!Name
  <1>2. AloneInv'
    <2> USE DEF RegistryInv, RowsTyped, AloneInv, Rows, R!Goto
    <2>1. CASE R!Start(p)
      <3>1. \A q \in Process : alone'[q] => q = p /\ \A r \in Process : rPc[r] = "off"
        BY <2>1, Zenon DEF R!Start
      <3> QED
        BY <2>1, <3>1 DEF R!Start
    <2>2. CASE R!Exit(p)
      BY <2>2 DEF R!Exit
    <2>3. CASE R!RunStandalone(p)
      BY <2>3 DEF R!RunStandalone
    <2>4. CASE R!Stray(p)
      BY <2>4 DEF R!Stray
    <2> QED
      BY <2>1, <2>2, <2>3, <2>4
  <1>3. ListsInv'
    BY DEF R!Start, R!Exit, R!RunStandalone, R!Stray, R!Goto, RegistryInv, RowsTyped, ListsInv
  <1>4. \A x \in Project : Used(x)' => Used(x)
    BY NamesApart DEF R!Start, R!Exit, R!RunStandalone, R!Stray, R!Goto, RegistryInv, RowsTyped,
        Used, R!Name
  <1>5. gone' = gone /\ drawn' = drawn
    BY DEF R!Start, R!Exit, R!RunStandalone, R!Stray
  <1> QED
    BY <1>1, <1>2, <1>3, <1>4, <1>5, NothingNew DEF RegistryInv

LEMMA SyncSteps == ASSUME RegistryInv, NEW p \in Process, R!SyncStep(p) PROVE RegistryInv'
  <1> USE DEF RegistryInv, R!Goto
  <1>1. CASE R!ReadDir(p)
    <2>1. RowsTyped' /\ AloneInv' /\ ListsInv'
      BY <1>1 DEF R!ReadDir, RowsTyped, AloneInv, ListsInv, Rows
    <2>2. \A x \in Project : Used(x)' => Used(x)
      BY <1>1 DEF R!ReadDir, RowsTyped, Used
    <2> QED
      BY <1>1, <2>1, <2>2, NothingNew DEF R!ReadDir
  <1>2. CASE R!SelectRows(p)
    <2>1. RowsTyped' /\ AloneInv' /\ ListsInv'
      BY <1>2 DEF R!SelectRows, RowsTyped, AloneInv, ListsInv, Rows
    <2>2. \A x \in Project : Used(x)' => Used(x)
      BY <1>2 DEF R!SelectRows, RowsTyped, Used
    <2> QED
      BY <1>2, <2>1, <2>2, NothingNew DEF R!SelectRows
  <1>3. CASE R!DropRow(p)
    <2>1. RowsTyped'
      BY <1>3 DEF R!DropRow, RowsTyped
    <2>2. AloneInv'
      BY <1>3 DEF R!DropRow, RowsTyped, AloneInv, Rows
    <2>3. ListsInv'
      BY <1>3 DEF R!DropRow, RowsTyped, ListsInv
    <2>4. \A x \in Project : Used(x)' => Used(x)
      BY <1>3 DEF R!DropRow, RowsTyped, Used
    <2> QED
      BY <1>3, <2>1, <2>2, <2>3, <2>4, NothingNew DEF R!DropRow
  <1>4. CASE R!AddRow(p)
    <2>1. RowsTyped'
      BY <1>4 DEF R!AddRow, R!AddedRow, RowsTyped
    <2>2. AloneInv'
      BY <1>4 DEF R!AddRow, R!AddedRow, RowsTyped, AloneInv, Rows
    <2>3. ListsInv'
      BY <1>4 DEF R!AddRow, RowsTyped, ListsInv
    <2>4. \A x \in Project : Used(x)' => Used(x)
      BY <1>4 DEF R!AddRow, R!AddedRow, RowsTyped, Used
    <2> QED
      BY <1>4, <2>1, <2>2, <2>3, <2>4, NothingNew DEF R!AddRow
  <1>5. CASE R!EndSync(p)
    <2>1. RowsTyped' /\ AloneInv' /\ ListsInv'
      BY <1>5 DEF R!EndSync, RowsTyped, AloneInv, ListsInv, Rows
    <2>2. \A x \in Project : Used(x)' => Used(x)
      BY <1>5 DEF R!EndSync, RowsTyped, Used
    <2> QED
      BY <1>5, <2>1, <2>2, NothingNew DEF R!EndSync
  <1> QED
    BY <1>1, <1>2, <1>3, <1>4, <1>5 DEF R!SyncStep

\* Creating draws an identifier that was never used.
LEMMA CreateSteps ==
    ASSUME RegistryInv, NEW p \in Process,
           R!CreateFile(p) \/ R!CreateRow(p) \/ R!CreateFails(p)
    PROVE  RegistryInv'
  <1> USE DEF RegistryInv, R!Goto
  <1>1. CASE R!CreateFile(p)
    <2>1. PICK x \in Project \ drawn : /\ drawn' = drawn \cup {x} /\ disk' = disk \cup {x}
                                       /\ cur' = [cur EXCEPT ![p] = x]
      BY <1>1 DEF R!CreateFile
    <2>2. RowsTyped'
      BY <1>1, <2>1 DEF R!CreateFile, RowsTyped, R!Name
    <2>3. AloneInv' /\ ListsInv'
      BY <1>1, <2>1 DEF R!CreateFile, RowsTyped, AloneInv, ListsInv, Rows, R!Name
    <2>4. \A y \in Project : Used(y)' => Used(y) \/ y = x
      BY <1>1, <2>1 DEF R!CreateFile, RowsTyped, Used
    <2>5. DrawnInv' /\ GoneInv'
      BY <1>1, <2>1, <2>4 DEF R!CreateFile, DrawnInv, GoneInv
    <2> QED
      BY <2>2, <2>3, <2>5
  <1>2. CASE R!CreateRow(p)
    <2>0. cur[p] \in R!Name \cup {R!NoProject} /\ row' = [row EXCEPT ![cur[p]] = @ + 1]
      BY <1>2 DEF R!CreateRow, R!AddedRow, RowsTyped
    <2>1. RowsTyped'
      <3>1. CASE cur[p] \in R!Name
        BY <1>2, <2>0, <3>1 DEF R!CreateRow, RowsTyped
      <3>2. CASE cur[p] \notin R!Name
        <4>1. row' = row
          BY <2>0, <3>2 DEF RowsTyped
        <4> QED
          BY <1>2, <4>1 DEF R!CreateRow, RowsTyped
      <3> QED
        BY <3>1, <3>2
    <2>2. AloneInv' /\ ListsInv'
      BY <1>2, <2>0 DEF R!CreateRow, RowsTyped, AloneInv, ListsInv, Rows
    <2>3. \A x \in Project : Used(x)' => Used(x)
      BY <1>2, <2>0, NamesApart DEF R!CreateRow, RowsTyped, Used, R!Name
    <2> QED
      BY <1>2, <2>1, <2>2, <2>3, NothingNew DEF R!CreateRow
  <1>3. CASE R!CreateFails(p)
    <2>1. RowsTyped' /\ AloneInv' /\ ListsInv'
      BY <1>3 DEF R!CreateFails, RowsTyped, AloneInv, ListsInv, Rows
    <2>2. \A x \in Project : Used(x)' => Used(x)
      BY <1>3, NamesApart DEF R!CreateFails, RowsTyped, Used, R!Name
    <2> QED
      BY <1>3, <2>1, <2>2, NothingNew DEF R!CreateFails
  <1> QED
    BY <1>1, <1>2, <1>3

\* Work on a project that is there.
LEMMA ProjectSteps ==
    ASSUME RegistryInv, NEW p \in Process,
           R!Proceed(p) \/ R!Open(p) \/ R!Touch(p) \/ R!Resync(p) \/ R!Back(p)
    PROVE  RegistryInv'
  <1> USE DEF RegistryInv, R!Goto
  <1>1. CASE R!Proceed(p)
    <2>1. RowsTyped' /\ AloneInv' /\ ListsInv'
      BY <1>1 DEF R!Proceed, RowsTyped, AloneInv, ListsInv, Rows
    <2>2. \A x \in Project : Used(x)' => Used(x)
      BY <1>1 DEF R!Proceed, RowsTyped, Used
    <2> QED
      BY <1>1, <2>1, <2>2, NothingNew DEF R!Proceed
  <1>2. CASE R!Open(p)
    <2>1. RowsTyped' /\ AloneInv' /\ ListsInv'
      BY <1>2 DEF R!Open, RowsTyped, AloneInv, ListsInv, Rows
    <2>2. \A x \in Project : Used(x)' => Used(x)
      BY <1>2 DEF R!Open, RowsTyped, Used
    <2> QED
      BY <1>2, <2>1, <2>2, NothingNew DEF R!Open
  <1>3. CASE R!Touch(p)
    <2>0. cur[p] \in R!Name
      BY <1>3 DEF R!Touch, ListsInv
    <2>1. RowsTyped' /\ AloneInv' /\ ListsInv'
      BY <1>3 DEF R!Touch, RowsTyped, AloneInv, ListsInv, Rows
    <2>2. \A x \in Project : Used(x)' => Used(x)
      BY <1>3 DEF R!Touch, RowsTyped, Used
    <2> QED
      BY <1>3, <2>1, <2>2, NothingNew DEF R!Touch
  <1>4. CASE R!Resync(p)
    <2>1. RowsTyped' /\ AloneInv' /\ ListsInv'
      BY <1>4 DEF R!Resync, RowsTyped, AloneInv, ListsInv, Rows
    <2>2. \A x \in Project : Used(x)' => Used(x)
      BY <1>4 DEF R!Resync, RowsTyped, Used
    <2> QED
      BY <1>4, <2>1, <2>2, NothingNew DEF R!Resync
  <1>5. CASE R!Back(p)
    <2>1. RowsTyped' /\ AloneInv' /\ ListsInv'
      BY <1>5 DEF R!Back, RowsTyped, AloneInv, ListsInv, Rows
    <2>2. \A x \in Project : Used(x)' => Used(x)
      BY <1>5, NamesApart DEF R!Back, RowsTyped, Used, R!Name
    <2> QED
      BY <1>5, <2>1, <2>2, NothingNew DEF R!Back
  <1> QED
    BY <1>1, <1>2, <1>3, <1>4, <1>5

\* Deleting removes the row, the file and the reference; alone, nothing is left.
LEMMA DeleteSteps ==
    ASSUME RegistryInv, NEW p \in Process,
           R!DeleteRow(p) \/ R!RemoveFile(p) \/ R!RemoveFails(p)
    PROVE  RegistryInv'
  <1> USE DEF RegistryInv, R!Goto
  <1>1. CASE R!DeleteRow(p)
    <2>1. RowsTyped' /\ AloneInv' /\ ListsInv'
      BY <1>1 DEF R!DeleteRow, RowsTyped, AloneInv, ListsInv, Rows
    <2>2. \A x \in Project : Used(x)' => Used(x)
      BY <1>1 DEF R!DeleteRow, RowsTyped, Used
    <2> QED
      BY <1>1, <2>1, <2>2, NothingNew DEF R!DeleteRow
  <1>2. CASE R!RemoveFile(p)
    <2>1. RowsTyped' /\ AloneInv' /\ ListsInv'
      BY <1>2 DEF R!RemoveFile, RowsTyped, AloneInv, ListsInv, Rows
    <2>2. \A x \in Project : Used(x)' => Used(x)
      BY <1>2, NamesApart DEF R!RemoveFile, RowsTyped, Used, R!Name
    <2>3. ASSUME NEW x \in Project, alone[p], x = cur[p] PROVE ~Used(x)' /\ x \in drawn
      <3>1. row[x] = 0 /\ \A q \in Process : q # p => rPc[q] = "off"
        BY <1>2, <2>3 DEF R!RemoveFile, AloneInv
      <3>2. \A q \in Process : listed[q] = {} /\ known[q] = {}
        BY <1>2, <3>1 DEF R!RemoveFile, ListsInv
      <3>3. \A q \in Process : cur'[q] = R!NoProject
        BY <1>2, <3>1 DEF R!RemoveFile, ListsInv, RowsTyped
      <3>4. ~Used(x)'
        BY <1>2, <2>3, <3>1, <3>2, <3>3, NamesApart DEF R!RemoveFile, Used, R!Name
      <3>5. x \in drawn
        BY <2>3 DEF DrawnInv, Used
      <3> QED
        BY <3>4, <3>5
    <2>4. DrawnInv'
      BY <1>2, <2>2 DEF R!RemoveFile, DrawnInv
    <2>5. GoneInv'
      BY <1>2, <2>2, <2>3 DEF R!RemoveFile, GoneInv
    <2> QED
      BY <2>1, <2>4, <2>5
  <1>3. CASE R!RemoveFails(p)
    <2>1. RowsTyped' /\ AloneInv' /\ ListsInv'
      BY <1>3 DEF R!RemoveFails, RowsTyped, AloneInv, ListsInv, Rows, R!Name
    <2>2. \A x \in Project : Used(x)' => Used(x)
      BY <1>3, NamesApart DEF R!RemoveFails, RowsTyped, Used, R!Name
    <2> QED
      BY <1>3, <2>1, <2>2, NothingNew DEF R!RemoveFails
  <1> QED
    BY <1>1, <1>2, <1>3

LEMMA RegistryNext == ASSUME RegistryInv, [R!Next]_R!vars PROVE RegistryInv'
  <1>1. CASE R!Next
    <2> PICK p \in Process : R!Start(p) \/ R!Exit(p) \/ R!SyncStep(p) \/ R!MenuStep(p)
                             \/ R!RunStandalone(p) \/ R!Stray(p)
      BY <1>1 DEF R!Next
    <2> QED
      BY LifeSteps, SyncSteps, CreateSteps, ProjectSteps, DeleteSteps DEF R!MenuStep
  <1>2. CASE UNCHANGED R!vars
    BY <1>2 DEF R!vars, RegistryInv, RowsTyped, AloneInv, ListsInv, DrawnInv, GoneInv, Used, Rows
  <1> QED
    BY <1>1, <1>2

-----------------------------------------------------------------------------
\* The list of projects keeps the inductive invariant, for any processes and projects.
THEOREM RegistryInductive == R!Spec => []RegistryInv
  <1>1. R!Init => RegistryInv
    BY RegistryInitial
  <1>2. RegistryInv /\ [R!Next]_R!vars => RegistryInv'
    BY RegistryNext
  <1> QED
    BY <1>1, <1>2, PTL DEF R!Spec


\* A process that runs by itself lists the projects that have a file, whatever those
\* before it have left (ListedAsStored).
THEOREM ListIsTrue == HostSpec => []ListedAsStored
  <1>1. RegistryInv => ListedAsStored
    BY DEF RegistryInv, AloneInv, Rows, ListedAsStored, R!ListedAsStored
  <1> QED
    BY <1>1, HostHasRegistry, RegistryInductive, PTL

\* What a process has deleted while it was alone stays deleted under any processes after
\* it (DeletedStaysDeleted).
THEOREM DeletedForGood == HostSpec => []DeletedStaysDeleted
  <1>1. RegistryInv => DeletedStaysDeleted
    <2> SUFFICES ASSUME RegistryInv, NEW x \in gone PROVE x \notin disk /\ row[x] = 0
      BY DEF DeletedStaysDeleted, R!DeletedStaysDeleted
    <2>1. ~Used(x) /\ row[x] \in Nat
      BY DEF RegistryInv, GoneInv, RowsTyped, R!Name
    <2> QED
      BY <2>1 DEF Used
  <1> QED
    BY <1>1, HostHasRegistry, RegistryInductive, PTL
=============================================================================
