----------------------------- MODULE ConfigFile -----------------------------
(***************************************************************************)
(* configs/config.txt (internal/controller/config.go) and the tables that  *)
(* the dispatcher derives from it: which functions are enabled, and the    *)
(* pace - concurrency and delay - of each. The file is written at boot and *)
(* from the menu, line by line into a truncated file; the program may die  *)
(* or a write fail at any line, the user edits the file between two runs,  *)
(* and a newer version of the program brings functions of its own.         *)
(***************************************************************************)
EXTENDS FiniteSets

CONSTANTS Func,
          Late,      \* functions that only a newer version has
          Module     \* a partition of Func

\* The pace of a function: the one its module declares, the defaults of the
\* dispatcher, or one the user has put into the file.
Pace == {"declared", "default", "user"}
Unset == "unset"
Line == [on: BOOLEAN, pace: Pace]
NoLine == [on |-> FALSE, pace |-> Unset]

VARIABLES
    pc,
    caps,      \* the functions of this version
    exists, header,  \* the file; whether it holds max_depth and strict_depth
    line,      \* its line for a function
    plan,      \* what SyncConfig or saveConfig works on, line by line
    left,      \* saveConfig: functions whose line is still to be written
    settings,  \* enabledConfigs: the functions that are enabled
    cfgPace,   \* cfgFuncLimits, cfgFuncDelays: the paces read from the file
    pace,      \* funcLimits, funcDelays
    wanted,    \* history: functions the user has enabled last
    own,       \* history: functions whose pace the user has set
    torn,      \* history: a write was cut short, and no save has succeeded since
    damaged    \* history: a write was ever cut short, or the header was missing

file == <<exists, header, line>>
memory == <<settings, cfgPace, pace>>
history == <<wanted, own, torn, damaged>>
vars == <<pc, caps, file, plan, left, memory, history>>

Saving == {"creating", "rewriting", "saving"}
Lines == [Func -> Line \cup {NoLine}]

TypeOK ==
    /\ pc \in {"off", "boot", "append", "filling", "load", "menu"} \cup Saving
    /\ caps \in SUBSET Func /\ left \in SUBSET Func
    /\ exists \in BOOLEAN /\ header \in BOOLEAN
    /\ line \in Lines /\ plan \in Lines
    /\ settings \in SUBSET Func
    /\ cfgPace \in [Func -> Pace \cup {Unset}] /\ pace \in [Func -> Pace \cup {Unset}]
    /\ wanted \in SUBSET Func /\ own \in SUBSET Func
    /\ torn \in BOOLEAN /\ damaged \in BOOLEAN

Everywhere(x) == [f \in Func |-> x]

\* The first start finds no file, or one of a version without max_depth.
Init ==
    /\ pc = "off" /\ caps = Func \ Late /\ left = {} /\ plan = Everywhere(NoLine)
    /\ exists \in BOOLEAN /\ header = FALSE
    /\ line = [f \in Func |-> IF exists /\ f \in caps THEN [on |-> FALSE, pace |-> "declared"]
                              ELSE NoLine]
    /\ settings = {} /\ cfgPace = Everywhere(Unset) /\ pace = Everywhere(Unset)
    /\ wanted = {} /\ own = {} /\ torn = FALSE /\ damaged = FALSE

-----------------------------------------------------------------------------
Start ==
    /\ pc = "off" /\ pc' = "boot"
    /\ UNCHANGED <<caps, file, plan, left, memory, history>>

Forget == left' = {} /\ plan' = Everywhere(NoLine)

Stop ==
    /\ pc' = "off" /\ Forget
    /\ settings' = {} /\ cfgPace' = Everywhere(Unset) /\ pace' = Everywhere(Unset)

CutShort == pc \in Saving \cup {"filling"}

\* The program ends in the menu or is killed anywhere.
Exit ==
    /\ pc # "off" /\ Stop
    /\ torn' = (torn \/ CutShort) /\ damaged' = (damaged \/ CutShort)
    /\ UNCHANGED <<caps, file, wanted, own>>

\* A write fails: SyncConfig ends the program, the menu goes on with what it had.
WriteFails ==
    /\ CutShort
    /\ IF pc = "saving" THEN pc' = "menu" /\ Forget /\ UNCHANGED memory ELSE Stop
    /\ torn' = TRUE /\ damaged' = TRUE
    /\ UNCHANGED <<caps, file, wanted, own>>

Upgrade ==
    /\ pc = "off" /\ caps # Func
    /\ caps' = Func
    /\ UNCHANGED <<pc, file, plan, left, memory, history>>

SetPace(f) ==
    /\ pc = "off" /\ line[f] # NoLine
    /\ line' = [line EXCEPT ![f].pace = "user"]
    /\ own' = own \cup {f}
    /\ UNCHANGED <<pc, caps, exists, header, plan, left, memory, wanted, torn, damaged>>

-----------------------------------------------------------------------------
(* saveConfig truncates the file, writes the header, then a line for every  *)
(* function in any order.                                                   *)

Truncate == exists' = TRUE /\ header' = FALSE /\ line' = Everywhere(NoLine)

Save(lines) ==
    /\ Truncate
    /\ plan' = lines /\ left' = {f \in Func : lines[f] # NoLine}

WriteHeader ==
    /\ pc \in Saving /\ ~header /\ header' = TRUE
    /\ UNCHANGED <<pc, caps, exists, line, plan, left, memory, history>>

WriteLine(f) ==
    /\ pc \in Saving /\ header /\ f \in left
    /\ line' = [line EXCEPT ![f] = plan[f]]
    /\ left' = left \ {f}
    /\ UNCHANGED <<pc, caps, exists, header, plan, memory, history>>

\* After a save at boot SyncConfig goes on; the menu loads what it has saved.
Saved ==
    /\ pc \in Saving /\ header /\ left = {}
    /\ pc' = CASE pc = "creating" -> "menu" [] pc = "rewriting" -> "append" [] pc = "saving" -> "load"
    /\ torn' = (torn /\ pc # "saving")
    /\ IF pc = "creating" THEN Forget ELSE UNCHANGED <<left, plan>>
    /\ UNCHANGED <<caps, file, memory, wanted, own, damaged>>

\* GetFuncDefaults: the derived paces, of which there are none yet at boot. The
\* mutant writes the default for every function.
DefaultPace(f) == "default"
SavedPace(f) == IF pace[f] = Unset THEN "default" ELSE pace[f]

\* loadMemoryConfig: the file's pace if it has one, otherwise the module's.
Derived(read) == [f \in Func |-> IF f \notin caps THEN Unset
                                 ELSE IF read[f] # Unset THEN read[f] ELSE "declared"]

-----------------------------------------------------------------------------
(* SyncConfig.                                                              *)

FirstBoot ==
    /\ pc = "boot" /\ ~exists /\ pc' = "creating"
    /\ settings' = {}
    /\ pace' = Derived(cfgPace)
    /\ Save([f \in Func |-> IF f \in caps THEN [on |-> FALSE, pace |-> "declared"] ELSE NoLine])
    /\ UNCHANGED <<caps, cfgPace, history>>

ReadPace == cfgPace' = [f \in Func |-> line[f].pace]

\* The mutant leaves a file without its header as it is.
BootAsIs ==
    /\ pc = "boot" /\ exists /\ pc' = "append"
    /\ ReadPace /\ plan' = line
    /\ UNCHANGED <<caps, file, left, settings, pace, history>>

\* max_depth or strict_depth is missing: the file is written again, before the
\* paces have been derived.
Boot ==
    /\ pc = "boot" /\ exists
    /\ ReadPace
    /\ IF header THEN pc' = "append" /\ plan' = line /\ UNCHANGED <<file, left>>
       ELSE /\ pc' = "rewriting"
            /\ Save([f \in Func |-> IF line[f] = NoLine THEN NoLine
                                    ELSE [line[f] EXCEPT !.pace = SavedPace(f)]])
    /\ damaged' = (damaged \/ ~header)
    /\ UNCHANGED <<caps, settings, pace, wanted, own, torn>>

\* Functions without a line are added with the default pace: those of a module
\* without a section are appended, any other makes the file be written again.
Missing == {f \in caps : plan[f] = NoLine}
Rewrites == \E m \in Module : m \cap Missing # {} /\ (m \cap caps) \ Missing # {}
NewLine == [on |-> FALSE, pace |-> "default"]

\* The mutant starts from the functions that are new.
AddedOnly == [f \in Func |-> IF f \in caps /\ Missing # {} THEN NewLine ELSE plan[f]]
Added == [f \in Func |-> IF f \in Missing THEN NewLine ELSE plan[f]]

Append ==
    /\ pc = "append" /\ plan' = Added
    /\ IF Rewrites THEN pc' = "filling" /\ Truncate
       ELSE pc' = "load" /\ line' = Added /\ UNCHANGED <<exists, header>>
    /\ UNCHANGED <<caps, left, memory, history>>

\* The content that WriteFile puts into the truncated file.
Fill ==
    /\ pc = "filling" /\ pc' = "load"
    /\ header' = TRUE /\ line' = plan
    /\ UNCHANGED <<caps, exists, plan, left, memory, history>>

Load ==
    /\ pc = "load" /\ pc' = "menu"
    /\ settings' = {f \in caps : plan[f].on}
    /\ pace' = Derived(cfgPace)
    /\ Forget
    /\ UNCHANGED <<caps, file, cfgPace, history>>

\* handleModuleConfiguration and UpdateModuleSettings.
Configure ==
    /\ pc = "menu" /\ pc' = "saving"
    /\ \E enabled \in SUBSET caps :
           /\ wanted' = enabled
           /\ Save([f \in Func |-> IF f \in caps THEN [on |-> f \in enabled, pace |-> SavedPace(f)]
                                   ELSE NoLine])
    /\ UNCHANGED <<caps, memory, own, torn, damaged>>

-----------------------------------------------------------------------------
Next == \/ Start \/ Exit \/ WriteFails \/ Upgrade \/ (\E f \in Func : SetPace(f) \/ WriteLine(f))
        \/ WriteHeader \/ Saved \/ FirstBoot \/ Boot \/ Append \/ Fill \/ Load \/ Configure

Spec == Init /\ [][Next]_vars

-----------------------------------------------------------------------------
\* Whatever the user has enabled last is what runs, after restarts and upgrades,
\* unless a write of the file was cut short.
ChoicesSurvive ==
    pc = "menu" /\ ~torn => settings = wanted

\* A pace the user has set in the file is kept through saves and upgrades; a file
\* without its header, or one cut short, loses it.
PacesSurvive == pc = "menu" /\ ~damaged => \A f \in own : pace[f] = "user"

\* A boot leaves the file whole again, whatever write of an earlier run was cut short.
BootRepairs == pc = "load" => header /\ \A f \in caps : line[f] = plan[f] /\ plan[f] # NoLine

\* MODULE_GUIDE.md: the delay a module declares is "CRITICAL", the "primary defense
\* against IP bans": a function whose pace nobody has set runs at its declared pace.
DeclaredPaceKept ==
    pc = "menu" /\ ~damaged => \A f \in caps \ own : pace[f] = "declared"
=============================================================================
