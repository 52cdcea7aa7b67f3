-------------------------------- MODULE Host --------------------------------
(***************************************************************************)
(* The parts of the program that work on the files of a host, side by      *)
(* side: temporary databases, the list of projects, the executable, the    *)
(* configuration and the scope rules.  They share no state, and "part"     *)
(* says which one a behaviour is about.  TempDatabases is extended, the    *)
(* others are instances.                                                   *)
(***************************************************************************)
EXTENDS TempDatabases

CONSTANTS Process, Project, MaxRows,                           \* Registry
          Updating,                                            \* Updater
          Func, Late, Module,                                  \* ConfigFile
          RuleFile, RuleName, Other, Contents, None, MaxEdits  \* ScopeFiles

VARIABLES
    part,
    rPc, disk, row, listed, known, cur, alone, drawn, gone,
    windows, uPc, image, exec, old, temp, lost,
    cPc, caps, exists, header, line, plan, left, settings, cfgPace, pace, wanted, own,
    torn, damaged,
    dir, text, stamp, edits, rules, lastFingerprint, lastHash, sPc, unseen, fingerprint,
    found, told, current

registry == <<rPc, disk, row, listed, known, cur, alone, drawn, gone>>
update == <<windows, uPc, image, exec, old, temp, lost>>
config == <<cPc, caps, exists, header, line, plan, left, settings, cfgPace, pace, wanted,
            own, torn, damaged>>
scope == <<dir, text, stamp, edits, rules, lastFingerprint, lastHash, sPc, unseen,
           fingerprint, found, told, current>>
hostVars == <<part, vars, registry, update, config, scope>>

R == INSTANCE Registry WITH pc <- rPc
U == INSTANCE Updater WITH pc <- uPc
C == INSTANCE ConfigFile WITH pc <- cPc
S == INSTANCE ScopeFiles WITH pc <- sPc, File <- RuleFile, Name <- RuleName

\* The names that stand for dropped references are not drawn, and neither is the mark
\* for none; no set of rules is the mark for none.
ASSUME NamesApart == Process \cap Project = {} /\ R!NoProject \notin R!Name
ASSUME NoneApart == \A rs \in SUBSET UNION Contents : rs # None

HostInit ==
    /\ part \in {"temporary", "registry", "update", "config", "scope"}
    /\ Init /\ R!Init /\ U!Init /\ C!Init /\ S!Init
    /\ part # "scope" => S!Present = {}
    /\ part # "update" => ~windows
    /\ part # "config" => ~exists

HostNext ==
    /\ UNCHANGED part
    /\ \/ part = "temporary" /\ Next /\ UNCHANGED <<registry, update, config, scope>>
       \/ part = "registry" /\ R!Next /\ UNCHANGED <<vars, update, config, scope>>
       \/ part = "update" /\ U!Next /\ UNCHANGED <<vars, registry, config, scope>>
       \/ part = "config" /\ C!Next /\ UNCHANGED <<vars, registry, update, scope>>
       \/ part = "scope" /\ S!Next /\ UNCHANGED <<vars, registry, update, config>>

HostSpec == HostInit /\ [][HostNext]_hostVars

-----------------------------------------------------------------------------
\* The properties of the instances, under their own names. Registry: the list of projects is that of the files, and the deleted stay away.
ListedAsStored == R!ListedAsStored
DeletedStaysDeleted == R!DeletedStaysDeleted

\* Updater: an executable is left.
BinarySurvives == U!BinarySurvives

\* ConfigFile: what the user has chosen survives, and a boot repairs the file.
ChoicesSurvive == C!ChoicesSurvive
PacesSurvive == C!PacesSurvive
BootRepairs == C!BootRepairs

\* ScopeFiles: a Load leaves the rules that are written, and reports what has changed.
LoadCatchesUp == part = "scope" => S!LoadCatchesUp
ChangesAreReported == part = "scope" => S!ChangesAreReported

\* The delay that a module declares is what its functions run at.
DeclaredPaceKept == C!DeclaredPaceKept
=============================================================================
