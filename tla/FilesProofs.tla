----------------------------- MODULE FilesProofs -----------------------------
(***************************************************************************)
(* The files of a host that several steps write: the executable under      *)
(* self-updates, the configuration under saves that are cut short, and the *)
(* rules of the scope under edits.                                         *)
(***************************************************************************)
EXTENDS Host, TLAPS

\* A behaviour of the host is one of each of its parts.
LEMMA HostHasUpdate == HostSpec => U!Spec
  <1>1. HostInit => U!Init
    BY DEF HostInit
  <1>2. [HostNext]_hostVars => [U!Next]_U!vars
    BY DEF HostNext, hostVars, update, U!vars
  <1> QED
    BY <1>1, <1>2, PTL DEF HostSpec, U!Spec

LEMMA HostHasConfig == HostSpec => C!Spec
  <1>1. HostInit => C!Init
    BY DEF HostInit
  <1>2. [HostNext]_hostVars => [C!Next]_C!vars
    BY DEF HostNext, hostVars, config, C!vars, C!file, C!memory, C!history
  <1> QED
    BY <1>1, <1>2, PTL DEF HostSpec, C!Spec

LEMMA HostHasRules == HostSpec => S!Spec
  <1>1. HostInit => S!Init
    BY DEF HostInit
  <1>2. [HostNext]_hostVars => [S!Next]_S!vars
    BY DEF HostNext, hostVars, scope, S!vars, S!files, S!memory, S!loading
  <1> QED
    BY <1>1, <1>2, PTL DEF HostSpec, S!Spec

-----------------------------------------------------------------------------
(* The self-update: on POSIX systems only complete temporary files are      *)
(* renamed; on Windows every running process protects the file it was       *)
(* started from.                                                            *)

\* The steps of the other system are out of reach, and a temporary file whose copy was
\* made without an error is complete.
PosixInv ==
    ~windows =>
        /\ \A p \in Updating : uPc[p] \notin {"away", "write", "back"}
        /\ \A p \in Updating : uPc[p] \in {"chmod", "rename"} => temp[p] = "whole" \/ lost
        /\ exec = "whole" \/ lost

\* The image of a running process is complete, wherever it has been moved.
WindowsInv ==
    windows =>
        /\ \A p \in Updating : uPc[p] \notin {"copy", "chmod", "rename"}
        /\ \A p \in Updating : uPc[p] # "off" =>
               \/ image[p] = "exec" /\ exec = "whole"
               \/ image[p] = "old" /\ old = "whole"
        /\ exec = "whole" \/ old = "whole"

UpdateInv == U!TypeOK /\ PosixInv /\ WindowsInv

-----------------------------------------------------------------------------
LEMMA UpdateInitial == U!Init => UpdateInv
  BY DEF U!Init, UpdateInv, U!TypeOK, PosixInv, WindowsInv, U!File

LEMMA SharedSteps ==
    ASSUME UpdateInv, NEW p \in Updating, U!Start(p) \/ U!End(p) \/ U!Download(p)
    PROVE  UpdateInv'
  <1> USE DEF UpdateInv, U!TypeOK, PosixInv, WindowsInv, U!File, U!Goto
  <1>1. CASE U!Start(p)
    BY <1>1 DEF U!Start
  <1>2. CASE U!End(p)
    BY <1>2 DEF U!End
  <1>3. CASE U!Download(p)
    BY <1>3 DEF U!Download
  <1> QED
    BY <1>1, <1>2, <1>3

LEMMA PosixSteps ==
    ASSUME UpdateInv, NEW p \in Updating,
        U!CreateTemp(p) \/ U!CopyBody(p) \/ U!Chmod(p) \/ U!Swap(p)
    PROVE  UpdateInv'
  <1>1. CASE U!CreateTemp(p)
    BY <1>1, SMTT(30) DEF UpdateInv, U!TypeOK, PosixInv, WindowsInv, U!File, U!CreateTemp,
        U!Fail, U!Goto
  <1>2. CASE U!CopyBody(p)
    <2> USE DEF UpdateInv, U!TypeOK, PosixInv, WindowsInv, U!File, U!Goto
    <2>1. CASE temp' = [temp EXCEPT ![p] = "whole"] /\ UNCHANGED lost
      BY <1>2, <2>1 DEF U!CopyBody, U!Fail
    <2>2. CASE lost' /\ UNCHANGED temp
      BY <1>2, <2>2 DEF U!CopyBody, U!Fail
    <2>3. CASE U!Fail(p, "copy") /\ UNCHANGED lost
      BY <1>2, <2>3 DEF U!CopyBody, U!Fail
    <2> QED
      BY <1>2, <2>1, <2>2, <2>3 DEF U!CopyBody
  <1>3. CASE U!Chmod(p)
    BY <1>3, SMTT(30) DEF UpdateInv, U!TypeOK, PosixInv, WindowsInv, U!File, U!Chmod, U!Fail,
        U!Goto
  <1>4. CASE U!Swap(p)
    BY <1>4, SMTT(30) DEF UpdateInv, U!TypeOK, PosixInv, WindowsInv, U!File, U!Swap, U!Goto
  <1> QED
    BY <1>1, <1>2, <1>3, <1>4

LEMMA WindowsSteps ==
    ASSUME UpdateInv, NEW p \in Updating,
           U!RemoveOld(p) \/ U!MoveAway(p) \/ U!WriteNew(p) \/ U!MoveBack(p)
    PROVE  UpdateInv'
  <1> USE DEF UpdateInv, U!TypeOK, PosixInv, WindowsInv, U!File, U!Goto, U!InUse, U!Running,
      U!CanReplace
  <1>1. CASE U!RemoveOld(p)
    BY <1>1, SMTT(30) DEF U!RemoveOld
  <1>2. CASE U!MoveAway(p)
    BY <1>2, SMTT(30) DEF U!MoveAway
  <1>3. CASE U!WriteNew(p)
    BY <1>3, SMTT(30) DEF U!WriteNew
  <1>4. CASE U!MoveBack(p)
    BY <1>4, SMTT(30) DEF U!MoveBack
  <1> QED
    BY <1>1, <1>2, <1>3, <1>4

LEMMA UpdateStutter == UpdateInv /\ UNCHANGED U!vars => UpdateInv'
  BY DEF UpdateInv, U!TypeOK, PosixInv, WindowsInv, U!vars

\* The inductive invariant holds in every state (internal/updater).
THEOREM UpdateInductive == U!Spec => []UpdateInv
  <1>1. UpdateInv /\ [U!Next]_U!vars => UpdateInv'
    <2> SUFFICES ASSUME UpdateInv, [U!Next]_U!vars PROVE UpdateInv'
      OBVIOUS
    <2> QED
      BY SharedSteps, PosixSteps, WindowsSteps, UpdateStutter DEF U!Next
  <1> QED
    BY UpdateInitial, <1>1, PTL DEF U!Spec

\* The variables keep their types.
THEOREM UpdateTypeCorrect == U!Spec => []U!TypeOK
  <1>1. UpdateInv => U!TypeOK
    BY DEF UpdateInv
  <1> QED
    BY UpdateInductive, <1>1, PTL


\* A complete executable is left at its place or beside it, whichever processes update
\* and wherever one of them dies (performAtomicSwap, performWindowsReplace), unless a
\* close has lost data.
THEOREM BinaryIsNeverLost == HostSpec => []BinarySurvives
  <1>1. UpdateInv => BinarySurvives
    BY DEF UpdateInv, PosixInv, WindowsInv, BinarySurvives, U!BinarySurvives, U!TypeOK
  <1> QED
    BY <1>1, HostHasUpdate, UpdateInductive, PTL

-----------------------------------------------------------------------------
(* The configuration: what the user has chosen is in the file, or in what   *)
(* is being written to it, through every way on which a save, a boot or an  *)
(* upgrade goes.                                                            *)

Choices(lines) == {fn \in Func : lines[fn].on}

\* In these steps the file is whole, in the others it may be empty or half written.
AtRest == {"off", "boot", "menu"}

\* A save has written what is not left; after it the file is what was planned.
WritingInv ==
    /\ cPc \in C!Saving => \A fn \in Func : line[fn] = IF fn \in left THEN C!NoLine ELSE plan[fn]
    /\ cPc \in {"append", "load"} => header /\ line = plan
    /\ cPc \in {"filling", "load", "saving"} => \A fn \in caps : plan[fn] # C!NoLine
    /\ \A fn \in Func \ caps : line[fn] = C!NoLine /\ plan[fn] = C!NoLine

\* Before the first file there is nothing to lose.
FirstInv ==
    /\ ~exists => /\ wanted = {} /\ own = {} /\ cPc \in {"off", "boot"}
                  /\ \A fn \in Func : line[fn] = C!NoLine
    /\ cPc = "creating" => wanted = {} /\ own = {} /\ settings = {}

ChoicesInv ==
    /\ wanted \subseteq caps
    /\ cPc = "saving" => Choices(plan) = wanted
    /\ ~torn => /\ Choices(IF cPc \in AtRest THEN line ELSE plan) = wanted
                /\ cPc = "menu" => settings = wanted

\* A pace of the user's is in the file or the plan, in what a boot has read from it, and
\* in what a save will write.
PacesInv ==
    ~damaged =>
        /\ cPc # "rewriting"
        /\ own \subseteq caps
        /\ \A fn \in own :
               /\ (IF cPc \in AtRest THEN line ELSE plan)[fn].pace = "user"
               /\ cPc \notin {"off", "boot"} => cfgPace[fn] = "user"
               /\ cPc \in {"menu", "saving"} => pace[fn] = "user"

ConfigInv == C!TypeOK /\ WritingInv /\ FirstInv /\ ChoicesInv /\ PacesInv

-----------------------------------------------------------------------------
LEMMA Lines ==
    /\ C!NoLine.on = FALSE /\ C!NoLine.pace = C!Unset
    /\ C!NoLine \notin C!Line
    /\ C!NewLine \in C!Line /\ ~C!NewLine.on
    /\ \A l \in C!Line : l.on \in BOOLEAN /\ l.pace \in C!Pace /\ l.pace # C!Unset
  BY DEF C!NoLine, C!Line, C!NewLine, C!Unset, C!Pace

LEMMA ConfigInitial == C!Init => ConfigInv
  <1> SUFFICES ASSUME C!Init PROVE ConfigInv
    OBVIOUS
  <1>1. C!TypeOK
    BY Lines DEF C!Init, C!TypeOK, C!Everywhere, C!Lines, C!Line, C!Pace, C!Unset
  <1>2. WritingInv /\ FirstInv /\ ChoicesInv /\ PacesInv
    BY Lines DEF C!Init, WritingInv, FirstInv, ChoicesInv, PacesInv, Choices, AtRest,
                 C!Saving, C!Everywhere
  <1> QED
    BY <1>1, <1>2 DEF ConfigInv

\* The program starts and ends, and what the user does while it does not run.
LEMMA SessionSteps ==
    ASSUME ConfigInv, C!Start \/ C!Exit \/ C!WriteFails \/ C!Upgrade
    PROVE  ConfigInv'
  <1> USE Lines DEF ConfigInv, C!file, C!memory, C!history
  <1>1. CASE C!Start
    <2>1. C!TypeOK'
      BY <1>1 DEF C!Start, C!TypeOK, C!Lines
    <2>2. WritingInv' /\ FirstInv' /\ ChoicesInv' /\ PacesInv'
      BY <1>1 DEF C!Start, WritingInv, FirstInv, ChoicesInv, PacesInv, Choices, AtRest, C!Saving
    <2> QED
      BY <2>1, <2>2
  <1>2. CASE C!Exit
    <2> USE <1>2 DEF C!Exit, C!Stop, C!Forget, C!CutShort
    <2>1. C!TypeOK'
      BY DEF C!TypeOK, C!Everywhere, C!Lines
    <2>2. WritingInv' /\ FirstInv'
      BY DEF WritingInv, FirstInv, C!Saving, C!Everywhere
    <2>3. ChoicesInv'
      BY DEF C!TypeOK, WritingInv, ChoicesInv, Choices, AtRest, C!Saving
    <2>4. PacesInv'
      BY DEF C!TypeOK, WritingInv, PacesInv, AtRest, C!Saving
    <2> QED
      BY <2>1, <2>2, <2>3, <2>4
  <1>3. CASE C!WriteFails
    <2> USE <1>3 DEF C!WriteFails, C!Stop, C!Forget, C!CutShort
    <2>1. C!TypeOK'
      BY DEF C!TypeOK, C!Everywhere, C!Lines
    <2>2. WritingInv' /\ FirstInv'
      BY DEF WritingInv, FirstInv, C!Saving, C!Everywhere
    <2>3. ChoicesInv' /\ PacesInv'
      BY DEF ChoicesInv, PacesInv, C!Saving
    <2> QED
      BY <2>1, <2>2, <2>3
  <1>4. CASE C!Upgrade
    <2>1. C!TypeOK'
      BY <1>4 DEF C!Upgrade, C!TypeOK
    <2>2. WritingInv' /\ FirstInv' /\ ChoicesInv' /\ PacesInv'
      BY <1>4 DEF C!Upgrade, C!TypeOK, WritingInv, FirstInv, ChoicesInv, PacesInv, Choices,
                  AtRest, C!Saving
    <2> QED
      BY <2>1, <2>2
  <1> QED
    BY <1>1, <1>2, <1>3, <1>4

LEMMA PaceStep == ASSUME ConfigInv, NEW fn \in Func, C!SetPace(fn) PROVE ConfigInv'
  <1> USE Lines DEF ConfigInv
  <1>1. /\ line[fn] \in C!Line
        /\ line' = [line EXCEPT ![fn] = [line[fn] EXCEPT !.pace = "user"]]
    BY DEF C!SetPace, C!TypeOK, C!Lines
  <1>2. line'[fn] \in C!Line /\ line'[fn].on = line[fn].on /\ line'[fn].pace = "user"
    BY <1>1 DEF C!TypeOK, C!Lines, C!Line, C!Pace
  <1>3. \A g \in Func \ {fn} : line'[g] = line[g]
    BY <1>1 DEF C!TypeOK, C!Lines
  <1>4. C!TypeOK'
    BY <1>1, <1>2 DEF C!SetPace, C!TypeOK, C!Lines, C!memory
  <1>5. WritingInv' /\ FirstInv'
    BY <1>1, <1>2, <1>3 DEF C!SetPace, WritingInv, FirstInv, C!Saving
  <1>6. ChoicesInv'
    BY <1>2, <1>3 DEF C!SetPace, C!memory, ChoicesInv, Choices, AtRest
  <1>7. PacesInv'
    BY <1>1, <1>2, <1>3 DEF C!SetPace, C!memory, WritingInv, PacesInv, AtRest
  <1> QED
    BY <1>4, <1>5, <1>6, <1>7

-----------------------------------------------------------------------------
\* A save, line by line.
LEMMA WriteSteps ==
    ASSUME ConfigInv, C!WriteHeader \/ C!Saved \/ C!Fill \/ \E fn \in Func : C!WriteLine(fn)
    PROVE  ConfigInv'
  <1> USE Lines DEF ConfigInv, C!file, C!memory, C!history
  <1>1. CASE C!WriteHeader
    <2>1. C!TypeOK'
      BY <1>1 DEF C!WriteHeader, C!TypeOK
    <2>2. WritingInv' /\ FirstInv' /\ ChoicesInv' /\ PacesInv'
      BY <1>1 DEF C!WriteHeader, WritingInv, FirstInv, ChoicesInv, PacesInv, Choices, AtRest,
                  C!Saving
    <2> QED
      BY <2>1, <2>2
  <1>2. CASE C!Saved
    <2> USE <1>2 DEF C!Saved, C!Forget
    <2>0. line = plan
      BY DEF WritingInv, C!TypeOK, C!Lines
    <2>1. C!TypeOK'
      BY DEF C!TypeOK, C!Saving, C!Everywhere, C!Lines
    <2>2. WritingInv'
      BY <2>0 DEF WritingInv, C!Saving, C!Everywhere
    <2>3. FirstInv'
      BY <2>0 DEF FirstInv, C!Saving
    <2>4. ChoicesInv'
      BY <2>0 DEF ChoicesInv, FirstInv, Choices, AtRest, C!Saving
    <2>5. PacesInv'
      BY <2>0 DEF PacesInv, FirstInv, AtRest, C!Saving
    <2> QED
      BY <2>1, <2>2, <2>3, <2>4, <2>5
  <1>3. CASE C!Fill
    <2> USE <1>3 DEF C!Fill
    <2>1. C!TypeOK'
      BY DEF C!TypeOK
    <2>2. WritingInv' /\ FirstInv'
      BY DEF WritingInv, FirstInv, C!Saving
    <2>3. ChoicesInv' /\ PacesInv'
      BY DEF ChoicesInv, PacesInv, Choices, AtRest
    <2> QED
      BY <2>1, <2>2, <2>3
  <1>4. ASSUME NEW fn \in Func, C!WriteLine(fn) PROVE ConfigInv'
    <2> USE <1>4 DEF C!WriteLine
    <2>1. C!TypeOK'
      BY DEF C!TypeOK, C!Lines
    <2>2. WritingInv'
      BY DEF WritingInv, C!TypeOK, C!Lines, C!Saving
    <2>3. FirstInv' /\ ChoicesInv' /\ PacesInv'
      BY DEF FirstInv, ChoicesInv, PacesInv, Choices, AtRest, C!Saving
    <2> QED
      BY <2>1, <2>2, <2>3
  <1> QED
    BY <1>1, <1>2, <1>3, <1>4

\* A save begins with an empty file.
LEMMA SaveBegins ==
    ASSUME C!TypeOK, NEW lines \in C!Lines, C!Save(lines)
    PROVE  /\ exists' = TRUE /\ header' = FALSE /\ line' \in C!Lines /\ plan' = lines /\ left' \in SUBSET Func
           /\ \A fn \in Func : line'[fn] = C!NoLine
           /\ \A fn \in Func : line'[fn] = IF fn \in left' THEN C!NoLine ELSE plan'[fn]
  BY DEF C!Save, C!Truncate, C!Everywhere, C!Lines

LEMMA FirstBootStep == ASSUME ConfigInv, C!FirstBoot PROVE ConfigInv'
  <1> DEFINE lines == [fn \in Func |-> IF fn \in caps THEN [on |-> FALSE, pace |-> "declared"]
                                       ELSE C!NoLine]
  <1> USE Lines DEF ConfigInv, C!history
  <1>0. lines \in C!Lines /\ C!Save(lines)
    BY DEF C!FirstBoot, C!Lines, C!Line, C!Pace
  <1>a. /\ cPc = "boot" /\ cPc' = "creating" /\ ~exists /\ settings' = {}
        /\ UNCHANGED <<caps, wanted, own, torn, damaged>>
    BY DEF C!FirstBoot
  <1>b. \A fn \in Func : ~lines[fn].on /\ (fn \notin caps => lines[fn] = C!NoLine)
    OBVIOUS
  <1> HIDE DEF lines
  <1>1. C!TypeOK'
    <2>1. pace' \in [Func -> C!Pace \cup {C!Unset}]
      BY DEF C!FirstBoot, C!Derived, C!TypeOK, C!Pace
    <2> QED
      BY <1>0, <2>1, SaveBegins DEF C!FirstBoot, C!TypeOK, C!Saving
  <1>2. WritingInv'
    BY <1>0, <1>a, <1>b, SaveBegins DEF WritingInv, C!Saving
  <1>3. FirstInv'
    BY <1>0, SaveBegins DEF C!FirstBoot, FirstInv
  <1>4. ChoicesInv'
    <2>1. Choices(lines) = {}
      BY <1>b DEF Choices
    <2> QED
      BY <1>0, <1>a, <2>1, SaveBegins DEF FirstInv, ChoicesInv, AtRest
  <1>5. PacesInv'
    BY DEF C!FirstBoot, FirstInv, PacesInv
  <1> QED
    BY <1>1, <1>2, <1>3, <1>4, <1>5

\* What is rewritten at boot enables what the file enabled.
LEMMA BootStep == ASSUME ConfigInv, C!Boot PROVE ConfigInv'
  <1> USE Lines DEF ConfigInv
  <1>0. cfgPace' \in [Func -> C!Pace \cup {C!Unset}] /\ \A fn \in Func : cfgPace'[fn] = line[fn].pace
    BY DEF C!Boot, C!ReadPace, C!TypeOK, C!Lines
  <1>1. CASE header
    <2> USE <1>1 DEF C!Boot, C!file
    <2>1. C!TypeOK'
      BY <1>0 DEF C!TypeOK
    <2>2. WritingInv' /\ FirstInv'
      BY DEF WritingInv, FirstInv, C!Saving
    <2>3. ChoicesInv'
      BY DEF ChoicesInv, Choices, AtRest
    <2>4. PacesInv'
      BY <1>0 DEF PacesInv, AtRest, C!TypeOK
    <2> QED
      BY <2>1, <2>2, <2>3, <2>4
  <1>2. CASE ~header
    <2> DEFINE lines == [fn \in Func |-> IF line[fn] = C!NoLine THEN C!NoLine
                                         ELSE [line[fn] EXCEPT !.pace = C!SavedPace(fn)]]
    <2>0. C!Save(lines) /\ cPc = "boot" /\ cPc' = "rewriting" /\ damaged'
      BY <1>2 DEF C!Boot
    <2>1. \A fn \in Func : C!SavedPace(fn) \in C!Pace
      BY DEF C!SavedPace, C!TypeOK, C!Pace
    <2>2. ASSUME NEW fn \in Func
          PROVE  /\ lines[fn] \in C!Line \cup {C!NoLine} /\ lines[fn].on = line[fn].on
                 /\ line[fn] = C!NoLine => lines[fn] = C!NoLine
      <3>1. CASE line[fn] = C!NoLine
        BY <3>1
      <3>2. CASE line[fn] # C!NoLine
        <4>1. line[fn] \in C!Line
          BY <3>2 DEF C!TypeOK, C!Lines
        <4> QED
          BY <2>1, <3>2, <4>1 DEF C!Line
      <3> QED
        BY <3>1, <3>2
    <2>3. lines \in C!Lines
      BY <2>2 DEF C!Lines
    <2> HIDE DEF lines
    <2>4. C!TypeOK'
      BY <1>0, <2>0, <2>3, SaveBegins DEF C!Boot, C!TypeOK, C!Saving
    <2>5. WritingInv'
      BY <2>0, <2>2, <2>3, SaveBegins DEF C!Boot, WritingInv, C!Saving
    <2>6. FirstInv'
      BY <2>0, <2>3, SaveBegins DEF C!Boot, FirstInv
    <2>7. ChoicesInv'
      <3>1. UNCHANGED <<caps, settings, wanted, torn>>
        BY DEF C!Boot
      <3>2. Choices(lines) = Choices(line)
        BY <2>2 DEF Choices
      <3> QED
        BY <2>0, <2>3, <3>1, <3>2, SaveBegins DEF ChoicesInv, AtRest
    <2>8. PacesInv'
      BY <2>0 DEF PacesInv
    <2> QED
      BY <2>4, <2>5, <2>6, <2>7, <2>8
  <1> QED
    BY <1>1, <1>2

\* New functions are added without being enabled.
LEMMA AppendStep == ASSUME ConfigInv, C!Append PROVE ConfigInv'
  <1> USE Lines DEF ConfigInv, C!memory, C!history
  <1>0. /\ C!Added \in C!Lines
        /\ \A fn \in Func : C!Added[fn] = IF fn \in caps /\ plan[fn] = C!NoLine THEN C!NewLine
                                          ELSE plan[fn]
    BY DEF C!Added, C!Missing, C!TypeOK, C!Lines
  <1>1. plan' = C!Added /\ cPc = "append" /\ line = plan /\ header /\ exists
    BY DEF C!Append, WritingInv, FirstInv
  <1>2. \/ /\ cPc' = "filling" /\ exists' = TRUE /\ header' = FALSE
           /\ line' = [fn \in Func |-> C!NoLine]
        \/ cPc' = "load" /\ line' = C!Added /\ exists' = exists /\ header' = header
    BY DEF C!Append, C!Truncate, C!Everywhere
  <1>a. UNCHANGED <<caps, left, settings, cfgPace, pace, wanted, own, torn, damaged>>
    BY DEF C!Append
  <1>b. /\ line' \in C!Lines
        /\ \A fn \in Func : line'[fn] = IF cPc' = "filling" THEN C!NoLine ELSE C!Added[fn]
    BY <1>0, <1>2 DEF C!Lines
  <1>3. C!TypeOK'
    BY <1>0, <1>1, <1>2, <1>a, <1>b DEF C!TypeOK
  <1>4. WritingInv'
    BY <1>0, <1>1, <1>2, <1>a, <1>b DEF WritingInv, C!Saving, C!TypeOK
  <1>5. FirstInv'
    BY <1>1, <1>2, <1>a DEF FirstInv
  <1>6. ChoicesInv'
    <2>1. Choices(plan) = Choices(C!Added)
      BY <1>0 DEF Choices
    <2> QED
      BY <1>1, <1>2, <1>a, <2>1 DEF ChoicesInv, AtRest
  <1>7. PacesInv'
    BY <1>0, <1>1, <1>2, <1>a DEF PacesInv, AtRest, C!TypeOK, C!NoLine, C!Unset
  <1> QED
    BY <1>3, <1>4, <1>5, <1>6, <1>7

LEMMA LoadStep == ASSUME ConfigInv, C!Load PROVE ConfigInv'
  <1> USE Lines DEF ConfigInv, C!file, C!history, C!Load, C!Forget
  <1>0. /\ pace' \in [Func -> C!Pace \cup {C!Unset}]
        /\ \A fn \in caps : cfgPace[fn] = "user" => pace'[fn] = "user"
    BY DEF C!Derived, C!TypeOK, C!Pace, C!Unset
  <1>1. C!TypeOK'
    BY <1>0 DEF C!TypeOK, C!Everywhere, C!Lines
  <1>2. WritingInv' /\ FirstInv'
    BY DEF WritingInv, FirstInv, C!Saving, C!Everywhere
  <1>3. ChoicesInv'
    BY DEF WritingInv, ChoicesInv, Choices, AtRest, C!TypeOK
  <1>4. PacesInv'
    BY <1>0 DEF WritingInv, PacesInv, AtRest
  <1> QED
    BY <1>1, <1>2, <1>3, <1>4

\* A save from the menu writes the choices, and the paces that are in use.
LEMMA ConfigureStep == ASSUME ConfigInv, C!Configure PROVE ConfigInv'
  <1> USE Lines DEF ConfigInv, C!memory
  <1>1. PICK enabled \in SUBSET caps :
            /\ wanted' = enabled
            /\ C!Save([fn \in Func |->
                   IF fn \in caps THEN [on |-> fn \in enabled, pace |-> C!SavedPace(fn)]
                   ELSE C!NoLine])
    BY DEF C!Configure
  <1> DEFINE lines == [fn \in Func |->
                 IF fn \in caps THEN [on |-> fn \in enabled, pace |-> C!SavedPace(fn)]
                 ELSE C!NoLine]
  <1>2. \A fn \in Func : C!SavedPace(fn) \in C!Pace /\ (pace[fn] = "user" => C!SavedPace(fn) = "user")
    BY DEF C!SavedPace, C!TypeOK, C!Pace, C!Unset
  <1>3. lines \in C!Lines /\ C!Save(lines)
    BY <1>1, <1>2 DEF C!Lines, C!Line
  <1>4. Choices(lines) = enabled
    BY DEF Choices, C!TypeOK
  <1>5. \A fn \in caps : lines[fn].pace = C!SavedPace(fn) /\ lines[fn] \in C!Line
    BY <1>2 DEF C!TypeOK, C!Line
  <1>6. \A fn \in Func \ caps : lines[fn] = C!NoLine
    OBVIOUS
  <1> HIDE DEF lines
  <1>7. C!TypeOK'
    BY <1>1, <1>3, SaveBegins DEF C!Configure, C!TypeOK, C!Saving
  <1>8. WritingInv'
    BY <1>3, <1>5, <1>6, SaveBegins DEF C!Configure, WritingInv, C!Saving
  <1>9. FirstInv'
    BY <1>3, SaveBegins DEF C!Configure, FirstInv
  <1>10. ChoicesInv'
    BY <1>1, <1>3, <1>4, SaveBegins DEF C!Configure, ChoicesInv, Choices, AtRest
  <1>11. PacesInv'
    <2>1. cPc = "menu" /\ cPc' = "saving" /\ UNCHANGED <<caps, cfgPace, pace, own, damaged>>
      BY DEF C!Configure
    <2>2. plan' = lines
      BY <1>3, SaveBegins
    <2> QED
      BY <1>2, <1>5, <2>1, <2>2 DEF PacesInv, AtRest, C!TypeOK
  <1> QED
    BY <1>7, <1>8, <1>9, <1>10, <1>11

LEMMA ConfigStutter == ConfigInv /\ UNCHANGED C!vars => ConfigInv'
  BY DEF ConfigInv, C!vars, C!file, C!memory, C!history, C!TypeOK, WritingInv, FirstInv,
         ChoicesInv, PacesInv, Choices, C!Saving

\* The configuration keeps its inductive invariant, for any functions, versions and modules.
THEOREM ConfigInductive == C!Spec => []ConfigInv
  <1>1. ConfigInv /\ [C!Next]_C!vars => ConfigInv'
    <2> SUFFICES ASSUME ConfigInv, [C!Next]_C!vars PROVE ConfigInv'
      OBVIOUS
    <2> QED
      BY SessionSteps, PaceStep, WriteSteps, FirstBootStep, BootStep, AppendStep, LoadStep,
         ConfigureStep, ConfigStutter DEF C!Next
  <1> QED
    BY ConfigInitial, <1>1, PTL DEF C!Spec

\* What the user has enabled last is what runs, after restarts and upgrades, unless a
\* write was cut short (ChoicesSurvive; SyncConfig, saveConfig).
THEOREM ChoicesKept == HostSpec => []ChoicesSurvive
  <1>1. ConfigInv => ChoicesSurvive
    BY DEF ConfigInv, ChoicesInv, ChoicesSurvive, C!ChoicesSurvive
  <1> QED
    BY <1>1, HostHasConfig, ConfigInductive, PTL

\* A pace that the user has set is kept by every save and upgrade, unless a write was cut
\* short or the file had no header (PacesSurvive).
THEOREM PacesKept == HostSpec => []PacesSurvive
  <1>1. ConfigInv => PacesSurvive
    BY DEF ConfigInv, PacesInv, PacesSurvive, C!PacesSurvive
  <1> QED
    BY <1>1, HostHasConfig, ConfigInductive, PTL

\* Whatever write was cut short before, a boot that reaches its end leaves the file whole
\* (BootRepairs).
THEOREM BootLeavesWhole == HostSpec => []BootRepairs
  <1>1. ConfigInv => BootRepairs
    BY DEF ConfigInv, WritingInv, BootRepairs, C!BootRepairs, C!TypeOK
  <1> QED
    BY <1>1, HostHasConfig, ConfigInductive, PTL

-----------------------------------------------------------------------------
(* The loading of the scope rules: a fingerprint that still fits the files  *)
(* says that what was read after it is what they say, since every edit      *)
(* brings a new stamp.                                                      *)

Rules == SUBSET UNION Contents

\* The files of a fingerprint are there as they were when it was taken.
Fits(fp) == \A f \in DOMAIN fp : text[f] # None /\ stamp[f] = fp[f]
\* What they say.
Says(fs) == UNION {text[f] : f \in fs}
\* A fingerprint of a listing, and not of the future.
TakenOf(fp) == DOMAIN fp \subseteq RuleFile /\ \A f \in DOMAIN fp : fp[f] \in Nat /\ fp[f] <= stamp[f]

RulesTyped ==
    /\ dir \in BOOLEAN /\ current \in BOOLEAN
    /\ text \in [RuleFile -> Contents \cup {None}]
    /\ ~dir => \A f \in RuleFile : text[f] = None
    /\ edits \in Nat
    /\ stamp \in [RuleFile -> Nat] /\ \A f \in RuleFile : stamp[f] <= edits
    /\ found \in Rules /\ lastHash \in Rules \cup {None}
    /\ sPc \in {"idle", "stat", "read"}
    /\ unseen \in SUBSET RuleFile
    /\ TakenOf(fingerprint) /\ TakenOf(lastFingerprint)

\* The rules in memory are those of the last hash, and of the last fingerprint.
MemoryInv ==
    /\ rules = IF lastHash = None THEN {} ELSE lastHash
    /\ Fits(lastFingerprint) => rules = Says(DOMAIN lastFingerprint)

\* What a Load has found goes with its fingerprint; undisturbed, it covers all files.
LoadInv ==
    /\ sPc \in {"idle", "stat"} => found = {}
    /\ sPc = "idle" => DOMAIN fingerprint = {}
    /\ sPc = "read" =>
           /\ unseen \subseteq DOMAIN fingerprint
           /\ Fits(fingerprint) => found = Says(DOMAIN fingerprint \ unseen)
    /\ current /\ sPc # "idle" => Fits(fingerprint)
    /\ current /\ sPc = "stat" => DOMAIN fingerprint \cup unseen = S!Present
    /\ current /\ sPc = "read" => DOMAIN fingerprint = S!Present

RulesInv == RulesTyped /\ MemoryInv /\ LoadInv /\ S!LoadCatchesUp

-----------------------------------------------------------------------------
LEMMA PresentFiles ==
    ASSUME RulesTyped
        PROVE S!Present = {f \in RuleFile : text[f] # None} /\ S!Written = Says(S!Present)
  BY DEF RulesTyped, S!Present, S!Written, Says

LEMMA RulesInitial == ASSUME S!Init PROVE RulesInv
  <1>1. S!Present = {f \in RuleFile : text[f] # None} /\ S!Written = Says(S!Present)
    BY DEF S!Init, S!Present, S!Written, Says
  <1>2. DOMAIN fingerprint = {} /\ DOMAIN lastFingerprint = S!Present
    BY DEF S!Init
  <1>3. S!Written \in Rules /\ S!Written # None
    BY <1>1, NoneApart DEF S!Init, Rules, Says
  <1>4. RulesTyped
    <2>1. TakenOf(fingerprint)
      BY <1>2 DEF TakenOf
    <2>2. TakenOf(lastFingerprint)
      BY <1>1 DEF S!Init, TakenOf
    <2>3. found \in Rules /\ lastHash \in Rules
      BY <1>3 DEF S!Init, Rules
    <2> QED
      BY <2>1, <2>2, <2>3 DEF S!Init, RulesTyped
  <1>5. MemoryInv
    BY <1>1, <1>2, <1>3 DEF S!Init, MemoryInv
  <1>6. LoadInv /\ S!LoadCatchesUp
    BY <1>2 DEF S!Init, LoadInv, S!LoadCatchesUp
  <1> QED
    BY <1>4, <1>5, <1>6 DEF RulesInv

-----------------------------------------------------------------------------
\* A file that is edited gets a stamp that no fingerprint has: one that still fits does
\* not speak of it.
LEMMA EditedApart ==
    ASSUME RulesTyped, NEW f \in RuleFile, S!EditFile(f), NEW fp, TakenOf(fp), Fits(fp)'
    PROVE  f \notin DOMAIN fp /\ Fits(fp) /\ \A g \in DOMAIN fp : text'[g] = text[g]
  <1>1. stamp'[f] = edits + 1
    BY DEF S!EditFile, S!Edited, RulesTyped
  <1>2. f \notin DOMAIN fp
    BY <1>1 DEF Fits, TakenOf, RulesTyped
  <1>3. \A g \in DOMAIN fp : text'[g] = text[g] /\ stamp'[g] = stamp[g]
    BY <1>2 DEF S!EditFile, RulesTyped, TakenOf
  <1> QED
    BY <1>2, <1>3 DEF Fits

LEMMA EditSteps ==
    ASSUME RulesInv, S!RemoveDir \/ S!MakeDir \/ \E f \in RuleFile : S!EditFile(f)
    PROVE  RulesInv'
  <1> USE DEF RulesInv
  <1>0. ~current'
    BY DEF S!RemoveDir, S!MakeDir, S!EditFile, S!Edited
  <1>1. CASE S!RemoveDir
    <2>1. RulesTyped'
      <3>1. text' \in [RuleFile -> Contents \cup {None}] /\ \A f \in RuleFile : text'[f] = None
        BY <1>1 DEF S!RemoveDir
      <3>2. dir' \in BOOLEAN /\ current' \in BOOLEAN
        BY <1>1 DEF S!RemoveDir, S!Edited
      <3>3. edits' \in Nat /\ stamp' \in [RuleFile -> Nat] /\ \A f \in RuleFile : stamp'[f] <= edits'
        BY <1>1 DEF S!RemoveDir, S!Edited, RulesTyped
      <3> QED
        BY <1>1, <3>1, <3>2, <3>3 DEF S!RemoveDir, S!Edited, S!memory, S!loading, RulesTyped,
            TakenOf
    <2>2. ASSUME NEW fp, TakenOf(fp), Fits(fp)' PROVE DOMAIN fp = {}
      BY <1>1, <2>2 DEF S!RemoveDir, Fits, TakenOf
    <2>3. MemoryInv'
      BY <1>1, <2>2 DEF S!RemoveDir, S!Edited, S!memory, MemoryInv, Fits, Says, RulesTyped
    <2>4. LoadInv'
      BY <1>0, <1>1, <2>2 DEF S!RemoveDir, S!Edited, S!loading, LoadInv, Fits, Says, RulesTyped
    <2> QED
      BY <1>0, <2>1, <2>3, <2>4 DEF S!LoadCatchesUp
  <1>2. CASE S!MakeDir
    <2>1. RulesTyped'
      <3>1. dir' \in BOOLEAN /\ current' \in BOOLEAN /\ dir'
        BY <1>2 DEF S!MakeDir, S!Edited
      <3>2. edits' \in Nat /\ \A f \in RuleFile : stamp'[f] <= edits'
        BY <1>2 DEF S!MakeDir, S!Edited, RulesTyped
      <3> QED
        BY <1>2, <3>1, <3>2 DEF S!MakeDir, S!Edited, S!memory, S!loading, RulesTyped, TakenOf
    <2>2. MemoryInv'
      BY <1>2 DEF S!MakeDir, S!Edited, S!memory, MemoryInv, Fits, Says
    <2>3. LoadInv'
      BY <1>0, <1>2 DEF S!MakeDir, S!Edited, S!loading, LoadInv, Fits, Says
    <2> QED
      BY <1>0, <2>1, <2>2, <2>3 DEF S!LoadCatchesUp
  <1>3. ASSUME NEW f \in RuleFile, S!EditFile(f) PROVE RulesInv'
    <2>1. RulesTyped'
      <3>1. stamp' \in [RuleFile -> Nat] /\ \A g \in RuleFile : stamp'[g] <= edits' /\ stamp[g] <= stamp'[g]
        BY <1>3 DEF S!EditFile, S!Edited, RulesTyped
      <3>2. TakenOf(fingerprint)' /\ TakenOf(lastFingerprint)'
        BY <1>3, <3>1 DEF S!EditFile, S!Edited, S!memory, S!loading, RulesTyped, TakenOf
      <3>3. dir' \in BOOLEAN /\ current' \in BOOLEAN /\ dir'
        BY <1>3, Zenon DEF S!EditFile, S!Edited, RulesTyped
      <3>5. edits' \in Nat
        BY <1>3 DEF S!EditFile, S!Edited, RulesTyped
      <3>4. text' \in [RuleFile -> Contents \cup {None}]
        BY <1>3 DEF S!EditFile, RulesTyped
      <3> QED
        BY <1>3, <3>1, <3>2, <3>3, <3>4, <3>5 DEF S!EditFile, S!Edited, S!memory, S!loading,
            RulesTyped
    <2>2. MemoryInv'
      <3>1. rules' = rules /\ lastHash' = lastHash /\ lastFingerprint' = lastFingerprint
        BY <1>3 DEF S!EditFile, S!Edited, S!memory
      <3>2. ASSUME Fits(lastFingerprint)'
           
               
                   
                       
                           
                               
                                   
                                       
                                           
                                               
                                                   
                                                       
                                                           
                                                               
                                                                   
                                                                       
                                                                           
                                                                               
                                                                                   
                                                                                       
                                                                                            PROVE  Fits(lastFingerprint) /\ Says(DOMAIN lastFingerprint)' = Says(DOMAIN lastFingerprint)
        <4>1. \A g \in DOMAIN lastFingerprint : text'[g] = text[g]
          BY <1>3, <3>1, <3>2, EditedApart DEF RulesTyped, Fits
        <4>2. Fits(lastFingerprint)
          BY <1>3, <3>1, <3>2, EditedApart DEF RulesTyped, Fits
        <4> QED
          BY <3>1, <4>1, <4>2 DEF Says
      <3> QED
        BY <3>1, <3>2 DEF MemoryInv
    <2>3. LoadInv'
      <3>1. sPc' = sPc /\ unseen' = unseen /\ found' = found /\ fingerprint' = fingerprint
        BY <1>3 DEF S!EditFile, S!Edited, S!loading
      <3>2. ASSUME sPc = "read", Fits(fingerprint)'
            PROVE  found = Says(DOMAIN fingerprint \ unseen)'
        <4>1. \A g \in DOMAIN fingerprint : text'[g] = text[g]
          BY <1>3, <3>1, <3>2, EditedApart DEF RulesTyped, Fits
        <4>2. Fits(fingerprint)
          BY <1>3, <3>1, <3>2, EditedApart DEF RulesTyped, Fits
        <4> QED
          BY <3>1, <3>2, <4>1, <4>2 DEF Says, LoadInv
      <3> QED
        BY <1>0, <3>1, <3>2 DEF LoadInv
    <2> QED
      BY <1>0, <2>1, <2>2, <2>3 DEF S!LoadCatchesUp
  <1> QED
    BY <1>1, <1>2, <1>3

-----------------------------------------------------------------------------
LEMMA Reading ==
    ASSUME RulesInv, NEW f \in RuleFile, S!Stat(f) \/ S!Read(f)
    PROVE  RulesInv'
  <1> USE DEF RulesInv
  <1>0. S!Present = {g \in RuleFile : text[g] # None} /\ S!Present' = S!Present
    <2>1. S!Present = {g \in RuleFile : text[g] # None}
      BY PresentFiles
    <2> QED
      BY <2>1 DEF S!Stat, S!Read, S!files, S!Present
  <1>1. CASE S!Stat(f)
    <2>1. DOMAIN fingerprint' = DOMAIN fingerprint \cup {f}
      BY <1>1 DEF S!Stat
    <2>2. fingerprint'[f] = stamp[f] /\ \A g \in DOMAIN fingerprint : g # f => fingerprint'[g] = fingerprint[g]
      BY <1>1 DEF S!Stat
    <2>3. RulesTyped'
      <3>1. TakenOf(fingerprint)'
        BY <1>1, <2>1, <2>2 DEF S!Stat, S!files, RulesTyped, TakenOf
      <3> QED
        BY <1>1, <3>1 DEF S!Stat, S!files, S!memory, RulesTyped, TakenOf
    <2>4. MemoryInv'
      BY <1>1 DEF S!Stat, S!files, S!memory, MemoryInv, Fits, Says
    <2>5. LoadInv'
      <3>1. current => Fits(fingerprint)'
        BY <1>0, <1>1, <2>1, <2>2 DEF S!Stat, S!files, LoadInv, Fits
      <3>2. current => DOMAIN fingerprint' \cup unseen' = S!Present
        BY <1>1, <2>1 DEF S!Stat, LoadInv
      <3> QED
        BY <1>0, <1>1, <3>1, <3>2 DEF S!Stat, LoadInv
    <2> QED
      BY <1>1, <2>3, <2>4, <2>5 DEF S!Stat, S!LoadCatchesUp
  <1>2. CASE S!Read(f)
    <2>1. RulesTyped'
      <3>1. text[f] \in Contents
        BY <1>0, <1>2 DEF S!Read, RulesTyped
      <3>2. found' \in Rules
        BY <1>2, <3>1 DEF S!Read, RulesTyped, Rules
      <3> QED
        BY <1>2, <3>2 DEF S!Read, S!files, S!memory, RulesTyped, TakenOf
    <2>2. MemoryInv'
      BY <1>2 DEF S!Read, S!files, S!memory, MemoryInv, Fits, Says
    <2>3. LoadInv'
      <3>1. Says(DOMAIN fingerprint \ unseen') = Says(DOMAIN fingerprint \ unseen) \cup text[f]
        BY <1>2 DEF S!Read, LoadInv, Says
      <3>2. Fits(fingerprint)' => found' = Says(DOMAIN fingerprint \ unseen)'
        BY <1>2, <3>1 DEF S!Read, S!files, LoadInv, Fits, Says
      <3> QED
        BY <1>0, <1>2, <3>2 DEF S!Read, S!files, LoadInv, Fits
    <2> QED
      BY <1>2, <2>1, <2>2, <2>3 DEF S!Read, S!LoadCatchesUp
  <1> QED
    BY <1>1, <1>2

LEMMA BeginAndEnd ==
    ASSUME RulesInv, S!ReadDir \/ S!NoDir \/ S!Fail \/ S!Compare \/ S!Install
    PROVE  RulesInv'
  <1> USE DEF RulesInv
  <1>0. S!Present = {g \in RuleFile : text[g] # None} /\ S!Written = Says(S!Present)
    BY PresentFiles
  <1>1. CASE S!ReadDir
    <2>1. S!Present' = S!Present
      BY <1>1 DEF S!ReadDir, S!files, S!Present
    <2>2. RulesTyped'
      BY <1>0, <1>1 DEF S!ReadDir, S!files, S!memory, RulesTyped, TakenOf
    <2>3. MemoryInv'
      BY <1>1 DEF S!ReadDir, S!files, S!memory, MemoryInv, Fits, Says
    <2>4. LoadInv'
      BY <1>1, <2>1 DEF S!ReadDir, S!files, LoadInv, Fits
    <2> QED
      BY <1>1, <2>2, <2>3, <2>4 DEF S!ReadDir, S!LoadCatchesUp
  <1>2. CASE S!NoDir
    <2>1. S!Present = {} /\ S!Written = {} /\ S!Written' = {}
      BY <1>0, <1>2 DEF S!NoDir, S!files, RulesTyped, Says, S!Present, S!Written
    <2>2. rules' = {} /\ lastHash' = None
      BY <1>2 DEF S!NoDir, S!memory, MemoryInv
    <2>3. RulesTyped'
      BY <1>2, <2>2 DEF S!NoDir, S!files, S!memory, S!loading, RulesTyped, TakenOf
    <2>4. MemoryInv'
      <3>1. CASE lastHash = None
        BY <1>2, <2>2, <3>1 DEF S!NoDir, S!files, S!memory, MemoryInv, Fits, Says
      <3>2. CASE lastHash # None
        BY <1>2, <2>2, <3>2 DEF S!NoDir, S!files, MemoryInv, Fits, Says
      <3> QED
        BY <3>1, <3>2
    <2>5. LoadInv'
      BY <1>2 DEF S!NoDir, S!files, S!loading, LoadInv, Fits, Says
    <2> QED
      BY <2>1, <2>2, <2>3, <2>4, <2>5 DEF S!LoadCatchesUp
  <1>3. CASE S!Fail
    <2>1. RulesTyped'
      <3>1. TakenOf(fingerprint)' /\ TakenOf(lastFingerprint)'
        BY <1>3 DEF S!Fail, S!Return, S!files, S!memory, RulesTyped, TakenOf
      <3>2. found' \in Rules /\ unseen' \in SUBSET RuleFile /\ sPc' = "idle" /\ current' \in BOOLEAN
        BY <1>3 DEF S!Fail, S!Return, Rules
      <3> QED
        BY <1>3, <3>1, <3>2 DEF S!Fail, S!files, S!memory, RulesTyped
    <2>2. MemoryInv'
      BY <1>3 DEF S!Fail, S!files, S!memory, MemoryInv, Fits, Says
    <2>3. LoadInv'
      BY <1>3 DEF S!Fail, S!Return, LoadInv
    <2> QED
      BY <1>3, <2>1, <2>2, <2>3 DEF S!Fail, S!LoadCatchesUp
  <1>4. CASE S!Compare
    <2>0. S!Present' = S!Present /\ S!Written' = S!Written
      BY <1>4 DEF S!Compare, S!files, S!Present, S!Written
    <2>1. RulesTyped'
      BY <1>4 DEF S!Compare, S!Return, S!files, S!memory, RulesTyped, TakenOf, Rules
    <2>2. MemoryInv'
      BY <1>4 DEF S!Compare, S!files, S!memory, MemoryInv, Fits, Says
    <2>3. CASE lastFingerprint # <<>> /\ fingerprint = lastFingerprint
      <3>1. LoadInv'
        BY <1>4, <2>3 DEF S!Compare, S!Return, LoadInv
      <3>2. current => rules = S!Written
        BY <1>0, <1>4, <2>3 DEF S!Compare, MemoryInv, LoadInv
      <3> QED
        BY <1>4, <2>0, <2>1, <2>2, <3>1, <3>2 DEF S!Compare, S!memory, S!LoadCatchesUp
    <2>4. CASE ~(lastFingerprint # <<>> /\ fingerprint = lastFingerprint)
      <3>1. LoadInv'
        BY <1>4, <2>0, <2>4 DEF S!Compare, S!files, LoadInv, Fits, Says
      <3> QED
        BY <1>4, <2>1, <2>2, <2>4, <3>1 DEF S!Compare, S!LoadCatchesUp
    <2> QED
      BY <2>3, <2>4
  <1>5. CASE S!Install
    <2>0. S!Written' = S!Written
      BY <1>5 DEF S!Install, S!files, S!Present, S!Written
    <2>1. rules' = found /\ lastHash' = found /\ found # None
      BY <1>5, NoneApart DEF S!Install, MemoryInv, RulesTyped, Rules
    <2>2. RulesTyped'
      BY <1>5, <2>1 DEF S!Install, S!Return, S!files, RulesTyped, TakenOf, Rules
    <2>3. Fits(fingerprint) => found = Says(DOMAIN fingerprint)
      BY <1>5 DEF S!Install, LoadInv
    <2>4. MemoryInv'
      BY <1>5, <2>1, <2>3 DEF S!Install, S!files, MemoryInv, Fits, Says
    <2>5. LoadInv'
      BY <1>5 DEF S!Install, S!Return, LoadInv
    <2>6. current => found = S!Written
      BY <1>0, <1>5, <2>3 DEF S!Install, LoadInv
    <2> QED
      BY <1>5, <2>0, <2>1, <2>2, <2>4, <2>5, <2>6 DEF S!Install, S!LoadCatchesUp
  <1> QED
    BY <1>1, <1>2, <1>3, <1>4, <1>5

LEMMA RulesNext == ASSUME RulesInv, [S!Next]_S!vars PROVE RulesInv'
  <1>1. CASE S!Next
    BY <1>1, EditSteps, Reading, BeginAndEnd DEF S!Next
  <1>2. CASE UNCHANGED S!vars
    <2> USE <1>2 DEF S!vars, S!files, S!memory, S!loading
    <2>1. RulesTyped'
      BY DEF RulesInv, RulesTyped, TakenOf
    <2>2. MemoryInv'
      BY DEF RulesInv, MemoryInv, Fits, Says
    <2>3. LoadInv' /\ S!LoadCatchesUp'
      BY DEF RulesInv, LoadInv, Fits, Says, S!Present, S!LoadCatchesUp, S!Written
    <2> QED
      BY <2>1, <2>2, <2>3 DEF RulesInv
  <1> QED
    BY <1>1, <1>2

-----------------------------------------------------------------------------
\* Load keeps the inductive invariant, for any files, contents and edits.
THEOREM RulesInductive == S!Spec => []RulesInv
  <1>1. S!Init => RulesInv
    BY RulesInitial
  <1>2. RulesInv /\ [S!Next]_S!vars => RulesInv'
    BY RulesNext
  <1> QED
    BY <1>1, <1>2, PTL DEF S!Spec


\* A Load that begins after the last edit leaves the rules that are written, whether it
\* reads the files itself or relies on the fingerprint of an earlier Load (LoadCatchesUp).
THEOREM RulesCatchUp == HostSpec => []LoadCatchesUp
  <1>1. RulesInv => LoadCatchesUp
    BY DEF RulesInv, LoadCatchesUp
  <1> QED
    BY <1>1, HostHasRules, RulesInductive, PTL

\* Whatever is edited, no Load changes an answer without reporting it (ChangesAreReported).
THEOREM ChangesReported == HostSpec => []ChangesAreReported
  <1>1. S!Init => S!ChangesAreReported
    BY DEF S!Init, S!ChangesAreReported
  <1>2. RulesInv /\ S!ChangesAreReported /\ [S!Next]_S!vars => S!ChangesAreReported'
    <2> SUFFICES ASSUME RulesInv, S!ChangesAreReported, [S!Next]_S!vars
        PROVE S!ChangesAreReported'
      OBVIOUS
    <2>1. (rules' = rules /\ told' = told) \/ told' = S!Answers(rules')
      <3>1. CASE S!Install
        BY <3>1, NoneApart DEF S!Install, RulesInv, MemoryInv, RulesTyped, Rules
      <3>2. CASE S!NoDir
        BY <3>2 DEF S!NoDir, S!memory
      <3>3. CASE ~S!Install /\ ~S!NoDir
        BY <3>3 DEF S!Next, S!vars, S!memory, S!RemoveDir, S!MakeDir, S!EditFile, S!Edited,
                    S!ReadDir, S!Fail, S!Compare, S!Stat, S!Read
      <3> QED
        BY <3>1, <3>2, <3>3
    <2> QED
      BY <2>1 DEF S!ChangesAreReported, S!Answers
  <1>3. S!Spec => []S!ChangesAreReported
    BY <1>1, <1>2, RulesInductive, PTL DEF S!Spec
  <1>4. S!ChangesAreReported => ChangesAreReported
    BY DEF ChangesAreReported
  <1> QED
    BY <1>3, <1>4, HostHasRules, PTL
=============================================================================
