------------------------------ MODULE Updater -------------------------------
(***************************************************************************)
(* The self-update (internal/updater). Update downloads an archive, checks *)
(* its digest and replaces the executable: on POSIX systems a temporary    *)
(* file is renamed over it, on Windows the running executable is moved to  *)
(* .old first. Several processes may update at once, each may die between  *)
(* two steps, and every call of the file system may fail.                  *)
(***************************************************************************)
EXTENDS Naturals, FiniteSets

CONSTANT Updating   \* processes that run "update"

VARIABLES
    windows,  \* the system they run on, which does not change
    pc,       \* "off", "download", "extract", "copy", "chmod", "rename", "away",
              \* "write", "back", "done"
    image,    \* the file a process was started from: "exec", "old" or "gone"
    exec,     \* the executable: "whole", "part" or "none"
    old,      \* the .old file beside it, likewise
    temp,     \* the temporary file of a process, likewise
    lost      \* history: closing a temporary file has lost data unnoticed

vars == <<windows, pc, image, exec, old, temp, lost>>
File == {"whole", "part", "none"}

TypeOK ==
    /\ pc \in [Updating -> {"off", "download", "extract", "copy", "chmod", "rename",
                            "away", "write", "back", "done"}]
    /\ image \in [Updating -> {"exec", "old", "gone"}]
    /\ exec \in File /\ old \in File
    /\ temp \in [Updating -> File]
    /\ windows \in BOOLEAN /\ lost \in BOOLEAN

Init ==
    /\ pc = [p \in Updating |-> "off"]
    /\ image = [p \in Updating |-> "gone"]
    /\ exec = "whole" /\ old = "none"
    /\ temp = [p \in Updating |-> "none"]
    /\ windows \in BOOLEAN /\ lost = FALSE

Goto(p, from, to) == pc[p] = from /\ pc' = [pc EXCEPT ![p] = to]
Running == {p \in Updating : pc[p] # "off"}

\* Windows refuses to remove or to replace the image of a running process, and
\* moves it along when it is renamed.
InUse(file) == windows /\ \E p \in Running : image[p] = file

\* Only a complete executable starts.
Start(p) ==
    /\ exec = "whole" /\ Goto(p, "off", "download")
    /\ image' = [image EXCEPT ![p] = "exec"]
    /\ UNCHANGED <<windows, exec, old, temp, lost>>

\* The program ends: killed, or done. What it left in its temporary file stays.
End(p) ==
    /\ pc[p] # "off" /\ pc' = [pc EXCEPT ![p] = "off"]
    /\ image' = [image EXCEPT ![p] = "gone"]
    /\ UNCHANGED <<windows, exec, old, temp, lost>>

\* downloadAndVerifyAsset: no bytes reach the replacement unless the digest matches.
Download(p) ==
    /\ \/ Goto(p, "download", "extract")
       \/ Goto(p, "download", "done")
    /\ UNCHANGED <<windows, image, exec, old, temp, lost>>

-----------------------------------------------------------------------------
(* performAtomicSwap. The deferred osRemove finds the temporary file gone   *)
(* when it has been renamed.                                                *)

Fail(p, from) == Goto(p, from, "done") /\ temp' = [temp EXCEPT ![p] = "none"]

CreateTemp(p) ==
    /\ ~windows
    /\ \/ Goto(p, "extract", "copy") /\ temp' = [temp EXCEPT ![p] = "part"]
       \/ Fail(p, "extract")
    /\ UNCHANGED <<windows, image, exec, old, lost>>

\* The mutant copies the archive's entry into the executable itself.
CopyInPlace(p) ==
    /\ \/ Goto(p, "copy", "chmod") /\ exec' = "whole" /\ temp' = [temp EXCEPT ![p] = "whole"]
       \/ Fail(p, "copy") /\ exec' = "part"
    /\ UNCHANGED <<windows, image, old, lost>>

\* The error of Close is dropped: the data may be incomplete without a word.
CopyBody(p) ==
    /\ \/ /\ Goto(p, "copy", "chmod")
          /\ \/ temp' = [temp EXCEPT ![p] = "whole"] /\ UNCHANGED lost
             \/ lost' = TRUE /\ UNCHANGED temp
       \/ Fail(p, "copy") /\ UNCHANGED lost
    /\ UNCHANGED <<windows, image, exec, old>>

Chmod(p) ==
    /\ \/ Goto(p, "chmod", "rename") /\ UNCHANGED temp
       \/ Fail(p, "chmod")
    /\ UNCHANGED <<windows, image, exec, old, lost>>

Swap(p) ==
    /\ \/ Goto(p, "rename", "done") /\ exec' = temp[p]
       \/ Goto(p, "rename", "done") /\ UNCHANGED exec
    /\ temp' = [temp EXCEPT ![p] = "none"]
    /\ UNCHANGED <<windows, image, old, lost>>

-----------------------------------------------------------------------------
(* performWindowsReplace.                                                   *)

RemoveOld(p) ==
    /\ windows /\ Goto(p, "extract", "away")
    /\ \/ ~InUse("old") /\ old' = "none"
       \/ UNCHANGED old
    /\ UNCHANGED <<windows, image, exec, temp, lost>>

\* A rename replaces its target, if that is not in use.
CanReplace(content, file) == content = "none" \/ ~InUse(file)

MoveAway(p) ==
    /\ \/ /\ exec # "none" /\ CanReplace(old, "old")
          /\ Goto(p, "away", "write")
          /\ exec' = "none" /\ old' = exec
          /\ image' = [q \in Updating |-> IF image[q] = "exec" THEN "old" ELSE image[q]]
       \/ Goto(p, "away", "done") /\ UNCHANGED <<exec, old, image>>
    /\ UNCHANGED <<windows, temp, lost>>

\* osWriteFile truncates or creates, then writes; it may fail on either side.
WriteNew(p) ==
    /\ \/ /\ pc[p] = "write" /\ exec # "part" /\ ~InUse("exec")
          /\ exec' = "part" /\ UNCHANGED pc
       \/ exec = "part" /\ exec' = "whole" /\ Goto(p, "write", "done")
       \/ Goto(p, "write", "back") /\ UNCHANGED exec
    /\ UNCHANGED <<windows, image, old, temp, lost>>

MoveBack(p) ==
    /\ Goto(p, "back", "done")
    /\ \/ /\ old # "none" /\ CanReplace(exec, "exec")
          /\ exec' = old /\ old' = "none"
          /\ image' = [q \in Updating |-> IF image[q] = "old" THEN "exec" ELSE image[q]]
       \/ UNCHANGED <<exec, old, image>>
    /\ UNCHANGED <<windows, temp, lost>>

-----------------------------------------------------------------------------
Next == \E p \in Updating :
            \/ Start(p) \/ End(p) \/ Download(p)
            \/ CreateTemp(p) \/ CopyBody(p) \/ Chmod(p) \/ Swap(p)
            \/ RemoveOld(p) \/ MoveAway(p) \/ WriteNew(p) \/ MoveBack(p)

Spec == Init /\ [][Next]_vars

-----------------------------------------------------------------------------
\* Whichever processes update at once and wherever one of them dies, a complete
\* executable is left at its place or beside it - unless a close has lost data.
BinarySurvives == exec = "whole" \/ old = "whole" \/ lost
=============================================================================
