----------------------------- MODULE ScopeFiles -----------------------------
(***************************************************************************)
(* The loading of the scope rules (internal/scopemanager).  Load lists the *)
(* files under configs/scope, takes a fingerprint of their sizes and       *)
(* times, and reads them if it differs from that of the last ones; the     *)
(* user may edit, remove and add files, and the directory, between any two *)
(* of these steps.  Load reports whether the rules have changed, which is  *)
(* all that its callers go by.  One Load runs at a time.  (ScopeSync takes *)
(* Load for one step.)                                                     *)
(***************************************************************************)
EXTENDS Naturals, Sequences

CONSTANTS
    File,     \* the .txt files of the directory
    Name,     \* domains and subdomains, as sequences of labels
    Other,    \* addresses, and entities of other types, as sequences of one
    Contents, \* what a file may say: sets of rules, of which one says for the
              \* names, or the other entities, in "of" whether it allows them
    None,     \* no file, or no hash
    MaxEdits  \* bound on the edits

VARIABLES
    dir,          \* the directory exists
    text, stamp,  \* what a file says, and its size and time, new with every edit
    edits,
    rules,        \* the rules in memory
    lastFingerprint, lastHash,  \* of the files they come from
    pc,           \* "idle", "stat", "read"
    unseen,       \* the files listed that have not been looked at, or read
    fingerprint, found,  \* of those that have
    told,         \* history: the answers that the callers go by
    current       \* history: nothing was edited since the present Load, or the last one
                  \* and that without an error, began

files == <<dir, text, stamp, edits>>
memory == <<rules, lastFingerprint, lastHash>>
loading == <<pc, unseen, fingerprint, found>>
vars == <<files, memory, loading, told, current>>

-----------------------------------------------------------------------------
Allowing(rs) == {r \in rs : r.allow}
Covered(rs) == UNION {r.of : r \in rs}
Suffixes(n) == {SubSeq(n, i, Len(n)) : i \in 1..Len(n)}

\* Of a name the rule for its longest suffix decides, and if there are two the one that
\* allows; of everything else any rule that allows.
IsOutOfScope(rs, e) ==
    LET allowed == Covered(Allowing(rs))
        blocked == Covered(rs \ Allowing(rs))
    IN  IF e \in Name
        THEN \E s \in Suffixes(e) \cap blocked :
                 \A t \in Suffixes(e) \cap allowed : Len(t) < Len(s)
        ELSE e \in blocked \ allowed

IsExplicitlyAllowed(rs, e) ==
    (IF e \in Name THEN Suffixes(e) ELSE {e}) \cap Covered(Allowing(rs)) # {}

Answers(rs) == [e \in Name \cup Other |-> <<IsOutOfScope(rs, e), IsExplicitlyAllowed(rs, e)>>]

Present == IF dir THEN {f \in File : text[f] # None} ELSE {}
Written == UNION {text[f] : f \in Present}

TypeOK ==
    /\ dir \in BOOLEAN
    /\ text \in [File -> Contents \cup {None}] /\ stamp \in [File -> 0..MaxEdits]
    /\ edits \in 0..MaxEdits
    /\ rules \subseteq UNION Contents /\ found \subseteq UNION Contents
    /\ unseen \subseteq File
    /\ pc \in {"idle", "stat", "read"}
    /\ current \in BOOLEAN

-----------------------------------------------------------------------------
\* After Setup, whose Load nobody disturbs.
Init ==
    /\ dir = TRUE /\ text \in [File -> Contents \cup {None}]
    /\ stamp = [f \in File |-> 0] /\ edits = 0
    /\ rules = Written /\ lastHash = Written /\ lastFingerprint = [f \in Present |-> 0]
    /\ pc = "idle" /\ unseen = {} /\ fingerprint = <<>> /\ found = {}
    /\ told = Answers(rules) /\ current = TRUE

Edited ==
    /\ edits < MaxEdits /\ edits' = edits + 1
    /\ current' = FALSE
    /\ UNCHANGED <<memory, loading, told>>

EditFile(f) ==
    /\ dir /\ Edited
    /\ \E c \in (Contents \cup {None}) \ {text[f]} : text' = [text EXCEPT ![f] = c]
    /\ stamp' = [stamp EXCEPT ![f] = edits']
    /\ UNCHANGED dir

RemoveDir ==
    /\ dir /\ Edited
    /\ dir' = FALSE /\ text' = [f \in File |-> None]
    /\ UNCHANGED stamp

MakeDir == ~dir /\ Edited /\ dir' = TRUE /\ UNCHANGED <<text, stamp>>

-----------------------------------------------------------------------------
(* Load *)

Return ==
    /\ pc' = "idle"
    /\ unseen' = {} /\ fingerprint' = <<>> /\ found' = {}

ReadDir ==
    /\ pc = "idle" /\ dir
    /\ pc' = "stat" /\ unseen' = Present
    /\ current' = TRUE
    /\ UNCHANGED <<files, memory, fingerprint, found, told>>

\* Without the directory there are no rules.
NoDir ==
    /\ pc = "idle" /\ ~dir
    /\ current' = TRUE
    /\ IF lastHash = None THEN UNCHANGED <<memory, told>>
       ELSE /\ rules' = {} /\ lastFingerprint' = <<>> /\ lastHash' = None
            /\ told' = Answers(rules')
    /\ UNCHANGED <<files, loading>>

Stat(f) ==
    /\ pc = "stat" /\ f \in unseen \cap Present
    /\ unseen' = unseen \ {f}
    /\ fingerprint' = [g \in DOMAIN fingerprint \cup {f} |->
                           IF g = f THEN stamp[f] ELSE fingerprint[g]]
    /\ UNCHANGED <<files, memory, pc, found, told, current>>

\* A listed file is gone: Load returns the error.
Fail ==
    /\ pc \in {"stat", "read"} /\ unseen \ Present # {}
    /\ Return
    /\ current' = FALSE
    /\ UNCHANGED <<files, memory, told>>

\* Nothing has changed since the last Load, or the files are read.
Compare ==
    /\ pc = "stat" /\ unseen = {}
    /\ IF lastFingerprint # <<>> /\ fingerprint = lastFingerprint
       THEN Return
       ELSE pc' = "read" /\ unseen' = DOMAIN fingerprint /\ UNCHANGED <<fingerprint, found>>
    /\ UNCHANGED <<files, memory, told, current>>

Read(f) ==
    /\ pc = "read" /\ f \in unseen \cap Present
    /\ unseen' = unseen \ {f} /\ found' = found \cup text[f]
    /\ UNCHANGED <<files, memory, pc, fingerprint, told, current>>

\* The mutant takes the fingerprint of the files as they are when they have been read.
InstallLate ==
    /\ pc = "read" /\ unseen = {}
    /\ lastFingerprint' = [f \in Present |-> stamp[f]] /\ lastHash' = found /\ rules' = found
    /\ told' = IF lastHash = found THEN told ELSE Answers(found)
    /\ Return
    /\ UNCHANGED <<files, current>>

\* The mutant takes the first rules after none for no change.
InstallFirst ==
    /\ pc = "read" /\ unseen = {}
    /\ lastFingerprint' = fingerprint /\ lastHash' = found /\ rules' = found
    /\ told' = IF lastHash \in {None, found} THEN told ELSE Answers(found)
    /\ Return
    /\ UNCHANGED <<files, current>>

\* The new rules take the place of the old ones, unless they hash to the same.
Install ==
    /\ pc = "read" /\ unseen = {}
    /\ lastFingerprint' = fingerprint
    /\ IF lastHash = found THEN UNCHANGED <<lastHash, rules, told>>
       ELSE lastHash' = found /\ rules' = found /\ told' = Answers(found)
    /\ Return
    /\ UNCHANGED <<files, current>>

-----------------------------------------------------------------------------
Next ==
    \/ RemoveDir \/ MakeDir \/ ReadDir \/ NoDir \/ Fail \/ Compare \/ Install
    \/ \E f \in File : EditFile(f) \/ Stat(f) \/ Read(f)

Spec == Init /\ [][Next]_vars

-----------------------------------------------------------------------------
\* Whatever was edited while an earlier Load listed, compared and read the files, a Load
\* that begins after the last edit and ends without an error leaves in memory the rules
\* that are written, though it may not have read them itself.
LoadCatchesUp == pc = "idle" /\ current => rules = Written

\* No answer about an entity changes behind the callers' backs: a Load that changes one
\* reports it, or the projects would not be brought in step.
ChangesAreReported == told = Answers(rules)
=============================================================================
