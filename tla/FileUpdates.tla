---------------------------- MODULE FileUpdates -----------------------------
(***************************************************************************)
(* One update of several files of a container, all or nothing              *)
(* (WorkspaceFileSystem.apply): every file is read and checked first, then *)
(* they are written one by one; when a write fails the written ones are    *)
(* put back, except those somebody else has changed meanwhile.  Processes, *)
(* terminals and other tools (materialize among them) write the same files *)
(* between any two steps.                                                  *)
(***************************************************************************)
EXTENDS Naturals, Sequences

CONSTANTS
    Targets,        \* the files
    MaxUpdates,     \* bound: changes in the update
    MaxForeign,     \* bound: writes of others
    MaxFaults       \* bound: requests to the file system that fail

ASSUME UpdateAssumption ==
    MaxUpdates \in Nat /\ MaxForeign \in Nat /\ MaxFaults \in Nat

\* A path is given relative or under the container's public root; every other
\* form (absolute, dot segments, another container's root) is refused.
Forms == {"relative", "public", "outside"}
Inputs == [form : Forms, target : Targets, expects : {"any", "old", "none"}]

VARIABLES
    files,      \* the content of each file: none, old, new (the update's),
                \* foreign
    changes,    \* the update: a sequence of inputs
    step,       \* checking, making (its directory), writing, undoing (reading),
                \* restoring; refused, applied, failed
    checked,   \* what was read of each checked change: [target, previous]
    written,    \* those whose write was begun, latest first
    trouble,    \* the targets the error message names
    foreignWrites, \* history: the targets others wrote since the update read them
    foreigns, faults

updateVars == <<files, changes, step, checked, written, trouble, foreignWrites,
                foreigns, faults>>

UpdateInit ==
    /\ files \in [Targets -> {"none", "old"}]
    /\ changes \in UNION {[1..n -> Inputs] : n \in 1..MaxUpdates}
    /\ step = "checking" /\ checked = <<>> /\ written = <<>>
    /\ trouble = {} /\ foreignWrites = {}
    /\ foreigns = 0 /\ faults = 0

Faults == faults < MaxFaults /\ faults' = faults + 1
done == Len(written)
now == checked[done + 1]
last == Head(written)

-----------------------------------------------------------------------------
(* Checking. *)

\* Mutant: the file a path resolves to is not compared with the earlier ones.
acceptableTwice(c) ==
    /\ c.form # "outside"
    /\ c.expects \in {"any", files[c.target]}
\* resolveContainerPath, the test for duplicates, and expectedContent: a
\* missing file counts as empty, which no expectation but "none" is.
acceptable(c) ==
    /\ c.form # "outside"
    /\ c.target \notin {checked[i].target : i \in DOMAIN checked}
    /\ c.expects \in {"any", files[c.target]}

\* One change is read and checked.
Check ==
    /\ step = "checking" /\ Len(checked) < Len(changes)
    /\ LET c == changes[Len(checked) + 1] IN
       IF acceptable(c)
       THEN /\ checked' = Append(checked, [target |-> c.target, previous |-> files[c.target]])
            /\ step' = IF Len(checked') = Len(changes) THEN "making" ELSE "checking"
       ELSE step' = "refused" /\ UNCHANGED checked
    /\ UNCHANGED <<files, changes, written, trouble, foreignWrites, foreigns, faults>>

CheckFails ==
    /\ step = "checking"
    /\ Faults
    /\ step' = "refused"
    /\ UNCHANGED <<files, changes, checked, written, trouble, foreignWrites, foreigns>>

-----------------------------------------------------------------------------
(* Writing. *)

\* Mutant: a change counts as applied when its write has succeeded.
begunLate == written
\* A change counts as applied when its write begins.
begun == <<now>> \o written

\* The directory is there: the write begins.
Make ==
    /\ step = "making"
    /\ step' = "writing"
    /\ UNCHANGED <<files, changes, checked, written, trouble, foreignWrites, foreigns, faults>>

Write ==
    /\ step = "writing"
    /\ files' = [files EXCEPT ![now.target] = "new"]
    /\ written' = <<now>> \o written
    /\ foreignWrites' = foreignWrites \ {now.target}
    /\ step' = IF done + 1 = Len(checked) THEN "applied" ELSE "making"
    /\ UNCHANGED <<changes, checked, trouble, foreigns, faults>>

\* After a failure the applied changes are undone, latest first.
undoes(applied) == IF applied = <<>> THEN "failed" ELSE "undoing"

MakeFails ==
    /\ step = "making"
    /\ Faults
    /\ step' = undoes(written)
    /\ UNCHANGED <<files, changes, checked, written, trouble, foreignWrites, foreigns>>

\* A failed write has changed the file or not.
WriteFails ==
    /\ step = "writing"
    /\ Faults
    /\ \E c \in {files[now.target], "new"} : files' = [files EXCEPT ![now.target] = c]
    /\ foreignWrites' = IF files' = files THEN foreignWrites ELSE foreignWrites \ {now.target}
    /\ written' = begun
    /\ step' = undoes(begun)
    /\ UNCHANGED <<changes, checked, trouble, foreigns>>

-----------------------------------------------------------------------------
(* Rolling back. *)

Undone ==
    /\ written' = Tail(written)
    /\ step' = undoes(Tail(written))

\* The file is read: unchanged, deleted by others, or theirs now: left alone;
\* the update's own: it is put back next.
Undo ==
    /\ step = "undoing"
    /\ LET content == files[last.target] IN
       IF content = "new" THEN step' = "restoring" /\ UNCHANGED <<written, trouble>>
       ELSE /\ Undone
            /\ trouble' = IF content = last.previous THEN trouble
                          ELSE trouble \cup {last.target}
    /\ UNCHANGED <<files, changes, checked, foreignWrites, foreigns, faults>>

\* A created file is removed, an updated one gets its previous content.
Restore ==
    /\ step = "restoring"
    /\ files' = [files EXCEPT ![last.target] = last.previous]
    /\ foreignWrites' = foreignWrites \ {last.target}
    /\ Undone
    /\ UNCHANGED <<changes, checked, trouble, foreigns, faults>>

UndoFails ==
    /\ step \in {"undoing", "restoring"}
    /\ Faults
    /\ Undone
    /\ trouble' = trouble \cup {last.target}
    /\ UNCHANGED <<files, changes, checked, foreignWrites, foreigns>>

\* materialize, a process or a terminal (external).
ForeignWrite(t, content) ==
    /\ foreigns < MaxForeign /\ foreigns' = foreigns + 1
    /\ step \notin {"refused", "applied", "failed"}
    /\ files[t] # content
    /\ files' = [files EXCEPT ![t] = content]
    /\ foreignWrites' = foreignWrites \cup {t}
    /\ UNCHANGED <<changes, step, checked, written, trouble, faults>>

UpdateNext ==
    \/ Check \/ CheckFails \/ Make \/ Write \/ MakeFails \/ WriteFails
    \/ Undo \/ Restore \/ UndoFails
    \/ \E t \in Targets, content \in {"foreign", "none"} : ForeignWrite(t, content)

UpdateSpec == UpdateInit /\ [][UpdateNext]_updateVars

-----------------------------------------------------------------------------
(* Properties *)

\* A failed update leaves no file half way: each of its files has the content
\* it was read with, or what others wrote since, or it is named in the error as
\* not rolled back; also when the failed write had changed its file.  (:90-120)
FailedLeavesNothing ==
    step = "failed" =>
        \A i \in DOMAIN checked :
            LET t == checked[i].target IN
            t \in trouble \cup foreignWrites \/ files[t] = checked[i].previous

\* An update that succeeded has written every change exactly where it resolves
\* to, no file twice; what is there otherwise was written by others afterwards.
AppliedIsThere ==
    step = "applied" =>
        /\ \A i \in DOMAIN changes :
             files[changes[i].target] = "new" \/ changes[i].target \in foreignWrites
        /\ \A i, j \in DOMAIN changes : changes[i].target = changes[j].target => i = j

\* Refuted by TLC: the rollback keeps newer content.  It reads the file, and a
\* write of others between that read and the restore is lost.
NewerIsKept ==
    [][step = "restoring" => \A t \in foreignWrites : files[t] = files'[t] \/ t \in foreignWrites']_updateVars

\* An update is applied where it says, or leaves the files as they were.
\* (workspaceFileSystem.ts)
UpdateSound == FailedLeavesNothing /\ AppliedIsThere
=============================================================================
