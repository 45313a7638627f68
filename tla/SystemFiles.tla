---------------------------- MODULE SystemFiles -----------------------------
(***************************************************************************)
(* The snapshot of the system files (features/runtime,                     *)
(* succinixFileSnapshot): everything in the WebContainer outside the       *)
(* container directories is saved to one record, by a timer and by forced  *)
(* saves (close, restart, leaving the page), and restored at boot.         *)
(*                                                                         *)
(* A timed save has two filters: the listing of the tree, names only,      *)
(* equal to the last one lets it reuse the last collection, and a          *)
(* collection whose count, size and empty directories equal those of the   *)
(* last save is not written.  A forced save passes both, and one that      *)
(* finds a save under way is made after it.                                *)
(*                                                                         *)
(* Excluded paths are not in Paths; Log is the one path left out of the    *)
(* counts.  The empty directories are one more path whose content is       *)
(* "gone" or "dir".                                                        *)
(***************************************************************************)
EXTENDS Naturals, FiniteSets, FiniteSetsExt

CONSTANTS
    Paths,          \* the files
    Log,            \* the log among them
    Dir,            \* an empty directory
    MaxBytes,       \* MAX_SNAPSHOT_BYTES
    MaxWrites,      \* bound: changes of the tree
    MaxLosses       \* bound: requests to the database that fail

ASSUME FilesAssumption ==
    /\ Log \in Paths /\ Dir \notin Paths
    /\ MaxBytes \in Nat /\ MaxWrites \in Nat /\ MaxLosses \in Nat

Contents == {"short", "other", "long"}
Lengths == [gone |-> 0, short |-> 1, other |-> 1, long |-> 2, dir |-> 0]
All == Paths \cup {Dir}

VARIABLES
    tree,       \* the files in the WebContainer
    stored,     \* the record: [there, tree]
    saveGate,       \* the last listing and the last collection: [there, names, tree]
    lastSaved,  \* the signature of the last save or restore: [known, sig]
    work,       \* the save under way: [phase, force, names, tree]
    flush,      \* the forced save: none, behind (another save), working, or its
                \* answer: saved, skipped, dropped (disposed meanwhile), failed
    seen,       \* history: what each path has been since that call
    steady,     \* history: no change since the save under way, or the last
                \* successful one, began: no, trying, yes
    booted, disposed,
    writes, losses

filesVars == <<tree, stored, saveGate, lastSaved, work, flush, seen, steady, booted,
               disposed, writes, losses>>

Bare == [f \in All |-> "gone"]
NoSignature == <<0, 0, "gone">>
NoWork == [phase |-> "idle", force |-> FALSE, names |-> {}, tree |-> Bare]

present(t) == {f \in Paths : t[f] # "gone"}
bytes(t, fs) == MapThenSumSet(LAMBDA f : Lengths[t[f]], fs)
\* computeListingSignature: the names, no sizes.
listing(t) == {f \in All : t[f] # "gone"}
\* Count, bytes and empty directories of a collection; the log is left out.
signature(t) ==
    <<Cardinality(present(t) \ {Log}), bytes(t, present(t) \ {Log}), t[Dir]>>

FilesInit ==
    /\ stored \in [there : {FALSE}, tree : {Bare}]
                 \cup [there : {TRUE}, tree : {[f \in All |-> IF f = Dir THEN "dir" ELSE "short"]}]
    /\ tree = Bare
    /\ saveGate = [there |-> FALSE, names |-> {}, tree |-> Bare]
    /\ lastSaved = [known |-> FALSE, sig |-> NoSignature]
    /\ work = NoWork
    /\ flush = "none" /\ seen = [f \in All |-> {}]
    /\ steady = "no"
    /\ booted = FALSE /\ disposed = FALSE
    /\ writes = 0 /\ losses = 0

Loses == losses < MaxLosses /\ losses' = losses + 1

-----------------------------------------------------------------------------
(* Restore, at boot. *)

Restored ==
    /\ ~booted /\ booted' = TRUE
    /\ IF stored.there
       THEN /\ tree' = stored.tree
            /\ lastSaved' = [known |-> TRUE, sig |-> signature(stored.tree)]
       ELSE UNCHANGED <<tree, lastSaved>>
    /\ UNCHANGED <<stored, saveGate, work, flush, seen, steady, disposed, writes, losses>>

\* The read fails, or a file cannot be written: what was written stays and the
\* boot goes on.
RestoreStops ==
    /\ ~booted /\ booted' = TRUE
    /\ Loses
    /\ \E done \in SUBSET Paths :
         tree' = [f \in All |-> IF f \in done THEN stored.tree[f] ELSE "gone"]
    /\ UNCHANGED <<stored, saveGate, lastSaved, work, flush, seen, steady, disposed, writes>>

-----------------------------------------------------------------------------
(* Saves. *)

\* Mutant: a forced save is content with the one under way.
joined == "working"
\* A forced save that finds a save under way is made after it.
queued == "behind"

\* Mutant: the signature is kept when the write starts.
signedEarly(t) == [known |-> TRUE, sig |-> signature(t)]
\* The signature while t is being written is still that of the last write.
signed(t) == lastSaved

\* A save starts; the disposed coordinator starts none.
SaveStarts(force) ==
    /\ work' = [NoWork EXCEPT !.phase = "listing", !.force = force]
    /\ steady' = "trying"

\* The timer.  A tick that finds a save under way takes its result.
Tick ==
    /\ booted /\ ~disposed /\ work.phase = "idle"
    /\ SaveStarts(FALSE)
    /\ UNCHANGED <<tree, stored, saveGate, lastSaved, flush, seen, booted, disposed, writes, losses>>

\* flush, by a close, a restart, pagehide or beforeunload.
Flush ==
    /\ booted /\ ~disposed /\ flush \notin {"behind", "working"}
    /\ seen' = [f \in All |-> {tree[f]}]
    /\ IF work.phase = "idle"
       THEN flush' = "working" /\ SaveStarts(TRUE)
       ELSE flush' = queued /\ UNCHANGED <<work, steady>>
    /\ UNCHANGED <<tree, stored, saveGate, lastSaved, booted, disposed, writes, losses>>

\* The save under way ends; a forced save behind it starts, unless it failed or
\* the coordinator was disposed.
SaveEnds(answer) ==
    /\ IF flush = "behind" /\ answer # "failed" /\ ~disposed
       THEN flush' = "working" /\ SaveStarts(TRUE)
       ELSE /\ work' = NoWork
            /\ flush' = CASE flush = "working" -> answer
                           [] flush = "behind"  -> IF answer = "failed" THEN "failed" ELSE "dropped"
                           [] OTHER -> flush
            /\ steady' = IF answer = "saved" /\ steady = "trying" THEN "yes" ELSE "no"

\* Given the collection t: too large; as the last save; or written.
Decides(t) ==
    CASE bytes(t, present(t)) > MaxBytes -> SaveEnds("skipped") /\ UNCHANGED lastSaved
      [] ~work.force /\ lastSaved.known /\ lastSaved.sig = signature(t)
           -> SaveEnds("saved") /\ UNCHANGED lastSaved
      [] OTHER -> /\ work' = [work EXCEPT !.phase = "putting", !.tree = t]
                  /\ lastSaved' = signed(t)
                  /\ UNCHANGED <<flush, steady>>

Lists ==
    /\ work.phase = "listing"
    /\ IF ~work.force /\ saveGate.there /\ saveGate.names = listing(tree)
       THEN Decides(saveGate.tree)
       ELSE /\ work' = [work EXCEPT !.phase = "collecting", !.names = listing(tree)]
            /\ UNCHANGED <<flush, steady, lastSaved>>
    /\ UNCHANGED <<tree, stored, saveGate, seen, booted, disposed, writes, losses>>

Collects ==
    /\ work.phase = "collecting"
    /\ saveGate' = [there |-> TRUE, names |-> work.names, tree |-> tree]
    /\ Decides(tree)
    /\ UNCHANGED <<tree, stored, seen, booted, disposed, writes, losses>>

Puts ==
    /\ work.phase = "putting"
    /\ stored' = [there |-> TRUE, tree |-> work.tree]
    /\ lastSaved' = [known |-> TRUE, sig |-> signature(work.tree)]
    /\ SaveEnds("saved")
    /\ UNCHANGED <<tree, saveGate, seen, booted, disposed, writes, losses>>

PutIsLost ==
    /\ work.phase = "putting"
    /\ Loses
    /\ SaveEnds("failed")
    /\ UNCHANGED <<tree, stored, saveGate, lastSaved, seen, booted, disposed, writes>>

Dispose ==
    /\ ~disposed /\ disposed' = TRUE
    /\ UNCHANGED <<tree, stored, saveGate, lastSaved, work, flush, seen, steady, booted, writes, losses>>

-----------------------------------------------------------------------------
\* A process changes a file (external).
SystemChange(f, c) ==
    /\ booted /\ writes < MaxWrites /\ writes' = writes + 1
    /\ tree[f] # c
    /\ tree' = [tree EXCEPT ![f] = c]
    /\ seen' = [seen EXCEPT ![f] = @ \cup {c}]
    /\ steady' = "no"
    /\ UNCHANGED <<stored, saveGate, lastSaved, work, flush, booted, disposed, losses>>

Saving == Lists \/ Collects \/ Puts \/ PutIsLost
FilesNext ==
    \/ Restored \/ RestoreStops \/ Tick \/ Flush \/ Saving \/ Dispose
    \/ \E f \in Paths, c \in Contents \cup {"gone"} : SystemChange(f, c)
    \/ \E c \in {"dir", "gone"} : SystemChange(Dir, c)

FilesSpec == FilesInit /\ [][FilesNext]_filesVars

-----------------------------------------------------------------------------
(* Properties *)

\* A forced save that answered as saved left a record in which every file is as
\* it was at some moment since the call, even when it found a save under way
\* that had read the files before.  (save :292-301)
ForcedSaveIsCurrent ==
    flush = "saved" => \A f \in All : stored.tree[f] \in seen[f]

Current ==
    /\ stored.there
    /\ Cardinality(present(stored.tree) \ {Log}) = Cardinality(present(tree) \ {Log})
    /\ stored.tree[Dir] = tree[Dir]

\* Once the tree has been still for a whole save, timed or forced, the record
\* has as many files as the tree and the same empty directories: neither the
\* gate, nor the signature, nor a write that failed before can hide an added or
\* a removed file for good.  The exception is a file that came or went between
\* the listing of the last collection and the collection itself.
\* (collectWithGate :182-196, doSave :320-348)
CountIsSaved ==
    steady = "yes" /\ (saveGate.there => saveGate.names = listing(saveGate.tree)) => Current

\* "readdir catches structural changes (added, removed, renamed)" (:155-156):
\* the same without the exception.
StructureIsSaved == steady = "yes" => Current

\* The record of the system files is current whenever it must be.
\* (succinixFileSnapshot.ts)
SystemFilesSound == ForcedSaveIsCurrent /\ CountIsSaved
=============================================================================
