------------------------- MODULE WorkspaceSnapshots -------------------------
(***************************************************************************)
(* The snapshots of the container workspaces: V3SnapshotScheduler and      *)
(* WorkspaceSnapshotCoordinator (src/src/features/runtime), the snapshot   *)
(* write queue of V3PersistenceRepository, and the operations of           *)
(* WebContainerAgentRuntime that change a workspace.                       *)
(*                                                                         *)
(* A runtime is one boot of the WebContainer: its files are gone when it   *)
(* is torn down or the page is reloaded, and the next runtime restores     *)
(* them from IndexedDB.  A tree is the set of the changes made to it, so   *)
(* that a lost change can be seen; a workspace revision is the set of the  *)
(* changes it counts, for what matters of the number is whether it is      *)
(* ahead of a tree or behind it.                                           *)
(*                                                                         *)
(* An action runs until the program next waits for the container, for      *)
(* IndexedDB or for a timer.  The continuations of a settled work promise  *)
(* run in the order in which they were registered (the owner of the work   *)
(* first, then the calls that wait for it) before any other event: they    *)
(* are one step here (Settle).                                             *)
(***************************************************************************)
EXTENDS Naturals, Sequences, FiniteSets, SequencesExt

CONSTANTS
    Container,      \* the container ids
    Change,         \* the changes made to files, each at most once
    Call,           \* the calls of flush and flushAll, and process exits
    MaxRuntimes,    \* bound: boots of the WebContainer
    MaxLive,        \* bound: runtimes alive at the same time
    MaxFailures,    \* bound: exports, writes and restorations that fail
    Nobody          \* the caller of a flush that nobody waits for

ASSUME SnapshotAssumption ==
    /\ MaxRuntimes \in Nat \ {0} /\ MaxLive \in Nat \ {0}
    /\ MaxFailures \in Nat
    /\ Nobody \notin Call /\ Container # {}

Runtime == 1 .. MaxRuntimes

VARIABLES
    booted,      \* the number of runtimes booted so far
    live,        \* the runtimes that are neither disposed nor lost
    files,       \* files[r][c]: the tree of the container root
    unreported,  \* unreported[r][c]: a change whose watch event is still due
    restored,    \* restored[r][c]: the entry of the map of restorations
    revisions,   \* revisions[r][c]: the revision, as the changes it counts
    timer,       \* timer[r][c]: the debounce timer is set
    queued,      \* queued[r][c]: the container is in the set queued
    work,        \* work[r][c]: the running snapshot, or NoWork
    writes,      \* the write queue of the repository, the first is under way
    disk,        \* disk[c]: the stored snapshot
    call,        \* call[f][c]: where call f stands with container c
    failures,
    \* history
    made,        \* the changes made so far
    landed,      \* landed[r][c]: what this runtime last restored or saved
    spoilt,      \* spoilt[r][c]: the last snapshot of the container failed
    since        \* since[f]: runtime, kind and counted changes at the call

container == <<booted, live, files, unreported, restored, revisions, made>>
scheduler == <<timer, queued, work, call, spoilt>>
storage == <<writes, disk, landed>>
vars == <<container, scheduler, storage, failures, since>>

Phase == {"exporting", "exported", "saving"}
NoWork == [phase |-> "none"]
Work == [phase : Phase, owner : Call \cup {Nobody}, failed : BOOLEAN,
         tree : SUBSET Change, revision : SUBSET Change]
Snapshot == [tree : SUBSET Change, revision : SUBSET Change]
NoSnapshot == [tree |-> {}, revision |-> {}]

(***************************************************************************)
(* How a call stands with a container: it owns the running work (and what  *)
(* follows it), awaits the active work of another, awaits the follow-up,   *)
(* or is answered.                                                         *)
(***************************************************************************)
Standing == {"none", "owner", "active", "followUp", "ok", "failed", "lost"}
Kind == {"none", "flush", "flushAll", "exit"}
NotCalled == [runtime |-> 0, kind |-> "none", seen |-> [c \in Container |-> {}]]

Waiting(s) == s \in {"owner", "active", "followUp"}
AnsweredOk(f) == /\ since[f].kind # "none"
                 /\ \A c \in Container : call[f][c] \in {"none", "ok"}

ForAll(value) == [c \in Container |-> value]
Each(value) == [r \in Runtime |-> ForAll(value)]

Init ==
    /\ booted = 0 /\ live = {}
    /\ files = Each({}) /\ unreported = Each(FALSE) /\ restored = Each("no")
    /\ revisions = Each({}) /\ made = {}
    /\ timer = Each(FALSE) /\ queued = Each(FALSE) /\ work = Each(NoWork)
    /\ call = [f \in Call |-> ForAll("none")] /\ spoilt = Each(FALSE)
    /\ writes = <<>> /\ disk = ForAll(NoSnapshot) /\ landed = Each({})
    /\ failures = 0 /\ since = [f \in Call |-> NotCalled]

-----------------------------------------------------------------------------
(* V3SnapshotScheduler: flush and the settlement of its work.              *)

Start(owner, failed) == [phase |-> "exporting", owner |-> owner, failed |-> failed,
                         tree |-> {}, revision |-> {}]

\* Mutant: flush drops the request where a snapshot already runs.
FlushDropsRequest(r, cs, cancelled, f) ==
    LET free == {c \in cs : work[r][c] = NoWork} IN
    /\ timer' = [timer EXCEPT ![r] = [c \in Container |-> @[c] /\ c \notin cancelled]]
    /\ work' = [work EXCEPT ![r] = [c \in Container |->
                     IF c \in free THEN Start(f, FALSE) ELSE @[c]]]
    /\ call' = [g \in Call |-> [c \in Container |->
                     IF g = f /\ c \in free THEN "owner" ELSE call[g][c]]]
    /\ UNCHANGED <<queued, spoilt>>

\* Mutant: flush does not look whether a snapshot runs.
FlushAlwaysStarts(r, cs, cancelled, f) ==
    /\ timer' = [timer EXCEPT ![r] = [c \in Container |-> @[c] /\ c \notin cancelled]]
    /\ work' = [work EXCEPT ![r] = [c \in Container |->
                     IF c \in cs THEN Start(f, FALSE) ELSE @[c]]]
    /\ call' = [g \in Call |-> [c \in Container |->
                     IF g = f /\ c \in cs THEN "owner" ELSE call[g][c]]]
    /\ UNCHANGED <<queued, spoilt>>

(***************************************************************************)
(* flush(c) for all c of cs at once, called by f or by nobody, once the    *)
(* timers of cancelled are: where a snapshot runs the container is queued  *)
(* and the caller waits, else the caller's own snapshot starts.            *)
(***************************************************************************)
Flush(r, cs, cancelled, f) ==
    /\ timer' = [timer EXCEPT ![r] = [c \in Container |-> @[c] /\ c \notin cancelled]]
    /\ queued' = [queued EXCEPT ![r] = [c \in Container |->
                     @[c] \/ (c \in cs /\ work[r][c] # NoWork)]]
    /\ work' = [work EXCEPT ![r] = [c \in Container |->
                     IF c \in cs /\ @[c] = NoWork THEN Start(f, FALSE) ELSE @[c]]]
    /\ call' = [g \in Call |-> [c \in Container |->
                     IF g # f \/ c \notin cs THEN call[g][c]
                     ELSE IF work[r][c] = NoWork THEN "owner" ELSE "active"]]
    /\ UNCHANGED spoilt

\* How a settled promise answers its caller.
Outcome(ok) == IF ok THEN "ok" ELSE "failed"

\* Mutant: a waiting call does not look for the follow-up.
waiterLeaves(s, again, ok, failed) ==
    CASE s \in {"active", "followUp"} -> Outcome(ok)
      [] s = "owner" /\ ~again -> Outcome(~failed)
      [] OTHER -> s

\* The continuation of a call: again, the container was queued; ok, the work
\* succeeded; failed, a work of the owner's chain failed.
continuation(s, again, ok, failed) ==
    CASE s = "active" -> "followUp"
      [] s = "followUp" -> Outcome(ok)
      [] s = "owner" /\ ~again -> Outcome(~failed)
      [] OTHER -> s

\* Mutant: the entry of a finished work stays while the container is queued.
SettleKeepsEntry(r, c, ok) ==
    /\ work' = [work EXCEPT ![r][c] = IF queued[r][c] THEN @ ELSE NoWork]
    /\ call' = [f \in Call |->
                   IF since[f].runtime = r
                   THEN [call[f] EXCEPT ![c] =
                           continuation(@, queued[r][c], ok, work[r][c].failed \/ ~ok)]
                   ELSE call[f]]
    /\ spoilt' = [spoilt EXCEPT ![r][c] = ~ok]
    /\ UNCHANGED <<timer, queued>>

(***************************************************************************)
(* The running work of c ends.  Its owner goes on: a queued container is   *)
(* flushed again, within the same call, even after a failure; otherwise    *)
(* the owner answers, with a failure if any snapshot of its chain failed.  *)
(* Then the calls that awaited the work find the follow-up, and those that *)
(* awaited it as their follow-up are answered.                             *)
(***************************************************************************)
Settle(r, c, ok) ==
    LET failed == work[r][c].failed \/ ~ok
        again == queued[r][c]
    IN  /\ work' = [work EXCEPT ![r][c] =
                       IF again THEN Start(@.owner, failed) ELSE NoWork]
        /\ timer' = [timer EXCEPT ![r][c] = @ /\ ~again]
        /\ queued' = [queued EXCEPT ![r][c] = FALSE]
        /\ call' = [f \in Call |->
                       IF since[f].runtime = r
                       THEN [call[f] EXCEPT ![c] = continuation(@, again, ok, failed)]
                       ELSE call[f]]
        /\ spoilt' = [spoilt EXCEPT ![r][c] = ~ok]

-----------------------------------------------------------------------------
(* The container: runtimes, restoration and changes.                       *)

(* A WebContainer is booted and a runtime constructed for it.              *)
Boot(r) ==
    /\ r = booted + 1 /\ Cardinality(live) < MaxLive
    /\ booted' = r /\ live' = live \cup {r}
    /\ UNCHANGED <<files, unreported, restored, revisions, made, scheduler,
                   storage, failures, since>>

(* ensure of the coordinator: the first call starts the restoration.       *)
Ensure(r, c) ==
    /\ r \in live /\ restored[r][c] = "no"
    /\ restored' = [restored EXCEPT ![r][c] = "restoring"]
    /\ UNCHANGED <<booted, live, files, unreported, revisions, made, scheduler,
                   storage, failures, since>>

(***************************************************************************)
(* restore of the coordinator: the snapshot is loaded, its revision taken, *)
(* its tree mounted over what is there, and the watch started.             *)
(***************************************************************************)
Restore(r, c) ==
    /\ r \in live /\ restored[r][c] = "restoring"
    /\ restored' = [restored EXCEPT ![r][c] = "yes"]
    /\ revisions' = [revisions EXCEPT ![r][c] = disk[c].revision]
    /\ files' = [files EXCEPT ![r][c] = @ \cup disk[c].tree]
    /\ landed' = [landed EXCEPT ![r][c] = disk[c].tree]
    /\ UNCHANGED <<booted, live, unreported, made, scheduler, writes, disk,
                   failures, since>>

(* It fails, before or after the revision was taken; the entry is removed  *)
(* and ensure may be called again.                                         *)
RestoreFails(r, c) ==
    /\ r \in live /\ restored[r][c] = "restoring" /\ failures < MaxFailures
    /\ restored' = [restored EXCEPT ![r][c] = "no"]
    /\ revisions' \in {revisions, [revisions EXCEPT ![r][c] = disk[c].revision]}
    /\ failures' = failures + 1
    /\ UNCHANGED <<booted, live, files, unreported, made, scheduler, storage,
                   since>>

Ready(r, c) == r \in live /\ restored[r][c] = "yes"

(* bumpRevision, when the tree is tree.                                    *)
Bump(r, c, tree) == revisions' = [revisions EXCEPT ![r][c] = @ \cup tree]

Changes(r, c, x) ==
    /\ Ready(r, c) /\ x \notin made
    /\ made' = made \cup {x}
    /\ files' = [files EXCEPT ![r][c] = @ \cup {x}]
    /\ unreported' = [unreported EXCEPT ![r][c] = TRUE]

(* A process, the terminal or the file manager changes a file.             *)
Write(r, c, x) ==
    /\ Changes(r, c, x)
    /\ UNCHANGED <<booted, live, restored, revisions, scheduler, storage,
                   failures, since>>

\* Mutant: the callback advances the revision and schedules nothing.
WatchOnlyBumps(r, c) ==
    /\ Ready(r, c) /\ unreported[r][c]
    /\ unreported' = [unreported EXCEPT ![r][c] = FALSE]
    /\ Bump(r, c, files[r][c])
    /\ UNCHANGED <<booted, live, files, restored, made, scheduler, storage,
                   failures, since>>

(* The callback of the watch: the revision advances, the timer restarts.   *)
WatchEvent(r, c) ==
    /\ Ready(r, c) /\ unreported[r][c]
    /\ unreported' = [unreported EXCEPT ![r][c] = FALSE]
    /\ Bump(r, c, files[r][c])
    /\ timer' = [timer EXCEPT ![r][c] = TRUE]
    /\ UNCHANGED <<booted, live, files, restored, made, queued, work, call,
                   spoilt, storage, failures, since>>

(***************************************************************************)
(* applyWorkspaceChanges and materializeResource: the file is written, the *)
(* revision advanced and the timer started; the watch reports it as well.  *)
(***************************************************************************)
ApplyWorkspaceChanges(r, c, x) ==
    /\ Changes(r, c, x)
    /\ Bump(r, c, files'[r][c])
    /\ timer' = [timer EXCEPT ![r][c] = TRUE]
    /\ UNCHANGED <<booted, live, restored, queued, work, call, spoilt, storage,
                   failures, since>>

-----------------------------------------------------------------------------
(* Calls and timers.                                                       *)

(* The timer of schedule fires.                                            *)
TimerFires(r, c) ==
    /\ timer[r][c]
    /\ Flush(r, {c}, {c}, Nobody)
    /\ UNCHANGED <<container, storage, failures, since>>

(* Call f of runtime r begins; what the revision counts of the tree by now *)
(* is what the caller may rely on.                                         *)
Begin(f, r, kind) ==
    /\ r \in live /\ since[f].kind = "none"
    /\ since' = [since EXCEPT ![f] =
                    [runtime |-> r, kind |-> kind,
                     seen |-> [c \in Container |-> revisions'[r][c] \cap files[r][c]]]]

(* flushWorkspace(c).                                                      *)
FlushWorkspace(f, r, c) ==
    /\ Ready(r, c) /\ UNCHANGED container
    /\ Begin(f, r, "flush") /\ Flush(r, {c}, {c}, f)
    /\ UNCHANGED <<storage, failures>>

(* stopProcess: the revision advances and the caller awaits a flush.       *)
StopProcess(f, r, c) ==
    /\ Ready(r, c) /\ Bump(r, c, files[r][c])
    /\ Begin(f, r, "flush") /\ Flush(r, {c}, {c}, f)
    /\ UNCHANGED <<booted, live, files, unreported, restored, made, storage,
                   failures>>

(* A process of runShell exits: revision, timer, and a flush that nobody   *)
(* waits for, which cancels the timer again.                               *)
ProcessExits(f, r, c) ==
    /\ Ready(r, c) /\ Bump(r, c, files[r][c])
    /\ Begin(f, r, "exit") /\ Flush(r, {c}, {c}, Nobody)
    /\ UNCHANGED <<booted, live, files, unreported, restored, made, storage,
                   failures>>

\* Mutant: flushAll looks only at the timers.
PendingTimer(r, c) == timer[r][c]

Pending(r, c) == timer[r][c] \/ work[r][c] # NoWork \/ queued[r][c]

(* flushAll: every container with a timer, a snapshot or a queued one.     *)
FlushAll(f, r) ==
    /\ UNCHANGED container
    /\ Begin(f, r, "flushAll")
    /\ Flush(r, {c \in Container : Pending(r, c)}, Container, f)
    /\ UNCHANGED <<storage, failures>>

-----------------------------------------------------------------------------
(* A snapshot: export, then the write of the repository.                   *)

(* The container serialises the tree; its answer is still on the way.      *)
Export(r, c) ==
    /\ r \in live /\ work[r][c].phase = "exporting"
    /\ work' = [work EXCEPT ![r][c].phase = "exported", ![r][c].tree = files[r][c]]
    /\ UNCHANGED <<container, timer, queued, call, spoilt, storage, failures, since>>

(* The answer arrives: the revision is read now, and the write is queued.  *)
SaveSnapshot(r, c) ==
    /\ r \in live /\ work[r][c].phase = "exported"
    /\ work' = [work EXCEPT ![r][c].phase = "saving",
                            ![r][c].revision = revisions[r][c]]
    /\ writes' = Append(writes, <<r, c>>)
    /\ UNCHANGED <<container, timer, queued, call, spoilt, disk, landed,
                   failures, since>>

(* The export is refused, as it is for ever once the container is gone.    *)
ExportFails(r, c) ==
    /\ work[r][c].phase \in {"exporting", "exported"}
    /\ \/ r \notin live /\ UNCHANGED failures
       \/ r \in live /\ failures < MaxFailures /\ failures' = failures + 1
    /\ Settle(r, c, FALSE)
    /\ UNCHANGED <<container, storage, since>>

Writing(r, c) == writes # <<>> /\ Head(writes) = <<r, c>>

(* The write at the head of the queue: the transaction completes.          *)
SnapshotLands(r, c) ==
    /\ Writing(r, c)
    /\ writes' = Tail(writes)
    /\ disk' = [disk EXCEPT ![c] = [tree |-> work[r][c].tree,
                                    revision |-> work[r][c].revision]]
    /\ landed' = [landed EXCEPT ![r][c] = work[r][c].tree]
    /\ Settle(r, c, TRUE)
    /\ UNCHANGED <<container, failures, since>>

(* The tree is beyond the limits, or the transaction aborts; the stored    *)
(* snapshot is kept.                                                       *)
SnapshotFails(r, c) ==
    /\ Writing(r, c) /\ failures < MaxFailures
    /\ writes' = Tail(writes) /\ failures' = failures + 1
    /\ Settle(r, c, FALSE)
    /\ UNCHANGED <<container, disk, landed, since>>

-----------------------------------------------------------------------------
(* The end of a runtime.                                                   *)

\* Mutant: dispose does not clear the map of restorations.
DiscardKeepsRestored(r) ==
    /\ r \in live
    /\ live' = live \ {r}
    /\ files' = [files EXCEPT ![r] = ForAll({})]
    /\ timer' = [timer EXCEPT ![r] = ForAll(FALSE)]
    /\ revisions' = [revisions EXCEPT ![r] = ForAll({})]
    /\ unreported' = [unreported EXCEPT ![r] = ForAll(FALSE)]
    /\ UNCHANGED <<booted, made, restored, queued, work, call, spoilt, storage,
                   failures, since>>

(***************************************************************************)
(* dispose of the coordinator and of the scheduler, and the teardown of    *)
(* the container, which no await separates: timers, watches and maps are   *)
(* cleared; a snapshot under way goes on, and the set queued is kept.      *)
(***************************************************************************)
Discard(r) ==
    /\ r \in live
    /\ live' = live \ {r}
    /\ files' = [files EXCEPT ![r] = ForAll({})]
    /\ timer' = [timer EXCEPT ![r] = ForAll(FALSE)]
    /\ restored' = [restored EXCEPT ![r] = ForAll("no")]
    /\ revisions' = [revisions EXCEPT ![r] = ForAll({})]
    /\ unreported' = [unreported EXCEPT ![r] = ForAll(FALSE)]
    /\ UNCHANGED <<booted, made, queued, work, call, spoilt, storage, failures,
                   since>>

(* The page is reloaded: nothing but the disk survives.                    *)
Reload ==
    /\ live # {}
    /\ live' = {} /\ writes' = <<>> /\ files' = Each({})
    /\ timer' = Each(FALSE) /\ queued' = Each(FALSE) /\ work' = Each(NoWork)
    /\ restored' = Each("no") /\ revisions' = Each({}) /\ unreported' = Each(FALSE)
    /\ call' = [f \in Call |-> [c \in Container |->
                   IF Waiting(call[f][c]) THEN "lost" ELSE call[f][c]]]
    /\ UNCHANGED <<booted, made, spoilt, disk, landed, failures, since>>

Next ==
    \/ \E r \in Runtime : Boot(r) \/ Discard(r)
    \/ \E r \in Runtime, c \in Container :
          \/ Ensure(r, c) \/ Restore(r, c) \/ RestoreFails(r, c)
          \/ \E x \in Change : Write(r, c, x) \/ ApplyWorkspaceChanges(r, c, x)
          \/ WatchEvent(r, c) \/ TimerFires(r, c)
          \/ Export(r, c) \/ ExportFails(r, c) \/ SaveSnapshot(r, c)
          \/ SnapshotLands(r, c) \/ SnapshotFails(r, c)
          \/ \E f \in Call : \/ FlushWorkspace(f, r, c) \/ StopProcess(f, r, c)
                             \/ ProcessExits(f, r, c)
    \/ \E f \in Call, r \in Runtime : FlushAll(f, r)
    \/ Reload

Spec == Init /\ [][Next]_vars

(***************************************************************************)
(* The container answers an export and IndexedDB a write; the event loop   *)
(* runs the continuation, the watch reports, a timer fires.  No call, no   *)
(* change and no failure is fair, and a torn down container owes nothing.  *)
(***************************************************************************)
FairSpec ==
    /\ Spec
    /\ \A r \in Runtime, c \in Container :
          /\ WF_vars(Export(r, c)) /\ WF_vars(SaveSnapshot(r, c))
          /\ WF_vars(SnapshotLands(r, c) \/ SnapshotFails(r, c))
          /\ WF_vars(WatchEvent(r, c)) /\ WF_vars(TimerFires(r, c))

-----------------------------------------------------------------------------
(* Properties.                                                             *)

(* Every variable of scheduler, coordinator and repository has its type.   *)
TypeOK ==
    /\ booted \in 0 .. MaxRuntimes /\ live \subseteq Runtime
    /\ files \in [Runtime -> [Container -> SUBSET Change]]
    /\ unreported \in [Runtime -> [Container -> BOOLEAN]]
    /\ restored \in [Runtime -> [Container -> {"no", "restoring", "yes"}]]
    /\ revisions \in [Runtime -> [Container -> SUBSET Change]]
    /\ timer \in [Runtime -> [Container -> BOOLEAN]]
    /\ queued \in [Runtime -> [Container -> BOOLEAN]]
    /\ work \in [Runtime -> [Container -> Work \cup {NoWork}]]
    /\ writes \in Seq(Runtime \X Container)
    /\ disk \in [Container -> Snapshot]
    /\ call \in [Call -> [Container -> Standing]]
    /\ failures \in 0 .. MaxFailures
    /\ made \subseteq Change
    /\ landed \in [Runtime -> [Container -> SUBSET Change]]
    /\ spoilt \in [Runtime -> [Container -> BOOLEAN]]
    /\ since \in [Call -> [runtime : 0 .. MaxRuntimes, kind : Kind,
                           seen : [Container -> SUBSET Change]]]

(***************************************************************************)
(* Nobody waits for nothing: an owner's work runs, a call that awaits the  *)
(* active work of another has its container queued behind it, and one that *)
(* awaits the follow-up awaits a work that runs; nothing is queued where   *)
(* no work runs that will find it.  The write queue holds the snapshots    *)
(* that are being saved, each once.                                        *)
(***************************************************************************)
WaitersHaveWork ==
    \A f \in Call, c \in Container :
        LET r == since[f].runtime IN
        Waiting(call[f][c]) =>
            /\ r \in Runtime /\ work[r][c] # NoWork
            /\ call[f][c] = "owner" => work[r][c].owner = f
            /\ call[f][c] = "active" => queued[r][c]
QueuedHasWork ==
    \A r \in Runtime, c \in Container : queued[r][c] => work[r][c] # NoWork
WritesAreSaves ==
    /\ IsInjective(writes)
    /\ \A r \in Runtime, c \in Container :
          work[r][c].phase = "saving" <=> Contains(writes, <<r, c>>)
SchedulerSound == WaitersHaveWork /\ QueuedHasWork /\ WritesAreSaves

(***************************************************************************)
(* No change is forgotten: while a runtime lives, a change that it has not *)
(* saved will be: its watch event is due, a timer runs, the container is   *)
(* queued, a snapshot that is yet to be exported or that has it is under   *)
(* way; or the last snapshot failed.                                       *)
(***************************************************************************)
UnsavedIsPending ==
    \A r \in live, c \in Container :
        Ready(r, c) /\ files[r][c] # landed[r][c] =>
            \/ unreported[r][c] \/ timer[r][c] \/ queued[r][c] \/ spoilt[r][c]
            \/ work[r][c].phase = "exporting"
            \/ work[r][c].phase \in {"exported", "saving"} /\ work[r][c].tree = files[r][c]

(***************************************************************************)
(* The inductive invariant.  A runtime is booted once and used after it;   *)
(* a container of it holds nothing before it is restored; a tree that is   *)
(* behind the files is so only with a due event, a timer or a queue entry, *)
(* also while the last snapshot is spoilt; and what a caller relies on is  *)
(* in the tree of the work it awaits, unless that is still to be exported. *)
(***************************************************************************)
BootedBefore == live \subseteq 1 .. booted /\ \A f \in Call : since[f].runtime <= booted
IdleUntilRestored ==
    \A r \in Runtime, c \in Container :
        /\ r \notin live => restored[r][c] = "no"
        /\ restored[r][c] # "yes" =>
              /\ files[r][c] = {} /\ ~timer[r][c] /\ ~unreported[r][c]
              /\ r \in live \/ r > booted => work[r][c] = NoWork
BehindIsPending ==
    \A r \in Runtime, c \in Container :
        LET due == unreported[r][c] \/ timer[r][c] IN
        Ready(r, c) =>
            /\ work[r][c] = NoWork /\ files[r][c] # landed[r][c] => due \/ spoilt[r][c]
            /\ work[r][c].phase \in {"exported", "saving"} /\ work[r][c].tree # files[r][c]
                  => due \/ queued[r][c]
CallersAreServed ==
    \A f \in Call, c \in Container :
        LET r == since[f].runtime IN
        /\ since[f].kind = "none" => call[f][c] = "none"
        /\ Waiting(call[f][c]) /\ r \in live => since[f].seen[c] \subseteq files[r][c]
        /\ call[f][c] \in {"owner", "followUp"} /\ work[r][c].phase = "saving"
              => since[f].seen[c] \subseteq work[r][c].tree
        /\ call[f][c] \in {"owner", "followUp"} /\ r \in live /\ work[r][c].phase = "exported"
              => since[f].seen[c] \subseteq work[r][c].tree
IInv == /\ TypeOK /\ SchedulerSound /\ BootedBefore /\ IdleUntilRestored
        /\ BehindIsPending /\ CallersAreServed

(***************************************************************************)
(* A flush that answers has saved what was counted before it was called,   *)
(* also when it had to wait for the snapshot of another.                   *)
(***************************************************************************)
FlushSaves ==
    [][\A f \in Call, c \in Container :
          Waiting(call[f][c]) /\ call'[f][c] = "ok" =>
              since[f].seen[c] \subseteq landed'[since[f].runtime][c]]_vars

(***************************************************************************)
(* flushAll answers only when all that was counted before it is saved,     *)
(* except in a container whose last snapshot had failed.                   *)
(***************************************************************************)
FlushAllEnds(f) == ~AnsweredOk(f) /\ AnsweredOk(f)' /\ since'[f].kind = "flushAll"
FlushAllSaves ==
    [][\A f \in Call : FlushAllEnds(f) =>
          \A c \in Container :
              \/ since'[f].seen[c] \subseteq landed'[since'[f].runtime][c]
              \/ spoilt[since'[f].runtime][c]]_vars

(***************************************************************************)
(* Every flush is answered, or its runtime is torn down: no chain of       *)
(* follow-ups runs for ever, and a failure of the active snapshot does not *)
(* swallow the queued one.                                                 *)
(***************************************************************************)
FlushAnswered ==
    \A f \in Call, c \in Container :
        Waiting(call[f][c]) ~> (~Waiting(call[f][c]) \/ since[f].runtime \notin live)

(* A change of a living runtime is saved, unless a snapshot fails.         *)
ChangesAreSaved ==
    \A r \in Runtime, c \in Container, x \in Change :
        (x \in files[r][c]) ~> (x \in landed[r][c] \/ r \notin live \/ spoilt[r][c])

\* Nobody waits for nothing, and no change is forgotten.
SnapshotsSound == SchedulerSound /\ UnsavedIsPending

\* What answers with success has saved what it was called for.
FlushesSave == FlushSaves /\ FlushAllSaves

\* Callers are answered and changes saved.
RequestsServed == FlushAnswered /\ ChangesAreSaved

(***************************************************************************)
(* What the tests and documents promise and the code does not do.          *)
(*                                                                         *)
(* A forced restart fails closed when the flush before it fails            *)
(* (runtimeSingleton.test.ts): what flushAll answers for is saved.  But a  *)
(* snapshot that failed leaves neither a timer nor a queue entry behind,   *)
(* so that the next flushAll finds nothing to do.                          *)
(***************************************************************************)
FlushAllMeansSaved ==
    [][\A f \in Call : FlushAllEnds(f) =>
          \A c \in Container :
              since'[f].seen[c] \subseteq landed'[since'[f].runtime][c]]_vars

(***************************************************************************)
(* Drift of the workspace is detected with persisted true values           *)
(* (docs/refactor-acceptance.md): the stored revision stands for the       *)
(* stored tree.  But it is read after the export, and may count changes    *)
(* that the tree lacks.                                                    *)
(***************************************************************************)
RevisionNamesTree == \A c \in Container : disk[c].revision \subseteq disk[c].tree
=============================================================================
