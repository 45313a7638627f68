---------------------- MODULE WorkspaceSnapshotsProofs ----------------------
(***************************************************************************)
(* SchedulerSound, UnsavedIsPending, FlushSaves and FlushAllSaves for any  *)
(* number of runtimes, containers, changes and calls.                      *)
(***************************************************************************)
EXTENDS WorkspaceSnapshots, TLAPS

USE SnapshotAssumption

(* The types of the scheduler, and those of the rest. *)
SchedulerType ==
    /\ timer \in [Runtime -> [Container -> BOOLEAN]]
    /\ queued \in [Runtime -> [Container -> BOOLEAN]]
    /\ work \in [Runtime -> [Container -> Work \cup {NoWork}]]
    /\ call \in [Call -> [Container -> Standing]]
    /\ spoilt \in [Runtime -> [Container -> BOOLEAN]]
ContainerType ==
    /\ booted \in 0 .. MaxRuntimes /\ live \subseteq Runtime
    /\ files \in [Runtime -> [Container -> SUBSET Change]]
    /\ unreported \in [Runtime -> [Container -> BOOLEAN]]
    /\ restored \in [Runtime -> [Container -> {"no", "restoring", "yes"}]]
    /\ revisions \in [Runtime -> [Container -> SUBSET Change]]
    /\ made \subseteq Change
StorageType ==
    /\ writes \in Seq(Runtime \X Container)
    /\ disk \in [Container -> Snapshot]
    /\ landed \in [Runtime -> [Container -> SUBSET Change]]
SinceType == since \in [Call -> [runtime : 0 .. MaxRuntimes, kind : Kind,
                                 seen : [Container -> SUBSET Change]]]

LEMMA TypeParts ==
  TypeOK <=> SchedulerType /\ ContainerType /\ StorageType /\ SinceType
             /\ failures \in 0 .. MaxFailures
  BY DEF TypeOK, SchedulerType, ContainerType, StorageType, SinceType

LEMMA TypePartsNext ==
  ASSUME SchedulerType', ContainerType', StorageType', SinceType',
         (failures \in 0 .. MaxFailures)'
  PROVE  TypeOK'
  BY DEF TypeOK, SchedulerType, ContainerType, StorageType, SinceType

(* What flush(c) for c of cs and caller f does, container by container.    *)
Flushed(r, cs, cancelled, f) ==
    /\ spoilt' = spoilt
    /\ \A q \in Runtime, c \in Container :
         /\ timer'[q][c] <=> timer[q][c] /\ ~(q = r /\ c \in cancelled)
         /\ queued'[q][c] <=> queued[q][c] \/ (q = r /\ c \in cs /\ work[q][c] # NoWork)
         /\ q = r /\ c \in cs /\ work[q][c] = NoWork => work'[q][c] = Start(f, FALSE)
         /\ ~(q = r /\ c \in cs /\ work[q][c] = NoWork) => work'[q][c] = work[q][c]
    /\ \A g \in Call, c \in Container :
         call'[g][c] = IF g # f \/ c \notin cs THEN call[g][c]
                       ELSE IF work[r][c] = NoWork THEN "owner" ELSE "active"

LEMMA FlushEffect ==
  ASSUME TypeOK, NEW r \in Runtime, NEW cs \in SUBSET Container,
         NEW cancelled \in SUBSET Container, NEW f \in Call \cup {Nobody},
         Flush(r, cs, cancelled, f)
  PROVE  SchedulerType' /\ Flushed(r, cs, cancelled, f)
<1>1. Start(f, FALSE) \in Work
  BY DEF Start, Work, Phase
<1>2. /\ timer' \in [Runtime -> [Container -> BOOLEAN]]
      /\ \A q \in Runtime, c \in Container :
           timer'[q][c] <=> timer[q][c] /\ ~(q = r /\ c \in cancelled)
  BY DEF TypeOK, Flush
<1>3. /\ queued' \in [Runtime -> [Container -> BOOLEAN]]
      /\ \A q \in Runtime, c \in Container :
           queued'[q][c] <=> queued[q][c] \/ (q = r /\ c \in cs /\ work[q][c] # NoWork)
  BY DEF TypeOK, Flush
<1>4. /\ work' \in [Runtime -> [Container -> Work \cup {NoWork}]]
      /\ \A q \in Runtime, c \in Container :
           /\ q = r /\ c \in cs /\ work[q][c] = NoWork => work'[q][c] = Start(f, FALSE)
           /\ ~(q = r /\ c \in cs /\ work[q][c] = NoWork) => work'[q][c] = work[q][c]
  <2>1. work' = [work EXCEPT ![r] = [c \in Container |->
                     IF c \in cs /\ @[c] = NoWork THEN Start(f, FALSE) ELSE @[c]]]
    BY DEF Flush
  <2>2. work \in [Runtime -> [Container -> Work \cup {NoWork}]]
    BY DEF TypeOK
  <2>3. \A q \in Runtime, c \in Container :
           work'[q][c] = IF q = r /\ c \in cs /\ work[q][c] = NoWork THEN Start(f, FALSE)
                         ELSE work[q][c]
    BY <2>1, <2>2
  <2>4. work' \in [Runtime -> [Container -> Work \cup {NoWork}]]
    BY <1>1, <2>1, <2>2
  <2> QED
    BY <2>3, <2>4
<1>5. /\ call' \in [Call -> [Container -> Standing]]
      /\ \A g \in Call, c \in Container :
           call'[g][c] = IF g # f \/ c \notin cs THEN call[g][c]
                         ELSE IF work[r][c] = NoWork THEN "owner" ELSE "active"
  <2>1. call' = [g \in Call |-> [c \in Container |->
                     IF g # f \/ c \notin cs THEN call[g][c]
                     ELSE IF work[r][c] = NoWork THEN "owner" ELSE "active"]]
    BY DEF Flush
  <2>2. \A g \in Call, c \in Container : call[g][c] \in Standing
    BY DEF TypeOK
  <2>3. "owner" \in Standing /\ "active" \in Standing
    BY DEF Standing
  <2> QED
    BY <2>1, <2>2, <2>3
<1>6. spoilt' = spoilt /\ spoilt \in [Runtime -> [Container -> BOOLEAN]]
  BY DEF Flush, TypeOK
<1>7. SchedulerType'
  BY <1>2, <1>3, <1>4, <1>5, <1>6 DEF SchedulerType
<1>8. Flushed(r, cs, cancelled, f)
  <2>1. \A q \in Runtime, c \in Container :
         /\ timer'[q][c] <=> timer[q][c] /\ ~(q = r /\ c \in cancelled)
         /\ queued'[q][c] <=> queued[q][c] \/ (q = r /\ c \in cs /\ work[q][c] # NoWork)
         /\ q = r /\ c \in cs /\ work[q][c] = NoWork => work'[q][c] = Start(f, FALSE)
         /\ ~(q = r /\ c \in cs /\ work[q][c] = NoWork) => work'[q][c] = work[q][c]
    BY <1>2, <1>3, <1>4
  <2> QED
    BY <1>5, <1>6, <2>1 DEF Flushed
<1> QED
  BY <1>7, <1>8

(* What the end of a work does, container by container.                    *)
Settled(r, c, ok) ==
    /\ \A q \in Runtime, d \in Container : <<q, d>> # <<r, c>> =>
         /\ timer'[q][d] = timer[q][d] /\ queued'[q][d] = queued[q][d]
         /\ work'[q][d] = work[q][d] /\ spoilt'[q][d] = spoilt[q][d]
    /\ ~queued'[r][c] /\ spoilt'[r][c] = ~ok
    /\ timer'[r][c] <=> timer[r][c] /\ ~queued[r][c]
    /\ queued[r][c] => work'[r][c] = Start(work[r][c].owner, work[r][c].failed \/ ~ok)
    /\ ~queued[r][c] => work'[r][c] = NoWork
    /\ \A f \in Call, d \in Container :
         call'[f][d] = IF since[f].runtime = r /\ d = c
                       THEN continuation(call[f][c], queued[r][c], ok,
                                         work[r][c].failed \/ ~ok)
                       ELSE call[f][d]

LEMMA SettleEffect ==
  ASSUME TypeOK, NEW r \in Runtime, NEW c \in Container, NEW ok \in BOOLEAN,
         work[r][c] # NoWork, Settle(r, c, ok)
  PROVE  SchedulerType' /\ Settled(r, c, ok)
<1>0. work[r][c] \in Work /\ queued[r][c] \in BOOLEAN
  BY DEF TypeOK
<1>1. Start(work[r][c].owner, work[r][c].failed \/ ~ok) \in Work
  BY <1>0 DEF Start, Work, Phase
<1>2. \A s \in Standing : continuation(s, queued[r][c], ok, work[r][c].failed \/ ~ok) \in Standing
  BY DEF continuation, Outcome, Standing
<1>3. /\ timer' \in [Runtime -> [Container -> BOOLEAN]]
      /\ \A q \in Runtime, d \in Container : <<q, d>> # <<r, c>> => timer'[q][d] = timer[q][d]
      /\ timer'[r][c] <=> timer[r][c] /\ ~queued[r][c]
  BY <1>0 DEF TypeOK, Settle
<1>4. /\ queued' \in [Runtime -> [Container -> BOOLEAN]]
      /\ \A q \in Runtime, d \in Container : <<q, d>> # <<r, c>> => queued'[q][d] = queued[q][d]
      /\ ~queued'[r][c]
  BY DEF TypeOK, Settle
<1>5. /\ work' \in [Runtime -> [Container -> Work \cup {NoWork}]]
      /\ \A q \in Runtime, d \in Container : <<q, d>> # <<r, c>> => work'[q][d] = work[q][d]
      /\ queued[r][c] => work'[r][c] = Start(work[r][c].owner, work[r][c].failed \/ ~ok)
      /\ ~queued[r][c] => work'[r][c] = NoWork
  BY <1>0, <1>1 DEF TypeOK, Settle
<1>6. /\ spoilt' \in [Runtime -> [Container -> BOOLEAN]]
      /\ \A q \in Runtime, d \in Container : <<q, d>> # <<r, c>> => spoilt'[q][d] = spoilt[q][d]
      /\ spoilt'[r][c] = ~ok
  BY DEF TypeOK, Settle
<1>7. /\ call' \in [Call -> [Container -> Standing]]
      /\ \A f \in Call, d \in Container :
           call'[f][d] = IF since[f].runtime = r /\ d = c
                         THEN continuation(call[f][c], queued[r][c], ok,
                                           work[r][c].failed \/ ~ok)
                         ELSE call[f][d]
  BY <1>2 DEF TypeOK, Settle
<1> QED
  BY <1>3, <1>4, <1>5, <1>6, <1>7 DEF Settled, SchedulerType

(* The fields of a work whose export was answered, or that is being saved. *)
LEMMA WorkExported ==
  ASSUME NEW w \in Work, NEW tree \in SUBSET Change
  PROVE  LET v == [w EXCEPT !.phase = "exported", !.tree = tree]
         IN v \in Work /\ v.phase = "exported" /\ v.tree = tree /\ v.owner = w.owner
  BY DEF Work, Phase

LEMMA WorkSaving ==
  ASSUME NEW w \in Work, NEW revision \in SUBSET Change
  PROVE  LET v == [w EXCEPT !.phase = "saving", !.revision = revision]
         IN v \in Work /\ v.phase = "saving" /\ v.tree = w.tree /\ v.owner = w.owner
  BY DEF Work, Phase

(* The write under way is that of a work that is being saved.              *)
LEMMA HeadIsSaved ==
  ASSUME TypeOK, WritesAreSaves, NEW r \in Runtime, NEW c \in Container, Writing(r, c)
  PROVE  work[r][c].phase = "saving" /\ work[r][c] \in Work
<1>1. writes \in Seq(Runtime \X Container) /\ writes # <<>> /\ Head(writes) = <<r, c>>
  BY DEF TypeOK, Writing
<1>2. Len(writes) \in Nat /\ Len(writes) >= 1 /\ writes[1] = <<r, c>>
  BY <1>1
<1>3. Contains(writes, <<r, c>>)
  BY <1>2 DEF Contains
<1> QED
  BY <1>3 DEF WritesAreSaves, TypeOK, NoWork

-----------------------------------------------------------------------------
(* The types.                                                              *)

LEMMA ContainerSteps ==
  ASSUME TypeOK, NEW r \in Runtime, NEW c \in Container,
         \/ Boot(r) \/ Ensure(r, c) \/ Restore(r, c) \/ RestoreFails(r, c)
         \/ \E x \in Change : Write(r, c, x) \/ ApplyWorkspaceChanges(r, c, x)
         \/ WatchEvent(r, c) \/ Discard(r) \/ Reload
  PROVE  TypeOK'
<1>1. CASE Boot(r)
  BY <1>1 DEF TypeOK, Boot, scheduler, storage, Runtime
<1>2. CASE Ensure(r, c)
  BY <1>2 DEF TypeOK, Ensure, scheduler, storage
<1>3. CASE Restore(r, c)
  BY <1>3 DEF TypeOK, Restore, scheduler, Snapshot
<1>4. CASE RestoreFails(r, c)
  <2>1. disk[c].revision \in SUBSET Change
    BY DEF TypeOK, Snapshot
  <2>2. /\ restored' = [restored EXCEPT ![r][c] = "no"]
        /\ revisions' = revisions \/ revisions' = [revisions EXCEPT ![r][c] = disk[c].revision]
        /\ failures < MaxFailures /\ failures' = failures + 1
        /\ UNCHANGED <<booted, live, files, unreported, made, scheduler, storage, since>>
    BY <1>4 DEF RestoreFails
  <2>3. revisions' \in [Runtime -> [Container -> SUBSET Change]]
    <3>1. revisions \in [Runtime -> [Container -> SUBSET Change]]
      BY DEF TypeOK
    <3>2. [revisions EXCEPT ![r][c] = disk[c].revision] \in [Runtime -> [Container -> SUBSET Change]]
      BY <2>1, <3>1
    <3> QED
      BY <2>2, <3>1, <3>2
  <2>4. (failures \in 0 .. MaxFailures)'
    BY <2>2 DEF TypeOK
  <2>5. restored' \in [Runtime -> [Container -> {"no", "restoring", "yes"}]]
    BY <2>2 DEF TypeOK
  <2> QED
    BY <2>2, <2>3, <2>4, <2>5 DEF TypeOK, scheduler, storage
<1>5. ASSUME NEW x \in Change, Write(r, c, x) PROVE TypeOK'
  BY <1>5 DEF TypeOK, Write, Changes, scheduler, storage
<1>6. ASSUME NEW x \in Change, ApplyWorkspaceChanges(r, c, x) PROVE TypeOK'
  <2>1. files' \in [Runtime -> [Container -> SUBSET Change]]
    BY <1>6 DEF TypeOK, ApplyWorkspaceChanges, Changes
  <2> QED
    BY <1>6, <2>1 DEF TypeOK, ApplyWorkspaceChanges, Changes, Bump, storage
<1>7. CASE WatchEvent(r, c)
  BY <1>7 DEF TypeOK, WatchEvent, Bump, storage
<1>8. CASE Discard(r)
  BY <1>8 DEF TypeOK, Discard, ForAll, storage
<1>9. CASE Reload
  BY <1>9 DEF TypeOK, Reload, Each, ForAll, NoWork, Standing
<1> QED
  BY <1>1, <1>2, <1>3, <1>4, <1>5, <1>6, <1>7, <1>8, <1>9

LEMMA BeginType ==
  ASSUME TypeOK, NEW r \in Runtime, NEW f \in Call, NEW kind \in Kind, Begin(f, r, kind),
         ContainerType'
  PROVE  SinceType'
<1>1. [c \in Container |-> revisions'[r][c] \cap files[r][c]] \in [Container -> SUBSET Change]
  BY DEF TypeOK, ContainerType
<1> QED
  BY <1>1 DEF TypeOK, Begin, Runtime, SinceType

LEMMA CallSteps ==
  ASSUME TypeOK, NEW r \in Runtime, NEW c \in Container,
         \/ TimerFires(r, c)
         \/ \E f \in Call : \/ FlushWorkspace(f, r, c) \/ StopProcess(f, r, c)
                           \/ ProcessExits(f, r, c) \/ FlushAll(f, r)
  PROVE  TypeOK'
<1>0. /\ {c} \in SUBSET Container /\ Container \in SUBSET Container
      /\ Nobody \in Call \cup {Nobody} /\ \A f \in Call : f \in Call \cup {Nobody}
      /\ {"flush", "flushAll", "exit"} \subseteq Kind
      /\ SchedulerType /\ ContainerType /\ StorageType /\ SinceType
      /\ failures \in 0 .. MaxFailures
  BY TypeParts DEF Kind
<1>1. CASE TimerFires(r, c)
  <2>1. SchedulerType'
    BY <1>0, <1>1, FlushEffect DEF TimerFires
  <2>2. ContainerType' /\ StorageType' /\ SinceType' /\ (failures \in 0 .. MaxFailures)'
    BY <1>0, <1>1 DEF TimerFires, container, storage, ContainerType, StorageType, SinceType
  <2> QED
    BY <2>1, <2>2, TypePartsNext
<1>2. ASSUME NEW f \in Call, FlushWorkspace(f, r, c) PROVE TypeOK'
  <2>1. SchedulerType'
    BY <1>0, <1>2, FlushEffect DEF FlushWorkspace
  <2>2. ContainerType' /\ StorageType' /\ (failures \in 0 .. MaxFailures)'
    BY <1>0, <1>2 DEF FlushWorkspace, container, storage, ContainerType, StorageType
  <2>3. SinceType'
    BY <1>0, <1>2, <2>2, BeginType DEF FlushWorkspace
  <2> QED
    BY <2>1, <2>2, <2>3, TypePartsNext
<1>3. ASSUME NEW f \in Call, StopProcess(f, r, c) PROVE TypeOK'
  <2>1. SchedulerType'
    BY <1>0, <1>3, FlushEffect DEF StopProcess
  <2>2. ContainerType' /\ StorageType' /\ (failures \in 0 .. MaxFailures)'
    BY <1>0, <1>3 DEF StopProcess, Bump, storage, ContainerType, StorageType
  <2>3. SinceType'
    BY <1>0, <1>3, <2>2, BeginType DEF StopProcess
  <2> QED
    BY <2>1, <2>2, <2>3, TypePartsNext
<1>4. ASSUME NEW f \in Call, ProcessExits(f, r, c) PROVE TypeOK'
  <2>1. SchedulerType'
    BY <1>0, <1>4, FlushEffect DEF ProcessExits
  <2>2. ContainerType' /\ StorageType' /\ (failures \in 0 .. MaxFailures)'
    BY <1>0, <1>4 DEF ProcessExits, Bump, storage, ContainerType, StorageType
  <2>3. SinceType'
    BY <1>0, <1>4, <2>2, BeginType DEF ProcessExits
  <2> QED
    BY <2>1, <2>2, <2>3, TypePartsNext
<1>5. ASSUME NEW f \in Call, FlushAll(f, r) PROVE TypeOK'
  <2>0. {d \in Container : Pending(r, d)} \in SUBSET Container
    OBVIOUS
  <2>1. SchedulerType'
    BY <1>0, <1>5, <2>0, FlushEffect DEF FlushAll
  <2>2. ContainerType' /\ StorageType' /\ (failures \in 0 .. MaxFailures)'
    BY <1>0, <1>5 DEF FlushAll, container, storage, ContainerType, StorageType
  <2>3. SinceType'
    BY <1>0, <1>5, <2>2, BeginType DEF FlushAll
  <2> QED
    BY <2>1, <2>2, <2>3, TypePartsNext
<1> QED
  BY <1>1, <1>2, <1>3, <1>4, <1>5

LEMMA SnapshotSteps ==
  ASSUME TypeOK, WritesAreSaves, NEW r \in Runtime, NEW c \in Container,
         \/ Export(r, c) \/ SaveSnapshot(r, c) \/ ExportFails(r, c)
         \/ SnapshotLands(r, c) \/ SnapshotFails(r, c)
  PROVE  TypeOK'
<1>0. /\ TRUE \in BOOLEAN /\ FALSE \in BOOLEAN
      /\ SchedulerType /\ ContainerType /\ StorageType /\ SinceType
      /\ failures \in 0 .. MaxFailures
  BY TypeParts
<1>1. CASE Export(r, c)
  <2>1. work[r][c] \in Work
    BY <1>1 DEF Export, TypeOK, NoWork
  <2>2. [work[r][c] EXCEPT !.phase = "exported", !.tree = files[r][c]] \in Work
    <3>1. files[r][c] \in SUBSET Change
      BY DEF TypeOK
    <3> QED
      BY <2>1, <3>1, WorkExported
  <2>3. work' = [work EXCEPT ![r][c] =
                   [work[r][c] EXCEPT !.phase = "exported", !.tree = files[r][c]]]
    BY <1>1, <2>1 DEF Export, TypeOK
  <2>4. SchedulerType'
    <3>1. work' \in [Runtime -> [Container -> Work \cup {NoWork}]]
      BY <1>0, <2>2, <2>3 DEF SchedulerType
    <3> QED
      BY <1>0, <1>1, <3>1 DEF SchedulerType, Export
  <2>5. ContainerType' /\ StorageType' /\ SinceType' /\ (failures \in 0 .. MaxFailures)'
    BY <1>0, <1>1 DEF Export, container, storage, ContainerType, StorageType, SinceType
  <2> QED
    BY <2>4, <2>5, TypePartsNext
<1>2. CASE SaveSnapshot(r, c)
  <2>1. work[r][c] \in Work
    BY <1>2 DEF SaveSnapshot, TypeOK, NoWork
  <2>2. [work[r][c] EXCEPT !.phase = "saving", !.revision = revisions[r][c]] \in Work
    <3>1. revisions[r][c] \in SUBSET Change
      BY DEF TypeOK
    <3> QED
      BY <2>1, <3>1, WorkSaving
  <2>3. work' = [work EXCEPT ![r][c] =
                   [work[r][c] EXCEPT !.phase = "saving", !.revision = revisions[r][c]]]
    BY <1>2, <2>1 DEF SaveSnapshot, TypeOK
  <2>4. SchedulerType'
    <3>1. work' \in [Runtime -> [Container -> Work \cup {NoWork}]]
      BY <1>0, <2>2, <2>3 DEF SchedulerType
    <3> QED
      BY <1>0, <1>2, <3>1 DEF SchedulerType, SaveSnapshot
  <2>5. StorageType'
    BY <1>0, <1>2 DEF SaveSnapshot, StorageType
  <2>6. ContainerType' /\ SinceType' /\ (failures \in 0 .. MaxFailures)'
    BY <1>0, <1>2 DEF SaveSnapshot, container, ContainerType, SinceType
  <2> QED
    BY <2>4, <2>5, <2>6, TypePartsNext
<1>3. CASE ExportFails(r, c)
  <2>0. work[r][c].phase \in {"exporting", "exported"} /\ Settle(r, c, FALSE)
    BY <1>3 DEF ExportFails
  <2>1. work[r][c] # NoWork
    BY <2>0 DEF NoWork
  <2>2. SchedulerType'
    BY <1>0, <2>0, <2>1, SettleEffect
  <2>3. ContainerType' /\ StorageType' /\ SinceType'
    BY <1>0, <1>3 DEF ExportFails, container, storage, ContainerType, StorageType, SinceType
  <2>4. (failures \in 0 .. MaxFailures)'
    BY <1>0, <1>3 DEF ExportFails
  <2> QED
    BY <2>2, <2>3, <2>4, TypePartsNext
<1>4. CASE SnapshotLands(r, c)
  <2>0. Writing(r, c)
    BY <1>4 DEF SnapshotLands
  <2>1. work[r][c] \in Work /\ work[r][c] # NoWork
    BY <2>0, HeadIsSaved DEF NoWork
  <2>2. SchedulerType'
    BY <1>0, <1>4, <2>1, SettleEffect DEF SnapshotLands
  <2>3. writes' \in Seq(Runtime \X Container)
    BY <1>0, <1>4 DEF SnapshotLands, Writing, StorageType
  <2>4. disk' \in [Container -> Snapshot] /\ landed' \in [Runtime -> [Container -> SUBSET Change]]
    BY <1>0, <1>4, <2>1 DEF SnapshotLands, StorageType, Snapshot, Work
  <2>5. ContainerType' /\ StorageType' /\ SinceType' /\ (failures \in 0 .. MaxFailures)'
    BY <1>0, <1>4, <2>3, <2>4 DEF SnapshotLands, container, ContainerType, StorageType, SinceType
  <2> QED
    BY <2>2, <2>5, TypePartsNext
<1>5. CASE SnapshotFails(r, c)
  <2>0. Writing(r, c)
    BY <1>5 DEF SnapshotFails
  <2>1. work[r][c] # NoWork
    BY <2>0, HeadIsSaved DEF NoWork
  <2>2. SchedulerType'
    BY <1>0, <1>5, <2>1, SettleEffect DEF SnapshotFails
  <2>3. StorageType'
    BY <1>0, <1>5 DEF SnapshotFails, Writing, StorageType
  <2>4. ContainerType' /\ SinceType' /\ (failures \in 0 .. MaxFailures)'
    BY <1>0, <1>5 DEF SnapshotFails, container, ContainerType, SinceType
  <2> QED
    BY <2>2, <2>3, <2>4, TypePartsNext
<1> QED
  BY <1>1, <1>2, <1>3, <1>4, <1>5

-----------------------------------------------------------------------------
(* The steps of the container, which leave the scheduler's work alone.     *)

LEMMA QuietStep ==
  ASSUME SchedulerSound, UNCHANGED <<queued, work, call, writes, since>>
  PROVE  SchedulerSound'
  BY DEF SchedulerSound, WaitersHaveWork, QueuedHasWork, WritesAreSaves

Rest == BootedBefore /\ IdleUntilRestored /\ BehindIsPending /\ CallersAreServed

LEMMA BootKeeps ==
  ASSUME TypeOK, Rest, NEW r \in Runtime, Boot(r)
  PROVE  Rest'
<1>1. /\ r = booted + 1 /\ booted' = r /\ live' = live \cup {r} /\ booted \in Nat
      /\ UNCHANGED <<files, unreported, restored, timer, queued, work, call, spoilt, landed, since>>
  BY DEF Boot, scheduler, storage, TypeOK
<1>2. /\ r \notin live /\ \A f \in Call : since[f].runtime <= booted /\ since[f].runtime # r
      /\ live \subseteq Runtime /\ \A f \in Call : since[f].runtime \in Nat
  BY <1>1 DEF Rest, BootedBefore, TypeOK, Runtime
<1>3. \A c \in Container : restored[r][c] = "no" /\ files[r][c] = {} /\ work[r][c] = NoWork
  BY <1>1, <1>2 DEF Rest, IdleUntilRestored
<1>4. BootedBefore'
  <2>1. live \subseteq 1 .. booted
    BY DEF Rest, BootedBefore
  <2>2. live' \subseteq 1 .. booted'
    BY <1>1, <2>1
  <2>3. \A f \in Call : since[f].runtime <= booted + 1
    BY <1>1, <1>2
  <2> QED
    BY <1>1, <2>2, <2>3 DEF BootedBefore
<1>5. IdleUntilRestored'
  BY <1>1, <1>3 DEF Rest, IdleUntilRestored, Runtime
<1>6. BehindIsPending'
  BY <1>1, <1>3 DEF Rest, BehindIsPending, Ready
<1>7. CallersAreServed'
  BY <1>1, <1>2 DEF Rest, CallersAreServed
<1> QED
  BY <1>4, <1>5, <1>6, <1>7 DEF Rest

LEMMA EnsureKeeps ==
  ASSUME TypeOK, Rest, NEW r \in Runtime, NEW c \in Container, Ensure(r, c)
  PROVE  Rest'
<1>1. /\ r \in live /\ restored[r][c] = "no"
      /\ \A q \in Runtime, d \in Container :
           restored'[q][d] = IF q = r /\ d = c THEN "restoring" ELSE restored[q][d]
      /\ UNCHANGED <<booted, live, files, unreported, timer, queued, work, call, spoilt, landed, since>>
  BY DEF Ensure, scheduler, storage, TypeOK
<1>4. BootedBefore'
  BY <1>1 DEF Rest, BootedBefore
<1>5. IdleUntilRestored'
  BY <1>1 DEF Rest, IdleUntilRestored
<1>6. BehindIsPending'
  <2>1. \A q \in Runtime, d \in Container : Ready(q, d)' => Ready(q, d)
    BY <1>1 DEF Ready
  <2> QED
    BY <1>1, <2>1 DEF Rest, BehindIsPending
<1>7. CallersAreServed'
  BY <1>1 DEF Rest, CallersAreServed
<1> QED
  BY <1>4, <1>5, <1>6, <1>7 DEF Rest

LEMMA RestoreKeeps ==
  ASSUME TypeOK, Rest, NEW r \in Runtime, NEW c \in Container, Restore(r, c)
  PROVE  Rest'
<1>1. /\ r \in live /\ restored[r][c] = "restoring"
      /\ \A q \in Runtime, d \in Container :
           /\ restored'[q][d] = IF q = r /\ d = c THEN "yes" ELSE restored[q][d]
           /\ files'[q][d] = IF q = r /\ d = c THEN files[r][c] \cup disk[c].tree ELSE files[q][d]
           /\ landed'[q][d] = IF q = r /\ d = c THEN disk[c].tree ELSE landed[q][d]
      /\ UNCHANGED <<booted, live, unreported, timer, queued, work, call, spoilt, since>>
  BY DEF Restore, scheduler, TypeOK
<1>2. files[r][c] = {} /\ work[r][c] = NoWork
  BY <1>1 DEF Rest, IdleUntilRestored
<1>4. BootedBefore'
  BY <1>1 DEF Rest, BootedBefore
<1>5. IdleUntilRestored'
  BY <1>1 DEF Rest, IdleUntilRestored
<1>6. BehindIsPending'
  <2> SUFFICES ASSUME NEW q \in Runtime, NEW d \in Container, q \in live, restored'[q][d] = "yes"
               PROVE  LET due == unreported[q][d] \/ timer[q][d] IN
                      /\ work[q][d] = NoWork /\ files'[q][d] # landed'[q][d] => due \/ spoilt[q][d]
                      /\ work[q][d].phase \in {"exported", "saving"} /\ work[q][d].tree # files'[q][d]
                            => due \/ queued[q][d]
    BY <1>1 DEF BehindIsPending, Ready
  <2>1. CASE q = r /\ d = c
    <3>1. files'[q][d] = landed'[q][d]
      BY <1>1, <1>2, <2>1
    <3>2. work[q][d].phase = "none"
      BY <1>2, <2>1 DEF NoWork
    <3> QED
      BY <3>1, <3>2
  <2>2. CASE ~(q = r /\ d = c)
    BY <1>1, <2>2 DEF Rest, BehindIsPending, Ready
  <2> QED
    BY <2>1, <2>2
<1>7. CallersAreServed'
  <2>1. \A q \in Runtime, d \in Container : files[q][d] \subseteq files'[q][d]
    BY <1>1
  <2>2. live \subseteq Runtime
    BY DEF TypeOK
  <2> QED
    BY <1>1, <2>1, <2>2 DEF Rest, CallersAreServed
<1> QED
  BY <1>4, <1>5, <1>6, <1>7 DEF Rest

LEMMA RestoreFailsKeeps ==
  ASSUME TypeOK, Rest, NEW r \in Runtime, NEW c \in Container, RestoreFails(r, c)
  PROVE  Rest'
<1>1. /\ r \in live /\ restored[r][c] = "restoring"
      /\ \A q \in Runtime, d \in Container :
           restored'[q][d] = IF q = r /\ d = c THEN "no" ELSE restored[q][d]
      /\ UNCHANGED <<booted, live, files, unreported, timer, queued, work, call, spoilt, landed, since>>
  BY DEF RestoreFails, scheduler, storage, TypeOK
<1>4. BootedBefore'
  BY <1>1 DEF Rest, BootedBefore
<1>5. IdleUntilRestored'
  BY <1>1 DEF Rest, IdleUntilRestored
<1>6. BehindIsPending'
  <2>1. \A q \in Runtime, d \in Container : Ready(q, d)' => Ready(q, d)
    BY <1>1 DEF Ready
  <2> QED
    BY <1>1, <2>1 DEF Rest, BehindIsPending
<1>7. CallersAreServed'
  BY <1>1 DEF Rest, CallersAreServed
<1> QED
  BY <1>4, <1>5, <1>6, <1>7 DEF Rest

(* A change of a file, which the watch has yet to report; the timer may start. *)
LEMMA ChangeEffect ==
  ASSUME TypeOK, NEW r \in Runtime, NEW c \in Container, NEW x \in Change,
         Write(r, c, x) \/ ApplyWorkspaceChanges(r, c, x)
  PROVE  /\ r \in live /\ restored[r][c] = "yes"
         /\ \A q \in Runtime, d \in Container :
              /\ files'[q][d] = IF q = r /\ d = c THEN files[r][c] \cup {x} ELSE files[q][d]
              /\ unreported'[q][d] <=> unreported[q][d] \/ (q = r /\ d = c)
              /\ timer[q][d] => timer'[q][d]
              /\ timer'[q][d] => timer[q][d] \/ (q = r /\ d = c)
         /\ UNCHANGED <<booted, live, restored, queued, work, call, spoilt, writes, landed, since>>
<1>1. Changes(r, c, x)
  BY DEF Write, ApplyWorkspaceChanges
<1>2. /\ r \in live /\ restored[r][c] = "yes"
      /\ files' = [files EXCEPT ![r][c] = @ \cup {x}]
      /\ unreported' = [unreported EXCEPT ![r][c] = TRUE]
  BY <1>1 DEF Changes, Ready
<1>3. timer' = timer \/ timer' = [timer EXCEPT ![r][c] = TRUE]
  BY DEF Write, ApplyWorkspaceChanges, scheduler
<1>4. UNCHANGED <<booted, live, restored, queued, work, call, spoilt, writes, landed, since>>
  BY DEF Write, ApplyWorkspaceChanges, scheduler, storage
<1>5. \A q \in Runtime, d \in Container :
        files'[q][d] = IF q = r /\ d = c THEN files[r][c] \cup {x} ELSE files[q][d]
  BY <1>2 DEF TypeOK
<1>6. \A q \in Runtime, d \in Container :
        unreported'[q][d] <=> unreported[q][d] \/ (q = r /\ d = c)
  BY <1>2 DEF TypeOK
<1>7. \A q \in Runtime, d \in Container :
        /\ timer[q][d] => timer'[q][d]
        /\ timer'[q][d] => timer[q][d] \/ (q = r /\ d = c)
  BY <1>3 DEF TypeOK
<1> QED
  BY <1>2, <1>4, <1>5, <1>6, <1>7

LEMMA ChangeKeeps ==
  ASSUME TypeOK, Rest, NEW r \in Runtime, NEW c \in Container, NEW x \in Change,
         Write(r, c, x) \/ ApplyWorkspaceChanges(r, c, x)
  PROVE  Rest'
<1>1. /\ r \in live /\ restored[r][c] = "yes"
      /\ \A q \in Runtime, d \in Container :
           /\ files'[q][d] = IF q = r /\ d = c THEN files[r][c] \cup {x} ELSE files[q][d]
           /\ unreported'[q][d] <=> unreported[q][d] \/ (q = r /\ d = c)
           /\ timer[q][d] => timer'[q][d]
           /\ timer'[q][d] => timer[q][d] \/ (q = r /\ d = c)
      /\ UNCHANGED <<booted, live, restored, queued, work, call, spoilt, landed, since>>
  BY ChangeEffect
<1>4. BootedBefore'
  BY <1>1 DEF Rest, BootedBefore
<1>5. IdleUntilRestored'
  BY <1>1 DEF Rest, IdleUntilRestored
<1>6. BehindIsPending'
  BY <1>1 DEF Rest, BehindIsPending, Ready
<1>7. CallersAreServed'
  <2>1. \A q \in Runtime, d \in Container : files[q][d] \subseteq files'[q][d]
    BY <1>1
  <2>2. live \subseteq Runtime
    BY DEF TypeOK
  <2> QED
    BY <1>1, <2>1, <2>2 DEF Rest, CallersAreServed
<1> QED
  BY <1>4, <1>5, <1>6, <1>7 DEF Rest

LEMMA WatchKeeps ==
  ASSUME TypeOK, Rest, NEW r \in Runtime, NEW c \in Container, WatchEvent(r, c)
  PROVE  Rest'
<1>1. /\ r \in live /\ restored[r][c] = "yes"
      /\ \A q \in Runtime, d \in Container :
           /\ unreported'[q][d] <=> unreported[q][d] /\ ~(q = r /\ d = c)
           /\ timer'[q][d] <=> timer[q][d] \/ (q = r /\ d = c)
      /\ UNCHANGED <<booted, live, files, restored, queued, work, call, spoilt, landed, since>>
  BY DEF WatchEvent, Ready, storage, TypeOK
<1>4. BootedBefore'
  BY <1>1 DEF Rest, BootedBefore
<1>5. IdleUntilRestored'
  BY <1>1 DEF Rest, IdleUntilRestored
<1>6. BehindIsPending'
  BY <1>1 DEF Rest, BehindIsPending, Ready
<1>7. CallersAreServed'
  BY <1>1 DEF Rest, CallersAreServed
<1> QED
  BY <1>4, <1>5, <1>6, <1>7 DEF Rest

LEMMA DiscardKeeps ==
  ASSUME TypeOK, Rest, NEW r \in Runtime, Discard(r)
  PROVE  Rest'
<1>1. /\ r \in live /\ live' = live \ {r}
      /\ \A q \in Runtime, d \in Container :
           /\ q = r => /\ files'[q][d] = {} /\ ~timer'[q][d] /\ ~unreported'[q][d]
                       /\ restored'[q][d] = "no"
           /\ q # r => /\ files'[q][d] = files[q][d] /\ timer'[q][d] = timer[q][d]
                       /\ unreported'[q][d] = unreported[q][d] /\ restored'[q][d] = restored[q][d]
      /\ UNCHANGED <<booted, queued, work, call, spoilt, landed, since>>
  BY DEF Discard, ForAll, storage, TypeOK
<1>2. booted \in Nat /\ live \subseteq 1 .. booted /\ live \subseteq Runtime
  BY DEF Rest, BootedBefore, TypeOK
<1>4. BootedBefore'
  BY <1>1 DEF Rest, BootedBefore
<1>5. IdleUntilRestored'
  BY <1>1, <1>2 DEF Rest, IdleUntilRestored
<1>6. BehindIsPending'
  BY <1>1 DEF Rest, BehindIsPending, Ready
<1>7. CallersAreServed'
  <2>1. \A q \in live', d \in Container : q \in live /\ files'[q][d] = files[q][d]
    BY <1>1, <1>2
  <2> QED
    BY <1>1, <2>1 DEF Rest, CallersAreServed
<1> QED
  BY <1>4, <1>5, <1>6, <1>7 DEF Rest

(* The page is reloaded: nothing runs, nobody waits.                       *)
LEMMA ReloadKeeps ==
  ASSUME TypeOK, Rest, SchedulerSound, Reload
  PROVE  Rest' /\ SchedulerSound'
<1>1. /\ live' = {} /\ writes' = <<>>
      /\ \A q \in Runtime, d \in Container :
           /\ work'[q][d] = NoWork /\ ~queued'[q][d] /\ ~timer'[q][d]
           /\ files'[q][d] = {} /\ restored'[q][d] = "no" /\ ~unreported'[q][d]
      /\ UNCHANGED <<booted, since>>
  BY DEF Reload, Each, ForAll
<1>2. \A f \in Call, d \in Container :
        /\ ~Waiting(call'[f][d])
        /\ call[f][d] = "none" => call'[f][d] = "none"
  BY DEF Reload, Waiting
<1>3. BootedBefore' /\ IdleUntilRestored' /\ BehindIsPending'
  BY <1>1 DEF Rest, BootedBefore, IdleUntilRestored, BehindIsPending, Ready
<1>4. CallersAreServed'
  BY <1>1, <1>2 DEF Rest, CallersAreServed, Waiting
<1>5. WaitersHaveWork' /\ QueuedHasWork'
  BY <1>1, <1>2 DEF WaitersHaveWork, QueuedHasWork
<1>6. WritesAreSaves'
  BY <1>1 DEF WritesAreSaves, NoWork, IsInjective, Contains
<1> QED
  BY <1>3, <1>4, <1>5, <1>6 DEF Rest, SchedulerSound

-----------------------------------------------------------------------------
(* The steps that flush.                                                   *)

(* Call f begins, or nobody's does: g, the caller of the flush, had not    *)
(* called before, and counts on no more than what is in the files.         *)
Begins(r, g) ==
    /\ \A f \in Call : since[f].kind # "none" => since'[f] = since[f] /\ f # g
    /\ \A f \in Call : since'[f] # since[f] =>
          /\ since[f].kind = "none" /\ since'[f].kind # "none" /\ since'[f].runtime = r
          /\ r \in live
          /\ \A c \in Container : since'[f].seen[c] \subseteq files[r][c]
    /\ g \in Call => since'[g] # since[g]

LEMMA BeginEffect ==
  ASSUME TypeOK, NEW r \in Runtime, NEW f \in Call, NEW kind \in Kind \ {"none"},
         Begin(f, r, kind), NEW g \in {f, Nobody}
  PROVE  Begins(r, g)
<1>1. /\ r \in live /\ since[f].kind = "none"
      /\ since'[f] = [runtime |-> r, kind |-> kind,
                      seen |-> [c \in Container |-> revisions'[r][c] \cap files[r][c]]]
      /\ \A h \in Call : h # f => since'[h] = since[h]
  BY DEF Begin, TypeOK
<1>2. /\ since'[f].runtime = r /\ since'[f].kind = kind
      /\ \A c \in Container : since'[f].seen[c] \subseteq files[r][c]
  BY <1>1
<1>3. since'[f] # since[f]
  BY <1>1, <1>2
<1> QED
  BY <1>1, <1>2, <1>3 DEF Begins

(* A flush of any containers that hold something to save keeps it all.     *)
LEMMA FlushKeeps ==
  ASSUME TypeOK, SchedulerSound, Rest, TypeOK',
         NEW r \in Runtime, NEW cs \in SUBSET Container, NEW cancelled \in SUBSET Container,
         NEW g \in Call \cup {Nobody},
         Flushed(r, cs, cancelled, g), Begins(r, g),
         UNCHANGED <<booted, live, files, unreported, restored, writes, landed>>,
         \A c \in cs : restored[r][c] = "yes" \/ work[r][c] # NoWork,
         \A c \in cancelled : timer[r][c] => c \in cs
  PROVE  SchedulerSound' /\ Rest'
<1>1. /\ spoilt' = spoilt
      /\ \A q \in Runtime, c \in Container :
         /\ timer'[q][c] <=> timer[q][c] /\ ~(q = r /\ c \in cancelled)
         /\ queued'[q][c] <=> queued[q][c] \/ (q = r /\ c \in cs /\ work[q][c] # NoWork)
  BY DEF Flushed
<1>2. \A q \in Runtime, c \in Container :
         /\ q = r /\ c \in cs /\ work[q][c] = NoWork
              => work'[q][c] = Start(g, FALSE)
         /\ ~(q = r /\ c \in cs /\ work[q][c] = NoWork) => work'[q][c] = work[q][c]
  BY DEF Flushed
<1>3. \A f \in Call, c \in Container :
         call'[f][c] = IF f # g \/ c \notin cs THEN call[f][c]
                       ELSE IF work[r][c] = NoWork THEN "owner" ELSE "active"
  BY DEF Flushed
<1>4. \A h \in Call \cup {Nobody} :
         Start(h, FALSE).phase = "exporting" /\ Start(h, FALSE).owner = h
         /\ Start(h, FALSE) # NoWork
  BY DEF Start, NoWork
<1>5. NoWork.phase = "none"
  BY DEF NoWork
<1>6. \A q \in Runtime, c \in Container : work[q][c] # NoWork => work'[q][c] = work[q][c]
  BY <1>2
<1>7. \A f \in Call, c \in Container : since'[f] # since[f] => call[f][c] = "none"
  BY DEF Begins, Rest, CallersAreServed
<1>8. \A f \in Call, c \in Container :
         /\ since'[f] = since[f] => call'[f][c] = call[f][c]
         /\ f # g => call'[f][c] = call[f][c]
  BY <1>3 DEF Begins
<1>9. g \in Call => since'[g].runtime = r /\ since[g].kind = "none"
  BY DEF Begins
<1>10. WaitersHaveWork'
  <2> SUFFICES ASSUME NEW f \in Call, NEW c \in Container, Waiting(call'[f][c])
               PROVE  /\ since'[f].runtime \in Runtime
                      /\ work'[since'[f].runtime][c] # NoWork
                      /\ call'[f][c] = "owner" => work'[since'[f].runtime][c].owner = f
                      /\ call'[f][c] = "active" => queued'[since'[f].runtime][c]
    BY DEF WaitersHaveWork
  <2>1. CASE f = g /\ c \in cs
    <3>1. since'[f].runtime = r
      BY <1>9, <2>1
    <3>2. CASE work[r][c] = NoWork
      <4>1. work'[r][c] = Start(f, FALSE) /\ call'[f][c] = "owner"
        BY <1>2, <1>3, <2>1, <3>2
      <4> QED
        BY <1>4, <3>1, <4>1
    <3>3. CASE work[r][c] # NoWork
      <4>1. call'[f][c] = "active" /\ queued'[r][c] /\ work'[r][c] = work[r][c]
        BY <1>1, <1>3, <1>6, <2>1, <3>3
      <4> QED
        BY <3>1, <3>3, <4>1
    <3> QED
      BY <3>2, <3>3
  <2>2. CASE ~(f = g /\ c \in cs)
    <3>1. call'[f][c] = call[f][c]
      BY <1>3, <2>2
    <3>2. since'[f] = since[f]
      BY <1>7, <3>1 DEF Waiting
    <3>3. /\ since[f].runtime \in Runtime /\ work[since[f].runtime][c] # NoWork
          /\ call[f][c] = "owner" => work[since[f].runtime][c].owner = f
          /\ call[f][c] = "active" => queued[since[f].runtime][c]
      BY <3>1 DEF SchedulerSound, WaitersHaveWork
    <3> QED
      BY <1>1, <1>6, <3>1, <3>2, <3>3
  <2> QED
    BY <2>1, <2>2
<1>11. QueuedHasWork'
  BY <1>1, <1>6 DEF SchedulerSound, QueuedHasWork
<1>12. \A q \in Runtime, c \in Container :
         \/ work'[q][c] = work[q][c]
         \/ work[q][c].phase = "none" /\ work'[q][c].phase = "exporting"
  BY <1>2, <1>4, <1>5
<1>13. WritesAreSaves'
  BY <1>12 DEF SchedulerSound, WritesAreSaves
<1>14. BootedBefore'
  <2>1. \A f \in Call : since'[f].runtime <= booted
    <3> SUFFICES ASSUME NEW f \in Call PROVE since'[f].runtime <= booted
      OBVIOUS
    <3>1. CASE since'[f] = since[f]
      BY <3>1 DEF Rest, BootedBefore
    <3>2. CASE since'[f] # since[f]
      <4>1. since'[f].runtime = r /\ r \in live
        BY <3>2 DEF Begins
      <4>2. r \in 1 .. booted
        BY <4>1 DEF Rest, BootedBefore
      <4> QED
        BY <4>1, <4>2 DEF TypeOK
    <3> QED
      BY <3>1, <3>2
  <2> QED
    BY <2>1 DEF Rest, BootedBefore
<1>15. IdleUntilRestored'
  <2>1. \A q \in Runtime, c \in Container : restored[q][c] # "yes" => work'[q][c] = work[q][c]
    BY <1>2
  <2> QED
    BY <1>1, <2>1 DEF Rest, IdleUntilRestored
<1>16. BehindIsPending'
  <2> SUFFICES ASSUME NEW q \in Runtime, NEW c \in Container, Ready(q, c)
               PROVE  LET due == unreported[q][c] \/ timer'[q][c] IN
                      /\ work'[q][c] = NoWork /\ files[q][c] # landed[q][c] => due \/ spoilt[q][c]
                      /\ work'[q][c].phase \in {"exported", "saving"} /\ work'[q][c].tree # files[q][c]
                            => due \/ queued'[q][c]
    BY <1>1 DEF BehindIsPending, Ready
  <2>1. CASE work[q][c] = NoWork
    <3>1. CASE work'[q][c] = NoWork
      <4>1. ~(q = r /\ c \in cs)
        BY <1>2, <1>4, <2>1, <3>1
      <4>2. timer'[q][c] <=> timer[q][c]
        BY <1>1, <4>1
      <4> QED
        BY <1>5, <2>1, <3>1, <4>2 DEF Rest, BehindIsPending
    <3>2. CASE work'[q][c] # NoWork
      BY <1>12, <2>1, <3>2
    <3> QED
      BY <3>1, <3>2
  <2>2. CASE work[q][c] # NoWork
    <3>1. work'[q][c] = work[q][c]
      BY <1>6, <2>2
    <3>2. timer[q][c] => timer'[q][c] \/ queued'[q][c]
      BY <1>1, <2>2
    <3>3. queued[q][c] => queued'[q][c]
      BY <1>1
    <3> QED
      BY <2>2, <3>1, <3>2, <3>3 DEF Rest, BehindIsPending
  <2> QED
    BY <2>1, <2>2
<1>17. CallersAreServed'
  <2> SUFFICES ASSUME NEW f \in Call, NEW c \in Container
               PROVE  LET q == since'[f].runtime IN
                      /\ since'[f].kind = "none" => call'[f][c] = "none"
                      /\ Waiting(call'[f][c]) /\ q \in live => since'[f].seen[c] \subseteq files[q][c]
                      /\ call'[f][c] \in {"owner", "followUp"} /\ work'[q][c].phase = "saving"
                            => since'[f].seen[c] \subseteq work'[q][c].tree
                      /\ call'[f][c] \in {"owner", "followUp"} /\ q \in live /\ work'[q][c].phase = "exported"
                            => since'[f].seen[c] \subseteq work'[q][c].tree
    BY DEF CallersAreServed
  <2>1. CASE since'[f] = since[f]
    <3>1. call'[f][c] = call[f][c]
      BY <1>8, <2>1
    <3>2. Waiting(call[f][c]) => since[f].runtime \in Runtime /\ work[since[f].runtime][c] # NoWork
      BY DEF SchedulerSound, WaitersHaveWork
    <3>3. Waiting(call[f][c]) => work'[since[f].runtime][c] = work[since[f].runtime][c]
      BY <1>6, <3>2
    <3> QED
      BY <2>1, <3>1, <3>3 DEF Rest, CallersAreServed, Waiting
  <2>2. CASE since'[f] # since[f]
    <3>1. /\ since'[f].kind # "none" /\ since'[f].runtime = r
          /\ since'[f].seen[c] \subseteq files[r][c]
      BY <2>2 DEF Begins
    <3>2. call[f][c] = "none"
      BY <1>7, <2>2
    <3>3. call'[f][c] \in {"owner", "followUp"} => work'[r][c].phase = "exporting"
      BY <1>2, <1>3, <1>4, <3>2
    <3> QED
      BY <3>1, <3>3
  <2> QED
    BY <2>1, <2>2
<1> QED
  BY <1>10, <1>11, <1>13, <1>14, <1>15, <1>16, <1>17 DEF SchedulerSound, Rest

LEMMA CallsKeep ==
  ASSUME TypeOK, SchedulerSound, Rest, NEW r \in Runtime, NEW c \in Container,
         \/ TimerFires(r, c)
         \/ \E f \in Call : \/ FlushWorkspace(f, r, c) \/ StopProcess(f, r, c)
                           \/ ProcessExits(f, r, c) \/ FlushAll(f, r)
  PROVE  SchedulerSound' /\ Rest'
<1>0. /\ TypeOK' /\ {c} \in SUBSET Container /\ Container \in SUBSET Container
      /\ Nobody \in Call \cup {Nobody} /\ \A f \in Call : f \in Call \cup {Nobody}
      /\ {"flush", "flushAll", "exit"} \subseteq Kind \ {"none"}
  BY CallSteps DEF Kind
<1>1. CASE TimerFires(r, c)
  <2>1. Flushed(r, {c}, {c}, Nobody)
    BY <1>0, <1>1, FlushEffect DEF TimerFires
  <2>2. timer[r][c] /\ UNCHANGED since
        /\ UNCHANGED <<booted, live, files, unreported, restored, writes, landed>>
    BY <1>1 DEF TimerFires, container, storage
  <2>3. Begins(r, Nobody)
    BY <2>2 DEF Begins
  <2>4. restored[r][c] = "yes"
    BY <2>2 DEF Rest, IdleUntilRestored
  <2> QED
    BY <1>0, <2>1, <2>2, <2>3, <2>4, FlushKeeps
<1>2. ASSUME NEW f \in Call, FlushWorkspace(f, r, c) PROVE SchedulerSound' /\ Rest'
  <2>1. Flushed(r, {c}, {c}, f)
    BY <1>0, <1>2, FlushEffect DEF FlushWorkspace
  <2>2. Begins(r, f)
    BY <1>0, <1>2, BeginEffect DEF FlushWorkspace
  <2>3. restored[r][c] = "yes"
        /\ UNCHANGED <<booted, live, files, unreported, restored, writes, landed>>
    BY <1>2 DEF FlushWorkspace, Ready, container, storage
  <2> QED
    BY <1>0, <2>1, <2>2, <2>3, FlushKeeps
<1>3. ASSUME NEW f \in Call, StopProcess(f, r, c) PROVE SchedulerSound' /\ Rest'
  <2>1. Flushed(r, {c}, {c}, f)
    BY <1>0, <1>3, FlushEffect DEF StopProcess
  <2>2. Begins(r, f)
    BY <1>0, <1>3, BeginEffect DEF StopProcess
  <2>3. restored[r][c] = "yes"
        /\ UNCHANGED <<booted, live, files, unreported, restored, writes, landed>>
    BY <1>3 DEF StopProcess, Ready, storage
  <2> QED
    BY <1>0, <2>1, <2>2, <2>3, FlushKeeps
<1>4. ASSUME NEW f \in Call, ProcessExits(f, r, c) PROVE SchedulerSound' /\ Rest'
  <2>1. Flushed(r, {c}, {c}, Nobody)
    BY <1>0, <1>4, FlushEffect DEF ProcessExits
  <2>2. Begins(r, Nobody)
    BY <1>0, <1>4, BeginEffect DEF ProcessExits
  <2>3. restored[r][c] = "yes"
        /\ UNCHANGED <<booted, live, files, unreported, restored, writes, landed>>
    BY <1>4 DEF ProcessExits, Ready, storage
  <2> QED
    BY <1>0, <2>1, <2>2, <2>3, FlushKeeps
<1>5. ASSUME NEW f \in Call, FlushAll(f, r) PROVE SchedulerSound' /\ Rest'
  <2> DEFINE cs == {d \in Container : Pending(r, d)}
  <2>0. cs \in SUBSET Container
    OBVIOUS
  <2>1. Flushed(r, cs, Container, f)
    BY <1>0, <1>5, <2>0, FlushEffect DEF FlushAll
  <2>2. Begins(r, f)
    BY <1>0, <1>5, BeginEffect DEF FlushAll
  <2>3. UNCHANGED <<booted, live, files, unreported, restored, writes, landed>>
    BY <1>5 DEF FlushAll, container, storage
  <2>4. \A d \in cs : restored[r][d] = "yes" \/ work[r][d] # NoWork
    BY DEF Pending, Rest, IdleUntilRestored, SchedulerSound, QueuedHasWork
  <2>5. \A d \in Container : timer[r][d] => d \in cs
    BY DEF Pending
  <2> HIDE DEF cs
  <2> QED
    BY <1>0, <2>0, <2>1, <2>2, <2>3, <2>4, <2>5, FlushKeeps
<1> QED
  BY <1>1, <1>2, <1>3, <1>4, <1>5

-----------------------------------------------------------------------------
(* The steps of a snapshot.                                                *)

(* The write queue without its first element.                              *)
LEMMA QueueTail ==
  ASSUME TypeOK, WritesAreSaves, NEW r \in Runtime, NEW c \in Container, Writing(r, c)
  PROVE  /\ IsInjective(Tail(writes))
         /\ \A q \in Runtime, d \in Container :
              Contains(Tail(writes), <<q, d>>) <=>
                Contains(writes, <<q, d>>) /\ <<q, d>> # <<r, c>>
<1>1. writes \in Seq(Runtime \X Container) /\ writes # <<>> /\ Head(writes) = <<r, c>>
  BY DEF TypeOK, Writing
<1>2. /\ Len(writes) \in Nat /\ Len(writes) >= 1 /\ writes[1] = <<r, c>>
      /\ Len(Tail(writes)) = Len(writes) - 1
      /\ \A i \in 1 .. Len(writes) - 1 : Tail(writes)[i] = writes[i + 1]
      /\ DOMAIN Tail(writes) = 1 .. Len(writes) - 1 /\ DOMAIN writes = 1 .. Len(writes)
  BY <1>1
<1>3. \A i, j \in 1 .. Len(writes) : writes[i] = writes[j] => i = j
  BY <1>2 DEF WritesAreSaves, IsInjective
<1>4. IsInjective(Tail(writes))
  <2> SUFFICES ASSUME NEW i \in 1 .. Len(writes) - 1, NEW j \in 1 .. Len(writes) - 1,
                      Tail(writes)[i] = Tail(writes)[j]
               PROVE  i = j
    BY <1>2 DEF IsInjective
  <2>1. /\ i + 1 \in 1 .. Len(writes) /\ j + 1 \in 1 .. Len(writes)
        /\ writes[i + 1] = writes[j + 1]
    BY <1>2
  <2> QED
    BY <1>3, <2>1
<1>5. ASSUME NEW q \in Runtime, NEW d \in Container
      PROVE  Contains(Tail(writes), <<q, d>>) <=>
               Contains(writes, <<q, d>>) /\ <<q, d>> # <<r, c>>
  <2>1. ASSUME NEW i \in 1 .. Len(writes) - 1, Tail(writes)[i] = <<q, d>>
        PROVE  Contains(writes, <<q, d>>) /\ <<q, d>> # <<r, c>>
    <3>1. i + 1 \in 1 .. Len(writes) /\ 1 \in 1 .. Len(writes) /\ writes[i + 1] = <<q, d>>
          /\ i + 1 # 1
      BY <1>2, <2>1
    <3> QED
      BY <1>2, <1>3, <3>1 DEF Contains
  <2>2. ASSUME NEW i \in 1 .. Len(writes), writes[i] = <<q, d>>, <<q, d>> # <<r, c>>
        PROVE  Contains(Tail(writes), <<q, d>>)
    <3>1. i # 1
      BY <1>2, <2>2
    <3>2. i - 1 \in 1 .. Len(writes) - 1 /\ Tail(writes)[i - 1] = <<q, d>>
      BY <1>2, <2>2, <3>1
    <3> QED
      BY <1>2, <3>2 DEF Contains
  <2> QED
    BY <1>2, <2>1, <2>2 DEF Contains
<1> QED
  BY <1>4, <1>5

LEMMA ExportKeeps ==
  ASSUME TypeOK, SchedulerSound, Rest, NEW r \in Runtime, NEW c \in Container, Export(r, c)
  PROVE  SchedulerSound' /\ Rest'
<1>1. /\ r \in live /\ work[r][c].phase = "exporting"
      /\ UNCHANGED <<booted, live, files, unreported, restored, timer, queued, call, spoilt,
                     writes, landed, since>>
  BY DEF Export, container, storage
<1>2. work[r][c] \in Work /\ work[r][c] # NoWork /\ files[r][c] \in SUBSET Change
  BY <1>1 DEF TypeOK, NoWork
<1>3. work' = [work EXCEPT ![r][c] =
                 [work[r][c] EXCEPT !.phase = "exported", !.tree = files[r][c]]]
  BY <1>2 DEF Export, TypeOK
<1>4. /\ work'[r][c].phase = "exported" /\ work'[r][c].tree = files[r][c]
      /\ work'[r][c].owner = work[r][c].owner
  <2> DEFINE v == [work[r][c] EXCEPT !.phase = "exported", !.tree = files[r][c]]
  <2>1. work'[r][c] = v
    BY <1>3 DEF TypeOK
  <2>2. v.phase = "exported" /\ v.tree = files[r][c] /\ v.owner = work[r][c].owner
    BY <1>2, WorkExported, Zenon
  <2> HIDE DEF v
  <2> QED
    BY <2>1, <2>2
<1>5. work'[r][c] # NoWork
  BY <1>4 DEF NoWork
<1>6. \A q \in Runtime, d \in Container : ~(q = r /\ d = c) => work'[q][d] = work[q][d]
  BY <1>3 DEF TypeOK
<1>7. \A q \in Runtime, d \in Container :
        /\ work'[q][d] # NoWork <=> work[q][d] # NoWork
        /\ work[q][d] # NoWork => work'[q][d].owner = work[q][d].owner
        /\ work'[q][d].phase = "saving" <=> work[q][d].phase = "saving"
  BY <1>1, <1>2, <1>4, <1>5, <1>6
<1>8. SchedulerSound'
  BY <1>1, <1>7 DEF SchedulerSound, WaitersHaveWork, QueuedHasWork, WritesAreSaves
<1>9. BootedBefore' /\ IdleUntilRestored'
  BY <1>1, <1>7 DEF Rest, BootedBefore, IdleUntilRestored
<1>10. BehindIsPending'
  BY <1>1, <1>4, <1>5, <1>6 DEF Rest, BehindIsPending, Ready
<1>11. CallersAreServed'
  <2> SUFFICES ASSUME NEW f \in Call, NEW d \in Container
               PROVE  LET q == since[f].runtime IN
                      /\ since[f].kind = "none" => call[f][d] = "none"
                      /\ Waiting(call[f][d]) /\ q \in live => since[f].seen[d] \subseteq files[q][d]
                      /\ call[f][d] \in {"owner", "followUp"} /\ work'[q][d].phase = "saving"
                            => since[f].seen[d] \subseteq work'[q][d].tree
                      /\ call[f][d] \in {"owner", "followUp"} /\ q \in live /\ work'[q][d].phase = "exported"
                            => since[f].seen[d] \subseteq work'[q][d].tree
    BY <1>1 DEF CallersAreServed
  <2>1. CASE since[f].runtime = r /\ d = c
    BY <1>1, <1>4, <2>1 DEF Rest, CallersAreServed, Waiting
  <2>2. CASE ~(since[f].runtime = r /\ d = c)
    <3>1. Waiting(call[f][d]) => since[f].runtime \in Runtime
      BY DEF SchedulerSound, WaitersHaveWork
    <3>2. Waiting(call[f][d]) => work'[since[f].runtime][d] = work[since[f].runtime][d]
      BY <1>6, <2>2, <3>1
    <3> QED
      BY <3>2 DEF Rest, CallersAreServed, Waiting
  <2> QED
    BY <2>1, <2>2
<1> QED
  BY <1>8, <1>9, <1>10, <1>11 DEF Rest

LEMMA SaveKeeps ==
  ASSUME TypeOK, SchedulerSound, Rest, NEW r \in Runtime, NEW c \in Container, SaveSnapshot(r, c)
  PROVE  SchedulerSound' /\ Rest'
<1>1. /\ r \in live /\ work[r][c].phase = "exported" /\ writes' = Append(writes, <<r, c>>)
      /\ UNCHANGED <<booted, live, files, unreported, restored, timer, queued, call, spoilt,
                     landed, since>>
  BY DEF SaveSnapshot, container
<1>2. work[r][c] \in Work /\ work[r][c] # NoWork /\ revisions[r][c] \in SUBSET Change
  BY <1>1 DEF TypeOK, NoWork
<1>3. work' = [work EXCEPT ![r][c] =
                 [work[r][c] EXCEPT !.phase = "saving", !.revision = revisions[r][c]]]
  BY <1>2 DEF SaveSnapshot, TypeOK
<1>4. /\ work'[r][c].phase = "saving" /\ work'[r][c].tree = work[r][c].tree
      /\ work'[r][c].owner = work[r][c].owner
  <2> DEFINE v == [work[r][c] EXCEPT !.phase = "saving", !.revision = revisions[r][c]]
  <2>1. work'[r][c] = v
    BY <1>3 DEF TypeOK
  <2>2. v.phase = "saving" /\ v.tree = work[r][c].tree /\ v.owner = work[r][c].owner
    BY <1>2, WorkSaving, Zenon
  <2> HIDE DEF v
  <2> QED
    BY <2>1, <2>2
<1>5. work'[r][c] # NoWork
  BY <1>4 DEF NoWork
<1>6. \A q \in Runtime, d \in Container : ~(q = r /\ d = c) => work'[q][d] = work[q][d]
  BY <1>3 DEF TypeOK
<1>7. \A q \in Runtime, d \in Container :
        /\ work'[q][d] # NoWork <=> work[q][d] # NoWork
        /\ work[q][d] # NoWork => work'[q][d].owner = work[q][d].owner
  BY <1>2, <1>4, <1>5, <1>6
<1>8. WaitersHaveWork' /\ QueuedHasWork'
  BY <1>1, <1>7 DEF SchedulerSound, WaitersHaveWork, QueuedHasWork
<1>9. WritesAreSaves'
  <2>1. writes \in Seq(Runtime \X Container) /\ Len(writes) \in Nat
    BY DEF TypeOK
  <2>2. /\ Len(writes') = Len(writes) + 1 /\ writes'[Len(writes) + 1] = <<r, c>>
        /\ \A i \in 1 .. Len(writes) : writes'[i] = writes[i]
        /\ DOMAIN writes' = 1 .. Len(writes) + 1 /\ DOMAIN writes = 1 .. Len(writes)
    BY <1>1, <2>1
  <2>3. \A i \in 1 .. Len(writes) : writes[i] # <<r, c>>
    BY <1>1 DEF SchedulerSound, WritesAreSaves, Contains
  <2>4. \A i, j \in 1 .. Len(writes) : writes[i] = writes[j] => i = j
    BY <2>2 DEF SchedulerSound, WritesAreSaves, IsInjective
  <2>5. IsInjective(writes')
    <3> SUFFICES ASSUME NEW i \in 1 .. Len(writes) + 1, NEW j \in 1 .. Len(writes) + 1,
                        writes'[i] = writes'[j]
                 PROVE  i = j
      BY <2>2 DEF IsInjective
    <3>1. CASE i \in 1 .. Len(writes) /\ j \in 1 .. Len(writes)
      BY <2>2, <2>4, <3>1
    <3>2. CASE i = Len(writes) + 1 \/ j = Len(writes) + 1
      BY <2>1, <2>2, <2>3, <3>2
    <3> QED
      BY <2>1, <3>1, <3>2
  <2>6. \A q \in Runtime, d \in Container :
          Contains(writes', <<q, d>>) <=> Contains(writes, <<q, d>>) \/ <<q, d>> = <<r, c>>
    <3> SUFFICES ASSUME NEW q \in Runtime, NEW d \in Container
                 PROVE  Contains(writes', <<q, d>>) <=>
                          Contains(writes, <<q, d>>) \/ <<q, d>> = <<r, c>>
      OBVIOUS
    <3>1. ASSUME NEW i \in 1 .. Len(writes) + 1, writes'[i] = <<q, d>>
          PROVE  Contains(writes, <<q, d>>) \/ <<q, d>> = <<r, c>>
      <4>1. i = Len(writes) + 1 \/ i \in 1 .. Len(writes)
        BY <2>1
      <4> QED
        BY <2>2, <3>1, <4>1 DEF Contains
    <3>2. ASSUME NEW i \in 1 .. Len(writes), writes[i] = <<q, d>>
          PROVE  Contains(writes', <<q, d>>)
      <4>1. i \in 1 .. Len(writes') /\ writes'[i] = <<q, d>>
        BY <2>1, <2>2, <3>2
      <4> QED
        BY <4>1 DEF Contains
    <3>3. Contains(writes', <<r, c>>)
      <4>1. Len(writes) + 1 \in 1 .. Len(writes')
        BY <2>1, <2>2
      <4> QED
        BY <2>2, <4>1 DEF Contains
    <3> QED
      BY <2>2, <3>1, <3>2, <3>3 DEF Contains
  <2> QED
    BY <1>4, <1>6, <2>5, <2>6 DEF SchedulerSound, WritesAreSaves
<1>10. BootedBefore' /\ IdleUntilRestored'
  BY <1>1, <1>7 DEF Rest, BootedBefore, IdleUntilRestored
<1>11. BehindIsPending'
  <2> SUFFICES ASSUME NEW q \in Runtime, NEW d \in Container, Ready(q, d)
               PROVE  LET due == unreported[q][d] \/ timer[q][d] IN
                      /\ work'[q][d] = NoWork /\ files[q][d] # landed[q][d] => due \/ spoilt[q][d]
                      /\ work'[q][d].phase \in {"exported", "saving"} /\ work'[q][d].tree # files[q][d]
                            => due \/ queued[q][d]
    BY <1>1 DEF BehindIsPending, Ready
  <2>1. CASE q = r /\ d = c
    BY <1>1, <1>4, <1>5, <2>1 DEF Rest, BehindIsPending
  <2>2. CASE ~(q = r /\ d = c)
    BY <1>6, <2>2 DEF Rest, BehindIsPending
  <2> QED
    BY <2>1, <2>2
<1>12. CallersAreServed'
  <2> SUFFICES ASSUME NEW f \in Call, NEW d \in Container
               PROVE  LET q == since[f].runtime IN
                      /\ since[f].kind = "none" => call[f][d] = "none"
                      /\ Waiting(call[f][d]) /\ q \in live => since[f].seen[d] \subseteq files[q][d]
                      /\ call[f][d] \in {"owner", "followUp"} /\ work'[q][d].phase = "saving"
                            => since[f].seen[d] \subseteq work'[q][d].tree
                      /\ call[f][d] \in {"owner", "followUp"} /\ q \in live /\ work'[q][d].phase = "exported"
                            => since[f].seen[d] \subseteq work'[q][d].tree
    BY <1>1 DEF CallersAreServed
  <2>1. CASE since[f].runtime = r /\ d = c
    BY <1>1, <1>4, <2>1 DEF Rest, CallersAreServed
  <2>2. CASE ~(since[f].runtime = r /\ d = c)
    <3>1. Waiting(call[f][d]) => since[f].runtime \in Runtime
      BY DEF SchedulerSound, WaitersHaveWork
    <3>2. Waiting(call[f][d]) => work'[since[f].runtime][d] = work[since[f].runtime][d]
      BY <1>6, <2>2, <3>1
    <3> QED
      BY <3>2 DEF Rest, CallersAreServed, Waiting
  <2> QED
    BY <2>1, <2>2
<1> QED
  BY <1>8, <1>9, <1>10, <1>11, <1>12 DEF SchedulerSound, Rest

(* The end of a work, whether it saved its tree or failed.                 *)
LEMMA SettleKeeps ==
  ASSUME TypeOK, SchedulerSound, Rest,
         NEW r \in Runtime, NEW c \in Container, NEW ok \in BOOLEAN,
         work[r][c] # NoWork, Settled(r, c, ok),
         UNCHANGED <<booted, live, files, unreported, restored, since>>,
         \/ work[r][c].phase # "saving" /\ UNCHANGED writes
         \/ work[r][c].phase = "saving" /\ Writing(r, c) /\ writes' = Tail(writes),
         ok => work[r][c].phase = "saving",
         \A q \in Runtime, d \in Container :
            landed'[q][d] = IF ok /\ q = r /\ d = c THEN work[r][c].tree ELSE landed[q][d]
  PROVE  SchedulerSound' /\ Rest'
<1>1. \A q \in Runtime, d \in Container : ~(q = r /\ d = c) =>
        /\ timer'[q][d] = timer[q][d] /\ queued'[q][d] = queued[q][d]
        /\ work'[q][d] = work[q][d] /\ spoilt'[q][d] = spoilt[q][d]
  BY DEF Settled
<1>2. /\ ~queued'[r][c] /\ spoilt'[r][c] = ~ok
      /\ timer'[r][c] <=> timer[r][c] /\ ~queued[r][c]
      /\ queued[r][c] => work'[r][c] = Start(work[r][c].owner, work[r][c].failed \/ ~ok)
      /\ ~queued[r][c] => work'[r][c] = NoWork
  BY DEF Settled
<1>3. \A f \in Call, d \in Container :
        call'[f][d] = IF since[f].runtime = r /\ d = c
                      THEN continuation(call[f][c], queued[r][c], ok, work[r][c].failed \/ ~ok)
                      ELSE call[f][d]
  BY DEF Settled
<1>4. queued[r][c] => /\ work'[r][c].phase = "exporting" /\ work'[r][c] # NoWork
                      /\ work'[r][c].owner = work[r][c].owner
  BY <1>2 DEF Start, NoWork
<1>5. ~queued[r][c] => work'[r][c].phase = "none"
  BY <1>2 DEF NoWork
(* Whoever still waits at c awaits the follow-up, as its owner or behind it. *)
<1>6. ASSUME NEW f \in Call, since[f].runtime = r, Waiting(call'[f][c])
      PROVE  /\ queued[r][c] /\ Waiting(call[f][c])
             /\ \/ call'[f][c] = "owner" /\ call[f][c] = "owner"
                \/ call'[f][c] = "followUp"
  <2>1. call'[f][c] = continuation(call[f][c], queued[r][c], ok, work[r][c].failed \/ ~ok)
    BY <1>3, <1>6
  <2>2. call[f][c] = "active" => queued[r][c]
    BY <1>6 DEF SchedulerSound, WaitersHaveWork, Waiting
  <2>3. CASE call[f][c] = "active"
    BY <2>1, <2>2, <2>3 DEF continuation, Waiting
  <2>4. CASE call[f][c] = "followUp"
    BY <1>6, <2>1, <2>4 DEF continuation, Waiting, Outcome
  <2>5. CASE call[f][c] = "owner"
    BY <1>6, <2>1, <2>5 DEF continuation, Waiting, Outcome
  <2>6. CASE call[f][c] \notin {"active", "followUp", "owner"}
    BY <1>6, <2>1, <2>6 DEF continuation, Waiting
  <2> QED
    BY <2>3, <2>4, <2>5, <2>6
<1>7. WaitersHaveWork'
  <2> SUFFICES ASSUME NEW f \in Call, NEW d \in Container, Waiting(call'[f][d])
               PROVE  /\ since[f].runtime \in Runtime
                      /\ work'[since[f].runtime][d] # NoWork
                      /\ call'[f][d] = "owner" => work'[since[f].runtime][d].owner = f
                      /\ call'[f][d] = "active" => queued'[since[f].runtime][d]
    BY DEF WaitersHaveWork
  <2>1. CASE since[f].runtime = r /\ d = c
    <3>1. /\ queued[r][c]
          /\ \/ call'[f][c] = "owner" /\ call[f][c] = "owner"
             \/ call'[f][c] = "followUp"
      BY <1>6, <2>1
    <3>2. call[f][c] = "owner" => work[r][c].owner = f
      BY <2>1 DEF SchedulerSound, WaitersHaveWork, Waiting
    <3> QED
      BY <1>4, <2>1, <3>1, <3>2
  <2>2. CASE ~(since[f].runtime = r /\ d = c)
    <3>1. call'[f][d] = call[f][d]
      BY <1>3, <2>2
    <3>2. /\ since[f].runtime \in Runtime /\ work[since[f].runtime][d] # NoWork
          /\ call[f][d] = "owner" => work[since[f].runtime][d].owner = f
          /\ call[f][d] = "active" => queued[since[f].runtime][d]
      BY <3>1 DEF SchedulerSound, WaitersHaveWork
    <3> QED
      BY <1>1, <2>2, <3>1, <3>2
  <2> QED
    BY <2>1, <2>2
<1>8. QueuedHasWork'
  BY <1>1, <1>2 DEF SchedulerSound, QueuedHasWork
<1>9. WritesAreSaves'
  <2>1. work'[r][c].phase # "saving"
    BY <1>4, <1>5
  <2>2. CASE work[r][c].phase # "saving" /\ UNCHANGED writes
    BY <1>1, <2>1, <2>2 DEF SchedulerSound, WritesAreSaves
  <2>3. CASE Writing(r, c) /\ writes' = Tail(writes)
    BY <1>1, <2>1, <2>3, QueueTail DEF SchedulerSound, WritesAreSaves
  <2> QED
    BY <2>2, <2>3
<1>10. BootedBefore'
  BY DEF Rest, BootedBefore
<1>11. IdleUntilRestored'
  <2>1. \A q \in Runtime, d \in Container : ~timer[q][d] => ~timer'[q][d]
    BY <1>1, <1>2
  <2>2. \A q \in Runtime, d \in Container : work[q][d] = NoWork => work'[q][d] = NoWork
    BY <1>1
  <2> QED
    BY <2>1, <2>2 DEF Rest, IdleUntilRestored
<1>12. BehindIsPending'
  <2> SUFFICES ASSUME NEW q \in Runtime, NEW d \in Container, Ready(q, d)
               PROVE  LET due == unreported[q][d] \/ timer'[q][d] IN
                      /\ work'[q][d] = NoWork /\ files[q][d] # landed'[q][d] => due \/ spoilt'[q][d]
                      /\ work'[q][d].phase \in {"exported", "saving"} /\ work'[q][d].tree # files[q][d]
                            => due \/ queued'[q][d]
    BY DEF BehindIsPending, Ready
  <2>1. CASE q = r /\ d = c
    <3>1. work'[r][c].phase \notin {"exported", "saving"}
      BY <1>4, <1>5
    <3>2. ASSUME work'[r][c] = NoWork, files[r][c] # landed'[r][c], ~spoilt'[r][c]
          PROVE  unreported[r][c] \/ timer'[r][c]
      <4>1. ~queued[r][c]
        BY <1>4, <3>2
      <4>2. ok /\ work[r][c].phase = "saving" /\ landed'[r][c] = work[r][c].tree
        BY <1>2, <3>2
      <4>3. unreported[r][c] \/ timer[r][c]
        BY <2>1, <3>2, <4>1, <4>2 DEF Rest, BehindIsPending
      <4> QED
        BY <1>2, <4>1, <4>3
    <3> QED
      BY <2>1, <3>1, <3>2
  <2>2. CASE ~(q = r /\ d = c)
    BY <1>1, <2>2 DEF Rest, BehindIsPending
  <2> QED
    BY <2>1, <2>2
<1>13. CallersAreServed'
  <2> SUFFICES ASSUME NEW f \in Call, NEW d \in Container
               PROVE  LET q == since[f].runtime IN
                      /\ since[f].kind = "none" => call'[f][d] = "none"
                      /\ Waiting(call'[f][d]) /\ q \in live => since[f].seen[d] \subseteq files[q][d]
                      /\ call'[f][d] \in {"owner", "followUp"} /\ work'[q][d].phase = "saving"
                            => since[f].seen[d] \subseteq work'[q][d].tree
                      /\ call'[f][d] \in {"owner", "followUp"} /\ q \in live /\ work'[q][d].phase = "exported"
                            => since[f].seen[d] \subseteq work'[q][d].tree
    BY DEF CallersAreServed
  <2>1. CASE since[f].runtime = r /\ d = c
    <3>1. work'[r][c].phase \notin {"exported", "saving"}
      BY <1>4, <1>5
    <3>2. call[f][d] = "none" => call'[f][d] = "none"
      BY <1>3, <2>1 DEF continuation
    <3>3. Waiting(call'[f][d]) => Waiting(call[f][d])
      BY <1>6, <2>1
    <3> QED
      BY <2>1, <3>1, <3>2, <3>3 DEF Rest, CallersAreServed
  <2>2. CASE ~(since[f].runtime = r /\ d = c)
    <3>1. call'[f][d] = call[f][d]
      BY <1>3, <2>2
    <3>2. Waiting(call[f][d]) => since[f].runtime \in Runtime
      BY DEF SchedulerSound, WaitersHaveWork
    <3>3. Waiting(call[f][d]) => work'[since[f].runtime][d] = work[since[f].runtime][d]
      BY <1>1, <2>2, <3>2
    <3> QED
      BY <3>1, <3>3 DEF Rest, CallersAreServed, Waiting
  <2> QED
    BY <2>1, <2>2
<1> QED
  BY <1>7, <1>8, <1>9, <1>10, <1>11, <1>12, <1>13 DEF SchedulerSound, Rest

LEMMA SnapshotsKeep ==
  ASSUME TypeOK, SchedulerSound, Rest, NEW r \in Runtime, NEW c \in Container,
         \/ Export(r, c) \/ SaveSnapshot(r, c) \/ ExportFails(r, c)
         \/ SnapshotLands(r, c) \/ SnapshotFails(r, c)
  PROVE  SchedulerSound' /\ Rest'
<1>0. TRUE \in BOOLEAN /\ FALSE \in BOOLEAN
  OBVIOUS
<1>1. CASE Export(r, c)
  BY <1>1, ExportKeeps
<1>2. CASE SaveSnapshot(r, c)
  BY <1>2, SaveKeeps
<1>3. CASE ExportFails(r, c)
  <2>1. /\ work[r][c].phase \in {"exporting", "exported"} /\ Settle(r, c, FALSE)
        /\ UNCHANGED <<booted, live, files, unreported, restored, since, writes, landed>>
    BY <1>3 DEF ExportFails, container, storage
  <2>2. work[r][c] # NoWork /\ work[r][c].phase # "saving"
    BY <2>1 DEF NoWork
  <2>3. Settled(r, c, FALSE)
    BY <1>0, <2>1, <2>2, SettleEffect
  <2>4. \A q \in Runtime, d \in Container :
          landed'[q][d] = IF FALSE /\ q = r /\ d = c THEN work[r][c].tree ELSE landed[q][d]
    BY <2>1
  <2> QED
    BY <1>0, <2>1, <2>2, <2>3, <2>4, SettleKeeps
<1>4. CASE SnapshotLands(r, c)
  <2>1. /\ Writing(r, c) /\ writes' = Tail(writes) /\ Settle(r, c, TRUE)
        /\ UNCHANGED <<booted, live, files, unreported, restored, since>>
        /\ landed' = [landed EXCEPT ![r][c] = work[r][c].tree]
    BY <1>4 DEF SnapshotLands, container
  <2>2. work[r][c].phase = "saving"
    BY <2>1, HeadIsSaved DEF SchedulerSound
  <2>3. work[r][c] # NoWork
    BY <2>2 DEF NoWork
  <2>4. Settled(r, c, TRUE)
    BY <1>0, <2>1, <2>3, SettleEffect
  <2>5. \A q \in Runtime, d \in Container :
          landed'[q][d] = IF TRUE /\ q = r /\ d = c THEN work[r][c].tree ELSE landed[q][d]
    BY <2>1 DEF TypeOK
  <2> QED
    BY <1>0, <2>1, <2>2, <2>3, <2>4, <2>5, SettleKeeps
<1>5. CASE SnapshotFails(r, c)
  <2>1. /\ Writing(r, c) /\ writes' = Tail(writes) /\ Settle(r, c, FALSE)
        /\ UNCHANGED <<booted, live, files, unreported, restored, since, landed>>
    BY <1>5 DEF SnapshotFails, container
  <2>2. work[r][c].phase = "saving"
    BY <2>1, HeadIsSaved DEF SchedulerSound
  <2>3. work[r][c] # NoWork
    BY <2>2 DEF NoWork
  <2>4. Settled(r, c, FALSE)
    BY <1>0, <2>1, <2>3, SettleEffect
  <2>5. \A q \in Runtime, d \in Container :
          landed'[q][d] = IF FALSE /\ q = r /\ d = c THEN work[r][c].tree ELSE landed[q][d]
    BY <2>1
  <2> QED
    BY <1>0, <2>1, <2>2, <2>3, <2>4, <2>5, SettleKeeps
<1> QED
  BY <1>1, <1>2, <1>3, <1>4, <1>5

LEMMA ContainerKeeps ==
  ASSUME TypeOK, SchedulerSound, Rest, NEW r \in Runtime, NEW c \in Container,
         \/ Boot(r) \/ Ensure(r, c) \/ Restore(r, c) \/ RestoreFails(r, c)
         \/ \E x \in Change : Write(r, c, x) \/ ApplyWorkspaceChanges(r, c, x)
         \/ WatchEvent(r, c) \/ Discard(r) \/ Reload
  PROVE  SchedulerSound' /\ Rest'
<1>1. CASE Reload
  BY <1>1, ReloadKeeps
<1>2. CASE ~Reload
  <2>1. Rest'
    BY <1>2, BootKeeps, EnsureKeeps, RestoreKeeps, RestoreFailsKeeps, ChangeKeeps, WatchKeeps,
       DiscardKeeps
  <2>2. UNCHANGED <<queued, work, call, writes, since>>
    <3>1. ASSUME NEW x \in Change, Write(r, c, x) \/ ApplyWorkspaceChanges(r, c, x)
          PROVE  UNCHANGED <<queued, work, call, writes, since>>
      BY <3>1, ChangeEffect
    <3> QED
      BY <1>2, <3>1 DEF Boot, Ensure, Restore, RestoreFails, WatchEvent, Discard, scheduler, storage
  <2> QED
    BY <2>1, <2>2, QuietStep
<1> QED
  BY <1>1, <1>2

-----------------------------------------------------------------------------
(* The theorems.                                                           *)

LEMMA InitInvariant == Init => IInv
<1> SUFFICES ASSUME Init PROVE IInv
  OBVIOUS
<1> USE DEF Init, ForAll, Each
<1>1. TypeOK
  BY DEF TypeOK, Standing, NotCalled, Kind, Snapshot, NoSnapshot, Runtime
<1>2. /\ \A r \in Runtime, c \in Container : ~queued[r][c] /\ work[r][c] = NoWork
      /\ \A f \in Call, c \in Container : call[f][c] = "none" /\ since[f] = NotCalled
      /\ writes = <<>>
  OBVIOUS
<1>3. SchedulerSound
  BY <1>2 DEF SchedulerSound, WaitersHaveWork, QueuedHasWork, WritesAreSaves, Waiting, NoWork,
     IsInjective, Contains
<1>4. BootedBefore /\ IdleUntilRestored /\ BehindIsPending
  BY DEF BootedBefore, IdleUntilRestored, BehindIsPending, Ready, NotCalled
<1>5. CallersAreServed
  BY <1>2 DEF CallersAreServed, Waiting
<1> QED
  BY <1>1, <1>3, <1>4, <1>5 DEF IInv

LEMMA NextInvariant == IInv /\ [Next]_vars => IInv'
<1> SUFFICES ASSUME IInv, [Next]_vars PROVE IInv'
  OBVIOUS
<1>0. TypeOK /\ SchedulerSound /\ Rest /\ WritesAreSaves
  BY DEF IInv, Rest, SchedulerSound
<1>1. CASE UNCHANGED vars
  <2>1. TypeOK'
    BY <1>0, <1>1 DEF TypeOK, vars, container, scheduler, storage
  <2>2. SchedulerSound'
    BY <1>0, <1>1, QuietStep DEF vars, scheduler, storage
  <2>3. BootedBefore' /\ IdleUntilRestored' /\ BehindIsPending' /\ CallersAreServed'
    BY <1>0, <1>1 DEF Rest, BootedBefore, IdleUntilRestored, BehindIsPending, CallersAreServed,
       Ready, vars, container, scheduler, storage
  <2> QED
    BY <2>1, <2>2, <2>3 DEF IInv
<1>2. ASSUME NEW r \in Runtime, NEW c \in Container,
             \/ Boot(r) \/ Ensure(r, c) \/ Restore(r, c) \/ RestoreFails(r, c)
             \/ \E x \in Change : Write(r, c, x) \/ ApplyWorkspaceChanges(r, c, x)
             \/ WatchEvent(r, c) \/ Discard(r) \/ Reload
      PROVE  IInv'
  BY <1>0, <1>2, ContainerSteps, ContainerKeeps DEF IInv, Rest
<1>3. ASSUME NEW r \in Runtime, NEW c \in Container,
             \/ TimerFires(r, c)
             \/ \E f \in Call : \/ FlushWorkspace(f, r, c) \/ StopProcess(f, r, c)
                               \/ ProcessExits(f, r, c) \/ FlushAll(f, r)
      PROVE  IInv'
  BY <1>0, <1>3, CallSteps, CallsKeep DEF IInv, Rest
<1>4. ASSUME NEW r \in Runtime, NEW c \in Container,
             \/ Export(r, c) \/ SaveSnapshot(r, c) \/ ExportFails(r, c)
             \/ SnapshotLands(r, c) \/ SnapshotFails(r, c)
      PROVE  IInv'
  BY <1>0, <1>4, SnapshotSteps, SnapshotsKeep DEF IInv, Rest
<1> PICK c0 \in Container : TRUE
  OBVIOUS
<1>5. 1 \in Runtime
  BY DEF Runtime
<1> QED
  BY <1>1, <1>2, <1>3, <1>4, <1>5 DEF Next

(* The inductive invariant holds in every behaviour of the snapshots.      *)
THEOREM SnapshotInvariant == Spec => []IInv
  BY InitInvariant, NextInvariant, PTL DEF Spec

(* Nobody waits for nothing, nothing is queued where no work will find it, *)
(* and the write queue holds the snapshots being saved, each once: with    *)
(* any number of calls, containers and runtimes.                           *)
THEOREM WaitersAreSound == Spec => []SchedulerSound
<1>1. IInv => SchedulerSound
  BY DEF IInv
<1> QED
  BY <1>1, SnapshotInvariant, PTL

(* The scheduler forgets no change of a living runtime.                    *)
THEOREM NoChangeForgotten == Spec => []UnsavedIsPending
<1>1. IInv => UnsavedIsPending
  <2> SUFFICES ASSUME IInv, NEW r \in Runtime, NEW c \in Container,
                      Ready(r, c), files[r][c] # landed[r][c]
               PROVE  \/ unreported[r][c] \/ timer[r][c] \/ queued[r][c] \/ spoilt[r][c]
                      \/ work[r][c].phase = "exporting"
                      \/ work[r][c].phase \in {"exported", "saving"} /\ work[r][c].tree = files[r][c]
    BY DEF UnsavedIsPending, IInv, TypeOK
  <2>1. work[r][c] = NoWork \/ work[r][c].phase \in Phase
    BY DEF IInv, TypeOK, Work
  <2> QED
    BY <2>1 DEF IInv, BehindIsPending, Phase
<1> QED
  BY <1>1, SnapshotInvariant, PTL

(* A flush that answers has saved what was counted when it was called,     *)
(* also when it waited for the snapshot of another.                        *)
THEOREM FlushIsDurable == Spec => FlushSaves
<1>1. ASSUME IInv, [Next]_vars, NEW f \in Call, NEW c \in Container,
             Waiting(call[f][c]), call'[f][c] = "ok"
      PROVE  since[f].seen[c] \subseteq landed'[since[f].runtime][c]
  <2> DEFINE q == since[f].runtime
  <2>0. /\ TypeOK /\ WritesAreSaves /\ q \in Runtime /\ work[q][c] # NoWork
        /\ TRUE \in BOOLEAN /\ FALSE \in BOOLEAN
    BY <1>1 DEF IInv, SchedulerSound, WaitersHaveWork
  <2>1. call[f][c] # "ok" /\ call'[f][c] # call[f][c]
    BY <1>1 DEF Waiting
  <2>2. ASSUME NEW g \in Call \cup {Nobody}, NEW r \in Runtime, NEW cs \in SUBSET Container,
               NEW cancelled \in SUBSET Container, Flush(r, cs, cancelled, g)
        PROVE  FALSE
    <3>1. Flushed(r, cs, cancelled, g)
      BY <2>0, <2>2, FlushEffect
    <3>2. call'[f][c] \in {call[f][c], "owner", "active"}
      BY <3>1 DEF Flushed
    <3> QED
      BY <1>1, <2>1, <3>2
  <2>3. ASSUME NEW r \in Runtime, NEW d \in Container, work[r][d] # NoWork, Settle(r, d, FALSE)
        PROVE  FALSE
    <3>0. Settled(r, d, FALSE)
      BY <2>0, <2>3, SettleEffect
    <3>1. call'[f][c] = IF q = r /\ c = d
                        THEN continuation(call[f][d], queued[r][d], FALSE, work[r][d].failed \/ ~FALSE)
                        ELSE call[f][c]
      BY <3>0 DEF Settled
    <3> QED
      BY <1>1, <2>1, <3>1 DEF continuation, Outcome
  <2>4. ASSUME NEW r \in Runtime, NEW d \in Container, ExportFails(r, d) PROVE FALSE
    <3>1. work[r][d].phase \in {"exporting", "exported"} /\ Settle(r, d, FALSE)
      BY <2>4 DEF ExportFails
    <3>2. work[r][d] # NoWork
      BY <3>1 DEF NoWork
    <3> QED
      BY <2>3, <3>1, <3>2
  <2>5. ASSUME NEW r \in Runtime, NEW d \in Container, SnapshotFails(r, d) PROVE FALSE
    <3>1. Writing(r, d) /\ Settle(r, d, FALSE)
      BY <2>5 DEF SnapshotFails
    <3>2. work[r][d] # NoWork
      BY <2>0, <3>1, HeadIsSaved DEF NoWork
    <3> QED
      BY <2>3, <3>1, <3>2
  <2>6. ASSUME NEW r \in Runtime, NEW d \in Container, SnapshotLands(r, d)
        PROVE  since[f].seen[c] \subseteq landed'[q][c]
    <3>1. /\ Writing(r, d) /\ Settle(r, d, TRUE)
          /\ landed' = [landed EXCEPT ![r][d] = work[r][d].tree]
      BY <2>6 DEF SnapshotLands
    <3>2. work[r][d].phase = "saving"
      BY <2>0, <3>1, HeadIsSaved
    <3>3. work[r][d] # NoWork
      BY <3>2 DEF NoWork
    <3>0. Settled(r, d, TRUE)
      BY <2>0, <3>1, <3>3, SettleEffect
    <3>4. call'[f][c] = IF q = r /\ c = d
                        THEN continuation(call[f][d], queued[r][d], TRUE, work[r][d].failed \/ ~TRUE)
                        ELSE call[f][c]
      BY <3>0 DEF Settled
    <3>5. q = r /\ c = d
      BY <2>1, <3>4
    <3>6. call[f][c] \in {"owner", "followUp"}
      BY <1>1, <3>4, <3>5 DEF continuation, Waiting
    <3>7. since[f].seen[c] \subseteq work[r][d].tree
      BY <1>1, <3>2, <3>5, <3>6 DEF IInv, CallersAreServed
    <3>8. landed'[r][d] = work[r][d].tree
      BY <2>0, <3>1 DEF TypeOK
    <3> QED
      BY <3>5, <3>7, <3>8
  <2>7. CASE UNCHANGED call
    BY <2>1, <2>7
  <2>8. CASE Reload
    BY <1>1, <2>8 DEF Reload
  <2>9. ASSUME NEW r \in Runtime, NEW d \in Container,
               \/ Boot(r) \/ Ensure(r, d) \/ Restore(r, d) \/ RestoreFails(r, d)
               \/ WatchEvent(r, d) \/ Discard(r) \/ Export(r, d) \/ SaveSnapshot(r, d)
               \/ \E x \in Change : Write(r, d, x) \/ ApplyWorkspaceChanges(r, d, x)
        PROVE  UNCHANGED call
    <3>1. ASSUME NEW x \in Change, Write(r, d, x) \/ ApplyWorkspaceChanges(r, d, x)
          PROVE  UNCHANGED call
      BY <2>0, <3>1, ChangeEffect
    <3> QED
      BY <2>9, <3>1 DEF Boot, Ensure, Restore, RestoreFails, WatchEvent, Discard, Export,
         SaveSnapshot, scheduler
  <2>10. ASSUME NEW r \in Runtime, NEW d \in Container,
                \/ TimerFires(r, d)
                \/ \E g \in Call : \/ FlushWorkspace(g, r, d) \/ StopProcess(g, r, d)
                                  \/ ProcessExits(g, r, d) \/ FlushAll(g, r)
         PROVE  FALSE
    <3>1. {d} \in SUBSET Container /\ Container \in SUBSET Container
          /\ {e \in Container : Pending(r, e)} \in SUBSET Container
          /\ Nobody \in Call \cup {Nobody} /\ \A g \in Call : g \in Call \cup {Nobody}
      OBVIOUS
    <3>2. TimerFires(r, d) => Flush(r, {d}, {d}, Nobody)
      BY DEF TimerFires
    <3>3. \A g \in Call : FlushWorkspace(g, r, d) \/ StopProcess(g, r, d) => Flush(r, {d}, {d}, g)
      BY DEF FlushWorkspace, StopProcess
    <3>4. \A g \in Call : ProcessExits(g, r, d) => Flush(r, {d}, {d}, Nobody)
      BY DEF ProcessExits
    <3>5. \A g \in Call : FlushAll(g, r) =>
             Flush(r, {e \in Container : Pending(r, e)}, Container, g)
      BY DEF FlushAll
    <3> QED
      BY <2>2, <2>10, <3>1, <3>2, <3>3, <3>4, <3>5
  <2>11. UNCHANGED vars => UNCHANGED call
    BY DEF vars, scheduler
  <2> HIDE DEF q
  <2> QED
    BY <1>1, <2>4, <2>5, <2>6, <2>7, <2>8, <2>9, <2>10, <2>11 DEF Next, q
<1>2. IInv /\ [Next]_vars =>
        [\A f \in Call, c \in Container :
           Waiting(call[f][c]) /\ call'[f][c] = "ok" =>
              since[f].seen[c] \subseteq landed'[since[f].runtime][c]]_vars
  BY <1>1
<1> QED
  BY <1>2, SnapshotInvariant, PTL DEF Spec, FlushSaves

\* No call of flush waits for a work that is gone, and no change that a
\* living runtime has not saved is forgotten by the scheduler.
THEOREM SchedulerIsSound == Spec => []SnapshotsSound
<1>1. SchedulerSound /\ UnsavedIsPending => SnapshotsSound
  BY DEF SnapshotsSound
<1> QED BY WaitersAreSound, NoChangeForgotten, <1>1, PTL

-----------------------------------------------------------------------------
(***************************************************************************)
(* FlushAllSaves.  flushAll asks no container without a timer, a snapshot  *)
(* or a queue entry, so what the revision counts of such a container must  *)
(* be saved (CountedIsPending): a revision advances only in a step that    *)
(* starts the timer or flushes, and counts no change before it is made.    *)
(* What was counted when the call was made stays saved, as every later     *)
(* tree contains it (SeenStays, AllKept).                                  *)
(***************************************************************************)

\* Nothing is counted, saved or being saved that was not made.
RevisionsMade ==
    /\ \A r \in Runtime, c \in Container :
          /\ files[r][c] \subseteq made /\ revisions[r][c] \subseteq made
          /\ work[r][c] # NoWork => work[r][c].revision \subseteq made /\ work[r][c].tree \subseteq made
    /\ \A c \in Container : disk[c].revision \subseteq made /\ disk[c].tree \subseteq made

\* What the revision counts of the tree is saved, or will be.
counted(r, c) == revisions[r][c] \cap files[r][c]
CountedIsPending ==
    \A r \in Runtime, c \in Container :
        Ready(r, c) =>
            /\ work[r][c] = NoWork =>
                  counted(r, c) \subseteq landed[r][c] \/ timer[r][c] \/ spoilt[r][c]
            /\ work[r][c].phase \in {"exported", "saving"} =>
                  counted(r, c) \subseteq work[r][c].tree \/ timer[r][c] \/ queued[r][c]

\* What a call counts on stays in the files, as long as its runtime lives.
SeenStays ==
    \A f \in Call, c \in Container :
        since[f].runtime \in live => since[f].seen[c] \subseteq files[since[f].runtime][c]

\* What a call of flushAll passed over or was answered for is saved, unless
\* the last snapshot failed, and the tree of a later work has it.
AllKept ==
    \A f \in Call : since[f].kind = "flushAll" =>
        /\ since[f].runtime \in Runtime
        /\ \A c \in Container :
              LET r == since[f].runtime IN
              call[f][c] \in {"none", "ok"} =>
                  /\ since[f].seen[c] \subseteq landed[r][c] \/ spoilt[r][c]
                  /\ work[r][c].phase \in {"exported", "saving"} =>
                        since[f].seen[c] \subseteq work[r][c].tree

KeptInv == RevisionsMade /\ CountedIsPending /\ SeenStays /\ AllKept

\* The steps of a container, of which the calls know nothing.
LEMMA QuietKept ==
    ASSUME IInv, KeptInv, RevisionsMade', CountedIsPending',
           UNCHANGED <<work, call, spoilt, since>>,
           \A q \in Runtime, d \in Container :
              landed'[q][d] = landed[q][d] \/ (q \in live /\ files[q][d] = {}),
           \A f \in Call : since[f].runtime \in live' =>
              /\ since[f].runtime \in live
              /\ \A d \in Container :
                    files[since[f].runtime][d] \subseteq files'[since[f].runtime][d]
    PROVE  KeptInv'
<1>1. SeenStays'
  BY DEF KeptInv, SeenStays
<1>2. AllKept'
  <2> SUFFICES ASSUME NEW f \in Call, since[f].kind = "flushAll", NEW c \in Container,
                      call[f][c] \in {"none", "ok"}
               PROVE  /\ since[f].seen[c] \subseteq landed'[since[f].runtime][c]
                         \/ spoilt[since[f].runtime][c]
                      /\ work[since[f].runtime][c].phase \in {"exported", "saving"} =>
                            since[f].seen[c] \subseteq work[since[f].runtime][c].tree
    BY DEF KeptInv, AllKept
  <2>1. since[f].runtime \in Runtime
    BY DEF KeptInv, AllKept
  <2>2. CASE landed'[since[f].runtime][c] = landed[since[f].runtime][c]
    BY <2>2 DEF KeptInv, AllKept
  <2>3. CASE since[f].runtime \in live /\ files[since[f].runtime][c] = {}
    <3>1. since[f].seen[c] \subseteq {}
      BY <2>3 DEF KeptInv, SeenStays
    <3> QED BY <3>1
  <2> QED BY <2>1, <2>2, <2>3
<1> QED BY <1>1, <1>2 DEF KeptInv

LEMMA ContainerKeepsKept ==
    ASSUME IInv, KeptInv, NEW r \in Runtime, NEW c \in Container,
           \/ Boot(r) \/ Ensure(r, c) \/ Restore(r, c) \/ RestoreFails(r, c)
           \/ \E x \in Change : Write(r, c, x) \/ ApplyWorkspaceChanges(r, c, x)
           \/ WatchEvent(r, c) \/ Discard(r)
    PROVE  KeptInv'
<1>0. TypeOK /\ Rest /\ RevisionsMade /\ CountedIsPending /\ live \subseteq Runtime
  BY DEF IInv, Rest, KeptInv, TypeOK
<1>1. CASE Boot(r)
  <2>1. /\ r = booted + 1 /\ live' = live \cup {r} /\ booted \in Nat
        /\ UNCHANGED <<files, restored, revisions, made, timer, queued, work, call, spoilt, disk,
                       landed, since>>
    BY <1>0, <1>1 DEF Boot, scheduler, storage, TypeOK
  <2>2. r \notin live /\ \A f \in Call : since[f].runtime # r
    <3>1. \A f \in Call : since[f].runtime <= booted /\ since[f].runtime \in Nat
      BY <1>0 DEF Rest, BootedBefore, TypeOK
    <3> QED BY <1>0, <2>1, <3>1 DEF Rest, BootedBefore
  <2>3. \A d \in Container : restored[r][d] = "no"
    BY <1>0, <2>2 DEF Rest, IdleUntilRestored
  <2>4. RevisionsMade'
    BY <1>0, <2>1 DEF RevisionsMade
  <2>5. CountedIsPending'
    BY <1>0, <2>1, <2>3 DEF CountedIsPending, counted, Ready
  <2> QED BY <2>1, <2>2, <2>4, <2>5, QuietKept
<1>2. CASE Ensure(r, c)
  <2>1. /\ \A q \in Runtime, d \in Container :
             restored'[q][d] = IF q = r /\ d = c THEN "restoring" ELSE restored[q][d]
        /\ UNCHANGED <<live, files, revisions, made, timer, queued, work, call, spoilt, disk,
                       landed, since>>
    BY <1>0, <1>2 DEF Ensure, scheduler, storage, TypeOK
  <2>2. RevisionsMade'
    BY <1>0, <2>1 DEF RevisionsMade
  <2>3. CountedIsPending'
    <3>1. \A q \in Runtime, d \in Container : Ready(q, d)' => Ready(q, d)
      BY <2>1 DEF Ready
    <3> QED BY <1>0, <2>1, <3>1 DEF CountedIsPending, counted
  <2> QED BY <2>1, <2>2, <2>3, QuietKept
<1>3. CASE Restore(r, c)
  <2>1. /\ r \in live /\ restored[r][c] = "restoring"
        /\ \A q \in Runtime, d \in Container :
             /\ restored'[q][d] = IF q = r /\ d = c THEN "yes" ELSE restored[q][d]
             /\ files'[q][d] = IF q = r /\ d = c THEN files[r][c] \cup disk[c].tree ELSE files[q][d]
             /\ revisions'[q][d] = IF q = r /\ d = c THEN disk[c].revision ELSE revisions[q][d]
             /\ landed'[q][d] = IF q = r /\ d = c THEN disk[c].tree ELSE landed[q][d]
        /\ UNCHANGED <<live, made, timer, queued, work, call, spoilt, disk, since>>
    BY <1>0, <1>3 DEF Restore, scheduler, TypeOK
  <2>2. files[r][c] = {} /\ work[r][c] = NoWork
    BY <1>0, <2>1 DEF Rest, IdleUntilRestored
  <2>3. RevisionsMade'
    BY <1>0, <2>1, <2>2 DEF RevisionsMade
  <2>4. CountedIsPending'
    <3> SUFFICES ASSUME NEW q \in Runtime, NEW d \in Container, Ready(q, d)'
                 PROVE  /\ work[q][d] = NoWork => (counted(q, d))' \subseteq landed'[q][d] \/ timer[q][d] \/ spoilt[q][d]
                        /\ work[q][d].phase \in {"exported", "saving"} =>
                             (counted(q, d))' \subseteq work[q][d].tree \/ timer[q][d] \/ queued[q][d]
      BY <2>1 DEF CountedIsPending
    <3>1. CASE q = r /\ d = c
      <4>1. (counted(q, d))' \subseteq landed'[q][d]
        BY <2>1, <2>2, <3>1 DEF counted
      <4>2. work[q][d].phase = "none"
        BY <2>2, <3>1 DEF NoWork
      <4> QED BY <4>1, <4>2
    <3>2. CASE ~(q = r /\ d = c)
      <4>1. Ready(q, d) /\ (counted(q, d))' = counted(q, d) /\ landed'[q][d] = landed[q][d]
        BY <2>1, <3>2 DEF Ready, counted
      <4> QED BY <1>0, <4>1 DEF CountedIsPending
    <3> QED BY <3>1, <3>2
  <2>5. \A q \in Runtime, d \in Container : files[q][d] \subseteq files'[q][d]
    BY <2>1
  <2> QED BY <1>0, <2>1, <2>2, <2>3, <2>4, <2>5, QuietKept
<1>4. CASE RestoreFails(r, c)
  <2>1. /\ r \in live
        /\ \A q \in Runtime, d \in Container :
             /\ restored'[q][d] = IF q = r /\ d = c THEN "no" ELSE restored[q][d]
             /\ revisions'[q][d] = revisions[q][d] \/ (q = r /\ d = c /\ revisions'[q][d] = disk[c].revision)
        /\ UNCHANGED <<live, files, made, timer, queued, work, call, spoilt, disk, landed, since>>
    BY <1>0, <1>4 DEF RestoreFails, scheduler, storage, TypeOK
  <2>2. RevisionsMade'
    BY <1>0, <2>1 DEF RevisionsMade
  <2>3. CountedIsPending'
    <3>1. \A q \in Runtime, d \in Container : Ready(q, d)' =>
             Ready(q, d) /\ revisions'[q][d] = revisions[q][d]
      BY <2>1 DEF Ready
    <3> QED BY <1>0, <2>1, <3>1 DEF CountedIsPending, counted
  <2> QED BY <2>1, <2>2, <2>3, QuietKept
<1>5. ASSUME NEW x \in Change, Write(r, c, x) \/ ApplyWorkspaceChanges(r, c, x)
      PROVE  KeptInv'
  <2>1. /\ r \in live /\ restored[r][c] = "yes"
        /\ \A q \in Runtime, d \in Container :
             /\ files'[q][d] = IF q = r /\ d = c THEN files[r][c] \cup {x} ELSE files[q][d]
             /\ timer[q][d] => timer'[q][d]
        /\ UNCHANGED <<live, restored, queued, work, call, spoilt, landed, since>>
    <3>1. /\ r \in live /\ restored[r][c] = "yes"
          /\ \A q \in Runtime, d \in Container :
               /\ files'[q][d] = IF q = r /\ d = c THEN files[r][c] \cup {x} ELSE files[q][d]
               /\ unreported'[q][d] <=> unreported[q][d] \/ (q = r /\ d = c)
               /\ timer[q][d] => timer'[q][d]
               /\ timer'[q][d] => timer[q][d] \/ (q = r /\ d = c)
          /\ UNCHANGED <<booted, live, restored, queued, work, call, spoilt, writes, landed, since>>
      BY <1>0, <1>5, ChangeEffect
    <3> QED BY <3>1
  <2>2. x \notin made /\ made' = made \cup {x} /\ disk' = disk
    BY <1>5 DEF Write, ApplyWorkspaceChanges, Changes, storage
  <2>3. \A q \in Runtime, d \in Container :
          \/ revisions'[q][d] = revisions[q][d]
          \/ q = r /\ d = c /\ timer'[r][c] = TRUE /\ revisions'[q][d] = revisions[q][d] \cup files'[r][c]
    <3>1. CASE Write(r, c, x)
      BY <3>1 DEF Write
    <3>2. CASE ApplyWorkspaceChanges(r, c, x)
      <4>1. timer'[r][c] = TRUE
        BY <1>0, <3>2 DEF ApplyWorkspaceChanges, TypeOK
      <4> QED BY <1>0, <3>2, <4>1 DEF ApplyWorkspaceChanges, Bump, TypeOK
    <3> QED BY <1>5, <3>1, <3>2
  <2>4. RevisionsMade'
    <3>1. \A q \in Runtime, d \in Container : files'[q][d] \subseteq made'
      BY <1>0, <2>1, <2>2 DEF RevisionsMade
    <3>2. \A q \in Runtime, d \in Container : revisions'[q][d] \subseteq made'
      BY <1>0, <2>2, <2>3, <3>1 DEF RevisionsMade
    <3> QED BY <1>0, <2>1, <2>2, <3>1, <3>2 DEF RevisionsMade
  <2>5. CountedIsPending'
    <3> SUFFICES ASSUME NEW q \in Runtime, NEW d \in Container, Ready(q, d)', ~timer'[q][d]
                 PROVE  /\ work[q][d] = NoWork => (counted(q, d))' \subseteq landed[q][d] \/ spoilt[q][d]
                        /\ work[q][d].phase \in {"exported", "saving"} =>
                             (counted(q, d))' \subseteq work[q][d].tree \/ queued[q][d]
      BY <2>1 DEF CountedIsPending
    <3>1. revisions'[q][d] = revisions[q][d] /\ revisions[q][d] \subseteq made
      BY <1>0, <2>3 DEF RevisionsMade
    <3>2. (counted(q, d))' \subseteq counted(q, d)
      BY <2>1, <2>2, <3>1 DEF counted
    <3>3. Ready(q, d) /\ ~timer[q][d]
      BY <2>1 DEF Ready
    <3> QED BY <1>0, <3>2, <3>3 DEF CountedIsPending
  <2>6. \A q \in Runtime, d \in Container : files[q][d] \subseteq files'[q][d]
    BY <2>1
  <2> QED BY <1>0, <2>1, <2>4, <2>5, <2>6, QuietKept
<1>6. CASE WatchEvent(r, c)
  <2>1. /\ r \in live /\ restored[r][c] = "yes"
        /\ \A q \in Runtime, d \in Container :
             /\ timer'[q][d] = IF q = r /\ d = c THEN TRUE ELSE timer[q][d]
             /\ revisions'[q][d] = IF q = r /\ d = c THEN revisions[r][c] \cup files[r][c] ELSE revisions[q][d]
        /\ UNCHANGED <<live, files, restored, made, queued, work, call, spoilt, disk, landed, since>>
    BY <1>0, <1>6 DEF WatchEvent, Bump, Ready, storage, TypeOK
  <2>2. RevisionsMade'
    <3>1. \A q \in Runtime, d \in Container :
             revisions[q][d] \subseteq made /\ files[q][d] \subseteq made
      BY <1>0 DEF RevisionsMade
    <3>2. revisions[r][c] \subseteq made /\ files[r][c] \subseteq made
      BY <3>1
    <3>3. revisions[r][c] \cup files[r][c] \subseteq made
      BY <3>2
    <3>4. \A q \in Runtime, d \in Container :
             revisions'[q][d] = revisions[q][d] \/ revisions'[q][d] = revisions[r][c] \cup files[r][c]
      BY <2>1
    <3>5. \A q \in Runtime, d \in Container : revisions'[q][d] \subseteq made
      BY <3>1, <3>3, <3>4
    <3> QED BY <1>0, <2>1, <3>5 DEF RevisionsMade
  <2>3. CountedIsPending'
    <3>1. \A q \in Runtime, d \in Container : Ready(q, d)' /\ ~timer'[q][d] =>
             Ready(q, d) /\ ~timer[q][d] /\ revisions'[q][d] = revisions[q][d]
      BY <2>1 DEF Ready
    <3> QED BY <1>0, <2>1, <3>1 DEF CountedIsPending, counted
  <2> QED BY <2>1, <2>2, <2>3, QuietKept
<1>7. CASE Discard(r)
  <2>1. /\ live' = live \ {r}
        /\ \A q \in Runtime, d \in Container :
             /\ q = r => files'[q][d] = {} /\ revisions'[q][d] = {}
             /\ q # r => /\ files'[q][d] = files[q][d] /\ timer'[q][d] = timer[q][d]
                         /\ revisions'[q][d] = revisions[q][d] /\ restored'[q][d] = restored[q][d]
        /\ UNCHANGED <<made, queued, work, call, spoilt, disk, landed, since>>
    BY <1>0, <1>7 DEF Discard, ForAll, storage, TypeOK
  <2>2. RevisionsMade'
    BY <1>0, <2>1 DEF RevisionsMade
  <2>3. CountedIsPending'
    <3>1. \A q \in Runtime, d \in Container : Ready(q, d)' => q # r /\ Ready(q, d)
      BY <2>1 DEF Ready
    <3> QED BY <1>0, <2>1, <3>1 DEF CountedIsPending, counted
  <2> QED BY <1>0, <2>1, <2>2, <2>3, QuietKept
<1> QED BY <1>1, <1>2, <1>3, <1>4, <1>5, <1>6, <1>7

LEMMA ReloadKeepsKept ==
    ASSUME IInv, KeptInv, Reload
    PROVE  KeptInv'
<1>1. /\ live' = {}
      /\ \A q \in Runtime, d \in Container :
            files'[q][d] = {} /\ revisions'[q][d] = {} /\ work'[q][d] = NoWork
      /\ \A f \in Call, d \in Container :
            call'[f][d] = IF Waiting(call[f][d]) THEN "lost" ELSE call[f][d]
      /\ UNCHANGED <<made, disk, landed, spoilt, since>>
  BY DEF Reload, Each, ForAll
<1>2. RevisionsMade'
  BY <1>1 DEF KeptInv, RevisionsMade
<1>3. CountedIsPending' /\ SeenStays'
  BY <1>1 DEF CountedIsPending, SeenStays, Ready
<1>4. AllKept'
  <2> SUFFICES ASSUME NEW f \in Call, since[f].kind = "flushAll"
               PROVE  /\ since[f].runtime \in Runtime
                      /\ \A d \in Container :
                            call'[f][d] \in {"none", "ok"} =>
                               /\ \/ since[f].seen[d] \subseteq landed[since[f].runtime][d]
                                  \/ spoilt[since[f].runtime][d]
                               /\ work'[since[f].runtime][d].phase \in {"exported", "saving"} =>
                                     since[f].seen[d] \subseteq work'[since[f].runtime][d].tree
    BY <1>1 DEF AllKept
  <2>1. since[f].runtime \in Runtime
    BY DEF KeptInv, AllKept
  <2>2. \A d \in Container : call'[f][d] \in {"none", "ok"} => call'[f][d] = call[f][d]
    BY <1>1
  <2>3. \A d \in Container : work'[since[f].runtime][d].phase = "none"
    BY <1>1, <2>1 DEF NoWork
  <2> QED BY <2>1, <2>2, <2>3 DEF KeptInv, AllKept
<1> QED BY <1>2, <1>3, <1>4 DEF KeptInv

(* A flush, by a new call or by nobody's.  What the revision newly counts  *)
(* is counted of containers that are flushed; and what a call of flushAll  *)
(* passes over is saved, unless the last snapshot failed.                  *)
LEMMA FlushKeepsKept ==
    ASSUME IInv, KeptInv, NEW r \in Runtime, NEW cs \in SUBSET Container,
           NEW cancelled \in SUBSET Container, NEW g \in Call \cup {Nobody},
           Flushed(r, cs, cancelled, g), Begins(r, g),
           UNCHANGED <<live, files, restored, made, disk, landed>>,
           \A q \in Runtime, d \in Container :
              \/ revisions'[q][d] = revisions[q][d]
              \/ q = r /\ d \in cs /\ revisions'[q][d] = revisions[q][d] \cup files[q][d],
           \A d \in cancelled : timer[r][d] => d \in cs,
           \A f \in Call : since'[f] # since[f] /\ since'[f].kind = "flushAll" =>
              /\ f = g
              /\ \A d \in Container \ cs :
                    /\ work[r][d] = NoWork /\ ~timer[r][d]
                    /\ since'[f].seen[d] \subseteq counted(r, d)
    PROVE  KeptInv'
<1>0. TypeOK /\ Rest /\ RevisionsMade /\ CountedIsPending /\ live \subseteq Runtime
  BY DEF IInv, Rest, KeptInv, TypeOK
<1>1. /\ spoilt' = spoilt
      /\ \A q \in Runtime, d \in Container :
           /\ timer'[q][d] <=> timer[q][d] /\ ~(q = r /\ d \in cancelled)
           /\ queued'[q][d] <=> queued[q][d] \/ (q = r /\ d \in cs /\ work[q][d] # NoWork)
  BY DEF Flushed
<1>2. \A q \in Runtime, d \in Container :
         \/ work'[q][d] = work[q][d] /\ ~(q = r /\ d \in cs /\ work[q][d] = NoWork)
         \/ /\ q = r /\ d \in cs /\ work'[q][d] # NoWork
            /\ work'[q][d].phase = "exporting"
            /\ work'[q][d].tree = {} /\ work'[q][d].revision = {}
  BY DEF Flushed, Start, NoWork
<1>3. \A f \in Call, d \in Container :
         call'[f][d] = IF f # g \/ d \notin cs THEN call[f][d]
                       ELSE IF work[r][d] = NoWork THEN "owner" ELSE "active"
  BY DEF Flushed
<1>4. RevisionsMade'
  <2>1. \A q \in Runtime, d \in Container : revisions'[q][d] \subseteq made
    BY <1>0 DEF RevisionsMade
  <2>2. \A q \in Runtime, d \in Container : work'[q][d] # NoWork =>
           work'[q][d].revision \subseteq made /\ work'[q][d].tree \subseteq made
    BY <1>0, <1>2 DEF RevisionsMade
  <2> QED BY <1>0, <2>1, <2>2 DEF RevisionsMade
<1>5. CountedIsPending'
  <2> SUFFICES ASSUME NEW q \in Runtime, NEW d \in Container, Ready(q, d)
               PROVE  /\ work'[q][d] = NoWork =>
                            (counted(q, d))' \subseteq landed[q][d] \/ timer'[q][d] \/ spoilt[q][d]
                      /\ work'[q][d].phase \in {"exported", "saving"} =>
                            (counted(q, d))' \subseteq work'[q][d].tree \/ timer'[q][d] \/ queued'[q][d]
    BY <1>1 DEF CountedIsPending, Ready
  <2>1. CASE q = r /\ d \in cs
    <3>1. work'[q][d] # NoWork
      BY <1>2, <2>1
    <3>2. work'[q][d].phase \in {"exported", "saving"} => queued'[q][d]
      BY <1>1, <1>2, <2>1
    <3> QED BY <3>1, <3>2
  <2>2. CASE ~(q = r /\ d \in cs)
    <3>1. work'[q][d] = work[q][d]
      BY <1>2, <2>2
    <3>2. (timer[q][d] => timer'[q][d]) /\ (queued[q][d] => queued'[q][d])
      BY <1>1, <2>2
    <3>3. (counted(q, d))' = counted(q, d)
      BY <2>2 DEF counted
    <3> QED BY <1>0, <3>1, <3>2, <3>3 DEF CountedIsPending
  <2> QED BY <2>1, <2>2
<1>6. \A f \in Call : since'[f] # since[f] =>
         /\ since'[f].runtime = r /\ since[f].kind = "none"
         /\ \A d \in Container : call[f][d] = "none"
         /\ \A d \in Container : since'[f].seen[d] \subseteq files[r][d]
  BY <1>0 DEF Begins, Rest, CallersAreServed
<1>7. SeenStays'
  <2> SUFFICES ASSUME NEW f \in Call, NEW d \in Container, since'[f].runtime \in live
               PROVE  since'[f].seen[d] \subseteq files[since'[f].runtime][d]
    BY DEF SeenStays
  <2>1. CASE since'[f] = since[f]
    BY <2>1 DEF KeptInv, SeenStays
  <2>2. CASE since'[f] # since[f]
    BY <1>6, <2>2
  <2> QED BY <2>1, <2>2
<1>8. AllKept'
  <2> SUFFICES ASSUME NEW f \in Call, since'[f].kind = "flushAll"
               PROVE  /\ since'[f].runtime \in Runtime
                      /\ \A d \in Container :
                            call'[f][d] \in {"none", "ok"} =>
                               /\ \/ since'[f].seen[d] \subseteq landed[since'[f].runtime][d]
                                  \/ spoilt[since'[f].runtime][d]
                               /\ work'[since'[f].runtime][d].phase \in {"exported", "saving"} =>
                                     since'[f].seen[d] \subseteq work'[since'[f].runtime][d].tree
    BY <1>1 DEF AllKept
  <2>1. CASE since'[f] = since[f]
    <3>1. f # g
      BY <2>1 DEF Begins
    <3>2. since[f].runtime \in Runtime
      BY <2>1 DEF KeptInv, AllKept
    <3> SUFFICES ASSUME NEW d \in Container, call'[f][d] \in {"none", "ok"}
                 PROVE  /\ \/ since[f].seen[d] \subseteq landed[since[f].runtime][d]
                           \/ spoilt[since[f].runtime][d]
                        /\ work'[since[f].runtime][d].phase \in {"exported", "saving"} =>
                              since[f].seen[d] \subseteq work'[since[f].runtime][d].tree
      BY <2>1, <3>2
    <3>3. call'[f][d] = call[f][d]
      BY <1>3, <3>1
    <3>4. /\ \/ since[f].seen[d] \subseteq landed[since[f].runtime][d]
             \/ spoilt[since[f].runtime][d]
          /\ work[since[f].runtime][d].phase \in {"exported", "saving"} =>
                since[f].seen[d] \subseteq work[since[f].runtime][d].tree
      BY <2>1, <3>3 DEF KeptInv, AllKept
    <3>5. \/ work'[since[f].runtime][d] = work[since[f].runtime][d]
          \/ work'[since[f].runtime][d].phase = "exporting"
      BY <1>2, <3>2
    <3> QED BY <3>4, <3>5
  <2>2. CASE since'[f] # since[f]
    <3>1. since'[f].runtime = r /\ r \in live /\ f = g
      BY <2>2 DEF Begins
    <3> SUFFICES ASSUME NEW d \in Container, call'[f][d] \in {"none", "ok"}
                 PROVE  /\ since'[f].seen[d] \subseteq landed[r][d] \/ spoilt[r][d]
                        /\ work'[r][d].phase \in {"exported", "saving"} =>
                              since'[f].seen[d] \subseteq work'[r][d].tree
      BY <3>1
    <3>2. d \notin cs
      BY <1>3, <3>1
    <3>3. work[r][d] = NoWork /\ ~timer[r][d] /\ since'[f].seen[d] \subseteq counted(r, d)
      BY <2>2, <3>2
    <3>4. work'[r][d] = NoWork
      BY <1>2, <3>2, <3>3
    <3>5. work'[r][d].phase = "none"
      BY <3>4 DEF NoWork
    <3>6. CASE restored[r][d] = "yes"
      BY <1>0, <3>1, <3>3, <3>5, <3>6 DEF CountedIsPending, Ready
    <3>7. CASE restored[r][d] # "yes"
      BY <1>0, <3>3, <3>5, <3>7 DEF Rest, IdleUntilRestored, counted
    <3> QED BY <3>6, <3>7
  <2> QED BY <2>1, <2>2
<1> QED BY <1>4, <1>5, <1>7, <1>8 DEF KeptInv

LEMMA CallsKeepKept ==
    ASSUME IInv, KeptInv, NEW r \in Runtime, NEW c \in Container,
           \/ TimerFires(r, c)
           \/ \E f \in Call : \/ FlushWorkspace(f, r, c) \/ StopProcess(f, r, c)
                             \/ ProcessExits(f, r, c) \/ FlushAll(f, r)
    PROVE  KeptInv'
<1>0. /\ TypeOK /\ {c} \in SUBSET Container /\ Container \in SUBSET Container
      /\ Nobody \in Call \cup {Nobody} /\ \A f \in Call : f \in Call \cup {Nobody}
      /\ {"flush", "flushAll", "exit"} \subseteq Kind \ {"none"}
  BY DEF IInv, Kind
<1>1. CASE TimerFires(r, c)
  <2>1. Flushed(r, {c}, {c}, Nobody)
    BY <1>0, <1>1, FlushEffect DEF TimerFires
  <2>2. UNCHANGED <<since, live, files, restored, made, disk, landed, revisions>>
    BY <1>1 DEF TimerFires, container, storage
  <2>3. Begins(r, Nobody)
    BY <2>2 DEF Begins
  <2> QED BY <1>0, <2>1, <2>2, <2>3, FlushKeepsKept
<1>2. ASSUME NEW f \in Call, FlushWorkspace(f, r, c) PROVE KeptInv'
  <2>1. Flushed(r, {c}, {c}, f)
    BY <1>0, <1>2, FlushEffect DEF FlushWorkspace
  <2>2. Begins(r, f)
    BY <1>0, <1>2, BeginEffect DEF FlushWorkspace
  <2>3. UNCHANGED <<live, files, restored, made, disk, landed, revisions>>
    BY <1>2 DEF FlushWorkspace, container, storage
  <2>4. \A h \in Call : since'[h] # since[h] => since'[h].kind = "flush"
    BY <1>0, <1>2 DEF FlushWorkspace, Begin, TypeOK
  <2> QED BY <1>0, <2>1, <2>2, <2>3, <2>4, FlushKeepsKept
<1>3. ASSUME NEW f \in Call, StopProcess(f, r, c) PROVE KeptInv'
  <2>1. Flushed(r, {c}, {c}, f)
    BY <1>0, <1>3, FlushEffect DEF StopProcess
  <2>2. Begins(r, f)
    BY <1>0, <1>3, BeginEffect DEF StopProcess
  <2>3. /\ UNCHANGED <<live, files, restored, made, disk, landed>>
        /\ \A q \in Runtime, d \in Container :
              \/ revisions'[q][d] = revisions[q][d]
              \/ q = r /\ d \in {c} /\ revisions'[q][d] = revisions[q][d] \cup files[q][d]
    BY <1>0, <1>3 DEF StopProcess, Bump, storage, TypeOK
  <2>4. \A h \in Call : since'[h] # since[h] => since'[h].kind = "flush"
    BY <1>0, <1>3 DEF StopProcess, Begin, TypeOK
  <2> QED BY <1>0, <2>1, <2>2, <2>3, <2>4, FlushKeepsKept
<1>4. ASSUME NEW f \in Call, ProcessExits(f, r, c) PROVE KeptInv'
  <2>1. Flushed(r, {c}, {c}, Nobody)
    BY <1>0, <1>4, FlushEffect DEF ProcessExits
  <2>2. Begins(r, Nobody)
    BY <1>0, <1>4, BeginEffect DEF ProcessExits
  <2>3. /\ UNCHANGED <<live, files, restored, made, disk, landed>>
        /\ \A q \in Runtime, d \in Container :
              \/ revisions'[q][d] = revisions[q][d]
              \/ q = r /\ d \in {c} /\ revisions'[q][d] = revisions[q][d] \cup files[q][d]
    BY <1>0, <1>4 DEF ProcessExits, Bump, storage, TypeOK
  <2>4. \A h \in Call : since'[h] # since[h] => since'[h].kind = "exit"
    BY <1>0, <1>4 DEF ProcessExits, Begin, TypeOK
  <2> QED BY <1>0, <2>1, <2>2, <2>3, <2>4, FlushKeepsKept
<1>5. ASSUME NEW f \in Call, FlushAll(f, r) PROVE KeptInv'
  <2> DEFINE cs == {d \in Container : Pending(r, d)}
  <2>0. cs \in SUBSET Container
    OBVIOUS
  <2>1. Flushed(r, cs, Container, f)
    BY <1>0, <1>5, <2>0, FlushEffect DEF FlushAll
  <2>2. Begins(r, f)
    BY <1>0, <1>5, BeginEffect DEF FlushAll
  <2>3. UNCHANGED <<live, files, restored, made, disk, landed, revisions>>
    BY <1>5 DEF FlushAll, container, storage
  <2>4. \A d \in Container : timer[r][d] => d \in cs
    BY DEF Pending
  <2>5. \A h \in Call : since'[h] # since[h] =>
           h = f /\ \A d \in Container : since'[h].seen[d] = counted(r, d)
    BY <1>0, <1>5, <2>3 DEF FlushAll, Begin, TypeOK, counted
  <2>6. \A d \in Container \ cs : work[r][d] = NoWork /\ ~timer[r][d]
    BY DEF Pending
  <2> HIDE DEF cs
  <2> QED BY <1>0, <2>0, <2>1, <2>2, <2>3, <2>4, <2>5, <2>6, FlushKeepsKept
<1> QED BY <1>1, <1>2, <1>3, <1>4, <1>5

LEMMA ExportKeepsKept ==
    ASSUME IInv, KeptInv, NEW r \in Runtime, NEW c \in Container, Export(r, c)
    PROVE  KeptInv'
<1>0. TypeOK /\ RevisionsMade /\ CountedIsPending /\ SeenStays
  BY DEF IInv, KeptInv
<1>1. /\ r \in live /\ work[r][c] \in Work
      /\ UNCHANGED <<live, files, restored, revisions, made, timer, queued, call, spoilt, disk,
                     landed, since>>
  BY <1>0 DEF Export, TypeOK, NoWork, container, storage
<1>2. /\ work'[r][c].phase = "exported" /\ work'[r][c].tree = files[r][c]
      /\ work'[r][c].revision = work[r][c].revision /\ work'[r][c] # NoWork /\ work[r][c] # NoWork
      /\ \A q \in Runtime, d \in Container : ~(q = r /\ d = c) => work'[q][d] = work[q][d]
  <2>1. work'[r][c] = [work[r][c] EXCEPT !.phase = "exported", !.tree = files[r][c]]
    BY <1>0, <1>1 DEF Export, TypeOK
  <2>2. \A q \in Runtime, d \in Container : ~(q = r /\ d = c) => work'[q][d] = work[q][d]
    BY <1>0 DEF Export, TypeOK
  <2>3. work[r][c] # NoWork
    BY DEF Export, NoWork
  <2> QED BY <1>1, <2>1, <2>2, <2>3 DEF Work, NoWork
<1>3. RevisionsMade'
  <2>1. \A q \in Runtime, d \in Container : work'[q][d] # NoWork =>
           work'[q][d].revision \subseteq made /\ work'[q][d].tree \subseteq made
    BY <1>0, <1>2 DEF RevisionsMade
  <2> QED BY <1>0, <1>1, <2>1 DEF RevisionsMade
<1>4. CountedIsPending'
  <2> SUFFICES ASSUME NEW q \in Runtime, NEW d \in Container, Ready(q, d)
               PROVE  /\ work'[q][d] = NoWork =>
                            counted(q, d) \subseteq landed[q][d] \/ timer[q][d] \/ spoilt[q][d]
                      /\ work'[q][d].phase \in {"exported", "saving"} =>
                            counted(q, d) \subseteq work'[q][d].tree \/ timer[q][d] \/ queued[q][d]
    BY <1>1 DEF CountedIsPending, Ready, counted
  <2>1. CASE q = r /\ d = c
    BY <1>2, <2>1 DEF counted
  <2>2. CASE ~(q = r /\ d = c)
    BY <1>0, <1>2, <2>2 DEF CountedIsPending
  <2> QED BY <2>1, <2>2
<1>5. SeenStays'
  BY <1>0, <1>1 DEF SeenStays
<1>6. AllKept'
  <2> SUFFICES ASSUME NEW f \in Call, since[f].kind = "flushAll"
               PROVE  /\ since[f].runtime \in Runtime
                      /\ \A d \in Container :
                            call[f][d] \in {"none", "ok"} =>
                               /\ \/ since[f].seen[d] \subseteq landed[since[f].runtime][d]
                                  \/ spoilt[since[f].runtime][d]
                               /\ work'[since[f].runtime][d].phase \in {"exported", "saving"} =>
                                     since[f].seen[d] \subseteq work'[since[f].runtime][d].tree
    BY <1>1 DEF AllKept
  <2>1. /\ since[f].runtime \in Runtime
        /\ \A d \in Container :
              call[f][d] \in {"none", "ok"} =>
                 /\ \/ since[f].seen[d] \subseteq landed[since[f].runtime][d]
                    \/ spoilt[since[f].runtime][d]
                 /\ work[since[f].runtime][d].phase \in {"exported", "saving"} =>
                       since[f].seen[d] \subseteq work[since[f].runtime][d].tree
    BY DEF KeptInv, AllKept
  <2>2. \A d \in Container : since[f].runtime = r /\ d = c =>
           since[f].seen[d] \subseteq work'[since[f].runtime][d].tree
    BY <1>0, <1>1, <1>2 DEF SeenStays
  <2> QED BY <1>2, <2>1, <2>2
<1> QED BY <1>3, <1>4, <1>5, <1>6 DEF KeptInv

LEMMA SaveKeepsKept ==
    ASSUME IInv, KeptInv, NEW r \in Runtime, NEW c \in Container, SaveSnapshot(r, c)
    PROVE  KeptInv'
<1>0. TypeOK /\ RevisionsMade /\ CountedIsPending /\ SeenStays
  BY DEF IInv, KeptInv
<1>1. /\ work[r][c] \in Work /\ work[r][c].phase = "exported"
      /\ UNCHANGED <<live, files, restored, revisions, made, timer, queued, call, spoilt, disk,
                     landed, since>>
  BY <1>0 DEF SaveSnapshot, TypeOK, NoWork, container
<1>2. /\ work'[r][c].phase = "saving" /\ work'[r][c].tree = work[r][c].tree
      /\ work'[r][c].revision = revisions[r][c] /\ work'[r][c] # NoWork /\ work[r][c] # NoWork
      /\ \A q \in Runtime, d \in Container : ~(q = r /\ d = c) => work'[q][d] = work[q][d]
  <2>1. work'[r][c] = [work[r][c] EXCEPT !.phase = "saving", !.revision = revisions[r][c]]
    BY <1>0, <1>1 DEF SaveSnapshot, TypeOK
  <2>2. \A q \in Runtime, d \in Container : ~(q = r /\ d = c) => work'[q][d] = work[q][d]
    BY <1>0 DEF SaveSnapshot, TypeOK
  <2>3. work[r][c] # NoWork
    BY DEF SaveSnapshot, NoWork
  <2> QED BY <1>1, <2>1, <2>2, <2>3 DEF Work, NoWork
<1>3. RevisionsMade'
  <2>1. \A q \in Runtime, d \in Container : work'[q][d] # NoWork =>
           work'[q][d].revision \subseteq made /\ work'[q][d].tree \subseteq made
    BY <1>0, <1>2 DEF RevisionsMade
  <2> QED BY <1>0, <1>1, <2>1 DEF RevisionsMade
<1>4. \A q \in Runtime, d \in Container :
         /\ work'[q][d] = NoWork <=> work[q][d] = NoWork
         /\ work'[q][d].phase \in {"exported", "saving"} =>
               /\ work[q][d].phase \in {"exported", "saving"}
               /\ work'[q][d].tree = work[q][d].tree
  BY <1>1, <1>2
<1>5. CountedIsPending'
  BY <1>0, <1>1, <1>4 DEF CountedIsPending, Ready, counted
<1>6. SeenStays' /\ AllKept'
  BY <1>0, <1>1, <1>4 DEF KeptInv, SeenStays, AllKept
<1> QED BY <1>3, <1>5, <1>6 DEF KeptInv

(* A work ends.  Where it was saved, its tree has what was counted, but    *)
(* for what a timer or a queue entry stands for.                           *)
LEMMA SettleKeepsKept ==
    ASSUME IInv, KeptInv, NEW r \in Runtime, NEW c \in Container, NEW ok \in BOOLEAN,
           work[r][c] # NoWork, Settled(r, c, ok), ok => work[r][c].phase = "saving",
           UNCHANGED <<live, files, restored, revisions, made, since>>,
           \A q \in Runtime, d \in Container :
              landed'[q][d] = IF ok /\ q = r /\ d = c THEN work[r][c].tree ELSE landed[q][d],
           \A d \in Container :
              \/ disk'[d] = disk[d]
              \/ d = c /\ disk'[d].tree = work[r][c].tree
                 /\ disk'[d].revision = work[r][c].revision
    PROVE  KeptInv'
<1>0. TypeOK /\ RevisionsMade /\ CountedIsPending /\ SeenStays
  BY DEF IInv, KeptInv
<1>1. \A q \in Runtime, d \in Container : ~(q = r /\ d = c) =>
        /\ timer'[q][d] = timer[q][d] /\ queued'[q][d] = queued[q][d]
        /\ work'[q][d] = work[q][d] /\ spoilt'[q][d] = spoilt[q][d]
  BY DEF Settled
<1>2. /\ ~queued'[r][c] /\ spoilt'[r][c] = ~ok
      /\ timer'[r][c] <=> timer[r][c] /\ ~queued[r][c]
      /\ \/ /\ queued[r][c] /\ work'[r][c] # NoWork
            /\ work'[r][c].phase = "exporting"
            /\ work'[r][c].tree = {} /\ work'[r][c].revision = {}
         \/ ~queued[r][c] /\ work'[r][c] = NoWork /\ work'[r][c].phase = "none"
  <2>1. queued[r][c] \in BOOLEAN
    BY <1>0 DEF TypeOK
  <2> QED BY <2>1 DEF Settled, Start, NoWork
<1>3. \A f \in Call, d \in Container :
        call'[f][d] = IF since[f].runtime = r /\ d = c
                      THEN continuation(call[f][c], queued[r][c], ok, work[r][c].failed \/ ~ok)
                      ELSE call[f][d]
  BY DEF Settled
<1>4. RevisionsMade'
  <2>1. \A q \in Runtime, d \in Container : work'[q][d] # NoWork =>
           work'[q][d].revision \subseteq made /\ work'[q][d].tree \subseteq made
    BY <1>0, <1>1, <1>2 DEF RevisionsMade
  <2>2. \A d \in Container : disk'[d].revision \subseteq made /\ disk'[d].tree \subseteq made
    BY <1>0 DEF RevisionsMade
  <2> QED BY <1>0, <2>1, <2>2 DEF RevisionsMade
<1>5. CountedIsPending'
  <2> SUFFICES ASSUME NEW q \in Runtime, NEW d \in Container, Ready(q, d)
               PROVE  /\ work'[q][d] = NoWork =>
                            counted(q, d) \subseteq landed'[q][d] \/ timer'[q][d] \/ spoilt'[q][d]
                      /\ work'[q][d].phase \in {"exported", "saving"} =>
                            counted(q, d) \subseteq work'[q][d].tree \/ timer'[q][d] \/ queued'[q][d]
    BY DEF CountedIsPending, Ready, counted
  <2>1. CASE q = r /\ d = c
    <3>1. work'[q][d].phase \notin {"exported", "saving"}
      BY <1>2, <2>1
    <3>2. ASSUME work'[q][d] = NoWork, ok
          PROVE  counted(q, d) \subseteq landed'[q][d] \/ timer'[q][d]
      <4>1. ~queued[r][c] /\ landed'[r][c] = work[r][c].tree /\ (timer[r][c] => timer'[r][c])
        BY <1>2, <2>1, <3>2
      <4>2. counted(r, c) \subseteq work[r][c].tree \/ timer[r][c] \/ queued[r][c]
        BY <1>0, <2>1, <3>2 DEF CountedIsPending
      <4> QED BY <2>1, <4>1, <4>2
    <3> QED BY <1>2, <2>1, <3>1, <3>2
  <2>2. CASE ~(q = r /\ d = c)
    BY <1>0, <1>1, <2>2 DEF CountedIsPending
  <2> QED BY <2>1, <2>2
<1>6. SeenStays'
  BY <1>0 DEF SeenStays
<1>7. AllKept'
  <2> SUFFICES ASSUME NEW f \in Call, since[f].kind = "flushAll", NEW d \in Container,
                      call'[f][d] \in {"none", "ok"}
               PROVE  /\ \/ since[f].seen[d] \subseteq landed'[since[f].runtime][d]
                         \/ spoilt'[since[f].runtime][d]
                      /\ work'[since[f].runtime][d].phase \in {"exported", "saving"} =>
                            since[f].seen[d] \subseteq work'[since[f].runtime][d].tree
    BY DEF KeptInv, AllKept
  <2>1. since[f].runtime \in Runtime
    BY DEF KeptInv, AllKept
  <2>2. CASE since[f].runtime = r /\ d = c
    <3>1. call'[f][d] = continuation(call[f][c], queued[r][c], ok, work[r][c].failed \/ ~ok)
      BY <1>3, <2>2
    <3>2. work'[r][c].phase \notin {"exported", "saving"}
      BY <1>2
    <3>3. CASE ok
      <4>1. call[f][c] \in {"none", "ok", "owner", "followUp"}
        BY <3>1 DEF continuation
      <4>2. since[f].seen[c] \subseteq work[r][c].tree
        <5>1. CASE call[f][c] \in {"none", "ok"}
          BY <2>2, <3>3, <5>1 DEF KeptInv, AllKept
        <5>2. CASE call[f][c] \in {"owner", "followUp"}
          BY <2>2, <3>3, <5>2 DEF IInv, CallersAreServed
        <5> QED BY <4>1, <5>1, <5>2
      <4> QED BY <2>2, <3>2, <3>3, <4>2
    <3>4. CASE ~ok
      BY <1>2, <2>2, <3>2, <3>4
    <3> QED BY <3>3, <3>4
  <2>3. CASE ~(since[f].runtime = r /\ d = c)
    <3>1. call'[f][d] = call[f][d]
      BY <1>3, <2>3
    <3> QED BY <1>1, <2>1, <2>3, <3>1 DEF KeptInv, AllKept
  <2> QED BY <2>2, <2>3
<1> QED BY <1>4, <1>5, <1>6, <1>7 DEF KeptInv

LEMMA SnapshotsKeepKept ==
    ASSUME IInv, KeptInv, NEW r \in Runtime, NEW c \in Container,
           \/ Export(r, c) \/ SaveSnapshot(r, c) \/ ExportFails(r, c)
           \/ SnapshotLands(r, c) \/ SnapshotFails(r, c)
    PROVE  KeptInv'
<1>0. TypeOK /\ WritesAreSaves /\ TRUE \in BOOLEAN /\ FALSE \in BOOLEAN
  BY DEF IInv, SchedulerSound
<1>1. CASE Export(r, c)
  BY <1>1, ExportKeepsKept
<1>2. CASE SaveSnapshot(r, c)
  BY <1>2, SaveKeepsKept
<1>3. CASE ExportFails(r, c)
  <2>1. /\ work[r][c].phase \in {"exporting", "exported"} /\ Settle(r, c, FALSE)
        /\ UNCHANGED <<live, files, restored, revisions, made, since, landed, disk>>
    BY <1>3 DEF ExportFails, container, storage
  <2>2. work[r][c] # NoWork
    BY <2>1 DEF NoWork
  <2>3. Settled(r, c, FALSE)
    BY <1>0, <2>1, <2>2, SettleEffect
  <2> QED BY <1>0, <2>1, <2>2, <2>3, SettleKeepsKept
<1>4. CASE SnapshotLands(r, c)
  <2>1. /\ Writing(r, c) /\ Settle(r, c, TRUE)
        /\ UNCHANGED <<live, files, restored, revisions, made, since>>
        /\ landed' = [landed EXCEPT ![r][c] = work[r][c].tree]
        /\ disk' = [disk EXCEPT ![c] = [tree |-> work[r][c].tree, revision |-> work[r][c].revision]]
    BY <1>4 DEF SnapshotLands, container
  <2>2. work[r][c].phase = "saving"
    BY <1>0, <2>1, HeadIsSaved
  <2>3. work[r][c] # NoWork
    BY <2>2 DEF NoWork
  <2>4. Settled(r, c, TRUE)
    BY <1>0, <2>1, <2>3, SettleEffect
  <2>5. \A q \in Runtime, d \in Container :
          landed'[q][d] = IF TRUE /\ q = r /\ d = c THEN work[r][c].tree ELSE landed[q][d]
    BY <1>0, <2>1 DEF TypeOK
  <2>6. \A d \in Container :
          \/ disk'[d] = disk[d]
          \/ d = c /\ disk'[d].tree = work[r][c].tree /\ disk'[d].revision = work[r][c].revision
    BY <1>0, <2>1 DEF TypeOK
  <2> QED BY <1>0, <2>1, <2>2, <2>3, <2>4, <2>5, <2>6, SettleKeepsKept
<1>5. CASE SnapshotFails(r, c)
  <2>1. /\ Writing(r, c) /\ Settle(r, c, FALSE)
        /\ UNCHANGED <<live, files, restored, revisions, made, since, landed, disk>>
    BY <1>5 DEF SnapshotFails, container
  <2>2. work[r][c] # NoWork
    BY <1>0, <2>1, HeadIsSaved DEF NoWork
  <2>3. Settled(r, c, FALSE)
    BY <1>0, <2>1, <2>2, SettleEffect
  <2> QED BY <1>0, <2>1, <2>2, <2>3, SettleKeepsKept
<1> QED BY <1>1, <1>2, <1>3, <1>4, <1>5

LEMMA InitKept == Init => KeptInv
<1> SUFFICES ASSUME Init PROVE KeptInv
  OBVIOUS
<1> USE DEF Init, ForAll, Each
<1>1. RevisionsMade
  BY DEF RevisionsMade, NoSnapshot
<1>2. CountedIsPending /\ SeenStays /\ AllKept
  BY DEF CountedIsPending, SeenStays, AllKept, Ready, NotCalled
<1> QED BY <1>1, <1>2 DEF KeptInv

LEMMA NextKept == IInv /\ KeptInv /\ [Next]_vars => KeptInv'
<1> SUFFICES ASSUME IInv, KeptInv, [Next]_vars PROVE KeptInv'
  OBVIOUS
<1>1. CASE UNCHANGED vars
  <2>1. UNCHANGED <<live, files, restored, revisions, made, timer, queued, work, call, spoilt,
                    disk, landed, since>>
    BY <1>1 DEF vars, container, scheduler, storage
  <2>2. RevisionsMade' /\ CountedIsPending'
    BY <2>1 DEF KeptInv, RevisionsMade, CountedIsPending, Ready, counted
  <2>3. SeenStays' /\ AllKept'
    BY <2>1 DEF KeptInv, SeenStays, AllKept
  <2> QED BY <2>2, <2>3 DEF KeptInv
<1>2. CASE Reload
  BY <1>2, ReloadKeepsKept
<1>3. ASSUME NEW r \in Runtime, NEW c \in Container,
             \/ Boot(r) \/ Ensure(r, c) \/ Restore(r, c) \/ RestoreFails(r, c)
             \/ \E x \in Change : Write(r, c, x) \/ ApplyWorkspaceChanges(r, c, x)
             \/ WatchEvent(r, c) \/ Discard(r)
      PROVE  KeptInv'
  BY <1>3, ContainerKeepsKept
<1>4. ASSUME NEW r \in Runtime, NEW c \in Container,
             \/ TimerFires(r, c)
             \/ \E f \in Call : \/ FlushWorkspace(f, r, c) \/ StopProcess(f, r, c)
                               \/ ProcessExits(f, r, c) \/ FlushAll(f, r)
      PROVE  KeptInv'
  BY <1>4, CallsKeepKept
<1>5. ASSUME NEW r \in Runtime, NEW c \in Container,
             \/ Export(r, c) \/ SaveSnapshot(r, c) \/ ExportFails(r, c)
             \/ SnapshotLands(r, c) \/ SnapshotFails(r, c)
      PROVE  KeptInv'
  BY <1>5, SnapshotsKeepKept
<1> PICK c0 \in Container : TRUE
  OBVIOUS
<1> QED BY <1>1, <1>2, <1>3, <1>4, <1>5 DEF Next

\* What flushAll passes over, and what its calls count on, stays kept.
THEOREM KeptInvariant == Spec => []KeptInv
<1>1. Init => IInv /\ KeptInv
  BY InitInvariant, InitKept
<1>2. (IInv /\ KeptInv) /\ [Next]_vars => (IInv /\ KeptInv)'
  BY NextInvariant, NextKept
<1> QED BY <1>1, <1>2, PTL DEF Spec

LEMMA FlushAllIsDurable == Spec => FlushAllSaves
<1>1. ASSUME IInv, KeptInv', [Next]_vars, NEW f \in Call, FlushAllEnds(f), NEW c \in Container
      PROVE  \/ since'[f].seen[c] \subseteq landed'[since'[f].runtime][c]
             \/ spoilt[since'[f].runtime][c]
  <2> DEFINE q == since'[f].runtime
  <2>0. /\ TypeOK /\ WritesAreSaves /\ ~AnsweredOk(f) /\ since'[f].kind = "flushAll"
        /\ \A d \in Container : call'[f][d] \in {"none", "ok"}
        /\ TRUE \in BOOLEAN /\ FALSE \in BOOLEAN
    BY <1>1 DEF IInv, SchedulerSound, FlushAllEnds, AnsweredOk
  <2>1. q \in Runtime /\ (since'[f].seen[c] \subseteq landed'[q][c] \/ spoilt'[q][c])
    BY <1>1, <2>0 DEF KeptInv, AllKept
  <2>2. ASSUME NEW r \in Runtime, NEW d \in Container, work[r][d] # NoWork,
               Settle(r, d, FALSE), UNCHANGED since
        PROVE  FALSE
    <3>1. Settled(r, d, FALSE)
      BY <2>0, <2>2, SettleEffect
    <3>2. \A e \in Container :
             call'[f][e] = IF since[f].runtime = r /\ e = d
                           THEN continuation(call[f][d], queued[r][d], FALSE, work[r][d].failed \/ ~FALSE)
                           ELSE call[f][e]
      BY <3>1 DEF Settled
    <3>3. \A e \in Container : call'[f][e] \in {"none", "ok"} => call[f][e] \in {"none", "ok"}
      BY <3>2 DEF continuation, Outcome
    <3>4. AnsweredOk(f)
      BY <2>0, <2>2, <3>3 DEF AnsweredOk
    <3> QED BY <2>0, <3>4
  <2>3. ASSUME NEW r \in Runtime, NEW d \in Container, ExportFails(r, d) PROVE FALSE
    <3>1. /\ work[r][d].phase \in {"exporting", "exported"} /\ Settle(r, d, FALSE)
          /\ UNCHANGED since
      BY <2>3 DEF ExportFails
    <3>2. work[r][d] # NoWork
      BY <3>1 DEF NoWork
    <3> QED BY <2>2, <3>1, <3>2
  <2>4. ASSUME NEW r \in Runtime, NEW d \in Container, SnapshotFails(r, d) PROVE FALSE
    <3>1. Writing(r, d) /\ Settle(r, d, FALSE) /\ UNCHANGED since
      BY <2>4 DEF SnapshotFails
    <3>2. work[r][d] # NoWork
      BY <2>0, <3>1, HeadIsSaved DEF NoWork
    <3> QED BY <2>2, <3>1, <3>2
  <2>5. ASSUME NEW r \in Runtime, NEW d \in Container, SnapshotLands(r, d)
        PROVE  spoilt'[q][c] => spoilt[q][c]
    <3>1. Writing(r, d) /\ Settle(r, d, TRUE)
      BY <2>5 DEF SnapshotLands
    <3>2. spoilt' = [spoilt EXCEPT ![r][d] = FALSE]
      BY <3>1 DEF Settle
    <3> QED BY <2>0, <2>1, <3>2 DEF TypeOK
  <2>6. ASSUME NEW r \in Runtime, NEW d \in Container,
               \/ Boot(r) \/ Ensure(r, d) \/ Restore(r, d) \/ RestoreFails(r, d)
               \/ WatchEvent(r, d) \/ Discard(r) \/ Export(r, d) \/ SaveSnapshot(r, d)
               \/ \E x \in Change : Write(r, d, x) \/ ApplyWorkspaceChanges(r, d, x)
        PROVE  UNCHANGED spoilt
    BY <2>6 DEF Boot, Ensure, Restore, RestoreFails, WatchEvent, Discard, Export, SaveSnapshot,
       Write, ApplyWorkspaceChanges, scheduler
  <2>7. ASSUME NEW r \in Runtime, NEW d \in Container,
               \/ TimerFires(r, d)
               \/ \E g \in Call : \/ FlushWorkspace(g, r, d) \/ StopProcess(g, r, d)
                                 \/ ProcessExits(g, r, d) \/ FlushAll(g, r)
        PROVE  UNCHANGED spoilt
    BY <2>7 DEF TimerFires, FlushWorkspace, StopProcess, ProcessExits, FlushAll, Flush
  <2>8. Reload \/ UNCHANGED vars => UNCHANGED spoilt
    BY DEF Reload, vars, scheduler
  <2> HIDE DEF q
  <2>9. spoilt'[q][c] => spoilt[q][c]
    BY <1>1, <2>3, <2>4, <2>5, <2>6, <2>7, <2>8 DEF Next
  <2> QED BY <2>1, <2>9 DEF q
<1>2. IInv /\ KeptInv' /\ [Next]_vars =>
        [\A f \in Call : FlushAllEnds(f) =>
           \A c \in Container :
              \/ since'[f].seen[c] \subseteq landed'[since'[f].runtime][c]
              \/ spoilt[since'[f].runtime][c]]_vars
  BY <1>1
<1> QED BY <1>2, SnapshotInvariant, KeptInvariant, PTL DEF Spec, FlushAllSaves

\* What a flush or a flushAll answers for with success is saved, for any
\* number of runtimes, containers and calls: flushAll excepts only a
\* container whose last snapshot had failed.
THEOREM FlushesAreDurable == Spec => FlushesSave
  BY FlushIsDurable, FlushAllIsDurable DEF FlushesSave
=============================================================================
