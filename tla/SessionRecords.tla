--------------------------- MODULE SessionRecords ---------------------------
(***************************************************************************)
(* The runs of a session (PiRuns) and their records (RunRecords): what the *)
(* bridge stores at each step of a run, the recovery of useAgentV2, which  *)
(* marks the runs of an earlier page as interrupted, and the deletion of   *)
(* the session, which aborts its runs, waits for them and erases.          *)
(*                                                                         *)
(* Guidance only adds an event to those that wait; SessionLog has it.      *)
(***************************************************************************)
EXTENDS RunRecords

VARIABLES
  early,                     \* prompt returned without waiting for pendingPersist
  load, toMark, recovered,   \* the effect, and recoveredSessionsRef
  del, delWait               \* the deletion, and the runs it waits for

page == <<load, toMark, recovered>>
deletion == <<del, delWait>>
vars == <<runs, records, early, page, deletion>>

Init ==
  /\ RunsInit /\ RecordsInit
  /\ early = {}
  /\ load = "idle" /\ toMark = {} /\ recovered = FALSE
  /\ del = "no" /\ delWait = {}

\* The handlers of a run touch neither the recovery nor the deletion.
elsewhere == UNCHANGED <<page, deletion>>

\* A step of the run that stores nothing.
Quiet(A) == A /\ UNCHANGED <<records, early>> /\ elsewhere

-----------------------------------------------------------------------------
(* A run, step by step, with what it stores. *)

Launch(r) ==
  \/ del # "done" /\ Quiet(Submit(r))
  \/ del # "done" /\ Quiet(Resume(r))
  \/ Quiet(ResumeFails(r))
  \/ Quiet(DriverFails(r))

\* A check of the signal; the settlement of an aborted run is stored, and
\* prompt does not wait for it.
Checks(r, from, to) ==
  /\ Passes(r, from, to)
  /\ IF aborted[r] THEN RecordedUnstarted(r) /\ early' = early \cup {r}
                   ELSE UNCHANGED <<memRun, runQ, events, early>>
  /\ UNCHANGED <<checkQ, disk>> /\ elsewhere

Begins(r) ==
  /\ Starts(r)
  /\ RecordedStart(r)
  /\ UNCHANGED <<checkQ, disk, early>> /\ elsewhere

\* prompt throws after the store rejected the message of the user.
StoreFails(r) ==
  /\ Throws(r, "storing")
  /\ Rejected
  /\ UNCHANGED <<memRun, events, runQ, checkQ, diskRun, diskEvents, diskCheck, early>>
  /\ elsewhere

Answers(r) ==
  /\ ModelCallsTools(r)
  /\ RecordedEvents(r)
  /\ UNCHANGED <<memRun, runQ, checkQ, disk, early>> /\ elsewhere

\* turn_end: an event, and a checkpoint.
TurnStored(r) ==
  /\ RecordedEvents(r)
  /\ checkQ' = checkQ \cup {r}
  /\ UNCHANGED <<disk, early>> /\ elsewhere

LastAnswer(r) ==
  /\ ModelStops(r)
  /\ TurnStored(r)
  /\ UNCHANGED <<memRun, runQ>>

Breaks(r, reason) ==
  /\ ModelBreaks(r, reason)
  /\ TurnStored(r)
  /\ RecordedPhase(r, broken(r, reason))

ToolsOver(r, s) ==
  /\ ToolsEnd(r, s)
  /\ TurnStored(r)
  /\ UNCHANGED <<memRun, runQ>>

\* compactForNextTurn and prompt wait for pendingPersist.
Continues(r) == Written(r) /\ Quiet(NextTurn(r))
Flushed(r) == Written(r) /\ Quiet(Returns(r))

Ends(r) ==
  /\ AgentEnd(r)
  /\ RecordedPhase(r, conclusion(r))
  /\ IF conclusion(r) = phase[r] THEN UNCHANGED events ELSE RecordedEvents(r)
  /\ UNCHANGED <<checkQ, disk, early>> /\ elsewhere

-----------------------------------------------------------------------------
(* Showing the session: the effect of useAgentV2 and markInterruptedRuns. *)

\* loadSessionEvents answered: runs are marked once per page, and not while
\* this page runs one of them.
LoadEvents ==
  /\ load = "idle" /\ del # "done"
  /\ load' = IF ~recovered /\ executions = {} THEN "runs" ELSE "runsonly"
  /\ UNCHANGED <<runs, records, early, toMark, recovered, deletion>>

\* loadSessionRuns answered.
LoadRuns ==
  /\ load = "runs"
  /\ load' = "marking"
  /\ memRun' = [r \in Run |-> listed(r)]
  /\ toMark' = {r \in Run : listed(r) \in Active}
  /\ UNCHANGED <<runs, events, runQ, checkQ, disk, early, recovered, deletion>>

LoadRunsOnly ==
  /\ load = "runsonly"
  /\ load' = "shown" /\ recovered' = TRUE
  /\ memRun' = [r \in Run |-> listed(r)]
  /\ Shows([r \in Run |-> listed(r)])
  /\ UNCHANGED <<events, runQ, checkQ, disk, early, toMark, deletion>>

marking == \E r \in Run : \E w \in saving(r) : w.by = "load"

\* Mutant: the run is marked in memory only.
MarkInMemory(r) ==
  /\ load = "marking" /\ r \in toMark /\ ~marking
  /\ toMark' = toMark \ {r}
  /\ memRun' = [memRun EXCEPT ![r] = "interrupted"]
  /\ UNCHANGED <<runs, runQ, events, checkQ, disk, early, load, recovered, deletion>>

\* The next run is marked once the save of the one before is done.
MarkNext(r) ==
  /\ load = "marking" /\ r \in toMark /\ ~marking
  /\ toMark' = toMark \ {r}
  /\ memRun' = [memRun EXCEPT ![r] = "interrupted"]
  /\ runQ' = [runQ EXCEPT ![r] = Append(@, save("interrupted", "load"))]
  /\ UNCHANGED <<runs, events, checkQ, disk, early, load, recovered, deletion>>

LoadDone ==
  /\ load = "marking" /\ toMark = {} /\ ~marking
  /\ load' = "shown" /\ recovered' = TRUE
  /\ Shows(memRun)
  /\ UNCHANGED <<records, early, toMark, deletion>>

\* A save is rejected; when it was the recovery's, the recovery ends with it
\* and is tried again when the session is selected again.
SaveLost(r) ==
  /\ LoseRun(r)
  /\ IF Head(runQ[r]).by = "load" THEN load' = "idle" /\ toMark' = {}
                                  ELSE UNCHANGED <<load, toMark>>
  /\ UNCHANGED <<runs, early, recovered, deletion>>

-----------------------------------------------------------------------------
(* Deleting the session. *)

\* The preparation of useAgentV2: abort what runs, to wait for it.
DeletePrepare ==
  /\ del = "no"
  /\ del' = "preparing"
  /\ delWait' = executions
  /\ Abort(executions)
  /\ UNCHANGED <<records, early, page>>

\* Mutant: the deletion does not wait for what it aborted.
DeleteAtOnce ==
  /\ del = "preparing"
  /\ del' = "deleting"
  /\ UNCHANGED <<runs, records, early, page, delWait>>

DeleteProceed ==
  /\ del = "preparing"
  /\ delWait \cap executions = {}
  /\ del' = "deleting"
  /\ UNCHANGED <<runs, records, early, page, delWait>>

DeleteLand ==
  /\ del = "deleting"
  /\ del' = "done"
  /\ Erase
  /\ UNCHANGED <<runs, early, page, delWait>>

DeleteFails ==
  /\ del = "deleting"
  /\ del' = "no"
  /\ Rejected
  /\ UNCHANGED <<memRun, events, runQ, checkQ, diskRun, diskEvents, diskCheck,
                 runs, early, page, delWait>>

-----------------------------------------------------------------------------
StopRuns == Quiet(StopTask)

\* The page is reloaded: everything in memory goes with it.
Reload ==
  /\ Forget /\ PageGone
  /\ load' = "idle" /\ toMark' = {} /\ recovered' = FALSE
  /\ del' = IF del = "done" THEN del ELSE "no"
  /\ delWait' = IF del = "done" THEN delWait ELSE {}
  /\ UNCHANGED early

untouched == UNCHANGED <<runs, early, page, deletion>>
EventLands(r) == LandEvent(r) /\ untouched
RunLands(r) == LandRun(r) /\ untouched
CheckpointLands(r) == LandCheckpoint(r) /\ untouched

\* What is awaited goes on; it does not take the user, nor a failure.
Goes(r) ==
  \/ Quiet(ResumeLaunches(r)) \/ Quiet(DriverCreated(r))
  \/ Checks(r, "opening", "compacting") \/ Checks(r, "compacting", "storing")
  \/ Begins(r) \/ Answers(r) \/ LastAnswer(r)
  \/ \E reason \in {"aborted", "error"} : Breaks(r, reason)
  \/ \E s \in {"none", "completed", "awaiting_user"} : ToolsOver(r, s)
  \/ Continues(r) \/ Ends(r) \/ Flushed(r)

Loading ==
  LoadEvents \/ LoadRuns \/ LoadRunsOnly \/ LoadDone \/ \E r \in Run : MarkNext(r)

Next ==
  \/ \E r \in Run :
       \/ Launch(r) \/ Goes(r) \/ StoreFails(r)
       \/ EventLands(r) \/ RunLands(r) \/ CheckpointLands(r)
       \/ LoseEvent(r) /\ untouched
       \/ LoseCheckpoint(r) /\ untouched
       \/ SaveLost(r)
  \/ StopRuns \/ Loading
  \/ DeletePrepare \/ DeleteProceed \/ DeleteLand \/ DeleteFails
  \/ Reload

Spec == Init /\ [][Next]_vars

\* Awaited calls answer and IndexedDB completes what it was given.
Fairness ==
  /\ \A r \in Run : /\ WF_vars(Goes(r))
                    /\ WF_vars(EventLands(r) \/ RunLands(r) \/ CheckpointLands(r))
  /\ WF_vars(Loading)
  /\ WF_vars(DeleteProceed \/ DeleteLand)

FairSpec == Spec /\ Fairness

-----------------------------------------------------------------------------
TypeOK ==
  /\ RunsTypeOK /\ RecordsTypeOK
  /\ early \subseteq Run
  /\ load \in {"idle", "runs", "runsonly", "marking", "shown"}
  /\ toMark \subseteq Run
  /\ recovered \in BOOLEAN
  /\ del \in {"no", "preparing", "deleting", "done"}
  /\ delWait \subseteq Run

\* What is shown of a run fits the stage it is at.
ShownFits(r) ==
  /\ r \in Old => stage[r] = "none"
  /\ r \in early => stage[r] = "done"
  /\ stage[r] \in {"creating", "opening", "compacting", "storing"} => phase[r] = "preparing"
  /\ stage[r] \in {"model", "tools", "between"} => phase[r] = "planning"
  /\ stage[r] = "ending" => phase[r] \in {"planning", "cancelled", "failed"}
  /\ stage[r] = "flushing" => phase[r] \in {"cancelled", "failed", "awaiting_user", "completed"}

\* A run that never began has left no trace, and one that does not run has
\* nothing to store of its own, unless its prompt returned early.
StoredFits(r) ==
  /\ stage[r] \in {"none", "resuming"} /\ r \notin Old =>
       /\ phase[r] = "none" /\ memRun[r] = "none" /\ diskRun[r] = "none"
       /\ runQ[r] = <<>> /\ r \notin toMark
  /\ stage[r] \notin Loop \cup {"flushing"} /\ r \notin early =>
       /\ events[r] = "none" /\ r \notin checkQ
       /\ \A w \in saving(r) : w.by = "load"
  /\ \A w \in saving(r) : w.by = "load" => w.phase = "interrupted"

\* As long as no write is rejected, what a run has recorded is stored or waits.
TracedFits(r) ==
  failures = 0 /\ del # "done" /\ r \notin early =>
    /\ stage[r] \in Loop \cup {"flushing"} =>
         /\ events[r] # "none" \/ r \in diskEvents
         /\ runQ[r] # <<>> \/ diskRun[r] # "none"
    /\ stage[r] \in {"between", "ending", "flushing"} => r \in checkQ \cup diskCheck
    /\ stage[r] = "done" => r \in diskEvents /\ r \in diskCheck /\ diskRun[r] # "none"

\* The disk, and what waits for it, settles a run only as it is shown, or will
\* be shown when the session is loaded.
DiskFits(r) ==
  /\ phase[r] # "none" =>
       /\ diskRun[r] \in Settled => diskRun[r] = phase[r]
       /\ \A w \in saving(r) : w.phase \in Settled => w.phase = phase[r]
  /\ phase[r] = "none" =>
       /\ diskRun[r] \in Settled => memRun[r] \in {"none", diskRun[r]} /\ r \notin toMark
       /\ \A w \in saving(r) : w.phase \notin Settled

\* No run of this page has begun, and no write was rejected.
quiet == failures = 0 /\ \A r \in Run : stage[r] \in {"none", "resuming"}

\* How far the recovery is with a run of an earlier page.
RecoveryFits(r) ==
  r \in Old /\ quiet =>
    /\ recovered <=> load = "shown"
    /\ load # "runsonly"
    /\ load \in {"idle", "runs"} => memRun[r] = "none" /\ runQ[r] = <<>>
    /\ load = "marking" => diskRun[r] \notin Active \/ r \in toMark \/ runQ[r] # <<>>
    /\ load = "shown" => diskRun[r] \notin Active

\* The deletion waits for runs that had begun, and goes on without them.
WaitFits ==
  /\ del \in {"deleting", "done"} => delWait \cap executions = {}
  /\ \A r \in delWait : stage[r] \notin {"none", "resuming", "creating"}
  /\ del = "done" =>
       \A r \in delWait \ early : diskRun[r] \in {"none", "interrupted"} /\ r \notin diskCheck

\* The inductive invariant.
IInv ==
  /\ TypeOK
  /\ \A r \in Run :
       ShownFits(r) /\ StoredFits(r) /\ TracedFits(r) /\ DiskFits(r) /\ RecoveryFits(r)
  /\ WaitFits

\* A run that settled stays settled as it did, whatever the end of the loop,
\* the recovery and the user do after it on this page.
SettledOnce ==
  [][\A r \in Run : phase[r] \in Settled => phase'[r] = phase[r] \/ reloads' # reloads]_vars

\* What prompt waited for is on disk when it returns: without a rejected write
\* the events, a checkpoint and a state of the run.
WaitedForIsStored ==
  \A r \in Run :
    stage[r] = "done" /\ r \notin early /\ failures = 0 /\ del # "done" =>
      r \in diskEvents /\ r \in diskCheck /\ diskRun[r] # "none"

\* After the deletion only a run that it did not wait for, that returned before
\* its writes, or that a late recovery marks can have a record on disk again.
RevivedOnlyUnwaited ==
  del = "done" =>
    \A r \in delWait \ early : diskRun[r] \in {"none", "interrupted"} /\ r \notin diskCheck

\* No run is stored as settled that this page shows in another state.
SettledOnDiskIsTrue ==
  \A r \in Run : diskRun[r] \in Settled /\ phase[r] # "none" => phase[r] = diskRun[r]

\* Once a page has recovered the session, no run that an earlier page left active
\* is still active on disk, unless a save was rejected or a run of this page was
\* under way when the session was loaded.
OldRunsSettled ==
  recovered /\ failures = 0 /\ (\A r \in Run : stage[r] = "none") =>
    \A r \in Old : diskRun[r] \notin Active

\* A deletion ends: the runs it waits for were aborted, and a loop that is told
\* to abort ends.  One that begins after the abort never hears of it.
DeletionEnds ==
  del = "preparing" ~>
    del \in {"no", "done"} \/ \E r \in delWait : stage[r] \in Loop /\ ~told[r]

\* What the disk says of runs: waited-for ones are stored, settled ones settled,
\* deleted ones gone, and those of earlier pages no longer active.
RecordsSound ==
  WaitedForIsStored /\ RevivedOnlyUnwaited /\ SettledOnDiskIsTrue /\ OldRunsSettled
=============================================================================
