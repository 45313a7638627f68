----------------------------- MODULE RunRecords -----------------------------
(***************************************************************************)
(* AgentEventStore over V3PersistenceRepository: what the page remembers   *)
(* of the runs of one session, the writes it has handed to IndexedDB, and  *)
(* what the database holds.                                                *)
(*                                                                         *)
(* A write of a run goes through the queue runWrite; an event is put by a  *)
(* transaction of its own on the store of events, and these complete in    *)
(* the order of their creation; a checkpoint goes through checkpointWrite. *)
(* The three are independent of each other.  The queues are kept per run   *)
(* here: the order of writes of different runs decides nothing.            *)
(*                                                                         *)
(* Only the event run_started matters to the other stores: append saves    *)
(* the run it carries once the event is put.  The events of a run that     *)
(* wait are put together here, and so are its checkpoints.                 *)
(***************************************************************************)
EXTENDS PiRuns

CONSTANT MaxFaults   \* bound: rejected writes and reloads, together

ASSUME RecordsAssumption == MaxFaults \in Nat

VARIABLES
  memRun,      \* memoryRuns: the phase of each run the store knows
  events,      \* of each run, whether events wait for their put
  runQ,        \* saves of runs that have not completed
  checkQ,      \* runs with a checkpoint that has not completed
  diskRun, diskEvents, diskCheck,
  failures, reloads

records == <<memRun, events, runQ, checkQ, diskRun, diskEvents, diskCheck, failures, reloads>>
disk == <<diskRun, diskEvents, diskCheck, failures, reloads>>

\* None waits; run_started does, alone or with others; others do.
Waiting == {"none", "started", "more"}
Save == [phase : Phase \ {"none"}, by : {"run", "load"}]

RecordsInit ==
  /\ memRun = [r \in Run |-> "none"]
  /\ events = [r \in Run |-> "none"]
  /\ runQ = [r \in Run |-> <<>>]
  /\ checkQ = {}
  /\ diskRun = [r \in Run |-> IF r \in Old THEN "planning" ELSE "none"]
  /\ diskEvents = Old
  /\ diskCheck = {}
  /\ failures = 0 /\ reloads = 0

-----------------------------------------------------------------------------
(* The calls of the store, as the bridge makes them. *)

save(p, by) == [phase |-> p, by |-> by]

\* agent_start: saveRun, then append of run_started and of what follows it.
RecordedStart(r) ==
  /\ memRun' = [memRun EXCEPT ![r] = "planning"]
  /\ runQ' = [runQ EXCEPT ![r] = Append(@, save("planning", "run"))]
  /\ events' = [events EXCEPT ![r] = "started"]

\* agent_start, an aborted message and agent_end in one go.
RecordedUnstarted(r) ==
  /\ memRun' = [memRun EXCEPT ![r] = "cancelled"]
  /\ runQ' = [runQ EXCEPT ![r] = @ \o <<save("planning", "run"), save("cancelled", "run")>>]
  /\ events' = [events EXCEPT ![r] = "started"]

\* The events of a handler, with those that wait already.
RecordedEvents(r) == events' = [events EXCEPT ![r] = IF @ = "none" THEN "more" ELSE @]

\* setPhase: saveRun, when the handler sets a phase.
RecordedPhase(r, p) ==
  IF p = phase[r] THEN UNCHANGED <<memRun, runQ>>
  ELSE /\ memRun' = [memRun EXCEPT ![r] = p]
       /\ runQ' = [runQ EXCEPT ![r] = Append(@, save(p, "run"))]

\* The saves of r that have not completed, in whatever order.
saving(r) == {runQ[r][i] : i \in 1..Len(runQ[r])}

\* Mutant: only the saves of the run are waited for.
SavesWritten(r) == runQ[r] = <<>>

\* Mutant: a rejected write is waited for as if it could still complete.
WrittenForSure(r) ==
  events[r] = "none" /\ runQ[r] = <<>> /\ r \notin checkQ /\ failures = 0

\* Nothing that r has handed to the store is on its way.
Written(r) == events[r] = "none" /\ runQ[r] = <<>> /\ r \notin checkQ

\* loadSessionRuns: what is stored, overridden by what the store remembers.
listed(r) == IF memRun[r] # "none" THEN memRun[r] ELSE diskRun[r]

-----------------------------------------------------------------------------
(* IndexedDB completes a write, or rejects it; nobody retries. *)

LandEvent(r) ==
  /\ events[r] # "none"
  /\ events' = [events EXCEPT ![r] = "none"]
  /\ diskEvents' = diskEvents \cup {r}
  /\ IF events[r] = "started"
     THEN runQ' = [runQ EXCEPT ![r] = Append(@, save("planning", "run"))]
     ELSE UNCHANGED runQ
  /\ UNCHANGED <<memRun, checkQ, diskRun, diskCheck, failures, reloads>>

LandRun(r) ==
  /\ runQ[r] # <<>>
  /\ runQ' = [runQ EXCEPT ![r] = Tail(@)]
  /\ diskRun' = [diskRun EXCEPT ![r] = Head(runQ[r]).phase]
  /\ UNCHANGED <<memRun, events, checkQ, diskEvents, diskCheck, failures, reloads>>

LandCheckpoint(r) ==
  /\ r \in checkQ
  /\ checkQ' = checkQ \ {r}
  /\ diskCheck' = diskCheck \cup {r}
  /\ UNCHANGED <<memRun, events, runQ, diskRun, diskEvents, failures, reloads>>

Rejected ==
  /\ failures + reloads < MaxFaults
  /\ failures' = failures + 1
  /\ UNCHANGED reloads

\* A put is rejected: append does not go on to save the run.
LoseEvent(r) ==
  /\ events[r] # "none"
  /\ events' = [events EXCEPT ![r] = "none"]
  /\ Rejected
  /\ UNCHANGED <<memRun, runQ, checkQ, diskRun, diskEvents, diskCheck>>

LoseRun(r) ==
  /\ runQ[r] # <<>>
  /\ runQ' = [runQ EXCEPT ![r] = Tail(@)]
  /\ Rejected
  /\ UNCHANGED <<memRun, events, checkQ, diskRun, diskEvents, diskCheck>>

LoseCheckpoint(r) ==
  /\ r \in checkQ
  /\ checkQ' = checkQ \ {r}
  /\ Rejected
  /\ UNCHANGED <<memRun, events, runQ, diskRun, diskEvents, diskCheck>>

\* deleteSession: one transaction over runs, events and checkpoints.
Erase ==
  /\ diskRun' = [r \in Run |-> "none"]
  /\ diskEvents' = {}
  /\ diskCheck' = {}
  /\ UNCHANGED <<memRun, events, runQ, checkQ, failures, reloads>>

\* The page goes: what is on its way is lost, what is stored stays.
Forget ==
  /\ failures + reloads < MaxFaults
  /\ reloads' = reloads + 1
  /\ memRun' = [r \in Run |-> "none"]
  /\ events' = [r \in Run |-> "none"]
  /\ runQ' = [r \in Run |-> <<>>]
  /\ checkQ' = {}
  /\ UNCHANGED <<diskRun, diskEvents, diskCheck, failures>>

-----------------------------------------------------------------------------
RecordsTypeOK ==
  /\ memRun \in [Run -> Phase]
  /\ events \in [Run -> Waiting]
  /\ runQ \in [Run -> Seq(Save)]
  /\ checkQ \subseteq Run
  /\ diskRun \in [Run -> Phase]
  /\ diskEvents \subseteq Run
  /\ diskCheck \subseteq Run
  /\ failures \in Nat /\ reloads \in Nat
  /\ failures + reloads <= MaxFaults
=============================================================================
