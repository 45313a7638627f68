------------------------------- MODULE PiRuns -------------------------------
(***************************************************************************)
(* The runs of one session on one page: useAgentV2 launches, resumes,      *)
(* guides and stops them; each is a PiSession behind a PiDriver, whose     *)
(* PiEventBridge turns the events of the pi agent into the phase of the    *)
(* run.  What the runs write is added by SessionRecords (runs, events and  *)
(* checkpoints) and by SessionLog (the messages of the conversation).      *)
(*                                                                         *)
(* A run is at a stage; every stage before the end is an await:            *)
(*   resuming    resumeDriverRun waits for the container                   *)
(*   creating    launchDriverTask waits for createAgentDriver              *)
(*   opening     prompt waits for ready: the pi session opens              *)
(*   compacting  prompt waits for compactBeforePrompt                      *)
(*   storing     prompt waits for the attachments and appendUserMessage    *)
(*   model       agent.prompt: the model answers                           *)
(*   tools       agent.prompt: a batch of tools runs                       *)
(*   between     agent.prompt: compactForNextTurn waits                    *)
(*   ending      agent.prompt: the last turn is over, agent_end is next    *)
(*   flushing    prompt waits for pendingPersist                           *)
(* The loop of the pi agent is external; of its turns the model keeps the  *)
(* answer of the model, the batch of tools, and what ends the loop.        *)
(*                                                                         *)
(* Texts, plans, usage, attachments and streaming deltas are left out, and *)
(* so are child runs: SubagentCoordinator has them.                        *)
(***************************************************************************)
EXTENDS Integers, Sequences, FiniteSets

CONSTANTS
  Run,
  Old,         \* the runs of an earlier page
  MaxGuides    \* bound: guidance the user gives

ASSUME RunsAssumption ==
  IsFiniteSet(Run) /\ Old \subseteq Run /\ MaxGuides \in Nat

VARIABLES
  stage,
  aborted,    \* the signal of the run is aborted
  told,       \* agent.abort reached a loop that runs
  phase,      \* run.phase, which the UI shows
  order,      \* when the run was launched, and so entered in driverExecutions
  stop,       \* pendingStopRun
  steered,    \* guidance waits in the steering queue of the agent
  guides

runs == <<stage, aborted, told, phase, order, stop, steered, guides>>

Loop == {"model", "tools", "between", "ending"}
Live == {"opening", "compacting", "storing", "flushing"} \cup Loop
Launched == Live \cup {"resuming", "creating"}
Stage == Launched \cup {"none", "done", "rejected", "gone"}

Active == {"preparing", "planning"}
Settled == {"cancelled", "failed", "completed"}
Phase == {"none", "interrupted", "awaiting_user"} \cup Active \cup Settled

\* driverExecutionsRef: entered once the driver exists, left by finally.
executions == {r \in Run : stage[r] \in Live}

newest(r) == r \in executions /\ \A q \in executions : order[q] <= order[r]

\* activeRun, and latestRun.
running == \E r \in Run : phase[r] \in Active
latest(r) == phase[r] # "none" /\ \A q \in Run : phase[q] # "none" => order[q] <= order[r]

RunsInit ==
  /\ stage = [r \in Run |-> "none"]
  /\ aborted = [r \in Run |-> FALSE]
  /\ told = [r \in Run |-> FALSE]
  /\ phase = [r \in Run |-> "none"]
  /\ order = [r \in Run |-> 0]
  /\ stop = [r \in Run |-> "none"]
  /\ steered = [r \in Run |-> FALSE]
  /\ guides = 0

goTo(r, s) == stage' = [stage EXCEPT ![r] = s]
show(r, p) == phase' = [phase EXCEPT ![r] = p]

-----------------------------------------------------------------------------
(* Launching a run. *)

fresh(r) == stage[r] = "none" /\ r \notin Old

\* launchDriverTask: the run is shown, and its driver is created.
Launches(r) ==
  /\ goTo(r, "creating")
  /\ show(r, "preparing")
  /\ order' = [order EXCEPT ![r] = 1 + Cardinality({q \in Run : order[q] > 0})]
  /\ UNCHANGED <<aborted, told, stop, steered, guides>>

\* handleSubmit and startTask: a new run only when none is shown as running.
Submit(r) ==
  /\ fresh(r) /\ ~running
  /\ Launches(r)

\* resumeTask, which RunBoard offers when none is shown as running and the
\* latest run was interrupted or waits for the user.
Resume(r) ==
  /\ fresh(r) /\ ~running
  /\ \E q \in Run : latest(q) /\ phase[q] \in {"interrupted", "awaiting_user"}
  /\ goTo(r, "resuming")
  /\ UNCHANGED <<aborted, told, phase, order, stop, steered, guides>>

\* ensureContainer and the reads of resumeDriverRun answered: launchTask does
\* not look again at what runs by now.
ResumeLaunches(r) ==
  /\ stage[r] = "resuming"
  /\ Launches(r)

ResumeFails(r) ==
  /\ stage[r] = "resuming"
  /\ goTo(r, "none")
  /\ UNCHANGED <<aborted, told, phase, order, stop, steered, guides>>

\* The driver is there: its prompt begins, and the execution is entered.
DriverCreated(r) ==
  /\ stage[r] = "creating"
  /\ goTo(r, "opening")
  /\ UNCHANGED <<aborted, told, phase, order, stop, steered, guides>>

\* The import or the constructor throws: the run is shown as failed.
DriverFails(r) ==
  /\ stage[r] = "creating"
  /\ goTo(r, "rejected")
  /\ show(r, "failed")
  /\ UNCHANGED <<aborted, told, order, stop, steered, guides>>

-----------------------------------------------------------------------------
(* prompt of PiSession, up to agent.prompt *)

\* prompt throws: launchDriverTask reports the error and leaves the run as it is.
Throws(r, at) ==
  /\ stage[r] = at
  /\ goTo(r, "rejected")
  /\ UNCHANGED <<aborted, told, phase, order, stop, steered, guides>>

\* Mutant: an aborted run returns without a word to the bridge.
PassesSilently(r, from, to) ==
  /\ stage[r] = from
  /\ goTo(r, IF aborted[r] THEN "done" ELSE to)
  /\ UNCHANGED <<aborted, told, phase, order, stop, steered, guides>>

\* The session is open, or the context is compacted: the signal is looked at.
\* Aborted, prompt plays agent_start, an aborted message and agent_end to the
\* bridge, and returns; the second look is the last before the agent starts.
Passes(r, from, to) ==
  /\ stage[r] = from
  /\ IF aborted[r] THEN goTo(r, "done") /\ show(r, "cancelled")
                   ELSE goTo(r, to) /\ UNCHANGED phase
  /\ UNCHANGED <<aborted, told, order, stop, steered, guides>>

\* appendUserMessage landed and agent.prompt starts the loop: agent_start.
\* Guidance given so far goes into the first turn.
Starts(r) ==
  /\ stage[r] = "storing"
  /\ goTo(r, "model")
  /\ show(r, "planning")
  /\ steered' = [steered EXCEPT ![r] = FALSE]
  /\ UNCHANGED <<aborted, told, order, stop, guides>>

-----------------------------------------------------------------------------
(* The loop of the agent, as the bridge sees it. *)

\* An answer that calls tools is followed by the tools, and nobody counts the
\* turns; any other answer ends its turn, and the loop unless guidance waits.
\* The answer to a loop that was told to abort is cut off.
ModelCallsTools(r) ==
  /\ stage[r] = "model" /\ ~told[r]
  /\ goTo(r, "tools")
  /\ UNCHANGED <<aborted, told, phase, order, stop, steered, guides>>

ModelStops(r) ==
  /\ stage[r] = "model"
  /\ goTo(r, IF steered[r] THEN "between" ELSE "ending")
  /\ UNCHANGED <<aborted, told, phase, order, stop, steered, guides>>

\* stopReason "aborted", when the loop was told, or "error": an error under an
\* aborted signal counts as a stop by the user.
broken(r, reason) ==
  IF reason = "aborted" \/ aborted[r] THEN "cancelled" ELSE "failed"

ModelBreaks(r, reason) ==
  /\ stage[r] = "model"
  /\ reason = "aborted" => told[r]
  /\ goTo(r, "ending")
  /\ show(r, broken(r, reason))
  /\ UNCHANGED <<aborted, told, order, stop, steered, guides>>

\* The batch of tools is over: one of them may have been complete_task or
\* ask_user, and then shouldStopAfterTurn ends the loop.
ToolsEnd(r, s) ==
  /\ stage[r] = "tools"
  /\ goTo(r, IF s = "none" THEN "between" ELSE "ending")
  /\ stop' = [stop EXCEPT ![r] = s]
  /\ UNCHANGED <<aborted, told, phase, order, steered, guides>>

\* compactForNextTurn is over; the guidance goes into the turn.
NextTurn(r) ==
  /\ stage[r] = "between"
  /\ goTo(r, "model")
  /\ steered' = [steered EXCEPT ![r] = FALSE]
  /\ UNCHANGED <<aborted, told, phase, order, stop, guides>>

\* Mutant: agent_end does not look at the phase.
concludedAnew(r) == IF stop[r] = "awaiting_user" THEN "awaiting_user" ELSE "completed"

\* agent_end: a run cancelled or failed stays so, one that asked waits, any
\* other is completed.
conclusion(r) ==
  IF phase[r] \in {"cancelled", "failed"} THEN phase[r]
  ELSE IF stop[r] = "awaiting_user" THEN "awaiting_user" ELSE "completed"

AgentEnd(r) ==
  /\ stage[r] = "ending"
  /\ goTo(r, "flushing")
  /\ show(r, conclusion(r))
  /\ stop' = [stop EXCEPT ![r] = "none"]
  /\ UNCHANGED <<aborted, told, order, steered, guides>>

\* prompt returns, and finally leaves driverExecutions.
Returns(r) ==
  /\ stage[r] = "flushing"
  /\ goTo(r, "done")
  /\ UNCHANGED <<aborted, told, phase, order, stop, steered, guides>>

-----------------------------------------------------------------------------
(* The user, and the page. *)

\* guideActiveTask: the newest execution takes it, started or not, ended or
\* not, unless its signal is aborted.
Guide(r) ==
  /\ guides < MaxGuides
  /\ running /\ newest(r) /\ ~aborted[r]
  /\ guides' = guides + 1
  /\ steered' = [steered EXCEPT ![r] = TRUE]
  /\ UNCHANGED <<stage, aborted, told, phase, order, stop>>

\* controller.abort for each run of S: agent.abort does something only while
\* the loop runs.
Abort(S) ==
  /\ aborted' = [r \in Run |-> aborted[r] \/ r \in S]
  /\ told' = [r \in Run |-> told[r] \/ (r \in S /\ stage[r] \in Loop)]
  /\ UNCHANGED <<stage, phase, order, stop, steered, guides>>

\* stopTask aborts every execution, and those only.
StopTask ==
  /\ \E r \in executions : ~aborted[r]
  /\ Abort(executions)

\* Mutant: the loaded runs replace those of the page.
ShowsLoaded(p) ==
  /\ phase' = [r \in Run |-> IF p[r] # "none" THEN p[r] ELSE phase[r]]
  /\ UNCHANGED <<stage, aborted, told, order, stop, steered, guides>>

\* The effect of useAgentV2 shows the runs it loaded, next to those of the page.
Shows(p) ==
  /\ phase' = [r \in Run |-> IF phase[r] = "none" THEN p[r] ELSE phase[r]]
  /\ UNCHANGED <<stage, aborted, told, order, stop, steered, guides>>

\* The page goes, and all its runs with it.
PageGone ==
  /\ stage' = [r \in Run |-> IF stage[r] \in Launched THEN "gone" ELSE stage[r]]
  /\ phase' = [r \in Run |-> "none"]
  /\ stop' = [r \in Run |-> "none"]
  /\ steered' = [r \in Run |-> FALSE]
  /\ UNCHANGED <<aborted, told, order, guides>>

-----------------------------------------------------------------------------
RunsTypeOK ==
  /\ stage \in [Run -> Stage]
  /\ aborted \in [Run -> BOOLEAN]
  /\ told \in [Run -> BOOLEAN]
  /\ phase \in [Run -> Phase]
  /\ order \in [Run -> Nat]
  /\ stop \in [Run -> {"none", "completed", "awaiting_user"}]
  /\ steered \in [Run -> BOOLEAN]
  /\ guides \in 0..MaxGuides
=============================================================================
