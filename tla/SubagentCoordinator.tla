------------------------- MODULE SubagentCoordinator -------------------------
(***************************************************************************)
(* PiSubagentCoordinator: one root run delegates tasks to child agents.    *)
(*                                                                         *)
(* The code is single-threaded JavaScript: a handler runs without          *)
(* interruption from one await to the next.  Every action below is one     *)
(* such segment, and stage[c] says at which await the work on child c is   *)
(* suspended.  The fiber of a child is the spawn call, then executeChild   *)
(* (or finishQueuedCancellation when it is stopped in the queue), and for  *)
(* a child that asked its parent, resumeBlockedChild.                      *)
(*                                                                         *)
(*   none       spawn has not been called for c                            *)
(*   pruning    spawn awaits cleanupPromise                                *)
(*   refused    spawn threw                                                *)
(*   queued     in children and in queue                                   *)
(*   starting   executeChild awaits the save of the task as running        *)
(*   prompting  session.prompt runs (the first time, or resumed)           *)
(*   blocking   publishBlocked awaits the workspace revision               *)
(*   blocked    waits for the parent (child.blocked)                       *)
(*   notifying  terminalNotification awaits the workspace revision         *)
(*   finishing  finishChild awaits the save of the finished task           *)
(*   failing    finishUnexpectedFailure awaits the workspace revision      *)
(*   failSaving finishUnexpectedFailure awaits the save                    *)
(*   cancelling finishQueuedCancellation awaits the workspace revision     *)
(*   cancelSaving  finishQueuedCancellation awaits the save                *)
(*   settled    terminalSettled, the last notification is published        *)
(*   stuck      the fiber ended with an unhandled rejection of the store   *)
(***************************************************************************)
EXTENDS Integers, Sequences, FiniteSets, SequencesExt

CONSTANTS
  Child,           \* the calls of spawn, one child each
  Msg,             \* the calls of message
  NoChild,         \* the addressee of a message that is not sent yet
  MaxConcurrent,   \* MAX_CONCURRENT_SUBAGENTS
  MaxChildren,     \* MAX_CHILDREN_PER_ROOT
  StoreFails       \* may the event store reject a write?

ASSUME ConstantsAssumption ==
  /\ MaxConcurrent \in Nat \ {0}
  /\ MaxChildren \in Nat \ {0}
  /\ StoreFails \in BOOLEAN
  /\ IsFiniteSet(Child)
  /\ NoChild \notin Child

VARIABLES
  stage,         \* where the fiber of each child is suspended
  status,        \* child.task.status
  phase,         \* child.run.phase as the event bridge leaves it; in failing and
                 \* failSaving, the status finishUnexpectedFailure reports
  queue,         \* children that wait for a slot
  activeCount,   \* executions counted by start and not yet by its finally
  leaving,       \* executions that returned, their finally still to run
  spawnSaving,   \* spawn calls that await the save of the queued task
  resumed,       \* children for which resumeBlockedChild was called
  aborted,       \* children whose controller is aborted
  published,     \* notifications published for each child
  taken,         \* how many of them wait returned
  prune,         \* cleanupPromise
  rootAborted,   \* the root signal
  waitFor,       \* the children the pending wait of the root asks for
  msg, msgTo     \* state and addressee of each message call

childVars == <<stage, status, phase, resumed, aborted>>
poolVars  == <<queue, activeCount, leaving>>
noteVars  == <<published, taken>>
rootVars  == <<prune, rootAborted, waitFor>>
msgVars   == <<msg, msgTo>>
vars == <<childVars, poolVars, spawnSaving, noteVars, rootVars, msgVars>>

Stage == {"none", "pruning", "refused", "queued", "starting", "prompting",
          "blocking", "blocked", "notifying", "finishing", "failing",
          "failSaving", "cancelling", "cancelSaving", "settled", "stuck"}
Terminal == {"completed", "failed", "cancelled"}
Status == Terminal \cup {"none", "queued", "running", "blocked"}
Phase == Terminal \cup {"preparing", "planning", "awaiting"}
MsgState == {"new", "saving", "kept", "delivered", "dropped", "refused", "error"}

(***************************************************************************)
(* statusFor: the notification status of a run phase.  awaiting_user and   *)
(* awaiting_parent are one phase here; every phase it does not name is     *)
(* reported as failed.                                                     *)
(***************************************************************************)
statusFor(p) ==
  IF p = "awaiting" THEN "blocked" ELSE IF p \in Terminal THEN p ELSE "failed"

children == {c \in Child : stage[c] \notin {"none", "pruning", "refused"}}
hasSession(c) == stage[c] \in {"prompting", "blocking", "blocked"}
pending(c) == taken[c] < Len(published[c])

Init ==
  /\ stage = [c \in Child |-> "none"]
  /\ status = [c \in Child |-> "none"]
  /\ phase = [c \in Child |-> "preparing"]
  /\ queue = <<>>
  /\ activeCount = 0
  /\ leaving = {}
  /\ spawnSaving = {}
  /\ resumed = {}
  /\ aborted = {}
  /\ published = [c \in Child |-> <<>>]
  /\ taken = [c \in Child |-> 0]
  /\ prune = "none"
  /\ rootAborted = FALSE
  /\ waitFor = {}
  /\ msg = [m \in Msg |-> "new"]
  /\ msgTo = [m \in Msg |-> NoChild]

-----------------------------------------------------------------------------
(* The pool *)

(***************************************************************************)
(* pump: while a slot is free and the queue is not empty, start the head   *)
(* of the queue.  start counts the execution and runs executeChild up to   *)
(* its first await.  q, n, stg and sts are the queue, the counter, the     *)
(* stages and the statuses the enclosing segment leaves.                   *)
(***************************************************************************)
\* Mutant: the limit is compared with > instead of >=.
slotsOffByOne(q, n) ==
  IF n > MaxConcurrent THEN 0
  ELSE IF Len(q) < MaxConcurrent + 1 - n THEN Len(q) ELSE MaxConcurrent + 1 - n

slotsFor(q, n) ==
  IF n >= MaxConcurrent THEN 0
  ELSE IF Len(q) < MaxConcurrent - n THEN Len(q) ELSE MaxConcurrent - n

Pump(q, n, stg, sts) ==
  LET k == slotsFor(q, n)
      started == {q[i] : i \in 1..k}
  IN /\ queue' = SubSeq(q, k + 1, Len(q))
     /\ activeCount' = n + k
     /\ stage' = [c \in Child |-> IF c \in started THEN "starting" ELSE stg[c]]
     /\ status' = [c \in Child |-> IF c \in started THEN "running" ELSE sts[c]]

\* Mutant: the finally forgets to pump.
ReleaseWithoutPump(c) ==
  /\ c \in leaving
  /\ leaving' = leaving \ {c}
  /\ activeCount' = activeCount - 1
  /\ UNCHANGED <<childVars, queue, spawnSaving, noteVars, rootVars, msgVars>>

\* The finally of start: give the slot back and pump.
Release(c) ==
  /\ c \in leaving
  /\ leaving' = leaving \ {c}
  /\ Pump(queue, activeCount - 1, stage, status)
  /\ UNCHANGED <<phase, resumed, aborted, spawnSaving, noteVars, rootVars, msgVars>>

-----------------------------------------------------------------------------
(* spawn *)

\* The root makes calls in batches: while a wait is pending it makes no
\* other call, and once its signal is aborted it makes none.
rootCalls == waitFor = {} /\ ~rootAborted

\* The checks of spawn, and the first call of pruneTerminalChildRuns.
Spawn(c) ==
  /\ rootCalls
  /\ stage[c] = "none"
  /\ IF Cardinality(children) >= MaxChildren
       THEN /\ stage' = [stage EXCEPT ![c] = "refused"]
            /\ UNCHANGED prune
       ELSE /\ stage' = [stage EXCEPT ![c] = "pruning"]
            /\ prune' = IF prune = "none" THEN "running" ELSE prune
  /\ UNCHANGED <<status, phase, resumed, aborted, poolVars, spawnSaving,
                 noteVars, rootAborted, waitFor, msgVars>>

PruneEnds ==
  /\ prune = "running"
  /\ \/ prune' = "done"
     \/ StoreFails /\ prune' = "failed"
  /\ UNCHANGED <<childVars, poolVars, spawnSaving, noteVars, rootAborted, waitFor, msgVars>>

\* spawn after the prune: enter the child in children and in queue, and
\* begin to save its task.
Register(c) ==
  /\ stage[c] = "pruning"
  /\ prune = "done"
  /\ stage' = [stage EXCEPT ![c] = "queued"]
  /\ status' = [status EXCEPT ![c] = "queued"]
  /\ queue' = Append(queue, c)
  /\ spawnSaving' = spawnSaving \cup {c}
  /\ UNCHANGED <<phase, resumed, aborted, activeCount, leaving, noteVars, rootVars, msgVars>>

\* cleanupPromise was rejected: this spawn throws (and so does every later one).
SpawnFails(c) ==
  /\ stage[c] = "pruning"
  /\ prune = "failed"
  /\ stage' = [stage EXCEPT ![c] = "refused"]
  /\ UNCHANGED <<status, phase, resumed, aborted, poolVars, spawnSaving, noteVars, rootVars, msgVars>>

\* Mutant: spawn returns without pump.
SpawnSavedWithoutPump(c) ==
  /\ c \in spawnSaving
  /\ spawnSaving' = spawnSaving \ {c}
  /\ UNCHANGED <<childVars, poolVars, noteVars, rootVars, msgVars>>

SpawnSaved(c) ==
  /\ c \in spawnSaving
  /\ spawnSaving' = spawnSaving \ {c}
  /\ Pump(queue, activeCount, stage, status)
  /\ UNCHANGED <<phase, resumed, aborted, leaving, noteVars, rootVars, msgVars>>

\* spawn throws after the child was registered: the child stays in queue
\* and pump is not called.
SpawnSaveFails(c) ==
  /\ StoreFails
  /\ c \in spawnSaving
  /\ spawnSaving' = spawnSaving \ {c}
  /\ UNCHANGED <<childVars, poolVars, noteVars, rootVars, msgVars>>

-----------------------------------------------------------------------------
(* executeChild and resumeBlockedChild *)

\* Mutant: the end of a resumed child gives a slot back too.
EndAnyExecution(c) == leaving' = leaving \cup {c}

\* The fiber of c ends; when it is executeChild its finally is due.
EndExecution(c) == leaving' = IF c \in resumed THEN leaving ELSE leaving \cup {c}

\* publish: wait is woken by the notification itself (see WaitReturns).
Publish(c, s) == published' = [published EXCEPT ![c] = Append(@, s)]

\* A steer reaches the agent unless the controller is aborted.
steered(c) == IF c \in aborted THEN "dropped" ELSE "delivered"

\* A prompt on an aborted signal is settled as cancelled at once.
promptPhase(c) == IF c \in aborted THEN "cancelled" ELSE "planning"

\* Mutant: the pending messages are not handed to the new session.
SessionForgetsPending(c) ==
  /\ stage[c] = "starting"
  /\ stage' = [stage EXCEPT ![c] = "prompting"]
  /\ phase' = [phase EXCEPT ![c] = promptPhase(c)]
  /\ UNCHANGED <<status, resumed, aborted, poolVars, spawnSaving, noteVars, rootVars, msgVars>>

\* The running task is saved: create the session, steer the messages that
\* arrived before, prompt.
SessionStarts(c) ==
  /\ stage[c] = "starting"
  /\ stage' = [stage EXCEPT ![c] = "prompting"]
  /\ phase' = [phase EXCEPT ![c] = promptPhase(c)]
  /\ msg' = [m \in Msg |-> IF msg[m] = "kept" /\ msgTo[m] = c THEN steered(c) ELSE msg[m]]
  /\ UNCHANGED <<status, resumed, aborted, poolVars, spawnSaving, noteVars, rootVars, msgTo>>

\* Mutant: the abort of the controller is not read.
failureIsCancel(c) == "cancelled"

\* executeChild rejects: finishUnexpectedFailure reads the status it will
\* report and awaits the workspace revision.
failureStatus(c) == IF c \in aborted THEN "cancelled" ELSE "failed"

EnterFailure(c) ==
  /\ stage' = [stage EXCEPT ![c] = "failing"]
  /\ phase' = [phase EXCEPT ![c] = failureStatus(c)]
  /\ UNCHANGED <<status, resumed, aborted, poolVars, spawnSaving, noteVars, rootVars, msgVars>>

StartSaveFails(c) ==
  /\ StoreFails
  /\ stage[c] = "starting"
  /\ EnterFailure(c)

\* Mutant: a resumed child that asks again blocks again.
PromptBlocksAgain(c, p) ==
  /\ stage[c] = "prompting"
  /\ p \in Terminal \cup {"awaiting"}
  /\ phase[c] = "cancelled" => p = "cancelled"
  /\ p = "cancelled" => c \in aborted
  /\ phase' = [phase EXCEPT ![c] = p]
  /\ stage' = [stage EXCEPT ![c] = IF p = "awaiting" THEN "blocking" ELSE "notifying"]
  /\ UNCHANGED <<status, resumed, aborted, poolVars, spawnSaving, noteVars, rootVars, msgVars>>

(***************************************************************************)
(* session.prompt returns with the phase p the event bridge settled.  A    *)
(* run that asked its parent keeps its session and publishes a blocked     *)
(* notification, but only when executeChild runs it: resumeBlockedChild    *)
(* destroys the session and settles whatever the phase is.                 *)
(***************************************************************************)
PromptEnds(c, p) ==
  /\ stage[c] = "prompting"
  /\ p \in Terminal \cup {"awaiting"}
  /\ phase[c] = "cancelled" => p = "cancelled"
  /\ p = "cancelled" => c \in aborted
  /\ phase' = [phase EXCEPT ![c] = p]
  /\ stage' = [stage EXCEPT ![c] =
                 IF p = "awaiting" /\ c \notin resumed THEN "blocking" ELSE "notifying"]
  /\ UNCHANGED <<status, resumed, aborted, poolVars, spawnSaving, noteVars, rootVars, msgVars>>

\* session.prompt rejects, in executeChild or in resumeBlockedChild.
PromptThrows(c) ==
  /\ stage[c] = "prompting"
  /\ phase[c] = "planning"
  /\ EnterFailure(c)

\* Mutant: a child blocks and nobody is told.
BlockSilently(c) ==
  /\ stage[c] = "blocking"
  /\ stage' = [stage EXCEPT ![c] = "blocked"]
  /\ EndExecution(c)
  /\ UNCHANGED <<status, phase, resumed, aborted, queue, activeCount,
                 spawnSaving, noteVars, rootVars, msgVars>>

PublishBlocked(c) ==
  /\ stage[c] = "blocking"
  /\ stage' = [stage EXCEPT ![c] = "blocked"]
  /\ Publish(c, "blocked")
  /\ EndExecution(c)
  /\ UNCHANGED <<status, phase, resumed, aborted, queue, activeCount,
                 spawnSaving, taken, rootVars, msgVars>>

\* finishChild up to its save.
FinishChild(c) ==
  /\ stage[c] = "notifying"
  /\ stage' = [stage EXCEPT ![c] = "finishing"]
  /\ status' = [status EXCEPT ![c] = statusFor(phase[c])]
  /\ UNCHANGED <<phase, resumed, aborted, poolVars, spawnSaving, noteVars, rootVars, msgVars>>

Settle(c, s) ==
  /\ stage' = [stage EXCEPT ![c] = "settled"]
  /\ Publish(c, s)

FinishSaved(c) ==
  /\ stage[c] = "finishing"
  /\ Settle(c, statusFor(phase[c]))
  /\ EndExecution(c)
  /\ UNCHANGED <<status, phase, resumed, aborted, queue, activeCount,
                 spawnSaving, taken, rootVars, msgVars>>

\* The save is rejected: executeChild's catch reports a failure, nobody
\* catches it for resumeBlockedChild.
FinishSaveFails(c) ==
  /\ StoreFails
  /\ stage[c] = "finishing"
  /\ IF c \in resumed
       THEN /\ stage' = [stage EXCEPT ![c] = "stuck"]
            /\ UNCHANGED <<status, phase, resumed, aborted, poolVars, spawnSaving,
                           noteVars, rootVars, msgVars>>
       ELSE EnterFailure(c)

\* finishUnexpectedFailure up to its save.
UnexpectedFailure(c) ==
  /\ stage[c] = "failing"
  /\ stage' = [stage EXCEPT ![c] = "failSaving"]
  /\ status' = [status EXCEPT ![c] = phase[c]]
  /\ UNCHANGED <<phase, resumed, aborted, poolVars, spawnSaving, noteVars, rootVars, msgVars>>

\* The save of a failed child is best effort: saved or not, it settles.
FailureSaved(c) ==
  /\ stage[c] = "failSaving"
  /\ Settle(c, phase[c])
  /\ EndExecution(c)
  /\ UNCHANGED <<status, phase, resumed, aborted, queue, activeCount,
                 spawnSaving, taken, rootVars, msgVars>>

-----------------------------------------------------------------------------
(* stop, stopAll and the root signal *)

stoppable(c) == c \in children /\ status[c] \notin Terminal

\* Mutant: stop cancels a queued child and leaves it in the queue.
StopKeepsQueue(c) ==
  /\ stoppable(c)
  /\ aborted' = aborted \cup {c}
  /\ stage' = IF stage[c] = "queued" THEN [stage EXCEPT ![c] = "cancelling"] ELSE stage
  /\ UNCHANGED <<status, phase, resumed, poolVars, spawnSaving, noteVars, rootVars, msgVars>>

\* Mutant: stop takes a queued child out of the queue and does not cancel it.
StopForgets(c) ==
  /\ stoppable(c)
  /\ aborted' = aborted \cup {c}
  /\ queue' = SelectSeq(queue, LAMBDA x : x # c)
  /\ UNCHANGED <<stage, status, phase, resumed, activeCount, leaving, spawnSaving,
                 noteVars, rootVars, msgVars>>

\* stop: abort the controller; a queued child leaves the queue and begins
\* its cancellation, an executing one is left to end by itself.
Stop(c) ==
  /\ stoppable(c)
  /\ aborted' = aborted \cup {c}
  /\ \/ /\ stage[c] = "queued"
        /\ \E i \in 1..Len(queue) : queue[i] = c /\ queue' = RemoveAt(queue, i)
        /\ stage' = [stage EXCEPT ![c] = "cancelling"]
     \/ /\ stage[c] # "queued"
        /\ UNCHANGED <<queue, stage>>
  /\ UNCHANGED <<status, phase, resumed, activeCount, leaving, spawnSaving,
                 noteVars, rootVars, msgVars>>

\* The root signal is aborted: stopAll stops every child there is now.
AbortRoot ==
  /\ ~rootAborted
  /\ rootAborted' = TRUE
  /\ aborted' = aborted \cup {c \in Child : stoppable(c)}
  /\ stage' = [c \in Child |-> IF stage[c] = "queued" THEN "cancelling" ELSE stage[c]]
  /\ queue' = <<>>
  /\ UNCHANGED <<status, phase, resumed, activeCount, leaving, spawnSaving,
                 noteVars, prune, waitFor, msgVars>>

\* finishQueuedCancellation up to its save.
Cancel(c) ==
  /\ stage[c] = "cancelling"
  /\ stage' = [stage EXCEPT ![c] = "cancelSaving"]
  /\ status' = [status EXCEPT ![c] = "cancelled"]
  /\ UNCHANGED <<phase, resumed, aborted, poolVars, spawnSaving, noteVars, rootVars, msgVars>>

\* The cancellation settles, and stop pumps.
CancelSaved(c) ==
  /\ stage[c] = "cancelSaving"
  /\ Publish(c, "cancelled")
  /\ Pump(queue, activeCount, [stage EXCEPT ![c] = "settled"], status)
  /\ UNCHANGED <<phase, resumed, aborted, leaving, spawnSaving, taken, rootVars, msgVars>>

CancelSaveFails(c) ==
  /\ StoreFails
  /\ stage[c] = "cancelSaving"
  /\ stage' = [stage EXCEPT ![c] = "stuck"]
  /\ UNCHANGED <<status, phase, resumed, aborted, poolVars, spawnSaving, noteVars, rootVars, msgVars>>

-----------------------------------------------------------------------------
(* message *)

\* Mutant: message does not look at the status of the child.
MessageAnyStatus(m, c) ==
  /\ rootCalls
  /\ msg[m] = "new"
  /\ c \in children
  /\ msgTo' = [msgTo EXCEPT ![m] = c]
  /\ msg' = [msg EXCEPT ![m] = "saving"]
  /\ status' = [status EXCEPT ![c] = "running"]
  /\ UNCHANGED <<stage, phase, resumed, aborted, poolVars, spawnSaving, noteVars, rootVars>>

\* message marks the child as running, whatever it does, and saves it.
Message(m, c) ==
  /\ rootCalls
  /\ msg[m] = "new"
  /\ c \in children
  /\ msgTo' = [msgTo EXCEPT ![m] = c]
  /\ IF status[c] \in Terminal
       THEN /\ msg' = [msg EXCEPT ![m] = "refused"]
            /\ UNCHANGED status
       ELSE /\ msg' = [msg EXCEPT ![m] = "saving"]
            /\ status' = [status EXCEPT ![c] = "running"]
  /\ UNCHANGED <<stage, phase, resumed, aborted, poolVars, spawnSaving, noteVars, rootVars>>

\* Mutant: a child that settled while the message was saved is resumed.
MessageRevives(m) ==
  LET c == msgTo[m]
  IN /\ msg[m] = "saving"
     /\ msg' = [msg EXCEPT ![m] = IF hasSession(c) THEN steered(c) ELSE "kept"]
     /\ IF stage[c] \in {"blocked", "settled"}
          THEN /\ stage' = [stage EXCEPT ![c] = "prompting"]
               /\ phase' = [phase EXCEPT ![c] = promptPhase(c)]
               /\ resumed' = resumed \cup {c}
          ELSE UNCHANGED <<stage, phase, resumed>>
     /\ UNCHANGED <<status, aborted, poolVars, spawnSaving, noteVars, rootVars, msgTo>>

\* A blocked child is resumed with the message, a child with a session is
\* steered, and for the others the message is kept for the session to come.
\* In each case message returns true.
MessageSaved(m) ==
  LET c == msgTo[m]
  IN /\ msg[m] = "saving"
     /\ msg' = [msg EXCEPT ![m] = IF hasSession(c) THEN steered(c) ELSE "kept"]
     /\ IF stage[c] = "blocked"
          THEN /\ stage' = [stage EXCEPT ![c] = "prompting"]
               /\ phase' = [phase EXCEPT ![c] = promptPhase(c)]
               /\ resumed' = resumed \cup {c}
          ELSE UNCHANGED <<stage, phase, resumed>>
     /\ UNCHANGED <<status, aborted, poolVars, spawnSaving, noteVars, rootVars, msgTo>>

MessageSaveFails(m) ==
  /\ StoreFails
  /\ msg[m] = "saving"
  /\ msg' = [msg EXCEPT ![m] = "error"]
  /\ UNCHANGED <<childVars, poolVars, spawnSaving, noteVars, rootVars, msgTo>>

-----------------------------------------------------------------------------
(* wait *)

\* A wait runs alone in its batch: no spawn or message is in flight.
StartWait(S) ==
  /\ rootCalls
  /\ S # {} /\ S \subseteq children
  /\ spawnSaving = {}
  /\ \A c \in Child : stage[c] # "pruning"
  /\ \A m \in Msg : msg[m] # "saving"
  /\ waitFor' = S
  /\ UNCHANGED <<childVars, poolVars, spawnSaving, noteVars, prune, rootAborted, msgVars>>

\* wait returns one notification of a child that has one.
WaitReturns ==
  /\ \E c \in waitFor : pending(c) /\ taken' = [taken EXCEPT ![c] = @ + 1]
  /\ waitFor' = {}
  /\ UNCHANGED <<childVars, poolVars, spawnSaving, published, prune, rootAborted, msgVars>>

\* wait throws when every child is settled and reported.
WaitThrows ==
  /\ waitFor # {}
  /\ \A c \in waitFor : stage[c] = "settled" /\ ~pending(c)
  /\ waitFor' = {}
  /\ UNCHANGED <<childVars, poolVars, spawnSaving, noteVars, prune, rootAborted, msgVars>>

-----------------------------------------------------------------------------
Calls(c) ==
  \/ Spawn(c)
  \/ Stop(c)
  \/ \E m \in Msg : Message(m, c)

\* What the runtime does by itself once a call was made: an awaited save,
\* read or prompt is answered, and the segment after it runs.
Answers(c) ==
  \/ Register(c) \/ SpawnFails(c) \/ SpawnSaved(c)
  \/ SessionStarts(c)
  \/ \E p \in Phase : PromptEnds(c, p)
  \/ PublishBlocked(c)
  \/ FinishChild(c) \/ FinishSaved(c)
  \/ UnexpectedFailure(c) \/ FailureSaved(c)
  \/ Cancel(c) \/ CancelSaved(c)
  \/ Release(c)

Failures(c) ==
  \/ SpawnSaveFails(c) \/ StartSaveFails(c) \/ PromptThrows(c)
  \/ FinishSaveFails(c) \/ CancelSaveFails(c)

Next ==
  \/ \E c \in Child : Calls(c) \/ Answers(c) \/ Failures(c)
  \/ \E m \in Msg : MessageSaved(m) \/ MessageSaveFails(m)
  \/ PruneEnds
  \/ AbortRoot
  \/ \E S \in SUBSET Child : StartWait(S)
  \/ WaitReturns
  \/ WaitThrows

Spec == Init /\ [][Next]_vars

(***************************************************************************)
(* Fairness.  An awaited promise of the store or of the runtime is         *)
(* answered, and its continuation runs: the event loop never drops one.    *)
(* That a prompt ends is an assumption on the model client, which the      *)
(* session bounds by its own limits.  No call of the root or the user is   *)
(* fair.                                                                   *)
(***************************************************************************)
Fairness ==
  /\ \A c \in Child : WF_vars(Answers(c))
  /\ \A m \in Msg : WF_vars(MessageSaved(m))
  /\ WF_vars(PruneEnds)
  /\ WF_vars(WaitReturns)
  /\ WF_vars(WaitThrows)

FairSpec == Spec /\ Fairness

-----------------------------------------------------------------------------
(* Properties *)

TypeOK ==
  /\ stage \in [Child -> Stage]
  /\ status \in [Child -> Status]
  /\ phase \in [Child -> Phase]
  /\ queue \in Seq(Child)
  /\ activeCount \in Nat
  /\ leaving \in SUBSET Child
  /\ spawnSaving \in SUBSET Child
  /\ resumed \in SUBSET Child
  /\ aborted \in SUBSET Child
  /\ published \in [Child -> Seq(Status)]
  /\ taken \in [Child -> Nat]
  /\ prune \in {"none", "running", "done", "failed"}
  /\ rootAborted \in BOOLEAN
  /\ waitFor \in SUBSET Child
  /\ msg \in [Msg -> MsgState]
  /\ msgTo \in [Msg -> Child \cup {NoChild}]

running == {"starting", "prompting", "blocking", "notifying", "finishing", "failing", "failSaving"}
executing(c) == stage[c] \in running /\ c \notin resumed

\* The executeChild calls whose finally has not run.
Executions == {c \in Child : executing(c)} \cup leaving

\* No slot leaks and none is given back twice: activeCount is the number of
\* executeChild calls whose finally has not run, on every path out of
\* executeChild (settled, blocked, rejected), and never above the limit.
PoolAccounting ==
  /\ activeCount = Cardinality(Executions)
  /\ activeCount <= MaxConcurrent

\* The queue holds each waiting child once, and only waiting children: what
\* stop takes out is never started and what pump takes out never cancelled
\* as queued.
QueueSound ==
  /\ ToSet(queue) = {c \in Child : stage[c] = "queued"}
  /\ \A i, j \in 1..Len(queue) : queue[i] = queue[j] => i = j

\* While the store answers, a child waits only for a slot: a free slot and
\* a waiting child together mean that a segment that ends in pump is due.
WorkConserving ==
  queue # <<>> /\ activeCount < MaxConcurrent =>
    \/ spawnSaving # {}
    \/ leaving # {}
    \/ \E c \in Child : stage[c] \in {"cancelling", "cancelSaving"}

\* What wait can report of a child: nothing before it blocks or settles, one
\* blocked report if it asked its parent, one last report when it settles,
\* which is then the status of its task if that is terminal.
ReportContract ==
  \A c \in Child :
    LET asked == stage[c] = "blocked" \/ c \in resumed
        before == IF asked THEN <<"blocked">> ELSE <<>>
    IN /\ stage[c] = "settled" => \E s \in Status :
            published[c] = Append(before, s) /\ (s \in Terminal => status[c] = s)
       /\ stage[c] # "settled" => published[c] = before
       /\ taken[c] <= Len(published[c])

\* A child is reported as cancelled only after stop or the root signal
\* aborted its controller.
CancelledWasStopped ==
  \A c \in Child : \A i \in 1..Len(published[c]) :
    published[c][i] = "cancelled" => c \in aborted

\* Guidance that arrives before the child has a session is handed over when
\* the session starts, also when its save overtakes the start.
KeptOnlyWithoutSession ==
  \A m \in Msg : msg[m] = "kept" => ~hasSession(msgTo[m])

\* Two fibers never settle one child: after the last report nothing more is
\* published for it and it is not resumed or started again.
SettledIsFinal ==
  [][\A c \in Child : stage[c] = "settled" =>
       stage'[c] = "settled" /\ published'[c] = published[c]]_vars

\* While the store answers, every child that spawn registered is reported.
EveryChildReports ==
  \A c \in Child : c \in children ~> published[c] # <<>>

\* While the store answers, a stopped child settles unless it is blocked.
StoppedChildSettles ==
  \A c \in Child : c \in aborted ~> stage[c] \in {"settled", "blocked"}

\* While the store answers, a wait for a child that still has something to
\* report, or to do, returns.
WaitCompletes ==
  (\E c \in waitFor : pending(c) \/ stage[c] \notin {"settled", "blocked"}) ~> waitFor = {}

\* The pool of children: its slots and its queue.
PoolSound == PoolAccounting /\ QueueSound

\* What is reported of a child and what is kept for it.
ReportsSound == ReportContract /\ CancelledWasStopped /\ KeptOnlyWithoutSession

\* While the store answers: every child reports, a stopped one settles, wait
\* returns.
ChildrenSettle == EveryChildReports /\ StoppedChildSettles /\ WaitCompletes

-----------------------------------------------------------------------------
(* The inductive invariant behind them *)

\* Which fibers can be where: a resumed child has left executeChild, and an
\* execution whose finally is due has blocked, settled or was resumed since.
FiberShape ==
  \A c \in Child :
    /\ c \in resumed => stage[c] \in {"prompting", "notifying", "finishing", "failing",
                                      "failSaving", "settled", "stuck"}
    /\ c \in leaving => stage[c] \in {"blocked", "settled"} \/ c \in resumed
    /\ stage[c] \in {"failing", "failSaving"} => phase[c] \in {"failed", "cancelled"}
    /\ c \in spawnSaving => c \in children

\* The status of the task before the child has a slot and while its last save
\* is under way: message cannot change the latter any more.
StatusShape ==
  \A c \in Child :
    /\ stage[c] = "queued" => status[c] \in {"queued", "running"}
    /\ stage[c] = "finishing" => status[c] = statusFor(phase[c]) \/ statusFor(phase[c]) \notin Terminal
    /\ stage[c] = "failSaving" => status[c] = phase[c]
    /\ stage[c] = "cancelSaving" => status[c] = "cancelled"

\* A child that is being cancelled, or ends as cancelled, was aborted.
CancelShape ==
  \A c \in Child :
    stage[c] \in {"cancelling", "cancelSaving"} \/ phase[c] = "cancelled" => c \in aborted

\* A message that is being saved has an addressee.
AddresseeShape ==
  \A m \in Msg : msg[m] \in {"saving", "kept"} => msgTo[m] \in children

IInv ==
  /\ TypeOK
  /\ QueueSound
  /\ PoolAccounting
  /\ FiberShape
  /\ StatusShape
  /\ ReportContract
  /\ CancelShape
  /\ CancelledWasStopped
  /\ AddresseeShape
  /\ KeptOnlyWithoutSession

-----------------------------------------------------------------------------
(* Refinement *)

\* The stage of a child as the root can observe it.
observed(c) ==
  IF stage[c] \in {"none", "pruning", "refused"} THEN "absent"
  ELSE IF stage[c] \in {"queued", "cancelling", "cancelSaving"} THEN "waiting"
  ELSE IF stage[c] = "blocked" THEN "asking"
  ELSE IF stage[c] = "settled" THEN "done"
  ELSE IF stage[c] = "stuck" THEN "lost"
  ELSE IF c \in resumed THEN "guided" ELSE "running"

Contract == INSTANCE DelegationContract
  WITH state <- [c \in Child |-> observed(c)], reports <- published

\* Through queueing, cancellation, resumption and rejected saves, the root
\* observes only lives of children that the contract allows.
ImplementsContract == Contract!Spec

-----------------------------------------------------------------------------
(* What the documentation says and the code does not do *)

\* agent-v2-design.md section 9: at most 3 child lifecycles run at a time.
\* A child that asked its parent gave its slot back and is resumed without one.
AtMostMaxConcurrentRun ==
  Cardinality({c \in Child : stage[c] = "prompting"}) <= MaxConcurrent

\* The signal option of the coordinator: an aborted root signal aborts every
\* child.  A spawn that awaits the prune registers its child after stopAll.
AbortReachesChildren ==
  rootAborted => \A c \in children : c \in aborted \/ status[c] \in Terminal

\* agent-v2-design.md section 9: cancelling the parent stops the children.
\* A blocked child has no fiber that could settle it.
CancelSettlesChildren ==
  rootAborted ~> \A c \in children : stage[c] = "settled"

\* message_subagent answers "Message delivered.": a message that is kept has
\* a session to come.  Between the end of the prompt and the saved status
\* the child still counts as running and its session is gone.
KeptHasSessionToCome ==
  \A m \in Msg : msg[m] = "kept" =>
    \/ stage[msgTo[m]] \in {"queued", "starting"}
    \/ msgTo[m] \in aborted
=============================================================================
