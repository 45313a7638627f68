----------------------------- MODULE AgentTurns -----------------------------
(***************************************************************************)
(* One Agent run as its tools see it: the turns of the pi loop, the task   *)
(* contract the tools keep, the completion gate (evaluateCompletionGate),  *)
(* the settling of the run (PiEventBridge), and resuming it after a reload *)
(* of the page.                                                            *)
(*                                                                         *)
(* The workspace is what a check says something about.  The program sees   *)
(* only its revision, which advances when a command ends or is stopped,    *)
(* when a resource is written and when the watch of the file system        *)
(* reports a change, some time after it.  Children,                        *)
(* background processes and the user change the same workspace.  `sound`   *)
(* says whether what is in it needs no check.                              *)
(***************************************************************************)
EXTENDS Integers, FiniteSets

CONSTANTS
    Profiles,       \* kinds of run: [role, shell, needsPlan] records
    BatchSize,      \* tool calls in a turn
    MaxChanges,     \* bound: changes of the workspace
    MaxRevision     \* bound: the revision

ASSUME TurnsAssumption ==
    /\ Profiles \subseteq [role : {"root", "child"}, shell : BOOLEAN, needsPlan : BOOLEAN]
    /\ BatchSize \in Nat \ {0} /\ MaxChanges \in Nat /\ MaxRevision \in Nat

Plans == {"none", "open", "done"}
NotChecked == -1        \* verifiedRevision without a verification

VARIABLES
    run,        \* agentRole, shellAvailable and requiresPlan
    phase,      \* model, calls, completed, awaiting, interrupted
    task,       \* [plan, changed, rev, verified, vrev]
    batch,      \* tool calls the turn still makes
    halted,     \* a tool of this turn asked for the end (shouldStopAfterTurn)
    stop,       \* pendingStopRun: none, completed, awaiting
    toolCall,   \* [tool, passed, moved, before, taskRev]
    server,     \* an Agent process outlives its call
    revision,   \* getRevision
    unseen,     \* changes the watch has not reported
    hidden,     \* the workspace changed since the revision last advanced
    sound,      \* what is in it was there when the run began, or was checked
    saved,      \* the stored snapshot: [rev, sound, hidden]
    changesMade,       \* changes so far
    unchecked,  \* history: the gate let a run end with what nobody checked
    excused     \* history: "late": changed between a command's end and the read
                \* of its revision; "lag": changed, not yet reported, at the gate
                \* or when a process is stopped;
                \* "swallowed": the task took over a revision it did not check;
                \* "reused": a reload took the revision back

turnsVars == <<run, phase, task, batch, halted, stop, toolCall, server,
               revision, unseen, hidden, sound, saved, changesMade, unchecked, excused>>
fileVars == <<revision, unseen, hidden, sound, saved, changesMade>>
pastVars == <<unchecked, excused>>

NoCall == [tool |-> "none", passed |-> FALSE, moved |-> FALSE, before |-> 0, taskRev |-> 0]

TurnsInit ==
    /\ run \in Profiles
    /\ phase = "model"
    /\ task = [plan |-> "none", changed |-> FALSE, rev |-> 0,
               verified |-> FALSE, vrev |-> NotChecked]
    /\ batch = 0 /\ halted = FALSE /\ stop = "none" /\ toolCall = NoCall
    /\ server = FALSE
    /\ revision \in 0..1
    /\ unseen = 0 /\ hidden = FALSE /\ sound = TRUE
    /\ saved = [rev |-> revision, sound |-> TRUE, hidden |-> FALSE]
    /\ changesMade = 0
    /\ unchecked = FALSE /\ excused = {}

\* The model ends with the run.
Live == phase \in {"model", "calls", "interrupted"}
Idle == phase = "calls" /\ toolCall.tool = "none" /\ batch > 0
\* The task takes over a revision and counts no change.
Swallows == IF ~task'.changed /\ ~sound THEN {"swallowed"} ELSE {}

\* The workspace changes, which the watch reports later.
Changes ==
    /\ changesMade < MaxChanges /\ changesMade' = changesMade + 1
    /\ sound' = FALSE
    /\ unseen' = unseen + 1

\* bumpRevision
Bumps ==
    /\ revision < MaxRevision
    /\ revision' = revision + 1
    /\ hidden' = FALSE

-----------------------------------------------------------------------------
(* The workspace. *)

\* The command of this run, a process that stays, a child or the user.
Change ==
    /\ Live /\ Changes
    /\ hidden' = TRUE
    /\ toolCall' = [toolCall EXCEPT !.moved = (toolCall.tool = "ran")]
    /\ UNCHANGED <<phase, task, batch, halted, stop, server, revision, saved,
                   run, pastVars>>

\* The watch reports a change.
Watch ==
    /\ Live /\ unseen > 0 /\ unseen' = unseen - 1
    /\ Bumps
    /\ UNCHANGED <<phase, task, batch, halted, stop, toolCall, server, sound, saved,
                   changesMade, run, pastVars>>

\* A command of another run ends, or a process of this one by itself.
OtherExit ==
    /\ Live /\ Bumps
    /\ server' \in {server, FALSE}
    /\ UNCHANGED <<phase, task, batch, halted, stop, toolCall, unseen, sound, saved,
                   changesMade, run, pastVars>>

\* A snapshot of the container is stored with its revision.
Snapshot ==
    /\ Live /\ saved' = [rev |-> revision, sound |-> sound, hidden |-> hidden]
    /\ UNCHANGED <<phase, task, batch, halted, stop, toolCall, server, revision,
                   unseen, hidden, sound, changesMade, run, pastVars>>

-----------------------------------------------------------------------------
(* Turns. *)

\* The model answers with tool calls.
Turn ==
    /\ phase = "model" /\ phase' = "calls"
    /\ batch' \in 1..BatchSize /\ halted' = FALSE
    /\ UNCHANGED <<task, stop, toolCall, server, run, fileVars, pastVars>>

\* The model answers in words: agent_end completes the run.
Answer ==
    /\ phase = "model" /\ phase' = "completed"
    /\ UNCHANGED <<task, batch, halted, stop, toolCall, server, run, fileVars, pastVars>>

\* The turn ends; a tool that asked for it ends the run, which agent_end
\* settles by the last such tool.
TurnEnds ==
    /\ phase = "calls" /\ batch = 0 /\ toolCall.tool = "none"
    /\ phase' = IF ~halted THEN "model"
                ELSE IF stop = "awaiting" THEN "awaiting" ELSE "completed"
    /\ stop' = IF halted THEN "none" ELSE stop
    /\ UNCHANGED <<task, batch, halted, toolCall, server, run, fileVars, pastVars>>

-----------------------------------------------------------------------------
(* Tools. *)

\* What a tool makes of the task is kept with the run.
updateTask(t) == task' = t

UpdatePlan ==
    /\ Idle /\ batch' = batch - 1
    /\ \E p \in Plans \ {"none"} : updateTask([task EXCEPT !.plan = p])
    /\ UNCHANGED <<phase, halted, stop, toolCall, server, run, fileVars, pastVars>>

\* run_command in the foreground.
RunStarts ==
    /\ Idle /\ run.shell /\ batch' = batch - 1
    /\ toolCall' = [NoCall EXCEPT !.tool = "run"]
    /\ UNCHANGED <<phase, task, halted, stop, server, run, fileVars, pastVars>>

\* The command ends by itself, which advances the revision.
RunExits(ok) ==
    /\ toolCall.tool = "run"
    /\ toolCall' = [toolCall EXCEPT !.tool = "ran", !.passed = ok, !.moved = FALSE]
    /\ Bumps
    /\ sound' = (ok \/ sound)
    /\ UNCHANGED <<phase, task, batch, halted, stop, server, unseen, saved,
                   changesMade, run, pastVars>>

\* The command outlives its timeout and goes on.
RunTimesOut ==
    /\ toolCall.tool = "run" /\ ~server /\ server' = TRUE
    /\ toolCall' = [toolCall EXCEPT !.tool = "ran"]
    /\ UNCHANGED <<phase, task, batch, halted, stop, run, fileVars, pastVars>>

\* The evidence is bound to the revision after the command.
verification(ok) ==
    [task EXCEPT !.rev = revision, !.verified = ok,
                 !.vrev = IF ok THEN revision ELSE NotChecked]

\* runShell polls the process, then the revision is read.
RunReturns ==
    /\ toolCall.tool = "ran" /\ toolCall' = NoCall
    /\ updateTask(verification(toolCall.passed))
    /\ excused' = excused \cup (IF toolCall.passed /\ toolCall.moved THEN {"late"} ELSE {})
                          \cup (IF toolCall.passed THEN {} ELSE Swallows)
    /\ UNCHANGED <<phase, batch, halted, stop, server, run, fileVars, unchecked>>

\* run_command in the background: the process is not waited for.
RunBackground ==
    /\ Idle /\ run.shell /\ ~server /\ server' = TRUE /\ batch' = batch - 1
    /\ updateTask([task EXCEPT !.rev = revision, !.verified = FALSE, !.vrev = NotChecked])
    /\ excused' = excused \cup Swallows
    /\ UNCHANGED <<phase, halted, stop, toolCall, run, fileVars, unchecked>>

\* manage_process stop: stopProcess advances the revision and flushes.
StopsProcess ==
    /\ Idle /\ run.shell /\ server /\ server' = FALSE /\ batch' = batch - 1
    /\ toolCall' = [NoCall EXCEPT !.tool = "stop", !.taskRev = task.rev, !.before = revision]
    /\ Bumps
    /\ excused' = IF hidden THEN excused \cup {"lag"} ELSE excused
    /\ UNCHANGED <<phase, task, halted, stop, unseen, sound, saved, changesMade, run,
                   unchecked>>

\* Mutant: what happened while the process was being stopped is not counted.
stoppedClean(c) == c.taskRev # c.before
\* More than the stop itself happened to the workspace.
stoppedDirty(c) == c.taskRev # c.before \/ revision # c.before + 1

StopReturns ==
    /\ toolCall.tool = "stop" /\ toolCall' = NoCall
    /\ updateTask([task EXCEPT !.changed = @ \/ stoppedDirty(toolCall), !.rev = revision,
                               !.verified = FALSE, !.vrev = NotChecked])
    /\ UNCHANGED <<phase, batch, halted, stop, server, run, fileVars, pastVars>>

\* materialize_resource writes a file.
Materialize ==
    /\ Idle /\ batch' = batch - 1
    /\ Changes
    /\ Bumps
    /\ updateTask([task EXCEPT !.changed = TRUE, !.rev = revision',
                               !.verified = FALSE, !.vrev = NotChecked])
    /\ UNCHANGED <<phase, halted, stop, toolCall, server, saved, run, pastVars>>

\* The plan lets the run complete.
planDone(t) ==
    /\ run.role = "root" /\ run.needsPlan => t.plan # "none"
    /\ t.plan # "open"

\* The task at the gate: an unknown revision is a change nobody checked.
gateTask(t) ==
    IF t.rev = revision THEN t
    ELSE [t EXCEPT !.changed = TRUE, !.rev = revision, !.verified = FALSE, !.vrev = NotChecked]

\* Mutant: the counters of the task alone authorize the end.
gateOwn(t) == run.role = "root" /\ t.changed => t.verified /\ t.vrev = t.rev
\* A changed workspace needs a check on its present revision, of a root.
gate(t) ==
    LET at == gateTask(t) IN
    run.role = "root" /\ at.changed => at.verified /\ at.vrev = revision

\* Without run_command nothing can be verified: such a run may end.
gateAnswer(t) == ~run.shell \/ gate(t)

\* complete_task
CompleteTask ==
    /\ Idle /\ batch' = batch - 1
    /\ updateTask(IF planDone(task) /\ run.shell THEN gateTask(task) ELSE task)
    /\ IF planDone(task) /\ gateAnswer(task)
       THEN /\ halted' = TRUE /\ stop' = "completed"
            /\ unchecked' = (unchecked \/ (run.shell /\ run.role = "root" /\ ~sound))
            /\ excused' = IF hidden THEN excused \cup {"lag"} ELSE excused
       ELSE UNCHANGED <<halted, stop, unchecked, excused>>
    /\ UNCHANGED <<phase, toolCall, server, run, fileVars>>

\* ask_user of any run, ask_parent of a child.
Ask ==
    /\ Idle /\ batch' = batch - 1
    /\ halted' = TRUE /\ stop' = "awaiting"
    /\ UNCHANGED <<phase, task, toolCall, server, run, fileVars, pastVars>>

\* Any other tool, or one that fails.
OtherTool ==
    /\ Idle /\ batch' = batch - 1
    /\ UNCHANGED <<phase, task, halted, stop, toolCall, server, run, fileVars, pastVars>>

-----------------------------------------------------------------------------
(* Reload. *)

\* The page goes: the snapshot is what is left of the workspace.
Crash ==
    /\ phase \in {"model", "calls"} /\ phase' = "interrupted"
    /\ batch' = 0 /\ halted' = FALSE /\ stop' = "none" /\ toolCall' = NoCall /\ server' = FALSE
    /\ revision' = saved.rev /\ sound' = saved.sound
    /\ unseen' = 0 /\ hidden' = saved.hidden
    /\ excused' = IF saved.rev < revision THEN excused \cup {"reused"} ELSE excused
    /\ UNCHANGED <<task, saved, changesMade, run, unchecked>>

\* rebuildTaskForResume
rebuilt(t) ==
    IF t.changed THEN [t EXCEPT !.verified = FALSE, !.vrev = NotChecked] ELSE t

Resume ==
    /\ phase = "interrupted" /\ phase' = "model"
    /\ task' = rebuilt(task)
    /\ UNCHANGED <<batch, halted, stop, toolCall, server, run, fileVars, pastVars>>

-----------------------------------------------------------------------------

TurnsNext ==
    \/ Change \/ Watch \/ OtherExit \/ Snapshot
    \/ Turn \/ Answer \/ TurnEnds
    \/ UpdatePlan
    \/ RunStarts \/ (\E ok \in BOOLEAN : RunExits(ok)) \/ RunTimesOut \/ RunReturns
    \/ RunBackground
    \/ StopsProcess \/ StopReturns
    \/ Materialize
    \/ CompleteTask
    \/ Ask \/ OtherTool
    \/ Crash \/ Resume

TurnsSpec == TurnsInit /\ [][TurnsNext]_turnsVars

-----------------------------------------------------------------------------
(* Properties *)

\* What complete_task lets a root run end with was checked, or is what the run
\* found when it began: a change by anyone after the check blocks the end.
\* (completion.ts :35-43, processTools.ts :46-55, 108-122)
GatedIsChecked == excused = {} => ~unchecked

\* "actual revision drift still marks changed/unverified" (.trellis/spec/
\* frontend/agent/revision-verification-and-completion.md:32), also when a
\* command that proves nothing is run in between.
DriftIsMarked == excused \subseteq {"swallowed"} => ~unchecked

\* "For the root Agent, every non-empty plain response is also a completion
\* attempt and passes the same plan/revision/verification gates" (same file :34).
PlainIsGated ==
    [][phase = "model" /\ phase' = "completed" => planDone(task) /\ gateAnswer(task)]_turnsVars
=============================================================================
