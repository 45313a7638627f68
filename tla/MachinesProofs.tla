--------------------------- MODULE MachinesProofs ---------------------------
(***************************************************************************)
(* Theorems about the machines of an Agent run, namely the completion gate *)
(* (AgentTurns) and the scroll position (ChatScroll), and about the        *)
(* container the tools run in (RuntimeLifecycle).                          *)
(***************************************************************************)
EXTENDS AgentTurns, ChatScroll, RuntimeLifecycle, FiniteSetTheorems, SequenceTheorems, TLAPS

(***************************************************************************)
(* The completion gate.                                                    *)
(***************************************************************************)

TaskType == [plan : Plans, changed : BOOLEAN, rev : Nat,
             verified : BOOLEAN, vrev : Nat \cup {NotChecked}]
CallType == [tool : {"none", "run", "ran", "stop"}, passed : BOOLEAN,
             moved : BOOLEAN, before : Nat, taskRev : Nat]
SavedType == [rev : Nat, sound : BOOLEAN, hidden : BOOLEAN]

TurnsKinds ==
    /\ run \in Profiles /\ phase \in {"model", "calls", "completed", "awaiting", "interrupted"}
    /\ task \in TaskType /\ toolCall \in CallType /\ saved \in SavedType
    /\ stop \in {"none", "completed", "awaiting"}
    /\ excused \subseteq {"late", "lag", "swallowed", "reused"}
TurnsFlags ==
    /\ halted \in BOOLEAN /\ server \in BOOLEAN /\ hidden \in BOOLEAN
    /\ sound \in BOOLEAN /\ unchecked \in BOOLEAN
TurnsNumbers ==
    batch \in Nat /\ revision \in Nat /\ unseen \in Nat /\ changesMade \in Nat

TurnsTypeOK == TurnsKinds /\ TurnsFlags /\ TurnsNumbers

\* The gate lets no task end at revision r.
Blocked(t, r) == t.rev # r \/ (t.changed /\ ~(t.verified /\ t.vrev = r))

\* A revision is known to the task and to a snapshot after it was reached.
RevisionsKnown == task.rev <= revision /\ saved.rev <= revision

\* What the watch has reported and nobody checked keeps the run from its end.
UncheckedIsBlocked == ~hidden /\ ~sound => Blocked(task, revision)

\* So does the snapshot a reload would return to, if that is no older.
SavedIsBlocked ==
    saved.rev = revision =>
        /\ sound => saved.sound
        /\ ~saved.hidden /\ ~saved.sound => Blocked(task, revision)

\* A command that passed, and since whose end nothing changed, checked what is there.
EvidenceHolds ==
    /\ toolCall.tool = "run" => ~toolCall.passed
    /\ toolCall.tool = "ran" /\ toolCall.passed /\ ~toolCall.moved => sound

\* While a process is being stopped: if the task will count no change there is
\* nothing to check, neither in the workspace nor in the snapshot.
StopCounts ==
    toolCall.tool = "stop" =>
        /\ toolCall.before < revision
        /\ ~stoppedDirty(toolCall) /\ ~task.changed =>
             /\ ~hidden => sound
             /\ saved.rev = revision /\ ~saved.hidden => saved.sound

TurnsGuarded ==
    /\ ~unchecked /\ RevisionsKnown /\ UncheckedIsBlocked /\ SavedIsBlocked
    /\ EvidenceHolds /\ StopCounts

TurnsInv == TurnsTypeOK /\ (excused = {} => TurnsGuarded)

LEMMA TurnsFields ==
    TurnsTypeOK =>
           /\ task.rev \in Nat /\ task.changed \in BOOLEAN /\ task.verified \in BOOLEAN
           /\ task.plan \in Plans /\ task.vrev \in Nat \cup {NotChecked}
           /\ toolCall.passed \in BOOLEAN /\ toolCall.moved \in BOOLEAN /\ toolCall.before \in Nat
           /\ toolCall.taskRev \in Nat /\ toolCall.tool \in {"none", "run", "ran", "stop"}
           /\ saved.rev \in Nat /\ saved.sound \in BOOLEAN /\ saved.hidden \in BOOLEAN
BY DEF TurnsTypeOK, TurnsKinds, TaskType, CallType, SavedType

LEMMA TurnsStart == TurnsInit => TurnsInv
<1> SUFFICES ASSUME TurnsInit PROVE TurnsInv
  OBVIOUS
<1> USE TurnsAssumption DEF TurnsInit
<1>1. TurnsKinds
  BY DEF TurnsKinds, TaskType, CallType, SavedType, Plans, NotChecked, NoCall
<1>2. TurnsFlags
  BY DEF TurnsFlags
<1>4. TurnsNumbers
  BY DEF TurnsNumbers
<1>3. TurnsGuarded
  BY DEF TurnsGuarded, RevisionsKnown, UncheckedIsBlocked, SavedIsBlocked, EvidenceHolds,
         StopCounts, NoCall
<1> QED BY <1>1, <1>2, <1>3, <1>4 DEF TurnsInv, TurnsTypeOK

\* Changes, the watch, exits and snapshots.
LEMMA WorkspaceKeeps ==
    ASSUME TurnsInv, Change \/ Watch \/ OtherExit \/ Snapshot
    PROVE  TurnsInv'
<1> USE TurnsAssumption, TurnsFields
         DEF TurnsInv, TurnsTypeOK, TurnsNumbers, turnsVars, fileVars, pastVars
<1>1. CASE Change
  <2>1. TurnsKinds'
    BY <1>1 DEF Change, Changes, TurnsTypeOK, TurnsKinds, CallType, NoCall, TurnsNumbers
  <2>2. TurnsFlags'
    BY <1>1 DEF Change, Changes, TurnsTypeOK, TurnsFlags
  <2>3. TurnsNumbers'
    BY <1>1 DEF Change, Changes
  <2>4. ASSUME excused' = {} PROVE TurnsGuarded'
    <3>1. excused = {} /\ TurnsGuarded
      BY <1>1, <2>4 DEF Change, Changes
    <3>2. ~unchecked'
      BY <1>1, <2>4, <3>1 DEF Change, Changes, TurnsGuarded, UncheckedIsBlocked,
         Blocked, CallType, NoCall
    <3>3. RevisionsKnown'
      BY <1>1, <2>4, <3>1 DEF Change, Changes, TurnsGuarded, RevisionsKnown,
         CallType, NoCall
    <3>4. UncheckedIsBlocked'
      BY <1>1, <2>4, <3>1 DEF Change, Changes, TurnsGuarded, UncheckedIsBlocked,
         SavedIsBlocked, RevisionsKnown, EvidenceHolds, StopCounts, stoppedDirty,
         Blocked, CallType, NoCall
    <3>5. SavedIsBlocked'
      BY <1>1, <2>4, <3>1 DEF Change, Changes, TurnsGuarded, UncheckedIsBlocked,
         SavedIsBlocked, RevisionsKnown, EvidenceHolds, StopCounts, stoppedDirty,
         Blocked, CallType, NoCall
    <3>6. EvidenceHolds'
      BY <1>1, <2>4, <3>1 DEF Change, Changes, TurnsGuarded, EvidenceHolds,
         CallType, NoCall
    <3>7. StopCounts'
      BY <1>1, <2>4, <3>1 DEF Change, Changes, TurnsGuarded, UncheckedIsBlocked,
         SavedIsBlocked, RevisionsKnown, stoppedDirty, Blocked, StopCounts,
         CallType, NoCall
    <3> QED BY <3>2, <3>3, <3>4, <3>5, <3>6, <3>7 DEF TurnsGuarded
  <2> QED BY <2>1, <2>2, <2>3, <2>4 DEF TurnsTypeOK
<1>2. CASE Watch
  <2>1. TurnsKinds'
    BY <1>2 DEF Watch, Bumps, TurnsTypeOK, TurnsKinds
  <2>2. TurnsFlags'
    BY <1>2 DEF Watch, Bumps, TurnsTypeOK, TurnsFlags
  <2>3. TurnsNumbers'
    BY <1>2 DEF Watch, Bumps
  <2>4. ASSUME excused' = {} PROVE TurnsGuarded'
    <3>1. excused = {} /\ TurnsGuarded
      BY <1>2, <2>4 DEF Watch, Bumps
    <3>2. ~unchecked'
      BY <1>2, <2>4, <3>1 DEF Watch, Bumps, TurnsGuarded, UncheckedIsBlocked, Blocked
    <3>3. RevisionsKnown'
      BY <1>2, <2>4, <3>1 DEF Watch, Bumps, TurnsGuarded, RevisionsKnown
    <3>4. UncheckedIsBlocked'
      BY <1>2, <2>4, <3>1 DEF Watch, Bumps, TurnsGuarded, UncheckedIsBlocked,
         SavedIsBlocked, RevisionsKnown, EvidenceHolds, StopCounts, stoppedDirty,
         Blocked
    <3>5. SavedIsBlocked'
      BY <1>2, <2>4, <3>1 DEF Watch, Bumps, TurnsGuarded, UncheckedIsBlocked,
         SavedIsBlocked, RevisionsKnown, EvidenceHolds, StopCounts, stoppedDirty,
         Blocked
    <3>6. EvidenceHolds'
      BY <1>2, <2>4, <3>1 DEF Watch, Bumps, TurnsGuarded, EvidenceHolds
    <3>7. StopCounts'
      BY <1>2, <2>4, <3>1 DEF Watch, Bumps, TurnsGuarded, UncheckedIsBlocked,
         SavedIsBlocked, RevisionsKnown, stoppedDirty, Blocked, StopCounts
    <3> QED BY <3>2, <3>3, <3>4, <3>5, <3>6, <3>7 DEF TurnsGuarded
  <2> QED BY <2>1, <2>2, <2>3, <2>4 DEF TurnsTypeOK
<1>3. CASE OtherExit
  <2>1. TurnsKinds'
    BY <1>3 DEF OtherExit, Bumps, TurnsTypeOK, TurnsKinds
  <2>2. TurnsFlags'
    BY <1>3 DEF OtherExit, Bumps, TurnsTypeOK, TurnsFlags
  <2>3. TurnsNumbers'
    BY <1>3 DEF OtherExit, Bumps
  <2>4. ASSUME excused' = {} PROVE TurnsGuarded'
    <3>1. excused = {} /\ TurnsGuarded
      BY <1>3, <2>4 DEF OtherExit, Bumps
    <3>2. ~unchecked'
      BY <1>3, <2>4, <3>1 DEF OtherExit, Bumps, TurnsGuarded, UncheckedIsBlocked, Blocked
    <3>3. RevisionsKnown'
      BY <1>3, <2>4, <3>1 DEF OtherExit, Bumps, TurnsGuarded, RevisionsKnown
    <3>4. UncheckedIsBlocked'
      BY <1>3, <2>4, <3>1 DEF OtherExit, Bumps, TurnsGuarded, UncheckedIsBlocked,
         SavedIsBlocked, RevisionsKnown, EvidenceHolds, StopCounts, stoppedDirty,
         Blocked
    <3>5. SavedIsBlocked'
      BY <1>3, <2>4, <3>1 DEF OtherExit, Bumps, TurnsGuarded, UncheckedIsBlocked,
         SavedIsBlocked, RevisionsKnown, EvidenceHolds, StopCounts, stoppedDirty,
         Blocked
    <3>6. EvidenceHolds'
      BY <1>3, <2>4, <3>1 DEF OtherExit, Bumps, TurnsGuarded, EvidenceHolds
    <3>7. StopCounts'
      BY <1>3, <2>4, <3>1 DEF OtherExit, Bumps, TurnsGuarded, UncheckedIsBlocked,
         SavedIsBlocked, RevisionsKnown, stoppedDirty, Blocked, StopCounts
    <3> QED BY <3>2, <3>3, <3>4, <3>5, <3>6, <3>7 DEF TurnsGuarded
  <2> QED BY <2>1, <2>2, <2>3, <2>4 DEF TurnsTypeOK
<1>4. CASE Snapshot
  <2>1. TurnsKinds'
    BY <1>4 DEF Snapshot, TurnsTypeOK, TurnsKinds, SavedType, TurnsNumbers, TurnsFlags
  <2>2. TurnsFlags'
    BY <1>4 DEF Snapshot, TurnsTypeOK, TurnsFlags
  <2>3. TurnsNumbers'
    BY <1>4 DEF Snapshot
  <2>4. ASSUME excused' = {} PROVE TurnsGuarded'
    <3>1. excused = {} /\ TurnsGuarded
      BY <1>4, <2>4 DEF Snapshot
    <3>2. ~unchecked'
      BY <1>4, <2>4, <3>1 DEF Snapshot, TurnsGuarded, UncheckedIsBlocked, Blocked,
         SavedType
    <3>3. RevisionsKnown'
      BY <1>4, <2>4, <3>1 DEF Snapshot, TurnsGuarded, RevisionsKnown, SavedType
    <3>4. UncheckedIsBlocked'
      BY <1>4, <2>4, <3>1 DEF Snapshot, TurnsGuarded, UncheckedIsBlocked,
         SavedIsBlocked, RevisionsKnown, EvidenceHolds, StopCounts, stoppedDirty,
         Blocked, SavedType
    <3>5. SavedIsBlocked'
      BY <1>4, <2>4, <3>1 DEF Snapshot, TurnsGuarded, UncheckedIsBlocked,
         SavedIsBlocked, RevisionsKnown, EvidenceHolds, StopCounts, stoppedDirty,
         Blocked, SavedType
    <3>6. EvidenceHolds'
      BY <1>4, <2>4, <3>1 DEF Snapshot, TurnsGuarded, EvidenceHolds, SavedType
    <3>7. StopCounts'
      BY <1>4, <2>4, <3>1 DEF Snapshot, TurnsGuarded, UncheckedIsBlocked,
         SavedIsBlocked, RevisionsKnown, stoppedDirty, Blocked, StopCounts,
         SavedType
    <3> QED BY <3>2, <3>3, <3>4, <3>5, <3>6, <3>7 DEF TurnsGuarded
  <2> QED BY <2>1, <2>2, <2>3, <2>4 DEF TurnsTypeOK
<1> QED BY <1>1, <1>2, <1>3, <1>4

\* Turns, their ends, and the plan.
LEMMA TurnKeeps ==
    ASSUME TurnsInv, Turn \/ Answer \/ TurnEnds \/ UpdatePlan
    PROVE  TurnsInv'
<1> USE TurnsAssumption, TurnsFields
         DEF TurnsInv, TurnsTypeOK, TurnsNumbers, turnsVars, fileVars, pastVars
<1>1. CASE Turn
  <2>1. TurnsKinds'
    BY <1>1 DEF Turn, TurnsTypeOK, TurnsKinds
  <2>2. TurnsFlags'
    BY <1>1 DEF Turn, TurnsTypeOK, TurnsFlags
  <2>3. TurnsNumbers'
    BY <1>1 DEF Turn
  <2>4. ASSUME excused' = {} PROVE TurnsGuarded'
    <3>1. excused = {} /\ TurnsGuarded
      BY <1>1, <2>4 DEF Turn
    <3>2. ~unchecked'
      BY <1>1, <2>4, <3>1 DEF Turn, TurnsGuarded, UncheckedIsBlocked, Blocked
    <3>3. RevisionsKnown'
      BY <1>1, <2>4, <3>1 DEF Turn, TurnsGuarded, RevisionsKnown
    <3>4. UncheckedIsBlocked'
      BY <1>1, <2>4, <3>1 DEF Turn, TurnsGuarded, UncheckedIsBlocked,
         SavedIsBlocked, RevisionsKnown, EvidenceHolds, StopCounts, stoppedDirty,
         Blocked
    <3>5. SavedIsBlocked'
      BY <1>1, <2>4, <3>1 DEF Turn, TurnsGuarded, UncheckedIsBlocked,
         SavedIsBlocked, RevisionsKnown, EvidenceHolds, StopCounts, stoppedDirty,
         Blocked
    <3>6. EvidenceHolds'
      BY <1>1, <2>4, <3>1 DEF Turn, TurnsGuarded, EvidenceHolds
    <3>7. StopCounts'
      BY <1>1, <2>4, <3>1 DEF Turn, TurnsGuarded, UncheckedIsBlocked,
         SavedIsBlocked, RevisionsKnown, stoppedDirty, Blocked, StopCounts
    <3> QED BY <3>2, <3>3, <3>4, <3>5, <3>6, <3>7 DEF TurnsGuarded
  <2> QED BY <2>1, <2>2, <2>3, <2>4 DEF TurnsTypeOK
<1>2. CASE Answer
  <2>1. TurnsKinds'
    BY <1>2 DEF Answer, TurnsTypeOK, TurnsKinds
  <2>2. TurnsFlags'
    BY <1>2 DEF Answer, TurnsTypeOK, TurnsFlags
  <2>3. TurnsNumbers'
    BY <1>2 DEF Answer
  <2>4. ASSUME excused' = {} PROVE TurnsGuarded'
    <3>1. excused = {} /\ TurnsGuarded
      BY <1>2, <2>4 DEF Answer
    <3>2. ~unchecked'
      BY <1>2, <2>4, <3>1 DEF Answer, TurnsGuarded, UncheckedIsBlocked, Blocked
    <3>3. RevisionsKnown'
      BY <1>2, <2>4, <3>1 DEF Answer, TurnsGuarded, RevisionsKnown
    <3>4. UncheckedIsBlocked'
      BY <1>2, <2>4, <3>1 DEF Answer, TurnsGuarded, UncheckedIsBlocked,
         SavedIsBlocked, RevisionsKnown, EvidenceHolds, StopCounts, stoppedDirty,
         Blocked
    <3>5. SavedIsBlocked'
      BY <1>2, <2>4, <3>1 DEF Answer, TurnsGuarded, UncheckedIsBlocked,
         SavedIsBlocked, RevisionsKnown, EvidenceHolds, StopCounts, stoppedDirty,
         Blocked
    <3>6. EvidenceHolds'
      BY <1>2, <2>4, <3>1 DEF Answer, TurnsGuarded, EvidenceHolds
    <3>7. StopCounts'
      BY <1>2, <2>4, <3>1 DEF Answer, TurnsGuarded, UncheckedIsBlocked,
         SavedIsBlocked, RevisionsKnown, stoppedDirty, Blocked, StopCounts
    <3> QED BY <3>2, <3>3, <3>4, <3>5, <3>6, <3>7 DEF TurnsGuarded
  <2> QED BY <2>1, <2>2, <2>3, <2>4 DEF TurnsTypeOK
<1>3. CASE TurnEnds
  <2>1. TurnsKinds'
    BY <1>3 DEF TurnEnds, TurnsTypeOK, TurnsKinds
  <2>2. TurnsFlags'
    BY <1>3 DEF TurnEnds, TurnsTypeOK, TurnsFlags
  <2>3. TurnsNumbers'
    BY <1>3 DEF TurnEnds
  <2>4. ASSUME excused' = {} PROVE TurnsGuarded'
    <3>1. excused = {} /\ TurnsGuarded
      BY <1>3, <2>4 DEF TurnEnds
    <3>2. ~unchecked'
      BY <1>3, <2>4, <3>1 DEF TurnEnds, TurnsGuarded, UncheckedIsBlocked, Blocked
    <3>3. RevisionsKnown'
      BY <1>3, <2>4, <3>1 DEF TurnEnds, TurnsGuarded, RevisionsKnown
    <3>4. UncheckedIsBlocked'
      BY <1>3, <2>4, <3>1 DEF TurnEnds, TurnsGuarded, UncheckedIsBlocked,
         SavedIsBlocked, RevisionsKnown, EvidenceHolds, StopCounts, stoppedDirty,
         Blocked
    <3>5. SavedIsBlocked'
      BY <1>3, <2>4, <3>1 DEF TurnEnds, TurnsGuarded, UncheckedIsBlocked,
         SavedIsBlocked, RevisionsKnown, EvidenceHolds, StopCounts, stoppedDirty,
         Blocked
    <3>6. EvidenceHolds'
      BY <1>3, <2>4, <3>1 DEF TurnEnds, TurnsGuarded, EvidenceHolds
    <3>7. StopCounts'
      BY <1>3, <2>4, <3>1 DEF TurnEnds, TurnsGuarded, UncheckedIsBlocked,
         SavedIsBlocked, RevisionsKnown, stoppedDirty, Blocked, StopCounts
    <3> QED BY <3>2, <3>3, <3>4, <3>5, <3>6, <3>7 DEF TurnsGuarded
  <2> QED BY <2>1, <2>2, <2>3, <2>4 DEF TurnsTypeOK
<1>4. CASE UpdatePlan
  <2>1. TurnsKinds'
    BY <1>4 DEF UpdatePlan, updateTask, Idle, TurnsTypeOK, TurnsKinds, TaskType,
       NotChecked, Plans, TurnsNumbers
  <2>2. TurnsFlags'
    BY <1>4 DEF UpdatePlan, updateTask, Idle, TurnsTypeOK, TurnsFlags
  <2>3. TurnsNumbers'
    BY <1>4 DEF UpdatePlan, updateTask, Idle
  <2>4. ASSUME excused' = {} PROVE TurnsGuarded'
    <3>1. excused = {} /\ TurnsGuarded
      BY <1>4, <2>4 DEF UpdatePlan, updateTask, Idle
    <3>2. ~unchecked'
      BY <1>4, <2>4, <3>1 DEF UpdatePlan, updateTask, Idle, TurnsGuarded,
         UncheckedIsBlocked, Blocked, TaskType, NotChecked
    <3>3. RevisionsKnown'
      BY <1>4, <2>4, <3>1 DEF UpdatePlan, updateTask, Idle, TurnsGuarded,
         RevisionsKnown, TaskType, NotChecked
    <3>4. UncheckedIsBlocked'
      BY <1>4, <2>4, <3>1 DEF UpdatePlan, updateTask, Idle, TurnsGuarded,
         UncheckedIsBlocked, SavedIsBlocked, RevisionsKnown, EvidenceHolds,
         StopCounts, stoppedDirty, Blocked, TaskType, NotChecked
    <3>5. SavedIsBlocked'
      BY <1>4, <2>4, <3>1 DEF UpdatePlan, updateTask, Idle, TurnsGuarded,
         UncheckedIsBlocked, SavedIsBlocked, RevisionsKnown, EvidenceHolds,
         StopCounts, stoppedDirty, Blocked, TaskType, NotChecked
    <3>6. EvidenceHolds'
      BY <1>4, <2>4, <3>1 DEF UpdatePlan, updateTask, Idle, TurnsGuarded,
         EvidenceHolds, TaskType, NotChecked
    <3>7. StopCounts'
      BY <1>4, <2>4, <3>1 DEF UpdatePlan, updateTask, Idle, TurnsGuarded,
         UncheckedIsBlocked, SavedIsBlocked, RevisionsKnown, stoppedDirty, Blocked,
         StopCounts, TaskType, NotChecked
    <3> QED BY <3>2, <3>3, <3>4, <3>5, <3>6, <3>7 DEF TurnsGuarded
  <2> QED BY <2>1, <2>2, <2>3, <2>4 DEF TurnsTypeOK
<1> QED BY <1>1, <1>2, <1>3, <1>4

\* A command, its end, its time-out and the reading of its revision.
LEMMA CommandKeeps ==
    ASSUME TurnsInv, RunStarts \/ (\E ok \in BOOLEAN : RunExits(ok)) \/ RunTimesOut \/ RunReturns \/ RunBackground
    PROVE  TurnsInv'
<1> USE TurnsAssumption, TurnsFields
         DEF TurnsInv, TurnsTypeOK, TurnsNumbers, turnsVars, fileVars, pastVars
<1>1. CASE RunStarts
  <2>1. TurnsKinds'
    BY <1>1 DEF RunStarts, Idle, TurnsTypeOK, TurnsKinds, CallType, NoCall, TurnsNumbers
  <2>2. TurnsFlags'
    BY <1>1 DEF RunStarts, Idle, TurnsTypeOK, TurnsFlags
  <2>3. TurnsNumbers'
    BY <1>1 DEF RunStarts, Idle
  <2>4. ASSUME excused' = {} PROVE TurnsGuarded'
    <3>1. excused = {} /\ TurnsGuarded
      BY <1>1, <2>4 DEF RunStarts, Idle
    <3>2. ~unchecked'
      BY <1>1, <2>4, <3>1 DEF RunStarts, Idle, TurnsGuarded, UncheckedIsBlocked,
         Blocked, CallType, NoCall
    <3>3. RevisionsKnown'
      BY <1>1, <2>4, <3>1 DEF RunStarts, Idle, TurnsGuarded, RevisionsKnown,
         CallType, NoCall
    <3>4. UncheckedIsBlocked'
      BY <1>1, <2>4, <3>1 DEF RunStarts, Idle, TurnsGuarded, UncheckedIsBlocked,
         SavedIsBlocked, RevisionsKnown, EvidenceHolds, StopCounts, stoppedDirty,
         Blocked, CallType, NoCall
    <3>5. SavedIsBlocked'
      BY <1>1, <2>4, <3>1 DEF RunStarts, Idle, TurnsGuarded, UncheckedIsBlocked,
         SavedIsBlocked, RevisionsKnown, EvidenceHolds, StopCounts, stoppedDirty,
         Blocked, CallType, NoCall
    <3>6. EvidenceHolds'
      BY <1>1, <2>4, <3>1 DEF RunStarts, Idle, TurnsGuarded, EvidenceHolds,
         CallType, NoCall
    <3>7. StopCounts'
      BY <1>1, <2>4, <3>1 DEF RunStarts, Idle, TurnsGuarded, UncheckedIsBlocked,
         SavedIsBlocked, RevisionsKnown, stoppedDirty, Blocked, StopCounts,
         CallType, NoCall
    <3> QED BY <3>2, <3>3, <3>4, <3>5, <3>6, <3>7 DEF TurnsGuarded
  <2> QED BY <2>1, <2>2, <2>3, <2>4 DEF TurnsTypeOK
<1>2. ASSUME NEW ok \in BOOLEAN, RunExits(ok) PROVE TurnsInv'
  <2>5. /\ toolCall.tool = "run" /\ revision' = revision + 1 /\ hidden' = FALSE
        /\ toolCall' = [toolCall EXCEPT !.tool = "ran", !.passed = ok, !.moved = FALSE]
        /\ UNCHANGED <<phase, task, batch, halted, stop, server, unseen, saved,
                       changesMade, run, unchecked, excused>>
    BY <1>2 DEF RunExits, Bumps
  <2>6. ok => sound'
    BY <1>2 DEF RunExits
  <2>1. TurnsKinds'
    BY <1>2 DEF RunExits, Bumps, TurnsTypeOK, TurnsKinds, CallType, NoCall, TurnsNumbers
  <2>2. TurnsFlags'
    BY <1>2 DEF RunExits, Bumps, TurnsTypeOK, TurnsFlags
  <2>3. TurnsNumbers'
    BY <2>5, <2>6 DEF TurnsTypeOK, TurnsNumbers
  <2>4. ASSUME excused' = {} PROVE TurnsGuarded'
    <3>1. excused = {} /\ TurnsGuarded
      BY <1>2, <2>4 DEF RunExits, Bumps
    <3>2. ~unchecked'
      BY <2>5, <2>6, <2>4, <3>1 DEF TurnsGuarded, UncheckedIsBlocked, Blocked,
         CallType, NoCall
    <3>3. RevisionsKnown'
      BY <2>5, <2>6, <2>4, <3>1 DEF TurnsGuarded, RevisionsKnown, CallType, NoCall
    <3>4. UncheckedIsBlocked'
      BY <2>5, <2>6, <2>4, <3>1 DEF TurnsGuarded, UncheckedIsBlocked,
         SavedIsBlocked, RevisionsKnown, EvidenceHolds, StopCounts, stoppedDirty,
         Blocked, CallType, NoCall
    <3>5. SavedIsBlocked'
      BY <2>5, <2>6, <2>4, <3>1 DEF TurnsGuarded, UncheckedIsBlocked,
         SavedIsBlocked, RevisionsKnown, EvidenceHolds, StopCounts, stoppedDirty,
         Blocked, CallType, NoCall
    <3>6. EvidenceHolds'
      BY <2>5, <2>6, <2>4, <3>1 DEF TurnsGuarded, EvidenceHolds, CallType, NoCall
    <3>7. StopCounts'
      BY <2>5, <2>6, <2>4, <3>1 DEF TurnsGuarded, UncheckedIsBlocked,
         SavedIsBlocked, RevisionsKnown, stoppedDirty, Blocked, StopCounts,
         CallType, NoCall
    <3> QED BY <3>2, <3>3, <3>4, <3>5, <3>6, <3>7 DEF TurnsGuarded
  <2> QED BY <2>1, <2>2, <2>3, <2>4 DEF TurnsTypeOK
<1>3. CASE RunTimesOut
  <2>1. TurnsKinds'
    BY <1>3 DEF RunTimesOut, TurnsTypeOK, TurnsKinds, CallType, NoCall, TurnsNumbers
  <2>2. TurnsFlags'
    BY <1>3 DEF RunTimesOut, TurnsTypeOK, TurnsFlags
  <2>3. TurnsNumbers'
    BY <1>3 DEF RunTimesOut
  <2>4. ASSUME excused' = {} PROVE TurnsGuarded'
    <3>1. excused = {} /\ TurnsGuarded
      BY <1>3, <2>4 DEF RunTimesOut
    <3>2. ~unchecked'
      BY <1>3, <2>4, <3>1 DEF RunTimesOut, TurnsGuarded, UncheckedIsBlocked,
         Blocked, CallType, NoCall
    <3>3. RevisionsKnown'
      BY <1>3, <2>4, <3>1 DEF RunTimesOut, TurnsGuarded, RevisionsKnown, CallType, NoCall
    <3>4. UncheckedIsBlocked'
      BY <1>3, <2>4, <3>1 DEF RunTimesOut, TurnsGuarded, UncheckedIsBlocked,
         SavedIsBlocked, RevisionsKnown, EvidenceHolds, StopCounts, stoppedDirty,
         Blocked, CallType, NoCall
    <3>5. SavedIsBlocked'
      BY <1>3, <2>4, <3>1 DEF RunTimesOut, TurnsGuarded, UncheckedIsBlocked,
         SavedIsBlocked, RevisionsKnown, EvidenceHolds, StopCounts, stoppedDirty,
         Blocked, CallType, NoCall
    <3>6. EvidenceHolds'
      BY <1>3, <2>4, <3>1 DEF RunTimesOut, TurnsGuarded, EvidenceHolds, CallType, NoCall
    <3>7. StopCounts'
      BY <1>3, <2>4, <3>1 DEF RunTimesOut, TurnsGuarded, UncheckedIsBlocked,
         SavedIsBlocked, RevisionsKnown, stoppedDirty, Blocked, StopCounts,
         CallType, NoCall
    <3> QED BY <3>2, <3>3, <3>4, <3>5, <3>6, <3>7 DEF TurnsGuarded
  <2> QED BY <2>1, <2>2, <2>3, <2>4 DEF TurnsTypeOK
<1>4. CASE RunReturns
  <2>1. TurnsKinds'
    BY <1>4 DEF RunReturns, updateTask, verification, Swallows, TurnsTypeOK,
       TurnsKinds, TaskType, NotChecked, Plans, CallType, NoCall, TurnsNumbers
  <2>2. TurnsFlags'
    BY <1>4 DEF RunReturns, updateTask, verification, Swallows, TurnsTypeOK, TurnsFlags
  <2>3. TurnsNumbers'
    BY <1>4 DEF RunReturns, updateTask, verification, Swallows
  <2>4. ASSUME excused' = {} PROVE TurnsGuarded'
    <3>1. excused = {} /\ TurnsGuarded
      BY <1>4, <2>4 DEF RunReturns, updateTask, verification, Swallows
    <3>2. ~unchecked'
      BY <1>4, <2>4, <3>1 DEF RunReturns, updateTask, verification, Swallows,
         TurnsGuarded, UncheckedIsBlocked, Blocked, TaskType, NotChecked, CallType,
         NoCall
    <3>3. RevisionsKnown'
      BY <1>4, <2>4, <3>1 DEF RunReturns, updateTask, verification, Swallows,
         TurnsGuarded, RevisionsKnown, TaskType, NotChecked, CallType, NoCall
    <3>4. UncheckedIsBlocked'
      BY <1>4, <2>4, <3>1 DEF RunReturns, updateTask, verification, Swallows,
         TurnsGuarded, UncheckedIsBlocked, SavedIsBlocked, RevisionsKnown,
         EvidenceHolds, StopCounts, stoppedDirty, Blocked, TaskType, NotChecked,
         CallType, NoCall
    <3>5. SavedIsBlocked'
      BY <1>4, <2>4, <3>1 DEF RunReturns, updateTask, verification, Swallows,
         TurnsGuarded, UncheckedIsBlocked, SavedIsBlocked, RevisionsKnown,
         EvidenceHolds, StopCounts, stoppedDirty, Blocked, TaskType, NotChecked,
         CallType, NoCall
    <3>6. EvidenceHolds'
      BY <1>4, <2>4, <3>1 DEF RunReturns, updateTask, verification, Swallows,
         TurnsGuarded, EvidenceHolds, TaskType, NotChecked, CallType, NoCall
    <3>7. StopCounts'
      BY <1>4, <2>4, <3>1 DEF RunReturns, updateTask, verification, Swallows,
         TurnsGuarded, UncheckedIsBlocked, SavedIsBlocked, RevisionsKnown,
         stoppedDirty, Blocked, StopCounts, TaskType, NotChecked, CallType, NoCall
    <3> QED BY <3>2, <3>3, <3>4, <3>5, <3>6, <3>7 DEF TurnsGuarded
  <2> QED BY <2>1, <2>2, <2>3, <2>4 DEF TurnsTypeOK
<1>5. CASE RunBackground
  <2>1. TurnsKinds'
    BY <1>5 DEF RunBackground, updateTask, Swallows, Idle, TurnsTypeOK, TurnsKinds,
       TaskType, NotChecked, Plans, TurnsNumbers
  <2>2. TurnsFlags'
    BY <1>5 DEF RunBackground, updateTask, Swallows, Idle, TurnsTypeOK, TurnsFlags
  <2>3. TurnsNumbers'
    BY <1>5 DEF RunBackground, updateTask, Swallows, Idle
  <2>4. ASSUME excused' = {} PROVE TurnsGuarded'
    <3>1. excused = {} /\ TurnsGuarded
      BY <1>5, <2>4 DEF RunBackground, updateTask, Swallows, Idle
    <3>2. ~unchecked'
      BY <1>5, <2>4, <3>1 DEF RunBackground, updateTask, Swallows, Idle,
         TurnsGuarded, UncheckedIsBlocked, Blocked, TaskType, NotChecked
    <3>3. RevisionsKnown'
      BY <1>5, <2>4, <3>1 DEF RunBackground, updateTask, Swallows, Idle,
         TurnsGuarded, RevisionsKnown, TaskType, NotChecked
    <3>4. UncheckedIsBlocked'
      BY <1>5, <2>4, <3>1 DEF RunBackground, updateTask, Swallows, Idle,
         TurnsGuarded, UncheckedIsBlocked, SavedIsBlocked, RevisionsKnown,
         EvidenceHolds, StopCounts, stoppedDirty, Blocked, TaskType, NotChecked
    <3>5. SavedIsBlocked'
      BY <1>5, <2>4, <3>1 DEF RunBackground, updateTask, Swallows, Idle,
         TurnsGuarded, UncheckedIsBlocked, SavedIsBlocked, RevisionsKnown,
         EvidenceHolds, StopCounts, stoppedDirty, Blocked, TaskType, NotChecked
    <3>6. EvidenceHolds'
      BY <1>5, <2>4, <3>1 DEF RunBackground, updateTask, Swallows, Idle,
         TurnsGuarded, EvidenceHolds, TaskType, NotChecked
    <3>7. StopCounts'
      BY <1>5, <2>4, <3>1 DEF RunBackground, updateTask, Swallows, Idle,
         TurnsGuarded, UncheckedIsBlocked, SavedIsBlocked, RevisionsKnown,
         stoppedDirty, Blocked, StopCounts, TaskType, NotChecked
    <3> QED BY <3>2, <3>3, <3>4, <3>5, <3>6, <3>7 DEF TurnsGuarded
  <2> QED BY <2>1, <2>2, <2>3, <2>4 DEF TurnsTypeOK
<1> QED BY <1>1, <1>2, <1>3, <1>4, <1>5

\* The stop of a process.
LEMMA StopKeeps ==
    ASSUME TurnsInv, StopsProcess \/ StopReturns
    PROVE  TurnsInv'
<1> USE TurnsAssumption, TurnsFields
         DEF TurnsInv, TurnsTypeOK, TurnsNumbers, turnsVars, fileVars, pastVars
<1>1. CASE StopsProcess
  <2>1. TurnsKinds'
    BY <1>1 DEF StopsProcess, Bumps, Idle, TurnsTypeOK, TurnsKinds, CallType, NoCall,
       TurnsNumbers
  <2>2. TurnsFlags'
    BY <1>1 DEF StopsProcess, Bumps, Idle, TurnsTypeOK, TurnsFlags
  <2>3. TurnsNumbers'
    BY <1>1 DEF StopsProcess, Bumps, Idle
  <2>4. ASSUME excused' = {} PROVE TurnsGuarded'
    <3>1. excused = {} /\ TurnsGuarded
      BY <1>1, <2>4 DEF StopsProcess, Bumps, Idle
    <3>2. ~unchecked'
      BY <1>1, <2>4, <3>1 DEF StopsProcess, Bumps, Idle, TurnsGuarded,
         UncheckedIsBlocked, Blocked, CallType, NoCall
    <3>3. RevisionsKnown'
      BY <1>1, <2>4, <3>1 DEF StopsProcess, Bumps, Idle, TurnsGuarded,
         RevisionsKnown, CallType, NoCall
    <3>4. UncheckedIsBlocked'
      BY <1>1, <2>4, <3>1 DEF StopsProcess, Bumps, Idle, TurnsGuarded,
         UncheckedIsBlocked, SavedIsBlocked, RevisionsKnown, EvidenceHolds,
         StopCounts, stoppedDirty, Blocked, CallType, NoCall
    <3>5. SavedIsBlocked'
      BY <1>1, <2>4, <3>1 DEF StopsProcess, Bumps, Idle, TurnsGuarded,
         UncheckedIsBlocked, SavedIsBlocked, RevisionsKnown, EvidenceHolds,
         StopCounts, stoppedDirty, Blocked, CallType, NoCall
    <3>6. EvidenceHolds'
      BY <1>1, <2>4, <3>1 DEF StopsProcess, Bumps, Idle, TurnsGuarded,
         EvidenceHolds, CallType, NoCall
    <3>7. StopCounts'
      BY <1>1, <2>4, <3>1 DEF StopsProcess, Bumps, Idle, TurnsGuarded,
         UncheckedIsBlocked, SavedIsBlocked, RevisionsKnown, stoppedDirty, Blocked,
         StopCounts, CallType, NoCall
    <3> QED BY <3>2, <3>3, <3>4, <3>5, <3>6, <3>7 DEF TurnsGuarded
  <2> QED BY <2>1, <2>2, <2>3, <2>4 DEF TurnsTypeOK
<1>2. CASE StopReturns
  <2>1. TurnsKinds'
    BY <1>2 DEF StopReturns, updateTask, stoppedDirty, TurnsTypeOK, TurnsKinds,
       TaskType, NotChecked, Plans, CallType, NoCall, TurnsNumbers
  <2>2. TurnsFlags'
    BY <1>2 DEF StopReturns, updateTask, stoppedDirty, TurnsTypeOK, TurnsFlags
  <2>3. TurnsNumbers'
    BY <1>2 DEF StopReturns, updateTask, stoppedDirty
  <2>5. /\ toolCall.tool = "stop" /\ toolCall'.tool = "none" /\ task'.rev = revision /\ task'.verified = FALSE
        /\ task'.changed = (task.changed \/ stoppedDirty(toolCall))
        /\ UNCHANGED <<revision, hidden, sound, saved>>
    BY <1>2 DEF StopReturns, updateTask, TurnsTypeOK, TurnsKinds, TaskType, NoCall
  <2>4. ASSUME excused' = {} PROVE TurnsGuarded'
    <3>1. excused = {} /\ TurnsGuarded
      BY <1>2, <2>4 DEF StopReturns, updateTask, stoppedDirty
    <3>2. ~unchecked'
      BY <1>2, <2>4, <3>1 DEF StopReturns, updateTask, stoppedDirty, TurnsGuarded,
         UncheckedIsBlocked, Blocked, TaskType, NotChecked, CallType, NoCall
    <3>3. RevisionsKnown'
      BY <1>2, <2>4, <3>1 DEF StopReturns, updateTask, stoppedDirty, TurnsGuarded,
         RevisionsKnown, TaskType, NotChecked, CallType, NoCall
    <3>4. UncheckedIsBlocked'
      BY <2>5, <3>1 DEF TurnsGuarded, StopCounts, SavedIsBlocked,
         UncheckedIsBlocked, Blocked
    <3>5. SavedIsBlocked'
      BY <2>5, <3>1 DEF TurnsGuarded, StopCounts, SavedIsBlocked,
         UncheckedIsBlocked, Blocked
    <3>6. EvidenceHolds'
      BY <1>2, <2>4, <3>1 DEF StopReturns, updateTask, stoppedDirty, TurnsGuarded,
         EvidenceHolds, TaskType, NotChecked, CallType, NoCall
    <3>7. StopCounts'
      BY <1>2, <2>4, <3>1 DEF StopReturns, updateTask, TurnsGuarded,
         UncheckedIsBlocked, SavedIsBlocked, RevisionsKnown, stoppedDirty, Blocked,
         StopCounts, TaskType, NotChecked, CallType, NoCall
    <3> QED BY <3>2, <3>3, <3>4, <3>5, <3>6, <3>7 DEF TurnsGuarded
  <2> QED BY <2>1, <2>2, <2>3, <2>4 DEF TurnsTypeOK
<1> QED BY <1>1, <1>2

\* A resource written into the workspace.
LEMMA ResourceKeeps ==
    ASSUME TurnsInv, Materialize
    PROVE  TurnsInv'
<1> USE TurnsAssumption, TurnsFields
         DEF TurnsInv, TurnsTypeOK, TurnsNumbers, turnsVars, fileVars, pastVars
<1>1. CASE Materialize
  <2>5. revision' \in Nat /\ revision' = revision + 1
    BY <1>1 DEF Materialize, Bumps
  <2>1. TurnsKinds'
    BY <1>1, <2>5 DEF Materialize, updateTask, Idle, TurnsTypeOK, TurnsKinds,
       TaskType, NotChecked, Plans
  <2>2. TurnsFlags'
    BY <1>1 DEF Materialize, Changes, Bumps, updateTask, Idle, TurnsTypeOK, TurnsFlags
  <2>3. TurnsNumbers'
    BY <1>1 DEF Materialize, Changes, Bumps, updateTask, Idle
  <2>4. ASSUME excused' = {} PROVE TurnsGuarded'
    <3>1. excused = {} /\ TurnsGuarded
      BY <1>1, <2>4 DEF Materialize, Changes, Bumps, updateTask, Idle
    <3>2. ~unchecked'
      BY <1>1, <2>4, <3>1 DEF Materialize, Changes, Bumps, updateTask, Idle,
         TurnsGuarded, UncheckedIsBlocked, Blocked, TaskType, NotChecked
    <3>3. RevisionsKnown'
      BY <1>1, <2>4, <3>1 DEF Materialize, Changes, Bumps, updateTask, Idle,
         TurnsGuarded, RevisionsKnown, TaskType, NotChecked
    <3>4. UncheckedIsBlocked'
      BY <1>1, <2>4, <3>1 DEF Materialize, Changes, Bumps, updateTask, Idle,
         TurnsGuarded, UncheckedIsBlocked, SavedIsBlocked, RevisionsKnown,
         EvidenceHolds, StopCounts, stoppedDirty, Blocked, TaskType, NotChecked
    <3>5. SavedIsBlocked'
      BY <1>1, <2>4, <3>1 DEF Materialize, Changes, Bumps, updateTask, Idle,
         TurnsGuarded, UncheckedIsBlocked, SavedIsBlocked, RevisionsKnown,
         EvidenceHolds, StopCounts, stoppedDirty, Blocked, TaskType, NotChecked
    <3>6. EvidenceHolds'
      BY <1>1, <2>4, <3>1 DEF Materialize, Changes, Bumps, updateTask, Idle,
         TurnsGuarded, EvidenceHolds, TaskType, NotChecked
    <3>7. StopCounts'
      BY <1>1, <2>4, <3>1 DEF Materialize, Changes, Bumps, updateTask, Idle,
         TurnsGuarded, UncheckedIsBlocked, SavedIsBlocked, RevisionsKnown,
         stoppedDirty, Blocked, StopCounts, TaskType, NotChecked
    <3> QED BY <3>2, <3>3, <3>4, <3>5, <3>6, <3>7 DEF TurnsGuarded
  <2> QED BY <2>1, <2>2, <2>3, <2>4 DEF TurnsTypeOK
<1> QED BY <1>1

\* The gate, and the tools that only end a turn.
LEMMA GateKeeps ==
    ASSUME TurnsInv, CompleteTask \/ Ask \/ OtherTool
    PROVE  TurnsInv'
<1> USE TurnsAssumption, TurnsFields
         DEF TurnsInv, TurnsTypeOK, TurnsNumbers, turnsVars, fileVars, pastVars
<1>1. CASE CompleteTask
  <2>1. TurnsKinds'
    BY <1>1 DEF CompleteTask, updateTask, gateTask, gateAnswer, gate, planDone, Idle,
       TurnsTypeOK, TurnsKinds, TaskType, NotChecked, Plans, TurnsNumbers
  <2>2. TurnsFlags'
    BY <1>1 DEF CompleteTask, updateTask, gateTask, gateAnswer, gate, planDone, Idle,
       TurnsTypeOK, TurnsFlags
  <2>3. TurnsNumbers'
    BY <1>1 DEF CompleteTask, updateTask, gateTask, gateAnswer, gate, planDone, Idle
  <2>4. ASSUME excused' = {} PROVE TurnsGuarded'
    <3>1. excused = {} /\ TurnsGuarded
      BY <1>1, <2>4 DEF CompleteTask, updateTask, gateTask, gateAnswer, gate,
         planDone, Idle
    <3>2. ~unchecked'
      <4>1. CASE planDone(task) /\ gateAnswer(task)
        <5>1. hidden = FALSE
          BY <1>1, <2>4, <4>1 DEF CompleteTask, TurnsTypeOK, TurnsFlags
        <5>2. run.shell /\ run.role = "root" => ~Blocked(task, revision)
          <6> SUFFICES ASSUME run.shell, run.role = "root" PROVE ~Blocked(task, revision)
            OBVIOUS
          <6>1. gate(task)
            BY <4>1 DEF gateAnswer
          <6>2. task.rev = revision
            BY <6>1 DEF gate, gateTask, TurnsTypeOK, TurnsKinds, TaskType
          <6> QED BY <6>1, <6>2 DEF gate, gateTask, Blocked
        <5>3. unchecked' = (unchecked \/ (run.shell /\ run.role = "root" /\ ~sound))
          BY <1>1, <4>1 DEF CompleteTask
        <5> QED BY <3>1, <5>1, <5>2, <5>3 DEF TurnsGuarded, UncheckedIsBlocked
      <4>2. CASE ~(planDone(task) /\ gateAnswer(task))
        BY <1>1, <3>1, <4>2 DEF CompleteTask, TurnsGuarded
      <4> QED BY <4>1, <4>2
    <3>3. RevisionsKnown'
      BY <1>1, <2>4, <3>1 DEF CompleteTask, updateTask, gateTask, gateAnswer, gate,
         planDone, Idle, TurnsGuarded, RevisionsKnown, TaskType, NotChecked
    <3>4. UncheckedIsBlocked'
      BY <1>1, <2>4, <3>1 DEF CompleteTask, updateTask, gateTask, gateAnswer, gate,
         planDone, Idle, TurnsGuarded, UncheckedIsBlocked, SavedIsBlocked,
         RevisionsKnown, EvidenceHolds, StopCounts, stoppedDirty, Blocked, TaskType,
         NotChecked
    <3>5. SavedIsBlocked'
      BY <1>1, <2>4, <3>1 DEF CompleteTask, updateTask, gateTask, gateAnswer, gate,
         planDone, Idle, TurnsGuarded, UncheckedIsBlocked, SavedIsBlocked,
         RevisionsKnown, EvidenceHolds, StopCounts, stoppedDirty, Blocked, TaskType,
         NotChecked
    <3>6. EvidenceHolds'
      BY <1>1, <2>4, <3>1 DEF CompleteTask, updateTask, gateTask, gateAnswer, gate,
         planDone, Idle, TurnsGuarded, EvidenceHolds, TaskType, NotChecked
    <3>7. StopCounts'
      BY <1>1, <2>4, <3>1 DEF CompleteTask, updateTask, gateTask, gateAnswer, gate,
         planDone, Idle, TurnsGuarded, UncheckedIsBlocked, SavedIsBlocked,
         RevisionsKnown, stoppedDirty, Blocked, StopCounts, TaskType, NotChecked
    <3> QED BY <3>2, <3>3, <3>4, <3>5, <3>6, <3>7 DEF TurnsGuarded
  <2> QED BY <2>1, <2>2, <2>3, <2>4 DEF TurnsTypeOK
<1>2. CASE Ask
  <2>1. TurnsKinds'
    BY <1>2 DEF Ask, Idle, TurnsTypeOK, TurnsKinds
  <2>2. TurnsFlags'
    BY <1>2 DEF Ask, Idle, TurnsTypeOK, TurnsFlags
  <2>3. TurnsNumbers'
    BY <1>2 DEF Ask, Idle
  <2>4. ASSUME excused' = {} PROVE TurnsGuarded'
    <3>1. excused = {} /\ TurnsGuarded
      BY <1>2, <2>4 DEF Ask, Idle
    <3>2. ~unchecked'
      BY <1>2, <2>4, <3>1 DEF Ask, Idle, TurnsGuarded, UncheckedIsBlocked, Blocked
    <3>3. RevisionsKnown'
      BY <1>2, <2>4, <3>1 DEF Ask, Idle, TurnsGuarded, RevisionsKnown
    <3>4. UncheckedIsBlocked'
      BY <1>2, <2>4, <3>1 DEF Ask, Idle, TurnsGuarded, UncheckedIsBlocked,
         SavedIsBlocked, RevisionsKnown, EvidenceHolds, StopCounts, stoppedDirty,
         Blocked
    <3>5. SavedIsBlocked'
      BY <1>2, <2>4, <3>1 DEF Ask, Idle, TurnsGuarded, UncheckedIsBlocked,
         SavedIsBlocked, RevisionsKnown, EvidenceHolds, StopCounts, stoppedDirty,
         Blocked
    <3>6. EvidenceHolds'
      BY <1>2, <2>4, <3>1 DEF Ask, Idle, TurnsGuarded, EvidenceHolds
    <3>7. StopCounts'
      BY <1>2, <2>4, <3>1 DEF Ask, Idle, TurnsGuarded, UncheckedIsBlocked,
         SavedIsBlocked, RevisionsKnown, stoppedDirty, Blocked, StopCounts
    <3> QED BY <3>2, <3>3, <3>4, <3>5, <3>6, <3>7 DEF TurnsGuarded
  <2> QED BY <2>1, <2>2, <2>3, <2>4 DEF TurnsTypeOK
<1>3. CASE OtherTool
  <2>1. TurnsKinds'
    BY <1>3 DEF OtherTool, Idle, TurnsTypeOK, TurnsKinds
  <2>2. TurnsFlags'
    BY <1>3 DEF OtherTool, Idle, TurnsTypeOK, TurnsFlags
  <2>3. TurnsNumbers'
    BY <1>3 DEF OtherTool, Idle
  <2>4. ASSUME excused' = {} PROVE TurnsGuarded'
    <3>1. excused = {} /\ TurnsGuarded
      BY <1>3, <2>4 DEF OtherTool, Idle
    <3>2. ~unchecked'
      BY <1>3, <2>4, <3>1 DEF OtherTool, Idle, TurnsGuarded, UncheckedIsBlocked, Blocked
    <3>3. RevisionsKnown'
      BY <1>3, <2>4, <3>1 DEF OtherTool, Idle, TurnsGuarded, RevisionsKnown
    <3>4. UncheckedIsBlocked'
      BY <1>3, <2>4, <3>1 DEF OtherTool, Idle, TurnsGuarded, UncheckedIsBlocked,
         SavedIsBlocked, RevisionsKnown, EvidenceHolds, StopCounts, stoppedDirty,
         Blocked
    <3>5. SavedIsBlocked'
      BY <1>3, <2>4, <3>1 DEF OtherTool, Idle, TurnsGuarded, UncheckedIsBlocked,
         SavedIsBlocked, RevisionsKnown, EvidenceHolds, StopCounts, stoppedDirty,
         Blocked
    <3>6. EvidenceHolds'
      BY <1>3, <2>4, <3>1 DEF OtherTool, Idle, TurnsGuarded, EvidenceHolds
    <3>7. StopCounts'
      BY <1>3, <2>4, <3>1 DEF OtherTool, Idle, TurnsGuarded, UncheckedIsBlocked,
         SavedIsBlocked, RevisionsKnown, stoppedDirty, Blocked, StopCounts
    <3> QED BY <3>2, <3>3, <3>4, <3>5, <3>6, <3>7 DEF TurnsGuarded
  <2> QED BY <2>1, <2>2, <2>3, <2>4 DEF TurnsTypeOK
<1> QED BY <1>1, <1>2, <1>3

\* A reload and the resumption after it.
LEMMA ReloadKeeps ==
    ASSUME TurnsInv, Crash \/ Resume
    PROVE  TurnsInv'
<1> USE TurnsAssumption, TurnsFields
         DEF TurnsInv, TurnsTypeOK, TurnsNumbers, turnsVars, fileVars, pastVars
<1>1. CASE Crash
  <2>1. TurnsKinds'
    BY <1>1 DEF Crash, TurnsTypeOK, TurnsKinds, CallType, NoCall, TurnsNumbers, TurnsFlags
  <2>2. TurnsFlags'
    BY <1>1 DEF Crash, TurnsTypeOK, TurnsFlags
  <2>3. TurnsNumbers'
    BY <1>1 DEF Crash
  <2>4. ASSUME excused' = {} PROVE TurnsGuarded'
    <3>1. excused = {} /\ TurnsGuarded
      BY <1>1, <2>4 DEF Crash
    <3>2. ~unchecked'
      BY <1>1, <2>4, <3>1 DEF Crash, TurnsGuarded, UncheckedIsBlocked, Blocked,
         CallType, NoCall
    <3>3. RevisionsKnown'
      BY <1>1, <2>4, <3>1 DEF Crash, TurnsGuarded, RevisionsKnown, CallType, NoCall
    <3>4. UncheckedIsBlocked'
      BY <1>1, <2>4, <3>1 DEF Crash, TurnsGuarded, UncheckedIsBlocked,
         SavedIsBlocked, RevisionsKnown, EvidenceHolds, StopCounts, stoppedDirty,
         Blocked, CallType, NoCall
    <3>5. SavedIsBlocked'
      BY <1>1, <2>4, <3>1 DEF Crash, TurnsGuarded, UncheckedIsBlocked,
         SavedIsBlocked, RevisionsKnown, EvidenceHolds, StopCounts, stoppedDirty,
         Blocked, CallType, NoCall
    <3>6. EvidenceHolds'
      BY <1>1, <2>4, <3>1 DEF Crash, TurnsGuarded, EvidenceHolds, CallType, NoCall
    <3>7. StopCounts'
      BY <1>1, <2>4, <3>1 DEF Crash, TurnsGuarded, UncheckedIsBlocked,
         SavedIsBlocked, RevisionsKnown, stoppedDirty, Blocked, StopCounts,
         CallType, NoCall
    <3> QED BY <3>2, <3>3, <3>4, <3>5, <3>6, <3>7 DEF TurnsGuarded
  <2> QED BY <2>1, <2>2, <2>3, <2>4 DEF TurnsTypeOK
<1>2. CASE Resume
  <2>1. TurnsKinds'
    BY <1>2 DEF Resume, rebuilt, TurnsTypeOK, TurnsKinds, TaskType, NotChecked, Plans,
       TurnsNumbers
  <2>2. TurnsFlags'
    BY <1>2 DEF Resume, rebuilt, TurnsTypeOK, TurnsFlags
  <2>3. TurnsNumbers'
    BY <1>2 DEF Resume, rebuilt
  <2>4. ASSUME excused' = {} PROVE TurnsGuarded'
    <3>1. excused = {} /\ TurnsGuarded
      BY <1>2, <2>4 DEF Resume, rebuilt
    <3>2. ~unchecked'
      BY <1>2, <2>4, <3>1 DEF Resume, rebuilt, TurnsGuarded, UncheckedIsBlocked,
         Blocked, TaskType, NotChecked
    <3>3. RevisionsKnown'
      BY <1>2, <2>4, <3>1 DEF Resume, rebuilt, TurnsGuarded, RevisionsKnown,
         TaskType, NotChecked
    <3>4. UncheckedIsBlocked'
      BY <1>2, <2>4, <3>1 DEF Resume, rebuilt, TurnsGuarded, UncheckedIsBlocked,
         SavedIsBlocked, RevisionsKnown, EvidenceHolds, StopCounts, stoppedDirty,
         Blocked, TaskType, NotChecked
    <3>5. SavedIsBlocked'
      BY <1>2, <2>4, <3>1 DEF Resume, rebuilt, TurnsGuarded, UncheckedIsBlocked,
         SavedIsBlocked, RevisionsKnown, EvidenceHolds, StopCounts, stoppedDirty,
         Blocked, TaskType, NotChecked
    <3>6. EvidenceHolds'
      BY <1>2, <2>4, <3>1 DEF Resume, rebuilt, TurnsGuarded, EvidenceHolds,
         TaskType, NotChecked
    <3>7. StopCounts'
      BY <1>2, <2>4, <3>1 DEF Resume, rebuilt, TurnsGuarded, UncheckedIsBlocked,
         SavedIsBlocked, RevisionsKnown, stoppedDirty, Blocked, StopCounts,
         TaskType, NotChecked
    <3> QED BY <3>2, <3>3, <3>4, <3>5, <3>6, <3>7 DEF TurnsGuarded
  <2> QED BY <2>1, <2>2, <2>3, <2>4 DEF TurnsTypeOK
<1> QED BY <1>1, <1>2

LEMMA TurnsStep == TurnsInv /\ [TurnsNext]_turnsVars => TurnsInv'
<1> SUFFICES ASSUME TurnsInv, [TurnsNext]_turnsVars PROVE TurnsInv'
  OBVIOUS
<1>1. CASE UNCHANGED turnsVars
  BY <1>1 DEF turnsVars, TurnsInv, TurnsTypeOK, TurnsKinds, TurnsFlags, TurnsNumbers,
     TurnsGuarded, RevisionsKnown, UncheckedIsBlocked, SavedIsBlocked, EvidenceHolds,
     StopCounts, Blocked, stoppedDirty
<1> QED
  BY <1>1, WorkspaceKeeps, TurnKeeps, CommandKeeps, StopKeeps, ResourceKeeps, GateKeeps,
     ReloadKeeps DEF TurnsNext

\* However changes by others, commands, snapshots and reloads interleave with
\* the turns: but for the four excused cases, complete_task ends a root's run
\* only with a workspace that was checked or is as the run found it.
THEOREM GatedStaysChecked == TurnsSpec => []GatedIsChecked
<1>1. TurnsInv => GatedIsChecked
  BY DEF TurnsInv, TurnsGuarded, GatedIsChecked
<1> QED BY <1>1, TurnsStart, TurnsStep, PTL DEF TurnsSpec

-----------------------------------------------------------------------------
(***************************************************************************)
(* The scroll position.                                                    *)
(***************************************************************************)

ScrollNumbers ==
    /\ client \in Nat /\ height \in Nat /\ top \in Nat /\ lastTop \in Nat
    /\ top <= BottomOf(height, client)
    /\ positions \in [Views -> Nat \cup {NoPosition}] /\ viewShown \in Views

ScrollKinds ==
    /\ mode \in {"following", "detached", "returning"}
    /\ frame = TRUE <=> mode = "returning"
    /\ mode = "following" => shortcutHidden = TRUE
    /\ readerAway = TRUE => mode = "detached"

\* The mode of a position, once its events are delivered.
ModeHolds(m, hid, t, h, c) ==
    /\ m = "following" => distanceFromBottom(t, h, c) <= Edge
    /\ m = "detached" => hid = near(t, h, c)
ScrollModes == ~scrolled /\ ~observed /\ ~covered => ModeHolds(mode, shortcutHidden, top, height, client)

ScrollInv == ScrollNumbers /\ ScrollKinds /\ ScrollModes

LEMMA BottomIsNat ==
    ASSUME NEW h \in Nat, NEW c \in Nat
    PROVE  BottomOf(h, c) \in Nat /\ distanceFromBottom(BottomOf(h, c), h, c) = 0
BY DEF BottomOf, distanceFromBottom

LEMMA ScrollStart == ScrollInit => ScrollInv
<1> SUFFICES ASSUME ScrollInit PROVE ScrollInv
  OBVIOUS
<1>1. client \in Nat /\ height \in Nat /\ top = BottomOf(height, client)
  BY ScrollAssumption DEF ScrollInit
<1>2. BottomOf(height, client) \in Nat /\ distanceFromBottom(BottomOf(height, client), height, client) = 0
  BY <1>1, BottomIsNat
<1>3. ScrollNumbers
  BY <1>1, <1>2 DEF ScrollInit, ScrollNumbers
<1>4. ScrollKinds
  BY DEF ScrollInit, ScrollKinds
<1>5. ScrollModes
  BY <1>1, <1>2, ScrollAssumption DEF ScrollInit, ScrollModes, ModeHolds
<1> QED BY <1>3, <1>4, <1>5 DEF ScrollInv

\* The browser keeps a position within the content.
LEMMA ScrollsWithin ==
    ASSUME NEW t \in Nat, NEW h \in Nat, NEW c \in Nat, ScrollsTo(t, h, c)
    PROVE  /\ top' \in Nat /\ top' <= BottomOf(h, c)
           /\ top' = IF t > BottomOf(h, c) THEN BottomOf(h, c) ELSE t
<1>1. BottomOf(h, c) \in Nat
  BY BottomIsNat
<1>2. top' = IF t > BottomOf(h, c) THEN BottomOf(h, c) ELSE t
  BY DEF ScrollsTo
<1> QED BY <1>1, <1>2

LEMMA ScrollsToEnd ==
    ASSUME NEW h \in Nat, NEW c \in Nat, ScrollsTo(BottomOf(h, c), h, c)
    PROVE  top' = BottomOf(h, c) /\ top' \in Nat /\ distanceFromBottom(top', h, c) = 0
<1>1. BottomOf(h, c) \in Nat /\ distanceFromBottom(BottomOf(h, c), h, c) = 0
  BY BottomIsNat
<1>2. top' = BottomOf(h, c)
  BY <1>1, ScrollsWithin
<1> QED BY <1>1, <1>2

\* What the reader's view is moved by.
Still == top' = IF top > BottomOf(height', client') THEN BottomOf(height', client') ELSE top

LEMMA RendersKeeps == ScrollInv /\ (Renders \/ Grows \/ Observes \/ Resizes)
                         => ScrollInv' /\ (readerAway => Still)
<1> SUFFICES ASSUME ScrollInv, Renders \/ Grows \/ Observes \/ Resizes
             PROVE  ScrollInv' /\ (readerAway => Still)
  OBVIOUS
<1> USE ScrollAssumption DEF ScrollInv, ScrollNumbers
<1>1. CASE Renders
  <2>1. PICK h \in 0..MaxHeight : /\ height' = h /\ observed' = (observed \/ h # height)
                                  /\ Tracks(h, client, followsNow)
    BY <1>1 DEF Renders
  <2>2. h \in Nat /\ client' = client /\ mode' = mode /\ frame' = frame
        /\ viewShown' = viewShown /\ positions' = positions /\ readerAway' = readerAway
    BY <1>1, <2>1 DEF Renders
  <2>3. CASE mode = "following"
    <3>1. ScrollsTo(BottomOf(h, client), h, client) /\ lastTop' = top' /\ shortcutHidden' = TRUE
      BY <2>1, <2>3 DEF Tracks, followsNow
    <3>2. top' = BottomOf(h, client) /\ top' \in Nat /\ distanceFromBottom(top', h, client) = 0
      BY <2>2, <3>1, ScrollsToEnd
    <3>3. ScrollNumbers'
      BY <2>1, <2>2, <3>1, <3>2
    <3>4. ScrollKinds'
      BY <2>2, <2>3, <3>1 DEF ScrollKinds
    <3>5. ScrollModes'
      BY <2>1, <2>2, <2>3, <3>2 DEF ScrollModes, ModeHolds
    <3> QED BY <2>3, <3>3, <3>4, <3>5 DEF ScrollKinds
  <2>4. CASE mode # "following"
    <3>1. /\ ScrollsTo(top, h, client) /\ lastTop' = lastTop
          /\ shortcutHidden' = IF mode = "detached" THEN near(top', h, client) ELSE shortcutHidden
      BY <2>1, <2>4 DEF Tracks, followsNow
    <3>2. top' \in Nat /\ top' <= BottomOf(h, client)
          /\ top' = IF top > BottomOf(h, client) THEN BottomOf(h, client) ELSE top
      BY <2>2, <3>1, ScrollsWithin
    <3>3. ScrollNumbers'
      BY <2>1, <2>2, <3>1, <3>2
    <3>4. ScrollKinds'
      BY <2>2, <2>4, <3>1 DEF ScrollKinds
    <3>5. ScrollModes'
      BY <2>1, <2>2, <2>4, <3>1 DEF ScrollModes, ModeHolds
    <3>6. Still
      BY <2>1, <2>2, <3>2 DEF Still
    <3> QED BY <3>3, <3>4, <3>5, <3>6
  <2> QED BY <2>3, <2>4
<1>2. CASE Grows
  <2>1. PICK h \in 0..MaxHeight \ {height} : height' = h /\ ScrollsTo(top, h, client)
    BY <1>2 DEF Grows
  <2>2. h \in Nat /\ observed' = TRUE
        /\ UNCHANGED <<client, mode, lastTop, shortcutHidden, frame, viewShown, positions, readerAway>>
    BY <1>2, <2>1 DEF Grows
  <2>3. top' \in Nat /\ top' <= BottomOf(h, client)
        /\ top' = IF top > BottomOf(h, client) THEN BottomOf(h, client) ELSE top
    BY <2>1, <2>2, ScrollsWithin
  <2>4. ScrollNumbers' /\ Still
    BY <2>1, <2>2, <2>3 DEF Still
  <2>5. ScrollKinds'
    BY <2>2 DEF ScrollKinds
  <2>6. ScrollModes'
    BY <2>2 DEF ScrollModes
  <2> QED BY <2>4, <2>5, <2>6
<1>3. CASE Observes
  <2>1. Tracks(height, client, observedNow)
    BY <1>3 DEF Observes
  <2>2. UNCHANGED <<client, height, mode, frame, viewShown, positions, readerAway>>
    BY <1>3 DEF Observes
  <2>3. CASE mode = "following"
    <3>1. ScrollsTo(BottomOf(height, client), height, client) /\ lastTop' = top' /\ shortcutHidden' = TRUE
      BY <2>1, <2>3 DEF Tracks, observedNow
    <3>2. top' = BottomOf(height, client) /\ top' \in Nat /\ distanceFromBottom(top', height, client) = 0
      BY <2>2, <3>1, ScrollsToEnd
    <3>3. ScrollNumbers'
      BY <2>1, <2>2, <3>1, <3>2
    <3>4. ScrollKinds'
      BY <2>2, <2>3, <3>1 DEF ScrollKinds
    <3>5. ScrollModes'
      BY <2>2, <2>3, <3>2 DEF ScrollModes, ModeHolds
    <3> QED BY <2>3, <3>3, <3>4, <3>5 DEF ScrollKinds
  <2>4. CASE mode # "following"
    <3>1. /\ ScrollsTo(top, height, client) /\ lastTop' = lastTop
          /\ shortcutHidden' = IF mode = "detached" THEN near(top', height, client) ELSE shortcutHidden
      BY <2>1, <2>4 DEF Tracks, observedNow
    <3>2. top' \in Nat /\ top' <= BottomOf(height, client)
          /\ top' = IF top > BottomOf(height, client) THEN BottomOf(height, client) ELSE top
      BY <2>2, <3>1, ScrollsWithin
    <3>3. ScrollNumbers'
      BY <2>2, <3>1, <3>2
    <3>4. ScrollKinds'
      BY <2>2, <2>4, <3>1 DEF ScrollKinds
    <3>5. ScrollModes'
      BY <2>2, <2>4, <3>1 DEF ScrollModes, ModeHolds
    <3>6. Still
      BY <2>2, <3>2 DEF Still
    <3> QED BY <3>3, <3>4, <3>5, <3>6
  <2> QED BY <2>3, <2>4
<1>4. CASE Resizes
  <2>1. PICK c \in Clients \ {client} : client' = c /\ ScrollsTo(top, height, c) /\ covered' = TRUE
    BY <1>4 DEF Resizes
  <2>2. c \in Nat
        /\ UNCHANGED <<height, mode, lastTop, shortcutHidden, frame, viewShown, positions, readerAway>>
    BY <1>4, <2>1 DEF Resizes
  <2>3. top' \in Nat /\ top' <= BottomOf(height, c)
        /\ top' = IF top > BottomOf(height, c) THEN BottomOf(height, c) ELSE top
    BY <2>1, <2>2, ScrollsWithin
  <2>4. ScrollNumbers' /\ Still
    BY <2>1, <2>2, <2>3 DEF Still
  <2>5. ScrollKinds'
    BY <2>2 DEF ScrollKinds
  <2>6. ScrollModes'
    BY <2>1 DEF ScrollModes
  <2> QED BY <2>4, <2>5, <2>6
<1> QED BY <1>1, <1>2, <1>3, <1>4

\* A step that leaves the position, the content and its visible part alone.
LEMMA StaysStill ==
    ASSUME ScrollNumbers, UNCHANGED <<client, height, top, viewShown, positions>>, lastTop' \in Nat
    PROVE  ScrollNumbers' /\ Still
<1>1. BottomOf(height, client) \in Nat
  BY BottomIsNat DEF ScrollNumbers
<1>2. height' = height /\ client' = client /\ top' = top
  OBVIOUS
<1>3. Still
  BY <1>1, <1>2 DEF ScrollNumbers, Still
<1> QED BY <1>2, <1>3 DEF ScrollNumbers

LEMMA InputKeeps == ScrollInv /\ (Up \/ Down \/ Grabs \/ LetsGo) => ScrollInv' /\ Still
<1> SUFFICES ASSUME ScrollInv, Up \/ Down \/ Grabs \/ LetsGo PROVE ScrollInv' /\ Still
  OBVIOUS
<1>1. UNCHANGED <<client, height, top, lastTop, scrolled, observed, viewShown, positions>>
  BY DEF Up, Down, Grabs, LetsGo
<1>2. ScrollNumbers' /\ Still
  BY <1>1, StaysStill DEF ScrollInv, ScrollNumbers
<1>3. CASE mode' = "detached" /\ frame' = FALSE /\ shortcutHidden' = near(top, height, client)
  BY <1>1, <1>2, <1>3 DEF ScrollInv, ScrollKinds, ScrollModes, ModeHolds
<1>4. CASE UNCHANGED <<mode, frame, shortcutHidden, readerAway>> /\ (~covered' => ~covered)
  BY <1>1, <1>2, <1>4 DEF ScrollInv, ScrollKinds, ScrollModes
<1>5. CASE Up
  BY <1>3, <1>5 DEF Up, Detaches
<1>6. CASE Down \/ Grabs
  <2>1. CASE mode = "returning"
    BY <1>3, <1>6, <2>1 DEF Down, Grabs, Detaches
  <2>2. CASE mode # "returning"
    BY <1>4, <1>6, <2>2 DEF Down, Grabs
  <2> QED BY <2>1, <2>2
<1>7. CASE LetsGo
  BY <1>4, <1>7 DEF LetsGo
<1> QED BY <1>5, <1>6, <1>7

LEMMA ScrollsKeeps == ScrollInv /\ Scrolls => ScrollInv'
<1> SUFFICES ASSUME ScrollInv, Scrolls PROVE ScrollInv'
  OBVIOUS
<1>1. PICK t \in 0..bottom : t # top /\ ScrollsTo(t, height, client)
  BY BottomIsNat DEF Scrolls, ScrollInv, ScrollNumbers, bottom
<1>2. UNCHANGED <<client, height, mode, lastTop, shortcutHidden, frame, viewShown, positions, readerAway>>
  BY DEF Scrolls
<1>3. t \in Nat /\ ~(t > BottomOf(height, client))
  BY <1>1, BottomIsNat DEF bottom, ScrollInv, ScrollNumbers
<1>4. top' = t /\ scrolled'
  BY <1>1, <1>3, BottomIsNat DEF ScrollsTo
<1>5. ScrollNumbers'
  <2>1. BottomOf(height, client) \in Nat
    BY BottomIsNat DEF ScrollInv, ScrollNumbers
  <2> QED BY <1>2, <1>3, <1>4, <2>1 DEF ScrollInv, ScrollNumbers
<1> QED BY <1>2, <1>4, <1>5 DEF ScrollInv, ScrollKinds, ScrollModes

LEMMA OnScrollKeeps == ScrollInv /\ OnScroll => ScrollInv' /\ (readerAway => Still)
<1> SUFFICES ASSUME ScrollInv, OnScroll PROVE ScrollInv' /\ (readerAway => Still)
  OBVIOUS
<1>1. UNCHANGED <<client, height, viewShown, positions, observed>> /\ covered' = (covered /\ mode = "returning")
  BY DEF OnScroll
<1>2. ASSUME UNCHANGED top, lastTop' = top PROVE ScrollNumbers' /\ Still
  BY <1>1, <1>2, StaysStill DEF ScrollInv, ScrollNumbers
<1>3. CASE mode = "returning" /\ lastTop' = top /\ UNCHANGED <<top, mode, frame, shortcutHidden, readerAway>>
  BY <1>2, <1>3 DEF ScrollInv, ScrollKinds, ScrollModes, ModeHolds
<1>4. CASE Detaches /\ lastTop' = top /\ UNCHANGED top
  BY <1>1, <1>2, <1>4 DEF ScrollInv, ScrollKinds, ScrollModes, ModeHolds, Detaches
<1>5. CASE mode = "following" /\ Corrects /\ UNCHANGED <<mode, frame, readerAway>>
  <2>1. bottom \in Nat /\ distanceFromBottom(bottom, height, client) = 0
    BY BottomIsNat DEF bottom, ScrollInv, ScrollNumbers
  <2>2. ScrollNumbers'
    BY <1>1, <1>5, <2>1 DEF Corrects, ScrollInv, ScrollNumbers, bottom
  <2>3. ScrollKinds'
    BY <1>5 DEF Corrects, ScrollInv, ScrollKinds
  <2>4. ScrollModes'
    BY <1>1, <1>5, <2>1, ScrollAssumption DEF Corrects, ScrollModes, ModeHolds
  <2> QED BY <1>5, <2>2, <2>3, <2>4 DEF ScrollInv, ScrollKinds
<1>6. CASE /\ atEdge /\ mode # "returning" /\ mode' = "following" /\ shortcutHidden' = TRUE
           /\ readerAway' = FALSE /\ lastTop' = top /\ UNCHANGED <<top, frame>>
  BY <1>1, <1>2, <1>6 DEF ScrollInv, ScrollKinds, ScrollModes, ModeHolds, atEdge
<1>7. CASE /\ mode = "detached" /\ shortcutHidden' = near(top, height, client) /\ lastTop' = top
           /\ UNCHANGED <<top, mode, frame, readerAway>>
  BY <1>1, <1>2, <1>7 DEF ScrollInv, ScrollKinds, ScrollModes, ModeHolds
<1> QED BY <1>3, <1>4, <1>5, <1>6, <1>7 DEF OnScroll

LEMMA ReturnsKeep ==
    ScrollInv /\ (FollowLatest \/ ScrollToBottom \/ Step \/ Selects)
        => ScrollInv' /\ ~(readerAway /\ readerAway')
<1> SUFFICES ASSUME ScrollInv, FollowLatest \/ ScrollToBottom \/ Step \/ Selects
             PROVE  ScrollInv' /\ ~(readerAway /\ readerAway')
  OBVIOUS
<1>0. bottom \in Nat /\ distanceFromBottom(bottom, height, client) = 0 /\ bottom = BottomOf(height, client)
  BY BottomIsNat DEF bottom, ScrollInv, ScrollNumbers
<1>1. CASE FollowLatest
  <2>1. ScrollsTo(bottom, height, client) /\ UNCHANGED <<client, height, viewShown, positions>> /\ lastTop' = top'
    BY <1>1 DEF FollowLatest
  <2>2. top' = bottom
    BY <1>0, <2>1 DEF ScrollsTo
  <2>3. ScrollNumbers'
    BY <1>0, <2>1, <2>2 DEF ScrollInv, ScrollNumbers
  <2>4. ScrollKinds' /\ ~readerAway'
    BY <1>1 DEF FollowLatest, ScrollKinds
  <2>5. ScrollModes'
    BY <1>0, <1>1, <2>1, <2>2, ScrollAssumption DEF FollowLatest, ScrollModes, ModeHolds
  <2> QED BY <2>3, <2>4, <2>5 DEF ScrollInv
<1>2. CASE ScrollToBottom
  <2>1. UNCHANGED <<client, height, top, lastTop, viewShown, positions>>
    BY <1>2 DEF ScrollToBottom
  <2>2. ScrollNumbers'
    BY <2>1, StaysStill DEF ScrollInv, ScrollNumbers
  <2>3. ScrollKinds' /\ ScrollModes' /\ ~readerAway'
    BY <1>2 DEF ScrollToBottom, ScrollKinds, ScrollModes, ModeHolds
  <2> QED BY <2>2, <2>3 DEF ScrollInv
<1>3. CASE Step
  <2>1. PICK t \in 0..bottom :
          /\ ScrollsTo(t, height, client) /\ lastTop' = t
          /\ frame' = (t # bottom)
          /\ mode' = IF t = bottom THEN "following" ELSE mode
          /\ shortcutHidden' = (t = bottom \/ near(t, height, client))
    BY <1>3 DEF Step
  <2>2. mode = "returning" /\ UNCHANGED <<client, height, viewShown, positions, readerAway>>
    BY <1>3 DEF Step
  <2>3. t \in Nat /\ ~(t > BottomOf(height, client))
    BY <1>0, <2>1
  <2>4. top' = t
    BY <2>1, <2>3 DEF ScrollsTo
  <2>5. ScrollNumbers'
    BY <1>0, <2>1, <2>2, <2>3, <2>4 DEF ScrollInv, ScrollNumbers
  <2>6. ~readerAway
    BY <2>2 DEF ScrollInv, ScrollKinds
  <2>7. ScrollKinds'
    BY <2>1, <2>2, <2>6 DEF ScrollInv, ScrollKinds
  <2>8. ScrollModes'
    BY <1>0, <2>1, <2>2, <2>4, ScrollAssumption DEF ScrollModes, ModeHolds
  <2> QED BY <2>5, <2>6, <2>7, <2>8 DEF ScrollInv
<1>4. CASE Selects
  <2>1. PICK v \in Views \ {viewShown}, h \in 0..MaxHeight :
          /\ viewShown' = v /\ height' = h
          /\ positions' = [positions EXCEPT ![viewShown] = rendered(h)]
          /\ restorePosition(positions[v], h)
          /\ readerAway' = FALSE /\ UNCHANGED client
    BY <1>4 DEF Selects
  <2> DEFINE goal == IF positions[v] = NoPosition \/ positions[v] > BottomOf(h, client)
                     THEN BottomOf(h, client) ELSE positions[v]
             edge == distanceFromBottom(goal, h, client) <= Edge
  <2>2. h \in Nat /\ BottomOf(h, client) \in Nat
    BY <2>1, ScrollAssumption, BottomIsNat DEF ScrollInv, ScrollNumbers
  <2>3. positions[v] \in Nat \cup {NoPosition}
    BY <2>1 DEF ScrollInv, ScrollNumbers
  <2>4. goal \in Nat /\ goal <= BottomOf(h, client)
    BY <2>2, <2>3
  <2>5. /\ ScrollsTo(goal, h, client) /\ lastTop' = goal /\ frame' = FALSE
        /\ mode' = IF edge THEN "following" ELSE "detached"
        /\ shortcutHidden' = (edge \/ near(goal, h, client))
    BY <2>1 DEF restorePosition
  <2> HIDE DEF goal
  <2>6. top' = goal
    BY <2>2, <2>4, <2>5 DEF ScrollsTo
  <2>7. rendered(h) \in Nat
    BY <2>2 DEF rendered, ScrollInv, ScrollNumbers
  <2>8. positions' \in [Views -> Nat \cup {NoPosition}]
    BY <2>1, <2>7 DEF ScrollInv, ScrollNumbers
  <2>9. ScrollNumbers'
    BY <2>1, <2>2, <2>4, <2>5, <2>6, <2>8 DEF ScrollInv, ScrollNumbers
  <2>10. ScrollKinds'
    BY <2>1, <2>5 DEF ScrollKinds
  <2>11. ScrollModes'
    <3>1. CASE edge
      BY <2>1, <2>5, <2>6, <3>1 DEF ScrollModes, ModeHolds
    <3>2. CASE ~edge
      BY <2>1, <2>5, <2>6, <3>2 DEF ScrollModes, ModeHolds, near
    <3> QED BY <3>1, <3>2
  <2> QED BY <2>1, <2>9, <2>10, <2>11 DEF ScrollInv
<1> QED BY <1>1, <1>2, <1>3, <1>4

LEMMA ScrollStep ==
    ScrollInv /\ [ScrollNext]_scrollVars
        => ScrollInv' /\ [readerAway /\ readerAway' => Scrolls \/ Still]_scrollVars
<1> SUFFICES ASSUME ScrollInv, [ScrollNext]_scrollVars
             PROVE  ScrollInv' /\ [readerAway /\ readerAway' => Scrolls \/ Still]_scrollVars
  OBVIOUS
<1>1. CASE UNCHANGED scrollVars
  BY <1>1 DEF scrollVars, ScrollInv, ScrollNumbers, ScrollKinds, ScrollModes
<1>2. CASE ScrollNext
  BY <1>2, RendersKeeps, InputKeeps, ScrollsKeeps, OnScrollKeeps, ReturnsKeep DEF
     ScrollNext
<1> QED BY <1>1, <1>2

\* Whatever is rendered, measured, scrolled, resized or selected, and however
\* late its events are delivered: the mode tells the truth once they are, and
\* the view never moves under a reader.
THEOREM ScrollStaysSound == ScrollSpec => ScrollSound
<1>1. ScrollInv => ModeIsTrue
  BY DEF ScrollInv, ScrollKinds, ScrollModes, ModeHolds, ModeIsTrue, atEdge
<1>2. [readerAway /\ readerAway' => Scrolls \/ Still]_scrollVars
        => [readerAway /\ readerAway' =>
               \/ Scrolls
               \/ top' = IF top > BottomOf(height', client') THEN BottomOf(height', client')
                         ELSE top]_scrollVars
  BY DEF Still
<1> QED BY <1>1, <1>2, ScrollStart, ScrollStep, PTL DEF ScrollSpec, ScrollSound, ReaderStaysPut

-----------------------------------------------------------------------------
(***************************************************************************)
(* The container of the workspace.                                         *)
(***************************************************************************)

made(p) == rt[p].made
of(p) == rt[p].of
IsUp(c) == wc[c] = "up"
ResetOf(c) == \E k \in Call : call[k].at = "resetting" /\ call[k].on = c

Some == Id \cup {None}
Kinds == {"none", "boot", "close", "release", "retry", "restart"}
Places == {"idle", "waiting", "saving", "resetting", "released", "threw", "runtime", "host", "done"}
CallRecords == [kind : Kinds, at : Places, on : Some, out : {"none", "enabled", "restricted"}]
RuntimeRecords == [of : Some, made : {"none", "pending", "ok", "failed"},
                   host : {"none", "restoring", "booting", "ready", "failed"}, disposed : BOOLEAN]

LifeTypeOK ==
    /\ single \in [container : Some, boot : Some, instance : Some, promise : Some, host : Some]
    /\ wc \in [Id -> {"none", "booting", "up", "failed", "torn"}]
    /\ rt \in [Id -> RuntimeRecords]
    /\ call \in [Call -> CallRecords]
    /\ files \in [Id -> SUBSET Edits] /\ disk \subseteq Edits
    /\ failures \in Nat /\ hasty \in BOOLEAN /\ restarted \in BOOLEAN

\* Containers and runtimes are made in the order of their numbers, and no
\* container without a runtime.
Counted ==
    \E nw, nr \in 0..MaxBoots :
        /\ nw <= nr
        /\ \A i \in Id : (wc[i] # "none" <=> i <= nw) /\ (made(i) # "none" <=> i <= nr)

RuntimesShaped ==
    \A p \in Id :
        /\ made(p) # "none" => of(p) \in Id /\ wc[of(p)] # "none"
        /\ made(p) # "ok" => rt[p].host = "none" /\ rt[p].disposed = FALSE
        /\ made(p) = "ok" => rt[p].host # "none" /\ wc[of(p)] \in {"up", "torn"}
        /\ made(p) = "failed" => wc[of(p)] = "failed"

CallsShaped ==
    \A k \in Call :
        /\ call[k].kind = "none" <=> call[k].at = "idle"
        /\ call[k].at = "waiting" => call[k].on \in Id /\ made(call[k].on) # "none"
        /\ call[k].at = "saving" => call[k].on \in Id /\ made(call[k].on) = "ok"
        /\ call[k].at = "resetting" => call[k].on \in Id
        /\ call[k].at \in {"waiting", "saving", "resetting", "released", "threw"} =>
              call[k].kind # "boot"

\* A container that boots is the one whose promise is kept, for a runtime that
\* is made; the one that is handed out is up.
BootsHold ==
    /\ \A c \in Id : wc[c] = "booting" =>
          /\ single.boot = c /\ single.container = None /\ single.instance = None
          /\ \E p \in Id : made(p) = "pending" /\ of(p) = c
    /\ single.container # None => IsUp(single.container) /\ single.boot = single.container
    /\ single.boot # None => single.boot = single.container \/ wc[single.boot] = "booting"

\* All resets that await a boot await the same one, and no runtime is on it.
ResetsHold ==
    \A k \in Call : call[k].at = "resetting" =>
        /\ \/ wc[call[k].on] = "booting"
           \/ IsUp(call[k].on) /\ single.container = call[k].on
           \/ wc[call[k].on] \in {"torn", "failed"} /\ single.container = None /\ single.boot = None
        /\ \A p \in Id : made(p) = "ok" => of(p) # call[k].on
        /\ \A j \in Call : call[j].at = "resetting" => call[j].on = call[k].on

\* A container that is up is handed out, or a release will tear it down.
UpsHeld ==
    failures = 0 =>
        \A c \in Id : IsUp(c) =>
            \/ single.container = c
            \/ \E k \in Call : call[k].at = "saving" /\ call[k].kind # "restart" /\ of(call[k].on) = c

PromisesHold ==
    /\ single.instance # None => made(single.instance) = "ok"
    /\ single.promise # None => \/ made(single.promise) = "pending"
                                \/ made(single.promise) = "ok" /\ single.instance # None

\* The runtimes that are made: those whose container has answered wait for it,
\* and one that no promise is kept of is on a container that will be torn down.
PendingHold ==
    \A p \in Id : made(p) = "pending" =>
        /\ wc[of(p)] # "booting" =>
              /\ \/ IsUp(of(p)) /\ single.container = of(p)
                 \/ wc[of(p)] \in {"torn", "failed"} /\ single.container = None /\ single.boot = None
              /\ \A q \in Id : made(q) = "pending" => of(q) = of(p)
        /\ wc[of(p)] = "booting" => p = single.promise \/ ResetOf(of(p))

\* Once containers and runtimes are settled, the two layers agree.
ReadyHolds ==
    settled /\ single.container # None =>
        single.instance # None /\ of(single.instance) = single.container

\* Two runtimes share only a container that will be torn down.
UniqueHolds ==
    \A p, q \in Id :
        /\ made(p) \in {"pending", "ok"} /\ made(q) \in {"pending", "ok"}
        /\ of(p) = of(q) /\ wc[of(p)] \in {"booting", "up"}
        => p = q \/ ResetOf(of(p))

WaitsHold ==
    \A k \in Call : call[k].at = "waiting" =>
        /\ resetDue => made(call[k].on) = "pending"
        /\ made(call[k].on) = "ok" =>
              /\ \A c \in Id : wc[c] # "booting"
              /\ bootDue => single.instance # None
              /\ \A j \in Call : call[j].at = "waiting" => made(call[j].on) # "failed"
              /\ single.container \in {None, of(call[k].on)}
              /\ \A p \in Id : made(p) = "pending" => wc[of(p)] \in {"up", "torn"}
        /\ made(call[k].on) = "failed" =>
              \A p \in Id : made(p) = "pending" => wc[of(p)] \in {"failed", "booting"}

\* What is released is not handed out any more.
SavesHold ==
    /\ \A k \in Call : call[k].at = "saving" /\ call[k].kind # "restart" =>
          single.container # of(call[k].on)
    /\ \A p \in Id : rt[p].disposed = TRUE => single.container # of(p)

\* As long as no restart met another call, a boot is never reset.
RestartsHold ==
    restarted = FALSE =>
        /\ \A k \in Call : call[k].at # "resetting"
        /\ \A p \in Id : made(p) = "pending" =>
              wc[of(p)] # "torn" /\ p = single.promise /\ single.instance = None
        /\ \A k \in Call : call[k].kind = "restart" /\ UnderWay(k) =>
              \A j \in Call : UnderWay(j) => j = k \/ call[j].kind = "boot"
        /\ \A k \in Call :
              call[k].kind = "restart" /\ call[k].at \in {"saving", "waiting"} /\ made(call[k].on) = "ok"
              => single.instance = call[k].on
        /\ single.instance # None =>
              /\ rt[single.instance].disposed = FALSE /\ IsUp(of(single.instance))
              /\ single.container = of(single.instance)

CoreInv ==
    /\ LifeTypeOK /\ Counted /\ RuntimesShaped /\ CallsShaped /\ BootsHold /\ ResetsHold /\ UpsHeld
    /\ PromisesHold /\ PendingHold /\ ReadyHolds /\ UniqueHolds /\ WaitsHold /\ SavesHold /\ RestartsHold

Restored(p) == made(p) = "ok" /\ rt[p].host # "restoring"
Alive(p) == Restored(p) /\ rt[p].disposed = FALSE /\ IsUp(of(p))
Over(c) == wc[c] = "torn" \/ \E p \in Id : rt[p].disposed = TRUE /\ of(p) = c

FilesOwned ==
    \A c \in Id : files[c] # {} => \E p \in Id : Restored(p) /\ of(p) = c

\* What a container held whose runtime is over is saved, and what lives has it.
FilesSaved ==
    hasty = FALSE /\ failures = 0 =>
        /\ \A c \in Id : Over(c) =>
              files[c] \subseteq disk /\ \A p \in Id : Alive(p) => files[c] \subseteq files[of(p)]
        /\ \A p, q \in Id : Alive(p) /\ Alive(q) => of(p) = of(q)

\* What a forced restart tears down without saving it holds nothing.
RestartsTear ==
    hasty = FALSE /\ failures = 0 =>
        \A k \in Call :
            call[k].at = "saving" /\ call[k].kind = "restart" /\ single.container # None =>
               \/ single.container = of(call[k].on)
               \/ \A p \in Id : Restored(p) => of(p) # single.container

FilesHold == FilesOwned /\ FilesSaved /\ RestartsTear

LifeInv == CoreInv /\ FilesHold

-----------------------------------------------------------------------------
(* What the steps do to the calls, and what is due. *)

\* The call k is of this kind and stands here, the others stay.
Moves(k, kind, at, on) ==
    /\ call' \in [Call -> CallRecords]
    /\ call'[k].kind = kind /\ call'[k].at = at /\ call'[k].on = on
    /\ \A j \in Call \ {k} : call'[j] = call[j]

LEMMA GoesTo ==
    ASSUME LifeTypeOK, NEW k \in Call, NEW at \in Places, NEW on \in Some, goTo(k, at, on)
    PROVE  Moves(k, call[k].kind, at, on)
BY DEF LifeTypeOK, CallRecords, goTo, Moves

LEMMA Begins ==
    ASSUME LifeTypeOK, NEW k \in Call, NEW kind \in Kinds, NEW at \in Places, NEW on \in Some,
           begin(k, kind, at, on)
    PROVE  Moves(k, kind, at, on)
BY DEF LifeTypeOK, CallRecords, begin, Moves

LEMMA ConcludesMoves ==
    ASSUME LifeTypeOK, NEW k \in Call, NEW outcome \in {"enabled", "restricted"}, NEW mark,
           Concludes(k, outcome, mark)
    PROVE  Moves(k, call[k].kind, "done", None)
<1> DEFINE r == [kind |-> call[k].kind, at |-> "done", on |-> None, out |-> outcome]
<1>0. call[k] = [kind |-> call[k].kind, at |-> call[k].at, on |-> call[k].on, out |-> call[k].out]
  BY DEF LifeTypeOK, CallRecords
<1>1. call' = [call EXCEPT ![k] = r]
  <2>1. call' = [call EXCEPT ![k] = [[[call[k] EXCEPT !.at = "done"] EXCEPT !.on = None] EXCEPT !.out = outcome]]
    BY DEF LifeTypeOK, Concludes
  <2>2. [[[call[k] EXCEPT !.at = "done"] EXCEPT !.on = None] EXCEPT !.out = outcome] = r
    <3>1. PICK a : a = [call[k] EXCEPT !.at = "done"]
      OBVIOUS
    <3>2. a = [kind |-> call[k].kind, at |-> "done", on |-> call[k].on, out |-> call[k].out]
      BY <1>0, <3>1
    <3>3. PICK b : b = [a EXCEPT !.on = None]
      OBVIOUS
    <3>4. b = [kind |-> call[k].kind, at |-> "done", on |-> None, out |-> call[k].out]
      BY <3>2, <3>3
    <3>5. [b EXCEPT !.out = outcome] = r
      BY <3>4
    <3> QED BY <3>1, <3>3, <3>5
  <2> QED BY <2>1, <2>2
<1>2. r \in CallRecords
  BY DEF LifeTypeOK, CallRecords, Places, Some
<1> QED BY <1>1, <1>2 DEF LifeTypeOK, Moves

LEMMA FinishMoves ==
    ASSUME LifeTypeOK, NEW k \in Call, Finish(k)
    PROVE  Moves(k, call[k].kind, "done", None)
BY DEF LifeTypeOK, CallRecords, Finish, Moves, Places, Some

\* When nothing is due, what is made boots, and so does what is reset.
LEMMA Quiet ==
    ASSUME ~due
    PROVE  /\ settled /\ ~releaseDue
           /\ \A k \in Call : call[k].kind \in {"retry", "restart"} /\ call[k].at \in {"released", "threw"} => ~mayGet
BY DEF due, settled

LEMMA SettledFacts ==
    ASSUME settled
    PROVE  /\ \A k \in Call : call[k].at = "resetting" => wc[call[k].on] = "booting"
           /\ \A p \in Id : made(p) = "pending" => wc[of(p)] = "booting"
BY DEF settled, resetDue, runtimeDue, made, of

-----------------------------------------------------------------------------
(* The numbers of containers and runtimes. *)

LEMMA IdFacts == None \notin Id /\ IsFiniteSet(Id)
BY LifecycleAssumption, FS_Interval DEF Id, None

LEMMA NextIs ==
    ASSUME NEW f, NEW n \in 0..MaxBoots, \A i \in Id : f[i] # "none" <=> i <= n
    PROVE  nextOf(f) = n + 1
<1>1. {i \in Id : f[i] # "none"} = 1..n
  BY LifecycleAssumption DEF Id
<1>2. Cardinality(1..n) = n
  BY FS_Interval
<1>3. Cardinality({i \in Id : f[i] # "none"}) = n
  BY <1>1, <1>2, Zenon
<1> QED BY <1>3 DEF nextOf

LEMMA Fresh ==
    ASSUME Counted, nextRt \in Id
    PROVE  /\ made(nextRt) = "none" /\ nextWc \in Id /\ wc[nextWc] = "none"
<1>1. PICK nw \in 0..MaxBoots, nr \in 0..MaxBoots :
        /\ nw <= nr
        /\ \A i \in Id : (wc[i] # "none" <=> i <= nw) /\ (made(i) # "none" <=> i <= nr)
  BY DEF Counted
<1>2. nextWc = nw + 1
  BY <1>1, NextIs DEF nextWc
<1>3. nextRt = nr + 1
  BY <1>1, NextIs DEF nextRt, made
<1>4. nw \in Nat /\ nr \in Nat /\ nextRt >= 1 /\ nextRt <= MaxBoots /\ MaxBoots \in Nat
  BY LifecycleAssumption DEF Id
<1>5. nw + 1 \in Id /\ ~(nw + 1 <= nw) /\ ~(nr + 1 <= nr)
  BY <1>1, <1>3, <1>4 DEF Id
<1> HIDE DEF nextRt, nextWc
<1> QED BY <1>1, <1>2, <1>3, <1>5

\* Nothing new.
LEMMA CountStays ==
    ASSUME Counted, \A i \in Id : /\ wc[i] = "none" <=> wc'[i] = "none"
                                  /\ made(i) = "none" <=> rt'[i].made = "none"
    PROVE  Counted'
BY DEF Counted, made

\* A new runtime, on a new container or not.
LEMMA CountGrows ==
    ASSUME Counted, nextRt \in Id, NEW c \in Id, c = nextWc \/ wc[c] # "none",
           rt'[nextRt].made # "none", wc'[c] # "none",
           \A i \in Id \ {nextRt} : rt'[i].made = made(i),
           \A i \in Id \ {c} : wc'[i] = wc[i]
    PROVE  Counted'
<1>1. PICK nw \in 0..MaxBoots, nr \in 0..MaxBoots :
        /\ nw <= nr
        /\ \A i \in Id : (wc[i] # "none" <=> i <= nw) /\ (made(i) # "none" <=> i <= nr)
  BY DEF Counted
<1>2. nextWc = nw + 1
  BY <1>1, NextIs DEF nextWc
<1>3. nextRt = nr + 1
  BY <1>1, NextIs DEF nextRt, made
<1>4. \A i \in Id : rt'[i].made # "none" <=> i <= nr + 1
  BY <1>1, <1>3 DEF Id
<1>5. nr + 1 \in 0..MaxBoots /\ nw \in Nat /\ nr \in Nat
  BY <1>3 DEF Id
<1>6. CASE c = nextWc
  <2>1. \A i \in Id : wc'[i] # "none" <=> i <= nw + 1
    BY <1>1, <1>2, <1>6 DEF Id
  <2>2. nw + 1 \in 0..MaxBoots /\ nw + 1 <= nr + 1
    BY <1>1, <1>2, <1>5, <1>6 DEF Id
  <2> QED BY <1>4, <1>5, <2>1, <2>2 DEF Counted, made
<1>7. CASE wc[c] # "none"
  <2>1. \A i \in Id : wc'[i] # "none" <=> i <= nw
    BY <1>1, <1>7
  <2>2. nw <= nr + 1
    BY <1>1, <1>5
  <2> QED BY <1>4, <1>5, <2>1, <2>2 DEF Counted, made
<1> QED BY <1>6, <1>7

-----------------------------------------------------------------------------
(* Steps that leave the two layers alone. *)

\* What the invariant says of a runtime stays.
RuntimesStay ==
    \A p \in Id : rt'[p].made = made(p) /\ rt'[p].of = of(p) /\ rt'[p].disposed = rt[p].disposed

\* The call k, not one that releases, begins, goes on or ends.
GoesOn(k) ==
    \/ /\ call[k].at \in {"released", "threw", "runtime", "host"}
       /\ \E at \in {"done", "runtime", "host"}, on \in Some : Moves(k, call[k].kind, at, on)
    \/ /\ call[k].at = "idle"
       /\ \E on \in Some : Moves(k, "boot", "runtime", on)

LEMMA QuietKeeps ==
    ASSUME CoreInv, UNCHANGED <<single, wc, restarted>>, RuntimesStay, LifeTypeOK', RuntimesShaped',
           failures' = 0 => failures = 0,
           call' = call \/ \E k \in Call : GoesOn(k)
    PROVE  CoreInv'
<1> USE DEF made, of, IsUp, ResetOf
<1>1. /\ \A p \in Id : rt'[p].made = rt[p].made /\ rt'[p].of = rt[p].of /\ rt'[p].disposed = rt[p].disposed
      /\ single' = single /\ wc' = wc /\ restarted' = restarted
  BY DEF RuntimesStay
<1>2. \A j \in Call :
        /\ call'[j].kind = call[j].kind \/ call'[j].kind = "boot"
        /\ call'[j].at \in {"waiting", "saving", "resetting", "released", "threw"} => call'[j] = call[j]
        /\ call[j].at \in {"waiting", "saving", "resetting"} => call'[j] = call[j]
        /\ call'[j].kind = "none" <=> call'[j].at = "idle"
        /\ \/ call'[j].kind = "boot"
           \/ call'[j].at \notin {"idle", "done"} => call[j].at \notin {"idle", "done"}
  <2>1. CASE call' = call
    BY <2>1 DEF CoreInv, CallsShaped
  <2>2. CASE \E k \in Call : GoesOn(k)
    <3>1. PICK k \in Call : GoesOn(k)
      BY <2>2
    <3> QED BY <3>1 DEF GoesOn, Moves, CoreInv, CallsShaped
  <2> QED BY <2>1, <2>2
<1>3. Counted'
  BY <1>1, CountStays DEF CoreInv
<1>4. CallsShaped'
  BY <1>1, <1>2 DEF CoreInv, CallsShaped, LifeTypeOK
<1>5. BootsHold'
  BY <1>1 DEF CoreInv, BootsHold
<1>6. ResetsHold'
  BY <1>1, <1>2 DEF CoreInv, ResetsHold
<1>7. UpsHeld'
  BY <1>1, <1>2 DEF CoreInv, UpsHeld, CallsShaped
<1>8. PromisesHold'
  BY <1>1 DEF CoreInv, PromisesHold, LifeTypeOK, Some
<1>9. \A c \in Id : (ResetOf(c))' <=> ResetOf(c)
  BY <1>2
<1>10. PendingHold'
  BY <1>1, <1>9 DEF CoreInv, PendingHold, RuntimesShaped
<1>11. (settled' <=> settled) /\ (resetDue' <=> resetDue)
  BY <1>1, <1>2 DEF settled, resetDue, runtimeDue
<1>12. ReadyHolds'
  BY <1>1, <1>11 DEF CoreInv, ReadyHolds, LifeTypeOK, Some, PromisesHold
<1>13. UniqueHolds'
  BY <1>1, <1>9 DEF CoreInv, UniqueHolds, RuntimesShaped
<1>14. WaitsHold'
  <2>1. [p \in Id |-> rt[p].made]' = [p \in Id |-> rt[p].made]
    BY <1>1
  <2>2. bootDue' => bootDue
    BY <1>1, <1>2, <2>1, ZenonT(40) DEF bootDue, mayGet, nextRt, nextOf
  <2> QED BY <1>1, <1>2, <1>11, <2>2 DEF CoreInv, WaitsHold, CallsShaped
<1>15. SavesHold'
  BY <1>1, <1>2 DEF CoreInv, SavesHold, CallsShaped
<1>16. RestartsHold'
  <2>1. \A k \in Call : (UnderWay(k))' => UnderWay(k) \/ call'[k].kind = "boot"
    BY <1>2 DEF UnderWay
  <2>2. \A k \in Call : call'[k].at # "resetting" \/ restarted # FALSE
    BY <1>2 DEF CoreInv, RestartsHold
  <2>3. restarted = FALSE => \A k \in Call : call'[k].kind = "restart" /\ (UnderWay(k))' =>
              \A j \in Call : (UnderWay(j))' => j = k \/ call'[j].kind = "boot"
    BY <1>2, <2>1 DEF CoreInv, RestartsHold
  <2>4. restarted = FALSE => \A k \in Call :
          call'[k].kind = "restart" /\ call'[k].at \in {"saving", "waiting"} /\ rt'[call'[k].on].made = "ok"
              => single.instance = call'[k].on
    BY <1>1, <1>2 DEF CoreInv, RestartsHold, CallsShaped
  <2>5. single.instance # None => single.instance \in Id
    BY DEF CoreInv, LifeTypeOK, Some
  <2> QED BY <1>1, <2>2, <2>3, <2>4, <2>5 DEF CoreInv, RestartsHold
<1> QED BY <1>3, <1>4, <1>5, <1>6, <1>7, <1>8, <1>10, <1>12, <1>13, <1>14, <1>15, <1>16 DEF CoreInv

-----------------------------------------------------------------------------
(* A runtime is asked for. *)

\* A new runtime p, on the container c that boots for it or for another.
NewRuntime(p, c) ==
    /\ p \in Id /\ c \in Id /\ made(p) = "none"
    /\ single.instance = None /\ single.promise = None /\ single.container = None
    /\ (single.boot = None /\ wc[c] = "none") \/ (single.boot = c /\ wc[c] = "booting")
    /\ single' = [single EXCEPT !.promise = p, !.boot = c]
    /\ wc' = [wc EXCEPT ![c] = "booting"]
    /\ rt' = [rt EXCEPT ![p].of = c, ![p].made = "pending"]

\* The call k awaits it: a new one, a retry or a restart.
Asks(k) ==
    /\ \/ call[k].at = "idle" /\ \E on \in Id : Moves(k, "boot", "runtime", on)
       \/ /\ call[k].at \in {"released", "threw"}
          /\ \E on \in Id : Moves(k, call[k].kind, "runtime", on)

LEMMA RuntimeAsked ==
    ASSUME CoreInv, settled, GetRuntime
    PROVE  \/ UNCHANGED <<single, wc, rt>>
           \/ Counted' /\ \E p, c \in Id : NewRuntime(p, c) /\ p = target
<1> USE DEF made, of, IsUp
<1>1. CASE single.instance # None \/ single.promise # None
  BY <1>1 DEF GetRuntime
<1>2. CASE single.instance = None /\ single.promise = None
  <2>1. single.container = None
    BY <1>2 DEF CoreInv, ReadyHolds
  <2>2. PICK c : /\ c = IF single.boot # None THEN single.boot ELSE nextWc
                 /\ nextRt \in Id
                 /\ single' = [single EXCEPT !.promise = nextRt, !.boot = c]
                 /\ rt' = [rt EXCEPT ![nextRt].of = c, ![nextRt].made = "pending"]
                 /\ wc' = IF c = nextWc THEN [wc EXCEPT ![c] = "booting"] ELSE wc
    <3> DEFINE d == IF single.boot # None THEN single.boot ELSE nextWc
    <3>1. /\ nextRt \in Id /\ rt' = [rt EXCEPT ![nextRt].of = d, ![nextRt].made = "pending"]
          /\ wc' = IF d = nextWc THEN [wc EXCEPT ![d] = "booting"] ELSE wc
      BY <1>2, <2>1 DEF GetRuntime
    <3>2. single' = [single EXCEPT !.promise = nextRt, !.boot = d]
      BY <1>2, <2>1 DEF GetRuntime
    <3> HIDE DEF nextRt, nextWc
    <3> QED BY <3>1, <3>2
  <2>3. made(nextRt) = "none" /\ nextWc \in Id /\ wc[nextWc] = "none"
    BY <2>2, Fresh DEF CoreInv
  <2>4. c \in Id /\ ((single.boot = None /\ c = nextWc) \/ (single.boot = c /\ wc[c] = "booting"))
    BY <2>1, <2>2, <2>3, IdFacts DEF CoreInv, LifeTypeOK, BootsHold, Some
  <2> HIDE DEF nextRt, nextWc
  <2>5. wc' = [wc EXCEPT ![c] = "booting"]
    BY <2>2, <2>3, <2>4 DEF CoreInv, LifeTypeOK
  <2>6. NewRuntime(nextRt, c) /\ nextRt = target
    BY <1>2, <2>1, <2>2, <2>3, <2>4, <2>5 DEF NewRuntime, target
  <2>7. /\ rt'[nextRt].made = "pending" /\ \A i \in Id \ {nextRt} : rt'[i].made = rt[i].made
        /\ wc'[c] = "booting" /\ \A i \in Id \ {c} : wc'[i] = wc[i]
    BY <2>2, <2>4, <2>5 DEF CoreInv, LifeTypeOK, RuntimeRecords
  <2>8. Counted'
    BY <2>2, <2>3, <2>4, <2>7, CountGrows DEF CoreInv
  <2> QED BY <2>2, <2>4, <2>6, <2>8
<1> QED BY <1>1, <1>2

LEMMA NewKeeps ==
    ASSUME CoreInv, settled, NEW p \in Id, NEW c \in Id, NewRuntime(p, c), LifeTypeOK', Counted',
           UNCHANGED <<restarted, failures>>,
           \A k \in Call : call[k].at = "waiting" => made(call[k].on) # "ok",
           call' = call \/ \E k \in Call : Asks(k)
    PROVE  CoreInv'
<1> USE DEF made, of, IsUp, ResetOf
<1>1. /\ rt[p].made = "none" /\ rt'[p].made = "pending" /\ rt'[p].of = c
      /\ rt'[p].host = rt[p].host /\ rt'[p].disposed = rt[p].disposed
      /\ \A q \in Id \ {p} : rt'[q] = rt[q]
  BY DEF NewRuntime, CoreInv, LifeTypeOK, RuntimeRecords
<1>2. /\ wc'[c] = "booting" /\ \A d \in Id \ {c} : wc'[d] = wc[d]
      /\ (single.boot = None /\ wc[c] = "none") \/ (single.boot = c /\ wc[c] = "booting")
  BY DEF NewRuntime, CoreInv, LifeTypeOK
<1>3. /\ single'.promise = p /\ single'.boot = c
      /\ single'.container = None /\ single'.instance = None
      /\ single.instance = None /\ single.promise = None /\ single.container = None
  BY DEF NewRuntime, CoreInv, LifeTypeOK
<1>4. None \notin Id
  BY IdFacts
<1>5. \A j \in Call :
        /\ call'[j].at \in {"waiting", "saving", "resetting", "released", "threw"} => call'[j] = call[j]
        /\ call[j].at \in {"waiting", "saving", "resetting"} => call'[j] = call[j]
        /\ call'[j].kind = "none" <=> call'[j].at = "idle"
        /\ call[j].at \notin {"idle", "done"} => call'[j].kind = call[j].kind
        /\ call'[j].at \notin {"idle", "done"} => call[j].at \notin {"idle", "done"} \/ call'[j].kind = "boot"
  <2>1. CASE call' = call
    BY <2>1 DEF CoreInv, CallsShaped
  <2>2. CASE \E k \in Call : Asks(k)
    <3>1. PICK k \in Call : Asks(k)
      BY <2>2
    <3> QED BY <3>1 DEF Asks, Moves, CoreInv, CallsShaped
  <2> QED BY <2>1, <2>2
<1>6. /\ \A q \in Id : rt[q].made = "pending" => rt[q].of = c /\ wc[c] = "booting"
      /\ \A k \in Call : call[k].at = "resetting" => call[k].on = c /\ wc[c] = "booting"
      /\ \A d \in Id : wc[d] = "booting" => d = c
  BY <1>2, <1>4, SettledFacts DEF CoreInv, RuntimesShaped, CallsShaped, BootsHold
<1>7. RuntimesShaped'
  BY <1>1, <1>2 DEF CoreInv, RuntimesShaped
<1>8. CallsShaped'
  BY <1>1, <1>5 DEF CoreInv, CallsShaped
<1>9. BootsHold'
  BY <1>1, <1>2, <1>3, <1>4, <1>6 DEF BootsHold
<1>10. ResetsHold'
  BY <1>1, <1>2, <1>5, <1>6 DEF CoreInv, ResetsHold
<1>11. UpsHeld'
  <2>1. \A d \in Id : wc'[d] = "up" => wc[d] = "up" /\ d # single.container
    BY <1>2, <1>3, <1>4
  <2>2. \A k \in Call : call[k].at = "saving" => call[k].on \in Id \ {p} /\ call'[k] = call[k]
    BY <1>1, <1>5 DEF CoreInv, CallsShaped
  <2> QED BY <1>1, <2>1, <2>2 DEF CoreInv, UpsHeld
<1>12. PromisesHold'
  BY <1>1, <1>3 DEF PromisesHold
<1>13. \A q \in Id : rt[q].made = "pending" => \E k \in Call : call'[k].at = "resetting" /\ call'[k].on = c
  BY <1>3, <1>4, <1>5, <1>6 DEF CoreInv, PendingHold
<1>14. PendingHold'
  BY <1>1, <1>2, <1>3, <1>6, <1>13 DEF PendingHold
<1>15. ReadyHolds'
  BY <1>3 DEF ReadyHolds
<1>16. UniqueHolds'
  <2>1. \A q \in Id \ {p} : rt[q].made \in {"pending", "ok"} /\ rt[q].of = c => rt[q].made = "pending"
    BY <1>2 DEF CoreInv, RuntimesShaped
  <2>2. \A q \in Id : rt[q].made \in {"pending", "ok"} => rt[q].of \in Id /\ q # p
    BY <1>1 DEF CoreInv, RuntimesShaped
  <2>3. \A d \in Id : (\E k \in Call : call[k].at = "resetting" /\ call[k].on = d) =>
                        (\E k \in Call : call'[k].at = "resetting" /\ call'[k].on = d)
    BY <1>5
  <2> QED BY <1>1, <1>2, <1>13, <2>1, <2>2, <2>3 DEF CoreInv, UniqueHolds
<1>17. WaitsHold'
  <2>1. ~(resetDue')
    BY <1>2, <1>5, <1>6 DEF resetDue
  <2>2. \A k \in Call : call'[k].at = "waiting" =>
          /\ call'[k] = call[k] /\ call[k].on \in Id \ {p} /\ rt'[call'[k].on].made = rt[call[k].on].made
          /\ rt[call[k].on].made # "ok"
    BY <1>1, <1>5 DEF CoreInv, CallsShaped
  <2>3. \A q \in Id : rt'[q].made = "pending" => wc'[rt'[q].of] = "booting"
    BY <1>1, <1>2, <1>6
  <2> QED BY <2>1, <2>2, <2>3 DEF WaitsHold
<1>18. SavesHold'
  <2>1. \A k \in Call : call'[k].at = "saving" => call'[k].on \in Id \ {p} /\ call'[k] = call[k]
    BY <1>1, <1>5 DEF CoreInv, CallsShaped
  <2>2. \A q \in Id : rt'[q].disposed = TRUE => q # p /\ rt'[q].of \in Id
    BY <1>1 DEF CoreInv, RuntimesShaped
  <2>3. \A k \in Call : call'[k].at = "saving" => rt'[call'[k].on].of \in Id
    BY <1>1, <2>1 DEF CoreInv, CallsShaped, RuntimesShaped
  <2> QED BY <1>3, <1>4, <2>2, <2>3 DEF SavesHold
<1>19. RestartsHold'
  <2> SUFFICES ASSUME restarted = FALSE PROVE RestartsHold'
    BY DEF RestartsHold
  <2>1. \A k \in Call : call'[k].at # "resetting"
    BY <1>5 DEF CoreInv, RestartsHold
  <2>2. \A q \in Id : rt'[q].made = "pending" => wc'[rt'[q].of] # "torn" /\ q = p
    BY <1>1, <1>2, <1>3, <1>4 DEF CoreInv, RestartsHold
  <2>3. \A k \in Call : call'[k].kind = "restart" /\ (UnderWay(k))' =>
          \A j \in Call : (UnderWay(j))' => j = k \/ call'[j].kind = "boot"
    BY <1>5 DEF CoreInv, RestartsHold, UnderWay
  <2>4. \A k \in Call : call'[k].kind = "restart" /\ call'[k].at \in {"saving", "waiting"} =>
          ~(rt'[call'[k].on].made = "ok")
    BY <1>1, <1>3, <1>4, <1>5 DEF CoreInv, RestartsHold, CallsShaped
  <2> QED BY <1>3, <2>1, <2>2, <2>3, <2>4 DEF RestartsHold
<1> QED BY <1>7, <1>8, <1>9, <1>10, <1>11, <1>12, <1>14, <1>15, <1>16, <1>17, <1>18, <1>19 DEF CoreInv

-----------------------------------------------------------------------------
(* A container answers. *)

LEMMA BootEnds ==
    ASSUME CoreInv, settled, NEW c \in Id, wc[c] = "booting"
    PROVE  /\ single.boot = c /\ single.container = None /\ single.instance = None
           /\ \A d \in Id : wc[d] = "booting" => d = c
           /\ \A p \in Id : made(p) = "pending" => of(p) = c
           /\ \A p \in Id : made(p) \in {"ok", "failed"} => of(p) # c
           /\ \A k \in Call : call[k].at = "resetting" => call[k].on = c
           /\ \E p \in Id : made(p) = "pending" /\ of(p) = c
<1> USE DEF made, of
<1>1. \A d \in Id : wc[d] = "booting" => single.boot = d
  BY DEF CoreInv, BootsHold
<1>2. single.boot = c /\ single.container = None /\ single.instance = None
      /\ \E p \in Id : made(p) = "pending" /\ of(p) = c
  BY DEF CoreInv, BootsHold
<1>3. \A p \in Id : rt[p].made \in {"ok", "failed"} => rt[p].of # c
  BY DEF CoreInv, RuntimesShaped
<1> QED BY <1>1, <1>2, <1>3, SettledFacts DEF CoreInv, RuntimesShaped, CallsShaped

LEMMA BootKeeps ==
    ASSUME CoreInv, NEW c \in Id, ContainerBoots(c) \/ ContainerFails(c), LifeTypeOK'
    PROVE  CoreInv'
<1> USE DEF made, of, IsUp, ResetOf
<1>1. settled /\ ~releaseDue
  BY Quiet DEF ContainerBoots, ContainerFails
<1>2. /\ wc[c] = "booting" /\ rt' = rt /\ call' = call /\ restarted' = restarted
      /\ \A d \in Id \ {c} : wc'[d] = wc[d]
      /\ single'.instance = single.instance /\ single'.promise = single.promise
  BY DEF ContainerBoots, ContainerFails, CoreInv, LifeTypeOK, history
<1>3. /\ single.boot = c /\ single.container = None /\ single.instance = None
      /\ \A d \in Id : wc[d] = "booting" => d = c
      /\ \A p \in Id : rt[p].made = "pending" => rt[p].of = c
      /\ \A p \in Id : rt[p].made \in {"ok", "failed"} => rt[p].of # c
      /\ \A k \in Call : call[k].at = "resetting" => call[k].on = c
      /\ \E p \in Id : rt[p].made = "pending" /\ rt[p].of = c
  BY <1>1, <1>2, BootEnds
<1>4. \/ wc'[c] = "up" /\ single'.container = c /\ single'.boot = c /\ failures' = failures
      \/ wc'[c] = "failed" /\ single'.container = None /\ single'.boot = None /\ failures' # 0
  <2>1. CASE ContainerBoots(c)
    BY <1>3, <2>1 DEF ContainerBoots, Works, CoreInv, LifeTypeOK
  <2>2. CASE ContainerFails(c)
    <3>1. failures' = failures + 1 /\ failures \in Nat
      BY <2>2 DEF ContainerFails, Fails, CoreInv, LifeTypeOK
    <3>2. failures' # 0
      BY <3>1
    <3> QED BY <1>3, <2>2, <3>2 DEF ContainerFails, CoreInv, LifeTypeOK
  <2> QED BY <2>1, <2>2
<1>5. None \notin Id
  BY IdFacts
<1>6. Counted'
  BY <1>2, <1>4, CountStays DEF CoreInv
<1>7. RuntimesShaped'
  BY <1>2, <1>3, <1>4 DEF CoreInv, RuntimesShaped
<1>8. CallsShaped'
  BY <1>2 DEF CoreInv, CallsShaped
<1>9. BootsHold'
  BY <1>2, <1>3, <1>4, <1>5 DEF BootsHold
<1>10. ResetsHold'
  BY <1>2, <1>3, <1>4 DEF CoreInv, ResetsHold
<1>11. UpsHeld'
  BY <1>2, <1>3, <1>4, <1>5 DEF CoreInv, UpsHeld
<1>12. PromisesHold'
  BY <1>2 DEF CoreInv, PromisesHold
<1>13. PendingHold'
  BY <1>2, <1>3, <1>4 DEF PendingHold
<1>14. ReadyHolds'
  BY <1>2, <1>3, <1>4 DEF ReadyHolds, settled, runtimeDue
<1>15. UniqueHolds'
  <2>1. \A d \in Id : wc'[d] \in {"booting", "up"} => wc[d] \in {"booting", "up"}
    BY <1>2
  <2>2. \A q \in Id : rt[q].made \in {"pending", "ok"} => rt[q].of \in Id
    BY DEF CoreInv, RuntimesShaped
  <2> QED BY <1>2, <2>1, <2>2 DEF CoreInv, UniqueHolds
<1>16. WaitsHold'
  <2>1. \A k \in Call : call'[k].at = "waiting" => rt'[call'[k].on].made = "pending"
    BY <1>1, <1>2 DEF releaseDue
  <2> QED BY <2>1 DEF WaitsHold
<1>17. SavesHold'
  <2>1. \A p \in Id : rt[p].disposed = TRUE => rt[p].made = "ok"
    BY DEF CoreInv, RuntimesShaped
  <2>2. \A p \in Id : rt[p].made = "ok" => rt[p].of \in Id /\ rt[p].of # c
    BY <1>3 DEF CoreInv, RuntimesShaped
  <2>3. single'.container \in {c, None}
    BY <1>4
  <2> QED BY <1>2, <1>5, <2>1, <2>2, <2>3 DEF CoreInv, SavesHold, CallsShaped
<1>18. RestartsHold'
  BY <1>2, <1>3, <1>4 DEF CoreInv, RestartsHold, UnderWay
<1> QED BY <1>6, <1>7, <1>8, <1>9, <1>10, <1>11, <1>12, <1>13, <1>14, <1>15, <1>16, <1>17, <1>18 DEF CoreInv

\* Runtimes answer once no reset is due: nothing boots, nothing is reset.
LEMMA RuntimeAnswers ==
    ASSUME CoreInv, NEW p \in Id, made(p) = "pending", wc[of(p)] # "booting", ~resetDue
    PROVE  /\ of(p) \in Id /\ \A c \in Id : wc[c] # "booting"
           /\ \A k \in Call : call[k].at # "resetting"
           /\ \/ IsUp(of(p)) /\ single.container = of(p)
              \/ wc[of(p)] \in {"torn", "failed"} /\ single.container = None /\ single.boot = None
           /\ \A q \in Id : made(q) = "pending" => of(q) = of(p)
<1> USE DEF made, of, IsUp
<1>1. /\ rt[p].of \in Id
      /\ \/ wc[rt[p].of] = "up" /\ single.container = rt[p].of
         \/ wc[rt[p].of] \in {"torn", "failed"} /\ single.container = None /\ single.boot = None
      /\ \A q \in Id : rt[q].made = "pending" => rt[q].of = rt[p].of
  BY DEF CoreInv, PendingHold, RuntimesShaped
<1>2. \A c \in Id : wc[c] # "booting"
  BY <1>1 DEF CoreInv, BootsHold
<1>3. \A k \in Call : call[k].at # "resetting"
  BY <1>2 DEF resetDue, CoreInv, CallsShaped
<1> QED BY <1>1, <1>2, <1>3

LEMMA RuntimeKeeps ==
    ASSUME CoreInv, NEW p \in Id, RuntimeMade(p) \/ RuntimeFails(p), LifeTypeOK'
    PROVE  CoreInv'
<1> USE DEF made, of, IsUp, ResetOf
<1>0. single = [container |-> single.container, boot |-> single.boot, instance |-> single.instance,
                promise |-> single.promise, host |-> single.host]
  BY DEF CoreInv, LifeTypeOK
<1>a. /\ ~resetDue /\ rt[p].made = "pending" /\ wc[rt[p].of] # "booting"
      /\ wc' = wc /\ call' = call /\ restarted' = restarted /\ failures' = failures
  BY DEF RuntimeMade, RuntimeFails, history, Works
<1>b. ASSUME RuntimeMade(p)
      PROVE  /\ single' = [container |-> single.container, boot |-> single.boot, instance |-> p,
                           promise |-> single.promise, host |-> p]
             /\ rt' = [rt EXCEPT ![p] = [of |-> rt[p].of, made |-> "ok", host |-> "restoring",
                                         disposed |-> rt[p].disposed]]
             /\ wc[rt[p].of] \in {"up", "torn"}
  <2>1. rt[p] = [of |-> rt[p].of, made |-> rt[p].made, host |-> rt[p].host, disposed |-> rt[p].disposed]
    BY DEF CoreInv, LifeTypeOK, RuntimeRecords
  <2>2. /\ rt' = [rt EXCEPT ![p] = [[rt[p] EXCEPT !.made = "ok"] EXCEPT !.host = "restoring"]]
        /\ single' = [[single EXCEPT !.instance = p] EXCEPT !.host = p]
        /\ wc[rt[p].of] \in {"up", "torn"}
    BY <1>b DEF RuntimeMade, CoreInv, LifeTypeOK
  <2>3. [[rt[p] EXCEPT !.made = "ok"] EXCEPT !.host = "restoring"]
           = [of |-> rt[p].of, made |-> "ok", host |-> "restoring", disposed |-> rt[p].disposed]
    <3>1. PICK a : a = [rt[p] EXCEPT !.made = "ok"]
      OBVIOUS
    <3>2. a = [of |-> rt[p].of, made |-> "ok", host |-> rt[p].host, disposed |-> rt[p].disposed]
      BY <2>1, <3>1
    <3>3. [a EXCEPT !.host = "restoring"]
             = [of |-> rt[p].of, made |-> "ok", host |-> "restoring", disposed |-> rt[p].disposed]
      BY <3>2
    <3> QED BY <3>1, <3>3
  <2>4. single' = [container |-> single.container, boot |-> single.boot, instance |-> p,
                   promise |-> single.promise, host |-> p]
    <3>1. PICK a : a = [single EXCEPT !.instance = p]
      OBVIOUS
    <3>2. a = [container |-> single.container, boot |-> single.boot, instance |-> p,
               promise |-> single.promise, host |-> single.host]
      BY <1>0, <3>1
    <3>3. single' = [a EXCEPT !.host = p]
      BY <2>2, <3>1
    <3> QED BY <3>2, <3>3
  <2> QED BY <2>2, <2>3, <2>4
<1>c. ASSUME RuntimeFails(p)
      PROVE  /\ single' = [container |-> single.container, boot |-> single.boot, instance |-> None,
                           promise |-> None, host |-> single.host]
             /\ rt' = [rt EXCEPT ![p] = [of |-> rt[p].of, made |-> "failed", host |-> rt[p].host,
                                         disposed |-> rt[p].disposed]]
             /\ wc[rt[p].of] = "failed"
  <2>1. rt[p] = [of |-> rt[p].of, made |-> rt[p].made, host |-> rt[p].host, disposed |-> rt[p].disposed]
    BY DEF CoreInv, LifeTypeOK, RuntimeRecords
  <2>2. /\ rt' = [rt EXCEPT ![p] = [rt[p] EXCEPT !.made = "failed"]]
        /\ single' = [[single EXCEPT !.instance = None] EXCEPT !.promise = None]
        /\ wc[rt[p].of] = "failed"
    BY <1>c DEF RuntimeFails, CoreInv, LifeTypeOK
  <2>3. [rt[p] EXCEPT !.made = "failed"]
           = [of |-> rt[p].of, made |-> "failed", host |-> rt[p].host, disposed |-> rt[p].disposed]
    BY <2>1
  <2>4. single' = [container |-> single.container, boot |-> single.boot, instance |-> None,
                   promise |-> None, host |-> single.host]
    <3>1. PICK a : a = [single EXCEPT !.instance = None]
      OBVIOUS
    <3>2. a = [container |-> single.container, boot |-> single.boot, instance |-> None,
               promise |-> single.promise, host |-> single.host]
      BY <1>0, <3>1
    <3>3. single' = [a EXCEPT !.promise = None]
      BY <2>2, <3>1
    <3> QED BY <3>2, <3>3
  <2> QED BY <2>2, <2>3, <2>4
<1>1. /\ ~resetDue /\ rt[p].made = "pending" /\ wc[rt[p].of] # "booting"
      /\ wc' = wc /\ call' = call /\ restarted' = restarted /\ failures' = failures
      /\ \A q \in Id \ {p} : rt'[q] = rt[q]
      /\ rt'[p].of = rt[p].of /\ rt'[p].disposed = rt[p].disposed
      /\ single'.container = single.container /\ single'.boot = single.boot
  <2>1. CASE RuntimeMade(p)
    BY <1>a, <1>b, <2>1 DEF CoreInv, LifeTypeOK
  <2>2. CASE RuntimeFails(p)
    BY <1>a, <1>c, <2>2 DEF CoreInv, LifeTypeOK
  <2> QED BY <2>1, <2>2
<1>2. /\ rt[p].of \in Id /\ \A c \in Id : wc[c] # "booting"
      /\ \A k \in Call : call[k].at # "resetting"
      /\ \/ wc[rt[p].of] = "up" /\ single.container = rt[p].of
         \/ wc[rt[p].of] \in {"torn", "failed"} /\ single.container = None /\ single.boot = None
      /\ \A q \in Id : rt[q].made = "pending" => rt[q].of = rt[p].of
  BY <1>1, RuntimeAnswers
<1>3. \/ /\ rt'[p].made = "ok" /\ rt'[p].host = "restoring" /\ wc[rt[p].of] \in {"up", "torn"}
         /\ single'.instance = p /\ single'.promise = single.promise
      \/ /\ rt'[p].made = "failed" /\ rt'[p].host = rt[p].host /\ wc[rt[p].of] = "failed"
         /\ single'.instance = None /\ single'.promise = None
  <2>1. CASE RuntimeMade(p)
    BY <1>b, <2>1 DEF CoreInv, LifeTypeOK
  <2>2. CASE RuntimeFails(p)
    BY <1>c, <2>2 DEF CoreInv, LifeTypeOK
  <2> QED BY <2>1, <2>2
<1>4. None \notin Id
  BY IdFacts
<1>5. \A q \in Id : rt'[q].made \in {"pending", "ok"} => rt[q].made \in {"pending", "ok"}
  BY <1>1, <1>3
<1>6. Counted'
  BY <1>1, <1>3, CountStays DEF CoreInv
<1>7. RuntimesShaped'
  BY <1>1, <1>2, <1>3 DEF CoreInv, RuntimesShaped
<1>8. CallsShaped'
  BY <1>1, <1>3 DEF CoreInv, CallsShaped
<1>9. BootsHold'
  BY <1>1, <1>2 DEF CoreInv, BootsHold
<1>10. ResetsHold'
  BY <1>1, <1>2 DEF ResetsHold
<1>11. UpsHeld'
  <2>1. \A k \in Call : call[k].at = "saving" => call[k].on \in Id \ {p}
    BY <1>1 DEF CoreInv, CallsShaped
  <2> QED BY <1>1, <2>1 DEF CoreInv, UpsHeld
<1>12. PromisesHold'
  BY <1>1, <1>3, <1>4 DEF CoreInv, PromisesHold, LifeTypeOK, Some
<1>13. PendingHold'
  <2>1. \A q \in Id : rt'[q].made = "pending" => q # p /\ rt[q].made = "pending" /\ rt'[q].of = rt[p].of
    BY <1>1, <1>2, <1>3
  <2> QED BY <1>1, <1>2, <2>1 DEF PendingHold
<1>14. ReadyHolds'
  <2>1. CASE rt'[p].made = "ok"
    <3>1. single'.instance = p /\ rt'[p].of = rt[p].of /\ single'.container = single.container
      BY <1>1, <1>3, <2>1
    <3>2. single'.container \in {None, rt[p].of}
      BY <1>1, <1>2
    <3> QED BY <1>4, <3>1, <3>2 DEF ReadyHolds
  <2>2. CASE rt'[p].made = "failed"
    <3>1. single'.container = None
      BY <1>1, <1>2, <1>3, <2>2
    <3> QED BY <3>1 DEF ReadyHolds
  <2> QED BY <1>3, <2>1, <2>2
<1>15. UniqueHolds'
  <2>1. \A q \in Id : rt'[q].of = rt[q].of
    BY <1>1
  <2> QED BY <1>1, <1>5, <2>1 DEF CoreInv, UniqueHolds
<1>16. WaitsHold'
  <2>1. ~(resetDue')
    BY <1>1, <1>2 DEF resetDue
  <2>2. \A q \in Id : rt'[q].made = "pending" => q # p /\ rt[q].made = "pending" /\ rt'[q].of = rt[p].of
    BY <1>1, <1>2, <1>3
  <2>3. \A q \in Id \ {p} : rt'[q].made = rt[q].made
    BY <1>1
  <2>4. CASE rt'[p].made = "ok"
    <3>1. \A k \in Call : call[k].at = "waiting" => call[k].on \in Id /\ rt'[call[k].on].made # "failed"
      BY <1>1, <1>3, <2>3, <2>4 DEF CoreInv, CallsShaped, WaitsHold
    <3>2. ASSUME NEW k \in Call, call[k].at = "waiting", rt'[call[k].on].made = "ok"
          PROVE  single.container \in {None, rt'[call[k].on].of}
      <4>1. CASE call[k].on = p
        BY <1>1, <1>2, <4>1
      <4>2. CASE call[k].on # p
        BY <1>1, <3>1, <3>2, <4>2 DEF CoreInv, WaitsHold
      <4> QED BY <4>1, <4>2
    <3>3. single'.instance # None /\ \A c \in Id : wc'[c] # "booting"
      BY <1>1, <1>2, <1>3, <1>4, <2>4
    <3>4. wc[rt[p].of] \in {"up", "torn"}
      BY <1>3, <2>4
    <3> QED BY <1>1, <2>1, <2>2, <3>1, <3>2, <3>3, <3>4 DEF WaitsHold
  <2>5. CASE rt'[p].made = "failed"
    <3>1. \A k \in Call : call[k].at = "waiting" => call[k].on \in Id /\ rt'[call[k].on].made # "ok"
      BY <1>1, <1>3, <2>3, <2>5 DEF CoreInv, CallsShaped, WaitsHold
    <3>2. wc[rt[p].of] = "failed"
      BY <1>3, <2>5
    <3> QED BY <1>1, <2>1, <2>2, <3>1, <3>2 DEF WaitsHold
  <2> QED BY <1>3, <2>4, <2>5
<1>17. SavesHold'
  <2>1. \A q \in Id : rt'[q].of = rt[q].of /\ rt'[q].disposed = rt[q].disposed
    BY <1>1
  <2>2. \A k \in Call : call[k].at = "saving" => call[k].on \in Id
    BY DEF CoreInv, CallsShaped
  <2> QED BY <1>1, <2>1, <2>2 DEF CoreInv, SavesHold
<1>18. RestartsHold'
  <2> SUFFICES ASSUME restarted = FALSE PROVE RestartsHold'
    BY <1>1 DEF RestartsHold
  <2>1. p = single.promise /\ wc[rt[p].of] # "torn" /\ single.instance = None /\ rt[p].disposed = FALSE
    BY <1>1 DEF CoreInv, RestartsHold, RuntimesShaped
  <2>2. \A q \in Id : rt'[q].made # "pending"
    BY <1>1, <1>3, <2>1 DEF CoreInv, RestartsHold
  <2>3. \A k \in Call : call[k].kind = "restart" /\ UnderWay(k) =>
              \A j \in Call : UnderWay(j) => j = k \/ call[j].kind = "boot"
    BY DEF CoreInv, RestartsHold
  <2>4. \A k \in Call :
          call[k].kind = "restart" /\ call[k].at \in {"saving", "waiting"} /\ rt'[call[k].on].made = "ok"
              => single'.instance = call[k].on
    BY <1>1, <1>3, <1>4, <2>1 DEF CoreInv, RestartsHold, CallsShaped
  <2>5. single'.instance # None => /\ rt'[single'.instance].disposed = FALSE
                                   /\ wc[rt'[single'.instance].of] = "up"
                                   /\ single.container = rt'[single'.instance].of
    BY <1>1, <1>2, <1>3, <2>1
  <2> QED BY <1>1, <1>2, <2>2, <2>3, <2>4, <2>5 DEF RestartsHold, UnderWay
<1> QED BY <1>6, <1>7, <1>8, <1>9, <1>10, <1>11, <1>12, <1>13, <1>14, <1>15, <1>16, <1>17, <1>18 DEF CoreInv

-----------------------------------------------------------------------------
(* A release begins. *)

LEMMA NulledIs ==
    ASSUME LifeTypeOK
    PROVE  [single EXCEPT !.instance = None, !.promise = None, !.host = None]
              = [container |-> single.container, boot |-> single.boot, instance |-> None,
                 promise |-> None, host |-> None]
<1>0. single = [container |-> single.container, boot |-> single.boot, instance |-> single.instance,
                promise |-> single.promise, host |-> single.host]
  BY DEF LifeTypeOK
<1>1. PICK a : a = [single EXCEPT !.instance = None]
  OBVIOUS
<1>2. a = [container |-> single.container, boot |-> single.boot, instance |-> None,
           promise |-> single.promise, host |-> single.host]
  BY <1>0, <1>1
<1>3. PICK b : b = [a EXCEPT !.promise = None]
  OBVIOUS
<1>4. b = [container |-> single.container, boot |-> single.boot, instance |-> None,
           promise |-> None, host |-> single.host]
  BY <1>2, <1>3
<1>5. [single EXCEPT !.instance = None, !.promise = None, !.host = None] = [b EXCEPT !.host = None]
  BY <1>1, <1>3
<1> QED BY <1>4, <1>5

LEMMA DisownedIs ==
    ASSUME LifeTypeOK, NEW p \in Id, single' = disowned(single, p)
    PROVE  /\ single'.instance = None /\ single'.promise = None
           /\ single.container = of(p) => single'.container = None /\ single'.boot = None
           /\ single.container # of(p) =>
                 single'.container = single.container /\ single'.boot = single.boot
           /\ single' \in [container : Some, boot : Some, instance : Some, promise : Some, host : Some]
<1> DEFINE s == [single EXCEPT !.instance = None, !.promise = None, !.host = None]
<1>1. s = [container |-> single.container, boot |-> single.boot, instance |-> None,
           promise |-> None, host |-> None]
  BY NulledIs
<1>2. None \in Some
  BY DEF Some
<1>3. CASE s.container = rt[p].of
  <2>1. single' = [s EXCEPT !.container = None, !.boot = None]
    BY <1>3 DEF disowned, detached
  <2>2. single' = [container |-> None, boot |-> None, instance |-> None, promise |-> None, host |-> None]
    <3>1. PICK a : a = [s EXCEPT !.container = None]
      OBVIOUS
    <3>2. a = [container |-> None, boot |-> single.boot, instance |-> None, promise |-> None, host |-> None]
      BY <1>1, <3>1
    <3>3. single' = [a EXCEPT !.boot = None]
      BY <2>1, <3>1
    <3> QED BY <3>2, <3>3
  <2>3. single.container = of(p)
    BY <1>1, <1>3 DEF of
  <2> QED BY <1>2, <2>2, <2>3
<1>4. CASE s.container # rt[p].of
  <2>1. single' = s
    BY <1>4 DEF disowned, detached
  <2>2. single.container # of(p)
    BY <1>1, <1>4 DEF of
  <2> QED BY <1>1, <1>2, <2>1, <2>2 DEF LifeTypeOK
<1> QED BY <1>3, <1>4

\* The call k may release: a new call, or one that has waited for the runtime.
Releases(k, kind) ==
    /\ kind \in Kinds \ {"none", "boot"}
    /\ failures' = failures /\ UNCHANGED <<rt, wc>>
    /\ \/ /\ call[k].at = "idle" /\ ~releaseDue
          /\ restarted' = FALSE =>
                ~restarting /\ (kind = "restart" => \A j \in Call : ~UnderWay(j))
       \/ call[k].at = "waiting" /\ call[k].kind = kind
    /\ restarted' = FALSE => restarted = FALSE

\* What the calls may be under way for, as long as no restart met another.
LEMMA ReleasesApart ==
    ASSUME CoreInv, NEW k \in Call, NEW kind, NEW at \in {"waiting", "saving", "resetting", "released"},
           NEW on \in Some, Releases(k, kind), Moves(k, kind, at, on), restarted' = FALSE
    PROVE  /\ \A i \in Call : call'[i].kind = "restart" /\ (UnderWay(i))' =>
                \A j \in Call : (UnderWay(j))' => j = i \/ call'[j].kind = "boot"
           /\ kind # "restart" => \A i \in Call : call'[i].kind = "restart" => ~(UnderWay(i))'
<1>1. \A j \in Call \ {k} : call'[j] = call[j]
  BY DEF Moves
<1>2. call'[k].kind = kind /\ call'[k].at = at /\ kind # "boot"
  BY DEF Moves, Releases
<1>3. CASE call[k].at = "idle"
  <2>1. ~restarting /\ (kind = "restart" => \A j \in Call : ~UnderWay(j))
    BY <1>3 DEF Releases
  <2> QED BY <1>1, <1>2, <2>1 DEF restarting, UnderWay
<1>4. CASE call[k].at = "waiting" /\ call[k].kind = kind
  <2>1. \A i \in Call : call[i].kind = "restart" /\ UnderWay(i) =>
              \A j \in Call : UnderWay(j) => j = i \/ call[j].kind = "boot"
    BY DEF CoreInv, RestartsHold, Releases
  <2> QED BY <1>1, <1>2, <1>4, <2>1 DEF UnderWay
<1> QED BY <1>3, <1>4 DEF Releases

LEMMA CaptureKeeps ==
    ASSUME CoreInv, settled, LifeTypeOK', NEW k \in Call, NEW kind, NEW p \in Id, made(p) = "ok",
           Releases(k, kind), Captures(k, kind, p),
           \/ call[k].at = "idle" /\ p = single.instance
           \/ call[k].at = "waiting" /\ p = call[k].on /\ ~bootDue
    PROVE  CoreInv'
<1> USE DEF made, of, IsUp, ResetOf
<1>1. /\ rt' = rt /\ wc' = wc /\ failures' = failures
      /\ kind \in Kinds \ {"none", "boot"} /\ call[k].at \in {"idle", "waiting"}
      /\ restarted' = FALSE => restarted = FALSE
  BY DEF Releases
<1>2. /\ call'[k].kind = kind /\ call'[k].at = "saving" /\ call'[k].on = p
      /\ \A j \in Call \ {k} : call'[j] = call[j]
      /\ Moves(k, kind, "saving", p)
  <2>1. Moves(k, kind, "saving", p)
    BY Begins DEF Captures, CoreInv, Kinds, Places, Some, Releases
  <2> QED BY <2>1 DEF Moves
<1>3. None \notin Id
  BY IdFacts
<1>4. /\ \A c \in Id : wc[c] # "booting"
      /\ single.container \in {None, rt[p].of}
  <2>1. CASE call[k].at = "idle"
    BY <1>3, <2>1 DEF CoreInv, BootsHold, ReadyHolds
  <2>2. CASE call[k].at = "waiting"
    BY <2>2 DEF CoreInv, WaitsHold
  <2> QED BY <1>1, <2>1, <2>2
<1>5. /\ \A q \in Id : rt[q].made # "pending"
      /\ \A j \in Call : call[j].at # "resetting"
  BY <1>4, SettledFacts DEF CoreInv, RuntimesShaped, CallsShaped
<1>6. /\ \A j \in Call : call'[j].at # "resetting"
      /\ \A j \in Call : call'[j].at = "waiting" => call'[j] = call[j]
      /\ \A j \in Call : call[j].at = "saving" => call'[j] = call[j]
  BY <1>1, <1>2, <1>5
<1>7. \/ kind = "restart" /\ single' = single
      \/ /\ kind # "restart" /\ single'.container = None /\ single'.boot = None
         /\ single'.instance = None /\ single'.promise = None
  <2>1. CASE kind = "restart"
    BY <2>1 DEF Captures
  <2>2. CASE kind # "restart"
    <3>1. single.container = None => single.boot = None
      BY <1>3, <1>4 DEF CoreInv, BootsHold, LifeTypeOK, Some
    <3>2. single' = disowned(single, p)
      BY <2>2 DEF Captures
    <3> QED BY <1>4, <2>2, <3>1, <3>2, DisownedIs DEF CoreInv
  <2> QED BY <2>1, <2>2
<1>8. Counted' /\ RuntimesShaped'
  BY <1>1, CountStays DEF CoreInv, RuntimesShaped
<1>9. CallsShaped'
  BY <1>1, <1>2 DEF CoreInv, CallsShaped
<1>10. BootsHold'
  BY <1>1, <1>4, <1>7 DEF CoreInv, BootsHold
<1>11. ResetsHold'
  BY <1>6 DEF ResetsHold
<1>12. UpsHeld'
  <2> SUFFICES ASSUME failures = 0, NEW c \in Id, wc[c] = "up"
               PROVE  \/ single'.container = c
                      \/ \E j \in Call : call'[j].at = "saving" /\ call'[j].kind # "restart"
                                         /\ rt[call'[j].on].of = c
    BY <1>1 DEF UpsHeld
  <2>1. CASE single.container = c
    BY <1>2, <1>3, <1>4, <1>7, <2>1
  <2>2. CASE \E j \in Call : call[j].at = "saving" /\ call[j].kind # "restart" /\ rt[call[j].on].of = c
    BY <1>6, <2>2
  <2> QED BY <2>1, <2>2 DEF CoreInv, UpsHeld
<1>13. PromisesHold'
  BY <1>1, <1>7 DEF CoreInv, PromisesHold
<1>14. PendingHold'
  BY <1>1, <1>5 DEF PendingHold
<1>15. ReadyHolds'
  BY <1>1, <1>7 DEF CoreInv, ReadyHolds
<1>16. UniqueHolds'
  BY <1>1, <1>5 DEF CoreInv, UniqueHolds
<1>17. WaitsHold'
  <2>1. ~(resetDue')
    BY <1>6 DEF resetDue
  <2>2. ASSUME NEW j \in Call, call'[j].at = "waiting", rt[call[j].on].made = "ok"
        PROVE  /\ bootDue' => single'.instance # None
               /\ single'.container \in {None, rt[call[j].on].of}
               /\ \A i \in Call : call'[i].at = "waiting" => rt[call'[i].on].made # "failed"
    <3>1. call'[j] = call[j] /\ releaseDue
      BY <1>6, <2>2 DEF releaseDue
    <3>2. call[k].at = "waiting" /\ ~bootDue
      BY <1>1, <3>1 DEF Releases
    <3>3. [q \in Id |-> rt[q].made]' = [q \in Id |-> rt[q].made]
      BY <1>1
    <3>4. mayGet' => mayGet
      BY <1>7, <3>3 DEF mayGet, nextRt, nextOf
    <3>5. ~(bootDue')
      BY <1>2, <3>2, <3>4 DEF bootDue
    <3>6. single.container \in {None, rt[call[j].on].of}
          /\ \A i \in Call : call[i].at = "waiting" => rt[call[i].on].made # "failed"
      BY <2>2, <3>1 DEF CoreInv, WaitsHold
    <3> QED BY <1>6, <1>7, <3>5, <3>6
  <2> QED BY <1>1, <1>4, <1>5, <1>6, <2>1, <2>2 DEF WaitsHold
<1>18. SavesHold'
  <2>1. \A j \in Call : call'[j].at = "saving" => call'[j].on \in Id /\ rt[call'[j].on].made = "ok"
    BY <1>1, <1>9 DEF CallsShaped
  <2>2. \A q \in Id : rt[q].made = "ok" => rt[q].of \in Id
    BY DEF CoreInv, RuntimesShaped
  <2>3. \A q \in Id : rt[q].disposed = TRUE => rt[q].made = "ok"
    BY DEF CoreInv, RuntimesShaped
  <2>4. CASE kind = "restart"
    <3>1. single' = single /\ \A j \in Call : call'[j].at = "saving" /\ call'[j].kind # "restart" => call'[j] = call[j]
      BY <1>2, <1>7, <2>4
    <3> QED BY <1>1, <3>1 DEF CoreInv, SavesHold
  <2>5. CASE kind # "restart"
    BY <1>1, <1>3, <1>7, <2>1, <2>2, <2>3, <2>5 DEF SavesHold
  <2> QED BY <2>4, <2>5
<1>19. RestartsHold'
  <2> SUFFICES ASSUME restarted' = FALSE PROVE RestartsHold'
    BY DEF RestartsHold
  <2>1. /\ \A i \in Call : call'[i].kind = "restart" /\ (UnderWay(i))' =>
                \A j \in Call : (UnderWay(j))' => j = i \/ call'[j].kind = "boot"
        /\ kind # "restart" => \A i \in Call : call'[i].kind = "restart" => ~(UnderWay(i))'
    BY <1>2, ReleasesApart DEF Some
  <2>2. CASE kind = "restart"
    <3>1. p = single.instance
      BY <1>1, <2>2 DEF CoreInv, RestartsHold, Releases
    <3>2. single' = single
      BY <1>7, <2>2
    <3>3. \A j \in Call : call'[j].kind = "restart" /\ call'[j].at \in {"saving", "waiting"}
                            /\ rt[call'[j].on].made = "ok" => single.instance = call'[j].on
      BY <1>1, <1>2, <3>1 DEF CoreInv, RestartsHold
    <3>4. single.instance # None =>
              /\ rt[single.instance].disposed = FALSE /\ wc[rt[single.instance].of] = "up"
              /\ single.container = rt[single.instance].of
      BY <1>1 DEF CoreInv, RestartsHold
    <3> QED BY <1>1, <1>5, <1>6, <2>1, <3>2, <3>3, <3>4 DEF RestartsHold
  <2>3. CASE kind # "restart"
    <3>1. \A j \in Call : call'[j].kind = "restart" => call'[j].at \notin {"saving", "waiting"}
      BY <2>1, <2>3 DEF UnderWay
    <3>2. single'.instance = None
      BY <1>7, <2>3
    <3> QED BY <1>1, <1>5, <1>6, <2>1, <3>1, <3>2 DEF RestartsHold
  <2> QED BY <2>2, <2>3
<1> QED BY <1>8, <1>9, <1>10, <1>11, <1>12, <1>13, <1>14, <1>15, <1>16, <1>17, <1>18, <1>19 DEF CoreInv

LEMMA WaitKeeps ==
    ASSUME CoreInv, settled, LifeTypeOK', NEW k \in Call, NEW kind,
           call[k].at = "idle", Releases(k, kind),
           single.instance = None, single.promise # None,
           begin(k, kind, "waiting", single.promise), UNCHANGED single
    PROVE  CoreInv'
<1> USE DEF made, of, IsUp, ResetOf
<1>1. /\ rt' = rt /\ wc' = wc /\ failures' = failures /\ single' = single
      /\ kind \in Kinds \ {"none", "boot"} /\ ~releaseDue
      /\ restarted' = FALSE => restarted = FALSE
  BY DEF Releases
<1>2. single.promise \in Id /\ rt[single.promise].made = "pending"
  BY DEF CoreInv, LifeTypeOK, Some, PromisesHold
<1>3. /\ call'[k].kind = kind /\ call'[k].at = "waiting" /\ call'[k].on = single.promise
      /\ \A j \in Call \ {k} : call'[j] = call[j]
      /\ Moves(k, kind, "waiting", single.promise)
  <2>1. Moves(k, kind, "waiting", single.promise)
    BY <1>1, <1>2, Begins DEF CoreInv, Kinds, Places, Some
  <2> QED BY <2>1 DEF Moves
<1>4. /\ \A j \in Call : call'[j].at = "resetting" <=> call[j].at = "resetting"
      /\ \A j \in Call : call[j].at = "resetting" => call'[j] = call[j]
      /\ \A j \in Call : call'[j].at = "waiting" => rt[call'[j].on].made = "pending"
      /\ \A j \in Call : call'[j].at = "saving" => call'[j] = call[j]
      /\ \A j \in Call : call[j].at = "saving" => call'[j] = call[j]
  BY <1>1, <1>2, <1>3 DEF releaseDue
<1>5. Counted' /\ RuntimesShaped'
  BY <1>1, CountStays DEF CoreInv, RuntimesShaped
<1>6. CallsShaped'
  BY <1>1, <1>2, <1>3 DEF CoreInv, CallsShaped
<1>7. BootsHold' /\ PromisesHold'
  BY <1>1 DEF CoreInv, BootsHold, PromisesHold
<1>8. ResetsHold'
  BY <1>1, <1>4 DEF CoreInv, ResetsHold
<1>9. UpsHeld'
  BY <1>1, <1>4 DEF CoreInv, UpsHeld
<1>10. \A c \in Id : (ResetOf(c))' <=> ResetOf(c)
  BY <1>4
<1>11. PendingHold' /\ UniqueHolds'
  BY <1>1, <1>10 DEF CoreInv, PendingHold, UniqueHolds, RuntimesShaped
<1>12. ReadyHolds'
  BY <1>1 DEF CoreInv, ReadyHolds
<1>13. WaitsHold'
  BY <1>1, <1>4 DEF WaitsHold
<1>14. SavesHold'
  BY <1>1, <1>4 DEF CoreInv, SavesHold
<1>15. RestartsHold'
  <2> SUFFICES ASSUME restarted' = FALSE PROVE RestartsHold'
    BY DEF RestartsHold
  <2>1. \A i \in Call : call'[i].kind = "restart" /\ (UnderWay(i))' =>
                \A j \in Call : (UnderWay(j))' => j = i \/ call'[j].kind = "boot"
    BY <1>2, <1>3, ReleasesApart DEF Some
  <2>2. \A j \in Call : call'[j].kind = "restart" /\ call'[j].at \in {"saving", "waiting"}
                            /\ rt[call'[j].on].made = "ok" => single.instance = call'[j].on
    BY <1>1, <1>4 DEF CoreInv, RestartsHold
  <2> QED BY <1>1, <1>4, <2>1, <2>2 DEF CoreInv, RestartsHold
<1> QED BY <1>5, <1>6, <1>7, <1>8, <1>9, <1>11, <1>12, <1>13, <1>14, <1>15 DEF CoreInv

\* Nothing to release, but a boot to wait for.
LEMMA ResetKeeps ==
    ASSUME CoreInv, settled, LifeTypeOK', NEW k \in Call, NEW kind,
           call[k].at = "idle", Releases(k, kind),
           single.instance = None, single.promise = None, Resets(k, kind)
    PROVE  CoreInv'
<1> USE DEF made, of, IsUp, ResetOf
<1>1. /\ rt' = rt /\ wc' = wc /\ failures' = failures
      /\ kind \in Kinds \ {"none", "boot"} /\ ~releaseDue
      /\ restarted' = FALSE => restarted = FALSE
  BY DEF Releases
<1>2. None \notin Id
  BY IdFacts
<1>3. single.container = None /\ (single.boot # None => single.boot \in Id /\ wc[single.boot] = "booting")
  BY <1>2 DEF CoreInv, ReadyHolds, BootsHold, LifeTypeOK, Some
<1>4. /\ single'.container = None /\ single'.boot = single.boot
      /\ single'.instance = None /\ single'.promise = None
  <2>1. single = [container |-> single.container, boot |-> single.boot, instance |-> single.instance,
                promise |-> single.promise, host |-> single.host]
    BY DEF CoreInv, LifeTypeOK
  <2>2. single' = [single EXCEPT !.instance = None, !.promise = None, !.host = None]
    BY <1>3 DEF Resets
  <2>3. single.instance = None /\ single.promise = None /\ single.container = None
    BY <1>3
  <2> QED BY <2>1, <2>2, <2>3
<1>5. PICK at \in {"resetting", "released"} :
        /\ at = "resetting" <=> single.boot # None
        /\ begin(k, kind, at, single.boot)
  BY <1>3 DEF Resets
<1>6. /\ call'[k].kind = kind /\ call'[k].at = at /\ call'[k].on = single.boot
      /\ \A j \in Call \ {k} : call'[j] = call[j]
      /\ Moves(k, kind, at, single.boot)
  <2>1. single.boot \in Some
    BY DEF CoreInv, LifeTypeOK
  <2>2. Moves(k, kind, at, single.boot)
    BY <1>1, <1>5, <2>1, Begins DEF CoreInv, Kinds, Places
  <2> QED BY <2>2 DEF Moves
<1>7. /\ \A j \in Call : call'[j].at = "resetting" => call'[j].on = single.boot /\ wc[single.boot] = "booting"
      /\ \A j \in Call : call[j].at = "resetting" => call'[j] = call[j]
      /\ \A j \in Call : call'[j].at = "waiting" => rt[call'[j].on].made = "pending"
      /\ \A j \in Call : call'[j].at = "saving" => call'[j] = call[j]
      /\ \A j \in Call : call[j].at = "saving" => call'[j] = call[j]
  <2>1. \A j \in Call : call[j].at = "resetting" => wc[call[j].on] = "booting" /\ call[j].on = single.boot
    BY SettledFacts DEF CoreInv, BootsHold, CallsShaped
  <2> QED BY <1>1, <1>3, <1>5, <1>6, <2>1 DEF releaseDue
<1>8. Counted' /\ RuntimesShaped'
  BY <1>1, CountStays DEF CoreInv, RuntimesShaped
<1>9. CallsShaped'
  BY <1>1, <1>3, <1>5, <1>6 DEF CoreInv, CallsShaped
<1>10. BootsHold' /\ PromisesHold'
  BY <1>1, <1>3, <1>4 DEF CoreInv, BootsHold, PromisesHold
<1>11. ResetsHold'
  BY <1>1, <1>7 DEF CoreInv, ResetsHold, RuntimesShaped
<1>12. UpsHeld'
  BY <1>1, <1>3, <1>4, <1>7 DEF CoreInv, UpsHeld
<1>13. \A c \in Id : ResetOf(c) => (ResetOf(c))'
  BY <1>7
<1>14. PendingHold' /\ UniqueHolds'
  <2>1. PendingHold'
    <3>1. \A q \in Id : rt[q].made = "pending" => wc[rt[q].of] = "booting" /\ rt[q].of \in Id
      BY SettledFacts DEF CoreInv, RuntimesShaped
    <3>2. \A q \in Id : rt[q].made = "pending" => ResetOf(rt[q].of)
      BY <3>1, <1>2 DEF CoreInv, PendingHold
    <3> QED BY <1>1, <1>13, <3>1, <3>2 DEF PendingHold
  <2>2. UniqueHolds'
    BY <1>1, <1>13 DEF CoreInv, UniqueHolds, RuntimesShaped
  <2> QED BY <2>1, <2>2
<1>15. ReadyHolds'
  BY <1>4 DEF ReadyHolds
<1>16. WaitsHold'
  BY <1>1, <1>7 DEF WaitsHold
<1>17. SavesHold'
  BY <1>1, <1>3, <1>4, <1>7 DEF CoreInv, SavesHold
<1>18. RestartsHold'
  <2> SUFFICES ASSUME restarted' = FALSE PROVE RestartsHold'
    BY DEF RestartsHold
  <2>1. \A i \in Call : call'[i].kind = "restart" /\ (UnderWay(i))' =>
                \A j \in Call : (UnderWay(j))' => j = i \/ call'[j].kind = "boot"
    <3>1. single.boot \in Some
      BY DEF CoreInv, LifeTypeOK
    <3>2. at \in {"waiting", "saving", "resetting", "released"}
      BY <1>5
    <3> QED BY <1>6, <3>1, <3>2, ReleasesApart
  <2>2. \A j \in Call : call'[j].kind = "restart" /\ call'[j].at \in {"saving", "waiting"}
                            /\ rt[call'[j].on].made = "ok" => single.instance = call'[j].on
    BY <1>1, <1>7 DEF CoreInv, RestartsHold
  <2>3. single.boot = None
    <3>1. \A q \in Id : rt[q].made = "pending" => q = None
      BY <1>1 DEF CoreInv, RestartsHold
    <3> QED BY <1>2, <1>3, <3>1 DEF CoreInv, BootsHold
  <2>4. \A j \in Call : call'[j].at # "resetting"
    BY <1>1, <1>5, <1>6, <2>3 DEF CoreInv, RestartsHold
  <2> QED BY <1>1, <1>4, <2>1, <2>2, <2>4 DEF CoreInv, RestartsHold
<1> QED BY <1>8, <1>9, <1>10, <1>11, <1>12, <1>14, <1>15, <1>16, <1>17, <1>18 DEF CoreInv

-----------------------------------------------------------------------------
(* A reset ends, a release fails. *)

LEMMA ResetEndKeeps ==
    ASSUME CoreInv, LifeTypeOK', NEW k \in Call, ResetEnds(k)
    PROVE  CoreInv'
<1> USE DEF made, of, IsUp, ResetOf
<1> DEFINE c == call[k].on
<1>1. /\ call[k].at = "resetting" /\ wc[c] # "booting" /\ c \in Id
      /\ rt' = rt /\ failures' = failures /\ restarted' = restarted
  BY DEF ResetEnds, Works, history, CoreInv, CallsShaped
<1>2. None \notin Id
  BY IdFacts
<1>3. /\ \/ wc[c] = "up" /\ single.container = c
         \/ wc[c] \in {"torn", "failed"} /\ single.container = None /\ single.boot = None
      /\ \A q \in Id : rt[q].made = "ok" => rt[q].of # c
      /\ \A j \in Call : call[j].at = "resetting" => call[j].on = c
  BY <1>1 DEF CoreInv, ResetsHold
<1>4. \A d \in Id : wc[d] # "booting"
  BY <1>1, <1>2, <1>3 DEF CoreInv, BootsHold
<1>5. PICK at \in {"released", "threw"} :
        /\ Moves(k, call[k].kind, at, None)
        /\ at = "threw" => UNCHANGED <<single, wc>> /\ wc[c] = "failed"
        /\ at = "released" =>
              /\ single' = [single EXCEPT !.container = None, !.boot = None]
              /\ wc' = [wc EXCEPT ![c] = "torn"] /\ wc[c] # "failed"
  <2>1. "released" \in Places /\ "threw" \in Places /\ None \in Some
    BY DEF Places, Some
  <2>2. CASE wc[c] = "failed"
    <3>1. goTo(k, "threw", None) /\ UNCHANGED <<single, wc>>
      BY <2>2 DEF ResetEnds
    <3>2. Moves(k, call[k].kind, "threw", None)
      BY <2>1, <3>1, GoesTo DEF CoreInv
    <3> QED BY <2>2, <3>1, <3>2
  <2>3. CASE wc[c] # "failed"
    <3>1. /\ goTo(k, "released", None)
          /\ single' = [single EXCEPT !.container = None, !.boot = None]
          /\ wc' = [wc EXCEPT ![c] = "torn"]
      BY <2>3 DEF ResetEnds
    <3>2. Moves(k, call[k].kind, "released", None)
      BY <2>1, <3>1, GoesTo DEF CoreInv
    <3> QED BY <2>3, <3>1, <3>2
  <2> QED BY <2>2, <2>3
<1>6. /\ call'[k].kind = call[k].kind /\ call'[k].at = at
      /\ \A j \in Call \ {k} : call'[j] = call[j]
  BY <1>5 DEF Moves
<1>7. /\ \A d \in Id \ {c} : wc'[d] = wc[d]
      /\ wc[c] = "failed" => wc'[c] = "failed"
      /\ wc[c] # "failed" => wc'[c] = "torn"
      /\ single'.container = None /\ single'.boot = None
      /\ single'.instance = single.instance /\ single'.promise = single.promise
  <2>1. single = [container |-> single.container, boot |-> single.boot, instance |-> single.instance,
                promise |-> single.promise, host |-> single.host]
    BY DEF CoreInv, LifeTypeOK
  <2>2. CASE at = "threw"
    <3>1. wc' = wc /\ single' = single /\ wc[c] = "failed"
      BY <1>5, <2>2
    <3>2. single.container = None /\ single.boot = None
      BY <1>3, <3>1
    <3> QED BY <3>1, <3>2
  <2>3. CASE at = "released"
    <3>1. wc' = [wc EXCEPT ![c] = "torn"] /\ wc[c] # "failed"
          /\ single' = [single EXCEPT !.container = None, !.boot = None]
      BY <1>5, <2>3
    <3>2. /\ single'.container = None /\ single'.boot = None
          /\ single'.instance = single.instance /\ single'.promise = single.promise
      BY <2>1, <3>1
    <3>3. wc'[c] = "torn" /\ \A d \in Id \ {c} : wc'[d] = wc[d]
      BY <1>1, <3>1 DEF CoreInv, LifeTypeOK
    <3> QED BY <3>1, <3>2, <3>3
  <2> QED BY <2>2, <2>3
<1> HIDE DEF c
<1>8. \A d \in Id : wc'[d] # "booting" /\ (wc'[d] = "up" => wc[d] = "up" /\ d # c)
  BY <1>3, <1>4, <1>7
<1>9. /\ \A j \in Call : call'[j].at \in {"resetting", "waiting", "saving"} => call'[j] = call[j]
      /\ \A j \in Call : call[j].at = "saving" => call'[j] = call[j]
      /\ \A j \in Call : call'[j].at = "waiting" => rt[call'[j].on].made = "pending"
  <2>1. resetDue
    BY <1>1 DEF resetDue, c
  <2> QED BY <1>1, <1>6, <2>1 DEF CoreInv, WaitsHold
<1>10. Counted'
  <2>1. \A i \in Id : wc[i] = "none" <=> wc'[i] = "none"
    BY <1>3, <1>7
  <2> QED BY <1>1, <2>1, CountStays DEF CoreInv
<1>11. RuntimesShaped'
  BY <1>1, <1>3, <1>7 DEF CoreInv, RuntimesShaped
<1>12. CallsShaped'
  BY <1>1, <1>6 DEF CoreInv, CallsShaped
<1>13. BootsHold'
  BY <1>7, <1>8 DEF BootsHold
<1>14. ResetsHold'
  BY <1>1, <1>3, <1>7, <1>9 DEF ResetsHold
<1>15. UpsHeld'
  BY <1>1, <1>2, <1>3, <1>8, <1>9 DEF CoreInv, UpsHeld
<1>16. PromisesHold'
  BY <1>1, <1>7 DEF CoreInv, PromisesHold
<1>17. PendingHold'
  <2>1. \A q \in Id : rt[q].made = "pending" =>
          /\ rt[q].of \in Id
          /\ \/ wc[rt[q].of] = "up" /\ single.container = rt[q].of
             \/ wc[rt[q].of] \in {"torn", "failed"}
          /\ \A r \in Id : rt[r].made = "pending" => rt[r].of = rt[q].of
    BY <1>4 DEF CoreInv, PendingHold, RuntimesShaped
  <2>2. \A q \in Id : rt[q].made = "pending" => wc'[rt[q].of] \in {"torn", "failed"}
    BY <1>2, <1>3, <1>7, <2>1
  <2> QED BY <1>1, <1>7, <2>1, <2>2 DEF PendingHold
<1>18. ReadyHolds'
  BY <1>7 DEF ReadyHolds
<1>19. UniqueHolds'
  <2>1. \A q \in Id : rt[q].made \in {"pending", "ok"} => rt[q].of \in Id
    BY DEF CoreInv, RuntimesShaped
  <2>2. \A d \in Id : ResetOf(d) => d = c
    BY <1>3
  <2> QED BY <1>1, <1>8, <2>1, <2>2 DEF CoreInv, UniqueHolds
<1>20. WaitsHold'
  BY <1>1, <1>9 DEF WaitsHold
<1>21. SavesHold'
  <2>1. \A j \in Call : call'[j].at = "saving" => rt[call'[j].on].of \in Id
    BY <1>9 DEF CoreInv, CallsShaped, RuntimesShaped
  <2>2. \A q \in Id : rt[q].disposed = TRUE => rt[q].of \in Id
    BY DEF CoreInv, RuntimesShaped
  <2> QED BY <1>1, <1>2, <1>7, <2>1, <2>2 DEF SavesHold
<1>22. RestartsHold'
  BY <1>1 DEF CoreInv, RestartsHold
<1> QED BY <1>10, <1>11, <1>12, <1>13, <1>14, <1>15, <1>16, <1>17, <1>18, <1>19, <1>20, <1>21, <1>22 DEF CoreInv

\* The runtime was not made, or the changes could not be saved.
LEMMA ThrowKeeps ==
    ASSUME CoreInv, settled, LifeTypeOK', NEW k \in Call, goTo(k, "threw", None),
           UNCHANGED <<single, wc, rt, restarted>>,
           \/ call[k].at = "waiting" /\ made(call[k].on) = "failed" /\ failures' = failures
           \/ call[k].at = "saving" /\ ~releaseDue /\ failures' # 0
    PROVE  CoreInv'
<1> USE DEF made, of, IsUp, ResetOf
<1>1. Moves(k, call[k].kind, "threw", None)
  BY GoesTo DEF CoreInv, Places, Some
<1>2. /\ call'[k].kind = call[k].kind /\ call'[k].at = "threw"
      /\ \A j \in Call \ {k} : call'[j] = call[j]
      /\ single' = single /\ wc' = wc /\ rt' = rt /\ restarted' = restarted
  BY <1>1 DEF Moves
<1>3. /\ \A j \in Call : call'[j].at \in {"resetting", "waiting", "saving"} => call'[j] = call[j]
      /\ \A j \in Call : call[j].at = "resetting" => call'[j] = call[j]
      /\ call[k].at = "waiting" => \A j \in Call : call[j].at = "saving" => call'[j] = call[j]
  BY <1>2
<1>4. Counted' /\ RuntimesShaped' /\ BootsHold' /\ PromisesHold'
  BY <1>2, CountStays DEF CoreInv, RuntimesShaped, BootsHold, PromisesHold
<1>5. CallsShaped'
  BY <1>2 DEF CoreInv, CallsShaped
<1>6. ResetsHold'
  BY <1>2, <1>3 DEF CoreInv, ResetsHold
<1>7. UpsHeld'
  BY <1>2, <1>3 DEF CoreInv, UpsHeld
<1>8. \A c \in Id : (ResetOf(c))' <=> ResetOf(c)
  BY <1>3
<1>9. PendingHold' /\ UniqueHolds'
  BY <1>2, <1>8 DEF CoreInv, PendingHold, UniqueHolds, RuntimesShaped
<1>10. ReadyHolds'
  BY <1>2 DEF CoreInv, ReadyHolds
<1>11. WaitsHold'
  <2>1. ~(resetDue')
    BY <1>2, <1>3 DEF settled, resetDue
  <2>2. \A j \in Call : call'[j].at = "waiting" => call'[j] = call[j] /\ rt[call[j].on].made # "ok"
    <3>1. CASE call[k].at = "waiting"
      BY <1>3, <3>1 DEF CoreInv, WaitsHold
    <3>2. CASE ~releaseDue
      BY <1>3, <3>2 DEF releaseDue
    <3> QED BY <3>1, <3>2
  <2> QED BY <1>2, <2>1, <2>2 DEF CoreInv, WaitsHold
<1>12. SavesHold'
  BY <1>2, <1>3 DEF CoreInv, SavesHold
<1>13. RestartsHold'
  <2>1. \A j \in Call : call'[j].kind = call[j].kind /\ ((UnderWay(j))' <=> UnderWay(j))
    BY <1>2 DEF UnderWay
  <2> QED BY <1>2, <1>3, <2>1 DEF CoreInv, RestartsHold
<1> QED BY <1>4, <1>5, <1>6, <1>7, <1>9, <1>10, <1>11, <1>12, <1>13 DEF CoreInv

-----------------------------------------------------------------------------
(* The flushes are over. *)

\* The runtime p is disposed.
Disposes(p) ==
    /\ rt'[p].of = of(p) /\ rt'[p].made = made(p) /\ rt'[p].host = rt[p].host
    /\ rt'[p].disposed = TRUE
    /\ \A q \in Id \ {p} : rt'[q] = rt[q]

LEMMA SavedFacts ==
    ASSUME CoreInv, NEW k \in Call, Saved(k)
    PROVE  /\ ~due /\ settled /\ ~releaseDue /\ call[k].at = "saving"
           /\ call[k].on \in Id /\ made(call[k].on) = "ok" /\ of(call[k].on) \in Id
           /\ wc[of(call[k].on)] \in {"up", "torn"}
           /\ Disposes(call[k].on)
           /\ failures' = failures /\ restarted' = restarted
<1>1. /\ ~due /\ call[k].at = "saving" /\ failures' = failures /\ restarted' = restarted
      /\ rt' = [rt EXCEPT ![call[k].on].disposed = TRUE]
  BY DEF Saved, Works
<1>2. call[k].on \in Id /\ made(call[k].on) = "ok"
  BY <1>1 DEF CoreInv, CallsShaped
<1>3. of(call[k].on) \in Id /\ wc[of(call[k].on)] \in {"up", "torn"}
  BY <1>2 DEF CoreInv, RuntimesShaped
<1>4. Disposes(call[k].on)
  BY <1>1, <1>2 DEF Disposes, CoreInv, LifeTypeOK, RuntimeRecords, made, of
<1> QED BY <1>1, <1>2, <1>3, <1>4, Quiet

LEMMA ReleasedKeeps ==
    ASSUME CoreInv, LifeTypeOK', NEW k \in Call, Saved(k), call[k].kind # "restart"
    PROVE  CoreInv'
<1> USE DEF made, of, IsUp, ResetOf
<1> DEFINE p == call[k].on
<1>1. /\ ~due /\ settled /\ ~releaseDue /\ call[k].at = "saving"
      /\ p \in Id /\ rt[p].made = "ok" /\ rt[p].of \in Id
      /\ wc[rt[p].of] \in {"up", "torn"}
      /\ failures' = failures /\ restarted' = restarted
  BY SavedFacts
<1>2. /\ rt'[p].of = rt[p].of /\ rt'[p].made = rt[p].made /\ rt'[p].host = rt[p].host
      /\ rt'[p].disposed = TRUE
      /\ \A q \in Id \ {p} : rt'[q] = rt[q]
  BY SavedFacts DEF Disposes
<1>3. None \notin Id
  BY IdFacts
<1>4. single.container # rt[p].of
  BY <1>1 DEF CoreInv, SavesHold
<1>5. /\ single' = single
      /\ wc'[rt[p].of] = "torn" /\ \A d \in Id \ {rt[p].of} : wc'[d] = wc[d]
      /\ goTo(k, "released", None)
  BY <1>1, <1>4 DEF Saved, detached, CoreInv, LifeTypeOK
<1>6. /\ call'[k].kind = call[k].kind /\ call'[k].at = "released"
      /\ \A j \in Call \ {k} : call'[j] = call[j]
  <2>1. Moves(k, call[k].kind, "released", None)
    BY <1>5, GoesTo DEF CoreInv, Places, Some
  <2> QED BY <2>1 DEF Moves
<1> DEFINE c == rt[p].of
<1> HIDE DEF p
<1>7. /\ \A q \in Id : rt[q].made = "pending" => wc[rt[q].of] = "booting" /\ rt[q].of \in Id \ {c}
      /\ \A j \in Call : call[j].at = "resetting" => wc[call[j].on] = "booting" /\ call[j].on \in Id \ {c}
  BY <1>1, SettledFacts DEF CoreInv, RuntimesShaped, CallsShaped
<1>8. /\ \A q \in Id : rt'[q].made = rt[q].made /\ rt'[q].of = rt[q].of
      /\ \A d \in Id : wc'[d] \in {"booting", "up"} => wc[d] = wc'[d] /\ d # c
      /\ \A d \in Id : wc[d] = "booting" => wc'[d] = "booting"
  BY <1>1, <1>2, <1>5
<1>9. /\ \A j \in Call : call'[j].at \in {"resetting", "waiting", "saving"} => call'[j] = call[j]
      /\ \A j \in Call : call[j].at = "resetting" => call'[j] = call[j]
      /\ \A j \in Call : call'[j].at = "waiting" => rt'[call'[j].on].made = "pending"
  <2>1. \A j \in Call : call'[j].at = "waiting" => call'[j] = call[j] /\ call[j].on \in Id
    BY <1>6 DEF CoreInv, CallsShaped
  <2>2. \A j \in Call : call'[j].at = "waiting" => rt[call'[j].on].made = "pending"
    BY <1>1, <2>1 DEF releaseDue
  <2> QED BY <1>1, <1>6, <1>8, <2>1, <2>2
<1>10. Counted'
  <2>1. \A i \in Id : wc[i] = "none" <=> wc'[i] = "none"
    BY <1>1, <1>5
  <2> QED BY <1>8, <2>1, CountStays DEF CoreInv
<1>11. RuntimesShaped'
  BY <1>1, <1>2, <1>5 DEF CoreInv, RuntimesShaped
<1>12. CallsShaped'
  BY <1>1, <1>6, <1>8 DEF CoreInv, CallsShaped
<1>13. BootsHold'
  BY <1>1, <1>3, <1>4, <1>5, <1>8 DEF CoreInv, BootsHold, LifeTypeOK, Some
<1>14. ResetsHold'
  BY <1>7, <1>8, <1>9 DEF CoreInv, ResetsHold
<1>15. UpsHeld'
  <2> SUFFICES ASSUME failures = 0, NEW d \in Id, wc'[d] = "up"
               PROVE  \/ single.container = d
                      \/ \E j \in Call : call'[j].at = "saving" /\ call'[j].kind # "restart"
                                         /\ rt'[call'[j].on].of = d
    BY <1>1, <1>5 DEF UpsHeld
  <2>1. wc[d] = "up" /\ d # c
    BY <1>8
  <2>2. ASSUME NEW j \in Call, call[j].at = "saving", call[j].kind # "restart", rt[call[j].on].of = d
        PROVE  call'[j] = call[j] /\ rt'[call[j].on].of = d
    <3>1. call[j].on \in Id
      BY <2>2 DEF CoreInv, CallsShaped
    <3>2. j # k
      BY <2>1, <2>2 DEF p
    <3> QED BY <1>6, <1>8, <2>2, <3>1, <3>2
  <2> QED BY <2>1, <2>2 DEF CoreInv, UpsHeld
<1>16. PromisesHold'
  BY <1>5, <1>8 DEF CoreInv, PromisesHold, LifeTypeOK, Some
<1>17. \A d \in Id : (ResetOf(d))' <=> ResetOf(d)
  BY <1>9
<1>18. PendingHold'
  BY <1>5, <1>7, <1>8, <1>17 DEF CoreInv, PendingHold
<1>19. ReadyHolds'
  BY <1>1, <1>5, <1>8 DEF CoreInv, ReadyHolds, LifeTypeOK, Some
<1>20. UniqueHolds'
  BY <1>8, <1>17 DEF CoreInv, UniqueHolds, RuntimesShaped
<1>21. WaitsHold'
  BY <1>9 DEF WaitsHold
<1>22. SavesHold'
  <2>1. \A j \in Call : call'[j].at = "saving" => call'[j] = call[j] /\ call[j].on \in Id
    BY <1>9 DEF CoreInv, CallsShaped
  <2> QED BY <1>2, <1>4, <1>5, <1>8, <2>1 DEF CoreInv, SavesHold
<1>23. RestartsHold'
  <2> SUFFICES ASSUME restarted = FALSE PROVE RestartsHold'
    BY <1>1 DEF RestartsHold
  <2>1. \A j \in Call : call'[j].kind = call[j].kind /\ ((UnderWay(j))' <=> UnderWay(j))
    BY <1>1, <1>6 DEF UnderWay
  <2>2. \A j \in Call : call'[j].kind = "restart" /\ call'[j].at \in {"saving", "waiting"}
                            /\ rt'[call'[j].on].made = "ok" => single.instance = call'[j].on
    <3>1. \A j \in Call : call'[j].at \in {"saving", "waiting"} => call'[j] = call[j] /\ call[j].on \in Id
      BY <1>9 DEF CoreInv, CallsShaped
    <3> QED BY <1>8, <3>1 DEF CoreInv, RestartsHold
  <2>3. single.instance # None =>
              /\ rt'[single.instance].disposed = FALSE /\ wc'[rt'[single.instance].of] = "up"
              /\ single.container = rt'[single.instance].of
    <3> SUFFICES ASSUME single.instance # None
                 PROVE  /\ rt'[single.instance].disposed = FALSE /\ wc'[rt'[single.instance].of] = "up"
                        /\ single.container = rt'[single.instance].of
      OBVIOUS
    <3>1. /\ rt[single.instance].disposed = FALSE /\ wc[rt[single.instance].of] = "up"
          /\ single.container = rt[single.instance].of /\ single.instance \in Id
          /\ rt[single.instance].of \in Id
      BY DEF CoreInv, RestartsHold, LifeTypeOK, Some, PromisesHold, RuntimesShaped
    <3>2. single.instance # p
      BY <1>4, <3>1
    <3> QED BY <1>2, <1>4, <1>5, <3>1, <3>2
  <2>4. \A q \in Id : rt'[q].made = "pending" =>
              wc'[rt'[q].of] # "torn" /\ q = single.promise /\ single.instance = None
    BY <1>7, <1>8 DEF CoreInv, RestartsHold
  <2> QED BY <1>5, <1>9, <2>1, <2>2, <2>3, <2>4 DEF CoreInv, RestartsHold
<1> QED BY <1>10, <1>11, <1>12, <1>13, <1>14, <1>15, <1>16, <1>18, <1>19, <1>20, <1>21, <1>22, <1>23 DEF CoreInv

\* A forced restart saves and tears down what is there by then.
LEMMA RestartedKeeps ==
    ASSUME CoreInv, LifeTypeOK', NEW k \in Call, Saved(k), call[k].kind = "restart"
    PROVE  CoreInv'
<1> USE DEF made, of, IsUp, ResetOf
<1> DEFINE p == call[k].on
<1>1. /\ ~due /\ settled /\ ~releaseDue /\ call[k].at = "saving"
      /\ p \in Id /\ rt[p].made = "ok" /\ rt[p].of \in Id
      /\ failures' = failures /\ restarted' = restarted
  BY SavedFacts
<1>2. /\ rt'[p].of = rt[p].of /\ rt'[p].made = rt[p].made /\ rt'[p].host = rt[p].host
      /\ rt'[p].disposed = TRUE
      /\ \A q \in Id \ {p} : rt'[q] = rt[q]
  BY SavedFacts DEF Disposes
<1>3. None \notin Id
  BY IdFacts
<1>4. Resets(k, "restart")
  BY DEF Saved
<1> DEFINE s == [single EXCEPT !.instance = None, !.promise = None, !.host = None]
<1>5. s = [container |-> single.container, boot |-> single.boot, instance |-> None,
           promise |-> None, host |-> None]
  BY NulledIs DEF CoreInv
<1>6. PICK at \in {"resetting", "released"}, on \in Some :
        /\ Moves(k, "restart", at, on)
        /\ single'.instance = None /\ single'.promise = None /\ single'.container = None
        /\ single.container # None => at = "released" /\ single'.boot = None
              /\ wc' = [wc EXCEPT ![single.container] = "torn"]
        /\ single.container = None => wc' = wc /\ single'.boot = single.boot /\ on = single.boot
              /\ (at = "resetting" <=> single.boot # None)
  <2>1. single.container \in Some /\ single.boot \in Some /\ None \in Some
    BY DEF CoreInv, LifeTypeOK, Some
  <2>2. CASE single.container # None
    <3>1. /\ single' = [s EXCEPT !.container = None, !.boot = None]
          /\ wc' = [wc EXCEPT ![single.container] = "torn"]
          /\ begin(k, "restart", "released", None)
      BY <1>4, <1>5, <2>2 DEF Resets
    <3>2. Moves(k, "restart", "released", None)
      BY <2>1, <3>1, Begins DEF CoreInv, Kinds, Places
    <3>3. /\ single'.instance = None /\ single'.promise = None /\ single'.container = None
          /\ single'.boot = None
      BY <1>5, <3>1
    <3> QED BY <2>1, <2>2, <3>1, <3>2, <3>3
  <2>3. CASE single.container = None
    <3>1. /\ single' = s /\ wc' = wc
          /\ begin(k, "restart", IF single.boot # None THEN "resetting" ELSE "released", single.boot)
      BY <1>4, <1>5, <2>3 DEF Resets
    <3>2. PICK at \in {"resetting", "released"} :
            (at = "resetting" <=> single.boot # None) /\ begin(k, "restart", at, single.boot)
      BY <3>1
    <3>3. Moves(k, "restart", at, single.boot)
      BY <2>1, <3>2, Begins DEF CoreInv, Kinds, Places
    <3>4. /\ single'.instance = None /\ single'.promise = None /\ single'.container = None
          /\ single'.boot = single.boot
      BY <1>5, <2>3, <3>1
    <3> QED BY <2>1, <2>3, <3>1, <3>2, <3>3, <3>4
  <2> QED BY <2>2, <2>3
<1>7. /\ call'[k].kind = "restart" /\ call'[k].at = at /\ call'[k].on = on
      /\ \A j \in Call \ {k} : call'[j] = call[j]
  BY <1>6 DEF Moves
<1> HIDE DEF p, s
<1>8. /\ \A q \in Id : rt[q].made = "pending" => wc[rt[q].of] = "booting" /\ rt[q].of = single.boot
      /\ \A j \in Call : call[j].at = "resetting" => wc[call[j].on] = "booting" /\ call[j].on = single.boot
      /\ single.container # None => \A d \in Id : wc[d] # "booting"
      /\ single.container # None => single.container \in Id /\ wc[single.container] = "up"
      /\ single.container = None /\ single.boot # None => single.boot \in Id /\ wc[single.boot] = "booting"
  <2>1. \A q \in Id : rt[q].made = "pending" => wc[rt[q].of] = "booting" /\ rt[q].of \in Id
    BY <1>1, SettledFacts DEF CoreInv, RuntimesShaped
  <2>2. \A j \in Call : call[j].at = "resetting" => wc[call[j].on] = "booting" /\ call[j].on \in Id
    BY <1>1, SettledFacts DEF CoreInv, CallsShaped
  <2> QED BY <1>3, <2>1, <2>2 DEF CoreInv, BootsHold, LifeTypeOK, Some
<1>9. \A q \in Id : rt'[q].made = rt[q].made /\ rt'[q].of = rt[q].of
  BY <1>2
<1>10. \A d \in Id : \/ wc'[d] = wc[d] /\ d # single.container
                     \/ wc[d] = "up" /\ wc'[d] = "torn" /\ d = single.container
  <2>1. CASE single.container = None
    BY <1>3, <1>6, <2>1
  <2>2. CASE single.container # None
    BY <1>6, <1>8, <2>2 DEF CoreInv, LifeTypeOK
  <2> QED BY <2>1, <2>2
<1>11. /\ \A j \in Call : call'[j].at = "waiting" => rt'[call'[j].on].made = "pending"
       /\ \A j \in Call : call'[j].at \in {"waiting", "saving"} => call'[j] = call[j] /\ j # k
       /\ \A j \in Call : call'[j].at = "resetting" =>
              call'[j].on = single.boot /\ wc'[single.boot] = "booting" /\ single.boot \in Id
  <2>1. \A j \in Call : call'[j].at \in {"waiting", "saving"} => call'[j] = call[j] /\ j # k
    BY <1>6, <1>7
  <2>2. \A j \in Call : call'[j].at = "waiting" => rt[call'[j].on].made = "pending" /\ call'[j].on \in Id
    BY <1>1, <2>1 DEF releaseDue, CoreInv, CallsShaped
  <2>3. \A j \in Call : call'[j].at = "resetting" =>
              call'[j].on = single.boot /\ wc[single.boot] = "booting" /\ single.boot \in Id
    <3> SUFFICES ASSUME NEW j \in Call, call'[j].at = "resetting"
                 PROVE  call'[j].on = single.boot /\ wc[single.boot] = "booting" /\ single.boot \in Id
      OBVIOUS
    <3>1. CASE j = k
      BY <1>6, <1>7, <1>8, <3>1
    <3>2. CASE j # k
      <4>1. call[j].at = "resetting" /\ call'[j].on = call[j].on /\ call[j].on \in Id
        BY <1>7, <3>2 DEF CoreInv, CallsShaped
      <4> QED BY <1>8, <4>1
    <3> QED BY <3>1, <3>2
  <2> QED BY <1>9, <1>10, <2>1, <2>2, <2>3
<1>12. Counted'
  <2>1. \A i \in Id : wc[i] = "none" <=> wc'[i] = "none"
    BY <1>10
  <2> QED BY <1>9, <2>1, CountStays DEF CoreInv
<1>13. RuntimesShaped'
  BY <1>1, <1>2, <1>9, <1>10 DEF CoreInv, RuntimesShaped
<1>14. CallsShaped'
  BY <1>6, <1>7, <1>9, <1>11 DEF CoreInv, CallsShaped
<1>15. BootsHold'
  <2>1. \A d \in Id : wc'[d] = "booting" => wc[d] = "booting" /\ single.container = None
    BY <1>8, <1>10
  <2> QED BY <1>6, <1>8, <1>9, <2>1 DEF CoreInv, BootsHold
<1>16. ResetsHold'
  <2>1. \A q \in Id : rt[q].made = "ok" => wc'[rt[q].of] # "booting"
    BY <1>10 DEF CoreInv, RuntimesShaped
  <2> QED BY <1>9, <1>11, <2>1 DEF ResetsHold
<1>17. UpsHeld'
  <2> SUFFICES ASSUME failures = 0, NEW d \in Id, wc'[d] = "up"
               PROVE  \E j \in Call : call'[j].at = "saving" /\ call'[j].kind # "restart"
                                         /\ rt'[call'[j].on].of = d
    BY <1>1 DEF UpsHeld
  <2>1. wc[d] = "up" /\ d # single.container
    BY <1>10
  <2>2. ASSUME NEW j \in Call, call[j].at = "saving", call[j].kind # "restart", rt[call[j].on].of = d
        PROVE  call'[j] = call[j] /\ rt'[call[j].on].of = d
    <3>1. call[j].on \in Id /\ j # k
      BY <2>2 DEF CoreInv, CallsShaped
    <3> QED BY <1>7, <1>9, <2>2, <3>1
  <2> QED BY <2>1, <2>2 DEF CoreInv, UpsHeld
<1>18. PromisesHold' /\ ReadyHolds'
  BY <1>6 DEF PromisesHold, ReadyHolds
<1>19. \A d \in Id : ResetOf(d) => (ResetOf(d))'
  BY <1>1, <1>7
<1>20. PendingHold'
  <2>1. \A q \in Id : rt'[q].made = "pending" =>
          /\ rt'[q].of = single.boot /\ single.boot \in Id /\ wc'[single.boot] = "booting"
          /\ call'[k].at = "resetting" /\ call'[k].on = single.boot
    <3> SUFFICES ASSUME NEW q \in Id, rt'[q].made = "pending"
                 PROVE  /\ rt'[q].of = single.boot /\ single.boot \in Id /\ wc'[single.boot] = "booting"
                        /\ call'[k].at = "resetting" /\ call'[k].on = single.boot
      OBVIOUS
    <3>1. rt[q].made = "pending" /\ rt[q].of \in Id
      BY <1>9 DEF CoreInv, RuntimesShaped
    <3>2. rt[q].of = single.boot /\ wc[single.boot] = "booting" /\ rt'[q].of = single.boot
      BY <1>8, <1>9, <3>1
    <3>3. single.container = None
      BY <1>8, <3>1, <3>2
    <3> QED BY <1>3, <1>6, <1>7, <3>1, <3>2, <3>3
  <2> QED BY <2>1 DEF PendingHold
<1>21. UniqueHolds'
  <2>1. \A d \in Id : wc'[d] \in {"booting", "up"} => wc[d] = wc'[d]
    BY <1>10
  <2> QED BY <1>9, <1>19, <2>1 DEF CoreInv, UniqueHolds, RuntimesShaped
<1>22. WaitsHold'
  BY <1>11 DEF WaitsHold
<1>23. SavesHold'
  <2>1. \A q \in Id : rt[q].made = "ok" => rt[q].of \in Id
    BY DEF CoreInv, RuntimesShaped
  <2>2. \A j \in Call : call'[j].at = "saving" => call'[j].on \in Id /\ rt[call'[j].on].made = "ok"
    BY <1>11 DEF CoreInv, CallsShaped
  <2>3. \A q \in Id : rt'[q].disposed = TRUE => rt[q].made = "ok"
    BY <1>1, <1>2 DEF CoreInv, RuntimesShaped
  <2> QED BY <1>3, <1>6, <1>9, <2>1, <2>2, <2>3 DEF SavesHold
<1>24. RestartsHold'
  <2> SUFFICES ASSUME restarted = FALSE PROVE RestartsHold'
    BY <1>1 DEF RestartsHold
  <2>1. single.instance = p /\ p # None
    BY <1>1, <1>3 DEF CoreInv, RestartsHold, p
  <2>2. single.container # None
    BY <1>1, <1>3, <2>1 DEF CoreInv, RestartsHold
  <2>3. at = "released" /\ (\A q \in Id : rt'[q].made # "pending") /\ \A j \in Call : call'[j].at # "resetting"
    <3>1. \A q \in Id : rt[q].made # "pending"
      BY <1>8, <2>2 DEF CoreInv, RuntimesShaped
    <3> QED BY <1>6, <1>7, <1>9, <2>2, <3>1 DEF CoreInv, RestartsHold
  <2>4. \A j \in Call : call'[j].kind = call[j].kind /\ ((UnderWay(j))' <=> UnderWay(j))
    BY <1>1, <1>7, <2>3 DEF UnderWay
  <2>5. \A j \in Call : UnderWay(j) /\ call[j].kind = "restart" => j = k
    BY <1>1 DEF CoreInv, RestartsHold, UnderWay
  <2>6. \A j \in Call : call'[j].kind = "restart" => call'[j].at \notin {"saving", "waiting"}
    BY <1>7, <2>3, <2>4, <2>5 DEF UnderWay
  <2> QED BY <1>6, <2>3, <2>4, <2>6 DEF CoreInv, RestartsHold
<1> QED BY <1>12, <1>13, <1>14, <1>15, <1>16, <1>17, <1>18, <1>20, <1>21, <1>22, <1>23, <1>24 DEF CoreInv

-----------------------------------------------------------------------------
(* The files: steps that write and save none. *)

SameFiles ==
    /\ files' = files /\ disk' = disk /\ hasty' = hasty
    /\ failures' = 0 => failures = 0
    /\ \A p \in Id :
          /\ Restored(p) => (Restored(p))'
          /\ made(p) = "ok" => rt'[p].of = of(p)
          /\ (Alive(p))' => Alive(p) /\ rt'[p].of = of(p)
    /\ \A c \in Id : (Over(c))' => Over(c) \/ files[c] = {}

\* No restart begins to save, nothing new is handed out or restored there.
NothingTorn ==
    /\ single'.container \in {None, single.container}
    /\ \A k \in Call : call'[k].at = "saving" /\ call'[k].kind = "restart" => call'[k] = call[k]
    /\ \A p \in Id : (Restored(p))' => Restored(p)

LEMMA FilesStay ==
    ASSUME FilesHold, SameFiles
    PROVE  FilesOwned' /\ FilesSaved'
<1>1. /\ files' = files /\ disk' = disk /\ hasty' = hasty
      /\ failures' = 0 => failures = 0
      /\ \A p \in Id : Restored(p) => (Restored(p))'
      /\ \A p \in Id : made(p) = "ok" => rt'[p].of = of(p)
      /\ \A p \in Id : Restored(p) => made(p) = "ok"
      /\ \A p \in Id : (Alive(p))' => Alive(p) /\ rt'[p].of = of(p)
      /\ \A c \in Id : (Over(c))' => Over(c) \/ files[c] = {}
  BY DEF SameFiles, Restored
<1> HIDE DEF Restored, Alive, Over
<1>2. FilesOwned'
  BY <1>1 DEF FilesHold, FilesOwned, of
<1>3. FilesSaved'
  <2> SUFFICES ASSUME hasty = FALSE, failures = 0 PROVE FilesSaved'
    BY <1>1 DEF FilesSaved
  <2>1. \A c \in Id : (Over(c))' =>
          files[c] \subseteq disk /\ \A p \in Id : Alive(p) => files[c] \subseteq files[of(p)]
    BY <1>1 DEF FilesHold, FilesSaved
  <2>2. \A p, q \in Id : Alive(p) /\ Alive(q) => of(p) = of(q)
    BY DEF FilesHold, FilesSaved
  <2> QED BY <1>1, <2>1, <2>2 DEF FilesSaved, of
<1> QED BY <1>2, <1>3

LEMMA TearsStay ==
    ASSUME CoreInv, FilesHold, SameFiles, NothingTorn
    PROVE  RestartsTear'
<1>1. /\ hasty' = hasty /\ (failures' = 0 => failures = 0)
      /\ \A p \in Id : made(p) = "ok" => rt'[p].of = of(p)
      /\ \A p \in Id : Restored(p) => made(p) = "ok"
      /\ single'.container \in {None, single.container}
      /\ \A k \in Call : call'[k].at = "saving" /\ call'[k].kind = "restart" => call'[k] = call[k]
      /\ \A p \in Id : (Restored(p))' => Restored(p)
  BY DEF SameFiles, NothingTorn, Restored
<1> HIDE DEF Restored
<1> SUFFICES ASSUME hasty = FALSE, failures = 0, NEW k \in Call, call'[k].at = "saving",
                    call'[k].kind = "restart", single'.container # None
             PROVE  \/ single'.container = rt'[call'[k].on].of
                    \/ \A p \in Id : (Restored(p))' => rt'[p].of # single'.container
  BY <1>1 DEF RestartsTear, of
<1>2. call'[k] = call[k] /\ single'.container = single.container /\ call[k].on \in Id /\ made(call[k].on) = "ok"
  BY <1>1 DEF CoreInv, CallsShaped
<1>3. \/ single.container = of(call[k].on)
      \/ \A p \in Id : Restored(p) => of(p) # single.container
  BY <1>1, <1>2 DEF FilesHold, RestartsTear
<1> QED BY <1>1, <1>2, <1>3

-----------------------------------------------------------------------------
(* Every step keeps the invariant. *)

LEMMA FailsCount ==
    ASSUME LifeTypeOK, Fails
    PROVE  failures' \in Nat /\ failures' # 0
<1>1. failures \in Nat /\ failures' = failures + 1
  BY DEF LifeTypeOK, Fails
<1> QED BY <1>1

LEMMA BootStep ==
    ASSUME LifeInv, NEW c \in Id, ContainerBoots(c) \/ ContainerFails(c)
    PROVE  LifeInv'
<1>1. /\ ~due /\ wc[c] = "booting" /\ rt' = rt /\ call' = call /\ files' = files /\ disk' = disk
      /\ hasty' = hasty /\ restarted' = restarted
      /\ \/ ContainerBoots(c) /\ failures' = failures /\ wc' = [wc EXCEPT ![c] = "up"]
            /\ single' = [single EXCEPT !.container = c]
         \/ ContainerFails(c) /\ failures' \in Nat \ {0} /\ wc' = [wc EXCEPT ![c] = "failed"]
            /\ single' = [single EXCEPT !.boot = None]
  <2>1. CASE ContainerBoots(c)
    BY <2>1 DEF ContainerBoots, Works, data, history
  <2>2. CASE ContainerFails(c)
    BY <2>2, FailsCount DEF ContainerFails, data, history, LifeInv, CoreInv
  <2> QED BY <2>1, <2>2
<1>2. LifeTypeOK
  BY DEF LifeInv, CoreInv
<1>3. LifeTypeOK'
  <2>1. c \in Some /\ None \in Some
    BY DEF Some
  <2>2. single' \in [container : Some, boot : Some, instance : Some, promise : Some, host : Some]
    BY <1>1, <1>2, <2>1 DEF LifeTypeOK
  <2>3. wc' \in [Id -> {"none", "booting", "up", "failed", "torn"}] /\ failures' \in Nat
    BY <1>1, <1>2 DEF LifeTypeOK
  <2> QED BY <1>1, <1>2, <2>2, <2>3 DEF LifeTypeOK
<1>4. CoreInv'
  BY <1>3, BootKeeps DEF LifeInv
<1>5. /\ single.container = None
      /\ \A p \in Id : made(p) \in {"ok", "failed"} => of(p) # c
  BY <1>1, Quiet, BootEnds DEF LifeInv
<1>6. /\ \A d \in Id \ {c} : wc'[d] = wc[d]
      /\ wc'[c] \in {"up", "failed"}
      /\ single'.container \in {None, c}
  BY <1>1, <1>2, <1>5 DEF LifeTypeOK
<1>7. \A p \in Id : made(p) = "ok" => of(p) \in Id
  BY DEF LifeInv, CoreInv, RuntimesShaped
<1>8. SameFiles
  <2>1. \A p \in Id : ((Restored(p))' <=> Restored(p)) /\ rt'[p].of = of(p)
    BY <1>1 DEF Restored, made, of
  <2>2. \A p \in Id : (Alive(p))' => Alive(p)
    BY <1>1, <1>5, <1>6, <1>7 DEF Alive, Restored, made, of, IsUp
  <2>3. \A d \in Id : (Over(d))' => Over(d)
    BY <1>1, <1>6 DEF Over, of
  <2>4. failures' = 0 => failures = 0
    BY <1>1
  <2> QED BY <1>1, <2>1, <2>2, <2>3, <2>4 DEF SameFiles
<1>9. FilesOwned' /\ FilesSaved'
  BY <1>8, FilesStay DEF LifeInv
<1>10. RestartsTear'
  <2>1. \A p \in Id : (Restored(p))' => rt'[p].of # c
    BY <1>1, <1>5 DEF Restored, made, of
  <2> QED BY <1>6, <2>1 DEF RestartsTear, of
<1> QED BY <1>4, <1>9, <1>10 DEF LifeInv, FilesHold

LEMMA ResetEndStep ==
    ASSUME LifeInv, NEW k \in Call, ResetEnds(k)
    PROVE  LifeInv'
<1> DEFINE c == call[k].on
<1>1. /\ call[k].at = "resetting" /\ wc[c] # "booting" /\ c \in Id
      /\ rt' = rt /\ failures' = failures /\ restarted' = restarted /\ hasty' = hasty
      /\ files' = files /\ disk' = disk
  BY DEF ResetEnds, Works, history, data, LifeInv, CoreInv, CallsShaped
<1>2. LifeTypeOK
  BY DEF LifeInv, CoreInv
<1>3. PICK at \in {"released", "threw"} :
        /\ Moves(k, call[k].kind, at, None)
        /\ \/ UNCHANGED <<single, wc>>
           \/ /\ single' = [single EXCEPT !.container = None, !.boot = None]
              /\ wc' = [wc EXCEPT ![c] = "torn"]
  <2>1. "released" \in Places /\ "threw" \in Places /\ None \in Some
    BY DEF Places, Some
  <2> QED BY <1>2, <2>1, GoesTo DEF ResetEnds
<1>4. /\ single' \in [container : Some, boot : Some, instance : Some, promise : Some, host : Some]
      /\ single'.container \in {None, single.container}
  <2>1. CASE UNCHANGED <<single, wc>>
    BY <1>2, <2>1 DEF LifeTypeOK
  <2>2. CASE single' = [single EXCEPT !.container = None, !.boot = None]
    BY <1>2, <2>2 DEF LifeTypeOK, Some
  <2> QED BY <1>3, <2>1, <2>2
<1>5. wc' \in [Id -> {"none", "booting", "up", "failed", "torn"}]
      /\ \A d \in Id \ {c} : wc'[d] = wc[d]
      /\ wc'[c] \in {wc[c], "torn"}
  BY <1>1, <1>2, <1>3 DEF LifeTypeOK
<1>6. LifeTypeOK'
  BY <1>1, <1>2, <1>3, <1>4, <1>5 DEF LifeTypeOK, Moves
<1>7. CoreInv'
  BY <1>6, ResetEndKeeps DEF LifeInv
<1>8. \A p \in Id : made(p) = "ok" => of(p) # c /\ of(p) \in Id
  BY <1>1 DEF LifeInv, CoreInv, ResetsHold, RuntimesShaped
<1>9. files[c] = {}
  BY <1>1, <1>8 DEF LifeInv, FilesHold, FilesOwned, Restored
<1> HIDE DEF c
<1>10. SameFiles
  <2>1. \A p \in Id : ((Restored(p))' <=> Restored(p)) /\ rt'[p].of = of(p)
    BY <1>1 DEF Restored, made, of
  <2>2. \A p \in Id : (Alive(p))' => Alive(p)
    BY <1>1, <1>5, <1>8 DEF Alive, Restored, made, of, IsUp
  <2>3. \A d \in Id : (Over(d))' => Over(d) \/ files[d] = {}
    BY <1>1, <1>5, <1>9 DEF Over, of
  <2> QED BY <1>1, <2>1, <2>2, <2>3 DEF SameFiles
<1>11. NothingTorn
  <2>1. \A j \in Call : call'[j].at = "saving" => call'[j] = call[j]
    BY <1>3 DEF Moves
  <2>2. \A p \in Id : (Restored(p))' => Restored(p)
    BY <1>1 DEF Restored, made
  <2> QED BY <1>4, <2>1, <2>2 DEF NothingTorn
<1> QED BY <1>7, <1>10, <1>11, FilesStay, TearsStay DEF LifeInv, FilesHold

LEMMA RuntimeStep ==
    ASSUME LifeInv, NEW p \in Id, RuntimeMade(p) \/ RuntimeFails(p)
    PROVE  LifeInv'
<1>1. /\ rt[p].made = "pending" /\ ~resetDue
      /\ wc' = wc /\ call' = call /\ restarted' = restarted /\ failures' = failures
      /\ files' = files /\ disk' = disk /\ hasty' = hasty
      /\ \/ /\ rt' = [rt EXCEPT ![p].made = "ok", ![p].host = "restoring"]
            /\ single' = [single EXCEPT !.instance = p, !.host = p]
         \/ /\ rt' = [rt EXCEPT ![p].made = "failed"]
            /\ single' = [single EXCEPT !.instance = None, !.promise = None]
  BY DEF RuntimeMade, RuntimeFails, Works, data, history
<1>2. LifeTypeOK
  BY DEF LifeInv, CoreInv
<1>3. /\ single' \in [container : Some, boot : Some, instance : Some, promise : Some, host : Some]
      /\ single'.container = single.container
  <2>1. CASE single' = [single EXCEPT !.instance = p, !.host = p]
    BY <1>2, <2>1 DEF LifeTypeOK, Some
  <2>2. CASE single' = [single EXCEPT !.instance = None, !.promise = None]
    BY <1>2, <2>2 DEF LifeTypeOK, Some
  <2> QED BY <1>1, <2>1, <2>2
<1>4. /\ rt' \in [Id -> RuntimeRecords] /\ \A q \in Id \ {p} : rt'[q] = rt[q]
      /\ rt'[p].of = rt[p].of /\ rt'[p].disposed = rt[p].disposed
      /\ rt'[p].made # "ok" \/ rt'[p].host = "restoring"
  <2>1. CASE rt' = [rt EXCEPT ![p].made = "ok", ![p].host = "restoring"]
    <3>1. rt' = [rt EXCEPT ![p] = [[rt[p] EXCEPT !.made = "ok"] EXCEPT !.host = "restoring"]]
      BY <1>2, <2>1 DEF LifeTypeOK
    <3>2. PICK a : a = [rt[p] EXCEPT !.made = "ok"]
      OBVIOUS
    <3>3. a \in RuntimeRecords /\ a.of = rt[p].of /\ a.disposed = rt[p].disposed
      BY <1>2, <3>2 DEF LifeTypeOK, RuntimeRecords
    <3>4. PICK b : b = [a EXCEPT !.host = "restoring"]
      OBVIOUS
    <3>5. /\ b \in RuntimeRecords /\ b.of = rt[p].of /\ b.disposed = rt[p].disposed
          /\ b.host = "restoring"
      BY <3>3, <3>4 DEF RuntimeRecords
    <3>6. rt' = [rt EXCEPT ![p] = b]
      BY <3>1, <3>2, <3>4
    <3> QED BY <1>2, <3>5, <3>6 DEF LifeTypeOK
  <2>2. CASE rt' = [rt EXCEPT ![p].made = "failed"]
    BY <1>2, <2>2 DEF LifeTypeOK, RuntimeRecords
  <2> QED BY <1>1, <2>1, <2>2
<1>5. LifeTypeOK'
  BY <1>1, <1>2, <1>3, <1>4 DEF LifeTypeOK
<1>6. CoreInv'
  BY <1>5, RuntimeKeeps DEF LifeInv
<1>7. \A q \in Id : ((Restored(q))' <=> Restored(q)) /\ rt'[q].of = of(q)
  BY <1>1, <1>4 DEF Restored, made, of
<1>8. SameFiles
  <2>1. \A q \in Id : (Alive(q))' => Alive(q)
    BY <1>1, <1>4, <1>7 DEF Alive, of, IsUp
  <2>2. \A d \in Id : (Over(d))' => Over(d)
    BY <1>1, <1>4 DEF Over, of
  <2> QED BY <1>1, <1>7, <2>1, <2>2 DEF SameFiles
<1>9. NothingTorn
  BY <1>1, <1>3, <1>7 DEF NothingTorn
<1> QED BY <1>6, <1>8, <1>9, FilesStay, TearsStay DEF LifeInv, FilesHold

\* What the files, the calls and the switch do leaves the two layers alone.
QuietStep ==
    /\ UNCHANGED <<single, wc, restarted>>
    /\ rt' \in [Id -> RuntimeRecords] /\ RuntimesStay /\ RuntimesShaped'
    /\ files' \in [Id -> SUBSET Edits] /\ disk' \subseteq Edits
    /\ hasty' \in BOOLEAN
    /\ failures' \in Nat /\ (failures' = 0 => failures = 0)
    /\ call' = call \/ \E k \in Call : GoesOn(k)

LEMMA QuietCore ==
    ASSUME CoreInv, QuietStep
    PROVE  CoreInv'
<1>1. LifeTypeOK'
  BY DEF QuietStep, CoreInv, LifeTypeOK, GoesOn, Moves
<1> QED BY <1>1, QuietKeeps DEF QuietStep

LEMMA Unmoved ==
    ASSUME CoreInv, rt' = rt, wc' = wc
    PROVE  rt' \in [Id -> RuntimeRecords] /\ RuntimesStay /\ RuntimesShaped'
BY DEF CoreInv, LifeTypeOK, RuntimesStay, RuntimesShaped, made, of

\* A call that begins, goes on or ends.
LEMMA CallStep ==
    ASSUME LifeInv, UNCHANGED <<single, wc, rt, data, history, failures>>,
           call' = call \/ \E k \in Call : GoesOn(k)
    PROVE  LifeInv'
<1>1. /\ files' = files /\ disk' = disk /\ hasty' = hasty /\ restarted' = restarted
      /\ single' = single /\ wc' = wc /\ rt' = rt /\ failures' = failures
  BY DEF data, history
<1>2. QuietStep
  <2>1. rt' \in [Id -> RuntimeRecords] /\ RuntimesStay /\ RuntimesShaped'
    BY <1>1, Unmoved DEF LifeInv
  <2> QED BY <1>1, <2>1 DEF QuietStep, LifeInv, CoreInv, LifeTypeOK
<1>3. SameFiles
  BY <1>1 DEF SameFiles, Restored, Alive, Over, made, of, IsUp
<1>4. NothingTorn
  <2>1. \A k \in Call : call'[k].at = "saving" => call'[k] = call[k]
    BY DEF GoesOn, Moves
  <2>2. \A p \in Id : (Restored(p))' => Restored(p)
    BY <1>1 DEF Restored, made
  <2> QED BY <1>1, <2>1, <2>2 DEF NothingTorn
<1> QED BY <1>2, <1>3, <1>4, QuietCore, FilesStay, TearsStay DEF LifeInv, FilesHold

LEMMA HostMoves ==
    ASSUME CoreInv, NEW p \in Id, NEW h \in {"booting", "ready", "failed"},
           made(p) = "ok", rt' = [rt EXCEPT ![p].host = h], wc' = wc
    PROVE  /\ rt' \in [Id -> RuntimeRecords] /\ RuntimesStay /\ RuntimesShaped'
           /\ rt'[p].host = h /\ \A q \in Id \ {p} : rt'[q] = rt[q]
<1>1. rt' \in [Id -> RuntimeRecords]
  BY DEF CoreInv, LifeTypeOK, RuntimeRecords
<1>2. /\ rt'[p].host = h /\ rt'[p].of = of(p) /\ rt'[p].made = made(p)
      /\ rt'[p].disposed = rt[p].disposed
      /\ \A q \in Id \ {p} : rt'[q] = rt[q]
  BY DEF CoreInv, LifeTypeOK, RuntimeRecords, of, made
<1>3. RuntimesStay
  BY <1>2 DEF RuntimesStay, made, of
<1>4. RuntimesShaped'
  BY <1>2 DEF CoreInv, RuntimesShaped, made, of
<1> QED BY <1>1, <1>2, <1>3, <1>4

\* A host boots, with what was restored or without.
LEMMA HostStep ==
    ASSUME LifeInv, NEW p \in Id, RestoreFails(p) \/ HostReady(p) \/ HostFails(p)
    PROVE  LifeInv'
<1>1. PICK h \in {"booting", "ready", "failed"} :
        /\ rt' = [rt EXCEPT ![p].host = h] /\ rt[p].host \in {"restoring", "booting"}
        /\ rt[p].host = "restoring" => Fails
        /\ Fails \/ Works
  BY DEF RestoreFails, HostReady, HostFails
<1>2. /\ single' = single /\ wc' = wc /\ call' = call /\ files' = files /\ disk' = disk
      /\ hasty' = hasty /\ restarted' = restarted
  BY DEF RestoreFails, HostReady, HostFails, data, history
<1>3. LifeTypeOK
  BY DEF LifeInv, CoreInv
<1>4. /\ failures' \in Nat /\ (failures' = 0 => failures = 0)
      /\ rt[p].host = "restoring" => failures' # 0
  <2>1. CASE Fails
    BY <1>3, <2>1, FailsCount
  <2>2. CASE Works
    <3>1. failures' = failures /\ failures \in Nat
      BY <1>3, <2>2 DEF Works, LifeTypeOK
    <3>2. rt[p].host = "restoring" => failures' # 0
      BY <1>1, <1>3, FailsCount
    <3> QED BY <3>1, <3>2
  <2> QED BY <1>1, <2>1, <2>2
<1>5. made(p) = "ok"
  BY <1>1 DEF LifeInv, CoreInv, RuntimesShaped
<1>6. /\ rt' \in [Id -> RuntimeRecords] /\ RuntimesStay /\ RuntimesShaped'
      /\ rt'[p].host = h /\ \A q \in Id \ {p} : rt'[q] = rt[q]
  BY <1>1, <1>2, <1>5, HostMoves DEF LifeInv
<1>7. QuietStep
  BY <1>2, <1>3, <1>4, <1>6 DEF QuietStep, LifeTypeOK
<1>8. \A q \in Id : rt'[q].of = of(q) /\ rt'[q].made = made(q) /\ rt'[q].disposed = rt[q].disposed
  BY <1>6 DEF RuntimesStay
<1>9. CASE rt[p].host = "restoring"
  <2>1. FilesOwned'
    <3>1. \A q \in Id : Restored(q) => (Restored(q))'
      BY <1>1, <1>6, <1>8 DEF Restored, made
    <3> QED BY <1>2, <1>8, <3>1 DEF LifeInv, FilesHold, FilesOwned, of
  <2>2. FilesSaved' /\ RestartsTear'
    BY <1>4, <1>9 DEF FilesSaved, RestartsTear
  <2> QED BY <1>7, <2>1, <2>2, QuietCore DEF LifeInv, FilesHold
<1>10. CASE rt[p].host = "booting"
  <2>1. \A q \in Id : (Restored(q))' <=> Restored(q)
    BY <1>1, <1>6, <1>8, <1>10 DEF Restored, made
  <2>2. SameFiles
    BY <1>2, <1>4, <1>8, <2>1 DEF SameFiles, Alive, Over, of, IsUp
  <2>3. NothingTorn
    BY <1>2, <2>1 DEF NothingTorn
  <2> QED BY <1>7, <2>2, <2>3, QuietCore, FilesStay, TearsStay DEF LifeInv, FilesHold
<1> QED BY <1>1, <1>9, <1>10

\* When nothing is due, the container of a runtime that is alive is its own.
LEMMA AliveFacts ==
    ASSUME LifeInv, ~due, NEW p \in Id, made(p) = "ok", rt[p].disposed = FALSE, IsUp(of(p))
    PROVE  /\ of(p) \in Id
           /\ \A q \in Id : made(q) = "ok" /\ of(q) = of(p) => q = p
           /\ ~Over(of(p))
<1>1. of(p) \in Id
  BY DEF LifeInv, CoreInv, RuntimesShaped
<1>2. ~ResetOf(of(p))
  BY Quiet, SettledFacts DEF ResetOf, IsUp
<1>3. \A q \in Id : made(q) = "ok" /\ of(q) = of(p) => q = p
  BY <1>2 DEF LifeInv, CoreInv, UniqueHolds, IsUp
<1>4. \A q \in Id : rt[q].disposed = TRUE => made(q) = "ok"
  BY DEF LifeInv, CoreInv, RuntimesShaped
<1>5. ~Over(of(p))
  BY <1>3, <1>4 DEF Over, IsUp
<1> QED BY <1>1, <1>3, <1>5

LEMMA RestoreStep ==
    ASSUME LifeInv, NEW p \in Id, Restore(p)
    PROVE  LifeInv'
<1>1. /\ ~due /\ rt[p].host = "restoring" /\ rt' = [rt EXCEPT ![p].host = "booting"]
      /\ single' = single /\ wc' = wc /\ call' = call /\ disk' = disk
      /\ failures' = failures /\ restarted' = restarted
      /\ IF wc[rt[p].of] = "up" /\ ~rt[p].disposed
         THEN /\ files' = [files EXCEPT ![rt[p].of] = @ \cup disk]
              /\ hasty' = (hasty \/ \E k \in Call : Releasing(k))
         ELSE files' = files /\ hasty' = hasty
  BY DEF Restore, Works
<1>2. made(p) = "ok" /\ of(p) \in Id
  BY <1>1 DEF LifeInv, CoreInv, RuntimesShaped
<1>3. LifeTypeOK
  BY DEF LifeInv, CoreInv
<1>4. /\ rt' \in [Id -> RuntimeRecords] /\ RuntimesStay /\ RuntimesShaped'
      /\ rt'[p].host = "booting" /\ \A q \in Id \ {p} : rt'[q] = rt[q]
  BY <1>1, <1>2, HostMoves DEF LifeInv
<1>5. \A q \in Id : rt'[q].of = of(q) /\ rt'[q].made = made(q) /\ rt'[q].disposed = rt[q].disposed
  BY <1>4 DEF RuntimesStay
<1>6. \A q \in Id : (Restored(q))' <=> (Restored(q) \/ q = p)
  BY <1>1, <1>2, <1>4, <1>5 DEF Restored, made
<1>7. \A d \in Id : (Over(d))' <=> Over(d)
  BY <1>1, <1>5 DEF Over, of
<1>8. CASE IsUp(of(p)) /\ rt[p].disposed = FALSE
  <2>1. /\ files' = [files EXCEPT ![of(p)] = @ \cup disk]
        /\ hasty' = (hasty \/ \E k \in Call : Releasing(k))
    BY <1>1, <1>8 DEF IsUp, of
  <2>2. files' \in [Id -> SUBSET Edits] /\ hasty' \in BOOLEAN
    BY <1>2, <1>3, <2>1 DEF LifeTypeOK
  <2>3. QuietStep
    BY <1>1, <1>3, <1>4, <2>2 DEF QuietStep, LifeTypeOK
  <2>4. /\ \A d \in Id \ {of(p)} : files'[d] = files[d]
        /\ files'[of(p)] = files[of(p)] \cup disk
    BY <1>2, <1>3, <2>1 DEF LifeTypeOK
  <2>5. FilesOwned'
    BY <1>2, <1>5, <1>6, <2>4 DEF LifeInv, FilesHold, FilesOwned, of
  <2>6. ASSUME hasty' = FALSE, failures' = 0
        PROVE  /\ hasty = FALSE /\ failures = 0
               /\ \A k \in Call : call[k].at # "saving"
    BY <1>1, <1>3, <2>1, <2>6 DEF Releasing, UnderWay, LifeTypeOK
  <2>7. FilesSaved'
    <3> SUFFICES ASSUME hasty' = FALSE, failures' = 0 PROVE FilesSaved'
      BY DEF FilesSaved
    <3>1. /\ hasty = FALSE /\ failures = 0 /\ \A k \in Call : call[k].at # "saving"
      BY <2>6
    <3>2. \A d \in Id : IsUp(d) => single.container = d
      BY <3>1 DEF LifeInv, CoreInv, UpsHeld
    <3>3. \A q \in Id : (Alive(q))' => rt'[q].of = of(p)
      <4>1. \A q \in Id : (Alive(q))' => IsUp(of(q)) /\ of(q) \in Id
        BY <1>1, <1>5, <1>6, <1>2 DEF Alive, Restored, IsUp, of, LifeInv, CoreInv, RuntimesShaped
      <4> QED BY <1>2, <1>5, <1>8, <3>2, <4>1
    <3>4. ~Over(of(p))
      BY <1>1, <1>2, <1>8, AliveFacts
    <3>5. \A d \in Id : Over(d) => files[d] \subseteq disk /\ d # of(p)
      BY <3>1, <3>4 DEF LifeInv, FilesHold, FilesSaved
    <3>6. \A d \in Id : (Over(d))' => files'[d] \subseteq disk /\ files'[d] \subseteq files'[of(p)]
      BY <1>7, <2>4, <3>5
    <3> QED BY <1>1, <3>3, <3>6 DEF FilesSaved, of
  <2>8. RestartsTear'
    BY <1>1, <2>6 DEF RestartsTear
  <2> QED BY <2>3, <2>5, <2>7, <2>8, QuietCore DEF LifeInv, FilesHold
<1>9. CASE ~IsUp(of(p)) \/ rt[p].disposed = TRUE
  <2>1. files' = files /\ hasty' = hasty
    BY <1>1, <1>9 DEF IsUp, of
  <2>2. QuietStep
    BY <1>1, <1>3, <1>4, <2>1 DEF QuietStep, LifeTypeOK
  <2>3. SameFiles
    <3>1. \A q \in Id : (Alive(q))' => Alive(q)
      BY <1>1, <1>5, <1>6, <1>9 DEF Alive, IsUp, of
    <3> QED BY <1>1, <1>5, <1>6, <1>7, <2>1, <3>1 DEF SameFiles
  <2>4. RestartsTear'
    <3> SUFFICES ASSUME hasty = FALSE, failures = 0, NEW k \in Call, call[k].at = "saving",
                        call[k].kind = "restart", single.container # None
                 PROVE  \/ single.container = of(call[k].on)
                        \/ \A q \in Id : (Restored(q))' => of(q) # single.container
      <4>1. \A k \in Call : call[k].at = "saving" => call[k].on \in Id
        BY DEF LifeInv, CoreInv, CallsShaped
      <4> QED BY <1>1, <1>5, <2>1, <4>1 DEF RestartsTear, of
    <3>1. \/ single.container = of(call[k].on)
          \/ \A q \in Id : Restored(q) => of(q) # single.container
      BY DEF LifeInv, FilesHold, RestartsTear
    <3>2. of(p) # single.container
      <4>1. IsUp(single.container)
        BY DEF LifeInv, CoreInv, BootsHold
      <4>2. rt[p].disposed = TRUE => single.container # of(p)
        BY DEF LifeInv, CoreInv, SavesHold
      <4> QED BY <1>9, <4>1, <4>2
    <3> QED BY <1>6, <3>1, <3>2
  <2> QED BY <2>2, <2>3, <2>4, QuietCore, FilesStay DEF LifeInv, FilesHold
<1>10. rt[p].disposed \in BOOLEAN
  BY <1>3 DEF LifeTypeOK, RuntimeRecords
<1> QED BY <1>8, <1>9, <1>10

\* A runtime that is alive writes or saves.
LEMMA FileStep ==
    ASSUME LifeInv, NEW p \in Id, Save(p) \/ \E ch \in Edits : Write(p, ch)
    PROVE  LifeInv'
<1>1. /\ ~due /\ single' = single /\ wc' = wc /\ rt' = rt /\ call' = call
      /\ failures' = failures /\ restarted' = restarted /\ hasty' = hasty
  BY DEF Save, Write, Works, history
<1>2. LifeTypeOK
  BY DEF LifeInv, CoreInv
<1>3. Alive(p)
  <2>1. CASE Save(p)
    <3>1. rt[p].host = "ready" /\ ~rt[p].disposed /\ IsUp(of(p))
      BY <2>1 DEF Save, IsUp, of
    <3>2. made(p) = "ok"
      BY <3>1 DEF LifeInv, CoreInv, RuntimesShaped
    <3>3. rt[p].disposed \in BOOLEAN
      BY <1>2 DEF LifeTypeOK, RuntimeRecords
    <3> QED BY <3>1, <3>2, <3>3 DEF Alive, Restored
  <2>2. CASE \E ch \in Edits : Write(p, ch)
    <3>1. made(p) = "ok" /\ ~rt[p].disposed /\ IsUp(of(p)) /\ rt[p].host # "restoring"
      BY <2>2 DEF Write, IsUp, of, made
    <3>2. rt[p].disposed \in BOOLEAN
      BY <1>2 DEF LifeTypeOK, RuntimeRecords
    <3> QED BY <3>1, <3>2 DEF Alive, Restored
  <2> QED BY <2>1, <2>2
<1>4. of(p) \in Id /\ ~Over(of(p))
  BY <1>1, <1>3, AliveFacts DEF Alive, Restored
<1>5. /\ files' \in [Id -> SUBSET Edits] /\ disk' \subseteq Edits
      /\ \A d \in Id : files[d] \subseteq files'[d]
      /\ \A d \in Id \ {of(p)} : files'[d] = files[d]
      /\ disk' = disk \/ (disk' = files[of(p)] /\ files' = files)
  <2>1. CASE Save(p)
    BY <1>2, <1>4, <2>1 DEF Save, LifeTypeOK, of
  <2>2. CASE \E ch \in Edits : Write(p, ch)
    <3>1. PICK ch \in Edits : files' = [files EXCEPT ![of(p)] = @ \cup {ch}] /\ disk' = disk
      BY <2>2 DEF Write, of
    <3> QED BY <1>2, <1>4, <3>1 DEF LifeTypeOK
  <2> QED BY <2>1, <2>2
<1>6. QuietStep
  <2>1. rt' \in [Id -> RuntimeRecords] /\ RuntimesStay /\ RuntimesShaped'
    BY <1>1, Unmoved DEF LifeInv
  <2> QED BY <1>1, <1>2, <1>5, <2>1 DEF QuietStep, LifeTypeOK
<1>7. /\ \A q \in Id : (Restored(q))' <=> Restored(q)
      /\ \A q \in Id : (Alive(q))' <=> Alive(q)
      /\ \A d \in Id : (Over(d))' <=> Over(d)
  BY <1>1 DEF Restored, Alive, Over, made, of, IsUp
<1>8. FilesOwned'
  BY <1>1, <1>3, <1>4, <1>5, <1>7 DEF LifeInv, FilesHold, FilesOwned, of, Alive
<1>9. FilesSaved'
  <2> SUFFICES ASSUME hasty = FALSE, failures = 0 PROVE FilesSaved'
    BY <1>1 DEF FilesSaved
  <2>1. /\ \A d \in Id : Over(d) =>
              files[d] \subseteq disk /\ \A q \in Id : Alive(q) => files[d] \subseteq files[of(q)]
        /\ \A q, r \in Id : Alive(q) /\ Alive(r) => of(q) = of(r)
    BY DEF LifeInv, FilesHold, FilesSaved
  <2>2. \A q \in Id : Alive(q) => of(q) \in Id
    BY DEF LifeInv, CoreInv, RuntimesShaped, Alive, Restored
  <2>3. \A d \in Id : Over(d) => files'[d] = files[d] /\ files[d] \subseteq disk'
    BY <1>3, <1>4, <1>5, <2>1
  <2>4. \A d \in Id : Over(d) => \A q \in Id : Alive(q) => files'[d] \subseteq files'[of(q)]
    BY <1>5, <2>1, <2>2, <2>3
  <2> HIDE DEF Over, Alive
  <2>5. rt' = rt
    BY <1>1
  <2> QED BY <1>7, <2>1, <2>3, <2>4, <2>5 DEF FilesSaved, of
<1>10. RestartsTear'
  BY <1>1, <1>7 DEF LifeInv, FilesHold, RestartsTear, of
<1> QED BY <1>6, <1>8, <1>9, <1>10, QuietCore DEF LifeInv, FilesHold

\* Only the calls and what is handed out change.
CallsOnly == UNCHANGED <<wc, rt, data>> /\ hasty' = hasty /\ (failures' = 0 => failures = 0)

LEMMA CallsOnlyFiles ==
    ASSUME CallsOnly
    PROVE  SameFiles /\ \A p \in Id : (Restored(p))' <=> Restored(p)
<1>1. /\ wc' = wc /\ rt' = rt /\ files' = files /\ disk' = disk /\ hasty' = hasty
      /\ failures' = 0 => failures = 0
  BY DEF CallsOnly, data
<1> QED BY <1>1 DEF SameFiles, Restored, Alive, Over, made, of, IsUp

\* A release captures the runtime.
LEMMA CaptureStep ==
    ASSUME LifeInv, settled, NEW k \in Call, NEW kind, NEW p \in Id, made(p) = "ok",
           Releases(k, kind), Captures(k, kind, p), restarted' \in BOOLEAN,
           UNCHANGED <<data, hasty>>,
           \/ call[k].at = "idle" /\ p = single.instance
           \/ call[k].at = "waiting" /\ p = call[k].on /\ ~bootDue
    PROVE  LifeInv'
<1>1. LifeTypeOK /\ rt' = rt /\ wc' = wc /\ failures' = failures /\ kind \in Kinds \ {"none", "boot"}
      /\ files' = files /\ disk' = disk /\ hasty' = hasty
  BY DEF Releases, LifeInv, CoreInv, data
<1>2. Moves(k, kind, "saving", p)
  BY <1>1, Begins DEF Captures, Kinds, Places, Some
<1>3. single' = single \/ single' = disowned(single, p)
  BY DEF Captures
<1>4. single' \in [container : Some, boot : Some, instance : Some, promise : Some, host : Some]
      /\ single'.container \in {None, single.container}
  BY <1>1, <1>3, DisownedIs DEF LifeTypeOK
<1>5. LifeTypeOK'
  BY <1>1, <1>2, <1>4 DEF LifeTypeOK, Moves
<1>6. CoreInv'
  BY <1>5, CaptureKeeps DEF LifeInv
<1>7. SameFiles /\ \A q \in Id : (Restored(q))' <=> Restored(q)
  <2>1. CallsOnly
    BY <1>1 DEF CallsOnly, data
  <2> QED BY <2>1, CallsOnlyFiles
<1>8. RestartsTear'
  <2> SUFFICES ASSUME hasty = FALSE, failures = 0, NEW j \in Call, call'[j].at = "saving",
                      call'[j].kind = "restart", single'.container # None
               PROVE  \/ single'.container = rt[call'[j].on].of
                      \/ \A q \in Id : Restored(q) => rt[q].of # single'.container
    BY <1>1, <1>7 DEF RestartsTear, of
  <2>1. CASE j = k
    <3>1. call'[j].on = p
      BY <1>2, <2>1 DEF Moves
    <3>2. single.container \in {None, of(p)}
      <4>1. CASE call[k].at = "idle"
        BY <4>1, IdFacts DEF LifeInv, CoreInv, ReadyHolds
      <4>2. CASE call[k].at = "waiting"
        BY <4>2 DEF LifeInv, CoreInv, WaitsHold
      <4> QED BY <4>1, <4>2
    <3> QED BY <1>4, <3>1, <3>2 DEF of
  <2>2. CASE j # k
    <3>1. call'[j] = call[j]
      BY <1>2, <2>2 DEF Moves
    <3> QED BY <1>4, <3>1 DEF LifeInv, FilesHold, RestartsTear, of
  <2> QED BY <2>1, <2>2
<1> QED BY <1>6, <1>7, <1>8, FilesStay DEF LifeInv, FilesHold

\* A new call takes what there is to release.
LEMMA TakeStep ==
    ASSUME LifeInv, settled, ~releaseDue, NEW k \in Call, call[k].kind = "none",
           NEW kind \in Kinds \ {"none", "boot"}, Takes(k, kind),
           UNCHANGED <<rt, data, failures, hasty>>
    PROVE  LifeInv'
<1>1. /\ rt' = rt /\ files' = files /\ disk' = disk /\ failures' = failures /\ hasty' = hasty
      /\ LifeTypeOK
  BY DEF data, LifeInv, CoreInv
<1>2. call[k].at = "idle"
  BY DEF LifeInv, CoreInv, CallsShaped
<1>3. restarted' = (restarted \/ restarting \/ (kind = "restart" /\ \E j \in Call : UnderWay(j)))
  BY DEF Takes
<1>4. /\ restarted' \in BOOLEAN
      /\ restarted' = FALSE => restarted = FALSE
      /\ restarted' = FALSE => ~restarting /\ (kind = "restart" => \A j \in Call : ~UnderWay(j))
  BY <1>1, <1>3 DEF LifeTypeOK
<1>5. /\ single.instance # None => single.instance \in Id /\ made(single.instance) = "ok"
      /\ single.instance = None /\ single.promise = None => single.container = None
      /\ single.promise \in Some /\ single.boot \in Some
  BY <1>1 DEF LifeInv, CoreInv, LifeTypeOK, PromisesHold, ReadyHolds, Some
<1>6. wc' = wc
  BY <1>5 DEF Takes, Captures, Resets
<1>7. Releases(k, kind)
  BY <1>1, <1>2, <1>4, <1>6 DEF Releases
<1>8. CASE single.instance # None
  <2>1. Captures(k, kind, single.instance)
    BY <1>8 DEF Takes
  <2> QED BY <1>1, <1>2, <1>4, <1>5, <1>7, <1>8, <2>1, CaptureStep DEF data
<1>9. CASE single.instance = None
  <2>1. PICK at \in {"waiting", "resetting", "released"}, on \in Some : Moves(k, kind, at, on)
    <3>1. \E at \in {"waiting", "resetting", "released"}, on \in Some : begin(k, kind, at, on)
      BY <1>5, <1>9 DEF Takes, Resets
    <3>2. {"waiting", "resetting", "released"} \subseteq Places /\ kind \in Kinds
      BY DEF Places
    <3> QED BY <1>1, <3>1, <3>2, Begins
  <2>2. /\ single' \in [container : Some, boot : Some, instance : Some, promise : Some, host : Some]
        /\ single'.container \in {None, single.container}
    <3>1. CASE single.promise # None
      BY <1>1, <1>9, <3>1 DEF Takes, LifeTypeOK
    <3>2. CASE single.promise = None
      <4>1. single' = [single EXCEPT !.instance = None, !.promise = None, !.host = None]
        BY <1>5, <1>9, <3>2 DEF Takes, Resets
      <4>2. single' = [container |-> single.container, boot |-> single.boot, instance |-> None,
                       promise |-> None, host |-> None]
        BY <1>1, <4>1, NulledIs
      <4>3. None \in Some /\ single.container \in Some
        BY <1>1 DEF Some, LifeTypeOK
      <4> QED BY <1>5, <4>2, <4>3
    <3> QED BY <3>1, <3>2
  <2>3. LifeTypeOK'
    BY <1>1, <1>4, <1>6, <2>1, <2>2 DEF LifeTypeOK, Moves
  <2>4. CoreInv'
    <3>1. CASE single.promise # None
      <4>1. begin(k, kind, "waiting", single.promise) /\ UNCHANGED single
        BY <1>9, <3>1 DEF Takes
      <4> QED BY <1>2, <1>7, <1>9, <2>3, <3>1, <4>1, WaitKeeps DEF LifeInv
    <3>2. CASE single.promise = None
      <4>1. Resets(k, kind)
        BY <1>9, <3>2 DEF Takes
      <4> QED BY <1>2, <1>7, <1>9, <2>3, <3>2, <4>1, ResetKeeps DEF LifeInv
    <3> QED BY <3>1, <3>2
  <2>5. SameFiles /\ \A q \in Id : (Restored(q))' <=> Restored(q)
    <3>1. CallsOnly
      BY <1>1, <1>6 DEF CallsOnly, data
    <3> QED BY <3>1, CallsOnlyFiles
  <2>6. NothingTorn
    <3>1. \A j \in Call : call'[j].at = "saving" => call'[j] = call[j]
      BY <2>1 DEF Moves
    <3> QED BY <2>2, <2>5, <3>1 DEF NothingTorn
  <2> QED BY <2>4, <2>5, <2>6, FilesStay, TearsStay DEF LifeInv, FilesHold
<1> QED BY <1>8, <1>9

\* What was waited for is there, or was not made, or could not be saved.
LEMMA ThrowStep ==
    ASSUME LifeInv, settled, NEW k \in Call, goTo(k, "threw", None),
           UNCHANGED <<single, wc, rt, data, history>>,
           \/ call[k].at = "waiting" /\ made(call[k].on) = "failed" /\ failures' = failures
           \/ call[k].at = "saving" /\ ~releaseDue /\ failures' \in Nat \ {0}
    PROVE  LifeInv'
<1>1. /\ single' = single /\ wc' = wc /\ rt' = rt /\ files' = files /\ disk' = disk
      /\ hasty' = hasty /\ restarted' = restarted /\ LifeTypeOK
  BY DEF data, history, LifeInv, CoreInv
<1>2. Moves(k, call[k].kind, "threw", None)
  BY <1>1, GoesTo DEF Places, Some
<1>3. failures' \in Nat /\ (failures' = 0 => failures = 0)
  BY <1>1 DEF LifeTypeOK
<1>4. LifeTypeOK'
  BY <1>1, <1>2, <1>3 DEF LifeTypeOK, Moves
<1>5. CoreInv'
  BY <1>1, <1>4, ThrowKeeps DEF LifeInv
<1>6. SameFiles /\ \A q \in Id : (Restored(q))' <=> Restored(q)
  <2>1. CallsOnly
    BY <1>1, <1>3 DEF CallsOnly, data
  <2> QED BY <2>1, CallsOnlyFiles
<1>7. NothingTorn
  <2>1. \A j \in Call : call'[j].at = "saving" => call'[j] = call[j]
    BY <1>2 DEF Moves
  <2> QED BY <1>1, <1>6, <2>1 DEF NothingTorn
<1> QED BY <1>5, <1>6, <1>7, FilesStay, TearsStay DEF LifeInv, FilesHold

LEMMA AwaitedStep ==
    ASSUME LifeInv, NEW k \in Call, Awaited(k)
    PROVE  LifeInv'
<1>1. /\ settled /\ call[k].at = "waiting" /\ failures' = failures
      /\ UNCHANGED <<rt, data, history>> /\ restarted' = restarted /\ hasty' = hasty /\ rt' = rt
  BY DEF Awaited, Works, history
<1>2. call[k].on \in Id /\ call[k].kind \in Kinds \ {"none", "boot"}
  BY <1>1 DEF LifeInv, CoreInv, CallsShaped, LifeTypeOK, CallRecords
<1>3. CASE made(call[k].on) = "ok"
  <2>1. ~bootDue /\ Captures(k, call[k].kind, call[k].on)
    BY <1>3 DEF Awaited, made
  <2>2. wc' = wc
    BY <2>1 DEF Captures
  <2>3. Releases(k, call[k].kind)
    BY <1>1, <1>2, <2>2 DEF Releases
  <2>4. restarted' \in BOOLEAN
    BY <1>1 DEF LifeInv, CoreInv, LifeTypeOK
  <2> QED BY <1>1, <1>2, <1>3, <2>1, <2>3, <2>4, CaptureStep
<1>4. CASE made(call[k].on) = "failed"
  <2>1. goTo(k, "threw", None) /\ UNCHANGED <<single, wc>>
    BY <1>4 DEF Awaited, made
  <2> QED BY <1>1, <1>4, <2>1, ThrowStep
<1> QED BY <1>3, <1>4 DEF Awaited, made

LEMMA SaveFailsStep ==
    ASSUME LifeInv, NEW k \in Call, SaveFails(k)
    PROVE  LifeInv'
<1>1. /\ ~due /\ call[k].at = "saving" /\ goTo(k, "threw", None) /\ Fails
      /\ UNCHANGED <<single, wc, rt, data, history>>
  BY DEF SaveFails
<1>2. failures' \in Nat \ {0}
  BY <1>1, FailsCount DEF LifeInv, CoreInv
<1> QED BY <1>1, <1>2, Quiet, ThrowStep

\* What is handed out once the flushes are over.
LEMMA SavedTypes ==
    ASSUME CoreInv, NEW k \in Call, Saved(k)
    PROVE  /\ single' \in [container : Some, boot : Some, instance : Some, promise : Some, host : Some]
           /\ single'.container \in {None, single.container}
           /\ wc' \in [Id -> {"none", "booting", "up", "failed", "torn"}]
           /\ \E at \in {"released", "resetting"}, on \in Some : Moves(k, call[k].kind, at, on)
           /\ call[k].kind # "restart" => \A d \in Id \ {of(call[k].on)} : wc'[d] = wc[d]
           /\ call[k].kind # "restart" => wc'[of(call[k].on)] = "torn"
           /\ call[k].kind = "restart" => \A d \in Id : wc'[d] = wc[d] \/ (d = single.container /\ wc'[d] = "torn")
<1> DEFINE p == call[k].on
<1>1. p \in Id /\ of(p) \in Id /\ LifeTypeOK
  BY SavedFacts DEF CoreInv
<1>2. {"released", "resetting"} \subseteq Places /\ None \in Some /\ single.container \in Some /\ single.boot \in Some
  BY <1>1 DEF Places, Some, LifeTypeOK
<1>3. CASE call[k].kind # "restart"
  <2>1. /\ goTo(k, "released", None) /\ single' = detached(single, of(p))
        /\ wc' = [wc EXCEPT ![of(p)] = "torn"]
    BY <1>3 DEF Saved, of
  <2>2. Moves(k, call[k].kind, "released", None)
    BY <1>1, <1>2, <2>1, GoesTo
  <2>3. single' = single \/ single' = [single EXCEPT !.container = None, !.boot = None]
    BY <2>1 DEF detached
  <2>4. /\ single' \in [container : Some, boot : Some, instance : Some, promise : Some, host : Some]
        /\ single'.container \in {None, single.container}
    BY <1>1, <1>2, <2>3 DEF LifeTypeOK
  <2> QED BY <1>1, <1>2, <1>3, <2>1, <2>2, <2>4 DEF LifeTypeOK
<1>4. CASE call[k].kind = "restart"
  <2> DEFINE s == [single EXCEPT !.instance = None, !.promise = None, !.host = None]
  <2>1. Resets(k, "restart")
    BY <1>4 DEF Saved
  <2>2. s = [container |-> single.container, boot |-> single.boot, instance |-> None,
             promise |-> None, host |-> None]
    BY <1>1, NulledIs
  <2>3. CASE single.container # None
    <3>1. /\ single' = [s EXCEPT !.container = None, !.boot = None]
          /\ wc' = [wc EXCEPT ![single.container] = "torn"]
          /\ begin(k, "restart", "released", None)
      BY <2>1, <2>2, <2>3 DEF Resets
    <3>2. Moves(k, "restart", "released", None)
      BY <1>1, <1>2, <3>1, Begins DEF Kinds
    <3>3. /\ single' \in [container : Some, boot : Some, instance : Some, promise : Some, host : Some]
          /\ single'.container = None
      BY <1>2, <2>2, <3>1
    <3>4. single.container \in Id
      BY <1>2, <2>3 DEF Some
    <3> QED BY <1>1, <1>2, <1>4, <3>1, <3>2, <3>3, <3>4 DEF LifeTypeOK
  <2>4. CASE single.container = None
    <3>1. /\ single' = s /\ wc' = wc
          /\ \E at \in {"released", "resetting"} : begin(k, "restart", at, single.boot)
      BY <2>1, <2>2, <2>4 DEF Resets
    <3>2. \E at \in {"released", "resetting"}, on \in Some : Moves(k, "restart", at, on)
      BY <1>1, <1>2, <3>1, Begins DEF Kinds
    <3>3. /\ single' \in [container : Some, boot : Some, instance : Some, promise : Some, host : Some]
          /\ single'.container = single.container
      BY <1>2, <2>2, <3>1
    <3> QED BY <1>1, <1>4, <3>1, <3>2, <3>3 DEF LifeTypeOK
  <2> QED BY <2>3, <2>4
<1> QED BY <1>3, <1>4

LEMMA SavedStep ==
    ASSUME LifeInv, NEW k \in Call, Saved(k)
    PROVE  LifeInv'
<1> DEFINE p == call[k].on
<1>1. /\ ~due /\ p \in Id /\ made(p) = "ok" /\ of(p) \in Id /\ wc[of(p)] \in {"up", "torn"}
      /\ Disposes(p) /\ failures' = failures /\ restarted' = restarted /\ call[k].at = "saving"
  BY SavedFacts DEF LifeInv
<1>2. /\ files' = files /\ disk' = flushed(p) /\ hasty' = (hasty \/ rt[p].host = "restoring")
      /\ rt' = [rt EXCEPT ![p].disposed = TRUE]
  BY DEF Saved
<1>3. LifeTypeOK /\ CoreInv
  BY DEF LifeInv, CoreInv
<1>4. /\ single' \in [container : Some, boot : Some, instance : Some, promise : Some, host : Some]
      /\ single'.container \in {None, single.container}
      /\ wc' \in [Id -> {"none", "booting", "up", "failed", "torn"}]
      /\ \E at \in {"released", "resetting"}, on \in Some : Moves(k, call[k].kind, at, on)
      /\ call[k].kind # "restart" => \A d \in Id \ {of(p)} : wc'[d] = wc[d]
      /\ call[k].kind # "restart" => wc'[of(p)] = "torn"
      /\ call[k].kind = "restart" => \A d \in Id : wc'[d] = wc[d] \/ (d = single.container /\ wc'[d] = "torn")
  BY <1>3, SavedTypes
<1>5. rt' \in [Id -> RuntimeRecords]
  BY <1>1, <1>2, <1>3, ZenonT(40) DEF LifeTypeOK, RuntimeRecords
<1>6. disk' \subseteq Edits /\ hasty' \in BOOLEAN
  BY <1>1, <1>2, <1>3 DEF LifeTypeOK, flushed, of
<1>7. LifeTypeOK'
  BY <1>1, <1>2, <1>3, <1>4, <1>5, <1>6 DEF LifeTypeOK, Moves
<1>8. CoreInv'
  BY <1>3, <1>7, ReleasedKeeps, RestartedKeeps
<1>9. /\ rt'[p].of = of(p) /\ rt'[p].made = made(p) /\ rt'[p].host = rt[p].host
      /\ rt'[p].disposed = TRUE
      /\ \A q \in Id \ {p} : rt'[q] = rt[q]
  BY <1>1 DEF Disposes
<1> HIDE DEF p
<1>10. /\ \A q \in Id : rt'[q].of = of(q) /\ ((Restored(q))' <=> Restored(q))
       /\ \A q \in Id : (rt'[q].disposed = TRUE) <=> (rt[q].disposed = TRUE \/ q = p)
  BY <1>9 DEF Restored, made, of
<1>11. FilesOwned'
  BY <1>2, <1>10 DEF LifeInv, FilesHold, FilesOwned, of
<1>12. RestartsTear'
  <2> SUFFICES ASSUME hasty' = FALSE, failures' = 0, NEW j \in Call, call'[j].at = "saving",
                      call'[j].kind = "restart", single'.container # None
               PROVE  \/ single'.container = of(call'[j].on)
                      \/ \A q \in Id : Restored(q) => of(q) # single'.container
    <3>1. \A j \in Call : call'[j].at = "saving" => call'[j].on \in Id
      BY <1>8 DEF CoreInv, CallsShaped
    <3> QED BY <1>10, <3>1 DEF RestartsTear, of
  <2>1. j # k /\ call'[j] = call[j] /\ hasty = FALSE /\ failures = 0
    BY <1>1, <1>2, <1>3, <1>4 DEF Moves, LifeTypeOK
  <2> QED BY <1>4, <2>1 DEF LifeInv, FilesHold, RestartsTear
<1>13. FilesSaved'
  <2> SUFFICES ASSUME hasty' = FALSE, failures' = 0 PROVE FilesSaved'
    BY DEF FilesSaved
  <2>1. hasty = FALSE /\ failures = 0 /\ rt[p].host # "restoring"
    BY <1>1, <1>2, <1>3 DEF LifeTypeOK
  <2>2. Restored(p)
    BY <1>1, <2>1 DEF Restored
  <2>3. /\ \A d \in Id : Over(d) =>
              files[d] \subseteq disk /\ \A q \in Id : Alive(q) => files[d] \subseteq files[of(q)]
        /\ \A q, r \in Id : Alive(q) /\ Alive(r) => of(q) = of(r)
    BY <2>1 DEF LifeInv, FilesHold, FilesSaved
  <2>4. \A q \in Id : (Alive(q))' => Alive(q) /\ q # p
    <3> SUFFICES ASSUME NEW q \in Id, (Alive(q))' PROVE Alive(q) /\ q # p
      OBVIOUS
    <3>1. Restored(q) /\ rt'[q].disposed = FALSE /\ wc'[of(q)] = "up"
      BY <1>10 DEF Alive, IsUp, of
    <3>2. q # p /\ rt[q].disposed = FALSE
      BY <1>9, <3>1
    <3>3. of(q) \in Id
      BY <1>3, <3>1 DEF CoreInv, RuntimesShaped, Restored
    <3>4. wc[of(q)] = "up"
      BY <1>4, <3>1, <3>3
    <3> QED BY <3>1, <3>2, <3>4 DEF Alive, IsUp
  <2>5. \A d \in Id : (Over(d))' => Over(d) \/ d = of(p) \/ files[d] = {}
    <3> SUFFICES ASSUME NEW d \in Id, (Over(d))', ~Over(d), d # of(p) PROVE files[d] = {}
      OBVIOUS
    <3>1. wc[d] # "torn" /\ wc'[d] = "torn"
      BY <1>10 DEF Over, of
    <3>2. call[k].kind = "restart" /\ d = single.container
      BY <1>4, <3>1
    <3>3. d # None
      BY IdFacts
    <3>4. \A q \in Id : Restored(q) => of(q) # d
      BY <1>1, <2>1, <3>2, <3>3 DEF LifeInv, FilesHold, RestartsTear, p
    <3> QED BY <3>4 DEF LifeInv, FilesHold, FilesOwned
  <2>6. CASE Alive(p)
    <3>1. disk' = files[of(p)]
      BY <1>2, <2>6 DEF flushed, Alive, IsUp, of
    <3>2. \A q \in Id : ~(Alive(q))'
      <4> SUFFICES ASSUME NEW q \in Id, (Alive(q))' PROVE FALSE
        OBVIOUS
      <4>1. Alive(q) /\ q # p /\ of(q) = of(p)
        BY <1>1, <2>3, <2>4, <2>6
      <4> QED BY <1>1, <2>6, <4>1, AliveFacts DEF Alive, Restored
    <3>3. \A d \in Id : (Over(d))' => files[d] \subseteq disk'
      BY <1>1, <2>3, <2>5, <2>6, <3>1
    <3> QED BY <1>2, <3>2, <3>3 DEF FilesSaved
  <2>7. CASE ~Alive(p)
    <3>1. rt[p].disposed \in BOOLEAN
      BY <1>1, <1>3 DEF LifeTypeOK, RuntimeRecords
    <3>2. disk' = disk
      BY <1>2, <2>2, <2>7, <3>1 DEF flushed, Alive, IsUp, of
    <3>3. Over(of(p))
      BY <1>1, <2>2, <2>7, <3>1 DEF Over, Alive, IsUp
    <3> HIDE DEF Over, Alive
    <3>4. \A d \in Id : (Over(d))' => Over(d) \/ files[d] = {}
      BY <2>5, <3>3
    <3> QED BY <1>2, <1>10, <2>3, <2>4, <3>2, <3>4 DEF FilesSaved, of
  <2> QED BY <2>6, <2>7
<1> QED BY <1>8, <1>11, <1>12, <1>13 DEF LifeInv, FilesHold

-----------------------------------------------------------------------------
(* A runtime is asked for. *)

LEMMA TargetIs ==
    ASSUME LifeTypeOK, GetRuntime
    PROVE  target \in Id
BY DEF LifeTypeOK, GetRuntime, target, Some

\* The call k boots, retries or restarts.
LEMMA AskStep ==
    ASSUME LifeInv, settled, GetRuntime, UNCHANGED <<data, history, failures>>,
           single.instance = None => \A k \in Call : call[k].at = "waiting" => made(call[k].on) # "ok",
           \/ call' = call
           \/ \E k \in Call, kind \in Kinds :
                 /\ \/ call[k].at = "idle" /\ kind = "boot"
                    \/ call[k].at \in {"released", "threw"} /\ kind = call[k].kind
                 /\ begin(k, kind, "runtime", target)
    PROVE  LifeInv'
<1>1. /\ LifeTypeOK /\ CoreInv /\ files' = files /\ disk' = disk /\ hasty' = hasty /\ restarted' = restarted
      /\ failures' = failures
  BY DEF LifeInv, CoreInv, data, history
<1>2. target \in Id
  BY <1>1, TargetIs
<1>3. call' = call \/ \E k \in Call : Asks(k)
  <2> SUFFICES ASSUME NEW k \in Call, NEW kind \in Kinds,
                      \/ call[k].at = "idle" /\ kind = "boot"
                      \/ call[k].at \in {"released", "threw"} /\ kind = call[k].kind,
                      begin(k, kind, "runtime", target)
               PROVE  Asks(k)
    OBVIOUS
  <2>1. "runtime" \in Places /\ target \in Some
    BY <1>2 DEF Places, Some
  <2>2. Moves(k, kind, "runtime", target)
    BY <1>1, <2>1, Begins
  <2> QED BY <1>2, <2>2 DEF Asks
<1>4. call' \in [Call -> CallRecords]
  BY <1>1, <1>3 DEF LifeTypeOK, Asks, Moves
<1>5. CASE UNCHANGED <<single, wc, rt>>
  <2>1. call' = call \/ \E k \in Call : GoesOn(k)
    BY <1>3 DEF Asks, GoesOn, Some
  <2> QED BY <1>5, <2>1, CallStep
<1>6. CASE Counted' /\ \E p, c \in Id : NewRuntime(p, c) /\ p = target
  <2>1. PICK p \in Id, c \in Id : NewRuntime(p, c)
    BY <1>6
  <2>2. LifeTypeOK'
    <3>1. p \in Some /\ c \in Some
      BY DEF Some
    <3>2. single' \in [container : Some, boot : Some, instance : Some, promise : Some, host : Some]
      BY <1>1, <2>1, <3>1 DEF NewRuntime, LifeTypeOK
    <3>3. wc' \in [Id -> {"none", "booting", "up", "failed", "torn"}]
      BY <1>1, <2>1 DEF NewRuntime, LifeTypeOK
    <3>4. rt' \in [Id -> RuntimeRecords]
      <4>1. PICK a : a = [rt[p] EXCEPT !.of = c]
        OBVIOUS
      <4>2. a \in RuntimeRecords
        BY <1>1, <3>1, <4>1 DEF LifeTypeOK, RuntimeRecords
      <4>3. [a EXCEPT !.made = "pending"] \in RuntimeRecords
        BY <4>2 DEF RuntimeRecords
      <4>4. rt' = [rt EXCEPT ![p] = [[rt[p] EXCEPT !.of = c] EXCEPT !.made = "pending"]]
        BY <1>1, <2>1 DEF NewRuntime, LifeTypeOK
      <4> QED BY <1>1, <4>1, <4>3, <4>4 DEF LifeTypeOK
    <3> QED BY <1>1, <1>4, <3>2, <3>3, <3>4 DEF LifeTypeOK
  <2>3. /\ single.instance = None /\ single.container = None
        /\ single'.container = None
        /\ made(p) = "none" /\ rt'[p].made = "pending" /\ rt'[p].disposed = rt[p].disposed
        /\ \A q \in Id \ {p} : rt'[q] = rt[q]
        /\ wc'[c] = "booting" /\ \A d \in Id \ {c} : wc'[d] = wc[d]
        /\ wc[c] # "up"
    BY <1>1, <2>1 DEF NewRuntime, LifeTypeOK, RuntimeRecords
  <2>4. CoreInv'
    BY <1>1, <1>3, <1>6, <2>1, <2>2, <2>3, NewKeeps
  <2>5. rt[p].disposed = FALSE
    BY <1>1, <2>3 DEF CoreInv, RuntimesShaped
  <2>6. \A q \in Id : (Restored(q))' <=> Restored(q)
    BY <2>3 DEF Restored, made
  <2>7. \A q \in Id : made(q) = "ok" => q # p /\ of(q) \in Id /\ rt'[q].of = of(q)
    BY <1>1, <2>3 DEF CoreInv, RuntimesShaped, made, of
  <2>8. SameFiles
    <3>1. \A q \in Id : (Alive(q))' => Alive(q) /\ rt'[q].of = of(q)
      <4> SUFFICES ASSUME NEW q \in Id, (Alive(q))' PROVE Alive(q) /\ rt'[q].of = of(q)
        OBVIOUS
      <4>1. Restored(q) /\ made(q) = "ok" /\ rt'[q].disposed = FALSE /\ wc'[rt'[q].of] = "up"
        BY <2>6 DEF Alive, Restored, IsUp, of
      <4>2. q # p /\ rt'[q] = rt[q] /\ of(q) \in Id /\ rt'[q].of = of(q)
        BY <2>3, <2>7, <4>1
      <4>3. wc[of(q)] = "up"
        BY <2>3, <4>1, <4>2
      <4> QED BY <4>1, <4>2, <4>3 DEF Alive, IsUp
    <3>2. \A d \in Id : (Over(d))' => Over(d)
      BY <2>3, <2>5 DEF Over, of
    <3> QED BY <1>1, <2>6, <2>7, <3>1, <3>2 DEF SameFiles
  <2>9. NothingTorn
    <3>1. \A j \in Call : call'[j].at = "saving" => call'[j] = call[j]
      BY <1>3 DEF Asks, Moves
    <3> QED BY <2>3, <2>6, <3>1 DEF NothingTorn
  <2> QED BY <2>4, <2>8, <2>9, FilesStay, TearsStay DEF LifeInv, FilesHold
<1> QED BY <1>1, <1>5, <1>6, RuntimeAsked

-----------------------------------------------------------------------------
(* The provider. *)

LEMMA MountStep ==
    ASSUME LifeInv, settled, ~releaseDue, NEW k \in Call, NEW on, NEW mark, Mounts(k, on, mark)
    PROVE  LifeInv'
<1>1. UNCHANGED <<data, history, failures>>
  BY DEF Mounts, Works
<1>2. \A j \in Call : call[j].at = "waiting" => made(call[j].on) # "ok"
  BY DEF releaseDue, made
<1>3. CASE ~on \/ mark
  <2>1. UNCHANGED <<single, wc, rt, call>>
    BY <1>3 DEF Mounts
  <2> QED BY <1>1, <2>1, CallStep
<1>4. CASE ~(~on \/ mark) /\ booting # Nobody
  <2>1. GetRuntime /\ call' = call
    BY <1>4 DEF Mounts
  <2> QED BY <1>1, <1>2, <2>1, AskStep
<1>5. CASE ~(~on \/ mark) /\ booting = Nobody
  <2>1. call[k].kind = "none" /\ GetRuntime /\ begin(k, "boot", "runtime", target)
    BY <1>5 DEF Mounts, Boots
  <2>2. call[k].at = "idle" /\ "boot" \in Kinds
    BY <2>1 DEF LifeInv, CoreInv, CallsShaped, Kinds
  <2>3. \E j \in Call, kind \in Kinds :
          /\ \/ call[j].at = "idle" /\ kind = "boot"
             \/ call[j].at \in {"released", "threw"} /\ kind = call[j].kind
          /\ begin(j, kind, "runtime", target)
    BY <2>1, <2>2
  <2>4. single.instance = None => \A j \in Call : call[j].at = "waiting" => made(call[j].on) # "ok"
    BY <1>2
  <2> QED BY <1>1, <2>1, <2>3, <2>4, AskStep
<1> QED BY <1>3, <1>4, <1>5

LEMMA ShownStep ==
    ASSUME LifeInv, NEW k \in Call, Shown(k)
    PROVE  LifeInv'
<1>1. settled /\ ~releaseDue /\ UNCHANGED <<rt, data, failures, hasty>>
  BY DEF Shown, Works
<1>2. CASE call[effect].out = "restricted"
  <2>1. call[k].kind = "none" /\ Takes(k, "release") /\ "release" \in Kinds \ {"none", "boot"}
    BY <1>2 DEF Shown, Kinds
  <2> QED BY <1>1, <2>1, TakeStep
<1>3. CASE call[effect].out # "restricted"
  <2>1. UNCHANGED <<single, wc, call, restarted>>
    BY <1>3 DEF Shown
  <2> QED BY <1>1, <2>1, CallStep DEF history
<1> QED BY <1>2, <1>3

\* The switch, a retry and a forced restart begin alike.
LEMMA SwitchStep ==
    ASSUME LifeInv, NEW k \in Call, SwitchOff(k) \/ Retry(k) \/ ForceRestart(k)
    PROVE  LifeInv'
<1>1. /\ ~due /\ call[k].kind = "none" /\ UNCHANGED <<rt, data, failures, hasty>>
      /\ \E kind \in Kinds \ {"none", "boot"} : Takes(k, kind)
  BY DEF SwitchOff, Retry, ForceRestart, Works, Kinds
<1> QED BY <1>1, Quiet, TakeStep

\* What awaits the runtime or the host goes on, what was released ends.
LEMMA EndStep ==
    ASSUME LifeInv, NEW k \in Call, RuntimeThere(k) \/ HostThere(k) \/ CloseEnds(k)
    PROVE  LifeInv'
<1>1. UNCHANGED <<single, wc, rt, data, history, failures>>
  BY DEF RuntimeThere, HostThere, CloseEnds, Works
<1>2. LifeTypeOK
  BY DEF LifeInv, CoreInv
<1>3. None \in Some /\ single.host \in Some /\ "host" \in Places
  BY <1>2 DEF Some, Places, LifeTypeOK
<1>4. CASE RuntimeThere(k)
  <2>1. /\ call[k].at = "runtime"
        /\ goTo(k, "host", single.host) \/ \E mark : Concludes(k, "restricted", mark)
    BY <1>4 DEF RuntimeThere
  <2>2. Moves(k, call[k].kind, "host", single.host) \/ Moves(k, call[k].kind, "done", None)
    BY <1>2, <1>3, <2>1, GoesTo, ConcludesMoves
  <2>3. GoesOn(k)
    BY <1>3, <2>1, <2>2 DEF GoesOn
  <2> QED BY <1>1, <2>3, CallStep
<1>5. CASE HostThere(k)
  <2>1. /\ call[k].at = "host"
        /\ \E outcome \in {"enabled", "restricted"} : \E mark : Concludes(k, outcome, mark)
    BY <1>5 DEF HostThere
  <2>2. Moves(k, call[k].kind, "done", None)
    BY <1>2, <2>1, ConcludesMoves
  <2>3. GoesOn(k)
    BY <1>3, <2>1, <2>2 DEF GoesOn
  <2> QED BY <1>1, <2>3, CallStep
<1>6. CASE CloseEnds(k)
  <2>1. call[k].at \in {"released", "threw"} /\ Finish(k)
    BY <1>6 DEF CloseEnds
  <2>2. Moves(k, call[k].kind, "done", None)
    BY <1>2, <2>1, FinishMoves
  <2>3. GoesOn(k)
    BY <1>3, <2>1, <2>2 DEF GoesOn
  <2> QED BY <1>1, <2>3, CallStep
<1> QED BY <1>4, <1>5, <1>6

LEMMA RetryStep ==
    ASSUME LifeInv, NEW k \in Call, RetryBoots(k) \/ RestartGoesOn(k)
    PROVE  LifeInv'
<1>1. settled /\ UNCHANGED <<data, history, failures>>
  BY DEF RetryBoots, RestartGoesOn, Works
<1>2. LifeTypeOK
  BY DEF LifeInv, CoreInv
<1>3. CASE \/ call[k].kind = "retry" /\ call[k].at \in {"released", "threw"} /\ Boots(k, "retry")
           \/ call[k].kind = "restart" /\ call[k].at = "released" /\ Boots(k, "restart")
  <2>1. GetRuntime /\ begin(k, call[k].kind, "runtime", target) /\ call[k].at \in {"released", "threw"}
    BY <1>3 DEF Boots
  <2>2. single.instance = None => \A j \in Call : call[j].at = "waiting" => made(call[j].on) # "ok"
    <3> SUFFICES ASSUME single.instance = None, NEW j \in Call, call[j].at = "waiting", made(call[j].on) = "ok"
                 PROVE  FALSE
      OBVIOUS
    <3>1. mayGet
      BY <2>1 DEF GetRuntime, mayGet
    <3>2. bootDue
      BY <1>3, <3>1 DEF bootDue
    <3> QED BY <3>2 DEF LifeInv, CoreInv, WaitsHold
  <2>3. call[k].kind \in Kinds
    BY <1>2 DEF LifeTypeOK, CallRecords
  <2> QED BY <1>1, <2>1, <2>2, <2>3, AskStep
<1>4. CASE /\ call[k].at \in {"threw", "runtime"} /\ Finish(k) /\ UNCHANGED <<single, wc, rt>>
  <2>1. Moves(k, call[k].kind, "done", None)
    BY <1>2, <1>4, FinishMoves
  <2>2. GoesOn(k)
    BY <1>4, <2>1 DEF GoesOn, Some
  <2> QED BY <1>1, <1>4, <2>2, CallStep
<1> QED BY <1>3, <1>4 DEF RetryBoots, RestartGoesOn

-----------------------------------------------------------------------------
LEMMA LifeStarts == Init => LifeInv
<1> SUFFICES ASSUME Init PROVE LifeInv
  OBVIOUS
<1> USE DEF made, of, IsUp, ResetOf, Restored, Alive, Over
<1>1. /\ single = [container |-> None, boot |-> None, instance |-> None, promise |-> None, host |-> None]
      /\ \A c \in Id : wc[c] = "none" /\ files[c] = {}
      /\ \A p \in Id : rt[p] = [of |-> None, made |-> "none", host |-> "none", disposed |-> FALSE]
      /\ \A k \in Call : call[k] = [kind |-> "none", at |-> "idle", on |-> None, out |-> "none"]
      /\ failures = 0 /\ hasty = FALSE /\ restarted = FALSE
  BY DEF Init, Cleared
<1>2. LifeTypeOK
  <2>1. None \in Some
    BY DEF Some
  <2>2. call \in [Call -> CallRecords]
    BY <2>1 DEF Init, CallRecords, Kinds, Places
  <2>3. rt \in [Id -> RuntimeRecords]
    BY <2>1 DEF Init, RuntimeRecords
  <2>4. single \in [container : Some, boot : Some, instance : Some, promise : Some, host : Some]
    BY <1>1, <2>1
  <2>5. wc \in [Id -> {"none", "booting", "up", "failed", "torn"}]
    BY DEF Init
  <2>6. files \in [Id -> SUBSET Edits] /\ disk \subseteq Edits
    BY DEF Init
  <2>7. failures \in Nat /\ hasty \in BOOLEAN /\ restarted \in BOOLEAN
    BY <1>1
  <2> QED BY <2>2, <2>3, <2>4, <2>5, <2>6, <2>7 DEF LifeTypeOK
<1>3. Counted
  <2>1. \A i \in Id : ~(i <= 0)
    BY DEF Id
  <2>2. 0 \in 0..MaxBoots
    BY LifecycleAssumption
  <2> QED BY <1>1, <2>1, <2>2 DEF Counted
<1>4. RuntimesShaped /\ CallsShaped /\ BootsHold /\ ResetsHold /\ UpsHeld /\ PromisesHold
  BY <1>1 DEF RuntimesShaped, CallsShaped, BootsHold, ResetsHold, UpsHeld, PromisesHold
<1>5. PendingHold /\ ReadyHolds /\ UniqueHolds /\ WaitsHold /\ SavesHold /\ RestartsHold
  BY <1>1 DEF PendingHold, ReadyHolds, UniqueHolds, WaitsHold, SavesHold, RestartsHold, UnderWay
<1>6. FilesHold
  BY <1>1 DEF FilesHold, FilesOwned, FilesSaved, RestartsTear
<1> QED BY <1>2, <1>3, <1>4, <1>5, <1>6 DEF LifeInv, CoreInv

LEMMA LifeStutters ==
    ASSUME LifeInv, UNCHANGED vars
    PROVE  LifeInv'
BY CallStep DEF vars

LEMMA LifeSteps ==
    ASSUME LifeInv, Next
    PROVE  LifeInv'
<1>1. CASE \E i \in Id : Outcomes(i)
  BY <1>1, BootStep, RuntimeStep, RestoreStep, HostStep DEF Outcomes
<1>2. CASE \E k \in Call : Proceeds(k)
  BY <1>2, ResetEndStep, AwaitedStep, SavedStep, SaveFailsStep, EndStep, RetryStep DEF Proceeds
<1>3. CASE \E k \in Call : Mount(k)
  BY <1>3, Quiet, MountStep DEF Mount
<1>4. CASE \E k \in Call : Shown(k)
  BY <1>4, ShownStep
<1>5. CASE User
  <2>1. CASE \E p \in Id : Save(p) \/ \E ch \in Edits : Write(p, ch)
    BY <2>1, FileStep
  <2>2. CASE \E k \in Call : SwitchOn(k) \/ LanguageChange(k)
    BY <2>2, Quiet, MountStep DEF SwitchOn, LanguageChange
  <2>3. CASE \E k \in Call : SwitchOff(k) \/ Retry(k) \/ ForceRestart(k)
    BY <2>3, SwitchStep
  <2> QED BY <1>5, <2>1, <2>2, <2>3 DEF User
<1> QED BY <1>1, <1>2, <1>3, <1>4, <1>5 DEF Next

LEMMA LifeHolds == Spec => []LifeInv
<1>1. LifeInv /\ [Next]_vars => LifeInv'
  BY LifeSteps, LifeStutters
<1> QED BY <1>1, LifeStarts, PTL DEF Spec

LEMMA LiveSound ==
    ASSUME LifeInv
    PROVE  RuntimesSound
<1>1. InstalledIsLive
  <2> SUFFICES ASSUME single.instance # None, ~restarted PROVE InstalledIsLive
    BY DEF InstalledIsLive
  <2>1. restarted = FALSE
    BY DEF LifeInv, CoreInv, LifeTypeOK
  <2>2. /\ rt[single.instance].disposed = FALSE /\ IsUp(of(single.instance))
        /\ single.container = of(single.instance)
    BY <2>1 DEF LifeInv, CoreInv, RestartsHold
  <2> QED BY <2>2 DEF InstalledIsLive, IsUp, of
<1>2. NoContainerLeaks
  <2> SUFFICES ASSUME AtRest, failures = 0, NEW c \in Id, wc[c] = "up" PROVE single.container = c
    BY DEF NoContainerLeaks
  <2>1. \A k \in Call : call[k].at # "saving"
    BY DEF AtRest, UnderWay
  <2> QED BY <2>1 DEF LifeInv, CoreInv, UpsHeld, IsUp
<1> QED BY <1>1, <1>2 DEF RuntimesSound

LEMMA SavedSound ==
    ASSUME LifeInv
    PROVE  ReleasedIsSaved
<1> SUFFICES ASSUME ~hasty, failures = 0, NEW c \in Id, wc[c] = "torn" PROVE files[c] \subseteq disk
  BY DEF ReleasedIsSaved
<1>1. hasty = FALSE
  BY DEF LifeInv, CoreInv, LifeTypeOK
<1> QED BY <1>1 DEF LifeInv, FilesHold, FilesSaved, Over

\* For any number of boots, failures and calls, in whatever order the user
\* switches, retries and restarts and whatever answers late: the runtime that is
\* handed out runs on the container that is handed out, unless a restart met
\* another call, and when all calls are over no other container is up, unless
\* something failed.
THEOREM RuntimesStaySound == Spec => []RuntimesSound
BY LifeHolds, LiveSound, PTL

\* For any number of changes too: what was changed in a container that was
\* released is saved, unless a save failed, or one was restored before another
\* had saved, or released before it was restored.
THEOREM ReleasedStaysSaved == Spec => []ReleasedIsSaved
BY LifeHolds, SavedSound, PTL

=============================================================================
