---------------------- MODULE SubagentCoordinatorProofs ----------------------
(***************************************************************************)
(* The inductive invariant of SubagentCoordinator and what follows from    *)
(* it, for any number of children and messages, any limits, and a store    *)
(* that may fail at every write.                                           *)
(*                                                                         *)
(* The proof that a step keeps the invariant has one lemma per conjunct.   *)
(* Each splits the step into the parts of Next below, and then into the    *)
(* actions where the part disturbs the conjunct.  The three actions that   *)
(* end in pump are treated through PumpEffect, which says what pump leaves *)
(* behind whatever segment called it.                                      *)
(*                                                                         *)
(* Behind it, what Capabilities says of the tools a run is given.          *)
(***************************************************************************)
EXTENDS SubagentCoordinator, Capabilities, FiniteSetTheorems, SequenceTheorems, TLAPS

\* The parts of Next: what changes neither the reports nor the pool, ...
Proceeds(c) ==
  \/ Register(c) \/ SpawnFails(c) \/ SessionStarts(c)
  \/ \E p \in Phase : PromptEnds(c, p)
  \/ FinishChild(c) \/ UnexpectedFailure(c) \/ Cancel(c)

\* ... what publishes a notification and ends an execution, ...
Reports(c) == PublishBlocked(c) \/ FinishSaved(c) \/ FailureSaved(c)

\* ... what pumps, ...
Pumps(c) == Release(c) \/ SpawnSaved(c) \/ CancelSaved(c)

\* ... and what belongs to no child.
RootStep ==
  \/ PruneEnds \/ AbortRoot \/ WaitReturns \/ WaitThrows
  \/ \E S \in SUBSET Child : StartWait(S)

LEMMA PartsOfNext ==
  Next <=> \/ \E c \in Child : Calls(c) \/ Proceeds(c) \/ Reports(c) \/ Pumps(c) \/ Failures(c)
           \/ \E m \in Msg : MessageSaved(m) \/ MessageSaveFails(m)
           \/ RootStep
  BY DEF Next, Answers, Proceeds, Reports, Pumps, RootStep

THEOREM InitIInv == Init => IInv
<1> SUFFICES ASSUME Init PROVE IInv
  OBVIOUS
<1> USE ConstantsAssumption DEF Init
<1>1. TypeOK
  <2>1. queue \in Seq(Child) /\ published \in [Child -> Seq(Status)]
    OBVIOUS
  <2> QED BY <2>1 DEF TypeOK, Stage, Status, Phase, MsgState, Terminal
<1>2. QueueSound
  BY DEF QueueSound, ToSet
<1>3. PoolAccounting
  <2>1. Executions = {}
    BY DEF Executions, executing, running
  <2> QED BY <2>1, FS_EmptySet DEF PoolAccounting
<1>4. FiberShape /\ StatusShape /\ ReportContract
  BY DEF FiberShape, StatusShape, ReportContract
<1>5. CancelShape /\ CancelledWasStopped
  BY DEF CancelShape, CancelledWasStopped
<1>6. AddresseeShape /\ KeptOnlyWithoutSession
  BY DEF AddresseeShape, KeptOnlyWithoutSession
<1> QED BY <1>1, <1>2, <1>3, <1>4, <1>5, <1>6 DEF IInv

-----------------------------------------------------------------------------
(* What pump does *)

NoRepeat(q) == \A i, j \in 1..Len(q) : q[i] = q[j] => i = j

\* The children pump starts.
started(q, n) == {q[i] : i \in 1..slotsFor(q, n)}

LEMMA SlotsBound ==
  ASSUME NEW q \in Seq(Child), NEW n \in Nat, n <= MaxConcurrent
  PROVE  /\ slotsFor(q, n) \in 0..Len(q)
         /\ n + slotsFor(q, n) <= MaxConcurrent
  BY ConstantsAssumption DEF slotsFor

\* The first k elements of a queue without repetition are k children.
LEMMA HeadCount ==
  ASSUME NEW q \in Seq(Child), NEW k \in 0..Len(q), NoRepeat(q)
  PROVE  /\ IsFiniteSet({q[i] : i \in 1..k})
         /\ Cardinality({q[i] : i \in 1..k}) = k
<1> DEFINE S == {q[i] : i \in 1..k}
           f == [i \in 1..k |-> q[i]]
<1>1. f \in Bijection(1..k, S)
  BY DEF NoRepeat, Bijection, Injection, Surjection, IsInjective
<1>2. ExistsBijection(1..k, S)
  BY <1>1 DEF ExistsBijection
<1>3. IsFiniteSet(1..k) /\ Cardinality(1..k) = k
  BY FS_Interval
<1> QED BY <1>2, <1>3, FS_Bijection

LEMMA ElementsOf ==
  ASSUME NEW q \in Seq(Child)
  PROVE  ToSet(q) = {q[i] : i \in 1..Len(q)}
  BY DEF ToSet

\* What remains in the queue when its first k elements are taken.
LEMMA TailOfQueue ==
  ASSUME NEW q \in Seq(Child), NEW k \in 0..Len(q), NoRepeat(q)
  PROVE  LET r == SubSeq(q, k + 1, Len(q))
         IN /\ r \in Seq(Child)
            /\ NoRepeat(r)
            /\ ToSet(r) = ToSet(q) \ {q[i] : i \in 1..k}
<1> DEFINE r == SubSeq(q, k + 1, Len(q))
<1>1. /\ r \in Seq(Child) /\ Len(r) = Len(q) - k
      /\ \A i \in 1..Len(r) : r[i] = q[k + i]
  BY SubSeqProperties
<1>2. /\ ToSet(q) = {q[i] : i \in 1..Len(q)}
      /\ ToSet(r) = {r[i] : i \in 1..Len(r)}
  BY <1>1, ElementsOf
<1> HIDE DEF r
<1>3. NoRepeat(r)
  BY <1>1 DEF NoRepeat
<1>4. ToSet(r) = ToSet(q) \ {q[i] : i \in 1..k}
  <2>1. ASSUME NEW i \in 1..Len(r) PROVE r[i] \in ToSet(q) \ {q[j] : j \in 1..k}
    BY <1>1, <1>2, <2>1 DEF NoRepeat
  <2>2. ASSUME NEW i \in 1..Len(q), q[i] \notin {q[j] : j \in 1..k} PROVE q[i] \in ToSet(r)
    <3>1. i - k \in 1..Len(r) /\ r[i - k] = q[i]
      BY <1>1, <2>2
    <3> QED BY <3>1, <1>2
  <2> QED BY <2>1, <2>2, <1>2
<1> QED BY <1>1, <1>3, <1>4 DEF r

LEMMA AppendToQueue ==
  ASSUME NEW q \in Seq(Child), NEW c \in Child, NoRepeat(q), c \notin ToSet(q)
  PROVE  LET r == Append(q, c)
         IN /\ r \in Seq(Child)
            /\ NoRepeat(r)
            /\ ToSet(r) = ToSet(q) \cup {c}
<1> DEFINE r == Append(q, c)
<1>1. /\ r \in Seq(Child) /\ Len(r) = Len(q) + 1 /\ r[Len(q) + 1] = c
      /\ \A i \in 1..Len(q) : r[i] = q[i]
  BY AppendProperties
<1>2. ToSet(q) = {q[i] : i \in 1..Len(q)} /\ ToSet(r) = {r[i] : i \in 1..Len(r)}
  BY <1>1, ElementsOf
<1>3. NoRepeat(r)
  BY <1>1, <1>2 DEF NoRepeat
<1>4. ToSet(r) = ToSet(q) \cup {c}
  BY <1>1, <1>2
<1> QED BY <1>1, <1>3, <1>4

LEMMA RemoveFromQueue ==
  ASSUME NEW q \in Seq(Child), NEW i \in 1..Len(q), NoRepeat(q)
  PROVE  LET r == RemoveAt(q, i)
         IN /\ r \in Seq(Child)
            /\ NoRepeat(r)
            /\ ToSet(r) = ToSet(q) \ {q[i]}
<1> DEFINE r == RemoveAt(q, i)
           a == SubSeq(q, 1, i - 1)
           b == SubSeq(q, i + 1, Len(q))
<1>1. /\ a \in Seq(Child) /\ Len(a) = i - 1
      /\ b \in Seq(Child) /\ Len(b) = Len(q) - i
      /\ \A j \in 1..(i - 1) : a[j] = q[j]
      /\ \A j \in 1..(Len(q) - i) : b[j] = q[i + j]
  BY SubSeqProperties
<1>2. /\ r \in Seq(Child) /\ Len(r) = Len(q) - 1
      /\ \A j \in 1..Len(r) : r[j] = IF j < i THEN q[j] ELSE q[j + 1]
  <2>1. r = a \o b
    BY DEF RemoveAt
  <2> HIDE DEF r, a, b
  <2>2. /\ r \in Seq(Child) /\ Len(r) = Len(a) + Len(b)
        /\ \A j \in 1..(Len(a) + Len(b)) : r[j] = IF j <= Len(a) THEN a[j] ELSE b[j - Len(a)]
    BY <1>1, <2>1, ConcatProperties
  <2>3. ASSUME NEW j \in 1..Len(r), j >= i PROVE b[j - Len(a)] = q[j + 1]
    <3>1. j - Len(a) \in 1..(Len(q) - i) /\ i + (j - Len(a)) = j + 1
      BY <1>1, <2>2, <2>3
    <3> QED BY <3>1, <1>1
  <2> QED BY <1>1, <2>2, <2>3
<1>3. ToSet(q) = {q[j] : j \in 1..Len(q)} /\ ToSet(r) = {r[j] : j \in 1..Len(r)}
  BY <1>2, ElementsOf
<1> HIDE DEF r
<1>4. NoRepeat(r)
  BY <1>2 DEF NoRepeat
<1>5. ToSet(r) = ToSet(q) \ {q[i]}
  <2>1. ASSUME NEW j \in 1..Len(r) PROVE r[j] \in ToSet(q) \ {q[i]}
    BY <1>2, <1>3, <2>1 DEF NoRepeat
  <2>2. ASSUME NEW j \in 1..Len(q), q[j] # q[i] PROVE q[j] \in ToSet(r)
    <3>1. CASE j < i
      BY <3>1, <1>2, <1>3
    <3>2. CASE j > i
      <4>1. j - 1 \in 1..Len(r) /\ r[j - 1] = q[j]
        BY <3>2, <1>2
      <4> QED BY <4>1, <1>3
    <3> QED BY <2>2, <3>1, <3>2
  <2> QED BY <2>1, <2>2, <1>3
<1> QED BY <1>2, <1>4, <1>5 DEF r

(***************************************************************************)
(* pump starts children that were queued, as many as it counts, and the    *)
(* queue it leaves holds those still queued.                               *)
(***************************************************************************)
LEMMA PumpEffect ==
  ASSUME TypeOK, QueueSound,
         NEW n \in Nat, n <= MaxConcurrent,
         NEW stg \in [Child -> Stage],
         \A c \in Child : stg[c] = "queued" <=> stage[c] = "queued",
         Pump(queue, n, stg, status)
  PROVE  LET S == started(queue, n)
         IN /\ \A c \in S : c \in Child /\ stg[c] = "queued" /\ stage[c] = "queued"
            /\ IsFiniteSet(S)
            /\ activeCount' = n + Cardinality(S)
            /\ activeCount' \in Nat /\ activeCount' <= MaxConcurrent
            /\ stage' = [c \in Child |-> IF c \in S THEN "starting" ELSE stg[c]]
            /\ status' = [c \in Child |-> IF c \in S THEN "running" ELSE status[c]]
            /\ queue' \in Seq(Child)
            /\ QueueSound'
<1> DEFINE k == slotsFor(queue, n)
           S == started(queue, n)
<1>1. queue \in Seq(Child) /\ NoRepeat(queue) /\ ToSet(queue) = {c \in Child : stg[c] = "queued"}
  BY DEF TypeOK, QueueSound, NoRepeat
<1>2. k \in 0..Len(queue) /\ n + k <= MaxConcurrent
  BY <1>1, SlotsBound
<1>3. IsFiniteSet(S) /\ Cardinality(S) = k
  BY <1>1, <1>2, HeadCount DEF started
<1>4. \A c \in S : c \in ToSet(queue)
  BY <1>1, <1>2 DEF started, ToSet
<1>5. /\ queue' = SubSeq(queue, k + 1, Len(queue))
      /\ activeCount' = n + k
      /\ stage' = [c \in Child |-> IF c \in S THEN "starting" ELSE stg[c]]
      /\ status' = [c \in Child |-> IF c \in S THEN "running" ELSE status[c]]
  BY DEF Pump, started
<1>6. queue' \in Seq(Child) /\ NoRepeat(queue') /\ ToSet(queue') = ToSet(queue) \ S
  BY <1>1, <1>2, <1>5, TailOfQueue DEF started
<1>7. ToSet(queue') = {c \in Child : stage'[c] = "queued"}
  BY <1>1, <1>5, <1>6
<1> QED BY <1>1, <1>2, <1>3, <1>4, <1>5, <1>6, <1>7 DEF QueueSound, NoRepeat

-----------------------------------------------------------------------------
(* The steps that do not pump *)

LEMMA TypeStep ==
  ASSUME IInv,
         \/ \E c \in Child : Calls(c) \/ Proceeds(c) \/ Reports(c) \/ Failures(c)
         \/ \E m \in Msg : MessageSaved(m) \/ MessageSaveFails(m)
         \/ RootStep
  PROVE  TypeOK'
<1> USE ConstantsAssumption
    DEF IInv, TypeOK, Stage, Status, Phase, Terminal, MsgState,
        childVars, poolVars, noteVars, rootVars, msgVars
<1>1. ASSUME NEW c \in Child, Calls(c) PROVE TypeOK'
  <2>1. CASE Spawn(c)
    BY <2>1 DEF Spawn
  <2>2. CASE Stop(c)
    <3>1. queue' \in Seq(Child)
      <4>1. NoRepeat(queue)
        BY DEF QueueSound, NoRepeat
      <4>2. \A i \in 1..Len(queue) : RemoveAt(queue, i) \in Seq(Child)
        BY <4>1, RemoveFromQueue
      <4> QED BY <2>2, <4>2 DEF Stop
    <3>2. stage' \in [Child -> Stage] /\ aborted' \in SUBSET Child
      <4>1. stage' = [stage EXCEPT ![c] = "cancelling"] \/ stage' = stage
        BY <2>2 DEF Stop
      <4>2. stage' \in [Child -> Stage]
        BY <4>1
      <4> QED BY <2>2, <4>2 DEF Stop
    <3> QED BY <2>2, <3>1, <3>2 DEF Stop
  <2>3. ASSUME NEW m \in Msg, Message(m, c) PROVE TypeOK'
    BY <2>3 DEF Message, children
  <2> QED BY <1>1, <2>1, <2>2, <2>3 DEF Calls
<1>2. ASSUME NEW c \in Child, Proceeds(c) PROVE TypeOK'
  <2>1. CASE Register(c)
    BY <2>1, AppendProperties DEF Register
  <2>2. CASE SpawnFails(c)
    BY <2>2 DEF SpawnFails
  <2>3. CASE SessionStarts(c)
    BY <2>3 DEF SessionStarts, promptPhase, steered
  <2>4. ASSUME NEW p \in Phase, PromptEnds(c, p) PROVE TypeOK'
    BY <2>4 DEF PromptEnds
  <2>5. CASE FinishChild(c)
    BY <2>5 DEF FinishChild, statusFor
  <2>6. CASE UnexpectedFailure(c)
    BY <2>6 DEF UnexpectedFailure, FiberShape
  <2>7. CASE Cancel(c)
    BY <2>7 DEF Cancel
  <2> QED BY <1>2, <2>1, <2>2, <2>3, <2>4, <2>5, <2>6, <2>7 DEF Proceeds
<1>3. ASSUME NEW c \in Child, Reports(c) PROVE TypeOK'
  <2>1. CASE PublishBlocked(c)
    BY <2>1, AppendProperties DEF PublishBlocked, Publish, EndExecution
  <2>2. CASE FinishSaved(c)
    <3>1. statusFor(phase[c]) \in Status
      BY DEF statusFor
    <3> QED BY <2>2, <3>1, AppendProperties DEF FinishSaved, Settle, Publish, EndExecution
  <2>3. CASE FailureSaved(c)
    <3>1. phase[c] \in Status
      BY <2>3 DEF FailureSaved, FiberShape
    <3> QED BY <2>3, <3>1, AppendProperties DEF FailureSaved, Settle, Publish, EndExecution
  <2> QED BY <1>3, <2>1, <2>2, <2>3 DEF Reports
<1>4. ASSUME NEW c \in Child, Failures(c) PROVE TypeOK'
  <2>1. CASE SpawnSaveFails(c)
    BY <2>1 DEF SpawnSaveFails
  <2>2. CASE EnterFailure(c)
    BY <2>2 DEF EnterFailure, failureStatus
  <2>3. CASE FinishSaveFails(c)
    BY <2>2, <2>3 DEF FinishSaveFails
  <2>4. CASE CancelSaveFails(c)
    BY <2>4 DEF CancelSaveFails
  <2> QED BY <1>4, <2>1, <2>2, <2>3, <2>4 DEF Failures, StartSaveFails, PromptThrows
<1>5. ASSUME NEW m \in Msg, MessageSaved(m) \/ MessageSaveFails(m) PROVE TypeOK'
  <2>1. CASE MessageSaveFails(m)
    BY <2>1 DEF MessageSaveFails
  <2>2. CASE MessageSaved(m)
    <3>1. msgTo[m] \in Child
      BY <2>2 DEF MessageSaved, AddresseeShape, children
    <3>2. msg' \in [Msg -> MsgState]
      BY <2>2 DEF MessageSaved, steered
    <3>3. /\ stage' \in [Child -> Stage] /\ phase' \in [Child -> Phase]
          /\ resumed' \in SUBSET Child
      <4> DEFINE c == msgTo[m]
      <4>1. \/ /\ stage' = [stage EXCEPT ![c] = "prompting"]
               /\ phase' = [phase EXCEPT ![c] = promptPhase(c)]
               /\ resumed' = resumed \cup {c}
            \/ UNCHANGED <<stage, phase, resumed>>
        BY <2>2 DEF MessageSaved
      <4>2. c \in Child /\ promptPhase(c) \in Phase
        BY <3>1 DEF promptPhase
      <4>3. /\ stage \in [Child -> Stage] /\ phase \in [Child -> Phase]
            /\ resumed \in SUBSET Child /\ "prompting" \in Stage
        OBVIOUS
      <4> HIDE DEF c, IInv, TypeOK, Stage, Phase, Terminal
      <4>4. CASE UNCHANGED <<stage, phase, resumed>>
        BY <4>3, <4>4
      <4>5. CASE ~UNCHANGED <<stage, phase, resumed>>
        BY <4>1, <4>2, <4>3, <4>5
      <4> QED BY <4>4, <4>5
    <3> QED BY <2>2, <3>2, <3>3 DEF MessageSaved
  <2> QED BY <1>5, <2>1, <2>2
<1>6. ASSUME RootStep PROVE TypeOK'
  <2>1. CASE PruneEnds
    BY <2>1 DEF PruneEnds
  <2>2. CASE AbortRoot
    BY <2>2 DEF AbortRoot
  <2>3. CASE WaitReturns
    BY <2>3 DEF WaitReturns
  <2>4. CASE WaitThrows
    BY <2>4 DEF WaitThrows
  <2>5. ASSUME NEW S \in SUBSET Child, StartWait(S) PROVE TypeOK'
    BY <2>5 DEF StartWait
  <2> QED BY <1>6, <2>1, <2>2, <2>3, <2>4, <2>5 DEF RootStep
<1> QED BY <1>1, <1>2, <1>3, <1>4, <1>5, <1>6

\* Only registration and the two ways to stop change the queue or who is
\* queued.
LEMMA QueueStep ==
  ASSUME IInv,
         \/ \E c \in Child : Calls(c) \/ Proceeds(c) \/ Reports(c) \/ Failures(c)
         \/ \E m \in Msg : MessageSaved(m) \/ MessageSaveFails(m)
         \/ RootStep
  PROVE  QueueSound'
<1> USE DEF childVars, poolVars, noteVars, rootVars, msgVars
<1> DEFINE Same == queue' = queue /\ \A c \in Child : stage'[c] = "queued" <=> stage[c] = "queued"
<1>0. /\ stage \in [Child -> Stage] /\ queue \in Seq(Child) /\ NoRepeat(queue)
      /\ ToSet(queue) = {c \in Child : stage[c] = "queued"}
  BY DEF IInv, TypeOK, QueueSound, NoRepeat
<1>1. ASSUME Same PROVE QueueSound'
  BY <1>0, <1>1 DEF QueueSound, NoRepeat
<1>2. ASSUME NEW c \in Child, Calls(c) PROVE QueueSound'
  <2>1. CASE Spawn(c)
    <3>1. Same
      BY <2>1, <1>0 DEF Spawn
    <3> QED BY <3>1, <1>1
  <2>2. CASE Stop(c) /\ stage[c] = "queued"
    <3>1. PICK i \in 1..Len(queue) : queue[i] = c /\ queue' = RemoveAt(queue, i)
      BY <2>2 DEF Stop
    <3>2. /\ queue' \in Seq(Child) /\ NoRepeat(queue')
          /\ ToSet(queue') = ToSet(queue) \ {c}
      BY <1>0, <3>1, RemoveFromQueue
    <3>3. stage' = [stage EXCEPT ![c] = "cancelling"]
      BY <2>2 DEF Stop
    <3>4. ToSet(queue') = {d \in Child : stage'[d] = "queued"}
      BY <1>0, <3>2, <3>3
    <3> QED BY <3>2, <3>4 DEF QueueSound, NoRepeat
  <2>3. CASE Stop(c) /\ stage[c] # "queued"
    <3>1. Same
      BY <2>3, <1>0 DEF Stop
    <3> QED BY <3>1, <1>1
  <2>4. ASSUME NEW m \in Msg, Message(m, c) PROVE QueueSound'
    <3>1. Same
      BY <2>4, <1>0 DEF Message
    <3> QED BY <3>1, <1>1
  <2> QED BY <1>2, <2>1, <2>2, <2>3, <2>4 DEF Calls
<1>3. ASSUME NEW c \in Child, Proceeds(c) PROVE QueueSound'
  <2>1. CASE Register(c)
    <3>1. queue' = Append(queue, c) /\ stage' = [stage EXCEPT ![c] = "queued"] /\ stage[c] = "pruning"
      BY <2>1 DEF Register
    <3>2. c \notin ToSet(queue)
      BY <1>0, <3>1
    <3>3. /\ queue' \in Seq(Child) /\ NoRepeat(queue')
          /\ ToSet(queue') = ToSet(queue) \cup {c}
      BY <1>0, <3>1, <3>2, AppendToQueue
    <3>4. ToSet(queue') = {d \in Child : stage'[d] = "queued"}
      BY <1>0, <3>1, <3>3
    <3> QED BY <3>3, <3>4 DEF QueueSound, NoRepeat
  <2>2. CASE Proceeds(c) /\ ~Register(c)
    <3>1. Same
      BY <2>2, <1>0 DEF Proceeds, SpawnFails, SessionStarts, PromptEnds, FinishChild,
                        UnexpectedFailure, Cancel
    <3> QED BY <3>1, <1>1
  <2> QED BY <1>3, <2>1, <2>2
<1>4. ASSUME NEW c \in Child, Reports(c) PROVE QueueSound'
  <2>1. Same
    BY <1>4, <1>0 DEF Reports, PublishBlocked, FinishSaved, FailureSaved, Settle
  <2> QED BY <2>1, <1>1
<1>5. ASSUME NEW c \in Child, Failures(c) PROVE QueueSound'
  <2>1. Same
    BY <1>5, <1>0 DEF Failures, SpawnSaveFails, StartSaveFails, PromptThrows,
                      FinishSaveFails, CancelSaveFails, EnterFailure
  <2> QED BY <2>1, <1>1
<1>6. ASSUME NEW m \in Msg, MessageSaved(m) \/ MessageSaveFails(m) PROVE QueueSound'
  <2>1. Same
    BY <1>6, <1>0 DEF MessageSaved, MessageSaveFails
  <2> QED BY <2>1, <1>1
<1>7. ASSUME RootStep PROVE QueueSound'
  <2>1. CASE AbortRoot
    <3>1. /\ queue' = <<>>
          /\ stage' = [c \in Child |-> IF stage[c] = "queued" THEN "cancelling" ELSE stage[c]]
      BY <2>1 DEF AbortRoot
    <3>2. ToSet(queue') = {} /\ \A c \in Child : stage'[c] # "queued"
      BY <3>1 DEF ToSet
    <3> QED BY <3>1, <3>2 DEF QueueSound
  <2>2. CASE RootStep /\ ~AbortRoot
    <3>1. Same
      BY <2>2, <1>0 DEF RootStep, PruneEnds, WaitReturns, WaitThrows, StartWait
    <3> QED BY <3>1, <1>1
  <2> QED BY <1>7, <2>1, <2>2
<1> QED BY <1>2, <1>3, <1>4, <1>5, <1>6, <1>7

\* A step that does not pump leaves the executions as they are: an execution
\* that returns is counted until its finally.
LEMMA PoolStep ==
  ASSUME IInv,
         \/ \E c \in Child : Calls(c) \/ Proceeds(c) \/ Reports(c) \/ Failures(c)
         \/ \E m \in Msg : MessageSaved(m) \/ MessageSaveFails(m)
         \/ RootStep
  PROVE  PoolAccounting'
<1> DEFINE Same == Executions' = Executions /\ activeCount' = activeCount
<1> USE DEF IInv, TypeOK, FiberShape, Executions, executing, running,
            childVars, poolVars, noteVars, rootVars, msgVars
<1>1. ASSUME NEW c \in Child, Calls(c) PROVE Same
  BY <1>1 DEF Calls, Spawn, Stop, Message
<1>2. ASSUME NEW c \in Child, Proceeds(c) PROVE Same
  BY <1>2 DEF Proceeds, Register, SpawnFails, SessionStarts, PromptEnds, FinishChild,
              UnexpectedFailure, Cancel
<1>3. ASSUME NEW c \in Child, Reports(c) PROVE Same
  BY <1>3 DEF Reports, PublishBlocked, FinishSaved, FailureSaved, Settle, EndExecution
<1>4. ASSUME NEW c \in Child, Failures(c) PROVE Same
  BY <1>4 DEF Failures, SpawnSaveFails, StartSaveFails, PromptThrows, FinishSaveFails,
              CancelSaveFails, EnterFailure
<1>5. ASSUME NEW m \in Msg, MessageSaved(m) \/ MessageSaveFails(m) PROVE Same
  BY <1>5 DEF MessageSaved, MessageSaveFails
<1>6. ASSUME RootStep PROVE Same
  BY <1>6 DEF RootStep, PruneEnds, AbortRoot, WaitReturns, WaitThrows, StartWait
<1>7. Same
  BY <1>1, <1>2, <1>3, <1>4, <1>5, <1>6
<1> QED BY <1>7 DEF PoolAccounting

LEMMA ShapeStep ==
  ASSUME IInv,
         \/ \E c \in Child : Calls(c) \/ Proceeds(c) \/ Reports(c) \/ Failures(c)
         \/ \E m \in Msg : MessageSaved(m) \/ MessageSaveFails(m)
         \/ RootStep
  PROVE  FiberShape' /\ StatusShape' /\ CancelShape' /\ AddresseeShape'
<1> USE DEF IInv, TypeOK, children, childVars, poolVars, noteVars, rootVars, msgVars
<1>1. ASSUME NEW c \in Child, Calls(c)
      PROVE  FiberShape' /\ StatusShape' /\ CancelShape' /\ AddresseeShape'
  <2>1. FiberShape'
    BY <1>1 DEF FiberShape, Calls, Spawn, Stop, Message
  <2>2. StatusShape'
    <3>1. CASE Spawn(c) \/ Stop(c)
      BY <3>1 DEF StatusShape, Spawn, Stop
    <3>2. ASSUME NEW m \in Msg, Message(m, c), status[c] \in Terminal PROVE StatusShape'
      BY <3>2 DEF StatusShape, Message
    <3>3. ASSUME NEW m \in Msg, Message(m, c), status[c] \notin Terminal PROVE StatusShape'
      <4>1. /\ stage' = stage /\ phase' = phase /\ status' = [status EXCEPT ![c] = "running"]
        BY <3>3 DEF Message
      <4>2. /\ stage[c] = "finishing" => statusFor(phase[c]) \notin Terminal
            /\ stage[c] # "failSaving" /\ stage[c] # "cancelSaving"
        BY <3>3 DEF StatusShape, FiberShape, Terminal
      <4> QED BY <4>1, <4>2 DEF StatusShape, statusFor
    <3> QED BY <1>1, <3>1, <3>2, <3>3 DEF Calls
  <2>3. CancelShape'
    BY <1>1 DEF CancelShape, Calls, Spawn, Stop, Message
  <2>4. AddresseeShape'
    BY <1>1 DEF AddresseeShape, Calls, Spawn, Stop, Message
  <2> QED BY <2>1, <2>2, <2>3, <2>4
<1>2. ASSUME NEW c \in Child, Proceeds(c)
      PROVE  FiberShape' /\ StatusShape' /\ CancelShape' /\ AddresseeShape'
  <2> USE <1>2 DEF Proceeds, Register, SpawnFails, SessionStarts, PromptEnds, FinishChild,
                   UnexpectedFailure, Cancel
  <2>1. FiberShape'
    BY DEF FiberShape
  <2>2. StatusShape'
    BY DEF StatusShape, statusFor
  <2>3. CancelShape'
    BY DEF CancelShape, promptPhase
  <2>4. AddresseeShape'
    BY DEF AddresseeShape, steered
  <2> QED BY <2>1, <2>2, <2>3, <2>4
<1>3. ASSUME NEW c \in Child, Reports(c)
      PROVE  FiberShape' /\ StatusShape' /\ CancelShape' /\ AddresseeShape'
  <2> USE <1>3 DEF Reports, PublishBlocked, FinishSaved, FailureSaved, Settle, EndExecution
  <2>1. FiberShape'
    BY DEF FiberShape
  <2>2. StatusShape'
    BY DEF StatusShape
  <2>3. CancelShape'
    BY DEF CancelShape
  <2>4. AddresseeShape'
    BY DEF AddresseeShape
  <2> QED BY <2>1, <2>2, <2>3, <2>4
<1>4. ASSUME NEW c \in Child, Failures(c)
      PROVE  FiberShape' /\ StatusShape' /\ CancelShape' /\ AddresseeShape'
  <2> USE <1>4 DEF Failures, SpawnSaveFails, StartSaveFails, PromptThrows, FinishSaveFails,
                   CancelSaveFails, EnterFailure, failureStatus
  <2>1. FiberShape'
    BY DEF FiberShape
  <2>2. StatusShape'
    BY DEF StatusShape
  <2>3. CancelShape'
    BY DEF CancelShape
  <2>4. AddresseeShape'
    BY DEF AddresseeShape
  <2> QED BY <2>1, <2>2, <2>3, <2>4
<1>5. ASSUME NEW m \in Msg, MessageSaved(m) \/ MessageSaveFails(m)
      PROVE  FiberShape' /\ StatusShape' /\ CancelShape' /\ AddresseeShape'
  <2> USE <1>5 DEF MessageSaved, MessageSaveFails
  <2>1. FiberShape'
    BY DEF FiberShape
  <2>2. StatusShape'
    BY DEF StatusShape, statusFor
  <2>3. CancelShape'
    BY DEF CancelShape, promptPhase
  <2>4. AddresseeShape'
    BY DEF AddresseeShape, steered
  <2> QED BY <2>1, <2>2, <2>3, <2>4
<1>6. ASSUME RootStep
      PROVE  FiberShape' /\ StatusShape' /\ CancelShape' /\ AddresseeShape'
  <2>1. CASE AbortRoot
    <3>1. \A c \in Child : stage[c] = "queued" => stoppable(c)
      BY DEF StatusShape, stoppable, Terminal
    <3> QED BY <2>1, <3>1 DEF AbortRoot, FiberShape, StatusShape, CancelShape, AddresseeShape
  <2>2. CASE RootStep /\ ~AbortRoot
    BY <2>2 DEF RootStep, PruneEnds, WaitReturns, WaitThrows, StartWait,
                FiberShape, StatusShape, CancelShape, AddresseeShape
  <2> QED BY <1>6, <2>1, <2>2
<1> QED BY <1>1, <1>2, <1>3, <1>4, <1>5, <1>6

\* The report of a child is decided by its own stage: a step that neither
\* publishes nor takes leaves the contract alone if it moves no child into
\* or out of settled, and asks or resumes none but a blocked one.
LEMMA ReportStep ==
  ASSUME IInv,
         \/ \E c \in Child : Calls(c) \/ Proceeds(c) \/ Reports(c) \/ Failures(c)
         \/ \E m \in Msg : MessageSaved(m) \/ MessageSaveFails(m)
         \/ RootStep
  PROVE  ReportContract' /\ CancelledWasStopped'
<1> USE DEF childVars, poolVars, noteVars, rootVars, msgVars
<1> DEFINE asked(c) == stage[c] = "blocked" \/ c \in resumed
           Quiet(c) == /\ published'[c] = published[c] /\ taken'[c] = taken[c]
                       /\ asked(c)' <=> asked(c)
                       /\ stage'[c] = "settled" <=> stage[c] = "settled"
                       /\ stage[c] = "settled" /\ status[c] \in Terminal => status'[c] = status[c]
                       /\ c \in aborted => c \in aborted'
<1>0. TypeOK /\ FiberShape /\ StatusShape /\ ReportContract /\ CancelShape /\ CancelledWasStopped
  BY DEF IInv
<1>1. ASSUME \A c \in Child : Quiet(c) PROVE ReportContract' /\ CancelledWasStopped'
  <2>1. ReportContract'
    BY <1>0, <1>1 DEF ReportContract, Terminal
  <2>2. CancelledWasStopped'
    BY <1>0, <1>1 DEF CancelledWasStopped
  <2> QED BY <2>1, <2>2
<1>2. ASSUME NEW c \in Child, Calls(c) PROVE ReportContract' /\ CancelledWasStopped'
  <2>1. ASSUME NEW d \in Child PROVE Quiet(d)
    BY <1>0, <1>2 DEF TypeOK, Calls, Spawn, Stop, Message
  <2> QED BY <2>1, <1>1
<1>3. ASSUME NEW c \in Child, Proceeds(c) PROVE ReportContract' /\ CancelledWasStopped'
  <2>1. ASSUME NEW d \in Child PROVE Quiet(d)
    BY <1>0, <1>3 DEF TypeOK, FiberShape, StatusShape, Proceeds, Register, SpawnFails, SessionStarts, PromptEnds,
                      FinishChild, UnexpectedFailure, Cancel
  <2> QED BY <2>1, <1>1
<1>4. ASSUME NEW c \in Child, Failures(c) PROVE ReportContract' /\ CancelledWasStopped'
  <2>1. ASSUME NEW d \in Child PROVE Quiet(d)
    BY <1>0, <1>4 DEF TypeOK, FiberShape, Failures, SpawnSaveFails, StartSaveFails, PromptThrows,
                      FinishSaveFails, CancelSaveFails, EnterFailure
  <2> QED BY <2>1, <1>1
<1>5. ASSUME NEW m \in Msg, MessageSaved(m) \/ MessageSaveFails(m)
      PROVE  ReportContract' /\ CancelledWasStopped'
  <2>1. ASSUME NEW d \in Child PROVE Quiet(d)
    BY <1>0, <1>5 DEF TypeOK, MessageSaved, MessageSaveFails
  <2> QED BY <2>1, <1>1
<1>6. ASSUME NEW c \in Child, Reports(c) PROVE ReportContract' /\ CancelledWasStopped'
  <2> DEFINE before == IF c \in resumed THEN <<"blocked">> ELSE <<>>
  <2>1. \A d \in Child : d # c => Quiet(d)
    BY <1>0, <1>6 DEF TypeOK, Reports, PublishBlocked, FinishSaved, FailureSaved, Settle, Publish
  <2>2. /\ published[c] = before /\ taken[c] <= Len(before) /\ taken[c] \in Nat
        /\ resumed' = resumed /\ taken' = taken /\ status' = status /\ aborted' = aborted
    BY <1>0, <1>6 DEF TypeOK, ReportContract, FiberShape, Reports, PublishBlocked, FinishSaved,
                      FailureSaved, Settle
  <2>3. \E s \in Status :
          /\ published'[c] = Append(before, s)
          /\ s = "cancelled" => c \in aborted
          /\ \/ stage'[c] = "blocked" /\ before = <<>> /\ s = "blocked"
             \/ stage'[c] = "settled" /\ (s \in Terminal => status[c] = s)
    <3>1. CASE PublishBlocked(c)
      BY <1>0, <2>2, <3>1 DEF TypeOK, FiberShape, PublishBlocked, Publish, Status
    <3>2. CASE FinishSaved(c)
      <4>1. statusFor(phase[c]) \in Status
        BY DEF statusFor, Status, Terminal
      <4>2. statusFor(phase[c]) = "cancelled" => c \in aborted
        BY <1>0 DEF CancelShape, statusFor
      <4> QED BY <1>0, <2>2, <3>2, <4>1, <4>2 DEF TypeOK, StatusShape, FinishSaved, Settle, Publish
    <3>3. CASE FailureSaved(c)
      <4>1. phase[c] \in Status /\ status[c] = phase[c] /\ (phase[c] = "cancelled" => c \in aborted)
        BY <1>0, <3>3 DEF FailureSaved, FiberShape, StatusShape, CancelShape, Status, Terminal
      <4> QED BY <1>0, <2>2, <3>3, <4>1 DEF TypeOK, FailureSaved, Settle, Publish
    <3> QED BY <1>6, <3>1, <3>2, <3>3 DEF Reports
  <2>4. ReportContract'
    <3>1. PICK s \in Status :
            /\ published'[c] = Append(before, s)
            /\ \/ stage'[c] = "blocked" /\ before = <<>> /\ s = "blocked"
               \/ stage'[c] = "settled" /\ (s \in Terminal => status[c] = s)
      BY <2>3
    <3>2. /\ stage'[c] = "settled" => \E t \in Status :
               published'[c] = Append(before, t) /\ (t \in Terminal => status'[c] = t)
          /\ stage'[c] # "settled" => stage'[c] = "blocked" /\ published'[c] = <<"blocked">>
          /\ taken'[c] <= Len(published'[c])
      <4>1. before \in Seq(Status)
        <5>1. <<>> \in Seq(Status) /\ <<"blocked">> \in Seq(Status)
          BY DEF Status
        <5> QED BY <5>1
      <4>2. Len(published'[c]) = Len(before) + 1 /\ Len(before) \in Nat
        BY <3>1, <4>1, AppendProperties
      <4> HIDE DEF before
      <4>3. CASE stage'[c] = "settled"
        BY <2>2, <3>1, <4>2, <4>3
      <4>4. CASE stage'[c] # "settled"
        <5>1. stage'[c] = "blocked" /\ published'[c] = Append(<<>>, "blocked")
          BY <3>1, <4>4
        <5>2. Append(<<>>, "blocked") = <<"blocked">>
          OBVIOUS
        <5> QED BY <2>2, <4>2, <4>4, <5>1, <5>2
      <4> QED BY <4>3, <4>4
    <3>3. stage'[c] = "settled" => before = IF (stage'[c] = "blocked" \/ c \in resumed') THEN <<"blocked">> ELSE <<>>
      BY <2>2
    <3> QED BY <1>0, <2>1, <2>2, <3>2, <3>3 DEF ReportContract
  <2>5. CancelledWasStopped'
    <3>1. ASSUME NEW i \in 1..Len(published'[c]), published'[c][i] = "cancelled" PROVE c \in aborted'
      BY <2>2, <2>3, <3>1
    <3> QED BY <1>0, <2>1, <3>1 DEF CancelledWasStopped
  <2> QED BY <2>4, <2>5
<1>7. ASSUME RootStep PROVE ReportContract' /\ CancelledWasStopped'
  <2>1. CASE WaitReturns
    <3>1. PICK c \in waitFor : pending(c) /\ taken' = [taken EXCEPT ![c] = @ + 1]
      BY <2>1 DEF WaitReturns
    <3>2. UNCHANGED <<stage, status, resumed, aborted, published>>
      BY <2>1 DEF WaitReturns
    <3>3. \A d \in Child : taken[d] <= Len(published[d]) => taken'[d] <= Len(published[d])
      BY <1>0, <3>1 DEF TypeOK, pending
    <3>4. ReportContract'
      BY <1>0, <3>2, <3>3 DEF ReportContract
    <3> QED BY <1>0, <3>2, <3>4 DEF CancelledWasStopped
  <2>2. CASE RootStep /\ ~WaitReturns
    <3>1. ASSUME NEW d \in Child PROVE Quiet(d)
      BY <1>0, <2>2 DEF TypeOK, RootStep, PruneEnds, AbortRoot, WaitThrows, StartWait
    <3> QED BY <3>1, <1>1
  <2> QED BY <1>7, <2>1, <2>2
<1> QED BY <1>2, <1>3, <1>4, <1>5, <1>6, <1>7

\* A session starts with the messages kept for it.
LEMMA KeptStep ==
  ASSUME IInv,
         \/ \E c \in Child : Calls(c) \/ Proceeds(c) \/ Reports(c) \/ Failures(c)
         \/ \E m \in Msg : MessageSaved(m) \/ MessageSaveFails(m)
         \/ RootStep
  PROVE  KeptOnlyWithoutSession'
<1> USE DEF IInv, TypeOK, KeptOnlyWithoutSession, AddresseeShape, children, hasSession, steered,
            childVars, poolVars, noteVars, rootVars, msgVars
<1>1. ASSUME NEW c \in Child, Calls(c) PROVE KeptOnlyWithoutSession'
  BY <1>1 DEF Calls, Spawn, Stop, Message
<1>2. ASSUME NEW c \in Child, Proceeds(c) PROVE KeptOnlyWithoutSession'
  BY <1>2 DEF Proceeds, Register, SpawnFails, SessionStarts, PromptEnds, FinishChild,
              UnexpectedFailure, Cancel
<1>3. ASSUME NEW c \in Child, Reports(c) PROVE KeptOnlyWithoutSession'
  BY <1>3 DEF Reports, PublishBlocked, FinishSaved, FailureSaved, Settle
<1>4. ASSUME NEW c \in Child, Failures(c) PROVE KeptOnlyWithoutSession'
  BY <1>4 DEF Failures, SpawnSaveFails, StartSaveFails, PromptThrows, FinishSaveFails,
              CancelSaveFails, EnterFailure
<1>5. ASSUME NEW m \in Msg, MessageSaved(m) \/ MessageSaveFails(m) PROVE KeptOnlyWithoutSession'
  BY <1>5 DEF MessageSaved, MessageSaveFails
<1>6. ASSUME RootStep PROVE KeptOnlyWithoutSession'
  BY <1>6 DEF RootStep, PruneEnds, AbortRoot, WaitReturns, WaitThrows, StartWait
<1> QED BY <1>1, <1>2, <1>3, <1>4, <1>5, <1>6

-----------------------------------------------------------------------------
(* The steps that pump *)

LEMMA QueuedStart ==
  ASSUME TypeOK, QueueSound, NEW n \in Int
  PROVE  \A c \in started(queue, n) : c \in Child /\ stage[c] = "queued"
<1>1. slotsFor(queue, n) <= Len(queue) /\ Len(queue) \in Nat /\ slotsFor(queue, n) \in Int
  BY ConstantsAssumption DEF slotsFor, TypeOK
<1>2. ToSet(queue) = {queue[i] : i \in 1..Len(queue)}
  BY ElementsOf DEF TypeOK
<1> QED BY <1>1, <1>2 DEF started, QueueSound

\* The children pump starts join the executions it found.
LEMMA StartedJoin ==
  ASSUME TypeOK, FiberShape,
         NEW L \in SUBSET leaving,
         NEW S \in SUBSET Child, \A c \in S : stage[c] = "queued",
         NEW stg \in [Child -> Stage],
         \A c \in Child : stg[c] = stage[c] \/ (stg[c] = "settled" /\ stage[c] = "cancelSaving"),
         stage' = [c \in Child |-> IF c \in S THEN "starting" ELSE stg[c]],
         resumed' = resumed, leaving' = L
  PROVE  /\ Executions' = ({c \in Child : executing(c)} \cup L) \cup S
         /\ Cardinality(Executions') = Cardinality({c \in Child : executing(c)} \cup L) + Cardinality(S)
<1> DEFINE E == {c \in Child : executing(c)} \cup L
<1>1. Executions' = E \cup S
  BY DEF Executions, executing, running, TypeOK, FiberShape
<1>2. E \cap S = {}
  BY DEF executing, running, TypeOK, FiberShape
<1>3. IsFiniteSet(E) /\ IsFiniteSet(S)
  <2>1. E \in SUBSET Child /\ S \in SUBSET Child
    BY DEF TypeOK
  <2> QED BY <2>1, FS_Subset, ConstantsAssumption
<1>4. Cardinality(E \cup S) = Cardinality(E) + Cardinality(S) - Cardinality(E \cap S)
  BY <1>3, FS_Union
<1>5. Cardinality(E \cap S) = 0 /\ Cardinality(E) \in Nat /\ Cardinality(S) \in Nat
  BY <1>2, <1>3, FS_EmptySet, FS_CardinalityType
<1> HIDE DEF E
<1>6. Executions' = E \cup S /\ Cardinality(Executions') = Cardinality(E) + Cardinality(S)
  BY <1>1, <1>4, <1>5
<1> QED BY <1>6 DEF E

\* A segment that changes nothing but the pool: Release and SpawnSaved.
LEMMA QuietPumpKeepsIInv ==
  ASSUME IInv, NEW n \in Nat, n <= MaxConcurrent,
         Pump(queue, n, stage, status),
         UNCHANGED <<phase, resumed, aborted, noteVars, rootVars, msgVars>>,
         leaving' \in SUBSET leaving, spawnSaving' \in SUBSET spawnSaving,
         n = Cardinality({c \in Child : executing(c)} \cup leaving')
  PROVE  IInv'
<1> USE DEF noteVars, rootVars, msgVars
<1> DEFINE S == started(queue, n)
           E == {c \in Child : executing(c)} \cup leaving'
<1>0. /\ TypeOK /\ QueueSound /\ FiberShape /\ StatusShape /\ ReportContract
      /\ CancelShape /\ CancelledWasStopped /\ AddresseeShape /\ KeptOnlyWithoutSession
  BY DEF IInv
<1>1. /\ \A c \in S : c \in Child /\ stage[c] = "queued"
      /\ IsFiniteSet(S) /\ activeCount' = n + Cardinality(S)
      /\ activeCount' \in Nat /\ activeCount' <= MaxConcurrent
      /\ stage' = [c \in Child |-> IF c \in S THEN "starting" ELSE stage[c]]
      /\ status' = [c \in Child |-> IF c \in S THEN "running" ELSE status[c]]
      /\ queue' \in Seq(Child) /\ QueueSound'
  <2>1. stage \in [Child -> Stage]
    BY <1>0 DEF TypeOK
  <2> QED BY <1>0, <2>1, PumpEffect
<1> HIDE DEF S
<1>2. TypeOK'
  BY <1>0, <1>1 DEF TypeOK, Stage, Status
<1>3. PoolAccounting'
  <2>1. S \in SUBSET Child /\ stage \in [Child -> Stage] /\ resumed' = resumed
    BY <1>0, <1>1 DEF TypeOK
  <2>2. Cardinality(Executions') = Cardinality({c \in Child : executing(c)} \cup leaving') + Cardinality(S)
    BY <1>0, <1>1, <2>1, StartedJoin
  <2> QED BY <1>1, <2>2 DEF PoolAccounting
<1>4. FiberShape' /\ StatusShape'
  BY <1>0, <1>1 DEF FiberShape, StatusShape, TypeOK, children
<1>5. ReportContract' /\ CancelledWasStopped'
  BY <1>0, <1>1 DEF ReportContract, CancelledWasStopped, TypeOK, FiberShape
<1>6. CancelShape' /\ AddresseeShape' /\ KeptOnlyWithoutSession'
  BY <1>0, <1>1 DEF CancelShape, AddresseeShape, KeptOnlyWithoutSession, TypeOK, children, hasSession
<1> QED BY <1>1, <1>2, <1>3, <1>4, <1>5, <1>6 DEF IInv

LEMMA CancelSavedKeepsIInv ==
  ASSUME IInv, NEW c \in Child, CancelSaved(c)
  PROVE  IInv'
<1> USE DEF noteVars, rootVars, msgVars
<1> DEFINE S == started(queue, activeCount)
           stg == [stage EXCEPT ![c] = "settled"]
<1>0. /\ TypeOK /\ QueueSound /\ PoolAccounting /\ FiberShape /\ StatusShape /\ ReportContract
      /\ CancelShape /\ CancelledWasStopped /\ AddresseeShape /\ KeptOnlyWithoutSession
  BY DEF IInv
<1>1. /\ stage[c] = "cancelSaving" /\ status[c] = "cancelled" /\ c \in aborted /\ c \notin resumed
      /\ published[c] = <<>> /\ taken[c] = 0
      /\ published' = [published EXCEPT ![c] = <<"cancelled">>]
      /\ UNCHANGED <<phase, resumed, aborted, leaving, spawnSaving, taken, rootVars, msgVars>>
      /\ Pump(queue, activeCount, stg, status)
  <2>1. /\ stage[c] = "cancelSaving"
        /\ published' = [published EXCEPT ![c] = Append(@, "cancelled")]
        /\ UNCHANGED <<phase, resumed, aborted, leaving, spawnSaving, taken, rootVars, msgVars>>
        /\ Pump(queue, activeCount, stg, status)
    BY DEF CancelSaved, Publish
  <2>2. status[c] = "cancelled" /\ c \in aborted /\ c \notin resumed
    BY <1>0, <2>1 DEF StatusShape, CancelShape, FiberShape
  <2>3. published[c] = <<>> /\ taken[c] \in Nat /\ taken[c] <= Len(published[c])
    BY <1>0, <2>1, <2>2 DEF ReportContract, TypeOK
  <2>4. taken[c] = 0
    BY <2>3
  <2>5. Append(<<>>, "cancelled") = <<"cancelled">>
    OBVIOUS
  <2> QED BY <2>1, <2>2, <2>3, <2>4, <2>5
<1>2. stg \in [Child -> Stage] /\ \A d \in Child : stg[d] = IF d = c THEN "settled" ELSE stage[d]
  BY <1>0 DEF TypeOK, Stage
<1>3. /\ \A d \in S : d \in Child /\ stage[d] = "queued" /\ stg[d] = "queued"
      /\ IsFiniteSet(S) /\ activeCount' = activeCount + Cardinality(S)
      /\ activeCount' \in Nat /\ activeCount' <= MaxConcurrent
      /\ stage' = [d \in Child |-> IF d \in S THEN "starting" ELSE stg[d]]
      /\ status' = [d \in Child |-> IF d \in S THEN "running" ELSE status[d]]
      /\ queue' \in Seq(Child) /\ QueueSound'
  <2>1. activeCount \in Nat /\ activeCount <= MaxConcurrent
    BY <1>0 DEF TypeOK, PoolAccounting
  <2>2. \A d \in Child : stg[d] = "queued" <=> stage[d] = "queued"
    BY <1>1, <1>2
  <2> HIDE DEF stg
  <2> QED BY <1>0, <1>1, <1>2, <2>1, <2>2, PumpEffect
<1> HIDE DEF S, stg
<1>4. TypeOK'
  <2>1. <<"cancelled">> \in Seq(Status)
    BY DEF Status, Terminal
  <2> QED BY <1>0, <1>1, <1>2, <1>3, <2>1 DEF TypeOK, Stage, Status
<1>5. PoolAccounting'
  <2>1. /\ S \in SUBSET Child /\ leaving \in SUBSET leaving
        /\ \A d \in Child : stg[d] = stage[d] \/ (stg[d] = "settled" /\ stage[d] = "cancelSaving")
    BY <1>1, <1>2, <1>3
  <2>2. Cardinality(Executions') = Cardinality({d \in Child : executing(d)} \cup leaving) + Cardinality(S)
    BY <1>0, <1>1, <1>2, <1>3, <2>1, StartedJoin
  <2> QED BY <1>0, <1>3, <2>2 DEF PoolAccounting, Executions
<1>6. FiberShape' /\ StatusShape'
  BY <1>0, <1>1, <1>2, <1>3 DEF FiberShape, StatusShape, TypeOK, children
<1>7. ReportContract'
  <2>1. stage'[c] = "settled" /\ status'[c] = "cancelled" /\ published'[c] = Append(<<>>, "cancelled")
    BY <1>0, <1>1, <1>2, <1>3 DEF TypeOK
  <2>2. "cancelled" \in Status /\ Len(published'[c]) = 1
    BY <1>0, <1>1 DEF Status, Terminal, TypeOK
  <2>3. ASSUME NEW d \in Child, d # c
        PROVE  /\ published'[d] = published[d]
               /\ stage'[d] = "settled" <=> stage[d] = "settled"
               /\ stage'[d] = "blocked" <=> stage[d] = "blocked"
               /\ stage[d] = "settled" => status'[d] = status[d]
    BY <1>0, <1>1, <1>2, <1>3, <2>3 DEF TypeOK
  <2> DEFINE Report(d) ==
               LET asked == stage[d] = "blocked" \/ d \in resumed
                   before == IF asked THEN <<"blocked">> ELSE <<>>
               IN /\ stage[d] = "settled" => \E s \in Status :
                       published[d] = Append(before, s) /\ (s \in Terminal => status[d] = s)
                  /\ stage[d] # "settled" => published[d] = before
                  /\ taken[d] <= Len(published[d])
  <2>4. Report(c)'
    BY <1>1, <2>1, <2>2
  <2>5. ASSUME NEW d \in Child, d # c PROVE Report(d)'
    <3>1. Report(d)
      BY <1>0 DEF ReportContract
    <3> QED BY <1>1, <2>3, <2>5, <3>1
  <2> QED BY <2>4, <2>5 DEF ReportContract
<1>8. CancelledWasStopped'
  BY <1>0, <1>1 DEF CancelledWasStopped, TypeOK
<1>9. CancelShape' /\ AddresseeShape' /\ KeptOnlyWithoutSession'
  BY <1>0, <1>1, <1>2, <1>3 DEF CancelShape, AddresseeShape, KeptOnlyWithoutSession, TypeOK,
                                children, hasSession
<1> QED BY <1>3, <1>4, <1>5, <1>6, <1>7, <1>8, <1>9 DEF IInv

LEMMA PumpStep ==
  ASSUME IInv, NEW c \in Child, Pumps(c)
  PROVE  IInv'
<1>1. CASE Release(c)
  <2> DEFINE E == {d \in Child : executing(d)} \cup leaving'
  <2>1. Executions \ {c} = E /\ c \in Executions
    BY <1>1 DEF Release, Executions, executing, running, IInv, TypeOK, FiberShape
  <2>2. IsFiniteSet(Executions)
    <3>1. Executions \in SUBSET Child
      BY DEF Executions, IInv, TypeOK
    <3> QED BY <3>1, FS_Subset, ConstantsAssumption
  <2>3. Cardinality(E) = activeCount - 1 /\ Cardinality(E) \in Nat
    <3>1. Cardinality(Executions \ {c}) = Cardinality(Executions) - 1
      BY <2>1, <2>2, FS_RemoveElement
    <3>2. IsFiniteSet(Executions \ {c})
      BY <2>2, FS_RemoveElement
    <3> QED BY <2>1, <3>1, <3>2, FS_CardinalityType DEF IInv, PoolAccounting
  <2>4. activeCount - 1 <= MaxConcurrent /\ activeCount - 1 \in Nat
    BY <2>3, ConstantsAssumption DEF IInv, PoolAccounting, TypeOK
  <2>5. /\ Pump(queue, activeCount - 1, stage, status)
        /\ UNCHANGED <<phase, resumed, aborted, noteVars, rootVars, msgVars>>
        /\ leaving' \in SUBSET leaving /\ spawnSaving' \in SUBSET spawnSaving
    BY <1>1 DEF Release
  <2> QED BY <2>3, <2>4, <2>5, QuietPumpKeepsIInv
<1>2. CASE SpawnSaved(c)
  <2>1. /\ activeCount \in Nat /\ activeCount <= MaxConcurrent
        /\ activeCount = Cardinality({d \in Child : executing(d)} \cup leaving)
    BY DEF IInv, TypeOK, PoolAccounting, Executions
  <2>2. /\ Pump(queue, activeCount, stage, status)
        /\ UNCHANGED <<phase, resumed, aborted, noteVars, rootVars, msgVars>>
        /\ leaving' = leaving /\ spawnSaving' \in SUBSET spawnSaving
    BY <1>2 DEF SpawnSaved
  <2> QED BY <2>1, <2>2, QuietPumpKeepsIInv
<1>3. CASE CancelSaved(c)
  BY <1>3, CancelSavedKeepsIInv
<1> QED BY <1>1, <1>2, <1>3 DEF Pumps

-----------------------------------------------------------------------------
(* The theorems *)

\* The inductive invariant, and with it the types, the accounting of slots
\* and what wait can report, in every reachable state.
THEOREM CoordinatorInvariant == Spec => []IInv
<1>1. IInv /\ [Next]_vars => IInv'
  <2> SUFFICES ASSUME IInv, [Next]_vars PROVE IInv'
    OBVIOUS
  <2>1. CASE \/ \E c \in Child : Calls(c) \/ Proceeds(c) \/ Reports(c) \/ Failures(c)
             \/ \E m \in Msg : MessageSaved(m) \/ MessageSaveFails(m)
             \/ RootStep
    BY <2>1, TypeStep, QueueStep, PoolStep, ShapeStep, ReportStep, KeptStep DEF IInv
  <2>2. CASE \E c \in Child : Pumps(c)
    BY <2>2, PumpStep
  <2>3. CASE UNCHANGED vars
    BY <2>3 DEF vars, childVars, poolVars, noteVars, rootVars, msgVars, IInv, TypeOK, QueueSound,
                PoolAccounting, Executions, executing, FiberShape, StatusShape, ReportContract,
                CancelShape, CancelledWasStopped, AddresseeShape, KeptOnlyWithoutSession,
                children, hasSession
  <2> QED BY <2>1, <2>2, <2>3, PartsOfNext
<1> QED BY InitIInv, <1>1, PTL DEF Spec

\* activeCount is the number of executions that hold a slot and never
\* exceeds MAX_CONCURRENT_SUBAGENTS: no path out of executeChild leaks a
\* slot or gives one back twice.
THEOREM SlotsAreAccounted == Spec => []PoolAccounting
<1>1. IInv => PoolAccounting
  BY DEF IInv
<1> QED BY CoordinatorInvariant, <1>1, PTL

\* The queue of the coordinator holds exactly the queued children, once.
THEOREM QueueIsSound == Spec => []QueueSound
<1>1. IInv => QueueSound
  BY DEF IInv
<1> QED BY CoordinatorInvariant, <1>1, PTL

\* What wait_subagents can report of a child.
THEOREM ReportsKeepContract == Spec => []ReportContract
<1>1. IInv => ReportContract
  BY DEF IInv
<1> QED BY CoordinatorInvariant, <1>1, PTL

\* finishQueuedCancellation, stop, executeChild and resumeBlockedChild never
\* settle a child twice, and none revives a settled one.
THEOREM SettledStaysSettled == Spec => SettledIsFinal
<1> DEFINE Final == \A c \in Child : stage[c] = "settled" =>
              stage'[c] = "settled" /\ published'[c] = published[c]
<1>1. IInv /\ [Next]_vars => [Final]_vars
  <2> SUFFICES ASSUME IInv, Next, NEW d \in Child, stage[d] = "settled"
               PROVE  stage'[d] = "settled" /\ published'[d] = published[d]
    OBVIOUS
  <2> USE DEF IInv, TypeOK, childVars, poolVars, noteVars, rootVars, msgVars
  <2>1. ASSUME NEW c \in Child, Calls(c) \/ Proceeds(c)
        PROVE  stage'[d] = "settled" /\ published'[d] = published[d]
    BY <2>1 DEF Calls, Spawn, Stop, Message, Proceeds, Register, SpawnFails, SessionStarts,
                PromptEnds, FinishChild, UnexpectedFailure, Cancel
  <2>2. ASSUME NEW c \in Child, Reports(c) \/ Failures(c)
        PROVE  stage'[d] = "settled" /\ published'[d] = published[d]
    BY <2>2 DEF Reports, PublishBlocked, FinishSaved, FailureSaved, Settle, Publish,
                Failures, SpawnSaveFails, StartSaveFails, PromptThrows, FinishSaveFails,
                CancelSaveFails, EnterFailure
  <2>3. ASSUME NEW c \in Child, Pumps(c)
        PROVE  stage'[d] = "settled" /\ published'[d] = published[d]
    <3>1. \A n \in Int : d \notin started(queue, n)
      BY QueuedStart
    <3>2. activeCount - 1 \in Int /\ activeCount \in Int
      OBVIOUS
    <3>3. CASE Release(c)
      BY <3>1, <3>2, <3>3 DEF Release, Pump, started
    <3>4. CASE SpawnSaved(c)
      BY <3>1, <3>2, <3>4 DEF SpawnSaved, Pump, started
    <3>5. CASE CancelSaved(c)
      BY <3>1, <3>2, <3>5 DEF CancelSaved, Publish, Pump, started
    <3> QED BY <2>3, <3>3, <3>4, <3>5 DEF Pumps
  <2>4. ASSUME NEW m \in Msg, MessageSaved(m) \/ MessageSaveFails(m)
        PROVE  stage'[d] = "settled" /\ published'[d] = published[d]
    BY <2>4 DEF MessageSaved, MessageSaveFails
  <2>5. ASSUME RootStep PROVE stage'[d] = "settled" /\ published'[d] = published[d]
    BY <2>5 DEF RootStep, PruneEnds, AbortRoot, WaitReturns, WaitThrows, StartWait
  <2> QED BY <2>1, <2>2, <2>3, <2>4, <2>5, PartsOfNext
<1> QED BY CoordinatorInvariant, <1>1, PTL DEF Spec, SettledIsFinal

\* No path through the coordinator leaks a slot, gives one back twice, loses
\* a queued child or runs a child that was taken from the queue.
THEOREM PoolIsSound == Spec => []PoolSound
<1>1. IInv => PoolSound
  BY DEF IInv, PoolSound
<1> QED BY CoordinatorInvariant, <1>1, PTL

\* Each child is reported once blocked at most and once settled, as cancelled
\* only if it was stopped, and the root's messages are kept only for a child
\* without a session.
THEOREM ReportsAreSound == Spec => []ReportsSound
<1>1. IInv => ReportsSound
  BY DEF IInv, ReportsSound
<1> QED BY CoordinatorInvariant, <1>1, PTL

-----------------------------------------------------------------------------
(* No child waits beside a free slot *)

\* After pump a child that still waits waits for a slot.
LEMMA PumpLeavesNoSlot ==
  ASSUME NEW q \in Seq(Child), NEW n \in Nat, NEW stg, NEW sts, Pump(q, n, stg, sts)
  PROVE  queue' = <<>> \/ ~(activeCount' < MaxConcurrent)
<1> DEFINE k == slotsFor(q, n)
<1>1. queue' = SubSeq(q, k + 1, Len(q)) /\ activeCount' = n + k
  BY DEF Pump
<1>2. k = Len(q) \/ ~(n + k < MaxConcurrent)
  BY ConstantsAssumption DEF slotsFor
<1>3. ASSUME k = Len(q) PROVE queue' = <<>>
  <2>1. Len(q) \in Nat /\ SubSeq(q, Len(q) + 1, Len(q)) = <<>>
    OBVIOUS
  <2> QED BY <2>1, <1>1, <1>3
<1> QED BY <1>1, <1>2, <1>3

\* While the store answers, every segment that makes a child wait or frees a
\* slot is followed by one that pumps: pump is never forgotten, by whatever
\* path a child enters the queue or leaves a slot.
THEOREM NoSlotIsWasted == ~StoreFails => (Spec => []WorkConserving)
<1> SUFFICES ASSUME ~StoreFails PROVE Spec => []WorkConserving
  OBVIOUS
<1>1. Init => WorkConserving
  BY DEF Init, WorkConserving
<1>2. IInv /\ WorkConserving /\ [Next]_vars => WorkConserving'
  <2> SUFFICES ASSUME IInv, WorkConserving, [Next]_vars PROVE WorkConserving'
    OBVIOUS
  <2> USE DEF childVars, poolVars, noteVars, rootVars, msgVars
  <2>0. stage \in [Child -> Stage] /\ queue \in Seq(Child) /\ activeCount \in Nat
    BY DEF IInv, TypeOK
  <2> DEFINE Due == \/ spawnSaving # {} \/ leaving # {}
                    \/ \E c \in Child : stage[c] \in {"cancelling", "cancelSaving"}
  <2>1. ASSUME activeCount' = activeCount, queue # <<>> \/ queue' = <<>>, Due => Due'
        PROVE  WorkConserving'
    BY <2>1 DEF WorkConserving
  <2>2. ASSUME NEW c \in Child, Calls(c) PROVE WorkConserving'
    <3>1. CASE Spawn(c)
      <4>1. Due => Due'
        BY <2>0, <3>1 DEF Spawn
      <4> QED BY <3>1, <4>1, <2>1 DEF Spawn
    <3>2. CASE Stop(c)
      <4>1. CASE stage[c] = "queued"
        BY <2>0, <3>2, <4>1 DEF Stop, WorkConserving
      <4>2. CASE stage[c] # "queued"
        BY <2>0, <3>2, <4>2 DEF Stop, WorkConserving
      <4> QED BY <4>1, <4>2
    <3>3. ASSUME NEW m \in Msg, Message(m, c) PROVE WorkConserving'
      BY <3>3 DEF Message, WorkConserving
    <3> QED BY <2>2, <3>1, <3>2, <3>3 DEF Calls
  <2>3. ASSUME NEW c \in Child, Proceeds(c) PROVE WorkConserving'
    <3>1. CASE Register(c)
      BY <3>1 DEF Register, WorkConserving
    <3>2. CASE ~Register(c)
      <4>1. UNCHANGED <<queue, activeCount, leaving, spawnSaving>>
        BY <2>3, <3>2 DEF Proceeds, SpawnFails, SessionStarts, PromptEnds, FinishChild,
                          UnexpectedFailure, Cancel
      <4>2. Due => Due'
        BY <2>0, <2>3, <3>2, <4>1 DEF Proceeds, SpawnFails, SessionStarts, PromptEnds, FinishChild,
                          UnexpectedFailure, Cancel
      <4> QED BY <4>1, <4>2, <2>1
    <3> QED BY <3>1, <3>2
  <2>4. ASSUME NEW c \in Child, Reports(c) PROVE WorkConserving'
    <3>1. /\ UNCHANGED <<queue, activeCount, spawnSaving>>
          /\ leaving' = leaving \/ leaving' = leaving \cup {c}
      BY <2>4 DEF Reports, PublishBlocked, FinishSaved, FailureSaved, EndExecution
    <3>2. \A d \in Child : stage[d] \in {"cancelling", "cancelSaving"} => stage'[d] = stage[d]
      BY <2>0, <2>4 DEF Reports, PublishBlocked, FinishSaved, FailureSaved, Settle
    <3> QED BY <3>1, <3>2, <2>1
  <2>5. ASSUME NEW c \in Child, Pumps(c) PROVE WorkConserving'
    <3>1. CASE Release(c)
      <4>1. Pump(queue, activeCount - 1, stage, status) /\ activeCount - 1 \in Nat
        <5>1. c \in Executions /\ IsFiniteSet(Executions)
          <6>1. Executions \in SUBSET Child /\ c \in Executions
            BY <3>1 DEF Release, Executions, IInv, TypeOK
          <6> QED BY <6>1, FS_Subset, ConstantsAssumption
        <5>2. Cardinality(Executions) # 0
          BY <5>1, FS_EmptySet
        <5> QED BY <2>0, <3>1, <5>2 DEF Release, IInv, PoolAccounting
      <4> QED BY <2>0, <4>1, PumpLeavesNoSlot DEF WorkConserving
    <3>2. CASE SpawnSaved(c)
      BY <2>0, <3>2, PumpLeavesNoSlot DEF SpawnSaved, WorkConserving
    <3>3. CASE CancelSaved(c)
      <4>1. Pump(queue, activeCount, [stage EXCEPT ![c] = "settled"], status)
        BY <3>3 DEF CancelSaved
      <4> QED BY <2>0, <4>1, PumpLeavesNoSlot DEF WorkConserving
    <3> QED BY <2>5, <3>1, <3>2, <3>3 DEF Pumps
  <2>6. ASSUME NEW c \in Child, Failures(c) PROVE WorkConserving'
    <3>1. PromptThrows(c)
      BY <2>6 DEF Failures, SpawnSaveFails, StartSaveFails, FinishSaveFails, CancelSaveFails
    <3>2. \A d \in Child : stage[d] \in {"cancelling", "cancelSaving"} => stage'[d] = stage[d]
      BY <2>0, <3>1 DEF PromptThrows, EnterFailure
    <3> QED BY <3>1, <3>2, <2>1 DEF PromptThrows, EnterFailure
  <2>7. ASSUME NEW m \in Msg, MessageSaved(m) \/ MessageSaveFails(m) PROVE WorkConserving'
    <3>1. \A d \in Child : stage[d] \in {"cancelling", "cancelSaving"} => stage'[d] = stage[d]
      BY <2>0, <2>7 DEF MessageSaved, MessageSaveFails
    <3> QED BY <2>7, <3>1, <2>1 DEF MessageSaved, MessageSaveFails
  <2>8. ASSUME RootStep PROVE WorkConserving'
    <3>1. CASE AbortRoot
      BY <3>1 DEF AbortRoot, WorkConserving
    <3>2. CASE ~AbortRoot
      BY <2>8, <3>2 DEF RootStep, PruneEnds, WaitReturns, WaitThrows, StartWait, WorkConserving
    <3> QED BY <3>1, <3>2
  <2>9. CASE UNCHANGED vars
    BY <2>9 DEF vars, WorkConserving
  <2> QED BY <2>2, <2>3, <2>4, <2>5, <2>6, <2>7, <2>8, <2>9, PartsOfNext
<1> QED BY CoordinatorInvariant, <1>1, <1>2, PTL DEF Spec

-----------------------------------------------------------------------------
(* The coordinator keeps the contract of delegation *)

\* A child that ends its first run does not end it by asking: executeChild
\* publishes a blocked notification instead.
UnaskedEnds ==
  \A c \in Child : stage[c] \in {"notifying", "finishing"} /\ c \notin resumed
                     => phase[c] # "awaiting"

LEMMA EndsAreUnasked == Spec => []UnaskedEnds
<1>1. Init => UnaskedEnds
  BY DEF Init, UnaskedEnds
<1>2. IInv /\ UnaskedEnds /\ [Next]_vars => UnaskedEnds'
  <2> SUFFICES ASSUME IInv, UnaskedEnds, [Next]_vars PROVE UnaskedEnds'
    OBVIOUS
  <2> USE DEF IInv, TypeOK, childVars, poolVars, noteVars, rootVars, msgVars, UnaskedEnds
  <2>1. ASSUME NEW c \in Child, Calls(c) PROVE UnaskedEnds'
    BY <2>1 DEF Calls, Spawn, Stop, Message
  <2>2. ASSUME NEW c \in Child, Proceeds(c) PROVE UnaskedEnds'
    BY <2>2 DEF Proceeds, Register, SpawnFails, SessionStarts, PromptEnds, FinishChild,
                UnexpectedFailure, Cancel
  <2>3. ASSUME NEW c \in Child, Reports(c) \/ Failures(c) PROVE UnaskedEnds'
    BY <2>3 DEF Reports, PublishBlocked, FinishSaved, FailureSaved, Settle, Failures,
                SpawnSaveFails, StartSaveFails, PromptThrows, FinishSaveFails, CancelSaveFails,
                EnterFailure
  <2>4. ASSUME NEW c \in Child, Pumps(c) PROVE UnaskedEnds'
    <3>1. CASE Release(c)
      BY <3>1 DEF Release, Pump
    <3>2. CASE SpawnSaved(c)
      BY <3>2 DEF SpawnSaved, Pump
    <3>3. CASE CancelSaved(c)
      BY <3>3 DEF CancelSaved, Pump
    <3> QED BY <2>4, <3>1, <3>2, <3>3 DEF Pumps
  <2>5. ASSUME NEW m \in Msg, MessageSaved(m) \/ MessageSaveFails(m) PROVE UnaskedEnds'
    BY <2>5 DEF MessageSaved, MessageSaveFails
  <2>6. ASSUME RootStep PROVE UnaskedEnds'
    BY <2>6 DEF RootStep, PruneEnds, AbortRoot, WaitReturns, WaitThrows, StartWait
  <2>7. CASE UNCHANGED vars
    BY <2>7 DEF vars
  <2> QED BY <2>1, <2>2, <2>3, <2>4, <2>5, <2>6, <2>7, PartsOfNext
<1> QED BY CoordinatorInvariant, <1>1, <1>2, PTL DEF Spec

\* The children the root observes as running hold a slot each.
LEMMA RunningFits == ASSUME IInv PROVE Cardinality({c \in Child : observed(c) = "running"}) <= MaxConcurrent
<1> DEFINE R == {c \in Child : observed(c) = "running"}
<1>1. R \subseteq Executions
  BY DEF observed, Executions, executing, running, IInv, TypeOK, Stage
<1>2. IsFiniteSet(Executions)
  <2>1. Executions \in SUBSET Child
    BY DEF Executions, IInv, TypeOK
  <2> QED BY <2>1, FS_Subset, ConstantsAssumption
<1>3. Cardinality(R) <= Cardinality(Executions) /\ Cardinality(R) \in Nat /\ Cardinality(Executions) \in Nat
  BY <1>1, <1>2, FS_Subset, FS_CardinalityType
<1> HIDE DEF R
<1>4. Cardinality(R) <= MaxConcurrent
  BY <1>3, ConstantsAssumption DEF IInv, PoolAccounting
<1> QED BY <1>4 DEF R

\* What a step of the contract does to one child, in the state of the
\* coordinator.
ChildStays(d) == observed(d)' = observed(d) /\ published'[d] = published[d]
ChildMoves(d, from, to) == observed(d) = from /\ observed(d)' = to
ChildSays(d, s) == published'[d] = Append(published[d], s)

Allowed(d) ==
  \/ ChildStays(d)
  \/ ChildMoves(d, "absent", "waiting") /\ published'[d] = published[d]
  \/ ChildMoves(d, "waiting", "running") /\ published'[d] = published[d]
  \/ ChildMoves(d, "waiting", "done") /\ ChildSays(d, "cancelled")
  \/ ChildMoves(d, "running", "done") /\ \E s \in Terminal : ChildSays(d, s)
  \/ ChildMoves(d, "running", "asking") /\ ChildSays(d, "blocked")
  \/ ChildMoves(d, "asking", "guided") /\ published'[d] = published[d]
  \/ ChildMoves(d, "guided", "done") /\ \E s \in Terminal \cup {"blocked"} : ChildSays(d, s)
  \/ observed(d) \in {"waiting", "guided"} /\ observed(d)' = "lost" /\ published'[d] = published[d]

LEMMA StepIsAllowed ==
  ASSUME IInv, UnaskedEnds, [Next]_vars, NEW d \in Child
  PROVE  Allowed(d)
<1> USE DEF Allowed, childVars, poolVars, noteVars, rootVars, msgVars
<1>0. /\ stage \in [Child -> Stage] /\ phase \in [Child -> Phase] /\ resumed \in SUBSET Child
      /\ published \in [Child -> Seq(Status)] /\ FiberShape
  BY DEF IInv, TypeOK
<1>1. ASSUME stage'[d] = stage[d], d \in resumed' <=> d \in resumed, published'[d] = published[d]
      PROVE  Allowed(d)
  BY <1>1 DEF ChildStays, observed
<1>2. ASSUME NEW c \in Child, Calls(c) PROVE Allowed(d)
  BY <1>0, <1>2 DEF Calls, Spawn, Stop, Message, ChildStays, observed
<1>3. ASSUME NEW c \in Child, Proceeds(c) PROVE Allowed(d)
  <2>1. CASE c # d
    BY <1>0, <1>1, <1>3, <2>1 DEF Proceeds, Register, SpawnFails, SessionStarts, PromptEnds,
                                  FinishChild, UnexpectedFailure, Cancel
  <2>2. CASE c = d
    <3>1. CASE Register(c)
      BY <1>0, <2>2, <3>1 DEF Register, ChildMoves, observed
    <3>2. CASE ~Register(c)
      BY <1>0, <1>3, <2>2, <3>2 DEF Proceeds, SpawnFails, SessionStarts, PromptEnds, FinishChild,
                                    UnexpectedFailure, Cancel, ChildStays, observed
    <3> QED BY <3>1, <3>2
  <2> QED BY <2>1, <2>2
<1>4. ASSUME NEW c \in Child, Reports(c) PROVE Allowed(d)
  <2>1. CASE c # d
    BY <1>0, <1>1, <1>4, <2>1 DEF Reports, PublishBlocked, FinishSaved, FailureSaved, Settle, Publish
  <2>2. CASE c = d
    <3>1. CASE PublishBlocked(c)
      BY <1>0, <2>2, <3>1 DEF PublishBlocked, Publish, FiberShape, ChildMoves, ChildSays, observed
    <3>2. CASE FinishSaved(c)
      <4>1. statusFor(phase[c]) \in Terminal \cup {"blocked"}
        BY DEF statusFor, Terminal
      <4>2. c \notin resumed => statusFor(phase[c]) \in Terminal
        BY <3>2 DEF UnaskedEnds, FinishSaved, statusFor, Terminal
      <4>3. ChildSays(d, statusFor(phase[c]))
        BY <1>0, <2>2, <3>2 DEF FinishSaved, Settle, Publish, ChildSays
      <4>4. observed(d)' = "done" /\ observed(d) = IF c \in resumed THEN "guided" ELSE "running"
        BY <1>0, <2>2, <3>2 DEF FinishSaved, Settle, observed
      <4> QED BY <4>1, <4>2, <4>3, <4>4 DEF ChildMoves
    <3>3. CASE FailureSaved(c)
      <4>1. phase[c] \in Terminal
        BY <1>0, <3>3 DEF FailureSaved, FiberShape, Terminal
      <4>2. ChildSays(d, phase[c])
        BY <1>0, <2>2, <3>3 DEF FailureSaved, Settle, Publish, ChildSays
      <4>3. observed(d)' = "done" /\ observed(d) \in {"guided", "running"}
        BY <1>0, <2>2, <3>3 DEF FailureSaved, Settle, observed
      <4> QED BY <4>1, <4>2, <4>3 DEF ChildMoves
    <3> QED BY <1>4, <3>1, <3>2, <3>3 DEF Reports
  <2> QED BY <2>1, <2>2
<1>5. ASSUME NEW c \in Child, Pumps(c) PROVE Allowed(d)
  <2>1. ASSUME stage[d] = "queued", stage'[d] = "starting", resumed' = resumed,
               published'[d] = published[d]
        PROVE  Allowed(d)
    BY <1>0, <2>1 DEF FiberShape, ChildMoves, observed
  <2>2. \A n \in Int : d \in started(queue, n) => stage[d] = "queued"
    BY QueuedStart DEF IInv
  <2>3. activeCount \in Int /\ activeCount - 1 \in Int
    BY DEF IInv, TypeOK
  <2>4. CASE Release(c)
    BY <1>0, <1>1, <2>1, <2>2, <2>3, <2>4 DEF Release, Pump, started
  <2>5. CASE SpawnSaved(c)
    BY <1>0, <1>1, <2>1, <2>2, <2>3, <2>5 DEF SpawnSaved, Pump, started
  <2>6. CASE CancelSaved(c)
    <3>1. CASE d = c
      <4>1. stage[d] = "cancelSaving" /\ stage'[d] = "settled" /\ resumed' = resumed
        BY <1>0, <2>2, <2>3, <2>6, <3>1 DEF CancelSaved, Pump, started
      <4>2. ChildSays(d, "cancelled")
        BY <1>0, <2>6, <3>1 DEF CancelSaved, Publish, ChildSays
      <4> QED BY <4>1, <4>2 DEF ChildMoves, observed
    <3>2. CASE d # c
      BY <1>0, <1>1, <2>1, <2>2, <2>3, <2>6, <3>2 DEF CancelSaved, Publish, Pump, started
    <3> QED BY <3>1, <3>2
  <2> QED BY <1>5, <2>4, <2>5, <2>6 DEF Pumps
<1>6. ASSUME NEW c \in Child, Failures(c) PROVE Allowed(d)
  <2>1. CASE SpawnSaveFails(c)
    BY <1>1, <2>1 DEF SpawnSaveFails
  <2>2. CASE StartSaveFails(c) \/ PromptThrows(c)
    BY <1>0, <2>2 DEF StartSaveFails, PromptThrows, EnterFailure, ChildStays, observed
  <2>3. CASE FinishSaveFails(c)
    <3>1. CASE d = c /\ c \in resumed
      BY <1>0, <2>3, <3>1 DEF FinishSaveFails, observed
    <3>2. CASE ~(d = c /\ c \in resumed)
      BY <1>0, <2>3, <3>2 DEF FinishSaveFails, EnterFailure, ChildStays, observed
    <3> QED BY <3>1, <3>2
  <2>4. CASE CancelSaveFails(c)
    <3>1. CASE d = c
      BY <1>0, <2>4, <3>1 DEF CancelSaveFails, observed
    <3>2. CASE d # c
      BY <1>0, <1>1, <2>4, <3>2 DEF CancelSaveFails
    <3> QED BY <3>1, <3>2
  <2> QED BY <1>6, <2>1, <2>2, <2>3, <2>4 DEF Failures
<1>7. ASSUME NEW m \in Msg, MessageSaved(m) \/ MessageSaveFails(m) PROVE Allowed(d)
  <2>1. CASE MessageSaveFails(m)
    BY <1>1, <2>1 DEF MessageSaveFails
  <2>2. CASE MessageSaved(m) /\ msgTo[m] = d /\ stage[d] = "blocked"
    BY <1>0, <2>2 DEF MessageSaved, FiberShape, ChildMoves, observed
  <2>3. CASE MessageSaved(m) /\ ~(msgTo[m] = d /\ stage[d] = "blocked")
    BY <1>0, <1>1, <2>3 DEF MessageSaved
  <2> QED BY <1>7, <2>1, <2>2, <2>3
<1>8. ASSUME RootStep PROVE Allowed(d)
  BY <1>0, <1>8 DEF RootStep, PruneEnds, AbortRoot, WaitReturns, WaitThrows, StartWait,
                    ChildStays, observed
<1>9. CASE UNCHANGED vars
  BY <1>1, <1>9 DEF vars
<1> QED BY <1>2, <1>3, <1>4, <1>5, <1>6, <1>7, <1>8, <1>9, PartsOfNext

\* Through queueing, cancellation, guidance, failed saves and the reuse of
\* slots, the root observes only lives of children that the contract allows:
\* every step of the coordinator is a step of DelegationContract or none.
THEOREM CoordinatorRefinesContract == Spec => ImplementsContract
<1>1. Init => Contract!Init
  BY DEF Init, Contract!Init, observed
<1>2. IInv /\ IInv' /\ UnaskedEnds /\ [Next]_vars => [Contract!Next]_(Contract!vars)
  <2> SUFFICES ASSUME IInv, IInv', UnaskedEnds, [Next]_vars PROVE Contract!Next
    OBVIOUS
  <2>1. [c \in Child |-> observed(c)]'
          \in [Child -> {"absent", "waiting", "running", "asking", "guided", "done", "lost"}]
    BY DEF observed
  <2>2. DOMAIN published' = Child
    BY DEF IInv, TypeOK
  <2>3. ASSUME NEW c \in Child PROVE Contract!Stays(c) \/ Contract!Move(c)
    <3>1. Allowed(c)
      BY StepIsAllowed
    <3> QED BY <3>1 DEF Allowed, ChildStays, ChildMoves, ChildSays, Terminal, Contract!Stays,
          Contract!Move, Contract!Delegate, Contract!Begin, Contract!CancelWaiting, Contract!Finish,
          Contract!Ask, Contract!Guide, Contract!FinishGuided, Contract!Lose, Contract!Go,
          Contract!Say, Contract!Silent, Contract!Ends
  <2>4. (Contract!PoolFits)'
    <3>1. (Cardinality({c \in Child : observed(c) = "running"}) <= MaxConcurrent)'
      BY RunningFits, PTL
    <3>2. {c \in Child : [d \in Child |-> observed(d)]'[c] = "running"}
            = {c \in Child : observed(c)' = "running"}
      OBVIOUS
    <3> QED BY <3>1, <3>2 DEF Contract!PoolFits, Cardinality, Contract!Cardinality
  <2> QED BY <2>1, <2>2, <2>3, <2>4 DEF Contract!Next
<1> QED BY CoordinatorInvariant, EndsAreUnasked, <1>1, <1>2, PTL DEF Spec, ImplementsContract, Contract!Spec

-----------------------------------------------------------------------------
(***************************************************************************)
(* Capabilities.                                                           *)
(***************************************************************************)

Configs == [modules : [Modules -> {"unset", "on", "off"}], off : SUBSET Tools]

SwitchesTypeOK ==
    /\ plugged \in BOOLEAN /\ preferred \in BOOLEAN /\ restricted \in BOOLEAN
    /\ ready \in BOOLEAN
    /\ stored \in Configs /\ config \in Configs
    /\ box \in {"none", "booting", "attached", "up"}
    /\ viewed \in ChatIds /\ DOMAIN active = ChatIds
    /\ active = [s \in ChatIds |-> active[s]]

\* The switch of the container is on in the configuration of a container that
\* is preferred, unless its last tool was switched off by itself.
SwitchFollows ==
    "halved" \notin past /\ preferred => config.modules["container"] # "off"

\* Both copies of the configuration agree, of extensions that are not there too.
agree(m) ==
    /\ stored.modules[m] = "off" <=> config.modules[m] = "off"
    /\ stored.off \cap toolsOf(m) = config.off \cap toolsOf(m)
CopiesAgree ==
    "reopened" \notin past /\ "dropped" \notin past => \A m \in Modules : agree(m)

\* A container that is not preferred is not booted; a terminal that was ready
\* is one of a container that still runs, until one was closed.
ReadyRuns ==
    /\ box # "none" => preferred
    /\ "closed" \notin past /\ ready => preferred /\ box \in {"attached", "up"}

RunsFit ==
    "closed" \notin past /\ "pulled" \notin past =>
        \A s \in ChatIds : active[s].tools => active[s].full

SwitchesInv == SwitchesTypeOK /\ SwitchFollows /\ CopiesAgree /\ ReadyRuns /\ RunsFit

-----------------------------------------------------------------------------
\* What the closure contains, and that it adds nothing to nothing.
LEMMA ClosureContains == ASSUME NEW ts \in SUBSET Tools PROVE ts \subseteq closure(ts)
BY DEF closure

LEMMA ClosureOfNothing == closure({}) = {}
<1>1. {} \in SUBSET Tools /\ {} \subseteq {} /\ \A u \in {} : dependencies(u) \subseteq {}
  OBVIOUS
<1> QED BY <1>1 DEF closure

LEMMA RegisteredTools ==
    /\ registered \subseteq Modules /\ "container" \in registered
    /\ registeredTools \subseteq Tools
    /\ \A t \in registeredTools : t \in ContainerTools \/ (plugged /\ t \in PluginTools)
BY DEF registered, registeredTools, Modules, toolsOf, Tools

LEMMA SwitchesShow == ASSUME SwitchesInv PROVE CapabilitiesSound
<1>1. ShownIsGiven
  <2> SUFFICES ASSUME "halved" \notin past, NEW t \in registeredTools, shownOn(t)
               PROVE  t \in enabledTools
    BY DEF ShownIsGiven
  <2>1. PICK m \in registered : t \in toolsOf(m) /\ moduleOn(m) /\ t \notin config.off
    BY DEF shownOn
  <2> DEFINE available == containerState = "enabled"
             base == {u \in registeredTools :
                        /\ u \notin config.off
                        /\ \E n \in registered :
                              /\ u \in toolsOf(n) /\ config.modules[n] # "off"
                              /\ n = "container" => available}
  <2>2. m \in Modules
    BY <2>1, RegisteredTools
  <2>3. config.modules[m] # "off" /\ (m = "container" => available)
    BY <2>1, <2>2 DEF moduleOn, SwitchesInv, SwitchFollows, containerState
  <2>4. t \in base
    BY <2>1, <2>3
  <2>5. base \in SUBSET Tools
    BY RegisteredTools
  <2> HIDE DEF base
  <2>6. t \in closure(base)
    BY <2>4, <2>5, ClosureContains
  <2> QED BY <2>6 DEF enabledTools, resolveEnabledTools, base
<1>2. SwitchesAreStored
  <2> SUFFICES ASSUME past \cap {"reopened", "dropped"} = {}, NEW m \in registered
               PROVE  /\ (stored.modules[m] = "off") = (config.modules[m] = "off")
                      /\ stored.off \cap toolsOf(m) = config.off \cap toolsOf(m)
    BY DEF SwitchesAreStored
  <2>1. m \in Modules /\ "reopened" \notin past /\ "dropped" \notin past
    BY RegisteredTools
  <2>2. agree(m)
    BY <2>1 DEF SwitchesInv, CopiesAgree
  <2> QED BY <2>2 DEF agree
<1>3. ToolsHaveRuntime
  BY DEF SwitchesInv, RunsFit, ToolsHaveRuntime
<1> QED BY <1>1, <1>2, <1>3 DEF CapabilitiesSound

LEMMA SwitchesStart == CapabilitiesInit => SwitchesInv
<1> SUFFICES ASSUME CapabilitiesInit PROVE SwitchesInv
  OBVIOUS
<1>1. DefaultConfig \in Configs /\ DefaultConfig.modules["container"] = "unset"
  BY DEF DefaultConfig, Configs, Modules
<1>2. SwitchesTypeOK
  BY <1>1 DEF CapabilitiesInit, SwitchesTypeOK
<1>3. RunsFit
  BY DEF CapabilitiesInit, RunsFit, NoRun
<1> QED BY <1>1, <1>2, <1>3 DEF CapabilitiesInit, SwitchesInv, SwitchFollows, CopiesAgree, agree,
           ReadyRuns

\* Steps of the container alone.
LEMMA BoxKeeps ==
    ASSUME SwitchesInv, Attach \/ HostReady \/ TerminalReady \/ BootFails \/ RetryContainer
    PROVE  SwitchesInv'
<1>1. UNCHANGED <<plugged, stored, config, preferred, viewed, active>>
  BY DEF Attach, HostReady, TerminalReady, BootFails, RetryContainer, runVars
<1>2. past \subseteq past' /\ past' \subseteq past \cup {"closed"}
  BY DEF Attach, HostReady, TerminalReady, BootFails, RetryContainer
<1>3. SwitchesTypeOK'
  BY <1>1 DEF SwitchesInv, SwitchesTypeOK, Attach, HostReady, TerminalReady, BootFails, RetryContainer
<1>4. ReadyRuns'
  BY <1>1 DEF SwitchesInv, SwitchesTypeOK, ReadyRuns, Attach, HostReady, TerminalReady, BootFails,
              RetryContainer, containerState
<1>5. SwitchFollows' /\ CopiesAgree' /\ RunsFit'
  BY <1>1, <1>2 DEF SwitchesInv, SwitchFollows, CopiesAgree, agree, RunsFit
<1> QED BY <1>3, <1>4, <1>5 DEF SwitchesInv

LEMMA LoadPageKeeps == ASSUME SwitchesInv, LoadPage PROVE SwitchesInv'
<1>1. /\ config' = sanitized(stored) /\ loadedWith(stored, marked) /\ ready' = FALSE
      /\ active' = [s \in ChatIds |-> NoRun]
      /\ past' = (past \ {"closed"}) \cup (IF sanitized(stored) # stored THEN {"dropped"} ELSE {})
      /\ UNCHANGED <<plugged, stored, marked, viewed>>
  BY DEF LoadPage
<1>2. stored \in Configs
  BY DEF SwitchesInv, SwitchesTypeOK
<1>3. sanitized(stored) \in Configs
      /\ sanitized(stored).modules["container"] = stored.modules["container"]
  <2>1. \A m \in Modules : stored.modules[m] \in {"unset", "on", "off"}
    BY <1>2 DEF Configs
  <2> QED BY <1>2, <2>1, RegisteredTools DEF Configs, sanitized, Modules
<1>4. SwitchesTypeOK'
  BY <1>1, <1>3 DEF SwitchesInv, SwitchesTypeOK, loadedWith
<1>5. SwitchFollows'
  BY <1>1, <1>3 DEF SwitchFollows, loadedWith
<1>6. CopiesAgree'
  <2> SUFFICES ASSUME "dropped" \notin past' PROVE config' = stored /\ stored' = stored
    BY DEF CopiesAgree, agree
  <2> QED BY <1>1
<1>7. ReadyRuns'
  BY <1>1 DEF ReadyRuns, loadedWith
<1>8. RunsFit'
  BY <1>1 DEF RunsFit, NoRun
<1> QED BY <1>4, <1>5, <1>6, <1>7, <1>8 DEF SwitchesInv

\* A master switch of a configuration is set.
LEMMA ModuleOn ==
    ASSUME NEW c \in Configs, NEW m \in Modules
    PROVE  /\ setModule(c, m, TRUE) \in Configs /\ setModule(c, m, TRUE).off = c.off
           /\ \A n \in Modules : setModule(c, m, TRUE).modules[n] =
                 IF n = m THEN "on" ELSE c.modules[n]
BY DEF setModule, Configs

LEMMA ModuleOff ==
    ASSUME NEW c \in Configs, NEW m \in Modules
    PROVE  /\ setModule(c, m, FALSE) \in Configs /\ setModule(c, m, FALSE).off = c.off
           /\ \A n \in Modules : setModule(c, m, FALSE).modules[n] =
                 IF n = m THEN "off" ELSE c.modules[n]
BY DEF setModule, Configs

LEMMA AllToolsEnabled ==
    ASSUME NEW c \in Configs, NEW m \in Modules
    PROVE  /\ enableAllTools(c, m) \in Configs
           /\ \A n \in Modules : enableAllTools(c, m).modules[n] = IF n = m THEN "on" ELSE c.modules[n]
<1> DEFINE d == setModule(c, m, TRUE)
<1>1. d \in Configs /\ \A n \in Modules : d.modules[n] = IF n = m THEN "on" ELSE c.modules[n]
  BY ModuleOn
<1> HIDE DEF d
<1>2. [d EXCEPT !.off = @ \ toolsOf(m)] \in Configs
      /\ [d EXCEPT !.off = @ \ toolsOf(m)].modules = d.modules
  BY <1>1 DEF Configs
<1> QED BY <1>1, <1>2 DEF enableAllTools, d

LEMMA ToggleContainerKeeps == ASSUME SwitchesInv, ToggleContainer PROVE SwitchesInv'
<1>1. /\ preferred' = ~preferred
      /\ stored' = setModule(stored, "container", preferred')
      /\ config' = containerConfig(config, preferred')
      /\ restricted' = FALSE
      /\ box' = IF preferred' THEN "booting" ELSE "none"
      /\ past' = past \cup (IF preferred' THEN {"reopened"} ELSE {"closed"})
      /\ UNCHANGED <<plugged, ready, viewed, active>>
  BY DEF ToggleContainer, runVars
<1>2. /\ stored \in Configs /\ config \in Configs /\ preferred \in BOOLEAN /\ preferred' \in BOOLEAN
      /\ "container" \in Modules
  BY <1>1 DEF SwitchesInv, SwitchesTypeOK, Modules
<1>3. stored' \in Configs /\ config' \in Configs
  <2>1. CASE preferred' = TRUE
    BY <1>1, <1>2, <2>1, ModuleOn, AllToolsEnabled DEF containerConfig
  <2>2. CASE preferred' = FALSE
    BY <1>1, <1>2, <2>2, ModuleOff DEF containerConfig
  <2> QED BY <1>2, <2>1, <2>2
<1>4. SwitchesTypeOK'
  BY <1>1, <1>2, <1>3 DEF SwitchesInv, SwitchesTypeOK
<1>5. SwitchFollows'
  <2>1. preferred' => config'.modules["container"] = "on"
    BY <1>1, <1>2, AllToolsEnabled DEF containerConfig
  <2> QED BY <2>1 DEF SwitchFollows
<1>6. CopiesAgree'
  <2> SUFFICES ASSUME "reopened" \notin past', "dropped" \notin past', NEW m \in Modules PROVE agree(m)'
    BY DEF CopiesAgree
  <2>1. preferred' = FALSE
    BY <1>1, <1>2
  <2>2. /\ stored' = setModule(stored, "container", FALSE)
        /\ config' = setModule(config, "container", FALSE)
    BY <1>1, <2>1 DEF containerConfig
  <2>3. agree(m)
    BY <1>1 DEF SwitchesInv, CopiesAgree
  <2>4. /\ stored'.off = stored.off /\ config'.off = config.off
        /\ stored'.modules[m] = IF m = "container" THEN "off" ELSE stored.modules[m]
        /\ config'.modules[m] = IF m = "container" THEN "off" ELSE config.modules[m]
    BY <1>2, <2>2, ModuleOff
  <2> QED BY <2>3, <2>4 DEF agree
<1>7. ReadyRuns'
  BY <1>1, <1>2 DEF SwitchesInv, ReadyRuns
<1>8. RunsFit'
  BY <1>1 DEF SwitchesInv, RunsFit
<1> QED BY <1>4, <1>5, <1>6, <1>7, <1>8 DEF SwitchesInv

\* A configuration that is stored as it is shown.
LEMMA PersistKeeps ==
    ASSUME SwitchesInv, NEW c \in Configs, Persists(c), past \subseteq past',
           "halved" \notin past' /\ preferred => c.modules["container"] # "off",
           past' \subseteq past \cup {"halved"},
           UNCHANGED <<plugged, boxVars, runVars>>
    PROVE  SwitchesInv'
<1>1. config' = c /\ stored' = c
      /\ UNCHANGED <<plugged, preferred, restricted, marked, box, ready, viewed, active>>
  BY DEF Persists, boxVars, runVars
<1>2. SwitchesTypeOK'
  BY <1>1 DEF SwitchesInv, SwitchesTypeOK
<1>3. SwitchFollows' /\ CopiesAgree'
  BY <1>1 DEF SwitchFollows, CopiesAgree, agree
<1>4. ReadyRuns' /\ RunsFit'
  BY <1>1 DEF SwitchesInv, ReadyRuns, RunsFit
<1> QED BY <1>2, <1>3, <1>4 DEF SwitchesInv

LEMMA ToggleModuleKeeps == ASSUME SwitchesInv, ToggleModule PROVE SwitchesInv'
<1> DEFINE c == IF moduleOn("plugin") THEN setModule(config, "plugin", FALSE)
                ELSE enableAllTools(config, "plugin")
<1>1. config \in Configs /\ "plugin" \in Modules /\ "container" \in Modules
  BY DEF SwitchesInv, SwitchesTypeOK, Modules
<1>2. c \in Configs /\ c.modules["container"] = config.modules["container"]
  <2>1. /\ setModule(config, "plugin", FALSE) \in Configs
        /\ setModule(config, "plugin", FALSE).modules["container"] = config.modules["container"]
    BY <1>1, ModuleOff
  <2>2. /\ enableAllTools(config, "plugin") \in Configs
        /\ enableAllTools(config, "plugin").modules["container"] = config.modules["container"]
    BY <1>1, AllToolsEnabled
  <2> QED BY <2>1, <2>2
<1> HIDE DEF c
<1>3. Persists(c) /\ UNCHANGED <<plugged, boxVars, runVars, past>>
  BY DEF ToggleModule, c
<1>4. "halved" \notin past' /\ preferred => c.modules["container"] # "off"
  BY <1>2, <1>3 DEF SwitchesInv, SwitchFollows
<1> QED BY <1>2, <1>3, <1>4, PersistKeeps

LEMMA ToggledConfig ==
    ASSUME NEW c \in Configs, NEW m \in Modules, NEW t \in toolsOf(m), NEW on \in BOOLEAN
    PROVE  /\ toggled(c, m, t, on) \in Configs
           /\ \A n \in Modules : n # m => toggled(c, m, t, on).modules[n] = c.modules[n]
<1> DEFINE next == [c EXCEPT !.off = IF on THEN @ \ {t} ELSE @ \cup {t}]
<1>1. next \in Configs /\ next.modules = c.modules
  BY DEF Configs, toolsOf, Tools, Modules
<1> HIDE DEF next
<1>2. /\ setModule(next, m, FALSE) \in Configs
      /\ \A n \in Modules : n # m => setModule(next, m, FALSE).modules[n] = c.modules[n]
  <2>1. /\ setModule(next, m, FALSE) \in Configs
        /\ \A n \in Modules : setModule(next, m, FALSE).modules[n] =
              IF n = m THEN "off" ELSE next.modules[n]
    BY <1>1, ModuleOff, Zenon
  <2> QED BY <1>1, <2>1
<1>3. toggled(c, m, t, on) = next \/ toggled(c, m, t, on) = setModule(next, m, FALSE)
  BY DEF toggled, next
<1> QED BY <1>1, <1>2, <1>3

LEMMA ToggleToolKeeps ==
    ASSUME SwitchesInv, NEW m \in Modules, NEW t \in toolsOf(m), ToggleTool(m, t)
    PROVE  SwitchesInv'
<1> DEFINE c == toggled(config, m, t, ~shownOn(t))
<1>1. config \in Configs /\ "container" \in Modules
  BY DEF SwitchesInv, SwitchesTypeOK, Modules
<1>2. c \in Configs /\ \A n \in Modules : n # m => c.modules[n] = config.modules[n]
  BY <1>1, ToggledConfig
<1> HIDE DEF c
<1>3. /\ Persists(c)
      /\ past' = IF m = "container" /\ config'.modules[m] = "off" THEN past \cup {"halved"} ELSE past
      /\ UNCHANGED <<plugged, boxVars, runVars>>
  BY DEF ToggleTool, c
<1>4. "halved" \notin past' /\ preferred => c.modules["container"] # "off"
  <2>1. config' = c
    BY <1>3 DEF Persists
  <2>2. CASE m = "container"
    BY <1>3, <2>1, <2>2
  <2>3. CASE m # "container"
    BY <1>1, <1>2, <1>3, <2>3 DEF SwitchesInv, SwitchFollows
  <2> QED BY <2>2, <2>3
<1>5. past \subseteq past' /\ past' \subseteq past \cup {"halved"}
  BY <1>3
<1> QED BY <1>2, <1>3, <1>4, <1>5, PersistKeeps

\* Extensions come and go, another session is viewed, a run ends.
LEMMA PlugKeeps ==
    ASSUME SwitchesInv, Plug \/ \E s \in ChatIds : View(s) \/ RunEnds(s)
    PROVE  SwitchesInv'
<1>1. UNCHANGED <<stored, config, preferred, restricted, box, ready, past>>
  BY DEF Plug, View, RunEnds, boxVars
<1>2. DOMAIN active' = ChatIds /\ active' = [s \in ChatIds |-> active'[s]]
      /\ \A s \in ChatIds : active'[s] = active[s] \/ active'[s] = NoRun
  BY DEF SwitchesInv, SwitchesTypeOK, Plug, View, RunEnds, runVars
<1>3. plugged' \in BOOLEAN /\ viewed' \in ChatIds
  BY DEF SwitchesInv, SwitchesTypeOK, Plug, View, RunEnds, runVars
<1>4. SwitchesTypeOK'
  BY <1>1, <1>2, <1>3 DEF SwitchesInv, SwitchesTypeOK
<1>5. SwitchFollows' /\ CopiesAgree' /\ ReadyRuns'
  BY <1>1 DEF SwitchesInv, SwitchFollows, CopiesAgree, agree, ReadyRuns
<1>6. RunsFit'
  BY <1>1, <1>2 DEF SwitchesInv, RunsFit, NoRun
<1> QED BY <1>4, <1>5, <1>6 DEF SwitchesInv

LEMMA LaunchKeeps == ASSUME SwitchesInv, Launch PROVE SwitchesInv'
<1> DEFINE r == [tools |-> enabledTools \cap ContainerTools # {}, full |-> hasRuntime, on |-> TRUE]
<1>1. /\ composerReady /\ active' = [active EXCEPT ![viewed] = r]
      /\ past' = IF containerState # "enabled" /\ enabledTools \cap PluginTools # {}
                 THEN past \cup {"pulled"} ELSE past
      /\ UNCHANGED <<plugged, stored, config, preferred, restricted, box, ready, viewed>>
  BY DEF Launch, boxVars
<1>2. "closed" \notin past' /\ "pulled" \notin past' /\ r.tools => r.full
  <2> SUFFICES ASSUME "closed" \notin past', "pulled" \notin past', enabledTools \cap ContainerTools # {}
               PROVE  hasRuntime
    OBVIOUS
  <2>1. CASE containerState = "enabled"
    BY <1>1, <2>1 DEF composerReady, hasRuntime, SwitchesInv, ReadyRuns
  <2>2. CASE containerState # "enabled"
    <3> DEFINE base == {u \in registeredTools :
                        /\ u \notin config.off
                        /\ \E n \in registered :
                              /\ u \in toolsOf(n) /\ config.modules[n] # "off"
                              /\ n = "container" => FALSE}
    <3>1. enabledTools = closure(base)
      BY <2>2 DEF enabledTools, resolveEnabledTools
    <3>2. base \in SUBSET Tools /\ base \subseteq PluginTools
      BY RegisteredTools DEF toolsOf
    <3> HIDE DEF base
    <3>3. base \subseteq enabledTools
      BY <3>1, <3>2, ClosureContains
    <3>4. enabledTools \cap PluginTools = {}
      BY <1>1, <2>2
    <3>5. base = {}
      BY <3>2, <3>3, <3>4
    <3> QED BY <3>1, <3>5, ClosureOfNothing
  <2> QED BY <2>1, <2>2
<1> HIDE DEF r
<1>3. DOMAIN active' = ChatIds /\ active' = [s \in ChatIds |-> active'[s]]
      /\ \A s \in ChatIds : active'[s] = IF s = viewed THEN r ELSE active[s]
  BY <1>1 DEF SwitchesInv, SwitchesTypeOK
<1>4. past \subseteq past' /\ past' \subseteq past \cup {"pulled"}
  BY <1>1
<1>5. SwitchesTypeOK'
  BY <1>1, <1>3 DEF SwitchesInv, SwitchesTypeOK
<1>6. SwitchFollows' /\ CopiesAgree' /\ ReadyRuns'
  BY <1>1, <1>4 DEF SwitchesInv, SwitchFollows, CopiesAgree, agree, ReadyRuns
<1>7. RunsFit'
  BY <1>2, <1>3, <1>4 DEF SwitchesInv, RunsFit
<1> QED BY <1>5, <1>6, <1>7 DEF SwitchesInv

LEMMA SwitchesStep == SwitchesInv /\ [CapabilitiesNext]_capabilitiesVars => SwitchesInv'
<1> SUFFICES ASSUME SwitchesInv, [CapabilitiesNext]_capabilitiesVars PROVE SwitchesInv'
  OBVIOUS
<1>1. CASE UNCHANGED capabilitiesVars
  BY <1>1 DEF capabilitiesVars, SwitchesInv, SwitchesTypeOK, SwitchFollows, CopiesAgree, agree,
              ReadyRuns, RunsFit
<1> QED BY <1>1, BoxKeeps, LoadPageKeeps, ToggleContainerKeeps, ToggleModuleKeeps,
           ToggleToolKeeps, PlugKeeps, LaunchKeeps DEF CapabilitiesNext

\* Whatever is switched, plugged, closed, failed or loaded anew, and for any
\* tools, dependencies and sessions: what the panel shows as on the next run is
\* given, the switches come back with the page, and a run with container tools
\* has the container's runtime, each but for the cases recorded in `past`.
\* (CapabilityContext.tsx, registry.ts)
THEOREM CapabilitiesStaySound == CapabilitiesSpec => []CapabilitiesSound
<1>1. CapabilitiesInit => SwitchesInv
  BY SwitchesStart
<1>2. SwitchesInv /\ [CapabilitiesNext]_capabilitiesVars => SwitchesInv'
  BY SwitchesStep
<1>3. SwitchesInv => CapabilitiesSound
  BY SwitchesShow
<1> QED BY <1>1, <1>2, <1>3, PTL DEF CapabilitiesSpec
=============================================================================
