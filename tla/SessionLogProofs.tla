--------------------------- MODULE SessionLogProofs ---------------------------
(***************************************************************************)
(* LogSound for any number of runs, turns, guidance, lost puts and reloads *)
(* of the page.                                                            *)
(*                                                                         *)
(* IInv of SessionLog is inductive.  As long as no two instances were open *)
(* at once there is at most one writer, its memory is the log's length and *)
(* leaf, so every put appends an entry that names the one before it        *)
(* (PutAppends); and a run leaves the writers only when all its answers    *)
(* are put, so nobody else's memory grows old unnoticed.  Each step either *)
(* leaves the log (QuietKeeps) or puts one entry (PutKeeps); Opens is the  *)
(* only one that makes a writer.                                           *)
(*                                                                         *)
(* HistorySound, of the events the page shows of a session, comes behind   *)
(* it, and TerminalSound, of the output its terminal shows, last.          *)
(***************************************************************************)
EXTENDS SessionLog, EventHistory, TerminalHistory, SequenceTheorems, FiniteSetTheorems, TLAPS

Ref == {Root} \cup Id
Entry == [id : Id, parent : Ref]
Known == [len : Nat, leaf : Ref]

\* A log never shrinks or changes under a session that is alone.
Grows == ~overlap => Len(log) <= Len(log') /\ SubSeq(log', 1, Len(log)) = log

-----------------------------------------------------------------------------
(* The runs. *)

\* What a step of the run r does to the stages: r goes from one to another.
Moves(r, from, to) ==
  /\ stage[r] \in from
  /\ \E s \in to : stage' = [stage EXCEPT ![r] = s]

LEMMA LaunchTypes ==
  ASSUME RunsTypeOK, NEW r \in Run,
         Submit(r) \/ Resume(r) \/ ResumeLaunches(r) \/ ResumeFails(r)
           \/ DriverCreated(r) \/ DriverFails(r)
  PROVE  /\ RunsTypeOK'
         /\ Moves(r, {"none", "resuming", "creating"},
                     {"none", "resuming", "creating", "opening", "rejected"})
<1>1. CASE Submit(r) \/ ResumeLaunches(r)
  <2>1. stage[r] \in {"none", "resuming"} /\ Launches(r)
    BY <1>1 DEF Submit, ResumeLaunches, fresh
  <2>2. 1 + Cardinality({q \in Run : order[q] > 0}) \in Nat
    BY RunsAssumption, FS_Subset, FS_CardinalityType
  <2> QED BY <2>1, <2>2 DEF Launches, goTo, show, RunsTypeOK, Moves, Stage, Launched, Phase, Active
<1>2. CASE Resume(r) \/ ResumeFails(r) \/ DriverCreated(r) \/ DriverFails(r)
  BY <1>2 DEF Resume, ResumeFails, DriverCreated, DriverFails, fresh, goTo, show, RunsTypeOK,
              Moves, Stage, Launched, Live, Phase, Settled
<1> QED BY <1>1, <1>2

LEMMA PassesTypes ==
  ASSUME RunsTypeOK, NEW r \in Run, NEW from \in Stage, NEW to \in Stage, Passes(r, from, to)
  PROVE  RunsTypeOK' /\ Moves(r, {from}, {"done", to})
<1>1. CASE aborted[r]
  BY <1>1 DEF Passes, goTo, show, RunsTypeOK, Moves, Stage, Phase, Settled
<1>2. CASE ~aborted[r]
  BY <1>2 DEF Passes, goTo, RunsTypeOK, Moves
<1> QED BY <1>1, <1>2

LEMMA ThrowsTypes ==
  ASSUME RunsTypeOK, NEW r \in Run, NEW from, Throws(r, from)
  PROVE  RunsTypeOK' /\ Moves(r, {from}, {"rejected"})
  BY DEF Throws, goTo, RunsTypeOK, Moves, Stage

\* The loop of the agent, and the start of it.
LEMMA LoopTypes ==
  ASSUME RunsTypeOK, NEW r \in Run,
         \/ Starts(r) \/ ModelCallsTools(r) \/ ModelStops(r) \/ NextTurn(r)
         \/ \E reason \in {"aborted", "error"} : ModelBreaks(r, reason)
         \/ \E s \in {"none", "completed", "awaiting_user"} : ToolsEnd(r, s)
         \/ AgentEnd(r)
  PROVE  RunsTypeOK' /\ Moves(r, Loop \cup {"storing"}, Loop \cup {"flushing"})
<1>1. CASE Starts(r) \/ ModelCallsTools(r) \/ ModelStops(r) \/ NextTurn(r)
  BY <1>1 DEF Starts, ModelCallsTools, ModelStops, NextTurn, goTo, show, RunsTypeOK, Moves,
              Stage, Launched, Live, Loop, Phase, Active
<1>2. CASE \E reason \in {"aborted", "error"} : ModelBreaks(r, reason)
  <2>1. PICK reason \in {"aborted", "error"} : ModelBreaks(r, reason)
    BY <1>2
  <2>2. broken(r, reason) \in Phase
    BY DEF broken, Phase, Settled
  <2> QED BY <2>1, <2>2 DEF ModelBreaks, goTo, show, RunsTypeOK, Moves, Stage, Launched, Live, Loop
<1>3. CASE \E s \in {"none", "completed", "awaiting_user"} : ToolsEnd(r, s)
  BY <1>3 DEF ToolsEnd, goTo, RunsTypeOK, Moves, Stage, Launched, Live, Loop
<1>4. CASE AgentEnd(r)
  <2>1. conclusion(r) \in Phase
    BY DEF conclusion, Phase, Settled, RunsTypeOK
  <2> QED BY <1>4, <2>1
          DEF AgentEnd, goTo, show, RunsTypeOK, Moves, Stage, Launched, Live, Loop
<1> QED BY <1>1, <1>2, <1>3, <1>4

LEMMA ReturnsTypes ==
  ASSUME RunsTypeOK, NEW r \in Run, Returns(r)
  PROVE  RunsTypeOK' /\ Moves(r, {"flushing"}, {"done"})
  BY DEF Returns, goTo, RunsTypeOK, Moves, Stage

\* The user, and the page.
LEMMA GuideTypes ==
  ASSUME RunsTypeOK, StopTask \/ \E r \in Run : Guide(r)
  PROVE  RunsTypeOK' /\ UNCHANGED stage
<1>1. CASE StopTask
  BY <1>1 DEF StopTask, Abort, RunsTypeOK
<1>2. CASE \E r \in Run : Guide(r)
  BY <1>2, RunsAssumption DEF Guide, RunsTypeOK
<1> QED BY <1>1, <1>2

LEMMA ShowsTypes ==
  ASSUME RunsTypeOK, NEW p \in [Run -> Phase], Shows(p)
  PROVE  RunsTypeOK' /\ UNCHANGED stage
  BY DEF Shows, RunsTypeOK

LEMMA PageGoneTypes ==
  ASSUME RunsTypeOK, PageGone
  PROVE  RunsTypeOK' /\ \A r \in Run : stage'[r] \notin Launched
  BY DEF PageGone, RunsTypeOK, Stage, Phase, Launched, Live, Loop

-----------------------------------------------------------------------------
(* The log. *)

LEMMA EntryTypes ==
  ASSUME TypeOK, NEW r \in Run
  PROVE  entryOf(r) \in Entry
<1>1. wrote[r] + 1 \in Nat /\ mem[r].leaf \in Ref
  BY DEF TypeOK, Ref
<1> QED BY <1>1 DEF entryOf, Entry, Id, Ref

\* Whatever the writer knows, its put leaves a log of entries.
LEMMA PutTypes ==
  ASSUME TypeOK, NEW r \in Run, Put(r)
  PROVE  /\ log' \in Seq(Entry) /\ mem' \in [Run -> Known] /\ wrote' \in [Run -> Nat]
         /\ \A q \in Run \ {r} : mem'[q] = mem[q]
         /\ mem'[r] = [len |-> mem[r].len + 1, leaf |-> entryOf(r).id]
<1>1. /\ entryOf(r) \in Entry /\ entryOf(r).id \in Id
      /\ mem[r].len \in Nat /\ log \in Seq(Entry) /\ Len(log) \in Nat
  BY EntryTypes DEF TypeOK, Entry, Ref
<1>2. log' \in Seq(Entry)
  <2>1. CASE mem[r].len < Len(log)
    <3>1. mem[r].len + 1 \in 1..Len(log)
      BY <2>1, <1>1
    <3> QED BY <3>1, <2>1, <1>1, ExceptSeq DEF Put
  <2>2. CASE ~(mem[r].len < Len(log))
    BY <2>2, <1>1, AppendProperties DEF Put
  <2> QED BY <2>1, <2>2
<1>3. [len |-> mem[r].len + 1, leaf |-> entryOf(r).id] \in Known
  BY <1>1 DEF Known, Ref
<1>4. mem' = [mem EXCEPT ![r] = [len |-> mem[r].len + 1, leaf |-> entryOf(r).id]]
  BY DEF Put
<1>5. mem \in [Run -> Known]
  BY DEF TypeOK, Known, Ref
<1>6. wrote' \in [Run -> Nat]
  BY DEF Put, TypeOK
<1> QED BY <1>2, <1>3, <1>4, <1>5, <1>6

\* A writer that knows all of the log appends to it.
LEMMA PutAppends ==
  ASSUME TypeOK, Replays(log), NEW r \in Run, Put(r),
         mem[r] = [len |-> Len(log), leaf |-> leafOf(log)]
  PROVE  /\ Replays(log') /\ Grows
         /\ mem'[r] = [len |-> Len(log'), leaf |-> leafOf(log')]
<1> DEFINE e == entryOf(r)
<1>1. /\ e \in Entry /\ e.parent = leafOf(log) /\ mem[r].len = Len(log)
      /\ log \in Seq(Entry) /\ Len(log) \in Nat
  BY EntryTypes DEF TypeOK, Entry, Ref, entryOf
<1>2. log' = Append(log, e)
  <2>1. ~(mem[r].len < Len(log))
    BY <1>1
  <2>2. log' = IF mem[r].len < Len(log) THEN [log EXCEPT ![mem[r].len + 1] = e]
                                       ELSE Append(log, e)
    BY DEF Put
  <2> QED BY <2>1, <2>2
<1> HIDE DEF e
<1>3. /\ log' \in Seq(Entry) /\ Len(log') = Len(log) + 1 /\ log'[Len(log) + 1] = e /\ log' # <<>>
      /\ \A i \in 1..Len(log) : log'[i] = log[i]
  BY <1>1, <1>2, AppendProperties
<1>4. Replays(log')
  <2> SUFFICES ASSUME NEW i \in 1..Len(log')
               PROVE  log'[i].parent = IF i = 1 THEN Root ELSE log'[i - 1].id
    BY DEF Replays
  <2>1. CASE i \in 1..Len(log)
    <3>1. i # 1 => i - 1 \in 1..Len(log)
      BY <2>1, <1>1
    <3> QED BY <3>1, <2>1, <1>3 DEF Replays
  <2>2. CASE i = Len(log) + 1
    <3>1. CASE Len(log) = 0
      <4>1. log = <<>>
        BY <3>1, <1>1
      <4> QED BY <4>1, <3>1, <2>2, <1>1, <1>3 DEF leafOf
    <3>2. CASE Len(log) # 0
      <4>1. log # <<>> /\ i - 1 = Len(log) /\ Len(log) \in 1..Len(log) /\ i # 1
        BY <3>2, <2>2, <1>1
      <4> QED BY <4>1, <2>2, <1>1, <1>3 DEF leafOf
    <3> QED BY <3>1, <3>2
  <2> QED BY <2>1, <2>2, <1>1, <1>3
<1>5. mem'[r] = [len |-> Len(log'), leaf |-> leafOf(log')]
  <2>1. mem'[r] = [len |-> Len(log) + 1, leaf |-> e.id]
    BY <1>1, PutTypes DEF e
  <2>2. leafOf(log') = e.id
    BY <1>3 DEF leafOf
  <2> QED BY <2>1, <2>2, <1>3
<1>6. SubSeq(log', 1, Len(log)) = log
  <2>1. /\ SubSeq(log', 1, Len(log)) \in Seq(Entry)
        /\ Len(SubSeq(log', 1, Len(log))) = Len(log)
        /\ \A i \in 1..Len(log) : SubSeq(log', 1, Len(log))[i] = log'[i]
    <3>1. \A i \in 1..Len(log) : log'[i] \in Entry
      BY <1>1, <1>3
    <3>2. /\ SubSeq(log', 1, Len(log)) \in Seq(Entry)
          /\ Len(SubSeq(log', 1, Len(log))) = IF 1 <= Len(log) THEN Len(log) - 1 + 1 ELSE 0
          /\ \A i \in 1..(Len(log) - 1 + 1) : SubSeq(log', 1, Len(log))[i] = log'[1 + i - 1]
      BY <3>1, <1>1, SubSeqProperties
    <3> QED BY <3>2, <1>1
  <2> QED BY <2>1, <1>1, <1>3, SeqEqual
<1> QED BY <1>1, <1>3, <1>4, <1>5, <1>6 DEF Grows

-----------------------------------------------------------------------------
(* The two kinds of steps. *)

\* Runs whose answers must all be put.
silent(r) == r \notin writers \/ stage[r] \in {"compacting", "storing"}

\* A step that leaves the log and makes no writer.
LEMMA QuietKeeps ==
  ASSUME IInv, TypeOK', UNCHANGED <<log, mem, overlap>>, writers' \subseteq writers,
         ~overlap => \A q \in Run : silent(q)' => answers'[q] = 0
  PROVE  IInv' /\ Grows
<1>1. log \in Seq(Entry)
  BY DEF IInv, TypeOK, Entry, Ref
<1>2. Grows
  BY <1>1, SubSeqFull DEF Grows
<1>3. IInv'
  BY DEF IInv, silent, Replays, leafOf
<1> QED BY <1>2, <1>3

\* A step in which a writer puts an entry.
LEMMA PutKeeps ==
  ASSUME IInv, TypeOK', NEW r \in Run, Put(r), ~overlap => r \in writers, UNCHANGED overlap,
         writers' \subseteq writers,
         ~overlap => \A q \in Run : silent(q)' => answers'[q] = 0
  PROVE  IInv' /\ Grows
<1>1. TypeOK
  BY DEF IInv
<1>2. CASE overlap
  BY <1>2 DEF IInv, Grows
<1>3. CASE ~overlap
  <2>1. /\ Replays(log) /\ mem[r] = [len |-> Len(log), leaf |-> leafOf(log)]
        /\ \A q \in writers : q = r
    BY <1>3 DEF IInv
  <2>2. /\ Replays(log') /\ Grows
        /\ mem'[r] = [len |-> Len(log'), leaf |-> leafOf(log')]
    BY <1>1, <2>1, PutAppends
  <2> QED BY <2>1, <2>2, <1>3 DEF IInv, silent
<1> QED BY <1>2, <1>3

-----------------------------------------------------------------------------
(* The steps of the runs. *)

\* A stage other than those a step moves from and to is as before; so writers
\* come and go only with the run that moves.
LEMMA WritersMove ==
  ASSUME RunsTypeOK, NEW r \in Run, NEW from, NEW to, Moves(r, from, to)
  PROVE  /\ stage[r] \in from /\ stage'[r] \in to
         /\ \A q \in Run \ {r} : /\ stage'[q] = stage[q] /\ (q \in writers' <=> q \in writers)
                                 /\ silent(q)' <=> silent(q)
         /\ r \in writers <=> stage[r] \in Live \ {"opening"}
         /\ r \in writers' <=> stage'[r] \in Live \ {"opening"}
<1>1. PICK s \in to : stage' = [stage EXCEPT ![r] = s]
  BY DEF Moves
<1>2. stage'[r] = s /\ \A q \in Run \ {r} : stage'[q] = stage[q]
  BY <1>1 DEF RunsTypeOK
<1> QED BY <1>1, <1>2 DEF Moves, writers, silent

\* A run before it opens the session, and one that fails to, is no writer.
LEMMA BeforeKeeps ==
  ASSUME IInv, NEW r \in Run, Launch(r) \/ OpenFails(r)
  PROVE  IInv' /\ Grows
<1> DEFINE Before == {"none", "resuming", "creating", "opening", "rejected"}
<1>1. TypeOK /\ RunsTypeOK /\ UNCHANGED logs
  BY DEF IInv, TypeOK, Launch, OpenFails, Quiet
<1>2. RunsTypeOK' /\ Moves(r, Before, Before)
  <2>1. CASE Launch(r)
    BY <2>1, <1>1, LaunchTypes DEF Launch, Quiet, Moves
  <2>2. CASE OpenFails(r)
    BY <2>2, <1>1, ThrowsTypes DEF OpenFails, Quiet, Moves
  <2> QED BY <2>1, <2>2
<1>3. r \notin writers /\ r \notin writers'
  BY <1>1, <1>2, WritersMove DEF Live, Loop
<1>4. writers' \subseteq writers /\ \A q \in Run : silent(q)' => silent(q)
  BY <1>1, <1>2, <1>3, WritersMove DEF writers, silent
<1>5. TypeOK'
  BY <1>1, <1>2 DEF TypeOK, logs
<1>6. ~overlap => \A q \in Run : silent(q)' => answers'[q] = 0
  BY <1>1, <1>4 DEF IInv, silent, logs
<1> QED BY <1>1, <1>4, <1>5, <1>6, QuietKeeps DEF logs

\* The session opens: a writer that knows all of the log.
LEMMA OpensKeeps ==
  ASSUME IInv, NEW r \in Run, Opens(r)
  PROVE  IInv' /\ Grows
<1>1. /\ TypeOK /\ RunsTypeOK /\ Replays(log) /\ UNCHANGED <<log, answers, wrote, faults>>
      /\ log \in Seq(Entry)
  BY DEF IInv, TypeOK, Opens, Entry, Ref
<1>2. RunsTypeOK' /\ Moves(r, {"opening"}, {"done", "compacting"})
  BY <1>1, PassesTypes DEF Opens, Stage, Launched, Live
<1>3. /\ stage[r] = "opening" /\ r \notin writers
      /\ \A q \in Run \ {r} : (q \in writers' <=> q \in writers) /\ (silent(q)' <=> silent(q))
  BY <1>1, <1>2, WritersMove DEF Live, Loop
<1>4. leafOf(log) \in Ref /\ Len(log) \in Nat
  <2>1. CASE log = <<>>
    BY <2>1 DEF leafOf, Ref
  <2>2. CASE log # <<>>
    <3>1. log[Len(log)] \in Entry
      BY <1>1, <2>2
    <3> QED BY <3>1, <1>1, <2>2 DEF leafOf, Ref, Entry
  <2> QED BY <2>1, <2>2
<1>5. /\ mem' \in [Run -> Known]
      /\ mem'[r] = [len |-> Len(log), leaf |-> leafOf(log)]
      /\ \A q \in Run \ {r} : mem'[q] = mem[q]
  <2>1. [len |-> Len(log), leaf |-> leafOf(log)] \in Known
    BY <1>4 DEF Known
  <2>2. mem \in [Run -> Known]
    BY <1>1 DEF TypeOK, Known, Ref
  <2>3. mem' = [mem EXCEPT ![r] = [len |-> Len(log), leaf |-> leafOf(log)]]
    BY DEF Opens
  <2> QED BY <2>1, <2>2, <2>3
<1>6. TypeOK'
  BY <1>1, <1>2, <1>5 DEF TypeOK, Known, Ref, Opens
<1>7. Grows
  BY <1>1, SubSeqFull DEF Grows
<1>8. CASE overlap'
  BY <1>6, <1>7, <1>8 DEF IInv
<1>9. CASE ~overlap'
  <2>1. ~overlap /\ executions \ {r} = {}
    BY <1>1, <1>9 DEF Opens, TypeOK
  <2>2. writers' \subseteq {r}
    <3>1. \A q \in Run : q \in writers => q = r
      BY <2>1 DEF writers, executions
    <3> QED BY <3>1, <1>3 DEF writers
  <2>3. \A q \in Run : silent(q)' => answers'[q] = 0
    BY <2>1, <1>1, <1>3 DEF IInv, silent
  <2> QED BY <2>2, <2>3, <1>1, <1>5, <1>6, <1>7 DEF IInv, silent
<1> QED BY <1>8, <1>9

\* A step of a writer: the run moves among the stages of a writer, or ends with
\* its answers put, and puts an entry or not.
LEMMA WriterKeeps ==
  ASSUME IInv, NEW r \in Run, NEW from, NEW to, Moves(r, from, to), RunsTypeOK',
         from \subseteq Live \ {"opening"},
         Put(r) \/ UNCHANGED <<log, mem, wrote>>, UNCHANGED overlap,
         answers' \in [Run -> Nat], faults' \in 0..MaxFaults,
         \A q \in Run \ {r} : answers'[q] = answers[q],
         to \subseteq Loop \cup {"flushing"} \/ (~overlap => answers'[r] = 0)
  PROVE  IInv' /\ Grows
<1>1. TypeOK /\ RunsTypeOK
  BY DEF IInv, TypeOK
<1>2. /\ r \in writers /\ writers' \subseteq writers
      /\ stage'[r] \in to
      /\ \A q \in Run \ {r} : silent(q)' <=> silent(q)
  BY <1>1, WritersMove DEF writers
<1>3. to \subseteq Loop \cup {"flushing"} => ~silent(r)'
  BY <1>1, WritersMove DEF silent, Live, Loop
<1>4. ~overlap => \A q \in Run : silent(q)' => answers'[q] = 0
  BY <1>2, <1>3 DEF IInv, silent
<1>5. TypeOK'
  <2>1. CASE Put(r)
    BY <2>1, <1>1, PutTypes DEF TypeOK, Entry, Known, Ref
  <2>2. CASE UNCHANGED <<log, mem, wrote>>
    BY <2>2, <1>1 DEF TypeOK
  <2> QED BY <2>1, <2>2
<1>6. CASE Put(r)
  BY <1>2, <1>4, <1>5, <1>6, PutKeeps
<1>7. CASE UNCHANGED <<log, mem, wrote>>
  BY <1>2, <1>4, <1>5, <1>7, QuietKeeps
<1> QED BY <1>6, <1>7

\* The steps of a run that has opened its session.
LEMMA RunningKeeps ==
  ASSUME IInv, NEW r \in Run,
         \/ Compacts(r) \/ StoresMessage(r) \/ StoreFails(r) \/ Answers(r) \/ ToolsOver(r)
         \/ Continues(r) \/ Quiet(AgentEnd(r)) \/ Flushed(r)
  PROVE  IInv' /\ Grows
<1> DEFINE InLoop == Loop \cup {"storing"}
           OnLoop == Loop \cup {"flushing"}
<1>1. /\ TypeOK /\ RunsTypeOK /\ answers \in [Run -> Nat] /\ faults \in 0..MaxFaults
      /\ MaxFaults \in Nat
      /\ InLoop \subseteq Live \ {"opening"}
  BY LogAssumption DEF IInv, TypeOK, Live, Loop
<1>2. ~overlap /\ stage[r] \in {"compacting", "storing"} => answers[r] = 0
  BY DEF IInv
<1>3. \A q \in Run : MayCompact(q) => Put(q) \/ UNCHANGED <<log, mem, wrote>>
  BY DEF MayCompact
<1>4. CASE Compacts(r)
  <2>1. /\ Passes(r, "compacting", "storing") /\ MayCompact(r)
        /\ UNCHANGED <<answers, overlap, faults>>
    BY <1>4 DEF Compacts
  <2>2. /\ RunsTypeOK' /\ Moves(r, {"compacting"}, {"done", "storing"})
        /\ {"compacting"} \subseteq Live \ {"opening"}
    BY <2>1, <1>1, PassesTypes DEF Stage, Launched, Live
  <2>3. ~overlap => answers'[r] = 0
    BY <2>1, <2>2, <1>2 DEF Moves
  <2> QED BY <2>1, <2>2, <2>3, <1>1, <1>3, WriterKeeps
<1>5. CASE StoreFails(r)
  <2>1. /\ Throws(r, "storing") /\ PutRejected(r) /\ Fault /\ UNCHANGED <<answers, overlap>>
    BY <1>5 DEF StoreFails
  <2>2. /\ RunsTypeOK' /\ Moves(r, {"storing"}, {"rejected"})
        /\ {"storing"} \subseteq Live \ {"opening"}
    BY <2>1, <1>1, ThrowsTypes DEF Live
  <2>3. ~overlap => answers'[r] = 0
    BY <2>1, <2>2, <1>2 DEF Moves
  <2>4. UNCHANGED <<log, mem, wrote>> /\ faults' \in 0..MaxFaults
    BY <2>1, <1>1 DEF PutRejected, Fault
  <2> QED BY <2>1, <2>2, <2>3, <2>4, <1>1, WriterKeeps
<1>6. CASE Flushed(r)
  <2>1. answers[r] = 0 /\ Returns(r) /\ UNCHANGED logs
    BY <1>6 DEF Flushed, Quiet
  <2>2. /\ RunsTypeOK' /\ Moves(r, {"flushing"}, {"done"})
        /\ {"flushing"} \subseteq Live \ {"opening"}
    BY <2>1, <1>1, ReturnsTypes DEF Live
  <2> QED BY <2>1, <2>2, <1>1, WriterKeeps DEF logs
<1>7. CASE \/ StoresMessage(r) \/ Answers(r) \/ ToolsOver(r) \/ Continues(r) \/ Quiet(AgentEnd(r))
  <2>1. RunsTypeOK' /\ Moves(r, InLoop, OnLoop)
    BY <1>7, <1>1, LoopTypes DEF StoresMessage, Answers, ToolsOver, Continues, Quiet
  <2>2. Put(r) \/ UNCHANGED <<log, mem, wrote>>
    BY <1>7, <1>3 DEF StoresMessage, Answers, Answered, ToolsOver, Continues, Quiet, logs
  <2>3. UNCHANGED overlap /\ faults' = faults
    BY <1>7 DEF StoresMessage, Answers, Answered, ToolsOver, Continues, Quiet, logs
  <2>4. answers' = answers \/ Answered(r)
    BY <1>7 DEF StoresMessage, Answers, ToolsOver, Continues, Quiet, logs
  <2>5. answers' \in [Run -> Nat] /\ \A q \in Run \ {r} : answers'[q] = answers[q]
    BY <2>4, <1>1 DEF Answered
  <2> QED BY <2>1, <2>2, <2>3, <2>5, <1>1, WriterKeeps
<1> QED BY <1>4, <1>5, <1>6, <1>7

\* An answer is put, or is not.
LEMMA AnswerKeeps ==
  ASSUME IInv, NEW r \in Run, Lands(r) \/ IsLost(r)
  PROVE  IInv' /\ Grows
<1>1. /\ TypeOK /\ UNCHANGED <<runs, overlap>> /\ answers[r] > 0
      /\ answers' = [answers EXCEPT ![r] = @ - 1]
  BY DEF IInv, Lands, IsLost
<1>2. writers' = writers /\ \A q \in Run : silent(q)' <=> silent(q)
  BY <1>1 DEF runs, writers, silent
<1>3. /\ answers' \in [Run -> Nat] /\ answers[r] # 0
      /\ \A q \in Run \ {r} : answers'[q] = answers[q]
  BY <1>1 DEF TypeOK
<1>4. ~overlap => ~silent(r) /\ \A q \in Run : silent(q)' => answers'[q] = 0
  BY <1>2, <1>3 DEF IInv, silent
<1>5. RunsTypeOK'
  BY <1>1 DEF TypeOK, RunsTypeOK, runs
<1>6. CASE Lands(r)
  <2>1. Put(r) /\ faults' = faults
    BY <1>6 DEF Lands
  <2>2. TypeOK'
    BY <2>1, <1>1, <1>3, <1>5, PutTypes DEF TypeOK, Entry, Known, Ref
  <2> QED BY <2>1, <2>2, <1>1, <1>2, <1>4, PutKeeps DEF silent
<1>7. CASE IsLost(r)
  <2>1. UNCHANGED <<log, mem, wrote>> /\ faults' \in 0..MaxFaults
    BY <1>7, <1>1, LogAssumption DEF IsLost, PutRejected, Fault, TypeOK
  <2>2. TypeOK'
    BY <2>1, <1>1, <1>3, <1>5 DEF TypeOK
  <2> QED BY <2>1, <2>2, <1>1, <1>2, <1>4, QuietKeeps
<1> QED BY <1>6, <1>7

\* The user guides or stops, and the page shows its runs.
LEMMA UserKeeps ==
  ASSUME IInv, Quiet(StopTask) \/ ShowSession \/ \E r \in Run : Quiet(Guide(r))
  PROVE  IInv' /\ Grows
<1>1. TypeOK /\ RunsTypeOK /\ UNCHANGED logs
  BY DEF IInv, TypeOK, ShowSession, Quiet
<1>2. RunsTypeOK' /\ UNCHANGED stage
  <2>1. CASE Quiet(StopTask) \/ \E r \in Run : Quiet(Guide(r))
    BY <2>1, <1>1, GuideTypes DEF Quiet
  <2>2. CASE ShowSession
    <3> DEFINE p == [r \in Run |-> IF r \in Old \/ stage[r] = "gone" THEN "interrupted" ELSE "none"]
    <3>1. p \in [Run -> Phase] /\ Shows(p)
      BY <2>2 DEF ShowSession, Quiet, Phase
    <3> HIDE DEF p
    <3> QED BY <3>1, <1>1, ShowsTypes
  <2> QED BY <2>1, <2>2
<1>3. writers' = writers /\ \A q \in Run : silent(q)' <=> silent(q)
  BY <1>2 DEF writers, silent
<1>4. TypeOK' /\ UNCHANGED <<log, mem, overlap, answers>>
  BY <1>1, <1>2 DEF TypeOK, logs
<1>5. ~overlap => \A q \in Run : silent(q)' => answers'[q] = 0
  BY <1>3, <1>4 DEF IInv, silent
<1> QED BY <1>3, <1>4, <1>5, QuietKeeps

\* The page goes with all its runs and what they had not put.
LEMMA ReloadKeeps ==
  ASSUME IInv, Reload
  PROVE  IInv' /\ Grows
<1>1. /\ TypeOK /\ PageGone /\ UNCHANGED <<log, mem, wrote, overlap>>
      /\ answers' = [q \in Run |-> 0] /\ faults' \in 0..MaxFaults
  BY LogAssumption DEF IInv, TypeOK, Reload, Fault
<1>2. RunsTypeOK' /\ writers' = {}
  BY <1>1, PageGoneTypes DEF TypeOK, writers, Launched
<1>3. TypeOK'
  BY <1>1, <1>2 DEF TypeOK
<1> QED BY <1>1, <1>2, <1>3, QuietKeeps

LEMMA StepKeepsIInv == IInv /\ [Next]_vars => IInv' /\ Grows
<1> SUFFICES ASSUME IInv, [Next]_vars PROVE IInv' /\ Grows
  OBVIOUS
<1>1. CASE Next
  BY <1>1, BeforeKeeps, OpensKeeps, RunningKeeps, AnswerKeeps, UserKeeps, ReloadKeeps DEF Next
<1>2. CASE UNCHANGED vars
  <2>1. UNCHANGED <<runs, logs>>
    BY <1>2 DEF vars
  <2>2. TypeOK' /\ writers' = writers /\ (\A q \in Run : silent(q)' <=> silent(q))
        /\ UNCHANGED <<log, mem, overlap, answers>>
    BY <2>1 DEF IInv, TypeOK, RunsTypeOK, runs, logs, writers, silent
  <2> QED BY <2>2, QuietKeeps DEF IInv, silent
<1> QED BY <1>1, <1>2

LEMMA InitIInv == Init => IInv
<1> SUFFICES ASSUME Init PROVE IInv
  OBVIOUS
<1>1. RunsTypeOK
  BY RunsAssumption DEF Init, RunsInit, RunsTypeOK, Stage, Phase
<1>2. log \in Seq(Entry)
  <2>1. CASE log = <<>>
    BY <2>1
  <2>2. ASSUME NEW r \in Old, log = Crossed(r) PROVE log \in Seq(Entry)
    <3>1. /\ [id |-> <<r, 1>>, parent |-> Root] \in Entry
          /\ [id |-> <<r, 3>>, parent |-> <<r, 2>>] \in Entry
      BY RunsAssumption DEF Entry, Ref, Id
    <3> QED BY <3>1, <2>2 DEF Crossed
  <2> QED BY <2>1, <2>2 DEF Init
<1>3. TypeOK
  BY <1>1, <1>2, LogAssumption DEF Init, TypeOK, Entry, Ref
<1>4. /\ writers = {} /\ \A r \in Run : answers[r] = 0
      /\ ~overlap => log = <<>>
  BY DEF Init, RunsInit, writers, Live, Loop
<1> QED BY <1>3, <1>4 DEF IInv, Replays

\* For any number of runs of a session and any interleaving of their stops,
\* guidance, lost puts and reloads: unless two instances of its log were open
\* at once, the log replays and only grows.
THEOREM LogIsSound == Spec => LogSound
<1>1. Spec => []IInv
  BY InitIInv, StepKeepsIInv, PTL DEF Spec
<1>2. IInv => ConversationIntact
  BY DEF IInv, ConversationIntact
<1>3. Spec => AppendOnly
  <2>1. IInv /\ [Next]_vars => [Grows]_vars
    BY StepKeepsIInv
  <2> QED BY <2>1, InitIInv, StepKeepsIInv, PTL DEF Spec, AppendOnly, Grows
<1> QED BY <1>1, <1>2, <1>3, PTL DEF LogSound

-----------------------------------------------------------------------------
(***************************************************************************)
(* The history of a session.                                               *)
(***************************************************************************)

Events == DOMAIN origin
Pending == {queued[i] : i \in DOMAIN queued}

LoadShaped(l) == l = [phase |-> l.phase, set |-> l.set, more |-> l.more]
HistoryTypeOK ==
    /\ origin \in Seq(Origins) /\ queued \in Seq(Nat) /\ Pending \subseteq Events
    /\ disk \subseteq Events /\ memory \subseteq Events /\ shownEvents \subseteq Events
    /\ end \in Nat \cup {Latest} /\ pruning \in {"none", "deleted", "done"}
    /\ LoadShaped(opening) /\ opening.phase \in {"none", "reading", "merging"}
    /\ opening.set \subseteq Events
    /\ LoadShaped(child) /\ child.phase \in {"none", "reading"} /\ child.set \subseteq Events
    /\ older.phase \in {"none", "reading"}
    /\ older.before \subseteq Events /\ older.page \subseteq Events
    /\ older.count \in Nat /\ older.end \in Nat

\* All stored events from the oldest of a set on are in the set or in the memory.
Upward(S) == \A e \in disk : (\E f \in S : f < e) => e \in S \cup memory

\* What the memory holds, and what the page is shown of it.
MemoryHolds ==
    /\ Pending \subseteq memory /\ shownEvents \subseteq memory
    /\ \A e \in memory : e \in disk \cup Pending \/ (pruning = "deleted" /\ origin[e] = "child")
    /\ Upward(memory)
    /\ pruning # "none" => ofChild(disk) = {} /\ ofChild(Pending) = {}
    /\ selectedRun /\ opening.phase = "none" =>
          /\ shownEvents = memory /\ hasOlder = olderPages
          /\ ~olderPages => disk \subseteq memory

\* What the loads under way will add.
LoadsHold ==
    /\ opening.phase = "reading" =>
          /\ opening.set \subseteq disk /\ Upward(opening.set)
          /\ ~opening.more => disk \subseteq opening.set \cup memory
    /\ opening.phase = "merging" =>
          /\ selectedRun /\ opening.set \subseteq memory
          /\ memory \subseteq shownEvents \cup opening.set
          /\ ~olderPages => disk \subseteq memory
    /\ older.phase = "reading" =>
          /\ older.before = memory /\ opening.phase = "none" /\ pruning # "deleted"
          /\ older.page \subseteq disk /\ Upward(older.page)
          /\ ~older.more => disk \subseteq older.page \cup memory
    /\ child.phase = "reading" => child.set \subseteq disk

\* As long as no older page was loaded while the memory changed, the page shows
\* the messages of the memory and the window ends at one of them.
WindowHolds ==
    /\ messages(shownEvents) \subseteq messages(memory)
    /\ selectedRun /\ opening.phase = "none" =>
          /\ messages(memory) \subseteq messages(shownEvents)
          /\ end = Latest \/ end <= Cardinality(messages(shownEvents))
    /\ opening.phase = "merging" =>
          /\ selectedRun /\ messages(opening.set) \subseteq messages(memory)
          /\ messages(memory) \subseteq messages(shownEvents) \cup messages(opening.set)
    /\ older.phase = "reading" =>
          /\ opening.phase = "none" /\ older.before = memory
          /\ \A p \in older.page, f \in memory : p < f
          /\ selectedRun => /\ older.count = Cardinality(messages(shownEvents))
                            /\ older.end <= older.count

HistoryInv ==
    /\ HistoryTypeOK
    /\ crossedPages = {} => MemoryHolds /\ LoadsHold
    /\ "raced" \notin crossedPages => WindowHolds

-----------------------------------------------------------------------------
(* The place of a number in a set. *)

Place(S, x) == Cardinality({f \in S : f < x})
\* The events of a window that ends before the e-th of S (useAgentV2 :440).
InWindow(S, e, x) == e - PageSize <= Place(S, x) /\ Place(S, x) < e
EventSet(S) == S \subseteq Nat /\ IsFiniteSet(S)

LEMMA PlaceFacts ==
    ASSUME NEW S, EventSet(S)
    PROVE  /\ Cardinality(S) \in Nat
           /\ \A x \in Nat : Place(S, x) \in Nat
           /\ \A x \in S : Place(S, x) < Cardinality(S)
           /\ \A x \in S, y \in Nat : x < y => Place(S, x) < Place(S, y)
           /\ \A x, y \in Nat : x <= y => Place(S, x) <= Place(S, y)
<1> DEFINE B(x) == {f \in S : f < x}
<1>1. \A x : IsFiniteSet(B(x)) /\ Cardinality(B(x)) \in Nat
  <2>1. \A x : B(x) \subseteq S
    OBVIOUS
  <2> HIDE DEF B
  <2> QED BY <2>1, FS_Subset, FS_CardinalityType DEF EventSet
<1>2. Cardinality(S) \in Nat
  BY FS_CardinalityType DEF EventSet
<1>3. ASSUME NEW x \in S PROVE Cardinality(B(x)) < Cardinality(S)
  <2>1. B(x) \in SUBSET S /\ x \notin B(x)
    BY <1>3 DEF EventSet
  <2> HIDE DEF B
  <2>2. Cardinality(B(x)) <= Cardinality(S) /\ Cardinality(B(x)) # Cardinality(S)
    BY <2>1, <1>3, FS_Subset DEF EventSet
  <2> QED BY <1>1, <1>2, <2>2
<1>4. ASSUME NEW x \in S, NEW y \in Nat, x < y PROVE Cardinality(B(x)) < Cardinality(B(y))
  <2>4. x \in Nat /\ \A g \in S : g \in Nat
    BY DEF EventSet
  <2>5. \A g \in B(x) : g \in B(y)
    BY <1>4, <2>4
  <2>6. x \in B(y) /\ x \notin B(x)
    BY <1>4, <2>4
  <2>1. B(x) \in SUBSET B(y)
    BY <2>5, Zenon
  <2> HIDE DEF B
  <2>2. Cardinality(B(x)) <= Cardinality(B(y)) /\ Cardinality(B(x)) # Cardinality(B(y))
    BY <1>1, <2>1, <2>6, FS_Subset
  <2>3. Cardinality(B(x)) \in Nat /\ Cardinality(B(y)) \in Nat
    BY <1>1
  <2> QED BY <2>2, <2>3
<1>5. ASSUME NEW x \in Nat, NEW y \in Nat, x <= y PROVE Cardinality(B(x)) <= Cardinality(B(y))
  <2>2. \A g \in S : g \in Nat
    BY DEF EventSet
  <2>1. \A g \in B(x) : g \in B(y)
    BY <1>5, <2>2
  <2> HIDE DEF B
  <2> QED BY <1>1, <2>1, FS_Subset
<1> QED BY <1>1, <1>2, <1>3, <1>4, <1>5 DEF Place

\* Every place is taken.
LEMMA PlaceTaken ==
    ASSUME NEW S, EventSet(S), NEW k \in Nat, k < Cardinality(S)
    PROVE  \E x \in S : Place(S, x) = k
<1> DEFINE n == Cardinality(S)
           T == 0..(n - 1)
           f == [x \in S |-> Place(S, x)]
<1>1. n \in Nat /\ n > 0 /\ k \in T
  BY PlaceFacts
<1>2. IsFiniteSet(T) /\ Cardinality(T) = n
  <2>1. 0 \in Int /\ n - 1 \in Int /\ ~(0 > n - 1) /\ (n - 1) - 0 + 1 = n
    BY <1>1
  <2> QED BY <2>1, FS_Interval
<1>3. \A x \in S : Place(S, x) \in T
  <2> SUFFICES ASSUME NEW x \in S PROVE Place(S, x) \in T
    OBVIOUS
  <2>1. Place(S, x) \in Nat /\ Place(S, x) < n
    BY PlaceFacts DEF EventSet
  <2> QED BY <1>1, <2>1
<1>4. \A x, y \in S : Place(S, x) = Place(S, y) => x = y
  <2> SUFFICES ASSUME NEW x \in S, NEW y \in S, x # y PROVE Place(S, x) # Place(S, y)
    OBVIOUS
  <2>1. x \in Nat /\ y \in Nat /\ Place(S, x) \in Nat /\ Place(S, y) \in Nat
    BY PlaceFacts DEF EventSet
  <2>2. x < y => Place(S, x) < Place(S, y)
    BY <2>1, PlaceFacts
  <2>3. y < x => Place(S, y) < Place(S, x)
    BY <2>1, PlaceFacts
  <2> QED BY <2>1, <2>2, <2>3
<1> HIDE DEF T, n
<1>5. f \in Injection(S, T)
  BY <1>3, <1>4 DEF Injection, IsInjective
<1>6. f \in Surjection(S, T)
  <2> HIDE DEF f
  <2> QED BY <1>2, <1>5, FS_Injection DEF n
<1>7. \A t \in T : \E x \in S : f[x] = t
  <2> HIDE DEF f
  <2> QED BY <1>6 DEF Surjection
<1> QED BY <1>1, <1>7

LEMMA LeastOfSet ==
    ASSUME NEW S, EventSet(S), S # {}
    PROVE  Min(S) \in S /\ \A y \in S : Min(S) <= y
<1>1. Cardinality(S) # 0 /\ Cardinality(S) \in Nat
  BY FS_EmptySet, FS_CardinalityType DEF EventSet
<1>2. PICK x \in S : Place(S, x) = 0
  BY <1>1, PlaceTaken
<1>3. \A y \in S : x <= y
  <2> SUFFICES ASSUME NEW y \in S, ~(x <= y) PROVE FALSE
    OBVIOUS
  <2>3. x \in Nat /\ y \in Nat
    BY DEF EventSet
  <2>1. x \in Nat /\ y \in Nat /\ y < x /\ Place(S, y) \in Nat
    BY <2>3, PlaceFacts
  <2>2. Place(S, y) < Place(S, x)
    BY <2>1, PlaceFacts
  <2> QED BY <1>2, <2>1, <2>2
<1> QED BY <1>3 DEF Min

\* A set that lies below another comes first.
LEMMA PlacesAbove ==
    ASSUME NEW P, NEW M, EventSet(P), EventSet(M), \A p \in P, m \in M : p < m
    PROVE  /\ EventSet(P \cup M) /\ Cardinality(P \cup M) = Cardinality(P) + Cardinality(M)
           /\ \A m \in M : Place(P \cup M, m) = Cardinality(P) + Place(M, m)
           /\ \A p \in P : Place(P \cup M, p) < Cardinality(P)
<1>1. ASSUME NEW S, S \subseteq M
      PROVE  IsFiniteSet(P \cup S) /\ Cardinality(P \cup S) = Cardinality(P) + Cardinality(S)
  <2>1. P \cap S = {}
    BY <1>1 DEF EventSet
  <2>2. IsFiniteSet(S) /\ IsFiniteSet(P) /\ Cardinality(S) \in Nat /\ Cardinality(P) \in Nat
    BY <1>1, FS_Subset, FS_CardinalityType DEF EventSet
  <2>3. IsFiniteSet(P \cup S)
        /\ Cardinality(P \cup S) = Cardinality(P) + Cardinality(S) - Cardinality(P \cap S)
    BY <2>2, FS_Union
  <2>4. Cardinality(P \cap S) = 0
    BY <2>1, FS_EmptySet
  <2> QED BY <2>2, <2>3, <2>4
<1>2. EventSet(P \cup M) /\ Cardinality(P \cup M) = Cardinality(P) + Cardinality(M)
  BY <1>1 DEF EventSet
<1>3. ASSUME NEW m \in M PROVE Place(P \cup M, m) = Cardinality(P) + Place(M, m)
  <2>1. {f \in P \cup M : f < m} = P \cup {f \in M : f < m}
    OBVIOUS
  <2> QED BY <1>1, <2>1 DEF Place
<1>4. ASSUME NEW p \in P PROVE Place(P \cup M, p) < Cardinality(P)
  <2>3. p \in Nat /\ \A f \in M : f \in Nat /\ p < f
    BY DEF EventSet
  <2>1. {f \in P \cup M : f < p} = {f \in P : f < p}
    BY <2>3
  <2>2. Place(P, p) < Cardinality(P)
    BY PlaceFacts
  <2> QED BY <2>1, <2>2 DEF Place
<1> QED BY <1>2, <1>3, <1>4

\* The newest page of a set has all of the set from its oldest on.
LEMMA NewestPage ==
    ASSUME NEW S, EventSet(S)
    PROVE  /\ newestPage(S) \subseteq S
           /\ \A f \in newestPage(S), e \in S : f < e => e \in newestPage(S)
           /\ Cardinality(S) <= PageSize => newestPage(S) = S
<1> USE HistoryAssumption
<1> DEFINE B(x) == {f \in S : f > x}
<1>0. \A x \in S : x \in Nat
  BY DEF EventSet
<1>1. \A x : IsFiniteSet(B(x)) /\ Cardinality(B(x)) \in Nat
  <2>1. \A x : B(x) \subseteq S
    OBVIOUS
  <2> HIDE DEF B
  <2> QED BY <2>1, FS_Subset, FS_CardinalityType DEF EventSet
<1>2. newestPage(S) = {e \in S : Cardinality(B(e)) < PageSize}
  BY DEF newestPage
<1>3. ASSUME NEW f \in S, NEW e \in S, f < e, Cardinality(B(f)) < PageSize
      PROVE  Cardinality(B(e)) < PageSize
  <2>1. \A g \in B(e) : g \in B(f)
    BY <1>0, <1>3
  <2>2. B(e) \in SUBSET B(f)
    BY <2>1, Zenon
  <2> HIDE DEF B
  <2>3. Cardinality(B(e)) <= Cardinality(B(f)) /\ Cardinality(B(e)) \in Nat
        /\ Cardinality(B(f)) \in Nat
    BY <1>1, <2>2, FS_Subset
  <2> QED BY <1>3, <2>3
<1>4. ASSUME NEW e \in S, Cardinality(S) <= PageSize PROVE Cardinality(B(e)) < PageSize
  <2>1. e \notin B(e) /\ B(e) \in SUBSET S
    BY <1>0, <1>4
  <2> HIDE DEF B
  <2>2. Cardinality(B(e)) <= Cardinality(S) /\ Cardinality(B(e)) # Cardinality(S)
    BY <2>1, <1>4, FS_Subset DEF EventSet
  <2>3. Cardinality(B(e)) \in Nat /\ Cardinality(S) \in Nat
    BY <1>1, FS_CardinalityType DEF EventSet
  <2> QED BY <1>4, <2>2, <2>3
<1> HIDE DEF B
<1> QED BY <1>2, <1>3, <1>4

\* The window of PageSize numbers that ends where another began, in a set that
\* has grown below: it is below the old one, and next to it.
\* The windows that end before the e-th message of M and, with the messages P
\* of an older page before them, before the t-th.
Meeting(P, M, e, t, old, new) ==
    /\ EventSet(P) /\ EventSet(M) /\ \A p \in P, m \in M : p < m
    /\ e \in Nat /\ e <= Cardinality(M)
    /\ t \in Nat /\ t = Cardinality(P) + Higher(0, e - PageSize)
    /\ old # {} /\ old \subseteq M /\ \A m \in M : m \in old <=> InWindow(M, e, m)
    /\ new \subseteq P \cup M
    /\ \A m \in P \cup M : m \in new <=> InWindow(P \cup M, t, m)

LEMMA WindowAbove ==
    ASSUME NEW P, NEW M, NEW E, NEW top, NEW old, NEW new, Meeting(P, M, E, top, old, new)
    PROVE  /\ \A a \in old, b \in new : b < a
           /\ \A m \in P \cup M : (\A a \in old : m < a) => \E b \in new : m <= b
<1> USE HistoryAssumption
<1> DEFINE A == P \cup M
           p == Cardinality(P)
           n == Cardinality(M)
           b0 == Higher(0, E - PageSize)
<1>0. /\ EventSet(P) /\ EventSet(M) /\ \A q \in P, m \in M : q < m
      /\ E \in Nat /\ E <= Cardinality(M)
      /\ top \in Nat /\ top = Cardinality(P) + Higher(0, E - PageSize) /\ old # {}
  BY DEF Meeting
<1>1. /\ p \in Nat /\ n \in Nat /\ b0 \in Nat /\ top = p + b0
      /\ b0 >= E - PageSize /\ b0 <= n /\ PageSize \in Nat /\ PageSize >= 1
      /\ b0 = 0 \/ b0 = E - PageSize
  <2>1. p \in Nat /\ n \in Nat
    BY <1>0, PlaceFacts
  <2> HIDE DEF p, n
  <2>2. E <= n
    BY <1>0 DEF n
  <2>3. b0 \in Nat /\ b0 >= E - PageSize /\ (b0 = 0 \/ b0 = E - PageSize)
    BY <1>0 DEF Higher
  <2> QED BY <1>0, <2>1, <2>2, <2>3 DEF p
<1>2. /\ EventSet(A) /\ Cardinality(A) = p + n
      /\ \A m \in M : Place(A, m) = p + Place(M, m)
      /\ \A q \in P : Place(A, q) < p
  BY <1>0, PlacesAbove
<1>3. /\ \A x \in A : x \in Nat /\ Place(A, x) \in Nat
      /\ \A x \in M : x \in Nat /\ Place(M, x) \in Nat
  <2>1. \A x \in A : x \in Nat
    BY <1>2 DEF EventSet
  <2>2. \A x \in M : x \in Nat
    BY <1>0 DEF EventSet
  <2> HIDE DEF A
  <2> QED BY <1>0, <1>2, <2>1, <2>2, PlaceFacts
<1>4. old \subseteq M /\ \A m \in M : m \in old <=> E - PageSize <= Place(M, m) /\ Place(M, m) < E
  BY DEF Meeting, InWindow
<1>5. new \subseteq A /\ \A m \in A : m \in new <=> top - PageSize <= Place(A, m) /\ Place(A, m) < top
  BY DEF Meeting, InWindow
<1>6. M \subseteq A /\ \A m \in A : m \in P \/ m \in M
  OBVIOUS
<1>7. \A x, y \in A : x <= y => Place(A, x) <= Place(A, y)
  <2> HIDE DEF A
  <2> QED BY <1>2, <1>3, PlaceFacts
<1>8. \A x, y \in A : x < y => Place(A, x) < Place(A, y)
  <2> HIDE DEF A
  <2> QED BY <1>2, <1>3, PlaceFacts
<1> HIDE DEF A, p, n, b0
<1>9. ASSUME NEW a \in old, NEW b \in new, ~(b < a) PROVE FALSE
  <2>1. a \in M /\ a \in A /\ b \in A /\ a \in Nat /\ b \in Nat /\ a <= b
    BY <1>3, <1>4, <1>5, <1>6, <1>9
  <2>2. Place(A, a) <= Place(A, b) /\ Place(A, b) < top
    BY <1>5, <1>7, <2>1
  <2>3. Place(A, a) = p + Place(M, a) /\ E - PageSize <= Place(M, a) /\ Place(M, a) \in Nat
    BY <1>2, <1>3, <1>4, <2>1
  <2>4. Place(A, a) \in Nat /\ Place(A, b) \in Nat
    BY <1>3, <2>1
  <2> QED BY <1>1, <2>2, <2>3, <2>4
<1>10. ASSUME NEW m \in A, \A a \in old : m < a PROVE \E b \in new : m <= b
  <2>1. Place(A, m) < top
    <3> SUFFICES ASSUME ~(Place(A, m) < top) PROVE FALSE
      OBVIOUS
    <3>1. Place(A, m) \in Nat /\ p <= Place(A, m)
      BY <1>1, <1>3
    <3>2. m \in M
      BY <1>1, <1>2, <1>6, <3>1
    <3>3. Place(A, m) = p + Place(M, m) /\ Place(M, m) \in Nat /\ m \in Nat
      BY <1>2, <1>3, <3>2
    <3>4. E - PageSize <= Place(M, m)
      BY <1>0, <1>1, <3>3
    <3>5. m \notin old
      <4>1. ~(m < m)
        BY <3>3
      <4> QED BY <1>10, <4>1
    <3>6. ~(Place(M, m) < E)
      BY <1>4, <3>2, <3>4, <3>5
    <3>7. PICK a \in old : a \in M /\ a \in Nat /\ Place(M, a) \in Nat /\ Place(M, a) < E /\ m < a
      BY <1>0, <1>3, <1>4, <1>10
    <3>8. Place(M, m) < Place(M, a)
      BY <1>0, <3>2, <3>7, PlaceFacts
    <3> QED BY <1>0, <3>3, <3>6, <3>7, <3>8
  <2>2. top \in Nat /\ top >= 1 /\ top - 1 \in Nat /\ top - 1 < Cardinality(A)
    BY <1>1, <1>2, <1>3, <2>1
  <2>3. PICK b \in A : Place(A, b) = top - 1
    BY <1>2, <2>2, PlaceTaken
  <2>4. b \in new
    BY <1>1, <1>5, <2>2, <2>3
  <2>5. m <= b
    <3>1. m \in Nat /\ b \in Nat /\ Place(A, m) \in Nat
      BY <1>3
    <3>2. b < m => Place(A, b) < Place(A, m)
      BY <1>8
    <3> QED BY <2>1, <2>2, <2>3, <3>1, <3>2
  <2> QED BY <2>4, <2>5
<1> QED BY <1>9, <1>10 DEF A

-----------------------------------------------------------------------------
(* Types. *)

LEMMA EventSets ==
    ASSUME HistoryTypeOK
    PROVE  /\ Len(origin) \in Nat /\ Events = 1..Len(origin)
           /\ \A S \in SUBSET Events : EventSet(S)
<1>1. Len(origin) \in Nat /\ Events = 1..Len(origin)
  BY DEF HistoryTypeOK, Events
<1>2. IsFiniteSet(Events) /\ Events \subseteq Nat
  BY <1>1, FS_Interval
<1>3. \A S \in SUBSET Events : IsFiniteSet(S)
  BY <1>2, FS_Subset
<1> QED BY <1>1, <1>2, <1>3 DEF EventSet

LEMMA PutMoves ==
    ASSUME HistoryTypeOK, queued # <<>>, queued' = Tail(queued)
    PROVE  /\ queued' \in Seq(Nat) /\ Head(queued) \in Pending /\ Pending' \subseteq Pending
           /\ Pending \subseteq Pending' \cup {Head(queued)}
<1>1. queued \in Seq(Nat)
  BY DEF HistoryTypeOK
<1>2. /\ queued' \in Seq(Nat) /\ Len(queued) \in Nat /\ Len(queued') = Len(queued) - 1
      /\ DOMAIN queued = 1..Len(queued) /\ DOMAIN queued' = 1..Len(queued')
      /\ \A i \in 1..Len(queued') : queued'[i] = queued[i + 1]
      /\ Len(queued) >= 1 /\ Head(queued) = queued[1]
  BY <1>1
<1>3. Head(queued) \in Pending
  BY <1>2 DEF Pending
<1>4. ASSUME NEW i \in DOMAIN queued' PROVE queued'[i] \in Pending
  <2>1. i + 1 \in DOMAIN queued /\ queued'[i] = queued[i + 1]
    BY <1>2
  <2> QED BY <2>1 DEF Pending
<1>5. ASSUME NEW i \in DOMAIN queued, queued[i] # Head(queued) PROVE queued[i] \in Pending'
  <2>1. i - 1 \in DOMAIN queued' /\ queued'[i - 1] = queued[i]
    <3>1. i # 1 /\ i \in Nat /\ 1 <= i /\ i <= Len(queued)
      BY <1>2, <1>5
    <3>2. i - 1 \in 1..Len(queued') /\ (i - 1) + 1 = i
      BY <1>2, <3>1
    <3> QED BY <1>2, <3>2
  <2> QED BY <2>1 DEF Pending
<1> QED BY <1>2, <1>3, <1>4, <1>5 DEF Pending

LEMMA EmitMoves ==
    ASSUME HistoryTypeOK, NEW o \in Origins, Emit(o)
    PROVE  /\ origin' \in Seq(Origins) /\ queued' \in Seq(Nat)
           /\ Len(origin) + 1 \in Nat /\ Len(origin) + 1 \notin Events
           /\ Events' = Events \cup {Len(origin) + 1}
           /\ Pending' = Pending \cup {Len(origin) + 1}
           /\ \A e \in Events : origin'[e] = origin[e] /\ e < Len(origin) + 1
           /\ origin'[Len(origin) + 1] = o
<1> DEFINE n == Len(origin) + 1
<1>1. origin \in Seq(Origins) /\ queued \in Seq(Nat) /\ Events = 1..Len(origin) /\ Len(origin) \in Nat
  BY EventSets DEF HistoryTypeOK
<1>2. origin' = Append(origin, o) /\ queued' = Append(queued, n)
  BY DEF Emit
<1>3. /\ origin' \in Seq(Origins) /\ DOMAIN origin' = 1..n
      /\ \A e \in 1..Len(origin) : origin'[e] = origin[e]
      /\ origin'[n] = o
  BY <1>1, <1>2
<1>4. /\ queued' \in Seq(Nat) /\ DOMAIN queued = 1..Len(queued) /\ Len(queued) \in Nat
      /\ DOMAIN queued' = 1..(Len(queued) + 1)
      /\ \A i \in 1..Len(queued) : queued'[i] = queued[i]
      /\ queued'[Len(queued) + 1] = n
  BY <1>1, <1>2
<1>5. n \in Nat /\ n \notin Events /\ \A e \in Events : e < n
  BY <1>1
<1>6. Events' = Events \cup {n}
  BY <1>1, <1>3 DEF Events
<1> HIDE DEF n
<1>7. Pending' = Pending \cup {n}
  <2>1. \A i \in 1..(Len(queued) + 1) : i \in 1..Len(queued) \/ i = Len(queued) + 1
    BY <1>4
  <2>2. \A i \in 1..Len(queued) : i \in 1..(Len(queued) + 1)
    BY <1>4
  <2>3. Len(queued) + 1 \in 1..(Len(queued) + 1)
    BY <1>4
  <2>4. \A e \in Pending' : e \in Pending \cup {n}
    BY <1>4, <2>1 DEF Pending
  <2>5. \A e \in Pending : e \in Pending'
    BY <1>4, <2>2 DEF Pending
  <2>6. n \in Pending'
    BY <1>4, <2>3 DEF Pending
  <2> QED BY <2>4, <2>5, <2>6
<1> QED BY <1>1, <1>3, <1>4, <1>5, <1>6, <1>7 DEF n

LEMMA EmitTypes == ASSUME HistoryTypeOK, NEW o \in Origins, Emit(o) PROVE HistoryTypeOK'
<1>1. /\ origin' \in Seq(Origins) /\ queued' \in Seq(Nat)
      /\ Events' = Events \cup {Len(origin) + 1} /\ Pending' = Pending \cup {Len(origin) + 1}
  BY EmitMoves
<1>2. memory' = memory \cup {Len(origin) + 1}
      /\ shownEvents' \subseteq shownEvents \cup {Len(origin) + 1}
      /\ end' \in {Latest, end}
      /\ UNCHANGED <<disk, opening, older, child, pruning>>
  BY DEF Emit
<1> QED BY <1>1, <1>2 DEF HistoryTypeOK, LoadShaped

LEMMA SameTypes ==
    ASSUME HistoryTypeOK, UNCHANGED <<origin, queued>>
    PROVE  origin' \in Seq(Origins) /\ queued' \in Seq(Nat) /\ Pending' \subseteq Events' /\ Events' = Events
BY DEF HistoryTypeOK, Events, Pending

LEMMA PageTypes ==
    ASSUME HistoryTypeOK,
           PutEvent \/ PruneDisk \/ Prune \/ Open \/ Opened \/ ShowOpened \/ Leave
    PROVE  HistoryTypeOK'
<1>1. CASE PutEvent
  <2>1. queued # <<>> /\ queued' = Tail(queued) /\ disk' = disk \cup {Head(queued)}
        /\ UNCHANGED <<origin, memory, shownEvents, end, opening, older, child, pruning>>
    BY <1>1 DEF PutEvent
  <2>2. queued' \in Seq(Nat) /\ Pending' \subseteq Events /\ Head(queued) \in Events
    BY <2>1, PutMoves DEF HistoryTypeOK
  <2>3. Events' = Events
    BY <2>1 DEF Events
  <2> QED BY <2>1, <2>2, <2>3 DEF HistoryTypeOK, LoadShaped
<1>2. CASE PruneDisk
  <2>1. UNCHANGED <<origin, queued>>
    BY <1>2 DEF PruneDisk
  <2> QED BY <1>2, <2>1, SameTypes DEF PruneDisk, HistoryTypeOK, LoadShaped
<1>3. CASE Prune
  <2>1. UNCHANGED <<origin, queued>>
    BY <1>3 DEF Prune
  <2> QED BY <1>3, <2>1, SameTypes DEF Prune, HistoryTypeOK, LoadShaped
<1>4. CASE Open
  <2>1. UNCHANGED <<origin, queued>>
    BY <1>4 DEF Open
  <2>2. newestPage(disk) \subseteq Events
    BY DEF newestPage, HistoryTypeOK
  <2> QED BY <1>4, <2>1, <2>2, SameTypes DEF Open, HistoryTypeOK, LoadShaped
<1>5. CASE Opened
  <2>1. UNCHANGED <<origin, queued>>
    BY <1>5 DEF Opened
  <2>2. opening = [phase |-> opening.phase, set |-> opening.set, more |-> opening.more]
        /\ memory \cup opening.set \subseteq Events
    BY DEF HistoryTypeOK, LoadShaped
  <2>3. /\ memory' = memory \cup opening.set
        /\ UNCHANGED <<disk, shownEvents, end, older, child, pruning>>
    BY <1>5, Zenon DEF Opened
  <2>4. PICK l : l = [opening EXCEPT !.phase = "merging", !.set = memory']
    OBVIOUS
  <2>5. l = [phase |-> "merging", set |-> memory', more |-> opening.more]
    BY <2>2, <2>4
  <2>6. opening' = l \/ opening' = NoLoad
    BY <1>5, <2>4, Zenon DEF Opened
  <2>7. LoadShaped(opening') /\ opening'.phase \in {"none", "reading", "merging"}
        /\ opening'.set \subseteq Events
    <3>1. CASE opening' = l
      <4>1. opening' = [phase |-> "merging", set |-> memory', more |-> opening.more]
        BY <3>1, <2>5, Zenon
      <4> QED BY <4>1, <2>2, <2>3 DEF LoadShaped
    <3>2. CASE opening' = NoLoad
      BY <3>2 DEF LoadShaped, NoLoad
    <3> QED BY <2>6, <3>1, <3>2
  <2>8. LoadShaped(opening)' /\ opening'.phase \in {"none", "reading", "merging"}
        /\ opening'.set \subseteq Events
    BY <2>7 DEF LoadShaped
  <2> QED BY <2>1, <2>2, <2>3, <2>8, SameTypes DEF HistoryTypeOK, LoadShaped
<1>6. CASE ShowOpened
  <2>1. UNCHANGED <<origin, queued>>
    BY <1>6 DEF ShowOpened
  <2> QED BY <1>6, <2>1, SameTypes DEF ShowOpened, NoLoad, HistoryTypeOK, LoadShaped
<1>7. CASE Leave
  <2>1. UNCHANGED <<origin, queued>>
    BY <1>7 DEF Leave
  <2> QED BY <1>7, <2>1, SameTypes DEF Leave, NoLoad, HistoryTypeOK, LoadShaped
<1> QED BY <1>1, <1>2, <1>3, <1>4, <1>5, <1>6, <1>7

LEMMA WindowTypes ==
    ASSUME HistoryTypeOK, LoadOlder \/ OlderLoaded \/ ShowNewer \/ LoadRun \/ RunLoaded
    PROVE  HistoryTypeOK'
<1> USE HistoryAssumption
<1>0. \A S : S \subseteq Events => messages(S) \subseteq Events /\ ofChild(S) \subseteq Events
                                  /\ newestPage(S) \subseteq Events /\ \A e : before(S, e) \subseteq Events
  BY DEF messages, ofChild, newestPage, before
<1>9. \A S : S \subseteq Events => Cardinality(messages(S)) \in Nat
  BY <1>0, EventSets, FS_CardinalityType DEF EventSet
<1>1. CASE LoadOlder
  <2> DEFINE pool == IF memory = {} THEN disk ELSE before(disk, Min(memory))
             count == Cardinality(messages(shownEvents))
  <2>1. UNCHANGED <<origin, queued>>
    BY <1>1 DEF LoadOlder
  <2>2. count \in Nat /\ newestPage(pool) \subseteq Events
    BY <1>0, <1>9 DEF HistoryTypeOK
  <2>3. /\ older' = [phase |-> "reading", before |-> memory, page |-> newestPage(pool),
                     more |-> Cardinality(pool) > PageSize, count |-> count,
                     end |-> IF end = Latest THEN count ELSE end]
        /\ UNCHANGED <<disk, memory, shownEvents, end, opening, child, pruning>>
    BY <1>1 DEF LoadOlder
  <2> HIDE DEF pool, count
  <2>4. /\ older'.phase = "reading" /\ older'.before = memory /\ older'.page = newestPage(pool)
        /\ older'.count = count /\ older'.end = IF end = Latest THEN count ELSE end
    BY <2>3
  <2> QED BY <2>1, <2>2, <2>3, <2>4, SameTypes DEF HistoryTypeOK, LoadShaped
<1>2. CASE OlderLoaded
  <2> DEFINE all == mergedPage(older)
  <2>1. UNCHANGED <<origin, queued>>
    BY <1>2 DEF OlderLoaded
  <2>2. /\ memory' = all /\ older' = NoPage
        /\ shownEvents' \in {all, shownEvents} /\ end' \in {movedEnd(all, older), end}
        /\ UNCHANGED <<disk, opening, child, pruning>>
    BY <1>2 DEF OlderLoaded
  <2>3. all \subseteq Events
    BY DEF mergedPage, HistoryTypeOK
  <2>4. Cardinality(messages(all)) \in Nat
    BY <1>9, <2>3
  <2>5. movedEnd(all, older) \in Nat
    BY <2>4 DEF movedEnd, Lower, Higher, HistoryTypeOK
  <2> HIDE DEF all
  <2> QED BY <2>1, <2>2, <2>3, <2>5, SameTypes DEF HistoryTypeOK, LoadShaped, NoPage
<1>3. CASE ShowNewer
  <2>1. UNCHANGED <<origin, queued>>
    BY <1>3 DEF ShowNewer
  <2>2. end # Latest /\ end' \in {Latest, end + PageSize}
        /\ UNCHANGED <<disk, memory, shownEvents, opening, older, child, pruning>>
    BY <1>3 DEF ShowNewer
  <2>3. end' \in Nat \cup {Latest}
    BY <2>2 DEF HistoryTypeOK
  <2> QED BY <2>1, <2>2, <2>3, SameTypes DEF HistoryTypeOK, LoadShaped
<1>4. CASE LoadRun
  <2>1. UNCHANGED <<origin, queued>>
    BY <1>4 DEF LoadRun
  <2>2. newestPage(ofChild(disk)) \subseteq Events
    BY <1>0 DEF HistoryTypeOK
  <2>3. child' = [phase |-> "reading", set |-> newestPage(ofChild(disk)), more |-> FALSE]
        /\ UNCHANGED <<disk, memory, shownEvents, end, opening, older, pruning>>
    BY <1>4 DEF LoadRun, NoLoad
  <2> QED BY <2>1, <2>2, <2>3, SameTypes DEF HistoryTypeOK, LoadShaped
<1>5. CASE RunLoaded
  <2>1. UNCHANGED <<origin, queued>>
    BY <1>5 DEF RunLoaded
  <2> QED BY <1>5, <2>1, SameTypes DEF RunLoaded, NoLoad, HistoryTypeOK, LoadShaped
<1> QED BY <1>1, <1>2, <1>3, <1>4, <1>5

-----------------------------------------------------------------------------
(* What the memory holds. *)

WholeHolds == HistoryTypeOK /\ MemoryHolds /\ LoadsHold

LEMMA EmitHolds ==
    ASSUME WholeHolds, NEW o \in Origins, Emit(o), crossedPages' = {}
    PROVE  MemoryHolds' /\ LoadsHold'
<1> DEFINE n == Len(origin) + 1
<1>1. /\ n \in Nat /\ n \notin Events /\ Pending' = Pending \cup {n}
      /\ \A e \in Events : origin'[e] = origin[e] /\ e < n
      /\ origin'[n] = o
  BY EmitMoves DEF WholeHolds
<1>2. /\ memory' = memory \cup {n}
      /\ selectedRun => shownEvents' = shownEvents \cup {n}
      /\ ~selectedRun => shownEvents' = shownEvents
      /\ o = "child" => pruning = "none"
      /\ UNCHANGED <<disk, olderPages, hasOlder, selectedRun, opening, older, child, pruning>>
  BY DEF Emit
<1>3. older.phase = "none" /\ o \in {"message", "child"}
  BY DEF Emit, Raced, WholeHolds, HistoryTypeOK, Origins
<1> HIDE DEF n
<1>4. /\ disk \subseteq Events /\ memory \subseteq Events /\ Pending \subseteq Events
      /\ Events \subseteq Nat /\ shownEvents \subseteq Events
  BY EventSets DEF WholeHolds, HistoryTypeOK
<1>5. ASSUME NEW S, S \subseteq Events, Upward(S) PROVE Upward(S)'
  BY <1>2, <1>5 DEF Upward
<1>6. Upward(memory)'
  <2> SUFFICES ASSUME NEW e \in disk, NEW f \in memory', f < e PROVE e \in memory'
    BY <1>2 DEF Upward
  <2>1. e \in Events /\ e \in Nat /\ e < n
    BY <1>1, <1>4
  <2>2. f # n
    BY <1>1, <2>1
  <2>3. f \in memory
    BY <1>2, <2>2
  <2> QED BY <1>2, <2>3 DEF WholeHolds, MemoryHolds, Upward
<1>7. (ofChild(disk))' = ofChild(disk)
  BY <1>1, <1>2, <1>4 DEF ofChild
<1>8. pruning # "none" => (ofChild(Pending))' = ofChild(Pending)
  BY <1>1, <1>2, <1>3, <1>4 DEF ofChild
<1>9. MemoryHolds'
  BY <1>1, <1>2, <1>4, <1>6, <1>7, <1>8 DEF WholeHolds, MemoryHolds
<1>10. LoadsHold'
  BY <1>2, <1>3, <1>5 DEF WholeHolds, LoadsHold, HistoryTypeOK
<1> QED BY <1>9, <1>10

LEMMA PutHolds ==
    ASSUME WholeHolds, PutEvent PROVE MemoryHolds' /\ LoadsHold'
<1> DEFINE h == Head(queued)
<1>1. h \in Pending /\ Pending' \subseteq Pending /\ Pending \subseteq Pending' \cup {h}
  BY PutMoves DEF WholeHolds, PutEvent
<1>2. /\ disk' = disk \cup {h}
      /\ UNCHANGED <<origin, memory, shownEvents, olderPages, hasOlder, selectedRun, opening,
                     older, child, pruning>>
  BY DEF PutEvent
<1> HIDE DEF h
<1>3. h \in memory
  BY <1>1 DEF WholeHolds, MemoryHolds
<1>4. ASSUME NEW S, Upward(S) PROVE Upward(S)'
  BY <1>2, <1>3, <1>4 DEF Upward
<1>5. Upward(memory)'
  BY <1>2, <1>4 DEF WholeHolds, MemoryHolds
<1>6. MemoryHolds'
  BY <1>1, <1>2, <1>3, <1>5 DEF WholeHolds, MemoryHolds, ofChild
<1>7. LoadsHold'
  BY <1>1, <1>2, <1>3, <1>4 DEF WholeHolds, LoadsHold
<1> QED BY <1>6, <1>7

LEMMA PruneHolds ==
    ASSUME WholeHolds, PruneDisk \/ Prune, crossedPages' = {}
    PROVE  MemoryHolds' /\ LoadsHold'
<1>0. older.phase = "none" /\ opening.phase = "none" /\ child.phase = "none"
  BY DEF WholeHolds, HistoryTypeOK, PruneDisk, Prune, Raced, Staled
<1>1. CASE PruneDisk
  <2>1. /\ pruning = "none" /\ ofChild(Pending) = {} /\ pruning' = "deleted"
        /\ disk' = disk \ ofChild(disk)
        /\ UNCHANGED <<origin, queued, memory, olderPages, shownEvents, hasOlder, selectedRun,
                       opening, older, child>>
    BY <1>1 DEF PruneDisk, Pending
  <2>2. Pending' = Pending
    BY <2>1 DEF Pending
  <2>3. \A e \in disk : e \in disk' \/ origin[e] = "child"
    BY <2>1 DEF ofChild
  <2>4. (ofChild(disk))' = {} /\ (ofChild(Pending))' = {}
    BY <2>1, <2>2 DEF ofChild
  <2>5. Upward(memory)'
    BY <2>1 DEF WholeHolds, MemoryHolds, Upward
  <2>6. MemoryHolds'
    BY <2>1, <2>2, <2>3, <2>4, <2>5 DEF WholeHolds, MemoryHolds
  <2> QED BY <1>0, <2>1, <2>6 DEF LoadsHold
<1>2. CASE Prune
  <2>1. /\ pruning = "deleted" /\ pruning' = "done"
        /\ memory' = memory \ ofChild(memory) /\ shownEvents' = shownEvents \ ofChild(shownEvents)
        /\ UNCHANGED <<origin, disk, queued, olderPages, hasOlder, selectedRun, opening, older, child>>
    BY <1>2 DEF Prune
  <2>2. Pending' = Pending /\ (ofChild(disk))' = ofChild(disk) /\ (ofChild(Pending))' = ofChild(Pending)
    BY <2>1 DEF Pending, ofChild
  <2>3. ofChild(disk) = {} /\ ofChild(Pending) = {}
    BY <2>1 DEF WholeHolds, MemoryHolds
  <2>4. \A e \in disk \cup Pending : e \in memory => e \in memory'
    BY <2>1, <2>3 DEF ofChild
  <2>5. Upward(memory)'
    BY <2>1, <2>4 DEF WholeHolds, MemoryHolds, Upward
  <2>6. \A e \in memory' : e \in memory /\ origin[e] # "child"
    BY <2>1 DEF ofChild
  <2>7. MemoryHolds'
    <3>1. Pending' \subseteq memory' /\ \A e \in memory' : e \in disk' \cup Pending'
      BY <2>1, <2>2, <2>4, <2>6 DEF WholeHolds, MemoryHolds
    <3>2. shownEvents' \subseteq memory' /\ (shownEvents = memory => shownEvents' = memory')
      BY <2>1 DEF WholeHolds, MemoryHolds, ofChild
    <3>3. disk \subseteq memory => disk' \subseteq memory'
      BY <2>1, <2>4
    <3> QED BY <2>1, <2>2, <2>3, <2>5, <3>1, <3>2, <3>3 DEF WholeHolds, MemoryHolds
  <2> QED BY <1>0, <2>1, <2>7 DEF LoadsHold
<1> QED BY <1>1, <1>2

LEMMA OpenHolds ==
    ASSUME WholeHolds, Open \/ Opened \/ ShowOpened \/ Leave, crossedPages' = {}
    PROVE  MemoryHolds' /\ LoadsHold'
<1> USE HistoryAssumption
<1>1. CASE Open
  <2>1. /\ selectedRun' = TRUE /\ opening.phase = "none"
        /\ opening' = [phase |-> "reading", set |-> newestPage(disk), more |-> Cardinality(disk) > PageSize]
        /\ UNCHANGED <<origin, disk, queued, memory, olderPages, shownEvents, hasOlder,
                       older, child, pruning>>
    BY <1>1 DEF Open
  <2>2. older.phase = "none"
    BY <1>1 DEF WholeHolds, HistoryTypeOK, Open, Raced
  <2>3. EventSet(disk)
    BY EventSets DEF WholeHolds, HistoryTypeOK
  <2>4. /\ opening'.phase = "reading" /\ opening'.set = newestPage(disk)
        /\ ~opening'.more => ~(Cardinality(disk) > PageSize)
    BY <2>1
  <2>5. Upward(opening.set)'
    BY <2>1, <2>3, <2>4, NewestPage DEF Upward
  <2>6. ~opening'.more => opening'.set = disk
    <3>1. Cardinality(disk) \in Nat
      BY <2>3, FS_CardinalityType DEF EventSet
    <3>2. ~(Cardinality(disk) > PageSize) => newestPage(disk) = disk
      BY <2>3, <3>1, NewestPage
    <3> QED BY <2>4, <3>2
  <2>7. newestPage(disk) \subseteq disk
    BY <2>3, NewestPage
  <2>8. MemoryHolds'
    BY <2>1, <2>4 DEF WholeHolds, MemoryHolds, Pending, Upward, ofChild
  <2>9. LoadsHold'
    BY <2>1, <2>2, <2>4, <2>5, <2>6, <2>7 DEF WholeHolds, LoadsHold
  <2> QED BY <2>8, <2>9
<1>2. CASE Opened
  <2>1. /\ opening.phase = "reading" /\ memory' = memory \cup opening.set
        /\ olderPages' = opening.more
        /\ UNCHANGED <<origin, disk, queued, shownEvents, hasOlder, selectedRun, older, child, pruning>>
    BY <1>2, Zenon DEF Opened
  <2>2. older.phase = "none"
    BY <1>2 DEF WholeHolds, HistoryTypeOK, Opened, Raced
  <2>3. \/ ~selectedRun /\ opening'.phase = "none"
        \/ selectedRun /\ opening'.phase = "merging" /\ opening'.set = memory'
    <3>1. \/ ~selectedRun /\ opening' = NoLoad
          \/ selectedRun /\ opening' = [opening EXCEPT !.phase = "merging", !.set = memory']
      BY <1>2, Zenon DEF Opened
    <3>2. PICK m : m = memory'
      OBVIOUS
    <3>3. opening = [phase |-> opening.phase, set |-> opening.set, more |-> opening.more]
      BY DEF WholeHolds, HistoryTypeOK, LoadShaped
    <3>4. PICK l : l = [opening EXCEPT !.phase = "merging", !.set = m]
      OBVIOUS
    <3>5. l = [phase |-> "merging", set |-> m, more |-> opening.more]
      BY <3>3, <3>4
    <3>6. l.phase = "merging" /\ l.set = m
      BY <3>5
    <3>7. \/ ~selectedRun /\ opening' = NoLoad
          \/ selectedRun /\ opening' = l
      BY <3>1, <3>2, <3>4, Zenon
    <3> QED BY <3>2, <3>6, <3>7 DEF NoLoad
  <2>4. /\ opening.set \subseteq disk /\ Upward(opening.set)
        /\ ~opening.more => disk \subseteq opening.set \cup memory
    BY <2>1 DEF WholeHolds, LoadsHold
  <2>5. Upward(memory)'
    BY <2>1, <2>4 DEF WholeHolds, MemoryHolds, Upward
  <2>6. ~olderPages' => disk \subseteq memory'
    BY <2>1, <2>4
  <2>7. MemoryHolds'
    <3>1. Pending' = Pending /\ (ofChild(disk))' = ofChild(disk) /\ (ofChild(Pending))' = ofChild(Pending)
      BY <2>1 DEF Pending, ofChild
    <3> QED BY <2>1, <2>3, <2>4, <2>5, <3>1 DEF WholeHolds, MemoryHolds
  <2>8. LoadsHold'
    BY <2>1, <2>2, <2>3, <2>6 DEF WholeHolds, LoadsHold, HistoryTypeOK
  <2> QED BY <2>7, <2>8
<1>3. CASE ShowOpened
  <2>1. /\ opening.phase = "merging" /\ opening' = NoLoad
        /\ shownEvents' = shownEvents \cup opening.set /\ hasOlder' = olderPages
        /\ UNCHANGED <<origin, disk, queued, memory, olderPages, selectedRun, older, child, pruning>>
    BY <1>3 DEF ShowOpened
  <2>2. /\ selectedRun /\ shownEvents' = memory
        /\ ~olderPages => disk \subseteq memory
    BY <2>1 DEF WholeHolds, LoadsHold, MemoryHolds
  <2>3. MemoryHolds'
    BY <2>1, <2>2 DEF WholeHolds, MemoryHolds, Pending, Upward, ofChild
  <2>4. LoadsHold'
    BY <2>1 DEF WholeHolds, LoadsHold, NoLoad, Upward
  <2> QED BY <2>3, <2>4
<1>4. CASE Leave
  <2>1. /\ selectedRun' = FALSE /\ shownEvents' \subseteq shownEvents
        /\ opening' = IF opening.phase = "merging" THEN NoLoad ELSE opening
        /\ UNCHANGED <<origin, disk, queued, memory, olderPages, hasOlder, older, child, pruning>>
    BY <1>4 DEF Leave
  <2>2. MemoryHolds'
    BY <2>1 DEF WholeHolds, MemoryHolds, Pending, Upward, ofChild
  <2>3. opening'.phase # "merging" /\ (opening'.phase # "none" => opening' = opening)
        /\ (opening.phase = "none" => opening'.phase = "none")
    BY <2>1 DEF NoLoad
  <2>4. LoadsHold'
    BY <2>1, <2>3 DEF WholeHolds, LoadsHold, Upward
  <2> QED BY <2>2, <2>4
<1> QED BY <1>1, <1>2, <1>3, <1>4

LEMMA OlderHolds ==
    ASSUME WholeHolds, LoadOlder \/ OlderLoaded \/ ShowNewer, crossedPages' = {}
    PROVE  MemoryHolds' /\ LoadsHold'
<1> USE HistoryAssumption
<1>1. CASE LoadOlder
  <2> DEFINE pool == IF memory = {} THEN disk ELSE before(disk, Min(memory))
  <2>1. /\ older'.phase = "reading" /\ older'.before = memory /\ older'.page = newestPage(pool)
        /\ ~older'.more => ~(Cardinality(pool) > PageSize)
        /\ opening.phase = "none" /\ pruning # "deleted"
        /\ UNCHANGED <<origin, disk, queued, memory, olderPages, shownEvents, hasOlder,
                       selectedRun, opening, child, pruning>>
    BY <1>1 DEF LoadOlder
  <2>2. pool \subseteq disk /\ EventSet(pool) /\ EventSet(memory) /\ disk \subseteq Nat
    BY EventSets DEF WholeHolds, HistoryTypeOK, before, EventSet
  <2>3. \A e \in disk : e \in pool \/ e \in memory
    <3> SUFFICES ASSUME NEW e \in disk, memory # {}, ~(e < Min(memory)) PROVE e \in memory
      BY DEF before
    <3>1. Min(memory) \in memory /\ Min(memory) \in Nat /\ e \in Nat
      BY <2>2, LeastOfSet DEF EventSet
    <3>2. e = Min(memory) \/ Min(memory) < e
      BY <3>1
    <3> QED BY <3>1, <3>2 DEF WholeHolds, MemoryHolds, Upward
  <2> HIDE DEF pool
  <2>4. newestPage(pool) \subseteq pool /\ \A f \in newestPage(pool), e \in pool : f < e => e \in newestPage(pool)
    BY <2>2, NewestPage
  <2>5. ~older'.more => newestPage(pool) = pool
    <3>1. Cardinality(pool) \in Nat
      BY <2>2, FS_CardinalityType DEF EventSet
    <3>2. ~(Cardinality(pool) > PageSize) => newestPage(pool) = pool
      BY <2>2, <3>1, NewestPage
    <3> QED BY <2>1, <3>2
  <2>6. Upward(older.page)'
    BY <2>1, <2>3, <2>4 DEF Upward
  <2>7. MemoryHolds'
    BY <2>1 DEF WholeHolds, MemoryHolds, Pending, Upward, ofChild
  <2>8. ~older'.more => disk \subseteq older'.page \cup memory
    BY <2>1, <2>3, <2>5
  <2>9. older'.page \subseteq disk
    BY <2>1, <2>2, <2>4
  <2>10. LoadsHold'
    BY <2>1, <2>6, <2>8, <2>9 DEF WholeHolds, LoadsHold
  <2> QED BY <2>7, <2>10
<1>2. CASE OlderLoaded
  <2>1. /\ older.phase = "reading" /\ older' = NoPage
        /\ memory' = older.before \cup older.page /\ olderPages' = older.more
        /\ selectedRun => shownEvents' = memory' /\ hasOlder' = olderPages'
        /\ ~selectedRun => shownEvents' = shownEvents
        /\ UNCHANGED <<origin, disk, queued, selectedRun, opening, child, pruning>>
    BY <1>2 DEF OlderLoaded, mergedPage
  <2>2. /\ memory' = memory \cup older.page /\ opening.phase = "none"
        /\ older.page \subseteq disk /\ Upward(older.page)
        /\ ~older.more => disk \subseteq older.page \cup memory
    BY <2>1 DEF WholeHolds, LoadsHold
  <2>3. Upward(memory)'
    BY <2>1, <2>2 DEF WholeHolds, MemoryHolds, Upward
  <2>4. Pending' = Pending /\ (ofChild(disk))' = ofChild(disk) /\ (ofChild(Pending))' = ofChild(Pending)
    BY <2>1 DEF Pending, ofChild
  <2>5. MemoryHolds'
    <3>1. shownEvents' \subseteq memory'
      BY <2>1, <2>2 DEF WholeHolds, MemoryHolds
    <3>2. ~olderPages' => disk' \subseteq memory'
      BY <2>1, <2>2
    <3>3. Pending' \subseteq memory' /\ \A e \in memory' : e \in disk' \cup Pending'
                                          \/ (pruning' = "deleted" /\ origin'[e] = "child")
      BY <2>1, <2>2, <2>4 DEF WholeHolds, MemoryHolds
    <3> QED BY <2>1, <2>3, <2>4, <3>1, <3>2, <3>3 DEF WholeHolds, MemoryHolds
  <2>6. LoadsHold'
    BY <2>1, <2>2 DEF WholeHolds, LoadsHold, NoPage
  <2> QED BY <2>5, <2>6
<1>3. CASE ShowNewer
  <2>1. UNCHANGED <<origin, disk, queued, memory, olderPages, shownEvents, hasOlder,
                    selectedRun, opening, older, child, pruning>>
    BY <1>3 DEF ShowNewer
  <2> QED BY <2>1 DEF WholeHolds, MemoryHolds, LoadsHold, Pending, Upward, ofChild
<1> QED BY <1>1, <1>2, <1>3

LEMMA ChildHolds ==
    ASSUME WholeHolds, LoadRun \/ RunLoaded, crossedPages' = {}
    PROVE  MemoryHolds' /\ LoadsHold'
<1>1. CASE LoadRun
  <2>1. /\ child' = [phase |-> "reading", set |-> newestPage(ofChild(disk)), more |-> FALSE]
        /\ UNCHANGED <<origin, disk, queued, memory, olderPages, shownEvents, hasOlder,
                       selectedRun, opening, older, pruning>>
    BY <1>1 DEF LoadRun, NoLoad
  <2>2. child'.set \subseteq disk
    BY <2>1 DEF newestPage, ofChild
  <2> QED BY <2>1, <2>2 DEF WholeHolds, MemoryHolds, LoadsHold, Pending, Upward, ofChild
<1>2. CASE RunLoaded
  <2>1. /\ child.phase = "reading" /\ child' = NoLoad /\ memory' = memory \cup child.set
        /\ selectedRun => shownEvents' = memory'
        /\ ~selectedRun => shownEvents' = shownEvents
        /\ UNCHANGED <<origin, disk, queued, olderPages, hasOlder, selectedRun, opening, older, pruning>>
    BY <1>2 DEF RunLoaded
  <2>2. ~(\E e \in child.set : \A f \in memory : e < f)
    BY <1>2 DEF RunLoaded
  <2>3. child.set \subseteq disk /\ disk \subseteq Nat /\ memory \subseteq Nat
    BY <2>1, EventSets DEF WholeHolds, LoadsHold, HistoryTypeOK
  <2>4. \A e \in child.set : e \in memory
    <3> SUFFICES ASSUME NEW e \in child.set PROVE e \in memory
      OBVIOUS
    <3>1. PICK f \in memory : ~(e < f)
      BY <2>2
    <3>3. e \in disk /\ e \in Nat /\ f \in Nat
      BY <2>3
    <3>2. e \in disk /\ (f = e \/ f < e)
      BY <3>1, <3>3
    <3> QED BY <3>2 DEF WholeHolds, MemoryHolds, Upward
  <2>5. memory' = memory
    BY <2>1, <2>4
  <2>6. MemoryHolds'
    BY <2>1, <2>5 DEF WholeHolds, MemoryHolds, Pending, Upward, ofChild
  <2>7. LoadsHold'
    BY <2>1, <2>5 DEF WholeHolds, LoadsHold, NoLoad, Upward
  <2> QED BY <2>6, <2>7
<1> QED BY <1>1, <1>2

-----------------------------------------------------------------------------
(* What the page draws. *)

DrawnHolds == HistoryTypeOK /\ WindowHolds

LEMMA MessageSets ==
    ASSUME HistoryTypeOK
    PROVE  \A S : S \subseteq Events =>
              /\ messages(S) \subseteq Events /\ EventSet(messages(S))
              /\ Cardinality(messages(S)) \in Nat
<1>1. \A S : S \subseteq Events => messages(S) \subseteq Events
  BY DEF messages
<1> QED BY <1>1, EventSets, FS_CardinalityType DEF EventSet

\* More messages are at least as many.
LEMMA MoreMessages ==
    ASSUME HistoryTypeOK, NEW A, NEW B, B \subseteq Events, messages(A) \subseteq messages(B)
    PROVE  Cardinality(messages(A)) <= Cardinality(messages(B))
<1>1. IsFiniteSet(messages(B)) /\ messages(A) \in SUBSET messages(B)
  BY MessageSets DEF EventSet
<1> QED BY <1>1, FS_Subset

LEMMA EmitDraws ==
    ASSUME DrawnHolds, NEW o \in Origins, Emit(o), "raced" \notin crossedPages'
    PROVE  WindowHolds'
<1> DEFINE n == Len(origin) + 1
<1>1. /\ n \in Nat /\ n \notin Events
      /\ \A e \in Events : origin'[e] = origin[e] /\ e < n
      /\ origin'[n] = o
  BY EmitMoves DEF DrawnHolds
<1>2. /\ memory' = memory \cup {n}
      /\ selectedRun => shownEvents' = shownEvents \cup {n}
                        /\ end' = IF o = "message" THEN Latest ELSE end
      /\ ~selectedRun => shownEvents' = shownEvents
      /\ UNCHANGED <<disk, selectedRun, opening, older, child, pruning>>
  BY DEF Emit
<1>3. older.phase = "none" /\ o \in {"message", "child"}
  BY DEF Emit, Raced, DrawnHolds, HistoryTypeOK, Origins
<1> HIDE DEF n
<1>4. /\ memory \subseteq Events /\ shownEvents \subseteq Events /\ opening.set \subseteq Events
  BY DEF DrawnHolds, HistoryTypeOK
<1>5. ASSUME NEW S, S \subseteq Events
      PROVE  /\ {e \in S : origin'[e] = "message"} = messages(S)
             /\ {e \in S \cup {n} : origin'[e] = "message"} =
                   messages(S) \cup (IF o = "message" THEN {n} ELSE {})
  BY <1>1, <1>5 DEF messages
<1> DEFINE x == IF o = "message" THEN {n} ELSE {}
<1>6. /\ (messages(memory))' = messages(memory) \cup x
      /\ (messages(opening.set))' = messages(opening.set)
      /\ selectedRun => (messages(shownEvents))' = messages(shownEvents) \cup x
      /\ ~selectedRun => (messages(shownEvents))' = messages(shownEvents)
  BY <1>2, <1>4, <1>5 DEF messages
<1>7. selectedRun /\ end' # Latest => (messages(shownEvents))' = messages(shownEvents) /\ end' = end
  BY <1>2, <1>3, <1>6
<1> HIDE DEF x
<1>8. selectedRun /\ opening.phase = "none" =>
         end' = Latest \/ end' <= Cardinality((messages(shownEvents))')
  BY <1>7 DEF DrawnHolds, WindowHolds
<1>9. (selectedRun /\ opening.phase = "none" =>
         end = Latest \/ end <= Cardinality(messages(shownEvents)))'
  BY <1>2, <1>8
<1> QED BY <1>2, <1>3, <1>6, <1>9 DEF DrawnHolds, WindowHolds

LEMMA StoreDraws ==
    ASSUME DrawnHolds, PutEvent \/ PruneDisk \/ Prune \/ LoadRun, "raced" \notin crossedPages'
    PROVE  WindowHolds'
<1>1. UNCHANGED <<origin, selectedRun, opening, older, end>>
  BY DEF PutEvent, PruneDisk, Prune, LoadRun
<1>2. /\ messages(memory') = messages(memory) /\ messages(shownEvents') = messages(shownEvents)
      /\ older.phase = "reading" => memory' = memory
  BY DEF PutEvent, PruneDisk, Prune, LoadRun, messages, ofChild, Raced
<1>3. /\ (messages(memory))' = messages(memory) /\ (messages(shownEvents))' = messages(shownEvents)
      /\ (messages(opening.set))' = messages(opening.set)
  BY <1>1, <1>2 DEF messages
<1> QED BY <1>1, <1>2, <1>3 DEF DrawnHolds, WindowHolds

LEMMA OpenDraws ==
    ASSUME DrawnHolds, Open \/ Opened \/ ShowOpened \/ Leave, "raced" \notin crossedPages'
    PROVE  WindowHolds'
<1>1. UNCHANGED <<origin, older>>
  BY DEF Open, Opened, ShowOpened, Leave
<1>0. \A S : {e \in S : origin'[e] = "message"} = messages(S)
  BY <1>1 DEF messages
<1>2. CASE Open
  <2>1. older.phase = "none" /\ opening'.phase = "reading"
        /\ UNCHANGED <<memory, shownEvents>>
    BY <1>2 DEF DrawnHolds, HistoryTypeOK, Open, Raced
  <2>2. (messages(memory))' = messages(memory) /\ (messages(shownEvents))' = messages(shownEvents)
    BY <1>1, <2>1 DEF messages
  <2> QED BY <1>1, <2>1, <2>2 DEF DrawnHolds, WindowHolds
<1>3. CASE Opened
  <2>1. /\ memory' = memory \cup opening.set /\ opening.phase = "reading"
        /\ UNCHANGED <<shownEvents, selectedRun>>
    BY <1>3, Zenon DEF Opened
  <2>2. older.phase = "none"
    BY <1>3 DEF DrawnHolds, HistoryTypeOK, Opened, Raced
  <2>3. \/ ~selectedRun /\ opening'.phase = "none"
        \/ selectedRun /\ opening'.phase = "merging" /\ opening'.set = memory'
    <3>1. \/ ~selectedRun /\ opening' = NoLoad
          \/ selectedRun /\ opening' = [opening EXCEPT !.phase = "merging", !.set = memory']
      BY <1>3, Zenon DEF Opened
    <3>2. PICK m : m = memory'
      OBVIOUS
    <3>3. opening = [phase |-> opening.phase, set |-> opening.set, more |-> opening.more]
      BY DEF DrawnHolds, HistoryTypeOK, LoadShaped
    <3>4. PICK l : l = [opening EXCEPT !.phase = "merging", !.set = m]
      OBVIOUS
    <3>5. l = [phase |-> "merging", set |-> m, more |-> opening.more]
      BY <3>3, <3>4
    <3>6. l.phase = "merging" /\ l.set = m
      BY <3>5
    <3>7. \/ ~selectedRun /\ opening' = NoLoad
          \/ selectedRun /\ opening' = l
      BY <3>1, <3>2, <3>4, Zenon
    <3> QED BY <3>2, <3>6, <3>7 DEF NoLoad
  <2>4. /\ (messages(shownEvents))' = messages(shownEvents)
        /\ messages(memory) \subseteq (messages(memory))'
    BY <1>1, <2>1 DEF messages
  <2>5. opening'.phase = "merging" => (messages(opening.set))' = (messages(memory))'
    BY <2>3 DEF messages
  <2> QED BY <1>1, <2>1, <2>2, <2>3, <2>4, <2>5 DEF DrawnHolds, WindowHolds
<1>4. CASE ShowOpened
  <2>1. /\ opening.phase = "merging" /\ opening' = NoLoad
        /\ shownEvents' = shownEvents \cup opening.set /\ end' = Latest
        /\ UNCHANGED <<memory, selectedRun>>
    BY <1>4 DEF ShowOpened
  <2>2. opening'.phase = "none" /\ older.phase = "none"
    BY <2>1 DEF NoLoad, DrawnHolds, WindowHolds, HistoryTypeOK
  <2>3. /\ (messages(memory))' = messages(memory)
        /\ (messages(shownEvents))' = messages(shownEvents) \cup messages(opening.set)
    BY <1>1, <2>1 DEF messages
  <2> QED BY <1>1, <2>1, <2>2, <2>3 DEF DrawnHolds, WindowHolds
<1>5. CASE Leave
  <2>1. /\ selectedRun' = FALSE /\ shownEvents' \subseteq shownEvents
        /\ opening' = IF opening.phase = "merging" THEN NoLoad ELSE opening
        /\ UNCHANGED memory
    BY <1>5 DEF Leave
  <2>2. opening'.phase # "merging" /\ (opening.phase = "none" => opening'.phase = "none")
    BY <2>1 DEF NoLoad
  <2>3. /\ (messages(memory))' = messages(memory)
        /\ (messages(shownEvents))' \subseteq messages(shownEvents)
    BY <1>1, <2>1 DEF messages
  <2> QED BY <1>1, <2>1, <2>2, <2>3 DEF DrawnHolds, WindowHolds
<1> QED BY <1>2, <1>3, <1>4, <1>5

LEMMA LoadOlderDraws ==
    ASSUME DrawnHolds, LoadOlder, "raced" \notin crossedPages'
    PROVE  WindowHolds'
<1> DEFINE pool == IF memory = {} THEN disk ELSE before(disk, Min(memory))
           count == Cardinality(messages(shownEvents))
<1>1. /\ older' = [phase |-> "reading", before |-> memory, page |-> newestPage(pool),
                   more |-> Cardinality(pool) > PageSize, count |-> count,
                   end |-> IF end = Latest THEN count ELSE end]
      /\ selectedRun /\ UNCHANGED <<origin, memory, shownEvents, end, selectedRun, opening>>
  BY DEF LoadOlder
<1>2. opening.phase = "none"
  BY DEF LoadOlder
<1>3. \A p \in newestPage(pool), f \in memory : p < f
  <2> SUFFICES ASSUME NEW p \in newestPage(pool), NEW f \in memory PROVE p < f
    OBVIOUS
  <2>1. p \in disk /\ p < Min(memory)
    BY DEF newestPage, before
  <2>2. disk \subseteq Nat /\ EventSet(memory)
    BY EventSets DEF DrawnHolds, HistoryTypeOK
  <2>3. Min(memory) \in memory /\ Min(memory) <= f
    BY <2>2, LeastOfSet
  <2>4. p \in Nat /\ f \in Nat /\ Min(memory) \in Nat
    BY <2>1, <2>2, <2>3 DEF EventSet
  <2> QED BY <2>1, <2>3, <2>4
<1>4. count \in Nat /\ end \in Nat \cup {Latest}
  BY MessageSets DEF DrawnHolds, HistoryTypeOK
<1> HIDE DEF pool, count
<1>5. /\ older'.phase = "reading" /\ older'.before = memory /\ older'.page = newestPage(pool)
      /\ older'.count = count /\ older'.end = IF end = Latest THEN count ELSE end
  BY <1>1
<1>6. end = Latest \/ end <= count
  BY <1>1, <1>2 DEF DrawnHolds, WindowHolds, count
<1>7. older'.end <= count
  BY <1>4, <1>5, <1>6
<1>8. /\ (messages(memory))' = messages(memory) /\ (messages(shownEvents))' = messages(shownEvents)
      /\ (messages(opening.set))' = messages(opening.set)
  BY <1>1 DEF messages
<1>9. count = Cardinality((messages(shownEvents))')
  BY <1>8 DEF count
<1> QED BY <1>1, <1>2, <1>3, <1>5, <1>7, <1>8, <1>9 DEF DrawnHolds, WindowHolds

LEMMA OlderLoadedDraws ==
    ASSUME DrawnHolds, OlderLoaded, "raced" \notin crossedPages'
    PROVE  WindowHolds'
<1> USE HistoryAssumption
<1> DEFINE all == mergedPage(older)
<1>1. /\ older.phase = "reading" /\ older' = NoPage /\ memory' = all
      /\ selectedRun => shownEvents' = all /\ end' = movedEnd(all, older)
      /\ ~selectedRun => shownEvents' = shownEvents
      /\ "raced" \notin crossedPages
      /\ UNCHANGED <<origin, selectedRun, opening>>
  BY DEF OlderLoaded
<1>2. opening.phase = "none" /\ all = memory \cup older.page
  BY <1>1 DEF DrawnHolds, WindowHolds, mergedPage
<1>3. all \subseteq Events
  BY DEF mergedPage, DrawnHolds, HistoryTypeOK
<1>4. Cardinality(messages(all)) \in Nat /\ older.count \in Nat /\ older.end \in Nat
  BY <1>3, MessageSets DEF DrawnHolds, HistoryTypeOK
<1>5. movedEnd(all, older) <= Cardinality(messages(all))
  <2> DEFINE c == Cardinality(messages(all))
  <2> HIDE DEF c
  <2>1. c \in Nat /\ movedEnd(all, older) =
            Lower(c, Higher(0, c - older.count) + Higher(0, older.end - PageSize))
    BY <1>4 DEF movedEnd, c
  <2>2. movedEnd(all, older) <= c
    BY <1>4, <2>1 DEF Lower, Higher
  <2> QED BY <2>2 DEF c
<1> HIDE DEF all
<1>6. (messages(memory))' = messages(all) /\ messages(memory) \subseteq messages(all)
  BY <1>1, <1>2 DEF messages
<1>7. CASE selectedRun
  <2>1. (messages(shownEvents))' = messages(all)
    BY <1>1, <1>7 DEF messages
  <2>2. end' <= Cardinality((messages(shownEvents))')
    BY <1>1, <1>5, <1>7, <2>1
  <2> QED BY <1>1, <1>2, <1>6, <2>1, <2>2 DEF WindowHolds, NoPage
<1>8. CASE ~selectedRun
  <2>1. (messages(shownEvents))' = messages(shownEvents)
    BY <1>1, <1>8 DEF messages
  <2> QED BY <1>1, <1>2, <1>6, <1>8, <2>1 DEF DrawnHolds, WindowHolds, NoPage
<1> QED BY <1>7, <1>8

LEMMA NewerDraws ==
    ASSUME DrawnHolds, ShowNewer \/ RunLoaded, "raced" \notin crossedPages'
    PROVE  WindowHolds'
<1> USE HistoryAssumption
<1>1. CASE ShowNewer
  <2> DEFINE all == Cardinality(messages(shownEvents))
  <2>1. /\ end # Latest /\ end' = IF end + PageSize >= all THEN Latest ELSE end + PageSize
        /\ UNCHANGED <<origin, memory, shownEvents, selectedRun, opening, older>>
    BY <1>1 DEF ShowNewer
  <2>2. all \in Nat /\ end \in Nat
    BY <2>1, MessageSets DEF DrawnHolds, HistoryTypeOK
  <2> HIDE DEF all
  <2>3. end' = Latest \/ end' <= all
    BY <2>1, <2>2
  <2>4. /\ (messages(memory))' = messages(memory) /\ (messages(shownEvents))' = messages(shownEvents)
        /\ (messages(opening.set))' = messages(opening.set)
    BY <2>1 DEF messages
  <2>5. end' = Latest \/ end' <= Cardinality((messages(shownEvents))')
    BY <2>3, <2>4 DEF all
  <2> QED BY <2>1, <2>4, <2>5 DEF DrawnHolds, WindowHolds
<1>2. CASE RunLoaded
  <2>1. /\ memory' = memory \cup child.set
        /\ selectedRun => shownEvents' = memory'
        /\ ~selectedRun => shownEvents' = shownEvents
        /\ UNCHANGED <<origin, end, selectedRun, opening, older>>
    BY <1>2 DEF RunLoaded
  <2>2. older.phase = "none"
    BY <1>2 DEF DrawnHolds, HistoryTypeOK, RunLoaded, Raced
  <2>3. /\ messages(memory) \subseteq (messages(memory))'
        /\ (messages(opening.set))' = messages(opening.set)
        /\ selectedRun => (messages(shownEvents))' = (messages(memory))'
        /\ ~selectedRun => (messages(shownEvents))' = messages(shownEvents)
    BY <2>1 DEF messages
  <2>4. ASSUME selectedRun, opening.phase = "none", end # Latest
        PROVE  end <= Cardinality((messages(shownEvents))')
    <3>1. end \in Nat /\ end <= Cardinality(messages(shownEvents))
      BY <2>4 DEF DrawnHolds, WindowHolds, HistoryTypeOK
    <3>2. memory' \subseteq Events /\ shownEvents \subseteq Events /\ (messages(shownEvents))' = messages(memory')
          /\ messages(shownEvents) \subseteq messages(memory')
      BY <2>1, <2>3, <2>4 DEF DrawnHolds, WindowHolds, HistoryTypeOK, messages
    <3>3. Cardinality(messages(shownEvents)) <= Cardinality(messages(memory'))
      BY <3>2, MoreMessages DEF DrawnHolds
    <3>4. Cardinality(messages(shownEvents)) \in Nat /\ Cardinality(messages(memory')) \in Nat
      BY <3>2, MessageSets DEF DrawnHolds
    <3> QED BY <3>1, <3>2, <3>3, <3>4
  <2> QED BY <2>1, <2>2, <2>3, <2>4 DEF DrawnHolds, WindowHolds
<1> QED BY <1>1, <1>2

LEMMA HistoryStart == HistoryInit => HistoryInv
<1> USE HistoryAssumption
<1> SUFFICES ASSUME HistoryInit PROVE HistoryInv
  OBVIOUS
<1>1. PICK n \in 0..Early : origin \in [1..n -> Origins]
  BY DEF HistoryInit
<1>2. n \in Nat /\ origin \in Seq(Origins) /\ disk = Events
  BY <1>1 DEF HistoryInit, Events
<1>3. Pending = {}
  BY DEF HistoryInit, Pending
<1>4. HistoryTypeOK
  BY <1>2, <1>3 DEF HistoryInit, HistoryTypeOK, LoadShaped, NoLoad, NoPage
<1>5. MemoryHolds /\ LoadsHold
  BY <1>3 DEF HistoryInit, MemoryHolds, LoadsHold, Upward, NoLoad, NoPage
<1>6. WindowHolds
  BY DEF HistoryInit, WindowHolds, messages, NoLoad, NoPage
<1> QED BY <1>4, <1>5, <1>6 DEF HistoryInv

LEMMA HistoryStep == HistoryInv /\ [HistoryNext]_historyVars => HistoryInv'
<1> SUFFICES ASSUME HistoryInv, [HistoryNext]_historyVars PROVE HistoryInv'
  OBVIOUS
<1>1. CASE UNCHANGED historyVars
  BY <1>1 DEF historyVars, HistoryInv, HistoryTypeOK, MemoryHolds, LoadsHold, WindowHolds,
              LoadShaped, Events, Pending, Upward, messages, ofChild
<1>2. CASE HistoryNext
  <2>0. HistoryTypeOK
    BY DEF HistoryInv
  <2>1. HistoryTypeOK'
    BY <1>2, <2>0, EmitTypes, PageTypes, WindowTypes DEF HistoryNext
  <2>2. crossedPages \subseteq crossedPages'
    BY <1>2 DEF HistoryNext, Emit, PutEvent, PruneDisk, Prune, Open, Opened, ShowOpened, Leave,
                LoadOlder, OlderLoaded, ShowNewer, LoadRun, RunLoaded
  <2>3. ASSUME crossedPages' = {} PROVE MemoryHolds' /\ LoadsHold'
    <3>1. WholeHolds
      BY <2>2, <2>3 DEF HistoryInv, WholeHolds
    <3> QED BY <1>2, <2>3, <3>1, EmitHolds, PutHolds, PruneHolds, OpenHolds, OlderHolds, ChildHolds
            DEF HistoryNext
  <2>4. ASSUME "raced" \notin crossedPages' PROVE WindowHolds'
    <3>1. DrawnHolds
      BY <2>2, <2>4 DEF HistoryInv, DrawnHolds
    <3> QED BY <1>2, <2>4, <3>1, EmitDraws, StoreDraws, OpenDraws, LoadOlderDraws,
               OlderLoadedDraws, NewerDraws DEF HistoryNext
  <2> QED BY <2>1, <2>3, <2>4 DEF HistoryInv
<1> QED BY <1>1, <1>2

LEMMA HistoryWhole == ASSUME HistoryInv PROVE HistoryIsWhole
<1> SUFFICES ASSUME Still, crossedPages = {} PROVE NoGap /\ shownEvents = memory /\ hasOlder = olderPages
  BY DEF HistoryIsWhole
<1>1. MemoryHolds /\ selectedRun /\ opening.phase = "none" /\ pruning # "deleted"
  BY DEF HistoryInv, Still
<1>2. NoGap
  BY <1>1 DEF MemoryHolds, NoGap, Upward, Pending
<1> QED BY <1>1, <1>2 DEF MemoryHolds

\* The windows before and after an older page is shown.
LEMMA WindowsMeet ==
    ASSUME HistoryInv, [HistoryNext]_historyVars, older.phase = "reading", older'.phase = "none",
           selectedRun, "raced" \notin crossedPages,
           window(shownEvents, older.end) # {}
    PROVE  /\ \A a \in window(shownEvents, older.end), b \in window(shownEvents', end') : b < a
           /\ \A m \in messages(shownEvents') :
                (\A a \in window(shownEvents, older.end) : m < a) =>
                   \E b \in window(shownEvents', end') : m <= b
<1> USE HistoryAssumption
<1> DEFINE M == messages(shownEvents)
           P == messages(older.page)
           E == older.end
           A == P \cup M
<1>1. OlderLoaded
  BY DEF historyVars, HistoryNext, Emit, PutEvent, PruneDisk, Prune, Open, Opened, ShowOpened, Leave,
         LoadOlder, ShowNewer, LoadRun, RunLoaded
<1>2. /\ opening.phase = "none" /\ older.before = memory
      /\ messages(memory) = M /\ older.count = Cardinality(M) /\ E <= older.count
      /\ \A p \in older.page, f \in memory : p < f
  BY DEF HistoryInv, WindowHolds
<1>3. /\ shownEvents' = mergedPage(older) /\ end' = movedEnd(mergedPage(older), older)
      /\ messages(mergedPage(older)) = A
  BY <1>1, <1>2 DEF OlderLoaded, mergedPage, messages
<1>4. /\ EventSet(P) /\ EventSet(M) /\ E \in Nat /\ \A p \in P, m \in M : p < m
  <2>1. HistoryTypeOK /\ older.page \subseteq Events /\ shownEvents \subseteq Events /\ E \in Nat
    BY DEF HistoryInv, HistoryTypeOK
  <2>2. P \subseteq older.page /\ M \subseteq memory
    BY <1>2 DEF messages
  <2> QED BY <1>2, <2>1, <2>2, MessageSets
<1>5. /\ Cardinality(A) = Cardinality(P) + Cardinality(M)
      /\ Cardinality(P) \in Nat /\ Cardinality(M) \in Nat
  BY <1>4, PlacesAbove, PlaceFacts
<1> DEFINE top == Cardinality(P) + Higher(0, E - PageSize)
<1>6. /\ top \in Nat /\ end' = top /\ top # Latest /\ E # Latest
      /\ Lower(Cardinality(M), E) = E /\ Lower(Cardinality(A), top) = top
  <2> DEFINE p == Cardinality(P)
             n == Cardinality(M)
             h == Higher(0, E - PageSize)
  <2>1. p \in Nat /\ n \in Nat /\ E \in Nat /\ E <= n /\ PageSize \in Nat /\ PageSize >= 1
    BY <1>2, <1>4, <1>5
  <2>2. end' = Lower(Cardinality(A), Higher(0, Cardinality(A) - older.count) + h)
    BY <1>3 DEF movedEnd
  <2>3. Cardinality(A) = p + n /\ older.count = n
    BY <1>2, <1>5
  <2> HIDE DEF p, n, A, M, P
  <2>4. h \in Nat /\ h <= n
    BY <2>1 DEF Higher
  <2> HIDE DEF h
  <2>5. Higher(0, p + n - n) = p
    BY <2>1 DEF Higher
  <2>6. Lower(p + n, p + h) = p + h /\ Lower(n, E) = E /\ p + h \in Nat /\ p + h # Latest /\ E # Latest
    BY <2>1, <2>4 DEF Lower, Latest
  <2>7. end' = p + h
    <3>1. Cardinality(A) - older.count = p
      BY <2>1, <2>3
    <3>2. p + n - n = p
      BY <2>1
    <3>3. end' = Lower(p + n, p + h)
      BY <2>2, <2>3, <2>5, <3>1, <3>2, Zenon
    <3> QED BY <2>6, <3>3, Zenon
  <2>8. top = p + h /\ Lower(Cardinality(M), E) = Lower(n, E)
    BY DEF p, n, h
  <2> HIDE DEF top
  <2> QED BY <2>3, <2>6, <2>7, <2>8
<1> DEFINE old == {m \in M : E - PageSize <= Place(M, m) /\ Place(M, m) < E}
           new == {m \in A : top - PageSize <= Place(A, m) /\ Place(A, m) < top}
<1>7. window(shownEvents, E) = old
  BY <1>6 DEF window, Place
<1>8. window(shownEvents', end') = new
  <2>1. messages(shownEvents') = A
    BY <1>3
  <2> HIDE DEF A, top
  <2> QED BY <1>6, <2>1 DEF window, Place
<1>9. messages(shownEvents') = A
  BY <1>3
<1>10. old # {} /\ E <= Cardinality(M)
  BY <1>2, <1>7
<1>11. /\ \A a \in old, b \in new : b < a
       /\ \A m \in A : (\A a \in old : m < a) => \E b \in new : m <= b
  <2>1. PICK o, w, t : o = old /\ w = new /\ t = top
    OBVIOUS
  <2>2. /\ o \subseteq M /\ \A m \in M : m \in o <=> InWindow(M, E, m)
        /\ w \subseteq A /\ \A m \in A : m \in w <=> InWindow(A, t, m)
    <3> HIDE DEF A, M, top
    <3> QED BY <2>1 DEF InWindow
  <2>3. /\ t \in Nat /\ t = Cardinality(P) + Higher(0, E - PageSize) /\ o # {}
    BY <1>6, <1>10, <2>1
  <2>4. /\ EventSet(P) /\ EventSet(M) /\ E \in Nat /\ E <= Cardinality(M)
        /\ \A p \in P, m \in M : p < m
    BY <1>4, <1>10
  <2> HIDE DEF P, M, E, old, new, top
  <2>5. /\ \A a \in o, b \in w : b < a
        /\ \A m \in A : (\A a \in o : m < a) => \E b \in w : m <= b
    <3>1. Meeting(P, M, E, t, o, w)
      BY <2>2, <2>3, <2>4 DEF Meeting
    <3> QED BY <3>1, WindowAbove
  <2> QED BY <2>1, <2>5
<1> HIDE DEF old, new, A
<1> QED BY <1>7, <1>8, <1>9, <1>11

\* For any page size, any number of events and any order in which they are
\* emitted, stored, loaded, shown and deleted: the page has every event from
\* its oldest on, and scrolling up skips no message, as long as no operation
\* recorded in `crossedPages` crossed another.
\* (useAgentV2 :429-464, eventStore :29-67)
THEOREM HistoryStaysSound == HistorySpec => HistorySound
<1>1. HistoryInit => HistoryInv
  BY HistoryStart
<1>2. HistoryInv /\ [HistoryNext]_historyVars => HistoryInv'
  BY HistoryStep
<1>3. HistoryInv => HistoryIsWhole
  BY HistoryWhole
<1>4. HistoryInv /\ [HistoryNext]_historyVars =>
        [older.phase = "reading" /\ older'.phase = "none" /\ selectedRun /\ "raced" \notin crossedPages =>
         LET old == window(shownEvents, older.end) new == window(shownEvents', end') IN
         old # {} => /\ \A a \in old, b \in new : b < a
                     /\ \A m \in messages(shownEvents') :
                          (\A a \in old : m < a) => \E b \in new : m <= b]_historyVars
  BY WindowsMeet
<1> QED BY <1>1, <1>2, <1>3, <1>4, PTL DEF HistorySpec, HistorySound, WindowStepsUp

-----------------------------------------------------------------------------
(***************************************************************************)
(* The Agent terminal.  A text is a sequence of pieces; Ends is IsSuffix   *)
(* said by positions.                                                      *)
(***************************************************************************)

Buffers == {x \in Seq(Nat) : Len(x) <= TextLimit}

Ends(x, y) == /\ Len(x) <= Len(y)
              /\ \A i \in 1..Len(x) : x[i] = y[Len(y) - Len(x) + i]

LEMMA EndsIsSuffix ==
    ASSUME NEW x \in Seq(Nat), NEW y \in Seq(Nat), Ends(x, y) PROVE IsSuffix(x, y)
<1> DEFINE a == Reverse(x)
           b == Reverse(y)
<1>1. a \in Seq(Nat) /\ Len(a) = Len(x) /\ \A i \in 1..Len(x) : a[i] = x[Len(x) - i + 1]
  BY DEF Reverse
<1>2. b \in Seq(Nat) /\ Len(b) = Len(y) /\ \A i \in 1..Len(y) : b[i] = y[Len(y) - i + 1]
  BY DEF Reverse
<1>3. Len(x) \in Nat /\ Len(y) \in Nat /\ Len(x) <= Len(y)
  BY DEF Ends
<1>4. \A i \in 1..Len(x) : a[i] = b[i]
  <2> SUFFICES ASSUME NEW i \in 1..Len(x) PROVE a[i] = b[i]
    OBVIOUS
  <2>1. Len(x) - i + 1 \in 1..Len(x) /\ i \in 1..Len(y)
    BY <1>3
  <2>2. x[Len(x) - i + 1] = y[Len(y) - Len(x) + (Len(x) - i + 1)]
    BY <2>1 DEF Ends
  <2>3. Len(y) - Len(x) + (Len(x) - i + 1) = Len(y) - i + 1
    BY <1>3
  <2> QED BY <1>1, <1>2, <2>1, <2>2, <2>3
<1> HIDE DEF a, b
<1>5. SubSeq(a, 1, Len(a)) = SubSeq(b, 1, Len(a))
  BY <1>1, <1>2, <1>3, <1>4
<1>6. IsPrefix(a, b)
  BY <1>1, <1>2, <1>3, <1>5 DEF IsPrefix
<1> QED BY <1>6 DEF IsSuffix, a, b

LEMMA EndsWhole == \A x \in Seq(Nat) : Ends(x, x) /\ Ends(<<>>, x)
BY DEF Ends

LEMMA EndsTransitive ==
    ASSUME NEW x \in Seq(Nat), NEW y \in Seq(Nat), NEW z \in Seq(Nat), Ends(x, y), Ends(y, z)
    PROVE  Ends(x, z)
<1>1. Len(x) \in Nat /\ Len(y) \in Nat /\ Len(z) \in Nat /\ Len(x) <= Len(y) /\ Len(y) <= Len(z)
  BY DEF Ends
<1>2. ASSUME NEW i \in 1..Len(x) PROVE x[i] = z[Len(z) - Len(x) + i]
  <2>1. x[i] = y[Len(y) - Len(x) + i]
    BY DEF Ends
  <2>4. i \in Nat /\ 1 <= i /\ i <= Len(x)
    BY <1>1
  <2>5. Len(y) - Len(x) + i \in 1..Len(y)
    BY <1>1, <2>4
  <2>2. y[Len(y) - Len(x) + i] = z[Len(z) - Len(y) + (Len(y) - Len(x) + i)]
    BY <2>5 DEF Ends
  <2>3. Len(z) - Len(y) + (Len(y) - Len(x) + i) = Len(z) - Len(x) + i
    BY <1>1, <2>4
  <2> QED BY <2>1, <2>2, <2>3
<1> QED BY <1>1, <1>2 DEF Ends

LEMMA PieceAdded ==
    ASSUME NEW x \in Seq(Nat), NEW p \in Nat
    PROVE  /\ x \o <<p>> \in Seq(Nat) /\ Len(x \o <<p>>) = Len(x) + 1
           /\ \A i \in 1..(Len(x) + 1) : (x \o <<p>>)[i] = IF i <= Len(x) THEN x[i] ELSE p
<1>1. x \o <<p>> = Append(x, p)
  OBVIOUS
<1>2. /\ Append(x, p) \in Seq(Nat) /\ Len(Append(x, p)) = Len(x) + 1
      /\ \A i \in 1..(Len(x) + 1) : Append(x, p)[i] = IF i <= Len(x) THEN x[i] ELSE p
  OBVIOUS
<1> QED BY <1>1, <1>2

\* The same piece at the end of both.
LEMMA EndsGrows ==
    ASSUME NEW x \in Seq(Nat), NEW y \in Seq(Nat), NEW p \in Nat, Ends(x, y)
    PROVE  Ends(x \o <<p>>, y \o <<p>>)
<1>1. Len(x) \in Nat /\ Len(y) \in Nat /\ Len(x) <= Len(y)
  BY DEF Ends
<1>2. /\ Len(x \o <<p>>) = Len(x) + 1 /\ Len(y \o <<p>>) = Len(y) + 1
      /\ \A i \in 1..(Len(x) + 1) : (x \o <<p>>)[i] = IF i <= Len(x) THEN x[i] ELSE p
      /\ \A i \in 1..(Len(y) + 1) : (y \o <<p>>)[i] = IF i <= Len(y) THEN y[i] ELSE p
  BY PieceAdded
<1> DEFINE xp == x \o <<p>>
           yp == y \o <<p>>
<1> HIDE DEF xp, yp
<1>3. ASSUME NEW i \in 1..(Len(x) + 1) PROVE xp[i] = yp[Len(y) + 1 - (Len(x) + 1) + i]
  <2>1. Len(y) + 1 - (Len(x) + 1) + i = Len(y) - Len(x) + i /\ Len(y) - Len(x) + i \in 1..(Len(y) + 1)
    BY <1>1
  <2>2. CASE i <= Len(x)
    <3>1. Len(y) - Len(x) + i <= Len(y) /\ x[i] = y[Len(y) - Len(x) + i]
      <4>1. i \in 1..Len(x) /\ Len(y) - Len(x) + i <= Len(y)
        BY <1>1, <2>2
      <4>2. \A k \in 1..Len(x) : x[k] = y[Len(y) - Len(x) + k]
        BY Zenon DEF Ends
      <4> QED BY <4>1, <4>2
    <3> QED BY <1>2, <2>1, <2>2, <3>1 DEF xp, yp
  <2>3. CASE i = Len(x) + 1
    <3>1. Len(y) - Len(x) + i = Len(y) + 1
      BY <1>1, <2>3
    <3> QED BY <1>1, <1>2, <2>1, <2>3, <3>1 DEF xp, yp
  <2> QED BY <1>1, <2>2, <2>3
<1>4. Len(xp) = Len(x) + 1 /\ Len(yp) = Len(y) + 1
  BY <1>2 DEF xp, yp
<1>5. Ends(xp, yp)
  <2>1. Len(xp) <= Len(yp)
    BY <1>1, <1>4
  <2>2. ASSUME NEW i \in 1..Len(xp) PROVE xp[i] = yp[Len(yp) - Len(xp) + i]
    <3>1. i \in 1..(Len(x) + 1)
      BY <1>4
    <3>2. xp[i] = yp[Len(y) + 1 - (Len(x) + 1) + i]
      BY <1>3, <3>1
    <3> QED BY <1>1, <1>4, <3>2
  <2> QED BY <2>1, <2>2, Zenon DEF Ends
<1> QED BY <1>5 DEF xp, yp

\* What is kept of a text.
LEMMA BoundedText ==
    ASSUME NEW x \in Seq(Nat)
    PROVE  /\ Bounded(x) \in Buffers /\ Ends(Bounded(x), x)
           /\ Len(x) <= TextLimit => Bounded(x) = x
           /\ Len(x) > TextLimit => Len(Bounded(x)) = TextLimit
<1> USE TerminalAssumption
<1>1. Len(x) \in Nat /\ TextLimit \in Nat /\ TextLimit >= 1
  OBVIOUS
<1>2. CASE Len(x) <= TextLimit
  <2>3. ~(Len(x) > TextLimit)
    BY <1>1, <1>2
  <2>1. Bounded(x) = SubSeq(x, 1, Len(x))
    BY <2>3, Zenon DEF Bounded
  <2>2. SubSeq(x, 1, Len(x)) = x
    BY SubSeqFull
  <2>4. Bounded(x) = x /\ x \in Buffers /\ Ends(x, x)
    BY <1>2, <2>1, <2>2, EndsWhole DEF Buffers
  <2> QED BY <2>3, <2>4
<1>3. CASE Len(x) > TextLimit
  <2> DEFINE m == Len(x) - TextLimit + 1
  <2>1. m \in Nat /\ m >= 1 /\ m <= Len(x) /\ Bounded(x) = SubSeq(x, m, Len(x))
    BY <1>1, <1>3 DEF Bounded
  <2> HIDE DEF m
  <2>2. /\ SubSeq(x, m, Len(x)) \in Seq(Nat) /\ Len(SubSeq(x, m, Len(x))) = Len(x) - m + 1
        /\ \A i \in 1..(Len(x) - m + 1) : SubSeq(x, m, Len(x))[i] = x[m + i - 1]
    BY <1>1, <2>1
  <2>3. Len(x) - m + 1 = TextLimit /\ \A i \in 1..TextLimit : m + i - 1 = Len(x) - TextLimit + i
    BY <1>1, <2>1 DEF m
  <2> DEFINE w == SubSeq(x, m, Len(x))
  <2>4. w \in Seq(Nat) /\ Len(w) = TextLimit /\ \A i \in 1..TextLimit : w[i] = x[Len(x) - TextLimit + i]
    BY <2>2, <2>3
  <2> HIDE DEF w
  <2>5. w \in Buffers /\ Ends(w, x)
    BY <1>1, <1>3, <2>4 DEF Buffers, Ends
  <2> QED BY <1>1, <1>3, <2>1, <2>4, <2>5 DEF w
<1> QED BY <1>1, <1>2, <1>3

\* A buffer that is the end of a text, and all of it while there is room,
\* stays so when a piece is added to both.
LEMMA BufferGrows ==
    ASSUME NEW x \in Buffers, NEW t \in Seq(Nat), NEW p \in Nat, Ends(x, t),
           Len(x) < TextLimit => x = t
    PROVE  /\ Ends(Bounded(x \o <<p>>), t \o <<p>>)
           /\ Len(Bounded(x \o <<p>>)) < TextLimit => Bounded(x \o <<p>>) = t \o <<p>>
<1> USE TerminalAssumption
<1> DEFINE xp == x \o <<p>>
           tp == t \o <<p>>
<1>1. /\ x \in Seq(Nat) /\ Len(x) \in Nat /\ Len(x) <= TextLimit
      /\ xp \in Seq(Nat) /\ tp \in Seq(Nat) /\ Len(xp) = Len(x) + 1
  BY DEF Buffers
<1>2. Ends(xp, tp)
  BY <1>1, EndsGrows
<1>3. Len(x) < TextLimit => xp = tp
  OBVIOUS
<1> HIDE DEF xp, tp
<1>4. /\ Bounded(xp) \in Seq(Nat) /\ Ends(Bounded(xp), xp)
      /\ Len(xp) <= TextLimit => Bounded(xp) = xp
      /\ Len(xp) > TextLimit => Len(Bounded(xp)) = TextLimit
  BY <1>1, BoundedText DEF Buffers
<1>5. Ends(Bounded(xp), tp)
  BY <1>1, <1>2, <1>4, EndsTransitive
<1>6. Len(Bounded(xp)) < TextLimit => Bounded(xp) = tp
  BY <1>1, <1>3, <1>4
<1> QED BY <1>5, <1>6 DEF xp, tp

TextsTypeOK ==
    /\ texts \in [TerminalIds -> Buffers \cup {NoText}]
    /\ records \in [TerminalIds -> Buffers \cup {NoText}]
    /\ restoring \in [TerminalIds -> Buffers \cup {NoText}]
    /\ storing \in [TerminalIds -> Seq(Buffers)]
    /\ transcript \in [TerminalIds -> Seq(Nat)]
    /\ screen \in Seq(Nat) /\ onScreen \in TerminalIds \cup {NoText}
    /\ pieces \in Nat

\* A session without a buffer has nothing to write, and neither its record nor
\* what was read of it has changed since the page was loaded.
Unread(s) ==
    texts[s] = NoText =>
        /\ s \notin due /\ storing[s] = <<>>
        /\ s \notin torn \cup erased =>
              /\ transcript[s] = TextOf(records[s])
              /\ restoring[s] # NoText => restoring[s] = transcript[s]

\* The buffer of a session is the end of its output; what is written last is
\* the buffer.
TextFollows(s) ==
    texts[s] # NoText /\ s \notin torn \cup erased =>
        /\ Ends(texts[s], transcript[s])
        /\ Len(texts[s]) < TextLimit => texts[s] = transcript[s]
LastIsWritten(s) ==
    texts[s] # NoText /\ s \notin torn \cup erased /\ s \notin due =>
        IF storing[s] = <<>> THEN s \in unsaved \/ TextOf(records[s]) = texts[s]
        ELSE storing[s][Len(storing[s])] = texts[s]

ScreenFollows ==
    onScreen # NoText /\ ~strayed => Ends(TextOf(texts[onScreen]), screen)

SessionHolds(s) == Unread(s) /\ TextFollows(s) /\ LastIsWritten(s)
TextsInv == TextsTypeOK /\ ScreenFollows /\ \A s \in TerminalIds : SessionHolds(s)

LEMMA TextsSound == ASSUME TextsInv PROVE TerminalSound
<1> USE TerminalAssumption
<1>1. BufferIsTheEnd
  <2> SUFFICES ASSUME NEW s \in TerminalIds, s \notin torn \cup erased, texts[s] # NoText
               PROVE  /\ IsSuffix(texts[s], transcript[s])
                      /\ Len(texts[s]) < TextLimit => texts[s] = transcript[s]
    BY DEF BufferIsTheEnd
  <2>1. /\ Ends(texts[s], transcript[s])
        /\ Len(texts[s]) < TextLimit => texts[s] = transcript[s]
    BY DEF TextsInv, SessionHolds, TextFollows
  <2>2. texts[s] \in Seq(Nat) /\ transcript[s] \in Seq(Nat)
    BY DEF TextsInv, TextsTypeOK, Buffers
  <2> QED BY <2>1, <2>2, EndsIsSuffix
<1>2. RecordCatchesUp
  BY DEF TextsInv, SessionHolds, LastIsWritten, RecordCatchesUp
<1>3. ScreenIsTheSession
  <2> SUFFICES ASSUME onScreen # NoText, ~strayed PROVE IsSuffix(TextOf(texts[onScreen]), screen)
    BY DEF ScreenIsTheSession
  <2>1. onScreen \in TerminalIds /\ screen \in Seq(Nat)
    BY DEF TextsInv, TextsTypeOK
  <2>2. TextOf(texts[onScreen]) \in Seq(Nat)
    BY <2>1 DEF TextsInv, TextsTypeOK, TextOf, Buffers
  <2> QED BY <2>1, <2>2, EndsIsSuffix DEF TextsInv, ScreenFollows
<1> QED BY <1>1, <1>2, <1>3 DEF TerminalSound

LEMMA EmptyBuffer == <<>> \in Buffers /\ \A x \in Buffers \cup {NoText} : TextOf(x) \in Buffers
BY TerminalAssumption DEF Buffers, TextOf

LEMMA TextsStart == TerminalInit => TextsInv
<1> SUFFICES ASSUME TerminalInit PROVE TextsInv
  OBVIOUS
<1>1. TextsTypeOK
  BY DEF TerminalInit, TextsTypeOK, Nobody
<1> QED BY <1>1 DEF TerminalInit, TextsInv, Nobody, ScreenFollows, SessionHolds, Unread,
           TextFollows, LastIsWritten, TextOf

\* Nothing a session is judged by changes.
Same(s) ==
    /\ texts'[s] = texts[s] /\ records'[s] = records[s] /\ transcript'[s] = transcript[s]
    /\ storing'[s] = storing[s] /\ restoring'[s] = restoring[s]
    /\ s \in due' <=> s \in due
    /\ s \in torn => s \in torn'
    /\ s \in erased => s \in erased'
    /\ s \in unsaved => s \in unsaved'

LEMMA SameHolds == ASSUME NEW s, SessionHolds(s), Same(s) PROVE SessionHolds(s)'
BY DEF SessionHolds, Unread, TextFollows, LastIsWritten, Same

LEMMA OutputKeeps == ASSUME TextsInv, NEW s \in TerminalIds, Output(s) PROVE TextsInv'
<1> USE TerminalAssumption
<1> DEFINE p == pieces + 1
           x == TextOf(texts[s])
           t == transcript[s]
<1>1. /\ texts' = [texts EXCEPT ![s] = Bounded(x \o <<p>>)]
      /\ screen' = IF onScreen = s THEN screen \o <<p>> ELSE screen
      /\ transcript' = [transcript EXCEPT ![s] = t \o <<p>>]
      /\ due' = due \cup {s}
      /\ torn' = IF texts[s] = NoText /\ (records[s] # NoText \/ restoring[s] # NoText)
                 THEN torn \cup {s} ELSE torn
      /\ pieces' = p
      /\ UNCHANGED <<records, storing, restoring, onScreen, unsaved, erased, strayed>>
  BY DEF Output
<1>2. /\ texts \in [TerminalIds -> Buffers \cup {NoText}] /\ x \in Buffers /\ x \in Seq(Nat)
      /\ t \in Seq(Nat) /\ screen \in Seq(Nat) /\ p \in Nat
  BY EmptyBuffer DEF TextsInv, TextsTypeOK, Buffers
<1> HIDE DEF p, x, t
<1>3. x \o <<p>> \in Seq(Nat) /\ t \o <<p>> \in Seq(Nat) /\ screen \o <<p>> \in Seq(Nat)
  BY <1>2, PieceAdded
<1> DEFINE c == Bounded(x \o <<p>>)
<1>4. c \in Buffers /\ c \in Seq(Nat) /\ c # NoText /\ Ends(c, x \o <<p>>)
  <2>1. c \in Buffers /\ Ends(c, x \o <<p>>)
    BY <1>3, BoundedText
  <2> QED BY <2>1 DEF Buffers
<1>5. texts'[s] = c /\ transcript'[s] = t \o <<p>> /\ s \in due'
  BY <1>1, <1>2 DEF TextsInv, TextsTypeOK
<1>6. TextsTypeOK'
  BY <1>1, <1>2, <1>3, <1>4 DEF TextsInv, TextsTypeOK
<1>7. ScreenFollows'
  <2>1. CASE onScreen = s /\ ~strayed
    <3>1. Ends(x, screen)
      BY <2>1 DEF TextsInv, ScreenFollows, x, TextsTypeOK
    <3>2. Ends(x \o <<p>>, screen \o <<p>>)
      BY <1>2, <3>1, EndsGrows
    <3>3. Ends(c, screen \o <<p>>)
      BY <1>3, <1>4, <3>2, EndsTransitive
    <3> HIDE DEF c
    <3> QED BY <1>1, <1>4, <1>5, <2>1, <3>3 DEF ScreenFollows, TextOf
  <2>2. CASE onScreen # s /\ ~strayed
    <3>1. onScreen # NoText => texts'[onScreen] = texts[onScreen]
      BY <1>1, <1>2, <2>2 DEF TextsInv, TextsTypeOK
    <3> QED BY <1>1, <2>2, <3>1 DEF TextsInv, ScreenFollows, TextOf
  <2>3. CASE strayed
    BY <1>1, <2>3 DEF ScreenFollows
  <2> QED BY <2>1, <2>2, <2>3
<1>8. SessionHolds(s)'
  <2>1. ASSUME s \notin torn' \cup erased' PROVE x = t \/ (Ends(x, t) /\ (Len(x) < TextLimit => x = t))
    <3>1. s \notin torn \cup erased
      BY <1>1, <2>1
    <3>2. CASE texts[s] = NoText
      <4>1. records[s] = NoText
        BY <1>1, <2>1, <3>2
      <4> QED BY <3>1, <3>2, <4>1 DEF TextsInv, SessionHolds, Unread, TextOf, x, t
    <3>3. CASE texts[s] # NoText
      BY <3>1, <3>3 DEF TextsInv, SessionHolds, TextFollows, TextOf, x, t
    <3> QED BY <3>2, <3>3
  <2>2. s \notin torn' \cup erased' => Ends(x, t) /\ (Len(x) < TextLimit => x = t)
    BY <1>2, <2>1, EndsWhole
  <2>3. s \notin torn' \cup erased' => Ends(c, t \o <<p>>) /\ (Len(c) < TextLimit => c = t \o <<p>>)
    BY <1>2, <2>2, BufferGrows
  <2> HIDE DEF c
  <2> QED BY <1>4, <1>5, <2>3 DEF SessionHolds, Unread, TextFollows, LastIsWritten
<1>9. ASSUME NEW q \in TerminalIds, q # s PROVE SessionHolds(q)'
  <2>1. Same(q)
    BY <1>1, <1>2, <1>9 DEF Same, TextsInv, TextsTypeOK
  <2> QED BY <2>1, SameHolds DEF TextsInv
<1> QED BY <1>6, <1>7, <1>8, <1>9 DEF TextsInv

\* What is due is written behind what waits.
LEMMA WritesQueue ==
    ASSUME TextsInv, NEW S, S \subseteq due, Persisted(S),
           UNCHANGED <<records, texts, restoring, onScreen, screen, unsaved, pieces,
                       transcript, torn, erased, strayed>>
    PROVE  TextsInv'
<1> USE TerminalAssumption
<1>1. /\ storing \in [TerminalIds -> Seq(Buffers)]
      /\ \A s \in TerminalIds : TextOf(texts[s]) \in Buffers
  BY EmptyBuffer DEF TextsInv, TextsTypeOK
<1>2. storing' \in [TerminalIds -> Seq(Buffers)]
  BY <1>1 DEF Persisted
<1>3. TextsTypeOK'
  BY <1>2 DEF TextsInv, TextsTypeOK
<1>4. ScreenFollows'
  BY DEF TextsInv, ScreenFollows
<1>5. ASSUME NEW s \in TerminalIds, s \notin S PROVE SessionHolds(s)'
  <2>1. Same(s)
    BY <1>5 DEF Same, Persisted
  <2> QED BY <2>1, SameHolds DEF TextsInv
<1>6. ASSUME NEW s \in TerminalIds, s \in S PROVE SessionHolds(s)'
  <2>1. texts[s] # NoText
    BY <1>6 DEF TextsInv, SessionHolds, Unread
  <2>2. storing'[s] = Append(storing[s], texts[s]) /\ storing[s] \in Seq(Buffers) /\ texts[s] \in Buffers
    BY <1>1, <1>6, <2>1 DEF Persisted, TextOf
  <2>3. storing'[s] # <<>> /\ storing'[s][Len(storing'[s])] = texts[s]
    BY <2>2
  <2>4. Unread(s)' /\ LastIsWritten(s)'
    BY <2>1, <2>3 DEF Unread, LastIsWritten
  <2>5. TextFollows(s)'
    BY <1>6 DEF TextsInv, SessionHolds, TextFollows
  <2> QED BY <2>4, <2>5 DEF SessionHolds
<1> QED BY <1>3, <1>4, <1>5, <1>6 DEF TextsInv

LEMMA HistoryWrittenKeeps == ASSUME TextsInv, NEW s \in TerminalIds, HistoryWritten(s) PROVE TextsInv'
<1> USE TerminalAssumption
<1> DEFINE w == storing[s]
<1>1. /\ w # <<>> /\ restoring[s] = NoText
      /\ storing' = [storing EXCEPT ![s] = RemoveAt(w, 1)]
      /\ \/ records' = [records EXCEPT ![s] = w[1]] /\ unsaved' = unsaved \ {s}
         \/ records' = records /\ unsaved' = unsaved \cup {s}
      /\ UNCHANGED <<texts, due, restoring, onScreen, screen, pieces, transcript, torn,
                     erased, strayed>>
  BY DEF HistoryWritten, turnToWrite
<1>2. w \in Seq(Buffers) /\ storing \in [TerminalIds -> Seq(Buffers)]
  BY DEF TextsInv, TextsTypeOK
<1> HIDE DEF w
<1>3. RemoveAt(w, 1) = Tail(w)
  <2>1. RemoveAt(w, 1) = SubSeq(w, 1, 0) \o SubSeq(w, 2, Len(w))
    BY DEF RemoveAt
  <2>2. SubSeq(w, 1, 0) = <<>> /\ SubSeq(w, 2, Len(w)) = Tail(w) /\ Tail(w) \in Seq(Buffers)
    BY <1>1, <1>2
  <2> QED BY <2>1, <2>2
<1>4. /\ Tail(w) \in Seq(Buffers) /\ w[1] \in Buffers
      /\ Tail(w) = <<>> => Len(w) = 1
      /\ Tail(w) # <<>> => Tail(w)[Len(Tail(w))] = w[Len(w)]
  <2>1. /\ Len(w) \in Nat \ {0} /\ w[1] \in Buffers
        /\ Tail(w) \in Seq(Buffers) /\ Len(Tail(w)) = Len(w) - 1
        /\ \A i \in 1..(Len(w) - 1) : Tail(w)[i] = w[i + 1]
    BY <1>1, <1>2
  <2> DEFINE u == Tail(w)
  <2>2. u \in Seq(Buffers) /\ Len(u) = Len(w) - 1 /\ \A i \in 1..(Len(w) - 1) : u[i] = w[i + 1]
    BY <2>1
  <2> HIDE DEF u
  <2>5. u = <<>> <=> Len(u) = 0
    BY <2>2, EmptySeq, Zenon
  <2>3. u = <<>> => Len(w) = 1
    <3>1. Len(w) \in Nat /\ Len(u) = Len(w) - 1
      BY <2>1, <2>2
    <3>2. Len(u) = 0 => Len(w) = 1
      BY <3>1
    <3> QED BY <2>5, <3>2, Zenon
  <2>4. u # <<>> => Len(u) \in 1..(Len(w) - 1) /\ Len(u) + 1 = Len(w)
    BY <2>1, <2>2, <2>5
  <2> QED BY <2>1, <2>2, <2>3, <2>4 DEF u
<1>5. storing'[s] = Tail(w) /\ storing' \in [TerminalIds -> Seq(Buffers)]
  BY <1>1, <1>2, <1>3, <1>4
<1>6. TextsTypeOK'
  <2>1. records' \in [TerminalIds -> Buffers \cup {NoText}]
    BY <1>1, <1>4 DEF TextsInv, TextsTypeOK
  <2> QED BY <1>1, <1>5, <2>1 DEF TextsInv, TextsTypeOK
<1>7. ScreenFollows'
  BY <1>1 DEF TextsInv, ScreenFollows
<1>8. texts[s] # NoText
  BY <1>1 DEF TextsInv, SessionHolds, Unread, w
<1>9. SessionHolds(s)'
  <2>1. Unread(s)' /\ TextFollows(s)'
    BY <1>1, <1>8 DEF TextsInv, SessionHolds, Unread, TextFollows
  <2>2. LastIsWritten(s)'
    <3> SUFFICES ASSUME s \notin torn \cup erased, s \notin due
                 PROVE  IF Tail(w) = <<>> THEN s \in unsaved' \/ TextOf(records'[s]) = texts[s]
                        ELSE Tail(w)[Len(Tail(w))] = texts[s]
      BY <1>1, <1>5 DEF LastIsWritten
    <3>1. w[Len(w)] = texts[s]
      BY <1>1, <1>8 DEF TextsInv, SessionHolds, LastIsWritten, w
    <3>2. CASE Tail(w) # <<>>
      BY <1>4, <3>1, <3>2
    <3>3. CASE Tail(w) = <<>> /\ records' = [records EXCEPT ![s] = w[1]]
      <4>1. records'[s] = texts[s]
        BY <1>4, <3>1, <3>3 DEF TextsInv, TextsTypeOK
      <4> QED BY <1>8, <3>3, <4>1 DEF TextOf
    <3>4. CASE Tail(w) = <<>> /\ unsaved' = unsaved \cup {s}
      BY <3>4
    <3> QED BY <1>1, <3>2, <3>3, <3>4
  <2> QED BY <2>1, <2>2 DEF SessionHolds
<1>10. ASSUME NEW q \in TerminalIds, q # s PROVE SessionHolds(q)'
  <2>1. Same(q)
    BY <1>1, <1>2, <1>10 DEF Same, TextsInv, TextsTypeOK
  <2> QED BY <2>1, SameHolds DEF TextsInv
<1> QED BY <1>6, <1>7, <1>9, <1>10 DEF TextsInv

LEMMA ShowKeeps == ASSUME TextsInv, NEW s \in TerminalIds, Show(s) PROVE TextsInv'
<1> USE TerminalAssumption
<1>1. /\ s \notin erased
      /\ onScreen' = s /\ screen' = TextOf(texts[s])
      /\ restoring' = IF texts[s] = NoText
                      THEN [restoring EXCEPT ![s] = TextOf(records[s])] ELSE restoring
      /\ UNCHANGED <<records, texts, due, storing, unsaved, pieces, transcript, torn, erased>>
  BY DEF Show, shownText
<1>2. /\ TextOf(texts[s]) \in Buffers /\ TextOf(records[s]) \in Buffers /\ TextOf(texts[s]) \in Seq(Nat)
      /\ \A q \in TerminalIds : restoring'[q] = IF q = s /\ texts[s] = NoText
                                                THEN TextOf(records[s]) ELSE restoring[q]
      /\ restoring' \in [TerminalIds -> Buffers \cup {NoText}]
  <2>1. TextOf(texts[s]) \in Buffers /\ TextOf(records[s]) \in Buffers
    BY EmptyBuffer DEF TextsInv, TextsTypeOK
  <2> QED BY <1>1, <2>1 DEF TextsInv, TextsTypeOK, Buffers
<1>3. TextsTypeOK'
  BY <1>1, <1>2 DEF TextsInv, TextsTypeOK
<1>4. ScreenFollows'
  BY <1>1, <1>2, EndsWhole DEF ScreenFollows
<1>5. ASSUME NEW q \in TerminalIds PROVE SessionHolds(q)'
  <2>1. Unread(q)'
    BY <1>1, <1>2 DEF TextsInv, SessionHolds, Unread
  <2> QED BY <1>1, <2>1 DEF TextsInv, SessionHolds, TextFollows, LastIsWritten
<1> QED BY <1>3, <1>4, <1>5 DEF TextsInv

LEMMA RestoredKeeps == ASSUME TextsInv, NEW s \in TerminalIds, Restored(s) PROVE TextsInv'
<1> USE TerminalAssumption
<1> DEFINE c == restoring[s]
<1>0. c \in Buffers /\ c \in Seq(Nat) /\ Bounded(c) = c /\ c # NoText
  <2>1. c \in Buffers /\ c \in Seq(Nat) /\ Len(c) <= TextLimit
    BY DEF Restored, TextsInv, TextsTypeOK, Buffers
  <2> QED BY <2>1, BoundedText DEF Restored
<1>1. /\ texts' = [texts EXCEPT ![s] = c]
      /\ screen' = IF c # <<>> THEN c ELSE screen
      /\ torn' = IF texts[s] # NoText THEN torn \cup {s} ELSE torn
      /\ strayed \/ (c # <<>> /\ s # onScreen) => strayed'
      /\ restoring' = [restoring EXCEPT ![s] = NoText]
      /\ UNCHANGED <<records, due, storing, onScreen, unsaved, pieces, transcript, erased>>
  BY <1>0 DEF Restored
<1> HIDE DEF c
<1>2. TextsTypeOK'
  BY <1>0, <1>1 DEF TextsInv, TextsTypeOK
<1>3. texts'[s] = c /\ \A q \in TerminalIds : q # s => texts'[q] = texts[q]
  BY <1>1 DEF TextsInv, TextsTypeOK
<1>4. ScreenFollows'
  <2> SUFFICES ASSUME onScreen # NoText, ~strayed' PROVE Ends(TextOf(texts'[onScreen]), screen')
    BY <1>1 DEF ScreenFollows
  <2>1. onScreen \in TerminalIds /\ screen \in Seq(Nat)
    BY DEF TextsInv, TextsTypeOK
  <2>2. CASE onScreen = s /\ c # <<>>
    BY <1>0, <1>1, <1>3, <2>2, EndsWhole DEF TextOf
  <2>3. CASE onScreen = s /\ c = <<>>
    BY <1>0, <1>1, <1>3, <2>1, <2>3, EndsWhole DEF TextOf
  <2>4. CASE onScreen # s
    BY <1>1, <1>3, <2>1, <2>4 DEF TextsInv, ScreenFollows, TextOf
  <2> QED BY <2>2, <2>3, <2>4
<1>5. SessionHolds(s)'
  <2>1. CASE texts[s] # NoText
    BY <1>0, <1>1, <1>3, <2>1 DEF SessionHolds, Unread, TextFollows, LastIsWritten
  <2>2. CASE texts[s] = NoText /\ s \notin torn \cup erased
    <3>1. c = transcript[s] /\ c = TextOf(records[s]) /\ storing[s] = <<>>
      BY <1>0, <2>2 DEF TextsInv, SessionHolds, Unread, c
    <3>2. Ends(c, c)
      BY <1>0, EndsWhole
    <3> QED BY <1>0, <1>1, <1>3, <3>1, <3>2 DEF SessionHolds, Unread, TextFollows, LastIsWritten
  <2>3. CASE s \in torn \cup erased
    BY <1>0, <1>1, <1>3, <2>3 DEF SessionHolds, Unread, TextFollows, LastIsWritten
  <2> QED BY <2>1, <2>2, <2>3
<1>6. ASSUME NEW q \in TerminalIds, q # s PROVE SessionHolds(q)'
  <2>1. Same(q)
    BY <1>1, <1>3, <1>6 DEF Same, TextsInv, TextsTypeOK
  <2> QED BY <2>1, SameHolds DEF TextsInv
<1> QED BY <1>2, <1>4, <1>5, <1>6 DEF TextsInv

LEMMA EraseKeeps == ASSUME TextsInv, NEW s \in TerminalIds, Erase(s) PROVE TextsInv'
<1> USE TerminalAssumption
<1>1. /\ erased' = erased \cup {s} /\ records' = [records EXCEPT ![s] = NoText]
      /\ onScreen' = IF onScreen = s THEN NoText ELSE onScreen
      /\ screen' = IF onScreen = s THEN <<>> ELSE screen
      /\ UNCHANGED <<texts, due, storing, restoring, unsaved, pieces, transcript, torn, strayed>>
  BY DEF Erase
<1>2. TextsTypeOK'
  BY <1>1 DEF TextsInv, TextsTypeOK
<1>3. ScreenFollows'
  BY <1>1 DEF TextsInv, ScreenFollows
<1>4. SessionHolds(s)'
  BY <1>1 DEF TextsInv, SessionHolds, Unread, TextFollows, LastIsWritten
<1>5. ASSUME NEW q \in TerminalIds, q # s PROVE SessionHolds(q)'
  <2>1. Same(q)
    BY <1>1, <1>5 DEF Same, TextsInv, TextsTypeOK
  <2> QED BY <2>1, SameHolds DEF TextsInv
<1> QED BY <1>2, <1>3, <1>4, <1>5 DEF TextsInv

LEMMA ReloadPageKeeps == ASSUME TextsInv, ReloadPage PROVE TextsInv'
<1> USE TerminalAssumption
<1>1. \A s \in TerminalIds : TextOf(records[s]) \in Seq(Nat)
  BY EmptyBuffer DEF TextsInv, TextsTypeOK, Buffers
<1>2. TextsTypeOK'
  BY <1>1 DEF ReloadPage, Nobody, TextsInv, TextsTypeOK
<1> QED BY <1>2 DEF ReloadPage, Nobody, TextsInv, ScreenFollows, SessionHolds, Unread,
           TextFollows, LastIsWritten

LEMMA TextsStep == TextsInv /\ [TerminalNext]_terminalVars => TextsInv'
<1> SUFFICES ASSUME TextsInv, [TerminalNext]_terminalVars PROVE TextsInv'
  OBVIOUS
<1>1. ASSUME NEW s \in TerminalIds, Timer(s) PROVE TextsInv'
  <2>1. /\ {s} \subseteq due /\ Persisted({s})
        /\ UNCHANGED <<records, texts, restoring, onScreen, screen, unsaved, pieces,
                       transcript, torn, erased, strayed>>
    BY <1>1 DEF Timer
  <2> QED BY <2>1, WritesQueue
<1>2. ASSUME FlushAll PROVE TextsInv'
  <2>1. /\ Persisted(due)
        /\ UNCHANGED <<records, texts, restoring, onScreen, screen, unsaved, pieces,
                       transcript, torn, erased, strayed>>
    BY <1>2 DEF FlushAll, flushedTimers
  <2> QED BY <2>1, WritesQueue
<1>3. CASE UNCHANGED terminalVars
  BY <1>3 DEF terminalVars, TextsInv, TextsTypeOK, ScreenFollows, SessionHolds, Unread,
              TextFollows, LastIsWritten
<1> QED BY <1>1, <1>2, <1>3, OutputKeeps, HistoryWrittenKeeps, ShowKeeps, RestoredKeeps,
           EraseKeeps, ReloadPageKeeps DEF TerminalNext

\* Over any number of sessions, pieces of output, reloads and failed writes:
\* the buffer of a session is the end of its output, the record catches up with
\* it, and the terminal ends with the buffer of the session it shows.
\* (agentTerminalBuffer.ts, AgentTerminalPanel.tsx)
THEOREM TerminalStaysSound == TerminalSpec => []TerminalSound
<1>1. TerminalInit => TextsInv
  BY TextsStart
<1>2. TextsInv /\ [TerminalNext]_terminalVars => TextsInv'
  BY TextsStep
<1>3. TextsInv => TerminalSound
  BY TextsSound
<1> QED BY <1>1, <1>2, <1>3, PTL DEF TerminalSpec
=============================================================================
