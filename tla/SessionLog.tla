----------------------------- MODULE SessionLog -----------------------------
(***************************************************************************)
(* The runs of a session (PiRuns) and the pi session of its conversation:  *)
(* a log of entries in IndexedDB, each under a number and naming the entry *)
(* before it.  Every PiSession opens the log for itself: it replays it,    *)
(* keeps its length and its leaf in memory and puts the entries of its run *)
(* behind them.  SessionStorage has one such instance in detail; here are  *)
(* the instances of several runs over one log.                             *)
(***************************************************************************)
EXTENDS PiRuns

CONSTANTS
  MaxEntries,   \* bound: past so many entries a run calls no more tools
  MaxFaults     \* bound: rejected puts and reloads, together

ASSUME LogAssumption == MaxEntries \in Nat /\ MaxFaults \in Nat

VARIABLES
  log,        \* the entries on disk
  mem,        \* per instance: length and leaf of the log it knows
  answers,    \* assistant messages of a run that are not put yet
  wrote,      \* entries a run has put
  overlap,    \* history: two instances were open at once
  faults

logs == <<log, mem, answers, wrote, overlap, faults>>
vars == <<runs, logs>>

Root == <<>>
Id == Run \X Nat
Replays(l) == \A i \in 1..Len(l) : l[i].parent = IF i = 1 THEN Root ELSE l[i - 1].id
leafOf(l) == IF l = <<>> THEN Root ELSE l[Len(l)].id

\* What an earlier page left: nothing, or a log two instances wrote over one
\* another: TLC refutes LogReplays with one.
Crossed(r) == <<[id |-> <<r, 1>>, parent |-> Root], [id |-> <<r, 3>>, parent |-> <<r, 2>>]>>

Init ==
  /\ RunsInit
  /\ log \in {<<>>} \cup {Crossed(r) : r \in Old}
  /\ mem = [r \in Run |-> [len |-> 0, leaf |-> Root]]
  /\ answers = [r \in Run |-> 0]
  /\ wrote = [r \in Run |-> 0]
  /\ overlap = (log # <<>>)
  /\ faults = 0

Quiet(A) == A /\ UNCHANGED logs

-----------------------------------------------------------------------------
(* putMutation and its application to the memory of the instance *)

entryOf(r) == [id |-> <<r, wrote[r] + 1>>, parent |-> mem[r].leaf]

\* The entry goes under the number that follows those in memory, over whatever
\* is stored there.
Put(r) ==
  /\ log' = IF mem[r].len < Len(log) THEN [log EXCEPT ![mem[r].len + 1] = entryOf(r)]
                                     ELSE Append(log, entryOf(r))
  /\ mem' = [mem EXCEPT ![r] = [len |-> @.len + 1, leaf |-> entryOf(r).id]]
  /\ wrote' = [wrote EXCEPT ![r] = @ + 1]

\* Mutant: the memory takes the entry though the put was rejected.
PutAhead(r) ==
  /\ mem' = [mem EXCEPT ![r] = [len |-> @.len, leaf |-> entryOf(r).id]]
  /\ wrote' = [wrote EXCEPT ![r] = @ + 1]
  /\ UNCHANGED log

\* The put is rejected: the memory of the instance stays as it was.
PutRejected(r) == UNCHANGED <<log, mem, wrote>>

Fault == faults < MaxFaults /\ faults' = faults + 1

\* runCompaction appended a summary of a log that is not empty, or found
\* nothing to do, or failed.
MayCompact(r) ==
  \/ mem[r].len > 0 /\ wrote[r] + 1 < MaxEntries /\ Put(r)
  \/ UNCHANGED <<log, mem, wrote>>

-----------------------------------------------------------------------------
(* A run, step by step, with what it puts. *)

Launch(r) ==
  \/ Quiet(Submit(r)) \/ Quiet(Resume(r))
  \/ Quiet(ResumeLaunches(r)) \/ Quiet(ResumeFails(r))
  \/ Quiet(DriverCreated(r)) \/ Quiet(DriverFails(r))

\* Mutant: an instance starts behind the entries it knew of before it opened.
OpensEmpty(r) ==
  /\ Replays(log)
  /\ Passes(r, "opening", "compacting")
  /\ overlap' = (overlap \/ executions \ {r} # {})
  /\ UNCHANGED <<log, mem, answers, wrote, faults>>

\* openOrCreate replayed the log, and seedHistory took it over.
Opens(r) ==
  /\ Replays(log)
  /\ Passes(r, "opening", "compacting")
  /\ mem' = [mem EXCEPT ![r] = [len |-> Len(log), leaf |-> leafOf(log)]]
  /\ overlap' = (overlap \/ executions \ {r} # {})
  /\ UNCHANGED <<log, answers, wrote, faults>>

\* A log that does not replay is rejected.
OpenFails(r) == ~Replays(log) /\ Quiet(Throws(r, "opening"))

Compacts(r) ==
  /\ Passes(r, "compacting", "storing")
  /\ MayCompact(r)
  /\ UNCHANGED <<answers, overlap, faults>>

\* appendUserMessage, before the agent starts.
StoresMessage(r) ==
  /\ Starts(r)
  /\ Put(r)
  /\ UNCHANGED <<answers, overlap, faults>>

StoreFails(r) ==
  /\ Throws(r, "storing")
  /\ PutRejected(r)
  /\ Fault
  /\ UNCHANGED <<answers, overlap>>

\* message_end of an answer: persistEvent puts it, and the loop goes on.
Answered(r) ==
  /\ answers' = [answers EXCEPT ![r] = @ + 1]
  /\ UNCHANGED <<log, mem, wrote, overlap, faults>>

Answers(r) ==
  \/ wrote[r] + 1 < MaxEntries /\ ModelCallsTools(r) /\ Answered(r)
  \/ ModelStops(r) /\ Answered(r)
  \/ \E reason \in {"aborted", "error"} : ModelBreaks(r, reason) /\ Answered(r)

ToolsOver(r) ==
  \E s \in {"none", "completed", "awaiting_user"} : Quiet(ToolsEnd(r, s))

\* compactForNextTurn waits for the puts, then may append a summary.
Continues(r) ==
  /\ answers[r] = 0
  /\ NextTurn(r)
  /\ MayCompact(r)
  /\ UNCHANGED <<answers, overlap, faults>>

\* Mutant: prompt returns before the answers are put.
ReturnsAtOnce(r) == Quiet(Returns(r))

Flushed(r) == answers[r] = 0 /\ Quiet(Returns(r))

\* persistEvent, best effort.
Lands(r) ==
  /\ answers[r] > 0
  /\ answers' = [answers EXCEPT ![r] = @ - 1]
  /\ Put(r)
  /\ UNCHANGED <<runs, overlap, faults>>

IsLost(r) ==
  /\ answers[r] > 0
  /\ answers' = [answers EXCEPT ![r] = @ - 1]
  /\ PutRejected(r)
  /\ Fault
  /\ UNCHANGED <<runs, overlap>>

-----------------------------------------------------------------------------
(* The page: the runs that it finds and that did not end are interrupted. *)

ShowSession ==
  /\ \E r \in Run : phase[r] = "none" /\ (r \in Old \/ stage[r] = "gone")
  /\ Quiet(Shows([r \in Run |->
       IF r \in Old \/ stage[r] = "gone" THEN "interrupted" ELSE "none"]))

Reload ==
  /\ PageGone
  /\ Fault
  /\ answers' = [r \in Run |-> 0]
  /\ UNCHANGED <<log, mem, wrote, overlap>>

Next ==
  \/ \E r \in Run :
       \/ Launch(r) \/ Opens(r) \/ OpenFails(r) \/ Compacts(r)
       \/ StoresMessage(r) \/ StoreFails(r)
       \/ Answers(r) \/ ToolsOver(r) \/ Continues(r)
       \/ Quiet(AgentEnd(r)) \/ Flushed(r)
       \/ Lands(r) \/ IsLost(r)
       \/ Quiet(Guide(r))
  \/ Quiet(StopTask) \/ ShowSession \/ Reload

Spec == Init /\ [][Next]_vars

-----------------------------------------------------------------------------
TypeOK ==
  /\ RunsTypeOK
  /\ log \in Seq([id : Id, parent : {Root} \cup Id])
  /\ mem \in [Run -> [len : Nat, leaf : {Root} \cup Id]]
  /\ answers \in [Run -> Nat]
  /\ wrote \in [Run -> Nat]
  /\ overlap \in BOOLEAN
  /\ faults \in 0..MaxFaults

\* The instances that may still put an entry.
writers == {r \in Run : stage[r] \in Live \ {"opening"}}

\* As long as no two instances were open at once there is one writer, it knows
\* all of the log, and nothing of a run that ended is still to be put.
IInv ==
  /\ TypeOK
  /\ ~overlap =>
       /\ Replays(log)
       /\ \A r, q \in writers : r = q
       /\ \A r \in writers : mem[r] = [len |-> Len(log), leaf |-> leafOf(log)]
       /\ \A r \in Run : r \notin writers \/ stage[r] \in {"compacting", "storing"}
                            => answers[r] = 0

\* Whatever is stopped, rejected, guided or reloaded, the conversation opens
\* again, unless two instances of it were open at once.
ConversationIntact == ~overlap => Replays(log)

\* The log only grows, unless two instances of it were open at once.
AppendOnly ==
  [][~overlap => Len(log) <= Len(log') /\ SubSeq(log', 1, Len(log)) = log]_vars

\* The conversation is intact and its log only grows.
LogSound == []ConversationIntact /\ AppendOnly

\* The log replays when the session is opened again.
LogReplays == Replays(log)
=============================================================================
