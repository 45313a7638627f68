----------------------------- MODULE UserTerminal ----------------------------
(***************************************************************************)
(* userTerminalSession.ts over the requests of SuccinixRpc: the terminal   *)
(* of each container and the agent share one client.                       *)
(*                                                                         *)
(* A session has at most one call under way: the pings and the probes of   *)
(* its boot, then one line after the other.  What is entered meanwhile is  *)
(* queued.  Switching to another container disposes the session; its call  *)
(* in the chain stays there.  Editing of a line and the commands the       *)
(* browser answers itself (help, clear, pwd) are left out.                 *)
(***************************************************************************)
EXTENDS SuccinixRpc

CONSTANTS
  Probes,       \* of runSelfCheck; in the code <<"ask", "run", "ask", "ask">>
  Shown,        \* bound: the containers whose terminal is opened
  MaxLines,     \* bound: lines entered in one session
  MaxAgentCalls \* bound: calls of the agent

ASSUME ProbesAssumption == Probes \in Seq({"ask", "run"}) /\ Probes # <<>>

VARIABLES
  term,         \* the session of each container
  agentCalls

vars == <<rpc, term, agentCalls>>

\* at: none, ping, probe, line, idle; probe: how many are over; lines: history
\* of the calls made for the lines entered, in order.
NoSession(b) ==
  [at |-> "none", probe |-> 0, cwd |-> Home(b), busy |-> FALSE, job |-> None,
   queue |-> <<>>, disposed |-> FALSE, typed |-> <<>>, sent |-> <<>>]

Init ==
  /\ RpcInit
  /\ term = [b \in Box |-> NoSession(b)] /\ agentCalls = 0

rest == <<requestId, cmdFile, results, envFile, host, started, failures>>

\* The session makes a call and awaits it.
awaits(b, kind, s) ==
  /\ Calls(kind, s.cwd)
  /\ term' = [term EXCEPT ![b] = [s EXCEPT !.job = Len(job) + 1, !.busy = TRUE]]
  /\ UNCHANGED <<rest, agentCalls>>

\* runCommand
runs(b, line, s) ==
  awaits(b, line, [s EXCEPT !.at = "line", !.sent = Append(@, line)])

\* Mutant: the line that was entered last goes first.
settlesLast(b, s) ==
  IF s.queue = <<>> \/ s.disposed
  THEN /\ term' = [term EXCEPT ![b] = [s EXCEPT !.at = "idle", !.busy = FALSE, !.job = None]]
       /\ UNCHANGED <<rpc, agentCalls>>
  ELSE LET n == Len(s.queue) IN
       runs(b, s.queue[n], [s EXCEPT !.queue = SubSeq(@, 1, n - 1)])

\* The end of boot and of runCommand: the next line of the queue, or the prompt.
settles(b, s) ==
  IF s.queue = <<>> \/ s.disposed
  THEN /\ term' = [term EXCEPT ![b] = [s EXCEPT !.at = "idle", !.busy = FALSE, !.job = None]]
       /\ UNCHANGED <<rpc, agentCalls>>
  ELSE runs(b, Head(s.queue), [s EXCEPT !.queue = Tail(@)])

\* The awaited call is over.
over(b) == term[b].job # None /\ job[term[b].job].at \in Settled
outcome(b) == job[term[b].job]

-----------------------------------------------------------------------------
\* spawnUserShell, then boot: the session is busy from the start.
Opens(b) ==
  /\ b \in Shown /\ term[b].at = "none"
  /\ \A c \in Box : term[c].at = "none" \/ term[c].disposed
  /\ awaits(b, "ask", [term[b] EXCEPT !.at = "ping"])

\* waitForHostReady: a ping that fails is repeated until the deadline.
PingEnds(b) ==
  /\ term[b].at = "ping" /\ over(b)
  /\ IF outcome(b).at = "answered"
     THEN awaits(b, Probes[1], [term[b] EXCEPT !.at = "probe", !.probe = 1])
     ELSE awaits(b, "ask", term[b]) \/ settles(b, term[b])

ProbeEnds(b) ==
  /\ term[b].at = "probe" /\ over(b)
  /\ LET n == term[b].probe + 1 IN
     IF n <= Len(Probes) THEN awaits(b, Probes[n], [term[b] EXCEPT !.probe = n])
     ELSE settles(b, term[b])

\* handleData, at the end of a line.
Enter(b, line) ==
  LET s == [term[b] EXCEPT !.typed = Append(@, line)] IN
  /\ term[b].at # "none" /\ ~term[b].disposed
  /\ Len(term[b].typed) < MaxLines
  /\ IF s.busy
     THEN /\ term' = [term EXCEPT ![b] = [s EXCEPT !.queue = Append(@, line)]]
          /\ UNCHANGED <<rpc, agentCalls>>
     ELSE runs(b, line, s)

\* execute is over: the prompt follows the directory that was answered.
LineEnds(b) ==
  /\ term[b].at = "line" /\ over(b)
  /\ settles(b, [term[b] EXCEPT !.cwd = IF outcome(b).cwd # <<>> THEN outcome(b).cwd ELSE @])

\* Another container is shown.
Dispose(b) ==
  /\ term[b].at # "none" /\ ~term[b].disposed
  /\ term' = [term EXCEPT ![b].disposed = TRUE, ![b].queue = <<>>]
  /\ UNCHANGED <<rpc, agentCalls>>

\* runShell, spawnBackground and the polling of the process table.
AgentCalls(kind, b) ==
  /\ agentCalls < MaxAgentCalls /\ agentCalls' = agentCalls + 1
  /\ Calls(kind, Home(b))
  /\ UNCHANGED <<rest, term>>

-----------------------------------------------------------------------------
Continues(b) == PingEnds(b) \/ ProbeEnds(b) \/ LineEnds(b)

Next ==
  \/ \E b \in Box :
       \/ Opens(b) \/ Continues(b) \/ Dispose(b)
       \/ \E line \in {"run", "cd"} : Enter(b, line)
       \/ \E kind \in {"run", "spawn", "ask"} : AgentCalls(kind, b)
  \/ ((\E j \in Job : Proceeds(j)) \/ HostAnswers \/ HostDies) /\ UNCHANGED <<term, agentCalls>>

Spec == Init /\ [][Next]_vars

\* The client goes on, and so does a host that lives; one that hangs for ever is
\* as good as dead, and then each deadline passes.
Fairness ==
  /\ \A j \in 1..MaxJobs : WF_vars(j \in Job /\ Proceeds(j) /\ UNCHANGED <<term, agentCalls>>)
  /\ WF_vars(HostAnswers /\ UNCHANGED <<term, agentCalls>>)
  /\ \A b \in Box : WF_vars(Continues(b))

FairSpec == Spec /\ Fairness

-----------------------------------------------------------------------------
\* A run before it was given up by the client while the host still has it.
givenUp(j) == \E i \in 1..(j - 1) : job[i].kind \in {"run", "cd"} /\ job[i].at = "failed"

\* A later call that wrote the environment though the file of the command could
\* not be replaced, nor removed.
overwritten(j, box) ==
  \E k \in Job : k > j /\ ~job[k].placed /\ job[k].env /\ box = job[k].dir[1]

\* Calls of several containers do not mix their contexts: a command starts in its
\* own directory, if the host took it and no abandoned run still moves the host,
\* and with its own environment, if that was written; one that was given up may
\* start that late that its environment is overwritten.
OwnContext ==
  \A n \in 1..Len(started) :
    LET e == started[n]  j == e.of IN
    /\ job[j].placed /\ ~givenUp(j) => e.cwd = job[j].dir
    /\ job[j].env => e.env = job[j].dir[1] \/ (e.late /\ overwritten(j, e.env))

\* A call is answered with the result of its own command, however late the
\* results of requests that were given up come.
AnswersOwn ==
  \A j \in Job : job[j].at = "answered" => job[j].answer = <<j, "command">>

\* The host starts commands in the order of the calls, each at most once, also
\* those that were given up by the time.
InCallOrder ==
  \A m, n \in 1..Len(started) : m < n => started[m].of < started[n].of

\* A call fails only after its own command was tried: no failure, timeout or
\* death before it fails the chain.
FailureIsOwn == \A j \in Job : job[j].at = "failed" => job[j].tried

\* One call never takes the place of another in the chain, whatever fails.
ChainIsolates == AnswersOwn /\ InCallOrder /\ FailureIsOwn

\* The lines of a session are sent in the order they were entered, none is lost
\* and none is sent while the session awaits another call.
LinesInOrder ==
  \A b \in Box :
    IF term[b].disposed
    THEN \E n \in 0..Len(term[b].typed) : term[b].sent = SubSeq(term[b].typed, 1, n)
    ELSE term[b].sent \o term[b].queue = term[b].typed

\* The chain and the queues of the terminals drain, even if the host dies: every
\* call settles, and what is entered is sent, unless the bound on calls is met.
EverythingDrains ==
  <>[](/\ \A j \in Job : job[j].at \in Settled
       /\ \A b \in Box : term[b].queue = <<>> \/ Len(job) = MaxJobs)

\* A command runs in its own directory and environment and is answered by its
\* own result.
CommandsIsolated == OwnContext /\ ChainIsolates
=============================================================================
