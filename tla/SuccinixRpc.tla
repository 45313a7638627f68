----------------------------- MODULE SuccinixRpc -----------------------------
(***************************************************************************)
(* succinixClient.ts: the requests of the browser to the host process of   *)
(* the container, through one command file and one result file per request.*)
(*                                                                         *)
(* All calls share a chain of promises: the node of a call begins when the *)
(* node before it has settled.  The node of run and spawn first sends      *)
(* setCwd and writes the environment file, whatever becomes of either, for *)
(* the host has one directory and one environment; the other calls (ps,    *)
(* kill, cwd, setCwd, ping) are one request each, here of kind "ask".      *)
(* Where a call stands:                                                    *)
(*   queued                behind another in the chain                     *)
(*   placing               setCwd was sent and is polled for               *)
(*   preparing             the environment is to be written                *)
(*   sending, polling      the command is to be sent, is polled for        *)
(*   answered, failed      with the answer, or thrown out by the deadline  *)
(* A deadline may pass as long as no result is there.                      *)
(* A call is a run ("cd" if it changes the directory), a spawn or an ask.  *)
(*                                                                         *)
(* The host is external.  It reads the command file now and then, ignores  *)
(* an id it has seen, starts commands in its directory of that moment, and *)
(* may die.                                                                *)
(***************************************************************************)
EXTENDS Integers, Sequences, FiniteSets

CONSTANTS
  Box,          \* virtual containers; each has a root and one more directory
  MaxJobs,      \* bound: calls
  MaxFailures   \* bound: failing file operations and commands, late answers of a
                \* host that lives, and its death

ASSUME RpcAssumption == MaxJobs \in Nat \ {0} /\ MaxFailures \in Nat

VARIABLES
  job,          \* the calls in the order of the chain
  requestId,    \* of the client: the last id given
  cmdFile,      \* the request in /cmd.json, or NoRequest
  results,      \* the result files, by id, and the request each answers
  envFile,      \* whose environment /etc/succinix.env holds
  host,         \* alive, cwd, the ids it has seen, the commands it runs
  started,      \* history: the commands the host started, in order
  failures

client == <<job, requestId>>
rpc == <<job, requestId, cmdFile, results, envFile, host, started, failures>>

Dir == Box \X {"root", "sub"}
Home(b) == <<b, "root">>
None == 0
NoRequest == [id |-> None, of |-> None, part |-> "none"]
Settled == {"answered", "failed"}
Job == 1..Len(job)

\* id: of the last request sent; cwd: as answered.  History: placed, the host
\* took the directory; env, the environment was written; tried, the command was
\* sent, or sending it failed; answer, the request whose result was received.
NewJob(kind, dir) ==
  [kind |-> kind, dir |-> dir, at |-> "queued", id |-> None, placed |-> FALSE,
   env |-> FALSE, tried |-> FALSE, answer |-> <<>>, cwd |-> <<>>]

RpcInit ==
  /\ job = <<>> /\ requestId = 0
  /\ cmdFile = NoRequest /\ results = <<>> /\ envFile = None
  /\ host = [alive |-> TRUE, cwd |-> <<>>, seen |-> {}, running |-> {}]
  /\ started = <<>> /\ failures = 0

Fails == failures < MaxFailures /\ failures' = failures + 1

-----------------------------------------------------------------------------
(* The client *)

\* run, spawn, ps, ...: the call joins the chain.
Calls(kind, dir) == Len(job) < MaxJobs /\ job' = Append(job, NewJob(kind, dir))

\* The chain has come to the node: all before it have settled.
reached(j) == \A i \in 1..(j - 1) : job[i].at \in Settled

\* execWithContext, exec: what the node sends next, once the chain has come to it.
piece(j) ==
  CASE job[j].at = "queued" /\ job[j].kind # "ask" -> "setCwd"
    [] OTHER -> "command"
due(j) == job[j].at = "sending" \/ (job[j].at = "queued" /\ reached(j))

\* Mutant: the two requests of a node share an id.
SendsOneId(j) ==
  /\ due(j)
  /\ LET id == IF job[j].id # None THEN job[j].id ELSE requestId + 1 IN
     /\ cmdFile' = [id |-> id, of |-> j, part |-> piece(j)]
     /\ job' = [job EXCEPT ![j].at = IF piece(j) = "setCwd" THEN "placing" ELSE "polling",
                           ![j].id = id, ![j].tried = @ \/ piece(j) = "command"]
     /\ requestId' = IF id > requestId THEN id ELSE requestId
  /\ UNCHANGED <<results, envFile, host, started, failures>>

\* doExec: the file of the request before is removed, this one is written.
Sends(j) ==
  /\ due(j)
  /\ cmdFile' = [id |-> requestId + 1, of |-> j, part |-> piece(j)]
  /\ job' = [job EXCEPT ![j].at = IF piece(j) = "setCwd" THEN "placing" ELSE "polling",
                        ![j].id = requestId + 1,
                        ![j].tried = @ \/ piece(j) = "command"]
  /\ requestId' = requestId + 1
  /\ UNCHANGED <<results, envFile, host, started, failures>>

\* The file cannot be written; the old one is gone, unless that failed as well.
SendFails(j) ==
  /\ due(j)
  /\ \E n \in 1..2 : /\ failures' = failures + n /\ failures' <= MaxFailures
                     /\ cmdFile' = IF n = 1 THEN NoRequest ELSE cmdFile
  /\ requestId' = requestId + 1
  /\ job' = [job EXCEPT ![j].at = IF piece(j) = "setCwd" THEN "preparing" ELSE "failed",
                        ![j].tried = @ \/ piece(j) = "command"]
  /\ UNCHANGED <<results, envFile, host, started>>

\* The result is read and removed.  What setCwd answers is not looked at.
Receives(j) ==
  LET id == job[j].id IN
  /\ job[j].at \in {"placing", "polling"} /\ id \in DOMAIN results
  /\ job' = [job EXCEPT ![j].at = IF @ = "placing" THEN "preparing" ELSE "answered",
                        ![j].placed = IF job[j].at = "placing" THEN results[id].ok ELSE @,
                        ![j].answer = IF job[j].at = "polling" THEN results[id].of ELSE @,
                        ![j].cwd = results[id].cwd]
  /\ results' = [i \in DOMAIN results \ {id} |-> results[i]]
  /\ UNCHANGED <<requestId, cmdFile, envFile, host, started, failures>>

\* The deadline passes at a poll that found no result: the host is slow, or dead.
late(j) ==
  /\ job[j].at \in {"placing", "polling"} /\ job[j].id \notin DOMAIN results
  /\ IF host.alive THEN Fails ELSE UNCHANGED failures

\* Mutant: only the command has a deadline.
TimesOutCommand(j) ==
  /\ late(j) /\ job[j].at = "polling"
  /\ job' = [job EXCEPT ![j].at = "failed"]
  /\ UNCHANGED <<requestId, cmdFile, results, envFile, host, started>>

TimesOut(j) ==
  /\ late(j)
  /\ job' = [job EXCEPT ![j].at = IF @ = "placing" THEN "preparing" ELSE "failed"]
  /\ UNCHANGED <<requestId, cmdFile, results, envFile, host, started>>

\* Mutant: the environment is written once.
WritesEnvOnce(j) ==
  /\ job[j].at = "preparing"
  /\ envFile' = IF envFile = None THEN job[j].dir[1] ELSE envFile
  /\ job' = [job EXCEPT ![j].at = "sending", ![j].env = TRUE]
  /\ UNCHANGED <<requestId, cmdFile, results, host, started, failures>>

\* writeEnvFile, for a call with a context.
WritesEnv(j) ==
  /\ job[j].at = "preparing"
  /\ \/ envFile' = job[j].dir[1] /\ job' = [job EXCEPT ![j].at = "sending", ![j].env = TRUE]
        /\ UNCHANGED failures
     \/ Fails /\ job' = [job EXCEPT ![j].at = "sending"] /\ UNCHANGED envFile
  /\ UNCHANGED <<requestId, cmdFile, results, host, started>>

-----------------------------------------------------------------------------
(* The host *)

\* The result file of request id appears.
resultOf(id, j, part, ok, cwd) ==
  [i \in DOMAIN results \cup {id} |->
     IF i = id THEN [of |-> <<j, part>>, ok |-> ok, cwd |-> cwd] ELSE results[i]]
answered(ok) == resultOf(cmdFile.id, cmdFile.of, cmdFile.part, ok, <<>>)

\* The request in the file is new to the host.
mail == host.alive /\ cmdFile.id # None /\ cmdFile.id \notin host.seen
reads(h) == [h EXCEPT !.seen = @ \cup {cmdFile.id}]

HostPlaces(ok) ==
  /\ mail /\ cmdFile.part = "setCwd"
  /\ host' = reads([host EXCEPT !.cwd = IF ok THEN job[cmdFile.of].dir ELSE @])
  /\ results' = answered(ok)
  /\ IF ok THEN UNCHANGED failures ELSE Fails
  /\ UNCHANGED <<client, cmdFile, envFile, started>>

HostAsked ==
  /\ mail /\ cmdFile.part = "command" /\ job[cmdFile.of].kind = "ask"
  /\ host' = reads(host)
  /\ results' = answered(TRUE)
  /\ UNCHANGED <<client, cmdFile, envFile, started, failures>>

\* A command starts with the environment of the moment, a spawned one in the
\* directory of the moment; the text of one to run begins with its own cd.  It is
\* late if the client has given it up by then.
HostStarts ==
  LET j == cmdFile.of
      d == IF job[j].kind = "spawn" THEN host.cwd ELSE job[j].dir IN
  /\ mail /\ cmdFile.part = "command" /\ job[j].kind # "ask"
  /\ started' = Append(started, [of |-> j, cwd |-> d, env |-> envFile,
                                 late |-> job[j].at = "failed"])
  /\ host' = reads([host EXCEPT !.cwd = d,
                                !.running = IF job[j].kind = "spawn" THEN @
                                            ELSE @ \cup {<<cmdFile.id, j>>}])
  /\ results' = IF job[j].kind = "spawn" THEN answered(TRUE) ELSE results
  /\ UNCHANGED <<client, cmdFile, envFile, failures>>

\* A command that ran ends, in the directory it is answered with, or it fails.
HostEnds(id, j, ok) ==
  LET d == IF job[j].kind = "cd" THEN <<job[j].dir[1], "sub">> ELSE job[j].dir IN
  /\ host.alive /\ <<id, j>> \in host.running
  /\ host' = [host EXCEPT !.running = @ \ {<<id, j>>}, !.cwd = IF ok THEN d ELSE @]
  /\ results' = resultOf(id, j, "command", ok, IF ok THEN d ELSE <<>>)
  /\ IF ok THEN UNCHANGED failures ELSE Fails
  /\ UNCHANGED <<client, cmdFile, envFile, started>>

HostDies ==
  /\ host.alive /\ Fails
  /\ host' = [host EXCEPT !.alive = FALSE, !.running = {}]
  /\ UNCHANGED <<client, cmdFile, results, envFile, started>>

-----------------------------------------------------------------------------
Proceeds(j) ==
  \/ Sends(j) \/ SendFails(j) \/ Receives(j) \/ TimesOut(j) \/ WritesEnv(j)

HostAnswers ==
  \/ \E ok \in BOOLEAN : HostPlaces(ok) \/ \E r \in host.running : HostEnds(r[1], r[2], ok)
  \/ HostAsked \/ HostStarts
=============================================================================
