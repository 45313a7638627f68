-------------------------- MODULE ShellProcesses ---------------------------
(***************************************************************************)
(* The processes the tools start through WebContainerAgentRuntime.runShell *)
(* and the table ProcessRegistry keeps of them (features/runtime).         *)
(*                                                                         *)
(* A background command is started by a spawn request to the executor      *)
(* host; from then on the page holds a shim that asks for the host's       *)
(* process table once a second and settles when the process is not in it.  *)
(* A second reader, the monitor, compares the same table with the registry.*)
(* A foreground command is one run request and its shim settles with the   *)
(* answer.  All requests go through one chain, so an answer of the table   *)
(* is never older than a process already registered: ps and kill are one   *)
(* step each.                                                              *)
(*                                                                         *)
(* The ownership triple (session, run, container) of an entry never        *)
(* changes; the processes here are those of one run in one container.      *)
(* The launches and ports that the same steps touch are in ServicePorts.   *)
(***************************************************************************)
EXTENDS Naturals, FiniteSets

CONSTANTS
    Procs,          \* the commands the tools may start
    Foreground,     \* those started with mode 'foreground'
    System,         \* those whose command line isSystemProcess matches
    MaxFailures     \* bound: requests to the host that fail

Background == Procs \ Foreground

ASSUME ProcessesAssumption ==
    /\ Foreground \subseteq Procs
    /\ System \subseteq Background
    /\ MaxFailures \in Nat

VARIABLES
    life,       \* the real process at the host: none, alive, gone (external)
    pid,        \* what the page knows of it: none, known, lost (spawn failed)
    shim,       \* none, open, killing, settled; with pid -1: mute, muffled
    entry,      \* the registry: none, asked (the request is under way),
                \* running, unheard (running, but nobody waits for its exit),
                \* stopped, dropped (removed by an abort), exited
    polling,    \* the foreground calls that still wait for their command
    aborted,    \* the signal of the run
    bumps,      \* how often the end of a process advanced the revision
    failures

processVars == <<life, pid, shim, entry, polling, aborted, bumps, failures>>

\* One entry of the process tables.
Inits ==
    /\ life = [x \in Procs |-> "none"]
    /\ pid = [x \in Procs |-> "none"]
    /\ shim = [x \in Procs |-> "none"]
    /\ entry = [x \in Procs |-> "none"]
    /\ polling = {}
    /\ aborted = FALSE
    /\ bumps = [x \in Procs |-> 0]
    /\ failures = 0

listed(x) == entry[x] \in {"running", "unheard"}

\* hasTrackedPids, listTracked: the entries with a host pid.
tracked == {x \in Background : listed(x) /\ pid[x] = "known"}

Fails == failures < MaxFailures /\ failures' = failures + 1

\* Mutant: the continuation does not look whether the entry is still there.
SettlesAnyway(x) ==
    /\ shim' = [shim EXCEPT ![x] = "settled"]
    /\ entry' = [entry EXCEPT ![x] = IF @ = "running" THEN "exited" ELSE @]
    /\ bumps' = [bumps EXCEPT ![x] = @ + 1]

\* The exit of x resolves.  runShell's continuation looks its entry up: if the
\* entry is there it advances the revision and marks it exited.
Settles(x) ==
    /\ shim' = [shim EXCEPT ![x] = "settled"]
    /\ entry' = [entry EXCEPT ![x] = IF @ = "running" THEN "exited" ELSE @]
    /\ bumps' = [bumps EXCEPT ![x] = IF entry[x] = "running" THEN @ + 1 ELSE @]

\* kill of a shim: a foreground one cannot be killed, one that polls sends the
\* kill request, one already killed does nothing.
killed(x) ==
    IF x \in Background /\ shim[x] = "open" THEN "killing" ELSE shim[x]

-----------------------------------------------------------------------------
(* The tool call. *)

\* run_command is a sequential tool: a run has one call under way at a time.
Asks(x) ==
    /\ entry[x] = "none" /\ ~aborted
    /\ polling = {} /\ \A y \in Procs : entry[y] # "asked"
    /\ entry' = [entry EXCEPT ![x] = "asked"]
    /\ UNCHANGED <<life, pid, shim, polling, aborted, bumps, failures>>

\* The process is entered in the registry.  If the run was cancelled while the
\* request was under way it is stopped at once and the call throws, before
\* anything waits for the exit; a system process refuses the stop.
Registers(x) ==
    /\ entry[x] = "asked"
    /\ x \in Background => life[x] # "none"
    /\ pid' = [pid EXCEPT ![x] = IF x \in Background THEN "known" ELSE "none"]
    /\ shim' = [shim EXCEPT ![x] =
                   IF aborted /\ x \in Background \ System THEN "killing"
                   ELSE "open"]
    /\ entry' = [entry EXCEPT ![x] = CASE ~aborted       -> "running"
                                       [] x \in System   -> "unheard"
                                       [] OTHER          -> "dropped"]
    /\ polling' = IF x \in Foreground /\ ~aborted THEN polling \cup {x} ELSE polling
    /\ UNCHANGED <<life, aborted, bumps, failures>>

\* The spawn request fails: the shim has pid -1, its exit is resolved and its
\* output stays open, so the exit continuation never runs.  If the run was
\* cancelled meanwhile, kill throws (no resolver was stored) and the entry stays.
SpawnFails(x) ==
    /\ entry[x] = "asked" /\ x \in Background
    /\ Fails
    /\ pid' = [pid EXCEPT ![x] = "lost"]
    /\ shim' = [shim EXCEPT ![x] = IF aborted /\ x \notin System
                                   THEN "muffled" ELSE "mute"]
    /\ entry' = [entry EXCEPT ![x] = IF aborted THEN "unheard" ELSE "running"]
    /\ UNCHANGED <<life, polling, aborted, bumps>>

\* The foreground call gives up waiting; the command goes on.
LoopEnds(x) ==
    /\ x \in polling
    /\ polling' = polling \ {x}
    /\ UNCHANGED <<life, pid, shim, entry, aborted, bumps, failures>>

\* The foreground call sees the abort at its next look: it stops the entry.
LoopAborts(x) ==
    /\ x \in polling /\ aborted
    /\ polling' = polling \ {x}
    /\ entry' = [entry EXCEPT ![x] = IF listed(x) THEN "dropped" ELSE @]
    /\ UNCHANGED <<life, pid, shim, aborted, bumps, failures>>

Abort ==
    /\ ~aborted
    /\ aborted' = TRUE
    /\ UNCHANGED <<life, pid, shim, entry, polling, bumps, failures>>

\* Mutant: stopping a process only takes it out of the table.
StopForgets(x) ==
    /\ listed(x) /\ x \notin System
    /\ entry' = [entry EXCEPT ![x] = "stopped"]
    /\ bumps' = [bumps EXCEPT ![x] = @ + 1]
    /\ UNCHANGED <<life, pid, shim, polling, aborted, failures>>

\* manage_process stop.  The revision advances here because the entry is gone
\* when the exit resolves.  With pid -1 the first kill throws, closing the
\* output: the call fails and the exit continuation ends the entry.
StopProcess(x) ==
    /\ listed(x) /\ x \notin System
    /\ IF shim[x] = "mute" /\ entry[x] = "running"
       THEN Settles(x)
       ELSE /\ shim' = [shim EXCEPT ![x] = killed(x)]
            /\ entry' = [entry EXCEPT ![x] = "stopped"]
            /\ bumps' = [bumps EXCEPT ![x] = @ + 1]
    /\ UNCHANGED <<life, pid, polling, aborted, failures>>

-----------------------------------------------------------------------------
(* The shim and the monitor. *)

\* The kill request of the shim comes back, delivered or not.
KillDelivered(x) ==
    /\ shim[x] = "killing"
    /\ life' = [life EXCEPT ![x] = "gone"]
    /\ Settles(x)
    /\ UNCHANGED <<pid, polling, aborted, failures>>

KillLost(x) ==
    /\ shim[x] = "killing"
    /\ Fails
    /\ Settles(x)
    /\ UNCHANGED <<life, pid, polling, aborted>>

\* The shim asks for the process table and does not find its process running.
PollEnds(x) ==
    /\ x \in Background /\ shim[x] = "open" /\ life[x] # "alive"
    /\ Settles(x)
    /\ UNCHANGED <<life, pid, polling, aborted, failures>>

\* ps answers a failed request with an empty table: the shim settles although
\* its process lives.
PollFails(x) ==
    /\ x \in Background /\ shim[x] = "open"
    /\ Fails
    /\ Settles(x)
    /\ UNCHANGED <<life, pid, polling, aborted>>

\* reconcile: the tracked entries that the table does not show running are
\* marked exited.
reconciled(gone) ==
    [x \in Procs |-> IF x \in gone THEN "exited" ELSE entry[x]]

MonitorTick ==
    LET gone == {x \in tracked : life[x] # "alive"} IN
    /\ gone # {}
    /\ entry' = reconciled(gone)
    /\ UNCHANGED <<life, pid, shim, polling, aborted, bumps, failures>>

\* The same with the empty table of a failed request.
MonitorFails ==
    /\ tracked # {}
    /\ Fails
    /\ entry' = reconciled(tracked)
    /\ UNCHANGED <<life, pid, shim, polling, aborted, bumps>>

\* stopProcessByPid, from the process panel: refused for a system process.
StopByPid(x) ==
    /\ x \in Background \ System /\ pid[x] = "known" /\ life[x] = "alive"
    /\ life' = [life EXCEPT ![x] = "gone"]
    /\ UNCHANGED <<pid, shim, entry, polling, aborted, bumps, failures>>

\* The run request of a foreground command is answered, or fails.
RunEnds(x) ==
    /\ x \in Foreground /\ shim[x] = "open" /\ life[x] = "alive"
    /\ life' = [life EXCEPT ![x] = "gone"]
    /\ Settles(x)
    /\ UNCHANGED <<pid, polling, aborted, failures>>

RunFails(x) ==
    /\ x \in Foreground /\ shim[x] = "open"
    /\ Fails
    /\ Settles(x)
    /\ UNCHANGED <<life, pid, polling, aborted>>

-----------------------------------------------------------------------------
(* The host (external): a requested command starts; a process may end.  A  *)
(* command whose request failed may still start or not.                    *)

Starts(x) ==
    /\ entry[x] # "none" /\ life[x] = "none"
    /\ life' = [life EXCEPT ![x] = "alive"]
    /\ UNCHANGED <<pid, shim, entry, polling, aborted, bumps, failures>>

Dies(x) ==
    /\ life[x] = "alive"
    /\ x \in Foreground => shim[x] = "settled"
    /\ life' = [life EXCEPT ![x] = "gone"]
    /\ UNCHANGED <<pid, shim, entry, polling, aborted, bumps, failures>>

-----------------------------------------------------------------------------

\* Steps of one process, by what they end: nothing, the exit of its shim
\* without its death, both, or its life alone.
Goes(x) == Asks(x) \/ Starts(x) \/ LoopEnds(x) \/ LoopAborts(x) \/ StopProcess(x)
           \/ SpawnFails(x)
Ends(x) == PollEnds(x) \/ PollFails(x) \/ KillLost(x) \/ RunFails(x) \/ RunEnds(x)
Falls(x) == StopByPid(x) \/ Dies(x)
Shared == Abort \/ MonitorTick \/ MonitorFails

Steps ==
    \/ \E x \in Procs : Goes(x) \/ Registers(x) \/ Ends(x) \/ KillDelivered(x) \/ Falls(x)
    \/ Shared

ProcessSpec == Inits /\ [][Steps]_processVars

-----------------------------------------------------------------------------
(* Properties *)

\* The type invariant.
ProcessTypeOK ==
    /\ life \in [Procs -> {"none", "alive", "gone"}]
    /\ pid \in [Procs -> {"none", "known", "lost"}]
    /\ shim \in [Procs -> {"none", "open", "killing", "settled", "mute", "muffled"}]
    /\ entry \in [Procs -> {"none", "asked", "running", "unheard", "stopped",
                            "dropped", "exited"}]
    /\ polling \subseteq Foreground /\ aborted \in BOOLEAN
    /\ bumps \in [Procs -> Nat] /\ failures \in 0..MaxFailures

\* The end of a process advances the workspace revision at most once, and an
\* explicit stop advances it exactly once: the exit that resolves later, and
\* the monitor, find the entry gone.  (runShell :282-295, stopProcess :327-337)
StopBumpsOnce ==
    \A x \in Procs : /\ bumps[x] \in 0..1
                     /\ entry[x] = "stopped" => bumps[x] = 1

\* As long as no request failed, a background process that lives and whose pid
\* the page knows is in the table or is being killed: the two readers of the
\* host's table, the stops and the aborts never lose one.
LiveIsListed ==
    failures = 0 =>
        \A x \in Background : life[x] = "alive" /\ pid[x] = "known"
                                  => listed(x) \/ shim[x] = "killing"

\* "Shell exit is an explicit revision boundary": whatever ends an entry, the
\* revision has advanced.  (revision-verification-and-completion.md:30)
EndsAdvanceRevision ==
    \A x \in Procs : entry[x] \in {"stopped", "exited"} => bumps[x] = 1

\* Ends of processes are counted once, and no living one is lost.
\* (WebContainerAgentRuntime.ts, processRegistry.ts)
ShellSound == StopBumpsOnce /\ LiveIsListed
=============================================================================
