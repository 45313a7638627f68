---------------------------- MODULE ServicePorts ----------------------------
(***************************************************************************)
(* RuntimeServiceRegistry (features/runtime/serviceRegistry.ts): which     *)
(* launch owns which open port of the container, and stopping a service by *)
(* its port.  The launches are the processes of ShellProcesses: every step *)
(* there that starts or ends one is joined here with what the registry     *)
(* does in the same turn of the event loop.                                *)
(*                                                                         *)
(* Ports open and close at the container (external); each opening is told  *)
(* twice, by 'server-ready' and by 'port', and the news may be late.  The  *)
(* record channel of the old service hook has no producer any more and is  *)
(* left out, with killPid, which only it could reach, and stopLaunch,      *)
(* which nothing calls.                                                    *)
(***************************************************************************)
EXTENDS ShellProcesses

CONSTANTS
    Ports,          \* the port numbers in play
    Declares,       \* extractDeclaredPorts of each command line
    Callers,        \* the places of the user interface that stop a port
    nobody          \* a port record without a launchId

ASSUME PortsAssumption ==
    /\ Declares \in [Procs -> SUBSET Ports]
    /\ nobody \notin Procs

VARIABLES
    launch,     \* the launches: none (or deleted), running, stopping, exited
    port,       \* the port table: [st, of], closed when there is no entry
    timer,      \* the ports whose orphan timer is armed
    recent,     \* the ports orphaned by their timer within ORPHAN_RETROSPECT_MS
    fallback,   \* the launches whose stop timer is armed
    calls,      \* stopPort calls: [pc, port, of], of being the captured owner
    listens,    \* who listens on a port (external)
    opens,      \* news of an opening still to come (external)
    closing     \* the ports whose closing is still to be told (external)

portVars == <<launch, port, timer, recent, fallback, calls, listens, opens, closing>>
vars == <<processVars, portVars>>

Closed == [st |-> "closed", of |-> nobody]
Idle == [pc |-> "idle", port |-> nobody, of |-> nobody]

Init ==
    /\ Inits
    /\ launch = [x \in Procs |-> "none"]
    /\ port = [p \in Ports |-> Closed]
    /\ timer = {} /\ recent = {} /\ fallback = {}
    /\ calls = [c \in Callers |-> Idle]
    /\ listens = [p \in Ports |-> nobody]
    /\ opens = [p \in Ports |-> 0]
    /\ closing = {}

\* The type invariant.
TypeOK ==
    /\ ProcessTypeOK
    /\ launch \in [Procs -> {"none", "running", "stopping", "exited"}]
    /\ port \in [Ports -> [st : {"closed", "identifying", "managed", "stopping",
                                 "orphaned"}, of : Procs \cup {nobody}]]
    /\ timer \subseteq Ports /\ recent \subseteq Ports /\ fallback \subseteq Procs
    /\ calls \in [Callers -> [pc : {"idle", "killing", "waiting"},
                              port : Ports \cup {nobody}, of : Procs \cup {nobody}]]
    /\ listens \in [Ports -> Procs \cup {nobody}]
    /\ opens \in [Ports -> 0..2] /\ closing \subseteq Ports

-----------------------------------------------------------------------------
(* Which launch a port belongs to. *)

open(p) == port[p].st # "closed"
refersTo(x) == {p \in Ports : open(p) /\ port[p].of = x}

\* Mutant: a launch that is being stopped may still be given a port.
candidatesKept == {x \in Background : launch[x] \in {"running", "stopping"}
                                      /\ pid[x] = "known"}

\* The launches that may own a port: running, with a host pid.
candidates == {x \in Background : launch[x] = "running" /\ pid[x] = "known"}

\* inferManagedPort: the only candidate that declares p; if none declares it,
\* the only candidate.  The empty set when that is not unambiguous.
inferred(p, running) ==
    LET declared == {x \in running : p \in Declares[x]}
        pool == IF declared = {} THEN running ELSE declared
    IN  IF Cardinality(pool) = 1 THEN pool ELSE {}

managedBy(x) == [st |-> "managed", of |-> x]

orphaning(ps) ==
    [p \in Ports |-> IF p \in ps THEN [port[p] EXCEPT !.st = "orphaned"] ELSE port[p]]

stoppingAll(x) ==
    [p \in Ports |-> IF p \in refersTo(x) THEN [port[p] EXCEPT !.st = "stopping"]
                     ELSE port[p]]

-----------------------------------------------------------------------------
(* Effects joined to the steps of ShellProcesses. *)

\* The end of spawn: the launch is entered, and ports that opened before it, or
\* that became orphans lately, are given to it if it is now the one inferred.
Launched(x) ==
    LET known == IF x \in Background THEN candidates \cup {x} ELSE candidates
        taken == {p \in Ports : /\ \/ port[p].st = "identifying"
                                   \/ port[p].st = "orphaned" /\ p \in recent
                                /\ inferred(p, known) = {x}}
    IN  /\ launch' = [launch EXCEPT ![x] = "running"]
        /\ port' = [p \in Ports |-> IF p \in taken THEN managedBy(x) ELSE port[p]]
        /\ timer' = timer \ taken
        /\ recent' = recent \ taken
        /\ UNCHANGED <<fallback, calls, listens, opens, closing>>

\* markLaunchExited: the launch is forgotten unless a port still refers to it.
ended(x) ==
    [launch EXCEPT ![x] = IF @ = "none" \/ refersTo(x) = {} THEN "none" ELSE "exited"]

Exited(x) ==
    /\ launch' = ended(x)
    /\ UNCHANGED <<port, timer, recent, fallback, calls, listens, opens, closing>>

\* The death of a process closes its ports at the container.
Frees(x) ==
    LET held == {p \in Ports : listens[p] = x} IN
    /\ listens' = [p \in Ports |-> IF p \in held THEN nobody ELSE listens[p]]
    /\ closing' = closing \cup held
    /\ UNCHANGED <<port, timer, recent, fallback, calls, opens>>

-----------------------------------------------------------------------------
(* The container (external). *)

Binds(x, p) ==
    /\ x \in Background /\ life[x] = "alive"
    /\ listens[p] = nobody /\ opens[p] = 0 /\ p \notin closing
    /\ listens' = [listens EXCEPT ![p] = x]
    /\ opens' = [opens EXCEPT ![p] = 2]
    /\ UNCHANGED <<processVars, launch, port, timer, recent, fallback, calls, closing>>

Unbinds(p) ==
    /\ listens[p] # nobody
    /\ listens' = [listens EXCEPT ![p] = nobody]
    /\ closing' = closing \cup {p}
    /\ UNCHANGED <<processVars, launch, port, timer, recent, fallback, calls, opens>>

-----------------------------------------------------------------------------
(* Events of ports. *)

\* Mutant: only the first event of a port arms the orphan timer.
OpenPortOnce(p) ==
    LET owner == inferred(p, candidates) IN
    /\ opens[p] > 0
    /\ opens' = [opens EXCEPT ![p] = @ - 1]
    /\ recent' = recent \ {p}
    /\ IF owner # {}
       THEN /\ port' = [port EXCEPT ![p] = managedBy(CHOOSE x \in owner : TRUE)]
            /\ UNCHANGED timer
       ELSE /\ port' = [port EXCEPT ![p].st = IF @ = "stopping" THEN @
                                              ELSE "identifying"]
            /\ timer' = IF open(p) THEN timer ELSE timer \cup {p}
    /\ UNCHANGED <<processVars, launch, fallback, calls, listens, closing>>

\* openPort: the port is given to the launch inferred now, or is to be identified.
OpenPort(p) ==
    LET owner == inferred(p, candidates) IN
    /\ opens[p] > 0
    /\ opens' = [opens EXCEPT ![p] = @ - 1]
    /\ recent' = recent \ {p}
    /\ IF owner # {}
       THEN /\ port' = [port EXCEPT ![p] = managedBy(CHOOSE x \in owner : TRUE)]
            /\ UNCHANGED timer
       ELSE /\ port' = [port EXCEPT ![p].st = IF @ = "stopping" THEN @
                                              ELSE "identifying"]
            /\ timer' = IF port[p].st = "stopping" THEN timer ELSE timer \cup {p}
    /\ UNCHANGED <<processVars, launch, fallback, calls, listens, closing>>

\* The last port of a launch to close ends its stop timer and, if the process
\* has exited, its entry.
ClosePort(p) ==
    LET x == port[p].of
        last == x # nobody /\ refersTo(x) \subseteq {p}
    IN  /\ p \in closing /\ opens[p] = 0
        /\ closing' = closing \ {p}
        /\ timer' = timer \ {p} /\ recent' = recent \ {p}
        /\ port' = [port EXCEPT ![p] = Closed]
        /\ fallback' = IF last THEN fallback \ {x} ELSE fallback
        /\ launch' = IF last /\ launch[x] = "exited"
                     THEN [launch EXCEPT ![x] = "none"] ELSE launch
        /\ UNCHANGED <<processVars, calls, listens, opens>>

\* scheduleOrphanClassification's timer.
OrphanTimer(p) ==
    /\ p \in timer
    /\ timer' = timer \ {p}
    /\ IF port[p].st = "identifying"
       THEN port' = orphaning({p}) /\ recent' = recent \cup {p}
       ELSE UNCHANGED <<port, recent>>
    /\ UNCHANGED <<processVars, launch, fallback, calls, listens, opens, closing>>

WindowPasses(p) ==
    /\ p \in recent
    /\ recent' = recent \ {p}
    /\ UNCHANGED <<processVars, launch, port, timer, fallback, calls, listens,
                   opens, closing>>

-----------------------------------------------------------------------------
(* stopPort *)

\* Only a managed port.  A launch that is already stopping is waited for; one
\* that has exited, or is not there, leaves the port an orphan.
StopPort(c, p) ==
    LET x == port[p].of IN
    /\ calls[c].pc = "idle" /\ port[p].st = "managed"
    /\ CASE launch[x] = "running" ->
              /\ launch' = [launch EXCEPT ![x] = "stopping"]
              /\ port' = stoppingAll(x)
              /\ recent' = recent \ refersTo(x)
              /\ calls' = [calls EXCEPT ![c] = [pc |-> "killing", port |-> p, of |-> x]]
         [] launch[x] = "stopping" ->
              /\ port' = [port EXCEPT ![p].st = "stopping"]
              /\ calls' = [calls EXCEPT ![c] = [pc |-> "waiting", port |-> p, of |-> x]]
              /\ UNCHANGED <<launch, recent>>
         [] OTHER ->
              /\ port' = orphaning({p})
              /\ UNCHANGED <<launch, recent, calls>>
    /\ UNCHANGED <<processVars, timer, fallback, listens, opens, closing>>

waits(c) == calls' = [calls EXCEPT ![c].pc = "waiting"]

\* scheduleLaunchStopFallback.
arms(x) == fallback' = fallback \cup {x}

\* killLaunchProcess: refused without a word for a system process; a kill that
\* is delivered ends the process, one that fails makes the shim kill again.
KillRefused(c) ==
    LET x == calls[c].of IN
    /\ calls[c].pc = "killing" /\ x \in System
    /\ waits(c) /\ arms(x)
    /\ UNCHANGED <<processVars, launch, port, timer, recent, listens, opens, closing>>

KillArrives(c) ==
    LET x == calls[c].of IN
    /\ calls[c].pc = "killing" /\ x \notin System /\ life[x] = "alive"
    /\ life' = [life EXCEPT ![x] = "gone"]
    /\ waits(c) /\ arms(x)
    /\ LET held == {p \in Ports : listens[p] = x} IN
       /\ listens' = [p \in Ports |-> IF p \in held THEN nobody ELSE listens[p]]
       /\ closing' = closing \cup held
    /\ UNCHANGED <<pid, shim, entry, polling, aborted, bumps, failures, launch, port,
                   timer, recent, opens>>

KillMisses(c) ==
    LET x == calls[c].of IN
    /\ calls[c].pc = "killing" /\ x \notin System
    /\ IF life[x] = "alive" THEN Fails ELSE UNCHANGED failures
    /\ shim' = [shim EXCEPT ![x] = killed(x)]
    /\ waits(c) /\ arms(x)
    /\ UNCHANGED <<life, pid, entry, polling, aborted, bumps, launch, port, timer,
                   recent, listens, opens, closing>>

\* waitForPortClose: a look that finds the port gone, or the deadline, which
\* writes back the record taken when the call began.
PortGone(c) ==
    /\ calls[c].pc = "waiting" /\ ~open(calls[c].port)
    /\ calls' = [calls EXCEPT ![c] = Idle]
    /\ UNCHANGED <<processVars, launch, port, timer, recent, fallback, listens,
                   opens, closing>>

WaitEnds(c) ==
    LET p == calls[c].port IN
    /\ calls[c].pc = "waiting" /\ open(p)
    /\ port' = [port EXCEPT ![p] = [st |-> "orphaned", of |-> calls[c].of]]
    /\ calls' = [calls EXCEPT ![c] = Idle]
    /\ UNCHANGED <<processVars, launch, timer, recent, fallback, listens, opens, closing>>

\* scheduleLaunchStopFallback's timer.
FallbackFires(x) ==
    /\ x \in fallback
    /\ fallback' = fallback \ {x}
    /\ port' = orphaning(refersTo(x))
    /\ UNCHANGED <<processVars, launch, timer, recent, calls, listens, opens, closing>>

-----------------------------------------------------------------------------
(* The composition. *)

Next ==
    \/ \E x \in Procs :
        \/ (Goes(x) \/ Shared) /\ UNCHANGED portVars
        \/ Registers(x) /\ Launched(x)
        \/ Ends(x) /\ Exited(x)
        \/ KillDelivered(x) /\ Frees(x) /\ launch' = ended(x)
        \/ Falls(x) /\ Frees(x) /\ UNCHANGED launch
        \/ FallbackFires(x)
        \/ \E p \in Ports : Binds(x, p)
    \/ \E p \in Ports :
        \/ OpenPort(p) \/ ClosePort(p) \/ OrphanTimer(p) \/ WindowPasses(p) \/ Unbinds(p)
        \/ \E c \in Callers : StopPort(c, p)
    \/ \E c \in Callers :
        KillRefused(c) \/ KillArrives(c) \/ KillMisses(c) \/ PortGone(c) \/ WaitEnds(c)

Spec == Init /\ [][Next]_vars

\* Timers fire, events are told, requests are answered or fail, and the two
\* readers of the process table keep looking.
Fairness ==
    /\ \A x \in Procs :
        /\ WF_vars(Starts(x) /\ UNCHANGED portVars)
        /\ WF_vars(\/ Registers(x) /\ Launched(x)
                   \/ SpawnFails(x) /\ UNCHANGED portVars)
        /\ WF_vars(\/ Ends(x) /\ Exited(x)
                   \/ KillDelivered(x) /\ Frees(x) /\ launch' = ended(x))
        /\ WF_vars(FallbackFires(x))
    /\ WF_vars(MonitorTick /\ UNCHANGED portVars)
    /\ \A p \in Ports : WF_vars(OpenPort(p) \/ ClosePort(p)) /\ WF_vars(OrphanTimer(p))
    /\ \A c \in Callers :
        WF_vars(KillRefused(c) \/ KillArrives(c) \/ KillMisses(c) \/ PortGone(c)
                \/ WaitEnds(c))

FairSpec == Spec /\ Fairness

-----------------------------------------------------------------------------
(* Properties *)

\* Every port whose state is transient is watched: one being identified has its
\* orphan timer armed, one being stopped has a call on its launch or its stop
\* timer; and a managed port has a launch in the table that is not being
\* stopped, so the button that stops it has something to kill.
PortsAreWatched ==
    \A p \in Ports :
        /\ port[p].st = "identifying" => p \in timer
        /\ port[p].st = "stopping" =>
              \/ port[p].of \in fallback
              \/ \E c \in Callers : calls[c].pc # "idle"
                                    /\ (calls[c].of = port[p].of \/ calls[c].port = p)
        /\ port[p].st = "managed" => launch[port[p].of] \in {"running", "exited"}
        /\ p \in recent => port[p].st = "orphaned"

\* The tables come back to the truth: no port stays in a transient state or
\* stays shown with nobody listening on it, and no entry stays shown running
\* for a process that has ended, except one whose spawn failed.
TablesSettle ==
    /\ \A p \in Ports : []<>(/\ port[p].st \in {"closed", "managed", "orphaned"}
                             /\ listens[p] = nobody => ~open(p))
    /\ \A x \in Procs : []<>(listed(x) => life[x] = "alive" \/ pid[x] = "lost")
=============================================================================
