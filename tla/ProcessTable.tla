---------------------------- MODULE ProcessTable ----------------------------
(***************************************************************************)
(* The table of processes of the container the user looks at, and the stop *)
(* button of its rows (getSuccinixProcesses, stopProcessByPid, killRefusal,*)
(* ComputerView, ServicesPanel).  The host has one table for all           *)
(* containers and says of a process whose it is, or does not know; the     *)
(* registry of the page knows the processes it started itself.  An answer  *)
(* of the host is old when it is used, may be missing, and a pid may be    *)
(* given to another process at any time.                                   *)
(***************************************************************************)
EXTENDS Naturals, FiniteSets

CONSTANTS
    Pids,
    Boxes,          \* the containers
    MaxStarts,      \* bound: processes that start
    MaxQueries      \* bound: questions to the host

ASSUME TableAssumption == MaxStarts \in Nat /\ MaxQueries \in Nat

VARIABLES
    host,           \* [nr, pid, owner, known]: the running processes; owner: a
                    \* container or "system"; known: the host can tell whose
                    \* (a system process is told by its command)
    arriving,       \* started by an agent, not registered yet
    registered,     \* ProcessRegistry: [nr, pid, owner]
    view,           \* activeContainerId
    answer,         \* the last answer to the panel's ps(), not yet rendered
    rows,           \* the rows of the panel
    stops,          \* stop requests under way: see Click and Guard
    kills,          \* history: what was killed, from which container's panel,
                    \* and how it came to that
    starts, queries

tableVars == <<host, arriving, registered, view, answer, rows, stops, kills,
               starts, queries>>

NoAnswer == {[nr |-> 0, pid |-> 0, owner |-> "system", known |-> FALSE]}
TheOne(S, p) == CHOOSE x \in S : x.pid = p /\ \A y \in S : y.pid = p => x.nr <= y.nr
Has(S, p) == \E x \in S : x.pid = p

TableInit ==
    /\ host = {} /\ arriving = {} /\ registered = {}
    /\ view \in Boxes /\ answer = NoAnswer /\ rows = {}
    /\ stops = {} /\ kills = {} /\ starts = 0 /\ queries = 0

-----------------------------------------------------------------------------
(* The host. *)

\* A command of a user's terminal, of an agent, or one of the system's.
HostStarts(p, o, known) ==
    /\ starts < MaxStarts /\ ~Has(host, p) /\ (o = "system" => known)
    /\ starts' = starts + 1
    /\ LET x == [nr |-> starts + 1, pid |-> p, owner |-> o, known |-> known]
       IN  /\ host' = host \cup {x}
           /\ arriving' \in {arriving, IF o = "system" THEN arriving ELSE arriving \cup {x}}
    /\ UNCHANGED <<registered, view, answer, rows, stops, kills, queries>>

HostExits(x) ==
    /\ x \in host /\ host' = host \ {x}
    /\ UNCHANGED <<arriving, registered, view, answer, rows, stops, kills,
                   starts, queries>>

\* What ps() answers: the table, or nothing when the request failed.
AnswersQuery(S) ==
    /\ queries < MaxQueries /\ queries' = queries + 1
    /\ S \in {host, {}}

\* runShell and launch: the spawn request has answered with the pid.
Register(x) ==
    /\ x \in arriving /\ arriving' = arriving \ {x}
    /\ registered' = registered \cup {[nr |-> x.nr, pid |-> x.pid, owner |-> x.owner]}
    /\ UNCHANGED <<host, view, answer, rows, stops, kills, starts, queries>>

\* schedulePsMonitor, reconcile: what is not in the answer has exited.
Reconcile(S) ==
    /\ registered # {} /\ AnswersQuery(S)
    /\ registered' = {x \in registered : Has(S, x.pid)}
    /\ UNCHANGED <<host, arriving, view, answer, rows, stops, kills, starts>>

-----------------------------------------------------------------------------
(* The panel. *)

\* Another container is shown; the rows stay until the next answer comes.
SwitchView(c) ==
    /\ c # view /\ view' = c
    /\ answer' = NoAnswer
    /\ UNCHANGED <<host, arriving, registered, rows, stops, kills, starts, queries>>

PanelAsks(S) ==
    /\ answer = NoAnswer /\ AnswersQuery(S)
    /\ answer' = S
    /\ UNCHANGED <<host, arriving, registered, view, rows, stops, kills, starts>>

\* resolveProcessScope.
scopeOf(e) == IF e.owner = "system" THEN "system"
              ELSE IF e.known THEN "container" ELSE "unknown"

trackedHere == {x \in registered : x.owner = view}

\* toOwnedProcessView: the registry's word, unless the host sees a system
\* process there; may: the button is not disabled.
ownedRow(x, S) ==
    [id |-> x.nr, pid |-> x.pid, from |-> view,
     may |-> ~\E e \in S : e.pid = x.pid /\ e.owner = "system"]
\* toUnownedProcessView.
unownedRow(e) ==
    [id |-> 0, pid |-> e.pid, from |-> view, may |-> scopeOf(e) = "container"]

\* Of another container, as the registry or the host knows.
elsewhere(e) == \E x \in registered : x.pid = e.pid /\ x.owner # view
foreign(e) == scopeOf(e) = "container" /\ e.owner # view

Render ==
    /\ answer # NoAnswer
    /\ rows' = {ownedRow(x, answer) : x \in trackedHere}
               \cup {unownedRow(e) : e \in {y \in answer :
                        ~Has(trackedHere, y.pid) /\ ~elsewhere(y) /\ ~foreign(y)}}
    /\ answer' = NoAnswer
    /\ UNCHANGED <<host, arriving, registered, view, stops, kills, starts, queries>>

\* The stop button.  A row of the registry's goes to the registry, which stops
\* the entry, gone or not from the container shown; another one to the guard,
\* with the container shown now.
Click(r) ==
    /\ r \in rows /\ r.may /\ stops = {}
    /\ IF r.id # 0
       THEN \E x \in registered :
               /\ x.nr = r.id
               /\ registered' = registered \ {x}
               /\ stops' = {[pid |-> x.pid, from |-> r.from, step |-> "kill",
                             nr |-> x.nr, blind |-> FALSE]}
       ELSE /\ stops' = {[pid |-> r.pid, from |-> view, step |-> "asked",
                          nr |-> 0, blind |-> FALSE]}
            /\ UNCHANGED registered
    /\ UNCHANGED <<host, arriving, view, answer, rows, kills, starts, queries>>

\* killRefusal.  Mutant: an owner nobody knows is no reason to refuse.
refusalKnown(S, p, c) ==
    Has(S, p) /\ LET e == TheOne(S, p)
                 IN  scopeOf(e) # "unknown" /\ e.owner # c
refusal(S, p, c) ==
    Has(S, p) /\ LET e == TheOne(S, p)
                 IN  scopeOf(e) # "container" \/ e.owner # c

\* stopProcessByPid: what the registry tracks is judged by the registry, but
\* for the system's processes; all else by the host's answer, in which a
\* process may be missing.
\* Mutant: a tracked process is stopped from any container.
refusedUnlessSystem(s, S) ==
    IF Has(registered, s.pid)
    THEN \E e \in S : e.pid = s.pid /\ e.owner = "system"
    ELSE refusal(S, s.pid, s.from)
refused(s, S) ==
    IF Has(registered, s.pid)
    THEN \/ \E e \in S : e.pid = s.pid /\ e.owner = "system"
         \/ TheOne(registered, s.pid).owner # s.from
    ELSE refusal(S, s.pid, s.from)

Guard(s, S) ==
    /\ s \in stops /\ s.step = "asked" /\ AnswersQuery(S)
    /\ stops' = IF refused(s, S) THEN {}
                ELSE {[s EXCEPT !.step = "kill",
                        !.nr = IF Has(registered, s.pid) THEN TheOne(registered, s.pid).nr
                               ELSE IF Has(S, s.pid) THEN TheOne(S, s.pid).nr ELSE 0,
                        !.blind = ~Has(registered, s.pid) /\ ~Has(S, s.pid)]}
    /\ UNCHANGED <<host, arriving, registered, view, answer, rows, kills, starts>>

\* The host kills whatever has the pid by now.
Kill(s) ==
    /\ s \in stops /\ s.step = "kill"
    /\ stops' = {}
    /\ \E X \in {{x \in host : x.pid = s.pid}} :
          /\ host' = host \ X
          /\ kills' = kills \cup {[owner |-> x.owner, from |-> s.from, blind |-> s.blind,
                                   reused |-> s.nr # x.nr] : x \in X}
    /\ UNCHANGED <<arriving, registered, view, answer, rows, starts, queries>>

TableNext ==
    \/ \E p \in Pids, o \in Boxes \cup {"system"}, known \in BOOLEAN :
          HostStarts(p, o, known)
    \/ \E x \in host : HostExits(x)
    \/ \E x \in arriving : Register(x)
    \/ \E S \in {host, {}} : Reconcile(S) \/ PanelAsks(S)
    \/ \E c \in Boxes : SwitchView(c)
    \/ Render
    \/ \E r \in rows : Click(r)
    \/ \E s \in stops, S \in {host, {}} : Guard(s, S)
    \/ \E s \in stops : Kill(s)

TableSpec == TableInit /\ [][TableNext]_tableVars

-----------------------------------------------------------------------------
(***************************************************************************)
(* The stop button of a container's panel kills processes of that          *)
(* container only, none of the system's, whatever the host knows and       *)
(* however old its answers are.  Left out: a pid that was given to another *)
(* process after the check (reused), and a check for which ps() had failed *)
(* (blind: a process that is not in the answer is not refused).            *)
(***************************************************************************)
KillsAreOwn ==
    \A k \in kills : k.owner = k.from \/ k.blind \/ k.reused

\* A kill whose process the check did not find kills nothing of another
\* container.  It may: ps() answers with an empty table when it fails.
NothingKilledBlindly == \A k \in kills : k.blind => k.owner = k.from
=============================================================================
