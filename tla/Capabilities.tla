---------------------------- MODULE Capabilities ----------------------------
(***************************************************************************)
(* The capability library: which tools an Agent run is given               *)
(* (CapabilityRegistry), the switches of the panel and the two copies of   *)
(* their configuration (CapabilityContext, WorkspaceRuntimeProvider), the  *)
(* container behind one of the modules, and the runs that are launched     *)
(* with both.                                                              *)
(*                                                                         *)
(* Every tool of the program is on by default, so a configuration is the   *)
(* master switches and the set of the tools switched off.  What closing    *)
(* and booting do to the container itself is in RuntimeLifecycle.          *)
(***************************************************************************)
EXTENDS Naturals, FiniteSets

CONSTANTS
    ContainerTools,     \* the tools of the virtual-container module
    PluginTools,        \* the tools of an extension
    Needs,              \* tool -> the tools it declares as dependencies
    ChatIds             \* sessions

Tools == ContainerTools \cup PluginTools
Modules == {"container", "plugin"}
toolsOf(m) == IF m = "container" THEN ContainerTools ELSE PluginTools

ASSUME CapabilitiesAssumption ==
    /\ ContainerTools \cap PluginTools = {}
    /\ Needs \in [Tools -> SUBSET Tools]

VARIABLES
    plugged,        \* the extension is registered
    stored,         \* the configuration in local storage: [modules, off]
    config,         \* the configuration the panel and the Agent use
    preferred,      \* containerEnabled of the provider
    restricted,     \* availability = 'restricted'
    marked,         \* containerUnavailable
    box,            \* none, booting, attached, up
    ready,          \* isTerminalReady
    viewed,         \* activeSessionId
    active,         \* session -> its active run: [tools, full], or NoRun
    past            \* history: "halved": the last tool of the container was
                    \* switched off by itself; "reopened": the container was
                    \* switched on again; "closed": it was closed or failed;
                    \* "dropped": the page was loaded without the extension
                    \* some switches belong to;
                    \* "pulled": a run without a container has a plugin whose
                    \* dependencies bring container tools with it

capabilitiesVars == <<plugged, stored, config, preferred, restricted, marked, box,
                      ready, viewed, active, past>>
boxVars == <<preferred, restricted, marked, box, ready>>
runVars == <<viewed, active>>

NoRun == [tools |-> FALSE, full |-> FALSE, on |-> FALSE]
DefaultConfig == [modules |-> [m \in Modules |-> "unset"], off |-> {}]

\* Registered modules; a core module is never unregistered.
registered == IF plugged THEN Modules ELSE {"container"}
registeredTools == UNION {toolsOf(m) : m \in registered}

\* sanitizeConfig: what a module not registered had is dropped.
sanitized(c) ==
    [modules |-> [m \in Modules |-> IF m \in registered THEN c.modules[m] ELSE "unset"],
     off |-> c.off \cap registeredTools]

-----------------------------------------------------------------------------
(* What the Agent may call. *)

\* byName: a tool that is not registered names no dependency.
dependencies(t) == IF t \in registeredTools THEN Needs[t] ELSE {}

\* Enabling a tool enables what it depends on: tools are added until nothing
\* changes, which is the least set with these that has its dependencies.
closure(ts) ==
    {t \in Tools : \A S \in SUBSET Tools :
        ts \subseteq S /\ (\A u \in S : dependencies(u) \subseteq S) => t \in S}

\* effectiveContainerState
containerState ==
    IF ~preferred THEN "disabled" ELSE IF restricted THEN "restricted" ELSE "enabled"

\* resolveEnabledTools
resolveEnabledTools(c, available) ==
    closure({t \in registeredTools :
                /\ t \notin c.off
                /\ \E m \in registered :
                      /\ t \in toolsOf(m) /\ c.modules[m] # "off"
                      /\ m = "container" => available})
enabledTools == resolveEnabledTools(config, containerState = "enabled")

\* What the panel shows: the container by its state, the others by their switch.
moduleOn(m) == IF m = "container" THEN containerState = "enabled"
               ELSE config.modules[m] # "off"
shownOn(t) == \E m \in registered : t \in toolsOf(m) /\ moduleOn(m) /\ t \notin config.off

\* The switch of the container is locked while a run of the session shown is active.
locked == active[viewed].on

-----------------------------------------------------------------------------
(* The page and the container. *)

loadedWith(c, m) ==
    /\ preferred' = (c.modules["container"] # "off")
    /\ restricted' = (preferred' /\ m)
    /\ box' = IF preferred' /\ ~m THEN "booting" ELSE "none"

CapabilitiesInit ==
    /\ plugged \in BOOLEAN
    /\ stored = DefaultConfig /\ config = DefaultConfig
    /\ preferred = TRUE /\ marked \in BOOLEAN /\ restricted = marked
    /\ box = IF marked THEN "none" ELSE "booting"
    /\ ready = FALSE
    /\ viewed \in ChatIds
    /\ active = [s \in ChatIds |-> NoRun]
    /\ past = {}

\* A reload: a marked environment is not tried again.
LoadPage ==
    /\ config' = sanitized(stored)
    /\ loadedWith(stored, marked)
    /\ ready' = FALSE
    /\ active' = [s \in ChatIds |-> NoRun]
    /\ past' = (past \ {"closed"}) \cup (IF sanitized(stored) # stored THEN {"dropped"} ELSE {})
    /\ UNCHANGED <<plugged, stored, marked, viewed>>

Attach ==
    /\ box = "booting" /\ box' = "attached"
    /\ UNCHANGED <<plugged, stored, config, preferred, restricted, marked, ready,
                   runVars, past>>

HostReady ==
    /\ box = "attached" /\ box' = "up"
    /\ restricted' = FALSE /\ marked' = FALSE
    /\ UNCHANGED <<plugged, stored, config, preferred, ready, runVars, past>>

\* The user terminal has started; nothing takes this back.
TerminalReady ==
    /\ box \in {"attached", "up"} /\ ready' = TRUE
    /\ UNCHANGED <<plugged, stored, config, preferred, restricted, marked, box,
                   runVars, past>>

\* The boot fails: chat only, and a mark for the next visit.
BootFails ==
    /\ box \in {"booting", "attached"} /\ box' = "none"
    /\ restricted' = TRUE /\ marked' = TRUE
    /\ past' = past \cup {"closed"}
    /\ UNCHANGED <<plugged, stored, config, preferred, ready, runVars>>

\* retryContainer: a fresh boot, restricted until it has succeeded.
RetryContainer ==
    /\ containerState = "restricted" /\ box = "none" /\ ~locked
    /\ marked' = FALSE /\ box' = "booting"
    /\ UNCHANGED <<plugged, stored, config, preferred, restricted, ready, runVars, past>>

-----------------------------------------------------------------------------
(* Switches. *)

setModule(c, m, on) == [c EXCEPT !.modules[m] = IF on THEN "on" ELSE "off"]
\* enableAllTools
enableAllTools(c, m) == [setModule(c, m, TRUE) EXCEPT !.off = @ \ toolsOf(m)]

\* Mutant: the panel's copy does not follow the container switch.
containerConfigKept(c, on) == c
\* The copy the panel keeps of what the provider stores.
containerConfig(c, on) ==
    IF on THEN enableAllTools(c, "container") ELSE setModule(c, "container", FALSE)

\* toggleModule of the container, by setContainerEnabled: the provider stores
\* the switch over the configuration it reads.
ToggleContainer ==
    /\ ~locked /\ containerState # "restricted"
    /\ preferred' = ~preferred
    /\ stored' = setModule(stored, "container", preferred')
    /\ config' = containerConfig(config, preferred')
    /\ marked' = (marked /\ ~preferred')
    /\ restricted' = FALSE
    /\ box' = IF preferred' THEN "booting" ELSE "none"
    /\ past' = past \cup (IF preferred' THEN {"reopened"} ELSE {"closed"})
    /\ UNCHANGED <<plugged, ready, runVars>>

\* persistConfig
Persists(c) == config' = c /\ stored' = c

\* toggleModule of another module.
ToggleModule ==
    /\ plugged
    /\ Persists(IF moduleOn("plugin") THEN setModule(config, "plugin", FALSE)
                                      ELSE enableAllTools(config, "plugin"))
    /\ UNCHANGED <<plugged, boxVars, runVars, past>>

\* With the last tool of a module its master switch goes off.
toggled(c, m, t, on) ==
    LET next == [c EXCEPT !.off = IF on THEN @ \ {t} ELSE @ \cup {t}]
    IN  IF ~on /\ toolsOf(m) \subseteq next.off THEN setModule(next, m, FALSE) ELSE next

\* toggleTool, of a row whose module is on.
ToggleTool(m, t) ==
    /\ m \in registered /\ t \in toolsOf(m) /\ moduleOn(m)
    /\ Persists(toggled(config, m, t, ~shownOn(t)))
    /\ past' = IF m = "container" /\ config'.modules[m] = "off"
               THEN past \cup {"halved"} ELSE past
    /\ UNCHANGED <<plugged, boxVars, runVars>>

\* registerModule and unregisterModule of an extension.
Plug ==
    /\ plugged' = ~plugged
    /\ UNCHANGED <<stored, config, boxVars, runVars, past>>

-----------------------------------------------------------------------------
(* Runs. *)

View(s) ==
    /\ viewed' = s
    /\ UNCHANGED <<plugged, stored, config, boxVars, active, past>>

\* Mutant: the composer does not wait for the terminal.
composerOpen == TRUE
\* handleSubmit: with a container the composer waits for the terminal.
composerReady == containerState = "enabled" => ready

\* agentRuntime: the container's own, else the one that only chats.
hasRuntime == containerState = "enabled" /\ box \in {"attached", "up"}

\* startTask: the tools and the runtime of this moment.
Launch ==
    /\ ~locked /\ composerReady
    /\ active' = [active EXCEPT ![viewed] =
                     [tools |-> enabledTools \cap ContainerTools # {},
                      full |-> hasRuntime,
                      on |-> TRUE]]
    /\ past' = IF containerState # "enabled" /\ enabledTools \cap PluginTools # {}
               THEN past \cup {"pulled"} ELSE past
    /\ UNCHANGED <<plugged, stored, config, boxVars, viewed>>

RunEnds(s) ==
    /\ active[s].on /\ active' = [active EXCEPT ![s] = NoRun]
    /\ UNCHANGED <<plugged, stored, config, boxVars, viewed, past>>

CapabilitiesNext ==
    \/ LoadPage
    \/ Attach \/ HostReady \/ TerminalReady \/ BootFails \/ RetryContainer
    \/ ToggleContainer \/ ToggleModule \/ Plug
    \/ \E m \in Modules : \E t \in toolsOf(m) : ToggleTool(m, t)
    \/ \E s \in ChatIds : View(s) \/ RunEnds(s)
    \/ Launch

CapabilitiesSpec == CapabilitiesInit /\ [][CapabilitiesNext]_capabilitiesVars

-----------------------------------------------------------------------------
(* Properties *)

\* What the panel shows as on, the next run is given.  The container's own
\* switch shows its state and not the configuration, so once its last tool was
\* switched off by itself the two part. (CapabilityPanel.tsx :51-56)
ShownIsGiven ==
    "halved" \notin past => \A t \in registeredTools : shownOn(t) => t \in enabledTools

\* The page comes back with the switches it was left with; not after the
\* container was switched on again, when only the panel's copy forgot the tools
\* that were off, nor where a load dropped the switches of an extension that was
\* not there yet. (CapabilityContext.tsx :33-44, 78-84)
SwitchesAreStored ==
    past \cap {"reopened", "dropped"} = {} =>
        \A m \in registered : /\ (stored.modules[m] = "off") = (config.modules[m] = "off")
                              /\ stored.off \cap toolsOf(m) = config.off \cap toolsOf(m)

\* A run that is given container tools has the container's runtime, but for what
\* plugins pull in, and only before the container is first closed or fails, for
\* the terminal's readiness is never taken back. (Workspace.tsx :143)
ToolsHaveRuntime ==
    past \cap {"closed", "pulled"} = {} =>
        \A s \in ChatIds : active[s].tools => active[s].full

\* "Lock the container switch while an Agent run is active ... so a close cannot
\* tear down a running task" (ConfiguredPage.tsx :58-60).
CloseSparesRuns ==
    [][preferred /\ ~preferred' => \A s \in ChatIds : ~active[s].on]_capabilitiesVars

\* The switches, the configuration and what a run is given agree.
\* (CapabilityContext.tsx, registry.ts)
CapabilitiesSound == ShownIsGiven /\ SwitchesAreStored /\ ToolsHaveRuntime
=============================================================================
