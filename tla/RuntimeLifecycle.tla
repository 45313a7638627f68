-------------------------- MODULE RuntimeLifecycle --------------------------
(***************************************************************************)
(* The container of a workspace: its boot, its release when the user turns *)
(* it off, the retry after a failed boot and the forced restart.           *)
(*                                                                         *)
(* Three layers hold state.  webcontainer.ts keeps the container and the   *)
(* promise of its boot, runtimeSingleton.ts the runtime on it, the promise *)
(* of the runtime and that of its host, and the controller of              *)
(* containerAvailability.ts the outcome that the provider acts on.  Each   *)
(* operation captures what it finds, awaits, and goes on with what it      *)
(* captured while other operations have changed the layers.                *)
(*                                                                         *)
(* A call is one operation of the provider.  Where it stands:              *)
(*   waiting    dispose or forced restart await the runtime that is made   *)
(*   saving     they await the two flushes                                 *)
(*   resetting  resetWebContainer awaits a container that boots            *)
(*   released   the release is over;  threw: it threw                      *)
(*   runtime    boot of the controller, or the restart, awaits the runtime *)
(*   host       boot awaits the host                                       *)
(* The saving of snapshots is detailed in WorkspaceSnapshots; here it is a *)
(* set of changes.  The watchdog of the host is left out, and so are the   *)
(* notices to the user.                                                    *)
(***************************************************************************)
EXTENDS Integers, FiniteSets

CONSTANTS
  Call,         \* operations of the user and of the mounted provider
  Edits,        \* changes of files that a container may make
  MaxBoots,     \* bound: runtimes that are made
  MaxFailures   \* bound: boots, hosts and saves that fail

ASSUME LifecycleAssumption == MaxBoots \in Nat \ {0} /\ MaxFailures \in Nat

VARIABLES
  single,       \* the variables of the two modules, see Cleared
  wc,           \* the containers
  rt,           \* the runtimes
  files, disk,  \* changes in a container, and saved
  enabled,      \* the switch
  effect,       \* the effect of the provider: the call it awaits, if any
  booting,      \* of the controller: the call whose outcome is kept
  availability, marked,
  call,
  failures,
  hasty,        \* history: restored during a release, or released before it was restored
  restarted     \* history: a restart was under way together with another call

shown == <<enabled, effect, booting, availability, marked>>
data == <<files, disk>>
history == <<hasty, restarted>>
vars == <<single, wc, rt, data, shown, call, failures, history>>

Id == 1..MaxBoots
None == 0
Nobody == "nobody"
Off == "off"

\* webcontainerInstance and bootPromise of the one, runtimeInstance,
\* runtimePromise and hostBootPromise of the other.
Cleared == [container |-> None, boot |-> None, instance |-> None, promise |-> None, host |-> None]

Init ==
  /\ single = Cleared
  /\ wc = [c \in Id |-> "none"]
  /\ rt = [p \in Id |-> [of |-> None, made |-> "none", host |-> "none", disposed |-> FALSE]]
  /\ files = [c \in Id |-> {}] /\ disk = {}
  /\ enabled = TRUE /\ effect = Nobody /\ booting = Nobody
  /\ availability = "enabled" /\ marked = FALSE
  /\ call = [k \in Call |-> [kind |-> "none", at |-> "idle", on |-> None, out |-> "none"]]
  /\ failures = 0
  /\ hasty = FALSE /\ restarted = FALSE

goTo(k, at, on) == call' = [call EXCEPT ![k].at = at, ![k].on = on]
begin(k, kind, at, on) ==
  call' = [call EXCEPT ![k].kind = kind, ![k].at = at, ![k].on = on]

UnderWay(k) == call[k].at \notin {"idle", "done"}
Releasing(k) == UnderWay(k) /\ call[k].at \in {"waiting", "saving", "resetting"}
restarting == \E k \in Call : call[k].kind = "restart" /\ UnderWay(k)

Fails == failures < MaxFailures /\ failures' = failures + 1
Works == UNCHANGED failures

nextOf(f) == 1 + Cardinality({i \in Id : f[i] # "none"})
nextWc == nextOf(wc)
nextRt == nextOf([p \in Id |-> rt[p].made])

\* getWorkspaceRuntime has a runtime to answer with, or may make one.
mayGet == single.instance # None \/ single.promise # None \/ nextRt \in Id

\* The continuations of one event, in the order of the microtask queue.  A reset
\* awaits the boot itself, the runtime what getWebContainer returns, a retry or a
\* restart the end of its release, and dispose the promise that ends a chain on
\* the runtime: one, two, three to five, and six turns of the queue after the boot.
resetDue == \E k \in Call : call[k].at = "resetting" /\ wc[call[k].on] # "booting"
runtimeDue == \E p \in Id : rt[p].made = "pending" /\ wc[rt[p].of] # "booting"
bootDue == mayGet /\ \E k \in Call :
  \/ call[k].at \in {"released", "threw"} /\ call[k].kind = "retry"
  \/ call[k].at = "released" /\ call[k].kind = "restart"
releaseDue == \E k \in Call : call[k].at = "waiting" /\ rt[call[k].on].made # "pending"

\* Containers and runtimes are settled.
settled == ~resetDue /\ ~runtimeDue

\* Some continuation is due: it runs before the next event of the event loop,
\* be it of the user, a container, a host, a timer or the database.
due ==
  \/ resetDue \/ runtimeDue \/ releaseDue
  \/ \E k \in Call :
       \/ call[k].at = "runtime" /\ rt[call[k].on].made # "pending"
       \/ call[k].at = "host" /\ rt[call[k].on].host \in {"ready", "failed"}
       \/ /\ call[k].at \in {"released", "threw"}
          /\ call[k].kind \in {"retry", "restart"} => mayGet
  \/ /\ effect \in Call /\ call[effect].out # "none"
     /\ call[effect].out = "restricted" => \E k \in Call : call[k].kind = "none"

-----------------------------------------------------------------------------
(* webcontainer.ts *)

\* Mutant: the singleton is cleared whoever holds it.
detachedAnyway(s, c) == [s EXCEPT !.container = None, !.boot = None]

\* detachWebContainer: only while it is still this container.
detached(s, c) == IF s.container = c THEN [s EXCEPT !.container = None, !.boot = None] ELSE s

ContainerBoots(c) ==
  /\ ~due
  /\ wc[c] = "booting"
  /\ wc' = [wc EXCEPT ![c] = "up"]
  /\ single' = [single EXCEPT !.container = c]
  /\ Works /\ UNCHANGED <<rt, data, shown, call, history>>

ContainerFails(c) ==
  /\ ~due
  /\ wc[c] = "booting"
  /\ wc' = [wc EXCEPT ![c] = "failed"]
  /\ single' = [single EXCEPT !.boot = None]
  /\ Fails /\ UNCHANGED <<rt, data, shown, call, history>>

\* The singletons are nulled, then resetWebContainer: it tears down what is
\* there, or waits for what boots.
Resets(k, kind) ==
  LET s == [single EXCEPT !.instance = None, !.promise = None, !.host = None] IN
  IF s.container # None
  THEN /\ single' = [s EXCEPT !.container = None, !.boot = None]
       /\ wc' = [wc EXCEPT ![s.container] = "torn"]
       /\ begin(k, kind, "released", None)
  ELSE /\ single' = s
       /\ UNCHANGED wc
       /\ begin(k, kind, IF s.boot # None THEN "resetting" ELSE "released", s.boot)

ResetEnds(k) ==
  /\ call[k].at = "resetting"
  /\ LET c == call[k].on IN
     /\ wc[c] # "booting"
     /\ IF wc[c] = "failed" THEN goTo(k, "threw", None) /\ UNCHANGED <<single, wc>>
        ELSE /\ goTo(k, "released", None)
             /\ single' = [single EXCEPT !.container = None, !.boot = None]
             /\ wc' = [wc EXCEPT ![c] = "torn"]
  /\ Works /\ UNCHANGED <<rt, data, shown, history>>

-----------------------------------------------------------------------------
(* runtimeSingleton.ts *)

\* What getWorkspaceRuntime answers with, or promises.
target ==
  IF single.instance # None THEN single.instance
  ELSE IF single.promise # None THEN single.promise ELSE nextRt

GetRuntime ==
  IF single.instance # None \/ single.promise # None THEN UNCHANGED <<single, wc, rt>>
  ELSE LET c == IF single.container # None THEN single.container
                ELSE IF single.boot # None THEN single.boot ELSE nextWc IN
       /\ nextRt \in Id
       /\ single' = [single EXCEPT !.promise = nextRt,
                                   !.boot = IF single.container = None THEN c ELSE @]
       /\ rt' = [rt EXCEPT ![nextRt].of = c, ![nextRt].made = "pending"]
       /\ wc' = IF c = nextWc THEN [wc EXCEPT ![c] = "booting"] ELSE wc

\* The container is there: the runtime is installed, its host boots behind it.
RuntimeMade(p) ==
  /\ ~resetDue
  /\ rt[p].made = "pending" /\ wc[rt[p].of] \in {"up", "torn"}
  /\ rt' = [rt EXCEPT ![p].made = "ok", ![p].host = "restoring"]
  /\ single' = [single EXCEPT !.instance = p, !.host = p]
  /\ Works /\ UNCHANGED <<wc, data, shown, call, history>>

RuntimeFails(p) ==
  /\ ~resetDue
  /\ rt[p].made = "pending" /\ wc[rt[p].of] = "failed"
  /\ rt' = [rt EXCEPT ![p].made = "failed"]
  /\ single' = [single EXCEPT !.instance = None, !.promise = None]
  /\ Works /\ UNCHANGED <<wc, data, shown, call, history>>

\* restoreSuccinixFileSnapshot, then bootSuccinixHost.  A container that is torn
\* down restores nothing, and its host never answers.
Restore(p) ==
  /\ ~due
  /\ rt[p].host = "restoring"
  /\ rt' = [rt EXCEPT ![p].host = "booting"]
  /\ IF wc[rt[p].of] = "up" /\ ~rt[p].disposed
     THEN /\ files' = [files EXCEPT ![rt[p].of] = @ \cup disk]
          /\ hasty' = (hasty \/ \E k \in Call : Releasing(k))
     ELSE UNCHANGED <<files, hasty>>
  /\ Works /\ UNCHANGED <<single, wc, disk, shown, call, restarted>>

\* The stored snapshot cannot be read: the boot goes on without it.
RestoreFails(p) ==
  /\ ~due
  /\ rt[p].host = "restoring"
  /\ rt' = [rt EXCEPT ![p].host = "booting"]
  /\ Fails /\ UNCHANGED <<single, wc, data, shown, call, history>>

HostReady(p) ==
  /\ ~due
  /\ rt[p].host = "booting" /\ wc[rt[p].of] = "up"
  /\ rt' = [rt EXCEPT ![p].host = "ready"]
  /\ Works /\ UNCHANGED <<single, wc, data, shown, call, history>>

HostFails(p) ==
  /\ ~due
  /\ rt[p].host = "booting"
  /\ rt' = [rt EXCEPT ![p].host = "failed"]
  /\ IF wc[rt[p].of] = "up" THEN Fails ELSE Works
  /\ UNCHANGED <<single, wc, data, shown, call, history>>

\* A file of a container changes, and its runtime saves now and then.
Write(p, ch) ==
  /\ ~due
  /\ rt[p].made = "ok" /\ ~rt[p].disposed /\ wc[rt[p].of] = "up"
  /\ rt[p].host \notin {"none", "restoring"}
  /\ \A c \in Id : ch \notin files[c]
  /\ files' = [files EXCEPT ![rt[p].of] = @ \cup {ch}]
  /\ Works /\ UNCHANGED <<single, wc, rt, disk, shown, call, history>>

Save(p) ==
  /\ ~due
  /\ rt[p].host = "ready" /\ ~rt[p].disposed /\ wc[rt[p].of] = "up"
  /\ disk' = files[rt[p].of]
  /\ Works /\ UNCHANGED <<single, wc, rt, files, shown, call, history>>

\* disposeWorkspaceRuntime once it has the runtime: singletons first, then flush.
disowned(s, p) ==
  detached([s EXCEPT !.instance = None, !.promise = None, !.host = None], rt[p].of)

Captures(k, kind, p) ==
  /\ begin(k, kind, "saving", p)
  /\ single' = IF kind = "restart" THEN single ELSE disowned(single, p)
  /\ UNCHANGED wc

\* Both begin alike: the runtime, or the one that is made, or none.
Takes(k, kind) ==
  /\ IF single.instance # None THEN Captures(k, kind, single.instance)
     ELSE IF single.promise # None
          THEN begin(k, kind, "waiting", single.promise) /\ UNCHANGED <<single, wc>>
     ELSE Resets(k, kind)
  /\ restarted' = (restarted \/ restarting \/ (kind = "restart" /\ \E j \in Call : UnderWay(j)))

Awaited(k) ==
  /\ settled
  /\ call[k].at = "waiting"
  /\ LET p == call[k].on IN
     \/ rt[p].made = "ok" /\ ~bootDue /\ Captures(k, call[k].kind, p)
     \/ rt[p].made = "failed" /\ goTo(k, "threw", None) /\ UNCHANGED <<single, wc>>
  /\ Works /\ UNCHANGED <<rt, data, shown, history>>

\* Mutant: only a runtime whose host is up is flushed.
flushedReady(p) == IF rt[p].disposed \/ rt[p].host # "ready" THEN disk ELSE files[rt[p].of]

\* A runtime that is disposed has nothing left to flush.
flushed(p) == IF rt[p].disposed \/ wc[rt[p].of] # "up" THEN disk ELSE files[rt[p].of]

\* Mutant: the container is torn down only while it is the one handed out.
SavedIfCurrent(k) ==
  /\ ~due
  /\ call[k].at = "saving"
  /\ LET p == call[k].on IN
     /\ disk' = flushed(p)
     /\ hasty' = (hasty \/ rt[p].host = "restoring")
     /\ rt' = [rt EXCEPT ![p].disposed = TRUE]
     /\ IF call[k].kind = "restart" \/ single.container = rt[p].of
        THEN Resets(k, call[k].kind)
        ELSE goTo(k, "released", None) /\ UNCHANGED <<single, wc>>
  /\ Works /\ UNCHANGED <<files, shown, restarted>>

\* The flushes are over: the runtime is disposed, its container torn down.
Saved(k) ==
  /\ ~due
  /\ call[k].at = "saving"
  /\ LET p == call[k].on IN
     /\ disk' = flushed(p)
     /\ hasty' = (hasty \/ rt[p].host = "restoring")
     /\ rt' = [rt EXCEPT ![p].disposed = TRUE]
     /\ IF call[k].kind = "restart"
        THEN Resets(k, "restart")
        ELSE /\ goTo(k, "released", None)
             /\ single' = detached(single, rt[p].of)
             /\ wc' = [wc EXCEPT ![rt[p].of] = "torn"]
  /\ Works /\ UNCHANGED <<files, shown, restarted>>

SaveFails(k) ==
  /\ ~due
  /\ call[k].at = "saving" /\ ~rt[call[k].on].disposed
  /\ goTo(k, "threw", None)
  /\ Fails /\ UNCHANGED <<single, wc, rt, data, shown, history>>

-----------------------------------------------------------------------------
(* ContainerAvailabilityController *)

\* boot awaits the runtime, whoever made it.
Boots(k, kind) == GetRuntime /\ begin(k, kind, "runtime", target)

Concludes(k, outcome, mark) ==
  /\ call' = [call EXCEPT ![k].at = "done", ![k].on = None, ![k].out = outcome]
  /\ availability' = outcome
  /\ marked' = mark

\* waitForWorkspaceHostReady: the host of the runtime that is installed by now.
RuntimeThere(k) ==
  /\ settled
  /\ call[k].at = "runtime" /\ call[k].kind # "restart"
  /\ LET p == call[k].on IN
     IF rt[p].made = "ok" /\ single.host # None
     THEN goTo(k, "host", single.host) /\ UNCHANGED <<availability, marked>>
     ELSE /\ rt[p].made # "pending"
          /\ Concludes(k, "restricted", rt[p].made = "failed" \/ marked)
  /\ Works /\ UNCHANGED <<single, wc, rt, data, enabled, effect, booting, history>>

\* Mutant: the host that fails is waited for.
HostReadyOnly(k) ==
  /\ settled
  /\ call[k].at = "host" /\ rt[call[k].on].host = "ready"
  /\ Concludes(k, "enabled", FALSE)
  /\ Works /\ UNCHANGED <<single, wc, rt, data, enabled, effect, booting, history>>

HostThere(k) ==
  /\ settled
  /\ call[k].at = "host"
  /\ LET h == rt[call[k].on].host IN
     \/ h = "ready" /\ Concludes(k, "enabled", FALSE)
     \/ h = "failed" /\ Concludes(k, "restricted", TRUE)
  /\ Works /\ UNCHANGED <<single, wc, rt, data, enabled, effect, booting, history>>

-----------------------------------------------------------------------------
(* WorkspaceRuntimeProvider *)

\* The effect: nothing boots while the switch is off or the mark is set; the
\* outcome is that of the boot that is kept, or of a new one.
Mounts(k, on, mark) ==
  /\ enabled' = on /\ marked' = mark
  /\ IF ~on \/ mark
     THEN effect' = Off /\ UNCHANGED <<single, wc, rt, call, booting>>
     ELSE IF booting # Nobody
          THEN effect' = booting /\ GetRuntime /\ UNCHANGED <<call, booting>>
     ELSE /\ call[k].kind = "none"
          /\ Boots(k, "boot")
          /\ effect' = k /\ booting' = k
  /\ Works /\ UNCHANGED <<data, availability, history>>

Mount(k) == ~due /\ effect = Nobody /\ Mounts(k, enabled, marked)

\* The effect learns the outcome; a restricted one releases the runtime.
Shown(k) ==
  /\ settled /\ ~releaseDue
  /\ effect \in Call /\ call[effect].out # "none"
  /\ effect' = Off
  /\ IF call[effect].out = "restricted"
     THEN call[k].kind = "none" /\ Takes(k, "release")
     ELSE UNCHANGED <<single, wc, call, restarted>>
  /\ Works /\ UNCHANGED <<rt, data, enabled, booting, availability, marked, hasty>>

\* A change of the language runs the effect again.
LanguageChange(k) == ~due /\ effect # Nobody /\ Mounts(k, enabled, marked)

SwitchOn(k) == ~due /\ ~enabled /\ Mounts(k, TRUE, FALSE)

SwitchOff(k) ==
  /\ ~due
  /\ enabled /\ call[k].kind = "none"
  /\ enabled' = FALSE /\ effect' = Off
  /\ Takes(k, "close")
  /\ Works /\ UNCHANGED <<rt, data, booting, availability, marked, hasty>>

Retry(k) ==
  /\ ~due
  /\ enabled /\ call[k].kind = "none"
  /\ availability = "restricted" \/ marked
  /\ marked' = FALSE
  /\ Takes(k, "retry")
  /\ Works /\ UNCHANGED <<rt, data, enabled, effect, booting, availability, hasty>>

ForceRestart(k) ==
  /\ ~due
  /\ call[k].kind = "none" /\ single.instance # None
  /\ ~restarting
  /\ Takes(k, "restart")
  /\ Works /\ UNCHANGED <<rt, data, shown, hasty>>

\* What follows a release.
Finish(k) == call' = [call EXCEPT ![k].at = "done", ![k].on = None]

\* A close that did not throw resets the controller.
CloseEnds(k) ==
  /\ settled
  /\ call[k].kind \in {"close", "release"} /\ call[k].at \in {"released", "threw"}
  /\ Finish(k)
  /\ IF call[k].kind = "close" /\ call[k].at = "released"
     THEN booting' = Nobody /\ availability' = "enabled"
     ELSE UNCHANGED <<booting, availability>>
  /\ Works /\ UNCHANGED <<single, wc, rt, data, enabled, effect, marked, history>>

\* Released or not, the controller retries.
RetryBoots(k) ==
  /\ settled
  /\ call[k].kind = "retry" /\ call[k].at \in {"released", "threw"}
  /\ Boots(k, "retry")
  /\ marked' = FALSE /\ booting' = Nobody
  /\ Works /\ UNCHANGED <<data, enabled, effect, availability, history>>

RestartGoesOn(k) ==
  /\ settled
  /\ call[k].kind = "restart"
  /\ \/ call[k].at = "released" /\ Boots(k, "restart")
     \/ call[k].at = "threw" /\ Finish(k) /\ UNCHANGED <<single, wc, rt>>
     \/ call[k].at = "runtime" /\ rt[call[k].on].made # "pending" /\ Finish(k)
        /\ UNCHANGED <<single, wc, rt>>
  /\ Works /\ UNCHANGED <<data, shown, history>>

-----------------------------------------------------------------------------
Outcomes(i) ==
  \/ ContainerBoots(i) \/ ContainerFails(i) \/ RuntimeMade(i) \/ RuntimeFails(i)
  \/ Restore(i) \/ RestoreFails(i) \/ HostReady(i) \/ HostFails(i)

Proceeds(k) ==
  \/ ResetEnds(k) \/ Awaited(k) \/ Saved(k) \/ SaveFails(k)
  \/ RuntimeThere(k) \/ HostThere(k)
  \/ CloseEnds(k) \/ RetryBoots(k) \/ RestartGoesOn(k)

User ==
  \/ \E p \in Id : Save(p) \/ \E ch \in Edits : Write(p, ch)
  \/ \E k \in Call :
       SwitchOn(k) \/ LanguageChange(k) \/ SwitchOff(k) \/ Retry(k) \/ ForceRestart(k)

Next ==
  \/ \E i \in Id : Outcomes(i)
  \/ \E k \in Call : Proceeds(k) \/ Mount(k) \/ Shown(k)
  \/ User

Spec == Init /\ [][Next]_vars

\* A boot, a host and a save answer one way or the other, and what awaits goes on.
\* An answer stays in the queue of events while continuations run, and is taken
\* although it can be taken only in between: strong fairness.  None answers twice,
\* so that fairness to all of them together is fairness to each.
Fairness ==
  /\ SF_vars((\E i \in Id : Outcomes(i)) \/ \E k \in Call : Proceeds(k))
  /\ WF_vars(\E k \in Call : Shown(k))

FairSpec == Spec /\ Fairness

-----------------------------------------------------------------------------
TypeOK ==
  /\ \A f \in DOMAIN single : single[f] \in Id \cup {None}
  /\ \A c \in Id : wc[c] \in {"none", "booting", "up", "failed", "torn"}
  /\ \A p \in Id : rt[p].of \in Id \cup {None}
  /\ files \in [Id -> SUBSET Edits] /\ disk \subseteq Edits

\* The two layers agree: the runtime that is handed out is not disposed, and its
\* container is up and is the one that getWebContainer hands out.
InstalledIsLive ==
  single.instance # None /\ ~restarted =>
    /\ ~rt[single.instance].disposed
    /\ wc[rt[single.instance].of] = "up"
    /\ single.container = rt[single.instance].of

\* Nothing is under way, and the effect knows its outcome.
AtRest ==
  /\ effect = Off /\ \A k \in Call : ~UnderWay(k)
  /\ \A c \in Id : wc[c] # "booting"

\* Nothing is leaked: unless a save failed, a container that is still up when
\* all calls are over is the one that getWebContainer hands out.
NoContainerLeaks ==
  AtRest /\ failures = 0 => \A c \in Id : wc[c] = "up" => single.container = c

\* Every change made in a container that was released is saved, unless one was
\* restored before another had saved, or released before it was restored.
ReleasedIsSaved ==
  ~hasty /\ failures = 0 => \A c \in Id : wc[c] = "torn" => files[c] \subseteq disk

\* Every operation ends, whatever the others do to what it awaits.
CallsEnd == \A k \in Call : UnderWay(k) ~> ~UnderWay(k) \/ nextRt \notin Id

\* The installed runtime runs, and no container runs that nobody can reach.
RuntimesSound == InstalledIsLive /\ NoContainerLeaks

\* What was saved is not lost by turning the container off.  Refuted by TLC: a
\* close before the restoration has ended saves the system files it found.
SavedStays == [][failures = 0 => disk \subseteq disk']_vars
=============================================================================
