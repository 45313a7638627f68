---------------------------- MODULE MutationLease ----------------------------
(***************************************************************************)
(* ContainerMutationLease: a lock per container made of a chain of         *)
(* promises.  A call of run takes the promise queued for its container as  *)
(* its predecessor, queues its own (which resolves when the predecessor's  *)
(* is resolved and its gate is released) and awaits the predecessor.       *)
(*                                                                         *)
(* queues[k] is the call whose promise the map holds for container k, and  *)
(* prev[o] the call o waits for.  arrival numbers the calls in the order   *)
(* they were made; the code keeps no such number.                          *)
(***************************************************************************)
EXTENDS Integers

CONSTANTS
  Op,            \* the calls of run
  Container,
  containerOf,   \* the containerId of each call
  None           \* no entry in the map, no predecessor

ASSUME LeaseAssumption ==
  /\ containerOf \in [Op -> Container]
  /\ None \notin Op

VARIABLES pc, queues, prev, arrival, clock

leaseVars == <<pc, queues, prev, arrival, clock>>

LeaseInit ==
  /\ pc = [o \in Op |-> "idle"]
  /\ queues = [k \in Container |-> None]
  /\ prev = [o \in Op |-> None]
  /\ arrival = [o \in Op |-> 0]
  /\ clock = 0

\* Mutant: the map keeps the first call instead of the last.
RequestKeepsFirst(o) ==
  LET k == containerOf[o]
  IN /\ pc[o] = "idle"
     /\ pc' = [pc EXCEPT ![o] = "waiting"]
     /\ prev' = [prev EXCEPT ![o] = queues[k]]
     /\ queues' = IF queues[k] = None THEN [queues EXCEPT ![k] = o] ELSE queues
     /\ clock' = clock + 1
     /\ arrival' = [arrival EXCEPT ![o] = clock + 1]

\* run up to its await of the predecessor.
Request(o) ==
  LET k == containerOf[o]
  IN /\ pc[o] = "idle"
     /\ pc' = [pc EXCEPT ![o] = "waiting"]
     /\ prev' = [prev EXCEPT ![o] = queues[k]]
     /\ queues' = [queues EXCEPT ![k] = o]
     /\ clock' = clock + 1
     /\ arrival' = [arrival EXCEPT ![o] = clock + 1]

\* Mutants: the predecessor is awaited only until it starts, or for ever.
resolvedAtStart(p) == p # None => pc[p] # "waiting"
neverResolved(p) == p = None

\* The promise of a call is resolved once its gate is released: it was only
\* started when the promise of its own predecessor was resolved.
resolved(p) == p # None => pc[p] = "done"

Start(o) ==
  /\ pc[o] = "waiting"
  /\ resolved(prev[o])
  /\ pc' = [pc EXCEPT ![o] = "running"]
  /\ UNCHANGED <<queues, prev, arrival, clock>>

\* Mutant: the entry of the map is never dropped.
FinishKeepsEntry(o) ==
  /\ pc[o] = "running"
  /\ pc' = [pc EXCEPT ![o] = "done"]
  /\ UNCHANGED <<queues, prev, arrival, clock>>

\* Mutant: the entry is dropped without asking whose it is.
FinishDropsAlways(o) ==
  /\ pc[o] = "running"
  /\ pc' = [pc EXCEPT ![o] = "done"]
  /\ queues' = [queues EXCEPT ![containerOf[o]] = None]
  /\ UNCHANGED <<prev, arrival, clock>>

\* The operation resolves or rejects; the finally releases the gate, and
\* drops the entry of the map if it is still the call's own.
Finish(o) ==
  LET k == containerOf[o]
  IN /\ pc[o] = "running"
     /\ pc' = [pc EXCEPT ![o] = "done"]
     /\ queues' = IF queues[k] = o THEN [queues EXCEPT ![k] = None] ELSE queues
     /\ UNCHANGED <<prev, arrival, clock>>

LeaseNext == \E o \in Op : Request(o) \/ Start(o) \/ Finish(o)

LeaseSpec == LeaseInit /\ [][LeaseNext]_leaseVars

\* A resolved promise runs its continuation, and operations end: an
\* operation is a tool call with limits of its own.
LeaseFair == LeaseSpec /\ \A o \in Op : WF_leaseVars(Start(o)) /\ WF_leaseVars(Finish(o))

-----------------------------------------------------------------------------
(* Properties *)

LeaseTypeOK ==
  /\ pc \in [Op -> {"idle", "waiting", "running", "done"}]
  /\ queues \in [Container -> Op \cup {None}]
  /\ prev \in [Op -> Op \cup {None}]
  /\ arrival \in [Op -> Nat]
  /\ clock \in Nat

sameContainer(a, b) == containerOf[a] = containerOf[b]
active(o) == pc[o] \in {"waiting", "running"}

\* Two operations on one container never overlap, although a finishing call
\* may drop the map entry while others are queued behind it.
MutualExclusion ==
  \A a, b \in Op :
    pc[a] = "running" /\ pc[b] = "running" /\ sameContainer(a, b) => a = b

\* Operations of one container start in the order run was called.
StartsInOrder ==
  [][\A a, b \in Op :
       /\ pc[a] = "waiting" /\ pc'[a] = "running"
       /\ sameContainer(a, b) /\ active(b) /\ a # b
       => arrival[a] < arrival[b]]_leaseVars

\* When no call of a container is pending the map holds no entry for it.
NoEntryLeft ==
  \A k \in Container :
    queues[k] # None <=> \E o \in Op : active(o) /\ containerOf[o] = k

\* Every call gets its turn.
EveryCallRuns == \A o \in Op : pc[o] = "waiting" ~> pc[o] = "done"

-----------------------------------------------------------------------------
(* The inductive invariant behind MutualExclusion and StartsInOrder *)

requested(o) == pc[o] # "idle"

\* The call whose turn it is.
front(o) == active(o) /\ resolved(prev[o])

ArrivalOrder ==
  /\ \A o \in Op : requested(o) <=> arrival[o] # 0
  /\ \A o \in Op : arrival[o] <= clock
  /\ \A a, b \in Op : requested(a) /\ arrival[a] = arrival[b] => a = b

\* The predecessor of a call is the last one before it on its container.
PrevIsPredecessor ==
  \A o \in Op : prev[o] # None =>
    /\ requested(o) /\ requested(prev[o])
    /\ sameContainer(prev[o], o)
    /\ arrival[prev[o]] < arrival[o]
    /\ \A x \in Op : sameContainer(x, o) =>
         ~(arrival[prev[o]] < arrival[x] /\ arrival[x] < arrival[o])

\* The map holds the last call of a container, as long as one is pending.
TailIsLast ==
  \A k \in Container :
    /\ queues[k] # None =>
         /\ active(queues[k])
         /\ containerOf[queues[k]] = k
         /\ \A x \in Op : containerOf[x] = k => arrival[x] <= arrival[queues[k]]
    /\ queues[k] = None => \A x \in Op : containerOf[x] = k => ~active(x)

FrontIsFirst ==
  \A a, b \in Op :
    front(a) /\ active(b) /\ sameContainer(a, b) => arrival[a] <= arrival[b]

RunningIsFront == \A o \in Op : pc[o] = "running" => front(o)

LeaseInv ==
  /\ LeaseTypeOK
  /\ ArrivalOrder
  /\ PrevIsPredecessor
  /\ TailIsLast
  /\ FrontIsFirst
  /\ RunningIsFront

\* Operations of one container exclude one another and start in the order of
\* their calls. (ContainerMutationLease.run)
LeaseSound == []MutualExclusion /\ StartsInOrder
=============================================================================
