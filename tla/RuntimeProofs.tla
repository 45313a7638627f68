----------------------------- MODULE RuntimeProofs -----------------------------
(***************************************************************************)
(* The machines of the runtime and its files, for any number of processes, *)
(* files, calls and failures: the lease of mutations, updates of files,    *)
(* system files and shell processes.  They share no state, so each section *)
(* proves about one of them.                                               *)
(***************************************************************************)
EXTENDS MutationLease, FileUpdates, SystemFiles, ServicePorts, ProcessTable, FileBrowser,
        SequenceTheorems, FiniteSetTheorems, TLAPS

-----------------------------------------------------------------------------
(***************************************************************************)
(* MutualExclusion, StartsInOrder and NoEntryLeft for any number of calls  *)
(* and containers.                                                         *)
(*                                                                         *)
(* The argument is that of a ticket lock, although the code draws no       *)
(* ticket: arrival orders the calls, each waits for the last one before    *)
(* it on its container (PrevIsPredecessor), so the only call whose         *)
(* predecessor is done is the earliest pending one (FrontIsFirst).  The    *)
(* delicate step is Finish, which may drop the entry of the map: it does   *)
(* so only when it is both the first and the last pending call.            *)
(***************************************************************************)

USE LeaseAssumption

THEOREM InitLeaseInv == LeaseInit => LeaseInv
  BY DEF LeaseInit, LeaseInv, LeaseTypeOK, ArrivalOrder, requested, PrevIsPredecessor,
         TailIsLast, FrontIsFirst, RunningIsFront, front, active

(***************************************************************************)
(* Request gives the call the greatest number, so it disturbs no relation  *)
(* between the calls made before.                                          *)
(***************************************************************************)
LEMMA RequestKeepsLeaseInv ==
  ASSUME LeaseInv, NEW o \in Op, Request(o)
  PROVE  LeaseInv'
<1> DEFINE k == containerOf[o]
<1>0. /\ LeaseTypeOK /\ ArrivalOrder /\ PrevIsPredecessor
      /\ TailIsLast /\ FrontIsFirst /\ RunningIsFront
      /\ k \in Container
  BY DEF LeaseInv
<1>1. LeaseTypeOK'
  BY <1>0 DEF LeaseTypeOK, Request
<1>2. \A x \in Op : /\ x # o => arrival'[x] = arrival[x] /\ pc'[x] = pc[x] /\ prev'[x] = prev[x]
                    /\ arrival'[o] = clock + 1 /\ pc'[o] = "waiting" /\ prev'[o] = queues[k]
                    /\ arrival[x] <= clock /\ arrival[x] \in Nat /\ clock \in Nat
                    /\ prev[x] # o
  BY <1>0 DEF LeaseTypeOK, Request, ArrivalOrder, PrevIsPredecessor, requested
<1>3. pc[o] = "idle" /\ arrival[o] = 0 /\ prev[o] = None
  BY <1>0 DEF LeaseTypeOK, Request, ArrivalOrder, PrevIsPredecessor, requested
<1>4. ArrivalOrder'
  BY <1>0, <1>2, <1>3 DEF ArrivalOrder, requested, Request
<1>5. queues[k] # None =>
        /\ queues[k] \in Op /\ queues[k] # o /\ active(queues[k])
        /\ sameContainer(queues[k], o)
        /\ \A x \in Op : sameContainer(x, o) => arrival[x] <= arrival[queues[k]]
  BY <1>0, <1>3 DEF TailIsLast, LeaseTypeOK, active, sameContainer
<1>6. PrevIsPredecessor'
  <2> SUFFICES ASSUME NEW x \in Op, prev'[x] # None
               PROVE  /\ requested(x)' /\ requested(prev[x])'
                      /\ sameContainer(prev'[x], x)
                      /\ arrival'[prev'[x]] < arrival'[x]
                      /\ \A y \in Op : sameContainer(y, x) =>
                           ~(arrival'[prev'[x]] < arrival'[y] /\ arrival'[y] < arrival'[x])
    BY DEF PrevIsPredecessor, sameContainer
  <2>1. CASE x = o
    BY <2>1, <1>2, <1>3, <1>5 DEF requested, active
  <2>2. CASE x # o
    <3>1. prev[x] \in Op /\ prev[x] # o /\ x # o
      BY <2>2, <1>0, <1>2 DEF LeaseTypeOK
    <3> QED BY <3>1, <1>0, <1>2 DEF PrevIsPredecessor, requested
  <2> QED BY <2>1, <2>2
<1>7. TailIsLast'
  <2>1. \A c \in Container : queues'[c] = IF c = k THEN o ELSE queues[c]
    BY <1>0 DEF Request, LeaseTypeOK
  <2>2. queues'[k] = o /\ \A x \in Op : arrival'[x] <= arrival'[o]
    BY <2>1, <1>0, <1>2
  <2>3. ASSUME NEW c \in Container, c # k, queues[c] # None
        PROVE  /\ queues[c] \in Op /\ pc'[queues[c]] \in {"waiting", "running"}
               /\ containerOf[queues[c]] = c
               /\ \A x \in Op : containerOf[x] = c => arrival'[x] <= arrival'[queues[c]]
    <3>1. queues[c] \in Op /\ containerOf[queues[c]] = c /\ queues[c] # o
      BY <2>3, <1>0 DEF TailIsLast, LeaseTypeOK
    <3> QED BY <2>3, <3>1, <1>0, <1>2 DEF TailIsLast, active
  <2>4. ASSUME NEW c \in Container, c # k, queues[c] = None
        PROVE  \A x \in Op : containerOf[x] = c => ~active(x)'
    BY <2>4, <1>0, <1>2 DEF TailIsLast, active
  <2>5. active(o)'
    BY <1>2 DEF active
  <2> QED BY <2>1, <2>2, <2>3, <2>4, <2>5 DEF TailIsLast, active
<1>8. ASSUME NEW a \in Op, a # o, front(a)' PROVE front(a)
  BY <1>8, <1>0, <1>2 DEF front, active, resolved, LeaseTypeOK
<1>9. FrontIsFirst'
  <2> SUFFICES ASSUME NEW a \in Op, NEW b \in Op, front(a)', active(b)', sameContainer(a, b)
               PROVE  arrival'[a] <= arrival'[b]
    BY DEF FrontIsFirst, sameContainer
  <2>1. CASE b = o
    BY <2>1, <1>2
  <2>2. CASE a = o /\ b # o
    <3>1. active(b) /\ containerOf[b] = k
      BY <2>2, <1>2 DEF active, sameContainer
    <3>2. queues[k] # None
      BY <3>1, <1>0 DEF TailIsLast
    <3>3. pc'[queues[k]] = "done"
      BY <2>2, <3>2, <1>2 DEF front, resolved
    <3> QED BY <3>2, <3>3, <1>2, <1>5 DEF active
  <2>3. CASE a # o /\ b # o
    BY <2>3, <1>0, <1>2, <1>8 DEF FrontIsFirst, active
  <2> QED BY <2>1, <2>2, <2>3
<1>10. RunningIsFront'
  <2> SUFFICES ASSUME NEW a \in Op, pc'[a] = "running" PROVE front(a)'
    BY DEF RunningIsFront
  <2>1. a # o /\ front(a)
    BY <1>0, <1>2 DEF RunningIsFront
  <2>2. prev[a] # None => prev[a] \in Op /\ prev[a] # o
    BY <1>0, <1>2 DEF LeaseTypeOK
  <2> QED BY <2>1, <2>2, <1>2 DEF front, active, resolved
<1> QED BY <1>1, <1>4, <1>6, <1>7, <1>9, <1>10 DEF LeaseInv

(***************************************************************************)
(* Start only moves the call from waiting to running: every call is as     *)
(* active and as resolved as before.                                       *)
(***************************************************************************)
LEMMA StartKeepsLeaseInv ==
  ASSUME LeaseInv, NEW o \in Op, Start(o)
  PROVE  LeaseInv'
<1>0. /\ LeaseTypeOK /\ ArrivalOrder /\ PrevIsPredecessor
      /\ TailIsLast /\ FrontIsFirst /\ RunningIsFront
  BY DEF LeaseInv
<1>1. LeaseTypeOK' /\ UNCHANGED <<queues, prev, arrival, clock>>
  BY <1>0 DEF LeaseTypeOK, Start
<1>2. \A x \in Op : /\ active(x)' <=> active(x)
                    /\ requested(x)' <=> requested(x)
                    /\ pc'[x] = "done" <=> pc[x] = "done"
  BY <1>0 DEF LeaseTypeOK, Start, active, requested
<1>3. \A x \in Op : front(x)' <=> front(x)
  BY <1>0, <1>1, <1>2 DEF front, resolved, LeaseTypeOK
<1>4. ArrivalOrder'
  BY <1>0, <1>1, <1>2 DEF ArrivalOrder
<1>5. PrevIsPredecessor'
  BY <1>0, <1>1, <1>2 DEF PrevIsPredecessor, LeaseTypeOK, sameContainer
<1>6. TailIsLast'
  BY <1>0, <1>1, <1>2 DEF TailIsLast, LeaseTypeOK
<1>7. FrontIsFirst'
  BY <1>0, <1>1, <1>2, <1>3 DEF FrontIsFirst, sameContainer
<1>8. RunningIsFront'
  <2>1. front(o)
    BY DEF Start, front, active
  <2> QED BY <2>1, <1>0, <1>3 DEF RunningIsFront, Start, LeaseTypeOK
<1> QED BY <1>1, <1>4, <1>5, <1>6, <1>7, <1>8 DEF LeaseInv

(***************************************************************************)
(* Finish makes the next call the front.  It is the earliest of those      *)
(* left, because nothing arrived between it and its predecessor.           *)
(***************************************************************************)
LEMMA FinishKeepsLeaseInv ==
  ASSUME LeaseInv, NEW o \in Op, Finish(o)
  PROVE  LeaseInv'
<1> DEFINE k == containerOf[o]
<1>0. /\ LeaseTypeOK /\ ArrivalOrder /\ PrevIsPredecessor
      /\ TailIsLast /\ FrontIsFirst /\ RunningIsFront
      /\ k \in Container
  BY DEF LeaseInv
<1>1. LeaseTypeOK' /\ UNCHANGED <<prev, arrival, clock>>
  BY <1>0 DEF LeaseTypeOK, Finish
<1>2. /\ pc[o] = "running" /\ pc'[o] = "done" /\ active(o) /\ front(o)
      /\ \A x \in Op : x # o => pc'[x] = pc[x]
  BY <1>0 DEF LeaseTypeOK, Finish, active, RunningIsFront
<1>3. \A x \in Op : /\ requested(x)' <=> requested(x)
                    /\ active(x)' => active(x) /\ x # o
                    /\ active(x) /\ x # o => active(x)'
                    /\ arrival[x] \in Nat
  BY <1>0, <1>2 DEF requested, active, LeaseTypeOK
<1>4. ArrivalOrder'
  BY <1>0, <1>1, <1>3 DEF ArrivalOrder
<1>5. PrevIsPredecessor'
  BY <1>0, <1>1, <1>3 DEF PrevIsPredecessor, LeaseTypeOK, sameContainer
<1>6. ASSUME NEW x \in Op, active(x), sameContainer(x, o), x # o
      PROVE  arrival[o] < arrival[x]
  <2>1. arrival[o] <= arrival[x]
    BY <1>6, <1>0, <1>2 DEF FrontIsFirst, sameContainer
  <2>2. arrival[o] # arrival[x]
    BY <1>6, <1>0, <1>2 DEF ArrivalOrder, requested
  <2> QED BY <2>1, <2>2, <1>3
<1>7. TailIsLast'
  <2>1. CASE queues[k] = o
    <3>1. \A c \in Container : queues'[c] = IF c = k THEN None ELSE queues[c]
      BY <2>1, <1>0 DEF Finish, LeaseTypeOK
    <3>2. \A x \in Op : containerOf[x] = k => ~active(x)'
      BY <2>1, <1>0, <1>3, <1>6 DEF TailIsLast, sameContainer
    <3>3. \A c \in Container : c # k /\ queues[c] # None => queues[c] \in Op /\ queues[c] # o
      BY <1>0 DEF TailIsLast, LeaseTypeOK
    <3> QED BY <3>1, <3>2, <3>3, <1>0, <1>1, <1>3 DEF TailIsLast
  <2>2. CASE queues[k] # o
    <3>1. queues' = queues
      BY <2>2 DEF Finish
    <3>2. \A c \in Container : queues[c] # None => queues[c] \in Op /\ queues[c] # o
      BY <2>2, <1>0 DEF TailIsLast, LeaseTypeOK
    <3> QED BY <3>1, <3>2, <1>0, <1>1, <1>3 DEF TailIsLast
  <2> QED BY <2>1, <2>2
<1>8. ASSUME NEW a \in Op, front(a)' PROVE front(a) \/ prev[a] = o
  BY <1>8, <1>0, <1>1, <1>2, <1>3 DEF front, resolved, LeaseTypeOK
<1>9. FrontIsFirst'
  <2> SUFFICES ASSUME NEW a \in Op, NEW b \in Op, front(a)', active(b)', sameContainer(a, b)
               PROVE  arrival[a] <= arrival[b]
    BY <1>1 DEF FrontIsFirst, sameContainer
  <2>1. CASE front(a)
    BY <2>1, <1>0, <1>3 DEF FrontIsFirst
  <2>2. CASE prev[a] = o
    <3>1. /\ sameContainer(o, a)
          /\ ~(arrival[o] < arrival[b] /\ arrival[b] < arrival[a])
      BY <2>2, <1>0 DEF PrevIsPredecessor, sameContainer
    <3>2. arrival[o] < arrival[b]
      BY <3>1, <1>3, <1>6 DEF sameContainer
    <3> QED BY <3>1, <3>2, <1>3
  <2> QED BY <2>1, <2>2, <1>8
<1>10. RunningIsFront'
  <2> SUFFICES ASSUME NEW a \in Op, pc'[a] = "running" PROVE front(a)'
    BY DEF RunningIsFront
  <2>1. a # o /\ front(a)
    BY <1>0, <1>2 DEF RunningIsFront
  <2> QED BY <2>1, <1>0, <1>1, <1>2, <1>3 DEF front, resolved, LeaseTypeOK
<1> QED BY <1>1, <1>4, <1>5, <1>7, <1>9, <1>10 DEF LeaseInv

\* The inductive invariant holds in every reachable state of the lease.
THEOREM LeaseInvariant == LeaseSpec => []LeaseInv
<1>1. LeaseInv /\ [LeaseNext]_leaseVars => LeaseInv'
  <2> SUFFICES ASSUME LeaseInv, [LeaseNext]_leaseVars PROVE LeaseInv'
    OBVIOUS
  <2>1. ASSUME NEW o \in Op, Request(o) PROVE LeaseInv'
    BY <2>1, RequestKeepsLeaseInv
  <2>2. ASSUME NEW o \in Op, Start(o) PROVE LeaseInv'
    BY <2>2, StartKeepsLeaseInv
  <2>3. ASSUME NEW o \in Op, Finish(o) PROVE LeaseInv'
    BY <2>3, FinishKeepsLeaseInv
  <2>4. CASE UNCHANGED leaseVars
    BY <2>4 DEF leaseVars, LeaseInv, LeaseTypeOK, ArrivalOrder, requested, PrevIsPredecessor, sameContainer,
                TailIsLast, FrontIsFirst, RunningIsFront, front, active, resolved
  <2> QED BY <2>1, <2>2, <2>3, <2>4 DEF LeaseNext
<1> QED BY InitLeaseInv, <1>1, PTL DEF LeaseSpec

\* Two operations on one container never run at the same time
\* (ContainerMutationLease.run), whatever the number of calls.
THEOREM LeaseExcludes == LeaseSpec => []MutualExclusion
<1>1. LeaseInv => MutualExclusion
  <2> SUFFICES ASSUME LeaseInv, NEW a \in Op, NEW b \in Op,
                      pc[a] = "running", pc[b] = "running", sameContainer(a, b)
               PROVE  a = b
    BY DEF MutualExclusion
  <2>1. front(a) /\ front(b) /\ active(a) /\ active(b) /\ sameContainer(b, a)
    BY DEF LeaseInv, RunningIsFront, front, sameContainer
  <2>2. arrival[a] <= arrival[b] /\ arrival[b] <= arrival[a]
    BY <2>1 DEF LeaseInv, FrontIsFirst
  <2>3. arrival[a] = arrival[b]
    BY <2>2 DEF LeaseInv, LeaseTypeOK
  <2> QED BY <2>3 DEF LeaseInv, ArrivalOrder, requested
<1> QED BY LeaseInvariant, <1>1, PTL

\* The static map of ContainerMutationLease holds an entry for a container
\* exactly while a call on it is pending.
THEOREM LeaseMapDrains == LeaseSpec => []NoEntryLeft
<1>1. LeaseInv => NoEntryLeft
  BY DEF LeaseInv, LeaseTypeOK, TailIsLast, NoEntryLeft
<1> QED BY LeaseInvariant, <1>1, PTL

\* Operations of one container start in the order run was called.
THEOREM LeaseIsFair == LeaseSpec => StartsInOrder
<1> DEFINE InOrder == \A a, b \in Op :
             /\ pc[a] = "waiting" /\ pc'[a] = "running"
             /\ sameContainer(a, b) /\ active(b) /\ a # b
             => arrival[a] < arrival[b]
<1>1. LeaseInv /\ [LeaseNext]_leaseVars => [InOrder]_leaseVars
  <2> SUFFICES ASSUME LeaseInv, LeaseNext, NEW a \in Op, NEW b \in Op,
                      pc[a] = "waiting", pc'[a] = "running",
                      sameContainer(a, b), active(b), a # b
               PROVE  arrival[a] < arrival[b]
    OBVIOUS
  <2>1. Start(a)
    BY DEF LeaseNext, Request, Start, Finish, LeaseInv, LeaseTypeOK
  <2>2. front(a)
    BY <2>1 DEF Start, front, active
  <2>3. arrival[a] <= arrival[b]
    BY <2>2 DEF LeaseInv, FrontIsFirst
  <2>4. arrival[a] # arrival[b]
    BY DEF LeaseInv, ArrivalOrder, requested
  <2> QED BY <2>3, <2>4 DEF LeaseInv, LeaseTypeOK
<1> QED BY LeaseInvariant, <1>1, PTL DEF LeaseSpec, StartsInOrder

\* run executes the operations of one container one at a time and in the
\* order of the calls.
THEOREM LeaseIsSound == LeaseSpec => LeaseSound
<1>1. LeaseSpec => []MutualExclusion
  BY LeaseExcludes
<1>2. LeaseSpec => StartsInOrder
  BY LeaseIsFair
<1> QED BY <1>1, <1>2, PTL DEF LeaseSound

HIDE LeaseAssumption

-----------------------------------------------------------------------------
(***************************************************************************)
(* UpdateSound for any files, any update and any writes of others.         *)
(*                                                                         *)
(* The changes whose write was begun are always the first Len(written) of  *)
(* the checked ones, latest first (WrittenIsPrefix), so the rollback meets *)
(* them from the last to the first and Untouched, which speaks of the      *)
(* changes beyond that prefix, says of a failed update all there is to     *)
(* say.  That no two changes resolve to one file (CheckedAsAsked) is what  *)
(* keeps the write or the restore of one change from another's file.       *)
(***************************************************************************)

Content == {"none", "old", "new", "foreign"}
Read == [target : Targets, previous : Content]

UpdateTypeOK ==
  /\ files \in [Targets -> Content]
  /\ changes \in Seq(Inputs) /\ Len(changes) > 0
  /\ checked \in Seq(Read)
  /\ written \in Seq(Read)

\* What was checked is the beginning of the update, and no file comes twice.
CheckedAsAsked ==
  /\ Len(checked) <= Len(changes)
  /\ \A i \in 1..Len(checked) : checked[i].target = changes[i].target
  /\ \A i, j \in 1..Len(checked) : checked[i].target = checked[j].target => i = j

\* Begun writes are the first of the checked changes, latest first.
WrittenIsPrefix ==
  /\ Len(written) <= Len(checked)
  /\ \A j \in 1..Len(written) : written[j] = checked[Len(written) + 1 - j]

StepFits ==
  /\ step = "checking" => Len(written) = 0
  /\ step \in {"making", "writing"} => Len(written) < Len(checked)
  /\ step \in {"making", "writing", "applied"} => Len(checked) = Len(changes)
  /\ step \in {"undoing", "restoring"} => Len(written) > 0
  /\ step = "failed" => Len(written) = 0
  /\ step = "applied" => Len(written) = Len(checked)

\* The changes not begun, or undone again.
Untouched ==
  \A i \in 1..Len(checked) :
    Len(written) < i => \/ checked[i].target \in trouble \cup foreignWrites
                        \/ files[checked[i].target] = checked[i].previous

\* The changes begun, as long as nothing failed.
Applied ==
  step \in {"making", "writing", "applied"} =>
    \A i \in 1..Len(checked) :
      i <= Len(written) => \/ files[checked[i].target] = "new"
                           \/ checked[i].target \in foreignWrites

UpdateInv ==
  UpdateTypeOK /\ CheckedAsAsked /\ WrittenIsPrefix /\ StepFits /\ Untouched /\ Applied

-----------------------------------------------------------------------------

LEMMA InitUpdateInv == UpdateInit => UpdateInv
<1> SUFFICES ASSUME UpdateInit PROVE UpdateInv
  OBVIOUS
<1>1. checked = <<>> /\ written = <<>> /\ Len(checked) = 0 /\ Len(written) = 0
  BY DEF UpdateInit
<1>2. PICK n \in 1..MaxUpdates : changes \in [1..n -> Inputs]
  BY DEF UpdateInit
<1>3. changes \in Seq(Inputs) /\ Len(changes) = n /\ n \in Nat /\ n > 0
  BY <1>2, UpdateAssumption
<1>4. UpdateTypeOK
  BY <1>1, <1>3 DEF UpdateInit, UpdateTypeOK, Content
<1>5. step = "checking"
  BY DEF UpdateInit
<1> QED BY <1>1, <1>3, <1>4, <1>5
        DEF UpdateInv, CheckedAsAsked, WrittenIsPrefix, StepFits, Untouched, Applied

\* The sequences of begun writes, longer by one and shorter by one.
LEMMA OneMore ==
  ASSUME NEW S, NEW x \in S, NEW s \in Seq(S)
  PROVE  /\ <<x>> \o s \in Seq(S) /\ Len(<<x>> \o s) = Len(s) + 1
         /\ (<<x>> \o s)[1] = x
         /\ \A j \in 1..Len(s) : (<<x>> \o s)[j + 1] = s[j]
  OBVIOUS

LEMMA OneLess ==
  ASSUME NEW S, NEW s \in Seq(S), Len(s) > 0
  PROVE  /\ Tail(s) \in Seq(S) /\ Len(Tail(s)) = Len(s) - 1 /\ Head(s) = s[1] /\ Head(s) \in S
         /\ \A j \in 1..(Len(s) - 1) : Tail(s)[j] = s[j + 1]
  OBVIOUS

-----------------------------------------------------------------------------
(* Checking: nothing is written yet. *)

LEMMA CheckKeeps == UpdateInv /\ Check => UpdateInv'
<1> SUFFICES ASSUME UpdateInv, Check PROVE UpdateInv'
  OBVIOUS
<1> DEFINE n == Len(checked)
           c == changes[n + 1]
<1>0. /\ UpdateTypeOK /\ CheckedAsAsked /\ WrittenIsPrefix /\ StepFits /\ Untouched /\ Applied
      /\ n \in Nat /\ n < Len(changes) /\ Len(written) = 0
      /\ c \in Inputs /\ c.target \in Targets /\ files[c.target] \in Content
  <2>1. /\ UpdateTypeOK /\ CheckedAsAsked /\ WrittenIsPrefix /\ StepFits /\ Untouched /\ Applied
        /\ n \in Nat /\ n < Len(changes) /\ Len(written) = 0
    BY DEF UpdateInv, UpdateTypeOK, Check, StepFits
  <2>2. c \in Inputs
    BY <2>1 DEF UpdateTypeOK
  <2>3. c.target \in Targets
    BY <2>2 DEF Inputs
  <2> QED BY <2>1, <2>2, <2>3 DEF UpdateTypeOK
<1>1. UNCHANGED <<files, changes, written, trouble, foreignWrites>>
  BY DEF Check
<1>2. CASE ~acceptable(c)
  <2>1. step' = "refused" /\ checked' = checked
    BY <1>2 DEF Check
  <2> QED BY <2>1, <1>0, <1>1
          DEF UpdateInv, UpdateTypeOK, CheckedAsAsked, WrittenIsPrefix, StepFits, Untouched, Applied
<1>3. CASE acceptable(c)
  <2> DEFINE r == [target |-> c.target, previous |-> files[c.target]]
  <2>1. /\ checked' = Append(checked, r)
        /\ step' = IF Len(checked') = Len(changes) THEN "making" ELSE "checking"
    BY <1>3 DEF Check
  <2>2. r \in Read
    BY <1>0 DEF Read
  <2>3. /\ checked' \in Seq(Read) /\ Len(checked') = n + 1 /\ checked'[n + 1] = r
        /\ \A i \in 1..n : checked'[i] = checked[i]
    BY <2>1, <2>2, <1>0 DEF UpdateTypeOK
  <2>4. \A i \in 1..n : checked[i].target # c.target
    BY <1>3, <1>0 DEF acceptable, UpdateTypeOK
  <2> HIDE DEF r, c
  <2>5. r.target = c.target /\ r.previous = files[c.target]
    BY DEF r
  <2>6. CheckedAsAsked'
    <3>1. Len(checked') <= Len(changes')
      BY <2>3, <1>0, <1>1 DEF UpdateTypeOK
    <3>2. \A i \in 1..Len(checked') : i \in 1..n \/ i = n + 1
      BY <2>3, <1>0
    <3>3. \A i \in 1..Len(checked') : checked'[i].target = changes'[i].target
      BY <3>2, <2>3, <2>5, <1>0, <1>1 DEF CheckedAsAsked, c
    <3>4. \A i, j \in 1..Len(checked') : checked'[i].target = checked'[j].target => i = j
      BY <3>2, <2>3, <2>4, <2>5, <1>0 DEF CheckedAsAsked
    <3> QED BY <3>1, <3>3, <3>4 DEF CheckedAsAsked
  <2>7. WrittenIsPrefix'
    BY <2>3, <1>0, <1>1 DEF WrittenIsPrefix
  <2>8. StepFits'
    BY <2>1, <2>3, <1>0, <1>1 DEF StepFits
  <2>9. Untouched'
    <3>1. \A i \in 1..Len(checked') : i \in 1..n \/ i = n + 1
      BY <2>3, <1>0
    <3> QED BY <3>1, <2>3, <2>5, <1>0, <1>1 DEF Untouched
  <2>10. Applied'
    BY <1>0, <1>1 DEF Applied
  <2> QED BY <2>3, <2>6, <2>7, <2>8, <2>9, <2>10, <1>0, <1>1 DEF UpdateInv, UpdateTypeOK
<1> QED BY <1>2, <1>3

-----------------------------------------------------------------------------
(* Writing: the next checked change joins the begun ones. *)

\* What both Write and WriteFails do to the file of the next change.
LEMMA BeginningKeeps ==
  ASSUME UpdateInv, step = "writing", UNCHANGED <<changes, checked, trouble>>,
         NEW v \in Content, files' = [files EXCEPT ![now.target] = v],
         written' = <<now>> \o written,
         foreignWrites \ {now.target} \subseteq foreignWrites',
         step' \in {"making", "applied", "undoing"},
         step' = "undoing" \/ v = "new",
         step' = "making" => Len(written') < Len(checked),
         step' = "applied" => Len(written') = Len(checked)
  PROVE  UpdateInv'
<1> DEFINE d == Len(written)
           t == now.target
<1>0. /\ UpdateTypeOK /\ CheckedAsAsked /\ WrittenIsPrefix /\ StepFits /\ Untouched /\ Applied
      /\ d \in Nat /\ d < Len(checked) /\ Len(checked) = Len(changes) /\ Len(checked) \in Nat
  BY DEF UpdateInv, UpdateTypeOK, StepFits
<1>1. now = checked[d + 1] /\ now \in Read /\ t \in Targets
  <2>1. now = checked[d + 1] /\ now \in Read
    BY <1>0 DEF now, done, UpdateTypeOK
  <2> QED BY <2>1 DEF Read
<1>2. /\ written' \in Seq(Read) /\ Len(written') = d + 1 /\ written'[1] = now
      /\ \A j \in 1..d : written'[j + 1] = written[j]
  BY <1>0, <1>1, OneMore DEF UpdateTypeOK
<1>3. /\ \A i \in 1..Len(checked) : i # d + 1 =>
           checked[i].target # t /\ files'[checked[i].target] = files[checked[i].target]
      /\ files'[t] = v
      /\ \A i \in 1..Len(checked) : checked[i].target \in Targets
  <2>1. ASSUME NEW i \in 1..Len(checked) PROVE checked[i].target \in Targets
    <3>1. checked[i] \in Read
      BY <1>0 DEF UpdateTypeOK
    <3> QED BY <3>1 DEF Read
  <2>2. \A x \in Targets : files'[x] = IF x = t THEN v ELSE files[x]
    BY <1>0, <1>1 DEF UpdateTypeOK
  <2>3. \A i \in 1..Len(checked) : i # d + 1 => checked[i].target # t
    BY <1>0, <1>1 DEF CheckedAsAsked
  <2> QED BY <2>1, <2>2, <2>3, <1>1
<1>4. UpdateTypeOK'
  BY <1>0, <1>1, <1>2 DEF UpdateTypeOK
<1>5. CheckedAsAsked'
  BY <1>0 DEF CheckedAsAsked
<1>6. WrittenIsPrefix'
  <2>1. ASSUME NEW j \in 1..(d + 1) PROVE written'[j] = checked[d + 2 - j]
    <3>1. CASE j = 1
      BY <3>1, <1>0, <1>1, <1>2
    <3>2. CASE j # 1
      <4>1. j - 1 \in 1..d /\ written'[j] = written[j - 1]
        BY <3>2, <1>0, <1>2
      <4>2. written[j - 1] = checked[d + 1 - (j - 1)]
        BY <4>1, <1>0 DEF WrittenIsPrefix
      <4> QED BY <4>1, <4>2, <1>0
    <3> QED BY <3>1, <3>2
  <2> QED BY <2>1, <1>0, <1>2 DEF WrittenIsPrefix
<1>7. StepFits'
  BY <1>0, <1>2 DEF StepFits
<1>8. Untouched'
  <2> SUFFICES ASSUME NEW i \in 1..Len(checked), d + 1 < i
               PROVE  \/ checked[i].target \in trouble \cup foreignWrites'
                      \/ files'[checked[i].target] = checked[i].previous
    BY <1>2 DEF Untouched
  <2>1. d < i /\ i # d + 1
    BY <1>0
  <2> QED BY <2>1, <1>0, <1>3 DEF Untouched
<1>9. Applied'
  <2> SUFFICES ASSUME step' \in {"making", "applied"}, NEW i \in 1..Len(checked), i <= d + 1
               PROVE  files'[checked[i].target] = "new" \/ checked[i].target \in foreignWrites'
    BY <1>2 DEF Applied
  <2>1. CASE i = d + 1
    BY <2>1, <1>1, <1>3
  <2>2. CASE i # d + 1
    <3>1. i <= d
      BY <2>2, <1>0
    <3> QED BY <3>1, <2>2, <1>0, <1>3 DEF Applied
  <2> QED BY <2>1, <2>2
<1> QED BY <1>4, <1>5, <1>6, <1>7, <1>8, <1>9 DEF UpdateInv

LEMMA WriteKeeps == UpdateInv /\ Write => UpdateInv'
<1> SUFFICES ASSUME UpdateInv, Write PROVE UpdateInv'
  OBVIOUS
<1>1. /\ step = "writing" /\ Len(written) \in Nat /\ Len(checked) \in Nat
      /\ Len(written) < Len(checked)
  BY DEF UpdateInv, UpdateTypeOK, StepFits, Write
<1>2. now \in Read
  BY <1>1 DEF UpdateInv, UpdateTypeOK, now, done
<1>3. Len(written') = Len(written) + 1
  BY <1>2, OneMore DEF Write, UpdateInv, UpdateTypeOK
<1>4. step' = IF Len(written) + 1 = Len(checked) THEN "applied" ELSE "making"
  BY DEF Write, done
<1>5. "new" \in Content
  BY DEF Content
<1>6. UNCHANGED <<changes, checked, trouble>> /\ written' = <<now>> \o written
      /\ files' = [files EXCEPT ![now.target] = "new"]
      /\ foreignWrites' = foreignWrites \ {now.target}
  BY DEF Write
<1>7. /\ step' \in {"making", "applied", "undoing"}
      /\ step' = "making" => Len(written') < Len(checked)
      /\ step' = "applied" => Len(written') = Len(checked)
  BY <1>1, <1>3, <1>4
<1>8. foreignWrites \ {now.target} \subseteq foreignWrites'
  BY <1>6
<1> QED BY <1>1, <1>5, <1>6, <1>7, <1>8, BeginningKeeps

LEMMA WriteFailsKeeps == UpdateInv /\ WriteFails => UpdateInv'
<1> SUFFICES ASSUME UpdateInv, WriteFails PROVE UpdateInv'
  OBVIOUS
<1>1. step = "writing" /\ Len(written) \in Nat /\ Len(checked) \in Nat
      /\ Len(written) < Len(checked)
  BY DEF UpdateInv, UpdateTypeOK, StepFits, WriteFails
<1>2. now \in Read
  BY <1>1 DEF UpdateInv, UpdateTypeOK, now, done
<1>3. files[now.target] \in Content /\ "new" \in Content
  BY <1>2 DEF UpdateInv, UpdateTypeOK, Read, Content
<1>4. written' = <<now>> \o written
  BY DEF WriteFails, begun
<1>5. written' # <<>>
  BY <1>2, <1>4, OneMore DEF UpdateInv, UpdateTypeOK
<1>6. step' = "undoing"
  BY <1>4, <1>5 DEF WriteFails, undoes, begun
<1>7. PICK c \in Content : files' = [files EXCEPT ![now.target] = c]
  BY <1>3 DEF WriteFails
<1>8. foreignWrites \ {now.target} \subseteq foreignWrites' /\ UNCHANGED <<changes, checked, trouble>>
  BY DEF WriteFails
<1> QED BY <1>1, <1>4, <1>6, <1>7, <1>8, BeginningKeeps

-----------------------------------------------------------------------------
(* Rolling back: the latest of the begun changes leaves them. *)

\* What Undo, Restore and UndoFails share: the file of the latest change is
\* as it was, or changed by others, or named in the error.
LEMMA UndoneKeeps ==
  ASSUME UpdateInv, step \in {"undoing", "restoring"}, Undone,
         UNCHANGED <<changes, checked>>,
         NEW v \in Content, files' = [files EXCEPT ![last.target] = v],
         trouble \subseteq trouble',
         foreignWrites \ {last.target} \subseteq foreignWrites',
         v = last.previous \/ last.target \in trouble'
  PROVE  UpdateInv'
<1> DEFINE d == Len(written)
           t == last.target
<1>0. /\ UpdateTypeOK /\ CheckedAsAsked /\ WrittenIsPrefix /\ StepFits /\ Untouched
      /\ d \in Nat /\ d > 0 /\ d <= Len(checked) /\ Len(checked) \in Nat
  <2>1. /\ UpdateTypeOK /\ CheckedAsAsked /\ WrittenIsPrefix /\ StepFits /\ Untouched
    BY DEF UpdateInv
  <2>2. d \in Nat /\ Len(checked) \in Nat
    BY <2>1 DEF UpdateTypeOK
  <2>3. d > 0
    BY <2>1 DEF StepFits
  <2>4. d <= Len(checked)
    BY <2>1 DEF WrittenIsPrefix
  <2> QED BY <2>1, <2>2, <2>3, <2>4
<1>1. /\ written' \in Seq(Read) /\ Len(written') = d - 1
      /\ last = written[1] /\ last \in Read
      /\ \A j \in 1..(d - 1) : written'[j] = written[j + 1]
  BY <1>0, OneLess DEF Undone, UpdateTypeOK, last
<1>2. last = checked[d] /\ t \in Targets
  <2>1. written[1] = checked[d + 1 - 1]
    BY <1>0 DEF WrittenIsPrefix
  <2> QED BY <2>1, <1>0, <1>1 DEF Read
<1>3. step' = IF Len(written') = 0 THEN "failed" ELSE "undoing"
  <2>1. written' = Tail(written) /\ step' = undoes(Tail(written))
    BY DEF Undone
  <2>2. written' = <<>> <=> Len(written') = 0
    BY <1>1
  <2> QED BY <2>1, <2>2 DEF undoes
<1>4. /\ \A i \in 1..Len(checked) : i # d =>
           checked[i].target # t /\ files'[checked[i].target] = files[checked[i].target]
      /\ files'[t] = v
  <2>1. ASSUME NEW i \in 1..Len(checked) PROVE checked[i].target \in Targets
    <3>1. checked[i] \in Read
      BY <1>0 DEF UpdateTypeOK
    <3> QED BY <3>1 DEF Read
  <2>2. \A x \in Targets : files'[x] = IF x = t THEN v ELSE files[x]
    BY <1>0, <1>2 DEF UpdateTypeOK
  <2>3. \A i \in 1..Len(checked) : i # d => checked[i].target # t
    BY <1>0, <1>2 DEF CheckedAsAsked
  <2> QED BY <2>1, <2>2, <2>3, <1>2
<1>5. UpdateTypeOK'
  BY <1>0, <1>1, <1>2 DEF UpdateTypeOK
<1>6. CheckedAsAsked'
  BY <1>0 DEF CheckedAsAsked
<1>7. WrittenIsPrefix'
  <2>1. ASSUME NEW j \in 1..(d - 1) PROVE written'[j] = checked[d - j]
    <3>1. j + 1 \in 1..d /\ d + 1 - (j + 1) = d - j
      BY <1>0
    <3>2. written[j + 1] = checked[d + 1 - (j + 1)]
      BY <3>1, <1>0 DEF WrittenIsPrefix
    <3> QED BY <3>1, <3>2, <1>1
  <2>2. \A j \in 1..(d - 1) : (d - 1) + 1 - j = d - j
    BY <1>0
  <2> QED BY <2>1, <2>2, <1>0, <1>1 DEF WrittenIsPrefix
<1>8. StepFits'
  BY <1>0, <1>1, <1>3 DEF StepFits
<1>9. Untouched'
  <2> SUFFICES ASSUME NEW i \in 1..Len(checked), d - 1 < i
               PROVE  \/ checked[i].target \in trouble' \cup foreignWrites'
                      \/ files'[checked[i].target] = checked[i].previous
    BY <1>1 DEF Untouched
  <2>1. CASE i = d
    BY <2>1, <1>2, <1>4
  <2>2. CASE i # d
    <3>1. d < i
      BY <2>2, <1>0
    <3> QED BY <3>1, <2>2, <1>0, <1>4 DEF Untouched
  <2> QED BY <2>1, <2>2
<1>10. Applied'
  BY <1>3 DEF Applied
<1> QED BY <1>5, <1>6, <1>7, <1>8, <1>9, <1>10 DEF UpdateInv

LEMMA UndoingKeeps == UpdateInv /\ (Undo \/ Restore \/ UndoFails) => UpdateInv'
<1> SUFFICES ASSUME UpdateInv, Undo \/ Restore \/ UndoFails PROVE UpdateInv'
  OBVIOUS
<1>1. step \in {"undoing", "restoring"} /\ UNCHANGED <<changes, checked>>
  BY DEF Undo, Restore, UndoFails
<1>2. last \in Read
  BY <1>1, OneLess DEF UpdateInv, UpdateTypeOK, StepFits, last
<1>3. /\ last.target \in Targets /\ last.previous \in Content
      /\ files[last.target] \in Content
      /\ files = [files EXCEPT ![last.target] = files[last.target]]
  <2>1. last.target \in Targets /\ last.previous \in Content
    BY <1>2 DEF Read
  <2> QED BY <2>1 DEF UpdateInv, UpdateTypeOK
<1>4. CASE Undo /\ files[last.target] = "new"
  <2>1. /\ step' = "restoring" /\ step = "undoing"
        /\ UNCHANGED <<files, changes, checked, written, trouble, foreignWrites>>
    BY <1>4 DEF Undo
  <2> QED BY <2>1 DEF UpdateInv, UpdateTypeOK, CheckedAsAsked, WrittenIsPrefix,
                      StepFits, Untouched, Applied
<1>5. CASE Undo /\ files[last.target] # "new"
  <2>1. /\ Undone /\ UNCHANGED <<files, foreignWrites>> /\ trouble \subseteq trouble'
        /\ files[last.target] = last.previous \/ last.target \in trouble'
    BY <1>5 DEF Undo
  <2> QED BY <2>1, <1>1, <1>3, UndoneKeeps
<1>6. CASE Restore
  <2>1. /\ Undone /\ files' = [files EXCEPT ![last.target] = last.previous]
        /\ trouble \subseteq trouble'
        /\ foreignWrites \ {last.target} \subseteq foreignWrites'
    BY <1>6 DEF Restore
  <2> QED BY <2>1, <1>1, <1>3, UndoneKeeps
<1>7. CASE UndoFails
  <2>1. /\ Undone /\ UNCHANGED <<files, foreignWrites>> /\ trouble \subseteq trouble'
        /\ last.target \in trouble'
    BY <1>7 DEF UndoFails
  <2> QED BY <2>1, <1>1, <1>3, UndoneKeeps
<1> QED BY <1>4, <1>5, <1>6, <1>7

-----------------------------------------------------------------------------
(* The other steps. *)

LEMMA QuietKeeps == UpdateInv /\ (CheckFails \/ Make \/ MakeFails) => UpdateInv'
<1> SUFFICES ASSUME UpdateInv, CheckFails \/ Make \/ MakeFails PROVE UpdateInv'
  OBVIOUS
<1>1. UNCHANGED <<files, changes, checked, written, trouble, foreignWrites>>
  BY DEF CheckFails, Make, MakeFails
<1>2. /\ UpdateTypeOK' /\ CheckedAsAsked' /\ WrittenIsPrefix' /\ Untouched'
      /\ Len(written) \in Nat /\ (written = <<>> <=> Len(written) = 0)
  BY <1>1 DEF UpdateInv, UpdateTypeOK, CheckedAsAsked, WrittenIsPrefix, Untouched
<1>3. StepFits'
  BY <1>1, <1>2 DEF UpdateInv, StepFits, CheckFails, Make, MakeFails, undoes
<1>4. Applied'
  BY <1>1 DEF UpdateInv, Applied, CheckFails, Make, MakeFails, undoes
<1> QED BY <1>2, <1>3, <1>4 DEF UpdateInv

LEMMA ForeignKeeps ==
  ASSUME UpdateInv, NEW t \in Targets, NEW v \in {"foreign", "none"}, ForeignWrite(t, v)
  PROVE  UpdateInv'
<1>1. /\ UNCHANGED <<changes, step, checked, written, trouble>>
      /\ foreignWrites' = foreignWrites \cup {t}
      /\ \A x \in Targets : x # t => files'[x] = files[x]
  BY DEF ForeignWrite, UpdateInv, UpdateTypeOK
<1>2. UpdateTypeOK' /\ CheckedAsAsked' /\ WrittenIsPrefix' /\ StepFits'
  BY <1>1 DEF ForeignWrite, UpdateInv, UpdateTypeOK, CheckedAsAsked, WrittenIsPrefix,
              StepFits, Content
<1>3. ASSUME NEW i \in 1..Len(checked) PROVE checked[i].target \in Targets
  <2>1. checked[i] \in Read
    BY DEF UpdateInv, UpdateTypeOK
  <2> QED BY <2>1 DEF Read
<1>4. Untouched'
  BY <1>1, <1>3 DEF UpdateInv, Untouched
<1>5. Applied'
  BY <1>1, <1>3 DEF UpdateInv, Applied
<1> QED BY <1>2, <1>4, <1>5 DEF UpdateInv

LEMMA StepKeepsUpdateInv == UpdateInv /\ [UpdateNext]_updateVars => UpdateInv'
<1> SUFFICES ASSUME UpdateInv, [UpdateNext]_updateVars PROVE UpdateInv'
  OBVIOUS
<1>1. CASE UNCHANGED updateVars
  BY <1>1 DEF updateVars, UpdateInv, UpdateTypeOK, CheckedAsAsked, WrittenIsPrefix,
              StepFits, Untouched, Applied
<1>2. CASE UpdateNext
  BY <1>2, CheckKeeps, QuietKeeps, WriteKeeps, WriteFailsKeeps, UndoingKeeps, ForeignKeeps
  DEF UpdateNext
<1> QED BY <1>1, <1>2

LEMMA UpdateInvIsSound == UpdateInv => UpdateSound
<1> SUFFICES ASSUME UpdateInv PROVE UpdateSound
  OBVIOUS
<1>1. /\ DOMAIN checked = 1..Len(checked) /\ DOMAIN changes = 1..Len(changes)
      /\ Len(checked) \in Nat
  BY DEF UpdateInv, UpdateTypeOK
<1>2. FailedLeavesNothing
  BY <1>1 DEF UpdateInv, StepFits, Untouched, FailedLeavesNothing
<1>3. AppliedIsThere
  BY <1>1 DEF UpdateInv, StepFits, CheckedAsAsked, Applied, AppliedIsThere
<1> QED BY <1>2, <1>3 DEF UpdateSound

\* An update of any number of files that fails leaves each as it was read, as
\* others wrote it since, or named in the error; one that succeeds has written
\* every file, each once.  (WorkspaceFileSystem.apply)
THEOREM UpdatesAreSound == UpdateSpec => []UpdateSound
<1>1. UpdateSpec => []UpdateInv
  BY InitUpdateInv, StepKeepsUpdateInv, PTL DEF UpdateSpec
<1> QED BY <1>1, UpdateInvIsSound, PTL

-----------------------------------------------------------------------------
(***************************************************************************)
(* SystemFilesSound for any files, any changes of them and any lost        *)
(* requests.                                                               *)
(*                                                                         *)
(* The forced save passes both filters, so what it writes was collected    *)
(* after the call (ForcedIsFresh); once it has answered, every later       *)
(* collection, and the one the gate keeps, is at least as young            *)
(* (AnsweredIsFresh).  The timed save may write the collection the gate    *)
(* keeps, or nothing: the first is right as long as the listing that let   *)
(* it pass is that of the collection (PuttingFits), the second because the *)
(* signature it compares is always that of the record (SignedIsStored).    *)
(***************************************************************************)

Values == {"gone", "short", "other", "long", "dir"}
Tree == {t \in [All -> Values] : t[Dir] \in {"gone", "dir"}}
Phases == {"idle", "listing", "collecting", "putting"}

FilesTypeOK ==
  /\ tree \in Tree
  /\ stored.there \in BOOLEAN /\ stored.tree \in Tree
  /\ saveGate.tree \in Tree
  /\ work \in [phase : Phases, force : BOOLEAN, names : SUBSET All, tree : Tree]
  /\ seen \in [All -> SUBSET Values]
  /\ flush \in {"none", "behind", "working", "saved", "skipped", "dropped", "failed"}
  /\ steady \in {"no", "trying", "yes"}
  /\ booted \in BOOLEAN

\* Before the restore nothing is saved; a save under way and what waits for it.
StandingFits ==
  /\ ~booted => /\ work.phase = "idle" /\ flush = "none" /\ steady = "no"
                /\ ~lastSaved.known
  /\ flush = "working" => work.force /\ work.phase # "idle"
  /\ flush = "behind" => work.phase # "idle"
  /\ steady = "yes" => work.phase = "idle"

Fresh(t) == \A f \in All : t[f] \in seen[f]

SeenIsNow == flush # "none" => Fresh(tree)

ForcedIsFresh ==
  flush = "working" /\ work.phase = "putting" => Fresh(work.tree) /\ Fresh(saveGate.tree)

AnsweredIsFresh ==
  flush = "saved" => /\ Fresh(stored.tree) /\ Fresh(saveGate.tree)
                     /\ work.phase = "putting" => Fresh(work.tree)

\* The signature of the last save is that of the record.
SignedIsStored ==
  lastSaved.known => stored.there /\ lastSaved.sig = signature(stored.tree)

GateIsExact == saveGate.there => saveGate.names = listing(saveGate.tree)

\* What is being written has the names of the tree, if the tree is still.
PuttingFits ==
  work.phase = "putting" /\ steady = "trying" /\ GateIsExact
    => listing(work.tree) = listing(tree)

\* The record of a still tree.
StillIsStored == steady = "yes" /\ GateIsExact => Current

FilesInv ==
  /\ FilesTypeOK /\ StandingFits /\ SeenIsNow /\ ForcedIsFresh /\ AnsweredIsFresh
  /\ SignedIsStored /\ PuttingFits /\ StillIsStored

-----------------------------------------------------------------------------

LEMMA BareIsTree == Bare \in Tree
  BY DEF Bare, Tree, Values, All

LEMMA InitFilesInv == FilesInit => FilesInv
<1> SUFFICES ASSUME FilesInit PROVE FilesInv
  OBVIOUS
<1> DEFINE Full == [f \in All |-> IF f = Dir THEN "dir" ELSE "short"]
<1>1. Full \in Tree
  BY DEF Tree, Values, All
<1>2. stored.there \in BOOLEAN /\ stored.tree \in Tree
  <2>1. stored \in [there : {FALSE}, tree : {Bare}] \cup [there : {TRUE}, tree : {Full}]
    BY DEF FilesInit
  <2> QED BY <2>1, <1>1, BareIsTree
<1>3. FilesTypeOK
  BY <1>2, BareIsTree DEF FilesInit, FilesTypeOK, NoWork, Phases
<1>4. /\ work.phase = "idle" /\ flush = "none" /\ steady = "no" /\ ~lastSaved.known
  BY DEF FilesInit, NoWork
<1> QED BY <1>3, <1>4
        DEF FilesInv, StandingFits, SeenIsNow, ForcedIsFresh, AnsweredIsFresh,
            SignedIsStored, PuttingFits, StillIsStored

\* Equal listings are all that Current compares.
LEMMA SameListing ==
  ASSUME NEW s \in Tree, NEW t \in Tree, listing(s) = listing(t)
  PROVE  present(s) = present(t) /\ s[Dir] = t[Dir]
<1>1. \A f \in All : s[f] # "gone" <=> t[f] # "gone"
  BY DEF listing
<1>2. present(s) = present(t)
  BY <1>1 DEF present, All
<1>3. s[Dir] = t[Dir]
  BY <1>1 DEF Tree, All
<1> QED BY <1>2, <1>3

LEMMA SameSignature ==
  ASSUME NEW s, NEW t, signature(s) = signature(t)
  PROVE  /\ Cardinality(present(s) \ {Log}) = Cardinality(present(t) \ {Log})
         /\ s[Dir] = t[Dir]
  BY DEF signature

-----------------------------------------------------------------------------
(* How a save ends, and what it decides. *)

LEMMA SaveStartsEffect ==
  ASSUME NEW b \in BOOLEAN, SaveStarts(b)
  PROVE  /\ work' \in [phase : Phases, force : BOOLEAN, names : SUBSET All, tree : Tree]
         /\ work'.phase = "listing" /\ work'.force = b /\ steady' = "trying"
  BY BareIsTree DEF SaveStarts, NoWork, Phases

\* The save that ends is followed by the forced one behind it, or by none.
LEMMA SaveEndsEffect ==
  ASSUME FilesTypeOK, NEW reply \in {"saved", "skipped", "failed"}, SaveEnds(reply)
  PROVE  /\ work' \in [phase : Phases, force : BOOLEAN, names : SUBSET All, tree : Tree]
         /\ work'.phase \in {"idle", "listing"}
         /\ flush' \in {"none", "working", "saved", "skipped", "dropped", "failed"}
         /\ steady' \in {"no", "trying", "yes"}
         /\ flush' = "none" <=> flush = "none"
         /\ flush' = "working" => work'.force /\ work'.phase = "listing"
         /\ flush' = "saved" => flush = "saved" \/ (flush = "working" /\ reply = "saved")
         /\ steady' = "yes" => /\ work'.phase = "idle"
                               /\ reply = "saved" /\ steady = "trying"
<1>1. CASE flush = "behind" /\ reply # "failed" /\ ~disposed
  <2>1. flush' = "working" /\ SaveStarts(TRUE)
    BY <1>1 DEF SaveEnds
  <2> QED BY <2>1, <1>1, SaveStartsEffect
<1>2. CASE ~(flush = "behind" /\ reply # "failed" /\ ~disposed)
  <2>1. /\ work' = NoWork
        /\ flush' = CASE flush = "working" -> reply
                      [] flush = "behind"  -> IF reply = "failed" THEN "failed" ELSE "dropped"
                      [] OTHER -> flush
        /\ steady' = IF reply = "saved" /\ steady = "trying" THEN "yes" ELSE "no"
    BY <1>2 DEF SaveEnds
  <2>2. NoWork \in [phase : Phases, force : BOOLEAN, names : SUBSET All, tree : Tree]
        /\ NoWork.phase = "idle"
    BY BareIsTree DEF NoWork, Phases
  <2> QED BY <2>1, <2>2 DEF FilesTypeOK
<1> QED BY <1>1, <1>2

\* A collection is skipped or found written, which ends the save, or written.
LEMMA DecidesEffect ==
  ASSUME NEW t, Decides(t)
  PROVE  /\ lastSaved' = lastSaved
         /\ \/ SaveEnds("skipped")
            \/ /\ SaveEnds("saved")
               /\ ~work.force /\ lastSaved.known /\ lastSaved.sig = signature(t)
            \/ /\ work' = [work EXCEPT !.phase = "putting", !.tree = t]
               /\ UNCHANGED <<flush, steady>>
  BY DEF Decides, signed

\* A step that ends a save without writing: nothing but the standing changes.
LEMMA EndingKeeps ==
  ASSUME FilesInv, booted, UNCHANGED <<tree, stored, lastSaved, seen, booted>>,
         NEW reply \in {"saved", "skipped", "failed"}, SaveEnds(reply),
         saveGate'.tree \in Tree,
         flush = "saved" => Fresh(saveGate'.tree),
         reply = "saved" => flush # "working",
         reply = "saved" /\ steady = "trying" /\ GateIsExact' => Current
  PROVE  FilesInv'
<1>0. /\ FilesTypeOK /\ StandingFits /\ SeenIsNow /\ AnsweredIsFresh /\ SignedIsStored
  BY DEF FilesInv
<1>1. FilesTypeOK'
  BY <1>0, SaveEndsEffect DEF FilesTypeOK
<1>2. StandingFits'
  BY <1>0, SaveEndsEffect DEF StandingFits
<1>3. SeenIsNow' /\ SignedIsStored'
  BY <1>0, SaveEndsEffect DEF SeenIsNow, SignedIsStored, Fresh
<1>4. work'.phase # "putting"
  BY <1>0, SaveEndsEffect
<1>5. AnsweredIsFresh'
  BY <1>0, <1>4, SaveEndsEffect DEF AnsweredIsFresh, Fresh
<1>6. StillIsStored'
  BY <1>0, SaveEndsEffect DEF StillIsStored, Current
<1> QED BY <1>1, <1>2, <1>3, <1>4, <1>5, <1>6 DEF FilesInv, ForcedIsFresh, PuttingFits

\* A step that starts to write t.
LEMMA WritingKeeps ==
  ASSUME FilesInv, work.phase # "idle",
         UNCHANGED <<tree, stored, lastSaved, seen, booted, flush, steady>>,
         NEW t \in Tree, work' = [work EXCEPT !.phase = "putting", !.tree = t],
         saveGate'.tree \in Tree,
         flush \in {"working", "saved"} => Fresh(t) /\ Fresh(saveGate'.tree),
         GateIsExact' => listing(t) = listing(tree)
  PROVE  FilesInv'
<1>0. /\ FilesTypeOK /\ StandingFits /\ SeenIsNow /\ AnsweredIsFresh /\ SignedIsStored
  BY DEF FilesInv
<1>1. /\ work' \in [phase : Phases, force : BOOLEAN, names : SUBSET All, tree : Tree]
      /\ work'.phase = "putting" /\ work'.tree = t /\ work'.force = work.force
  BY <1>0 DEF FilesTypeOK, Phases
<1>2. FilesTypeOK'
  BY <1>0, <1>1 DEF FilesTypeOK
<1>3. StandingFits'
  BY <1>0, <1>1 DEF StandingFits
<1>4. SeenIsNow' /\ SignedIsStored'
  BY <1>0 DEF SeenIsNow, SignedIsStored, Fresh
<1>5. ForcedIsFresh' /\ AnsweredIsFresh'
  BY <1>0, <1>1 DEF ForcedIsFresh, AnsweredIsFresh, Fresh
<1>6. PuttingFits'
  BY <1>1 DEF PuttingFits
<1>7. steady' # "yes"
  BY <1>0 DEF StandingFits
<1> QED BY <1>2, <1>3, <1>4, <1>5, <1>6, <1>7 DEF FilesInv, StillIsStored

-----------------------------------------------------------------------------
(* The steps of a save. *)

LEMMA ListsKeeps == FilesInv /\ Lists => FilesInv'
<1> SUFFICES ASSUME FilesInv, Lists PROVE FilesInv'
  OBVIOUS
<1>0. /\ FilesTypeOK /\ StandingFits /\ SeenIsNow /\ AnsweredIsFresh /\ SignedIsStored
      /\ work.phase = "listing" /\ UNCHANGED <<tree, stored, saveGate, seen, booted>>
  BY DEF FilesInv, Lists
<1>1. booted /\ saveGate.tree \in Tree /\ tree \in Tree /\ stored.tree \in Tree
  BY <1>0 DEF StandingFits, FilesTypeOK
<1>2. CASE ~work.force /\ saveGate.there /\ saveGate.names = listing(tree)
  <2>1. Decides(saveGate.tree)
    BY <1>2 DEF Lists
  <2>2. lastSaved' = lastSaved
    BY <2>1, DecidesEffect
  <2>3. flush # "working"
    BY <1>0, <1>2 DEF StandingFits
  <2>4. flush = "saved" => Fresh(saveGate.tree)
    BY <1>0 DEF AnsweredIsFresh
  <2>5. GateIsExact' => listing(saveGate.tree) = listing(tree)
    BY <1>0, <1>2 DEF GateIsExact
  <2>6. CASE SaveEnds("skipped")
    BY <2>2, <2>4, <2>6, <1>0, <1>1, EndingKeeps
  <2>7. CASE SaveEnds("saved") /\ lastSaved.known /\ lastSaved.sig = signature(saveGate.tree)
    <3>1. signature(stored.tree) = signature(saveGate.tree) /\ stored.there
      BY <2>7, <1>0 DEF SignedIsStored
    <3>2. GateIsExact' => Current
      <4>1. /\ Cardinality(present(stored.tree) \ {Log}) = Cardinality(present(saveGate.tree) \ {Log})
            /\ stored.tree[Dir] = saveGate.tree[Dir]
        BY <3>1, SameSignature
      <4>2. GateIsExact' => present(saveGate.tree) = present(tree) /\ saveGate.tree[Dir] = tree[Dir]
        BY <2>5, <1>1, SameListing
      <4> QED BY <3>1, <4>1, <4>2 DEF Current
    <3> QED BY <3>2, <2>2, <2>3, <2>4, <2>7, <1>0, <1>1, EndingKeeps
  <2>8. CASE work' = [work EXCEPT !.phase = "putting", !.tree = saveGate.tree]
             /\ UNCHANGED <<flush, steady>>
    BY <2>2, <2>3, <2>4, <2>5, <2>8, <1>0, <1>1, WritingKeeps
  <2> QED BY <2>1, <2>6, <2>7, <2>8, DecidesEffect
<1>3. CASE ~(~work.force /\ saveGate.there /\ saveGate.names = listing(tree))
  <2>1. /\ work' = [work EXCEPT !.phase = "collecting", !.names = listing(tree)]
        /\ UNCHANGED <<flush, steady, lastSaved>>
    BY <1>3 DEF Lists
  <2>2. /\ work' \in [phase : Phases, force : BOOLEAN, names : SUBSET All, tree : Tree]
        /\ work'.phase = "collecting" /\ work'.force = work.force
    <3>1. listing(tree) \in SUBSET All
      BY DEF listing
    <3> QED BY <3>1, <2>1, <1>0 DEF FilesTypeOK, Phases
  <2>3. FilesTypeOK' /\ StandingFits'
    BY <2>1, <2>2, <1>0 DEF FilesTypeOK, StandingFits
  <2>4. SeenIsNow' /\ AnsweredIsFresh' /\ SignedIsStored'
    BY <2>1, <2>2, <1>0 DEF SeenIsNow, AnsweredIsFresh, SignedIsStored, Fresh
  <2>5. steady' # "yes"
    BY <2>1, <1>0 DEF StandingFits
  <2> QED BY <2>2, <2>3, <2>4, <2>5 DEF FilesInv, ForcedIsFresh, PuttingFits, StillIsStored
<1> QED BY <1>2, <1>3

LEMMA CollectsKeeps == FilesInv /\ Collects => FilesInv'
<1> SUFFICES ASSUME FilesInv, Collects PROVE FilesInv'
  OBVIOUS
<1>0. /\ FilesTypeOK /\ StandingFits /\ SeenIsNow /\ AnsweredIsFresh /\ SignedIsStored
      /\ work.phase = "collecting" /\ UNCHANGED <<tree, stored, seen, booted>>
      /\ saveGate'.tree = tree /\ Decides(tree)
  BY DEF FilesInv, Collects
<1>1. booted /\ tree \in Tree /\ stored.tree \in Tree
  BY <1>0 DEF StandingFits, FilesTypeOK
<1>2. lastSaved' = lastSaved
  BY <1>0, DecidesEffect
<1>3. flush \in {"working", "saved"} => Fresh(tree)
  BY <1>0 DEF SeenIsNow
<1>4. CASE SaveEnds("skipped")
  BY <1>0, <1>1, <1>2, <1>3, <1>4, EndingKeeps
<1>5. CASE SaveEnds("saved") /\ ~work.force /\ lastSaved.known /\ lastSaved.sig = signature(tree)
  <2>1. Current
    BY <1>0, <1>5, SameSignature DEF SignedIsStored, Current
  <2>2. flush # "working"
    BY <1>0, <1>5 DEF StandingFits
  <2> QED BY <2>1, <2>2, <1>0, <1>1, <1>2, <1>3, <1>5, EndingKeeps
<1>6. CASE work' = [work EXCEPT !.phase = "putting", !.tree = tree] /\ UNCHANGED <<flush, steady>>
  BY <1>0, <1>1, <1>2, <1>3, <1>6, WritingKeeps
<1> QED BY <1>0, <1>4, <1>5, <1>6, DecidesEffect

\* The record becomes what was being written.
LEMMA PutsKeeps == FilesInv /\ Puts => FilesInv'
<1> SUFFICES ASSUME FilesInv, Puts PROVE FilesInv'
  OBVIOUS
<1>0. /\ FilesTypeOK /\ StandingFits /\ SeenIsNow /\ ForcedIsFresh /\ AnsweredIsFresh /\ PuttingFits
      /\ work.phase = "putting" /\ UNCHANGED <<tree, saveGate, seen, booted>>
      /\ SaveEnds("saved")
  BY DEF FilesInv, Puts
<1>1. /\ stored'.there = TRUE /\ stored'.tree = work.tree
      /\ lastSaved'.sig = signature(work.tree) /\ work.tree \in Tree /\ tree \in Tree /\ booted
  BY <1>0 DEF Puts, FilesTypeOK, StandingFits
<1>2. FilesTypeOK' /\ StandingFits'
  BY <1>0, <1>1, SaveEndsEffect DEF FilesTypeOK, StandingFits
<1>3. SeenIsNow' /\ SignedIsStored'
  BY <1>0, <1>1, SaveEndsEffect DEF SeenIsNow, SignedIsStored, Fresh
<1>4. work'.phase # "putting"
  BY <1>0, SaveEndsEffect
<1>5. AnsweredIsFresh'
  BY <1>0, <1>1, <1>4, SaveEndsEffect DEF AnsweredIsFresh, ForcedIsFresh, Fresh
<1>6. StillIsStored'
  <2> SUFFICES ASSUME steady' = "yes", GateIsExact' PROVE Current'
    BY DEF StillIsStored
  <2>1. listing(work.tree) = listing(tree)
    BY <1>0, SaveEndsEffect DEF PuttingFits, GateIsExact
  <2> QED BY <2>1, <1>0, <1>1, SameListing DEF Current
<1> QED BY <1>2, <1>3, <1>4, <1>5, <1>6 DEF FilesInv, ForcedIsFresh, PuttingFits

LEMMA PutIsLostKeeps == FilesInv /\ PutIsLost => FilesInv'
<1> SUFFICES ASSUME FilesInv, PutIsLost PROVE FilesInv'
  OBVIOUS
<1>1. UNCHANGED <<tree, stored, saveGate, lastSaved, seen, booted>> /\ SaveEnds("failed")
  BY DEF PutIsLost
<1>2. booted /\ saveGate.tree \in Tree /\ (flush = "saved" => Fresh(saveGate.tree))
  BY DEF FilesInv, PutIsLost, FilesTypeOK, StandingFits, AnsweredIsFresh
<1> QED BY <1>1, <1>2, EndingKeeps

-----------------------------------------------------------------------------
(* The steps that begin a save. *)

LEMMA TickKeeps == FilesInv /\ Tick => FilesInv'
<1> SUFFICES ASSUME FilesInv, Tick PROVE FilesInv'
  OBVIOUS
<1>0. /\ FilesTypeOK /\ StandingFits /\ SeenIsNow /\ AnsweredIsFresh /\ SignedIsStored
      /\ booted /\ work.phase = "idle" /\ SaveStarts(FALSE)
      /\ UNCHANGED <<tree, stored, saveGate, lastSaved, flush, seen, booted>>
  BY DEF FilesInv, Tick
<1>1. FilesTypeOK'
  BY <1>0, SaveStartsEffect DEF FilesTypeOK
<1>2. StandingFits'
  BY <1>0, SaveStartsEffect DEF StandingFits
<1>3. SeenIsNow' /\ AnsweredIsFresh' /\ SignedIsStored'
  BY <1>0, SaveStartsEffect DEF SeenIsNow, AnsweredIsFresh, SignedIsStored, Fresh
<1>4. work'.phase # "putting" /\ steady' # "yes"
  BY <1>0, SaveStartsEffect
<1> QED BY <1>1, <1>2, <1>3, <1>4 DEF FilesInv, ForcedIsFresh, PuttingFits, StillIsStored

\* The forced save: what has been seen starts anew with what is there.
LEMMA FlushKeeps == FilesInv /\ Flush => FilesInv'
<1> SUFFICES ASSUME FilesInv, Flush PROVE FilesInv'
  OBVIOUS
<1>0. /\ FilesTypeOK /\ StandingFits /\ SignedIsStored /\ PuttingFits /\ StillIsStored
      /\ booted /\ seen' = [f \in All |-> {tree[f]}]
      /\ UNCHANGED <<tree, stored, saveGate, lastSaved, booted>>
  BY DEF FilesInv, Flush
<1>1. seen' \in [All -> SUBSET Values] /\ Fresh(tree)'
  BY <1>0 DEF FilesTypeOK, Tree, Fresh
<1>2. CASE work.phase = "idle"
  <2>1. flush' = "working" /\ SaveStarts(TRUE)
    BY <1>2 DEF Flush
  <2>2. FilesTypeOK' /\ StandingFits'
    BY <2>1, <1>0, <1>1, SaveStartsEffect DEF FilesTypeOK, StandingFits
  <2>3. SeenIsNow' /\ SignedIsStored'
    BY <1>0, <1>1 DEF SeenIsNow, SignedIsStored
  <2>4. work'.phase # "putting" /\ steady' # "yes" /\ flush' # "saved"
    BY <2>1, SaveStartsEffect
  <2> QED BY <2>2, <2>3, <2>4
          DEF FilesInv, ForcedIsFresh, AnsweredIsFresh, PuttingFits, StillIsStored
<1>3. CASE work.phase # "idle"
  <2>1. flush' = "behind" /\ UNCHANGED <<work, steady>>
    BY <1>3 DEF Flush, queued
  <2>2. FilesTypeOK' /\ StandingFits'
    BY <2>1, <1>0, <1>1, <1>3 DEF FilesTypeOK, StandingFits
  <2>3. SeenIsNow' /\ SignedIsStored' /\ PuttingFits' /\ StillIsStored'
    BY <2>1, <1>0, <1>1
    DEF SeenIsNow, SignedIsStored, PuttingFits, StillIsStored, GateIsExact, Current
  <2> QED BY <2>1, <2>2, <2>3 DEF FilesInv, ForcedIsFresh, AnsweredIsFresh
<1> QED BY <1>2, <1>3

-----------------------------------------------------------------------------
(* The restore and the changes of the tree. *)

LEMMA RestoreKeeps == FilesInv /\ (Restored \/ RestoreStops) => FilesInv'
<1> SUFFICES ASSUME FilesInv, Restored \/ RestoreStops PROVE FilesInv'
  OBVIOUS
<1>0. /\ FilesTypeOK /\ ~booted /\ work.phase = "idle" /\ flush = "none" /\ steady = "no"
      /\ booted' = TRUE /\ UNCHANGED <<stored, saveGate, work, flush, seen, steady>>
  BY DEF FilesInv, StandingFits, Restored, RestoreStops
<1>1. tree' \in Tree
  <2>1. CASE Restored
    BY <2>1, <1>0 DEF Restored, FilesTypeOK
  <2>2. CASE RestoreStops
    <3>1. PICK back \in SUBSET Paths :
            tree' = [f \in All |-> IF f \in back THEN stored.tree[f] ELSE "gone"]
      BY <2>2 DEF RestoreStops
    <3>2. stored.tree \in [All -> Values] /\ Dir \notin back
      BY <1>0, FilesAssumption DEF FilesTypeOK, Tree
    <3> QED BY <3>1, <3>2 DEF Tree, Values, All
  <2> QED BY <2>1, <2>2
<1>2. FilesTypeOK'
  BY <1>0, <1>1 DEF FilesTypeOK
<1>3. SignedIsStored'
  BY <1>0 DEF FilesInv, SignedIsStored, Restored, RestoreStops
<1>4. StandingFits'
  BY <1>0 DEF StandingFits
<1> QED BY <1>0, <1>2, <1>3, <1>4
        DEF FilesInv, SeenIsNow, ForcedIsFresh, AnsweredIsFresh, PuttingFits, StillIsStored

LEMMA ChangeKeeps ==
  ASSUME FilesInv, NEW f \in All, NEW c \in Values, SystemChange(f, c),
         f = Dir => c \in {"gone", "dir"}
  PROVE  FilesInv'
<1>0. /\ FilesTypeOK /\ StandingFits /\ booted /\ steady' = "no"
      /\ tree' = [tree EXCEPT ![f] = c] /\ seen' = [seen EXCEPT ![f] = @ \cup {c}]
      /\ UNCHANGED <<stored, saveGate, lastSaved, work, flush, booted>>
  BY DEF FilesInv, SystemChange
<1>1. /\ tree' \in Tree /\ seen' \in [All -> SUBSET Values]
      /\ \A g \in All : tree'[g] = (IF g = f THEN c ELSE tree[g])
      /\ \A g \in All : seen'[g] = (IF g = f THEN seen[g] \cup {c} ELSE seen[g])
  BY <1>0 DEF FilesTypeOK, Tree, All
<1>2. FilesTypeOK' /\ StandingFits'
  BY <1>0, <1>1 DEF FilesTypeOK, StandingFits
<1>3. \A t : Fresh(t) => \A g \in All : t[g] \in seen'[g]
  BY <1>1 DEF Fresh
<1>4. SeenIsNow'
  BY <1>0, <1>1 DEF FilesInv, SeenIsNow, Fresh
<1>5. ForcedIsFresh' /\ AnsweredIsFresh'
  BY <1>0, <1>3 DEF FilesInv, ForcedIsFresh, AnsweredIsFresh, Fresh
<1>6. SignedIsStored'
  BY <1>0 DEF FilesInv, SignedIsStored
<1> QED BY <1>0, <1>2, <1>4, <1>5, <1>6 DEF FilesInv, PuttingFits, StillIsStored

LEMMA StepKeepsFilesInv == FilesInv /\ [FilesNext]_filesVars => FilesInv'
<1> SUFFICES ASSUME FilesInv, [FilesNext]_filesVars PROVE FilesInv'
  OBVIOUS
<1>1. CASE UNCHANGED filesVars \/ Dispose
  <2>1. UNCHANGED <<tree, stored, saveGate, lastSaved, work, flush, seen, steady, booted>>
    BY <1>1 DEF filesVars, Dispose
  <2> QED BY <2>1
          DEF FilesInv, FilesTypeOK, StandingFits, SeenIsNow, ForcedIsFresh, AnsweredIsFresh,
              SignedIsStored, PuttingFits, StillIsStored, GateIsExact, Fresh, Current
<1>2. CASE Restored \/ RestoreStops \/ Tick \/ Flush \/ Saving
  BY <1>2, RestoreKeeps, TickKeeps, FlushKeeps, ListsKeeps, CollectsKeeps, PutsKeeps,
     PutIsLostKeeps DEF Saving
<1>3. CASE \E f \in Paths, c \in Contents \cup {"gone"} : SystemChange(f, c)
  <2>1. PICK f \in Paths, c \in Contents \cup {"gone"} : SystemChange(f, c)
    BY <1>3
  <2>2. f \in All /\ f # Dir /\ c \in Values
    BY FilesAssumption DEF All, Contents, Values
  <2> QED BY <2>1, <2>2, ChangeKeeps
<1>4. CASE \E c \in {"dir", "gone"} : SystemChange(Dir, c)
  BY <1>4, ChangeKeeps DEF All, Values
<1> QED BY <1>1, <1>2, <1>3, <1>4 DEF FilesNext

\* A forced save that answers as saved has stored every file as it was at some
\* moment since the call, and the record of a tree that was still for a whole
\* save has its files and its empty directories, unless the listing and the
\* collection of the gate differ.  (succinixFileSnapshot)
THEOREM SystemFilesAreSound == FilesSpec => []SystemFilesSound
<1>1. FilesInv => SystemFilesSound
  BY DEF FilesInv, AnsweredIsFresh, Fresh, StillIsStored, GateIsExact,
         SystemFilesSound, ForcedSaveIsCurrent, CountIsSaved
<1>2. FilesSpec => []FilesInv
  BY InitFilesInv, StepKeepsFilesInv, PTL DEF FilesSpec
<1> QED BY <1>1, <1>2, PTL

-----------------------------------------------------------------------------
(***************************************************************************)
(* ShellSound for any number of commands and any number of failures.       *)
(*                                                                         *)
(* Everything is said of one process at a time (Sane): a step of one       *)
(* process leaves the others alone, except for the monitor, which only     *)
(* marks entries exited, and a failure, which ends what is promised of     *)
(* the living ones.  The strengthening links the four records of one       *)
(* process: a known pid means the host has started it and the shim was     *)
(* made after; as long as nothing failed, a settled shim means the process *)
(* is not alive, and that is why an entry may leave the table.             *)
(***************************************************************************)

\* The revision was advanced by the end of x only if its entry has ended.
Counted(x) ==
  /\ bumps[x] \in 0..1
  /\ entry[x] \notin {"stopped", "exited"} => bumps[x] = 0
  /\ entry[x] = "stopped" => bumps[x] = 1

\* What the page knows of a background process is true of it.
Tracked(x) ==
  /\ pid[x] # "none" => entry[x] \notin {"none", "asked"}
  /\ pid[x] = "known" => life[x] # "none" /\ shim[x] \in {"open", "killing", "settled"}
  /\ failures = 0 /\ pid[x] = "known" /\ shim[x] = "settled" => life[x] # "alive"
  /\ failures = 0 /\ pid[x] = "known" /\ life[x] = "alive"
       => listed(x) \/ shim[x] = "killing"

Sane(x) == Counted(x) /\ (x \in Background => Tracked(x))

ShellInv == ProcessTypeOK /\ \A x \in Procs : Sane(x)

LEMMA InitShellInv == Inits => ShellInv
<1> SUFFICES ASSUME Inits PROVE ShellInv
  OBVIOUS
<1>1. ProcessTypeOK
  <2>1. 0 \in 0..MaxFailures
    BY ProcessesAssumption
  <2> QED BY <2>1 DEF Inits, ProcessTypeOK
<1>2. ASSUME NEW x \in Procs PROVE Sane(x)
  BY DEF Inits, Sane, Counted, Tracked, listed, Background
<1> QED BY <1>1, <1>2 DEF ShellInv

-----------------------------------------------------------------------------
(* The steps of one process. *)

\* What a step of x leaves of the other processes.
Others(x) ==
  /\ failures' \in Nat /\ failures <= failures'
  /\ \A y \in Procs \ {x} :
       /\ life'[y] = life[y] /\ pid'[y] = pid[y] /\ shim'[y] = shim[y]
       /\ entry'[y] = entry[y] /\ bumps'[y] = bumps[y]

LEMMA OneAtATime ==
  ASSUME ShellInv, NEW x \in Procs, ProcessTypeOK', Others(x), Sane(x)'
  PROVE  ShellInv'
<1> SUFFICES ASSUME NEW y \in Procs, y # x PROVE Sane(y)'
  BY DEF ShellInv
<1>1. failures' = 0 => failures = 0
  BY DEF Others, ShellInv, ProcessTypeOK
<1> QED BY <1>1 DEF Others, ShellInv, Sane, Counted, Tracked, listed

\* The exit of x resolves: the entry ends if it was running.
LEMMA SettlesEffect ==
  ASSUME ShellInv, NEW x \in Procs, Settles(x)
  PROVE  /\ shim' \in [Procs -> {"none", "open", "killing", "settled", "mute", "muffled"}]
         /\ entry' \in [Procs -> {"none", "asked", "running", "unheard", "stopped",
                                  "dropped", "exited"}]
         /\ bumps' \in [Procs -> Nat]
         /\ shim'[x] = "settled"
         /\ entry'[x] = (IF entry[x] = "running" THEN "exited" ELSE entry[x])
         /\ Counted(x)'
         /\ \A y \in Procs \ {x} :
              shim'[y] = shim[y] /\ entry'[y] = entry[y] /\ bumps'[y] = bumps[y]
<1>1. ProcessTypeOK /\ Counted(x)
  BY DEF ShellInv, Sane
<1> QED BY <1>1 DEF Settles, ProcessTypeOK, Counted

LEMMA GoesKeeps ==
  ASSUME ShellInv, NEW x \in Procs, Asks(x) \/ Starts(x) \/ LoopEnds(x) \/ LoopAborts(x)
  PROVE  ShellInv'
<1>0. ProcessTypeOK /\ Sane(x)
  BY DEF ShellInv
<1>1. ProcessTypeOK'
  BY <1>0 DEF ProcessTypeOK, Asks, Starts, LoopEnds, LoopAborts
<1>2. Others(x)
  BY <1>0 DEF ProcessTypeOK, Others, Asks, Starts, LoopEnds, LoopAborts
<1>3. Counted(x)'
  BY <1>0 DEF ProcessTypeOK, Sane, Counted, Asks, Starts, LoopEnds, LoopAborts, listed
<1>4. x \in Background => Tracked(x)'
  BY <1>0 DEF ProcessTypeOK, Sane, Tracked, Background, Asks, Starts, LoopEnds, LoopAborts, listed
<1> QED BY <1>1, <1>2, <1>3, <1>4, OneAtATime DEF Sane

LEMMA RegistersKeeps ==
  ASSUME ShellInv, NEW x \in Procs, Registers(x) \/ SpawnFails(x)
  PROVE  ShellInv'
<1>0. ProcessTypeOK /\ Sane(x)
  BY DEF ShellInv
<1>1. ProcessTypeOK'
  <2>1. CASE Registers(x)
    <3>1. /\ pid' \in [Procs -> {"none", "known", "lost"}]
          /\ shim' \in [Procs -> {"none", "open", "killing", "settled", "mute", "muffled"}]
          /\ polling' \subseteq Foreground
      BY <2>1, <1>0 DEF ProcessTypeOK, Registers
    <3>2. entry' \in [Procs -> {"none", "asked", "running", "unheard", "stopped",
                                "dropped", "exited"}]
      BY <2>1, <1>0 DEF ProcessTypeOK, Registers
    <3> QED BY <3>1, <3>2, <2>1, <1>0 DEF ProcessTypeOK, Registers
  <2>2. CASE SpawnFails(x)
    BY <2>2, <1>0, ProcessesAssumption DEF ProcessTypeOK, SpawnFails, Fails
  <2> QED BY <2>1, <2>2
<1>2. Others(x)
  BY <1>0 DEF ProcessTypeOK, Others, Registers, SpawnFails, Fails
<1>3. Counted(x)'
  BY <1>0 DEF ProcessTypeOK, Sane, Counted, Registers, SpawnFails
<1>4. x \in Background => Tracked(x)'
  BY <1>0 DEF ProcessTypeOK, Sane, Tracked, Registers, SpawnFails, Fails, listed
<1> QED BY <1>1, <1>2, <1>3, <1>4, OneAtATime DEF Sane

LEMMA StopKeeps ==
  ASSUME ShellInv, NEW x \in Procs, StopProcess(x)
  PROVE  ShellInv'
<1>0. ProcessTypeOK /\ Sane(x) /\ listed(x)
  BY DEF ShellInv, StopProcess
<1>1. CASE shim[x] = "mute" /\ entry[x] = "running"
  <2>1. Settles(x) /\ UNCHANGED <<life, pid, polling, aborted, failures>>
    BY <1>1 DEF StopProcess
  <2>2. ProcessTypeOK' /\ Others(x) /\ Counted(x)'
    BY <2>1, <1>0, SettlesEffect DEF ProcessTypeOK, Others
  <2>3. x \in Background => Tracked(x)'
    BY <2>1, <1>0, <1>1, SettlesEffect DEF Sane, Tracked
  <2> QED BY <2>2, <2>3, OneAtATime DEF Sane
<1>2. CASE ~(shim[x] = "mute" /\ entry[x] = "running")
  <2>1. /\ shim' = [shim EXCEPT ![x] = killed(x)]
        /\ entry' = [entry EXCEPT ![x] = "stopped"]
        /\ bumps' = [bumps EXCEPT ![x] = @ + 1]
        /\ UNCHANGED <<life, pid, polling, aborted, failures>>
    BY <1>2 DEF StopProcess
  <2>2. killed(x) \in {"none", "open", "killing", "settled", "mute", "muffled"}
    BY <1>0 DEF killed, ProcessTypeOK
  <2>3. ProcessTypeOK' /\ Others(x)
    BY <2>1, <2>2, <1>0 DEF ProcessTypeOK, Others
  <2>4. Counted(x)'
    BY <2>1, <1>0 DEF Sane, Counted, listed, ProcessTypeOK
  <2>5. x \in Background => Tracked(x)'
    BY <2>1, <2>2, <1>0 DEF Sane, Tracked, listed, ProcessTypeOK, killed
  <2> QED BY <2>3, <2>4, <2>5, OneAtATime DEF Sane
<1> QED BY <1>1, <1>2

LEMMA EndsKeeps ==
  ASSUME ShellInv, NEW x \in Procs, Ends(x) \/ KillDelivered(x)
  PROVE  ShellInv'
<1>0. ProcessTypeOK /\ Sane(x)
  BY DEF ShellInv
<1>1. Settles(x) /\ UNCHANGED <<pid, polling, aborted>>
  BY DEF Ends, KillDelivered, PollEnds, PollFails, KillLost, RunFails, RunEnds
<1>2. /\ life' = life \/ life' = [life EXCEPT ![x] = "gone"]
      /\ failures' = failures \/ (failures < MaxFailures /\ failures' = failures + 1)
  BY DEF Ends, KillDelivered, PollEnds, PollFails, KillLost, RunFails, RunEnds, Fails
<1>3. ProcessTypeOK'
  BY <1>0, <1>1, <1>2, SettlesEffect, ProcessesAssumption DEF ProcessTypeOK
<1>4. Others(x)
  BY <1>0, <1>1, <1>2, SettlesEffect, ProcessesAssumption DEF ProcessTypeOK, Others
<1>5. x \in Background => life'[x] # "alive" \/ failures' # 0
  BY <1>0 DEF Ends, KillDelivered, PollEnds, PollFails, KillLost, RunFails, RunEnds, Fails,
              Background, ProcessTypeOK
<1>6. x \in Background => Tracked(x)'
  <2> SUFFICES ASSUME x \in Background PROVE Tracked(x)'
    OBVIOUS
  <2>1. shim'[x] = "settled" /\ pid'[x] = pid[x] /\ Tracked(x)
    BY <1>0, <1>1, SettlesEffect DEF Sane
  <2>2. life'[x] = "none" => life[x] = "none"
    BY <1>0, <1>2 DEF ProcessTypeOK
  <2>3. entry'[x] \in {"none", "asked"} => entry'[x] = entry[x]
    BY <1>1, SettlesEffect
  <2> QED BY <2>1, <2>2, <2>3, <1>5 DEF Tracked
<1> QED BY <1>1, <1>3, <1>4, <1>6, SettlesEffect, OneAtATime DEF Sane

LEMMA FallsKeeps ==
  ASSUME ShellInv, NEW x \in Procs, Falls(x)
  PROVE  ShellInv'
<1>0. ProcessTypeOK /\ Sane(x)
  BY DEF ShellInv
<1>1. /\ life' = [life EXCEPT ![x] = "gone"]
      /\ UNCHANGED <<pid, shim, entry, polling, aborted, bumps, failures>>
  BY DEF Falls, StopByPid, Dies
<1>2. ProcessTypeOK' /\ Others(x)
  BY <1>0, <1>1 DEF ProcessTypeOK, Others
<1>3. Sane(x)'
  BY <1>0, <1>1 DEF ProcessTypeOK, Sane, Counted, Tracked, listed
<1> QED BY <1>2, <1>3, OneAtATime

-----------------------------------------------------------------------------
(* The steps of all processes. *)

\* The monitor ends only entries of processes that are not alive, or a request
\* has failed.
LEMMA MonitorKeeps == ShellInv /\ (MonitorTick \/ MonitorFails) => ShellInv'
<1> SUFFICES ASSUME ShellInv, MonitorTick \/ MonitorFails PROVE ShellInv'
  OBVIOUS
<1>0. ProcessTypeOK
  BY DEF ShellInv
<1>1. UNCHANGED <<life, pid, shim, polling, aborted, bumps>>
  BY DEF MonitorTick, MonitorFails
<1>2. /\ failures' \in 0..MaxFailures
      /\ failures' = 0 => failures = 0
  BY <1>0, ProcessesAssumption DEF MonitorTick, MonitorFails, Fails, ProcessTypeOK
<1>3. PICK G \in SUBSET tracked :
        /\ entry' = reconciled(G)
        /\ failures' = 0 => \A x \in G : life[x] # "alive"
  <2>1. CASE MonitorTick
    <3> DEFINE G == {x \in tracked : life[x] # "alive"}
    <3>1. G \in SUBSET tracked /\ entry' = reconciled(G)
      BY <2>1 DEF MonitorTick
    <3> QED BY <3>1
  <2>2. CASE MonitorFails
    <3>1. entry' = reconciled(tracked) /\ failures' # 0
      BY <2>2, <1>0 DEF MonitorFails, Fails, ProcessTypeOK
    <3> QED BY <3>1
  <2> QED BY <2>1, <2>2
<1>4. \A x \in Procs : entry'[x] = IF x \in G THEN "exited" ELSE entry[x]
  BY <1>3 DEF reconciled
<1>5. ProcessTypeOK'
  BY <1>0, <1>1, <1>2, <1>3 DEF ProcessTypeOK, reconciled
<1>6. ASSUME NEW x \in Procs PROVE Sane(x)'
  <2>1. Sane(x) /\ (x \in G => x \in Background /\ listed(x))
    BY <1>3 DEF ShellInv, tracked
  <2>2. Counted(x)'
    BY <2>1, <1>1, <1>4 DEF Sane, Counted, listed
  <2>3. x \in Background => Tracked(x)'
    BY <2>1, <1>1, <1>2, <1>3, <1>4 DEF Sane, Tracked, listed
  <2> QED BY <2>2, <2>3 DEF Sane
<1> QED BY <1>5, <1>6 DEF ShellInv

LEMMA StepKeepsShellInv == ShellInv /\ [Steps]_processVars => ShellInv'
<1> SUFFICES ASSUME ShellInv, [Steps]_processVars PROVE ShellInv'
  OBVIOUS
<1>1. CASE UNCHANGED processVars \/ Abort
  BY <1>1, ZenonT(40) DEF processVars, Abort, ShellInv, ProcessTypeOK, Sane, Counted, Tracked, listed
<1>2. CASE Steps /\ ~Abort
  <2>1. CASE \E x \in Procs : Goes(x) \/ Registers(x) \/ Ends(x) \/ KillDelivered(x) \/ Falls(x)
    BY <2>1, GoesKeeps, RegistersKeeps, StopKeeps, EndsKeeps, FallsKeeps DEF Goes
  <2>2. CASE MonitorTick \/ MonitorFails
    BY <2>2, MonitorKeeps
  <2> QED BY <1>2, <2>1, <2>2 DEF Steps, Shared
<1> QED BY <1>1, <1>2

LEMMA ShellInvIsSound == ShellInv => ShellSound
<1> SUFFICES ASSUME ShellInv PROVE StopBumpsOnce /\ LiveIsListed
  BY DEF ShellSound
<1>1. StopBumpsOnce
  BY DEF ShellInv, Sane, Counted, StopBumpsOnce
<1>2. LiveIsListed
  BY DEF ShellInv, Sane, Tracked, LiveIsListed, Background
<1> QED BY <1>1, <1>2

\* However many commands run, are stopped, aborted or looked for, the end of
\* each advances the revision at most once, and an explicit stop exactly once;
\* as long as no request failed, none that lives drops out of the table without
\* being killed.  (WebContainerAgentRuntime, processRegistry)
THEOREM ShellIsSound == ProcessSpec => []ShellSound
<1>1. ProcessSpec => []ShellInv
  BY InitShellInv, StepKeepsShellInv, PTL DEF ProcessSpec
<1> QED BY <1>1, ShellInvIsSound, PTL

-----------------------------------------------------------------------------
(***************************************************************************)
(* PortsAreWatched, and ShellSound once more with the registry of the      *)
(* services beside the table of the processes.                             *)
(*                                                                         *)
(* The hand-over is the delicate part: a call that sent its kill arms the  *)
(* stop timer of the launch before it waits, so every port that stopping   *)
(* the launch made transient stays watched when the call has returned      *)
(* (StoppingIsWatched).  A call itself watches only the port it was made   *)
(* for, and writes that one back when it gives up.                         *)
(***************************************************************************)

PortTypeOK ==
  /\ launch \in [Procs -> {"none", "running", "stopping", "exited"}]
  /\ port \in [Ports -> [st : {"closed", "identifying", "managed", "stopping", "orphaned"},
                         of : Procs \cup {nobody}]]
  /\ timer \subseteq Ports /\ recent \subseteq Ports /\ fallback \subseteq Procs
  /\ calls \in [Callers -> [pc : {"idle", "killing", "waiting"},
                            port : Ports \cup {nobody}, of : Procs \cup {nobody}]]
  /\ listens \in [Ports -> Procs \cup {nobody}]
  /\ opens \in [Ports -> 0..2] /\ closing \subseteq Ports

\* A call under way was made for a managed port, whose owner it captured.
CallsFit == \A c \in Callers : calls[c].pc # "idle" => calls[c].port \in Ports /\ calls[c].of \in Procs

\* What watches a port that is being stopped.
stopWatched(p) ==
  \/ port[p].of \in fallback
  \/ \E c \in Callers : calls[c].pc = "killing" /\ calls[c].of = port[p].of
  \/ \E c \in Callers : calls[c].pc = "waiting" /\ calls[c].port = p

StoppingIsWatched == \A p \in Ports : port[p].st = "stopping" => port[p].of \in Procs /\ stopWatched(p)
IdentifyingIsTimed == \A p \in Ports : port[p].st = "identifying" => p \in timer
ManagedIsLaunched ==
  \A p \in Ports : port[p].st = "managed" =>
    port[p].of \in Procs /\ launch[port[p].of] \in {"running", "exited"}
RecentIsOrphan == \A p \in recent : port[p].st = "orphaned"

PortInv ==
  /\ PortTypeOK /\ CallsFit /\ StoppingIsWatched
  /\ IdentifyingIsTimed /\ ManagedIsLaunched /\ RecentIsOrphan

LEMMA InitPortInv == Init => PortInv
  BY PortsAssumption
  DEF Init, PortInv, PortTypeOK, CallsFit, StoppingIsWatched, IdentifyingIsTimed,
      ManagedIsLaunched, RecentIsOrphan, Closed, Idle

\* The kill of stopPort changes one process, as the kill of its shim does.
LEMMA KillKeepsShellInv ==
  ASSUME ShellInv, NEW x \in Procs,
         UNCHANGED <<pid, entry, polling, aborted, bumps>>,
         \/ life' = [life EXCEPT ![x] = "gone"] /\ UNCHANGED <<shim, failures>>
         \/ /\ IF life[x] = "alive" THEN Fails ELSE UNCHANGED failures
            /\ shim' = [shim EXCEPT ![x] = killed(x)] /\ UNCHANGED life
  PROVE  ShellInv'
<1>0. ProcessTypeOK /\ Sane(x)
  BY DEF ShellInv
<1>1. /\ killed(x) \in {"none", "open", "killing", "settled", "mute", "muffled"}
      /\ failures' \in 0..MaxFailures /\ failures <= failures'
  BY <1>0, ProcessesAssumption DEF killed, ProcessTypeOK, Fails
<1>2. ProcessTypeOK' /\ Others(x)
  BY <1>0, <1>1 DEF ProcessTypeOK, Others
<1>3. Sane(x)'
  BY <1>0, <1>1 DEF ProcessTypeOK, Sane, Counted, Tracked, listed, killed, Fails
<1> QED BY <1>2, <1>3, OneAtATime

\* Every other step of the composition is one of the processes or none.
LEMMA ComposedKeepsShellInv == ShellInv /\ PortInv /\ [Next]_vars => ShellInv'
<1> SUFFICES ASSUME ShellInv, PortInv, [Next]_vars PROVE ShellInv'
  OBVIOUS
<1>1. ASSUME NEW c \in Callers, KillArrives(c) \/ KillMisses(c) PROVE ShellInv'
  <2>1. calls[c].of \in Procs
    BY <1>1 DEF PortInv, CallsFit, KillArrives, KillMisses
  <2> QED BY <1>1, <2>1, KillKeepsShellInv DEF KillArrives, KillMisses
<1>2. ASSUME NEW c \in Callers, KillRefused(c) \/ PortGone(c) \/ WaitEnds(c) PROVE UNCHANGED processVars
  BY <1>2 DEF KillRefused, PortGone, WaitEnds
<1>3. ASSUME NEW p \in Ports, \/ OpenPort(p) \/ ClosePort(p) \/ OrphanTimer(p) \/ WindowPasses(p)
                              \/ Unbinds(p) \/ \E c \in Callers : StopPort(c, p)
      PROVE  UNCHANGED processVars
  BY <1>3 DEF OpenPort, ClosePort, OrphanTimer, WindowPasses, Unbinds, StopPort
<1>4. ASSUME NEW x \in Procs, FallbackFires(x) \/ \E p \in Ports : Binds(x, p)
      PROVE  UNCHANGED processVars
  BY <1>4 DEF FallbackFires, Binds
<1>5. CASE UNCHANGED vars
  BY <1>5, StepKeepsShellInv DEF vars
<1>6. CASE Next
  <2>1. Steps \/ UNCHANGED processVars \/ \E c \in Callers : KillArrives(c) \/ KillMisses(c)
    BY <1>6, <1>2, <1>3, <1>4 DEF Next, Steps
  <2> QED BY <2>1, <1>1, StepKeepsShellInv
<1> QED BY <1>5, <1>6

-----------------------------------------------------------------------------
(* The steps of the processes, with what the registry does in the same turn. *)

LEMMA LaunchedKeeps ==
  ASSUME PortInv, NEW x \in Procs, Launched(x)
  PROVE  PortInv'
<1>1. PICK taken \in SUBSET Ports :
        /\ \A p \in taken : port[p].st \in {"identifying", "orphaned"}
        /\ launch' = [launch EXCEPT ![x] = "running"]
        /\ port' = [p \in Ports |-> IF p \in taken THEN managedBy(x) ELSE port[p]]
        /\ timer' = timer \ taken /\ recent' = recent \ taken
        /\ UNCHANGED <<fallback, calls, listens, opens, closing>>
  BY DEF Launched
<1>2. PortTypeOK /\ managedBy(x) \in [st : {"managed"}, of : Procs]
  BY DEF PortInv, managedBy
<1>3. PortTypeOK'
  BY <1>1, <1>2 DEF PortTypeOK
<1>4. \A p \in Ports : p \in taken => port'[p].st = "managed" /\ port'[p].of = x
  BY <1>1 DEF managedBy
<1>5. \A p \in Ports : p \notin taken => port'[p] = port[p]
  BY <1>1
<1>6. CallsFit' /\ StoppingIsWatched'
  BY <1>1, <1>4, <1>5 DEF PortInv, CallsFit, StoppingIsWatched, stopWatched
<1>7. IdentifyingIsTimed' /\ RecentIsOrphan'
  BY <1>1, <1>2, <1>4, <1>5 DEF PortInv, IdentifyingIsTimed, RecentIsOrphan, PortTypeOK
<1>8. ManagedIsLaunched'
  BY <1>1, <1>2, <1>4, <1>5 DEF PortInv, ManagedIsLaunched, PortTypeOK
<1> QED BY <1>3, <1>6, <1>7, <1>8 DEF PortInv

\* A launch that a managed port refers to is not forgotten when it exits.
LEMMA EndedKeeps ==
  ASSUME PortInv, NEW x \in Procs, launch' = ended(x) \/ UNCHANGED launch,
         UNCHANGED <<port, timer, recent, fallback, calls>>,
         listens' \in [Ports -> Procs \cup {nobody}], opens' \in [Ports -> 0..2], closing' \subseteq Ports
  PROVE  PortInv'
<1>1. PortTypeOK
  BY DEF PortInv
<1>2. PortTypeOK'
  BY <1>1 DEF PortTypeOK, ended
<1>3. \A p \in Ports : port[p].st = "managed" /\ port[p].of = x => refersTo(x) # {}
  BY DEF refersTo, open
<1>4. ManagedIsLaunched'
  BY <1>1, <1>3 DEF PortInv, ManagedIsLaunched, PortTypeOK, ended
<1>5. CallsFit' /\ StoppingIsWatched' /\ IdentifyingIsTimed' /\ RecentIsOrphan'
  BY DEF PortInv, CallsFit, StoppingIsWatched, stopWatched, IdentifyingIsTimed, RecentIsOrphan
<1> QED BY <1>2, <1>4, <1>5 DEF PortInv

\* The container binds and frees ports, which the registry is told later.
LEMMA ContainerKeeps ==
  ASSUME PortInv, NEW x \in Procs,
         \/ Frees(x) /\ (launch' = ended(x) \/ UNCHANGED launch)
         \/ Exited(x) \/ \E p \in Ports : Binds(x, p) \/ Unbinds(p)
  PROVE  PortInv'
<1>1. PortTypeOK
  BY DEF PortInv
<1>2. /\ launch' = ended(x) \/ UNCHANGED launch
      /\ UNCHANGED <<port, timer, recent, fallback, calls>>
  BY DEF Frees, Exited, Binds, Unbinds
<1>3. /\ listens' \in [Ports -> Procs \cup {nobody}]
      /\ opens' \in [Ports -> 0..2] /\ closing' \subseteq Ports
  BY <1>1 DEF Frees, Exited, Binds, Unbinds, PortTypeOK
<1> QED BY <1>2, <1>3, EndedKeeps

-----------------------------------------------------------------------------
(* The events of the ports. *)

LEMMA OpenPortKeeps ==
  ASSUME PortInv, NEW q \in Ports, OpenPort(q)
  PROVE  PortInv'
<1> DEFINE owner == inferred(q, candidates)
           x == CHOOSE y \in owner : TRUE
<1>0. PortTypeOK
  BY DEF PortInv
<1>1. /\ opens' \in [Ports -> 0..2] /\ recent' = recent \ {q}
      /\ UNCHANGED <<processVars, launch, fallback, calls, listens, closing>>
  BY <1>0 DEF OpenPort, PortTypeOK
<1>2. CASE owner # {}
  <2>1. port' = [port EXCEPT ![q] = managedBy(x)] /\ UNCHANGED timer
    BY <1>2 DEF OpenPort
  <2>2. x \in owner /\ owner \subseteq candidates
    BY <1>2 DEF inferred
  <2>3. x \in Procs /\ launch[x] = "running"
    BY <2>2 DEF candidates, Background
  <2> HIDE DEF x, owner
  <2>4. /\ port'[q].st = "managed" /\ port'[q].of = x
        /\ \A p \in Ports \ {q} : port'[p] = port[p]
    BY <2>1, <1>0 DEF PortTypeOK, managedBy
  <2>5. PortTypeOK'
    <3>1. managedBy(x) \in [st : {"closed", "identifying", "managed", "stopping", "orphaned"},
                            of : Procs \cup {nobody}]
      BY <2>3 DEF managedBy
    <3> QED BY <1>0, <1>1, <2>1, <3>1 DEF PortTypeOK
  <2>6. CallsFit' /\ StoppingIsWatched' /\ IdentifyingIsTimed'
    BY <1>1, <2>1, <2>4 DEF PortInv, CallsFit, StoppingIsWatched, stopWatched, IdentifyingIsTimed
  <2>7. ManagedIsLaunched' /\ RecentIsOrphan'
    BY <1>0, <1>1, <2>3, <2>4 DEF PortInv, ManagedIsLaunched, RecentIsOrphan, PortTypeOK
  <2> QED BY <2>5, <2>6, <2>7 DEF PortInv
<1>3. CASE owner = {}
  <2>1. PICK st \in {"stopping", "identifying"} :
          /\ port' = [port EXCEPT ![q].st = st]
          /\ st = "stopping" => port[q].st = "stopping"
          /\ timer' = IF port[q].st = "stopping" THEN timer ELSE timer \cup {q}
          /\ port[q].st = "stopping" => st = "stopping"
    BY <1>0, <1>3 DEF OpenPort, PortTypeOK
  <2>2. /\ port'[q].st = st /\ port'[q].of = port[q].of
        /\ \A p \in Ports \ {q} : port'[p] = port[p]
        /\ \A p \in Ports : port'[p].of = port[p].of
    BY <2>1, <1>0 DEF PortTypeOK
  <2>3. PortTypeOK'
    BY <1>0, <1>1, <2>1 DEF PortTypeOK
  <2>4. CallsFit' /\ StoppingIsWatched'
    BY <1>1, <2>1, <2>2 DEF PortInv, CallsFit, StoppingIsWatched, stopWatched
  <2>5. IdentifyingIsTimed' /\ ManagedIsLaunched' /\ RecentIsOrphan'
    BY <1>0, <1>1, <2>1, <2>2 DEF PortInv, IdentifyingIsTimed, ManagedIsLaunched, RecentIsOrphan, PortTypeOK
  <2> QED BY <2>3, <2>4, <2>5 DEF PortInv
<1> QED BY <1>2, <1>3

LEMMA ClosePortKeeps ==
  ASSUME PortInv, NEW q \in Ports, ClosePort(q)
  PROVE  PortInv'
<1> DEFINE x == port[q].of
           final == x # nobody /\ refersTo(x) \subseteq {q}
<1>0. PortTypeOK
  BY DEF PortInv
<1>1. /\ port' = [port EXCEPT ![q] = Closed]
      /\ timer' = timer \ {q} /\ recent' = recent \ {q} /\ closing' = closing \ {q}
      /\ fallback' = (IF final THEN fallback \ {x} ELSE fallback)
      /\ launch' = (IF final /\ launch[x] = "exited" THEN [launch EXCEPT ![x] = "none"] ELSE launch)
      /\ UNCHANGED <<processVars, calls, listens, opens>>
  BY DEF ClosePort
<1>2. PortTypeOK'
  BY <1>0, <1>1 DEF PortTypeOK, Closed
<1>3. port'[q].st = "closed" /\ \A p \in Ports \ {q} : port'[p] = port[p]
  BY <1>0, <1>1 DEF PortTypeOK, Closed
<1>4. \A p \in Ports \ {q} : port[p].st # "closed" /\ port[p].of = x => ~final
  BY DEF refersTo, open
<1> HIDE DEF x, final
<1>5. CallsFit' /\ IdentifyingIsTimed' /\ RecentIsOrphan'
  BY <1>0, <1>1, <1>3 DEF PortInv, CallsFit, IdentifyingIsTimed, RecentIsOrphan, PortTypeOK
<1>6. StoppingIsWatched'
  BY <1>1, <1>3, <1>4 DEF PortInv, StoppingIsWatched, stopWatched
<1>7. ManagedIsLaunched'
  BY <1>0, <1>1, <1>3, <1>4 DEF PortInv, ManagedIsLaunched, PortTypeOK
<1> QED BY <1>2, <1>5, <1>6, <1>7 DEF PortInv

\* What a step that only makes ports orphans leaves to show.
LEMMA OrphaningKeeps ==
  ASSUME PortInv, NEW S \in SUBSET Ports,
         port' = orphaning(S),
         \A p \in S : port[p].st # "closed",
         timer' \subseteq Ports, recent' \subseteq Ports, fallback' \subseteq Procs,
         \A p \in timer : p \in timer' \/ p \in S,
         \A p \in recent' : p \in recent \/ p \in S,
         \A x \in fallback : x \in fallback' \/ \A p \in Ports \ S : port[p].of = x => port[p].st = "closed",
         UNCHANGED <<launch, calls, listens, opens, closing>>
  PROVE  PortInv'
<1>0. PortTypeOK
  BY DEF PortInv
<1>1. /\ \A p \in S : port'[p].st = "orphaned" /\ port'[p].of = port[p].of
      /\ \A p \in Ports \ S : port'[p] = port[p]
  BY <1>0 DEF orphaning, PortTypeOK
<1>2. PortTypeOK'
  <2>1. port' \in [Ports -> [st : {"closed", "identifying", "managed", "stopping", "orphaned"},
                             of : Procs \cup {nobody}]]
    BY <1>0 DEF orphaning, PortTypeOK
  <2> QED BY <1>0, <2>1 DEF PortTypeOK
<1>3. CallsFit' /\ IdentifyingIsTimed' /\ RecentIsOrphan' /\ ManagedIsLaunched'
  BY <1>0, <1>1 DEF PortInv, CallsFit, IdentifyingIsTimed, RecentIsOrphan, ManagedIsLaunched, PortTypeOK
<1>4. StoppingIsWatched'
  BY <1>0, <1>1 DEF PortInv, StoppingIsWatched, stopWatched
<1> QED BY <1>2, <1>3, <1>4 DEF PortInv

LEMMA TimersKeep ==
  ASSUME PortInv, \/ \E p \in Ports : OrphanTimer(p) \/ WindowPasses(p)
                  \/ \E x \in Procs : FallbackFires(x)
  PROVE  PortInv'
<1>0. PortTypeOK
  BY DEF PortInv
<1>1. ASSUME NEW p \in Ports, OrphanTimer(p), port[p].st = "identifying" PROVE PortInv'
  <2>1. /\ timer' = timer \ {p} /\ port' = orphaning({p}) /\ recent' = recent \cup {p}
        /\ UNCHANGED <<launch, fallback, calls, listens, opens, closing>>
    BY <1>1 DEF OrphanTimer
  <2> QED BY <1>0, <1>1, <2>1, OrphaningKeeps DEF PortTypeOK
<1>2. ASSUME NEW p \in Ports, WindowPasses(p) \/ (OrphanTimer(p) /\ port[p].st # "identifying")
      PROVE PortInv'
  <2>1. /\ timer' = timer \/ (timer' = timer \ {p} /\ port[p].st # "identifying")
        /\ recent' = recent \/ recent' = recent \ {p}
        /\ UNCHANGED <<launch, port, fallback, calls, listens, opens, closing>>
    BY <1>2 DEF OrphanTimer, WindowPasses
  <2>2. PortTypeOK' /\ CallsFit'
    BY <1>0, <2>1 DEF PortInv, PortTypeOK, CallsFit
  <2>3. IdentifyingIsTimed' /\ RecentIsOrphan' /\ ManagedIsLaunched' /\ StoppingIsWatched'
    BY <2>1 DEF PortInv, IdentifyingIsTimed, RecentIsOrphan, ManagedIsLaunched, StoppingIsWatched, stopWatched
  <2> QED BY <2>2, <2>3 DEF PortInv
<1>3. ASSUME NEW x \in Procs, FallbackFires(x) PROVE PortInv'
  <2>1. /\ fallback' = fallback \ {x} /\ port' = orphaning(refersTo(x))
        /\ UNCHANGED <<launch, timer, recent, calls, listens, opens, closing>>
    BY <1>3 DEF FallbackFires
  <2>2. /\ refersTo(x) \in SUBSET Ports
        /\ \A p \in refersTo(x) : port[p].st # "closed"
        /\ \A p \in Ports \ refersTo(x) : port[p].of = x => port[p].st = "closed"
    BY DEF refersTo, open
  <2> QED BY <1>0, <2>1, <2>2, OrphaningKeeps DEF PortTypeOK
<1> QED BY <1>1, <1>2, <1>3

-----------------------------------------------------------------------------
(* stopPort *)

LEMMA StopPortKeeps ==
  ASSUME PortInv, NEW c \in Callers, NEW q \in Ports, StopPort(c, q)
  PROVE  PortInv'
<1> DEFINE x == port[q].of
<1>0. PortTypeOK
  BY DEF PortInv
<1>1. /\ calls[c].pc = "idle" /\ port[q].st = "managed"
      /\ x \in Procs /\ launch[x] \in {"running", "exited"}
      /\ UNCHANGED <<processVars, timer, fallback, listens, opens, closing>>
  BY DEF StopPort, PortInv, ManagedIsLaunched
<1>2. CASE launch[x] = "running"
  <2> DEFINE r == [pc |-> "killing", port |-> q, of |-> x]
  <2>1. /\ launch' = [launch EXCEPT ![x] = "stopping"] /\ port' = stoppingAll(x)
        /\ recent' = recent \ refersTo(x) /\ calls' = [calls EXCEPT ![c] = r]
    BY <1>2 DEF StopPort
  <2>2. /\ r \in [pc : {"idle", "killing", "waiting"}, port : Ports \cup {nobody}, of : Procs \cup {nobody}]
        /\ r.pc = "killing" /\ r.port = q /\ r.of = x
    BY <1>1
  <2> HIDE DEF r
  <2>3. calls'[c] = r /\ \A d \in Callers \ {c} : calls'[d] = calls[d]
    BY <1>0, <2>1 DEF PortTypeOK
  <2>4. \A d \in Callers : calls[d].pc # "idle" => calls'[d] = calls[d]
    BY <1>1, <2>3
  <2>5. \A p \in Ports : /\ port'[p].of = port[p].of
                         /\ p \in refersTo(x) => port'[p].st = "stopping" /\ port'[p].of = x
                         /\ p \notin refersTo(x) => port'[p] = port[p]
                         /\ p \notin refersTo(x) /\ port[p].st = "managed" => port[p].of # x
    BY <1>0, <2>1 DEF stoppingAll, PortTypeOK, refersTo, open
  <2>6. PortTypeOK'
    <3>1. port' \in [Ports -> [st : {"closed", "identifying", "managed", "stopping", "orphaned"},
                               of : Procs \cup {nobody}]]
      BY <1>0, <2>1 DEF stoppingAll, PortTypeOK
    <3> QED BY <1>0, <1>1, <2>1, <2>2, <3>1 DEF PortTypeOK
  <2>7. CallsFit'
    BY <1>1, <2>2, <2>3 DEF PortInv, CallsFit
  <2> HIDE DEF x
  <2>8. StoppingIsWatched'
    BY <1>1, <2>2, <2>3, <2>4, <2>5 DEF PortInv, StoppingIsWatched, stopWatched
  <2>9. IdentifyingIsTimed' /\ RecentIsOrphan' /\ ManagedIsLaunched'
    BY <1>0, <1>1, <2>1, <2>5 DEF PortInv, IdentifyingIsTimed, RecentIsOrphan, ManagedIsLaunched, PortTypeOK
  <2> QED BY <2>6, <2>7, <2>8, <2>9 DEF PortInv
<1>3. CASE launch[x] = "exited"
  <2>1. port' = orphaning({q}) /\ UNCHANGED <<launch, recent, calls>>
    BY <1>3 DEF StopPort
  <2> QED BY <1>0, <1>1, <2>1, OrphaningKeeps DEF PortTypeOK
<1> QED BY <1>1, <1>2, <1>3

\* The kill is on its way: the stop timer takes over before the call waits.
LEMMA KillKeepsPortInv ==
  ASSUME PortInv, NEW c \in Callers, KillRefused(c) \/ KillArrives(c) \/ KillMisses(c)
  PROVE  PortInv'
<1> DEFINE x == calls[c].of
<1>0. PortTypeOK
  BY DEF PortInv
<1>1. /\ calls[c].pc = "killing" /\ calls' = [calls EXCEPT ![c].pc = "waiting"]
      /\ fallback' = fallback \cup {x}
      /\ UNCHANGED <<launch, port, timer, recent, opens>>
  BY DEF KillRefused, KillArrives, KillMisses, waits, arms
<1>2. x \in Procs /\ calls[c].port \in Ports
  BY <1>1 DEF PortInv, CallsFit
<1>3. /\ calls'[c].pc = "waiting" /\ calls'[c].port = calls[c].port /\ calls'[c].of = x
      /\ \A d \in Callers \ {c} : calls'[d] = calls[d]
      /\ calls' \in [Callers -> [pc : {"idle", "killing", "waiting"},
                                 port : Ports \cup {nobody}, of : Procs \cup {nobody}]]
  BY <1>0, <1>1 DEF PortTypeOK
<1>4. listens' \in [Ports -> Procs \cup {nobody}] /\ closing' \subseteq Ports
  BY <1>0 DEF KillRefused, KillArrives, KillMisses, PortTypeOK
<1> HIDE DEF x
<1>5. PortTypeOK'
  BY <1>0, <1>1, <1>2, <1>3, <1>4 DEF PortTypeOK
<1>6. CallsFit'
  BY <1>2, <1>3 DEF PortInv, CallsFit
<1>7. StoppingIsWatched'
  BY <1>1, <1>2, <1>3 DEF PortInv, StoppingIsWatched, stopWatched, x
<1>8. IdentifyingIsTimed' /\ RecentIsOrphan' /\ ManagedIsLaunched'
  BY <1>1 DEF PortInv, IdentifyingIsTimed, RecentIsOrphan, ManagedIsLaunched
<1> QED BY <1>5, <1>6, <1>7, <1>8 DEF PortInv

LEMMA WaitKeeps ==
  ASSUME PortInv, NEW c \in Callers, PortGone(c) \/ WaitEnds(c)
  PROVE  PortInv'
<1> DEFINE q == calls[c].port
           r == [st |-> "orphaned", of |-> calls[c].of]
<1>0. PortTypeOK
  BY DEF PortInv
<1>1. /\ calls[c].pc = "waiting" /\ calls' = [calls EXCEPT ![c] = Idle]
      /\ \/ UNCHANGED port /\ port[q].st = "closed"
         \/ port' = [port EXCEPT ![q] = r]
      /\ UNCHANGED <<launch, timer, recent, fallback, listens, opens, closing>>
  BY DEF PortGone, WaitEnds, open
<1>2. q \in Ports /\ calls[c].of \in Procs
  BY <1>1 DEF PortInv, CallsFit
<1>3. r.st = "orphaned" /\ r \in [st : {"orphaned"}, of : Procs]
  BY <1>2
<1> HIDE DEF r
<1>4. /\ calls'[c].pc = "idle" /\ \A d \in Callers \ {c} : calls'[d] = calls[d]
      /\ calls' \in [Callers -> [pc : {"idle", "killing", "waiting"},
                                 port : Ports \cup {nobody}, of : Procs \cup {nobody}]]
  BY <1>0, <1>1 DEF PortTypeOK, Idle
<1>5. /\ port'[q].st \in {"closed", "orphaned"} /\ \A p \in Ports \ {q} : port'[p] = port[p]
      /\ port[q].st = "closed" \/ port'[q].st = "orphaned"
      /\ port' \in [Ports -> [st : {"closed", "identifying", "managed", "stopping", "orphaned"},
                              of : Procs \cup {nobody}]]
  BY <1>0, <1>1, <1>2, <1>3 DEF PortTypeOK
<1>6. PortTypeOK'
  BY <1>0, <1>1, <1>4, <1>5 DEF PortTypeOK
<1>7. CallsFit'
  BY <1>4 DEF PortInv, CallsFit
<1>8. StoppingIsWatched'
  BY <1>1, <1>4, <1>5 DEF PortInv, StoppingIsWatched, stopWatched
<1>9. IdentifyingIsTimed' /\ RecentIsOrphan' /\ ManagedIsLaunched'
  BY <1>0, <1>1, <1>5 DEF PortInv, IdentifyingIsTimed, RecentIsOrphan, ManagedIsLaunched, PortTypeOK
<1> QED BY <1>6, <1>7, <1>8, <1>9 DEF PortInv

LEMMA StepKeepsPortInv == PortInv /\ [Next]_vars => PortInv'
<1> SUFFICES ASSUME PortInv, [Next]_vars PROVE PortInv'
  OBVIOUS
<1>1. CASE UNCHANGED portVars \/ UNCHANGED vars
  BY <1>1 DEF portVars, vars, PortInv, PortTypeOK, CallsFit, StoppingIsWatched, stopWatched,
              IdentifyingIsTimed, ManagedIsLaunched, RecentIsOrphan
<1>2. ASSUME NEW x \in Procs,
             \/ Registers(x) /\ Launched(x)
             \/ Ends(x) /\ Exited(x)
             \/ KillDelivered(x) /\ Frees(x) /\ launch' = ended(x)
             \/ Falls(x) /\ Frees(x) /\ UNCHANGED launch
             \/ FallbackFires(x)
             \/ \E p \in Ports : Binds(x, p)
      PROVE  PortInv'
  BY <1>2, LaunchedKeeps, ContainerKeeps, TimersKeep
<1>3. ASSUME NEW p \in Ports, \/ OpenPort(p) \/ ClosePort(p) \/ OrphanTimer(p) \/ WindowPasses(p)
                              \/ \E c \in Callers : StopPort(c, p)
      PROVE  PortInv'
  BY <1>3, OpenPortKeeps, ClosePortKeeps, TimersKeep, StopPortKeeps
<1>4. ASSUME NEW p \in Ports, Unbinds(p) PROVE PortInv'
  <2>1. /\ PortTypeOK /\ listens[p] \in Procs
        /\ UNCHANGED <<launch, port, timer, recent, fallback, calls>>
    BY <1>4 DEF PortInv, Unbinds, PortTypeOK
  <2> QED BY <1>4, <2>1, ContainerKeeps
<1>5. ASSUME NEW c \in Callers,
             KillRefused(c) \/ KillArrives(c) \/ KillMisses(c) \/ PortGone(c) \/ WaitEnds(c)
      PROVE  PortInv'
  BY <1>5, KillKeepsPortInv, WaitKeeps
<1> QED BY <1>1, <1>2, <1>3, <1>4, <1>5 DEF Next

LEMMA PortInvIsSound == PortInv => PortsAreWatched
<1> SUFFICES ASSUME PortInv, NEW p \in Ports
             PROVE  /\ port[p].st = "identifying" => p \in timer
                    /\ port[p].st = "stopping" =>
                         \/ port[p].of \in fallback
                         \/ \E c \in Callers : calls[c].pc # "idle"
                                    /\ (calls[c].of = port[p].of \/ calls[c].port = p)
                    /\ port[p].st = "managed" => launch[port[p].of] \in {"running", "exited"}
                    /\ p \in recent => port[p].st = "orphaned"
  BY DEF PortsAreWatched
<1>1. port[p].st = "stopping" => stopWatched(p)
  BY DEF PortInv, StoppingIsWatched
<1>2. stopWatched(p) => \/ port[p].of \in fallback
                        \/ \E c \in Callers : calls[c].pc # "idle"
                                    /\ (calls[c].of = port[p].of \/ calls[c].port = p)
  BY DEF stopWatched
<1> QED BY <1>1, <1>2 DEF PortInv, IdentifyingIsTimed, ManagedIsLaunched, RecentIsOrphan

\* The types of the registry, for any number of launches, ports and callers.
THEOREM PortsInvariant == Spec => [](ShellInv /\ PortInv)
<1>1. Init => ShellInv /\ PortInv
  BY InitShellInv, InitPortInv DEF Init
<1>2. (ShellInv /\ PortInv) /\ [Next]_vars => (ShellInv /\ PortInv)'
  BY ComposedKeepsShellInv, StepKeepsPortInv
<1> QED BY <1>1, <1>2, PTL DEF Spec

\* However many launches open ports, die, are stopped and looked for, a port in
\* a transient state has a timer or a call that ends it, and a managed port has
\* a launch that its button can stop.  (RuntimeServiceRegistry)
THEOREM PortsStayWatched == Spec => []PortsAreWatched
  BY PortsInvariant, PortInvIsSound, PTL

\* What ShellSound says of the processes also holds with the registry beside
\* them, whose kills reach the processes outside their table.
THEOREM ShellStaysSound == Spec => []ShellSound
  BY PortsInvariant, ShellInvIsSound, PTL

-----------------------------------------------------------------------------
(***************************************************************************)
(* KillsAreOwn for any processes, pids and containers, and any answers.    *)
(*                                                                         *)
(* A pid says nothing for long, so the invariant speaks of the numbers of  *)
(* the processes, which the code has not: what a row or a stop request     *)
(* stands for has the owner it was shown or checked for, as long as it     *)
(* lives and wherever it is recorded (RowsFit, StopsFit), and a process    *)
(* that takes over the pid has another number.                             *)
(***************************************************************************)

\* A set of numbers that is not empty has a least one.
LEMMA LeastNumber ==
  ASSUME NEW T, T \subseteq Nat, T # {}
  PROVE  \E x \in T : \A y \in T : x <= y
<1> DEFINE A == {k \in Nat : \A y \in T : k < y}
<1>1. PICK n \in T : n \in Nat
  OBVIOUS
<1>2. A \subseteq 0..n /\ IsFiniteSet(0..n)
  BY <1>1, FS_Interval
<1>3. \A k \in A : k \in Nat /\ 0..k \subseteq A
  OBVIOUS
<1>4. \A k \in Nat : k \notin A => \E y \in T : y \in Nat /\ y <= k
  OBVIOUS
<1>5. \A k \in A, y \in T : k < y
  OBVIOUS
<1> HIDE DEF A
<1>6. IsFiniteSet(A)
  BY <1>2, FS_Subset
<1>7. PICK c \in Nat : c = Cardinality(A)
  BY <1>6, FS_CardinalityType
<1>8. A \subseteq 0..(c-1)
  <2> SUFFICES ASSUME NEW k \in A PROVE k + 1 <= c /\ k \in Nat
    BY <1>7
  <2>1. k \in Nat /\ 0..k \subseteq A
    BY <1>3
  <2>2. Cardinality(0..k) = k + 1
    BY <2>1, FS_Interval
  <2>3. Cardinality(0..k) <= Cardinality(A)
    BY <2>1, <1>6, FS_Subset
  <2> QED BY <2>1, <2>2, <2>3, <1>7
<1>9. A = 0..(c-1)
  <2>1. c - 1 \in Int /\ 0 \in Int
    BY <1>7
  <2>2. IsFiniteSet(0..(c-1)) /\ Cardinality(0..(c-1)) = IF 0 > c - 1 THEN 0 ELSE (c - 1) - 0 + 1
    BY <2>1, FS_Interval
  <2>3. Cardinality(0..(c-1)) = c
    BY <2>2, <1>7
  <2> QED BY <2>2, <2>3, <1>7, <1>8, FS_Subset
<1>0. \A k \in Nat : k < c <=> k \in A
  BY <1>9
<1>10. PICK y \in T : y \in Nat /\ y <= c
  <2>1. c \notin A
    BY <1>0
  <2> QED BY <2>1, <1>4
<1>11. y \notin A
  BY <1>5, <1>10
<1>12. y = c
  BY <1>0, <1>10, <1>11
<1>13. ASSUME NEW z \in T PROVE c <= z
  <2>1. c = 0 \/ c - 1 \in A
    BY <1>0
  <2>2. z \in Nat /\ (c = 0 \/ c - 1 < z)
    BY <2>1, <1>5
  <2> QED BY <2>2
<1> QED BY <1>10, <1>12, <1>13

\* find of a pid in a table whose processes are numbered.
LEMMA TheOneIsThere ==
  ASSUME NEW S, NEW p, \A x \in S : x.nr \in Nat, Has(S, p)
  PROVE  TheOne(S, p) \in S /\ TheOne(S, p).pid = p
<1> DEFINE T == {x.nr : x \in {y \in S : y.pid = p}}
<1>1. T \subseteq Nat /\ T # {}
  BY DEF Has
<1>2. \E n \in T : \A m \in T : n <= m
  <2> HIDE DEF T
  <2> QED BY <1>1, LeastNumber
<1>3. \E x \in S : x.pid = p /\ \A y \in S : y.pid = p => x.nr <= y.nr
  BY <1>2
<1> QED BY <1>3 DEF TheOne

Owners == Boxes \cup {"system"}
Running == [nr : Nat, pid : Pids, owner : Owners, known : BOOLEAN]

\* A number stands for one process: its owner is the same in every record.
Numbered ==
  /\ starts \in Nat
  /\ host \subseteq Running /\ arriving \subseteq Running
  /\ registered \subseteq [nr : Nat, pid : Pids, owner : Owners]
  /\ \A x \in host \cup arriving \cup registered : 1 <= x.nr /\ x.nr <= starts
  /\ \A x, y \in host \cup arriving \cup registered : x.nr = y.nr => x.owner = y.owner

\* Every process recorded with the number n is of container c.
isOf(n, c) == 1 <= n /\ n <= starts
              /\ \A x \in host \cup arriving \cup registered : x.nr = n => x.owner = c

RowsFit == \A r \in rows : r.id # 0 => r.id \in Nat /\ isOf(r.id, r.from)
StopsFit ==
  \A s \in stops :
    /\ s = [pid |-> s.pid, from |-> s.from, step |-> s.step, nr |-> s.nr, blind |-> s.blind]
    /\ s.step = "kill" /\ ~s.blind => s.nr \in Nat /\ isOf(s.nr, s.from)

TableInv == Numbered /\ RowsFit /\ StopsFit /\ KillsAreOwn

\* A step that records no process anew leaves what is known of each number.
LEMMA NoNewProcessKeeps ==
  ASSUME TableInv, host' \subseteq host, arriving' \subseteq arriving, UNCHANGED starts,
         \A x \in registered' : x \in registered \/
            \E y \in arriving : x = [nr |-> y.nr, pid |-> y.pid, owner |-> y.owner]
  PROVE  /\ Numbered'
         /\ \A n \in Nat : \A c : isOf(n, c) => isOf(n, c)'
<1>1. \A x \in registered' : /\ x \in [nr : Nat, pid : Pids, owner : Owners]
                             /\ \E y \in arriving \cup registered : x.nr = y.nr /\ x.owner = y.owner
  <2> SUFFICES ASSUME NEW x \in registered', x \notin registered
               PROVE  /\ x \in [nr : Nat, pid : Pids, owner : Owners]
                      /\ \E y \in arriving \cup registered : x.nr = y.nr /\ x.owner = y.owner
    BY DEF TableInv, Numbered
  <2>1. PICK y \in arriving : x = [nr |-> y.nr, pid |-> y.pid, owner |-> y.owner]
    OBVIOUS
  <2>2. y.nr \in Nat /\ y.pid \in Pids /\ y.owner \in Owners
    BY DEF TableInv, Numbered, Running
  <2> QED BY <2>1, <2>2
<1>2. \A x \in (host \cup arriving \cup registered)' :
        \E y \in host \cup arriving \cup registered : x.nr = y.nr /\ x.owner = y.owner
  BY <1>1
<1>3. /\ host' \subseteq Running /\ arriving' \subseteq Running /\ starts' \in Nat
      /\ registered' \subseteq [nr : Nat, pid : Pids, owner : Owners]
  BY <1>1 DEF TableInv, Numbered
<1>4. Numbered'
  BY <1>2, <1>3 DEF TableInv, Numbered
<1>5. ASSUME NEW n \in Nat, NEW c, isOf(n, c) PROVE isOf(n, c)'
  BY <1>2, <1>5 DEF isOf
<1> QED BY <1>4, <1>5

LEMMA InitTableInv == TableInit => TableInv
  BY DEF TableInit, TableInv, Numbered, RowsFit, StopsFit, KillsAreOwn

LEMMA HostStartsKeeps ==
  ASSUME TableInv, NEW p \in Pids, NEW o \in Boxes \cup {"system"}, NEW known \in BOOLEAN,
         HostStarts(p, o, known)
  PROVE  TableInv'
<1> DEFINE z == [nr |-> starts + 1, pid |-> p, owner |-> o, known |-> known]
<1>0. Numbered
  BY DEF TableInv
<1>1. /\ starts' = starts + 1 /\ host' = host \cup {z}
      /\ arriving' \subseteq arriving \cup {z}
      /\ UNCHANGED <<registered, rows, stops, kills>>
  BY DEF HostStarts
<1>2. z \in Running /\ z.nr = starts + 1 /\ z.owner = o
  BY <1>0 DEF Running, Owners, Numbered
<1> HIDE DEF z
<1>3. Numbered'
  <2>1. \A x \in (host \cup arriving \cup registered)' : x = z \/ x \in host \cup arriving \cup registered
    BY <1>1
  <2>2. \A x \in host \cup arriving \cup registered : x.nr \in Nat /\ 1 <= x.nr /\ x.nr <= starts
    BY <1>0 DEF Numbered, Running
  <2>3. starts \in Nat /\ starts' = starts + 1
    BY <1>0, <1>1 DEF Numbered
  <2>4. \A x \in (host \cup arriving \cup registered)' : 1 <= x.nr /\ x.nr <= starts'
    BY <1>2, <2>1, <2>2, <2>3
  <2>5. ASSUME NEW x \in (host \cup arriving \cup registered)', NEW y \in (host \cup arriving \cup registered)',
               x.nr = y.nr
        PROVE  x.owner = y.owner
    <3>1. x = z /\ y # z => FALSE
      BY <1>2, <2>1, <2>2, <2>3, <2>5
    <3>2. y = z /\ x # z => FALSE
      BY <1>2, <2>1, <2>2, <2>3, <2>5
    <3> QED BY <1>0, <2>1, <2>5, <3>1, <3>2 DEF Numbered
  <2> QED BY <1>0, <1>1, <1>2, <2>3, <2>4, <2>5 DEF Numbered
<1>4. ASSUME NEW n \in Nat, NEW c, isOf(n, c) PROVE isOf(n, c)'
  <2>1. n # z.nr /\ n <= starts'
    BY <1>0, <1>1, <1>2, <1>4 DEF isOf, Numbered
  <2> QED BY <1>1, <1>4, <2>1 DEF isOf
<1> QED BY <1>1, <1>3, <1>4 DEF TableInv, RowsFit, StopsFit, KillsAreOwn

LEMMA RecordsKeep ==
  ASSUME TableInv,
         \/ \E x \in host : HostExits(x)
         \/ \E x \in arriving : Register(x)
         \/ \E S \in {host, {}} : Reconcile(S) \/ PanelAsks(S)
         \/ \E c \in Boxes : SwitchView(c)
         \/ UNCHANGED tableVars
  PROVE  TableInv'
<1>1. /\ host' \subseteq host /\ arriving' \subseteq arriving
      /\ UNCHANGED <<starts, rows, stops, kills>>
      /\ \A x \in registered' : x \in registered \/
            \E y \in arriving : x = [nr |-> y.nr, pid |-> y.pid, owner |-> y.owner]
  BY DEF HostExits, Register, Reconcile, PanelAsks, SwitchView, tableVars
<1>2. Numbered' /\ \A n \in Nat : \A c : isOf(n, c) => isOf(n, c)'
  BY <1>1, NoNewProcessKeeps
<1> QED BY <1>1, <1>2 DEF TableInv, RowsFit, StopsFit, KillsAreOwn

\* The rows of the registry are of the container shown.
LEMMA RenderKeeps == TableInv /\ Render => TableInv'
<1> SUFFICES ASSUME TableInv, Render PROVE TableInv'
  OBVIOUS
<1>1. UNCHANGED <<host, arriving, registered, starts, stops, kills>>
  BY DEF Render
<1>2. Numbered' /\ \A n \in Nat : \A c : isOf(n, c) => isOf(n, c)'
  BY <1>1, NoNewProcessKeeps
<1>3. ASSUME NEW r \in rows', r.id # 0 PROVE r.id \in Nat /\ isOf(r.id, r.from)
  <2>1. PICK x \in trackedHere : r = ownedRow(x, answer)
    BY <1>3 DEF Render, unownedRow
  <2>2. r.id = x.nr /\ r.from = view
    BY <2>1 DEF ownedRow
  <2>3. x \in registered /\ x.owner = view
    BY DEF trackedHere
  <2> QED BY <2>2, <2>3 DEF isOf, TableInv, Numbered
<1>4. RowsFit'
  BY <1>2, <1>3 DEF RowsFit
<1> QED BY <1>1, <1>2, <1>4 DEF TableInv, StopsFit, KillsAreOwn

LEMMA ClickKeeps ==
  ASSUME TableInv, NEW r \in rows, Click(r)
  PROVE  TableInv'
<1>1. UNCHANGED <<host, arriving, starts, rows, kills>> /\ registered' \subseteq registered
  BY DEF Click
<1>2. Numbered' /\ \A n \in Nat : \A c : isOf(n, c) => isOf(n, c)'
  BY <1>1, NoNewProcessKeeps
<1>3. StopsFit'
  <2>1. CASE r.id # 0
    <3>1. PICK x \in registered : /\ x.nr = r.id
                                  /\ stops' = {[pid |-> x.pid, from |-> r.from, step |-> "kill",
                                                nr |-> x.nr, blind |-> FALSE]}
      BY <2>1 DEF Click
    <3>2. r.id \in Nat /\ isOf(r.id, r.from)'
      BY <2>1, <1>2 DEF TableInv, RowsFit
    <3> QED BY <3>1, <3>2 DEF StopsFit
  <2>2. CASE r.id = 0
    <3>1. stops' = {[pid |-> r.pid, from |-> view, step |-> "asked", nr |-> 0, blind |-> FALSE]}
      BY <2>2 DEF Click
    <3> QED BY <3>1 DEF StopsFit
  <2> QED BY <2>1, <2>2
<1> QED BY <1>1, <1>2, <1>3 DEF TableInv, RowsFit, KillsAreOwn

\* What the guard makes of a request it does not refuse.
passed(s, nr, blind) == [s EXCEPT !.step = "kill", !.nr = nr, !.blind = blind]

LEMMA LetPass ==
  ASSUME NEW s, NEW pd, NEW from, NEW st, NEW n, NEW b, NEW nr, NEW blind,
         s = [pid |-> pd, from |-> from, step |-> st, nr |-> n, blind |-> b]
  PROVE  passed(s, nr, blind)
           = [pid |-> pd, from |-> from, step |-> "kill", nr |-> nr, blind |-> blind]
<1> DEFINE T == [pid : {pd}, from : {from}, step : {st, "kill"}, nr : {n, nr}, blind : {b, blind}]
<1>1. s \in T /\ s.pid = pd /\ s.from = from
  OBVIOUS
<1> DEFINE t == [s EXCEPT !.step = "kill", !.nr = nr, !.blind = blind]
<1>2. t \in T /\ t.pid = pd /\ t.from = from /\ t.step = "kill" /\ t.nr = nr /\ t.blind = blind
  BY <1>1
<1> HIDE DEF t
<1>3. t = [pid |-> pd, from |-> from, step |-> "kill", nr |-> nr, blind |-> blind]
  BY <1>2
<1> QED BY <1>3 DEF t, passed

\* What the guard lets pass was, when it was checked, of the container asked
\* from, or the check found no process.
LEMMA GuardKeeps ==
  ASSUME TableInv, NEW s \in stops, NEW S \in {host, {}}, Guard(s, S)
  PROVE  TableInv'
<1>1. UNCHANGED <<host, arriving, registered, starts, rows, kills>>
  BY DEF Guard
<1>2. Numbered' /\ \A n \in Nat : \A c : isOf(n, c) => isOf(n, c)'
  BY <1>1, NoNewProcessKeeps
<1>3. CASE refused(s, S)
  <2>1. stops' = {}
    BY <1>3 DEF Guard
  <2> QED BY <1>1, <1>2, <2>1 DEF TableInv, RowsFit, StopsFit, KillsAreOwn
<1>4. CASE ~refused(s, S)
  <2> DEFINE nr == IF Has(registered, s.pid) THEN TheOne(registered, s.pid).nr
                   ELSE IF Has(S, s.pid) THEN TheOne(S, s.pid).nr ELSE 0
             blind == ~Has(registered, s.pid) /\ ~Has(S, s.pid)
             t == [s EXCEPT !.step = "kill", !.nr = nr, !.blind = blind]
  <2>1. stops' = {t}
    BY <1>4 DEF Guard
  <2>2. Numbered
    BY DEF TableInv
  <2>3. (\A x \in registered : x.nr \in Nat) /\ (\A x \in S : x.nr \in Nat)
    BY <2>2 DEF Numbered, Running
  <2>4. ASSUME NEW e \in registered \cup host, e.owner = s.from PROVE e.nr \in Nat /\ isOf(e.nr, s.from)
    BY <2>2, <2>4 DEF Numbered, Running, isOf
  <2>5. blind \/ (nr \in Nat /\ isOf(nr, s.from))
    <3>1. CASE Has(registered, s.pid)
      <4>1. TheOne(registered, s.pid) \in registered
        BY <2>3, <3>1, TheOneIsThere
      <4>2. TheOne(registered, s.pid).owner = s.from
        BY <1>4, <3>1 DEF refused
      <4> QED BY <4>1, <4>2, <2>4, <3>1
    <3>2. CASE ~Has(registered, s.pid) /\ Has(S, s.pid)
      <4>1. TheOne(S, s.pid) \in host
        BY <2>3, <3>2, TheOneIsThere
      <4>2. TheOne(S, s.pid).owner = s.from
        BY <1>4, <3>2 DEF refused, refusal
      <4> QED BY <4>1, <4>2, <2>4, <3>2
    <3> QED BY <3>1, <3>2
  <2> HIDE DEF nr, blind
  <2>6. /\ t.from = s.from /\ t.nr = nr /\ t.blind = blind /\ t.step = "kill"
        /\ t = [pid |-> t.pid, from |-> t.from, step |-> t.step, nr |-> t.nr, blind |-> t.blind]
    <3>1. \E pd, from, st, n, b : s = [pid |-> pd, from |-> from, step |-> st, nr |-> n, blind |-> b]
      BY DEF TableInv, StopsFit
    <3>2. PICK pd, from, st, n, b : s = [pid |-> pd, from |-> from, step |-> st, nr |-> n, blind |-> b]
      BY <3>1
    <3>3. t = [pid |-> pd, from |-> from, step |-> "kill", nr |-> nr, blind |-> blind]
      <4>1. passed(s, nr, blind)
              = [pid |-> pd, from |-> from, step |-> "kill", nr |-> nr, blind |-> blind]
        BY <3>2, LetPass
      <4> QED BY <4>1 DEF passed
    <3>4. s.from = from
      BY <3>2
    <3> HIDE DEF t
    <3> QED BY <3>3, <3>4
  <2> HIDE DEF t
  <2>7. StopsFit'
    BY <1>2, <2>1, <2>5, <2>6 DEF StopsFit
  <2> QED BY <1>1, <1>2, <2>7 DEF TableInv, RowsFit, KillsAreOwn
<1> QED BY <1>3, <1>4

\* The host kills what has the pid by now: the process that was meant, or one
\* with another number.
LEMMA KillKeeps ==
  ASSUME TableInv, NEW s \in stops, Kill(s)
  PROVE  TableInv'
<1>1. /\ host' \subseteq host /\ stops' = {} /\ UNCHANGED <<arriving, registered, rows, starts>>
      /\ \A k \in kills' : k \in kills \/
           \E x \in host : k = [owner |-> x.owner, from |-> s.from, blind |-> s.blind,
                                reused |-> s.nr # x.nr]
  BY DEF Kill
<1>2. Numbered' /\ \A n \in Nat : \A c : isOf(n, c) => isOf(n, c)'
  BY <1>1, NoNewProcessKeeps
<1>3. RowsFit' /\ StopsFit'
  BY <1>1, <1>2 DEF TableInv, RowsFit, StopsFit
<1>4. ASSUME NEW k \in kills' PROVE k.owner = k.from \/ k.blind \/ k.reused
  <2>1. CASE k \in kills
    BY <2>1 DEF TableInv, KillsAreOwn
  <2>2. ASSUME NEW x \in host, k = [owner |-> x.owner, from |-> s.from, blind |-> s.blind,
                                    reused |-> s.nr # x.nr]
        PROVE  k.owner = k.from \/ k.blind \/ k.reused
    <3>1. k.owner = x.owner /\ k.from = s.from /\ k.blind = s.blind /\ (k.reused <=> s.nr # x.nr)
      BY <2>2
    <3>2. s.step = "kill"
      BY DEF Kill
    <3>3. s.blind \/ (s.nr = x.nr => x.owner = s.from)
      BY <3>2 DEF TableInv, StopsFit, isOf
    <3> QED BY <3>1, <3>3
  <2> QED BY <1>1, <2>1, <2>2
<1> QED BY <1>2, <1>3, <1>4 DEF TableInv, KillsAreOwn

LEMMA StepKeepsTableInv == TableInv /\ [TableNext]_tableVars => TableInv'
<1> SUFFICES ASSUME TableInv, [TableNext]_tableVars PROVE TableInv'
  OBVIOUS
<1> QED BY HostStartsKeeps, RecordsKeep, RenderKeeps, ClickKeeps, GuardKeeps, KillKeeps DEF TableNext

\* The stop button of a container's panel kills a process of that container,
\* unless the check found none with the pid or the pid was given away since,
\* however old the rows, the answers and the table are, and however many
\* processes come and go.  (ComputerView, ServicesPanel, killRefusal)
THEOREM KillsStayOwn == TableSpec => []KillsAreOwn
<1>1. TableSpec => []TableInv
  BY InitTableInv, StepKeepsTableInv, PTL DEF TableSpec
<1>2. TableInv => KillsAreOwn
  BY DEF TableInv
<1> QED BY <1>1, <1>2, PTL

-----------------------------------------------------------------------------
(***************************************************************************)
(* BrowserSound for any containers, listings and changes.                  *)
(*                                                                         *)
(* Of the listings under way only the one begun last for the container     *)
(* shown counts (isLatest).  As long as no operation crossed a switch, a   *)
(* panel that loads has it (LoadingIsServed); one that does not load shows *)
(* what was asked for last, or says why not (ShownIsAsked).  What carries  *)
(* the second over the end of a listing is that a directory which changes  *)
(* after the listing read it, while it is shown, has set the alarm         *)
(* (ReadIsWatched).                                                        *)
(***************************************************************************)

Listing == [nr : Nat, dir : Directories, root : Containers, seen : Nat]
isLatest(l) == l.nr = requests /\ l.root = root

BrowserTypeOK ==
  /\ edition \in [Directories -> Nat \ {0}]
  /\ root \in Containers /\ path \in Directories
  /\ listings \subseteq Listing /\ requests \in Nat
  /\ loading \in BOOLEAN /\ alarm \in BOOLEAN /\ unwatched \in BOOLEAN /\ crossings \in BOOLEAN
  /\ operation = NoDirectory \/ operation \in [dir : Directories, root : Containers]

ListingsFit ==
  /\ \A l \in listings : isWithinRoot(l.dir, l.root) /\ l.nr <= requests
  /\ \A l, m \in listings : l.nr = m.nr => l = m

LoadingIsServed ==
  /\ loading => \E l \in listings : isLatest(l)
  /\ \A l \in listings : isLatest(l) => loading /\ l.dir = askedFor
ReadIsWatched ==
  \A l \in listings : isLatest(l) /\ l.seen # 0 /\ l.seen # edition[l.dir] /\ l.dir = path => alarm
ShownIsAsked ==
  ~loading => \/ problem # "none" \/ unwatched \/ alarm
              \/ path = askedFor /\ entriesShown.dir = path /\ entriesShown.seen = edition[path]

Uncrossed == LoadingIsServed /\ ReadIsWatched /\ ShownIsAsked
BrowserInv == BrowserTypeOK /\ ListingsFit /\ ShownIsBelowRoot /\ (~crossings => Uncrossed)

LEMMA WithinRoots ==
  ASSUME NEW c \in Containers
  PROVE  /\ RootOf(c) \in Directories /\ SubOf(c) \in Directories
         /\ isWithinRoot(RootOf(c), c) /\ isWithinRoot(SubOf(c), c)
  BY DEF RootOf, SubOf, Directories, isWithinRoot

LEMMA InitBrowserInv == BrowserInit => BrowserInv
<1> SUFFICES ASSUME BrowserInit PROVE BrowserInv
  OBVIOUS
<1>1. PICK c \in Containers :
        /\ root = c /\ path = RootOf(c) /\ askedFor = RootOf(c)
        /\ listings = {[nr |-> 1, dir |-> RootOf(c), root |-> c, seen |-> 0]}
  BY DEF BrowserInit
<1> DEFINE d == RootOf(c)
<1>2. d \in Directories /\ isWithinRoot(d, c)
  BY WithinRoots
<1>3. path = d /\ askedFor = d /\ listings = {[nr |-> 1, dir |-> d, root |-> c, seen |-> 0]}
  BY <1>1
<1> HIDE DEF d
<1>4. BrowserTypeOK
  <2>1. edition \in [Directories -> Nat \ {0}]
    BY DEF BrowserInit
  <2>2. listings \subseteq Listing
    BY <1>2, <1>3 DEF Listing
  <2> QED BY <1>1, <1>2, <1>3, <2>1, <2>2 DEF BrowserInit, BrowserTypeOK
<1>5. ListingsFit /\ ShownIsBelowRoot
  BY <1>1, <1>2, <1>3 DEF BrowserInit, ListingsFit, ShownIsBelowRoot, NoListing
<1>6. Uncrossed
  BY <1>1, <1>3 DEF BrowserInit, Uncrossed, LoadingIsServed, ReadIsWatched, ShownIsAsked, isLatest
<1> QED BY <1>4, <1>5, <1>6 DEF BrowserInv

\* A listing begun for the container shown becomes the one that counts.
LEMMA NavigatesEffect ==
  ASSUME BrowserInv, NEW d \in Directories, NEW r \in Containers, isWithinRoot(d, r),
         NEW others \in SUBSET listings, Navigates(d, r, others), root' = r
  PROVE  /\ listings' \subseteq Listing /\ requests' \in Nat /\ loading' = TRUE
         /\ ListingsFit' /\ Uncrossed'
<1> DEFINE z == [nr |-> requests + 1, dir |-> d, root |-> r, seen |-> 0]
<1>1. /\ requests' = requests + 1 /\ listings' = others \cup {z}
      /\ loading' = TRUE /\ askedFor' = d
  BY DEF Navigates
<1>2. /\ requests \in Nat /\ listings \subseteq Listing
      /\ \A l \in listings : isWithinRoot(l.dir, l.root) /\ l.nr <= requests
      /\ \A l, m \in listings : l.nr = m.nr => l = m
  BY DEF BrowserInv, BrowserTypeOK, ListingsFit
<1>3. z \in Listing /\ z.nr = requests' /\ z.dir = d /\ z.root = r /\ z.seen = 0
  BY <1>1, <1>2 DEF Listing
<1> HIDE DEF z
<1>4. \A l \in others : l.nr \in Nat /\ l.nr < requests' /\ l # z
  BY <1>1, <1>2, <1>3 DEF Listing
<1>5. ListingsFit'
  <2>1. \A l \in listings' : isWithinRoot(l.dir, l.root) /\ l.nr <= requests'
    BY <1>1, <1>2, <1>3, <1>4
  <2>2. \A l, m \in listings' : l.nr = m.nr => l = m
    BY <1>1, <1>2, <1>3, <1>4
  <2> QED BY <2>1, <2>2 DEF ListingsFit
<1>6. Uncrossed'
  <2>1. LoadingIsServed'
    BY <1>1, <1>2, <1>3, <1>4 DEF LoadingIsServed, isLatest
  <2>2. ReadIsWatched'
    BY <1>1, <1>2, <1>3, <1>4 DEF ReadIsWatched, isLatest
  <2> QED BY <1>1, <2>1, <2>2 DEF Uncrossed, ShownIsAsked
<1> QED BY <1>1, <1>2, <1>3, <1>5, <1>6

LEMMA SwitchesKeep ==
  ASSUME BrowserInv, \/ \E c \in Containers : SwitchRoot(c)
                     \/ \E d \in Directories : OpenDirectory(d)
                     \/ AlarmRings
  PROVE  BrowserInv'
<1>0. BrowserTypeOK /\ ShownIsBelowRoot
  BY DEF BrowserInv
<1>1. ASSUME NEW c \in Containers, SwitchRoot(c) PROVE BrowserInv'
  <2>1. RootOf(c) \in Directories /\ isWithinRoot(RootOf(c), c)
    BY WithinRoots
  <2>2. /\ root' = c /\ path' = RootOf(c) /\ entriesShown' = NoListing
        /\ Navigates(RootOf(c), c, listings)
        /\ alarm' = FALSE /\ unwatched' = FALSE
        /\ UNCHANGED <<subs, edition, operation, crossings>>
    BY <1>1 DEF SwitchRoot
  <2>3. listings' \subseteq Listing /\ requests' \in Nat /\ loading' = TRUE /\ ListingsFit' /\ Uncrossed'
    BY <2>1, <2>2, NavigatesEffect
  <2>4. BrowserTypeOK' /\ ShownIsBelowRoot'
    BY <1>0, <2>1, <2>2, <2>3 DEF BrowserTypeOK, ShownIsBelowRoot, NoListing
  <2> QED BY <2>3, <2>4 DEF BrowserInv
<1>2. ASSUME NEW d \in Directories, isWithinRoot(d, root), Navigates(d, root, listings),
             alarm' \in BOOLEAN,
             UNCHANGED <<subs, edition, root, path, entriesShown, operation, unwatched, crossings>>
      PROVE  BrowserInv'
  <2>1. listings' \subseteq Listing /\ requests' \in Nat /\ loading' = TRUE /\ ListingsFit' /\ Uncrossed'
    BY <1>0, <1>2, NavigatesEffect DEF BrowserTypeOK
  <2>2. BrowserTypeOK' /\ ShownIsBelowRoot'
    BY <1>0, <1>2, <2>1 DEF BrowserTypeOK, ShownIsBelowRoot
  <2> QED BY <2>1, <2>2 DEF BrowserInv
<1>3. ASSUME NEW d \in Directories, OpenDirectory(d) PROVE BrowserInv'
  BY <1>0, <1>2, <1>3 DEF OpenDirectory, BrowserTypeOK
<1>4. CASE AlarmRings
  BY <1>0, <1>2, <1>4 DEF AlarmRings, ShownIsBelowRoot, BrowserTypeOK
<1> QED BY <1>1, <1>3, <1>4

\* A listing that does not count leaves without a trace.
LEMMA LeavesKeeps ==
  ASSUME BrowserInv, NEW l \in listings, ~isLatest(l), listings' = listings \ {l},
         UNCHANGED <<edition, root, path, entriesShown, loading, problem, requests, alarm,
                     operation, askedFor, unwatched, crossings>>
  PROVE  BrowserInv'
<1>1. BrowserTypeOK' /\ ShownIsBelowRoot'
  BY DEF BrowserInv, BrowserTypeOK, ShownIsBelowRoot
<1>2. ListingsFit'
  BY DEF BrowserInv, ListingsFit
<1>3. ~crossings => Uncrossed'
  <2> SUFFICES ASSUME ~crossings PROVE Uncrossed'
    OBVIOUS
  <2>1. LoadingIsServed'
    BY DEF BrowserInv, Uncrossed, LoadingIsServed, isLatest
  <2>2. ReadIsWatched' /\ ShownIsAsked'
    BY DEF BrowserInv, Uncrossed, ReadIsWatched, ShownIsAsked, isLatest
  <2> QED BY <2>1, <2>2 DEF Uncrossed
<1> QED BY <1>1, <1>2, <1>3 DEF BrowserInv

LEMMA ReadKeeps ==
  ASSUME BrowserInv, NEW l \in listings, ReadDirectory(l)
  PROVE  BrowserInv'
<1> DEFINE z == [l EXCEPT !.seen = edition[l.dir]]
<1>0. BrowserTypeOK /\ ListingsFit /\ l \in Listing
  BY DEF BrowserInv, BrowserTypeOK
<1>1. /\ l.seen = 0 /\ listings' = (listings \ {l}) \cup {z}
      /\ UNCHANGED <<subs, edition, root, path, entriesShown, loading, problem, requests,
                     alarm, operation, touches, askedFor, unwatched, crossings>>
  BY DEF ReadDirectory
<1>2. /\ z \in Listing /\ z.nr = l.nr /\ z.dir = l.dir /\ z.root = l.root /\ z.seen = edition[l.dir]
  BY <1>0 DEF Listing, BrowserTypeOK
<1> HIDE DEF z
<1>3. BrowserTypeOK' /\ ShownIsBelowRoot'
  BY <1>0, <1>1, <1>2 DEF BrowserInv, BrowserTypeOK, ShownIsBelowRoot
<1>4. ListingsFit'
  <2>1. \A m \in listings' : isWithinRoot(m.dir, m.root) /\ m.nr <= requests'
    BY <1>0, <1>1, <1>2 DEF ListingsFit
  <2>2. \A m, k \in listings' : m.nr = k.nr => m = k
    BY <1>0, <1>1, <1>2 DEF ListingsFit
  <2> QED BY <2>1, <2>2 DEF ListingsFit
<1>5. ~crossings => Uncrossed'
  <2> SUFFICES ASSUME ~crossings PROVE Uncrossed'
    OBVIOUS
  <2>1. LoadingIsServed'
    <3>1. \A m \in listings' : isLatest(m)' =>
            \E k \in listings : isLatest(k) /\ k.dir = m.dir
      BY <1>1, <1>2 DEF isLatest
    <3>2. \A m \in listings : isLatest(m) => \E k \in listings' : isLatest(k)'
      BY <1>1, <1>2 DEF isLatest
    <3> QED BY <1>1, <3>1, <3>2 DEF BrowserInv, Uncrossed, LoadingIsServed
  <2>2. ReadIsWatched'
    BY <1>1, <1>2 DEF BrowserInv, Uncrossed, ReadIsWatched, isLatest
  <2>3. ShownIsAsked'
    BY <1>1 DEF BrowserInv, Uncrossed, ShownIsAsked
  <2> QED BY <2>1, <2>2, <2>3 DEF Uncrossed
<1> QED BY <1>1, <1>3, <1>4, <1>5 DEF BrowserInv

LEMMA ListingEndsKeeps ==
  ASSUME BrowserInv, NEW l \in listings, ListingEnds(l)
  PROVE  BrowserInv'
<1>0. BrowserTypeOK /\ ListingsFit /\ l \in Listing
  BY DEF BrowserInv, BrowserTypeOK
<1>1. CASE superseded(l)
  <2>1. ~isLatest(l)
    BY <1>1 DEF superseded, isLatest
  <2> QED BY <1>1, <2>1, LeavesKeeps DEF ListingEnds
<1>2. CASE ~superseded(l)
  <2>1. /\ isLatest(l) /\ l.seen # 0 /\ listings' = listings \ {l}
        /\ path' = l.dir /\ alarm' = (alarm /\ l.dir = path)
        /\ entriesShown' = [dir |-> l.dir, seen |-> l.seen]
        /\ loading' = FALSE /\ unwatched' = (l.seen # edition[l.dir] /\ l.dir # path)
        /\ UNCHANGED <<subs, edition, root, problem, requests, operation, touches, askedFor, crossings>>
    BY <1>2 DEF superseded, isLatest, ListingEnds, Moves
  <2>2. l.dir \in Directories /\ isWithinRoot(l.dir, root)
    BY <1>0, <2>1 DEF Listing, ListingsFit, isLatest
  <2>3. BrowserTypeOK'
    BY <1>0, <2>1, <2>2 DEF BrowserTypeOK
  <2>4. ShownIsBelowRoot' /\ ListingsFit'
    BY <1>0, <2>1, <2>2 DEF ShownIsBelowRoot, ListingsFit
  <2>5. ~crossings => Uncrossed'
    <3> SUFFICES ASSUME ~crossings PROVE Uncrossed'
      OBVIOUS
    <3>1. \A m \in listings' : ~isLatest(m)'
      BY <1>0, <2>1 DEF ListingsFit, isLatest
    <3>2. l.dir = path /\ l.seen # edition[l.dir] => alarm
      BY <2>1 DEF BrowserInv, Uncrossed, ReadIsWatched
    <3>3. ShownIsAsked'
      <4>1. l.dir = askedFor
        BY <2>1 DEF BrowserInv, Uncrossed, LoadingIsServed
      <4> QED BY <2>1, <3>2, <4>1 DEF ShownIsAsked
    <3> QED BY <2>1, <3>1, <3>3 DEF Uncrossed, LoadingIsServed, ReadIsWatched
  <2> QED BY <2>1, <2>3, <2>4, <2>5 DEF BrowserInv
<1> QED BY <1>1, <1>2

LEMMA MissesKeep ==
  ASSUME BrowserInv, NEW l \in listings, ListingMisses(l) \/ ListingFails(l)
  PROVE  BrowserInv'
<1>0. BrowserTypeOK /\ ListingsFit /\ ShownIsBelowRoot /\ l \in Listing
  BY DEF BrowserInv, BrowserTypeOK
<1>1. CASE superseded(l)
  <2>1. ~isLatest(l)
    BY <1>1 DEF superseded, isLatest
  <2> QED BY <1>1, <2>1, LeavesKeeps DEF ListingMisses, ListingFails
<1>2. CASE ~superseded(l) /\ ListingMisses(l)
  <2>1. /\ l.root = root
        /\ Navigates(RootOf(l.dir[1]), l.root, listings \ {l})
        /\ UNCHANGED <<subs, edition, root, path, entriesShown, alarm, operation, touches,
                       unwatched, crossings>>
    BY <1>2 DEF superseded, ListingMisses
  <2>2. l.dir[1] = root /\ root \in Containers
    BY <1>0, <2>1 DEF ListingsFit, isWithinRoot, BrowserTypeOK
  <2>3. RootOf(root) \in Directories /\ isWithinRoot(RootOf(root), root)
    BY <2>2, WithinRoots
  <2>4. listings' \subseteq Listing /\ requests' \in Nat /\ loading' = TRUE /\ ListingsFit' /\ Uncrossed'
    BY <2>1, <2>2, <2>3, NavigatesEffect
  <2>5. BrowserTypeOK' /\ ShownIsBelowRoot'
    BY <1>0, <2>1, <2>4 DEF BrowserTypeOK, ShownIsBelowRoot
  <2> QED BY <2>4, <2>5 DEF BrowserInv
<1>3. CASE ~superseded(l) /\ ListingFails(l)
  <2>1. /\ isLatest(l) /\ listings' = listings \ {l}
        /\ entriesShown' = NoListing /\ loading' = FALSE /\ problem' = "unread"
        /\ UNCHANGED <<subs, edition, root, path, requests, alarm, operation, askedFor, unwatched, crossings>>
    BY <1>3 DEF superseded, isLatest, ListingFails
  <2>2. BrowserTypeOK' /\ ListingsFit' /\ ShownIsBelowRoot'
    BY <1>0, <2>1 DEF BrowserTypeOK, ListingsFit, ShownIsBelowRoot, NoListing
  <2>3. \A m \in listings' : ~isLatest(m)'
    BY <1>0, <2>1 DEF ListingsFit, isLatest
  <2> QED BY <2>1, <2>2, <2>3 DEF BrowserInv, Uncrossed, LoadingIsServed, ReadIsWatched, ShownIsAsked
<1> QED BY <1>1, <1>2, <1>3

\* A change of the shown directory sets the alarm.
LEMMA ChangedEffect ==
  ASSUME BrowserTypeOK, NEW D \in SUBSET Directories, Changed(D)
  PROVE  /\ edition' \in [Directories -> Nat \ {0}] /\ alarm' \in BOOLEAN
         /\ alarm => alarm'
         /\ edition'[path] # edition[path] => alarm'
         /\ ~alarm' => edition'[path] = edition[path]
<1>1. /\ edition' = [d \in Directories |-> IF d \in D THEN edition[d] + 1 ELSE edition[d]]
      /\ alarm' = (alarm \/ path \in D)
  BY DEF Changed
<1>2. \A d \in Directories : edition[d] \in Nat \ {0}
  BY DEF BrowserTypeOK
<1>3. edition' \in [Directories -> Nat \ {0}]
  BY <1>1, <1>2
<1>4. path \in Directories /\ (path \notin D => edition'[path] = edition[path])
  BY <1>1 DEF BrowserTypeOK
<1> QED BY <1>1, <1>3, <1>4 DEF BrowserTypeOK

LEMMA FilesChangeKeeps ==
  ASSUME BrowserInv, NEW c \in Containers, FilesChange(c)
  PROVE  BrowserInv'
<1>0. BrowserTypeOK
  BY DEF BrowserInv
<1>1. PICK D \in SUBSET Directories : Changed(D)
  BY WithinRoots DEF FilesChange
<1>2. UNCHANGED <<root, path, entriesShown, loading, problem, requests, listings,
                  operation, askedFor, unwatched, crossings>>
  BY DEF FilesChange
<1>3. /\ edition' \in [Directories -> Nat \ {0}] /\ alarm' \in BOOLEAN
      /\ alarm => alarm'
      /\ ~alarm' => edition'[path] = edition[path]
  BY <1>0, <1>1, ChangedEffect
<1>4. BrowserTypeOK' /\ ListingsFit' /\ ShownIsBelowRoot'
  BY <1>0, <1>2, <1>3 DEF BrowserInv, BrowserTypeOK, ListingsFit, ShownIsBelowRoot
<1>5. ~crossings => Uncrossed'
  <2> SUFFICES ASSUME ~crossings PROVE Uncrossed'
    OBVIOUS
  <2>1. LoadingIsServed' /\ ShownIsAsked'
    BY <1>2, <1>3 DEF BrowserInv, Uncrossed, LoadingIsServed, ShownIsAsked, isLatest
  <2>2. ReadIsWatched'
    BY <1>2, <1>3 DEF BrowserInv, Uncrossed, ReadIsWatched, isLatest
  <2> QED BY <2>1, <2>2 DEF Uncrossed
<1> QED BY <1>2, <1>4, <1>5 DEF BrowserInv

LEMMA OperateKeeps ==
  ASSUME BrowserInv, Operate
  PROVE  BrowserInv'
<1>1. BrowserTypeOK' /\ ListingsFit' /\ ShownIsBelowRoot'
  BY DEF Operate, BrowserInv, BrowserTypeOK, ListingsFit, ShownIsBelowRoot
<1>2. ~crossings => Uncrossed'
  BY DEF Operate, BrowserInv, Uncrossed, LoadingIsServed, ReadIsWatched, ShownIsAsked, isLatest
<1> QED BY <1>1, <1>2 DEF BrowserInv, Operate

\* An operation ends with a listing of what is shown by now, unless its
\* container has been switched away.
LEMMA OperationEndsKeeps ==
  ASSUME BrowserInv, OperationEnds
  PROVE  BrowserInv'
<1>0. /\ BrowserTypeOK /\ ListingsFit /\ ShownIsBelowRoot
      /\ operation.dir \in Directories /\ operation.root \in Containers
  BY DEF BrowserInv, BrowserTypeOK, OperationEnds
<1>1. operation' = NoDirectory /\ UNCHANGED <<subs, root, path, entriesShown, touches, unwatched>>
  BY DEF OperationEnds
<1>2. CASE /\ problem' = "failed"
           /\ UNCHANGED <<edition, alarm, loading, requests, listings, askedFor, crossings>>
  <2>1. BrowserTypeOK' /\ ListingsFit' /\ ShownIsBelowRoot'
    BY <1>0, <1>1, <1>2 DEF BrowserTypeOK, ListingsFit, ShownIsBelowRoot
  <2>2. ~crossings => Uncrossed'
    BY <1>1, <1>2 DEF BrowserInv, Uncrossed, LoadingIsServed, ReadIsWatched, ShownIsAsked, isLatest
  <2> QED BY <1>2, <2>1, <2>2 DEF BrowserInv
<1>3. CASE /\ Changed({operation.dir})
           /\ Navigates(path, operation.root, listings)
           /\ crossings' = (crossings \/ operation.root # root)
  <2>1. edition' \in [Directories -> Nat \ {0}] /\ alarm' \in BOOLEAN
    <3>1. {operation.dir} \in SUBSET Directories
      BY <1>0
    <3> QED BY <1>0, <1>3, <3>1, ChangedEffect
  <2>2. CASE operation.root = root
    <3>1. listings' \subseteq Listing /\ requests' \in Nat /\ loading' = TRUE /\ ListingsFit' /\ Uncrossed'
      BY <1>0, <1>1, <1>3, <2>2, NavigatesEffect DEF BrowserTypeOK, ShownIsBelowRoot
    <3>2. BrowserTypeOK' /\ ShownIsBelowRoot'
      BY <1>0, <1>1, <1>3, <2>1, <3>1 DEF BrowserTypeOK, ShownIsBelowRoot
    <3> QED BY <3>1, <3>2 DEF BrowserInv
  <2>3. CASE operation.root # root
    <3>1. crossings' = TRUE
      BY <1>3, <2>3
    <3>2. operation.root # root => ~isWithinRoot(path, operation.root)
      BY <1>0 DEF ShownIsBelowRoot, isWithinRoot
    <3>3. requests' = requests + 1 /\ listings' = listings /\ UNCHANGED <<loading, askedFor>>
      BY <1>3, <2>3, <3>2 DEF Navigates
    <3>4. requests \in Nat /\ listings \subseteq Listing
      BY <1>0 DEF BrowserTypeOK
    <3>5. \A l \in listings : l.nr <= requests'
      BY <1>0, <3>3, <3>4 DEF ListingsFit, Listing
    <3>6. ListingsFit'
      BY <1>0, <3>3, <3>5 DEF ListingsFit
    <3>7. BrowserTypeOK' /\ ShownIsBelowRoot'
      BY <1>0, <1>1, <2>1, <3>1, <3>3, <3>4 DEF BrowserTypeOK, ShownIsBelowRoot
    <3> QED BY <3>1, <3>6, <3>7 DEF BrowserInv
  <2> QED BY <2>2, <2>3
<1> QED BY <1>2, <1>3 DEF OperationEnds

LEMMA StepKeepsBrowserInv == BrowserInv /\ [BrowserNext]_browserVars => BrowserInv'
<1> SUFFICES ASSUME BrowserInv, [BrowserNext]_browserVars PROVE BrowserInv'
  OBVIOUS
<1>1. CASE UNCHANGED browserVars
  BY <1>1 DEF browserVars, BrowserInv, BrowserTypeOK, ListingsFit, ShownIsBelowRoot, Uncrossed,
              LoadingIsServed, ReadIsWatched, ShownIsAsked, isLatest
<1>2. CASE BrowserNext
  BY <1>2, SwitchesKeep, ReadKeeps, ListingEndsKeeps, MissesKeep, FilesChangeKeeps, OperateKeeps,
     OperationEndsKeeps DEF BrowserNext
<1> QED BY <1>1, <1>2

\* However listings overtake one another, directories come and go and the
\* container is switched, what the panel shows is below its root, and once
\* nothing is under way it shows what was asked for last, as it is now, or an
\* error; left out are the cases PanelSettles names.  (useFileSystem)
THEOREM BrowserStaysSound == BrowserSpec => []BrowserSound
<1>1. BrowserSpec => []BrowserInv
  BY InitBrowserInv, StepKeepsBrowserInv, PTL DEF BrowserSpec
<1>2. BrowserInv => BrowserSound
  BY DEF BrowserInv, BrowserSound, PanelSettles, Uncrossed, LoadingIsServed, ShownIsAsked
<1> QED BY <1>1, <1>2, PTL
=============================================================================
