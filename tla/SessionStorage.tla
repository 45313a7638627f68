--------------------------- MODULE SessionStorage ---------------------------
(***************************************************************************)
(* IndexedDbSessionStorage and IndexedDbSessionRepo: a session is a log of *)
(* mutations on disk, and an instance of the storage holds in memory what  *)
(* the replay of the log yields.  Each write call is queued on the tail of *)
(* its instance; when its turn comes it is validated against the memory,   *)
(* put on disk under the next sequence number, and applied to the memory   *)
(* once the transaction completed.  A reload of the page loses the memory, *)
(* the queues and the continuations of pending puts.                       *)
(*                                                                         *)
(* Assumed, as the header of the source says: one writer.  A session has   *)
(* at most one instance that writes, and is deleted only when it has none. *)
(*                                                                         *)
(* Timestamps, usage statistics, and the texts of entries, names and       *)
(* labels are left out: no mutation is accepted or refused because of      *)
(* them.                                                                   *)
(***************************************************************************)
EXTENDS Integers, Sequences, FiniteSets, SequencesExt, Subsequences

CONSTANTS
  Session,
  Id,           \* ids of entries and records
  MessageIds,      \* the entries of type message
  Lane,         \* the lanes other than main
  Null,         \* the leaf of an empty lane, the parent of a first entry
  Tried,        \* bound: the write calls there are
  MaxCalls,     \* bound: write calls and forks
  MaxReloads    \* bound: reloads of the page

ASSUME StorageAssumption ==
  /\ MessageIds \subseteq Id
  /\ Null \notin Id \cup Lane \cup {"main"}
  /\ "main" \notin Lane

VARIABLES
  meta,      \* sessions with a meta record on disk
  log,       \* log[s][n]: the mutation of s on disk under the number n
  live,      \* sessions with an instance
  mem,       \* IndexedDbSessionState of the instance
  tail,      \* calls queued on the instance, the first one executing
  copying,   \* mutations a fork into the session has still to write
  pend,      \* the put the instance awaits
  acked,     \* history: ids of the entries and records acknowledged, in order
  origin,    \* history: per lane, the conversation a fork into the session copies
  calls, reloads

storageVars == <<meta, log, live, mem, tail, copying, pend, acked, origin, calls, reloads>>
disk == <<meta, log>>

-----------------------------------------------------------------------------
(* IndexedDbSessionState *)

\* ok is FALSE once applyMutation threw.
EmptyState ==
  [ok |-> TRUE, sequence |-> 0, usedIds |-> {}, entries |-> <<>>,
   parentId |-> [i \in {} |-> Null], lanes |-> [l \in {"main"} |-> Null],
   open |-> {}, labels |-> {}]

ids(st) == Range(st.entries)
hasTarget(st, i) == i = Null \/ i \in ids(st)

\* What applyMutation checks before it changes the state.
accepts(st, n, m) ==
  /\ st.ok
  /\ n = st.sequence + 1
  /\ CASE m.kind = "entry" ->
            /\ m.id \notin st.usedIds
            /\ m.lane # Null => m.lane \in DOMAIN st.lanes /\ m.parent = st.lanes[m.lane]
            /\ hasTarget(st, m.parent)
       [] m.kind = "record" -> m.lane \in DOMAIN st.lanes /\ m.id \notin st.usedIds
       [] m.kind = "lane" -> hasTarget(st, m.leaf)
       [] m.kind = "name" -> TRUE
       [] m.kind = "label" -> m.target \in ids(st)

withLane(st, l, i) ==
  [x \in DOMAIN st.lanes \cup {l} |-> IF x = l THEN i ELSE st.lanes[x]]

\* open holds <<lane, id>> for the operations started and not finished.
openAfter(st, m) ==
  CASE m.type = "started"  -> st.open \cup {<<m.lane, m.id>>}
    [] m.type = "finished" -> st.open \ {<<m.lane, m.run>>}
    [] OTHER               -> st.open

applyMutation(st, n, m) ==
  IF ~accepts(st, n, m) THEN [st EXCEPT !.ok = FALSE]
  ELSE LET at == [st EXCEPT !.sequence = n]
       IN CASE m.kind = "entry" ->
                 [at EXCEPT !.usedIds = @ \cup {m.id},
                            !.entries = Append(@, m.id),
                            !.parentId = [i \in ids(st) \cup {m.id} |->
                                            IF i = m.id THEN m.parent ELSE st.parentId[i]],
                            !.lanes = IF m.lane = Null THEN @ ELSE withLane(st, m.lane, m.id)]
            [] m.kind = "record" ->
                 [at EXCEPT !.usedIds = @ \cup {m.id}, !.open = openAfter(st, m)]
            [] m.kind = "lane" -> [at EXCEPT !.lanes = withLane(st, m.lane, m.leaf)]
            [] m.kind = "name" -> at
            [] m.kind = "label" ->
                 [at EXCEPT !.labels = IF m.set THEN @ \cup {m.target} ELSE @ \ {m.target}]

\* The state after the mutations of l numbered up to n, for every n.
replayUpTo(l) ==
  LET upTo[n \in 0..Max(DOMAIN l \cup {0})] ==
        IF n = 0 THEN EmptyState
        ELSE IF n \in DOMAIN l THEN applyMutation(upTo[n - 1], n, l[n]) ELSE upTo[n - 1]
  IN upTo

\* load: replay the log in the order of its sequence numbers.
Replay(l) == replayUpTo(l)[Max(DOMAIN l \cup {0})]

\* The last k entries of the way from each of the entries up to its root.
walkToRoot(entries, parentId) ==
  LET up[k \in 0..Len(entries)] ==
        [i \in Range(entries) \cup {Null} |->
           IF k = 0 \/ i = Null THEN <<>> ELSE Append(up[k - 1][parentId[i]], i)]
  IN up

\* findEntriesOnBranch, oldest first.
branch(st, i) == walkToRoot(st.entries, st.parentId)[Len(st.entries)][i]

-----------------------------------------------------------------------------
(* The mutation each call writes, and when it is refused *)

Lanes == Lane \cup {"main"}

Calls ==
  [op : {"createLane", "moveLane"}, lane : Lanes, at : Id \cup {Null}]
  \cup [op : {"appendEntry"}, id : Id, lane : Lanes]
  \cup [op : {"appendRecord"}, id : Id, lane : Lanes, type : {"started"}, run : {Null}]
  \cup [op : {"appendRecord"}, id : Id, lane : Lanes, type : {"finished"}, run : Id]
  \cup [op : {"setName"}]
  \cup [op : {"setLabel"}, id : Id, set : BOOLEAN]

ASSUME CallsAssumption == Tried \subseteq Calls

refused(st, c) ==
  CASE c.op = "createLane" -> c.lane \in DOMAIN st.lanes \/ ~hasTarget(st, c.at)
    [] c.op = "moveLane" -> c.lane \notin DOMAIN st.lanes \/ ~hasTarget(st, c.at)
    [] c.op = "appendEntry" -> c.lane \notin DOMAIN st.lanes \/ c.id \in st.usedIds
    [] c.op = "appendRecord" ->
         \/ c.lane \notin DOMAIN st.lanes
         \/ c.id \in st.usedIds
         \/ c.type = "started" /\ \E o \in st.open : o[1] = c.lane
    [] c.op = "setName" -> FALSE
    [] c.op = "setLabel" -> c.id \notin ids(st)

mutationOf(st, c) ==
  CASE c.op \in {"createLane", "moveLane"} -> [kind |-> "lane", lane |-> c.lane, leaf |-> c.at]
    [] c.op = "appendEntry" ->
         [kind |-> "entry", id |-> c.id, lane |-> c.lane, parent |-> st.lanes[c.lane]]
    [] c.op = "appendRecord" ->
         [kind |-> "record", id |-> c.id, lane |-> c.lane, type |-> c.type, run |-> c.run]
    [] c.op = "setName" -> [kind |-> "name"]
    [] c.op = "setLabel" -> [kind |-> "label", target |-> c.id, set |-> c.set]

entryCopies(st, copied) ==
  [k \in 1..Len(copied) |->
     [kind |-> "entry", id |-> copied[k], lane |-> Null, parent |-> st.parentId[copied[k]]]]

lanePointers(pointers) ==
  LET lanes == SetToSeq(DOMAIN pointers)
  IN [k \in 1..Len(lanes) |-> [kind |-> "lane", lane |-> lanes[k], leaf |-> pointers[lanes[k]]]]

labelCopies(st, copied) ==
  LET labelled == only(copied, st.labels)
  IN [k \in 1..Len(labelled) |-> [kind |-> "label", target |-> labelled[k], set |-> TRUE]]

\* Mutant: the copied entries lose their parents.
copyUnchained(st, copied, pointers) ==
  [k \in 1..Len(copied) |-> [kind |-> "entry", id |-> copied[k], lane |-> Null, parent |-> Null]]
  \o lanePointers(pointers) \o labelCopies(st, copied)

(***************************************************************************)
(* createForkMutations: the copied entries chained as they are but on no   *)
(* lane, then the lane pointers, then the labels of the copied entries.    *)
(* (The name is one more fact that is always accepted and is left out.)    *)
(***************************************************************************)
copyOf(st, copied, pointers) ==
  entryCopies(st, copied) \o lanePointers(pointers) \o labelCopies(st, copied)

treeFork(st) == [pointers |-> st.lanes, copied |-> st.entries]

branchFork(st, target) ==
  [pointers |-> [l \in {"main"} |-> target], copied |-> branch(st, target)]

\* The fork targets of scope branch: a message (position at) or what
\* precedes one (position before), and the start of an empty main lane.
branchTargets(st) ==
  LET messages == ids(st) \cap MessageIds
  IN messages \cup {st.parentId[i] : i \in messages}
     \cup (IF st.lanes["main"] = Null THEN {Null} ELSE {})

forks(st) == {treeFork(st)} \cup {branchFork(st, t) : t \in branchTargets(st)}

-----------------------------------------------------------------------------
NoPut == [on |-> FALSE]
noLog == [n \in {} |-> Null]

StorageInit ==
  /\ meta = {}
  /\ log = [s \in Session |-> noLog]
  /\ live = {}
  /\ mem = [s \in Session |-> EmptyState]
  /\ tail = [s \in Session |-> <<>>]
  /\ copying = [s \in Session |-> <<>>]
  /\ pend = [s \in Session |-> NoPut]
  /\ acked = [s \in Session |-> <<>>]
  /\ origin = [s \in Session |-> <<>>]
  /\ calls = 0
  /\ reloads = 0

\* openOrCreate: replay the log of the session, or write its meta record.
OpenOrCreate(s) ==
  /\ s \notin live
  /\ s \in meta => Replay(log[s]).ok
  /\ meta' = meta \cup {s}
  /\ live' = live \cup {s}
  /\ mem' = [mem EXCEPT ![s] = IF s \in meta THEN Replay(log[s]) ELSE EmptyState]
  /\ UNCHANGED <<log, tail, copying, pend, acked, origin, calls, reloads>>

\* A write call is queued behind the calls before it.
Call(s, c) ==
  /\ s \in live
  /\ copying[s] = <<>>
  /\ calls < MaxCalls
  /\ calls' = calls + 1
  /\ tail' = [tail EXCEPT ![s] = Append(@, c)]
  /\ UNCHANGED <<disk, live, mem, copying, pend, acked, origin, reloads>>

\* Mutant: a call that throws stays in front.
ExecuteHangs(s) ==
  /\ tail[s] # <<>>
  /\ ~pend[s].on
  /\ ~refused(mem[s], Head(tail[s]))
  /\ pend' = [pend EXCEPT ![s] =
       [on |-> TRUE, landed |-> FALSE, number |-> mem[s].sequence + 1,
        mutation |-> mutationOf(mem[s], Head(tail[s]))]]
  /\ UNCHANGED <<disk, live, mem, tail, copying, acked, origin, calls, reloads>>

\* The call in front runs up to its put, or throws.
Execute(s) ==
  /\ tail[s] # <<>>
  /\ ~pend[s].on
  /\ IF refused(mem[s], Head(tail[s]))
       THEN /\ tail' = [tail EXCEPT ![s] = Tail(@)]
            /\ UNCHANGED pend
       ELSE /\ pend' = [pend EXCEPT ![s] =
                 [on |-> TRUE, landed |-> FALSE, number |-> mem[s].sequence + 1,
                  mutation |-> mutationOf(mem[s], Head(tail[s]))]]
            /\ UNCHANGED tail
  /\ UNCHANGED <<disk, live, mem, copying, acked, origin, calls, reloads>>

putMutation(l, n, m) == [k \in DOMAIN l \cup {n} |-> IF k = n THEN m ELSE l[k]]

\* The transaction of the put completes: it writes under [session, number].
Land(s) ==
  /\ pend[s].on /\ ~pend[s].landed
  /\ log' = [log EXCEPT ![s] = putMutation(@, pend[s].number, pend[s].mutation)]
  /\ pend' = [pend EXCEPT ![s].landed = TRUE]
  /\ UNCHANGED <<meta, live, mem, tail, copying, acked, origin, calls, reloads>>

ackedBy(m) == IF m.kind \in {"entry", "record"} THEN <<m.id>> ELSE <<>>

\* appendMutation returns: apply the mutation, and answer the call, or go on
\* to the next mutation of the fork.
Apply(s) ==
  /\ pend[s].on /\ pend[s].landed
  /\ mem' = [mem EXCEPT ![s] = applyMutation(@, pend[s].number, pend[s].mutation)]
  /\ pend' = [pend EXCEPT ![s] = NoPut]
  /\ IF copying[s] # <<>>
       THEN /\ copying' = [copying EXCEPT ![s] = Tail(@)]
            /\ UNCHANGED <<tail, acked>>
       ELSE /\ tail' = [tail EXCEPT ![s] = Tail(@)]
            /\ acked' = [acked EXCEPT ![s] = @ \o ackedBy(pend[s].mutation)]
            /\ UNCHANGED copying
  /\ UNCHANGED <<disk, live, origin, calls, reloads>>

\* Mutant: the memory takes a mutation whose put failed.
PutFailsInMemoryOnly(s) ==
  /\ pend[s].on /\ ~pend[s].landed /\ copying[s] = <<>>
  /\ pend' = [pend EXCEPT ![s] = NoPut]
  /\ mem' = [mem EXCEPT ![s] = applyMutation(@, pend[s].number, pend[s].mutation)]
  /\ tail' = [tail EXCEPT ![s] = Tail(@)]
  /\ UNCHANGED <<disk, live, copying, acked, origin, calls, reloads>>

\* The transaction fails: the call is rejected and the next one runs; a fork
\* is rejected with what it wrote left on disk.
PutFails(s) ==
  /\ pend[s].on /\ ~pend[s].landed
  /\ pend' = [pend EXCEPT ![s] = NoPut]
  /\ IF copying[s] # <<>>
       THEN /\ copying' = [copying EXCEPT ![s] = <<>>]
            /\ live' = live \ {s}
            /\ mem' = [mem EXCEPT ![s] = EmptyState]
            /\ UNCHANGED tail
       ELSE /\ tail' = [tail EXCEPT ![s] = Tail(@)]
            /\ UNCHANGED <<copying, live, mem>>
  /\ UNCHANGED <<disk, acked, origin, calls, reloads>>

\* fork: load the source as the disk has it, and create the target.
Fork(s, t) ==
  LET st == Replay(log[s])
  IN /\ s \in meta /\ st.ok
     /\ t \notin meta /\ t \notin live
     /\ calls < MaxCalls
     /\ calls' = calls + 1
     /\ \E f \in forks(st) :
          /\ copying' = [copying EXCEPT ![t] = copyOf(st, f.copied, f.pointers)]
          /\ origin' = [origin EXCEPT ![t] =
                          [l \in DOMAIN f.pointers |-> branch(st, f.pointers[l])]]
     /\ meta' = meta \cup {t}
     /\ live' = live \cup {t}
     /\ mem' = [mem EXCEPT ![t] = EmptyState]
     /\ UNCHANGED <<log, tail, pend, acked, reloads>>

\* The loop of fork takes the next mutation.
CopyNext(t) ==
  /\ copying[t] # <<>>
  /\ ~pend[t].on
  /\ pend' = [pend EXCEPT ![t] =
       [on |-> TRUE, landed |-> FALSE, number |-> mem[t].sequence + 1,
        mutation |-> Head(copying[t])]]
  /\ UNCHANGED <<disk, live, mem, tail, copying, acked, origin, calls, reloads>>

\* delete: one transaction for the meta record and the log.
DeleteSession(s) ==
  /\ s \in meta /\ s \notin live
  /\ meta' = meta \ {s}
  /\ log' = [log EXCEPT ![s] = noLog]
  /\ acked' = [acked EXCEPT ![s] = <<>>]
  /\ origin' = [origin EXCEPT ![s] = <<>>]
  /\ UNCHANGED <<live, mem, tail, copying, pend, calls, reloads>>

\* The owner of an instance drops it when its calls are answered.
Drop(s) ==
  /\ s \in live
  /\ tail[s] = <<>> /\ copying[s] = <<>>
  /\ live' = live \ {s}
  /\ mem' = [mem EXCEPT ![s] = EmptyState]
  /\ UNCHANGED <<disk, tail, copying, pend, acked, origin, calls, reloads>>

\* The page is reloaded; a put that has not landed never will.
ReloadStorage ==
  /\ reloads < MaxReloads
  /\ reloads' = reloads + 1
  /\ live' = {}
  /\ mem' = [s \in Session |-> EmptyState]
  /\ tail' = [s \in Session |-> <<>>]
  /\ copying' = [s \in Session |-> <<>>]
  /\ pend' = [s \in Session |-> NoPut]
  /\ UNCHANGED <<disk, acked, origin, calls>>

Step(s) == Execute(s) \/ Land(s) \/ Apply(s) \/ CopyNext(s)

StorageNext ==
  \/ \E s \in Session :
       \/ OpenOrCreate(s) \/ (\E c \in Tried : Call(s, c)) \/ Step(s) \/ PutFails(s)
       \/ (\E t \in Session : Fork(s, t)) \/ DeleteSession(s) \/ Drop(s)
  \/ ReloadStorage

StorageSpec == StorageInit /\ [][StorageNext]_storageVars

\* IndexedDB answers a put, and the continuation runs.
StorageFairSpec == StorageSpec /\ \A s \in Session : WF_storageVars(Step(s))

-----------------------------------------------------------------------------
(* Properties *)

\* The log of a session without the put whose continuation has not run.
settledLog(s) ==
  IF pend[s].on /\ pend[s].landed
    THEN [n \in DOMAIN log[s] \ {pend[s].number} |-> log[s][n]]
    ELSE log[s]

\* All reads go to the memory, and a reload must find the same session: the
\* memory of an instance is the replay of its log, up to the one put that
\* landed and is not applied yet.
MemoryIsReplay ==
  \A s \in live : mem[s].ok /\ mem[s] = Replay(settledLog(s))

\* openOrCreate never throws: whatever was interrupted, rejected or half
\* copied, the log on disk replays.
ReloadSucceeds == \A s \in meta : Replay(log[s]).ok

\* An answered append is on disk, behind those answered before it, across
\* failed puts, reloads and reopened instances.
AcknowledgedSurvives ==
  \A s \in Session : \A i \in 1..Len(acked[s]) :
    \E n \in DOMAIN log[s] :
      /\ ackedBy(log[s][n]) = <<acked[s][i]>>
      /\ \A j \in 1..(i - 1) :
           \E k \in DOMAIN log[s] : k < n /\ ackedBy(log[s][k]) = <<acked[s][j]>>

oneOpen(st) == \A o, p \in st.open : o[1] = p[1] => o = p

\* Two operations are never open on one lane, however the calls that start
\* and finish them are queued, refused or interrupted.
OneOpenOperation ==
  \A s \in meta : oneOpen(Replay(log[s]))

\* A fork that was not interrupted holds, on each lane, the conversation of
\* the source as it was when the fork began.
ForkIsFaithful ==
  [][\A t \in Session :
       copying[t] # <<>> /\ copying'[t] = <<>> /\ t \in live' =>
         /\ DOMAIN mem'[t].lanes = DOMAIN origin[t]
         /\ \A l \in DOMAIN origin[t] : branch(mem'[t], mem'[t].lanes[l]) = origin[t][l]]_storageVars

\* A put never overwrites a mutation: the log of a session only grows until
\* the session is deleted.
LogOnlyGrows ==
  [][\A s \in meta : s \in meta' =>
       \A n \in DOMAIN log[s] : n \in DOMAIN log'[s] /\ log'[s][n] = log[s][n]]_storageVars

\* Every call is answered or lost in a reload: a rejected call does not
\* block the ones queued behind it.
EveryCallAnswered == \A s \in Session : tail[s] # <<>> ~> tail[s] = <<>>

\* Memory and disk agree, the log replays, one operation is open at most, and
\* what was acknowledged is there after a reload.
StorageSound == MemoryIsReplay /\ ReloadSucceeds /\ OneOpenOperation /\ AcknowledgedSurvives

\* A fork has what it forks from, and no log loses an entry.
LogsAreFaithful == ForkIsFaithful /\ LogOnlyGrows
=============================================================================
