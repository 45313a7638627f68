--------------------------- MODULE WorkspaceStore ---------------------------
(***************************************************************************)
(* The workspace store (entities/workspace): the list of sessions and the  *)
(* list of containers the page shows, and the chain of writes behind it.   *)
(*                                                                         *)
(* An edit changes the memory at once and queues a save, which writes the  *)
(* memory as it is when its turn comes.  A deletion is queued first: in    *)
(* its turn it waits for the preparation (a run of the session is          *)
(* stopped), computes the workspace without the item, writes it in one     *)
(* transaction with the removal of the item's records, and only then takes *)
(* the item out of the memory.  createSession drops redundant empty        *)
(* sessions from the memory at once and queues their deletions with the    *)
(* workspace it computed.  A failure of any of them freezes the store: no  *)
(* edit is accepted until a reload reads the record back.                  *)
(*                                                                         *)
(* Titles are abstracted to "default or not", times are left out.          *)
(***************************************************************************)
EXTENDS Naturals, Sequences, SequencesExt, Subsequences

CONSTANTS
    SessionIds, ContainerIds,
    NoItem,         \* null: no active session or container
    MaxEdits,       \* bound: edits of the lists
    MaxMisses       \* bound: storage and preparation failures

ASSUME StoreAssumption ==
    /\ SessionIds \cap ContainerIds = {} /\ NoItem \notin SessionIds \cup ContainerIds
    /\ MaxEdits \in Nat /\ MaxMisses \in Nat

Kinds == {"session", "container"}
IdsOf(k) == IF k = "session" THEN SessionIds ELSE ContainerIds

VARIABLES
    space,      \* sessions, containers and active items in memory
    hydrated, persistenceError,
    record,     \* the stored workspace record: none, damaged, valid
    chain,      \* the queued writes; the head is under way
    writing,    \* the head: idle, preparing, or writing a workspace
    reading,    \* the reload or hydration under way: none, waiting, loading
    ahead,      \* the writes a waiting reload still awaits
    edits, misses,
    dead,       \* history: ids whose deletion was stored
    crossed     \* history: "behind": a clean-up was queued behind a deletion;
                \* "frozen": an item was deleted while the store was not safe

storeVars == <<space, hydrated, persistenceError, record, chain, writing,
               reading, ahead, edits, misses, dead, crossed>>

Nothing == [list |-> [k \in Kinds |-> <<>>], active |-> [k \in Kinds |-> NoItem],
            titled |-> {}, begun |-> {}, unread |-> {}, pinned |-> {}]

Idle == [phase |-> "idle", space |-> Nothing]

StoreInit ==
    /\ space = Nothing
    /\ hydrated = FALSE /\ persistenceError = FALSE
    /\ record \in [state : {"none", "damaged"}, space : {Nothing}]
    /\ chain = <<>> /\ writing = Idle
    /\ reading = "loading" /\ ahead = 0
    /\ edits = 0 /\ misses = 0 /\ dead = {} /\ crossed = {}

safe == hydrated /\ ~persistenceError
listedIn(w, k) == Range(w.list[k])
used == dead \cup (UNION {listedIn(space, k) : k \in Kinds})
        \cup (UNION {listedIn(record.space, k) : k \in Kinds})
        \cup {e.id : e \in Range(chain)}
fresh(k) == IdsOf(k) \ used
empty(w) == only(w.list["session"], SessionIds \ (w.titled \cup w.begun))

\* Mutant: the active item is kept although it is removed.
withoutOnly(w, k, x) ==
    LET rest == only(w.list[k], IdsOf(k) \ {x}) IN
    [w EXCEPT !.list[k] = rest]

\* The workspace without the item: the first of the rest becomes active.
without(w, k, x) ==
    LET rest == only(w.list[k], IdsOf(k) \ {x}) IN
    [w EXCEPT !.list[k] = rest,
              !.active[k] = IF @ # x THEN @ ELSE IF rest = <<>> THEN NoItem ELSE Head(rest)]

\* What the head of the chain does first: a save writes the memory of now, a
\* deletion prepares.
begins(queue, w) ==
    IF queue = <<>> THEN Idle
    ELSE IF Head(queue).op = "save" THEN [phase |-> "writing", space |-> w]
    ELSE [phase |-> "preparing", space |-> Nothing]

Save == [op |-> "save", kind |-> "session", id |-> NoItem, next |-> Nothing]

\* enqueuePersistence, with the memory w.
Queues(entries, w) ==
    /\ chain' = chain \o entries
    /\ writing' = IF chain = <<>> THEN begins(entries, w) ELSE writing

\* setState: ignored unless the store is hydrated and free of errors.
Sets(w, entries) ==
    /\ edits < MaxEdits /\ edits' = edits + 1
    /\ safe /\ w # space
    /\ space' = w
    /\ Queues(entries, w)
    /\ UNCHANGED <<hydrated, persistenceError, record, reading, ahead, misses, dead>>

Edits(w) == Sets(w, <<Save>>) /\ UNCHANGED crossed

-----------------------------------------------------------------------------
(* Edits. *)

added(w, k, x) == [w EXCEPT !.list[k] = <<x>> \o @, !.active[k] = x]

\* createSession without an empty session, createContainer.
Create(k) ==
    /\ k = "session" => empty(space) = <<>>
    /\ \E x \in fresh(k) : Edits(added(space, k, x))

\* createSession with one: the active one, or the first, is used again; the
\* other empty ones leave the memory, and each deletion writes the workspace
\* of now.  Without others the memory alone changes.
Reuse ==
    LET blanks == empty(space)
        kept   == IF space.active["session"] \in Range(blanks)
                  THEN space.active["session"] ELSE Head(blanks)
        others == only(blanks, SessionIds \ {kept})
        next   == [space EXCEPT
                     !.list["session"] = only(@, SessionIds \ Range(others)),
                     !.active["session"] = kept]
    IN
    /\ blanks # <<>>
    /\ Sets(next, [i \in DOMAIN others |->
                     [op |-> "clean", kind |-> "session", id |-> others[i],
                      next |-> next]])
    /\ crossed' = crossed \cup {x \in {"behind"} : others # <<>>
                                   /\ \E e \in Range(chain) : e.op = "delete"}

\* renameSession, renameContainer (whose unique name is abstracted).
Rename(k, x, default) ==
    /\ x \in listedIn(space, k)
    /\ Edits([space EXCEPT !.titled = IF default THEN @ \ {x} ELSE @ \cup {x}])

Pin(k, x) ==
    /\ x \in listedIn(space, k)
    /\ Edits([space EXCEPT !.pinned = IF x \in @ THEN @ \ {x} ELSE @ \cup {x}])

UpdateStatus(s, isUnread) ==
    /\ s \in listedIn(space, "session")
    /\ Edits([space EXCEPT !.begun = @ \cup {s},
                           !.unread = IF isUnread THEN @ \cup {s} ELSE @ \ {s}])

\* selectSession also marks the session read.
Select(k, x) ==
    /\ x \in listedIn(space, k)
    /\ Edits([space EXCEPT !.active[k] = x, !.unread = @ \ {x}])

\* deleteSession and deleteContainer do not ask whether the store is safe.
Delete(k, x) ==
    /\ edits < MaxEdits /\ edits' = edits + 1
    /\ x \in listedIn(space, k)
    /\ Queues(<<[op |-> "delete", kind |-> k, id |-> x, next |-> Nothing]>>, space)
    /\ crossed' = crossed \cup {y \in {"frozen"} : ~safe}
    /\ UNCHANGED <<space, hydrated, persistenceError, record, reading, ahead,
                   misses, dead>>

-----------------------------------------------------------------------------
(* The chain of writes. *)

\* Mutant: a deletion writes the memory as it is, the item included.
preparedWhole ==
    LET e == Head(chain) IN
    IF e.op = "clean" THEN e.next ELSE space

\* The workspace a prepared deletion writes.
prepared ==
    LET e == Head(chain) IN
    IF e.op = "clean" THEN e.next ELSE without(space, e.kind, e.id)

Prepared ==
    /\ writing.phase = "preparing"
    /\ writing' = [phase |-> "writing", space |-> prepared]
    /\ UNCHANGED <<space, hydrated, persistenceError, record, chain, reading,
                   ahead, edits, misses, dead, crossed>>

\* The head is done; the one behind it starts with the memory w.
Advances(w) ==
    /\ chain' = Tail(chain)
    /\ writing' = begins(Tail(chain), w)
    /\ ahead' = IF ahead > 0 THEN ahead - 1 ELSE 0

\* Mutant: the memory keeps the deleted item.
WrittenOnly ==
    /\ writing.phase = "writing"
    /\ record' = [state |-> "valid", space |-> writing.space]
    /\ dead' = IF Head(chain).op = "save" THEN dead ELSE dead \cup {Head(chain).id}
    /\ Advances(space)
    /\ UNCHANGED <<space, hydrated, persistenceError, reading, edits, misses, crossed>>

\* The transaction commits.  After a deletion the item leaves the memory, if
\* the store still accepts changes.
Written ==
    LET e == Head(chain)
        w == IF e.op = "delete" /\ safe THEN without(space, e.kind, e.id) ELSE space
    IN
    /\ writing.phase = "writing"
    /\ record' = [state |-> "valid", space |-> writing.space]
    /\ space' = w
    /\ dead' = IF e.op = "save" THEN dead ELSE dead \cup {e.id}
    /\ Advances(w)
    /\ UNCHANGED <<hydrated, persistenceError, reading, edits, misses, crossed>>

\* The preparation or the write is rejected.
NotWritten ==
    /\ writing.phase # "idle"
    /\ misses < MaxMisses /\ misses' = misses + 1
    /\ persistenceError' = TRUE
    /\ Advances(space)
    /\ UNCHANGED <<space, hydrated, record, reading, edits, dead, crossed>>

-----------------------------------------------------------------------------
(* Hydration and reload. *)

\* The Retry button: reload waits for the writes queued so far.
Reload ==
    /\ reading = "none" /\ persistenceError
    /\ reading' = "waiting" /\ ahead' = Len(chain)
    /\ UNCHANGED <<space, hydrated, persistenceError, record, chain, writing,
                   edits, misses, dead, crossed>>

ReloadReads ==
    /\ reading = "waiting" /\ ahead = 0
    /\ reading' = "loading"
    /\ hydrated' = FALSE /\ persistenceError' = FALSE
    /\ UNCHANGED <<space, record, chain, writing, ahead, edits, misses, dead, crossed>>

\* createInitialWorkspaceState.
Initial ==
    LET s == CHOOSE x \in fresh("session") : TRUE
        c == CHOOSE x \in fresh("container") : TRUE
    IN added(added(Nothing, "session", s), "container", c)

\* The record is read.  A missing one is created, and hydrate queues its save;
\* a damaged one is quarantined and left in place.
Loaded ==
    /\ reading = "loading"
    /\ reading' = "none"
    /\ IF record.state = "damaged"
       THEN /\ hydrated' = FALSE /\ persistenceError' = TRUE
            /\ UNCHANGED <<space, chain, writing>>
       ELSE /\ hydrated' = TRUE /\ persistenceError' = FALSE
            /\ IF record.state = "none"
               THEN /\ fresh("session") # {} /\ fresh("container") # {}
                    /\ space' = Initial
                    /\ Queues(<<Save>>, Initial)
               ELSE space' = record.space /\ UNCHANGED <<chain, writing>>
    /\ UNCHANGED <<record, ahead, edits, misses, dead, crossed>>

LoadFails ==
    /\ reading = "loading"
    /\ misses < MaxMisses /\ misses' = misses + 1
    /\ reading' = "none" /\ hydrated' = FALSE /\ persistenceError' = TRUE
    /\ UNCHANGED <<space, record, chain, writing, ahead, edits, dead, crossed>>

-----------------------------------------------------------------------------

SessionEdits ==
    \/ \E s \in SessionIds, b \in BOOLEAN : UpdateStatus(s, b)
    \/ \E k \in Kinds, b \in BOOLEAN : \E x \in IdsOf(k) : Rename(k, x, b)
    \/ Reuse
ItemEdits ==
    \E k \in Kinds : Create(k) \/ \E x \in IdsOf(k) : Pin(k, x) \/ Select(k, x) \/ Delete(k, x)
Writes == Prepared \/ Written \/ NotWritten
Reads == Reload \/ ReloadReads \/ Loaded \/ LoadFails

StoreNext == SessionEdits \/ ItemEdits \/ Writes \/ Reads
StoreSpec == StoreInit /\ [][StoreNext]_storeVars

-----------------------------------------------------------------------------
(* Properties *)

AtRest == chain = <<>> /\ reading = "none" /\ safe

\* When no write is queued and none has failed since the last reload, a reload
\* of the page would show every session and container of the memory, in its
\* order and with its title, status and pin: whatever the order of edits,
\* deletions and clean-ups was.  (store.ts :71-94, sessionStore.ts :20-58)  A
\* deletion made while the store is frozen is left out: it is carried out all
\* the same, and writes the edits the frozen store had not saved.
NothingLost ==
    AtRest /\ "frozen" \notin crossed =>
        /\ record.state = "valid"
        /\ \A k \in Kinds :
             /\ only(record.space.list[k], listedIn(space, k)) = space.list[k]
             /\ \A a \in {"titled", "begun", "unread", "pinned"} :
                  record.space[a] \cap listedIn(space, k) = space[a] \cap listedIn(space, k)

\* The active session and container are in their lists, in memory and in the
\* record ("leaves no stale active IDs after the last deletion",
\* workspaceStore.test.ts:122).
ActiveIsListed ==
    \A w \in {space, record.space}, k \in Kinds : w.active[k] \in listedIn(w, k) \cup {NoItem}

\* What was deleted stays out of the stored workspace, whatever is written
\* later.  Two ways back are known and left out here: a clean-up queued behind
\* a deletion writes the workspace from before it, and after a failed write a
\* deletion no longer reaches the memory, which a save queued behind it writes.
DeletedStaysDeleted ==
    "behind" \notin crossed /\ misses = 0 =>
        \A k \in Kinds : listedIn(record.space, k) \cap dead = {}

\* The stored workspace is the one the user left, whatever the order of edits,
\* deletions, clean-ups and reloads was. (store.ts, sessionStore.ts)
StoreSound == NothingLost /\ ActiveIsListed /\ DeletedStaysDeleted
=============================================================================
