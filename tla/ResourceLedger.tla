--------------------------- MODULE ResourceLedger ---------------------------
(***************************************************************************)
(* The files attached to the messages of a session (ResourceProcessor) and *)
(* what becomes of them when runs, containers and the session are deleted  *)
(* (V3PersistenceRepository).  A file is stored once per session, with the *)
(* run it came with as its origin; events of this and of later runs refer  *)
(* to it.  Deleting a container deletes the runs that worked in it and the *)
(* resources that no surviving run refers to, and gives the others to a    *)
(* surviving run.                                                          *)
(***************************************************************************)
EXTENDS Naturals, FiniteSets

CONSTANTS
    Roots, Helpers, \* root runs of the session, child runs of theirs
    Rooms,          \* the containers
    Uploads,        \* file contents (SHA-256 digests)
    NoRoom,
    MaxResources    \* bound: resources created, numbered as they come

ASSUME LedgerAssumption ==
    MaxResources \in Nat /\ Roots \cap Helpers = {} /\ NoRoom \notin Rooms

VARIABLES
    room,           \* the container of each stored run, or NoRoom
    above,          \* the root run of each child run
    working,        \* the runs that have not ended
    prompt,         \* the prompt of each root run: see AttachResources
    resources,      \* the resources store: [id, file, origin]
    references,     \* events: [run, id, found], found: collectResourceIds finds
                    \* the id in it
    created,
    late,           \* history: resources deleted between the look-up that
                    \* reused them and the event that refers to them
    adopted         \* history: resources that were given to a child run

ledgerVars == <<room, above, working, prompt, resources, references, created,
                late, adopted>>

LedgerRuns == Roots \cup Helpers
NoPrompt == [step |-> "none", todo |-> {}, reused |-> {}, pending |-> {}]

LedgerInit ==
    /\ room = [r \in LedgerRuns |-> NoRoom]
    /\ above \in [Helpers -> Roots]
    /\ working = {} /\ prompt = [r \in Roots |-> NoPrompt]
    /\ resources = {} /\ references = {} /\ created = 0
    /\ late = {} /\ adopted = {}

StoredRuns == {r \in LedgerRuns : room[r] # NoRoom}
Ids == {x.id : x \in resources}

-----------------------------------------------------------------------------
(* Runs and their prompts. *)

\* saveRun, and prompt with attachments F.
AttachResources(r, b, F) ==
    /\ room[r] = NoRoom /\ prompt[r].step = "none"
    /\ room' = [room EXCEPT ![r] = b]
    /\ working' = working \cup {r}
    /\ prompt' = [prompt EXCEPT ![r] = [NoPrompt EXCEPT !.step = "looking", !.todo = F]]
    /\ UNCHANGED <<above, resources, references, created, late, adopted>>

\* findBySha for one file: it is reused, or it waits to be stored.
LooksUp(r, f) ==
    /\ prompt[r].step = "looking" /\ f \in prompt[r].todo
    /\ LET same == {x.id : x \in {y \in resources : y.file = f}}
       IN  prompt' = [prompt EXCEPT ![r].todo = @ \ {f}, ![r].reused = @ \cup same,
                                    ![r].pending = IF same = {} THEN @ \cup {f} ELSE @]
    /\ UNCHANGED <<room, above, working, resources, references, created, late, adopted>>

Numbered(F) == CHOOSE n \in [F -> created + 1..created + Cardinality(F)] :
                  \A f, g \in F : n[f] = n[g] => f = g

\* saveMany: one transaction; the index on session and digest is unique, so a
\* file that another run has stored meanwhile fails the batch and the prompt.
clashes(F) == \E x \in resources : x.file \in F
SavesBatch(r) ==
    /\ prompt[r].step = "looking" /\ prompt[r].todo = {}
    /\ LET F == prompt[r].pending
           n == Numbered(F)
       IN  IF clashes(F)
           THEN /\ prompt' = [prompt EXCEPT ![r].step = "failed"]
                /\ working' = working \ {r}
                /\ UNCHANGED <<resources, created>>
           ELSE /\ created + Cardinality(F) <= MaxResources
                /\ created' = created + Cardinality(F)
                /\ resources' = resources \cup
                       {[id |-> n[f], file |-> f, origin |-> r] : f \in F}
                /\ prompt' = [prompt EXCEPT ![r].step = "saved",
                                            ![r].reused = @ \cup {n[f] : f \in F}]
                /\ UNCHANGED working
    /\ UNCHANGED <<room, above, references, late, adopted>>

\* The event of the user's message, with the resources of its attachments.
Tells(r) ==
    /\ prompt[r].step = "saved"
    /\ prompt' = [prompt EXCEPT ![r].step = "told"]
    /\ references' = references \cup
           {[run |-> r, id |-> i, found |-> TRUE] : i \in prompt[r].reused}
    /\ late' = late \cup (prompt[r].reused \ Ids)
    /\ UNCHANGED <<room, above, working, resources, created, adopted>>

ChildStarts(k) ==
    /\ room[k] = NoRoom /\ above[k] \in working /\ prompt[above[k]].step = "told"
    /\ room' = [room EXCEPT ![k] = room[above[k]]]
    /\ working' = working \cup {k}
    /\ UNCHANGED <<above, prompt, resources, references, created, late, adopted>>

(***************************************************************************)
(* A resource tool of a run (loadSessionResource finds the resource) and   *)
(* the event of its result.  Only what a tool returns as its data reaches  *)
(* the event, not its resourceReferences: {resourceId} for a text that was *)
(* read; for an image the resource itself, whose key is id; for a file     *)
(* that was written to the workspace nothing.                              *)
(***************************************************************************)
UsesResource(r, i, text) ==
    /\ r \in working /\ i \in Ids /\ (r \in Roots => prompt[r].step = "told")
    /\ references' = references \cup {[run |-> r, id |-> i, found |-> text]}
    /\ UNCHANGED <<room, above, working, prompt, resources, created, late, adopted>>

Finishes(r) ==
    /\ r \in working /\ (r \in Roots => prompt[r].step = "told")
    /\ working' = working \ ({r} \cup {k \in Helpers : above[k] = r})
    /\ UNCHANGED <<room, above, prompt, resources, references, created, late, adopted>>

-----------------------------------------------------------------------------
(* Deletions. *)

Without(R) == /\ room' = [r \in LedgerRuns |-> IF r \in R THEN NoRoom ELSE room[r]]
              /\ references' = {e \in references : e.run \notin R}

\* deleteChildRun and pruneTerminalChildRuns: child runs that have ended, with
\* their events; the resources keep their origin.
DeletesChildren(K) ==
    /\ K # {} /\ K \subseteq (Helpers \cap StoredRuns) \ working
    /\ Without(K)
    /\ UNCHANGED <<above, working, prompt, resources, created, late, adopted>>

\* deleteContainer: the runs that worked in it have been stopped.
\* survivingReferences: the run of some event that stays, among those in which
\* the id is found.
\* Mutants: events of the deleted runs count too; none counts.
keepersAll(i, R) == {e.run : e \in {x \in references : x.id = i /\ x.found}}
keepersNone(i, R) == {}
keepers(i, R) ==
    {e.run : e \in {x \in references : x.id = i /\ x.found /\ x.run \notin R}}

DeletesContainer(b) ==
    LET R == {r \in StoredRuns : room[r] = b}
        mine == {x \in resources : x.origin \in R}
    IN  /\ R # {} /\ R \cap working = {}
        /\ Without(R)
        /\ \E heir \in [mine -> StoredRuns] :
              /\ \A x \in mine : keepers(x.id, R) # {} => heir[x] \in keepers(x.id, R)
              /\ \A x \in mine : keepers(x.id, R) = {} => heir[x] = x.origin
              /\ LET kept == {x \in mine : keepers(x.id, R) # {}}
                 IN  /\ resources' = (resources \ mine) \cup
                                     {[x EXCEPT !.origin = heir[x]] : x \in kept}
                     /\ adopted' = adopted \cup {x.id : x \in {y \in kept : heir[y] \in Helpers}}
        /\ UNCHANGED <<above, working, prompt, created, late>>

\* deleteSession.
DeletesSession ==
    /\ working = {} /\ StoredRuns # {}
    /\ Without(StoredRuns) /\ resources' = {}
    /\ prompt' = [r \in Roots |-> [NoPrompt EXCEPT !.step = "deleted"]]
    /\ UNCHANGED <<above, working, created, late, adopted>>

LedgerNext ==
    \/ \E r \in Roots, b \in Rooms, F \in SUBSET Uploads : AttachResources(r, b, F)
    \/ \E r \in Roots, f \in Uploads : LooksUp(r, f)
    \/ \E r \in Roots : SavesBatch(r) \/ Tells(r)
    \/ \E k \in Helpers : ChildStarts(k)
    \/ \E r \in LedgerRuns, i \in Ids, text \in BOOLEAN : UsesResource(r, i, text)
    \/ \E r \in LedgerRuns : Finishes(r)
    \/ \E K \in SUBSET Helpers : DeletesChildren(K)
    \/ \E b \in Rooms : DeletesContainer(b)
    \/ DeletesSession

LedgerSpec == LedgerInit /\ [][LedgerNext]_ledgerVars

-----------------------------------------------------------------------------
\* What an event of a stored run is found to refer to is stored, whatever
\* containers have been deleted; but for a resource deleted between its look-up
\* and the event.
ReferencesResolve ==
    \A e \in references : e.found => e.id \in Ids \cup late

\* A resource that a stored run has used is not deleted with another container.
\* It is: an image that was looked at, a file that was copied to the workspace.
SharedSurvives == \A e \in references : e.id \in Ids \cup late

\* The origin of a resource is a stored run, so that the deletion of its
\* container finds it; but for one that was given to a child run, whose
\* deletion leaves it without.
OriginsAreStored ==
    \A x \in resources : x.origin \in StoredRuns \/ x.id \in adopted

\* References resolve and origins are runs that are stored.
\* (v3Repository.ts, piToolAdapter.ts)
LedgerSound == ReferencesResolve /\ OriginsAreStored
=============================================================================
