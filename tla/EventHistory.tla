---------------------------- MODULE EventHistory ----------------------------
(***************************************************************************)
(* The history of one session: the events its runs emit, the stored ones,  *)
(* the copy AgentEventStore keeps in memory, the list the page holds and   *)
(* the window of messages it draws (useAgentV2).                           *)
(*                                                                         *)
(* Opening the session loads the newest page; scrolling up loads the page  *)
(* before the oldest event in memory; selecting a child run loads that     *)
(* run's newest page into the same memory.  Meanwhile runs emit, their     *)
(* events are stored later, and the start of the next root run deletes the *)
(* events of finished children.  Events are numbered in the order of the   *)
(* index sessionTimelineStable, so that a sorted list is a set here.       *)
(***************************************************************************)
EXTENDS Integers, Sequences, FiniteSets, FiniteSetsExt

CONSTANTS
    PageSize,       \* EVENT_PAGE_SIZE and MESSAGE_WINDOW_SIZE, both 250
    Early,          \* bound: events stored before the page is opened
    MaxEvents       \* bound: events in all

ASSUME HistoryAssumption ==
    PageSize \in Nat \ {0} /\ Early \in Nat /\ MaxEvents \in Nat

Origins == {"message", "child"}     \* a message of a root run; of the child
Latest == -1                        \* null: the window follows the end

VARIABLES
    origin,     \* the events so far: their origins, by number
    disk,       \* the stored ones
    queued,     \* the emitted ones whose put is on its way, in order
    memory,     \* memoryEvents of the session
    olderPages,
    shownEvents,      \* the events of the session in the state of the page
    hasOlder,
    end,        \* visibleMessageEnd
    selectedRun,   \* the session is the active one
    opening,    \* loadSessionEvents: [phase, set, more]
    older,      \* loadOlderSessionEvents: [phase, before, page, more, count, end]
    child,      \* loadRunEvents: [phase, set]
    pruning,    \* none, deleted (on disk), done
    crossedPages \* history: "run": a child's events were loaded below the oldest
                \* event; "raced": an older page was loaded while the memory
                \* changed; "stale": a page was read before a deletion

historyVars == <<origin, disk, queued, memory, olderPages, shownEvents, hasOlder, end,
                 selectedRun, opening, older, child, pruning, crossedPages>>

NoLoad == [phase |-> "none", set |-> {}, more |-> FALSE]
NoPage == [phase |-> "none", before |-> {}, page |-> {}, more |-> FALSE, count |-> 0, end |-> 0]

HistoryInit ==
    /\ \E n \in 0..Early : origin \in [1..n -> Origins]
    /\ disk = DOMAIN origin
    /\ queued = <<>> /\ memory = {} /\ olderPages = FALSE
    /\ shownEvents = {} /\ hasOlder = FALSE /\ end = Latest
    /\ selectedRun = FALSE
    /\ opening = NoLoad /\ older = NoPage /\ child = NoLoad
    /\ pruning = "none" /\ crossedPages = {}

messages(es) == {e \in es : origin[e] = "message"}
ofChild(es) == {e \in es : origin[e] = "child"}
\* The newest of a set, at most a page of them.
newestPage(es) == {e \in es : Cardinality({f \in es : f > e}) < PageSize}
\* listEventPage before an event.
before(es, e) == {f \in es : f < e}
Lower(a, b) == IF a < b THEN a ELSE b
Higher(a, b) == IF a < b THEN b ELSE a
Raced == IF older.phase = "none" THEN {} ELSE {"raced"}
\* Pages under way still hold what is deleted now.
Staled ==
    IF opening.phase = "none" /\ child.phase = "none" THEN {} ELSE {"stale"}

\* selectMessageWindow: the messages drawn.
window(es, e) ==
    LET all == messages(es)
        bound == IF e = Latest THEN Cardinality(all) ELSE Lower(Cardinality(all), e)
        index(m) == Cardinality({f \in all : f < m})
    IN {m \in all : bound - PageSize <= index(m) /\ index(m) < bound}

-----------------------------------------------------------------------------
(* Runs. *)

\* The event reaches the page and the memory at once; its put is queued.
Emit(o) ==
    LET e == Len(origin) + 1 IN
    /\ e <= MaxEvents
    /\ o = "child" => pruning = "none"
    /\ origin' = Append(origin, o)
    /\ memory' = memory \cup {e}
    /\ queued' = Append(queued, e)
    /\ IF selectedRun
       THEN shownEvents' = shownEvents \cup {e} /\ end' = IF o = "message" THEN Latest ELSE end
       ELSE UNCHANGED <<shownEvents, end>>
    /\ crossedPages' = crossedPages \cup Raced
    /\ UNCHANGED <<disk, olderPages, hasOlder, selectedRun, opening, older, child, pruning>>

PutEvent ==
    /\ queued # <<>>
    /\ disk' = disk \cup {Head(queued)}
    /\ queued' = Tail(queued)
    /\ UNCHANGED <<origin, memory, olderPages, shownEvents, hasOlder, end, selectedRun,
                   opening, older, child, pruning, crossedPages>>

\* pruneTerminalChildRuns: the finished child is deleted from the store, then
\* from the memory and the page.
PruneDisk ==
    /\ pruning = "none" /\ ofChild({queued[i] : i \in DOMAIN queued}) = {}
    /\ pruning' = "deleted"
    /\ disk' = disk \ ofChild(disk)
    /\ crossedPages' = crossedPages \cup Raced \cup Staled
    /\ UNCHANGED <<origin, queued, memory, olderPages, shownEvents, hasOlder, end,
                   selectedRun, opening, older, child>>

Prune ==
    /\ pruning = "deleted" /\ pruning' = "done"
    /\ memory' = memory \ ofChild(memory)
    /\ shownEvents' = shownEvents \ ofChild(shownEvents)
    /\ crossedPages' = crossedPages \cup Raced \cup Staled
    /\ UNCHANGED <<origin, disk, queued, olderPages, hasOlder, end, selectedRun,
                   opening, older, child>>

-----------------------------------------------------------------------------
(* Opening the session. *)

Open ==
    /\ ~selectedRun /\ selectedRun' = TRUE
    /\ opening.phase = "none"
    /\ opening' = [phase |-> "reading", set |-> newestPage(disk),
                   more |-> Cardinality(disk) > PageSize]
    /\ crossedPages' = crossedPages \cup Raced
    /\ UNCHANGED <<origin, disk, queued, memory, olderPages, shownEvents, hasOlder,
                   end, older, child, pruning>>

\* The page is merged with the memory of now; the runs are loaded next.
Opened ==
    /\ opening.phase = "reading"
    /\ memory' = memory \cup opening.set
    /\ olderPages' = opening.more
    /\ opening' = IF selectedRun THEN [opening EXCEPT !.phase = "merging", !.set = memory'] ELSE NoLoad
    /\ crossedPages' = crossedPages \cup Raced
    /\ UNCHANGED <<origin, disk, queued, shownEvents, hasOlder, end, selectedRun, older,
                   child, pruning>>

\* The loaded events are merged with those of the session the page holds.
ShowOpened ==
    /\ opening.phase = "merging"
    /\ opening' = NoLoad
    /\ shownEvents' = shownEvents \cup opening.set
    /\ hasOlder' = olderPages
    /\ end' = Latest
    /\ UNCHANGED <<origin, disk, queued, memory, olderPages, selectedRun, older,
                   child, pruning, crossedPages>>

\* Another session is selected: its load replaces the list, unless the user is
\* back before.  A load under way no longer reaches the page.
Leave ==
    /\ selectedRun /\ selectedRun' = FALSE
    /\ shownEvents' \in {shownEvents, {}}
    /\ opening' = IF opening.phase = "merging" THEN NoLoad ELSE opening
    /\ UNCHANGED <<origin, disk, queued, memory, olderPages, hasOlder, end,
                   older, child, pruning, crossedPages>>

-----------------------------------------------------------------------------
(* Scrolling up. *)

\* loadOlderEvents: the memory is read, then the page before its oldest event.
LoadOlder ==
    LET pool == IF memory = {} THEN disk ELSE before(disk, Min(memory))
        count == Cardinality(messages(shownEvents))
    IN
    /\ selectedRun /\ older.phase = "none" /\ olderPages
    /\ older' = [phase |-> "reading", before |-> memory, page |-> newestPage(pool),
                 more |-> Cardinality(pool) > PageSize, count |-> count,
                 end |-> IF end = Latest THEN count ELSE end]
    /\ crossedPages' = crossedPages \cup (IF opening.phase = "none" /\ pruning # "deleted"
                                THEN {} ELSE {"raced"})
    /\ UNCHANGED <<origin, disk, queued, memory, olderPages, shownEvents, hasOlder,
                   end, selectedRun, opening, child, pruning>>

\* Mutant: the window stays at the newest message of the page.
endOf(all, load) == Cardinality(messages(all))
\* The window moves up to end where it began.
movedEnd(all, load) ==
    LET next == Cardinality(messages(all)) IN
    Lower(next, Higher(0, next - load.count) + Higher(0, load.end - PageSize))

\* Mutant: the page alone replaces the memory.
pageOnly(load) == load.page
\* The page and the memory as it was at the start replace the memory.
mergedPage(load) == load.before \cup load.page

OlderLoaded ==
    LET all == mergedPage(older) IN
    /\ older.phase = "reading" /\ older' = NoPage
    /\ memory' = all
    /\ olderPages' = older.more
    /\ IF selectedRun
       THEN /\ shownEvents' = all
            /\ hasOlder' = older.more
            /\ end' = movedEnd(all, older)
       ELSE UNCHANGED <<shownEvents, hasOlder, end>>
    /\ UNCHANGED <<origin, disk, queued, selectedRun, opening, child, pruning, crossedPages>>

\* showNewerEvents: the window moves down by its size.
ShowNewer ==
    LET all == Cardinality(messages(shownEvents)) IN
    /\ selectedRun /\ end # Latest
    /\ end' = IF end + PageSize >= all THEN Latest ELSE end + PageSize
    /\ UNCHANGED <<origin, disk, queued, memory, olderPages, shownEvents, hasOlder,
                   selectedRun, opening, older, child, pruning, crossedPages>>

-----------------------------------------------------------------------------
(* A child's transcript. *)

LoadRun ==
    /\ selectedRun /\ child.phase = "none"
    /\ child' = [NoLoad EXCEPT !.phase = "reading", !.set = newestPage(ofChild(disk))]
    /\ UNCHANGED <<origin, disk, queued, memory, olderPages, shownEvents, hasOlder,
                   end, selectedRun, opening, older, pruning, crossedPages>>

RunLoaded ==
    /\ child.phase = "reading" /\ child' = NoLoad
    /\ memory' = memory \cup child.set
    /\ shownEvents' = IF selectedRun THEN memory' ELSE shownEvents
    /\ crossedPages' = crossedPages \cup Raced
                  \cup (IF \E e \in child.set : \A f \in memory : e < f THEN {"run"} ELSE {})
    /\ UNCHANGED <<origin, disk, queued, olderPages, hasOlder, end, selectedRun,
                   opening, older, pruning>>

-----------------------------------------------------------------------------

HistoryNext ==
    \/ \E o \in Origins : Emit(o)
    \/ PutEvent \/ PruneDisk \/ Prune
    \/ Open \/ Opened \/ ShowOpened \/ Leave
    \/ LoadOlder \/ OlderLoaded \/ ShowNewer
    \/ LoadRun \/ RunLoaded

HistorySpec == HistoryInit /\ [][HistoryNext]_historyVars

-----------------------------------------------------------------------------
(* Properties *)

Still == /\ selectedRun /\ opening.phase = "none" /\ older.phase = "none"
         /\ child.phase = "none" /\ pruning # "deleted"

\* At rest the page holds exactly what the memory of the store holds, and all
\* events from the oldest of them on; when it says there is nothing older it
\* holds all; deleted events are in neither.  (useAgentV2 :429-464,
\* eventStore :29-67)
NoGap ==
    /\ \A e \in disk : (\E f \in memory : f < e) => e \in memory
    /\ ~olderPages => disk \subseteq memory
    /\ memory \subseteq disk \cup {queued[i] : i \in DOMAIN queued}
HistoryIsWhole == Still /\ crossedPages = {} => NoGap /\ shownEvents = memory /\ hasOlder = olderPages

\* Scrolling up loses no message between the window before and the one after:
\* the new window ends directly above the old one.
WindowStepsUp ==
    [][older.phase = "reading" /\ older'.phase = "none" /\ selectedRun /\ "raced" \notin crossedPages =>
         LET old == window(shownEvents, older.end) new == window(shownEvents', end') IN
         old # {} => /\ \A a \in old, b \in new : b < a
                     /\ \A m \in messages(shownEvents') :
                          (\A a \in old : m < a) => \E b \in new : m <= b]_historyVars

\* "do not reset the root cursor" (.trellis/spec/frontend/state/
\* derived-and-paged-state.md:12): what a child's transcript loads leaves no gap.
RootCursorKept == Still /\ crossedPages \subseteq {"run"} => NoGap

\* A window is never empty while there are messages.
WindowNotBlank == Still /\ messages(shownEvents) # {} => window(shownEvents, end) # {}

\* The page has every event from its oldest on, and scrolling up skips none.
\* (useAgentV2 :429-464, eventStore :29-67)
HistorySound == []HistoryIsWhole /\ WindowStepsUp
=============================================================================
