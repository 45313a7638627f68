---------------------------- MODULE FileBrowser -----------------------------
(***************************************************************************)
(* The file panel (useFileSystem): it shows one directory below the root   *)
(* of the container, watches it, and lists it again when it changes, after *)
(* an operation of the user, and when the container is switched.  Listings *)
(* take time and overtake one another; directories come and go.            *)
(***************************************************************************)
EXTENDS Naturals, Sequences, FiniteSets

CONSTANTS
    Containers,     \* the containers; <<c>> is the root of c, <<c, "sub">> a
                    \* directory in it
    NoDirectory,
    MaxListings,    \* bound: listings begun
    MaxTouches      \* bound: changes of a directory, switches and operations

ASSUME BrowserAssumption == MaxListings \in Nat /\ MaxTouches \in Nat

RootOf(c) == <<c>>
SubOf(c) == <<c, "sub">>
Directories == {RootOf(c) : c \in Containers} \cup {SubOf(c) : c \in Containers}
isWithinRoot(d, c) == d[1] = c

VARIABLES
    subs,           \* the containers whose directory "sub" exists
    edition,        \* how often each directory has changed
    root,           \* rootDir, as a container
    path,           \* currentPath
    entriesShown,         \* entries: of which edition of which directory, or none
    loading, problem,
    requests,       \* navigationGenerationRef: listings begun
    listings,       \* those under way: [nr, dir, root, seen], seen = the
                    \* edition read, 0 while the directory is not read yet
    alarm,          \* the watcher's timer runs
    operation,      \* what the user does: [dir, root], or NoDirectory
    touches,
    askedFor,          \* history: the directory of the last listing begun
    unwatched,         \* history: the directory changed after it was read and
                    \* before it was watched
    crossings       \* history: an operation ended after its container had been
                    \* switched away

browserVars == <<subs, edition, root, path, entriesShown, loading, problem, requests,
                 listings, alarm, operation, touches, askedFor, unwatched, crossings>>

NoListing == [dir |-> NoDirectory, seen |-> 0]
Exists(d) == Len(d) = 2 => d[1] \in subs

-----------------------------------------------------------------------------
(***************************************************************************)
(* navigateTo(d), called through the closure of root r.  The number is     *)
(* taken before the directory is checked: a call for a directory outside   *)
(* the closure's root reads nothing, and yet what is being read is         *)
(* forgotten when it is done, with `loading' still up.                     *)
(***************************************************************************)
Navigates(d, r, others) ==
    /\ requests < MaxListings /\ requests' = requests + 1
    /\ IF isWithinRoot(d, r)
       THEN /\ listings' = others \cup
                   {[nr |-> requests + 1, dir |-> d, root |-> r, seen |-> 0]}
            /\ loading' = TRUE /\ problem' = "none" /\ askedFor' = d
       ELSE listings' = others /\ problem' = "outside" /\ UNCHANGED <<loading, askedFor>>

\* The effect of a new root: everything is reset and the root is listed.
BrowserInit ==
    /\ subs \in SUBSET Containers
    /\ edition = [d \in Directories |-> 1]
    /\ \E c \in Containers :
          /\ root = c /\ path = RootOf(c) /\ askedFor = RootOf(c)
          /\ listings = {[nr |-> 1, dir |-> RootOf(c), root |-> c, seen |-> 0]}
    /\ entriesShown = NoListing /\ loading = TRUE /\ problem = "none"
    /\ requests = 1 /\ alarm = FALSE /\ operation = NoDirectory
    /\ touches = 0 /\ unwatched = FALSE /\ crossings = FALSE

Touches == touches < MaxTouches /\ touches' = touches + 1

SwitchRoot(c) ==
    /\ Touches /\ c # root
    /\ root' = c /\ path' = RootOf(c) /\ entriesShown' = NoListing
    /\ Navigates(RootOf(c), c, listings)
    /\ alarm' = FALSE /\ unwatched' = FALSE
    /\ UNCHANGED <<subs, edition, operation, crossings>>

\* A click on a directory, on a breadcrumb, or goUp.
OpenDirectory(d) ==
    /\ isWithinRoot(d, root) /\ d # path
    /\ Navigates(d, root, listings)
    /\ UNCHANGED <<subs, edition, root, path, entriesShown, alarm, operation, touches,
                   unwatched, crossings>>

\* readdir answers, and the sizes are read.
ReadDirectory(l) ==
    /\ l \in listings /\ l.seen = 0 /\ Exists(l.dir)
    /\ listings' = (listings \ {l}) \cup {[l EXCEPT !.seen = edition[l.dir]]}
    /\ UNCHANGED <<subs, edition, root, path, entriesShown, loading, problem, requests,
                   alarm, operation, touches, askedFor, unwatched, crossings>>

\* A later listing, or another root: the result is dropped.
\* Mutants: only the root is compared; nothing is.
supersededByRoot(l) == l.root # root
supersededNever(l) == FALSE
superseded(l) == l.nr # requests \/ l.root # root

\* The watcher is on path: the timer dies with it.
Moves(d) ==
    /\ path' = d
    /\ alarm' = (alarm /\ d = path)

ListingEnds(l) ==
    /\ l \in listings /\ l.seen # 0
    /\ listings' = listings \ {l}
    /\ IF superseded(l)
       THEN UNCHANGED <<path, entriesShown, loading, alarm, unwatched>>
       ELSE /\ Moves(l.dir)
            /\ entriesShown' = [dir |-> l.dir, seen |-> l.seen]
            /\ loading' = FALSE
            /\ unwatched' = (l.seen # edition[l.dir] /\ l.dir # path)
    /\ UNCHANGED <<subs, edition, root, problem, requests, operation, touches,
                   askedFor, crossings>>

\* ENOENT: the parent is listed instead.
ListingMisses(l) ==
    /\ l \in listings /\ l.seen = 0 /\ ~Exists(l.dir)
    /\ IF superseded(l)
       THEN /\ listings' = listings \ {l}
            /\ UNCHANGED <<loading, problem, requests, askedFor>>
       ELSE Navigates(RootOf(l.dir[1]), l.root, listings \ {l})
    /\ UNCHANGED <<subs, edition, root, path, entriesShown, alarm, operation, touches,
                   unwatched, crossings>>

\* Any other error: nothing is shown, and the directory stays what it was.
ListingFails(l) ==
    /\ Touches /\ l \in listings /\ l.seen = 0
    /\ listings' = listings \ {l}
    /\ IF superseded(l) THEN UNCHANGED <<entriesShown, loading, problem>>
       ELSE entriesShown' = NoListing /\ loading' = FALSE /\ problem' = "unread"
    /\ UNCHANGED <<subs, edition, root, path, requests, alarm, operation, askedFor,
                   unwatched, crossings>>

-----------------------------------------------------------------------------
\* Something changes a directory (D, all that change at once); the watcher of
\* the shown one starts its timer anew.
Changed(D) ==
    /\ edition' = [d \in Directories |-> IF d \in D THEN edition[d] + 1 ELSE edition[d]]
    /\ alarm' = (alarm \/ path \in D)

FilesChange(c) ==
    /\ Touches
    /\ \/ Changed({RootOf(c)}) /\ UNCHANGED subs
       \/ c \in subs /\ Changed({SubOf(c)}) /\ UNCHANGED subs
       \/ /\ Changed({RootOf(c), SubOf(c)})
          /\ subs' = IF c \in subs THEN subs \ {c} ELSE subs \cup {c}
    /\ UNCHANGED <<root, path, entriesShown, loading, problem, requests, listings,
                   operation, askedFor, unwatched, crossings>>

\* 300 ms after the last change: refresh.
AlarmRings ==
    /\ alarm
    /\ alarm' = FALSE
    /\ Navigates(path, root, listings)
    /\ UNCHANGED <<subs, edition, root, path, entriesShown, operation, touches, unwatched,
                   crossings>>

\* createFile, createDir, remove, rename, move, uploadFile: the path is made of
\* the shown directory when the operation begins.
Operate ==
    /\ operation = NoDirectory /\ Touches
    /\ operation' = [dir |-> path, root |-> root]
    /\ UNCHANGED <<subs, edition, root, path, entriesShown, loading, problem, requests,
                   listings, alarm, askedFor, unwatched, crossings>>

\* run: the listing that follows is of the directory shown by now, through the
\* closure of the root the operation began in; a failure shows an error.
OperationEnds ==
    /\ operation # NoDirectory
    /\ operation' = NoDirectory
    /\ \/ /\ Exists(operation.dir) /\ Changed({operation.dir})
          /\ Navigates(path, operation.root, listings)
          /\ crossings' = (crossings \/ operation.root # root)
       \/ /\ problem' = "failed"
          /\ UNCHANGED <<edition, alarm, loading, requests, listings, askedFor, crossings>>
    /\ UNCHANGED <<subs, root, path, entriesShown, touches, unwatched>>

BrowserNext ==
    \/ \E c \in Containers : SwitchRoot(c) \/ FilesChange(c)
    \/ \E d \in Directories : OpenDirectory(d)
    \/ \E l \in listings : ReadDirectory(l) \/ ListingEnds(l) \/ ListingMisses(l)
                           \/ ListingFails(l)
    \/ AlarmRings \/ Operate \/ OperationEnds

BrowserSpec == BrowserInit /\ [][BrowserNext]_browserVars

-----------------------------------------------------------------------------
\* What is shown is a listing of the shown directory, below the root.
ShownIsBelowRoot ==
    /\ isWithinRoot(path, root)
    /\ entriesShown.dir \in {path, NoDirectory}

(***************************************************************************)
(* When nothing is under way the panel has settled: it does not load, and  *)
(* shows either an error or the directory asked for last, as it is now.    *)
(* Left out: a change between the reading of a directory and the watching  *)
(* of it (unwatched), and a panel whose container was switched while an    *)
(* operation ran (crossings: its listing is forgotten and it loads for     *)
(* ever).                                                                  *)
(***************************************************************************)
PanelSettles ==
    listings = {} /\ ~alarm /\ operation = NoDirectory /\ ~crossings =>
        /\ ~loading
        /\ \/ problem # "none"
           \/ unwatched
           \/ /\ path = askedFor /\ entriesShown.dir = path
              /\ entriesShown.seen = edition[path]

\* The panel settles on the directory asked for, inside its container.
\* (useFileSystem)
BrowserSound == ShownIsBelowRoot /\ PanelSettles
=============================================================================
