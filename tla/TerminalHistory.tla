-------------------------- MODULE TerminalHistory ---------------------------
(***************************************************************************)
(* The output of the processes of each session as the Agent terminal shows *)
(* it (agentTerminalBuffer, AgentTerminalPanel): a bounded buffer per      *)
(* session, written to the v3 database 100 ms after the last output, read  *)
(* back when the session is shown for the first time, and one terminal     *)
(* that shows the buffer of whichever session is shown.  Writes fail, the  *)
(* page is reloaded, sessions are deleted.                                 *)
(***************************************************************************)
EXTENDS Naturals, Sequences, SequencesExt

CONSTANTS
    TerminalIds,    \* the sessions
    NoText,         \* no buffer, no record
    TextLimit,      \* MAX_HISTORY_LENGTH, in pieces of output
    MaxPieces,      \* bound: pieces of output, numbered as they come
    MaxShows,       \* bound: times a session is selected
    MaxLapses       \* bound: writes that fail, and reloads of the page

ASSUME TerminalAssumption ==
    /\ NoText \notin TerminalIds \cup Seq(Nat)
    /\ TextLimit \in Nat \ {0} /\ MaxPieces \in Nat
    /\ MaxShows \in Nat /\ MaxLapses \in Nat

VARIABLES
    records,        \* the terminalHistory store
    texts,          \* buffers
    due,            \* pendingWrites: the sessions with a timer
    storing,        \* writeChains: the contents that wait to be written
    restoring,        \* what restoreAgentTerminalBuffer has asked of the
                    \* database for a session and not been told yet
    onScreen,       \* the session the panel shows
    screen,         \* what the terminal shows
    unsaved,        \* persistenceErrors
    pieces, shows, lapses,
    transcript,     \* history: all that the buffer of a session should hold
    torn,           \* history: sessions whose output began before their
                    \* record had been read
    erased,         \* the deleted sessions
    strayed         \* history: the panel wrote the text of another session

terminalVars == <<records, texts, due, storing, restoring, onScreen, screen,
                  unsaved, pieces, shows, lapses, transcript, torn, erased,
                  strayed>>

Nobody == [s \in TerminalIds |-> NoText]
TextOf(x) == IF x = NoText THEN <<>> ELSE x
\* Mutant: the beginning is kept, not the end.
firstPieces(x) == SubSeq(x, 1, IF Len(x) > TextLimit THEN TextLimit ELSE Len(x))
Bounded(x) == SubSeq(x, IF Len(x) > TextLimit THEN Len(x) - TextLimit + 1 ELSE 1,
                     Len(x))

TerminalInit ==
    /\ records = Nobody /\ texts = Nobody
    /\ due = {} /\ storing = [s \in TerminalIds |-> <<>>] /\ restoring = Nobody
    /\ onScreen = NoText /\ screen = <<>>
    /\ unsaved = {} /\ pieces = 0 /\ shows = 0 /\ lapses = 0
    /\ transcript = [s \in TerminalIds |-> <<>>]
    /\ torn = {} /\ erased = {} /\ strayed = FALSE

-----------------------------------------------------------------------------
\* runtime.subscribe: output of a process of the session.
Output(s) ==
    /\ pieces < MaxPieces
    /\ pieces' = pieces + 1
    /\ LET piece == <<pieces + 1>>
       IN  /\ texts' = [texts EXCEPT ![s] = Bounded(TextOf(@) \o piece)]
           /\ screen' = IF onScreen = s THEN screen \o piece ELSE screen
           /\ transcript' = [transcript EXCEPT ![s] = @ \o piece]
    /\ due' = due \cup {s}
    /\ torn' = IF texts[s] = NoText /\ (records[s] # NoText \/ restoring[s] # NoText)
               THEN torn \cup {s} ELSE torn
    /\ UNCHANGED <<records, storing, restoring, onScreen, unsaved, shows, lapses,
                   erased, strayed>>

\* persistBuffer: the content is the buffer's now, its turn comes behind the
\* writes of the session before it.
Persisted(S) ==
    /\ storing' = [s \in TerminalIds |->
                      IF s \in S THEN Append(storing[s], TextOf(texts[s]))
                      ELSE storing[s]]
    /\ due' = due \ S

Timer(s) ==
    /\ s \in due /\ Persisted({s})
    /\ UNCHANGED <<records, texts, restoring, onScreen, screen, unsaved, pieces,
                   shows, lapses, transcript, torn, erased, strayed>>

\* flushAgentTerminalBuffers (pagehide, and when the view goes).
\* Mutant: the timers are stopped and nothing is written.
droppedTimers == due' = {} /\ UNCHANGED storing
flushedTimers == Persisted(due)
FlushAll ==
    /\ due # {} /\ flushedTimers
    /\ UNCHANGED <<records, texts, restoring, onScreen, screen, unsaved, pieces,
                   shows, lapses, transcript, torn, erased, strayed>>

\* The first of the session's writes is done.  The database answers a read
\* before a write that was asked of it later.
\* Mutant: writes of a session are not chained, the last one is done first.
lastWrite(s) == Len(storing[s])
turnToWrite(s) == 1
HistoryWritten(s) ==
    /\ storing[s] # <<>> /\ restoring[s] = NoText
    /\ LET i == turnToWrite(s)
       IN  /\ storing' = [storing EXCEPT ![s] = RemoveAt(@, i)]
           /\ \/ /\ records' = [records EXCEPT ![s] = storing[s][i]]
                 /\ unsaved' = unsaved \ {s}
                 /\ UNCHANGED lapses
              \/ /\ lapses < MaxLapses /\ lapses' = lapses + 1
                 /\ unsaved' = unsaved \cup {s}
                 /\ UNCHANGED records
    /\ UNCHANGED <<texts, due, restoring, onScreen, screen, pieces, shows,
                   transcript, torn, erased, strayed>>

\* AgentTerminalPanel's effect: the terminal is cleared and shows the buffer;
\* a session without one is read from the database.
\* Mutant: the terminal is cleared only.
clearedText(s) == <<>>
shownText(s) == TextOf(texts[s])
Show(s) ==
    /\ shows < MaxShows /\ s # onScreen /\ s \notin erased
    /\ shows' = shows + 1
    /\ onScreen' = s /\ screen' = shownText(s) /\ strayed' = FALSE
    /\ restoring' = IF texts[s] = NoText
                  THEN [restoring EXCEPT ![s] = TextOf(records[s])] ELSE restoring
    /\ UNCHANGED <<records, texts, due, storing, unsaved, pieces, lapses,
                   transcript, torn, erased>>

\* restoreAgentTerminalBuffer returns: the buffer is what was read, whatever
\* has been put in it meanwhile, and the panel writes it if there is any,
\* whichever session it shows by now.
Restored(s) ==
    /\ restoring[s] # NoText
    /\ LET content == Bounded(restoring[s])
       IN  /\ texts' = [texts EXCEPT ![s] = content]
           /\ screen' = IF content # <<>> THEN content ELSE screen
           /\ torn' = IF texts[s] # NoText THEN torn \cup {s} ELSE torn
           /\ strayed' = (strayed \/ (content # <<>> /\ s # onScreen))
    /\ restoring' = [restoring EXCEPT ![s] = NoText]
    /\ UNCHANGED <<records, due, storing, onScreen, unsaved, pieces, shows,
                   lapses, transcript, erased>>

\* deleteSession: the record goes; the buffer, its timer and its writes stay.
Erase(s) ==
    /\ s \notin erased
    /\ erased' = erased \cup {s}
    /\ records' = [records EXCEPT ![s] = NoText]
    /\ onScreen' = IF onScreen = s THEN NoText ELSE onScreen
    /\ screen' = IF onScreen = s THEN <<>> ELSE screen
    /\ UNCHANGED <<texts, due, storing, restoring, unsaved, pieces, shows, lapses,
                   transcript, torn, strayed>>

\* The page is loaded anew: what is not in the database is gone.
ReloadPage ==
    /\ lapses < MaxLapses /\ lapses' = lapses + 1
    /\ texts' = Nobody /\ due' = {} /\ restoring' = Nobody
    /\ storing' = [s \in TerminalIds |-> <<>>]
    /\ onScreen' = NoText /\ screen' = <<>> /\ unsaved' = {}
    /\ transcript' = [s \in TerminalIds |-> TextOf(records[s])]
    /\ torn' = {} /\ strayed' = FALSE
    /\ UNCHANGED <<records, pieces, shows, erased>>

TerminalNext ==
    \/ \E s \in TerminalIds :
          Output(s) \/ Timer(s) \/ HistoryWritten(s) \/ Show(s) \/ Restored(s) \/ Erase(s)
    \/ FlushAll \/ ReloadPage

TerminalSpec == TerminalInit /\ [][TerminalNext]_terminalVars

-----------------------------------------------------------------------------
(***************************************************************************)
(* The buffer is the end of all the session has output, over any number of *)
(* reloads (but for what a reload found unsaved), and the record catches   *)
(* up with it: when nothing is due and no write failed they are the same.  *)
(* Left out: sessions whose output came before their record was read       *)
(* (torn: the new output, or the whole record, is lost), deleted ones.     *)
(***************************************************************************)
BufferIsTheEnd ==
    \A s \in TerminalIds \ (torn \cup erased) :
        texts[s] # NoText =>
            /\ IsSuffix(texts[s], transcript[s])
            /\ Len(texts[s]) < TextLimit => texts[s] = transcript[s]

RecordCatchesUp ==
    \A s \in TerminalIds \ (torn \cup erased \cup unsaved) :
        texts[s] # NoText /\ s \notin due /\ storing[s] = <<>>
            => TextOf(records[s]) = texts[s]

\* The terminal ends with the buffer of the session it shows, unless the panel
\* wrote what it had read for a session that was no longer shown.
ScreenIsTheSession ==
    onScreen # NoText /\ ~strayed => IsSuffix(TextOf(texts[onScreen]), screen)

\* A deleted session leaves no record.  It does: its timer, a write that waits
\* or a process that goes on writing puts the record back.
ErasedStaysErased == \A s \in erased : records[s] = NoText

\* The buffer, its record and the screen agree with what the session printed.
\* (agentTerminalBuffer.ts, AgentTerminalPanel.tsx)
TerminalSound == BufferIsTheEnd /\ RecordCatchesUp /\ ScreenIsTheSession
=============================================================================
