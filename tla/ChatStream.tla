----------------------------- MODULE ChatStream -----------------------------
(***************************************************************************)
(* The reader of a streamed model answer (consumeChatStream).  The network *)
(* cuts the text of the answer anywhere, between lines or inside one; the  *)
(* reader keeps the unfinished line, applies the deltas of the finished    *)
(* ones to the message, and shows the message at most once per frame.  The *)
(* reader may be slow, the connection may break, the provider may send an  *)
(* error event.                                                            *)
(***************************************************************************)
EXTENDS Naturals, Sequences, SequencesExt

CONSTANTS
    MaxLines,       \* bound: lines of the answer
    BufferLimit,    \* MAX_SSE_BUFFER_BYTES, in symbols
    Frame           \* FRAME_INTERVAL_MS, in ticks of the clock

ASSUME StreamAssumption ==
    MaxLines \in Nat /\ BufferLimit \in Nat \ {0} /\ Frame \in Nat \ {0}

(***************************************************************************)
(* A line is two symbols, "data" and its event, so that a chunk may end    *)
(* inside it; NewLine ends it.  Two texts, a tool call that begins (it has *)
(* an id), arguments for it, a line that is no event (a comment, [DONE],   *)
(* JSON that does not parse), an error event.                              *)
(***************************************************************************)
Deltas == {"a", "b", "begin", "argument"}
Payloads == Deltas \cup {"junk", "error"}
NewLine == "newline"
Line(p) == <<"data", p, NewLine>>
Symbols == Payloads \cup {"data", NewLine}
AnswerOf(ps) ==
    [i \in 1..3 * Len(ps) |-> Line(ps[(i + 2) \div 3])[((i + 2) % 3) + 1]]

\* text.split('\n'): the pieces between the line breaks, the last one (what
\* follows the last break, maybe nothing) included; those of the first n symbols
\* of the text, for every n.
split(ps, x) ==
    IF x = NewLine THEN Append(ps, <<>>)
    ELSE Append(Front(ps), Append(Last(ps), x))
piecesUpTo(s) ==
    LET upTo[n \in 0..Len(s)] ==
          IF n = 0 THEN << <<>> >> ELSE split(upTo[n - 1], s[n])
    IN  upTo
Pieces(s) == piecesUpTo(s)[Len(s)]

VARIABLES
    reply,          \* what the provider sends
    sent,           \* how much of it has been read
    buffer,         \* the line that is not finished
    message,        \* what the deltas have made of the message so far, and
                    \* whether a line was an error
    dirty, timer,   \* an update is due; ticks until its timer fires, or NoTimer
    age,            \* ticks since the last update, at most Frame
    emitted,          \* the message of the last update
    outcome         \* reading, returned, failed

streamVars == <<reply, sent, buffer, message, dirty, timer, age, emitted, outcome>>

NoTimer == Frame + 1
\* calls: the arguments of the tool call with index 0, or that there is none.
Blank == [texts |-> <<>>, calls |-> <<>>, failed |-> FALSE, deltas |-> 0]

StreamInit ==
    /\ \E n \in 0..MaxLines, whole \in BOOLEAN :
          \E ps \in [1..n -> Payloads] :
             reply = IF whole \/ n = 0 THEN AnswerOf(ps) ELSE Front(AnswerOf(ps))
    /\ sent = 0 /\ buffer = <<>> /\ message = Blank
    /\ dirty = FALSE /\ timer = NoTimer /\ age = Frame
    /\ emitted = Blank /\ outcome = "reading"

\* applyDelta: an id (re)starts the call of its index; arguments of a call that
\* has not begun are dropped.
applyDelta(m, d) ==
    CASE d \in {"a", "b"} -> [m EXCEPT !.texts = Append(@, d)]
      [] d = "begin"      -> [m EXCEPT !.calls = <<0>>]
      [] d = "argument"   -> [m EXCEPT !.calls = [i \in DOMAIN @ |-> @[i] + 1]]

\* consumeLine; after an error event the lines that follow are not read.
consumeLine(m, line) ==
    IF m.failed \/ Len(line) < 2 THEN m
    ELSE IF line[2] = "error" THEN [m EXCEPT !.failed = TRUE]
    ELSE IF line[2] \in Deltas
         THEN [applyDelta(m, line[2]) EXCEPT !.deltas = @ + 1]
         ELSE m

\* lines.forEach(consumeLine)
consumedUpTo(m, lines) ==
    LET upTo[n \in 0..Len(lines)] ==
          IF n = 0 THEN m ELSE consumeLine(upTo[n - 1], lines[n])
    IN  upTo
Consumed(m, lines) == consumedUpTo(m, lines)[Len(lines)]

\* The reference: the message of the whole text, cut nowhere.
Whole == Consumed(Blank, Pieces(reply))

-----------------------------------------------------------------------------
\* finally: no timer is left behind.  Mutant: it is.
leftRunning == UNCHANGED timer
cleared == timer' = NoTimer

\* scheduleFlush, once for the deltas of a chunk: a timer that is running is
\* kept; otherwise one for the rest of the frame.
delay == Frame - age
Schedules(m) ==
    IF m.deltas = message.deltas THEN UNCHANGED <<dirty, timer>>
    ELSE /\ dirty' = TRUE
         /\ timer' = IF timer = NoTimer THEN delay ELSE timer

StreamFails == outcome' = "failed" /\ cleared

\* lines.pop(): the last piece waits for the rest of its line.
unfinished(s) == Last(Pieces(s))
finished(s) == Front(Pieces(s))

\* reader.read() answers n more symbols.
Chunk(n) ==
    /\ outcome = "reading" /\ sent + n <= Len(reply)
    /\ sent' = sent + n
    /\ LET text == buffer \o SubSeq(reply, sent + 1, sent + n)
           m    == Consumed(message, finished(text))
       IN  IF Len(text) > BufferLimit
           THEN StreamFails /\ buffer' = text /\ UNCHANGED <<message, dirty>>
           ELSE /\ buffer' = unfinished(text) /\ message' = m
                /\ IF m.failed THEN StreamFails /\ dirty' = dirty
                   ELSE Schedules(m) /\ UNCHANGED outcome
    /\ UNCHANGED <<reply, age, emitted>>

\* done: what is left is a line too, and the last update is made at once.
End ==
    /\ outcome = "reading" /\ sent = Len(reply)
    /\ LET m == Consumed(message, <<buffer>>)
           due == dirty \/ m.deltas # message.deltas
       IN  /\ message' = m /\ cleared
           /\ IF m.failed THEN outcome' = "failed" /\ UNCHANGED <<emitted, dirty, age>>
              ELSE /\ outcome' = "returned" /\ dirty' = FALSE
                   /\ emitted' = IF due THEN m ELSE emitted
                   /\ age' = IF due THEN 0 ELSE age
    /\ UNCHANGED <<reply, sent, buffer>>

\* The connection breaks or the call is aborted: read() rejects.
Breaks ==
    /\ outcome = "reading" /\ StreamFails
    /\ UNCHANGED <<reply, sent, buffer, message, dirty, age, emitted>>

\* The timer's flush.
FlushFrame ==
    /\ timer = 0
    /\ timer' = NoTimer
    /\ IF dirty THEN dirty' = FALSE /\ emitted' = message /\ age' = 0
                ELSE UNCHANGED <<dirty, emitted, age>>
    /\ UNCHANGED <<reply, sent, buffer, message, outcome>>

ClockTick ==
    /\ timer # 0 /\ (age < Frame \/ timer \in 1..Frame)
    /\ age' = IF age < Frame THEN age + 1 ELSE age
    /\ timer' = IF timer \in 1..Frame THEN timer - 1 ELSE timer
    /\ UNCHANGED <<reply, sent, buffer, message, dirty, emitted, outcome>>

StreamNext ==
    \/ \E n \in 1..Len(reply) : Chunk(n)
    \/ End \/ Breaks \/ FlushFrame \/ ClockTick

StreamSpec == StreamInit /\ [][StreamNext]_streamVars

-----------------------------------------------------------------------------
(***************************************************************************)
(* Where the network cuts the text does not show: an answer that is        *)
(* returned is the message of the whole text, read at once, and is the     *)
(* message of the last update.  (An answer may fail for its cut: the limit *)
(* is on what is read and not yet split, finished lines included.)         *)
(***************************************************************************)
CutIsInvisible ==
    outcome = "returned" =>
        /\ message = Whole
        /\ emitted = message

\* Updates are at least a frame apart, but for the one at the end, and none
\* comes after the call has returned or failed.
FramesAreKept ==
    [][emitted' # emitted =>
          /\ outcome = "reading"
          /\ outcome' = "reading" => age = Frame]_streamVars

\* Neither the cuts of the network nor the frames lose a part of the answer.
\* (consumeChatStream)
StreamSound == []CutIsInvisible /\ FramesAreKept
=============================================================================
