---------------------------- MODULE ModelContext ----------------------------
(***************************************************************************)
(* What the model is told (PiSession, piCompaction).  The agent holds the  *)
(* transcript of the run; the pi session in IndexedDB holds the entries    *)
(* from which a later run starts.  The answers reach the entries one after *)
(* another, behind the transcript.  When the context grows too long, the   *)
(* entries are read, a summary of the older ones is made, and both become  *)
(* the summary and a retained tail: before a prompt, or between two turns. *)
(* Runs follow one another here; SessionLog has several at once.           *)
(***************************************************************************)
EXTENDS Naturals, Sequences, SequencesExt, Subsequences

CONSTANTS
    MaxMessages,    \* bound: messages, numbered as they come
    MaxSummaries,   \* bound: compactions that succeed
    MaxUpsets       \* bound: writes that fail, reloads, and stops

ASSUME ContextAssumption ==
    MaxMessages \in Nat /\ MaxSummaries \in Nat /\ MaxUpsets \in Nat

VARIABLES
    agentMessages,  \* the transcript: the messages of the agent
    entries,        \* the pi session: [message, tail]; a compaction is a
                    \* message of kind "summary" and its retained tail
    landing,        \* pendingPersist: answers on their way to the entries
    guidance,       \* the steering queue of the agent
    stage, read,    \* where the run is; the entries a compaction works on
    sees,           \* the model accepts images
    cancelled,      \* the run's signal is aborted
    made, summaries, upsets,
    unlanded,       \* history: messages whose write failed
    degraded        \* history: the images of the last request were replaced

contextVars == <<agentMessages, entries, landing, guidance, stage, read, sees,
                 cancelled, made, summaries, upsets, unlanded, degraded>>

(***************************************************************************)
(* of: the numbers of the messages it stands for, its own or, for a        *)
(* summary, those it sums up; to: the call a result answers.  A "call" is  *)
(* an answer of the model that calls a tool.                               *)
(***************************************************************************)
Said(kind, of, image, to) == [kind |-> kind, of |-> of, image |-> image, to |-> to]
Next1 == {made + 1}
Makes == made < MaxMessages /\ made' = made + 1
Upset == upsets < MaxUpsets /\ upsets' = upsets + 1

entryFor(m) == [message |-> m, tail |-> <<>>]
messagesOf(es) == [i \in DOMAIN es |-> es[i].message]
Covered(ms) == UNION {ms[i].of : i \in DOMAIN ms}

\* buildSessionContext: the last summary, its tail, and what follows.
contextOf(es) ==
    LET C == {i \in DOMAIN es : es[i].message.kind = "summary"}
        c == Max(C)
    IN  IF C = {} THEN messagesOf(es)
        ELSE <<es[c].message>> \o es[c].tail
                 \o messagesOf(SubSeq(es, c + 1, Len(es)))

ContextInit ==
    /\ agentMessages = <<>> /\ entries = <<>> /\ landing = <<>> /\ guidance = <<>>
    /\ stage = "idle" /\ read = <<>> /\ sees \in BOOLEAN /\ cancelled = FALSE
    /\ made = 0 /\ summaries = 0 /\ upsets = 0 /\ unlanded = {}
    /\ degraded = FALSE

\* initialize: the history of the session is the transcript of a new agent.
StartsRun ==
    /\ stage = "idle" /\ made < MaxMessages
    /\ stage' = "before" /\ cancelled' = FALSE
    /\ agentMessages' = contextOf(entries)
    /\ guidance' = <<>>
    /\ UNCHANGED <<entries, landing, read, sees, made, summaries, upsets,
                   unlanded, degraded>>

-----------------------------------------------------------------------------
(* Compaction. *)

resumesTo == CASE stage \in {"before", "summing"} -> "storing"
               [] stage \in {"turning", "summingTurn"} -> "asking"

\* compactForNextTurn waits for the answers to be written.
\* Mutant: it does not.
answersAny == TRUE
answersWritten == landing = <<>>

\* The steering queue is emptied into the transcript after the compaction.
Steers(ms) ==
    IF stage \in {"turning", "summingTurn"}
    THEN agentMessages' = ms \o guidance /\ guidance' = <<>>
    ELSE agentMessages' = ms /\ UNCHANGED guidance

\* isCompactionNeeded says no.
NoNeed ==
    /\ stage \in {"before", "turning"}
    /\ stage = "turning" => answersWritten
    /\ stage' = resumesTo /\ Steers(agentMessages)
    /\ UNCHANGED <<entries, landing, read, sees, cancelled, made, summaries,
                   upsets, unlanded, degraded>>

Needed ==
    /\ stage \in {"before", "turning"}
    /\ stage = "turning" => answersWritten
    /\ entries # <<>>
    /\ stage' = IF stage = "before" THEN "summing" ELSE "summingTurn"
    /\ read' = entries
    /\ UNCHANGED <<agentMessages, entries, landing, guidance, sees, cancelled, made,
                   summaries, upsets, unlanded, degraded>>

\* prepareCompaction, compact, appendEntry: all but a tail of the context is
\* summed up, and a summary sums up the one before it.
\* Mutant: the agent keeps the transcript it had.
keepsTranscript(ms) == agentMessages
seeded(ms) == ms
Summarized(n) ==
    LET ctx  == contextOf(read)
        sum  == Said("summary", Covered(SubSeq(ctx, 1, n)), FALSE, 0)
        tail == SubSeq(ctx, n + 1, Len(ctx))
    IN  /\ stage \in {"summing", "summingTurn"} /\ ~cancelled
        /\ n \in 1..Len(ctx) /\ (ctx[1].kind = "summary" => n > 1)
        /\ summaries < MaxSummaries /\ summaries' = summaries + 1
        /\ entries' = Append(entries, [message |-> sum, tail |-> tail])
        /\ Steers(seeded(<<sum>> \o tail))
        /\ stage' = resumesTo
        /\ UNCHANGED <<landing, read, sees, cancelled, made, upsets, unlanded,
                       degraded>>

\* Nothing to sum up, or the summary fails or is aborted: as if not needed.
SummaryFails ==
    /\ stage \in {"summing", "summingTurn"}
    /\ stage' = resumesTo /\ Steers(agentMessages)
    /\ UNCHANGED <<entries, landing, read, sees, cancelled, made, summaries,
                   upsets, unlanded, degraded>>

-----------------------------------------------------------------------------
(* A run. *)

\* appendUserMessage and agent.prompt; a run aborted by now is not started, and
\* a message that cannot be written fails the prompt.
Prompts(image) ==
    /\ stage = "storing" /\ ~cancelled /\ Makes
    /\ LET m == Said("prompt", Next1, image, 0)
       IN  \/ /\ entries' = Append(entries, entryFor(m))
              /\ agentMessages' = Append(agentMessages, m)
              /\ stage' = "asking"
              /\ UNCHANGED <<upsets, unlanded>>
           \/ /\ Upset /\ stage' = "idle" /\ unlanded' = unlanded \cup m.of
              /\ UNCHANGED <<entries, agentMessages>>
    /\ UNCHANGED <<landing, guidance, read, sees, cancelled, summaries, degraded>>

NotStarted ==
    /\ stage = "storing" /\ cancelled /\ stage' = "idle"
    /\ UNCHANGED <<agentMessages, entries, landing, guidance, read, sees, cancelled,
                   made, summaries, upsets, unlanded, degraded>>

(***************************************************************************)
(* streamWithVisionFallback: a request that is refused for its images is   *)
(* sent once more with those of the user's messages replaced by text.      *)
(***************************************************************************)
images(ms) == {ms[i].kind : i \in {j \in DOMAIN ms : ms[j].image}}
withoutImages(ms) == [i \in DOMAIN ms |-> IF ms[i].kind = "prompt"
                                          THEN [ms[i] EXCEPT !.image = FALSE] ELSE ms[i]]
refusedFor(ms) == ~sees /\ images(ms) # {}
failsFor(ms) == refusedFor(ms) /\ refusedFor(withoutImages(ms))

\* An answer, a call, or the message of an error or an abort; message_end puts
\* it behind the answers that are being written.
Answers(kind) ==
    /\ stage = "asking" /\ Makes
    /\ kind = "call" => ~cancelled /\ ~failsFor(agentMessages)
    /\ degraded' = refusedFor(agentMessages)
    /\ LET m == Said(kind, Next1, FALSE, 0)
       IN  agentMessages' = Append(agentMessages, m) /\ landing' = Append(landing, m)
    /\ stage' = IF kind = "call" THEN "tools"
                ELSE IF guidance # <<>> /\ ~cancelled /\ ~failsFor(agentMessages)
                     THEN "turning" ELSE "ending"
    /\ UNCHANGED <<entries, guidance, read, sees, cancelled, summaries, upsets,
                   unlanded>>

\* The results of a turn; one that ends the run (complete_task) stops the loop.
ToolAnswers(image, last) ==
    /\ stage = "tools" /\ Makes
    /\ agentMessages' = Append(agentMessages,
                        Said("result", Next1, image, CHOOSE n \in Last(agentMessages).of : TRUE))
    /\ stage' = IF last THEN "ending" ELSE "turning"
    /\ UNCHANGED <<entries, landing, guidance, read, sees, cancelled, summaries,
                   upsets, unlanded, degraded>>

\* persistEvent, best effort.
Lands ==
    /\ landing # <<>> /\ landing' = Tail(landing)
    /\ \/ entries' = Append(entries, entryFor(Head(landing))) /\ UNCHANGED <<upsets, unlanded>>
       \/ Upset /\ unlanded' = unlanded \cup Head(landing).of /\ UNCHANGED entries
    /\ UNCHANGED <<agentMessages, guidance, stage, read, sees, cancelled, made,
                   summaries, degraded>>

\* steer.
Guides ==
    /\ stage \in {"asking", "tools", "turning", "summingTurn"} /\ ~cancelled
    /\ guidance = <<>> /\ Makes
    /\ guidance' = <<Said("guide", Next1, FALSE, 0)>>
    /\ UNCHANGED <<agentMessages, entries, landing, stage, read, sees, cancelled,
                   summaries, upsets, unlanded, degraded>>

Cancels ==
    /\ stage # "idle" /\ ~cancelled /\ Upset
    /\ cancelled' = TRUE
    /\ UNCHANGED <<agentMessages, entries, landing, guidance, stage, read, sees, made,
                   summaries, unlanded, degraded>>

\* prompt returns when the answers have been written.
EndsRun ==
    /\ stage = "ending" /\ landing = <<>>
    /\ stage' = "idle"
    /\ UNCHANGED <<agentMessages, entries, landing, guidance, read, sees, cancelled,
                   made, summaries, upsets, unlanded, degraded>>

\* The page is reloaded: answers that were not written are lost.
LosesPage ==
    /\ stage # "idle" /\ Upset
    /\ stage' = "idle" /\ landing' = <<>>
    /\ unlanded' = unlanded \cup Covered(landing)
    /\ UNCHANGED <<agentMessages, entries, guidance, read, sees, cancelled, made,
                   summaries, degraded>>

ContextNext ==
    \/ StartsRun \/ NoNeed \/ Needed \/ SummaryFails \/ NotStarted
    \/ \E n \in 1..MaxMessages : Summarized(n)
    \/ \E image \in BOOLEAN : Prompts(image)
    \/ \E kind \in {"call", "answer"} : Answers(kind)
    \/ \E image, last \in BOOLEAN : ToolAnswers(image, last)
    \/ Lands \/ Guides \/ Cancels \/ EndsRun \/ LosesPage

ContextSpec == ContextInit /\ [][ContextNext]_contextVars

-----------------------------------------------------------------------------
InRun == stage \in {"asking", "tools", "turning", "summingTurn", "ending"}

\* What is left of the transcript without tool results and guidance, which are
\* never written, and without what could not be.
conversation ==
    only(agentMessages, {m \in Range(agentMessages) :
                           m.kind \notin {"result", "guide"} /\ m.of \cap unlanded = {}})

\* The running agent is told what a reload would restore once all is written,
\* through any compactions: nothing twice, nothing missing, in the same order.
ContextIsSession ==
    InRun => conversation = contextOf(entries) \o landing

\* Whatever was prompted or answered in the session is in front of the model,
\* itself or in a summary; but for writes that failed.
NothingForgotten ==
    InRun => \A i \in DOMAIN entries : entries[i].message.of \subseteq Covered(agentMessages)

\* A call in front of the model has its result there.  Not so after a
\* compaction, nor in a later run: results are not written to the session.
RoundsAreWhole ==
    stage = "asking" =>
        \A i \in DOMAIN agentMessages :
            agentMessages[i].kind = "call" /\ ~cancelled /\ agentMessages[i].of \cap unlanded = {} =>
                \E j \in DOMAIN agentMessages : agentMessages[j].to \in agentMessages[i].of

\* The model is shown the session, and a compaction forgets nothing stored.
\* (piSession.ts, piCompaction.ts)
ContextSound == ContextIsSession /\ NothingForgotten
=============================================================================
