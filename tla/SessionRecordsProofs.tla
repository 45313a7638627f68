------------------------- MODULE SessionRecordsProofs -------------------------
(***************************************************************************)
(* RecordsSound and SettledOnce for any number of runs, of this page and   *)
(* of earlier ones, and any number of rejected writes and reloads.         *)
(*                                                                         *)
(* IInv of SessionRecords is inductive.  Nearly every step is of one run   *)
(* and leaves the others alone (OneRun).  A run that settles is shown as   *)
(* planning before, so that until then neither the disk nor what waits for *)
(* it settles it (DiskFits), and only the first settlement is stored; a    *)
(* run whose prompt has returned has only saves of the recovery under way  *)
(* (StoredFits), which is why the deletion may go on without it.           *)
(*                                                                         *)
(* LedgerSound, of the files that runs attach, comes last.                 *)
(***************************************************************************)
EXTENDS SessionRecords, ResourceLedger, SequenceTheorems, FiniteSetTheorems, TLAPS

-----------------------------------------------------------------------------
(* Saves that wait. *)

LEMMA SavingAppended ==
  ASSUME TypeOK, NEW r \in Run, NEW w \in Save,
         runQ' = [runQ EXCEPT ![r] = Append(@, w)]
  PROVE  /\ runQ' \in [Run -> Seq(Save)] /\ runQ'[r] # <<>>
         /\ saving(r)' = saving(r) \cup {w}
         /\ \A q \in Run \ {r} : runQ'[q] = runQ[q]
<1> DEFINE s == runQ[r]
<1>1. s \in Seq(Save) /\ runQ \in [Run -> Seq(Save)] /\ Len(s) \in Nat
  BY DEF TypeOK, RecordsTypeOK
<1>2. runQ'[r] = Append(s, w)
  BY <1>1
<1>3. /\ Append(s, w) \in Seq(Save) /\ Append(s, w) # <<>>
      /\ Len(Append(s, w)) = Len(s) + 1
      /\ \A i \in 1..Len(s) : Append(s, w)[i] = s[i]
      /\ Append(s, w)[Len(s) + 1] = w
  BY <1>1, AppendProperties
<1> HIDE DEF s
<1>4. {Append(s, w)[i] : i \in 1..(Len(s) + 1)} = {s[i] : i \in 1..Len(s)} \cup {w}
  BY <1>1, <1>3
<1> QED BY <1>1, <1>2, <1>3, <1>4 DEF saving, s

LEMMA SavingDone ==
  ASSUME TypeOK, NEW r \in Run, runQ[r] # <<>>,
         runQ' = [runQ EXCEPT ![r] = Tail(@)]
  PROVE  /\ runQ' \in [Run -> Seq(Save)]
         /\ Head(runQ[r]) \in Save /\ Head(runQ[r]) \in saving(r)
         /\ saving(r)' \subseteq saving(r)
         /\ \A q \in Run \ {r} : runQ'[q] = runQ[q]
<1> DEFINE s == runQ[r]
<1>1. s \in Seq(Save) /\ runQ \in [Run -> Seq(Save)] /\ Len(s) \in Nat /\ s # <<>>
  BY DEF TypeOK, RecordsTypeOK
<1>2. runQ'[r] = Tail(s)
  BY <1>1
<1> HIDE DEF s
<1>3. /\ Head(s) \in Save /\ Tail(s) \in Seq(Save) /\ Len(Tail(s)) = Len(s) - 1
      /\ \A i \in 1..Len(Tail(s)) : Tail(s)[i] = s[i + 1]
  BY <1>1, HeadTailProperties
<1>4. Len(s) # 0 /\ Head(s) = s[1]
  BY <1>1
<1>5. Head(s) \in {s[i] : i \in 1..Len(s)}
  BY <1>1, <1>4
<1>6. {Tail(s)[i] : i \in 1..Len(Tail(s))} \subseteq {s[i] : i \in 1..Len(s)}
  <2> SUFFICES ASSUME NEW i \in 1..Len(Tail(s)) PROVE \E j \in 1..Len(s) : Tail(s)[i] = s[j]
    OBVIOUS
  <2>1. i + 1 \in 1..Len(s) /\ Tail(s)[i] = s[i + 1]
    BY <1>1, <1>3
  <2> QED BY <2>1
<1> QED BY <1>1, <1>2, <1>3, <1>5, <1>6 DEF saving, s

LEMMA NothingSaving ==
  ASSUME NEW r \in Run, runQ[r] = <<>>
  PROVE  saving(r) = {}
  BY DEF saving

LEMMA SomeSaving ==
  ASSUME TypeOK, NEW r \in Run, runQ[r] # <<>>
  PROVE  \E w \in saving(r) : w = Head(runQ[r]) /\ w \in Save
<1>1. runQ[r] \in Seq(Save)
  BY DEF TypeOK, RecordsTypeOK
<1>2. Head(runQ[r]) = runQ[r][1] /\ 1 \in 1..Len(runQ[r]) /\ Head(runQ[r]) \in Save
  BY <1>1, HeadTailProperties
<1> QED BY <1>2 DEF saving

-----------------------------------------------------------------------------
(* One run at a time. *)

Sane(r) == ShownFits(r) /\ StoredFits(r) /\ TracedFits(r) /\ DiskFits(r)

\* A step of r, or of a write of r, leaves the other runs alone; and r does not
\* come back to life.
Alone(r) ==
  /\ \A q \in Run \ {r} :
       /\ stage'[q] = stage[q] /\ phase'[q] = phase[q] /\ memRun'[q] = memRun[q]
       /\ runQ'[q] = runQ[q] /\ events'[q] = events[q] /\ diskRun'[q] = diskRun[q]
       /\ q \in checkQ' <=> q \in checkQ
       /\ q \in diskEvents' <=> q \in diskEvents
       /\ q \in diskCheck' <=> q \in diskCheck
       /\ q \in early' <=> q \in early
       /\ q \in toMark' => q \in toMark
  /\ failures' = 0 => /\ failures = 0 /\ load' = load /\ recovered' = recovered
                      /\ \A q \in Run \ {r} : q \in toMark => q \in toMark'
  /\ del' = del /\ delWait' = delWait
  /\ stage'[r] \in Live => stage[r] \in Live \cup {"creating"}
  /\ stage'[r] \in {"none", "resuming", "creating"} => stage[r] \in {"none", "resuming", "creating"}
  /\ stage'[r] \in {"none", "resuming"} => stage[r] \in {"none", "resuming"}

LEMMA OneRun ==
  ASSUME IInv, NEW r \in Run, TypeOK', Alone(r), Sane(r)', RecoveryFits(r)',
         del = "done" /\ r \in delWait /\ r \notin early' =>
           diskRun'[r] \in {"none", "interrupted"} /\ r \notin diskCheck'
  PROVE  IInv'
<1>1. ASSUME NEW q \in Run, q # r
      PROVE  ShownFits(q)' /\ StoredFits(q)' /\ TracedFits(q)' /\ DiskFits(q)'
  <2>1. ShownFits(q) /\ StoredFits(q) /\ TracedFits(q) /\ DiskFits(q)
    BY DEF IInv
  <2>2. saving(q)' = saving(q)
    BY <1>1 DEF Alone, saving
  <2>3. ShownFits(q)'
    BY <1>1, <2>1 DEF Alone, ShownFits
  <2>4. StoredFits(q)'
    BY <1>1, <2>1, <2>2 DEF Alone, StoredFits
  <2>5. TracedFits(q)'
    BY <1>1, <2>1 DEF Alone, TracedFits
  <2>6. DiskFits(q)'
    BY <1>1, <2>1, <2>2 DEF Alone, DiskFits
  <2> QED BY <2>3, <2>4, <2>5, <2>6
<1>2. ASSUME NEW q \in Run, q # r PROVE RecoveryFits(q)'
  <2> SUFFICES ASSUME q \in Old, quiet' PROVE RecoveryFits(q)'
    BY DEF RecoveryFits
  <2>1. failures = 0 /\ load' = load /\ recovered' = recovered /\ (q \in toMark => q \in toMark')
    BY <1>2 DEF quiet, Alone
  <2>2. ASSUME NEW x \in Run PROVE stage[x] \in {"none", "resuming"}
    BY DEF quiet, Alone
  <2>3. quiet /\ RecoveryFits(q)
    BY <2>1, <2>2 DEF quiet, IInv
  <2> QED BY <1>2, <2>1, <2>3 DEF RecoveryFits, Alone
<1>3. WaitFits'
  <2>1. executions' \subseteq executions \cup (IF stage[r] = "creating" THEN {r} ELSE {})
    BY DEF executions, Alone
  <2>2. \A q \in Run : stage'[q] \in {"none", "resuming", "creating"}
                         => stage[q] \in {"none", "resuming", "creating"}
    BY DEF Alone
  <2>3. WaitFits /\ delWait \subseteq Run
    BY DEF IInv, TypeOK
  <2>4. ASSUME del = "done", NEW q \in delWait, q \notin early'
        PROVE  diskRun'[q] \in {"none", "interrupted"} /\ q \notin diskCheck'
    <3>1. CASE q = r
      BY <3>1, <2>4
    <3>2. CASE q # r
      BY <3>2, <2>4, <2>3 DEF Alone, WaitFits
    <3> QED BY <3>1, <3>2
  <2>5. del' = del /\ delWait' = delWait
    BY DEF Alone
  <2>6. stage[r] = "creating" => r \notin delWait
    BY <2>3 DEF WaitFits
  <2> QED BY <2>1, <2>2, <2>3, <2>4, <2>5, <2>6 DEF WaitFits
<1> QED BY <1>1, <1>2, <1>3 DEF IInv, Sane

-----------------------------------------------------------------------------
(* The steps of PiRuns: r goes to the stage s and is shown as p. *)

Became(r, s, p) ==
  /\ RunsTypeOK'
  /\ stage'[r] = s /\ phase'[r] = p
  /\ \A q \in Run \ {r} : stage'[q] = stage[q] /\ phase'[q] = phase[q]

LEMMA BecomesLaunched ==
  ASSUME RunsTypeOK, NEW r \in Run, Launches(r)
  PROVE  Became(r, "creating", "preparing")
<1>1. 1 + Cardinality({q \in Run : order[q] > 0}) \in Nat
  BY RunsAssumption, FS_Subset, FS_CardinalityType
<1> QED BY <1>1 DEF Launches, goTo, show, RunsTypeOK, Became, Stage, Launched, Phase, Active

LEMMA BecomesResuming ==
  ASSUME RunsTypeOK, NEW r \in Run, Resume(r)
  PROVE  Became(r, "resuming", phase[r])
  BY DEF Resume, goTo, RunsTypeOK, Became, Stage, Launched

LEMMA BecomesUnresumed ==
  ASSUME RunsTypeOK, NEW r \in Run, ResumeFails(r)
  PROVE  Became(r, "none", phase[r])
  BY DEF ResumeFails, goTo, RunsTypeOK, Became, Stage

LEMMA BecomesOpening ==
  ASSUME RunsTypeOK, NEW r \in Run, DriverCreated(r)
  PROVE  Became(r, "opening", phase[r])
  BY DEF DriverCreated, goTo, RunsTypeOK, Became, Stage, Launched, Live

LEMMA BecomesFailed ==
  ASSUME RunsTypeOK, NEW r \in Run, DriverFails(r)
  PROVE  Became(r, "rejected", "failed")
  BY DEF DriverFails, goTo, show, RunsTypeOK, Became, Stage, Phase, Settled

LEMMA BecomesRejected ==
  ASSUME RunsTypeOK, NEW r \in Run, NEW from, Throws(r, from)
  PROVE  Became(r, "rejected", phase[r])
  BY DEF Throws, goTo, RunsTypeOK, Became, Stage

LEMMA BecomesPassed ==
  ASSUME RunsTypeOK, NEW r \in Run, NEW from, NEW to \in Stage, Passes(r, from, to)
  PROVE  IF aborted[r] THEN Became(r, "done", "cancelled") ELSE Became(r, to, phase[r])
<1>1. CASE aborted[r]
  BY <1>1 DEF Passes, goTo, show, RunsTypeOK, Became, Stage, Phase, Settled
<1>2. CASE ~aborted[r]
  BY <1>2 DEF Passes, goTo, RunsTypeOK, Became
<1> QED BY <1>1, <1>2

LEMMA BecomesStarted ==
  ASSUME RunsTypeOK, NEW r \in Run, Starts(r)
  PROVE  Became(r, "model", "planning")
  BY DEF Starts, goTo, show, RunsTypeOK, Became, Stage, Launched, Live, Loop, Phase, Active

LEMMA BecomesTools ==
  ASSUME RunsTypeOK, NEW r \in Run, ModelCallsTools(r)
  PROVE  Became(r, "tools", phase[r])
  BY DEF ModelCallsTools, goTo, RunsTypeOK, Became, Stage, Launched, Live, Loop

LEMMA BecomesStopped ==
  ASSUME RunsTypeOK, NEW r \in Run, ModelStops(r)
  PROVE  Became(r, "between", phase[r]) \/ Became(r, "ending", phase[r])
  BY DEF ModelStops, goTo, RunsTypeOK, Became, Stage, Launched, Live, Loop

LEMMA BecomesBroken ==
  ASSUME RunsTypeOK, NEW r \in Run, NEW reason, ModelBreaks(r, reason)
  PROVE  Became(r, "ending", broken(r, reason)) /\ broken(r, reason) \in {"cancelled", "failed"}
  BY DEF ModelBreaks, broken, goTo, show, RunsTypeOK, Became, Stage, Launched, Live, Loop, Phase,
         Settled

LEMMA BecomesTurned ==
  ASSUME RunsTypeOK, NEW r \in Run, NEW s \in {"none", "completed", "awaiting_user"}, ToolsEnd(r, s)
  PROVE  Became(r, "between", phase[r]) \/ Became(r, "ending", phase[r])
  BY DEF ToolsEnd, goTo, RunsTypeOK, Became, Stage, Launched, Live, Loop

LEMMA BecomesNext ==
  ASSUME RunsTypeOK, NEW r \in Run, NextTurn(r)
  PROVE  Became(r, "model", phase[r])
  BY DEF NextTurn, goTo, RunsTypeOK, Became, Stage, Launched, Live, Loop

LEMMA BecomesEnded ==
  ASSUME RunsTypeOK, NEW r \in Run, AgentEnd(r)
  PROVE  Became(r, "flushing", conclusion(r))
<1>1. conclusion(r) \in Phase
  BY DEF conclusion, Phase, Settled, RunsTypeOK
<1> QED BY <1>1 DEF AgentEnd, goTo, show, RunsTypeOK, Became, Stage, Launched, Live, Loop

LEMMA BecomesDone ==
  ASSUME RunsTypeOK, NEW r \in Run, Returns(r)
  PROVE  Became(r, "done", phase[r])
  BY DEF Returns, goTo, RunsTypeOK, Became, Stage

-----------------------------------------------------------------------------
(* What a handler of r may store: something of r, and nothing is on disk yet. *)

Stores(r) ==
  /\ memRun' \in [Run -> Phase] /\ events' \in [Run -> Waiting]
  /\ runQ' \in [Run -> Seq(Save)]
  /\ \A q \in Run \ {r} : memRun'[q] = memRun[q] /\ events'[q] = events[q] /\ runQ'[q] = runQ[q]
  /\ checkQ' \in {checkQ, checkQ \cup {r}} /\ early' \in {early, early \cup {r}}
  /\ UNCHANGED <<diskRun, diskEvents, diskCheck, reloads, load, toMark, recovered, del, delWait>>
  /\ failures' \in Nat /\ failures <= failures' /\ failures' + reloads <= MaxFaults

LEMMA RunStep ==
  ASSUME IInv, NEW r \in Run, r \notin Old, NEW s, NEW p, Became(r, s, p), Stores(r),
         s \in Live => stage[r] \in Live \cup {"creating"},
         s \in {"none", "resuming", "creating"} => stage[r] \in {"none", "resuming", "creating"},
         s \in {"none", "resuming"} => stage[r] \in {"none", "resuming"},
         Sane(r)'
  PROVE  IInv'
<1>1. TypeOK'
  BY DEF IInv, TypeOK, RecordsTypeOK, Became, Stores
<1>2. Alone(r)
  <2>1. failures' = 0 => failures = 0
    BY DEF Stores, IInv, TypeOK, RecordsTypeOK
  <2> QED BY <2>1 DEF Alone, Became, Stores
<1>3. RecoveryFits(r)'
  BY DEF RecoveryFits
<1>4. ASSUME del = "done", r \in delWait, r \notin early'
      PROVE  diskRun'[r] \in {"none", "interrupted"} /\ r \notin diskCheck'
  <2>1. r \notin early
    BY <1>4 DEF Stores
  <2> QED BY <1>4, <2>1 DEF Stores, IInv, WaitFits
<1> QED BY <1>1, <1>2, <1>3, <1>4, OneRun

\* A handler that stores nothing.
LEMMA QuietStep ==
  ASSUME IInv, NEW r \in Run, r \notin Old, NEW s, NEW p, Became(r, s, p),
         UNCHANGED <<records, early>>, elsewhere,
         \/ stage[r] \in {"none", "resuming"} /\ s = "creating" /\ p = "preparing"
         \/ stage[r] \in {"none", "resuming"} /\ s \in {"none", "resuming"} /\ p = phase[r]
         \/ stage[r] = "creating" /\ s = "opening" /\ p = phase[r]
         \/ stage[r] = "creating" /\ s = "rejected" /\ p = "failed"
         \/ stage[r] \in {"opening", "compacting"} /\ s \in {"compacting", "storing"} /\ p = phase[r]
         \/ stage[r] = "between" /\ s = "model" /\ p = phase[r]
         \/ stage[r] = "flushing" /\ s = "done" /\ p = phase[r] /\ Written(r)
  PROVE  IInv'
<1>1. ShownFits(r) /\ StoredFits(r) /\ TracedFits(r) /\ DiskFits(r)
  BY DEF IInv
<1>2. TypeOK /\ RecordsTypeOK
  BY DEF IInv, TypeOK
<1>3. Stores(r)
  BY <1>2 DEF Stores, records, elsewhere, page, deletion, RecordsTypeOK
<1>4. saving(r)' = saving(r)
  BY DEF saving, records
<1>5. stage'[r] = s /\ phase'[r] = p
  BY DEF Became
<1>6. runQ[r] = <<>> => saving(r) = {}
  BY NothingSaving
<1>7. ShownFits(r)'
  BY <1>1, <1>5 DEF ShownFits
<1>8. StoredFits(r)'
  <2>1. CASE s = "done" /\ Written(r)
    BY <1>1, <1>4, <1>5, <1>6, <2>1 DEF StoredFits, records, Loop, Written
  <2>2. CASE s # "done"
    BY <1>1, <1>4, <1>5, <2>2 DEF StoredFits, records, elsewhere, page, Loop
  <2> QED BY <2>1, <2>2
<1>9. TracedFits(r)'
  BY <1>1, <1>5 DEF TracedFits, records, elsewhere, deletion, Loop, Written
<1>10. DiskFits(r)'
  BY <1>1, <1>4, <1>5, <1>6 DEF DiskFits, ShownFits, StoredFits, records, elsewhere, page, Settled
<1>11. /\ s \in Live => stage[r] \in Live \cup {"creating"}
       /\ s \in {"none", "resuming", "creating"} => stage[r] \in {"none", "resuming", "creating"}
       /\ s \in {"none", "resuming"} => stage[r] \in {"none", "resuming"}
  BY DEF Live, Loop
<1> QED BY <1>3, <1>7, <1>8, <1>9, <1>10, <1>11, RunStep DEF Sane

-----------------------------------------------------------------------------
(* The handlers of a run. *)

LEMMA SaveTypes ==
  /\ save("planning", "run") \in Save /\ save("cancelled", "run") \in Save
  /\ save("interrupted", "load") \in Save
  /\ \A p \in Phase \ {"none"} : save(p, "run") \in Save
  BY DEF save, Save, Phase, Active, Settled

LEMMA LaunchKeeps ==
  ASSUME IInv, NEW r \in Run,
         \/ Launch(r) \/ Quiet(ResumeLaunches(r)) \/ Quiet(DriverCreated(r))
  PROVE  IInv'
<1>1. RunsTypeOK /\ ShownFits(r)
  BY DEF IInv, TypeOK
<1>2. CASE Quiet(Submit(r))
  <2>1. Became(r, "creating", "preparing") /\ stage[r] = "none" /\ r \notin Old
    BY <1>1, <1>2, BecomesLaunched DEF Quiet, Submit, fresh
  <2> QED BY <2>1, <1>2, QuietStep DEF Quiet
<1>3. CASE Quiet(Resume(r))
  <2>1. Became(r, "resuming", phase[r]) /\ stage[r] = "none" /\ r \notin Old
    BY <1>1, <1>3, BecomesResuming DEF Quiet, Resume, fresh
  <2> QED BY <2>1, <1>3, QuietStep DEF Quiet
<1>4. CASE Quiet(ResumeFails(r))
  <2>1. Became(r, "none", phase[r]) /\ stage[r] = "resuming" /\ r \notin Old
    BY <1>1, <1>4, BecomesUnresumed DEF Quiet, ResumeFails, ShownFits
  <2> QED BY <2>1, <1>4, QuietStep DEF Quiet
<1>5. CASE Quiet(DriverFails(r))
  <2>1. Became(r, "rejected", "failed") /\ stage[r] = "creating" /\ r \notin Old
    BY <1>1, <1>5, BecomesFailed DEF Quiet, DriverFails, ShownFits
  <2> QED BY <2>1, <1>5, QuietStep DEF Quiet
<1>6. CASE Quiet(ResumeLaunches(r))
  <2>1. Became(r, "creating", "preparing") /\ stage[r] = "resuming" /\ r \notin Old
    BY <1>1, <1>6, BecomesLaunched DEF Quiet, ResumeLaunches, ShownFits
  <2> QED BY <2>1, <1>6, QuietStep DEF Quiet
<1>7. CASE Quiet(DriverCreated(r))
  <2>1. Became(r, "opening", phase[r]) /\ stage[r] = "creating" /\ r \notin Old
    BY <1>1, <1>7, BecomesOpening DEF Quiet, DriverCreated, ShownFits
  <2> QED BY <2>1, <1>7, QuietStep DEF Quiet
<1> QED BY <1>2, <1>3, <1>4, <1>5, <1>6, <1>7 DEF Launch, Quiet

\* The settlement of a run that was stopped before its loop began.
LEMMA UnstartedKeeps ==
  ASSUME IInv, NEW r \in Run, stage[r] \in {"opening", "compacting"},
         Became(r, "done", "cancelled"), RecordedUnstarted(r), early' = early \cup {r},
         UNCHANGED <<checkQ, disk>>, elsewhere
  PROVE  IInv'
<1>1. ShownFits(r) /\ StoredFits(r) /\ DiskFits(r) /\ TypeOK /\ RecordsTypeOK
  BY DEF IInv, TypeOK
<1> DEFINE a == save("planning", "run")
           b == save("cancelled", "run")
           s == runQ[r]
<1>2. a \in Save /\ b \in Save /\ s \in Seq(Save) /\ Len(s) \in Nat /\ runQ \in [Run -> Seq(Save)]
  BY <1>1, SaveTypes DEF RecordsTypeOK
<1>3. runQ' = [runQ EXCEPT ![r] = s \o <<a, b>>]
  BY DEF RecordedUnstarted
<1>4. a.phase = "planning" /\ a.by = "run" /\ b.phase = "cancelled" /\ b.by = "run"
  BY DEF save
<1> HIDE DEF a, b, s
<1>5. s \o <<a, b>> \in Seq(Save) /\ Len(s \o <<a, b>>) = Len(s) + 2
      /\ \A i \in 1..Len(s) + 2 :
           (s \o <<a, b>>)[i] = IF i <= Len(s) THEN s[i] ELSE <<a, b>>[i - Len(s)]
  <2>1. <<a, b>> \in Seq(Save) /\ Len(<<a, b>>) = 2
    BY <1>2
  <2> QED BY <2>1, <1>2, ConcatProperties
<1>6. \A i \in 1..Len(s) + 2 :
        \/ \E j \in 1..Len(s) : (s \o <<a, b>>)[i] = s[j]
        \/ (s \o <<a, b>>)[i] \in {a, b}
  <2> SUFFICES ASSUME NEW i \in 1..Len(s) + 2, ~(i <= Len(s))
               PROVE (s \o <<a, b>>)[i] \in {a, b}
    BY <1>2, <1>5
  <2>1. i - Len(s) \in {1, 2}
    BY <1>2
  <2> QED BY <2>1, <1>5
<1>7. saving(r)' \subseteq saving(r) \cup {a, b}
  <2>1. runQ'[r] = s \o <<a, b>>
    BY <1>2, <1>3
  <2> QED BY <2>1, <1>5, <1>6 DEF saving, s
<1>8. Stores(r)
  <2>1. runQ' \in [Run -> Seq(Save)] /\ \A q \in Run \ {r} : runQ'[q] = runQ[q]
    BY <1>2, <1>3, <1>5
  <2>2. memRun' \in [Run -> Phase] /\ events' \in [Run -> Waiting]
    BY <1>1 DEF RecordedUnstarted, RecordsTypeOK, Phase, Settled, Waiting
  <2> QED BY <2>1, <2>2, <1>1
          DEF RecordedUnstarted, Stores, RecordsTypeOK, disk, elsewhere, page, deletion
<1>9. r \notin Old /\ phase[r] = "preparing"
  BY <1>1 DEF ShownFits
<1>10. ShownFits(r)' /\ TracedFits(r)'
  BY <1>9 DEF ShownFits, TracedFits, Became
<1>11. StoredFits(r)'
  BY <1>1, <1>4, <1>7 DEF StoredFits, Became
<1>12. DiskFits(r)'
  BY <1>1, <1>4, <1>7, <1>9 DEF DiskFits, Became, disk, Settled
<1> QED BY <1>8, <1>9, <1>10, <1>11, <1>12, RunStep DEF Sane, Live, Loop

LEMMA ChecksKeep ==
  ASSUME IInv, NEW r \in Run,
         Checks(r, "opening", "compacting") \/ Checks(r, "compacting", "storing")
  PROVE  IInv'
<1> PICK from \in {"opening", "compacting"}, to \in {"compacting", "storing"} : Checks(r, from, to)
  OBVIOUS
<1>1. RunsTypeOK /\ ShownFits(r) /\ stage[r] = from /\ to \in Stage /\ r \notin Old
  BY DEF IInv, TypeOK, ShownFits, Checks, Passes, Stage, Launched, Live
<1>2. CASE aborted[r]
  <2>1. Became(r, "done", "cancelled")
    BY <1>1, <1>2, BecomesPassed DEF Checks
  <2> QED BY <2>1, <1>1, <1>2, UnstartedKeeps DEF Checks
<1>3. CASE ~aborted[r]
  <2>1. Became(r, to, phase[r])
    BY <1>1, <1>3, BecomesPassed DEF Checks
  <2>2. UNCHANGED <<records, early>> /\ elsewhere
    BY <1>3 DEF Checks, records, disk
  <2> QED BY <2>1, <2>2, <1>1, QuietStep
<1> QED BY <1>2, <1>3

LEMMA BeginsKeeps ==
  ASSUME IInv, NEW r \in Run, Begins(r)
  PROVE  IInv'
<1>1. ShownFits(r) /\ StoredFits(r) /\ DiskFits(r) /\ TypeOK /\ RunsTypeOK /\ RecordsTypeOK
  BY DEF IInv, TypeOK
<1>2. Became(r, "model", "planning") /\ stage[r] = "storing" /\ r \notin Old /\ phase[r] = "preparing"
  BY <1>1, BecomesStarted DEF Begins, Starts, ShownFits
<1> DEFINE w == save("planning", "run")
<1>3. w \in Save /\ w.phase = "planning" /\ w.by = "run"
  BY SaveTypes DEF save
<1>4. runQ' = [runQ EXCEPT ![r] = Append(@, w)]
  BY DEF Begins, RecordedStart
<1> HIDE DEF w
<1>5. /\ runQ' \in [Run -> Seq(Save)] /\ runQ'[r] # <<>> /\ saving(r)' = saving(r) \cup {w}
      /\ \A q \in Run \ {r} : runQ'[q] = runQ[q]
  BY <1>1, <1>3, <1>4, SavingAppended
<1>6. Stores(r)
  <2>1. memRun' \in [Run -> Phase] /\ events' \in [Run -> Waiting]
    BY <1>1 DEF Begins, RecordedStart, RecordsTypeOK, Phase, Active, Waiting
  <2> QED BY <2>1, <1>1, <1>5
          DEF Begins, RecordedStart, Stores, RecordsTypeOK, disk, elsewhere, page, deletion
<1>7. ShownFits(r)' /\ TracedFits(r)'
  <2>1. events'[r] = "started"
    BY <1>1 DEF Begins, RecordedStart, RecordsTypeOK
  <2>2. ShownFits(r)'
    BY <1>1, <1>2 DEF ShownFits, Became, Begins
  <2> QED BY <2>1, <2>2, <1>2, <1>5 DEF TracedFits, Became
<1>8. StoredFits(r)'
  BY <1>1, <1>2, <1>3, <1>5 DEF StoredFits, Became, Loop
<1>9. DiskFits(r)'
  BY <1>1, <1>2, <1>3, <1>5 DEF DiskFits, Became, Begins, disk, Settled
<1> QED BY <1>2, <1>6, <1>7, <1>8, <1>9, RunStep DEF Sane, Live, Loop

LEMMA StoreFailsKeeps ==
  ASSUME IInv, NEW r \in Run, StoreFails(r)
  PROVE  IInv'
<1>1. ShownFits(r) /\ StoredFits(r) /\ DiskFits(r) /\ TypeOK /\ RunsTypeOK /\ RecordsTypeOK
  BY DEF IInv, TypeOK
<1>2. Became(r, "rejected", phase[r]) /\ stage[r] = "storing" /\ r \notin Old
  BY <1>1, BecomesRejected DEF StoreFails, Throws, ShownFits
<1>3. Stores(r) /\ failures' # 0
  BY <1>1, RecordsAssumption
     DEF StoreFails, Rejected, Stores, RecordsTypeOK, elsewhere, page, deletion
<1>4. saving(r)' = saving(r)
  BY DEF saving, StoreFails
<1>5. ShownFits(r)' /\ TracedFits(r)'
  BY <1>1, <1>2, <1>3 DEF ShownFits, TracedFits, Became, StoreFails
<1>6. StoredFits(r)' /\ DiskFits(r)'
  BY <1>1, <1>2, <1>4
     DEF StoredFits, DiskFits, Became, StoreFails, Loop, elsewhere, page
<1> QED BY <1>2, <1>3, <1>5, <1>6, RunStep DEF Sane, Live, Loop

\* A handler of the loop: it may set a phase, once, and leaves events.
LEMMA LoopStep ==
  ASSUME IInv, NEW r \in Run, NEW s, NEW p, Became(r, s, p),
         stage[r] \in {"model", "tools", "ending"}, s \in {"tools", "between", "ending", "flushing"},
         s \in {"tools", "between"} => p = "planning",
         s = "ending" => p \in {"planning", "cancelled", "failed"},
         s = "flushing" => p \in {"cancelled", "failed", "awaiting_user", "completed"},
         p = phase[r] \/ phase[r] = "planning",
         RecordedPhase(r, p), RecordedEvents(r) \/ UNCHANGED events,
         checkQ' = checkQ \cup {r} \/ (checkQ' = checkQ /\ (s = "tools" \/ stage[r] = "ending")),
         UNCHANGED <<disk, early>>, elsewhere
  PROVE  IInv'
<1>1. ShownFits(r) /\ StoredFits(r) /\ TracedFits(r) /\ DiskFits(r) /\ TypeOK /\ RecordsTypeOK
  BY DEF IInv, TypeOK
<1>2. r \notin Old /\ p \in Phase \ {"none"}
  BY <1>1 DEF ShownFits, Phase, Active, Settled
<1>3. /\ memRun' \in [Run -> Phase] /\ runQ' \in [Run -> Seq(Save)]
      /\ \A q \in Run \ {r} : memRun'[q] = memRun[q] /\ runQ'[q] = runQ[q]
      /\ runQ[r] # <<>> => runQ'[r] # <<>>
      /\ p = phase[r] => saving(r)' = saving(r)
      /\ p # phase[r] => saving(r)' = saving(r) \cup {save(p, "run")}
  <2>1. CASE p = phase[r]
    BY <1>1, <2>1 DEF RecordedPhase, RecordsTypeOK, saving
  <2>2. CASE p # phase[r]
    <3>1. save(p, "run") \in Save /\ runQ' = [runQ EXCEPT ![r] = Append(@, save(p, "run"))]
      BY <1>2, <2>2, SaveTypes DEF RecordedPhase
    <3>2. memRun' = [memRun EXCEPT ![r] = p]
      BY <2>2 DEF RecordedPhase
    <3> QED BY <3>1, <3>2, <1>1, <1>2, <2>2, SavingAppended DEF RecordsTypeOK
  <2> QED BY <2>1, <2>2
<1>4. /\ events' \in [Run -> Waiting] /\ \A q \in Run \ {r} : events'[q] = events[q]
      /\ events[r] # "none" => events'[r] # "none"
  BY <1>1 DEF RecordedEvents, RecordsTypeOK, Waiting
<1>5. Stores(r)
  BY <1>1, <1>3, <1>4 DEF Stores, RecordsTypeOK, disk, elsewhere, page, deletion
<1>6. stage'[r] = s /\ phase'[r] = p
  BY DEF Became
<1>7. ShownFits(r)'
  BY <1>1, <1>2, <1>6 DEF ShownFits
<1>8. StoredFits(r)'
  BY <1>1, <1>3, <1>6 DEF StoredFits, Loop, save
<1>9. TracedFits(r)'
  BY <1>1, <1>3, <1>4, <1>6 DEF TracedFits, Loop, disk, elsewhere, deletion
<1>10. DiskFits(r)'
  BY <1>1, <1>2, <1>3, <1>6 DEF DiskFits, disk, elsewhere, page, save, Settled
<1> QED BY <1>2, <1>5, <1>7, <1>8, <1>9, <1>10, RunStep DEF Sane, Live, Loop

LEMMA LoopKeeps ==
  ASSUME IInv, NEW r \in Run,
         \/ Answers(r) \/ LastAnswer(r)
         \/ \E reason \in {"aborted", "error"} : Breaks(r, reason)
         \/ \E s \in {"none", "completed", "awaiting_user"} : ToolsOver(r, s)
         \/ Ends(r)
  PROVE  IInv'
<1>1. RunsTypeOK /\ ShownFits(r)
  BY DEF IInv, TypeOK
<1>2. CASE Answers(r)
  <2>1. Became(r, "tools", phase[r]) /\ stage[r] = "model" /\ phase[r] = "planning"
    BY <1>1, <1>2, BecomesTools DEF Answers, ModelCallsTools, ShownFits
  <2> QED BY <2>1, <1>2, LoopStep DEF Answers, RecordedPhase
<1>3. CASE LastAnswer(r)
  <2>1. /\ Became(r, "between", phase[r]) \/ Became(r, "ending", phase[r])
        /\ stage[r] = "model" /\ phase[r] = "planning"
    BY <1>1, <1>3, BecomesStopped DEF LastAnswer, ModelStops, ShownFits
  <2> QED BY <2>1, <1>3, LoopStep DEF LastAnswer, TurnStored, RecordedPhase
<1>4. CASE \E reason \in {"aborted", "error"} : Breaks(r, reason)
  <2>1. PICK reason \in {"aborted", "error"} : Breaks(r, reason)
    BY <1>4
  <2>2. /\ Became(r, "ending", broken(r, reason)) /\ broken(r, reason) \in {"cancelled", "failed"}
        /\ stage[r] = "model" /\ phase[r] = "planning"
    BY <1>1, <2>1, BecomesBroken DEF Breaks, ModelBreaks, ShownFits
  <2> QED BY <2>1, <2>2, LoopStep DEF Breaks, TurnStored
<1>5. CASE \E s \in {"none", "completed", "awaiting_user"} : ToolsOver(r, s)
  <2>1. PICK s \in {"none", "completed", "awaiting_user"} : ToolsOver(r, s)
    BY <1>5
  <2>2. /\ Became(r, "between", phase[r]) \/ Became(r, "ending", phase[r])
        /\ stage[r] = "tools" /\ phase[r] = "planning"
    BY <1>1, <2>1, BecomesTurned DEF ToolsOver, ToolsEnd, ShownFits
  <2> QED BY <2>1, <2>2, LoopStep DEF ToolsOver, TurnStored, RecordedPhase
<1>6. CASE Ends(r)
  <2>1. Became(r, "flushing", conclusion(r)) /\ stage[r] = "ending"
    BY <1>1, <1>6, BecomesEnded DEF Ends, AgentEnd
  <2>2. /\ conclusion(r) \in {"cancelled", "failed", "awaiting_user", "completed"}
        /\ conclusion(r) = phase[r] \/ phase[r] = "planning"
    BY <1>1, <2>1 DEF conclusion, ShownFits
  <2> QED BY <2>1, <2>2, <1>6, LoopStep DEF Ends
<1> QED BY <1>2, <1>3, <1>4, <1>5, <1>6

\* compactForNextTurn and prompt, after they waited.
LEMMA WaitedKeeps ==
  ASSUME IInv, NEW r \in Run, Continues(r) \/ Flushed(r)
  PROVE  IInv'
<1>1. RunsTypeOK /\ ShownFits(r)
  BY DEF IInv, TypeOK
<1>2. CASE Continues(r)
  <2>1. Became(r, "model", phase[r]) /\ stage[r] = "between" /\ r \notin Old
    BY <1>1, <1>2, BecomesNext DEF Continues, Quiet, NextTurn, ShownFits
  <2> QED BY <2>1, <1>2, QuietStep DEF Continues, Quiet
<1>3. CASE Flushed(r)
  <2>1. Became(r, "done", phase[r]) /\ stage[r] = "flushing" /\ r \notin Old
    BY <1>1, <1>3, BecomesDone DEF Flushed, Quiet, Returns, ShownFits
  <2> QED BY <2>1, <1>3, QuietStep DEF Flushed, Quiet
<1> QED BY <1>2, <1>3

-----------------------------------------------------------------------------
(* The writes of a run, and the marks of the recovery. *)

LEMMA EventLandsKeeps ==
  ASSUME IInv, NEW r \in Run, EventLands(r)
  PROVE  IInv'
<1>1. ShownFits(r) /\ StoredFits(r) /\ TracedFits(r) /\ DiskFits(r) /\ TypeOK /\ RecordsTypeOK
  BY DEF IInv, TypeOK
<1>2. r \notin Old
  BY <1>1 DEF EventLands, LandEvent, ShownFits, StoredFits, Loop
<1> DEFINE w == save("planning", "run")
<1>3. w \in Save /\ w.phase = "planning" /\ w.by = "run"
  BY SaveTypes DEF save
<1>4. /\ runQ' \in [Run -> Seq(Save)] /\ \A q \in Run \ {r} : runQ'[q] = runQ[q]
      /\ saving(r)' \subseteq saving(r) \cup {w}
      /\ runQ[r] # <<>> => runQ'[r] # <<>>
  <2>1. CASE events[r] = "started"
    BY <2>1, <1>1, <1>3, SavingAppended DEF EventLands, LandEvent
  <2>2. CASE events[r] # "started"
    BY <2>2, <1>1 DEF EventLands, LandEvent, RecordsTypeOK, saving
  <2> QED BY <2>1, <2>2
<1>5. events' \in [Run -> Waiting] /\ \A q \in Run \ {r} : events'[q] = events[q]
  BY <1>1 DEF EventLands, LandEvent, RecordsTypeOK, Waiting
<1>6. UNCHANGED <<runs, early, page, deletion, memRun, checkQ, diskRun, diskCheck, failures, reloads>>
  BY DEF EventLands, LandEvent, untouched
<1>7. diskEvents' = diskEvents \cup {r}
  BY DEF EventLands, LandEvent
<1> HIDE DEF w
<1>8. TypeOK'
  BY <1>1, <1>4, <1>5, <1>6, <1>7
     DEF TypeOK, RunsTypeOK, RecordsTypeOK, runs, page, deletion
<1>9. Alone(r)
  BY <1>4, <1>5, <1>6, <1>7 DEF Alone, runs, page, deletion
<1>10. Sane(r)'
  <2>1. ShownFits(r)'
    BY <1>1, <1>6 DEF ShownFits, runs
  <2>2. StoredFits(r)'
    BY <1>1, <1>3, <1>4, <1>5, <1>6
       DEF EventLands, LandEvent, ShownFits, StoredFits, RecordsTypeOK, runs, page, Loop
  <2>3. TracedFits(r)'
    BY <1>1, <1>4, <1>6, <1>7 DEF TracedFits, runs, deletion
  <2>4. DiskFits(r)'
    BY <1>1, <1>3, <1>4, <1>6 DEF DiskFits, runs, page, Settled
  <2> QED BY <2>1, <2>2, <2>3, <2>4 DEF Sane
<1>11. RecoveryFits(r)'
  BY <1>2 DEF RecoveryFits
<1>12. del = "done" /\ r \in delWait /\ r \notin early' =>
         diskRun'[r] \in {"none", "interrupted"} /\ r \notin diskCheck'
  BY <1>6 DEF IInv, WaitFits
<1> QED BY <1>8, <1>9, <1>10, <1>11, <1>12, OneRun

LEMMA RunLandsKeeps ==
  ASSUME IInv, NEW r \in Run, RunLands(r)
  PROVE  IInv'
<1>1. /\ ShownFits(r) /\ StoredFits(r) /\ TracedFits(r) /\ DiskFits(r) /\ RecoveryFits(r)
      /\ WaitFits /\ TypeOK /\ RecordsTypeOK
  BY DEF IInv, TypeOK
<1>2. PICK w : w = Head(runQ[r])
  OBVIOUS
<1>3. /\ runQ' \in [Run -> Seq(Save)] /\ \A q \in Run \ {r} : runQ'[q] = runQ[q]
      /\ saving(r)' \subseteq saving(r) /\ w \in saving(r) /\ w \in Save
  BY <1>1, <1>2, SavingDone DEF RunLands, LandRun
<1>4. w.phase \in Phase /\ w.phase # "none"
  BY <1>3 DEF Save
<1>5. diskRun' \in [Run -> Phase] /\ diskRun'[r] = w.phase /\ \A q \in Run \ {r} : diskRun'[q] = diskRun[q]
  BY <1>1, <1>2, <1>4 DEF RunLands, LandRun, RecordsTypeOK
<1>6. UNCHANGED <<runs, early, page, deletion, memRun, events, checkQ, diskEvents, diskCheck, failures,
                  reloads>>
  BY DEF RunLands, LandRun, untouched
<1>7. runQ[r] # <<>>
  BY DEF RunLands, LandRun
<1>8. TypeOK'
  BY <1>1, <1>3, <1>5, <1>6 DEF TypeOK, RunsTypeOK, RecordsTypeOK, runs, page, deletion
<1>9. Alone(r)
  BY <1>3, <1>5, <1>6 DEF Alone, runs, page, deletion
<1>10. Sane(r)'
  <2>1. ShownFits(r)'
    BY <1>1, <1>6 DEF ShownFits, runs
  <2>2. StoredFits(r)'
    BY <1>1, <1>3, <1>6, <1>7 DEF StoredFits, runs, page
  <2>3. TracedFits(r)'
    BY <1>1, <1>4, <1>5, <1>6 DEF TracedFits, runs, deletion
  <2>4. DiskFits(r)'
    BY <1>1, <1>3, <1>5, <1>6 DEF DiskFits, runs, page
  <2> QED BY <2>1, <2>2, <2>3, <2>4 DEF Sane
<1>11. ASSUME stage[r] \notin Loop \cup {"flushing"}, r \notin early PROVE w.phase = "interrupted"
  BY <1>1, <1>3, <1>11 DEF StoredFits
<1>12. RecoveryFits(r)'
  <2> SUFFICES ASSUME r \in Old, quiet' PROVE RecoveryFits(r)'
    BY DEF RecoveryFits
  <2>1. quiet
    BY <1>6 DEF quiet, runs
  <2>2. w.phase = "interrupted"
    BY <1>1, <1>11 DEF ShownFits, Loop
  <2> QED BY <1>1, <1>5, <1>6, <1>7, <2>1, <2>2 DEF RecoveryFits, page, Active
<1>13. del = "done" /\ r \in delWait /\ r \notin early' =>
         diskRun'[r] \in {"none", "interrupted"} /\ r \notin diskCheck'
  <2> SUFFICES ASSUME del = "done", r \in delWait, r \notin early
               PROVE  diskRun'[r] \in {"none", "interrupted"} /\ r \notin diskCheck
    BY <1>6
  <2>1. r \notin executions
    BY <1>1 DEF WaitFits
  <2>2. stage[r] \notin Loop \cup {"flushing"}
    BY <2>1 DEF executions, Live
  <2> QED BY <1>1, <1>5, <1>11, <2>2 DEF WaitFits
<1> QED BY <1>8, <1>9, <1>10, <1>12, <1>13, OneRun

LEMMA CheckpointLandsKeeps ==
  ASSUME IInv, NEW r \in Run, CheckpointLands(r)
  PROVE  IInv'
<1>1. /\ ShownFits(r) /\ StoredFits(r) /\ TracedFits(r) /\ DiskFits(r)
      /\ WaitFits /\ TypeOK /\ RecordsTypeOK
  BY DEF IInv, TypeOK
<1>2. r \notin Old
  BY <1>1 DEF CheckpointLands, LandCheckpoint, ShownFits, StoredFits, Loop
<1>3. UNCHANGED <<runs, early, page, deletion, memRun, events, runQ, diskRun, diskEvents, failures, reloads>>
  BY DEF CheckpointLands, LandCheckpoint, untouched
<1>4. r \in checkQ /\ checkQ' = checkQ \ {r} /\ diskCheck' = diskCheck \cup {r}
  BY DEF CheckpointLands, LandCheckpoint
<1>5. saving(r)' = saving(r)
  BY <1>3 DEF saving
<1>6. TypeOK'
  BY <1>1, <1>3, <1>4 DEF TypeOK, RunsTypeOK, RecordsTypeOK, runs, page, deletion
<1>7. Alone(r)
  BY <1>3, <1>4 DEF Alone, runs, page, deletion
<1>8. Sane(r)'
  <2>1. ShownFits(r)' /\ DiskFits(r)'
    BY <1>1, <1>3, <1>5 DEF ShownFits, DiskFits, runs, page
  <2>2. StoredFits(r)'
    BY <1>1, <1>3, <1>4, <1>5 DEF StoredFits, runs, page
  <2>3. TracedFits(r)'
    BY <1>1, <1>3, <1>4 DEF TracedFits, runs, deletion
  <2> QED BY <2>1, <2>2, <2>3 DEF Sane
<1>9. RecoveryFits(r)'
  BY <1>2 DEF RecoveryFits
<1>10. ASSUME del = "done", r \in delWait, r \notin early' PROVE FALSE
  <2>1. stage[r] \notin Loop \cup {"flushing"}
    BY <1>1, <1>10 DEF WaitFits, executions, Live
  <2> QED BY <1>1, <1>3, <1>4, <1>10, <2>1 DEF StoredFits
<1> QED BY <1>6, <1>7, <1>8, <1>9, <1>10, OneRun

\* A rejected write: what was promised of a page without failures ends.
LEMMA LostKeeps ==
  ASSUME IInv, NEW r \in Run, Rejected,
         stage' = stage /\ phase' = phase /\ memRun' = memRun /\ early' = early,
         UNCHANGED <<aborted, told, order, stop, steered, guides>>,
         UNCHANGED <<diskRun, diskEvents, diskCheck, del, delWait, recovered>>,
         runQ' \in [Run -> Seq(Save)], saving(r)' \subseteq saving(r),
         runQ[r] = <<>> => runQ'[r] = <<>>,
         events' \in [Run -> Waiting], events[r] = "none" => events'[r] = "none",
         \A q \in Run \ {r} : runQ'[q] = runQ[q] /\ events'[q] = events[q],
         checkQ' \in {checkQ, checkQ \ {r}},
         load' \in {load, "idle"}, toMark' \in {toMark, {}}
  PROVE  IInv'
<1>1. ShownFits(r) /\ StoredFits(r) /\ DiskFits(r) /\ WaitFits /\ TypeOK /\ RecordsTypeOK
  BY DEF IInv, TypeOK
<1>2. failures' \in Nat /\ failures' # 0 /\ reloads' = reloads /\ failures' + reloads' <= MaxFaults
  BY <1>1, RecordsAssumption DEF Rejected, RecordsTypeOK
<1>3. TypeOK'
  BY <1>1, <1>2 DEF TypeOK, RunsTypeOK, RecordsTypeOK
<1>4. Alone(r)
  BY <1>2 DEF Alone
<1>5. Sane(r)'
  BY <1>1, <1>2 DEF Sane, ShownFits, StoredFits, TracedFits, DiskFits
<1>6. RecoveryFits(r)'
  BY <1>2 DEF RecoveryFits, quiet
<1>7. del = "done" /\ r \in delWait /\ r \notin early' =>
        diskRun'[r] \in {"none", "interrupted"} /\ r \notin diskCheck'
  BY <1>1 DEF WaitFits
<1> QED BY <1>3, <1>4, <1>5, <1>6, <1>7, OneRun

LEMMA LossesKeep ==
  ASSUME IInv, NEW r \in Run,
         \/ LoseEvent(r) /\ untouched
         \/ LoseCheckpoint(r) /\ untouched
         \/ SaveLost(r)
  PROVE  IInv'
<1>1. TypeOK /\ RecordsTypeOK
  BY DEF IInv, TypeOK
<1>2. CASE LoseEvent(r) /\ untouched
  <2>1. events' \in [Run -> Waiting] /\ events'[r] = "none" /\ \A q \in Run \ {r} : events'[q] = events[q]
    BY <1>1, <1>2 DEF LoseEvent, RecordsTypeOK, Waiting
  <2>2. runQ' \in [Run -> Seq(Save)] /\ saving(r)' = saving(r) /\ runQ' = runQ
    BY <1>1, <1>2 DEF LoseEvent, RecordsTypeOK, saving
  <2> QED BY <2>1, <2>2, <1>2, LostKeeps
          DEF LoseEvent, untouched, runs, page, deletion
<1>3. CASE LoseCheckpoint(r) /\ untouched
  <2>1. runQ' \in [Run -> Seq(Save)] /\ saving(r)' = saving(r) /\ runQ' = runQ
        /\ events' \in [Run -> Waiting] /\ events' = events
    BY <1>1, <1>3 DEF LoseCheckpoint, RecordsTypeOK, saving
  <2> QED BY <2>1, <1>3, LostKeeps
          DEF LoseCheckpoint, untouched, runs, page, deletion
<1>4. CASE SaveLost(r)
  <2>1. /\ runQ' \in [Run -> Seq(Save)] /\ saving(r)' \subseteq saving(r) /\ runQ[r] # <<>>
        /\ \A q \in Run \ {r} : runQ'[q] = runQ[q]
        /\ events' \in [Run -> Waiting] /\ events' = events
    BY <1>1, <1>4, SavingDone DEF SaveLost, LoseRun, RecordsTypeOK
  <2> QED BY <2>1, <1>4, LostKeeps
          DEF SaveLost, LoseRun, runs, deletion
<1> QED BY <1>2, <1>3, <1>4

LEMMA MarkKeeps ==
  ASSUME IInv, NEW r \in Run, MarkNext(r)
  PROVE  IInv'
<1>1. /\ ShownFits(r) /\ StoredFits(r) /\ TracedFits(r) /\ DiskFits(r) /\ RecoveryFits(r)
      /\ WaitFits /\ TypeOK /\ RecordsTypeOK
  BY DEF IInv, TypeOK
<1> DEFINE w == save("interrupted", "load")
<1>2. w \in Save /\ w.phase = "interrupted" /\ w.by = "load"
  BY SaveTypes DEF save
<1>3. runQ' = [runQ EXCEPT ![r] = Append(@, w)]
  BY DEF MarkNext
<1> HIDE DEF w
<1>4. /\ runQ' \in [Run -> Seq(Save)] /\ runQ'[r] # <<>> /\ saving(r)' = saving(r) \cup {w}
      /\ \A q \in Run \ {r} : runQ'[q] = runQ[q]
  BY <1>1, <1>2, <1>3, SavingAppended
<1>5. /\ memRun' \in [Run -> Phase] /\ memRun'[r] = "interrupted"
      /\ \A q \in Run \ {r} : memRun'[q] = memRun[q]
      /\ toMark' = toMark \ {r} /\ r \in toMark /\ load = "marking"
  BY <1>1 DEF MarkNext, RecordsTypeOK, Phase
<1>6. UNCHANGED <<runs, events, checkQ, disk, early, load, recovered, deletion>>
  BY DEF MarkNext
<1>7. TypeOK'
  BY <1>1, <1>4, <1>5, <1>6 DEF TypeOK, RunsTypeOK, RecordsTypeOK, runs, disk, deletion
<1>8. Alone(r)
  BY <1>4, <1>5, <1>6 DEF Alone, runs, disk, deletion
<1>9. Sane(r)'
  <2>1. ShownFits(r)'
    BY <1>1, <1>6 DEF ShownFits, runs
  <2>2. StoredFits(r)'
    BY <1>1, <1>2, <1>4, <1>5, <1>6 DEF StoredFits, runs
  <2>3. TracedFits(r)'
    BY <1>1, <1>4, <1>6 DEF TracedFits, runs, disk, deletion
  <2>4. DiskFits(r)'
    BY <1>1, <1>2, <1>4, <1>5, <1>6 DEF DiskFits, runs, disk, Settled
  <2> QED BY <2>1, <2>2, <2>3, <2>4 DEF Sane
<1>10. RecoveryFits(r)'
  <2>1. quiet' => quiet
    BY <1>6 DEF quiet, runs, disk
  <2> QED BY <2>1, <1>1, <1>4, <1>5, <1>6 DEF RecoveryFits
<1>11. del = "done" /\ r \in delWait /\ r \notin early' =>
         diskRun'[r] \in {"none", "interrupted"} /\ r \notin diskCheck'
  BY <1>1, <1>6 DEF WaitFits, disk
<1> QED BY <1>7, <1>8, <1>9, <1>10, <1>11, OneRun

-----------------------------------------------------------------------------
(* The steps that concern every run: the recovery, stopping, the deletion, *)
(* and the page.                                                           *)

\* What keeps disk and saves, and the runs where they are.
Settling == UNCHANGED <<stage, events, runQ, checkQ, disk, early, deletion>>

LEMMA ListedTyped ==
  ASSUME TypeOK
  PROVE  [r \in Run |-> listed(r)] \in [Run -> Phase]
  BY DEF TypeOK, RecordsTypeOK, listed

LEMMA LoadingKeeps ==
  ASSUME IInv, LoadEvents \/ LoadRuns \/ LoadRunsOnly \/ LoadDone
  PROVE  IInv'
<1>1. /\ TypeOK /\ RunsTypeOK /\ RecordsTypeOK /\ WaitFits
      /\ \A r \in Run : /\ ShownFits(r) /\ StoredFits(r) /\ TracedFits(r)
                        /\ DiskFits(r) /\ RecoveryFits(r)
  BY DEF IInv, TypeOK
<1>2. \A r \in Run : saving(r)' = saving(r)
  BY DEF saving, LoadEvents, LoadRuns, LoadRunsOnly, LoadDone, records
<1>3. Settling
  BY DEF LoadEvents, LoadRuns, LoadRunsOnly, LoadDone, Settling, Shows, runs, records, disk, deletion
<1>4. TypeOK'
  <2>1. /\ load' \in {"idle", "runs", "runsonly", "marking", "shown"}
        /\ toMark' \subseteq Run /\ recovered' \in BOOLEAN
    BY <1>1 DEF TypeOK, LoadEvents, LoadRuns, LoadRunsOnly, LoadDone
  <2>2. memRun' \in [Run -> Phase]
    BY <1>1, ListedTyped DEF RecordsTypeOK, LoadEvents, LoadRuns, LoadRunsOnly, LoadDone, records
  <2>3. phase' \in [Run -> Phase] /\ UNCHANGED <<aborted, told, order, stop, steered, guides>>
    BY <1>1, ListedTyped
       DEF RunsTypeOK, RecordsTypeOK, Shows, LoadEvents, LoadRuns, LoadRunsOnly, LoadDone, runs
  <2> QED BY <2>1, <2>2, <2>3, <1>1, <1>3
          DEF TypeOK, RunsTypeOK, RecordsTypeOK, Settling, disk, deletion
<1>5. ASSUME NEW r \in Run
      PROVE  /\ phase[r] # "none" => phase'[r] = phase[r]
             /\ phase[r] = "none" => phase'[r] \in {"none", memRun'[r]}
             /\ memRun'[r] = memRun[r] \/ (memRun[r] = "none" /\ memRun'[r] = diskRun[r])
             /\ r \in toMark' => r \in toMark \/ memRun'[r] \in Active
  <2>1. CASE LoadEvents
    BY <2>1 DEF LoadEvents, runs, records
  <2>2. CASE LoadRuns
    BY <2>2 DEF LoadRuns, runs, listed
  <2>3. CASE LoadRunsOnly
    BY <2>3 DEF LoadRunsOnly, Shows, listed
  <2>4. CASE LoadDone
    BY <2>4 DEF LoadDone, Shows, records
  <2> QED BY <2>1, <2>2, <2>3, <2>4
<1>6. ASSUME NEW r \in Run
      PROVE  ShownFits(r)' /\ StoredFits(r)' /\ TracedFits(r)' /\ DiskFits(r)'
  <2>1. ShownFits(r)'
    <3>1. stage[r] \in Live \cup {"creating"} => phase[r] # "none"
      BY <1>1 DEF ShownFits, Live, Loop
    <3> QED BY <3>1, <1>1, <1>3, <1>5 DEF ShownFits, Settling, Live, Loop
  <2>2. StoredFits(r)'
    BY <1>1, <1>2, <1>3, <1>5 DEF StoredFits, Settling, disk, Active
  <2>3. TracedFits(r)'
    BY <1>1, <1>3 DEF TracedFits, Settling, disk, deletion
  <2>4. DiskFits(r)'
    BY <1>1, <1>2, <1>3, <1>5 DEF DiskFits, Settling, disk, Settled, Active
  <2> QED BY <2>1, <2>2, <2>3, <2>4
<1>7. ASSUME NEW r \in Run PROVE RecoveryFits(r)'
  <2> SUFFICES ASSUME r \in Old, quiet' PROVE RecoveryFits(r)'
    BY DEF RecoveryFits
  <2>1. quiet
    BY <1>3 DEF quiet, Settling, disk
  <2>2. stage[r] = "none" /\ r \notin early
    BY <1>1 DEF ShownFits
  <2>3. CASE LoadEvents
    <3>1. executions = {}
      BY <2>1 DEF quiet, executions, Live, Loop
    <3> QED BY <2>1, <2>3, <3>1, <1>1 DEF RecoveryFits, LoadEvents, records
  <2>4. CASE LoadRuns
    <3>1. memRun[r] = "none" /\ memRun'[r] = diskRun[r] /\ recovered = FALSE
      BY <2>1, <2>4, <1>1 DEF RecoveryFits, LoadRuns, listed, TypeOK
    <3>2. diskRun[r] \notin Active \/ r \in toMark'
      BY <2>4, <3>1 DEF LoadRuns, listed
    <3> QED BY <2>4, <3>1, <3>2 DEF RecoveryFits, LoadRuns, disk
  <2>5. CASE LoadRunsOnly
    BY <2>1, <2>5, <1>1 DEF RecoveryFits, LoadRunsOnly
  <2>6. CASE LoadDone
    <3>1. runQ[r] = <<>>
      <4> SUFFICES ASSUME runQ[r] # <<>> PROVE FALSE
        OBVIOUS
      <4>1. PICK w \in saving(r) : TRUE
        BY <1>1, SomeSaving
      <4>2. w.by = "load"
        BY <4>1, <1>1, <2>2 DEF StoredFits, Loop
      <4> QED BY <4>1, <4>2, <2>6 DEF LoadDone, marking
    <3> QED BY <2>1, <2>6, <3>1, <1>1 DEF RecoveryFits, LoadDone, records
  <2> QED BY <2>3, <2>4, <2>5, <2>6
<1>8. WaitFits'
  BY <1>1, <1>3 DEF WaitFits, Settling, disk, deletion, executions
<1> QED BY <1>4, <1>6, <1>7, <1>8 DEF IInv

\* Abort touches no record, and neither does the deletion before it erases.
LEMMA UserKeeps ==
  ASSUME IInv, StopRuns \/ DeletePrepare \/ DeleteProceed \/ DeleteFails
  PROVE  IInv'
<1>1. /\ TypeOK /\ RunsTypeOK /\ RecordsTypeOK /\ WaitFits
      /\ \A r \in Run : /\ ShownFits(r) /\ StoredFits(r) /\ TracedFits(r)
                        /\ DiskFits(r) /\ RecoveryFits(r)
  BY DEF IInv, TypeOK
<1>2. UNCHANGED <<stage, phase, memRun, events, runQ, checkQ, diskRun, diskEvents, diskCheck,
                  reloads, early, page>>
  BY DEF StopRuns, StopTask, DeletePrepare, DeleteProceed, DeleteFails, Rejected, Quiet, Abort,
         elsewhere, runs, records, page
<1>3. /\ failures' \in Nat /\ failures' + reloads' <= MaxFaults
      /\ failures' = failures \/ failures' # 0
  BY <1>1, RecordsAssumption
     DEF StopRuns, DeletePrepare, DeleteProceed, DeleteFails, Rejected, Quiet, records, RecordsTypeOK
<1>4. /\ aborted' \in [Run -> BOOLEAN] /\ told' \in [Run -> BOOLEAN]
      /\ UNCHANGED <<order, stop, steered, guides>>
  BY <1>1
     DEF RunsTypeOK, StopRuns, StopTask, DeletePrepare, DeleteProceed, DeleteFails, Quiet, Abort, runs
<1>5. del' \in {"no", "preparing", "deleting", "done"} /\ delWait' \subseteq Run
  BY <1>1
     DEF TypeOK, executions, StopRuns, DeletePrepare, DeleteProceed, DeleteFails, Quiet, elsewhere,
         deletion
<1>6. TypeOK'
  BY <1>1, <1>2, <1>3, <1>4, <1>5 DEF TypeOK, RunsTypeOK, RecordsTypeOK, page
<1>7. \A r \in Run : saving(r)' = saving(r)
  BY <1>2 DEF saving
<1>8. del' = "done" <=> del = "done"
  BY DEF StopRuns, DeletePrepare, DeleteProceed, DeleteFails, Quiet, elsewhere, deletion
<1>9. ASSUME NEW r \in Run
      PROVE  ShownFits(r)' /\ StoredFits(r)' /\ TracedFits(r)' /\ DiskFits(r)' /\ RecoveryFits(r)'
  <2>1. ShownFits(r)' /\ StoredFits(r)' /\ DiskFits(r)'
    BY <1>1, <1>2, <1>7 DEF ShownFits, StoredFits, DiskFits, page
  <2>2. TracedFits(r)'
    BY <1>1, <1>2, <1>3, <1>8 DEF TracedFits
  <2>3. quiet' => quiet
    BY <1>2, <1>3 DEF quiet
  <2>4. RecoveryFits(r)'
    BY <1>1, <1>2, <2>3 DEF RecoveryFits, page
  <2> QED BY <2>1, <2>2, <2>4
<1>10. WaitFits'
  <2>1. executions' = executions
    BY <1>2 DEF executions
  <2>2. CASE StopRuns
    BY <2>1, <2>2, <1>1, <1>2 DEF WaitFits, StopRuns, Quiet, elsewhere, deletion
  <2>3. CASE DeletePrepare
    BY <2>1, <2>3, <1>2 DEF WaitFits, DeletePrepare, executions, Live, Loop
  <2>4. CASE DeleteProceed
    BY <2>1, <2>4, <1>1, <1>2 DEF WaitFits, DeleteProceed
  <2>5. CASE DeleteFails
    BY <2>1, <2>5, <1>1, <1>2 DEF WaitFits, DeleteFails
  <2> QED BY <2>2, <2>3, <2>4, <2>5
<1> QED BY <1>6, <1>9, <1>10 DEF IInv

LEMMA ErasureKeeps ==
  ASSUME IInv, DeleteLand
  PROVE  IInv'
<1>1. /\ TypeOK /\ RunsTypeOK /\ RecordsTypeOK /\ WaitFits
      /\ \A r \in Run : /\ ShownFits(r) /\ StoredFits(r) /\ DiskFits(r) /\ RecoveryFits(r)
  BY DEF IInv, TypeOK
<1>2. UNCHANGED <<runs, early, page, delWait, memRun, events, runQ, checkQ, failures, reloads>>
  BY DEF DeleteLand, Erase
<1>3. /\ del = "deleting" /\ del' = "done"
      /\ diskRun' = [r \in Run |-> "none"] /\ diskEvents' = {} /\ diskCheck' = {}
  BY DEF DeleteLand, Erase
<1>4. TypeOK'
  BY <1>1, <1>2, <1>3 DEF TypeOK, RunsTypeOK, RecordsTypeOK, runs, page, Phase
<1>5. \A r \in Run : saving(r)' = saving(r)
  BY <1>2 DEF saving
<1>6. ASSUME NEW r \in Run
      PROVE  ShownFits(r)' /\ StoredFits(r)' /\ TracedFits(r)' /\ DiskFits(r)' /\ RecoveryFits(r)'
  <2>1. ShownFits(r)' /\ StoredFits(r)'
    BY <1>1, <1>2, <1>3, <1>5 DEF ShownFits, StoredFits, runs, page
  <2>2. TracedFits(r)' /\ DiskFits(r)'
    BY <1>1, <1>2, <1>3, <1>5 DEF TracedFits, DiskFits, runs, page, Settled
  <2>3. quiet' => quiet
    BY <1>2 DEF quiet, runs
  <2>4. RecoveryFits(r)'
    BY <1>1, <1>2, <1>3, <2>3 DEF RecoveryFits, page, Active
  <2> QED BY <2>1, <2>2, <2>4
<1>7. WaitFits'
  BY <1>1, <1>2, <1>3 DEF WaitFits, TypeOK, runs, executions
<1> QED BY <1>4, <1>6, <1>7 DEF IInv

LEMMA ReloadKeeps ==
  ASSUME IInv, Reload
  PROVE  IInv'
<1>1. /\ TypeOK /\ RunsTypeOK /\ RecordsTypeOK /\ WaitFits
      /\ \A r \in Run : ShownFits(r) /\ StoredFits(r) /\ TracedFits(r) /\ DiskFits(r)
  BY DEF IInv, TypeOK
<1>2. /\ reloads' \in Nat /\ failures' = failures /\ failures' + reloads' <= MaxFaults
      /\ UNCHANGED <<diskRun, diskEvents, diskCheck, early, aborted, told, order, guides>>
  BY <1>1, RecordsAssumption DEF Reload, Forget, PageGone, RecordsTypeOK
<1>3. /\ memRun' = [r \in Run |-> "none"] /\ events' = [r \in Run |-> "none"]
      /\ runQ' = [r \in Run |-> <<>>] /\ checkQ' = {}
      /\ load' = "idle" /\ toMark' = {} /\ recovered' = FALSE
  BY DEF Reload, Forget
<1>4. /\ stage' = [r \in Run |-> IF stage[r] \in Launched THEN "gone" ELSE stage[r]]
      /\ phase' = [r \in Run |-> "none"]
      /\ stop' = [r \in Run |-> "none"] /\ steered' = [r \in Run |-> FALSE]
  BY DEF Reload, PageGone
<1>5. /\ del' = IF del = "done" THEN del ELSE "no"
      /\ delWait' = IF del = "done" THEN delWait ELSE {}
  BY DEF Reload
<1>6. TypeOK'
  <2>1. RunsTypeOK'
    BY <1>1, <1>2, <1>4 DEF RunsTypeOK, Stage, Phase
  <2>2. RecordsTypeOK'
    BY <1>1, <1>2, <1>3 DEF RecordsTypeOK, Phase, Waiting
  <2> QED BY <2>1, <2>2, <1>1, <1>2, <1>3, <1>5 DEF TypeOK
<1>7. ASSUME NEW r \in Run
      PROVE  ShownFits(r)' /\ StoredFits(r)' /\ TracedFits(r)' /\ DiskFits(r)' /\ RecoveryFits(r)'
  <2>1. saving(r)' = {}
    BY <1>3 DEF saving
  <2>2. /\ stage'[r] = stage[r] \/ stage'[r] = "gone"
        /\ stage'[r] \notin Launched /\ phase'[r] = "none"
    BY <1>4 DEF Launched, Live, Loop
  <2>3. ShownFits(r)'
    <3>1. r \in Old \/ r \in early => stage'[r] = stage[r]
      BY <1>1, <1>4 DEF ShownFits, Launched, Live, Loop
    <3> QED BY <3>1, <2>2, <1>1, <1>2 DEF ShownFits, Launched, Live, Loop
  <2>4. StoredFits(r)'
    BY <2>1, <2>2, <1>1, <1>2, <1>3 DEF StoredFits, Launched
  <2>5. TracedFits(r)'
    BY <2>2, <1>1, <1>2, <1>5 DEF TracedFits, Launched, Live, Loop
  <2>6. DiskFits(r)' /\ RecoveryFits(r)'
    BY <2>1, <2>2, <1>3 DEF DiskFits, RecoveryFits
  <2> QED BY <2>3, <2>4, <2>5, <2>6
<1>8. WaitFits'
  <2>1. executions' = {}
    BY <1>4 DEF executions, Launched, Live, Loop
  <2> QED BY <2>1, <1>1, <1>2, <1>4, <1>5 DEF WaitFits, TypeOK, Launched
<1> QED BY <1>6, <1>7, <1>8 DEF IInv

-----------------------------------------------------------------------------
(* The invariant. *)

LEMMA InitSound == Init => IInv
<1> SUFFICES ASSUME Init PROVE IInv
  OBVIOUS
<1>1. TypeOK
  <2>1. RunsTypeOK
    BY RunsAssumption DEF Init, RunsInit, RunsTypeOK, Stage, Phase
  <2>2. RecordsTypeOK
    <3>1. [r \in Run |-> <<>>] \in [Run -> Seq(Save)]
      OBVIOUS
    <3>2. diskRun \in [Run -> Phase] /\ memRun \in [Run -> Phase] /\ events \in [Run -> Waiting]
      BY DEF Init, RecordsInit, Phase, Active, Waiting
    <3>3. failures + reloads <= MaxFaults /\ failures \in Nat /\ reloads \in Nat
      BY RecordsAssumption DEF Init, RecordsInit
    <3> QED BY <3>1, <3>2, <3>3, RunsAssumption DEF Init, RecordsInit, RecordsTypeOK
  <2> QED BY <2>1, <2>2 DEF Init, TypeOK
<1>2. ASSUME NEW r \in Run
      PROVE  ShownFits(r) /\ StoredFits(r) /\ TracedFits(r) /\ DiskFits(r) /\ RecoveryFits(r)
  <2>1. saving(r) = {}
    BY DEF saving, Init, RecordsInit
  <2> QED BY <2>1
          DEF Init, RunsInit, RecordsInit, ShownFits, StoredFits, TracedFits, DiskFits, RecoveryFits,
              Loop, Settled
<1>3. WaitFits
  BY DEF Init, WaitFits
<1> QED BY <1>1, <1>2, <1>3 DEF IInv

LEMMA StepSound == IInv /\ [Next]_vars => IInv'
<1> SUFFICES ASSUME IInv, [Next]_vars PROVE IInv'
  OBVIOUS
<1>1. ASSUME NEW r \in Run,
             Launch(r) \/ Quiet(ResumeLaunches(r)) \/ Quiet(DriverCreated(r))
      PROVE  IInv'
  BY <1>1, LaunchKeeps
<1>2. ASSUME NEW r \in Run, Goes(r) PROVE IInv'
  BY <1>1, <1>2, ChecksKeep, BeginsKeeps, LoopKeeps, WaitedKeeps DEF Goes
<1>3. ASSUME NEW r \in Run, StoreFails(r) PROVE IInv'
  BY <1>3, StoreFailsKeeps
<1>4. ASSUME NEW r \in Run, EventLands(r) \/ RunLands(r) \/ CheckpointLands(r) PROVE IInv'
  BY <1>4, EventLandsKeeps, RunLandsKeeps, CheckpointLandsKeeps
<1>5. ASSUME NEW r \in Run,
             (LoseEvent(r) /\ untouched) \/ (LoseCheckpoint(r) /\ untouched) \/ SaveLost(r)
      PROVE  IInv'
  BY <1>5, LossesKeep
<1>6. CASE Loading
  BY <1>6, LoadingKeeps, MarkKeeps DEF Loading
<1>7. CASE StopRuns \/ DeletePrepare \/ DeleteProceed \/ DeleteFails
  BY <1>7, UserKeeps
<1>8. CASE DeleteLand
  BY <1>8, ErasureKeeps
<1>9. CASE Reload
  BY <1>9, ReloadKeeps
<1>10. CASE UNCHANGED vars
  BY <1>10
     DEF IInv, TypeOK, RunsTypeOK, RecordsTypeOK, ShownFits, StoredFits, TracedFits, DiskFits,
         RecoveryFits, WaitFits, saving, quiet, executions, vars, runs, records, page, deletion
<1> QED BY <1>1, <1>2, <1>3, <1>4, <1>5, <1>6, <1>7, <1>8, <1>9, <1>10 DEF Next

LEMMA SoundInvariant == IInv => RecordsSound
<1> SUFFICES ASSUME IInv PROVE RecordsSound
  OBVIOUS
<1>1. WaitedForIsStored
  BY DEF IInv, TracedFits, WaitedForIsStored
<1>2. RevivedOnlyUnwaited
  BY DEF IInv, WaitFits, RevivedOnlyUnwaited
<1>3. SettledOnDiskIsTrue
  BY DEF IInv, DiskFits, SettledOnDiskIsTrue
<1>4. OldRunsSettled
  <2> SUFFICES ASSUME recovered, failures = 0, \A r \in Run : stage[r] = "none",
                      NEW r \in Old
               PROVE  diskRun[r] \notin Active
    BY DEF OldRunsSettled
  <2>1. quiet /\ r \in Run
    BY RunsAssumption DEF quiet
  <2> QED BY <2>1 DEF IInv, RecoveryFits
<1> QED BY <1>1, <1>2, <1>3, <1>4 DEF RecordsSound

\* What the disk says of the runs of a session is true of them, through rejected
\* writes, reloads, the recovery and the deletion.
THEOREM RecordsAreSound == Spec => []RecordsSound
BY InitSound, StepSound, SoundInvariant, PTL DEF Spec

-----------------------------------------------------------------------------
(* Settled once. *)

LEMMA HandlersKeepSettled ==
  ASSUME IInv, NEW r \in Run, NEW q \in Run, phase[q] \in Settled,
         Launch(r) \/ Goes(r) \/ StoreFails(r)
  PROVE  phase'[q] = phase[q]
<1>1. phase \in [Run -> Phase] /\ ShownFits(r)
  BY DEF IInv, TypeOK, RunsTypeOK
<1>2. CASE Launch(r)
  <2>1. ASSUME Launches(r), stage[r] \in {"none", "resuming"}, r \notin Old
        PROVE  phase'[q] = phase[q]
    <3>1. phase[r] = "none"
      BY <2>1 DEF IInv, StoredFits
    <3> QED BY <2>1, <3>1, <1>1 DEF Launches, show, Settled
  <2> QED BY <2>1, <1>1, <1>2
          DEF Launch, Quiet, Submit, fresh, Resume, ResumeFails, DriverFails, show, ShownFits, Settled
<1>3. CASE Goes(r)
  <2>1. CASE Quiet(ResumeLaunches(r))
    <3>1. stage[r] = "resuming" /\ r \notin Old
      BY <2>1, <1>1 DEF Quiet, ResumeLaunches, ShownFits
    <3>2. phase[r] = "none"
      BY <3>1 DEF IInv, StoredFits
    <3> QED BY <2>1, <3>2, <1>1 DEF Quiet, ResumeLaunches, Launches, show, Settled
  <2>2. CASE Quiet(DriverCreated(r)) \/ Continues(r) \/ Flushed(r) \/ Answers(r) \/ LastAnswer(r)
    BY <2>2
       DEF Quiet, DriverCreated, Continues, NextTurn, Flushed, Returns, Answers, ModelCallsTools,
           LastAnswer, ModelStops
  <2>3. CASE Checks(r, "opening", "compacting") \/ Checks(r, "compacting", "storing")
    BY <2>3, <1>1 DEF Checks, Passes, show, ShownFits, Settled
  <2>4. CASE Begins(r)
    BY <2>4, <1>1 DEF Begins, Starts, show, ShownFits, Settled
  <2>5. CASE \E reason \in {"aborted", "error"} : Breaks(r, reason)
    BY <2>5, <1>1 DEF Breaks, ModelBreaks, show, ShownFits, Settled
  <2>6. CASE \E s \in {"none", "completed", "awaiting_user"} : ToolsOver(r, s)
    BY <2>6 DEF ToolsOver, ToolsEnd
  <2>7. CASE Ends(r)
    <3>1. phase[r] \in {"planning", "cancelled", "failed"}
      BY <2>7, <1>1 DEF Ends, AgentEnd, ShownFits
    <3> QED BY <3>1, <2>7, <1>1 DEF Ends, AgentEnd, show, conclusion, Settled
  <2> QED BY <1>3, <2>1, <2>2, <2>3, <2>4, <2>5, <2>6, <2>7 DEF Goes
<1>4. CASE StoreFails(r)
  BY <1>4 DEF StoreFails, Throws
<1> QED BY <1>2, <1>3, <1>4

LEMMA SettledStays ==
  IInv /\ [Next]_vars =>
    [\A r \in Run : phase[r] \in Settled => phase'[r] = phase[r] \/ reloads' # reloads]_vars
<1> SUFFICES ASSUME IInv, Next, NEW q \in Run, phase[q] \in Settled, reloads' = reloads
             PROVE  phase'[q] = phase[q]
  BY DEF vars
<1>1. reloads \in Nat
  BY DEF IInv, TypeOK, RecordsTypeOK
<1>2. ASSUME NEW r \in Run, Launch(r) \/ Goes(r) \/ StoreFails(r) PROVE phase'[q] = phase[q]
  BY <1>2, HandlersKeepSettled
<1>3. ASSUME NEW r \in Run,
             \/ EventLands(r) \/ RunLands(r) \/ CheckpointLands(r)
             \/ LoseEvent(r) /\ untouched
             \/ LoseCheckpoint(r) /\ untouched
             \/ SaveLost(r)
      PROVE  phase'[q] = phase[q]
  BY <1>3 DEF EventLands, RunLands, CheckpointLands, SaveLost, untouched, runs
<1>4. CASE Loading
  BY <1>4
     DEF Loading, LoadEvents, LoadRuns, LoadRunsOnly, LoadDone, MarkNext, Shows, runs, Settled
<1>5. CASE StopRuns \/ DeletePrepare \/ DeleteProceed \/ DeleteLand \/ DeleteFails
  BY <1>5
     DEF StopRuns, StopTask, DeletePrepare, DeleteProceed, DeleteLand, DeleteFails, Quiet, Abort, runs
<1>6. ~Reload
  BY <1>1 DEF Reload, Forget
<1> QED BY <1>2, <1>3, <1>4, <1>5, <1>6 DEF Next

\* However the loop ends, whatever is loaded, stopped or deleted: a run that is
\* cancelled, failed or completed stays so until the page is reloaded.
THEOREM SettledIsFinal == Spec => SettledOnce
BY InitSound, StepSound, SettledStays, PTL DEF Spec, SettledOnce

-----------------------------------------------------------------------------
(***************************************************************************)
(* Attached resources.                                                     *)
(***************************************************************************)

PromptIsRecord(p) ==
    p = [step |-> p.step, todo |-> p.todo, reused |-> p.reused, pending |-> p.pending]

LedgerTypeOK ==
    /\ room \in [LedgerRuns -> Rooms \cup {NoRoom}] /\ above \in [Helpers -> Roots]
    /\ working \subseteq LedgerRuns
    /\ DOMAIN prompt = Roots /\ prompt = [r \in Roots |-> prompt[r]]
    /\ \A r \in Roots : PromptIsRecord(prompt[r])
    /\ \A x \in resources : x = [id |-> x.id, file |-> x.file, origin |-> x.origin]

\* What works is stored, a prompt that has not told its message works, and an
\* event is one of a stored run.
WorkIsStored ==
    /\ working \subseteq StoredRuns
    /\ \A r \in Roots : prompt[r].step \in {"looking", "saved"} => r \in working
    /\ \A e \in references : e.run \in StoredRuns

\* A resource comes from a root run, unless a deletion gave it to a child.
OriginsAreRoots ==
    \A x \in resources : x.id \notin adopted => x.origin \in Roots /\ x.origin \in StoredRuns

LedgerInv == LedgerTypeOK /\ WorkIsStored /\ ReferencesResolve /\ OriginsAreRoots

LEMMA LedgerStart == LedgerInit => LedgerInv
BY LedgerAssumption
   DEF LedgerInit, LedgerInv, LedgerTypeOK, PromptIsRecord, WorkIsStored, ReferencesResolve,
       OriginsAreRoots, NoPrompt, Ids, StoredRuns, LedgerRuns

\* A step of a prompt: the prompts of the others stay.
LEMMA PromptMoves ==
    ASSUME LedgerTypeOK, NEW r \in Roots, NEW p, PromptIsRecord(p),
           prompt' = [prompt EXCEPT ![r] = p]
    PROVE  /\ DOMAIN prompt' = Roots /\ prompt' = [q \in Roots |-> prompt'[q]]
           /\ \A q \in Roots : PromptIsRecord(prompt'[q])
           /\ \A q \in Roots : prompt'[q] = IF q = r THEN p ELSE prompt[q]
BY DEF LedgerTypeOK

LEMMA PromptsKeep ==
    ASSUME LedgerInv,
           \/ \E r \in Roots, b \in Rooms, F \in SUBSET Uploads : AttachResources(r, b, F)
           \/ \E r \in Roots, f \in Uploads : LooksUp(r, f)
           \/ \E r \in Roots : SavesBatch(r) \/ Tells(r)
    PROVE  LedgerInv'
<1> USE LedgerAssumption DEF LedgerInv
<1>1. ASSUME NEW r \in Roots, NEW b \in Rooms, NEW F \in SUBSET Uploads, AttachResources(r, b, F)
      PROVE  LedgerInv'
  <2>7. PICK p : p = [NoPrompt EXCEPT !.step = "looking", !.todo = F]
    OBVIOUS
  <2>0. prompt' = [prompt EXCEPT ![r] = p]
    BY <1>1, <2>7 DEF AttachResources
  <2>1. p = [step |-> "looking", todo |-> F, reused |-> {}, pending |-> {}]
    BY <2>7 DEF NoPrompt
  <2>9. PromptIsRecord(p)
    BY <2>1 DEF PromptIsRecord
  <2>2. /\ DOMAIN prompt' = Roots /\ prompt' = [q \in Roots |-> prompt'[q]]
        /\ \A q \in Roots : PromptIsRecord(prompt'[q])
        /\ \A q \in Roots : prompt'[q] = IF q = r THEN p ELSE prompt[q]
    BY <2>0, <2>9, PromptMoves
  <2>3. /\ room' = [room EXCEPT ![r] = b] /\ working' = working \cup {r}
        /\ UNCHANGED <<above, resources, references, created, late, adopted>>
    BY <1>1 DEF AttachResources
  <2>4. LedgerTypeOK'
    BY <2>2, <2>3 DEF LedgerTypeOK, LedgerRuns
  <2>5. StoredRuns' = StoredRuns \cup {r}
    BY <2>3 DEF StoredRuns, LedgerRuns, LedgerTypeOK
  <2>6. WorkIsStored'
    BY <2>2, <2>3, <2>5 DEF WorkIsStored
  <2> QED BY <2>3, <2>4, <2>5, <2>6 DEF ReferencesResolve, OriginsAreRoots, Ids
<1>2. ASSUME NEW r \in Roots, NEW f \in Uploads, LooksUp(r, f) PROVE LedgerInv'
  <2>1. PICK same : prompt' = [prompt EXCEPT ![r].todo = @ \ {f}, ![r].reused = @ \cup same,
                                    ![r].pending = IF same = {} THEN @ \cup {f} ELSE @]
    BY <1>2 DEF LooksUp
  <2>10. PICK p : p = [prompt[r] EXCEPT !.todo = @ \ {f}, !.reused = @ \cup same,
                                       !.pending = IF same = {} THEN @ \cup {f} ELSE @]
    OBVIOUS
  <2>6. prompt[r] = [step |-> prompt[r].step, todo |-> prompt[r].todo,
                     reused |-> prompt[r].reused, pending |-> prompt[r].pending]
    BY DEF LedgerTypeOK, PromptIsRecord
  <2>7. p = [step |-> prompt[r].step, todo |-> prompt[r].todo \ {f},
             reused |-> prompt[r].reused \cup same, pending |-> p.pending]
    BY <2>6, <2>10
  <2>8. prompt' = [prompt EXCEPT ![r] = p]
    BY <2>1, <2>10 DEF LedgerTypeOK
  <2>2. prompt' = [prompt EXCEPT ![r] = p] /\ PromptIsRecord(p) /\ p.step = prompt[r].step
    BY <2>7, <2>8 DEF PromptIsRecord
  <2>3. /\ DOMAIN prompt' = Roots /\ prompt' = [q \in Roots |-> prompt'[q]]
        /\ \A q \in Roots : PromptIsRecord(prompt'[q])
        /\ \A q \in Roots : prompt'[q] = IF q = r THEN p ELSE prompt[q]
    BY <2>2, PromptMoves
  <2>4. UNCHANGED <<room, working, above, resources, references, created, late, adopted>>
    BY <1>2 DEF LooksUp
  <2>5. LedgerTypeOK'
    BY <2>3, <2>4 DEF LedgerTypeOK
  <2>9. WorkIsStored'
    BY <2>2, <2>3, <2>4 DEF WorkIsStored, StoredRuns
  <2> QED BY <2>4, <2>5, <2>9 DEF ReferencesResolve, OriginsAreRoots, Ids, StoredRuns
<1>3. ASSUME NEW r \in Roots, SavesBatch(r) PROVE LedgerInv'
  <2>1. prompt[r].step = "looking" /\ r \in working /\ r \in StoredRuns
        /\ UNCHANGED <<room, above, references, late, adopted>>
    BY <1>3 DEF SavesBatch, WorkIsStored
  <2>2. CASE prompt' = [prompt EXCEPT ![r].step = "failed"] /\ working' = working \ {r}
             /\ UNCHANGED <<resources, created>>
    <3> DEFINE p == [prompt[r] EXCEPT !.step = "failed"]
    <3>1. prompt' = [prompt EXCEPT ![r] = p] /\ PromptIsRecord(p) /\ p.step = "failed"
      BY <2>2 DEF LedgerTypeOK, PromptIsRecord
    <3> HIDE DEF p
    <3>2. /\ DOMAIN prompt' = Roots /\ prompt' = [q \in Roots |-> prompt'[q]]
          /\ \A q \in Roots : PromptIsRecord(prompt'[q])
          /\ \A q \in Roots : prompt'[q] = IF q = r THEN p ELSE prompt[q]
      BY <3>1, PromptMoves
    <3>3. LedgerTypeOK'
      BY <2>1, <2>2, <3>2 DEF LedgerTypeOK
    <3>4. WorkIsStored'
      BY <2>1, <2>2, <3>1, <3>2 DEF WorkIsStored, StoredRuns
    <3> QED BY <2>1, <2>2, <3>3, <3>4 DEF ReferencesResolve, OriginsAreRoots, Ids, StoredRuns
  <2>3. ASSUME NEW F, NEW n,
               resources' = resources \cup {[id |-> n[f], file |-> f, origin |-> r] : f \in F},
               prompt' = [prompt EXCEPT ![r].step = "saved",
                                        ![r].reused = @ \cup {n[f] : f \in F}],
               UNCHANGED working
        PROVE  LedgerInv'
    <3>12. PICK p : p = [prompt[r] EXCEPT !.step = "saved", !.reused = @ \cup {n[f] : f \in F}]
      OBVIOUS
    <3>6. prompt[r] = [step |-> prompt[r].step, todo |-> prompt[r].todo,
                       reused |-> prompt[r].reused, pending |-> prompt[r].pending]
      BY DEF LedgerTypeOK, PromptIsRecord
    <3>7. p = [step |-> "saved", todo |-> prompt[r].todo,
               reused |-> p.reused, pending |-> prompt[r].pending]
      BY <3>6, <3>12
    <3>8. prompt' = [prompt EXCEPT ![r] = p]
      BY <2>3, <3>12 DEF LedgerTypeOK
    <3>1. prompt' = [prompt EXCEPT ![r] = p] /\ PromptIsRecord(p) /\ p.step = "saved"
      BY <3>7, <3>8 DEF PromptIsRecord
    <3>2. /\ DOMAIN prompt' = Roots /\ prompt' = [q \in Roots |-> prompt'[q]]
          /\ \A q \in Roots : PromptIsRecord(prompt'[q])
          /\ \A q \in Roots : prompt'[q] = IF q = r THEN p ELSE prompt[q]
      BY <3>1, PromptMoves
    <3>3. \A x \in resources' : x \in resources
                                \/ x = [id |-> x.id, file |-> x.file, origin |-> r]
      BY <2>3
    <3>9. \A x \in resources' : x = [id |-> x.id, file |-> x.file, origin |-> x.origin]
      BY <3>3 DEF LedgerTypeOK
    <3>4. LedgerTypeOK'
      BY <2>1, <2>3, <3>2, <3>9 DEF LedgerTypeOK
    <3>5. WorkIsStored'
      BY <2>1, <2>3, <3>1, <3>2 DEF WorkIsStored, StoredRuns
    <3>10. ReferencesResolve'
      BY <2>1, <2>3 DEF ReferencesResolve, Ids
    <3>11. OriginsAreRoots'
      BY <2>1, <3>3 DEF OriginsAreRoots, StoredRuns
    <3> QED BY <3>4, <3>5, <3>10, <3>11
  <2> QED BY <1>3, <2>2, <2>3 DEF SavesBatch
<1>4. ASSUME NEW r \in Roots, Tells(r) PROVE LedgerInv'
  <2> DEFINE p == [prompt[r] EXCEPT !.step = "told"]
  <2>1. prompt' = [prompt EXCEPT ![r] = p] /\ PromptIsRecord(p) /\ p.step = "told"
    BY <1>4 DEF Tells, LedgerTypeOK, PromptIsRecord
  <2> HIDE DEF p
  <2>2. /\ DOMAIN prompt' = Roots /\ prompt' = [q \in Roots |-> prompt'[q]]
        /\ \A q \in Roots : PromptIsRecord(prompt'[q])
        /\ \A q \in Roots : prompt'[q] = IF q = r THEN p ELSE prompt[q]
    BY <2>1, PromptMoves
  <2>3. r \in StoredRuns /\ UNCHANGED <<room, above, working, resources, created, adopted>>
    BY <1>4 DEF Tells, WorkIsStored
  <2>4. PICK heard : /\ references' = references \cup {[run |-> r, id |-> i, found |-> TRUE] : i \in heard}
                    /\ late' = late \cup (heard \ Ids)
    BY <1>4 DEF Tells
  <2>5. LedgerTypeOK'
    BY <2>2, <2>3 DEF LedgerTypeOK
  <2>6. WorkIsStored'
    BY <2>1, <2>2, <2>3, <2>4 DEF WorkIsStored, StoredRuns
  <2>7. ReferencesResolve'
    BY <2>3, <2>4 DEF ReferencesResolve, Ids
  <2> QED BY <2>3, <2>5, <2>6, <2>7 DEF OriginsAreRoots, StoredRuns
<1> QED BY <1>1, <1>2, <1>3, <1>4

LEMMA WorkKeeps ==
    ASSUME LedgerInv,
           \/ \E k \in Helpers : ChildStarts(k)
           \/ \E r \in LedgerRuns, i \in Ids, text \in BOOLEAN : UsesResource(r, i, text)
           \/ \E r \in LedgerRuns : Finishes(r)
    PROVE  LedgerInv'
<1> USE LedgerAssumption DEF LedgerInv
<1>1. ASSUME NEW k \in Helpers, ChildStarts(k) PROVE LedgerInv'
  <2>1. /\ room' = [room EXCEPT ![k] = room[above[k]]] /\ working' = working \cup {k}
        /\ UNCHANGED <<above, prompt, resources, references, created, late, adopted>>
        /\ above[k] \in StoredRuns
    BY <1>1 DEF ChildStarts, WorkIsStored
  <2>2. StoredRuns' = StoredRuns \cup {k}
    BY <2>1 DEF StoredRuns, LedgerRuns, LedgerTypeOK
  <2>3. LedgerTypeOK'
    BY <2>1 DEF LedgerTypeOK, LedgerRuns
  <2>4. WorkIsStored'
    BY <2>1, <2>2 DEF WorkIsStored
  <2> QED BY <2>1, <2>2, <2>3, <2>4 DEF ReferencesResolve, OriginsAreRoots, Ids
<1>2. ASSUME NEW r \in LedgerRuns, NEW i \in Ids, NEW text \in BOOLEAN, UsesResource(r, i, text)
      PROVE  LedgerInv'
  <2>1. /\ references' = references \cup {[run |-> r, id |-> i, found |-> text]}
        /\ UNCHANGED <<room, above, working, prompt, resources, created, late, adopted>>
        /\ r \in StoredRuns
    BY <1>2 DEF UsesResource, WorkIsStored
  <2>2. LedgerTypeOK'
    BY <2>1 DEF LedgerTypeOK
  <2>3. WorkIsStored'
    BY <2>1 DEF WorkIsStored, StoredRuns
  <2>4. ReferencesResolve'
    BY <2>1 DEF ReferencesResolve, Ids
  <2> QED BY <2>1, <2>2, <2>3, <2>4 DEF OriginsAreRoots, StoredRuns
<1>3. ASSUME NEW r \in LedgerRuns, Finishes(r) PROVE LedgerInv'
  <2>1. /\ working' = working \ ({r} \cup {k \in Helpers : above[k] = r})
        /\ UNCHANGED <<room, above, prompt, resources, references, created, late, adopted>>
        /\ r \in Roots => prompt[r].step = "told"
    BY <1>3 DEF Finishes
  <2>2. LedgerTypeOK'
    BY <2>1 DEF LedgerTypeOK
  <2>3. WorkIsStored'
    BY <2>1 DEF WorkIsStored, StoredRuns
  <2> QED BY <2>1, <2>2, <2>3 DEF ReferencesResolve, OriginsAreRoots, StoredRuns, Ids
<1> QED BY <1>1, <1>2, <1>3

\* What a deletion of runs does to the runs and the events.
LEMMA RunsGo ==
    ASSUME LedgerTypeOK, WorkIsStored, NEW R, Without(R), R \cap working = {},
           UNCHANGED <<above, working>>
    PROVE  /\ StoredRuns' = StoredRuns \ R /\ working' \subseteq StoredRuns'
           /\ room' \in [LedgerRuns -> Rooms \cup {NoRoom}]
           /\ \A e \in references' : e \in references /\ e.run \in StoredRuns' /\ e.run \notin R
<1>1. room' \in [LedgerRuns -> Rooms \cup {NoRoom}] /\ StoredRuns' = StoredRuns \ R
  BY DEF Without, LedgerTypeOK, StoredRuns
<1> QED BY <1>1 DEF Without, WorkIsStored

LEMMA DeletionsKeep ==
    ASSUME LedgerInv,
           \/ \E K \in SUBSET Helpers : DeletesChildren(K)
           \/ \E b \in Rooms : DeletesContainer(b)
           \/ DeletesSession
    PROVE  LedgerInv'
<1> USE LedgerAssumption DEF LedgerInv
<1>1. ASSUME NEW K \in SUBSET Helpers, DeletesChildren(K) PROVE LedgerInv'
  <2>1. /\ K \cap working = {} /\ Without(K)
        /\ UNCHANGED <<above, working, prompt, resources, created, late, adopted>>
    BY <1>1 DEF DeletesChildren
  <2>2. /\ StoredRuns' = StoredRuns \ K /\ working' \subseteq StoredRuns'
        /\ room' \in [LedgerRuns -> Rooms \cup {NoRoom}]
        /\ \A e \in references' : e \in references /\ e.run \in StoredRuns' /\ e.run \notin K
    BY <2>1, RunsGo
  <2>3. LedgerTypeOK'
    BY <2>1, <2>2 DEF LedgerTypeOK
  <2>4. WorkIsStored'
    BY <2>1, <2>2 DEF WorkIsStored
  <2>5. ReferencesResolve'
    BY <2>1, <2>2 DEF ReferencesResolve, Ids
  <2>6. OriginsAreRoots'
    BY <2>1, <2>2 DEF OriginsAreRoots
  <2> QED BY <2>3, <2>4, <2>5, <2>6
<1>2. ASSUME NEW b \in Rooms, DeletesContainer(b) PROVE LedgerInv'
  <2> DEFINE R == {r \in StoredRuns : room[r] = b}
             mine == {x \in resources : x.origin \in R}
             kept == {x \in mine : keepers(x.id, R) # {}}
  <2>1. PICK heir \in [mine -> StoredRuns] :
          /\ \A x \in mine : keepers(x.id, R) # {} => heir[x] \in keepers(x.id, R)
          /\ resources' = (resources \ mine) \cup {[x EXCEPT !.origin = heir[x]] : x \in kept}
          /\ adopted' = adopted \cup {x.id : x \in {y \in kept : heir[y] \in Helpers}}
    BY <1>2 DEF DeletesContainer
  <2>2. R \cap working = {} /\ Without(R) /\ UNCHANGED <<above, working, prompt, created, late>>
    BY <1>2 DEF DeletesContainer
  <2> HIDE DEF R
  <2>3. /\ StoredRuns' = StoredRuns \ R /\ working' \subseteq StoredRuns'
        /\ room' \in [LedgerRuns -> Rooms \cup {NoRoom}]
        /\ \A e \in references' : e \in references /\ e.run \in StoredRuns' /\ e.run \notin R
    BY <2>2, RunsGo
  <2>4. \A x \in kept : /\ [x EXCEPT !.origin = heir[x]] = [id |-> x.id, file |-> x.file, origin |-> heir[x]]
                        /\ heir[x] \in StoredRuns'
    <3> SUFFICES ASSUME NEW x \in kept
                 PROVE  /\ [x EXCEPT !.origin = heir[x]] = [id |-> x.id, file |-> x.file, origin |-> heir[x]]
                        /\ heir[x] \in StoredRuns'
      OBVIOUS
    <3>1. x = [id |-> x.id, file |-> x.file, origin |-> x.origin]
      BY DEF LedgerTypeOK
    <3>2. heir[x] \in keepers(x.id, R)
      BY <2>1
    <3>3. heir[x] \in StoredRuns /\ heir[x] \notin R
      BY <3>2 DEF keepers, WorkIsStored
    <3> QED BY <2>3, <3>1, <3>3
  <2>5. \A x \in resources' :
          \/ x \in resources /\ x \notin mine
          \/ \E y \in kept : x = [id |-> y.id, file |-> y.file, origin |-> heir[y]]
    BY <2>1, <2>4
  <2>6. \A y \in kept : [id |-> y.id, file |-> y.file, origin |-> heir[y]] \in resources'
    BY <2>1, <2>4
  <2>7. LedgerTypeOK'
    BY <2>2, <2>3, <2>5 DEF LedgerTypeOK
  <2>8. WorkIsStored'
    BY <2>2, <2>3 DEF WorkIsStored
  <2>9. ReferencesResolve'
    <3> SUFFICES ASSUME NEW e \in references', e.found, e.id \notin late PROVE e.id \in Ids'
      BY <2>2 DEF ReferencesResolve
    <3>1. PICK x \in resources : x.id = e.id
      BY <2>3 DEF ReferencesResolve, Ids
    <3>2. CASE x \notin mine
      BY <2>1, <3>1, <3>2 DEF Ids
    <3>3. CASE x \in mine
      <4>1. e.run \in keepers(x.id, R)
        BY <2>3, <3>1 DEF keepers
      <4>2. x \in kept
        BY <3>3, <4>1
      <4> HIDE DEF kept
      <4>3. PICK z \in resources' : z = [id |-> x.id, file |-> x.file, origin |-> heir[x]]
        BY <2>6, <4>2
      <4>4. z.id = e.id
        BY <3>1, <4>3
      <4> QED BY <4>4 DEF Ids
    <3> QED BY <3>2, <3>3
  <2>10. OriginsAreRoots'
    <3> SUFFICES ASSUME NEW x \in resources', x.id \notin adopted'
                 PROVE  x.origin \in Roots /\ x.origin \in StoredRuns'
      BY DEF OriginsAreRoots
    <3>1. CASE x \in resources /\ x \notin mine
      BY <2>1, <2>3, <3>1 DEF OriginsAreRoots
    <3>2. CASE \E y \in kept : x = [id |-> y.id, file |-> y.file, origin |-> heir[y]]
      <4>1. PICK y \in kept : x = [id |-> y.id, file |-> y.file, origin |-> heir[y]]
        BY <3>2
      <4>2. heir[y] \in StoredRuns' /\ x.origin = heir[y] /\ x.id = y.id
        BY <2>4, <4>1
      <4>3. heir[y] \notin Helpers
        BY <2>1, <4>2
      <4> QED BY <4>2, <4>3 DEF StoredRuns, LedgerRuns
    <3> QED BY <2>5, <3>1, <3>2
  <2> QED BY <2>7, <2>8, <2>9, <2>10
<1>3. CASE DeletesSession
  <2>1. /\ working = {} /\ Without(StoredRuns) /\ resources' = {}
        /\ prompt' = [r \in Roots |-> [NoPrompt EXCEPT !.step = "deleted"]]
        /\ UNCHANGED <<above, working, created, late, adopted>>
    BY <1>3 DEF DeletesSession
  <2>2. /\ StoredRuns' = {}
        /\ room' \in [LedgerRuns -> Rooms \cup {NoRoom}]
        /\ references' = {}
    BY <2>1, RunsGo
  <2>3. LedgerTypeOK'
    BY <2>1, <2>2 DEF LedgerTypeOK, PromptIsRecord, NoPrompt
  <2>4. WorkIsStored'
    BY <2>1, <2>2 DEF WorkIsStored, NoPrompt
  <2> QED BY <2>1, <2>2, <2>3, <2>4 DEF ReferencesResolve, OriginsAreRoots
<1> QED BY <1>1, <1>2, <1>3

LEMMA LedgerStep == LedgerInv /\ [LedgerNext]_ledgerVars => LedgerInv'
<1> SUFFICES ASSUME LedgerInv, [LedgerNext]_ledgerVars PROVE LedgerInv'
  OBVIOUS
<1>1. CASE UNCHANGED ledgerVars
  BY <1>1 DEF ledgerVars, LedgerInv, LedgerTypeOK, PromptIsRecord, WorkIsStored,
         ReferencesResolve, OriginsAreRoots, Ids, StoredRuns
<1>2. CASE LedgerNext
  BY <1>2, PromptsKeep, WorkKeeps, DeletionsKeep DEF LedgerNext
<1> QED BY <1>1, <1>2

\* For any number of runs, files and containers, in whatever order they are
\* attached, looked up, stored, used and deleted: what an event of a stored run
\* is found to refer to is stored, but for a resource deleted between its
\* look-up and the event, and a resource belongs to a stored run unless it was
\* given to a child.
THEOREM LedgerStaysSound == LedgerSpec => []LedgerSound
<1>1. LedgerInv => LedgerSound
  BY DEF LedgerInv, LedgerSound, OriginsAreRoots, OriginsAreStored
<1> QED BY <1>1, LedgerStart, LedgerStep, PTL DEF LedgerSpec
=============================================================================
