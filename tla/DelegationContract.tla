------------------------- MODULE DelegationContract -------------------------
(***************************************************************************)
(* What delegation promises the root agent, whatever the coordinator does  *)
(* with queues, slots, saves and sessions: the life of each child as the   *)
(* root can observe it through wait_subagents.                             *)
(*                                                                         *)
(*   absent -> waiting -> running -> done                                  *)
(*                        running -> asking -> guided -> done              *)
(*                                                                         *)
(* A child asks at most once with its session kept; it reports once when   *)
(* it asks and once when it is done; a child that never ran can only be    *)
(* reported as cancelled.  lost is the end of a child whose last save the  *)
(* store rejected.                                                         *)
(***************************************************************************)
EXTENDS Integers, Sequences, FiniteSets

CONSTANTS Child, MaxConcurrent

VARIABLES state, reports

Init ==
  /\ state = [c \in Child |-> "absent"]
  /\ reports = [c \in Child |-> <<>>]

Go(c, from, to) == state[c] = from /\ state'[c] = to
Say(c, s) == reports'[c] = Append(reports[c], s)
Silent(c) == reports'[c] = reports[c]

Ends == {"completed", "failed", "cancelled"}

Delegate(c) == Go(c, "absent", "waiting") /\ Silent(c)
Begin(c)    == Go(c, "waiting", "running") /\ Silent(c)
CancelWaiting(c) == Go(c, "waiting", "done") /\ Say(c, "cancelled")
Finish(c)   == Go(c, "running", "done") /\ \E s \in Ends : Say(c, s)
Ask(c)      == Go(c, "running", "asking") /\ Say(c, "blocked")
Guide(c)    == Go(c, "asking", "guided") /\ Silent(c)
\* A guided child that asks again is done, and reported as blocked.
FinishGuided(c) == Go(c, "guided", "done") /\ \E s \in Ends \cup {"blocked"} : Say(c, s)
Lose(c)     == state[c] \in {"waiting", "guided"} /\ state'[c] = "lost" /\ Silent(c)

Move(c) ==
  \/ Delegate(c) \/ Begin(c) \/ CancelWaiting(c) \/ Finish(c)
  \/ Ask(c) \/ Guide(c) \/ FinishGuided(c) \/ Lose(c)

Stays(c) == state'[c] = state[c] /\ reports'[c] = reports[c]

\* The first runs share MaxConcurrent slots.
PoolFits == Cardinality({c \in Child : state[c] = "running"}) <= MaxConcurrent

Next ==
  /\ state' \in [Child -> {"absent", "waiting", "running", "asking", "guided", "done", "lost"}]
  /\ DOMAIN reports' = Child
  /\ \A c \in Child : Stays(c) \/ Move(c)
  /\ PoolFits'

vars == <<state, reports>>
Spec == Init /\ [][Next]_vars
=============================================================================
