----------------------------- MODULE MCSubagent -----------------------------
(***************************************************************************)
(* Instances of SubagentCoordinator for TLC.  Children and messages are    *)
(* interchangeable, which the safety runs use.                             *)
(***************************************************************************)
EXTENDS SubagentCoordinator, TLC

Symmetry == Permutations(Child) \cup Permutations(Msg)
=============================================================================
