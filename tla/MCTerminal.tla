----------------------------- MODULE MCTerminal ------------------------------
(***************************************************************************)
(* Two containers whose terminals and agent share one client.  Of the four *)
(* probes of the self-check the run keeps the one with a context.          *)
(***************************************************************************)
EXTENDS UserTerminal

MCProbes == <<"run">>
=============================================================================
