----------------------------- MODULE MCServices -----------------------------
(***************************************************************************)
(* A small instance of ServicePorts: a service that declares the only port *)
(* and one that declares none and is a system process.                     *)
(***************************************************************************)
EXTENDS ServicePorts

CONSTANTS a, b, p1

MCDeclares == [x \in Procs |-> IF x = a THEN {p1} ELSE {}]
=============================================================================
