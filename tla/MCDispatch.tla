----------------------------- MODULE MCDispatch -----------------------------
(* Dispatchers and events of Dispatch for TLC. *)
EXTENDS Dispatch

CONSTANTS d1, d2, d3, e1, e2
=============================================================================
