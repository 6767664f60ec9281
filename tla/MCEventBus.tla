---------------------------- MODULE MCEventBus ----------------------------
(***************************************************************************)
(* Model-checking instance of EventBus: a ring and a channel small enough  *)
(* that both overflow, and the ring wraps, within the bound on events.     *)
(***************************************************************************)
EXTENDS EventBus

CONSTANT c1

MCClients == {c1}
=============================================================================
