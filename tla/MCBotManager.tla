--------------------------- MODULE MCBotManager ---------------------------
(***************************************************************************)
(* Model-checking instance of BotManager: two sends race a delete, the     *)
(* janitor, another process and the shutdown on one session.               *)
(***************************************************************************)
EXTENDS BotManager, TLC

CONSTANTS s1, s2, d1

MCSends   == {s1, s2}
MCDeletes == {d1}
Symmetry  == Permutations(MCSends)
=============================================================================
