----------------------------- MODULE MCServices -----------------------------
(***************************************************************************)
(* Three components that share no state, checked in one run: on says which *)
(* of them runs, the others stay as they begin.                            *)
(***************************************************************************)
EXTENDS FigmaBridge, UpdateQueue, SubagentPool

VARIABLE on

Components == {"bridge", "queue", "pool"}

servicesVars == <<on, bridgeVars, queueVars, poolVars>>

Init == on \in Components /\ BridgeInit /\ QueueInit /\ PoolInit

Next ==
  \/ on = "bridge" /\ BridgeNext /\ UNCHANGED <<on, queueVars, poolVars>>
  \/ on = "queue"  /\ QueueNext  /\ UNCHANGED <<on, bridgeVars, poolVars>>
  \/ on = "pool"   /\ PoolNext   /\ UNCHANGED <<on, bridgeVars, queueVars>>

Spec == Init /\ [][Next]_servicesVars

\* The variables of every component have their types.
ServicesTypeOK == BridgeTypeOK /\ QueueTypeOK /\ PoolTypeOK
=============================================================================
