------------------------------- MODULE MCChat -------------------------------
(***************************************************************************)
(* Two loops of the REPL that share no state, checked in one run: on says  *)
(* whether the agent answers a conversation (AgentRun) or a pull request   *)
(* is reviewed and fixed (PRLoop); the other stays as it begins.           *)
(***************************************************************************)
EXTENDS MCAgentRun, PRLoop

VARIABLE on

chatVars == <<on, vars, prVars>>

ChatInit == on \in {"agent", "pr"} /\ Init /\ PRInit

ChatNext ==
  \/ on = "agent" /\ Next       /\ UNCHANGED <<on, prVars>>
  \/ on = "pr"    /\ PRNextStep /\ UNCHANGED <<on, vars>>

\* The fairness of both, while the other stands still.
ChatFairness ==
  /\ WF_chatVars(on = "agent" /\ Run /\ UNCHANGED <<on, prVars>>)
  /\ WF_chatVars(on = "pr" /\ PRSteps /\ UNCHANGED <<on, vars>>)

ChatSpec == ChatInit /\ [][ChatNext]_chatVars /\ ChatFairness

\* The variables of both have their types.
ChatTypeOK == TypeOK /\ PRTypeOK
=============================================================================
