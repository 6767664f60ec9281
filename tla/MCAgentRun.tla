---------------------------- MODULE MCAgentRun ----------------------------
(***************************************************************************)
(* Model-checking instance of AgentRun: "find" is parallel-safe, "bash" is *)
(* not, "task" starts a subagent and is parallel-safe; the thresholds keep *)
(* the order of the code's (the failure net above the repeat ones).        *)
(***************************************************************************)
EXTENDS AgentRun

MCTools == {"bash", "find", "task"}
MCSafe  == {"find", "task"}
MCArgs  == {1}

B == [tool |-> "bash", args |-> 1]
F == [tool |-> "find", args |-> 1]
T == [tool |-> "task", args |-> 1]

MCBatches == {<<B, T>>, <<F, F, B>>, <<T, T>>}

MCOutcome == [t \in MCTools |-> CASE t = "bash" -> {"ok", "invalid"}
                                   [] t = "find" -> {"ok"}
                                   [] t = "task" -> {"ok", "failed"}]

MCRepeat == [calls |-> 2, fails |-> 3, cumulative |-> 2, total |-> 4,
             sameHint |-> 2, same |-> 3, retries |-> 2, invalid |-> 2]
=============================================================================
