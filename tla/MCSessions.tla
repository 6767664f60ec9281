----------------------------- MODULE MCSessions -----------------------------
(***************************************************************************)
(* The bot's manager and the lock on stored sessions, checked in one run:  *)
(* on says which of the two runs, the other stays as it begins.  They are  *)
(* not composed: the manager sees the lock through its one variable.       *)
(***************************************************************************)
EXTENDS BotManager, SessionLock, TLC

CONSTANTS s1, s2, d1, p1, h1

VARIABLE on

MCSends   == {s1, s2}
MCDeletes == {d1}
Symmetry  == Permutations(MCSends) \cup Permutations(Sessions)

sessionsVars == <<on, vars, lockVars>>

SessionsInit ==
  /\ on \in {"bot", "lock"} /\ Init /\ LockInit
  /\ host[p1] = h1                                 \* whichever it is called
  /\ on = "bot" => \A p \in Procs : host[p] = h1   \* which does not look

SessionsNext ==
  \/ on = "bot"  /\ Next     /\ UNCHANGED <<on, lockVars>>
  \/ on = "lock" /\ LockNext /\ UNCHANGED <<on, vars>>

SessionsSpec == SessionsInit /\ [][SessionsNext]_sessionsVars

\* The variables of both components have their types.
SessionsTypeOK == TypeOK /\ LockTypeOK
=============================================================================
