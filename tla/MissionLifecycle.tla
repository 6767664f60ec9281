-------------------------- MODULE MissionLifecycle --------------------------
(***************************************************************************)
(* What a mission promises, as the four fields of state.json tell it: it   *)
(* alternates between design and implementation, returns to design at most *)
(* MaxEscalations times, reports "done" only from the implementation phase *)
(* of a reviewed mission and "design_failed" only from the design phase,   *)
(* and a terminal status is final: only a new mission starts over.         *)
(***************************************************************************)
EXTENDS Naturals

CONSTANT MaxEscalations

VARIABLES
  status,      \* Status
  phase,       \* Phase
  escalation,  \* Escalation
  reviewed     \* Reviewed

lvars == <<status, phase, escalation, reviewed>>

Init == status = "none" /\ phase = "design" /\ escalation = 0 /\ reviewed = FALSE

\* A new mission, in a directory of its own.
Start == status' = "active" /\ phase' = "design" /\ escalation' = 0 /\ reviewed' = FALSE

\* The design review passed and the charter is locked.
EnterImplement ==
  /\ status = "active" /\ phase = "design"
  /\ phase' = "implement"
  /\ UNCHANGED <<status, escalation, reviewed>>

\* The implementation says the plan is wrong.
Escalate ==
  /\ status = "active" /\ phase = "implement" /\ escalation < MaxEscalations
  /\ phase' = "design" /\ escalation' = escalation + 1
  /\ UNCHANGED <<status, reviewed>>

\* A passing implementation review is recorded before the mission is done.
RecordPass ==
  /\ status = "active" /\ phase = "implement"
  /\ reviewed' = TRUE
  /\ UNCHANGED <<status, phase, escalation>>

Done == phase = "implement" /\ reviewed /\ status' = "done"
DesignFailed == phase = "design" /\ status' = "design_failed"
HandOver == status' = "handed_over"
Abort == status' = "aborted"

End ==
  /\ status = "active"
  /\ Done \/ DesignFailed \/ HandOver \/ Abort
  /\ UNCHANGED <<phase, escalation, reviewed>>

Next == Start \/ EnterImplement \/ Escalate \/ RecordPass \/ End

Spec == Init /\ [][Next]_lvars
=============================================================================
