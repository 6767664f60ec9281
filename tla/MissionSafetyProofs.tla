------------------------ MODULE MissionSafetyProofs ------------------------
(***************************************************************************)
(* Safety of the mission loop for every value of the constants: the prompt *)
(* is left clean, the caps hold, and "done" means reviewed.  Each property *)
(* has an inductive strengthening of its own; one step per action of Next. *)
(***************************************************************************)
EXTENDS MissionProofs

----------------------------------------------------------------------------
(* What a step of the loop never does. *)

\* The actions that run with a mission attached and leave it attached.
Working == Loop /\ ~LeaveMission

\* A step of the loop starts inside the loop, does not detach the mission
\* unless it leaves it, and does not end the process.
LEMMA WorkingFrame ==
  ASSUME Working
  PROVE  pc \notin {"idle", "down"} /\ attached' = attached /\ pc' # "down"
<1>1. CASE PointSession
  BY <1>1 DEF PointSession, Goto, repl
<1>2. CASE EnterPhase
  BY <1>2 DEF EnterPhase, Goto, repl
<1>3. CASE DesignTop
  BY <1>3 DEF DesignTop, Goto, Leave
<1>4. CASE DesignTurn
  BY <1>4 DEF DesignTurn, Goto, ToPrompt
<1>5. CASE DesignSpent
  BY <1>5 DEF DesignSpent, Goto, Leave, repl
<1>6. CASE DesignReviewPending
  BY <1>6 DEF DesignReviewPending, ToPrompt, repl
<1>7. CASE DesignReviewReported
  BY <1>7 DEF DesignReviewReported, Goto, repl
<1>8. CASE DesignVerdict
  BY <1>8 DEF DesignVerdict, Goto, Leave, repl
<1>9. CASE LockPlan
  BY <1>9 DEF LockPlan, Goto, Leave, repl
<1>10. CASE LockCharter
  BY <1>10 DEF LockCharter, Goto, Leave
<1>11. CASE EnterImplement
  BY <1>11 DEF EnterImplement, Goto, repl
<1>12. CASE ImplementEntry
  BY <1>12 DEF ImplementEntry, Goto, Leave
<1>13. CASE ImplementTop
  BY <1>13 DEF ImplementTop, Goto
<1>14. CASE ImplementTurn
  BY <1>14 DEF ImplementTurn, Goto, ToPrompt
<1>15. CASE ReviewGate
  BY <1>15 DEF ReviewGate, Goto, Gated, EscalateOr, repl
<1>16. CASE ImplementReviewFailed
  BY <1>16 DEF ImplementReviewFailed, Gated
<1>17. CASE ImplementReviewPassed
  BY <1>17 DEF ImplementReviewPassed, Gated
<1>18. CASE ImplementReviewRejected
  BY <1>18 DEF ImplementReviewRejected, Gated, EscalateOr
<1>19. CASE RetirePending
  BY <1>19 DEF RetirePending, Goto, repl
<1>20. CASE GateDone
  BY <1>20 DEF GateDone, Leave, repl
<1>21. CASE GatePending
  BY <1>21 DEF GatePending, ToPrompt, repl
<1>22. CASE GateOther
  BY <1>22 DEF GateOther, Goto, Leave, repl
<1>23. CASE ArchiveCharter
  BY <1>23 DEF ArchiveCharter, Goto
<1>24. CASE Escalate
  BY <1>24 DEF Escalate, Goto, repl
<1>25. QED
  BY <1>1, <1>2, <1>3, <1>4, <1>5, <1>6, <1>7, <1>8, <1>9, <1>10,
     <1>11, <1>12, <1>13, <1>14, <1>15, <1>16, <1>17, <1>18, <1>19, <1>20,
     <1>21, <1>22, <1>23, <1>24 DEF Working, Loop

----------------------------------------------------------------------------
(* The prompt is clean. *)

\* Without an attached mission nothing of one is left in the REPL; the loop
\* runs only with one, and a dead process has none.
CleanInv ==
  /\ pc = "down" => ~attached
  /\ pc \notin {"idle", "down"} => attached
  /\ ~attached => ~injected /\ ~planMode /\ gateMode = "off" /\ ~input

LEMMA CleanStep == CleanInv /\ [Next]_vars => CleanInv'
<1> SUFFICES ASSUME CleanInv, [Next]_vars PROVE CleanInv'
  OBVIOUS
<1>1. CASE Working
  BY <1>1, WorkingFrame DEF CleanInv
<1>2. CASE LeaveMission
  BY <1>2 DEF CleanInv, LeaveMission, DropCharter, ToPrompt
<1>3. CASE CreateMission
  BY <1>3 DEF CleanInv, CreateMission, Goto
<1>4. CASE Resume
  BY <1>4 DEF CleanInv, Resume, Goto, repl
<1>5. CASE Abort
  BY <1>5 DEF CleanInv, Abort, Leave, repl
<1>6. CASE NewSession
  BY <1>6 DEF CleanInv, NewSession
<1>7. CASE Undo
  BY <1>7 DEF CleanInv, Undo
<1>8. CASE ExternalEdit
  BY <1>8 DEF CleanInv, ExternalEdit, repl
<1>9. CASE RemovePlan
  BY <1>9 DEF CleanInv, RemovePlan, repl
<1>10. CASE EditPlan
  BY <1>10 DEF CleanInv, EditPlan, repl
<1>11. CASE Crash
  BY <1>11 DEF CleanInv, Crash, Goto
<1>12. CASE Restart
  BY <1>12 DEF CleanInv, Restart, Goto
<1>13. CASE UNCHANGED vars
  BY <1>13 DEF CleanInv, vars
<1>14. QED
  BY <1>1, <1>2, <1>3, <1>4, <1>5, <1>6, <1>7, <1>8, <1>9, <1>10, <1>11, <1>12, <1>13
     DEF Next, Environment, Working

\* However a mission is left, killed or abandoned for a new session, the
\* ordinary turns that follow see no charter, no phase's turn mode and no
\* pending input of it (leaveMission, startNewSession, attachSessionMission).
THEOREM CleanPrompt == Spec => []OrdinaryTurnsClean
<1>1. Init => CleanInv
  BY DEF Init, CleanInv
<1>2. CleanInv => OrdinaryTurnsClean
  BY DEF CleanInv, OrdinaryTurnsClean
<1>3. QED
  BY <1>1, <1>2, CleanStep, PTL DEF Spec

----------------------------------------------------------------------------
(* The caps. *)

\* No counter of s is past its cap.
Within(s) ==
  /\ s.designRound <= MaxDesignRounds /\ s.escDesignRound <= MaxEscDesignRounds
  /\ s.implRound <= MaxReviewRounds /\ s.scopeRound <= MaxScopeFixRounds
  /\ s.idleRound <= MaxIdleRounds + 1 /\ s.escalation <= MaxEscalations

\* The gate has decided to escalate.
Escalating == pc = "escalate" \/ (pc \in {"gated", "acted"} /\ loc.out = "escalate")

\* Memory and disk are within the caps; a design round that is being held may
\* be spent, and an escalation that was decided is still allowed.
CapsInv ==
  /\ Within(st) /\ Within(disk)
  /\ pc \in {"dTurn", "dSpent"} => loc.round <= DesignCap(st)
  /\ Escalating => st.escalation < MaxEscalations

\* Updates that touch no counter.
LEMMA WithinKept ==
  ASSUME NEW s \in States, Within(s), NEW p \in {"", "design", "implement"},
         NEW t \in Statuses
  PROVE  /\ Within([s EXCEPT !.pending = p])
         /\ Within([s EXCEPT !.status = t])
         /\ Within([s EXCEPT !.reviewed = TRUE])
         /\ Within([s EXCEPT !.phase = "implement"])
  BY DEF States, Within

\* An escalation gives the counters of the new phases back, no other.
LEMMA WithinBack ==
  ASSUME NEW s \in States, Within(s)
  PROVE  Within([s EXCEPT !.phase = "design", !.escDesignRound = 0, !.implRound = 0,
                          !.scopeRound = 0, !.idleRound = 0])
<1> DEFINE b == [s EXCEPT !.phase = "design", !.escDesignRound = 0, !.implRound = 0,
                          !.scopeRound = 0, !.idleRound = 0]
<1>1. /\ b.designRound = s.designRound /\ b.escalation = s.escalation
      /\ b.escDesignRound = 0 /\ b.implRound = 0 /\ b.scopeRound = 0 /\ b.idleRound = 0
  BY DEF States
<1>2. /\ 0 <= MaxEscDesignRounds /\ 0 <= MaxReviewRounds /\ 0 <= MaxScopeFixRounds
      /\ 0 <= MaxIdleRounds + 1
  BY CapsAssumption
<1>3. QED
  BY <1>1, <1>2 DEF Within

\* The counter a design phase spends is the one its cap bounds.
LEMMA WithinDesign ==
  ASSUME NEW s \in States, Within(s)
  PROVE  /\ DesignRound(s) <= DesignCap(s)
         /\ \A n \in Nat : n <= DesignCap(s) => Within(WithDesignRound(s, n))
<1>1. DesignRound(s) <= DesignCap(s)
  BY DEF Within, DesignRound, DesignCap, Escalated
<1>2. ASSUME NEW n \in Nat, n <= DesignCap(s) PROVE Within(WithDesignRound(s, n))
  <2>1. CASE Escalated(s)
    <3>1. n <= MaxEscDesignRounds
      BY <1>2, <2>1 DEF DesignCap
    <3>2. Within([s EXCEPT !.escDesignRound = n])
      BY <3>1 DEF States, Within
    <3>3. QED
      BY <2>1, <3>2 DEF WithDesignRound
  <2>2. CASE ~Escalated(s)
    <3>1. n <= MaxDesignRounds
      BY <1>2, <2>2 DEF DesignCap
    <3>2. Within([s EXCEPT !.designRound = n])
      BY <3>1 DEF States, Within
    <3>3. QED
      BY <2>2, <3>2 DEF WithDesignRound
  <2>3. QED
    BY <2>1, <2>2
<1>3. QED
  BY <1>1, <1>2

\* Every other increment is guarded by its cap.
LEMMA WithinBump ==
  ASSUME NEW s \in States, Within(s)
  PROVE  /\ s.implRound < MaxReviewRounds => Within([s EXCEPT !.implRound = @ + 1])
         /\ s.scopeRound < MaxScopeFixRounds => Within([s EXCEPT !.scopeRound = @ + 1])
         /\ Within([s EXCEPT !.idleRound = OneIdleMore(@)])
         /\ s.escalation < MaxEscalations => Within([s EXCEPT !.escalation = @ + 1])
<1>1. s.implRound < MaxReviewRounds => Within([s EXCEPT !.implRound = @ + 1])
  <2>1. s.implRound < MaxReviewRounds => s.implRound + 1 <= MaxReviewRounds
    <3>1. s.implRound \in Nat /\ MaxReviewRounds \in Nat
      BY StateFields, CapsAssumption
    <3>2. QED
      BY <3>1
  <2>2. QED
    BY <2>1 DEF States, Within
<1>2. s.scopeRound < MaxScopeFixRounds => Within([s EXCEPT !.scopeRound = @ + 1])
  <2>1. s.scopeRound < MaxScopeFixRounds => s.scopeRound + 1 <= MaxScopeFixRounds
    <3>1. s.scopeRound \in Nat /\ MaxScopeFixRounds \in Nat
      BY StateFields, CapsAssumption
    <3>2. QED
      BY <3>1
  <2>2. QED
    BY <2>1 DEF States, Within
<1>3. Within([s EXCEPT !.idleRound = OneIdleMore(@)])
  <2>1. OneIdleMore(s.idleRound) <= MaxIdleRounds + 1
    <3>1. s.idleRound \in Nat /\ MaxIdleRounds \in Nat /\ s.idleRound <= MaxIdleRounds + 1
      BY StateFields, CapsAssumption DEF Within
    <3>2. QED
      BY <3>1 DEF OneIdleMore
  <2>2. QED
    BY <2>1 DEF States, Within
<1>4. s.escalation < MaxEscalations => Within([s EXCEPT !.escalation = @ + 1])
  <2>1. s.escalation < MaxEscalations => s.escalation + 1 <= MaxEscalations
    <3>1. s.escalation \in Nat /\ MaxEscalations \in Nat
      BY StateFields, CapsAssumption
    <3>2. QED
      BY <3>1
  <2>2. QED
    BY <2>1 DEF States, Within
<1>5. QED
  BY <1>1, <1>2, <1>3, <1>4

LEMMA WithinNew == Within(NewState) /\ Within([NewState EXCEPT !.status = "none"])
  BY CapsAssumption DEF Within, NewState

\* What a gate reports is what the loop finds in loc.out.
LEMMA GatedOut ==
  ASSUME TypeOK, NEW o \in Outs, Gated(o)
  PROVE  pc' = "gated" /\ loc'.out = o
  BY DEF Gated, TypeOK, LoopTypes, PlaceTypes, Locals

\* An escalation is decided only while there is one left.
LEMMA EscalateOrCaps ==
  ASSUME TypeOK, EscalateOr("handBack"), st' = st
  PROVE  pc' = "gated" /\ (Escalating' => st'.escalation < MaxEscalations)
<1>1. "handBack" \in Outs /\ "escalate" \in Outs
  BY DEF Outs
<1>2. QED
  BY <1>1, GatedOut DEF EscalateOr, Escalating

\* Saving a record within the caps, at a place that owes nothing.
LEMMA SaveCaps ==
  ASSUME NEW s, Within(s), Save(s), pc' \notin {"dTurn", "dSpent"}, ~Escalating'
  PROVE  CapsInv'
  BY DEF CapsInv, Save

LEMMA CapsStep == TypeOK /\ CapsInv /\ [Next]_vars => CapsInv'
<1> SUFFICES ASSUME TypeOK, CapsInv, [Next]_vars PROVE CapsInv'
  OBVIOUS
<1>0. st \in States /\ disk \in States /\ loc \in Locals /\ Within(st) /\ Within(disk)
  BY DEF TypeOK, LoopTypes, PlaceTypes, CapsInv
<1>1. CASE CreateMission
  BY <1>1, WithinNew, SaveCaps DEF CreateMission, Goto, Escalating
<1>2. CASE Resume
  BY <1>2 DEF CapsInv, Escalating, disks, Resume, Goto
<1>3. CASE Abort
  BY <1>3 DEF CapsInv, Escalating, disks, Abort, Leave
<1>4. CASE NewSession
  BY <1>4 DEF CapsInv, Escalating, disks, NewSession
<1>5. CASE Undo
  BY <1>5 DEF CapsInv, Escalating, disks, Undo
<1>6. CASE ExternalEdit
  BY <1>6 DEF CapsInv, Escalating, disks, ExternalEdit
<1>7. CASE RemovePlan
  BY <1>7 DEF CapsInv, Escalating, disks, RemovePlan
<1>8. CASE EditPlan
  BY <1>8 DEF CapsInv, Escalating, disks, EditPlan
<1>9. CASE Crash
  BY <1>9 DEF CapsInv, Escalating, disks, Crash, Goto
<1>10. CASE Restart
  BY <1>10 DEF CapsInv, Escalating, disks, Restart, Goto
<1>11. CASE PointSession
  BY <1>11 DEF CapsInv, Escalating, disks, PointSession, Goto
<1>12. CASE EnterPhase
  BY <1>12 DEF CapsInv, Escalating, disks, EnterPhase, Goto
<1>13. CASE DesignTop
  <2>1. pc' = "dTurn" => loc'.round <= DesignCap(st)
    <3>1. DesignRound(st) <= DesignCap(st)
      BY <1>0, WithinDesign
    <3>2. CASE Leave("design_failed")
      BY <3>2 DEF Leave
    <3>3. CASE ~Leave("design_failed")
      <4>1. DesignRound(st) \in Nat /\ DesignRound(st) + 1 \in Nat /\ DesignCap(st) \in Nat
        <5>1. st.designRound \in Nat /\ st.escDesignRound \in Nat
          BY <1>0, StateFields
        <5>2. DesignRound(st) \in Nat /\ DesignCap(st) \in Nat
          BY <5>1, CapsAssumption DEF DesignRound, DesignCap
        <5>3. QED
          BY <5>2
      <4>2. PICK r \in Nat, b \in BOOLEAN :
              /\ loc' = [loc EXCEPT !.pend = b, !.round = r, !.text = plan]
              /\ ~(r > DesignCap(st)) \/ r = DesignRound(st)
        BY <1>13, <3>3, <4>1 DEF DesignTop, DesignReviewOwed
      <4>3. r <= DesignCap(st)
        BY <3>1, <4>1, <4>2
      <4>4. QED
        BY <1>0, <4>2, <4>3 DEF Locals
    <3>4. QED
      BY <3>2, <3>3
  <2>2. pc' \notin {"dSpent", "gated", "acted", "escalate"} /\ st' = st /\ disk' = disk
    BY <1>13 DEF DesignTop, Leave, Goto, disks
  <2>3. QED
    BY <2>1, <2>2 DEF CapsInv, Escalating
<1>14. CASE DesignTurn
  BY <1>14 DEF CapsInv, Escalating, disks, DesignTurn, Goto, ToPrompt
<1>15. CASE DesignSpent
  <2>1. Within(WithDesignRound(st, loc.round))
    BY <1>0, <1>15, WithinDesign, LocalFields DEF DesignSpent, CapsInv
  <2>2. Within([st EXCEPT !.pending = ""])
    BY <1>0, WithinKept DEF Statuses
  <2>3. Within(st') /\ Within(disk')
    BY <1>0, <1>15, <2>1, <2>2 DEF DesignSpent, Save
  <2>4. pc' \in {"dReview", "dTop", "leave"}
    BY <1>15 DEF DesignSpent, Goto, Leave
  <2>5. QED
    BY <2>3, <2>4 DEF CapsInv, Escalating
<1>16. CASE DesignReviewPending
  <2>1. Within([st EXCEPT !.pending = "design"])
    BY <1>0, WithinKept DEF Statuses
  <2>2. QED
    BY <1>0, <1>16, <2>1 DEF CapsInv, Escalating, Save, DesignReviewPending, ToPrompt, MarkPending
<1>17. CASE DesignReviewReported
  <2>1. Within([st EXCEPT !.pending = ""])
    BY <1>0, WithinKept DEF Statuses
  <2>2. QED
    BY <1>0, <1>17, <2>1 DEF CapsInv, Escalating, Save, DesignReviewReported, Goto
<1>18. CASE DesignVerdict
  BY <1>18 DEF CapsInv, Escalating, disks, DesignVerdict, Goto, Leave
<1>19. CASE LockPlan
  BY <1>19 DEF CapsInv, Escalating, disks, LockPlan, Goto, Leave
<1>20. CASE LockCharter
  BY <1>20 DEF CapsInv, Escalating, disks, LockCharter, Goto, Leave
<1>21. CASE EnterImplement
  <2>1. Within([st EXCEPT !.phase = "implement"])
    BY <1>0, WithinKept DEF Statuses
  <2>2. QED
    BY <1>0, <1>21, <2>1 DEF CapsInv, Escalating, Save, EnterImplement, Goto
<1>22. CASE ImplementEntry
  BY <1>22 DEF CapsInv, Escalating, disks, ImplementEntry, Goto, Leave
<1>23. CASE ImplementTop
  BY <1>23 DEF CapsInv, Escalating, disks, ImplementTop, Goto
<1>24. CASE ImplementTurn
  BY <1>24 DEF CapsInv, Escalating, disks, ImplementTurn, Goto, ToPrompt
<1>25. CASE ReviewGate
  <2>1. CASE EscalateOr("handBack") /\ UNCHANGED <<st, disk>>
    BY <1>0, <2>1, EscalateOrCaps DEF CapsInv
  <2>2. CASE /\ st.scopeRound < MaxScopeFixRounds
             /\ Save([st EXCEPT !.scopeRound = @ + 1])
             /\ Gated("next")
    <3>1. pc' = "gated" /\ loc'.out = "next"
      BY <2>2, GatedOut DEF Outs
    <3>2. QED
      BY <1>0, <2>2, <3>1, WithinBump, SaveCaps DEF Escalating
  <2>3. CASE /\ Save([st EXCEPT !.idleRound = OneIdleMore(@)])
             /\ Gated(IF st.idleRound + 1 > MaxIdleRounds THEN "handBack" ELSE "next")
    <3>1. pc' = "gated" /\ loc'.out \in {"handBack", "next"}
      BY <2>3, GatedOut DEF Outs
    <3>2. QED
      BY <1>0, <2>3, <3>1, WithinBump, SaveCaps DEF Escalating
  <2>4. CASE Goto("iReview") /\ UNCHANGED <<st, disk>>
    BY <1>0, <2>4 DEF CapsInv, Escalating, Goto
  <2>5. QED
    BY <1>25, <2>1, <2>2, <2>3, <2>4 DEF ReviewGate
<1>26. CASE ImplementReviewFailed
  <2>1. pc' = "gated" /\ loc'.out # "escalate"
    <3>1. PICK o \in {"reviewFailed", "reviewInterrupted", "handBack"} : Gated(o)
      BY <1>26, Zenon DEF ImplementReviewFailed
    <3>2. QED
      BY <3>1, GatedOut DEF Outs
  <2>2. UNCHANGED <<st, disk>>
    BY <1>26 DEF ImplementReviewFailed, disks
  <2>3. QED
    BY <1>0, <2>1, <2>2 DEF CapsInv, Escalating
<1>27. CASE ImplementReviewPassed
  <2>1. pc' = "gated" /\ loc'.out # "escalate"
    <3>1. Gated("passed") /\ "passed" \in Outs
      BY <1>27 DEF ImplementReviewPassed, Outs
    <3>2. QED
      BY <3>1, GatedOut
  <2>2. UNCHANGED <<st, disk>>
    BY <1>27 DEF ImplementReviewPassed, disks
  <2>3. QED
    BY <1>0, <2>1, <2>2 DEF CapsInv, Escalating
<1>28. CASE ImplementReviewRejected
  <2>1. CASE EscalateOr("handBack") /\ UNCHANGED <<st, disk>>
    BY <1>0, <2>1, EscalateOrCaps DEF CapsInv
  <2>2. CASE Gated("handBack") /\ UNCHANGED <<st, disk>>
    <3>1. pc' = "gated" /\ loc'.out = "handBack"
      BY <2>2, GatedOut DEF Outs
    <3>2. QED
      BY <1>0, <2>2, <3>1 DEF CapsInv, Escalating
  <2>3. CASE /\ st.implRound < MaxReviewRounds
             /\ Save([st EXCEPT !.implRound = @ + 1])
             /\ Gated("next")
    <3>1. pc' = "gated" /\ loc'.out = "next"
      BY <2>3, GatedOut DEF Outs
    <3>2. QED
      BY <1>0, <2>3, <3>1, WithinBump, SaveCaps DEF Escalating
  <2>4. QED
    BY <1>28, <2>1, <2>2, <2>3 DEF ImplementReviewRejected
<1>29. CASE RetirePending
  <2>1. Within([st EXCEPT !.pending = ""])
    BY <1>0, WithinKept DEF Statuses
  <2>2. Within(st') /\ Within(disk')
    BY <1>0, <1>29, <2>1 DEF RetirePending, Save
  <2>3. st'.escalation = st.escalation
    BY <1>0, <1>29 DEF RetirePending, Save, States
  <2>4. pc = "gated" /\ pc' = "acted" /\ loc' = loc
    BY <1>29 DEF RetirePending, Goto
  <2>5. QED
    BY <2>2, <2>3, <2>4 DEF CapsInv, Escalating
<1>30. CASE GateDone
  <2>1. Within([st EXCEPT !.reviewed = TRUE])
    BY <1>0, WithinKept DEF Statuses
  <2>2. QED
    BY <1>0, <1>30, <2>1 DEF CapsInv, Escalating, Save, GateDone, Leave
<1>31. CASE GatePending
  <2>1. Within([st EXCEPT !.pending = "implement"])
    BY <1>0, WithinKept DEF Statuses
  <2>2. QED
    BY <1>0, <1>31, <2>1 DEF CapsInv, Escalating, Save, GatePending, ToPrompt, MarkPending
<1>32. CASE GateOther
  BY <1>32 DEF CapsInv, Escalating, disks, GateOther, Goto, Leave
<1>33. CASE ArchiveCharter
  <2>1. Within(st')
    BY <1>0, <1>33, WithinBump DEF ArchiveCharter, CapsInv, Escalating
  <2>2. QED
    BY <1>0, <1>33, <2>1 DEF CapsInv, Escalating, ArchiveCharter, Goto
<1>34. CASE Escalate
  BY <1>34, <1>0, WithinBack, SaveCaps DEF Escalate, Goto, Escalating
<1>35. CASE LeaveMission
  <2>1. loc.out \in Statuses
    BY <1>35 DEF LeaveMission, TypeOK, LoopTypes, PlaceTypes, Statuses
  <2>2. Within([st EXCEPT !.status = loc.out])
    BY <1>0, <2>1, WithinKept
  <2>3. QED
    BY <1>35, <2>2, SaveCaps DEF LeaveMission, ToPrompt, Escalating
<1>36. CASE UNCHANGED vars
  BY <1>36 DEF CapsInv, Escalating, vars
<1>37. QED
  BY <1>1, <1>2, <1>3, <1>4, <1>5, <1>6, <1>7, <1>8, <1>9, <1>10,
     <1>11, <1>12, <1>13, <1>14, <1>15, <1>16, <1>17, <1>18, <1>19, <1>20,
     <1>21, <1>22, <1>23, <1>24, <1>25, <1>26, <1>27, <1>28, <1>29, <1>30,
     <1>31, <1>32, <1>33, <1>34, <1>35, <1>36 DEF Next, Environment, Loop

\* No counter of a mission on disk ever passes its cap, however often it is
\* interrupted, killed, escalated and resumed (mission.go: "the
\* bound IS the safety property").
THEOREM CapsHold == Spec => []RoundsWithinCaps
<1>1. Init => CapsInv
  BY WithinNew DEF Init, CapsInv, Escalating
<1>2. CapsInv => RoundsWithinCaps
  BY DEF CapsInv, Within, RoundsWithinCaps
<1>3. QED
  BY <1>1, <1>2, CapsStep, TypeCorrect, PTL DEF Spec

----------------------------------------------------------------------------
(* Done means reviewed. *)

\* Where the implementation phase works against a baseline.
Based == {"iTop", "iTurn", "gate", "iReview", "gated", "acted"}

\* A passing review is on its way to the status.
Passing ==
  (pc \in {"gated", "acted"} /\ loc.out = "passed") \/ (pc = "leave" /\ loc.out = "done")

\* The change the reviewer is asked about, and what it leaves beside it.
InScope == changed \subseteq charter \cup Exempt /\ changed \cap charter # {}

AllReviewed == unrev \subseteq Exempt \ charter /\ InScope

\* Whatever no review saw differs from the baseline; a review runs only over a
\* change of the charter with nothing beside it but exempt files; nothing is edited
\* after it passed.
ReviewInv ==
  /\ unrev \subseteq changed
  /\ ~base => unrev = {}
  /\ pc \in Based => base
  /\ pc = "iReview" => InScope
  /\ Passing => AllReviewed

LEMMA QuietReview ==
  ASSUME ReviewInv, UNCHANGED <<changed, unrev, base>>, pc' \notin Based, ~Passing'
  PROVE  ReviewInv'
  BY DEF ReviewInv, Based

LEMMA LeaveReview ==
  ASSUME TypeOK, ReviewInv, UNCHANGED <<changed, unrev, base>>,
         NEW t \in Terminal \ {"done"}, Leave(t)
  PROVE  ReviewInv'
<1>1. pc' = "leave" /\ loc'.out = t
  BY DEF Leave, TypeOK, LoopTypes, PlaceTypes, Locals
<1>2. QED
  BY <1>1, QuietReview DEF Passing, Based

LEMMA GatedReview ==
  ASSUME TypeOK, ReviewInv, pc \in Based, unrev' \subseteq changed', base' = base,
         NEW o \in Outs \ {"passed"}, Gated(o)
  PROVE  ReviewInv'
<1>1. pc' = "gated" /\ loc'.out # "passed"
  BY GatedOut
<1>2. QED
  BY <1>1 DEF ReviewInv, Passing, Based

LEMMA EscalateOrReview ==
  ASSUME TypeOK, ReviewInv, pc \in Based, UNCHANGED <<changed, unrev, base>>,
         EscalateOr("handBack")
  PROVE  ReviewInv'
<1>1. "handBack" \in Outs \ {"passed"} /\ "escalate" \in Outs \ {"passed"}
  BY DEF Outs
<1>2. unrev' \subseteq changed' /\ base' = base
  BY DEF ReviewInv
<1>3. QED
  BY <1>1, <1>2, GatedReview DEF EscalateOr

LEMMA ReviewStep == Git /\ TypeOK /\ ReviewInv /\ [Next]_vars => ReviewInv'
<1> SUFFICES ASSUME Git, TypeOK, ReviewInv, [Next]_vars PROVE ReviewInv'
  OBVIOUS
<1>1. CASE CreateMission
  BY <1>1 DEF ReviewInv, Passing, Based, CreateMission, Goto
<1>2. CASE Resume
  BY <1>2, QuietReview DEF Passing, Based, Resume, Goto, disks, tree
<1>3. CASE Abort
  BY <1>3, LeaveReview DEF Abort, disks, tree, Terminal
<1>4. CASE NewSession
  BY <1>4, QuietReview DEF Passing, Based, NewSession, disks, tree
<1>5. CASE Undo
  BY <1>5, QuietReview DEF Passing, Based, Undo, disks, tree
<1>6. CASE ExternalEdit
  BY <1>6 DEF ReviewInv, Passing, Based, ExternalEdit, disks
<1>7. CASE RemovePlan
  BY <1>7, QuietReview DEF Passing, Based, RemovePlan, tree
<1>8. CASE EditPlan
  BY <1>8, QuietReview DEF Passing, Based, EditPlan, tree
<1>9. CASE Crash
  BY <1>9, QuietReview DEF Passing, Based, Crash, Goto, disks, tree
<1>10. CASE Restart
  BY <1>10, QuietReview DEF Passing, Based, Restart, Goto, disks, tree
<1>11. CASE PointSession
  BY <1>11, QuietReview DEF Passing, Based, PointSession, Goto, tree
<1>12. CASE EnterPhase
  BY <1>12, QuietReview DEF Passing, Based, EnterPhase, Goto, disks, tree
<1>13. CASE DesignTop
  <2>1. UNCHANGED <<changed, unrev, base>>
    BY <1>13 DEF DesignTop, disks, tree
  <2>2. CASE Leave("design_failed")
    BY <2>1, <2>2, LeaveReview DEF Terminal
  <2>3. CASE ~Leave("design_failed")
    <3>1. pc' \in {"dTurn", "dReview"}
      BY <1>13, <2>3 DEF DesignTop, Goto
    <3>2. QED
      BY <2>1, <3>1, QuietReview DEF Passing, Based
  <2>4. QED
    BY <2>2, <2>3
<1>14. CASE DesignTurn
  BY <1>14, QuietReview DEF Passing, Based, DesignTurn, Goto, ToPrompt, tree
<1>15. CASE DesignSpent
  <2>1. UNCHANGED <<changed, unrev, base>>
    BY <1>15 DEF DesignSpent, tree
  <2>2. CASE Leave("design_failed")
    BY <2>1, <2>2, LeaveReview DEF Terminal
  <2>3. CASE ~Leave("design_failed")
    <3>1. pc' \in {"dReview", "dTop"}
      BY <1>15, <2>3 DEF DesignSpent, Goto
    <3>2. QED
      BY <2>1, <3>1, QuietReview DEF Passing, Based
  <2>4. QED
    BY <2>2, <2>3
<1>16. CASE DesignReviewPending
  BY <1>16, QuietReview DEF Passing, Based, DesignReviewPending, ToPrompt, tree
<1>17. CASE DesignReviewReported
  BY <1>17, QuietReview DEF Passing, Based, DesignReviewReported, Goto, tree
<1>18. CASE DesignVerdict
  <2>1. UNCHANGED <<changed, unrev, base>>
    BY <1>18 DEF DesignVerdict, disks, tree
  <2>2. CASE Leave("design_failed") \/ Leave("handed_over")
    BY <2>1, <2>2, LeaveReview DEF Terminal
  <2>3. CASE ~(Leave("design_failed") \/ Leave("handed_over"))
    <3>1. pc' \in {"lockPlan", "dTop"}
      BY <1>18, <2>3 DEF DesignVerdict, Goto
    <3>2. QED
      BY <2>1, <3>1, QuietReview DEF Passing, Based
  <2>4. QED
    BY <2>2, <2>3
<1>19. CASE LockPlan
  <2>1. UNCHANGED <<changed, unrev, base>>
    BY <1>19 DEF LockPlan, tree
  <2>2. CASE Leave("handed_over")
    BY <2>1, <2>2, LeaveReview DEF Terminal
  <2>3. CASE ~Leave("handed_over")
    <3>1. pc' \in {"lockCharter"}
      BY <1>19, <2>3 DEF LockPlan, Goto
    <3>2. QED
      BY <2>1, <3>1, QuietReview DEF Passing, Based
  <2>4. QED
    BY <2>2, <2>3
<1>20. CASE LockCharter
  <2>1. UNCHANGED <<changed, unrev, base>>
    BY <1>20 DEF LockCharter, tree
  <2>2. CASE Leave("handed_over")
    BY <2>1, <2>2, LeaveReview DEF Terminal
  <2>3. CASE ~Leave("handed_over")
    <3>1. pc' \in {"enterImpl"}
      BY <1>20, <2>3 DEF LockCharter, Goto
    <3>2. QED
      BY <2>1, <3>1, QuietReview DEF Passing, Based
  <2>4. QED
    BY <2>2, <2>3
<1>21. CASE EnterImplement
  BY <1>21, QuietReview DEF Passing, Based, EnterImplement, Goto, tree
<1>22. CASE ImplementEntry
  <2>1. CASE charter = {}
    <3>1. Leave("handed_over") /\ UNCHANGED <<changed, unrev, base>>
      BY <1>22, <2>1 DEF ImplementEntry
    <3>2. QED
      BY <3>1, LeaveReview DEF Terminal
  <2>2. CASE charter # {}
    <3>1. pc' = "iTop" /\ unrev' = unrev /\ base'
      BY <1>22, <2>2 DEF ImplementEntry, FirstEntry, Goto
    <3>2. unrev' \subseteq changed'
      BY <1>22, <2>2 DEF ImplementEntry, FirstEntry, ReviewInv
    <3>3. QED
      BY <3>1, <3>2 DEF ReviewInv, Passing
  <2>3. QED
    BY <2>1, <2>2
<1>23. CASE ImplementTop
  <2>1. UNCHANGED <<changed, unrev, base>> /\ pc = "iTop" /\ pc' \in {"gate", "iTurn"}
    BY <1>23 DEF ImplementTop, disks, tree, Goto
  <2>2. QED
    BY <2>1 DEF ReviewInv, Passing, Based
<1>24. CASE ImplementTurn
  <2>1. base' = base /\ pc = "iTurn" /\ pc' \in {"gate", "idle"}
    BY <1>24 DEF ImplementTurn, disks, Goto, ToPrompt
  <2>2. unrev' \subseteq changed'
    BY <1>24 DEF ImplementTurn, ReviewInv
  <2>3. QED
    BY <2>1, <2>2 DEF ReviewInv, Passing, Based
<1>25. CASE ReviewGate
  <2>1. UNCHANGED <<changed, unrev, base, charter>> /\ pc = "gate"
    BY <1>25 DEF ReviewGate, tree, repl
  <2>2. pc \in Based /\ unrev' \subseteq changed'
    BY <2>1 DEF Based, ReviewInv
  <2>3. CASE EscalateOr("handBack")
    BY <2>1, <2>2, <2>3, EscalateOrReview
  <2>4. CASE Gated("next") \/ Gated("handBack")
    BY <2>1, <2>2, <2>4, GatedReview DEF Outs
  <2>5. CASE Violations = {} /\ ReviewScope # {} /\ Goto("iReview")
    <3>1. InScope
      BY <2>5 DEF Violations, ReviewScope, InScope
    <3>2. QED
      BY <2>1, <2>5, <3>1 DEF ReviewInv, Passing, Based, Goto, InScope
  <2>6. QED
    BY <1>25, <2>3, <2>4, <2>5 DEF ReviewGate
<1>26. CASE ImplementReviewFailed
  <2>1. base' = base /\ pc \in Based
    BY <1>26 DEF ImplementReviewFailed, disks, Based
  <2>2. unrev' \subseteq changed'
    BY <1>26 DEF ImplementReviewFailed, ReviewInv, tree
  <2>3. PICK o \in {"reviewFailed", "reviewInterrupted", "handBack"} : Gated(o)
    BY <1>26, Zenon DEF ImplementReviewFailed
  <2>4. o \in Outs \ {"passed"}
    BY <2>3 DEF Outs
  <2>5. QED
    BY <2>1, <2>2, <2>3, <2>4, GatedReview
<1>27. CASE ImplementReviewPassed
  <2>1. changed' = changed /\ charter' = charter /\ base' = base /\ pc = "iReview"
    BY <1>27 DEF ImplementReviewPassed, disks
  <2>2. unrev' \subseteq Exempt \ charter /\ InScope /\ unrev' \subseteq changed
    BY <1>27 DEF ImplementReviewPassed, ReviewScope, ReviewInv, InScope
  <2>3. pc' = "gated"
    BY <1>27 DEF ImplementReviewPassed, Gated
  <2>4. QED
    BY <2>1, <2>2, <2>3 DEF ReviewInv, Passing, Based, AllReviewed, InScope
<1>28. CASE ImplementReviewRejected
  <2>1. UNCHANGED <<changed, unrev, base>> /\ pc \in Based /\ unrev' \subseteq changed'
    BY <1>28 DEF ImplementReviewRejected, tree, Based, ReviewInv
  <2>2. CASE EscalateOr("handBack")
    BY <2>1, <2>2, EscalateOrReview
  <2>3. CASE Gated("next") \/ Gated("handBack")
    BY <2>1, <2>3, GatedReview DEF Outs
  <2>4. QED
    BY <1>28, <2>2, <2>3 DEF ImplementReviewRejected
<1>29. CASE RetirePending
  <2>1. UNCHANGED <<changed, unrev, base, charter, loc>> /\ pc = "gated" /\ pc' = "acted"
    BY <1>29 DEF RetirePending, tree, repl, Goto
  <2>2. QED
    BY <2>1 DEF ReviewInv, Passing, Based, AllReviewed, InScope
<1>30. CASE GateDone
  <2>1. UNCHANGED <<changed, unrev, base, charter>> /\ pc' = "leave" /\ Passing
    BY <1>30 DEF GateDone, tree, repl, Leave, Passing
  <2>2. QED
    BY <2>1 DEF ReviewInv, Based, AllReviewed, InScope
<1>31. CASE GatePending
  BY <1>31, QuietReview DEF Passing, Based, GatePending, ToPrompt, tree
<1>32. CASE GateOther
  <2>1. UNCHANGED <<changed, unrev, base, charter>> /\ pc = "acted"
    BY <1>32 DEF GateOther, disks, tree, repl
  <2>2. CASE Leave("handed_over")
    BY <2>1, <2>2, LeaveReview DEF Terminal
  <2>3. CASE ~Leave("handed_over")
    <3>1. pc' \in {"iTop", "escalate"}
      BY <1>32, <2>3 DEF GateOther, Goto
    <3>2. QED
      BY <2>1, <3>1 DEF ReviewInv, Passing, Based
  <2>4. QED
    BY <2>2, <2>3
<1>33. CASE ArchiveCharter
  BY <1>33, QuietReview DEF Passing, Based, ArchiveCharter, Goto, tree
<1>34. CASE Escalate
  BY <1>34, QuietReview DEF Passing, Based, Escalate, Goto, tree
<1>35. CASE LeaveMission
  BY <1>35, QuietReview DEF Passing, Based, LeaveMission, ToPrompt, tree
<1>36. CASE UNCHANGED vars
  BY <1>36 DEF ReviewInv, Passing, AllReviewed, InScope, vars
<1>37. QED
  BY <1>1, <1>2, <1>3, <1>4, <1>5, <1>6, <1>7, <1>8, <1>9, <1>10,
     <1>11, <1>12, <1>13, <1>14, <1>15, <1>16, <1>17, <1>18, <1>19, <1>20,
     <1>21, <1>22, <1>23, <1>24, <1>25, <1>26, <1>27, <1>28, <1>29, <1>30,
     <1>31, <1>32, <1>33, <1>34, <1>35, <1>36 DEF Next, Environment, Loop

\* Memory and disk agree on the status: it changes only together with disk.
StatusInv == st.status = disk.status

\* Only a new mission and leaveMission write a status.
LEMMA StatusStep ==
  ASSUME TypeOK, StatusInv, [Next]_vars
  PROVE  StatusInv' /\ (disk'.status = disk.status \/ CreateMission \/ LeaveMission)
<1>0. st \in States /\ st.status = disk.status
  BY DEF TypeOK, LoopTypes, StatusInv
<1>1. CASE CreateMission
  BY <1>1 DEF StatusInv, CreateMission, Save
<1>2. CASE Resume
  BY <1>2, <1>0 DEF StatusInv, Resume, disks, Save, States
<1>3. CASE Abort
  BY <1>3, <1>0 DEF StatusInv, Abort, disks, Save, States
<1>4. CASE NewSession
  BY <1>4, <1>0 DEF StatusInv, NewSession, disks, Save, States
<1>5. CASE Undo
  BY <1>5, <1>0 DEF StatusInv, Undo, disks, Save, States
<1>6. CASE ExternalEdit
  BY <1>6, <1>0 DEF StatusInv, ExternalEdit, disks, Save, States
<1>7. CASE RemovePlan
  BY <1>7, <1>0 DEF StatusInv, RemovePlan, Save, States
<1>8. CASE EditPlan
  BY <1>8, <1>0 DEF StatusInv, EditPlan, Save, States
<1>9. CASE Crash
  BY <1>9, <1>0 DEF StatusInv, Crash, disks, Save, States
<1>10. CASE Restart
  BY <1>10, <1>0 DEF StatusInv, Restart, disks, Save, States
<1>11. CASE PointSession
  BY <1>11, <1>0 DEF StatusInv, PointSession, Save, States
<1>12. CASE EnterPhase
  BY <1>12, <1>0 DEF StatusInv, EnterPhase, disks, Save, States
<1>13. CASE DesignTop
  BY <1>13, <1>0 DEF StatusInv, DesignTop, disks, Save, States
<1>14. CASE DesignTurn
  BY <1>14, <1>0 DEF StatusInv, DesignTurn, Save, States
<1>15. CASE DesignSpent
  BY <1>15, <1>0 DEF StatusInv, DesignSpent, Save, States, WithDesignRound
<1>16. CASE DesignReviewPending
  BY <1>16, <1>0 DEF StatusInv, DesignReviewPending, Save, States, MarkPending
<1>17. CASE DesignReviewReported
  BY <1>17, <1>0 DEF StatusInv, DesignReviewReported, Save, States
<1>18. CASE DesignVerdict
  BY <1>18, <1>0 DEF StatusInv, DesignVerdict, disks, Save, States
<1>19. CASE LockPlan
  BY <1>19, <1>0 DEF StatusInv, LockPlan, Save, States
<1>20. CASE LockCharter
  BY <1>20, <1>0 DEF StatusInv, LockCharter, Save, States
<1>21. CASE EnterImplement
  BY <1>21, <1>0 DEF StatusInv, EnterImplement, Save, States
<1>22. CASE ImplementEntry
  BY <1>22, <1>0 DEF StatusInv, ImplementEntry, Save, States
<1>23. CASE ImplementTop
  BY <1>23, <1>0 DEF StatusInv, ImplementTop, disks, Save, States
<1>24. CASE ImplementTurn
  BY <1>24, <1>0 DEF StatusInv, ImplementTurn, disks, Save, States
<1>25. CASE ReviewGate
  BY <1>25, <1>0 DEF StatusInv, ReviewGate, Save, States
<1>26. CASE ImplementReviewFailed
  BY <1>26, <1>0 DEF StatusInv, ImplementReviewFailed, disks, Save, States
<1>27. CASE ImplementReviewPassed
  BY <1>27, <1>0 DEF StatusInv, ImplementReviewPassed, disks, Save, States
<1>28. CASE ImplementReviewRejected
  BY <1>28, <1>0 DEF StatusInv, ImplementReviewRejected, Save, States
<1>29. CASE RetirePending
  BY <1>29, <1>0 DEF StatusInv, RetirePending, Save, States
<1>30. CASE GateDone
  BY <1>30, <1>0 DEF StatusInv, GateDone, Save, States
<1>31. CASE GatePending
  BY <1>31, <1>0 DEF StatusInv, GatePending, Save, States, MarkPending
<1>32. CASE GateOther
  BY <1>32, <1>0 DEF StatusInv, GateOther, disks, Save, States
<1>33. CASE ArchiveCharter
  BY <1>33, <1>0 DEF StatusInv, ArchiveCharter, Save, States
<1>34. CASE Escalate
  BY <1>34, <1>0 DEF StatusInv, Escalate, Save, States
<1>35. CASE LeaveMission
  BY <1>35 DEF StatusInv, LeaveMission, Save
<1>36. CASE UNCHANGED vars
  BY <1>36 DEF StatusInv, vars
<1>37. QED
  BY <1>1, <1>2, <1>3, <1>4, <1>5, <1>6, <1>7, <1>8, <1>9, <1>10,
     <1>11, <1>12, <1>13, <1>14, <1>15, <1>16, <1>17, <1>18, <1>19, <1>20,
     <1>21, <1>22, <1>23, <1>24, <1>25, <1>26, <1>27, <1>28, <1>29, <1>30,
     <1>31, <1>32, <1>33, <1>34, <1>35, <1>36 DEF Next, Environment, Loop

\* In a git worktree "done" is written only when the difference from the baseline
\* has a part in the charter, nothing outside it but exempt files, and every edit
\* but those of exempt files outside the charter passed a review, whatever crashes,
\* failing renames, escalations and edits by hand came before (missionReviewGate,
\* classifyAgainstCharter, escalateToDesign, the comment on missionStatus).
THEOREM DoneIsReviewed == ASSUME Git PROVE Spec => DoneMeansReviewed
<1>1. Init => ReviewInv /\ StatusInv
  BY DEF Init, ReviewInv, StatusInv, Passing, Based
<1>2. ASSUME TypeOK, ReviewInv, StatusInv, [Next]_vars,
             disk.status # "done", disk'.status = "done"
      PROVE  AllReviewed
  <2>1. CASE CreateMission
    BY <1>2, <2>1 DEF CreateMission, Save, NewState
  <2>2. CASE LeaveMission
    <3>1. pc = "leave" /\ disk' = [st EXCEPT !.status = loc.out] /\ st \in States
      BY <2>2, <1>2 DEF LeaveMission, Save, TypeOK, LoopTypes
    <3>2. loc.out = "done"
      BY <3>1, <1>2 DEF States
    <3>3. QED
      BY <1>2, <3>1, <3>2 DEF ReviewInv, Passing
  <2>3. QED
    BY <1>2, <2>1, <2>2, StatusStep
<1>3. TypeOK /\ ReviewInv /\ StatusInv /\ [Next]_vars => ReviewInv' /\ StatusInv'
  BY ReviewStep, StatusStep
<1>4. TypeOK /\ ReviewInv /\ StatusInv /\ [Next]_vars =>
        [disk.status # "done" /\ disk'.status = "done"
           => /\ unrev \subseteq Exempt \ charter
              /\ Git => changed \subseteq charter \cup Exempt /\ changed \cap charter # {}]_vars
  BY <1>2 DEF AllReviewed, InScope
<1>5. QED
  BY <1>1, <1>3, <1>4, TypeCorrect, PTL DEF Spec, DoneMeansReviewed
=============================================================================
