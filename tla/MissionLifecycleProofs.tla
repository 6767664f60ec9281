----------------------- MODULE MissionLifecycleProofs -----------------------
(***************************************************************************)
(* What a mission does over time.  First, the loop implements              *)
(* MissionLifecycle: whatever state.json tells its readers follows that    *)
(* specification, for every value of the constants and every fault.  Then, *)
(* from that invariant: what an implementation works from, the mode and    *)
(* the context of a turn, which review comes first, and what one run of    *)
(* the loop can cost.  Where a fault makes a property fail, the theorem    *)
(* excludes that fault and no other.                                       *)
(***************************************************************************)
EXTENDS MissionSafetyProofs

\* What state.json tells of a mission.
Told(s) == <<s.status, s.phase, s.escalation, s.reviewed>>

DesignPCs == {"dTop", "dTurn", "dSpent", "dReview", "dVerdict", "lockPlan",
              "lockCharter", "enterImpl"}
ImplementPCs == {"iEnter", "iTop", "iTurn", "gate", "iReview", "gated", "acted",
                 "escalate", "escSave"}

\* Memory and disk tell the same, but for the escalation that is being saved;
\* an attached mission is active; the loop stands in the phase it tells; it
\* leaves as done or design_failed only from the phase that may say so.
LifeInv ==
  /\ pc # "escSave" => Told(st) = Told(disk)
  /\ pc = "escSave" =>
       /\ Told(st) = <<disk.status, disk.phase, disk.escalation + 1, disk.reviewed>>
       /\ disk.escalation < MaxEscalations
  /\ attached \/ pc \notin {"idle", "down"} => st.status = "active"
  /\ pc \in DesignPCs => st.phase = "design"
  /\ pc \in ImplementPCs => st.phase = "implement"
  /\ pc = "leave" /\ loc.out = "done" => st.phase = "implement" /\ st.reviewed
  /\ pc = "leave" /\ loc.out = "design_failed" => st.phase = "design"

\* Nothing that is told changes.
SameTold == Told(st') = Told(st) /\ Told(disk') = Told(disk)

Refines == [Lifecycle!Next]_(Lifecycle!lvars)

LEMMA ToldKept ==
  ASSUME NEW s \in States, NEW p \in {"", "design", "implement"}, NEW n \in Nat
  PROVE  /\ Told([s EXCEPT !.pending = p]) = Told(s)
         /\ Told(WithDesignRound(s, n)) = Told(s)
         /\ Told([s EXCEPT !.implRound = @ + 1]) = Told(s)
         /\ Told([s EXCEPT !.scopeRound = @ + 1]) = Told(s)
         /\ Told([s EXCEPT !.idleRound = OneIdleMore(@)]) = Told(s)
<1>1. Told([s EXCEPT !.pending = p]) = Told(s)
  BY DEF States, Told
<1>2. Told(WithDesignRound(s, n)) = Told(s)
  BY DEF States, Told, WithDesignRound
<1>3. Told([s EXCEPT !.implRound = @ + 1]) = Told(s)
  BY DEF States, Told
<1>4. Told([s EXCEPT !.scopeRound = @ + 1]) = Told(s)
  BY DEF States, Told
<1>5. Told([s EXCEPT !.idleRound = OneIdleMore(@)]) = Told(s)
  BY DEF States, Told
<1>6. QED
  BY <1>1, <1>2, <1>3, <1>4, <1>5

LEMMA ToldFields ==
  ASSUME NEW s, NEW t, Told(s) = Told(t)
  PROVE  /\ s.status = t.status /\ s.phase = t.phase
         /\ s.escalation = t.escalation /\ s.reviewed = t.reviewed
  BY DEF Told

\* A step that tells nothing new, into a place of the phase told before.
LEMMA QuietLife ==
  ASSUME LifeInv, pc # "escSave", SameTold, pc' \notin {"escSave", "leave"},
         attached' \/ pc' \notin {"idle", "down"} => attached \/ pc \notin {"idle", "down"},
         pc' \in DesignPCs => st.phase = "design",
         pc' \in ImplementPCs => st.phase = "implement"
  PROVE  LifeInv' /\ Refines
<1>1. st'.status = st.status /\ st'.phase = st.phase
  BY ToldFields DEF SameTold
<1>2. LifeInv'
  BY <1>1 DEF LifeInv, SameTold
<1>3. Refines
  BY ToldFields DEF Refines, SameTold, Lifecycle!lvars
<1>4. QED
  BY <1>2, <1>3

\* Leaving, but not as done.
LEMMA LeaveLife ==
  ASSUME TypeOK, LifeInv, pc # "escSave", SameTold,
         attached \/ pc \notin {"idle", "down"},
         NEW t \in Terminal \ {"done"}, Leave(t), t = "design_failed" => st.phase = "design"
  PROVE  LifeInv' /\ Refines
<1>1. st'.status = st.status /\ st'.phase = st.phase
  BY ToldFields DEF SameTold
<1>2. pc' = "leave" /\ loc'.out = t
  BY DEF Leave, TypeOK, LoopTypes, PlaceTypes, Locals
<1>3. LifeInv'
  BY <1>1, <1>2 DEF LifeInv, SameTold, DesignPCs, ImplementPCs
<1>4. Refines
  BY ToldFields DEF Refines, SameTold, Lifecycle!lvars
<1>5. QED
  BY <1>3, <1>4

LEMMA LifeStep ==
  ASSUME TypeOK, CapsInv, LifeInv, [Next]_vars
  PROVE  LifeInv' /\ Refines
<1>0. st \in States /\ disk \in States /\ loc \in Locals
  BY DEF TypeOK, LoopTypes, PlaceTypes
<1>1. CASE CreateMission
  <2>1. st' = NewState /\ disk' = NewState /\ pc' = "created"
    BY <1>1 DEF CreateMission, Save, Goto
  <2>2. Lifecycle!Start
    BY <2>1 DEF NewState, Lifecycle!Start
  <2>3. LifeInv'
    BY <2>1 DEF LifeInv, NewState, DesignPCs, ImplementPCs
  <2>4. QED
    BY <2>2, <2>3 DEF Refines, Lifecycle!Next
<1>2. CASE Resume
  <2>1. SameTold
    BY <1>2 DEF SameTold, Resume, disks
  <2>2. pc = "idle" /\ attached /\ pc' = "loop"
    BY <1>2 DEF Resume, Goto
  <2>3. QED
    BY <2>1, <2>2, QuietLife DEF LifeInv, DesignPCs, ImplementPCs
<1>3. CASE Abort
  <2>1. SameTold /\ Leave("aborted") /\ pc = "idle" /\ attached
    BY <1>3 DEF Abort, SameTold, disks
  <2>2. QED
    BY <2>1, LeaveLife DEF Terminal
<1>4. CASE NewSession
  <2>1. SameTold
    BY <1>4 DEF SameTold, NewSession, disks
  <2>2. pc = "idle" /\ pc' = pc /\ ~attached'
    BY <1>4 DEF NewSession
  <2>3. QED
    BY <2>1, <2>2, QuietLife DEF LifeInv, DesignPCs, ImplementPCs
<1>5. CASE Undo
  <2>1. SameTold
    BY <1>5 DEF SameTold, Undo, disks
  <2>2. pc = "idle" /\ pc' = pc /\ attached
    BY <1>5 DEF Undo
  <2>3. QED
    BY <2>1, <2>2, QuietLife DEF LifeInv, DesignPCs, ImplementPCs
<1>6. CASE ExternalEdit
  <2>1. SameTold
    BY <1>6 DEF SameTold, ExternalEdit, disks
  <2>2. pc = "idle" /\ pc' = pc /\ attached
    BY <1>6 DEF ExternalEdit
  <2>3. QED
    BY <2>1, <2>2, QuietLife DEF LifeInv, DesignPCs, ImplementPCs
<1>7. CASE RemovePlan
  <2>1. SameTold
    BY <1>7 DEF SameTold, RemovePlan
  <2>2. pc = "idle" /\ pc' = pc /\ attached
    BY <1>7 DEF RemovePlan
  <2>3. QED
    BY <2>1, <2>2, QuietLife DEF LifeInv, DesignPCs, ImplementPCs
<1>8. CASE EditPlan
  <2>1. SameTold
    BY <1>8 DEF SameTold, EditPlan
  <2>2. pc = "dReview" /\ pc' = pc
    BY <1>8 DEF EditPlan
  <2>3. QED
    BY <2>1, <2>2, QuietLife DEF LifeInv, DesignPCs, ImplementPCs
<1>9. CASE Crash
  <2>1. st' = disk /\ disk' = disk /\ pc' = "down" /\ ~attached'
    BY <1>9 DEF Crash, disks, Goto
  <2>2. LifeInv'
    BY <2>1 DEF LifeInv, DesignPCs, ImplementPCs
  <2>3. QED
    BY <2>1, <2>2 DEF Refines, Lifecycle!lvars
<1>10. CASE Restart
  <2>1. st' = st /\ disk' = disk /\ pc = "down" /\ pc' = "idle"
    BY <1>10 DEF Restart, disks, Goto
  <2>2. Told(st) = Told(disk)
    BY <2>1 DEF LifeInv
  <2>3. attached' => st.status = "active"
    BY <1>10, <2>2, ToldFields DEF Restart, Attachable
  <2>4. LifeInv'
    BY <2>1, <2>2, <2>3 DEF LifeInv, DesignPCs, ImplementPCs
  <2>5. QED
    BY <2>1, <2>4 DEF Refines, Lifecycle!lvars
<1>11. CASE PointSession
  <2>1. SameTold
    BY <1>11 DEF SameTold, PointSession
  <2>2. pc = "created" /\ pc' = "loop"
    BY <1>11 DEF PointSession, Goto
  <2>3. QED
    BY <2>1, <2>2, QuietLife DEF LifeInv, DesignPCs, ImplementPCs
<1>12. CASE EnterPhase
  <2>1. SameTold
    BY <1>12 DEF SameTold, EnterPhase, disks
  <2>2. pc = "loop" /\ ((st.phase = "design" /\ pc' = "dTop") \/ (st.phase = "implement" /\ pc' = "iEnter"))
    BY <1>12 DEF EnterPhase, Goto
  <2>3. QED
    BY <2>1, <2>2, QuietLife DEF LifeInv, DesignPCs, ImplementPCs
<1>13. CASE DesignTop
  <2>1. SameTold
    BY <1>13 DEF SameTold, DesignTop, disks
  <2>2. pc = "dTop"
    BY <1>13 DEF DesignTop
  <2>3. CASE Leave("design_failed")
    BY <2>1, <2>2, <2>3, LeaveLife DEF Terminal, LifeInv, DesignPCs
  <2>4. CASE ~(Leave("design_failed"))
    <3>1. pc' \in {"dTurn", "dReview"}
      BY <1>13, <2>4 DEF DesignTop, Goto
    <3>2. QED
      BY <2>1, <2>2, <3>1, QuietLife DEF LifeInv, DesignPCs, ImplementPCs
  <2>5. QED
    BY <2>3, <2>4
<1>14. CASE DesignTurn
  <2>1. SameTold
    BY <1>14 DEF SameTold, DesignTurn
  <2>2. pc = "dTurn" /\ pc' \in {"dSpent", "idle"}
    BY <1>14 DEF DesignTurn, Goto, ToPrompt
  <2>3. QED
    BY <2>1, <2>2, QuietLife DEF LifeInv, DesignPCs, ImplementPCs
<1>15. CASE DesignSpent
  <2>1. SameTold
    <3>1. Told(WithDesignRound(st, loc.round)) = Told(st)
      BY <1>0, ToldKept, LocalFields
    <3>2. Told([st EXCEPT !.pending = ""]) = Told(st)
      BY <1>0, ToldKept
    <3>3. pc # "escSave" /\ Told(disk) = Told(st)
      BY <1>15 DEF DesignSpent, LifeInv
    <3>4. QED
      BY <1>15, <3>1, <3>2, <3>3 DEF SameTold, Save, DesignSpent
  <2>2. pc = "dSpent"
    BY <1>15 DEF DesignSpent
  <2>3. CASE Leave("design_failed")
    BY <2>1, <2>2, <2>3, LeaveLife DEF Terminal, LifeInv, DesignPCs
  <2>4. CASE ~(Leave("design_failed"))
    <3>1. pc' \in {"dReview", "dTop"}
      BY <1>15, <2>4 DEF DesignSpent, Goto
    <3>2. QED
      BY <2>1, <2>2, <3>1, QuietLife DEF LifeInv, DesignPCs, ImplementPCs
  <2>5. QED
    BY <2>3, <2>4
<1>16. CASE DesignReviewPending
  <2>1. SameTold
    BY <1>0, <1>16, ToldKept, LocalFields DEF SameTold, Save, LifeInv, DesignReviewPending, MarkPending
  <2>2. pc = "dReview" /\ pc' = "idle"
    BY <1>16 DEF DesignReviewPending, ToPrompt
  <2>3. QED
    BY <2>1, <2>2, QuietLife DEF LifeInv, DesignPCs, ImplementPCs
<1>17. CASE DesignReviewReported
  <2>1. SameTold
    BY <1>0, <1>17, ToldKept, LocalFields DEF SameTold, Save, LifeInv, DesignReviewReported
  <2>2. pc = "dReview" /\ pc' = "dVerdict"
    BY <1>17 DEF DesignReviewReported, Goto
  <2>3. QED
    BY <2>1, <2>2, QuietLife DEF LifeInv, DesignPCs, ImplementPCs
<1>18. CASE DesignVerdict
  <2>1. SameTold
    BY <1>18 DEF SameTold, DesignVerdict, disks
  <2>2. pc = "dVerdict"
    BY <1>18 DEF DesignVerdict
  <2>3. CASE Leave("handed_over") \/ Leave("design_failed")
    BY <2>1, <2>2, <2>3, LeaveLife DEF Terminal, LifeInv, DesignPCs
  <2>4. CASE ~(Leave("handed_over") \/ Leave("design_failed"))
    <3>1. pc' \in {"lockPlan", "dTop"}
      BY <1>18, <2>4 DEF DesignVerdict, Goto
    <3>2. QED
      BY <2>1, <2>2, <3>1, QuietLife DEF LifeInv, DesignPCs, ImplementPCs
  <2>5. QED
    BY <2>3, <2>4
<1>19. CASE LockPlan
  <2>1. SameTold
    BY <1>19 DEF SameTold, LockPlan
  <2>2. pc = "lockPlan"
    BY <1>19 DEF LockPlan
  <2>3. CASE Leave("handed_over")
    BY <2>1, <2>2, <2>3, LeaveLife DEF Terminal, LifeInv, DesignPCs
  <2>4. CASE ~(Leave("handed_over"))
    <3>1. pc' \in {"lockCharter"}
      BY <1>19, <2>4 DEF LockPlan, Goto
    <3>2. QED
      BY <2>1, <2>2, <3>1, QuietLife DEF LifeInv, DesignPCs, ImplementPCs
  <2>5. QED
    BY <2>3, <2>4
<1>20. CASE LockCharter
  <2>1. SameTold
    BY <1>20 DEF SameTold, LockCharter
  <2>2. pc = "lockCharter"
    BY <1>20 DEF LockCharter
  <2>3. CASE Leave("handed_over")
    BY <2>1, <2>2, <2>3, LeaveLife DEF Terminal, LifeInv, DesignPCs
  <2>4. CASE ~(Leave("handed_over"))
    <3>1. pc' \in {"enterImpl"}
      BY <1>20, <2>4 DEF LockCharter, Goto
    <3>2. QED
      BY <2>1, <2>2, <3>1, QuietLife DEF LifeInv, DesignPCs, ImplementPCs
  <2>5. QED
    BY <2>3, <2>4
<1>21. CASE EnterImplement
  <2>1. /\ st' = [st EXCEPT !.phase = "implement"] /\ disk' = st'
        /\ pc = "enterImpl" /\ pc' = "loop"
    BY <1>21 DEF EnterImplement, Save, Goto
  <2>2. st.status = "active" /\ st.phase = "design" /\ Told(st) = Told(disk)
    BY <2>1 DEF LifeInv, DesignPCs
  <2>3. /\ disk'.status = st.status /\ disk'.phase = "implement"
        /\ disk'.escalation = st.escalation /\ disk'.reviewed = st.reviewed
    BY <1>0, <2>1 DEF States
  <2>4. Lifecycle!EnterImplement
    BY <2>2, <2>3, ToldFields DEF Lifecycle!EnterImplement
  <2>5. LifeInv'
    BY <2>1, <2>2, <2>3 DEF LifeInv, DesignPCs, ImplementPCs
  <2>6. QED
    BY <2>4, <2>5 DEF Refines, Lifecycle!Next
<1>22. CASE ImplementEntry
  <2>1. SameTold
    BY <1>22 DEF SameTold, ImplementEntry
  <2>2. pc = "iEnter"
    BY <1>22 DEF ImplementEntry
  <2>3. CASE Leave("handed_over")
    BY <2>1, <2>2, <2>3, LeaveLife DEF Terminal, LifeInv, DesignPCs
  <2>4. CASE ~(Leave("handed_over"))
    <3>1. pc' \in {"iTop"}
      BY <1>22, <2>4 DEF ImplementEntry, Goto
    <3>2. QED
      BY <2>1, <2>2, <3>1, QuietLife DEF LifeInv, DesignPCs, ImplementPCs
  <2>5. QED
    BY <2>3, <2>4
<1>23. CASE ImplementTop
  <2>1. SameTold
    BY <1>23 DEF SameTold, ImplementTop, disks
  <2>2. pc = "iTop" /\ pc' \in {"gate", "iTurn"}
    BY <1>23 DEF ImplementTop, Goto
  <2>3. QED
    BY <2>1, <2>2, QuietLife DEF LifeInv, DesignPCs, ImplementPCs
<1>24. CASE ImplementTurn
  <2>1. SameTold
    BY <1>24 DEF SameTold, ImplementTurn, disks
  <2>2. pc = "iTurn" /\ pc' \in {"gate", "idle"}
    BY <1>24 DEF ImplementTurn, Goto, ToPrompt
  <2>3. QED
    BY <2>1, <2>2, QuietLife DEF LifeInv, DesignPCs, ImplementPCs
<1>25. CASE ReviewGate
  <2>1. SameTold
    BY <1>0, <1>25, ToldKept, LocalFields DEF SameTold, Save, LifeInv, ReviewGate
  <2>2. pc = "gate" /\ pc' \in {"gated", "iReview"}
    BY <1>25 DEF ReviewGate, Goto, Gated, EscalateOr
  <2>3. QED
    BY <2>1, <2>2, QuietLife DEF LifeInv, DesignPCs, ImplementPCs
<1>26. CASE ImplementReviewFailed
  <2>1. SameTold
    BY <1>26 DEF SameTold, ImplementReviewFailed, disks
  <2>2. pc = "iReview" /\ pc' = "gated"
    BY <1>26 DEF ImplementReviewFailed, Gated
  <2>3. QED
    BY <2>1, <2>2, QuietLife DEF LifeInv, DesignPCs, ImplementPCs
<1>27. CASE ImplementReviewPassed
  <2>1. SameTold
    BY <1>27 DEF SameTold, ImplementReviewPassed, disks
  <2>2. pc = "iReview" /\ pc' = "gated"
    BY <1>27 DEF ImplementReviewPassed, Gated
  <2>3. QED
    BY <2>1, <2>2, QuietLife DEF LifeInv, DesignPCs, ImplementPCs
<1>28. CASE ImplementReviewRejected
  <2>1. SameTold
    BY <1>0, <1>28, ToldKept, LocalFields DEF SameTold, Save, LifeInv, ImplementReviewRejected
  <2>2. pc = "iReview" /\ pc' = "gated"
    BY <1>28 DEF ImplementReviewRejected, Gated, EscalateOr
  <2>3. QED
    BY <2>1, <2>2, QuietLife DEF LifeInv, DesignPCs, ImplementPCs
<1>29. CASE RetirePending
  <2>1. SameTold
    BY <1>0, <1>29, ToldKept, LocalFields DEF SameTold, Save, LifeInv, RetirePending
  <2>2. pc = "gated" /\ pc' = "acted"
    BY <1>29 DEF RetirePending, Goto
  <2>3. QED
    BY <2>1, <2>2, QuietLife DEF LifeInv, DesignPCs, ImplementPCs
<1>30. CASE GateDone
  <2>1. /\ st' = [st EXCEPT !.reviewed = TRUE] /\ disk' = st'
        /\ pc = "acted" /\ pc' = "leave"
    BY <1>30 DEF GateDone, Save, Leave
  <2>2. st.status = "active" /\ st.phase = "implement" /\ Told(st) = Told(disk)
    BY <2>1 DEF LifeInv, ImplementPCs
  <2>3. /\ disk'.status = st.status /\ disk'.phase = st.phase
        /\ disk'.escalation = st.escalation /\ disk'.reviewed = TRUE
    BY <1>0, <2>1 DEF States
  <2>4. Lifecycle!RecordPass
    BY <2>2, <2>3, ToldFields DEF Lifecycle!RecordPass
  <2>5. loc'.out = "done"
    BY <1>0, <1>30 DEF GateDone, Leave, Locals
  <2>6. LifeInv'
    BY <2>1, <2>2, <2>3, <2>5 DEF LifeInv, DesignPCs, ImplementPCs
  <2>7. QED
    BY <2>4, <2>6 DEF Refines, Lifecycle!Next
<1>31. CASE GatePending
  <2>1. SameTold
    BY <1>0, <1>31, ToldKept, LocalFields DEF SameTold, Save, LifeInv, GatePending, MarkPending
  <2>2. pc = "acted" /\ pc' = "idle"
    BY <1>31 DEF GatePending, ToPrompt
  <2>3. QED
    BY <2>1, <2>2, QuietLife DEF LifeInv, DesignPCs, ImplementPCs
<1>32. CASE GateOther
  <2>1. SameTold
    BY <1>32 DEF SameTold, GateOther, disks
  <2>2. pc = "acted"
    BY <1>32 DEF GateOther
  <2>3. CASE Leave("handed_over")
    BY <2>1, <2>2, <2>3, LeaveLife DEF Terminal, LifeInv, DesignPCs
  <2>4. CASE ~(Leave("handed_over"))
    <3>1. pc' \in {"iTop", "escalate"}
      BY <1>32, <2>4 DEF GateOther, Goto
    <3>2. QED
      BY <2>1, <2>2, <3>1, QuietLife DEF LifeInv, DesignPCs, ImplementPCs
  <2>5. QED
    BY <2>3, <2>4
<1>33. CASE ArchiveCharter
  <2>1. /\ st' = [st EXCEPT !.escalation = @ + 1] /\ disk' = disk
        /\ pc = "escalate" /\ pc' = "escSave"
    BY <1>33 DEF ArchiveCharter, Goto
  <2>2. /\ st.status = "active" /\ st.phase = "implement" /\ Told(st) = Told(disk)
        /\ st.escalation < MaxEscalations
    BY <2>1 DEF LifeInv, ImplementPCs, CapsInv, Escalating
  <2>3. /\ st'.status = st.status /\ st'.phase = st.phase
        /\ st'.escalation = st.escalation + 1 /\ st'.reviewed = st.reviewed
    BY <1>0, <2>1 DEF States
  <2>4. /\ st.status = disk.status /\ st.phase = disk.phase
        /\ st.escalation = disk.escalation /\ st.reviewed = disk.reviewed
    BY <2>2, ToldFields
  <2>5. Told(st') = <<disk.status, disk.phase, disk.escalation + 1, disk.reviewed>>
    BY <2>3, <2>4 DEF Told
  <2>6. LifeInv'
    BY <2>1, <2>2, <2>3, <2>4, <2>5 DEF LifeInv, DesignPCs, ImplementPCs
  <2>7. QED
    BY <2>1, <2>6 DEF Refines, Lifecycle!lvars
<1>34. CASE Escalate
  <2>1. /\ st' = [st EXCEPT !.phase = "design", !.escDesignRound = 0, !.implRound = 0,
                            !.scopeRound = 0, !.idleRound = 0]
        /\ disk' = st' /\ pc = "escSave" /\ pc' = "loop"
    BY <1>34 DEF Escalate, Save, Goto
  <2>2. /\ st.status = "active" /\ st.phase = "implement" /\ disk.escalation < MaxEscalations
        /\ st.status = disk.status /\ st.phase = disk.phase
        /\ st.escalation = disk.escalation + 1 /\ st.reviewed = disk.reviewed
    BY <2>1 DEF LifeInv, ImplementPCs, Told
  <2>3. /\ disk'.status = st.status /\ disk'.phase = "design"
        /\ disk'.escalation = st.escalation /\ disk'.reviewed = st.reviewed
    BY <1>0, <2>1 DEF States
  <2>4. Lifecycle!Escalate
    BY <2>2, <2>3 DEF Lifecycle!Escalate
  <2>5. LifeInv'
    BY <2>1, <2>2, <2>3 DEF LifeInv, DesignPCs, ImplementPCs
  <2>6. QED
    BY <2>4, <2>5 DEF Refines, Lifecycle!Next
<1>35. CASE LeaveMission
  <2>1. /\ st' = [st EXCEPT !.status = loc.out] /\ disk' = st' /\ ~attached'
        /\ pc = "leave" /\ pc' = "idle"
    BY <1>35 DEF LeaveMission, Save, ToPrompt
  <2>2. st.status = "active" /\ Told(st) = Told(disk)
    BY <2>1 DEF LifeInv
  <2>3. /\ disk'.status = loc.out /\ disk'.phase = st.phase
        /\ disk'.escalation = st.escalation /\ disk'.reviewed = st.reviewed
    BY <1>0, <2>1 DEF States
  <2>4. loc.out \in Terminal
    BY <2>1 DEF TypeOK, LoopTypes, PlaceTypes
  <2>5. /\ loc.out = "done" => st.phase = "implement" /\ st.reviewed
        /\ loc.out = "design_failed" => st.phase = "design"
    BY <2>1 DEF LifeInv
  <2>6. Lifecycle!End
    BY <2>2, <2>3, <2>4, <2>5, ToldFields
       DEF Terminal, Lifecycle!End, Lifecycle!Done, Lifecycle!DesignFailed, Lifecycle!HandOver,
           Lifecycle!Abort
  <2>7. LifeInv'
    BY <2>1 DEF LifeInv, DesignPCs, ImplementPCs
  <2>8. QED
    BY <2>6, <2>7 DEF Refines, Lifecycle!Next
<1>36. CASE UNCHANGED vars
  BY <1>36 DEF LifeInv, Refines, Lifecycle!lvars, vars
<1>37. QED
  BY <1>1, <1>2, <1>3, <1>4, <1>5, <1>6, <1>7, <1>8, <1>9, <1>10,
     <1>11, <1>12, <1>13, <1>14, <1>15, <1>16, <1>17, <1>18, <1>19, <1>20,
     <1>21, <1>22, <1>23, <1>24, <1>25, <1>26, <1>27, <1>28, <1>29, <1>30,
     <1>31, <1>32, <1>33, <1>34, <1>35, <1>36 DEF Next, Environment, Loop

\* Whoever reads state.json sees a mission that follows MissionLifecycle: it is
\* reported done only after a recorded pass, escalates a bounded number of
\* times, and once it has ended it stays ended (missionStatus: "Only active
\* resumes"), through every crash and failing rename.
THEOREM ImplementsLifecycle == Spec => LifecycleSpec
<1>1. Init => LifeInv
  BY DEF Init, LifeInv, DesignPCs, ImplementPCs
<1>2. Init => CapsInv
  BY WithinNew DEF Init, CapsInv, Escalating
<1>3. Init => Lifecycle!Init
  BY DEF Init, NewState, Lifecycle!Init
<1>4. TypeOK /\ CapsInv /\ LifeInv /\ [Next]_vars => LifeInv' /\ [Lifecycle!Next]_(Lifecycle!lvars)
  BY LifeStep DEF Refines
<1>5. QED
  BY <1>1, <1>2, <1>3, <1>4, CapsStep, TypeCorrect, PTL DEF Spec, LifecycleSpec, Lifecycle!Spec

----------------------------------------------------------------------------
(* What the properties below share. *)

\* Memory is disk, but for the escalation that has not been saved yet.
Mirror == IF pc = "escSave" THEN st = [disk EXCEPT !.escalation = @ + 1] ELSE st = disk

LEMMA MirrorStep == Mirror /\ [Next]_vars => Mirror'
<1> SUFFICES ASSUME Mirror, [Next]_vars PROVE Mirror'
  OBVIOUS
<1>1. CASE CreateMission
  BY <1>1 DEF Mirror, CreateMission, Goto, Save
<1>2. CASE Resume
  BY <1>2 DEF Mirror, Resume, disks, Goto
<1>3. CASE Abort
  BY <1>3 DEF Mirror, Abort, disks, Leave
<1>4. CASE NewSession
  BY <1>4 DEF Mirror, NewSession, disks
<1>5. CASE Undo
  BY <1>5 DEF Mirror, Undo, disks
<1>6. CASE ExternalEdit
  BY <1>6 DEF Mirror, ExternalEdit, disks
<1>7. CASE RemovePlan
  BY <1>7 DEF Mirror, RemovePlan
<1>8. CASE EditPlan
  BY <1>8 DEF Mirror, EditPlan
<1>9. CASE Crash
  BY <1>9 DEF Mirror, Crash, disks, Goto
<1>10. CASE Restart
  BY <1>10 DEF Mirror, Restart, disks, Goto
<1>11. CASE PointSession
  BY <1>11 DEF Mirror, PointSession, Goto
<1>12. CASE EnterPhase
  BY <1>12 DEF Mirror, EnterPhase, disks, Goto
<1>13. CASE DesignTop
  BY <1>13 DEF Mirror, DesignTop, disks, Goto, Leave
<1>14. CASE DesignTurn
  BY <1>14 DEF Mirror, DesignTurn, Goto, ToPrompt
<1>15. CASE DesignSpent
  BY <1>15 DEF Mirror, DesignSpent, Goto, Leave, Save
<1>16. CASE DesignReviewPending
  BY <1>16 DEF Mirror, DesignReviewPending, ToPrompt, MarkPending, Save
<1>17. CASE DesignReviewReported
  BY <1>17 DEF Mirror, DesignReviewReported, Goto, Save
<1>18. CASE DesignVerdict
  BY <1>18 DEF Mirror, DesignVerdict, disks, Goto, Leave
<1>19. CASE LockPlan
  BY <1>19 DEF Mirror, LockPlan, Goto, Leave
<1>20. CASE LockCharter
  BY <1>20 DEF Mirror, LockCharter, Goto, Leave
<1>21. CASE EnterImplement
  BY <1>21 DEF Mirror, EnterImplement, Goto, Save
<1>22. CASE ImplementEntry
  BY <1>22 DEF Mirror, ImplementEntry, Goto, Leave
<1>23. CASE ImplementTop
  BY <1>23 DEF Mirror, ImplementTop, disks, Goto
<1>24. CASE ImplementTurn
  BY <1>24 DEF Mirror, ImplementTurn, disks, Goto, ToPrompt
<1>25. CASE ReviewGate
  BY <1>25 DEF Mirror, ReviewGate, Goto, Save, Gated, EscalateOr
<1>26. CASE ImplementReviewFailed
  BY <1>26 DEF Mirror, ImplementReviewFailed, disks, Gated
<1>27. CASE ImplementReviewPassed
  BY <1>27 DEF Mirror, ImplementReviewPassed, disks, Gated
<1>28. CASE ImplementReviewRejected
  BY <1>28 DEF Mirror, ImplementReviewRejected, Save, Gated, EscalateOr
<1>29. CASE RetirePending
  BY <1>29 DEF Mirror, RetirePending, Goto, Save
<1>30. CASE GateDone
  BY <1>30 DEF Mirror, GateDone, Leave, Save
<1>31. CASE GatePending
  BY <1>31 DEF Mirror, GatePending, ToPrompt, MarkPending, Save
<1>32. CASE GateOther
  BY <1>32 DEF Mirror, GateOther, disks, Goto, Leave
<1>33. CASE ArchiveCharter
  BY <1>33 DEF Mirror, ArchiveCharter, Goto
<1>34. CASE Escalate
  BY <1>34 DEF Mirror, Escalate, Goto, Save
<1>35. CASE LeaveMission
  BY <1>35 DEF Mirror, LeaveMission, ToPrompt, Save
<1>36. CASE UNCHANGED vars
  BY <1>36 DEF Mirror, vars
<1>37. QED
  BY <1>1, <1>2, <1>3, <1>4, <1>5, <1>6, <1>7, <1>8, <1>9, <1>10,
     <1>11, <1>12, <1>13, <1>14, <1>15, <1>16, <1>17, <1>18, <1>19, <1>20,
     <1>21, <1>22, <1>23, <1>24, <1>25, <1>26, <1>27, <1>28, <1>29, <1>30,
     <1>31, <1>32, <1>33, <1>34, <1>35, <1>36 DEF Next, Environment, Loop

\* What the earlier sections proved of every reachable state.
Base ==
  /\ TypeOK /\ CapsInv /\ CleanInv /\ LifeInv /\ Mirror

LEMMA BaseHolds == Spec => []Base
<1>1. Init => CapsInv /\ LifeInv
  BY WithinNew DEF Init, CapsInv, Escalating, LifeInv, DesignPCs, ImplementPCs
<1>2. Init => CleanInv /\ Mirror
  BY DEF Init, CleanInv, Mirror
<1>3. TypeOK /\ CapsInv /\ LifeInv /\ [Next]_vars => LifeInv'
  BY LifeStep
<1>4. Spec => [](TypeOK /\ CapsInv)
  BY <1>1, CapsStep, TypeCorrect, PTL DEF Spec
<1>5. QED
  BY <1>1, <1>2, <1>3, <1>4, CleanStep, MirrorStep, PTL DEF Spec, Base

----------------------------------------------------------------------------
(* The plan an implementation works from is the plan that was passed. *)

\* A review and its verdict are about the text on disk, the lock freezes the
\* text that was passed, and nothing passes another one while it is worked on.
PlanInv ==
  /\ pc \in {"dReview", "dVerdict"} => loc.text = plan
  /\ pc = "lockPlan" => plan = passed
  /\ pc \in {"lockCharter", "enterImpl"} \/ st.phase = "implement" => locked = passed

LEMMA PlanStep ==
  ASSUME "editplan" \notin Faults, Base, Base', PlanInv, [Next]_vars
  PROVE  PlanInv'
<1>0. st \in States /\ disk \in States /\ loc \in Locals
  BY DEF Base, TypeOK, LoopTypes, PlaceTypes
<1>b. pc \in DesignPCs => st.phase = "design"
  BY DEF Base, LifeInv
<1>1. CASE CreateMission
  BY <1>1, <1>0 DEF PlanInv, CreateMission, Goto, Save, NewState, States
<1>2. CASE Resume
  BY <1>2, <1>0 DEF PlanInv, Resume, disks, hist, Goto
<1>3. CASE Abort
  BY <1>3, <1>0 DEF PlanInv, Abort, disks, hist, Leave
<1>4. CASE NewSession
  BY <1>4, <1>0 DEF PlanInv, NewSession, disks, hist
<1>5. CASE Undo
  BY <1>5, <1>0 DEF PlanInv, Undo, disks, hist
<1>6. CASE ExternalEdit
  BY <1>6, <1>0 DEF PlanInv, ExternalEdit, disks, hist
<1>7. CASE RemovePlan
  BY <1>7, <1>0 DEF PlanInv, RemovePlan
<1>8. CASE EditPlan
  BY <1>8, <1>0 DEF PlanInv, EditPlan, hist
<1>9. CASE Crash
  <2>1. st'.phase = st.phase
    BY <1>0, <1>9 DEF Crash, Base, Mirror, States
  <2>2. QED
    BY <1>9, <2>1 DEF PlanInv, Crash, disks, Goto
<1>10. CASE Restart
  BY <1>10, <1>0 DEF PlanInv, Restart, disks, hist, Goto, Attachable
<1>11. CASE PointSession
  BY <1>11, <1>0 DEF PlanInv, PointSession, hist, Goto
<1>12. CASE EnterPhase
  BY <1>12, <1>0 DEF PlanInv, EnterPhase, disks, hist, Goto, Locals
<1>13. CASE DesignTop
  BY <1>13, <1>0 DEF PlanInv, DesignTop, disks, hist, Goto, Leave, ApplyTurnMode,
         DesignReviewOwed, Locals
<1>14. CASE DesignTurn
  BY <1>14, <1>0 DEF PlanInv, DesignTurn, Goto, ToPrompt
<1>15. CASE DesignSpent
  BY <1>15, <1>0 DEF PlanInv, DesignSpent, hist, Goto, Leave, Save, WithDesignRound,
         States, Locals
<1>16. CASE DesignReviewPending
  BY <1>16, <1>0 DEF PlanInv, DesignReviewPending, ToPrompt, MarkPending, Save, States
<1>17. CASE DesignReviewReported
  BY <1>17, <1>0 DEF PlanInv, DesignReviewReported, hist, Goto, Save, States, Locals
<1>18. CASE DesignVerdict
  <2>1. st.phase = "design" /\ st' = st /\ plan' = plan /\ locked' = locked
    BY <1>18, <1>b DEF DesignVerdict, disks, DesignPCs
  <2>2. pc' = "lockPlan" => passed' = plan
    BY <1>18 DEF DesignVerdict, PlanInv, PassVerdict, Goto, Leave
  <2>3. pc' \in {"lockPlan", "dTop", "leave"}
    BY <1>18 DEF DesignVerdict, Goto, Leave
  <2>4. QED
    BY <2>1, <2>2, <2>3 DEF PlanInv
<1>19. CASE LockPlan
  <2>1. st.phase = "design"
    BY <1>19, <1>b DEF LockPlan, DesignPCs
  <2>2. QED
    BY <1>19, <2>1 DEF PlanInv, LockPlan, Goto, Leave, hist
<1>20. CASE LockCharter
  BY <1>20, <1>0 DEF PlanInv, LockCharter, hist, Goto, Leave, Locals
<1>21. CASE EnterImplement
  BY <1>21, <1>0 DEF PlanInv, EnterImplement, hist, Goto, Save, States, Locals
<1>22. CASE ImplementEntry
  BY <1>22, <1>0 DEF PlanInv, ImplementEntry, hist, Goto, Leave, FirstEntry, Locals
<1>23. CASE ImplementTop
  BY <1>23, <1>0 DEF PlanInv, ImplementTop, disks, hist, Goto, ApplyTurnMode, Locals
<1>24. CASE ImplementTurn
  BY <1>24, <1>0 DEF PlanInv, ImplementTurn, disks, Goto, ToPrompt, Locals
<1>25. CASE ReviewGate
  BY <1>25, <1>0 DEF PlanInv, ReviewGate, hist, Goto, Save, Gated, EscalateOr, States,
         Locals
<1>26. CASE ImplementReviewFailed
  BY <1>26, <1>0 DEF PlanInv, ImplementReviewFailed, disks, hist, Gated
<1>27. CASE ImplementReviewPassed
  BY <1>27, <1>0 DEF PlanInv, ImplementReviewPassed, disks, hist, Gated
<1>28. CASE ImplementReviewRejected
  BY <1>28, <1>0 DEF PlanInv, ImplementReviewRejected, hist, Save, Gated, EscalateOr,
         States, Locals
<1>29. CASE RetirePending
  BY <1>29, <1>0 DEF PlanInv, RetirePending, hist, Goto, Save, States, Locals
<1>30. CASE GateDone
  BY <1>30, <1>0 DEF PlanInv, GateDone, hist, Leave, Save, States, Locals
<1>31. CASE GatePending
  BY <1>31, <1>0 DEF PlanInv, GatePending, ToPrompt, MarkPending, Save, States
<1>32. CASE GateOther
  BY <1>32, <1>0 DEF PlanInv, GateOther, disks, hist, Goto, Leave, Locals
<1>33. CASE ArchiveCharter
  BY <1>33, <1>0 DEF PlanInv, ArchiveCharter, hist, Goto, DropCharter, States, Locals
<1>34. CASE Escalate
  BY <1>34, <1>0 DEF PlanInv, Escalate, Goto, Save, States, Locals
<1>35. CASE LeaveMission
  BY <1>35, <1>0 DEF PlanInv, LeaveMission, ToPrompt, Save, DropCharter, States, Locals
<1>36. CASE UNCHANGED vars
  BY <1>36 DEF PlanInv, vars
<1>37. QED
  BY <1>1, <1>2, <1>3, <1>4, <1>5, <1>6, <1>7, <1>8, <1>9, <1>10,
     <1>11, <1>12, <1>13, <1>14, <1>15, <1>16, <1>17, <1>18, <1>19, <1>20,
     <1>21, <1>22, <1>23, <1>24, <1>25, <1>26, <1>27, <1>28, <1>29, <1>30,
     <1>31, <1>32, <1>33, <1>34, <1>35, <1>36 DEF Next, Environment, Loop

\* Unless somebody edits design.md under the running review, the text an
\* implementation works from is the text the last design pass was given for,
\* through crashes, failing renames, escalations and vanishing plans
\* (lockCharter reads design.md again after the verdict).
THEOREM LockedWasPassed ==
  ASSUME "editplan" \notin Faults PROVE Spec => []LockedPlanWasPassed
<1>1. Init => PlanInv
  BY DEF Init, NewState, PlanInv
<1>2. Base /\ Base' /\ PlanInv /\ [Next]_vars => PlanInv'
  BY PlanStep
<1>3. PlanInv => LockedPlanWasPassed
  BY DEF PlanInv, LockedPlanWasPassed
<1>4. QED
  BY <1>1, <1>2, <1>3, BaseHolds, PTL DEF Spec

----------------------------------------------------------------------------
(* The mode and the context a turn runs in. *)

\* A turn starts in its phase's mode; the attached mission's charter rides on
\* the carry from the lock to the escalation, and the phase runs only with one.
ModeInv ==
  /\ pc = "dTurn" => planMode /\ gateMode = "design"
  /\ pc = "iTurn" => ~planMode /\ gateMode = "implement"
  /\ attached /\ st.phase = "implement" /\ pc \notin {"escSave", "leave"} =>
       injected = (charter # {})
  /\ pc = "enterImpl" => injected /\ charter # {}
  /\ pc \in Based => charter # {}

LEMMA ModeStep ==
  ASSUME Base, Base', ModeInv, [Next]_vars
  PROVE  ModeInv'
<1>0. st \in States /\ disk \in States /\ loc \in Locals
  BY DEF Base, TypeOK, LoopTypes, PlaceTypes
<1>b. /\ pc \in DesignPCs => st.phase = "design"
      /\ pc \in ImplementPCs => st.phase = "implement"
  BY DEF Base, LifeInv
<1>c. /\ pc = "down" => ~attached
      /\ pc \notin {"idle", "down"} => attached
      /\ ~attached => ~injected
  BY DEF Base, CleanInv
<1>1. CASE CreateMission
  BY <1>1, <1>0, <1>b, <1>c DEF ModeInv, Based, CreateMission, Goto, Save, NewState, States
<1>2. CASE Resume
  BY <1>2, <1>0, <1>b, <1>c DEF ModeInv, Based, Resume, repl, Goto
<1>3. CASE Abort
  BY <1>3, <1>0, <1>b, <1>c DEF ModeInv, Based, Abort, repl, Leave
<1>4. CASE NewSession
  BY <1>4, <1>0, <1>b, <1>c DEF ModeInv, Based, NewSession
<1>5. CASE Undo
  BY <1>5, <1>0, <1>b, <1>c DEF ModeInv, Based, Undo
<1>6. CASE ExternalEdit
  BY <1>6, <1>0, <1>b, <1>c DEF ModeInv, Based, ExternalEdit, repl
<1>7. CASE RemovePlan
  BY <1>7, <1>0, <1>b, <1>c DEF ModeInv, Based, RemovePlan, repl
<1>8. CASE EditPlan
  BY <1>8, <1>0, <1>b, <1>c DEF ModeInv, Based, EditPlan, repl, DesignPCs
<1>9. CASE Crash
  BY <1>9, <1>0, <1>b, <1>c DEF ModeInv, Based, Crash, Goto, States
<1>10. CASE Restart
  BY <1>10, <1>0, <1>b, <1>c DEF ModeInv, Based, Restart, Goto, Attachable
<1>11. CASE PointSession
  BY <1>11, <1>0, <1>b, <1>c DEF ModeInv, Based, PointSession, repl, Goto
<1>12. CASE EnterPhase
  BY <1>12, <1>0, <1>b, <1>c DEF ModeInv, Based, EnterPhase, repl, Goto, Locals
<1>13. CASE DesignTop
  BY <1>13, <1>0, <1>b, <1>c DEF ModeInv, Based, DesignTop, Goto, Leave, ApplyTurnMode,
         DesignReviewOwed, Locals, DesignPCs
<1>14. CASE DesignTurn
  BY <1>14, <1>0, <1>b, <1>c DEF ModeInv, Based, DesignTurn, Goto, ToPrompt, DesignPCs
<1>15. CASE DesignSpent
  BY <1>15, <1>0, <1>b, <1>c DEF ModeInv, Based, DesignSpent, repl, Goto, Leave, Save,
         WithDesignRound, States, Locals, DesignPCs
<1>16. CASE DesignReviewPending
  BY <1>16, <1>0, <1>b, <1>c DEF ModeInv, Based, DesignReviewPending, repl, ToPrompt, MarkPending,
         Save, States, DesignPCs
<1>17. CASE DesignReviewReported
  BY <1>17, <1>0, <1>b, <1>c DEF ModeInv, Based, DesignReviewReported, repl, Goto, Save, States,
         Locals, DesignPCs
<1>18. CASE DesignVerdict
  BY <1>18, <1>0, <1>b, <1>c DEF ModeInv, Based, DesignVerdict, repl, Goto, Leave, PassVerdict,
         Locals, DesignPCs
<1>19. CASE LockPlan
  BY <1>19, <1>0, <1>b, <1>c DEF ModeInv, Based, LockPlan, repl, Goto, Leave, Locals, DesignPCs
<1>20. CASE LockCharter
  BY <1>20, <1>0, <1>b, <1>c DEF ModeInv, Based, LockCharter, Goto, Leave, Locals, DesignPCs
<1>21. CASE EnterImplement
  BY <1>21, <1>0, <1>b, <1>c DEF ModeInv, Based, EnterImplement, repl, Goto, Save, States, Locals,
         DesignPCs
<1>22. CASE ImplementEntry
  BY <1>22, <1>0, <1>b, <1>c DEF ModeInv, Based, ImplementEntry, Goto, Leave, FirstEntry, Locals,
         ImplementPCs
<1>23. CASE ImplementTop
  BY <1>23, <1>0, <1>b, <1>c DEF ModeInv, Based, ImplementTop, Goto, ApplyTurnMode, Locals,
         ImplementPCs
<1>24. CASE ImplementTurn
  BY <1>24, <1>0, <1>b, <1>c DEF ModeInv, Based, ImplementTurn, Goto, ToPrompt, Locals,
         ImplementPCs
<1>25. CASE ReviewGate
  BY <1>25, <1>0, <1>b, <1>c DEF ModeInv, Based, ReviewGate, repl, Goto, Save, Gated, EscalateOr,
         States, Locals, ImplementPCs
<1>26. CASE ImplementReviewFailed
  BY <1>26, <1>0, <1>b, <1>c DEF ModeInv, Based, ImplementReviewFailed, Gated, ImplementPCs
<1>27. CASE ImplementReviewPassed
  BY <1>27, <1>0, <1>b, <1>c DEF ModeInv, Based, ImplementReviewPassed, Gated, ImplementPCs
<1>28. CASE ImplementReviewRejected
  BY <1>28, <1>0, <1>b, <1>c DEF ModeInv, Based, ImplementReviewRejected, Save, Gated, EscalateOr,
         States, Locals, ImplementPCs
<1>29. CASE RetirePending
  BY <1>29, <1>0, <1>b, <1>c DEF ModeInv, Based, RetirePending, repl, Goto, Save, States, Locals,
         ImplementPCs
<1>30. CASE GateDone
  BY <1>30, <1>0, <1>b, <1>c DEF ModeInv, Based, GateDone, repl, Leave, Save, States, Locals,
         ImplementPCs
<1>31. CASE GatePending
  BY <1>31, <1>0, <1>b, <1>c DEF ModeInv, Based, GatePending, repl, ToPrompt, MarkPending, Save,
         States, ImplementPCs
<1>32. CASE GateOther
  BY <1>32, <1>0, <1>b, <1>c DEF ModeInv, Based, GateOther, repl, Goto, Leave, Locals,
         ImplementPCs
<1>33. CASE ArchiveCharter
  BY <1>33, <1>0, <1>b, <1>c DEF ModeInv, Based, ArchiveCharter, Goto, DropCharter, States,
         Locals, ImplementPCs
<1>34. CASE Escalate
  BY <1>34, <1>0, <1>b, <1>c DEF ModeInv, Based, Escalate, repl, Goto, Save, States, Locals,
         ImplementPCs
<1>35. CASE LeaveMission
  BY <1>35, <1>0, <1>b, <1>c DEF ModeInv, Based, LeaveMission, ToPrompt, Save, DropCharter,
         States, Locals
<1>36. CASE UNCHANGED vars
  BY <1>36 DEF ModeInv, Based, vars
<1>37. QED
  BY <1>1, <1>2, <1>3, <1>4, <1>5, <1>6, <1>7, <1>8, <1>9, <1>10,
     <1>11, <1>12, <1>13, <1>14, <1>15, <1>16, <1>17, <1>18, <1>19, <1>20,
     <1>21, <1>22, <1>23, <1>24, <1>25, <1>26, <1>27, <1>28, <1>29, <1>30,
     <1>31, <1>32, <1>33, <1>34, <1>35, <1>36 DEF Next, Environment, Loop

\* Nothing of a charter is left in a design phase.
BareDesign ==
  /\ pc # "down"
  /\ attached /\ st.phase = "design" /\ pc \notin {"enterImpl", "leave"} =>
       charter = {} /\ ~injected
  /\ pc = "escSave" => charter = {} /\ ~injected

LEMMA BareStep ==
  ASSUME Faults \cap {"crash", "rename"} = {}, Base, Base', BareDesign, [Next]_vars
  PROVE  BareDesign'
<1>0. st \in States /\ disk \in States /\ loc \in Locals
  BY DEF Base, TypeOK, LoopTypes, PlaceTypes
<1>b. /\ pc \in DesignPCs => st.phase = "design"
      /\ pc \in ImplementPCs => st.phase = "implement"
  BY DEF Base, LifeInv
<1>c. /\ pc = "down" => ~attached
      /\ pc \notin {"idle", "down"} => attached
      /\ ~attached => ~injected
  BY DEF Base, CleanInv
<1>1. CASE CreateMission
  BY <1>1, <1>0, <1>b, <1>c DEF BareDesign, CreateMission, Goto, Save, NewState, States
<1>2. CASE Resume
  BY <1>2, <1>0, <1>b, <1>c DEF BareDesign, Resume, repl, Goto
<1>3. CASE Abort
  BY <1>3, <1>0, <1>b, <1>c DEF BareDesign, Abort, repl, Leave
<1>4. CASE NewSession
  BY <1>4, <1>0, <1>b, <1>c DEF BareDesign, NewSession
<1>5. CASE Undo
  BY <1>5, <1>0, <1>b, <1>c DEF BareDesign, Undo
<1>6. CASE ExternalEdit
  BY <1>6, <1>0, <1>b, <1>c DEF BareDesign, ExternalEdit, repl
<1>7. CASE RemovePlan
  BY <1>7, <1>0, <1>b, <1>c DEF BareDesign, RemovePlan, repl
<1>8. CASE EditPlan
  BY <1>8, <1>0, <1>b, <1>c DEF BareDesign, EditPlan, repl, DesignPCs
<1>9. CASE Crash
  BY <1>9, <1>0, <1>b, <1>c DEF BareDesign, Crash, Goto, States
<1>10. CASE Restart
  BY <1>10, <1>0, <1>b, <1>c DEF BareDesign, Restart, Goto, Attachable
<1>11. CASE PointSession
  BY <1>11, <1>0, <1>b, <1>c DEF BareDesign, PointSession, repl, Goto
<1>12. CASE EnterPhase
  BY <1>12, <1>0, <1>b, <1>c DEF BareDesign, EnterPhase, repl, Goto, Locals
<1>13. CASE DesignTop
  BY <1>13, <1>0, <1>b, <1>c DEF BareDesign, DesignTop, Goto, Leave, ApplyTurnMode,
         DesignReviewOwed, Locals, DesignPCs
<1>14. CASE DesignTurn
  BY <1>14, <1>0, <1>b, <1>c DEF BareDesign, DesignTurn, Goto, ToPrompt, DesignPCs
<1>15. CASE DesignSpent
  BY <1>15, <1>0, <1>b, <1>c DEF BareDesign, DesignSpent, repl, Goto, Leave, Save,
         WithDesignRound, States, Locals, DesignPCs
<1>16. CASE DesignReviewPending
  BY <1>16, <1>0, <1>b, <1>c DEF BareDesign, DesignReviewPending, repl, ToPrompt,
         MarkPending, Save, States, DesignPCs
<1>17. CASE DesignReviewReported
  BY <1>17, <1>0, <1>b, <1>c DEF BareDesign, DesignReviewReported, repl, Goto, Save,
         States, Locals, DesignPCs
<1>18. CASE DesignVerdict
  BY <1>18, <1>0, <1>b, <1>c DEF BareDesign, DesignVerdict, repl, Goto, Leave, PassVerdict,
         Locals, DesignPCs
<1>19. CASE LockPlan
  BY <1>19, <1>0, <1>b, <1>c DEF BareDesign, LockPlan, repl, Goto, Leave, Locals,
         DesignPCs
<1>20. CASE LockCharter
  BY <1>20, <1>0, <1>b, <1>c DEF BareDesign, LockCharter, Goto, Leave, Locals, DesignPCs
<1>21. CASE EnterImplement
  BY <1>21, <1>0, <1>b, <1>c DEF BareDesign, EnterImplement, repl, Goto, Save, States,
         Locals, DesignPCs
<1>22. CASE ImplementEntry
  BY <1>22, <1>0, <1>b, <1>c DEF BareDesign, ImplementEntry, Goto, Leave, FirstEntry,
         Locals, ImplementPCs
<1>23. CASE ImplementTop
  BY <1>23, <1>0, <1>b, <1>c DEF BareDesign, ImplementTop, Goto, ApplyTurnMode, Locals,
         ImplementPCs
<1>24. CASE ImplementTurn
  BY <1>24, <1>0, <1>b, <1>c DEF BareDesign, ImplementTurn, Goto, ToPrompt, Locals,
         ImplementPCs
<1>25. CASE ReviewGate
  BY <1>25, <1>0, <1>b, <1>c DEF BareDesign, ReviewGate, repl, Goto, Save, Gated,
         EscalateOr, States, Locals, ImplementPCs
<1>26. CASE ImplementReviewFailed
  BY <1>26, <1>0, <1>b, <1>c DEF BareDesign, ImplementReviewFailed, Gated, ImplementPCs
<1>27. CASE ImplementReviewPassed
  BY <1>27, <1>0, <1>b, <1>c DEF BareDesign, ImplementReviewPassed, Gated, ImplementPCs
<1>28. CASE ImplementReviewRejected
  BY <1>28, <1>0, <1>b, <1>c DEF BareDesign, ImplementReviewRejected, Save, Gated,
         EscalateOr, States, Locals, ImplementPCs
<1>29. CASE RetirePending
  BY <1>29, <1>0, <1>b, <1>c DEF BareDesign, RetirePending, repl, Goto, Save, States,
         Locals, ImplementPCs
<1>30. CASE GateDone
  BY <1>30, <1>0, <1>b, <1>c DEF BareDesign, GateDone, repl, Leave, Save, States, Locals,
         ImplementPCs
<1>31. CASE GatePending
  BY <1>31, <1>0, <1>b, <1>c DEF BareDesign, GatePending, repl, ToPrompt, MarkPending,
         Save, States, ImplementPCs
<1>32. CASE GateOther
  BY <1>32, <1>0, <1>b, <1>c DEF BareDesign, GateOther, repl, Goto, Leave, Locals,
         ImplementPCs
<1>33. CASE ArchiveCharter
  BY <1>33, <1>0, <1>b, <1>c DEF BareDesign, ArchiveCharter, Goto, DropCharter, States,
         Locals, ImplementPCs
<1>34. CASE Escalate
  BY <1>34, <1>0, <1>b, <1>c DEF BareDesign, Escalate, repl, Goto, Save, States, Locals,
         ImplementPCs
<1>35. CASE LeaveMission
  BY <1>35, <1>0, <1>b, <1>c DEF BareDesign, LeaveMission, ToPrompt, Save, DropCharter,
         States, Locals
<1>36. CASE UNCHANGED vars
  BY <1>36 DEF BareDesign, vars
<1>37. QED
  BY <1>1, <1>2, <1>3, <1>4, <1>5, <1>6, <1>7, <1>8, <1>9, <1>10,
     <1>11, <1>12, <1>13, <1>14, <1>15, <1>16, <1>17, <1>18, <1>19, <1>20,
     <1>21, <1>22, <1>23, <1>24, <1>25, <1>26, <1>27, <1>28, <1>29, <1>30,
     <1>31, <1>32, <1>33, <1>34, <1>35, <1>36 DEF Next, Environment, Loop

\* What a turn's context owes its phase through every fault.
TurnMode ==
  /\ pc = "dTurn" => planMode /\ gateMode = "design"
  /\ pc = "iTurn" => ~planMode /\ gateMode = "implement" /\ injected /\ charter # {}

\* A design turn is read-only and an implementation turn can write, has a
\* charter and sees it, whatever crashed, vanished or failed before
\* (applyMissionTurnMode before every turn, attachSessionMission).
THEOREM ModeOfPhase == Spec => []TurnMode
<1>1. Init => ModeInv
  BY DEF Init, NewState, ModeInv, Based
<1>2. Base /\ Base' /\ ModeInv /\ [Next]_vars => ModeInv'
  BY ModeStep
<1>3. Base /\ ModeInv => TurnMode
  BY DEF Base, CleanInv, LifeInv, ImplementPCs, ModeInv, TurnMode, Based
<1>4. QED
  BY <1>1, <1>2, <1>3, BaseHolds, PTL DEF Spec

\* In a process that does not die and whose archiving does not fail, a design
\* turn moreover never sees a charter (escalateToDesign, /undo): the lock
\* written before a crash and the file a failed rename leaves behind are what
\* can put one there.
THEOREM ContextOfPhase ==
  ASSUME Faults \cap {"crash", "rename"} = {} PROVE Spec => []TurnContext
<1>1. Init => ModeInv /\ BareDesign
  BY DEF Init, NewState, ModeInv, Based, BareDesign
<1>2. Base /\ Base' /\ ModeInv /\ [Next]_vars => ModeInv'
  BY ModeStep
<1>3. Base /\ Base' /\ BareDesign /\ [Next]_vars => BareDesign'
  BY BareStep
<1>4. Base /\ ModeInv /\ BareDesign => TurnContext
  BY DEF Base, CleanInv, LifeInv, DesignPCs, ImplementPCs, ModeInv, BareDesign, TurnContext,
         Based
<1>5. QED
  BY <1>1, <1>2, <1>3, <1>4, BaseHolds, PTL DEF Spec

----------------------------------------------------------------------------
(* A plan that is owed a review gets it first. *)

\* A plan no verdict has seen is on disk, and until its review starts the
\* mission it belongs to remembers the debt; a turn without the user's words
\* never runs over it, and the mission does not give up on it.
OwedInv ==
  /\ pc # "down"
  /\ owed => plan # NoPlan
  /\ attached /\ owed =>
       /\ st.phase = "design" /\ pc \notin {"lockPlan", "lockCharter", "enterImpl"}
       /\ pc \notin {"dSpent", "dReview", "dVerdict", "leave"} => st.pending = "design"
  /\ pc = "leave" /\ loc.out = "design_failed" => ~owed
  /\ pc = "dTurn" /\ ~loc.hasInput => ~owed
  /\ pc = "iTurn" /\ ~loc.hasInput => st.pending # "implement"

LEMMA OwedStep ==
  ASSUME "crash" \notin Faults, Base, Base', OwedInv, [Next]_vars
  PROVE  OwedInv'
<1>0. st \in States /\ disk \in States /\ loc \in Locals
  BY DEF Base, TypeOK, LoopTypes, PlaceTypes
<1>b. /\ pc \in DesignPCs => st.phase = "design"
      /\ pc \in ImplementPCs => st.phase = "implement"
  BY DEF Base, LifeInv
<1>c. /\ pc = "down" => ~attached
      /\ pc \notin {"idle", "down"} => attached
      /\ ~attached => ~injected
  BY DEF Base, CleanInv
<1>1. CASE CreateMission
  BY <1>1, <1>0, <1>b, <1>c DEF OwedInv, CreateMission, Goto, Save, NewState, States
<1>2. CASE Resume
  BY <1>2, <1>0, <1>b, <1>c DEF OwedInv, Resume, disks, repl, hist, Goto
<1>3. CASE Abort
  BY <1>3, <1>0, <1>b, <1>c DEF OwedInv, Abort, disks, repl, hist, Leave
<1>4. CASE NewSession
  BY <1>4, <1>0, <1>b, <1>c DEF OwedInv, NewSession, disks, hist
<1>5. CASE Undo
  BY <1>5, <1>0, <1>b, <1>c DEF OwedInv, Undo, disks, hist
<1>6. CASE ExternalEdit
  BY <1>6, <1>0, <1>b, <1>c DEF OwedInv, ExternalEdit, disks, repl, hist
<1>7. CASE RemovePlan
  BY <1>7, <1>0, <1>b, <1>c DEF OwedInv, RemovePlan, repl
<1>8. CASE EditPlan
  <2>1. plan' # NoPlan
    BY <1>8, DataAssumption DEF EditPlan
  <2>2. QED
    BY <1>8, <2>1 DEF OwedInv, EditPlan, repl, hist
<1>9. CASE Crash
  BY <1>9, <1>0, <1>b, <1>c DEF OwedInv, Crash, disks, Goto, States
<1>10. CASE Restart
  BY <1>10, <1>0, <1>b, <1>c DEF OwedInv, Restart, disks, hist, Goto, Attachable
<1>11. CASE PointSession
  BY <1>11, <1>0, <1>b, <1>c DEF OwedInv, PointSession, repl, hist, Goto
<1>12. CASE EnterPhase
  BY <1>12, <1>0, <1>b, <1>c DEF OwedInv, EnterPhase, disks, repl, hist, Goto, Locals
<1>13. CASE DesignTop
  BY <1>13, <1>0, <1>b, <1>c DEF OwedInv, DesignTop, disks, hist, Goto, Leave,
         ApplyTurnMode, DesignReviewOwed, Locals, DesignPCs
<1>14. CASE DesignTurn
  <2>1. plan # NoPlan => plan' # NoPlan
    BY <1>14, DataAssumption DEF DesignTurn
  <2>2. st.phase = "design" /\ st' = st /\ attached' = attached
    BY <1>14, <1>b DEF DesignTurn, DesignPCs
  <2>3. CASE Goto("dSpent") /\ owed' = (plan' # NoPlan)
    <3>1. owed' => plan' # NoPlan
      BY <2>3
    <3>2. pc' = "dSpent"
      BY <2>3 DEF Goto
    <3>3. QED
      BY <2>2, <3>1, <3>2 DEF OwedInv
  <2>4. CASE ToPrompt /\ owed' = owed
    <3>1. pc = "dTurn" /\ pc' = "idle"
      BY <1>14, <2>4 DEF DesignTurn, ToPrompt
    <3>2. QED
      BY <2>1, <2>2, <2>4, <3>1 DEF OwedInv
  <2>5. QED
    BY <1>14, <2>3, <2>4 DEF DesignTurn
<1>15. CASE DesignSpent
  BY <1>15, <1>0, <1>b, <1>c DEF OwedInv, DesignSpent, repl, hist, Goto, Leave, Save,
         WithDesignRound, States, Locals, DesignPCs
<1>16. CASE DesignReviewPending
  BY <1>16, <1>0, <1>b, <1>c DEF OwedInv, DesignReviewPending, repl, ToPrompt, MarkPending,
         Save, States, DesignPCs
<1>17. CASE DesignReviewReported
  BY <1>17, <1>0, <1>b, <1>c DEF OwedInv, DesignReviewReported, repl, hist, Goto, Save,
         States, Locals, DesignPCs
<1>18. CASE DesignVerdict
  BY <1>18, <1>0, <1>b, <1>c DEF OwedInv, DesignVerdict, disks, repl, Goto, Leave,
         PassVerdict, Locals, DesignPCs
<1>19. CASE LockPlan
  BY <1>19, <1>0, <1>b, <1>c DEF OwedInv, LockPlan, repl, hist, Goto, Leave, Locals,
         DesignPCs
<1>20. CASE LockCharter
  BY <1>20, <1>0, <1>b, <1>c DEF OwedInv, LockCharter, hist, Goto, Leave, Locals,
         DesignPCs
<1>21. CASE EnterImplement
  BY <1>21, <1>0, <1>b, <1>c DEF OwedInv, EnterImplement, repl, hist, Goto, Save, States,
         Locals, DesignPCs
<1>22. CASE ImplementEntry
  BY <1>22, <1>0, <1>b, <1>c DEF OwedInv, ImplementEntry, hist, Goto, Leave, FirstEntry,
         Locals, ImplementPCs
<1>23. CASE ImplementTop
  BY <1>23, <1>0, <1>b, <1>c DEF OwedInv, ImplementTop, disks, hist, Goto, ApplyTurnMode,
         Locals, ImplementPCs
<1>24. CASE ImplementTurn
  BY <1>24, <1>0, <1>b, <1>c DEF OwedInv, ImplementTurn, disks, Goto, ToPrompt, Locals,
         ImplementPCs
<1>25. CASE ReviewGate
  BY <1>25, <1>0, <1>b, <1>c DEF OwedInv, ReviewGate, repl, hist, Goto, Save, Gated,
         EscalateOr, States, Locals, ImplementPCs
<1>26. CASE ImplementReviewFailed
  BY <1>26, <1>0, <1>b, <1>c DEF OwedInv, ImplementReviewFailed, disks, hist, Gated,
         ImplementPCs
<1>27. CASE ImplementReviewPassed
  BY <1>27, <1>0, <1>b, <1>c DEF OwedInv, ImplementReviewPassed, disks, hist, Gated,
         ImplementPCs
<1>28. CASE ImplementReviewRejected
  BY <1>28, <1>0, <1>b, <1>c DEF OwedInv, ImplementReviewRejected, hist, Save, Gated,
         EscalateOr, States, Locals, ImplementPCs
<1>29. CASE RetirePending
  BY <1>29, <1>0, <1>b, <1>c DEF OwedInv, RetirePending, repl, hist, Goto, Save, States,
         Locals, ImplementPCs
<1>30. CASE GateDone
  BY <1>30, <1>0, <1>b, <1>c DEF OwedInv, GateDone, repl, hist, Leave, Save, States,
         Locals, ImplementPCs
<1>31. CASE GatePending
  BY <1>31, <1>0, <1>b, <1>c DEF OwedInv, GatePending, repl, ToPrompt, MarkPending, Save,
         States, ImplementPCs
<1>32. CASE GateOther
  BY <1>32, <1>0, <1>b, <1>c DEF OwedInv, GateOther, disks, repl, hist, Goto, Leave,
         Locals, ImplementPCs
<1>33. CASE ArchiveCharter
  BY <1>33, <1>0, <1>b, <1>c DEF OwedInv, ArchiveCharter, hist, Goto, DropCharter, States,
         Locals, ImplementPCs
<1>34. CASE Escalate
  BY <1>34, <1>0, <1>b, <1>c DEF OwedInv, Escalate, repl, Goto, Save, States, Locals,
         ImplementPCs
<1>35. CASE LeaveMission
  BY <1>35, <1>0, <1>b, <1>c DEF OwedInv, LeaveMission, ToPrompt, Save, DropCharter,
         States, Locals
<1>36. CASE UNCHANGED vars
  BY <1>36 DEF OwedInv, vars
<1>37. QED
  BY <1>1, <1>2, <1>3, <1>4, <1>5, <1>6, <1>7, <1>8, <1>9, <1>10,
     <1>11, <1>12, <1>13, <1>14, <1>15, <1>16, <1>17, <1>18, <1>19, <1>20,
     <1>21, <1>22, <1>23, <1>24, <1>25, <1>26, <1>27, <1>28, <1>29, <1>30,
     <1>31, <1>32, <1>33, <1>34, <1>35, <1>36 DEF Next, Environment, Loop

\* Without a crash, what is owed a review is not overwritten by a turn nobody
\* asked for, in either phase (PendingReview, "A resume must dispatch that
\* review BEFORE running any design or implement turn").
THEOREM ReviewComesFirst ==
  ASSUME "crash" \notin Faults PROVE Spec => []OwedReviewComesFirst
<1>1. Init => OwedInv
  BY DEF Init, NewState, OwedInv
<1>2. Base /\ Base' /\ OwedInv /\ [Next]_vars => OwedInv'
  BY OwedStep
<1>3. OwedInv => OwedReviewComesFirst
  BY DEF OwedInv, OwedReviewComesFirst
<1>4. QED
  BY <1>1, <1>2, <1>3, BaseHolds, PTL DEF Spec

\* Without a crash no mission ends design_failed with a plan on disk that no
\* verdict has seen, at whatever cap and with whatever edits, interruptions
\* and failing renames (runDesignPhase on reviewInterrupted).
THEOREM PlansAreRead ==
  ASSUME "crash" \notin Faults PROVE Spec => NoPlanFailsUnread
<1>1. Init => OwedInv
  BY DEF Init, NewState, OwedInv
<1>2. Base /\ Base' /\ OwedInv /\ [Next]_vars => OwedInv'
  BY OwedStep
<1>3. ASSUME Base, OwedInv, [Next]_vars,
             disk.status # "design_failed", disk'.status = "design_failed"
      PROVE  ~owed
  <2>1. TypeOK /\ StatusInv
    BY <1>3 DEF Base, LifeInv, StatusInv, Told, Mirror, TypeOK, LoopTypes, States
  <2>2. CASE CreateMission
    BY <1>3, <2>2 DEF CreateMission, Save, NewState
  <2>3. CASE LeaveMission
    <3>1. pc = "leave" /\ disk' = [st EXCEPT !.status = loc.out] /\ st \in States
      BY <2>1, <2>3 DEF LeaveMission, Save, TypeOK, LoopTypes
    <3>2. loc.out = "design_failed"
      BY <3>1, <1>3 DEF States
    <3>3. QED
      BY <1>3, <3>1, <3>2 DEF OwedInv
  <2>4. QED
    BY <1>3, <2>1, <2>2, <2>3, StatusStep
<1>4. Base /\ OwedInv /\ [Next]_vars =>
        [disk.status # "design_failed" /\ disk'.status = "design_failed" => ~owed]_vars
  BY <1>3
<1>5. QED
  BY <1>1, <1>2, <1>4, BaseHolds, PTL DEF Spec, NoPlanFailsUnread

----------------------------------------------------------------------------
(* Rounds: what a design phase spends, and how often it is judged. *)

LEMMA RoundSpent ==
  ASSUME NEW s \in States, NEW n \in Nat
  PROVE  /\ DesignRound(WithDesignRound(s, n)) = n
         /\ WithDesignRound(s, n).pending = s.pending /\ WithDesignRound(s, n).phase = s.phase
         /\ WithDesignRound(s, n).escalation = s.escalation
         /\ ~Escalated(s) => WithDesignRound(s, n).designRound = n
<1>1. CASE Escalated(s)
  <2>1. WithDesignRound(s, n) = [s EXCEPT !.escDesignRound = n]
    BY <1>1 DEF WithDesignRound
  <2>2. QED
    BY <1>1, <2>1 DEF States, DesignRound, Escalated
<1>2. CASE ~Escalated(s)
  <2>1. WithDesignRound(s, n) = [s EXCEPT !.designRound = n]
    BY <1>2 DEF WithDesignRound
  <2>2. QED
    BY <1>2, <2>1 DEF States, DesignRound, Escalated
<1>3. QED
  BY <1>1, <1>2

\* The review mark names no round.
LEMMA MarkKeepsRound ==
  ASSUME NEW s \in States, NEW p \in {"", "design", "implement"}
  PROVE  LET t == [s EXCEPT !.pending = p]
         IN  /\ t.pending = p /\ t.phase = s.phase /\ t.escalation = s.escalation
             /\ t.designRound = s.designRound /\ DesignRound(t) = DesignRound(s)
  BY DEF States, DesignRound, Escalated

LEMMA DesignRoundNat ==
  ASSUME NEW s \in States
  PROVE  DesignRound(s) \in Nat
  BY StateFields DEF DesignRound

\* A turn holds the round it will spend, or the one its pending review has
\* spent already; the initial phase has spent one before it owes a review.
RoundInv ==
  /\ pc \in {"dTurn", "dSpent"} =>
       loc.round = IF loc.pend THEN DesignRound(st) ELSE DesignRound(st) + 1
  /\ pc \in {"dTurn", "dSpent", "dReview"} /\ loc.pend => st.pending = "design"
  /\ st.phase = "design" /\ ~Escalated(st) /\ (st.pending = "design" \/ pc = "dReview") =>
       st.designRound >= 1

\* A step that saves nothing, into no place of RoundInv.
LEMMA QuietRounds ==
  ASSUME RoundInv, st' = st, pc' \notin {"dTurn", "dSpent", "dReview"}
  PROVE  RoundInv'
  BY DEF RoundInv

LEMMA RoundStep ==
  ASSUME Base, RoundInv, [Next]_vars
  PROVE  RoundInv'
<1>0. st \in States /\ disk \in States /\ loc \in Locals
  BY DEF Base, TypeOK, LoopTypes, PlaceTypes
<1>b. /\ pc \in DesignPCs => st.phase = "design"
      /\ pc \in ImplementPCs => st.phase = "implement"
  BY DEF Base, LifeInv
<1>1. CASE CreateMission
  <2>1. st' = NewState /\ pc' = "created"
    BY <1>1 DEF CreateMission, Save, Goto
  <2>2. QED
    BY <2>1 DEF RoundInv, NewState
<1>2. CASE Resume
  BY <1>2, QuietRounds DEF Resume, Goto
<1>3. CASE Abort
  BY <1>3, QuietRounds DEF Abort, Leave
<1>4. CASE NewSession
  BY <1>4, QuietRounds DEF NewSession
<1>5. CASE Undo
  BY <1>5, QuietRounds DEF Undo
<1>6. CASE ExternalEdit
  BY <1>6, QuietRounds DEF ExternalEdit
<1>7. CASE RemovePlan
  BY <1>7, QuietRounds DEF RemovePlan
<1>8. CASE EditPlan
  BY <1>8 DEF RoundInv, EditPlan
<1>9. CASE Crash
  <2>1. pc' = "down" /\ st'.phase = st.phase /\ st'.pending = st.pending
      /\ st'.designRound = st.designRound
    BY <1>0, <1>9 DEF Crash, Goto, Base, Mirror, States
  <2>2. CASE pc = "escSave"
    <3>1. st.phase = "implement"
      BY <2>2, <1>b DEF ImplementPCs
    <3>2. QED
      BY <2>1, <3>1 DEF RoundInv
  <2>3. CASE pc # "escSave"
    <3>1. st' = st
      BY <1>9, <2>3 DEF Crash, Base, Mirror
    <3>2. QED
      BY <2>1, <3>1 DEF RoundInv
  <2>4. QED
    BY <2>2, <2>3
<1>10. CASE Restart
  BY <1>10, QuietRounds DEF Restart, Goto
<1>11. CASE PointSession
  BY <1>11, QuietRounds DEF PointSession, Goto
<1>12. CASE EnterPhase
  BY <1>12, QuietRounds DEF EnterPhase, Goto
<1>13. CASE DesignTop
  <2>1. st' = st /\ pc = "dTop"
    BY <1>13 DEF DesignTop, disks
  <2>2. CASE Leave("design_failed")
    BY <2>1, <2>2, QuietRounds DEF Leave
  <2>3. CASE ~Leave("design_failed")
    <3>1. DesignRound(st) \in Nat /\ DesignRound(st) + 1 \in Nat
      BY <1>0, DesignRoundNat
    <3>2. PICK b \in BOOLEAN, r \in Nat :
            /\ b = DesignReviewOwed /\ r = IF b THEN DesignRound(st) ELSE DesignRound(st) + 1
            /\ loc' = [loc EXCEPT !.pend = b, !.round = r, !.text = plan]
      BY <1>13, <2>3, <3>1 DEF DesignTop, DesignReviewOwed
    <3>3. loc'.pend = b /\ loc'.round = r
      BY <1>0, <3>2 DEF Locals
    <3>4. b => st.pending = "design"
      BY <3>2 DEF DesignReviewOwed
    <3>5. pc' = "dTurn" \/ (pc' = "dReview" /\ b)
      BY <1>13, <2>3, <3>2 DEF DesignTop, Goto
    <3>6. QED
      BY <2>1, <3>2, <3>3, <3>4, <3>5 DEF RoundInv
  <2>4. QED
    BY <2>2, <2>3
<1>14. CASE DesignTurn
  BY <1>14 DEF RoundInv, DesignTurn, Goto, ToPrompt
<1>15. CASE DesignSpent
  <2>0. /\ pc = "dSpent" /\ st.phase = "design" /\ loc.round \in Nat
        /\ loc.pend \in BOOLEAN /\ DesignRound(st) \in Nat
    BY <1>15, <1>0, <1>b, LocalFields, DesignRoundNat DEF DesignSpent, DesignPCs
  <2>1. loc'.pend = loc.pend /\ pc' \in {"dReview", "dTop", "leave"}
    BY <1>15, <1>0 DEF DesignSpent, Goto, Leave, Locals
  <2>2. CASE ~loc.pend
    <3>1. st' = WithDesignRound(st, loc.round) /\ loc.round >= 1
      BY <1>15, <2>0, <2>2 DEF DesignSpent, Save, RoundInv
    <3>2. st'.escalation = st.escalation
      BY <1>0, <2>0, <3>1, RoundSpent
    <3>3. ~Escalated(st') => st'.designRound >= 1
      BY <1>0, <2>0, <3>1, <3>2, RoundSpent DEF Escalated
    <3>4. QED
      BY <2>1, <2>2, <3>3 DEF RoundInv
  <2>3. CASE loc.pend /\ plan # NoPlan
    <3>1. st' = st /\ pc' = "dReview"
      BY <1>15, <2>3 DEF DesignSpent, Goto
    <3>2. QED
      BY <2>0, <2>1, <2>3, <3>1 DEF RoundInv
  <2>4. CASE loc.pend /\ plan = NoPlan
    <3>1. st' = [st EXCEPT !.pending = ""] /\ pc' \in {"dTop", "leave"}
      BY <1>15, <2>4 DEF DesignSpent, Save, Goto, Leave
    <3>2. st'.pending = ""
      BY <1>0, <3>1, MarkKeepsRound
    <3>3. QED
      BY <3>1, <3>2 DEF RoundInv
  <2>5. QED
    BY <2>0, <2>2, <2>3, <2>4
<1>16. CASE DesignReviewPending
  <2>1. /\ st' = [st EXCEPT !.pending = "design"] /\ pc = "dReview" /\ pc' = "idle"
        /\ st.phase = "design"
    BY <1>16, <1>b DEF DesignReviewPending, MarkPending, Save, ToPrompt, DesignPCs
  <2>2. /\ st'.escalation = st.escalation /\ st'.designRound = st.designRound
        /\ st'.phase = st.phase
    BY <1>0, <2>1, MarkKeepsRound
  <2>3. QED
    BY <2>1, <2>2 DEF RoundInv, Escalated
<1>17. CASE DesignReviewReported
  <2>1. pc = "dReview" /\ pc' = "dVerdict" /\ (st' = st \/ st' = [st EXCEPT !.pending = ""])
    BY <1>17 DEF DesignReviewReported, Save, Goto
  <2>2. st' = st \/ st'.pending = ""
    BY <1>0, <2>1, MarkKeepsRound
  <2>3. QED
    BY <2>1, <2>2 DEF RoundInv
<1>18. CASE DesignVerdict
  BY <1>18, QuietRounds DEF DesignVerdict, Goto, Leave
<1>19. CASE LockPlan
  BY <1>19, QuietRounds DEF LockPlan, Goto, Leave
<1>20. CASE LockCharter
  BY <1>20, QuietRounds DEF LockCharter, Goto, Leave
<1>21. CASE EnterImplement
  <2>1. st'.phase = "implement" /\ pc' \notin {"dTurn", "dSpent", "dReview"}
    BY <1>21, <1>0, <1>b DEF EnterImplement, Goto, Save, States, ImplementPCs
  <2>2. QED
    BY <2>1 DEF RoundInv
<1>22. CASE ImplementEntry
  BY <1>22, QuietRounds DEF ImplementEntry, Goto, Leave
<1>23. CASE ImplementTop
  BY <1>23, QuietRounds DEF ImplementTop, Goto
<1>24. CASE ImplementTurn
  BY <1>24, QuietRounds DEF ImplementTurn, Goto, ToPrompt
<1>25. CASE ReviewGate
  <2>1. st'.phase = "implement" /\ pc' \notin {"dTurn", "dSpent", "dReview"}
    BY <1>25, <1>0, <1>b DEF ReviewGate, Goto, Save, Gated, EscalateOr, States, ImplementPCs
  <2>2. QED
    BY <2>1 DEF RoundInv
<1>26. CASE ImplementReviewFailed
  BY <1>26, QuietRounds DEF ImplementReviewFailed, Gated
<1>27. CASE ImplementReviewPassed
  BY <1>27, QuietRounds DEF ImplementReviewPassed, Gated
<1>28. CASE ImplementReviewRejected
  <2>1. st'.phase = "implement" /\ pc' \notin {"dTurn", "dSpent", "dReview"}
    BY <1>28, <1>0, <1>b DEF ImplementReviewRejected, Save, Gated, EscalateOr, States, ImplementPCs
  <2>2. QED
    BY <2>1 DEF RoundInv
<1>29. CASE RetirePending
  <2>1. st'.phase = "implement" /\ pc' \notin {"dTurn", "dSpent", "dReview"}
    BY <1>29, <1>0, <1>b DEF RetirePending, Goto, Save, States, ImplementPCs
  <2>2. QED
    BY <2>1 DEF RoundInv
<1>30. CASE GateDone
  <2>1. st'.phase = "implement" /\ pc' \notin {"dTurn", "dSpent", "dReview"}
    BY <1>30, <1>0, <1>b DEF GateDone, Leave, Save, States, ImplementPCs
  <2>2. QED
    BY <2>1 DEF RoundInv
<1>31. CASE GatePending
  <2>1. st'.phase = "implement" /\ pc' \notin {"dTurn", "dSpent", "dReview"}
    BY <1>31, <1>0, <1>b DEF GatePending, ToPrompt, MarkPending, Save, States, ImplementPCs
  <2>2. QED
    BY <2>1 DEF RoundInv
<1>32. CASE GateOther
  BY <1>32, QuietRounds DEF GateOther, Goto, Leave
<1>33. CASE ArchiveCharter
  <2>1. st'.phase = "implement" /\ pc' \notin {"dTurn", "dSpent", "dReview"}
    BY <1>33, <1>0, <1>b DEF ArchiveCharter, Goto, States, ImplementPCs
  <2>2. QED
    BY <2>1 DEF RoundInv
<1>34. CASE Escalate
  <2>1. /\ st' = [st EXCEPT !.phase = "design", !.escDesignRound = 0, !.implRound = 0,
                            !.scopeRound = 0, !.idleRound = 0]
        /\ pc = "escSave" /\ pc' = "loop"
    BY <1>34 DEF Escalate, Save, Goto
  <2>2. st'.escalation = disk.escalation + 1
    BY <1>0, <2>1 DEF Base, Mirror, States
  <2>3. Escalated(st')
    <3>1. disk.escalation \in Nat
      BY <1>0, StateFields
    <3>2. QED
      BY <2>2, <3>1 DEF Escalated
  <2>4. QED
    BY <2>1, <2>3 DEF RoundInv
<1>35. CASE LeaveMission
  <2>1. /\ st' = [st EXCEPT !.status = loc.out] /\ pc' = "idle"
    BY <1>35 DEF LeaveMission, Save, ToPrompt
  <2>2. /\ st'.phase = st.phase /\ st'.pending = st.pending
        /\ st'.designRound = st.designRound /\ st'.escalation = st.escalation
    BY <1>0, <2>1 DEF States
  <2>3. QED
    BY <2>1, <2>2 DEF RoundInv, Escalated
<1>36. CASE UNCHANGED vars
  BY <1>36 DEF RoundInv, vars
<1>37. QED
  BY <1>1, <1>2, <1>3, <1>4, <1>5, <1>6, <1>7, <1>8, <1>9, <1>10,
     <1>11, <1>12, <1>13, <1>14, <1>15, <1>16, <1>17, <1>18, <1>19, <1>20,
     <1>21, <1>22, <1>23, <1>24, <1>25, <1>26, <1>27, <1>28, <1>29, <1>30,
     <1>31, <1>32, <1>33, <1>34, <1>35, <1>36 DEF Next, Environment, Loop

\* The mark of a pending design review stands for a plan on disk and for a
\* round that was spent without a verdict; so the verdicts of a design phase
\* never outnumber its rounds.
JudgedInv ==
  /\ pc = "dReview" => plan # NoPlan
  /\ st.pending = "design" =>
       /\ plan # NoPlan /\ st.phase = "design"
       /\ pc \notin {"dVerdict", "lockPlan", "lockCharter", "enterImpl"}
       /\ pc \in {"dTurn", "dSpent", "dReview"} => loc.pend
  /\ st.phase = "design" =>
       /\ verdicts <= DesignRound(st)
       /\ st.pending = "design" \/ pc \in {"dReview", "dVerdict"} => verdicts < DesignRound(st)

LEMMA NewRound == DesignRound(NewState) = 0
  BY DEF NewState, DesignRound, Escalated

\* A step that saves nothing and judges nothing, into no place of JudgedInv.
LEMMA QuietJudged ==
  ASSUME JudgedInv, UNCHANGED <<st, plan, verdicts>>,
         pc' \notin DesignPCs \ {"dTop"}
  PROVE  JudgedInv'
  BY DEF JudgedInv, DesignPCs

LEMMA JudgedStep ==
  ASSUME "rmplan" \notin Faults, Base, RoundInv, JudgedInv, [Next]_vars
  PROVE  JudgedInv'
<1>0. st \in States /\ disk \in States /\ loc \in Locals
  BY DEF Base, TypeOK, LoopTypes, PlaceTypes
<1>b. /\ pc \in DesignPCs => st.phase = "design"
      /\ pc \in ImplementPCs => st.phase = "implement"
  BY DEF Base, LifeInv
<1>t. verdicts \in Nat /\ DesignRound(st) \in Nat
  BY <1>0, DesignRoundNat DEF Base, TypeOK, HistoryTypes
<1>1. CASE CreateMission
  <2>1. st' = NewState /\ pc' = "created" /\ verdicts' = 0
    BY <1>1 DEF CreateMission, Save, Goto
  <2>2. DesignRound(st') = 0 /\ DesignRound(st') \in Nat
    BY <2>1, NewRound
  <2>3. verdicts' <= 0
    BY <2>1
  <2>4. verdicts' <= DesignRound(st')
    BY <2>2, <2>3
  <2>5. pc' \notin {"dReview", "dVerdict"} /\ st'.pending # "design"
    BY <2>1 DEF NewState
  <2>6. QED
    BY <2>4, <2>5 DEF JudgedInv
<1>2. CASE Resume
  BY <1>2, QuietJudged DEF DesignPCs, Resume, disks, hist, Goto
<1>3. CASE Abort
  BY <1>3, QuietJudged DEF DesignPCs, Abort, disks, hist, Leave
<1>4. CASE NewSession
  BY <1>4, QuietJudged DEF DesignPCs, NewSession, disks, hist
<1>5. CASE Undo
  BY <1>5, QuietJudged DEF DesignPCs, Undo, disks, hist
<1>6. CASE ExternalEdit
  BY <1>6, QuietJudged DEF DesignPCs, ExternalEdit, disks, hist
<1>7. CASE RemovePlan
  BY <1>7 DEF RemovePlan
<1>8. CASE EditPlan
  <2>1. plan' # NoPlan /\ UNCHANGED <<pc, st, loc, verdicts>>
    BY <1>8, DataAssumption DEF EditPlan, hist
  <2>2. QED
    BY <2>1 DEF JudgedInv
<1>9. CASE Crash
  <2>1. /\ pc' = "down" /\ st'.phase = st.phase /\ st'.pending = st.pending
        /\ plan' = plan /\ verdicts' = verdicts
    BY <1>0, <1>9 DEF Crash, Goto, disks, Base, Mirror, States
  <2>2. CASE pc = "escSave"
    <3>1. st.phase = "implement"
      BY <2>2, <1>b DEF ImplementPCs
    <3>2. QED
      BY <2>1, <3>1 DEF JudgedInv
  <2>3. CASE pc # "escSave"
    <3>1. st' = st
      BY <1>9, <2>3 DEF Crash, Base, Mirror
    <3>2. QED
      BY <2>1, <3>1 DEF JudgedInv
  <2>4. QED
    BY <2>2, <2>3
<1>10. CASE Restart
  BY <1>10, QuietJudged DEF DesignPCs, Restart, disks, hist, Goto
<1>11. CASE PointSession
  BY <1>11, QuietJudged DEF DesignPCs, PointSession, hist, Goto
<1>12. CASE EnterPhase
  BY <1>12, QuietJudged DEF DesignPCs, EnterPhase, disks, hist, Goto
<1>13. CASE DesignTop
  <2>1. st' = st /\ pc = "dTop" /\ plan' = plan /\ verdicts' = verdicts
    BY <1>13 DEF DesignTop, disks, hist
  <2>2. CASE Leave("design_failed")
    BY <2>1, <2>2, QuietJudged DEF DesignPCs, Leave
  <2>3. CASE ~Leave("design_failed")
    <3>1. PICK b \in BOOLEAN, r \in Nat :
            /\ b = DesignReviewOwed /\ r = IF b THEN DesignRound(st) ELSE DesignRound(st) + 1
            /\ loc' = [loc EXCEPT !.pend = b, !.round = r, !.text = plan]
      <4>1. DesignRound(st) \in Nat /\ DesignRound(st) + 1 \in Nat
        BY <1>t
      <4>2. QED
        BY <1>13, <2>3, <4>1 DEF DesignTop, DesignReviewOwed
    <3>2. loc'.pend = b
      BY <1>0, <3>1 DEF Locals
    <3>3. b = (st.pending = "design" /\ plan # NoPlan)
      BY <3>1 DEF DesignReviewOwed
    <3>4. pc' = "dTurn" \/ (pc' = "dReview" /\ b)
      BY <1>13, <2>3, <3>1 DEF DesignTop, Goto
    <3>5. QED
      BY <2>1, <3>2, <3>3, <3>4 DEF JudgedInv
  <2>4. QED
    BY <2>2, <2>3
<1>14. CASE DesignTurn
  <2>1. /\ plan # NoPlan => plan' # NoPlan
        /\ st' = st /\ verdicts' = verdicts /\ pc = "dTurn"
    BY <1>14, DataAssumption DEF DesignTurn
  <2>2. (pc' = "dSpent" /\ loc' = loc) \/ pc' = "idle"
    BY <1>14 DEF DesignTurn, Goto, ToPrompt
  <2>3. QED
    BY <2>1, <2>2 DEF JudgedInv
<1>15. CASE DesignSpent
  <2>0. /\ pc = "dSpent" /\ st.phase = "design" /\ loc.round \in Nat /\ loc.pend \in BOOLEAN
        /\ plan' = plan /\ verdicts' = verdicts
    BY <1>15, <1>0, <1>b, LocalFields DEF DesignSpent, hist, DesignPCs
  <2>1. /\ loc'.pend = loc.pend /\ pc' \in {"dReview", "dTop", "leave"}
        /\ pc' = "dReview" => plan # NoPlan
    BY <1>15, <1>0 DEF DesignSpent, Goto, Leave, Locals
  <2>2. CASE ~loc.pend
    <3>1. st' = WithDesignRound(st, loc.round) /\ loc.round = DesignRound(st) + 1
      BY <1>15, <2>0, <2>2 DEF DesignSpent, Save, RoundInv
    <3>2. DesignRound(st') = DesignRound(st) + 1 /\ st'.pending = st.pending
      BY <1>0, <2>0, <3>1, RoundSpent
    <3>3. st.pending # "design" /\ verdicts <= DesignRound(st)
      BY <2>0, <2>2 DEF JudgedInv
    <3>4. verdicts < DesignRound(st')
      BY <1>t, <3>2, <3>3
    <3>5. QED
      BY <1>t, <2>0, <2>1, <3>2, <3>3, <3>4 DEF JudgedInv
  <2>3. CASE loc.pend /\ plan # NoPlan
    <3>1. st' = st /\ pc' = "dReview"
      BY <1>15, <2>3 DEF DesignSpent, Goto
    <3>2. st.pending = "design"
      BY <2>0, <2>3 DEF RoundInv
    <3>3. QED
      BY <2>0, <2>1, <2>3, <3>1, <3>2 DEF JudgedInv
  <2>4. CASE loc.pend /\ plan = NoPlan
    BY <2>0, <2>4 DEF RoundInv, JudgedInv
  <2>5. QED
    BY <2>0, <2>2, <2>3, <2>4
<1>16. CASE DesignReviewPending
  <2>1. /\ st' = [st EXCEPT !.pending = "design"] /\ pc = "dReview" /\ pc' = "idle"
        /\ st.phase = "design" /\ plan' = plan /\ verdicts' = verdicts
    BY <1>16, <1>b DEF DesignReviewPending, MarkPending, Save, ToPrompt, DesignPCs
  <2>2. st'.phase = st.phase /\ DesignRound(st') = DesignRound(st)
    BY <1>0, <2>1, MarkKeepsRound
  <2>3. QED
    BY <2>1, <2>2 DEF JudgedInv
<1>17. CASE DesignReviewReported
  <2>1. /\ pc = "dReview" /\ pc' = "dVerdict" /\ plan' = plan /\ verdicts' = verdicts
        /\ st' = IF loc.pend THEN [st EXCEPT !.pending = ""] ELSE st
    BY <1>17 DEF DesignReviewReported, Save, Goto, hist
  <2>2. /\ st'.phase = st.phase /\ DesignRound(st') = DesignRound(st)
        /\ st'.pending # "design"
    <3>1. CASE loc.pend
      BY <1>0, <2>1, <3>1, MarkKeepsRound
    <3>2. CASE ~loc.pend
      BY <2>1, <3>2 DEF JudgedInv
    <3>3. QED
      BY <3>1, <3>2
  <2>3. QED
    BY <2>1, <2>2 DEF JudgedInv
<1>18. CASE DesignVerdict
  <2>1. /\ st' = st /\ st.phase = "design" /\ pc = "dVerdict" /\ pc' \in {"lockPlan", "dTop", "leave"}
        /\ verdicts' \in {verdicts, verdicts + 1}
    BY <1>18, <1>b DEF DesignVerdict, Goto, Leave, DesignPCs
  <2>2. st.pending # "design" /\ verdicts' <= DesignRound(st')
    BY <1>t, <2>1 DEF JudgedInv
  <2>3. QED
    BY <2>1, <2>2 DEF JudgedInv
<1>19. CASE LockPlan
  <2>1. st' = st /\ verdicts' = verdicts /\ st.pending # "design"
    BY <1>19 DEF LockPlan, hist, JudgedInv
  <2>2. pc' \in {"lockCharter", "enterImpl", "leave"}
    BY <1>19 DEF LockPlan, Goto, Leave
  <2>3. QED
    BY <2>1, <2>2 DEF JudgedInv
<1>20. CASE LockCharter
  <2>1. st' = st /\ verdicts' = verdicts /\ st.pending # "design"
    BY <1>20 DEF LockCharter, hist, JudgedInv
  <2>2. pc' \in {"lockCharter", "enterImpl", "leave"}
    BY <1>20 DEF LockCharter, Goto, Leave
  <2>3. QED
    BY <2>1, <2>2 DEF JudgedInv
<1>21. CASE EnterImplement
  <2>1. st'.phase = "implement" /\ pc' \notin {"dReview", "dVerdict"}
    BY <1>21, <1>0, <1>b DEF EnterImplement, Goto, Save, States, ImplementPCs
  <2>2. st'.pending # "design"
    BY <1>21, <1>0, <1>b DEF JudgedInv, EnterImplement, Goto, Save, States, ImplementPCs
  <2>3. QED
    BY <2>1, <2>2 DEF JudgedInv
<1>22. CASE ImplementEntry
  BY <1>22, QuietJudged DEF DesignPCs, ImplementEntry, hist, Goto, Leave
<1>23. CASE ImplementTop
  BY <1>23, QuietJudged DEF DesignPCs, ImplementTop, disks, hist, Goto
<1>24. CASE ImplementTurn
  BY <1>24, QuietJudged DEF DesignPCs, ImplementTurn, disks, Goto, ToPrompt
<1>25. CASE ReviewGate
  <2>1. st'.phase = "implement" /\ pc' \notin {"dReview", "dVerdict"}
    BY <1>25, <1>0, <1>b DEF ReviewGate, Goto, Save, Gated, EscalateOr, States, ImplementPCs
  <2>2. st'.pending # "design"
    BY <1>25, <1>0, <1>b DEF JudgedInv, ReviewGate, Goto, Save, Gated, EscalateOr, States, ImplementPCs
  <2>3. QED
    BY <2>1, <2>2 DEF JudgedInv
<1>26. CASE ImplementReviewFailed
  BY <1>26, QuietJudged DEF DesignPCs, ImplementReviewFailed, disks, hist, Gated
<1>27. CASE ImplementReviewPassed
  BY <1>27, QuietJudged DEF DesignPCs, ImplementReviewPassed, disks, hist, Gated
<1>28. CASE ImplementReviewRejected
  <2>1. st'.phase = "implement" /\ pc' \notin {"dReview", "dVerdict"}
    BY <1>28, <1>0, <1>b DEF ImplementReviewRejected, Save, Gated, EscalateOr, States, ImplementPCs
  <2>2. st'.pending # "design"
    BY <1>28, <1>0, <1>b DEF JudgedInv, ImplementReviewRejected, Save, Gated, EscalateOr, States, ImplementPCs
  <2>3. QED
    BY <2>1, <2>2 DEF JudgedInv
<1>29. CASE RetirePending
  <2>1. st'.phase = "implement" /\ pc' \notin {"dReview", "dVerdict"}
    BY <1>29, <1>0, <1>b DEF RetirePending, Goto, Save, States, ImplementPCs
  <2>2. st'.pending # "design"
    BY <1>29, <1>0, <1>b DEF JudgedInv, RetirePending, Goto, Save, States, ImplementPCs
  <2>3. QED
    BY <2>1, <2>2 DEF JudgedInv
<1>30. CASE GateDone
  <2>1. st'.phase = "implement" /\ pc' \notin {"dReview", "dVerdict"}
    BY <1>30, <1>0, <1>b DEF GateDone, Leave, Save, States, ImplementPCs
  <2>2. st'.pending # "design"
    BY <1>30, <1>0, <1>b DEF JudgedInv, GateDone, Leave, Save, States, ImplementPCs
  <2>3. QED
    BY <2>1, <2>2 DEF JudgedInv
<1>31. CASE GatePending
  <2>1. st'.phase = "implement" /\ pc' \notin {"dReview", "dVerdict"}
    BY <1>31, <1>0, <1>b DEF GatePending, ToPrompt, MarkPending, Save, States, ImplementPCs
  <2>2. st'.pending # "design"
    BY <1>31, <1>0, <1>b DEF JudgedInv, GatePending, ToPrompt, MarkPending, Save, States, ImplementPCs
  <2>3. QED
    BY <2>1, <2>2 DEF JudgedInv
<1>32. CASE GateOther
  BY <1>32, QuietJudged DEF DesignPCs, GateOther, disks, hist, Goto, Leave
<1>33. CASE ArchiveCharter
  <2>1. st'.phase = "implement" /\ pc' \notin {"dReview", "dVerdict"}
    BY <1>33, <1>0, <1>b DEF ArchiveCharter, Goto, States, ImplementPCs
  <2>2. st'.pending # "design"
    BY <1>33, <1>0, <1>b DEF JudgedInv, ArchiveCharter, Goto, States, ImplementPCs
  <2>3. QED
    BY <2>1, <2>2 DEF JudgedInv
<1>34. CASE Escalate
  <2>1. /\ st' = [st EXCEPT !.phase = "design", !.escDesignRound = 0, !.implRound = 0,
                            !.scopeRound = 0, !.idleRound = 0]
        /\ pc = "escSave" /\ pc' = "loop" /\ verdicts' = 0
    BY <1>34 DEF Escalate, Save, Goto
  <2>2. st'.pending = st.pending /\ st.phase = "implement"
    BY <1>0, <1>b, <2>1 DEF States, ImplementPCs
  <2>3. DesignRound(st') \in Nat
    BY <1>0, <2>1, BackToDesign, DesignRoundNat
  <2>4. 0 <= DesignRound(st')
    BY <2>3
  <2>5. QED
    BY <2>1, <2>2, <2>4 DEF JudgedInv
<1>35. CASE LeaveMission
  <2>1. /\ st' = [st EXCEPT !.status = loc.out] /\ pc' = "idle"
        /\ plan' = plan /\ verdicts' = verdicts
    BY <1>35 DEF LeaveMission, Save, ToPrompt
  <2>2. /\ st'.phase = st.phase /\ st'.pending = st.pending
        /\ DesignRound(st') = DesignRound(st)
    BY <1>0, <2>1 DEF States, DesignRound, Escalated
  <2>3. QED
    BY <2>1, <2>2 DEF JudgedInv
<1>36. CASE UNCHANGED vars
  BY <1>36 DEF JudgedInv, vars
<1>37. QED
  BY <1>1, <1>2, <1>3, <1>4, <1>5, <1>6, <1>7, <1>8, <1>9, <1>10,
     <1>11, <1>12, <1>13, <1>14, <1>15, <1>16, <1>17, <1>18, <1>19, <1>20,
     <1>21, <1>22, <1>23, <1>24, <1>25, <1>26, <1>27, <1>28, <1>29, <1>30,
     <1>31, <1>32, <1>33, <1>34, <1>35, <1>36 DEF Next, Environment, Loop

----------------------------------------------------------------------------
(* The turns one run of the loop can cost. *)

\* What an escalation adds: its design phase and the implementation after it.
TurnsPerEscalation == MaxEscDesignRounds + ImplementTurns

\* The turns that can precede the design phase of the k-th escalation, and
\* the implementation phase after it.
DesignBase(k) ==
  IF k = 0 THEN 0 ELSE MaxDesignRounds + ImplementTurns + (k - 1) * TurnsPerEscalation
ImplementBase(k) == MaxDesignRounds + k * TurnsPerEscalation

\* The idle counter may be saved one past its cap, which buys no turn.
CountedIdle(n) == IF n > MaxIdleRounds THEN MaxIdleRounds ELSE n

\* What the counters of s have paid for: every turn of a run has spent one.
Paid(s) ==
  IF s.phase = "design"
  THEN DesignBase(s.escalation) + DesignRound(s)
  ELSE ImplementBase(s.escalation) + s.implRound + s.scopeRound + CountedIdle(s.idleRound)

\* The mark of a pending design review stands for a round paid by an earlier
\* run, which the user's amendment may use once.
Owes(s) == IF s.pending = "design" THEN 1 ELSE 0
Held == IF loc.pend THEN 0 ELSE Owes(st)

\* The places between two turns where every turn of this run is paid for.
Between == {"loop", "dTop", "dTurn", "dVerdict", "lockPlan", "lockCharter", "enterImpl",
            "iEnter", "iTop", "iTurn"}

\* Every turn is paid for, but for the one that has just run.
TurnInv ==
  /\ pc \in {"idle", "down", "created"} => turns = 0
  /\ pc \in Between => turns + Owes(st) <= Paid(st)
  /\ pc = "dSpent" => turns + Held <= DesignBase(st.escalation) + loc.round
  /\ pc = "dReview" => turns + Held <= Paid(st)
  /\ pc \in {"gate", "iReview"} => turns + Owes(st) <= Paid(st) + 1
  /\ pc \in {"gated", "acted"} =>
       turns + Owes(st) <= Paid(st) + IF loc.out = "next" THEN 0 ELSE 1
  /\ pc = "escalate" => turns + Owes(st) <= ImplementBase(st.escalation) + ImplementTurns
  /\ pc = "escSave" => turns + Owes(st) <= DesignBase(st.escalation)
  /\ pc = "leave" => turns <= MostTurns

LEMMA Constants ==
  /\ MaxDesignRounds \in Nat /\ 1 <= MaxDesignRounds /\ MaxEscDesignRounds \in Nat
  /\ MaxEscalations \in Nat /\ ImplementTurns \in Nat /\ TurnsPerEscalation \in Nat
  BY CapsAssumption DEF ImplementTurns, TurnsPerEscalation

\* The phases follow one another without a gap.
LEMMA Bases ==
  ASSUME NEW k \in Nat
  PROVE  /\ DesignBase(k) \in Nat /\ ImplementBase(k) \in Nat
         /\ 1 <= ImplementBase(k)
         /\ k > 0 => 1 <= DesignBase(k) /\ DesignBase(k) + MaxEscDesignRounds = ImplementBase(k)
         /\ DesignBase(0) + MaxDesignRounds = ImplementBase(0)
         /\ ImplementBase(k) + ImplementTurns = DesignBase(k + 1)
         /\ k <= MaxEscalations => ImplementBase(k) + ImplementTurns <= MostTurns
<1> DEFINE T == TurnsPerEscalation
<1>0. /\ MaxDesignRounds \in Nat /\ 1 <= MaxDesignRounds /\ MaxEscDesignRounds \in Nat
      /\ MaxEscalations \in Nat /\ ImplementTurns \in Nat /\ T \in Nat
      /\ T = MaxEscDesignRounds + ImplementTurns
  BY Constants DEF TurnsPerEscalation
<1>1. ASSUME NEW n \in Nat PROVE n * T \in Nat /\ 0 * T = 0
  BY <1>0
<1>2. k > 0 => k - 1 \in Nat /\ k * T = (k - 1) * T + T
  BY <1>0
<1>3. (k + 1) - 1 = k /\ k + 1 # 0
  OBVIOUS
<1>4. k * T \in Nat /\ (k > 0 => (k - 1) * T \in Nat)
  BY <1>1, <1>2
<1>5. DesignBase(k) \in Nat /\ ImplementBase(k) \in Nat /\ 1 <= ImplementBase(k)
  BY <1>0, <1>4 DEF DesignBase, ImplementBase
<1>6. k > 0 => 1 <= DesignBase(k) /\ DesignBase(k) + MaxEscDesignRounds = ImplementBase(k)
  BY <1>0, <1>2, <1>4 DEF DesignBase, ImplementBase
<1>7. DesignBase(0) + MaxDesignRounds = ImplementBase(0)
  BY <1>0, <1>1 DEF DesignBase, ImplementBase
<1>8. ImplementBase(k) + ImplementTurns = DesignBase(k + 1)
  BY <1>0, <1>3, <1>4 DEF DesignBase, ImplementBase
<1>9. ASSUME k <= MaxEscalations
      PROVE  ImplementBase(k) + ImplementTurns <= MostTurns
  <2>1. PICK d \in Nat : MaxEscalations = k + d
    <3>1. MaxEscalations - k \in Nat /\ MaxEscalations = k + (MaxEscalations - k)
      BY <1>0, <1>9
    <3>2. QED
      BY <3>1
  <2>2. (k + d) * T = k * T + d * T /\ d * T \in Nat
    BY <1>0, <1>1, <2>1
  <2>3. k * T <= MaxEscalations * T
    BY <1>4, <2>1, <2>2
  <2>4. MaxEscalations * T \in Nat
    BY <1>0, <1>1
  <2>5. MostTurns = MaxDesignRounds + ImplementTurns + MaxEscalations * T
    BY <1>0 DEF MostTurns
  <2>6. QED
    BY <1>0, <1>4, <2>3, <2>4, <2>5 DEF ImplementBase
<1>10. QED
  BY <1>5, <1>6, <1>7, <1>8, <1>9

LEMMA PaidNat ==
  ASSUME NEW s \in States
  PROVE  /\ s.escalation \in Nat /\ Paid(s) \in Nat /\ Owes(s) \in {0, 1}
         /\ DesignRound(s) \in Nat /\ DesignBase(s.escalation) \in Nat
         /\ ImplementBase(s.escalation) \in Nat
         /\ CountedIdle(s.idleRound) \in Nat /\ s.implRound \in Nat /\ s.scopeRound \in Nat
<1>1. /\ s.escalation \in Nat /\ s.implRound \in Nat /\ s.scopeRound \in Nat
      /\ s.idleRound \in Nat /\ DesignRound(s) \in Nat
  BY StateFields, DesignRoundNat
<1>2. DesignBase(s.escalation) \in Nat /\ ImplementBase(s.escalation) \in Nat
  BY <1>1, Bases
<1>3. CountedIdle(s.idleRound) \in Nat
  BY <1>1, CapsAssumption DEF CountedIdle
<1>4. Paid(s) \in Nat
  BY <1>1, <1>2, <1>3 DEF Paid
<1>5. QED
  BY <1>1, <1>2, <1>3, <1>4 DEF Owes

\* What is paid for stays within the budget, with room for the turn that is
\* running in an implementation phase.
LEMMA PaidWithin ==
  ASSUME NEW s \in States, Within(s)
  PROVE  /\ s.phase = "design" => Paid(s) <= ImplementBase(s.escalation)
         /\ s.phase = "implement" => Paid(s) + 1 <= ImplementBase(s.escalation) + ImplementTurns
         /\ ImplementBase(s.escalation) + ImplementTurns <= MostTurns
         /\ Paid(s) <= MostTurns /\ (s.phase = "implement" => Paid(s) + 1 <= MostTurns)
         /\ DesignBase(s.escalation) + DesignCap(s) <= MostTurns
         /\ MostTurns \in Nat
<1>0. /\ s.escalation \in Nat /\ Paid(s) \in Nat /\ DesignRound(s) \in Nat
      /\ DesignBase(s.escalation) \in Nat /\ ImplementBase(s.escalation) \in Nat
      /\ CountedIdle(s.idleRound) \in Nat /\ s.implRound \in Nat /\ s.scopeRound \in Nat
  BY PaidNat
<1>c. /\ MaxDesignRounds \in Nat /\ MaxEscDesignRounds \in Nat /\ ImplementTurns \in Nat
      /\ MaxEscalations \in Nat /\ DesignCap(s) \in Nat
  BY Constants DEF DesignCap
<1>1. ImplementBase(s.escalation) + ImplementTurns <= MostTurns
  BY <1>0, Bases DEF Within
<1>2. DesignBase(s.escalation) + DesignCap(s) <= ImplementBase(s.escalation)
  <2>1. CASE Escalated(s)
    BY <1>0, <1>c, <2>1, Bases DEF Escalated, DesignCap
  <2>2. CASE ~Escalated(s)
    <3>1. s.escalation = 0
      BY <1>0, <2>2 DEF Escalated
    <3>2. DesignCap(s) = MaxDesignRounds
      BY <2>2 DEF DesignCap
    <3>3. QED
      BY <1>0, <1>c, <3>1, <3>2, Bases
  <2>3. QED
    BY <2>1, <2>2
<1>3. s.phase = "design" => Paid(s) <= ImplementBase(s.escalation)
  <2>1. DesignRound(s) <= DesignCap(s)
    BY WithinDesign
  <2>2. DesignBase(s.escalation) + DesignRound(s) <= ImplementBase(s.escalation)
    BY <1>0, <1>c, <1>2, <2>1
  <2>3. QED
    BY <2>2 DEF Paid
<1>4. s.phase = "implement" => Paid(s) + 1 <= ImplementBase(s.escalation) + ImplementTurns
  <2>1. /\ s.implRound <= MaxReviewRounds /\ s.scopeRound <= MaxScopeFixRounds
        /\ CountedIdle(s.idleRound) <= MaxIdleRounds
    <3>1. s.idleRound \in Nat /\ MaxIdleRounds \in Nat
      BY StateFields, CapsAssumption
    <3>2. QED
      BY <3>1 DEF Within, CountedIdle
  <2>2. s.implRound + s.scopeRound + CountedIdle(s.idleRound) + 1 <= ImplementTurns
    BY <1>0, <2>1, CapsAssumption DEF ImplementTurns
  <2>3. ASSUME s.phase = "implement"
        PROVE  Paid(s) = ImplementBase(s.escalation) + s.implRound + s.scopeRound
                         + CountedIdle(s.idleRound)
    BY <2>3 DEF Paid
  <2>4. QED
    BY <1>0, <1>c, <2>2, <2>3
<1>5. MostTurns \in Nat
  <2>1. MaxEscalations * TurnsPerEscalation \in Nat
    BY Constants
  <2>2. QED
    BY <1>c, <2>1 DEF MostTurns, TurnsPerEscalation
<1>6. s.phase \in {"design", "implement"}
  BY StateFields
<1>7. Paid(s) <= MostTurns /\ (s.phase = "implement" => Paid(s) + 1 <= MostTurns)
  BY <1>0, <1>c, <1>1, <1>3, <1>4, <1>5, <1>6
<1>8. DesignBase(s.escalation) + DesignCap(s) <= MostTurns
  BY <1>0, <1>c, <1>1, <1>2, <1>5
<1>9. QED
  BY <1>1, <1>3, <1>4, <1>5, <1>7, <1>8

\* A pending design review is paid for, whatever run it is found in.
LEMMA OwedIsPaid ==
  ASSUME st \in States, RoundInv
  PROVE  Owes(st) <= Paid(st)
<1>0. /\ st.escalation \in Nat /\ Paid(st) \in Nat /\ Owes(st) \in {0, 1}
      /\ DesignRound(st) \in Nat /\ DesignBase(st.escalation) \in Nat
      /\ ImplementBase(st.escalation) \in Nat
      /\ CountedIdle(st.idleRound) \in Nat /\ st.implRound \in Nat /\ st.scopeRound \in Nat
  BY PaidNat
<1>1. CASE st.phase = "design" /\ Escalated(st)
  <2>1. 1 <= DesignBase(st.escalation)
    BY <1>0, <1>1, Bases DEF Escalated
  <2>2. QED
    BY <1>0, <1>1, <2>1 DEF Paid
<1>2. CASE st.phase = "design" /\ ~Escalated(st) /\ st.pending = "design"
  <2>1. 1 <= DesignRound(st)
    BY <1>2 DEF RoundInv, DesignRound
  <2>2. QED
    BY <1>0, <1>2, <2>1 DEF Paid
<1>3. CASE st.phase # "design"
  <2>1. 1 <= ImplementBase(st.escalation)
    BY <1>0, Bases
  <2>2. QED
    BY <1>0, <1>3, <2>1 DEF Paid
<1>4. CASE st.pending # "design"
  <2>1. Owes(st) = 0
    BY <1>4 DEF Owes
  <2>2. QED
    BY <1>0, <2>1
<1>5. QED
  BY <1>1, <1>2, <1>3, <1>4

\* The mark may change, and is worth one turn at most; nothing else does.
LEMMA PaidMark ==
  ASSUME NEW s \in States
  PROVE  /\ Paid([s EXCEPT !.pending = ""]) = Paid(s) /\ Owes([s EXCEPT !.pending = ""]) = 0
<1>1. PICK t : t = [s EXCEPT !.pending = ""]
  OBVIOUS
<1>2. /\ t.pending = "" /\ t.phase = s.phase /\ t.escalation = s.escalation
      /\ t.implRound = s.implRound /\ t.scopeRound = s.scopeRound /\ t.idleRound = s.idleRound
  BY <1>1 DEF States
<1>3. DesignRound(t) = DesignRound(s)
  BY <1>1, MarkKeepsRound
<1>4. Paid(t) = Paid(s) /\ Owes(t) = 0
  BY <1>2, <1>3 DEF Paid, Owes
<1>5. QED
  BY <1>1, <1>4

\* A design round pays for its turn.
LEMMA PaidRound ==
  ASSUME NEW s \in States, s.phase = "design", NEW n \in Nat
  PROVE  /\ Paid(WithDesignRound(s, n)) = DesignBase(s.escalation) + n
         /\ Owes(WithDesignRound(s, n)) = Owes(s)
  BY RoundSpent DEF Paid, Owes

\* So does every round of an implementation phase that asks for another turn.
LEMMA PaidFix ==
  ASSUME NEW s \in States, s.phase = "implement"
  PROVE  /\ Paid([s EXCEPT !.implRound = @ + 1]) = Paid(s) + 1
         /\ Owes([s EXCEPT !.implRound = @ + 1]) = Owes(s)
         /\ Paid([s EXCEPT !.scopeRound = @ + 1]) = Paid(s) + 1
         /\ Owes([s EXCEPT !.scopeRound = @ + 1]) = Owes(s)
         /\ Paid([s EXCEPT !.idleRound = OneIdleMore(@)]) >= Paid(s)
         /\ s.idleRound + 1 <= MaxIdleRounds =>
              Paid([s EXCEPT !.idleRound = OneIdleMore(@)]) = Paid(s) + 1
         /\ Owes([s EXCEPT !.idleRound = OneIdleMore(@)]) = Owes(s)
<1>0. /\ s.escalation \in Nat /\ Paid(s) \in Nat /\ ImplementBase(s.escalation) \in Nat
      /\ CountedIdle(s.idleRound) \in Nat /\ s.implRound \in Nat /\ s.scopeRound \in Nat
      /\ s.idleRound \in Nat /\ MaxIdleRounds \in Nat
  BY PaidNat, StateFields, CapsAssumption
<1>1. Paid(s) = ImplementBase(s.escalation) + s.implRound + s.scopeRound
                + CountedIdle(s.idleRound)
  BY DEF Paid
<1>2. /\ Paid([s EXCEPT !.implRound = @ + 1]) = Paid(s) + 1
      /\ Owes([s EXCEPT !.implRound = @ + 1]) = Owes(s)
  <2>1. Paid([s EXCEPT !.implRound = @ + 1])
          = ImplementBase(s.escalation) + (s.implRound + 1) + s.scopeRound
            + CountedIdle(s.idleRound)
    BY DEF Paid, States
  <2>2. Owes([s EXCEPT !.implRound = @ + 1]) = Owes(s)
    BY DEF Owes, States
  <2>3. QED
    BY <1>0, <1>1, <2>1, <2>2
<1>3. /\ Paid([s EXCEPT !.scopeRound = @ + 1]) = Paid(s) + 1
      /\ Owes([s EXCEPT !.scopeRound = @ + 1]) = Owes(s)
  <2>1. Paid([s EXCEPT !.scopeRound = @ + 1])
          = ImplementBase(s.escalation) + s.implRound + (s.scopeRound + 1)
            + CountedIdle(s.idleRound)
    BY DEF Paid, States
  <2>2. Owes([s EXCEPT !.scopeRound = @ + 1]) = Owes(s)
    BY DEF Owes, States
  <2>3. QED
    BY <1>0, <1>1, <2>1, <2>2
<1>4. /\ Paid([s EXCEPT !.idleRound = OneIdleMore(@)]) >= Paid(s)
      /\ s.idleRound + 1 <= MaxIdleRounds =>
           Paid([s EXCEPT !.idleRound = OneIdleMore(@)]) = Paid(s) + 1
      /\ Owes([s EXCEPT !.idleRound = OneIdleMore(@)]) = Owes(s)
  <2>1. Paid([s EXCEPT !.idleRound = OneIdleMore(@)])
          = ImplementBase(s.escalation) + s.implRound + s.scopeRound
            + CountedIdle(OneIdleMore(s.idleRound))
    BY DEF Paid, States
  <2>2. /\ CountedIdle(OneIdleMore(s.idleRound)) \in Nat
        /\ CountedIdle(OneIdleMore(s.idleRound)) >= CountedIdle(s.idleRound)
        /\ s.idleRound + 1 <= MaxIdleRounds =>
             CountedIdle(OneIdleMore(s.idleRound)) = CountedIdle(s.idleRound) + 1
    BY <1>0 DEF CountedIdle, OneIdleMore
  <2>3. Owes([s EXCEPT !.idleRound = OneIdleMore(@)]) = Owes(s)
    BY DEF Owes, States
  <2>4. QED
    BY <1>0, <1>1, <2>1, <2>2, <2>3
<1>5. QED
  BY <1>2, <1>3, <1>4

\* The phases change over without losing a payment.
LEMMA PaidPhase ==
  ASSUME NEW s \in States, Within(s)
  PROVE  /\ s.phase = "design" => Paid([s EXCEPT !.phase = "implement"]) >= Paid(s)
         /\ Owes([s EXCEPT !.phase = "implement"]) = Owes(s)
         /\ ImplementBase(s.escalation) + ImplementTurns
              = DesignBase([s EXCEPT !.escalation = @ + 1].escalation)
         /\ Owes([s EXCEPT !.escalation = @ + 1]) = Owes(s)
         /\ LET d == [s EXCEPT !.phase = "design", !.escDesignRound = 0, !.implRound = 0,
                               !.scopeRound = 0, !.idleRound = 0]
            IN  Paid(d) >= DesignBase(s.escalation) /\ Owes(d) = Owes(s)
<1> DEFINE i == [s EXCEPT !.phase = "implement"]
           e == [s EXCEPT !.escalation = @ + 1]
           d == [s EXCEPT !.phase = "design", !.escDesignRound = 0, !.implRound = 0,
                          !.scopeRound = 0, !.idleRound = 0]
<1>0. /\ s.escalation \in Nat /\ Paid(s) \in Nat /\ ImplementBase(s.escalation) \in Nat
      /\ CountedIdle(s.idleRound) \in Nat /\ s.implRound \in Nat /\ s.scopeRound \in Nat
      /\ DesignBase(s.escalation) \in Nat
  BY PaidNat
<1>1. ASSUME s.phase = "design" PROVE Paid(i) >= Paid(s)
  <2>1. Paid(i) = ImplementBase(s.escalation) + s.implRound + s.scopeRound
                  + CountedIdle(s.idleRound)
    BY DEF Paid, States
  <2>2. Paid(s) <= ImplementBase(s.escalation)
    BY <1>1, PaidWithin
  <2>3. QED
    BY <1>0, <2>1, <2>2
<1>2. Owes(i) = Owes(s) /\ Owes(e) = Owes(s) /\ Owes(d) = Owes(s)
  BY DEF Owes, States
<1>3. ImplementBase(s.escalation) + ImplementTurns = DesignBase(e.escalation)
  <2>1. e.escalation = s.escalation + 1
    BY DEF States
  <2>2. QED
    BY <1>0, <2>1, Bases
<1>4. Paid(d) >= DesignBase(s.escalation)
  <2>1. d \in States
    BY BackToDesign
  <2>2. d.phase = "design" /\ d.escalation = s.escalation
    BY DEF States
  <2>3. DesignRound(d) \in Nat /\ Paid(d) = DesignBase(s.escalation) + DesignRound(d)
    BY <2>1, <2>2, DesignRoundNat DEF Paid
  <2>4. QED
    BY <1>0, <2>3
<1>5. QED
  BY <1>1, <1>2, <1>3, <1>4

LEMMA AtRest ==
  ASSUME turns' = 0, pc' \in {"idle", "down", "created"}
  PROVE  TurnInv'
  BY DEF TurnInv, Between

LEMMA LeavePaid ==
  ASSUME turns' <= MostTurns, pc' = "leave"
  PROVE  TurnInv'
  BY DEF TurnInv, Between

\* What the gate decides, the turn it has read still to be paid for unless it
\* asks for another one.
LEMMA GatedPaid ==
  ASSUME pc' = "gated", loc'.out # "next", turns' + Owes(st') <= Paid(st') + 1
  PROVE  TurnInv'
  BY DEF TurnInv, Between

LEMMA GatedNext ==
  ASSUME pc' \in {"gated", "acted"}, turns' + Owes(st') <= Paid(st'),
         Paid(st') \in Nat, turns' \in Nat, Owes(st') \in Nat
  PROVE  TurnInv'
<1>1. turns' + Owes(st') <= Paid(st') + IF loc'.out = "next" THEN 0 ELSE 1
  <2>1. turns' + Owes(st') <= Paid(st') + 0 /\ turns' + Owes(st') <= Paid(st') + 1
    OBVIOUS
  <2>2. CASE loc'.out = "next"
    BY <2>1, <2>2
  <2>3. CASE loc'.out # "next"
    BY <2>1, <2>3
  <2>4. QED
    BY <2>2, <2>3
<1>2. QED
  BY <1>1 DEF TurnInv, Between

\* A step between two turns that saves nothing.
LEMMA StayPaid ==
  ASSUME TurnInv, st' = st, turns' = turns, turns \in Nat, pc \in Between,
         pc' \in Between \cup {"leave"}, Owes(st) \in {0, 1}, Paid(st) \in Nat,
         Paid(st) <= MostTurns, MostTurns \in Nat
  PROVE  TurnInv'
<1>1. turns + Owes(st) <= Paid(st)
  BY DEF TurnInv
<1>2. turns' + Owes(st') <= Paid(st') /\ turns' <= MostTurns
  BY <1>1
<1>3. QED
  BY <1>2 DEF TurnInv, Between

LEMMA TurnStep ==
  ASSUME Base, Base', RoundInv, TurnInv, [Next]_vars
  PROVE  TurnInv'
<1>0. st \in States /\ disk \in States /\ loc \in Locals
  BY DEF Base, TypeOK, LoopTypes, PlaceTypes
<1>b. /\ pc \in DesignPCs => st.phase = "design"
      /\ pc \in ImplementPCs => st.phase = "implement"
  BY DEF Base, LifeInv
<1>n. /\ turns \in Nat /\ Paid(st) \in Nat /\ Owes(st) \in {0, 1} /\ DesignRound(st) \in Nat
      /\ st.escalation \in Nat /\ DesignBase(st.escalation) \in Nat
      /\ ImplementBase(st.escalation) \in Nat /\ ImplementTurns \in Nat
  BY <1>0, PaidNat, Constants DEF Base, TypeOK, HistoryTypes
<1>w. /\ Paid(st) <= MostTurns /\ MostTurns \in Nat
      /\ st.phase = "implement" => Paid(st) + 1 <= MostTurns
  BY <1>0, PaidWithin DEF Base, CapsInv
<1>1. CASE CreateMission
  <2>1. turns' = 0 /\ pc' \in {"idle", "down", "created"}
    BY <1>1 DEF TurnInv, CreateMission, Goto
  <2>2. QED
    BY <2>1, AtRest
<1>2. CASE Resume
  <2>1. turns' = 0 /\ st' = st /\ pc' = "loop"
    BY <1>2 DEF TurnInv, Resume, hist, Goto
  <2>2. Owes(st) <= Paid(st)
    BY <1>0, OwedIsPaid
  <2>3. turns' + Owes(st) <= Paid(st)
    BY <1>n, <2>1, <2>2
  <2>4. QED
    BY <2>1, <2>3 DEF TurnInv, Between
<1>3. CASE Abort
  <2>1. pc' = "leave" /\ turns' = 0
    BY <1>3 DEF TurnInv, Abort, Leave, hist
  <2>2. QED
    BY <1>w, <2>1, LeavePaid
<1>4. CASE NewSession
  <2>1. turns' = 0 /\ pc' \in {"idle", "down", "created"}
    BY <1>4 DEF TurnInv, NewSession, hist
  <2>2. QED
    BY <2>1, AtRest
<1>5. CASE Undo
  <2>1. turns' = 0 /\ pc' \in {"idle", "down", "created"}
    BY <1>5 DEF TurnInv, Undo, hist
  <2>2. QED
    BY <2>1, AtRest
<1>6. CASE ExternalEdit
  <2>1. turns' = 0 /\ pc' \in {"idle", "down", "created"}
    BY <1>6 DEF TurnInv, ExternalEdit, hist
  <2>2. QED
    BY <2>1, AtRest
<1>7. CASE RemovePlan
  <2>1. turns' = 0 /\ pc' \in {"idle", "down", "created"}
    BY <1>7 DEF TurnInv, RemovePlan
  <2>2. QED
    BY <2>1, AtRest
<1>8. CASE EditPlan
  BY <1>8 DEF TurnInv, Held, EditPlan, hist
<1>9. CASE Crash
  <2>1. turns' = 0 /\ pc' \in {"idle", "down", "created"}
    BY <1>9 DEF TurnInv, Crash, Goto
  <2>2. QED
    BY <2>1, AtRest
<1>10. CASE Restart
  <2>1. turns' = 0 /\ pc' \in {"idle", "down", "created"}
    BY <1>10 DEF TurnInv, Restart, hist, Goto
  <2>2. QED
    BY <2>1, AtRest
<1>11. CASE PointSession
  <2>1. turns' = 0 /\ st' = st /\ pc' = "loop"
    BY <1>11 DEF TurnInv, PointSession, hist, Goto
  <2>2. Owes(st) <= Paid(st)
    BY <1>0, OwedIsPaid
  <2>3. turns' + Owes(st) <= Paid(st)
    BY <1>n, <2>1, <2>2
  <2>4. QED
    BY <2>1, <2>3 DEF TurnInv, Between
<1>12. CASE EnterPhase
  <2>1. /\ turns' = turns /\ st' = st /\ pc \in Between
        /\ pc' \in {"dTop", "iEnter"}
    BY <1>12 DEF EnterPhase, hist, Goto, Between
  <2>2. QED
    BY <1>n, <1>w, <2>1, StayPaid DEF Between
<1>13. CASE DesignTop
  <2>1. turns' = turns /\ st' = st /\ pc \in Between
    BY <1>13 DEF DesignTop, disks, hist, Between
  <2>2. CASE pc' \in {"dTurn", "leave"}
    BY <1>n, <1>w, <2>1, <2>2, StayPaid DEF Between
  <2>3. CASE pc' = "dReview"
    <3>1. Owes(st) \in {0, 1} /\ Held' \in {0, Owes(st)}
      BY <1>n, <2>1 DEF Held
    <3>2. turns + Held' <= Paid(st)
      BY <1>n, <2>1, <3>1 DEF TurnInv
    <3>3. QED
      BY <2>1, <2>3, <3>2 DEF TurnInv, Between
  <2>4. QED
    BY <1>13, <2>2, <2>3 DEF DesignTop, Goto, Leave
<1>14. CASE DesignTurn
  <2>1. st' = st /\ pc = "dTurn" /\ st.phase = "design" /\ loc.pend \in BOOLEAN
    BY <1>14, <1>0, <1>b, LocalFields DEF DesignTurn, DesignPCs
  <2>2. CASE ToPrompt
    BY <2>2, AtRest DEF ToPrompt
  <2>3. CASE Goto("dSpent") /\ turns' = turns + 1 /\ loc' = loc
    <3>1. turns + Owes(st) <= DesignBase(st.escalation) + DesignRound(st)
      BY <2>1 DEF TurnInv, Between, Paid
    <3>2. turns + 1 + Held <= DesignBase(st.escalation) + loc.round
      <4>1. CASE loc.pend
        <5>1. Owes(st) = 1 /\ Held = 0 /\ loc.round = DesignRound(st)
          BY <2>1, <4>1 DEF RoundInv, Owes, Held
        <5>2. QED
          BY <1>n, <3>1, <5>1
      <4>2. CASE ~loc.pend
        <5>1. Held = Owes(st) /\ loc.round = DesignRound(st) + 1
          BY <2>1, <4>2 DEF RoundInv, Held
        <5>2. QED
          BY <1>n, <3>1, <5>1
      <4>3. QED
        BY <2>1, <4>1, <4>2
    <3>3. Held' = Held /\ pc' = "dSpent"
      BY <2>1, <2>3 DEF Held, Goto
    <3>4. turns' + Held' <= DesignBase(st.escalation) + loc.round
      BY <2>3, <3>2, <3>3
    <3>5. QED
      BY <2>1, <2>3, <3>3, <3>4 DEF TurnInv, Between
  <2>4. QED
    BY <1>14, <2>2, <2>3 DEF DesignTurn
<1>15. CASE DesignSpent
  <2>0. /\ pc = "dSpent" /\ st.phase = "design" /\ loc.round \in Nat /\ loc.pend \in BOOLEAN
        /\ turns' = turns
    BY <1>15, <1>0, <1>b, LocalFields DEF DesignSpent, hist, DesignPCs
  <2>1. loc'.pend = loc.pend /\ pc' \in {"dReview", "dTop", "leave"}
    BY <1>15, <1>0 DEF DesignSpent, Goto, Leave, Locals
  <2>2. turns + Held <= DesignBase(st.escalation) + loc.round /\ Held \in {0, Owes(st)}
    BY <2>0 DEF TurnInv, Held
  <2>3. turns <= MostTurns
    <3>1. /\ loc.round <= DesignCap(st) /\ DesignCap(st) \in Nat
          /\ DesignBase(st.escalation) + DesignCap(st) <= MostTurns
      BY <1>0, <2>0, PaidWithin, Constants DEF Base, CapsInv, DesignCap
    <3>2. Held \in Nat
      BY <1>n, <2>2
    <3>3. QED
      BY <1>n, <1>w, <2>0, <2>2, <3>1, <3>2
  <2>4. CASE ~loc.pend
    <3>1. st' = WithDesignRound(st, loc.round)
      BY <1>15, <2>4 DEF DesignSpent, Save
    <3>2. Paid(st') = DesignBase(st.escalation) + loc.round /\ Owes(st') = Owes(st)
      BY <1>0, <2>0, <3>1, PaidRound
    <3>3. Held = Owes(st) /\ Held' = Owes(st')
      BY <2>1, <2>4 DEF Held
    <3>4. turns' + Owes(st') <= Paid(st')
      BY <2>0, <2>2, <3>2, <3>3
    <3>5. QED
      BY <2>0, <2>1, <2>3, <3>3, <3>4 DEF TurnInv, Between
  <2>5. CASE loc.pend
    <3>1. loc.round = DesignRound(st)
      BY <2>0, <2>5 DEF RoundInv
    <3>2. turns <= Paid(st)
      BY <1>n, <2>0, <2>2, <2>5, <3>1 DEF Held, Paid
    <3>3. CASE plan # NoPlan
      <4>1. st' = st /\ pc' = "dReview" /\ Held' = 0
        BY <1>15, <2>1, <2>5, <3>3 DEF DesignSpent, Goto, Held
      <4>2. turns' + Held' <= Paid(st')
        BY <1>n, <2>0, <3>2, <4>1
      <4>3. QED
        BY <4>1, <4>2 DEF TurnInv, Between
    <3>4. CASE plan = NoPlan
      <4>1. st' = [st EXCEPT !.pending = ""] /\ pc' \in {"dTop", "leave"}
        BY <1>15, <2>5, <3>4 DEF DesignSpent, Save, Goto, Leave
      <4>2. Paid(st') = Paid(st) /\ Owes(st') = 0
        BY <1>0, <4>1, PaidMark
      <4>3. turns' + Owes(st') <= Paid(st')
        BY <1>n, <2>0, <3>2, <4>2
      <4>4. QED
        BY <2>0, <2>3, <4>1, <4>3 DEF TurnInv, Between
    <3>5. QED
      BY <3>3, <3>4
  <2>6. QED
    BY <2>0, <2>4, <2>5
<1>16. CASE DesignReviewPending
  <2>1. turns' = 0 /\ pc' \in {"idle", "down", "created"}
    BY <1>16 DEF TurnInv, DesignReviewPending, ToPrompt
  <2>2. QED
    BY <2>1, AtRest
<1>17. CASE DesignReviewReported
  <2>1. /\ pc = "dReview" /\ pc' = "dVerdict" /\ turns' = turns
        /\ st' = IF loc.pend THEN [st EXCEPT !.pending = ""] ELSE st
    BY <1>17 DEF DesignReviewReported, Save, Goto, hist
  <2>2. turns + Held <= Paid(st)
    BY <2>1 DEF TurnInv
  <2>3. Paid(st') = Paid(st) /\ Owes(st') = Held
    <3>1. CASE loc.pend
      BY <1>0, <2>1, <3>1, PaidMark DEF Held
    <3>2. CASE ~loc.pend
      BY <2>1, <3>2 DEF Held
    <3>3. QED
      BY <3>1, <3>2
  <2>4. turns' + Owes(st') <= Paid(st')
    BY <2>1, <2>2, <2>3
  <2>5. QED
    BY <2>1, <2>4 DEF TurnInv, Between
<1>18. CASE DesignVerdict
  <2>1. /\ turns' = turns /\ st' = st /\ pc \in Between
        /\ pc' \in {"dTop", "lockPlan", "leave"}
    BY <1>18 DEF DesignVerdict, Goto, Leave, Between
  <2>2. QED
    BY <1>n, <1>w, <2>1, StayPaid DEF Between
<1>19. CASE LockPlan
  <2>1. /\ turns' = turns /\ st' = st /\ pc \in Between
        /\ pc' \in {"lockCharter", "leave"}
    BY <1>19 DEF LockPlan, hist, Goto, Leave, Between
  <2>2. QED
    BY <1>n, <1>w, <2>1, StayPaid DEF Between
<1>20. CASE LockCharter
  <2>1. /\ turns' = turns /\ st' = st /\ pc \in Between
        /\ pc' \in {"enterImpl", "leave"}
    BY <1>20 DEF LockCharter, hist, Goto, Leave, Between
  <2>2. QED
    BY <1>n, <1>w, <2>1, StayPaid DEF Between
<1>21. CASE EnterImplement
  <2>1. /\ st' = [st EXCEPT !.phase = "implement"] /\ pc = "enterImpl" /\ pc' = "loop"
        /\ turns' = turns /\ st.phase = "design"
    BY <1>21, <1>b DEF EnterImplement, Save, Goto, hist, DesignPCs
  <2>2. Paid(st') >= Paid(st) /\ Owes(st') = Owes(st) /\ Paid(st') \in Nat
    BY <1>0, <2>1, PaidPhase, ToImplement, PaidNat DEF Base, CapsInv
  <2>3. turns + Owes(st) <= Paid(st)
    BY <2>1 DEF TurnInv, Between
  <2>4. turns' + Owes(st') <= Paid(st')
    BY <1>n, <2>1, <2>2, <2>3
  <2>5. QED
    BY <2>1, <2>4 DEF TurnInv, Between
<1>22. CASE ImplementEntry
  <2>1. /\ turns' = turns /\ st' = st /\ pc \in Between
        /\ pc' \in {"iTop", "leave"}
    BY <1>22 DEF ImplementEntry, hist, Goto, Leave, Between
  <2>2. QED
    BY <1>n, <1>w, <2>1, StayPaid DEF Between
<1>23. CASE ImplementTop
  <2>1. turns' = turns /\ st' = st /\ pc \in Between /\ pc' \in {"iTurn", "gate"}
    BY <1>23 DEF ImplementTop, disks, hist, Goto, Between
  <2>2. turns' + Owes(st') <= Paid(st') /\ turns' + Owes(st') <= Paid(st') + 1
    BY <1>n, <2>1 DEF TurnInv
  <2>3. QED
    BY <2>1, <2>2 DEF TurnInv, Between
<1>24. CASE ImplementTurn
  <2>1. CASE ToPrompt
    BY <2>1, AtRest DEF ToPrompt
  <2>2. CASE Goto("gate") /\ turns' = turns + 1
    <3>1. turns + Owes(st) <= Paid(st) /\ st' = st /\ pc' = "gate"
      BY <1>24, <2>2 DEF ImplementTurn, disks, TurnInv, Between, Goto
    <3>2. turns' + Owes(st') <= Paid(st') + 1
      BY <1>n, <2>2, <3>1
    <3>3. QED
      BY <3>1, <3>2 DEF TurnInv, Between
  <2>3. QED
    BY <1>24, <2>1, <2>2 DEF ImplementTurn
<1>25. CASE ReviewGate
  <2>1. /\ turns' = turns /\ pc = "gate" /\ st.phase = "implement"
        /\ turns + Owes(st) <= Paid(st) + 1
    BY <1>25, <1>b DEF ReviewGate, hist, TurnInv, ImplementPCs
  <2>2. CASE EscalateOr("handBack") /\ st' = st
    <3>1. PICK o \in Outs \ {"next"} : Gated(o)
      BY <2>2 DEF EscalateOr, Outs
    <3>2. pc' = "gated" /\ loc'.out # "next"
      BY <3>1, GatedOut DEF Base
    <3>3. QED
      BY <2>1, <2>2, <3>2, GatedPaid
  <2>3. CASE Save([st EXCEPT !.scopeRound = @ + 1]) /\ Gated("next")
    <3>1. Paid(st') = Paid(st) + 1 /\ Owes(st') = Owes(st)
      BY <1>0, <2>1, <2>3, PaidFix DEF Save
    <3>2. pc' = "gated" /\ turns' + Owes(st') <= Paid(st')
      BY <2>1, <2>3, <3>1 DEF Gated
    <3>3. Paid(st') \in Nat /\ turns' \in Nat /\ Owes(st') \in Nat
      BY <1>n, <2>1, <3>1
    <3>4. QED
      BY <3>2, <3>3, GatedNext
  <2>4. CASE /\ Save([st EXCEPT !.idleRound = OneIdleMore(@)])
             /\ Gated(IF st.idleRound + 1 > MaxIdleRounds THEN "handBack" ELSE "next")
    <3>0. st.idleRound \in Nat /\ MaxIdleRounds \in Nat
      BY <1>0, StateFields, CapsAssumption
    <3>1. st' \in States /\ st' = [st EXCEPT !.idleRound = OneIdleMore(@)]
      BY <1>0, <2>4, BumpCounters DEF Save
    <3>2. /\ Paid(st') >= Paid(st) /\ Owes(st') = Owes(st) /\ Paid(st') \in Nat
          /\ st.idleRound + 1 <= MaxIdleRounds => Paid(st') = Paid(st) + 1
      BY <1>0, <2>1, <3>1, PaidFix, PaidNat
    <3>3. CASE st.idleRound + 1 > MaxIdleRounds
      <4>1. pc' = "gated" /\ loc'.out = "handBack"
        BY <2>4, <3>3, GatedOut DEF Outs, Base
      <4>2. turns' + Owes(st') <= Paid(st') + 1
        BY <1>n, <2>1, <3>2
      <4>3. QED
        BY <4>1, <4>2, GatedPaid
    <3>4. CASE ~(st.idleRound + 1 > MaxIdleRounds)
      <4>1. pc' = "gated" /\ Paid(st') = Paid(st) + 1
        BY <2>4, <3>0, <3>2, <3>4 DEF Gated
      <4>2. turns' + Owes(st') <= Paid(st')
        BY <2>1, <3>2, <4>1
      <4>3. Paid(st') \in Nat /\ turns' \in Nat /\ Owes(st') \in Nat
        BY <1>n, <2>1, <3>2
      <4>4. QED
        BY <4>1, <4>2, <4>3, GatedNext
    <3>5. QED
      BY <3>3, <3>4
  <2>5. CASE Goto("iReview") /\ st' = st
    BY <2>1, <2>5 DEF TurnInv, Between, Goto
  <2>6. QED
    BY <1>25, <2>2, <2>3, <2>4, <2>5 DEF ReviewGate
<1>26. CASE ImplementReviewFailed
  <2>1. /\ turns' = turns /\ st' = st /\ pc = "iReview"
    BY <1>26 DEF ImplementReviewFailed, disks, hist
  <2>2. pc' = "gated" /\ loc'.out # "next"
    <3>1. PICK o \in {"reviewFailed", "reviewInterrupted", "handBack"} : Gated(o)
      BY <1>26, Zenon DEF ImplementReviewFailed
    <3>2. QED
      BY <3>1, GatedOut DEF Outs, Base
  <2>3. QED
    BY <2>1, <2>2, GatedPaid DEF TurnInv
<1>27. CASE ImplementReviewPassed
  <2>1. /\ turns' = turns /\ st' = st /\ pc = "iReview"
    BY <1>27 DEF ImplementReviewPassed, disks, hist
  <2>2. pc' = "gated" /\ loc'.out # "next"
    <3>1. PICK o \in {"passed"} : Gated(o)
      BY <1>27 DEF ImplementReviewPassed
    <3>2. QED
      BY <3>1, GatedOut DEF Outs, Base
  <2>3. QED
    BY <2>1, <2>2, GatedPaid DEF TurnInv
<1>28. CASE ImplementReviewRejected
  <2>1. /\ turns' = turns /\ pc = "iReview" /\ st.phase = "implement"
        /\ turns + Owes(st) <= Paid(st) + 1
    BY <1>28, <1>b DEF ImplementReviewRejected, hist, TurnInv, ImplementPCs
  <2>2. CASE (EscalateOr("handBack") \/ Gated("handBack")) /\ st' = st
    <3>1. PICK o \in Outs \ {"next"} : Gated(o)
      BY <2>2 DEF EscalateOr, Outs
    <3>2. pc' = "gated" /\ loc'.out # "next"
      BY <3>1, GatedOut DEF Base
    <3>3. QED
      BY <2>1, <2>2, <3>2, GatedPaid
  <2>3. CASE Save([st EXCEPT !.implRound = @ + 1]) /\ Gated("next")
    <3>1. Paid(st') = Paid(st) + 1 /\ Owes(st') = Owes(st)
      BY <1>0, <2>1, <2>3, PaidFix DEF Save
    <3>2. pc' = "gated" /\ turns' + Owes(st') <= Paid(st')
      BY <2>1, <2>3, <3>1 DEF Gated
    <3>3. Paid(st') \in Nat /\ turns' \in Nat /\ Owes(st') \in Nat
      BY <1>n, <2>1, <3>1
    <3>4. QED
      BY <3>2, <3>3, GatedNext
  <2>4. QED
    BY <1>28, <2>2, <2>3 DEF ImplementReviewRejected
<1>29. CASE RetirePending
  <2>1. /\ pc = "gated" /\ pc' = "acted" /\ turns' = turns /\ loc' = loc
        /\ st' = st \/ st' = [st EXCEPT !.pending = ""]
    BY <1>29 DEF RetirePending, Save, Goto, hist
  <2>2. Paid(st') = Paid(st) /\ Owes(st') \in {0, 1} /\ Owes(st') <= Owes(st)
    <3>1. CASE st' = st
      BY <1>n, <3>1
    <3>2. CASE st' = [st EXCEPT !.pending = ""]
      <4>1. Paid(st') = Paid(st) /\ Owes(st') = 0
        BY <1>0, <3>2, PaidMark
      <4>2. QED
        BY <1>n, <4>1
    <3>3. QED
      BY <2>1, <3>1, <3>2
  <2>3. CASE loc.out = "next"
    <3>1. turns + Owes(st) <= Paid(st) + 0
      BY <2>1, <2>3 DEF TurnInv
    <3>2. turns' + Owes(st') <= Paid(st')
      <4>1. turns + Owes(st') <= Paid(st)
        BY <1>n, <2>2, <3>1
      <4>2. QED
        BY <2>1, <2>2, <4>1
    <3>3. Paid(st') \in Nat /\ turns' \in Nat /\ Owes(st') \in Nat
      <4>1. Owes(st') \in Nat
        BY <2>2
      <4>2. QED
        BY <1>n, <2>1, <2>2, <4>1
    <3>4. QED
      BY <2>1, <3>2, <3>3, GatedNext
  <2>4. CASE loc.out # "next"
    <3>1. turns + Owes(st) <= Paid(st) + 1
      BY <2>1, <2>4 DEF TurnInv
    <3>2. turns' + Owes(st') <= Paid(st') + 1
      <4>1. turns + Owes(st') <= Paid(st) + 1
        BY <1>n, <2>2, <3>1
      <4>2. QED
        BY <2>1, <2>2, <4>1
    <3>3. QED
      BY <2>1, <2>4, <3>2 DEF TurnInv, Between
  <2>5. QED
    BY <2>3, <2>4
<1>30. CASE GateDone
  <2>1. /\ pc = "acted" /\ pc' = "leave" /\ turns' = turns /\ st.phase = "implement"
    BY <1>30, <1>b DEF GateDone, Leave, hist, ImplementPCs
  <2>2. turns <= MostTurns
    BY <1>n, <1>w, <2>1 DEF TurnInv
  <2>3. QED
    BY <2>1, <2>2, LeavePaid
<1>31. CASE GatePending
  <2>1. turns' = 0 /\ pc' \in {"idle", "down", "created"}
    BY <1>31 DEF TurnInv, GatePending, ToPrompt
  <2>2. QED
    BY <2>1, AtRest
<1>32. CASE GateOther
  <2>1. /\ pc = "acted" /\ turns' = turns /\ st' = st /\ st.phase = "implement"
        /\ turns + Owes(st) <= Paid(st) + 1
        /\ loc.out = "next" => turns + Owes(st) <= Paid(st)
    BY <1>32, <1>b, <1>n DEF GateOther, disks, hist, TurnInv, ImplementPCs
  <2>2. CASE pc' = "leave"
    <3>1. turns' <= MostTurns
      BY <1>n, <1>w, <2>1
    <3>2. QED
      BY <2>2, <3>1, LeavePaid
  <2>3. CASE loc.out = "next" /\ pc' = "iTop"
    BY <2>1, <2>3 DEF TurnInv, Between
  <2>4. CASE pc' = "escalate"
    <3>1. Paid(st) + 1 <= ImplementBase(st.escalation) + ImplementTurns
      BY <1>0, <2>1, PaidWithin DEF Base, CapsInv
    <3>2. turns' + Owes(st') <= ImplementBase(st.escalation) + ImplementTurns
      BY <1>n, <2>1, <3>1
    <3>3. QED
      BY <2>1, <2>4, <3>2 DEF TurnInv, Between
  <2>5. QED
    BY <1>32, <2>2, <2>3, <2>4 DEF GateOther, Goto, Leave
<1>33. CASE ArchiveCharter
  <2>1. /\ st' = [st EXCEPT !.escalation = @ + 1] /\ turns' = turns
        /\ pc = "escalate" /\ pc' = "escSave"
    BY <1>33 DEF ArchiveCharter, Goto, hist
  <2>2. turns + Owes(st) <= ImplementBase(st.escalation) + ImplementTurns
    BY <2>1 DEF TurnInv
  <2>3. /\ ImplementBase(st.escalation) + ImplementTurns = DesignBase(st'.escalation)
        /\ Owes(st') = Owes(st)
    BY <1>0, <2>1, PaidPhase DEF Base, CapsInv
  <2>4. turns' + Owes(st') <= DesignBase(st'.escalation)
    BY <2>1, <2>2, <2>3
  <2>5. QED
    BY <2>1, <2>4 DEF TurnInv, Between
<1>34. CASE Escalate
  <2>1. /\ st' = [st EXCEPT !.phase = "design", !.escDesignRound = 0, !.implRound = 0,
                            !.scopeRound = 0, !.idleRound = 0]
        /\ pc = "escSave" /\ pc' = "loop" /\ turns' = turns
    BY <1>34 DEF Escalate, Save, Goto
  <2>2. turns + Owes(st) <= DesignBase(st.escalation)
    BY <2>1 DEF TurnInv
  <2>3. /\ Paid(st') >= DesignBase(st.escalation) /\ Owes(st') = Owes(st)
        /\ Paid(st') \in Nat
    BY <1>0, <2>1, PaidPhase, BackToDesign, PaidNat DEF Base, CapsInv
  <2>4. turns' + Owes(st') <= Paid(st')
    BY <1>n, <2>1, <2>2, <2>3
  <2>5. QED
    BY <2>1, <2>4 DEF TurnInv, Between
<1>35. CASE LeaveMission
  <2>1. turns' = 0 /\ pc' \in {"idle", "down", "created"}
    BY <1>35 DEF TurnInv, LeaveMission, ToPrompt
  <2>2. QED
    BY <2>1, AtRest
<1>36. CASE UNCHANGED vars
  BY <1>36 DEF TurnInv, Held, vars
<1>37. QED
  BY <1>1, <1>2, <1>3, <1>4, <1>5, <1>6, <1>7, <1>8, <1>9, <1>10,
     <1>11, <1>12, <1>13, <1>14, <1>15, <1>16, <1>17, <1>18, <1>19, <1>20,
     <1>21, <1>22, <1>23, <1>24, <1>25, <1>26, <1>27, <1>28, <1>29, <1>30,
     <1>31, <1>32, <1>33, <1>34, <1>35, <1>36 DEF Next, Environment, Loop

\* What is paid for is within the budget, wherever the loop stands.
LEMMA TurnsWithin == Base /\ TurnInv => TurnBudget
<1> SUFFICES ASSUME Base, TurnInv PROVE turns <= MostTurns
  BY DEF TurnBudget
<1>0. st \in States /\ loc \in Locals /\ pc \in PCs
  BY DEF Base, TypeOK, LoopTypes, PlaceTypes
<1>b. pc \in ImplementPCs => st.phase = "implement"
  BY DEF Base, LifeInv
<1>n. /\ turns \in Nat /\ Paid(st) \in Nat /\ Owes(st) \in {0, 1} /\ Held \in {0, 1}
      /\ st.escalation \in Nat /\ DesignBase(st.escalation) \in Nat
      /\ ImplementBase(st.escalation) \in Nat /\ ImplementTurns \in Nat /\ loc.round \in Nat
      /\ DesignCap(st) \in Nat
  BY <1>0, PaidNat, LocalFields, Constants DEF Base, TypeOK, HistoryTypes, Held, DesignCap
<1>w. /\ Paid(st) <= MostTurns /\ MostTurns \in Nat
      /\ st.phase = "implement" => Paid(st) + 1 <= MostTurns
      /\ ImplementBase(st.escalation) + ImplementTurns <= MostTurns
      /\ DesignBase(st.escalation) + DesignCap(st) <= MostTurns
  BY <1>0, PaidWithin DEF Base, CapsInv
<1>1. CASE pc \in {"idle", "down", "created"}
  BY <1>1, <1>w DEF TurnInv
<1>2. CASE pc \in Between
  <2>1. turns + Owes(st) <= Paid(st)
    BY <1>2 DEF TurnInv
  <2>2. QED
    BY <1>n, <1>w, <2>1
<1>3. CASE pc = "dSpent"
  <2>1. turns + Held <= DesignBase(st.escalation) + loc.round
    BY <1>3 DEF TurnInv
  <2>2. loc.round <= DesignCap(st)
    BY <1>3 DEF Base, CapsInv
  <2>3. QED
    BY <1>n, <1>w, <2>1, <2>2
<1>4. CASE pc = "dReview"
  <2>1. turns + Held <= Paid(st)
    BY <1>4 DEF TurnInv
  <2>2. QED
    BY <1>n, <1>w, <2>1
<1>5. CASE pc \in {"gate", "iReview", "gated", "acted"}
  <2>1. turns + Owes(st) <= Paid(st) + 1
    <3>1. CASE pc \in {"gate", "iReview"}
      BY <3>1 DEF TurnInv
    <3>2. CASE pc \in {"gated", "acted"} /\ loc.out = "next"
      <4>1. turns + Owes(st) <= Paid(st) + 0
        BY <3>2 DEF TurnInv
      <4>2. QED
        BY <1>n, <4>1
    <3>3. CASE pc \in {"gated", "acted"} /\ loc.out # "next"
      BY <3>3 DEF TurnInv
    <3>4. QED
      BY <1>5, <3>1, <3>2, <3>3
  <2>2. Paid(st) + 1 <= MostTurns
    BY <1>5, <1>b, <1>w DEF ImplementPCs
  <2>3. QED
    BY <1>n, <1>w, <2>1, <2>2
<1>6. CASE pc = "escalate"
  <2>1. turns + Owes(st) <= ImplementBase(st.escalation) + ImplementTurns
    BY <1>6 DEF TurnInv
  <2>2. QED
    BY <1>n, <1>w, <2>1
<1>7. CASE pc = "escSave"
  <2>1. turns + Owes(st) <= DesignBase(st.escalation)
    BY <1>7 DEF TurnInv
  <2>2. QED
    BY <1>n, <1>w, <2>1
<1>8. CASE pc = "leave"
  BY <1>8 DEF TurnInv
<1>9. QED
  BY <1>0, <1>1, <1>2, <1>3, <1>4, <1>5, <1>6, <1>7, <1>8 DEF PCs, Between

\* One unattended run of the loop costs at most MostTurns turns, whatever it
\* found on disk, under every fault, crashes and vanishing plans included
\* (runMission and the counters of state.json it resumes from).
THEOREM TurnsBounded == Spec => []TurnBudget
<1>1. Init => RoundInv /\ TurnInv
  BY DEF Init, NewState, RoundInv, TurnInv, Between
<1>2. Base /\ RoundInv /\ [Next]_vars => RoundInv'
  BY RoundStep
<1>3. Base /\ Base' /\ RoundInv /\ TurnInv /\ [Next]_vars => TurnInv'
  BY TurnStep
<1>4. QED
  BY <1>1, <1>2, <1>3, TurnsWithin, BaseHolds, PTL DEF Spec

\* However often the mission is killed and resumed, no counter of state.json
\* passes its cap and no run of the loop costs more turns than they add up to.
THEOREM BudgetsHold == Spec => []Budgets
<1>1. RoundsWithinCaps /\ TurnBudget => Budgets
  BY DEF Budgets
<1>2. QED
  BY <1>1, CapsHold, TurnsBounded, PTL

\* No round is judged twice, as long as design.md does not vanish under a
\* pending review (runDesignPhase, which then forgets the review and not its
\* mark).
THEOREM VerdictsFit == ASSUME "rmplan" \notin Faults PROVE Spec => []VerdictsBounded
<1>1. Init => RoundInv
  BY DEF Init, NewState, RoundInv
<1>2. Init => JudgedInv
  <2> SUFFICES ASSUME Init PROVE JudgedInv
    OBVIOUS
  <2>1. st.pending = "" /\ pc = "idle" /\ verdicts = 0 /\ DesignRound(st) = 0
    BY DEF Init, NewState, DesignRound, Escalated
  <2>2. 0 <= 0
    OBVIOUS
  <2>3. verdicts <= DesignRound(st)
    BY <2>1, <2>2, Zenon
  <2>4. QED
    BY <2>1, <2>3 DEF JudgedInv
<1>3. Base /\ RoundInv /\ [Next]_vars => RoundInv'
  BY RoundStep
<1>4. Base /\ RoundInv /\ JudgedInv /\ [Next]_vars => JudgedInv'
  BY JudgedStep
<1>5. Base /\ JudgedInv => VerdictsBounded
  <2> SUFFICES ASSUME Base, JudgedInv, st.phase = "design"
               PROVE  verdicts <= DesignCap(st)
    BY DEF VerdictsBounded, DesignCap, Escalated
  <2>1. st \in States /\ verdicts \in Nat /\ Within(st)
    BY DEF Base, TypeOK, LoopTypes, HistoryTypes, CapsInv
  <2>2. verdicts <= DesignRound(st) /\ DesignRound(st) <= DesignCap(st)
    BY <2>1, WithinDesign DEF JudgedInv
  <2>3. DesignRound(st) \in Nat /\ DesignCap(st) \in Nat
    BY <2>1, DesignRoundNat, Constants DEF DesignCap
  <2>4. QED
    BY <2>1, <2>2, <2>3
<1>6. QED
  BY <1>1, <1>2, <1>3, <1>4, <1>5, BaseHolds, PTL DEF Spec
=============================================================================
