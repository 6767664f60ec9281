--------------------------- MODULE MissionProofs ---------------------------
(***************************************************************************)
(* Theorems about the mission loop (Mission.tla), for every number of      *)
(* files and plans, every value of the caps and every set of faults.       *)
(***************************************************************************)
EXTENDS Mission, TLAPS

----------------------------------------------------------------------------
(* Records: the fields of a record of its type have their types, and every *)
(* update the loop makes stays in the type.  States and Locals are never   *)
(* expanded below this section.                                            *)

LEMMA StateFields ==
  ASSUME NEW s \in States
  PROVE  /\ s.status \in Statuses /\ s.phase \in {"design", "implement"}
         /\ s.designRound \in Nat /\ s.escDesignRound \in Nat /\ s.implRound \in Nat
         /\ s.scopeRound \in Nat /\ s.idleRound \in Nat /\ s.escalation \in Nat
         /\ s.reviewed \in BOOLEAN /\ s.pending \in {"", "design", "implement"}
  BY DEF States

LEMMA SetCounters ==
  ASSUME NEW s \in States, NEW n \in Nat
  PROVE  /\ [s EXCEPT !.designRound = n] \in States
         /\ [s EXCEPT !.escDesignRound = n] \in States
         /\ [s EXCEPT !.idleRound = n] \in States
<1>1. [s EXCEPT !.designRound = n] \in States
  BY DEF States
<1>2. [s EXCEPT !.escDesignRound = n] \in States
  BY DEF States
<1>3. [s EXCEPT !.idleRound = n] \in States
  BY DEF States
<1>4. QED
  BY <1>1, <1>2, <1>3

LEMMA BumpCounters ==
  ASSUME NEW s \in States
  PROVE  /\ [s EXCEPT !.implRound = @ + 1] \in States
         /\ [s EXCEPT !.scopeRound = @ + 1] \in States
         /\ [s EXCEPT !.idleRound = OneIdleMore(@)] \in States
         /\ [s EXCEPT !.escalation = @ + 1] \in States
<1>1. [s EXCEPT !.implRound = @ + 1] \in States
  <2>1. s.implRound \in Nat
    BY StateFields
  <2>2. s.implRound + 1 \in Nat
    BY <2>1
  <2>3. QED
    BY <2>2 DEF States
<1>2. [s EXCEPT !.scopeRound = @ + 1] \in States
  <2>1. s.scopeRound \in Nat
    BY StateFields
  <2>2. s.scopeRound + 1 \in Nat
    BY <2>1
  <2>3. QED
    BY <2>2 DEF States
<1>3. [s EXCEPT !.idleRound = OneIdleMore(@)] \in States
  <2>1. s.idleRound \in Nat
    BY StateFields
  <2>2. OneIdleMore(s.idleRound) \in Nat
    BY <2>1, CapsAssumption DEF OneIdleMore
  <2>3. QED
    BY <2>2 DEF States
<1>4. [s EXCEPT !.escalation = @ + 1] \in States
  <2>1. s.escalation \in Nat
    BY StateFields
  <2>2. s.escalation + 1 \in Nat
    BY <2>1
  <2>3. QED
    BY <2>2 DEF States
<1>5. QED
  BY <1>1, <1>2, <1>3, <1>4

LEMMA SetPending ==
  ASSUME NEW s \in States, NEW p \in {"", "design", "implement"}
  PROVE  [s EXCEPT !.pending = p] \in States
  BY DEF States

LEMMA SetStatus ==
  ASSUME NEW s \in States, NEW t \in Statuses
  PROVE  [s EXCEPT !.status = t] \in States
  BY DEF States

LEMMA SetReviewed ==
  ASSUME NEW s \in States
  PROVE  [s EXCEPT !.reviewed = TRUE] \in States
  BY DEF States

LEMMA ToImplement ==
  ASSUME NEW s \in States
  PROVE  [s EXCEPT !.phase = "implement"] \in States
  BY DEF States

LEMMA BackToDesign ==
  ASSUME NEW s \in States
  PROVE  [s EXCEPT !.phase = "design", !.escDesignRound = 0, !.implRound = 0,
                   !.scopeRound = 0, !.idleRound = 0] \in States
  BY DEF States

LEMMA SetDesignRound ==
  ASSUME NEW s \in States, NEW n \in Nat
  PROVE  WithDesignRound(s, n) \in States
  BY SetCounters DEF WithDesignRound

LEMMA NewStates == NewState \in States /\ [NewState EXCEPT !.status = "none"] \in States
  BY DEF NewState, States, Statuses

LEMMA LocalFields ==
  ASSUME NEW l \in Locals
  PROVE  /\ l.pend \in BOOLEAN /\ l.hasInput \in BOOLEAN /\ l.round \in Nat
         /\ l.text \in Plans \cup {NoPlan} /\ l.out \in Outs
  BY DEF Locals

LEMMA FreshLocals ==
  ASSUME NEW b \in BOOLEAN
  PROVE  NoLocals \in Locals /\ [NoLocals EXCEPT !.hasInput = b] \in Locals
  BY DEF Locals, NoLocals, Outs

LEMMA SetOut ==
  ASSUME NEW l \in Locals, NEW o \in Outs
  PROVE  [l EXCEPT !.out = o] \in Locals
  BY DEF Locals

LEMMA SetInput ==
  ASSUME NEW l \in Locals, NEW b \in BOOLEAN
  PROVE  [l EXCEPT !.hasInput = b] \in Locals
  BY DEF Locals

LEMMA SetPend ==
  ASSUME NEW l \in Locals, NEW b \in BOOLEAN
  PROVE  [l EXCEPT !.pend = b] \in Locals
  BY DEF Locals

LEMMA SetRound ==
  ASSUME NEW l \in Locals, NEW b \in BOOLEAN, NEW n \in Nat, NEW t \in Plans \cup {NoPlan}
  PROVE  /\ [l EXCEPT !.pend = b, !.round = n, !.text = t] \in Locals
         /\ [l EXCEPT !.text = t, !.hasInput = FALSE] \in Locals
<1>1. [l EXCEPT !.pend = b, !.round = n, !.text = t] \in Locals
  BY DEF Locals
<1>2. [l EXCEPT !.text = t, !.hasInput = FALSE] \in Locals
  BY DEF Locals
<1>3. QED
  BY <1>1, <1>2

----------------------------------------------------------------------------
(* What the actions' shared steps do to the types. *)

LEMMA LeaveTypes ==
  ASSUME LoopTypes, NEW t \in Terminal, Leave(t)
  PROVE  PlaceTypes'
  BY SetOut DEF LoopTypes, PlaceTypes, Leave, PCs, Outs, Locals

LEMMA GatedTypes ==
  ASSUME LoopTypes, NEW o \in Outs, Gated(o)
  PROVE  PlaceTypes'
  BY SetOut DEF LoopTypes, PlaceTypes, Gated, PCs

LEMMA EscalateOrTypes ==
  ASSUME LoopTypes, EscalateOr("handBack")
  PROVE  PlaceTypes'
<1>1. "handBack" \in Outs /\ "escalate" \in Outs
  BY DEF Outs
<1>2. QED
  BY <1>1, GatedTypes DEF EscalateOr

LEMMA ToPromptTypes ==
  ASSUME ToPrompt
  PROVE  PlaceTypes' /\ turns' \in Nat
  BY FreshLocals DEF ToPrompt, PlaceTypes, PCs

LEMMA SaveTypes ==
  ASSUME NEW s \in States, Save(s)
  PROVE  st' \in States /\ disk' \in States
  BY DEF Save

LEMMA TypeStep == TypeOK /\ [Next]_vars => TypeOK'
<1> SUFFICES ASSUME TypeOK, [Next]_vars PROVE TypeOK'
  OBVIOUS
<1> USE DEF TypeOK
<1>1. CASE CreateMission
  <2>1. st' \in States /\ disk' \in States
    BY <1>1, NewStates, SaveTypes DEF LoopTypes, CreateMission
  <2>2. QED
    BY <1>1, <2>1 DEF LoopTypes, ReplTypes, FileTypes, HistoryTypes, PlaceTypes, PCs,
           disks, repl, tree, hist, CreateMission, Goto
<1>2. CASE Resume
  <2>1. input' \in BOOLEAN
    BY <1>2 DEF Resume, ReplTypes
  <2>2. QED
    BY <1>2, <2>1 DEF LoopTypes, ReplTypes, FileTypes, HistoryTypes, PlaceTypes, PCs,
         disks, repl, tree, hist, Resume, Goto
<1>3. CASE Abort
  <2>1. PlaceTypes'
    BY <1>3, LeaveTypes DEF LoopTypes, ReplTypes, FileTypes, HistoryTypes, PlaceTypes, PCs, Terminal, Outs, Abort
  <2>2. QED
    BY <1>3, <2>1 DEF LoopTypes, ReplTypes, FileTypes, HistoryTypes, PlaceTypes, PCs,
           disks, repl, tree, hist, Abort
<1>4. CASE NewSession
  BY <1>4 DEF LoopTypes, ReplTypes, FileTypes, HistoryTypes, PlaceTypes, PCs,
         disks, repl, tree, hist, NewSession
<1>5. CASE Undo
  BY <1>5 DEF LoopTypes, ReplTypes, FileTypes, HistoryTypes, PlaceTypes, PCs,
         disks, repl, tree, hist, Undo
<1>6. CASE ExternalEdit
  BY <1>6 DEF LoopTypes, ReplTypes, FileTypes, HistoryTypes, PlaceTypes, PCs,
         disks, repl, tree, hist, ExternalEdit
<1>7. CASE RemovePlan
  BY <1>7 DEF LoopTypes, ReplTypes, FileTypes, HistoryTypes, PlaceTypes, PCs,
         disks, repl, tree, hist, RemovePlan
<1>8. CASE EditPlan
  BY <1>8 DEF LoopTypes, ReplTypes, FileTypes, HistoryTypes, PlaceTypes, PCs,
         disks, repl, tree, hist, EditPlan
<1>9. CASE Crash
  <2>1. PlaceTypes'
    BY <1>9, FreshLocals DEF LoopTypes, ReplTypes, FileTypes, HistoryTypes, PlaceTypes, PCs, Terminal, Outs, Crash, Goto
  <2>2. QED
    BY <1>9, <2>1 DEF LoopTypes, ReplTypes, FileTypes, HistoryTypes, PlaceTypes, PCs,
           disks, repl, tree, hist, Crash, Goto
<1>10. CASE Restart
  BY <1>10 DEF LoopTypes, ReplTypes, FileTypes, HistoryTypes, PlaceTypes, PCs,
         disks, repl, tree, hist, Restart, Goto, Attachable
<1>11. CASE PointSession
  BY <1>11 DEF LoopTypes, ReplTypes, FileTypes, HistoryTypes, PlaceTypes, PCs,
         disks, repl, tree, hist, PointSession, Goto
<1>12. CASE EnterPhase
  <2>1. PlaceTypes'
    BY <1>12, FreshLocals DEF ReplTypes, PlaceTypes, PCs, EnterPhase, Goto
  <2>2. input' \in BOOLEAN
    BY <1>12 DEF EnterPhase, ReplTypes
  <2>3. QED
    BY <1>12, <2>1, <2>2 DEF LoopTypes, ReplTypes, FileTypes, HistoryTypes,
         disks, repl, tree, hist, EnterPhase
<1>13. CASE DesignTop
  <2>1. DesignRound(st) \in Nat /\ DesignRound(st) + 1 \in Nat
    <3>1. st.designRound \in Nat /\ st.escDesignRound \in Nat
      BY StateFields DEF LoopTypes
    <3>2. QED
      BY <3>1 DEF DesignRound
  <2>2. PlaceTypes'
    <3>1. CASE Leave("design_failed")
      BY <3>1, LeaveTypes DEF Terminal
    <3>2. CASE ~Leave("design_failed")
      <4>1. PICK r \in Nat, b \in BOOLEAN : loc' = [loc EXCEPT !.pend = b, !.round = r, !.text = plan]
        BY <1>13, <2>1, <3>2 DEF DesignTop, DesignReviewOwed
      <4>2. pc' \in PCs \ {"leave"}
        BY <1>13, <3>2 DEF DesignTop, Goto, PCs
      <4>3. QED
        BY <4>1, <4>2, SetRound DEF LoopTypes, PlaceTypes, FileTypes
    <3>3. QED
      BY <3>1, <3>2
  <2>3. LoopTypes'
    BY <1>13, <2>2 DEF LoopTypes, DesignTop, disks
  <2>4. ReplTypes'
    BY <1>13 DEF ReplTypes, DesignTop, ApplyTurnMode, disks
  <2>5. FileTypes' /\ HistoryTypes'
    BY <1>13 DEF FileTypes, HistoryTypes, DesignTop, disks, tree, hist
  <2>6. QED
    BY <2>3, <2>4, <2>5
<1>14. CASE DesignTurn
  <2>1. LoopTypes' /\ turns' \in Nat
    BY <1>14, ToPromptTypes DEF LoopTypes, HistoryTypes, DesignTurn, Goto, PlaceTypes, PCs, tree
  <2>2. ReplTypes' /\ FileTypes'
    BY <1>14 DEF ReplTypes, FileTypes, DesignTurn, tree
  <2>3. HistoryTypes'
    BY <1>14, <2>1 DEF HistoryTypes, DesignTurn, tree
  <2>4. QED
    BY <2>1, <2>2, <2>3
<1>15. CASE DesignSpent
  <2>1. WithDesignRound(st, loc.round) \in States /\ [st EXCEPT !.pending = ""] \in States
    BY SetDesignRound, SetPending, LocalFields DEF LoopTypes, PlaceTypes
  <2>2. st' \in States /\ disk' \in States
    BY <1>15, <2>1, SaveTypes DEF LoopTypes, DesignSpent
  <2>3. PlaceTypes'
    <3>1. CASE Leave("design_failed")
      BY <3>1, LeaveTypes DEF Terminal
    <3>2. CASE ~Leave("design_failed")
      BY <1>15, <3>2, SetRound, SetInput DEF DesignSpent, LoopTypes, FileTypes, Goto, PlaceTypes, PCs
    <3>3. QED
      BY <3>1, <3>2
  <2>4. UNCHANGED <<input, plan, locked, lockFile, base, pointer, repl, tree, hist>>
    BY <1>15 DEF DesignSpent
  <2>5. ReplTypes' /\ FileTypes' /\ HistoryTypes'
    BY <2>4 DEF ReplTypes, FileTypes, HistoryTypes, repl, tree, hist
  <2>6. QED
    BY <2>2, <2>3, <2>5 DEF LoopTypes
<1>16. CASE DesignReviewPending
  <2>1. st' \in States /\ disk' \in States
    BY <1>16, SetPending, SaveTypes DEF LoopTypes, DesignReviewPending, MarkPending
  <2>2. PlaceTypes' /\ turns' \in Nat
    BY <1>16, ToPromptTypes DEF LoopTypes, ReplTypes, FileTypes, HistoryTypes, PlaceTypes, PCs, Terminal, Outs, DesignReviewPending, MarkPending
  <2>3. QED
    BY <1>16, <2>1, <2>2 DEF LoopTypes, ReplTypes, FileTypes, HistoryTypes, PlaceTypes, PCs,
           disks, repl, tree, hist, DesignReviewPending, MarkPending
<1>17. CASE DesignReviewReported
  <2>1. st' \in States /\ disk' \in States
    BY <1>17, SetPending, SaveTypes DEF LoopTypes, DesignReviewReported
  <2>2. PlaceTypes'
    BY <1>17, SetOut DEF LoopTypes, DesignReviewReported, Goto, PlaceTypes, PCs, Outs
  <2>3. UNCHANGED <<input, plan, locked, lockFile, base, pointer, repl, tree, hist>>
    BY <1>17 DEF DesignReviewReported
  <2>4. ReplTypes' /\ FileTypes' /\ HistoryTypes'
    BY <2>3 DEF ReplTypes, FileTypes, HistoryTypes, repl, tree, hist
  <2>5. QED
    BY <2>1, <2>2, <2>4 DEF LoopTypes
<1>18. CASE DesignVerdict
  <2>1. PlaceTypes'
    BY <1>18, LeaveTypes DEF LoopTypes, DesignVerdict, Goto, PlaceTypes, PCs, Terminal
  <2>2. LoopTypes' /\ ReplTypes' /\ FileTypes'
    BY <1>18, <2>1 DEF LoopTypes, ReplTypes, FileTypes, DesignVerdict, disks, repl, tree
  <2>3. HistoryTypes'
    <3>1. loc.text \in Plans \cup {NoPlan}
      BY LocalFields DEF LoopTypes, PlaceTypes
    <3>2. QED
      BY <1>18, <3>1 DEF HistoryTypes, DesignVerdict, tree
  <2>4. QED
    BY <2>2, <2>3
<1>19. CASE LockPlan
  <2>1. PlaceTypes'
    BY <1>19, LeaveTypes DEF LoopTypes, LockPlan, Goto, PlaceTypes, PCs, Terminal
  <2>2. QED
    BY <1>19, <2>1 DEF LoopTypes, ReplTypes, FileTypes, HistoryTypes, LockPlan, repl, tree, hist
<1>20. CASE LockCharter
  <2>1. PlaceTypes'
    BY <1>20, LeaveTypes DEF LoopTypes, LockCharter, Goto, PlaceTypes, PCs, Terminal
  <2>2. ReplTypes'
    BY <1>20 DEF ReplTypes, LockCharter
  <2>3. FileTypes' /\ HistoryTypes'
    BY <1>20 DEF FileTypes, HistoryTypes, LockCharter, tree, hist
  <2>4. QED
    BY <1>20, <2>1, <2>2, <2>3 DEF LoopTypes, LockCharter
<1>21. CASE EnterImplement
  <2>1. st' \in States /\ disk' \in States
    BY <1>21, ToImplement, SaveTypes DEF LoopTypes, EnterImplement
  <2>2. QED
    BY <1>21, <2>1 DEF LoopTypes, ReplTypes, FileTypes, HistoryTypes, PlaceTypes, PCs,
           disks, repl, tree, hist, EnterImplement, Goto
<1>22. CASE ImplementEntry
  <2>1. PlaceTypes'
    BY <1>22, LeaveTypes, SetInput DEF LoopTypes, ReplTypes, ImplementEntry, Goto, PlaceTypes, PCs, Terminal
  <2>2. LoopTypes'
    BY <1>22, <2>1 DEF LoopTypes, ImplementEntry
  <2>3. ReplTypes'
    BY <1>22 DEF ReplTypes, ImplementEntry
  <2>4. FileTypes' /\ HistoryTypes'
    BY <1>22 DEF FileTypes, HistoryTypes, ImplementEntry, hist
  <2>5. QED
    BY <2>2, <2>3, <2>4
<1>23. CASE ImplementTop
  <2>1. PlaceTypes'
    BY <1>23, SetPend DEF LoopTypes, PlaceTypes, PCs, ImplementTop, Goto
  <2>2. planMode' \in BOOLEAN /\ gateMode' \in {"off", "design", "implement"}
    BY <1>23 DEF ImplementTop, ApplyTurnMode, ReplTypes
  <2>3. QED
    BY <1>23, <2>1, <2>2 DEF LoopTypes, ReplTypes, FileTypes, HistoryTypes,
         disks, tree, hist, ImplementTop
<1>24. CASE ImplementTurn
  <2>1. PlaceTypes' /\ turns' \in Nat
    <3>1. CASE ToPrompt
      BY <3>1, ToPromptTypes
    <3>2. CASE Goto("gate") /\ turns' = turns + 1 /\ loc' = [loc EXCEPT !.hasInput = FALSE]
      <4>1. PlaceTypes'
        BY <3>2, SetInput DEF LoopTypes, PlaceTypes, PCs, Goto
      <4>2. turns' \in Nat
        BY <3>2 DEF HistoryTypes
      <4>3. QED
        BY <4>1, <4>2
    <3>3. QED
      BY <1>24, <3>1, <3>2 DEF ImplementTurn
  <2>2. QED
    BY <1>24, <2>1 DEF LoopTypes, ReplTypes, FileTypes, HistoryTypes, disks, ImplementTurn
<1>25. CASE ReviewGate
  <2>1. st' \in States /\ disk' \in States
    BY <1>25, BumpCounters, SaveTypes DEF LoopTypes, ReviewGate
  <2>2. PlaceTypes'
    BY <1>25, GatedTypes, EscalateOrTypes DEF LoopTypes, ReviewGate, Goto, PlaceTypes, PCs, Outs
  <2>3. QED
    BY <1>25, <2>1, <2>2 DEF LoopTypes, ReplTypes, FileTypes, HistoryTypes, ReviewGate, repl, tree, hist
<1>26. CASE ImplementReviewFailed
  <2>1. PlaceTypes'
    BY <1>26, GatedTypes DEF ImplementReviewFailed, Outs
  <2>2. ReplTypes'
    BY <1>26 DEF ReplTypes, ImplementReviewFailed, disks
  <2>3. FileTypes' /\ HistoryTypes'
    BY <1>26 DEF FileTypes, HistoryTypes, ImplementReviewFailed, disks, tree, hist
  <2>4. QED
    BY <1>26, <2>1, <2>2, <2>3 DEF LoopTypes, ImplementReviewFailed, disks
<1>27. CASE ImplementReviewPassed
  <2>1. PlaceTypes'
    BY <1>27, GatedTypes DEF ImplementReviewPassed, Outs
  <2>2. ReplTypes' /\ FileTypes'
    BY <1>27 DEF ReplTypes, FileTypes, ImplementReviewPassed, disks
  <2>3. HistoryTypes'
    BY <1>27 DEF HistoryTypes, ImplementReviewPassed, hist
  <2>4. QED
    BY <1>27, <2>1, <2>2, <2>3 DEF LoopTypes, ImplementReviewPassed, disks
<1>28. CASE ImplementReviewRejected
  <2>1. st' \in States /\ disk' \in States
    BY <1>28, BumpCounters, SaveTypes DEF LoopTypes, ImplementReviewRejected
  <2>2. PlaceTypes'
    BY <1>28, GatedTypes, EscalateOrTypes DEF LoopTypes, ImplementReviewRejected, Outs
  <2>3. prev' \in BOOLEAN
    <3>1. (st.escalation < MaxEscalations) \in BOOLEAN
      OBVIOUS
    <3>2. QED
      BY <1>28, <3>1, Zenon DEF ImplementReviewRejected
  <2>4. QED
    BY <1>28, <2>1, <2>2, <2>3 DEF LoopTypes, ReplTypes, FileTypes, HistoryTypes,
         ImplementReviewRejected, tree, hist
<1>29. CASE RetirePending
  <2>1. st' \in States /\ disk' \in States
    BY <1>29, SetPending, SaveTypes DEF LoopTypes, RetirePending
  <2>2. PlaceTypes'
    BY <1>29 DEF LoopTypes, PlaceTypes, PCs, RetirePending, Goto
  <2>3. UNCHANGED <<input, plan, locked, lockFile, base, pointer, repl, tree, hist>>
    BY <1>29 DEF RetirePending
  <2>4. QED
    BY <2>1, <2>2, <2>3 DEF LoopTypes, ReplTypes, FileTypes, HistoryTypes, repl, tree, hist
<1>30. CASE GateDone
  <2>1. st' \in States /\ disk' \in States
    BY <1>30, SetReviewed, SaveTypes DEF LoopTypes, GateDone
  <2>2. PlaceTypes'
    BY <1>30, LeaveTypes DEF LoopTypes, ReplTypes, FileTypes, HistoryTypes, PlaceTypes, PCs, Terminal, Outs, GateDone
  <2>3. QED
    BY <1>30, <2>1, <2>2 DEF LoopTypes, ReplTypes, FileTypes, HistoryTypes, PlaceTypes, PCs,
           disks, repl, tree, hist, GateDone
<1>31. CASE GatePending
  <2>1. st' \in States /\ disk' \in States
    BY <1>31, SetPending, SaveTypes DEF LoopTypes, GatePending, MarkPending
  <2>2. PlaceTypes' /\ turns' \in Nat
    BY <1>31, ToPromptTypes DEF LoopTypes, ReplTypes, FileTypes, HistoryTypes, PlaceTypes, PCs, Terminal, Outs, GatePending, MarkPending
  <2>3. QED
    BY <1>31, <2>1, <2>2 DEF LoopTypes, ReplTypes, FileTypes, HistoryTypes, PlaceTypes, PCs,
           disks, repl, tree, hist, GatePending, MarkPending
<1>32. CASE GateOther
  <2>1. PlaceTypes'
    BY <1>32, LeaveTypes DEF LoopTypes, GateOther, Goto, PlaceTypes, PCs, Terminal
  <2>2. QED
    BY <1>32, <2>1 DEF LoopTypes, ReplTypes, FileTypes, HistoryTypes, GateOther, disks, repl, tree, hist
<1>33. CASE ArchiveCharter
  <2>1. st' \in States
    BY <1>33, BumpCounters DEF LoopTypes, ArchiveCharter
  <2>2. LoopTypes'
    BY <1>33, <2>1 DEF LoopTypes, PlaceTypes, PCs, ArchiveCharter, Goto
  <2>3. ReplTypes' /\ FileTypes' /\ HistoryTypes'
    BY <1>33 DEF ReplTypes, FileTypes, HistoryTypes, ArchiveCharter, DropCharter, tree, hist
  <2>4. QED
    BY <2>2, <2>3
<1>34. CASE Escalate
  <2>1. st' \in States /\ disk' \in States
    BY <1>34, BackToDesign, SaveTypes DEF LoopTypes, Escalate
  <2>2. QED
    BY <1>34, <2>1 DEF LoopTypes, ReplTypes, FileTypes, HistoryTypes, PlaceTypes, PCs,
           disks, repl, tree, hist, Escalate, Goto
<1>35. CASE LeaveMission
  <2>1. st' \in States /\ disk' \in States
    <3>1. loc.out \in Statuses
      BY <1>35 DEF LeaveMission, LoopTypes, PlaceTypes, Statuses
    <3>2. QED
      BY <1>35, <3>1, SetStatus, SaveTypes DEF LeaveMission, LoopTypes
  <2>2. PlaceTypes' /\ turns' \in Nat
    BY <1>35, ToPromptTypes DEF LeaveMission
  <2>3. QED
    BY <1>35, <2>1, <2>2 DEF LoopTypes, ReplTypes, FileTypes, HistoryTypes, LeaveMission, DropCharter, tree
<1>36. CASE UNCHANGED vars
  BY <1>36 DEF LoopTypes, ReplTypes, FileTypes, HistoryTypes, PlaceTypes, vars
<1>37. QED
  BY <1>1, <1>2, <1>3, <1>4, <1>5, <1>6, <1>7, <1>8, <1>9, <1>10, <1>11,
     <1>12, <1>13, <1>14, <1>15, <1>16, <1>17, <1>18, <1>19, <1>20, <1>21,
     <1>22, <1>23, <1>24, <1>25, <1>26, <1>27, <1>28, <1>29, <1>30, <1>31,
     <1>32, <1>33, <1>34, <1>35, <1>36 DEF Next, Environment, Loop

\* The loop never leaves its types: counters stay natural numbers, charters
\* sets of files, and it always leaves with a terminal status (missionState).
THEOREM TypeCorrect == Spec => []TypeOK
<1>1. ASSUME Init PROVE TypeOK
  <2>1. st \in States /\ disk \in States /\ loc \in Locals
    BY <1>1, NewStates, FreshLocals DEF Init
  <2>2. LoopTypes
    BY <1>1, <2>1 DEF Init, LoopTypes, PlaceTypes, PCs
  <2>3. ReplTypes /\ FileTypes
    BY <1>1 DEF Init, ReplTypes, FileTypes
  <2>4. unrev = {} /\ owed = FALSE /\ passed = NoPlan /\ verdicts = 0 /\ turns = 0
    BY <1>1 DEF Init
  <2>5. QED
    BY <2>2, <2>3, <2>4 DEF TypeOK, HistoryTypes
<1>2. QED
  BY <1>1, TypeStep, PTL DEF Spec
=============================================================================
