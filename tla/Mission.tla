------------------------------ MODULE Mission ------------------------------
(***************************************************************************)
(* The mission loop of the REPL (pkg/chat/mission*.go): a long task is     *)
(* designed under an independent plan review, its charter is locked, it is *)
(* implemented under an independent code review, and at most once the      *)
(* implementation sends it back to design.  The loop is bounded, nobody    *)
(* approves its steps, and everything it needs to survive a crash is on    *)
(* disk: state.json, design.md, design.locked.md, charter.lock.json and    *)
(* implement.baseline.                                                     *)
(*                                                                         *)
(* One action is one stretch of code between two writes to the mission     *)
(* directory (or two calls of the model), so that Crash can fall between   *)
(* any two of them.  Plans and files are model values; a charter is the    *)
(* set of files it covers, {} standing for "no charter" (the gate refuses  *)
(* to lock an empty scope).                                                *)
(***************************************************************************)
EXTENDS Naturals, FiniteSets

CONSTANTS
  Files,                \* worktree files a mission may touch
  Exempt,               \* those isScopeExempt names: .deepai/, go.sum, *.lock
  Plans,                \* texts a plan may have
  NoPlan,               \* design.md missing or blank
  MaxDesignRounds,      \* maxDesignRounds
  MaxEscDesignRounds,   \* maxEscalatedDesignRounds
  MaxEscalations,       \* maxDesignEscalations
  MaxScopeFixRounds,    \* maxScopeFixRounds
  MaxIdleRounds,        \* maxIdleRounds
  MaxReviewRounds,      \* maxReviewRounds
  Git,                  \* the working directory is a git worktree
  Faults                \* what the environment may do, see FaultKinds

(***************************************************************************)
(* "crash": the process dies at any point and is started again.            *)
(* "rename": archiving charter.lock.json fails, which the code only logs.  *)
(* "rmplan": design.md disappears while the REPL waits at its prompt.      *)
(* "editplan": the user edits design.md while the design review runs; the  *)
(* reviewer-write check does not see it when .deepai/missions is ignored   *)
(* by git, as it is in this repository.                                    *)
(***************************************************************************)
FaultKinds == {"crash", "rename", "rmplan", "editplan"}

ASSUME CapsAssumption ==
  /\ MaxDesignRounds \in Nat \ {0}
  /\ MaxEscDesignRounds \in Nat \ {0}
  /\ MaxEscalations \in Nat
  /\ MaxScopeFixRounds \in Nat
  /\ MaxIdleRounds \in Nat
  /\ MaxReviewRounds \in Nat

ASSUME DataAssumption ==
  /\ NoPlan \notin Plans
  /\ Exempt \subseteq Files
  /\ Git \in BOOLEAN
  /\ Faults \subseteq FaultKinds

VARIABLES
  pc,        \* where runMission stands, "idle" at the prompt, "down" between processes
  st,        \* m.state, the in-memory bookkeeping
  disk,      \* state.json
  loc,       \* locals of runDesignPhase / runImplementPhase
  input,     \* missionPendingInput is non-empty
  attached,  \* r.mission # nil
  pointer,   \* the session's metadata names the mission
  plan,      \* design.md
  locked,    \* design.locked.md
  lockFile,  \* charter.lock.json
  charter,   \* r.mission.charter, {} when nil
  injected,  \* the charter rides on the SessionCarry into every turn
  planMode,  \* r.planMode
  gateMode,  \* r.deferPlanApproval / r.disableEnterPlan, set per phase
  base,      \* implement.baseline exists
  changed,   \* files that differ from the baseline
  edited,    \* SessionCarry's edit-tool records (read outside git only)
  prev,      \* r.reviewPrev # nil
  unrev,     \* history: files with edits of the mission no passing review saw
  owed,      \* history: a finished turn's plan has had no verdict yet
  passed,    \* history: the plan text the last design pass was given for
  verdicts,  \* history: design verdicts recorded in the current design phase
  turns      \* history: turns completed since the loop was entered

disks == <<disk, plan, locked, lockFile, base, pointer>>
repl  == <<attached, injected, planMode, gateMode, edited, prev, charter>>
tree  == <<changed, unrev>>
hist  == <<owed, passed, verdicts, turns>>
vars  == <<pc, st, disk, loc, input, attached, pointer, plan, locked, lockFile,
           charter, injected, planMode, gateMode, base, changed, edited, prev,
           unrev, owed, passed, verdicts, turns>>

----------------------------------------------------------------------------
(* Types *)

Terminal == {"done", "design_failed", "handed_over", "aborted"}
Statuses == Terminal \cup {"none", "active"}
PCs == {"idle", "down", "created", "loop", "dTop", "dTurn", "dSpent", "dReview",
        "dVerdict", "lockPlan", "lockCharter", "enterImpl", "iEnter", "iTop",
        "iTurn", "gate", "iReview", "gated", "acted", "escalate", "escSave", "leave"}
Outs == Terminal \cup {"", "pass", "fail", "terminal", "next", "escalate", "passed",
                       "reviewFailed", "reviewInterrupted", "handBack"}

States ==
  [status : Statuses, phase : {"design", "implement"}, designRound : Nat,
   escDesignRound : Nat, implRound : Nat, scopeRound : Nat, idleRound : Nat,
   escalation : Nat, reviewed : BOOLEAN, pending : {"", "design", "implement"}]

\* Mutant: createMission forgets the phase ("unknown phase" of runMission).
NewStateNoPhase ==
  [status |-> "active", phase |-> "", designRound |-> 0,
   escDesignRound |-> 0, implRound |-> 0, scopeRound |-> 0, idleRound |-> 0,
   escalation |-> 0, reviewed |-> FALSE, pending |-> ""]

\* createMission's literal.
NewState ==
  [status |-> "active", phase |-> "design", designRound |-> 0,
   escDesignRound |-> 0, implRound |-> 0, scopeRound |-> 0, idleRound |-> 0,
   escalation |-> 0, reviewed |-> FALSE, pending |-> ""]

\* The locals of the two phase functions.
Locals == [pend : BOOLEAN, hasInput : BOOLEAN, round : Nat,
           text : Plans \cup {NoPlan}, out : Outs]

NoLocals == [pend |-> FALSE, hasInput |-> FALSE, round |-> 0, text |-> NoPlan, out |-> ""]

PlaceTypes == pc \in PCs /\ loc \in Locals /\ (pc = "leave" => loc.out \in Terminal)

LoopTypes == st \in States /\ disk \in States /\ PlaceTypes

ReplTypes ==
  /\ input \in BOOLEAN /\ attached \in BOOLEAN /\ pointer \in BOOLEAN
  /\ injected \in BOOLEAN /\ planMode \in BOOLEAN /\ prev \in BOOLEAN
  /\ gateMode \in {"off", "design", "implement"}

FileTypes ==
  /\ plan \in Plans \cup {NoPlan} /\ locked \in Plans \cup {NoPlan}
  /\ lockFile \in SUBSET Files /\ charter \in SUBSET Files
  /\ changed \in SUBSET Files /\ edited \in SUBSET Files
  /\ base \in BOOLEAN

HistoryTypes ==
  /\ unrev \in SUBSET Files /\ owed \in BOOLEAN
  /\ passed \in Plans \cup {NoPlan}
  /\ verdicts \in Nat /\ turns \in Nat

TypeOK == LoopTypes /\ ReplTypes /\ FileTypes /\ HistoryTypes

----------------------------------------------------------------------------
(* Helpers *)

Escalated(s) == s.escalation > 0

\* maxRounds of the design phase the mission is in.
DesignCap(s) == IF Escalated(s) THEN MaxEscDesignRounds ELSE MaxDesignRounds

\* designRound: the counter this design phase spends.
DesignRound(s) == IF Escalated(s) THEN s.escDesignRound ELSE s.designRound

\* Mutant: every design phase spends the initial counter.
WithInitialRound(s, n) == [s EXCEPT !.designRound = n]

\* setDesignRound
WithDesignRound(s, n) ==
  IF Escalated(s) THEN [s EXCEPT !.escDesignRound = n] ELSE [s EXCEPT !.designRound = n]

\* save: state.json always takes the whole in-memory record.
Save(s) == st' = s /\ disk' = s

\* IdleRound + 1, saturating where the code stops telling values apart: a crash
\* between this save and the hand-over lets a resume count further.
OneIdleMore(n) == IF n > MaxIdleRounds THEN n ELSE n + 1

Goto(label) == pc' = label

\* Mutant: a phase function that should stop the loop lets it go on.
StayInLoop == pc' = "loop" /\ loc' = NoLocals /\ turns' = 0

\* Back at the prompt, the mission still active: the locals are gone.
ToPrompt == pc' = "idle" /\ loc' = NoLocals /\ turns' = 0

\* Every exit from the mission goes through leaveMission (pc "leave").
Leave(status) == pc' = "leave" /\ loc' = [loc EXCEPT !.out = status]

\* Mutant: an interrupted review leaves no mark on disk.
NoMark(phase) == UNCHANGED <<st, disk>>

\* The review of this phase's last turn is still owed.
MarkPending(phase) == Save([st EXCEPT !.pending = phase])

\* Mutant: the mode is set at phase transitions only, not before every turn.
ApplyOnTransition(phase) ==
  gateMode' = phase /\ planMode' = IF gateMode = phase THEN planMode ELSE phase = "design"

\* applyMissionTurnMode
ApplyTurnMode(phase) == gateMode' = phase /\ planMode' = (phase = "design")

\* Mutant: the pending flag is ignored on entry.
NothingOwed == FALSE

\* A pending design review that has a plan to read.
DesignReviewOwed == st.pending = "design" /\ plan # NoPlan

\* Mutant: a verdict without an explicit pass locks the charter.
AnyVerdict == loc.out # "terminal"

\* designOutcome: an explicit pass, with acceptance criteria and a scope.
PassVerdict == loc.out = "pass"

\* Mutant: every entry of the phase takes a fresh baseline.
EveryEntry == TRUE

\* There is no implement.baseline yet.
FirstEntry == ~base

\* Mutant: whatever the session points at is resumed.
ResumeAny == pointer

\* attachSessionMission: only an active mission is attached.
Attachable == pointer /\ disk.status = "active"

\* Mutant: the rendered charter stays on the carry.
LeaveCharter == UNCHANGED injected

\* SetMissionCharter("")
DropCharter == injected' = FALSE

\* classifyAgainstCharter: what missionReviewGate hands the reviewer, and what it
\* orders reverted.  An exempt file outside the charter is neither.
ReviewScope == IF Git THEN changed \cap charter ELSE edited
Violations  == IF Git THEN changed \ (charter \cup Exempt) ELSE {}

----------------------------------------------------------------------------
(* The prompt *)

\* createMission + `r.mission = m`: a fresh directory, so nothing of an
\* earlier mission's files is in it.  Also the entry of maybeUpgradeToMission,
\* which copies the plan an ordinary plan-mode turn wrote.
CreateMission ==
  /\ pc = "idle" /\ ~attached
  /\ Save(NewState)
  /\ plan' \in Plans \cup {NoPlan}
  /\ attached' = TRUE /\ pointer' = FALSE
  /\ locked' = NoPlan /\ lockFile' = {} /\ charter' = {}
  /\ base' = FALSE /\ changed' = {} /\ unrev' = {}
  /\ owed' = FALSE /\ passed' = NoPlan /\ verdicts' = 0
  /\ Goto("created")
  /\ UNCHANGED <<loc, input, injected, planMode, gateMode, edited, prev, turns>>

\* setSessionMission, then runMission.
PointSession ==
  /\ pc = "created"
  /\ pointer' = TRUE
  /\ Goto("loop")
  /\ UNCHANGED <<st, disk, loc, input, plan, locked, lockFile, base, repl, tree, hist>>

\* /mission and /mission resume carry no input; a line typed at the prompt
\* while a mission is attached becomes its pending input.
Resume ==
  /\ pc = "idle" /\ attached
  /\ input' = TRUE \/ UNCHANGED input
  /\ Goto("loop")
  /\ UNCHANGED <<st, loc, disks, repl, tree, hist>>

\* /mission abort, /clear, and a new /mission superseding this one.
Abort ==
  /\ pc = "idle" /\ attached
  /\ Leave("aborted")
  /\ UNCHANGED <<st, input, disks, repl, tree, hist>>

\* leaveMission
LeaveMission ==
  /\ pc = "leave"
  /\ Save([st EXCEPT !.status = loc.out])
  /\ DropCharter /\ planMode' = FALSE /\ gateMode' = "off"
  /\ input' = FALSE /\ attached' = FALSE /\ prev' = FALSE /\ charter' = {}
  /\ pointer' = (pointer /\ loc.out # "aborted")
  /\ ToPrompt
  /\ UNCHANGED <<plan, locked, lockFile, base, edited, tree, owed, passed, verdicts>>

\* startNewSession: the mission stays with the old session, which only a new
\* process can resume; /new gives the REPL a fresh carry.
NewSession ==
  /\ pc = "idle" /\ attached
  /\ attached' = FALSE /\ charter' = {} /\ injected' = FALSE /\ edited' = {}
  /\ planMode' = FALSE /\ gateMode' = "off" /\ input' = FALSE
  /\ UNCHANGED <<pc, st, loc, disks, prev, tree, hist>>

\* /undo resets the carry and puts the charter back on it.
Undo ==
  /\ pc = "idle" /\ attached
  /\ injected' = (charter # {}) /\ edited' = {}
  /\ UNCHANGED <<pc, st, loc, input, disks, attached, planMode, gateMode, prev,
                 charter, tree, hist>>

\* Edits outside the mission's turns while it is active: the user's editor,
\* a file-based slash command (handled before the mission sees the line).
\* They count as the mission's once there is a baseline.
ExternalEdit ==
  /\ pc = "idle" /\ attached /\ base /\ Git
  /\ \E f \in Files : changed' = changed \cup {f} /\ unrev' = unrev \cup {f}
  /\ UNCHANGED <<pc, st, loc, input, disks, repl, hist>>

\* The plan file vanishes between two runs of the loop.
RemovePlan ==
  /\ "rmplan" \in Faults
  /\ pc = "idle" /\ attached /\ plan # NoPlan
  /\ plan' = NoPlan /\ owed' = FALSE
  /\ UNCHANGED <<pc, st, loc, input, disk, locked, lockFile, base, pointer, repl,
                 tree, passed, verdicts, turns>>

\* The process dies: everything in memory is gone.
Crash ==
  /\ "crash" \in Faults /\ pc # "down"
  /\ Goto("down")
  /\ st' = disk /\ loc' = NoLocals /\ turns' = 0 /\ input' = FALSE /\ attached' = FALSE
  /\ charter' = {} /\ injected' = FALSE /\ planMode' = FALSE /\ gateMode' = "off"
  /\ edited' = {} /\ prev' = FALSE
  /\ UNCHANGED <<disks, tree, owed, passed, verdicts>>

\* REPL start, attachSessionMission + openMission: only an active mission the
\* resumed session points at is attached; whatever charter file there is
\* comes back with it, and the carry gets it.
Restart ==
  /\ pc = "down"
  /\ Goto("idle")
  /\ attached' = Attachable
  /\ charter' = IF Attachable THEN lockFile ELSE {}
  /\ injected' = (Attachable /\ lockFile # {})
  /\ UNCHANGED <<st, loc, input, disks, planMode, gateMode, edited, prev, tree, hist>>

----------------------------------------------------------------------------
(* runMission and the design phase *)

\* runMission: dispatch on the phase, enter runDesignPhase or
\* runImplementPhase; the design phase consumes the pending input here.
EnterPhase ==
  /\ pc = "loop"
  /\ \/ /\ st.phase = "design"
        /\ loc' = [NoLocals EXCEPT !.hasInput = input]
        /\ input' = FALSE
        /\ Goto("dTop")
     \/ /\ st.phase = "implement"
        /\ loc' = NoLocals
        /\ Goto("iEnter")
        /\ UNCHANGED input
  /\ UNCHANGED <<st, disks, repl, tree, hist>>

\* Top of the design loop: a pending review with a plan to read goes to the
\* gate (or to the user's amendment first); anything else needs a round.
DesignTop ==
  /\ pc = "dTop"
  /\ LET owing == DesignReviewOwed
         round == IF owing THEN DesignRound(st) ELSE DesignRound(st) + 1
     IN IF ~owing /\ round > DesignCap(st)
        THEN Leave("design_failed") /\ UNCHANGED <<planMode, gateMode>>
        ELSE /\ loc' = [loc EXCEPT !.pend = owing, !.round = round, !.text = plan]
             /\ IF ~owing \/ loc.hasInput
                THEN Goto("dTurn") /\ ApplyTurnMode("design")
                ELSE Goto("dReview") /\ UNCHANGED <<planMode, gateMode>>
  /\ UNCHANGED <<st, input, disks, attached, injected, edited, prev, charter, tree, hist>>

\* One design turn.  It may rewrite the plan, and its tools may leave plan
\* mode (the post-turn readback); an interrupted, failed or capped turn
\* returns to the prompt with the mission active and nothing spent.
DesignTurn ==
  /\ pc = "dTurn"
  /\ plan' \in Plans \cup {plan}
  /\ planMode' \in BOOLEAN
  /\ \/ /\ Goto("dSpent")
        /\ turns' = turns + 1
        /\ owed' = (plan' # NoPlan)
        /\ UNCHANGED loc
     \/ ToPrompt /\ UNCHANGED owed
  /\ UNCHANGED <<st, disk, input, locked, lockFile, base, pointer, attached, injected,
                 gateMode, edited, prev, charter, tree, passed, verdicts>>

\* After a completed turn: spend the round (an amendment does not), then look
\* for a plan.  No plan at the cap ends the mission.
DesignSpent ==
  /\ pc = "dSpent"
  /\ IF plan # NoPlan
     THEN /\ IF loc.pend THEN UNCHANGED <<st, disk>> ELSE Save(WithDesignRound(st, loc.round))
          /\ Goto("dReview")
          /\ loc' = [loc EXCEPT !.text = plan, !.hasInput = FALSE]
     ELSE /\ Save(IF loc.pend THEN [st EXCEPT !.pending = ""]
                  ELSE WithDesignRound(st, loc.round))
          /\ IF loc.round >= DesignCap(st)
             THEN Leave("design_failed")
             ELSE Goto("dTop") /\ loc' = [loc EXCEPT !.hasInput = FALSE]
  /\ UNCHANGED <<input, plan, locked, lockFile, base, pointer, repl, tree, hist>>

\* The user edits design.md under the running review.
EditPlan ==
  /\ "editplan" \in Faults
  /\ pc = "dReview"
  /\ plan' \in Plans \ {plan}
  /\ UNCHANGED <<pc, st, loc, input, disk, locked, lockFile, base, pointer, repl,
                 tree, hist>>

\* dispatchDesignReview did not produce a verdict and the mission stays
\* active: interrupted, or a transient outage after its one retry.
DesignReviewPending ==
  /\ pc = "dReview"
  /\ MarkPending("design")
  /\ ToPrompt
  /\ UNCHANGED <<input, plan, locked, lockFile, base, pointer, repl, tree, owed,
                 passed, verdicts>>

\* It reported, or failed for good (deadline, tampered tree): the pending flag
\* is retired now, never before.
DesignReviewReported ==
  /\ pc = "dReview"
  /\ \E out \in {"pass", "fail", "terminal"} : loc' = [loc EXCEPT !.out = out]
  /\ IF loc.pend THEN Save([st EXCEPT !.pending = ""]) ELSE UNCHANGED <<st, disk>>
  /\ Goto("dVerdict")
  /\ UNCHANGED <<input, plan, locked, lockFile, base, pointer, repl, tree, hist>>

\* What a verdict does: hand over, lock, fail at the cap, or revise.
DesignVerdict ==
  /\ pc = "dVerdict"
  /\ owed' = (owed /\ loc.out = "terminal")
  /\ verdicts' = IF loc.out = "terminal" THEN verdicts ELSE verdicts + 1
  /\ passed' = IF loc.out = "pass" THEN loc.text ELSE passed
  /\ \/ loc.out = "terminal" /\ Leave("handed_over")
     \/ PassVerdict /\ Goto("lockPlan") /\ UNCHANGED loc
     \/ loc.out = "fail" /\ IF loc.round >= DesignCap(st)
                            THEN Leave("design_failed")
                            ELSE Goto("dTop") /\ UNCHANGED loc
  /\ UNCHANGED <<st, input, disks, repl, tree, turns>>

\* lockCharter: design.md is read again and frozen ...
LockPlan ==
  /\ pc = "lockPlan"
  /\ \/ locked' = plan /\ Goto("lockCharter") /\ UNCHANGED loc
     \/ Leave("handed_over") /\ UNCHANGED locked
  /\ UNCHANGED <<st, disk, input, plan, lockFile, base, pointer, repl, tree, hist>>

\* ... then the charter is written, and put on the carry.
LockCharter ==
  /\ pc = "lockCharter"
  /\ \/ /\ \E scope \in (SUBSET Files) \ {{}} : lockFile' = scope /\ charter' = scope
        /\ injected' = TRUE
        /\ Goto("enterImpl")
        /\ UNCHANGED loc
     \/ Leave("handed_over") /\ UNCHANGED <<lockFile, charter, injected>>
  /\ UNCHANGED <<st, disk, input, plan, locked, base, pointer, attached, planMode,
                 gateMode, edited, prev, tree, hist>>

EnterImplement ==
  /\ pc = "enterImpl"
  /\ Save([st EXCEPT !.phase = "implement"])
  /\ Goto("loop")
  /\ UNCHANGED <<loc, input, plan, locked, lockFile, base, pointer, repl, tree, hist>>

----------------------------------------------------------------------------
(* The implementation phase *)

\* Entry of runImplementPhase: no charter, no implementation; the baseline is
\* taken on the first entry only, and it resets the attribution.
ImplementEntry ==
  /\ pc = "iEnter"
  /\ IF charter = {}
     THEN Leave("handed_over") /\ UNCHANGED <<base, changed, edited, prev, input>>
     ELSE /\ IF FirstEntry
             THEN base' = TRUE /\ changed' = {} /\ edited' = {} /\ prev' = FALSE
             ELSE UNCHANGED <<base, changed, edited, prev>>
          /\ loc' = [loc EXCEPT !.hasInput = input]
          /\ input' = FALSE
          /\ Goto("iTop")
  /\ UNCHANGED <<st, disk, plan, locked, lockFile, pointer, attached, injected,
                 planMode, gateMode, charter, unrev, hist>>

ImplementTop ==
  /\ pc = "iTop"
  /\ LET owing == st.pending = "implement"
     IN /\ loc' = [loc EXCEPT !.pend = owing]
        /\ IF owing /\ ~loc.hasInput
           THEN Goto("gate") /\ UNCHANGED <<planMode, gateMode>>
           ELSE Goto("iTurn") /\ ApplyTurnMode("implement")
  /\ UNCHANGED <<st, input, disks, attached, injected, edited, prev, charter, tree, hist>>

\* One implementation turn: it writes some files and brings others back to the
\* baseline.  Outside git only the edit tools' records are seen later.
ImplementTurn ==
  /\ pc = "iTurn"
  /\ \E written \in SUBSET Files, reverted \in SUBSET Files :
       /\ changed' = (changed \ reverted) \cup written
       /\ unrev' = (unrev \ reverted) \cup written
       /\ edited' = IF Git THEN edited ELSE edited \cup written
  /\ \/ /\ Goto("gate")
        /\ turns' = turns + 1
        /\ loc' = [loc EXCEPT !.hasInput = FALSE]
     \/ ToPrompt
  /\ UNCHANGED <<st, disks, input, attached, injected, planMode, gateMode, prev,
                 charter, owed, passed, verdicts>>

Gated(out) == pc' = "gated" /\ loc' = [loc EXCEPT !.out = out]

\* Mutant: escalations are not counted.
EscalateAlways(out) == Gated("escalate")

\* tryEscalate, or what the gate does when no escalation is left.
EscalateOr(out) == Gated(IF st.escalation < MaxEscalations THEN "escalate" ELSE out)

\* missionReviewGate up to the reviewer: files outside the charter cost a
\* scope round, an empty review scope an idle round, the rest is reviewed.
ReviewGate ==
  /\ pc = "gate"
  /\ \/ /\ Violations # {} /\ st.scopeRound >= MaxScopeFixRounds
        /\ EscalateOr("handBack")
        /\ UNCHANGED <<st, disk>>
     \/ /\ Violations # {} /\ st.scopeRound < MaxScopeFixRounds
        /\ Save([st EXCEPT !.scopeRound = @ + 1])
        /\ Gated("next")
     \/ /\ Violations = {} /\ ReviewScope = {}
        /\ Save([st EXCEPT !.idleRound = OneIdleMore(@)])
        /\ Gated(IF st.idleRound + 1 > MaxIdleRounds THEN "handBack" ELSE "next")
     \/ /\ Violations = {} /\ ReviewScope # {}
        /\ Goto("iReview")
        /\ UNCHANGED <<st, disk, loc>>
  /\ UNCHANGED <<input, plan, locked, lockFile, base, pointer, repl, tree, hist>>

\* The reviewer produced no verdict; a tampered tree (somebody edits a file
\* under the review) is the terminal kind.
ImplementReviewFailed ==
  /\ pc = "iReview"
  /\ prev' = FALSE
  /\ \/ \E out \in {"reviewFailed", "reviewInterrupted", "handBack"} : Gated(out) /\ UNCHANGED tree
     \/ /\ Git /\ Gated("handBack")
        /\ \E f \in Files : changed' = changed \cup {f} /\ unrev' = unrev \cup {f}
  /\ UNCHANGED <<st, input, disks, attached, injected, planMode, gateMode, edited,
                 charter, hist>>

\* An explicit pass.
ImplementReviewPassed ==
  /\ pc = "iReview"
  /\ unrev' = unrev \ ReviewScope
  /\ edited' = {} /\ prev' = FALSE
  /\ Gated("passed")
  /\ UNCHANGED <<st, input, disks, attached, injected, planMode, gateMode, charter,
                 changed, hist>>

\* A failing verdict: S1 (the plan is at fault), S2 (the round cap, and the
\* same file failed in the previous verdict, which only this process knows),
\* or one more fix round.
ImplementReviewRejected ==
  /\ pc = "iReview"
  /\ \/ /\ EscalateOr("handBack")
        /\ prev' = (st.escalation < MaxEscalations)
        /\ UNCHANGED <<st, disk>>
     \/ /\ st.implRound >= MaxReviewRounds
        /\ \/ prev /\ EscalateOr("handBack")
              /\ prev' = (st.escalation < MaxEscalations)
           \/ Gated("handBack") /\ prev' = FALSE
        /\ UNCHANGED <<st, disk>>
     \/ /\ st.implRound < MaxReviewRounds
        /\ Save([st EXCEPT !.implRound = @ + 1])
        /\ prev' = TRUE
        /\ Gated("next")
  /\ UNCHANGED <<input, plan, locked, lockFile, base, pointer, attached, injected,
                 planMode, gateMode, edited, charter, tree, hist>>

\* runImplementPhase, once the gate has reported: the pending flag is retired,
\* unless the review it stands for still has not happened.
RetirePending ==
  /\ pc = "gated"
  /\ IF loc.pend /\ loc.out \notin {"reviewFailed", "reviewInterrupted"}
     THEN Save([st EXCEPT !.pending = ""])
     ELSE UNCHANGED <<st, disk>>
  /\ Goto("acted")
  /\ UNCHANGED <<loc, input, plan, locked, lockFile, base, pointer, repl, tree, hist>>

\* The switch on the gate's result.
GateDone ==
  /\ pc = "acted" /\ loc.out = "passed"
  /\ Save([st EXCEPT !.reviewed = TRUE])
  /\ Leave("done")
  /\ UNCHANGED <<input, plan, locked, lockFile, base, pointer, repl, tree, hist>>

GatePending ==
  /\ pc = "acted" /\ loc.out \in {"reviewFailed", "reviewInterrupted"}
  /\ MarkPending("implement")
  /\ ToPrompt
  /\ UNCHANGED <<input, plan, locked, lockFile, base, pointer, repl, tree, owed,
                 passed, verdicts>>

GateOther ==
  /\ pc = "acted"
  /\ \/ loc.out = "handBack" /\ Leave("handed_over")
     \/ loc.out = "next" /\ Goto("iTop") /\ UNCHANGED loc
     \/ loc.out = "escalate" /\ Goto("escalate") /\ UNCHANGED loc
  /\ UNCHANGED <<st, input, disks, repl, tree, hist>>

\* escalateToDesign: the charter is archived (a rename on disk) ...
ArchiveCharter ==
  /\ pc = "escalate"
  /\ st' = [st EXCEPT !.escalation = @ + 1]
  /\ \/ lockFile' = {} /\ charter' = {}
     \/ "rename" \in Faults /\ UNCHANGED <<lockFile, charter>>
  /\ DropCharter /\ edited' = {} /\ prev' = FALSE
  /\ Goto("escSave")
  /\ UNCHANGED <<disk, loc, input, plan, locked, base, pointer, attached, planMode,
                 gateMode, tree, hist>>

\* ... and the escalated design phase starts from zero, opened by the
\* escalation message.  The baseline stays.
Escalate ==
  /\ pc = "escSave"
  /\ Save([st EXCEPT !.phase = "design", !.escDesignRound = 0, !.implRound = 0,
                     !.scopeRound = 0, !.idleRound = 0])
  /\ input' = TRUE
  /\ verdicts' = 0
  /\ Goto("loop")
  /\ UNCHANGED <<loc, plan, locked, lockFile, base, pointer, repl, tree, owed, passed, turns>>

----------------------------------------------------------------------------
(* Specification *)

Init ==
  /\ pc = "idle"
  /\ st = [NewState EXCEPT !.status = "none"] /\ disk = st
  /\ loc = NoLocals
  /\ input = FALSE /\ attached = FALSE /\ pointer = FALSE
  /\ plan = NoPlan /\ locked = NoPlan /\ lockFile = {} /\ charter = {}
  /\ injected = FALSE /\ planMode = FALSE /\ gateMode = "off"
  /\ base = FALSE /\ changed = {} /\ edited = {} /\ unrev = {}
  /\ prev = FALSE /\ owed = FALSE /\ passed = NoPlan
  /\ verdicts = 0 /\ turns = 0

\* What the user and the world do.
Environment ==
  \/ CreateMission \/ Resume \/ Abort \/ NewSession \/ Undo
  \/ ExternalEdit \/ RemovePlan \/ EditPlan \/ Crash \/ Restart

\* What the loop does once it has been entered.
Loop ==
  \/ PointSession \/ EnterPhase
  \/ DesignTop \/ DesignTurn \/ DesignSpent \/ DesignReviewPending
  \/ DesignReviewReported \/ DesignVerdict \/ LockPlan \/ LockCharter
  \/ EnterImplement \/ ImplementEntry \/ ImplementTop \/ ImplementTurn
  \/ ReviewGate \/ ImplementReviewFailed \/ ImplementReviewPassed
  \/ ImplementReviewRejected \/ RetirePending \/ GateDone \/ GatePending
  \/ GateOther \/ ArchiveCharter \/ Escalate \/ LeaveMission

Next == Environment \/ Loop

Spec == Init /\ [][Next]_vars

\* Turns and reviews come back: a turn has a 2 h hard cap, a review its own
\* deadline, and everything else is local computation.  The user is not fair.
FairSpec == Spec /\ WF_vars(Loop)

----------------------------------------------------------------------------
(* Properties *)

Running == pc \notin {"idle", "down"}

\* Only reviewed work is reported done, but for what the code exempts: when
\* state.json says "done", part of the charter was changed, whatever else differs
\* from the mission's baseline is an exempt file, and no edit since the baseline
\* escaped a passing review but those of exempt files outside the charter, whatever
\* restarts, escalations and edits by hand came before (mission.go,
\* missionStatusDone; escalateToDesign keeps the baseline for exactly this).
DoneMeansReviewed ==
  [][ disk.status # "done" /\ disk'.status = "done"
      => /\ unrev \subseteq Exempt \ charter
         /\ Git => changed \subseteq charter \cup Exempt /\ changed \cap charter # {} ]_vars

\* The bounds are the safety property: no counter in state.json ever passes its
\* cap, however often the mission is interrupted, killed and resumed.  (The
\* idle counter reaches cap + 1 in the save that precedes the hand-over.)
RoundsWithinCaps ==
  /\ disk.designRound <= MaxDesignRounds /\ disk.escDesignRound <= MaxEscDesignRounds
  /\ disk.implRound <= MaxReviewRounds /\ disk.scopeRound <= MaxScopeFixRounds
  /\ disk.idleRound <= MaxIdleRounds + 1 /\ disk.escalation <= MaxEscalations

\* The most turns the loop can complete before it returns to the prompt.
ImplementTurns == 1 + MaxReviewRounds + MaxScopeFixRounds + MaxIdleRounds
MostTurns == MaxDesignRounds + ImplementTurns
             + MaxEscalations * (MaxEscDesignRounds + ImplementTurns)

\* One unattended run of the loop costs at most MostTurns turns: a resume never
\* gets a fresh allowance within the run, whatever state it found on disk.
TurnBudget == turns <= MostTurns

\* Once the loop is entered it comes back to the prompt, by itself.
LoopEnds == Running ~> ~Running

\* Every turn runs in the mode and context of its phase: a design turn is read
\* only and sees no charter, an implementation turn can write, has a charter
\* and sees it (applyMissionTurnMode, escalateToDesign, attachSessionMission).
TurnContext ==
  /\ pc = "dTurn" => planMode /\ gateMode = "design" /\ ~injected
  /\ pc = "iTurn" => ~planMode /\ gateMode = "implement" /\ injected /\ charter # {}

\* Outside a mission the user's ordinary turns see neither the charter nor a
\* phase's turn mode, however the mission was left.
OrdinaryTurnsClean ==
  pc = "idle" /\ ~attached => ~injected /\ ~planMode /\ gateMode = "off" /\ ~input

\* The text an implementation works from (design.locked.md) is the text the
\* design review last passed (lockCharter).
LockedPlanWasPassed == st.phase = "implement" /\ attached => locked = passed

\* A plan whose turn completed is read before the mission gives up on it: no
\* mission ends design_failed with a plan on disk that no verdict has seen
\* (runDesignPhase, the comment on reviewInterrupted).
NoPlanFailsUnread ==
  [][ disk.status # "design_failed" /\ disk'.status = "design_failed" => ~owed ]_vars

\* A review that is owed is held before the loop, unprompted, runs another
\* turn over what it should have read (PendingReview).
OwedReviewComesFirst ==
  /\ pc = "dTurn" /\ ~loc.hasInput => ~owed
  /\ pc = "iTurn" /\ ~loc.hasInput => st.pending # "implement"

\* The counters that restart, and the caps that do not, bound what state.json
\* may count up to and what one run of the loop costs, after any crash.
Budgets == RoundsWithinCaps /\ TurnBudget

\* A design phase records at most as many verdicts as it has rounds: no plan is
\* judged twice on one round, whichever of the two counters is being spent.
VerdictsBounded ==
  st.phase = "design" =>
    verdicts <= IF st.escalation > 0 THEN MaxEscDesignRounds ELSE MaxDesignRounds

\* What a mission promises whoever reads state.json: see MissionLifecycle.
Lifecycle == INSTANCE MissionLifecycle WITH
  status <- disk.status, phase <- disk.phase,
  escalation <- disk.escalation, reviewed <- disk.reviewed

\* The loop, crashes and all, implements that promise.
LifecycleSpec == Lifecycle!Spec
=============================================================================
