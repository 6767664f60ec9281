--------------------------- MODULE ServiceProofs ---------------------------
(***************************************************************************)
(* Proofs about PRLoop, SubagentPool, UpdateQueue and FigmaBridge,         *)
(* components that share nothing.                                          *)
(* For any caps: what is merged has passed a review and its checks, as     *)
(* long as every save succeeds, nobody else pushes after the pull request  *)
(* was last read, every commit is pushed and no fix of failing checks is   *)
(* cut short.  For any set of tasks: a waiter is told the one final        *)
(* status, and nothing is reported cancelled that nobody cancelled.  For   *)
(* any scopes, queue size and number of updates: an update that was        *)
(* submitted before a flush is never saved after it, and coalescing drops  *)
(* an update only for a newer one, which may in turn be dropped.  For any  *)
(* number of jobs, panels and restarts: no script is handed out twice, and *)
(* no ordinary script is accepted while the outcome of another is unknown. *)
(***************************************************************************)
EXTENDS MCServices, PRLoop, SequenceTheorems, FiniteSetTheorems, TLAPS

----------------------------------------------------------------------------
(* The pull request loop *)

\* The part of the type invariant that this needs.
States == st \in PRStates /\ saved \in PRStates /\ vetted \subseteq {"reviewed", "green"}

\* Memory and disk differ only after a failed write.
SavedIsCurrent == ~lost => saved = st

\* Where the loop is tells the status it works on.
PlaceTells ==
  /\ prpc \in {"attached", "post", "mark", "fix", "next"} => st.status = "reviewing"
  /\ prpc = "cinext" => st.status = "awaiting_ci"
  /\ prpc \in {"merge", "merged"} => st.status = "awaiting_merge"

\* The status tells what the head has behind it; after a fix of failing
\* checks it does again when that fix is recorded.
StatusVouches ==
  ~lost /\ unseen = {} =>
    /\ st.status = "awaiting_ci" /\ prpc # "cinext" => "reviewed" \in vetted
    /\ st.status = "awaiting_merge" => vetted = {"reviewed", "green"}

VettedInv == States /\ SavedIsCurrent /\ PlaceTells /\ StatusVouches

\* The status of a record is replaced, and so is its round.
LEMMA OneField ==
  ASSUME NEW s \in PRStates, NEW n \in Nat
  PROVE  [s EXCEPT !.round = n] \in PRStates
  BY DEF PRStates

LEMMA StatusField ==
  ASSUME NEW s \in PRStates
  PROVE  /\ [s EXCEPT !.status = "reviewing"] \in PRStates
         /\ [s EXCEPT !.status = "reviewing"].status = "reviewing"
  BY DEF PRStates, PRStatuses

LEMMA TwoFields ==
  ASSUME st \in PRStates
  PROVE  /\ AfterCIFix \in PRStates
         /\ AfterCIFix.status = "reviewing"
<1>1. st.round + 1 \in Nat
  BY DEF PRStates
<1>2. [st EXCEPT !.round = st.round + 1] \in PRStates
  BY <1>1, OneField
<1>3. AfterCIFix = [[st EXCEPT !.round = st.round + 1] EXCEPT !.status = "reviewing"]
  BY Zenon DEF AfterCIFix
<1> QED
  BY <1>2, <1>3, StatusField

LEMMA PRInitInv == PRInit => VettedInv
  BY DEF PRInit, VettedInv, States, SavedIsCurrent, PlaceTells, StatusVouches, PRStates, PRStatuses

LEMMA PRStepInv == VettedInv /\ [PRNextStep]_prVars => VettedInv'
<1> SUFFICES ASSUME VettedInv, [PRNextStep]_prVars PROVE VettedInv'
  OBVIOUS
<1> USE DEF VettedInv, States, SavedIsCurrent, PlaceTells, StatusVouches, PRStates, PRStatuses
<1>1. CASE PRAttach
  BY <1>1 DEF PRAttach, At
<1>2. CASE PRReset
  BY <1>2 DEF PRReset, At, ResetVerdicts
<1>3. CASE PRResume
  BY <1>3 DEF PRResume, At
<1>4. CASE PRMergeCommand
  BY <1>4 DEF PRMergeCommand, At
<1>5. CASE PRAbort
  BY <1>5 DEF PRAbort, Write, Return, At, Active
<1>6. CASE PROutside
  BY <1>6 DEF PROutside
<1>7. CASE PRStop
  BY <1>7 DEF PRStop, Return, At
<1>8. CASE PRCapped
  BY <1>8 DEF PRCapped, Write, Return, At, InReview, InCI
<1>9. CASE PRSkipToFix
  BY <1>9 DEF PRSkipToFix, At, InReview
<1>10. CASE PRRepost
  BY <1>10 DEF PRRepost, At, InReview
<1>11. CASE PRPass
  BY <1>11 DEF PRPass, Save, Write, InReview, Reads
<1>12. CASE PRFail
  BY <1>12 DEF PRFail, At, InReview, Reads
<1>13. CASE PRPost
  BY <1>13 DEF PRPost, At
<1>14. CASE PRMark
  BY <1>14 DEF PRMark, Save, Write, At
<1>15. CASE PRFix
  BY <1>15 DEF PRFix, Commits, At
<1>16. CASE PRNext
  BY <1>16 DEF PRNext, Save, Write, At
<1>17. CASE PRGreen
  BY <1>17 DEF PRGreen, Save, Write, At, InCI
<1>18. CASE PRCIFix
  BY <1>18 DEF PRCIFix, Commits, At, InCI
<1>19. CASE PRCINext
  <2>2. AfterCIFix \in PRStates /\ AfterCIFix.status = "reviewing"
    BY TwoFields
  <2> QED
    BY <1>19, <2>2 DEF PRCINext, Save, Write, At
<1>20. CASE PRMerge
  BY <1>20 DEF PRMerge, At
<1>21. CASE PRMerged
  BY <1>21 DEF PRMerged, Write, Return, At
<1>22. CASE UNCHANGED prVars
  BY <1>22 DEF prVars
<1> QED
  BY <1>1, <1>2, <1>3, <1>4, <1>5, <1>6, <1>7, <1>8, <1>9, <1>10, <1>11, <1>12, <1>13, <1>14,
     <1>15, <1>16, <1>17, <1>18, <1>19, <1>20, <1>21, <1>22
  DEF PRNextStep, PRCommands, PRSteps

\* Only PRMerge merges, and it does so with the status awaiting_merge.
LEMMA MergeIsVetted ==
  ASSUME VettedInv, [PRNextStep]_prVars, Merges, unseen = {}, ~lost
  PROVE  vetted = {"reviewed", "green"}
<1>1. PRMerge
  BY DEF Merges, PRNextStep, PRCommands, PRSteps, prVars, PRAttach, PRReset, PRResume,
         PRMergeCommand, PRAbort, PROutside, PRStop, PRCapped, PRSkipToFix, PRRepost, PRPass, PRFail,
         PRPost, PRMark, PRFix, PRNext, PRGreen, PRCIFix, PRCINext, PRMerged
<1> QED
  BY <1>1 DEF PRMerge, VettedInv, PlaceTells, StatusVouches

\* What is merged has passed a review and its checks since the last fix turn,
\* across interrupts, crashes and resumes at every step, unless the head was
\* changed behind the loop: a push since the pull request was last read (an
\* incremental review does not read it), a commit that was not pushed, a fix
\* of failing checks that was cut, a save that failed (runPRLoop,
\* dispatchPRReview, resumePRLoop, mergePRAndContinue).
THEOREM MergedIsVetted == PRSpec => MergesVetted
<1>1. VettedInv /\ [PRNextStep]_prVars
        => [Merges /\ unseen = {} /\ ~lost => vetted = {"reviewed", "green"}]_prVars
  BY MergeIsVetted
<1> QED
  BY <1>1, PRInitInv, PRStepInv, PTL DEF PRSpec, MergesVetted

----------------------------------------------------------------------------
(* The pull request loop: the types *)

LEMMA PRInitTypes == PRInit => PRTypeOK
<1> HAVE PRInit
<1>1. reviews \in Seq([round : Nat, cycle : Nat]) /\ Len(reviews) = 0
  BY DEF PRInit
<1>2. st \in PRStates
  BY DEF PRInit, PRStates, PRStatuses
<1>3. timeline \in [Verdicts -> 0..2]
  BY DEF PRInit
<1>4. prev \in 0..Len(reviews) /\ logged \in 0..Len(reviews) /\ Len(reviews) <= MaxVerdicts
  BY <1>1, PRAssumption DEF PRInit
<1>5. saved \in PRStates /\ cycle \in 0..MaxCycles
  BY <1>2, PRAssumption DEF PRInit
<1> QED
  BY <1>1, <1>2, <1>3, <1>4, <1>5 DEF PRInit, PRTypeOK, Modes

\* What a step does to the state, in memory and on disk.
LEMMA StatusStays ==
  ASSUME NEW s \in PRStates, NEW x \in PRStatuses
  PROVE  [s EXCEPT !.status = x] \in PRStates
  BY DEF PRStates

LEMMA PostedStays ==
  ASSUME NEW s \in PRStates, NEW n \in Nat
  PROVE  [s EXCEPT !.posted = n] \in PRStates
  BY DEF PRStates

\* A new verdict is the last of the list, and the rest of it stays.
LEMMA NewVerdict ==
  ASSUME PRTypeOK, PRFail
  PROVE  LET v == Len(reviews) + 1
         IN /\ v \in Verdicts /\ v # 0 /\ Len(reviews') = v
            /\ DOMAIN reviews' = DOMAIN reviews \cup {v} /\ v \notin DOMAIN reviews
            /\ reviews' \in Seq([round : Nat, cycle : Nat])
            /\ reviews'[v] = [round |-> st.round, cycle |-> cycle]
            /\ \A w \in DOMAIN reviews : reviews'[w] = reviews[w]
            /\ prev' = v /\ logged' \in {v, logged} /\ lost' = (lost \/ logged' # v)
<1> DEFINE e == [round |-> st.round, cycle |-> cycle]
<1>1. e \in [round : Nat, cycle : Nat]
  BY DEF PRTypeOK, PRStates
<1>2. reviews \in Seq([round : Nat, cycle : Nat]) /\ Len(reviews) \in Nat /\ DOMAIN reviews = 1..Len(reviews)
  BY DEF PRTypeOK
<1>3. reviews' = Append(reviews, e)
  BY DEF PRFail
<1>4. /\ reviews' \in Seq([round : Nat, cycle : Nat]) /\ Len(reviews') = Len(reviews) + 1
      /\ DOMAIN reviews' = 1..(Len(reviews) + 1)
      /\ reviews'[Len(reviews) + 1] = e
      /\ \A w \in 1..Len(reviews) : reviews'[w] = reviews[w]
  BY <1>1, <1>2, <1>3
<1>5. Len(reviews) < MaxVerdicts /\ MaxVerdicts \in Nat
  BY PRAssumption DEF PRFail
<1> QED
  BY <1>2, <1>4, <1>5 DEF PRFail, Verdicts

\* Where the loop goes on, and with which verdict.
LEMMA ResumeTypes ==
  ASSUME NEW s, NEW v, Resume(s, v)
  PROVE  prev' \in {0, v} /\ mode' \in Modes
  BY DEF Resume, Modes

Places == {"idle", "attached", "loop", "post", "mark", "fix", "next", "cinext", "merge", "merged"}

\* Most steps leave the verdicts and their comments.
LEMMA SameVerdicts ==
  ASSUME PRTypeOK, UNCHANGED <<reviews, timeline, cycle>>,
         prpc' \in Places, st' \in PRStates, saved' \in PRStates, mode' \in Modes,
         prev' \in 0..Len(reviews), logged' \in 0..Len(reviews), github' \in {"open", "merged"},
         vetted' \subseteq {"reviewed", "green"}, lost' \in BOOLEAN, unseen' \subseteq {"push", "cut", "kept"}
  PROVE  PRTypeOK'
  BY DEF PRTypeOK, Places

\* Written or not, there is a state on disk.
LEMMA WriteTypes ==
  ASSUME NEW s \in PRStates, saved \in PRStates, lost \in BOOLEAN, Write(s)
  PROVE  saved' \in {s, saved} /\ saved' \in PRStates /\ lost' \in BOOLEAN
  BY DEF Write

LEMMA PRStepTypes == PRTypeOK /\ [PRNextStep]_prVars => PRTypeOK'
<1> SUFFICES ASSUME PRTypeOK, [PRNextStep]_prVars PROVE PRTypeOK'
  OBVIOUS
<1> USE DEF PRTypeOK, Modes
<1>0. /\ 1 \in Nat /\ 0 \in Nat /\ Len(reviews) \in Nat /\ st.round \in Nat /\ st.round + 1 \in Nat
      /\ PRStatuses = {"absent", "reviewing", "awaiting_ci", "awaiting_merge", "merged", "aborted"}
  BY DEF PRStates, PRStatuses
<1>1. CASE PRAttach
  <2>1. [status |-> "reviewing", round |-> 1, posted |-> 0] \in PRStates
    BY DEF PRStates, PRStatuses
  <2>2. cycle + 1 \in 0..MaxCycles
    BY <1>1, PRAssumption DEF PRAttach
  <2> QED
    BY <1>1, <2>1, <2>2 DEF PRAttach, At
<1>2. CASE PRReset
  <2>1. logged' \in {0, logged} /\ prev' \in {0, logged'} /\ mode' \in Modes
    BY <1>2, ResumeTypes DEF PRReset, ResetVerdicts
  <2> QED
    <3>1. logged' \in 0..Len(reviews) /\ prev' \in 0..Len(reviews)
      BY <1>0, <2>1
    <3>2. lost' \in BOOLEAN
      BY <1>2 DEF PRReset
    <3> QED
      BY <1>2, <2>1, <3>1, <3>2, SameVerdicts DEF PRReset, At, Places
<1>3. CASE PRResume
  <2>1. prev' \in {0, logged} /\ mode' \in Modes
    BY <1>3, ResumeTypes DEF PRResume
  <2> QED
    BY <1>0, <1>3, <2>1 DEF PRResume, At
<1>4. CASE PRMergeCommand
  BY <1>4 DEF PRMergeCommand, At
<1>5. CASE PRAbort
  <2>1. [saved EXCEPT !.status = "aborted"] \in PRStates
    BY <1>0, StatusStays
  <2> QED
    <3>1. saved' \in PRStates /\ lost' \in BOOLEAN
      BY <1>5, <2>1, WriteTypes DEF PRAbort
    <3> QED
      BY <1>0, <1>5, <3>1, SameVerdicts DEF PRAbort, Return, At, Places
<1>6. CASE PROutside
  BY <1>6 DEF PROutside
<1>7. CASE PRStop
  BY <1>0, <1>7 DEF PRStop, Return, At
<1>8. CASE PRCapped
  <2>1. [st EXCEPT !.status = "aborted"] \in PRStates
    BY <1>0, StatusStays
  <2> QED
    <3>1. saved' \in PRStates /\ lost' \in BOOLEAN
      BY <1>8, <2>1, WriteTypes DEF PRCapped
    <3> QED
      BY <1>0, <1>8, <3>1, SameVerdicts DEF PRCapped, Return, At, Places
<1>9. CASE PRSkipToFix
  BY <1>9 DEF PRSkipToFix, At
<1>10. CASE PRRepost
  BY <1>10 DEF PRRepost, At
<1>11. CASE PRPass
  <2>1. [st EXCEPT !.status = "awaiting_ci"] \in PRStates
    BY <1>0, StatusStays
  <2> QED
    <3>1. saved' \in PRStates /\ st' \in PRStates /\ lost' \in BOOLEAN
      BY <1>11, <2>1 DEF PRPass, Save, Write
    <3> QED
      BY <1>0, <1>11, <3>1, SameVerdicts DEF PRPass, Places, Reads
<1>12. CASE PRFail
  <2>1. /\ reviews' \in Seq([round : Nat, cycle : Nat]) /\ Len(reviews') = Len(reviews) + 1
        /\ Len(reviews) + 1 \in Verdicts /\ prev' = Len(reviews) + 1
        /\ logged' \in {Len(reviews) + 1, logged} /\ lost' \in BOOLEAN
    BY <1>12, NewVerdict
  <2>2. Len(reviews') \in Nat /\ Len(reviews') <= MaxVerdicts /\ prev' \in 0..Len(reviews') /\ logged' \in 0..Len(reviews')
    BY <1>0, <2>1, PRAssumption DEF Verdicts
  <2> QED
    BY <1>12, <2>1, <2>2 DEF PRFail, At, Reads
<1>13. CASE PRPost
  <2>1. timeline' \in [Verdicts -> 0..2]
    <3>1. timeline' = [timeline EXCEPT ![prev] = IF timeline[prev] = 2 THEN 2 ELSE timeline[prev] + 1]
      BY <1>13 DEF PRPost
    <3>2. prev \in Verdicts => (IF timeline[prev] = 2 THEN 2 ELSE timeline[prev] + 1) \in 0..2
      OBVIOUS
    <3> QED
      BY <3>1, <3>2
  <2> QED
    BY <1>13, <2>1 DEF PRPost, At
<1>14. CASE PRMark
  <2>1. [st EXCEPT !.posted = st.round] \in PRStates
    BY <1>0, PostedStays
  <2> QED
    BY <1>0, <1>14, <2>1 DEF PRMark, Save, Write, At
<1>15. CASE PRFix
  BY <1>15 DEF PRFix, Commits, At
<1>16. CASE PRNext
  <2>1. [st EXCEPT !.round = st.round + 1] \in PRStates
    BY <1>0, OneField
  <2> QED
    BY <1>0, <1>16, <2>1 DEF PRNext, Save, Write, At
<1>17. CASE PRGreen
  <2>1. [st EXCEPT !.status = "awaiting_merge"] \in PRStates
    BY <1>0, StatusStays
  <2> QED
    BY <1>0, <1>17, <2>1 DEF PRGreen, Save, Write, At
<1>18. CASE PRCIFix
  BY <1>18 DEF PRCIFix, Commits, At
<1>19. CASE PRCINext
  BY <1>19, TwoFields DEF PRCINext, Save, Write, At
<1>20. CASE PRMerge
  BY <1>20 DEF PRMerge, At
<1>21. CASE PRMerged
  <2>1. [st EXCEPT !.status = "merged"] \in PRStates
    BY <1>0, StatusStays
  <2> QED
    <3>1. saved' \in PRStates /\ lost' \in BOOLEAN
      BY <1>21, <2>1, WriteTypes DEF PRMerged
    <3> QED
      BY <1>0, <1>21, <3>1, SameVerdicts DEF PRMerged, Return, At, Places
<1>22. CASE UNCHANGED prVars
  BY <1>22 DEF prVars
<1> QED
  BY <1>1, <1>2, <1>3, <1>4, <1>5, <1>6, <1>7, <1>8, <1>9, <1>10, <1>11, <1>12, <1>13, <1>14,
     <1>15, <1>16, <1>17, <1>18, <1>19, <1>20, <1>21, <1>22
  DEF PRNextStep, PRCommands, PRSteps

\* A sequence is a function.
LEMMA SeqAsFunction ==
  ASSUME NEW S, NEW q \in Seq(S)
  PROVE  q \in [1..Len(q) -> S] /\ Len(q) \in Nat
  OBVIOUS

----------------------------------------------------------------------------
(* The pull request loop: the trail of reviews *)

\* The verdict is on the PR, or, in a later cycle, a comment of its round.
Told(v) == Announced(st.round) /\ (cycle = 1 => timeline[v] > 0)

OfThisCycle(v) == reviews[v].cycle = cycle

\* v is a verdict of this round, in the first cycle of it.
Fits(v) == v # 0 /\ reviews[v].round = st.round /\ (cycle = 1 => OfThisCycle(v))

\* Nothing happens before the first cycle; no verdict and no comment is ahead
\* of the loop; a loop that was just attached has none.
TrailBehind ==
  /\ cycle = 0 => prpc = "idle" /\ st.status = "absent" /\ saved.status = "absent"
  /\ \A v \in DOMAIN reviews : reviews[v].cycle \in 1..cycle
  /\ \A v \in Verdicts : v > Len(reviews) => timeline[v] = 0
  /\ prpc = "attached" => /\ st.posted < st.round
                          /\ \A v \in DOMAIN reviews : ~OfThisCycle(v)

\* A review starts other than by reviewing only at the top of the loop.
ModeInReview == mode # "review" => prpc = "loop" /\ st.status = "reviewing"

\* The log has the newest verdict of the cycle, if there is one, and the
\* others are of earlier rounds.
LogIsNewest ==
  ~lost /\ prpc # "attached" =>
    /\ logged # 0 /\ OfThisCycle(logged) => reviews[logged].round <= st.round
    /\ \A v \in DOMAIN reviews : OfThisCycle(v) => v = logged \/ reviews[v].round < st.round

\* One verdict per round of the cycle, with one comment at most.
OnePerRound ==
  ~lost => \A v, w \in DOMAIN reviews :
             reviews[v] = reviews[w] /\ OfThisCycle(v) => v = w /\ timeline[v] <= 1

\* The marker says that the verdict of this round was told.
MarkerTells ==
  ~lost => /\ st.posted <= st.round
           /\ st.status = "reviewing" /\ st.posted = st.round => Fits(logged) /\ Told(logged)

\* The loop reviews what has no verdict, and works on the logged verdict.
VerdictAtHand ==
  ~lost =>
    /\ prpc = "loop" /\ st.status = "reviewing" /\ mode = "review" =>
         /\ st.posted < st.round
         /\ \A v \in DOMAIN reviews : OfThisCycle(v) => reviews[v].round < st.round
    /\ mode # "review" \/ prpc \in {"post", "mark", "fix"} => prev = logged /\ Fits(prev)
    /\ mode = "fix" \/ prpc \in {"mark", "fix"} => Told(prev)
    /\ prpc = "post" => timeline[prev] = 0

TrailInv ==
  /\ PRTypeOK /\ SavedIsCurrent /\ TrailBehind /\ ModeInReview /\ LogIsNewest /\ OnePerRound
  /\ MarkerTells /\ VerdictAtHand

\* The marker in s, where it is of the round of s, is true.
Marked(s) == /\ s.posted <= s.round
             /\ s.status = "reviewing" /\ s.posted = s.round => Announced(s.round)

\* Even when writes fail: the marker, in memory and on disk, is true, and the
\* loop is past the comment only when there is one.
AnnouncedInv ==
  /\ PRTypeOK /\ ModeInReview /\ Marked(st) /\ Marked(saved)
  /\ mode = "fix" => st.posted = st.round
  /\ mode = "repost" \/ prpc = "post" => prev # 0 /\ reviews[prev].round = st.round
  /\ prpc \in {"mark", "fix"} => Announced(st.round)

LEMMA TrailInit == PRInit => TrailInv
<1> SUFFICES ASSUME PRInit PROVE TrailInv
  OBVIOUS
<1>1. PRTypeOK
  BY PRInitTypes
<1>2. DOMAIN reviews = {} /\ Len(reviews) = 0
  BY DEF PRInit
<1>3. \A v \in Verdicts : timeline[v] = 0
  BY DEF PRInit
<1>4. TrailBehind
  BY <1>2, <1>3 DEF PRInit, TrailBehind
<1> QED
  BY <1>1, <1>2, <1>4 DEF PRInit, TrailInv, SavedIsCurrent, ModeInReview, LogIsNewest, OnePerRound,
     MarkerTells, VerdictAtHand

LEMMA TrailStep == TrailInv /\ [PRNextStep]_prVars => TrailInv'
<1> SUFFICES ASSUME TrailInv, [PRNextStep]_prVars PROVE TrailInv'
  OBVIOUS
<1> USE DEF TrailInv, SavedIsCurrent, TrailBehind, ModeInReview, LogIsNewest, OnePerRound,
     MarkerTells, VerdictAtHand, Told, OfThisCycle, OfThisRound, Announced, Fits
<1>0. PRTypeOK'
  BY PRStepTypes
<1>t. /\ st \in PRStates /\ saved \in PRStates /\ lost \in BOOLEAN /\ cycle \in Nat /\ Len(reviews) \in Nat
      /\ reviews \in [1..Len(reviews) -> [round : Nat, cycle : Nat]] /\ logged \in 0..Len(reviews)
      /\ prev \in 0..Len(reviews) /\ timeline \in [Verdicts -> 0..2]
      /\ Verdicts = 1..MaxVerdicts /\ MaxVerdicts \in Nat /\ Len(reviews) <= MaxVerdicts
      /\ mode \in {"review", "fix", "repost"}
  <2>1. reviews \in [1..Len(reviews) -> [round : Nat, cycle : Nat]] /\ Len(reviews) \in Nat
    <3>1. reviews \in Seq([round : Nat, cycle : Nat])
      BY DEF PRTypeOK
    <3> QED
      BY <3>1, SeqAsFunction
  <2>2. cycle \in Nat
    BY PRAssumption DEF PRTypeOK
  <2> QED
    BY <2>1, <2>2, PRAssumption DEF PRTypeOK, Verdicts, Modes
<1>r. ASSUME ~lost, prpc # "attached"
      PROVE  /\ st.posted <= st.round
             /\ \A v \in DOMAIN reviews : OfThisCycle(v) => reviews[v].round < st.round + 1
  <2>1. st.posted <= st.round /\ st.round \in Nat
    BY <1>t, <1>r DEF PRStates
  <2>2. ASSUME NEW v \in DOMAIN reviews, OfThisCycle(v) PROVE reviews[v].round < st.round + 1
    <3>1. reviews[v].round \in Nat /\ v # 0
      BY <1>t
    <3>2. v = logged \/ reviews[v].round < st.round
      BY <1>r, <2>2
    <3>3. reviews[v].round <= st.round
      BY <1>r, <2>1, <2>2, <3>1, <3>2
    <3> QED
      BY <2>1, <3>1, <3>3
  <2> QED
    BY <2>1, <2>2
<1>1. CASE PRAttach
  BY <1>0, <1>t, <1>1 DEF PRAttach, PRStates, At
<1>2. CASE PRReset
  BY <1>0, <1>t, <1>2 DEF PRReset, PRStates, At, ResetVerdicts, Resume
<1>3. CASE PRResume
  BY <1>0, <1>t, <1>3 DEF PRResume, PRStates, At, Resume
<1>4. CASE PRMergeCommand
  BY <1>0, <1>t, <1>4 DEF PRMergeCommand, PRStates, At
<1>5. CASE PRAbort
  <2>1. /\ prpc = "idle" /\ prpc' = "idle" /\ saved.status # "absent" /\ cycle # 0
        /\ st' = saved' /\ mode' = "review" /\ prev' = 0
        /\ UNCHANGED <<logged, reviews, timeline, cycle>>
    BY <1>5 DEF PRAbort, Return, At, Active
  <2>2. ~lost' => /\ ~lost /\ saved'.status = "aborted" /\ saved'.round = st.round
                  /\ saved'.posted = st.posted
    BY <1>t, <1>5 DEF PRAbort, PRStates, Write
  <2> QED
    BY <1>0, <1>t, <2>1, <2>2
<1>6. CASE PROutside
  BY <1>0, <1>t, <1>6 DEF PROutside, PRStates
<1>7. CASE PRStop
  BY <1>0, <1>t, <1>7 DEF PRStop, PRStates, Return, At
<1>8. CASE PRCapped
  BY <1>0, <1>t, <1>8 DEF PRCapped, PRStates, Write, Return, At, InReview, InCI
<1>9. CASE PRSkipToFix
  BY <1>0, <1>t, <1>9 DEF PRSkipToFix, PRStates, At, InReview
<1>10. CASE PRRepost
  <2>1. /\ prpc = "loop" /\ st.status = "reviewing" /\ mode = "repost" /\ mode' = "review"
        /\ prpc' = IF Announced(st.round) THEN "mark" ELSE "post"
        /\ UNCHANGED <<st, saved, prev, logged, reviews, timeline, cycle, lost>>
    BY <1>10 DEF PRRepost, At, InReview, OnPR
  <2>2. ~lost => prev = logged /\ Fits(prev)
    BY <2>1
  <2>3. ASSUME ~lost, Announced(st.round), cycle = 1 PROVE timeline[prev] > 0
    <3>1. PICK v \in DOMAIN reviews : timeline[v] > 0 /\ reviews[v].round = st.round
      BY <2>3
    <3>2. prev \in DOMAIN reviews /\ reviews[prev].round = st.round /\ reviews[prev].cycle = 1
      BY <1>t, <2>2, <2>3
    <3>3. reviews[v].cycle = 1
      BY <1>t, <2>3
    <3>4. reviews[v] \in [round : Nat, cycle : Nat] /\ reviews[prev] \in [round : Nat, cycle : Nat]
      BY <1>t, <3>1, <3>2
    <3>5. reviews[v] = reviews[prev]
      BY <3>1, <3>2, <3>3, <3>4
    <3>6. v = prev
      BY <2>3, <3>2, <3>3, <3>5
    <3> QED
      BY <3>1, <3>6
  <2>4. ASSUME ~lost, ~Announced(st.round) PROVE timeline[prev] = 0
    <3>1. prev \in DOMAIN reviews /\ reviews[prev].round = st.round /\ prev \in Verdicts
      BY <1>t, <2>2, <2>4
    <3> QED
      BY <1>t, <2>4, <3>1
  <2>5. VerdictAtHand'
    <3> SUFFICES ASSUME ~lost' PROVE VerdictAtHand'
      OBVIOUS
    <3>1. ~lost /\ prev = logged /\ Fits(prev) /\ Fits(prev)'
      BY <2>1, <2>2
    <3>2. prpc' \in {"mark", "post"}
      BY <2>1
    <3>3. prpc' = "mark" => Told(prev)'
      BY <2>1, <2>3, <3>1
    <3>4. prpc' = "post" => timeline'[prev'] = 0
      BY <2>1, <2>4, <3>1
    <3> QED
      BY <2>1, <3>1, <3>2, <3>3, <3>4
  <2> QED
    BY <1>0, <1>t, <2>1, <2>5
<1>11. CASE PRPass
  <2>1. st'.status = "awaiting_ci" /\ st'.round = st.round /\ st'.posted = st.posted
    BY <1>t, <1>11 DEF PRPass, PRStates, Save
  <2>2. ~lost' => ~lost /\ saved' = st'
    BY <1>11 DEF PRPass, Save, Write
  <2>3. /\ prpc = "loop" /\ st.status = "reviewing" /\ mode = "review"
        /\ UNCHANGED <<prpc, mode, logged, reviews, timeline, cycle>>
    BY <1>11 DEF PRPass, InReview
  <2> QED
    BY <1>0, <1>t, <2>1, <2>2, <2>3
<1>12. CASE PRFail
  <2> DEFINE n == Len(reviews) + 1
  <2>1. /\ n \in Verdicts /\ n # 0 /\ Len(reviews') = n
        /\ DOMAIN reviews' = DOMAIN reviews \cup {n} /\ n \notin DOMAIN reviews
        /\ reviews'[n] = [round |-> st.round, cycle |-> cycle]
        /\ \A w \in DOMAIN reviews : reviews'[w] = reviews[w]
        /\ prev' = n /\ logged' \in {n, logged} /\ lost' = (lost \/ logged' # n)
    BY <1>12, NewVerdict
  <2>2. /\ prpc = "loop" /\ st.status = "reviewing" /\ mode = "review" /\ prpc' = "post"
        /\ UNCHANGED <<st, mode, timeline, cycle>> /\ saved' \in {saved, st}
    BY <1>12 DEF PRFail, InReview, At
  <2>3. n \in Nat /\ n > Len(reviews) /\ timeline[n] = 0 /\ st.round \in Nat /\ DOMAIN reviews = 1..Len(reviews)
    BY <1>t, <2>1 DEF PRStates
  <2>4. ~lost' => ~lost /\ logged' = n /\ saved' = st'
    BY <1>t, <2>1, <2>2, Zenon
  <2>5. TrailBehind'
    <3>1. cycle <= cycle
      BY <1>t
    <3>2. \A v \in Verdicts : v > n => v > Len(reviews)
      BY <1>t, <2>3
    <3> QED
      BY <1>t, <2>1, <2>2, <2>3, <3>1, <3>2
  <2>6. ModeInReview' /\ SavedIsCurrent'
    BY <2>2, <2>4
  <2>7. LogIsNewest'
    BY <1>t, <2>1, <2>2, <2>3, <2>4
  <2>8. OnePerRound'
    <3> SUFFICES ASSUME ~lost', NEW v \in DOMAIN reviews', NEW w \in DOMAIN reviews',
                        reviews'[v] = reviews'[w], reviews'[v].cycle = cycle'
                 PROVE  v = w /\ timeline'[v] <= 1
      OBVIOUS
    <3>1. ~lost
      BY <2>4
    <3>2. \A u \in DOMAIN reviews : OfThisCycle(u) => reviews[u].round < st.round
      BY <2>2, <3>1
    <3>3. CASE v = n /\ w = n
      BY <2>2, <2>3, <3>3
    <3>4. CASE v # n /\ w # n
      BY <2>1, <2>2, <3>1, <3>4
    <3>5. CASE v = n /\ w # n
      BY <1>t, <2>1, <2>2, <2>3, <3>2, <3>5
    <3>6. CASE v # n /\ w = n
      BY <1>t, <2>1, <2>2, <2>3, <3>2, <3>6
    <3> QED
      BY <3>3, <3>4, <3>5, <3>6
  <2>9. MarkerTells' /\ VerdictAtHand'
    <3>1. ~lost => st.posted < st.round
      BY <2>2
    <3>2. st.posted \in Nat
      BY <1>t DEF PRStates
    <3> QED
      BY <1>t, <2>1, <2>2, <2>3, <2>4, <3>1, <3>2
  <2> QED
    BY <1>0, <2>5, <2>6, <2>7, <2>8, <2>9
<1>13. CASE PRPost
  BY <1>0, <1>t, <1>13 DEF PRPost, PRStates, At
<1>14. CASE PRMark
  BY <1>0, <1>t, <1>14 DEF PRMark, PRStates, Save, Write, At
<1>15. CASE PRFix
  BY <1>0, <1>t, <1>15 DEF PRFix, PRStates, At
<1>16. CASE PRNext
  <2>1. /\ st'.status = st.status /\ st'.round = st.round + 1 /\ st'.posted = st.posted
        /\ st.round \in Nat /\ st.posted \in Nat
    BY <1>t, <1>16 DEF PRNext, PRStates, Save
  <2>2. ~lost' => ~lost /\ saved' = st'
    BY <1>16 DEF PRNext, Save, Write
  <2>3. prpc = "next" /\ prpc' = "loop" /\ UNCHANGED <<mode, prev, logged, reviews, timeline, cycle>>
    BY <1>16 DEF PRNext, At
  <2>4. mode = "review"
    BY <2>3
  <2>5. SavedIsCurrent' /\ TrailBehind' /\ ModeInReview' /\ OnePerRound'
    BY <1>t, <2>1, <2>2, <2>3, <2>4
  <2>6. ASSUME ~lost'
        PROVE  /\ st'.posted < st'.round
               /\ \A v \in DOMAIN reviews' : OfThisCycle(v)' => reviews'[v].round < st'.round
    <3>1. ~lost /\ prpc # "attached"
      BY <2>2, <2>3, <2>6
    <3>2. st.posted <= st.round /\ \A v \in DOMAIN reviews : OfThisCycle(v) => reviews[v].round < st.round + 1
      BY <1>r, <3>1
    <3>3. st.posted < st.round + 1
      BY <2>1, <3>2
    <3> QED
      BY <2>1, <2>3, <3>2, <3>3
  <2>7. LogIsNewest'
    <3> SUFFICES ASSUME ~lost' PROVE LogIsNewest'
      OBVIOUS
    <3>1. \A v \in DOMAIN reviews' : OfThisCycle(v)' => reviews'[v].round < st'.round
      BY <2>6
    <3>2. logged' # 0 => logged' \in DOMAIN reviews' /\ reviews'[logged'].round \in Nat
      BY <1>t, <2>3
    <3>3. st'.round \in Nat
      BY <2>1
    <3> QED
      BY <3>1, <3>2, <3>3
  <2>8. MarkerTells' /\ VerdictAtHand'
    <3> SUFFICES ASSUME ~lost' PROVE MarkerTells' /\ VerdictAtHand'
      OBVIOUS
    <3>1. st'.posted \in Nat /\ st'.round \in Nat
      BY <2>1
    <3> QED
      BY <2>3, <2>4, <2>6, <3>1
  <2> QED
    BY <1>0, <2>5, <2>6, <2>7, <2>8
<1>17. CASE PRGreen
  BY <1>0, <1>t, <1>17 DEF PRGreen, PRStates, Save, Write, At, InCI
<1>18. CASE PRCIFix
  BY <1>0, <1>t, <1>18 DEF PRCIFix, PRStates, At, InCI
<1>19. CASE PRCINext
  <2>1. /\ st'.status = "reviewing" /\ st'.round = st.round + 1 /\ st'.posted = st.posted
        /\ st.round \in Nat /\ st.posted \in Nat
    BY <1>t, <1>19 DEF PRCINext, PRStates, Save, AfterCIFix
  <2>2. ~lost' => ~lost /\ saved' = st'
    BY <1>19 DEF PRCINext, Save, Write
  <2>3. prpc = "cinext" /\ prpc' = "loop" /\ UNCHANGED <<mode, prev, logged, reviews, timeline, cycle>>
    BY <1>19 DEF PRCINext, At
  <2>4. mode = "review" /\ cycle # 0
    BY <2>3
  <2>5. SavedIsCurrent' /\ TrailBehind' /\ ModeInReview' /\ OnePerRound'
    BY <1>t, <2>1, <2>2, <2>3, <2>4
  <2>6. ASSUME ~lost'
        PROVE  /\ st'.posted < st'.round
               /\ \A v \in DOMAIN reviews' : OfThisCycle(v)' => reviews'[v].round < st'.round
    <3>1. ~lost /\ prpc # "attached"
      BY <2>2, <2>3, <2>6
    <3>2. st.posted <= st.round /\ \A v \in DOMAIN reviews : OfThisCycle(v) => reviews[v].round < st.round + 1
      BY <1>r, <3>1
    <3>3. st.posted < st.round + 1
      BY <2>1, <3>2
    <3> QED
      BY <2>1, <2>3, <3>2, <3>3
  <2>7. LogIsNewest'
    <3> SUFFICES ASSUME ~lost' PROVE LogIsNewest'
      OBVIOUS
    <3>1. \A v \in DOMAIN reviews' : OfThisCycle(v)' => reviews'[v].round < st'.round
      BY <2>6
    <3>2. logged' # 0 => logged' \in DOMAIN reviews' /\ reviews'[logged'].round \in Nat
      BY <1>t, <2>3
    <3>3. st'.round \in Nat
      BY <2>1
    <3> QED
      BY <3>1, <3>2, <3>3
  <2>8. MarkerTells' /\ VerdictAtHand'
    <3> SUFFICES ASSUME ~lost' PROVE MarkerTells' /\ VerdictAtHand'
      OBVIOUS
    <3>1. st'.posted \in Nat /\ st'.round \in Nat
      BY <2>1
    <3> QED
      BY <2>3, <2>4, <2>6, <3>1
  <2> QED
    BY <1>0, <2>5, <2>6, <2>7, <2>8
<1>20. CASE PRMerge
  BY <1>0, <1>t, <1>20 DEF PRMerge, PRStates, At
<1>21. CASE PRMerged
  BY <1>0, <1>t, <1>21 DEF PRMerged, PRStates, Write, Return, At
<1>22. CASE UNCHANGED prVars
  BY <1>0, <1>22 DEF prVars
<1> QED
  BY <1>1, <1>2, <1>3, <1>4, <1>5, <1>6, <1>7, <1>8, <1>9, <1>10, <1>11, <1>12, <1>13, <1>14, <1>15, <1>16, <1>17, <1>18, <1>19, <1>20, <1>21, <1>22 DEF PRNextStep, PRCommands, PRSteps

\* The list of verdicts, and what a comment more means for a round.
LEMMA VerdictList ==
  ASSUME PRTypeOK
  PROVE  /\ reviews \in [1..Len(reviews) -> [round : Nat, cycle : Nat]] /\ Len(reviews) \in Nat
         /\ DOMAIN reviews = 1..Len(reviews) /\ DOMAIN reviews \subseteq Verdicts
<1>1. reviews \in Seq([round : Nat, cycle : Nat]) /\ Len(reviews) <= MaxVerdicts
  BY DEF PRTypeOK
<1>2. reviews \in [1..Len(reviews) -> [round : Nat, cycle : Nat]] /\ Len(reviews) \in Nat
  BY <1>1, SeqAsFunction
<1>3. 1..Len(reviews) \subseteq Verdicts
  BY <1>1, <1>2, PRAssumption DEF Verdicts
<1> QED
  BY <1>2, <1>3

\* A round that is announced stays so.
LEMMA AnnouncedStays ==
  ASSUME PRTypeOK, [PRNextStep]_prVars, NEW n, Announced(n)
  PROVE  Announced(n)'
<1>1. PICK v \in DOMAIN reviews : timeline[v] > 0 /\ reviews[v].round = n
  BY DEF Announced
<1>2. v \in Verdicts /\ timeline \in [Verdicts -> 0..2] /\ v # 0
  BY VerdictList DEF PRTypeOK, Verdicts
<1>3. CASE PRFail
  BY <1>1, <1>3, NewVerdict DEF PRFail, Announced
<1>4. CASE PRPost
  <2>1. reviews' = reviews /\ timeline' = [timeline EXCEPT ![prev] = IF timeline[prev] = 2 THEN 2 ELSE timeline[prev] + 1]
    BY <1>4 DEF PRPost
  <2>2. timeline'[v] > 0
    BY <1>1, <1>2, <2>1
  <2> QED
    BY <1>1, <2>1, <2>2 DEF Announced
<1>5. CASE UNCHANGED <<reviews, timeline>>
  BY <1>1, <1>5 DEF Announced
<1> QED
  BY <1>3, <1>4, <1>5 DEF PRNextStep, PRCommands, PRSteps, prVars, PRAttach, PRReset, PRResume,
     PRMergeCommand, PRAbort, PROutside, PRStop, PRCapped, PRSkipToFix, PRRepost, PRPass,
     PRMark, PRFix, PRNext, PRGreen, PRCIFix, PRCINext, PRMerge, PRMerged

LEMMA AnnouncedInit == PRInit => AnnouncedInv
  BY PRInitTypes DEF PRInit, AnnouncedInv, ModeInReview, Marked

LEMMA AnnouncedStep == AnnouncedInv /\ [PRNextStep]_prVars => AnnouncedInv'
<1> SUFFICES ASSUME AnnouncedInv, [PRNextStep]_prVars PROVE AnnouncedInv'
  OBVIOUS
<1>0. PRTypeOK /\ PRTypeOK'
  BY PRStepTypes DEF AnnouncedInv
<1>t. st \in PRStates /\ saved \in PRStates
  BY <1>0 DEF PRTypeOK
<1>a. \A n : Announced(n) => Announced(n)'
  BY <1>0, AnnouncedStays
<1>s. /\ st.posted \in Nat /\ st.round \in Nat /\ saved.posted \in Nat /\ saved.round \in Nat
  BY <1>t DEF PRStates
<1> USE DEF AnnouncedInv, ModeInReview, Marked
<1>1. CASE PRAttach
  BY <1>0, <1>a, <1>t, <1>1 DEF PRAttach, PRStates, At
<1>2. CASE PRReset
  BY <1>0, <1>a, <1>t, <1>2 DEF PRReset, At, Resume
<1>3. CASE PRResume
  BY <1>0, <1>a, <1>t, <1>3 DEF PRResume, At, Resume
<1>4. CASE PRMergeCommand
  BY <1>0, <1>a, <1>t, <1>4 DEF PRMergeCommand, At
<1>5. CASE PRAbort
  BY <1>0, <1>a, <1>t, <1>s, <1>5 DEF PRAbort, PRStates, Write, Return, At
<1>6. CASE PROutside
  BY <1>0, <1>a, <1>t, <1>6 DEF PROutside
<1>7. CASE PRStop
  BY <1>0, <1>a, <1>t, <1>7 DEF PRStop, Return, At
<1>8. CASE PRCapped
  BY <1>0, <1>a, <1>t, <1>s, <1>8 DEF PRCapped, PRStates, Write, Return, At
<1>9. CASE PRSkipToFix
  BY <1>0, <1>a, <1>t, <1>9 DEF PRSkipToFix, At, InReview
<1>10. CASE PRRepost
  BY <1>0, <1>a, <1>t, <1>10 DEF PRRepost, At, InReview, OnPR
<1>11. CASE PRPass
  BY <1>0, <1>a, <1>t, <1>s, <1>11 DEF PRPass, PRStates, Save, Write, InReview
<1>12. CASE PRFail
  <2>1. prev' = Len(reviews) + 1 /\ reviews'[prev'].round = st.round /\ Len(reviews) \in Nat
    BY <1>0, <1>12, NewVerdict, VerdictList
  <2> QED
    BY <1>0, <1>a, <1>t, <1>12, <2>1 DEF PRFail, At, InReview
<1>13. CASE PRPost
  <2>1. prev # 0 /\ reviews[prev].round = st.round /\ prev \in DOMAIN reviews /\ prev \in Verdicts
    BY <1>0, <1>13, VerdictList DEF PRPost, PRTypeOK
  <2>2. timeline'[prev] > 0 /\ UNCHANGED <<st, saved, mode, prev, reviews>> /\ prpc' = "mark"
    BY <1>0, <1>13, <2>1 DEF PRPost, PRTypeOK, At
  <2>3. Announced(st.round)'
    BY <2>1, <2>2 DEF Announced
  <2> QED
    BY <1>0, <1>a, <1>t, <1>13, <2>1, <2>2, <2>3 DEF PRPost
<1>14. CASE PRMark
  BY <1>0, <1>a, <1>t, <1>s, <1>14 DEF PRMark, PRStates, Save, Write, At
<1>15. CASE PRFix
  BY <1>0, <1>a, <1>t, <1>15 DEF PRFix, At
<1>16. CASE PRNext
  <2>1. /\ st'.round = st.round + 1 /\ st'.posted = st.posted /\ saved' \in {st', saved}
        /\ mode = "review" /\ prpc' = "loop" /\ UNCHANGED <<mode, prev, reviews>>
    BY <1>t, <1>16 DEF PRNext, PRStates, Save, Write, At
  <2> QED
    BY <1>0, <1>a, <1>s, <2>1
<1>17. CASE PRGreen
  BY <1>0, <1>a, <1>t, <1>s, <1>17 DEF PRGreen, PRStates, Save, Write, At, InCI
<1>18. CASE PRCIFix
  BY <1>0, <1>a, <1>t, <1>18 DEF PRCIFix, At, InCI
<1>19. CASE PRCINext
  <2>1. /\ st'.round = st.round + 1 /\ st'.posted = st.posted /\ saved' \in {st', saved}
        /\ mode = "review" /\ prpc' = "loop" /\ UNCHANGED <<mode, prev, reviews>>
    BY <1>t, <1>19 DEF PRCINext, PRStates, Save, Write, At, AfterCIFix
  <2> QED
    BY <1>0, <1>a, <1>s, <2>1
<1>20. CASE PRMerge
  BY <1>0, <1>a, <1>t, <1>20 DEF PRMerge, At
<1>21. CASE PRMerged
  BY <1>0, <1>a, <1>t, <1>s, <1>21 DEF PRMerged, PRStates, Write, Return, At
<1>22. CASE UNCHANGED prVars
  BY <1>0, <1>a, <1>22 DEF prVars
<1> QED
  BY <1>1, <1>2, <1>3, <1>4, <1>5, <1>6, <1>7, <1>8, <1>9, <1>10, <1>11, <1>12, <1>13, <1>14,
     <1>15, <1>16, <1>17, <1>18, <1>19, <1>20, <1>21, <1>22
  DEF PRNextStep, PRCommands, PRSteps

LEMMA TrailIsGood == TrailInv /\ AnnouncedInv => ReviewTrail
<1> SUFFICES ASSUME TrailInv, AnnouncedInv PROVE ReviewTrail
  OBVIOUS
<1>1. FixAnswersReview
  <2>1. ASSUME prpc = "fix", cycle = 1, ~lost PROVE Fits(prev) /\ Told(prev)
    BY <2>1 DEF TrailInv, VerdictAtHand
  <2>2. ASSUME Fits(prev), cycle = 1 PROVE OfThisRound(prev)
    <3>1. prev \in 1..Len(reviews) /\ reviews \in [1..Len(reviews) -> [round : Nat, cycle : Nat]]
      BY <2>2, VerdictList DEF TrailInv, PRTypeOK, Fits
    <3>2. reviews[prev] \in [round : Nat, cycle : Nat]
      BY <3>1
    <3> QED
      BY <2>2, <3>2 DEF Fits, OfThisCycle, OfThisRound
  <2> QED
    BY <2>1, <2>2 DEF FixAnswersReview, Told
<1>2. ReportedOnce
  <2>1. DOMAIN reviews \subseteq Verdicts /\ \A v \in Verdicts : timeline[v] \in 0..2
    <3>1. reviews \in Seq([round : Nat, cycle : Nat]) /\ Len(reviews) <= MaxVerdicts
          /\ timeline \in [Verdicts -> 0..2]
      BY DEF TrailInv, PRTypeOK
    <3> QED
      BY <3>1, PRAssumption DEF Verdicts
  <2>2. ASSUME NEW v \in DOMAIN reviews, ~lost, OfThisCycle(v), timeline[v] > 0
        PROVE  timeline[v] = 1
    BY <2>1, <2>2 DEF TrailInv, OnePerRound
  <2> QED
    BY <2>2 DEF TrailInv, OnePerRound, ReportedOnce, OfThisCycle
<1>3. FixIsAnnounced
  BY DEF AnnouncedInv, FixIsAnnounced
<1> QED
  BY <1>1, <1>2, <1>3 DEF ReviewTrail

\* Every variable of the loop has its type, for any caps and any number of
\* attachments (prState, state.json, reviews.jsonl).
THEOREM PRTypes == PRSpec => []PRTypeOK
  BY PRInitTypes, PRStepTypes, PTL DEF PRSpec

\* Wherever the loop is cut and resumed: in the first cycle a fix turn works
\* on findings of its own round that are on the pull request, in every cycle
\* it runs only when a review comment of its round is there, and no verdict is
\* posted twice (runPRLoop, prReviewerCommentOnPR, resetPRVerdicts).
THEOREM TrailHolds == PRSpec => []ReviewTrail
<1>1. TrailInv /\ [PRNextStep]_prVars => TrailInv'
  BY TrailStep
<1>2. AnnouncedInv /\ [PRNextStep]_prVars => AnnouncedInv'
  BY AnnouncedStep
<1> QED
  BY <1>1, <1>2, TrailInit, AnnouncedInit, TrailIsGood, PTL DEF PRSpec

----------------------------------------------------------------------------
(* The subagent pool *)

\* Task t has its final status; whoever waits for it may not know yet.
Over(t) == phase[t] \in {"finished", "told", "done"}

\* The status follows the phase, and the terminal event falls between the
\* final status and the wake-up of the waiter.
PhaseTells ==
  \A t \in Tasks : /\ Over(t) <=> status[t] \in Terminal
                   /\ ended[t] = IF phase[t] \in {"told", "done"} THEN 1 ELSE 0

\* An answered waiter has what the task ended with.
AnsweredLast ==
  \A t \in Tasks : waiter[t] = "answered" => phase[t] = "done" /\ seen[t] = status[t]

\* A context is cancelled by name, or with the whole run.
CancelledContext ==
  \A t \in Tasks : "cancelled" \in {runErr[t], status[t]} => t \in asked \/ parent = "cancelled"

PoolInv == PoolTypeOK /\ PhaseTells /\ AnsweredLast /\ CancelledContext

LEMMA PoolInitInv == PoolInit => PoolInv
  BY DEF PoolInit, PoolInv, PoolTypeOK, PhaseTells, AnsweredLast, CancelledContext, Over, Phases,
         Terminal, Errs

\* What became of a task is one of the four ends; "cancelled" has a reason.
LEMMA StatusReason ==
  ASSUME NEW t \in Tasks, NEW err \in {"nil", "failed", "deadline", "cancelled"}
  PROVE  /\ StatusOf(t, err) \in Terminal
         /\ StatusOf(t, err) = "cancelled" => parent = "cancelled" \/ err = "cancelled"
  BY DEF StatusOf, Terminal

LEMMA PoolStep == PoolInv /\ [PoolNext]_poolVars => PoolInv'
<1> SUFFICES ASSUME PoolInv, [PoolNext]_poolVars PROVE PoolInv'
  OBVIOUS
<1> USE DEF PoolInv, PoolTypeOK, PhaseTells, AnsweredLast, CancelledContext, Over, Phases, Terminal, Errs
<1>1. ASSUME NEW t \in Tasks, StartTask(t) PROVE PoolInv'
  BY <1>1 DEF StartTask, Phase
<1>2. ASSUME NEW t \in Tasks, Running(t) PROVE PoolInv'
  BY <1>2 DEF Running, Phase
<1>3. ASSUME NEW t \in Tasks, Publish(t) PROVE PoolInv'
  BY <1>3 DEF Publish, Phase
<1>4. ASSUME NEW t \in Tasks, Deadline(t) PROVE PoolInv'
  BY <1>4 DEF Deadline
<1>5. ASSUME NEW t \in Tasks, CancelTask(t) PROVE PoolInv'
  BY <1>5 DEF CancelTask, Reaches
<1>6. ASSUME NEW t \in Tasks, Finish(t) PROVE PoolInv'
  <2>1. PICK err \in {"nil", "failed", "deadline", runErr[t]} \ {"none"} :
          status' = [status EXCEPT ![t] = StatusOf(t, err)]
    BY <1>6 DEF Finish
  <2>2. err \in {"nil", "failed", "deadline", "cancelled"} /\ (err = "cancelled" => runErr[t] = "cancelled")
    BY <2>1
  <2>3. /\ StatusOf(t, err) \in Terminal
        /\ StatusOf(t, err) = "cancelled" => parent = "cancelled" \/ err = "cancelled"
    BY <2>2, StatusReason
  <2> HIDE DEF StatusOf
  <2> QED
    BY <1>6, <2>1, <2>2, <2>3 DEF Finish, Phase
<1>7. ASSUME NEW t \in Tasks, Tell(t) PROVE PoolInv'
  BY <1>7 DEF Tell, Phase
<1>8. ASSUME NEW t \in Tasks, Done(t) PROVE PoolInv'
  BY <1>8 DEF Done, Phase
<1>9. ASSUME NEW t \in Tasks, Answered(t) PROVE PoolInv'
  BY <1>9 DEF Answered, IsDone
<1>10. ASSUME NEW t \in Tasks, Bails(t) PROVE PoolInv'
  BY <1>10 DEF Bails
<1>11. ASSUME NEW err \in Errs \ {"none"}, EndParent(err) PROVE PoolInv'
  BY <1>11 DEF EndParent
<1>12. CASE UNCHANGED poolVars
  BY <1>12 DEF poolVars
<1> QED
  BY <1>1, <1>2, <1>3, <1>4, <1>5, <1>6, <1>7, <1>8, <1>9, <1>10, <1>11, <1>12 DEF PoolNext

\* A waiter is told the one final status after the one terminal event, and a
\* task is reported cancelled only if it was cancelled by name or its run was
\* (runTask, finishTask, CancelTask, Wait).
THEOREM TasksEndAsTold == PoolSpec => []TaskEndsAsTold
<1>1. PoolInv => TaskEndsAsTold
  BY DEF PoolInv, PhaseTells, AnsweredLast, CancelledContext, Over, TaskEndsAsTold, EndsOnce,
         CancelledByWill, PoolTypeOK
<1> QED
  BY <1>1, PoolInitInv, PoolStep, PTL DEF PoolSpec

----------------------------------------------------------------------------
(* The update queue *)

ScopeOf(j)   == updates[j].scope
VersionOf(j) == updates[j].version

\* Every number that was given out is a place of stage, and only those are.
Placed ==
  /\ Len(updates) <= MaxUpdates /\ outdated \subseteq Known
  /\ \A j \in Known : stage[j] # "absent"

\* The channel holds queued jobs, each once.
ChanQueued ==
  /\ \A n \in DOMAIN chan : chan[n] \in Known /\ stage[chan[n]] = "queued"
  /\ \A m, n \in DOMAIN chan : chan[m] = chan[n] => m = n

\* One worker.
OneWorker == \A i, j \in Known : stage[i] \in Runs /\ stage[j] \in Runs => i = j

\* A flush holds the session lock, and so does an extraction; never both.
LockHeld ==
  /\ \A k \in Scopes : flush[k] = "cancelled" => k \in locked
  /\ \A j \in Known : stage[j] = "extracting" => ScopeOf(j) \in locked /\ flush[ScopeOf(j)] = "no"

\* No captured version is ahead of its scope.
NotAhead == \A j \in Known : VersionOf(j) <= version[ScopeOf(j)]

\* j is no longer the newest of its scope, and will be skipped.
Superseded(j) == stage[j] \in {"numbered", "captured", "queued"} /\ pending[ScopeOf(j)] # j

\* j carries a version that is old, or will be when the flush is through.
Overtaken(j) ==
  /\ stage[j] # "numbered"
  /\ VersionOf(j) < version[ScopeOf(j)] \/ flush[ScopeOf(j)] = "cancelled"

\* An outdated update has ended unsaved, or cannot be saved any more.
OutdatedLost ==
  \A j \in outdated : stage[j] # "saved" /\ (stage[j] \in Ended \/ Superseded(j) \/ Overtaken(j))

Newer(j) == \E i \in Known : i > j /\ ScopeOf(i) = ScopeOf(j)

\* What was superseded or skipped has a newer update, or was flushed.
NewerOrFlushed ==
  \A j \in Known : Superseded(j) \/ stage[j] = "skipped" => Newer(j) \/ j \in outdated

Shape    == QueueTypeOK /\ Placed
QueueInv == Shape /\ ChanQueued /\ OneWorker /\ LockHeld /\ NotAhead /\ OutdatedLost /\ NewerOrFlushed

QueueJobs == [scope : Scopes, kind : Kinds, gate : Seqs \cup {0}, version : Nat]

----------------------------------------------------------------------------
(* The types, one by one *)

\* What QueueTypeOK says of the other variables.
Types ==
  /\ stage \in [Seqs -> Stages] /\ chan \in Seq(Seqs) /\ Len(chan) <= QueueSize
  /\ pending \in [Scopes -> Seqs \cup {0}] /\ version \in [Scopes -> Nat]
  /\ locked \subseteq Scopes /\ verdicts \in [Seqs -> {"none", "approve", "reject"}]
  /\ queue \in {"open", "closing", "closed"}
  /\ flush \in [Scopes -> {"no", "cancelled"}] /\ flushes \in Nat

LEMMA ShapeParts ==
  /\ Shape <=> updates \in Seq(QueueJobs) /\ Types /\ Placed
  /\ Shape' <=> updates' \in Seq(QueueJobs) /\ Types' /\ Placed'
<1>1. ASSUME Len(updates) <= MaxUpdates, updates \in Seq(QueueJobs) PROVE Known \subseteq Seqs
  BY <1>1, QueueAssumption DEF Known, Seqs
<1>2. ASSUME Len(updates') <= MaxUpdates, updates' \in Seq(QueueJobs) PROVE Known' \subseteq Seqs
  BY <1>2, QueueAssumption DEF Known, Seqs
<1>3. QueueTypeOK <=> updates \in Seq(QueueJobs) /\ Types /\ outdated \subseteq Seqs
  BY DEF QueueTypeOK, Types, QueueJobs
<1>4. QueueTypeOK' <=> updates' \in Seq(QueueJobs) /\ Types' /\ outdated' \subseteq Seqs
  BY DEF QueueTypeOK, Types, QueueJobs
<1> QED
  BY <1>1, <1>2, <1>3, <1>4 DEF Shape, Placed

----------------------------------------------------------------------------
(* What the steps do to the list of updates *)

LEMMA KnownJobs ==
  ASSUME Shape
  PROVE  /\ updates \in Seq(QueueJobs) /\ Known = 1..Len(updates) /\ Len(updates) \in Nat
         /\ Known \subseteq Seqs /\ MaxUpdates \in Nat
         /\ \A j \in Known : updates[j] \in QueueJobs /\ ScopeOf(j) \in Scopes /\ VersionOf(j) \in Nat
<1>1. updates \in Seq(QueueJobs)
  BY ShapeParts
<1>2. Known = 1..Len(updates) /\ Len(updates) \in Nat /\ \A j \in Known : updates[j] \in QueueJobs
  BY <1>1 DEF Known
<1> QED
  BY <1>1, <1>2, QueueAssumption DEF Shape, Placed, Seqs, QueueJobs, ScopeOf, VersionOf

\* A new job is the last of the list, and the rest of it stays.
LEMMA NumberJob ==
  ASSUME Shape, NEW scope \in Scopes, NEW kind \in Kinds, NEW gate \in Seqs \cup {0},
         Number(scope, kind, gate), NEW n \in Nat, n = Len(updates) + 1
  PROVE  /\ n \in Seqs /\ n \notin Known /\ Known' = Known \cup {n} /\ Len(updates') = n
         /\ updates' \in Seq(QueueJobs)
         /\ \A j \in Known : n > j /\ ScopeOf(j)' = ScopeOf(j) /\ VersionOf(j)' = VersionOf(j)
         /\ ScopeOf(n)' = scope /\ VersionOf(n)' = 0
<1> DEFINE job == [scope |-> scope, kind |-> kind, gate |-> gate, version |-> 0]
<1>1. updates \in Seq(QueueJobs) /\ Len(updates) \in Nat /\ MaxUpdates \in Nat
  BY KnownJobs
<1>2. job \in QueueJobs
  BY DEF QueueJobs
<1>3. updates' = Append(updates, job) /\ Len(updates) < MaxUpdates
  BY DEF Number
<1>4. Len(updates') = n /\ DOMAIN updates' = 1..n /\ updates' \in Seq(QueueJobs)
  BY <1>1, <1>2, <1>3
<1>5. updates'[n] = job /\ \A j \in 1..Len(updates) : updates'[j] = updates[j]
  BY <1>1, <1>2, <1>3
<1> QED
  BY <1>1, <1>3, <1>4, <1>5, KnownJobs DEF Known, Seqs, ScopeOf, VersionOf

\* Every other step leaves scopes and versions, but for the capture of one.
LEMMA CaptureJob ==
  ASSUME Shape, NEW j \in Known, Capture(j)
  PROVE  /\ updates' \in Seq(QueueJobs) /\ Known' = Known /\ Len(updates') = Len(updates)
         /\ \A i \in Known : ScopeOf(i)' = ScopeOf(i)
         /\ \A i \in Known \ {j} : VersionOf(i)' = VersionOf(i)
         /\ VersionOf(j)' = version[ScopeOf(j)]
<1>1. /\ updates \in Seq(QueueJobs) /\ Known = 1..Len(updates) /\ Len(updates) \in Nat
      /\ \A i \in Known : updates[i] \in QueueJobs
  BY KnownJobs
<1>2. updates' = [updates EXCEPT ![j].version = version[updates[j].scope]]
  BY DEF Capture
<1>3. version[updates[j].scope] \in Nat
  BY <1>1 DEF Shape, QueueTypeOK, QueueJobs
<1>4. updates' \in Seq(QueueJobs)
  <2>1. updates \in [1..Len(updates) -> QueueJobs]
    BY <1>1
  <2>2. updates' \in [1..Len(updates) -> QueueJobs]
    BY <1>1, <1>2, <1>3, <2>1 DEF QueueJobs
  <2> QED
    BY <1>1, <2>2, SeqDef
<1>5. DOMAIN updates' = DOMAIN updates /\ Len(updates') = Len(updates)
  BY <1>1, <1>2, <1>4
<1>6. \A i \in Known : updates'[i] = IF i = j THEN [updates[i] EXCEPT !.version = version[updates[j].scope]] ELSE updates[i]
  BY <1>1, <1>2
<1> QED
  BY <1>1, <1>4, <1>5, <1>6 DEF Known, ScopeOf, VersionOf, QueueJobs




----------------------------------------------------------------------------
(* Each step preserves the invariant *)

\* submit: the number
LEMMA NumberStep ==
  ASSUME QueueInv, NEW scope \in Scopes, NEW kind \in Kinds, NEW gate \in Seqs \cup {0},
         Number(scope, kind, gate)
  PROVE  QueueInv'
<1>1. Shape /\ ChanQueued /\ OneWorker /\ LockHeld /\ NotAhead /\ OutdatedLost /\ NewerOrFlushed
  BY DEF QueueInv
<1>2. /\ updates \in Seq(QueueJobs) /\ Types /\ Placed /\ Known \subseteq Seqs /\ Known = 1..Len(updates)
      /\ \A i \in Known : ScopeOf(i) \in Scopes /\ VersionOf(i) \in Nat
  BY <1>1, ShapeParts, KnownJobs
<1>0. PICK n \in Nat : n = Len(updates) + 1
  BY <1>2
<1>3. /\ n \in Seqs /\ n \notin Known /\ Known' = Known \cup {n} /\ Len(updates') = n
      /\ updates' \in Seq(QueueJobs)
      /\ \A i \in Known : n > i /\ ScopeOf(i)' = ScopeOf(i) /\ VersionOf(i)' = VersionOf(i)
      /\ ScopeOf(n)' = scope /\ VersionOf(n)' = 0
  BY <1>0, <1>1, NumberJob
<1>3a. /\ stage' = [stage EXCEPT ![n] = "numbered"] /\ pending' = [pending EXCEPT ![scope] = n]
       /\ UNCHANGED <<chan, version, locked, verdicts, queue, flush, flushes, outdated>>
  BY <1>0 DEF Number, Step
<1>4. Shape'
  BY <1>0, <1>1, <1>2, <1>3, <1>3a, ShapeParts, QueueAssumption DEF Types, Placed, Stages, Number, Step
<1>5. ChanQueued'
  BY <1>0, <1>1, <1>2, <1>3, <1>3a DEF ChanQueued, Types, Number, Step
<1>6. OneWorker'
  BY <1>0, <1>1, <1>2, <1>3, <1>3a DEF OneWorker, Types, Runs, Number, Step
<1>7. LockHeld'
  BY <1>0, <1>1, <1>2, <1>3, <1>3a DEF LockHeld, OneWorker, Types, Runs, Number, Step
<1>8. NotAhead'
  BY <1>0, <1>1, <1>2, <1>3, <1>3a DEF NotAhead, Types, Number, Step
<1>9. OutdatedLost'
  BY <1>0, <1>1, <1>2, <1>3, <1>3a DEF OutdatedLost, Superseded, Overtaken, Types, Placed, Ended, LockHeld, NotAhead, Number, Step
<1>10. NewerOrFlushed'
  BY <1>0, <1>1, <1>2, <1>3, <1>3a DEF NewerOrFlushed, Superseded, Newer, Types, Placed, Ended, Number, Step
<1> QED
  BY <1>4, <1>5, <1>6, <1>7, <1>8, <1>9, <1>10 DEF QueueInv

\* submit: the flush version
LEMMA CaptureStep ==
  ASSUME QueueInv, NEW j \in Known, Capture(j)
  PROVE  QueueInv'
<1>1. Shape /\ ChanQueued /\ OneWorker /\ LockHeld /\ NotAhead /\ OutdatedLost /\ NewerOrFlushed
  BY DEF QueueInv
<1>2. /\ updates \in Seq(QueueJobs) /\ Types /\ Placed /\ Known \subseteq Seqs /\ Known = 1..Len(updates)
      /\ \A i \in Known : ScopeOf(i) \in Scopes /\ VersionOf(i) \in Nat
  BY <1>1, ShapeParts, KnownJobs
<1>3. /\ updates' \in Seq(QueueJobs) /\ Known' = Known /\ Len(updates') = Len(updates)
      /\ \A i \in Known : ScopeOf(i)' = ScopeOf(i)
      /\ \A i \in Known \ {j} : VersionOf(i)' = VersionOf(i)
      /\ VersionOf(j)' = version[ScopeOf(j)]
  BY <1>1, CaptureJob
<1>4. Shape'
  BY <1>1, <1>2, <1>3, ShapeParts, QueueAssumption DEF Types, Placed, Stages, Capture, Step
<1>5. ChanQueued'
  BY <1>1, <1>2, <1>3 DEF ChanQueued, Types, Capture, Step
<1>6. OneWorker'
  BY <1>1, <1>2, <1>3 DEF OneWorker, Types, Runs, Capture, Step
<1>7. LockHeld'
  BY <1>1, <1>2, <1>3 DEF LockHeld, OneWorker, Types, Runs, Capture, Step
<1>8. NotAhead'
  BY <1>1, <1>2, <1>3 DEF NotAhead, Types, Capture, Step
<1>9. OutdatedLost'
  BY <1>1, <1>2, <1>3 DEF OutdatedLost, Superseded, Overtaken, Types, Placed, Ended, LockHeld, NotAhead, Capture, Step
<1>10. NewerOrFlushed'
  BY <1>1, <1>2, <1>3 DEF NewerOrFlushed, Superseded, Newer, Types, Placed, Ended, Capture, Step
<1> QED
  BY <1>4, <1>5, <1>6, <1>7, <1>8, <1>9, <1>10 DEF QueueInv

\* submit: the channel
LEMMA SendStep ==
  ASSUME QueueInv, NEW j \in Known, Send(j)
  PROVE  QueueInv'
<1>1. Shape /\ ChanQueued /\ OneWorker /\ LockHeld /\ NotAhead /\ OutdatedLost /\ NewerOrFlushed
  BY DEF QueueInv
<1>2. /\ updates \in Seq(QueueJobs) /\ Types /\ Placed /\ Known \subseteq Seqs /\ Known = 1..Len(updates)
      /\ \A i \in Known : ScopeOf(i) \in Scopes /\ VersionOf(i) \in Nat
  BY <1>1, ShapeParts, KnownJobs
<1>3. /\ updates' = updates /\ Known' = Known
      /\ \A i \in Known : ScopeOf(i)' = ScopeOf(i) /\ VersionOf(i)' = VersionOf(i)
  BY DEF Known, ScopeOf, VersionOf, Send, Step
<1>3a. /\ chan' \in Seq(Seqs) /\ Len(chan) \in Nat /\ Len(chan') = Len(chan) + 1 /\ Len(chan') <= QueueSize
       /\ DOMAIN chan = 1..Len(chan) /\ DOMAIN chan' = 1..(Len(chan) + 1)
       /\ \A n \in 1..Len(chan) : chan'[n] = chan[n]
       /\ chan'[Len(chan) + 1] = j
  BY <1>2, QueueAssumption DEF Send, Types
<1>3b. stage[j] = "captured" /\ stage' = [stage EXCEPT ![j] = "queued"]
  BY DEF Send, Step
<1>4. Shape'
  BY <1>1, <1>2, <1>3, <1>3a, <1>3b, ShapeParts, QueueAssumption DEF Types, Placed, Stages, Send
<1>5. ChanQueued'
  BY <1>1, <1>2, <1>3, <1>3a, <1>3b DEF ChanQueued, Types, Send
<1>6. OneWorker'
  BY <1>1, <1>2, <1>3, <1>3a, <1>3b DEF OneWorker, Types, Runs, Send
<1>7. LockHeld'
  BY <1>1, <1>2, <1>3, <1>3a, <1>3b DEF LockHeld, OneWorker, Types, Runs, Send
<1>8. NotAhead'
  BY <1>1, <1>2, <1>3, <1>3a, <1>3b DEF NotAhead, Types, Send
<1>9. OutdatedLost'
  BY <1>1, <1>2, <1>3, <1>3a, <1>3b DEF OutdatedLost, Superseded, Overtaken, Types, Placed, Ended, LockHeld, NotAhead, Send
<1>10. NewerOrFlushed'
  BY <1>1, <1>2, <1>3, <1>3a, <1>3b DEF NewerOrFlushed, Superseded, Newer, Types, Placed, Ended, Send
<1> QED
  BY <1>4, <1>5, <1>6, <1>7, <1>8, <1>9, <1>10 DEF QueueInv

\* submit: the timeout
LEMMA DropStep ==
  ASSUME QueueInv, NEW j \in Known, Drop(j)
  PROVE  QueueInv'
<1>1. Shape /\ ChanQueued /\ OneWorker /\ LockHeld /\ NotAhead /\ OutdatedLost /\ NewerOrFlushed
  BY DEF QueueInv
<1>2. /\ updates \in Seq(QueueJobs) /\ Types /\ Placed /\ Known \subseteq Seqs /\ Known = 1..Len(updates)
      /\ \A i \in Known : ScopeOf(i) \in Scopes /\ VersionOf(i) \in Nat
  BY <1>1, ShapeParts, KnownJobs
<1>3. /\ updates' = updates /\ Known' = Known
      /\ \A i \in Known : ScopeOf(i)' = ScopeOf(i) /\ VersionOf(i)' = VersionOf(i)
  BY DEF Known, ScopeOf, VersionOf, Drop, Step, ClearPending
<1>4. Shape'
  BY <1>1, <1>2, <1>3, ShapeParts, QueueAssumption DEF Types, Placed, Stages, Drop, Step, ClearPending, ScopeOf
<1>5. ChanQueued'
  BY <1>1, <1>2, <1>3 DEF ChanQueued, Types, Drop, Step, ClearPending, ScopeOf
<1>6. OneWorker'
  BY <1>1, <1>2, <1>3 DEF OneWorker, Types, Runs, Drop, Step, ClearPending, ScopeOf
<1>7. LockHeld'
  BY <1>1, <1>2, <1>3 DEF LockHeld, OneWorker, Types, Runs, Drop, Step, ClearPending, ScopeOf
<1>8. NotAhead'
  BY <1>1, <1>2, <1>3 DEF NotAhead, Types, Drop, Step, ClearPending, ScopeOf
<1>9. OutdatedLost'
  BY <1>1, <1>2, <1>3 DEF OutdatedLost, Superseded, Overtaken, Types, Placed, Ended, LockHeld, NotAhead, Drop, Step, ClearPending, ScopeOf
<1>10. NewerOrFlushed'
  BY <1>1, <1>2, <1>3 DEF NewerOrFlushed, Superseded, Newer, Types, Placed, Ended, Drop, Step, ClearPending, ScopeOf
<1> QED
  BY <1>4, <1>5, <1>6, <1>7, <1>8, <1>9, <1>10 DEF QueueInv

\* the worker's next job
LEMMA TakeStep ==
  ASSUME QueueInv, Take
  PROVE  QueueInv'
<1>1. Shape /\ ChanQueued /\ OneWorker /\ LockHeld /\ NotAhead /\ OutdatedLost /\ NewerOrFlushed
  BY DEF QueueInv
<1>2. /\ updates \in Seq(QueueJobs) /\ Types /\ Placed /\ Known \subseteq Seqs /\ Known = 1..Len(updates)
      /\ \A i \in Known : ScopeOf(i) \in Scopes /\ VersionOf(i) \in Nat
  BY <1>1, ShapeParts, KnownJobs
<1>3. /\ updates' = updates /\ Known' = Known
      /\ \A i \in Known : ScopeOf(i)' = ScopeOf(i) /\ VersionOf(i)' = VersionOf(i)
  BY DEF Known, ScopeOf, VersionOf, Take, Step, Idle
<1>0. PICK j : j = Head(chan)
  OBVIOUS
<1>3a. /\ chan \in Seq(Seqs) /\ Len(chan) \in Nat \ {0} /\ DOMAIN chan = 1..Len(chan) /\ j = chan[1]
       /\ chan' \in Seq(Seqs) /\ Len(chan') = Len(chan) - 1 /\ Len(chan') <= QueueSize
       /\ DOMAIN chan' = 1..(Len(chan) - 1) /\ \A n \in 1..(Len(chan) - 1) : chan'[n] = chan[n + 1]
  <2>1. chan \in Seq(Seqs) /\ chan # <<>> /\ chan' = Tail(chan)
    BY <1>2 DEF Types, Take
  <2>2. Len(chan) \in Nat \ {0}
    BY <2>1
  <2> QED
    BY <1>0, <1>2, <2>1, <2>2, QueueAssumption DEF Types
<1>3b. j \in Known /\ stage[j] = "queued" /\ ScopeOf(j) \in Scopes
  BY <1>1, <1>2, <1>3a DEF ChanQueued
<1>3c. \A i \in Known : stage[i] \notin Runs
  BY DEF Take, Idle
<1>3d. /\ \/ pending[ScopeOf(j)] = j /\ pending' = [pending EXCEPT ![ScopeOf(j)] = 0] /\ stage' = [stage EXCEPT ![j] = "taken"]
          \/ pending[ScopeOf(j)] # j /\ pending' = pending /\ stage' = [stage EXCEPT ![j] = "skipped"]
       /\ UNCHANGED <<version, locked, verdicts, queue, flush, flushes, outdated>>
  BY <1>0 DEF Take, Step, ScopeOf
<1>4. Shape'
  <2>1. stage' \in [Seqs -> Stages] /\ \A i \in Known : stage'[i] # "absent"
    BY <1>1, <1>2, <1>3b, <1>3d DEF Types, Placed, Stages
  <2>2. pending' \in [Scopes -> Seqs \cup {0}]
    BY <1>2, <1>3b, <1>3d DEF Types
  <2> QED
    BY <1>2, <1>3, <1>3a, <1>3d, <2>1, <2>2, ShapeParts DEF Types, Placed
<1>5. ChanQueued'
  <2>1. \A n \in 1..(Len(chan) - 1) : chan[n + 1] \in Known /\ stage[chan[n + 1]] = "queued" /\ chan[n + 1] # chan[1]
    BY <1>1, <1>3a DEF ChanQueued
  <2>2. \A n \in 1..(Len(chan) - 1) : chan'[n] \in Known' /\ stage'[chan'[n]] = "queued"
    BY <1>2, <1>3, <1>3a, <1>3d, <2>1 DEF Types
  <2>3. \A m, n \in 1..(Len(chan) - 1) : chan'[m] = chan'[n] => m = n
    BY <1>1, <1>3a DEF ChanQueued
  <2> QED
    BY <1>3a, <2>2, <2>3 DEF ChanQueued
<1>6. OneWorker'
  BY <1>0, <1>1, <1>2, <1>3, <1>3a, <1>3b, <1>3c, <1>3d DEF OneWorker, Types, Runs, Stages
<1>7. LockHeld'
  BY <1>0, <1>1, <1>2, <1>3, <1>3a, <1>3b, <1>3c, <1>3d DEF LockHeld, OneWorker, Types, Runs, Stages
<1>8. NotAhead'
  BY <1>0, <1>1, <1>2, <1>3, <1>3a, <1>3b, <1>3c, <1>3d DEF NotAhead, Types, Stages
<1>9. OutdatedLost'
  BY <1>0, <1>1, <1>2, <1>3, <1>3a, <1>3b, <1>3c, <1>3d DEF OutdatedLost, Superseded, Overtaken, Types, Placed, Ended, LockHeld, NotAhead, Stages
<1>10. NewerOrFlushed'
  BY <1>0, <1>1, <1>2, <1>3, <1>3a, <1>3b, <1>3c, <1>3d DEF NewerOrFlushed, Superseded, Newer, Types, Placed, Ended, Stages
<1> QED
  BY <1>4, <1>5, <1>6, <1>7, <1>8, <1>9, <1>10 DEF QueueInv

\* a refine job without approval
LEMMA RejectStep ==
  ASSUME QueueInv, NEW j \in Known, GateRejects(j) \/ PairRejects(j)
  PROVE  QueueInv'
<1>1. Shape /\ ChanQueued /\ OneWorker /\ LockHeld /\ NotAhead /\ OutdatedLost /\ NewerOrFlushed
  BY DEF QueueInv
<1>2. /\ updates \in Seq(QueueJobs) /\ Types /\ Placed /\ Known \subseteq Seqs /\ Known = 1..Len(updates)
      /\ \A i \in Known : ScopeOf(i) \in Scopes /\ VersionOf(i) \in Nat
  BY <1>1, ShapeParts, KnownJobs
<1>3. /\ updates' = updates /\ Known' = Known
      /\ \A i \in Known : ScopeOf(i)' = ScopeOf(i) /\ VersionOf(i)' = VersionOf(i)
  BY DEF Known, ScopeOf, VersionOf, GateRejects, PairRejects, Rejected, Step
<1>4. Shape'
  BY <1>1, <1>2, <1>3, ShapeParts, QueueAssumption DEF Types, Placed, Stages, GateRejects, PairRejects, Rejected, Step
<1>5. ChanQueued'
  BY <1>1, <1>2, <1>3 DEF ChanQueued, Types, GateRejects, PairRejects, Rejected, Step
<1>6. OneWorker'
  BY <1>1, <1>2, <1>3 DEF OneWorker, Types, Runs, GateRejects, PairRejects, Rejected, Step
<1>7. LockHeld'
  BY <1>1, <1>2, <1>3 DEF LockHeld, OneWorker, Types, Runs, GateRejects, PairRejects, Rejected, Step
<1>8. NotAhead'
  BY <1>1, <1>2, <1>3 DEF NotAhead, Types, GateRejects, PairRejects, Rejected, Step
<1>9. OutdatedLost'
  BY <1>1, <1>2, <1>3 DEF OutdatedLost, Superseded, Overtaken, Types, Placed, Ended, LockHeld, NotAhead, GateRejects, PairRejects, Rejected, Step
<1>10. NewerOrFlushed'
  BY <1>1, <1>2, <1>3 DEF NewerOrFlushed, Superseded, Newer, Types, Placed, Ended, GateRejects, PairRejects, Rejected, Step
<1> QED
  BY <1>4, <1>5, <1>6, <1>7, <1>8, <1>9, <1>10 DEF QueueInv

\* the worker gets the session lock
LEMMA EnterStep ==
  ASSUME QueueInv, NEW j \in Known, Enter(j)
  PROVE  QueueInv'
<1>1. Shape /\ ChanQueued /\ OneWorker /\ LockHeld /\ NotAhead /\ OutdatedLost /\ NewerOrFlushed
  BY DEF QueueInv
<1>2. /\ updates \in Seq(QueueJobs) /\ Types /\ Placed /\ Known \subseteq Seqs /\ Known = 1..Len(updates)
      /\ \A i \in Known : ScopeOf(i) \in Scopes /\ VersionOf(i) \in Nat
  BY <1>1, ShapeParts, KnownJobs
<1>3. /\ updates' = updates /\ Known' = Known
      /\ \A i \in Known : ScopeOf(i)' = ScopeOf(i) /\ VersionOf(i)' = VersionOf(i)
  BY DEF Known, ScopeOf, VersionOf, Enter, Step
<1>4. Shape'
  BY <1>1, <1>2, <1>3, ShapeParts, QueueAssumption DEF Types, Placed, Stages, Enter, Step, ScopeOf
<1>5. ChanQueued'
  BY <1>1, <1>2, <1>3 DEF ChanQueued, Types, Enter, Step, ScopeOf
<1>6. OneWorker'
  BY <1>1, <1>2, <1>3 DEF OneWorker, Types, Runs, Enter, Step, ScopeOf
<1>7. LockHeld'
  BY <1>1, <1>2, <1>3 DEF LockHeld, OneWorker, Types, Runs, Enter, Step, ScopeOf
<1>8. NotAhead'
  BY <1>1, <1>2, <1>3 DEF NotAhead, Types, Enter, Step, ScopeOf
<1>9. OutdatedLost'
  BY <1>1, <1>2, <1>3 DEF OutdatedLost, Superseded, Overtaken, Types, Placed, Ended, LockHeld, NotAhead, Enter, Step, ScopeOf
<1>10. NewerOrFlushed'
  BY <1>1, <1>2, <1>3 DEF NewerOrFlushed, Superseded, Newer, Types, Placed, Ended, Enter, Step, ScopeOf
<1> QED
  BY <1>4, <1>5, <1>6, <1>7, <1>8, <1>9, <1>10 DEF QueueInv

\* the worker saves, or not, and lets the lock go
LEMMA LeaveStep ==
  ASSUME QueueInv, NEW j \in Known, Leave(j)
  PROVE  QueueInv'
<1>1. Shape /\ ChanQueued /\ OneWorker /\ LockHeld /\ NotAhead /\ OutdatedLost /\ NewerOrFlushed
  BY DEF QueueInv
<1>2. /\ updates \in Seq(QueueJobs) /\ Types /\ Placed /\ Known \subseteq Seqs /\ Known = 1..Len(updates)
      /\ \A i \in Known : ScopeOf(i) \in Scopes /\ VersionOf(i) \in Nat
  BY <1>1, ShapeParts, KnownJobs
<1>3. /\ updates' = updates /\ Known' = Known
      /\ \A i \in Known : ScopeOf(i)' = ScopeOf(i) /\ VersionOf(i)' = VersionOf(i)
  BY DEF Known, ScopeOf, VersionOf, Leave, Fresh, Step
<1>0. PICK k : k = ScopeOf(j)
  OBVIOUS
<1>3a. PICK s \in {"failed", "stale", "saved"} : stage' = [stage EXCEPT ![j] = s] /\ (s = "saved" => VersionOf(j) = version[k])
  BY <1>0 DEF Leave, Fresh, Step, ScopeOf, VersionOf
<1>3b. k \in Scopes /\ stage[j] = "extracting" /\ locked' = locked \ {k}
  BY <1>0, <1>2 DEF Leave, ScopeOf
<1>3c. UNCHANGED <<updates, chan, pending, version, verdicts, queue, flush, flushes, outdated>>
  BY DEF Leave
<1>4. Shape'
  BY <1>0, <1>1, <1>2, <1>3, <1>3a, <1>3b, <1>3c, ShapeParts, QueueAssumption DEF Types, Placed, Stages, Stages
<1>5. ChanQueued'
  BY <1>0, <1>1, <1>2, <1>3, <1>3a, <1>3b, <1>3c DEF ChanQueued, Types, Stages
<1>6. OneWorker'
  BY <1>0, <1>1, <1>2, <1>3, <1>3a, <1>3b, <1>3c DEF OneWorker, Types, Runs, Stages
<1>7. LockHeld'
  BY <1>0, <1>1, <1>2, <1>3, <1>3a, <1>3b, <1>3c DEF LockHeld, OneWorker, Types, Runs, Stages
<1>8. NotAhead'
  BY <1>0, <1>1, <1>2, <1>3, <1>3a, <1>3b, <1>3c DEF NotAhead, Types, Stages
<1>9. OutdatedLost'
  BY <1>0, <1>1, <1>2, <1>3, <1>3a, <1>3b, <1>3c DEF OutdatedLost, Superseded, Overtaken, Types, Placed, Ended, LockHeld, NotAhead, Stages
<1>10. NewerOrFlushed'
  BY <1>0, <1>1, <1>2, <1>3, <1>3a, <1>3b, <1>3c DEF NewerOrFlushed, Superseded, Newer, Types, Placed, Ended, Stages
<1> QED
  BY <1>4, <1>5, <1>6, <1>7, <1>8, <1>9, <1>10 DEF QueueInv

\* a flush cancels what is queued
LEMMA CancelStep ==
  ASSUME QueueInv, NEW k \in Scopes, Cancel(k)
  PROVE  QueueInv'
<1>1. Shape /\ ChanQueued /\ OneWorker /\ LockHeld /\ NotAhead /\ OutdatedLost /\ NewerOrFlushed
  BY DEF QueueInv
<1>2. /\ updates \in Seq(QueueJobs) /\ Types /\ Placed /\ Known \subseteq Seqs /\ Known = 1..Len(updates)
      /\ \A i \in Known : ScopeOf(i) \in Scopes /\ VersionOf(i) \in Nat
  BY <1>1, ShapeParts, KnownJobs
<1>3. /\ updates' = updates /\ Known' = Known
      /\ \A i \in Known : ScopeOf(i)' = ScopeOf(i) /\ VersionOf(i)' = VersionOf(i)
  BY DEF Known, ScopeOf, VersionOf, Cancel
<1>3a. outdated' = outdated \cup {i \in Known : ScopeOf(i) = k /\ stage[i] \notin Ended}
  BY DEF Cancel, ScopeOf
<1>4. Shape'
  BY <1>1, <1>2, <1>3, <1>3a, ShapeParts, QueueAssumption DEF Types, Placed, Stages, Cancel, ScopeOf
<1>5. ChanQueued'
  BY <1>1, <1>2, <1>3, <1>3a DEF ChanQueued, Types, Cancel, ScopeOf
<1>6. OneWorker'
  BY <1>1, <1>2, <1>3, <1>3a DEF OneWorker, Types, Runs, Cancel, ScopeOf
<1>7. LockHeld'
  BY <1>1, <1>2, <1>3, <1>3a DEF LockHeld, OneWorker, Types, Runs, Cancel, ScopeOf
<1>8. NotAhead'
  BY <1>1, <1>2, <1>3, <1>3a DEF NotAhead, Types, Cancel, ScopeOf
<1>9. OutdatedLost'
  BY <1>1, <1>2, <1>3, <1>3a DEF OutdatedLost, Superseded, Overtaken, Types, Placed, Ended, LockHeld, NotAhead, Cancel, ScopeOf
<1>10. NewerOrFlushed'
  BY <1>1, <1>2, <1>3, <1>3a DEF NewerOrFlushed, Superseded, Newer, Types, Placed, Ended, Cancel, ScopeOf
<1> QED
  BY <1>4, <1>5, <1>6, <1>7, <1>8, <1>9, <1>10 DEF QueueInv

\* a flush bumps the version
LEMMA BumpStep ==
  ASSUME QueueInv, NEW k \in Scopes, Bump(k)
  PROVE  QueueInv'
<1>1. Shape /\ ChanQueued /\ OneWorker /\ LockHeld /\ NotAhead /\ OutdatedLost /\ NewerOrFlushed
  BY DEF QueueInv
<1>2. /\ updates \in Seq(QueueJobs) /\ Types /\ Placed /\ Known \subseteq Seqs /\ Known = 1..Len(updates)
      /\ \A i \in Known : ScopeOf(i) \in Scopes /\ VersionOf(i) \in Nat
  BY <1>1, ShapeParts, KnownJobs
<1>3. /\ updates' = updates /\ Known' = Known
      /\ \A i \in Known : ScopeOf(i)' = ScopeOf(i) /\ VersionOf(i)' = VersionOf(i)
  BY DEF Known, ScopeOf, VersionOf, Bump
<1>3a. outdated' = outdated \cup {i \in Known : ScopeOf(i) = k /\ stage[i] \notin Ended \cup {"numbered"}}
  BY DEF Bump, ScopeOf
<1>4. Shape'
  BY <1>1, <1>2, <1>3, <1>3a, ShapeParts, QueueAssumption DEF Types, Placed, Stages, Bump, ScopeOf
<1>5. ChanQueued'
  BY <1>1, <1>2, <1>3, <1>3a DEF ChanQueued, Types, Bump, ScopeOf
<1>6. OneWorker'
  BY <1>1, <1>2, <1>3, <1>3a DEF OneWorker, Types, Runs, Bump, ScopeOf
<1>7. LockHeld'
  BY <1>1, <1>2, <1>3, <1>3a DEF LockHeld, OneWorker, Types, Runs, Bump, ScopeOf
<1>8. NotAhead'
  BY <1>1, <1>2, <1>3, <1>3a DEF NotAhead, Types, Bump, ScopeOf
<1>9. OutdatedLost'
  BY <1>1, <1>2, <1>3, <1>3a DEF OutdatedLost, Superseded, Overtaken, Types, Placed, Ended, LockHeld, NotAhead, Bump, ScopeOf
<1>10. NewerOrFlushed'
  BY <1>1, <1>2, <1>3, <1>3a DEF NewerOrFlushed, Superseded, Newer, Types, Placed, Ended, Bump, ScopeOf
<1> QED
  BY <1>4, <1>5, <1>6, <1>7, <1>8, <1>9, <1>10 DEF QueueInv

\* Close
LEMMA CloseStep ==
  ASSUME QueueInv, CloseQueue
  PROVE  QueueInv'
<1>1. Shape /\ ChanQueued /\ OneWorker /\ LockHeld /\ NotAhead /\ OutdatedLost /\ NewerOrFlushed
  BY DEF QueueInv
<1>2. /\ updates \in Seq(QueueJobs) /\ Types /\ Placed /\ Known \subseteq Seqs /\ Known = 1..Len(updates)
      /\ \A i \in Known : ScopeOf(i) \in Scopes /\ VersionOf(i) \in Nat
  BY <1>1, ShapeParts, KnownJobs
<1>3. /\ updates' = updates /\ Known' = Known
      /\ \A i \in Known : ScopeOf(i)' = ScopeOf(i) /\ VersionOf(i)' = VersionOf(i)
  BY DEF Known, ScopeOf, VersionOf, CloseQueue
<1>4. Shape'
  BY <1>1, <1>2, <1>3, ShapeParts, QueueAssumption DEF Types, Placed, Stages, CloseQueue
<1>5. ChanQueued'
  BY <1>1, <1>2, <1>3 DEF ChanQueued, Types, CloseQueue
<1>6. OneWorker'
  BY <1>1, <1>2, <1>3 DEF OneWorker, Types, Runs, CloseQueue
<1>7. LockHeld'
  BY <1>1, <1>2, <1>3 DEF LockHeld, OneWorker, Types, Runs, CloseQueue
<1>8. NotAhead'
  BY <1>1, <1>2, <1>3 DEF NotAhead, Types, CloseQueue
<1>9. OutdatedLost'
  BY <1>1, <1>2, <1>3 DEF OutdatedLost, Superseded, Overtaken, Types, Placed, Ended, LockHeld, NotAhead, CloseQueue
<1>10. NewerOrFlushed'
  BY <1>1, <1>2, <1>3 DEF NewerOrFlushed, Superseded, Newer, Types, Placed, Ended, CloseQueue
<1> QED
  BY <1>4, <1>5, <1>6, <1>7, <1>8, <1>9, <1>10 DEF QueueInv

LEMMA StutterStep ==
  ASSUME QueueInv, UNCHANGED queueVars
  PROVE  QueueInv'
BY DEF QueueInv, Shape, QueueTypeOK, Placed, ChanQueued, OneWorker, LockHeld, NotAhead, OutdatedLost,
       NewerOrFlushed, Superseded, Overtaken, Newer, ScopeOf, VersionOf, Known, queueVars

----------------------------------------------------------------------------
(* The theorems *)

LEMMA InitInv == QueueInit => QueueInv
<1> SUFFICES ASSUME QueueInit PROVE QueueInv
  OBVIOUS
<1>1. Types /\ updates \in Seq(QueueJobs) /\ Placed /\ Known = {}
  BY QueueAssumption DEF QueueInit, Types, Placed, Known, Stages
<1> QED
  BY <1>1, ShapeParts DEF QueueInv, QueueInit, ChanQueued, OneWorker, LockHeld, NotAhead, OutdatedLost,
                          NewerOrFlushed

LEMMA NextInv == QueueInv /\ [QueueNext]_queueVars => QueueInv'
<1> SUFFICES ASSUME QueueInv, [QueueNext]_queueVars PROVE QueueInv'
  OBVIOUS
<1>1. CASE \E k \in Scopes : Schedule(k)
  BY <1>1, NumberStep DEF Schedule, Kinds
<1>2. CASE \E g \in Known : SchedulePair(g)
  BY <1>2, NumberStep, KnownJobs, QueueAssumption DEF SchedulePair, Kinds, QueueInv
<1>3. CASE \E k \in Scopes : Cancel(k) \/ Bump(k)
  BY <1>3, CancelStep, BumpStep
<1>4. CASE \E j \in Known : Capture(j) \/ Send(j) \/ Drop(j)
  BY <1>4, CaptureStep, SendStep, DropStep
<1>5. CASE \E j \in Known : GateRejects(j) \/ PairRejects(j) \/ Enter(j) \/ Leave(j)
  BY <1>5, RejectStep, EnterStep, LeaveStep
<1>6. CASE Take \/ CloseQueue
  BY <1>6, TakeStep, CloseStep
<1>7. CASE UNCHANGED queueVars
  BY <1>7, StutterStep
<1> QED
  BY <1>1, <1>2, <1>3, <1>4, <1>5, <1>6, <1>7 DEF QueueNext

\* The invariant the two theorems rest on.
THEOREM QueueInvariant == QueueSpec => []QueueInv
  BY InitInv, NextInv, PTL DEF QueueSpec

\* An update that was submitted before a flush of its scope is never saved
\* after it (captureFlushVersion at submit, isFlushStale before the save,
\* cancelPending under the session lock).
THEOREM FlushWins == QueueSpec => []NoStaleSave
<1>1. QueueInv => NoStaleSave
  BY DEF QueueInv, OutdatedLost, NoStaleSave
<1> QED
  BY <1>1, QueueInvariant, PTL

\* The worker skips an update only for a newer one of its scope, which may have
\* been dropped itself, or after a flush (pendingSeq, clearPendingSeq).
THEOREM CoalescingKeepsNewest == QueueSpec => []NewestIsKept
<1>1. QueueInv => NewestIsKept
  BY DEF QueueInv, NewerOrFlushed, NewestIsKept, Newer, ScopeOf
<1> QED
  BY <1>1, QueueInvariant, PTL

----------------------------------------------------------------------------
(* The Figma bridge: what a job's two files say of it is the invariant; a  *)
(* restart rebuilds the memory from them.                                  *)

\* What the files, the memory and the history of job j tell of each other: in
\* the bridge b, with the jobs given out so often and the settled ones c.
JobTells(b, g, c, j) ==
  /\ b.disk[j] \in {"absent", "queued", "cancelled"} => g[j] = 0
  /\ b.disk[j] \in {"delivered", "expired"} => g[j] > 0
  /\ b.disk[j] \in {"done", "failed"} => b.result[j] = "real"
  /\ b.disk[j] = "expired" => b.result[j] # "absent"
  /\ b.disk[j] \in {"verified", "acknowledged"} => j \in c
  /\ b.mem[j] \in {"delivered", "expired"} => g[j] > 0
  /\ b.mem[j] = "delivered" => b.result[j] # "real"
  /\ b.mem[j] = "queued" => b.disk[j] = "queued"
  /\ b.result[j] # "absent" => g[j] > 0
  /\ j \in b.unresolved => g[j] > 0
  /\ g[j] <= 1

FilesTell(b, g, c) == \A j \in Jobs : JobTells(b, g, c, j)

\* UnknownBlocks of a bridge.
Blocked(b, g, c) ==
  \A j \in Jobs :
    /\ g[j] > 0 /\ b.result[j] # "real" /\ j \notin c
    /\ ~(b.result[j] = "unknown" /\ b.disk[j] = "delivered")
    => j \in b.unresolved \cup b.unverified \cup InFlight(b)

\* Jobs are submitted one after the other.
Numbered(b) == \E n \in 0..MaxJobs : \A j \in Jobs : b.disk[j] # "absent" <=> j <= n

BridgeTypes ==
  /\ up \in BOOLEAN /\ bridge \in Bridges /\ given \in [Jobs -> Nat] /\ checked \in SUBSET Jobs
  /\ storing \in [Jobs -> {"no"} \cup Endings] /\ acking \in Jobs \cup {0}

BridgeInv ==
  /\ BridgeTypes /\ FilesTell(bridge, given, checked) /\ Numbered(bridge)
  /\ up => Blocked(bridge, given, checked)
  /\ acking # 0 => given[acking] > 0

\* The submissions of a are those of b, and none is new.
SameJobs(a, b) ==
  \A j \in Jobs : /\ a.disk[j] = "absent" <=> b.disk[j] = "absent"
                  /\ a.disk[j] = "queued" => b.disk[j] = "queued"

----------------------------------------------------------------------------
(* The critical sections *)

\* A bridge keeps what is known of its jobs.
Keeps(a, b, g, c) ==
  /\ a \in Bridges /\ FilesTell(a, g, c) /\ SameJobs(a, b)
  /\ Blocked(b, g, c) => Blocked(a, g, c)

\* Jobs expire: the result alone, or both files.
LEMMA ExpireKeeps ==
  ASSUME NEW b \in Bridges, NEW g \in [Jobs -> Nat], NEW c \in SUBSET Jobs, FilesTell(b, g, c),
         NEW s \in SUBSET InFlight(b), NEW w \in Writes
  PROVE  Keeps(Expire(b, s, w), b, g, c)
<1> DEFINE e == Expire(b, s, w)
<1>1. s \subseteq Jobs /\ \A j \in s : b.mem[j] = "delivered"
  BY DEF InFlight
<1>2. e \in Bridges
  BY <1>1 DEF Expire, With, Bridges, JobStates
<1>3. /\ e.to = b.to /\ e.inspect = b.inspect /\ e.verifies = b.verifies
      /\ e.unresolved = b.unresolved
      /\ e.unverified = IF w = "both" THEN b.unverified \cup s ELSE b.unverified
  BY DEF Expire, Bridges
<1>4. \A j \in Jobs :
        /\ e.result[j] = IF w # "none" /\ j \in s THEN "unknown" ELSE b.result[j]
        /\ e.mem[j] = IF w = "both" /\ j \in s THEN "expired" ELSE b.mem[j]
        /\ e.disk[j] = IF w = "both" /\ j \in s THEN "expired" ELSE b.disk[j]
  BY DEF Expire, With, Bridges
<1> HIDE DEF e
<1>5. FilesTell(e, g, c)
  BY <1>1, <1>3, <1>4 DEF FilesTell, JobTells
<1>6. SameJobs(e, b)
  BY <1>1, <1>4 DEF SameJobs, FilesTell, JobTells
<1>7. ASSUME Blocked(b, g, c) PROVE Blocked(e, g, c)
  BY <1>1, <1>3, <1>4, <1>7 DEF Blocked, InFlight, Writes
<1> QED
  BY <1>2, <1>5, <1>6, <1>7 DEF Keeps, e

\* A queued job is handed out, for the first time.
LEMMA DeliverKeeps ==
  ASSUME NEW b \in Bridges, NEW g \in [Jobs -> Nat], NEW c \in SUBSET Jobs, FilesTell(b, g, c),
         NEW j \in Queued(b), NEW p \in Panels, NEW h \in [Jobs -> Nat], h = [g EXCEPT ![j] = @ + 1]
  PROVE  /\ Deliver(b, j, p) \in Bridges /\ FilesTell(Deliver(b, j, p), h, c)
         /\ Blocked(b, g, c) => Blocked(Deliver(b, j, p), h, c)
         /\ SameJobs(Deliver(b, j, p), b)
<1> DEFINE e == Deliver(b, j, p)
<1>1. j \in Jobs /\ b.mem[j] = "queued" /\ b.disk[j] = "queued" /\ g[j] = 0
  BY DEF Queued, FilesTell, JobTells
<1>2. e \in Bridges
  BY <1>1 DEF Deliver, Bridges, JobStates, Pending
<1>3. /\ e.result = b.result /\ e.unresolved = b.unresolved /\ e.unverified = b.unverified
  BY DEF Deliver, Bridges
<1>4. \A i \in Jobs :
        /\ e.mem[i] = IF i = j THEN "delivered" ELSE b.mem[i]
        /\ e.disk[i] = IF i = j THEN "delivered" ELSE b.disk[i]
        /\ h[i] = IF i = j THEN 1 ELSE g[i]
  BY <1>1 DEF Deliver, Bridges
<1> HIDE DEF e
<1>5. FilesTell(e, h, c)
  BY <1>1, <1>3, <1>4 DEF FilesTell, JobTells
<1>6. ASSUME Blocked(b, g, c) PROVE Blocked(e, h, c)
  BY <1>1, <1>3, <1>4, <1>6 DEF Blocked, InFlight
<1>7. SameJobs(e, b)
  BY <1>1, <1>4 DEF SameJobs, FilesTell, JobTells
<1> QED
  BY <1>2, <1>5, <1>6, <1>7 DEF e
\* An answer is stored: the result alone, or all the files.
LEMMA StoreKeeps ==
  ASSUME NEW b \in Bridges, NEW g \in [Jobs -> Nat], NEW c \in SUBSET Jobs, FilesTell(b, g, c),
         NEW j \in Jobs, b.mem[j] \in {"delivered", "expired"},
         NEW ending \in Endings, NEW w \in {"both", "result"},
         NEW d \in SUBSET Jobs, d = c \cup Verified(b, j, ending)
  PROVE  /\ Store(b, j, ending, w) \in Bridges /\ FilesTell(Store(b, j, ending, w), g, d)
         /\ SameJobs(Store(b, j, ending, w), b)
         /\ Blocked(b, g, c) => Blocked(Store(b, j, ending, w), g, d)
<1> DEFINE e == Store(b, j, ending, w)
           freed == Verified(b, j, ending)
           state == IF ending = "ok" THEN "done" ELSE "failed"
<1>1. freed \subseteq Jobs /\ state \in {"done", "failed"}
  BY DEF Verified, Bridges
<1>2. e \in Bridges
  BY <1>1 DEF Store, Bridges, JobStates, Verified
<1>3. e.unresolved = b.unresolved \ {j} /\ e.unverified = b.unverified \ ({j} \cup freed)
  BY DEF Store, Bridges
<1>4. \A i \in Jobs :
        /\ e.result[i] = IF i = j THEN "real" ELSE b.result[i]
        /\ i = j => e.mem[i] = state /\ e.disk[i] = IF w = "both" THEN state ELSE b.disk[i]
        /\ i # j => /\ e.mem[i] = b.mem[i] \/ (b.mem[i] = "expired" /\ e.mem[i] = "verified")
                    /\ \/ e.disk[i] = b.disk[i]
                       \/ i \in freed /\ b.mem[i] = "expired" /\ e.disk[i] = "verified"
  BY DEF Store, Bridges
<1> HIDE DEF e, freed, state
<1>5. d = c \cup freed
  BY DEF freed
<1>6. FilesTell(e, g, d)
  BY <1>1, <1>3, <1>4, <1>5 DEF FilesTell, JobTells
<1>7. SameJobs(e, b)
  BY <1>1, <1>4 DEF SameJobs, FilesTell, JobTells
<1>8. ASSUME Blocked(b, g, c) PROVE Blocked(e, g, d)
  BY <1>1, <1>3, <1>4, <1>5, <1>8 DEF Blocked, InFlight
<1> QED
  BY <1>2, <1>6, <1>7, <1>8 DEF e

\* Submit appends the next job.
LEMMA EnqueueKeeps ==
  ASSUME NEW b \in Bridges, NEW g \in [Jobs -> Nat], NEW c \in SUBSET Jobs, FilesTell(b, g, c),
         NEW j \in Jobs, b.disk[j] = "absent", NEW inspects \in BOOLEAN
  PROVE  /\ Enqueue(b, j, inspects) \in Bridges /\ FilesTell(Enqueue(b, j, inspects), g, c)
         /\ Blocked(b, g, c) => Blocked(Enqueue(b, j, inspects), g, c)
         /\ \A i \in Jobs : Enqueue(b, j, inspects).disk[i] = IF i = j THEN "queued" ELSE b.disk[i]
         /\ Enqueue(b, j, inspects).inspect[j] = inspects
<1> DEFINE e == Enqueue(b, j, inspects)
<1>1. g[j] = 0 /\ b.result[j] = "absent"
  BY DEF FilesTell, JobTells
<1>2. e \in Bridges
  BY DEF Enqueue, Bridges, JobStates, Pending
<1>3. /\ e.result = b.result /\ e.unresolved = b.unresolved /\ e.unverified = b.unverified
  BY DEF Enqueue, Bridges
<1>4. \A i \in Jobs :
        /\ e.mem[i] = IF i = j THEN "queued" ELSE b.mem[i]
        /\ e.disk[i] = IF i = j THEN "queued" ELSE b.disk[i]
        /\ i = j => e.inspect[i] = inspects
  BY DEF Enqueue, Bridges
<1> HIDE DEF e
<1>5. FilesTell(e, g, c)
  BY <1>1, <1>3, <1>4 DEF FilesTell, JobTells
<1>6. ASSUME Blocked(b, g, c) PROVE Blocked(e, g, c)
  BY <1>1, <1>3, <1>4, <1>6 DEF Blocked, InFlight
<1> QED
  BY <1>2, <1>4, <1>5, <1>6 DEF e
\* Ack writes both files of a job and takes it off the list.
Acknowledge(b, j) ==
  [b EXCEPT !.mem[j] = "acknowledged", !.disk[j] = "acknowledged", !.unresolved = @ \ {j}]

LEMMA AcknowledgeKeeps ==
  ASSUME NEW b \in Bridges, NEW g \in [Jobs -> Nat], NEW c \in SUBSET Jobs, FilesTell(b, g, c),
         NEW j \in Jobs, g[j] > 0, NEW d \in SUBSET Jobs, d = c \cup {j}
  PROVE  /\ Acknowledge(b, j) \in Bridges /\ FilesTell(Acknowledge(b, j), g, d)
         /\ SameJobs(Acknowledge(b, j), b)
         /\ Blocked(b, g, c) => Blocked(Acknowledge(b, j), g, d)
<1> DEFINE e == Acknowledge(b, j)
<1>1. e \in Bridges
  BY DEF Acknowledge, Bridges, JobStates
<1>2. /\ e.result = b.result /\ e.unresolved = b.unresolved \ {j} /\ e.unverified = b.unverified
  BY DEF Acknowledge, Bridges
<1>3. \A i \in Jobs :
        /\ e.mem[i] = IF i = j THEN "acknowledged" ELSE b.mem[i]
        /\ e.disk[i] = IF i = j THEN "acknowledged" ELSE b.disk[i]
  BY DEF Acknowledge, Bridges
<1> HIDE DEF e
<1>4. FilesTell(e, g, d)
  BY <1>2, <1>3 DEF FilesTell, JobTells
<1>5. SameJobs(e, b)
  BY <1>3 DEF SameJobs, FilesTell, JobTells
<1>6. ASSUME Blocked(b, g, c) PROVE Blocked(e, g, d)
  BY <1>2, <1>3, <1>6 DEF Blocked, InFlight
<1> QED
  BY <1>1, <1>4, <1>5, <1>6 DEF e

----------------------------------------------------------------------------
(* The steps *)

\* What a step has to show, unless it submits a job.
LEMMA StepKeeps ==
  ASSUME BridgeInv, BridgeTypes', FilesTell(bridge', given', checked'), SameJobs(bridge', bridge),
         up' => Blocked(bridge', given', checked'), acking' # 0 => given'[acking'] > 0
  PROVE  BridgeInv' /\ ~Accepts
<1>1. Numbered(bridge')
  BY DEF BridgeInv, Numbered, SameJobs
<1>2. ~Accepts
  BY DEF Accepts, SameJobs
<1> QED
  BY <1>1, <1>2 DEF BridgeInv, FilesTell, JobTells, Blocked, InFlight, Numbered

LEMMA SameBridge ==
  ASSUME BridgeInv, UNCHANGED <<bridge, given, checked>>, up' \in BOOLEAN, up' => up,
         storing' \in [Jobs -> {"no"} \cup Endings],
         acking' \in {0, acking} \cup bridge.unresolved
  PROVE  BridgeInv' /\ ~Accepts
<1>1. bridge.unresolved \subseteq Jobs /\ \A j \in bridge.unresolved : given[j] > 0
  BY DEF BridgeInv, BridgeTypes, Bridges, FilesTell, JobTells
<1>2. BridgeTypes' /\ (acking' # 0 => given'[acking'] > 0)
  BY <1>1 DEF BridgeInv, BridgeTypes
<1>3. FilesTell(bridge', given', checked') /\ (up' => Blocked(bridge', given', checked'))
  BY DEF BridgeInv
<1>4. SameJobs(bridge', bridge)
  BY DEF SameJobs
<1> QED
  BY <1>2, <1>3, <1>4, StepKeeps

LEMMA ExpireStep ==
  ASSUME BridgeInv, NEW s \in SUBSET InFlight(bridge), NEW w \in Writes,
         bridge' = Expire(bridge, s, w), UNCHANGED <<up, given, checked, storing, acking>>
  PROVE  BridgeInv' /\ ~Accepts
<1>1. Keeps(bridge', bridge, given, checked)
  BY ExpireKeeps DEF BridgeInv, BridgeTypes
<1>2. BridgeTypes'
  BY <1>1 DEF BridgeInv, BridgeTypes, Keeps
<1> QED
  BY <1>1, <1>2, StepKeeps DEF BridgeInv, Keeps

LEMMA ClaimStep ==
  ASSUME BridgeInv, NEW p \in Panels, Claim(p), UNCHANGED <<up, checked, storing, acking>>
  PROVE  BridgeInv' /\ ~Accepts
<1>1. PICK j \in Queued(bridge) :
        bridge' = Deliver(bridge, j, p) /\ given' = [given EXCEPT ![j] = @ + 1]
  BY DEF Claim
<1>2. j \in Jobs /\ given' \in [Jobs -> Nat] /\ \A i \in Jobs : given'[i] >= given[i]
  BY <1>1 DEF Queued, BridgeInv, BridgeTypes
<1>3. /\ bridge' \in Bridges /\ FilesTell(bridge', given', checked) /\ SameJobs(bridge', bridge)
      /\ Blocked(bridge, given, checked) => Blocked(bridge', given', checked)
  BY <1>1, <1>2, DeliverKeeps DEF BridgeInv, BridgeTypes
<1>4. BridgeTypes' /\ (acking' # 0 => given'[acking'] > 0)
  BY <1>2, <1>3 DEF BridgeInv, BridgeTypes
<1> QED
  BY <1>3, <1>4, StepKeeps DEF BridgeInv

LEMMA PollStep ==
  ASSUME BridgeInv, NEW p \in Panels, NEW w \in Writes, NEW late \in BOOLEAN,
         Poll(p, w, late) \/ Woken(p, w, late)
  PROVE  BridgeInv' /\ ~Accepts
<1>1. UNCHANGED <<up, checked, storing, acking>>
  BY DEF Poll, Woken
<1>2. CASE Beat(p, w, late)
  <2>1. {j \in Stale(bridge, late) : late \/ bridge.to[j] # p} \in SUBSET InFlight(bridge)
    BY DEF Stale
  <2> QED
    BY <1>1, <1>2, <2>1, ExpireStep DEF Beat
<1>3. CASE ClaimNothing(p, w, late)
  <2>1. Lost(p) \cup {j \in Stale(bridge, late) : bridge.to[j] # p} \in SUBSET InFlight(bridge)
    BY DEF Stale, Lost, Claims
  <2> QED
    BY <1>1, <1>3, <2>1, ExpireStep DEF ClaimNothing
<1>4. CASE Claim(p)
  BY <1>1, <1>4, ClaimStep
<1> QED
  BY <1>2, <1>3, <1>4 DEF Poll, Woken

LEMMA StoredStep ==
  ASSUME BridgeInv, NEW j \in Jobs, NEW w \in Writes, Stored(j, w)
  PROVE  BridgeInv' /\ ~Accepts
<1>1. /\ storing[j] \in Endings /\ storing' \in [Jobs -> {"no"} \cup Endings]
      /\ UNCHANGED <<up, given, acking>>
  BY DEF Stored, BridgeInv, BridgeTypes
<1>2. CASE Answerable(j) /\ w # "none"
  <2>1. /\ bridge' = Store(bridge, j, storing[j], w)
        /\ checked' = checked \cup Verified(bridge, j, storing[j])
    BY <1>2 DEF Stored, Verified
  <2>2. checked' \in SUBSET Jobs /\ w \in {"both", "result"}
    BY <1>2, <2>1 DEF BridgeInv, BridgeTypes, Verified, Bridges, Writes
  <2>3. /\ bridge' \in Bridges /\ FilesTell(bridge', given, checked') /\ SameJobs(bridge', bridge)
        /\ Blocked(bridge, given, checked) => Blocked(bridge', given, checked')
    BY <1>1, <1>2, <2>1, <2>2, StoreKeeps DEF BridgeInv, BridgeTypes, Answerable
  <2>4. BridgeTypes'
    BY <1>1, <2>2, <2>3 DEF BridgeInv, BridgeTypes
  <2> QED
    BY <1>1, <2>3, <2>4, StepKeeps DEF BridgeInv
<1>3. CASE ~(Answerable(j) /\ w # "none")
  <2>1. UNCHANGED <<bridge, checked>>
    BY <1>3 DEF Stored
  <2> QED
    BY <1>1, <2>1, SameBridge DEF BridgeInv, BridgeTypes
<1> QED
  BY <1>2, <1>3

LEMMA AckedStep ==
  ASSUME BridgeInv, NEW w \in Writes, Acked(w)
  PROVE  BridgeInv' /\ ~Accepts
<1>1. acking \in Jobs /\ given[acking] > 0 /\ acking' = 0 /\ UNCHANGED <<up, given, storing>>
  BY DEF Acked, BridgeInv, BridgeTypes
<1>2. CASE w = "both"
  <2>1. bridge' = Acknowledge(bridge, acking) /\ checked' = checked \cup {acking}
    BY <1>2 DEF Acked, Acknowledge
  <2>2. checked' \in SUBSET Jobs
    BY <1>1, <2>1 DEF BridgeInv, BridgeTypes
  <2>3. /\ bridge' \in Bridges /\ FilesTell(bridge', given, checked') /\ SameJobs(bridge', bridge)
        /\ Blocked(bridge, given, checked) => Blocked(bridge', given, checked')
    BY <1>1, <2>1, <2>2, AcknowledgeKeeps DEF BridgeInv, BridgeTypes
  <2>4. BridgeTypes'
    BY <1>1, <2>2, <2>3 DEF BridgeInv, BridgeTypes
  <2> QED
    BY <1>1, <2>3, <2>4, StepKeeps DEF BridgeInv
<1>3. CASE w # "both"
  <2>1. UNCHANGED <<bridge, checked>>
    BY <1>3 DEF Acked
  <2> QED
    BY <1>1, <2>1, SameBridge DEF BridgeInv, BridgeTypes
<1> QED
  BY <1>2, <1>3
\* The jobs that were submitted are the first ones.
LEMMA SubmittedFirst ==
  ASSUME Numbered(bridge)
  PROVE  /\ Cardinality(Submitted) \in Nat
         /\ \A j \in Jobs : bridge.disk[j] # "absent" <=> j <= Cardinality(Submitted)
<1>1. PICK n \in 0..MaxJobs : \A j \in Jobs : bridge.disk[j] # "absent" <=> j <= n
  BY DEF Numbered
<1>2. Submitted = 1..n /\ n \in Nat
  BY <1>1, BridgeAssumption DEF Submitted, Jobs
<1>3. Cardinality(Submitted) = n
  BY <1>2, FS_Interval
<1> QED
  BY <1>1, <1>2, <1>3

\* An ordinary script is accepted only when nothing is unknown.
LEMMA SubmitStep ==
  ASSUME BridgeInv, NEW inspects \in BOOLEAN, NEW late \in BOOLEAN, Submit(inspects, late)
  PROVE  /\ BridgeInv'
         /\ Accepts => \A j \in Jobs : Unknown(j) => Torn(j)
<1> DEFINE s == Stale(bridge, late)
           b == Expire(bridge, s, "both")
           j == Cardinality(Submitted) + 1
<1>1. /\ up /\ Cardinality(Submitted) < MaxJobs /\ Allowed(b, inspects)
      /\ InFlight(b) = {} /\ bridge' = Enqueue(b, j, inspects)
      /\ UNCHANGED <<up, given, checked, storing, acking>>
  BY DEF Submit
<1>2. s \in SUBSET InFlight(bridge) /\ "both" \in Writes
  BY DEF Stale, Writes
<1>3. Keeps(b, bridge, given, checked)
  BY <1>2, ExpireKeeps DEF BridgeInv, BridgeTypes
<1>4. /\ Cardinality(Submitted) \in Nat
      /\ \A i \in Jobs : bridge.disk[i] # "absent" <=> i <= Cardinality(Submitted)
  BY SubmittedFirst DEF BridgeInv
<1>5. j \in Jobs /\ b.disk[j] = "absent"
  <2>1. j \in Jobs
    BY <1>1, <1>4, BridgeAssumption DEF Jobs
  <2> QED
    BY <2>1, <1>3, <1>4 DEF Keeps, SameJobs
<1> HIDE DEF b, j
<1>6. /\ bridge' \in Bridges /\ FilesTell(bridge', given, checked)
      /\ Blocked(b, given, checked) => Blocked(bridge', given, checked)
      /\ \A i \in Jobs : bridge'.disk[i] = IF i = j THEN "queued" ELSE b.disk[i]
      /\ bridge'.inspect[j] = inspects
  BY <1>1, <1>3, <1>5, EnqueueKeeps DEF BridgeInv, BridgeTypes, Keeps
<1>7. Numbered(bridge')
  <2>1. Cardinality(Submitted) + 1 \in 0..MaxJobs
    BY <1>1, <1>4, BridgeAssumption
  <2>2. \A i \in Jobs : bridge'.disk[i] # "absent" <=> i <= Cardinality(Submitted) + 1
    BY <1>3, <1>4, <1>6 DEF Keeps, SameJobs, Jobs, j
  <2> QED
    BY <2>1, <2>2 DEF Numbered
<1>8. BridgeInv'
  <2>1. BridgeTypes'
    BY <1>1, <1>6 DEF BridgeInv, BridgeTypes
  <2>2. up' => Blocked(bridge', given', checked')
    BY <1>1, <1>3, <1>6 DEF BridgeInv, Keeps
  <2>3. acking' # 0 => given'[acking'] > 0
    BY <1>1 DEF BridgeInv
  <2> QED
    BY <1>1, <1>6, <1>7, <2>1, <2>2, <2>3
    DEF BridgeInv, FilesTell, JobTells, Blocked, InFlight, Numbered
<1>9. ASSUME Accepts, NEW i \in Jobs, Unknown(i) PROVE Torn(i)
  <2>1. ~inspects
    <3>1. PICK k \in Jobs : /\ bridge.disk[k] = "absent" /\ bridge'.disk[k] = "queued"
                            /\ ~bridge'.inspect[k]
      BY <1>9 DEF Accepts
    <3>2. k = j
      BY <3>1, <1>3, <1>6 DEF Keeps, SameJobs
    <3> QED
      BY <3>1, <3>2, <1>6
  <2>2. b.unresolved = bridge.unresolved /\ b.unverified = bridge.unverified \cup s
    BY DEF b, Expire, BridgeInv, BridgeTypes, Bridges
  <2>3. bridge.unresolved = {} /\ bridge.unverified = {} /\ s = {}
    BY <1>1, <2>1, <2>2 DEF Allowed
  <2>4. InFlight(bridge) = {}
    <3>1. \A k \in Jobs : b.mem[k] = bridge.mem[k]
      BY <2>3 DEF b, Expire, With, BridgeInv, BridgeTypes, Bridges
    <3> QED
      BY <3>1, <1>1, <2>2 DEF InFlight
  <2> QED
    BY <1>1, <1>9, <2>3, <2>4 DEF BridgeInv, Blocked, Unknown, Torn
<1> QED
  BY <1>8, <1>9

\* A restart finds in the files what still has to block.
LEMMA RestartStep ==
  ASSUME BridgeInv, Restart
  PROVE  BridgeInv' /\ ~Accepts
<1>1. UNCHANGED <<given, checked, storing, acking>> /\ up' = TRUE
  BY DEF Restart
<1>2. bridge' \in Bridges
  BY DEF Restart, BridgeInv, BridgeTypes, Bridges, Recovered, LeftOver, ExpiredOnDisk, JobStates
<1>3. /\ bridge'.result = bridge.result /\ bridge'.unresolved = LeftOver
      /\ bridge'.unverified = ExpiredOnDisk
  BY DEF Restart, BridgeInv, BridgeTypes, Bridges
<1>4. \A j \in Jobs :
        /\ bridge'.mem[j] = Recovered(j)
        /\ bridge'.disk[j] = IF bridge.disk[j] = "queued" THEN "cancelled" ELSE bridge.disk[j]
  BY DEF Restart, BridgeInv, BridgeTypes, Bridges
<1>5. FilesTell(bridge', given, checked)
  BY <1>3, <1>4 DEF FilesTell, JobTells, BridgeInv, Recovered, LeftOver, ExpiredOnDisk
<1>6. SameJobs(bridge', bridge)
  BY <1>4 DEF SameJobs
<1>7. Blocked(bridge', given, checked)
  <2> SUFFICES ASSUME NEW j \in Jobs, given[j] > 0, bridge.result[j] # "real", j \notin checked,
                      ~(bridge.result[j] = "unknown" /\ bridge'.disk[j] = "delivered")
               PROVE  j \in LeftOver \cup ExpiredOnDisk
    BY <1>3 DEF Blocked
  <2>1. bridge.disk[j] \in {"delivered", "expired"}
    BY DEF BridgeInv, BridgeTypes, Bridges, JobStates, Pending, FilesTell, JobTells
  <2>2. bridge.result[j] \in {"absent", "unknown"}
    BY DEF BridgeInv, BridgeTypes, Bridges
  <2> QED
    BY <1>4, <2>1, <2>2 DEF LeftOver, ExpiredOnDisk, BridgeInv, FilesTell, JobTells
<1>8. BridgeTypes'
  BY <1>1, <1>2 DEF BridgeInv, BridgeTypes
<1>9. acking' # 0 => given'[acking'] > 0
  BY <1>1 DEF BridgeInv
<1> QED
  BY <1>1, <1>5, <1>6, <1>7, <1>8, <1>9, StepKeeps

LEMMA OtherStep ==
  ASSUME BridgeInv,
         \/ \E p \in Panels : HoldEnds(p) \/ Shut(p) \/ Silent(p)
         \/ \E j \in Jobs : Ends(j) \/ Shrink(j) \/ Answer(j) \/ Ack(j)
         \/ Crash \/ UNCHANGED bridgeVars
  PROVE  BridgeInv' /\ ~Accepts
<1>1. UNCHANGED <<bridge, given, checked>> /\ (up' = up \/ up' = FALSE)
  BY DEF HoldEnds, Shut, Silent, Ends, Shrink, Answer, Ack, Crash, bridgeVars
<1>4. up' \in BOOLEAN /\ (up' => up)
  <2>1. up \in BOOLEAN
    BY DEF BridgeInv, BridgeTypes
  <2>2. CASE up' = up
    BY <2>1, <2>2, Zenon
  <2>3. CASE up' = FALSE
    BY <2>3, Zenon
  <2> QED
    BY <1>1, <2>2, <2>3
<1>2. storing' \in [Jobs -> {"no"} \cup Endings]
  BY DEF HoldEnds, Shut, Silent, Ends, Shrink, Answer, Ack, Crash, bridgeVars, BridgeInv, BridgeTypes
<1>3. acking' \in {0, acking} \cup bridge.unresolved
  BY DEF HoldEnds, Shut, Silent, Ends, Shrink, Answer, Ack, Crash, bridgeVars
<1> QED
  BY <1>1, <1>2, <1>3, <1>4, SameBridge

----------------------------------------------------------------------------
(* The theorems *)

LEMMA BridgeInitInv == BridgeInit => BridgeInv
<1> SUFFICES ASSUME BridgeInit PROVE BridgeInv
  OBVIOUS
<1>1. BridgeTypes
  BY DEF BridgeInit, BridgeTypes, NoBridge, Bridges, JobStates
<1>2. FilesTell(bridge, given, checked) /\ Blocked(bridge, given, checked)
  BY DEF BridgeInit, NoBridge, FilesTell, JobTells, Blocked
<1>3. Numbered(bridge)
  <2>1. 0 \in 0..MaxJobs
    BY BridgeAssumption
  <2>2. \A j \in Jobs : bridge.disk[j] # "absent" <=> j <= 0
    BY DEF BridgeInit, NoBridge, Jobs
  <2> QED
    BY <2>1, <2>2 DEF Numbered
<1> QED
  BY <1>1, <1>2, <1>3 DEF BridgeInv, BridgeInit

\* A step keeps the invariant, and accepts an ordinary script only when every
\* unknown outcome is one whose expiry was cut.
AcceptsKnown == Accepts => \A j \in Jobs : Unknown(j) => Torn(j)

LEMMA BridgeStepInv == BridgeInv /\ [BridgeNext]_bridgeVars => BridgeInv' /\ AcceptsKnown
<1> SUFFICES ASSUME BridgeInv, [BridgeNext]_bridgeVars PROVE BridgeInv' /\ AcceptsKnown
  OBVIOUS
<1>1. CASE \E p \in Panels, w \in Writes, late \in BOOLEAN : Poll(p, w, late) \/ Woken(p, w, late)
  BY <1>1, PollStep DEF AcceptsKnown
<1>2. CASE \E j \in Jobs, w \in Writes : Stored(j, w)
  BY <1>2, StoredStep DEF AcceptsKnown
<1>3. CASE \E w \in Writes, late \in BOOLEAN : ExpireStale(w, late)
  <2>1. PICK w \in Writes, late \in BOOLEAN : ExpireStale(w, late)
    BY <1>3
  <2>2. Stale(bridge, late) \in SUBSET InFlight(bridge)
    BY DEF Stale
  <2> QED
    BY <2>1, <2>2, ExpireStep DEF ExpireStale, AcceptsKnown
<1>4. CASE \E w \in Writes : Acked(w)
  BY <1>4, AckedStep DEF AcceptsKnown
<1>5. CASE \E inspects, late \in BOOLEAN : Submit(inspects, late)
  BY <1>5, SubmitStep DEF AcceptsKnown
<1>6. CASE Restart
  BY <1>6, RestartStep DEF AcceptsKnown
<1>7. CASE \/ \E p \in Panels : HoldEnds(p) \/ Shut(p) \/ Silent(p)
           \/ \E j \in Jobs : Ends(j) \/ Shrink(j) \/ Answer(j) \/ Ack(j)
           \/ Crash \/ UNCHANGED bridgeVars
  BY <1>7, OtherStep DEF AcceptsKnown
<1> QED
  BY <1>1, <1>2, <1>3, <1>4, <1>5, <1>6, <1>7 DEF BridgeNext

\* The invariant the theorems rest on.
THEOREM BridgeInvariant == BridgeSpec => []BridgeInv
  BY BridgeInitInv, BridgeStepInv, PTL DEF BridgeSpec

\* "Jobs are never replayed", for any number of jobs, panels and restarts
\* (takeJob, recoverRuns).
THEOREM NeverReplayed == BridgeSpec => []DeliveredOnce
<1>1. BridgeInv => DeliveredOnce
  BY DEF BridgeInv, FilesTell, JobTells, DeliveredOnce
<1> QED
  BY <1>1, BridgeInvariant, PTL

\* No ordinary script is accepted while the outcome of another is unknown,
\* but for an expiry that was cut between its two files (Submit,
\* expireJobLocked, handleComplete, Ack, recoverRuns).
THEOREM UnknownIsWaitedFor == BridgeSpec => WritesWait
<1>1. BridgeInv /\ [BridgeNext]_bridgeVars
        => [Accepts => \A j \in Jobs : Unknown(j) => Torn(j)]_bridgeVars
  BY BridgeStepInv DEF AcceptsKnown
<1> QED
  BY <1>1, BridgeInvariant, PTL DEF BridgeSpec, WritesWait
----------------------------------------------------------------------------
(* The types of the four components together *)

\* What BridgeTypeOK says of the panels, and of what runs in Figma.
PanelTypes ==
  /\ poll \in [Panels -> {"no", "claim", "beat", "woken"}] /\ quiet \in [Panels -> BOOLEAN]
  /\ busy \in [Panels -> BOOLEAN] /\ closed \in [Panels -> BOOLEAN]
  /\ script \in [Jobs -> {"no", "runs", "gone"} \cup Endings] /\ restarts \in Nat

LEMMA PanelStep == PanelTypes /\ [BridgeNext]_bridgeVars => PanelTypes'
<1> SUFFICES ASSUME PanelTypes, [BridgeNext]_bridgeVars PROVE PanelTypes'
  OBVIOUS
<1> USE DEF PanelTypes, Endings
<1>1. ASSUME NEW p \in Panels, NEW w \in Writes, NEW late \in BOOLEAN, Poll(p, w, late) PROVE PanelTypes'
  <2>1. poll' = poll \/ \E k \in {"claim", "beat"} : poll' = [poll EXCEPT ![p] = k]
    BY <1>1 DEF Poll, Hold
  <2>2. /\ quiet' = [quiet EXCEPT ![p] = FALSE] /\ busy' \in [Panels -> BOOLEAN]
        /\ UNCHANGED <<closed, restarts>>
    BY <1>1 DEF Poll, Touch
  <2>3. script' \in [Jobs -> {"no", "runs", "gone"} \cup Endings]
    BY <1>1 DEF Poll, Beat, ClaimNothing, Claim
  <2> QED
    BY <2>1, <2>2, <2>3
<1>2. ASSUME NEW p \in Panels, NEW w \in Writes, NEW late \in BOOLEAN, Woken(p, w, late) PROVE PanelTypes'
  <2>1. poll' \in [Panels -> {"no", "claim", "beat", "woken"}]
    BY <1>2 DEF Woken, Hold
  <2>2. /\ quiet' = [quiet EXCEPT ![p] = FALSE] /\ busy' \in [Panels -> BOOLEAN]
        /\ UNCHANGED <<closed, restarts>>
    BY <1>2 DEF Woken, Touch
  <2>3. script' \in [Jobs -> {"no", "runs", "gone"} \cup Endings]
    BY <1>2 DEF Woken, ClaimNothing, Claim
  <2> QED
    BY <2>1, <2>2, <2>3
<1>3. ASSUME NEW p \in Panels, HoldEnds(p) \/ Shut(p) \/ Silent(p) PROVE PanelTypes'
  BY <1>3 DEF HoldEnds, Hold, Shut, Silent
<1>4. ASSUME NEW j \in Jobs, Ends(j) \/ Shrink(j) \/ Answer(j) \/ Ack(j) PROVE PanelTypes'
  BY <1>4 DEF Ends, Shrink, Answer, Ack
<1>5. ASSUME NEW j \in Jobs, NEW w \in Writes, Stored(j, w) PROVE PanelTypes'
  BY <1>5 DEF Stored
<1>6. ASSUME NEW w \in Writes, NEW late \in BOOLEAN, ExpireStale(w, late) PROVE PanelTypes'
  BY <1>6 DEF ExpireStale
<1>7. ASSUME NEW w \in Writes, Acked(w) PROVE PanelTypes'
  BY <1>7 DEF Acked
<1>8. ASSUME NEW inspects, NEW late \in BOOLEAN, Submit(inspects, late) PROVE PanelTypes'
  BY <1>8 DEF Submit
<1>9. CASE Crash
  BY <1>9 DEF Crash
<1>10. CASE Restart
  BY <1>10 DEF Restart
<1>11. CASE UNCHANGED bridgeVars
  BY <1>11 DEF bridgeVars
<1> QED
  BY <1>1, <1>2, <1>3, <1>4, <1>5, <1>6, <1>7, <1>8, <1>9, <1>10, <1>11 DEF BridgeNext

LEMMA BridgeTypeParts == BridgeInv /\ PanelTypes => BridgeTypeOK
  BY DEF BridgeInv, BridgeTypes, PanelTypes, BridgeTypeOK

\* What keeps the types of all four, whichever of them runs.
ServicesInv == BridgeInv /\ PanelTypes /\ QueueInv /\ PoolInv

LEMMA ServicesInit == Init => ServicesInv
<1> SUFFICES ASSUME Init PROVE ServicesInv
  OBVIOUS
<1>1. PanelTypes
  BY DEF Init, BridgeInit, PanelTypes
<1> QED
  BY <1>1, BridgeInitInv, InitInv, PoolInitInv DEF Init, ServicesInv

\* A component that stands still keeps its invariant.
LEMMA StillBridge == BridgeInv /\ PanelTypes /\ UNCHANGED bridgeVars => BridgeInv' /\ PanelTypes'
  BY BridgeStepInv, PanelStep

LEMMA StillQueue == QueueInv /\ UNCHANGED queueVars => QueueInv'
  BY StutterStep

LEMMA StillPool == PoolInv /\ UNCHANGED poolVars => PoolInv'
  BY PoolStep

LEMMA ServicesStep == ServicesInv /\ [Next]_servicesVars => ServicesInv'
<1> SUFFICES ASSUME ServicesInv, [Next]_servicesVars PROVE ServicesInv'
  OBVIOUS
<1> USE DEF ServicesInv
<1>1. CASE BridgeNext /\ UNCHANGED <<on, queueVars, poolVars>>
  BY <1>1, BridgeStepInv, PanelStep, StillQueue, StillPool
<1>2. CASE QueueNext /\ UNCHANGED <<on, bridgeVars, poolVars>>
  BY <1>2, NextInv, StillBridge, StillPool
<1>3. CASE PoolNext /\ UNCHANGED <<on, bridgeVars, queueVars>>
  BY <1>3, PoolStep, StillBridge, StillQueue
<1>4. CASE UNCHANGED servicesVars
  BY <1>4, StillBridge, StillQueue, StillPool DEF servicesVars
<1> QED
  BY <1>1, <1>2, <1>3, <1>4 DEF Next

\* Whichever of the components runs, and for every value of their constants,
\* the variables of all three have their types: every index is one of its
\* list or table, every counter a number.
THEOREM ServicesTypes == Spec => []ServicesTypeOK
<1>1. ServicesInv => ServicesTypeOK
  BY BridgeTypeParts DEF ServicesInv, ServicesTypeOK, QueueInv, Shape, PoolInv
<1> QED
  BY <1>1, ServicesInit, ServicesStep, PTL DEF Spec
=============================================================================
