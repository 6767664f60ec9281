------------------------------- MODULE PRLoop -------------------------------
(***************************************************************************)
(* The pull request loop of the REPL (pkg/chat/pr_loop.go, pr.go,          *)
(* pr_command.go): review, fix and re-review one tracked pull request, wait *)
(* for its checks, and merge it.                                           *)
(*                                                                         *)
(* What survives is on disk (state.json and the log of failing verdicts)   *)
(* and on GitHub (the timeline, the merge).  The loop runs in the          *)
(* foreground and a command reads state.json anew, so that a crash, an     *)
(* interrupt and a fail-soft return leave the same behind: PRStop may      *)
(* follow every step.  Every save may fail.                                *)
(*                                                                         *)
(* A failing verdict is a number, in the order of the reviews; one that    *)
(* passes is never written down.  A first review reads the pull request, a *)
(* later one as a rule the commits of the worktree since the last review.  *)
(* Comments of the fix turns and of others, and what is in a diff, are     *)
(* left out.                                                               *)
(***************************************************************************)
EXTENDS Naturals, Sequences, FiniteSets

CONSTANTS
  MaxPRRounds,   \* prMaxRounds
  MaxCycles,     \* bound: how often the loop is attached
  MaxVerdicts    \* bound: failing verdicts

ASSUME PRAssumption == MaxPRRounds \in Nat \ {0} /\ MaxCycles \in Nat /\ MaxVerdicts \in Nat

Verdicts   == 1..MaxVerdicts
PRStatuses == {"absent", "reviewing", "awaiting_ci", "awaiting_merge", "merged", "aborted"}
PRStates   == [status : PRStatuses, round : Nat, posted : Nat]
Modes      == {"review", "fix", "repost"}

VARIABLES
  prpc,      \* where the loop is; "idle" is the prompt
  st,        \* prState in memory
  saved,     \* state.json
  mode,      \* how the next review starts: alreadyPosted and unpostedVerdict
  prev,      \* the verdict at hand, 0 for none
  logged,    \* the newest entry of reviews.jsonl, 0 for none
  reviews,   \* history: failing verdicts, each with its round and its cycle
  timeline,  \* per verdict: review comments on the PR (2 for more)
  github,    \* the pull request itself: "open" or "merged"
  vetted,    \* since the last fix turn or push: a review passed ("reviewed"), the
             \* checks ("green")
  cycle,     \* history: the loop was attached so often
  lost,      \* history: a write to the disk failed or was cut in this cycle
  unseen     \* history: what no review may have read: a "push" to the pull request, a
             \* "cut" fix turn, commits that were "kept" in the worktree (the last is
             \* for good, and leaves nothing to ask of the others)

prVars == <<prpc, st, saved, mode, prev, logged, reviews, timeline, github, vetted, cycle,
            lost, unseen>>

Active(s) == s \in {"reviewing", "awaiting_ci", "awaiting_merge"}

\* s is written; the error of the write is at most logged.
Write(s) == \/ saved' = s /\ UNCHANGED lost
            \/ saved' = saved /\ lost' = TRUE

Save(s) == st' = s /\ Write(s)

\* The loop goes on at p.
At(p) == prpc' = p

\* Back to the prompt: what the loop had in memory is gone.
Return == At("idle") /\ st' = saved' /\ mode' = "review" /\ prev' = 0

----------------------------------------------------------------------------
(* Commands *)

\* runPRLoop up to its first iteration, for the state s and the log entry v.
Resume(s, v) ==
  LET fits == v # 0 /\ (reviews[v].round = s.round \/ reviews[v].round + 1 = s.round)
  IN /\ prev' = IF fits THEN v ELSE 0
     /\ mode' = CASE s.status = "reviewing" /\ s.posted = s.round -> "fix"
                  [] s.status = "reviewing" /\ s.posted # s.round
                       /\ fits /\ reviews[v].round = s.round -> "repost"
                  [] OTHER -> "review"

\* reviewPRCommand for a pull request that is not tracked or was aborted, up
\* to the save of the new state; maybeAttachPRLoop the same.
PRAttach ==
  /\ prpc = "idle" /\ saved.status \in {"absent", "aborted"} /\ cycle < MaxCycles
  /\ LET s == [status |-> "reviewing", round |-> 1, posted |-> 0]
     IN st' = s /\ saved' = s
  /\ cycle' = cycle + 1 /\ At("attached") /\ lost' = FALSE
  /\ UNCHANGED <<mode, prev, logged, reviews, timeline, github, vetted, unseen>>

\* Mutant: the old verdicts are left in the log.
KeepVerdicts == logged' = logged

\* resetPRVerdicts
ResetVerdicts == logged' = 0

\* Its error is only reported.
PRReset ==
  /\ prpc = "attached"
  /\ \/ ResetVerdicts /\ UNCHANGED lost
     \/ logged # 0 /\ UNCHANGED logged /\ lost' = TRUE
  /\ Resume(st, logged') /\ At("loop")
  /\ UNCHANGED <<st, saved, reviews, timeline, github, vetted, cycle, unseen>>

\* resumePRLoop
PRResume ==
  /\ prpc = "idle" /\ saved.status \in {"reviewing", "awaiting_ci"}
  /\ st' = saved /\ Resume(saved, logged) /\ At("loop")
  /\ UNCHANGED <<saved, logged, reviews, timeline, github, vetted, cycle, lost, unseen>>

\* mergePRCommand, or the input "merge".
PRMergeCommand ==
  /\ prpc = "idle" /\ saved.status = "awaiting_merge"
  /\ st' = saved /\ At("merge")
  /\ UNCHANGED <<saved, mode, prev, logged, reviews, timeline, github, vetted, cycle, lost, unseen>>

\* abortPRLoop
PRAbort ==
  /\ prpc = "idle" /\ Active(saved.status)
  /\ Write([saved EXCEPT !.status = "aborted"]) /\ Return
  /\ UNCHANGED <<logged, reviews, timeline, github, vetted, cycle, unseen>>

\* An ordinary turn, or somebody else, pushes to the branch, or commits in the
\* worktree and does not push.
PROutside ==
  /\ github = "open" /\ "kept" \notin unseen
  /\ \/ unseen' = unseen \cup {"push"} /\ vetted' = {}
     \/ unseen' = {"kept"} /\ UNCHANGED vetted
  /\ UNCHANGED <<prpc, st, saved, mode, prev, logged, reviews, timeline, github, cycle, lost>>

----------------------------------------------------------------------------
(* The loop *)

\* The loop returns, or the process dies; after an attachment that was cut
\* the log still has the old verdicts.
PRStop ==
  /\ prpc # "idle"
  /\ unseen' = IF prpc = "cinext" THEN unseen \cup {"cut"} ELSE unseen
  /\ UNCHANGED <<saved, logged, reviews, timeline, github, vetted, cycle, lost>> /\ Return

InReview == prpc = "loop" /\ st.status = "reviewing"
InCI     == prpc = "loop" /\ st.status = "awaiting_ci"

\* The round cap, of a review and of failing checks.
PRCapped ==
  /\ InReview \/ InCI
  /\ st.round > MaxPRRounds
  /\ Write([st EXCEPT !.status = "aborted"]) /\ Return
  /\ UNCHANGED <<logged, reviews, timeline, github, vetted, cycle, unseen>>

\* The findings are on the PR already: straight to the fix turn.
PRSkipToFix ==
  /\ InReview /\ st.round <= MaxPRRounds /\ mode = "fix"
  /\ mode' = "review" /\ At("fix")
  /\ UNCHANGED <<st, saved, prev, logged, reviews, timeline, github, vetted, cycle, lost, unseen>>

\* Mutant: a logged verdict counts as posted.
OnPRLogged == TRUE

\* Mutant: the timeline is not looked at.
OnPRNever == FALSE

\* The PR has a review comment with the marker of round n, of whichever cycle.
Announced(n) == \E v \in DOMAIN reviews : timeline[v] > 0 /\ reviews[v].round = n

\* prReviewerCommentOnPR
OnPR == Announced(st.round)

\* The logged verdict has no confirmed comment: look for it, else post it.
PRRepost ==
  /\ InReview /\ st.round <= MaxPRRounds /\ mode = "repost"
  /\ mode' = "review" /\ At(IF OnPR THEN "mark" ELSE "post")
  /\ UNCHANGED <<st, saved, prev, logged, reviews, timeline, github, vetted, cycle, lost, unseen>>

\* What dispatchPRReview reads: the pull request in the first round and
\* whenever the incremental diff is unusable, else the commits of the worktree.
\* It reads first, so that a push during the review is one after it.
Reads == \E full \in BOOLEAN : /\ st.round = 1 => full
                              /\ unseen' = unseen \ (IF full THEN {"push", "cut"} ELSE {"cut"})

\* The review passes; dispatchPRReview has saved the reviewed head before.
PRPass ==
  /\ InReview /\ st.round <= MaxPRRounds /\ mode = "review"
  /\ LET s == [st EXCEPT !.status = "awaiting_ci"]
     IN Save(s) \/ (st' = s /\ saved' = st /\ lost' = TRUE)
  /\ prev' = 0 /\ vetted' = vetted \cup {"reviewed"} /\ Reads
  /\ UNCHANGED <<prpc, mode, logged, reviews, timeline, github, cycle>>

\* The review fails: its verdict is logged, or that fails.
PRFail ==
  /\ InReview /\ st.round <= MaxPRRounds /\ mode = "review" /\ Len(reviews) < MaxVerdicts
  /\ LET v == Len(reviews) + 1
     IN /\ reviews' = Append(reviews, [round |-> st.round, cycle |-> cycle])
        /\ prev' = v /\ logged' \in {v, logged}
        /\ lost' = (lost \/ logged' # v)
  /\ saved' \in {saved, st} /\ Reads /\ At("post")
  /\ UNCHANGED <<st, mode, timeline, github, vetted, cycle>>

\* PostComment.  When it reports an error the loop stops, here or, when the
\* comment did arrive, at the next step.
PRPost ==
  /\ prpc = "post" /\ timeline' = [timeline EXCEPT ![prev] = IF @ = 2 THEN 2 ELSE @ + 1]
  /\ At("mark")
  /\ UNCHANGED <<st, saved, mode, prev, logged, reviews, github, vetted, cycle, lost, unseen>>

\* The posted-round marker.
PRMark ==
  /\ prpc = "mark" /\ Save([st EXCEPT !.posted = st.round]) /\ At("fix")
  /\ UNCHANGED <<mode, prev, logged, reviews, timeline, github, vetted, cycle, unseen>>

\* What a fix turn commits is not reviewed, and the agent need not push it.
Commits == vetted' = {} /\ unseen' \in {unseen, {"kept"}}

\* The fix turn.  The watermark of the comments it was shown is saved.
PRFix ==
  /\ prpc = "fix" /\ Commits /\ saved' \in {saved, st} /\ At("next")
  /\ UNCHANGED <<st, mode, prev, logged, reviews, timeline, github, cycle, lost>>

\* Round++
PRNext ==
  /\ prpc = "next" /\ Save([st EXCEPT !.round = @ + 1]) /\ At("loop")
  /\ UNCHANGED <<mode, prev, logged, reviews, timeline, github, vetted, cycle, unseen>>

\* waitPRCI: all green, or no checks at all.  The loop stops here unless
\* pr_auto_merge.
PRGreen ==
  /\ InCI /\ Save([st EXCEPT !.status = "awaiting_merge"])
  /\ vetted' = vetted \cup {"green"} /\ At("merge")
  /\ UNCHANGED <<mode, prev, logged, reviews, timeline, github, cycle, unseen>>

\* The checks fail: a fix turn.
PRCIFix ==
  /\ InCI /\ st.round <= MaxPRRounds /\ Commits
  /\ saved' \in {saved, st} /\ At("cinext")
  /\ UNCHANGED <<st, mode, prev, logged, reviews, timeline, github, cycle, lost>>

\* Mutant: the fix of failing checks is not reviewed.
BackToCI == [st EXCEPT !.round = @ + 1]

\* Mutant: the fix of failing checks costs no round.
FreeCIRound == [st EXCEPT !.status = "reviewing"]

\* After the fix of failing checks: back to the review, one round on.
AfterCIFix == [st EXCEPT !.round = @ + 1, !.status = "reviewing"]

PRCINext ==
  /\ prpc = "cinext" /\ Save(AfterCIFix) /\ At("loop")
  /\ UNCHANGED <<mode, prev, logged, reviews, timeline, github, vetted, cycle, unseen>>

\* gh merges, whether it reports an error or not.
PRMerge ==
  /\ prpc = "merge" /\ github' = "merged" /\ At("merged")
  /\ UNCHANGED <<st, saved, mode, prev, logged, reviews, timeline, vetted, cycle, lost, unseen>>

PRMerged ==
  /\ prpc = "merged" /\ Write([st EXCEPT !.status = "merged"]) /\ Return
  /\ UNCHANGED <<logged, reviews, timeline, github, vetted, cycle, unseen>>

----------------------------------------------------------------------------
(* The specification *)

PRInit ==
  /\ prpc = "idle" /\ st = [status |-> "absent", round |-> 0, posted |-> 0] /\ saved = st
  /\ mode = "review" /\ prev = 0 /\ logged = 0 /\ reviews = <<>>
  /\ timeline = [v \in Verdicts |-> 0] /\ github = "open" /\ vetted = {} /\ cycle = 0
  /\ lost = FALSE /\ unseen = {}

PRCommands == PRAttach \/ PRResume \/ PRMergeCommand \/ PRAbort \/ PROutside

PRSteps ==
  \/ PRReset \/ PRCapped \/ PRSkipToFix \/ PRRepost \/ PRPass \/ PRFail \/ PRPost \/ PRMark
  \/ PRFix \/ PRNext \/ PRGreen \/ PRCIFix \/ PRCINext \/ PRMerge \/ PRMerged

PRNextStep == PRCommands \/ PRSteps \/ PRStop

\* The loop goes on by itself: reviewer, turns, checks and gh are bounded by
\* timeouts.
PRFairness == WF_prVars(PRSteps)

PRSpec     == PRInit /\ [][PRNextStep]_prVars
FairPRSpec == PRSpec /\ PRFairness

----------------------------------------------------------------------------
(* Properties *)

PRTypeOK ==
  /\ prpc \in {"idle", "attached", "loop", "post", "mark", "fix", "next", "cinext", "merge",
               "merged"}
  /\ st \in PRStates /\ saved \in PRStates /\ mode \in Modes
  /\ prev \in 0..Len(reviews) /\ logged \in 0..Len(reviews)
  /\ reviews \in Seq([round : Nat, cycle : Nat]) /\ Len(reviews) <= MaxVerdicts
  /\ timeline \in [Verdicts -> 0..2] /\ github \in {"open", "merged"}
  /\ vetted \subseteq {"reviewed", "green"} /\ cycle \in 0..MaxCycles
  /\ lost \in BOOLEAN /\ unseen \subseteq {"push", "cut", "kept"}

\* The verdict is the one of this round of this cycle.
OfThisRound(v) == v # 0 /\ reviews[v] = [round |-> st.round, cycle |-> cycle]

\* In the first cycle a fix turn works on the findings of its own round, and
\* these are on the PR, wherever the loop was cut and resumed.  (After a
\* re-attachment an old comment, or an old log, may stand for them.)
FixAnswersReview == prpc = "fix" /\ cycle = 1 /\ ~lost => OfThisRound(prev) /\ timeline[prev] > 0

\* In every cycle, and whatever writes fail, a fix turn runs only when the PR
\* has a review comment of its round.
FixIsAnnounced == prpc = "fix" => Announced(st.round)

\* One review comment per round of the cycle, wherever posting was cut.
ReportedOnce ==
  ~lost => \A v, w \in DOMAIN reviews :
             reviews[v] = reviews[w] /\ reviews[v].cycle = cycle
               /\ timeline[v] > 0 /\ timeline[w] > 0
               => v = w /\ timeline[v] = 1

\* No review comment is missing when its findings are worked on, and none is
\* there twice ("no second review, no duplicate, no missing timeline entry").
ReviewTrail == FixAnswersReview /\ FixIsAnnounced /\ ReportedOnce

\* gh is asked to merge what is there.
Merges == github = "open" /\ github' = "merged"

\* What is merged has passed a review since the last fix turn, if that pushed
\* and nobody else did ("review passed, checks green"; HOOKS.md says the same
\* of the state awaiting_merge).
MergesReviewed ==
  [][Merges /\ unseen \subseteq {"cut"} /\ ~lost => "reviewed" \in vetted]_prVars

\* The same, and green, as long as no fix of failing checks was cut short: no
\* push of others since the pull request was last read, every commit pushed.
MergesVetted == [][Merges /\ unseen = {} /\ ~lost => vetted = {"reviewed", "green"}]_prVars

\* A loop that is started comes to its end.
PRLoopEnds == prpc # "idle" ~> prpc = "idle"
=============================================================================
