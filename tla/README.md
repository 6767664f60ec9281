# Verification of deepai: missions, agent runs, bot sessions and their services

TLA+ models of the parts of deepai whose correctness depends on ordering,
failure and concurrency, the TLC runs that check them on small instances, and
theorems TLAPS proves about them for every value of the constants.

## 1. Inventory of the system

deepai is a coding agent with two hosts: a terminal REPL (`cmd/deepai`,
`pkg/chat`) and a long-running bot (`cmd/deepai-bot`, `pkg/bot`). Both run turns
of the agent loop (`pkg/agent`) over tools (`pkg/tools`, `pkg/mcp`), with a
session store (`pkg/chat/session.go`) and a memory service (`pkg/memory`).

| Component | State it keeps | Operations | Interacts with | What is hard | What makes it correct |
|---|---|---|---|---|---|
| Mission loop `pkg/chat/mission*.go` | `state.json`, `design.md`, `design.locked.md`, `charter.lock.json`, `implement.baseline`, the REPL's plan-mode flags, the charter and edit records on the session carry | `/mission`, resume, abort, design and implementation rounds, reviews, lock, escalation, attach at start | REPL (shared fields), agent turns and reviewers (calls), git, the user's editor | crash between two writes, interrupted reviews, two counters and caps, an unattended loop | done only when reviewed (exempt files aside); bounded; owed reviews are held; the prompt is left clean |
| Event bus `pkg/bot/bus.go` | ring, next seq, subscriptions | publish, subscribe, close | manager (publishes under s.mu), transports | slow readers, ring overflow, renumbering after unload and restart | in order and without a hole, or the client is told |
| Bot manager `pkg/bot/manager.go` | sessions map, seqFloor, per session: turn, conversation, messages, questions | Send, Cancel, Answer, Delete, evictIdle, Close | runtime (calls out, callbacks in), store, session lock, bus | two lock levels, steps after an unlock, abandoned goroutines | one turn per session, bracketed events, no use of a closed conversation, shutdown ends |
| Bot transports, runtime, stores | connections; agent goroutines; rows | HTTP, SSE, WS; RunTurn; CRUD | manager | abandoned turns | as above |
| Session store and lock `pkg/chat/session.go` | sqlite rows of sessions and locks | acquire, refresh, release | both hosts, other processes | takeover of an owner that only looks gone; a refresh, a switch and a title goroutine of one process race | an owner knows what it holds, and once told of a loss writes no more |
| Update queue `pkg/memory/queue.go` | channel, latest seq per key, flush versions | submit, work, flush, close | memory service, compaction, `/refine` | coalescing, timeout, a flush between submit and save, close racing send | an update is skipped only for a newer one (which a full queue may drop), nothing older is saved after a flush |
| Subagent pool `pkg/subagent` | tasks and their contexts (no limit on how many run) | start, cancel, wait | agent loop | cancel and deadline racing completion | every task ends once, and its waiter is told how |
| Agent loop `pkg/agent` | messages of a run, carry, breaker, counters | model call, tool batches, wrap-ups, compaction | tools, providers, subagent pool, REPL and bot (messages kept between runs) | parallel tools, interrupts, early returns | calls and results stay paired, unsafe calls keep their order, a run ends within its caps |
| Pull request loop `pkg/chat/pr*.go` | `state.json` and `reviews.jsonl` per PR | review, fix, wait for checks, merge; `/pr` commands | GitHub through `gh`, reviewers, agent turns | interrupted between a side effect and its save | each review reported once and before its fix, only reviewed and green code merged, as far as the loop reads what it merges |
| Figma bridge `pkg/figmabridge` | jobs in memory and as two files each | submit, poll, expire, complete, ack, recover | the `figma` tool, plugin panels over HTTP | lost and late answers, two-file writes, restart | no script replayed, unknown outcomes block writes |
| Memory, MCP, tools, hooks, sandbox, providers, proxy, skills | see `PROJECT.json` | | | mostly I/O or sequential | |

`PROJECT.json` lists every component with its status, and the hazards: places
where a unit test would hardly reach the order of steps that matters.

## 2. Modules

| Module | Models | Composed of |
|---|---|---|
| `Mission` | the mission loop, its files, the REPL around it, faults | instantiates `MissionLifecycle` |
| `MissionLifecycle` | what a mission promises a reader of `state.json` (abstract) | |
| `MissionProofs`, `MissionSafetyProofs`, `MissionLifecycleProofs` | the theorems about `Mission` | extend `Mission`, TLAPS |
| `EventBus` | the bus of one session, its unloading, and its clients | instantiates `EventFeed` |
| `EventFeed` | what a client of the stream is promised (abstract) | |
| `EventBusProofs` | the theorems about `EventBus`, its refinement included | extends `EventBus`, TLAPS |
| `BotManager` | requests, turns, janitor and shutdown on one session | |
| `BotManagerProofs` | the theorems about `BotManager` | extends `BotManager`, TLAPS |
| `AgentRun` | the request loop of one conversation's runs | |
| `AgentRunProofs` | the theorems about `AgentRun` | extends `AgentRun`, TLAPS |
| `FigmaBridge` | the bridge, its panels, its files, its restarts | |
| `PRLoop` | the pull request loop, its files and GitHub | |
| `UpdateQueue` | the memory update queue | |
| `SubagentPool` | the tasks of one run and their waiters | |
| `ServiceProofs` | the theorems about these four | extends `MCServices`, `PRLoop`, TLAPS |
| `MCServices` | runs the bridge, the queue or the pool, one at a time; they share no state | extends them |
| `MCChat` | runs `AgentRun` or `PRLoop`, one at a time | extends `MCAgentRun`, `PRLoop` |
| `SessionLock` | the lock on stored sessions and the REPLs that hold it | |
| `SessionLockProofs` | the theorems about `SessionLock`, and the types of both | extends `MCSessions`, `BotManagerProofs`, TLAPS |
| `MCSessions` | runs `BotManager` or `SessionLock`, one at a time | extends both |
| `MCMission`, `MCEventBus`, `MCBotManager`, `MCAgentRun` | instances for TLC | |

### Mission

`pc` says where `runMission` stands: at the prompt (`idle`), between two
processes (`down`), or at a point between two writes of the mission directory or
two model calls. `st` is `m.state`, `disk` is `state.json`; the two differ where
the code changes memory first (`escalateToDesign`). Each action is one stretch
of code from such a point to the next, so `Crash` can fall between any two
writes, and it drops all memory. The correspondence of actions to lines is
`map` in `PROJECT.json`.

Data: a plan is one of two texts or missing, a file either differs from the
baseline or does not, a charter is the set of files it covers (the gate refuses
an empty one, so `{}` stands for none). `Exempt` are the files `isScopeExempt`
names: outside the charter they are neither reviewed nor a violation. Verdicts are chosen freely: the model
says nothing about what a reviewer thinks, only what the loop makes of it.
History variables: `unrev` (edits no passing review saw), `owed` (a finished
plan has had no verdict), `passed` (the text the last pass was about),
`verdicts`, `turns`.

Faults are a constant: `crash`, `rename` (archiving the charter fails, which the
code only logs), `rmplan` (the plan vanishes while the REPL waits), `editplan`
(design.md is edited under its review).

### EventBus

The ring, `start` and `full` are those of `bus.go`; `Ordered` is
`orderedLocked`. One `Subscription` per client is the backlog not yet forwarded
(`back`, with the gap marker in front) and the channel (`chan`). The clock of
`reloadBaseLocked` gains a unit per event, as a microsecond clock does, and can
be set back to where the process found it at most; a restart comes later than
any event already numbered. Those two assumptions are the ones under which the
code's choice of a base works: a clock set back across a restart would reuse
numbers, and no in-memory floor survives the restart to prevent it.

Every event carries its number `n` in the whole stream, which no client sees;
the refinement of `EventFeed` maps `view` to it, so that two buses that use the
same seq for different events would be told apart.

### BotManager

One session, seen by the requests that race on it. Objects 1..MaxObjects are the
`*session` values `load` makes; `cur` is the mapped one. A request is split at
its unlocks: `SendLoad` (m.mu), `SendAdmit` (m.mu), `SendBegin` (s.mu). A turn
then runs through start, running, persisted, unlocked, ended, done;
`AgentAlive` is the agent goroutine, which the runtime abandons after a cancel,
so its callbacks (`Emit`, `AskQuestion`) can come at any later time.
`OtherProcess` takes the session lock when it is free.

### AgentRun

`hist` is `runMessages`; a message is its role and the number of calls in it, a
result names its call. `pc` is where `Run` stands: before a request, at one, in a
serial batch, in a parallel one, or over its results (`observe`). Between two
runs the caller keeps `hist`, and appends the next line (`SendLine`) or repairs
it first (`Continue`). `ctx` may end at any step; what a tool or the provider
then does is free, and the code's checks decide what the run makes of it. The
breaker is a record carried from run to run, as on the session carry. Token
usage is one unit per turn and per subagent; a content is "big" or not, and
compaction is the loss of bigness.

### FigmaBridge

`bridge` holds memory (`mem`, `unresolved`, `unverified`) and disk (`disk`,
`result`), and the operators on it are the critical sections under `b.mu`. File
writes succeed or fail one by one (`Writes`). `script` is what became of a script
in Figma, which the bridge cannot see; `given` and `checked` are the history the
properties speak of. Clocks are choices: `quiet` (a panel not heard of for
`orphanAfter`), `late` (`execTimeout` has passed). `Answer`/`Stored` and
`Ack`/`Acked` are split where the code gives up the lock.

### PRLoop

`st` is the state in memory, `saved` the file; a save may fail (`lost`), and
`PRStop` may follow every step, since an interrupt, a fail-soft return and a
crash leave the same behind. `vetted` says what has passed since the last fix turn or push,
`timeline` how often each failing verdict was posted. `unseen` is what no review may
have read: a `push` of somebody else, which only a review of the pull request
itself clears (`Reads`; from the second round on a review as a rule reads the local
commits), a `cut` fix of failing checks, and commits `kept` in the worktree.
`PROutside` is the push or commit of an ordinary turn or of another person, and a
fix turn may leave its commits unpushed (`Commits`). `PRAttach` and `PRReset` are the
two writes of an attachment.

### UpdateQueue

Submit is three steps (`Number`, `Capture`, `Send` or `Drop`), the worker's job
two or three, a flush two (`Cancel`, `Bump`). `outdated` are the updates that were
submitted before a flush of their scope.

### SubagentPool

Each task has the phases of `runTask`, the `Err` of its own context, and one
waiter. The contexts form the tree of the code: the run's, and one below it per
task. `CancelTask`, a deadline and the end of the run race the executor.

### SessionLock

`rows`, `holder` and `age` are the store: which sessions exist, whose row of
`session_locks` each has, how old its `heartbeat_at` is. An action on them is one
transaction; `Stale` is the verdict of `canAcquireSessionLock` on the owner
(dead, stopped, a pid that another program got, another machine). A REPL process
is `sess`, `locked` (`lockedSessionID`) and `lost` (`lockState`), which three
goroutines share without a common lock: the REPL's own (`step`: it starts, writes,
switches by `/new` or `/fork`, exits), the refreshing ones (`beat`: the ticker and
the SIGCONT watcher, split at every access of shared state) and the one that
generates a title (`title`). Ages are counted up to one more than `Long`, since
older ones are judged alike, and each row ages by itself: a heartbeat may come as
late as it likes, as on a suspended machine.

History: `taken` (rows that left a process otherwise than by its own release),
`told` (losses it was told of), `left` (sessions it switched away from), and in a
title `ahead`, that its session was lost by report already when its first check
passed. A report about the session a switch is just moving to does not count as
told, because the switch clears it (`lockState.clear`); the next refresh repeats
it.

## 3. Runs

| Run | Checks | Bounds |
|---|---|---|
| `mission_loop` | TypeOK, TurnContext, OwedReviewComesFirst, VerdictsBounded, NoPlanFailsUnread, LoopEnds | the real caps (3, 2, 1, 2, 2, 2), one ordinary and one exempt file, two plans, git, plans edited under their review |
| `mission_crash` | OrdinaryTurnsClean, LockedPlanWasPassed, Budgets, DoneMeansReviewed, LifecycleSpec | caps 2, 1, 1, 1, 1, 1, the same files and plans, every fault but that one |
| `mission_unread` | NoPlanFailsUnread is violated | caps at their least, crashes |
| `event_bus` | TypeOK, RingIsTail, QueuedIsNext, FeedSpec, CatchesUp | ring of 2, channel of 1, 4 events, 2 reloads, clock set back by 1 or 3, one client |
| `event_bus_resync` | ResyncMissesNoTurn is violated | 3 events, one process, nothing evicted |
| `bot_manager` | SessionsTypeOK, OneTurnPerSession, TurnIsSafe, QuestionsAnswerable, TurnsBracketed; LockStanding, ToldMeansSilent | manager: two sends, a delete, another process, shutdown, no janitor; lock: two processes, of which one writes, switches and refreshes (one goroutine) and the other takes over, stops and ends, two machines, two sessions, thresholds 0 and 1 |
| `bot_eviction` | CloseReturns, QuestionsReturn | one send, a delete, the janitor, a reload, another process, shutdown |
| `bot_two_turns` | OneTurnPerSession is violated | two sends, the janitor, one reload |
| `chat_loops` | ChatTypeOK; PairedUnlessCut, UnsafeOrder, ResultsBooked, RunCaps, RunEnds; ReviewTrail, MergesVetted, PRLoopEnds | agent: two runs, three tools, batches of two and three, tool budget 2, one task call, tokens 4, breaker thresholds 2 to 4; PR: 2 rounds, 2 cycles, 2 failing verdicts |
| `agent_run_cancel` | CallsPaired is violated | the same as for the agent |
| `services` | ServicesTypeOK, DeliveredOnce, WritesWait, NoStaleSave, NewestIsKept, TaskEndsAsTold | bridge: 2 panels one after the other, 2 jobs, 1 restart; queue of 1, 3 updates, 1 flush, two scopes; 2 tasks |
| `pr_unreviewed_merge` | MergesReviewed is violated | the same as for the PR loop |

Why these bounds are enough to mean something. An ordinary file and an exempt one
let a charter cover one and miss the other, and let edits lie inside it, outside and
forbidden, or outside and exempt; two plan texts tell the reviewed text from the locked one. Every cap is at least one
in the run with faults, so each counter is spent and exhausted, and the one
escalation is taken and refused; the run without faults has the code's own caps.
A ring of 2 wraps with the third event; a channel of 1 overflows with the
second; 4 events let both happen, before and after a reload. Clients do not
interact, so one is enough. The clock steps cover both a step smaller than the
events since the start and one that undoes them all. Two sends are enough for
one to be refused, to be stale, or to start in the other's wake; a third would
repeat a role. Counters that TLC must bound: `MaxEvents`, `MaxReloads`,
`MaxObjects`, `MaxRuns`, `MaxPanels`, `MaxJobs`, `MaxRestarts`, `MaxCycles`,
`MaxVerdicts`, `MaxUpdates`, `MaxFlushes`, the `Sessions`, `Users` and `MaxAge` of
the lock; `OneIdleMore` saturates one above the cap, where the code stops
telling values apart.

For an agent run, three tools (safe, unsafe, subagent) give batches that are
serial, parallel, and mixed; the thresholds keep the code's order, so that every
way the breaker stops a run comes before the budget in some behaviour and after
it in another; the second run begins with whatever the first left. Two jobs of
the bridge let one be unknown while the other is submitted or is the inspect that
settles it; a queue of one is full at once; two rounds let the PR loop pass,
fail and be capped, and two cycles let an old verdict and an old comment meet a
new round of the same number. Two sessions are what a switch needs, its old one and its new
one; two processes are an owner and whoever takes its row; both thresholds are
passed by an age of 2, and only the shorter by an age of 1.

Fairness. `Mission!FairSpec` is weakly fair to the loop only: a turn has a hard
wall-clock cap and a review a deadline, everything else is local computation.
The user, the environment and restarts are not fair. `EventBus!FairSpec` is fair
to each client's own steps and to the end of a persisted turn and to a load; the
publisher, the janitor and the clock are not. `BotManager!FairSpec` is fair to
the steps of a turn that do not wait for the model, to the agent after a cancel
(the runtime abandons a tool that does not stop), and to Close; nobody has to
answer a question and no turn has to end by itself. `AgentRun!FairSpec` is fair
to the goroutine of Run as a whole: a stream that stalls is cut by the idle
watchdog, tools return; nobody has to cancel or type. `PRFairness` is fair to the
steps of the loop, each bounded by a timeout of the code, not to the user;
`ChatFairness` is those two for the component that runs. `CatchesUp` is conditional:
a client that goes away for ever is promised nothing.

What the passing runs show, beyond types:

* In one process the loop holds an owed review before it spends another turn
  (`OwedReviewComesFirst`), also when the plan is edited under its review, records no more verdicts in a design phase than it has
  rounds (`VerdictsBounded`), and returns to the prompt (`LoopEnds`).
* Under crashes, failed renames and vanished plans the caps hold and one run of the
  loop costs no more turns than they add up to (`Budgets`, which is
  `RoundsWithinCaps` and `TurnBudget`), only the text that was passed is implemented
  (`LockedPlanWasPassed`), an ended mission stays ended and the other promises of
  `MissionLifecycle` are kept. `done` means that the charter was worked on, that all
  changes in it passed a review, and that what differs outside it is exempt.
* A client of the stream sees everything in order, or is told; one that keeps
  following catches up, through overflow, unloading and restarts.
* Without the janitor a session runs one turn at a time, on an open
  conversation and, as long as the session is stored, inside the session lock
  (`TurnIsSafe`, which is `LockCoversTurn` and `ConversationOpen`; a turn that begins
  between the two halves of a delete runs on without its row), and its events are bracketed even when
  an abandoned agent goes on emitting.
* A REPL's idea of what it holds is right, up to a takeover it has not yet heard
  of (`LockStanding`), through switches, refreshes that come late, takeovers,
  deletes and stops; once it was told, or has switched, no goroutine of it begins
  another write to that session (`ToldMeansSilent`).
* Shutdown ends with questions unanswered, also across evictions.
* An agent run answers every call in order before the next request, whatever
  stops it, with one exception; unsafe calls keep their place among parallel
  ones; neither cap is passed; every executed call is booked; every run ends.
* No Figma script is handed out twice and no ordinary script is accepted while
  the outcome of another is unknown, through late answers, failed writes and a
  restart, but for an expiry torn between its two files.
* The PR loop fixes nothing before its round has a review comment, in every cycle
  and whatever writes fail. Where no write failed it posts no verdict twice, and in
  the first cycle the comment is the one of the verdict it fixes (`ReviewTrail`). It
  merges only what is reviewed and green (`MergesVetted`) with four exceptions that
  the property names: a fix of failing checks was cut short, somebody pushed since
  the pull request itself was last read, commits were not pushed, a write failed in
  this cycle. It ends.
* A flush outdates what was submitted before it; the worker skips an update only
  for a newer one or a flush. The newer one counts even when it timed out at the
  full queue; the older update is then lost with it. A subagent's waiter is told the one final status.

What the violated ones show (details under `findings`):

* A process that dies during the first review of the last design round leaves no
  pending mark; the restarted mission fails a plan nobody read.
* `GetSession` reads the transcript and `last_seq` in two critical sections; a
  turn that ends between them is in neither.
* A send that looked its session up before the janitor unloaded it, and one that
  loaded it again, run two turns of one session at once.
* An interrupt inside a serial batch of tool calls leaves the calls behind it
  without results, and the next line sends that history.
* A fix of failing checks that pushed and was cut short is merged unreviewed.

Five more that need a weaker setting, or a stronger property, than the runs have,
each found by TLC when it is set so:

* With `editplan` in an otherwise faultless instance `LockedPlanWasPassed` fails:
  `lockCharter` reads `design.md` again after the review passed
  (src/pkg/chat/mission.go:318). So `mission_crash`, which checks it, leaves that
  fault out.
* Without `cycle = 1` `FixAnswersReview` fails in two ways, both after an aborted
  loop was attached again. (a) The verdict of round 1 is logged and the loop is cut
  before the comment is posted; on resume `prReviewerCommentOnPR` finds the round-1
  comment of the earlier cycle (src/pkg/chat/pr_loop.go:366-374 compares role and
  round only), takes it for this one (:118-127), and the findings are fixed and
  never posted: the "missing timeline entry" that :78-86 rules out. (b) A crash
  between `newPRState` and `resetPRVerdicts` (src/pkg/chat/pr_command.go:78-86) leaves
  the old log, whose round-1 verdict fits the new round 1: it is fixed, and round 1
  is never reviewed, which the comment there means to prevent.
* Without `unseen` `MergesVetted` fails: from round 2 on the review reads
  `LastReviewHead..HEAD` of the worktree (src/pkg/chat/pr_loop.go:280-291), so a push
  of somebody else is merged unread, and a fix that was committed and not pushed is
  reviewed although the merge does not have it.
* With `Git = FALSE` `DoneMeansReviewed` fails: edits are known by tool records that
  an escalation, `/undo` and a restart forget
  (src/pkg/chat/mission_implement.go:200).
* With `rmplan` `VerdictsBounded` fails. A pending review that finds its plan gone
  clears its local flag only (src/pkg/chat/mission_design.go:76), the retirement at
  :171 asks that flag, and so the mark in `state.json` outlives the review of the
  rewritten plan and the implementation. An escalated design phase takes it for its
  own: its first turn counts as an amendment of a round already spent, and the
  phase is judged three times, where src/pkg/chat/mission.go:76 bounds it by two.
  An amendment that wipes the plan does retire the mark (:142).

## 4. Proofs

What is assumed is each module's named assumption on its constants: for the
mission `CapsAssumption` (the caps are natural numbers, the design caps positive)
and `DataAssumption`; `BusAssumption`, `BotAssumption`, `RunAssumption`,
`BridgeAssumption`, `PRAssumption`, `QueueAssumption` and `LockAssumption` (the
shorter threshold is less than the longer) say as little of theirs.
The bounds TLC needs (`MaxEvents`, `MaxJobs`, ...) are constants too, so a theorem
holds for every value of them.

The mission:

* `TypeCorrect` (MissionProofs): `Spec => []TypeOK`. `TypeOK` is inductive once
  it says that whoever stands at `leave` carries a terminal status. The lemmas
  at the top of the module treat each record update once, so that no later proof
  expands the record types.
* `CleanPrompt` (MissionSafetyProofs): `Spec => []OrdinaryTurnsClean`, for every
  kind of fault. `CleanInv` adds that the loop runs only with a mission attached
  and that a dead process has none; `WorkingFrame` shows that no step of the
  loop except `LeaveMission` detaches.
* `CapsHold`: `Spec => []RoundsWithinCaps`. The property speaks of `disk`;
  `CapsInv` adds the same of memory, that the round a turn is being run for fits
  the cap of its own phase, and that an escalation that was decided is still
  allowed when it is carried out. Crash and restart only copy disk to memory.
* `DoneIsReviewed`: in a git worktree `Spec => DoneMeansReviewed`, an action
  property: outside the charter only exempt files differ, inside it nothing escaped
  a passing review. `ReviewInv` says that what no review saw differs from the baseline,
  that the reviewer is asked only about a non-empty change inside the charter,
  and that nothing is edited between a pass and the status; `StatusInv` that
  memory and disk agree on the status, so that only `leaveMission` can write
  `done`. Without git it fails, see section 3.

* `ImplementsLifecycle` (MissionLifecycleProofs): `Spec => LifecycleSpec`, the
  refinement. `LifeInv` relates the four fields in memory to those on disk
  (they differ only between archiving the charter and saving the escalation),
  ties the places of the loop to the phase, and says what must have been
  recorded where the loop leaves. A quiet step (`QuietLife`) is a stutter of the
  abstract specification; `CreateMission`, `EnterImplement`, `Escalate`,
  `GateDone` and `LeaveMission` are its five kinds of step.

The rest of MissionLifecycleProofs rests on these invariants (`Base`, with `Mirror`:
memory is disk but for an escalation that is not saved yet). Where a fault breaks
a property the theorem excludes that fault, and holds for all the others together.

* `LockedWasPassed`: `LockedPlanWasPassed`, without `editplan`. `PlanInv` says that a
  review and its verdict are about the text on disk, that the text to be locked is
  the one that was passed, and that from the lock to the next pass the frozen text
  stays that one. A crash needs no exception: `passed`, like the files, outlives it.
* `ModeOfPhase`: a turn runs in its phase's mode (`TurnMode`), under every fault.
  `ContextOfPhase`: `TurnContext`, without `crash` and `rename`, each of which can
  leave a charter on disk, and so on the carry, of a mission in its design phase.
* `ReviewComesFirst`, `PlansAreRead`: `OwedReviewComesFirst` and `NoPlanFailsUnread`,
  without `crash` (with it the second is violated, `mission_unread`). `OwedInv` says
  that a plan no verdict has seen is remembered by the pending mark wherever its
  review is not under way.
* `BudgetsHold`: `Budgets`, under every fault, from `CapsHold` and `TurnsBounded`
  (`TurnBudget`). For the turns the counters of `state.json` are read as a ledger:
  `Paid` is what they have paid for, counted from the first design round through
  the phases of each escalation, which follow one another without a gap (`Bases`).
  `TurnInv` says, place by place, that the turns of this run never exceed `Paid`,
  but for the turn the gate has not charged yet; a pending mark (`Owes`) is a turn
  that an earlier run paid for and the user's amendment may use once. The cap of
  every counter then bounds the sum.
* `VerdictsFit`: `VerdictsBounded`, without `rmplan`. `JudgedInv` says that a pending
  mark stands for a plan on disk and for a round that has had no verdict, so a
  design phase has at most as many verdicts as rounds. With `rmplan` that is false,
  as section 3 says.

The agent run (AgentRunProofs). `RunInv` says where a batch stands: what has been
executed, admitted, refused and booked at each place of the loop.

* `UnsafeInOrder`: calls split into segments that are intervals of the batch, and
  only safe calls share one; hence an unsafe call neither overlaps nor overtakes
  a neighbour.
* `AllResultsBooked`: however a run ends short of being abandoned, the tokens and
  files of every executed call are recorded.
* `CapsKept`: a serial batch is admitted call by call, a parallel one as a whole;
  that the second fits is a counting argument (`Cardinality` of what is admitted
  plus what was used), which the module states as a lemma.
* `CallsStayPaired`: `PairedUnlessCut`. `MessageInv` describes the whole history: a
  result stands behind its message (`Backward`), the results of a message are the
  interval right behind it, in call order, perhaps without the last (`InOrder`), the
  message under way is the one `history` ends with the results of (`Open`), and all
  earlier ones are answered unless a batch was cut. What appends a row of results at
  once (a refusal, a parallel batch) is treated by lemmas about sequences built by
  `[i \in 1..n |-> ...]`, so no induction over them is needed; `Continue`'s repair
  is shown to pair what it keeps.
* `RunTypes`: the type invariant, `MessageInv` included.

The bridge (ServiceProofs, its last part). `BridgeInv` says what a job's two files, its entry
in memory and its history tell of each other, window by window between the
writes. `NeverReplayed` and `UnknownIsWaitedFor` follow, for any number of panels,
jobs and restarts.

The other services (ServiceProofs).

* `TrailHolds`: `ReviewTrail`, from two invariants. `AnnouncedInv` holds in every cycle
  and whatever writes fail: the marker of the round, in memory and on disk, is set
  only when the round has a comment (`Marked`), and comments do not go away
  (`AnnouncedStays`). `TrailInv` speaks of cycles without a failed write and ties the
  place and the status of the loop to the newest logged verdict: one verdict per
  round with at most one comment (`OnePerRound`), the marker says it was told
  (`MarkerTells`), and the loop reviews only what has no verdict and works only on
  the logged one (`VerdictAtHand`); what a re-attachment breaks is asked of the first
  cycle only (`Fits`, `Told`).
* `MergedIsVetted`: `VettedInv` says what each status of the loop vouches for
  about the head of the branch, in memory and on disk.
* `FlushWins`, `CoalescingKeepsNewest`: `QueueInv` says that a captured version is
  never ahead, that an outdated update's version is old or will be, that an
  extraction and a flush of one scope exclude each other, and that a job that is
  not the newest has a newer one or a flush behind it.
* `TasksEndAsTold`: `PoolInv` ties a task's phase to its context and its events.
* `ServicesTypes`: the types of the bridge, the queue and the pool, in the
  composition that is run; those of the PR loop are part of `TrailInv`.

The event bus (EventBusProofs). `BusInv` has four parts: the events are numbered
without a hole (`Numbers`); the ring's slots hold the last of them, in the order
`Ordered` reads (`RingShape`); a backlog and a channel continue what the client
has seen (`ClientShape`, `QueueNext`); and in every queued event a seq and a place
in the stream belong together on one bus, so that a cursor from an older bus matches nothing of this one
(`EventsReal`, `Coherent`).

* `RingHoldsTail`, `QueuesContinue`, `BusTypes` follow from it.
* `BusImplementsFeed`: `Spec => FeedSpec`. A step that hands a client
  an event is a `Deliver` of the abstract specification, taking a cursor from
  `last_seq` or from nothing a `Resync`, every other step a `Publish`, a `Tell` of those it cuts off, or a
  stutter.

The manager (BotManagerProofs). `BotInv` holds with and without the janitor, for
any number of objects: a turn stands on the object its request holds and on no
other (`TurnHeld`), the last event on a bus is the running turn's or an end
(`Brackets`), a question that is registered has an empty channel (`Questions`),
and after the map was taken in time no admitted request is out (`ClosePlace`).
`BotTypes`, `AnswersFit`, `EventsBracketed` and `CloseLeavesNone` (a Close that
returned in time leaves no turn; proved, and in no run) follow. Without
the janitor `LoneInv` adds that the session is loaded once (`OneObject`: the map
loses it only when the store has or the bot is closed), that the conversation on
it is open and in no delete's hands (`ConvHeld`), that a request which has not
begun has opened none (`ConvFresh`), and that a turn runs on it (`ConvRun`). Then
`OneTurn` and `TurnSafe` (from `LockHeld` and `NotClosedUnder`; a stored session's
lock is meant, since the store's delete takes the lock row along) hold for any number
of sends and deletes; with the janitor the first does not, which is a finding.

The session lock (SessionLockProofs). `LockInv` is a conjunction per process: what
has not started or has ended knows nothing (`Blank`); what it names follows from
where its switch stands, and is never a session it left (`Knows`); its row is its
own unless it was taken (`Rows`); a refresh misses only a row that was taken or
released by a switch, and reports only one that was taken (`BeatTells`); a process
that was told of the session it works on suspends its writes (`Suspends`); and a
title that passed its first check after a report about its session belongs to one
the process has left (`TitleTells`). The steps
of one process keep its own part (`Keeps`), and those of the others keep it
because they reach it only through the store (`OthersKeep`). `LockTypes`,
`BeliefsStand` and `ToldStaysSilent` follow, for any number of processes, machines,
sessions and refreshing goroutines. `SessionsTypes` joins the types of the lock and of
the manager.

Every safety property of a passing run is a theorem. Only model-checked is
what lies out of the prover's reach: liveness under fairness, which needs ENABLED
(`LoopEnds`, `CatchesUp`, `CloseReturns`, `QuestionsReturn`, `RunEnds`,
`PRLoopEnds`). What the theorems exclude beyond the runs is named in them: faults
of the mission, `Git = FALSE` for `DoneIsReviewed`, the janitor for `OneTurn` and
`TurnSafe`.

## 5. Not modelled, and abstractions to know about

* Failing writes of `state.json` and of the baseline (the code logs or ignores
  them and goes on), a torn `state.json`, and a file that was dirty at the
  baseline and later restored to HEAD, which drops out of the status listing.
* `TurnContext` is checked without faults. With crashes it fails in one window: a
  crash after `lockCharter` and before the phase is saved leaves a charter that
  the restart puts on the carry of a mission still in its design phase.
* Reviewers' and models' judgement; message texts; titles, usage, the turn
  journal and the all-sessions bus of the bot; subscribing on a bus that is
  being unloaded; authentication and wire formats.
* Files that `isScopeExempt` names (.deepai/, go.sum, go.work.sum, *.lock) and the
  charter does not cover are in no review by design
  (src/pkg/chat/mission_implement.go:486-505, 649-650); the model follows, so `done`
  says nothing about them.
* `BotManager` sees the session lock as one variable that changes hands only when
  free; takeovers are in `SessionLock`, which is the REPL's side. The bot only logs
  a refresh that finds its row gone (src/pkg/bot/manager.go:610) and goes on.
* Of the REPL's lock: a slow owner writes until its next refresh tells it, which
  the code accepts. Races that the model shows and no property excludes: a report
  that passed its second look just before `/new` names the new session, and is
  applied after `/new` cleared the state, suspends the new session although
  nobody took it; a title goroutine, which the exit does not join, may write
  after the exit released the row; `deleteOrphanedSession` may delete a session
  that a `-c` of another process has locked between its creation and the refusal.
* Store errors other than a busy refresh, and a refusal of a new session's lock,
  end the operation they hit; that a delete of an orphan fails too is left out.
* Hazards that were seen and that no property covers: a crash between the save
  that retires a pending review and the action on its verdict
  (src/pkg/chat/mission_design.go:172), `Store.Delete` failing after the
  conversation was taken off the session (src/pkg/bot/manager.go:265: it is then
  never closed), and Close's ctx ending while turns still run
  (src/pkg/bot/manager.go:480: their conversations are closed under them, which
  the properties of Close exclude by `expired`).
* The bridge does not retarget jobs to another file, prune runs, or serve panels
  of the old protocol, and its panels are open one after the other, which bounds the
  states: src/pkg/figmabridge/bridge.go:499-514 lets any number poll. The PR loop
  leaves out other people's comments and what a diff contains: a review reads the
  pull request or the local commits. The queue's documents are version numbers; what an
  extraction makes of a conversation is not in the model. The agent run leaves
  out skills, todos, plan mode and streaming inside a request.
* The components with status `not_modelled` in `PROJECT.json`, each with its
  reason.

## 6. Plan

What is left, in this order:

1. `BotManager` over `SessionLock` instead of its one lock variable, with the
   bot's refresh and what it does when its row is gone.
2. MCP clients: request ids, timeouts and reconnects, with a late answer to a
   request that was given up.
3. Pure operators: message-window trimming (calls and results stay paired)
   against a reference definition over bounded inputs.
4. Proofs: liveness measures as action properties (a variant of the loop that every
   step decreases), and the composition of item 1.
