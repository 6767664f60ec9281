------------------------------ MODULE AgentRun ------------------------------
(***************************************************************************)
(* One conversation's agent runs (pkg/agent): the request loop of Run, the *)
(* serial and the parallel execution of a batch of tool calls, the tool    *)
(* call breaker that the session carries from run to run, the two wrap-ups *)
(* (tool budget, wall clock), and cancellation at any point.  Between runs *)
(* the caller (REPL or bot) keeps the messages of the finished run,        *)
(* whether it ended well or not, and appends the user's next line.         *)
(*                                                                         *)
(* A message is its role and, for an assistant message, the number of tool *)
(* calls in it; the call at place j of the message at place k is <<k, j>>, *)
(* and a tool message names the call it answers.  "big" marks a content    *)
(* that compaction still can shrink.  What a tool does is its outcome.     *)
(***************************************************************************)
EXTENDS Naturals, Sequences, FiniteSets

CONSTANTS
  Tools,            \* tool names; "task" starts a subagent
  SafeTools,        \* tools whose handler is ParallelSafe
  Args,             \* arguments a call may have
  Batches,          \* bound: the batches of calls a model may ask for
  Limit,            \* maxToolConcurrency
  MaxToolCalls,     \* AgentConfig.MaxToolCalls, 0 for unlimited
  TokenBudget,      \* AgentConfig.MaxTokensBudget, 0 for none
  HasDeadline,      \* the run's context has a deadline
  KeepTail,         \* compactionKeepTail
  MaxTaskCalls,     \* maxTaskCallsPerRun
  Repeat,           \* the breaker's thresholds
  Outcome,          \* bound: what each tool's calls may come to
  MaxRuns           \* bound: runs of the conversation

RepeatLimits ==
  [calls : Nat \ {0}, fails : Nat \ {0}, cumulative : Nat \ {0}, total : Nat \ {0},
   sameHint : Nat \ {0}, same : Nat \ {0}, retries : Nat \ {0}, invalid : Nat \ {0}]

Call == [tool : Tools, args : Args]

ASSUME RunAssumption ==
  /\ SafeTools \subseteq Tools
  /\ Batches \subseteq Seq(Call) \ {<<>>}
  /\ Limit \in Nat \ {0} /\ KeepTail \in Nat
  /\ MaxToolCalls \in Nat /\ TokenBudget \in Nat /\ MaxTaskCalls \in Nat
  /\ HasDeadline \in BOOLEAN
  /\ Repeat \in RepeatLimits
  /\ Outcome \in [Tools -> SUBSET {"ok", "failed", "invalid"}]
  /\ MaxRuns \in Nat

VARIABLES
  pc,        \* "idle" between runs, else where Run stands
  ctx,       \* the run's context: live, canceled, expired
  hist,      \* runMessages; between runs the session's messages
  start,     \* number of messages the current run started from
  calls,     \* the batch under way
  at,        \* serial: the call; fan: first call of the segment; observe: the result
  exec,      \* per call of the batch: queued, running, done
  res,       \* per call: its outcome
  over,      \* per call: refused by the task cap
  clean,     \* batchClean
  pending,   \* number of pendingHints
  wrap,      \* woundDownReason, "no" while wrapUp is FALSE
  executed,  \* toolCallsExecuted
  tasks,     \* taskCallCount
  spent,     \* usage.TotalTokens
  breaker,   \* the toolCallBreaker on the SessionCarry
  unbooked,  \* history: executed calls whose usage and edit are not recorded
  ran,       \* history: task calls executed in this run
  cut,       \* history: a run ended by its context inside a serial batch
  orphaned,  \* history: the last run was abandoned, not waited for
  runs       \* bounds the runs

batch   == <<calls, at, exec, res, over, clean, pending>>
counts  == <<executed, tasks, spent>>
history == <<ran, cut, orphaned, runs>>
vars    == <<pc, ctx, hist, start, batch, wrap, counts, breaker, unbooked, history>>

PCs      == {"idle", "top", "request", "serial", "fan", "observe"}
Failures == {"failed", "invalid", "refused"}   \* "refused" was not executed

Messages ==
  [role : {"human", "ai", "tool", "hint"}, n : Nat, call : Nat \X Nat, big : BOOLEAN]

Human     == [role |-> "human", n |-> 0, call |-> <<0, 0>>, big |-> FALSE]
Hint      == [role |-> "hint", n |-> 0, call |-> <<0, 0>>, big |-> FALSE]
Reply(n)  == [role |-> "ai", n |-> n, call |-> <<0, 0>>, big |-> FALSE]
Result(k, j, big) == [role |-> "tool", n |-> 0, call |-> <<k, j>>, big |-> big]

----------------------------------------------------------------------------
(* The breaker *)

NoCall == [tool |-> "", args |-> 0]

NewBreaker ==
  [prev |-> NoCall, same |-> 0, fails |-> 0, totals |-> [c \in Call |-> 0],
   failures |-> [p \in Tools \X Failures |-> 0], invalid |-> [t \in Tools |-> 0], row |-> 0]

\* observeSameFailure's counter: the tool and the failure, whatever the arguments.
CountFailure(b, c, r) == IF r = "ok" THEN b ELSE [b EXCEPT !.failures[<<c.tool, r>>] = @ + 1]

\* The counters of identical calls, consecutive ones and all of them.
CountRepeat(b, c, r) ==
  [b EXCEPT !.prev = c,
            !.same = IF b.prev = c THEN @ + 1 ELSE 1,
            !.fails = IF r = "ok" THEN 0 ELSE IF b.prev = c THEN @ + 1 ELSE 1]

CountInvalid(b, c, r) ==
  IF r # "invalid" THEN [b EXCEPT !.invalid[c.tool] = 0]
  ELSE [b EXCEPT !.row = @ + 1,
                 !.invalid[c.tool] = IF @ + 1 >= Repeat.retries THEN 0 ELSE @ + 1]

\* The messages observe asks for, b being the counters after this result.
HintsDue(b, c, r) ==
  {h \in {"cycle", "failure", "repeat", "arguments"} :
     \/ h = "cycle" /\ b.totals[c] % Repeat.cumulative = 0 /\ b.totals[c] > b.same
     \/ h = "failure" /\ r # "ok" /\ b.failures[<<c.tool, r>>] = Repeat.sameHint
     \/ h = "repeat" /\ b.same = Repeat.calls
     \/ h = "arguments" /\ r = "invalid" /\ b.invalid[c.tool] = 0}

\* observe: the new counters, the hints, and whether the run has to stop; the
\* early returns leave the later counters as they were.
Observe(b, c, r) ==
  LET b1 == CountRepeat(b, c, r)
      b2 == [b1 EXCEPT !.totals[c] = @ + 1]
      b3 == CountFailure(b2, c, r)
      b4 == CountInvalid(b3, c, r)
      Fatal(x) == [breaker |-> x, hints |-> 0, fatal |-> TRUE]
  IN CASE b1.fails >= Repeat.fails -> Fatal(b1)
       [] b1.fails < Repeat.fails /\ b2.totals[c] >= Repeat.total -> Fatal(b2)
       [] b1.fails < Repeat.fails /\ b2.totals[c] < Repeat.total /\ r # "ok"
          /\ b3.failures[<<c.tool, r>>] >= Repeat.same -> Fatal(b3)
       [] OTHER -> [breaker |-> b4, hints |-> Cardinality(HintsDue(b4, c, r)),
                    fatal |-> r = "invalid" /\ b4.row >= Repeat.invalid]

----------------------------------------------------------------------------
(* Compaction and repair of the history *)

\* Where compactMessages lets the tail start: never on a tool result, whose
\* assistant message would be left in the compacted part.
TailStart(h, tail) ==
  LET last  == IF Len(h) - tail < 2 THEN 3 ELSE Len(h) - tail + 1
      heads == {i \in 2..last : i = 2 \/ h[i].role # "tool"}
  IN CHOOSE i \in heads : \A j \in heads : j <= i

\* compactMessages: the messages between the first human one and the tail are
\* rewritten; their number, roles and calls stay.
Compacted(h, tail) ==
  IF Len(h) <= tail + 2 THEN h
  ELSE [i \in DOMAIN h |-> IF 1 < i /\ i < TailStart(h, tail)
                           THEN [h[i] EXCEPT !.big = FALSE] ELSE h[i]]

\* Mutant: a tail counts although its estimate does not drop.
AnyTail(h) == {tail \in {KeepTail, 4, 2} : Len(h) > tail + 2}

\* The tails for which compactOnOverflow's estimate drops.
Shrinking(h) == {tail \in {KeepTail, 4, 2} : Compacted(h, tail) # h}

\* compactOnOverflow: it tries KeepTail, then 4, then 2.
Shrunk(h) ==
  Compacted(h, CASE KeepTail \in Shrinking(h) -> KeepTail
                 [] KeepTail \notin Shrinking(h) /\ 4 \in Shrinking(h) -> 4
                 [] OTHER -> 2)

\* Results that answer the assistant message at place k.
Answered(k) == Cardinality({i \in DOMAIN hist : hist[i].role = "tool" /\ hist[i].call[1] = k})

\* Mutant: only messages without any result are repaired.
KeepPartial == hist

\* filterUnresolvedToolUses, for histories whose assistant messages all have a
\* result: calls without one are struck from the message.
Resolved ==
  [i \in DOMAIN hist |-> IF hist[i].role = "ai" THEN [hist[i] EXCEPT !.n = Answered(i)] ELSE hist[i]]

----------------------------------------------------------------------------
(* Starting and ending a run *)

\* Mutant: the states of the batch's calls are kept.
NoBatchKept ==
  /\ calls' = <<>> /\ at' = 0 /\ clean' = TRUE /\ pending' = 0
  /\ UNCHANGED <<exec, res, over>>

\* The batch's state is that of one turn of the loop.
NoBatch ==
  /\ calls' = <<>> /\ at' = 0 /\ exec' = <<>> /\ res' = <<>> /\ over' = <<>>
  /\ clean' = TRUE /\ pending' = 0

StartRun(messages) ==
  /\ pc = "idle" /\ runs < MaxRuns
  /\ pc' = "top" /\ ctx' = "live" /\ wrap' = "no"
  /\ hist' = Append(messages, Human) /\ start' = Len(messages) + 1
  /\ executed' = 0 /\ tasks' = 0 /\ spent' = 0 /\ ran' = 0
  /\ unbooked' = {} /\ orphaned' = FALSE /\ runs' = runs + 1
  /\ UNCHANGED <<batch, breaker>>

\* The user's next line.
SendLine == StartRun(hist) /\ UNCHANGED cut

\* "continue": the history is repaired first (continueTurn).
Continue == hist # <<>> /\ StartRun(Resolved) /\ cut' = FALSE

\* The context of the run ends at any moment.
Cancel ==
  /\ pc # "idle" /\ ctx = "live" /\ ctx' = "canceled"
  /\ UNCHANGED <<pc, hist, start, batch, wrap, counts, breaker, unbooked, history>>

Expire ==
  /\ HasDeadline /\ pc # "idle" /\ ctx = "live" /\ ctx' = "expired"
  /\ UNCHANGED <<pc, hist, start, batch, wrap, counts, breaker, unbooked, history>>

\* A tool ignores its context: after orphanWait the caller goes on with the
\* messages it had and a new carry; what the goroutine still does is lost.
Abandon ==
  /\ pc \in {"serial", "fan"} /\ ctx # "live" /\ \E i \in DOMAIN exec : exec[i] = "running"
  /\ pc' = "idle" /\ hist' = SubSeq(hist, 1, start) /\ breaker' = NewBreaker
  /\ orphaned' = TRUE /\ NoBatch
  /\ UNCHANGED <<ctx, start, wrap, counts, unbooked, ran, cut, runs>>

----------------------------------------------------------------------------
(* One turn of the loop: the wrap-up triggers, then the request *)

\* Mutant: the cap trips one call late.
SpentToolsLate == MaxToolCalls > 0 /\ executed > MaxToolCalls

ToolsSpent == MaxToolCalls > 0 /\ executed >= MaxToolCalls

\* The wall clock comes first; "near" is what the turns' pace makes of it.
Top ==
  /\ pc = "top"
  /\ \E near \in BOOLEAN :
       wrap' = CASE wrap = "no" /\ ctx = "live" /\ HasDeadline /\ near -> "deadline"
                 [] wrap = "no" /\ ~(ctx = "live" /\ HasDeadline /\ near) /\ ToolsSpent -> "tools"
                 [] OTHER -> wrap
  /\ pc' = IF TokenBudget > 0 /\ spent >= TokenBudget THEN "idle" ELSE "request"
  /\ UNCHANGED <<ctx, hist, start, batch, counts, breaker, unbooked, history>>

\* The provider fails, the stream stalls, or the context has ended meanwhile.
RequestFails ==
  /\ pc = "request" /\ pc' = "idle"
  /\ UNCHANGED <<ctx, hist, start, batch, wrap, counts, breaker, unbooked, history>>

\* The provider rejects the request as too long: compact and retry, or fail.
RequestOverflows ==
  /\ pc = "request"
  /\ IF Shrinking(hist) # {} THEN hist' = Shrunk(hist) /\ pc' = "top"
                             ELSE pc' = "idle" /\ UNCHANGED hist
  /\ UNCHANGED <<ctx, start, batch, wrap, counts, breaker, unbooked, history>>

\* The answer arrived and the context still lets the run use it: the wrap-up
\* request of the wall clock outlives the deadline, never a cancellation.
Usable == pc = "request" /\ (ctx = "live" \/ (wrap = "deadline" /\ ctx = "expired"))

Said(text) == IF text THEN Append(hist, Reply(0)) ELSE hist

\* No tool calls: the run ends, well if there is text.
FinalAnswer ==
  /\ Usable /\ pc' = "idle" /\ spent' = spent + 1
  /\ \E text \in BOOLEAN : hist' = Said(text)
  /\ UNCHANGED <<ctx, start, batch, wrap, executed, tasks, breaker, unbooked, history>>

\* The same with the stop reason of an input overflow: compact and go on.
OverflowStop ==
  /\ Usable /\ pc' = "top" /\ spent' = spent + 1
  /\ \E text \in BOOLEAN : Shrinking(Said(text)) # {} /\ hist' = Shrunk(Said(text))
  /\ UNCHANGED <<ctx, start, batch, wrap, executed, tasks, breaker, unbooked, history>>

\* appendSynthesizedRefusals for the calls first..Len(b) of the message at k.
Refusals(k, first, b) == [i \in 1..(Len(b) - first + 1) |-> Result(k, first + i - 1, FALSE)]

\* Tool calls although the wrap-up offered none: refused, and the run ends.
RefuseCalls(b) ==
  /\ Usable /\ wrap # "no" /\ pc' = "idle" /\ spent' = spent + 1
  /\ hist' = Append(hist, Reply(Len(b))) \o Refusals(Len(hist) + 1, 1, b)
  /\ UNCHANGED <<ctx, start, batch, wrap, executed, tasks, breaker, unbooked, history>>

----------------------------------------------------------------------------
(* A batch of tool calls *)

Safe(b, i) == b[i].tool \in SafeTools

\* Some segment has two parallel calls.
HasParallelRun(b) == \E i \in 1..(Len(b) - 1) : Safe(b, i) /\ Safe(b, i + 1)

\* Mutant: a call joins the segment before it without being safe itself.
SegmentUnchecked(b, i) == IF Safe(b, i) THEN i..Len(b) ELSE {i}

\* partitionToolCalls: the segment that starts at i.
Segment(b, i) ==
  IF Safe(b, i) THEN {j \in i..Len(b) : \A m \in i..j : Safe(b, m)} ELSE {i}

TasksUpTo(b, i) == Cardinality({j \in 1..i : b[j].tool = "task"})

\* Mutant: the cap is compared before the call is counted.
CountedLate(b, i) == b[i].tool = "task" /\ tasks + TasksUpTo(b, i) > MaxTaskCalls + 1

\* taskCallOverCap, for the batch's i-th call from tasks on.
OverCap(b, i) == b[i].tool = "task" /\ tasks + TasksUpTo(b, i) > MaxTaskCalls

\* Refused calls of a segment are resolved inline, never behind the semaphore.
Enter(states, refused, seg) ==
  [i \in DOMAIN states |-> IF i \in seg /\ refused[i] THEN "done" ELSE states[i]]

Dispatch(b) ==
  /\ Usable /\ wrap = "no"
  /\ hist' = Append(hist, Reply(Len(b))) /\ spent' = spent + 1
  /\ calls' = b /\ at' = 1 /\ clean' = TRUE /\ pending' = 0
  /\ UNCHANGED <<ctx, start, wrap, breaker, unbooked, history>>

\* Every segment is a single call: the batch runs serially.
DispatchSerial(b) ==
  /\ Dispatch(b) /\ ~HasParallelRun(b) /\ pc' = "serial"
  /\ exec' = [i \in DOMAIN b |-> "queued"] /\ res' = [i \in DOMAIN b |-> "none"]
  /\ over' = [i \in DOMAIN b |-> FALSE]
  /\ UNCHANGED <<executed, tasks>>

\* Admission is decided for the whole batch before anything runs.
DispatchFan(b) ==
  /\ Dispatch(b) /\ HasParallelRun(b) /\ pc' = "fan"
  /\ over' = [i \in DOMAIN b |-> OverCap(b, i)]
  /\ res' = [i \in DOMAIN b |-> IF OverCap(b, i) THEN "refused" ELSE "none"]
  /\ exec' = Enter([i \in DOMAIN b |-> "queued"], over', Segment(b, 1))
  /\ tasks' = tasks + TasksUpTo(b, Len(b))
  /\ executed' = executed + Cardinality({i \in DOMAIN b : ~over'[i]})

Running == {i \in DOMAIN exec : exec[i] = "running"}

\* A goroutine gets the semaphore (or the lone call of its segment starts).
FanStart(i) ==
  /\ pc = "fan" /\ i \in Segment(calls, at) /\ exec[i] = "queued"
  /\ Cardinality(Running) < Limit
  /\ exec' = [exec EXCEPT ![i] = "running"]
  /\ ran' = IF calls[i].tool = "task" THEN ran + 1 ELSE ran
  /\ UNCHANGED <<pc, ctx, hist, start, calls, at, res, over, clean, pending, wrap, counts,
                 breaker, unbooked, cut, orphaned, runs>>

\* runOneTool returns; a canceled context may fail the tool or come too late.
ToolReturns(i) ==
  /\ pc \in {"fan", "serial"} /\ i \in Running
  /\ exec' = [exec EXCEPT ![i] = "done"]
  /\ \E r \in Outcome[calls[i].tool] : res' = [res EXCEPT ![i] = r]
  /\ unbooked' = unbooked \cup {i}
  /\ UNCHANGED <<pc, ctx, hist, start, calls, at, over, clean, pending, wrap, counts,
                 breaker, history>>

\* wg.Wait: the next segment, or the bookkeeping of the results.
SegmentDone ==
  /\ pc = "fan" /\ \A i \in Segment(calls, at) : exec[i] = "done"
  /\ LET next == at + Cardinality(Segment(calls, at))
     IN IF next > Len(calls)
        THEN pc' = "observe" /\ at' = 1 /\ UNCHANGED exec
        ELSE at' = next /\ exec' = Enter(exec, over, Segment(calls, next)) /\ UNCHANGED pc
  /\ UNCHANGED <<ctx, hist, start, calls, res, over, clean, pending, wrap, counts, breaker,
                 unbooked, history>>

\* The serial path starts its next call, or refuses it.
SerialStart ==
  /\ pc = "serial" /\ exec[at] = "queued"
  /\ tasks' = IF calls[at].tool = "task" THEN tasks + 1 ELSE tasks
  /\ IF calls[at].tool = "task" /\ tasks + 1 > MaxTaskCalls
     THEN /\ exec' = [exec EXCEPT ![at] = "done"] /\ res' = [res EXCEPT ![at] = "refused"]
          /\ UNCHANGED <<executed, ran>>
     ELSE /\ exec' = [exec EXCEPT ![at] = "running"] /\ executed' = executed + 1
          /\ ran' = IF calls[at].tool = "task" THEN ran + 1 ELSE ran
          /\ UNCHANGED res
  /\ UNCHANGED <<pc, ctx, hist, start, calls, at, over, clean, pending, wrap, spent, breaker,
                 unbooked, cut, orphaned, runs>>

----------------------------------------------------------------------------
(* The bookkeeping of a batch: toolBatchState *)

\* The assistant message of the batch; results 1..(at - 1) follow it.
Turn == Len(hist) - (at - 1)

\* The messages of the results first..last.
Results(first, last) ==
  [i \in 1..(last - first + 1) |-> Result(Turn, first + i - 1, res[first + i - 1] = "ok")]

\* Subagent tokens that the results of the calls in s bring in.
SubagentTokens(s) == Cardinality({i \in s : calls[i].tool = "task" /\ res[i] # "refused"})

Seen == Observe(breaker, calls[at], res[at])

\* handleResult: skill and todo effects, usage, edited file, breaker.
Booked(s) == spent' = spent + SubagentTokens(s) /\ unbooked' = unbooked \ s

Hints(n) == [i \in 1..n |-> Hint]

\* Mutant: a hint is appended with the result that asked for it.
HintsAtOnce == <<Results(at, at) \o Hints(Seen.hints), 0>>

\* The result's message, and the hints that wait for the end of the batch.
ResultAndHints == <<Results(at, at), pending + Seen.hints>>

\* Not the last result: the next one.
NextResult ==
  /\ at < Len(calls) /\ ~Seen.fatal
  /\ hist' = hist \o ResultAndHints[1] /\ pending' = ResultAndHints[2]
  /\ clean' = (clean /\ res[at] # "invalid") /\ breaker' = Seen.breaker
  /\ Booked({at}) /\ at' = at + 1
  /\ UNCHANGED <<ctx, start, calls, exec, res, over, wrap, executed, tasks, history>>

\* finishBatch: the hints, and the reset of the row of invalid calls.
LastResult ==
  /\ at = Len(calls) /\ ~Seen.fatal
  /\ hist' = hist \o Results(at, at) \o Hints(pending + Seen.hints)
  /\ breaker' = IF clean /\ res[at] # "invalid" THEN [Seen.breaker EXCEPT !.row = 0]
                ELSE Seen.breaker
  /\ Booked({at}) /\ NoBatch
  /\ UNCHANGED <<ctx, start, wrap, executed, tasks, history>>

\* Mutant: the results behind a fatal one are appended and nothing else.
BookNone == {at}

\* appendRemaining books the rest of the batch too.
BookRest == at..Len(calls)

\* The breaker stops the run; the results of the whole batch are there.
FanFatal ==
  /\ pc = "observe" /\ Seen.fatal /\ pc' = "idle"
  /\ hist' = hist \o Results(at, Len(calls)) \o Hints(pending + Seen.hints)
  /\ breaker' = Seen.breaker /\ Booked(BookRest) /\ NoBatch
  /\ UNCHANGED <<ctx, start, wrap, executed, tasks, history>>

ObserveNext == pc = "observe" /\ NextResult /\ UNCHANGED pc

ObserveLast ==
  /\ pc = "observe" /\ LastResult
  /\ pc' = IF ctx = "live" THEN "top" ELSE "idle"

\* Mutant: a fatal result leaves the calls behind it without a result.
NoRefusals == <<>>

\* appendSynthesizedFailures
RestRefused == Refusals(Turn, at + 1, calls)

SerialFatal ==
  /\ pc = "serial" /\ exec[at] = "done" /\ Seen.fatal /\ pc' = "idle"
  /\ hist' = hist \o Results(at, at) \o RestRefused \o Hints(pending + Seen.hints)
  /\ breaker' = Seen.breaker /\ Booked({at}) /\ NoBatch
  /\ UNCHANGED <<ctx, start, wrap, executed, tasks, history>>

\* The context ended: the hints are flushed and the run returns, with the
\* calls behind this one unanswered.
SerialCut ==
  /\ pc = "serial" /\ exec[at] = "done" /\ ~Seen.fatal /\ ctx # "live" /\ pc' = "idle"
  /\ hist' = hist \o Results(at, at) \o Hints(pending + Seen.hints)
  /\ breaker' = Seen.breaker /\ Booked({at}) /\ NoBatch
  /\ cut' = (cut \/ at < Len(calls))
  /\ UNCHANGED <<ctx, start, wrap, executed, tasks, ran, orphaned, runs>>

SerialNext ==
  /\ pc = "serial" /\ exec[at] = "done" /\ ctx = "live" /\ NextResult /\ UNCHANGED pc

SerialLast ==
  /\ pc = "serial" /\ exec[at] = "done" /\ ctx = "live" /\ LastResult /\ pc' = "top"

----------------------------------------------------------------------------
(* The specification *)

Init ==
  /\ pc = "idle" /\ ctx = "live" /\ hist = <<>> /\ start = 0
  /\ calls = <<>> /\ at = 0 /\ exec = <<>> /\ res = <<>> /\ over = <<>>
  /\ clean = TRUE /\ pending = 0
  /\ wrap = "no" /\ executed = 0 /\ tasks = 0 /\ spent = 0 /\ breaker = NewBreaker
  /\ unbooked = {} /\ ran = 0 /\ cut = FALSE /\ orphaned = FALSE /\ runs = 0

Requests ==
  \/ Top \/ RequestFails \/ RequestOverflows \/ FinalAnswer \/ OverflowStop
  \/ \E b \in Batches : RefuseCalls(b) \/ DispatchSerial(b) \/ DispatchFan(b)

Executes ==
  \/ \E i \in DOMAIN exec : FanStart(i) \/ ToolReturns(i)
  \/ SegmentDone \/ SerialStart

Books == FanFatal \/ ObserveNext \/ ObserveLast \/ SerialFatal \/ SerialCut \/ SerialNext \/ SerialLast

\* What the goroutine of Run does.
Run == Requests \/ Executes \/ Books

Next == SendLine \/ Continue \/ Cancel \/ Expire \/ Abandon \/ Run

Spec == Init /\ [][Next]_vars

\* Run's goroutine is scheduled, the provider's stream ends (the idle watchdog
\* sees to it) and a tool returns.  Nobody has to cancel, or to type.
FairSpec == Spec /\ WF_vars(Run)

----------------------------------------------------------------------------
(* Properties *)

TypeOK ==
  /\ pc \in PCs /\ ctx \in {"live", "canceled", "expired"}
  /\ hist \in Seq(Messages) /\ start \in Nat
  /\ calls \in Seq(Call) /\ at \in Nat
  /\ DOMAIN exec = DOMAIN calls /\ DOMAIN res = DOMAIN calls /\ DOMAIN over = DOMAIN calls
  /\ \A i \in DOMAIN calls :
       /\ exec[i] \in {"queued", "running", "done"}
       /\ res[i] \in Failures \cup {"none", "ok"} /\ over[i] \in BOOLEAN
  /\ clean \in BOOLEAN /\ pending \in Nat
  /\ wrap \in {"no", "tools", "deadline"}
  /\ executed \in Nat /\ tasks \in Nat /\ spent \in Nat
  /\ unbooked \in SUBSET Nat /\ ran \in Nat /\ cut \in BOOLEAN /\ orphaned \in BOOLEAN
  /\ runs \in Nat

\* Every call of the message at place k is answered by the messages right
\* behind it, in order: what a provider accepts.
Answers(h, k) ==
  \A j \in 1..h[k].n : /\ k + j <= Len(h)
                       /\ h[k + j].role = "tool" /\ h[k + j].call = <<k, j>>

Paired(h) == \A k \in DOMAIN h : h[k].role = "ai" => Answers(h, k)

\* The messages leave the run: they are sent, or kept by the caller.
Leaves == pc \in {"request", "idle"}

\* The documented invariant of Run, where it matters: every request has a
\* tool_result for each tool_use of an assistant message, and nothing between.
CallsPaired == pc = "request" => Paired(hist)

\* What holds of it: every way a batch ends keeps it, except a context that
\* ends inside a serial batch; and "continue" restores it after that.
PairedUnlessCut == Leaves /\ ~cut => Paired(hist)

\* Relative order is untouched: a call with an unsafe one on either side never
\* overlaps it and never overtakes it.
UnsafeOrder ==
  \A i, j \in DOMAIN exec :
    i < j /\ exec[j] # "queued" /\ ~(Safe(calls, i) /\ Safe(calls, j))
      => exec[i] = "done"

\* Every executed call's usage and edited file are recorded when the run ends:
\* the review gate and the token totals rest on them.
ResultsBooked == pc = "idle" /\ ~orphaned => unbooked = {}

\* The tool budget is overshot by at most the batch that reaches it.
ToolBudget ==
  MaxToolCalls > 0 => \/ executed < MaxToolCalls
                      \/ \E b \in Batches : executed < MaxToolCalls + Len(b)

\* A run starts at most maxTaskCallsPerRun subagents, whatever the batches.
TaskFanOut == ran <= MaxTaskCalls

\* Neither cap of a run is passed: not by a parallel batch, whose calls are
\* admitted before any of them runs, and not by refused calls.
RunCaps == ToolBudget /\ TaskFanOut

\* A run always comes to its end: the tool budget, the breaker (calls refused
\* by the task cap cost no budget) and the shrinking of every retry see to it.
RunEnds == pc # "idle" ~> pc = "idle"
=============================================================================
