--------------------------- MODULE AgentRunProofs ---------------------------
(***************************************************************************)
(* Proofs about AgentRun, for any tools, batches, limits and thresholds: a *)
(* batch keeps the order around its unsafe calls, neither cap of a run is  *)
(* passed, every executed call is booked, and every call is answered right *)
(* behind the message that asked for it.  RunInv says where a batch        *)
(* stands; MessageInv, on top of it, what the messages look like, whatever *)
(* the breaker has counted.                                                *)
(***************************************************************************)
EXTENDS AgentRun, SequenceTheorems, FiniteSetTheorems, TLAPS

Batching == pc \in {"serial", "fan", "observe"}

\* The calls under way and what is known of each.
BatchShape ==
  /\ calls \in Seq(Call)
  /\ Batching => calls \in Batches /\ at \in 1..Len(calls)
  /\ ~Batching => calls = <<>>
  /\ exec \in [1..Len(calls) -> {"queued", "running", "done"}]
  /\ over \in [1..Len(calls) -> BOOLEAN]

Counters == executed \in Nat /\ tasks \in Nat /\ ran \in Nat

\* The serial path is at one call; those before it are done.
SerialPlace ==
  pc = "serial" => \A i \in 1..Len(calls) : /\ i < at => exec[i] = "done"
                                            /\ i > at => exec[i] = "queued"

\* The parallel path is in one segment; its refused calls were resolved when
\* it was entered.
FanPlace ==
  pc = "fan" => \A i \in 1..Len(calls) :
    /\ i < at => exec[i] = "done"
    /\ i > at /\ i \notin Segment(calls, at) => exec[i] = "queued"
    /\ over[i] /\ i \in Segment(calls, at) => exec[i] = "done"

ObservePlace == pc = "observe" => \A i \in 1..Len(calls) : exec[i] = "done"

Place == SerialPlace /\ FanPlace /\ ObservePlace

\* Calls that are not booked are calls of the batch whose result is to come.
ToBook ==
  /\ pc = "serial" => unbooked \subseteq {at}
  /\ pc = "fan" => unbooked \subseteq 1..Len(calls)
  /\ pc = "observe" => unbooked \subseteq at..Len(calls)
  /\ pc \in {"top", "request"} => unbooked = {}
  /\ pc = "idle" /\ ~orphaned => unbooked = {}

\* Subagents that are admitted and will start.
Owed == {i \in 1..Len(calls) : /\ pc = "fan" /\ exec[i] = "queued"
                               /\ calls[i].tool = "task" /\ ~over[i]}

TasksCounted == ran + Cardinality(Owed) <= tasks /\ ran + Cardinality(Owed) <= MaxTaskCalls

\* Serial calls that may still be executed.
SerialLeft == IF exec[at] = "queued" THEN Len(calls) - at + 1 ELSE Len(calls) - at

BudgetLeft ==
  MaxToolCalls > 0 =>
    /\ pc = "request" /\ wrap = "no" => executed < MaxToolCalls
    /\ pc = "serial" => executed + SerialLeft < MaxToolCalls + Len(calls)

RunInv == BatchShape /\ Counters /\ Place /\ ToBook /\ TasksCounted /\ BudgetLeft /\ ToolBudget

----------------------------------------------------------------------------
(* Segments and the caps, for one batch *)

\* A segment is an interval, and one of several calls has only safe ones.
LEMMA SegmentInterval ==
  ASSUME NEW b \in Seq(Call), NEW i \in 1..Len(b)
  PROVE  /\ i \in Segment(b, i)
         /\ Segment(b, i) = i..(i + Cardinality(Segment(b, i)) - 1)
         /\ Cardinality(Segment(b, i)) \in Nat
         /\ Segment(b, i) \subseteq 1..Len(b)
         /\ \A j, m \in Segment(b, i) : j # m => Safe(b, j) /\ Safe(b, m)
<1> DEFINE S == Segment(b, i)
           c == Cardinality(S)
<1>1. Len(b) \in Nat /\ i \in Nat
  OBVIOUS
<1>2. i \in S /\ S \subseteq i..Len(b) /\ S \subseteq 1..Len(b)
  BY <1>1 DEF Segment
<1>3. \A j \in S : \A m \in i..j : m \in S
  BY <1>1 DEF Segment
<1>4. \A j, m \in S : j # m => Safe(b, j) /\ Safe(b, m)
  BY <1>1 DEF Segment
<1>5. IsFiniteSet(i..Len(b))
  BY <1>1, FS_Interval
<1>6. IsFiniteSet(S) /\ c \in Nat
  BY <1>2, <1>5, FS_Subset, FS_CardinalityType
<1> HIDE DEF S
<1>7. ASSUME NEW j \in S PROVE j \in i..(i + c - 1)
  <2>1. j \in i..Len(b)
    BY <1>2
  <2>2. i..j \subseteq S
    BY <1>3
  <2>3. Cardinality(i..j) = j - i + 1
    BY <2>1, <1>1, FS_Interval
  <2>4. Cardinality(i..j) <= c
    BY <2>2, <1>6, FS_Subset
  <2> QED
    BY <2>1, <2>3, <2>4, <1>1, <1>6
<1>8. IsFiniteSet(i..(i + c - 1)) /\ Cardinality(i..(i + c - 1)) = c
  <2>1. i + c - 1 \in Int /\ i \in Int
    BY <1>1, <1>6
  <2>2. PICK e \in Int : e = i + c - 1
    BY <2>1
  <2>3. IsFiniteSet(i..e) /\ Cardinality(i..e) = IF i > e THEN 0 ELSE e - i + 1
    BY <2>1, FS_Interval
  <2> QED
    BY <2>1, <2>2, <2>3, <1>6
<1>9. S = i..(i + c - 1)
  BY <1>7, <1>8, FS_Subset
<1> QED
  BY <1>1, <1>2, <1>4, <1>6, <1>9 DEF S

\* Things that have different numbers up to n are at most n.
LEMMA NumberedFit ==
  ASSUME NEW A, IsFiniteSet(A), NEW n \in Nat, NEW f \in [A -> 1..n],
         \A i, j \in A : i # j => f[i] # f[j]
  PROVE  Cardinality(A) <= n
<1>1. IsFiniteSet(1..n) /\ Cardinality(1..n) = n
  BY FS_Interval
<1>2. Cardinality(A) \in Nat
  BY FS_CardinalityType
<1> DEFINE N == 1..n
<1>3. ASSUME Cardinality(N) < Cardinality(A) PROVE FALSE
  <2>1. f \in [A -> N] /\ IsFiniteSet(N)
    BY <1>1
  <2> HIDE DEF N
  <2>2. \E x, y \in A : x # y /\ f[x] = f[y]
    BY <1>3, <2>1, FS_PigeonHole
  <2> QED
    BY <2>2
<1> QED
  BY <1>1, <1>2, <1>3

\* Calls of a batch that are over no cap: as many as the cap has left.
LEMMA AdmittedFit ==
  ASSUME NEW b \in Seq(Call), tasks \in Nat,
         NEW A \in SUBSET (1..Len(b)),
         \A i \in A : b[i].tool = "task" /\ ~OverCap(b, i)
  PROVE  /\ Cardinality(A) \in Nat
         /\ A # {} => tasks + Cardinality(A) <= MaxTaskCalls
         /\ Cardinality(A) <= TasksUpTo(b, Len(b))
         /\ TasksUpTo(b, Len(b)) \in Nat
<1> DEFINE T(i) == {j \in 1..i : b[j].tool = "task"}
<1>0. Len(b) \in Nat /\ MaxTaskCalls \in Nat
  BY RunAssumption
<1>1. \A i \in 0..Len(b) : IsFiniteSet(T(i)) /\ Cardinality(T(i)) \in Nat
  <2>1. TAKE i \in 0..Len(b)
  <2>2. IsFiniteSet(1..i)
    BY <1>0, FS_Interval
  <2> QED
    BY <2>2, FS_Subset, FS_CardinalityType
<1>2. \A i \in 1..Len(b) : TasksUpTo(b, i) = Cardinality(T(i))
  BY DEF TasksUpTo
<1>3. TasksUpTo(b, Len(b)) = Cardinality(T(Len(b))) /\ Len(b) \in 0..Len(b)
  BY <1>0 DEF TasksUpTo
<1>4. A \subseteq T(Len(b))
  BY <1>0
<1>5. IsFiniteSet(A) /\ Cardinality(A) \in Nat /\ Cardinality(A) <= Cardinality(T(Len(b)))
  BY <1>1, <1>3, <1>4, FS_Subset, FS_CardinalityType
<1>6. ASSUME A # {} PROVE tasks + Cardinality(A) <= MaxTaskCalls
  <2> DEFINE room == MaxTaskCalls - tasks
             rank == [i \in A |-> Cardinality(T(i))]
  <2>1. ASSUME NEW i \in A PROVE rank[i] \in 1..room
    <3>1. i \in T(i) /\ i \in 0..Len(b)
      BY <1>0
    <3>2. Cardinality(T(i)) \in Nat /\ Cardinality(T(i)) # 0
      BY <3>1, <1>1, FS_EmptySet
    <3>3. tasks + Cardinality(T(i)) <= MaxTaskCalls
      BY <1>2, <1>0, <3>2 DEF OverCap
    <3> QED
      BY <3>2, <3>3, <1>0
  <2>2. ASSUME NEW i \in A, NEW j \in A, i < j PROVE rank[i] < rank[j]
    <3>1. T(i) \in SUBSET T(j) /\ j \in T(j) /\ j \notin T(i) /\ i \in 0..Len(b) /\ j \in 0..Len(b)
      BY <2>2, <1>0
    <3>2. Cardinality(T(i)) <= Cardinality(T(j)) /\ Cardinality(T(i)) # Cardinality(T(j))
      BY <3>1, <1>1, FS_Subset
    <3>3. Cardinality(T(i)) \in Nat /\ Cardinality(T(j)) \in Nat
      BY <3>1, <1>1
    <3>4. rank[i] = Cardinality(T(i)) /\ rank[j] = Cardinality(T(j))
      OBVIOUS
    <3> QED
      BY <3>2, <3>3, <3>4
  <2>3. room \in Nat
    <3>1. PICK i \in A : TRUE
      BY <1>6
    <3>2. rank[i] \in 1..room
      BY <2>1
    <3> QED
      BY <3>2, <1>0
  <2>4. rank \in [A -> 1..room]
    BY <2>1
  <2> HIDE DEF rank
  <2>6. \A i, j \in A : i # j => rank[i] # rank[j]
    <3>1. TAKE i, j \in A
    <3>2. i \in Nat /\ j \in Nat /\ rank[i] \in Nat /\ rank[j] \in Nat
      BY <1>0, <2>4, <2>3
    <3> QED
      BY <3>2, <2>2
  <2>7. Cardinality(A) <= room
    <3> HIDE DEF room
    <3> QED
      BY <2>3, <2>4, <2>6, <1>5, NumberedFit
  <2> QED
    BY <2>7, <1>5, <1>0
<1> QED
  BY <1>1, <1>3, <1>5, <1>6

----------------------------------------------------------------------------
(* The invariant, outside a batch *)

\* No batch, or not the parallel path: no subagent is owed.
LEMMA NoneOwed == pc # "fan" => Owed = {} /\ Cardinality(Owed) = 0
  BY FS_EmptySet DEF Owed

LEMMA OwedFinite ==
  ASSUME BatchShape
  PROVE  IsFiniteSet(Owed) /\ Cardinality(Owed) \in Nat
<1>1. Len(calls) \in Nat
  BY DEF BatchShape
<1>2. IsFiniteSet(1..Len(calls)) /\ Owed \subseteq 1..Len(calls)
  BY <1>1, FS_Interval DEF Owed
<1> QED
  BY <1>2, FS_Subset, FS_CardinalityType

\* A function on no call is the empty sequence.
LEMMA EmptyBatch == ASSUME NEW S, NEW f \in [{} -> S] PROVE f = <<>>
  OBVIOUS

\* What is left of the invariant while no batch is under way.
Quiet ==
  /\ ~Batching
  /\ calls = <<>> /\ exec = <<>> /\ over = <<>>
  /\ Counters /\ ran <= tasks /\ ran <= MaxTaskCalls
  /\ pc \in {"top", "request"} => unbooked = {}
  /\ pc = "idle" /\ ~orphaned => unbooked = {}
  /\ MaxToolCalls > 0 /\ pc = "request" /\ wrap = "no" => executed < MaxToolCalls
  /\ ToolBudget

LEMMA QuietInv == Quiet <=> RunInv /\ ~Batching
<1>1. ASSUME Quiet PROVE RunInv
  <2>1. Len(calls) = 0 /\ calls \in Seq(Call) /\ 1..Len(calls) = {}
    BY <1>1 DEF Quiet
  <2>2. BatchShape
    BY <1>1, <2>1 DEF BatchShape, Quiet
  <2>3. pc # "fan" /\ pc # "serial" /\ pc # "observe"
    BY <1>1 DEF Quiet, Batching
  <2>4. Cardinality(Owed) = 0
    BY <2>3, NoneOwed
  <2>5. TasksCounted
    BY <1>1, <2>4, RunAssumption DEF TasksCounted, Quiet, Counters
  <2> QED
    BY <1>1, <2>2, <2>3, <2>5
    DEF RunInv, Quiet, Place, SerialPlace, FanPlace, ObservePlace, ToBook, BudgetLeft
<1>2. ASSUME RunInv, ~Batching PROVE Quiet
  <2>1. pc # "fan" /\ pc # "serial" /\ pc # "observe"
    BY <1>2 DEF Batching
  <2>2. Cardinality(Owed) = 0
    BY <2>1, NoneOwed
  <2>3. ran <= tasks /\ ran <= MaxTaskCalls
    BY <1>2, <2>2 DEF RunInv, TasksCounted, Counters
  <2>4. calls = <<>> /\ exec = <<>> /\ over = <<>>
    <3>1. calls = <<>>
      BY <1>2 DEF RunInv, BatchShape
    <3>2. 1..Len(calls) = {}
      BY <3>1
    <3> QED
      BY <1>2, <3>1, <3>2, EmptyBatch DEF RunInv, BatchShape
  <2> QED
    BY <1>2, <2>3, <2>4 DEF Quiet, RunInv, ToBook, BudgetLeft
<1> QED
  BY <1>1, <1>2 DEF Quiet

LEMMA RunInitInv == Init => RunInv
<1> SUFFICES ASSUME Init PROVE Quiet
  BY QuietInv
<1> QED
  BY RunAssumption DEF Init, Quiet, Batching, Counters, ToolBudget

\* Steps that neither begin nor end a batch, outside of one.
LEMMA OutsideStep ==
  ASSUME RunInv,
         \/ SendLine \/ Continue \/ Top \/ RequestFails \/ RequestOverflows
         \/ FinalAnswer \/ OverflowStop \/ \E b \in Batches : RefuseCalls(b)
  PROVE  RunInv'
<1> SUFFICES Quiet'
  BY QuietInv, PTL
<1>1. CASE SendLine \/ Continue
  <2>1. \E m : StartRun(m)
    BY <1>1 DEF SendLine, Continue
  <2>2. Quiet
    BY <2>1, QuietInv DEF StartRun, Batching
  <2> QED
    BY <2>1, <2>2, RunAssumption DEF StartRun, Quiet, batch, Batching, Counters, ToolBudget
<1>2. CASE Top
  <2>1. Quiet
    BY <1>2, QuietInv DEF Top, Batching
  <2>2. PICK near \in BOOLEAN :
          wrap' = CASE wrap = "no" /\ ctx = "live" /\ HasDeadline /\ near -> "deadline"
                    [] wrap = "no" /\ ~(ctx = "live" /\ HasDeadline /\ near) /\ ToolsSpent -> "tools"
                    [] OTHER -> wrap
    BY <1>2 DEF Top
  <2>3. wrap' = "no" => ~ToolsSpent
    BY <2>2
  <2>4. UNCHANGED <<calls, exec, over, executed, tasks, ran, unbooked, orphaned>>
    BY <1>2 DEF Top, batch, counts, history
  <2>5. pc' \in {"idle", "request"}
    BY <1>2 DEF Top
  <2>6. unbooked = {}
    BY <1>2, <2>1 DEF Top, Quiet
  <2> QED
    BY <2>1, <2>3, <2>4, <2>5, <2>6, RunAssumption DEF Quiet, Batching, Counters, ToolBudget, ToolsSpent
<1>3. CASE RequestFails \/ RequestOverflows
  <2>1. Quiet
    BY <1>3, QuietInv DEF RequestFails, RequestOverflows, Batching
  <2> QED
    BY <2>1, <1>3 DEF RequestFails, RequestOverflows, Quiet, batch, counts, history, Batching,
                      Counters, ToolBudget
<1>4. CASE FinalAnswer \/ OverflowStop \/ \E b \in Batches : RefuseCalls(b)
  <2>1. Quiet
    BY <1>4, QuietInv DEF FinalAnswer, OverflowStop, RefuseCalls, Usable, Batching
  <2> QED
    BY <2>1, <1>4 DEF FinalAnswer, OverflowStop, RefuseCalls, Usable, Quiet, batch, history,
                      Batching, Counters, ToolBudget
<1> QED
  BY <1>1, <1>2, <1>3, <1>4

\* Nothing the invariant speaks of changes.
LEMMA SameBatch ==
  ASSUME RunInv, UNCHANGED <<pc, calls, at, exec, over, executed, tasks, ran, wrap, unbooked, orphaned>>
  PROVE  RunInv'
<1>1. BatchShape' /\ Counters' /\ Place'
  BY DEF RunInv, BatchShape, Batching, Counters, Place, SerialPlace, FanPlace, ObservePlace,
         Segment, Safe
<1>2. Owed' = Owed
  BY DEF Owed
<1>3. TasksCounted' /\ ToBook' /\ BudgetLeft' /\ ToolBudget'
  BY <1>2 DEF RunInv, TasksCounted, ToBook, BudgetLeft, SerialLeft, ToolBudget
<1> QED
  BY <1>1, <1>3 DEF RunInv

\* A batch ends: its results are booked, or the run is abandoned.
LEMMA BatchEnds ==
  ASSUME RunInv, NoBatch, pc' \in {"idle", "top"},
         UNCHANGED <<executed, tasks, ran>>,
         unbooked' = {} \/ (pc' = "idle" /\ orphaned')
  PROVE  RunInv'
<1> SUFFICES Quiet'
  BY QuietInv, PTL
<1>1. Cardinality(Owed) \in Nat
  BY OwedFinite DEF RunInv
<1>2. ran <= tasks /\ ran <= MaxTaskCalls
  BY <1>1, RunAssumption DEF RunInv, TasksCounted, Counters
<1> QED
  BY <1>2 DEF Quiet, RunInv, NoBatch, Batching, Counters, ToolBudget

LEMMA EndStep ==
  ASSUME RunInv, Abandon \/ ObserveLast \/ FanFatal \/ SerialFatal \/ SerialCut \/ SerialLast
  PROVE  RunInv'
<1>1. CASE Abandon
  BY <1>1, BatchEnds DEF Abandon, counts
<1>2. CASE ObserveLast
  <2>1. unbooked' = {}
    BY <1>2 DEF ObserveLast, LastResult, Booked, RunInv, ToBook, BatchShape, Batching
  <2> QED
    BY <1>2, <2>1, BatchEnds DEF ObserveLast, LastResult, history
<1>3. CASE FanFatal
  <2>1. unbooked' = {}
    BY <1>3 DEF FanFatal, Booked, BookRest, RunInv, ToBook
  <2> QED
    BY <1>3, <2>1, BatchEnds DEF FanFatal, history
<1>4. CASE SerialFatal \/ SerialCut
  <2>1. unbooked' = {}
    BY <1>4 DEF SerialFatal, SerialCut, Booked, RunInv, ToBook
  <2> QED
    BY <1>4, <2>1, BatchEnds DEF SerialFatal, SerialCut, history
<1>5. CASE SerialLast
  <2>1. unbooked' = {}
    BY <1>5 DEF SerialLast, LastResult, Booked, RunInv, ToBook
  <2> QED
    BY <1>5, <2>1, BatchEnds DEF SerialLast, LastResult, history
<1> QED
  BY <1>1, <1>2, <1>3, <1>4, <1>5

----------------------------------------------------------------------------
(* The invariant, within a batch *)

LEMMA DispatchSerialStep ==
  ASSUME RunInv, NEW b \in Batches, DispatchSerial(b)
  PROVE  RunInv'
<1>1. Quiet /\ pc = "request" /\ wrap = "no"
  BY QuietInv DEF DispatchSerial, Dispatch, Usable, Batching
<1>2. b \in Seq(Call) /\ Len(b) \in Nat \ {0}
  <2>1. b \in Seq(Call) /\ b # <<>>
    BY RunAssumption
  <2> QED
    BY <2>1, EmptySeq
<1>3. /\ pc' = "serial" /\ calls' = b /\ at' = 1
      /\ exec' = [i \in 1..Len(b) |-> "queued"] /\ over' = [i \in 1..Len(b) |-> FALSE]
      /\ UNCHANGED <<wrap, executed, tasks, ran, unbooked, orphaned>>
  BY <1>2 DEF DispatchSerial, Dispatch, history
<1>4. BatchShape' /\ Counters' /\ Place'
  BY <1>1, <1>2, <1>3 DEF BatchShape, Batching, Counters, Quiet, Place, SerialPlace, FanPlace, ObservePlace
<1>5. ToBook'
  BY <1>1, <1>3 DEF ToBook, Quiet
<1>6. TasksCounted'
  <2>1. (pc # "fan")'
    BY <1>3
  <2>2. (Cardinality(Owed) = 0)'
    BY <2>1, NoneOwed, PTL
  <2> QED
    BY <1>1, <1>3, <2>2, RunAssumption DEF TasksCounted, Quiet, Counters
<1>7. BudgetLeft' /\ ToolBudget'
  BY <1>1, <1>2, <1>3, RunAssumption DEF BudgetLeft, SerialLeft, ToolBudget, Quiet, Counters
<1> QED
  BY <1>4, <1>5, <1>6, <1>7 DEF RunInv

LEMMA DispatchFanStep ==
  ASSUME RunInv, NEW b \in Batches, DispatchFan(b)
  PROVE  RunInv'
<1>1. Quiet /\ pc = "request" /\ wrap = "no"
  BY QuietInv DEF DispatchFan, Dispatch, Usable, Batching
<1>2. b \in Seq(Call) /\ Len(b) \in Nat \ {0}
  <2>1. b \in Seq(Call) /\ b # <<>>
    BY RunAssumption
  <2> QED
    BY <2>1, EmptySeq
<1>3. /\ pc' = "fan" /\ calls' = b /\ at' = 1
      /\ over' = [i \in 1..Len(b) |-> OverCap(b, i)]
      /\ exec' = [i \in 1..Len(b) |-> IF i \in Segment(b, 1) /\ over'[i] THEN "done" ELSE "queued"]
      /\ UNCHANGED <<wrap, ran, unbooked, orphaned>>
      /\ tasks' = tasks + TasksUpTo(b, Len(b))
      /\ executed' = executed + Cardinality({i \in 1..Len(b) : ~over'[i]})
  <2>1. DOMAIN b = 1..Len(b)
    BY <1>2
  <2>2. exec' = Enter([i \in 1..Len(b) |-> "queued"], over', Segment(b, 1))
    BY <2>1 DEF DispatchFan
  <2>3. exec' = [i \in 1..Len(b) |-> IF i \in Segment(b, 1) /\ over'[i] THEN "done" ELSE "queued"]
    BY <2>2 DEF Enter
  <2> QED
    BY <2>1, <2>3 DEF DispatchFan, Dispatch, history
<1>4. OverCap(b, 1) \in BOOLEAN /\ \A i \in 1..Len(b) : OverCap(b, i) \in BOOLEAN
  BY DEF OverCap
<1>5. Owed' \subseteq 1..Len(b) /\ \A i \in Owed' : b[i].tool = "task" /\ ~OverCap(b, i)
  BY <1>3 DEF Owed
<1>6. /\ Cardinality(Owed') \in Nat
      /\ Owed' # {} => tasks + Cardinality(Owed') <= MaxTaskCalls
      /\ Cardinality(Owed') <= TasksUpTo(b, Len(b))
      /\ TasksUpTo(b, Len(b)) \in Nat
  BY <1>1, <1>2, <1>5, AdmittedFit DEF Quiet, Counters
<1>7. /\ Cardinality({i \in 1..Len(b) : ~over'[i]}) \in Nat
      /\ Cardinality({i \in 1..Len(b) : ~over'[i]}) <= Len(b)
  <2>1. IsFiniteSet(1..Len(b)) /\ Cardinality(1..Len(b)) = Len(b)
    BY <1>2, FS_Interval
  <2> DEFINE U == {i \in 1..Len(b) : ~over'[i]}
  <2>2. U \in SUBSET (1..Len(b))
    OBVIOUS
  <2> HIDE DEF U
  <2>3. IsFiniteSet(U) /\ Cardinality(U) <= Len(b)
    BY <2>1, <2>2, FS_Subset
  <2> QED
    BY <2>3, FS_CardinalityType DEF U
<1>8. BatchShape' /\ Counters'
  BY <1>1, <1>2, <1>3, <1>4, <1>6, <1>7 DEF BatchShape, Batching, Counters, Quiet
<1>9. Place'
  BY <1>2, <1>3 DEF Place, SerialPlace, FanPlace, ObservePlace, Segment, Safe
<1>10. ToBook'
  BY <1>1, <1>3 DEF ToBook, Quiet
<1>11. TasksCounted'
  <2>1. CASE Owed' = {}
    BY <2>1, <1>1, <1>3, <1>6, FS_EmptySet, RunAssumption DEF TasksCounted, Quiet, Counters
  <2>2. CASE Owed' # {}
    BY <2>2, <1>1, <1>3, <1>6, RunAssumption DEF TasksCounted, Quiet, Counters
  <2> QED
    BY <2>1, <2>2
<1>12. BudgetLeft' /\ ToolBudget'
  <2>1. BudgetLeft'
    BY <1>3 DEF BudgetLeft
  <2>2. ASSUME MaxToolCalls > 0 PROVE executed' < MaxToolCalls + Len(b)
    BY <2>2, <1>1, <1>2, <1>3, <1>7, RunAssumption DEF Quiet, Counters
  <2> QED
    BY <2>1, <2>2 DEF ToolBudget
<1> QED
  BY <1>8, <1>9, <1>10, <1>11, <1>12 DEF RunInv

\* The refused are never queued: a call that starts is owed.
LEMMA FanStartStep ==
  ASSUME RunInv, NEW i \in DOMAIN exec, FanStart(i)
  PROVE  RunInv'
<1>1. /\ pc = "fan" /\ i \in Segment(calls, at) /\ exec[i] = "queued"
      /\ exec' = [exec EXCEPT ![i] = "running"]
      /\ ran' = IF calls[i].tool = "task" THEN ran + 1 ELSE ran
      /\ UNCHANGED <<pc, calls, at, over, wrap, executed, tasks, unbooked, orphaned>>
  BY DEF FanStart, counts
<1>2. i \in 1..Len(calls)
  BY DEF RunInv, BatchShape
<1>3. at \in 1..Len(calls) /\ calls \in Seq(Call) /\ calls \in Batches
  BY <1>1 DEF RunInv, BatchShape, Batching
<1>4. i >= at /\ ~over[i]
  BY <1>1, <1>2, <1>3 DEF RunInv, Place, FanPlace, Segment
<1>5. BatchShape' /\ Counters'
  BY <1>1, <1>2 DEF RunInv, BatchShape, Batching, Counters
<1>6. Segment(calls, at)' = Segment(calls, at)
  BY <1>1 DEF Segment, Safe
<1>7. Place'
  BY <1>1, <1>2, <1>3, <1>4, <1>6 DEF RunInv, Place, SerialPlace, FanPlace, ObservePlace, BatchShape
<1>8. ToBook' /\ BudgetLeft' /\ ToolBudget'
  BY <1>1 DEF RunInv, ToBook, BudgetLeft, ToolBudget
<1>9. IsFiniteSet(Owed) /\ Cardinality(Owed) \in Nat
  BY OwedFinite DEF RunInv
<1>10. TasksCounted'
  <2>1. CASE calls[i].tool = "task"
    <3>1. i \in Owed /\ Owed' = Owed \ {i}
      BY <1>1, <1>2, <1>4, <2>1 DEF Owed, RunInv, BatchShape
    <3>2. Cardinality(Owed') = Cardinality(Owed) - 1
      BY <3>1, <1>9, FS_RemoveElement
    <3> QED
      BY <3>2, <1>1, <1>9, <2>1, RunAssumption DEF TasksCounted, RunInv, Counters
  <2>2. CASE calls[i].tool # "task"
    <3>1. Owed' = Owed
      BY <1>1, <1>2, <2>2 DEF Owed, RunInv, BatchShape
    <3> QED
      BY <3>1, <1>1, <2>2 DEF TasksCounted, RunInv
  <2> QED
    BY <2>1, <2>2
<1> QED
  BY <1>5, <1>7, <1>8, <1>10 DEF RunInv

LEMMA ToolReturnsStep ==
  ASSUME RunInv, NEW i \in DOMAIN exec, ToolReturns(i)
  PROVE  RunInv'
<1>1. /\ pc \in {"fan", "serial"} /\ exec[i] = "running"
      /\ exec' = [exec EXCEPT ![i] = "done"] /\ unbooked' = unbooked \cup {i}
      /\ UNCHANGED <<pc, calls, at, over, wrap, executed, tasks, ran, orphaned>>
  BY DEF ToolReturns, Running, counts, history
<1>2. i \in 1..Len(calls)
  BY DEF RunInv, BatchShape
<1>3. at \in 1..Len(calls) /\ calls \in Seq(Call) /\ calls \in Batches
  BY <1>1 DEF RunInv, BatchShape, Batching
<1>4. pc = "serial" => i = at
  BY <1>1, <1>2, <1>3 DEF RunInv, Place, SerialPlace
<1>5. BatchShape' /\ Counters'
  BY <1>1, <1>2 DEF RunInv, BatchShape, Batching, Counters
<1>6. Segment(calls, at)' = Segment(calls, at)
  BY <1>1 DEF Segment, Safe
<1>7. Place'
  BY <1>1, <1>2, <1>3, <1>4, <1>6 DEF RunInv, Place, SerialPlace, FanPlace, ObservePlace, BatchShape
<1>8. ToBook' /\ BudgetLeft' /\ ToolBudget'
  BY <1>1, <1>2, <1>4 DEF RunInv, ToBook, BudgetLeft, SerialLeft, ToolBudget, BatchShape
<1>9. Owed' = Owed
  BY <1>1, <1>2 DEF Owed, RunInv, BatchShape
<1>10. TasksCounted'
  BY <1>1, <1>9 DEF TasksCounted, RunInv
<1> QED
  BY <1>5, <1>7, <1>8, <1>10 DEF RunInv

LEMMA SegmentDoneStep ==
  ASSUME RunInv, SegmentDone
  PROVE  RunInv'
<1> DEFINE n == Cardinality(Segment(calls, at))
<1>1. /\ pc = "fan" /\ \A i \in Segment(calls, at) : exec[i] = "done"
      /\ UNCHANGED <<calls, over, wrap, executed, tasks, ran, unbooked, orphaned>>
      /\ \/ at + n > Len(calls) /\ pc' = "observe" /\ at' = 1 /\ UNCHANGED exec
         \/ /\ ~(at + n > Len(calls)) /\ at' = at + n /\ pc' = pc
            /\ exec' = Enter(exec, over, Segment(calls, at + n))
  BY DEF SegmentDone, counts, history
<1>2. at \in 1..Len(calls) /\ calls \in Seq(Call) /\ calls \in Batches /\ Len(calls) \in Nat
  BY <1>1 DEF RunInv, BatchShape, Batching
<1>3. /\ Segment(calls, at) = at..(at + n - 1) /\ n \in Nat
      /\ at \in Segment(calls, at) /\ Segment(calls, at) \subseteq 1..Len(calls)
  BY <1>2, SegmentInterval
<1> HIDE DEF n
<1>4. /\ \A i \in 1..Len(calls) : i < at + n => exec[i] = "done"
      /\ \A i \in 1..Len(calls) : i >= at + n => exec[i] = "queued"
      /\ at + n > at
  BY <1>1, <1>2, <1>3 DEF RunInv, Place, FanPlace
<1>5. CASE at + n > Len(calls)
  <2>1. pc' = "observe" /\ at' = 1 /\ UNCHANGED exec
    BY <1>1, <1>5
  <2>2. BatchShape' /\ Counters'
    BY <1>1, <1>2, <2>1 DEF RunInv, BatchShape, Batching, Counters
  <2>3. Place'
    BY <1>1, <1>2, <1>3, <1>4, <1>5, <2>1 DEF Place, SerialPlace, FanPlace, ObservePlace
  <2>4. ToBook' /\ BudgetLeft' /\ ToolBudget'
    BY <1>1, <2>1 DEF RunInv, ToBook, BudgetLeft, ToolBudget
  <2>5. Owed' \subseteq Owed
    BY <1>1, <2>1 DEF Owed
  <2>6. Cardinality(Owed') \in Nat /\ Cardinality(Owed') <= Cardinality(Owed) /\ Cardinality(Owed) \in Nat
    BY <2>5, OwedFinite, FS_Subset, FS_CardinalityType DEF RunInv
  <2>7. TasksCounted'
    BY <1>1, <2>6, RunAssumption DEF TasksCounted, RunInv, Counters
  <2> QED
    BY <2>2, <2>3, <2>4, <2>7 DEF RunInv
<1>6. CASE ~(at + n > Len(calls))
  <2>1. /\ pc' = "fan" /\ at' = at + n
        /\ exec' = [i \in 1..Len(calls) |->
                       IF i \in Segment(calls, at + n) /\ over[i] THEN "done" ELSE exec[i]]
    <3>1. DOMAIN exec = 1..Len(calls)
      BY DEF RunInv, BatchShape
    <3> QED
      BY <1>1, <1>6, <3>1 DEF Enter
  <2>2. at' \in 1..Len(calls)
    BY <1>2, <1>3, <1>6, <2>1
  <2>3. /\ at' \in Segment(calls, at') /\ Segment(calls, at)' = Segment(calls, at')
        /\ \A i \in Segment(calls, at') : i >= at'
    BY <1>1, <1>2, <2>2 DEF Segment, Safe
  <2>4. BatchShape' /\ Counters'
    BY <1>1, <1>2, <2>1, <2>2 DEF RunInv, BatchShape, Batching, Counters
  <2>5. Place'
    <3>1. FanPlace'
      <4> SUFFICES ASSUME NEW i \in 1..Len(calls)
                   PROVE  /\ i < at' => exec'[i] = "done"
                          /\ i > at' /\ i \notin Segment(calls, at') => exec'[i] = "queued"
                          /\ over[i] /\ i \in Segment(calls, at') => exec'[i] = "done"
        BY <1>1, <2>1, <2>3 DEF FanPlace, Segment, Safe
      <4> QED
        BY <1>2, <1>3, <1>4, <2>1, <2>2, <2>3
    <3> QED
      BY <3>1, <2>1 DEF Place, SerialPlace, ObservePlace
  <2>6. ToBook' /\ BudgetLeft' /\ ToolBudget'
    BY <1>1, <2>1 DEF RunInv, ToBook, BudgetLeft, ToolBudget
  <2>7. Owed' = Owed
    BY <1>1, <2>1 DEF Owed, RunInv, BatchShape
  <2>8. TasksCounted'
    BY <1>1, <2>7 DEF TasksCounted, RunInv
  <2> QED
    BY <2>4, <2>5, <2>6, <2>8 DEF RunInv
<1> QED
  BY <1>5, <1>6

LEMMA SerialStartStep ==
  ASSUME RunInv, SerialStart
  PROVE  RunInv'
<1>1. /\ pc = "serial" /\ exec[at] = "queued"
      /\ UNCHANGED <<pc, calls, at, over, wrap, unbooked, orphaned>>
      /\ tasks' = IF calls[at].tool = "task" THEN tasks + 1 ELSE tasks
      /\ \/ /\ exec' = [exec EXCEPT ![at] = "done"] /\ UNCHANGED <<executed, ran>>
         \/ /\ ~(calls[at].tool = "task" /\ tasks + 1 > MaxTaskCalls)
            /\ exec' = [exec EXCEPT ![at] = "running"] /\ executed' = executed + 1
            /\ ran' = IF calls[at].tool = "task" THEN ran + 1 ELSE ran
  BY DEF SerialStart
<1>2. /\ at \in 1..Len(calls) /\ calls \in Seq(Call) /\ calls \in Batches /\ Len(calls) \in Nat
  BY <1>1 DEF RunInv, BatchShape, Batching
<1>3. BatchShape' /\ Counters'
  BY <1>1, <1>2 DEF RunInv, BatchShape, Batching, Counters
<1>4. Place'
  BY <1>1, <1>2 DEF RunInv, Place, SerialPlace, FanPlace, ObservePlace, BatchShape
<1>5. ToBook'
  BY <1>1 DEF RunInv, ToBook
<1>6. Cardinality(Owed) = 0 /\ (Cardinality(Owed) = 0)'
  <2>1. pc # "fan" /\ (pc # "fan")'
    BY <1>1
  <2> QED
    BY <2>1, NoneOwed, PTL
<1>7. TasksCounted'
  BY <1>1, <1>6, RunAssumption DEF TasksCounted, RunInv, Counters
<1>8. BudgetLeft'
  <2>1. exec'[at] # "queued"
    BY <1>1, <1>2 DEF RunInv, BatchShape
  <2>2. SerialLeft = Len(calls) - at + 1 /\ SerialLeft' = Len(calls) - at
    BY <1>1, <2>1 DEF SerialLeft
  <2> QED
    BY <1>1, <1>2, <2>2, RunAssumption DEF BudgetLeft, RunInv, Counters
<1>9. ToolBudget'
  <2>1. ASSUME MaxToolCalls > 0 PROVE executed' < MaxToolCalls + Len(calls)
    <3>1. executed + (Len(calls) - at + 1) < MaxToolCalls + Len(calls)
      BY <1>1, <2>1 DEF BudgetLeft, SerialLeft, RunInv
    <3>2. executed' <= executed + 1
      BY <1>1 DEF RunInv, Counters
    <3> QED
      BY <3>1, <3>2, <1>2, <1>3, RunAssumption DEF RunInv, Counters
  <2> QED
    BY <2>1, <1>2 DEF ToolBudget
<1> QED
  BY <1>3, <1>4, <1>5, <1>7, <1>8, <1>9 DEF RunInv

LEMMA NextResultStep ==
  ASSUME RunInv, ObserveNext \/ SerialNext
  PROVE  RunInv'
<1>1. /\ pc \in {"observe", "serial"}
      /\ pc = "serial" => exec[at] = "done"
      /\ at < Len(calls) /\ at' = at + 1 /\ unbooked' = unbooked \ {at}
      /\ UNCHANGED <<pc, calls, exec, over, wrap, executed, tasks, ran, orphaned>>
  BY DEF ObserveNext, SerialNext, NextResult, Booked, history
<1>2. /\ at \in 1..Len(calls) /\ calls \in Seq(Call) /\ calls \in Batches /\ Len(calls) \in Nat
  BY <1>1 DEF RunInv, BatchShape, Batching
<1>3. BatchShape' /\ Counters'
  BY <1>1, <1>2 DEF RunInv, BatchShape, Batching, Counters
<1>4. Place'
  BY <1>1, <1>2 DEF RunInv, Place, SerialPlace, FanPlace, ObservePlace
<1>5. ToBook'
  BY <1>1, <1>2 DEF RunInv, ToBook
<1>6. Cardinality(Owed) = 0 /\ (Cardinality(Owed) = 0)'
  <2>1. pc # "fan" /\ (pc # "fan")'
    BY <1>1
  <2> QED
    BY <2>1, NoneOwed, PTL
<1>7. TasksCounted'
  BY <1>1, <1>6 DEF TasksCounted, RunInv
<1>8. BudgetLeft'
  <2>1. CASE pc = "serial"
    <3>1. exec'[at'] = "queued"
      BY <1>1, <1>2, <2>1 DEF RunInv, Place, SerialPlace
    <3>2. SerialLeft = Len(calls) - at /\ SerialLeft' = Len(calls) - (at + 1) + 1
      BY <1>1, <2>1, <3>1 DEF SerialLeft
    <3>3. SerialLeft' = SerialLeft
      BY <3>2, <1>2
    <3> QED
      BY <1>1, <2>1, <3>3 DEF BudgetLeft, RunInv
  <2>2. CASE pc = "observe"
    BY <1>1, <2>2 DEF BudgetLeft
  <2> QED
    BY <1>1, <2>1, <2>2
<1>9. ToolBudget'
  BY <1>1 DEF RunInv, ToolBudget
<1> QED
  BY <1>3, <1>4, <1>5, <1>7, <1>8, <1>9 DEF RunInv

----------------------------------------------------------------------------
(* The theorems *)

LEMMA RunStepInv == RunInv /\ [Next]_vars => RunInv'
<1> SUFFICES ASSUME RunInv, [Next]_vars PROVE RunInv'
  OBVIOUS
<1>1. CASE SendLine \/ Continue \/ Top \/ RequestFails \/ RequestOverflows \/ FinalAnswer
           \/ OverflowStop \/ \E b \in Batches : RefuseCalls(b)
  BY <1>1, OutsideStep
<1>2. CASE Cancel \/ Expire
  BY <1>2, SameBatch DEF Cancel, Expire, batch, counts, history
<1>3. CASE \E b \in Batches : DispatchSerial(b) \/ DispatchFan(b)
  BY <1>3, DispatchSerialStep, DispatchFanStep
<1>4. CASE \E i \in DOMAIN exec : FanStart(i) \/ ToolReturns(i)
  BY <1>4, FanStartStep, ToolReturnsStep
<1>5. CASE SegmentDone \/ SerialStart
  BY <1>5, SegmentDoneStep, SerialStartStep
<1>6. CASE ObserveNext \/ SerialNext
  BY <1>6, NextResultStep
<1>7. CASE Abandon \/ ObserveLast \/ FanFatal \/ SerialFatal \/ SerialCut \/ SerialLast
  BY <1>7, EndStep
<1>8. CASE UNCHANGED vars
  BY <1>8, SameBatch DEF vars, batch, counts, history
<1> QED
  BY <1>1, <1>2, <1>3, <1>4, <1>5, <1>6, <1>7, <1>8
  DEF Next, Run, Requests, Executes, Books

\* The invariant the theorems rest on.
THEOREM RunInvariant == Spec => []RunInv
  BY RunInitInv, RunStepInv, PTL DEF Spec

\* Whatever the batches, the limit and the scheduling of the goroutines, a
\* call with an unsafe one on either side neither overlaps nor overtakes it
\* (partitionToolCalls, runToolSegments).
THEOREM UnsafeInOrder == Spec => []UnsafeOrder
<1>1. RunInv => UnsafeOrder
  <2> SUFFICES ASSUME RunInv, NEW i \in DOMAIN exec, NEW j \in DOMAIN exec, i < j,
                      exec[j] # "queued", ~(Safe(calls, i) /\ Safe(calls, j))
               PROVE  exec[i] = "done"
    BY DEF UnsafeOrder
  <2>1. i \in 1..Len(calls) /\ j \in 1..Len(calls)
    BY DEF RunInv, BatchShape
  <2>2. pc \in {"serial", "fan", "observe"}
    <3>1. Len(calls) # 0
      BY <2>1
    <3> QED
      BY <3>1 DEF RunInv, BatchShape, Batching
  <2>3. at \in 1..Len(calls) /\ calls \in Seq(Call) /\ Len(calls) \in Nat
    BY <2>2 DEF RunInv, BatchShape, Batching
  <2>4. CASE pc = "fan"
    <3>1. j <= at \/ j \in Segment(calls, at)
      BY <2>1, <2>3, <2>4 DEF RunInv, Place, FanPlace
    <3>2. CASE i < at
      BY <3>2, <2>1, <2>4 DEF RunInv, Place, FanPlace
    <3>3. CASE i >= at
      <4>1. j \in Segment(calls, at)
        BY <3>1, <3>3, <2>1, <2>3
      <4>2. i \in Segment(calls, at)
        BY <4>1, <3>3, <2>1, <2>3 DEF Segment
      <4>3. \A k, m \in Segment(calls, at) : k # m => Safe(calls, k) /\ Safe(calls, m)
        BY <2>3, SegmentInterval
      <4> QED
        BY <4>1, <4>2, <4>3, <2>1
    <3> QED
      BY <3>2, <3>3, <2>1, <2>3
  <2>5. CASE pc = "serial"
    BY <2>1, <2>3, <2>5 DEF RunInv, Place, SerialPlace
  <2>6. CASE pc = "observe"
    BY <2>1, <2>6 DEF RunInv, Place, ObservePlace
  <2> QED
    BY <2>2, <2>4, <2>5, <2>6
<1> QED
  BY <1>1, RunInvariant, PTL

\* A run that ends in any way but being abandoned has booked the usage and
\* the edited files of every call it executed (handleResult, appendRemaining).
THEOREM AllResultsBooked == Spec => []ResultsBooked
<1>1. RunInv => ResultsBooked
  BY DEF RunInv, ToBook, ResultsBooked
<1> QED
  BY <1>1, RunInvariant, PTL

\* No run passes maxTaskCallsPerRun, or the tool budget by more than a batch,
\* on the serial path, on the parallel one, or with both in one run
\* (taskCallOverCap, the admission of a parallel batch).
THEOREM CapsKept == Spec => []RunCaps
<1>1. RunInv => RunCaps
  <2>1. ASSUME RunInv PROVE TaskFanOut
    <3>1. Cardinality(Owed) \in Nat
      BY <2>1, OwedFinite DEF RunInv
    <3> QED
      BY <3>1, <2>1, RunAssumption DEF RunInv, TasksCounted, Counters, TaskFanOut
  <2> QED
    BY <2>1 DEF RunCaps, RunInv
<1> QED
  BY <1>1, RunInvariant, PTL

----------------------------------------------------------------------------
(* The messages: how results stand behind the message that asked for them *)

\* The results, in h, of the message at place k.
Replies(h, k) == {i \in DOMAIN h : h[i].role = "tool" /\ h[i].call[1] = k}

\* A result stands behind the message it answers.
Backward(h) == \A i \in DOMAIN h : h[i].role = "tool" => h[i].call[1] \in 1..(i - 1)

\* The results of a message stand right behind it, in the order of its calls;
\* the last ones may be missing.
InOrder(h) ==
  \A k \in DOMAIN h : h[k].role = "ai" =>
    \E m \in 0..h[k].n : Replies(h, k) = (k + 1)..(k + m) /\ \A j \in 1..m : h[k + j].call = <<k, j>>

Sound(h) == h \in Seq(Messages) /\ Backward(h) /\ InOrder(h)

\* The message at p, with c calls, is being answered: h ends with its results.
Open(h, p, c) ==
  /\ p \in DOMAIN h /\ h[p].role = "ai" /\ h[p].n = c /\ Len(h) - p <= c
  /\ \A j \in 1..(Len(h) - p) : h[p + j].role = "tool" /\ h[p + j].call = <<p, j>>

PairedBelow(h, p) == \A k \in DOMAIN h : k < p /\ h[k].role = "ai" => Answers(h, k)

\* Where the message of the batch under way is.
Asked == IF pc = "fan" THEN Len(hist) ELSE Turn

\* What the messages look like, within a batch and outside of one.
MessageInv ==
  /\ Sound(hist)
  /\ pc # "idle" => start \in DOMAIN hist /\ hist[start].role = "human"
  /\ Batching => Open(hist, Asked, Len(calls))
  /\ ~cut => PairedBelow(hist, IF Batching THEN Asked ELSE Len(hist) + 1)

LEMMA Elements ==
  ASSUME NEW h \in Seq(Messages)
  PROVE  /\ Len(h) \in Nat /\ DOMAIN h = 1..Len(h)
         /\ \A i \in DOMAIN h : /\ h[i] \in Messages /\ h[i].role \in {"human", "ai", "tool", "hint"}
                                /\ h[i].n \in Nat /\ h[i].call \in Nat \X Nat /\ h[i].call[1] \in Nat
<1>1. Len(h) \in Nat /\ DOMAIN h = 1..Len(h) /\ \A i \in DOMAIN h : h[i] \in Messages
  OBVIOUS
<1>2. ASSUME NEW m \in Messages
      PROVE  /\ m.role \in {"human", "ai", "tool", "hint"} /\ m.n \in Nat
             /\ m.call \in Nat \X Nat /\ m.call[1] \in Nat
  BY DEF Messages
<1> QED
  BY <1>1, <1>2

\* What is appended has the type of a message.
LEMMA NewMessages ==
  /\ Human \in Messages /\ Human.role = "human"
  /\ Hint \in Messages /\ Hint.role = "hint"
  /\ \A n \in Nat : Reply(n) \in Messages /\ Reply(n).role = "ai" /\ Reply(n).n = n
  /\ \A k, j \in Nat, big \in BOOLEAN :
       /\ Result(k, j, big) \in Messages /\ Result(k, j, big).role = "tool"
       /\ Result(k, j, big).call = <<k, j>>
  BY DEF Messages, Human, Hint, Reply, Result

\* A message that is no result, at the end.
LEMMA AppendOther ==
  ASSUME NEW h, Sound(h), NEW m \in Messages, m.role # "tool"
  PROVE  /\ Sound(Append(h, m))
         /\ Len(Append(h, m)) = Len(h) + 1 /\ DOMAIN Append(h, m) = 1..(Len(h) + 1)
         /\ Append(h, m)[Len(h) + 1] = m
         /\ \A i \in DOMAIN h : i \in DOMAIN Append(h, m) /\ Append(h, m)[i] = h[i]
<1> DEFINE g == Append(h, m)
           e == Len(h) + 1
<1>1. /\ h \in Seq(Messages) /\ Len(h) \in Nat /\ DOMAIN h = 1..Len(h) /\ Backward(h) /\ InOrder(h)
      /\ \A i \in DOMAIN h : h[i].call[1] \in Nat /\ h[i].n \in Nat
  BY Elements DEF Sound
<1>2. /\ g \in Seq(Messages) /\ Len(g) = e /\ DOMAIN g = 1..e /\ g[e] = m /\ e \in Nat
      /\ \A i \in 1..Len(h) : g[i] = h[i]
  BY <1>1
<1>3. m.n \in Nat
  BY DEF Messages
<1> HIDE DEF g, e
<1>4. e = Len(h) + 1
  BY DEF e
<1>5. \A k : Replies(g, k) = Replies(h, k)
  BY <1>1, <1>2, <1>4 DEF Replies
<1>6. Backward(g)
  BY <1>1, <1>2, <1>4 DEF Backward
<1>7. InOrder(g)
  <2> SUFFICES ASSUME NEW k \in DOMAIN g, g[k].role = "ai"
               PROVE  \E n \in 0..g[k].n : /\ Replies(g, k) = (k + 1)..(k + n)
                                           /\ \A j \in 1..n : g[k + j].call = <<k, j>>
    BY DEF InOrder
  <2>1. CASE k \in DOMAIN h
    <3>1. PICK n \in 0..h[k].n : /\ Replies(h, k) = (k + 1)..(k + n)
                                 /\ \A j \in 1..n : h[k + j].call = <<k, j>>
      BY <1>1, <1>2, <2>1 DEF InOrder
    <3>2. n \in Nat /\ \A j \in 1..n : k + j \in Replies(h, k)
      BY <1>1, <2>1, <3>1
    <3>3. \A j \in 1..n : k + j \in 1..Len(h)
      BY <1>1, <3>2 DEF Replies
    <3>4. \A j \in 1..n : g[k + j].call = <<k, j>>
      BY <1>2, <3>1, <3>3
    <3>5. g[k] = h[k] /\ Replies(g, k) = Replies(h, k)
      BY <1>1, <1>2, <1>5, <2>1
    <3> QED
      BY <3>1, <3>4, <3>5
  <2>2. CASE k = e
    <3>1. Replies(h, k) = {}
      BY <1>1, <1>4, <2>2 DEF Replies, Backward
    <3>2. 0 \in 0..g[k].n /\ (k + 1)..(k + 0) = {} /\ 1..0 = {}
      BY <1>2, <1>3, <2>2
    <3> QED
      BY <1>5, <3>1, <3>2
  <2>3. k \in DOMAIN h \/ k = e
    BY <1>1, <1>2, <1>4
  <2> QED
    BY <2>1, <2>2, <2>3
<1>8. Sound(g)
  BY <1>2, <1>6, <1>7 DEF Sound
<1> QED
  BY <1>1, <1>2, <1>4, <1>8 DEF g

\* The histories that a longer one h \o r begins with, place by place.
LEMMA Joined ==
  ASSUME NEW h \in Seq(Messages), NEW r \in Seq(Messages)
  PROVE  /\ h \o r \in Seq(Messages) /\ Len(h \o r) = Len(h) + Len(r)
         /\ Len(h) \in Nat /\ Len(r) \in Nat /\ DOMAIN (h \o r) = 1..(Len(h) + Len(r))
         /\ \A i \in 1..Len(h) : (h \o r)[i] = h[i]
         /\ \A i \in 1..Len(r) : (h \o r)[Len(h) + i] = r[i]
         /\ \A i \in DOMAIN (h \o r) : i \notin 1..Len(h) => i - Len(h) \in 1..Len(r) /\ i = Len(h) + (i - Len(h))
  OBVIOUS

\* Results that follow on, in the order of the calls.
LEMMA ExtendOpen ==
  ASSUME NEW h, Sound(h), NEW p, NEW c \in Nat, Open(h, p, c), NEW r \in Seq(Messages),
         Len(h) - p + Len(r) <= c,
         \A i \in 1..Len(r) : r[i].role = "tool" /\ r[i].call = <<p, Len(h) - p + i>>
  PROVE  Sound(h \o r) /\ Open(h \o r, p, c)
<1> DEFINE g == h \o r
<1>1. /\ h \in Seq(Messages) /\ Len(h) \in Nat /\ DOMAIN h = 1..Len(h) /\ Backward(h) /\ InOrder(h)
      /\ \A i \in DOMAIN h : h[i].call[1] \in Nat /\ h[i].n \in Nat
  BY Elements DEF Sound
<1>2. /\ g \in Seq(Messages) /\ Len(g) = Len(h) + Len(r) /\ Len(r) \in Nat /\ DOMAIN g = 1..Len(g)
      /\ \A i \in 1..Len(h) : g[i] = h[i]
      /\ \A i \in 1..Len(r) : g[Len(h) + i] = r[i]
      /\ \A i \in DOMAIN g : i \notin 1..Len(h) => i - Len(h) \in 1..Len(r) /\ i = Len(h) + (i - Len(h))
  BY <1>1, Joined
<1> HIDE DEF g
<1>3. /\ p \in 1..Len(h) /\ h[p].role = "ai" /\ h[p].n = c
      /\ \A j \in 1..(Len(h) - p) : h[p + j].role = "tool" /\ h[p + j].call = <<p, j>>
  BY <1>1 DEF Open
<1>4. \A i \in DOMAIN g : i > p => g[i].role = "tool" /\ g[i].call = <<p, i - p>>
  <2> SUFFICES ASSUME NEW i \in DOMAIN g, i > p PROVE g[i].role = "tool" /\ g[i].call = <<p, i - p>>
    OBVIOUS
  <2>1. CASE i \in 1..Len(h)
    <3>1. i - p \in 1..(Len(h) - p) /\ p + (i - p) = i
      BY <1>1, <1>3, <2>1
    <3> QED
      BY <1>2, <1>3, <2>1, <3>1
  <2>2. CASE i \notin 1..Len(h)
    <3>1. /\ i - Len(h) \in 1..Len(r) /\ g[i] = r[i - Len(h)]
          /\ Len(h) - p + (i - Len(h)) = i - p
      BY <1>1, <1>2, <1>3, <2>2
    <3> QED
      BY <3>1
  <2> QED
    BY <2>1, <2>2
<1>5. Open(g, p, c)
  <2>1. \A j \in 1..(Len(g) - p) : p + j \in DOMAIN g /\ p + j > p /\ (p + j) - p = j
    BY <1>1, <1>2, <1>3
  <2>2. \A j \in 1..(Len(g) - p) : g[p + j].role = "tool" /\ g[p + j].call = <<p, j>>
    BY <1>4, <2>1
  <2>3. p \in DOMAIN g /\ g[p] = h[p] /\ Len(g) - p <= c
    BY <1>1, <1>2, <1>3
  <2> QED
    BY <1>3, <2>2, <2>3 DEF Open
<1>6. Backward(g)
  <2> SUFFICES ASSUME NEW i \in DOMAIN g, g[i].role = "tool" PROVE g[i].call[1] \in 1..(i - 1)
    BY DEF Backward
  <2>1. CASE i > p
    BY <1>2, <1>3, <1>4, <2>1
  <2>2. CASE ~(i > p)
    <3>1. i \in 1..Len(h) /\ g[i] = h[i]
      BY <1>1, <1>2, <1>3, <2>2
    <3> QED
      BY <1>1, <3>1 DEF Backward
  <2> QED
    BY <2>1, <2>2
<1>7. InOrder(g)
  <2> SUFFICES ASSUME NEW k \in DOMAIN g, g[k].role = "ai"
               PROVE  \E n \in 0..g[k].n : /\ Replies(g, k) = (k + 1)..(k + n)
                                           /\ \A j \in 1..n : g[k + j].call = <<k, j>>
    BY DEF InOrder
  <2>0. k <= p /\ k \in 1..Len(h) /\ g[k] = h[k]
    <3>1. ~(k > p)
      BY <1>4
    <3>2. k \in Nat /\ p \in Nat /\ k >= 1 /\ p <= Len(h)
      BY <1>1, <1>2, <1>3
    <3>3. k \in 1..Len(h)
      BY <1>1, <3>1, <3>2
    <3> QED
      BY <1>2, <3>1, <3>2, <3>3
  <2>1. CASE k = p
    <3>1. Len(g) - p \in 0..g[k].n
      BY <1>2, <1>3, <1>5, <2>0, <2>1 DEF Open
    <3>2. \A j \in 1..(Len(g) - p) : g[k + j].call = <<k, j>>
      BY <1>5, <2>1 DEF Open
    <3>3. Replies(g, k) = (k + 1)..(k + (Len(g) - p))
      <4>1. ASSUME NEW i \in Replies(g, k) PROVE i \in (k + 1)..(k + (Len(g) - p))
        <5>1. i \in DOMAIN g /\ k \in 1..(i - 1)
          BY <1>6, <4>1 DEF Replies, Backward
        <5> QED
          BY <1>1, <1>2, <1>3, <2>1, <5>1
      <4>2. ASSUME NEW i \in (k + 1)..(k + (Len(g) - p)) PROVE i \in Replies(g, k)
        <5>1. i \in DOMAIN g /\ i > p
          BY <1>1, <1>2, <1>3, <2>1, <4>2
        <5> QED
          BY <1>4, <2>1, <5>1 DEF Replies
      <4> QED
        BY <4>1, <4>2
    <3> QED
      BY <3>1, <3>2, <3>3
  <2>2. CASE k # p
    <3>1. PICK n \in 0..h[k].n : /\ Replies(h, k) = (k + 1)..(k + n)
                                 /\ \A j \in 1..n : h[k + j].call = <<k, j>>
      BY <1>1, <2>0 DEF InOrder
    <3>2. \A j \in 1..n : k + j \in Replies(h, k)
      BY <1>1, <2>0, <3>1
    <3>3. \A j \in 1..n : k + j \in 1..Len(h)
      BY <1>1, <3>2 DEF Replies
    <3>4. Replies(g, k) = Replies(h, k)
      <4>1. ASSUME NEW i \in Replies(g, k) PROVE i \in Replies(h, k)
        <5>1. i \in DOMAIN g /\ g[i].role = "tool" /\ g[i].call[1] = k
          BY DEF Replies
        <5>2. ~(i > p)
          BY <1>4, <2>2, <5>1
        <5>3. i \in 1..Len(h)
          BY <1>1, <1>2, <1>3, <5>1, <5>2
        <5> QED
          BY <1>1, <1>2, <5>1, <5>3 DEF Replies
      <4>2. ASSUME NEW i \in Replies(h, k) PROVE i \in Replies(g, k)
        BY <1>1, <1>2 DEF Replies
      <4> QED
        BY <4>1, <4>2
    <3> QED
      BY <1>2, <2>0, <3>1, <3>3, <3>4
  <2> QED
    BY <2>1, <2>2
<1> QED
  BY <1>2, <1>5, <1>6, <1>7 DEF Sound, g

\* The answers that are there stay.
LEMMA PairedStays ==
  ASSUME NEW h \in Seq(Messages), NEW r \in Seq(Messages), NEW p, PairedBelow(h, p)
  PROVE  \A k \in DOMAIN h : k < p /\ h[k].role = "ai" => Answers(h \o r, k)
<1> DEFINE g == h \o r
<1>1. /\ Len(g) = Len(h) + Len(r) /\ Len(h) \in Nat /\ Len(r) \in Nat /\ DOMAIN h = 1..Len(h)
      /\ \A i \in 1..Len(h) : g[i] = h[i]
  BY Joined
<1> HIDE DEF g
<1> SUFFICES ASSUME NEW k \in DOMAIN h, k < p, h[k].role = "ai" PROVE Answers(g, k)
  BY DEF g
<1>2. Answers(h, k)
  BY DEF PairedBelow
<1>3. \A j \in 1..h[k].n : k + j <= Len(h) /\ k + j \in 1..Len(h)
  <2>1. h[k].n \in Nat /\ k \in Nat
    BY Elements
  <2> QED
    BY <1>1, <1>2, <2>1 DEF Answers
<1>4. g[k] = h[k]
  BY <1>1
<1> QED
  BY <1>1, <1>2, <1>3, <1>4 DEF Answers

\* Hints at the end, after the results of a batch.
LEMMA FlushHints ==
  ASSUME NEW h, Sound(h), NEW n \in Nat
  PROVE  /\ Hints(n) \in Seq(Messages) /\ Sound(h \o Hints(n))
         /\ \A i \in DOMAIN (h \o Hints(n)) : i \notin 1..Len(h) => (h \o Hints(n))[i].role = "hint"
<1> DEFINE r == Hints(n)
           g == h \o r
<1>1. /\ h \in Seq(Messages) /\ Len(h) \in Nat /\ DOMAIN h = 1..Len(h) /\ Backward(h) /\ InOrder(h)
      /\ \A i \in DOMAIN h : h[i].call[1] \in Nat /\ h[i].n \in Nat
  BY Elements DEF Sound
<1>2. r \in Seq(Messages) /\ Len(r) = n /\ \A i \in 1..n : r[i] = Hint
  BY NewMessages DEF Hints
<1>3. /\ g \in Seq(Messages) /\ Len(g) = Len(h) + n /\ DOMAIN g = 1..Len(g)
      /\ \A i \in 1..Len(h) : g[i] = h[i]
      /\ \A i \in DOMAIN g : i \notin 1..Len(h) => i - Len(h) \in 1..n /\ i = Len(h) + (i - Len(h))
      /\ \A i \in 1..n : g[Len(h) + i] = r[i]
  <2> HIDE DEF r
  <2> QED
    BY <1>1, <1>2, Joined
<1> HIDE DEF r, g
<1>4. \A i \in DOMAIN g : i \notin 1..Len(h) => g[i].role = "hint"
  BY <1>2, <1>3, NewMessages
<1>5. \A k : Replies(g, k) = Replies(h, k)
  <2> SUFFICES ASSUME NEW k PROVE Replies(g, k) = Replies(h, k)
    OBVIOUS
  <2>1. ASSUME NEW i \in Replies(g, k) PROVE i \in Replies(h, k)
    BY <1>1, <1>3, <1>4 DEF Replies
  <2>2. ASSUME NEW i \in Replies(h, k) PROVE i \in Replies(g, k)
    BY <1>1, <1>3 DEF Replies
  <2> QED
    BY <2>1, <2>2
<1>6. Backward(g)
  BY <1>1, <1>3, <1>4 DEF Backward
<1>7. InOrder(g)
  <2> SUFFICES ASSUME NEW k \in DOMAIN g, g[k].role = "ai"
               PROVE  \E m \in 0..g[k].n : /\ Replies(g, k) = (k + 1)..(k + m)
                                           /\ \A j \in 1..m : g[k + j].call = <<k, j>>
    BY DEF InOrder
  <2>1. k \in 1..Len(h) /\ g[k] = h[k]
    BY <1>3, <1>4
  <2>2. PICK m \in 0..h[k].n : /\ Replies(h, k) = (k + 1)..(k + m)
                               /\ \A j \in 1..m : h[k + j].call = <<k, j>>
    BY <1>1, <2>1 DEF InOrder
  <2>3. \A j \in 1..m : k + j \in Replies(h, k)
    BY <1>1, <2>1, <2>2
  <2>4. \A j \in 1..m : k + j \in 1..Len(h)
    BY <1>1, <2>3 DEF Replies
  <2>5. \A j \in 1..m : g[k + j].call = <<k, j>>
    BY <1>3, <2>2, <2>4
  <2>6. Replies(g, k) = Replies(h, k)
    BY <1>5
  <2> QED
    BY <2>1, <2>2, <2>5, <2>6
<1> QED
  BY <1>2, <1>3, <1>4, <1>6, <1>7 DEF Sound, g, r

\* What is added behind h leaves what is paired below p.
LEMMA PairedBelowStays ==
  ASSUME NEW h \in Seq(Messages), NEW r \in Seq(Messages), NEW p \in 1..(Len(h) + 1), PairedBelow(h, p)
  PROVE  PairedBelow(h \o r, p)
<1> DEFINE g == h \o r
<1>1. DOMAIN g = 1..(Len(h) + Len(r)) /\ Len(h) \in Nat /\ Len(r) \in Nat /\ DOMAIN h = 1..Len(h)
      /\ \A i \in 1..Len(h) : g[i] = h[i]
  BY Joined
<1>2. \A k \in DOMAIN h : k < p /\ h[k].role = "ai" => Answers(g, k)
  BY PairedStays
<1> HIDE DEF g
<1>3. \A k \in DOMAIN g : k < p => k \in DOMAIN h /\ g[k] = h[k]
  BY <1>1
<1> QED
  BY <1>2, <1>3 DEF PairedBelow, g

\* No message that asks is added: what was paired is.
LEMMA PairedWithHints ==
  ASSUME NEW h, Sound(h), PairedBelow(h, Len(h) + 1), NEW n \in Nat
  PROVE  PairedBelow(h \o Hints(n), Len(h \o Hints(n)) + 1)
<1> DEFINE g == h \o Hints(n)
<1>1. h \in Seq(Messages) /\ Hints(n) \in Seq(Messages) /\ Len(h) \in Nat
  BY FlushHints, Elements DEF Sound
<1>2. PairedBelow(g, Len(h) + 1)
  BY <1>1, PairedBelowStays
<1>3. \A i \in DOMAIN g : i \notin 1..Len(h) => g[i].role = "hint"
  BY FlushHints
<1>4. \A i \in DOMAIN g : i \in 1..Len(h) => i < Len(h) + 1
  BY <1>1
<1> HIDE DEF g
<1>5. \A k \in DOMAIN g : g[k].role = "ai" => k < Len(h) + 1
  BY <1>3, <1>4
<1> QED
  BY <1>2, <1>5 DEF PairedBelow, g

\* The last call is answered.
LEMMA Complete ==
  ASSUME NEW h, Sound(h), NEW p, NEW c \in Nat, Open(h, p, c), Len(h) - p = c, PairedBelow(h, p)
  PROVE  PairedBelow(h, Len(h) + 1)
<1>1. h \in Seq(Messages) /\ Len(h) \in Nat /\ DOMAIN h = 1..Len(h)
  BY Elements DEF Sound
<1>2. /\ p \in 1..Len(h) /\ h[p].n = c
      /\ \A j \in 1..(Len(h) - p) : h[p + j].role = "tool" /\ h[p + j].call = <<p, j>>
  BY <1>1 DEF Open
<1> SUFFICES ASSUME NEW k \in DOMAIN h, h[k].role = "ai" PROVE Answers(h, k)
  BY DEF PairedBelow
<1>3. CASE k < p
  BY <1>3 DEF PairedBelow
<1>4. CASE k = p
  BY <1>1, <1>2, <1>4 DEF Answers
<1>5. CASE k > p
  <2>1. k - p \in 1..(Len(h) - p) /\ p + (k - p) = k
    BY <1>1, <1>2, <1>5
  <2> QED
    BY <1>2, <2>1
<1> QED
  BY <1>1, <1>2, <1>3, <1>4, <1>5

\* Paired is paired up to the end.
LEMMA PairedAll ==
  ASSUME NEW h \in Seq(Messages)
  PROVE  Paired(h) <=> PairedBelow(h, Len(h) + 1)
<1>1. \A k \in DOMAIN h : k < Len(h) + 1
  BY Elements
<1> QED
  BY <1>1 DEF Paired, PairedBelow

\* The same messages, but for their size.
Alike(h, g) ==
  /\ g \in Seq(Messages) /\ Len(g) = Len(h)
  /\ \A i \in DOMAIN h : g[i].role = h[i].role /\ g[i].n = h[i].n /\ g[i].call = h[i].call

LEMMA AlikeSound ==
  ASSUME NEW h, Sound(h), NEW g, Alike(h, g)
  PROVE  /\ Sound(g)
         /\ \A p : PairedBelow(h, p) => PairedBelow(g, p)
<1>1. /\ h \in Seq(Messages) /\ Len(h) \in Nat /\ DOMAIN h = 1..Len(h) /\ Backward(h) /\ InOrder(h)
      /\ \A i \in DOMAIN h : h[i].call[1] \in Nat /\ h[i].n \in Nat
  BY Elements DEF Sound
<1>2. /\ g \in Seq(Messages) /\ Len(g) = Len(h) /\ DOMAIN g = DOMAIN h
      /\ \A i \in DOMAIN h : g[i].role = h[i].role /\ g[i].n = h[i].n /\ g[i].call = h[i].call
  BY <1>1, Elements DEF Alike
<1>3. \A k : Replies(g, k) = Replies(h, k)
  BY <1>2 DEF Replies
<1>4. Backward(g)
  BY <1>1, <1>2 DEF Backward
<1>5. InOrder(g)
  <2> SUFFICES ASSUME NEW k \in DOMAIN g, g[k].role = "ai"
               PROVE  \E m \in 0..g[k].n : /\ Replies(g, k) = (k + 1)..(k + m)
                                           /\ \A j \in 1..m : g[k + j].call = <<k, j>>
    BY DEF InOrder
  <2>1. PICK m \in 0..h[k].n : /\ Replies(h, k) = (k + 1)..(k + m)
                               /\ \A j \in 1..m : h[k + j].call = <<k, j>>
    BY <1>1, <1>2 DEF InOrder
  <2>2. \A j \in 1..m : k + j \in Replies(h, k)
    BY <1>1, <1>2, <2>1
  <2>3. \A j \in 1..m : k + j \in DOMAIN h
    BY <2>2 DEF Replies
  <2>4. \A j \in 1..m : g[k + j].call = <<k, j>>
    BY <1>2, <2>1, <2>3
  <2>5. Replies(g, k) = Replies(h, k) /\ g[k].n = h[k].n
    BY <1>2, <1>3
  <2> QED
    BY <2>1, <2>4, <2>5
<1>6. ASSUME NEW p, PairedBelow(h, p) PROVE PairedBelow(g, p)
  <2> SUFFICES ASSUME NEW k \in DOMAIN g, k < p, g[k].role = "ai" PROVE Answers(g, k)
    BY DEF PairedBelow
  <2>1. Answers(h, k) /\ g[k].n = h[k].n
    BY <1>2, <1>6 DEF PairedBelow
  <2>2. \A j \in 1..h[k].n : k + j \in DOMAIN h
    BY <1>1, <1>2, <2>1 DEF Answers
  <2> QED
    BY <1>2, <2>1, <2>2 DEF Answers
<1> QED
  BY <1>2, <1>4, <1>5, <1>6 DEF Sound

\* Compaction rewrites the bodies; number, roles and calls of the messages stay.
LEMMA CompactedAlike ==
  ASSUME NEW h \in Seq(Messages), NEW tail
  PROVE  Alike(h, Compacted(h, tail))
<1> DEFINE small(i) == 1 < i /\ i < TailStart(h, tail)
           g == [i \in DOMAIN h |-> IF small(i) THEN [h[i] EXCEPT !.big = FALSE] ELSE h[i]]
<1> HIDE DEF small
<1>1. Len(h) \in Nat /\ DOMAIN h = 1..Len(h) /\ \A i \in DOMAIN h : h[i] \in Messages
  BY Elements
<1>2. ASSUME NEW m \in Messages
      PROVE  LET x == [m EXCEPT !.big = FALSE]
             IN x \in Messages /\ x.role = m.role /\ x.n = m.n /\ x.call = m.call
  BY DEF Messages
<1>3. /\ DOMAIN g = 1..Len(h)
      /\ \A i \in 1..Len(h) : /\ g[i] \in Messages
                              /\ g[i].role = h[i].role /\ g[i].n = h[i].n /\ g[i].call = h[i].call
  BY <1>1, <1>2
<1>4. g \in [1..Len(h) -> Messages]
  BY <1>1, <1>3
<1>5. g \in Seq(Messages) /\ Len(g) = Len(h)
  <2> HIDE DEF g
  <2>1. g \in Seq(Messages)
    BY <1>1, <1>4, SeqDef
  <2> QED
    BY <1>1, <1>3, <2>1
<1>6. Alike(h, g)
  BY <1>1, <1>3, <1>5 DEF Alike
<1>7. Alike(h, h)
  BY <1>1 DEF Alike
<1>8. Compacted(h, tail) = h \/ Compacted(h, tail) = g
  BY DEF Compacted, small
<1> QED
  BY <1>6, <1>7, <1>8

LEMMA ShrunkAlike ==
  ASSUME NEW h \in Seq(Messages)
  PROVE  Alike(h, Shrunk(h))
  BY CompactedAlike DEF Shrunk

\* The repair: what every message that asks has left is what is answered.
LEMMA ResolvedSound ==
  ASSUME Sound(hist)
  PROVE  /\ Sound(Resolved) /\ Paired(Resolved)
<1> DEFINE g == Resolved
<1>1. /\ hist \in Seq(Messages) /\ Len(hist) \in Nat /\ DOMAIN hist = 1..Len(hist)
      /\ Backward(hist) /\ InOrder(hist)
      /\ \A i \in DOMAIN hist : hist[i] \in Messages /\ hist[i].call[1] \in Nat /\ hist[i].n \in Nat
  BY Elements DEF Sound
<1>2. \A k \in DOMAIN hist : hist[k].role = "ai" =>
        /\ Answered(k) \in Nat
        /\ Replies(hist, k) = (k + 1)..(k + Answered(k))
        /\ \A j \in 1..Answered(k) : hist[k + j].call = <<k, j>> /\ k + j \in Replies(hist, k)
  <2> SUFFICES ASSUME NEW k \in DOMAIN hist, hist[k].role = "ai"
               PROVE  /\ Answered(k) \in Nat
                      /\ Replies(hist, k) = (k + 1)..(k + Answered(k))
                      /\ \A j \in 1..Answered(k) : /\ hist[k + j].call = <<k, j>>
                                                   /\ k + j \in Replies(hist, k)
    OBVIOUS
  <2>1. PICK m \in 0..hist[k].n : /\ Replies(hist, k) = (k + 1)..(k + m)
                                  /\ \A j \in 1..m : hist[k + j].call = <<k, j>>
    BY <1>1 DEF InOrder
  <2>2. Answered(k) = Cardinality((k + 1)..(k + m))
    BY <2>1 DEF Answered, Replies
  <2>3. k + 1 \in Int /\ k + m \in Int /\ m \in Nat /\ k \in Nat
    BY <1>1, <2>1
  <2>4. PICK a \in Int, b \in Int : a = k + 1 /\ b = k + m
    BY <2>3
  <2>5. Cardinality(a..b) = IF a > b THEN 0 ELSE b - a + 1
    BY <2>4, FS_Interval
  <2>6. Answered(k) = m
    BY <2>2, <2>3, <2>4, <2>5
  <2>7. \A j \in 1..m : k + j \in (k + 1)..(k + m)
    BY <2>3
  <2> QED
    BY <2>1, <2>3, <2>6, <2>7
<1>3. /\ DOMAIN g = DOMAIN hist
      /\ \A i \in DOMAIN hist : g[i] = IF hist[i].role = "ai" THEN [hist[i] EXCEPT !.n = Answered(i)] ELSE hist[i]
  BY DEF Resolved
<1> HIDE DEF g
<1>4. ASSUME NEW m \in Messages, NEW n \in Nat
      PROVE  LET x == [m EXCEPT !.n = n]
             IN x \in Messages /\ x.role = m.role /\ x.n = n /\ x.call = m.call
  BY <1>4 DEF Messages
<1>5. \A i \in DOMAIN hist : /\ g[i] \in Messages /\ g[i].role = hist[i].role /\ g[i].call = hist[i].call
                             /\ g[i].role = "ai" => g[i].n = Answered(i)
  <2> SUFFICES ASSUME NEW i \in DOMAIN hist
               PROVE  /\ g[i] \in Messages /\ g[i].role = hist[i].role /\ g[i].call = hist[i].call
                      /\ g[i].role = "ai" => g[i].n = Answered(i)
    OBVIOUS
  <2>1. CASE hist[i].role = "ai"
    <3>1. hist[i] \in Messages /\ Answered(i) \in Nat
      BY <1>1, <1>2, <2>1
    <3>2. g[i] = [hist[i] EXCEPT !.n = Answered(i)]
      BY <1>3, <2>1
    <3> QED
      BY <1>4, <3>1, <3>2
  <2>2. CASE hist[i].role # "ai"
    BY <1>1, <1>3, <2>2
  <2> QED
    BY <2>1, <2>2
<1>6. g \in Seq(Messages) /\ Len(g) = Len(hist)
  <2>1. g \in [1..Len(hist) -> Messages]
    BY <1>1, <1>3, <1>5 DEF g, Resolved
  <2>2. g \in Seq(Messages)
    BY <1>1, <2>1, SeqDef
  <2> QED
    BY <1>1, <1>3, <2>2
<1>7. \A k : Replies(g, k) = Replies(hist, k)
  BY <1>3, <1>5 DEF Replies
<1>8. Backward(g)
  BY <1>1, <1>3, <1>5 DEF Backward
<1>9. InOrder(g)
  <2> SUFFICES ASSUME NEW k \in DOMAIN g, g[k].role = "ai"
               PROVE  \E m \in 0..g[k].n : /\ Replies(g, k) = (k + 1)..(k + m)
                                           /\ \A j \in 1..m : g[k + j].call = <<k, j>>
    BY DEF InOrder
  <2>1. /\ Answered(k) \in Nat /\ g[k].n = Answered(k)
        /\ Replies(hist, k) = (k + 1)..(k + Answered(k))
        /\ \A j \in 1..Answered(k) : hist[k + j].call = <<k, j>> /\ k + j \in Replies(hist, k)
    BY <1>2, <1>3, <1>5
  <2>2. \A j \in 1..Answered(k) : k + j \in DOMAIN hist
    BY <2>1 DEF Replies
  <2>3. \A j \in 1..Answered(k) : g[k + j].call = <<k, j>>
    BY <1>5, <2>1, <2>2
  <2>4. Answered(k) \in 0..g[k].n
    BY <2>1
  <2>5. Replies(g, k) = (k + 1)..(k + Answered(k))
    BY <1>7, <2>1
  <2> QED
    BY <2>3, <2>4, <2>5
<1>10. Paired(g)
  <2> SUFFICES ASSUME NEW k \in DOMAIN g, g[k].role = "ai", NEW j \in 1..g[k].n
               PROVE  k + j <= Len(g) /\ g[k + j].role = "tool" /\ g[k + j].call = <<k, j>>
    BY DEF Paired, Answers
  <2>1. j \in 1..Answered(k)
    BY <1>3, <1>5
  <2>2. hist[k + j].call = <<k, j>> /\ k + j \in Replies(hist, k)
    BY <1>2, <1>3, <1>5, <2>1
  <2>3. k + j \in DOMAIN hist /\ hist[k + j].role = "tool"
    BY <2>2 DEF Replies
  <2> QED
    BY <1>1, <1>5, <1>6, <2>2, <2>3
<1> QED
  BY <1>6, <1>8, <1>9, <1>10 DEF Sound, g

\* The messages up to one of the user's: no results are torn off.
LEMMA PrefixSound ==
  ASSUME NEW h, Sound(h), NEW s \in DOMAIN h, h[s].role = "human"
  PROVE  /\ Sound(SubSeq(h, 1, s)) /\ Len(SubSeq(h, 1, s)) = s
         /\ \A p \in Nat : p > s /\ PairedBelow(h, p) => PairedBelow(SubSeq(h, 1, s), s + 1)
<1> DEFINE g == SubSeq(h, 1, s)
<1>1. /\ h \in Seq(Messages) /\ Len(h) \in Nat /\ DOMAIN h = 1..Len(h) /\ Backward(h) /\ InOrder(h)
      /\ \A i \in DOMAIN h : h[i].call[1] \in Nat /\ h[i].n \in Nat
  BY Elements DEF Sound
<1>2. /\ g \in Seq(Messages) /\ Len(g) = s /\ DOMAIN g = 1..s /\ s \in Nat
      /\ \A i \in 1..s : g[i] = h[i] /\ i \in DOMAIN h
  BY <1>1
<1> HIDE DEF g
<1>3. Backward(g)
  BY <1>1, <1>2 DEF Backward
<1>4. ASSUME NEW k \in DOMAIN g, g[k].role = "ai"
      PROVE  \E m \in 0..h[k].n : /\ Replies(h, k) = (k + 1)..(k + m) /\ k + m < s
                                  /\ \A j \in 1..m : h[k + j].call = <<k, j>>
  <2>1. k \in DOMAIN h /\ g[k] = h[k] /\ k \in 1..s /\ k # s
    BY <1>2, <1>4
  <2>2. PICK m \in 0..h[k].n : /\ Replies(h, k) = (k + 1)..(k + m)
                               /\ \A j \in 1..m : h[k + j].call = <<k, j>>
    BY <1>1, <1>4, <2>1 DEF InOrder
  <2>3. s \notin Replies(h, k)
    BY DEF Replies
  <2>4. k + m < s
    BY <1>1, <1>2, <2>1, <2>2, <2>3
  <2> QED
    BY <2>2, <2>4
<1>5. InOrder(g)
  <2> SUFFICES ASSUME NEW k \in DOMAIN g, g[k].role = "ai"
               PROVE  \E m \in 0..g[k].n : /\ Replies(g, k) = (k + 1)..(k + m)
                                           /\ \A j \in 1..m : g[k + j].call = <<k, j>>
    BY DEF InOrder
  <2>1. k \in 1..s /\ g[k] = h[k] /\ k \in DOMAIN h
    BY <1>2
  <2>2. PICK m \in 0..h[k].n : /\ Replies(h, k) = (k + 1)..(k + m) /\ k + m < s
                               /\ \A j \in 1..m : h[k + j].call = <<k, j>>
    BY <1>4
  <2>3. m \in Nat
    BY <1>1, <2>1, <2>2
  <2>4. Replies(g, k) = Replies(h, k)
    <3>1. ASSUME NEW i \in Replies(g, k) PROVE i \in Replies(h, k)
      BY <1>2 DEF Replies
    <3>2. ASSUME NEW i \in Replies(h, k) PROVE i \in Replies(g, k)
      <4>1. i \in 1..s
        BY <1>2, <2>1, <2>2, <2>3
      <4> QED
        BY <1>2, <4>1 DEF Replies
    <3> QED
      BY <3>1, <3>2
  <2>5. \A j \in 1..m : k + j \in 1..s
    BY <1>2, <2>1, <2>2, <2>3
  <2>6. \A j \in 1..m : g[k + j].call = <<k, j>>
    BY <1>2, <2>2, <2>5
  <2> QED
    BY <2>1, <2>2, <2>4, <2>6
<1>6. ASSUME NEW p \in Nat, p > s, PairedBelow(h, p) PROVE PairedBelow(g, s + 1)
  <2> SUFFICES ASSUME NEW k \in DOMAIN g, g[k].role = "ai" PROVE Answers(g, k)
    BY DEF PairedBelow
  <2>1. k \in 1..s /\ g[k] = h[k] /\ k \in DOMAIN h /\ k # s
    BY <1>2
  <2>2. Answers(h, k)
    BY <1>1, <1>2, <1>6, <2>1 DEF PairedBelow
  <2>3. PICK m \in 0..h[k].n : Replies(h, k) = (k + 1)..(k + m) /\ k + m < s
    BY <1>4
  <2>4. ASSUME NEW j \in 1..h[k].n
        PROVE  k + j <= s /\ g[k + j].role = "tool" /\ g[k + j].call = <<k, j>>
    <3>1. k + j <= Len(h) /\ h[k + j].role = "tool" /\ h[k + j].call = <<k, j>>
      BY <2>2 DEF Answers
    <3>2. k + j \in DOMAIN h /\ k \in Nat /\ j \in Nat /\ m \in Nat
      BY <1>1, <2>1, <2>3, <3>1
    <3>3. k + j \in Replies(h, k)
      BY <3>1, <3>2 DEF Replies
    <3>4. k + j \in 1..s
      BY <1>2, <2>3, <3>2, <3>3
    <3> QED
      BY <1>2, <3>1, <3>4
  <2> QED
    BY <1>2, <2>1, <2>4 DEF Answers
<1> QED
  BY <1>2, <1>3, <1>5, <1>6 DEF Sound, g

----------------------------------------------------------------------------
(* The rest of the types *)

RestTypes ==
  /\ pc \in PCs /\ ctx \in {"live", "canceled", "expired"} /\ start \in Nat
  /\ res \in [1..Len(calls) -> Failures \cup {"none", "ok"}]
  /\ at \in Nat /\ clean \in BOOLEAN /\ pending \in Nat
  /\ wrap \in {"no", "tools", "deadline"} /\ spent \in Nat
  /\ unbooked \in SUBSET Nat /\ cut \in BOOLEAN /\ orphaned \in BOOLEAN /\ runs \in Nat

\* However a result is observed, the hints it asks for are counted.
LEMMA SeenHints == Seen.hints \in Nat
<1>1. \A b, c, r : IsFiniteSet(HintsDue(b, c, r)) /\ Cardinality(HintsDue(b, c, r)) \in Nat
  <2>1. TAKE b, c, r
  <2>2. IsFiniteSet({"cycle", "failure", "repeat", "arguments"})
    <3>1. IsFiniteSet({})
      BY FS_EmptySet
    <3>2. IsFiniteSet({} \cup {"cycle"} \cup {"failure"} \cup {"repeat"} \cup {"arguments"})
      BY <3>1, FS_AddElement
    <3>3. {} \cup {"cycle"} \cup {"failure"} \cup {"repeat"} \cup {"arguments"}
             = {"cycle", "failure", "repeat", "arguments"}
      OBVIOUS
    <3> QED
      BY <3>2, <3>3
  <2>3. HintsDue(b, c, r) \subseteq {"cycle", "failure", "repeat", "arguments"}
    BY DEF HintsDue
  <2> QED
    BY <2>2, <2>3, FS_Subset, FS_CardinalityType
<1>2. ASSUME NEW b, NEW c, NEW r PROVE Observe(b, c, r).hints \in Nat
  <2> DEFINE b1 == CountRepeat(b, c, r)
             b2 == [b1 EXCEPT !.totals[c] = @ + 1]
             b3 == CountFailure(b2, c, r)
             b4 == CountInvalid(b3, c, r)
             Fatal(x) == [breaker |-> x, hints |-> 0, fatal |-> TRUE]
             end == [breaker |-> b4, hints |-> Cardinality(HintsDue(b4, c, r)),
                     fatal |-> r = "invalid" /\ b4.row >= Repeat.invalid]
  <2>1. Observe(b, c, r) \in {Fatal(b1), Fatal(b2), Fatal(b3), end}
    <3> HIDE DEF b1, b2, b3, b4, Fatal, end
    <3> QED
      BY DEF Observe, b1, b2, b3, b4, Fatal, end
  <2>2. end.hints \in Nat
    BY <1>1
  <2>3. \A x : Fatal(x).hints = 0
    OBVIOUS
  <2> HIDE DEF b1, b2, b3, b4, Fatal, end
  <2> QED
    BY <2>1, <2>2, <2>3
<1> QED
  BY <1>2 DEF Seen

LEMMA TokensCounted ==
  ASSUME NEW s, IsFiniteSet(s)
  PROVE  SubagentTokens(s) \in Nat
<1>1. {i \in s : calls[i].tool = "task" /\ res[i] # "refused"} \subseteq s
  OBVIOUS
<1> QED
  BY <1>1, FS_Subset, FS_CardinalityType DEF SubagentTokens

\* Steps that touch no batch.
LEMMA RestOutside ==
  ASSUME RunInv, RestTypes, hist \in Seq(Messages), Resolved \in Seq(Messages),
         \/ SendLine \/ Continue \/ Cancel \/ Expire \/ Top \/ RequestFails \/ RequestOverflows
         \/ FinalAnswer \/ OverflowStop \/ \E b \in Batches : RefuseCalls(b)
  PROVE  RestTypes'
<1>1. CASE SendLine \/ Continue
  <2>1. PICK m \in Seq(Messages) : StartRun(m) /\ cut' \in {cut, FALSE}
    BY <1>1 DEF SendLine, Continue
  <2>2. Len(m) \in Nat
    BY <2>1
  <2>3. cut' \in BOOLEAN
    BY <2>1 DEF RestTypes
  <2>4. UNCHANGED <<calls, at, res, clean, pending>>
    BY <2>1 DEF StartRun, batch
  <2>5. /\ pc' = "top" /\ ctx' = "live" /\ wrap' = "no" /\ orphaned' = FALSE
        /\ start' = Len(m) + 1 /\ unbooked' = {} /\ runs' = runs + 1 /\ spent' = 0
    BY <2>1 DEF StartRun
  <2>6. start' \in Nat /\ unbooked' \in SUBSET Nat /\ runs' \in Nat /\ spent' \in Nat
    BY <2>2, <2>5 DEF RestTypes
  <2>7. /\ pc' \in PCs /\ ctx' \in {"live", "canceled", "expired"}
        /\ wrap' \in {"no", "tools", "deadline"} /\ orphaned' \in BOOLEAN
    BY <2>5 DEF PCs
  <2> QED
    BY <2>3, <2>4, <2>6, <2>7 DEF RestTypes
<1>2. CASE Cancel \/ Expire
  BY <1>2 DEF Cancel, Expire, batch, counts, history, RestTypes, PCs
<1>3. CASE Top
  <2>1. wrap' \in {"no", "tools", "deadline"}
    BY <1>3 DEF Top, RestTypes
  <2> QED
    BY <1>3, <2>1 DEF Top, batch, counts, history, RestTypes, PCs
<1>4. CASE RequestFails \/ RequestOverflows
  BY <1>4 DEF RequestFails, RequestOverflows, batch, counts, history, RestTypes, PCs
<1>5. CASE FinalAnswer \/ OverflowStop \/ \E b \in Batches : RefuseCalls(b)
  <2>1. /\ pc' \in {"idle", "top"} /\ spent' = spent + 1
        /\ UNCHANGED <<ctx, start, calls, at, res, clean, pending, wrap, unbooked, cut, orphaned, runs>>
    BY <1>5 DEF FinalAnswer, OverflowStop, RefuseCalls, batch, history
  <2> QED
    BY <2>1 DEF RestTypes, PCs
<1> QED
  BY <1>1, <1>2, <1>3, <1>4, <1>5

\* A batch begins.
LEMMA RestDispatch ==
  ASSUME RestTypes, NEW b \in Batches, DispatchSerial(b) \/ DispatchFan(b)
  PROVE  RestTypes'
<1>1. b \in Seq(Call) /\ DOMAIN b = 1..Len(b)
  BY RunAssumption
<1>2. calls' = b /\ res' \in [1..Len(b) -> Failures \cup {"none", "ok"}] /\ pc' \in PCs
  BY <1>1 DEF DispatchSerial, DispatchFan, Dispatch, Failures, PCs
<1>3. /\ spent' = spent + 1 /\ at' = 1 /\ clean' = TRUE /\ pending' = 0
      /\ UNCHANGED <<ctx, start, wrap, unbooked, cut, orphaned, runs>>
  BY DEF DispatchSerial, DispatchFan, Dispatch, history
<1> QED
  BY <1>2, <1>3 DEF RestTypes

\* Calls are executed.
LEMMA RestExecutes ==
  ASSUME RunInv, RestTypes,
         \/ \E i \in DOMAIN exec : FanStart(i) \/ ToolReturns(i)
         \/ SegmentDone \/ SerialStart
  PROVE  RestTypes'
<1>1. DOMAIN exec = 1..Len(calls) /\ calls \in Seq(Call) /\ Len(calls) \in Nat
  BY DEF RunInv, BatchShape
<1>2. CASE \E i \in DOMAIN exec : FanStart(i)
  BY <1>2 DEF FanStart, counts, RestTypes
<1>3. CASE \E i \in DOMAIN exec : ToolReturns(i)
  <2>1. PICK i \in DOMAIN exec : ToolReturns(i)
    BY <1>3
  <2>2. PICK r \in Outcome[calls[i].tool] : res' = [res EXCEPT ![i] = r]
    BY <2>1 DEF ToolReturns
  <2>3. calls[i].tool \in Tools
    <3>1. calls[i] \in Call
      BY <1>1
    <3> QED
      BY <3>1 DEF Call
  <2>4. r \in Failures \cup {"none", "ok"}
    BY <2>3, RunAssumption DEF Failures
  <2>5. res' \in [1..Len(calls) -> Failures \cup {"none", "ok"}]
    BY <2>2, <2>4 DEF RestTypes
  <2>6. unbooked' \in SUBSET Nat /\ calls' = calls
    BY <1>1, <2>1 DEF ToolReturns, RestTypes
  <2> QED
    BY <2>1, <2>5, <2>6 DEF ToolReturns, counts, history, RestTypes
<1>4. CASE SegmentDone
  <2>1. /\ pc = "fan" /\ pc' \in {"fan", "observe"} /\ calls' = calls
        /\ at' \in {1, at + Cardinality(Segment(calls, at))}
        /\ UNCHANGED <<ctx, start, res, clean, pending, wrap, spent, unbooked, cut, orphaned, runs>>
    BY <1>4 DEF SegmentDone, counts, history
  <2>2. Cardinality(Segment(calls, at)) \in Nat
    BY <2>1, SegmentInterval DEF RunInv, BatchShape, Batching
  <2>3. at' \in Nat
    BY <2>1, <2>2 DEF RestTypes
  <2> QED
    BY <2>1, <2>3 DEF RestTypes, PCs
<1>5. CASE SerialStart
  <2>1. res' \in [1..Len(calls) -> Failures \cup {"none", "ok"}]
    BY <1>5 DEF SerialStart, RestTypes, Failures
  <2> QED
    BY <1>5, <2>1 DEF SerialStart, RestTypes
<1> QED
  BY <1>2, <1>3, <1>4, <1>5

\* A batch ends: nothing of it is left.
LEMMA RestEnds ==
  ASSUME RestTypes, NoBatch, pc' \in PCs, spent' \in Nat, unbooked' \in SUBSET Nat,
         cut' \in BOOLEAN, orphaned' \in BOOLEAN, UNCHANGED <<ctx, start, wrap, runs>>
  PROVE  RestTypes'
<1>1. Len(calls') = 0 /\ res' \in [1..0 -> Failures \cup {"none", "ok"}]
  <2>1. <<>> \in [1..0 -> Failures \cup {"none", "ok"}]
    OBVIOUS
  <2> QED
    BY <2>1 DEF NoBatch
<1> QED
  BY <1>1 DEF RestTypes, NoBatch

\* Results are booked.
LEMMA RestBooks ==
  ASSUME RunInv, RestTypes, Abandon \/ Books
  PROVE  RestTypes'
<1>1. Batching => calls \in Seq(Call) /\ Len(calls) \in Nat /\ at \in Nat
  BY DEF RunInv, BatchShape
<1>2. Batching => SubagentTokens({at}) \in Nat /\ SubagentTokens(at..Len(calls)) \in Nat
  <2>1. IsFiniteSet({at})
    BY FS_Singleton
  <2>2. Batching => IsFiniteSet(at..Len(calls))
    BY <1>1, FS_Interval
  <2> QED
    BY <2>1, <2>2, TokensCounted
<1>3. ASSUME NEW s, Booked(s), SubagentTokens(s) \in Nat
      PROVE  spent' \in Nat /\ unbooked' \in SUBSET Nat
  <2>1. spent' = spent + SubagentTokens(s) /\ spent \in Nat
    BY <1>3 DEF Booked, RestTypes
  <2>2. unbooked' = unbooked \ s /\ unbooked \subseteq Nat
    BY <1>3 DEF Booked, RestTypes
  <2>3. spent' \in Nat
    BY <1>3, <2>1
  <2>4. unbooked' \subseteq Nat
    BY <2>2
  <2> QED
    BY <2>3, <2>4
<1>4. CASE Abandon
  BY <1>4, RestEnds DEF Abandon, counts, RestTypes, PCs
<1>5. CASE ObserveNext \/ SerialNext
  <2>1. /\ pending' = pending + Seen.hints /\ clean' = (clean /\ res[at] # "invalid") /\ Booked({at})
        /\ at' = at + 1 /\ Batching
        /\ UNCHANGED <<pc, ctx, start, calls, res, wrap, history>>
    BY <1>5 DEF ObserveNext, SerialNext, NextResult, ResultAndHints, Batching
  <2>2. spent' \in Nat /\ unbooked' \in SUBSET Nat
    BY <1>2, <1>3, <2>1
  <2> QED
    BY <2>1, <2>2, SeenHints DEF RestTypes, history
<1>6. CASE ObserveLast \/ SerialLast
  <2>1. /\ Booked({at}) /\ NoBatch /\ Batching /\ pc' \in PCs
        /\ UNCHANGED <<ctx, start, wrap, history>>
    BY <1>6 DEF ObserveLast, SerialLast, LastResult, Batching, PCs
  <2>2. spent' \in Nat /\ unbooked' \in SUBSET Nat
    BY <1>2, <1>3, <2>1
  <2> QED
    BY <2>1, <2>2, RestEnds DEF RestTypes, history
<1>7. CASE FanFatal
  <2>1. /\ Booked(at..Len(calls)) /\ NoBatch /\ Batching /\ pc' \in PCs
        /\ UNCHANGED <<ctx, start, wrap, history>>
    BY <1>7 DEF FanFatal, BookRest, Batching, PCs
  <2>2. spent' \in Nat /\ unbooked' \in SUBSET Nat
    BY <1>2, <1>3, <2>1
  <2> QED
    BY <2>1, <2>2, RestEnds DEF RestTypes, history
<1>8. CASE SerialFatal \/ SerialCut
  <2>1. /\ Booked({at}) /\ NoBatch /\ Batching /\ pc' \in PCs
        /\ UNCHANGED <<ctx, start, wrap, orphaned, runs>>
        /\ cut' \in {cut, cut \/ at < Len(calls)}
    BY <1>8 DEF SerialFatal, SerialCut, Batching, PCs, history
  <2>2. spent' \in Nat /\ unbooked' \in SUBSET Nat
    BY <1>2, <1>3, <2>1
  <2>3. cut' \in BOOLEAN
    BY <2>1 DEF RestTypes
  <2> QED
    BY <2>1, <2>2, <2>3, RestEnds DEF RestTypes
<1> QED
  BY <1>4, <1>5, <1>6, <1>7, <1>8 DEF Books

LEMMA RestStep ==
  ASSUME RunInv, RestTypes, hist \in Seq(Messages), Resolved \in Seq(Messages), [Next]_vars
  PROVE  RestTypes'
<1>1. CASE Requests \/ SendLine \/ Continue \/ Cancel \/ Expire
  BY <1>1, RestOutside, RestDispatch DEF Requests
<1>2. CASE Executes
  BY <1>2, RestExecutes DEF Executes
<1>3. CASE Abandon \/ Books
  BY <1>3, RestBooks
<1>4. CASE UNCHANGED vars
  BY <1>4 DEF vars, batch, counts, history, RestTypes
<1> QED
  BY <1>1, <1>2, <1>3, <1>4 DEF Next, Run

LEMMA RestInit == Init => RestTypes
<1> SUFFICES ASSUME Init PROVE RestTypes
  OBVIOUS
<1>1. Len(calls) = 0 /\ res \in [1..0 -> Failures \cup {"none", "ok"}]
  BY DEF Init
<1> QED
  BY <1>1 DEF Init, RestTypes, PCs

----------------------------------------------------------------------------
(* The messages, step by step *)

\* The run's line from the user is where it was.
Started(h, s) == s \in DOMAIN h /\ h[s].role = "human"

LEMMA StartStays ==
  ASSUME NEW h \in Seq(Messages), NEW r \in Seq(Messages), NEW s, Started(h, s)
  PROVE  Started(h \o r, s)
<1>1. DOMAIN (h \o r) = 1..(Len(h) + Len(r)) /\ Len(h) \in Nat /\ Len(r) \in Nat /\ DOMAIN h = 1..Len(h)
      /\ \A i \in 1..Len(h) : (h \o r)[i] = h[i]
  BY Joined
<1> QED
  BY <1>1 DEF Started

\* What the invariant says of a state without a batch.
LEMMA QuietMessages ==
  ASSUME ~Batching
  PROVE  MessageInv <=> /\ Sound(hist) /\ (pc # "idle" => Started(hist, start))
                        /\ (~cut => PairedBelow(hist, Len(hist) + 1))
  BY DEF MessageInv, Started

LEMMA QuietMessagesNext ==
  ASSUME ~Batching', Sound(hist'), pc' # "idle" => Started(hist', start'),
         ~cut' => PairedBelow(hist', Len(hist') + 1)
  PROVE  MessageInv'
  BY DEF MessageInv, Started

LEMMA MessageInit == Init => MessageInv
<1> SUFFICES ASSUME Init PROVE MessageInv
  OBVIOUS
<1>1. hist = <<>> /\ DOMAIN hist = {} /\ hist \in Seq(Messages) /\ pc = "idle"
  BY DEF Init
<1>2. Sound(hist) /\ PairedBelow(hist, Len(hist) + 1)
  BY <1>1 DEF Sound, Backward, InOrder, PairedBelow
<1> QED
  BY <1>1, <1>2, QuietMessages DEF Batching

\* A run starts.
LEMMA StartMessages ==
  ASSUME MessageInv, SendLine \/ Continue
  PROVE  MessageInv'
<1>1. ~Batching /\ ~Batching'
  BY DEF SendLine, Continue, StartRun, Batching
<1>2. Sound(hist) /\ (~cut => PairedBelow(hist, Len(hist) + 1))
  BY <1>1, QuietMessages
<1>3. PICK m : /\ Sound(m) /\ (~cut' => PairedBelow(m, Len(m) + 1))
               /\ hist' = Append(m, Human) /\ start' = Len(m) + 1
  <2>1. CASE SendLine
    BY <1>2, <2>1 DEF SendLine, StartRun
  <2>2. CASE Continue
    <3>1. Sound(Resolved) /\ Paired(Resolved) /\ Resolved \in Seq(Messages)
      BY <1>2, ResolvedSound DEF Sound
    <3>2. PairedBelow(Resolved, Len(Resolved) + 1)
      BY <3>1, PairedAll
    <3> QED
      BY <3>1, <3>2, <2>2 DEF Continue, StartRun
  <2> QED
    BY <2>1, <2>2
<1>4. Human \in Messages /\ Human.role # "tool" /\ Human.role = "human"
  BY NewMessages
<1>5. /\ Sound(hist') /\ Len(hist') = Len(m) + 1 /\ DOMAIN hist' = 1..(Len(m) + 1)
      /\ hist'[Len(m) + 1] = Human
      /\ \A i \in DOMAIN m : i \in DOMAIN hist' /\ hist'[i] = m[i]
      /\ Len(m) \in Nat /\ m \in Seq(Messages) /\ DOMAIN m = 1..Len(m)
  <2>1. m \in Seq(Messages)
    BY <1>3 DEF Sound
  <2> QED
    BY <1>3, <1>4, <2>1, AppendOther, Elements
<1>6. Started(hist', start')
  BY <1>3, <1>4, <1>5 DEF Started
<1>7. ASSUME ~cut' PROVE PairedBelow(hist', Len(hist') + 1)
  <2>1. PairedBelow(m, Len(m) + 1)
    BY <1>3, <1>7
  <2> SUFFICES ASSUME NEW k \in DOMAIN hist', hist'[k].role = "ai" PROVE Answers(hist', k)
    BY DEF PairedBelow
  <2>2. k \in 1..Len(m) /\ k < Len(m) + 1
    BY <1>4, <1>5
  <2>3. Answers(m, k) /\ hist'[k] = m[k] /\ m[k].n \in Nat
    BY <1>5, <2>1, <2>2, Elements DEF PairedBelow
  <2>4. \A j \in 1..m[k].n : k + j \in 1..Len(m) /\ k + j <= Len(hist')
    BY <1>5, <2>2, <2>3 DEF Answers
  <2> QED
    BY <1>5, <2>3, <2>4 DEF Answers
<1> QED
  BY <1>1, <1>5, <1>6, <1>7, QuietMessagesNext

\* A last message that asks for nothing, or that is asked for nothing.
LEMMA AppendPaired ==
  ASSUME NEW h, Sound(h), PairedBelow(h, Len(h) + 1), NEW m \in Messages, m.role # "tool", m.n = 0
  PROVE  PairedBelow(Append(h, m), Len(Append(h, m)) + 1)
<1> DEFINE g == Append(h, m)
<1>1. /\ Len(g) = Len(h) + 1 /\ DOMAIN g = 1..(Len(h) + 1) /\ g[Len(h) + 1] = m
      /\ \A i \in DOMAIN h : i \in DOMAIN g /\ g[i] = h[i]
  BY AppendOther
<1>2. h \in Seq(Messages) /\ Len(h) \in Nat /\ DOMAIN h = 1..Len(h) /\ \A i \in DOMAIN h : h[i].n \in Nat
  BY Elements DEF Sound
<1> HIDE DEF g
<1> SUFFICES ASSUME NEW k \in DOMAIN g, g[k].role = "ai" PROVE Answers(g, k)
  BY DEF PairedBelow, g
<1>3. CASE k = Len(h) + 1
  BY <1>1, <1>3 DEF Answers
<1>4. CASE k \in 1..Len(h)
  <2>1. Answers(h, k) /\ g[k] = h[k] /\ h[k].n \in Nat
    BY <1>1, <1>2, <1>4 DEF PairedBelow
  <2>2. \A j \in 1..h[k].n : k + j \in 1..Len(h) /\ k + j <= Len(g)
    BY <1>1, <1>2, <1>4, <2>1 DEF Answers
  <2> QED
    BY <1>1, <1>2, <2>1, <2>2 DEF Answers
<1>5. k \in 1..Len(h) \/ k = Len(h) + 1
  BY <1>1, <1>2
<1> QED
  BY <1>3, <1>4, <1>5

\* Text, or none.
LEMMA SaidSound ==
  ASSUME Sound(hist), NEW text \in BOOLEAN
  PROVE  /\ Sound(Said(text))
         /\ PairedBelow(hist, Len(hist) + 1) => PairedBelow(Said(text), Len(Said(text)) + 1)
         /\ \A s : Started(hist, s) => Started(Said(text), s)
<1>1. Reply(0) \in Messages /\ Reply(0).role = "ai" /\ Reply(0).n = 0
  BY NewMessages
<1>2. CASE text
  <2>1. Said(text) = Append(hist, Reply(0))
    BY <1>2 DEF Said
  <2> QED
    BY <1>1, <2>1, AppendOther, AppendPaired DEF Started
<1>3. CASE ~text
  BY <1>3 DEF Said
<1> QED
  BY <1>2, <1>3

\* A compacted history starts where the other did.
LEMMA AlikeStarted ==
  ASSUME NEW h \in Seq(Messages), NEW g, Alike(h, g), NEW s, Started(h, s)
  PROVE  Started(g, s)
<1>1. DOMAIN h = 1..Len(h) /\ DOMAIN g = 1..Len(g)
  BY Elements DEF Alike
<1> QED
  BY <1>1 DEF Alike, Started

\* A turn without tool calls.
LEMMA TurnMessages ==
  ASSUME MessageInv, Top \/ RequestFails \/ RequestOverflows \/ FinalAnswer \/ OverflowStop
  PROVE  MessageInv'
<1>1. /\ ~Batching /\ ~Batching' /\ pc # "idle"
      /\ UNCHANGED <<cut, start>>
  BY DEF Top, RequestFails, RequestOverflows, FinalAnswer, OverflowStop, Usable, Batching, history
<1>2. Sound(hist) /\ Started(hist, start) /\ (~cut => PairedBelow(hist, Len(hist) + 1))
  BY <1>1, QuietMessages
<1>3. ASSUME NEW h, Sound(h), NEW g, Alike(h, g), PairedBelow(h, Len(h) + 1)
      PROVE  PairedBelow(g, Len(g) + 1)
  BY <1>3, AlikeSound DEF Alike
<1>4. \A h \in Seq(Messages) : Alike(h, Shrunk(h))
  BY ShrunkAlike
<1>5. /\ Sound(hist') /\ Started(hist', start)
      /\ (~cut => PairedBelow(hist', Len(hist') + 1))
  <2>1. CASE UNCHANGED hist
    BY <1>2, <2>1
  <2>2. CASE hist' = Shrunk(hist)
    <3>1. Alike(hist, hist') /\ hist \in Seq(Messages)
      BY <1>2, <1>4, <2>2 DEF Sound
    <3> QED
      BY <1>2, <1>3, <3>1, AlikeSound, AlikeStarted
  <2>3. CASE \E text \in BOOLEAN : hist' = Said(text)
    BY <1>2, <2>3, SaidSound
  <2>4. CASE \E text \in BOOLEAN : hist' = Shrunk(Said(text))
    <3>1. PICK text \in BOOLEAN : hist' = Shrunk(Said(text))
      BY <2>4
    <3>2. PICK h : h = Said(text)
      OBVIOUS
    <3>3. /\ Sound(h) /\ Started(h, start)
          /\ (~cut => PairedBelow(h, Len(h) + 1))
      BY <1>2, <3>2, SaidSound
    <3>4. Alike(h, hist') /\ h \in Seq(Messages)
      BY <1>4, <3>1, <3>2, <3>3 DEF Sound
    <3> QED
      BY <1>3, <3>3, <3>4, AlikeSound, AlikeStarted
  <2> QED
    BY <2>1, <2>2, <2>3, <2>4 DEF Top, RequestFails, RequestOverflows, FinalAnswer, OverflowStop
<1> QED
  BY <1>1, <1>5, QuietMessagesNext

\* A batch begins: its message is the last, and nothing answers it yet.
LEMMA AskMessages ==
  ASSUME NEW h, Sound(h), NEW c \in Nat
  PROVE  /\ Sound(Append(h, Reply(c))) /\ Len(Append(h, Reply(c))) = Len(h) + 1
         /\ Open(Append(h, Reply(c)), Len(h) + 1, c)
         /\ PairedBelow(h, Len(h) + 1) => PairedBelow(Append(h, Reply(c)), Len(h) + 1)
         /\ \A s : Started(h, s) => Started(Append(h, Reply(c)), s)
<1> DEFINE g == Append(h, Reply(c))
<1>1. Reply(c) \in Messages /\ Reply(c).role = "ai" /\ Reply(c).n = c
  BY NewMessages
<1>2. /\ Sound(g) /\ Len(g) = Len(h) + 1 /\ DOMAIN g = 1..(Len(h) + 1) /\ g[Len(h) + 1] = Reply(c)
      /\ \A i \in DOMAIN h : i \in DOMAIN g /\ g[i] = h[i]
  BY <1>1, AppendOther
<1>3. /\ h \in Seq(Messages) /\ Len(h) \in Nat /\ DOMAIN h = 1..Len(h)
      /\ \A i \in DOMAIN h : h[i].n \in Nat
  BY Elements DEF Sound
<1> HIDE DEF g
<1>4. Open(g, Len(h) + 1, c)
  <2>1. Len(h) + 1 \in DOMAIN g /\ Len(g) - (Len(h) + 1) = 0 /\ 1..0 = {}
    BY <1>2, <1>3
  <2> QED
    BY <1>1, <1>2, <2>1 DEF Open
<1>5. ASSUME PairedBelow(h, Len(h) + 1) PROVE PairedBelow(g, Len(h) + 1)
  <2> SUFFICES ASSUME NEW k \in DOMAIN g, k < Len(h) + 1, g[k].role = "ai" PROVE Answers(g, k)
    BY DEF PairedBelow
  <2>1. k \in DOMAIN h /\ g[k] = h[k]
    BY <1>2, <1>3
  <2>2. Answers(h, k) /\ h[k].n \in Nat
    BY <1>3, <1>5, <2>1 DEF PairedBelow
  <2>3. \A j \in 1..h[k].n : k + j \in 1..Len(h) /\ k + j <= Len(g)
    BY <1>2, <1>3, <2>1, <2>2 DEF Answers
  <2> QED
    BY <1>2, <1>3, <2>1, <2>2, <2>3 DEF Answers
<1>6. \A s : Started(h, s) => Started(g, s)
  BY <1>2 DEF Started
<1> QED
  BY <1>2, <1>4, <1>5, <1>6 DEF g

LEMMA DispatchMessages ==
  ASSUME MessageInv, NEW b \in Batches, DispatchSerial(b) \/ DispatchFan(b)
  PROVE  MessageInv'
<1>1. /\ ~Batching /\ pc = "request" /\ Batching' /\ hist' = Append(hist, Reply(Len(b)))
      /\ calls' = b /\ at' = 1 /\ UNCHANGED <<cut, start>>
  BY DEF DispatchSerial, DispatchFan, Dispatch, Usable, Batching, history
<1>2. Sound(hist) /\ Started(hist, start) /\ (~cut => PairedBelow(hist, Len(hist) + 1))
  BY <1>1, QuietMessages
<1>3. Len(b) \in Nat
  BY RunAssumption
<1>4. /\ Sound(hist') /\ Len(hist') = Len(hist) + 1 /\ Open(hist', Len(hist) + 1, Len(b))
      /\ PairedBelow(hist, Len(hist) + 1) => PairedBelow(hist', Len(hist) + 1)
      /\ Started(hist', start)
  BY <1>1, <1>2, <1>3, AskMessages
<1>5. Len(hist) \in Nat
  BY <1>2, Elements DEF Sound
<1>6. Asked' = Len(hist) + 1
  <2>1. Asked' = Len(hist') \/ Asked' = Len(hist') - (at' - 1)
    BY DEF Asked, Turn
  <2> QED
    BY <1>1, <1>4, <1>5, <2>1
<1> QED
  BY <1>1, <1>2, <1>4, <1>6 DEF MessageInv, Started

\* Results for the calls from one on.
Row(k, first, n, big) == [i \in 1..n |-> Result(k, first + i - 1, big[i])]

LEMMA ResultRow ==
  ASSUME NEW k \in Nat, NEW first \in Nat \ {0}, NEW n \in Nat, NEW big,
         \A i \in 1..n : big[i] \in BOOLEAN
  PROVE  /\ Row(k, first, n, big) \in Seq(Messages) /\ Len(Row(k, first, n, big)) = n
         /\ \A i \in 1..n : /\ Row(k, first, n, big)[i].role = "tool"
                            /\ Row(k, first, n, big)[i].call = <<k, first + i - 1>>
<1> DEFINE r == Row(k, first, n, big)
<1>0. DOMAIN r = 1..n /\ \A i \in 1..n : r[i] = Result(k, first + i - 1, big[i])
  BY DEF Row
<1>1. ASSUME NEW i \in 1..n
      PROVE  r[i] \in Messages /\ r[i].role = "tool" /\ r[i].call = <<k, first + i - 1>>
  <2>1. first + i - 1 \in Nat /\ big[i] \in BOOLEAN
    OBVIOUS
  <2>2. PICK j \in Nat, x \in BOOLEAN : j = first + i - 1 /\ x = big[i]
    BY <2>1
  <2>3. r[i] = Result(k, j, x)
    BY <1>0, <2>2
  <2> QED
    BY <2>2, <2>3, NewMessages
<1>2. r \in [1..n -> Messages]
  BY <1>1 DEF Row
<1> HIDE DEF r
<1>3. r \in Seq(Messages)
  BY <1>2, SeqDef
<1>4. Len(r) = n
  BY <1>0, <1>3
<1> QED
  BY <1>1, <1>3, <1>4 DEF r

\* Refusals are results, from one call to the end of the batch.
LEMMA RefusalMessages ==
  ASSUME NEW k \in Nat, NEW b \in Seq(Call), NEW first \in 1..(Len(b) + 1)
  PROVE  /\ Refusals(k, first, b) \in Seq(Messages) /\ Len(Refusals(k, first, b)) = Len(b) - first + 1
         /\ \A i \in 1..(Len(b) - first + 1) :
              /\ Refusals(k, first, b)[i].role = "tool"
              /\ Refusals(k, first, b)[i].call = <<k, first + i - 1>>
<1>1. Len(b) \in Nat /\ Len(b) - first + 1 \in Nat /\ first \in Nat \ {0}
  OBVIOUS
<1>2. PICK n \in Nat : n = Len(b) - first + 1
  BY <1>1
<1> DEFINE big == [i \in 1..n |-> FALSE]
<1>3. (\A i \in 1..n : big[i] \in BOOLEAN) /\ \A i \in 1..n : big[i] = FALSE
  OBVIOUS
<1> HIDE DEF big
<1>4. Refusals(k, first, b) = Row(k, first, n, big)
  BY <1>2, <1>3 DEF Refusals, Row
<1>5. PICK r : r = Refusals(k, first, b)
  OBVIOUS
<1>6. r = Row(k, first, n, big)
  BY <1>4, <1>5
<1>7. /\ r \in Seq(Messages) /\ Len(r) = n
      /\ \A i \in 1..n : r[i].role = "tool" /\ r[i].call = <<k, first + i - 1>>
  BY <1>1, <1>3, <1>6, ResultRow
<1> QED
  BY <1>2, <1>5, <1>7

\* A refused batch is answered in full.
LEMMA RefuseMessages ==
  ASSUME MessageInv, NEW b \in Batches, RefuseCalls(b)
  PROVE  MessageInv'
<1> DEFINE g == Append(hist, Reply(Len(b)))
           p == Len(hist) + 1
           r == Refusals(p, 1, b)
<1>1. /\ ~Batching /\ pc # "idle" /\ pc' = "idle" /\ ~Batching'
      /\ hist' = g \o r /\ UNCHANGED <<cut, start>>
  BY DEF RefuseCalls, Usable, Batching, history
<1>2. Sound(hist) /\ (~cut => PairedBelow(hist, p))
  BY <1>1, QuietMessages
<1>3. b \in Seq(Call) /\ Len(b) \in Nat /\ Len(hist) \in Nat /\ p \in Nat
  <2>1. Len(hist) \in Nat
    BY <1>2, Elements DEF Sound
  <2> QED
    BY <2>1, RunAssumption
<1>4. /\ Sound(g) /\ Len(g) = p /\ Open(g, p, Len(b))
      /\ PairedBelow(hist, p) => PairedBelow(g, p)
  BY <1>2, <1>3, AskMessages
<1>5. /\ r \in Seq(Messages) /\ Len(r) = Len(b)
      /\ \A i \in 1..Len(r) : r[i].role = "tool" /\ r[i].call = <<p, i>>
  <2>1. 1 \in 1..(Len(b) + 1) /\ Len(b) - 1 + 1 = Len(b)
    BY <1>3
  <2>2. \A i \in 1..Len(b) : 1 + i - 1 = i
    BY <1>3
  <2>3. /\ r \in Seq(Messages) /\ Len(r) = Len(b) - 1 + 1
        /\ \A i \in 1..(Len(b) - 1 + 1) : r[i].role = "tool" /\ r[i].call = <<p, 1 + i - 1>>
    <3> HIDE DEF p
    <3> QED
      BY <1>3, <2>1, RefusalMessages
  <2> HIDE DEF r, p
  <2> QED
    BY <2>1, <2>2, <2>3
<1> HIDE DEF g, p, r
<1>6. Sound(g \o r) /\ Open(g \o r, p, Len(b))
  <2>1. Len(g) - p + Len(r) <= Len(b) /\ \A i \in 1..Len(r) : Len(g) - p + i = i
    BY <1>3, <1>4, <1>5
  <2> QED
    BY <1>3, <1>4, <1>5, <2>1, ExtendOpen
<1>7. g \in Seq(Messages) /\ Len(g \o r) = p + Len(b)
  BY <1>4, <1>5, Joined DEF Sound
<1>8. ASSUME ~cut PROVE PairedBelow(g \o r, Len(g \o r) + 1)
  <2>1. PairedBelow(g, p)
    BY <1>2, <1>4, <1>8
  <2>2. PairedBelow(g \o r, p)
    <3>1. p \in 1..(Len(g) + 1)
      BY <1>3, <1>4 DEF p
    <3> QED
      BY <1>5, <1>7, <2>1, <3>1, PairedBelowStays
  <2>3. Len(g \o r) - p = Len(b)
    BY <1>3, <1>7
  <2> QED
    BY <1>3, <1>6, <2>2, <2>3, Complete
<1> QED
  BY <1>1, <1>6, <1>8, QuietMessagesNext

\* Nothing the messages' invariant speaks of changes.
LEMMA SameMessages ==
  ASSUME MessageInv, UNCHANGED <<pc, hist, start, calls, at, cut>>
  PROVE  MessageInv'
<1>1. Asked' = Asked /\ Batching' = Batching
  BY DEF Asked, Turn, Batching
<1> QED
  BY <1>1 DEF MessageInv

\* The last segment is through: its message is still the last one.
LEMMA SegmentMessages ==
  ASSUME RunInv, MessageInv, SegmentDone
  PROVE  MessageInv'
<1>1. /\ pc = "fan" /\ UNCHANGED <<hist, start, calls, cut>>
      /\ pc' \in {"fan", "observe"} /\ (pc' = "observe" => at' = 1)
  BY DEF SegmentDone, history
<1>2. Len(hist) \in Nat
  BY Elements DEF MessageInv, Sound
<1>3. Asked = Len(hist) /\ Asked' = Len(hist)
  BY <1>1, <1>2 DEF Asked, Turn
<1> QED
  BY <1>1, <1>3 DEF MessageInv, Batching

\* Where the results of a batch are added.
LEMMA BatchPlace ==
  ASSUME RunInv, MessageInv, pc \in {"serial", "observe"}
  PROVE  /\ at \in 1..Len(calls) /\ Len(calls) \in Nat /\ calls \in Seq(Call)
         /\ Sound(hist) /\ hist \in Seq(Messages) /\ Len(hist) \in Nat /\ Started(hist, start)
         /\ Turn \in 1..Len(hist) /\ Len(hist) - Turn = at - 1
         /\ Open(hist, Turn, Len(calls)) /\ (~cut => PairedBelow(hist, Turn))
<1>1. Batching /\ Asked = Turn
  BY DEF Batching, Asked
<1>2. at \in 1..Len(calls) /\ Len(calls) \in Nat /\ calls \in Seq(Call)
  BY <1>1 DEF RunInv, BatchShape
<1>3. /\ Sound(hist) /\ Started(hist, start) /\ Open(hist, Turn, Len(calls))
      /\ (~cut => PairedBelow(hist, Turn))
  BY <1>1 DEF MessageInv, Started
<1>4. hist \in Seq(Messages) /\ Len(hist) \in Nat /\ DOMAIN hist = 1..Len(hist)
  BY <1>3, Elements DEF Sound
<1>5. Turn \in 1..Len(hist)
  BY <1>3, <1>4 DEF Open
<1>6. Len(hist) - Turn = at - 1
  BY <1>2, <1>4 DEF Turn
<1> QED
  BY <1>1, <1>2, <1>3, <1>4, <1>5, <1>6

\* Results that answer the calls from at on, and after the last one hints.
LEMMA AnswersAdded ==
  ASSUME RunInv, MessageInv, pc \in {"serial", "observe"},
         NEW r \in Seq(Messages), Len(r) <= Len(calls) - at + 1,
         \A i \in 1..Len(r) : r[i].role = "tool" /\ r[i].call = <<Turn, at + i - 1>>
  PROVE  /\ Sound(hist \o r) /\ Started(hist \o r, start) /\ Open(hist \o r, Turn, Len(calls))
         /\ Len(hist \o r) = Len(hist) + Len(r) /\ Len(r) \in Nat
         /\ ~cut => PairedBelow(hist \o r, Turn)
         /\ ~cut /\ Len(r) = Len(calls) - at + 1 => PairedBelow(hist \o r, Len(hist \o r) + 1)
<1>1. /\ at \in 1..Len(calls) /\ Len(calls) \in Nat
      /\ Sound(hist) /\ hist \in Seq(Messages) /\ Len(hist) \in Nat /\ Started(hist, start)
      /\ Turn \in 1..Len(hist) /\ Len(hist) - Turn = at - 1
      /\ Open(hist, Turn, Len(calls)) /\ (~cut => PairedBelow(hist, Turn))
  BY BatchPlace
<1>2. PICK p : p = Turn
  OBVIOUS
<1>3. Len(r) \in Nat /\ Len(hist) - p + Len(r) <= Len(calls)
  BY <1>1, <1>2
<1>4. \A i \in 1..Len(r) : r[i].role = "tool" /\ r[i].call = <<p, Len(hist) - p + i>>
  <2>1. ASSUME NEW i \in 1..Len(r) PROVE at + i - 1 = Len(hist) - p + i
    <3>1. i \in Int /\ at \in Int /\ Len(hist) - p = at - 1
      BY <1>1, <1>2, <1>3
    <3> QED
      BY <3>1
  <2> QED
    BY <1>2, <2>1
<1>5. Sound(hist \o r) /\ Open(hist \o r, p, Len(calls))
  BY <1>1, <1>2, <1>3, <1>4, ExtendOpen
<1>6. Len(hist \o r) = Len(hist) + Len(r) /\ Started(hist \o r, start)
  BY <1>1, Joined, StartStays
<1>7. ASSUME ~cut PROVE PairedBelow(hist \o r, p)
  <2>1. p \in 1..(Len(hist) + 1)
    BY <1>1, <1>2
  <2> QED
    BY <1>1, <1>2, <1>7, <2>1, PairedBelowStays
<1>8. ASSUME ~cut, Len(r) = Len(calls) - at + 1 PROVE PairedBelow(hist \o r, Len(hist \o r) + 1)
  <2>1. Len(hist \o r) - p = Len(calls)
    BY <1>1, <1>2, <1>6, <1>8
  <2> QED
    BY <1>1, <1>5, <1>7, <1>8, <2>1, Complete
<1> QED
  BY <1>2, <1>3, <1>5, <1>6, <1>7, <1>8

LEMMA ResultMessages ==
  ASSUME Turn \in Nat, NEW first \in Nat \ {0}, NEW last \in Nat, last - first + 1 \in Nat
  PROVE  /\ Results(first, last) \in Seq(Messages) /\ Len(Results(first, last)) = last - first + 1
         /\ \A i \in 1..(last - first + 1) :
              /\ Results(first, last)[i].role = "tool"
              /\ Results(first, last)[i].call = <<Turn, first + i - 1>>
<1>1. PICK n \in Nat : n = last - first + 1
  BY SMT
<1> DEFINE big == [i \in 1..n |-> res[first + i - 1] = "ok"]
<1>2. (\A i \in 1..n : big[i] \in BOOLEAN) /\ \A i \in 1..n : big[i] = (res[first + i - 1] = "ok")
  OBVIOUS
<1> HIDE DEF big
<1>3. Results(first, last) = Row(Turn, first, n, big)
  BY <1>1, <1>2 DEF Results, Row
<1>4. PICK r : r = Results(first, last)
  OBVIOUS
<1>5. r = Row(Turn, first, n, big)
  BY <1>3, <1>4
<1>6. /\ r \in Seq(Messages) /\ Len(r) = n
      /\ \A i \in 1..n : r[i].role = "tool" /\ r[i].call = <<Turn, first + i - 1>>
  BY <1>2, <1>5, ResultRow
<1> QED
  BY <1>1, <1>4, <1>6

\* A result, and another to come.
LEMMA NextMessages ==
  ASSUME RunInv, MessageInv, ObserveNext \/ SerialNext
  PROVE  MessageInv'
<1>1. /\ pc \in {"serial", "observe"} /\ at < Len(calls) /\ at' = at + 1
      /\ hist' = hist \o Results(at, at) /\ UNCHANGED <<pc, calls, start, cut>>
  BY DEF ObserveNext, SerialNext, NextResult, ResultAndHints, history
<1>2. /\ at \in 1..Len(calls) /\ Len(calls) \in Nat /\ Len(hist) \in Nat
      /\ Turn \in 1..Len(hist) /\ Len(hist) - Turn = at - 1
  BY <1>1, BatchPlace
<1>3. PICK r : r = Results(at, at)
  OBVIOUS
<1>4. /\ r \in Seq(Messages) /\ Len(r) = 1
      /\ \A i \in 1..Len(r) : r[i].role = "tool" /\ r[i].call = <<Turn, at + i - 1>>
  <2>1. at - at + 1 = 1 /\ at \in Nat \ {0} /\ Turn \in Nat
    BY <1>2
  <2>2. at \in Nat /\ at - at + 1 \in Nat
    BY <1>2
  <2> QED
    BY <1>3, <2>1, <2>2, ResultMessages
<1>5. /\ Sound(hist') /\ Started(hist', start) /\ Open(hist', Turn, Len(calls))
      /\ Len(hist') = Len(hist) + 1 /\ (~cut => PairedBelow(hist', Turn))
  <2>1. Len(r) <= Len(calls) - at + 1
    BY <1>2, <1>4
  <2> QED
    BY <1>1, <1>3, <1>4, <2>1, AnswersAdded
<1>6. Asked' = Turn /\ Batching'
  BY <1>1, <1>2, <1>5 DEF Asked, Turn, Batching
<1> QED
  BY <1>1, <1>5, <1>6 DEF MessageInv, Started

\* The end of a batch: results, and behind them the hints.
LEMMA EndMessages ==
  ASSUME RunInv, MessageInv, pc \in {"serial", "observe"}, pc' \in {"idle", "top"}, start' = start,
         NEW r \in Seq(Messages), Len(r) <= Len(calls) - at + 1,
         \A i \in 1..Len(r) : r[i].role = "tool" /\ r[i].call = <<Turn, at + i - 1>>,
         NEW n \in Nat, hist' = (hist \o r) \o Hints(n),
         ~cut' => ~cut /\ Len(r) = Len(calls) - at + 1
  PROVE  MessageInv'
<1> DEFINE g == hist \o r
<1>1. /\ Sound(g) /\ Started(g, start)
      /\ ~cut /\ Len(r) = Len(calls) - at + 1 => PairedBelow(g, Len(g) + 1)
  BY AnswersAdded
<1> HIDE DEF g
<1>2. hist' = g \o Hints(n)
  BY DEF g
<1>3. Sound(hist') /\ Started(hist', start')
  <2>1. g \in Seq(Messages) /\ Hints(n) \in Seq(Messages)
    BY <1>1, FlushHints DEF Sound
  <2> QED
    BY <1>1, <1>2, <2>1, FlushHints, StartStays
<1>4. ASSUME ~cut' PROVE PairedBelow(hist', Len(hist') + 1)
  BY <1>1, <1>2, <1>4, PairedWithHints
<1>5. ~Batching'
  BY DEF Batching
<1> QED
  BY <1>3, <1>4, <1>5, QuietMessagesNext

\* One result, where the batch stands.
LEMMA OneResult ==
  ASSUME RunInv, MessageInv, pc \in {"serial", "observe"}
  PROVE  /\ Results(at, at) \in Seq(Messages) /\ Len(Results(at, at)) = 1
         /\ \A i \in 1..1 : /\ Results(at, at)[i].role = "tool"
                            /\ Results(at, at)[i].call = <<Turn, at + i - 1>>
<1>1. at \in Nat \ {0} /\ at \in Nat /\ Turn \in Nat /\ at - at + 1 = 1
  BY BatchPlace
<1>2. at - at + 1 \in Nat /\ 1 \in 1..1
  BY <1>1
<1>3. /\ Results(at, at) \in Seq(Messages) /\ Len(Results(at, at)) = at - at + 1
      /\ \A i \in 1..(at - at + 1) : /\ Results(at, at)[i].role = "tool"
                                     /\ Results(at, at)[i].call = <<Turn, at + i - 1>>
  BY <1>1, <1>2, ResultMessages
<1> QED
  BY <1>1, <1>3

\* A result and others behind it, as one sequence.
LEMMA OneBefore ==
  ASSUME NEW h \in Seq(Messages), NEW a \in Seq(Messages), Len(a) = 1, NEW b \in Seq(Messages)
  PROVE  /\ a \o b \in Seq(Messages) /\ Len(a \o b) = 1 + Len(b) /\ (h \o a) \o b = h \o (a \o b)
         /\ \A i \in 1..1 : (a \o b)[i] = a[i]
         /\ \A i \in 1..Len(b) : (a \o b)[1 + i] = b[i]
<1>1. (h \o a) \o b = h \o (a \o b)
  BY ConcatAssociative, SMT
<1>2. /\ a \o b \in Seq(Messages) /\ Len(a \o b) = Len(a) + Len(b)
      /\ \A i \in 1..Len(a) : (a \o b)[i] = a[i]
      /\ \A i \in 1..Len(b) : (a \o b)[Len(a) + i] = b[i]
  BY Joined
<1> QED
  BY <1>1, <1>2

\* The ways a batch is booked to its end, or cut short.
LEMMA BatchMessages ==
  ASSUME RunInv, RestTypes, MessageInv,
         ObserveLast \/ SerialLast \/ FanFatal \/ SerialFatal \/ SerialCut
  PROVE  MessageInv'
<1>1. /\ pc \in {"serial", "observe"} /\ pc' \in {"idle", "top"} /\ start' = start
  BY DEF ObserveLast, SerialLast, LastResult, FanFatal, SerialFatal, SerialCut
<1>2. /\ at \in 1..Len(calls) /\ Len(calls) \in Nat /\ calls \in Seq(Call)
      /\ Turn \in Nat /\ hist \in Seq(Messages)
  BY <1>1, BatchPlace
<1>3. PICK n \in Nat : n = pending + Seen.hints
  BY SeenHints DEF RestTypes
<1>4. PICK one \in Seq(Messages) :
        /\ one = Results(at, at) /\ Len(one) = 1
        /\ \A i \in 1..Len(one) : one[i].role = "tool" /\ one[i].call = <<Turn, at + i - 1>>
  BY <1>1, OneResult
<1>5. CASE ObserveLast \/ SerialLast
  <2>1. at = Len(calls) /\ hist' = (hist \o one) \o Hints(n) /\ cut' = cut
    BY <1>3, <1>4, <1>5 DEF ObserveLast, SerialLast, LastResult, history
  <2>2. Len(one) = Len(calls) - at + 1 /\ Len(one) <= Len(calls) - at + 1
    BY <1>2, <1>4, <2>1
  <2> QED
    BY <1>1, <1>2, <1>4, <2>1, <2>2, EndMessages
<1>6. CASE FanFatal
  <2>1. PICK r : r = Results(at, Len(calls))
    OBVIOUS
  <2>2. hist' = (hist \o r) \o Hints(n) /\ cut' = cut
    BY <1>3, <1>6, <2>1 DEF FanFatal, history
  <2>3. at \in Nat \ {0} /\ Len(calls) - at + 1 \in Nat
    BY <1>2
  <2>4. /\ r \in Seq(Messages) /\ Len(r) = Len(calls) - at + 1
        /\ \A i \in 1..Len(r) : r[i].role = "tool" /\ r[i].call = <<Turn, at + i - 1>>
    BY <1>2, <2>1, <2>3, ResultMessages
  <2>5. Len(r) <= Len(calls) - at + 1
    BY <2>3, <2>4
  <2> QED
    BY <1>1, <2>2, <2>4, <2>5, EndMessages
<1>7. CASE SerialFatal
  <2>1. PICK rest : rest = Refusals(Turn, at + 1, calls)
    OBVIOUS
  <2>2. hist' = ((hist \o one) \o rest) \o Hints(n) /\ cut' = cut
    BY <1>3, <1>4, <1>7, <2>1 DEF SerialFatal, RestRefused, history
  <2>3. at + 1 \in 1..(Len(calls) + 1) /\ Len(calls) - (at + 1) + 1 = Len(calls) - at
    BY <1>2
  <2>4. /\ rest \in Seq(Messages) /\ Len(rest) = Len(calls) - at
        /\ \A i \in 1..Len(rest) : rest[i].role = "tool" /\ rest[i].call = <<Turn, at + 1 + i - 1>>
    <3>1. PICK f \in 1..(Len(calls) + 1) : f = at + 1
      BY <2>3
    <3> QED
      BY <1>2, <2>1, <2>3, <3>1, RefusalMessages
  <2>5. PICK r : r = one \o rest
    OBVIOUS
  <2>6. /\ r \in Seq(Messages) /\ Len(r) = Len(calls) - at + 1
        /\ (hist \o one) \o rest = hist \o r
        /\ \A i \in 1..1 : r[i] = one[i]
        /\ \A i \in 1..Len(rest) : r[1 + i] = rest[i]
    <3>1. /\ r \in Seq(Messages) /\ Len(r) = 1 + Len(rest) /\ (hist \o one) \o rest = hist \o r
          /\ \A i \in 1..1 : r[i] = one[i]
          /\ \A i \in 1..Len(rest) : r[1 + i] = rest[i]
      <4>1. hist \in Seq(Messages) /\ rest \in Seq(Messages) /\ Len(one) = 1
        BY <1>2, <1>4, <2>4
      <4>2. /\ one \o rest \in Seq(Messages) /\ Len(one \o rest) = 1 + Len(rest)
            /\ (hist \o one) \o rest = hist \o (one \o rest)
            /\ \A i \in 1..1 : (one \o rest)[i] = one[i]
            /\ \A i \in 1..Len(rest) : (one \o rest)[1 + i] = rest[i]
        BY <4>1, OneBefore
      <4> QED
        BY <2>5, <4>2
    <3> QED
      BY <1>2, <2>4, <3>1
  <2>7. \A i \in 1..Len(r) : r[i].role = "tool" /\ r[i].call = <<Turn, at + i - 1>>
    <3> SUFFICES ASSUME NEW i \in 1..Len(r)
                 PROVE  r[i].role = "tool" /\ r[i].call = <<Turn, at + i - 1>>
      OBVIOUS
    <3>1. CASE i = 1
      <4>1. r[1] = one[1] /\ 1 \in 1..Len(one)
        BY <1>4, <2>6
      <4> QED
        BY <1>4, <3>1, <4>1
    <3>2. CASE i # 1
      <4>1. i - 1 \in 1..Len(rest) /\ r[i] = rest[i - 1] /\ at + 1 + (i - 1) - 1 = at + i - 1
        <5>1. i - 1 \in 1..Len(rest) /\ 1 + (i - 1) = i
          BY <1>2, <2>4, <2>6, <3>2
        <5>2. PICK j \in 1..Len(rest) : j = i - 1
          BY <5>1
        <5>3. r[1 + j] = rest[j]
          BY <2>6
        <5> QED
          BY <1>2, <5>1, <5>2, <5>3
      <4>2. PICK j \in 1..Len(rest) : j = i - 1
        BY <4>1
      <4> QED
        BY <2>4, <4>1, <4>2
    <3> QED
      BY <3>1, <3>2
  <2>8. Len(r) <= Len(calls) - at + 1
    BY <1>2, <2>6
  <2> QED
    BY <1>1, <2>2, <2>6, <2>7, <2>8, EndMessages
<1>8. CASE SerialCut
  <2>1. hist' = (hist \o one) \o Hints(n) /\ (cut' <=> (cut \/ at < Len(calls)))
    BY <1>3, <1>4, <1>8 DEF SerialCut
  <2>2. Len(one) <= Len(calls) - at + 1 /\ (~(at < Len(calls)) => Len(one) = Len(calls) - at + 1)
    BY <1>2, <1>4
  <2> QED
    BY <1>1, <1>4, <2>1, <2>2, EndMessages
<1> QED
  BY <1>5, <1>6, <1>7, <1>8

\* A run is abandoned: its caller goes on with the messages it had.
LEMMA AbandonMessages ==
  ASSUME RunInv, MessageInv, Abandon
  PROVE  MessageInv'
<1>1. /\ Batching /\ pc # "idle" /\ pc' = "idle" /\ ~Batching'
      /\ hist' = SubSeq(hist, 1, start) /\ cut' = cut
  BY DEF Abandon, Batching
<1>2. /\ Sound(hist) /\ start \in DOMAIN hist /\ hist[start].role = "human"
      /\ Open(hist, Asked, Len(calls)) /\ (~cut => PairedBelow(hist, Asked))
  BY <1>1 DEF MessageInv
<1>3. DOMAIN hist = 1..Len(hist) /\ Len(hist) \in Nat
  BY <1>2, Elements DEF Sound
<1>4. Asked \in Nat /\ start < Asked
  <2>1. /\ Asked \in 1..Len(hist) /\ hist[Asked].role = "ai"
        /\ \A j \in 1..(Len(hist) - Asked) : hist[Asked + j].role = "tool"
    BY <1>2, <1>3 DEF Open
  <2>2. start # Asked
    BY <1>2, <2>1
  <2>3. ASSUME start > Asked PROVE FALSE
    <3>1. start - Asked \in 1..(Len(hist) - Asked) /\ Asked + (start - Asked) = start
      BY <1>2, <1>3, <2>1, <2>3
    <3> QED
      BY <1>2, <2>1, <3>1
  <2> QED
    BY <1>2, <1>3, <2>1, <2>2, <2>3
<1>5. Sound(hist') /\ Len(hist') = start
  BY <1>1, <1>2, PrefixSound
<1>6. ASSUME ~cut' PROVE PairedBelow(hist', Len(hist') + 1)
  BY <1>1, <1>2, <1>4, <1>5, <1>6, PrefixSound
<1> QED
  BY <1>1, <1>5, <1>6, QuietMessagesNext

LEMMA MessageStep ==
  ASSUME RunInv, RestTypes, MessageInv, [Next]_vars
  PROVE  MessageInv'
<1>1. CASE SendLine \/ Continue
  BY <1>1, StartMessages
<1>2. CASE Top \/ RequestFails \/ RequestOverflows \/ FinalAnswer \/ OverflowStop
  BY <1>2, TurnMessages
<1>3. CASE \E b \in Batches : RefuseCalls(b) \/ DispatchSerial(b) \/ DispatchFan(b)
  BY <1>3, RefuseMessages, DispatchMessages
<1>4. CASE SegmentDone
  BY <1>4, SegmentMessages
<1>5. CASE \/ Cancel \/ Expire \/ SerialStart \/ UNCHANGED vars
           \/ \E i \in DOMAIN exec : FanStart(i) \/ ToolReturns(i)
  BY <1>5, SameMessages
  DEF Cancel, Expire, SerialStart, FanStart, ToolReturns, vars, batch, history
<1>6. CASE ObserveNext \/ SerialNext
  BY <1>6, NextMessages
<1>7. CASE ObserveLast \/ SerialLast \/ FanFatal \/ SerialFatal \/ SerialCut
  BY <1>7, BatchMessages
<1>8. CASE Abandon
  BY <1>8, AbandonMessages
<1> QED
  BY <1>1, <1>2, <1>3, <1>4, <1>5, <1>6, <1>7, <1>8 DEF Next, Run, Requests, Executes, Books

\* The messages and the rest of the types, on top of the batch's invariant.
THEOREM MessagesInvariant == Spec => [](RunInv /\ RestTypes /\ MessageInv)
<1>1. Init => RestTypes /\ MessageInv
  BY RestInit, MessageInit
<1>2. RunInv /\ RestTypes /\ MessageInv /\ [Next]_vars => RestTypes' /\ MessageInv'
  <2> SUFFICES ASSUME RunInv, RestTypes, MessageInv, [Next]_vars PROVE RestTypes' /\ MessageInv'
    OBVIOUS
  <2>1. hist \in Seq(Messages) /\ Resolved \in Seq(Messages)
    BY ResolvedSound DEF MessageInv, Sound
  <2> QED
    BY <2>1, RestStep, MessageStep
<1> QED
  BY <1>1, <1>2, RunInvariant, PTL DEF Spec

\* A run's state is of its type, whatever the tools and the limits; the
\* messages are what runMessages may hold.
THEOREM RunTypes == Spec => []TypeOK
<1>1. RunInv /\ RestTypes /\ MessageInv => TypeOK
  <2> SUFFICES ASSUME RunInv, RestTypes, MessageInv PROVE TypeOK
    OBVIOUS
  <2>1. /\ calls \in Seq(Call) /\ DOMAIN calls = 1..Len(calls)
        /\ DOMAIN exec = 1..Len(calls) /\ DOMAIN over = 1..Len(calls)
        /\ \A i \in 1..Len(calls) : exec[i] \in {"queued", "running", "done"} /\ over[i] \in BOOLEAN
    BY DEF RunInv, BatchShape
  <2>2. DOMAIN res = 1..Len(calls) /\ \A i \in 1..Len(calls) : res[i] \in Failures \cup {"none", "ok"}
    BY DEF RestTypes
  <2>3. hist \in Seq(Messages)
    BY DEF MessageInv, Sound
  <2> QED
    BY <2>1, <2>2, <2>3 DEF TypeOK, RunInv, Counters, RestTypes
<1> QED
  BY <1>1, MessagesInvariant, PTL

\* Whatever runs, batches, failures, compactions and cancellations came
\* before, what leaves a run has every tool call answered right behind the
\* message that asked for it, in order; the one way out is a context that
\* ended inside a serial batch, and "continue" repairs that
\* (appendSynthesizedRefusals, toolBatchState, continueTurn).
THEOREM CallsStayPaired == Spec => []PairedUnlessCut
<1>1. MessageInv => PairedUnlessCut
  <2> SUFFICES ASSUME MessageInv, Leaves, ~cut PROVE Paired(hist)
    BY DEF PairedUnlessCut
  <2>1. ~Batching
    BY DEF Leaves, Batching
  <2> QED
    BY <2>1, PairedAll, QuietMessages DEF Sound
<1> QED
  BY <1>1, MessagesInvariant, PTL
=============================================================================
