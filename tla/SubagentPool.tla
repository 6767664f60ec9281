--------------------------- MODULE SubagentPool ---------------------------
(***************************************************************************)
(* The pool of subagent tasks (pkg/subagent/pool.go) and the tool that     *)
(* starts a task and waits for it (pkg/tools/subagent.go).  The tasks of a *)
(* run share its context; each has one of its own below it.  There is no   *)
(* limit on how many run at once.                                          *)
(***************************************************************************)
EXTENDS Naturals, FiniteSets

CONSTANT Tasks   \* task calls of one run

VARIABLES
  phase,   \* per task: where runTask is
  status,  \* per task: its Status
  runErr,  \* per task: the Err of its own context
  parent,  \* the Err of the run's context
  stored,  \* tasks that are in the pool's map
  waiter,  \* per task: "no", "waits", "answered", "bailed"
  seen,    \* per task: the status in the snapshot its waiter was given
  ended,   \* history, per task: terminal events
  asked    \* history: tasks that were cancelled by name

poolVars == <<phase, status, runErr, parent, stored, waiter, seen, ended, asked>>

Phases   == {"absent", "queued", "started", "executes", "finished", "told", "done"}
Terminal == {"completed", "failed", "timed_out", "cancelled"}
Errs     == {"none", "deadline", "cancelled"}

Phase(t, p) == phase' = [phase EXCEPT ![t] = p]

----------------------------------------------------------------------------
(* A task *)

\* StartTask: stored, announced, its goroutine started; the tool waits.
StartTask(t) ==
  /\ phase[t] = "absent" /\ Phase(t, "queued") /\ status' = [status EXCEPT ![t] = "pending"]
  /\ stored' = stored \cup {t} /\ waiter' = [waiter EXCEPT ![t] = "waits"]
  /\ UNCHANGED <<runErr, parent, seen, ended, asked>>

Running(t) ==
  /\ phase[t] = "queued" /\ Phase(t, "started") /\ status' = [status EXCEPT ![t] = "running"]
  /\ UNCHANGED <<runErr, parent, stored, waiter, seen, ended, asked>>

\* Its context exists, and CancelTask can reach it.
Publish(t) ==
  /\ phase[t] = "started" /\ Phase(t, "executes")
  /\ runErr' = [runErr EXCEPT ![t] = parent]
  /\ UNCHANGED <<status, parent, stored, waiter, seen, ended, asked>>

\* The deadline of the task passes: its own, the run's, or the pool's.
Deadline(t) ==
  /\ phase[t] = "executes" /\ runErr[t] = "none" /\ runErr' = [runErr EXCEPT ![t] = "deadline"]
  /\ UNCHANGED <<phase, status, parent, stored, waiter, seen, ended, asked>>

\* Mutant: whatever runs under the same parent is cancelled.
ReachesAll(t) == {s \in Tasks : phase[s] \in {"executes", "finished", "told"}}

\* The tasks CancelTask(t) reaches.
Reaches(t) == {t}

\* CancelTask; too early or too late it does nothing.
CancelTask(t) ==
  /\ t \in stored /\ phase[t] \in {"executes", "finished", "told"}
  /\ runErr' = [s \in Tasks |-> IF s \in Reaches(t) /\ runErr[s] = "none" THEN "cancelled"
                                ELSE runErr[s]]
  /\ asked' = asked \cup {t}
  /\ UNCHANGED <<phase, status, parent, stored, waiter, seen, ended>>

\* The run's context is cancelled, or its deadline passes.
EndParent(err) ==
  /\ parent = "none" /\ parent' = err
  /\ runErr' = [t \in Tasks |-> IF phase[t] = "executes" /\ runErr[t] = "none" THEN err
                                ELSE runErr[t]]
  /\ UNCHANGED <<phase, status, stored, waiter, seen, ended, asked>>

\* The status of a task whose executor returned err.
StatusOf(t, err) ==
  CASE err = "nil"                                    -> "completed"
    [] err # "nil" /\ "deadline" \in {runErr[t], err} -> "timed_out"
    [] OTHER -> IF "cancelled" \in {parent, err} THEN "cancelled" ELSE "failed"

\* The executor returns: a result, a failure, a timeout of its own, or what
\* its context says.
Finish(t) ==
  /\ phase[t] = "executes" /\ Phase(t, "finished")
  /\ \E err \in {"nil", "failed", "deadline", runErr[t]} \ {"none"} :
       status' = [status EXCEPT ![t] = StatusOf(t, err)]
  /\ UNCHANGED <<runErr, parent, stored, waiter, seen, ended, asked>>

\* The terminal event
Tell(t) ==
  /\ phase[t] = "finished" /\ Phase(t, "told") /\ ended' = [ended EXCEPT ![t] = @ + 1]
  /\ UNCHANGED <<status, runErr, parent, stored, waiter, seen, asked>>

\* CancelTask reaches it no more, and the waiters are woken.
Done(t) ==
  /\ phase[t] = "told" /\ Phase(t, "done")
  /\ UNCHANGED <<status, runErr, parent, stored, waiter, seen, ended, asked>>

----------------------------------------------------------------------------
(* The waiter *)

\* Mutant: Wait returns what is there.
DoneAlways(t) == t \in stored

\* Mutant: a task counts as done when its status is set.
DoneEarly(t) == phase[t] \in {"finished", "told", "done"}

\* task.done is closed.
IsDone(t) == phase[t] = "done"

\* Wait takes the snapshot and the entry.
Answered(t) ==
  /\ waiter[t] = "waits" /\ IsDone(t)
  /\ waiter' = [waiter EXCEPT ![t] = "answered"] /\ seen' = [seen EXCEPT ![t] = status[t]]
  /\ stored' = stored \ {t}
  /\ UNCHANGED <<phase, status, runErr, parent, ended, asked>>

\* Wait gives up with the run; the task runs on, and its entry stays.
Bails(t) ==
  /\ waiter[t] = "waits" /\ parent # "none" /\ waiter' = [waiter EXCEPT ![t] = "bailed"]
  /\ UNCHANGED <<phase, status, runErr, parent, stored, seen, ended, asked>>

----------------------------------------------------------------------------
(* The specification *)

PoolInit ==
  /\ phase = [t \in Tasks |-> "absent"] /\ status = [t \in Tasks |-> "absent"]
  /\ runErr = [t \in Tasks |-> "none"] /\ parent = "none" /\ stored = {}
  /\ waiter = [t \in Tasks |-> "no"] /\ seen = [t \in Tasks |-> "absent"]
  /\ ended = [t \in Tasks |-> 0] /\ asked = {}

PoolNext ==
  \/ \E t \in Tasks : \/ StartTask(t) \/ Running(t) \/ Publish(t) \/ Deadline(t) \/ CancelTask(t)
                      \/ Finish(t) \/ Tell(t) \/ Done(t) \/ Answered(t) \/ Bails(t)
  \/ \E err \in Errs \ {"none"} : EndParent(err)

PoolSpec == PoolInit /\ [][PoolNext]_poolVars

----------------------------------------------------------------------------
(* Properties *)

PoolTypeOK ==
  /\ phase \in [Tasks -> Phases]
  /\ status \in [Tasks -> {"absent", "pending", "running"} \cup Terminal]
  /\ runErr \in [Tasks -> Errs] /\ parent \in Errs /\ stored \subseteq Tasks
  /\ waiter \in [Tasks -> {"no", "waits", "answered", "bailed"}]
  /\ seen \in [Tasks -> {"absent"} \cup Terminal]
  /\ ended \in [Tasks -> Nat] /\ asked \subseteq Tasks

\* A waiter is given the final status, after the one terminal event.
EndsOnce ==
  \A t \in Tasks : waiter[t] = "answered" => seen[t] = status[t] /\ status[t] \in Terminal /\ ended[t] = 1

\* A task is reported cancelled only if it was cancelled by name or the whole
\* run was: cancelling one leaves every sibling untouched.
CancelledByWill ==
  \A t \in Tasks : status[t] = "cancelled" => t \in asked \/ parent = "cancelled"

TaskEndsAsTold == EndsOnce /\ CancelledByWill
=============================================================================
