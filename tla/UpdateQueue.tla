---------------------------- MODULE UpdateQueue ----------------------------
(***************************************************************************)
(* The queue of asynchronous memory updates (pkg/memory/queue.go) and the  *)
(* updates it runs (memory.go, refine.go): a bounded channel, one worker,  *)
(* coalescing by key, the session lock, and the flush versions that keep   *)
(* an old update from being saved over a synchronous flush.                *)
(*                                                                         *)
(* The jobs here have an "update:" key, one per session or user scope.     *)
(* What an update extracts is left out: it saves, or it does not.          *)
(***************************************************************************)
EXTENDS Naturals, Sequences, FiniteSets

CONSTANTS
  Scopes,     \* keys of the stored documents: sessions, and the user scope
  UserScope,  \* the one the second job of a refine writes
  QueueSize,  \* capacity of the channel
  MaxUpdates, \* bound: submitted updates
  MaxFlushes  \* bound: synchronous flushes

ASSUME QueueAssumption ==
  UserScope \in Scopes /\ QueueSize \in Nat \ {0} /\ MaxUpdates \in Nat /\ MaxFlushes \in Nat

VARIABLES
  updates,   \* the jobs, each at its seq: scope, kind, the gate of its pair, flushVersion
  stage,     \* per job: how far its submit, or its execution, is
  chan,      \* the channel
  pending,   \* pendingSeq: per scope the newest job, 0 for none
  version,   \* flushVersion per scope
  locked,    \* scopes whose session lock is held
  verdicts,  \* per gate job: the verdict its pair has not claimed
  queue,     \* "open", "closing" (submits are refused), "closed" (so is the channel)
  flush,     \* per scope: where the synchronous flush is
  flushes,   \* number of flushes, bounds them
  outdated   \* history: jobs that were submitted before a flush of their scope

queueVars == <<updates, stage, chan, pending, version, locked, verdicts, queue, flush,
               flushes, outdated>>

Kinds   == {"update", "gate", "approved"}
Seqs    == 1..MaxUpdates
Known   == DOMAIN updates
Stages  == {"absent", "numbered", "captured", "queued", "dropped", "skipped", "taken",
            "extracting", "rejected", "stale", "failed", "saved"}

Ended   == {"dropped", "skipped", "rejected", "stale", "failed", "saved"}
Submits == {"numbered", "captured"}
Runs    == {"taken", "extracting"}

Step(j, s) == stage' = [stage EXCEPT ![j] = s]

----------------------------------------------------------------------------
(* submit, in three steps *)

\* The number, and the newest of the key, under q.mu.
Number(scope, kind, gate) ==
  /\ queue = "open" /\ Len(updates) < MaxUpdates
  /\ LET j == Len(updates) + 1
     IN /\ updates' = Append(updates, [scope |-> scope, kind |-> kind, gate |-> gate, version |-> 0])
        /\ pending' = [pending EXCEPT ![scope] = j]
        /\ Step(j, "numbered")
  /\ UNCHANGED <<chan, version, locked, verdicts, queue, flush, flushes, outdated>>

\* ScheduleUpdateWith and ScheduleUpdate, or the first job of ScheduleRefine.
Schedule(scope) ==
  \/ Number(scope, "update", 0)
  \/ scope # UserScope /\ Number(scope, "gate", 0)

\* The second job of ScheduleRefine, when the first is submitted.
SchedulePair(g) ==
  /\ updates[g].kind = "gate" /\ updates[g].scope # UserScope /\ stage[g] \notin Submits
  /\ \A j \in Known : updates[j].gate # g
  /\ Number(UserScope, "approved", g)

\* The flush version, when the job is submitted and not when it runs.
Capture(j) ==
  /\ stage[j] = "numbered" /\ Step(j, "captured")
  /\ updates' = [updates EXCEPT ![j].version = version[updates[j].scope]]
  /\ UNCHANGED <<chan, pending, version, locked, verdicts, queue, flush, flushes, outdated>>

Send(j) ==
  /\ stage[j] = "captured" /\ queue # "closed" /\ Len(chan) < QueueSize
  /\ chan' = Append(chan, j) /\ Step(j, "queued")
  /\ UNCHANGED <<updates, pending, version, locked, verdicts, queue, flush, flushes, outdated>>

\* Mutant: the entry is removed whoever's it is.
ClearAnyPending(j) == [pending EXCEPT ![updates[j].scope] = 0]

\* clearPendingSeq
ClearPending(j) ==
  [pending EXCEPT ![updates[j].scope] = IF @ = j THEN 0 ELSE @]

\* The channel stays full for submitTimeout, or is closed meanwhile.
Drop(j) ==
  /\ stage[j] = "captured" /\ (queue = "closed" \/ Len(chan) = QueueSize)
  /\ pending' = ClearPending(j) /\ Step(j, "dropped")
  /\ UNCHANGED <<updates, chan, version, locked, verdicts, queue, flush, flushes, outdated>>

----------------------------------------------------------------------------
(* The worker *)

Idle == \A j \in Known : stage[j] \notin Runs

\* run: the next job, unless it was cancelled or replaced by a newer one.
Take ==
  /\ Idle /\ chan # <<>> /\ chan' = Tail(chan)
  /\ LET j == Head(chan)
         k == updates[j].scope
     IN \/ pending[k] = j /\ pending' = [pending EXCEPT ![k] = 0] /\ Step(j, "taken")
        \/ pending[k] # j /\ UNCHANGED pending /\ Step(j, "skipped")
  /\ UNCHANGED <<updates, version, locked, verdicts, queue, flush, flushes, outdated>>

\* The job gives up: no verdict for it, or the gate's was no.
Rejected(j) ==
  /\ Step(j, "rejected")
  /\ UNCHANGED <<updates, chan, pending, version, locked, queue, flush, flushes, outdated>>

\* runRefineGateJob that rejects, and tells its pair.
GateRejects(j) ==
  /\ stage[j] = "taken" /\ updates[j].kind = "gate"
  /\ verdicts' = [verdicts EXCEPT ![j] = "reject"] /\ Rejected(j)

\* runRefineApprovedJob with that verdict.
PairRejects(j) ==
  /\ stage[j] = "taken" /\ updates[j].kind = "approved"
  /\ verdicts[updates[j].gate] = "reject"
  /\ verdicts' = [verdicts EXCEPT ![updates[j].gate] = "none"] /\ Rejected(j)

\* Else the update gets the session lock.  A pair without a verdict, its gate
\* job replaced or flushed away, extracts all the same.
Enter(j) ==
  /\ stage[j] = "taken" /\ updates[j].scope \notin locked
  /\ locked' = locked \cup {updates[j].scope} /\ Step(j, "extracting")
  /\ verdicts' = CASE updates[j].kind = "gate" -> [verdicts EXCEPT ![j] = "approve"]
                   [] updates[j].kind = "approved" -> [verdicts EXCEPT ![updates[j].gate] = "none"]
                   [] OTHER -> verdicts
  /\ updates[j].kind = "approved" => verdicts[updates[j].gate] # "reject"
  /\ UNCHANGED <<updates, chan, pending, version, queue, flush, flushes, outdated>>

\* Mutant: the version counts from when the job runs.
FreshAlways(j) == TRUE

\* isFlushStale for the version captured at submit
Fresh(j) == updates[j].version = version[updates[j].scope]

\* Load, extract, and save unless a flush has come between.  Close cancels
\* the context: nothing is saved after it.
Leave(j) ==
  /\ stage[j] = "extracting" /\ locked' = locked \ {updates[j].scope}
  /\ \/ Step(j, "failed")
     \/ queue # "closed" /\ ~Fresh(j) /\ Step(j, "stale")
     \/ queue # "closed" /\ Fresh(j) /\ Step(j, "saved")
  /\ UNCHANGED <<updates, chan, pending, version, verdicts, queue, flush, flushes, outdated>>

----------------------------------------------------------------------------
(* A synchronous flush: compaction, or /refine *)

\* CancelPendingUpdates has the lock and drops what is queued.
Cancel(k) ==
  /\ flush[k] = "no" /\ k \notin locked /\ flushes < MaxFlushes
  /\ locked' = locked \cup {k} /\ flush' = [flush EXCEPT ![k] = "cancelled"]
  /\ pending' = [pending EXCEPT ![k] = 0] /\ flushes' = flushes + 1
  /\ outdated' = outdated \cup {j \in Known : updates[j].scope = k /\ stage[j] \notin Ended}
  /\ UNCHANGED <<updates, stage, chan, version, verdicts, queue>>

\* It bumps the version and lets the lock go.  The update that follows runs
\* at once, under the lock, and is compared with no older version.
Bump(k) ==
  /\ flush[k] = "cancelled" /\ flush' = [flush EXCEPT ![k] = "no"]
  /\ version' = [version EXCEPT ![k] = @ + 1] /\ locked' = locked \ {k}
  /\ outdated' = outdated \cup {j \in Known : /\ updates[j].scope = k
                                              /\ stage[j] \notin Ended \cup {"numbered"}}
  /\ UNCHANGED <<updates, stage, chan, pending, verdicts, queue, flushes>>

----------------------------------------------------------------------------
(* Close *)

CloseQueue ==
  /\ \/ queue = "open" /\ queue' = "closing"
     \/ queue = "closing" /\ queue' = "closed"
  /\ UNCHANGED <<updates, stage, chan, pending, version, locked, verdicts, flush, flushes, outdated>>

----------------------------------------------------------------------------
(* The specification *)

QueueInit ==
  /\ updates = <<>> /\ stage = [j \in Seqs |-> "absent"] /\ chan = <<>>
  /\ pending = [k \in Scopes |-> 0] /\ version = [k \in Scopes |-> 0] /\ locked = {}
  /\ verdicts = [j \in Seqs |-> "none"] /\ queue = "open"
  /\ flush = [k \in Scopes |-> "no"] /\ flushes = 0 /\ outdated = {}

QueueNext ==
  \/ \E k \in Scopes : Schedule(k) \/ Cancel(k) \/ Bump(k)
  \/ \E j \in Known : \/ SchedulePair(j) \/ Capture(j) \/ Send(j) \/ Drop(j)
                      \/ GateRejects(j) \/ PairRejects(j) \/ Enter(j) \/ Leave(j)
  \/ Take \/ CloseQueue

QueueSpec == QueueInit /\ [][QueueNext]_queueVars

----------------------------------------------------------------------------
(* Properties *)

QueueTypeOK ==
  /\ updates \in Seq([scope : Scopes, kind : Kinds, gate : Seqs \cup {0}, version : Nat])
  /\ stage \in [Seqs -> Stages] /\ chan \in Seq(Seqs) /\ Len(chan) <= QueueSize
  /\ pending \in [Scopes -> Seqs \cup {0}] /\ version \in [Scopes -> Nat]
  /\ locked \subseteq Scopes /\ verdicts \in [Seqs -> {"none", "approve", "reject"}]
  /\ queue \in {"open", "closing", "closed"}
  /\ flush \in [Scopes -> {"no", "cancelled"}] /\ flushes \in Nat
  /\ outdated \subseteq Seqs

\* An update that was submitted before a flush is not saved after it.
NoStaleSave == \A j \in outdated : stage[j] # "saved"

\* An update is skipped by the worker only when a newer one of its scope was
\* numbered, or a flush came after it; whatever becomes of others that time
\* out.  The newer one may itself have been dropped at a full queue, and then
\* both are lost: it had taken the place of the older one in pendingSeq before.
NewestIsKept ==
  \A j \in Known : stage[j] = "skipped" =>
    \/ \E i \in Known : i > j /\ updates[i].scope = updates[j].scope
    \/ j \in outdated
=============================================================================
