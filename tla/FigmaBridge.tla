---------------------------- MODULE FigmaBridge ----------------------------
(***************************************************************************)
(* The local Figma bridge (pkg/figmabridge): scripts are queued by the     *)
(* figma tool, handed out to plugin panels that long-poll, and answered,   *)
(* possibly never, possibly late.  Every job has two files, job.json and   *)
(* result.json, and the files are all that survives a restart.  A script   *)
(* is never replayed, and while the outcome of one is unknown no ordinary  *)
(* script is accepted.                                                     *)
(*                                                                         *)
(* A file write succeeds or fails.  A call that expires a job makes two,   *)
(* so its Writes are "both", "result" (the second failed, or the process   *)
(* died in between) or "none".  At most one job can expire in one call:    *)
(* SingleFlight.                                                           *)
(***************************************************************************)
EXTENDS Naturals, FiniteSets

CONSTANTS
  MaxPanels,   \* bound: panel sessions, one after the other; each opening of
               \* the panel is a new one
  MaxJobs,     \* bound: jobs, numbered in the order of submission
  MaxRestarts  \* bound: restarts of the process

ASSUME BridgeAssumption == MaxPanels \in Nat /\ MaxJobs \in Nat /\ MaxRestarts \in Nat

Panels   == 1..MaxPanels
Jobs     == 1..MaxJobs
Endings  == {"ok", "failed"}
Writes   == {"both", "result", "none"}

VARIABLES
  up,        \* the process runs
  bridge,    \* jobs, unresolved and unverified in memory, and the two files
  poll,      \* per panel: its long poll at the bridge
  quiet,     \* per panel: silent for longer than orphanAfter
  busy,      \* per panel: its last poll was a heartbeat
  closed,    \* per panel: closed in Figma
  script,    \* per job: what became of it in Figma
  storing,   \* per job: the reply that handleComplete has accepted, not stored
  acking,    \* the job whose ack has passed the checks, 0 for none
  given,     \* history, per job: how often it was handed out
  checked,   \* history: unknown outcomes that an inspect or an ack has settled
  restarts   \* bounds the restarts

bridgeVars == <<up, bridge, poll, quiet, busy, closed, script, storing, acking,
                given, checked, restarts>>

Pending   == {"queued", "delivered"}
JobStates == Pending \cup {"absent", "done", "failed", "expired", "verified",
                           "cancelled", "acknowledged"}

Bridges == [mem : [Jobs -> JobStates], disk : [Jobs -> JobStates],
            result : [Jobs -> {"absent", "unknown", "real"}],
            inspect : [Jobs -> BOOLEAN], to : [Jobs -> Panels \cup {0}],
            verifies : [Jobs -> SUBSET Jobs],
            unresolved : SUBSET Jobs, unverified : SUBSET Jobs]

NoBridge ==
  [mem |-> [j \in Jobs |-> "absent"], disk |-> [j \in Jobs |-> "absent"],
   result |-> [j \in Jobs |-> "absent"], inspect |-> [j \in Jobs |-> FALSE],
   to |-> [j \in Jobs |-> 0], verifies |-> [j \in Jobs |-> {}],
   unresolved |-> {}, unverified |-> {}]

Submitted == {j \in Jobs : bridge.disk[j] # "absent"}

----------------------------------------------------------------------------
(* Critical sections under b.mu, as functions of the bridge *)

With(f, s, v) == [j \in DOMAIN f |-> IF j \in s THEN v ELSE f[j]]

\* Jobs whose silence expireStaleLocked looks at: left-over ones are not its.
InFlight(b) == {j \in Jobs : b.mem[j] = "delivered" /\ j \notin b.unresolved}

Alive(p) == ~quiet[p] \/ poll[p] # "no"

\* expireStaleLocked: out for execTimeout (late), or its panel is gone.
Stale(b, late) == {j \in InFlight(b) : late \/ ~Alive(b.to[j])}

\* Mutant: the state is written although the result could not be.
ExpireStateFirst(b, s, w) ==
  [b EXCEPT !.result = IF w = "both" THEN With(@, s, "unknown") ELSE @,
            !.mem = IF w # "none" THEN With(@, s, "expired") ELSE @,
            !.disk = IF w # "none" THEN With(@, s, "expired") ELSE @,
            !.unverified = IF w = "both" THEN @ \cup s ELSE @]

\* expireJobLocked for the jobs in s: the result first, the state behind it.
Expire(b, s, w) ==
  [b EXCEPT !.result = IF w # "none" THEN With(@, s, "unknown") ELSE @,
            !.mem = IF w = "both" THEN With(@, s, "expired") ELSE @,
            !.disk = IF w = "both" THEN With(@, s, "expired") ELSE @,
            !.unverified = IF w = "both" THEN @ \cup s ELSE @]

\* takeJob hands j out to the panel p.
Deliver(b, j, p) ==
  [b EXCEPT !.mem[j] = "delivered", !.disk[j] = "delivered", !.to[j] = p]

\* Submit appends a job.
Enqueue(b, j, inspects) ==
  [b EXCEPT !.mem[j] = "queued", !.disk[j] = "queued", !.inspect[j] = inspects,
            !.verifies[j] = IF inspects THEN b.unverified ELSE {}]

\* The expired jobs that the answer of j verifies.
Verified(b, j, ending) == IF b.inspect[j] /\ ending = "ok" THEN b.verifies[j] ELSE {}

\* handleComplete stores the answer: result.json, the state, job.json.
Store(b, j, ending, w) ==
  LET freed == Verified(b, j, ending)
      state == IF ending = "ok" THEN "done" ELSE "failed"
  IN [b EXCEPT !.result[j] = "real",
               !.mem = [i \in Jobs |-> IF i = j THEN state
                                       ELSE IF i \in freed /\ @[i] = "expired" /\ w = "both"
                                            THEN "verified" ELSE @[i]],
               !.disk = [i \in Jobs |-> IF w = "result" THEN @[i]
                                        ELSE IF i = j THEN state
                                        ELSE IF i \in freed /\ b.mem[i] = "expired"
                                             THEN "verified" ELSE @[i]],
               !.unresolved = @ \ {j}, !.unverified = @ \ ({j} \cup freed)]

----------------------------------------------------------------------------
(* The panel's poll *)

Claims(p) == {j \in InFlight(bridge) : bridge.to[j] = p}
Queued(b) == {j \in Jobs : b.mem[j] = "queued"}

\* Panel p works on a script, or still has its answer.
Works(p) == \E j \in Jobs : bridge.to[j] = p /\ script[j] \in {"runs"} \cup Endings

\* touchLocked, and the busy flag.
Touch(p, kind) ==
  /\ quiet' = [quiet EXCEPT ![p] = FALSE]
  /\ busy' = [busy EXCEPT ![p] = (kind = "beat")]

\* takeJob with a heartbeat only looks for stale jobs; p itself is not silent.
Beat(p, w, late) ==
  LET stale == {j \in Stale(bridge, late) : late \/ bridge.to[j] # p}
  IN bridge' = Expire(bridge, stale, w) /\ UNCHANGED <<script, given>>

\* A panel that asks for work has lost what it was given.
Lost(p) == Claims(p)

\* takeJob for a claim that finds nothing: expired jobs, but no queued one.
ClaimNothing(p, w, late) ==
  /\ Queued(bridge) = {}
  /\ bridge' = Expire(bridge, Lost(p) \cup {j \in Stale(bridge, late) : bridge.to[j] # p}, w)
  /\ UNCHANGED <<script, given>>

\* takeJob hands out a job; the answer reaches the panel, or is lost.
Claim(p) ==
  \E j \in Queued(bridge) :
    /\ bridge' = Deliver(bridge, j, p) /\ given' = [given EXCEPT ![j] = @ + 1]
    /\ \/ ~closed[p] /\ ~Works(p) /\ script' = [script EXCEPT ![j] = "runs"]
       \/ UNCHANGED script

\* The long poll of p waits as a claim or a heartbeat, is woken, or is over.
Hold(p, state) == poll' = [poll EXCEPT ![p] = state]

\* A poll arrives: heartbeats while the panel works, else it asks for work.
\* Bound: one panel is open at a time; the bridge itself lets any number poll.
Poll(p, w, late) ==
  /\ up /\ ~closed[p] /\ \A q \in Panels : q < p => closed[q]
  /\ LET k == IF Works(p) THEN "beat" ELSE "claim"
     IN /\ poll[p] = "no" /\ Touch(p, k)
        /\ \/ k = "beat" /\ Beat(p, w, late) /\ Hold(p, k)
           \/ k = "claim" /\ ClaimNothing(p, w, late) /\ Hold(p, k)
           \/ k = "claim" /\ w = "both" /\ Claim(p) /\ UNCHANGED poll
  /\ UNCHANGED <<up, closed, storing, acking, checked, restarts>>

\* A submit has woken the held claim: takeJob again.
Woken(p, w, late) ==
  /\ up /\ poll[p] = "woken" /\ Touch(p, "claim")
  /\ \/ ClaimNothing(p, w, late) /\ Hold(p, "claim")
     \/ w = "both" /\ Claim(p) /\ Hold(p, "no")
  /\ UNCHANGED <<up, closed, storing, acking, checked, restarts>>

\* The hold is over, or the panel has dropped the request; a woken heartbeat
\* returns as well.
HoldEnds(p) ==
  /\ up /\ poll[p] # "no" /\ Hold(p, "no")
  /\ quiet' = [quiet EXCEPT ![p] = FALSE]
  /\ UNCHANGED <<up, bridge, busy, closed, script, storing, acking, given, checked,
                 restarts>>

----------------------------------------------------------------------------
(* The panel and the clock *)

\* The script comes to its end.
Ends(j) ==
  /\ script[j] = "runs" /\ \E e \in Endings : script' = [script EXCEPT ![j] = e]
  /\ UNCHANGED <<up, bridge, poll, quiet, busy, closed, storing, acking, given,
                 checked, restarts>>

\* The bridge refuses the answer as too large or invalid (400, 413): it shrinks
\* to a failure, and in the end the panel gives it up.
Shrink(j) ==
  /\ up /\ script[j] \in Endings /\ storing[j] = "no"
  /\ script' = [script EXCEPT ![j] = IF @ = "ok" THEN "failed" ELSE "gone"]
  /\ UNCHANGED <<up, bridge, poll, quiet, busy, closed, storing, acking, given,
                 checked, restarts>>

\* The panel is closed: what it ran or had to answer is gone.
Shut(p) ==
  /\ ~closed[p] /\ closed' = [closed EXCEPT ![p] = TRUE]
  /\ script' = [j \in Jobs |-> IF bridge.to[j] = p /\ script[j] # "no" THEN "gone" ELSE script[j]]
  /\ UNCHANGED <<up, bridge, poll, quiet, busy, storing, acking, given, checked, restarts>>

\* Nothing is heard of a panel for orphanAfter.
Silent(p) ==
  /\ up /\ ~quiet[p] /\ poll[p] = "no"
  /\ quiet' = [quiet EXCEPT ![p] = TRUE]
  /\ UNCHANGED <<up, bridge, poll, busy, closed, script, storing, acking, given,
                 checked, restarts>>

\* Wait and Status look for stale jobs.
ExpireStale(w, late) ==
  /\ up /\ Stale(bridge, late) # {} /\ bridge' = Expire(bridge, Stale(bridge, late), w)
  /\ UNCHANGED <<up, poll, quiet, busy, closed, script, storing, acking, given,
                 checked, restarts>>

----------------------------------------------------------------------------
(* The answer *)

Answerable(j) == bridge.mem[j] \in {"delivered", "expired"}

\* handleComplete, up to the evidence files: the job is still waited for, or
\* the panel is told that it is not and drops the answer.
Answer(j) ==
  /\ up /\ script[j] \in Endings /\ storing[j] = "no"
  /\ IF Answerable(j) THEN storing' = [storing EXCEPT ![j] = script[j]] /\ UNCHANGED script
                      ELSE script' = [script EXCEPT ![j] = "gone"] /\ UNCHANGED storing
  /\ UNCHANGED <<up, bridge, poll, quiet, busy, closed, acking, given, checked, restarts>>

\* Its second critical section: the job may have been settled meanwhile.
Stored(j, w) ==
  /\ up /\ storing[j] # "no" /\ storing' = [storing EXCEPT ![j] = "no"]
  /\ IF Answerable(j) /\ w # "none"
     THEN /\ bridge' = Store(bridge, j, storing[j], w)
          /\ checked' = checked \cup (IF bridge.inspect[j] /\ storing[j] = "ok"
                                      THEN bridge.verifies[j] ELSE {})
     ELSE UNCHANGED <<bridge, checked>>
  \* the panel hears of it, or asks again
  /\ \/ w # "none" /\ script' = [script EXCEPT ![j] = IF @ = "no" THEN @ ELSE "gone"]
     \/ UNCHANGED script
  /\ UNCHANGED <<up, poll, quiet, busy, closed, acking, given, restarts>>

----------------------------------------------------------------------------
(* The tool *)

\* busyExpiredLocked: a panel that is alive still works on an expired job.
BusyExpired(b) ==
  \E j \in Jobs : /\ b.mem[j] = "expired" /\ Alive(b.to[j]) /\ busy[b.to[j]]
                  /\ \A i \in Jobs : ~(b.mem[i] = "delivered" /\ b.to[i] = b.to[j])

\* Mutant: expired jobs do not stop an ordinary script.
AllowedUnverified(b, inspects) == inspects \/ b.unresolved = {}

Allowed(b, inspects) == inspects \/ (b.unresolved = {} /\ b.unverified = {})

\* Submit: stale jobs first, then the blocks, then the single flight.
Submit(inspects, late) ==
  /\ up /\ Cardinality(Submitted) < MaxJobs
  /\ LET b == Expire(bridge, Stale(bridge, late), "both")
         j == Cardinality(Submitted) + 1
     IN /\ ~BusyExpired(b) /\ Allowed(b, inspects)
        /\ Queued(b) = {} /\ InFlight(b) = {}
        /\ bridge' = Enqueue(b, j, inspects)
  /\ poll' = [p \in Panels |-> IF poll[p] = "claim" THEN "woken" ELSE poll[p]]
  /\ UNCHANGED <<up, quiet, busy, closed, script, storing, acking, given, checked, restarts>>

\* The inspect i is evidence for the left-over job j; a result that expiry
\* wrote for i is enough.
Vouches(i, j) == bridge.inspect[i] /\ i > j /\ bridge.result[i] # "absent"

\* Ack up to the end of its checks.
Ack(j) ==
  /\ up /\ acking = 0 /\ j \in bridge.unresolved /\ \E i \in Jobs : Vouches(i, j)
  /\ acking' = j
  /\ UNCHANGED <<up, bridge, poll, quiet, busy, closed, script, storing, given,
                 checked, restarts>>

\* The rest of Ack, without the lock up to here: both files, then the memory.
Acked(w) ==
  /\ up /\ acking # 0 /\ acking' = 0
  /\ IF w = "both"
     THEN /\ bridge' = [bridge EXCEPT !.mem[acking] = "acknowledged",
                                      !.disk[acking] = "acknowledged",
                                      !.unresolved = @ \ {acking}]
          /\ checked' = checked \cup {acking}
     ELSE UNCHANGED <<bridge, checked>>
  /\ UNCHANGED <<up, poll, quiet, busy, closed, script, storing, given, restarts>>

----------------------------------------------------------------------------
(* Crash and restart *)

Crash ==
  /\ up /\ restarts < MaxRestarts /\ up' = FALSE /\ restarts' = restarts + 1
  /\ storing' = [j \in Jobs |-> "no"] /\ acking' = 0
  /\ poll' = [p \in Panels |-> "no"]
  /\ UNCHANGED <<bridge, quiet, busy, closed, script, given, checked>>

\* Mutant: the jobs that were handed out are forgotten.
LeftOverNone == {}

\* recoverRuns: handed out, and no result.
LeftOver == {j \in Jobs : bridge.disk[j] = "delivered" /\ bridge.result[j] = "absent"}

ExpiredOnDisk == {j \in Jobs : bridge.disk[j] = "expired" /\ bridge.result[j] # "absent"}

\* Mutant: what was handed out before the restart is queued again.
RecoveredQueued(j) ==
  CASE j \in LeftOver -> "queued" [] j \in ExpiredOnDisk -> "expired" [] OTHER -> "absent"

\* The state of j in memory after a restart.
Recovered(j) == IF j \in LeftOver \cup ExpiredOnDisk THEN bridge.disk[j] ELSE "absent"

\* New: the memory is rebuilt from the files; jobs nobody took are cancelled.
Restart ==
  /\ ~up /\ up' = TRUE
  /\ bridge' =
       [bridge EXCEPT
          !.mem = [j \in Jobs |-> Recovered(j)],
          !.disk = [j \in Jobs |-> IF @[j] = "queued" THEN "cancelled" ELSE @[j]],
          !.verifies = [j \in Jobs |-> {}],
          !.unresolved = LeftOver, !.unverified = ExpiredOnDisk]
  /\ quiet' = [p \in Panels |-> TRUE] /\ busy' = [p \in Panels |-> FALSE]
  /\ UNCHANGED <<poll, closed, script, storing, acking, given, checked, restarts>>

----------------------------------------------------------------------------
(* The specification *)

BridgeInit ==
  /\ up = TRUE /\ bridge = NoBridge
  /\ poll = [p \in Panels |-> "no"]
  /\ quiet = [p \in Panels |-> TRUE] /\ busy = [p \in Panels |-> FALSE]
  /\ closed = [p \in Panels |-> FALSE]
  /\ script = [j \in Jobs |-> "no"]
  /\ storing = [j \in Jobs |-> "no"] /\ acking = 0
  /\ given = [j \in Jobs |-> 0] /\ checked = {} /\ restarts = 0

BridgeNext ==
  \/ \E p \in Panels : \/ \E w \in Writes, late \in BOOLEAN : Poll(p, w, late) \/ Woken(p, w, late)
                       \/ HoldEnds(p) \/ Shut(p) \/ Silent(p)
  \/ \E j \in Jobs : \/ Ends(j) \/ Shrink(j) \/ Answer(j) \/ Ack(j)
                     \/ \E w \in Writes : Stored(j, w)
  \/ \E w \in Writes, late \in BOOLEAN : ExpireStale(w, late)
  \/ \E w \in Writes : Acked(w)
  \/ \E inspects, late \in BOOLEAN : Submit(inspects, late)
  \/ Crash \/ Restart

BridgeSpec == BridgeInit /\ [][BridgeNext]_bridgeVars

----------------------------------------------------------------------------
(* Properties *)

BridgeTypeOK ==
  /\ up \in BOOLEAN /\ bridge \in Bridges
  /\ poll \in [Panels -> {"no", "claim", "beat", "woken"}]
  /\ quiet \in [Panels -> BOOLEAN] /\ busy \in [Panels -> BOOLEAN]
  /\ closed \in [Panels -> BOOLEAN]
  /\ script \in [Jobs -> {"no", "runs", "gone"} \cup Endings]
  /\ storing \in [Jobs -> {"no"} \cup Endings] /\ acking \in Jobs \cup {0}
  /\ given \in [Jobs -> Nat] /\ checked \in SUBSET Jobs /\ restarts \in Nat

\* At most one job is queued or out, not counting those a restart left over.
SingleFlight ==
  up => \A i, j \in Queued(bridge) \cup InFlight(bridge) : i = j

\* The script may have run, and nobody knows what it did.
Unknown(j) == given[j] > 0 /\ bridge.result[j] # "real" /\ j \notin checked

\* The next ordinary script is refused on account of j.
Blocks(j) == j \in bridge.unresolved \cup bridge.unverified \cup InFlight(bridge)

\* Expiry wrote its result and not the job's state, so that a restart finds
\* neither a left-over nor an expired job.
Torn(j) == bridge.result[j] = "unknown" /\ bridge.disk[j] = "delivered"

UnknownBlocks == up => \A j \in Jobs : Unknown(j) /\ ~Torn(j) => Blocks(j)

\* An ordinary script is accepted.
Accepts == \E j \in Jobs : /\ bridge.disk[j] = "absent" /\ bridge'.disk[j] = "queued"
                           /\ ~bridge'.inspect[j]

\* No ordinary script gets in while the outcome of one that may have run is
\* unknown, whatever was lost, came late or was restarted meanwhile, but for
\* a job whose expiry was cut between its two files (the tool's description:
\* a job that expired or was left over by a restart "blocks new writes").
WritesWait == [][Accepts => \A j \in Jobs : Unknown(j) => Torn(j)]_bridgeVars

\* "Jobs are never replayed": however poll, failed writes, expiry, late
\* answers and restarts fall together.
DeliveredOnce == \A j \in Jobs : given[j] <= 1
=============================================================================
