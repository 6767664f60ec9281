---------------------------- MODULE SessionLock ----------------------------
(***************************************************************************)
(* The lock on stored sessions (pkg/chat/session.go) and the REPLs that    *)
(* hold it (pkg/chat/repl.go): a row names the process that writes to a    *)
(* session; it is refreshed by a heartbeat, taken over when its owner      *)
(* looks gone, and an owner that has lost it learns so from the next beat. *)
(*                                                                         *)
(* In one process the REPL, the goroutines of the heartbeat and the one    *)
(* that generates a title run concurrently and share lockedSessionID and   *)
(* lockState.  One action is one transaction of the store or one access to *)
(* the shared fields.                                                      *)
(***************************************************************************)
EXTENDS Naturals, FiniteSets

CONSTANTS
  Procs,      \* processes; each is started once
  Users,      \* bound: those that do more than start, stop and end
  Hosts,      \* machines that share the store
  Sessions,   \* bound: session ids created in a behaviour
  Beats,      \* goroutines that refresh: the ticker and the SIGCONT watcher
  NoOne,      \* no process, no session
  Short,      \* staleLockAfter
  Long        \* staleLockAfterPidReuse

ASSUME LockAssumption ==
  /\ Users \subseteq Procs
  /\ NoOne \notin Procs /\ NoOne \notin Sessions
  /\ Short \in Nat /\ Long \in Nat /\ Short < Long

VARIABLES
  rows,    \* sessions in the store
  born,    \* session ids ever created
  holder,  \* owner of the row of session_locks of each session
  age,     \* time since its heartbeat_at
  host,    \* the machine of each process
  life,    \* off, running, stopped (SIGSTOP), dead, reused (its pid by another program)
  sess,    \* r.sess
  locked,  \* r.lockedSessionID
  lost,    \* r.lockState: suspended and notified, which change together
  step,    \* where the REPL goroutine stands
  next,    \* the session it is creating or switching to
  beat,    \* each refresh: where it stands and the session it loaded
  title,   \* generateTitle: where it stands, its session; ahead is history
  taken,   \* history: sessions whose row another took from this process
  told,    \* history: sessions this process was told it lost
  left     \* history: sessions it switched away from

store    == <<rows, born, holder, age>>
repl     == <<sess, step, next>>
shared   == <<locked, lost>>
history  == <<taken, told, left>>
lockVars == <<store, host, life, repl, shared, beat, title, history>>

NoTitle == [at |-> "none", id |-> NoOne, ahead |-> FALSE]
NoBeat  == [at |-> "idle", id |-> NoOne]
MaxAge  == Long + 1    \* older rows are judged alike

Booting   == {"off", "made"}
Switching == {"created", "owned", "saving", "saved", "named", "released", "cleared"}
ReplSteps == Booting \cup Switching \cup {"rest", "writing", "exited"}
SessionOrNone == Sessions \cup {NoOne}
BeatStates  == [at : {"idle", "loaded", "missed", "alarm"}, id : SessionOrNone]
TitleStates == [at : {"none", "spawned", "asked", "checked", "writing"},
                id : SessionOrNone, ahead : BOOLEAN]

LockTypeOK ==
  /\ rows \subseteq born /\ born \subseteq Sessions
  /\ holder \in [Sessions -> Procs \cup {NoOne}]
  /\ age \in [Sessions -> 0..MaxAge]
  /\ host \in [Procs -> Hosts]
  /\ life \in [Procs -> {"off", "running", "stopped", "dead", "reused"}]
  /\ sess \in [Procs -> SessionOrNone] /\ next \in [Procs -> SessionOrNone]
  /\ locked \in [Procs -> SessionOrNone] /\ lost \in [Procs -> BOOLEAN]
  /\ step \in [Procs -> ReplSteps]
  /\ beat \in [Procs -> [Beats -> BeatStates]] /\ title \in [Procs -> TitleStates]
  /\ taken \in [Procs -> SUBSET Sessions] /\ told \in [Procs -> SUBSET Sessions]
  /\ left \in [Procs -> SUBSET Sessions]

----------------------------------------------------------------------------
(* The store *)

\* The owner of the row of s is gone, or seems so to p.
Stale(s, p) ==
  LET q == holder[s] IN
  IF host[q] # host[p] THEN age[s] > Short
  ELSE \/ life[q] = "dead"
       \/ life[q] = "stopped" /\ age[s] > Short
       \/ age[s] > Long

\* canAcquireSessionLock without force.
CanClaim(s, p) == holder[s] \notin {NoOne, p} => Stale(s, p)

\* The row of s leaves the hands of its owner otherwise than by its own release.
Rob(s, p) ==
  taken' = [q \in Procs |-> IF q = holder[s] /\ q # p THEN taken[q] \cup {s} ELSE taken[q]]

\* AcquireSessionLock writes the row; with force it asks nobody.
Acquire(s, p) ==
  /\ s \in rows
  /\ holder' = [holder EXCEPT ![s] = p]
  /\ age' = [age EXCEPT ![s] = 0]
  /\ Rob(s, p)
  /\ UNCHANGED <<rows, born>>

Create(s) ==
  /\ s \in Sessions \ born
  /\ born' = born \cup {s} /\ rows' = rows \cup {s}
  /\ UNCHANGED <<holder, age, taken>>

\* Delete: the row of the lock goes with that of the session.
Remove(s, p) ==
  /\ rows' = rows \ {s}
  /\ holder' = [holder EXCEPT ![s] = NoOne]
  /\ age' = [age EXCEPT ![s] = 0]
  /\ Rob(s, p)
  /\ UNCHANGED born

\* ReleaseSessionLock: only the row that is p's own.
Release(s, p) ==
  /\ holder' = [holder EXCEPT ![s] = IF @ = p THEN NoOne ELSE @]
  /\ age' = [age EXCEPT ![s] = IF holder[s] = p THEN 0 ELSE @]
  /\ UNCHANGED <<rows, born>>

----------------------------------------------------------------------------
(* Start and exit *)

Goto(p, label) == step' = [step EXCEPT ![p] = label]
Active(p, label) == life[p] = "running" /\ step[p] = label

\* resolveSession with -c or -r: take over an existing session, or fail.
Resolve(p, s, force) ==
  /\ life[p] = "off"
  /\ force \/ CanClaim(s, p)
  /\ Acquire(s, p)
  /\ life' = [life EXCEPT ![p] = "running"]
  /\ sess' = [sess EXCEPT ![p] = s] /\ locked' = [locked EXCEPT ![p] = s]
  /\ Goto(p, "rest")
  /\ UNCHANGED <<host, next, lost, beat, title, told, left>>

\* resolveSession of a new session, or of a fork of one that is locked.
BootCreate(p, s) ==
  /\ life[p] = "off"
  /\ Create(s)
  /\ life' = [life EXCEPT ![p] = "running"]
  /\ next' = [next EXCEPT ![p] = s] /\ Goto(p, "made")
  /\ UNCHANGED <<host, sess, shared, beat, title, told, left>>

\* Its lock; persistModel follows at once.
BootLock(p) ==
  /\ Active(p, "made")
  /\ CanClaim(next[p], p) /\ Acquire(next[p], p)
  /\ sess' = [sess EXCEPT ![p] = next[p]] /\ locked' = [locked EXCEPT ![p] = next[p]]
  /\ next' = [next EXCEPT ![p] = NoOne] /\ Goto(p, "writing")
  /\ UNCHANGED <<host, life, lost, beat, title, told, left>>

\* A process ends and its memory with it; the store keeps its rows.
Forget(p) ==
  /\ life' = [life EXCEPT ![p] = "dead"]
  /\ sess' = [sess EXCEPT ![p] = NoOne] /\ next' = [next EXCEPT ![p] = NoOne]
  /\ locked' = [locked EXCEPT ![p] = NoOne] /\ lost' = [lost EXCEPT ![p] = FALSE]
  /\ Goto(p, "off")
  /\ beat' = [beat EXCEPT ![p] = [b \in Beats |-> NoBeat]]
  /\ title' = [title EXCEPT ![p] = NoTitle]
  /\ told' = [told EXCEPT ![p] = {}] /\ left' = [left EXCEPT ![p] = {}]
  /\ UNCHANGED host

\* The lock is refused, or the database is busy: deleteOrphanedSession, exit.
BootFails(p) ==
  /\ Active(p, "made")
  /\ Remove(next[p], p)
  /\ Forget(p)

\* The exit of Run joins the goroutines of the heartbeat, then releases.
\* The title's goroutine is not joined.
Exit(p) ==
  /\ Active(p, "rest")
  /\ \A b \in Beats : beat[p][b].at = "idle"
  /\ Release(locked[p], p)
  /\ Goto(p, "exited")
  /\ UNCHANGED <<host, life, sess, next, shared, beat, title, history>>

\* The process ends, on its own or by a signal.
Kill(p) ==
  /\ life[p] \in {"running", "stopped"}
  /\ Forget(p)
  /\ UNCHANGED <<store, taken>>

Stop(p) ==
  /\ life[p] = "running"
  /\ life' = [life EXCEPT ![p] = "stopped"]
  /\ UNCHANGED <<store, host, repl, shared, beat, title, history>>

Resume(p) ==
  /\ life[p] = "stopped"
  /\ life' = [life EXCEPT ![p] = "running"]
  /\ UNCHANGED <<store, host, repl, shared, beat, title, history>>

\* Another program gets the pid of a dead process.
Reuse(p) ==
  /\ life[p] = "dead"
  /\ life' = [life EXCEPT ![p] = "reused"]
  /\ UNCHANGED <<store, host, repl, shared, beat, title, history>>

----------------------------------------------------------------------------
(* The heartbeat: heartbeatTick, handleHeartbeatResult, watchResumeRefresh *)

SetBeat(p, b, label, id) == beat' = [beat EXCEPT ![p][b] = [at |-> label, id |-> id]]

BeatLoad(p, b) ==
  /\ life[p] = "running" /\ step[p] \notin Booting \cup {"exited"}
  /\ beat[p][b].at = "idle"
  /\ SetBeat(p, b, "loaded", locked[p])
  /\ UNCHANGED <<store, host, life, repl, shared, title, history>>

\* RefreshSessionLock touches p's own row or finds none.  A busy database is
\* neither: the beat ends and the next one tries again.
BeatRefresh(p, b) ==
  LET id == beat[p][b].id IN
  /\ life[p] = "running" /\ beat[p][b].at = "loaded"
  /\ \/ /\ holder[id] = p
        /\ age' = [age EXCEPT ![id] = 0] /\ SetBeat(p, b, "idle", NoOne)
     \/ /\ holder[id] # p
        /\ SetBeat(p, b, "missed", id) /\ UNCHANGED age
     \/ SetBeat(p, b, "idle", NoOne) /\ UNCHANGED age
  /\ UNCHANGED <<rows, born, holder, host, life, repl, shared, title, history>>

\* Mutant: a missed refresh is trusted whatever session it was for.
TrustMiss(p, id) == TRUE

\* The session is still the one this process names.
StillNamed(p, id) == locked[p] = id

BeatAgain(p, b) ==
  LET id == beat[p][b].id IN
  /\ life[p] = "running" /\ beat[p][b].at = "missed"
  /\ IF StillNamed(p, id) THEN SetBeat(p, b, "alarm", id) ELSE SetBeat(p, b, "idle", NoOne)
  /\ UNCHANGED <<store, host, life, repl, shared, title, history>>

\* onLockLost.  An alarm for the session a switch is moving to does not last:
\* the switch clears the state it sets.
BeatAlarm(p, b) ==
  LET id == beat[p][b].id IN
  /\ life[p] = "running" /\ beat[p][b].at = "alarm"
  /\ lost' = [lost EXCEPT ![p] = TRUE]
  /\ told' = IF id = next[p] /\ step[p] \in {"named", "released"} THEN told
             ELSE [told EXCEPT ![p] = @ \cup {id}]
  /\ SetBeat(p, b, "idle", NoOne)
  /\ UNCHANGED <<store, host, life, repl, locked, title, taken, left>>

----------------------------------------------------------------------------
(* Writes of the REPL goroutine *)

\* appendMessage, saveSession, clearSession, undoLastTurn, /title: the check.
Write(p) ==
  /\ Active(p, "rest") /\ ~lost[p]
  /\ Goto(p, "writing")
  /\ UNCHANGED <<store, host, life, sess, next, shared, beat, title, history>>

\* The write lands, or fails.
Written(p) ==
  /\ Active(p, "writing")
  /\ Goto(p, "rest")
  /\ UNCHANGED <<store, host, life, sess, next, shared, beat, title, history>>

----------------------------------------------------------------------------
(* startNewSession and forkCurrentSession *)

Advance(p, from, to) == Active(p, from) /\ Goto(p, to)

NewCreate(p, s) ==
  /\ Advance(p, "rest", "created")
  /\ Create(s)
  /\ next' = [next EXCEPT ![p] = s]
  /\ UNCHANGED <<host, life, sess, shared, beat, title, told, left>>

NewLock(p) ==
  /\ Advance(p, "created", "owned")
  /\ CanClaim(next[p], p) /\ Acquire(next[p], p)
  /\ UNCHANGED <<host, life, sess, next, shared, beat, title, told, left>>

\* The lock is refused, or the database is busy: deleteOrphanedSession.
NewFails(p) ==
  /\ Advance(p, "created", "rest")
  /\ Remove(next[p], p)
  /\ next' = [next EXCEPT ![p] = NoOne]
  /\ UNCHANGED <<host, life, sess, shared, beat, title, told, left>>

\* saveSession marks the old session completed, unless it was lost.
NewSave(p) ==
  /\ Advance(p, "owned", IF lost[p] THEN "saved" ELSE "saving")
  /\ UNCHANGED <<store, host, life, sess, next, shared, beat, title, history>>

NewSaved(p) ==
  /\ Advance(p, "saving", "saved")
  /\ UNCHANGED <<store, host, life, sess, next, shared, beat, title, history>>

\* setLockedSession, before the old row is released.
NewName(p) ==
  /\ Advance(p, "saved", "named")
  /\ locked' = [locked EXCEPT ![p] = next[p]]
  /\ UNCHANGED <<store, host, life, sess, next, lost, beat, title, history>>

NewRelease(p) ==
  /\ Advance(p, "named", "released")
  /\ Release(sess[p], p)
  /\ left' = [left EXCEPT ![p] = @ \cup {sess[p]}]
  /\ UNCHANGED <<host, life, sess, next, shared, beat, title, taken, told>>

NewClear(p) ==
  /\ Advance(p, "released", "cleared")
  /\ lost' = [lost EXCEPT ![p] = FALSE]
  /\ UNCHANGED <<store, host, life, sess, next, locked, beat, title, history>>

\* r.sess, then persistModel, which a late alarm may stop.
NewDone(p) ==
  /\ Advance(p, "cleared", IF lost[p] THEN "rest" ELSE "writing")
  /\ sess' = [sess EXCEPT ![p] = next[p]]
  /\ next' = [next EXCEPT ![p] = NoOne]
  /\ UNCHANGED <<store, host, life, shared, beat, title, history>>

----------------------------------------------------------------------------
(* generateTitle, in a goroutine of its own *)

SetTitle(p, label) == title' = [title EXCEPT ![p].at = label]

\* The end of the first turn starts it, for the session of that turn.
TitleSpawn(p) ==
  /\ Active(p, "rest") /\ title[p].at = "none"
  /\ title' = [title EXCEPT ![p] = [at |-> "spawned", id |-> sess[p], ahead |-> FALSE]]
  /\ UNCHANGED <<store, host, life, repl, shared, beat, history>>

\* It asks the model, unless writes are suspended.
TitleAsks(p) ==
  /\ life[p] = "running" /\ title[p].at = "spawned"
  /\ IF lost[p] THEN title' = [title EXCEPT ![p] = NoTitle] ELSE SetTitle(p, "asked")
  /\ UNCHANGED <<store, host, life, repl, shared, beat, history>>

\* holdsSession, its first half: writes are not suspended.
TitleChecks(p) ==
  /\ life[p] = "running" /\ title[p].at = "asked"
  /\ title' = [title EXCEPT ![p] =
       IF lost[p] THEN NoTitle
       ELSE [at |-> "checked", id |-> @.id, ahead |-> @.id \in told[p]]]
  /\ UNCHANGED <<store, host, life, repl, shared, beat, history>>

\* Mutant: the session named is not compared.
AnySession(p) == TRUE

\* Its second half: the session is the one this process names.
Names(p) == locked[p] = title[p].id

TitleWrites(p) ==
  /\ life[p] = "running" /\ title[p].at = "checked"
  /\ IF Names(p) THEN SetTitle(p, "writing") ELSE title' = [title EXCEPT ![p] = NoTitle]
  /\ UNCHANGED <<store, host, life, repl, shared, beat, history>>

TitleWritten(p) ==
  /\ life[p] = "running" /\ title[p].at = "writing"
  /\ title' = [title EXCEPT ![p] = NoTitle]
  /\ UNCHANGED <<store, host, life, repl, shared, beat, history>>

----------------------------------------------------------------------------
(* Others *)

\* deepai session delete, or prune, in a process that holds no lock.
SessionDelete(s) ==
  /\ s \in rows
  /\ Remove(s, NoOne)
  /\ UNCHANGED <<host, life, repl, shared, beat, title, told, left>>

\* Time passes for one row; heartbeats come as late as they come.
Tick(s) ==
  /\ holder[s] # NoOne /\ age[s] < MaxAge
  /\ age' = [age EXCEPT ![s] = @ + 1]
  /\ UNCHANGED <<rows, born, holder, host, life, repl, shared, beat, title, history>>

----------------------------------------------------------------------------

LockInit ==
  /\ rows = {} /\ born = {}
  /\ holder = [s \in Sessions |-> NoOne] /\ age = [s \in Sessions |-> 0]
  /\ host \in [Procs -> Hosts]
  /\ life = [p \in Procs |-> "off"] /\ step = [p \in Procs |-> "off"]
  /\ sess = [p \in Procs |-> NoOne] /\ next = [p \in Procs |-> NoOne]
  /\ locked = [p \in Procs |-> NoOne] /\ lost = [p \in Procs |-> FALSE]
  /\ beat = [p \in Procs |-> [b \in Beats |-> NoBeat]]
  /\ title = [p \in Procs |-> NoTitle]
  /\ taken = [p \in Procs |-> {}] /\ told = [p \in Procs |-> {}]
  /\ left = [p \in Procs |-> {}]

Start(p) ==
  \/ \E s \in Sessions, force \in BOOLEAN : Resolve(p, s, force)
  \/ \E s \in Sessions : BootCreate(p, s)
  \/ BootLock(p) \/ BootFails(p)

Ends(p) == Exit(p) \/ Kill(p) \/ Stop(p) \/ Resume(p) \/ Reuse(p)

Heartbeat(p) ==
  \E b \in Beats : BeatLoad(p, b) \/ BeatRefresh(p, b) \/ BeatAgain(p, b) \/ BeatAlarm(p, b)

Switch(p) ==
  \/ \E s \in Sessions : NewCreate(p, s)
  \/ NewLock(p) \/ NewFails(p) \/ NewSave(p) \/ NewSaved(p)
  \/ NewName(p) \/ NewRelease(p) \/ NewClear(p) \/ NewDone(p)

Title(p) ==
  TitleSpawn(p) \/ TitleAsks(p) \/ TitleChecks(p) \/ TitleWrites(p) \/ TitleWritten(p)

LockNext ==
  \/ \E p \in Procs : Start(p) \/ Ends(p)
  \/ \E p \in Users : Heartbeat(p) \/ Write(p) \/ Written(p) \/ Switch(p) \/ Title(p)
  \/ \E s \in Sessions : SessionDelete(s) \/ Tick(s)

LockSpec == LockInit /\ [][LockNext]_lockVars

----------------------------------------------------------------------------
(* Properties *)

Settled(p) == life[p] \in {"running", "stopped"} /\ step[p] \notin Booting \cup {"exited"}

\* The session a process names as its own is the one it works on, or moves
\* to, and the row is its own unless somebody took it; its writes are only
\* suspended when something was taken from it.  At stake is the order of the
\* switch (startNewSession) and the second look of heartbeatTick: a beat that
\* runs across a switch must not report the session just released as lost.
LockStanding ==
  \A p \in Procs : Settled(p) =>
    /\ locked[p] = IF step[p] \in {"named", "released", "cleared"} THEN next[p] ELSE sess[p]
    /\ holder[locked[p]] = p \/ locked[p] \in taken[p]
    /\ lost[p] => taken[p] # {}

\* A process that was told it lost a session, or that switched away from it,
\* begins no write to it, on any of its goroutines: the suspension of
\* onLockLost outlives everything but a switch to another session, and after
\* a switch holdsSession stops the title of the old one.
Begins(p) == step[p] \notin {"writing", "saving"} /\ step'[p] \in {"writing", "saving"}
ToldMeansSilent ==
  [][\A p \in Procs :
       /\ Begins(p) => sess'[p] \notin told[p] \cup left[p]
       /\ title[p].at = "checked" /\ title'[p].at = "writing" =>
            title[p].id \notin left[p] /\ ~title[p].ahead]_lockVars
=============================================================================
