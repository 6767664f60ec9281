----------------------------- MODULE BotManager -----------------------------
(***************************************************************************)
(* One stored session under the bot's Manager (pkg/bot/manager.go), with   *)
(* the requests, turns, janitor and shutdown that run concurrently on it.  *)
(*                                                                         *)
(* A session is looked up (load, under m.mu) and used (under s.mu) in two  *)
(* critical sections, so the object a request holds need not be the one    *)
(* the map holds any more.  Objects are numbered in the order they are     *)
(* loaded; one action is one critical section, or one call in between.     *)
(* Each Send stands for its request, its turn and the conversation it may  *)
(* have to open, and asks at most one question.                            *)
(***************************************************************************)
EXTENDS Naturals, FiniteSets

CONSTANTS
  Sends,       \* calls of Send
  Deletes,     \* calls of DeleteSession
  Nobody,      \* no turn, no conversation
  MaxObjects,  \* bound: session objects loaded in a behaviour
  Evicts,      \* IdleTimeout > 0: there is a janitor
  Shared       \* another bot process uses the same store

ASSUME BotAssumption ==
  /\ Nobody \notin Sends
  /\ MaxObjects \in Nat \ {0}
  /\ Evicts \in BOOLEAN /\ Shared \in BOOLEAN

VARIABLES
  cur,      \* m.sessions[id], 0 when absent
  made,     \* session objects made so far
  stored,   \* the store has the session
  closed,   \* m.closed
  shut,     \* baseCtx is cancelled (m.cancelAll)
  expired,  \* Close gave up waiting (its ctx ended)
  closing,  \* where Close stands
  victim,   \* the object the janitor has unmapped and not yet released, or 0
  turn,     \* s.turn of each object
  conv,     \* s.conv of each object
  last,     \* the last turn event published on each object's bus
  shutConvs, \* conversations closed
  lock,     \* the row of session_locks: "free", "ours" or another process's
  pc,       \* where each Send stands, its turn included
  at,       \* the object it holds
  runs,     \* the conversation its turn runs on
  cancelled,\* its turn's ctx was cancelled, by a client, a timeout or its end
  asking,   \* its call of AskQuestion
  pending,  \* the question is in t.questions
  box,      \* pq.answer, a channel of capacity one
  dpc, dat, dconv  \* each DeleteSession: where it stands, its object, what it took

mgr   == <<cur, made, stored, closed, shut, expired, closing, victim>>
objs  == <<turn, conv, last>>
send  == <<pc, at, runs, cancelled>>
ask   == <<asking, pending, box>>
del   == <<dpc, dat, dconv>>
vars  == <<mgr, objs, shutConvs, lock, send, ask, del>>

Objects == 1..MaxObjects
SendPCs == {"idle", "loaded", "admitted", "started", "running",
            "persisted", "unlocked", "ended", "done", "refused"}
DelPCs  == {"idle", "loaded", "taken", "removed", "unmapped", "done", "refused"}

TypeOK ==
  /\ cur \in 0..MaxObjects /\ made \in Objects /\ victim \in 0..MaxObjects
  /\ stored \in BOOLEAN /\ closed \in BOOLEAN /\ shut \in BOOLEAN /\ expired \in BOOLEAN
  /\ closing \in {"no", "begun", "waiting", "swapped", "released"}
  /\ turn \in [Objects -> Sends \cup {Nobody}]
  /\ conv \in [Objects -> Sends \cup {Nobody}]
  /\ last \in [Objects -> {"start", "event", "end"} \X (Sends \cup {Nobody})]
  /\ shutConvs \in SUBSET Sends
  /\ lock \in {"free", "ours", "other"}
  /\ pc \in [Sends -> SendPCs] /\ at \in [Sends -> 0..MaxObjects]
  /\ runs \in [Sends -> Sends \cup {Nobody}]
  /\ cancelled \in [Sends -> BOOLEAN]
  /\ asking \in [Sends -> {"none", "waiting", "answered", "cancelled", "refused"}]
  /\ pending \in [Sends -> BOOLEAN] /\ box \in [Sends -> {"empty", "full", "closed"}]
  /\ dpc \in [Deletes -> DelPCs] /\ dat \in [Deletes -> 0..MaxObjects]
  /\ dconv \in [Deletes -> Sends \cup {Nobody}]

----------------------------------------------------------------------------
(* Helpers *)

\* Mutant: the turn's ctx does not descend from the manager's.
OwnCancel(s) == cancelled[s]

\* The ctx of a turn: its own cancel, its timeout, or the shutdown.
Cancelled(s) == cancelled[s] \/ shut

Step(s, label) == pc' = [pc EXCEPT ![s] = label]
DStep(d, label) == dpc' = [dpc EXCEPT ![d] = label]

Publish(o, kind, s) == last' = [last EXCEPT ![o] = <<kind, s>>]

\* load: the mapped object, or a new one read from the store.
Load(o) ==
  /\ ~closed
  /\ \/ /\ cur # 0 /\ o = cur
        /\ UNCHANGED <<cur, made>>
     \/ /\ cur = 0 /\ stored /\ made < MaxObjects
        /\ o = made + 1 /\ made' = o /\ cur' = o

\* load fails: the bot is closed, or the store has no such session.
LoadFails == closed \/ (cur = 0 /\ ~stored)

\* Mutant: a conversation is closed although there is none.
CloseUnchecked(c) == shutConvs' = shutConvs \cup {c}

CloseConv(c) == shutConvs' = IF c = Nobody THEN shutConvs ELSE shutConvs \cup {c}

\* Mutant: a second turn is queued on the session instead of refused.
NeverBusy(o) == FALSE

\* ErrBusy
Busy(o) == turn[o] # Nobody

----------------------------------------------------------------------------
(* Send *)

SendLoad(s) ==
  /\ pc[s] = "idle"
  /\ \/ /\ \E o \in Objects : Load(o) /\ at' = [at EXCEPT ![s] = o]
        /\ Step(s, "loaded")
     \/ /\ LoadFails /\ Step(s, "refused")
        /\ UNCHANGED <<cur, made, at>>
  /\ UNCHANGED <<stored, closed, shut, expired, closing, victim, objs, shutConvs, lock,
                 runs, cancelled, ask, del>>

\* The second check of m.closed, and turns.Add.
SendAdmit(s) ==
  /\ pc[s] = "loaded"
  /\ Step(s, IF closed THEN "refused" ELSE "admitted")
  /\ UNCHANGED <<mgr, objs, shutConvs, lock, at, runs, cancelled, ask, del>>

\* Under s.mu: busy, a conversation that cannot be opened, or a session locked
\* by another process refuse the request; a conversation stays either way.
\* AcquireSessionLock is reentrant, so it refuses this process only when the store
\* has lost the session, to which the row refers.
SendBegin(s) ==
  /\ pc[s] = "admitted"
  /\ LET o == at[s] IN
     \/ /\ Busy(o) /\ Step(s, "refused")
        /\ UNCHANGED <<turn, conv, lock, runs>>
     \/ /\ ~Busy(o) /\ conv[o] = Nobody /\ Step(s, "refused")
        /\ UNCHANGED <<turn, conv, lock, runs>>
     \/ /\ ~Busy(o)
        /\ conv' = IF conv[o] = Nobody THEN [conv EXCEPT ![o] = s] ELSE conv
        /\ \/ /\ lock = "other" \/ ~stored
              /\ Step(s, "refused") /\ UNCHANGED <<turn, lock, runs>>
           \/ /\ lock # "other" /\ stored /\ Step(s, "started")
              /\ lock' = "ours"
              /\ turn' = [turn EXCEPT ![o] = s]
              /\ runs' = [runs EXCEPT ![s] = conv'[o]]
  /\ UNCHANGED <<mgr, last, shutConvs, at, cancelled, ask, del>>

----------------------------------------------------------------------------
(* runTurn *)

TurnStart(s) ==
  /\ pc[s] = "started"
  /\ Publish(at[s], "start", s)
  /\ Step(s, "running")
  /\ UNCHANGED <<mgr, turn, conv, shutConvs, lock, at, runs, cancelled, ask, del>>

\* The agent side runs, or was abandoned after a cancel and still runs.
AgentAlive(s) ==
  \/ pc[s] = "running"
  \/ pc[s] \in {"persisted", "unlocked", "ended", "done"} /\ Cancelled(s)

\* Mutant: a late event goes out after the turn.
EmitAlways(s) == TRUE

\* s.turn == t, in emit and in AskQuestion
OnTurn(s) == turn[at[s]] = s

Emit(s) ==
  /\ AgentAlive(s) /\ OnTurn(s)
  /\ Publish(at[s], "event", s)
  /\ UNCHANGED <<mgr, turn, conv, shutConvs, lock, send, ask, del>>

\* AskQuestion: register and publish, under s.mu.
AskQuestion(s) ==
  /\ AgentAlive(s) /\ asking[s] = "none"
  /\ IF OnTurn(s)
     THEN /\ asking' = [asking EXCEPT ![s] = "waiting"]
          /\ pending' = [pending EXCEPT ![s] = TRUE]
          /\ Publish(at[s], "event", s)
     ELSE /\ asking' = [asking EXCEPT ![s] = "refused"]
          /\ UNCHANGED <<pending, last>>
  /\ UNCHANGED <<mgr, turn, conv, shutConvs, lock, send, box, del>>

\* Mutant: only an answer or the end of the turn wakes the question.
NoCtxDone(s) == FALSE

CtxDone(s) == Cancelled(s)

\* Its select: the answer, the closed channel, or ctx.Done (which takes the
\* question back).
AskReturns(s) ==
  /\ asking[s] = "waiting"
  /\ \/ box[s] = "full" /\ asking' = [asking EXCEPT ![s] = "answered"]
        /\ box' = [box EXCEPT ![s] = "empty"] /\ UNCHANGED pending
     \/ box[s] = "closed" /\ asking' = [asking EXCEPT ![s] = "cancelled"]
        /\ UNCHANGED <<box, pending>>
     \/ CtxDone(s) /\ asking' = [asking EXCEPT ![s] = "cancelled"]
        /\ pending' = [pending EXCEPT ![s] = FALSE] /\ UNCHANGED box
  /\ UNCHANGED <<mgr, objs, shutConvs, lock, send, del>>

\* Mutant: the channels of open questions are closed and stay registered.
KeepRegistered(s) == UNCHANGED pending

Unregister(s) == pending' = [pending EXCEPT ![s] = FALSE]

\* RunTurn returns (only a cancelled one may leave its question waiting); then
\* under s.mu the messages go to the store, or nowhere when it has lost the
\* session, and every open question is closed.
Persist(s) ==
  /\ pc[s] = "running"
  /\ asking[s] = "waiting" => Cancelled(s)
  /\ IF pending[s]
     THEN box' = [box EXCEPT ![s] = "closed"] /\ Unregister(s)
     ELSE UNCHANGED <<box, pending>>
  /\ Step(s, "persisted")
  /\ UNCHANGED <<mgr, objs, shutConvs, lock, at, runs, cancelled, asking, del>>

\* stopRefresh: only our own row is deleted.
ReleaseLock(s) ==
  /\ pc[s] = "persisted"
  /\ lock' = IF lock = "ours" THEN "free" ELSE lock
  /\ Step(s, "unlocked")
  /\ UNCHANGED <<mgr, objs, shutConvs, at, runs, cancelled, ask, del>>

\* turn_end goes out while s.turn is still t.
TurnEnd(s) ==
  /\ pc[s] = "unlocked"
  /\ Publish(at[s], "end", s) /\ turn' = [turn EXCEPT ![at[s]] = Nobody]
  /\ Step(s, "ended")
  /\ UNCHANGED <<mgr, conv, shutConvs, lock, at, runs, cancelled, ask, del>>

\* close(t.done), then the deferred t.cancel and turns.Done.
TurnDone(s) ==
  /\ pc[s] = "ended"
  /\ Step(s, "done")
  /\ cancelled' = [cancelled EXCEPT ![s] = TRUE]
  /\ runs' = [runs EXCEPT ![s] = Nobody]
  /\ UNCHANGED <<mgr, objs, shutConvs, lock, at, ask, del>>

----------------------------------------------------------------------------
(* Other requests *)

\* Cancel reaches the turn of the mapped object; TurnTimeout reaches any.
CancelTurn(s) ==
  /\ pc[s] \in {"started", "running", "persisted", "unlocked"}
  /\ ~cancelled[s]
  /\ cancelled' = [cancelled EXCEPT ![s] = TRUE]
  /\ UNCHANGED <<mgr, objs, shutConvs, lock, pc, at, runs, ask, del>>

\* Answer, under s.mu: the question is taken off the turn and the answer sent.
Answer(s) ==
  /\ ~closed /\ cur # 0 /\ turn[cur] = s /\ pending[s]
  /\ pending' = [pending EXCEPT ![s] = FALSE]
  /\ box' = [box EXCEPT ![s] = "full"]
  /\ Publish(cur, "event", s)
  /\ UNCHANGED <<mgr, turn, conv, shutConvs, lock, send, asking, del>>

\* GetSession, RenameSession, Subscribe: all they do here is load.
Touch ==
  /\ cur = 0
  /\ \E o \in Objects : Load(o)
  /\ UNCHANGED <<stored, closed, shut, expired, closing, victim, objs, shutConvs, lock,
                 send, ask, del>>

DeleteLoad(d) ==
  /\ dpc[d] = "idle"
  /\ \/ /\ \E o \in Objects : Load(o) /\ dat' = [dat EXCEPT ![d] = o]
        /\ DStep(d, "loaded")
     \/ /\ LoadFails /\ DStep(d, "refused")
        /\ UNCHANGED <<cur, made, dat>>
  /\ UNCHANGED <<stored, closed, shut, expired, closing, victim, objs, shutConvs, lock,
                 send, ask, dconv>>

\* Mutant: the conversation stays with the session until it is closed.
LeaveConv(o) == UNCHANGED conv

TakeConv(o) == conv' = [conv EXCEPT ![o] = Nobody]

\* Under s.mu: refuse a busy session, else take its conversation.
DeleteTake(d) ==
  /\ dpc[d] = "loaded"
  /\ LET o == dat[d] IN
     IF Busy(o)
     THEN DStep(d, "refused") /\ UNCHANGED <<conv, dconv>>
     ELSE /\ DStep(d, "taken")
          /\ dconv' = [dconv EXCEPT ![d] = conv[o]]
          /\ TakeConv(o)
  /\ UNCHANGED <<mgr, turn, last, shutConvs, lock, send, ask, dat>>

\* Store.Delete, which takes the row of the lock along, whoever has it; when it
\* fails, as it does on a session already gone, the request returns there and then.
DeleteStored(d) ==
  /\ dpc[d] = "taken"
  /\ \/ stored /\ DStep(d, "removed") /\ stored' = FALSE /\ lock' = "free"
     \/ DStep(d, "refused") /\ UNCHANGED <<stored, lock>>
  /\ UNCHANGED <<cur, made, closed, shut, expired, closing, victim, objs, shutConvs,
                 send, ask, dat, dconv>>

\* delete(m.sessions, id): whatever object is mapped.
DeleteUnmap(d) ==
  /\ dpc[d] = "removed"
  /\ cur' = 0
  /\ DStep(d, "unmapped")
  /\ UNCHANGED <<made, stored, closed, shut, expired, closing, victim, objs, shutConvs,
                 lock, send, ask, dat, dconv>>

DeleteRelease(d) ==
  /\ dpc[d] = "unmapped"
  /\ CloseConv(dconv[d])
  /\ dconv' = [dconv EXCEPT ![d] = Nobody]
  /\ DStep(d, "done")
  /\ UNCHANGED <<mgr, objs, lock, send, ask, dat>>

----------------------------------------------------------------------------
(* The janitor, other processes, shutdown *)

\* evictIdle: under m.mu and s.mu, an idle object is unmapped ...
EvictUnmap ==
  /\ Evicts /\ victim = 0 /\ closing = "no"
  /\ cur # 0 /\ ~Busy(cur)
  /\ victim' = cur /\ cur' = 0
  /\ UNCHANGED <<made, stored, closed, shut, expired, closing, objs, shutConvs, lock,
                 send, ask, del>>

\* ... and later its conversation is closed.
EvictRelease ==
  /\ victim # 0
  /\ CloseConv(conv[victim])
  /\ conv' = [conv EXCEPT ![victim] = Nobody]
  /\ victim' = 0
  /\ UNCHANGED <<cur, made, stored, closed, shut, expired, closing, turn, last,
                 lock, send, ask, del>>

\* Another bot process on the same store runs a turn of the session.
OtherProcess ==
  /\ Shared
  /\ \/ lock = "free" /\ stored /\ lock' = "other"
     \/ lock = "other" /\ lock' = "free"
  /\ UNCHANGED <<mgr, objs, shutConvs, send, ask, del>>

CloseBegin ==
  /\ closing = "no"
  /\ closed' = TRUE /\ closing' = "begun"
  /\ UNCHANGED <<cur, made, stored, shut, expired, victim, objs, shutConvs, lock, send, ask, del>>

\* m.cancelAll
CloseCancels ==
  /\ closing = "begun"
  /\ shut' = TRUE /\ closing' = "waiting"
  /\ UNCHANGED <<cur, made, stored, closed, expired, victim, objs, shutConvs, lock, send,
                 ask, del>>

\* m.turns: Sends that were admitted and have neither failed nor finished.
TurnsOut == {s \in Sends : pc[s] \notin {"idle", "loaded", "refused", "done"}}

\* Mutant: Close does not wait.
NoWait == TRUE

TurnsDone == TurnsOut = {}

\* turns.Wait or the ctx; then the map is taken.  victim holds the object.
CloseSwap ==
  /\ closing = "waiting" /\ victim = 0
  /\ \/ TurnsDone /\ UNCHANGED expired
     \/ TurnsOut # {} /\ expired' = TRUE
  /\ victim' = cur /\ cur' = 0
  /\ closing' = "swapped"
  /\ UNCHANGED <<made, stored, closed, shut, objs, shutConvs, lock, send, ask, del>>

CloseRelease ==
  /\ closing = "swapped" /\ victim = 0
  /\ closing' = "released"
  /\ UNCHANGED <<cur, made, stored, closed, shut, expired, victim, objs, shutConvs, lock,
                 send, ask, del>>

----------------------------------------------------------------------------
(* Specification *)

\* CreateSession has just made and mapped the first object.
Init ==
  /\ cur = 1 /\ made = 1 /\ stored = TRUE /\ victim = 0
  /\ closed = FALSE /\ shut = FALSE /\ expired = FALSE /\ closing = "no"
  /\ turn = [o \in Objects |-> Nobody] /\ conv = [o \in Objects |-> Nobody]
  /\ last = [o \in Objects |-> <<"end", Nobody>>]
  /\ shutConvs = {} /\ lock = "free"
  /\ pc = [s \in Sends |-> "idle"] /\ at = [s \in Sends |-> 0]
  /\ runs = [s \in Sends |-> Nobody]
  /\ cancelled = [s \in Sends |-> FALSE]
  /\ asking = [s \in Sends |-> "none"] /\ pending = [s \in Sends |-> FALSE]
  /\ box = [s \in Sends |-> "empty"]
  /\ dpc = [d \in Deletes |-> "idle"] /\ dat = [d \in Deletes |-> 0]
  /\ dconv = [d \in Deletes |-> Nobody]

\* What goes on by itself once a turn has begun.
Turn(s) ==
  \/ SendBegin(s) \/ TurnStart(s) \/ Persist(s) \/ ReleaseLock(s)
  \/ TurnEnd(s) \/ TurnDone(s)

Close == CloseCancels \/ CloseSwap \/ CloseRelease

Next ==
  \/ \E s \in Sends :
       \/ SendLoad(s) \/ SendAdmit(s) \/ Turn(s)
       \/ Emit(s) \/ AskQuestion(s) \/ AskReturns(s) \/ CancelTurn(s) \/ Answer(s)
  \/ \E d \in Deletes :
       \/ DeleteLoad(d) \/ DeleteTake(d) \/ DeleteStored(d)
       \/ DeleteUnmap(d) \/ DeleteRelease(d)
  \/ Touch \/ EvictUnmap \/ EvictRelease \/ OtherProcess \/ CloseBegin \/ Close

Spec == Init /\ [][Next]_vars

\* Goroutines run on; a cancelled agent unwinds (the runtime abandons tools
\* that do not).  Without a cancel a turn may take for ever, and no client has
\* to answer.
FairSpec ==
  /\ Spec
  /\ \A s \in Sends :
       /\ WF_vars(Turn(s) /\ (pc[s] = "running" => Cancelled(s)))
       /\ WF_vars(AskReturns(s))
  /\ WF_vars(EvictRelease)
  /\ WF_vars(CloseCancels) /\ WF_vars(CloseSwap /\ TurnsDone) /\ WF_vars(CloseRelease)

----------------------------------------------------------------------------
(* Properties *)

\* A turn is on the session from SendBegin to TurnEnd.
OnSession == {s \in Sends : pc[s] \in {"started", "running", "persisted", "unlocked"}}

\* Each session runs at most one agent turn at a time (protocol.go:3-4), over
\* all objects that stand for it.
OneTurnPerSession == Cardinality(OnSession) <= 1

\* The session lock covers the whole turn, its last write to the store included:
\* another process never writes between (holdLock).  Only a delete can take the row
\* from under a turn, together with the session, which nobody can lock then.
LockCoversTurn ==
  \A s \in Sends : pc[s] \in {"started", "running", "persisted"} =>
    lock = IF stored THEN "ours" ELSE "free"

\* A turn never runs on a conversation that was closed under it, unless Close
\* gave up waiting.
ConversationOpen ==
  \A s \in Sends : pc[s] \in {"started", "running"} /\ ~expired => runs[s] \notin shutConvs

\* A turn keeps both things it began with until its last write to the store: the
\* session's lock, against other processes, as long as the store has the session,
\* and an open conversation, against the delete, the janitor and the shutdown
\* (Send, holdLock, runTurn).
TurnIsSafe == LockCoversTurn /\ ConversationOpen

\* On one bus a turn's events lie between its turn_start and its turn_end, and
\* no other turn's are among them, late events of abandoned runs included
\* (runTurn, the comments on emit and endEvt).
TurnsBracketed ==
  [][\A o \in Objects : last'[o] # last[o] =>
       IF last'[o][1] = "start" THEN last[o][1] = "end"
       ELSE last[o][1] # "end" /\ last'[o][2] = last[o][2]]_vars

\* A registered question can take its one answer: Answer, which holds s.mu,
\* neither blocks on a full channel nor panics on a closed one.
QuestionsAnswerable == \A s \in Sends : pending[s] => box[s] = "empty"

\* Shutdown finishes although nobody answers the open questions: Close returns
\* once the cancelled turns have unwound, without its ctx having to expire.
CloseReturns == closed ~> closing = "released"

\* No call of AskQuestion outlives its turn.
QuestionsReturn == \A s \in Sends : asking[s] = "waiting" /\ pc[s] = "done" ~> asking[s] # "waiting"

\* When Close returned in time, every turn is over and no more will be.
CloseWaits == closing = "released" /\ ~expired => OnSession = {}
=============================================================================
