------------------------------ MODULE EventBus ------------------------------
(***************************************************************************)
(* The event stream of one bot session (pkg/bot/bus.go) with its clients:  *)
(* sequence numbers, the bounded replay ring, subscriptions that never     *)
(* block the publisher, and the renumbering when the session is unloaded   *)
(* by the janitor, or the bot restarted, and loaded again                  *)
(* (pkg/bot/manager.go: evictIdle, load, reloadBaseLocked).  A client does *)
(* what the protocol asks: it resumes from the last seq it saw, and when a *)
(* gap is reported it reads the transcript (GetSession) and resubscribes   *)
(* from the session's last_seq.                                            *)
(*                                                                         *)
(* An event is its seq, its number in the whole stream (history, to tell   *)
(* two buses of one session apart) and the turn it ends, 0 when none.      *)
(***************************************************************************)
EXTENDS Naturals, Sequences, FiniteSets

CONSTANTS
  Clients,
  Replay,       \* capacity of the replay ring (ReplayEvents)
  Buffer,       \* subscriberBuffer
  MaxEvents,    \* bound: events published in a behaviour
  MaxReloads,   \* bound: times the session is loaded again
  ClockSteps    \* how far the wall clock may be set back at once

ASSUME BusAssumption ==
  /\ Replay \in Nat \ {0} /\ Buffer \in Nat \ {0}
  /\ MaxEvents \in Nat /\ MaxReloads \in Nat
  /\ ClockSteps \subseteq Nat

VARIABLES
  loaded,    \* m.sessions holds the session; its bus is open
  base, seq, \* bus.base, bus.seq
  ring, start, full,  \* bus.ring, bus.start, bus.full
  floor,     \* m.seqFloor[id], 0 when absent
  now,       \* the wall clock, in the unit of reloadBaseLocked
  born,      \* its value when this process started
  total,     \* history: events published so far
  ended,     \* history: turns whose turn_end was published
  stored,    \* turns whose messages are in the transcript
  reloads,   \* bounds the loads
  sub,       \* per client: no stream, or the state of its Subscription
  back,      \* gap marker and backlog not yet forwarded to the client
  chan,      \* Subscription.c
  cursor,    \* the last seq the client saw
  view,      \* history: the number of the last event the client saw
  told,      \* the client got a gap (or is new) and has to resynchronise
  reading,   \* GetSession has copied the messages and not yet read last_seq
  snap       \* turns the client has from the transcript or a turn_end

bus     == <<loaded, base, seq, ring, start, full, floor>>
hist    == <<total, ended, stored, reloads, born>>
stream  == <<sub, back, chan>>
client  == <<cursor, view, told, snap, reading>>
vars    == <<bus, now, hist, stream, client>>

Event == [seq : Nat, n : Nat, turn : Nat]
Gap   == [seq |-> 0, n |-> 0, turn |-> 0]

TypeOK ==
  /\ loaded \in BOOLEAN /\ full \in BOOLEAN
  /\ base \in Nat /\ seq \in Nat /\ floor \in Nat /\ now \in Nat /\ born \in Nat
  /\ ring \in Seq(Event) /\ Len(ring) <= Replay /\ start \in 0..(Replay - 1)
  /\ total \in Nat /\ ended \in Nat /\ stored \in {ended, ended + 1} /\ reloads \in Nat
  /\ sub \in [Clients -> {"none", "open", "lagged"}]
  /\ back \in [Clients -> Seq(Event)]
  /\ chan \in [Clients -> Seq(Event)]
  /\ \A c \in Clients : Len(chan[c]) <= Buffer
  /\ cursor \in [Clients -> Nat] /\ view \in [Clients -> Nat]
  /\ told \in [Clients -> BOOLEAN] /\ reading \in [Clients -> BOOLEAN] /\ snap \in [Clients -> Nat]

----------------------------------------------------------------------------
(* The bus *)

\* Mutant: a wrapped ring is read from slot 0.
OrderedFromZero == ring

\* orderedLocked: the ring, oldest event first.
Ordered ==
  IF full THEN SubSeq(ring, start + 1, Len(ring)) \o SubSeq(ring, 1, start) ELSE ring

\* Mutant: eviction is off by one.
GapOffByOne(since) ==
  since # seq /\ (since > seq \/ Ordered = <<>> \/ since + 2 < Ordered[1].seq)

\* The backlog cannot be the exact continuation of the client's cursor.
HasGap(since) ==
  since # seq /\ (since > seq \/ Ordered = <<>> \/ since + 1 < Ordered[1].seq)

\* The events after since, oldest first (a SelectSeq one can prove about).
After(since) ==
  LET kept == {i \in DOMAIN Ordered : Ordered[i].seq > since}
  IN [k \in 1..Cardinality(kept) |->
        Ordered[CHOOSE i \in kept : Cardinality({j \in kept : j <= i}) = k]]

\* Mutant: a subscriber that is full silently loses the event.
SkipSlow(e) ==
  /\ chan' = [c \in Clients |-> IF sub[c] = "open" /\ Len(chan[c]) < Buffer
                                THEN Append(chan[c], e) ELSE chan[c]]
  /\ UNCHANGED sub

\* The non-blocking send of publish: a full subscriber is dropped as lagged.
DropSlow(e) ==
  /\ chan' = [c \in Clients |-> IF sub[c] = "open" /\ Len(chan[c]) < Buffer
                                THEN Append(chan[c], e) ELSE chan[c]]
  /\ sub' = [c \in Clients |-> IF sub[c] = "open" /\ Len(chan[c]) >= Buffer
                               THEN "lagged" ELSE sub[c]]

\* Mutant: the slot does not wrap.
NextSlotNoWrap == start + 1

NextSlot == (start + 1) % Len(ring)

\* publish: number the event, overwrite the oldest, fan out.  The clock gains
\* at least one unit (a microsecond) per event.
Emit(turn) ==
  /\ loaded /\ total < MaxEvents
  /\ LET e == [seq |-> seq + 1, n |-> total + 1, turn |-> turn]
     IN /\ IF Len(ring) < Replay
           THEN ring' = Append(ring, e) /\ UNCHANGED <<start, full>>
           ELSE /\ ring' = [ring EXCEPT ![start + 1] = e]
                /\ start' = NextSlot
                /\ full' = TRUE
        /\ DropSlow(e)
  /\ seq' = seq + 1 /\ total' = total + 1 /\ now' = now + 1
  /\ UNCHANGED <<loaded, base, floor, back, client, stored, reloads, born>>

\* An event in the middle of a turn.
PublishDelta == Emit(0) /\ UNCHANGED ended

\* runTurn persists the messages ...
PersistTurn ==
  /\ loaded /\ stored = ended /\ total < MaxEvents
  /\ stored' = stored + 1
  /\ UNCHANGED <<bus, now, total, ended, reloads, born, stream, client>>

\* ... before it publishes turn_end.
PublishEnd ==
  /\ stored = ended + 1
  /\ Emit(stored) /\ ended' = stored

----------------------------------------------------------------------------
(* Unloading and loading *)

\* Mutant: the janitor forgets where the numbering stood.
NoFloor == floor

\* seqFloor[id] = lastSeq
FloorAtEviction == seq

\* evictIdle: no turn is running and nobody is subscribed.
Evict ==
  /\ loaded /\ reloads < MaxReloads /\ stored = ended /\ \A c \in Clients : sub[c] # "open"
  /\ loaded' = FALSE /\ floor' = FloorAtEviction
  /\ UNCHANGED <<base, seq, ring, start, full, now, hist, stream, client>>

\* Mutant: a reloaded session counts from the start again.
BaseZero == 0

\* reloadBaseLocked
ReloadBase == IF now > floor THEN now ELSE floor

\* load, by whatever request needs the session.  A GetSession caught between
\* its halves reads the unloaded bus, which no longer changes: it reads first.
Load ==
  /\ ~loaded /\ reloads < MaxReloads /\ \A c \in Clients : ~reading[c]
  /\ loaded' = TRUE /\ reloads' = reloads + 1
  /\ base' = ReloadBase /\ seq' = ReloadBase
  /\ ring' = <<>> /\ start' = 0 /\ full' = FALSE
  /\ UNCHANGED <<floor, now, born, total, ended, stored, stream, client>>

\* The wall clock is set back, at most to where the process found it.
StepClock ==
  /\ \E d \in ClockSteps : d > 0 /\ born + d <= now /\ now' = now - d
  /\ UNCHANGED <<bus, hist, stream, client>>

\* The bot dies and starts again, later than any event it ever numbered: the
\* connections are gone, and with them what was still queued; a turn that had
\* been persisted is in the transcript though its turn_end was never sent.
Restart ==
  /\ reloads < MaxReloads
  /\ loaded' = FALSE /\ floor' = 0
  /\ born' = IF now > seq THEN now ELSE seq + 1
  /\ now' = born'
  /\ ended' = stored
  /\ sub' = [c \in Clients |-> "none"]
  /\ back' = [c \in Clients |-> <<>>] /\ chan' = [c \in Clients |-> <<>>]
  /\ reading' = [c \in Clients |-> FALSE]
  /\ UNCHANGED <<base, seq, ring, start, full, total, stored, reloads, cursor, view, told, snap>>

----------------------------------------------------------------------------
(* A client *)

Stop(c, how) ==
  /\ sub' = [sub EXCEPT ![c] = how]
  /\ back' = [back EXCEPT ![c] = <<>>] /\ chan' = [chan EXCEPT ![c] = <<>>]

\* Subscribe with the cursor: registration and backlog are one step.  A cursor
\* of 0 asks for whatever this bus still has, so it claims nothing.
Connect(c) ==
  /\ loaded /\ sub[c] = "none" /\ ~told[c]
  /\ LET since == IF cursor[c] = 0 THEN base ELSE cursor[c]
     IN /\ back' = [back EXCEPT ![c] = IF HasGap(since) THEN <<Gap>> \o After(since)
                                                     ELSE After(since)]
        /\ view' = IF cursor[c] = 0 THEN [view EXCEPT ![c] = total - (seq - base)] ELSE view
  /\ sub' = [sub EXCEPT ![c] = "open"]
  /\ UNCHANGED <<bus, now, hist, chan, cursor, told, snap, reading>>

\* The client sees an event.
See(c, e) ==
  /\ cursor' = [cursor EXCEPT ![c] = e.seq]
  /\ view' = [view EXCEPT ![c] = e.n]
  /\ snap' = IF e.turn > snap[c] THEN [snap EXCEPT ![c] = e.turn] ELSE snap
  /\ UNCHANGED <<told, reading>>

\* It is told of a gap and drops the stream.
HearGap(c) ==
  /\ told' = [told EXCEPT ![c] = TRUE]
  /\ Stop(c, "none")
  /\ UNCHANGED <<cursor, view, snap, reading>>

\* The forwarder: gap marker and backlog first, then the channel.
Receive(c) ==
  /\ sub[c] # "none"
  /\ \/ /\ back[c] # <<>> /\ Head(back[c]) = Gap
        /\ HearGap(c)
     \/ /\ back[c] # <<>> /\ Head(back[c]) # Gap
        /\ See(c, Head(back[c]))
        /\ back' = [back EXCEPT ![c] = Tail(@)]
        /\ UNCHANGED <<sub, chan>>
     \/ /\ back[c] = <<>> /\ chan[c] # <<>>
        /\ See(c, Head(chan[c]))
        /\ chan' = [chan EXCEPT ![c] = Tail(@)]
        /\ UNCHANGED <<sub, back>>
  /\ UNCHANGED <<bus, now, hist>>

\* The channel is closed and drained.  A lagged stream ends with a gap event;
\* a client may also just resume from its cursor.
StreamEnds(c) ==
  /\ sub[c] = "lagged" /\ back[c] = <<>> /\ chan[c] = <<>>
  /\ HearGap(c) \/ (Stop(c, "none") /\ UNCHANGED client)
  /\ UNCHANGED <<bus, now, hist>>

\* The client goes away, with what was still queued for it.
Disconnect(c) ==
  /\ sub[c] # "none"
  /\ Stop(c, "none")
  /\ UNCHANGED <<bus, now, hist, client>>

\* A client that was told asks GetSession: first the messages are copied ...
ReadTranscript(c) ==
  /\ loaded /\ told[c] /\ ~reading[c]
  /\ snap' = [snap EXCEPT ![c] = stored]
  /\ reading' = [reading EXCEPT ![c] = TRUE]
  /\ UNCHANGED <<bus, now, hist, stream, cursor, view, told>>

\* ... then, under another lock, info() reads last_seq.
ReadLastSeq(c) ==
  /\ reading[c]
  /\ cursor' = [cursor EXCEPT ![c] = seq]
  /\ view' = [view EXCEPT ![c] = total]
  /\ told' = [told EXCEPT ![c] = FALSE]
  /\ reading' = [reading EXCEPT ![c] = FALSE]
  /\ UNCHANGED <<bus, now, hist, stream, snap>>

----------------------------------------------------------------------------
(* Specification *)

\* CreateSession: a bus that counts from 0.
Init ==
  /\ loaded = TRUE /\ base = 0 /\ seq = 0 /\ ring = <<>> /\ start = 0 /\ full = FALSE
  /\ floor = 0 /\ now = 1 /\ born = 1
  /\ total = 0 /\ ended = 0 /\ stored = 0 /\ reloads = 0
  /\ sub = [c \in Clients |-> "none"]
  /\ back = [c \in Clients |-> <<>>] /\ chan = [c \in Clients |-> <<>>]
  /\ cursor = [c \in Clients |-> 0] /\ view = [c \in Clients |-> 0]
  /\ told = [c \in Clients |-> TRUE] /\ snap = [c \in Clients |-> 0]
  /\ reading = [c \in Clients |-> FALSE]

Follow(c) ==
  Connect(c) \/ Receive(c) \/ StreamEnds(c) \/ ReadTranscript(c) \/ ReadLastSeq(c)

Next ==
  \/ PublishDelta \/ PersistTurn \/ PublishEnd
  \/ Evict \/ Load \/ StepClock \/ Restart
  \/ \E c \in Clients : Follow(c) \/ Disconnect(c)

Spec == Init /\ [][Next]_vars

\* A client's forwarder and the client itself go on; a persisted turn ends
\* (runTurn does nothing in between that can fail).
FairSpec ==
  /\ Spec /\ WF_vars(PublishEnd) /\ WF_vars(Load)
  /\ \A c \in Clients : WF_vars(Follow(c))

----------------------------------------------------------------------------
(* Properties *)

\* The replay ring is the exact tail of the bus's own events, whatever it has
\* wrapped around: consecutive seqs up to the last one, nothing missing while
\* there is room (orderedLocked, TestBusGapRulesWithBase).
RingIsTail ==
  /\ Len(Ordered) = IF seq - base < Replay THEN seq - base ELSE Replay
  /\ \A i \in 1..Len(Ordered) : Ordered[i].seq = seq - Len(Ordered) + i

\* What is queued for a client continues what it has seen without a hole: the
\* backlog, then the channel, one number after the other, up to the newest
\* event while the subscription is open (subscribe: "no event can fall between
\* the backlog and the live feed").
QueuedIsNext ==
  \A c \in Clients :
    LET q == back[c] \o chan[c] IN
    sub[c] # "none" /\ (q = <<>> \/ Head(q) # Gap) =>
      /\ \A i \in 1..Len(q) : q[i].n = view[c] + i
      /\ sub[c] = "open" => view[c] + Len(q) = total

\* A client that keeps following ends up with every event, or is told.
CatchesUp ==
  \A c \in Clients :
    <>[][~Disconnect(c)]_vars => <>[](view[c] = total /\ ~told[c])

\* A client that follows the resync procedure the protocol prescribes (gap:
\* reload the transcript, resubscribe from last_seq; EventGap, protocol.go)
\* knows every finished turn once its stream is drained.
ResyncMissesNoTurn ==
  \A c \in Clients :
    sub[c] = "open" /\ back[c] = <<>> /\ chan[c] = <<>> => snap[c] >= ended

\* A cursor of 0 claims nothing, so a client that holds one and has no stream
\* counts as told.
Feed == INSTANCE EventFeed WITH
  told <- [c \in Clients |-> told[c] \/ (cursor[c] = 0 /\ sub[c] = "none")]

\* Clients see the events in order and without a hole, or are told, across
\* evictions, restarts and a wall clock that is set back (EventFeed).
FeedSpec == Feed!Spec
=============================================================================
