----------------------------- MODULE EventFeed -----------------------------
(***************************************************************************)
(* What the bot promises the clients of one session's event stream         *)
(* (pkg/bot/protocol.go, EventGap and Event; docs/BOT_DESIGN.md): a client *)
(* sees the events in order and without a hole, unless it was told that    *)
(* there may be one; a client that was told resynchronises before it reads *)
(* on.                                                                     *)
(***************************************************************************)
EXTENDS Naturals

CONSTANT Clients

VARIABLES
  total,   \* events published so far
  view,    \* the last event each client has seen, by its number in the stream
  told     \* the client knows that its view may have a hole

Init ==
  /\ total = 0
  /\ view = [c \in Clients |-> 0]
  /\ told = [c \in Clients |-> TRUE]

Publish == total' = total + 1 /\ UNCHANGED <<view, told>>

\* The next event in order, to a client that has no reason for doubt.
Deliver(c) ==
  /\ ~told[c] /\ view[c] < total
  /\ view' = [view EXCEPT ![c] = @ + 1]
  /\ UNCHANGED <<total, told>>

\* A restart tells every client that lost its stream at once.
Tell(s) == told' = [c \in Clients |-> told[c] \/ c \in s] /\ UNCHANGED <<total, view>>

\* A client that was told starts again from an event of its choice.
Resync(c) ==
  /\ told[c]
  /\ \E n \in 0..total : view' = [view EXCEPT ![c] = n]
  /\ told' = [told EXCEPT ![c] = FALSE]
  /\ UNCHANGED total

Next ==
  \/ Publish
  \/ \E s \in SUBSET Clients : Tell(s)
  \/ \E c \in Clients : Deliver(c) \/ Resync(c)

Spec == Init /\ [][Next]_<<total, view, told>>
=============================================================================
