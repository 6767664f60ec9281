--------------------------- MODULE EventBusProofs ---------------------------
(***************************************************************************)
(* Proofs about EventBus, for any clients, any sizes of the ring and of    *)
(* the channels and any number of events, evictions and restarts: the ring *)
(* is the tail of the stream, what is queued for a client continues what   *)
(* it has seen, and the bus implements EventFeed.  The cursor a client     *)
(* brings along is a seq, which a reload may reuse for another event: the  *)
(* invariant says when seq and place in the stream still belong together.  *)
(***************************************************************************)
EXTENDS EventBus, SequenceTheorems, FiniteSetTheorems, TLAPS

\* The seq s stands for the n-th event: always on this bus, and a seq of an
\* earlier bus is never ahead of it.
At(s, n, b, q, t) == s <= q /\ (s >= b => n = t - (q - s))
Coherent(s, n) == At(s, n, base, seq, total)
CoherentNext(s, n) == At(s, n, base', seq', total')

Real(e) == e.seq > 0 /\ e.n > 0

\* Numbering and clock: a bus that is loaded again starts behind the old one.
Numbers ==
  /\ base <= seq /\ seq - base <= total
  /\ base = 0 => total = seq
  /\ born > 0 /\ now >= born
  /\ ~loaded => floor >= seq \/ born > seq

\* Slot k of the ring, and how long it is.
SlotSeq(k) ==
  IF full THEN (IF k <= start THEN seq - start + k ELSE seq - start - Replay + k) ELSE base + k

RingShape ==
  /\ full => Len(ring) = Replay /\ seq - base > Replay
  /\ ~full => start = 0 /\ Len(ring) = seq - base
  /\ \A k \in 1..Len(ring) : ring[k].seq = SlotSeq(k) /\ Real(ring[k]) /\ Coherent(ring[k].seq, ring[k].n)

Queue(c) == back[c] \o chan[c]

\* A client that was told holds no stream; one without a stream, no queue.
Shape(c) ==
  /\ sub[c] = "none" => back[c] = <<>> /\ chan[c] = <<>>
  /\ told[c] => sub[c] = "none"
  /\ reading[c] => told[c]
  /\ view[c] <= total
  /\ cursor[c] # 0 => Coherent(cursor[c], view[c])

ClientShape == \A c \in Clients : Shape(c)

\* Events on their way are real ones, except a gap marker in front.
RealQueue(c) ==
  /\ \A i \in 1..Len(chan[c]) : Real(chan[c][i]) /\ Coherent(chan[c][i].seq, chan[c][i].n)
  /\ \A i \in 1..Len(back[c]) :
       \/ i = 1 /\ back[c][i] = Gap
       \/ Real(back[c][i]) /\ Coherent(back[c][i].seq, back[c][i].n)

EventsReal == \A c \in Clients : RealQueue(c)

\* The queue q continues the view v, up to the newest event t while s is open.
Continues(q, v, s, t) ==
  s # "none" /\ (q = <<>> \/ Head(q) # Gap) =>
    /\ \A i \in 1..Len(q) : q[i].n = v + i
    /\ v + Len(q) <= t
    /\ s = "open" => v + Len(q) = t

QueueNext == \A c \in Clients : Continues(Queue(c), view[c], sub[c], total)

BusInv == TypeOK /\ Numbers /\ RingShape /\ ClientShape /\ EventsReal /\ QueueNext

----------------------------------------------------------------------------
(* The ring *)

\* The slot behind the last one is the first.
LEMMA SlotWraps ==
  ASSUME NEW R \in Nat \ {0}, NEW a \in 0..(R - 1)
  PROVE  (a + 1) % R = IF a + 1 = R THEN 0 ELSE a + 1
<1>1. CASE a + 1 = R
  BY <1>1
<1>2. CASE a + 1 # R
  BY <1>2
<1> QED
  BY <1>1, <1>2

\* Ordered, spelled out: the last events of this bus.
LEMMA OrderedIs ==
  ASSUME TypeOK, Numbers, RingShape
  PROVE  /\ Ordered \in Seq(Event)
         /\ Len(Ordered) = IF seq - base < Replay THEN seq - base ELSE Replay
         /\ \A i \in 1..Len(Ordered) : /\ Ordered[i].seq = seq - Len(Ordered) + i
                                      /\ Real(Ordered[i])
                                      /\ Coherent(Ordered[i].seq, Ordered[i].n)
<1>1. /\ ring \in Seq(Event) /\ Len(ring) \in Nat /\ start \in 0..(Replay - 1)
      /\ seq \in Nat /\ base \in Nat /\ Replay \in Nat \ {0} /\ Len(ring) <= Replay
  BY BusAssumption DEF TypeOK
<1>2. CASE ~full
  <2>1. Ordered = ring
    BY <1>2 DEF Ordered
  <2>2. Len(ring) = seq - base /\ \A k \in 1..Len(ring) : SlotSeq(k) = base + k
    BY <1>2 DEF RingShape, SlotSeq
  <2>3. Len(Ordered) = IF seq - base < Replay THEN seq - base ELSE Replay
    BY <1>1, <2>1, <2>2
  <2>4. \A i \in 1..Len(ring) : ring[i].seq = seq - Len(ring) + i
    BY <1>1, <2>2 DEF RingShape
  <2> QED
    BY <1>1, <2>1, <2>3, <2>4 DEF RingShape
<1>3. CASE full
  <2> DEFINE old == SubSeq(ring, start + 1, Len(ring))
             new == SubSeq(ring, 1, start)
  <2>1. Len(ring) = Replay /\ seq - base > Replay
    BY <1>3 DEF RingShape
  <2>2. /\ old \in Seq(Event) /\ Len(old) = Replay - start
        /\ \A i \in 1..(Replay - start) : old[i] = ring[start + i]
    <3>1. start + 1 \in Int /\ Len(ring) \in Int /\ \A i \in (start + 1)..Len(ring) : ring[i] \in Event
      BY <1>1
    <3>2. PICK a \in Int, z \in Int : a = start + 1 /\ z = Len(ring)
      BY <3>1
    <3>3. /\ SubSeq(ring, a, z) \in Seq(Event) /\ Len(SubSeq(ring, a, z)) = IF a <= z THEN z - a + 1 ELSE 0
          /\ \A i \in 1..(z - a + 1) : SubSeq(ring, a, z)[i] = ring[a + i - 1]
      BY <3>1, <3>2, SubSeqProperties
    <3> QED
      BY <1>1, <2>1, <3>2, <3>3
  <2>3. /\ new \in Seq(Event) /\ Len(new) = start
        /\ \A i \in 1..start : new[i] = ring[i]
    BY <1>1, <2>1
  <2> HIDE DEF old, new
  <2>4. /\ old \o new \in Seq(Event) /\ Len(old \o new) = Replay
        /\ \A i \in 1..Replay : (old \o new)[i] = IF i <= Replay - start THEN ring[start + i]
                                                ELSE ring[i - (Replay - start)]
    <3>1. Len(old) \in Nat /\ Len(new) \in Nat /\ Len(old) + Len(new) = Replay
      BY <1>1, <2>2, <2>3
    <3>2. /\ old \o new \in Seq(Event) /\ Len(old \o new) = Len(old) + Len(new)
          /\ \A i \in 1..(Len(old) + Len(new)) :
               (old \o new)[i] = IF i <= Len(old) THEN old[i] ELSE new[i - Len(old)]
      BY <2>2, <2>3, ConcatProperties
    <3> QED
      BY <1>1, <2>2, <2>3, <3>1, <3>2
  <2>5. Ordered = old \o new
    BY <1>3 DEF Ordered, old, new
  <2>6. \A i \in 1..Replay :
          LET k == IF i <= Replay - start THEN start + i ELSE i - (Replay - start)
          IN k \in 1..Len(ring) /\ SlotSeq(k) = seq - Replay + i
    BY <1>1, <1>3, <2>1 DEF SlotSeq
  <2>7. \A i \in 1..Replay : /\ Ordered[i].seq = seq - Replay + i /\ Real(Ordered[i])
                            /\ Coherent(Ordered[i].seq, Ordered[i].n)
    BY <2>4, <2>5, <2>6 DEF RingShape
  <2>8. Len(Ordered) = Replay /\ Ordered \in Seq(Event)
    BY <2>4, <2>5
  <2>9. ~(seq - base < Replay)
    BY <1>1, <2>1
  <2> QED
    BY <2>7, <2>8, <2>9
<1> QED
  BY <1>2, <1>3

\* After keeps an end of the ordered ring, in order.
LEMMA AfterIs ==
  ASSUME TypeOK, Numbers, RingShape, NEW since \in Nat
  PROVE  \E m \in 0..Len(Ordered) :
           /\ After(since) = [k \in 1..(Len(Ordered) - m) |-> Ordered[m + k]]
           /\ seq - Len(Ordered) <= since /\ since <= seq => m = Len(Ordered) - (seq - since)
<1> DEFINE L == Len(Ordered)
           kept == {i \in DOMAIN Ordered : Ordered[i].seq > since}
<1>1. L \in Nat /\ DOMAIN Ordered = 1..L /\ seq \in Nat /\ L <= seq
  BY OrderedIs, BusAssumption DEF TypeOK, Numbers
<1>2. PICK m \in 0..L :
        /\ \A i \in 1..L : seq - L + i > since <=> i > m
        /\ seq - L <= since /\ since <= seq => m = L - (seq - since)
  <2>1. CASE since <= seq - L
    <3> WITNESS 0 \in 0..L
    <3> QED
      BY <1>1, <2>1
  <2>2. CASE since >= seq
    <3>1. L \in 0..L
      BY <1>1
    <3> WITNESS L \in 0..L
    <3> QED
      BY <1>1, <2>2
  <2>3. CASE since > seq - L /\ since < seq
    <3>1. L - (seq - since) \in 0..L
      BY <1>1, <2>3
    <3> WITNESS L - (seq - since) \in 0..L
    <3> QED
      BY <1>1, <2>3
  <2> QED
    BY <1>1, <2>1, <2>2, <2>3
<1>3. kept = (m + 1)..L
  BY <1>1, <1>2, OrderedIs
<1>4. Cardinality(kept) = L - m
  <2>0. m + 1 \in Int /\ L \in Int
    BY <1>1
  <2>1. PICK a \in Int : \E z \in Int : a = m + 1 /\ z = L
    <3> HIDE DEF L
    <3> QED
      BY <2>0
  <2>5. PICK z \in Int : a = m + 1 /\ z = L
    BY <2>1
  <2>2. Cardinality(a..z) = IF a > z THEN 0 ELSE z - a + 1
    BY FS_Interval
  <2> HIDE DEF kept, L
  <2> QED
    BY <1>1, <1>3, <2>5, <2>2
<1>5. ASSUME NEW k \in 1..(L - m)
      PROVE  (CHOOSE i \in kept : Cardinality({j \in kept : j <= i}) = k) = m + k
  <2>1. \A i \in kept : Cardinality({j \in kept : j <= i}) = i - m
    <3>1. TAKE i \in kept
    <3>2. {j \in kept : j <= i} = (m + 1)..i /\ i \in (m + 1)..L /\ i \in Int /\ m + 1 \in Int
      BY <1>1, <1>3
    <3>3. Cardinality((m + 1)..i) = i - m
      BY <1>1, <3>2, FS_Interval
    <3> QED
      BY <3>2, <3>3
  <2>2. m + k \in kept /\ kept \subseteq Int
    BY <1>1, <1>3
  <2> HIDE DEF kept
  <2>3. \A i \in kept : Cardinality({j \in kept : j <= i}) = k <=> i = m + k
    BY <1>1, <2>1, <2>2
  <2> QED
    BY <2>2, <2>3
<1>6. After(since) = [k \in 1..(L - m) |-> Ordered[m + k]]
  <2>1. After(since) = [k \in 1..Cardinality(kept) |->
                          Ordered[CHOOSE i \in kept : Cardinality({j \in kept : j <= i}) = k]]
    BY DEF After
  <2> HIDE DEF kept
  <2> QED
    BY <1>4, <1>5, <2>1
<1> QED
  BY <1>2, <1>6

----------------------------------------------------------------------------
(* Queues *)

LEMMA GapIsEvent == Gap \in Event /\ ~Real(Gap)
  BY DEF Gap, Event, Real

LEMMA QueueType ==
  ASSUME TypeOK, NEW c \in Clients
  PROVE  /\ back[c] \in Seq(Event) /\ chan[c] \in Seq(Event) /\ Queue(c) \in Seq(Event)
         /\ Len(back[c]) \in Nat /\ Len(chan[c]) \in Nat
         /\ Len(Queue(c)) = Len(back[c]) + Len(chan[c])
         /\ \A i \in 1..Len(Queue(c)) :
              Queue(c)[i] = IF i <= Len(back[c]) THEN back[c][i] ELSE chan[c][i - Len(back[c])]
<1>1. back[c] \in Seq(Event) /\ chan[c] \in Seq(Event)
  BY DEF TypeOK
<1> QED
  BY <1>1, ConcatProperties, LenProperties DEF Queue

LEMMA AppendConcat ==
  ASSUME NEW q \in Seq(Event), NEW r \in Seq(Event), NEW e \in Event
  PROVE  q \o Append(r, e) = Append(q \o r, e)
<1>1. Len(q) \in Nat /\ Len(r) \in Nat
  OBVIOUS
<1>2. /\ Append(r, e) \in Seq(Event) /\ Len(Append(r, e)) = Len(r) + 1
      /\ \A i \in 1..(Len(r) + 1) : Append(r, e)[i] = IF i = Len(r) + 1 THEN e ELSE r[i]
  OBVIOUS
<1>3. /\ q \o r \in Seq(Event) /\ Len(q \o r) = Len(q) + Len(r)
      /\ \A i \in 1..(Len(q) + Len(r)) : (q \o r)[i] = IF i <= Len(q) THEN q[i] ELSE r[i - Len(q)]
  BY ConcatProperties
<1>4. PICK x \in Seq(Event) : x = Append(r, e)
  BY <1>2
<1>5. /\ q \o x \in Seq(Event) /\ Len(q \o x) = Len(q) + Len(x)
      /\ \A i \in 1..(Len(q) + Len(x)) : (q \o x)[i] = IF i <= Len(q) THEN q[i] ELSE x[i - Len(q)]
  BY ConcatProperties
<1>6. PICK y \in Seq(Event) : y = q \o r
  BY <1>3
<1>7. /\ Append(y, e) \in Seq(Event) /\ Len(Append(y, e)) = Len(y) + 1
      /\ \A i \in 1..(Len(y) + 1) : Append(y, e)[i] = IF i = Len(y) + 1 THEN e ELSE y[i]
  OBVIOUS
<1>8. Len(q \o x) = Len(Append(y, e)) /\ \A i \in 1..Len(q \o x) : (q \o x)[i] = Append(y, e)[i]
  BY <1>1, <1>2, <1>3, <1>4, <1>5, <1>6, <1>7
<1>9. q \o x = Append(y, e)
  BY <1>5, <1>7, <1>8, SeqEqual
<1> QED
  BY <1>4, <1>6, <1>9

LEMMA ConcatTail ==
  ASSUME NEW q \in Seq(Event), NEW r \in Seq(Event), q # <<>>
  PROVE  q \o r # <<>> /\ Head(q \o r) = Head(q) /\ Tail(q \o r) = Tail(q) \o r
<1>1. Len(q) \in Nat \ {0} /\ Len(r) \in Nat
  BY EmptySeq
<1>2. /\ q \o r \in Seq(Event) /\ Len(q \o r) = Len(q) + Len(r)
      /\ \A i \in 1..(Len(q) + Len(r)) : (q \o r)[i] = IF i <= Len(q) THEN q[i] ELSE r[i - Len(q)]
  BY ConcatProperties
<1>3. PICK y \in Seq(Event) : y = q \o r
  BY <1>2
<1>4. y # <<>> /\ Head(y) = Head(q)
  BY <1>1, <1>2, <1>3
<1>5. /\ Tail(y) \in Seq(Event) /\ Len(Tail(y)) = Len(y) - 1
      /\ \A i \in 1..Len(Tail(y)) : Tail(y)[i] = y[i + 1]
  BY <1>4, HeadTailProperties
<1>6. PICK z \in Seq(Event) : z = Tail(q) /\ Len(z) = Len(q) - 1 /\ \A i \in 1..Len(z) : z[i] = q[i + 1]
  BY HeadTailProperties
<1>7. /\ z \o r \in Seq(Event) /\ Len(z \o r) = Len(z) + Len(r)
      /\ \A i \in 1..(Len(z) + Len(r)) : (z \o r)[i] = IF i <= Len(z) THEN z[i] ELSE r[i - Len(z)]
  BY ConcatProperties
<1>8. Len(Tail(y)) = Len(z \o r) /\ \A i \in 1..Len(Tail(y)) : Tail(y)[i] = (z \o r)[i]
  <2>1. Len(Tail(y)) = Len(z \o r)
    BY <1>1, <1>2, <1>3, <1>5, <1>6, <1>7
  <2>2. ASSUME NEW i \in 1..Len(Tail(y))
        PROVE  Tail(y)[i] = (z \o r)[i]
    <3>1. Tail(y)[i] = IF i + 1 <= Len(q) THEN q[i + 1] ELSE r[i + 1 - Len(q)]
      BY <1>1, <1>2, <1>3, <1>5
    <3>2. (z \o r)[i] = IF i <= Len(z) THEN z[i] ELSE r[i - Len(z)]
      BY <1>7, <2>1
    <3>3. i \in Nat \ {0} /\ Len(z) = Len(q) - 1 /\ Len(q) \in Nat
      BY <1>1, <1>6
    <3>4. CASE i <= Len(z)
      <4>1. i + 1 <= Len(q) /\ i \in 1..Len(z)
        BY <3>3, <3>4
      <4> QED
        BY <1>6, <3>1, <3>2, <3>4, <4>1
    <3>5. CASE ~(i <= Len(z))
      <4>1. ~(i + 1 <= Len(q)) /\ i - Len(z) = i + 1 - Len(q)
        BY <3>3, <3>5
      <4> QED
        BY <3>1, <3>2, <3>5, <4>1
    <3> QED
      BY <3>4, <3>5
  <2> QED
    BY <2>1, <2>2
<1>9. Tail(y) = z \o r
  BY <1>5, <1>7, <1>8, SeqEqual
<1> QED
  BY <1>3, <1>4, <1>6, <1>9

\* The next event of the stream joins the end of an open queue.
LEMMA AppendContinues ==
  ASSUME NEW q \in Seq(Event), NEW v \in Nat, NEW t \in Nat, NEW e \in Event, e.n = t + 1,
         Continues(q, v, "open", t)
  PROVE  Continues(Append(q, e), v, "open", t + 1)
<1>1. Len(q) \in Nat
  OBVIOUS
<1>2. /\ Append(q, e) \in Seq(Event) /\ Len(Append(q, e)) = Len(q) + 1
      /\ \A i \in 1..Len(q) : Append(q, e)[i] = q[i]
      /\ Append(q, e)[Len(q) + 1] = e
  OBVIOUS
<1>3. q # <<>> => Head(Append(q, e)) = Head(q)
  BY <1>1, <1>2
<1>4. SUFFICES ASSUME Head(Append(q, e)) # Gap
               PROVE  /\ \A i \in 1..Len(Append(q, e)) : Append(q, e)[i].n = v + i
                      /\ v + Len(Append(q, e)) = t + 1
  BY <1>1, <1>2 DEF Continues
<1>5. (\A i \in 1..Len(q) : q[i].n = v + i) /\ v + Len(q) = t
  BY <1>3, <1>4 DEF Continues
<1> QED
  BY <1>1, <1>2, <1>5

\* The first event leaves the queue and is seen.
LEMMA TailContinues ==
  ASSUME NEW q \in Seq(Event), NEW v \in Nat, NEW t \in Nat, NEW s \in {"open", "lagged"},
         q # <<>>, Head(q) # Gap, Continues(q, v, s, t)
  PROVE  Head(q).n = v + 1 /\ v + 1 <= t /\ Continues(Tail(q), v + 1, s, t)
<1>1. Len(q) \in Nat \ {0}
  BY EmptySeq
<1>2. /\ \A i \in 1..Len(q) : q[i].n = v + i
      /\ v + Len(q) <= t /\ (s = "open" => v + Len(q) = t)
  BY DEF Continues
<1>3. Tail(q) \in Seq(Event) /\ Len(Tail(q)) = Len(q) - 1
  BY HeadTailProperties
<1>4. \A i \in 1..Len(Tail(q)) : Tail(q)[i] = q[i + 1]
  BY HeadTailProperties
<1>5. Head(q) = q[1]
  BY <1>1
<1>6. \A i \in 1..Len(Tail(q)) : Tail(q)[i].n = (v + 1) + i
  BY <1>1, <1>2, <1>3, <1>4
<1> QED
  BY <1>1, <1>2, <1>3, <1>5, <1>6 DEF Continues

----------------------------------------------------------------------------
(* Publishing *)

LEMMA EmitFacts ==
  ASSUME BusInv, NEW turn \in Nat, Emit(turn)
  PROVE  \E e \in Event :
           /\ e.seq = seq + 1 /\ e.n = total + 1 /\ Real(e) /\ DropSlow(e)
           /\ \/ Len(ring) < Replay /\ ring' = Append(ring, e) /\ UNCHANGED <<start, full>>
              \/ /\ Len(ring) = Replay /\ ring' = [ring EXCEPT ![start + 1] = e]
                 /\ start' = NextSlot /\ full' = TRUE
<1> DEFINE e == [seq |-> seq + 1, n |-> total + 1, turn |-> turn]
<1>1. seq \in Nat /\ total \in Nat /\ Len(ring) \in Nat /\ Len(ring) <= Replay /\ Replay \in Nat
  BY BusAssumption DEF BusInv, TypeOK
<1>2. e \in Event /\ e.seq = seq + 1 /\ e.n = total + 1 /\ Real(e)
  BY <1>1 DEF Event, Real
<1>3. /\ DropSlow(e)
      /\ IF Len(ring) < Replay
         THEN ring' = Append(ring, e) /\ UNCHANGED <<start, full>>
         ELSE ring' = [ring EXCEPT ![start + 1] = e] /\ start' = NextSlot /\ full' = TRUE
  BY DEF Emit
<1> HIDE DEF e
<1> QED
  BY <1>1, <1>2, <1>3

LEMMA EmitTypes ==
  ASSUME BusInv, NEW turn \in Nat, Emit(turn), NEW e \in Event, DropSlow(e),
         \/ Len(ring) < Replay /\ ring' = Append(ring, e) /\ UNCHANGED <<start, full>>
         \/ /\ Len(ring) = Replay /\ ring' = [ring EXCEPT ![start + 1] = e]
            /\ start' = NextSlot /\ full' = TRUE,
         ended' \in Nat, stored \in {ended', ended' + 1}
  PROVE  TypeOK'
<1>1. TypeOK /\ Replay \in Nat \ {0} /\ Buffer \in Nat
  BY BusAssumption DEF BusInv
<1>2. ring' \in Seq(Event) /\ Len(ring') <= Replay
  <2>1. ring \in Seq(Event) /\ Len(ring) \in Nat /\ Len(ring) <= Replay /\ start \in 0..(Replay - 1)
    BY <1>1 DEF TypeOK
  <2>2. CASE Len(ring) < Replay /\ ring' = Append(ring, e)
    BY <1>1, <2>1, <2>2
  <2>3. CASE Len(ring) = Replay /\ ring' = [ring EXCEPT ![start + 1] = e]
    <3>1. Len(ring') = Len(ring) /\ ring' \in Seq(Event)
      BY <1>1, <2>1, <2>3
    <3> QED
      BY <1>1, <2>3, <3>1
  <2> QED
    BY <2>2, <2>3
<1>3. start' \in 0..(Replay - 1)
  <2>1. start \in 0..(Replay - 1)
    BY <1>1 DEF TypeOK
  <2>2. CASE Len(ring) = Replay /\ start' = NextSlot
    <3>1. NextSlot = IF start + 1 = Replay THEN 0 ELSE start + 1
      BY <1>1, <2>1, <2>2, SlotWraps DEF NextSlot
    <3> QED
      BY <1>1, <2>1, <2>2, <3>1
  <2> QED
    BY <2>1, <2>2
<1>4. chan' \in [Clients -> Seq(Event)] /\ \A c \in Clients : Len(chan'[c]) <= Buffer
  <2>1. chan \in [Clients -> Seq(Event)] /\ \A c \in Clients : Len(chan[c]) <= Buffer
    BY <1>1 DEF TypeOK
  <2>2. chan' = [c \in Clients |-> IF sub[c] = "open" /\ Len(chan[c]) < Buffer
                                 THEN Append(chan[c], e) ELSE chan[c]]
    BY DEF DropSlow
  <2>3. \A c \in Clients : Append(chan[c], e) \in Seq(Event) /\ Len(Append(chan[c], e)) = Len(chan[c]) + 1
    BY <2>1
  <2>4. \A c \in Clients : Len(chan[c]) \in Nat
    BY <2>1
  <2> QED
    BY <1>1, <2>1, <2>2, <2>3, <2>4
<1>5. sub' \in [Clients -> {"none", "open", "lagged"}]
  BY <1>1 DEF DropSlow, TypeOK
<1>6. full' \in BOOLEAN
  <2>1. full \in BOOLEAN
    BY <1>1 DEF TypeOK
  <2>2. full' = full \/ full' = TRUE
    OBVIOUS
  <2> QED
    BY <2>1, <2>2, Zenon
<1>7. /\ UNCHANGED <<loaded, base, floor, back, cursor, view, told, snap, reading, stored, reloads, born>>
      /\ seq' = seq + 1 /\ total' = total + 1 /\ now' = now + 1
  BY DEF Emit, client
<1>8. seq' \in Nat /\ total' \in Nat /\ now' \in Nat
  BY <1>1, <1>7 DEF TypeOK
<1> QED
  BY <1>1, <1>2, <1>3, <1>4, <1>5, <1>6, <1>7, <1>8 DEF TypeOK

\* A seq and its place stay together while the stream goes on.
LEMMA EmitCoherent ==
  ASSUME BusInv, NEW turn \in Nat, Emit(turn), NEW s \in Nat, NEW n \in Nat, Coherent(s, n)
  PROVE  CoherentNext(s, n)
<1>1. base' = base /\ seq' = seq + 1 /\ total' = total + 1
  BY DEF Emit
<1>2. base \in Nat /\ seq \in Nat /\ total \in Nat
  BY DEF BusInv, TypeOK
<1> QED
  BY <1>1, <1>2 DEF Coherent, CoherentNext, At

LEMMA EmitRing ==
  ASSUME BusInv, NEW turn \in Nat, Emit(turn), NEW e \in Event, e.seq = seq + 1, e.n = total + 1, Real(e),
         \/ Len(ring) < Replay /\ ring' = Append(ring, e) /\ UNCHANGED <<start, full>>
         \/ /\ Len(ring) = Replay /\ ring' = [ring EXCEPT ![start + 1] = e]
            /\ start' = NextSlot /\ full' = TRUE
  PROVE  RingShape'
<1>1. /\ TypeOK /\ Replay \in Nat \ {0} /\ seq \in Nat /\ base \in Nat /\ total \in Nat
      /\ ring \in Seq(Event) /\ Len(ring) \in Nat /\ start \in 0..(Replay - 1) /\ full \in BOOLEAN
      /\ base <= seq
  BY BusAssumption DEF BusInv, TypeOK, Numbers
<1>2. base' = base /\ seq' = seq + 1 /\ total' = total + 1
  BY DEF Emit
<1>3. CoherentNext(e.seq, e.n)
  BY <1>1, <1>2 DEF CoherentNext, At
<1>4. ASSUME NEW k \in 1..Len(ring)
      PROVE  ring[k].seq = SlotSeq(k) /\ Real(ring[k]) /\ CoherentNext(ring[k].seq, ring[k].n)
  <2>1. ring[k] \in Event
    BY <1>1
  <2>2. ring[k].seq \in Nat /\ ring[k].n \in Nat
    BY <2>1 DEF Event
  <2>3. ring[k].seq = SlotSeq(k) /\ Real(ring[k]) /\ Coherent(ring[k].seq, ring[k].n)
    BY DEF BusInv, RingShape
  <2> QED
    BY <2>2, <2>3, EmitCoherent
<1>5. CASE Len(ring) < Replay /\ ring' = Append(ring, e) /\ UNCHANGED <<start, full>>
  <2>1. ~full /\ start = 0 /\ Len(ring) = seq - base
    BY <1>1, <1>5 DEF BusInv, RingShape
  <2>2. /\ Len(ring') = Len(ring) + 1
        /\ \A k \in 1..Len(ring) : ring'[k] = ring[k]
        /\ ring'[Len(ring) + 1] = e
    BY <1>1, <1>5
  <2>3. \A k \in 1..Len(ring) : SlotSeq(k) = base + k
    BY <2>1 DEF SlotSeq
  <2>4. \A k \in 1..Len(ring') : /\ ring'[k].seq = base' + k /\ Real(ring'[k])
                                 /\ CoherentNext(ring'[k].seq, ring'[k].n)
    <3>1. TAKE k \in 1..Len(ring')
    <3>2. CASE k = Len(ring) + 1
      BY <1>1, <1>2, <1>3, <2>1, <2>2, <3>2
    <3>3. CASE k \in 1..Len(ring)
      BY <1>2, <1>4, <2>2, <2>3, <3>3
    <3> QED
      BY <1>1, <2>2, <3>2, <3>3
  <2>5. ~full' /\ start' = 0 /\ Len(ring') = seq' - base'
    BY <1>1, <1>2, <1>5, <2>1, <2>2
  <2> QED
    BY <2>4, <2>5 DEF RingShape, SlotSeq, Coherent, CoherentNext
<1>6. CASE Len(ring) = Replay /\ ring' = [ring EXCEPT ![start + 1] = e] /\ start' = NextSlot /\ full' = TRUE
  <2>1. Len(ring') = Replay /\ \A k \in 1..Replay : ring'[k] = IF k = start + 1 THEN e ELSE ring[k]
    BY <1>1, <1>6
  <2>2. start' = IF start + 1 = Replay THEN 0 ELSE start + 1
    BY <1>1, <1>6, SlotWraps DEF NextSlot
  <2>3. seq - base >= Replay
    BY <1>1, <1>6 DEF BusInv, RingShape
  <2>4. ASSUME NEW k \in 1..Replay
        PROVE  ring'[k].seq = IF k <= start' THEN seq' - start' + k ELSE seq' - start' - Replay + k
    <3>1. CASE k = start + 1
      BY <1>1, <1>2, <2>1, <2>2, <3>1
    <3>2. CASE k # start + 1
      <4>1. ring'[k].seq = SlotSeq(k)
        BY <1>4, <1>6, <2>1, <3>2
      <4>2. CASE full
        BY <1>1, <1>2, <2>2, <3>2, <4>1, <4>2 DEF SlotSeq
      <4>3. CASE ~full
        <5>1. start = 0 /\ Replay = seq - base
          BY <1>6, <4>3 DEF BusInv, RingShape
        <5> QED
          BY <1>1, <1>2, <2>2, <3>2, <4>1, <4>3, <5>1 DEF SlotSeq
      <4> QED
        BY <4>2, <4>3
    <3> QED
      BY <3>1, <3>2
  <2>5. \A k \in 1..Replay : Real(ring'[k]) /\ CoherentNext(ring'[k].seq, ring'[k].n)
    BY <1>3, <1>4, <1>6, <2>1
  <2>6. seq' - base' > Replay
    BY <1>1, <1>2, <2>3
  <2> QED
    BY <1>6, <2>1, <2>4, <2>5, <2>6 DEF RingShape, SlotSeq, Coherent, CoherentNext
<1> QED
  BY <1>1, <1>5, <1>6

LEMMA EmitClients ==
  ASSUME BusInv, NEW turn \in Nat, Emit(turn), NEW e \in Event, e.seq = seq + 1, e.n = total + 1, Real(e),
         DropSlow(e), TypeOK'
  PROVE  ClientShape' /\ EventsReal' /\ QueueNext'
<1>1. TypeOK /\ seq \in Nat /\ base \in Nat /\ total \in Nat /\ base <= seq
  BY DEF BusInv, TypeOK, Numbers
<1>2. base' = base /\ seq' = seq + 1 /\ total' = total + 1
  BY DEF Emit
<1>3. CoherentNext(e.seq, e.n)
  BY <1>1, <1>2 DEF CoherentNext, At
<1>4. UNCHANGED <<back, cursor, view, told, reading>>
  BY DEF Emit, client
<1>5. ASSUME NEW c \in Clients
      PROVE  /\ back'[c] = back[c] /\ view'[c] = view[c] /\ cursor'[c] = cursor[c]
             /\ told'[c] = told[c] /\ reading'[c] = reading[c]
             /\ \/ sub[c] = "open" /\ sub'[c] = "open" /\ chan'[c] = Append(chan[c], e)
                \/ sub[c] = "open" /\ sub'[c] = "lagged" /\ chan'[c] = chan[c]
                \/ sub[c] # "open" /\ sub'[c] = sub[c] /\ chan'[c] = chan[c]
  <2>1. /\ chan'[c] = IF sub[c] = "open" /\ Len(chan[c]) < Buffer THEN Append(chan[c], e) ELSE chan[c]
        /\ sub'[c] = IF sub[c] = "open" /\ Len(chan[c]) >= Buffer THEN "lagged" ELSE sub[c]
    BY DEF DropSlow
  <2>2. Len(chan[c]) \in Nat /\ Buffer \in Nat
    BY <1>1, QueueType, BusAssumption
  <2> QED
    BY <1>4, <2>1, <2>2
<1>6. ASSUME NEW c \in Clients
      PROVE  /\ cursor[c] \in Nat /\ view[c] \in Nat /\ back[c] \in Seq(Event) /\ chan[c] \in Seq(Event)
             /\ Len(chan[c]) \in Nat /\ Len(back[c]) \in Nat
  BY <1>1, QueueType DEF TypeOK
<1>7. ClientShape'
  <2>1. ASSUME NEW c \in Clients
        PROVE  /\ sub'[c] = "none" => back'[c] = <<>> /\ chan'[c] = <<>>
               /\ told'[c] => sub'[c] = "none"
               /\ reading'[c] => told'[c]
               /\ view'[c] <= total'
               /\ cursor'[c] # 0 => CoherentNext(cursor'[c], view'[c])
    <3>1. /\ sub[c] = "none" => back[c] = <<>> /\ chan[c] = <<>>
          /\ told[c] => sub[c] = "none"
          /\ reading[c] => told[c]
          /\ view[c] <= total
          /\ cursor[c] # 0 => Coherent(cursor[c], view[c])
      BY DEF BusInv, ClientShape, Shape
    <3>2. cursor[c] # 0 => CoherentNext(cursor[c], view[c])
      BY <1>6, <3>1, EmitCoherent
    <3>3. view[c] <= total'
      BY <1>1, <1>2, <1>6, <3>1
    <3> QED
      BY <1>5, <3>1, <3>2, <3>3
  <2> QED
    BY <2>1 DEF ClientShape, Shape, Coherent, CoherentNext
<1>8. EventsReal'
  <2>1. ASSUME NEW c \in Clients, NEW i \in 1..Len(chan'[c])
        PROVE  Real(chan'[c][i]) /\ CoherentNext(chan'[c][i].seq, chan'[c][i].n)
    <3>1. ASSUME NEW j \in 1..Len(chan[c])
          PROVE  Real(chan[c][j]) /\ CoherentNext(chan[c][j].seq, chan[c][j].n)
      <4>1. chan[c][j] \in Event
        BY <1>6
      <4>2. chan[c][j].seq \in Nat /\ chan[c][j].n \in Nat
        BY <4>1 DEF Event
      <4>3. Real(chan[c][j]) /\ Coherent(chan[c][j].seq, chan[c][j].n)
        BY DEF BusInv, EventsReal, RealQueue
      <4> QED
        BY <4>2, <4>3, EmitCoherent
    <3>2. CASE chan'[c] = chan[c]
      BY <3>1, <3>2
    <3>3. CASE chan'[c] = Append(chan[c], e)
      <4>1. /\ Len(chan'[c]) = Len(chan[c]) + 1
            /\ \A j \in 1..Len(chan[c]) : chan'[c][j] = chan[c][j]
            /\ chan'[c][Len(chan[c]) + 1] = e
        BY <1>6, <3>3
      <4>2. i \in 1..Len(chan[c]) \/ i = Len(chan[c]) + 1
        BY <1>6, <4>1
      <4> QED
        BY <1>3, <3>1, <4>1, <4>2
    <3> QED
      BY <1>5, <3>2, <3>3
  <2>2. ASSUME NEW c \in Clients, NEW i \in 1..Len(back'[c])
        PROVE  \/ i = 1 /\ back'[c][i] = Gap
               \/ Real(back'[c][i]) /\ CoherentNext(back'[c][i].seq, back'[c][i].n)
    <3>0. back'[c] = back[c] /\ i \in 1..Len(back[c])
      BY <1>5
    <3>1. back[c][i] \in Event
      BY <1>6, <3>0
    <3>2. back[c][i].seq \in Nat /\ back[c][i].n \in Nat
      BY <3>1 DEF Event
    <3>3. \/ i = 1 /\ back[c][i] = Gap
          \/ Real(back[c][i]) /\ Coherent(back[c][i].seq, back[c][i].n)
      BY <3>0 DEF BusInv, EventsReal, RealQueue
    <3> QED
      BY <3>0, <3>2, <3>3, EmitCoherent
  <2> QED
    BY <2>1, <2>2 DEF EventsReal, RealQueue, Coherent, CoherentNext
<1>9. QueueNext'
  <2>1. ASSUME NEW c \in Clients
        PROVE  Continues(back'[c] \o chan'[c], view'[c], sub'[c], total')
    <3>1. Continues(Queue(c), view[c], sub[c], total) /\ Queue(c) \in Seq(Event) /\ Queue(c) = back[c] \o chan[c]
      BY <1>1, QueueType DEF BusInv, QueueNext, Queue
    <3>2. CASE sub[c] = "open" /\ sub'[c] = "open" /\ chan'[c] = Append(chan[c], e)
      <4>1. back[c] \o Append(chan[c], e) = Append(Queue(c), e)
        <5>1. back[c] \in Seq(Event) /\ chan[c] \in Seq(Event)
          BY <1>6, Zenon
        <5>2. back[c] \o Append(chan[c], e) = Append(back[c] \o chan[c], e)
          BY <5>1, AppendConcat, Zenon
        <5> QED
          BY <3>1, <5>2, Zenon
      <4> QED
        BY <1>1, <1>2, <1>5, <1>6, <3>1, <3>2, <4>1, AppendContinues
    <3>3. CASE sub'[c] # "open" /\ chan'[c] = chan[c] /\ (sub'[c] = "none" => sub[c] = "none")
      <4>0. back'[c] = back[c] /\ view'[c] = view[c]
        BY <1>5
      <4>1. back'[c] \o chan'[c] = Queue(c) /\ view'[c] = view[c] /\ Len(Queue(c)) \in Nat
        <5>1. back'[c] \o chan'[c] = Queue(c)
          BY <4>0, <3>1, <3>3, Zenon
        <5>2. Len(Queue(c)) \in Nat
          BY <3>1, LenProperties
        <5> QED
          BY <4>0, <5>1, <5>2
      <4>2. SUFFICES ASSUME sub'[c] # "none", Queue(c) = <<>> \/ Head(Queue(c)) # Gap
                     PROVE  (\A i \in 1..Len(Queue(c)) : Queue(c)[i].n = view[c] + i)
                            /\ view[c] + Len(Queue(c)) <= total'
        BY <3>3, <4>1 DEF Continues
      <4>3. sub[c] # "none"
        BY <1>5, <4>2
      <4>4. (\A i \in 1..Len(Queue(c)) : Queue(c)[i].n = view[c] + i) /\ view[c] + Len(Queue(c)) <= total
        BY <3>1, <4>2, <4>3 DEF Continues
      <4>5. view[c] + Len(Queue(c)) <= total'
        BY <1>1, <1>2, <1>6, <4>1, <4>4
      <4> QED
        BY <4>4, <4>5
    <3> QED
      BY <1>5, <3>2, <3>3
  <2> QED
    BY <2>1 DEF QueueNext, Queue
<1> QED
  BY <1>7, <1>8, <1>9

LEMMA EmitKeeps ==
  ASSUME BusInv, NEW turn \in Nat, Emit(turn), ended' \in Nat, stored \in {ended', ended' + 1}
  PROVE  BusInv'
<1>1. PICK e \in Event :
        /\ e.seq = seq + 1 /\ e.n = total + 1 /\ Real(e) /\ DropSlow(e)
        /\ \/ Len(ring) < Replay /\ ring' = Append(ring, e) /\ UNCHANGED <<start, full>>
           \/ /\ Len(ring) = Replay /\ ring' = [ring EXCEPT ![start + 1] = e]
              /\ start' = NextSlot /\ full' = TRUE
  BY EmitFacts
<1>2. TypeOK'
  BY <1>1, EmitTypes
<1>3. RingShape'
  BY <1>1, EmitRing
<1>4. ClientShape' /\ EventsReal' /\ QueueNext'
  BY <1>1, <1>2, EmitClients
<1>5. Numbers'
  <2>1. UNCHANGED <<loaded, base, floor, born>> /\ seq' = seq + 1 /\ total' = total + 1 /\ now' = now + 1 /\ loaded
    BY DEF Emit
  <2> QED
    BY <2>1 DEF Numbers, BusInv, TypeOK
<1> QED
  BY <1>2, <1>3, <1>4, <1>5 DEF BusInv

----------------------------------------------------------------------------
(* Unloading and loading *)

LEMMA BusStands ==
  ASSUME BusInv, TypeOK', Numbers', UNCHANGED <<base, seq, ring, start, full, total>>
  PROVE  RingShape'
BY DEF BusInv, RingShape, SlotSeq, Coherent, At, Real

LEMMA EvictKeeps ==
  ASSUME BusInv, Evict
  PROVE  BusInv'
<1>1. /\ loaded' = FALSE /\ floor' = seq
      /\ UNCHANGED <<base, seq, ring, start, full, now, born, total, ended, stored, reloads,
                    sub, back, chan, cursor, view, told, reading, snap>>
  BY DEF Evict, FloorAtEviction, hist, stream, client
<1>2. TypeOK'
  BY <1>1 DEF BusInv, TypeOK
<1>3. Numbers'
  BY <1>1 DEF BusInv, TypeOK, Numbers
<1>4. RingShape'
  BY <1>1, <1>2, <1>3, BusStands
<1>5. ClientShape'
  BY <1>1 DEF BusInv, ClientShape, Shape, Coherent, At
<1>6. EventsReal'
  BY <1>1 DEF BusInv, EventsReal, RealQueue, Coherent, At, Real
<1>7. QueueNext'
  BY <1>1 DEF BusInv, QueueNext, Continues, Queue
<1> QED
  BY <1>2, <1>3, <1>4, <1>5, <1>6, <1>7 DEF BusInv

\* The new bus starts behind the last seq of the old one.
LEMMA ReloadBaseIs ==
  ASSUME BusInv, ~loaded
  PROVE  ReloadBase \in Nat /\ ReloadBase >= seq /\ ReloadBase > 0
BY DEF BusInv, TypeOK, Numbers, ReloadBase

\* What an old seq stands for, the new bus does not contradict.
LEMMA LoadCoherent ==
  ASSUME BusInv, Load, NEW s \in Nat, NEW n \in Nat, Coherent(s, n)
  PROVE  CoherentNext(s, n)
<1>1. base' = ReloadBase /\ seq' = ReloadBase /\ total' = total /\ ~loaded
  BY DEF Load
<1>2. ReloadBase \in Nat /\ ReloadBase >= seq
  BY <1>1, ReloadBaseIs
<1>3. base \in Nat /\ seq \in Nat /\ total \in Nat /\ base <= seq
  BY DEF BusInv, TypeOK, Numbers
<1> QED
  BY <1>1, <1>2, <1>3 DEF Coherent, CoherentNext, At

LEMMA LoadKeeps ==
  ASSUME BusInv, Load
  PROVE  BusInv'
<1>1. /\ ~loaded /\ loaded' = TRUE /\ reloads' = reloads + 1
      /\ base' = ReloadBase /\ seq' = ReloadBase
      /\ ring' = <<>> /\ start' = 0 /\ full' = FALSE
      /\ UNCHANGED <<floor, now, born, total, ended, stored,
                    sub, back, chan, cursor, view, told, reading, snap>>
  BY DEF Load, stream, client
<1>2. ReloadBase \in Nat /\ ReloadBase >= seq /\ ReloadBase > 0
  BY <1>1, ReloadBaseIs
<1>3. TypeOK'
  <2>1. <<>> \in Seq(Event) /\ Len(<<>>) = 0 /\ 0 \in 0..(Replay - 1) /\ 0 <= Replay
    BY BusAssumption
  <2>2. ring' \in Seq(Event) /\ Len(ring') <= Replay /\ start' \in 0..(Replay - 1)
    BY <1>1, <2>1, BusAssumption
  <2>3. loaded' \in BOOLEAN /\ full' \in BOOLEAN
    BY <1>1
  <2>4. reloads' \in Nat /\ base' \in Nat /\ seq' \in Nat
    BY <1>1, <1>2 DEF BusInv, TypeOK
  <2>5. TypeOK
    BY DEF BusInv
  <2> QED
    BY <1>1, <2>2, <2>3, <2>4, <2>5 DEF TypeOK
<1>4. Numbers'
  BY <1>1, <1>2 DEF BusInv, TypeOK, Numbers
<1>5. RingShape'
  BY <1>1, <1>2 DEF RingShape
<1>6. ClientShape'
  <2>1. ASSUME NEW c \in Clients
        PROVE  cursor[c] # 0 => CoherentNext(cursor[c], view[c])
    BY LoadCoherent DEF BusInv, TypeOK, ClientShape, Shape
  <2> QED
    BY <1>1, <2>1 DEF BusInv, ClientShape, Shape, Coherent, CoherentNext
<1>7. EventsReal'
  <2>1. ASSUME NEW c \in Clients, NEW i \in 1..Len(chan[c])
        PROVE  Real(chan[c][i]) /\ CoherentNext(chan[c][i].seq, chan[c][i].n)
    <3>0. TypeOK
      BY DEF BusInv
    <3>3. chan[c] \in Seq(Event)
      BY <3>0, QueueType
    <3>1. chan[c][i] \in Event
      BY <3>3
    <3>2. chan[c][i].seq \in Nat /\ chan[c][i].n \in Nat
      BY <3>1 DEF Event
    <3> QED
      BY <3>2, LoadCoherent DEF BusInv, EventsReal, RealQueue
  <2>2. ASSUME NEW c \in Clients, NEW i \in 1..Len(back[c])
        PROVE  \/ i = 1 /\ back[c][i] = Gap
               \/ Real(back[c][i]) /\ CoherentNext(back[c][i].seq, back[c][i].n)
    <3>0. TypeOK
      BY DEF BusInv
    <3>3. back[c] \in Seq(Event)
      BY <3>0, QueueType
    <3>1. back[c][i] \in Event
      BY <3>3
    <3>2. back[c][i].seq \in Nat /\ back[c][i].n \in Nat
      BY <3>1 DEF Event
    <3> QED
      BY <3>2, LoadCoherent DEF BusInv, EventsReal, RealQueue
  <2> QED
    BY <1>1, <2>1, <2>2 DEF EventsReal, RealQueue, Coherent, CoherentNext
<1>8. QueueNext'
  BY <1>1 DEF BusInv, QueueNext, Continues, Queue
<1> QED
  BY <1>3, <1>4, <1>5, <1>6, <1>7, <1>8 DEF BusInv

LEMMA RestartKeeps ==
  ASSUME BusInv, Restart
  PROVE  BusInv'
<1>1. /\ loaded' = FALSE /\ floor' = 0 /\ now' = born' /\ ended' = stored
      /\ born' = IF now > seq THEN now ELSE seq + 1
      /\ UNCHANGED <<base, seq, ring, start, full, total, stored, reloads, cursor, view, told, snap>>
      /\ sub' = [c \in Clients |-> "none"]
      /\ back' = [c \in Clients |-> <<>>] /\ chan' = [c \in Clients |-> <<>>]
      /\ reading' = [c \in Clients |-> FALSE]
  BY DEF Restart
<1>2. \A c \in Clients : sub'[c] = "none" /\ back'[c] = <<>> /\ chan'[c] = <<>> /\ ~reading'[c]
  BY <1>1
<1>3. TypeOK'
  <2>1. <<>> \in Seq(Event) /\ Len(<<>>) = 0 /\ 0 <= Buffer
    BY BusAssumption
  <2>2. born' \in Nat /\ now' \in Nat /\ ended' \in Nat /\ stored' \in {ended', ended' + 1}
    BY <1>1 DEF BusInv, TypeOK
  <2>3. /\ sub' \in [Clients -> {"none", "open", "lagged"}]
        /\ back' \in [Clients -> Seq(Event)] /\ chan' \in [Clients -> Seq(Event)]
        /\ reading' \in [Clients -> BOOLEAN]
    BY <1>1, <2>1
  <2>4. \A c \in Clients : Len(chan'[c]) <= Buffer
    BY <1>2, <2>1
  <2> QED
    BY <1>1, <2>2, <2>3, <2>4 DEF BusInv, TypeOK
<1>4. Numbers'
  BY <1>1 DEF BusInv, TypeOK, Numbers
<1>5. RingShape'
  BY <1>1, <1>3, <1>4, BusStands
<1>6. ClientShape'
  <2>1. ASSUME NEW c \in Clients
        PROVE  Shape(c)'
    <3>1. /\ view'[c] <= total' /\ (cursor'[c] # 0 => CoherentNext(cursor'[c], view'[c]))
      BY <1>1 DEF BusInv, ClientShape, Shape, Coherent, CoherentNext
    <3>2. told'[c] = told[c]
      BY <1>1
    <3> QED
      BY <1>2, <3>1, <3>2 DEF Shape, Coherent, CoherentNext
  <2> QED
    BY <2>1 DEF ClientShape
<1>7. EventsReal'
  BY <1>2 DEF EventsReal, RealQueue
<1>8. QueueNext'
  BY <1>2 DEF QueueNext, Continues
<1> QED
  BY <1>3, <1>4, <1>5, <1>6, <1>7, <1>8 DEF BusInv

----------------------------------------------------------------------------
(* Clients *)

\* A step of one client that leaves the bus alone keeps the invariant when it
\* keeps that client's part.
LEMMA ClientStep ==
  ASSUME BusInv, UNCHANGED <<bus, now, hist>>, NEW c \in Clients, TypeOK',
         \A d \in Clients \ {c} :
           /\ sub'[d] = sub[d] /\ back'[d] = back[d] /\ chan'[d] = chan[d]
           /\ cursor'[d] = cursor[d] /\ view'[d] = view[d] /\ told'[d] = told[d] /\ reading'[d] = reading[d],
         Shape(c)', RealQueue(c)', Continues(Queue(c), view[c], sub[c], total)'
  PROVE  BusInv'
<1>1. UNCHANGED <<loaded, base, seq, ring, start, full, floor, now, total, born>>
  BY DEF bus, hist
<1>2. Numbers'
  BY <1>1 DEF BusInv, Numbers
<1>3. RingShape'
  BY <1>1, <1>2, BusStands
<1>4. ClientShape'
  <2>1. \A d \in Clients \ {c} : Shape(d)'
    BY <1>1 DEF BusInv, ClientShape, Shape, Coherent, At
  <2> QED
    BY <2>1 DEF ClientShape
<1>5. EventsReal'
  <2>1. \A d \in Clients \ {c} : RealQueue(d)'
    BY <1>1 DEF BusInv, EventsReal, RealQueue, Coherent, At, Real
  <2> QED
    BY <2>1 DEF EventsReal
<1>6. QueueNext'
  <2>1. \A d \in Clients \ {c} : Continues(Queue(d), view[d], sub[d], total)'
    <3>1. TAKE d \in Clients \ {c}
    <3>2. Continues(Queue(d), view[d], sub[d], total)
      BY DEF BusInv, QueueNext
    <3>3. back'[d] = back[d] /\ chan'[d] = chan[d] /\ view'[d] = view[d] /\ sub'[d] = sub[d] /\ total' = total
      BY <1>1
    <3>4. Queue(d)' = Queue(d)
      BY <3>3 DEF Queue
    <3> QED
      BY <3>2, <3>3, <3>4 DEF Continues
  <2> QED
    BY <2>1 DEF QueueNext
<1> QED
  BY <1>2, <1>3, <1>4, <1>5, <1>6 DEF BusInv

\* A client without a stream has an empty queue.
LEMMA NoStream ==
  ASSUME NEW c \in Clients, sub'[c] = "none", back'[c] = <<>>, chan'[c] = <<>>
  PROVE  RealQueue(c)' /\ Continues(Queue(c), view[c], sub[c], total)'
BY DEF RealQueue, Continues

LEMMA StopKeeps ==
  ASSUME BusInv, UNCHANGED <<bus, now, hist>>, UNCHANGED <<cursor, view, snap, reading>>,
         NEW c \in Clients, sub[c] # "none", Stop(c, "none"),
         UNCHANGED told \/ told' = [told EXCEPT ![c] = TRUE]
  PROVE  BusInv'
<1>1. /\ sub' = [sub EXCEPT ![c] = "none"]
      /\ back' = [back EXCEPT ![c] = <<>>] /\ chan' = [chan EXCEPT ![c] = <<>>]
  BY DEF Stop
<1>2. TypeOK
  BY DEF BusInv
<1>3. /\ sub'[c] = "none" /\ back'[c] = <<>> /\ chan'[c] = <<>>
      /\ \A d \in Clients \ {c} : /\ sub'[d] = sub[d] /\ back'[d] = back[d] /\ chan'[d] = chan[d]
                                  /\ told'[d] = told[d]
  BY <1>1, <1>2 DEF TypeOK
<1>4. UNCHANGED <<loaded, base, seq, ring, start, full, floor, now, born, total, ended, stored, reloads>>
  BY DEF bus, hist
<1>5. TypeOK'
  <2>1. <<>> \in Seq(Event) /\ Len(<<>>) = 0 /\ 0 <= Buffer
    BY BusAssumption
  <2>2. /\ sub' \in [Clients -> {"none", "open", "lagged"}]
        /\ back' \in [Clients -> Seq(Event)] /\ chan' \in [Clients -> Seq(Event)]
    BY <1>1, <1>2, <2>1 DEF TypeOK
  <2>3. \A d \in Clients : Len(chan'[d]) <= Buffer
    BY <1>2, <1>3, <2>1 DEF TypeOK
  <2>4. told' \in [Clients -> BOOLEAN]
    BY <1>2 DEF TypeOK
  <2> QED
    BY <1>2, <1>4, <2>2, <2>3, <2>4 DEF TypeOK
<1>6. Shape(c)'
  BY <1>2, <1>3, <1>4 DEF BusInv, ClientShape, Shape, Coherent, At
<1>7. RealQueue(c)' /\ Continues(Queue(c), view[c], sub[c], total)'
  BY <1>3, NoStream
<1> QED
  BY <1>3, <1>5, <1>6, <1>7, ClientStep

\* The client sees e, the head of its queue; nq is what stays queued.
LEMMA SeeKeeps ==
  ASSUME BusInv, UNCHANGED <<bus, now, hist>>, UNCHANGED sub, NEW c \in Clients, sub[c] # "none",
         NEW e \in Event, See(c, e), Real(e), Coherent(e.seq, e.n),
         Queue(c) # <<>>, e = Head(Queue(c)), Queue(c)' = Tail(Queue(c)),
         back' \in [Clients -> Seq(Event)], chan' \in [Clients -> Seq(Event)],
         Len(chan'[c]) <= Buffer, RealQueue(c)',
         \A d \in Clients \ {c} : back'[d] = back[d] /\ chan'[d] = chan[d]
  PROVE  BusInv'
<1>1. TypeOK
  BY DEF BusInv
<1>2. e.seq \in Nat /\ e.n \in Nat /\ e.turn \in Nat
  BY DEF Event
<1>3. /\ cursor' = [cursor EXCEPT ![c] = e.seq]
      /\ view' = [view EXCEPT ![c] = e.n]
      /\ snap' = [snap EXCEPT ![c] = e.turn] \/ snap' = snap
      /\ UNCHANGED <<told, reading>>
  BY DEF See
<1>4. UNCHANGED <<loaded, base, seq, ring, start, full, floor, now, born, total, ended, stored, reloads>>
  BY DEF bus, hist
<1>5. TypeOK'
  <2>1. cursor' \in [Clients -> Nat] /\ view' \in [Clients -> Nat] /\ snap' \in [Clients -> Nat]
    BY <1>1, <1>2, <1>3 DEF TypeOK
  <2>2. \A d \in Clients : Len(chan'[d]) <= Buffer
    BY <1>1 DEF TypeOK
  <2> QED
    BY <1>1, <1>3, <1>4, <2>1, <2>2 DEF TypeOK
<1>6. /\ cursor'[c] = e.seq /\ view'[c] = e.n /\ sub'[c] = sub[c]
      /\ told'[c] = told[c] /\ reading'[c] = reading[c]
      /\ \A d \in Clients \ {c} : cursor'[d] = cursor[d] /\ view'[d] = view[d]
  BY <1>1, <1>3 DEF TypeOK
<1>7. /\ Queue(c) \in Seq(Event) /\ view[c] \in Nat /\ total \in Nat /\ sub[c] \in {"open", "lagged"}
      /\ Continues(Queue(c), view[c], sub[c], total)
  BY <1>1, QueueType DEF BusInv, QueueNext, TypeOK
<1>8. Head(Queue(c)) # Gap
  BY GapIsEvent
<1>9. e.n = view[c] + 1 /\ view[c] + 1 <= total /\ Continues(Tail(Queue(c)), view[c] + 1, sub[c], total)
  BY <1>7, <1>8, TailContinues
<1>10. Shape(c)'
  <2>1. view'[c] <= total' /\ CoherentNext(cursor'[c], view'[c])
    BY <1>4, <1>6, <1>9 DEF Coherent, CoherentNext
  <2>2. ~told[c] /\ ~reading[c]
    BY DEF BusInv, ClientShape, Shape
  <2> QED
    BY <1>6, <2>1, <2>2 DEF Shape, Coherent, CoherentNext
<1>11. Continues(Queue(c), view[c], sub[c], total)'
  <2>1. view'[c] = view[c] + 1 /\ sub'[c] = sub[c] /\ total' = total
    BY <1>4, <1>6, <1>9
  <2> QED
    BY <1>9, <2>1 DEF Continues
<1> QED
  BY <1>3, <1>5, <1>6, <1>10, <1>11, ClientStep

LEMMA ReceiveKeeps ==
  ASSUME BusInv, NEW c \in Clients, Receive(c)
  PROVE  BusInv'
<1>1. TypeOK /\ sub[c] # "none" /\ UNCHANGED <<bus, now, hist>>
  BY DEF BusInv, Receive
<1>2. /\ back[c] \in Seq(Event) /\ chan[c] \in Seq(Event) /\ Len(back[c]) \in Nat /\ Len(chan[c]) \in Nat
      /\ back \in [Clients -> Seq(Event)] /\ chan \in [Clients -> Seq(Event)] /\ Len(chan[c]) <= Buffer
  BY <1>1, QueueType DEF TypeOK
<1>3. RealQueue(c)
  BY DEF BusInv, EventsReal
<1>4. UNCHANGED <<base, seq, total>>
  BY <1>1 DEF bus, hist
<1>5. CASE back[c] # <<>> /\ Head(back[c]) = Gap /\ HearGap(c)
  BY <1>1, <1>5, StopKeeps DEF HearGap
<1>6. CASE /\ back[c] # <<>> /\ Head(back[c]) # Gap
           /\ See(c, Head(back[c])) /\ back' = [back EXCEPT ![c] = Tail(@)] /\ UNCHANGED <<sub, chan>>
  <2>1. PICK e \in Event : e = Head(back[c])
    BY <1>2, <1>6
  <2>2. e = back[c][1] /\ Len(back[c]) > 0
    BY <1>2, <1>6, <2>1, EmptySeq
  <2>3. Real(e) /\ Coherent(e.seq, e.n)
    BY <1>3, <1>6, <2>1, <2>2 DEF RealQueue
  <2>4. /\ Tail(back[c]) \in Seq(Event) /\ Len(Tail(back[c])) = Len(back[c]) - 1
        /\ \A i \in 1..Len(Tail(back[c])) : Tail(back[c])[i] = back[c][i + 1]
    BY <1>2, <1>6, HeadTailProperties
  <2>5. back'[c] = Tail(back[c]) /\ chan'[c] = chan[c]
    BY <1>2, <1>6
  <2>6. Queue(c) # <<>> /\ Head(Queue(c)) = e /\ Queue(c)' = Tail(Queue(c))
    <3>1. /\ back[c] \o chan[c] # <<>> /\ Head(back[c] \o chan[c]) = Head(back[c])
          /\ Tail(back[c] \o chan[c]) = Tail(back[c]) \o chan[c]
      BY <1>2, <1>6, ConcatTail, Zenon
    <3> QED
      BY <2>1, <2>5, <3>1 DEF Queue
  <2>7. RealQueue(c)'
    <3>1. \A i \in 1..Len(back'[c]) : Real(back'[c][i]) /\ Coherent(back'[c][i].seq, back'[c][i].n)
      BY <1>2, <1>3, <2>4, <2>5 DEF RealQueue
    <3>2. \A i \in 1..Len(chan'[c]) : Real(chan'[c][i]) /\ Coherent(chan'[c][i].seq, chan'[c][i].n)
      BY <1>3, <2>5 DEF RealQueue
    <3> QED
      BY <1>4, <3>1, <3>2 DEF RealQueue, Coherent, At, Real
  <2>8. back' \in [Clients -> Seq(Event)] /\ \A d \in Clients \ {c} : back'[d] = back[d]
    BY <1>2, <1>6, <2>4
  <2> QED
    BY <1>1, <1>2, <1>6, <2>1, <2>3, <2>5, <2>6, <2>7, <2>8, SeeKeeps
<1>7. CASE /\ back[c] = <<>> /\ chan[c] # <<>>
           /\ See(c, Head(chan[c])) /\ chan' = [chan EXCEPT ![c] = Tail(@)] /\ UNCHANGED <<sub, back>>
  <2>1. PICK e \in Event : e = Head(chan[c])
    BY <1>2, <1>7
  <2>2. e = chan[c][1] /\ Len(chan[c]) > 0
    BY <1>2, <1>7, <2>1, EmptySeq
  <2>3. Real(e) /\ Coherent(e.seq, e.n)
    BY <1>2, <1>3, <2>2 DEF RealQueue
  <2>4. /\ Tail(chan[c]) \in Seq(Event) /\ Len(Tail(chan[c])) = Len(chan[c]) - 1
        /\ \A i \in 1..Len(Tail(chan[c])) : Tail(chan[c])[i] = chan[c][i + 1]
    BY <1>2, <1>7, HeadTailProperties
  <2>5. chan'[c] = Tail(chan[c]) /\ back'[c] = <<>>
    BY <1>2, <1>7
  <2>6. Queue(c) = chan[c] /\ Queue(c)' = Tail(chan[c])
    BY <1>2, <1>7, <2>4, <2>5, ConcatEmptySeq DEF Queue
  <2>7. RealQueue(c)'
    <3>1. \A i \in 1..Len(chan'[c]) : Real(chan'[c][i]) /\ Coherent(chan'[c][i].seq, chan'[c][i].n)
      BY <1>2, <1>3, <2>4, <2>5 DEF RealQueue
    <3> QED
      BY <1>4, <2>5, <3>1 DEF RealQueue, Coherent, At, Real
  <2>8. chan' \in [Clients -> Seq(Event)] /\ (\A d \in Clients \ {c} : chan'[d] = chan[d]) /\ Len(chan'[c]) <= Buffer
    <3>1. Buffer \in Nat
      BY BusAssumption
    <3> QED
      BY <1>2, <1>7, <2>4, <2>5, <3>1
  <2> QED
    BY <1>1, <1>2, <1>7, <2>1, <2>3, <2>5, <2>6, <2>7, <2>8, SeeKeeps
<1> QED
  BY <1>5, <1>6, <1>7 DEF Receive

\* What a subscription hands over: a gap marker, or exactly the events that
\* the client has not seen.
LEMMA BacklogIs ==
  ASSUME BusInv, NEW since \in Nat, NEW v \in Nat,
         since >= base /\ since <= seq => v = total - (seq - since)
  PROVE  /\ After(since) \in Seq(Event)
         /\ \A i \in 1..Len(After(since)) :
              Real(After(since)[i]) /\ Coherent(After(since)[i].seq, After(since)[i].n)
         /\ ~HasGap(since) => /\ \A i \in 1..Len(After(since)) : After(since)[i].n = v + i
                              /\ v + Len(After(since)) = total
<1> DEFINE L == Len(Ordered)
<1>1. /\ TypeOK /\ seq \in Nat /\ base \in Nat /\ total \in Nat /\ Replay \in Nat \ {0}
      /\ base <= seq /\ seq - base <= total
  BY BusAssumption DEF BusInv, TypeOK, Numbers
<1>2. /\ Ordered \in Seq(Event) /\ L = IF seq - base < Replay THEN seq - base ELSE Replay
      /\ \A i \in 1..L : /\ Ordered[i].seq = seq - L + i
                         /\ Real(Ordered[i]) /\ Coherent(Ordered[i].seq, Ordered[i].n)
  BY OrderedIs DEF BusInv
<1>3. PICK m \in 0..L :
        /\ After(since) = [k \in 1..(L - m) |-> Ordered[m + k]]
        /\ seq - L <= since /\ since <= seq => m = L - (seq - since)
  BY AfterIs DEF BusInv
<1>4. L \in Nat /\ L - m \in Nat /\ \A k \in 1..(L - m) : m + k \in 1..L
  BY <1>1, <1>2
<1> HIDE DEF L
<1>5. /\ After(since) \in Seq(Event) /\ Len(After(since)) = L - m
      /\ \A k \in 1..(L - m) : After(since)[k] = Ordered[m + k]
  <2>1. \A k \in 1..(L - m) : Ordered[m + k] \in Event
    BY <1>2, <1>4 DEF L
  <2> QED
    BY <1>3, <1>4, <2>1
<1>6. \A i \in 1..Len(After(since)) :
        Real(After(since)[i]) /\ Coherent(After(since)[i].seq, After(since)[i].n)
  BY <1>2, <1>4, <1>5
<1>7. ASSUME ~HasGap(since)
      PROVE  /\ \A i \in 1..Len(After(since)) : After(since)[i].n = v + i
             /\ v + Len(After(since)) = total
  <2>0. seq - L >= base
    BY <1>1, <1>2
  <2>1. since <= seq /\ seq - L <= since /\ since >= base
    <3>1. CASE since = seq
      BY <1>1, <1>4, <2>0, <3>1
    <3>2. CASE since # seq
      <4>1. ~(since > seq) /\ Ordered # <<>> /\ ~(since + 1 < Ordered[1].seq)
        BY <1>7, <3>2 DEF HasGap
      <4>2. L \in Nat \ {0}
        BY <1>2, <4>1, EmptySeq DEF L
      <4>3. Ordered[1].seq = seq - L + 1
        BY <1>2, <4>2
      <4> QED
        BY <1>1, <2>0, <4>1, <4>2, <4>3
    <3> QED
      BY <3>1, <3>2
  <2>2. m = L - (seq - since) /\ v = total - (seq - since)
    BY <1>3, <2>1
  <2>3. Len(After(since)) = seq - since
    BY <1>1, <1>4, <1>5, <2>2
  <2>4. v + Len(After(since)) = total
    BY <1>1, <2>2, <2>3
  <2>5. ASSUME NEW i \in 1..Len(After(since))
        PROVE  After(since)[i].n = v + i
    <3>1. After(since)[i] = Ordered[m + i] /\ m + i \in 1..L /\ i \in Nat
      BY <1>4, <1>5
    <3>2. Ordered[m + i].seq = since + i
      <4>1. Ordered[m + i].seq = seq - L + (m + i)
        BY <1>2, <3>1
      <4> QED
        BY <1>1, <1>4, <2>2, <3>1, <4>1
    <3>3. Coherent(since + i, Ordered[m + i].n)
      BY <1>2, <3>1, <3>2
    <3>4. Ordered[m + i].n = total - (seq - (since + i))
      BY <1>1, <2>1, <3>1, <3>3 DEF Coherent, At
    <3> QED
      BY <1>1, <2>2, <3>1, <3>4
  <2> QED
    BY <2>4, <2>5
<1> QED
  BY <1>5, <1>6, <1>7

LEMMA GapFirst ==
  ASSUME NEW q \in Seq(Event)
  PROVE  /\ <<Gap>> \o q \in Seq(Event) /\ Len(<<Gap>> \o q) = 1 + Len(q)
         /\ (<<Gap>> \o q)[1] = Gap
         /\ \A i \in 2..Len(<<Gap>> \o q) : i - 1 \in 1..Len(q) /\ (<<Gap>> \o q)[i] = q[i - 1]
<1>0. <<Gap>> \in Seq(Event) /\ Len(<<Gap>>) = 1 /\ <<Gap>>[1] = Gap
  BY GapIsEvent
<1>1. PICK g \in Seq(Event) : g = <<Gap>> /\ Len(g) = 1 /\ g[1] = Gap
  BY <1>0, Zenon
<1>2. /\ g \o q \in Seq(Event) /\ Len(g \o q) = Len(g) + Len(q)
      /\ \A i \in 1..(Len(g) + Len(q)) : (g \o q)[i] = IF i <= Len(g) THEN g[i] ELSE q[i - Len(g)]
  BY ConcatProperties
<1>3. Len(q) \in Nat
  OBVIOUS
<1> QED
  BY <1>1, <1>2, <1>3

LEMMA ConnectKeeps ==
  ASSUME BusInv, NEW c \in Clients, Connect(c)
  PROVE  /\ BusInv'
         /\ view'[c] \in 0..total
         /\ cursor[c] # 0 => view'[c] = view[c]
<1> DEFINE since == IF cursor[c] = 0 THEN base ELSE cursor[c]
           got == IF HasGap(since) THEN <<Gap>> \o After(since) ELSE After(since)
<1>1. /\ TypeOK /\ sub[c] = "none" /\ ~told[c] /\ UNCHANGED <<bus, now, hist, chan, cursor, told, snap, reading>>
      /\ back' = [back EXCEPT ![c] = got]
      /\ view' = IF cursor[c] = 0 THEN [view EXCEPT ![c] = total - (seq - base)] ELSE view
      /\ sub' = [sub EXCEPT ![c] = "open"]
  BY DEF BusInv, Connect
<1>2. /\ seq \in Nat /\ base \in Nat /\ total \in Nat /\ base <= seq /\ seq - base <= total
      /\ cursor[c] \in Nat /\ view[c] \in Nat /\ since \in Nat
  BY DEF BusInv, TypeOK, Numbers
<1>3. Shape(c)
  BY DEF BusInv, ClientShape
<1>4. /\ view'[c] = IF cursor[c] = 0 THEN total - (seq - base) ELSE view[c]
      /\ view'[c] \in 0..total /\ view' \in [Clients -> Nat]
  <2>1. view \in [Clients -> Nat]
    BY <1>1 DEF TypeOK
  <2>2. total - (seq - base) \in 0..total
    BY <1>2
  <2>3. view[c] \in 0..total
    BY <1>2, <1>3 DEF Shape
  <2> QED
    BY <1>1, <2>1, <2>2, <2>3
<1>5. since >= base /\ since <= seq => view'[c] = total - (seq - since)
  BY <1>2, <1>3, <1>4 DEF Shape, Coherent, At
<1>6. view'[c] \in Nat
  BY <1>2, <1>4
<1> HIDE DEF since
<1>7. PICK v \in Nat : v = view'[c]
  BY <1>6
<1>8. /\ After(since) \in Seq(Event)
      /\ \A i \in 1..Len(After(since)) :
           Real(After(since)[i]) /\ Coherent(After(since)[i].seq, After(since)[i].n)
      /\ ~HasGap(since) => /\ \A i \in 1..Len(After(since)) : After(since)[i].n = v + i
                           /\ v + Len(After(since)) = total
  BY <1>2, <1>5, <1>7, BacklogIs
<1>9. /\ got \in Seq(Event)
      /\ \A i \in 1..Len(got) : \/ i = 1 /\ got[i] = Gap
                                \/ Real(got[i]) /\ Coherent(got[i].seq, got[i].n)
      /\ got = <<>> \/ Head(got) # Gap =>
           (\A i \in 1..Len(got) : got[i].n = v + i) /\ v + Len(got) = total
  <2>1. CASE HasGap(since)
    <3>1. PICK q \in Seq(Event) : q = After(since)
      BY <1>8
    <3>2. /\ got \in Seq(Event) /\ Len(got) = 1 + Len(q) /\ got[1] = Gap
          /\ \A i \in 2..Len(got) : i - 1 \in 1..Len(q) /\ got[i] = q[i - 1]
      BY <2>1, <3>1, GapFirst
    <3>3. got # <<>> /\ Head(got) = Gap
      BY <3>2
    <3>4. ASSUME NEW i \in 1..Len(got)
          PROVE  (i = 1 /\ got[i] = Gap) \/ (Real(got[i]) /\ Coherent(got[i].seq, got[i].n))
      <4>1. i = 1 \/ i \in 2..Len(got)
        BY <3>2
      <4>2. \A j \in 1..Len(q) : Real(q[j]) /\ Coherent(q[j].seq, q[j].n)
        BY <1>8, <3>1
      <4>3. CASE i \in 2..Len(got)
        <5>1. i - 1 \in 1..Len(q) /\ got[i] = q[i - 1]
          BY <3>2, <4>3
        <5> QED
          BY <4>2, <5>1
      <4>4. CASE i = 1
        <5>1. got[1] = Gap
          BY <3>2
        <5> QED
          BY <4>4, <5>1, Zenon
      <4> QED
        BY <4>1, <4>3, <4>4
    <3> QED
      BY <3>2, <3>3, <3>4
  <2>2. CASE ~HasGap(since)
    <3>1. got = After(since)
      BY <2>2
    <3> QED
      BY <1>8, <2>2, <3>1
  <2> QED
    BY <2>1, <2>2
<1> HIDE DEF got
<1>10. /\ back'[c] = got /\ chan'[c] = <<>> /\ sub'[c] = "open"
       /\ cursor'[c] = cursor[c] /\ told'[c] = told[c] /\ reading'[c] = reading[c]
       /\ \A d \in Clients \ {c} :
            /\ sub'[d] = sub[d] /\ back'[d] = back[d] /\ chan'[d] = chan[d]
            /\ cursor'[d] = cursor[d] /\ view'[d] = view[d] /\ told'[d] = told[d] /\ reading'[d] = reading[d]
  BY <1>1, <1>3 DEF Shape, TypeOK
<1>11. UNCHANGED <<loaded, base, seq, ring, start, full, floor, now, born, total, ended, stored, reloads>>
  BY <1>1 DEF bus, hist
<1>12. TypeOK'
  <2>1. back' \in [Clients -> Seq(Event)] /\ sub' \in [Clients -> {"none", "open", "lagged"}]
    BY <1>1, <1>9 DEF TypeOK
  <2> QED
    BY <1>1, <1>4, <1>11, <2>1 DEF TypeOK
<1>13. Shape(c)'
  <2>1. ~told'[c] /\ ~reading'[c]
    BY <1>1, <1>3, <1>10 DEF Shape
  <2>2. view'[c] <= total'
    BY <1>2, <1>4, <1>11
  <2>3. cursor'[c] # 0 => CoherentNext(cursor'[c], view'[c])
    BY <1>3, <1>4, <1>10, <1>11 DEF Shape, Coherent, CoherentNext
  <2> QED
    BY <1>10, <2>1, <2>2, <2>3 DEF Shape, Coherent, CoherentNext
<1>14. RealQueue(c)'
  BY <1>9, <1>10, <1>11 DEF RealQueue, Coherent, At, Real
<1>15. Continues(Queue(c), view[c], sub[c], total)'
  <2>1. back'[c] \o chan'[c] = got
    BY <1>9, <1>10, ConcatEmptySeq
  <2>2. Len(got) \in Nat
    BY <1>9, LenProperties
  <2>3. Continues(got, v, "open", total)
    BY <1>2, <1>9, <2>2 DEF Continues
  <2> QED
    BY <1>7, <1>10, <1>11, <2>1, <2>3 DEF Queue
<1>16. BusInv'
  BY <1>1, <1>10, <1>12, <1>13, <1>14, <1>15, ClientStep
<1> QED
  BY <1>4, <1>16

LEMMA StreamEndsKeeps ==
  ASSUME BusInv, NEW c \in Clients, StreamEnds(c) \/ Disconnect(c)
  PROVE  BusInv'
<1>1. sub[c] # "none" /\ UNCHANGED <<bus, now, hist>>
  BY DEF StreamEnds, Disconnect
<1>2. HearGap(c) \/ (Stop(c, "none") /\ UNCHANGED client)
  BY DEF StreamEnds, Disconnect
<1> QED
  BY <1>1, <1>2, StopKeeps DEF HearGap, client

\* A client that reads the transcript has no stream.
LEMMA ReadKeeps ==
  ASSUME BusInv, NEW c \in Clients, ReadTranscript(c) \/ ReadLastSeq(c)
  PROVE  BusInv'
<1>1. UNCHANGED <<bus, now, hist>> /\ UNCHANGED <<sub, back, chan>> /\ told[c]
  BY DEF ReadTranscript, ReadLastSeq, stream, BusInv, ClientShape, Shape
<1>2. TypeOK /\ Shape(c) /\ seq \in Nat /\ total \in Nat /\ stored \in Nat /\ base \in Nat /\ base <= seq
  BY DEF BusInv, ClientShape, TypeOK, Numbers
<1>3. UNCHANGED <<loaded, base, seq, ring, start, full, floor, now, born, total, ended, stored, reloads>>
  BY <1>1 DEF bus, hist
<1>4. /\ \/ UNCHANGED <<cursor, view, told>> /\ reading' = [reading EXCEPT ![c] = TRUE]
         \/ /\ cursor' = [cursor EXCEPT ![c] = seq] /\ view' = [view EXCEPT ![c] = total]
            /\ told' = [told EXCEPT ![c] = FALSE] /\ reading' = [reading EXCEPT ![c] = FALSE]
      /\ snap' = snap \/ snap' = [snap EXCEPT ![c] = stored]
  BY DEF ReadTranscript, ReadLastSeq
<1>5. TypeOK'
  <2>0. cursor \in [Clients -> Nat] /\ view \in [Clients -> Nat]
    BY <1>2 DEF TypeOK
  <2>1. cursor' \in [Clients -> Nat] /\ view' \in [Clients -> Nat]
    BY <1>2, <1>4, <2>0
  <2>2. told' \in [Clients -> BOOLEAN] /\ reading' \in [Clients -> BOOLEAN]
    <3>1. told \in [Clients -> BOOLEAN] /\ reading \in [Clients -> BOOLEAN]
      BY <1>2 DEF TypeOK
    <3>2. told' = told \/ told' = [told EXCEPT ![c] = FALSE]
      BY <1>4
    <3>3. reading' = [reading EXCEPT ![c] = TRUE] \/ reading' = [reading EXCEPT ![c] = FALSE]
      BY <1>4
    <3>4. told' \in [Clients -> BOOLEAN]
      BY <3>1, <3>2
    <3>5. reading' \in [Clients -> BOOLEAN]
      BY <3>1, <3>3
    <3> QED
      BY <3>4, <3>5
  <2>3. snap' \in [Clients -> Nat]
    BY <1>2, <1>4 DEF TypeOK
  <2> QED
    BY <1>1, <1>2, <1>3, <2>1, <2>2, <2>3 DEF TypeOK
<1>6. /\ sub'[c] = "none" /\ back'[c] = <<>> /\ chan'[c] = <<>>
      /\ \A d \in Clients \ {c} :
           /\ sub'[d] = sub[d] /\ back'[d] = back[d] /\ chan'[d] = chan[d]
           /\ cursor'[d] = cursor[d] /\ view'[d] = view[d] /\ told'[d] = told[d] /\ reading'[d] = reading[d]
  <2>1. sub[c] = "none" /\ back[c] = <<>> /\ chan[c] = <<>>
    BY <1>1, <1>2 DEF Shape
  <2> QED
    BY <1>1, <1>2, <1>4, <2>1 DEF TypeOK
<1>7. Shape(c)'
  <2>1. CASE UNCHANGED <<cursor, view, told>> /\ reading' = [reading EXCEPT ![c] = TRUE]
    BY <1>1, <1>2, <1>3, <1>6, <2>1 DEF Shape, Coherent, At
  <2>2. CASE /\ cursor' = [cursor EXCEPT ![c] = seq] /\ view' = [view EXCEPT ![c] = total]
             /\ told' = [told EXCEPT ![c] = FALSE] /\ reading' = [reading EXCEPT ![c] = FALSE]
    <3>1. cursor'[c] = seq /\ view'[c] = total /\ ~told'[c] /\ ~reading'[c]
      BY <1>2, <2>2 DEF TypeOK
    <3> QED
      BY <1>2, <1>3, <1>6, <3>1 DEF Shape, Coherent, At
  <2> QED
    BY <1>4, <2>1, <2>2
<1>8. RealQueue(c)' /\ Continues(Queue(c), view[c], sub[c], total)'
  BY <1>6, NoStream
<1> QED
  BY <1>1, <1>5, <1>6, <1>7, <1>8, ClientStep

----------------------------------------------------------------------------
(* The invariant *)

LEMMA InitBus ==
  ASSUME Init
  PROVE  BusInv
<1>1. <<>> \in Seq(Event) /\ Len(<<>>) = 0 /\ 0 <= Replay /\ 0 <= Buffer /\ 0 \in 0..(Replay - 1)
  BY BusAssumption
<1>2. \A c \in Clients :
        /\ sub[c] = "none" /\ back[c] = <<>> /\ chan[c] = <<>> /\ cursor[c] = 0 /\ view[c] = 0
        /\ ~reading[c]
  BY DEF Init
<1>3. TypeOK
  <2>1. loaded \in BOOLEAN /\ full \in BOOLEAN
    BY DEF Init
  <2>2. told \in [Clients -> BOOLEAN] /\ reading \in [Clients -> BOOLEAN]
    BY DEF Init
  <2>3. /\ base \in Nat /\ seq \in Nat /\ floor \in Nat /\ now \in Nat /\ born \in Nat
        /\ ring \in Seq(Event) /\ Len(ring) <= Replay /\ start \in 0..(Replay - 1)
        /\ total \in Nat /\ ended \in Nat /\ stored \in {ended, ended + 1} /\ reloads \in Nat
    BY <1>1 DEF Init
  <2>4. /\ sub \in [Clients -> {"none", "open", "lagged"}]
        /\ back \in [Clients -> Seq(Event)] /\ chan \in [Clients -> Seq(Event)]
        /\ cursor \in [Clients -> Nat] /\ view \in [Clients -> Nat] /\ snap \in [Clients -> Nat]
    BY <1>1 DEF Init
  <2>5. \A c \in Clients : Len(chan[c]) <= Buffer
    BY <1>1, <1>2
  <2> QED
    BY <2>1, <2>2, <2>3, <2>4, <2>5 DEF TypeOK
<1>4. Numbers /\ RingShape
  BY DEF Init, Numbers, RingShape
<1>5. ClientShape
  BY <1>2 DEF Init, ClientShape, Shape
<1>6. EventsReal
  BY <1>2 DEF EventsReal, RealQueue
<1>7. QueueNext
  BY <1>2 DEF QueueNext, Continues
<1> QED
  BY <1>3, <1>4, <1>5, <1>6, <1>7 DEF BusInv

LEMMA NextKeeps ==
  ASSUME BusInv, Next
  PROVE  BusInv'
<1>1. ended \in Nat /\ stored \in {ended, ended + 1} /\ stored \in Nat
  BY DEF BusInv, TypeOK
<1>2. CASE PublishDelta
  <2>1. Emit(0) /\ ended' \in Nat /\ stored \in {ended', ended' + 1}
    BY <1>1, <1>2 DEF PublishDelta
  <2> QED
    BY <2>1, EmitKeeps
<1>3. CASE PublishEnd
  <2>1. Emit(stored) /\ ended' \in Nat /\ stored \in {ended', ended' + 1}
    BY <1>1, <1>3 DEF PublishEnd
  <2> QED
    BY <1>1, <2>1, EmitKeeps
<1>4. CASE PersistTurn \/ StepClock
  <2>1. /\ UNCHANGED <<loaded, base, seq, ring, start, full, floor, born, total, ended, reloads,
                      sub, back, chan, cursor, view, told, reading, snap>>
        /\ stored' = stored \/ (stored = ended /\ stored' = stored + 1)
        /\ now' = now \/ (\E d \in ClockSteps : born + d <= now /\ now' = now - d)
    <3>1. CASE PersistTurn
      BY <3>1 DEF PersistTurn, bus, stream, client
    <3>2. CASE StepClock
      <4>1. UNCHANGED <<bus, hist, stream, client>> /\ \E d \in ClockSteps : born + d <= now /\ now' = now - d
        BY <3>2 DEF StepClock
      <4> QED
        <5>1. UNCHANGED <<loaded, base, seq, ring, start, full, floor, born, total, ended, stored, reloads,
                          sub, back, chan, cursor, view, told, reading, snap>>
          BY <4>1 DEF bus, hist, stream, client
        <5>2. \E d \in ClockSteps : born + d <= now /\ now' = now - d
          BY <4>1
        <5>3. stored' = stored
          BY <5>1
        <5> QED
          BY <5>1, <5>2, <5>3, Zenon
    <3> QED
      BY <1>4, <3>1, <3>2
  <2>2. now' \in Nat /\ now' >= born
    <3>1. now \in Nat /\ born \in Nat /\ now >= born /\ ClockSteps \subseteq Nat
      BY BusAssumption DEF BusInv, TypeOK, Numbers
    <3> QED
      BY <2>1, <3>1
  <2>3. TypeOK'
    <3>1. stored' \in {ended', ended' + 1}
      BY <1>1, <2>1
    <3> QED
      BY <2>1, <2>2, <3>1 DEF BusInv, TypeOK
  <2>4. Numbers'
    BY <2>1, <2>2 DEF BusInv, Numbers
  <2>5. RingShape'
    BY <2>1, <2>3, <2>4, BusStands
  <2>6. ClientShape'
    BY <2>1 DEF BusInv, ClientShape, Shape, Coherent, At
  <2>7. EventsReal'
    BY <2>1 DEF BusInv, EventsReal, RealQueue, Coherent, At, Real
  <2>8. QueueNext'
    BY <2>1 DEF BusInv, QueueNext, Continues, Queue
  <2> QED
    BY <2>3, <2>4, <2>5, <2>6, <2>7, <2>8 DEF BusInv
<1>5. CASE Evict \/ Load \/ Restart
  BY <1>5, EvictKeeps, LoadKeeps, RestartKeeps
<1>6. ASSUME NEW c \in Clients, Follow(c) \/ Disconnect(c)
      PROVE  BusInv'
  BY <1>6, ConnectKeeps, ReceiveKeeps, StreamEndsKeeps, ReadKeeps DEF Follow
<1> QED
  BY <1>2, <1>3, <1>4, <1>5, <1>6 DEF Next

LEMMA StutterKeeps ==
  ASSUME BusInv, UNCHANGED vars
  PROVE  BusInv'
<1>1. UNCHANGED <<loaded, base, seq, ring, start, full, floor, now, born, total, ended, stored, reloads,
                  sub, back, chan, cursor, view, told, reading, snap>>
  BY DEF vars, bus, hist, stream, client
<1>2. TypeOK'
  BY <1>1 DEF BusInv, TypeOK
<1>3. Numbers'
  BY <1>1 DEF BusInv, Numbers
<1>4. RingShape'
  BY <1>1, <1>2, <1>3, BusStands
<1>5. ClientShape'
  BY <1>1 DEF BusInv, ClientShape, Shape, Coherent, At
<1>6. EventsReal'
  BY <1>1 DEF BusInv, EventsReal, RealQueue, Coherent, At, Real
<1>7. QueueNext'
  BY <1>1 DEF BusInv, QueueNext, Continues, Queue
<1> QED
  BY <1>2, <1>3, <1>4, <1>5, <1>6, <1>7 DEF BusInv

THEOREM BusInvariant == Spec => []BusInv
<1>1. Init => BusInv
  BY InitBus
<1>2. BusInv /\ [Next]_vars => BusInv'
  BY NextKeeps, StutterKeeps
<1> QED
  BY <1>1, <1>2, PTL DEF Spec


----------------------------------------------------------------------------
(* Theorems *)

\* The replay ring is the exact tail of the bus's events (orderedLocked).
THEOREM RingHoldsTail == Spec => []RingIsTail
<1>1. BusInv => RingIsTail
  BY OrderedIs DEF BusInv, RingIsTail
<1> QED
  BY <1>1, BusInvariant, PTL

\* No event falls between a backlog and the live feed (subscribe, publish).
THEOREM QueuesContinue == Spec => []QueuedIsNext
<1>1. ASSUME BusInv
      PROVE  QueuedIsNext
  <2>1. \A c \in Clients : Queue(c) = back[c] \o chan[c] /\ Continues(Queue(c), view[c], sub[c], total)
    BY <1>1 DEF BusInv, QueueNext, Queue
  <2> QED
    BY <2>1 DEF QueuedIsNext, Continues
<1> QED
  BY <1>1, BusInvariant, PTL

\* The events, channels and cursors are what the types say.
THEOREM BusTypes == Spec => []TypeOK
<1>1. BusInv => TypeOK
  BY DEF BusInv
<1> QED
  BY <1>1, BusInvariant, PTL

----------------------------------------------------------------------------
(* The bus implements the feed *)

\* The abstract told.
Told(c) == told[c] \/ (cursor[c] = 0 /\ sub[c] = "none")

\* A step in which clients are only told is a Tell of the feed.
LEMMA OnlyTells ==
  ASSUME UNCHANGED <<total, view>>, \A c \in Clients : Told(c) => Told(c)'
  PROVE  Feed!Next
<1>1. PICK s \in SUBSET Clients : s = {c \in Clients : Told(c)'}
  OBVIOUS
<1>2. [c \in Clients |-> Told(c)]' = [c \in Clients |-> Told(c) \/ c \in s]
  <2>1. ASSUME NEW c \in Clients
        PROVE  Told(c)' = (Told(c) \/ c \in s)
    <3>1. Told(c)' <=> (Told(c) \/ c \in s)
      BY <1>1
    <3>2. Told(c)' \in BOOLEAN
      BY DEF Told
    <3> QED
      BY <3>1, <3>2, Zenon
  <2> QED
    BY <2>1
<1>3. Feed!Tell(s)
  BY <1>2 DEF Feed!Tell, Told
<1> QED
  BY <1>3 DEF Feed!Next

LEMMA EmitMaps ==
  ASSUME BusInv, NEW turn \in Nat, Emit(turn)
  PROVE  Feed!Next
<1>1. total' = total + 1 /\ UNCHANGED <<view, cursor, told>>
  BY DEF Emit, client
<1>2. \A c \in Clients : (sub'[c] = "none") = (sub[c] = "none")
  BY DEF Emit, DropSlow
<1>3. [c \in Clients |-> told[c] \/ (cursor[c] = 0 /\ sub[c] = "none")]'
      = [c \in Clients |-> told[c] \/ (cursor[c] = 0 /\ sub[c] = "none")]
  BY <1>1, <1>2
<1>4. Feed!Publish
  BY <1>1, <1>3 DEF Feed!Publish
<1> QED
  BY <1>4 DEF Feed!Next

\* A client that has no doubt sees the next event.
LEMMA ReceiveMaps ==
  ASSUME BusInv, NEW c \in Clients, Receive(c)
  PROVE  Feed!Next
<1>1. TypeOK /\ sub[c] # "none" /\ UNCHANGED total /\ Shape(c) /\ RealQueue(c)
  BY DEF BusInv, Receive, hist, ClientShape, EventsReal
<1>2. ASSUME HearGap(c)
      PROVE  Feed!Next
  <2>1. UNCHANGED <<view, cursor>> /\ told' = [told EXCEPT ![c] = TRUE] /\ sub' = [sub EXCEPT ![c] = "none"]
    BY <1>2 DEF HearGap, Stop
  <2>2. \A d \in Clients : (told[d] => told'[d]) /\ cursor'[d] = cursor[d] /\ (sub[d] = "none" => sub'[d] = "none")
    BY <1>1, <2>1 DEF TypeOK
  <2> QED
    BY <1>1, <2>1, <2>2, OnlyTells DEF Told
<1>3. ASSUME NEW e \in Event, See(c, e), UNCHANGED sub, Real(e), Queue(c) # <<>>, e = Head(Queue(c))
      PROVE  Feed!Next
  <2>1. /\ Queue(c) \in Seq(Event) /\ view[c] \in Nat /\ total \in Nat /\ sub[c] \in {"open", "lagged"}
        /\ Continues(Queue(c), view[c], sub[c], total)
    BY <1>1, QueueType DEF BusInv, QueueNext, TypeOK
  <2>2. Head(Queue(c)) # Gap
    BY <1>3, GapIsEvent
  <2>3. e.n = view[c] + 1 /\ view[c] + 1 <= total
    BY <1>3, <2>1, <2>2, TailContinues
  <2>4. e.seq \in Nat /\ e.seq # 0
    BY <1>3 DEF Event, Real
  <2>5. cursor' = [cursor EXCEPT ![c] = e.seq] /\ view' = [view EXCEPT ![c] = e.n] /\ told' = told
    BY <1>3 DEF See
  <2>6. ~told[c] /\ ~Told(c) /\ ~(Told(c)')
    <3>1. ~told[c] /\ ~told'[c]
      BY <1>1, <2>5 DEF Shape
    <3>2. sub'[c] # "none"
      BY <1>1, <1>3
    <3> QED
      BY <1>1, <3>1, <3>2 DEF Told
  <2>7. ASSUME NEW d \in Clients
        PROVE  Told(d)' = Told(d)
    <3>1. CASE d = c
      <4>1. Told(c) \in BOOLEAN /\ Told(c)' \in BOOLEAN
        BY DEF Told
      <4> QED
        BY <2>6, <3>1, <4>1, Zenon
    <3>2. CASE d # c
      <4>1. cursor'[d] = cursor[d] /\ sub'[d] = sub[d] /\ told'[d] = told[d]
        BY <1>1, <1>3, <2>5, <3>2 DEF TypeOK
      <4> QED
        BY <4>1 DEF Told
    <3> QED
      BY <3>1, <3>2
  <2>8. [d \in Clients |-> Told(d)]' = [d \in Clients |-> Told(d)]
    BY <2>7
  <2>9. view' = [view EXCEPT ![c] = @ + 1] /\ view[c] < total
    BY <1>1, <2>1, <2>3, <2>5 DEF TypeOK
  <2>10. ~[d \in Clients |-> Told(d)][c]
    BY <2>6
  <2>11. Feed!Deliver(c)
    BY <1>1, <2>8, <2>9, <2>10 DEF Feed!Deliver, Told
  <2> QED
    BY <2>11 DEF Feed!Next
<1>4. back[c] \in Seq(Event) /\ chan[c] \in Seq(Event)
  BY <1>1, QueueType
<1>5. CASE back[c] # <<>> /\ Head(back[c]) = Gap /\ HearGap(c)
  BY <1>2, <1>5
<1>6. CASE back[c] # <<>> /\ Head(back[c]) # Gap /\ See(c, Head(back[c])) /\ UNCHANGED sub
  <2>1. PICK e \in Event : e = Head(back[c]) /\ e = back[c][1] /\ Len(back[c]) > 0
    BY <1>4, <1>6, EmptySeq
  <2>2. Real(e)
    BY <1>1, <1>4, <1>6, <2>1 DEF RealQueue
  <2>3. Queue(c) # <<>> /\ Head(Queue(c)) = e
    <3>1. back[c] \o chan[c] # <<>> /\ Head(back[c] \o chan[c]) = Head(back[c])
      BY <1>4, <1>6, ConcatTail, Zenon
    <3> QED
      BY <2>1, <3>1 DEF Queue
  <2> QED
    BY <1>3, <1>6, <2>1, <2>2, <2>3
<1>7. CASE back[c] = <<>> /\ chan[c] # <<>> /\ See(c, Head(chan[c])) /\ UNCHANGED sub
  <2>1. PICK e \in Event : e = Head(chan[c]) /\ e = chan[c][1] /\ Len(chan[c]) > 0
    BY <1>4, <1>7, EmptySeq
  <2>2. Real(e)
    BY <1>1, <1>4, <2>1 DEF RealQueue
  <2>3. Queue(c) = chan[c]
    BY <1>4, <1>7, ConcatEmptySeq DEF Queue
  <2> QED
    BY <1>3, <1>7, <2>1, <2>2, <2>3
<1> QED
  BY <1>5, <1>6, <1>7 DEF Receive

LEMMA StreamEndsMaps ==
  ASSUME BusInv, NEW c \in Clients, StreamEnds(c) \/ Disconnect(c)
  PROVE  Feed!Next
<1>1. TypeOK /\ UNCHANGED total
  BY DEF BusInv, StreamEnds, Disconnect, hist
<1>2. /\ sub' = [sub EXCEPT ![c] = "none"] /\ UNCHANGED <<cursor, view>>
      /\ told' = told \/ told' = [told EXCEPT ![c] = TRUE]
  BY DEF StreamEnds, Disconnect, HearGap, Stop, client
<1>3. \A d \in Clients : (told[d] => told'[d]) /\ cursor'[d] = cursor[d] /\ (sub[d] = "none" => sub'[d] = "none")
  BY <1>1, <1>2 DEF TypeOK
<1> QED
  BY <1>1, <1>2, <1>3, OnlyTells DEF Told

\* A client that starts again from an event n of its choice.
LEMMA Resyncs ==
  ASSUME NEW c \in Clients, Told(c), ~(Told(c)'), UNCHANGED total, view \in [Clients -> Nat],
         NEW n \in 0..total, view' = [view EXCEPT ![c] = n],
         \A d \in Clients \ {c} : Told(d)' = Told(d)
  PROVE  Feed!Next
<1>1. [d \in Clients |-> Told(d)]' = [[d \in Clients |-> Told(d)] EXCEPT ![c] = FALSE]
  <2>1. Told(c)' = FALSE
    BY DEF Told
  <2> QED
    BY <2>1
<1>2. [d \in Clients |-> Told(d)][c]
  OBVIOUS
<1>3. Feed!Resync(c)
  BY <1>1, <1>2 DEF Feed!Resync, Told
<1> QED
  BY <1>3 DEF Feed!Next

LEMMA ConnectMaps ==
  ASSUME BusInv, NEW c \in Clients, Connect(c)
  PROVE  Feed!Next
<1>1. TypeOK /\ sub[c] = "none" /\ ~told[c] /\ UNCHANGED <<cursor, told, total>>
  BY DEF BusInv, Connect, hist
<1>2. /\ view' = IF cursor[c] = 0 THEN [view EXCEPT ![c] = total - (seq - base)] ELSE view
      /\ sub' = [sub EXCEPT ![c] = "open"]
  BY DEF Connect
<1>3. \A d \in Clients \ {c} : sub'[d] = sub[d]
  BY <1>1, <1>2 DEF TypeOK
<1>4. \A d \in Clients \ {c} : Told(d)' = Told(d)
  BY <1>1, <1>3 DEF Told
<1>5. sub'[c] = "open"
  BY <1>1, <1>2 DEF TypeOK
<1>6. CASE cursor[c] = 0
  <2>1. Told(c) /\ ~(Told(c)')
    BY <1>1, <1>5, <1>6 DEF Told
  <2>2. view \in [Clients -> Nat] /\ total - (seq - base) \in 0..total
    BY <1>1 DEF BusInv, TypeOK, Numbers
  <2> QED
    BY <1>1, <1>2, <1>4, <1>6, <2>1, <2>2, Resyncs
<1>7. CASE cursor[c] # 0
  <2>1. \A d \in Clients : Told(d) => Told(d)'
    BY <1>1, <1>3, <1>7 DEF Told
  <2> QED
    BY <1>1, <1>2, <1>7, <2>1, OnlyTells
<1> QED
  BY <1>6, <1>7

LEMMA ReadMaps ==
  ASSUME BusInv, NEW c \in Clients, ReadTranscript(c) \/ ReadLastSeq(c)
  PROVE  Feed!Next
<1>1. TypeOK /\ Shape(c) /\ UNCHANGED <<sub, total>>
  BY DEF BusInv, ClientShape, ReadTranscript, ReadLastSeq, hist, stream
<1>2. CASE ReadTranscript(c)
  <2>1. UNCHANGED <<cursor, view, told>>
    BY <1>2 DEF ReadTranscript
  <2> QED
    BY <1>1, <2>1, OnlyTells DEF Told
<1>3. CASE ReadLastSeq(c)
  <2>1. /\ told[c] /\ cursor' = [cursor EXCEPT ![c] = seq] /\ view' = [view EXCEPT ![c] = total]
        /\ told' = [told EXCEPT ![c] = FALSE]
    BY <1>1, <1>3 DEF ReadLastSeq, Shape
  <2>2. \A d \in Clients \ {c} : cursor'[d] = cursor[d] /\ told'[d] = told[d] /\ sub'[d] = sub[d]
    BY <1>1, <2>1 DEF TypeOK
  <2>3. \A d \in Clients \ {c} : Told(d)' = Told(d)
    BY <2>2 DEF Told
  <2>4. /\ cursor'[c] = seq /\ ~told'[c] /\ sub'[c] = "none" /\ Told(c)
        /\ view \in [Clients -> Nat] /\ total \in Nat /\ view[c] <= total
    BY <1>1, <2>1 DEF TypeOK, Told, Shape
  <2>5. CASE seq = 0
    <3>1. total = 0
      BY <2>5 DEF BusInv, TypeOK, Numbers
    <3>2. view' = view
      BY <2>1, <2>4, <3>1
    <3>3. Told(c)'
      BY <2>4, <2>5 DEF Told
    <3> QED
      BY <1>1, <2>3, <3>2, <3>3, OnlyTells
  <2>6. CASE seq # 0
    <3>1. ~(Told(c)')
      BY <2>4, <2>6 DEF Told
    <3>2. total \in 0..total
      BY <2>4
    <3> QED
      BY <1>1, <2>1, <2>3, <2>4, <3>1, <3>2, Resyncs
  <2> QED
    BY <2>5, <2>6
<1> QED
  BY <1>2, <1>3

LEMMA NextMaps ==
  ASSUME BusInv, Next
  PROVE  Feed!Next
<1>1. stored \in Nat
  BY DEF BusInv, TypeOK
<1>2. CASE PublishDelta \/ PublishEnd
  BY <1>1, <1>2, EmitMaps DEF PublishDelta, PublishEnd
<1>3. CASE PersistTurn \/ Evict \/ Load \/ StepClock
  <2>1. UNCHANGED <<total, view, cursor, told, sub>>
    BY <1>3 DEF PersistTurn, Evict, Load, StepClock, hist, stream, client
  <2> QED
    BY <2>1, OnlyTells DEF Told
<1>4. CASE Restart
  <2>1. UNCHANGED <<total, view, cursor, told>> /\ \A c \in Clients : sub'[c] = "none"
    BY <1>4 DEF Restart
  <2> QED
    BY <2>1, OnlyTells DEF Told
<1>5. ASSUME NEW c \in Clients, Follow(c) \/ Disconnect(c)
      PROVE  Feed!Next
  BY <1>5, ConnectMaps, ReceiveMaps, StreamEndsMaps, ReadMaps DEF Follow
<1> QED
  BY <1>2, <1>3, <1>4, <1>5 DEF Next

\* Clients see the events in order and without a hole, or are told, whatever
\* is evicted, restarted or set back in between (EventGap, protocol.go).
THEOREM BusImplementsFeed == Spec => FeedSpec
<1>1. Init => Feed!Init
  <2>1. SUFFICES ASSUME Init PROVE Feed!Init
    OBVIOUS
  <2>2. \A c \in Clients : (told[c] \/ (cursor[c] = 0 /\ sub[c] = "none")) = TRUE
    BY <2>1 DEF Init
  <2> QED
    BY <2>1, <2>2 DEF Init, Feed!Init
<1>2. BusInv /\ [Next]_vars => [Feed!Next]_<<total, view, [c \in Clients |-> told[c] \/ (cursor[c] = 0 /\ sub[c] = "none")]>>
  <2>1. ASSUME UNCHANGED vars
        PROVE  UNCHANGED <<total, view, [c \in Clients |-> told[c] \/ (cursor[c] = 0 /\ sub[c] = "none")]>>
    BY <2>1 DEF vars, hist, stream, client
  <2> QED
    BY <2>1, NextMaps
<1> QED
  BY <1>1, <1>2, BusInvariant, PTL DEF Spec, FeedSpec, Feed!Spec
=============================================================================
