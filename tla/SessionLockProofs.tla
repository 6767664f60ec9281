------------------------- MODULE SessionLockProofs -------------------------
(***************************************************************************)
(* Proofs about SessionLock, for any processes, machines, sessions and     *)
(* goroutines that refresh: what a process believes of its session holds   *)
(* in the store unless the row was taken from it, and a process that was   *)
(* told of a loss, or switched away, begins no write.  The types of the    *)
(* lock and of the bot's manager close the module.                         *)
(***************************************************************************)
EXTENDS MCSessions, BotManagerProofs, TLAPS

\* lockedSessionID already names the session a switch moves to.
Moved == {"named", "released", "cleared"}

\* The row of s is p's own, or somebody took it.
Mine(p, s) == holder[s] = p \/ s \in taken[p]

\* A process that is not up has no memory; one that boots has no history.
Blank(p) ==
  /\ life[p] \notin {"running", "stopped"} => step[p] = "off"
  /\ step[p] \in Booting =>
       told[p] = {} /\ left[p] = {} /\ ~lost[p] /\ title[p].at = "none"
       /\ \A b \in Beats : beat[p][b].at = "idle"

\* The sessions a process works on, names and moves to.
Knows(p) ==
  /\ left[p] \subseteq born
  /\ step[p] \notin Booting =>
       /\ sess[p] \in born
       /\ sess[p] \in left[p] <=> step[p] \in {"released", "cleared"}
       /\ locked[p] = IF step[p] \in Moved THEN next[p] ELSE sess[p]
  /\ step[p] \in {"made"} \cup Switching => next[p] \in born /\ next[p] \notin left[p]
  /\ step[p] \in Switching => next[p] # sess[p]

\* The rows behind them.
Rows(p) ==
  /\ step[p] \in {"made", "created"} => holder[next[p]] # p
  /\ step[p] \in {"owned", "saving", "saved"} => Mine(p, next[p])
  /\ step[p] \notin Booting \cup {"exited"} => Mine(p, locked[p])

\* A refresh runs for a session of this process, present or past; it only
\* misses what was taken or released, and an alarm tells the truth.
BeatTells(p, b) ==
  LET id == beat[p][b].id  now == beat[p][b].at IN
  now # "idle" =>
    /\ id = sess[p] \/ id \in left[p] \/ (step[p] \in Moved /\ id = next[p])
    /\ id \in Sessions /\ (Mine(p, id) \/ id \in left[p])
    /\ now = "missed" => id \in taken[p] \cup left[p]
    /\ now = "alarm" => id \in taken[p]

\* What was told is over, or writes are suspended.
Suspends(p) ==
  /\ lost[p] => taken[p] # {}
  /\ \A s \in told[p] :
       \/ s \in left[p]
       \/ lost[p] /\ (s = sess[p] \/ (step[p] = "cleared" /\ s = next[p]))

\* A title found writes allowed although its loss was told: since then the
\* process has switched.
TitleTells(p) == title[p].at = "checked" /\ title[p].ahead => title[p].id \in left[p]

ProcInv(p) ==
  /\ Blank(p) /\ Knows(p) /\ Rows(p) /\ Suspends(p) /\ TitleTells(p)
  /\ \A b \in Beats : BeatTells(p, b)

\* A lock is a row of a session that exists.
LockedExist == \A s \in Sessions : holder[s] # NoOne => s \in rows

LockInv == LockTypeOK /\ LockedExist /\ \A p \in Procs : ProcInv(p)

----------------------------------------------------------------------------
(* The store *)

\* What the store does leaves process q what is its own, or records the loss.
Spares(q) ==
  /\ born \subseteq born' /\ taken[q] \subseteq taken'[q]
  /\ \A s \in Sessions : /\ holder[s] = q => holder'[s] = q \/ s \in taken'[q]
                         /\ holder'[s] = q => holder[s] = q

\* The part of the types and of the rows that is the store's.
StoreOK ==
  /\ rows \subseteq born /\ born \subseteq Sessions
  /\ holder \in [Sessions -> Procs \cup {NoOne}] /\ age \in [Sessions -> 0..MaxAge]
  /\ taken \in [Procs -> SUBSET Sessions]
  /\ LockedExist

\* Taking a row.
LEMMA AcquireSpares ==
  ASSUME StoreOK, NEW p \in Procs, NEW s \in Sessions, Acquire(s, p)
  PROVE  /\ StoreOK' /\ \A q \in Procs \ {p} : Spares(q)
         /\ holder' = [holder EXCEPT ![s] = p] /\ taken'[p] = taken[p]
         /\ s \in born /\ born' = born
BY LockAssumption DEF StoreOK, LockedExist, Acquire, Rob, Spares, MaxAge

\* Deleting a session.
LEMMA RemoveSpares ==
  ASSUME StoreOK, NEW p \in Procs \cup {NoOne}, NEW s \in Sessions, Remove(s, p)
  PROVE  /\ StoreOK' /\ \A q \in Procs \ {p} : Spares(q)
         /\ holder' = [holder EXCEPT ![s] = NoOne]
         /\ p \in Procs => taken'[p] = taken[p]
         /\ born' = born
BY LockAssumption DEF StoreOK, LockedExist, Remove, Rob, Spares, MaxAge

\* Giving a row back.
LEMMA ReleaseSpares ==
  ASSUME StoreOK, NEW p \in Procs, NEW s \in Sessions, Release(s, p), taken' = taken
  PROVE  /\ StoreOK' /\ \A q \in Procs \ {p} : Spares(q)
         /\ \A r \in Sessions \ {s} : holder'[r] = holder[r]
         /\ born' = born
BY LockAssumption DEF StoreOK, LockedExist, Release, Spares, MaxAge

\* Creating a session.
LEMMA CreateSpares ==
  ASSUME StoreOK, NEW s, Create(s)
  PROVE  /\ StoreOK' /\ \A q \in Procs : Spares(q)
         /\ s \in Sessions \ born /\ holder[s] = NoOne
         /\ born' = born \cup {s} /\ holder' = holder /\ taken' = taken
BY DEF StoreOK, LockedExist, Create, Spares, MaxAge

\* A row ages or is refreshed.
LEMMA AgeSpares ==
  ASSUME StoreOK, UNCHANGED <<rows, born, holder, taken>>, age' \in [Sessions -> 0..MaxAge]
  PROVE  StoreOK' /\ \A q \in Procs : Spares(q)
BY DEF StoreOK, LockedExist, Spares, MaxAge

----------------------------------------------------------------------------
(* The other processes *)

\* The memory of process q, which no other process touches.
Untouched(q) ==
  /\ life'[q] = life[q] /\ sess'[q] = sess[q] /\ next'[q] = next[q] /\ step'[q] = step[q]
  /\ locked'[q] = locked[q] /\ lost'[q] = lost[q] /\ beat'[q] = beat[q] /\ title'[q] = title[q]
  /\ told'[q] = told[q] /\ left'[q] = left[q]

\* What the store spares keeps what a process knows.
LEMMA OthersKeep ==
  ASSUME LockTypeOK, NEW q \in Procs, ProcInv(q), Spares(q), Untouched(q)
  PROVE  ProcInv(q)'
<1> USE DEF Spares, Untouched
<1>1. Blank(q)'
  BY DEF ProcInv, Blank
<1>2. Knows(q)'
  BY DEF ProcInv, Knows, Moved, Switching, Booting
<1>3. \A s \in Sessions : Mine(q, s) => Mine(q, s)'
  BY DEF Mine
<1>4. step[q] \in {"made"} \cup Switching => next[q] \in Sessions
  BY DEF ProcInv, Knows, LockTypeOK
<1>5. step[q] \notin Booting => locked[q] \in Sessions
  BY <1>4 DEF ProcInv, Knows, LockTypeOK, Moved, Switching, Booting
<1>6. Rows(q)'
  BY <1>3, <1>4, <1>5 DEF ProcInv, Rows, Switching, Booting
<1>7. Suspends(q)'
  BY DEF ProcInv, Suspends
<1>8. TitleTells(q)'
  BY DEF ProcInv, TitleTells
<1>9. ASSUME NEW b \in Beats PROVE BeatTells(q, b)'
  BY <1>3 DEF ProcInv, BeatTells
<1> QED
  BY <1>1, <1>2, <1>6, <1>7, <1>8, <1>9 DEF ProcInv

----------------------------------------------------------------------------
(* The process that takes a step *)

\* What a step of process p leaves behind.
Keeps(p) ==
  /\ LockTypeOK' /\ LockedExist'
  /\ \A q \in Procs \ {p} : Spares(q) /\ Untouched(q)
  /\ ProcInv(p)'

\* The invariant, as the steps use it.
LEMMA Unfold ==
  ASSUME LockInv, NEW p \in Procs
  PROVE  /\ LockTypeOK /\ StoreOK /\ ProcInv(p)
         /\ Blank(p) /\ Knows(p) /\ Rows(p) /\ Suspends(p) /\ TitleTells(p)
         /\ \A b \in Beats : BeatTells(p, b)
BY DEF LockInv, LockTypeOK, StoreOK, ProcInv

\* A goroutine that refreshes goes on.
LEMMA BeatTyped ==
  ASSUME LockTypeOK, NEW p \in Procs, NEW b \in Beats,
         NEW l \in {"idle", "loaded", "missed", "alarm"}, NEW i \in SessionOrNone, SetBeat(p, b, l, i)
  PROVE  beat' \in [Procs -> [Beats -> BeatStates]]
BY DEF LockTypeOK, SetBeat, BeatStates

\* A process starts.
LEMMA StartStep ==
  ASSUME LockInv, NEW p \in Procs, Start(p)
  PROVE  Keeps(p)
<1>0. /\ LockTypeOK /\ StoreOK /\ Blank(p) /\ Knows(p) /\ Rows(p) /\ Suspends(p) /\ TitleTells(p)
      /\ \A b \in Beats : BeatTells(p, b)
  BY Unfold
<1>1. ASSUME NEW s \in Sessions, NEW force \in BOOLEAN, Resolve(p, s, force) PROVE Keeps(p)
  <2>1. /\ StoreOK' /\ \A q \in Procs \ {p} : Spares(q)
        /\ born' = born /\ s \in born
        /\ holder' = [holder EXCEPT ![s] = p] /\ taken'[p] = taken[p]
    BY <1>0, <1>1, AcquireSpares DEF Resolve
  <2>2. LockTypeOK'
    BY <1>0, <1>1, <2>1 DEF Resolve, Goto, LockTypeOK, BeatStates, TitleStates, StoreOK,
       SessionOrNone, ReplSteps, Booting, Switching
  <2>3. \A q \in Procs \ {p} : Spares(q) /\ Untouched(q)
    BY <1>0, <1>1, <2>1 DEF Resolve, Goto, Untouched, LockTypeOK
  <2>4. Blank(p)'
    BY <1>0, <1>1, <2>1 DEF Resolve, Goto, Blank, Booting, LockTypeOK
  <2>5. Knows(p)'
    BY <1>0, <1>1, <2>1 DEF Resolve, Goto, Knows, Moved, Booting, Switching, LockTypeOK, Blank
  <2>6. Rows(p)'
    BY <1>0, <1>1, <2>1 DEF Resolve, Goto, Rows, Mine, Moved, Booting, Switching, LockTypeOK
  <2>7. Suspends(p)'
    BY <1>0, <1>1, <2>1 DEF Resolve, Goto, Suspends, LockTypeOK, Blank, Booting
  <2>8. TitleTells(p)'
    BY <1>0, <1>1, <2>1 DEF Resolve, Goto, TitleTells, LockTypeOK
  <2>9. ASSUME NEW c \in Beats PROVE BeatTells(p, c)'
    BY <1>0, <1>1, <2>1 DEF Resolve, Goto, BeatTells, Mine, Moved, LockTypeOK, Blank, Booting
  <2> QED
    BY <2>1, <2>2, <2>3, <2>4, <2>5, <2>6, <2>7, <2>8, <2>9 DEF Keeps, ProcInv, StoreOK
<1>2. ASSUME NEW s \in Sessions, BootCreate(p, s) PROVE Keeps(p)
  <2>1. /\ StoreOK' /\ \A q \in Procs : Spares(q)
        /\ born' = born \cup {s} /\ s \notin born /\ holder[s] = NoOne
        /\ holder' = holder /\ taken' = taken
    BY <1>0, <1>2, CreateSpares DEF BootCreate
  <2>2. LockTypeOK'
    BY <1>0, <1>2, <2>1 DEF BootCreate, Goto, shared, LockTypeOK, BeatStates, TitleStates, StoreOK,
       SessionOrNone, ReplSteps, Booting, Switching
  <2>3. \A q \in Procs \ {p} : Spares(q) /\ Untouched(q)
    BY <1>0, <1>2, <2>1 DEF BootCreate, Goto, shared, Untouched, LockTypeOK
  <2>4. Blank(p)'
    BY <1>0, <1>2, <2>1 DEF BootCreate, Goto, shared, Blank, Booting, LockTypeOK
  <2>5. Knows(p)'
    BY <1>0, <1>2, <2>1 DEF BootCreate, Goto, shared, Knows, Moved, Booting, Switching, LockTypeOK
  <2>6. Rows(p)'
    BY <1>0, <1>2, <2>1, LockAssumption DEF BootCreate, Goto, shared, Rows, Mine, Moved, Booting,
       Switching, LockTypeOK
  <2>7. Suspends(p)'
    BY <1>0, <1>2, <2>1 DEF BootCreate, Goto, shared, Suspends, LockTypeOK, Blank, Booting
  <2>8. TitleTells(p)'
    BY <1>0, <1>2, <2>1 DEF BootCreate, Goto, shared, TitleTells, LockTypeOK
  <2>9. ASSUME NEW c \in Beats PROVE BeatTells(p, c)'
    BY <1>0, <1>2, <2>1 DEF BootCreate, Goto, shared, BeatTells, Mine, Moved, LockTypeOK, Blank,
       Booting
  <2> QED
    BY <2>1, <2>2, <2>3, <2>4, <2>5, <2>6, <2>7, <2>8, <2>9 DEF Keeps, ProcInv, StoreOK
<1>3. ASSUME BootLock(p) PROVE Keeps(p)
  <2>1. next[p] \in Sessions
    BY <1>0, <1>3 DEF BootLock, Active, Knows, LockTypeOK, Booting, Switching, Moved
  <2>2. /\ StoreOK' /\ \A q \in Procs \ {p} : Spares(q)
        /\ born' = born /\ next[p] \in born
        /\ holder' = [holder EXCEPT ![next[p]] = p] /\ taken'[p] = taken[p]
    BY <1>0, <1>3, <2>1, AcquireSpares DEF BootLock
  <2>3. LockTypeOK'
    BY <1>0, <1>3, <2>1, <2>2 DEF BootLock, Active, Goto, LockTypeOK, BeatStates, TitleStates,
       StoreOK, SessionOrNone, ReplSteps, Booting, Switching
  <2>4. \A q \in Procs \ {p} : Spares(q) /\ Untouched(q)
    BY <1>0, <1>3, <2>1, <2>2 DEF BootLock, Active, Goto, Untouched, LockTypeOK
  <2>5. Blank(p)'
    BY <1>0, <1>3, <2>1, <2>2 DEF BootLock, Active, Goto, Blank, Booting, LockTypeOK
  <2>6. Knows(p)'
    BY <1>0, <1>3, <2>1, <2>2 DEF BootLock, Active, Goto, Knows, Moved, Booting, Switching,
       LockTypeOK
  <2>7. Rows(p)'
    BY <1>0, <1>3, <2>1, <2>2 DEF BootLock, Active, Goto, Rows, Mine, Moved, Booting, Switching,
       LockTypeOK
  <2>8. Suspends(p)'
    BY <1>0, <1>3, <2>1, <2>2 DEF BootLock, Active, Goto, Suspends, LockTypeOK, Blank, Booting
  <2>9. TitleTells(p)'
    BY <1>0, <1>3, <2>1, <2>2 DEF BootLock, Active, Goto, TitleTells, LockTypeOK
  <2>10. ASSUME NEW c \in Beats PROVE BeatTells(p, c)'
    BY <1>0, <1>3, <2>1, <2>2 DEF BootLock, Active, Goto, BeatTells, Mine, Moved, LockTypeOK,
       Blank, Booting
  <2> QED
    BY <2>2, <2>3, <2>4, <2>5, <2>6, <2>7, <2>8, <2>9, <2>10 DEF Keeps, ProcInv, StoreOK
<1>4. ASSUME BootFails(p) PROVE Keeps(p)
  <2>1. next[p] \in Sessions
    BY <1>0, <1>4 DEF BootFails, Active, Knows, LockTypeOK, Booting, Switching, Moved
  <2>2. /\ StoreOK' /\ \A q \in Procs \ {p} : Spares(q)
        /\ born' = born
        /\ holder' = [holder EXCEPT ![next[p]] = NoOne] /\ taken'[p] = taken[p]
    BY <1>0, <1>4, <2>1, RemoveSpares DEF BootFails
  <2>3. LockTypeOK'
    BY <1>0, <1>4, <2>1, <2>2 DEF BootFails, Forget, Active, Goto, NoTitle, NoBeat, LockTypeOK,
       BeatStates, TitleStates, StoreOK, SessionOrNone, ReplSteps, Booting, Switching
  <2>4. \A q \in Procs \ {p} : Spares(q) /\ Untouched(q)
    BY <1>0, <1>4, <2>1, <2>2 DEF BootFails, Forget, Active, Goto, NoTitle, NoBeat, Untouched,
       LockTypeOK
  <2>5. Blank(p)'
    BY <1>0, <1>4, <2>1, <2>2 DEF BootFails, Forget, Active, Goto, NoTitle, NoBeat, Blank, Booting,
       LockTypeOK
  <2>6. Knows(p)'
    BY <1>0, <1>4, <2>1, <2>2 DEF BootFails, Forget, Active, Goto, NoTitle, NoBeat, Knows, Moved,
       Booting, Switching, LockTypeOK
  <2>7. Rows(p)'
    BY <1>0, <1>4, <2>1, <2>2 DEF BootFails, Forget, Active, Goto, NoTitle, NoBeat, Rows, Mine,
       Moved, Booting, Switching, LockTypeOK
  <2>8. Suspends(p)'
    BY <1>0, <1>4, <2>1, <2>2 DEF BootFails, Forget, Active, Goto, NoTitle, NoBeat, Suspends,
       LockTypeOK
  <2>9. TitleTells(p)'
    BY <1>0, <1>4, <2>1, <2>2 DEF BootFails, Forget, Active, Goto, NoTitle, NoBeat, TitleTells,
       LockTypeOK
  <2>10. ASSUME NEW c \in Beats PROVE BeatTells(p, c)'
    BY <1>0, <1>4, <2>1, <2>2 DEF BootFails, Forget, Active, Goto, NoTitle, NoBeat, BeatTells,
       Mine, Moved, LockTypeOK
  <2> QED
    BY <2>2, <2>3, <2>4, <2>5, <2>6, <2>7, <2>8, <2>9, <2>10 DEF Keeps, ProcInv, StoreOK
<1> QED
  BY <1>1, <1>2, <1>3, <1>4 DEF Start

\* A process stops or ends.
LEMMA EndStep ==
  ASSUME LockInv, NEW p \in Procs, Ends(p)
  PROVE  Keeps(p)
<1>0. /\ LockTypeOK /\ StoreOK /\ Blank(p) /\ Knows(p) /\ Rows(p) /\ Suspends(p) /\ TitleTells(p)
      /\ \A b \in Beats : BeatTells(p, b)
  BY Unfold
<1>1. ASSUME Exit(p) PROVE Keeps(p)
  <2>1. locked[p] \in Sessions
    BY <1>0, <1>1 DEF Exit, Active, Knows, LockTypeOK, Booting, Switching, Moved
  <2>2. /\ StoreOK' /\ \A q \in Procs \ {p} : Spares(q)
        /\ born' = born
        /\ taken' = taken /\ \A r \in Sessions \ {locked[p]} : holder'[r] = holder[r]
    BY <1>0, <1>1, <2>1, ReleaseSpares DEF Exit, history
  <2>3. LockTypeOK'
    BY <1>0, <1>1, <2>1, <2>2 DEF Exit, Active, Goto, shared, history, LockTypeOK, BeatStates,
       TitleStates, StoreOK, SessionOrNone, ReplSteps, Booting, Switching
  <2>4. \A q \in Procs \ {p} : Spares(q) /\ Untouched(q)
    BY <1>0, <1>1, <2>1, <2>2 DEF Exit, Active, Goto, shared, history, Untouched, LockTypeOK
  <2>5. Blank(p)'
    BY <1>0, <1>1, <2>1, <2>2 DEF Exit, Active, Goto, shared, history, Blank, Booting, LockTypeOK
  <2>6. Knows(p)'
    BY <1>0, <1>1, <2>1, <2>2 DEF Exit, Active, Goto, shared, history, Knows, Moved, Booting,
       Switching, LockTypeOK
  <2>7. Rows(p)'
    BY <1>0, <1>1, <2>1, <2>2 DEF Exit, Active, Goto, shared, history, Rows, Mine, Moved, Booting,
       Switching, LockTypeOK
  <2>8. Suspends(p)'
    BY <1>0, <1>1, <2>1, <2>2 DEF Exit, Active, Goto, shared, history, Suspends, LockTypeOK
  <2>9. TitleTells(p)'
    BY <1>0, <1>1, <2>1, <2>2 DEF Exit, Active, Goto, shared, history, TitleTells, LockTypeOK
  <2>10. ASSUME NEW c \in Beats PROVE BeatTells(p, c)'
    BY <1>0, <1>1, <2>1, <2>2 DEF Exit, Active, Goto, shared, history, BeatTells, Mine, Moved,
       LockTypeOK
  <2> QED
    BY <2>2, <2>3, <2>4, <2>5, <2>6, <2>7, <2>8, <2>9, <2>10 DEF Keeps, ProcInv, StoreOK
<1>2. ASSUME Kill(p) PROVE Keeps(p)
  <2>1. UNCHANGED <<rows, born, holder, age, taken>> /\ StoreOK' /\ \A q \in Procs : Spares(q)
    BY <1>0, <1>2, AgeSpares DEF Kill, Forget, store, StoreOK, LockTypeOK
  <2>2. LockTypeOK'
    BY <1>0, <1>2, <2>1 DEF Kill, Forget, store, Goto, NoTitle, NoBeat, LockTypeOK, BeatStates,
       TitleStates, StoreOK, SessionOrNone, ReplSteps, Booting, Switching
  <2>3. \A q \in Procs \ {p} : Spares(q) /\ Untouched(q)
    BY <1>0, <1>2, <2>1 DEF Kill, Forget, store, Goto, NoTitle, NoBeat, Untouched, LockTypeOK
  <2>4. Blank(p)'
    BY <1>0, <1>2, <2>1 DEF Kill, Forget, store, Goto, NoTitle, NoBeat, Blank, Booting, LockTypeOK
  <2>5. Knows(p)'
    BY <1>0, <1>2, <2>1 DEF Kill, Forget, store, Goto, NoTitle, NoBeat, Knows, Moved, Booting,
       Switching, LockTypeOK
  <2>6. Rows(p)'
    BY <1>0, <1>2, <2>1 DEF Kill, Forget, store, Goto, NoTitle, NoBeat, Rows, Mine, Moved, Booting,
       Switching, LockTypeOK
  <2>7. Suspends(p)'
    BY <1>0, <1>2, <2>1 DEF Kill, Forget, store, Goto, NoTitle, NoBeat, Suspends, LockTypeOK
  <2>8. TitleTells(p)'
    BY <1>0, <1>2, <2>1 DEF Kill, Forget, store, Goto, NoTitle, NoBeat, TitleTells, LockTypeOK
  <2>9. ASSUME NEW c \in Beats PROVE BeatTells(p, c)'
    BY <1>0, <1>2, <2>1 DEF Kill, Forget, store, Goto, NoTitle, NoBeat, BeatTells, Mine, Moved,
       LockTypeOK
  <2> QED
    BY <2>1, <2>2, <2>3, <2>4, <2>5, <2>6, <2>7, <2>8, <2>9 DEF Keeps, ProcInv, StoreOK
<1>3. ASSUME Stop(p) PROVE Keeps(p)
  <2>1. UNCHANGED <<rows, born, holder, age, taken>> /\ StoreOK' /\ \A q \in Procs : Spares(q)
    BY <1>0, <1>3, AgeSpares DEF Stop, store, history, StoreOK, LockTypeOK
  <2>2. LockTypeOK'
    BY <1>0, <1>3, <2>1 DEF Stop, store, repl, shared, history, LockTypeOK, BeatStates,
       TitleStates, StoreOK, SessionOrNone, ReplSteps, Booting, Switching
  <2>3. \A q \in Procs \ {p} : Spares(q) /\ Untouched(q)
    BY <1>0, <1>3, <2>1 DEF Stop, store, repl, shared, history, Untouched, LockTypeOK
  <2>4. Blank(p)'
    BY <1>0, <1>3, <2>1 DEF Stop, store, repl, shared, history, Blank, Booting, LockTypeOK
  <2>5. Knows(p)'
    BY <1>0, <1>3, <2>1 DEF Stop, store, repl, shared, history, Knows, Moved, Booting, Switching,
       LockTypeOK
  <2>6. Rows(p)'
    BY <1>0, <1>3, <2>1 DEF Stop, store, repl, shared, history, Rows, Mine, Moved, Booting,
       Switching, LockTypeOK
  <2>7. Suspends(p)'
    BY <1>0, <1>3, <2>1 DEF Stop, store, repl, shared, history, Suspends, LockTypeOK
  <2>8. TitleTells(p)'
    BY <1>0, <1>3, <2>1 DEF Stop, store, repl, shared, history, TitleTells, LockTypeOK
  <2>9. ASSUME NEW c \in Beats PROVE BeatTells(p, c)'
    BY <1>0, <1>3, <2>1 DEF Stop, store, repl, shared, history, BeatTells, Mine, Moved, LockTypeOK
  <2> QED
    BY <2>1, <2>2, <2>3, <2>4, <2>5, <2>6, <2>7, <2>8, <2>9 DEF Keeps, ProcInv, StoreOK
<1>4. ASSUME Resume(p) PROVE Keeps(p)
  <2>1. UNCHANGED <<rows, born, holder, age, taken>> /\ StoreOK' /\ \A q \in Procs : Spares(q)
    BY <1>0, <1>4, AgeSpares DEF Resume, store, history, StoreOK, LockTypeOK
  <2>2. LockTypeOK'
    BY <1>0, <1>4, <2>1 DEF Resume, store, repl, shared, history, LockTypeOK, BeatStates,
       TitleStates, StoreOK, SessionOrNone, ReplSteps, Booting, Switching
  <2>3. \A q \in Procs \ {p} : Spares(q) /\ Untouched(q)
    BY <1>0, <1>4, <2>1 DEF Resume, store, repl, shared, history, Untouched, LockTypeOK
  <2>4. Blank(p)'
    BY <1>0, <1>4, <2>1 DEF Resume, store, repl, shared, history, Blank, Booting, LockTypeOK
  <2>5. Knows(p)'
    BY <1>0, <1>4, <2>1 DEF Resume, store, repl, shared, history, Knows, Moved, Booting, Switching,
       LockTypeOK
  <2>6. Rows(p)'
    BY <1>0, <1>4, <2>1 DEF Resume, store, repl, shared, history, Rows, Mine, Moved, Booting,
       Switching, LockTypeOK
  <2>7. Suspends(p)'
    BY <1>0, <1>4, <2>1 DEF Resume, store, repl, shared, history, Suspends, LockTypeOK
  <2>8. TitleTells(p)'
    BY <1>0, <1>4, <2>1 DEF Resume, store, repl, shared, history, TitleTells, LockTypeOK
  <2>9. ASSUME NEW c \in Beats PROVE BeatTells(p, c)'
    BY <1>0, <1>4, <2>1 DEF Resume, store, repl, shared, history, BeatTells, Mine, Moved,
       LockTypeOK
  <2> QED
    BY <2>1, <2>2, <2>3, <2>4, <2>5, <2>6, <2>7, <2>8, <2>9 DEF Keeps, ProcInv, StoreOK
<1>5. ASSUME Reuse(p) PROVE Keeps(p)
  <2>1. UNCHANGED <<rows, born, holder, age, taken>> /\ StoreOK' /\ \A q \in Procs : Spares(q)
    BY <1>0, <1>5, AgeSpares DEF Reuse, store, history, StoreOK, LockTypeOK
  <2>2. LockTypeOK'
    BY <1>0, <1>5, <2>1 DEF Reuse, store, repl, shared, history, LockTypeOK, BeatStates,
       TitleStates, StoreOK, SessionOrNone, ReplSteps, Booting, Switching
  <2>3. \A q \in Procs \ {p} : Spares(q) /\ Untouched(q)
    BY <1>0, <1>5, <2>1 DEF Reuse, store, repl, shared, history, Untouched, LockTypeOK
  <2>4. Blank(p)'
    BY <1>0, <1>5, <2>1 DEF Reuse, store, repl, shared, history, Blank, Booting, LockTypeOK
  <2>5. Knows(p)'
    BY <1>0, <1>5, <2>1 DEF Reuse, store, repl, shared, history, Knows, Moved, Booting, Switching,
       LockTypeOK
  <2>6. Rows(p)'
    BY <1>0, <1>5, <2>1 DEF Reuse, store, repl, shared, history, Rows, Mine, Moved, Booting,
       Switching, LockTypeOK
  <2>7. Suspends(p)'
    BY <1>0, <1>5, <2>1 DEF Reuse, store, repl, shared, history, Suspends, LockTypeOK
  <2>8. TitleTells(p)'
    BY <1>0, <1>5, <2>1 DEF Reuse, store, repl, shared, history, TitleTells, LockTypeOK
  <2>9. ASSUME NEW c \in Beats PROVE BeatTells(p, c)'
    BY <1>0, <1>5, <2>1 DEF Reuse, store, repl, shared, history, BeatTells, Mine, Moved, LockTypeOK
  <2> QED
    BY <2>1, <2>2, <2>3, <2>4, <2>5, <2>6, <2>7, <2>8, <2>9 DEF Keeps, ProcInv, StoreOK
<1> QED
  BY <1>1, <1>2, <1>3, <1>4, <1>5 DEF Ends

\* A refresh, and what it finds.
LEMMA HeartStep ==
  ASSUME LockInv, NEW p \in Procs, Heartbeat(p)
  PROVE  Keeps(p)
<1>0. /\ LockTypeOK /\ StoreOK /\ Blank(p) /\ Knows(p) /\ Rows(p) /\ Suspends(p) /\ TitleTells(p)
      /\ \A b \in Beats : BeatTells(p, b)
  BY Unfold
<1>1. ASSUME NEW b \in Beats, BeatLoad(p, b) PROVE Keeps(p)
  <2>1. UNCHANGED <<rows, born, holder, age, taken>> /\ StoreOK' /\ \A q \in Procs : Spares(q)
    BY <1>0, <1>1, AgeSpares DEF BeatLoad, store, history, StoreOK, LockTypeOK
  <2>2. LockTypeOK'
    BY <1>0, <1>1, <2>1 DEF BeatLoad, SetBeat, store, repl, shared, history, LockTypeOK,
       BeatStates, TitleStates, StoreOK, SessionOrNone, ReplSteps, Booting, Switching
  <2>3. \A q \in Procs \ {p} : Spares(q) /\ Untouched(q)
    BY <1>0, <1>1, <2>1 DEF BeatLoad, SetBeat, store, repl, shared, history, Untouched, LockTypeOK
  <2>4. Blank(p)'
    BY <1>0, <1>1, <2>1 DEF BeatLoad, SetBeat, store, repl, shared, history, Blank, Booting,
       LockTypeOK
  <2>5. Knows(p)'
    BY <1>0, <1>1, <2>1 DEF BeatLoad, SetBeat, store, repl, shared, history, Knows, Moved, Booting,
       Switching, LockTypeOK
  <2>6. Rows(p)'
    BY <1>0, <1>1, <2>1 DEF BeatLoad, SetBeat, store, repl, shared, history, Rows, Mine, Moved,
       Booting, Switching, LockTypeOK
  <2>7. Suspends(p)'
    BY <1>0, <1>1, <2>1 DEF BeatLoad, SetBeat, store, repl, shared, history, Suspends, LockTypeOK
  <2>8. TitleTells(p)'
    BY <1>0, <1>1, <2>1 DEF BeatLoad, SetBeat, store, repl, shared, history, TitleTells, LockTypeOK
  <2>9. ASSUME NEW c \in Beats PROVE BeatTells(p, c)'
    BY <1>0, <1>1, <2>1 DEF BeatLoad, SetBeat, store, repl, shared, history, BeatTells, Mine,
       Moved, LockTypeOK, Knows, Rows, Booting, Switching
  <2> QED
    BY <2>1, <2>2, <2>3, <2>4, <2>5, <2>6, <2>7, <2>8, <2>9 DEF Keeps, ProcInv, StoreOK
<1>2. ASSUME NEW b \in Beats, BeatRefresh(p, b) PROVE Keeps(p)
  <2>1. UNCHANGED <<rows, born, holder, taken>> /\ StoreOK' /\ \A q \in Procs : Spares(q)
    <3>1. age' = age \/ age' = [age EXCEPT ![beat[p][b].id] = 0]
      BY <1>2 DEF BeatRefresh
    <3>2. age' \in [Sessions -> 0..MaxAge]
      <4>1. age \in [Sessions -> 0..MaxAge]
        BY <1>0 DEF LockTypeOK
      <4>2. 0 \in 0..MaxAge
        BY LockAssumption DEF MaxAge
      <4> QED
        BY <3>1, <4>1, <4>2
    <3> QED
      BY <1>0, <1>2, <3>2, AgeSpares DEF BeatRefresh, history
  <2>2. LockTypeOK'
    <3>1. beat[p][b].id \in SessionOrNone
      BY <1>0 DEF LockTypeOK, BeatStates, SessionOrNone
    <3>2. \E l \in {"idle", "missed"}, i \in {beat[p][b].id, NoOne} : SetBeat(p, b, l, i)
      BY <1>2 DEF BeatRefresh
    <3>3. beat' \in [Procs -> [Beats -> BeatStates]]
      BY <1>0, <3>1, <3>2, BeatTyped DEF SessionOrNone
    <3> QED
      BY <1>2, <1>0, <2>1, <3>1, <3>3 DEF BeatRefresh, repl, shared, history, SetBeat, LockTypeOK,
         StoreOK, BeatStates, SessionOrNone, ReplSteps, Booting, Switching
  <2>3. \A q \in Procs \ {p} : Spares(q) /\ Untouched(q)
    BY <1>0, <1>2, <2>1 DEF BeatRefresh, SetBeat, repl, shared, history, Untouched, LockTypeOK
  <2>4. Blank(p)'
    BY <1>0, <1>2, <2>1 DEF BeatRefresh, SetBeat, repl, shared, history, Blank, Booting, LockTypeOK
  <2>5. Knows(p)'
    BY <1>0, <1>2, <2>1 DEF BeatRefresh, SetBeat, repl, shared, history, Knows, Moved, Booting,
       Switching, LockTypeOK
  <2>6. Rows(p)'
    BY <1>0, <1>2, <2>1 DEF BeatRefresh, SetBeat, repl, shared, history, Rows, Mine, Moved,
       Booting, Switching, LockTypeOK
  <2>7. Suspends(p)'
    BY <1>0, <1>2, <2>1 DEF BeatRefresh, SetBeat, repl, shared, history, Suspends, LockTypeOK
  <2>8. TitleTells(p)'
    BY <1>0, <1>2, <2>1 DEF BeatRefresh, SetBeat, repl, shared, history, TitleTells, LockTypeOK
  <2>9. ASSUME NEW c \in Beats PROVE BeatTells(p, c)'
    <3>1. UNCHANGED <<sess, step, next, locked, taken, left, holder>>
      BY <1>2, <2>1 DEF BeatRefresh, repl, shared, history, SetBeat
    <3>2. CASE c # b
      <4>1. beat'[p][c] = beat[p][c]
        BY <1>2, <1>0, <3>2 DEF BeatRefresh, repl, shared, history, SetBeat, LockTypeOK
      <4> QED
        BY <1>0, <3>1, <4>1 DEF BeatTells, Mine
    <3>3. ASSUME c = b, NEW l, NEW i, SetBeat(p, b, l, i)
          PROVE  beat'[p][c] = [at |-> l, id |-> i]
      BY <1>0, <3>3 DEF SetBeat, LockTypeOK
    <3>4. CASE c = b /\ SetBeat(p, b, "idle", NoOne)
      <4>1. beat'[p][c] = [at |-> "idle", id |-> NoOne]
        BY <3>3, <3>4
      <4> QED
        BY <4>1 DEF BeatTells
    <3>5. CASE c = b /\ holder[beat[p][b].id] # p /\ SetBeat(p, b, "missed", beat[p][b].id)
      <4>1. beat'[p][c] = [at |-> "missed", id |-> beat[p][b].id]
        BY <3>3, <3>5
      <4>2. beat[p][b].at = "loaded"
        BY <1>2 DEF BeatRefresh
      <4> QED
        BY <1>0, <3>1, <3>5, <4>1, <4>2 DEF BeatTells, Mine
    <3> QED
      BY <1>2, <3>2, <3>4, <3>5 DEF BeatRefresh
  <2> QED
    BY <2>1, <2>2, <2>3, <2>4, <2>5, <2>6, <2>7, <2>8, <2>9 DEF Keeps, ProcInv, StoreOK
<1>3. ASSUME NEW b \in Beats, BeatAgain(p, b) PROVE Keeps(p)
  <2>1. UNCHANGED <<rows, born, holder, age, taken>> /\ StoreOK' /\ \A q \in Procs : Spares(q)
    BY <1>0, <1>3, AgeSpares DEF BeatAgain, store, history, StoreOK, LockTypeOK
  <2>2. LockTypeOK'
    <3>1. beat[p][b].id \in SessionOrNone
      BY <1>0 DEF LockTypeOK, BeatStates, SessionOrNone
    <3>2. \E l \in {"idle", "alarm"}, i \in {beat[p][b].id, NoOne} : SetBeat(p, b, l, i)
      BY <1>3 DEF BeatAgain
    <3>3. beat' \in [Procs -> [Beats -> BeatStates]]
      BY <1>0, <3>1, <3>2, BeatTyped DEF SessionOrNone
    <3> QED
      BY <1>3, <1>0, <2>1, <3>1, <3>3 DEF BeatAgain, repl, shared, history, store, SetBeat,
         StillNamed, LockTypeOK, StoreOK, BeatStates, SessionOrNone, ReplSteps, Booting, Switching
  <2>3. \A q \in Procs \ {p} : Spares(q) /\ Untouched(q)
    BY <1>0, <1>3, <2>1 DEF BeatAgain, SetBeat, StillNamed, store, repl, shared, history,
       Untouched, LockTypeOK
  <2>4. Blank(p)'
    BY <1>0, <1>3, <2>1 DEF BeatAgain, SetBeat, StillNamed, store, repl, shared, history, Blank,
       Booting, LockTypeOK
  <2>5. Knows(p)'
    BY <1>0, <1>3, <2>1 DEF BeatAgain, SetBeat, StillNamed, store, repl, shared, history, Knows,
       Moved, Booting, Switching, LockTypeOK
  <2>6. Rows(p)'
    BY <1>0, <1>3, <2>1 DEF BeatAgain, SetBeat, StillNamed, store, repl, shared, history, Rows,
       Mine, Moved, Booting, Switching, LockTypeOK
  <2>7. Suspends(p)'
    BY <1>0, <1>3, <2>1 DEF BeatAgain, SetBeat, StillNamed, store, repl, shared, history, Suspends,
       LockTypeOK
  <2>8. TitleTells(p)'
    BY <1>0, <1>3, <2>1 DEF BeatAgain, SetBeat, StillNamed, store, repl, shared, history,
       TitleTells, LockTypeOK
  <2>9. ASSUME NEW c \in Beats PROVE BeatTells(p, c)'
    <3>1. UNCHANGED <<sess, step, next, locked, taken, left, holder>>
      BY <1>3, <2>1 DEF BeatAgain, repl, shared, history, store, SetBeat, StillNamed
    <3>2. CASE c # b
      <4>1. beat'[p][c] = beat[p][c]
        BY <1>3, <1>0, <3>2 DEF BeatAgain, repl, shared, history, store, SetBeat, StillNamed,
           LockTypeOK
      <4> QED
        BY <1>0, <3>1, <4>1 DEF BeatTells, Mine
    <3>3. ASSUME c = b, NEW l, NEW i, SetBeat(p, b, l, i)
          PROVE  beat'[p][c] = [at |-> l, id |-> i]
      BY <1>0, <3>3 DEF SetBeat, LockTypeOK
    <3>4. CASE c = b /\ SetBeat(p, b, "idle", NoOne)
      <4>1. beat'[p][c] = [at |-> "idle", id |-> NoOne]
        BY <3>3, <3>4
      <4> QED
        BY <4>1 DEF BeatTells
    <3>5. CASE c = b /\ locked[p] = beat[p][b].id /\ SetBeat(p, b, "alarm", beat[p][b].id)
      <4>1. beat'[p][c] = [at |-> "alarm", id |-> beat[p][b].id]
        BY <3>3, <3>5
      <4>2. beat[p][b].at = "missed" /\ step[p] \notin Booting
        BY <1>3, <1>0 DEF BeatAgain, Blank
      <4>3. locked[p] \notin left[p]
        BY <1>0, <4>2 DEF Knows, Moved, Booting, Switching, LockTypeOK, ReplSteps
      <4> QED
        BY <1>0, <3>1, <3>5, <4>1, <4>2, <4>3 DEF BeatTells, Mine
    <3> QED
      BY <1>3, <3>2, <3>4, <3>5 DEF BeatAgain, StillNamed
  <2> QED
    BY <2>1, <2>2, <2>3, <2>4, <2>5, <2>6, <2>7, <2>8, <2>9 DEF Keeps, ProcInv, StoreOK
<1>4. ASSUME NEW b \in Beats, BeatAlarm(p, b) PROVE Keeps(p)
  <2>1. UNCHANGED <<rows, born, holder, age, taken>> /\ StoreOK' /\ \A q \in Procs : Spares(q)
    BY <1>0, <1>4, AgeSpares DEF BeatAlarm, store, StoreOK, LockTypeOK
  <2>2. LockTypeOK'
    <3>1. beat[p][b].id \in SessionOrNone
      BY <1>0 DEF LockTypeOK, BeatStates, SessionOrNone
    <3>2. SetBeat(p, b, "idle", NoOne)
      BY <1>4 DEF BeatAlarm
    <3>3. beat' \in [Procs -> [Beats -> BeatStates]]
      BY <1>0, <3>1, <3>2, BeatTyped DEF SessionOrNone
    <3>4. told' \in [Procs -> SUBSET Sessions]
      <4>1. beat[p][b].id \in Sessions
        BY <1>4, <1>0 DEF BeatAlarm, BeatTells
      <4>2. told' = told \/ told' = [told EXCEPT ![p] = @ \cup {beat[p][b].id}]
        BY <1>4 DEF BeatAlarm
      <4>3. told \in [Procs -> SUBSET Sessions] /\ told[p] \cup {beat[p][b].id} \in SUBSET Sessions
        BY <1>0, <4>1 DEF LockTypeOK
      <4> QED
        BY <4>2, <4>3
    <3> QED
      BY <1>4, <1>0, <2>1, <3>1, <3>3, <3>4 DEF BeatAlarm, repl, store, SetBeat, LockTypeOK,
         StoreOK, BeatStates, SessionOrNone, ReplSteps, Booting, Switching
  <2>3. \A q \in Procs \ {p} : Spares(q) /\ Untouched(q)
    BY <1>0, <1>4, <2>1 DEF BeatAlarm, SetBeat, store, repl, Untouched, LockTypeOK
  <2>4. Blank(p)'
    BY <1>0, <1>4, <2>1 DEF BeatAlarm, SetBeat, store, repl, Blank, Booting, LockTypeOK
  <2>5. Knows(p)'
    BY <1>0, <1>4, <2>1 DEF BeatAlarm, SetBeat, store, repl, Knows, Moved, Booting, Switching,
       LockTypeOK
  <2>6. Rows(p)'
    BY <1>0, <1>4, <2>1 DEF BeatAlarm, SetBeat, store, repl, Rows, Mine, Moved, Booting, Switching,
       LockTypeOK
  <2>7. Suspends(p)'
    BY <1>0, <1>4, <2>1 DEF BeatAlarm, SetBeat, store, repl, Suspends, LockTypeOK, BeatTells, Moved
  <2>8. TitleTells(p)'
    BY <1>0, <1>4, <2>1 DEF BeatAlarm, SetBeat, store, repl, TitleTells, LockTypeOK
  <2>9. ASSUME NEW c \in Beats PROVE BeatTells(p, c)'
    BY <1>0, <1>4, <2>1 DEF BeatAlarm, SetBeat, store, repl, BeatTells, Mine, Moved, LockTypeOK
  <2> QED
    BY <2>1, <2>2, <2>3, <2>4, <2>5, <2>6, <2>7, <2>8, <2>9 DEF Keeps, ProcInv, StoreOK
<1> QED
  BY <1>1, <1>2, <1>3, <1>4 DEF Heartbeat

\* A write of the REPL.
LEMMA WriteStep ==
  ASSUME LockInv, NEW p \in Procs, Write(p) \/ Written(p)
  PROVE  Keeps(p)
<1>0. /\ LockTypeOK /\ StoreOK /\ Blank(p) /\ Knows(p) /\ Rows(p) /\ Suspends(p) /\ TitleTells(p)
      /\ \A b \in Beats : BeatTells(p, b)
  BY Unfold
<1>1. ASSUME Write(p) PROVE Keeps(p)
  <2>1. UNCHANGED <<rows, born, holder, age, taken>> /\ StoreOK' /\ \A q \in Procs : Spares(q)
    BY <1>0, <1>1, AgeSpares DEF Write, store, history, StoreOK, LockTypeOK
  <2>2. LockTypeOK'
    BY <1>0, <1>1, <2>1 DEF Write, Active, Goto, store, shared, history, LockTypeOK, BeatStates,
       TitleStates, StoreOK, SessionOrNone, ReplSteps, Booting, Switching
  <2>3. \A q \in Procs \ {p} : Spares(q) /\ Untouched(q)
    BY <1>0, <1>1, <2>1 DEF Write, Active, Goto, store, shared, history, Untouched, LockTypeOK
  <2>4. Blank(p)'
    BY <1>0, <1>1, <2>1 DEF Write, Active, Goto, store, shared, history, Blank, Booting, LockTypeOK
  <2>5. Knows(p)'
    BY <1>0, <1>1, <2>1 DEF Write, Active, Goto, store, shared, history, Knows, Moved, Booting,
       Switching, LockTypeOK
  <2>6. Rows(p)'
    BY <1>0, <1>1, <2>1 DEF Write, Active, Goto, store, shared, history, Rows, Mine, Moved,
       Booting, Switching, LockTypeOK
  <2>7. Suspends(p)'
    BY <1>0, <1>1, <2>1 DEF Write, Active, Goto, store, shared, history, Suspends, LockTypeOK
  <2>8. TitleTells(p)'
    BY <1>0, <1>1, <2>1 DEF Write, Active, Goto, store, shared, history, TitleTells, LockTypeOK
  <2>9. ASSUME NEW c \in Beats PROVE BeatTells(p, c)'
    BY <1>0, <1>1, <2>1 DEF Write, Active, Goto, store, shared, history, BeatTells, Mine, Moved,
       LockTypeOK
  <2> QED
    BY <2>1, <2>2, <2>3, <2>4, <2>5, <2>6, <2>7, <2>8, <2>9 DEF Keeps, ProcInv, StoreOK
<1>2. ASSUME Written(p) PROVE Keeps(p)
  <2>1. UNCHANGED <<rows, born, holder, age, taken>> /\ StoreOK' /\ \A q \in Procs : Spares(q)
    BY <1>0, <1>2, AgeSpares DEF Written, store, history, StoreOK, LockTypeOK
  <2>2. LockTypeOK'
    BY <1>0, <1>2, <2>1 DEF Written, Active, Goto, store, shared, history, LockTypeOK, BeatStates,
       TitleStates, StoreOK, SessionOrNone, ReplSteps, Booting, Switching
  <2>3. \A q \in Procs \ {p} : Spares(q) /\ Untouched(q)
    BY <1>0, <1>2, <2>1 DEF Written, Active, Goto, store, shared, history, Untouched, LockTypeOK
  <2>4. Blank(p)'
    BY <1>0, <1>2, <2>1 DEF Written, Active, Goto, store, shared, history, Blank, Booting,
       LockTypeOK
  <2>5. Knows(p)'
    BY <1>0, <1>2, <2>1 DEF Written, Active, Goto, store, shared, history, Knows, Moved, Booting,
       Switching, LockTypeOK
  <2>6. Rows(p)'
    BY <1>0, <1>2, <2>1 DEF Written, Active, Goto, store, shared, history, Rows, Mine, Moved,
       Booting, Switching, LockTypeOK
  <2>7. Suspends(p)'
    BY <1>0, <1>2, <2>1 DEF Written, Active, Goto, store, shared, history, Suspends, LockTypeOK
  <2>8. TitleTells(p)'
    BY <1>0, <1>2, <2>1 DEF Written, Active, Goto, store, shared, history, TitleTells, LockTypeOK
  <2>9. ASSUME NEW c \in Beats PROVE BeatTells(p, c)'
    BY <1>0, <1>2, <2>1 DEF Written, Active, Goto, store, shared, history, BeatTells, Mine, Moved,
       LockTypeOK
  <2> QED
    BY <2>1, <2>2, <2>3, <2>4, <2>5, <2>6, <2>7, <2>8, <2>9 DEF Keeps, ProcInv, StoreOK
<1> QED
  BY <1>1, <1>2

\* /new and /fork.
LEMMA SwitchStep ==
  ASSUME LockInv, NEW p \in Procs, Switch(p)
  PROVE  Keeps(p)
<1>0. /\ LockTypeOK /\ StoreOK /\ Blank(p) /\ Knows(p) /\ Rows(p) /\ Suspends(p) /\ TitleTells(p)
      /\ \A b \in Beats : BeatTells(p, b)
  BY Unfold
<1>1. ASSUME NEW s \in Sessions, NewCreate(p, s) PROVE Keeps(p)
  <2>1. /\ StoreOK' /\ \A q \in Procs : Spares(q)
        /\ born' = born \cup {s} /\ s \notin born /\ holder[s] = NoOne
        /\ holder' = holder /\ taken' = taken
    BY <1>0, <1>1, CreateSpares DEF NewCreate
  <2>2. LockTypeOK'
    BY <1>0, <1>1, <2>1 DEF NewCreate, Advance, shared, Active, Goto, LockTypeOK, BeatStates,
       TitleStates, StoreOK, SessionOrNone, ReplSteps, Booting, Switching
  <2>3. \A q \in Procs \ {p} : Spares(q) /\ Untouched(q)
    BY <1>0, <1>1, <2>1 DEF NewCreate, Advance, shared, Active, Goto, Untouched, LockTypeOK
  <2>4. Blank(p)'
    BY <1>0, <1>1, <2>1 DEF NewCreate, Advance, shared, Active, Goto, Blank, Booting, LockTypeOK
  <2>5. Knows(p)'
    BY <1>0, <1>1, <2>1 DEF NewCreate, Advance, shared, Active, Goto, Knows, Moved, Booting,
       Switching, LockTypeOK
  <2>6. Rows(p)'
    BY <1>0, <1>1, <2>1, LockAssumption DEF NewCreate, Advance, shared, Active, Goto, Rows, Mine,
       Moved, Booting, Switching, LockTypeOK
  <2>7. Suspends(p)'
    BY <1>0, <1>1, <2>1 DEF NewCreate, Advance, shared, Active, Goto, Suspends, LockTypeOK
  <2>8. TitleTells(p)'
    BY <1>0, <1>1, <2>1 DEF NewCreate, Advance, shared, Active, Goto, TitleTells, LockTypeOK
  <2>9. ASSUME NEW c \in Beats PROVE BeatTells(p, c)'
    BY <1>0, <1>1, <2>1 DEF NewCreate, Advance, shared, Active, Goto, BeatTells, Mine, Moved,
       LockTypeOK
  <2> QED
    BY <2>1, <2>2, <2>3, <2>4, <2>5, <2>6, <2>7, <2>8, <2>9 DEF Keeps, ProcInv, StoreOK
<1>2. ASSUME NewLock(p) PROVE Keeps(p)
  <2>1. next[p] \in Sessions
    BY <1>0, <1>2 DEF NewLock, Advance, Active, Knows, LockTypeOK, Booting, Switching, Moved
  <2>2. /\ StoreOK' /\ \A q \in Procs \ {p} : Spares(q)
        /\ born' = born /\ next[p] \in born
        /\ holder' = [holder EXCEPT ![next[p]] = p] /\ taken'[p] = taken[p]
    BY <1>0, <1>2, <2>1, AcquireSpares DEF NewLock
  <2>3. LockTypeOK'
    BY <1>0, <1>2, <2>1, <2>2 DEF NewLock, Advance, shared, Active, Goto, LockTypeOK, BeatStates,
       TitleStates, StoreOK, SessionOrNone, ReplSteps, Booting, Switching
  <2>4. \A q \in Procs \ {p} : Spares(q) /\ Untouched(q)
    BY <1>0, <1>2, <2>1, <2>2 DEF NewLock, Advance, shared, Active, Goto, Untouched, LockTypeOK
  <2>5. Blank(p)'
    BY <1>0, <1>2, <2>1, <2>2 DEF NewLock, Advance, shared, Active, Goto, Blank, Booting,
       LockTypeOK
  <2>6. Knows(p)'
    BY <1>0, <1>2, <2>1, <2>2 DEF NewLock, Advance, shared, Active, Goto, Knows, Moved, Booting,
       Switching, LockTypeOK
  <2>7. Rows(p)'
    BY <1>0, <1>2, <2>1, <2>2 DEF NewLock, Advance, shared, Active, Goto, Rows, Mine, Moved,
       Booting, Switching, LockTypeOK
  <2>8. Suspends(p)'
    BY <1>0, <1>2, <2>1, <2>2 DEF NewLock, Advance, shared, Active, Goto, Suspends, LockTypeOK
  <2>9. TitleTells(p)'
    BY <1>0, <1>2, <2>1, <2>2 DEF NewLock, Advance, shared, Active, Goto, TitleTells, LockTypeOK
  <2>10. ASSUME NEW c \in Beats PROVE BeatTells(p, c)'
    BY <1>0, <1>2, <2>1, <2>2 DEF NewLock, Advance, shared, Active, Goto, BeatTells, Mine, Moved,
       LockTypeOK
  <2> QED
    BY <2>2, <2>3, <2>4, <2>5, <2>6, <2>7, <2>8, <2>9, <2>10 DEF Keeps, ProcInv, StoreOK
<1>3. ASSUME NewFails(p) PROVE Keeps(p)
  <2>1. next[p] \in Sessions
    BY <1>0, <1>3 DEF NewFails, Advance, Active, Knows, LockTypeOK, Booting, Switching, Moved
  <2>2. /\ StoreOK' /\ \A q \in Procs \ {p} : Spares(q)
        /\ born' = born
        /\ holder' = [holder EXCEPT ![next[p]] = NoOne] /\ taken'[p] = taken[p]
    BY <1>0, <1>3, <2>1, RemoveSpares DEF NewFails
  <2>3. LockTypeOK'
    BY <1>0, <1>3, <2>1, <2>2 DEF NewFails, Advance, shared, Active, Goto, LockTypeOK, BeatStates,
       TitleStates, StoreOK, SessionOrNone, ReplSteps, Booting, Switching
  <2>4. \A q \in Procs \ {p} : Spares(q) /\ Untouched(q)
    BY <1>0, <1>3, <2>1, <2>2 DEF NewFails, Advance, shared, Active, Goto, Untouched, LockTypeOK
  <2>5. Blank(p)'
    BY <1>0, <1>3, <2>1, <2>2 DEF NewFails, Advance, shared, Active, Goto, Blank, Booting,
       LockTypeOK
  <2>6. Knows(p)'
    BY <1>0, <1>3, <2>1, <2>2 DEF NewFails, Advance, shared, Active, Goto, Knows, Moved, Booting,
       Switching, LockTypeOK
  <2>7. Rows(p)'
    BY <1>0, <1>3, <2>1, <2>2 DEF NewFails, Advance, shared, Active, Goto, Rows, Mine, Moved,
       Booting, Switching, LockTypeOK
  <2>8. Suspends(p)'
    BY <1>0, <1>3, <2>1, <2>2 DEF NewFails, Advance, shared, Active, Goto, Suspends, LockTypeOK
  <2>9. TitleTells(p)'
    BY <1>0, <1>3, <2>1, <2>2 DEF NewFails, Advance, shared, Active, Goto, TitleTells, LockTypeOK
  <2>10. ASSUME NEW c \in Beats PROVE BeatTells(p, c)'
    BY <1>0, <1>3, <2>1, <2>2 DEF NewFails, Advance, shared, Active, Goto, BeatTells, Mine, Moved,
       LockTypeOK, Rows, Knows, Switching
  <2> QED
    BY <2>2, <2>3, <2>4, <2>5, <2>6, <2>7, <2>8, <2>9, <2>10 DEF Keeps, ProcInv, StoreOK
<1>4. ASSUME NewSave(p) PROVE Keeps(p)
  <2>1. UNCHANGED <<rows, born, holder, age, taken>> /\ StoreOK' /\ \A q \in Procs : Spares(q)
    BY <1>0, <1>4, AgeSpares DEF NewSave, store, history, StoreOK, LockTypeOK
  <2>2. LockTypeOK'
    BY <1>0, <1>4, <2>1 DEF NewSave, Advance, store, shared, history, Active, Goto, LockTypeOK,
       BeatStates, TitleStates, StoreOK, SessionOrNone, ReplSteps, Booting, Switching
  <2>3. \A q \in Procs \ {p} : Spares(q) /\ Untouched(q)
    BY <1>0, <1>4, <2>1 DEF NewSave, Advance, store, shared, history, Active, Goto, Untouched,
       LockTypeOK
  <2>4. Blank(p)'
    BY <1>0, <1>4, <2>1 DEF NewSave, Advance, store, shared, history, Active, Goto, Blank, Booting,
       LockTypeOK
  <2>5. Knows(p)'
    BY <1>0, <1>4, <2>1 DEF NewSave, Advance, store, shared, history, Active, Goto, Knows, Moved,
       Booting, Switching, LockTypeOK
  <2>6. Rows(p)'
    BY <1>0, <1>4, <2>1 DEF NewSave, Advance, store, shared, history, Active, Goto, Rows, Mine,
       Moved, Booting, Switching, LockTypeOK
  <2>7. Suspends(p)'
    BY <1>0, <1>4, <2>1 DEF NewSave, Advance, store, shared, history, Active, Goto, Suspends,
       LockTypeOK
  <2>8. TitleTells(p)'
    BY <1>0, <1>4, <2>1 DEF NewSave, Advance, store, shared, history, Active, Goto, TitleTells,
       LockTypeOK
  <2>9. ASSUME NEW c \in Beats PROVE BeatTells(p, c)'
    BY <1>0, <1>4, <2>1 DEF NewSave, Advance, store, shared, history, Active, Goto, BeatTells,
       Mine, Moved, LockTypeOK
  <2> QED
    BY <2>1, <2>2, <2>3, <2>4, <2>5, <2>6, <2>7, <2>8, <2>9 DEF Keeps, ProcInv, StoreOK
<1>5. ASSUME NewSaved(p) PROVE Keeps(p)
  <2>1. UNCHANGED <<rows, born, holder, age, taken>> /\ StoreOK' /\ \A q \in Procs : Spares(q)
    BY <1>0, <1>5, AgeSpares DEF NewSaved, store, history, StoreOK, LockTypeOK
  <2>2. LockTypeOK'
    BY <1>0, <1>5, <2>1 DEF NewSaved, Advance, store, shared, history, Active, Goto, LockTypeOK,
       BeatStates, TitleStates, StoreOK, SessionOrNone, ReplSteps, Booting, Switching
  <2>3. \A q \in Procs \ {p} : Spares(q) /\ Untouched(q)
    BY <1>0, <1>5, <2>1 DEF NewSaved, Advance, store, shared, history, Active, Goto, Untouched,
       LockTypeOK
  <2>4. Blank(p)'
    BY <1>0, <1>5, <2>1 DEF NewSaved, Advance, store, shared, history, Active, Goto, Blank,
       Booting, LockTypeOK
  <2>5. Knows(p)'
    BY <1>0, <1>5, <2>1 DEF NewSaved, Advance, store, shared, history, Active, Goto, Knows, Moved,
       Booting, Switching, LockTypeOK
  <2>6. Rows(p)'
    BY <1>0, <1>5, <2>1 DEF NewSaved, Advance, store, shared, history, Active, Goto, Rows, Mine,
       Moved, Booting, Switching, LockTypeOK
  <2>7. Suspends(p)'
    BY <1>0, <1>5, <2>1 DEF NewSaved, Advance, store, shared, history, Active, Goto, Suspends,
       LockTypeOK
  <2>8. TitleTells(p)'
    BY <1>0, <1>5, <2>1 DEF NewSaved, Advance, store, shared, history, Active, Goto, TitleTells,
       LockTypeOK
  <2>9. ASSUME NEW c \in Beats PROVE BeatTells(p, c)'
    BY <1>0, <1>5, <2>1 DEF NewSaved, Advance, store, shared, history, Active, Goto, BeatTells,
       Mine, Moved, LockTypeOK
  <2> QED
    BY <2>1, <2>2, <2>3, <2>4, <2>5, <2>6, <2>7, <2>8, <2>9 DEF Keeps, ProcInv, StoreOK
<1>6. ASSUME NewName(p) PROVE Keeps(p)
  <2>1. UNCHANGED <<rows, born, holder, age, taken>> /\ StoreOK' /\ \A q \in Procs : Spares(q)
    BY <1>0, <1>6, AgeSpares DEF NewName, store, history, StoreOK, LockTypeOK
  <2>2. LockTypeOK'
    BY <1>0, <1>6, <2>1 DEF NewName, Advance, store, history, Active, Goto, LockTypeOK, BeatStates,
       TitleStates, StoreOK, SessionOrNone, ReplSteps, Booting, Switching
  <2>3. \A q \in Procs \ {p} : Spares(q) /\ Untouched(q)
    BY <1>0, <1>6, <2>1 DEF NewName, Advance, store, history, Active, Goto, Untouched, LockTypeOK
  <2>4. Blank(p)'
    BY <1>0, <1>6, <2>1 DEF NewName, Advance, store, history, Active, Goto, Blank, Booting,
       LockTypeOK
  <2>5. Knows(p)'
    BY <1>0, <1>6, <2>1 DEF NewName, Advance, store, history, Active, Goto, Knows, Moved, Booting,
       Switching, LockTypeOK
  <2>6. Rows(p)'
    BY <1>0, <1>6, <2>1 DEF NewName, Advance, store, history, Active, Goto, Rows, Mine, Moved,
       Booting, Switching, LockTypeOK
  <2>7. Suspends(p)'
    BY <1>0, <1>6, <2>1 DEF NewName, Advance, store, history, Active, Goto, Suspends, LockTypeOK
  <2>8. TitleTells(p)'
    BY <1>0, <1>6, <2>1 DEF NewName, Advance, store, history, Active, Goto, TitleTells, LockTypeOK
  <2>9. ASSUME NEW c \in Beats PROVE BeatTells(p, c)'
    BY <1>0, <1>6, <2>1 DEF NewName, Advance, store, history, Active, Goto, BeatTells, Mine, Moved,
       LockTypeOK
  <2> QED
    BY <2>1, <2>2, <2>3, <2>4, <2>5, <2>6, <2>7, <2>8, <2>9 DEF Keeps, ProcInv, StoreOK
<1>7. ASSUME NewRelease(p) PROVE Keeps(p)
  <2>1. sess[p] \in Sessions
    BY <1>0, <1>7 DEF NewRelease, Advance, Active, Knows, LockTypeOK, Booting, Switching, Moved
  <2>2. /\ StoreOK' /\ \A q \in Procs \ {p} : Spares(q)
        /\ born' = born
        /\ taken' = taken /\ \A r \in Sessions \ {sess[p]} : holder'[r] = holder[r]
    BY <1>0, <1>7, <2>1, ReleaseSpares DEF NewRelease
  <2>3. LockTypeOK'
    BY <1>0, <1>7, <2>1, <2>2 DEF NewRelease, Advance, shared, Active, Goto, LockTypeOK,
       BeatStates, TitleStates, StoreOK, SessionOrNone, ReplSteps, Booting, Switching
  <2>4. \A q \in Procs \ {p} : Spares(q) /\ Untouched(q)
    BY <1>0, <1>7, <2>1, <2>2 DEF NewRelease, Advance, shared, Active, Goto, Untouched, LockTypeOK
  <2>5. Blank(p)'
    BY <1>0, <1>7, <2>1, <2>2 DEF NewRelease, Advance, shared, Active, Goto, Blank, Booting,
       LockTypeOK
  <2>6. Knows(p)'
    BY <1>0, <1>7, <2>1, <2>2 DEF NewRelease, Advance, shared, Active, Goto, Knows, Moved, Booting,
       Switching, LockTypeOK
  <2>7. Rows(p)'
    BY <1>0, <1>7, <2>1, <2>2 DEF NewRelease, Advance, shared, Active, Goto, Rows, Mine, Moved,
       Booting, Switching, LockTypeOK, Knows
  <2>8. Suspends(p)'
    BY <1>0, <1>7, <2>1, <2>2 DEF NewRelease, Advance, shared, Active, Goto, Suspends, LockTypeOK
  <2>9. TitleTells(p)'
    BY <1>0, <1>7, <2>1, <2>2 DEF NewRelease, Advance, shared, Active, Goto, TitleTells, LockTypeOK
  <2>10. ASSUME NEW c \in Beats PROVE BeatTells(p, c)'
    BY <1>0, <1>7, <2>1, <2>2 DEF NewRelease, Advance, shared, Active, Goto, BeatTells, Mine,
       Moved, LockTypeOK
  <2> QED
    BY <2>2, <2>3, <2>4, <2>5, <2>6, <2>7, <2>8, <2>9, <2>10 DEF Keeps, ProcInv, StoreOK
<1>8. ASSUME NewClear(p) PROVE Keeps(p)
  <2>1. UNCHANGED <<rows, born, holder, age, taken>> /\ StoreOK' /\ \A q \in Procs : Spares(q)
    BY <1>0, <1>8, AgeSpares DEF NewClear, store, history, StoreOK, LockTypeOK
  <2>2. LockTypeOK'
    BY <1>0, <1>8, <2>1 DEF NewClear, Advance, store, history, Active, Goto, LockTypeOK,
       BeatStates, TitleStates, StoreOK, SessionOrNone, ReplSteps, Booting, Switching
  <2>3. \A q \in Procs \ {p} : Spares(q) /\ Untouched(q)
    BY <1>0, <1>8, <2>1 DEF NewClear, Advance, store, history, Active, Goto, Untouched, LockTypeOK
  <2>4. Blank(p)'
    BY <1>0, <1>8, <2>1 DEF NewClear, Advance, store, history, Active, Goto, Blank, Booting,
       LockTypeOK
  <2>5. Knows(p)'
    BY <1>0, <1>8, <2>1 DEF NewClear, Advance, store, history, Active, Goto, Knows, Moved, Booting,
       Switching, LockTypeOK
  <2>6. Rows(p)'
    BY <1>0, <1>8, <2>1 DEF NewClear, Advance, store, history, Active, Goto, Rows, Mine, Moved,
       Booting, Switching, LockTypeOK
  <2>7. Suspends(p)'
    BY <1>0, <1>8, <2>1 DEF NewClear, Advance, store, history, Active, Goto, Suspends, LockTypeOK,
       Knows, Booting
  <2>8. TitleTells(p)'
    BY <1>0, <1>8, <2>1 DEF NewClear, Advance, store, history, Active, Goto, TitleTells, LockTypeOK
  <2>9. ASSUME NEW c \in Beats PROVE BeatTells(p, c)'
    BY <1>0, <1>8, <2>1 DEF NewClear, Advance, store, history, Active, Goto, BeatTells, Mine,
       Moved, LockTypeOK
  <2> QED
    BY <2>1, <2>2, <2>3, <2>4, <2>5, <2>6, <2>7, <2>8, <2>9 DEF Keeps, ProcInv, StoreOK
<1>9. ASSUME NewDone(p) PROVE Keeps(p)
  <2>1. UNCHANGED <<rows, born, holder, age, taken>> /\ StoreOK' /\ \A q \in Procs : Spares(q)
    BY <1>0, <1>9, AgeSpares DEF NewDone, store, history, StoreOK, LockTypeOK
  <2>2. LockTypeOK'
    BY <1>0, <1>9, <2>1 DEF NewDone, Advance, store, shared, history, Active, Goto, LockTypeOK,
       BeatStates, TitleStates, StoreOK, SessionOrNone, ReplSteps, Booting, Switching
  <2>3. \A q \in Procs \ {p} : Spares(q) /\ Untouched(q)
    BY <1>0, <1>9, <2>1 DEF NewDone, Advance, store, shared, history, Active, Goto, Untouched,
       LockTypeOK
  <2>4. Blank(p)'
    BY <1>0, <1>9, <2>1 DEF NewDone, Advance, store, shared, history, Active, Goto, Blank, Booting,
       LockTypeOK
  <2>5. Knows(p)'
    BY <1>0, <1>9, <2>1 DEF NewDone, Advance, store, shared, history, Active, Goto, Knows, Moved,
       Booting, Switching, LockTypeOK
  <2>6. Rows(p)'
    BY <1>0, <1>9, <2>1 DEF NewDone, Advance, store, shared, history, Active, Goto, Rows, Mine,
       Moved, Booting, Switching, LockTypeOK
  <2>7. Suspends(p)'
    BY <1>0, <1>9, <2>1 DEF NewDone, Advance, store, shared, history, Active, Goto, Suspends,
       LockTypeOK, Knows, Booting
  <2>8. TitleTells(p)'
    BY <1>0, <1>9, <2>1 DEF NewDone, Advance, store, shared, history, Active, Goto, TitleTells,
       LockTypeOK
  <2>9. ASSUME NEW c \in Beats PROVE BeatTells(p, c)'
    BY <1>0, <1>9, <2>1 DEF NewDone, Advance, store, shared, history, Active, Goto, BeatTells,
       Mine, Moved, LockTypeOK, Knows, Booting
  <2> QED
    BY <2>1, <2>2, <2>3, <2>4, <2>5, <2>6, <2>7, <2>8, <2>9 DEF Keeps, ProcInv, StoreOK
<1> QED
  BY <1>1, <1>2, <1>3, <1>4, <1>5, <1>6, <1>7, <1>8, <1>9 DEF Switch

\* The title's goroutine.
LEMMA TitleStep ==
  ASSUME LockInv, NEW p \in Procs, Title(p)
  PROVE  Keeps(p)
<1>0. /\ LockTypeOK /\ StoreOK /\ Blank(p) /\ Knows(p) /\ Rows(p) /\ Suspends(p) /\ TitleTells(p)
      /\ \A b \in Beats : BeatTells(p, b)
  BY Unfold
<1>1. ASSUME TitleSpawn(p) PROVE Keeps(p)
  <2>1. UNCHANGED <<rows, born, holder, age, taken>> /\ StoreOK' /\ \A q \in Procs : Spares(q)
    BY <1>0, <1>1, AgeSpares DEF TitleSpawn, store, history, StoreOK, LockTypeOK
  <2>2. LockTypeOK'
    BY <1>0, <1>1, <2>1 DEF TitleSpawn, Active, store, repl, shared, history, LockTypeOK,
       BeatStates, TitleStates, StoreOK, SessionOrNone, ReplSteps, Booting, Switching
  <2>3. \A q \in Procs \ {p} : Spares(q) /\ Untouched(q)
    BY <1>0, <1>1, <2>1 DEF TitleSpawn, Active, store, repl, shared, history, Untouched, LockTypeOK
  <2>4. Blank(p)'
    BY <1>0, <1>1, <2>1 DEF TitleSpawn, Active, store, repl, shared, history, Blank, Booting,
       LockTypeOK
  <2>5. Knows(p)'
    BY <1>0, <1>1, <2>1 DEF TitleSpawn, Active, store, repl, shared, history, Knows, Moved,
       Booting, Switching, LockTypeOK
  <2>6. Rows(p)'
    BY <1>0, <1>1, <2>1 DEF TitleSpawn, Active, store, repl, shared, history, Rows, Mine, Moved,
       Booting, Switching, LockTypeOK
  <2>7. Suspends(p)'
    BY <1>0, <1>1, <2>1 DEF TitleSpawn, Active, store, repl, shared, history, Suspends, LockTypeOK
  <2>8. TitleTells(p)'
    BY <1>0, <1>1, <2>1 DEF TitleSpawn, Active, store, repl, shared, history, TitleTells,
       LockTypeOK
  <2>9. ASSUME NEW c \in Beats PROVE BeatTells(p, c)'
    BY <1>0, <1>1, <2>1 DEF TitleSpawn, Active, store, repl, shared, history, BeatTells, Mine,
       Moved, LockTypeOK
  <2> QED
    BY <2>1, <2>2, <2>3, <2>4, <2>5, <2>6, <2>7, <2>8, <2>9 DEF Keeps, ProcInv, StoreOK
<1>2. ASSUME TitleAsks(p) PROVE Keeps(p)
  <2>1. UNCHANGED <<rows, born, holder, age, taken>> /\ StoreOK' /\ \A q \in Procs : Spares(q)
    BY <1>0, <1>2, AgeSpares DEF TitleAsks, store, history, StoreOK, LockTypeOK
  <2>2. LockTypeOK'
    <3>1. title' = [title EXCEPT ![p].at = "asked"] \/ title' = [title EXCEPT ![p] = NoTitle]
      BY <1>2 DEF TitleAsks, repl, shared, history, store, SetTitle
    <3>2. title' \in [Procs -> TitleStates]
      <4>1. NoTitle \in TitleStates
        BY DEF NoTitle, TitleStates, SessionOrNone
      <4>2. CASE title' = [title EXCEPT ![p].at = "asked"]
        BY <1>0, <4>2 DEF LockTypeOK, TitleStates
      <4>3. CASE title' = [title EXCEPT ![p] = NoTitle]
        BY <1>0, <4>1, <4>3 DEF LockTypeOK
      <4> QED
        BY <3>1, <4>2, <4>3
    <3> QED
      BY <1>2, <1>0, <2>1, <3>2 DEF TitleAsks, repl, shared, history, store, LockTypeOK, StoreOK
  <2>3. \A q \in Procs \ {p} : Spares(q) /\ Untouched(q)
    BY <1>0, <1>2, <2>1 DEF TitleAsks, SetTitle, NoTitle, store, repl, shared, history, Untouched,
       LockTypeOK
  <2>4. Blank(p)'
    BY <1>0, <1>2, <2>1 DEF TitleAsks, SetTitle, NoTitle, store, repl, shared, history, Blank,
       Booting, LockTypeOK
  <2>5. Knows(p)'
    BY <1>0, <1>2, <2>1 DEF TitleAsks, SetTitle, NoTitle, store, repl, shared, history, Knows,
       Moved, Booting, Switching, LockTypeOK
  <2>6. Rows(p)'
    BY <1>0, <1>2, <2>1 DEF TitleAsks, SetTitle, NoTitle, store, repl, shared, history, Rows, Mine,
       Moved, Booting, Switching, LockTypeOK
  <2>7. Suspends(p)'
    BY <1>0, <1>2, <2>1 DEF TitleAsks, SetTitle, NoTitle, store, repl, shared, history, Suspends,
       LockTypeOK
  <2>8. TitleTells(p)'
    BY <1>0, <1>2, <2>1 DEF TitleAsks, SetTitle, NoTitle, store, repl, shared, history, TitleTells,
       LockTypeOK, TitleStates
  <2>9. ASSUME NEW c \in Beats PROVE BeatTells(p, c)'
    BY <1>0, <1>2, <2>1 DEF TitleAsks, SetTitle, NoTitle, store, repl, shared, history, BeatTells,
       Mine, Moved, LockTypeOK
  <2> QED
    BY <2>1, <2>2, <2>3, <2>4, <2>5, <2>6, <2>7, <2>8, <2>9 DEF Keeps, ProcInv, StoreOK
<1>3. ASSUME TitleChecks(p) PROVE Keeps(p)
  <2>1. UNCHANGED <<rows, born, holder, age, taken>> /\ StoreOK' /\ \A q \in Procs : Spares(q)
    BY <1>0, <1>3, AgeSpares DEF TitleChecks, store, history, StoreOK, LockTypeOK
  <2>2. LockTypeOK'
    BY <1>0, <1>3, <2>1 DEF TitleChecks, NoTitle, store, repl, shared, history, LockTypeOK,
       BeatStates, TitleStates, StoreOK, SessionOrNone, ReplSteps, Booting, Switching
  <2>3. \A q \in Procs \ {p} : Spares(q) /\ Untouched(q)
    BY <1>0, <1>3, <2>1 DEF TitleChecks, NoTitle, store, repl, shared, history, Untouched,
       LockTypeOK
  <2>4. Blank(p)'
    BY <1>0, <1>3, <2>1 DEF TitleChecks, NoTitle, store, repl, shared, history, Blank, Booting,
       LockTypeOK
  <2>5. Knows(p)'
    BY <1>0, <1>3, <2>1 DEF TitleChecks, NoTitle, store, repl, shared, history, Knows, Moved,
       Booting, Switching, LockTypeOK
  <2>6. Rows(p)'
    BY <1>0, <1>3, <2>1 DEF TitleChecks, NoTitle, store, repl, shared, history, Rows, Mine, Moved,
       Booting, Switching, LockTypeOK
  <2>7. Suspends(p)'
    BY <1>0, <1>3, <2>1 DEF TitleChecks, NoTitle, store, repl, shared, history, Suspends,
       LockTypeOK
  <2>8. TitleTells(p)'
    BY <1>0, <1>3, <2>1 DEF TitleChecks, NoTitle, store, repl, shared, history, TitleTells,
       LockTypeOK, Suspends
  <2>9. ASSUME NEW c \in Beats PROVE BeatTells(p, c)'
    BY <1>0, <1>3, <2>1 DEF TitleChecks, NoTitle, store, repl, shared, history, BeatTells, Mine,
       Moved, LockTypeOK
  <2> QED
    BY <2>1, <2>2, <2>3, <2>4, <2>5, <2>6, <2>7, <2>8, <2>9 DEF Keeps, ProcInv, StoreOK
<1>4. ASSUME TitleWrites(p) PROVE Keeps(p)
  <2>1. UNCHANGED <<rows, born, holder, age, taken>> /\ StoreOK' /\ \A q \in Procs : Spares(q)
    BY <1>0, <1>4, AgeSpares DEF TitleWrites, store, history, StoreOK, LockTypeOK
  <2>2. LockTypeOK'
    <3>1. title' = [title EXCEPT ![p].at = "writing"] \/ title' = [title EXCEPT ![p] = NoTitle]
      BY <1>4 DEF TitleWrites, repl, shared, history, store, SetTitle, Names
    <3>2. title' \in [Procs -> TitleStates]
      <4>1. NoTitle \in TitleStates
        BY DEF NoTitle, TitleStates, SessionOrNone
      <4>2. CASE title' = [title EXCEPT ![p].at = "writing"]
        BY <1>0, <4>2 DEF LockTypeOK, TitleStates
      <4>3. CASE title' = [title EXCEPT ![p] = NoTitle]
        BY <1>0, <4>1, <4>3 DEF LockTypeOK
      <4> QED
        BY <3>1, <4>2, <4>3
    <3> QED
      BY <1>4, <1>0, <2>1, <3>2 DEF TitleWrites, repl, shared, history, store, LockTypeOK, StoreOK
  <2>3. \A q \in Procs \ {p} : Spares(q) /\ Untouched(q)
    BY <1>0, <1>4, <2>1 DEF TitleWrites, SetTitle, Names, NoTitle, store, repl, shared, history,
       Untouched, LockTypeOK
  <2>4. Blank(p)'
    BY <1>0, <1>4, <2>1 DEF TitleWrites, SetTitle, Names, NoTitle, store, repl, shared, history,
       Blank, Booting, LockTypeOK
  <2>5. Knows(p)'
    BY <1>0, <1>4, <2>1 DEF TitleWrites, SetTitle, Names, NoTitle, store, repl, shared, history,
       Knows, Moved, Booting, Switching, LockTypeOK
  <2>6. Rows(p)'
    BY <1>0, <1>4, <2>1 DEF TitleWrites, SetTitle, Names, NoTitle, store, repl, shared, history,
       Rows, Mine, Moved, Booting, Switching, LockTypeOK
  <2>7. Suspends(p)'
    BY <1>0, <1>4, <2>1 DEF TitleWrites, SetTitle, Names, NoTitle, store, repl, shared, history,
       Suspends, LockTypeOK
  <2>8. TitleTells(p)'
    BY <1>0, <1>4, <2>1 DEF TitleWrites, SetTitle, Names, NoTitle, store, repl, shared, history,
       TitleTells, LockTypeOK, TitleStates
  <2>9. ASSUME NEW c \in Beats PROVE BeatTells(p, c)'
    BY <1>0, <1>4, <2>1 DEF TitleWrites, SetTitle, Names, NoTitle, store, repl, shared, history,
       BeatTells, Mine, Moved, LockTypeOK
  <2> QED
    BY <2>1, <2>2, <2>3, <2>4, <2>5, <2>6, <2>7, <2>8, <2>9 DEF Keeps, ProcInv, StoreOK
<1>5. ASSUME TitleWritten(p) PROVE Keeps(p)
  <2>1. UNCHANGED <<rows, born, holder, age, taken>> /\ StoreOK' /\ \A q \in Procs : Spares(q)
    BY <1>0, <1>5, AgeSpares DEF TitleWritten, store, history, StoreOK, LockTypeOK
  <2>2. LockTypeOK'
    BY <1>0, <1>5, <2>1 DEF TitleWritten, NoTitle, store, repl, shared, history, LockTypeOK,
       BeatStates, TitleStates, StoreOK, SessionOrNone, ReplSteps, Booting, Switching
  <2>3. \A q \in Procs \ {p} : Spares(q) /\ Untouched(q)
    BY <1>0, <1>5, <2>1 DEF TitleWritten, NoTitle, store, repl, shared, history, Untouched,
       LockTypeOK
  <2>4. Blank(p)'
    BY <1>0, <1>5, <2>1 DEF TitleWritten, NoTitle, store, repl, shared, history, Blank, Booting,
       LockTypeOK
  <2>5. Knows(p)'
    BY <1>0, <1>5, <2>1 DEF TitleWritten, NoTitle, store, repl, shared, history, Knows, Moved,
       Booting, Switching, LockTypeOK
  <2>6. Rows(p)'
    BY <1>0, <1>5, <2>1 DEF TitleWritten, NoTitle, store, repl, shared, history, Rows, Mine, Moved,
       Booting, Switching, LockTypeOK
  <2>7. Suspends(p)'
    BY <1>0, <1>5, <2>1 DEF TitleWritten, NoTitle, store, repl, shared, history, Suspends,
       LockTypeOK
  <2>8. TitleTells(p)'
    BY <1>0, <1>5, <2>1 DEF TitleWritten, NoTitle, store, repl, shared, history, TitleTells,
       LockTypeOK
  <2>9. ASSUME NEW c \in Beats PROVE BeatTells(p, c)'
    BY <1>0, <1>5, <2>1 DEF TitleWritten, NoTitle, store, repl, shared, history, BeatTells, Mine,
       Moved, LockTypeOK
  <2> QED
    BY <2>1, <2>2, <2>3, <2>4, <2>5, <2>6, <2>7, <2>8, <2>9 DEF Keeps, ProcInv, StoreOK
<1> QED
  BY <1>1, <1>2, <1>3, <1>4, <1>5 DEF Title

----------------------------------------------------------------------------
(* The invariant *)

\* A session is deleted, time passes, or nothing happens.
LEMMA OtherStep ==
  ASSUME LockInv,
         \/ \E s \in Sessions : SessionDelete(s) \/ Tick(s)
         \/ UNCHANGED lockVars
  PROVE  LockInv'
<1>1. LockTypeOK /\ StoreOK /\ \A q \in Procs : ProcInv(q)
  BY DEF LockInv, LockTypeOK, StoreOK
<1>2. UNCHANGED <<host, life, sess, next, step, locked, lost, beat, title, told, left>>
  BY DEF SessionDelete, Tick, lockVars, store, repl, shared, history
<1>3. StoreOK' /\ \A q \in Procs : Spares(q)
  <2>1. ASSUME NEW s \in Sessions, SessionDelete(s) PROVE StoreOK' /\ \A q \in Procs : Spares(q)
    BY <1>1, <2>1, RemoveSpares, LockAssumption DEF SessionDelete
  <2>2. ASSUME NEW s \in Sessions, Tick(s) PROVE StoreOK' /\ \A q \in Procs : Spares(q)
    <3>1. age \in [Sessions -> 0..MaxAge] /\ MaxAge \in Nat
      BY <1>1, LockAssumption DEF LockTypeOK, MaxAge
    <3>2. age[s] + 1 \in 0..MaxAge
      BY <2>2, <3>1 DEF Tick
    <3>3. age' \in [Sessions -> 0..MaxAge]
      BY <2>2, <3>1, <3>2 DEF Tick
    <3> QED
      BY <1>1, <2>2, <3>3, AgeSpares DEF Tick, history
  <2>3. CASE UNCHANGED lockVars
    BY <1>1, <2>3 DEF lockVars, store, history, StoreOK, LockedExist, Spares, MaxAge
  <2> QED
    BY <2>1, <2>2, <2>3
<1>4. LockTypeOK'
  BY <1>1, <1>2, <1>3 DEF LockTypeOK, StoreOK, SessionOrNone, ReplSteps, Booting, Switching
<1>5. \A q \in Procs : ProcInv(q)'
  BY <1>1, <1>2, <1>3, OthersKeep DEF Untouched
<1> QED
  BY <1>3, <1>4, <1>5 DEF LockInv, StoreOK

\* Every step keeps the invariant.
LEMMA LockKept == LockInv /\ [LockNext]_lockVars => LockInv'
<1> SUFFICES ASSUME LockInv, [LockNext]_lockVars PROVE LockInv'
  OBVIOUS
<1>1. ASSUME NEW p \in Procs, Keeps(p) PROVE LockInv'
  <2>1. LockTypeOK /\ \A q \in Procs : ProcInv(q)
    BY DEF LockInv
  <2>2. ASSUME NEW q \in Procs \ {p} PROVE ProcInv(q)'
    BY <1>1, <2>1, <2>2, OthersKeep DEF Keeps
  <2> QED
    BY <1>1, <2>2 DEF LockInv, Keeps
<1>2. ASSUME NEW p \in Procs,
             Start(p) \/ Ends(p) \/ Heartbeat(p) \/ Switch(p) \/ Title(p) \/ Write(p) \/ Written(p)
      PROVE  LockInv'
  BY <1>1, <1>2, StartStep, EndStep, HeartStep, SwitchStep, TitleStep, WriteStep
<1>3. CASE (\E s \in Sessions : SessionDelete(s) \/ Tick(s)) \/ UNCHANGED lockVars
  BY <1>3, OtherStep
<1> QED
  BY <1>2, <1>3, LockAssumption DEF LockNext

\* It holds at first.
LEMMA LockBegins == LockInit => LockInv
<1> SUFFICES ASSUME LockInit PROVE LockInv
  OBVIOUS
<1>1. LockTypeOK
  BY LockAssumption DEF LockInit, LockTypeOK, NoTitle, NoBeat, TitleStates, BeatStates,
                        SessionOrNone, ReplSteps, Booting, MaxAge
<1>2. LockedExist
  BY DEF LockInit, LockedExist
<1>3. ASSUME NEW p \in Procs PROVE ProcInv(p)
  BY DEF LockInit, ProcInv, Blank, Knows, Rows, Suspends, TitleTells, BeatTells, NoTitle, NoBeat,
         Booting, Switching
<1> QED
  BY <1>1, <1>2, <1>3 DEF LockInv

\* What the store and every process know of each other stays true.
THEOREM LockInvariant == LockSpec => []LockInv
BY LockBegins, LockKept, PTL DEF LockSpec

\* Rows, ages, names and places have their types, for any processes and clocks.
THEOREM LockTypes == LockSpec => []LockTypeOK
<1>1. LockInv => LockTypeOK
  BY DEF LockInv
<1> QED
  BY <1>1, LockInvariant, PTL

\* The session a process names as its own is the one it works on or moves to,
\* the row is its own unless somebody took it, and its writes are only
\* suspended when something was taken: for any processes, machines and clocks
\* (heartbeatTick, startNewSession, forkCurrentSession, AcquireSessionLock).
THEOREM BeliefsStand == LockSpec => []LockStanding
<1>1. LockInv => LockStanding
  <2> SUFFICES ASSUME LockInv, NEW p \in Procs, Settled(p)
               PROVE  /\ locked[p] = IF step[p] \in Moved THEN next[p] ELSE sess[p]
                      /\ holder[locked[p]] = p \/ locked[p] \in taken[p]
                      /\ lost[p] => taken[p] # {}
    BY Zenon DEF LockStanding, LockInv, Moved
  <2>1. step[p] \notin Booting \cup {"exited"}
    BY DEF Settled
  <2>2. Knows(p) /\ Rows(p) /\ Suspends(p)
    BY Unfold
  <2> QED
    BY <2>1, <2>2 DEF Knows, Rows, Mine, Suspends
<1> QED
  BY <1>1, LockInvariant, PTL

\* Any step of p.
Acts(p) == Start(p) \/ Ends(p) \/ Heartbeat(p) \/ Switch(p) \/ Title(p) \/ Write(p) \/ Written(p)

\* The memory of p changes by its own steps.
LEMMA ActsAlone ==
  ASSUME LockInv, LockNext, NEW p \in Procs
  PROVE  Acts(p) \/ Untouched(p)
<1>1. ASSUME NEW r \in Procs, Acts(r), r # p PROVE Untouched(p)
  <2>1. Keeps(r)
    BY <1>1, StartStep, EndStep, HeartStep, SwitchStep, TitleStep, WriteStep DEF Acts
  <2> QED
    BY <1>1, <2>1 DEF Keeps
<1>2. ASSUME NEW s \in Sessions, SessionDelete(s) \/ Tick(s) PROVE Untouched(p)
  BY <1>2 DEF SessionDelete, Tick, repl, shared, history, Untouched
<1> QED
  BY <1>1, <1>2, LockAssumption DEF LockNext, Acts

\* Only these steps begin a write of the REPL goroutine of p.
LEMMA Begun ==
  ASSUME LockInv, LockNext, NEW p \in Procs, Begins(p)
  PROVE  BootLock(p) \/ Write(p) \/ NewSave(p) \/ NewDone(p)
<1>1. LockTypeOK
  BY DEF LockInv
<1>2. Acts(p)
  BY ActsAlone DEF Begins, Untouched
<1>3. step'[p] # step[p]
  BY DEF Begins
<1>4. ASSUME NEW l \in {"off", "made", "rest", "exited", "created", "owned", "saved", "named",
                        "released", "cleared"}, Goto(p, l)
      PROVE  FALSE
  BY <1>1, <1>4 DEF Goto, LockTypeOK, Begins
<1>5. CASE Start(p)
  BY <1>4, <1>5 DEF Start, Resolve, BootCreate, BootFails, Forget
<1>6. CASE Ends(p)
  BY <1>3, <1>4, <1>6 DEF Ends, Exit, Kill, Forget, Stop, Resume, Reuse, repl
<1>7. CASE Heartbeat(p) \/ Title(p)
  BY <1>3, <1>7 DEF Heartbeat, BeatLoad, BeatRefresh, BeatAgain, BeatAlarm, Title, TitleSpawn, TitleAsks,
                    TitleChecks,
                    TitleWrites, TitleWritten, repl
<1>8. CASE Switch(p)
  BY <1>4, <1>8 DEF Switch, NewCreate, NewLock, NewFails, NewSaved, NewName, NewRelease, NewClear, Advance
<1>9. CASE Written(p)
  BY <1>4, <1>9 DEF Written
<1> QED
  BY <1>2, <1>5, <1>6, <1>7, <1>8, <1>9 DEF Acts

\* Only this step begins the write of a title.
LEMMA TitleBegun ==
  ASSUME LockInv, LockNext, NEW p \in Procs, title[p].at = "checked", title'[p].at = "writing"
  PROVE  TitleWrites(p)
<1>1. LockTypeOK
  BY DEF LockInv
<1>2. Acts(p)
  BY ActsAlone DEF Untouched
<1>3. title'[p] # title[p]
  BY Zenon
<1>4. CASE Start(p) \/ Ends(p)
  <2>1. title'[p] = NoTitle \/ title'[p] = title[p]
    BY <1>1, <1>4 DEF Start, Resolve, BootCreate, BootLock, BootFails, Ends, Exit, Kill, Forget, Stop, Resume,
                      Reuse, LockTypeOK
  <2> QED
    BY <1>3, <2>1 DEF NoTitle
<1>5. CASE Heartbeat(p) \/ Write(p) \/ Written(p)
  BY <1>3, <1>5 DEF Heartbeat, BeatLoad, BeatRefresh, BeatAgain, BeatAlarm, Write, Written
<1>6. CASE Switch(p)
  BY <1>3, <1>6 DEF Switch, NewCreate, NewLock, NewFails, NewSave, NewSaved, NewName, NewRelease, NewClear,
                    NewDone
<1>7. CASE TitleSpawn(p) \/ TitleAsks(p) \/ TitleChecks(p) \/ TitleWritten(p)
  BY <1>7 DEF TitleSpawn, TitleAsks, TitleChecks, TitleWritten
<1> QED
  BY <1>2, <1>4, <1>5, <1>6, <1>7 DEF Acts, Title

\* A process that was told of a loss, or that switched away from a session,
\* begins no write to it on any goroutine, however the refreshes, the switch
\* and the title interleave (onLockLost, lockState, holdsSession).
THEOREM ToldStaysSilent == LockSpec => ToldMeansSilent
<1> DEFINE Silent ==
      \A p \in Procs :
        /\ Begins(p) => sess'[p] \notin told[p] \cup left[p]
        /\ title[p].at = "checked" /\ title'[p].at = "writing" =>
             title[p].id \notin left[p] /\ ~title[p].ahead
<1>1. LockInv /\ [LockNext]_lockVars => [Silent]_lockVars
  <2> SUFFICES ASSUME LockInv, LockNext, NEW p \in Procs
               PROVE  /\ Begins(p) => sess'[p] \notin told[p] \cup left[p]
                      /\ title[p].at = "checked" /\ title'[p].at = "writing" =>
                           title[p].id \notin left[p] /\ ~title[p].ahead
    OBVIOUS
  <2>1. /\ LockTypeOK /\ Blank(p) /\ Knows(p) /\ Suspends(p) /\ TitleTells(p)
    BY Unfold
  <2>2. ASSUME Begins(p) PROVE sess'[p] \notin told[p] \cup left[p]
    <3>1. BootLock(p) \/ Write(p) \/ NewSave(p) \/ NewDone(p)
      BY <2>2, Begun
    <3>2. CASE BootLock(p)
      BY <2>1, <3>2 DEF BootLock, Active, Blank, Booting
    <3>3. CASE Write(p)
      BY <2>1, <3>3 DEF Write, Active, Suspends, Knows, Booting
    <3>4. CASE NewSave(p)
      BY <2>1, <2>2, <3>4 DEF Begins, NewSave, Advance, Goto, Active, Suspends, Knows, Booting, LockTypeOK
    <3>5. CASE NewDone(p)
      <4>1. step[p] = "cleared" /\ ~lost[p] /\ sess'[p] = next[p]
        BY <2>1, <2>2, <3>5 DEF Begins, NewDone, Advance, Goto, Active, LockTypeOK
      <4> QED
        BY <2>1, <4>1 DEF Suspends, Knows, Switching
    <3> QED
      BY <3>1, <3>2, <3>3, <3>4, <3>5
  <2>3. ASSUME title[p].at = "checked", title'[p].at = "writing"
        PROVE  title[p].id \notin left[p] /\ ~title[p].ahead
    <3>1. TitleWrites(p)
      BY <2>3, TitleBegun
    <3>2. title[p].id = locked[p]
      BY <2>1, <2>3, <3>1 DEF TitleWrites, Names, NoTitle, LockTypeOK
    <3>3. step[p] \notin Booting
      BY <2>1, <2>3 DEF Blank
    <3>4. locked[p] \notin left[p]
      BY <2>1, <3>3 DEF Knows, Moved, Booting, Switching, LockTypeOK, ReplSteps
    <3> QED
      BY <2>1, <2>3, <3>2, <3>4 DEF TitleTells
  <2> QED
    BY <2>2, <2>3
<1> QED
  BY <1>1, LockInvariant, PTL DEF LockSpec, ToldMeansSilent
----------------------------------------------------------------------------
(* The manager and the lock side by side *)

\* What keeps the types of both, whichever of them runs.
SessionsInv == BotInv /\ LockInv

LEMMA SessionsStep == SessionsInv /\ [SessionsNext]_sessionsVars => SessionsInv'
<1> SUFFICES ASSUME SessionsInv, [SessionsNext]_sessionsVars PROVE SessionsInv'
  OBVIOUS
<1>1. ASSUME [Next]_vars PROVE BotInv'
  BY <1>1, TypeStep, QuestionStep, TurnStep, DeleteStep, BracketStep, CloseStep DEF BotInv, SessionsInv
<1>2. ASSUME [LockNext]_lockVars PROVE LockInv'
  BY <1>2, LockKept DEF SessionsInv
<1>3. [Next]_vars /\ [LockNext]_lockVars
  BY DEF SessionsNext, sessionsVars
<1> QED
  BY <1>1, <1>2, <1>3 DEF SessionsInv

\* Whichever of the two runs, and for any requests, processes, machines and
\* clocks, channels, locks, rows and ages have their types (botManager,
\* SessionLock).
THEOREM SessionsTypes == SessionsSpec => []SessionsTypeOK
<1>1. SessionsInit => SessionsInv
  BY InitBot, LockBegins DEF SessionsInit, SessionsInv
<1>2. SessionsInv => SessionsTypeOK
  BY DEF SessionsInv, BotInv, LockInv, SessionsTypeOK
<1> QED
  BY <1>1, <1>2, SessionsStep, PTL DEF SessionsSpec
=============================================================================
