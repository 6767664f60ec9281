------------------------- MODULE BotManagerProofs -------------------------
(***************************************************************************)
(* Proofs about BotManager, for any requests.  With or without the         *)
(* janitor, for any number of session objects: the types, the questions,   *)
(* the brackets around a turn's events, and a Close that waits.  Without   *)
(* the janitor one object stands for the session: one turn at a time,      *)
(* inside the session lock, on a conversation that is open.                *)
(***************************************************************************)
EXTENDS BotManager, FiniteSetTheorems, TLAPS

\* Where a turn is on its session.
On == {"started", "running", "persisted", "unlocked"}

\* Only a turn that has started asks; a question that was never asked has
\* nothing in its channel.
Questions ==
  \A s \in Sends : /\ asking[s] = "none" => ~pending[s] /\ box[s] = "empty"
                   /\ pending[s] => box[s] = "empty"
                   /\ asking[s] # "none" => pc[s] \in {"running", "persisted", "unlocked", "ended", "done"}

\* A turn stands on the object its request holds, and on no other.
TurnHeld ==
  \A s \in Sends :
    /\ pc[s] \notin {"idle", "refused"} => at[s] \in Objects
    /\ \A o \in Objects : turn[o] = s <=> at[s] = o /\ pc[s] \in On

\* A delete that went on holds an object.
DeleteHeld == \A d \in Deletes : dpc[d] \notin {"idle", "refused"} => dat[d] \in Objects

\* The last event on a bus is the running turn's, or an end.
Brackets ==
  \A o \in Objects :
    IF turn[o] = Nobody \/ pc[turn[o]] = "started"
    THEN last[o][1] = "end"
    ELSE last[o][1] # "end" /\ last[o][2] = turn[o]

\* Close took the map when no request was out, and none came after it.
ClosePlace ==
  /\ closing # "no" => closed
  /\ closing \in {"swapped", "released"} /\ ~expired => TurnsOut = {}

BotInv == TypeOK /\ Questions /\ TurnHeld /\ DeleteHeld /\ Brackets /\ ClosePlace

\* load hands out an object.
LEMMA LoadGives ==
  ASSUME TypeOK, NEW o \in Objects, Load(o)
  PROVE  cur' \in 0..MaxObjects /\ made' \in Objects /\ o \in 0..MaxObjects
BY DEF Load, TypeOK, Objects

\* Every step keeps the types.
LEMMA TypeStep ==
  ASSUME BotInv, [Next]_vars
  PROVE  TypeOK'
<1> USE DEF mgr, objs, send, ask, del, TypeOK, BotInv, Objects, SendPCs, DelPCs
<1>1. ASSUME NEW s \in Sends, SendLoad(s) PROVE TypeOK'
  <2>1. CASE LoadFails /\ Step(s, "refused") /\ UNCHANGED <<cur, made, at>>
    BY <1>1, <2>1 DEF SendLoad, Step
  <2>2. ASSUME NEW o \in Objects, Load(o), at' = [at EXCEPT ![s] = o], Step(s, "loaded")
        PROVE  TypeOK'
    <3>1. cur' \in 0..MaxObjects /\ made' \in Objects /\ o \in 0..MaxObjects
      BY <2>2, LoadGives
    <3> HIDE DEF Objects
    <3>2. at' \in [Sends -> 0..MaxObjects] /\ pc' \in [Sends -> SendPCs]
      BY <2>2, <3>1 DEF Step
    <3> QED
      BY <1>1, <3>1, <3>2 DEF SendLoad
  <2> QED
    BY <1>1, <2>1, <2>2 DEF SendLoad
<1>2. ASSUME NEW s \in Sends, SendAdmit(s) PROVE TypeOK'
  BY <1>2 DEF SendAdmit, Step
<1>3. ASSUME NEW s \in Sends, SendBegin(s) PROVE TypeOK'
  <2>1. at[s] \in 0..MaxObjects
    OBVIOUS
  <2>2. conv' \in [Objects -> Sends \cup {Nobody}]
    BY <1>3 DEF SendBegin
  <2>3. turn' \in [Objects -> Sends \cup {Nobody}] /\ lock' \in {"free", "ours", "other"}
    BY <1>3 DEF SendBegin
  <2>4. runs' \in [Sends -> Sends \cup {Nobody}]
    <3>1. at[s] \in Objects
      BY <1>3 DEF SendBegin, BotInv, TurnHeld
    <3>2. runs' = runs \/ runs' = [runs EXCEPT ![s] = conv'[at[s]]]
      BY <1>3 DEF SendBegin
    <3>3. conv'[at[s]] \in Sends \cup {Nobody}
      BY <2>2, <3>1
    <3> QED
      BY <3>2, <3>3
  <2>5. pc' \in [Sends -> SendPCs]
    <3>1. pc' = [pc EXCEPT ![s] = "refused"] \/ pc' = [pc EXCEPT ![s] = "started"]
      BY <1>3 DEF SendBegin, Step
    <3> QED
      BY <3>1
  <2> QED
    BY <1>3, <2>2, <2>3, <2>4, <2>5 DEF SendBegin
<1>4. ASSUME NEW s \in Sends, TurnStart(s) PROVE TypeOK'
  BY <1>4 DEF TurnStart, Publish, Step
<1>5. ASSUME NEW s \in Sends, Persist(s) PROVE TypeOK'
  BY <1>5 DEF Persist, Cancelled, Unregister, Step
<1>6. ASSUME NEW s \in Sends, ReleaseLock(s) PROVE TypeOK'
  BY <1>6 DEF ReleaseLock, Step
<1>7. ASSUME NEW s \in Sends, TurnEnd(s) PROVE TypeOK'
  BY <1>7 DEF TurnEnd, Publish, Step
<1>8. ASSUME NEW s \in Sends, TurnDone(s) PROVE TypeOK'
  BY <1>8 DEF TurnDone, Step
<1>9. ASSUME NEW s \in Sends, Emit(s) PROVE TypeOK'
  BY <1>9 DEF Emit, AgentAlive, OnTurn, Publish, Cancelled
<1>10. ASSUME NEW s \in Sends, AskQuestion(s) PROVE TypeOK'
  <2>1. asking' \in [Sends -> {"none", "waiting", "answered", "cancelled", "refused"}]
    <3>1. asking' = [asking EXCEPT ![s] = "waiting"] \/ asking' = [asking EXCEPT ![s] = "refused"]
      BY <1>10 DEF AskQuestion
    <3> QED
      BY <3>1
  <2>2. pending' \in [Sends -> BOOLEAN]
    <3>1. pending' = pending \/ pending' = [pending EXCEPT ![s] = TRUE]
      BY <1>10 DEF AskQuestion
    <3> QED
      BY <3>1
  <2>3. last' \in [Objects -> {"start", "event", "end"} \X (Sends \cup {Nobody})]
    <3>1. last' = last \/ last' = [last EXCEPT ![at[s]] = <<"event", s>>]
      BY <1>10 DEF AskQuestion, Publish
    <3>2. <<"event", s>> \in {"start", "event", "end"} \X (Sends \cup {Nobody})
      OBVIOUS
    <3> QED
      BY <3>1, <3>2
  <2> QED
    BY <1>10, <2>1, <2>2, <2>3 DEF AskQuestion
<1>11. ASSUME NEW s \in Sends, AskReturns(s) PROVE TypeOK'
  BY <1>11 DEF AskReturns, CtxDone, Cancelled
<1>12. ASSUME NEW s \in Sends, CancelTurn(s) PROVE TypeOK'
  BY <1>12 DEF CancelTurn
<1>13. ASSUME NEW s \in Sends, Answer(s) PROVE TypeOK'
  BY <1>13 DEF Answer, Publish
<1>14. ASSUME NEW d \in Deletes, DeleteLoad(d) PROVE TypeOK'
  <2>1. CASE LoadFails /\ DStep(d, "refused") /\ UNCHANGED <<cur, made, dat>>
    BY <1>14, <2>1 DEF DeleteLoad, DStep
  <2>2. ASSUME NEW o \in Objects, Load(o), dat' = [dat EXCEPT ![d] = o], DStep(d, "loaded")
        PROVE  TypeOK'
    <3>1. cur' \in 0..MaxObjects /\ made' \in Objects /\ o \in 0..MaxObjects
      BY <2>2, LoadGives
    <3> HIDE DEF Objects
    <3>2. dat' \in [Deletes -> 0..MaxObjects] /\ dpc' \in [Deletes -> DelPCs]
      BY <2>2, <3>1 DEF DStep
    <3> QED
      BY <1>14, <3>1, <3>2 DEF DeleteLoad
  <2> QED
    BY <1>14, <2>1, <2>2 DEF DeleteLoad
<1>15. ASSUME NEW d \in Deletes, DeleteTake(d) PROVE TypeOK'
  <2>1. dat[d] \in Objects
    BY <1>15 DEF DeleteTake, BotInv, DeleteHeld
  <2>2. conv' \in [Objects -> Sends \cup {Nobody}]
    BY <1>15 DEF DeleteTake, TakeConv
  <2>3. dconv' \in [Deletes -> Sends \cup {Nobody}]
    <3>1. dconv' = dconv \/ dconv' = [dconv EXCEPT ![d] = conv[dat[d]]]
      BY <1>15 DEF DeleteTake
    <3> QED
      BY <2>1, <3>1
  <2>4. dpc' \in [Deletes -> DelPCs]
    <3>1. dpc' = [dpc EXCEPT ![d] = "refused"] \/ dpc' = [dpc EXCEPT ![d] = "taken"]
      BY <1>15 DEF DeleteTake, DStep
    <3> QED
      BY <3>1
  <2> QED
    BY <1>15, <2>2, <2>3, <2>4 DEF DeleteTake
<1>16. ASSUME NEW d \in Deletes, DeleteStored(d) PROVE TypeOK'
  BY <1>16 DEF DeleteStored, DStep
<1>17. ASSUME NEW d \in Deletes, DeleteUnmap(d) PROVE TypeOK'
  <2>1. cur' \in 0..MaxObjects
    BY <1>17, BotAssumption DEF DeleteUnmap
  <2>2. dpc' \in [Deletes -> DelPCs]
    BY <1>17 DEF DeleteUnmap, DStep
  <2> QED
    BY <1>17, <2>1, <2>2 DEF DeleteUnmap
<1>18. ASSUME NEW d \in Deletes, DeleteRelease(d) PROVE TypeOK'
  BY <1>18 DEF DeleteRelease, CloseConv, DStep
<1>19. ASSUME Touch PROVE TypeOK'
  BY <1>19 DEF Touch, Load
<1>20. ASSUME EvictUnmap PROVE TypeOK'
  BY <1>20 DEF EvictUnmap, Busy
<1>21. ASSUME EvictRelease PROVE TypeOK'
  <2>1. victim' \in 0..MaxObjects /\ victim \in Objects
    BY <1>21, BotAssumption DEF EvictRelease
  <2>2. conv' \in [Objects -> Sends \cup {Nobody}]
    BY <1>21 DEF EvictRelease
  <2>3. shutConvs' \in SUBSET Sends
    BY <1>21, <2>1 DEF EvictRelease, CloseConv
  <2> QED
    BY <1>21, <2>1, <2>2, <2>3 DEF EvictRelease
<1>22. ASSUME OtherProcess PROVE TypeOK'
  BY <1>22 DEF OtherProcess
<1>23. ASSUME CloseBegin PROVE TypeOK'
  BY <1>23 DEF CloseBegin
<1>24. ASSUME CloseCancels PROVE TypeOK'
  BY <1>24 DEF CloseCancels
<1>25. ASSUME CloseSwap PROVE TypeOK'
  BY <1>25 DEF CloseSwap, TurnsDone
<1>26. ASSUME CloseRelease PROVE TypeOK'
  BY <1>26 DEF CloseRelease
<1>27. CASE UNCHANGED vars
  BY <1>27 DEF vars
<1> QED
  BY <1>1, <1>2, <1>3, <1>4, <1>5, <1>6, <1>7, <1>8, <1>9, <1>10, <1>11, <1>12, <1>13, <1>14, <1>15,
     <1>16, <1>17, <1>18, <1>19, <1>20, <1>21, <1>22, <1>23, <1>24, <1>25, <1>26, <1>27 DEF Next, Turn, Close

\* Every step keeps a question and its channel apart from the next.
LEMMA QuestionStep ==
  ASSUME BotInv, [Next]_vars
  PROVE  Questions'
<1> USE DEF mgr, objs, send, ask, del, TypeOK, BotInv, Questions
<1>1. ASSUME NEW s \in Sends, SendLoad(s) PROVE Questions'
  BY <1>1 DEF SendLoad, Load, Step, LoadFails
<1>2. ASSUME NEW s \in Sends, SendAdmit(s) PROVE Questions'
  BY <1>2 DEF SendAdmit, Step
<1>3. ASSUME NEW s \in Sends, SendBegin(s) PROVE Questions'
  BY <1>3 DEF SendBegin, Busy, Step
<1>4. ASSUME NEW s \in Sends, TurnStart(s) PROVE Questions'
  BY <1>4 DEF TurnStart, Publish, Step
<1>5. ASSUME NEW s \in Sends, Persist(s) PROVE Questions'
  BY <1>5 DEF Persist, Cancelled, Unregister, Step
<1>6. ASSUME NEW s \in Sends, ReleaseLock(s) PROVE Questions'
  BY <1>6 DEF ReleaseLock, Step
<1>7. ASSUME NEW s \in Sends, TurnEnd(s) PROVE Questions'
  BY <1>7 DEF TurnEnd, Publish, Step
<1>8. ASSUME NEW s \in Sends, TurnDone(s) PROVE Questions'
  BY <1>8 DEF TurnDone, Step
<1>9. ASSUME NEW s \in Sends, AskQuestion(s) PROVE Questions'
  BY <1>9 DEF AskQuestion, AgentAlive, OnTurn, Publish, Cancelled
<1>10. ASSUME NEW s \in Sends, AskReturns(s) PROVE Questions'
  BY <1>10 DEF AskReturns, CtxDone, Cancelled
<1>11. ASSUME NEW s \in Sends, Answer(s) PROVE Questions'
  BY <1>11 DEF Answer, Publish
<1>12. UNCHANGED <<ask, pc>> => Questions'
  BY DEF ask
<1>13. ASSUME NEW s \in Sends,
          Emit(s) \/ CancelTurn(s)
      PROVE  UNCHANGED <<ask, pc>>
  BY <1>13 DEF mgr, objs, send, ask, del, AgentAlive, CancelTurn, Cancelled, Emit, OnTurn, Publish
<1>14. ASSUME NEW d \in Deletes,
          DeleteLoad(d) \/ DeleteTake(d) \/ DeleteStored(d) \/ DeleteUnmap(d) \/ DeleteRelease(d)
      PROVE  UNCHANGED <<ask, pc>>
  BY <1>14 DEF mgr, objs, send, ask, del, Busy, CloseConv, DStep, DeleteLoad, DeleteRelease,
               DeleteStored, DeleteTake, DeleteUnmap, Load, LoadFails, TakeConv
<1>15. ASSUME Touch \/ EvictUnmap \/ EvictRelease \/ OtherProcess \/ CloseBegin \/ CloseCancels \/
          CloseSwap \/ CloseRelease \/ UNCHANGED vars
      PROVE  UNCHANGED <<ask, pc>>
  BY <1>15 DEF mgr, objs, send, ask, del, Busy, CloseBegin, CloseCancels, CloseConv, CloseRelease,
               CloseSwap, EvictRelease, EvictUnmap, Load, OtherProcess, Touch, TurnsDone, vars
<1> QED
  BY <1>1, <1>2, <1>3, <1>4, <1>5, <1>6, <1>7, <1>8, <1>9, <1>10, <1>11, <1>12, <1>13, <1>14,
     <1>15 DEF Next, Turn, Close

\* Every step keeps turns on the objects their requests hold.
LEMMA TurnStep ==
  ASSUME BotInv, [Next]_vars
  PROVE  TurnHeld'
<1> USE DEF mgr, objs, send, ask, del, TypeOK, BotInv, TurnHeld, Objects, On
<1>1. ASSUME NEW s \in Sends, SendLoad(s) PROVE TurnHeld'
  <2>1. CASE Step(s, "refused") /\ UNCHANGED at
    BY <1>1, <2>1 DEF SendLoad, Step
  <2>2. ASSUME NEW o \in Objects, at' = [at EXCEPT ![s] = o], Step(s, "loaded")
        PROVE  TurnHeld'
    BY <1>1, <2>2 DEF SendLoad, Step
  <2> QED
    BY <1>1, <2>1, <2>2 DEF SendLoad
<1>2. ASSUME NEW s \in Sends, SendAdmit(s) PROVE TurnHeld'
  BY <1>2 DEF SendAdmit, Step
<1>3. ASSUME NEW s \in Sends, SendBegin(s) PROVE TurnHeld'
  <2>1. CASE Step(s, "refused") /\ UNCHANGED turn
    BY <1>3, <2>1 DEF SendBegin, Step
  <2>2. CASE turn' = [turn EXCEPT ![at[s]] = s] /\ Step(s, "started") /\ turn[at[s]] = Nobody
    BY <1>3, <2>2, BotAssumption DEF SendBegin, Step
  <2> QED
    BY <1>3, <2>1, <2>2 DEF SendBegin, Busy
<1>4. ASSUME NEW s \in Sends, TurnStart(s) PROVE TurnHeld'
  BY <1>4 DEF TurnStart, Publish, Step
<1>5. ASSUME NEW s \in Sends, Persist(s) PROVE TurnHeld'
  BY <1>5 DEF Persist, Cancelled, Unregister, Step
<1>6. ASSUME NEW s \in Sends, ReleaseLock(s) PROVE TurnHeld'
  BY <1>6 DEF ReleaseLock, Step
<1>7. ASSUME NEW s \in Sends, TurnEnd(s) PROVE TurnHeld'
  <2>1. at[s] \in Objects /\ turn[at[s]] = s /\ turn' = [turn EXCEPT ![at[s]] = Nobody] /\ at' = at
    BY <1>7 DEF TurnEnd
  <2>2. pc' = [pc EXCEPT ![s] = "ended"]
    BY <1>7 DEF TurnEnd, Step
  <2> QED
    BY <2>1, <2>2, BotAssumption
<1>8. ASSUME NEW s \in Sends, TurnDone(s) PROVE TurnHeld'
  BY <1>8 DEF TurnDone, Step
<1>9. UNCHANGED <<pc, at, turn>> => TurnHeld'
  OBVIOUS
<1>10. ASSUME NEW s \in Sends,
          Emit(s) \/ AskQuestion(s) \/ AskReturns(s) \/ CancelTurn(s) \/ Answer(s)
      PROVE  UNCHANGED <<pc, at, turn>>
  BY <1>10 DEF mgr, objs, send, ask, del, AgentAlive, Answer, AskQuestion, AskReturns, CancelTurn,
               Cancelled, CtxDone, Emit, OnTurn, Publish
<1>11. ASSUME NEW d \in Deletes,
          DeleteLoad(d) \/ DeleteTake(d) \/ DeleteStored(d) \/ DeleteUnmap(d) \/ DeleteRelease(d)
      PROVE  UNCHANGED <<pc, at, turn>>
  BY <1>11 DEF mgr, objs, send, ask, del, Busy, CloseConv, DStep, DeleteLoad, DeleteRelease,
               DeleteStored, DeleteTake, DeleteUnmap, Load, LoadFails, TakeConv
<1>12. ASSUME Touch \/ EvictUnmap \/ EvictRelease \/ OtherProcess \/ CloseBegin \/ CloseCancels \/
          CloseSwap \/ CloseRelease \/ UNCHANGED vars
      PROVE  UNCHANGED <<pc, at, turn>>
  BY <1>12 DEF mgr, objs, send, ask, del, Busy, CloseBegin, CloseCancels, CloseConv, CloseRelease,
               CloseSwap, EvictRelease, EvictUnmap, Load, OtherProcess, Touch, TurnsDone, vars
<1> QED
  BY <1>1, <1>2, <1>3, <1>4, <1>5, <1>6, <1>7, <1>8, <1>9, <1>10, <1>11, <1>12 DEF Next, Turn, Close

\* Every step keeps a delete's hold on its object.
LEMMA DeleteStep ==
  ASSUME BotInv, [Next]_vars
  PROVE  DeleteHeld'
<1> USE DEF mgr, objs, send, ask, del, TypeOK, BotInv, DeleteHeld
<1>1. ASSUME NEW d \in Deletes, DeleteLoad(d) PROVE DeleteHeld'
  BY <1>1 DEF DeleteLoad, Load, DStep, LoadFails
<1>2. ASSUME NEW d \in Deletes, DeleteTake(d) PROVE DeleteHeld'
  BY <1>2 DEF DeleteTake, Busy, DStep, TakeConv
<1>3. ASSUME NEW d \in Deletes, DeleteStored(d) PROVE DeleteHeld'
  BY <1>3 DEF DeleteStored, DStep
<1>4. ASSUME NEW d \in Deletes, DeleteUnmap(d) PROVE DeleteHeld'
  BY <1>4 DEF DeleteUnmap, DStep
<1>5. ASSUME NEW d \in Deletes, DeleteRelease(d) PROVE DeleteHeld'
  BY <1>5 DEF DeleteRelease, CloseConv, DStep
<1>6. UNCHANGED <<dpc, dat>> => DeleteHeld'
  OBVIOUS
<1>7. ASSUME NEW s \in Sends,
          SendLoad(s) \/ SendAdmit(s) \/ SendBegin(s) \/ TurnStart(s) \/ Persist(s) \/
          ReleaseLock(s) \/ TurnEnd(s) \/ TurnDone(s) \/ Emit(s) \/ AskQuestion(s) \/ AskReturns(s) \/
          CancelTurn(s) \/ Answer(s)
      PROVE  UNCHANGED <<dpc, dat>>
  BY <1>7 DEF mgr, objs, send, ask, del, AgentAlive, Answer, AskQuestion, AskReturns, Busy,
     CancelTurn,
              Cancelled, CtxDone, Emit, Load, LoadFails, OnTurn, Persist, Publish, ReleaseLock,
              SendAdmit, SendBegin, SendLoad, Step, TurnDone, TurnEnd, TurnStart, Unregister
<1>8. ASSUME Touch \/ EvictUnmap \/ EvictRelease \/ OtherProcess \/ CloseBegin \/ CloseCancels \/
          CloseSwap \/ CloseRelease \/ UNCHANGED vars
      PROVE  UNCHANGED <<dpc, dat>>
  BY <1>8 DEF mgr, objs, send, ask, del, Busy, CloseBegin, CloseCancels, CloseConv, CloseRelease,
              CloseSwap, EvictRelease, EvictUnmap, Load, OtherProcess, Touch, TurnsDone, vars
<1> QED
  BY <1>1, <1>2, <1>3, <1>4, <1>5, <1>6, <1>7, <1>8 DEF Next, Turn, Close

\* Where a turn that is on its session stands.
LEMMA Holds ==
  ASSUME BotInv, NEW s \in Sends, pc[s] \in On
  PROVE  at[s] \in Objects /\ turn[at[s]] = s
BY DEF BotInv, TurnHeld, On

\* An event of the turn that is on the object.
LEMMA SpeaksInTurn ==
  ASSUME BotInv, NEW s \in Sends, NEW o \in Objects, turn[o] = s, pc[s] # "started",
         Publish(o, "event", s), UNCHANGED <<turn, pc>>
  PROVE  Brackets'
<1>1. last \in [Objects -> {"start", "event", "end"} \X (Sends \cup {Nobody})]
  BY DEF BotInv, TypeOK
<1>2. last' = [last EXCEPT ![o] = <<"event", s>>]
  BY DEF Publish
<1>3. last'[o][1] = "event" /\ last'[o][2] = s
  BY <1>1, <1>2
<1>4. \A p \in Objects \ {o} : last'[p] = last[p]
  BY <1>1, <1>2
<1> QED
  BY <1>3, <1>4, BotAssumption DEF BotInv, Brackets

\* Every step leaves the running turn's event, or an end, last on a bus.
LEMMA BracketStep ==
  ASSUME BotInv, [Next]_vars
  PROVE  Brackets'
<1> USE DEF mgr, objs, send, ask, del, TypeOK, BotInv, TurnHeld, Brackets, Objects, On
<1>1. ASSUME NEW s \in Sends, SendLoad(s) PROVE Brackets'
  BY <1>1 DEF SendLoad, Load, Step, LoadFails
<1>2. ASSUME NEW s \in Sends, SendAdmit(s) PROVE Brackets'
  BY <1>2 DEF SendAdmit, Step
<1>3. ASSUME NEW s \in Sends, SendBegin(s) PROVE Brackets'
  <2>1. CASE Step(s, "refused") /\ UNCHANGED turn
    BY <1>3, <2>1 DEF SendBegin, Step
  <2>2. CASE turn' = [turn EXCEPT ![at[s]] = s] /\ Step(s, "started") /\ turn[at[s]] = Nobody
    <3>1. at[s] \in Objects /\ last' = last /\ pc[s] = "admitted"
      BY <1>3 DEF SendBegin
    <3>2. turn'[at[s]] = s /\ pc'[s] = "started" /\ last[at[s]][1] = "end"
      BY <2>2, <3>1 DEF Step
    <3>3. ASSUME NEW o \in Objects, o # at[s]
          PROVE  /\ turn'[o] = turn[o] /\ turn[o] # s
                 /\ turn[o] # Nobody => pc'[turn[o]] = pc[turn[o]]
      BY <2>2, <3>1, <3>3 DEF Step
    <3> QED
      BY <3>1, <3>2, <3>3
  <2> QED
    BY <1>3, <2>1, <2>2 DEF SendBegin, Busy
<1>4. ASSUME NEW s \in Sends, TurnStart(s) PROVE Brackets'
  <2>0. pc[s] = "started" /\ turn' = turn /\ pc' = [pc EXCEPT ![s] = "running"]
    BY <1>4 DEF TurnStart, Step
  <2>1. at[s] \in Objects /\ turn[at[s]] = s /\ turn' = turn /\ pc' = [pc EXCEPT ![s] = "running"]
    BY <2>0, Holds
  <2>2. last' = [last EXCEPT ![at[s]] = <<"start", s>>]
    BY <1>4 DEF TurnStart, Publish
  <2>3. last'[at[s]][1] = "start" /\ last'[at[s]][2] = s /\ pc'[s] = "running" /\ s # Nobody
    BY <2>1, <2>2, BotAssumption
  <2>4. ASSUME NEW o \in Objects, o # at[s]
        PROVE  /\ turn[o] # s /\ last'[o] = last[o]
               /\ turn[o] # Nobody => pc'[turn[o]] = pc[turn[o]]
    BY <2>1, <2>2, <2>4
  <2> QED
    BY <2>1, <2>3, <2>4
<1>5. ASSUME NEW s \in Sends, Persist(s) PROVE Brackets'
  BY <1>5 DEF Persist, Cancelled, Unregister, Step
<1>6. ASSUME NEW s \in Sends, ReleaseLock(s) PROVE Brackets'
  BY <1>6 DEF ReleaseLock, Step
<1>7. ASSUME NEW s \in Sends, TurnEnd(s) PROVE Brackets'
  BY <1>7 DEF TurnEnd, Publish, Step
<1>8. ASSUME NEW s \in Sends, TurnDone(s) PROVE Brackets'
  BY <1>8 DEF TurnDone, Step
<1>9. ASSUME NEW s \in Sends, Emit(s) PROVE Brackets'
  <2>1. at[s] \in Objects /\ turn[at[s]] = s /\ pc[s] # "started"
    BY <1>9 DEF Emit, AgentAlive, OnTurn
  <2>2. Publish(at[s], "event", s) /\ UNCHANGED <<turn, pc>>
    BY <1>9 DEF Emit
  <2> QED
    BY <2>1, <2>2, SpeaksInTurn
<1>10. ASSUME NEW s \in Sends, AskQuestion(s) PROVE Brackets'
  <2>1. CASE UNCHANGED last
    BY <1>10, <2>1 DEF AskQuestion
  <2>2. CASE OnTurn(s) /\ Publish(at[s], "event", s)
    <3>1. at[s] \in Objects /\ turn[at[s]] = s /\ pc[s] # "started"
      BY <1>10, <2>2 DEF AskQuestion, AgentAlive, OnTurn
    <3>2. UNCHANGED <<turn, pc>>
      BY <1>10 DEF AskQuestion
    <3> QED
      BY <2>2, <3>1, <3>2, SpeaksInTurn
  <2> QED
    BY <1>10, <2>1, <2>2 DEF AskQuestion
<1>11. ASSUME NEW s \in Sends, Answer(s) PROVE Brackets'
  <2>1. cur \in Objects /\ turn[cur] = s /\ Publish(cur, "event", s) /\ UNCHANGED <<turn, pc>>
    BY <1>11 DEF Answer
  <2>2. pc[s] # "started"
    BY <1>11 DEF Answer, Questions
  <2> QED
    BY <2>1, <2>2, SpeaksInTurn
<1>12. UNCHANGED <<turn, pc, last>> => Brackets'
  OBVIOUS
<1>13. ASSUME NEW s \in Sends,
          AskReturns(s) \/ CancelTurn(s)
      PROVE  UNCHANGED <<turn, pc, last>>
  BY <1>13 DEF mgr, objs, send, ask, del, AskReturns, CancelTurn, Cancelled, CtxDone
<1>14. ASSUME NEW d \in Deletes,
          DeleteLoad(d) \/ DeleteTake(d) \/ DeleteStored(d) \/ DeleteUnmap(d) \/ DeleteRelease(d)
      PROVE  UNCHANGED <<turn, pc, last>>
  BY <1>14 DEF mgr, objs, send, ask, del, Busy, CloseConv, DStep, DeleteLoad, DeleteRelease,
               DeleteStored, DeleteTake, DeleteUnmap, Load, LoadFails, TakeConv
<1>15. ASSUME Touch \/ EvictUnmap \/ EvictRelease \/ OtherProcess \/ CloseBegin \/ CloseCancels \/
          CloseSwap \/ CloseRelease \/ UNCHANGED vars
      PROVE  UNCHANGED <<turn, pc, last>>
  BY <1>15 DEF mgr, objs, send, ask, del, Busy, CloseBegin, CloseCancels, CloseConv, CloseRelease,
               CloseSwap, EvictRelease, EvictUnmap, Load, OtherProcess, Touch, TurnsDone, vars
<1> QED
  BY <1>1, <1>2, <1>3, <1>4, <1>5, <1>6, <1>7, <1>8, <1>9, <1>10, <1>11, <1>12, <1>13, <1>14,
     <1>15 DEF Next, Turn, Close

\* Every step keeps ClosePlace.
LEMMA CloseStep ==
  ASSUME BotInv, [Next]_vars
  PROVE  ClosePlace'
<1> USE DEF mgr, objs, send, ask, del, TypeOK, BotInv, ClosePlace, TurnsOut
<1>1. ASSUME NEW s \in Sends, SendLoad(s) PROVE ClosePlace'
  BY <1>1 DEF SendLoad, Load, Step, LoadFails
<1>2. ASSUME NEW s \in Sends, SendAdmit(s) PROVE ClosePlace'
  BY <1>2 DEF SendAdmit, Step
<1>3. ASSUME NEW s \in Sends, SendBegin(s) PROVE ClosePlace'
  BY <1>3 DEF SendBegin, Busy, Step
<1>4. ASSUME NEW s \in Sends, TurnStart(s) PROVE ClosePlace'
  BY <1>4 DEF TurnStart, Publish, Step
<1>5. ASSUME NEW s \in Sends, Persist(s) PROVE ClosePlace'
  BY <1>5 DEF Persist, Cancelled, Unregister, Step
<1>6. ASSUME NEW s \in Sends, ReleaseLock(s) PROVE ClosePlace'
  BY <1>6 DEF ReleaseLock, Step
<1>7. ASSUME NEW s \in Sends, TurnEnd(s) PROVE ClosePlace'
  BY <1>7 DEF TurnEnd, Publish, Step
<1>8. ASSUME NEW s \in Sends, TurnDone(s) PROVE ClosePlace'
  BY <1>8 DEF TurnDone, Step
<1>9. ASSUME CloseBegin PROVE ClosePlace'
  BY <1>9 DEF CloseBegin
<1>10. ASSUME CloseCancels PROVE ClosePlace'
  BY <1>10 DEF CloseCancels
<1>11. ASSUME CloseSwap PROVE ClosePlace'
  BY <1>11 DEF CloseSwap, TurnsDone
<1>12. ASSUME CloseRelease PROVE ClosePlace'
  BY <1>12 DEF CloseRelease
<1>13. UNCHANGED <<closed, closing, expired, pc>> => ClosePlace'
  OBVIOUS
<1>14. ASSUME NEW s \in Sends,
          Emit(s) \/ AskQuestion(s) \/ AskReturns(s) \/ CancelTurn(s) \/ Answer(s)
      PROVE  UNCHANGED <<closed, closing, expired, pc>>
  BY <1>14 DEF mgr, objs, send, ask, del, AgentAlive, Answer, AskQuestion, AskReturns, CancelTurn,
               Cancelled, CtxDone, Emit, OnTurn, Publish
<1>15. ASSUME NEW d \in Deletes,
          DeleteLoad(d) \/ DeleteTake(d) \/ DeleteStored(d) \/ DeleteUnmap(d) \/ DeleteRelease(d)
      PROVE  UNCHANGED <<closed, closing, expired, pc>>
  BY <1>15 DEF mgr, objs, send, ask, del, Busy, CloseConv, DStep, DeleteLoad, DeleteRelease,
               DeleteStored, DeleteTake, DeleteUnmap, Load, LoadFails, TakeConv
<1>16. ASSUME Touch \/ EvictUnmap \/ EvictRelease \/ OtherProcess \/ UNCHANGED vars
      PROVE  UNCHANGED <<closed, closing, expired, pc>>
  BY <1>16 DEF mgr, objs, send, ask, del, Busy, CloseConv, EvictRelease, EvictUnmap, Load,
               OtherProcess, Touch, vars
<1> QED
  BY <1>1, <1>2, <1>3, <1>4, <1>5, <1>6, <1>7, <1>8, <1>9, <1>10, <1>11, <1>12, <1>13, <1>14, <1>15,
     <1>16 DEF Next, Turn, Close

\* TurnsBracketed of one step.
BracketedStep ==
  \A o \in Objects : last'[o] # last[o] =>
    IF last'[o][1] = "start" THEN last[o][1] = "end"
    ELSE last[o][1] # "end" /\ last'[o][2] = last[o][2]

\* Every step that publishes does so between a turn's start and its end.
LEMMA EventStep ==
  ASSUME BotInv, [Next]_vars
  PROVE  BracketedStep
<1> USE DEF mgr, objs, send, ask, del, TypeOK, BotInv, TurnHeld, Brackets, Objects, On,
            BracketedStep
<1>1. ASSUME NEW s \in Sends, TurnStart(s) PROVE BracketedStep
  <2>1. pc[s] = "started" /\ Publish(at[s], "start", s)
    BY <1>1 DEF TurnStart
  <2>2. at[s] \in Objects /\ turn[at[s]] = s
    BY <2>1, Holds
  <2>3. last'[at[s]][1] = "start" /\ \A p \in Objects \ {at[s]} : last'[p] = last[p]
    BY <2>1, <2>2 DEF Publish
  <2> QED
    BY <2>1, <2>2, <2>3
<1>2. ASSUME NEW s \in Sends, Emit(s) PROVE BracketedStep
  <2>1. PICK o \in Objects : turn[o] = s /\ pc[s] # "started" /\ Publish(o, "event", s)
    BY <1>2 DEF Emit, AgentAlive, OnTurn
  <2>2. last'[o][1] = "event" /\ last'[o][2] = s /\ \A p \in Objects \ {o} : last'[p] = last[p]
    BY <2>1 DEF Publish
  <2> QED
    BY <2>1, <2>2, BotAssumption
<1>3. ASSUME NEW s \in Sends, AskQuestion(s) PROVE BracketedStep
  <2>1. CASE UNCHANGED last
    BY <2>1
  <2>2. CASE OnTurn(s) /\ Publish(at[s], "event", s)
    <3>1. at[s] \in Objects /\ turn[at[s]] = s /\ pc[s] # "started"
      BY <1>3, <2>2 DEF AskQuestion, AgentAlive, OnTurn
    <3>2. last'[at[s]][1] = "event" /\ last'[at[s]][2] = s /\ \A p \in Objects \ {at[s]} : last'[p] = last[p]
      BY <2>2, <3>1 DEF Publish
    <3> QED
      BY <3>1, <3>2, BotAssumption
  <2> QED
    BY <1>3, <2>1, <2>2 DEF AskQuestion
<1>4. ASSUME NEW s \in Sends, TurnEnd(s) PROVE BracketedStep
  <2>1. PICK o \in Objects : turn[o] = s /\ pc[s] # "started" /\ Publish(o, "end", s)
    BY <1>4 DEF TurnEnd
  <2>2. last'[o][1] = "end" /\ last'[o][2] = s /\ \A p \in Objects \ {o} : last'[p] = last[p]
    BY <2>1 DEF Publish
  <2> QED
    BY <2>1, <2>2, BotAssumption
<1>5. ASSUME NEW s \in Sends, Answer(s) PROVE BracketedStep
  <2>1. cur \in Objects /\ turn[cur] = s /\ Publish(cur, "event", s)
    BY <1>5 DEF Answer
  <2>2. pc[s] # "started"
    BY <1>5 DEF Answer, Questions
  <2>3. last'[cur][1] = "event" /\ last'[cur][2] = s /\ \A p \in Objects \ {cur} : last'[p] = last[p]
    BY <2>1 DEF Publish
  <2> QED
    BY <2>1, <2>2, <2>3, BotAssumption
<1>6. UNCHANGED <<last>> => BracketedStep
  OBVIOUS
<1>7. ASSUME NEW s \in Sends,
          SendLoad(s) \/ SendAdmit(s) \/ SendBegin(s) \/ Persist(s) \/ ReleaseLock(s) \/ TurnDone(s) \/
          AskReturns(s) \/ CancelTurn(s)
      PROVE  UNCHANGED <<last>>
  BY <1>7 DEF mgr, objs, send, ask, del, AskReturns, Busy, CancelTurn, Cancelled, CtxDone, Load,
              LoadFails, Persist, ReleaseLock, SendAdmit, SendBegin, SendLoad, Step, TurnDone,
              Unregister
<1>8. ASSUME NEW d \in Deletes,
          DeleteLoad(d) \/ DeleteTake(d) \/ DeleteStored(d) \/ DeleteUnmap(d) \/ DeleteRelease(d)
      PROVE  UNCHANGED <<last>>
  BY <1>8 DEF mgr, objs, send, ask, del, Busy, CloseConv, DStep, DeleteLoad, DeleteRelease,
              DeleteStored, DeleteTake, DeleteUnmap, Load, LoadFails, TakeConv
<1>9. ASSUME Touch \/ EvictUnmap \/ EvictRelease \/ OtherProcess \/ CloseBegin \/ CloseCancels \/
          CloseSwap \/ CloseRelease \/ UNCHANGED vars
      PROVE  UNCHANGED <<last>>
  BY <1>9 DEF mgr, objs, send, ask, del, Busy, CloseBegin, CloseCancels, CloseConv, CloseRelease,
              CloseSwap, EvictRelease, EvictUnmap, Load, OtherProcess, Touch, TurnsDone, vars
<1> QED
  BY <1>1, <1>2, <1>3, <1>4, <1>5, <1>6, <1>7, <1>8, <1>9 DEF Next, Turn, Close

\* The invariant holds of a session that was just created.
LEMMA InitBot ==
  ASSUME Init
  PROVE  BotInv
<1>1. TypeOK
  <2>1. cur \in 0..MaxObjects /\ made \in Objects /\ victim \in 0..MaxObjects
    BY BotAssumption DEF Init, Objects
  <2>2. /\ last \in [Objects -> {"start", "event", "end"} \X (Sends \cup {Nobody})]
        /\ turn \in [Objects -> Sends \cup {Nobody}] /\ conv \in [Objects -> Sends \cup {Nobody}]
    BY DEF Init
  <2>3. at \in [Sends -> 0..MaxObjects] /\ dat \in [Deletes -> 0..MaxObjects]
    BY BotAssumption DEF Init
  <2>4. cancelled \in [Sends -> BOOLEAN] /\ pending \in [Sends -> BOOLEAN]
    BY DEF Init
  <2> QED
    BY <2>1, <2>2, <2>3, <2>4 DEF Init, TypeOK, SendPCs, DelPCs
<1>2. Questions /\ TurnHeld /\ DeleteHeld /\ Brackets
  BY BotAssumption DEF Init, Questions, TurnHeld, DeleteHeld, Brackets, On, Objects
<1>3. ClosePlace
  BY DEF Init, ClosePlace
<1> QED
  BY <1>1, <1>2, <1>3 DEF BotInv

\* The invariant holds throughout, whatever requests there are.
THEOREM BotInvariant == Spec => []BotInv
<1>1. Init => BotInv
  BY InitBot
<1>2. BotInv /\ [Next]_vars => BotInv'
  BY TypeStep, QuestionStep, TurnStep, DeleteStep, BracketStep, CloseStep DEF BotInv
<1> QED
  BY <1>1, <1>2, PTL DEF Spec

\* Channels, locks and the places of requests are what the types say.
THEOREM BotTypes == Spec => []TypeOK
<1>1. BotInv => TypeOK
  BY DEF BotInv
<1> QED
  BY <1>1, BotInvariant, PTL

\* An answer neither blocks nor panics (Answer, runTurn).
THEOREM AnswersFit == Spec => []QuestionsAnswerable
<1>1. BotInv => QuestionsAnswerable
  BY DEF BotInv, Questions, QuestionsAnswerable
<1> QED
  BY <1>1, BotInvariant, PTL

\* A Close that returned in time leaves no turn behind (Close, turns.Wait).
THEOREM CloseLeavesNone == Spec => []CloseWaits
<1>1. BotInv => CloseWaits
  BY DEF BotInv, TypeOK, SendPCs, ClosePlace, CloseWaits, OnSession, TurnsOut
<1> QED
  BY <1>1, BotInvariant, PTL

\* Events of a turn lie between its start and its end (runTurn, emit).
THEOREM EventsBracketed == Spec => TurnsBracketed
<1>1. BotInv /\ [Next]_vars => BracketedStep
  BY EventStep
<1> QED
  BY <1>1, BotInvariant, PTL DEF Spec, TurnsBracketed, BracketedStep

-----------------------------------------------------------------------------
(* Without the janitor: one object *)

\* The session is loaded once: the map loses it only when the store has, or
\* when the bot is closed.
OneObject ==
  /\ made = 1 /\ cur \in {0, 1} /\ victim \in {0, 1}
  /\ cur = 0 => ~stored \/ closed
  /\ \A d \in Deletes : dpc[d] \in {"removed", "unmapped", "done"} => ~stored
  /\ \A s \in Sends : at[s] \in {0, 1}
  /\ \A d \in Deletes : dat[d] \in {0, 1}
  /\ victim # 0 => closing = "swapped"

\* A request that has not begun has opened no conversation yet.
ConvFresh ==
  \A s \in Sends : pc[s] \in {"idle", "loaded", "admitted"} =>
    conv[1] # s /\ s \notin shutConvs /\ \A d \in Deletes : dconv[d] # s

\* The session's conversation is open, and no delete is about to close it.
ConvHeld ==
  conv[1] # Nobody => conv[1] \notin shutConvs /\ \A d \in Deletes : dconv[d] # conv[1]

\* A turn runs on the session's conversation.
ConvRun ==
  \A s \in Sends : pc[s] \in {"started", "running"} /\ ~expired =>
    runs[s] = conv[1] /\ conv[1] # Nobody

LoneInv == OneObject /\ LockCoversTurn /\ ConvFresh /\ ConvHeld /\ ConvRun

\* A request that holds an object holds that one.
LEMMA TheObject ==
  ASSUME BotInv, OneObject
  PROVE  /\ \A s \in Sends : pc[s] \notin {"idle", "refused"} => at[s] = 1
         /\ \A d \in Deletes : dpc[d] \notin {"idle", "refused"} => dat[d] = 1
BY BotAssumption DEF BotInv, TurnHeld, DeleteHeld, OneObject, Objects

\* A turn on its session is on that object.
LEMMA OnTheOne ==
  ASSUME BotInv, OneObject, NEW s \in Sends, pc[s] \in On
  PROVE  at[s] = 1 /\ turn[1] = s
BY Holds, BotAssumption DEF OneObject, Objects

\* Without the janitor every step keeps the one object.
LEMMA ObjectStep ==
  ASSUME BotInv, LoneInv, ~Evicts, [Next]_vars
  PROVE  OneObject'
<1> USE DEF mgr, objs, send, ask, del, TypeOK, BotInv, ClosePlace, LoneInv, OneObject, Objects
<1>1. ASSUME NEW s \in Sends, SendLoad(s) PROVE OneObject'
  <2>1. CASE UNCHANGED <<cur, made, at>>
    BY <1>1, <2>1 DEF SendLoad
  <2>2. ASSUME NEW o \in Objects, Load(o), at' = [at EXCEPT ![s] = o]
        PROVE  OneObject'
    <3>1. o = 1 /\ cur' = cur /\ made' = made
      BY <2>2 DEF Load
    <3> QED
      BY <1>1, <2>2, <3>1 DEF SendLoad
  <2> QED
    BY <1>1, <2>1, <2>2 DEF SendLoad
<1>2. ASSUME NEW d \in Deletes, DeleteLoad(d) PROVE OneObject'
  <2>1. CASE LoadFails /\ DStep(d, "refused") /\ UNCHANGED <<cur, made, dat>>
    BY <1>2, <2>1 DEF DeleteLoad, DStep
  <2>2. ASSUME NEW o \in Objects, Load(o), dat' = [dat EXCEPT ![d] = o], DStep(d, "loaded")
        PROVE  OneObject'
    <3>1. o = 1 /\ cur' = cur /\ made' = made
      BY <2>2 DEF Load
    <3> QED
      BY <1>2, <2>2, <3>1 DEF DeleteLoad, DStep
  <2> QED
    BY <1>2, <2>1, <2>2 DEF DeleteLoad
<1>3. ASSUME NEW d \in Deletes, DeleteTake(d) PROVE OneObject'
  BY <1>3 DEF DeleteTake, Busy, DStep, TakeConv
<1>4. ASSUME NEW d \in Deletes, DeleteStored(d) PROVE OneObject'
  BY <1>4 DEF DeleteStored, DStep
<1>5. ASSUME NEW d \in Deletes, DeleteUnmap(d) PROVE OneObject'
  BY <1>5 DEF DeleteUnmap, DStep
<1>6. ASSUME NEW d \in Deletes, DeleteRelease(d) PROVE OneObject'
  BY <1>6 DEF DeleteRelease, CloseConv, DStep
<1>7. ASSUME Touch PROVE OneObject'
  BY <1>7 DEF Touch, Load
<1>8. ASSUME EvictUnmap PROVE OneObject'
  BY <1>8 DEF EvictUnmap, Busy
<1>9. ASSUME EvictRelease PROVE OneObject'
  BY <1>9 DEF EvictRelease, CloseConv
<1>10. ASSUME CloseBegin PROVE OneObject'
  BY <1>10 DEF CloseBegin
<1>11. ASSUME CloseCancels PROVE OneObject'
  BY <1>11 DEF CloseCancels
<1>12. ASSUME CloseSwap PROVE OneObject'
  BY <1>12 DEF CloseSwap, TurnsDone
<1>13. ASSUME CloseRelease PROVE OneObject'
  BY <1>13 DEF CloseRelease
<1>14. UNCHANGED <<cur, made, stored, closed, closing, victim, at, dat, dpc>> => OneObject'
  OBVIOUS
<1>15. ASSUME NEW s \in Sends,
          SendAdmit(s) \/ SendBegin(s) \/ TurnStart(s) \/ Persist(s) \/ ReleaseLock(s) \/ TurnEnd(s) \/
          TurnDone(s) \/ Emit(s) \/ AskQuestion(s) \/ AskReturns(s) \/ CancelTurn(s) \/ Answer(s)
      PROVE  UNCHANGED <<cur, made, stored, closed, closing, victim, at, dat, dpc>>
  BY <1>15 DEF mgr, objs, send, ask, del, AgentAlive, Answer, AskQuestion, AskReturns, Busy,
               CancelTurn, Cancelled, CtxDone, Emit, OnTurn, Persist, Publish, ReleaseLock, SendAdmit,
               SendBegin, Step, TurnDone, TurnEnd, TurnStart, Unregister
<1>16. ASSUME OtherProcess \/ UNCHANGED vars
      PROVE  UNCHANGED <<cur, made, stored, closed, closing, victim, at, dat, dpc>>
  BY <1>16 DEF mgr, objs, send, ask, del, OtherProcess, vars
<1> QED
  BY <1>1, <1>2, <1>3, <1>4, <1>5, <1>6, <1>7, <1>8, <1>9, <1>10, <1>11, <1>12, <1>13, <1>14, <1>15,
     <1>16 DEF Next, Turn, Close

\* ... the lock under a turn.
LEMMA LockStep ==
  ASSUME BotInv, LoneInv, ~Evicts, [Next]_vars
  PROVE  LockCoversTurn'
<1> USE DEF mgr, objs, send, ask, del, TypeOK, BotInv, LoneInv, LockCoversTurn
<1>1. ASSUME NEW s \in Sends, SendLoad(s) PROVE LockCoversTurn'
  BY <1>1 DEF SendLoad, Load, Step, LoadFails
<1>2. ASSUME NEW s \in Sends, SendAdmit(s) PROVE LockCoversTurn'
  BY <1>2 DEF SendAdmit, Step
<1>3. ASSUME NEW s \in Sends, SendBegin(s) PROVE LockCoversTurn'
  <2>1. stored' = stored
    BY <1>3 DEF SendBegin
  <2>2. CASE stored /\ lock' = "ours"
    BY <2>1, <2>2
  <2>3. CASE lock' = lock /\ pc' = [pc EXCEPT ![s] = "refused"]
    BY <2>1, <2>3
  <2>4. (stored /\ lock' = "ours") \/ (lock' = lock /\ pc' = [pc EXCEPT ![s] = "refused"])
    BY <1>3 DEF SendBegin, Step
  <2> QED
    BY <2>2, <2>3, <2>4
<1>4. ASSUME NEW s \in Sends, TurnStart(s) PROVE LockCoversTurn'
  BY <1>4 DEF TurnStart, Publish, Step
<1>5. ASSUME NEW s \in Sends, Persist(s) PROVE LockCoversTurn'
  BY <1>5 DEF Persist, Cancelled, Unregister, Step
<1>6. ASSUME NEW s \in Sends, ReleaseLock(s) PROVE LockCoversTurn'
  <2>1. turn[1] = s /\ pc' = [pc EXCEPT ![s] = "unlocked"]
    BY <1>6, OnTheOne DEF ReleaseLock, Step, On
  <2>2. ASSUME NEW r \in Sends, pc'[r] \in {"started", "running", "persisted"} PROVE FALSE
    <3>1. r # s
      BY <2>1, <2>2
    <3>2. pc[r] \in On
      BY <2>1, <2>2, <3>1 DEF On
    <3> QED
      BY <2>1, <3>1, <3>2, OnTheOne
  <2> QED
    BY <2>2
<1>7. ASSUME NEW s \in Sends, TurnEnd(s) PROVE LockCoversTurn'
  BY <1>7 DEF TurnEnd, Publish, Step
<1>8. ASSUME NEW s \in Sends, TurnDone(s) PROVE LockCoversTurn'
  BY <1>8 DEF TurnDone, Step
<1>9. ASSUME OtherProcess PROVE LockCoversTurn'
  BY <1>9 DEF OtherProcess
<1>10. UNCHANGED <<pc, lock, stored>> => LockCoversTurn'
  OBVIOUS
<1>11. ASSUME NEW s \in Sends,
          Emit(s) \/ AskQuestion(s) \/ AskReturns(s) \/ CancelTurn(s) \/ Answer(s)
      PROVE  UNCHANGED <<pc, lock, stored>>
  BY <1>11 DEF mgr, objs, send, ask, del, AgentAlive, Answer, AskQuestion, AskReturns, CancelTurn,
               Cancelled, CtxDone, Emit, OnTurn, Publish
<1>12. ASSUME NEW d \in Deletes,
          DeleteLoad(d) \/ DeleteTake(d) \/ DeleteUnmap(d) \/ DeleteRelease(d)
      PROVE  UNCHANGED <<pc, lock, stored>>
  BY <1>12 DEF mgr, objs, send, ask, del, Busy, CloseConv, DStep, DeleteLoad, DeleteRelease,
               DeleteTake, DeleteUnmap, Load, LoadFails, TakeConv
<1>13. ASSUME Touch \/ EvictUnmap \/ EvictRelease \/ CloseBegin \/ CloseCancels \/ CloseSwap \/
          CloseRelease \/ UNCHANGED vars
      PROVE  UNCHANGED <<pc, lock, stored>>
  BY <1>13 DEF mgr, objs, send, ask, del, Busy, CloseBegin, CloseCancels, CloseConv, CloseRelease,
               CloseSwap, EvictRelease, EvictUnmap, Load, Touch, TurnsDone, vars
<1>14. ASSUME NEW d \in Deletes, DeleteStored(d) PROVE LockCoversTurn'
  BY <1>14 DEF DeleteStored, DStep
<1> QED
  BY <1>1, <1>2, <1>3, <1>4, <1>5, <1>6, <1>7, <1>8, <1>9, <1>10, <1>11, <1>12, <1>13, <1>14 DEF Next,
     Turn, Close

\* ... the conversations that nobody has opened yet.
LEMMA FreshStep ==
  ASSUME BotInv, LoneInv, ~Evicts, [Next]_vars
  PROVE  ConvFresh'
<1> USE DEF mgr, objs, send, ask, del, TypeOK, BotInv, DeleteHeld, LoneInv, OneObject, ConvFresh,
            Objects
<1>1. ASSUME NEW s \in Sends, SendLoad(s) PROVE ConvFresh'
  BY <1>1, BotAssumption DEF SendLoad, Load, Step, LoadFails
<1>2. ASSUME NEW s \in Sends, SendAdmit(s) PROVE ConvFresh'
  BY <1>2, BotAssumption DEF SendAdmit, Step
<1>3. ASSUME NEW s \in Sends, SendBegin(s) PROVE ConvFresh'
  <2>0. pc[s] = "admitted" /\ UNCHANGED <<shutConvs, dconv>>
    BY <1>3 DEF SendBegin
  <2>1. at[s] = 1
    BY <2>0, TheObject
  <2>2. conv'[1] = conv[1] \/ (conv[1] = Nobody /\ conv'[1] = s)
    BY <1>3, <2>1, BotAssumption DEF SendBegin
  <2>3. pc' = [pc EXCEPT ![s] = "refused"] \/ pc' = [pc EXCEPT ![s] = "started"]
    BY <1>3 DEF SendBegin, Step
  <2> QED
    BY <2>0, <2>1, <2>2, <2>3
<1>4. ASSUME NEW s \in Sends, TurnStart(s) PROVE ConvFresh'
  BY <1>4, BotAssumption DEF TurnStart, Publish, Step
<1>5. ASSUME NEW s \in Sends, Persist(s) PROVE ConvFresh'
  BY <1>5, BotAssumption DEF Persist, Cancelled, Unregister, Step
<1>6. ASSUME NEW s \in Sends, ReleaseLock(s) PROVE ConvFresh'
  BY <1>6, BotAssumption DEF ReleaseLock, Step
<1>7. ASSUME NEW s \in Sends, TurnEnd(s) PROVE ConvFresh'
  BY <1>7, BotAssumption DEF TurnEnd, Publish, Step
<1>8. ASSUME NEW s \in Sends, TurnDone(s) PROVE ConvFresh'
  BY <1>8, BotAssumption DEF TurnDone, Step
<1>9. ASSUME NEW d \in Deletes, DeleteTake(d) PROVE ConvFresh'
  BY <1>9, BotAssumption DEF DeleteTake, Busy, DStep, TakeConv
<1>10. ASSUME NEW d \in Deletes, DeleteRelease(d) PROVE ConvFresh'
  BY <1>10, BotAssumption DEF DeleteRelease, CloseConv, DStep
<1>11. ASSUME EvictRelease PROVE ConvFresh'
  BY <1>11, BotAssumption DEF EvictRelease, CloseConv
<1>12. UNCHANGED <<pc, conv, shutConvs, dconv>> => ConvFresh'
  OBVIOUS
<1>13. ASSUME NEW s \in Sends,
          Emit(s) \/ AskQuestion(s) \/ AskReturns(s) \/ CancelTurn(s) \/ Answer(s)
      PROVE  UNCHANGED <<pc, conv, shutConvs, dconv>>
  BY <1>13 DEF mgr, objs, send, ask, del, AgentAlive, Answer, AskQuestion, AskReturns, CancelTurn,
               Cancelled, CtxDone, Emit, OnTurn, Publish
<1>14. ASSUME NEW d \in Deletes,
          DeleteLoad(d) \/ DeleteStored(d) \/ DeleteUnmap(d)
      PROVE  UNCHANGED <<pc, conv, shutConvs, dconv>>
  BY <1>14 DEF mgr, objs, send, ask, del, DStep, DeleteLoad, DeleteStored, DeleteUnmap, Load,
     LoadFails
<1>15. ASSUME Touch \/ EvictUnmap \/ OtherProcess \/ CloseBegin \/ CloseCancels \/ CloseSwap \/
          CloseRelease \/ UNCHANGED vars
      PROVE  UNCHANGED <<pc, conv, shutConvs, dconv>>
  BY <1>15 DEF mgr, objs, send, ask, del, Busy, CloseBegin, CloseCancels, CloseRelease, CloseSwap,
               EvictUnmap, Load, OtherProcess, Touch, TurnsDone, vars
<1> QED
  BY <1>1, <1>2, <1>3, <1>4, <1>5, <1>6, <1>7, <1>8, <1>9, <1>10, <1>11, <1>12, <1>13, <1>14,
     <1>15 DEF Next, Turn, Close

\* ... the session's conversation open.
LEMMA HeldStep ==
  ASSUME BotInv, LoneInv, ~Evicts, [Next]_vars
  PROVE  ConvHeld'
<1> USE DEF mgr, objs, send, ask, del, TypeOK, BotInv, TurnHeld, DeleteHeld, LoneInv, OneObject,
            ConvFresh, ConvHeld, Objects
<1>1. ASSUME NEW s \in Sends, SendBegin(s) PROVE ConvHeld'
  <2>0. pc[s] = "admitted" /\ UNCHANGED <<shutConvs, dconv>>
    BY <1>1 DEF SendBegin
  <2>1. at[s] = 1
    BY <2>0, TheObject
  <2>2. conv'[1] = conv[1] \/ (conv[1] = Nobody /\ conv'[1] = s)
    BY <1>1, <2>1, BotAssumption DEF SendBegin
  <2>3. pc' = [pc EXCEPT ![s] = "refused"] \/ pc' = [pc EXCEPT ![s] = "started"]
    BY <1>1 DEF SendBegin, Step
  <2> QED
    BY <2>0, <2>1, <2>2, <2>3
<1>2. ASSUME NEW d \in Deletes, DeleteTake(d) PROVE ConvHeld'
  <2>0. dpc[d] = "loaded" /\ UNCHANGED <<shutConvs, turn, pc, runs, expired>>
    BY <1>2 DEF DeleteTake
  <2>1. dat[d] = 1
    BY <2>0, TheObject
  <2>2. CASE UNCHANGED <<conv, dconv>>
    BY <2>0, <2>2
  <2>3. CASE turn[1] = Nobody /\ conv' = [conv EXCEPT ![1] = Nobody]
    BY <2>0, <2>3, BotAssumption
  <2> QED
    BY <1>2, <2>1, <2>2, <2>3, BotAssumption DEF DeleteTake, Busy, TakeConv
<1>3. ASSUME NEW d \in Deletes, DeleteRelease(d) PROVE ConvHeld'
  BY <1>3, BotAssumption DEF DeleteRelease, CloseConv, DStep
<1>4. ASSUME EvictRelease PROVE ConvHeld'
  BY <1>4, BotAssumption DEF EvictRelease, CloseConv
<1>5. UNCHANGED <<conv, shutConvs, dconv>> => ConvHeld'
  OBVIOUS
<1>6. ASSUME NEW s \in Sends,
          SendLoad(s) \/ SendAdmit(s) \/ TurnStart(s) \/ Persist(s) \/ ReleaseLock(s) \/ TurnEnd(s) \/
          TurnDone(s) \/ Emit(s) \/ AskQuestion(s) \/ AskReturns(s) \/ CancelTurn(s) \/ Answer(s)
      PROVE  UNCHANGED <<conv, shutConvs, dconv>>
  BY <1>6 DEF mgr, objs, send, ask, del, AgentAlive, Answer, AskQuestion, AskReturns, CancelTurn,
              Cancelled, CtxDone, Emit, Load, LoadFails, OnTurn, Persist, Publish, ReleaseLock,
              SendAdmit, SendLoad, Step, TurnDone, TurnEnd, TurnStart, Unregister
<1>7. ASSUME NEW d \in Deletes,
          DeleteLoad(d) \/ DeleteStored(d) \/ DeleteUnmap(d)
      PROVE  UNCHANGED <<conv, shutConvs, dconv>>
  BY <1>7 DEF mgr, objs, send, ask, del, DStep, DeleteLoad, DeleteStored, DeleteUnmap, Load,
     LoadFails
<1>8. ASSUME Touch \/ EvictUnmap \/ OtherProcess \/ CloseBegin \/ CloseCancels \/ CloseSwap \/
          CloseRelease \/ UNCHANGED vars
      PROVE  UNCHANGED <<conv, shutConvs, dconv>>
  BY <1>8 DEF mgr, objs, send, ask, del, Busy, CloseBegin, CloseCancels, CloseRelease, CloseSwap,
              EvictUnmap, Load, OtherProcess, Touch, TurnsDone, vars
<1> QED
  BY <1>1, <1>2, <1>3, <1>4, <1>5, <1>6, <1>7, <1>8 DEF Next, Turn, Close

\* ... a turn on the session's conversation.
LEMMA RunStep ==
  ASSUME BotInv, LoneInv, ~Evicts, [Next]_vars
  PROVE  ConvRun'
<1> USE DEF mgr, objs, send, ask, del, TypeOK, BotInv, TurnHeld, DeleteHeld, ClosePlace, LoneInv,
            OneObject, ConvRun, Objects, On, TurnsOut
<1>1. ASSUME NEW s \in Sends, SendLoad(s) PROVE ConvRun'
  BY <1>1, BotAssumption DEF SendLoad, Load, Step, LoadFails
<1>2. ASSUME NEW s \in Sends, SendAdmit(s) PROVE ConvRun'
  BY <1>2, BotAssumption DEF SendAdmit, Step
<1>3. ASSUME NEW s \in Sends, SendBegin(s) PROVE ConvRun'
  BY <1>3, BotAssumption DEF SendBegin, Busy, Step
<1>4. ASSUME NEW s \in Sends, TurnStart(s) PROVE ConvRun'
  BY <1>4, BotAssumption DEF TurnStart, Publish, Step
<1>5. ASSUME NEW s \in Sends, Persist(s) PROVE ConvRun'
  BY <1>5, BotAssumption DEF Persist, Cancelled, Unregister, Step
<1>6. ASSUME NEW s \in Sends, ReleaseLock(s) PROVE ConvRun'
  BY <1>6, BotAssumption DEF ReleaseLock, Step
<1>7. ASSUME NEW s \in Sends, TurnEnd(s) PROVE ConvRun'
  BY <1>7, BotAssumption DEF TurnEnd, Publish, Step
<1>8. ASSUME NEW s \in Sends, TurnDone(s) PROVE ConvRun'
  BY <1>8, BotAssumption DEF TurnDone, Step
<1>9. ASSUME NEW d \in Deletes, DeleteTake(d) PROVE ConvRun'
  <2>0. dpc[d] = "loaded" /\ UNCHANGED <<shutConvs, turn, pc, runs, expired>>
    BY <1>9 DEF DeleteTake
  <2>1. dat[d] = 1
    BY <2>0, TheObject
  <2>2. CASE UNCHANGED <<conv, dconv>>
    BY <2>0, <2>2
  <2>3. CASE turn[1] = Nobody /\ conv' = [conv EXCEPT ![1] = Nobody]
    <3>1. \A s \in Sends : pc[s] \notin On
      BY <2>3, OnTheOne, BotAssumption
    <3> QED
      BY <2>0, <3>1 DEF On
  <2> QED
    BY <1>9, <2>1, <2>2, <2>3, BotAssumption DEF DeleteTake, Busy, TakeConv
<1>10. ASSUME EvictRelease PROVE ConvRun'
  BY <1>10, BotAssumption DEF EvictRelease, CloseConv
<1>11. ASSUME CloseSwap PROVE ConvRun'
  BY <1>11, BotAssumption DEF CloseSwap, TurnsDone
<1>12. UNCHANGED <<pc, conv, runs, expired>> => ConvRun'
  OBVIOUS
<1>13. ASSUME NEW s \in Sends,
          Emit(s) \/ AskQuestion(s) \/ AskReturns(s) \/ CancelTurn(s) \/ Answer(s)
      PROVE  UNCHANGED <<pc, conv, runs, expired>>
  BY <1>13 DEF mgr, objs, send, ask, del, AgentAlive, Answer, AskQuestion, AskReturns, CancelTurn,
               Cancelled, CtxDone, Emit, OnTurn, Publish
<1>14. ASSUME NEW d \in Deletes,
          DeleteLoad(d) \/ DeleteStored(d) \/ DeleteUnmap(d) \/ DeleteRelease(d)
      PROVE  UNCHANGED <<pc, conv, runs, expired>>
  BY <1>14 DEF mgr, objs, send, ask, del, CloseConv, DStep, DeleteLoad, DeleteRelease, DeleteStored,
               DeleteUnmap, Load, LoadFails
<1>15. ASSUME Touch \/ EvictUnmap \/ OtherProcess \/ CloseBegin \/ CloseCancels \/ CloseRelease \/
          UNCHANGED vars
      PROVE  UNCHANGED <<pc, conv, runs, expired>>
  BY <1>15 DEF mgr, objs, send, ask, del, Busy, CloseBegin, CloseCancels, CloseRelease, EvictUnmap,
               Load, OtherProcess, Touch, vars
<1> QED
  BY <1>1, <1>2, <1>3, <1>4, <1>5, <1>6, <1>7, <1>8, <1>9, <1>10, <1>11, <1>12, <1>13, <1>14,
     <1>15 DEF Next, Turn, Close

\* Without the janitor the session has one object throughout.
THEOREM LoneInvariant == ASSUME ~Evicts PROVE Spec => []LoneInv
<1>1. Init => LoneInv
  BY BotAssumption DEF Init, LoneInv, OneObject, LockCoversTurn, ConvFresh, ConvHeld, ConvRun,
     Objects
<1>2. BotInv /\ LoneInv /\ [Next]_vars => LoneInv'
  BY ObjectStep, LockStep, FreshStep, HeldStep, RunStep DEF LoneInv
<1> QED
  BY <1>1, <1>2, BotInvariant, PTL DEF Spec

\* Each session runs at most one agent turn at a time (protocol.go:3-4).
THEOREM OneTurn == ASSUME ~Evicts PROVE Spec => []OneTurnPerSession
<1>1. BotInv /\ LoneInv => OneTurnPerSession
  <2> SUFFICES ASSUME BotInv, LoneInv PROVE OneTurnPerSession
    OBVIOUS
  <2>1. OnSession \subseteq {turn[1]}
    BY OnTheOne DEF OnSession, On, LoneInv
  <2>2. IsFiniteSet({turn[1]}) /\ Cardinality({turn[1]}) = 1
    BY FS_Singleton
  <2>3. Cardinality(OnSession) <= Cardinality({turn[1]})
    BY <2>1, <2>2, FS_Subset
  <2> QED
    BY <2>2, <2>3 DEF OneTurnPerSession
<1> QED
  BY <1>1, BotInvariant, LoneInvariant, PTL

\* No other process has the session during a turn: the row is this process's, or a
\* delete has taken it with the session (holdLock, Store.Delete).
THEOREM LockHeld == ASSUME ~Evicts PROVE Spec => []LockCoversTurn
<1>1. LoneInv => LockCoversTurn
  BY DEF LoneInv
<1> QED
  BY <1>1, LoneInvariant, PTL

\* No turn runs on a closed conversation, unless Close gave up waiting.
THEOREM NotClosedUnder == ASSUME ~Evicts PROVE Spec => []ConversationOpen
<1>1. LoneInv => ConversationOpen
  BY DEF LoneInv, ConvHeld, ConvRun, ConversationOpen
<1> QED
  BY <1>1, LoneInvariant, PTL

\* From its start to its last write a turn has the session's lock, as long as the
\* store has the session, and an open conversation, for any number of sends and
\* deletes (Send, holdLock, runTurn).
THEOREM TurnSafe == ASSUME ~Evicts PROVE Spec => []TurnIsSafe
<1>1. LockCoversTurn /\ ConversationOpen => TurnIsSafe
  BY DEF TurnIsSafe
<1> QED
  BY <1>1, LockHeld, NotClosedUnder, PTL
=============================================================================
