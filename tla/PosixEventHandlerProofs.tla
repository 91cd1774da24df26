---------------------- MODULE PosixEventHandlerProofs ----------------------
(***************************************************************************)
(* Proofs about the POSIX event loop, for any number of registrations and  *)
(* handles and any bound on the clock.                                     *)
(***************************************************************************)
EXTENDS PosixEventHandler, FiniteSetTheorems, TLAPS

\* What a list sorted by (timeout, insertion) looks like with the order kept
\* as the relation older: ids name entries, and older relates entries of the
\* list only, never both ways.
ListInv ==
  /\ \A e, f \in eventList : e.id = f.id => e = f
  /\ older \subseteq IdsOf(eventList) \X IdsOf(eventList)
  /\ \A a, b \in Ids : <<a, b>> \in older => <<b, a>> \notin older

\* While the handler of a timed-out entry runs, that entry is begin() and its
\* key is the event time the handler's requests are relative to.
ExpireInv ==
  pc = "inExpire" =>
    \E e \in eventList : IsBegin(e) /\ called = {e} /\ lastEventTime = e.t

-----------------------------------------------------------------------------
(* Lemmas about the operators.                                             *)

\* A walk over the multimap is a finite sequence of list entries.
LEMMA InOrderType ==
  ASSUME NEW S, NEW s \in InOrder(S)
  PROVE  /\ s \in Seq(S)
         /\ Len(s) \in Nat
         /\ DOMAIN s = 1 .. Len(s)
         /\ {s[i] : i \in DOMAIN s} = S
<1>1. Cardinality(Ids) \in Nat
  BY ConstantsAssumption, FS_CardinalityType
<1>2. PICK n \in 0 .. Cardinality(Ids) : s \in [1 .. n -> S]
  BY DEF InOrder
<1>3. n \in Nat
  BY <1>1, <1>2
<1>4. s \in Seq(S) /\ Len(s) = n /\ DOMAIN s = 1 .. n
  BY <1>2, <1>3
<1> QED
  BY <1>3, <1>4 DEF InOrder

\* Collecting a nonempty set of entries leaves a nonempty, well-typed call
\* list whose first call is the next one.
LEMMA CollectType ==
  ASSUME TypeOK, NEW S \in SUBSET eventList, S # {}, Collect(S)
  PROVE  /\ eventList' \subseteq Entry
         /\ older' \subseteq Ids \X Ids
         /\ status' \in [Handles -> Status]
         /\ elist' \in Seq(Entry)
         /\ next' \in DOMAIN elist'
         /\ next' \in 1 .. Len(elist') + 1
<1>1. PICK s \in InOrder(S) : elist' = [i \in DOMAIN s |-> [s[i] EXCEPT !.t = now]]
  BY DEF Collect
<1>2. /\ s \in Seq(S)
      /\ Len(s) \in Nat
      /\ DOMAIN s = 1 .. Len(s)
      /\ {s[i] : i \in DOMAIN s} = S
  BY <1>1, InOrderType
<1>3. Len(s) >= 1
  BY <1>2
<1>4. \A i \in 1 .. Len(s) : [s[i] EXCEPT !.t = now] \in Entry
  <2> TAKE i \in 1 .. Len(s)
  <2>1. s[i] \in Entry
    BY <1>2 DEF TypeOK
  <2>2. now \in Time
    BY DEF TypeOK
  <2> QED
    BY <2>1, <2>2 DEF Entry
<1>5. elist' \in Seq(Entry) /\ Len(elist') = Len(s) /\ DOMAIN elist' = 1 .. Len(s)
  BY <1>1, <1>2, <1>4
<1>6. next' = 1
  BY DEF Collect
<1>7. eventList' \subseteq Entry /\ older' \subseteq Ids \X Ids
  BY DEF Collect, Erase, TypeOK
<1>8. status' \in [Handles -> Status]
  BY DEF Collect, MadeReady, TypeOK, Status
<1> QED
  BY <1>3, <1>5, <1>6, <1>7, <1>8, <1>2

-----------------------------------------------------------------------------
\* The state before gea_main is well-typed.
LEMMA TypeInit == Init => TypeOK
BY ConstantsAssumption DEF Init, TypeOK, Time, PC, InClient

\* Every step of the loop, its clients and the environment keeps the types.
LEMMA TypeStep ==
  ASSUME TypeOK, [Next]_vars
  PROVE  TypeOK'
<1>1. ASSUME NEW id \in Ids, NEW h \in Handles, NEW t \in Time, WaitFor(id, h, t)
      PROVE  TypeOK'
  <2>1. [id |-> id, h |-> h, t |-> t] \in Entry
    BY DEF Entry
  <2>2. Inserted(id) \subseteq Ids \X Ids
    BY DEF Inserted, IdsOf, TypeOK, Entry
  <2> QED
    BY <1>1, <2>1, <2>2 DEF WaitFor, TypeOK, Status, InClient
<1>2. ASSUME NEW d \in Dependents, Complied(d)
      PROVE  TypeOK'
  <2>1. IdsOf(WaitersOn(d)) \subseteq Ids
    BY DEF IdsOf, WaitersOn, Waiting, TypeOK, Entry
  <2> QED
    BY <1>2, <2>1 DEF Complied, TypeOK, Status, Handles, listVars, callVars, InClient
<1>3. ASSUME NEW h \in FdHandles, Read(h)
      PROVE  TypeOK'
  BY <1>3 DEF Read, TypeOK, listVars, callVars
<1>4. CASE Start \/ Finish \/ DepsDone
  BY <1>4 DEF Start, Finish, DepsDone, TypeOK, PC, InClient, listVars, callVars
<1>5. CASE Expire
  BY <1>5 DEF Expire, TypeOK, PC, InClient, Entry, Status, listVars
<1>6. CASE ReturnExpire
  BY <1>6 DEF ReturnExpire, Erase, TypeOK, PC, InClient
<1>7. CASE CollectIo
  <2>1. ReadyIo \in SUBSET eventList
    BY DEF ReadyIo
  <2> QED
    BY <1>7, <2>1, CollectType DEF CollectIo, TypeOK, PC
<1>8. CASE CollectDeps
  <2>1. TriggeredDeps \in SUBSET eventList
    BY DEF TriggeredDeps
  <2> QED
    BY <1>8, <2>1, CollectType DEF CollectDeps, TypeOK, PC
<1>9. CASE CallIo \/ CallDep
  <2>1. next \in DOMAIN elist /\ DOMAIN elist = 1 .. Len(elist) /\ Len(elist) \in Nat
    BY <1>9 DEF CallIo, CallDep, CallNext, TypeOK
  <2>2. elist[next] \in Entry
    BY <2>1 DEF TypeOK
  <2>3. elist[next].t \in Time
    BY <2>2 DEF Entry
  <2> QED
    BY <1>9, <2>1, <2>2, <2>3 DEF CallIo, CallDep, CallNext, TypeOK, PC, InClient, listVars
<1>10. CASE ReturnIo \/ ReturnDep
  <2>1. ResetTriggers \in [Dependents -> BOOLEAN]
    BY DEF ResetTriggers, TypeOK
  <2>2. DOMAIN elist = 1 .. Len(elist) /\ Len(elist) \in Nat
    BY DEF TypeOK
  <2>3. <<>> \in Seq(Entry) /\ Len(<<>>) = 0
    OBVIOUS
  <2>4. CASE MoreCalls
    <3>1. UNCHANGED <<elist, next, triggered>> /\ pc' \in {"io", "dep"}
      BY <1>10, <2>4 DEF ReturnIo, ReturnDep
    <3>2. next' \in DOMAIN elist'
      BY <2>2, <2>4, <3>1 DEF MoreCalls, TypeOK
    <3> QED
      BY <1>10, <3>1, <3>2 DEF ReturnIo, ReturnDep, TypeOK, PC, listVars
  <2>5. CASE ~MoreCalls
    <3>1. elist' = <<>> /\ next' = 1 /\ pc' = "deps"
      BY <1>10, <2>5 DEF ReturnIo, ReturnDep, AfterRound
    <3>2. elist' \in Seq(Entry) /\ next' \in 1 .. Len(elist') + 1
      BY <2>3, <3>1
    <3>3. triggered' \in [Dependents -> BOOLEAN]
      BY <1>10, <2>1, <2>5 DEF ReturnIo, ReturnDep, TypeOK
    <3>4. called' \subseteq Entry
      BY <1>10 DEF ReturnIo, ReturnDep
    <3>5. UNCHANGED <<eventList, older, status, lastEventTime, signalled, fdReady, now>>
      BY <1>10 DEF ReturnIo, ReturnDep, listVars
    <3> QED
      BY <3>1, <3>2, <3>3, <3>4, <3>5 DEF TypeOK, PC
  <2> QED
    BY <2>4, <2>5
<1>11. CASE Tick
  BY <1>11, ConstantsAssumption DEF Tick, TypeOK, Time, listVars, callVars
<1>12. ASSUME NEW h \in FdHandles, Arrive(h)
       PROVE  TypeOK'
  BY <1>12 DEF Arrive, TypeOK, listVars, callVars
<1>13. CASE Terminated \/ UNCHANGED vars
  BY <1>13 DEF Terminated, vars, TypeOK
<1> QED
  BY <1>1, <1>2, <1>3, <1>4, <1>5, <1>6, <1>7, <1>8, <1>9, <1>10, <1>11, <1>12, <1>13
  DEF Next, Client, Loop, Return

\* The loop is type-correct: in particular for_each never runs past the end
\* of the call list.
THEOREM TypeCorrect == Spec => []TypeOK
<1>1. TypeOK /\ [Next]_vars => TypeOK'
  BY TypeStep
<1> QED
  BY <1>1, TypeInit, PTL DEF Spec

-----------------------------------------------------------------------------
(* The order of the list.                                                  *)

\* Erasing entries keeps the order of the others.
LEMMA EraseList ==
  ASSUME TypeOK, ListInv, NEW S \in SUBSET eventList, Erase(S)
  PROVE  ListInv'
<1>1. \A e \in eventList : e.id \notin IdsOf(S) => e \in eventList'
  BY DEF Erase, IdsOf
<1>2. ASSUME NEW p \in older'
      PROVE  p \in IdsOf(eventList') \X IdsOf(eventList')
  <2>1. /\ p \in IdsOf(eventList) \X IdsOf(eventList)
        /\ p[1] \notin IdsOf(S)
        /\ p[2] \notin IdsOf(S)
    BY <1>2 DEF Erase, ListInv
  <2> QED
    BY <2>1, <1>1 DEF IdsOf
<1>3. \A a, b \in Ids : <<a, b>> \in older' => <<b, a>> \notin older'
  BY DEF Erase, ListInv
<1>4. \A e, f \in eventList' : e.id = f.id => e = f
  BY DEF Erase, ListInv
<1> QED
  BY <1>2, <1>3, <1>4 DEF ListInv, IdsOf

\* Inserting an entry under a fresh id keeps the order.
LEMMA InsertList ==
  ASSUME TypeOK, ListInv,
         NEW id \in Ids, NEW h \in Handles, NEW t \in Time, WaitFor(id, h, t)
  PROVE  ListInv'
<1>1. id \notin IdsOf(eventList)
  BY DEF WaitFor
<1>2. IdsOf(eventList') = IdsOf(eventList) \cup {id}
  <2> DEFINE new == [id |-> id, h |-> h, t |-> t]
  <2>1. eventList' = eventList \cup {new} /\ new.id = id
    BY DEF WaitFor
  <2> HIDE DEF new
  <2> QED
    BY <2>1 DEF IdsOf
<1>3. older' = older \cup (IdsOf(eventList) \X {id})
  BY DEF WaitFor, Inserted
<1>4. \A e, f \in eventList' : e.id = f.id => e = f
  BY <1>1 DEF WaitFor, ListInv, IdsOf
<1>5. older' \subseteq IdsOf(eventList') \X IdsOf(eventList')
  BY <1>2, <1>3 DEF ListInv
<1>6. ASSUME NEW a \in Ids, NEW b \in Ids, <<a, b>> \in older', <<b, a>> \in older'
      PROVE  FALSE
  <2>1. CASE <<a, b>> \in older /\ <<b, a>> \in older
    BY <2>1 DEF ListInv
  <2>2. CASE <<a, b>> \notin older
    <3>1. a \in IdsOf(eventList) /\ b = id
      BY <1>3, <1>6, <2>2
    <3>2. a # id /\ <<b, a>> \in older
      BY <1>1, <1>3, <1>6, <3>1
    <3> QED
      BY <1>1, <3>1, <3>2 DEF ListInv
  <2>3. CASE <<b, a>> \notin older
    <3>1. b \in IdsOf(eventList) /\ a = id
      BY <1>3, <1>6, <2>3
    <3>2. b # id /\ <<a, b>> \in older
      BY <1>1, <1>3, <1>6, <3>1
    <3> QED
      BY <1>1, <3>1, <3>2 DEF ListInv
  <2> QED
    BY <2>1, <2>2, <2>3
<1> QED
  BY <1>4, <1>5, <1>6 DEF ListInv

\* Every step keeps the order of the list.
LEMMA ListStep ==
  ASSUME TypeOK, ListInv, [Next]_vars
  PROVE  ListInv'
<1>1. ASSUME NEW id \in Ids, NEW h \in Handles, NEW t \in Time, WaitFor(id, h, t)
      PROVE  ListInv'
  BY <1>1, InsertList
<1>2. ASSUME NEW S \in SUBSET eventList, Erase(S)
      PROVE  ListInv'
  BY <1>2, EraseList
<1>3. CASE UNCHANGED listVars
  BY <1>3 DEF listVars, ListInv, IdsOf
<1>4. CASE ReturnExpire
  <2>1. PICK e \in eventList : Erase({e})
    BY <1>4 DEF ReturnExpire
  <2> QED
    BY <1>2, <2>1
<1>5. CASE CollectIo
  BY <1>2, <1>5 DEF CollectIo, Collect, ReadyIo
<1>6. CASE CollectDeps
  BY <1>2, <1>6 DEF CollectDeps, Collect, TriggeredDeps
<1>7. CASE \/ \E d \in Dependents : Complied(d)
           \/ \E h \in FdHandles : Read(h)
           \/ Start \/ Finish \/ Expire \/ CallIo \/ DepsDone \/ CallDep
           \/ ReturnIo \/ ReturnDep \/ Tick
           \/ \E h \in FdHandles : Arrive(h)
           \/ Terminated \/ UNCHANGED vars
  <2>1. UNCHANGED listVars
    BY <1>7 DEF Complied, Read, Start, Finish, Expire, CallIo, DepsDone, CallDep,
                CallNext, ReturnIo, ReturnDep, Tick, Arrive, Terminated, vars, listVars
  <2> QED
    BY <1>3, <2>1
<1> QED
  BY <1>1, <1>4, <1>5, <1>6, <1>7 DEF Next, Client, Loop, Return

\* begin() is one entry.
LEMMA BeginUnique ==
  ASSUME TypeOK, ListInv, NEW e, NEW f, IsBegin(e), IsBegin(f)
  PROVE  e = f
<1> SUFFICES ASSUME e # f PROVE FALSE
  OBVIOUS
<1>1. Precedes(e, f) /\ Precedes(f, e)
  BY DEF IsBegin
<1>2. e \in Entry /\ f \in Entry
  BY DEF IsBegin, TypeOK
<1>3. e.t \in Int /\ f.t \in Int /\ e.id \in Ids /\ f.id \in Ids
  BY <1>2, ConstantsAssumption DEF Entry, Time
<1> QED
  BY <1>1, <1>3 DEF Precedes, ListInv

\* A handler whose requests are not back-dated cannot push an entry in front
\* of the one it was called for.
LEMMA ExpireStep ==
  ASSUME TypeOK, ListInv, ExpireInv, [Next]_vars, MinDelay >= 0
  PROVE  ExpireInv'
<1> SUFFICES ASSUME pc' = "inExpire"
             PROVE  \E e \in eventList' : IsBegin(e)' /\ called' = {e} /\ lastEventTime' = e.t
  BY DEF ExpireInv
<1>1. ASSUME NEW id \in Ids, NEW h \in Handles, NEW t \in Time, WaitFor(id, h, t)
      PROVE  \E e \in eventList' : IsBegin(e)' /\ called' = {e} /\ lastEventTime' = e.t
  <2> DEFINE new == [id |-> id, h |-> h, t |-> t]
  <2>1. pc = "inExpire" /\ UNCHANGED <<called, lastEventTime>>
    BY <1>1 DEF WaitFor
  <2>2. PICK e \in eventList : IsBegin(e) /\ called = {e} /\ lastEventTime = e.t
    BY <2>1 DEF ExpireInv
  <2>3. e.t \in Time /\ e.id \in IdsOf(eventList)
    BY DEF TypeOK, Entry, IdsOf
  <2>4. t >= e.t
    BY <1>1, <2>2, <2>3, ConstantsAssumption DEF WaitFor, Time
  <2>5. <<e.id, id>> \in older'
    BY <1>1, <2>3 DEF WaitFor, Inserted
  <2>6. e.t < new.t \/ e.t = new.t
    BY <2>3, <2>4, ConstantsAssumption DEF Time
  <2>7. Precedes(e, new)'
    BY <2>5, <2>6 DEF Precedes
  <2>8. \A f \in eventList \ {e} : Precedes(e, f)'
    BY <1>1, <2>2 DEF IsBegin, Precedes, WaitFor, Inserted
  <2>9. eventList' = eventList \cup {new}
    BY <1>1 DEF WaitFor
  <2>10. IsBegin(e)'
    BY <2>7, <2>8, <2>9 DEF IsBegin
  <2> QED
    BY <2>1, <2>2, <2>9, <2>10
<1>2. CASE Expire
  <2>1. PICK e \in eventList : IsBegin(e) /\ called' = {e} /\ lastEventTime' = e.t
    BY <1>2 DEF Expire
  <2>2. UNCHANGED <<eventList, older>>
    BY <1>2 DEF Expire, listVars
  <2>3. IsBegin(e)'
    BY <2>1, <2>2 DEF IsBegin, Precedes
  <2> QED
    BY <2>1, <2>2, <2>3
<1>3. CASE UNCHANGED <<eventList, older, called, lastEventTime, pc>>
  BY <1>3 DEF ExpireInv, IsBegin, Precedes
<1>4. CASE \/ Start \/ Finish \/ CollectIo \/ CallIo \/ CollectDeps \/ DepsDone
           \/ CallDep \/ Return
  BY <1>4 DEF Start, Finish, CollectIo, CallIo, CollectDeps, DepsDone, CallDep, CallNext,
              Return, ReturnExpire, ReturnIo, ReturnDep, AfterRound
<1>5. CASE \/ \E d \in Dependents : Complied(d)
           \/ \E h \in FdHandles : Read(h)
           \/ Tick
           \/ \E h \in FdHandles : Arrive(h)
           \/ Terminated \/ UNCHANGED vars
  <2>1. UNCHANGED <<eventList, older, called, lastEventTime, pc>>
    BY <1>5 DEF Complied, Read, Tick, Arrive, Terminated, vars, listVars, callVars
  <2> QED
    BY <1>3, <2>1
<1> QED
  BY <1>1, <1>2, <1>4, <1>5 DEF Next, Client, Loop

\* If no handler asks for a time before the one it was called with, run()
\* erases exactly the entry whose handler it called: no registration is lost
\* and none is served twice by the erase of begin().
THEOREM ErasesTheCalledEntryHolds ==
  MinDelay >= 0 => (Spec => []ErasesTheCalledEntry)
<1> SUFFICES ASSUME MinDelay >= 0 PROVE Spec => []ErasesTheCalledEntry
  OBVIOUS
<1> DEFINE IInv == TypeOK /\ ListInv /\ ExpireInv
<1>1. Init => IInv
  <2> SUFFICES ASSUME Init PROVE ListInv /\ ExpireInv
    BY TypeInit
  <2> QED
    BY DEF Init, ListInv, ExpireInv, IdsOf
<1>2. IInv /\ [Next]_vars => IInv'
  BY TypeStep, ListStep, ExpireStep
<1>3. IInv => ErasesTheCalledEntry
  BY DEF ExpireInv, ErasesTheCalledEntry
<1> QED
  BY <1>1, <1>2, <1>3, PTL DEF Spec

-----------------------------------------------------------------------------
(* The call list, and the refinement of EventHandlerApi.                   *)

InCall == {"inExpire", "inIo", "inDep"}
InRound == {"io", "inIo", "dep", "inDep"}

\* The call list exists only during a round; what is left of it names
\* distinct registrations, none of which is in the event list; and called
\* names the one entry whose handler runs.
BatchInv ==
  /\ pc \notin InRound => elist = <<>>
  /\ \A i, j \in next .. Len(elist) : elist[i].id = elist[j].id => i = j
  /\ \A i \in next .. Len(elist) : elist[i].id \notin IdsOf(eventList)
  /\ called # {} <=> pc \in InCall
  /\ \A e, f \in called : e = f

\* What Collect does: the erased entries, in some order, become the call
\* list; they are distinct and their ids are gone from the event list.
LEMMA CollectBatch ==
  ASSUME TypeOK, ListInv, NEW S \in SUBSET eventList, S # {}, Collect(S)
  PROVE  /\ \A i, j \in next' .. Len(elist') : elist'[i].id = elist'[j].id => i = j
         /\ \A i \in next' .. Len(elist') : elist'[i].id \notin IdsOf(eventList')
         /\ RegOf(Pending') = RegOf(S)
<1>1. PICK s \in InOrder(S) : elist' = [i \in DOMAIN s |-> [s[i] EXCEPT !.t = now]]
  BY DEF Collect
<1>2. /\ s \in Seq(S)
      /\ Len(s) \in Nat
      /\ DOMAIN s = 1 .. Len(s)
      /\ {s[i] : i \in DOMAIN s} = S
  BY <1>1, InOrderType
<1>3. Len(elist') = Len(s) /\ next' = 1
  BY <1>1, <1>2 DEF Collect
<1>4. \A i \in 1 .. Len(s) : s[i] \in S /\ s[i] \in Entry /\ s[i] \in eventList
  BY <1>2 DEF TypeOK
<1>5. \A i \in 1 .. Len(s) : elist'[i].id = s[i].id /\ elist'[i].h = s[i].h
  BY <1>1, <1>2, <1>4 DEF Entry
<1>6. \A i, j \in 1 .. Len(s) : i < j => Precedes(s[i], s[j])
  BY <1>1, <1>2 DEF InOrder
<1>7. \A e \in Entry : ~Precedes(e, e)
  BY ConstantsAssumption DEF Precedes, ListInv, Entry, Time
<1>8. \A i, j \in 1 .. Len(s) : s[i] = s[j] => i = j
  <2> SUFFICES ASSUME NEW i \in 1 .. Len(s), NEW j \in 1 .. Len(s), s[i] = s[j], i # j
               PROVE  FALSE
    OBVIOUS
  <2>1. i < j \/ j < i
    OBVIOUS
  <2> QED
    BY <2>1, <1>4, <1>6, <1>7
<1>9. \A i, j \in 1 .. Len(s) : s[i].id = s[j].id => i = j
  BY <1>4, <1>8 DEF ListInv
<1>10. ASSUME NEW i \in 1 .. Len(s) PROVE s[i].id \notin IdsOf(eventList')
  <2> SUFFICES ASSUME NEW f \in eventList', f.id = s[i].id PROVE FALSE
    BY DEF IdsOf
  <2>1. f \in eventList /\ f \notin S
    BY DEF Collect, Erase
  <2> QED
    BY <2>1, <1>4 DEF ListInv
<1>11. Pending' = {elist'[i] : i \in 1 .. Len(s)}
  BY <1>3 DEF Pending
<1>12. \A i \in 1 .. Len(s) : Reg(elist'[i]) = Reg(s[i])
  BY <1>5 DEF Reg
<1>13. RegOf(Pending') = {Reg(elist'[i]) : i \in 1 .. Len(s)}
  BY <1>11 DEF RegOf
<1>14. RegOf(S) = {Reg(s[i]) : i \in 1 .. Len(s)}
  BY <1>2 DEF RegOf
<1>15. RegOf(Pending') = RegOf(S)
  BY <1>12, <1>13, <1>14
<1> QED
  BY <1>3, <1>5, <1>9, <1>10, <1>15

\* Every step keeps BatchInv.
LEMMA BatchStep ==
  ASSUME TypeOK, ListInv, BatchInv, [Next]_vars
  PROVE  BatchInv'
<1>1. ASSUME NEW id \in Ids, NEW h \in Handles, NEW t \in Time, WaitFor(id, h, t)
      PROVE  BatchInv'
  <2> DEFINE new == [id |-> id, h |-> h, t |-> t]
  <2>1. eventList' = eventList \cup {new} /\ new.id = id
    BY <1>1 DEF WaitFor
  <2>2. UNCHANGED <<elist, next, pc, called>>
    BY <1>1 DEF WaitFor
  <2>3. \A i \in next .. Len(elist) : elist[i].id # id
    BY <1>1 DEF WaitFor, Pending, IdsOf
  <2>4. IdsOf(eventList') \subseteq IdsOf(eventList) \cup {id}
    <3> HIDE DEF new
    <3> QED BY <2>1 DEF IdsOf
  <2> QED
    BY <2>2, <2>3, <2>4 DEF BatchInv
<1>2. CASE CollectIo
  <2>1. ReadyIo \in SUBSET eventList
    BY DEF ReadyIo
  <2>2. called' = called /\ pc = "while" /\ pc' = "io"
    BY <1>2 DEF CollectIo
  <2> QED
    BY <1>2, <2>1, <2>2, CollectBatch DEF CollectIo, BatchInv, InRound, InCall
<1>3. CASE CollectDeps
  <2>1. TriggeredDeps \in SUBSET eventList
    BY DEF TriggeredDeps
  <2>2. called' = called /\ pc = "deps" /\ pc' = "dep"
    BY <1>3 DEF CollectDeps
  <2> QED
    BY <1>3, <2>1, <2>2, CollectBatch DEF CollectDeps, BatchInv, InRound, InCall
<1>4. CASE CallIo \/ CallDep
  <2>1. /\ UNCHANGED <<eventList, elist>>
        /\ next' = next + 1
        /\ called' = {elist[next]}
        /\ pc' \in {"inIo", "inDep"}
    BY <1>4 DEF CallIo, CallDep, CallNext, listVars
  <2>2. next \in Nat /\ Len(elist) \in Nat
    BY DEF TypeOK
  <2>3. \A i \in next' .. Len(elist') : i \in next .. Len(elist)
    BY <2>1, <2>2
  <2> QED
    BY <2>1, <2>3 DEF BatchInv, InRound, InCall
<1>5. CASE ReturnIo \/ ReturnDep
  <2>1. called' = {} /\ UNCHANGED eventList
    BY <1>5 DEF ReturnIo, ReturnDep, listVars
  <2>2. CASE MoreCalls
    <3>1. UNCHANGED <<elist, next>> /\ pc' \in {"io", "dep"}
      BY <1>5, <2>2 DEF ReturnIo, ReturnDep
    <3> QED
      BY <2>1, <3>1 DEF BatchInv, InRound, InCall
  <2>3. CASE ~MoreCalls
    <3>1. elist' = <<>> /\ next' = 1 /\ pc' = "deps"
      BY <1>5, <2>3 DEF ReturnIo, ReturnDep, AfterRound
    <3>2. next' .. Len(elist') = {}
      BY <3>1
    <3> QED
      BY <2>1, <3>1, <3>2 DEF BatchInv, InRound, InCall
  <2> QED
    BY <2>2, <2>3
<1>6. CASE Expire
  BY <1>6 DEF Expire, BatchInv, InRound, InCall, listVars, IdsOf
<1>7. CASE ReturnExpire
  <2>1. eventList' \subseteq eventList
    BY <1>7 DEF ReturnExpire, Erase
  <2> QED
    BY <1>7, <2>1 DEF ReturnExpire, BatchInv, InRound, InCall, IdsOf
<1>8. CASE Start \/ Finish \/ DepsDone
  BY <1>8 DEF Start, Finish, DepsDone, BatchInv, InRound, InCall, listVars, callVars, IdsOf
<1>9. CASE \/ \E d \in Dependents : Complied(d)
           \/ \E h \in FdHandles : Read(h)
           \/ Tick
           \/ \E h \in FdHandles : Arrive(h)
           \/ Terminated \/ UNCHANGED vars
  <2>1. UNCHANGED <<eventList, elist, next, called, pc>>
    BY <1>9 DEF Complied, Read, Tick, Arrive, Terminated, vars, listVars, callVars
  <2> QED
    BY <2>1 DEF BatchInv, IdsOf
<1> QED
  BY <1>1, <1>2, <1>3, <1>4, <1>5, <1>6, <1>7, <1>8, <1>9 DEF Next, Client, Loop, Return

\* Taking one registration out of a set of entries with distinct ids.
LEMMA RegRemove ==
  ASSUME NEW A, NEW e \in A, \A x, y \in A : x.id = y.id => x = y
  PROVE  RegOf(A \ {e}) = RegOf(A) \ {Reg(e)}
<1>1. ASSUME NEW x \in A, Reg(x) = Reg(e) PROVE x = e
  <2>1. Reg(x).id = x.id /\ Reg(e).id = e.id
    BY DEF Reg
  <2> QED
    BY <1>1, <2>1
<1> QED
  BY <1>1 DEF RegOf

\* A step of the loop is a step of EventHandlerApi or changes nothing in it.
LEMMA ApiStep ==
  ASSUME TypeOK, ListInv, ExpireInv, BatchInv, [Next]_vars,
         TypeOK'
  PROVE  [Api!Next]_(Api!apiVars)
<1>a. \A e \in Entry : Reg(e) \in Api!Registration
  BY DEF Reg, Entry, Api!Registration
<1>b. pc \notin InRound => Pending = {}
  BY DEF BatchInv, Pending, TypeOK
<1>1. ASSUME NEW id \in Ids, NEW h \in Handles, NEW t \in Time, WaitFor(id, h, t)
      PROVE  Api!WaitFor([id |-> id, h |-> h])
  <2> DEFINE new == [id |-> id, h |-> h, t |-> t]
  <2>1. /\ eventList' = eventList \cup {new}
        /\ UNCHANGED <<elist, next, pc, called>>
        /\ id \notin IdsOf(eventList) \cup IdsOf(Pending)
    BY <1>1 DEF WaitFor
  <2>2. Pending' = Pending
    BY <2>1 DEF Pending
  <2>3. Reg(new) = [id |-> id, h |-> h]
    BY DEF Reg
  <2>4. new \notin called \/ pc # "inExpire"
    <3> SUFFICES ASSUME pc = "inExpire" PROVE new \notin called
      OBVIOUS
    <3>1. called \subseteq eventList
      BY DEF ExpireInv
    <3> QED
      BY <2>1, <3>1 DEF IdsOf
  <2>5. Waiting' = Waiting \cup {new}
    BY <2>1, <2>4 DEF Waiting
  <2>6. Outstanding' = Outstanding \cup {Reg(new)}
    BY <2>2, <2>5 DEF Outstanding, RegOf
  <2>7. \A q \in Outstanding : q.id # id
    <3> SUFFICES ASSUME NEW e \in Waiting \cup Pending PROVE Reg(e).id # id
      BY DEF Outstanding, RegOf
    <3>1. e.id \in IdsOf(eventList) \cup IdsOf(Pending)
      BY DEF Waiting, IdsOf
    <3> QED
      BY <2>1, <3>1 DEF Reg
  <2>8. RegOf(called)' = RegOf(called)
    BY <2>1 DEF RegOf, Reg
  <2> QED
    BY <2>3, <2>6, <2>7, <2>8 DEF Api!WaitFor
<1>2. CASE Expire
  <2>1. PICK e \in eventList : called' = {e}
    BY <1>2 DEF Expire
  <2>2. /\ pc = "while" /\ pc' = "inExpire" /\ called = {}
        /\ UNCHANGED <<eventList, elist, next>>
    BY <1>2 DEF Expire, listVars, BatchInv, InCall
  <2>3. Pending = {} /\ Pending' = {}
    BY <1>b, <2>2 DEF InRound, Pending
  <2>4. Outstanding = RegOf(eventList) /\ Outstanding' = RegOf(eventList \ {e})
    BY <2>1, <2>2, <2>3 DEF Outstanding, Waiting, RegOf
  <2>5. RegOf(eventList \ {e}) = RegOf(eventList) \ {Reg(e)}
    BY RegRemove DEF ListInv
  <2>6. Reg(e) \in RegOf(eventList) /\ RegOf(called) = {} /\ RegOf(called)' = {Reg(e)}
    BY <2>1, <2>2 DEF RegOf
  <2>7. Api!Deliver(Reg(e))
    BY <2>4, <2>5, <2>6 DEF Api!Deliver
  <2>8. Reg(e) \in Api!Registration
    BY <1>a DEF TypeOK
  <2> QED
    BY <2>7, <2>8 DEF Api!Next
<1>3. CASE ReturnExpire
  <2>1. PICK e \in eventList : IsBegin(e) /\ Erase({e})
    BY <1>3 DEF ReturnExpire
  <2>2. called = {e}
    <3>1. PICK f \in eventList : IsBegin(f) /\ called = {f}
      BY <1>3 DEF ReturnExpire, ExpireInv
    <3> QED
      BY <2>1, <3>1, BeginUnique
  <2>3. /\ pc = "inExpire" /\ pc' = "deps" /\ called' = {}
        /\ eventList' = eventList \ {e}
        /\ UNCHANGED <<elist, next>>
    BY <1>3, <2>1 DEF ReturnExpire, Erase
  <2>4. Pending = {} /\ Pending' = {}
    BY <1>b, <2>3 DEF InRound, Pending
  <2>5. Outstanding' = Outstanding
    BY <2>2, <2>3, <2>4 DEF Outstanding, Waiting, RegOf
  <2>6. RegOf(called) = {Reg(e)} /\ RegOf(called)' = {}
    BY <2>2, <2>3 DEF RegOf
  <2>7. Api!Return(Reg(e))
    BY <2>5, <2>6 DEF Api!Return
  <2> QED
    BY <1>a, <2>7 DEF Api!Next, TypeOK
<1>4. ASSUME NEW S \in SUBSET eventList, S # {}, Collect(S),
             pc \in {"while", "deps"}, pc' \in {"io", "dep"}, UNCHANGED called
      PROVE  UNCHANGED Api!apiVars
  <2>1. Pending = {}
    BY <1>4, <1>b DEF InRound
  <2>2. RegOf(Pending') = RegOf(S)
    BY <1>4, CollectBatch
  <2>3. eventList' = eventList \ S
    BY <1>4 DEF Collect, Erase
  <2>4. Outstanding = RegOf(eventList)
    BY <1>4, <2>1 DEF Outstanding, Waiting
  <2>5. Outstanding' = RegOf(eventList \ S) \cup RegOf(Pending')
    BY <1>4, <2>3 DEF Outstanding, Waiting, RegOf
  <2>6. RegOf(eventList) = RegOf(eventList \ S) \cup RegOf(S)
    BY DEF RegOf
  <2>7. RegOf(called)' = RegOf(called)
    BY <1>4 DEF RegOf, Reg
  <2> QED
    BY <2>2, <2>4, <2>5, <2>6, <2>7 DEF Api!apiVars
<1>5. CASE CallIo \/ CallDep
  <2> DEFINE e == elist[next]
  <2>1. /\ called' = {e} /\ next' = next + 1
        /\ UNCHANGED <<eventList, elist>>
        /\ pc \in {"io", "dep"} /\ pc' \in {"inIo", "inDep"}
    BY <1>5 DEF CallIo, CallDep, CallNext, listVars
  <2>2. next \in 1 .. Len(elist) /\ Len(elist) \in Nat /\ e \in Entry
    BY <2>1 DEF TypeOK
  <2>3. e \in Pending
    BY <2>2 DEF Pending
  <2>4. Pending' = Pending \ {e}
    <3>1. \A i \in next + 1 .. Len(elist) : i \in next .. Len(elist) /\ i # next
      BY <2>2
    <3>2. \A i \in next .. Len(elist) : i = next \/ i \in next + 1 .. Len(elist)
      BY <2>2
    <3>3. \A i \in next + 1 .. Len(elist) : elist[i] # e
      BY <2>2, <3>1 DEF BatchInv
    <3>4. Pending' = {elist[i] : i \in next + 1 .. Len(elist)}
      BY <2>1 DEF Pending
    <3> QED
      BY <3>1, <3>2, <3>3, <3>4 DEF Pending
  <2> DEFINE A == eventList \cup Pending
  <2>5. \A x, y \in A : x.id = y.id => x = y
    <3>1. \A x, y \in Pending : x.id = y.id => x = y
      BY DEF Pending, BatchInv
    <3>2. \A x \in Pending : \A y \in eventList : x.id # y.id
      BY DEF Pending, BatchInv, IdsOf
    <3> QED
      BY <3>1, <3>2 DEF ListInv
  <2>6. e \notin eventList
    BY <2>2 DEF BatchInv, IdsOf
  <2>7. Outstanding = RegOf(A) /\ Outstanding' = RegOf(A \ {e})
    BY <2>1, <2>4, <2>6 DEF Outstanding, Waiting
  <2>8. RegOf(A \ {e}) = RegOf(A) \ {Reg(e)} /\ Reg(e) \in RegOf(A)
    <3> HIDE DEF A, e
    <3>1. e \in A
      BY <2>3 DEF A
    <3> QED
      BY <2>5, <3>1, RegRemove DEF RegOf
  <2>9. RegOf(called) = {} /\ RegOf(called)' = {Reg(e)}
    BY <2>1 DEF RegOf, BatchInv, InCall
  <2>10. Api!Deliver(Reg(e))
    BY <2>7, <2>8, <2>9 DEF Api!Deliver
  <2> QED
    BY <1>a, <2>2, <2>10 DEF Api!Next
<1>6. CASE ReturnIo \/ ReturnDep
  <2>1. /\ called' = {} /\ called # {}
        /\ UNCHANGED eventList
        /\ pc \in {"inIo", "inDep"} /\ pc' # "inExpire"
    BY <1>6 DEF ReturnIo, ReturnDep, AfterRound, listVars, BatchInv, InCall
  <2>2. Pending' = Pending
    <3>1. CASE MoreCalls
      BY <1>6, <3>1 DEF ReturnIo, ReturnDep, Pending
    <3>2. CASE ~MoreCalls
      <4>1. elist' = <<>> /\ next' = 1
        BY <1>6, <3>2 DEF ReturnIo, ReturnDep
      <4>2. next .. Len(elist) = {} /\ next' .. Len(elist') = {}
        BY <3>2, <4>1 DEF MoreCalls, TypeOK
      <4> QED
        BY <4>2 DEF Pending
    <3> QED
      BY <3>1, <3>2
  <2>3. Outstanding' = Outstanding
    BY <2>1, <2>2 DEF Outstanding, Waiting, RegOf, Reg
  <2>4. PICK e \in called : called = {e}
    BY <2>1 DEF BatchInv
  <2>5. RegOf(called) = {Reg(e)} /\ RegOf(called)' = {}
    BY <2>1, <2>4 DEF RegOf
  <2>6. Api!Return(Reg(e))
    BY <2>3, <2>5 DEF Api!Return
  <2> QED
    BY <1>a, <2>6 DEF Api!Next, TypeOK
<1>7. CASE \/ \E d \in Dependents : Complied(d)
           \/ \E h \in FdHandles : Read(h)
           \/ Start \/ Finish \/ DepsDone \/ Tick
           \/ \E h \in FdHandles : Arrive(h)
           \/ Terminated \/ UNCHANGED vars
  <2>1. /\ UNCHANGED <<eventList, elist, next, called>>
        /\ pc' = pc \/ (pc # "inExpire" /\ pc' # "inExpire")
    BY <1>7 DEF Complied, Read, Start, Finish, DepsDone, Tick, Arrive, Terminated, vars,
                listVars, callVars
  <2>2. Outstanding' = Outstanding /\ RegOf(called)' = RegOf(called)
    BY <2>1 DEF Outstanding, Waiting, Pending, RegOf, Reg
  <2> QED
    BY <2>2 DEF Api!apiVars
<1>8. CASE CollectIo
  <2>1. ReadyIo \in SUBSET eventList
    BY DEF ReadyIo
  <2> QED
    BY <1>4, <1>8, <2>1 DEF CollectIo
<1>9. CASE CollectDeps
  <2>1. TriggeredDeps \in SUBSET eventList
    BY DEF TriggeredDeps
  <2> QED
    BY <1>4, <1>9, <2>1 DEF CollectDeps
<1>10. ASSUME NEW id \in Ids, NEW h \in Handles, NEW t \in Time, WaitFor(id, h, t)
       PROVE  Api!Next
  <2>1. [id |-> id, h |-> h] \in Api!Registration
    BY DEF Api!Registration
  <2> QED
    BY <1>1, <1>10, <2>1 DEF Api!Next
<1> QED
  BY <1>2, <1>3, <1>5, <1>6, <1>7, <1>8, <1>9, <1>10 DEF Next, Client, Loop, Return

\* The POSIX loop implements the promise of EventHandlerApi, provided no
\* handler asks for a time before the one it was called with: every waitFor()
\* is answered by exactly one call.
THEOREM ImplementsApi == MinDelay >= 0 => (Spec => ApiSpec)
<1> SUFFICES ASSUME MinDelay >= 0 PROVE Spec => ApiSpec
  OBVIOUS
<1> DEFINE IInv == TypeOK /\ ListInv /\ ExpireInv /\ BatchInv
<1>1. Init => IInv
  <2> SUFFICES ASSUME Init PROVE ListInv /\ ExpireInv /\ BatchInv
    BY TypeInit
  <2> QED
    BY DEF Init, ListInv, ExpireInv, BatchInv, IdsOf, InCall
<1>2. IInv /\ [Next]_vars => IInv'
  BY TypeStep, ListStep, ExpireStep, BatchStep
<1>3. Init => Api!Init
  BY DEF Init, Api!Init, Outstanding, Waiting, Pending, RegOf
<1>4. IInv /\ IInv' /\ [Next]_vars => [Api!Next]_(Api!apiVars)
  BY ApiStep
<1> QED
  BY <1>1, <1>2, <1>3, <1>4, PTL DEF Spec, ApiSpec, Api!Spec
=============================================================================
