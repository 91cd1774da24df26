---------------------------- MODULE Ns2ApiProofs ----------------------------
(***************************************************************************)
(* Proof that the ns-2 backend implements EventHandlerApi: every waitFor() *)
(* is answered by exactly one call of its handler, however handlers nest.  *)
(***************************************************************************)
EXTENDS Ns2TriggerProofs

\* A registration is in one place: in the scheduler's queue, in a handle
\* whose timer is armed, or in the frame of its handler.
IdInv ==
  /\ \A e, f \in queue : e.id = f.id => e = f
  /\ \A h, k \in PendingTimers : slot[h] = slot[k] => h = k
  /\ \A e \in queue, h \in PendingTimers : e.id # slot[h]
  /\ \A i \in DOMAIN stack :
       /\ stack[i].id = NoId <=> stack[i].kind = "main"
       /\ \A e \in queue : e.id # stack[i].id
       /\ \A h \in PendingTimers : slot[h] # stack[i].id
       /\ \A j \in DOMAIN stack : stack[i].id = stack[j].id => i = j

-----------------------------------------------------------------------------
(* Registrations are in one place.                                         *)

\* No registration is moved or added.
LEMMA IdKept ==
  ASSUME IdInv, queue' \subseteq queue,
         \A h \in PendingTimers' : h \in PendingTimers /\ slot'[h] = slot[h],
         \A i \in DOMAIN stack' : /\ i \in DOMAIN stack
                                  /\ stack'[i].id = stack[i].id /\ stack'[i].kind = stack[i].kind
  PROVE  IdInv'
<1> HIDE DEF PendingTimers
<1> QED
  BY DEF IdInv

\* A registration not found elsewhere goes into the frame of its handler.
LEMMA IdPushed ==
  ASSUME IdInv, NEW x, NEW n, n \notin DOMAIN stack, queue' \subseteq queue,
         \A h \in PendingTimers' : h \in PendingTimers /\ slot'[h] = slot[h],
         \A i \in DOMAIN stack : stack'[i].id = stack[i].id /\ stack'[i].kind = stack[i].kind,
         \A i \in DOMAIN stack' : i \in DOMAIN stack \/ i = n,
         stack'[n].id = x, x = NoId <=> stack'[n].kind = "main",
         \A e \in queue' : e.id # x, \A h \in PendingTimers' : slot[h] # x,
         \A i \in DOMAIN stack : stack[i].id # x
  PROVE  IdInv'
<1> HIDE DEF PendingTimers
<1>1. ASSUME NEW i \in DOMAIN stack'
      PROVE  /\ stack'[i].id = NoId <=> stack'[i].kind = "main"
             /\ \A e \in queue' : e.id # stack'[i].id
             /\ \A h \in PendingTimers' : slot'[h] # stack'[i].id
             /\ \A j \in DOMAIN stack' : stack'[i].id = stack'[j].id => i = j
  <2>1. CASE i = n
    BY <2>1
  <2>2. CASE i \in DOMAIN stack
    <3>1. /\ stack[i].id = NoId <=> stack[i].kind = "main"
          /\ \A e \in queue : e.id # stack[i].id
          /\ \A h \in PendingTimers : slot[h] # stack[i].id
          /\ \A j \in DOMAIN stack : stack[i].id = stack[j].id => i = j
      BY <2>2 DEF IdInv
    <3> QED
      BY <2>2, <3>1
  <2> QED
    BY <2>1, <2>2
<1> QED
  BY <1>1 DEF IdInv

\* A fresh registration is not in any of the places.
LEMMA FreshId ==
  ASSUME NEW id, id \notin UsedIds
  PROVE  /\ \A e \in queue : e.id # id
         /\ \A h \in PendingTimers : slot[h] # id
         /\ \A i \in DOMAIN stack : stack[i].id # id
<1>1. \A r \in Registered : r.id # id
  BY DEF UsedIds
<1>2. /\ \A e \in queue : [id |-> e.id, h |-> e.h] \in Registered
      /\ \A h \in PendingTimers : [id |-> slot[h], h |-> h] \in Registered
  BY DEF Registered
<1>3. \A i \in DOMAIN stack : stack[i].id # id
  BY DEF UsedIds
<1>4. /\ \A e \in queue : [id |-> e.id, h |-> e.h].id = e.id
      /\ \A h \in PendingTimers : [id |-> slot[h], h |-> h].id = slot[h]
  OBVIOUS
<1> QED
  BY <1>1, <1>2, <1>3, <1>4, Zenon

\* The scheduler or the script calls a handler: its frame.
LEMMA EnterCall ==
  ASSUME NEW kind \in {"main", "blocker", "expire", "recv", "udpTimeout"},
         NEW h \in Handles \cup {NoHandle}, NEW id \in Ids \cup {NoId}, NEW t \in AbsTime,
         stack = <<>>, Push(Call(kind, h, id, t))
  PROVE  /\ DOMAIN stack = {} /\ DOMAIN stack' = {1}
         /\ stack'[1].kind = kind /\ stack'[1].h = h /\ stack'[1].id = id
         /\ stack'[1].phase = "call"
<1> DEFINE f == Call(kind, h, id, t)
<1>1. f \in Frame /\ f.kind = kind /\ f.h = h /\ f.id = id /\ f.phase = "call"
  BY CallType DEF Call
<1> HIDE DEF f
<1>2. DOMAIN stack' = {1} /\ stack'[1] = f
  BY <1>1, Enter DEF f
<1> QED
  BY <1>1, <1>2

\* A timer leaves the armed ones.
LEMMA Disarmed ==
  ASSUME TypeOK, NEW h \in Timed, NEW v, v # "PENDING", timer' = [timer EXCEPT ![h] = v],
         UNCHANGED slot \/ slot' = [slot EXCEPT ![h] = NoId]
  PROVE  /\ PendingTimers' = PendingTimers \ {h}
         /\ \A k \in PendingTimers' : slot'[k] = slot[k]
<1>1. timer \in [Timed -> {"IDLE", "PENDING", "HANDLING"}] /\ slot \in [Timed -> Ids \cup {NoId}]
  BY DEF TypeOK
<1>2. \A k \in Timed : /\ timer'[k] = "PENDING" <=> timer[k] = "PENDING" /\ k # h
                       /\ k # h => slot'[k] = slot[k]
  BY <1>1
<1>3. PendingTimers' = PendingTimers \ {h}
  BY <1>2 DEF PendingTimers
<1> QED
  BY <1>2, <1>3 DEF PendingTimers

\* A timer joins the armed ones.
LEMMA Armed ==
  ASSUME TypeOK, NEW h \in Timed, NEW t \in AbsTime, NEW id \in Ids, Resched(h, t),
         slot' = [slot EXCEPT ![h] = id]
  PROVE  /\ PendingTimers' = PendingTimers \cup {h}
         /\ slot'[h] = id
         /\ \A k \in PendingTimers : k # h => slot'[k] = slot[k]
<1>1. slot \in [Timed -> Ids \cup {NoId}]
  BY DEF TypeOK
<1>2. timer'[h] = "PENDING" /\ \A k \in Timed : k # h => timer'[k] = timer[k]
  BY ReschedType
<1> QED
  BY <1>1, <1>2 DEF PendingTimers

\* Ending the handling of a timer leaves the armed ones as they are.
LEMMA StillArmed ==
  ASSUME TypeOK, ReturnPlain \/ DrainDone
  PROVE  PendingTimers' = PendingTimers /\ UNCHANGED <<slot, queue>>
<1>1. \A k \in Timed : timer'[k] = "PENDING" <=> timer[k] = "PENDING"
  BY TimerDoneType DEF ReturnPlain, DrainDone
<1> QED
  BY <1>1 DEF ReturnPlain, DrainDone, PendingTimers

\* Every step keeps a registration in one place.
LEMMA IdStep ==
  ASSUME TypeOK, OwedInv, ArmedHasHandler, IdInv, [Next]_vars
  PROVE  IdInv'
<1>0. Dependents \subseteq Timed /\ Readers \subseteq Timed /\ Timed \subseteq Handles
  BY DEF Timed, Handles
<1>1. ASSUME UNCHANGED <<queue, timer, slot, stack>>
      PROVE  IdInv'
  BY <1>1, IdKept DEF PendingTimers
<1>2. ASSUME NEW id \in Ids, NEW t \in AbsTime, NEW h \in Blockers, WaitForBlocker(id, h, t)
      PROVE  IdInv'
  <2> DEFINE e == [id |-> id, h |-> h, t |-> t]
  <2>1. id \notin UsedIds /\ queue' = queue \cup {e} /\ UNCHANGED <<timer, slot, stack>>
    BY <1>2 DEF WaitForBlocker, MayWait, timerVars
  <2>2. e.id = id /\ PendingTimers' = PendingTimers
    BY <2>1 DEF PendingTimers
  <2>3. /\ \A f \in queue : f.id # id
        /\ \A k \in PendingTimers : slot[k] # id
        /\ \A i \in DOMAIN stack : stack[i].id # id
    BY <2>1, FreshId
  <2> HIDE DEF e, PendingTimers
  <2> QED
    BY <2>1, <2>2, <2>3 DEF IdInv
<1>3. ASSUME NEW id \in Ids, NEW t \in AbsTime, NEW h \in Timed, MayWait(id, h, t),
             Resched(h, t), slot' = [slot EXCEPT ![h] = id], UNCHANGED <<queue, stack>>
      PROVE  IdInv'
  <2>1. /\ PendingTimers' = PendingTimers \cup {h} /\ slot'[h] = id
        /\ \A k \in PendingTimers : k # h => slot'[k] = slot[k]
    BY <1>3, Armed
  <2>2. id \notin UsedIds
    BY <1>3 DEF MayWait
  <2>3. /\ \A f \in queue : f.id # id
        /\ \A k \in PendingTimers : slot[k] # id
        /\ \A i \in DOMAIN stack : stack[i].id # id
    BY <2>2, FreshId
  <2> HIDE DEF PendingTimers
  <2> QED
    BY <1>3, <2>1, <2>3 DEF IdInv
<1>4. ASSUME NEW id \in Ids, NEW t \in AbsTime, NEW h \in Dependents, WaitForDepend(id, h, t)
      PROVE  IdInv'
  <2>1. CASE timer[h] = "PENDING"
    BY <1>1, <1>4, <2>1 DEF WaitForDepend, Abort, timerVars
  <2>2. CASE timer[h] # "PENDING"
    BY <1>0, <1>3, <1>4, <2>2 DEF WaitForDepend
  <2> QED
    BY <2>1, <2>2
<1>5. ASSUME NEW id \in Ids, NEW t \in AbsTime, NEW h \in Readers, WaitForReader(id, h, t)
      PROVE  IdInv'
  BY <1>0, <1>3, <1>5 DEF WaitForReader
<1>6. ASSUME NEW id \in Ids, NEW t \in AbsTime, NEW h \in Writers, WaitForWriter(id, h, t)
      PROVE  IdInv'
  <2>1. PICK n : n = Len(stack) + 1
    OBVIOUS
  <2>2. /\ \A i \in DOMAIN stack : i \in DOMAIN stack' /\ stack'[i] = stack[i]
        /\ \A i \in DOMAIN stack' : i \in DOMAIN stack \/ i = n
        /\ stack'[n].id = id /\ stack'[n].kind = "write"
        /\ UNCHANGED <<queue, timer, slot>>
    BY <1>6, <2>1, WriterFrame
  <2>3. id \notin UsedIds /\ id # NoId
    BY <1>6, Ns2Assumption DEF WaitForWriter, MayWait
  <2>4. /\ \A f \in queue : f.id # id
        /\ \A k \in PendingTimers : slot[k] # id
        /\ \A i \in DOMAIN stack : stack[i].id # id
    BY <2>3, FreshId
  <2>5. n \notin DOMAIN stack
    BY <2>1 DEF TypeOK
  <2>6. PendingTimers' = PendingTimers
    BY <2>2 DEF PendingTimers
  <2> HIDE DEF PendingTimers
  <2> QED
    BY <2>2, <2>3, <2>4, <2>5, <2>6, IdPushed
<1>7. CASE ReturnToDrain
  <2>1. \A i \in DOMAIN stack' : /\ i \in DOMAIN stack
                                 /\ stack'[i].id = stack[i].id /\ stack'[i].kind = stack[i].kind
    BY <1>7, ToDrain
  <2> QED
    BY <1>7, <2>1, IdKept DEF ReturnToDrain, timerVars, PendingTimers
<1>8. CASE TakePending
  <2>1. \A i \in DOMAIN stack' : /\ i \in DOMAIN stack
                                 /\ stack'[i].id = stack[i].id /\ stack'[i].kind = stack[i].kind
    BY <1>8, TakeBatch
  <2> QED
    BY <1>8, <2>1, IdKept DEF TakePending, timerVars, PendingTimers
<1>9. CASE ReturnPlain \/ DrainDone
  <2>1. stack # <<>> /\ stack' = Pop
    BY <1>9 DEF ReturnPlain, DrainDone, Running
  <2>2. \A i \in DOMAIN stack' : i \in DOMAIN stack /\ stack'[i] = stack[i]
    BY <2>1, PopStep
  <2>3. PendingTimers' = PendingTimers /\ UNCHANGED <<slot, queue>>
    BY <1>9, StillArmed
  <2> QED
    BY <2>2, <2>3, IdKept
<1>10. CASE CallsServed
  <2>1. PICK n : n = Len(stack) + 1
    OBVIOUS
  <2>2. /\ \A i \in DOMAIN stack : i \in DOMAIN stack'
        /\ \A i \in DOMAIN stack' : i \in DOMAIN stack \/ i = n
        /\ \A i \in DOMAIN stack : stack'[i].id = stack[i].id /\ stack'[i].kind = stack[i].kind
        /\ stack'[n] = Call("pending", Served.h, Served.id, Top.t)
    BY <1>10, <2>1, CallOne
  <2>3. stack'[n].id = Served.id /\ stack'[n].kind = "pending"
    BY <2>2 DEF Call
  <2>4. /\ UNCHANGED <<queue, slot>> /\ timer' = [timer EXCEPT ![Served.h] = "IDLE"]
        /\ Running("drain") /\ Top.todo # <<>> /\ timer[Served.h] = "PENDING"
    BY <1>10, Zenon DEF CallsServed, Cancelled
  <2>5. Served.id = slot[Served.h] /\ Served.h \in PendingTimers /\ Served.h \in Timed
    BY <1>0, <2>4, ServedIntact DEF Intact, PendingTimers
  <2>6. /\ PendingTimers' = PendingTimers \ {Served.h}
        /\ \A k \in PendingTimers' : slot'[k] = slot[k]
    BY <2>4, <2>5, Disarmed
  <2>7. n \notin DOMAIN stack
    BY <2>1 DEF TypeOK
  <2> HIDE DEF PendingTimers
  <2>8. /\ \A e \in queue : e.id # Served.id
        /\ \A k \in PendingTimers' : slot[k] # Served.id
        /\ \A i \in DOMAIN stack : stack[i].id # Served.id
        /\ Served.id # NoId
    BY <2>5, <2>6 DEF IdInv, ArmedHasHandler
  <2> HIDE DEF Served
  <2> QED
    BY <2>2, <2>3, <2>4, <2>6, <2>7, <2>8, IdPushed
<1>11. CASE CallPending
  <2>1. CASE Abort("doPendingEvents: timer is not pending")
    BY <1>1, <2>1 DEF Abort, timerVars
  <2> QED
    BY <1>10, <1>11, <2>1, CallPendingCases
<1>12. ASSUME NEW e \in queue, DispatchBlocker(e)
       PROVE  IdInv'
  <2>1. e.id \in Ids /\ e.h \in Handles /\ e.t \in AbsTime /\ e.id # NoId
    BY Ns2Assumption DEF TypeOK, Handles
  <2>2. /\ stack = <<>> /\ Push(Call("blocker", e.h, e.id, e.t)) /\ queue' = queue \ {e}
        /\ UNCHANGED <<timer, slot>>
    BY <1>12 DEF DispatchBlocker, Idle, timerVars
  <2>3. /\ DOMAIN stack = {} /\ DOMAIN stack' = {1}
        /\ stack'[1].kind = "blocker" /\ stack'[1].id = e.id
    BY <2>1, <2>2, EnterCall
  <2>4. PendingTimers' = PendingTimers
    BY <2>2 DEF PendingTimers
  <2> HIDE DEF PendingTimers
  <2>5. (\A f \in queue' : f.id # e.id) /\ \A k \in PendingTimers' : slot[k] # e.id
    BY <2>2, <2>4 DEF IdInv
  <2> QED
    BY <2>1, <2>2, <2>3, <2>4, <2>5, IdPushed
<1>13. ASSUME NEW h \in Timed, NEW kind \in {"expire", "udpTimeout", "recv"}, NEW t \in AbsTime,
              NEW v, v # "PENDING", timer' = [timer EXCEPT ![h] = v], timer[h] = "PENDING",
              UNCHANGED slot \/ slot' = [slot EXCEPT ![h] = NoId], UNCHANGED queue,
              stack = <<>>, Push(Call(kind, h, slot[h], t))
       PROVE  IdInv'
  <2>1. h \in PendingTimers /\ slot[h] # NoId /\ slot[h] \in Ids /\ h \in Handles
    BY <1>0, <1>13 DEF PendingTimers, ArmedHasHandler, TypeOK
  <2>2. /\ DOMAIN stack = {} /\ DOMAIN stack' = {1}
        /\ stack'[1].kind = kind /\ stack'[1].id = slot[h]
    BY <1>13, <2>1, EnterCall
  <2>3. PendingTimers' = PendingTimers \ {h} /\ \A k \in PendingTimers' : slot'[k] = slot[k]
    BY <1>13, Disarmed
  <2> HIDE DEF PendingTimers
  <2>4. (\A f \in queue : f.id # slot[h]) /\ \A k \in PendingTimers' : slot[k] # slot[h]
    BY <2>1, <2>3 DEF IdInv
  <2>5. PICK x : x = slot[h]
    OBVIOUS
  <2> QED
    BY <1>13, <2>1, <2>2, <2>3, <2>4, <2>5, IdPushed
<1>14. ASSUME NEW d \in Dependents, Expire(d)
       PROVE  IdInv'
  <2>1. Now \in AbsTime
    BY NowType
  <2>2. /\ timer[d] = "PENDING" /\ timer' = [timer EXCEPT ![d] = "HANDLING"]
        /\ UNCHANGED <<slot, queue>> /\ stack = <<>> /\ Push(Call("expire", d, slot[d], Now))
    BY <1>14 DEF Expire, Idle, PendingTimers
  <2> HIDE DEF Now
  <2> QED
    BY <1>0, <1>13, <2>1, <2>2
<1>15. ASSUME NEW h \in Readers, UdpTimeout(h) \/ PacketReceived(h)
       PROVE  IdInv'
  <2>1. Now \in AbsTime /\ timeout[h] \in AbsTime
    BY NowType DEF TypeOK
  <2>2. /\ timer[h] = "PENDING" /\ UNCHANGED queue /\ stack = <<>>
        /\ slot' = [slot EXCEPT ![h] = NoId]
        /\ \/ /\ timer' = [timer EXCEPT ![h] = "HANDLING"]
              /\ Push(Call("udpTimeout", h, slot[h], timeout[h]))
           \/ /\ timer' = [timer EXCEPT ![h] = "IDLE"]
              /\ Push(Call("recv", h, slot[h], Now))
    BY <1>15 DEF UdpTimeout, PacketReceived, Cancelled, Idle, PendingTimers
  <2> HIDE DEF Now
  <2> QED
    BY <1>0, <1>13, <2>1, <2>2
<1>16. ASSUME NEW n \in Nodes, GeaStart(n)
       PROVE  IdInv'
  <2>1. /\ stack = <<>> /\ Push(Call("main", NoHandle, NoId, Now))
        /\ UNCHANGED <<queue, timer, slot>>
    BY <1>16 DEF GeaStart, Idle, timerVars
  <2>2. /\ DOMAIN stack = {} /\ DOMAIN stack' = {1}
        /\ stack'[1].kind = "main" /\ stack'[1].id = NoId
    BY <2>1, NowType, EnterCall
  <2>3. PendingTimers' = PendingTimers
    BY <2>1 DEF PendingTimers
  <2>4. \A e \in queue : e.id # NoId
    BY Ns2Assumption DEF TypeOK
  <2> HIDE DEF PendingTimers
  <2> QED
    BY <2>1, <2>2, <2>3, <2>4, IdPushed DEF ArmedHasHandler
<1>17. CASE \/ \E d \in Dependents : Complied(d)
            \/ Backwards \/ Tick
            \/ \E h \in Readers : PacketDropped(h) \/ PacketInsane(h)
            \/ Halted \/ UNCHANGED vars
  <2>1. UNCHANGED <<queue, timer, slot, stack>>
    BY <1>17 DEF Complied, Backwards, Abort, Tick, PacketDropped, PacketInsane, Halted, vars,
                 timerVars
  <2> QED
    BY <1>1, <2>1
<1> QED
  BY <1>2, <1>4, <1>5, <1>6, <1>7, <1>8, <1>9, <1>11, <1>12, <1>14, <1>15, <1>16, <1>17
  DEF Next, Client, Return, Dispatch
-----------------------------------------------------------------------------
(* The refinement.                                                         *)

\* The registrations in progress when the frames that matter stay.
LEMMA CurrentSame ==
  ASSUME \A i \in DOMAIN stack : stack[i].phase = "call" /\ stack[i].h # NoHandle =>
           /\ i \in DOMAIN stack'
           /\ stack'[i].phase = "call" /\ stack'[i].h = stack[i].h /\ stack'[i].id = stack[i].id,
         \A i \in DOMAIN stack' : stack'[i].phase = "call" /\ stack'[i].h # NoHandle =>
           i \in DOMAIN stack /\ stack[i].phase = "call" /\ stack[i].h # NoHandle
  PROVE  Current' = Current
BY DEF Current

\* A handler is called.
LEMMA CurrentMore ==
  ASSUME NEW n, NEW r, n \in DOMAIN stack', n \notin DOMAIN stack,
         \A i \in DOMAIN stack : i \in DOMAIN stack',
         \A i \in DOMAIN stack' : i \in DOMAIN stack \/ i = n,
         \A i \in DOMAIN stack : /\ stack'[i].phase = stack[i].phase
                                 /\ stack'[i].h = stack[i].h /\ stack'[i].id = stack[i].id,
         stack'[n].phase = "call", stack'[n].h # NoHandle,
         r = [id |-> stack'[n].id, h |-> stack'[n].h]
  PROVE  Current' = Current \cup {r}
<1>1. ASSUME NEW q
      PROVE  q \in Current' => q \in Current \/ q = r
  BY <1>1 DEF Current
<1>2. ASSUME NEW q
      PROVE  q \in Current => q \in Current'
  BY <1>2 DEF Current
<1>3. r \in Current'
  BY DEF Current
<1> QED
  BY <1>1, <1>2, <1>3

\* A handler returns.
LEMMA CurrentLess ==
  ASSUME IdInv, NEW n, NEW r, n \in DOMAIN stack, stack[n].phase = "call",
         stack[n].h # NoHandle, r = [id |-> stack[n].id, h |-> stack[n].h],
         \A i \in DOMAIN stack : i # n => i \in DOMAIN stack' /\ stack'[i] = stack[i],
         \A i \in DOMAIN stack' : i \in DOMAIN stack /\ (i = n => stack'[i].phase # "call")
  PROVE  r \in Current /\ Current' = Current \ {r}
<1>1. r \in Current
  BY DEF Current
<1>2. ASSUME NEW i \in DOMAIN stack, i # n
      PROVE  [id |-> stack[i].id, h |-> stack[i].h] # r
  <2>1. stack[i].id # stack[n].id
    BY <1>2 DEF IdInv
  <2>2. [id |-> stack[i].id, h |-> stack[i].h].id = stack[i].id /\ r.id = stack[n].id
    OBVIOUS
  <2> QED
    BY <2>1, <2>2
<1>3. ASSUME NEW q
      PROVE  q \in Current' => q \in Current /\ q # r
  BY <1>2, <1>3 DEF Current
<1>4. ASSUME NEW q, q # r
      PROVE  q \in Current => q \in Current'
  BY <1>4 DEF Current
<1> QED
  BY <1>1, <1>3, <1>4

\* The registrations waiting when the places that hold them stay.
LEMMA RegisteredSame ==
  ASSUME PendingTimers' = PendingTimers, UNCHANGED <<queue, slot>>
  PROVE  Registered' = Registered
<1> HIDE DEF PendingTimers
<1> QED
  BY DEF Registered

\* A registration joins a handle whose timer was not armed.
LEMMA RegisteredMore ==
  ASSUME NEW h, NEW r, UNCHANGED queue, PendingTimers' = PendingTimers \cup {h},
         h \notin PendingTimers, \A k \in PendingTimers : k # h => slot'[k] = slot[k],
         r = [id |-> slot'[h], h |-> h]
  PROVE  Registered' = Registered \cup {r}
<1> HIDE DEF PendingTimers
<1> QED
  BY DEF Registered

\* A registration leaves its handle.
LEMMA RegisteredLess ==
  ASSUME TypeOK, NEW h \in PendingTimers, NEW r, UNCHANGED queue,
         PendingTimers' = PendingTimers \ {h},
         \A k \in PendingTimers' : slot'[k] = slot[k], r = [id |-> slot[h], h |-> h]
  PROVE  r \in Registered /\ Registered' = Registered \ {r}
<1>1. \A e \in queue : e.h # h
  BY Ns2Assumption DEF TypeOK, PendingTimers
<1> HIDE DEF PendingTimers
<1>2. r \in Registered /\ r.h = h
  BY DEF Registered
<1>3. ASSUME NEW q
      PROVE  q \in Registered' => q \in Registered /\ q # r
  <2>1. \A e \in queue : [id |-> e.id, h |-> e.h].h = e.h
    OBVIOUS
  <2>2. \A k \in PendingTimers' : [id |-> slot'[k], h |-> k].h = k
    OBVIOUS
  <2> QED
    BY <1>1, <1>2, <1>3, <2>1, <2>2 DEF Registered
<1>4. ASSUME NEW q, q # r
      PROVE  q \in Registered => q \in Registered'
  BY <1>4 DEF Registered
<1> QED
  BY <1>2, <1>3, <1>4

\* A step of the backend is a step of EventHandlerApi or changes nothing in it.
LEMMA ApiStep ==
  ASSUME ~SharedHandles, TypeOK, FrameInv, OwedInv, ArmedHasHandler, IdInv, [Next]_vars
  PROVE  [Api!Next]_(Api!apiVars)
<1>0. /\ Dependents \subseteq Timed /\ Readers \subseteq Timed /\ Timed \subseteq Handles
      /\ Blockers \subseteq Handles /\ Writers \subseteq Handles /\ NoHandle \notin Handles
  BY Ns2Assumption DEF Timed, Handles
<1>1. ASSUME UNCHANGED <<queue, timer, slot, stack>>
      PROVE  UNCHANGED Api!apiVars
  <2>1. PendingTimers' = PendingTimers
    BY <1>1 DEF PendingTimers
  <2>2. Registered' = Registered
    BY <1>1, <2>1, RegisteredSame
  <2>3. Current' = Current
    BY <1>1 DEF Current
  <2> QED
    BY <2>2, <2>3 DEF Api!apiVars
<1>2. ASSUME NEW id \in Ids, NEW h \in Handles
      PROVE  /\ [id |-> id, h |-> h] \in Api!Registration
             /\ [id |-> id, h |-> h].id = id /\ [id |-> id, h |-> h].h = h
  BY DEF Api!Registration
<1>3. ASSUME NEW id \in Ids, id \notin UsedIds
      PROVE  (\A q \in Registered : q.id # id) /\ \A q \in Current : q.id # id
  <2>1. \A q \in Registered : q.id # id
    BY <1>3 DEF UsedIds
  <2>2. \A i \in DOMAIN stack : stack[i].id # id
    BY <1>3 DEF UsedIds
  <2>3. ASSUME NEW q \in Current
        PROVE  q.id # id
    <3>1. PICK i \in DOMAIN stack : q = [id |-> stack[i].id, h |-> stack[i].h]
      BY <2>3 DEF Current
    <3> QED
      BY <2>2, <3>1
  <2> QED
    BY <2>1, <2>3
<1>4. ASSUME NEW id \in Ids, NEW t \in AbsTime, NEW h \in Blockers, WaitForBlocker(id, h, t)
      PROVE  Api!Next
  <2> DEFINE r == [id |-> id, h |-> h]
  <2>1. /\ id \notin UsedIds /\ queue' = queue \cup {[id |-> id, h |-> h, t |-> t]}
        /\ UNCHANGED <<timer, slot, stack>>
    BY <1>4 DEF WaitForBlocker, MayWait, timerVars
  <2>2. PendingTimers' = PendingTimers
    BY <2>1 DEF PendingTimers
  <2>3. Registered' = Registered \cup {r}
    <3> DEFINE e == [id |-> id, h |-> h, t |-> t]
    <3>1. e.id = id /\ e.h = h /\ queue' = queue \cup {e}
      BY <2>1
    <3> HIDE DEF e, PendingTimers
    <3> QED
      BY <2>1, <2>2, <3>1 DEF Registered
  <2>4. Current' = Current
    BY <2>1 DEF Current
  <2>5. r \in Api!Registration /\ r.id = id
    BY <1>0, <1>2
  <2> HIDE DEF r
  <2>6. Api!WaitFor(r)
    BY <1>3, <2>1, <2>3, <2>4, <2>5 DEF Api!WaitFor
  <2> QED
    BY <2>5, <2>6 DEF Api!Next
<1>5. ASSUME NEW id \in Ids, NEW t \in AbsTime, NEW h \in Timed, MayWait(id, h, t),
             Resched(h, t), slot' = [slot EXCEPT ![h] = id], UNCHANGED <<queue, stack>>
      PROVE  Api!Next
  <2> DEFINE r == [id |-> id, h |-> h]
  <2>1. id \notin UsedIds /\ h \notin {q.h : q \in Registered}
    BY <1>5 DEF MayWait
  <2>2. h \notin PendingTimers
    <3> SUFFICES ASSUME h \in PendingTimers PROVE FALSE
      OBVIOUS
    <3>1. [id |-> slot[h], h |-> h] \in Registered
      BY DEF Registered
    <3>2. [id |-> slot[h], h |-> h].h = h
      OBVIOUS
    <3> QED
      BY <2>1, <3>1, <3>2, Zenon
  <2>3. /\ PendingTimers' = PendingTimers \cup {h} /\ slot'[h] = id
        /\ \A k \in PendingTimers : k # h => slot'[k] = slot[k]
    BY <1>5, Armed
  <2>4. Registered' = Registered \cup {r}
    BY <1>5, <2>2, <2>3, RegisteredMore
  <2>5. Current' = Current
    BY <1>5 DEF Current
  <2>6. r \in Api!Registration /\ r.id = id
    BY <1>0, <1>2
  <2> HIDE DEF r
  <2>7. Api!WaitFor(r)
    BY <1>3, <2>1, <2>4, <2>5, <2>6 DEF Api!WaitFor
  <2> QED
    BY <2>6, <2>7 DEF Api!Next
<1>6. ASSUME NEW id \in Ids, NEW t \in AbsTime, NEW h \in Dependents, WaitForDepend(id, h, t)
      PROVE  Api!Next \/ UNCHANGED Api!apiVars
  <2>1. CASE timer[h] = "PENDING"
    BY <1>1, <1>6, <2>1 DEF WaitForDepend, Abort, timerVars
  <2>2. CASE timer[h] # "PENDING"
    BY <1>0, <1>5, <1>6, <2>2 DEF WaitForDepend
  <2> QED
    BY <2>1, <2>2
<1>7. ASSUME NEW id \in Ids, NEW t \in AbsTime, NEW h \in Readers, WaitForReader(id, h, t)
      PROVE  Api!Next
  BY <1>0, <1>5, <1>7 DEF WaitForReader
<1>8. ASSUME NEW id \in Ids, NEW t \in AbsTime, NEW h \in Writers, WaitForWriter(id, h, t)
      PROVE  Api!Next
  <2> DEFINE r == [id |-> id, h |-> h]
  <2>1. PICK n : n = Len(stack) + 1
    OBVIOUS
  <2>2. /\ \A i \in DOMAIN stack : i \in DOMAIN stack' /\ stack'[i] = stack[i]
        /\ \A i \in DOMAIN stack' : i \in DOMAIN stack \/ i = n
        /\ stack'[n].id = id /\ stack'[n].h = h /\ stack'[n].phase = "call"
        /\ h # NoHandle
        /\ UNCHANGED <<queue, timer, slot>>
    BY <1>8, <2>1, WriterFrame
  <2>3. n \in DOMAIN stack' /\ n \notin DOMAIN stack
    <3>1. Call("write", h, id, t) \in Frame
      BY <1>0, CallType
    <3>2. stack' = Append(stack, Call("write", h, id, t))
      BY <1>8 DEF WaitForWriter, Push
    <3>3. DOMAIN stack = 1 .. Len(stack) /\ DOMAIN stack' = 1 .. Len(stack) + 1 /\ Len(stack) \in Nat
      BY <3>1, <3>2, PushStep
    <3> QED
      BY <2>1, <3>3
  <2>4. Current' = Current \cup {r}
    BY <2>2, <2>3, CurrentMore
  <2>5. PendingTimers' = PendingTimers
    BY <2>2 DEF PendingTimers
  <2>6. Registered' = Registered
    BY <2>2, <2>5, RegisteredSame
  <2>7. id \notin UsedIds
    BY <1>8 DEF WaitForWriter, MayWait
  <2>8. r \in Api!Registration /\ r.id = id
    BY <1>0, <1>2
  <2> HIDE DEF r
  <2>9. Api!CallAtOnce(r)
    BY <1>3, <2>4, <2>6, <2>7, <2>8 DEF Api!CallAtOnce
  <2> QED
    BY <2>8, <2>9 DEF Api!Next
<1>9. ASSUME NEW n \in DOMAIN stack, stack[n].phase = "call", stack[n].h # NoHandle,
             \A i \in DOMAIN stack : i # n => i \in DOMAIN stack' /\ stack'[i] = stack[i],
             \A i \in DOMAIN stack' : i \in DOMAIN stack /\ (i = n => stack'[i].phase # "call"),
             PendingTimers' = PendingTimers, UNCHANGED <<queue, slot>>
      PROVE  Api!Next
  <2> DEFINE r == [id |-> stack[n].id, h |-> stack[n].h]
  <2>1. r \in Current /\ Current' = Current \ {r}
    BY <1>9, CurrentLess
  <2>2. Registered' = Registered
    BY <1>9, RegisteredSame
  <2>3. stack[n] \in Frame
    BY DEF TypeOK
  <2>4. stack[n].kind # "main"
    BY <1>9 DEF FrameInv
  <2>5. stack[n].id # NoId
    BY <2>4 DEF IdInv
  <2>6. stack[n].id \in Ids /\ stack[n].h \in Handles
    BY <1>9, <2>3, <2>5 DEF Frame
  <2>7. r \in Api!Registration
    BY <1>2, <2>6
  <2> HIDE DEF r
  <2>8. Api!Return(r)
    BY <2>1, <2>2 DEF Api!Return
  <2> QED
    BY <2>7, <2>8 DEF Api!Next
<1>10. CASE ReturnToDrain
  <2>1. PICK n : n = Len(stack)
    OBVIOUS
  <2>2. /\ n \in DOMAIN stack /\ DOMAIN stack' = DOMAIN stack
        /\ \A i \in DOMAIN stack : i # n => stack'[i] = stack[i]
        /\ stack'[n].phase = "drain" /\ stack[n].phase = "call" /\ stack[n].kind \in Draining
    BY <1>10, <2>1, ToDrain
  <2>3. stack[n].h # NoHandle
    BY <2>2 DEF FrameInv, Draining
  <2>4. PendingTimers' = PendingTimers /\ UNCHANGED <<queue, slot>>
    BY <1>10 DEF ReturnToDrain, timerVars, PendingTimers
  <2> HIDE DEF PendingTimers
  <2> QED
    BY <1>9, <2>2, <2>3, <2>4
<1>11. CASE ReturnPlain \/ DrainDone
  <2>1. stack # <<>> /\ stack' = Pop
    BY <1>11 DEF ReturnPlain, DrainDone, Running
  <2>2. PICK n : n = Len(stack)
    OBVIOUS
  <2>3. /\ \A i \in DOMAIN stack' : i \in DOMAIN stack /\ i # n /\ stack'[i] = stack[i]
        /\ \A i \in DOMAIN stack : i # n => i \in DOMAIN stack'
    BY <2>1, <2>2, PopStep
  <2>4. n \in DOMAIN stack /\ Top = stack[n]
    BY <2>1, <2>2, TopType
  <2>5. PendingTimers' = PendingTimers /\ UNCHANGED <<slot, queue>>
    BY <1>11, StillArmed
  <2> HIDE DEF PendingTimers
  <2>6. CASE stack[n].phase = "call" /\ stack[n].h # NoHandle
    BY <1>9, <2>3, <2>4, <2>5, <2>6
  <2>7. CASE ~(stack[n].phase = "call" /\ stack[n].h # NoHandle)
    <3>1. Current' = Current
      BY <2>3, <2>4, <2>7, CurrentSame
    <3>2. Registered' = Registered
      BY <2>5, RegisteredSame
    <3> QED
      BY <3>1, <3>2 DEF Api!apiVars
  <2> QED
    BY <2>6, <2>7
<1>12. CASE TakePending
  <2>1. /\ DOMAIN stack' = DOMAIN stack
        /\ \A i \in DOMAIN stack : /\ stack'[i].h = stack[i].h /\ stack'[i].id = stack[i].id
                                   /\ stack'[i].phase = stack[i].phase
    BY <1>12, TakeBatch
  <2>2. Current' = Current
    BY <2>1, CurrentSame
  <2>3. PendingTimers' = PendingTimers /\ UNCHANGED <<queue, slot>>
    BY <1>12 DEF TakePending, timerVars, PendingTimers
  <2>4. Registered' = Registered
    BY <2>3, RegisteredSame
  <2> QED
    BY <2>2, <2>4 DEF Api!apiVars
<1>13. ASSUME NEW h \in PendingTimers, NEW n, n \in DOMAIN stack', n \notin DOMAIN stack,
              \A i \in DOMAIN stack : i \in DOMAIN stack',
              \A i \in DOMAIN stack' : i \in DOMAIN stack \/ i = n,
              \A i \in DOMAIN stack : /\ stack'[i].phase = stack[i].phase
                                      /\ stack'[i].h = stack[i].h /\ stack'[i].id = stack[i].id,
              stack'[n].phase = "call", stack'[n].h = h, stack'[n].id = slot[h],
              PendingTimers' = PendingTimers \ {h},
              \A k \in PendingTimers' : slot'[k] = slot[k], UNCHANGED queue
       PROVE  Api!Next
  <2> DEFINE r == [id |-> slot[h], h |-> h]
  <2>1. h \in Handles /\ slot[h] \in Ids
    BY <1>0 DEF PendingTimers, TypeOK, ArmedHasHandler
  <2> HIDE DEF PendingTimers
  <2>2. r \in Registered /\ Registered' = Registered \ {r}
    BY <1>13, RegisteredLess
  <2>3. Current' = Current \cup {r}
    BY <1>0, <1>13, <2>1, CurrentMore
  <2>4. r \in Api!Registration
    BY <1>2, <2>1
  <2> HIDE DEF r
  <2>5. Api!Deliver(r)
    BY <2>2, <2>3 DEF Api!Deliver
  <2> QED
    BY <2>4, <2>5 DEF Api!Next
<1>14. CASE CallsServed
  <2>1. PICK n : n = Len(stack) + 1
    OBVIOUS
  <2>2. /\ \A i \in DOMAIN stack : i \in DOMAIN stack'
        /\ \A i \in DOMAIN stack' : i \in DOMAIN stack \/ i = n
        /\ \A i \in DOMAIN stack : /\ stack'[i].phase = stack[i].phase
                                   /\ stack'[i].h = stack[i].h /\ stack'[i].id = stack[i].id
        /\ stack'[n] = Call("pending", Served.h, Served.id, Top.t)
        /\ DOMAIN stack' = 1 .. n /\ Len(stack) \in Nat
    BY <1>14, <2>1, CallOne
  <2>3. n \in DOMAIN stack' /\ n \notin DOMAIN stack
    BY <2>1, <2>2 DEF TypeOK
  <2>4. stack'[n].id = Served.id /\ stack'[n].h = Served.h /\ stack'[n].phase = "call"
    BY <2>2 DEF Call
  <2>5. /\ UNCHANGED <<queue, slot>> /\ timer' = [timer EXCEPT ![Served.h] = "IDLE"]
        /\ Running("drain") /\ Top.todo # <<>> /\ timer[Served.h] = "PENDING"
    BY <1>14, Zenon DEF CallsServed, Cancelled
  <2>6. Served.id = slot[Served.h] /\ Served.h \in PendingTimers /\ Served.h \in Timed
    BY <1>0, <2>5, ServedIntact DEF Intact, PendingTimers
  <2>7. /\ PendingTimers' = PendingTimers \ {Served.h}
        /\ \A k \in PendingTimers' : slot'[k] = slot[k]
    BY <2>5, <2>6, Disarmed
  <2>8. PICK h : h = Served.h
    OBVIOUS
  <2> HIDE DEF PendingTimers, Served
  <2> QED
    BY <1>13, <2>2, <2>3, <2>4, <2>5, <2>6, <2>7, <2>8
<1>15. CASE CallPending
  <2>1. CASE Abort("doPendingEvents: timer is not pending")
    BY <1>1, <2>1 DEF Abort, timerVars
  <2> QED
    BY <1>14, <1>15, <2>1, CallPendingCases
<1>16. ASSUME NEW e \in queue, DispatchBlocker(e)
       PROVE  Api!Next
  <2> DEFINE r == [id |-> e.id, h |-> e.h]
  <2>1. e.id \in Ids /\ e.h \in Blockers /\ e.h \in Handles /\ e.t \in AbsTime /\ e.h \notin Timed
    BY <1>0, Ns2Assumption DEF TypeOK
  <2>2. /\ stack = <<>> /\ Push(Call("blocker", e.h, e.id, e.t)) /\ queue' = queue \ {e}
        /\ UNCHANGED <<timer, slot>>
    BY <1>16 DEF DispatchBlocker, Idle, timerVars
  <2>3. /\ DOMAIN stack = {} /\ DOMAIN stack' = {1}
        /\ stack'[1].h = e.h /\ stack'[1].id = e.id /\ stack'[1].phase = "call"
    BY <2>1, <2>2, EnterCall
  <2>4. Current' = Current \cup {r}
    BY <1>0, <2>1, <2>3, CurrentMore
  <2>5. PendingTimers' = PendingTimers /\ \A k \in PendingTimers : k # e.h
    BY <2>1, <2>2 DEF PendingTimers
  <2> HIDE DEF PendingTimers
  <2>6. r \in Registered /\ r.id = e.id /\ r.h = e.h
    BY DEF Registered
  <2>7. ASSUME NEW f \in queue, f # e
        PROVE  [id |-> f.id, h |-> f.h] # r
    <3>1. f.id # e.id
      BY <2>7 DEF IdInv
    <3>2. [id |-> f.id, h |-> f.h].id = f.id
      OBVIOUS
    <3> QED
      BY <2>6, <3>1, <3>2
  <2>8. \A k \in PendingTimers : [id |-> slot[k], h |-> k] # r
    <3>1. \A k \in PendingTimers : [id |-> slot[k], h |-> k].h = k
      OBVIOUS
    <3> QED
      BY <2>5, <2>6, <3>1
  <2>9. r \in Api!Registration
    BY <1>2, <2>1
  <2> HIDE DEF r
  <2>10. ASSUME NEW q
         PROVE  q \in Registered' => q \in Registered /\ q # r
    BY <2>2, <2>5, <2>7, <2>8 DEF Registered
  <2>11. ASSUME NEW q, q # r
         PROVE  q \in Registered => q \in Registered'
    BY <2>2, <2>5, <2>11 DEF Registered, r
  <2>12. Registered' = Registered \ {r}
    BY <2>10, <2>11
  <2>13. Api!Deliver(r)
    BY <2>4, <2>6, <2>12 DEF Api!Deliver
  <2> QED
    BY <2>9, <2>13 DEF Api!Next
<1>17. ASSUME NEW h \in Timed, NEW kind \in {"expire", "udpTimeout", "recv"}, NEW t \in AbsTime,
              NEW v, v # "PENDING", timer' = [timer EXCEPT ![h] = v], timer[h] = "PENDING",
              UNCHANGED slot \/ slot' = [slot EXCEPT ![h] = NoId], UNCHANGED queue,
              stack = <<>>, Push(Call(kind, h, slot[h], t))
       PROVE  Api!Next
  <2>1. h \in PendingTimers /\ slot[h] \in Ids \cup {NoId} /\ h \in Handles
    BY <1>0, <1>17 DEF PendingTimers, TypeOK
  <2>2. /\ DOMAIN stack = {} /\ DOMAIN stack' = {1}
        /\ stack'[1].h = h /\ stack'[1].id = slot[h] /\ stack'[1].phase = "call"
    BY <1>17, <2>1, EnterCall
  <2>3. PendingTimers' = PendingTimers \ {h} /\ \A k \in PendingTimers' : slot'[k] = slot[k]
    BY <1>17, Disarmed
  <2> HIDE DEF PendingTimers
  <2> QED
    BY <1>13, <1>17, <2>1, <2>2, <2>3
<1>18. ASSUME NEW d \in Dependents, Expire(d)
       PROVE  Api!Next
  <2>1. Now \in AbsTime
    BY NowType
  <2>2. /\ timer[d] = "PENDING" /\ timer' = [timer EXCEPT ![d] = "HANDLING"]
        /\ UNCHANGED <<slot, queue>> /\ stack = <<>> /\ Push(Call("expire", d, slot[d], Now))
    BY <1>18 DEF Expire, Idle, PendingTimers
  <2> HIDE DEF Now
  <2> QED
    BY <1>0, <1>17, <2>1, <2>2
<1>19. ASSUME NEW h \in Readers, UdpTimeout(h) \/ PacketReceived(h)
       PROVE  Api!Next
  <2>1. Now \in AbsTime /\ timeout[h] \in AbsTime
    BY NowType DEF TypeOK
  <2>2. /\ timer[h] = "PENDING" /\ UNCHANGED queue /\ stack = <<>>
        /\ slot' = [slot EXCEPT ![h] = NoId]
        /\ \/ /\ timer' = [timer EXCEPT ![h] = "HANDLING"]
              /\ Push(Call("udpTimeout", h, slot[h], timeout[h]))
           \/ /\ timer' = [timer EXCEPT ![h] = "IDLE"]
              /\ Push(Call("recv", h, slot[h], Now))
    BY <1>19 DEF UdpTimeout, PacketReceived, Cancelled, Idle, PendingTimers
  <2> HIDE DEF Now
  <2> QED
    BY <1>0, <1>17, <2>1, <2>2
<1>20. ASSUME NEW n \in Nodes, GeaStart(n)
       PROVE  UNCHANGED Api!apiVars
  <2>1. /\ stack = <<>> /\ Push(Call("main", NoHandle, NoId, Now))
        /\ UNCHANGED <<queue, timer, slot>>
    BY <1>20 DEF GeaStart, Idle, timerVars
  <2>2. DOMAIN stack = {} /\ DOMAIN stack' = {1} /\ stack'[1].h = NoHandle
    BY <2>1, NowType, EnterCall
  <2>3. Current' = Current
    BY <2>2, CurrentSame
  <2>4. PendingTimers' = PendingTimers
    BY <2>1 DEF PendingTimers
  <2>5. Registered' = Registered
    BY <2>1, <2>4, RegisteredSame
  <2> QED
    BY <2>3, <2>5 DEF Api!apiVars
<1>21. CASE \/ \E d \in Dependents : Complied(d)
            \/ Backwards \/ Tick
            \/ \E h \in Readers : PacketDropped(h) \/ PacketInsane(h)
            \/ Halted \/ UNCHANGED vars
  <2>1. UNCHANGED <<queue, timer, slot, stack>>
    BY <1>21 DEF Complied, Backwards, Abort, Tick, PacketDropped, PacketInsane, Halted, vars,
                 timerVars
  <2> QED
    BY <1>1, <2>1
<1> QED
  BY <1>4, <1>6, <1>7, <1>8, <1>10, <1>11, <1>12, <1>15, <1>16, <1>18, <1>19, <1>20, <1>21
  DEF Next, Client, Return, Dispatch

\* The ns-2 backend implements the promise of EventHandlerApi, provided each
\* handle has one waiter and triggers are served: every waitFor() is answered
\* by exactly one call, for any number of registrations and any nesting of
\* the handlers.
THEOREM ImplementsApi == ~SharedHandles /\ TriggersServed => (Spec => ApiSpec)
<1> SUFFICES ASSUME ~SharedHandles, TriggersServed PROVE Spec => ApiSpec
  OBVIOUS
<1> DEFINE IInv == TriggerInv /\ ArmedHasHandler /\ IdInv
<1>0. Init => PendingTimers = {} /\ queue = {} /\ stack = <<>> /\ DOMAIN stack = {}
  <2> SUFFICES ASSUME Init PROVE PendingTimers = {} /\ queue = {} /\ stack = <<>>
    OBVIOUS
  <2> QED
    BY DEF Init, PendingTimers
<1>1. Init => IInv
  <2> SUFFICES ASSUME Init PROVE ArmedHasHandler /\ IdInv
    BY TriggerInit
  <2> QED
    BY <1>0 DEF ArmedHasHandler, IdInv
<1>2. IInv /\ [Next]_vars => IInv'
  BY TriggerStep, ArmedStep, IdStep DEF TriggerInv
<1>3. Init => Api!Init
  BY <1>0 DEF Api!Init, Registered, Current
<1>4. IInv /\ [Next]_vars => [Api!Next]_(Api!apiVars)
  BY ApiStep DEF TriggerInv
<1> QED
  BY <1>1, <1>2, <1>3, <1>4, PTL DEF Spec, ApiSpec, Api!Spec
=============================================================================
