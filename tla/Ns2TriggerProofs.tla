-------------------------- MODULE Ns2TriggerProofs --------------------------
(***************************************************************************)
(* Proofs about the ns-2 backend: a triggered handler finds its handle as  *)
(* complied() left it, and no assertion stops the simulation.              *)
(***************************************************************************)
EXTENDS Ns2EventHandlerProofs

\* The batches of triggers still to be served: pendingList, as number 0, and
\* what each doPendingEvents in progress has left of the one it took.
Batches == {0} \cup DOMAIN stack
Batch(i) == IF i = 0 THEN pendingList ELSE stack[i].todo

\* The record p of a trigger is intact: its timer is armed, for the
\* registration recorded, and its handle is Ready.
Intact(p) == timer[p.h] = "PENDING" /\ status[p.h] = "Ready" /\ p.id = slot[p.h]

\* Triggers still to be served are intact, and each handle has at most one.
OwedInv ==
  \A i \in Batches : \A j \in DOMAIN Batch(i) :
    /\ Intact(Batch(i)[j])
    /\ \A m \in Batches : \A k \in DOMAIN Batch(m) :
         Batch(i)[j].h = Batch(m)[k].h => i = m /\ j = k

\* A handle that is Blocked has its timer armed, so a trigger or a packet
\* that finds it Blocked can cancel the timer; an armed handle has been
\* waited on.
BlockedInv ==
  \A h \in Timed :
    /\ status[h] = "Blocked" => timer[h] = "PENDING"
    /\ timer[h] = "PENDING" => status[h] # "Undefined"

\* On a node whose gea_main has returned, every receiving handle has been
\* waited on.
StartInv ==
  \A u \in Readers : NodeOf[u] \in started =>
    \/ status[u] # "Undefined"
    \/ stack # <<>> /\ stack[1].kind = "main" /\ currentNode = NodeOf[u]

\* Nothing is scheduled in the past, and a packet's timer is set for its
\* timeout, with less than a unit of AbsTime to spare.
FutureInv ==
  /\ \A e \in queue : clock <= e.t
  /\ \A h \in PendingTimers : clock <= at[h]
  /\ \A h \in Readers : timer[h] = "PENDING" => at[h] - timeout[h] < Gran

\* The event time of a running handler, and that of every handler it
\* interrupted, is behind the clock by less than a unit of AbsTime.
RecentInv ==
  stack # <<>> => /\ clock - lastEventTime < Gran
                  /\ \A i \in DOMAIN stack : clock - stack[i].t < Gran

-----------------------------------------------------------------------------
(* Triggers still to be served.                                            *)

\* Batches hold records of triggers.
LEMMA BatchType ==
  ASSUME TypeOK
  PROVE  /\ 0 \notin DOMAIN stack
         /\ \A i \in Batches : Batch(i) \in Seq(PendingEvent)
         /\ \A i \in Batches : \A j \in DOMAIN Batch(i) : Batch(i)[j].h \in Dependents
<1>1. stack \in Seq(Frame) /\ pendingList \in Seq(PendingEvent)
  BY DEF TypeOK
<1>2. 0 \notin DOMAIN stack /\ \A i \in DOMAIN stack : stack[i] \in Frame
  BY <1>1
<1>3. \A i \in Batches : Batch(i) \in Seq(PendingEvent)
  BY <1>1, <1>2 DEF Batches, Batch, Frame
<1>4. \A i \in Batches : \A j \in DOMAIN Batch(i) : Batch(i)[j] \in PendingEvent
  BY <1>3
<1> QED
  BY <1>2, <1>3, <1>4 DEF PendingEvent

\* A step that leaves the batches as they are, or drops some, and the handles
\* that have been triggered as they are.
LEMMA OwedKept ==
  ASSUME TypeOK, OwedInv,
         \A i \in Batches' : DOMAIN Batch(i)' # {} => i \in Batches /\ Batch(i)' = Batch(i),
         \A h \in Dependents : timer[h] = "PENDING" /\ status[h] = "Ready" =>
           timer'[h] = "PENDING" /\ status'[h] = "Ready" /\ slot'[h] = slot[h]
  PROVE  OwedInv'
<1>1. ASSUME NEW i \in Batches', NEW j \in DOMAIN Batch(i)'
      PROVE  i \in Batches /\ Batch(i)' = Batch(i) /\ j \in DOMAIN Batch(i)
  BY <1>1
<1> SUFFICES ASSUME NEW i \in Batches', NEW j \in DOMAIN Batch(i)'
             PROVE  /\ Intact(Batch(i)[j])'
                    /\ \A m \in Batches' : \A k \in DOMAIN Batch(m)' :
                         Batch(i)'[j].h = Batch(m)'[k].h => i = m /\ j = k
  BY DEF OwedInv
<1> HIDE DEF Batch, Batches
<1>2. i \in Batches /\ Batch(i)' = Batch(i) /\ j \in DOMAIN Batch(i)
  BY <1>1
<1>3. Batch(i)[j].h \in Dependents /\ Intact(Batch(i)[j])
  BY <1>2, BatchType DEF OwedInv
<1>4. Intact(Batch(i)[j])'
  BY <1>2, <1>3 DEF Intact
<1>5. ASSUME NEW m \in Batches', NEW k \in DOMAIN Batch(m)', Batch(i)'[j].h = Batch(m)'[k].h
      PROVE  i = m /\ j = k
  <2>1. m \in Batches /\ Batch(m)' = Batch(m) /\ k \in DOMAIN Batch(m)
    BY <1>1
  <2> QED
    BY <1>2, <1>5, <2>1 DEF OwedInv
<1> QED
  BY <1>4, <1>5

\* complied(): the handle was Blocked, so no trigger of it was owed.
LEMMA OwedTriggered ==
  ASSUME TypeOK, OwedInv, BlockedInv, NEW d \in Dependents, Complied(d)
  PROVE  OwedInv'
<1> DEFINE p == [h |-> d, id |-> slot[d]]
           n == Len(pendingList) + 1
<1>1. /\ status[d] = "Blocked" /\ status' = [status EXCEPT ![d] = "Ready"]
      /\ pendingList' = Append(pendingList, p)
      /\ UNCHANGED <<timer, slot, stack>>
  BY DEF Complied, Triggered, timerVars
<1>2. d \in Timed /\ d \in Handles /\ status \in [Handles -> Status]
  BY DEF Timed, Handles, TypeOK
<1>3. pendingList \in Seq(PendingEvent) /\ p \in PendingEvent /\ p.h = d /\ p.id = slot[d]
  BY <1>2 DEF TypeOK, PendingEvent
<1> HIDE DEF p
<1>4. /\ n \notin DOMAIN pendingList /\ pendingList'[n] = p
      /\ DOMAIN pendingList' = DOMAIN pendingList \cup {n}
      /\ \A j \in DOMAIN pendingList : pendingList'[j] = pendingList[j]
  BY <1>1, <1>3
<1> HIDE DEF n
<1>5. Batches' = Batches /\ 0 \in Batches /\ \A i \in Batches : i # 0 => Batch(i)' = Batch(i)
  BY <1>1 DEF Batches, Batch
<1>6. Batch(0) = pendingList /\ Batch(0)' = pendingList'
  BY DEF Batch
<1> HIDE DEF Batch, Batches
<1> DEFINE Kept(q) == timer'[q.h] = "PENDING" /\ status'[q.h] = "Ready" /\ q.id = slot'[q.h]
<1>7. ASSUME NEW i \in Batches, NEW j \in DOMAIN Batch(i)
      PROVE  Batch(i)[j].h # d /\ Kept(Batch(i)[j])
  <2>1. Batch(i)[j].h \in Dependents /\ Intact(Batch(i)[j])
    BY <1>7, BatchType DEF OwedInv
  <2>2. Batch(i)[j].h # d
    BY <1>1, <2>1 DEF Intact
  <2>3. status'[Batch(i)[j].h] = status[Batch(i)[j].h]
    BY <1>1, <1>2, <2>1, <2>2 DEF Handles
  <2> QED
    BY <1>1, <2>1, <2>2, <2>3 DEF Intact
<1>8. Kept(p)
  BY <1>1, <1>2, <1>3 DEF BlockedInv
<1>9. ASSUME NEW i \in Batches', NEW j \in DOMAIN Batch(i)'
      PROVE  \/ i \in Batches /\ j \in DOMAIN Batch(i) /\ Batch(i)'[j] = Batch(i)[j]
             \/ i = 0 /\ j = n /\ Batch(i)'[j] = p
  BY <1>4, <1>5, <1>6
<1>10. ASSUME NEW i \in Batches', NEW j \in DOMAIN Batch(i)'
       PROVE  Intact(Batch(i)[j])'
  <2>1. Kept(Batch(i)'[j])
    BY <1>7, <1>8, <1>9
  <2> QED
    BY <2>1 DEF Intact
<1>11. ASSUME NEW i \in Batches', NEW j \in DOMAIN Batch(i)',
              NEW m \in Batches', NEW k \in DOMAIN Batch(m)', Batch(i)'[j].h = Batch(m)'[k].h
       PROVE  i = m /\ j = k
  <2> HIDE DEF Kept
  <2>1. CASE i = 0 /\ j = n /\ Batch(i)'[j] = p
    BY <1>3, <1>7, <1>9, <1>11, <2>1
  <2>2. CASE m = 0 /\ k = n /\ Batch(m)'[k] = p
    BY <1>3, <1>7, <1>9, <1>11, <2>2
  <2>3. CASE /\ i \in Batches /\ j \in DOMAIN Batch(i) /\ Batch(i)'[j] = Batch(i)[j]
             /\ m \in Batches /\ k \in DOMAIN Batch(m) /\ Batch(m)'[k] = Batch(m)[k]
    BY <1>11, <2>3 DEF OwedInv
  <2> QED
    BY <1>9, <2>1, <2>2, <2>3
<1> QED
  BY <1>10, <1>11 DEF OwedInv

\* doPendingEvents takes pendingList as its batch: what was batch 0 is now
\* that of the innermost call, which had none left.
LEMMA OwedTaken ==
  ASSUME TypeOK, OwedInv, TakePending
  PROVE  OwedInv'
<1>0. PICK n : n = Len(stack)
  OBVIOUS
<1>1. /\ DOMAIN stack' = DOMAIN stack /\ n \in DOMAIN stack
      /\ \A i \in DOMAIN stack : i # n => stack'[i] = stack[i]
      /\ stack'[n].todo = pendingList /\ pendingList' = <<>>
  BY <1>0, TakeBatch
<1>2. UNCHANGED <<timer, status, slot>>
  BY DEF TakePending, timerVars
<1>3. 0 \notin DOMAIN stack
  BY BatchType
<1>4. /\ Batches' = Batches /\ n \in Batches /\ 0 \in Batches /\ n # 0
      /\ Batch(0)' = <<>> /\ Batch(n)' = Batch(0)
      /\ \A i \in Batches : i # 0 /\ i # n => Batch(i)' = Batch(i)
  BY <1>1, <1>3 DEF Batches, Batch
<1> HIDE DEF Batch, Batches
<1> DEFINE Was(i) == IF i = n THEN 0 ELSE i
<1>5. ASSUME NEW i \in Batches', NEW j \in DOMAIN Batch(i)'
      PROVE  /\ Was(i) \in Batches /\ j \in DOMAIN Batch(Was(i)) /\ Batch(i)' = Batch(Was(i))
             /\ i # 0
  BY <1>4, <1>5
<1>6. ASSUME NEW i \in Batches', NEW j \in DOMAIN Batch(i)',
             NEW m \in Batches', NEW k \in DOMAIN Batch(m)', Batch(i)'[j].h = Batch(m)'[k].h
      PROVE  i = m /\ j = k
  <2>1. /\ Was(i) \in Batches /\ j \in DOMAIN Batch(Was(i)) /\ Batch(i)' = Batch(Was(i)) /\ i # 0
        /\ Was(m) \in Batches /\ k \in DOMAIN Batch(Was(m)) /\ Batch(m)' = Batch(Was(m)) /\ m # 0
    BY <1>5, <1>6
  <2>2. Was(i) = Was(m) /\ j = k
    BY <1>6, <2>1 DEF OwedInv
  <2> QED
    BY <2>1, <2>2
<1>7. ASSUME NEW i \in Batches', NEW j \in DOMAIN Batch(i)'
      PROVE  Intact(Batch(i)[j])'
  <2>1. Was(i) \in Batches /\ j \in DOMAIN Batch(Was(i)) /\ Batch(i)' = Batch(Was(i))
    BY <1>5, <1>7
  <2>2. Intact(Batch(Was(i))[j])
    BY <2>1 DEF OwedInv
  <2> QED
    BY <1>2, <2>1, <2>2 DEF Intact
<1> QED
  BY <1>6, <1>7 DEF OwedInv

\* doPendingEvents cancels the timer of the first trigger of its batch: no
\* other trigger is of the same handle.
LEMMA OwedServed ==
  ASSUME TypeOK, OwedInv, CallsServed
  PROVE  OwedInv'
<1>0. PICK n : n = Len(stack)
  OBVIOUS
<1>1. /\ n \in DOMAIN stack /\ n \in Nat
      /\ \A i \in DOMAIN stack : i \in DOMAIN stack'
      /\ \A i \in DOMAIN stack' : i \in DOMAIN stack \/ i = n + 1
      /\ \A i \in DOMAIN stack : i # n => stack'[i] = stack[i]
      /\ stack[n].todo \in Seq(PendingEvent) /\ stack[n].todo # <<>>
      /\ stack'[n].todo = Tail(stack[n].todo) /\ Served = stack[n].todo[1]
      /\ stack'[n + 1] = Call("pending", Served.h, Served.id, Top.t)
      /\ Served \in PendingEvent
  BY <1>0, CallOne
<1>2. stack'[n + 1].todo = <<>> /\ n + 1 # 0
  BY <1>1 DEF Call
<1>3. UNCHANGED <<status, slot, pendingList>> /\ timer' = Cancelled(Served.h)
  BY Zenon DEF CallsServed
<1>4. 0 \notin DOMAIN stack
  BY BatchType
<1>5. 1 \in DOMAIN stack[n].todo
  BY <1>1
<1>6. \A j \in DOMAIN Tail(stack[n].todo) :
        j + 1 \in DOMAIN stack[n].todo /\ Tail(stack[n].todo)[j] = stack[n].todo[j + 1] /\ j + 1 # 1
  BY <1>1, TailShape
<1>7. \A j \in DOMAIN Tail(stack[n].todo) : j \in Int
  BY <1>1
<1>8. n \in Batches /\ n # 0 /\ Batch(n) = stack[n].todo /\ Batch(n)' = Tail(stack[n].todo)
  BY <1>1, <1>4 DEF Batches, Batch
<1>9. ASSUME NEW i \in Batches', i # n, DOMAIN Batch(i)' # {}
      PROVE  i \in Batches /\ Batch(i)' = Batch(i)
  BY <1>1, <1>2, <1>3, <1>9 DEF Batches, Batch
<1> HIDE DEF Batch, Batches
<1> DEFINE Was(i, j) == IF i = n THEN j + 1 ELSE j
<1>10. ASSUME NEW i \in Batches', NEW j \in DOMAIN Batch(i)'
       PROVE  /\ i \in Batches /\ Was(i, j) \in DOMAIN Batch(i)
              /\ Batch(i)'[j] = Batch(i)[Was(i, j)]
              /\ i = n => Was(i, j) # 1 /\ j \in Int
  <2>1. CASE i = n
    BY <1>6, <1>7, <1>8, <1>10, <2>1
  <2>2. CASE i # n
    BY <1>9, <1>10, <2>2
  <2> QED
    BY <2>1, <2>2
<1>11. ASSUME NEW i \in Batches', NEW j \in DOMAIN Batch(i)',
              NEW m \in Batches', NEW k \in DOMAIN Batch(m)', Batch(i)'[j].h = Batch(m)'[k].h
       PROVE  i = m /\ j = k
  <2>1. i = m /\ Was(i, j) = Was(m, k)
    BY <1>10, <1>11 DEF OwedInv
  <2>2. i = n => j \in Int /\ k \in Int
    BY <1>10, <1>11, <2>1
  <2> QED
    BY <2>1, <2>2
<1>12. ASSUME NEW i \in Batches', NEW j \in DOMAIN Batch(i)'
       PROVE  Intact(Batch(i)[j])'
  <2> DEFINE q == Batch(i)[Was(i, j)]
  <2>1. i \in Batches /\ Was(i, j) \in DOMAIN Batch(i) /\ Batch(i)'[j] = q
        /\ (i = n => Was(i, j) # 1)
    BY <1>10, <1>12
  <2>2. Intact(q) /\ q.h \in Dependents
    BY <2>1, BatchType DEF OwedInv
  <2>3. q.h # Served.h
    BY <1>1, <1>5, <1>8, <2>1 DEF OwedInv
  <2>4. timer'[q.h] = timer[q.h]
    BY <1>3, <2>2, <2>3 DEF Cancelled, TypeOK, Timed
  <2> HIDE DEF q
  <2> QED
    BY <1>3, <2>1, <2>2, <2>4 DEF Intact
<1> QED
  BY <1>11, <1>12 DEF OwedInv

\* What doPendingEvents is about to call is intact.
LEMMA ServedIntact ==
  ASSUME TypeOK, OwedInv, Running("drain"), Top.todo # <<>>
  PROVE  Intact(Served) /\ Served.h \in Dependents
<1>1. /\ Len(stack) \in DOMAIN stack /\ Top = stack[Len(stack)] /\ Top \in Frame
  BY TopType DEF Running
<1>2. Top.todo \in Seq(PendingEvent)
  BY <1>1 DEF Frame
<1>3. 1 \in DOMAIN Top.todo /\ Served = Top.todo[1]
  BY <1>2 DEF Served
<1>4. Len(stack) \in Batches /\ Batch(Len(stack)) = Top.todo
  BY <1>1, BatchType DEF Batches, Batch
<1> QED
  BY <1>3, <1>4, BatchType DEF OwedInv

\* Every step keeps the triggers still to be served intact.
LEMMA OwedStep ==
  ASSUME TypeOK, DrainInv, OwedInv, BlockedInv, [Next]_vars
  PROVE  OwedInv'
<1>0. /\ timer \in [Timed -> {"IDLE", "PENDING", "HANDLING"}]
      /\ slot \in [Timed -> Ids \cup {NoId}] /\ status \in [Handles -> Status]
      /\ Dependents \subseteq Timed /\ Dependents \subseteq Handles
      /\ Readers \subseteq Timed /\ Readers \subseteq Handles
  BY DEF TypeOK, Timed, Handles
<1> DEFINE SameBatches ==
             \A i \in Batches' : DOMAIN Batch(i)' # {} => i \in Batches /\ Batch(i)' = Batch(i)
           SameHandles ==
             \A h \in Dependents : timer[h] = "PENDING" /\ status[h] = "Ready" =>
               timer'[h] = "PENDING" /\ status'[h] = "Ready" /\ slot'[h] = slot[h]
<1>1. ASSUME SameBatches, SameHandles
      PROVE  OwedInv'
  BY <1>1, OwedKept
<1>2. ASSUME UNCHANGED <<stack, pendingList>>
      PROVE  SameBatches
  BY <1>2 DEF Batches, Batch
<1>3. ASSUME UNCHANGED <<timer, status, slot>>
      PROVE  SameHandles
  BY <1>3
<1> HIDE DEF SameBatches
<1>4. ASSUME NEW id \in Ids, NEW t \in AbsTime, NEW h \in Blockers, WaitForBlocker(id, h, t)
      PROVE  OwedInv'
  <2>1. h \notin Dependents
    BY Ns2Assumption DEF Timed
  <2>2. SameHandles
    BY <1>0, <1>4, <2>1 DEF WaitForBlocker, timerVars
  <2> QED
    BY <1>1, <1>2, <1>4, <2>2 DEF WaitForBlocker
<1>5. ASSUME NEW id \in Ids, NEW t \in AbsTime, NEW h \in Dependents, WaitForDepend(id, h, t)
      PROVE  OwedInv'
  <2>1. SameHandles
    BY <1>0, <1>5 DEF WaitForDepend, Abort, Resched, timerVars
  <2> QED
    BY <1>1, <1>2, <1>5, <2>1 DEF WaitForDepend, Abort
<1>6. ASSUME NEW id \in Ids, NEW t \in AbsTime, NEW h \in Readers, WaitForReader(id, h, t)
      PROVE  OwedInv'
  <2>1. h \notin Dependents
    BY Ns2Assumption
  <2>2. SameHandles
    BY <1>0, <1>6, <2>1 DEF WaitForReader, Resched
  <2> QED
    BY <1>1, <1>2, <1>6, <2>2 DEF WaitForReader
<1>7. ASSUME NEW id \in Ids, NEW t \in AbsTime, NEW h \in Writers, WaitForWriter(id, h, t)
      PROVE  OwedInv'
  <2>1. h \notin Dependents
    BY Ns2Assumption DEF Timed
  <2>2. SameHandles
    BY <1>0, <1>7, <2>1 DEF WaitForWriter, timerVars
  <2>3. /\ \A i \in DOMAIN stack' : \/ i \in DOMAIN stack /\ stack'[i] = stack[i]
                                    \/ stack'[i].todo = <<>>
        /\ UNCHANGED pendingList
    BY <1>7, WriterFrame
  <2>4. SameBatches
    BY <2>3 DEF SameBatches, Batches, Batch
  <2> QED
    BY <1>1, <2>2, <2>4
<1>8. ASSUME NEW d \in Dependents, Complied(d)
      PROVE  OwedInv'
  BY <1>8, OwedTriggered
<1>9. CASE ReturnToDrain
  <2>1. /\ \A i \in DOMAIN stack' : i \in DOMAIN stack /\ stack'[i].todo = stack[i].todo
        /\ UNCHANGED <<pendingList, timer, status, slot>>
    BY <1>9, ToDrain DEF ReturnToDrain, timerVars
  <2>2. SameBatches
    BY <2>1 DEF SameBatches, Batches, Batch
  <2> QED
    BY <1>1, <1>3, <2>1, <2>2
<1>10. CASE ReturnPlain \/ DrainDone
  <2>1. stack # <<>> /\ stack' = Pop /\ UNCHANGED <<pendingList, status, slot>>
    BY <1>10 DEF ReturnPlain, DrainDone, Running
  <2>2. \A i \in DOMAIN stack' : i \in DOMAIN stack /\ stack'[i] = stack[i]
    BY <2>1, PopStep
  <2>3. SameBatches
    BY <2>1, <2>2 DEF SameBatches, Batches, Batch
  <2>4. \A k \in Timed : timer[k] = "PENDING" => timer'[k] = "PENDING"
    BY <1>10, TimerDoneType DEF ReturnPlain, DrainDone
  <2>5. SameHandles
    BY <1>0, <2>1, <2>4
  <2> QED
    BY <1>1, <2>3, <2>5
<1>11. CASE TakePending
  BY <1>11, OwedTaken
<1>12. CASE CallPending
  <2>1. CASE Abort("doPendingEvents: timer is not pending")
    BY <1>1, <1>2, <1>3, <2>1 DEF Abort, timerVars
  <2> QED
    BY <1>12, <2>1, CallPendingCases, OwedServed
<1>13. CASE Dispatched
  <2>1. /\ stack = <<>> /\ DOMAIN stack' = {1} /\ stack'[1].todo = <<>>
        /\ UNCHANGED pendingList
    BY <1>13, DispatchedFrame
  <2>2. pendingList' = <<>>
    BY <2>1 DEF DrainInv
  <2>3. \A i \in Batches' : DOMAIN Batch(i)' = {}
    BY <2>1, <2>2 DEF Batches, Batch
  <2> HIDE DEF Batch, Batches
  <2> QED
    BY <2>3 DEF OwedInv
<1>14. CASE \/ Backwards \/ Tick
            \/ \E h \in Readers : PacketDropped(h) \/ PacketInsane(h)
            \/ Halted \/ UNCHANGED vars
  <2>1. UNCHANGED <<stack, pendingList, timer, status, slot>>
    BY <1>14 DEF Backwards, Abort, Tick, PacketDropped, PacketInsane, Halted, vars, timerVars
  <2> QED
    BY <1>1, <1>2, <1>3, <2>1
<1> QED
  BY <1>4, <1>5, <1>6, <1>7, <1>8, <1>9, <1>10, <1>11, <1>12, <1>13, <1>14
  DEF Next, Client, Return, Dispatch, Dispatched

\* Every step keeps the timer of a Blocked handle armed.
LEMMA BlockedStep ==
  ASSUME TypeOK, OwedInv, BlockedInv, [Next]_vars
  PROVE  BlockedInv'
<1>0. /\ timer \in [Timed -> {"IDLE", "PENDING", "HANDLING"}] /\ status \in [Handles -> Status]
      /\ Dependents \subseteq Timed /\ Readers \subseteq Timed /\ Timed \subseteq Handles
  BY DEF TypeOK, Timed, Handles
<1>1. ASSUME \A k \in Timed : /\ timer'[k] = "PENDING" <=> timer[k] = "PENDING"
                              /\ status'[k] = status[k]
      PROVE  BlockedInv'
  BY <1>1 DEF BlockedInv
<1>2. ASSUME NEW h \in Timed, NEW t \in AbsTime, Resched(h, t),
             status' = [status EXCEPT ![h] = "Blocked"]
      PROVE  BlockedInv'
  BY <1>0, <1>2, ReschedType DEF BlockedInv
<1>3. ASSUME NEW id \in Ids, NEW t \in AbsTime, NEW h \in Dependents, WaitForDepend(id, h, t)
      PROVE  BlockedInv'
  <2>1. CASE timer[h] = "PENDING"
    BY <1>1, <1>3, <2>1 DEF WaitForDepend, Abort, timerVars
  <2>2. CASE timer[h] # "PENDING"
    BY <1>0, <1>2, <1>3, <2>2 DEF WaitForDepend
  <2> QED
    BY <2>1, <2>2
<1>4. ASSUME NEW id \in Ids, NEW t \in AbsTime, NEW h \in Readers, WaitForReader(id, h, t)
      PROVE  BlockedInv'
  BY <1>0, <1>2, <1>4 DEF WaitForReader
<1>5. ASSUME NEW id \in Ids, NEW t \in AbsTime, NEW h \in Blockers \cup Writers,
             WaitForBlocker(id, h, t) \/ WaitForWriter(id, h, t)
      PROVE  BlockedInv'
  <2>1. h \notin Timed
    BY Ns2Assumption
  <2> QED
    BY <1>0, <1>1, <1>5, <2>1 DEF WaitForBlocker, WaitForWriter, timerVars
<1>6. ASSUME NEW d \in Dependents, Complied(d)
      PROVE  BlockedInv'
  BY <1>0, <1>6 DEF Complied, Triggered, BlockedInv, timerVars
<1>7. CASE ReturnPlain \/ DrainDone
  <2>1. UNCHANGED status
    BY <1>7 DEF ReturnPlain, DrainDone
  <2>2. \A k \in Timed : timer'[k] = "PENDING" <=> timer[k] = "PENDING"
    BY <1>7, TimerDoneType DEF ReturnPlain, DrainDone
  <2> QED
    BY <1>1, <2>1, <2>2
<1>8. CASE CallPending
  <2>1. CASE CallsServed
    <3>1. UNCHANGED status /\ timer' = Cancelled(Served.h) /\ Running("drain") /\ Top.todo # <<>>
      BY <2>1, Zenon DEF CallsServed
    <3>2. status[Served.h] = "Ready" /\ Served.h \in Timed
      BY <1>0, <3>1, ServedIntact DEF Intact
    <3> QED
      BY <1>0, <3>1, <3>2 DEF Cancelled, BlockedInv
  <2>2. CASE Abort("doPendingEvents: timer is not pending")
    BY <1>1, <2>2 DEF Abort, timerVars
  <2> QED
    BY <1>8, <2>1, <2>2, CallPendingCases
<1>9. ASSUME NEW d \in Dependents, Expire(d)
      PROVE  BlockedInv'
  BY <1>0, <1>9 DEF Expire, BlockedInv
<1>10. ASSUME NEW h \in Readers, UdpTimeout(h) \/ PacketReceived(h)
       PROVE  BlockedInv'
  BY <1>0, <1>10 DEF UdpTimeout, PacketReceived, Cancelled, BlockedInv
<1>11. CASE \/ ReturnToDrain \/ TakePending \/ Backwards
            \/ \E e \in queue : DispatchBlocker(e)
            \/ Tick
            \/ \E h \in Readers : PacketDropped(h) \/ PacketInsane(h)
            \/ \E n \in Nodes : GeaStart(n)
            \/ Halted \/ UNCHANGED vars
  <2>1. UNCHANGED <<timer, status>>
    BY <1>11 DEF ReturnToDrain, TakePending, Backwards, Abort, DispatchBlocker, Tick,
                 PacketDropped, PacketInsane, GeaStart, Halted, vars, timerVars
  <2> QED
    BY <1>1, <2>1
<1>12. CASE \E id \in Ids, t \in AbsTime : \/ \E h \in Blockers : WaitForBlocker(id, h, t)
                                           \/ \E h \in Writers : WaitForWriter(id, h, t)
  BY <1>5, <1>12
<1> QED
  BY <1>3, <1>4, <1>6, <1>7, <1>8, <1>9, <1>10, <1>11, <1>12 DEF Next, Client, Return, Dispatch

\* The invariant behind triggers, and what it needs of the clients and of the
\* build: complied() is called only from handlers doPendingEvents follows, and
\* the status of a new handle, which is not initialised, is not Blocked.
TriggerInv == TypeOK /\ FrameInv /\ DrainInv /\ OwedInv /\ BlockedInv
TriggersServed == ~FreeTriggers /\ "Blocked" \notin InitStatus

\* It holds before the simulation starts.
LEMMA TriggerInit ==
  ASSUME TriggersServed, Init
  PROVE  TriggerInv
<1>1. TypeOK /\ FrameInv
  BY TypeInit
<1>2. stack = <<>> /\ pendingList = <<>>
  BY DEF Init
<1>3. DrainInv
  BY <1>2 DEF DrainInv
<1>4. \A i \in Batches : DOMAIN Batch(i) = {}
  BY <1>2 DEF Batches, Batch
<1>5. OwedInv
  BY <1>4 DEF OwedInv
<1>6. \A h \in Timed : timer[h] = "IDLE" /\ status[h] # "Blocked"
  BY DEF Init, TriggersServed, Timed, Handles
<1>7. BlockedInv
  BY <1>6 DEF BlockedInv
<1> QED
  BY <1>1, <1>3, <1>5, <1>7 DEF TriggerInv

\* Every step keeps it.
LEMMA TriggerStep ==
  ASSUME TriggersServed, TriggerInv, [Next]_vars
  PROVE  TriggerInv'
BY TypeStep, DrainStep, OwedStep, BlockedStep DEF TriggerInv, TriggersServed

\* A handler that doPendingEvents calls finds its DependHandle Ready, for any
\* number of handlers that ran since complied() and however they nested.
THEOREM ReadyWhenCalledHolds == TriggersServed => (Spec => []ReadyWhenCalled)
<1> SUFFICES ASSUME TriggersServed PROVE Spec => []ReadyWhenCalled
  OBVIOUS
<1>1. Init => TriggerInv
  BY TriggerInit
<1>2. TriggerInv /\ [Next]_vars => TriggerInv'
  BY TriggerStep
<1>3. TriggerInv => ReadyWhenCalled
  <2> SUFFICES ASSUME TriggerInv, NEW i \in DOMAIN stack, NEW j \in DOMAIN stack[i].todo
               PROVE  status[stack[i].todo[j].h] = "Ready"
    BY DEF ReadyWhenCalled
  <2>1. i \in Batches /\ Batch(i) = stack[i].todo
    BY BatchType DEF TriggerInv, Batches, Batch
  <2> QED
    BY <2>1 DEF TriggerInv, OwedInv, Intact
<1> QED
  BY <1>1, <1>2, <1>3, PTL DEF Spec
-----------------------------------------------------------------------------
(* Nothing stops the simulation.                                           *)

\* What else the absence of aborts needs of the clients: one waiter for a
\* handle, delays longer than zero, and a gea_main that waits on its node's
\* receiving handles before it returns.
Disciplined == TriggersServed /\ ~SharedHandles /\ ~LazyReaders /\ MinDelay > 0

\* Two different multiples of g are at least g apart.
LEMMA NextMultiple ==
  ASSUME NEW c \in Nat, NEW d \in Nat, NEW g \in Nat \ {0}, c % g = 0, d % g = 0, c < d
  PROVE  c + g <= d
<1>1. /\ c = g * (c \div g) /\ c \div g \in Nat
      /\ d = g * (d \div g) /\ d \div g \in Nat
  BY RoundDown
<1>2. ASSUME NEW a \in Nat, NEW b \in Nat, a < b
      PROVE  g * a + g <= g * b
  <2>1. PICK k \in Nat : b = a + 1 + k
    BY <1>2
  <2>2. g * b = g * a + g + g * k /\ g * k \in Nat /\ g * a \in Nat
    BY <2>1
  <2> QED
    BY <2>2
<1>3. ASSUME NEW a \in Nat, NEW b \in Nat, ~(a < b)
      PROVE  g * b <= g * a
  <2>1. PICK k \in Nat : a = b + k
    BY <1>3
  <2>2. g * a = g * b + g * k /\ g * k \in Nat /\ g * b \in Nat
    BY <2>1
  <2> QED
    BY <2>2
<1> DEFINE a == c \div g
           b == d \div g
<1>4. a \in Nat /\ b \in Nat /\ c = g * a /\ d = g * b
  BY <1>1
<1> HIDE DEF a, b
<1>5. a < b
  BY <1>3, <1>4
<1>6. g * a + g <= g * b
  BY <1>2, <1>4, <1>5
<1> QED
  BY <1>4, <1>6

\* A disciplined wait lies in the future.
LEMMA WaitIsLater ==
  ASSUME Disciplined, TypeOK, RecentInv, NEW id \in Ids, NEW h \in Handles, NEW t \in AbsTime,
         MayWait(id, h, t)
  PROVE  /\ clock \in Nat /\ t \in Nat /\ Gran \in Nat \ {0} /\ Now \in Nat
         /\ clock < t /\ Now <= clock /\ clock - Now < Gran
         /\ clock + t - Now >= clock
         /\ clock + t - Now - t < Gran
<1>a. stack # <<>> /\ t >= lastEventTime + MinDelay
  BY DEF MayWait, Running
<1>b. MinDelay > 0
  BY DEF Disciplined
<1>c. MinDelay \in Nat /\ Gran \in Nat \ {0} /\ MaxClock \in Nat
  BY Ns2Assumption
<1>d. lastEventTime \in AbsTime /\ clock \in Nat
  BY <1>c DEF TypeOK, Clock
<1>1. /\ stack # <<>> /\ t >= lastEventTime + MinDelay /\ MinDelay > 0 /\ MinDelay \in Nat
      /\ Gran \in Nat \ {0} /\ lastEventTime \in AbsTime /\ clock \in Nat
  BY <1>a, <1>b, <1>c, <1>d
<1>2. /\ t \in Nat /\ t % Gran = 0 /\ lastEventTime \in Nat /\ lastEventTime % Gran = 0
  BY <1>1, AbsTimeType
<1>3. lastEventTime < t
  BY <1>1, <1>2
<1>4. lastEventTime + Gran <= t
  BY <1>1, <1>2, <1>3, NextMultiple
<1>5. clock - lastEventTime < Gran
  BY <1>1 DEF RecentInv
<1>6. Now \in Nat /\ Now <= clock /\ clock - Now \in 0 .. Gran - 1
  BY NowType
<1> HIDE DEF Now
<1> QED
  BY <1>1, <1>2, <1>4, <1>5, <1>6

\* Once set, a handle's status is never undefined again.
LEMMA StatusSet ==
  ASSUME TypeOK, [Next]_vars
  PROVE  \A h \in Handles : status'[h] = "Undefined" => status[h] = "Undefined"
<1>0. status \in [Handles -> Status]
  BY DEF TypeOK
<1>1. ASSUME NEW id, NEW t, NEW h,
             \/ WaitForBlocker(id, h, t) \/ WaitForDepend(id, h, t)
             \/ WaitForReader(id, h, t) \/ WaitForWriter(id, h, t)
      PROVE  \A k \in Handles : status'[k] = "Undefined" => status[k] = "Undefined"
  BY <1>0, <1>1 DEF WaitForBlocker, WaitForDepend, Abort, WaitForReader, WaitForWriter
<1>2. ASSUME NEW h, Complied(h) \/ Expire(h) \/ UdpTimeout(h) \/ PacketReceived(h)
      PROVE  \A k \in Handles : status'[k] = "Undefined" => status[k] = "Undefined"
  BY <1>0, <1>2 DEF Complied, Triggered, Expire, UdpTimeout, PacketReceived
<1>3. CASE CallPending
  BY <1>3, CallPendingCases, Zenon DEF CallsServed, Abort
<1>4. CASE \/ ReturnToDrain \/ ReturnPlain \/ TakePending \/ DrainDone \/ Backwards
           \/ \E e \in queue : DispatchBlocker(e)
           \/ Tick
           \/ \E h \in Readers : PacketDropped(h) \/ PacketInsane(h)
           \/ \E n \in Nodes : GeaStart(n)
           \/ Halted \/ UNCHANGED vars
  BY <1>4 DEF ReturnToDrain, ReturnPlain, TakePending, DrainDone, Backwards, Abort,
              DispatchBlocker, Tick, PacketDropped, PacketInsane, GeaStart, Halted, vars
<1> QED
  BY <1>1, <1>2, <1>3, <1>4 DEF Next, Client, Return, Dispatch

\* Every step keeps the receiving handles of a started node waited on.
LEMMA StartStep ==
  ASSUME ~LazyReaders, TypeOK, FrameInv, BlockedInv, StartInv, [Next]_vars
  PROVE  StartInv'
<1>0. \A u \in Readers : status'[u] = "Undefined" => status[u] = "Undefined"
  BY StatusSet DEF Handles
<1>1. ASSUME UNCHANGED <<started, currentNode>>,
             stack # <<>> => stack' # <<>> /\ stack'[1].kind = stack[1].kind
      PROVE  StartInv'
  BY <1>0, <1>1 DEF StartInv
<1>2. stack # <<>> => 1 \in DOMAIN stack
  BY BottomFrame DEF TypeOK
<1>3. ASSUME NEW id \in Ids, NEW t \in AbsTime, NEW h \in Writers, WaitForWriter(id, h, t)
      PROVE  StartInv'
  BY <1>1, <1>2, <1>3, WriterFrame
<1>4. CASE ReturnToDrain
  BY <1>1, <1>2, <1>4, ToDrain DEF ReturnToDrain, ctxVars, runVars
<1>5. CASE TakePending
  BY <1>1, <1>2, <1>5, TakeBatch DEF TakePending, ctxVars, runVars
<1>6. CASE CallPending
  <2>1. CASE CallsServed
    <3>1. UNCHANGED <<started, currentNode>>
      BY <2>1, Zenon DEF CallsServed, runVars
    <3> QED
      BY <1>1, <1>2, <2>1, <3>1, CallOne
  <2>2. CASE Abort("doPendingEvents: timer is not pending")
    BY <1>1, <2>2 DEF Abort, ctxVars
  <2> QED
    BY <1>6, <2>1, <2>2, CallPendingCases
<1>7. CASE ReturnPlain \/ DrainDone
  <2>1. stack # <<>> /\ stack' = Pop /\ UNCHANGED <<started, currentNode, status>>
    BY <1>7 DEF ReturnPlain, DrainDone, Running, ctxVars, runVars
  <2>2. /\ stack' \in Seq(Frame) /\ Len(stack') = Len(stack) - 1
        /\ \A i \in DOMAIN stack' : stack'[i] = stack[i]
    BY <2>1, PopStep
  <2>3. CASE stack' # <<>>
    <3>1. 1 \in DOMAIN stack'
      BY <2>2, <2>3, BottomFrame
    <3> QED
      BY <1>1, <2>1, <2>2, <2>3, <3>1
  <2>4. CASE stack' = <<>>
    <3>1. Len(stack) = 1 /\ Top = stack[1] /\ 1 \in DOMAIN stack
      BY <2>1, <2>2, <2>4, TopType
    <3> SUFFICES ASSUME NEW u \in Readers, NodeOf[u] \in started, status[u] = "Undefined"
                 PROVE  FALSE
      BY <2>1 DEF StartInv
    <3>2. Top.kind = "main" /\ currentNode = NodeOf[u]
      BY <3>1 DEF StartInv
    <3>3. Top.h = NoHandle /\ Top.phase # "drain"
      BY <3>1, <3>2 DEF FrameInv, Draining
    <3>4. AllReadersWait
      BY <1>7, <3>2, <3>3 DEF ReturnPlain, DrainDone, Running
    <3>5. timer[u] = "PENDING"
      BY <3>2, <3>3, <3>4 DEF AllReadersWait, Home
    <3> QED
      BY <3>5 DEF BlockedInv, Timed
  <2> QED
    BY <2>3, <2>4
<1>8. ASSUME NEW n \in Nodes, GeaStart(n)
      PROVE  StartInv'
  <2> DEFINE f == Call("main", NoHandle, NoId, Now)
  <2>1. stack = <<>> /\ Push(f) /\ started' = started \cup {n} /\ currentNode' = n
    BY <1>8 DEF GeaStart, Idle
  <2>2. f \in Frame /\ f.kind = "main"
    BY NowType, CallType DEF Call
  <2> HIDE DEF f
  <2>3. stack' # <<>> /\ stack'[1].kind = "main"
    BY <2>1, <2>2, Enter
  <2> QED
    BY <1>0, <2>1, <2>3 DEF StartInv
<1>9. CASE \/ \E e \in queue : DispatchBlocker(e)
           \/ \E d \in Dependents : Expire(d)
           \/ \E h \in Readers : UdpTimeout(h) \/ PacketReceived(h)
  <2>1. stack = <<>> /\ UNCHANGED started
    BY <1>9 DEF DispatchBlocker, Expire, UdpTimeout, PacketReceived, Idle, runVars
  <2> QED
    BY <1>0, <2>1 DEF StartInv
<1>10. CASE \/ \E id \in Ids, t \in AbsTime, h \in Blockers : WaitForBlocker(id, h, t)
            \/ \E id \in Ids, t \in AbsTime, h \in Dependents : WaitForDepend(id, h, t)
            \/ \E id \in Ids, t \in AbsTime, h \in Readers : WaitForReader(id, h, t)
            \/ \E d \in Dependents : Complied(d)
            \/ Backwards \/ Tick
            \/ \E h \in Readers : PacketDropped(h) \/ PacketInsane(h)
            \/ Halted \/ UNCHANGED vars
  <2>1. UNCHANGED <<stack, currentNode, started>>
    BY <1>10 DEF WaitForBlocker, WaitForDepend, WaitForReader, Complied, Backwards, Abort, Tick,
                 PacketDropped, PacketInsane, Halted, vars, ctxVars, runVars
  <2> QED
    BY <1>1, <2>1
<1> QED
  BY <1>3, <1>4, <1>5, <1>6, <1>7, <1>8, <1>9, <1>10 DEF Next, Client, Return, Dispatch

\* Every step leaves the scheduler's events in the future.
LEMMA FutureStep ==
  ASSUME Disciplined, TypeOK, RecentInv, FutureInv, [Next]_vars
  PROVE  FutureInv'
<1>0. /\ timer \in [Timed -> {"IDLE", "PENDING", "HANDLING"}]
      /\ timeout \in [Readers -> AbsTime]
      /\ Blockers \subseteq Handles /\ Timed \subseteq Handles /\ Writers \subseteq Handles
      /\ Dependents \subseteq Timed /\ Readers \subseteq Timed
  BY DEF TypeOK, Timed, Handles
<1>1. ASSUME UNCHANGED <<clock, at, timeout>>, queue' \subseteq queue,
             \A h \in Timed : timer'[h] = "PENDING" => timer[h] = "PENDING"
      PROVE  FutureInv'
  BY <1>0, <1>1 DEF FutureInv, PendingTimers
<1>2. ASSUME NEW id \in Ids, NEW t \in AbsTime, NEW h \in Blockers, WaitForBlocker(id, h, t)
      PROVE  FutureInv'
  <2>1. clock <= t
    BY <1>0, <1>2, WaitIsLater DEF WaitForBlocker
  <2>2. /\ queue' = queue \cup {[id |-> id, h |-> h, t |-> t]}
        /\ UNCHANGED <<clock, timer, at, timeout>>
    BY <1>2 DEF WaitForBlocker, timerVars, runVars
  <2> QED
    BY <2>1, <2>2 DEF FutureInv, PendingTimers
<1>3. ASSUME NEW id \in Ids, NEW t \in AbsTime, NEW h \in Timed, MayWait(id, h, t),
             Resched(h, t), h \in Readers => timeout'[h] = t,
             \A k \in Readers : k # h => timeout'[k] = timeout[k], UNCHANGED <<clock, queue>>
      PROVE  FutureInv'
  <2>1. /\ clock \in Nat /\ t \in Nat /\ Now \in Nat /\ Gran \in Nat
        /\ clock + t - Now >= clock /\ clock + t - Now - t < Gran
    BY <1>0, <1>3, WaitIsLater
  <2>2. /\ at'[h] = clock + t - Now
        /\ \A k \in Timed : k # h => at'[k] = at[k] /\ timer'[k] = timer[k]
    BY <1>3, ReschedType
  <2> HIDE DEF Now
  <2>3. at'[h] >= clock /\ at'[h] - t < Gran
    BY <2>1, <2>2
  <2>4. \A k \in PendingTimers' : clock' <= at'[k]
    <3> SUFFICES ASSUME NEW k \in Timed, timer'[k] = "PENDING" PROVE clock <= at'[k]
      BY <1>3 DEF PendingTimers
    <3>1. CASE k = h
      <4>1. at'[h] \in Int /\ clock \in Int
        <5>1. at' \in [Timed -> 0 .. MaxClock + 2 * Gran - 1]
          BY <1>3, ReschedType
        <5> QED
          BY <5>1, Ns2Assumption DEF TypeOK, Clock
      <4> QED
        BY <2>3, <3>1, <4>1
    <3>2. CASE k # h
      BY <2>2, <3>2 DEF FutureInv, PendingTimers
    <3> QED
      BY <3>1, <3>2
  <2>5. \A k \in Readers : timer'[k] = "PENDING" => at'[k] - timeout'[k] < Gran
    BY <1>0, <1>3, <2>2, <2>3 DEF FutureInv
  <2> QED
    BY <1>3, <2>4, <2>5 DEF FutureInv
<1>4. ASSUME NEW id \in Ids, NEW t \in AbsTime, NEW h \in Dependents, WaitForDepend(id, h, t)
      PROVE  FutureInv'
  <2>1. CASE timer[h] = "PENDING"
    BY <1>1, <1>4, <2>1 DEF WaitForDepend, Abort, timerVars
  <2>2. CASE timer[h] # "PENDING"
    <3>1. h \notin Readers
      BY Ns2Assumption
    <3>2. MayWait(id, h, t) /\ Resched(h, t) /\ UNCHANGED <<clock, queue, timeout>>
      BY <1>4, <2>2 DEF WaitForDepend, runVars
    <3> QED
      BY <1>0, <1>3, <3>1, <3>2
  <2> QED
    BY <2>1, <2>2
<1>5. ASSUME NEW id \in Ids, NEW t \in AbsTime, NEW h \in Readers, WaitForReader(id, h, t)
      PROVE  FutureInv'
  <2>1. MayWait(id, h, t) /\ Resched(h, t) /\ UNCHANGED <<clock, queue>>
        /\ timeout' = [timeout EXCEPT ![h] = t]
    BY <1>5 DEF WaitForReader, runVars
  <2>2. timeout'[h] = t /\ \A k \in Readers : k # h => timeout'[k] = timeout[k]
    BY <1>0, <2>1
  <2> QED
    BY <1>0, <1>3, <2>1, <2>2
<1>6. CASE ReturnPlain \/ DrainDone
  <2>1. UNCHANGED <<clock, at, timeout, queue>>
    BY <1>6 DEF ReturnPlain, DrainDone, runVars
  <2>2. \A h \in Timed : timer'[h] = "PENDING" => timer[h] = "PENDING"
    BY <1>6, TimerDoneType DEF ReturnPlain, DrainDone
  <2> QED
    BY <1>1, <2>1, <2>2
<1>7. CASE CallPending
  <2>1. CASE CallsServed
    <3>1. Served.h \in Timed
      BY <2>1, CallOne DEF PendingEvent, Timed
    <3>2. UNCHANGED <<clock, at, timeout, queue>> /\ timer' = Cancelled(Served.h)
      BY <2>1, Zenon DEF CallsServed, runVars
    <3> QED
      BY <1>0, <1>1, <3>1, <3>2 DEF Cancelled
  <2>2. CASE Abort("doPendingEvents: timer is not pending")
    BY <1>1, <2>2 DEF Abort, timerVars
  <2> QED
    BY <1>7, <2>1, <2>2, CallPendingCases
<1>8. ASSUME NEW h \in Timed, Expire(h) \/ UdpTimeout(h) \/ PacketReceived(h)
      PROVE  FutureInv'
  <2>1. UNCHANGED <<clock, at, timeout, queue>>
    BY <1>8 DEF Expire, UdpTimeout, PacketReceived, runVars
  <2>2. \A k \in Timed : timer'[k] = "PENDING" => timer[k] = "PENDING"
    BY <1>0, <1>8 DEF Expire, UdpTimeout, PacketReceived, Cancelled
  <2> QED
    BY <1>1, <2>1, <2>2
<1>9. CASE Tick
  <2>1. /\ clock' = clock + 1 /\ \A u \in Times : clock < u
        /\ UNCHANGED <<queue, timer, at, timeout>>
    BY <1>9 DEF Tick, timerVars
  <2>2. /\ \A e \in queue : clock < e.t /\ e.t \in Int
        /\ \A h \in PendingTimers : clock < at[h] /\ at[h] \in Int
        /\ clock \in Int
    <3>1. \A e \in queue : e.t \in AbsTime
      BY DEF TypeOK
    <3>2. at \in [Timed -> 0 .. MaxClock + 2 * Gran - 1] /\ clock \in Int
      BY Ns2Assumption DEF TypeOK, Clock
    <3> QED
      BY <2>1, <3>1, <3>2, AbsTimeType DEF Times, PendingTimers
  <2> QED
    BY <2>1, <2>2 DEF FutureInv, PendingTimers
<1>10. CASE \/ \E id \in Ids, t \in AbsTime, h \in Writers : WaitForWriter(id, h, t)
            \/ \E d \in Dependents : Complied(d)
            \/ ReturnToDrain \/ TakePending \/ Backwards
            \/ \E e \in queue : DispatchBlocker(e)
            \/ \E h \in Readers : PacketDropped(h) \/ PacketInsane(h)
            \/ \E n \in Nodes : GeaStart(n)
            \/ Halted \/ UNCHANGED vars
  <2>1. UNCHANGED <<clock, timer, at, timeout>> /\ queue' \subseteq queue
    BY <1>10 DEF WaitForWriter, Complied, ReturnToDrain, TakePending, Backwards, Abort,
                 DispatchBlocker, PacketDropped, PacketInsane, GeaStart, Halted, vars,
                 timerVars, runVars
  <2> QED
    BY <1>1, <2>1
<1> QED
  BY <1>0, <1>2, <1>4, <1>5, <1>6, <1>7, <1>8, <1>9, <1>10 DEF Next, Client, Return, Dispatch

\* Every step leaves the event times of the running handlers recent.
LEMMA RecentStep ==
  ASSUME Disciplined, TypeOK, RecentInv, FutureInv, [Next]_vars
  PROVE  RecentInv'
<1>0. clock \in Nat /\ Gran \in Nat \ {0}
  BY Ns2Assumption DEF TypeOK, Clock
<1>1. ASSUME UNCHANGED <<clock, lastEventTime>>, stack' # <<>> => stack # <<>>,
             \A i \in DOMAIN stack' : i \in DOMAIN stack /\ stack'[i].t = stack[i].t
      PROVE  RecentInv'
  BY <1>1 DEF RecentInv
<1>2. ASSUME UNCHANGED <<clock, lastEventTime, stack>>
      PROVE  RecentInv'
  BY <1>2 DEF RecentInv
<1>3. ASSUME NEW id \in Ids, NEW t \in AbsTime, NEW h \in Writers, WaitForWriter(id, h, t)
      PROVE  RecentInv'
  <2>1. clock < t /\ t \in Nat
    BY <1>3, WaitIsLater DEF WaitForWriter, Handles
  <2>2. clock - t < Gran
    BY <1>0, <2>1
  <2>3. /\ stack # <<>> /\ UNCHANGED <<clock, lastEventTime>>
        /\ \A i \in DOMAIN stack' : \/ i \in DOMAIN stack /\ stack'[i] = stack[i]
                                    \/ stack'[i].t = t
    BY <1>3, WriterFrame
  <2> QED
    BY <2>2, <2>3 DEF RecentInv
<1>4. CASE ReturnToDrain
  <2>1. /\ stack # <<>> /\ DOMAIN stack' = DOMAIN stack /\ Len(stack) \in DOMAIN stack
        /\ \A i \in DOMAIN stack : i # Len(stack) => stack'[i] = stack[i]
        /\ stack'[Len(stack)].t = DrainTime(Top)
    BY <1>4, ToDrain
  <2>2. UNCHANGED <<clock, lastEventTime>>
    BY <1>4 DEF ReturnToDrain, ctxVars, runVars
  <2>3. Top = stack[Len(stack)]
    BY <2>1, TopType
  <2>4. \A i \in DOMAIN stack' : stack'[i].t = stack[i].t \/ stack'[i].t = lastEventTime
    BY <2>1, <2>3 DEF DrainTime
  <2> QED
    BY <2>1, <2>2, <2>4 DEF RecentInv
<1>5. CASE TakePending
  <2>1. /\ stack # <<>> /\ DOMAIN stack' = DOMAIN stack
        /\ \A i \in DOMAIN stack : stack'[i].t = stack[i].t
    BY <1>5, TakeBatch
  <2> QED
    BY <1>1, <1>5, <2>1 DEF TakePending, ctxVars, runVars
<1>6. CASE CallPending
  <2>1. CASE CallsServed
    <3>1. UNCHANGED clock /\ lastEventTime' = Top.t
      BY <2>1, Zenon DEF CallsServed, runVars
    <3>2. /\ stack # <<>> /\ Len(stack) \in DOMAIN stack
          /\ \A i \in DOMAIN stack' : i \in DOMAIN stack \/ i = Len(stack) + 1
          /\ \A i \in DOMAIN stack : stack'[i].t = stack[i].t
          /\ stack'[Len(stack) + 1] = Call("pending", Served.h, Served.id, Top.t)
      BY <2>1, CallOne
    <3>3. stack'[Len(stack) + 1].t = Top.t
      BY <3>2 DEF Call
    <3>4. clock - Top.t < Gran
      BY <3>2, TopType DEF RecentInv
    <3> QED
      BY <3>1, <3>2, <3>3, <3>4 DEF RecentInv
  <2>2. CASE Abort("doPendingEvents: timer is not pending")
    BY <1>2, <2>2 DEF Abort, ctxVars
  <2> QED
    BY <1>6, <2>1, <2>2, CallPendingCases
<1>7. CASE ReturnPlain \/ DrainDone
  <2>1. stack # <<>> /\ stack' = Pop /\ UNCHANGED <<clock, lastEventTime>>
    BY <1>7 DEF ReturnPlain, DrainDone, Running, ctxVars, runVars
  <2>2. \A i \in DOMAIN stack' : i \in DOMAIN stack /\ stack'[i] = stack[i]
    BY <2>1, PopStep
  <2> QED
    BY <1>1, <2>1, <2>2
<1>8. ASSUME NEW kind \in {"main", "blocker", "expire", "recv", "udpTimeout"},
             NEW h \in Handles \cup {NoHandle}, NEW id \in Ids \cup {NoId}, NEW t \in AbsTime,
             stack = <<>>, Push(Call(kind, h, id, t)), lastEventTime' = t, UNCHANGED clock,
             clock - t < Gran
      PROVE  RecentInv'
  <2> DEFINE f == Call(kind, h, id, t)
  <2>1. f \in Frame /\ f.t = t
    BY CallType DEF Call
  <2> HIDE DEF f
  <2>2. DOMAIN stack' = {1} /\ stack'[1] = f
    BY <1>8, <2>1, Enter DEF f
  <2> QED
    BY <1>8, <2>1, <2>2 DEF RecentInv
<1>9. Now \in AbsTime /\ clock - Now < Gran
  BY <1>0, NowType
<1>10. ASSUME NEW e \in queue, DispatchBlocker(e)
       PROVE  RecentInv'
  <2>1. e.id \in Ids /\ e.h \in Handles /\ e.t \in AbsTime
    BY DEF TypeOK, Handles
  <2>2. /\ stack = <<>> /\ Push(Call("blocker", e.h, e.id, e.t)) /\ lastEventTime' = e.t
        /\ UNCHANGED clock /\ e.t = clock
    BY <1>10 DEF DispatchBlocker, Idle, runVars
  <2>3. clock - e.t < Gran
    BY <1>0, <2>2
  <2> QED
    BY <1>8, <2>1, <2>2, <2>3
<1>11. ASSUME NEW d \in Dependents, Expire(d)
       PROVE  RecentInv'
  <2>1. d \in Handles /\ slot[d] \in Ids \cup {NoId}
    BY DEF Timed, Handles, TypeOK
  <2>2. /\ stack = <<>> /\ Push(Call("expire", d, slot[d], Now)) /\ lastEventTime' = Now
        /\ UNCHANGED clock
    BY <1>11 DEF Expire, Idle, runVars
  <2> HIDE DEF Now
  <2> QED
    BY <1>8, <1>9, <2>1, <2>2
<1>12. ASSUME NEW h \in Readers, UdpTimeout(h)
       PROVE  RecentInv'
  <2>1. h \in Handles /\ slot[h] \in Ids \cup {NoId} /\ timeout[h] \in AbsTime
    BY DEF Timed, Handles, TypeOK
  <2>2. /\ stack = <<>> /\ Push(Call("udpTimeout", h, slot[h], timeout[h]))
        /\ lastEventTime' = timeout[h] /\ UNCHANGED clock
        /\ at[h] = clock /\ timer[h] = "PENDING"
    BY <1>12 DEF UdpTimeout, Idle, runVars, PendingTimers
  <2>3. clock - timeout[h] < Gran
    BY <2>2 DEF FutureInv
  <2> QED
    BY <1>8, <2>1, <2>2, <2>3
<1>13. ASSUME NEW h \in Readers, PacketReceived(h)
       PROVE  RecentInv'
  <2>1. h \in Handles /\ slot[h] \in Ids \cup {NoId}
    BY DEF Timed, Handles, TypeOK
  <2>2. /\ stack = <<>> /\ Push(Call("recv", h, slot[h], Now)) /\ lastEventTime' = Now
        /\ UNCHANGED clock
    BY <1>13 DEF PacketReceived, Idle, runVars
  <2> HIDE DEF Now
  <2> QED
    BY <1>8, <1>9, <2>1, <2>2
<1>14. ASSUME NEW n \in Nodes, GeaStart(n)
       PROVE  RecentInv'
  <2>1. /\ stack = <<>> /\ Push(Call("main", NoHandle, NoId, Now)) /\ lastEventTime' = Now
        /\ UNCHANGED clock
    BY <1>14 DEF GeaStart, Idle
  <2> HIDE DEF Now
  <2> QED
    BY <1>8, <1>9, <2>1
<1>15. CASE Tick
  BY <1>15 DEF Tick, Idle, RecentInv
<1>16. CASE \/ \E id \in Ids, t \in AbsTime, h \in Blockers : WaitForBlocker(id, h, t)
            \/ \E id \in Ids, t \in AbsTime, h \in Dependents : WaitForDepend(id, h, t)
            \/ \E id \in Ids, t \in AbsTime, h \in Readers : WaitForReader(id, h, t)
            \/ \E d \in Dependents : Complied(d)
            \/ Backwards
            \/ \E h \in Readers : PacketDropped(h) \/ PacketInsane(h)
            \/ Halted \/ UNCHANGED vars
  <2>1. UNCHANGED <<clock, lastEventTime, stack>>
    BY <1>16 DEF WaitForBlocker, WaitForDepend, WaitForReader, Complied, Backwards, Abort,
                 PacketDropped, PacketInsane, Halted, vars, ctxVars, runVars
  <2> QED
    BY <1>2, <2>1
<1> QED
  BY <1>3, <1>4, <1>5, <1>6, <1>7, <1>10, <1>11, <1>12, <1>13, <1>14, <1>15, <1>16
  DEF Next, Client, Return, Dispatch

\* No step stops the simulation.
LEMMA AbortStep ==
  ASSUME Disciplined, TriggerInv, StartInv, FutureInv, NoAbort, [Next]_vars
  PROVE  NoAbort'
<1>0. TypeOK /\ OwedInv /\ BlockedInv
  BY DEF TriggerInv
<1>1. ASSUME UNCHANGED abort
      PROVE  NoAbort'
  BY <1>1 DEF NoAbort
<1>2. ASSUME NEW id \in Ids, NEW t \in AbsTime, NEW h \in Dependents, WaitForDepend(id, h, t)
      PROVE  NoAbort'
  <2>1. h \notin {r.h : r \in Registered}
    BY <1>2 DEF WaitForDepend, MayWait, Disciplined
  <2>2. timer[h] # "PENDING"
    <3> SUFFICES ASSUME timer[h] = "PENDING" PROVE FALSE
      OBVIOUS
    <3>1. [id |-> slot[h], h |-> h] \in Registered
      BY DEF Registered, PendingTimers, Timed
    <3>2. [id |-> slot[h], h |-> h].h = h
      OBVIOUS
    <3> QED
      BY <2>1, <3>1, <3>2, Zenon
  <2> QED
    BY <1>1, <1>2, <2>2 DEF WaitForDepend, runVars
<1>3. CASE CallPending
  <2>1. CASE CallsServed
    <3>1. UNCHANGED abort
      BY <2>1, Zenon DEF CallsServed, runVars
    <3> QED
      BY <1>1, <3>1
  <2>2. CASE timer[Served.h] # "PENDING" /\ Top.todo # <<>> /\ Running("drain")
    BY <1>0, <2>2, ServedIntact DEF Intact
  <2> QED
    BY <1>3, <2>1, <2>2, CallPendingCases
<1>4. ~Backwards
  <2> SUFFICES ASSUME NEW u \in Times, u < clock PROVE FALSE
    BY DEF Backwards
  <2>1. clock <= u
    BY DEF Times, FutureInv
  <2>2. u \in Int /\ clock \in Int
    <3>1. \A e \in queue : e.t \in AbsTime
      BY <1>0 DEF TypeOK
    <3>2. at \in [Timed -> 0 .. MaxClock + 2 * Gran - 1] /\ clock \in Int
      BY <1>0, Ns2Assumption DEF TypeOK, Clock
    <3> QED
      BY <3>1, <3>2, AbsTimeType DEF Times, PendingTimers
  <2> QED
    BY <2>1, <2>2
<1>5. \A h \in Readers : ~PacketInsane(h)
  BY <1>0 DEF PacketInsane, Idle, StartInv, BlockedInv, Timed
<1>6. CASE \/ \E id \in Ids, t \in AbsTime, h \in Blockers : WaitForBlocker(id, h, t)
           \/ \E id \in Ids, t \in AbsTime, h \in Readers : WaitForReader(id, h, t)
           \/ \E id \in Ids, t \in AbsTime, h \in Writers : WaitForWriter(id, h, t)
           \/ \E d \in Dependents : Complied(d)
           \/ ReturnToDrain \/ ReturnPlain \/ TakePending \/ DrainDone
           \/ \E e \in queue : DispatchBlocker(e)
           \/ \E d \in Dependents : Expire(d)
           \/ \E h \in Readers : UdpTimeout(h) \/ PacketReceived(h) \/ PacketDropped(h)
           \/ Tick
           \/ \E n \in Nodes : GeaStart(n)
           \/ Halted \/ UNCHANGED vars
  <2>1. UNCHANGED abort
    BY <1>6 DEF WaitForBlocker, WaitForReader, WaitForWriter, Complied, ReturnToDrain,
                ReturnPlain, TakePending, DrainDone, DispatchBlocker, Expire, UdpTimeout,
                PacketReceived, PacketDropped, Tick, GeaStart, Halted, vars, runVars
  <2> QED
    BY <1>1, <2>1
<1> QED
  BY <1>2, <1>3, <1>4, <1>5, <1>6 DEF Next, Client, Return, Dispatch

\* With disciplined clients none of the backend's assertions and none of the
\* simulator's checks stops the simulation, for any number of nodes, handles
\* and registrations and any nesting of handlers.
THEOREM NoAbortHolds == Disciplined => (Spec => []NoAbort)
<1> SUFFICES ASSUME Disciplined PROVE Spec => []NoAbort
  OBVIOUS
<1> DEFINE IInv == TriggerInv /\ StartInv /\ FutureInv /\ RecentInv /\ NoAbort
<1>1. TriggersServed /\ ~LazyReaders
  BY DEF Disciplined
<1>2. Init => IInv
  <2> SUFFICES ASSUME Init PROVE StartInv /\ FutureInv /\ RecentInv /\ NoAbort
    BY <1>1, TriggerInit
  <2> QED
    BY DEF Init, StartInv, FutureInv, RecentInv, NoAbort, PendingTimers, Timed
<1>3. IInv /\ [Next]_vars => IInv'
  <2> SUFFICES ASSUME IInv, [Next]_vars PROVE IInv'
    OBVIOUS
  <2>1. TypeOK /\ FrameInv /\ BlockedInv
    BY DEF TriggerInv
  <2> QED
    BY <1>1, <2>1, TriggerStep, StartStep, FutureStep, RecentStep, AbortStep
<1> QED
  BY <1>2, <1>3, PTL DEF Spec
=============================================================================
