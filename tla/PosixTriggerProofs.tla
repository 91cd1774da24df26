------------------------- MODULE PosixTriggerProofs -------------------------
(***************************************************************************)
(* Proofs about what a handler finds when the POSIX loop calls it, and     *)
(* about the triggers of DependHandles: readiness, no lost and no spurious *)
(* wake-up, rounds that use up triggers.                                   *)
(***************************************************************************)
EXTENDS PosixEventHandlerProofs

\* d is among the handles of the round of triggered handlers going on.
Serving(d) == pc \in {"dep", "inDep"} /\ \E i \in DOMAIN elist : elist[i].h = d

\* No handler of a round spoils the handle of a later one.
ReadyInv == \A i \in next .. Len(elist) : status[elist[i].h] = "Ready"

\* An entry that waited on a handle when it complied has a trigger the end
\* of the current round will not reset.  The entry whose timeout is being
\* handled does not count as waiting, and nothing is signalled at rest.
WakeInv ==
  /\ \A e \in Waiting :
       e.id \in signalled => e.h \in Dependents /\ triggered[e.h] /\ ~Serving(e.h)
  /\ pc = "inExpire" => called \subseteq eventList /\ IdsOf(called) \cap signalled = {}
  /\ pc \in {"main", "while"} => IdsOf(eventList) \cap signalled = {}

\* A trigger is owed to somebody: to an entry that was waiting when it was
\* set, or to the round going on, which resets it when it ends.
TriggerInv ==
  /\ \A d \in Dependents :
       triggered[d] => Serving(d) \/ \E e \in Waiting : e.h = d
  /\ \A e \in Waiting :
       e.h \in Dependents /\ triggered[e.h] => e.id \in signalled \/ Serving(e.h)
  /\ \A i \in next .. Len(elist) : elist[i].h \in Dependents => elist[i].id \in signalled
  /\ pc \in {"main", "while"} => \A d \in Dependents : ~triggered[d]

-----------------------------------------------------------------------------
(* Lemmas about the steps.                                                 *)

\* What Collect makes of a set of entries: a call list with the same ids and
\* handles, stamped with the current time, and every handle Ready.
LEMMA CollectShape ==
  ASSUME TypeOK, NEW S \in SUBSET eventList, Collect(S)
  PROVE  /\ \A i \in DOMAIN elist' :
              /\ elist'[i].t = now
              /\ status'[elist'[i].h] = "Ready"
              /\ \E e \in S : elist'[i].id = e.id /\ elist'[i].h = e.h
         /\ \A e \in S : \E i \in DOMAIN elist' : elist'[i].h = e.h
         /\ DOMAIN elist' = next' .. Len(elist')
         /\ eventList' = eventList \ S
<1>1. PICK s \in InOrder(S) : elist' = [i \in DOMAIN s |-> [s[i] EXCEPT !.t = now]]
  BY DEF Collect
<1>2. /\ s \in Seq(S)
      /\ Len(s) \in Nat
      /\ DOMAIN s = 1 .. Len(s)
      /\ {s[i] : i \in DOMAIN s} = S
  BY <1>1, InOrderType
<1>3. Len(elist') = Len(s) /\ DOMAIN elist' = 1 .. Len(s) /\ next' = 1
  BY <1>1, <1>2 DEF Collect
<1>4. \A i \in 1 .. Len(s) : s[i] \in S /\ s[i] \in Entry
  BY <1>2 DEF TypeOK
<1>5. \A i \in 1 .. Len(s) :
        elist'[i].id = s[i].id /\ elist'[i].h = s[i].h /\ elist'[i].t = now
  BY <1>1, <1>2, <1>4 DEF Entry
<1>6. \A e \in S : status'[e.h] = "Ready"
  <2> TAKE e \in S
  <2>1. e.h \in HandlesOf(S) /\ e.h \in Handles
    BY DEF HandlesOf, TypeOK, Entry
  <2> QED
    BY <2>1 DEF Collect, MadeReady
<1>7. \A e \in S : \E i \in DOMAIN elist' : elist'[i].h = e.h
  BY <1>2, <1>3, <1>5
<1>8. eventList' = eventList \ S
  BY DEF Collect, Erase
<1> QED
  BY <1>3, <1>4, <1>5, <1>6, <1>7, <1>8

\* Types of what the loop calls next.
LEMMA NextCall ==
  ASSUME TypeOK, CallIo \/ CallDep
  PROVE  /\ next \in DOMAIN elist /\ elist[next] \in Entry
         /\ next' = next + 1 /\ elist' = elist /\ eventList' = eventList
         /\ status' = status /\ triggered' = triggered
         /\ lastEventTime' = elist[next].t
         /\ signalled' = signalled \ {elist[next].id}
         /\ \A i \in next' .. Len(elist') : i \in next .. Len(elist) /\ i # next
         /\ next \in next .. Len(elist)
         /\ pc # "inExpire" /\ pc' # "inExpire"
         /\ pc \notin {"main", "while"} /\ pc' \notin {"main", "while"}
         /\ pc \in {"dep", "inDep"} <=> pc' \in {"dep", "inDep"}
<1>1. /\ next \in DOMAIN elist /\ next' = next + 1 /\ elist' = elist /\ eventList' = eventList
      /\ status' = status /\ triggered' = triggered
      /\ lastEventTime' = elist[next].t
      /\ signalled' = signalled \ {elist[next].id}
      /\ \/ pc = "io" /\ pc' = "inIo"
         \/ pc = "dep" /\ pc' = "inDep"
  BY DEF CallIo, CallDep, CallNext, TypeOK, listVars
<1>2. next \in 1 .. Len(elist) /\ Len(elist) \in Nat
  BY <1>1 DEF TypeOK
<1>3. elist[next] \in Entry
  BY <1>2 DEF TypeOK
<1> QED
  BY <1>1, <1>2, <1>3

-----------------------------------------------------------------------------
(* Readiness.                                                              *)

\* With one waiter per handle, no step spoils a handle that is still to be
\* served in the round.
LEMMA ReadyStep ==
  ASSUME TypeOK, BatchInv, ReadyInv, [Next]_vars, ~SharedHandles
  PROVE  ReadyInv'
<1>1. ASSUME NEW id \in Ids, NEW h \in Handles, NEW t \in Time, WaitFor(id, h, t)
      PROVE  ReadyInv'
  <2>1. \A i \in next .. Len(elist) : elist[i].h # h
    BY <1>1 DEF WaitFor, HandlesOf, Pending
  <2> QED
    BY <1>1, <2>1 DEF WaitFor, ReadyInv, TypeOK
<1>2. ASSUME NEW d \in Dependents, Complied(d)
      PROVE  ReadyInv'
  BY <1>2 DEF Complied, ReadyInv, TypeOK, Handles, callVars
<1>3. CASE CollectIo
  <2>1. ReadyIo \in SUBSET eventList
    BY DEF ReadyIo
  <2> QED
    BY <1>3, <2>1, CollectShape DEF CollectIo, ReadyInv
<1>4. CASE CollectDeps
  <2>1. TriggeredDeps \in SUBSET eventList
    BY DEF TriggeredDeps
  <2> QED
    BY <1>4, <2>1, CollectShape DEF CollectDeps, ReadyInv
<1>5. CASE CallIo \/ CallDep
  BY <1>5, NextCall DEF ReadyInv
<1>6. CASE Expire
  <2>1. elist' = <<>> /\ next' = next
    BY <1>6 DEF Expire, BatchInv, InRound
  <2>2. next .. Len(<<>>) = {}
    BY DEF TypeOK
  <2> QED
    BY <2>1, <2>2 DEF ReadyInv
<1>7. CASE ReturnIo \/ ReturnDep
  BY <1>7 DEF ReturnIo, ReturnDep, ReadyInv
<1>8. CASE \/ \E h \in FdHandles : Read(h)
           \/ Start \/ Finish \/ DepsDone \/ ReturnExpire \/ Tick
           \/ \E h \in FdHandles : Arrive(h)
           \/ Terminated \/ UNCHANGED vars
  <2>1. UNCHANGED <<elist, next, status>>
    BY <1>8 DEF Read, Start, Finish, DepsDone, ReturnExpire, Tick, Arrive, Terminated,
                vars, callVars
  <2> QED
    BY <2>1 DEF ReadyInv
<1> QED
  BY <1>1, <1>2, <1>3, <1>4, <1>5, <1>6, <1>7, <1>8 DEF Next, Client, Loop, Return

\* With one waiter per handle, a handler called because its handle was ready
\* finds it Ready, whatever the handlers called before it in the same round
\* have done: the assertions of UnixFdHandle::read and ::write hold.
THEOREM ReadyWhenCalledHolds == ~SharedHandles => (Spec => []ReadyWhenCalled)
<1> SUFFICES ASSUME ~SharedHandles PROVE Spec => []ReadyWhenCalled
  OBVIOUS
<1> DEFINE IInv == TypeOK /\ ListInv /\ BatchInv /\ ReadyInv
<1>1. Init => IInv
  <2> SUFFICES ASSUME Init PROVE ListInv /\ BatchInv /\ ReadyInv
    BY TypeInit
  <2> QED
    BY DEF Init, ListInv, BatchInv, ReadyInv, IdsOf, InCall
<1>2. IInv /\ [Next]_vars => IInv'
  BY TypeStep, ListStep, BatchStep, ReadyStep
<1>3. IInv => ReadyWhenCalled
  <2> SUFFICES ASSUME IInv, pc \in {"io", "dep"} PROVE status[elist[next].h] = "Ready"
    BY DEF ReadyWhenCalled
  <2>1. next \in next .. Len(elist)
    BY DEF TypeOK
  <2> QED
    BY <2>1 DEF ReadyInv
<1> QED
  BY <1>1, <1>2, <1>3, PTL DEF Spec

-----------------------------------------------------------------------------
(* Triggers.                                                               *)

\* Which entries wait, and which handles a round serves, does not change in
\* a step that leaves the lists, the program point and the call alone.
LEMMA SameWaiting ==
  ASSUME UNCHANGED <<eventList, elist, called, pc>>
  PROVE  Waiting' = Waiting /\ \A d : Serving(d)' <=> Serving(d)
BY DEF Waiting, Serving

\* waitFor adds the new entry to the ones that wait.
LEMMA MoreWaiting ==
  ASSUME NEW id \in Ids, NEW h \in Handles, NEW t \in Time, WaitFor(id, h, t)
  PROVE  /\ Waiting \subseteq Waiting'
         /\ Waiting' \subseteq Waiting \cup {[id |-> id, h |-> h, t |-> t]}
         /\ \A e \in Waiting : e.id # id
         /\ \A d : Serving(d)' <=> Serving(d)
         /\ UNCHANGED <<triggered, elist, next, called, pc>>
         /\ signalled' = signalled \ {id}
         /\ \A i \in next .. Len(elist) : elist[i].id # id /\ (~SharedHandles => elist[i].h # h)
         /\ ~SharedHandles => \A e \in Waiting : e.h # h
<1> DEFINE new == [id |-> id, h |-> h, t |-> t]
<1>1. /\ eventList' = eventList \cup {new}
      /\ UNCHANGED <<triggered, elist, next, called, pc>>
      /\ signalled' = signalled \ {id}
      /\ id \notin IdsOf(eventList) \cup IdsOf(Pending)
      /\ SharedHandles \/ h \notin HandlesOf(Waiting \cup Pending)
  BY DEF WaitFor
<1> HIDE DEF new
<1>2. Waiting \subseteq Waiting' /\ Waiting' \subseteq Waiting \cup {new}
  BY <1>1 DEF Waiting
<1>3. \A e \in Waiting : e.id # id
  BY <1>1 DEF Waiting, IdsOf
<1>4. \A d : Serving(d)' <=> Serving(d)
  BY <1>1 DEF Serving
<1>5. \A i \in next .. Len(elist) : elist[i].id # id /\ (~SharedHandles => elist[i].h # h)
  BY <1>1 DEF IdsOf, HandlesOf, Pending
<1>6. ~SharedHandles => \A e \in Waiting : e.h # h
  BY <1>1 DEF HandlesOf
<1> QED
  BY <1>1, <1>2, <1>3, <1>4, <1>5, <1>6 DEF new

\* Every step keeps the promise to the entries that were signalled, if
\* handlers trigger only handles somebody waits on that are not being served.
LEMMA WakeStep ==
  ASSUME TypeOK, ListInv, WakeInv, [Next]_vars, ~FreeTriggers
  PROVE  WakeInv'
<1>1. ASSUME NEW id \in Ids, NEW h \in Handles, NEW t \in Time, WaitFor(id, h, t)
      PROVE  WakeInv'
  <2> DEFINE new == [id |-> id, h |-> h, t |-> t]
  <2>1. eventList' = eventList \cup {new} /\ new.id = id
    BY <1>1 DEF WaitFor
  <2>2. /\ Waiting' \subseteq Waiting \cup {new}
        /\ \A d : Serving(d)' <=> Serving(d)
        /\ UNCHANGED <<triggered, called, pc>>
        /\ signalled' = signalled \ {id}
    BY <1>1, MoreWaiting
  <2> HIDE DEF new
  <2> QED
    BY <2>1, <2>2 DEF WakeInv, IdsOf
<1>2. ASSUME NEW d \in Dependents, Complied(d)
      PROVE  WakeInv'
  <2>1. /\ UNCHANGED <<eventList, elist, next, called, pc>>
        /\ triggered' = [triggered EXCEPT ![d] = TRUE]
        /\ signalled' = signalled \cup IdsOf(WaitersOn(d))
        /\ pc \in InClient \ {"main"}
        /\ pc = "inDep" => \A i \in DOMAIN elist : elist[i].h # d
    BY <1>2 DEF Complied, listVars, callVars
  <2>2. Waiting' = Waiting /\ \A x : Serving(x)' <=> Serving(x)
    BY <2>1, SameWaiting
  <2>3. ~Serving(d)
    BY <2>1 DEF Serving, InClient
  <2>4. Waiting \subseteq eventList
    BY DEF Waiting
  <2>5. \A e \in Waiting : e.id \in IdsOf(WaitersOn(d)) => e.h = d
    BY <2>4 DEF WaitersOn, IdsOf, ListInv
  <2>6. \A e \in Waiting : e.id \in signalled' =>
          e.h \in Dependents /\ triggered'[e.h] /\ ~Serving(e.h)
    BY <2>1, <2>3, <2>5 DEF WakeInv, TypeOK
  <2>7. pc = "inExpire" => IdsOf(called) \cap IdsOf(WaitersOn(d)) = {}
    BY DEF WakeInv, Waiting, WaitersOn, IdsOf, ListInv
  <2>8. pc = "inExpire" => IdsOf(called) \cap signalled' = {}
    BY <2>1, <2>7 DEF WakeInv
  <2>9. (pc = "inExpire")' => (called \subseteq eventList /\ IdsOf(called) \cap signalled = {})'
    BY <2>1, <2>8 DEF WakeInv, IdsOf
  <2> QED
    BY <2>1, <2>2, <2>6, <2>9 DEF WakeInv, InClient
<1>3. CASE Expire
  <2>1. PICK e \in eventList :
          /\ called' = {e} /\ signalled' = signalled \ {e.id}
          /\ pc = "while" /\ pc' = "inExpire"
          /\ UNCHANGED eventList
    BY <1>3 DEF Expire, listVars
  <2>2. \A x \in eventList : x.id \notin signalled
    BY <2>1 DEF WakeInv, IdsOf
  <2> QED
    BY <2>1, <2>2 DEF WakeInv, Waiting, IdsOf
<1>4. CASE ReturnExpire
  <2>1. /\ pc = "inExpire" /\ pc' = "deps" /\ eventList' \subseteq eventList
        /\ UNCHANGED <<signalled, triggered>>
    BY <1>4 DEF ReturnExpire, Erase
  <2>2. \A e \in Waiting' : e \in Waiting \/ e.id \notin signalled
    BY <2>1 DEF Waiting, WakeInv, IdsOf
  <2>3. \A d : ~Serving(d)'
    BY <2>1 DEF Serving
  <2> QED
    BY <2>1, <2>2, <2>3 DEF WakeInv
<1>5. CASE CollectIo
  <2>1. /\ pc = "while" /\ pc' = "io" /\ eventList' \subseteq eventList
        /\ UNCHANGED signalled
    BY <1>5 DEF CollectIo, Collect, Erase
  <2>2. \A e \in Waiting' : e.id \notin signalled
    BY <2>1 DEF WakeInv, Waiting, IdsOf
  <2> QED
    BY <2>1, <2>2 DEF WakeInv
<1>6. CASE CollectDeps
  <2>1. /\ pc = "deps" /\ pc' = "dep" /\ eventList' = eventList \ TriggeredDeps
        /\ UNCHANGED signalled
    BY <1>6 DEF CollectDeps, Collect, Erase
  <2>2. \A e \in eventList : e.id \in signalled => e \in TriggeredDeps
    BY <2>1 DEF WakeInv, Waiting, TriggeredDeps
  <2>3. \A e \in Waiting' : e.id \notin signalled
    BY <2>1, <2>2 DEF Waiting
  <2> QED
    BY <2>1, <2>3 DEF WakeInv
<1>7. CASE CallIo \/ CallDep
  <2>1. /\ UNCHANGED <<eventList, elist, triggered>>
        /\ signalled' \subseteq signalled
        /\ pc # "inExpire" /\ pc' # "inExpire" /\ pc' \notin {"main", "while"}
        /\ pc \in {"dep", "inDep"} <=> pc' \in {"dep", "inDep"}
    BY <1>7, NextCall
  <2>2. Waiting' = Waiting /\ \A d : Serving(d)' <=> Serving(d)
    BY <2>1 DEF Waiting, Serving
  <2> QED
    BY <2>1, <2>2 DEF WakeInv
<1>8. CASE ReturnIo
  <2>1. /\ UNCHANGED <<eventList, triggered, signalled>>
        /\ pc = "inIo" /\ pc' \in {"io", "deps"}
    BY <1>8 DEF ReturnIo, listVars
  <2>2. Waiting' = Waiting /\ \A d : ~Serving(d)'
    BY <2>1 DEF Waiting, Serving
  <2> QED
    BY <2>1, <2>2 DEF WakeInv
<1>9. CASE ReturnDep
  <2>1. UNCHANGED <<eventList, signalled>> /\ pc = "inDep"
    BY <1>9 DEF ReturnDep, listVars
  <2>2. CASE MoreCalls
    <3>1. pc' = "dep" /\ UNCHANGED <<elist, triggered>>
      BY <1>9, <2>2 DEF ReturnDep
    <3>2. Waiting' = Waiting /\ \A d : Serving(d)' <=> Serving(d)
      BY <2>1, <3>1 DEF Waiting, Serving
    <3> QED
      BY <2>1, <3>1, <3>2 DEF WakeInv
  <2>3. CASE ~MoreCalls
    <3>1. pc' = "deps" /\ triggered' = ResetTriggers
      BY <1>9, <2>3 DEF ReturnDep, AfterRound
    <3>2. Waiting' = Waiting /\ \A d : ~Serving(d)'
      BY <2>1, <3>1 DEF Waiting, Serving
    <3>3. \A d \in Dependents : triggered[d] /\ ~Serving(d) => triggered'[d]
      BY <2>1, <3>1 DEF ResetTriggers, Serving
    <3> QED
      BY <2>1, <3>1, <3>2, <3>3 DEF WakeInv
  <2> QED
    BY <2>2, <2>3
<1>10. CASE DepsDone
  <2>1. /\ pc = "deps" /\ pc' = "while" /\ UNCHANGED <<eventList, signalled>>
        /\ TriggeredDeps = {}
    BY <1>10 DEF DepsDone, listVars
  <2>2. \A e \in eventList : e.id \notin signalled
    BY <2>1 DEF WakeInv, Waiting, TriggeredDeps
  <2> QED
    BY <2>1, <2>2 DEF WakeInv, Waiting, IdsOf
<1>11. CASE Start \/ Finish
  <2>1. /\ pc \in {"main", "while"} /\ pc' \in {"while", "done"}
        /\ UNCHANGED <<eventList, signalled>>
    BY <1>11 DEF Start, Finish, listVars
  <2>2. \A e \in eventList : e.id \notin signalled
    BY <2>1 DEF WakeInv, IdsOf
  <2> QED
    BY <2>1, <2>2 DEF WakeInv, Waiting, IdsOf
<1>12. CASE \/ \E h \in FdHandles : Read(h)
            \/ Tick
            \/ \E h \in FdHandles : Arrive(h)
            \/ Terminated \/ UNCHANGED vars
  <2>1. UNCHANGED <<eventList, elist, called, pc, signalled, triggered>>
    BY <1>12 DEF Read, Tick, Arrive, Terminated, vars, listVars, callVars
  <2> QED
    BY <2>1, SameWaiting DEF WakeInv, IdsOf
<1> QED
  BY <1>1, <1>2, <1>3, <1>4, <1>5, <1>6, <1>7, <1>8, <1>9, <1>10, <1>11, <1>12
  DEF Next, Client, Loop, Return

\* complied() loses nobody: if handlers trigger only handles that somebody
\* waits on and that are not being served, then run() does not go to sleep
\* before every handler that waited on a triggered handle has been called,
\* even with several waiters on a handle and back-dated timeouts.
THEOREM WakesAllWaitersHolds == ~FreeTriggers => (Spec => []WakesAllWaiters)
<1> SUFFICES ASSUME ~FreeTriggers PROVE Spec => []WakesAllWaiters
  OBVIOUS
<1> DEFINE IInv == TypeOK /\ ListInv /\ WakeInv
<1>1. Init => IInv
  <2> SUFFICES ASSUME Init PROVE ListInv /\ WakeInv
    BY TypeInit
  <2> QED
    BY DEF Init, ListInv, WakeInv, Waiting, IdsOf
<1>2. IInv /\ [Next]_vars => IInv'
  BY TypeStep, ListStep, WakeStep
<1>3. IInv => WakesAllWaiters
  BY DEF WakeInv, WakesAllWaiters
<1> QED
  BY <1>1, <1>2, <1>3, PTL DEF Spec

\* Every step keeps every trigger owed to somebody, if handles have one
\* waiter each, handlers trigger only handles somebody waits on that are not
\* being served, and the erase of begin() erases the called entry.
LEMMA TriggerStep ==
  ASSUME TypeOK, ListInv, ExpireInv, BatchInv, TriggerInv, [Next]_vars,
         ~SharedHandles, ~FreeTriggers
  PROVE  TriggerInv'
<1>1. ASSUME NEW id \in Ids, NEW h \in Handles, NEW t \in Time, WaitFor(id, h, t)
      PROVE  TriggerInv'
  <2> DEFINE new == [id |-> id, h |-> h, t |-> t]
  <2>1. /\ Waiting \subseteq Waiting'
        /\ Waiting' \subseteq Waiting \cup {new}
        /\ \A e \in Waiting : e.id # id /\ e.h # h
        /\ \A d : Serving(d)' <=> Serving(d)
        /\ UNCHANGED <<triggered, elist, next, pc>>
        /\ signalled' = signalled \ {id}
        /\ \A i \in next .. Len(elist) : elist[i].id # id
    BY <1>1, MoreWaiting
  <2>2. new.h = h
    OBVIOUS
  <2> HIDE DEF new
  <2>3. h \in Dependents /\ triggered[h] => Serving(h)
    BY <2>1 DEF TriggerInv
  <2>4. ASSUME NEW e \in Waiting', e.h \in Dependents, triggered'[e.h]
        PROVE  e.id \in signalled' \/ Serving(e.h)'
    BY <2>1, <2>2, <2>3, <2>4 DEF TriggerInv
  <2>5. ASSUME NEW d \in Dependents, triggered'[d]
        PROVE  Serving(d)' \/ \E e \in Waiting' : e.h = d
    BY <2>1, <2>5 DEF TriggerInv
  <2> QED
    BY <2>1, <2>4, <2>5 DEF TriggerInv
<1>2. ASSUME NEW d \in Dependents, Complied(d)
      PROVE  TriggerInv'
  <2>1. /\ UNCHANGED <<eventList, elist, next, called, pc>>
        /\ triggered' = [triggered EXCEPT ![d] = TRUE]
        /\ signalled' = signalled \cup IdsOf(WaitersOn(d))
        /\ pc \in InClient \ {"main"}
        /\ WaitersOn(d) # {}
    BY <1>2 DEF Complied, listVars, callVars
  <2>2. Waiting' = Waiting /\ \A x : Serving(x)' <=> Serving(x)
    BY <2>1, SameWaiting
  <2>3. \E e \in Waiting : e.h = d
    BY <2>1 DEF WaitersOn
  <2>4. \A e \in Waiting : e.h = d => e.id \in signalled'
    BY <2>1 DEF WaitersOn, IdsOf
  <2>5. \A x \in Dependents : x # d => triggered'[x] = triggered[x]
    BY <2>1 DEF TypeOK
  <2>6. signalled \subseteq signalled'
    BY <2>1
  <2>7. ASSUME NEW x \in Dependents, triggered'[x]
        PROVE  Serving(x)' \/ \E e \in Waiting' : e.h = x
    BY <2>2, <2>3, <2>5, <2>7 DEF TriggerInv
  <2>8. ASSUME NEW e \in Waiting', e.h \in Dependents, triggered'[e.h]
        PROVE  e.id \in signalled' \/ Serving(e.h)'
    BY <2>2, <2>4, <2>5, <2>6, <2>8 DEF TriggerInv
  <2> QED
    BY <2>1, <2>6, <2>7, <2>8 DEF TriggerInv, InClient
<1>a. pc \notin InRound => next .. Len(elist) = {}
  BY DEF BatchInv, TypeOK
<1>3. CASE Expire
  <2>1. /\ pc = "while" /\ pc' = "inExpire"
        /\ UNCHANGED <<eventList, elist, next, triggered>>
    BY <1>3 DEF Expire, listVars
  <2>2. \A d \in Dependents : ~triggered'[d]
    BY <2>1 DEF TriggerInv
  <2>3. next' .. Len(elist') = {}
    BY <1>a, <2>1 DEF InRound
  <2> QED
    BY <2>1, <2>2, <2>3 DEF TriggerInv
<1>4. CASE ReturnExpire
  <2>1. PICK e \in eventList : IsBegin(e) /\ Erase({e})
    BY <1>4 DEF ReturnExpire
  <2>2. PICK f \in eventList : IsBegin(f) /\ called = {f}
    BY <1>4 DEF ReturnExpire, ExpireInv
  <2>3. e = f
    BY <2>1, <2>2, BeginUnique
  <2>4. /\ pc = "inExpire" /\ pc' = "deps" /\ eventList' = eventList \ called
        /\ UNCHANGED <<elist, next, triggered, signalled>>
    BY <1>4, <2>1, <2>2, <2>3 DEF ReturnExpire, Erase
  <2>5. Waiting' = Waiting /\ \A d : Serving(d)' <=> Serving(d)
    BY <2>4 DEF Waiting, Serving
  <2> QED
    BY <2>4, <2>5 DEF TriggerInv
<1>5. CASE CollectIo
  <2>1. pc = "while" /\ pc' = "io" /\ UNCHANGED triggered /\ Collect(ReadyIo)
    BY <1>5 DEF CollectIo
  <2>2. \A d \in Dependents : ~triggered'[d]
    BY <2>1 DEF TriggerInv
  <2>3. \A i \in DOMAIN elist' : \E e \in ReadyIo : elist'[i].h = e.h
    BY <2>1, CollectShape DEF ReadyIo
  <2>4. \A i \in DOMAIN elist' : elist'[i].h \notin Dependents
    BY <2>3, ConstantsAssumption DEF ReadyIo
  <2>5. DOMAIN elist' = next' .. Len(elist')
    BY <2>1, CollectShape DEF ReadyIo
  <2> QED
    BY <2>1, <2>2, <2>4, <2>5 DEF TriggerInv
<1>6. CASE CollectDeps
  <2>1. /\ pc = "deps" /\ pc' = "dep" /\ UNCHANGED <<triggered, signalled>>
        /\ Collect(TriggeredDeps)
    BY <1>6 DEF CollectDeps
  <2>2. /\ \A i \in DOMAIN elist' : \E e \in TriggeredDeps : elist'[i].id = e.id
        /\ \A e \in TriggeredDeps : \E i \in DOMAIN elist' : elist'[i].h = e.h
        /\ DOMAIN elist' = next' .. Len(elist')
        /\ eventList' = eventList \ TriggeredDeps
    BY <2>1, CollectShape DEF TriggeredDeps
  <2>3. Waiting = eventList /\ Waiting' = eventList \ TriggeredDeps /\ \A d : ~Serving(d)
    BY <2>1, <2>2 DEF Waiting, Serving
  <2>4. \A e \in TriggeredDeps : e.id \in signalled
    BY <2>3 DEF TriggerInv, TriggeredDeps
  <2>5. \A e \in Waiting' : ~(e.h \in Dependents /\ triggered[e.h])
    BY <2>3 DEF TriggeredDeps
  <2>6. \A d \in Dependents : triggered[d] => \E e \in TriggeredDeps : e.h = d
    BY <2>3 DEF TriggerInv, TriggeredDeps
  <2>7. \A d \in Dependents : triggered[d] => Serving(d)'
    BY <2>1, <2>2, <2>6 DEF Serving
  <2> QED
    BY <2>1, <2>2, <2>4, <2>5, <2>7 DEF TriggerInv
<1>7. CASE CallIo \/ CallDep
  <2>1. /\ UNCHANGED <<eventList, elist, triggered>>
        /\ signalled' = signalled \ {elist[next].id}
        /\ next \in next .. Len(elist)
        /\ \A i \in next' .. Len(elist') : i \in next .. Len(elist) /\ i # next
        /\ pc # "inExpire" /\ pc' # "inExpire" /\ pc' \notin {"main", "while"}
        /\ pc \in {"dep", "inDep"} <=> pc' \in {"dep", "inDep"}
    BY <1>7, NextCall
  <2>2. Waiting = eventList /\ Waiting' = Waiting /\ \A d : Serving(d)' <=> Serving(d)
    BY <2>1 DEF Waiting, Serving
  <2>3. \A e \in Waiting : e.id # elist[next].id
    BY <2>1, <2>2 DEF BatchInv, IdsOf
  <2>4. \A i \in next' .. Len(elist') : elist[i].id # elist[next].id
    BY <2>1 DEF BatchInv
  <2> QED
    BY <2>1, <2>2, <2>3, <2>4 DEF TriggerInv
<1>8. CASE ReturnIo
  <2>1. /\ UNCHANGED <<eventList, triggered, signalled>>
        /\ pc = "inIo" /\ pc' \in {"io", "deps"}
        /\ \/ UNCHANGED <<elist, next>>
           \/ elist' = <<>> /\ next' = 1
    BY <1>8 DEF ReturnIo, listVars
  <2>2. Waiting' = Waiting /\ \A d : ~Serving(d)' /\ ~Serving(d)
    BY <2>1 DEF Waiting, Serving
  <2>3. \A i \in next' .. Len(elist') : elist'[i].h \in Dependents => elist'[i].id \in signalled
    BY <2>1 DEF TriggerInv
  <2> QED
    BY <2>1, <2>2, <2>3 DEF TriggerInv
<1>9. CASE ReturnDep
  <2>1. UNCHANGED <<eventList, signalled>> /\ pc = "inDep"
    BY <1>9 DEF ReturnDep, listVars
  <2>2. CASE MoreCalls
    <3>1. pc' = "dep" /\ UNCHANGED <<elist, next, triggered>>
      BY <1>9, <2>2 DEF ReturnDep
    <3>2. Waiting' = Waiting /\ \A d : Serving(d)' <=> Serving(d)
      BY <2>1, <3>1 DEF Waiting, Serving
    <3> QED
      BY <2>1, <3>1, <3>2 DEF TriggerInv
  <2>3. CASE ~MoreCalls
    <3>1. pc' = "deps" /\ triggered' = ResetTriggers /\ elist' = <<>> /\ next' = 1
      BY <1>9, <2>3 DEF ReturnDep, AfterRound
    <3>2. Waiting' = Waiting /\ \A d : ~Serving(d)'
      BY <2>1, <3>1 DEF Waiting, Serving
    <3>3. \A d \in Dependents : triggered'[d] => triggered[d] /\ ~Serving(d)
      BY <2>1, <3>1 DEF ResetTriggers, Serving
    <3>4. next' .. Len(elist') = {}
      BY <3>1
    <3> QED
      BY <2>1, <3>1, <3>2, <3>3, <3>4 DEF TriggerInv
  <2> QED
    BY <2>2, <2>3
<1>10. CASE DepsDone
  <2>1. /\ pc = "deps" /\ pc' = "while"
        /\ UNCHANGED <<eventList, elist, next, triggered, signalled>>
        /\ TriggeredDeps = {}
    BY <1>10 DEF DepsDone, listVars, callVars
  <2>2. \A d \in Dependents : ~triggered[d]
    BY <2>1 DEF TriggerInv, Waiting, Serving, TriggeredDeps
  <2> QED
    BY <2>1, <2>2 DEF TriggerInv
<1>11. CASE Start \/ Finish
  <2>1. /\ pc \in {"main", "while"} /\ pc' \in {"while", "done"}
        /\ UNCHANGED <<elist, next, triggered, signalled>>
    BY <1>11 DEF Start, Finish, callVars
  <2> QED
    BY <2>1 DEF TriggerInv
<1>12. CASE \/ \E h \in FdHandles : Read(h)
            \/ Tick
            \/ \E h \in FdHandles : Arrive(h)
            \/ Terminated \/ UNCHANGED vars
  <2>1. UNCHANGED <<eventList, elist, next, called, pc, signalled, triggered>>
    BY <1>12 DEF Read, Tick, Arrive, Terminated, vars, listVars, callVars
  <2> QED
    BY <2>1, SameWaiting DEF TriggerInv
<1> QED
  BY <1>1, <1>2, <1>3, <1>4, <1>5, <1>6, <1>7, <1>8, <1>9, <1>10, <1>11, <1>12
  DEF Next, Client, Loop, Return

\* complied() wakes nobody twice: with one waiter per handle, handlers that
\* trigger only handles somebody waits on that are not being served, and no
\* back-dated timeouts, a handler waiting on a DependHandle is collected only
\* if the handle was triggered after it began to wait.
THEOREM WokenOnlyByATriggerHolds ==
  ~SharedHandles /\ ~FreeTriggers /\ MinDelay >= 0 => (Spec => []WokenOnlyByATrigger)
<1> SUFFICES ASSUME ~SharedHandles, ~FreeTriggers, MinDelay >= 0
             PROVE  Spec => []WokenOnlyByATrigger
  OBVIOUS
<1> DEFINE IInv == TypeOK /\ ListInv /\ ExpireInv /\ BatchInv /\ TriggerInv
<1>1. Init => IInv
  <2> SUFFICES ASSUME Init PROVE ListInv /\ ExpireInv /\ BatchInv /\ TriggerInv
    BY TypeInit
  <2> QED
    BY DEF Init, ListInv, ExpireInv, BatchInv, TriggerInv, Waiting, IdsOf, InCall
<1>2. IInv /\ [Next]_vars => IInv'
  BY TypeStep, ListStep, ExpireStep, BatchStep, TriggerStep
<1>3. IInv => WokenOnlyByATrigger
  BY DEF TriggerInv, WokenOnlyByATrigger, Pending
<1> QED
  BY <1>1, <1>2, <1>3, PTL DEF Spec
-----------------------------------------------------------------------------
(* Rounds.                                                                 *)

\* A round serves handles that have been triggered, and at least one: no
\* handler of the round can take a trigger back.
RoundInv ==
  pc \in {"dep", "inDep"} =>
    /\ DOMAIN elist # {}
    /\ \A i \in DOMAIN elist : elist[i].h \in Dependents /\ triggered[elist[i].h]

\* Every step leaves the handles of the round triggered until it is over.
LEMMA RoundStep ==
  ASSUME TypeOK, RoundInv, [Next]_vars
  PROVE  RoundInv'
<1>1. ASSUME NEW id \in Ids, NEW h \in Handles, NEW t \in Time, WaitFor(id, h, t)
      PROVE  RoundInv'
  BY <1>1 DEF WaitFor, RoundInv
<1>2. ASSUME NEW d \in Dependents, Complied(d)
      PROVE  RoundInv'
  <2>1. pc' = pc /\ elist' = elist /\ triggered' = [triggered EXCEPT ![d] = TRUE]
    BY <1>2 DEF Complied, callVars
  <2>2. \A c \in Dependents : triggered[c] => triggered'[c]
    BY <2>1 DEF TypeOK
  <2> QED
    BY <2>1, <2>2 DEF RoundInv
<1>3. CASE CollectDeps
  <2>1. TriggeredDeps \in SUBSET eventList /\ TriggeredDeps # {} /\ Collect(TriggeredDeps)
    BY <1>3 DEF TriggeredDeps, CollectDeps
  <2>2. /\ \A i \in DOMAIN elist' : \E e \in TriggeredDeps : elist'[i].h = e.h
        /\ \A e \in TriggeredDeps : \E i \in DOMAIN elist' : elist'[i].h = e.h
    BY <2>1, CollectShape
  <2>3. triggered' = triggered
    BY <1>3 DEF CollectDeps
  <2> QED
    BY <2>1, <2>2, <2>3 DEF RoundInv, TriggeredDeps
<1>4. CASE CallIo \/ CallDep
  <2>1. elist' = elist /\ triggered' = triggered /\ (pc' \in {"dep", "inDep"} => pc \in {"dep", "inDep"})
    BY <1>4, NextCall
  <2> QED
    BY <2>1 DEF RoundInv
<1>5. CASE ReturnDep
  <2>1. CASE MoreCalls
    BY <1>5, <2>1 DEF ReturnDep, RoundInv
  <2>2. CASE ~MoreCalls
    BY <1>5, <2>2 DEF ReturnDep, RoundInv, AfterRound
  <2> QED
    BY <2>1, <2>2
<1>6. CASE ReturnIo \/ ReturnExpire \/ CollectIo \/ Expire \/ Start \/ Finish \/ DepsDone
  <2>1. pc' \notin {"dep", "inDep"}
    BY <1>6 DEF ReturnIo, ReturnExpire, CollectIo, Expire, Start, Finish, DepsDone
  <2> QED
    BY <2>1 DEF RoundInv
<1>7. CASE \/ \E h \in FdHandles : Read(h)
           \/ Tick
           \/ \E h \in FdHandles : Arrive(h)
           \/ Terminated \/ UNCHANGED vars
  <2>1. UNCHANGED <<elist, pc, triggered>>
    BY <1>7 DEF Read, Tick, Arrive, Terminated, vars, callVars
  <2> QED
    BY <2>1 DEF RoundInv
<1> QED
  BY <1>1, <1>2, <1>3, <1>4, <1>5, <1>6, <1>7 DEF Next, Client, Loop, Return

\* Only complied() triggers; only the end of a round resets.
LEMMA TriggersStep ==
  ASSUME TypeOK, [Next]_vars, \A d \in Dependents : ~Complied(d), ~UNCHANGED triggered
  PROVE  ReturnDep /\ ~MoreCalls
<1>1. CASE ReturnDep
  BY <1>1 DEF ReturnDep
<1>2. CASE Client
  BY <1>2 DEF Client, WaitFor, Read
<1>3. CASE \/ ReturnIo \/ ReturnExpire \/ Loop \/ Start \/ Tick
           \/ \E h \in FdHandles : Arrive(h)
           \/ Terminated \/ UNCHANGED vars
  BY <1>3 DEF ReturnIo, ReturnExpire, Loop, CollectIo, CollectDeps, CallIo, CallDep, CallNext,
              Expire, Start, Finish, DepsDone, Tick, Arrive, Terminated, vars
<1> QED
  BY <1>1, <1>2, <1>3 DEF Next, Return

\* The variant of the loop over rounds: without complied() the set of set triggers
\* never grows, and every round that ends has taken at least one out of it.  A run
\* of rounds is therefore at most as long as there are triggers when the handlers
\* stop triggering, whatever they register meanwhile.
THEOREM RoundsShrinkHolds == Spec => RoundsShrink
<1> DEFINE IInv == TypeOK /\ RoundInv
<1>1. Init => IInv
  BY TypeInit DEF Init, RoundInv
<1>2. IInv /\ [Next]_vars => IInv'
  BY TypeStep, RoundStep
<1>3. ASSUME IInv, [Next]_vars, \A d \in Dependents : ~Complied(d)
      PROVE  Triggers' \subseteq Triggers /\ (RoundOver => Triggers' # Triggers)
  <2>1. CASE UNCHANGED triggered /\ ~RoundOver
    BY <2>1 DEF Triggers
  <2>2. CASE RoundOver \/ ~UNCHANGED triggered
    <3>1. ReturnDep /\ ~MoreCalls
      <4>1. CASE ~UNCHANGED triggered
        BY <1>3, <4>1, TriggersStep
      <4>2. CASE RoundOver
        <5>1. pc = "inDep" /\ pc' = "deps"
          BY <4>2 DEF RoundOver
        <5>2. ReturnDep
          BY <1>3, <5>1 DEF Next, Client, WaitFor, Complied, Read, Loop, CollectIo, CollectDeps,
                            CallIo, CallDep, CallNext, Expire, Start, Finish, DepsDone, Return,
                            ReturnIo, ReturnExpire, Tick, Arrive, Terminated, vars
        <5> QED
          BY <5>1, <5>2 DEF ReturnDep
      <4> QED
        BY <2>2, <4>1, <4>2
    <3>2. triggered' = ResetTriggers /\ pc = "inDep"
      BY <3>1 DEF ReturnDep
    <3>3. Triggers' \subseteq Triggers
      BY <3>2 DEF Triggers, ResetTriggers
    <3>4. PICK i \in DOMAIN elist : elist[i].h \in Dependents /\ triggered[elist[i].h]
      BY <1>3, <3>2 DEF RoundInv
    <3>5. elist[i].h \in Triggers /\ elist[i].h \notin Triggers'
      BY <3>2, <3>4 DEF Triggers, ResetTriggers
    <3> QED
      BY <3>3, <3>5
  <2> QED
    BY <2>1, <2>2
<1>4. IInv /\ [Next]_vars
        => [(\A d \in Dependents : ~Complied(d)) =>
              /\ Triggers' \subseteq Triggers
              /\ RoundOver => Triggers' # Triggers]_vars
  BY <1>3
<1> QED
  BY <1>1, <1>2, <1>4, PTL DEF Spec, RoundsShrink
=============================================================================
