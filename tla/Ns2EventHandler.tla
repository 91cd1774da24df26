-------------------------- MODULE Ns2EventHandler --------------------------
(***************************************************************************)
(* GEA's ns-2 backend: the same EventHandler interface on top of the       *)
(* simulator's scheduler (ns2-gea/ns-2/gea).  Blocker waits are scheduler  *)
(* events; DependHandle and receiving UdpHandle own one TimerHandler each, *)
(* and so serve one waiter; sending handles are served inside waitFor.     *)
(*                                                                         *)
(* Handlers nest: waitFor on a sending handle calls the handler at once,   *)
(* and after a handler doPendingEvents calls the handlers of triggered     *)
(* DependHandles.  The stack of C++ frames is the variable stack.          *)
(*                                                                         *)
(* clock is the simulator's double in fine ticks; an AbsTime is a multiple *)
(* of Gran of them, and AbsTime::now() rounds the clock down.              *)
(***************************************************************************)
EXTENDS Integers, Sequences, FiniteSets

CONSTANTS
  Ids,           \* registrations alive at one time
  Blockers, Dependents, Readers, Writers,   \* the kinds of handle
  Nodes,         \* simulated nodes
  NodeOf,        \* the node on which a handle was created
  Gran,          \* clock ticks per unit of AbsTime
  MaxClock,      \* bound on the clock
  MaxDepth,      \* bound on the nesting of handlers
  MinDelay,      \* least delay a handler asks for, from its event's time
  SharedHandles, \* may two registrations wait on one handle?
  FreeTriggers,  \* may complied() be called from any handler?
  LazyReaders,   \* may gea_main leave a receiving handle without a waiter?
  InitStatus,    \* what the uninitialised Handle::status may hold
  NoId, NoHandle, NoNode

Handles == Blockers \cup Dependents \cup Readers \cup Writers
Timed == Dependents \cup Readers
Clock == 0 .. MaxClock
AbsTime == {c \in 0 .. MaxClock + Gran : c % Gran = 0}  \* one beyond the bound
Status == {"Undefined", "Error", "Blocked", "Timeout", "Ready"}

ASSUME Ns2Assumption ==
  /\ Gran \in Nat \ {0} /\ MaxClock \in Nat /\ MaxDepth \in Nat \ {0}
  /\ MinDelay \in Nat
  /\ {SharedHandles, FreeTriggers, LazyReaders} \subseteq BOOLEAN
  /\ InitStatus \subseteq Status
  /\ NodeOf \in [Handles -> Nodes]
  /\ NoId \notin Ids /\ NoHandle \notin Handles /\ NoNode \notin Nodes
  /\ Blockers \cap Timed = {} /\ Blockers \cap Writers = {}
  /\ Timed \cap Writers = {} /\ Dependents \cap Readers = {}

VARIABLES
  clock,          \* Scheduler::clock_
  queue,          \* the GeaNsEvents in the scheduler
  timer,          \* TimerHandler::status_
  at,             \* when the timer fires
  slot,           \* the registration stored in the handle (e, data)
  timeout,        \* ShadowUdpHandle::timeout
  status,         \* Handle::status
  pendingList,    \* ShadowEventHandler::pendingList
  stack,          \* the handlers in progress, innermost last
  lastEventTime, currentNode,
  started,        \* nodes whose gea_main has been called
  abort           \* "" or why the simulator stopped

timerVars == <<timer, at, slot, timeout>>
ctxVars == <<lastEventTime, currentNode>>
runVars == <<clock, started, abort>>
vars == <<clock, queue, timer, at, slot, timeout, status, pendingList, stack,
          lastEventTime, currentNode, started, abort>>

\* AbsTime::now(): the clock in AbsTime, rounded down, as the cast of Time.cc:15
\* does; the other branch there is for a GEA whose Time.h has setSeconds.
Now == clock - (clock % Gran)

\* EventDescr: a triggered DependHandle and the registration it held.
PendingEvent == [h : Dependents, id : Ids \cup {NoId}]

\* A handler in progress.  phase is "call" while the handler runs and
\* "drain" while doPendingEvents(t) runs after it.
Frame == [kind : {"main", "blocker", "expire", "recv", "udpTimeout", "write", "pending"},
          h : Handles \cup {NoHandle}, id : Ids \cup {NoId}, t : AbsTime,
          phase : {"call", "drain"}, todo : Seq(PendingEvent)]

Call(kind, h, id, t) ==
  [kind |-> kind, h |-> h, id |-> id, t |-> t, phase |-> "call", todo |-> <<>>]

Top == stack[Len(stack)]
Push(f) == stack' = Append(stack, f)
Pop == SubSeq(stack, 1, Len(stack) - 1)
Running(phase) == abort = "" /\ stack # <<>> /\ Top.phase = phase
Idle == abort = "" /\ stack = <<>>

\* The kinds of call that are followed by doPendingEvents.  The slip forgets
\* it after a packet.
DrainingNotRecv == {"blocker", "udpTimeout", "write"}
Draining == {"blocker", "recv", "udpTimeout", "write"}

PendingTimers == {h \in Timed : timer[h] = "PENDING"}

\* Registrations not called yet.
Registered == {[id |-> e.id, h |-> e.h] : e \in queue}
                \cup {[id |-> slot[h], h |-> h] : h \in PendingTimers}

UsedIds == {r.id : r \in Registered} \cup {stack[i].id : i \in DOMAIN stack}

-----------------------------------------------------------------------------
Init ==
  /\ clock = 0
  /\ queue = {}
  /\ timer = [h \in Timed |-> "IDLE"]
  /\ at = [h \in Timed |-> 0]
  /\ slot = [h \in Timed |-> NoId]
  /\ timeout = [h \in Readers |-> 0]
  /\ status \in [Handles -> InitStatus]
  /\ pendingList = <<>>
  /\ stack = <<>>
  /\ lastEventTime = 0
  /\ currentNode = NoNode
  /\ started = {}
  /\ abort = ""

Abort(why) ==
  /\ abort' = why
  /\ UNCHANGED <<clock, queue, timerVars, status, pendingList, stack, ctxVars,
                 started>>

-----------------------------------------------------------------------------
(* Calls from client code.                                                 *)

\* The running handler's own node; it only knows that node's handles.
Home == IF Top.h = NoHandle THEN currentNode ELSE NodeOf[Top.h]

\* The receiving handles of this node that wait for a packet.
AllReadersWait == \A u \in Readers : NodeOf[u] = Home => timer[u] = "PENDING"

\* The client's discipline on a waitFor; see MinDelay and SharedHandles.  Delays
\* count from GEA.lastEventTime: a handler that goes on after a nested
\* doPendingEvents counts from the time last served, not from its own.
\* Unless LazyReaders, gea_main begins with its receiving handles.
MayWait(id, h, t) ==
  /\ Running("call")
  /\ id \notin UsedIds
  /\ NodeOf[h] = Home
  /\ t >= lastEventTime + MinDelay
  /\ SharedHandles \/ h \notin {r.h : r \in Registered}
  /\ Top.kind = "main" /\ ~LazyReaders => h \in Readers \/ AllReadersWait

\* TimerHandler::resched.  The slip takes the time for a delay.
ReschedAbsolute(h, t) ==
  /\ timer' = [timer EXCEPT ![h] = "PENDING"]
  /\ at' = [at EXCEPT ![h] = clock + t]
Resched(h, t) ==
  /\ timer' = [timer EXCEPT ![h] = "PENDING"]
  /\ at' = [at EXCEPT ![h] = clock + t - Now]

WaitForBlocker(id, h, t) ==
  /\ MayWait(id, h, t)
  /\ status' = [status EXCEPT ![h] = "Blocked"]
  /\ queue' = queue \cup {[id |-> id, h |-> h, t |-> t]}
  /\ UNCHANGED <<timerVars, pendingList, stack, ctxVars, runVars>>

\* ShadowDepend::activate, with its assertion.
WaitForDepend(id, h, t) ==
  /\ MayWait(id, h, t)
  /\ \/ /\ timer[h] = "PENDING"
        /\ Abort("activate: timer is pending")
     \/ /\ timer[h] # "PENDING"
        /\ status' = [status EXCEPT ![h] = "Blocked"]
        /\ slot' = [slot EXCEPT ![h] = id]
        /\ Resched(h, t)
        /\ UNCHANGED <<queue, timeout, pendingList, stack, ctxVars, runVars>>

\* ShadowUdpHandle::setup_event
WaitForReader(id, h, t) ==
  /\ MayWait(id, h, t)
  /\ status' = [status EXCEPT ![h] = "Blocked"]
  /\ slot' = [slot EXCEPT ![h] = id]
  /\ timeout' = [timeout EXCEPT ![h] = t]
  /\ Resched(h, t)
  /\ UNCHANGED <<queue, pendingList, stack, ctxVars, runVars>>

\* A sending handle: the handler is called before waitFor returns.
WaitForWriter(id, h, t) ==
  /\ MayWait(id, h, t)
  /\ Len(stack) < MaxDepth
  /\ status' = [status EXCEPT ![h] = "Ready"]
  /\ Push(Call("write", h, id, t))
  /\ UNCHANGED <<queue, timerVars, pendingList, ctxVars, runVars>>

\* Bound on pendingList, which undisciplined clients can fill without end.
PendingBound == 2 * Cardinality(Dependents)

\* Handle::status after complied().  The slip leaves it.
LeftBlocked(d) == status
Triggered(d) == [status EXCEPT ![d] = "Ready"]

\* ShadowDepend::complied.  The early return when nobody waits is a stutter.
\* Unless FreeTriggers, it is called neither from gea_main nor from the
\* timeout handler of a DependHandle.
Complied(d) ==
  /\ Running("call")
  /\ NodeOf[d] = Home
  /\ FreeTriggers \/ \E i \in DOMAIN stack :
                       stack[i].kind \notin {"main", "expire", "pending"}
  /\ Len(pendingList) < PendingBound
  /\ status[d] = "Blocked"
  /\ status' = Triggered(d)
  /\ pendingList' = Append(pendingList, [h |-> d, id |-> slot[d]])
  /\ UNCHANGED <<queue, timerVars, stack, ctxVars, runVars>>

-----------------------------------------------------------------------------
(* The handler returns; doPendingEvents.                                   *)

\* TimerHandler::cancel of a pending timer.  The slip forgets it.
NotCancelled(h) == timer
Cancelled(h) == [timer EXCEPT ![h] = "IDLE"]

\* TimerHandler::handle after expire(): not rescheduled means done.  The slip
\* leaves the timer as it is.
StillHandling(h) == timer
TimerDone(h) ==
  IF timer[h] = "HANDLING" THEN [timer EXCEPT ![h] = "IDLE"] ELSE timer

\* The time doPendingEvents is called with.
DrainTime(f) == IF f.kind \in {"recv", "udpTimeout"} THEN lastEventTime ELSE f.t

ReturnToDrain ==
  /\ Running("call")
  /\ Top.kind \in Draining
  /\ stack' = Append(Pop, [Top EXCEPT !.phase = "drain", !.t = DrainTime(Top)])
  /\ UNCHANGED <<queue, timerVars, status, pendingList, ctxVars, runVars>>

\* gea_main, ShadowDepend::expire and the calls doPendingEvents makes itself
\* are followed by nothing.
ReturnPlain ==
  /\ Running("call")
  /\ Top.kind \notin Draining
  /\ Top.kind = "main" /\ ~LazyReaders => AllReadersWait
  /\ timer' = IF Top.kind = "expire" THEN TimerDone(Top.h) ELSE timer
  /\ stack' = Pop
  /\ UNCHANGED <<queue, at, slot, timeout, status, pendingList, ctxVars, runVars>>

\* The next batch: copy pendingList to todo and clear it.  The slip forgets
\* to clear.
NotCleared == pendingList
Cleared == <<>>
TakePending ==
  /\ Running("drain")
  /\ Top.todo = <<>>
  /\ pendingList # <<>>
  /\ stack' = Append(Pop, [Top EXCEPT !.todo = pendingList])
  /\ pendingList' = Cleared
  /\ UNCHANGED <<queue, timerVars, status, ctxVars, runVars>>

CallPending ==
  /\ Running("drain")
  /\ Top.todo # <<>>
  /\ LET d == Head(Top.todo) IN
       \/ /\ timer[d.h] # "PENDING"
          /\ Abort("doPendingEvents: timer is not pending")
       \/ /\ timer[d.h] = "PENDING"
          /\ timer' = Cancelled(d.h)
          /\ lastEventTime' = Top.t
          /\ stack' = Pop \o <<[Top EXCEPT !.todo = Tail(@)],
                              Call("pending", d.h, d.id, Top.t)>>
          /\ UNCHANGED <<queue, at, slot, timeout, status, pendingList,
                         currentNode, runVars>>

DrainDone ==
  /\ Running("drain")
  /\ Top.todo = <<>>
  /\ pendingList = <<>>
  /\ timer' = IF Top.kind = "udpTimeout" THEN TimerDone(Top.h) ELSE timer
  /\ stack' = Pop
  /\ UNCHANGED <<queue, at, slot, timeout, status, pendingList, ctxVars, runVars>>

-----------------------------------------------------------------------------
(* The scheduler: dispatch of the earliest event.                          *)

Times == {e.t : e \in queue} \cup {at[h] : h \in PendingTimers}
\* Events of one time may come in any order, where ns-2 takes the oldest.
Earliest(t) == \A u \in Times : t <= u

\* Scheduler::dispatch refuses to go back in time.
Backwards ==
  /\ Idle
  /\ \E t \in Times : t < clock
  /\ Abort("dispatch: time goes backwards")

\* The slip leaves the current node as it is.
DispatchBlockerAnyNode(e) ==
  /\ Idle
  /\ e.t = clock
  /\ Earliest(e.t)
  /\ queue' = queue \ {e}
  /\ lastEventTime' = e.t
  /\ Push(Call("blocker", e.h, e.id, e.t))
  /\ UNCHANGED <<timerVars, status, pendingList, currentNode, runVars>>

\* ShadowEventHandler::handle.  The handle's status is left as it is.
DispatchBlocker(e) ==
  /\ Idle
  /\ e.t = clock
  /\ Earliest(e.t)
  /\ queue' = queue \ {e}
  /\ currentNode' = NodeOf[e.h]
  /\ lastEventTime' = e.t
  /\ Push(Call("blocker", e.h, e.id, e.t))
  /\ UNCHANGED <<timerVars, status, pendingList, runVars>>

\* ShadowDepend::expire.  The current node is left as it is.
Expire(d) ==
  /\ Idle
  /\ d \in PendingTimers
  /\ at[d] = clock
  /\ Earliest(at[d])
  /\ timer' = [timer EXCEPT ![d] = "HANDLING"]
  /\ status' = [status EXCEPT ![d] = "Timeout"]
  /\ lastEventTime' = Now
  /\ Push(Call("expire", d, slot[d], Now))
  /\ UNCHANGED <<queue, at, slot, timeout, pendingList, currentNode, runVars>>

\* ShadowUdpHandle::do_timeout
UdpTimeout(h) ==
  /\ Idle
  /\ h \in PendingTimers
  /\ at[h] = clock
  /\ Earliest(at[h])
  /\ timer' = [timer EXCEPT ![h] = "HANDLING"]
  /\ status' = [status EXCEPT ![h] = "Timeout"]
  /\ slot' = [slot EXCEPT ![h] = NoId]
  /\ currentNode' = NodeOf[h]
  /\ lastEventTime' = timeout[h]
  /\ Push(Call("udpTimeout", h, slot[h], timeout[h]))
  /\ UNCHANGED <<queue, at, timeout, pendingList, runVars>>

\* ShadowUdpHandle::process_data: a packet reaches the handle.  In the states
\* Timeout, Ready and Error it is dropped.
PacketDropped(h) ==
  /\ Idle
  /\ NodeOf[h] \in started
  /\ status[h] \in {"Timeout", "Ready", "Error"}
  /\ UNCHANGED vars

PacketInsane(h) ==
  /\ Idle
  /\ NodeOf[h] \in started
  /\ \/ status[h] = "Undefined" /\ Abort("process_data: insane handle state")
     \/ /\ status[h] = "Blocked" /\ timer[h] # "PENDING"
        /\ Abort("cancel: timer is not pending")

PacketReceived(h) ==
  /\ Idle
  /\ NodeOf[h] \in started
  /\ status[h] = "Blocked"
  /\ timer[h] = "PENDING"
  /\ \A u \in Times : clock <= u
  /\ timer' = Cancelled(h)
  /\ status' = [status EXCEPT ![h] = "Ready"]
  /\ slot' = [slot EXCEPT ![h] = NoId]
  /\ currentNode' = NodeOf[h]
  /\ lastEventTime' = Now
  /\ Push(Call("recv", h, slot[h], Now))
  /\ UNCHANGED <<queue, at, timeout, pendingList, runVars>>

\* gea_start, called by the simulation script for each node.
GeaStart(n) ==
  /\ Idle
  /\ n \notin started
  /\ \A u \in Times : clock <= u
  /\ started' = started \cup {n}
  /\ currentNode' = n
  /\ lastEventTime' = Now
  /\ Push(Call("main", NoHandle, NoId, Now))
  /\ UNCHANGED <<clock, queue, timerVars, status, pendingList, abort>>

\* The clock moves on to the next event; packets and scripts may come at any
\* time in between.
Tick ==
  /\ Idle
  /\ clock < MaxClock
  /\ \A u \in Times : clock < u
  /\ clock' = clock + 1
  /\ UNCHANGED <<queue, timerVars, status, pendingList, stack, ctxVars, started,
                 abort>>

\* The end of the simulation: aborted, or the bound on the clock is reached.
Halted == (abort # "" \/ (stack = <<>> /\ clock = MaxClock)) /\ UNCHANGED vars

Client ==
  \/ \E id \in Ids, t \in AbsTime :
       \/ \E h \in Blockers : WaitForBlocker(id, h, t)
       \/ \E h \in Dependents : WaitForDepend(id, h, t)
       \/ \E h \in Readers : WaitForReader(id, h, t)
       \/ \E h \in Writers : WaitForWriter(id, h, t)
  \/ \E d \in Dependents : Complied(d)

Return == ReturnToDrain \/ ReturnPlain \/ TakePending \/ CallPending \/ DrainDone

Dispatch ==
  \/ Backwards
  \/ \E e \in queue : DispatchBlocker(e)
  \/ \E d \in Dependents : Expire(d)
  \/ \E h \in Readers : UdpTimeout(h) \/ PacketReceived(h)
  \/ Tick

Next ==
  \/ Client
  \/ Return
  \/ Dispatch
  \/ \E h \in Readers : PacketDropped(h) \/ PacketInsane(h)
  \/ \E n \in Nodes : GeaStart(n)
  \/ Halted

Spec == Init /\ [][Next]_vars

-----------------------------------------------------------------------------
(* Properties                                                              *)

\* Type invariant.
TypeOK ==
  /\ clock \in Clock
  /\ queue \subseteq [id : Ids, h : Blockers, t : AbsTime]
  /\ timer \in [Timed -> {"IDLE", "PENDING", "HANDLING"}]
  /\ at \in [Timed -> 0 .. MaxClock + 2 * Gran - 1]
  /\ slot \in [Timed -> Ids \cup {NoId}]
  /\ timeout \in [Readers -> AbsTime]
  /\ status \in [Handles -> Status]
  /\ pendingList \in Seq(PendingEvent)
  /\ stack \in Seq(Frame) /\ Len(stack) <= MaxDepth + 1
  /\ lastEventTime \in AbsTime
  /\ currentNode \in Nodes \cup {NoNode}
  /\ started \subseteq Nodes

\* None of the backend's assertions and none of the simulator's sanity checks
\* stops the simulation: no timer is cancelled or armed in the wrong state
\* (ShadowEventHandler.cc:113, ShadowDepend.cc:39, timer-handler.cc:58), no
\* packet meets a handle without a waiter (ShadowUdpHandle.cc:249), no event
\* lies in the past (scheduler.cc:143).
NoAbort == abort = ""

\* A handler that doPendingEvents calls finds its DependHandle Ready, however
\* many handlers ran between complied() and the call.
ReadyWhenCalled ==
  \A i \in DOMAIN stack : \A j \in DOMAIN stack[i].todo :
    status[stack[i].todo[j].h] = "Ready"

\* A trigger is served before the simulation goes on: the scheduler never
\* dispatches while a triggered handler is still to be called.
NoTriggerLeftBehind == stack = <<>> => pendingList = <<>>

\* A timer counts as being handled only while its handler runs: once the
\* handlers have returned it is idle or armed again, however they nested.
TimerSettles ==
  \A h \in Timed : timer[h] = "HANDLING" =>
    \E i \in DOMAIN stack : stack[i].h = h /\ stack[i].kind \in {"expire", "udpTimeout"}

\* Whatever the clients do, an armed timer has a handler to call: the
\* assertions on e in do_timeout and process_data hold
\* (ShadowUdpHandle.cc:211,269).
ArmedHasHandler == \A h \in PendingTimers : slot[h] # NoId

\* A handler runs in the context of the node its handle was created on: what
\* it creates, prints and looks up (ObjRepository keys objects by the current
\* node) belongs to that node.  Only ShadowDepend::expire does not see to it: the
\* timeout handler of a DependHandle, and what it calls, may run as any node.
NodeContext ==
  stack # <<>> /\ Top.h # NoHandle /\ stack[1].kind # "expire" => currentNode = NodeOf[Top.h]

\* The backend implements the promise of EventHandlerApi: every waitFor is
\* answered by one call of its handler.
Current ==
  {[id |-> stack[i].id, h |-> stack[i].h] :
     i \in {j \in DOMAIN stack : stack[j].phase = "call" /\ stack[j].h # NoHandle}}
Api == INSTANCE EventHandlerApi
         WITH outstanding <- Registered, current <- Current, Nested <- TRUE
ApiSpec == Api!Spec
=============================================================================
