------------------------- MODULE PosixEventHandler -------------------------
(***************************************************************************)
(* The select() event loop of GEA's POSIX backend: ShadowEventHandler::run *)
(* and ::waitFor, the handles they serve and the calls that event handlers *)
(* (the clients' callbacks) make back into the library.                    *)
(*                                                                         *)
(* The program is one thread.  What interleaves with it is the clock and   *)
(* the arrival of data at file descriptors; what it does not control is    *)
(* what a callback asks for.  A callback is the stretch of steps during    *)
(* which pc is in InClient.                                                *)
(***************************************************************************)
EXTENDS Integers, Sequences, FiniteSets

CONSTANTS
  Ids,           \* registrations alive at one time (bounds the list)
  Blockers,      \* Blocker handles: never ready, only time out
  FdHandles,     \* UnixFdHandle and UdpHandle: served by select
  Dependents,    \* DependHandle: triggered by complied()
  MaxTime,       \* bound on the clock
  Slack,         \* how early, in ticks, select may report a timeout
  MinDelay,      \* least delay a callback asks for, from its event's time
  SharedHandles, \* may two registrations wait on one handle?
  FreeTriggers,  \* may complied() be called at any moment?
  InitStatus     \* what the uninitialised Handle::status may hold

Handles == Blockers \cup FdHandles \cup Dependents
Time == 0 .. MaxTime
Status == {"Undefined", "Error", "Blocked", "Timeout", "Ready"}

ASSUME ConstantsAssumption ==
  /\ MaxTime \in Nat /\ Slack \in Nat /\ MinDelay \in Int
  /\ SharedHandles \in BOOLEAN /\ FreeTriggers \in BOOLEAN
  /\ InitStatus \subseteq Status
  /\ IsFiniteSet(Ids)
  /\ Blockers \cap FdHandles = {}
  /\ Blockers \cap Dependents = {}
  /\ FdHandles \cap Dependents = {}

VARIABLES
  eventList,      \* the multimap's entries
  older,          \* <<a, b>> when entry a was inserted before entry b
  status,         \* Handle::status
  triggered,      \* ShadowDepend::triggered
  lastEventTime,  \* EventHandler::lastEventTime
  elist,          \* the EventCallList of the current round
  next,           \* index in elist of the next call
  pc,             \* where run() is
  called,         \* {e} while the callback of entry e runs (history)
  signalled,      \* ids that waited on a handle when it complied (history)
  fdReady,        \* descriptors select would report
  now             \* AbsTime::now()

listVars == <<eventList, older>>
callVars == <<elist, next, called>>
vars == <<eventList, older, status, triggered, lastEventTime, elist, next,
          pc, called, signalled, fdReady, now>>

Entry == [id : Ids, h : Handles, t : Time]

\* The program points at which client code runs: gea_main before run(), and
\* the three places of run() that call a handler.
InClient == {"main", "inExpire", "inIo", "inDep"}
PC == InClient \cup {"while", "io", "deps", "dep", "done"}

IdsOf(S) == {e.id : e \in S}
HandlesOf(S) == {e.h : e \in S}

\* Collected and not called yet.
Pending == {elist[i] : i \in next .. Len(elist)}

\* Registered and neither called nor collected: a timed-out entry is still in
\* the list while its handler runs.
Waiting == IF pc = "inExpire" THEN eventList \ called ELSE eventList

-----------------------------------------------------------------------------
(* The multimap: ordered by timeout, equal timeouts in order of insertion. *)

\* The slip orders by falling timeouts.
LaterFirst(a, b) ==
  \/ a.t > b.t
  \/ a.t = b.t /\ <<a.id, b.id>> \in older
Precedes(a, b) ==
  \/ a.t < b.t
  \/ a.t = b.t /\ <<a.id, b.id>> \in older

\* e is eventList.begin().
IsBegin(e) ==
  /\ e \in eventList
  /\ \A f \in eventList \ {e} : Precedes(e, f)

\* The order after an insertion: behind every entry already there, so behind
\* its equals.  The slip puts it in front of its equals.
InsertedInFront(id) == older \cup ({id} \X IdsOf(eventList))
Inserted(id) == older \cup (IdsOf(eventList) \X {id})

\* Erase a set of entries, leaving the order of the others alone.  The slip
\* forgets to erase.
EraseNothing(S) == UNCHANGED <<eventList, older>>
Erase(S) ==
  /\ eventList' = eventList \ S
  /\ older' = {p \in older : p[1] \notin IdsOf(S) /\ p[2] \notin IdsOf(S)}

\* The entries of S as remove_if meets them, walking the multimap.
InOrder(S) ==
  {s \in UNION {[1 .. n -> S] : n \in 0 .. Cardinality(Ids)} :
     /\ {s[i] : i \in DOMAIN s} = S
     /\ \A i, j \in DOMAIN s : i < j => Precedes(s[i], s[j])}

-----------------------------------------------------------------------------
Init ==
  /\ eventList = {}
  /\ older = {}
  /\ status \in [Handles -> InitStatus]
  /\ triggered = [d \in Dependents |-> FALSE]
  /\ lastEventTime = 0
  /\ elist = <<>>
  /\ next = 1
  /\ pc = "main"
  /\ called = {}
  /\ signalled = {}
  /\ fdReady = {}
  /\ now = 0

-----------------------------------------------------------------------------
(* What client code does: gea_main, and every callback.                    *)

\* ShadowEventHandler::waitFor.  The guards on t and h are the client's
\* discipline: t is at least MinDelay after the time the handler was called
\* with (clipped to the bound MaxTime), and unless SharedHandles no second
\* handler waits on h.
WaitFor(id, h, t) ==
  /\ pc \in InClient
  /\ id \notin IdsOf(eventList) \cup IdsOf(Pending)
  /\ t >= lastEventTime + MinDelay \/ t = MaxTime
  /\ SharedHandles \/ h \notin HandlesOf(Waiting \cup Pending)
  /\ status' = [status EXCEPT ![h] = "Blocked"]
  /\ eventList' = eventList \cup {[id |-> id, h |-> h, t |-> t]}
  /\ older' = Inserted(id)
  /\ signalled' = signalled \ {id}
  /\ UNCHANGED <<triggered, lastEventTime, elist, next, pc, called, fdReady, now>>

\* The entries that wait on d now; the one whose handler runs does not.
WaitersOn(d) == {e \in Waiting : e.h = d}

\* ShadowDepend::complied.  Unless FreeTriggers, clients keep to the pattern
\* of test/dependency.cc: trigger from an event handler, a handle somebody
\* waits on, and not one whose own round of calls is going on.
Complied(d) ==
  /\ pc \in InClient
  /\ \/ FreeTriggers
     \/ /\ pc # "main"
        /\ WaitersOn(d) # {}
        /\ pc = "inDep" => \A i \in DOMAIN elist : elist[i].h # d
  /\ triggered' = [triggered EXCEPT ![d] = TRUE]
  /\ status' = [status EXCEPT ![d] = "Ready"]
  /\ signalled' = signalled \cup IdsOf(WaitersOn(d))
  /\ UNCHANGED <<listVars, callVars, lastEventTime, pc, fdReady, now>>

\* UnixFdHandle::read, which asserts that the handle is Ready; it empties
\* the descriptor.
Read(h) ==
  /\ pc \in InClient
  /\ status[h] = "Ready"
  /\ h \in fdReady
  /\ fdReady' = fdReady \ {h}
  /\ UNCHANGED <<listVars, callVars, status, triggered, lastEventTime, pc,
                 signalled, now>>

-----------------------------------------------------------------------------
(* ShadowEventHandler::run                                                 *)

\* gea_main returned and main calls run().
Start ==
  /\ pc = "main"
  /\ pc' = "while"
  /\ UNCHANGED <<listVars, callVars, status, triggered, lastEventTime,
                 signalled, fdReady, now>>

\* while (! eventList.empty())
Finish ==
  /\ pc = "while"
  /\ eventList = {}
  /\ pc' = "done"
  /\ UNCHANGED <<listVars, callVars, status, triggered, lastEventTime,
                 signalled, fdReady, now>>

\* The entries fill_fd_sets put into the descriptor sets and select reports.
ReadyIo == {e \in eventList : e.h \in FdHandles /\ e.h \in fdReady}

\* The sleep computed from begin() is over, up to the truncation to
\* microseconds and the drift of the clock.
SleptEnough(e) == now + Slack >= e.t

\* select returns 0: the first entry's time has come and no descriptor is
\* ready.  Its handler is called while the entry is still in the list.
Expire ==
  /\ pc = "while"
  /\ ReadyIo = {}
  /\ \E e \in eventList :
       /\ IsBegin(e)
       /\ SleptEnough(e)
       /\ status' = [status EXCEPT ![e.h] = "Timeout"]
       /\ lastEventTime' = e.t
       /\ called' = {e}
       /\ signalled' = signalled \ {e.id}
  /\ pc' = "inExpire"
  /\ UNCHANGED <<listVars, elist, next, triggered, fdReady, now>>

\* The handler returned: eventList.erase(eventList.begin()).
ReturnExpire ==
  /\ pc = "inExpire"
  /\ \E e \in eventList : IsBegin(e) /\ Erase({e})
  /\ called' = {}
  /\ pc' = "deps"
  /\ UNCHANGED <<elist, next, status, triggered, lastEventTime, signalled,
                 fdReady, now>>

\* Handle::status once the entries of S are collected.  The slip leaves it.
LeftAsIs(S) == status
MadeReady(S) == [h \in Handles |-> IF h \in HandlesOf(S) THEN "Ready" ELSE status[h]]

\* remove_if with activeFdHandlePred or activeDepPred: every entry of S goes
\* to the call list, stamped with the current time, its handle Ready.
Collect(S) ==
  /\ Erase(S)
  /\ status' = MadeReady(S)
  /\ \E s \in InOrder(S) :
       elist' = [i \in DOMAIN s |-> [s[i] EXCEPT !.t = now]]
  /\ next' = 1

\* select returns a positive number.
CollectIo ==
  /\ pc = "while"
  /\ ReadyIo # {}
  /\ Collect(ReadyIo)
  /\ pc' = "io"
  /\ UNCHANGED <<triggered, lastEventTime, called, signalled, fdReady, now>>

\* callECList on the next element.
CallNext(from, to) ==
  /\ pc = from
  /\ lastEventTime' = elist[next].t
  /\ called' = {elist[next]}
  /\ signalled' = signalled \ {elist[next].id}
  /\ next' = next + 1
  /\ pc' = to
  /\ UNCHANGED <<listVars, elist, status, triggered, fdReady, now>>

CallIo == CallNext("io", "inIo")

\* for_each: more calls to make.  The slip goes one too far.
MoreCallsInclusive == next <= Len(elist) + 1
MoreCalls == next <= Len(elist)

ReturnIo ==
  /\ pc = "inIo"
  /\ called' = {}
  /\ \/ /\ MoreCalls
        /\ pc' = "io"
        /\ UNCHANGED <<elist, next>>
     \/ /\ ~MoreCalls
        /\ pc' = "deps"
        /\ elist' = <<>>
        /\ next' = 1
  /\ UNCHANGED <<listVars, status, triggered, lastEventTime, signalled,
                 fdReady, now>>

\* The entries activeDepPred selects.
TriggeredDeps == {e \in eventList : e.h \in Dependents /\ triggered[e.h]}

\* while (remove_if(eventList, activeDepPred(elist)))
CollectDeps ==
  /\ pc = "deps"
  /\ TriggeredDeps # {}
  /\ Collect(TriggeredDeps)
  /\ pc' = "dep"
  /\ UNCHANGED <<triggered, lastEventTime, called, signalled, fdReady, now>>

DepsDone ==
  /\ pc = "deps"
  /\ TriggeredDeps = {}
  /\ pc' = "while"
  /\ UNCHANGED <<listVars, callVars, status, triggered, lastEventTime,
                 signalled, fdReady, now>>

CallDep == CallNext("dep", "inDep")

\* resetDepTrigger over the whole call list.  The slip resets nothing.
KeptTriggers == triggered
ResetTriggers ==
  [d \in Dependents |-> triggered[d] /\ \A i \in DOMAIN elist : elist[i].h # d]

\* After a round the list is searched again, until no trigger is left.  The
\* slip goes to sleep after one round.
SleepAfterRound == "while"
AfterRound == "deps"

ReturnDep ==
  /\ pc = "inDep"
  /\ called' = {}
  /\ \/ /\ MoreCalls
        /\ pc' = "dep"
        /\ UNCHANGED <<elist, next, triggered>>
     \/ /\ ~MoreCalls
        /\ pc' = AfterRound
        /\ elist' = <<>>
        /\ next' = 1
        /\ triggered' = ResetTriggers
  /\ UNCHANGED <<listVars, status, lastEventTime, signalled, fdReady, now>>

-----------------------------------------------------------------------------
(* The environment: the clock, data at descriptors.                        *)

Tick ==
  /\ pc # "done"
  /\ now < MaxTime
  /\ now' = now + 1
  /\ UNCHANGED <<listVars, callVars, status, triggered, lastEventTime, pc,
                 signalled, fdReady>>

Arrive(h) ==
  /\ pc # "done"
  /\ h \notin fdReady
  /\ fdReady' = fdReady \cup {h}
  /\ UNCHANGED <<listVars, callVars, status, triggered, lastEventTime, pc,
                 signalled, now>>

\* run() has returned; nothing happens any more.
Terminated == pc = "done" /\ UNCHANGED vars

Client ==
  \/ \E id \in Ids, h \in Handles, t \in Time : WaitFor(id, h, t)
  \/ \E d \in Dependents : Complied(d)
  \/ \E h \in FdHandles : Read(h)

Return == ReturnExpire \/ ReturnIo \/ ReturnDep

Loop == Finish \/ Expire \/ CollectIo \/ CallIo \/ CollectDeps \/ DepsDone \/ CallDep

Next ==
  \/ Client
  \/ Start
  \/ Loop
  \/ Return
  \/ Tick
  \/ \E h \in FdHandles : Arrive(h)
  \/ Terminated

Spec == Init /\ [][Next]_vars

(***************************************************************************)
(* Fairness: the thread keeps running (Start, Loop), callbacks return, and *)
(* time passes.                                                            *)
(***************************************************************************)
Fairness ==
  /\ WF_vars(Start)
  /\ WF_vars(Loop)
  /\ WF_vars(Return)
  /\ WF_vars(Tick)

FairSpec == Spec /\ Fairness

-----------------------------------------------------------------------------
(* Properties                                                              *)

\* Type invariant; next never runs past the end of the call list.
TypeOK ==
  /\ eventList \subseteq Entry
  /\ older \subseteq Ids \X Ids
  /\ status \in [Handles -> Status]
  /\ triggered \in [Dependents -> BOOLEAN]
  /\ lastEventTime \in Time
  /\ elist \in Seq(Entry)
  /\ next \in 1 .. Len(elist) + 1
  /\ pc \in PC
  /\ called \subseteq Entry
  /\ signalled \subseteq Ids
  /\ fdReady \subseteq FdHandles
  /\ now \in Time
  /\ pc \in {"io", "dep"} => next \in DOMAIN elist

\* run() calls the handler of begin() and afterwards erases begin(), taking
\* it that this still is the entry it called ("must be the first one..",
\* ShadowEventHandler.cc:274).  Whatever the handler registers meanwhile, it
\* must not get in front of that entry.
ErasesTheCalledEntry ==
  pc = "inExpire" => \E e \in eventList : IsBegin(e) /\ called = {e}

\* A handler called because its handle was ready finds the handle Ready:
\* UnixFdHandle::read and ::write assert it (UnixFdHandle.cc:30,36), and no
\* handler called earlier in the same round may have spoilt it.
ReadyWhenCalled ==
  pc \in {"io", "dep"} => status[elist[next].h] = "Ready"

\* complied() wakes up all waiting event handlers (DependHandle.h:34): when
\* run() goes to sleep, no entry is left that waited on a handle when it was
\* triggered.
WakesAllWaiters ==
  pc = "while" => IdsOf(eventList) \cap signalled = {}

\* The weaker half of it, for clients that trigger as they like: when run()
\* goes to sleep, a handler that waited on a triggered handle
\* (DependHandle.h:34) at least still has its trigger and is woken later.
TriggerNotForgotten ==
  pc = "while" => \A e \in eventList : e.id \in signalled => triggered[e.h]

\* A handler waiting on a DependHandle is called Ready only if the handle was
\* triggered after it began to wait: resetDepTrigger forgets a trigger once
\* it has been served, so one complied() never wakes a handler twice.
WokenOnlyByATrigger ==
  \A e \in Pending : e.h \in Dependents => e.id \in signalled

\* The loop implements the promise of EventHandlerApi: a registration leaves
\* the multimap or the call list only by being called, and is called once.
Reg(e) == [id |-> e.id, h |-> e.h]
RegOf(S) == {Reg(e) : e \in S}
Outstanding == RegOf(Waiting \cup Pending)
Api == INSTANCE EventHandlerApi
         WITH outstanding <- Outstanding, current <- RegOf(called), Nested <- FALSE
ApiSpec == Api!Spec

\* When the event or the timeout occurs the event handler is called
\* (Readme.txt:21): every registration is eventually answered by a call.
EveryHandlerCalled ==
  \A id \in Ids :
    id \in IdsOf(Waiting) ~> id \in IdsOf(called)

\* That fails when select reports a descriptor at every turn of the loop, for
\* then no timer is looked at (ShadowEventHandler.cc:287).  It is the only
\* way to wait for ever as long as run() gets back to select: no timer is
\* shut out by other timers, earlier, later or equal, whatever the handlers
\* called meanwhile register again.
ShutOut ==
  /\ <>[][~Expire]_vars
  /\ []<>(pc = "while" /\ ReadyIo # {})
TimersAreServed == []<>(pc = "while") => EveryHandlerCalled \/ ShutOut

\* Once handlers stop triggering, the rounds of triggered handlers come to an
\* end and run() reaches select again, whatever the handlers re-register.
NoMoreTriggers == <>[][\A d \in Dependents : ~Complied(d)]_vars
RoundsEnd == NoMoreTriggers => (pc = "deps" ~> pc = "while")

\* Why they come to an end: a step that calls no complied() triggers nothing, and
\* each round (ShadowEventHandler.cc:300-305) that calls none uses up a trigger.
Triggers == {d \in Dependents : triggered[d]}
RoundOver == pc = "inDep" /\ pc' = "deps"
RoundsShrink ==
  [][(\A d \in Dependents : ~Complied(d)) =>
       /\ Triggers' \subseteq Triggers
       /\ RoundOver => Triggers' # Triggers]_vars
=============================================================================
