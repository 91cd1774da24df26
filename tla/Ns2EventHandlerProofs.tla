----------------------- MODULE Ns2EventHandlerProofs -----------------------
(***************************************************************************)
(* Proofs about the ns-2 backend, for any number of registrations, handles *)
(* and nodes and any bounds: types, the stack of nested handlers, timers,  *)
(* and what is left of triggers when the scheduler takes over.             *)
(***************************************************************************)
EXTENDS Ns2EventHandler, SequenceTheorems, TLAPS

\* The shape of the stack: only calls that are followed by doPendingEvents
\* drain, and they leave room for one handler more; what the scheduler or
\* the script calls is at the bottom, what handlers call is above it; only
\* gea_main has no handle and no registration.
FrameInv ==
  \A i \in DOMAIN stack :
    /\ stack[i].phase = "drain" => stack[i].kind \in Draining
    /\ stack[i].kind \in Draining => i <= MaxDepth
    /\ stack[i].kind \notin {"write", "pending"} <=> i = 1
    /\ stack[i].kind = "main" <=> stack[i].h = NoHandle

\* As long as triggered handlers are waiting to be called, some call in
\* progress will be followed by doPendingEvents.
DrainInv ==
  pendingList # <<>> => \E i \in DOMAIN stack : stack[i].kind \in Draining

\* Every handle that is being served or has been triggered is on the current
\* node, unless the scheduler entered through ShadowDepend::expire.
ContextInv ==
  stack # <<>> /\ stack[1].kind # "expire" =>
    /\ \A j \in DOMAIN pendingList : NodeOf[pendingList[j].h] = currentNode
    /\ \A i \in DOMAIN stack :
         /\ stack[i].h # NoHandle => NodeOf[stack[i].h] = currentNode
         /\ \A j \in DOMAIN stack[i].todo : NodeOf[stack[i].todo[j].h] = currentNode

-----------------------------------------------------------------------------
(* Arithmetic of AbsTime.                                                  *)

\* Rounding down is a multiplication of the quotient.
LEMMA RoundDown ==
  ASSUME NEW c \in Nat, NEW g \in Nat \ {0}
  PROVE  /\ c - (c % g) = g * (c \div g)
         /\ c \div g \in Nat
         /\ c % g \in 0 .. g - 1
         /\ c - (c % g) \in 0 .. c
OBVIOUS

\* A multiple has remainder zero.
LEMMA MultipleMod ==
  ASSUME NEW q \in Nat, NEW g \in Nat \ {0}
  PROVE  (g * q) % g = 0
OBVIOUS

\* AbsTime::now() is a time, at most the clock and less than a unit behind.
LEMMA NowType ==
  ASSUME TypeOK
  PROVE  /\ Now \in AbsTime /\ Now \in Nat
         /\ Now <= clock /\ clock - Now \in 0 .. Gran - 1
<1>1. clock \in Nat /\ clock <= MaxClock /\ Gran \in Nat \ {0} /\ MaxClock \in Nat
  BY Ns2Assumption DEF TypeOK, Clock
<1>2. Now = Gran * (clock \div Gran) /\ clock \div Gran \in Nat
  BY <1>1, RoundDown DEF Now
<1>3. Now % Gran = 0
  BY <1>1, <1>2, MultipleMod
<1>4. Now \in 0 .. clock /\ clock % Gran \in 0 .. Gran - 1
  BY <1>1, RoundDown DEF Now
<1>5. clock - Now = clock % Gran
  BY <1>1, <1>4 DEF Now
<1>6. Now \in 0 .. MaxClock + Gran
  BY <1>1, <1>4
<1> QED
  BY <1>1, <1>3, <1>4, <1>5, <1>6 DEF AbsTime

\* An AbsTime is a natural number within the bound.
LEMMA AbsTimeType ==
  ASSUME NEW t \in AbsTime
  PROVE  t \in Nat /\ t <= MaxClock + Gran /\ t % Gran = 0
BY Ns2Assumption DEF AbsTime

-----------------------------------------------------------------------------
(* The stack.                                                              *)

\* The innermost call.
LEMMA TopType ==
  ASSUME TypeOK, stack # <<>>
  PROVE  /\ Len(stack) \in Nat \ {0}
         /\ DOMAIN stack = 1 .. Len(stack)
         /\ Len(stack) \in DOMAIN stack
         /\ Top = stack[Len(stack)]
         /\ Top \in Frame
<1>1. stack \in Seq(Frame)
  BY DEF TypeOK
<1>2. Len(stack) \in Nat \ {0}
  BY <1>1, EmptySeq
<1> QED
  BY <1>1, <1>2 DEF Top

\* Pop leaves the calls below the innermost one as they are.
LEMMA PopShape ==
  ASSUME TypeOK, stack # <<>>
  PROVE  /\ Pop \in Seq(Frame)
         /\ Len(Pop) = Len(stack) - 1
         /\ \A i \in 1 .. Len(stack) - 1 : Pop[i] = stack[i]
<1> DEFINE n == Len(stack) - 1
<1>1. Len(stack) \in Nat \ {0} /\ stack \in Seq(Frame)
  BY TopType DEF TypeOK
<1>2. n \in Nat /\ n <= Len(stack)
  BY <1>1
<1> HIDE DEF n
<1>3. \A i \in 1 .. n : stack[i] \in Frame
  BY <1>1, <1>2
<1>4. /\ SubSeq(stack, 1, n) \in Seq(Frame)
      /\ Len(SubSeq(stack, 1, n)) = IF 1 <= n THEN n - 1 + 1 ELSE 0
      /\ \A i \in 1 .. n - 1 + 1 : SubSeq(stack, 1, n)[i] = stack[1 + i - 1]
  BY <1>2, <1>3, SubSeqProperties
<1>5. Len(SubSeq(stack, 1, n)) = n /\ n - 1 + 1 = n /\ \A i \in 1 .. n : 1 + i - 1 = i
  BY <1>2, <1>4
<1>6. \A i \in 1 .. n : SubSeq(stack, 1, n)[i] = stack[i]
  BY <1>4, <1>5
<1>7. Pop = SubSeq(stack, 1, n)
  BY Zenon DEF Pop, n
<1>8. Pop \in Seq(Frame) /\ Len(Pop) = n /\ \A i \in 1 .. n : Pop[i] = stack[i]
  BY <1>4, <1>5, <1>6, <1>7
<1> QED
  BY <1>8, Zenon DEF n

\* The innermost handler returned.
LEMMA PopStep ==
  ASSUME TypeOK, stack # <<>>, stack' = Pop
  PROVE  /\ stack' \in Seq(Frame)
         /\ Len(stack') = Len(stack) - 1
         /\ DOMAIN stack' = 1 .. Len(stack) - 1
         /\ \A i \in DOMAIN stack' : i \in DOMAIN stack /\ i # Len(stack) /\ stack'[i] = stack[i]
         /\ \A i \in DOMAIN stack : i # Len(stack) => i \in DOMAIN stack'
<1>1. /\ stack' \in Seq(Frame) /\ Len(stack') = Len(stack) - 1
      /\ \A i \in 1 .. Len(stack) - 1 : stack'[i] = stack[i]
  BY PopShape
<1>2. Len(stack) \in Nat \ {0} /\ DOMAIN stack = 1 .. Len(stack)
  BY TopType
<1>3. DOMAIN stack' = 1 .. Len(stack) - 1
  BY <1>1
<1> QED
  BY <1>1, <1>2, <1>3

\* A call on top of the others.
LEMMA PushStep ==
  ASSUME TypeOK, NEW f \in Frame, stack' = Append(stack, f)
  PROVE  /\ stack' \in Seq(Frame) /\ stack' # <<>>
         /\ Len(stack) \in Nat
         /\ Len(stack') = Len(stack) + 1
         /\ DOMAIN stack = 1 .. Len(stack)
         /\ DOMAIN stack' = 1 .. Len(stack) + 1
         /\ stack'[Len(stack) + 1] = f
         /\ \A i \in DOMAIN stack : i \in DOMAIN stack' /\ stack'[i] = stack[i]
         /\ \A i \in DOMAIN stack' : i \in DOMAIN stack \/ i = Len(stack) + 1
<1>1. stack \in Seq(Frame) /\ Len(stack) \in Nat /\ DOMAIN stack = 1 .. Len(stack)
  BY DEF TypeOK
<1> QED
  BY <1>1

\* The innermost call moves on.
LEMMA ReplaceStep ==
  ASSUME TypeOK, stack # <<>>, NEW f \in Frame, stack' = Append(Pop, f)
  PROVE  /\ stack' \in Seq(Frame) /\ stack' # <<>>
         /\ Len(stack') = Len(stack)
         /\ DOMAIN stack' = DOMAIN stack
         /\ stack'[Len(stack)] = f
         /\ \A i \in DOMAIN stack : i # Len(stack) => stack'[i] = stack[i]
<1>1. /\ Pop \in Seq(Frame) /\ Len(Pop) = Len(stack) - 1
      /\ \A i \in 1 .. Len(stack) - 1 : Pop[i] = stack[i]
  BY PopShape
<1>2. Len(stack) \in Nat \ {0} /\ DOMAIN stack = 1 .. Len(stack)
  BY TopType
<1> HIDE DEF Pop
<1> QED
  BY <1>1, <1>2

\* Two elements at the end of a sequence.
LEMMA ConcatTwo ==
  ASSUME NEW S, NEW s \in Seq(S), NEW x \in S, NEW y \in S, NEW q, q = s \o <<x, y>>
  PROVE  /\ q \in Seq(S) /\ Len(q) = Len(s) + 2
         /\ q[Len(s) + 1] = x /\ q[Len(s) + 2] = y
         /\ \A i \in 1 .. Len(s) : q[i] = s[i]
<1> DEFINE t == <<x, y>>
<1>1. t \in Seq(S) /\ Len(t) = 2 /\ t[1] = x /\ t[2] = y
  OBVIOUS
<1> HIDE DEF t
<1>2. q = s \o t
  BY DEF t
<1>3. q \in Seq(S) /\ Len(q) = Len(s) + 2 /\ Len(s) \in Nat
  BY <1>1, <1>2, ConcatProperties
<1>4. \A i \in 1 .. Len(s) : q[i] = s[i]
  BY <1>1, <1>2, <1>3, ConcatProperties
<1>5. q[Len(s) + 1] = x /\ q[Len(s) + 2] = y
  BY <1>1, <1>2, <1>3, ConcatProperties
<1> QED
  BY <1>3, <1>4, <1>5

\* The innermost call moves on and calls a handler.
LEMMA ReplacePushStep ==
  ASSUME TypeOK, stack # <<>>, NEW f \in Frame, NEW g \in Frame,
         stack' = Pop \o <<f, g>>
  PROVE  /\ stack' \in Seq(Frame) /\ stack' # <<>>
         /\ Len(stack') = Len(stack) + 1
         /\ DOMAIN stack' = 1 .. Len(stack) + 1
         /\ stack'[Len(stack)] = f
         /\ stack'[Len(stack) + 1] = g
         /\ \A i \in DOMAIN stack : i \in DOMAIN stack' /\ (i # Len(stack) => stack'[i] = stack[i])
         /\ \A i \in DOMAIN stack' : i \in DOMAIN stack \/ i = Len(stack) + 1
<1>1. /\ Pop \in Seq(Frame) /\ Len(Pop) = Len(stack) - 1
      /\ \A i \in 1 .. Len(stack) - 1 : Pop[i] = stack[i]
  BY PopShape
<1>2. Len(stack) \in Nat \ {0} /\ stack \in Seq(Frame)
  BY TopType DEF TypeOK
<1> HIDE DEF Pop
<1>3. /\ stack' \in Seq(Frame) /\ Len(stack') = Len(Pop) + 2
      /\ stack'[Len(Pop) + 1] = f /\ stack'[Len(Pop) + 2] = g
      /\ \A i \in 1 .. Len(Pop) : stack'[i] = Pop[i]
  BY <1>1, ConcatTwo
<1>4. Len(stack') = Len(stack) + 1 /\ Len(Pop) + 1 = Len(stack) /\ Len(Pop) + 2 = Len(stack) + 1
  BY <1>1, <1>2, <1>3
<1>5. DOMAIN stack' = 1 .. Len(stack) + 1 /\ stack' # <<>>
  BY <1>2, <1>3, <1>4
<1>6. \A i \in 1 .. Len(stack) - 1 : stack'[i] = stack[i]
  BY <1>1, <1>3
<1>7. \A i \in 1 .. Len(stack) : i # Len(stack) => i \in 1 .. Len(stack) - 1
  BY <1>2
<1>8. \A i \in DOMAIN stack : i \in DOMAIN stack' /\ (i # Len(stack) => stack'[i] = stack[i])
  <2>1. DOMAIN stack = 1 .. Len(stack) /\ \A i \in 1 .. Len(stack) : i \in 1 .. Len(stack) + 1
    BY <1>2
  <2> QED
    BY <1>5, <1>6, <1>7, <2>1, Zenon
<1>9. \A i \in DOMAIN stack' : i \in DOMAIN stack \/ i = Len(stack) + 1
  BY <1>2, <1>5
<1>10. stack'[Len(stack)] = f /\ stack'[Len(stack) + 1] = g
  BY <1>3, <1>4, Zenon
<1> QED
  BY <1>3, <1>4, <1>5, <1>8, <1>9, <1>10, Zenon

\* What a call's frame records.
LEMMA CallType ==
  ASSUME NEW kind \in {"main", "blocker", "expire", "recv", "udpTimeout", "write", "pending"},
         NEW h \in Handles \cup {NoHandle}, NEW id \in Ids \cup {NoId}, NEW t \in AbsTime
  PROVE  Call(kind, h, id, t) \in Frame
<1>1. <<>> \in Seq(PendingEvent)
  OBVIOUS
<1> QED
  BY <1>1 DEF Call, Frame
-----------------------------------------------------------------------------
(* What each kind of step does to the stack.                               *)

\* The scheduler or the script calls a handler: it is the only one.
LEMMA Enter ==
  ASSUME stack = <<>>, NEW f \in Frame, Push(f)
  PROVE  /\ stack' \in Seq(Frame) /\ stack' # <<>>
         /\ Len(stack') = 1 /\ DOMAIN stack' = {1} /\ stack'[1] = f
<1>1. stack' = Append(<<>>, f)
  BY DEF Push
<1> QED
  BY <1>1

\* The handler returned and doPendingEvents begins: its frame changes phase.
LEMMA ToDrain ==
  ASSUME TypeOK, ReturnToDrain
  PROVE  /\ stack # <<>> /\ stack' # <<>> /\ stack' \in Seq(Frame)
         /\ Len(stack') = Len(stack) /\ DOMAIN stack' = DOMAIN stack
         /\ Len(stack) \in DOMAIN stack
         /\ \A i \in DOMAIN stack : i # Len(stack) => stack'[i] = stack[i]
         /\ \A i \in DOMAIN stack : /\ stack'[i].kind = stack[i].kind
                                    /\ stack'[i].h = stack[i].h
                                    /\ stack'[i].id = stack[i].id
                                    /\ stack'[i].todo = stack[i].todo
         /\ stack'[Len(stack)].phase = "drain"
         /\ stack'[Len(stack)].t = DrainTime(Top)
         /\ stack[Len(stack)].phase = "call"
         /\ stack[Len(stack)].kind \in Draining
<1> DEFINE f == [Top EXCEPT !.phase = "drain", !.t = DrainTime(Top)]
<1>1. stack # <<>> /\ stack' = Append(Pop, f) /\ Top.phase = "call" /\ Top.kind \in Draining
  BY DEF ReturnToDrain, Running
<1>2. Top \in Frame /\ Top = stack[Len(stack)] /\ Len(stack) \in DOMAIN stack
  BY <1>1, TopType
<1>3. DrainTime(Top) \in AbsTime
  BY <1>2 DEF DrainTime, TypeOK, Frame
<1>4. /\ f \in Frame
      /\ f.kind = Top.kind /\ f.h = Top.h /\ f.id = Top.id /\ f.todo = Top.todo
      /\ f.phase = "drain" /\ f.t = DrainTime(Top)
  BY <1>2, <1>3 DEF Frame
<1> HIDE DEF f
<1>5. /\ stack' \in Seq(Frame) /\ stack' # <<>>
      /\ Len(stack') = Len(stack) /\ DOMAIN stack' = DOMAIN stack
      /\ stack'[Len(stack)] = f
      /\ \A i \in DOMAIN stack : i # Len(stack) => stack'[i] = stack[i]
  BY <1>1, <1>4, ReplaceStep
<1> QED
  BY <1>1, <1>2, <1>4, <1>5, Zenon

\* doPendingEvents takes the next batch into its frame.
LEMMA TakeBatch ==
  ASSUME TypeOK, TakePending
  PROVE  /\ stack # <<>> /\ stack' # <<>> /\ stack' \in Seq(Frame)
         /\ Len(stack') = Len(stack) /\ DOMAIN stack' = DOMAIN stack
         /\ Len(stack) \in DOMAIN stack
         /\ \A i \in DOMAIN stack : i # Len(stack) => stack'[i] = stack[i]
         /\ \A i \in DOMAIN stack : /\ stack'[i].kind = stack[i].kind
                                    /\ stack'[i].h = stack[i].h
                                    /\ stack'[i].id = stack[i].id
                                    /\ stack'[i].t = stack[i].t
                                    /\ stack'[i].phase = stack[i].phase
         /\ stack'[Len(stack)].todo = pendingList
         /\ stack[Len(stack)].todo = <<>>
         /\ pendingList' = <<>>
<1> DEFINE f == [Top EXCEPT !.todo = pendingList]
<1>1. /\ stack # <<>> /\ stack' = Append(Pop, f) /\ Top.todo = <<>>
      /\ pendingList' = <<>>
  BY DEF TakePending, Running, Cleared
<1>2. Top \in Frame /\ Top = stack[Len(stack)] /\ Len(stack) \in DOMAIN stack
  BY <1>1, TopType
<1>3. pendingList \in Seq(PendingEvent)
  BY DEF TypeOK
<1>4. /\ f \in Frame
      /\ f.kind = Top.kind /\ f.h = Top.h /\ f.id = Top.id /\ f.t = Top.t
      /\ f.phase = Top.phase /\ f.todo = pendingList
  BY <1>2, <1>3 DEF Frame
<1> HIDE DEF f
<1>5. /\ stack' \in Seq(Frame) /\ stack' # <<>>
      /\ Len(stack') = Len(stack) /\ DOMAIN stack' = DOMAIN stack
      /\ stack'[Len(stack)] = f
      /\ \A i \in DOMAIN stack : i # Len(stack) => stack'[i] = stack[i]
  BY <1>1, <1>4, ReplaceStep
<1> QED
  BY <1>1, <1>2, <1>4, <1>5, Zenon

\* doPendingEvents calls the handler of the first trigger of its batch.
Served == Head(Top.todo)
CallsServed ==
  /\ Running("drain")
  /\ Top.todo # <<>>
  /\ timer[Served.h] = "PENDING"
  /\ timer' = Cancelled(Served.h)
  /\ lastEventTime' = Top.t
  /\ stack' = Pop \o <<[Top EXCEPT !.todo = Tail(@)],
                       Call("pending", Served.h, Served.id, Top.t)>>
  /\ UNCHANGED <<queue, at, slot, timeout, status, pendingList, currentNode, runVars>>

\* CallPending is that or an abort, for a trigger whose timer is not armed.
LEMMA CallPendingCases ==
  ASSUME CallPending
  PROVE  \/ CallsServed
         \/ /\ timer[Served.h] # "PENDING" /\ Top.todo # <<>> /\ Running("drain")
            /\ Abort("doPendingEvents: timer is not pending")
BY DEF CallPending, CallsServed, Served

\* The two frames doPendingEvents leaves: its own, with the rest of the
\* batch, and the handler's.
LEMMA CallOne ==
  ASSUME TypeOK, CallsServed
  PROVE  /\ stack # <<>> /\ stack' # <<>> /\ stack' \in Seq(Frame)
         /\ Len(stack) \in Nat
         /\ Len(stack') = Len(stack) + 1 /\ DOMAIN stack' = 1 .. Len(stack) + 1
         /\ Len(stack) \in DOMAIN stack
         /\ \A i \in DOMAIN stack : i \in DOMAIN stack'
         /\ \A i \in DOMAIN stack' : i \in DOMAIN stack \/ i = Len(stack) + 1
         /\ \A i \in DOMAIN stack : i # Len(stack) => stack'[i] = stack[i]
         /\ \A i \in DOMAIN stack : /\ stack'[i].kind = stack[i].kind
                                    /\ stack'[i].h = stack[i].h
                                    /\ stack'[i].id = stack[i].id
                                    /\ stack'[i].t = stack[i].t
                                    /\ stack'[i].phase = stack[i].phase
         /\ stack[Len(stack)].todo # <<>>
         /\ stack'[Len(stack)].todo = Tail(stack[Len(stack)].todo)
         /\ stack'[Len(stack) + 1] = Call("pending", Served.h, Served.id, Top.t)
         /\ stack[Len(stack)].phase = "drain"
         /\ Served = stack[Len(stack)].todo[1]
         /\ stack[Len(stack)].todo \in Seq(PendingEvent)
         /\ Served \in PendingEvent
<1> DEFINE f == [Top EXCEPT !.todo = Tail(@)]
           g == Call("pending", Served.h, Served.id, Top.t)
<1>1. stack # <<>> /\ stack' = Pop \o <<f, g>> /\ Top.todo # <<>> /\ Top.phase = "drain"
  BY Zenon DEF CallsServed, Running
<1>2. /\ Top \in Frame /\ Top = stack[Len(stack)] /\ Len(stack) \in DOMAIN stack
      /\ Len(stack) \in Nat
  BY <1>1, TopType
<1>3. Top.todo \in Seq(PendingEvent) /\ Top.t \in AbsTime
  BY <1>2 DEF Frame
<1>4. /\ Served \in PendingEvent /\ Tail(Top.todo) \in Seq(PendingEvent)
      /\ Served = Top.todo[1]
  BY <1>1, <1>3, HeadTailProperties DEF Served
<1>5. /\ f \in Frame
      /\ f.kind = Top.kind /\ f.h = Top.h /\ f.id = Top.id /\ f.t = Top.t
      /\ f.phase = Top.phase /\ f.todo = Tail(Top.todo)
  BY <1>2, <1>4 DEF Frame
<1>6. Served.h \in Handles /\ Served.id \in Ids \cup {NoId}
  BY <1>4 DEF PendingEvent, Handles
<1>7. g \in Frame
  BY <1>3, <1>6, CallType
<1> HIDE DEF f, g, Pop, Served
<1>8. /\ stack' \in Seq(Frame) /\ stack' # <<>>
      /\ Len(stack') = Len(stack) + 1
      /\ DOMAIN stack' = 1 .. Len(stack) + 1
      /\ stack'[Len(stack)] = f
      /\ stack'[Len(stack) + 1] = g
      /\ \A i \in DOMAIN stack : i \in DOMAIN stack' /\ (i # Len(stack) => stack'[i] = stack[i])
      /\ \A i \in DOMAIN stack' : i \in DOMAIN stack \/ i = Len(stack) + 1
  BY <1>1, <1>5, <1>7, ReplacePushStep
<1> QED
  BY <1>1, <1>2, <1>3, <1>4, <1>5, <1>8, ZenonT(30) DEF g
-----------------------------------------------------------------------------
(* Types and the shape of the stack.                                       *)

\* A timer that is armed fires within the bound.
LEMMA ReschedType ==
  ASSUME TypeOK, NEW h \in Timed, NEW t \in AbsTime, Resched(h, t)
  PROVE  /\ timer' \in [Timed -> {"IDLE", "PENDING", "HANDLING"}]
         /\ at' \in [Timed -> 0 .. MaxClock + 2 * Gran - 1]
         /\ at'[h] = clock + t - Now
         /\ \A k \in Timed : k # h => at'[k] = at[k] /\ timer'[k] = timer[k]
         /\ timer'[h] = "PENDING"
<1>1. Now \in Nat /\ clock - Now \in 0 .. Gran - 1
  BY NowType
<1>2. t \in Nat /\ t <= MaxClock + Gran
  BY AbsTimeType
<1>3. clock \in Nat /\ MaxClock \in Nat /\ Gran \in Nat
  BY Ns2Assumption DEF TypeOK, Clock
<1>4. clock + t - Now \in 0 .. MaxClock + 2 * Gran - 1
  BY <1>1, <1>2, <1>3
<1> HIDE DEF Now
<1> QED
  BY <1>4 DEF Resched, TypeOK

\* Ending the handling of a timer.
LEMMA TimerDoneType ==
  ASSUME TypeOK, NEW h
  PROVE  /\ TimerDone(h) \in [Timed -> {"IDLE", "PENDING", "HANDLING"}]
         /\ \A k \in Timed : TimerDone(h)[k] = "PENDING" <=> timer[k] = "PENDING"
         /\ \A k \in Timed : TimerDone(h)[k] = "HANDLING" => timer[k] = "HANDLING" /\ k # h
BY DEF TimerDone, TypeOK

\* The state before the simulation starts is well-typed.
LEMMA TypeInit == Init => TypeOK /\ FrameInv
<1> SUFFICES ASSUME Init PROVE TypeOK /\ FrameInv
  OBVIOUS
<1>1. 0 \in AbsTime
  BY Ns2Assumption DEF AbsTime
<1>2. 0 \in Clock /\ 0 \in 0 .. MaxClock + 2 * Gran - 1
  BY Ns2Assumption DEF Clock
<1>3. status \in [Handles -> Status]
  BY Ns2Assumption DEF Init
<1>4. <<>> \in Seq(Frame) /\ <<>> \in Seq(PendingEvent) /\ Len(<<>>) = 0 /\ DOMAIN <<>> = {}
  OBVIOUS
<1>5. 0 <= MaxDepth + 1
  BY Ns2Assumption
<1> QED
  BY <1>1, <1>2, <1>3, <1>4, <1>5 DEF Init, TypeOK, FrameInv

\* Every step keeps types and the shape of the stack.
LEMMA TypeStep ==
  ASSUME TypeOK, FrameInv, [Next]_vars
  PROVE  TypeOK' /\ FrameInv'
<1>1. ASSUME NEW id \in Ids, NEW t \in AbsTime, NEW h \in Blockers, WaitForBlocker(id, h, t)
      PROVE  TypeOK' /\ FrameInv'
  <2>1. [id |-> id, h |-> h, t |-> t] \in [id : Ids, h : Blockers, t : AbsTime]
    OBVIOUS
  <2>2. status' \in [Handles -> Status]
    BY <1>1 DEF WaitForBlocker, TypeOK, Status
  <2> QED
    BY <1>1, <2>1, <2>2 DEF WaitForBlocker, TypeOK, FrameInv, timerVars, ctxVars, runVars
<1>2. ASSUME NEW why, Abort(why)
      PROVE  TypeOK' /\ FrameInv'
  BY <1>2 DEF Abort, TypeOK, FrameInv, timerVars, ctxVars
<1>3. ASSUME NEW id \in Ids, NEW t \in AbsTime, NEW h \in Dependents, WaitForDepend(id, h, t)
      PROVE  TypeOK' /\ FrameInv'
  <2>1. CASE timer[h] = "PENDING"
    BY <1>2, <1>3, <2>1 DEF WaitForDepend
  <2>2. CASE timer[h] # "PENDING"
    <3>1. h \in Timed /\ h \in Handles
      BY DEF Timed, Handles
    <3>2. Resched(h, t)
      BY <1>3, <2>2 DEF WaitForDepend
    <3>3. status' \in [Handles -> Status] /\ slot' \in [Timed -> Ids \cup {NoId}]
      BY <1>3, <2>2, <3>1 DEF WaitForDepend, TypeOK, Status
    <3>4. /\ timer' \in [Timed -> {"IDLE", "PENDING", "HANDLING"}]
          /\ at' \in [Timed -> 0 .. MaxClock + 2 * Gran - 1]
      BY <3>1, <3>2, ReschedType
    <3>5. UNCHANGED <<clock, queue, timeout, pendingList, stack, lastEventTime, currentNode, started>>
      BY <1>3, <2>2 DEF WaitForDepend, ctxVars, runVars
    <3> QED
      BY <3>3, <3>4, <3>5 DEF TypeOK, FrameInv
  <2> QED
    BY <2>1, <2>2
<1>4. ASSUME NEW id \in Ids, NEW t \in AbsTime, NEW h \in Readers, WaitForReader(id, h, t)
      PROVE  TypeOK' /\ FrameInv'
  <2>1. h \in Timed /\ h \in Handles
    BY DEF Timed, Handles
  <2>2. /\ status' \in [Handles -> Status] /\ slot' \in [Timed -> Ids \cup {NoId}]
        /\ timeout' \in [Readers -> AbsTime]
    BY <1>4, <2>1 DEF WaitForReader, TypeOK, Status
  <2>3. /\ timer' \in [Timed -> {"IDLE", "PENDING", "HANDLING"}]
        /\ at' \in [Timed -> 0 .. MaxClock + 2 * Gran - 1]
    BY <1>4, <2>1, ReschedType DEF WaitForReader
  <2>4. UNCHANGED <<clock, queue, pendingList, stack, lastEventTime, currentNode, started>>
    BY <1>4 DEF WaitForReader, ctxVars, runVars
  <2> QED
    BY <2>2, <2>3, <2>4 DEF TypeOK, FrameInv
<1>5. ASSUME NEW id \in Ids, NEW t \in AbsTime, NEW h \in Writers, WaitForWriter(id, h, t)
      PROVE  TypeOK' /\ FrameInv'
  <2> DEFINE f == Call("write", h, id, t)
  <2>1. h \in Handles /\ h # NoHandle
    BY Ns2Assumption DEF Handles
  <2>2. f \in Frame /\ f.phase = "call" /\ f.kind = "write" /\ f.h = h
    BY <2>1, CallType DEF Call
  <2> HIDE DEF f
  <2>3. stack' = Append(stack, f)
    BY <1>5 DEF WaitForWriter, Push, f
  <2>4. /\ stack' \in Seq(Frame)
        /\ Len(stack) \in Nat
        /\ Len(stack') = Len(stack) + 1
        /\ stack'[Len(stack) + 1] = f
        /\ \A i \in DOMAIN stack : i \in DOMAIN stack' /\ stack'[i] = stack[i]
        /\ \A i \in DOMAIN stack' : i \in DOMAIN stack \/ i = Len(stack) + 1
    BY <2>2, <2>3, PushStep
  <2>5. stack # <<>> /\ Len(stack) < MaxDepth
    BY <1>5 DEF WaitForWriter, MayWait, Running
  <2>6. Len(stack) # 0
    BY <2>5, TopType
  <2>7. Len(stack) + 1 <= MaxDepth /\ Len(stack) + 1 # 1 /\ Len(stack') <= MaxDepth + 1
    BY <2>4, <2>5, <2>6, Ns2Assumption
  <2>8. FrameInv'
    BY <2>1, <2>2, <2>4, <2>7, ZenonT(30) DEF FrameInv, Draining
  <2>9. status' \in [Handles -> Status]
    BY <1>5 DEF WaitForWriter, TypeOK, Status
  <2>10. UNCHANGED <<clock, queue, timer, at, slot, timeout, pendingList, lastEventTime,
                     currentNode, started>>
    BY <1>5 DEF WaitForWriter, timerVars, ctxVars, runVars
  <2> QED
    BY <2>4, <2>7, <2>8, <2>9, <2>10 DEF TypeOK
<1>6. ASSUME NEW d \in Dependents, Complied(d)
      PROVE  TypeOK' /\ FrameInv'
  <2>1. d \in Timed /\ d \in Handles
    BY DEF Timed, Handles
  <2>2. [h |-> d, id |-> slot[d]] \in PendingEvent
    BY <2>1 DEF PendingEvent, TypeOK
  <2>3. pendingList' \in Seq(PendingEvent)
    BY <1>6, <2>2 DEF Complied, TypeOK
  <2>4. status' \in [Handles -> Status]
    BY <1>6, <2>1 DEF Complied, Triggered, TypeOK, Status
  <2>5. UNCHANGED <<clock, queue, timer, at, slot, timeout, stack, lastEventTime,
                    currentNode, started>>
    BY <1>6 DEF Complied, timerVars, ctxVars, runVars
  <2> QED
    BY <2>3, <2>4, <2>5 DEF TypeOK, FrameInv
<1>7. CASE ReturnToDrain
  <2>1. /\ DOMAIN stack' = DOMAIN stack
        /\ \A i \in DOMAIN stack :
             /\ stack'[i].kind = stack[i].kind /\ stack'[i].h = stack[i].h
             /\ stack'[i].phase = stack[i].phase \/ stack[i].kind \in Draining
    BY <1>7, ToDrain
  <2>a. FrameInv'
    BY <2>1, Zenon DEF FrameInv
  <2>2. UNCHANGED <<clock, queue, timer, at, slot, timeout, status, pendingList,
                    lastEventTime, currentNode, started>>
    BY <1>7 DEF ReturnToDrain, timerVars, ctxVars, runVars
  <2>3. stack' \in Seq(Frame) /\ Len(stack') = Len(stack)
    BY <1>7, ToDrain
  <2> QED
    BY <2>a, <2>2, <2>3 DEF TypeOK
<1>8. CASE TakePending
  <2>1. /\ DOMAIN stack' = DOMAIN stack
        /\ \A i \in DOMAIN stack :
             /\ stack'[i].kind = stack[i].kind /\ stack'[i].h = stack[i].h
             /\ stack'[i].phase = stack[i].phase
    BY <1>8, TakeBatch
  <2>a. FrameInv'
    BY <2>1, ZenonT(30) DEF FrameInv
  <2>2. UNCHANGED <<clock, queue, timer, at, slot, timeout, status,
                    lastEventTime, currentNode, started>>
    BY <1>8 DEF TakePending, timerVars, ctxVars, runVars
  <2>3. stack' \in Seq(Frame) /\ Len(stack') = Len(stack) /\ pendingList' = <<>>
    BY <1>8, TakeBatch
  <2> QED
    BY <2>a, <2>2, <2>3 DEF TypeOK
<1>9. CASE CallsServed
  <2>1. /\ stack' \in Seq(Frame) /\ Len(stack) \in Nat /\ Len(stack') = Len(stack) + 1
        /\ Len(stack) \in DOMAIN stack /\ stack # <<>>
        /\ stack[Len(stack)].phase = "drain"
        /\ Served \in PendingEvent
    BY <1>9, CallOne
  <2>2. Len(stack) <= MaxDepth
    BY <2>1 DEF FrameInv
  <2>3. Len(stack') <= MaxDepth + 1
    BY <2>1, <2>2, Ns2Assumption
  <2>4. Served.h \in Timed /\ Served.h \in Handles /\ Served.h # NoHandle
    BY <2>1, Ns2Assumption DEF PendingEvent, Timed, Handles
  <2>5. Call("pending", Served.h, Served.id, Top.t).kind = "pending"
        /\ Call("pending", Served.h, Served.id, Top.t).h = Served.h
        /\ Call("pending", Served.h, Served.id, Top.t).phase = "call"
    BY DEF Call
  <2>6. Len(stack) + 1 # 1
    BY <2>1, TopType
  <2>7. ASSUME NEW i \in DOMAIN stack'
        PROVE  /\ stack'[i].phase = "drain" => stack'[i].kind \in Draining
               /\ stack'[i].kind \in Draining => i <= MaxDepth
               /\ stack'[i].kind \notin {"write", "pending"} <=> i = 1
               /\ stack'[i].kind = "main" <=> stack'[i].h = NoHandle
    <3>1. CASE i \in DOMAIN stack
      <4>1. /\ stack'[i].kind = stack[i].kind /\ stack'[i].h = stack[i].h
            /\ stack'[i].phase = stack[i].phase
        BY <1>9, <3>1, CallOne
      <4> QED
        BY <3>1, <4>1, Zenon DEF FrameInv
    <3>2. CASE i = Len(stack) + 1
      <4>1. stack'[i] = Call("pending", Served.h, Served.id, Top.t)
        BY <1>9, <3>2, CallOne
      <4>2. stack'[i].kind = "pending" /\ stack'[i].h # NoHandle /\ stack'[i].phase = "call" /\ i # 1
        BY <2>4, <2>5, <2>6, <3>2, <4>1, Zenon
      <4> QED
        BY <4>2 DEF Draining
    <3> QED
      BY <1>9, <3>1, <3>2, CallOne
  <2>8. FrameInv'
    BY <2>7 DEF FrameInv
  <2>9. timer' \in [Timed -> {"IDLE", "PENDING", "HANDLING"}]
    BY <1>9, <2>4 DEF CallsServed, Cancelled, TypeOK
  <2>10. lastEventTime' \in AbsTime
    BY <1>9, <2>1, TopType DEF CallsServed, Frame
  <2>11. UNCHANGED <<clock, queue, at, slot, timeout, status, pendingList, currentNode, started>>
    BY <1>9, Zenon DEF CallsServed, runVars
  <2> QED
    BY <2>1, <2>3, <2>8, <2>9, <2>10, <2>11 DEF TypeOK
<1>10. CASE CallPending
  BY <1>2, <1>9, <1>10, CallPendingCases
<1>11. CASE ReturnPlain \/ DrainDone
  <2>1. stack # <<>> /\ stack' = Pop
    BY <1>11 DEF ReturnPlain, DrainDone, Running
  <2>2. /\ stack' \in Seq(Frame) /\ Len(stack') = Len(stack) - 1
        /\ \A i \in DOMAIN stack' : i \in DOMAIN stack /\ stack'[i] = stack[i]
    BY <2>1, PopStep
  <2>3. FrameInv'
    BY <2>2 DEF FrameInv
  <2>4. Len(stack') <= MaxDepth + 1
    BY <2>2, Ns2Assumption DEF TypeOK
  <2>5. timer' \in [Timed -> {"IDLE", "PENDING", "HANDLING"}]
    BY <1>11, TimerDoneType DEF ReturnPlain, DrainDone, TypeOK
  <2>6. UNCHANGED <<clock, queue, at, slot, timeout, status, pendingList, lastEventTime,
                    currentNode, started>>
    BY <1>11 DEF ReturnPlain, DrainDone, ctxVars, runVars
  <2> QED
    BY <2>2, <2>3, <2>4, <2>5, <2>6 DEF TypeOK
<1>12. ASSUME NEW kind \in {"main", "blocker", "expire", "recv", "udpTimeout"},
              NEW h \in Handles \cup {NoHandle}, NEW id \in Ids \cup {NoId}, NEW t \in AbsTime,
              stack = <<>>, Push(Call(kind, h, id, t)), kind = "main" <=> h = NoHandle
       PROVE  stack' \in Seq(Frame) /\ Len(stack') <= MaxDepth + 1 /\ FrameInv'
  <2> DEFINE f == Call(kind, h, id, t)
  <2>1. f \in Frame /\ f.kind = kind /\ f.h = h /\ f.phase = "call"
    BY CallType DEF Call
  <2> HIDE DEF f
  <2>2. stack' \in Seq(Frame) /\ Len(stack') = 1 /\ DOMAIN stack' = {1} /\ stack'[1] = f
    BY <1>12, <2>1, Enter DEF f
  <2>3. 1 <= MaxDepth /\ 1 <= MaxDepth + 1
    BY Ns2Assumption
  <2> QED
    BY <1>12, <2>1, <2>2, <2>3 DEF FrameInv
<1>13. ASSUME NEW e \in queue, DispatchBlocker(e)
       PROVE  TypeOK' /\ FrameInv'
  <2>1. e.id \in Ids /\ e.h \in Blockers /\ e.t \in AbsTime
    BY DEF TypeOK
  <2>2. e.h \in Handles /\ e.h # NoHandle /\ NodeOf[e.h] \in Nodes
    BY <2>1, Ns2Assumption DEF Handles
  <2>3. stack = <<>> /\ Push(Call("blocker", e.h, e.id, e.t))
    BY <1>13 DEF DispatchBlocker, Idle
  <2>4. stack' \in Seq(Frame) /\ Len(stack') <= MaxDepth + 1 /\ FrameInv'
    BY <1>12, <2>1, <2>2, <2>3
  <2>5. /\ queue' \subseteq queue /\ currentNode' = NodeOf[e.h] /\ lastEventTime' = e.t
        /\ UNCHANGED <<clock, timer, at, slot, timeout, status, pendingList, started>>
    BY <1>13 DEF DispatchBlocker, timerVars, runVars
  <2> QED
    BY <2>1, <2>2, <2>4, <2>5 DEF TypeOK
<1>14. ASSUME NEW d \in Dependents, Expire(d)
       PROVE  TypeOK' /\ FrameInv'
  <2>1. d \in Timed /\ d \in Handles /\ d # NoHandle /\ slot[d] \in Ids \cup {NoId}
    BY Ns2Assumption DEF Timed, Handles, TypeOK
  <2>2. stack = <<>> /\ Push(Call("expire", d, slot[d], Now))
    BY <1>14 DEF Expire, Idle
  <2>3. Now \in AbsTime
    BY NowType
  <2>4. stack' \in Seq(Frame) /\ Len(stack') <= MaxDepth + 1 /\ FrameInv'
    BY <1>12, <2>1, <2>2, <2>3
  <2>5. /\ timer' \in [Timed -> {"IDLE", "PENDING", "HANDLING"}]
        /\ status' \in [Handles -> Status]
    BY <1>14, <2>1 DEF Expire, TypeOK, Status
  <2>6. /\ lastEventTime' = Now
        /\ UNCHANGED <<clock, queue, at, slot, timeout, pendingList, currentNode, started>>
    BY <1>14 DEF Expire, runVars
  <2> HIDE DEF Now
  <2> QED
    BY <2>3, <2>4, <2>5, <2>6 DEF TypeOK
<1>15. ASSUME NEW h \in Readers, UdpTimeout(h) \/ PacketReceived(h)
       PROVE  TypeOK' /\ FrameInv'
  <2>1. /\ h \in Timed /\ h \in Handles /\ h # NoHandle /\ slot[h] \in Ids \cup {NoId}
        /\ timeout[h] \in AbsTime /\ NodeOf[h] \in Nodes
    BY Ns2Assumption DEF Timed, Handles, TypeOK
  <2>2. Now \in AbsTime
    BY NowType
  <2>3. /\ stack = <<>>
        /\ Push(Call("udpTimeout", h, slot[h], timeout[h])) \/ Push(Call("recv", h, slot[h], Now))
    BY <1>15 DEF UdpTimeout, PacketReceived, Idle
  <2>4. stack' \in Seq(Frame) /\ Len(stack') <= MaxDepth + 1 /\ FrameInv'
    BY <1>12, <2>1, <2>2, <2>3
  <2>5. /\ timer' \in [Timed -> {"IDLE", "PENDING", "HANDLING"}]
        /\ status' \in [Handles -> Status]
        /\ slot' \in [Timed -> Ids \cup {NoId}]
    BY <1>15, <2>1 DEF UdpTimeout, PacketReceived, Cancelled, TypeOK, Status
  <2>6. /\ lastEventTime' = timeout[h] \/ lastEventTime' = Now
        /\ currentNode' = NodeOf[h]
        /\ UNCHANGED <<clock, queue, at, timeout, pendingList, started>>
    BY <1>15 DEF UdpTimeout, PacketReceived, runVars
  <2> HIDE DEF Now
  <2> QED
    BY <2>1, <2>2, <2>4, <2>5, <2>6 DEF TypeOK
<1>16. ASSUME NEW n \in Nodes, GeaStart(n)
       PROVE  TypeOK' /\ FrameInv'
  <2>1. Now \in AbsTime
    BY NowType
  <2>2. stack = <<>> /\ Push(Call("main", NoHandle, NoId, Now))
    BY <1>16 DEF GeaStart, Idle
  <2>3. stack' \in Seq(Frame) /\ Len(stack') <= MaxDepth + 1 /\ FrameInv'
    BY <1>12, <2>1, <2>2
  <2>4. /\ lastEventTime' = Now /\ currentNode' = n /\ started' = started \cup {n}
        /\ UNCHANGED <<clock, queue, timer, at, slot, timeout, status, pendingList>>
    BY <1>16 DEF GeaStart, timerVars
  <2> HIDE DEF Now
  <2> QED
    BY <2>1, <2>3, <2>4 DEF TypeOK
<1>17. CASE Tick
  <2>1. clock' \in Clock
    BY <1>17, Ns2Assumption DEF Tick, TypeOK, Clock
  <2> QED
    BY <1>17, <2>1 DEF Tick, TypeOK, FrameInv, timerVars, ctxVars
<1>18. CASE \/ \E h \in Readers : PacketDropped(h)
            \/ Halted \/ UNCHANGED vars
  BY <1>18 DEF PacketDropped, Halted, vars, TypeOK, FrameInv
<1>19. CASE Backwards \/ \E h \in Readers : PacketInsane(h)
  BY <1>2, <1>19 DEF Backwards, PacketInsane
<1> QED
  BY <1>1, <1>3, <1>4, <1>5, <1>6, <1>7, <1>8, <1>10, <1>11, <1>13, <1>14, <1>15,
     <1>16, <1>17, <1>18, <1>19
  DEF Next, Client, Return, Dispatch

\* The ns-2 backend is type-correct: handlers never nest deeper than the
\* bound allows, and every event time is a multiple of the unit of AbsTime.
THEOREM TypeCorrect == Spec => []TypeOK
<1> DEFINE IInv == TypeOK /\ FrameInv
<1>1. IInv /\ [Next]_vars => IInv'
  BY TypeStep
<1> QED
  BY <1>1, TypeInit, PTL DEF Spec
-----------------------------------------------------------------------------
(* Timers.                                                                 *)

\* Every step keeps a handler in every armed timer.
LEMMA ArmedStep ==
  ASSUME TypeOK, ArmedHasHandler, [Next]_vars
  PROVE  ArmedHasHandler'
<1>0. /\ Dependents \subseteq Timed /\ Readers \subseteq Timed
      /\ timer \in [Timed -> {"IDLE", "PENDING", "HANDLING"}]
      /\ slot \in [Timed -> Ids \cup {NoId}]
  BY DEF Timed, TypeOK
<1>1. ASSUME UNCHANGED slot, \A h \in Timed : timer'[h] = "PENDING" => timer[h] = "PENDING"
      PROVE  ArmedHasHandler'
  BY <1>1 DEF ArmedHasHandler, PendingTimers
<1>2. ASSUME NEW id \in Ids, NEW t \in AbsTime, NEW h \in Timed, Resched(h, t),
             slot' = [slot EXCEPT ![h] = id]
      PROVE  ArmedHasHandler'
  <2>1. \A k \in Timed : k # h => timer'[k] = timer[k]
    BY <1>2, ReschedType
  <2>2. slot'[h] = id /\ \A k \in Timed : k # h => slot'[k] = slot[k]
    BY <1>0, <1>2
  <2> QED
    BY <1>0, <2>1, <2>2, Ns2Assumption DEF ArmedHasHandler, PendingTimers
<1>3. ASSUME NEW id \in Ids, NEW t \in AbsTime, NEW h \in Dependents, WaitForDepend(id, h, t)
      PROVE  ArmedHasHandler'
  <2>1. CASE timer[h] = "PENDING"
    BY <1>1, <1>3, <2>1 DEF WaitForDepend, Abort, timerVars
  <2>2. CASE timer[h] # "PENDING"
    BY <1>0, <1>2, <1>3, <2>2 DEF WaitForDepend
  <2> QED
    BY <2>1, <2>2
<1>4. ASSUME NEW id \in Ids, NEW t \in AbsTime, NEW h \in Readers, WaitForReader(id, h, t)
      PROVE  ArmedHasHandler'
  BY <1>0, <1>2, <1>4 DEF WaitForReader
<1>5. CASE CallPending
  <2>1. CASE CallsServed
    <3>1. Served.h \in Timed
      BY <2>1, CallOne DEF PendingEvent, Timed
    <3>2. UNCHANGED slot /\ timer' = Cancelled(Served.h)
      BY <2>1, Zenon DEF CallsServed
    <3>3. \A h \in Timed : timer'[h] = "PENDING" => timer[h] = "PENDING"
      BY <1>0, <3>1, <3>2 DEF Cancelled
    <3> QED
      BY <1>1, <3>2, <3>3
  <2>2. CASE Abort("doPendingEvents: timer is not pending")
    BY <1>1, <2>2 DEF Abort, timerVars
  <2> QED
    BY <1>5, <2>1, <2>2, CallPendingCases
<1>6. CASE ReturnPlain \/ DrainDone
  <2>1. UNCHANGED slot
    BY <1>6 DEF ReturnPlain, DrainDone
  <2>2. \A h \in Timed : timer'[h] = "PENDING" => timer[h] = "PENDING"
    BY <1>6, TimerDoneType DEF ReturnPlain, DrainDone
  <2> QED
    BY <1>1, <2>1, <2>2
<1>7. ASSUME NEW d \in Dependents, Expire(d)
      PROVE  ArmedHasHandler'
  <2>1. UNCHANGED slot /\ \A h \in Timed : timer'[h] = "PENDING" => timer[h] = "PENDING"
    BY <1>0, <1>7 DEF Expire
  <2> QED
    BY <1>1, <2>1
<1>8. ASSUME NEW h \in Readers, UdpTimeout(h) \/ PacketReceived(h)
      PROVE  ArmedHasHandler'
  <2>1. /\ timer'[h] # "PENDING"
        /\ \A k \in Timed : k # h => timer'[k] = timer[k] /\ slot'[k] = slot[k]
    BY <1>0, <1>8 DEF UdpTimeout, PacketReceived, Cancelled
  <2> QED
    BY <2>1 DEF ArmedHasHandler, PendingTimers
<1>9. CASE \/ \E id \in Ids, t \in AbsTime : \/ \E h \in Blockers : WaitForBlocker(id, h, t)
                                            \/ \E h \in Writers : WaitForWriter(id, h, t)
           \/ \E d \in Dependents : Complied(d)
           \/ ReturnToDrain \/ TakePending \/ Backwards
           \/ \E e \in queue : DispatchBlocker(e)
           \/ Tick
           \/ \E h \in Readers : PacketDropped(h) \/ PacketInsane(h)
           \/ \E n \in Nodes : GeaStart(n)
           \/ Halted \/ UNCHANGED vars
  <2>1. UNCHANGED <<timer, slot>>
    BY <1>9 DEF WaitForBlocker, WaitForWriter, Complied, ReturnToDrain, TakePending, Backwards,
                Abort, DispatchBlocker, Tick, PacketDropped, PacketInsane, GeaStart, Halted,
                vars, timerVars
  <2> QED
    BY <1>1, <2>1
<1> QED
  BY <1>3, <1>4, <1>5, <1>6, <1>7, <1>8, <1>9 DEF Next, Client, Return, Dispatch

\* Whatever the clients do, an armed timer has a handler to call: the
\* assertions on the stored event in ShadowUdpHandle::do_timeout and
\* ::process_data never fail.
THEOREM ArmedHasHandlerHolds == Spec => []ArmedHasHandler
<1> DEFINE IInv == TypeOK /\ FrameInv /\ ArmedHasHandler
<1>1. Init => IInv
  <2> SUFFICES ASSUME Init PROVE ArmedHasHandler
    BY TypeInit
  <2> QED
    BY DEF Init, ArmedHasHandler, PendingTimers
<1>2. IInv /\ [Next]_vars => IInv'
  BY TypeStep, ArmedStep
<1> QED
  BY <1>1, <1>2, PTL DEF Spec

\* Every step keeps a frame for every timer that is being handled.
LEMMA SettlesStep ==
  ASSUME TypeOK, FrameInv, TimerSettles, [Next]_vars
  PROVE  TimerSettles'
<1> DEFINE Handling == {"expire", "udpTimeout"}
<1>0. /\ Dependents \subseteq Timed /\ Readers \subseteq Timed
      /\ timer \in [Timed -> {"IDLE", "PENDING", "HANDLING"}]
  BY DEF Timed, TypeOK
<1>1. ASSUME \A h \in Timed : timer'[h] = "HANDLING" => timer[h] = "HANDLING",
             \A i \in DOMAIN stack : /\ i \in DOMAIN stack'
                                     /\ stack'[i].h = stack[i].h
                                     /\ stack'[i].kind = stack[i].kind
      PROVE  TimerSettles'
  BY <1>1 DEF TimerSettles
<1>2. ASSUME NEW t \in AbsTime, NEW h \in Timed, Resched(h, t), UNCHANGED stack
      PROVE  TimerSettles'
  <2>1. \A k \in Timed : timer'[k] = "HANDLING" => timer[k] = "HANDLING"
    BY <1>2, ReschedType
  <2> QED
    BY <1>1, <1>2, <2>1
<1>3. ASSUME NEW id \in Ids, NEW t \in AbsTime, NEW h \in Dependents, WaitForDepend(id, h, t)
      PROVE  TimerSettles'
  <2>1. CASE timer[h] = "PENDING"
    BY <1>1, <1>3, <2>1 DEF WaitForDepend, Abort, timerVars
  <2>2. CASE timer[h] # "PENDING"
    BY <1>0, <1>2, <1>3, <2>2 DEF WaitForDepend
  <2> QED
    BY <2>1, <2>2
<1>4. ASSUME NEW id \in Ids, NEW t \in AbsTime, NEW h \in Readers, WaitForReader(id, h, t)
      PROVE  TimerSettles'
  BY <1>0, <1>2, <1>4 DEF WaitForReader
<1>5. ASSUME NEW id \in Ids, NEW t \in AbsTime, NEW h \in Writers, WaitForWriter(id, h, t)
      PROVE  TimerSettles'
  <2> DEFINE f == Call("write", h, id, t)
  <2>1. f \in Frame
    BY CallType DEF Handles
  <2> HIDE DEF f
  <2>2. \A i \in DOMAIN stack : i \in DOMAIN stack' /\ stack'[i] = stack[i]
    BY <1>5, <2>1, PushStep DEF WaitForWriter, Push, f
  <2>3. UNCHANGED timer
    BY <1>5 DEF WaitForWriter, timerVars
  <2> QED
    BY <1>1, <2>2, <2>3
<1>6. CASE CallPending
  <2>1. CASE CallsServed
    <3>1. Served.h \in Timed
      BY <2>1, CallOne DEF PendingEvent, Timed
    <3>2. timer' = Cancelled(Served.h)
      BY <2>1, Zenon DEF CallsServed
    <3>3. \A h \in Timed : timer'[h] = "HANDLING" => timer[h] = "HANDLING"
      BY <1>0, <3>1, <3>2 DEF Cancelled
    <3>4. \A i \in DOMAIN stack : /\ i \in DOMAIN stack'
                                  /\ stack'[i].h = stack[i].h
                                  /\ stack'[i].kind = stack[i].kind
      BY <2>1, CallOne
    <3> QED
      BY <1>1, <3>3, <3>4
  <2>2. CASE Abort("doPendingEvents: timer is not pending")
    BY <1>1, <2>2 DEF Abort, timerVars
  <2> QED
    BY <1>6, <2>1, <2>2, CallPendingCases
<1>7. CASE ReturnToDrain
  <2>1. \A i \in DOMAIN stack : /\ i \in DOMAIN stack'
                                /\ stack'[i].h = stack[i].h
                                /\ stack'[i].kind = stack[i].kind
    BY <1>7, ToDrain
  <2> QED
    BY <1>1, <1>7, <2>1 DEF ReturnToDrain, timerVars
<1>8. CASE TakePending
  <2>1. \A i \in DOMAIN stack : /\ i \in DOMAIN stack'
                                /\ stack'[i].h = stack[i].h
                                /\ stack'[i].kind = stack[i].kind
    BY <1>8, TakeBatch
  <2> QED
    BY <1>1, <1>8, <2>1 DEF TakePending, timerVars
<1>9. CASE ReturnPlain \/ DrainDone
  <2>1. stack # <<>> /\ stack' = Pop
    BY <1>9 DEF ReturnPlain, DrainDone, Running
  <2>2. /\ \A i \in DOMAIN stack' : stack'[i] = stack[i]
        /\ \A i \in DOMAIN stack : i # Len(stack) => i \in DOMAIN stack'
    BY <2>1, PopStep
  <2>3. Top = stack[Len(stack)] /\ Len(stack) \in DOMAIN stack
    BY <2>1, TopType
  <2>4. \/ Top.kind \in Handling /\ timer' = TimerDone(Top.h)
        \/ Top.kind \notin Handling /\ timer' = timer
    <3>1. CASE ReturnPlain
      BY <3>1 DEF ReturnPlain, Draining
    <3>2. CASE DrainDone
      <4>1. Top.kind \in Draining
        BY <2>3, <3>2 DEF DrainDone, Running, FrameInv
      <4> QED
        BY <3>2, <4>1 DEF DrainDone, Draining
    <3> QED
      BY <1>9, <3>1, <3>2
  <2>5. ASSUME NEW h \in Timed, timer'[h] = "HANDLING"
        PROVE  \E i \in DOMAIN stack' : stack'[i].h = h /\ stack'[i].kind \in Handling
    <3>1. timer[h] = "HANDLING" /\ (Top.kind \in Handling => h # Top.h)
      BY <2>4, <2>5, TimerDoneType
    <3>2. PICK i \in DOMAIN stack : stack[i].h = h /\ stack[i].kind \in Handling
      BY <3>1 DEF TimerSettles
    <3>3. i # Len(stack)
      BY <2>3, <3>1, <3>2
    <3> QED
      BY <2>2, <3>2, <3>3
  <2> QED
    BY <2>5 DEF TimerSettles
<1>10. ASSUME NEW kind \in {"main", "blocker", "expire", "recv", "udpTimeout"},
              NEW h \in Handles \cup {NoHandle}, NEW id \in Ids \cup {NoId}, NEW t \in AbsTime,
              stack = <<>>, Push(Call(kind, h, id, t)),
              \A k \in Timed : timer'[k] = "HANDLING" =>
                timer[k] = "HANDLING" \/ (k = h /\ kind \in Handling)
       PROVE  TimerSettles'
  <2> DEFINE f == Call(kind, h, id, t)
  <2>1. f \in Frame /\ f.kind = kind /\ f.h = h
    BY CallType DEF Call
  <2> HIDE DEF f
  <2>2. DOMAIN stack' = {1} /\ stack'[1] = f
    BY <1>10, <2>1, Enter DEF f
  <2>3. DOMAIN stack = {}
    BY <1>10
  <2> QED
    BY <1>10, <2>1, <2>2, <2>3 DEF TimerSettles
<1>11. ASSUME NEW e \in queue, DispatchBlocker(e)
       PROVE  TimerSettles'
  <2>1. e.id \in Ids /\ e.h \in Handles /\ e.t \in AbsTime
    BY DEF TypeOK, Handles
  <2> QED
    BY <1>10, <1>11, <2>1 DEF DispatchBlocker, Idle, timerVars
<1>12. ASSUME NEW d \in Dependents, Expire(d)
       PROVE  TimerSettles'
  <2>1. d \in Timed /\ d \in Handles /\ slot[d] \in Ids \cup {NoId} /\ Now \in AbsTime
    BY NowType DEF Timed, Handles, TypeOK
  <2>2. \A k \in Timed : timer'[k] = "HANDLING" => timer[k] = "HANDLING" \/ k = d
    BY <1>0, <1>12 DEF Expire
  <2>3. stack = <<>> /\ Push(Call("expire", d, slot[d], Now))
    BY <1>12 DEF Expire, Idle
  <2> QED
    BY <1>10, <2>1, <2>2, <2>3
<1>13. ASSUME NEW h \in Readers, UdpTimeout(h)
       PROVE  TimerSettles'
  <2>1. h \in Timed /\ h \in Handles /\ slot[h] \in Ids \cup {NoId} /\ timeout[h] \in AbsTime
    BY DEF Timed, Handles, TypeOK
  <2>2. \A k \in Timed : timer'[k] = "HANDLING" => timer[k] = "HANDLING" \/ k = h
    BY <1>0, <1>13 DEF UdpTimeout
  <2>3. stack = <<>> /\ Push(Call("udpTimeout", h, slot[h], timeout[h]))
    BY <1>13 DEF UdpTimeout, Idle
  <2> QED
    BY <1>10, <2>1, <2>2, <2>3
<1>14. ASSUME NEW h \in Readers, PacketReceived(h)
       PROVE  TimerSettles'
  <2>1. h \in Timed /\ h \in Handles /\ slot[h] \in Ids \cup {NoId} /\ Now \in AbsTime
    BY NowType DEF Timed, Handles, TypeOK
  <2>2. \A k \in Timed : timer'[k] = "HANDLING" => timer[k] = "HANDLING"
    BY <1>0, <1>14 DEF PacketReceived, Cancelled
  <2>3. stack = <<>> /\ Push(Call("recv", h, slot[h], Now))
    BY <1>14 DEF PacketReceived, Idle
  <2> QED
    BY <1>10, <2>1, <2>2, <2>3
<1>15. ASSUME NEW n \in Nodes, GeaStart(n)
       PROVE  TimerSettles'
  <2>1. Now \in AbsTime
    BY NowType
  <2>2. stack = <<>> /\ Push(Call("main", NoHandle, NoId, Now)) /\ UNCHANGED timer
    BY <1>15 DEF GeaStart, Idle, timerVars
  <2> QED
    BY <1>10, <2>1, <2>2
<1>16. CASE \/ \E id \in Ids, t \in AbsTime, h \in Blockers : WaitForBlocker(id, h, t)
            \/ \E d \in Dependents : Complied(d)
            \/ Backwards \/ Tick
            \/ \E h \in Readers : PacketDropped(h) \/ PacketInsane(h)
            \/ Halted \/ UNCHANGED vars
  <2>1. UNCHANGED <<timer, stack>>
    BY <1>16 DEF WaitForBlocker, Complied, Backwards, Abort, Tick, PacketDropped, PacketInsane,
                 Halted, vars, timerVars
  <2> QED
    BY <1>1, <2>1
<1> QED
  BY <1>3, <1>4, <1>5, <1>6, <1>7, <1>8, <1>9, <1>11, <1>12, <1>13, <1>14, <1>15, <1>16
  DEF Next, Client, Return, Dispatch

\* Whatever the clients do and however handlers nest, a timer is in the state
\* of being handled only while its own handler is on the stack: when the
\* scheduler takes over, every timer is idle or armed.
THEOREM TimerSettlesHolds == Spec => []TimerSettles
<1> DEFINE IInv == TypeOK /\ FrameInv /\ TimerSettles
<1>1. Init => IInv
  <2> SUFFICES ASSUME Init PROVE TimerSettles
    BY TypeInit
  <2> QED
    BY DEF Init, TimerSettles
<1>2. IInv /\ [Next]_vars => IInv'
  BY TypeStep, SettlesStep
<1> QED
  BY <1>1, <1>2, PTL DEF Spec
-----------------------------------------------------------------------------
(* Triggers and nodes.                                                     *)

\* The steps by which the scheduler or the script calls a handler.
Dispatched ==
  \/ \E e \in queue : DispatchBlocker(e)
  \/ \E d \in Dependents : Expire(d)
  \/ \E h \in Readers : UdpTimeout(h) \/ PacketReceived(h)
  \/ \E n \in Nodes : GeaStart(n)

\* They find the stack empty and leave one fresh frame, in the context of
\* its handle's node unless it is the timeout of a DependHandle.
LEMMA DispatchedFrame ==
  ASSUME TypeOK, Dispatched
  PROVE  /\ stack = <<>> /\ DOMAIN stack' = {1} /\ stack' # <<>>
         /\ stack'[1].todo = <<>> /\ stack'[1].phase = "call"
         /\ stack'[1].kind # "expire" /\ stack'[1].h # NoHandle =>
              NodeOf[stack'[1].h] = currentNode'
         /\ UNCHANGED pendingList
<1>1. ASSUME NEW kind \in {"main", "blocker", "expire", "recv", "udpTimeout"},
             NEW h \in Handles \cup {NoHandle}, NEW id \in Ids \cup {NoId}, NEW t \in AbsTime,
             stack = <<>>, Push(Call(kind, h, id, t)), UNCHANGED pendingList,
             kind # "expire" /\ h # NoHandle => NodeOf[h] = currentNode'
      PROVE  /\ stack = <<>> /\ DOMAIN stack' = {1} /\ stack' # <<>>
             /\ stack'[1].todo = <<>> /\ stack'[1].phase = "call"
             /\ stack'[1].kind # "expire" /\ stack'[1].h # NoHandle =>
                  NodeOf[stack'[1].h] = currentNode'
             /\ UNCHANGED pendingList
  <2> DEFINE f == Call(kind, h, id, t)
  <2>1. f \in Frame /\ f.kind = kind /\ f.h = h /\ f.todo = <<>> /\ f.phase = "call"
    BY CallType DEF Call
  <2> HIDE DEF f
  <2>2. DOMAIN stack' = {1} /\ stack'[1] = f /\ stack' # <<>>
    BY <1>1, <2>1, Enter DEF f
  <2> QED
    BY <1>1, <2>1, <2>2
<1>2. ASSUME NEW e \in queue, DispatchBlocker(e)
      PROVE  /\ e.id \in Ids /\ e.h \in Handles /\ e.t \in AbsTime
             /\ stack = <<>> /\ Push(Call("blocker", e.h, e.id, e.t))
             /\ UNCHANGED pendingList /\ currentNode' = NodeOf[e.h]
  BY <1>2 DEF DispatchBlocker, Idle, TypeOK, Handles
<1>3. ASSUME NEW d \in Dependents, Expire(d)
      PROVE  /\ d \in Handles /\ slot[d] \in Ids \cup {NoId} /\ Now \in AbsTime
             /\ stack = <<>> /\ Push(Call("expire", d, slot[d], Now))
             /\ UNCHANGED pendingList
  BY <1>3, NowType DEF Expire, Idle, TypeOK, Handles, Timed
<1>4. ASSUME NEW h \in Readers, UdpTimeout(h) \/ PacketReceived(h)
      PROVE  /\ h \in Handles /\ slot[h] \in Ids \cup {NoId}
             /\ Now \in AbsTime /\ timeout[h] \in AbsTime
             /\ stack = <<>>
             /\ \/ Push(Call("udpTimeout", h, slot[h], timeout[h]))
                \/ Push(Call("recv", h, slot[h], Now))
             /\ UNCHANGED pendingList /\ currentNode' = NodeOf[h]
  BY <1>4, NowType DEF UdpTimeout, PacketReceived, Idle, TypeOK, Handles, Timed
<1>5. ASSUME NEW n \in Nodes, GeaStart(n)
      PROVE  /\ Now \in AbsTime
             /\ stack = <<>> /\ Push(Call("main", NoHandle, NoId, Now))
             /\ UNCHANGED pendingList
  BY <1>5, NowType DEF GeaStart, Idle
<1> HIDE DEF Now
<1>6. CASE \E e \in queue : DispatchBlocker(e)
  BY <1>1, <1>2, <1>6
<1>7. CASE \E d \in Dependents : Expire(d)
  BY <1>1, <1>3, <1>7
<1>8. CASE \E h \in Readers : UdpTimeout(h) \/ PacketReceived(h)
  BY <1>1, <1>4, <1>8
<1>9. CASE \E n \in Nodes : GeaStart(n)
  BY <1>1, <1>5, <1>9
<1> QED
  BY <1>6, <1>7, <1>8, <1>9 DEF Dispatched

\* waitFor on a sending handle calls its handler on top of the stack.
LEMMA WriterFrame ==
  ASSUME TypeOK, NEW id \in Ids, NEW t \in AbsTime, NEW h \in Writers, WaitForWriter(id, h, t)
  PROVE  /\ stack # <<>> /\ stack' # <<>> /\ Len(stack) \in Nat
         /\ \A i \in DOMAIN stack : i \in DOMAIN stack' /\ stack'[i] = stack[i]
         /\ \A i \in DOMAIN stack' : i \in DOMAIN stack \/ i = Len(stack) + 1
         /\ stack'[Len(stack) + 1].h = h /\ stack'[Len(stack) + 1].kind = "write"
         /\ stack'[Len(stack) + 1].id = id /\ stack'[Len(stack) + 1].t = t
         /\ stack'[Len(stack) + 1].phase = "call"
         /\ stack'[Len(stack) + 1].todo = <<>>
         /\ h \in Handles /\ h # NoHandle
         /\ UNCHANGED <<pendingList, currentNode, started, clock, lastEventTime, queue, timer,
                        at, slot, timeout, abort>>
<1> DEFINE f == Call("write", h, id, t)
<1>1. h \in Handles /\ h # NoHandle
  BY Ns2Assumption DEF Handles
<1>2. /\ f \in Frame /\ f.kind = "write" /\ f.h = h /\ f.todo = <<>> /\ f.phase = "call"
      /\ f.id = id /\ f.t = t
  BY <1>1, CallType DEF Call
<1> HIDE DEF f
<1>3. stack # <<>> /\ stack' = Append(stack, f)
  BY DEF WaitForWriter, MayWait, Running, Push, f
<1>4. UNCHANGED <<pendingList, currentNode, started, clock, lastEventTime, queue, timer,
                  at, slot, timeout, abort>>
  BY DEF WaitForWriter, ctxVars, runVars, timerVars
<1>5. /\ stack' # <<>> /\ Len(stack) \in Nat /\ stack'[Len(stack) + 1] = f
      /\ \A i \in DOMAIN stack : i \in DOMAIN stack' /\ stack'[i] = stack[i]
      /\ \A i \in DOMAIN stack' : i \in DOMAIN stack \/ i = Len(stack) + 1
  BY <1>2, <1>3, PushStep
<1> QED
  BY <1>1, <1>2, <1>3, <1>4, <1>5, Zenon

\* The node of the running handler, in a context that is right.
LEMMA HomeIsCurrent ==
  ASSUME TypeOK, ContextInv, stack # <<>>, stack[1].kind # "expire"
  PROVE  Home = currentNode
<1>1. Len(stack) \in DOMAIN stack /\ Top = stack[Len(stack)]
  BY TopType
<1> QED
  BY <1>1 DEF Home, ContextInv

\* Every step keeps a doPendingEvents to come for the triggers there are, if
\* complied() is called only from handlers doPendingEvents follows.
LEMMA DrainStep ==
  ASSUME TypeOK, FrameInv, DrainInv, [Next]_vars, ~FreeTriggers
  PROVE  DrainInv'
<1>1. ASSUME pendingList' = pendingList,
             \A i \in DOMAIN stack : i \in DOMAIN stack' /\ stack'[i].kind = stack[i].kind
      PROVE  DrainInv'
  BY <1>1 DEF DrainInv
<1>2. ASSUME NEW d \in Dependents, Complied(d)
      PROVE  DrainInv'
  <2>1. PICK i \in DOMAIN stack : stack[i].kind \notin {"main", "expire", "pending"}
    BY <1>2 DEF Complied
  <2>2. stack[i] \in Frame /\ UNCHANGED stack
    BY <1>2 DEF TypeOK, Complied
  <2>3. stack[i].kind \in Draining
    BY <2>1, <2>2 DEF Frame, Draining
  <2> QED
    BY <2>2, <2>3 DEF DrainInv
<1>3. CASE TakePending
  BY <1>3, TakeBatch DEF DrainInv
<1>4. CASE ReturnToDrain
  <2>1. pendingList' = pendingList
    BY <1>4 DEF ReturnToDrain
  <2> QED
    BY <1>1, <1>4, <2>1, ToDrain
<1>5. CASE CallPending
  <2>1. CASE CallsServed
    <3>1. pendingList' = pendingList
      BY <2>1, Zenon DEF CallsServed
    <3> QED
      BY <1>1, <2>1, <3>1, CallOne
  <2>2. CASE Abort("doPendingEvents: timer is not pending")
    BY <1>1, <2>2 DEF Abort
  <2> QED
    BY <1>5, <2>1, <2>2, CallPendingCases
<1>6. CASE DrainDone
  BY <1>6 DEF DrainDone, DrainInv
<1>7. CASE ReturnPlain
  <2>1. stack # <<>> /\ stack' = Pop /\ Top.kind \notin Draining /\ UNCHANGED pendingList
    BY <1>7 DEF ReturnPlain, Running
  <2>2. /\ \A i \in DOMAIN stack' : stack'[i] = stack[i]
        /\ \A i \in DOMAIN stack : i # Len(stack) => i \in DOMAIN stack'
        /\ Top = stack[Len(stack)]
    BY <2>1, PopStep, TopType
  <2> QED
    BY <2>1, <2>2 DEF DrainInv
<1>8. ASSUME NEW id \in Ids, NEW t \in AbsTime, NEW h \in Writers, WaitForWriter(id, h, t)
      PROVE  DrainInv'
  BY <1>1, <1>8, WriterFrame
<1>9. CASE Dispatched
  <2>1. stack = <<>> /\ UNCHANGED pendingList
    BY <1>9, DispatchedFrame
  <2> QED
    BY <2>1 DEF DrainInv
<1>10. CASE \/ \E id \in Ids, t \in AbsTime, h \in Blockers : WaitForBlocker(id, h, t)
            \/ \E id \in Ids, t \in AbsTime, h \in Dependents : WaitForDepend(id, h, t)
            \/ \E id \in Ids, t \in AbsTime, h \in Readers : WaitForReader(id, h, t)
            \/ Backwards \/ Tick
            \/ \E h \in Readers : PacketDropped(h) \/ PacketInsane(h)
            \/ Halted \/ UNCHANGED vars
  <2>1. UNCHANGED <<pendingList, stack>>
    BY <1>10 DEF WaitForBlocker, WaitForDepend, WaitForReader, Backwards, Abort, Tick,
                 PacketDropped, PacketInsane, Halted, vars
  <2> QED
    BY <1>1, <2>1
<1> QED
  BY <1>2, <1>3, <1>4, <1>5, <1>6, <1>7, <1>8, <1>9, <1>10
  DEF Next, Client, Return, Dispatch, Dispatched

\* If complied() is called only from handlers doPendingEvents follows, no
\* triggered handler is still waiting to be called when the simulation goes on.
THEOREM NoTriggerLeftBehindHolds == ~FreeTriggers => (Spec => []NoTriggerLeftBehind)
<1> SUFFICES ASSUME ~FreeTriggers PROVE Spec => []NoTriggerLeftBehind
  OBVIOUS
<1> DEFINE IInv == TypeOK /\ FrameInv /\ DrainInv
<1>1. Init => IInv
  <2> SUFFICES ASSUME Init PROVE DrainInv
    BY TypeInit
  <2> QED
    BY DEF Init, DrainInv
<1>2. IInv /\ [Next]_vars => IInv'
  BY TypeStep, DrainStep
<1>3. IInv => NoTriggerLeftBehind
  BY DEF DrainInv, NoTriggerLeftBehind
<1> QED
  BY <1>1, <1>2, <1>3, PTL DEF Spec
\* The outermost call is there as long as any is.
LEMMA BottomFrame ==
  ASSUME NEW s \in Seq(Frame), s # <<>>
  PROVE  1 \in DOMAIN s
OBVIOUS

\* The rest of a batch is part of it.
LEMMA TailShape ==
  ASSUME NEW s \in Seq(PendingEvent), s # <<>>
  PROVE  \A j \in DOMAIN Tail(s) : j + 1 \in DOMAIN s /\ Tail(s)[j] = s[j + 1] /\ j + 1 # 1
<1>1. /\ Tail(s) \in Seq(PendingEvent) /\ Len(Tail(s)) = Len(s) - 1
      /\ \A i \in 1 .. Len(Tail(s)) : Tail(s)[i] = s[i + 1]
  BY HeadTailProperties
<1>2. DOMAIN Tail(s) = 1 .. Len(s) - 1 /\ DOMAIN s = 1 .. Len(s) /\ Len(s) \in Nat
  BY <1>1
<1> QED
  BY <1>1, <1>2

\* Every step keeps all that is served and triggered on the current node.
LEMMA ContextStep ==
  ASSUME TypeOK, TypeOK', FrameInv, DrainInv, ContextInv, [Next]_vars
  PROVE  ContextInv'
<1> SUFFICES ASSUME stack' # <<>>, stack'[1].kind # "expire"
             PROVE  /\ \A j \in DOMAIN pendingList' : NodeOf[pendingList'[j].h] = currentNode'
                    /\ \A i \in DOMAIN stack' :
                         /\ stack'[i].h # NoHandle => NodeOf[stack'[i].h] = currentNode'
                         /\ \A j \in DOMAIN stack'[i].todo :
                              NodeOf[stack'[i].todo[j].h] = currentNode'
  BY DEF ContextInv
<1>0. stack # <<>> => 1 \in DOMAIN stack
  BY BottomFrame DEF TypeOK
<1>b. stack' # <<>> => 1 \in DOMAIN stack'
  BY BottomFrame DEF TypeOK
<1>1. CASE UNCHANGED <<stack, pendingList, currentNode>>
  BY <1>1 DEF ContextInv
<1>2. ASSUME NEW d \in Dependents, Complied(d)
      PROVE  ContextInv'
  <2>1. /\ stack # <<>> /\ NodeOf[d] = Home /\ UNCHANGED <<stack, currentNode>>
        /\ pendingList' = Append(pendingList, [h |-> d, id |-> slot[d]])
    BY <1>2 DEF Complied, Running, ctxVars
  <2>2. stack[1].kind # "expire"
    BY <2>1
  <2>3. NodeOf[d] = currentNode
    BY <2>1, <2>2, HomeIsCurrent
  <2>4. pendingList \in Seq(PendingEvent) /\ [h |-> d, id |-> slot[d]].h = d
    BY DEF TypeOK
  <2>5. \A j \in DOMAIN pendingList' :
           \/ j \in DOMAIN pendingList /\ pendingList'[j] = pendingList[j]
           \/ pendingList'[j].h = d
    BY <2>1, <2>4
  <2> QED
    BY <2>1, <2>2, <2>3, <2>5 DEF ContextInv
<1>3. ASSUME NEW id \in Ids, NEW t \in AbsTime, NEW h \in Writers, WaitForWriter(id, h, t)
      PROVE  ContextInv'
  <2>1. NodeOf[h] = Home
    BY <1>3 DEF WaitForWriter, MayWait
  <2>2. stack # <<>> /\ stack'[1] = stack[1]
    BY <1>0, <1>3, WriterFrame
  <2>3. NodeOf[h] = currentNode
    BY <2>1, <2>2, HomeIsCurrent
  <2>4. ASSUME NEW i \in DOMAIN stack'
        PROVE  /\ stack'[i].h # NoHandle => NodeOf[stack'[i].h] = currentNode
               /\ \A j \in DOMAIN stack'[i].todo : NodeOf[stack'[i].todo[j].h] = currentNode
    <3>1. CASE i \in DOMAIN stack
      <4>1. stack'[i] = stack[i]
        BY <1>3, <3>1, WriterFrame
      <4> QED
        BY <2>2, <3>1, <4>1 DEF ContextInv
    <3>2. CASE i = Len(stack) + 1
      <4>1. stack'[i].h = h /\ stack'[i].todo = <<>>
        BY <1>3, <3>2, WriterFrame
      <4> QED
        BY <2>3, <4>1
    <3> QED
      BY <1>3, <3>1, <3>2, WriterFrame
  <2>5. UNCHANGED <<pendingList, currentNode>>
    BY <1>3, WriterFrame
  <2> QED
    BY <2>2, <2>4, <2>5 DEF ContextInv
<1>4. CASE Dispatched
  <2>1. stack = <<>> /\ UNCHANGED pendingList /\ DOMAIN stack' = {1} /\ stack'[1].todo = <<>>
        /\ (stack'[1].h # NoHandle => NodeOf[stack'[1].h] = currentNode')
    BY <1>4, DispatchedFrame
  <2>2. pendingList' = <<>>
    BY <2>1 DEF DrainInv
  <2> QED
    BY <2>1, <2>2
<1>5. CASE ReturnPlain \/ DrainDone
  <2>1. stack # <<>> /\ stack' = Pop /\ UNCHANGED <<pendingList, currentNode>>
    BY <1>5 DEF ReturnPlain, DrainDone, Running, ctxVars
  <2>2. \A i \in DOMAIN stack' : i \in DOMAIN stack /\ stack'[i] = stack[i]
    BY <2>1, PopStep
  <2>3. stack[1].kind # "expire"
    BY <1>b, <2>2
  <2> QED
    BY <2>1, <2>2, <2>3 DEF ContextInv
<1>6. CASE ReturnToDrain
  <2>1. UNCHANGED <<pendingList, currentNode>>
    BY <1>6 DEF ReturnToDrain, ctxVars
  <2>2. /\ stack # <<>> /\ DOMAIN stack' = DOMAIN stack
        /\ \A i \in DOMAIN stack : /\ stack'[i].kind = stack[i].kind
                                   /\ stack'[i].h = stack[i].h
                                   /\ stack'[i].todo = stack[i].todo
    BY <1>6, ToDrain
  <2>3. stack[1].kind # "expire"
    BY <1>0, <2>2
  <2>4. ASSUME NEW i \in DOMAIN stack'
        PROVE  /\ stack'[i].h # NoHandle => NodeOf[stack'[i].h] = currentNode
               /\ \A j \in DOMAIN stack'[i].todo : NodeOf[stack'[i].todo[j].h] = currentNode
    <3>1. i \in DOMAIN stack /\ stack'[i].h = stack[i].h /\ stack'[i].todo = stack[i].todo
      BY <2>2
    <3>2. /\ stack[i].h # NoHandle => NodeOf[stack[i].h] = currentNode
          /\ \A j \in DOMAIN stack[i].todo : NodeOf[stack[i].todo[j].h] = currentNode
      BY <2>2, <2>3, <3>1 DEF ContextInv
    <3> QED
      BY <3>1, <3>2
  <2>5. \A j \in DOMAIN pendingList : NodeOf[pendingList[j].h] = currentNode
    BY <2>2, <2>3 DEF ContextInv
  <2> QED
    BY <2>1, <2>4, <2>5
<1>7. CASE TakePending
  <2>1. UNCHANGED currentNode /\ pendingList' = <<>>
    BY <1>7, TakeBatch DEF TakePending, ctxVars
  <2>2. /\ stack # <<>> /\ DOMAIN stack' = DOMAIN stack
        /\ \A i \in DOMAIN stack : /\ stack'[i].kind = stack[i].kind
                                   /\ stack'[i].h = stack[i].h
        /\ \A i \in DOMAIN stack : stack'[i].todo = stack[i].todo \/ stack'[i].todo = pendingList
    BY <1>7, TakeBatch
  <2>3. stack[1].kind # "expire"
    BY <1>0, <2>2
  <2>4. ASSUME NEW i \in DOMAIN stack
        PROVE  \A j \in DOMAIN stack'[i].todo : NodeOf[stack'[i].todo[j].h] = currentNode
    <3>1. \A j \in DOMAIN stack[i].todo : NodeOf[stack[i].todo[j].h] = currentNode
      BY <2>2, <2>3 DEF ContextInv
    <3>2. \A j \in DOMAIN pendingList : NodeOf[pendingList[j].h] = currentNode
      BY <2>2, <2>3 DEF ContextInv
    <3>3. stack'[i].todo = stack[i].todo \/ stack'[i].todo = pendingList
      BY <2>2
    <3> QED
      BY <3>1, <3>2, <3>3
  <2>5. \A i \in DOMAIN stack : stack'[i].h # NoHandle => NodeOf[stack'[i].h] = currentNode
    BY <2>2, <2>3, Zenon DEF ContextInv
  <2> QED
    BY <2>1, <2>2, <2>4, <2>5
<1>8. CASE CallsServed
  <2>1. UNCHANGED <<pendingList, currentNode>>
    BY <1>8, Zenon DEF CallsServed
  <2>2. stack # <<>> /\ 1 \in DOMAIN stack /\ stack[1].kind # "expire"
    <3>1. stack # <<>> /\ \A i \in DOMAIN stack : stack'[i].kind = stack[i].kind
      BY <1>8, CallOne
    <3> QED
      BY <1>0, <3>1
  <2> DEFINE n == Len(stack)
  <2>3. /\ stack[n].todo \in Seq(PendingEvent) /\ stack[n].todo # <<>> /\ n \in DOMAIN stack
        /\ Served = stack[n].todo[1]
    BY <1>8, CallOne
  <2>4. 1 \in DOMAIN stack[n].todo
    BY <2>3
  <2>5. NodeOf[Served.h] = currentNode
    BY <2>2, <2>3, <2>4 DEF ContextInv
  <2>6. ASSUME NEW i \in DOMAIN stack'
        PROVE  /\ stack'[i].h # NoHandle => NodeOf[stack'[i].h] = currentNode
               /\ \A j \in DOMAIN stack'[i].todo : NodeOf[stack'[i].todo[j].h] = currentNode
    <3>1. CASE i \in DOMAIN stack /\ i # n
      <4>1. stack'[i] = stack[i]
        BY <1>8, <3>1, CallOne
      <4> QED
        BY <2>2, <3>1, <4>1 DEF ContextInv
    <3>2. CASE i = n
      <4>1. stack'[i].h = stack[n].h /\ stack'[i].todo = Tail(stack[n].todo)
        BY <1>8, <3>2, CallOne
      <4>2. \A j \in DOMAIN Tail(stack[n].todo) :
              j + 1 \in DOMAIN stack[n].todo /\ Tail(stack[n].todo)[j] = stack[n].todo[j + 1]
        BY <2>3, TailShape
      <4>3. \A k \in DOMAIN stack[n].todo : NodeOf[stack[n].todo[k].h] = currentNode
        BY <2>2, <2>3 DEF ContextInv
      <4>4. stack[n].h # NoHandle => NodeOf[stack[n].h] = currentNode
        BY <2>2, <2>3 DEF ContextInv
      <4> QED
        <5>1. \A j \in DOMAIN Tail(stack[n].todo) : NodeOf[Tail(stack[n].todo)[j].h] = currentNode
          BY <4>2, <4>3
        <5>2. stack'[i].h # NoHandle => NodeOf[stack'[i].h] = currentNode
          BY <4>1, <4>4
        <5>3. \A j \in DOMAIN stack'[i].todo : NodeOf[stack'[i].todo[j].h] = currentNode
          BY <4>1, <5>1
        <5> QED
          BY <5>2, <5>3
    <3>3. CASE i = n + 1
      <4>1. stack'[i] = Call("pending", Served.h, Served.id, Top.t)
        BY <1>8, <3>3, CallOne
      <4>2. stack'[i].h = Served.h /\ stack'[i].todo = <<>>
        BY <4>1 DEF Call
      <4> QED
        BY <2>5, <4>2
    <3>4. i \in DOMAIN stack \/ i = n + 1
      BY <1>8, CallOne
    <3> QED
      BY <3>1, <3>2, <3>3, <3>4
  <2>7. \A j \in DOMAIN pendingList : NodeOf[pendingList[j].h] = currentNode
    BY <2>2 DEF ContextInv
  <2> QED
    BY <2>1, <2>6, <2>7
<1>9. CASE CallPending
  <2>1. CASE Abort("doPendingEvents: timer is not pending")
    BY <1>1, <2>1 DEF Abort, ctxVars
  <2> QED
    BY <1>8, <1>9, <2>1, CallPendingCases
<1>10. CASE \/ \E id \in Ids, t \in AbsTime, h \in Blockers : WaitForBlocker(id, h, t)
            \/ \E id \in Ids, t \in AbsTime, h \in Dependents : WaitForDepend(id, h, t)
            \/ \E id \in Ids, t \in AbsTime, h \in Readers : WaitForReader(id, h, t)
            \/ Backwards \/ Tick
            \/ \E h \in Readers : PacketDropped(h) \/ PacketInsane(h)
            \/ Halted \/ UNCHANGED vars
  <2>1. UNCHANGED <<pendingList, stack, currentNode>>
    BY <1>10 DEF WaitForBlocker, WaitForDepend, WaitForReader, Backwards, Abort, Tick,
                 PacketDropped, PacketInsane, Halted, vars, ctxVars
  <2> QED
    BY <1>1, <2>1
<1>11. CASE Client
  <2>1. CASE ContextInv'
    BY <2>1 DEF ContextInv
  <2> QED
    BY <1>2, <1>3, <1>10, <1>11, <2>1 DEF Client
<1> QED
  BY <1>4, <1>5, <1>6, <1>7, <1>9, <1>10, <1>11
  DEF Next, Return, Dispatch, Dispatched

\* If complied() is called only from handlers doPendingEvents follows, every
\* handler runs in the context of the node its handle was created on, however
\* deep handlers nest and whichever handler triggered it; the one exception
\* is what ShadowDepend::expire calls.
THEOREM NodeContextHolds == ~FreeTriggers => (Spec => []NodeContext)
<1> SUFFICES ASSUME ~FreeTriggers PROVE Spec => []NodeContext
  OBVIOUS
<1> DEFINE IInv == TypeOK /\ FrameInv /\ DrainInv /\ ContextInv
<1>1. Init => IInv
  <2> SUFFICES ASSUME Init PROVE DrainInv /\ ContextInv
    BY TypeInit
  <2> QED
    BY DEF Init, DrainInv, ContextInv
<1>2. IInv /\ [Next]_vars => IInv'
  BY TypeStep, DrainStep, ContextStep
<1>3. IInv => NodeContext
  <2> SUFFICES ASSUME IInv, stack # <<>>, Top.h # NoHandle, stack[1].kind # "expire"
               PROVE  currentNode = NodeOf[Top.h]
    BY DEF NodeContext
  <2>1. Len(stack) \in DOMAIN stack /\ Top = stack[Len(stack)]
    BY TopType
  <2> QED
    BY <2>1 DEF ContextInv
<1> QED
  BY <1>1, <1>2, <1>3, PTL DEF Spec
=============================================================================
