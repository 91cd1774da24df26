------------------------ MODULE MCPosixEventHandler ------------------------
(* Instances of PosixEventHandler for TLC.                                 *)
EXTENDS PosixEventHandler, TLC

\* Registrations, and handles of one kind, are interchangeable (used in
\* safety runs only).
Interchangeable ==
  Permutations(Ids) \cup Permutations(FdHandles) \cup Permutations(Dependents)

\* Handlers that ask for a time before the one they were called with, as
\* AbsTime::now() is when select returned early.
BackDated == -1

(***************************************************************************)
(* A clock that does not stop at MaxTime.  The loop only compares times,   *)
(* so once no time of the state is 0 all may be counted from one tick      *)
(* later.  With this step MaxTime bounds how far apart the times of one    *)
(* state are, not how long the program runs, and timers with different     *)
(* deadlines meet again and again.                                         *)
(***************************************************************************)
Times ==
  {e.t : e \in eventList \cup called} \cup {elist[i].t : i \in DOMAIN elist}
    \cup {lastEventTime, now}

Earlier(e) == [e EXCEPT !.t = @ - 1]

Rebase ==
  /\ pc # "done"
  /\ 0 \notin Times
  /\ eventList' = {Earlier(e) : e \in eventList}
  /\ called' = {Earlier(e) : e \in called}
  /\ elist' = [i \in DOMAIN elist |-> Earlier(elist[i])]
  /\ lastEventTime' = lastEventTime - 1
  /\ now' = now - 1
  /\ UNCHANGED <<older, status, triggered, next, pc, signalled, fdReady>>

LongRunSpec == Init /\ [][Next \/ Rebase]_vars /\ Fairness
=============================================================================
