-------------------------- MODULE EventHandlerApi --------------------------
(***************************************************************************)
(* What gea::EventHandler promises its clients, whatever backend runs      *)
(* below it (include/gea/EventHandler.h, Readme.txt): every waitFor() is a *)
(* registration, and each registration is answered by exactly one call of  *)
(* its event handler.  A backend whose waitFor() may call handlers itself  *)
(* (Nested) has several of them in progress; any other runs them one at a  *)
(* time.                                                                   *)
(***************************************************************************)

CONSTANTS Ids,      \* names for the registrations alive at one time
          Handles,  \* the handles a registration may wait on
          Nested    \* may a handler be called while another one runs?

VARIABLES outstanding,  \* registered, handler not called yet
          current       \* the registrations whose handlers are running

apiVars == <<outstanding, current>>

Registration == [id : Ids, h : Handles]

TypeOK ==
  /\ outstanding \subseteq Registration
  /\ current \subseteq Registration

Init ==
  /\ outstanding = {}
  /\ current = {}

\* EventHandler::waitFor, from a handler or from the main function.
WaitFor(r) ==
  /\ \A q \in outstanding : q.id # r.id
  /\ outstanding' = outstanding \cup {r}
  /\ UNCHANGED current

\* waitFor calls the handler before it returns.
CallAtOnce(r) ==
  /\ Nested
  /\ \A q \in outstanding \cup current : q.id # r.id
  /\ current' = current \cup {r}
  /\ UNCHANGED outstanding

\* The backend calls the handler of one outstanding registration.
Deliver(r) ==
  /\ Nested \/ current = {}
  /\ r \in outstanding
  /\ outstanding' = outstanding \ {r}
  /\ current' = current \cup {r}

\* The handler returns.
Return(r) ==
  /\ r \in current
  /\ current' = current \ {r}
  /\ UNCHANGED outstanding

Next == \E r \in Registration : WaitFor(r) \/ CallAtOnce(r) \/ Deliver(r) \/ Return(r)

Spec == Init /\ [][Next]_apiVars
=============================================================================
