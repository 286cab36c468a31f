-------------------------------- MODULE Alone ---------------------------------
(* What the muxes promise each request, without the stacks, pools, contexts  *)
(* and maps that requests share: it takes its course as if it were alone in  *)
(* the server, and its handler sees the user verified for it and no other.   *)
EXTENDS Naturals

CONSTANTS Requests,
          None      \* no user

VARIABLES stage,    \* how far each request is
          path,     \* which path its r.URL.Path is
          verified, \* its credentials were verified
          seen,     \* the user its handler was given
          replies   \* replies written to it

vars == <<stage, path, verified, seen, replies>>

Init ==
    /\ stage = [r \in Requests |-> "new"]
    /\ path = [r \in Requests |-> "whole"]
    /\ verified = [r \in Requests |-> FALSE]
    /\ seen = [r \in Requests |-> None]
    /\ replies = [r \in Requests |-> 0]

Pass(r, from, to) == stage[r] = from /\ stage' = [stage EXCEPT ![r] = to]
Answer(r) == replies' = [replies EXCEPT ![r] = @ + 1]
WholePath(r) == path' = [path EXCEPT ![r] = "whole"]

Arrive(r) == Pass(r, "new", "outer") /\ UNCHANGED <<path, verified, seen, replies>>

(* The outer mux hands the request on, or has no route for it. *)
Route(r) ==
    /\ \/ Pass(r, "outer", "inner") /\ UNCHANGED replies
       \/ Pass(r, "outer", "leaving") /\ Answer(r)
    /\ UNCHANGED <<path, verified, seen>>

SubRoute(r) ==
    /\ Pass(r, "inner", "authenticate")
    /\ path' = [path EXCEPT ![r] = "tail"]
    /\ UNCHANGED <<verified, seen, replies>>

(* Credentials are verified, missing or refused, or the check of them panics: *)
(* then the request is left at once, and answered.                           *)
Authenticate(r) ==
    /\ \/ /\ Pass(r, "authenticate", "handler")
          /\ \E v \in BOOLEAN : verified' = [verified EXCEPT ![r] = v]
          /\ UNCHANGED <<path, replies>>
       \/ Pass(r, "authenticate", "answered") /\ Answer(r) /\ UNCHANGED <<path, verified>>
       \/ Pass(r, "authenticate", "leaving") /\ Answer(r) /\ WholePath(r) /\ UNCHANGED verified
    /\ UNCHANGED seen

(* So is a handler that panics. *)
Handle(r) ==
    /\ \/ Pass(r, "handler", "answered") /\ UNCHANGED path
       \/ Pass(r, "handler", "leaving") /\ WholePath(r)
    /\ seen' = [seen EXCEPT ![r] = IF verified[r] THEN r ELSE None]
    /\ Answer(r)
    /\ UNCHANGED verified

Back(r) ==
    /\ Pass(r, "answered", "returned")
    /\ WholePath(r)
    /\ UNCHANGED <<verified, seen, replies>>

(* What is done behind the reply may panic, and then there is a second one. *)
Return(r) ==
    /\ Pass(r, "returned", "leaving")
    /\ Answer(r) \/ UNCHANGED replies
    /\ UNCHANGED <<path, verified, seen>>

Leave(r) == Pass(r, "leaving", "done") /\ UNCHANGED <<path, verified, seen, replies>>

Next ==
    \E r \in Requests :
        \/ Arrive(r) \/ Route(r) \/ SubRoute(r) \/ Authenticate(r) \/ Handle(r)
        \/ Back(r) \/ Return(r) \/ Leave(r)

Spec == Init /\ [][Next]_vars
=============================================================================
