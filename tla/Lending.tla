------------------------------- MODULE Lending --------------------------------
(* What the client of Redis promises its callers, without the list, the      *)
(* channel, the count and the sockets of its pool: each call is refused, or  *)
(* has a connection to itself until it has a reply to every command or fails.*)
EXTENDS Naturals, FiniteSets

CONSTANTS Callers,
          size,    \* connections lent at a time
          MaxCmds, \* bound on the commands of one call
          Conns,
          None     \* no connection

VARIABLES stage, \* how far the call of each caller is
          lent,  \* the connection that a caller has
          todo,  \* the replies it waits for
          failed \* whether its call will return an error

vars == <<stage, lent, todo, failed>>

Init ==
    /\ stage = [g \in Callers |-> "idle"]
    /\ lent = [g \in Callers |-> None]
    /\ todo = [g \in Callers |-> 0]
    /\ failed = [g \in Callers |-> FALSE]

Pass(g, from, to) == stage[g] = from /\ stage' = [stage EXCEPT ![g] = to]
Fails(g) == failed' = [failed EXCEPT ![g] = TRUE]
Finish(g) ==
    /\ todo' = [todo EXCEPT ![g] = 0]
    /\ failed' = [failed EXCEPT ![g] = FALSE]

Ask(g) ==
    /\ Pass(g, "idle", "asking")
    /\ \E n \in 1..MaxCmds : todo' = [todo EXCEPT ![g] = n]
    /\ UNCHANGED <<lent, failed>>

(* No connection can be made, or none becomes free in time. *)
Refuse(g) == Pass(g, "asking", "idle") /\ Finish(g) /\ UNCHANGED lent

Borrow(g) ==
    /\ Pass(g, "asking", "using")
    /\ Cardinality({h \in Callers : stage[h] = "using"}) < size
    /\ \E c \in Conns :
         /\ \A h \in Callers : lent[h] # c
         /\ lent' = [lent EXCEPT ![g] = c]
    /\ UNCHANGED <<todo, failed>>

(* A reply, which may be an error, or the error of a connection that ends. *)
Reply(g) ==
    /\ stage[g] = "using" /\ todo[g] > 0
    /\ todo' = [todo EXCEPT ![g] = @ - 1]
    /\ Fails(g) \/ UNCHANGED failed
    /\ UNCHANGED <<stage, lent>>

(* The commands cannot be sent. *)
Lose(g) == stage[g] = "using" /\ Fails(g) /\ UNCHANGED <<stage, lent, todo>>

(* The connection is given back, at the end of the call or, if it cannot be  *)
(* used again, before it is replaced.                                        *)
GiveBack(g) ==
    /\ todo[g] = 0 \/ failed[g]
    /\ lent' = [lent EXCEPT ![g] = None]
    /\ \/ Pass(g, "using", "idle") /\ Finish(g)
       \/ Pass(g, "using", "ending") /\ UNCHANGED <<todo, failed>>

End(g) == Pass(g, "ending", "idle") /\ Finish(g) /\ UNCHANGED lent

Next ==
    \E g \in Callers :
        Ask(g) \/ Refuse(g) \/ Borrow(g) \/ Reply(g) \/ Lose(g) \/ GiveBack(g) \/ End(g)

Spec == Init /\ [][Next]_vars
=============================================================================
