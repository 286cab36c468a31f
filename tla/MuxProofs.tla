------------------------------ MODULE MuxProofs -------------------------------
(* What Dispatch guarantees for any sets of requests and of stacks, and the  *)
(* table of the routes of a mux for any routes.                              *)
EXTENDS Dispatch, RouteMachine, TLAPS, SequenceTheorems, WellFoundedInduction

USE DispatchAssumption

-----------------------------------------------------------------------------
(* The inductive invariant.                                                  *)

\* A request holds a stack until it has only its field pool left to unset.
Holds(r, m) == stack[r][m] # None /\ pc[r] # <<m, "unset">>

\* A stack is held once, or lies in one pool, or is neither.
StackInv ==
    /\ \A r, q \in Requests, m, n \in Muxes :
         Holds(r, m) /\ Holds(q, n) /\ stack[r][m] = stack[q][n] => r = q /\ m = n
    /\ \A r \in Requests, m \in Muxes : Holds(r, m) => stack[r][m] \notin Pooled
    /\ pool["default"] \cap pool["api"] = {}

Own(r) == [env |-> r, params |-> {"*"}]

\* What the contexts of a request hold at each of its steps.
Contexts(r) ==
    /\ pc[r] = <<"default", "layers">> => Context(r, "default") = Empty
    /\ pc[r] = <<"default", "route">> => Context(r, "default") = [env |-> r, params |-> {}]
    /\ pc[r] \in {"api"} \X Steps => Context(r, "default") = Own(r)
    /\ pc[r] \in {"api"} \X {"layers", "authenticate", "route", "back"}
         => Context(r, "api") = Own(r)
    /\ \A m \in Muxes : pc[r] = <<m, "put">> => Context(r, m) = Empty

ContextInv == PooledClean /\ \A r \in Requests : Contexts(r)

Coming == {<<"net", "idle">>} \cup ({"default"} \X {"get", "enter", "layers", "route"})
            \cup ({"api"} \X {"get", "enter", "layers", "authenticate"})
Leaving == {"api"} \X {"back", "release", "put", "unset"}
Ending == {<<"net", "done">>} \cup ({"default"} \X {"release", "put", "unset"})

\* What is known of a request before its handler, at it and after it.
Course(r) ==
    /\ pc[r] \in Coming \cup {<<"api", "route">>} \cup Leaving \cup Ending
    /\ pc[r] \in Coming => ~verified[r] /\ user[r] = None /\ seen[r] = None /\ replies[r] = 0
    /\ pc[r] = <<"api", "route">> =>
         seen[r] = None /\ replies[r] = 0 /\ user[r] = IF verified[r] THEN r ELSE None
    /\ pc[r] \in Leaving \cup Ending => seen[r] = IF verified[r] THEN r ELSE None
    /\ pc[r] \in Leaving => replies[r] = 1
    /\ pc[r] \in Ending => replies[r] = 1 \/ (replies[r] = 2 /\ "api" \in struck[r])
    /\ path[r] = "tail" <=> pc[r] \in {"api"} \X {"authenticate", "route", "back"}

CourseInv == \A r \in Requests : Course(r)

\* The field of a stack in use is set, or another request has unset it.
InUse(r, m) == stack[r][m] # None /\ pc[r] \notin {<<m, "enter">>, <<m, "unset">>}
FieldInv == \A r \in Requests, m \in Muxes :
              InUse(r, m) => poolOf[stack[r][m]] \/ m \in struck[r]

-----------------------------------------------------------------------------
(* Types.                                                                    *)

\* Which stacks a request has, by its step.
HasStacks(r) ==
    /\ stack[r]["api"] # None <=> pc[r] \in {"api"} \X (Steps \ {"get"})
    /\ stack[r]["default"] # None <=>
         pc[r] \in ({"api"} \X Steps) \cup ({"default"} \X (Steps \ {"get"}))

\* Everything else of TypeOK.
PlaceTyped ==
    /\ pc \in [Requests -> (Muxes \X Steps) \cup ({"net"} \X {"idle", "done"})]
    /\ stack \in [Requests -> [Muxes -> Stacks \cup {None}]]

StackTyped ==
    /\ pool \in [Muxes -> SUBSET Stacks]
    /\ ctx \in [Stacks -> [env : Requests \cup {None}, params : SUBSET {"*"}]]
    /\ poolOf \in [Stacks -> BOOLEAN]

RequestTyped ==
    /\ path \in [Requests -> {"whole", "tail"}]
    /\ user \in [Requests -> Requests \cup {None}]
    /\ verified \in [Requests -> BOOLEAN]
    /\ seen \in [Requests -> Requests \cup {None}]
    /\ replies \in [Requests -> Nat]
    /\ struck \in [Requests -> SUBSET Muxes]

Typed == PlaceTyped /\ StackTyped /\ RequestTyped

LEMMA TypeParts == TypeOK <=> Typed /\ \A r \in Requests : HasStacks(r)
BY DEF TypeOK, Typed, PlaceTyped, StackTyped, RequestTyped, HasStacks

LEMMA InitType == Init => TypeOK
<1> SUFFICES ASSUME Init PROVE TypeOK
  OBVIOUS
<1>1. ASSUME NEW r \in Requests PROVE HasStacks(r)
  <2>1. pc[r] = <<"net", "idle">> /\ stack[r]["api"] = None /\ stack[r]["default"] = None
    BY DEF Init, Muxes
  <2>2. QED
    BY <2>1 DEF HasStacks
<1>2. Typed
  BY DEF Init, Typed, PlaceTyped, StackTyped, RequestTyped, Empty
<1>3. QED
  BY <1>1, <1>2, TypeParts

\* The steps of a request, one at a time.
LEMMA StepCases ==
  ASSUME NEW r \in Requests, Arrive(r) \/ Serve(r)
  PROVE  \/ Arrive(r) \/ RequestID(r) \/ route(r) \/ SubRouter(r) \/ Authenticate(r)
         \/ Handle(r) \/ Panic(r) \/ Back(r)
         \/ \E m \in Muxes : alloc(r, m) \/ Enter(r, m) \/ release(r, m) \/ Put(r, m) \/ Unset(r, m)
BY DEF Serve, InMux

LEMMA AnswerType ==
  ASSUME NEW r \in Requests, RequestTyped, Answer(r) \/ UNCHANGED replies
  PROVE  (replies \in [Requests -> Nat])'
BY DEF RequestTyped, Answer

LEMMA NextType == TypeOK /\ [Next]_vars => TypeOK'
<1> SUFFICES ASSUME Typed, \A q \in Requests : HasStacks(q), [Next]_vars
             PROVE  Typed' /\ \A q \in Requests : HasStacks(q)'
  BY DEF TypeOK, Typed, PlaceTyped, StackTyped, RequestTyped, HasStacks
<1>0. ASSUME NEW r \in Requests, pc[r] \in {"api"} \X {"authenticate", "route"}
      PROVE  Context(r, "api").env \in Requests \cup {None}
  <2>1. stack[r]["api"] \in Stacks
    BY <1>0 DEF Typed, PlaceTyped, HasStacks, Muxes, Steps
  <2>2. QED
    BY <2>1 DEF Typed, StackTyped, Context
<1>1. ASSUME NEW r \in Requests, Arrive(r)
      PROVE  Typed' /\ \A q \in Requests : HasStacks(q)'
  <2>1. PlaceTyped'
    BY <1>1 DEF Arrive, Goto, Typed, PlaceTyped, Muxes, Steps
  <2>2. StackTyped'
    BY <1>1 DEF Arrive, Goto, Typed, PlaceTyped, StackTyped, HasStacks, Muxes, Steps
  <2>3. RequestTyped'
    BY <1>1 DEF Arrive, Goto, Typed, PlaceTyped, RequestTyped
  <2>4. ASSUME NEW q \in Requests PROVE HasStacks(q)'
    BY <1>1 DEF Arrive, Goto, Typed, PlaceTyped, HasStacks, Muxes, Steps
  <2>5. QED
    BY <2>1, <2>2, <2>3, <2>4 DEF Typed
<1>2. ASSUME NEW r \in Requests, NEW m \in Muxes, alloc(r, m)
      PROVE  Typed' /\ \A q \in Requests : HasStacks(q)'
  <2>1. PICK s \in Stacks :
          /\ stack' = [stack EXCEPT ![r][m] = s]
          /\ pool' = pool \/ pool' = [pool EXCEPT ![m] = @ \ {s}]
          /\ ctx' = ctx \/ ctx' = [ctx EXCEPT ![s] = Empty]
          /\ poolOf' = poolOf \/ poolOf' = [poolOf EXCEPT ![s] = FALSE]
    BY <1>2 DEF alloc, Typed, StackTyped
  <2>2. PlaceTyped'
    BY <1>2, <2>1 DEF alloc, Goto, Typed, PlaceTyped, Steps
  <2>3. StackTyped'
    <3>1. (ctx \in [Stacks -> [env : Requests \cup {None}, params : SUBSET {"*"}]])'
      BY <2>1 DEF Typed, StackTyped, Empty
    <3>2. (pool \in [Muxes -> SUBSET Stacks])'
      BY <2>1 DEF Typed, StackTyped
    <3>3. (poolOf \in [Stacks -> BOOLEAN])'
      BY <2>1 DEF Typed, StackTyped
    <3>4. QED
      BY <3>1, <3>2, <3>3 DEF StackTyped
  <2>4. RequestTyped'
    BY <1>2 DEF alloc, Typed, RequestTyped
  <2>5. ASSUME NEW q \in Requests PROVE HasStacks(q)'
    BY <1>2, <2>1 DEF alloc, Goto, Typed, PlaceTyped, HasStacks, Muxes, Steps
  <2>6. QED
    BY <2>2, <2>3, <2>4, <2>5 DEF Typed
<1>3. ASSUME NEW r \in Requests, NEW m \in Muxes, Enter(r, m)
      PROVE  Typed' /\ \A q \in Requests : HasStacks(q)'
  <2>1. PlaceTyped'
    BY <1>3 DEF Enter, Goto, Context, Empty, Typed, PlaceTyped, Muxes, Steps
  <2>2. StackTyped'
    BY <1>3 DEF Enter, Goto, Context, Empty, Typed, PlaceTyped, StackTyped, HasStacks, Muxes, Steps
  <2>3. RequestTyped'
    BY <1>3 DEF Enter, Goto, Context, Empty, Typed, PlaceTyped, RequestTyped
  <2>4. ASSUME NEW q \in Requests PROVE HasStacks(q)'
    BY <1>3 DEF Enter, Goto, Context, Empty, Typed, PlaceTyped, HasStacks, Muxes, Steps
  <2>5. QED
    BY <2>1, <2>2, <2>3, <2>4 DEF Typed
<1>4. ASSUME NEW r \in Requests, NEW m \in Muxes, release(r, m)
      PROVE  Typed' /\ \A q \in Requests : HasStacks(q)'
  <2>1. PlaceTyped'
    <3>1. /\ pc' \in {[pc EXCEPT ![r] = x] : x \in {<<m, "put">>, <<"default", "release">>,
                                                    <<"net", "done">>}}
          /\ stack' = stack \/ stack' = [stack EXCEPT ![r][m] = None]
      BY <1>4 DEF release, After
    <3>2. QED
      BY <3>1 DEF Typed, PlaceTyped, Muxes, Steps
  <2>2. StackTyped'
    BY <1>4 DEF release, After, Empty, Typed, PlaceTyped, StackTyped, HasStacks, Muxes, Steps
  <2>3. RequestTyped'
    BY <1>4 DEF release, After, Empty, Typed, PlaceTyped, RequestTyped
  <2>4. ASSUME NEW q \in Requests PROVE HasStacks(q)'
    BY <1>4 DEF release, After, Empty, Typed, PlaceTyped, HasStacks, Muxes, Steps
  <2>5. QED
    BY <2>1, <2>2, <2>3, <2>4 DEF Typed
<1>5. ASSUME NEW r \in Requests, NEW m \in Muxes, Put(r, m)
      PROVE  Typed' /\ \A q \in Requests : HasStacks(q)'
  <2>1. PlaceTyped'
    <3>1. /\ pc' \in {[pc EXCEPT ![r] = x] : x \in {<<m, "unset">>, <<"default", "release">>,
                                                    <<"net", "done">>}}
          /\ stack' = stack \/ stack' = [stack EXCEPT ![r][m] = None]
      BY <1>5 DEF Put, Goto, Recovered
    <3>2. QED
      BY <3>1 DEF Typed, PlaceTyped, Muxes, Steps
  <2>2. StackTyped'
    <3>1. CASE pool' = pool
      BY <1>5, <3>1 DEF Put, Typed, StackTyped
    <3>2. CASE pool' # pool
      <4>1. pc[r] = <<m, "put">> /\ stack[r][m] \in Stacks
        BY <1>5 DEF Put, Goto, Typed, PlaceTyped, HasStacks, Muxes, Steps
      <4>2. QED
        BY <1>5, <3>2, <4>1 DEF Put, Typed, StackTyped
    <3>3. QED
      BY <3>1, <3>2
  <2>3. RequestTyped'
    <3>1. (replies \in [Requests -> Nat])'
      BY <1>5, AnswerType DEF Put, Recovered, Typed
    <3>2. QED
      BY <1>5, <3>1 DEF Put, Typed, RequestTyped
  <2>4. ASSUME NEW q \in Requests PROVE HasStacks(q)'
    BY <1>5 DEF Put, Goto, Recovered, Typed, PlaceTyped, HasStacks, Muxes, Steps
  <2>5. QED
    BY <2>1, <2>2, <2>3, <2>4 DEF Typed
<1>6. ASSUME NEW r \in Requests, NEW m \in Muxes, Unset(r, m)
      PROVE  Typed' /\ \A q \in Requests : HasStacks(q)'
  <2>1. PlaceTyped'
    BY <1>6 DEF Unset, Goto, After, Typed, PlaceTyped, Muxes, Steps
  <2>2. StackTyped'
    BY <1>6 DEF Unset, Goto, After, Typed, PlaceTyped, StackTyped, HasStacks, Muxes, Steps
  <2>3. RequestTyped'
    BY <1>6 DEF Unset, Goto, After, Typed, PlaceTyped, RequestTyped
  <2>4. ASSUME NEW q \in Requests PROVE HasStacks(q)'
    BY <1>6 DEF Unset, Goto, After, Typed, PlaceTyped, HasStacks, Muxes, Steps
  <2>5. QED
    BY <2>1, <2>2, <2>3, <2>4 DEF Typed
<1>7. ASSUME NEW r \in Requests, RequestID(r)
      PROVE  Typed' /\ \A q \in Requests : HasStacks(q)'
  <2>1. PlaceTyped'
    BY <1>7 DEF RequestID, Goto, Context, Typed, PlaceTyped, Muxes, Steps
  <2>2. StackTyped'
    BY <1>7 DEF RequestID, Goto, Context, Typed, PlaceTyped, StackTyped, HasStacks, Muxes, Steps
  <2>3. RequestTyped'
    BY <1>7 DEF RequestID, Goto, Context, Typed, PlaceTyped, RequestTyped
  <2>4. ASSUME NEW q \in Requests PROVE HasStacks(q)'
    BY <1>7 DEF RequestID, Goto, Context, Typed, PlaceTyped, HasStacks, Muxes, Steps
  <2>5. QED
    BY <2>1, <2>2, <2>3, <2>4 DEF Typed
<1>8. ASSUME NEW r \in Requests, route(r)
      PROVE  Typed' /\ \A q \in Requests : HasStacks(q)'
  <2>1. PlaceTyped'
    BY <1>8 DEF route, Goto, Typed, PlaceTyped, Muxes, Steps
  <2>2. StackTyped'
    <3>1. CASE ctx' = ctx
      BY <1>8, <3>1 DEF route, Typed, StackTyped
    <3>2. CASE ctx' = [ctx EXCEPT ![stack[r]["default"]].params = {"*"}]
      BY <1>8, <3>2 DEF route, Typed, StackTyped
    <3>3. QED
      BY <1>8, <3>1, <3>2 DEF route
  <2>3. RequestTyped'
    BY <1>8 DEF route, Answer, Typed, RequestTyped
  <2>4. ASSUME NEW q \in Requests PROVE HasStacks(q)'
    BY <1>8 DEF route, Goto, Typed, PlaceTyped, HasStacks, Muxes, Steps
  <2>5. QED
    BY <2>1, <2>2, <2>3, <2>4 DEF Typed
<1>9. ASSUME NEW r \in Requests, SubRouter(r)
      PROVE  Typed' /\ \A q \in Requests : HasStacks(q)'
  <2>1. PlaceTyped'
    BY <1>9 DEF SubRouter, Goto, Typed, PlaceTyped, Muxes, Steps
  <2>2. StackTyped'
    BY <1>9 DEF SubRouter, Goto, Typed, PlaceTyped, StackTyped, HasStacks, Muxes, Steps
  <2>3. RequestTyped'
    BY <1>9 DEF SubRouter, Goto, Typed, PlaceTyped, RequestTyped
  <2>4. ASSUME NEW q \in Requests PROVE HasStacks(q)'
    BY <1>9 DEF SubRouter, Goto, Typed, PlaceTyped, HasStacks, Muxes, Steps
  <2>5. QED
    BY <2>1, <2>2, <2>3, <2>4 DEF Typed
<1>10. ASSUME NEW r \in Requests, Authenticate(r)
      PROVE  Typed' /\ \A q \in Requests : HasStacks(q)'
  <2>1. PlaceTyped'
    BY <1>10 DEF Authenticate, authenticate, Recovered, Goto, Typed, PlaceTyped, Muxes, Steps
  <2>2. StackTyped'
    BY <1>10 DEF Authenticate, Typed, StackTyped
  <2>3. RequestTyped'
    <3>1. (replies \in [Requests -> Nat])'
      BY <1>10, AnswerType DEF Authenticate, authenticate, Recovered, Typed
    <3>2. (user \in [Requests -> Requests \cup {None}])'
      BY <1>10 DEF Authenticate, authenticate, WriteUser, Typed, RequestTyped
    <3>3. (verified \in [Requests -> BOOLEAN])'
      BY <1>10 DEF Authenticate, authenticate, Typed, RequestTyped
    <3>4. QED
      BY <1>10, <3>1, <3>2, <3>3 DEF Authenticate, Restore, Typed, RequestTyped
  <2>4. ASSUME NEW q \in Requests PROVE HasStacks(q)'
    BY <1>10 DEF Authenticate, authenticate, Recovered, Goto, Typed, PlaceTyped, HasStacks, Muxes,
                 Steps
  <2>5. QED
    BY <2>1, <2>2, <2>3, <2>4 DEF Typed
<1>11. ASSUME NEW r \in Requests, Handle(r)
      PROVE  Typed' /\ \A q \in Requests : HasStacks(q)'
  <2>1. PlaceTyped'
    BY <1>11 DEF Handle, Goto, Typed, PlaceTyped, Muxes, Steps
  <2>2. StackTyped'
    BY <1>11 DEF Handle, Typed, StackTyped
  <2>3. RequestTyped'
    <3>1. Context(r, "api").env \in Requests \cup {None}
      BY <1>0, <1>11 DEF Handle, Goto
    <3>2. (seen \in [Requests -> Requests \cup {None}])'
      BY <1>11, <3>1 DEF Handle, Lookup, Typed, RequestTyped
    <3>3. (replies \in [Requests -> Nat])'
      BY <1>11, AnswerType DEF Handle, Typed
    <3>4. QED
      BY <1>11, <3>2, <3>3 DEF Handle, Typed, RequestTyped
  <2>4. ASSUME NEW q \in Requests PROVE HasStacks(q)'
    BY <1>11 DEF Handle, Goto, Typed, PlaceTyped, HasStacks, Muxes, Steps
  <2>5. QED
    BY <2>1, <2>2, <2>3, <2>4 DEF Typed
<1>12. ASSUME NEW r \in Requests, Panic(r)
      PROVE  Typed' /\ \A q \in Requests : HasStacks(q)'
  <2>1. PlaceTyped'
    BY <1>12 DEF Panic, Recovered, Goto, Typed, PlaceTyped, Muxes, Steps
  <2>2. StackTyped'
    BY <1>12 DEF Panic, Typed, StackTyped
  <2>3. RequestTyped'
    <3>1. Context(r, "api").env \in Requests \cup {None}
      BY <1>0, <1>12 DEF Panic, Recovered, Goto
    <3>2. (seen \in [Requests -> Requests \cup {None}])'
      BY <1>12, <3>1 DEF Panic, Lookup, Typed, RequestTyped
    <3>3. (replies \in [Requests -> Nat])'
      BY <1>12, AnswerType DEF Panic, Recovered, Typed
    <3>4. QED
      BY <1>12, <3>2, <3>3 DEF Panic, Restore, Typed, RequestTyped
  <2>4. ASSUME NEW q \in Requests PROVE HasStacks(q)'
    BY <1>12 DEF Panic, Recovered, Goto, Typed, PlaceTyped, HasStacks, Muxes, Steps
  <2>5. QED
    BY <2>1, <2>2, <2>3, <2>4 DEF Typed
<1>13. ASSUME NEW r \in Requests, Back(r)
      PROVE  Typed' /\ \A q \in Requests : HasStacks(q)'
  <2>1. PlaceTyped'
    BY <1>13 DEF Back, Restore, Goto, Typed, PlaceTyped, Muxes, Steps
  <2>2. StackTyped'
    BY <1>13 DEF Back, Restore, Goto, Typed, PlaceTyped, StackTyped, HasStacks, Muxes, Steps
  <2>3. RequestTyped'
    BY <1>13 DEF Back, Restore, Goto, Typed, PlaceTyped, RequestTyped
  <2>4. ASSUME NEW q \in Requests PROVE HasStacks(q)'
    BY <1>13 DEF Back, Restore, Goto, Typed, PlaceTyped, HasStacks, Muxes, Steps
  <2>5. QED
    BY <2>1, <2>2, <2>3, <2>4 DEF Typed
<1>14. ASSUME NEW m \in Muxes, Forget(m)
      PROVE  Typed' /\ \A q \in Requests : HasStacks(q)'
  BY <1>14 DEF Forget, Typed, PlaceTyped, StackTyped, RequestTyped, HasStacks
<1>15. CASE UNCHANGED vars
  BY <1>15 DEF vars, Typed, PlaceTyped, StackTyped, RequestTyped, HasStacks
<1>16. QED
  BY <1>1, <1>2, <1>3, <1>4, <1>5, <1>6, <1>7, <1>8,
     <1>9, <1>10, <1>11, <1>12, <1>13, <1>14, <1>15, StepCases DEF Next

-----------------------------------------------------------------------------
(* What a step leaves alone.                                                 *)

\* At a step that reads or writes a context its stack is held.
LEMMA StepHolds ==
  ASSUME TypeOK, NEW r \in Requests
  PROVE  /\ \A m \in Muxes : pc[r] \in {m} \X (Steps \ {"get", "unset"}) => Holds(r, m)
         /\ pc[r] \in {"api"} \X Steps => Holds(r, "default")
         /\ \A m \in Muxes : Holds(r, m) => stack[r][m] \in Stacks \cap Taken
<1>1. HasStacks(r) /\ PlaceTyped
  BY DEF TypeOK, HasStacks, PlaceTyped
<1>2. QED
  BY <1>1 DEF HasStacks, PlaceTyped, Holds, Muxes, Steps, Taken

\* A step of one request is no step of another.
LEMMA OthersStay ==
  ASSUME TypeOK, ContextInv, NEW r \in Requests, Arrive(r) \/ Serve(r), NEW q \in Requests \ {r}
  PROVE  /\ pc'[q] = pc[q] /\ stack'[q] = stack[q] /\ path'[q] = path[q]
         /\ user'[q] = user[q] /\ verified'[q] = verified[q] /\ seen'[q] = seen[q]
         /\ replies'[q] = replies[q]
<1> DEFINE Stays == /\ pc'[q] = pc[q] /\ stack'[q] = stack[q] /\ path'[q] = path[q]
                    /\ user'[q] = user[q] /\ verified'[q] = verified[q] /\ seen'[q] = seen[q]
                    /\ replies'[q] = replies[q]
<1>0. PlaceTyped /\ RequestTyped
  BY DEF TypeOK, PlaceTyped, RequestTyped
<1>1. CASE Arrive(r) \/ Back(r) \/ SubRouter(r) \/ RequestID(r)
  BY <1>0, <1>1 DEF Arrive, Back, Restore, SubRouter, RequestID, Goto, PlaceTyped, RequestTyped
<1>2. CASE route(r)
  BY <1>0, <1>2 DEF route, Answer, Goto, PlaceTyped, RequestTyped
<1>3. CASE Authenticate(r)
  <2>1. pc[r] = <<"api", "authenticate">>
    BY <1>3 DEF Authenticate, authenticate, Recovered, Goto
  <2>2. Context(r, "api").env = r
    BY <2>1 DEF ContextInv, Contexts, Own
  <2>3. user'[q] = user[q]
    BY <1>0, <1>3, <2>2 DEF Authenticate, authenticate, WriteUser, RequestTyped
  <2>4. QED
    BY <1>0, <1>3, <2>3 DEF Authenticate, authenticate, Recovered, Restore, Answer, Goto, PlaceTyped,
                            RequestTyped
<1>4. CASE Handle(r)
  BY <1>0, <1>4 DEF Handle, Lookup, Answer, Goto, PlaceTyped, RequestTyped
<1>5. CASE Panic(r)
  BY <1>0, <1>5 DEF Panic, Recovered, Lookup, Restore, Answer, Goto, PlaceTyped, RequestTyped
<1>6. ASSUME NEW m \in Muxes, alloc(r, m) \/ Enter(r, m) \/ Unset(r, m) PROVE Stays
  BY <1>0, <1>6 DEF alloc, Enter, Unset, Goto, PlaceTyped, RequestTyped
<1>7. ASSUME NEW m \in Muxes, release(r, m) PROVE Stays
  BY <1>0, <1>7 DEF release, PlaceTyped, RequestTyped
<1>8. ASSUME NEW m \in Muxes, Put(r, m) PROVE Stays
  BY <1>0, <1>8 DEF Put, Recovered, Answer, Goto, PlaceTyped, RequestTyped
<1>9. QED
  BY <1>1, <1>2, <1>3, <1>4, <1>5, <1>6, <1>7, <1>8, StepCases

\* Only alloc takes a stack; the others keep or leave what the request holds,
\* and only Put fills a pool, with a stack that the request then holds no more.
LEMMA HoldsShrink ==
  ASSUME TypeOK, NEW r \in Requests, Arrive(r) \/ Serve(r), \A m \in Muxes : ~alloc(r, m)
  PROVE  /\ \A m \in Muxes : Holds(r, m)' => Holds(r, m) /\ stack'[r][m] = stack[r][m]
         /\ \/ pool' = pool
            \/ \E m \in Muxes : /\ Put(r, m) /\ Holds(r, m) /\ ~Holds(r, m)'
                               /\ pool' = [pool EXCEPT ![m] = @ \cup {stack[r][m]}]
<1> DEFINE Shrink == \A m \in Muxes : Holds(r, m)' => Holds(r, m) /\ stack'[r][m] = stack[r][m]
<1>0. PlaceTyped /\ HasStacks(r)
  BY DEF TypeOK, PlaceTyped, HasStacks
<1>1. CASE Arrive(r) \/ Back(r) \/ SubRouter(r) \/ RequestID(r) \/ Handle(r) \/ Authenticate(r)
  BY <1>0, <1>1 DEF Arrive, Back, SubRouter, RequestID, Handle, Authenticate, authenticate, Recovered,
                    Goto, PlaceTyped, HasStacks, Holds, Muxes
<1>2. CASE route(r)
  BY <1>0, <1>2 DEF route, Goto, PlaceTyped, HasStacks, Holds, Muxes
<1>3. CASE Panic(r)
  BY <1>0, <1>3 DEF Panic, Recovered, Goto, PlaceTyped, HasStacks, Holds, Muxes
<1>4. ASSUME NEW m \in Muxes, Enter(r, m) PROVE Shrink /\ pool' = pool
  BY <1>0, <1>4 DEF Enter, Goto, PlaceTyped, HasStacks, Holds, Muxes
<1>5. ASSUME NEW m \in Muxes, Unset(r, m) PROVE Shrink /\ pool' = pool
  BY <1>0, <1>5 DEF Unset, Goto, After, PlaceTyped, HasStacks, Holds, Muxes
<1>6. ASSUME NEW m \in Muxes, release(r, m) PROVE Shrink /\ pool' = pool
  BY <1>0, <1>6 DEF release, After, PlaceTyped, HasStacks, Holds, Muxes
<1>7. ASSUME NEW m \in Muxes, Put(r, m)
      PROVE  /\ Shrink
             /\ \/ pool' = pool
                \/ /\ Holds(r, m) /\ ~Holds(r, m)'
                   /\ pool' = [pool EXCEPT ![m] = @ \cup {stack[r][m]}]
  <2>1. pc[r] = <<m, "put">> /\ Holds(r, m)
    BY <1>7, StepHolds DEF Put, Goto, Muxes, Steps
  <2>2. CASE poolOf[stack[r][m]]
    <3>1. /\ pc' = [pc EXCEPT ![r] = <<m, "unset">>] /\ stack' = stack
          /\ pool' = [pool EXCEPT ![m] = @ \cup {stack[r][m]}]
      BY <1>7, <2>2 DEF Put, Goto
    <3>2. QED
      BY <1>0, <2>1, <3>1 DEF PlaceTyped, Holds, Muxes
  <2>3. CASE ~poolOf[stack[r][m]]
    <3>1. /\ pc'[r] \in {<<"default", "release">>, <<"net", "done">>}
          /\ stack' = [stack EXCEPT ![r][m] = None] /\ pool' = pool
      BY <1>0, <1>7, <2>3 DEF Put, Recovered, Goto, PlaceTyped
    <3>2. QED
      BY <1>0, <2>1, <3>1 DEF PlaceTyped, HasStacks, Holds, Muxes
  <2>4. QED
    BY <2>2, <2>3
<1>8. QED
  BY <1>1, <1>2, <1>3, <1>4, <1>5, <1>6, <1>7, StepCases

\* A context changes in a stack that the request holds, or in a new one.
LEMMA ContextsStay ==
  ASSUME TypeOK, NEW r \in Requests, Arrive(r) \/ Serve(r),
         NEW s \in Stacks, s \in Taken \cup Pooled, \A m \in Muxes : Holds(r, m) => s # stack[r][m]
  PROVE  ctx'[s] = ctx[s]
<1>0. StackTyped
  BY DEF TypeOK, StackTyped
<1>1. CASE \/ Arrive(r) \/ SubRouter(r) \/ Authenticate(r) \/ Handle(r) \/ Panic(r) \/ Back(r)
           \/ \E m \in Muxes : Put(r, m) \/ Unset(r, m)
  BY <1>1 DEF Arrive, SubRouter, Authenticate, Handle, Panic, Back, Put, Unset
<1>2. ASSUME NEW m \in Muxes, alloc(r, m) PROVE ctx'[s] = ctx[s]
  BY <1>0, <1>2 DEF alloc, StackTyped
<1>3. ASSUME NEW m \in Muxes, Enter(r, m) \/ release(r, m) PROVE ctx'[s] = ctx[s]
  <2>1. pc[r] = <<m, "enter">> \/ pc[r] = <<m, "release">>
    BY <1>3 DEF Enter, release, Goto
  <2>2. s # stack[r][m]
    <3>1. Holds(r, m)
      BY <2>1, StepHolds DEF Muxes, Steps
    <3>2. QED
      BY <3>1
  <2>3. QED
    BY <1>0, <1>3, <2>2 DEF Enter, release, StackTyped
<1>4. CASE RequestID(r) \/ route(r)
  <2>1. pc[r] \in {"default"} \X (Steps \ {"get", "unset"})
    BY <1>4 DEF RequestID, route, Goto, Steps
  <2>2. s # stack[r]["default"]
    BY <2>1, StepHolds DEF Muxes
  <2>3. QED
    BY <1>0, <1>4, <2>2 DEF RequestID, route, StackTyped
<1>5. QED
  BY <1>1, <1>2, <1>3, <1>4, StepCases

-----------------------------------------------------------------------------
(* Stacks.                                                                   *)

LEMMA InitStack == Init => StackInv
BY DEF Init, StackInv, Holds, Pooled, Muxes

LEMMA AllocKeepsStack ==
  ASSUME TypeOK, ContextInv, StackInv, NEW r \in Requests, NEW m \in Muxes, alloc(r, m)
  PROVE  StackInv'
<1>0. PlaceTyped /\ StackTyped /\ PlaceTyped'
  BY NextType DEF TypeOK, PlaceTyped, StackTyped, Next, Serve, InMux
<1>1. PICK s \in Stacks :
        /\ stack' = [stack EXCEPT ![r][m] = s]
        /\ \/ s \in pool[m] /\ pool' = [pool EXCEPT ![m] = @ \ {s}]
           \/ s \notin Taken \cup Pooled /\ pool' = pool
  BY <1>0 DEF alloc, StackTyped
<1>2. \A q \in Requests, n \in Muxes :
        Holds(q, n)' => (Holds(q, n) /\ stack'[q][n] = stack[q][n]) \/ (q = r /\ n = m)
  BY <1>0, <1>1 DEF alloc, Goto, Holds, PlaceTyped, Muxes
<1>3. stack'[r][m] = s
  BY <1>0, <1>1 DEF PlaceTyped
<1>4. \A q \in Requests, n \in Muxes : Holds(q, n) => stack[q][n] # s
  BY <1>1 DEF StackInv, Taken, Pooled
<1>5. s \notin Pooled'
  BY <1>0, <1>1 DEF StackInv, Pooled, StackTyped, Muxes
<1>6. Pooled' \subseteq Pooled /\ (pool["default"] \cap pool["api"] = {})'
  BY <1>0, <1>1 DEF StackInv, Pooled, StackTyped, Muxes
<1>7. ASSUME NEW q \in Requests, NEW p \in Requests, NEW k \in Muxes, NEW n \in Muxes,
             Holds(q, k)', Holds(p, n)', stack'[q][k] = stack'[p][n]
      PROVE  q = p /\ k = n
  BY <1>2, <1>3, <1>4, <1>7 DEF StackInv
<1>8. ASSUME NEW q \in Requests, NEW k \in Muxes, Holds(q, k)' PROVE stack'[q][k] \notin Pooled'
  BY <1>2, <1>3, <1>5, <1>6, <1>8 DEF StackInv
<1>9. QED
  BY <1>6, <1>7, <1>8 DEF StackInv

LEMMA StepKeepsStack ==
  ASSUME TypeOK, ContextInv, StackInv, NEW r \in Requests, Arrive(r) \/ Serve(r),
         \A m \in Muxes : ~alloc(r, m)
  PROVE  StackInv'
<1>0. StackTyped
  BY DEF TypeOK, StackTyped
<1>1. \A q \in Requests, n \in Muxes :
        Holds(q, n)' => Holds(q, n) /\ stack'[q][n] = stack[q][n]
  BY HoldsShrink, OthersStay DEF Holds
<1>2. \A q, p \in Requests, k, n \in Muxes :
        Holds(q, k)' /\ Holds(p, n)' /\ stack'[q][k] = stack'[p][n] => q = p /\ k = n
  BY <1>1 DEF StackInv
<1>3. CASE pool' = pool
  BY <1>1, <1>2, <1>3 DEF StackInv, Pooled
<1>4. ASSUME NEW m \in Muxes, Holds(r, m), ~Holds(r, m)',
             pool' = [pool EXCEPT ![m] = @ \cup {stack[r][m]}]
      PROVE  StackInv'
  <2>1. Pooled' \subseteq Pooled \cup {stack[r][m]}
    BY <1>0, <1>4 DEF StackTyped, Pooled
  <2>2. \A q \in Requests, n \in Muxes : Holds(q, n)' => stack'[q][n] # stack[r][m]
    BY <1>1, <1>4 DEF StackInv
  <2>3. (pool["default"] \cap pool["api"] = {})'
    BY <1>0, <1>4 DEF StackInv, StackTyped, Pooled, Muxes
  <2>4. QED
    BY <1>1, <1>2, <2>1, <2>2, <2>3 DEF StackInv
<1>5. QED
  BY <1>3, <1>4, HoldsShrink

LEMMA NextStack == TypeOK /\ ContextInv /\ StackInv /\ [Next]_vars => StackInv'
<1> SUFFICES ASSUME TypeOK, ContextInv, StackInv, [Next]_vars PROVE StackInv'
  OBVIOUS
<1>1. ASSUME NEW m \in Muxes, Forget(m) PROVE StackInv'
  <2>1. PICK s \in pool[m] : pool' = [pool EXCEPT ![m] = @ \ {s}]
    BY <1>1 DEF Forget
  <2>2. Pooled' \subseteq Pooled /\ (pool["default"] \cap pool["api"] = {})'
    BY <2>1 DEF StackInv, TypeOK, Pooled, Muxes
  <2>3. pc' = pc /\ stack' = stack
    BY <1>1 DEF Forget
  <2>4. QED
    BY <2>2, <2>3 DEF StackInv, Holds
<1>2. CASE UNCHANGED vars
  BY <1>2 DEF vars, StackInv, Holds, Pooled
<1>3. QED
  BY <1>1, <1>2, AllocKeepsStack, StepKeepsStack DEF Next

-----------------------------------------------------------------------------
(* Contexts.                                                                 *)

LEMMA InitContext == Init => ContextInv
BY DEF Init, ContextInv, PooledClean, Pooled, Contexts, Muxes

LEMMA StepKeepsPooledClean ==
  ASSUME TypeOK, StackInv, ContextInv, NEW r \in Requests, Arrive(r) \/ Serve(r)
  PROVE  PooledClean'
<1> SUFFICES ASSUME NEW s, s \in Pooled' PROVE ctx'[s] = Empty
  BY DEF PooledClean, Empty
<1>0. StackTyped
  BY DEF TypeOK, StackTyped
<1>1. CASE s \in Pooled
  <2>1. s \in Stacks
    BY <1>0, <1>1 DEF StackTyped, Pooled
  <2>2. ctx'[s] = ctx[s]
    BY <1>1, <2>1, ContextsStay DEF StackInv
  <2>3. QED
    BY <1>1, <2>2 DEF ContextInv, PooledClean
<1>2. CASE s \notin Pooled
  <2>1. ASSUME NEW m \in Muxes, alloc(r, m) PROVE FALSE
    BY <1>0, <1>2, <2>1 DEF alloc, StackTyped, Pooled
  <2>2. pool' # pool
    BY <1>2 DEF Pooled
  <2>3. PICK m \in Muxes : Put(r, m) /\ pool' = [pool EXCEPT ![m] = @ \cup {stack[r][m]}]
    BY <2>1, <2>2, HoldsShrink
  <2>4. s = stack[r][m]
    BY <1>0, <1>2, <2>3 DEF StackTyped, Pooled
  <2>5. ctx' = ctx /\ pc[r] = <<m, "put">>
    BY <2>3 DEF Put, Goto
  <2>6. QED
    BY <2>4, <2>5 DEF ContextInv, Contexts, Context
<1>3. QED
  BY <1>1, <1>2

LEMMA OthersKeepContexts ==
  ASSUME TypeOK, StackInv, ContextInv, NEW r \in Requests, Arrive(r) \/ Serve(r),
         NEW q \in Requests \ {r}
  PROVE  Contexts(q)'
<1>1. ASSUME NEW m \in Muxes, Holds(q, m) PROVE Context(q, m)' = Context(q, m)
  <2>1. stack[q][m] \in Stacks \cap Taken
    BY <1>1, StepHolds
  <2>2. \A n \in Muxes : Holds(r, n) => stack[q][m] # stack[r][n]
    BY <1>1 DEF StackInv
  <2>3. ctx'[stack[q][m]] = ctx[stack[q][m]]
    BY <2>1, <2>2, ContextsStay
  <2>4. QED
    BY <2>3, OthersStay DEF Context
<1>2. pc'[q] = pc[q] /\ Contexts(q)
  BY OthersStay DEF ContextInv
<1>3. /\ pc[q] = <<"default", "layers">> => Context(q, "default")' = Empty
      /\ pc[q] = <<"default", "route">> => Context(q, "default")' = [env |-> q, params |-> {}]
  BY <1>1, <1>2, StepHolds DEF Contexts, Muxes, Steps
<1>4. pc[q] \in {"api"} \X Steps => Context(q, "default")' = Own(q)
  BY <1>1, <1>2, StepHolds DEF Contexts, Muxes
<1>5. pc[q] \in {"api"} \X {"layers", "authenticate", "route", "back"}
        => Context(q, "api")' = Own(q)
  BY <1>1, <1>2, StepHolds DEF Contexts, Muxes, Steps
<1>6. ASSUME NEW m \in Muxes, pc[q] = <<m, "put">> PROVE Context(q, m)' = Empty
  BY <1>1, <1>2, <1>6, StepHolds DEF Contexts, Muxes, Steps
<1>7. QED
  BY <1>2, <1>3, <1>4, <1>5, <1>6 DEF Contexts, Own, Empty

LEMMA StepKeepsContexts ==
  ASSUME TypeOK, StackInv, ContextInv, NEW r \in Requests, Arrive(r) \/ Serve(r)
  PROVE  Contexts(r)'
<1>0. PlaceTyped /\ StackTyped /\ HasStacks(r) /\ Contexts(r)
  BY DEF TypeOK, PlaceTyped, StackTyped, HasStacks, ContextInv
<1>1. ASSUME pc' = [pc EXCEPT ![r] = <<"default", "get">>]
             \/ pc' = [pc EXCEPT ![r] = <<"default", "release">>]
      PROVE  Contexts(r)'
  BY <1>0, <1>1 DEF PlaceTyped, Contexts, Muxes
<1>2. CASE SubRouter(r) \/ Handle(r) \/ Back(r) \/ (Authenticate(r) /\ authenticate(r))
  <2>1. /\ pc[r] \in {"api"} \X {"layers", "authenticate", "route", "back"}
        /\ pc'[r] \in {"api"} \X {"authenticate", "route", "back", "release"}
        /\ ctx' = ctx /\ stack' = stack
    BY <1>0, <1>2 DEF SubRouter, Authenticate, authenticate, Recovered, Handle, Back, Goto, PlaceTyped
  <2>2. QED
    BY <1>0, <2>1 DEF Contexts, Context, Own, Empty, Steps
<1>3. CASE RequestID(r)
  <2>1. /\ pc[r] = <<"default", "layers">> /\ Context(r, "default") = Empty
        /\ stack[r]["default"] \in Stacks
    BY <1>0, <1>3, StepHolds DEF RequestID, Goto, Contexts, Muxes, Steps
  <2>2. /\ pc' = [pc EXCEPT ![r] = <<"default", "route">>] /\ stack' = stack
        /\ ctx' = [ctx EXCEPT ![stack[r]["default"]].env = r]
    BY <1>3, <2>1 DEF RequestID, Goto, Empty
  <2>3. ctx'[stack[r]["default"]] = [Context(r, "default") EXCEPT !.env = r]
    BY <1>0, <2>1, <2>2 DEF StackTyped, Context
  <2>4. ctx'[stack[r]["default"]] = [env |-> r, params |-> {}]
    BY <2>1, <2>3 DEF Empty
  <2>5. pc'[r] = <<"default", "route">> /\ Context(r, "default")' = [env |-> r, params |-> {}]
    BY <1>0, <2>2, <2>4 DEF PlaceTyped, Context
  <2>6. QED
    BY <2>5 DEF Contexts, Muxes
<1>4. CASE route(r)
  <2>1. CASE pc' = [pc EXCEPT ![r] = <<"default", "release">>]
    BY <1>0, <2>1 DEF PlaceTyped, Contexts, Muxes
  <2>2. CASE pc' # [pc EXCEPT ![r] = <<"default", "release">>]
    <3>1. /\ pc' = [pc EXCEPT ![r] = <<"api", "get">>] /\ stack' = stack
          /\ ctx' = [ctx EXCEPT ![stack[r]["default"]].params = {"*"}]
          /\ pc[r] = <<"default", "route">>
      BY <1>4, <2>2 DEF route, Goto
    <3>2. stack[r]["default"] \in Stacks
      BY <1>0, <3>1 DEF HasStacks, PlaceTyped, Muxes, Steps
    <3>3. ctx'[stack[r]["default"]] = [Context(r, "default") EXCEPT !.params = {"*"}]
      BY <1>0, <3>1, <3>2 DEF StackTyped, Context
    <3>4. Context(r, "default") = [env |-> r, params |-> {}]
      BY <1>0, <3>1 DEF Contexts
    <3>5. ctx'[stack[r]["default"]] = Own(r)
      BY <3>3, <3>4 DEF Own
    <3>6. pc'[r] = <<"api", "get">> /\ Context(r, "default")' = Own(r)
      BY <1>0, <3>1, <3>5 DEF PlaceTyped, Context
    <3>7. QED
      BY <3>6 DEF Contexts, Muxes, Own
  <2>3. QED
    BY <2>1, <2>2
<1>5. ASSUME NEW m \in Muxes, alloc(r, m) PROVE Contexts(r)'
  <2>1. CASE m = "default"
    BY <1>0, <1>5, <2>1 DEF alloc, Goto, PlaceTyped, Contexts, Muxes
  <2>2. CASE m = "api"
    <3>1. pc[r] = <<"api", "get">> /\ pc'[r] = <<"api", "enter">>
      BY <1>0, <1>5, <2>2 DEF alloc, Goto, PlaceTyped
    <3>2. Context(r, "default") = Own(r) /\ stack[r]["default"] \in Stacks \cap Taken
      BY <1>0, <3>1, StepHolds DEF Contexts, Muxes, Steps
    <3>3. stack'[r]["default"] = stack[r]["default"]
      BY <1>0, <1>5, <2>2 DEF alloc, PlaceTyped, Muxes
    <3>4. ctx'[stack[r]["default"]] = ctx[stack[r]["default"]]
      BY <1>0, <1>5, <3>2 DEF alloc, StackTyped
    <3>5. Context(r, "default")' = Own(r)
      BY <3>2, <3>3, <3>4 DEF Context
    <3>6. QED
      BY <3>1, <3>5 DEF Contexts, Muxes, Own
  <2>3. QED
    BY <2>1, <2>2 DEF Muxes
<1>6. ASSUME NEW m \in Muxes, Enter(r, m) \/ release(r, m) \/ Put(r, m) \/ Unset(r, m),
             pc'[r] \notin {"api"} \X Steps
      PROVE  Contexts(r)'
  <2>1. /\ stack[r][m] \in Stacks
        /\ \/ Enter(r, m) /\ pc'[r] = <<m, "layers">>
           \/ release(r, m) /\ pc'[r] \in {<<m, "put">>, After(m)}
           \/ pc'[r] \in {<<m, "unset">>, After(m), <<"default", "release">>, <<"net", "done">>}
    BY <1>0, <1>6 DEF Enter, release, Put, Unset, Recovered, Goto, PlaceTyped, HasStacks, Muxes,
                      Steps
  <2>2. m = "default" \/ pc'[r] \in {<<"default", "release">>, <<"net", "done">>}
    BY <1>6, <2>1 DEF After, Muxes, Steps
  <2>3. CASE pc'[r] \in {<<"default", "release">>, <<"net", "done">>, <<"default", "unset">>}
    BY <2>3 DEF Contexts, Muxes
  <2>4. CASE m = "default" /\ Enter(r, m)
    <3>1. pc'[r] = <<"default", "layers">> /\ Context(r, "default")' = Empty
      BY <1>0, <2>1, <2>4 DEF Enter, Goto, PlaceTyped, StackTyped, Context, Empty
    <3>2. QED
      BY <3>1 DEF Contexts, Muxes, Empty
  <2>5. CASE m = "default" /\ release(r, m) /\ pc'[r] = <<"default", "put">>
    <3>1. stack' = stack /\ ctx' = [ctx EXCEPT ![stack[r]["default"]] = Empty]
      BY <1>0, <2>5 DEF release, After, PlaceTyped
    <3>2. Context(r, "default")' = Empty
      BY <1>0, <2>1, <2>5, <3>1 DEF StackTyped, Context, Empty
    <3>3. QED
      BY <2>5, <3>2 DEF Contexts, Muxes, Empty
  <2>6. QED
    BY <2>1, <2>2, <2>3, <2>4, <2>5 DEF After
<1>7. ASSUME NEW m \in Muxes, Enter(r, m) \/ release(r, m) \/ Put(r, m) \/ Unset(r, m),
             pc'[r] \in {"api"} \X Steps
      PROVE  Contexts(r)'
  <2>1. m = "api" /\ pc[r] \in {"api"} \X (Steps \ {"get", "unset"})
    BY <1>0, <1>7 DEF Enter, release, Put, Unset, Recovered, Goto, After, PlaceTyped, Muxes, Steps
  <2>2. Holds(r, "api") /\ Holds(r, "default")
    BY <2>1, StepHolds DEF Muxes, Steps
  <2>3. /\ stack[r]["api"] \in Stacks /\ stack[r]["default"] \in Stacks
        /\ stack[r]["api"] # stack[r]["default"]
    BY <2>2, StepHolds DEF StackInv, Muxes
  <2>4. Context(r, "default") = Own(r)
    BY <1>0, <2>1 DEF Contexts, Steps
  <2>5. /\ stack'[r] = stack[r]
        /\ \/ pc'[r] = <<"api", "layers">> /\ ctx' = [ctx EXCEPT ![stack[r]["api"]] = Own(r)]
           \/ pc'[r] = <<"api", "put">> /\ ctx' = [ctx EXCEPT ![stack[r]["api"]] = Empty]
           \/ pc'[r] = <<"api", "unset">> /\ ctx' = ctx
    BY <1>0, <1>7, <2>1, <2>4
       DEF Enter, release, Put, Unset, Recovered, Goto, After, PlaceTyped, Steps
  <2>6. Context(r, "default")' = Own(r)
    BY <1>0, <2>3, <2>4, <2>5 DEF StackTyped, Context
  <2>7. /\ pc'[r] = <<"api", "layers">> => Context(r, "api")' = Own(r)
        /\ pc'[r] = <<"api", "put">> => Context(r, "api")' = Empty
    BY <1>0, <2>3, <2>5 DEF StackTyped, Context
  <2>8. QED
    BY <2>5, <2>6, <2>7 DEF Contexts, Muxes, Own, Empty
<1>8. CASE Arrive(r) \/ Panic(r) \/ (Authenticate(r) /\ ~authenticate(r))
  BY <1>1, <1>8 DEF Arrive, Panic, Authenticate, Recovered, Goto
<1>9. QED
  BY <1>2, <1>3, <1>4, <1>5, <1>6, <1>7, <1>8, StepCases

LEMMA NextContext == TypeOK /\ StackInv /\ ContextInv /\ [Next]_vars => ContextInv'
<1> SUFFICES ASSUME TypeOK, StackInv, ContextInv, [Next]_vars PROVE ContextInv'
  OBVIOUS
<1>1. ASSUME NEW r \in Requests, Arrive(r) \/ Serve(r) PROVE ContextInv'
  BY <1>1, StepKeepsPooledClean, OthersKeepContexts, StepKeepsContexts DEF ContextInv
<1>2. ASSUME NEW m \in Muxes, Forget(m) PROVE ContextInv'
  <2>1. Pooled' \subseteq Pooled
    BY <1>2 DEF Forget, TypeOK, Pooled
  <2>2. UNCHANGED <<ctx, pc, stack>>
    BY <1>2 DEF Forget
  <2>3. QED
    BY <2>1, <2>2 DEF ContextInv, PooledClean, Contexts, Context, Own, Empty
<1>3. CASE UNCHANGED vars
  BY <1>3 DEF vars, ContextInv, PooledClean, Pooled, Contexts, Context, Own, Empty
<1>4. QED
  BY <1>1, <1>2, <1>3 DEF Next

-----------------------------------------------------------------------------
(* The course of a request.                                                  *)

LEMMA InitCourse == Init => CourseInv
<1> SUFFICES ASSUME Init, NEW r \in Requests PROVE Course(r)
  BY DEF CourseInv
<1>1. /\ pc[r] = <<"net", "idle">> /\ path[r] = "whole" /\ user[r] = None /\ ~verified[r]
      /\ seen[r] = None /\ replies[r] = 0
  BY DEF Init
<1>2. QED
  BY <1>1 DEF Course, Coming, Leaving, Ending

LEMMA StruckStays ==
  ASSUME NEW r \in Requests, Arrive(r) \/ Serve(r)
  PROVE  \A q \in Requests : struck[q] \subseteq struck'[q]
<1>1. ASSUME NEW m \in Muxes, Unset(r, m)
      PROVE  \A q \in Requests : struck[q] \subseteq struck'[q]
  BY <1>1 DEF Unset
<1>2. CASE \A m \in Muxes : ~Unset(r, m)
  <2>1. struck' = struck
    BY <1>2, StepCases DEF Arrive, RequestID, route, SubRouter, Authenticate, Handle, Panic, Back,
                           alloc, Enter, release, Put
  <2>2. QED
    BY <2>1
<1>3. QED
  BY <1>1, <1>2

LEMMA OthersKeepCourse ==
  ASSUME TypeOK, ContextInv, CourseInv, NEW r \in Requests, Arrive(r) \/ Serve(r),
         NEW q \in Requests \ {r}
  PROVE  Course(q)'
BY StruckStays, OthersStay DEF CourseInv, Course

LEMMA StepKeepsCourse ==
  ASSUME TypeOK, ContextInv, CourseInv, FieldInv, NEW r \in Requests, Arrive(r) \/ Serve(r)
  PROVE  Course(r)'
<1>0. PlaceTyped /\ RequestTyped /\ Course(r) /\ Contexts(r)
  BY DEF TypeOK, PlaceTyped, RequestTyped, CourseInv, ContextInv
<1>1. CASE Arrive(r)
  BY <1>0, <1>1 DEF Arrive, Goto, PlaceTyped, Course, Coming, Leaving, Ending
<1>2. CASE RequestID(r)
  BY <1>0, <1>2 DEF RequestID, Goto, PlaceTyped, RequestTyped, Course, Coming, Leaving, Ending
<1>3. CASE route(r)
  <2>1. /\ pc[r] = <<"default", "route">>
        /\ \/ pc'[r] = <<"api", "get">> /\ replies' = replies
           \/ pc'[r] = <<"default", "release">> /\ replies'[r] = replies[r] + 1
        /\ UNCHANGED <<path, user, verified, seen>>
    BY <1>0, <1>3 DEF route, Goto, Answer, PlaceTyped, RequestTyped
  <2>2. QED
    BY <1>0, <2>1 DEF Course, Coming, Leaving, Ending
<1>4. CASE SubRouter(r)
  <2>1. pc[r] = <<"api", "layers">> /\ pc'[r] = <<"api", "authenticate">>
    BY <1>0, <1>4 DEF SubRouter, Goto, PlaceTyped
  <2>2. "*" \in Context(r, "api").params
    BY <1>0, <2>1 DEF Contexts, Own
  <2>3. path'[r] = "tail" /\ UNCHANGED <<user, verified, seen, replies>>
    BY <1>0, <1>4, <2>2 DEF SubRouter, RequestTyped
  <2>4. QED
    BY <1>0, <2>1, <2>3 DEF Course, Coming, Leaving, Ending
<1>5. CASE Authenticate(r)
  <2>1. pc[r] = <<"api", "authenticate">>
    BY <1>5 DEF Authenticate, authenticate, Recovered, Goto
  <2>2. Context(r, "api").env = r
    BY <1>0, <2>1 DEF Contexts, Own
  <2>3. /\ \/ /\ pc'[r] = <<"api", "route">> /\ replies'[r] = replies[r] /\ path'[r] = path[r]
              /\ \/ user'[r] = user[r] /\ verified'[r] = verified[r]
                 \/ user'[r] = r /\ verified'[r] = TRUE
           \/ /\ replies'[r] = replies[r] + 1 /\ user'[r] = user[r] /\ verified'[r] = verified[r]
              /\ \/ pc'[r] = <<"api", "back">> /\ path'[r] = path[r]
                 \/ pc'[r] = <<"default", "release">> /\ path'[r] = "whole"
        /\ UNCHANGED seen
    BY <1>0, <1>5, <2>2
       DEF Authenticate, authenticate, Recovered, Restore, WriteUser, Goto, Answer, PlaceTyped,
           RequestTyped
  <2>4. QED
    BY <1>0, <2>1, <2>3 DEF Course, Coming, Leaving, Ending
<1>6. CASE Handle(r) \/ Panic(r)
  <2>1. pc[r] = <<"api", "route">>
    BY <1>6 DEF Handle, Panic, Recovered, Goto
  <2>2. Context(r, "api").env = r
    BY <1>0, <2>1 DEF Contexts, Own
  <2>3. seen'[r] = IF verified[r] THEN r ELSE None
    BY <1>0, <1>6, <2>1, <2>2 DEF Handle, Panic, Lookup, Course, RequestTyped
  <2>4. /\ \/ Handle(r) /\ pc'[r] = <<"api", "back">> /\ path'[r] = path[r]
           \/ Panic(r) /\ pc'[r] = <<"default", "release">> /\ path'[r] = "whole"
        /\ replies'[r] = replies[r] + 1 /\ verified'[r] = verified[r]
    BY <1>0, <1>6 DEF Handle, Panic, Recovered, Restore, Answer, Goto, PlaceTyped, RequestTyped
  <2>5. QED
    BY <1>0, <2>1, <2>3, <2>4 DEF Course, Coming, Leaving, Ending
<1>7. CASE Back(r)
  BY <1>0, <1>7 DEF Back, Restore, Goto, PlaceTyped, RequestTyped, Course, Coming, Leaving, Ending
<1>8. ASSUME NEW m \in Muxes, alloc(r, m) \/ Enter(r, m) PROVE Course(r)'
  <2>1. /\ pc[r] \in {<<m, "get">>, <<m, "enter">>} /\ pc'[r] \in {<<m, "enter">>, <<m, "layers">>}
        /\ UNCHANGED <<path, user, verified, seen, replies, struck>>
    BY <1>0, <1>8 DEF alloc, Enter, Goto, PlaceTyped
  <2>2. QED
    BY <1>0, <2>1 DEF Course, Coming, Leaving, Ending, Muxes
<1>9. ASSUME NEW m \in Muxes, release(r, m) \/ Unset(r, m) PROVE Course(r)'
  <2>1. /\ pc[r] \in {<<m, "release">>, <<m, "unset">>} /\ pc'[r] \in {<<m, "put">>, After(m)}
        /\ UNCHANGED <<path, user, verified, seen, replies>>
    BY <1>0, <1>9 DEF release, Unset, Goto, PlaceTyped
  <2>2. QED
    BY <1>0, <2>1, StruckStays DEF Course, Coming, Leaving, Ending, After, Muxes
<1>10. ASSUME NEW m \in Muxes, Put(r, m) PROVE Course(r)'
  <2>1. /\ pc[r] = <<m, "put">> /\ UNCHANGED <<path, user, verified, seen>>
        /\ \/ pc'[r] = <<m, "unset">> /\ replies' = replies
           \/ /\ m = "api" /\ pc'[r] = <<"default", "release">>
              /\ replies'[r] = replies[r] + 1 /\ ~poolOf[stack[r][m]]
           \/ m # "api" /\ pc'[r] = <<"net", "done">> /\ replies' = replies
        /\ struck' = struck
    BY <1>0, <1>10 DEF Put, Recovered, Answer, Goto, PlaceTyped, RequestTyped
  <2>2. m = "api" => InUse(r, m)
    BY <2>1 DEF TypeOK, InUse, Steps
  <2>3. m = "api" /\ ~poolOf[stack[r][m]] => "api" \in struck[r]
    BY <2>2 DEF FieldInv, Muxes
  <2>4. QED
    BY <1>0, <2>1, <2>3 DEF Course, Coming, Leaving, Ending, Muxes
<1>11. QED
  BY <1>1, <1>2, <1>3, <1>4, <1>5, <1>6, <1>7, <1>8, <1>9, <1>10, StepCases

LEMMA NextCourse == TypeOK /\ ContextInv /\ CourseInv /\ FieldInv /\ [Next]_vars => CourseInv'
<1> SUFFICES ASSUME TypeOK, ContextInv, CourseInv, FieldInv, [Next]_vars PROVE CourseInv'
  OBVIOUS
<1>1. ASSUME NEW r \in Requests, Arrive(r) \/ Serve(r) PROVE CourseInv'
  BY <1>1, OthersKeepCourse, StepKeepsCourse DEF CourseInv
<1>2. CASE UNCHANGED vars \/ \E m \in Muxes : Forget(m)
  BY <1>2 DEF vars, Forget, CourseInv, Course
<1>3. QED
  BY <1>1, <1>2 DEF Next

-----------------------------------------------------------------------------
(* The field pool.                                                           *)

LEMMA InitField == Init => FieldInv
BY DEF Init, FieldInv, InUse

\* A step unsets the field of a stack that nobody has, or of one whose users it
\* strikes.
LEMMA FieldsStay ==
  ASSUME TypeOK, NEW r \in Requests, Arrive(r) \/ Serve(r),
         NEW q \in Requests, NEW n \in Muxes, InUse(q, n),
         poolOf[stack[q][n]] \/ n \in struck[q]
  PROVE  poolOf'[stack[q][n]] \/ n \in struck'[q]
<1>0. PlaceTyped /\ StackTyped
  BY DEF TypeOK, PlaceTyped, StackTyped
<1>1. stack[q][n] \in Stacks \cap Taken
  BY <1>0 DEF InUse, PlaceTyped, Taken
<1>2. CASE \/ Arrive(r) \/ RequestID(r) \/ route(r) \/ SubRouter(r) \/ Authenticate(r)
           \/ Handle(r) \/ Panic(r) \/ Back(r) \/ \E m \in Muxes : release(r, m) \/ Put(r, m)
  <2>1. poolOf' = poolOf
    BY <1>2 DEF Arrive, RequestID, route, SubRouter, Authenticate, Handle, Panic, Back, release, Put
  <2>2. QED
    BY <2>1, StruckStays
<1>3. ASSUME NEW m \in Muxes, alloc(r, m) PROVE poolOf'[stack[q][n]] = poolOf[stack[q][n]]
  BY <1>0, <1>1, <1>3 DEF alloc, StackTyped
<1>4. ASSUME NEW m \in Muxes, Enter(r, m), poolOf[stack[q][n]] PROVE poolOf'[stack[q][n]]
  BY <1>0, <1>1, <1>4 DEF Enter, StackTyped
<1>5. ASSUME NEW m \in Muxes, Unset(r, m), poolOf[stack[q][n]]
      PROVE  poolOf'[stack[q][n]] \/ n \in struck'[q]
  <2>1. CASE stack[q][n] = stack[r][m]
    <3>1. Uses(q, n, stack[r][m])
      BY <2>1 DEF InUse, Uses
    <3>2. QED
      BY <1>5, <3>1 DEF Unset
  <2>2. CASE stack[q][n] # stack[r][m]
    BY <1>0, <1>1, <1>5, <2>2 DEF Unset, StackTyped
  <2>3. QED
    BY <2>1, <2>2
<1>6. QED
  BY <1>2, <1>3, <1>4, <1>5, StruckStays, StepCases

\* A request begins to use a stack by setting its field.
LEMMA UsesBegin ==
  ASSUME TypeOK, NEW r \in Requests, Arrive(r) \/ Serve(r), NEW n \in Muxes, InUse(r, n)'
  PROVE  \/ InUse(r, n) /\ stack'[r][n] = stack[r][n]
         \/ poolOf'[stack'[r][n]]
<1>0. PlaceTyped /\ StackTyped /\ HasStacks(r)
  BY DEF TypeOK, PlaceTyped, StackTyped, HasStacks
<1>1. ASSUME NEW m \in Muxes, alloc(r, m) PROVE InUse(r, n) /\ stack'[r][n] = stack[r][n]
  BY <1>0, <1>1 DEF alloc, Goto, InUse, PlaceTyped, Muxes
<1>2. CASE Enter(r, n)
  <2>1. stack[r][n] \in Stacks
    BY <1>0, <1>2 DEF Enter, Goto, HasStacks, PlaceTyped, Muxes, Steps
  <2>2. QED
    BY <1>0, <1>2, <2>1 DEF Enter, PlaceTyped, StackTyped
<1>3. CASE ~Enter(r, n) /\ \A m \in Muxes : ~alloc(r, m)
  <2>1. Holds(r, n) /\ stack'[r][n] = stack[r][n]
    BY <1>3, HoldsShrink DEF InUse, Holds
  <2>2. pc[r] # <<n, "enter">>
    <3>1. ASSUME NEW m \in Muxes, release(r, m) \/ Put(r, m) \/ Unset(r, m)
          PROVE  pc[r] # <<n, "enter">>
      BY <3>1 DEF release, Put, Unset, Recovered, Goto
    <3>2. ASSUME NEW m \in Muxes, Enter(r, m) PROVE pc[r] # <<n, "enter">>
      <4>1. m # n /\ pc[r] = <<m, "enter">>
        BY <1>3, <3>2 DEF Enter, Goto
      <4>2. QED
        BY <4>1
    <3>3. CASE \/ Arrive(r) \/ RequestID(r) \/ route(r) \/ SubRouter(r) \/ Authenticate(r)
               \/ Handle(r) \/ Panic(r) \/ Back(r)
      <4>1. CASE Arrive(r) \/ RequestID(r) \/ route(r) \/ SubRouter(r)
        BY <4>1 DEF Arrive, RequestID, route, SubRouter, Goto
      <4>2. CASE Authenticate(r)
        BY <4>2 DEF Authenticate, authenticate, Recovered, Goto
      <4>3. CASE Handle(r) \/ Panic(r) \/ Back(r)
        BY <4>3 DEF Handle, Panic, Recovered, Back, Goto
      <4>4. QED
        BY <3>3, <4>1, <4>2, <4>3
    <3>4. QED
      BY <1>3, <3>1, <3>2, <3>3, StepCases
  <2>3. QED
    BY <2>1, <2>2 DEF Holds, InUse
<1>4. QED
  BY <1>1, <1>2, <1>3

LEMMA NextField == TypeOK /\ ContextInv /\ FieldInv /\ [Next]_vars => FieldInv'
<1> SUFFICES ASSUME TypeOK, ContextInv, FieldInv, [Next]_vars PROVE FieldInv'
  OBVIOUS
<1>1. ASSUME NEW r \in Requests, Arrive(r) \/ Serve(r), NEW q \in Requests, NEW n \in Muxes, InUse(q, n)'
      PROVE  poolOf'[stack'[q][n]] \/ n \in struck'[q]
  <2>1. CASE q = r
    BY <1>1, <2>1, UsesBegin, FieldsStay DEF FieldInv
  <2>2. CASE q # r
    <3>1. InUse(q, n) /\ stack'[q][n] = stack[q][n]
      BY <1>1, <2>2, OthersStay DEF InUse
    <3>2. QED
      BY <1>1, <3>1, FieldsStay DEF FieldInv
  <2>3. QED
    BY <2>1, <2>2
<1>2. CASE UNCHANGED vars \/ \E m \in Muxes : Forget(m)
  BY <1>2 DEF vars, Forget, FieldInv, InUse
<1>3. QED
  BY <1>1, <1>2 DEF Next, FieldInv

-----------------------------------------------------------------------------
(* What follows.                                                             *)

LEMMA ApartFollows == TypeOK /\ StackInv /\ ContextInv /\ CourseInv => RequestsApart
<1> SUFFICES ASSUME TypeOK, StackInv, ContextInv, CourseInv PROVE RequestsApart
  OBVIOUS
<1>1. StackExclusive
  BY DEF StackInv, StackExclusive, Held, Holds
<1>2. ContextIsOwn
  <2> SUFFICES ASSUME NEW r \in Requests
               PROVE  /\ pc[r] \in {<<"default", "route">>} \cup ({"api"} \X Steps)
                           => Context(r, "default").env = r
                      /\ pc[r] \in {"api"} \X {"layers", "authenticate", "route", "back"}
                           => Context(r, "api") = Own(r)
    BY DEF ContextIsOwn, Own
  <2>1. Contexts(r)
    BY DEF ContextInv
  <2>2. QED
    BY <2>1 DEF Contexts, Own
<1>3. IdentityReaches
  <2> SUFFICES ASSUME NEW r \in Requests
               PROVE  /\ verified[r] /\ pc[r] # <<"api", "route">> => seen[r] = r
                      /\ ~verified[r] => seen[r] = None
    BY DEF IdentityReaches
  <2>1. pc[r] \in Coming \cup {<<"api", "route">>} \cup Leaving \cup Ending
    BY DEF CourseInv, Course
  <2>2. QED
    BY <2>1 DEF CourseInv, Course, Coming
<1>4. QED
  BY <1>1, <1>2, <1>3 DEF RequestsApart, ContextInv

LEMMA ThroughFollows == TypeOK /\ CourseInv => RunsThrough
<1> SUFFICES ASSUME TypeOK, CourseInv PROVE RunsThrough
  OBVIOUS
<1>1. PathRestored
  <2> SUFFICES ASSUME NEW r \in Requests
               PROVE  /\ pc[r] = <<"api", "route">> => path[r] = "tail"
                      /\ pc[r] \in {<<"default", "release">>, <<"net", "done">>}
                           => path[r] = "whole"
    BY DEF PathRestored
  <2>1. Course(r) /\ path[r] \in {"whole", "tail"}
    BY DEF CourseInv, TypeOK
  <2>2. QED
    BY <2>1 DEF Course
<1>2. AnsweredOnce
  BY DEF CourseInv, Course, AnsweredOnce, Ending
<1>3. QED
  BY <1>1, <1>2 DEF RunsThrough

\* However many requests go through the muxes at once, and whichever stacks the
\* pools hand out, no request meets another's stack, context or user.
THEOREM Apart == Spec => []RequestsApart
BY InitType, NextType, InitStack, NextStack, InitContext, NextContext, InitCourse, NextCourse,
   InitField, NextField,
   ApartFollows, PTL DEF Spec

\* Every request that has left the muxes has its path back and an answer, whether
\* it was refused, served or panicked, and one answer only, unless another
\* request has unset the field of the API's stack that it was using.
THEOREM Through == Spec => []RunsThrough
BY InitType, NextType, InitStack, NextStack, InitContext, NextContext, InitCourse, NextCourse,
   InitField, NextField,
   ThroughFollows, PTL DEF Spec

-----------------------------------------------------------------------------
(* Each request is served as Alone serves it.                                *)

StageOf(r) == Stage[pc[r][1]][pc[r][2]]

\* What Alone tells of the requests.
Told == <<Stages, path, verified, seen, replies>>

\* A step of a request changes its stage and no other.
LEMMA StagesMove ==
  ASSUME TypeOK, ContextInv, NEW r \in Requests, Arrive(r) \/ Serve(r)
  PROVE  /\ \A a, b : StageOf(r) = a /\ StageOf(r)' = b => Promise!Pass(r, a, b)
         /\ StageOf(r)' = StageOf(r) => UNCHANGED Stages
<1>1. /\ \A q \in Requests : Stages[q] = StageOf(q) /\ Stages'[q] = StageOf(q)'
      /\ Stages = [q \in Requests |-> Stages[q]] /\ Stages' = [q \in Requests |-> Stages'[q]]
  BY DEF Stages, StageOf
<1>2. \A q \in Requests \ {r} : StageOf(q)' = StageOf(q)
  BY OthersStay DEF StageOf
<1>3. Stages[r] = StageOf(r) /\ Stages' = [Stages EXCEPT ![r] = StageOf(r)']
  BY <1>1, <1>2
<1>4. QED
  BY <1>1, <1>3 DEF Promise!Pass

\* The steps of the outer mux, but for those that both muxes take.
LEMMA OuterSteps ==
  ASSUME TypeOK, ContextInv, NEW r \in Requests, Arrive(r) \/ RequestID(r) \/ route(r)
  PROVE  UNCHANGED Told \/ Promise!Arrive(r) \/ Promise!Route(r)
<1>0. PlaceTyped
  BY DEF TypeOK, PlaceTyped
<1>1. /\ \A a, b : StageOf(r) = a /\ StageOf(r)' = b => Promise!Pass(r, a, b)
      /\ StageOf(r)' = StageOf(r) => UNCHANGED Stages
  BY StagesMove DEF Serve
<1>2. CASE Arrive(r)
  <2>1. pc[r] = <<"net", "idle">> /\ pc'[r] = <<"default", "get">>
    BY <1>0, <1>2 DEF Arrive, Goto, PlaceTyped
  <2>2. StageOf(r) = "new" /\ StageOf(r)' = "outer"
    BY <2>1 DEF StageOf, Stage
  <2>3. QED
    BY <1>1, <1>2, <2>2 DEF Arrive, Promise!Arrive
<1>3. CASE RequestID(r)
  <2>1. pc[r] = <<"default", "layers">> /\ pc'[r] = <<"default", "route">>
    BY <1>0, <1>3 DEF RequestID, Goto, PlaceTyped
  <2>2. StageOf(r)' = StageOf(r)
    BY <2>1 DEF StageOf, Stage
  <2>3. QED
    BY <1>1, <1>3, <2>2 DEF RequestID, Told
<1>4. CASE route(r)
  <2>1. /\ pc[r] = <<"default", "route">>
        /\ \/ pc'[r] = <<"api", "get">> /\ UNCHANGED replies
           \/ pc'[r] = <<"default", "release">> /\ Promise!Answer(r)
        /\ UNCHANGED <<path, verified, seen>>
    BY <1>0, <1>4 DEF route, Goto, Answer, Promise!Answer, PlaceTyped
  <2>2. /\ StageOf(r) = "outer"
        /\ \/ StageOf(r)' = "inner" /\ UNCHANGED replies
           \/ StageOf(r)' = "leaving" /\ Promise!Answer(r)
    BY <2>1 DEF StageOf, Stage
  <2>3. QED
    BY <1>1, <2>1, <2>2 DEF Promise!Route
<1>5. QED
  BY <1>2, <1>3, <1>4

\* The layers of the API's mux before its route.
LEMMA InnerSteps ==
  ASSUME TypeOK, ContextInv, CourseInv, NEW r \in Requests, SubRouter(r) \/ Authenticate(r)
  PROVE  Promise!SubRoute(r) \/ Promise!Authenticate(r)
<1>0. PlaceTyped /\ RequestTyped /\ Contexts(r) /\ Course(r)
  BY DEF TypeOK, PlaceTyped, RequestTyped, ContextInv, CourseInv
<1>1. \A a, b : StageOf(r) = a /\ StageOf(r)' = b => Promise!Pass(r, a, b)
  BY StagesMove DEF Serve
<1>2. CASE SubRouter(r)
  <2>1. pc[r] = <<"api", "layers">> /\ pc'[r] = <<"api", "authenticate">>
    BY <1>0, <1>2 DEF SubRouter, Goto, PlaceTyped
  <2>2. "*" \in Context(r, "api").params
    BY <1>0, <2>1 DEF Contexts, Own
  <2>3. path' = [path EXCEPT ![r] = "tail"] /\ UNCHANGED <<verified, seen, replies>>
    BY <1>2, <2>2 DEF SubRouter
  <2>4. StageOf(r) = "inner" /\ StageOf(r)' = "authenticate"
    BY <2>1 DEF StageOf, Stage
  <2>5. QED
    BY <1>1, <2>3, <2>4 DEF Promise!SubRoute
<1>3. CASE Authenticate(r)
  <2>1. pc[r] = <<"api", "authenticate">>
    BY <1>3 DEF Authenticate, authenticate, Recovered, Goto
  <2>2. verified = [verified EXCEPT ![r] = FALSE]
    BY <1>0, <2>1 DEF Course, Coming, RequestTyped
  <2>3. /\ \/ /\ pc'[r] = <<"api", "route">> /\ UNCHANGED <<path, replies>>
              /\ \E v \in BOOLEAN : verified' = [verified EXCEPT ![r] = v]
           \/ pc'[r] = <<"api", "back">> /\ Promise!Answer(r) /\ UNCHANGED <<path, verified>>
           \/ /\ pc'[r] = <<"default", "release">> /\ Promise!Answer(r) /\ Promise!WholePath(r)
              /\ UNCHANGED verified
        /\ UNCHANGED seen
    BY <1>0, <1>3, <2>2
       DEF Authenticate, authenticate, Recovered, Restore, Goto, Answer, Promise!Answer,
           Promise!WholePath, PlaceTyped
  <2>4. /\ StageOf(r) = "authenticate"
        /\ \/ /\ StageOf(r)' = "handler" /\ UNCHANGED <<path, replies>>
              /\ \E v \in BOOLEAN : verified' = [verified EXCEPT ![r] = v]
           \/ StageOf(r)' = "answered" /\ Promise!Answer(r) /\ UNCHANGED <<path, verified>>
           \/ /\ StageOf(r)' = "leaving" /\ Promise!Answer(r) /\ Promise!WholePath(r)
              /\ UNCHANGED verified
    BY <2>1, <2>3 DEF StageOf, Stage
  <2>5. QED
    BY <1>1, <2>3, <2>4 DEF Promise!Authenticate
<1>4. QED
  BY <1>2, <1>3

\* The handler, whether it returns or panics: the context it is given leads to
\* the map of this request, and the map to its user.
LEMMA HandlerSteps ==
  ASSUME TypeOK, ContextInv, CourseInv, NEW r \in Requests, Handle(r) \/ Panic(r) \/ Back(r)
  PROVE  Promise!Handle(r) \/ Promise!Back(r)
<1>0. PlaceTyped /\ Contexts(r) /\ Course(r)
  BY DEF TypeOK, PlaceTyped, ContextInv, CourseInv
<1>1. \A a, b : StageOf(r) = a /\ StageOf(r)' = b => Promise!Pass(r, a, b)
  BY StagesMove DEF Serve
<1>2. CASE Handle(r) \/ Panic(r)
  <2>1. pc[r] = <<"api", "route">>
    BY <1>2 DEF Handle, Panic, Recovered, Goto
  <2>2. Context(r, "api").env = r
    BY <1>0, <2>1 DEF Contexts, Own
  <2>3. (IF Context(r, "api").env = None THEN None ELSE user[Context(r, "api").env])
          = IF verified[r] THEN r ELSE None
    BY <1>0, <2>1, <2>2 DEF Course
  <2>4. seen' = [seen EXCEPT ![r] = IF verified[r] THEN r ELSE None]
    BY <1>2, <2>3 DEF Handle, Panic, Lookup
  <2>5. /\ \/ pc'[r] = <<"api", "back">> /\ UNCHANGED path
           \/ pc'[r] = <<"default", "release">> /\ Promise!WholePath(r)
        /\ Promise!Answer(r) /\ UNCHANGED verified
    BY <1>0, <1>2 DEF Handle, Panic, Recovered, Restore, Answer, Goto, PlaceTyped,
                      Promise!Answer, Promise!WholePath
  <2>6. /\ StageOf(r) = "handler"
        /\ \/ StageOf(r)' = "answered" /\ UNCHANGED path
           \/ StageOf(r)' = "leaving" /\ Promise!WholePath(r)
    BY <2>1, <2>5 DEF StageOf, Stage
  <2>7. QED
    BY <1>1, <2>4, <2>5, <2>6 DEF Promise!Handle
<1>3. CASE Back(r)
  <2>1. /\ pc[r] = <<"api", "back">> /\ pc'[r] = <<"api", "release">> /\ Promise!WholePath(r)
        /\ UNCHANGED <<verified, seen, replies>>
    BY <1>0, <1>3 DEF Back, Restore, Goto, PlaceTyped, Promise!WholePath
  <2>2. StageOf(r) = "answered" /\ StageOf(r)' = "returned"
    BY <2>1 DEF StageOf, Stage
  <2>3. QED
    BY <1>1, <2>1, <2>2 DEF Promise!Back
<1>4. QED
  BY <1>2, <1>3

\* The stack of either mux, taken and given back.
LEMMA StackSteps ==
  ASSUME TypeOK, ContextInv, NEW r \in Requests, NEW m \in Muxes, InMux(r, m)
  PROVE  UNCHANGED Told \/ Promise!Return(r) \/ Promise!Leave(r)
<1>0. PlaceTyped
  BY DEF TypeOK, PlaceTyped
<1>1. /\ \A a, b : StageOf(r) = a /\ StageOf(r)' = b => Promise!Pass(r, a, b)
      /\ StageOf(r)' = StageOf(r) => UNCHANGED Stages
  BY StagesMove DEF Serve
<1>2. UNCHANGED <<path, verified, seen>>
  BY DEF InMux, alloc, Enter, release, Put, Unset
<1>3. CASE m = "default"
  <2>1. /\ UNCHANGED replies
        /\ \/ /\ pc[r] \in {<<m, "get">>, <<m, "enter">>}
              /\ pc'[r] \in {<<m, "enter">>, <<m, "layers">>}
           \/ /\ pc[r] \in {<<m, "release">>, <<m, "put">>}
              /\ pc'[r] \in {<<m, "put">>, <<m, "unset">>}
           \/ /\ pc[r] \in {<<m, "release">>, <<m, "put">>, <<m, "unset">>}
              /\ pc'[r] = <<"net", "done">>
    BY <1>0, <1>3 DEF InMux, alloc, Enter, release, Put, Unset, After, Goto, PlaceTyped
  <2>2. \/ StageOf(r)' = StageOf(r)
        \/ StageOf(r) = "leaving" /\ StageOf(r)' = "done"
    BY <1>3, <2>1 DEF StageOf, Stage
  <2>3. QED
    BY <1>1, <1>2, <2>1, <2>2 DEF Told, Promise!Leave
<1>4. CASE m = "api"
  <2>1. \/ /\ pc[r] \in {<<m, "get">>, <<m, "enter">>}
           /\ pc'[r] \in {<<m, "enter">>, <<m, "layers">>}
           /\ UNCHANGED replies
        \/ /\ pc[r] \in {<<m, "release">>, <<m, "put">>}
           /\ pc'[r] \in {<<m, "put">>, <<m, "unset">>}
           /\ UNCHANGED replies
        \/ /\ pc[r] \in {<<m, "release">>, <<m, "put">>, <<m, "unset">>}
           /\ pc'[r] = <<"default", "release">>
           /\ Promise!Answer(r) \/ UNCHANGED replies
    BY <1>0, <1>4 DEF InMux, alloc, Enter, release, Put, Unset, After, Recovered, Answer, Goto,
                      PlaceTyped, Promise!Answer
  <2>2. \/ StageOf(r)' = StageOf(r) /\ UNCHANGED replies
        \/ /\ StageOf(r) = "returned" /\ StageOf(r)' = "leaving"
           /\ Promise!Answer(r) \/ UNCHANGED replies
    BY <1>4, <2>1 DEF StageOf, Stage
  <2>3. QED
    BY <1>1, <1>2, <2>2 DEF Told, Promise!Return
<1>5. QED
  BY <1>3, <1>4 DEF Muxes

LEMMA InitAlone == Init => Promise!Init
<1> SUFFICES ASSUME Init PROVE Promise!Init
  OBVIOUS
<1>1. \A r \in Requests : pc[r] = <<"net", "idle">>
  BY DEF Init
<1>2. ASSUME NEW r \in Requests PROVE StageOf(r) = "new"
  <2>1. pc[r] = <<"net", "idle">>
    BY <1>1
  <2>2. QED
    BY <2>1 DEF StageOf, Stage
<1>3. Stages = [r \in Requests |-> "new"]
  BY <1>2 DEF Stages, StageOf
<1>4. QED
  BY <1>3 DEF Init, Promise!Init

LEMMA NextAlone ==
  TypeOK /\ ContextInv /\ CourseInv /\ [Next]_vars => [Promise!Next]_Told
<1> SUFFICES ASSUME TypeOK, ContextInv, CourseInv, [Next]_vars
             PROVE  Promise!Next \/ UNCHANGED Told
  OBVIOUS
<1>1. ASSUME NEW r \in Requests, Arrive(r) \/ Serve(r) PROVE Promise!Next \/ UNCHANGED Told
  <2>1. CASE Arrive(r) \/ RequestID(r) \/ route(r)
    BY <2>1, OuterSteps DEF Promise!Next
  <2>2. CASE SubRouter(r) \/ Authenticate(r)
    BY <2>2, InnerSteps DEF Promise!Next
  <2>3. CASE Handle(r) \/ Panic(r) \/ Back(r)
    BY <2>3, HandlerSteps DEF Promise!Next
  <2>4. CASE \E m \in Muxes : InMux(r, m)
    BY <2>4, StackSteps DEF Promise!Next
  <2>5. QED
    BY <1>1, <2>1, <2>2, <2>3, <2>4 DEF Serve
<1>2. CASE UNCHANGED vars \/ \E m \in Muxes : Forget(m)
  BY <1>2 DEF vars, Forget, Told, Stages
<1>3. QED
  BY <1>1, <1>2 DEF Next

\* The pools, stacks, contexts and maps that the requests share change nothing
\* of what becomes of each: the muxes implement the specification without them.
THEOREM Shared == Spec => ServesApart
<1>1. [Promise!Next]_Told => [Promise!Next]_(Promise!vars)
  BY DEF Told, Promise!vars
<1>2. QED
  BY <1>1, InitType, NextType, InitStack, NextStack, InitContext, NextContext, InitCourse,
     NextCourse, InitField, NextField, InitAlone, NextAlone, PTL DEF Spec, ServesApart, Promise!Spec

-----------------------------------------------------------------------------
(* The routes of a mux, router.go: the order in which the router keeps them. *)

\* A set of numbers that is bounded has a greatest.
LEMMA MaxIsBound ==
  ASSUME NEW n \in Nat, NEW S, S \subseteq 0..n, S # {}
  PROVE  Max(S) \in S /\ \A y \in S : Max(S) >= y
<1> DEFINE D == {n - x : x \in S}
<1>1. D \subseteq Nat /\ D # {}
  <2>1. \A x \in S : n - x \in Nat
    OBVIOUS
  <2>2. QED
    BY <2>1
<1>2. PICK d \in D : \A e \in D : ~(<<e, d>> \in OpToRel(<, Nat))
  BY <1>1, NatLessThanWellFounded, WFMin
<1>3. \A e \in D : ~(e < d)
  BY <1>1, <1>2 DEF OpToRel
<1>4. PICK x \in S : d = n - x
  BY <1>2
<1>5. \A y \in S : x >= y
  <2> TAKE y \in S
  <2>1. n - y \in D
    OBVIOUS
  <2>2. ~(n - y < n - x)
    BY <1>3, <1>4, <2>1
  <2>3. x \in 0..n /\ y \in 0..n
    OBVIOUS
  <2>4. QED
    BY <2>2, <2>3
<1>6. QED
  BY <1>4, <1>5 DEF Max

\* t is s with e at place p.
Inserted(s, p, e, S, t) ==
  /\ t \in Seq(S) /\ Len(t) = Len(s) + 1
  /\ \A k \in 1..(p - 1) : t[k] = s[k]
  /\ t[p] = e
  /\ \A k \in (p + 1)..(Len(s) + 1) : t[k] = s[k - 1]

LEMMA InsertElements ==
  ASSUME NEW S, NEW s \in Seq(S), NEW e \in S, NEW p \in 1..(Len(s) + 1),
         NEW t, t = InsertAt(s, p, e)
  PROVE  Inserted(s, p, e, S, t)
<1> DEFINE i == p - 1
           a == SubSeq(s, 1, i)
           b == SubSeq(s, i + 1, Len(s))
           one == <<e>>
           c == a \o one
<1>0. i \in 0..Len(s) /\ i + 1 = p /\ i + 2 = p + 1
  OBVIOUS
<1> HIDE DEF i
<1>1. a \in Seq(S) /\ Len(a) = i /\ \A k \in 1..i : a[k] = s[k]
  BY <1>0
<1>2. b \in Seq(S) /\ Len(b) = Len(s) - i /\ \A k \in 1..(Len(s) - i) : b[k] = s[i + k]
  BY <1>0
<1>3. one \in Seq(S) /\ Len(one) = 1 /\ one[1] = e
  BY <1>0
<1>4. t = c \o b
  BY <1>0 DEF InsertAt, i
<1> HIDE DEF a, b, one
<1>5. /\ c \in Seq(S) /\ Len(c) = i + 1
      /\ \A k \in 1..(i + 1) : c[k] = IF k <= i THEN a[k] ELSE one[k - i]
  <2>1. /\ c \in Seq(S) /\ Len(c) = Len(a) + Len(one)
        /\ \A k \in 1..(Len(a) + Len(one)) :
             c[k] = IF k <= Len(a) THEN a[k] ELSE one[k - Len(a)]
    BY <1>1, <1>3, ConcatProperties
  <2>2. QED
    BY <1>0, <1>1, <1>3, <2>1
<1> HIDE DEF c
<1>6. c[i + 1] = e /\ \A k \in 1..i : c[k] = s[k]
  <2>1. i + 1 \in 1..(i + 1) /\ (i + 1) - i = 1 /\ ~(i + 1 <= i)
    BY <1>0
  <2>2. \A k \in 1..i : k \in 1..(i + 1) /\ k <= i
    BY <1>0
  <2>3. QED
    BY <1>1, <1>3, <1>5, <2>1, <2>2
<1>7. /\ c \o b \in Seq(S) /\ Len(c \o b) = (i + 1) + (Len(s) - i)
      /\ \A k \in 1..((i + 1) + (Len(s) - i)) :
           (c \o b)[k] = IF k <= i + 1 THEN c[k] ELSE b[k - (i + 1)]
  <2>1. /\ c \o b \in Seq(S) /\ Len(c \o b) = Len(c) + Len(b)
        /\ \A k \in 1..(Len(c) + Len(b)) :
             (c \o b)[k] = IF k <= Len(c) THEN c[k] ELSE b[k - Len(c)]
    BY <1>2, <1>5, ConcatProperties
  <2>2. QED
    BY <1>0, <1>2, <1>5, <2>1
<1>8. (i + 1) + (Len(s) - i) = Len(s) + 1
  BY <1>0
<1>9. ASSUME NEW k \in (i + 2)..(Len(s) + 1) PROVE (c \o b)[k] = s[k - 1]
  <2>1. /\ k \in 1..(Len(s) + 1) /\ ~(k <= i + 1)
        /\ k - (i + 1) \in 1..(Len(s) - i) /\ i + (k - (i + 1)) = k - 1
    BY <1>0
  <2>2. QED
    BY <1>2, <1>7, <1>8, <2>1
<1>10. ASSUME NEW k \in 1..(i + 1) PROVE (c \o b)[k] = c[k]
  <2>1. k \in 1..(Len(s) + 1) /\ k <= i + 1
    BY <1>0
  <2>2. QED
    BY <1>7, <1>8, <2>1
<1>11. i + 1 \in 1..(i + 1) /\ \A k \in 1..i : k \in 1..(i + 1)
  BY <1>0
<1>12. t[p] = e
  BY <1>0, <1>4, <1>6, <1>10, <1>11
<1>13. ASSUME NEW k \in 1..(p - 1) PROVE t[k] = s[k]
  <2>1. k \in 1..i
    BY DEF i
  <2>2. QED
    BY <1>4, <1>6, <1>10, <1>11, <2>1
<1>14. \A k \in (p + 1)..(Len(s) + 1) : t[k] = s[k - 1]
  BY <1>0, <1>4, <1>9
<1>15. QED
  BY <1>4, <1>7, <1>8, <1>12, <1>13, <1>14 DEF Inserted

\* Of two prefixes of one path, one is a prefix of the other.
LEMMA PrefixesOfOne ==
  ASSUME NEW p \in Seq(Nat), NEW s \in Seq(Nat), NEW t \in Seq(Nat),
         IsPrefix(s, p), IsPrefix(t, p)
  PROVE  IsPrefix(s, t) \/ IsPrefix(t, s)
<1>1. ASSUME NEW a \in Seq(Nat), NEW b \in Seq(Nat),
             IsPrefix(a, p), IsPrefix(b, p), Len(a) <= Len(b)
      PROVE  IsPrefix(a, b)
  <2>1. Len(a) <= Len(p) /\ Len(b) <= Len(p)
    BY <1>1 DEF IsPrefix
  <2>2. \A k \in 1..Len(a) : a[k] = p[k]
    <3>1. SubSeq(a, 1, Len(a)) = SubSeq(p, 1, Len(a))
      BY <1>1 DEF IsPrefix
    <3>2. \A k \in 1..Len(a) : SubSeq(a, 1, Len(a))[k] = a[k] /\ SubSeq(p, 1, Len(a))[k] = p[k]
      BY <2>1
    <3>3. QED
      BY <3>1, <3>2
  <2>3. \A k \in 1..Len(b) : b[k] = p[k]
    <3>1. SubSeq(b, 1, Len(b)) = SubSeq(p, 1, Len(b))
      BY <1>1 DEF IsPrefix
    <3>2. \A k \in 1..Len(b) : SubSeq(b, 1, Len(b))[k] = b[k] /\ SubSeq(p, 1, Len(b))[k] = p[k]
      BY <2>1
    <3>3. QED
      BY <3>1, <3>2
  <2>4. SubSeq(a, 1, Len(a)) = SubSeq(b, 1, Len(a))
    BY <1>1, <2>2, <2>3
  <2>5. QED
    BY <1>1, <2>4 DEF IsPrefix
<1>2. Len(s) <= Len(t) \/ Len(t) <= Len(s)
  OBVIOUS
<1>3. QED
  BY <1>1, <1>2

RoutesType == added \in Seq(Patterns) /\ routes \in Seq(DOMAIN added)

LEMMA AddableType ==
  ASSUME RoutesType, NEW r \in Addable
  PROVE  r \in Patterns
<1>1. PICK u \in Tables : IsStrictPrefix(added, u) /\ r = u[Len(added) + 1]
  BY DEF Addable
<1>2. u \in Seq(Patterns)
  BY TablesAssumption
<1>3. Len(added) <= Len(u) /\ SubSeq(added, 1, Len(added)) = SubSeq(u, 1, Len(added)) /\ added # u
  BY <1>1 DEF IsStrictPrefix, IsPrefix
<1>4. ASSUME Len(added) = Len(u) PROVE FALSE
  <2>1. SubSeq(added, 1, Len(added)) = added /\ SubSeq(u, 1, Len(u)) = u
    BY <1>2 DEF RoutesType
  <2>2. QED
    BY <1>3, <1>4, <2>1
<1>5. Len(added) + 1 \in 1..Len(u)
  BY <1>2, <1>3, <1>4 DEF RoutesType
<1>6. QED
  BY <1>1, <1>2, <1>5

\* No route behind the place of a new one may match a path that it may match.
LEMMA InsertionPoint ==
  ASSUME RoutesType, NEW pp
  PROVE  /\ insertion(pp) \in 0..Len(routes)
         /\ \A k \in DOMAIN routes : k > insertion(pp) =>
              ~IsPrefix(prefix(routes[k]), pp) /\ ~IsPrefix(pp, prefix(routes[k]))
<1> DEFINE S == {0} \cup {k \in DOMAIN routes :
                   Before(prefix(routes[k]), pp) \/ IsPrefix(pp, prefix(routes[k]))}
<1>1. Len(routes) \in Nat /\ DOMAIN routes = 1..Len(routes)
  BY DEF RoutesType
<1>2. S \subseteq 0..Len(routes) /\ S # {}
  BY <1>1
<1>3. insertion(pp) = Max(S)
  BY DEF insertion
<1>4. \A k \in DOMAIN routes :
        IsPrefix(prefix(routes[k]), pp) \/ IsPrefix(pp, prefix(routes[k])) => k \in S
  BY DEF Before
<1> HIDE DEF S
<1>5. Max(S) \in S /\ \A y \in S : Max(S) >= y
  BY <1>1, <1>2, MaxIsBound
<1>6. ASSUME NEW k \in DOMAIN routes, k > insertion(pp) PROVE k \notin S
  <2>1. Max(S) \in 0..Len(routes) /\ k > Max(S) /\ k \in 1..Len(routes)
    BY <1>1, <1>2, <1>3, <1>5, <1>6
  <2>2. ~(Max(S) >= k)
    BY <2>1
  <2>3. QED
    BY <1>5, <2>2
<1>7. QED
  BY <1>2, <1>3, <1>4, <1>5, <1>6

TableInv == RoutesType /\ RoutesInOrder

LEMMA InsertKeepsOrder ==
  ASSUME TableInv, NEW r \in Addable, insert(r)
  PROVE  TableInv'
<1> DEFINE i == insertion(r.literals[1])
           n == Len(added) + 1
<1>1. /\ added \in Seq(Patterns) /\ routes \in Seq(DOMAIN added)
      /\ Len(routes) = Len(added) /\ Len(added) \in Nat
      /\ DOMAIN added = 1..Len(added) /\ DOMAIN routes = 1..Len(added)
  BY DEF TableInv, RoutesType, RoutesInOrder
<1>2. r \in Patterns
  BY AddableType DEF TableInv
<1>3. /\ added' \in Seq(Patterns) /\ Len(added') = n /\ DOMAIN added' = 1..n
      /\ added'[n] = r /\ \A k \in 1..Len(added) : added'[k] = added[k]
  BY <1>1, <1>2 DEF insert
<1>4. /\ i \in 0..Len(added)
      /\ \A k \in 1..Len(added) : k > i =>
           /\ ~IsPrefix(prefix(routes[k]), r.literals[1])
           /\ ~IsPrefix(r.literals[1], prefix(routes[k]))
  BY <1>1, InsertionPoint DEF TableInv
<1>5. routes' = InsertAt(routes, i + 1, n)
  BY DEF insert
<1> HIDE DEF i
<1>6. routes \in Seq(1..n) /\ n \in 1..n
  <2>1. DOMAIN added \subseteq 1..n
    BY <1>1
  <2>2. QED
    BY <1>1, <2>1, SeqMonotonic
<1> HIDE DEF n
<1>7. /\ routes' \in Seq(1..n) /\ Len(routes') = Len(added) + 1
      /\ \A k \in 1..i : routes'[k] = routes[k]
      /\ routes'[i + 1] = n
      /\ \A k \in (i + 2)..(Len(added) + 1) : routes'[k] = routes[k - 1]
  <2>1. i \in 0..Len(routes)
    BY <1>1, <1>4
  <2> DEFINE p == i + 1
  <2>2. p \in 1..(Len(routes) + 1) /\ i = p - 1 /\ i + 2 = p + 1
    BY <2>1
  <2>3. routes' = InsertAt(routes, p, n)
    BY <1>5
  <2> HIDE DEF p
  <2>4. /\ routes' \in Seq(1..n) /\ Len(routes') = Len(routes) + 1
        /\ \A k \in 1..(p - 1) : routes'[k] = routes[k]
        /\ routes'[p] = n
        /\ \A k \in (p + 1)..(Len(routes) + 1) : routes'[k] = routes[k - 1]
    <3>1. Inserted(routes, p, n, 1..n, routes')
      BY <1>6, <2>2, <2>3, InsertElements
    <3>2. QED
      BY <3>1 DEF Inserted
  <2>5. QED
    BY <1>1, <2>2, <2>4 DEF p
<1>8. n = Len(added) + 1
  BY DEF n
<1>9. DOMAIN routes' = 1..(Len(added) + 1) /\ \A k \in 1..Len(added) : routes[k] \in 1..Len(added)
  BY <1>1, <1>7, <1>8
<1> DEFINE old(k) == IF k <= i THEN k ELSE k - 1
<1>10. ASSUME NEW k \in 1..(Len(added) + 1), k # i + 1
       PROVE  old(k) \in 1..Len(added) /\ routes'[k] = routes[old(k)]
  <2>1. CASE k <= i
    BY <1>4, <1>7, <1>10, <2>1
  <2>2. CASE ~(k <= i)
    <3>1. k \in (i + 2)..(Len(added) + 1) /\ k - 1 \in 1..Len(added)
      BY <1>1, <1>4, <1>10, <2>2
    <3>2. QED
      BY <1>7, <2>2, <3>1
  <2>3. QED
    BY <2>1, <2>2
<1> DEFINE new(k) == added'[k].literals[1]
<1>11. new(n) = r.literals[1] /\ \A k \in 1..Len(added) : new(k) = prefix(k)
  BY <1>3 DEF prefix
<1> HIDE DEF new
<1>12. \A m \in DOMAIN added' : \E k \in DOMAIN routes' : routes'[k] = m
  <2> SUFFICES ASSUME NEW m \in 1..n PROVE \E k \in 1..(Len(added) + 1) : routes'[k] = m
    BY <1>3, <1>9
  <2>1. CASE m = n
    <3>1. i + 1 \in 1..(Len(added) + 1)
      BY <1>1, <1>4
    <3>2. QED
      BY <1>7, <2>1, <3>1
  <2>2. CASE m # n
    <3>1. m \in DOMAIN added
      BY <1>1, <1>8, <2>2
    <3>2. PICK j \in 1..Len(added) : routes[j] = m
      BY <1>1, <3>1 DEF TableInv, RoutesInOrder
    <3>3. CASE j <= i
      <4>1. j \in 1..i /\ j \in 1..(Len(added) + 1)
        BY <1>1, <1>4, <3>3
      <4>2. QED
        BY <1>7, <3>2, <4>1
    <3>4. CASE ~(j <= i)
      <4>1. j + 1 \in (i + 2)..(Len(added) + 1) /\ j + 1 \in 1..(Len(added) + 1) /\ (j + 1) - 1 = j
        BY <1>1, <1>4, <3>4
      <4>2. QED
        BY <1>7, <3>2, <4>1
    <3>5. QED
      BY <3>3, <3>4
  <2>3. QED
    BY <2>1, <2>2
<1>13. ASSUME NEW j \in 1..(Len(added) + 1), NEW k \in 1..(Len(added) + 1), j < k,
              routes'[k] <= routes'[j]
       PROVE  /\ ~IsPrefix(new(routes'[j]), new(routes'[k]))
              /\ ~IsPrefix(new(routes'[k]), new(routes'[j]))
  <2>1. CASE k = i + 1
    <3>1. j # i + 1 /\ routes'[k] = n
      BY <1>1, <1>4, <1>7, <1>13, <2>1
    <3>2. routes'[j] \in 1..Len(added)
      BY <1>9, <1>10, <3>1
    <3>3. QED
      BY <1>1, <1>8, <1>13, <3>1, <3>2
  <2>2. CASE j = i + 1
    <3>1. k # i + 1 /\ ~(k <= i)
      BY <1>1, <1>4, <1>13, <2>2
    <3>2. old(k) = k - 1 /\ k - 1 \in 1..Len(added) /\ routes'[k] = routes[k - 1]
      BY <1>10, <3>1
    <3>3. k - 1 > i
      BY <1>1, <1>4, <1>13, <2>2
    <3>4. routes'[j] = n /\ routes'[k] \in 1..Len(added)
      BY <1>7, <1>9, <2>2, <3>2
    <3>5. QED
      BY <1>4, <1>11, <3>2, <3>3, <3>4
  <2>3. CASE j # i + 1 /\ k # i + 1
    <3>1. /\ old(j) \in 1..Len(added) /\ routes'[j] = routes[old(j)]
          /\ old(k) \in 1..Len(added) /\ routes'[k] = routes[old(k)]
      BY <1>10, <2>3
    <3>2. old(j) < old(k)
      BY <1>1, <1>4, <1>13, <2>3
    <3> HIDE DEF old
    <3>3. /\ ~IsPrefix(prefix(routes[old(j)]), prefix(routes[old(k)]))
          /\ ~IsPrefix(prefix(routes[old(k)]), prefix(routes[old(j)]))
      BY <1>1, <1>13, <3>1, <3>2 DEF TableInv, RoutesInOrder
    <3>4. routes[old(j)] \in 1..Len(added) /\ routes[old(k)] \in 1..Len(added)
      BY <1>9, <3>1
    <3>5. QED
      BY <1>11, <3>1, <3>3, <3>4
  <2>4. QED
    BY <2>1, <2>2, <2>3
<1>14. RoutesType'
  BY <1>3, <1>7 DEF RoutesType
<1>15. RoutesInOrder'
  <2>1. Len(routes') = Len(added')
    BY <1>3, <1>7, <1>8
  <2>2. \A j, k \in DOMAIN routes' : j < k /\ routes'[k] <= routes'[j] =>
          /\ ~IsPrefix(new(routes'[j]), new(routes'[k]))
          /\ ~IsPrefix(new(routes'[k]), new(routes'[j]))
    BY <1>9, <1>13
  <2>3. QED
    BY <1>12, <2>1, <2>2 DEF RoutesInOrder, prefix, new
<1>16. QED
  BY <1>14, <1>15 DEF TableInv

LEMMA TableInvariance == TableSpec => []TableInv
<1>1. InitTable => TableInv
  BY DEF InitTable, TableInv, RoutesType, RoutesInOrder
<1>2. TableInv /\ [\E r \in Addable : insert(r)]_<<added, routes>> => TableInv'
  <2>1. CASE UNCHANGED <<added, routes>>
    BY <2>1 DEF TableInv, RoutesType, RoutesInOrder, prefix
  <2>2. QED
    BY <2>1, InsertKeepsOrder
<1>3. QED
  BY <1>1, <1>2, PTL DEF TableSpec

\* For any tables of any length, a new route never goes before one whose prefix
\* is a prefix of its own, or of whose prefix its own is one.
THEOREM TableInOrder == TableSpec => []RoutesInOrder
<1>1. TableInv => RoutesInOrder
  BY DEF TableInv
<1>2. QED
  BY <1>1, TableInvariance, PTL

\* The routes whose prefixes a path has, in the order of the table.
SearchInOrder ==
  \A p \in Seq(Nat) : \A j, k \in DOMAIN routes :
    /\ j < k
    /\ IsPrefix(prefix(routes[j]), p) /\ IsPrefix(prefix(routes[k]), p)
    => routes[j] < routes[k]

LEMMA InOrder == TableInv => SearchInOrder
<1>1. ASSUME TableInv, NEW p \in Seq(Nat), NEW j \in DOMAIN routes, NEW k \in DOMAIN routes,
             j < k,
             IsPrefix(prefix(routes[j]), p), IsPrefix(prefix(routes[k]), p)
      PROVE  routes[j] < routes[k]
  <2>1. /\ added \in Seq(Patterns) /\ routes \in Seq(DOMAIN added)
        /\ DOMAIN added = 1..Len(added) /\ Len(added) \in Nat
    BY <1>1 DEF TableInv, RoutesType
  <2>2. routes[j] \in 1..Len(added) /\ routes[k] \in 1..Len(added)
    BY <1>1, <2>1
  <2>3. \A n \in 1..Len(added) : prefix(n) \in Seq(Nat)
    BY <2>1, TablesAssumption DEF prefix
  <2>4. \/ IsPrefix(prefix(routes[j]), prefix(routes[k]))
        \/ IsPrefix(prefix(routes[k]), prefix(routes[j]))
    BY <1>1, <2>2, <2>3, PrefixesOfOne
  <2>5. ~(routes[k] <= routes[j])
    BY <1>1, <2>4 DEF TableInv, RoutesInOrder
  <2>6. QED
    BY <2>2, <2>5
<1>2. QED
  BY <1>1 DEF SearchInOrder

\* "our goal is to call each plausible pattern, in the order they were added",
\* bytecode_compiler.go: for any path the table lists them in that order.
THEOREM PathsInOrder == TableSpec => []SearchInOrder
BY InOrder, TableInvariance, PTL

-----------------------------------------------------------------------------
(* Prefixes.                                                                 *)

LEMMA PrefixElements ==
  ASSUME NEW s \in Seq(Nat), NEW t \in Seq(Nat)
  PROVE  IsPrefix(s, t) <=> Len(s) <= Len(t) /\ \A k \in 1..Len(s) : s[k] = t[k]
<1>1. ASSUME Len(s) <= Len(t)
      PROVE  \A k \in 1..Len(s) : SubSeq(s, 1, Len(s))[k] = s[k] /\ SubSeq(t, 1, Len(s))[k] = t[k]
  BY <1>1
<1>2. ASSUME IsPrefix(s, t) PROVE Len(s) <= Len(t) /\ \A k \in 1..Len(s) : s[k] = t[k]
  <2>1. Len(s) <= Len(t) /\ SubSeq(s, 1, Len(s)) = SubSeq(t, 1, Len(s))
    BY <1>2 DEF IsPrefix
  <2>2. QED
    BY <1>1, <2>1
<1>3. ASSUME Len(s) <= Len(t), \A k \in 1..Len(s) : s[k] = t[k] PROVE IsPrefix(s, t)
  <2>1. SubSeq(s, 1, Len(s)) = SubSeq(t, 1, Len(s))
    BY <1>3
  <2>2. QED
    BY <1>3, <2>1 DEF IsPrefix
<1>4. QED
  BY <1>2, <1>3

LEMMA PrefixesCompose ==
  ASSUME NEW s \in Seq(Nat), NEW t \in Seq(Nat), NEW u \in Seq(Nat),
         IsPrefix(s, t), IsPrefix(t, u)
  PROVE  IsPrefix(s, u)
BY PrefixElements

LEMMA EmptyIsPrefix == \A s \in Seq(Nat) : IsPrefix(<<>>, s)
<1> TAKE s \in Seq(Nat)
<1> DEFINE e == <<>>
<1>1. e \in Seq(Nat) /\ Len(e) = 0 /\ Len(s) \in Nat
  OBVIOUS
<1> HIDE DEF e
<1>2. IsPrefix(e, s)
  <2>1. Len(e) <= Len(s) /\ \A k \in 1..Len(e) : e[k] = s[k]
    BY <1>1
  <2>2. QED
    BY <1>1, <2>1, PrefixElements
<1>3. QED
  BY <1>2 DEF e

\* A path that starts with s goes on with bs if it starts with both.
LEMMA PrefixExtends ==
  ASSUME NEW s \in Seq(Nat), NEW bs \in Seq(Nat), NEW p \in Seq(Nat), IsPrefix(s, p)
  PROVE  /\ s \o bs \in Seq(Nat) /\ Len(s \o bs) = Len(s) + Len(bs)
         /\ IsPrefix(bs, SubSeq(p, Len(s) + 1, Len(p))) <=> IsPrefix(s \o bs, p)
<1> DEFINE rest == SubSeq(p, Len(s) + 1, Len(p))
           all == s \o bs
<1>0. Len(s) \in Nat /\ Len(bs) \in Nat /\ Len(p) \in Nat
  OBVIOUS
<1>1. Len(s) <= Len(p) /\ \A k \in 1..Len(s) : s[k] = p[k]
  BY PrefixElements
<1>2. /\ rest \in Seq(Nat) /\ Len(rest) = Len(p) - Len(s)
      /\ \A k \in 1..(Len(p) - Len(s)) : rest[k] = p[Len(s) + k]
  BY <1>1
<1>3. /\ all \in Seq(Nat) /\ Len(all) = Len(s) + Len(bs)
      /\ \A k \in 1..(Len(s) + Len(bs)) :
           all[k] = IF k <= Len(s) THEN s[k] ELSE bs[k - Len(s)]
  BY ConcatProperties
<1> HIDE DEF rest, all
<1>4. ASSUME IsPrefix(bs, rest) PROVE IsPrefix(all, p)
  <2>1. Len(bs) <= Len(rest) /\ \A k \in 1..Len(bs) : bs[k] = rest[k]
    BY <1>2, <1>4, PrefixElements
  <2>2. ASSUME NEW k \in 1..Len(all) PROVE all[k] = p[k]
    <3>0. k \in 1..(Len(s) + Len(bs))
      BY <1>3
    <3>1. CASE k <= Len(s)
      <4>1. k \in 1..Len(s)
        BY <1>0, <3>0, <3>1
      <4>2. QED
        BY <1>1, <1>3, <3>0, <3>1, <4>1
    <3>2. CASE ~(k <= Len(s))
      <4>1. k - Len(s) \in 1..Len(bs) /\ k - Len(s) \in 1..(Len(p) - Len(s))
            /\ Len(s) + (k - Len(s)) = k
        BY <1>0, <1>2, <2>1, <3>0, <3>2
      <4>2. all[k] = bs[k - Len(s)]
        BY <1>3, <3>0, <3>2
      <4>3. QED
        BY <1>2, <2>1, <4>1, <4>2
    <3>3. QED
      BY <3>1, <3>2
  <2>3. Len(all) <= Len(p)
    BY <1>1, <1>2, <1>3, <2>1
  <2>4. QED
    BY <1>3, <2>2, <2>3, PrefixElements
<1>5. ASSUME IsPrefix(all, p) PROVE IsPrefix(bs, rest)
  <2>1. Len(all) <= Len(p) /\ \A k \in 1..Len(all) : all[k] = p[k]
    BY <1>3, <1>5, PrefixElements
  <2>2. Len(bs) <= Len(rest)
    BY <1>1, <1>2, <1>3, <2>1
  <2>3. ASSUME NEW k \in 1..Len(bs) PROVE bs[k] = rest[k]
    <3>0. Len(bs) <= Len(p) - Len(s) /\ Len(all) = Len(s) + Len(bs)
      BY <1>2, <1>3, <2>2
    <3>1. /\ Len(s) + k \in 1..Len(all) /\ Len(s) + k \in 1..(Len(s) + Len(bs))
          /\ ~(Len(s) + k <= Len(s)) /\ (Len(s) + k) - Len(s) = k
          /\ k \in 1..(Len(p) - Len(s))
      BY <1>0, <3>0
    <3>2. all[Len(s) + k] = bs[k]
      BY <1>3, <3>1
    <3>3. QED
      BY <1>2, <2>1, <3>1, <3>2
  <2>4. QED
    BY <1>2, <2>2, <2>3, PrefixElements
<1>6. QED
  BY <1>3, <1>4, <1>5 DEF rest, all

-----------------------------------------------------------------------------
(* The machine: what holds of a search at each instruction.                  *)

\* The requests that are sent to some table.
SentSome == UNION {Sent(t) : t \in Partial}

K(k) == Known(machine.sm)[k]
B(k) == Behind(machine.sm, Len(Sorted))[k]

\* The place of a route whose prefix the path has.
Has(k) == IsPrefix(prefix(routes[k]), request.path)

\* Of the first b routes of the table those have been tried that the path may
\* match, in the order in which they were added.
Done(b) ==
  /\ tried \in Seq(DOMAIN added)
  /\ Tried = {routes[k] : k \in {j \in 1..b : Has(j)}}
  /\ \A j, k \in DOMAIN tried : j < k => tried[j] < tried[k]

Collected == methods = UNION {added[r].methods : r \in {q \in Tried : Match(q)}}
NoneAccepts == \A r \in Tried : ~Accepts(r)

SearchingAt(k, c) ==
  /\ k \in Places(machine.sm)
  /\ IsPrefix(K(k), request.path)
  /\ c \in 0..Len(request.path)
  /\ ~Loose(machine.sm[k + 1]) => c = Len(K(k))
  /\ Done(B(k))
  /\ found = NoRoute /\ NoneAccepts /\ Collected

Searching == SearchingAt(at, cursor)

NotFound == found = NoRoute /\ Done(Len(routes)) /\ NoneAccepts /\ Collected

Found ==
  \E b \in DOMAIN routes :
    /\ found = routes[b] /\ Accepts(found)
    /\ Done(b) /\ tried # <<>> /\ tried[Len(tried)] = found
    /\ \A r \in Tried : r # found => ~Accepts(r)

MachineSet == machine.routes = routes /\ Searches(machine.sm, Sorted)

Idle == at = 0 /\ cursor = 0 /\ methods = {} /\ tried = <<>> /\ found = NoRoute

MachineInv ==
  /\ added \in Partial
  /\ machine.set => MachineSet
  /\ phase \in {"ready", "run", "matched"}
  /\ phase = "ready" => Idle
  /\ phase # "ready" => machine.set /\ request \in SentSome
  /\ phase = "run" => Searching
  /\ phase = "matched" => NotFound \/ Found

LEMMA SortedIs ==
  ASSUME TableInv
  PROVE  /\ Len(routes) \in Nat /\ DOMAIN routes = 1..Len(routes)
         /\ DOMAIN Sorted = 1..Len(routes) /\ Len(Sorted) = Len(routes)
         /\ (Sorted = <<>>) <=> (Len(routes) = 0)
         /\ \A k \in 1..Len(routes) :
              /\ routes[k] \in DOMAIN added
              /\ Sorted[k] = prefix(routes[k]) /\ Sorted[k] \in Seq(Nat)
<1>1. /\ added \in Seq(Patterns) /\ routes \in Seq(DOMAIN added)
      /\ DOMAIN added = 1..Len(added) /\ Len(added) \in Nat
      /\ Len(routes) \in Nat /\ DOMAIN routes = 1..Len(routes)
  BY DEF TableInv, RoutesType
<1>2. \A n \in DOMAIN added : prefix(n) \in Seq(Nat)
  BY <1>1, TablesAssumption DEF prefix
<1>3. \A k \in 1..Len(routes) : routes[k] \in DOMAIN added
  BY <1>1
<1>4. \A k \in 1..Len(routes) : Sorted[k] = prefix(routes[k]) /\ Sorted[k] \in Seq(Nat)
  BY <1>1, <1>2, <1>3 DEF Sorted
<1>5. Sorted \in [1..Len(routes) -> Seq(Nat)]
  BY <1>1, <1>4 DEF Sorted
<1>6. Sorted \in Seq(Seq(Nat)) /\ Len(Sorted) = Len(routes)
  BY <1>1, <1>5
<1>7. (Sorted = <<>>) <=> (Len(Sorted) = 0)
  BY <1>6
<1>8. QED
  BY <1>1, <1>3, <1>4, <1>5, <1>6, <1>7

\* What is certain of the instruction at a place of the code.
At(k) ==
  /\ machine.sm[k + 1].mode \subseteq Modes
  /\ machine.sm[k + 1].bs \in Seq(Nat) /\ machine.sm[k + 1].i \in Int
  /\ K(k) \in Seq(Nat)
  /\ B(k) \in 0..Len(routes)
  /\ Labelled(machine.sm, Sorted, Known(machine.sm), Behind(machine.sm, Len(Sorted)), k)

LEMMA CodeIs ==
  ASSUME TableInv, MachineSet
  PROVE  /\ Len(machine.sm) \in Nat
         /\ machine.sm = <<>> <=> Len(machine.sm) = 0
         /\ machine.sm = <<>> <=> Len(routes) = 0
         /\ \A k \in Places(machine.sm) : At(k)
<1>1. machine.sm \in Seq(Instructions) /\ (machine.sm = <<>> <=> Sorted = <<>>)
  BY DEF MachineSet, Searches
<1>2. Len(machine.sm) \in Nat /\ (machine.sm = <<>> <=> Len(machine.sm) = 0)
      /\ \A k \in 1..Len(machine.sm) : machine.sm[k] \in Instructions
  BY <1>1
<1>3. ASSUME NEW k \in Places(machine.sm) PROVE At(k)
  <2>1. k + 1 \in 1..Len(machine.sm)
    BY <1>2 DEF Places
  <2>2. /\ machine.sm[k + 1].mode \subseteq Modes
        /\ machine.sm[k + 1].bs \in Seq(Nat) /\ machine.sm[k + 1].i \in Int
    BY <1>2, <2>1 DEF Instructions
  <2>3. /\ K(k) \in Seq(Nat) /\ B(k) \in 0..Len(Sorted)
        /\ Labelled(machine.sm, Sorted, Known(machine.sm), Behind(machine.sm, Len(Sorted)), k)
    BY DEF MachineSet, Searches, K, B
  <2>4. QED
    BY <2>2, <2>3, SortedIs DEF At
<1>4. QED
  BY <1>1, <1>2, <1>3, SortedIs

LEMMA DoneGrows ==
  ASSUME NEW b \in Nat, NEW c \in Nat, b <= c, Done(b), \A j \in (b + 1)..c : ~Has(j)
  PROVE  Done(c)
<1>1. {j \in 1..b : Has(j)} = {j \in 1..c : Has(j)}
  OBVIOUS
<1>2. QED
  BY <1>1 DEF Done

\* No path that starts with what is known has the prefix of a skipped route.
LEMMA SkippedHasNot ==
  ASSUME NEW p \in Seq(Nat), NEW P \in Seq(Nat), NEW holds \in Seq(Nat), IsPrefix(holds, p),
         NEW all \in Seq(Nat), NEW m \in BOOLEAN, ~m => ~IsPrefix(all, p),
         ~Comparable(P, holds) \/ (~m /\ IsPrefix(all, P))
  PROVE  ~IsPrefix(P, p)
<1> SUFFICES ASSUME IsPrefix(P, p) PROVE FALSE
  OBVIOUS
<1>1. CASE ~Comparable(P, holds)
  BY <1>1, PrefixesOfOne DEF Comparable
<1>2. CASE ~m /\ IsPrefix(all, P)
  BY <1>2, PrefixesCompose
<1>3. QED
  BY <1>1, <1>2

LEMMA RequestIs ==
  \A q \in SentSome :
    /\ q.path \in Seq(Nat) /\ Len(q.path) \in Nat
    /\ \A r \in Patterns : Matching(r, q.path) => IsPrefix(r.literals[1], q.path)
BY PatternAssumption DEF SentSome

\* What a match of bytes says of the path.
Matched ==
  LET all == K(at) \o sm.bs IN
  /\ all \in Seq(Nat)
  /\ match => /\ IsPrefix(all, request.path)
              /\ cursor + Len(sm.bs) \in 0..Len(request.path)
              /\ ~Loose(sm) => cursor + Len(sm.bs) = Len(all)
  /\ ~match => ~IsPrefix(all, request.path) /\ sm.bs # <<>>

LEMMA MatchTells ==
  ASSUME TableInv, MachineSet, Searching, request \in SentSome, "cursor" \notin sm.mode
  PROVE  Matched
<1> DEFINE p == request.path
           k == K(at)
           bs == sm.bs
<1>1. at \in Places(machine.sm) /\ IsPrefix(k, p) /\ cursor \in 0..Len(p)
      /\ (~Loose(sm) => cursor = Len(k))
  BY DEF Searching, SearchingAt, sm
<1>2. /\ k \in Seq(Nat) /\ bs \in Seq(Nat) /\ p \in Seq(Nat)
      /\ Len(k) \in Nat /\ Len(bs) \in Nat /\ Len(p) \in Nat
  BY <1>1, CodeIs, RequestIs DEF At, sm
<1>3. match <=> IsPrefix(bs, SubSeq(p, cursor + 1, Len(p)))
  BY DEF match
<1>4. Loose(sm) => bs = <<>>
  BY DEF Loose, Resumes
<1> HIDE DEF p, k, bs
<1>5. k \o bs \in Seq(Nat) /\ Len(k \o bs) = Len(k) + Len(bs)
      /\ (IsPrefix(bs, SubSeq(p, Len(k) + 1, Len(p))) <=> IsPrefix(k \o bs, p))
  BY <1>1, <1>2, PrefixExtends
<1>6. SubSeq(p, cursor + 1, Len(p)) \in Seq(Nat)
  BY <1>1, <1>2
<1>7. CASE bs = <<>>
  <2>1. match
    BY <1>3, <1>6, <1>7, EmptyIsPrefix
  <2>2. IsPrefix(bs, SubSeq(p, Len(k) + 1, Len(p)))
    <3>1. SubSeq(p, Len(k) + 1, Len(p)) \in Seq(Nat)
      BY <1>2
    <3>2. QED
      BY <1>7, <3>1, EmptyIsPrefix
  <2>3. Len(bs) = 0
    BY <1>7
  <2>4. cursor + Len(bs) = cursor /\ Len(k \o bs) = Len(k)
    <3>1. Len(k \o bs) = Len(k) + Len(bs) /\ Len(k) \in Nat /\ cursor \in Nat
      BY <1>1, <1>2, <1>5
    <3>2. QED
      BY <2>3, <3>1
  <2>5. QED
    BY <1>1, <1>5, <2>1, <2>2, <2>4 DEF Matched, p, k, bs
<1>8. CASE bs # <<>>
  <2>1. cursor = Len(k) /\ ~Loose(sm)
    BY <1>1, <1>4, <1>8
  <2>2. match <=> IsPrefix(k \o bs, p)
    BY <1>3, <1>5, <2>1
  <2>3. ASSUME match PROVE cursor + Len(bs) \in 0..Len(p)
    <3>1. Len(k \o bs) <= Len(p)
      BY <1>2, <1>5, <2>2, <2>3, PrefixElements
    <3>2. QED
      BY <1>1, <1>2, <1>5, <2>1, <3>1
  <2>4. cursor + Len(bs) = Len(k \o bs)
    BY <1>5, <2>1
  <2>5. QED
    BY <1>5, <1>8, <2>2, <2>3, <2>4 DEF Matched, p, k, bs
<1>9. QED
  BY <1>7, <1>8

Labels(k) == Labelled(machine.sm, Sorted, Known(machine.sm), Behind(machine.sm, Len(Sorted)), k)
BranchLabels(m) ==
  Branches(machine.sm, Sorted, Known(machine.sm), Behind(machine.sm, Len(Sorted)), at, m)

Advanced == IF match THEN cursor + Len(sm.bs) ELSE cursor

\* A jump or a run of bytes leads on with the search, or ends it.
LEMMA BranchLeads ==
  ASSUME TableInv, MachineSet, Searching, request \in SentSome,
         "cursor" \notin sm.mode, ~(match /\ "route" \in sm.mode)
  PROVE  IF match = ("jump" \in sm.mode)
           THEN IF "fail" \in sm.mode THEN NotFound ELSE SearchingAt(sm.i, Advanced)
           ELSE SearchingAt(at + 1, Advanced)
<1> DEFINE all == K(at) \o sm.bs
           holds == IF match THEN all ELSE K(at)
           Past(n) == /\ B(at) <= n
                      /\ \A j \in (B(at) + 1)..n :
                           \/ ~Comparable(Sorted[j], holds)
                           \/ ~match /\ IsPrefix(all, Sorted[j])
           To(t) == /\ t \in Places(machine.sm)
                    /\ IF Loose(machine.sm[t + 1]) THEN IsPrefix(K(t), holds)
                       ELSE ~Loose(sm) /\ K(t) = holds
                    /\ Past(B(t))
<1>1. /\ at \in Places(machine.sm) /\ IsPrefix(K(at), request.path)
      /\ cursor \in 0..Len(request.path) /\ (~Loose(sm) => cursor = Len(K(at)))
      /\ Done(B(at)) /\ found = NoRoute /\ NoneAccepts /\ Collected
  BY DEF Searching, SearchingAt, sm
<1>2. /\ K(at) \in Seq(Nat) /\ B(at) \in 0..Len(routes) /\ Labels(at)
      /\ sm.bs \in Seq(Nat) /\ request.path \in Seq(Nat)
  BY <1>1, CodeIs, RequestIs DEF At, Labels, sm
<1>3. Matched
  BY MatchTells
<1>4. match \in BOOLEAN
  BY DEF match, IsPrefix
<1>5. "route" \notin sm.mode
  <2>1. ASSUME "route" \in sm.mode PROVE sm.bs = <<>>
    BY <1>2, <2>1 DEF Labels, Labelled, TriesNext, sm
  <2>2. QED
    BY <1>3, <2>1 DEF Matched
<1>6. BranchLabels(match)
  <2>1. BranchLabels(TRUE) /\ (sm.bs # <<>> => BranchLabels(FALSE))
    BY <1>2, <1>5 DEF Labels, Labelled, BranchLabels, sm
  <2>2. ~match => sm.bs # <<>>
    BY <1>3 DEF Matched
  <2>3. CASE match = TRUE
    BY <2>1, <2>3
  <2>4. CASE match = FALSE
    BY <2>1, <2>2, <2>4
  <2>5. QED
    BY <1>4, <2>3, <2>4
<1>7. /\ match # ("jump" \in sm.mode) => To(at + 1)
      /\ match = ("jump" \in sm.mode) /\ "fail" \in sm.mode => Past(Len(Sorted))
      /\ match = ("jump" \in sm.mode) /\ "fail" \notin sm.mode => To(sm.i)
  BY <1>6 DEF BranchLabels, Branches, K, B, sm
<1>8. /\ all \in Seq(Nat) /\ holds \in Seq(Nat) /\ IsPrefix(holds, request.path)
      /\ ~match => ~IsPrefix(all, request.path)
  BY <1>1, <1>2, <1>3 DEF Matched
<1> HIDE DEF all, holds
<1>9. ASSUME NEW n \in 0..Len(routes), Past(n) PROVE Done(n)
  <2>1. ASSUME NEW j \in (B(at) + 1)..n PROVE ~Has(j)
    <3>1. j \in 1..Len(routes)
      BY <1>2, SortedIs
    <3>2. Sorted[j] \in Seq(Nat) /\ Sorted[j] = prefix(routes[j])
      BY <3>1, SortedIs
    <3>3. ~Comparable(Sorted[j], holds) \/ (~match /\ IsPrefix(all, Sorted[j]))
      BY <1>9
    <3>4. ~IsPrefix(Sorted[j], request.path)
      BY <1>2, <1>4, <1>8, <3>2, <3>3, SkippedHasNot
    <3>5. QED
      BY <3>2, <3>4 DEF Has
  <2>2. B(at) <= n /\ B(at) \in Nat /\ n \in Nat
    BY <1>2, <1>9, SortedIs
  <2>3. QED
    BY <1>1, <2>1, <2>2, DoneGrows
<1>10. /\ Advanced \in 0..Len(request.path)
       /\ ~Loose(sm) => Advanced = Len(holds)
  BY <1>1, <1>3 DEF Matched, Advanced, holds, all
<1>11. ASSUME NEW t, To(t) PROVE SearchingAt(t, Advanced)
  <2>1. t \in Places(machine.sm) /\ Past(B(t))
    BY <1>11
  <2>2. K(t) \in Seq(Nat) /\ B(t) \in 0..Len(routes)
    BY <2>1, CodeIs DEF At
  <2>3. Done(B(t))
    BY <1>9, <2>1, <2>2
  <2>4. IsPrefix(K(t), request.path)
    BY <1>2, <1>8, <1>11, <2>2, PrefixesCompose
  <2>5. ~Loose(machine.sm[t + 1]) => Advanced = Len(K(t))
    BY <1>10, <1>11
  <2>6. QED
    BY <1>1, <1>10, <2>1, <2>3, <2>4, <2>5 DEF SearchingAt
<1>12. Past(Len(Sorted)) => NotFound
  <2>1. Len(Sorted) \in 0..Len(routes) /\ Len(Sorted) = Len(routes)
    BY SortedIs
  <2>2. QED
    BY <1>1, <1>9, <2>1 DEF NotFound
<1> HIDE DEF Past, To
<1>13. QED
  BY <1>4, <1>7, <1>11, <1>12

\* A route that is tried is the next of those that the path may match.
LEMMA RouteIsNext ==
  ASSUME TableInv, MachineSet, Searching, request \in SentSome,
         "cursor" \notin sm.mode, "route" \in sm.mode
  PROVE  /\ B(at) + 1 \in 1..Len(routes) /\ machine.routes[sm.i] = routes[B(at) + 1]
         /\ Has(B(at) + 1)
         /\ at + 1 \in Places(machine.sm) /\ K(at + 1) = K(at) /\ B(at + 1) = B(at) + 1
         /\ cursor = Len(K(at + 1))
<1>1. /\ at \in Places(machine.sm) /\ IsPrefix(K(at), request.path)
      /\ (~Loose(sm) => cursor = Len(K(at)))
  BY DEF Searching, SearchingAt, sm
<1>2. K(at) \in Seq(Nat) /\ B(at) \in 0..Len(routes) /\ Labels(at) /\ request.path \in Seq(Nat)
  BY <1>1, CodeIs, RequestIs DEF At, Labels
<1>3. /\ "jump" \notin sm.mode /\ sm.i = B(at) + 1 /\ B(at) + 1 \in DOMAIN Sorted
      /\ IsPrefix(Sorted[B(at) + 1], K(at))
      /\ at + 1 \in Places(machine.sm) /\ K(at + 1) = K(at) /\ B(at + 1) = B(at) + 1
  BY <1>2 DEF Labels, Labelled, TriesNext, Sequel, sm, K, B
<1>4. B(at) + 1 \in 1..Len(routes)
  BY <1>3, SortedIs
<1>5. Sorted[B(at) + 1] \in Seq(Nat) /\ Sorted[B(at) + 1] = prefix(routes[B(at) + 1])
  BY <1>4, SortedIs
<1>6. Has(B(at) + 1)
  BY <1>1, <1>2, <1>3, <1>5, PrefixesCompose DEF Has
<1>7. cursor = Len(K(at + 1))
  BY <1>1, <1>3 DEF Loose, Resumes
<1>8. machine.routes = routes
  BY DEF MachineSet
<1>9. QED
  BY <1>3, <1>4, <1>6, <1>7, <1>8

LEMMA TriedIs ==
  ASSUME NEW b \in Nat, Done(b)
  PROVE  /\ Len(tried) \in Nat /\ DOMAIN tried = 1..Len(tried)
         /\ \A j \in DOMAIN tried : \E k \in 1..b : Has(k) /\ tried[j] = routes[k]
<1>1. tried \in Seq(DOMAIN added) /\ Tried = {routes[k] : k \in {j \in 1..b : Has(j)}}
  BY DEF Done
<1>2. ASSUME NEW j \in DOMAIN tried PROVE \E k \in 1..b : Has(k) /\ tried[j] = routes[k]
  <2>1. tried[j] \in Tried
    BY DEF Tried
  <2>2. QED
    BY <1>1, <2>1
<1>3. QED
  BY <1>1, <1>2

\* The next route comes after those that were tried.
LEMMA TriesInOrder ==
  ASSUME TableInv, request.path \in Seq(Nat), NEW b \in Nat, b + 1 \in 1..Len(routes),
         Done(b), Has(b + 1), NEW r, r = routes[b + 1],
         tried' = Append(tried, r), UNCHANGED <<added, routes, request>>
  PROVE  /\ Done(b + 1)' /\ Tried' = Tried \cup {r}
         /\ tried' # <<>> /\ tried'[Len(tried')] = r
<1> DEFINE n == Len(tried)
<1>1. /\ tried \in Seq(DOMAIN added) /\ n \in Nat /\ DOMAIN tried = 1..n
      /\ \A j \in 1..n : \E k \in 1..b : Has(k) /\ tried[j] = routes[k]
  BY TriedIs DEF Done
<1>2. r \in DOMAIN added /\ DOMAIN routes = 1..Len(routes) /\ Len(routes) \in Nat
  BY SortedIs
<1>3. /\ tried' \in Seq(DOMAIN added) /\ Len(tried') = n + 1 /\ DOMAIN tried' = 1..(n + 1)
      /\ tried'[n + 1] = r /\ \A j \in 1..n : tried'[j] = tried[j]
  BY <1>1, <1>2
<1>4. Tried' = Tried \cup {r}
  <2>1. Tried' = {tried'[j] : j \in 1..(n + 1)} /\ Tried = {tried[j] : j \in 1..n}
    BY <1>1, <1>3 DEF Tried
  <2>2. 1..(n + 1) = (1..n) \cup {n + 1}
    BY <1>1
  <2>3. QED
    BY <1>3, <2>1, <2>2
<1>5. \A j \in 1..n : tried[j] < r
  <2> TAKE j \in 1..n
  <2>1. PICK k \in 1..b : Has(k) /\ tried[j] = routes[k]
    BY <1>1
  <2>2. k \in DOMAIN routes /\ b + 1 \in DOMAIN routes /\ k < b + 1
    BY <1>2
  <2>3. routes[k] < routes[b + 1]
    BY <2>1, <2>2, InOrder DEF SearchInOrder, Has
  <2>4. QED
    BY <2>1, <2>3
<1>6. \A j, k \in 1..(n + 1) : j < k => tried'[j] < tried'[k]
  <2> SUFFICES ASSUME NEW j \in 1..(n + 1), NEW k \in 1..(n + 1), j < k
               PROVE  tried'[j] < tried'[k]
    OBVIOUS
  <2>1. j \in 1..n
    BY <1>1
  <2>2. CASE k = n + 1
    BY <1>3, <1>5, <2>1, <2>2
  <2>3. CASE k # n + 1
    <3>1. k \in 1..n
      BY <1>1, <2>3
    <3>2. QED
      BY <1>1, <1>3, <2>1, <3>1 DEF Done
  <2>4. QED
    BY <2>2, <2>3
<1>7. \A k : Has(k)' <=> Has(k)
  BY DEF Has, prefix
<1>8. Tried' = {routes'[k] : k \in {j \in 1..(b + 1) : Has(j)'}}
  <2>1. Tried = {routes[k] : k \in {j \in 1..b : Has(j)}}
    BY DEF Done
  <2>2. {j \in 1..(b + 1) : Has(j)'} = {j \in 1..b : Has(j)} \cup {b + 1}
    BY <1>7
  <2>3. QED
    BY <1>4, <2>1, <2>2
<1>9. Done(b + 1)'
  BY <1>3, <1>6, <1>8 DEF Done
<1>10. tried' # <<>> /\ tried'[Len(tried')] = r
  BY <1>1, <1>3
<1>11. QED
  BY <1>4, <1>9, <1>10

-----------------------------------------------------------------------------
(* The steps of the router.                                                  *)

RouterInv == TableInv /\ MachineInv

LEMMA TableStays ==
  ASSUME UNCHANGED <<added, routes>>
  PROVE  /\ TableInv => TableInv'
         /\ Sorted' = Sorted
         /\ MachineSet /\ UNCHANGED machine => MachineSet'
         /\ \A k : Has(k) /\ UNCHANGED request => Has(k)'
<1>1. TableInv => TableInv'
  BY DEF TableInv, RoutesType, RoutesInOrder, prefix
<1>2. Sorted' = Sorted
  BY DEF Sorted, prefix
<1>3. QED
  BY <1>1, <1>2 DEF MachineSet, Has, prefix

LEMMA SearchStays ==
  ASSUME UNCHANGED <<added, routes, request, methods, tried, found>>
  PROVE  /\ \A b : Done(b) => Done(b)'
         /\ NoneAccepts => NoneAccepts'
         /\ Collected => Collected'
         /\ NotFound => NotFound'
         /\ Found => Found'
<1>1. Tried' = Tried
  BY DEF Tried
<1>2. \A k : Has(k)' <=> Has(k)
  BY DEF Has, prefix
<1>3. \A r : (Match(r)' <=> Match(r)) /\ (Accepts(r)' <=> Accepts(r))
  BY DEF Match, Accepts
<1>4. ASSUME NEW b, Done(b) PROVE Done(b)'
  <2>1. {routes'[k] : k \in {j \in 1..b : Has(j)'}} = {routes[k] : k \in {j \in 1..b : Has(j)}}
    BY <1>2
  <2>2. QED
    BY <1>1, <1>4, <2>1 DEF Done
<1>5. NoneAccepts => NoneAccepts'
  BY <1>1, <1>3 DEF NoneAccepts
<1>6. Collected => Collected'
  <2>1. {q \in Tried' : Match(q)'} = {q \in Tried : Match(q)}
    BY <1>1, <1>3
  <2>2. QED
    BY <2>1 DEF Collected
<1>7. NotFound => NotFound'
  <2>1. Done(Len(routes)) => Done(Len(routes))'
    <3>1. PICK b : b = Len(routes)
      OBVIOUS
    <3>2. Done(b) => Done(b)'
      BY <1>4
    <3>3. QED
      BY <3>1, <3>2 DEF Done
  <2>2. QED
    BY <1>5, <1>6, <2>1 DEF NotFound
<1>8. ASSUME Found PROVE Found'
  <2>1. PICK b \in DOMAIN routes :
          /\ found = routes[b] /\ Accepts(found)
          /\ Done(b) /\ tried # <<>> /\ tried[Len(tried)] = found
          /\ \A r \in Tried : r # found => ~Accepts(r)
    BY <1>8 DEF Found
  <2>2. Done(b)'
    BY <1>4, <2>1
  <2>3. Accepts(found)'
    BY <2>1 DEF Accepts, Match
  <2>4. \A r \in Tried' : r # found' => ~Accepts(r)'
    BY <1>1, <1>3, <2>1
  <2>5. QED
    BY <2>1, <2>2, <2>3, <2>4 DEF Found
<1>9. QED
  BY <1>4, <1>5, <1>6, <1>7, <1>8

\* What is known of a search at a place holds when the machine is there.
LEMMA SearchMoves ==
  ASSUME NEW k, NEW c, SearchingAt(k, c), at' = k, cursor' = c,
         UNCHANGED <<added, routes, machine, request, methods, tried, found>>
  PROVE  Searching'
<1>1. Sorted' = Sorted
  BY TableStays
<1>2. K(k)' = K(k) /\ B(k)' = B(k)
  BY <1>1 DEF K, B
<1>3. Done(B(k))'
  <2>1. PICK b : b = B(k)
    OBVIOUS
  <2>2. Done(b)'
    BY <2>1, SearchStays DEF SearchingAt
  <2>3. QED
    BY <1>2, <2>1, <2>2 DEF Done
<1>4. NoneAccepts' /\ Collected'
  BY SearchStays DEF SearchingAt
<1>5. SearchingAt(k, c)'
  BY <1>2, <1>3, <1>4 DEF SearchingAt
<1>6. QED
  BY <1>5 DEF Searching, SearchingAt, Done, K, B

LEMMA RunKeepsInv ==
  ASSUME RouterInv, UNCHANGED <<added, routes, machine>>,
         phase' \in {"ready", "run", "matched"},
         phase' = "ready" => Idle',
         phase' # "ready" => machine.set /\ request' \in SentSome,
         phase' = "run" => Searching',
         phase' = "matched" => NotFound' \/ Found'
  PROVE  RouterInv'
<1>1. TableInv' /\ (machine.set' => MachineSet')
  BY TableStays DEF RouterInv, MachineInv
<1>2. QED
  BY <1>1 DEF RouterInv, MachineInv

LEMMA InitMachine == InitRouter => RouterInv
<1> SUFFICES ASSUME InitRouter PROVE RouterInv
  OBVIOUS
<1>1. TableInv
  BY DEF InitRouter, InitTable, TableInv, RoutesType, RoutesInOrder
<1>2. MachineInv
  BY DEF InitRouter, InitTable, MachineInv, Idle, NoMachine, Partial
<1>3. QED
  BY <1>1, <1>2 DEF RouterInv

LEMMA AddedStays ==
  ASSUME TableInv, NEW r \in Addable, insert(r)
  PROVE  added' \in Partial
<1>1. PICK u \in Tables : IsStrictPrefix(added, u) /\ r = u[Len(added) + 1]
  BY DEF Addable
<1>2. u \in Seq(Patterns) /\ added \in Seq(Patterns) /\ Len(added) \in Nat /\ Len(u) \in Nat
  BY TablesAssumption DEF TableInv, RoutesType
<1>3. Len(added) <= Len(u) /\ SubSeq(added, 1, Len(added)) = SubSeq(u, 1, Len(added)) /\ added # u
  BY <1>1 DEF IsStrictPrefix, IsPrefix
<1>4. Len(added) # Len(u)
  <2>1. SubSeq(added, 1, Len(added)) = added /\ SubSeq(u, 1, Len(u)) = u
    BY <1>2
  <2>2. QED
    BY <1>3, <2>1
<1> DEFINE n == Len(added) + 1
<1>5. n \in 1..Len(u) /\ n \in DOMAIN u
  BY <1>2, <1>3, <1>4
<1>6. Append(added, r) = SubSeq(u, 1, n)
  <2>1. \A k \in 1..Len(added) : added[k] = u[k]
    <3>1. \A k \in 1..Len(added) : /\ SubSeq(added, 1, Len(added))[k] = added[k]
                                   /\ SubSeq(u, 1, Len(added))[k] = u[k]
      BY <1>2, <1>3
    <3>2. QED
      BY <1>3, <3>1
  <2>2. /\ SubSeq(u, 1, n) \in Seq(Patterns) /\ Len(SubSeq(u, 1, n)) = n
        /\ \A k \in 1..n : SubSeq(u, 1, n)[k] = u[k]
    BY <1>2, <1>5
  <2>3. /\ Append(added, r) \in Seq(Patterns) /\ Len(Append(added, r)) = n
        /\ Append(added, r)[n] = r /\ \A k \in 1..Len(added) : Append(added, r)[k] = added[k]
    BY <1>2, AddableType DEF TableInv
  <2>4. \A k \in 1..n : Append(added, r)[k] = SubSeq(u, 1, n)[k]
    BY <1>1, <1>2, <2>1, <2>2, <2>3
  <2>5. QED
    BY <2>2, <2>3, <2>4, SeqEqual
<1>7. QED
  BY <1>5, <1>6 DEF insert, Partial

LEMMA AddKeepsInv == RouterInv /\ Add => RouterInv'
<1> SUFFICES ASSUME RouterInv, phase = "ready", NEW r \in Addable, handle(r) PROVE RouterInv'
  BY DEF Add
<1>1. insert(r) /\ machine' = NoMachine /\ UNCHANGED <<phase, running>>
  BY DEF handle, setMachine
<1>2. TableInv'
  BY <1>1, InsertKeepsOrder DEF RouterInv
<1>3. added' \in Partial
  BY <1>1, AddedStays DEF RouterInv
<1>4. Idle' /\ phase' = "ready" /\ ~machine'.set
  BY <1>1 DEF RouterInv, MachineInv, running, Idle, NoMachine
<1>5. QED
  BY <1>2, <1>3, <1>4 DEF RouterInv, MachineInv

LEMMA StartsSearch ==
  ASSUME RouterInv, CompilesToSearch, NEW q \in Sent(added), getMatch(q)
  PROVE  RouterInv'
<1>1. /\ phase = "ready" /\ request' = q /\ phase' = IF machine'.sm = <<>> THEN "matched" ELSE "run"
      /\ machine' = IF machine.set THEN machine
                    ELSE [set |-> TRUE, sm |-> Compiled(Sorted), routes |-> routes]
      /\ UNCHANGED <<added, routes, at, cursor, methods, tried, found>>
  BY DEF getMatch
<1>2. TableInv' /\ Sorted' = Sorted
  BY <1>1, TableStays DEF RouterInv
<1>3. machine'.set /\ machine'.routes = routes /\ Searches(machine'.sm, Sorted)
  <2>1. CASE machine.set
    BY <1>1, <2>1 DEF RouterInv, MachineInv, MachineSet
  <2>2. CASE ~machine.set
    BY <1>1, <2>2 DEF CompilesToSearch
  <2>3. QED
    BY <2>1, <2>2
<1>4. MachineSet'
  BY <1>1, <1>2, <1>3 DEF MachineSet
<1>5. request' \in SentSome
  BY <1>1 DEF RouterInv, MachineInv, SentSome
<1>6. Idle'
  BY <1>1 DEF RouterInv, MachineInv, Idle
<1>7. Done(0)' /\ NoneAccepts' /\ Collected'
  <2>1. tried' = <<>> /\ methods' = {}
    BY <1>6 DEF Idle
  <2>2. Tried' = {}
    BY <2>1 DEF Tried
  <2>3. QED
    BY <2>1, <2>2 DEF Done, NoneAccepts, Collected
<1>8. CASE machine'.sm = <<>>
  <2>1. Len(routes') = 0
    BY <1>1, <1>3, <1>8, SortedIs DEF Searches, RouterInv
  <2>2. Done(Len(routes))'
    BY <1>7, <2>1 DEF Done
  <2>3. NotFound'
    BY <1>6, <1>7, <2>2 DEF NotFound, Idle
  <2>4. QED
    BY <1>1, <1>2, <1>3, <1>4, <1>5, <1>8, <2>3 DEF RouterInv, MachineInv
<1>9. CASE machine'.sm # <<>>
  <2>1. 0 \in Places(machine'.sm)
    <3>1. machine'.sm \in Seq(Instructions)
      BY <1>3 DEF Searches
    <3>2. Len(machine'.sm) \in Nat /\ Len(machine'.sm) > 0
      BY <1>9, <3>1
    <3>3. QED
      BY <3>2 DEF Places
  <2>2. K(0)' = <<>> /\ B(0)' = 0
    BY <1>2, <1>3, <1>9 DEF Searches, K, B
  <2>3. IsPrefix(<<>>, request'.path) /\ 0 \in 0..Len(request'.path)
    <3>1. request'.path \in Seq(Nat) /\ Len(request'.path) \in Nat
      BY <1>5, RequestIs DEF SentSome
    <3>2. QED
      BY <3>1, EmptyIsPrefix
  <2>4. Done(B(0))'
    BY <1>7, <2>2 DEF Done
  <2>5. Len(<<>>) = 0
    OBVIOUS
  <2>6. SearchingAt(0, 0)'
    BY <1>6, <1>7, <2>1, <2>2, <2>3, <2>4, <2>5 DEF SearchingAt, Idle
  <2>7. Searching'
    BY <1>6, <2>6 DEF Searching, SearchingAt, Idle, Done, K, B
  <2>8. QED
    BY <1>1, <1>2, <1>3, <1>4, <1>5, <1>9, <2>7 DEF RouterInv, MachineInv
<1>10. QED
  BY <1>8, <1>9

LEMMA ResetKeepsInv == RouterInv /\ Reset => RouterInv'
<1> SUFFICES ASSUME RouterInv, Reset PROVE RouterInv'
  OBVIOUS
<1>1. /\ phase = "run" /\ "cursor" \in sm.mode /\ cursor' = sm.i /\ at' = at + 1
      /\ UNCHANGED <<added, routes, machine, request, phase, methods, tried, found>>
  BY DEF Reset
<1>2. TableInv /\ MachineSet /\ machine.set /\ request \in SentSome /\ Searching
  BY <1>1 DEF RouterInv, MachineInv
<1>3. /\ at \in Places(machine.sm) /\ IsPrefix(K(at), request.path)
      /\ Done(B(at)) /\ found = NoRoute /\ NoneAccepts /\ Collected
  BY <1>2 DEF Searching, SearchingAt
<1>4. K(at) \in Seq(Nat) /\ B(at) \in Nat /\ Labels(at) /\ request.path \in Seq(Nat)
  BY <1>2, <1>3, CodeIs, RequestIs, SortedIs DEF At, Labels
<1>5. /\ sm.i = Len(K(at)) /\ at + 1 \in Places(machine.sm)
      /\ K(at + 1) = K(at) /\ B(at + 1) = B(at)
  BY <1>1, <1>4 DEF Labels, Labelled, SetsCursor, Sequel, sm, K, B
<1>6. Len(K(at)) \in 0..Len(request.path)
  BY <1>3, <1>4, PrefixElements
<1>7. SearchingAt(at + 1, sm.i)
  BY <1>3, <1>5, <1>6 DEF SearchingAt
<1>8. PICK k, c : k = at + 1 /\ c = sm.i
  OBVIOUS
<1>9. Searching'
  BY <1>1, <1>7, <1>8, SearchMoves
<1>10. QED
  BY <1>1, <1>2, <1>9, RunKeepsInv

LEMMA BranchKeepsInv == RouterInv /\ Branch => RouterInv'
<1> SUFFICES ASSUME RouterInv, Branch PROVE RouterInv'
  OBVIOUS
<1>1. /\ phase = "run" /\ "cursor" \notin sm.mode /\ ~(match /\ "route" \in sm.mode)
      /\ cursor' = Advanced
      /\ IF match = ("jump" \in sm.mode)
           THEN IF "fail" \in sm.mode THEN phase' = "matched" /\ UNCHANGED at
                ELSE at' = sm.i /\ UNCHANGED phase
           ELSE at' = at + 1 /\ UNCHANGED phase
      /\ UNCHANGED <<added, routes, machine, request, methods, tried, found>>
  BY DEF Branch, Advanced
<1>2. TableInv /\ MachineSet /\ machine.set /\ request \in SentSome /\ Searching
  BY <1>1 DEF RouterInv, MachineInv
<1>3. IF match = ("jump" \in sm.mode)
        THEN IF "fail" \in sm.mode THEN NotFound ELSE SearchingAt(sm.i, Advanced)
        ELSE SearchingAt(at + 1, Advanced)
  BY <1>1, <1>2, BranchLeads
<1>4. ASSUME phase' = "matched" PROVE NotFound'
  <2>1. NotFound
    BY <1>1, <1>3, <1>4
  <2>2. QED
    BY <1>1, <2>1, SearchStays
<1>5. ASSUME phase' # "matched" PROVE phase' = "run" /\ Searching'
  <2>1. PICK k, c : k = (IF match = ("jump" \in sm.mode) THEN sm.i ELSE at + 1) /\ c = Advanced
    OBVIOUS
  <2>2. at' = k /\ cursor' = c /\ SearchingAt(k, c) /\ phase' = "run"
    BY <1>1, <1>3, <1>5, <2>1
  <2>3. QED
    BY <1>1, <2>2, SearchMoves
<1>6. phase' \in {"run", "matched"}
  BY <1>1
<1>7. QED
  BY <1>1, <1>2, <1>4, <1>5, <1>6, RunKeepsInv

LEMMA MatchKeepsInv == RouterInv /\ matchRoute => RouterInv'
<1> SUFFICES ASSUME RouterInv, matchRoute PROVE RouterInv'
  OBVIOUS
<1>1. PICK r : r = machine.routes[sm.i]
  OBVIOUS
<1>2. /\ phase = "run" /\ "cursor" \notin sm.mode /\ "route" \in sm.mode
      /\ tried' = Append(tried, r) /\ Collect(r)
      /\ IF Accepts(r) THEN phase' = "matched" /\ found' = r /\ UNCHANGED at
         ELSE at' = at + 1 /\ UNCHANGED <<phase, found>>
      /\ UNCHANGED <<added, routes, machine, request, cursor>>
  BY <1>1 DEF matchRoute, Accepts
<1>3. TableInv /\ MachineSet /\ machine.set /\ request \in SentSome /\ Searching
  BY <1>2 DEF RouterInv, MachineInv
<1>4. /\ at \in Places(machine.sm) /\ IsPrefix(K(at), request.path)
      /\ cursor \in 0..Len(request.path)
      /\ Done(B(at)) /\ found = NoRoute /\ NoneAccepts /\ Collected
  BY <1>3 DEF Searching, SearchingAt
<1>5. B(at) \in 0..Len(routes) /\ request.path \in Seq(Nat)
  BY <1>3, <1>4, CodeIs, RequestIs DEF At
<1>6. /\ B(at) + 1 \in 1..Len(routes) /\ r = routes[B(at) + 1] /\ Has(B(at) + 1)
      /\ at + 1 \in Places(machine.sm) /\ K(at + 1) = K(at) /\ B(at + 1) = B(at) + 1
      /\ cursor = Len(K(at + 1))
  BY <1>1, <1>2, <1>3, RouteIsNext
<1>7. PICK b : b = B(at)
  OBVIOUS
<1>8. b \in Nat /\ b + 1 \in 1..Len(routes) /\ Done(b) /\ Has(b + 1) /\ r = routes[b + 1]
  BY <1>3, <1>4, <1>5, <1>6, <1>7, SortedIs
<1>9. /\ Done(b + 1)' /\ Tried' = Tried \cup {r}
      /\ tried' # <<>> /\ tried'[Len(tried')] = r
  BY <1>2, <1>3, <1>5, <1>8, TriesInOrder
<1>10. \A q : (Accepts(q)' <=> Accepts(q)) /\ (Match(q)' <=> Match(q))
  BY <1>2 DEF Accepts, Match
<1>11. CASE Accepts(r)
  <2>1. found' = r /\ r = routes'[b + 1] /\ b + 1 \in DOMAIN routes'
    BY <1>2, <1>3, <1>8, <1>11, SortedIs
  <2>2. Accepts(found)' /\ \A q \in Tried' : q # found' => ~Accepts(q)'
    <3>1. Accepts(r)'
      BY <1>10, <1>11
    <3>2. Accepts(found)'
      BY <2>1, <3>1 DEF Accepts, Match
    <3>3. \A q \in Tried' : q # found' => ~Accepts(q)'
      BY <1>4, <1>9, <1>10, <2>1 DEF NoneAccepts
    <3>4. QED
      BY <3>2, <3>3
  <2>3. Found'
    BY <1>9, <2>1, <2>2 DEF Found
  <2>4. QED
    BY <1>2, <1>3, <1>11, <2>3, RunKeepsInv
<1>12. CASE ~Accepts(r)
  <2>1. NoneAccepts'
    <3>1. \A q \in Tried' : ~Accepts(q)'
      BY <1>4, <1>9, <1>10, <1>12 DEF NoneAccepts
    <3>2. QED
      BY <3>1 DEF NoneAccepts
  <2>2. Collected'
    <3> DEFINE S == {q \in Tried : Match(q)}
               T == {q \in Tried' : Match(q)'}
               ms(Q) == UNION {added[q].methods : q \in Q}
    <3>1. methods = ms(S)
      BY <1>4 DEF Collected
    <3>2. T = IF Match(r) THEN S \cup {r} ELSE S
      BY <1>9, <1>10
    <3>3. methods' = IF Match(r) THEN methods \cup added[r].methods ELSE methods
      BY <1>2 DEF Collect
    <3>4. ms(S \cup {r}) = ms(S) \cup added[r].methods
      OBVIOUS
    <3>5. methods' = ms(T)
      BY <3>1, <3>2, <3>3, <3>4
    <3>6. QED
      BY <1>2, <3>5 DEF Collected
  <2>3. PICK k : k = at + 1
    OBVIOUS
  <2>4. Sorted' = Sorted
    BY <1>2, TableStays
  <2>5. K(k)' = K(k) /\ B(k)' = b + 1
    BY <1>2, <1>6, <1>7, <2>3, <2>4 DEF K, B
  <2>6. Done(B(k))'
    BY <1>9, <2>5 DEF Done
  <2>8. SearchingAt(k, cursor)'
    BY <1>2, <1>4, <1>6, <1>12, <2>1, <2>2, <2>3, <2>5, <2>6 DEF SearchingAt
  <2>9. Searching'
    BY <1>2, <1>12, <2>3, <2>8 DEF Searching, SearchingAt, Done, K, B
  <2>10. QED
    BY <1>2, <1>3, <1>12, <2>9, RunKeepsInv
<1>13. QED
  BY <1>11, <1>12

LEMMA ServedKeepsInv == RouterInv /\ Served => RouterInv'
<1> SUFFICES ASSUME RouterInv, Served PROVE RouterInv'
  OBVIOUS
<1>1. phase' = "ready" /\ Idle' /\ UNCHANGED <<added, routes, machine>>
  BY DEF Served, Idle
<1>2. QED
  BY <1>1, RunKeepsInv

LEMMA NextRouter == RouterInv /\ CompilesToSearch /\ [RouterNext]_routerVars => RouterInv'
<1> SUFFICES ASSUME RouterInv, CompilesToSearch, [RouterNext]_routerVars PROVE RouterInv'
  OBVIOUS
<1>1. CASE UNCHANGED routerVars
  <2>1. UNCHANGED <<added, routes, machine, phase, request, at, cursor, methods, tried, found>>
    BY <1>1 DEF routerVars, running
  <2>2. TableInv' /\ (MachineSet => MachineSet')
    BY <2>1, TableStays DEF RouterInv
  <2>3. (Idle => Idle') /\ (NotFound => NotFound') /\ (Found => Found') /\ (Searching => Searching')
    <3>1. Searching => Searching'
      <4>1. PICK k, c : k = at /\ c = cursor
        OBVIOUS
      <4>2. QED
        BY <2>1, <4>1, SearchMoves DEF Searching
    <3>2. Idle => Idle'
      BY <2>1 DEF Idle
    <3>3. QED
      BY <2>1, <3>1, <3>2, SearchStays
  <2>4. QED
    BY <2>1, <2>2, <2>3 DEF RouterInv, MachineInv
<1>2. CASE RouterNext
  BY <1>2, AddKeepsInv, StartsSearch, ResetKeepsInv, BranchKeepsInv, MatchKeepsInv, ServedKeepsInv
     DEF RouterNext, Run
<1>3. QED
  BY <1>1, <1>2

-----------------------------------------------------------------------------
(* The machine answers as a search does.                                     *)

LEMMA PlausibleAt ==
  ASSUME TableInv, NEW r \in Plausible
  PROVE  \E j \in 1..Len(routes) : routes[j] = r /\ Has(j)
<1>1. PICK j \in DOMAIN routes : routes[j] = r
  BY DEF TableInv, RoutesInOrder, Plausible
<1>2. QED
  BY <1>1, SortedIs DEF Has, Plausible

LEMMA MatchedIsPlausible ==
  ASSUME TableInv, request \in SentSome, NEW r \in DOMAIN added, Match(r)
  PROVE  r \in Plausible
<1>1. added[r] \in Patterns
  BY DEF TableInv, RoutesType
<1>2. QED
  BY <1>1, RequestIs DEF Match, Plausible, prefix

LEMMA DoneIsPlausible ==
  ASSUME TableInv, request \in SentSome, NEW b \in 0..Len(routes), Done(b)
  PROVE  /\ \A j, k \in DOMAIN tried : j < k => tried[j] < tried[k]
         /\ Tried \subseteq Plausible
         /\ \A r \in Plausible \ Tried : \A k \in DOMAIN tried : tried[k] < r
         /\ b = Len(routes) => Tried = Plausible
<1>1. \A j, k \in DOMAIN tried : j < k => tried[j] < tried[k]
  BY DEF Done
<1>2. Tried = {routes[k] : k \in {j \in 1..b : Has(j)}}
  BY DEF Done
<1>3. b \in Nat /\ 1..b \subseteq 1..Len(routes) /\ DOMAIN routes = 1..Len(routes)
  BY SortedIs
<1>4. \A k \in 1..Len(routes) : Has(k) => routes[k] \in Plausible
  BY SortedIs DEF Has, Plausible
<1>5. Tried \subseteq Plausible
  BY <1>2, <1>3, <1>4
<1>6. ASSUME NEW r \in Plausible, r \notin Tried
      PROVE  \E j \in (b + 1)..Len(routes) : routes[j] = r /\ Has(j)
  <2>1. PICK j \in 1..Len(routes) : routes[j] = r /\ Has(j)
    BY PlausibleAt
  <2>2. j \notin 1..b
    BY <1>2, <1>6, <2>1
  <2>3. QED
    BY <1>3, <2>1, <2>2, SortedIs
<1>7. ASSUME NEW r \in Plausible, r \notin Tried, NEW k \in DOMAIN tried PROVE tried[k] < r
  <2>1. PICK j \in (b + 1)..Len(routes) : routes[j] = r /\ Has(j)
    BY <1>6, <1>7
  <2>2. PICK n \in 1..b : Has(n) /\ tried[k] = routes[n]
    BY <1>3, TriedIs
  <2>3. n < j /\ n \in DOMAIN routes /\ j \in DOMAIN routes
    BY <1>3, SortedIs
  <2>4. request.path \in Seq(Nat)
    BY RequestIs
  <2>5. routes[n] < routes[j]
    BY <2>1, <2>2, <2>3, <2>4, InOrder DEF SearchInOrder, Has
  <2>6. QED
    BY <2>1, <2>2, <2>5
<1>8. ASSUME b = Len(routes) PROVE Plausible \subseteq Tried
  <2>1. (b + 1)..Len(routes) = {}
    BY <1>3, <1>8
  <2>2. QED
    BY <1>6, <2>1
<1>9. QED
  BY <1>1, <1>5, <1>7, <1>8

LEMMA LeastIsMin ==
  ASSUME NEW S, S \subseteq Int, NEW x \in S, \A y \in S : x <= y
  PROVE  Min(S) = x
<1>1. Min(S) \in S /\ \A y \in S : Min(S) <= y
  BY DEF Min
<1>2. PICK m : m = Min(S)
  OBVIOUS
<1>3. m \in Int /\ x \in Int /\ m <= x /\ x <= m
  BY <1>1, <1>2
<1>4. QED
  BY <1>2, <1>3

LEMMA SearchFollows == RouterInv => AnswersAsSearch
<1> SUFFICES ASSUME RouterInv PROVE AnswersAsSearch
  OBVIOUS
<1>1. TableInv /\ phase \in {"ready", "run", "matched"}
  BY DEF RouterInv, MachineInv
<1>2. phase # "ready" => MachineSet /\ request \in SentSome
  BY DEF RouterInv, MachineInv
<1>3. phase = "run" => Searching
  BY DEF RouterInv, MachineInv
<1>4. phase = "matched" => NotFound \/ Found
  BY DEF RouterInv, MachineInv
<1>5. RoutesInOrder
  BY <1>1 DEF TableInv
<1>6. WithinBounds
  BY <1>3 DEF WithinBounds, Searching, SearchingAt
<1>7. ASSUME phase = "matched", NotFound
      PROVE  Tried = Plausible /\ \A r \in DOMAIN added : Match(r) => r \in Tried
  <2>1. Len(routes) \in 0..Len(routes)
    BY <1>1, SortedIs
  <2>2. Tried = Plausible
    BY <1>1, <1>2, <1>7, <2>1, DoneIsPlausible DEF NotFound
  <2>3. QED
    BY <1>1, <1>2, <1>7, <2>2, MatchedIsPlausible
<1>8. PlausibleInOrder
  <2>1. CASE phase = "ready"
    BY <2>1 DEF PlausibleInOrder
  <2>2. CASE phase = "run"
    <3>1. at \in Places(machine.sm) /\ Done(B(at))
      BY <1>3, <2>2 DEF Searching, SearchingAt
    <3>2. B(at) \in 0..Len(routes)
      BY <1>1, <1>2, <2>2, <3>1, CodeIs DEF At
    <3>3. QED
      BY <1>1, <1>2, <2>2, <3>1, <3>2, DoneIsPlausible DEF PlausibleInOrder
  <2>3. CASE phase = "matched" /\ NotFound
    <3>1. Len(routes) \in 0..Len(routes) /\ Done(Len(routes)) /\ found = NoRoute
      BY <1>1, <2>3, SortedIs DEF NotFound
    <3>2. QED
      BY <1>1, <1>2, <1>7, <2>3, <3>1, DoneIsPlausible DEF PlausibleInOrder
  <2>4. CASE phase = "matched" /\ Found
    <3>1. PICK b \in DOMAIN routes : found = routes[b] /\ Done(b) /\ tried[Len(tried)] = found
      BY <2>4 DEF Found
    <3>2. b \in 0..Len(routes) /\ routes[b] \in DOMAIN added /\ DOMAIN added \subseteq Nat \ {0}
      BY <1>1, SortedIs DEF TableInv, RoutesType
    <3>3. found # NoRoute
      BY <3>1, <3>2 DEF NoRoute
    <3>4. QED
      BY <1>1, <1>2, <2>4, <3>1, <3>2, <3>3, DoneIsPlausible DEF PlausibleInOrder
  <2>5. QED
    BY <1>1, <1>4, <2>1, <2>2, <2>3, <2>4
<1>9. FirstMatch
  <2> DEFINE accepting == {r \in DOMAIN added : Accepts(r)}
  <2> SUFFICES ASSUME phase = "matched"
               PROVE  found = IF accepting = {} THEN NoRoute ELSE Min(accepting)
    BY DEF FirstMatch
  <2>1. CASE NotFound
    <3>1. accepting = {}
      BY <1>7, <2>1 DEF NotFound, NoneAccepts, Accepts
    <3>2. QED
      BY <2>1, <3>1 DEF NotFound
  <2>2. CASE Found
    <3>1. PICK b \in DOMAIN routes :
            /\ found = routes[b] /\ Accepts(found) /\ Done(b)
            /\ \A r \in Tried : r # found => ~Accepts(r)
      BY <2>2 DEF Found
    <3>2. /\ b \in 0..Len(routes) /\ b \in 1..Len(routes) /\ routes[b] \in DOMAIN added
          /\ DOMAIN added \subseteq Int /\ DOMAIN routes = 1..Len(routes)
      BY <1>1, SortedIs DEF TableInv, RoutesType
    <3>3. found \in accepting
      BY <3>1, <3>2
    <3>4. ASSUME NEW r \in accepting PROVE found <= r
      <4>1. r \in Plausible
        BY <1>1, <1>2, MatchedIsPlausible DEF Accepts
      <4>2. CASE r \in Tried
        BY <3>1, <3>2, <4>2
      <4>3. CASE r \notin Tried
        <5>1. PICK j \in 1..Len(routes) : routes[j] = r /\ Has(j)
          BY <1>1, <4>1, PlausibleAt
        <5>2. j \notin 1..b
          BY <3>1, <4>3, <5>1 DEF Done
        <5>3. found \in Plausible
          BY <1>1, <1>2, <3>1, <3>3, MatchedIsPlausible DEF Accepts
        <5>4. Has(b)
          BY <3>1, <5>3 DEF Has, Plausible
        <5>5. b < j /\ j \in DOMAIN routes
          BY <1>1, <3>2, <5>2, SortedIs
        <5>6. request.path \in Seq(Nat)
          BY <1>2, RequestIs
        <5>7. routes[b] < routes[j]
          BY <1>1, <5>1, <5>4, <5>5, <5>6, InOrder DEF SearchInOrder, Has
        <5>8. routes[b] \in Int /\ routes[j] \in Int
          BY <1>1, <3>2, <5>1, SortedIs
        <5>9. QED
          BY <3>1, <5>1, <5>7, <5>8
      <4>4. QED
        BY <4>2, <4>3
    <3>5. accepting \subseteq Int
      BY <3>2
    <3> HIDE DEF accepting
    <3>6. Min(accepting) = found
      BY <3>3, <3>4, <3>5, LeastIsMin
    <3>7. QED
      BY <3>3, <3>6
  <2>3. QED
    BY <1>4, <2>1, <2>2
<1>10. ValidMethods
  <2> SUFFICES ASSUME phase = "matched", found = NoRoute
               PROVE  methods = UNION {added[r].methods : r \in {q \in DOMAIN added : Match(q)}}
    BY DEF ValidMethods
  <2>1. NotFound
    <3>1. ASSUME Found PROVE FALSE
      <4>1. PICK b \in DOMAIN routes : found = routes[b]
        BY <3>1 DEF Found
      <4>2. routes[b] \in DOMAIN added /\ DOMAIN added \subseteq Nat \ {0}
        BY <1>1, SortedIs DEF TableInv, RoutesType
      <4>3. QED
        BY <4>1, <4>2 DEF NoRoute
    <3>2. QED
      BY <1>4, <3>1
  <2>2. {q \in DOMAIN added : Match(q)} = {q \in Tried : Match(q)}
    BY <1>7, <2>1 DEF Plausible
  <2>3. QED
    BY <2>1, <2>2 DEF NotFound, Collected
<1>11. QED
  BY <1>5, <1>6, <1>8, <1>9, <1>10 DEF AnswersAsSearch

\* For any patterns with prefixes, any tables and any requests: a router whose
\* compiler leaves no plausible route out of its code finds with the machine
\* what a search of the table in the order of addition finds, and tries no more.
THEOREM Answers == RouterSpec /\ []CompilesToSearch => []AnswersAsSearch
BY InitMachine, NextRouter, SearchFollows, PTL DEF RouterSpec

\* handle, router.go: adding routes keeps their order, whatever runs in between.
THEOREM RouterTable == RouterSpec => TableSpec
<1>1. InitRouter => InitTable
  BY DEF InitRouter
<1>2. [RouterNext]_routerVars => [\E r \in Addable : insert(r)]_<<added, routes>>
  BY DEF RouterNext, Add, handle, getMatch, Run, Reset, matchRoute, Branch, Served, routerVars
<1>3. QED
  BY <1>1, <1>2, PTL DEF RouterSpec, TableSpec
=============================================================================
