------------------------------- MODULE Dispatch -------------------------------
(* How a request travels through the two muxes of the server: the default    *)
(* mux of goji with its middlewares (request id, logger, recoverer, options) *)
(* and the API's mux under it (NewMux, Use and handleRequest of mux.go, with *)
(* authenticate).  Each mux takes a middleware stack from a pool, which      *)
(* carries the context of the request, and puts it back.  A context is a     *)
(* pointer to the map Env and one to the map URLParams; it is copied freely, *)
(* the maps are not.  Each request has a number, its map the same number.    *)
EXTENDS Naturals

CONSTANTS Requests, \* requests, each sent once
          Stacks    \* middleware stacks alive at a time, of either mux

VARIABLES pool,     \* the stacks in the pool of each mux
          ctx,      \* the context in each stack
          poolOf,   \* whether the field pool of a stack is set
          pc, stack, \* the step of a request, and the stacks it has taken
          path,     \* its r.URL.Path: the whole path, or what "*" matched
          user,     \* the entry "user" of each map Env
          verified, \* the request's credentials were verified
          seen,     \* what GetUser returned to the handler
          replies,  \* replies written to each request
          struck    \* the muxes in which another request has unset the field of its stack

vars == <<pool, ctx, poolOf, pc, stack, path, user, verified, seen, replies, struck>>

Muxes == {"default", "api"}
None == 0
Empty == [env |-> None, params |-> {}]
Steps == {"get", "enter", "layers", "route", "authenticate", "back", "release", "put", "unset"}

TypeOK ==
    /\ pool \in [Muxes -> SUBSET Stacks]
    /\ ctx \in [Stacks -> [env : Requests \cup {None}, params : SUBSET {"*"}]]
    /\ poolOf \in [Stacks -> BOOLEAN]
    /\ pc \in [Requests -> (Muxes \X Steps) \cup ({"net"} \X {"idle", "done"})]
    /\ stack \in [Requests -> [Muxes -> Stacks \cup {None}]]
    /\ path \in [Requests -> {"whole", "tail"}]
    /\ user \in [Requests -> Requests \cup {None}]
    /\ verified \in [Requests -> BOOLEAN]
    /\ seen \in [Requests -> Requests \cup {None}]
    /\ replies \in [Requests -> Nat]
    /\ struck \in [Requests -> SUBSET Muxes]
    /\ \A r \in Requests :
         /\ stack[r]["api"] # None <=> pc[r] \in {"api"} \X (Steps \ {"get"})
         /\ stack[r]["default"] # None <=>
              pc[r] \in ({"api"} \X Steps) \cup ({"default"} \X (Steps \ {"get"}))

(* Zero is no request and no stack. *)
ASSUME DispatchAssumption == None \notin Requests \cup Stacks

Init ==
    /\ pool = [m \in Muxes |-> {}]
    /\ ctx = [s \in Stacks |-> Empty]
    /\ poolOf = [s \in Stacks |-> FALSE]
    /\ pc = [r \in Requests |-> <<"net", "idle">>]
    /\ stack = [r \in Requests |-> [m \in Muxes |-> None]]
    /\ path = [r \in Requests |-> "whole"]
    /\ user = [r \in Requests |-> None]
    /\ verified = [r \in Requests |-> FALSE]
    /\ seen = [r \in Requests |-> None]
    /\ replies = [r \in Requests |-> 0]
    /\ struck = [r \in Requests |-> {}]

Goto(r, from, to) == pc[r] = from /\ pc' = [pc EXCEPT ![r] = to]
Answer(r) == replies' = [replies EXCEPT ![r] = @ + 1]
Context(r, m) == ctx[stack[r][m]]
Taken == {stack[r][m] : r \in Requests, m \in Muxes}
Pooled == UNION {pool[m] : m \in Muxes}

(* The request arrives at the default mux. *)
Arrive(r) ==
    /\ Goto(r, <<"net", "idle">>, <<"default", "get">>)
    /\ UNCHANGED <<pool, ctx, poolOf, stack, path, user, verified, seen, replies, struck>>

(* mStack.alloc: a stack of the pool, or a new one. *)
alloc(r, m) ==
    /\ Goto(r, <<m, "get">>, <<m, "enter">>)
    /\ \/ \E s \in pool[m] :
            /\ pool' = [pool EXCEPT ![m] = @ \ {s}]
            /\ stack' = [stack EXCEPT ![r][m] = s]
            /\ UNCHANGED <<ctx, poolOf>>
       \/ \E s \in Stacks \ (Taken \cup Pooled) :
            /\ stack' = [stack EXCEPT ![r][m] = s]
            /\ ctx' = [ctx EXCEPT ![s] = Empty]
            /\ poolOf' = [poolOf EXCEPT ![s] = FALSE]
            /\ UNCHANGED pool
    /\ UNCHANGED <<path, user, verified, seen, replies, struck>>

(* alloc sets cs.pool; ServeHTTP and ServeHTTPC set the context: an empty    *)
(* one in the default mux, in the API's the copy that the route was given.   *)
Enter(r, m) ==
    /\ Goto(r, <<m, "enter">>, <<m, "layers">>)
    /\ poolOf' = [poolOf EXCEPT ![stack[r][m]] = TRUE]
    /\ ctx' = [ctx EXCEPT ![stack[r][m]] = IF m = "api" THEN Context(r, "default") ELSE Empty]
    /\ UNCHANGED <<pool, stack, path, user, verified, seen, replies, struck>>

(* RequestID gives the context its map if it has none, and writes its id. *)
RequestID(r) ==
    /\ Goto(r, <<"default", "layers">>, <<"default", "route">>)
    /\ IF Context(r, "default").env = None
         THEN /\ ctx' = [ctx EXCEPT ![stack[r]["default"]].env = r]
              /\ user' = [user EXCEPT ![r] = None]
         ELSE UNCHANGED <<ctx, user>>
    /\ UNCHANGED <<pool, poolOf, stack, path, verified, seen, replies, struck>>

(* The route of goji.Handle(rootUrl+"/*"), which binds "*", or not found. *)
route(r) ==
    \/ /\ Goto(r, <<"default", "route">>, <<"api", "get">>)
       /\ ctx' = [ctx EXCEPT ![stack[r]["default"]].params = {"*"}]
       /\ UNCHANGED <<pool, poolOf, stack, path, user, verified, seen, replies, struck>>
    \/ /\ Goto(r, <<"default", "route">>, <<"default", "release">>)
       /\ Answer(r)
       /\ UNCHANGED <<pool, ctx, poolOf, stack, path, user, verified, seen, struck>>

(* SubRouter makes the tail the path. *)
SubRouter(r) ==
    /\ Goto(r, <<"api", "layers">>, <<"api", "authenticate">>)
    /\ path' = [path EXCEPT ![r] = IF "*" \in Context(r, "api").params THEN "tail" ELSE @]
    /\ UNCHANGED <<pool, ctx, poolOf, stack, user, verified, seen, replies, struck>>

(* Mux.Use hands authenticate a copy of the context, whose map is that of    *)
(* the context in the stack; writing to it is writing to the request's map.  *)
\* Mutant: the copy has a map of its own.
WriteToCopy(r) == UNCHANGED user
WriteUser(r) == user' = [user EXCEPT ![Context(r, "api").env] = r]

(* panicRecovery and cors change nothing; authenticate lets the request pass *)
(* without credentials, or verifies them, or refuses,                        *)
authenticate(r) ==
    \/ /\ Goto(r, <<"api", "authenticate">>, <<"api", "route">>)
       /\ UNCHANGED <<user, verified, replies>>
    \/ /\ Goto(r, <<"api", "authenticate">>, <<"api", "route">>)
       /\ Context(r, "api").env # None
       /\ WriteUser(r)
       /\ verified' = [verified EXCEPT ![r] = TRUE]
       /\ UNCHANGED replies
    \/ /\ Goto(r, <<"api", "authenticate">>, <<"api", "back">>)
       /\ Answer(r)
       /\ UNCHANGED <<user, verified>>

(* SubRouter's deferred function restores the path, panic or not. *)
\* Mutant: nothing restores it.
RestoreNone(r) == UNCHANGED path
Restore(r) == path' = [path EXCEPT ![r] = "whole"]

(* A panic below Recoverer: the deferred function runs, the stack of the API *)
(* is not released, Recoverer replies and the default mux goes on.           *)
Recovered(r, from) ==
    /\ Goto(r, from, <<"default", "release">>)
    /\ stack' = [stack EXCEPT ![r]["api"] = None]
    /\ Answer(r)

(* or panics on credentials of one part or a cached entry without its field. *)
Authenticate(r) ==
    /\ \/ authenticate(r) /\ UNCHANGED <<stack, path>>
       \/ Recovered(r, <<"api", "authenticate">>) /\ Restore(r) /\ UNCHANGED <<user, verified>>
    /\ UNCHANGED <<pool, ctx, poolOf, seen, struck>>

(* The route of the API copies the context for the handler, which reads the  *)
(* user from it and replies, or panics.                                      *)
Lookup(r) ==
    LET env == Context(r, "api").env IN
    seen' = [seen EXCEPT ![r] = IF env = None THEN None ELSE user[env]]

Handle(r) ==
    /\ Goto(r, <<"api", "route">>, <<"api", "back">>)
    /\ Lookup(r)
    /\ Answer(r)
    /\ UNCHANGED <<pool, ctx, poolOf, stack, path, user, verified, struck>>

Back(r) ==
    /\ Goto(r, <<"api", "back">>, <<"api", "release">>)
    /\ Restore(r)
    /\ UNCHANGED <<pool, ctx, poolOf, stack, user, verified, seen, replies, struck>>

\* Mutant: the panic goes through to net/http.
PanicThrough(r) ==
    /\ Goto(r, <<"api", "route">>, <<"net", "done">>)
    /\ stack' = [stack EXCEPT ![r] = [m \in Muxes |-> None]]
    /\ Lookup(r)
    /\ Restore(r)
    /\ UNCHANGED <<pool, ctx, poolOf, user, verified, replies, struck>>

Panic(r) ==
    /\ Recovered(r, <<"api", "route">>)
    /\ Restore(r)
    /\ Lookup(r)
    /\ UNCHANGED <<pool, ctx, poolOf, user, verified, struck>>

-----------------------------------------------------------------------------
After(m) == IF m = "api" THEN <<"default", "release">> ELSE <<"net", "done">>

(* mStack.release: the context is emptied, and the stack is dropped if its   *)
(* field is not the pool;                                                    *)
release(r, m) ==
    LET s == stack[r][m] IN
    /\ pc[r] = <<m, "release">>
    /\ ctx' = [ctx EXCEPT ![s] = Empty]
    /\ IF poolOf[s]
         THEN /\ pc' = [pc EXCEPT ![r] = <<m, "put">>]
              /\ UNCHANGED stack
         ELSE /\ pc' = [pc EXCEPT ![r] = After(m)]
              /\ stack' = [stack EXCEPT ![r][m] = None]
    /\ UNCHANGED <<pool, poolOf, path, user, verified, seen, replies, struck>>

(* the field is read again for the pool to put it into, and may be nil now,  *)
(* which panics: below Recoverer in the API's mux, in the goroutine of       *)
(* net/http in the default one;                                              *)
Put(r, m) ==
    \/ /\ Goto(r, <<m, "put">>, <<m, "unset">>)
       /\ poolOf[stack[r][m]]
       /\ pool' = [pool EXCEPT ![m] = @ \cup {stack[r][m]}]
       /\ UNCHANGED <<ctx, poolOf, stack, path, user, verified, seen, replies, struck>>
    \/ /\ pc[r] = <<m, "put">>
       /\ ~poolOf[stack[r][m]]
       /\ IF m = "api" THEN Recovered(r, <<m, "put">>)
          ELSE /\ Goto(r, <<m, "put">>, <<"net", "done">>)
               /\ stack' = [stack EXCEPT ![r][m] = None]
               /\ UNCHANGED replies
       /\ UNCHANGED <<pool, ctx, poolOf, path, user, verified, seen, struck>>

(* and then it is set to nil, when another request may have the stack. *)
Uses(q, m, s) == stack[q][m] = s /\ pc[q] \notin {<<m, "enter">>, <<m, "unset">>}

Unset(r, m) ==
    /\ Goto(r, <<m, "unset">>, After(m))
    /\ poolOf' = [poolOf EXCEPT ![stack[r][m]] = FALSE]
    /\ stack' = [stack EXCEPT ![r][m] = None]
    /\ struck' = [q \in Requests |-> struck[q] \cup {n \in Muxes : Uses(q, n, stack[r][m])}]
    /\ UNCHANGED <<pool, ctx, path, user, verified, seen, replies>>

(* sync.Pool may forget what it holds. *)
Forget(m) ==
    /\ \E s \in pool[m] : pool' = [pool EXCEPT ![m] = @ \ {s}]
    /\ UNCHANGED <<ctx, poolOf, pc, stack, path, user, verified, seen, replies, struck>>

-----------------------------------------------------------------------------
InMux(r, m) ==
    alloc(r, m) \/ Enter(r, m) \/ release(r, m) \/ Put(r, m) \/ Unset(r, m)

Serve(r) ==
    \/ \E m \in Muxes : InMux(r, m)
    \/ RequestID(r) \/ route(r) \/ SubRouter(r) \/ Authenticate(r)
    \/ Handle(r) \/ Panic(r) \/ Back(r)

Next ==
    \/ \E r \in Requests : Arrive(r) \/ Serve(r)
    \/ \E m \in Muxes : Forget(m)

Spec == Init /\ [][Next]_vars

-----------------------------------------------------------------------------
(* A stack serves one request at a time, although a request still writes to  *)
(* its stack after it has put it back into the pool.                         *)
Held(r) ==
    {stack[r][m] : m \in {n \in Muxes : stack[r][n] # None /\ pc[r] # <<n, "unset">>}}

StackExclusive ==
    \A r \in Requests :
        /\ Held(r) \cap Pooled = {}
        /\ \A q \in Requests \ {r} : Held(r) \cap Held(q) = {}

(* In its layers a request finds its own map in both contexts, also in a     *)
(* stack that served another before: the pointers that the API's context and *)
(* the copies for middlewares share exist because RequestID has made the map *)
(* before anything is copied.                                                *)
ContextIsOwn ==
    \A r \in Requests :
        /\ pc[r] \in {<<"default", "route">>} \cup ({"api"} \X Steps)
             => Context(r, "default").env = r
        /\ pc[r] \in {"api"} \X {"layers", "authenticate", "route", "back"}
             => Context(r, "api") = [env |-> r, params |-> {"*"}]

(* GetUser returns to the handler the user that authenticate has verified    *)
(* for this very request, and none if it has verified none.                  *)
IdentityReaches ==
    \A r \in Requests :
        /\ verified[r] /\ pc[r] # <<"api", "route">> => seen[r] = r
        /\ ~verified[r] => seen[r] = None

(* The API routes by the tail of the path, and whoever looks at the request  *)
(* after it (the logger) sees the whole path again, panic or not.            *)
PathRestored ==
    \A r \in Requests :
        /\ pc[r] = <<"api", "route">> => path[r] = "tail"
        /\ pc[r] \in {<<"default", "release">>, <<"net", "done">>} => path[r] = "whole"

(* Nothing of a request stays in the stacks of a pool. *)
PooledClean == \A s \in Pooled : ctx[s] = Empty

(* Requests that share muxes and stacks, middleware.go, do not meet in them. *)
RequestsApart == TypeOK /\ StackExclusive /\ ContextIsOwn /\ PooledClean /\ IdentityReaches

(* Every request is answered once, by the handler, a middleware or Recoverer *)
(* and whoever of them panics, and by Recoverer a second time at most, which *)
(* takes another request that has unset the field of its stack in the API's  *)
(* mux while it was using it.                                                *)
AnsweredOnce ==
    \A r \in Requests :
        pc[r] = <<"net", "done">> =>
          replies[r] = 1 \/ (replies[r] = 2 /\ "api" \in struck[r])

(* Each request runs through both muxes and out again, mux.go, whether it is *)
(* refused, served or panics.                                                *)
RunsThrough == PathRestored /\ AnsweredOnce

-----------------------------------------------------------------------------
(* How far a request is, by its step. *)
Stage == [
    net |-> [idle |-> "new", done |-> "done"],
    default |-> [get |-> "outer", enter |-> "outer", layers |-> "outer", route |-> "outer",
                 release |-> "leaving", put |-> "leaving", unset |-> "leaving"],
    api |-> [get |-> "inner", enter |-> "inner", layers |-> "inner",
             authenticate |-> "authenticate", route |-> "handler", back |-> "answered",
             release |-> "returned", put |-> "returned", unset |-> "returned"]]

Stages == [r \in Requests |-> Stage[pc[r][1]][pc[r][2]]]

Promise == INSTANCE Alone WITH stage <- Stages

(* Muxes that share stacks and maps among the requests serve each of them,   *)
(* mux.go, as muxes would that it has to itself.                             *)
ServesApart == Promise!Spec
=============================================================================
