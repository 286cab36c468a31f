----------------------------- MODULE RouteMachine -----------------------------
(* The router of a goji mux: routes are added one at a time, each in between *)
(* requests, and a request runs the machine they are compiled to until a     *)
(* route accepts it or the code ends.                                        *)
EXTENDS RouteTable, RouteCode

CONSTANTS Sent(_),       \* the requests sent to a table: records of a path and a method
          Compiled(_),   \* the code for a sequence of prefixes
          Matching(_, _) \* whether a pattern matches a path

VARIABLES machine, \* the compiled machine with its routes, and whether it is set
          request, phase, \* the request, and whether it runs or has its match
          at, cursor, \* the next instruction, and how much of the path is behind
          methods, \* the methods of the patterns that matched the path
          tried,   \* the routes whose patterns were called, in order
          found    \* the route that is to serve the request

running == <<request, at, cursor, methods, tried, found>>
routerVars == <<added, routes, machine, phase, running>>

NoMachine == [set |-> FALSE, sm |-> <<>>, routes |-> <<>>]

NoRequest == [path |-> <<>>, method |-> ""]

(* Pattern.Prefix and Pattern.Match, pattern.go: a path that a pattern       *)
(* matches has its prefix.                                                   *)
Partial == {<<>>} \cup UNION {{SubSeq(t, 1, n) : n \in DOMAIN t} : t \in Tables}

ASSUME PatternAssumption ==
    \A q \in UNION {Sent(t) : t \in Partial} :
        /\ q.path \in Seq(Nat)
        /\ \A r \in Patterns : Matching(r, q.path) => IsPrefix(r.literals[1], q.path)

InitRouter ==
    /\ InitTable
    /\ machine = NoMachine
    /\ phase = "ready"
    /\ request = NoRequest
    /\ at = 0 /\ cursor = 0
    /\ methods = {} /\ tried = <<>> /\ found = NoRoute

-----------------------------------------------------------------------------
(* setMachine(nil) *)
\* Mutant: the machine stays.
setMachineKept == UNCHANGED machine
setMachine == machine' = NoMachine

handle(r) ==
    /\ insert(r)
    /\ setMachine
    /\ UNCHANGED <<phase, running>>

Add == phase = "ready" /\ \E r \in Addable : handle(r)

-----------------------------------------------------------------------------
Sorted == [k \in DOMAIN routes |-> prefix(routes[k])]

(* getMatch compiles the routes if there is no machine, and starts it. *)
getMatch(q) ==
    /\ phase = "ready"
    /\ request' = q
    /\ machine' = IF machine.set THEN machine
                  ELSE [set |-> TRUE, sm |-> Compiled(Sorted), routes |-> routes]
    /\ phase' = IF machine'.sm = <<>> THEN "matched" ELSE "run"
    /\ UNCHANGED <<added, routes, at, cursor, methods, tried, found>>

sm == machine.sm[at + 1]
match == IsPrefix(sm.bs, SubSeq(request.path, cursor + 1, Len(request.path)))

Reset ==
    /\ phase = "run" /\ "cursor" \in sm.mode
    /\ cursor' = sm.i
    /\ at' = at + 1
    /\ UNCHANGED <<added, routes, machine, request, phase, methods, tried, found>>

Match(r) == Matching(added[r], request.path)

(* matchRoute: the pattern matches, and so may the method. *)
Collect(r) ==
    methods' = IF Match(r) THEN methods \cup added[r].methods ELSE methods

matchRoute ==
    /\ phase = "run" /\ "cursor" \notin sm.mode /\ match /\ "route" \in sm.mode
    /\ LET r == machine.routes[sm.i] IN
         /\ tried' = Append(tried, r)
         /\ Collect(r)
         /\ IF Match(r) /\ request.method \in added[r].methods
              THEN phase' = "matched" /\ found' = r /\ UNCHANGED at
              ELSE at' = at + 1 /\ UNCHANGED <<phase, found>>
    /\ UNCHANGED <<added, routes, machine, request, cursor>>

(* Any other instruction advances the cursor if it matches, and goes on with *)
(* the next, or with the one it names, or ends the search.                   *)
Branch ==
    /\ phase = "run" /\ "cursor" \notin sm.mode /\ ~(match /\ "route" \in sm.mode)
    /\ cursor' = IF match THEN cursor + Len(sm.bs) ELSE cursor
    /\ IF match = ("jump" \in sm.mode)
         THEN IF "fail" \in sm.mode THEN phase' = "matched" /\ UNCHANGED at
              ELSE at' = sm.i /\ UNCHANGED phase
         ELSE at' = at + 1 /\ UNCHANGED phase
    /\ UNCHANGED <<added, routes, machine, request, methods, tried, found>>

(* The handler of the match has served the request. *)
Served ==
    /\ phase = "matched"
    /\ phase' = "ready"
    /\ request' = NoRequest
    /\ at' = 0 /\ cursor' = 0
    /\ methods' = {} /\ tried' = <<>> /\ found' = NoRoute
    /\ UNCHANGED <<added, routes, machine>>

Run == Reset \/ matchRoute \/ Branch

RouterNext == Add \/ (\E q \in Sent(added) : getMatch(q)) \/ Run \/ Served

RouterSpec == InitRouter /\ [][RouterNext]_routerVars
FairRouterSpec == RouterSpec /\ WF_routerVars(Run)

-----------------------------------------------------------------------------
(* The plausible routes, bytecode_compiler.go: those whose prefix is one of  *)
(* the path.                                                                 *)
Plausible == {r \in DOMAIN added : IsPrefix(prefix(r), request.path)}

Accepts(r) == Match(r) /\ request.method \in added[r].methods

Tried == {tried[k] : k \in DOMAIN tried}

(* "our goal is to call each plausible pattern, in the order they were       *)
(* added, until we find one that matches": also after routes were added to a *)
(* router that had compiled a machine without them.                          *)
PlausibleInOrder ==
    phase # "ready" =>
      /\ \A j, k \in DOMAIN tried : j < k => tried[j] < tried[k]
      /\ Tried \subseteq Plausible
      /\ \A r \in Plausible \ Tried : \A k \in DOMAIN tried : tried[k] < r
      /\ phase = "matched" => IF found = NoRoute THEN Tried = Plausible
                              ELSE tried[Len(tried)] = found

(* "the first matching route will be executed", mux.go: what the machine     *)
(* finds is what a search of the whole table finds.                          *)
FirstMatch ==
    LET accepting == {r \in DOMAIN added : Accepts(r)} IN
    phase = "matched" => found = IF accepting = {} THEN NoRoute ELSE Min(accepting)

(* The methods handed to the NotFound handler are those under which this     *)
(* path has a route.                                                         *)
ValidMethods ==
    phase = "matched" /\ found = NoRoute =>
        methods = UNION {added[r].methods : r \in {q \in DOMAIN added : Match(q)}}

(* Every jump lands in the code, and every cursor in the path: Go would      *)
(* panic otherwise.                                                          *)
WithinBounds ==
    phase = "run" => at \in Places(machine.sm) /\ cursor \in 0..Len(request.path)

(* getMatch, router.go: the compiled machine answers as a search would, and   *)
(* without a panic.                                                          *)
AnswersAsSearch == RoutesInOrder /\ PlausibleInOrder /\ FirstMatch /\ ValidMethods /\ WithinBounds

(* compile, bytecode_compiler.go: whatever routes the router has, the code   *)
(* they would be compiled to has labels under which it leaves none out that  *)
(* a path may match, and calls the others in their order.                    *)
CompilesToSearch ==
    phase = "ready" /\ ~machine.set => Searches(Compiled(Sorted), Sorted)

(* The machine jumps back to segments it has left, and yet every request is  *)
(* matched or found to have no route.                                        *)
Ends == phase = "run" ~> phase = "matched"
=============================================================================
