------------------------------ MODULE RedisPool ------------------------------
(* The connection pool behind services.redis (redis.v3): pool.go, process    *)
(* and putConn of redis.go, Exec of pipeline.go.  Callers are the goroutines *)
(* of requests; each call writes one or more commands on a connection and    *)
(* reads as many replies.  The options are those of setupRedis: no retries,  *)
(* no read or write timeout, no idle timeout, so that there is no reaper.    *)
(* The client is never closed.                                               *)
EXTENDS Naturals, Sequences, FiniteSets

CONSTANTS Callers,  \* goroutines that use the client
          size,     \* getPoolSize
          MaxCmds,  \* bound on the commands of one pipeline
          MaxDials, \* bound on the connections ever dialled
          MaxBreaks,\* bound on the connections the peer or the network ends
          MaxCalls  \* bound on the calls

ASSUME PoolAssumption ==
    /\ IsFiniteSet(Callers)
    /\ size \in Nat \ {0}
    /\ MaxCmds \in Nat \ {0}
    /\ MaxDials \in Nat
    /\ MaxBreaks \in Nat
    /\ MaxCalls \in Nat

VARIABLES len,     \* connList.len, the places taken
          cns,     \* connList.cns
          free,    \* the channel freeConns
          sock,    \* the socket of each connection
          dialled, \* connections dialled
          pc,      \* the step each caller is at
          cn,      \* the connection a caller works with
          newcn,   \* the connection it has dialled to replace that one
          todo,    \* replies still to be read
          err,     \* the first error of the call
          misread, \* some caller has read the reply to another's command
          breaks, calls

vars == <<len, cns, free, sock, dialled, pc, cn, newcn, todo, err, misread, breaks, calls>>

Conns == 1..MaxDials
None == 0

(* A socket: sent are the callers whose commands have no reply read yet; the *)
(* first buffered of these replies are in the reader's buffer.               *)
Unused == [state |-> "unused", sent |-> <<>>, buffered |-> 0]
Fresh == [Unused EXCEPT !.state = "open"]

InGet == {"first", "reserve", "unreserve", "dial", "giveback", "add", "wait"}
InCall == {"write", "read", "put"}
InRemove == {"redial", "drop", "replace", "push"}

TypeOK ==
    /\ len \in Nat
    /\ cns \subseteq Conns
    /\ free \in Seq(Conns)
    /\ sock \in [Conns -> [state : {"unused", "open", "dead", "closed"}, sent : Seq(Callers),
                           buffered : Nat]]
    /\ dialled \in 0..MaxDials
    /\ pc \in [Callers -> {"idle"} \cup InGet \cup InCall \cup InRemove]
    /\ cn \in [Callers -> Conns \cup {None}]
    /\ newcn \in [Callers -> Conns \cup {None}]
    /\ todo \in [Callers -> 0..MaxCmds]
    /\ err \in [Callers -> {"none", "redis", "net"}]
    /\ misread \in BOOLEAN
    /\ breaks \in 0..MaxBreaks
    /\ calls \in 0..MaxCalls

Init ==
    /\ len = 0
    /\ cns = {}
    /\ free = <<>>
    /\ sock = [c \in Conns |-> Unused]
    /\ dialled = 0
    /\ pc = [g \in Callers |-> "idle"]
    /\ cn = [g \in Callers |-> None]
    /\ newcn = [g \in Callers |-> None]
    /\ todo = [g \in Callers |-> 0]
    /\ err = [g \in Callers |-> "none"]
    /\ misread = FALSE
    /\ breaks = 0
    /\ calls = 0

Goto(g, from, to) == pc[g] = from /\ pc' = [pc EXCEPT ![g] = to]

(* The call returns. *)
Return(g, from) ==
    /\ Goto(g, from, "idle")
    /\ cn' = [cn EXCEPT ![g] = None]
    /\ newcn' = [newcn EXCEPT ![g] = None]
    /\ todo' = [todo EXCEPT ![g] = 0]
    /\ err' = [err EXCEPT ![g] = "none"]

-----------------------------------------------------------------------------
(* A command, or a pipeline of n of them, asks the pool for a connection. *)
Begin(g, n) ==
    /\ calls < MaxCalls
    /\ calls' = calls + 1
    /\ Goto(g, "idle", "first")
    /\ todo' = [todo EXCEPT ![g] = n]
    /\ UNCHANGED <<len, cns, free, sock, dialled, cn, newcn, err, misread, breaks>>

(* A caller at step `from` takes the connection that has been free longest. *)
Receive(g, from) ==
    /\ free # <<>>
    /\ Goto(g, from, "write")
    /\ cn' = [cn EXCEPT ![g] = Head(free)]
    /\ free' = Tail(free)
    /\ UNCHANGED <<len, cns, sock, dialled, newcn, todo, err, misread, breaks, calls>>

(* First, and what Get does when there is no free connection. *)
First(g) ==
    \/ Receive(g, "first")
    \/ /\ free = <<>>
       /\ Goto(g, "first", "reserve")
       /\ UNCHANGED <<len, cns, free, sock, dialled, cn, newcn, todo, err, misread, breaks, calls>>

\* Mutant: the caller looks at what len was.
ReserveOneMore(g) ==
    /\ Goto(g, "reserve", IF len <= size THEN "dial" ELSE "unreserve")
    /\ len' = len + 1
    /\ UNCHANGED <<cns, free, sock, dialled, cn, newcn, todo, err, misread, breaks, calls>>

(* Reserve adds to len before it looks at it, *)
Reserve(g) ==
    /\ Goto(g, "reserve", IF len + 1 <= size THEN "dial" ELSE "unreserve")
    /\ len' = len + 1
    /\ UNCHANGED <<cns, free, sock, dialled, cn, newcn, todo, err, misread, breaks, calls>>

(* and takes the place back if there was none. *)
Unreserve(g) ==
    /\ Goto(g, "unreserve", "wait")
    /\ len' = len - 1
    /\ UNCHANGED <<cns, free, sock, dialled, cn, newcn, todo, err, misread, breaks, calls>>

(* new, which the rate limiter or the dialer may refuse at any time. *)
Opened == dialled' = dialled + 1 /\ sock' = [sock EXCEPT ![dialled + 1] = Fresh]

Dial(g) ==
    /\ \/ /\ dialled < MaxDials
          /\ Opened
          /\ cn' = [cn EXCEPT ![g] = dialled + 1]
          /\ Goto(g, "dial", "add")
       \/ /\ Goto(g, "dial", "giveback")
          /\ UNCHANGED <<dialled, sock, cn>>
    /\ UNCHANGED <<len, cns, free, newcn, todo, err, misread, breaks, calls>>

(* The dial has failed: conns.Remove(nil), and the call ends with its error. *)
GiveBack(g) ==
    /\ Return(g, "giveback")
    /\ len' = len - 1
    /\ UNCHANGED <<cns, free, sock, dialled, misread, breaks, calls>>

Add(g) ==
    /\ Goto(g, "add", "write")
    /\ cns' = cns \cup {cn[g]}
    /\ UNCHANGED <<len, free, sock, dialled, cn, newcn, todo, err, misread, breaks, calls>>

(* wait: a connection becomes free, or the pool timeout ends the call. *)
Deadline(g) ==
    /\ Return(g, "wait")
    /\ UNCHANGED <<len, cns, free, sock, dialled, misread, breaks, calls>>

\* Mutant: no timeout.
WaitForever(g) == Receive(g, "wait")

Wait(g) == Receive(g, "wait") \/ Deadline(g)

-----------------------------------------------------------------------------
FirstError(e, new) == IF e = "none" THEN new ELSE e

(* writeCmds, all the commands at once.  On a dead socket either the write   *)
(* or each of the reads fails; both are network errors, and the first ones.  *)
Write(g) ==
    \/ /\ Goto(g, "write", "read")
       /\ sock[cn[g]].state = "open"
       /\ sock' = [sock EXCEPT ![cn[g]].sent = @ \o [i \in 1..todo[g] |-> g]]
       /\ UNCHANGED <<len, cns, free, dialled, cn, newcn, todo, err, misread, breaks, calls>>
    \/ /\ Goto(g, "write", "put")
       /\ sock[cn[g]].state # "open"
       /\ err' = [err EXCEPT ![g] = "net"]
       /\ UNCHANGED <<len, cns, free, sock, dialled, cn, newcn, todo, misread, breaks, calls>>

(* execCmds reads a reply for every command, whatever came before. *)
LastReply(g) == todo[g] = 1
GoOn(g, done) == Goto(g, "read", IF done THEN "put" ELSE "read")

(* The next reply, which may be an error of Redis.  A read from the socket   *)
(* brings at least one reply and maybe more of them into the buffer.         *)
Answer(g, done, e) ==
    LET s == sock[cn[g]] IN
    /\ s.sent # <<>>
    /\ s.buffered > 0 \/ s.state = "open"
    /\ \E arrived \in IF s.buffered > 0 THEN {s.buffered} ELSE 1..Len(s.sent) :
         sock' = [sock EXCEPT ![cn[g]].sent = Tail(@), ![cn[g]].buffered = arrived - 1]
    /\ misread' = (misread \/ Head(s.sent) # g)
    /\ err' = [err EXCEPT ![g] = FirstError(@, e)]
    /\ todo' = [todo EXCEPT ![g] = @ - 1]
    /\ GoOn(g, done)
    /\ UNCHANGED <<len, cns, free, dialled, cn, newcn, breaks, calls>>

(* Nothing is left in the buffer, and the socket is dead. *)
Fail(g) ==
    LET s == sock[cn[g]] IN
    /\ s.buffered = 0 /\ s.state # "open"
    /\ err' = [err EXCEPT ![g] = FirstError(@, "net")]
    /\ todo' = [todo EXCEPT ![g] = @ - 1]
    /\ GoOn(g, LastReply(g))
    /\ UNCHANGED <<len, cns, free, sock, dialled, cn, newcn, misread, breaks, calls>>

\* Mutant: the loop ends at the first error.
ReadToError(g) ==
    /\ pc[g] = "read"
    /\ \/ Fail(g)
       \/ Answer(g, LastReply(g), "none")
       \/ Answer(g, TRUE, "redis")

Read(g) ==
    /\ pc[g] = "read"
    /\ \/ Fail(g)
       \/ \E e \in {"none", "redis"} : Answer(g, LastReply(g), e)

-----------------------------------------------------------------------------
(* putConn: a connection with unread data or after a network error is to be  *)
(* removed, any other goes back into the channel; a full channel would block. *)
Reusable(g) == sock[cn[g]].buffered = 0 /\ err[g] # "net"

Put(g) ==
    \/ /\ Return(g, "put")
       /\ Reusable(g)
       /\ Len(free) < size
       /\ free' = Append(free, cn[g])
       /\ UNCHANGED <<len, cns, sock, dialled, misread, breaks, calls>>
    \/ /\ Goto(g, "put", "redial")
       /\ ~Reusable(g)
       /\ UNCHANGED <<len, cns, free, sock, dialled, cn, newcn, todo, err, misread, breaks, calls>>

(* Remove dials a connection to put in the place of the one to be removed. *)
Redial(g) ==
    /\ \/ /\ dialled < MaxDials
          /\ Opened
          /\ newcn' = [newcn EXCEPT ![g] = dialled + 1]
          /\ Goto(g, "redial", "replace")
       \/ /\ Goto(g, "redial", "drop")
          /\ UNCHANGED <<dialled, sock, newcn>>
    /\ UNCHANGED <<len, cns, free, cn, todo, err, misread, breaks, calls>>

Closed(c) == sock' = [sock EXCEPT ![c].state = "closed"]

(* connList.Remove, when no new connection could be made. *)
Drop(g) ==
    /\ Return(g, "drop")
    /\ cns' = cns \ {cn[g]}
    /\ len' = len - 1
    /\ Closed(cn[g])
    /\ UNCHANGED <<free, dialled, misread, breaks, calls>>

(* connList.Replace, *)
Replace(g) ==
    /\ Goto(g, "replace", "push")
    /\ cns' = (cns \ {cn[g]}) \cup {newcn[g]}
    /\ Closed(cn[g])
    /\ UNCHANGED <<len, free, dialled, cn, newcn, todo, err, misread, breaks, calls>>

\* Mutant: the old connection is put back.
PushOld(g) ==
    /\ Len(free) < size
    /\ Return(g, "push")
    /\ free' = Append(free, cn[g])
    /\ UNCHANGED <<len, cns, sock, dialled, misread, breaks, calls>>

(* and the new connection is free for whoever waits. *)
Push(g) ==
    /\ Len(free) < size
    /\ Return(g, "push")
    /\ free' = Append(free, newcn[g])
    /\ UNCHANGED <<len, cns, sock, dialled, misread, breaks, calls>>

(* Redis or the network ends a connection, in use or free. *)
Break(c) ==
    /\ breaks < MaxBreaks
    /\ breaks' = breaks + 1
    /\ sock[c].state = "open"
    /\ sock' = [sock EXCEPT ![c].state = "dead"]
    /\ UNCHANGED <<len, cns, free, dialled, pc, cn, newcn, todo, err, misread, calls>>

-----------------------------------------------------------------------------
GetConn(g) == First(g) \/ Reserve(g) \/ Unreserve(g) \/ Dial(g) \/ GiveBack(g) \/ Add(g) \/ Wait(g)
Exec(g) == Write(g) \/ Read(g) \/ Put(g)
Remove(g) == Redial(g) \/ Drop(g) \/ Replace(g) \/ Push(g)
Step(g) == GetConn(g) \/ Exec(g) \/ Remove(g)

Next ==
    \/ \E g \in Callers : Step(g) \/ \E n \in 1..MaxCmds : Begin(g, n)
    \/ \E c \in Conns : Break(c)

Spec == Init /\ [][Next]_vars

(* Callers are goroutines that go on when they can; Redis answers on a       *)
(* connection that holds, and the timer of wait fires.                       *)
FairSpec == Spec /\ \A g \in Callers : WF_vars(Step(g))
-----------------------------------------------------------------------------
(* The connection of the list that a caller is responsible for. *)
Kept(g) ==
    IF pc[g] \in InCall \cup {"redial", "drop", "replace"} THEN {cn[g]}
    ELSE IF pc[g] = "push" THEN {newcn[g]} ELSE {}

(* A connection has one user: no two callers work with it, and what a caller *)
(* works with is not free for others, and is not twice in the channel.       *)
OneUser ==
    /\ \A g, h \in Callers : g # h => Kept(g) \cap Kept(h) = {}
    /\ \A g \in Callers, i \in DOMAIN free : free[i] \notin Kept(g)
    /\ \A i, j \in DOMAIN free : free[i] = free[j] => i = j

(* No connection is lost: each one of the list is free or some caller's, and *)
(* each socket not closed is in the list or about to be put into it.  The    *)
(* panics "conn not found in the list" are therefore never reached.          *)
NoneLost ==
    /\ cns = {free[i] : i \in DOMAIN free} \cup UNION {Kept(g) : g \in Callers}
    /\ {c \in Conns : sock[c].state \in {"open", "dead"}} =
         cns \cup {cn[g] : g \in {h \in Callers : pc[h] = "add"}}
             \cup {newcn[g] : g \in {h \in Callers : pc[h] = "replace"}}

(* len counts the connections of the list and the places that callers have   *)
(* taken for one, or will give back, and nothing else: in a pool that nobody *)
(* uses it is the number of free connections, as pool_test.go expects.       *)
Reserving == {g \in Callers : pc[g] \in {"unreserve", "dial", "giveback", "add"}}
PlacesExact == len = Cardinality(cns) + Cardinality(Reserving)

(* The list keeps to the pool's size however calls of Reserve overlap, and   *)
(* whoever sends to the channel finds room, so that no call hangs there.     *)
WithinSize ==
    /\ Cardinality(cns) <= size
    /\ \A g \in Callers : pc[g] \in {"put", "push"} => Len(free) < size

(* The pool's books, connPool: all of the above, in every state.             *)
Accounts == TypeOK /\ OneUser /\ NoneLost /\ PlacesExact /\ WithinSize

(* No caller reads the reply to the command of another. *)
OwnReplies == ~misread

(* Every call returns, also when all connections break and none can be made. *)
CallsEnd == \A g \in Callers : pc[g] # "idle" ~> pc[g] = "idle"

-----------------------------------------------------------------------------
(* What Lending says of the calls: the stage of each, by its step, the       *)
(* connection it may use, and whether it has failed.                         *)
Stage(step) ==
    IF step \in InGet THEN "asking" ELSE IF step \in InCall THEN "using"
    ELSE IF step \in InRemove THEN "ending" ELSE "idle"

Stages == [g \in Callers |-> Stage(pc[g])]
Lent == [g \in Callers |-> IF pc[g] \in InCall THEN cn[g] ELSE None]
Failed == [g \in Callers |-> err[g] # "none"]

Promise == INSTANCE Lending WITH stage <- Stages, lent <- Lent, failed <- Failed

(* pool.go and redis.go lend each connection to one call at a time, and no   *)
(* more connections than the pool's size, and take it back when the call has *)
(* all its replies or an error.                                              *)
LendsInTurn == Promise!Spec
=============================================================================
