----------------------------- MODULE ShutdownProofs ---------------------------
(* What Shutdown guarantees for any number of connections, shards, requests  *)
(* in a pipeline and signals.                                                *)
EXTENDS Shutdown, FiniteSetTheorems, TLAPS

N == Cardinality(Conns)

MainType ==
    /\ main \in {"starting", "accept", "add", "init", "wait", "exited", "fatal"}
    /\ accepted \in 0..N
    /\ open \in BOOLEAN /\ keepAlives \in BOOLEAN

ConnType ==
    /\ idle \subseteq all /\ all \subseteq Conns
    /\ drain \in [ShardIds -> BOOLEAN]
    /\ busy \in [Conns -> BOOLEAN] /\ closed \in [Conns -> BOOLEAN]
    /\ stage \in [Conns -> Stages]
    /\ buffered \in [Conns -> 0..MaxBuffer]

Wg == wg \in [ShardIds -> Nat]

(* The signals taken are among those sent. *)
CallType ==
    /\ sigchan \in 0..1 /\ sent \in 0..MaxSignals
    /\ \E n \in 0..MaxSignals : DOMAIN calls = 1..n /\ n + sigchan <= sent
    /\ \A i \in DOMAIN calls : calls[i] \in [kind : Kinds, at : {"close", "post", "notify", "gone"}]

DrainType ==
    /\ once \in [Kinds -> {"no", "running", "done"}]
    /\ drainer \in [Kinds -> [at : {"none", "keepalives", "close", "mark", "shut", "wait", "done"},
                              shard : 0..Shards, set : SUBSET Conns]]
    /\ hooks \in BOOLEAN /\ waiting \in BOOLEAN

(* A connection on its way through its goroutine. *)
Tracked(c) == stage[c] \notin {"none", "accepted", "added"}

(* Main brings connections in one by one. *)
InOrder ==
    /\ \A c \in Conns : stage[c] = "none" <=> c > accepted
    /\ \A c \in Conns : stage[c] = "accepted" <=> main = "add" /\ c = accepted
    /\ \A c \in Conns : stage[c] = "added" => main \in {"init", "fatal"} /\ c = accepted
    /\ main = "init" => \A c \in Conns : c = accepted => stage[c] = "added"

Tracks ==
    /\ InOrder
    /\ all = {c \in Conns : Tracked(c) /\ ~closed[c]}
    /\ \A c \in Conns : closed[c] => Tracked(c) /\ (stage[c] = "ended" \/ drain[ShardOf(c)])
    /\ \A k \in Kinds : \A c \in drainer[k].set : Tracked(c) /\ drain[ShardOf(c)]

(* The group of a shard counts its connections from Count to their closing. *)
Counts(c) == stage[c] \notin {"none", "accepted"}
Live(s) == {c \in Of(s) : Counts(c) /\ ~closed[c]}
Counted == \A s \in ShardIds : wg[s] = Cardinality(Live(s))

(* A drain waits with the socket closed.  The shards it has been through     *)
(* drain, and those it has waited for hold no connection any more: a shard   *)
(* that drains gets none, while its group may count one for a moment.        *)
Shut(k) == drainer[k].at \in {"mark", "shut", "wait", "done"}
Gone(s) == drain[s] /\ Of(s) \cap all = {}
Drained(at, sh, s) == (at = "mark" /\ s < sh) \/ (at = "shut" /\ s <= sh) \/ at \in {"wait", "done"}
Awaited(at, sh, s) == (at = "wait" /\ s < sh) \/ at = "done"
Drains ==
    /\ \A k \in Kinds :
         /\ Shut(k) => ~open
         /\ drainer[k].at \in {"mark", "shut", "wait"} => drainer[k].shard \in ShardIds
         /\ \A s \in ShardIds :
              /\ Drained(drainer[k].at, drainer[k].shard, s) => drain[s]
              /\ Awaited(drainer[k].at, drainer[k].shard, s) => Gone(s)
         /\ once[k] = "no" => drainer[k].at = "none"
         /\ once[k] = "running" => drainer[k].at \notin {"none", "done"}
         /\ once[k] = "done" => drainer[k].at \in {"none", "done"}
    /\ ~open => \E k \in Kinds : Shut(k)
    /\ main \in {"wait", "exited"} => ~open

Ends ==
    /\ \A i \in DOMAIN calls : calls[i].at # "close" => once[calls[i].kind] = "done"
    /\ \A i \in DOMAIN calls : calls[i].at \in {"notify", "gone"} => hooks
    /\ hooks => \E k \in Kinds : once[k] = "done"
    /\ ~waiting => hooks

(* What is left in the buffer of a connection. *)
Buffers ==
    \A c \in Conns :
      /\ buffered[c] < MaxBuffer
      /\ stage[c] \in {"none", "accepted", "added", "got"} => buffered[c] = 0
      /\ stage[c] = "reading" /\ busy[c] => buffered[c] = 0

Types == MainType /\ ConnType /\ CallType /\ DrainType
Inv == Types /\ Tracks /\ Wg /\ Counted /\ Drains /\ Ends /\ Buffers /\ RequestsFinish

-----------------------------------------------------------------------------
(* Types. *)
LEMMA Sizes ==
  /\ IsFiniteSet(Conns) /\ N \in Nat /\ Conns = 1..N
  /\ Shards \in Nat /\ Shards >= 1 /\ MaxBuffer \in Nat /\ MaxBuffer >= 1 /\ MaxSignals \in Nat
BY ShutdownAssumption, FS_CardinalityType DEF N

LEMMA ShardOfConn ==
  ASSUME NEW c \in Conns
  PROVE  ShardOf(c) \in ShardIds
BY Sizes DEF ShardOf, ShardIds

LEMMA MainStep ==
  ASSUME Types, Next
  PROVE  MainType'
<1> USE DEF Types
<1>1. CASE Main
  BY <1>1 DEF Main, appendListener, Refused, Wait, Count, track, MainType
<1>2. CASE Signal \/ sigLoop
  BY <1>2 DEF Signal, sigLoop, server, MainType
<1>3. ASSUME NEW c \in Conns, Accept(c) PROVE MainType'
  BY <1>3, Sizes DEF Accept, MainType
<1>4. ASSUME NEW c \in Conns, Serving(c) PROVE MainType'
  <2>1. UNCHANGED <<main, accepted, open, keepAlives>>
    BY <1>4 DEF Serving, Request, Read, ReadRequest, ReadPart, ReadFails, Buffered, Handled,
                markIdle, Finish, Leave, Arrive, Serves, server
  <2>2. QED
    BY <2>1 DEF MainType
<1>5. ASSUME NEW i, Shutting(i) PROVE MainType'
  <2>1. UNCHANGED <<main, accepted, open, keepAlives>>
    BY <1>5 DEF Shutting, closeListeners, PostHooks, Notify, server
  <2>2. QED
    BY <2>1 DEF MainType
<1>6. ASSUME NEW k \in Kinds, Draining(k) PROVE MainType'
  <2>1. UNCHANGED <<main, accepted>> /\ open' \in BOOLEAN /\ keepAlives' \in BOOLEAN
    BY <1>6 DEF Draining, DisableKeepAlives, CloseSocket, closeConns, closeIfIdle, NextShard,
                WaitShard, server, MainType
  <2>2. QED
    BY <2>1 DEF MainType
<1>7. QED
  BY <1>1, <1>2, <1>3, <1>4, <1>5, <1>6 DEF Next

LEMMA CloseType ==
  ASSUME ConnType, NEW c \in Conns, Close(c)
  PROVE  /\ all' \subseteq all /\ idle' \subseteq idle /\ idle' \subseteq all'
         /\ closed' \in [Conns -> BOOLEAN]
BY DEF ConnType, Close

LEMMA ConnStep ==
  ASSUME Types, Tracks, Next
  PROVE  ConnType'
<1>0. ConnType
  BY DEF Types
<1>1. ASSUME UNCHANGED <<tracking, serving>> PROVE ConnType'
  BY <1>0, <1>1 DEF ConnType, tracking, serving
<1>2. CASE appendListener \/ Refused \/ Wait \/ Signal \/ sigLoop
  BY <1>1, <1>2 DEF appendListener, Refused, Wait, Signal, sigLoop
<1>3. ASSUME NEW c \in Conns, track(c) PROVE ConnType'
  <2>1. stage' \in [Conns -> Stages] /\ UNCHANGED <<drain, busy, buffered>>
    BY <1>0, <1>3 DEF track, ConnType, Stages
  <2>2. CASE drain[ShardOf(c)]
    BY <1>0, <1>3, <2>1, <2>2, CloseType DEF track, ConnType
  <2>3. CASE ~drain[ShardOf(c)]
    BY <1>0, <1>3, <2>1, <2>3 DEF track, ConnType
  <2>4. QED
    BY <2>2, <2>3
<1>4. ASSUME NEW c \in Conns, Accept(c) \/ Count(c) PROVE ConnType'
  BY <1>0, <1>4 DEF Accept, Count, ConnType, Stages, tracking
<1>5. ASSUME NEW c \in Conns, Serving(c) PROVE ConnType'
  <2> USE DEF Stages
  <2>1. CASE ReadRequest(c)
    <3>1. PICK n \in 1..MaxBuffer : buffered' = [buffered EXCEPT ![c] = n - 1]
      BY <2>1 DEF ReadRequest
    <3>2. n - 1 \in 0..MaxBuffer
      BY Sizes
    <3>3. buffered' \in [Conns -> 0..MaxBuffer]
      BY <1>0, <3>1, <3>2 DEF ConnType
    <3>4. QED
      BY <1>0, <2>1, <3>3 DEF ReadRequest, Serves, Marked, ConnType
  <2>2. CASE ReadPart(c) \/ ReadFails(c)
    BY <1>0, <2>2 DEF ReadPart, ReadFails, Serves, Marked, ConnType, tracking
  <2>3. CASE Buffered(c)
    <3>1. buffered' \in [Conns -> 0..MaxBuffer]
      <4>1. buffered[c] - 1 \in 0..MaxBuffer /\ buffered' = [buffered EXCEPT ![c] = buffered[c] - 1]
        BY <1>0, <2>3, Sizes DEF Buffered, ConnType
      <4>2. QED
        BY <1>0, <4>1 DEF ConnType
    <3>2. QED
      BY <1>0, <2>3, <3>1 DEF Buffered, Serves, ConnType, tracking
  <2>4. CASE Handled(c) \/ Arrive(c)
    BY <1>0, <2>4 DEF Handled, Arrive, Serves, ConnType, tracking
  <2>5. CASE markIdle(c)
    <3>1. stage' \in [Conns -> Stages] /\ busy' \in [Conns -> BOOLEAN] /\ UNCHANGED <<drain, buffered>>
      BY <1>0, <2>5 DEF markIdle, Serves, ConnType
    <3>2. CASE busy[c] /\ drain[ShardOf(c)]
      BY <1>0, <2>5, <3>1, <3>2, CloseType DEF markIdle, ConnType
    <3>3. CASE ~(busy[c] /\ drain[ShardOf(c)])
      <4>1. busy[c] => c \in all
        BY <2>5, <3>3 DEF markIdle, Serves, Tracks, Tracked
      <4>2. QED
        BY <1>0, <2>5, <3>1, <3>3, <4>1 DEF markIdle, ConnType
    <3>4. QED
      BY <3>2, <3>3
  <2>6. CASE Finish(c)
    BY <1>0, <2>6, CloseType DEF Finish, Serves, ConnType
  <2>7. CASE Leave(c)
    BY <1>0, <2>7 DEF Leave, Serves, ConnType
  <2>8. QED
    BY <1>5, <2>1, <2>2, <2>3, <2>4, <2>5, <2>6, <2>7 DEF Serving, Request, Read
<1>6. ASSUME NEW i, Shutting(i) PROVE ConnType'
  BY <1>1, <1>6 DEF Shutting, closeListeners, PostHooks, Notify
<1>7. ASSUME NEW k \in Kinds, Draining(k) PROVE ConnType'
  <2>1. CASE DisableKeepAlives(k) \/ CloseSocket(k) \/ NextShard(k) \/ WaitShard(k)
    BY <1>1, <2>1 DEF DisableKeepAlives, CloseSocket, NextShard, WaitShard
  <2>2. CASE closeConns(k)
    BY <1>0, <2>2 DEF closeConns, ConnType, serving
  <2>3. CASE closeIfIdle(k)
    <3>1. UNCHANGED <<drain, busy, stage, buffered>>
      BY <2>3 DEF closeIfIdle, serving
    <3>2. PICK c \in drainer[k].set : UNCHANGED <<all, idle, wg, closed>> \/ Close(c)
      BY <2>3 DEF closeIfIdle
    <3>3. c \in Conns
      BY <3>2 DEF Types, DrainType
    <3>4. QED
      BY <1>0, <3>1, <3>2, <3>3, CloseType DEF ConnType
  <2>4. QED
    BY <1>7, <2>1, <2>2, <2>3 DEF Draining
<1>8. QED
  BY <1>2, <1>3, <1>4, <1>5, <1>6, <1>7 DEF Next, Main

LEMMA CallStep ==
  ASSUME Types, Next
  PROVE  CallType'
<1>0. CallType
  BY DEF Types
<1>1. ASSUME UNCHANGED <<sigchan, sent, calls>> PROVE CallType'
  BY <1>0, <1>1 DEF CallType
<1>2. CASE Main
  BY <1>1, <1>2 DEF Main, appendListener, Refused, Wait, Count, track, signals
<1>3. CASE Signal
  <2>1. PICK n \in 0..MaxSignals : DOMAIN calls = 1..n /\ n + sigchan <= sent
    BY <1>0 DEF CallType
  <2>2. n + sigchan' <= sent' /\ sigchan' \in 0..1 /\ sent' \in 0..MaxSignals /\ calls' = calls
    BY <1>0, <1>3, <2>1, Sizes DEF Signal, CallType
  <2>3. QED
    BY <1>0, <2>1, <2>2 DEF CallType
<1>4. CASE sigLoop
  <2>1. PICK n \in 0..MaxSignals : DOMAIN calls = 1..n /\ n + sigchan <= sent
    BY <1>0 DEF CallType
  <2>2. Cardinality(DOMAIN calls) = n
    BY <2>1, FS_Interval, Sizes
  <2>3. PICK k \in Kinds :
          calls' = [i \in 1..(n + 1) |-> IF i \in DOMAIN calls THEN calls[i] ELSE [kind |-> k, at |-> "close"]]
    BY <1>4, <2>2 DEF sigLoop, Kinds
  <2>4. n + 1 \in 0..MaxSignals /\ n + 1 + sigchan' <= sent' /\ sigchan' \in 0..1 /\ sent' \in 0..MaxSignals
    BY <1>0, <1>4, <2>1, Sizes DEF sigLoop, CallType
  <2>5. DOMAIN calls' = 1..(n + 1)
    BY <2>3
  <2>6. \A i \in DOMAIN calls' : calls'[i] \in [kind : Kinds, at : {"close", "post", "notify", "gone"}]
    BY <1>0, <2>3 DEF CallType
  <2>7. QED
    BY <2>4, <2>5, <2>6 DEF CallType
<1>5. ASSUME NEW c \in Conns, Accept(c) \/ Serving(c) PROVE CallType'
  BY <1>1, <1>5 DEF Accept, Serving, Request, Read, ReadRequest, ReadPart, ReadFails, Buffered, Handled,
                    markIdle, Finish, Leave, Arrive, Serves, signals
<1>6. ASSUME NEW i, Shutting(i) PROVE CallType'
  <2>1. ASSUME NEW from, NEW to \in {"post", "notify", "gone"}, Calls(i, from, to), UNCHANGED <<sigchan, sent>>
        PROVE  CallType'
    <3>1. DOMAIN calls' = DOMAIN calls
      BY <2>1 DEF Calls
    <3>2. \A j \in DOMAIN calls' : calls'[j] \in [kind : Kinds, at : {"close", "post", "notify", "gone"}]
      BY <1>0, <2>1 DEF CallType, Calls
    <3>3. QED
      BY <1>0, <2>1, <3>1, <3>2 DEF CallType
  <2>2. QED
    BY <1>1, <1>6, <2>1 DEF Shutting, closeListeners, PostHooks, Notify
<1>7. ASSUME NEW k \in Kinds, Draining(k) PROVE CallType'
  BY <1>1, <1>7 DEF Draining, DisableKeepAlives, CloseSocket, closeConns, closeIfIdle, NextShard,
                    WaitShard, signals
<1>8. QED
  BY <1>2, <1>3, <1>4, <1>5, <1>6, <1>7 DEF Next

LEMMA DrainTypeStep ==
  ASSUME Types, Next
  PROVE  DrainType'
<1>0. DrainType /\ ConnType /\ CallType
  BY DEF Types
<1>1. ASSUME UNCHANGED <<once, drainer>>, hooks' \in BOOLEAN, waiting' \in BOOLEAN PROVE DrainType'
  BY <1>0, <1>1 DEF DrainType
<1>2. CASE Main \/ Signal \/ sigLoop
  <2>1. UNCHANGED <<once, drainer, hooks, waiting>>
    BY <1>2 DEF Main, appendListener, Refused, Wait, Count, track, Signal, sigLoop, signals
  <2>2. QED
    BY <1>0, <1>1, <2>1 DEF DrainType
<1>3. ASSUME NEW c \in Conns, Accept(c) \/ Serving(c) PROVE DrainType'
  <2>1. UNCHANGED <<once, drainer, hooks, waiting>>
    BY <1>3 DEF Accept, Serving, Request, Read, ReadRequest, ReadPart, ReadFails, Buffered, Handled,
                markIdle, Finish, Leave, Arrive, Serves, signals
  <2>2. QED
    BY <1>0, <1>1, <2>1 DEF DrainType
<1>4. ASSUME NEW k \in Kinds,
             NEW at \in {"none", "keepalives", "close", "mark", "shut", "wait", "done"},
             NEW sh \in 0..Shards, NEW set, set \subseteq Conns, Drainer(k, at, sh, set),
             once' \in [Kinds -> {"no", "running", "done"}], UNCHANGED <<hooks, waiting>>
      PROVE  DrainType'
  BY <1>0, <1>4 DEF DrainType, Drainer
<1>5. ASSUME NEW i, Shutting(i) PROVE DrainType'
  <2>1. CASE closeListeners(i)
    <3>1. CASE UNCHANGED <<once, drainer, hooks, waiting>>
      BY <1>0, <1>1, <3>1 DEF DrainType
    <3>2. CASE /\ once' \in [Kinds -> {"no", "running", "done"}]
               /\ UNCHANGED <<drainer, hooks, waiting>>
      BY <1>0, <3>2 DEF DrainType
    <3>3. CASE /\ calls[i].kind \in Kinds
               /\ once' = [once EXCEPT ![calls[i].kind] = "running"]
               /\ Drainer(calls[i].kind, "keepalives", 0, {})
               /\ UNCHANGED <<hooks, waiting>>
      <4>1. once' \in [Kinds -> {"no", "running", "done"}] /\ 0 \in 0..Shards
        BY <1>0, <3>3, Sizes DEF DrainType
      <4>2. QED
        BY <1>4, <3>3, <4>1
    <3>4. i \in DOMAIN calls => calls[i].kind \in Kinds
      BY <1>0 DEF CallType
    <3>5. QED
      BY <1>0, <2>1, <3>1, <3>2, <3>3, <3>4 DEF closeListeners, DrainType
  <2>2. CASE PostHooks(i) \/ Notify(i)
    BY <1>0, <1>1, <2>2 DEF PostHooks, Notify, DrainType
  <2>3. QED
    BY <1>5, <2>1, <2>2 DEF Shutting
<1>6. ASSUME NEW k \in Kinds, Draining(k) PROVE DrainType'
  <2>0. /\ 0 \in 0..Shards /\ drainer[k].shard \in 0..Shards /\ drainer[k].set \subseteq Conns
        /\ drainer[k].shard + 1 < Shards => drainer[k].shard + 1 \in 0..Shards
        /\ once \in [Kinds -> {"no", "running", "done"}]
    BY <1>0, Sizes DEF DrainType
  <2>1. CASE DisableKeepAlives(k)
    BY <1>4, <2>0, <2>1 DEF DisableKeepAlives, signals
  <2>2. CASE CloseSocket(k)
    BY <1>4, <2>0, <2>2 DEF CloseSocket, signals
  <2>3. CASE closeConns(k)
    <3> DEFINE set == Of(drainer[k].shard) \cap (IF k = "forced" THEN all ELSE idle)
    <3>1. set \subseteq Conns
      BY DEF Of
    <3>2. Drainer(k, "shut", drainer[k].shard, set) /\ UNCHANGED <<once, hooks, waiting>>
      BY <2>3 DEF closeConns, signals
    <3> HIDE DEF set
    <3>3. QED
      BY <1>4, <2>0, <3>1, <3>2
  <2>4. CASE closeIfIdle(k)
    <3>1. PICK c \in drainer[k].set : Drainer(k, "shut", drainer[k].shard, drainer[k].set \ {c})
      BY <2>4 DEF closeIfIdle
    <3>2. UNCHANGED <<once, hooks, waiting>>
      BY <2>4 DEF closeIfIdle, signals
    <3>3. drainer[k].set \ {c} \subseteq Conns
      BY <2>0
    <3>4. QED
      BY <1>4, <2>0, <3>1, <3>2, <3>3
  <2>5. CASE NextShard(k)
    BY <1>4, <2>0, <2>5 DEF NextShard, signals
  <2>6. CASE WaitShard(k)
    <3>1. CASE Drainer(k, "wait", drainer[k].shard + 1, {}) /\ drainer[k].shard + 1 < Shards /\ UNCHANGED <<once, hooks, waiting>>
      BY <1>4, <2>0, <3>1
    <3>2. CASE Drainer(k, "done", 0, {}) /\ once' = [once EXCEPT ![k] = "done"] /\ UNCHANGED <<hooks, waiting>>
      <4>1. once' \in [Kinds -> {"no", "running", "done"}]
        BY <2>0, <3>2
      <4>2. QED
        BY <1>4, <2>0, <3>2, <4>1
    <3>3. QED
      BY <2>6, <3>1, <3>2 DEF WaitShard
  <2>7. QED
    BY <1>6, <2>1, <2>2, <2>3, <2>4, <2>5, <2>6 DEF Draining
<1>7. QED
  BY <1>2, <1>3, <1>5, <1>6 DEF Next

-----------------------------------------------------------------------------
(* What a step does to the connections: nothing, a new one, or one of them   *)
(* goes on in its goroutine, is closed, or both.                             *)
Quiet ==
    /\ UNCHANGED <<stage, all, closed, wg, accepted>>
    /\ \A m \in {"add", "init", "fatal"} : main = m => main' = m
    /\ \A m \in {"add", "init"} : main' = m => main = m
    /\ \A s \in ShardIds : drain[s] => drain'[s]
    /\ \A k \in Kinds : \A c \in drainer'[k].set :
         c \in drainer[k].set \/ (c \in all /\ drain'[ShardOf(c)])

Touch(c, to) ==
    /\ Tracked(c) /\ to \notin {"none", "accepted", "added"}
    /\ stage[c] = "ended" => to = "ended"
    /\ stage' = [stage EXCEPT ![c] = to]
    /\ UNCHANGED <<main, accepted, drain>>
    /\ \A k \in Kinds : drainer'[k].set \subseteq drainer[k].set
    /\ \/ UNCHANGED <<all, closed, wg>>
       \/ Close(c) /\ (to = "ended" \/ drain[ShardOf(c)])

LEMMA ServingTouches ==
  ASSUME Types, Tracks, NEW c \in Conns, Serving(c)
  PROVE  \E to \in Stages : Touch(c, to)
<1>0. ASSUME NEW from \in Stages \ {"none", "accepted", "added", "ended"}, NEW to \in Stages \ {"none", "accepted", "added"},
             Serves(c, from, to), UNCHANGED <<all, closed, wg>>
      PROVE  Touch(c, to)
  BY <1>0 DEF Touch, Serves, server, Tracked
<1>1. ASSUME NEW from \in Stages \ {"none", "accepted", "added", "ended"}, NEW to \in Stages \ {"none", "accepted", "added"},
             Serves(c, from, to), Close(c), to = "ended" \/ drain[ShardOf(c)]
      PROVE  Touch(c, to)
  BY <1>1 DEF Touch, Serves, server, Tracked
<1> USE DEF Stages
<1>2. CASE ReadRequest(c)
  BY <1>0, <1>2 DEF ReadRequest
<1>3. CASE ReadPart(c)
  BY <1>0, <1>3 DEF ReadPart
<1>4. CASE ReadFails(c)
  BY <1>0, <1>4 DEF ReadFails, tracking
<1>5. CASE Buffered(c)
  BY <1>0, <1>5 DEF Buffered, tracking
<1>6. CASE Handled(c)
  BY <1>0, <1>6 DEF Handled, tracking
<1>7. CASE Arrive(c)
  BY <1>0, <1>7 DEF Arrive, tracking
<1>8. CASE Leave(c)
  BY <1>0, <1>8 DEF Leave
<1>9. CASE Finish(c)
  BY <1>1, <1>9 DEF Finish
<1>10. CASE markIdle(c)
  <2>1. CASE busy[c] /\ drain[ShardOf(c)]
    BY <1>1, <1>10, <2>1 DEF markIdle
  <2>2. CASE ~(busy[c] /\ drain[ShardOf(c)])
    BY <1>0, <1>10, <2>2 DEF markIdle
  <2>3. QED
    BY <2>1, <2>2
<1>11. QED
  BY <1>2, <1>3, <1>4, <1>5, <1>6, <1>7, <1>8, <1>9, <1>10 DEF Serving, Request, Read

LEMMA DrainingEffects ==
  ASSUME Types, Tracks, NEW k \in Kinds, Draining(k)
  PROVE  Quiet \/ \E c \in Conns, to \in Stages : Touch(c, to)
<1>0. ConnType /\ DrainType
  BY DEF Types
<1>1. ASSUME NEW at, NEW sh, NEW set, Drainer(k, at, sh, set), UNCHANGED <<server, tracking, serving>>,
             set = {} \/ set = drainer[k].set
      PROVE  Quiet
  BY <1>0, <1>1 DEF Quiet, server, tracking, serving, DrainType, Drainer
<1>2. CASE DisableKeepAlives(k)
  BY <1>1, <1>2 DEF DisableKeepAlives
<1>3. CASE CloseSocket(k)
  <2>1. UNCHANGED <<main, accepted, tracking, serving>> /\ Drainer(k, "mark", 0, {})
    BY <1>3 DEF CloseSocket
  <2>2. QED
    BY <1>0, <2>1 DEF Quiet, tracking, serving, DrainType, Drainer
<1>4. CASE closeConns(k)
  <2> DEFINE s == drainer[k].shard
             set == Of(s) \cap (IF k = "forced" THEN all ELSE idle)
  <2>1. /\ UNCHANGED <<stage, all, closed, wg, accepted, main>>
        /\ drain' = [drain EXCEPT ![s] = TRUE] /\ Drainer(k, "shut", s, set)
    BY <1>4 DEF closeConns, server, serving
  <2>2. \A c \in set : c \in all /\ ShardOf(c) \in ShardIds /\ ShardOf(c) = s
    BY <1>0, ShardOfConn DEF ConnType, Of
  <2> HIDE DEF set
  <2>3. \A c \in set : drain'[ShardOf(c)]
    BY <1>0, <2>1, <2>2 DEF ConnType
  <2>4. \A d \in ShardIds : drain[d] => drain'[d]
    BY <1>0, <2>1 DEF ConnType
  <2>5. \A h \in Kinds : drainer'[h].set = IF h = k THEN set ELSE drainer[h].set
    BY <1>0, <2>1 DEF DrainType, Drainer
  <2>6. QED
    BY <2>1, <2>2, <2>3, <2>4, <2>5 DEF Quiet
<1>5. CASE closeIfIdle(k)
  <2>1. PICK c \in drainer[k].set :
           /\ IF k = "graceful" /\ busy[c] THEN UNCHANGED <<all, idle, wg, closed>> ELSE Close(c)
           /\ Drainer(k, "shut", drainer[k].shard, drainer[k].set \ {c})
    BY <1>5 DEF closeIfIdle
  <2>2. c \in Conns /\ Tracked(c) /\ drain[ShardOf(c)] /\ stage[c] \in Stages
    BY <1>0, <2>1 DEF ConnType, DrainType, Tracks
  <2>3. UNCHANGED <<main, accepted, drain, stage>>
    BY <1>5 DEF closeIfIdle, server, serving
  <2>4. stage' = [stage EXCEPT ![c] = stage[c]]
    BY <1>0, <2>2, <2>3 DEF ConnType
  <2>5. \A h \in Kinds : drainer'[h].set \subseteq drainer[h].set
    BY <1>0, <2>1 DEF DrainType, Drainer
  <2>6. Touch(c, stage[c])
    BY <2>1, <2>2, <2>3, <2>4, <2>5 DEF Touch, Tracked
  <2>7. QED
    BY <2>2, <2>6
<1>6. CASE NextShard(k)
  BY <1>1, <1>6 DEF NextShard
<1>7. CASE WaitShard(k)
  BY <1>1, <1>7 DEF WaitShard
<1>8. QED
  BY <1>2, <1>3, <1>4, <1>5, <1>6, <1>7 DEF Draining

LEMMA Effects ==
  ASSUME Types, Tracks, Next
  PROVE  \/ Quiet
         \/ \E c \in Conns : Accept(c) \/ Count(c) \/ track(c)
         \/ \E c \in Conns, to \in Stages : Touch(c, to)
<1>0. DrainType
  BY DEF Types
<1>1. CASE appendListener \/ Refused \/ Wait
  BY <1>1 DEF appendListener, Refused, Wait, tracking, serving, Quiet
<1>2. CASE Signal \/ sigLoop
  BY <1>2 DEF Signal, sigLoop, server, tracking, serving, Quiet
<1>3. ASSUME NEW i, Shutting(i) PROVE Quiet
  <2>1. UNCHANGED <<main, accepted, tracking, serving>>
    BY <1>3 DEF Shutting, closeListeners, PostHooks, Notify, server
  <2>2. \A k \in Kinds : drainer'[k].set \subseteq drainer[k].set
    BY <1>0, <1>3 DEF Shutting, closeListeners, PostHooks, Notify, Drainer, DrainType
  <2>3. QED
    BY <2>1, <2>2 DEF Quiet, tracking, serving
<1>4. QED
  BY <1>1, <1>2, <1>3, ServingTouches, DrainingEffects DEF Next, Main

-----------------------------------------------------------------------------
(* Connections and groups. *)
LEMMA TracksStep ==
  ASSUME Types, Types', Tracks, Next
  PROVE  Tracks'
<1>0. ConnType /\ DrainType /\ MainType
  BY DEF Types
<1>1. CASE Quiet
  <2>1. \A c \in Conns : Tracked(c)' <=> Tracked(c)
    BY <1>1 DEF Quiet, Tracked
  <2>2. \A k \in Kinds : \A c \in drainer'[k].set : Tracked(c)' /\ drain'[ShardOf(c)]
    <3>1. ASSUME NEW k \in Kinds, NEW c \in drainer'[k].set PROVE Tracked(c)' /\ drain'[ShardOf(c)]
      <4>1. c \in Conns
        BY <3>1 DEF Types, DrainType
      <4>2. CASE c \in drainer[k].set
        BY <1>1, <2>1, <4>1, <4>2, ShardOfConn DEF Quiet, Tracks
      <4>3. CASE c \in all /\ drain'[ShardOf(c)]
        BY <2>1, <4>1, <4>3 DEF Tracks
      <4>4. QED
        BY <1>1, <3>1, <4>2, <4>3 DEF Quiet
    <3>2. QED
      BY <3>1
  <2>3. QED
    BY <1>0, <1>1, <2>1, <2>2, ShardOfConn DEF Quiet, Tracks, InOrder, MainType
<1>2. ASSUME NEW c \in Conns, NEW to \in Stages, Touch(c, to) PROVE Tracks'
  <2>1. /\ stage'[c] = to /\ \A d \in Conns : d # c => stage'[d] = stage[d]
        /\ Tracked(c) /\ Tracked(c)' /\ \A d \in Conns : Tracked(d)' <=> Tracked(d)
    BY <1>0, <1>2 DEF Touch, Tracked, ConnType
  <2>2. UNCHANGED <<main, accepted, drain>>
    BY <1>2 DEF Touch
  <2>3. InOrder'
    BY <1>0, <2>1, <2>2 DEF Tracks, InOrder, Tracked
  <2>4. /\ all' = {d \in Conns : Tracked(d) /\ ~closed'[d]}
        /\ \A d \in Conns : closed'[d] => closed[d] \/ (d = c /\ (to = "ended" \/ drain[ShardOf(c)]))
    BY <1>0, <1>2 DEF Touch, Close, Tracks, ConnType
  <2>5. \A d \in Conns : closed'[d] => Tracked(d)' /\ (stage'[d] = "ended" \/ drain'[ShardOf(d)])
    BY <1>2, <2>1, <2>2, <2>4 DEF Tracks, Touch
  <2>6. \A k \in Kinds : \A d \in drainer'[k].set : Tracked(d)' /\ drain'[ShardOf(d)]
    BY <1>0, <1>2, <2>1, <2>2 DEF Tracks, Touch, DrainType
  <2>7. all' = {d \in Conns : Tracked(d)' /\ ~closed'[d]}
    BY <2>1, <2>4
  <2>8. QED
    BY <2>3, <2>5, <2>6, <2>7 DEF Tracks
<1>3. ASSUME NEW c \in Conns, NEW to \in {"accepted", "added"}, ~Tracked(c),
             stage' = [stage EXCEPT ![c] = to], UNCHANGED <<all, closed, drain, drainer>>, InOrder'
      PROVE  Tracks'
  <2>1. \A d \in Conns : Tracked(d)' <=> Tracked(d)
    BY <1>0, <1>3 DEF Tracked, ConnType
  <2>2. \A d \in Conns : Tracked(d) => stage'[d] = stage[d]
    BY <1>0, <1>3 DEF Tracked, ConnType
  <2>3. \A d \in Conns : closed'[d] => Tracked(d)' /\ (stage'[d] = "ended" \/ drain'[ShardOf(d)])
    BY <1>3, <2>1, <2>2 DEF Tracks
  <2>4. \A k \in Kinds : \A d \in drainer'[k].set : Tracked(d)' /\ drain'[ShardOf(d)]
    BY <1>0, <1>3, <2>1 DEF Tracks, DrainType
  <2>5. all' = {d \in Conns : Tracked(d)' /\ ~closed'[d]}
    BY <1>3, <2>1 DEF Tracks
  <2>6. QED
    BY <1>3, <2>3, <2>4, <2>5 DEF Tracks
<1>6. ASSUME NEW c \in Conns, Accept(c) PROVE Tracks'
  <2>1. /\ stage[c] = "none" /\ c = accepted + 1 /\ accepted' = c /\ main = "accept" /\ main' = "add"
        /\ stage' = [stage EXCEPT ![c] = "accepted"] /\ UNCHANGED <<all, closed, drain, drainer>>
    BY <1>0, <1>6, Sizes DEF Accept, Tracks, InOrder, MainType, tracking
  <2>2. InOrder'
    BY <1>0, <2>1, Sizes DEF Tracks, InOrder, ConnType, MainType
  <2>3. QED
    BY <1>3, <2>1, <2>2 DEF Tracked
<1>7. ASSUME NEW c \in Conns, Count(c) PROVE Tracks'
  <2>1. /\ stage[c] = "accepted" /\ c = accepted /\ accepted' = accepted
        /\ main = "add" /\ main' \in {"init", "fatal"}
        /\ stage' = [stage EXCEPT ![c] = "added"] /\ UNCHANGED <<all, closed, drain, drainer>>
    BY <1>0, <1>7 DEF Count, Tracks, InOrder
  <2>2. InOrder'
    BY <1>0, <2>1, Sizes DEF Tracks, InOrder, ConnType, MainType
  <2>3. QED
    BY <1>3, <2>1, <2>2 DEF Tracked
<1>4. ASSUME NEW c \in Conns, track(c) PROVE Tracks'
  <2>1. /\ stage[c] = "added" /\ ~closed[c] /\ c = accepted /\ accepted' = accepted
        /\ main = "init" /\ main' \in {"accept", "fatal"} /\ UNCHANGED <<drain, drainer>>
    BY <1>4 DEF track, Tracks, InOrder, Tracked
  <2>2. PICK to \in {"reading", "ended"} :
           /\ stage' = [stage EXCEPT ![c] = to]
           /\ \/ to = "reading" /\ all' = all \cup {c} /\ closed' = closed
              \/ to = "ended" /\ Close(c)
    BY <1>4 DEF track
  <2>3. InOrder'
    BY <1>0, <2>1, <2>2, Sizes DEF Tracks, InOrder, ConnType, MainType
  <2>4. Tracked(c)' /\ \A d \in Conns : d # c => (Tracked(d)' <=> Tracked(d)) /\ stage'[d] = stage[d]
    BY <1>0, <2>2 DEF Tracked, ConnType
  <2>5. \A d \in Conns : Tracked(d) => d # c
    BY <2>1 DEF Tracked
  <2>6. /\ \A d \in Conns : d # c => closed'[d] = closed[d]
        /\ closed'[c] => stage'[c] = "ended"
    BY <1>0, <2>1, <2>2 DEF Close, ConnType
  <2>7. \A d \in Conns : closed'[d] => Tracked(d)' /\ (stage'[d] = "ended" \/ drain'[ShardOf(d)])
    BY <2>1, <2>4, <2>6 DEF Tracks
  <2>8. \A k \in Kinds : \A d \in drainer'[k].set : Tracked(d)' /\ drain'[ShardOf(d)]
    BY <1>0, <2>1, <2>4, <2>5 DEF Tracks, DrainType
  <2>9. all' = {d \in Conns : Tracked(d)' /\ ~closed'[d]}
    <3>1. c \notin all
      BY <2>1 DEF Tracks, Tracked
    <3>2. CASE all' = all \cup {c} /\ closed' = closed
      BY <2>1, <2>4, <3>2 DEF Tracks
    <3>3. CASE Close(c)
      <4>1. closed'[c]
        BY <1>0, <2>1, <3>3 DEF Close, ConnType
      <4>2. all' = all
        BY <2>1, <3>1, <3>3 DEF Close
      <4>3. \A d \in Conns : d \in all <=> Tracked(d) /\ ~closed[d]
        BY DEF Tracks
      <4>4. \A d \in Conns : d \in all' <=> Tracked(d)' /\ ~closed'[d]
        BY <2>4, <2>6, <3>1, <4>1, <4>2, <4>3
      <4>5. QED
        BY <1>0, <4>2, <4>4 DEF ConnType
    <3>4. QED
      BY <2>2, <3>2, <3>3
  <2>10. QED
    BY <2>3, <2>7, <2>8, <2>9 DEF Tracks
<1>8. QED
  BY <1>1, <1>2, <1>4, <1>6, <1>7, Effects

LEMMA LiveFinite ==
  ASSUME NEW s
  PROVE  IsFiniteSet(Live(s)) /\ Cardinality(Live(s)) \in Nat
<1>1. Live(s) \subseteq Conns
  BY DEF Live, Of
<1>2. IsFiniteSet(Live(s))
  BY <1>1, Sizes, FS_Subset
<1>3. QED
  BY <1>2, FS_CardinalityType

LEMMA CountsAre ==
  ASSUME Types, Tracks, Counted
  PROVE  CountsExact
<1>1. ASSUME NEW s \in ShardIds PROVE {c \in Of(s) : c \in all \/ stage[c] = "added"} = Live(s)
  <2>1. \A c \in Of(s) : (c \in all \/ stage[c] = "added") <=> (Counts(c) /\ ~closed[c])
    BY DEF Tracks, Tracked, Counts, Of
  <2>2. QED
    BY <2>1 DEF Live
<1>2. QED
  BY <1>1 DEF CountsExact, Counted

LEMMA SameLive ==
  ASSUME Counted, wg' = wg,
         \A c \in Conns : (Counts(c)' <=> Counts(c)) /\ (closed'[c] <=> closed[c])
  PROVE  Counted'
<1>1. \A s \in ShardIds : Live(s)' = Live(s)
  BY DEF Live, Of
<1>2. QED
  BY <1>1 DEF Counted

LEMMA LessLive ==
  ASSUME Types, Counted, Wg, NEW c \in Conns, Close(c), Counts(c),
         \A d \in Conns : Counts(d)' <=> Counts(d)
  PROVE  Counted' /\ Wg'
<1>0. ConnType
  BY DEF Types
<1>1. CASE closed[c]
  BY <1>0, <1>1, SameLive DEF Close, Wg
<1>2. CASE ~closed[c]
  <2> DEFINE h == ShardOf(c)
  <2>1. h \in ShardIds /\ wg' = [wg EXCEPT ![h] = wg[h] - 1] /\ closed' = [closed EXCEPT ![c] = TRUE]
    BY <1>2, ShardOfConn DEF Close
  <2>2. c \in Live(h) /\ Live(h)' = Live(h) \ {c}
    BY <1>0, <1>2, <2>1 DEF Live, Of, ConnType
  <2>3. wg'[h] = wg[h] - 1 /\ \A s \in ShardIds : s # h => wg'[s] = wg[s]
    BY <2>1 DEF Wg
  <2>4. Cardinality(Live(h)') = Cardinality(Live(h)) - 1 /\ Cardinality(Live(h)') \in Nat
    BY <2>2, LiveFinite, FS_RemoveElement, FS_CardinalityType
  <2>5. wg'[h] = Cardinality(Live(h)') /\ wg'[h] \in Nat
    BY <2>1, <2>3, <2>4 DEF Counted
  <2>6. \A s \in ShardIds : s # h => Live(s)' = Live(s)
    BY <1>0, <2>1 DEF Live, Of, ConnType
  <2> HIDE DEF h
  <2>7. wg' \in [ShardIds -> Nat]
    BY <2>1, <2>3, <2>5 DEF Wg
  <2>8. QED
    BY <2>3, <2>5, <2>6, <2>7 DEF Counted, Wg
<1>3. QED
  BY <1>1, <1>2

LEMMA CountedStep ==
  ASSUME Types, Tracks, Counted, Wg, Next
  PROVE  Counted' /\ Wg'
<1>0. ConnType /\ MainType
  BY DEF Types
<1>1. CASE Quiet
  <2>1. \A d \in Conns : Counts(d)' <=> Counts(d)
    BY <1>1 DEF Quiet, Counts
  <2>2. QED
    BY <1>1, <2>1, SameLive DEF Quiet, Wg
<1>2. ASSUME NEW c \in Conns, NEW to \in Stages, Touch(c, to) PROVE Counted' /\ Wg'
  <2>1. Counts(c) /\ \A d \in Conns : Counts(d)' <=> Counts(d)
    BY <1>0, <1>2 DEF Touch, Tracked, Counts, ConnType
  <2>2. CASE UNCHANGED <<all, closed, wg>>
    BY <2>1, <2>2, SameLive DEF Wg
  <2>3. CASE Close(c)
    BY <2>1, <2>3, LessLive
  <2>4. QED
    BY <1>2, <2>2, <2>3 DEF Touch
<1>3. ASSUME NEW c \in Conns, track(c) PROVE Counted' /\ Wg'
  <2>1. Counts(c) /\ \A d \in Conns : Counts(d)' <=> Counts(d)
    BY <1>0, <1>3 DEF track, Tracks, InOrder, Counts, ConnType
  <2>2. QED
    BY <1>3, <2>1, SameLive, LessLive DEF track, Wg
<1>4. ASSUME NEW c \in Conns, Accept(c) PROVE Counted' /\ Wg'
  <2>1. stage[c] = "none" /\ stage' = [stage EXCEPT ![c] = "accepted"] /\ UNCHANGED <<wg, closed>>
    BY <1>0, <1>4, Sizes DEF Accept, Tracks, InOrder, MainType, tracking
  <2>2. \A d \in Conns : Counts(d)' <=> Counts(d)
    BY <1>0, <2>1 DEF Counts, ConnType
  <2>3. QED
    BY <2>1, <2>2, SameLive DEF Wg
<1>5. ASSUME NEW c \in Conns, Count(c) PROVE Counted' /\ Wg'
  <2> DEFINE h == ShardOf(c)
  <2>1. /\ h \in ShardIds /\ wg' = [wg EXCEPT ![h] = wg[h] + 1] /\ closed' = closed
        /\ stage' = [stage EXCEPT ![c] = "added"] /\ stage[c] = "accepted" /\ ~closed[c]
    BY <1>0, <1>5, ShardOfConn DEF Count, Tracks, InOrder, Tracked
  <2>2. c \notin Live(h) /\ Live(h)' = Live(h) \cup {c}
    BY <1>0, <2>1 DEF Live, Counts, Of, ConnType
  <2>3. wg'[h] = wg[h] + 1 /\ \A s \in ShardIds : s # h => wg'[s] = wg[s]
    BY <2>1 DEF Wg
  <2>4. Cardinality(Live(h)') = Cardinality(Live(h)) + 1
    BY <2>2, LiveFinite, FS_AddElement
  <2>5. wg'[h] = Cardinality(Live(h)') /\ wg'[h] \in Nat
    BY <2>1, <2>3, <2>4 DEF Counted, Wg
  <2>6. \A s \in ShardIds : s # h => Live(s)' = Live(s)
    BY <1>0, <2>1 DEF Live, Counts, Of, ConnType
  <2> HIDE DEF h
  <2>7. wg' \in [ShardIds -> Nat]
    BY <2>1, <2>3, <2>5 DEF Wg
  <2>8. QED
    BY <2>3, <2>5, <2>6, <2>7 DEF Counted, Wg
<1>6. QED
  BY <1>1, <1>2, <1>3, <1>4, <1>5, Effects

-----------------------------------------------------------------------------
(* Drains. *)
LEMMA GoneStays ==
  ASSUME Types, Tracks, Next, NEW s \in ShardIds
  PROVE  (drain[s] => drain'[s]) /\ (Gone(s) => Gone(s)')
<1>0. ConnType
  BY DEF Types
<1>1. CASE Quiet
  BY <1>1 DEF Quiet, Gone, Of
<1>2. ASSUME NEW c \in Conns, NEW to \in Stages, Touch(c, to)
      PROVE  drain' = drain /\ all' \subseteq all
  BY <1>2 DEF Touch, Close
<1>3. ASSUME NEW c \in Conns, Accept(c) \/ Count(c)
      PROVE  drain' = drain /\ all' = all
  BY <1>3 DEF Accept, Count, tracking
<1>4. ASSUME NEW c \in Conns, track(c)
      PROVE  drain' = drain /\ (drain[s] => Of(s) \cap all' \subseteq Of(s) \cap all)
  BY <1>4 DEF track, Close, Of
<1>5. QED
  BY <1>1, <1>2, <1>3, <1>4, Effects DEF Gone, Of

(* A drain that has waited for the group of its shard has seen it empty. *)
LEMMA ZeroIsGone ==
  ASSUME Tracks, Counted, NEW s \in ShardIds, drain[s], wg[s] = 0
  PROVE  Gone(s)
<1>1. Live(s) = {}
  <2>1. Cardinality(Live(s)) = 0
    BY DEF Counted
  <2>2. QED
    BY <2>1, LiveFinite, FS_EmptySet
<1>2. QED
  BY <1>1 DEF Gone, Live, Counts, Of, Tracks, Tracked

(* A drainer goes on, with the socket closed or as it was. *)
LEMMA DrainerMoves ==
  ASSUME Types, Drains, NEW k \in Kinds, NEW at, NEW sh, NEW set,
         Drainer(k, at, sh, set), UNCHANGED <<main, all>>,
         \A s \in ShardIds : drain[s] => drain'[s],
         open' = open \/ ~open',
         at \in {"mark", "shut", "wait", "done"} => ~open',
         Shut(k) => at \in {"mark", "shut", "wait", "done"},
         ~open' /\ open => at \in {"mark", "shut", "wait", "done"},
         at \in {"mark", "shut", "wait"} => sh \in ShardIds,
         \A s \in ShardIds : Drained(at, sh, s) => drain'[s],
         \A s \in ShardIds : Awaited(at, sh, s) => Gone(s),
         at # "none",
         IF at = "done" THEN once' = [once EXCEPT ![k] = "done"]
                        ELSE once[k] = "running" /\ once' = once
  PROVE  Drains'
<1>0. DrainType
  BY DEF Types
<1>1. /\ drainer'[k] = [at |-> at, shard |-> sh, set |-> set]
      /\ \A h \in Kinds : h # k => drainer'[h] = drainer[h] /\ once'[h] = once[h]
      /\ once'[k] = IF at = "done" THEN "done" ELSE "running"
  BY <1>0 DEF DrainType, Drainer
<1>2. \A s \in ShardIds : Gone(s) => Gone(s)'
  BY DEF Gone, Of
<1>3. ASSUME NEW h \in Kinds, NEW s \in ShardIds
      PROVE  /\ Drained(drainer'[h].at, drainer'[h].shard, s) => drain'[s]
             /\ Awaited(drainer'[h].at, drainer'[h].shard, s) => Gone(s)'
  <2>1. CASE h = k
    <3>1. drainer'[h].at = at /\ drainer'[h].shard = sh
      BY <1>1, <2>1
    <3>2. QED
      BY <1>2, <3>1
  <2>2. CASE h # k
    BY <1>1, <1>2, <2>2 DEF Drains
  <2>3. QED
    BY <2>1, <2>2
<1>4. ASSUME NEW h \in Kinds
      PROVE  /\ Shut(h)' => ~open'
             /\ drainer'[h].at \in {"mark", "shut", "wait"} => drainer'[h].shard \in ShardIds
             /\ once'[h] = "no" => drainer'[h].at = "none"
             /\ once'[h] = "running" => drainer'[h].at \notin {"none", "done"}
             /\ once'[h] = "done" => drainer'[h].at \in {"none", "done"}
  <2>1. CASE h = k
    BY <1>1, <2>1 DEF Shut
  <2>2. CASE h # k
    BY <1>1, <2>2 DEF Drains, Shut
  <2>3. QED
    BY <2>1, <2>2
<1>5. ~open' => \E h \in Kinds : Shut(h)'
  BY <1>1 DEF Drains, Shut
<1>6. main' \in {"wait", "exited"} => ~open'
  BY DEF Drains
<1>7. QED
  BY <1>3, <1>4, <1>5, <1>6 DEF Drains, Drained, Awaited

LEMMA DrainingDrains ==
  ASSUME Types, Tracks, Counted, Drains, NEW k \in Kinds, Draining(k), ~closeIfIdle(k)
  PROVE  Drains'
<1>0. DrainType /\ ConnType /\ MainType
  BY DEF Types
<1>1. drainer[k].at \notin {"none", "done"} => once[k] = "running"
  BY <1>0 DEF Drains, DrainType
<1>2. 0 \in ShardIds /\ \A s \in ShardIds : ~(s < 0)
  BY Sizes DEF ShardIds
<1> USE DEF Drained, Awaited
<1>3. CASE DisableKeepAlives(k)
  BY <1>0, <1>1, <1>3, DrainerMoves DEF DisableKeepAlives, At, server, tracking, signals, Shut, MainType
<1>4. CASE CloseSocket(k)
  BY <1>0, <1>1, <1>2, <1>4, DrainerMoves DEF CloseSocket, At, tracking, signals, Shut, MainType
<1>5. CASE closeConns(k)
  <2> DEFINE h == drainer[k].shard
             set == Of(h) \cap (IF k = "forced" THEN all ELSE idle)
  <2>1. /\ drainer[k].at = "mark" /\ Drainer(k, "shut", h, set) /\ UNCHANGED <<main, open, all, once>>
        /\ drain' = [drain EXCEPT ![h] = TRUE]
    BY <1>5 DEF closeConns, At, server, signals
  <2>2. h \in ShardIds /\ ~open /\ \A s \in ShardIds : s < h => drain[s]
    BY <2>1 DEF Drains, Shut
  <2>3. \A s \in ShardIds : (s <= h => drain'[s]) /\ (drain[s] => drain'[s])
    BY <1>0, <2>1, <2>2, Sizes DEF ShardIds, ConnType
  <2> HIDE DEF set, h
  <2>4. QED
    BY <1>0, <1>1, <2>1, <2>2, <2>3, DrainerMoves DEF Shut
<1>6. CASE NextShard(k)
  <2> DEFINE h == drainer[k].shard
  <2>1. drainer[k].at = "shut" /\ UNCHANGED <<main, open, all, drain, once>>
    BY <1>6 DEF NextShard, At, server, tracking, signals
  <2>2. h \in ShardIds /\ ~open /\ \A s \in ShardIds : s <= h => drain[s]
    BY <2>1 DEF Drains, Shut
  <2>3. CASE h + 1 < Shards
    <3>1. h + 1 \in ShardIds /\ Drainer(k, "mark", h + 1, {})
      BY <1>6, <2>2, <2>3, Sizes DEF NextShard, ShardIds
    <3>2. \A s \in ShardIds : s < h + 1 => drain[s]
      BY <2>2, Sizes DEF ShardIds
    <3> HIDE DEF h
    <3>3. QED
      BY <1>1, <2>1, <2>2, <3>1, <3>2, DrainerMoves DEF Shut
  <2>4. CASE ~(h + 1 < Shards)
    <3>1. Drainer(k, "wait", 0, {})
      BY <1>6, <2>4 DEF NextShard
    <3>2. \A s \in ShardIds : drain[s]
      BY <2>2, <2>4, Sizes DEF ShardIds
    <3>3. QED
      BY <1>1, <1>2, <2>1, <2>2, <3>1, <3>2, DrainerMoves DEF Shut
  <2>5. QED
    BY <2>3, <2>4
<1>7. CASE WaitShard(k)
  <2> DEFINE h == drainer[k].shard
  <2>1. drainer[k].at = "wait" /\ UNCHANGED <<main, open, all, drain>> /\ wg[h] = 0
    BY <1>7 DEF WaitShard, At, server, tracking
  <2>2. h \in ShardIds /\ ~open /\ \A s \in ShardIds : drain[s] /\ (s < h => Gone(s))
    BY <2>1 DEF Drains, Shut
  <2>3. Gone(h)
    BY <2>1, <2>2, ZeroIsGone
  <2>4. CASE h + 1 < Shards
    <3>1. h + 1 \in ShardIds /\ Drainer(k, "wait", h + 1, {}) /\ once' = once
      BY <1>7, <2>2, <2>4, Sizes DEF WaitShard, ShardIds
    <3>2. \A s \in ShardIds : s < h + 1 => Gone(s)
      BY <2>2, <2>3, Sizes DEF ShardIds
    <3> HIDE DEF h
    <3>3. QED
      BY <1>1, <2>1, <2>2, <3>1, <3>2, DrainerMoves DEF Shut
  <2>5. CASE ~(h + 1 < Shards)
    <3>1. Drainer(k, "done", 0, {}) /\ once' = [once EXCEPT ![k] = "done"]
      BY <1>7, <2>5 DEF WaitShard
    <3>2. \A s \in ShardIds : Gone(s)
      BY <2>2, <2>3, <2>5, Sizes DEF ShardIds
    <3>3. QED
      BY <2>1, <2>2, <3>1, <3>2, DrainerMoves DEF Shut
  <2>6. QED
    BY <2>4, <2>5
<1>8. QED
  BY <1>3, <1>4, <1>5, <1>6, <1>7 DEF Draining

LEMMA DrainsStep ==
  ASSUME Types, Tracks, Counted, Wg, Drains, Next
  PROVE  Drains'
<1>0. DrainType /\ MainType /\ CallType
  BY DEF Types
<1>1. \A s \in ShardIds : (drain[s] => drain'[s]) /\ (Gone(s) => Gone(s)')
  BY GoneStays
<1>2. ASSUME UNCHANGED <<open, once>>,
             \A k \in Kinds : drainer'[k].at = drainer[k].at /\ drainer'[k].shard = drainer[k].shard,
             main' \in {"wait", "exited"} => main \in {"wait", "exited"} \/ ~open
      PROVE  Drains'
  <2>1. \A k \in Kinds : Shut(k)' <=> Shut(k)
    BY <1>2 DEF Shut
  <2>2. \A k \in Kinds :
          /\ Shut(k)' => ~open'
          /\ drainer'[k].at \in {"mark", "shut", "wait"} => drainer'[k].shard \in ShardIds
          /\ once'[k] = "no" => drainer'[k].at = "none"
          /\ once'[k] = "running" => drainer'[k].at \notin {"none", "done"}
          /\ once'[k] = "done" => drainer'[k].at \in {"none", "done"}
    BY <1>2, <2>1 DEF Drains
  <2>3. \A k \in Kinds : \A s \in ShardIds :
          /\ Drained(drainer'[k].at, drainer'[k].shard, s) => drain'[s]
          /\ Awaited(drainer'[k].at, drainer'[k].shard, s) => Gone(s)'
    BY <1>1, <1>2 DEF Drains
  <2>4. QED
    BY <1>2, <2>1, <2>2, <2>3 DEF Drains, Drained, Awaited
<1>3. CASE Main
  BY <1>0, <1>2, <1>3 DEF Main, appendListener, Refused, Wait, Count, track, signals, MainType
<1>4. CASE Signal \/ sigLoop
  BY <1>2, <1>4 DEF Signal, sigLoop, server
<1>5. ASSUME NEW c \in Conns, Accept(c) PROVE Drains'
  BY <1>2, <1>5 DEF Accept, signals
<1>6. ASSUME NEW c \in Conns, Serving(c) PROVE Drains'
  <2>1. UNCHANGED <<main, open, once, drainer>>
    BY <1>6 DEF Serving, Request, Read, ReadRequest, ReadPart, ReadFails, Buffered, Handled,
                markIdle, Finish, Leave, Arrive, Serves, server, signals
  <2>2. QED
    BY <1>2, <2>1
<1>7. ASSUME NEW i, Shutting(i) PROVE Drains'
  <2>1. CASE PostHooks(i) \/ Notify(i)
    BY <1>2, <2>1 DEF PostHooks, Notify, server
  <2>2. CASE closeListeners(i)
    <3> DEFINE k == calls[i].kind
    <3>1. UNCHANGED <<main, open, wg>>
      BY <2>2 DEF closeListeners, server, tracking
    <3>2. CASE UNCHANGED <<once, drainer>>
      BY <1>2, <3>1, <3>2
    <3>3. CASE i \in DOMAIN calls /\ once[k] = "no" /\ once' = [once EXCEPT ![k] = "done"] /\ UNCHANGED drainer
      <4>1. k \in Kinds
        BY <1>0, <3>3 DEF CallType
      <4>2. drainer[k].at = "none" /\ once'[k] = "done" /\ \A h \in Kinds : h # k => once'[h] = once[h]
        BY <1>0, <3>3, <4>1 DEF Drains, DrainType
      <4> HIDE DEF k
      <4>3. QED
        BY <1>1, <3>1, <3>3, <4>1, <4>2 DEF Drains, Shut, Drained, Awaited
    <3>4. CASE i \in DOMAIN calls /\ once[k] = "no" /\ once' = [once EXCEPT ![k] = "running"] /\ Drainer(k, "keepalives", 0, {})
      <4>1. k \in Kinds
        BY <1>0, <3>4 DEF CallType
      <4>2. /\ drainer[k].at = "none" /\ once'[k] = "running" /\ \A h \in Kinds : h # k => once'[h] = once[h]
            /\ drainer'[k].at = "keepalives" /\ \A h \in Kinds : h # k => drainer'[h] = drainer[h]
        BY <1>0, <3>4, <4>1 DEF Drains, DrainType, Drainer
      <4> HIDE DEF k
      <4>3. QED
        BY <1>1, <3>1, <4>1, <4>2 DEF Drains, Shut, Drained, Awaited
    <3>5. QED
      BY <2>2, <3>2, <3>3, <3>4 DEF closeListeners
  <2>3. QED
    BY <1>7, <2>1, <2>2 DEF Shutting
<1>8. ASSUME NEW k \in Kinds, closeIfIdle(k) PROVE Drains'
  <2>1. UNCHANGED <<main, open, once>> /\ drainer[k].at = "shut"
    BY <1>8 DEF closeIfIdle, At, server, signals
  <2>2. PICK c \in drainer[k].set : Drainer(k, "shut", drainer[k].shard, drainer[k].set \ {c})
    BY <1>8 DEF closeIfIdle
  <2>3. \A h \in Kinds : drainer'[h].at = drainer[h].at /\ drainer'[h].shard = drainer[h].shard
    BY <1>0, <2>1, <2>2 DEF DrainType, Drainer
  <2>4. QED
    BY <1>2, <2>1, <2>3
<1>9. QED
  BY <1>3, <1>4, <1>5, <1>6, <1>7, <1>8, DrainingDrains DEF Next

-----------------------------------------------------------------------------
(* Hooks and the end. *)
LEMMA DoneStays ==
  ASSUME Types, Next, NEW k \in Kinds, once[k] = "done"
  PROVE  once'[k] = "done"
<1>0. DrainType /\ CallType
  BY DEF Types
<1>1. CASE Main \/ Signal \/ sigLoop
  BY <1>1 DEF Main, appendListener, Refused, Wait, Count, track, Signal, sigLoop, signals
<1>2. ASSUME NEW c \in Conns, Accept(c) \/ Serving(c) PROVE once' = once
  BY <1>2 DEF Accept, Serving, Request, Read, ReadRequest, ReadPart, ReadFails, Buffered, Handled,
              markIdle, Finish, Leave, Arrive, Serves, signals
<1>3. ASSUME NEW i, Shutting(i) PROVE once'[k] = "done"
  <2>1. CASE PostHooks(i) \/ Notify(i)
    BY <2>1 DEF PostHooks, Notify
  <2>2. CASE closeListeners(i)
    <3>1. CASE UNCHANGED once
      BY <3>1
    <3>2. ASSUME NEW v, once[calls[i].kind] = "no", once' = [once EXCEPT ![calls[i].kind] = v]
          PROVE  once'[k] = "done"
      BY <1>0, <3>2 DEF DrainType
    <3>3. QED
      BY <2>2, <3>1, <3>2 DEF closeListeners
  <2>3. QED
    BY <1>3, <2>1, <2>2 DEF Shutting
<1>4. ASSUME NEW h \in Kinds, Draining(h) PROVE once'[k] = "done"
  <2>1. CASE UNCHANGED once
    BY <2>1
  <2>2. CASE once' = [once EXCEPT ![h] = "done"]
    BY <1>0, <2>2 DEF DrainType
  <2>3. QED
    BY <1>4, <2>1, <2>2 DEF Draining, DisableKeepAlives, CloseSocket, closeConns, closeIfIdle, NextShard,
                            WaitShard, signals
<1>5. QED
  BY <1>1, <1>2, <1>3, <1>4 DEF Next

LEMMA EndsStep ==
  ASSUME Types, Ends, Next
  PROVE  Ends'
<1>0. CallType /\ DrainType
  BY DEF Types
<1>1. ASSUME UNCHANGED <<calls, hooks, waiting>> PROVE Ends'
  <2>1. \A i \in DOMAIN calls : calls[i].kind \in Kinds
    BY <1>0 DEF CallType
  <2>2. QED
    BY <1>1, <2>1, DoneStays DEF Ends
<1>2. CASE Main \/ Signal
  BY <1>1, <1>2 DEF Main, appendListener, Refused, Wait, Count, track, Signal, signals
<1>3. CASE sigLoop
  <2>1. /\ \A i \in DOMAIN calls' :
             IF i \in DOMAIN calls THEN calls'[i] = calls[i] ELSE calls'[i].at = "close"
        /\ UNCHANGED <<once, hooks, waiting>>
    BY <1>3 DEF sigLoop
  <2>2. QED
    BY <2>1 DEF Ends
<1>4. ASSUME NEW c \in Conns, Accept(c) \/ Serving(c) PROVE Ends'
  BY <1>1, <1>4 DEF Accept, Serving, Request, Read, ReadRequest, ReadPart, ReadFails, Buffered, Handled,
                    markIdle, Finish, Leave, Arrive, Serves, signals
<1>5. ASSUME NEW i, Shutting(i) PROVE Ends'
  <2>0. ASSUME NEW from, NEW to, Calls(i, from, to)
        PROVE  /\ i \in DOMAIN calls /\ calls[i].at = from /\ calls[i].kind \in Kinds
               /\ DOMAIN calls' = DOMAIN calls /\ calls'[i].at = to /\ calls'[i].kind = calls[i].kind
               /\ \A j \in DOMAIN calls : j # i => calls'[j] = calls[j]
    <3>1. i \in DOMAIN calls /\ calls[i] \in [kind : Kinds, at : {"close", "post", "notify", "gone"}]
      BY <1>0, <2>0 DEF Calls, CallType
    <3>2. calls' = [calls EXCEPT ![i].at = to] /\ calls[i].at = from
      BY <2>0 DEF Calls
    <3>3. calls'[i] = [calls[i] EXCEPT !.at = to] /\ DOMAIN calls' = DOMAIN calls
      BY <3>1, <3>2
    <3>4. QED
      BY <3>1, <3>2, <3>3
  <2>1. CASE closeListeners(i)
    <3>1. CASE UNCHANGED calls /\ UNCHANGED <<hooks, waiting>>
      BY <1>1, <3>1
    <3>2. CASE Calls(i, "close", "post") /\ once[calls[i].kind] = "done" /\ UNCHANGED <<once, hooks, waiting>>
      BY <2>0, <3>2 DEF Ends
    <3>3. QED
      BY <2>1, <3>1, <3>2 DEF closeListeners
  <2>2. CASE PostHooks(i)
    <3>1. Calls(i, "post", "notify") /\ hooks' = TRUE /\ UNCHANGED <<once, waiting>>
      BY <2>2 DEF PostHooks
    <3>2. once[calls[i].kind] = "done" /\ calls[i].kind \in Kinds
      BY <2>0, <3>1 DEF Ends
    <3>3. QED
      BY <2>0, <3>1, <3>2 DEF Ends
  <2>3. CASE Notify(i)
    <3>1. Calls(i, "notify", "gone") /\ waiting' = FALSE /\ UNCHANGED <<once, hooks>>
      BY <2>3 DEF Notify
    <3>2. hooks
      BY <2>0, <3>1 DEF Ends
    <3>3. QED
      BY <2>0, <3>1, <3>2 DEF Ends
  <2>4. QED
    BY <1>5, <2>1, <2>2, <2>3 DEF Shutting
<1>6. ASSUME NEW k \in Kinds, Draining(k) PROVE Ends'
  BY <1>1, <1>6 DEF Draining, DisableKeepAlives, CloseSocket, closeConns, closeIfIdle, NextShard,
                    WaitShard, signals
<1>7. QED
  BY <1>2, <1>3, <1>4, <1>5, <1>6 DEF Next

(* Once the hooks have run after a drain, nothing is tracked, and all shards *)
(* drain.                                                                    *)
LEMMA HooksAfter ==
  ASSUME Types, Tracks, Drains, Ends
  PROVE  HooksLast
<1>0. ConnType /\ DrainType /\ MainType
  BY DEF Types
<1>1. ASSUME hooks, ~Missed
      PROVE  /\ all = {}
             /\ \A c \in Conns :
                  \/ stage[c] = "none" \/ closed[c]
                  \/ c = accepted /\ stage[c] \in {"accepted", "added"} /\ drain[ShardOf(c)]
  <2>1. PICK k \in Kinds : once[k] = "done" /\ drainer[k].at # "none"
    BY <1>1 DEF Ends, Missed
  <2>2. \A s \in ShardIds : Gone(s)
    BY <2>1 DEF Drains, Awaited
  <2>3. \A c \in Conns : c \notin all /\ drain[ShardOf(c)]
    BY <2>2, ShardOfConn DEF Gone, Of
  <2>4. all = {}
    BY <1>0, <2>3 DEF ConnType
  <2>5. ASSUME NEW c \in Conns, stage[c] # "none", ~closed[c]
        PROVE  c = accepted /\ stage[c] \in {"accepted", "added"}
    BY <2>3, <2>5 DEF Tracks, InOrder, Tracked
  <2>6. QED
    BY <2>3, <2>4, <2>5
<1>2. QED
  BY <1>1 DEF HooksLast, Ends

-----------------------------------------------------------------------------
(* Requests. *)
LEMMA BuffersStep ==
  ASSUME Types, Tracks, Buffers, Next
  PROVE  Buffers'
<1>0. ConnType
  BY DEF Types
<1>1. ASSUME UNCHANGED <<buffered, busy, stage>> PROVE Buffers'
  BY <1>1 DEF Buffers
<1>2. CASE appendListener \/ Refused \/ Wait \/ Signal \/ sigLoop
  BY <1>1, <1>2 DEF appendListener, Refused, Wait, Signal, sigLoop, tracking, serving
<1>3. ASSUME NEW c \in Conns, NEW to \in Stages, stage' = [stage EXCEPT ![c] = to],
             \A d \in Conns : d # c => buffered'[d] = buffered[d] /\ busy'[d] = busy[d],
             buffered'[c] < MaxBuffer,
             to \in {"none", "accepted", "added", "got"} => buffered'[c] = 0,
             to = "reading" /\ busy'[c] => buffered'[c] = 0
      PROVE  Buffers'
  BY <1>0, <1>3 DEF Buffers, ConnType
<1>4. ASSUME NEW c \in Conns, track(c) \/ Accept(c) \/ Count(c) PROVE Buffers'
  <2>1. buffered[c] = 0 /\ buffered[c] < MaxBuffer
    BY <1>0, <1>4, Sizes DEF Buffers, Tracks, InOrder, track, Accept, Count, Types, MainType, Tracked
  <2>2. QED
    BY <1>3, <1>4, <2>1 DEF track, Accept, Count, Stages, tracking
<1>5. ASSUME NEW c \in Conns, Serving(c) PROVE Buffers'
  <2>0. buffered[c] \in Nat /\ buffered[c] < MaxBuffer
    BY <1>0, Sizes DEF Buffers, ConnType
  <2> USE DEF Stages, Serves
  <2>1. CASE ReadRequest(c)
    <3>1. PICK n \in 1..MaxBuffer : buffered' = [buffered EXCEPT ![c] = n - 1]
      BY <2>1 DEF ReadRequest
    <3>2. buffered'[c] < MaxBuffer /\ \A d \in Conns : d # c => buffered'[d] = buffered[d] /\ busy'[d] = busy[d]
      BY <1>0, <2>1, <3>1, Sizes DEF ReadRequest, Marked, ConnType
    <3>3. QED
      BY <1>3, <2>1, <3>2 DEF ReadRequest
  <2>2. CASE ReadPart(c)
    <3>1. buffered' = buffered /\ buffered[c] = 0 /\ \A d \in Conns : d # c => busy'[d] = busy[d]
      BY <1>0, <2>2 DEF ReadPart, Marked, Buffers, ConnType
    <3>2. QED
      BY <1>3, <2>0, <2>2, <3>1 DEF ReadPart
  <2>3. CASE ReadFails(c) \/ Handled(c)
    BY <1>3, <2>0, <2>3 DEF ReadFails, Handled, tracking
  <2>4. CASE Arrive(c)
    BY <1>3, <2>0, <2>4 DEF Arrive, tracking
  <2>5. CASE Buffered(c)
    <3>1. /\ buffered'[c] = buffered[c] - 1 /\ busy' = busy
          /\ \A d \in Conns : d # c => buffered'[d] = buffered[d]
      BY <1>0, <2>5 DEF Buffered, ConnType, tracking
    <3>2. buffered'[c] < MaxBuffer
      BY <2>0, <3>1, Sizes
    <3>3. QED
      BY <1>3, <2>5, <3>1, <3>2 DEF Buffered
  <2>6. CASE markIdle(c)
    <3>1. buffered' = buffered /\ ~busy'[c] /\ \A d \in Conns : d # c => busy'[d] = busy[d]
      BY <1>0, <2>6 DEF markIdle, ConnType
    <3>2. QED
      BY <1>3, <2>0, <2>6, <3>1 DEF markIdle
  <2>7. CASE Finish(c)
    BY <1>3, <2>0, <2>7 DEF Finish
  <2>8. CASE Leave(c)
    <3>1. buffered' = buffered /\ \A d \in Conns : d # c => busy'[d] = busy[d]
      BY <1>0, <2>8 DEF Leave, ConnType
    <3>2. QED
      BY <1>3, <2>0, <2>8, <3>1 DEF Leave
  <2>9. QED
    BY <1>5, <2>1, <2>2, <2>3, <2>4, <2>5, <2>6, <2>7, <2>8 DEF Serving, Request, Read
<1>6. ASSUME NEW i, Shutting(i) PROVE Buffers'
  BY <1>1, <1>6 DEF Shutting, closeListeners, PostHooks, Notify, tracking, serving
<1>7. ASSUME NEW k \in Kinds, Draining(k) PROVE Buffers'
  BY <1>1, <1>7 DEF Draining, DisableKeepAlives, CloseSocket, closeConns, closeIfIdle, NextShard,
                    WaitShard, tracking, serving
<1>8. QED
  BY <1>2, <1>4, <1>5, <1>6, <1>7 DEF Next, Main

Calm == ~Forced /\ main # "fatal"

LEMMA CalmWas ==
  ASSUME Types, Next, Calm'
  PROVE  Calm
<1>0. CallType /\ DrainType
  BY DEF Types
<1>1. CASE Main
  BY <1>1 DEF Main, appendListener, Refused, Wait, Count, track, signals, Calm, Forced
<1>2. CASE Signal \/ sigLoop
  BY <1>2 DEF Signal, sigLoop, server, Calm, Forced
<1>3. ASSUME NEW c \in Conns, Accept(c) \/ Serving(c) PROVE Calm
  <2>1. UNCHANGED once /\ main # "fatal"
    BY <1>3 DEF Accept, Serving, Request, Read, ReadRequest, ReadPart, ReadFails, Buffered, Handled,
                markIdle, Finish, Leave, Arrive, Serves, signals, Over
  <2>2. QED
    BY <2>1 DEF Calm, Forced
<1>4. ASSUME NEW i, Shutting(i) PROVE Calm
  <2>1. main # "fatal"
    BY <1>4 DEF Shutting, closeListeners, PostHooks, Notify, Calls, Over
  <2>2. CASE UNCHANGED once
    BY <2>1, <2>2 DEF Calm, Forced
  <2>3. ASSUME NEW v \in {"running", "done"}, NEW k \in Kinds, once' = [once EXCEPT ![k] = v]
        PROVE  Calm
    BY <1>0, <2>1, <2>3 DEF Calm, Forced, Kinds, DrainType
  <2>4. CASE closeListeners(i)
    <3>1. i \in DOMAIN calls => calls[i].kind \in Kinds
      BY <1>0 DEF CallType
    <3>2. QED
      BY <2>2, <2>3, <2>4, <3>1 DEF closeListeners
  <2>5. QED
    BY <1>4, <2>2, <2>4 DEF Shutting, PostHooks, Notify
<1>5. ASSUME NEW k \in Kinds, Draining(k) PROVE Calm
  <2>1. main # "fatal"
    BY <1>5 DEF Draining, DisableKeepAlives, CloseSocket, closeConns, closeIfIdle, NextShard,
                WaitShard, At, Over
  <2>2. CASE UNCHANGED once
    BY <2>1, <2>2 DEF Calm, Forced
  <2>3. CASE once' = [once EXCEPT ![k] = "done"]
    BY <1>0, <2>1, <2>3 DEF Calm, Forced, Kinds, DrainType
  <2>4. QED
    BY <1>5, <2>2, <2>3 DEF Draining, DisableKeepAlives, CloseSocket, closeConns, closeIfIdle, NextShard,
                            WaitShard, signals
<1>6. QED
  BY <1>1, <1>2, <1>3, <1>4, <1>5 DEF Next

Undisturbed(c) ==
    stage[c] = "handling" => IF busy[c] THEN ~closed[c] /\ main # "exited" ELSE MaxBuffer > 1

(* Without a forced shutdown main ends after the last connection. *)
LEMMA NoneAtExit ==
  ASSUME Types, Tracks, Drains, Ends, ~Forced, Wait, NEW c \in Conns, stage[c] = "handling"
  PROVE  closed[c]
<1>0. DrainType /\ MainType
  BY DEF Types
<1>1. ~open /\ hooks
  BY DEF Wait, Drains, Ends
<1>2. drainer["forced"].at = "none" /\ once["forced"] = "no"
  BY DEF Drains, Forced, Kinds
<1>3. PICK h \in Kinds : Shut(h)
  BY <1>1 DEF Drains
<1>4. h = "graceful"
  BY <1>2, <1>3 DEF Shut, Kinds
<1>5. once["graceful"] = "done"
  <2>1. PICK k \in Kinds : once[k] = "done"
    BY <1>1 DEF Ends
  <2>2. k # "forced"
    BY <1>2, <2>1
  <2>3. QED
    BY <2>1, <2>2 DEF Kinds
<1>6. ~Missed
  <2>1. ASSUME NEW k \in Kinds, once[k] = "done" PROVE drainer[k].at # "none"
    BY <1>2, <1>3, <1>4, <2>1 DEF Kinds, Shut
  <2>2. QED
    BY <2>1 DEF Missed
<1>7. all = {}
  BY <1>1, <1>6, HooksAfter DEF HooksLast
<1>8. QED
  BY <1>7 DEF Tracks, Tracked

LEMMA FinishStep ==
  ASSUME Types, Tracks, Counted, Drains, Ends, Buffers, RequestsFinish, Next
  PROVE  RequestsFinish'
<1> SUFFICES ASSUME Calm' PROVE \A c \in Conns : Undisturbed(c)'
  BY DEF RequestsFinish, Calm, Forced, Undisturbed
<1>0. ConnType /\ DrainType /\ MainType
  BY DEF Types
<1>1. Calm /\ \A c \in Conns : Undisturbed(c)
  BY CalmWas DEF RequestsFinish, Calm, Forced, Undisturbed
<1>2. ASSUME UNCHANGED <<stage, busy, closed>>, main' = "exited" => main = "exited"
      PROVE  \A c \in Conns : Undisturbed(c)'
  BY <1>1, <1>2 DEF Undisturbed
<1>3. CASE appendListener \/ Refused
  BY <1>2, <1>3 DEF appendListener, Refused, tracking, serving
<1>4. CASE Wait
  <2>1. UNCHANGED <<stage, busy, closed>>
    BY <1>4 DEF Wait, tracking, serving
  <2>2. \A c \in Conns : stage[c] = "handling" => closed[c]
    BY <1>1, <1>4, NoneAtExit DEF Calm
  <2>3. QED
    BY <1>1, <2>1, <2>2 DEF Undisturbed
<1>5. ASSUME NEW c \in Conns, NEW to \in Stages, stage' = [stage EXCEPT ![c] = to],
             \A d \in Conns : d # c => (busy'[d] <=> busy[d]) /\ (closed'[d] <=> closed[d]),
             main' # "exited",
             to = "handling" => IF busy'[c] THEN ~closed'[c] ELSE MaxBuffer > 1
      PROVE  \A d \in Conns : Undisturbed(d)'
  BY <1>0, <1>1, <1>5 DEF Undisturbed, ConnType
<1>6. ASSUME NEW c \in Conns, Close(c) PROVE \A d \in Conns : d # c => (closed'[d] <=> closed[d])
  BY <1>0, <1>6 DEF Close, ConnType
<1>7. ASSUME NEW c \in Conns, Accept(c) \/ Count(c) \/ track(c) PROVE \A d \in Conns : Undisturbed(d)'
  BY <1>5, <1>6, <1>7 DEF Accept, Count, track, Stages, tracking
<1>8. ASSUME NEW c \in Conns, Serving(c) PROVE \A d \in Conns : Undisturbed(d)'
  <2>0. main # "exited" /\ main' = main
    BY <1>8 DEF Serving, Request, Read, ReadRequest, ReadPart, ReadFails, Buffered, Handled,
                markIdle, Finish, Leave, Arrive, Serves, server, Over
  <2> USE DEF Stages, Serves
  <2>1. CASE ReadRequest(c)
    BY <1>0, <1>5, <2>0, <2>1 DEF ReadRequest, Marked, ConnType
  <2>2. CASE ReadPart(c)
    BY <1>0, <1>5, <2>0, <2>2 DEF ReadPart, Marked, ConnType
  <2>3. CASE ReadFails(c) \/ Handled(c) \/ Arrive(c)
    BY <1>5, <2>0, <2>3 DEF ReadFails, Handled, Arrive, tracking
  <2>4. CASE Buffered(c)
    <3>1. buffered[c] > 0 /\ buffered[c] < MaxBuffer /\ buffered[c] \in Nat /\ stage[c] = "reading"
      BY <1>0, <2>4, Sizes DEF Buffered, Buffers, ConnType
    <3>2. ~busy[c] /\ MaxBuffer > 1
      BY <3>1, Sizes DEF Buffers
    <3>3. QED
      BY <1>5, <2>0, <2>4, <3>2 DEF Buffered, tracking
  <2>5. CASE markIdle(c)
    <3>1. \A d \in Conns : d # c => (busy'[d] <=> busy[d]) /\ (closed'[d] <=> closed[d])
      BY <1>0, <1>6, <2>5 DEF markIdle, ConnType
    <3>2. QED
      BY <1>5, <2>0, <2>5, <3>1 DEF markIdle
  <2>6. CASE Finish(c)
    BY <1>5, <1>6, <2>0, <2>6 DEF Finish
  <2>7. CASE Leave(c)
    BY <1>0, <1>5, <2>0, <2>7 DEF Leave, ConnType
  <2>8. QED
    BY <1>8, <2>1, <2>2, <2>3, <2>4, <2>5, <2>6, <2>7 DEF Serving, Request, Read
<1>9. CASE Signal \/ sigLoop
  BY <1>2, <1>9 DEF Signal, sigLoop, server, tracking, serving
<1>10. ASSUME NEW i, Shutting(i) PROVE \A c \in Conns : Undisturbed(c)'
  BY <1>2, <1>10 DEF Shutting, closeListeners, PostHooks, Notify, server, tracking, serving
<1>11. ASSUME NEW k \in Kinds, closeIfIdle(k) PROVE \A c \in Conns : Undisturbed(c)'
  <2>1. k = "graceful"
    <3>1. once[k] # "no"
      BY <1>11 DEF closeIfIdle, At, Drains
    <3>2. QED
      BY <1>1, <3>1 DEF Calm, Forced, Kinds
  <2>2. UNCHANGED <<main, stage, busy>>
    BY <1>11 DEF closeIfIdle, server, serving
  <2>3. PICK c \in drainer[k].set : IF busy[c] THEN closed' = closed ELSE Close(c)
    BY <1>11, <2>1 DEF closeIfIdle
  <2>4. c \in Conns
    BY <1>0, <2>3 DEF DrainType
  <2>5. \A d \in Conns : busy[d] => (closed'[d] <=> closed[d])
    BY <1>6, <2>3, <2>4
  <2>6. QED
    BY <1>1, <2>2, <2>5 DEF Undisturbed
<1>12. ASSUME NEW k \in Kinds, Draining(k), ~closeIfIdle(k) PROVE \A c \in Conns : Undisturbed(c)'
  BY <1>2, <1>12 DEF Draining, DisableKeepAlives, CloseSocket, closeConns, NextShard,
                     WaitShard, server, tracking, serving
<1>13. QED
  BY <1>3, <1>4, <1>7, <1>8, <1>9, <1>10, <1>11, <1>12 DEF Next, Main

-----------------------------------------------------------------------------
LEMMA InvInit ==
  ASSUME Init
  PROVE  Inv
<1> USE DEF Init
<1>1. MainType
  BY Sizes DEF MainType
<1>2. ConnType
  BY Sizes DEF ConnType, Stages
<1>3. CallType
  <2>1. DOMAIN calls = {} /\ 1..0 = {}
    OBVIOUS
  <2>2. 0 \in 0..MaxSignals /\ sigchan \in 0..1 /\ sent \in 0..MaxSignals /\ 0 + sigchan <= sent
    BY Sizes
  <2>3. \E n \in 0..MaxSignals : DOMAIN calls = 1..n /\ n + sigchan <= sent
    BY <2>1, <2>2
  <2>4. \A i \in DOMAIN calls : calls[i] \in [kind : Kinds, at : {"close", "post", "notify", "gone"}]
    BY <2>1
  <2>5. QED
    BY <2>2, <2>3, <2>4 DEF CallType
<1>4. DrainType
  <2>1. [at |-> "none", shard |-> 0, set |-> {}] \in
          [at : {"none", "keepalives", "close", "mark", "shut", "wait", "done"}, shard : 0..Shards,
           set : SUBSET Conns]
    BY Sizes
  <2>2. QED
    BY <2>1 DEF DrainType
<1>5. Tracks
  BY Sizes DEF Tracks, InOrder, Tracked
<1>6. Wg
  BY DEF Wg
<1>7. Counted
  <2>1. \A s : Live(s) = {}
    BY DEF Live, Counts, Of
  <2>2. QED
    BY <2>1, FS_EmptySet DEF Counted
<1>8. Drains
  BY DEF Drains, Shut, Drained, Awaited
<1>9. DOMAIN calls = {}
  OBVIOUS
<1>10. Ends
  BY <1>9 DEF Ends
<1>11. Buffers
  BY Sizes DEF Buffers
<1>12. RequestsFinish
  BY DEF RequestsFinish
<1>13. QED
  BY <1>1, <1>2, <1>3, <1>4, <1>5, <1>6, <1>7, <1>8, <1>10, <1>11, <1>12 DEF Inv, Types

LEMMA InvStutter ==
  ASSUME Inv, UNCHANGED vars
  PROVE  Inv'
<1> USE DEF vars, Inv
<1>1. Types'
  BY DEF Types, MainType, ConnType, CallType, DrainType
<1>2. Tracks' /\ Wg'
  BY DEF Tracks, InOrder, Tracked, Wg
<1>3. Counted'
  BY DEF Counted, Live, Counts, Of
<1>4. Drains' /\ Ends' /\ Buffers'
  BY DEF Drains, Shut, Drained, Awaited, Gone, Ends, Buffers
<1>5. RequestsFinish'
  BY DEF RequestsFinish, Forced
<1>6. QED
  BY <1>1, <1>2, <1>3, <1>4, <1>5

LEMMA InvStep ==
  ASSUME Inv, [Next]_vars
  PROVE  Inv'
<1>1. CASE Next
  <2>1. Types /\ Tracks /\ Wg /\ Counted /\ Drains /\ Ends /\ Buffers /\ RequestsFinish
    BY DEF Inv
  <2>2. Types'
    BY <1>1, <2>1, MainStep, ConnStep, CallStep, DrainTypeStep DEF Types
  <2>3. Tracks'
    BY <1>1, <2>1, <2>2, TracksStep
  <2>4. Counted' /\ Wg'
    BY <1>1, <2>1, CountedStep
  <2>5. Drains'
    BY <1>1, <2>1, DrainsStep
  <2>6. Ends' /\ Buffers'
    BY <1>1, <2>1, EndsStep, BuffersStep
  <2>7. RequestsFinish'
    BY <1>1, <2>1, FinishStep
  <2>8. QED
    BY <2>2, <2>3, <2>4, <2>5, <2>6, <2>7 DEF Inv
<1>2. QED
  BY <1>1, InvStutter

LEMMA InvAccounts == Inv => Accounts
<1> SUFFICES ASSUME Inv PROVE Accounts
  OBVIOUS
<1>1. Types /\ Tracks /\ Wg /\ Counted /\ Drains /\ Ends
  BY DEF Inv
<1>2. CountsExact /\ HooksLast
  BY <1>1, CountsAre, HooksAfter
<1>3. DOMAIN calls \subseteq 1..MaxSignals
  <2>1. PICK n \in 0..MaxSignals : DOMAIN calls = 1..n
    BY <1>1 DEF Types, CallType
  <2>2. MaxSignals \in Nat
    BY Sizes
  <2>3. 1..n \subseteq 1..MaxSignals
    BY <2>2
  <2>4. QED
    BY <2>1, <2>3
<1>4. TypeOK
  <2>1. MainType /\ ConnType /\ CallType /\ DrainType /\ Wg
    BY <1>1 DEF Types
  <2>2. N = Cardinality(Conns)
    BY DEF N
  <2>3. accepted \in 0..Cardinality(Conns)
    BY <2>1, <2>2 DEF MainType
  <2>4. QED
    BY <1>3, <2>1, <2>3 DEF TypeOK, MainType, ConnType, CallType, DrainType, Wg
<1>5. QED
  BY <1>2, <1>4 DEF Accounts

LEMMA Invariance == Spec => []Inv
<1>1. Init => Inv
  BY InvInit
<1>2. Inv /\ [Next]_vars => Inv'
  BY InvStep
<1>3. QED
  BY <1>1, <1>2, PTL DEF Spec

(* The groups count the connections of their shards exactly, and the post    *)
(* hooks come after the last connection, but for one that main has accepted  *)
(* and not tracked, and that is never served (conn.go, shard.go, signal.go). *)
THEOREM DrainAccounts == Spec => []Accounts
BY InvAccounts, Invariance, PTL

(* A graceful shutdown closes no connection under a request, but for those   *)
(* that are not marked, and main does not end before them (conn.go).         *)
THEOREM RequestsComplete == Spec => []RequestsFinish
<1>1. Inv => RequestsFinish
  BY DEF Inv
<1>2. QED
  BY <1>1, Invariance, PTL
=============================================================================
