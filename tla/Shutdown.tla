------------------------------- MODULE Shutdown -------------------------------
(* The end of the server: the goroutines of package graceful that answer the *)
(* signals, the listener that tracks connections (graceful/listener), and    *)
(* main inside goji.Serve.  net/http is modelled as far as it calls them: it *)
(* accepts, serves each connection in a goroutine, and reports a connection  *)
(* as idle after each reply.  No handler of the server hijacks a connection. *)
EXTENDS Naturals, FiniteSets

CONSTANTS Conns,      \* connections clients may open, numbered in the order accepted
          Shards,     \* the number of shards
          MaxBuffer,  \* requests that one read may bring: more than 1 is pipelining
          MaxSignals  \* bound on the signals sent to the process

ASSUME ShutdownAssumption ==
    /\ IsFiniteSet(Conns)
    /\ Conns = 1..Cardinality(Conns)
    /\ Shards \in Nat \ {0}
    /\ MaxBuffer \in Nat \ {0}
    /\ MaxSignals \in Nat

VARIABLES main,       \* where the main goroutine is
          accepted,   \* connCount
          open,       \* the socket of the listener is open
          keepAlives, \* of the shadow http.Server
          all, idle,  \* the connections in the maps of the shards
          wg, drain,  \* of each shard
          busy, closed, \* of each connection
          stage,      \* the step of the goroutine that serves it
          buffered,   \* requests read from it and not yet taken up
          sigchan,    \* signals in the channel, which has room for one
          sent,       \* signals sent
          calls,      \* the goroutines of shutdown, in the order they started
          once,       \* closeOnce and forceOnce
          drainer,    \* the goroutine each of them starts
          hooks, waiting \* the post hooks have run; the channel wait is open

vars == <<main, accepted, open, keepAlives, all, idle, wg, drain, busy, closed, stage,
          buffered, sigchan, sent, calls, once, drainer, hooks, waiting>>
server == <<main, accepted, open>>
tracking == <<all, idle, wg, drain, busy, closed>>
serving == <<stage, buffered>>
signals == <<sigchan, sent, calls, once, hooks, waiting>>

Kinds == {"graceful", "forced"}
ShardOf(c) == c % Shards
ShardIds == 0..(Shards - 1)
Of(s) == {c \in Conns : ShardOf(c) = s}
Stages == {"none", "accepted", "added", "reading", "got", "handling", "replied", "closing", "ended"}
Over == main \in {"exited", "fatal"}

TypeOK ==
    /\ main \in {"starting", "accept", "add", "init", "wait", "exited", "fatal"}
    /\ accepted \in 0..Cardinality(Conns)
    /\ open \in BOOLEAN /\ keepAlives \in BOOLEAN
    /\ idle \subseteq all /\ all \subseteq Conns
    /\ wg \in [ShardIds -> Nat] /\ drain \in [ShardIds -> BOOLEAN]
    /\ busy \in [Conns -> BOOLEAN] /\ closed \in [Conns -> BOOLEAN]
    /\ stage \in [Conns -> Stages]
    /\ buffered \in [Conns -> 0..MaxBuffer]
    /\ sigchan \in 0..1 /\ sent \in 0..MaxSignals
    /\ DOMAIN calls \subseteq 1..MaxSignals
    /\ \A i \in DOMAIN calls : calls[i] \in [kind : Kinds, at : {"close", "post", "notify", "gone"}]
    /\ once \in [Kinds -> {"no", "running", "done"}]
    /\ drainer \in [Kinds -> [at : {"none", "keepalives", "close", "mark", "shut", "wait", "done"},
                              shard : 0..Shards, set : SUBSET Conns]]
    /\ hooks \in BOOLEAN /\ waiting \in BOOLEAN

(* HandleSignals has been called, and the listener is not in the list yet. *)
Init ==
    /\ main = "starting" /\ accepted = 0 /\ open = TRUE /\ keepAlives = TRUE
    /\ all = {} /\ idle = {}
    /\ wg = [s \in ShardIds |-> 0] /\ drain = [s \in ShardIds |-> FALSE]
    /\ busy = [c \in Conns |-> FALSE] /\ closed = [c \in Conns |-> FALSE]
    /\ stage = [c \in Conns |-> "none"] /\ buffered = [c \in Conns |-> 0]
    /\ sigchan = 0 /\ sent = 0 /\ calls = <<>>
    /\ once = [k \in Kinds |-> "no"]
    /\ drainer = [k \in Kinds |-> [at |-> "none", shard |-> 0, set |-> {}]]
    /\ hooks = FALSE /\ waiting = TRUE

-----------------------------------------------------------------------------
\* Mutant: a closed connection stays in the maps.
CloseOnly(c) ==
    IF closed[c] THEN UNCHANGED <<all, idle, wg, closed>>
    ELSE /\ closed' = [closed EXCEPT ![c] = TRUE]
         /\ wg' = [wg EXCEPT ![ShardOf(c)] = @ - 1]
         /\ UNCHANGED <<all, idle>>

(* conn.Close, and what closeIfIdle and markIdle do like it: all of it under *)
(* the lock of the connection, and nothing if it is closed already.          *)
Close(c) ==
    IF closed[c] THEN UNCHANGED <<all, idle, wg, closed>>
    ELSE /\ closed' = [closed EXCEPT ![c] = TRUE]
         /\ all' = all \ {c}
         /\ idle' = idle \ {c}
         /\ wg' = [wg EXCEPT ![ShardOf(c)] = @ - 1]

(* Server.Serve of package graceful puts its listener into the list. *)
appendListener ==
    /\ main = "starting"
    /\ main' = "accept"
    /\ UNCHANGED <<accepted, open, keepAlives, tracking, serving, signals, drainer>>

(* Accept: a connection is open, and belongs to no group yet. *)
Accept(c) ==
    /\ main = "accept" /\ open
    /\ c = accepted + 1
    /\ main' = "add"
    /\ accepted' = c
    /\ stage' = [stage EXCEPT ![c] = "accepted"]
    /\ UNCHANGED <<open, keepAlives, tracking, buffered, signals, drainer>>

(* A drain is in Wait of a group that has come to zero. *)
Waking(s) == \E k \in Kinds : drainer[k].at = "wait" /\ drainer[k].shard = s /\ wg[s] = 0

(* It is counted into the group of its shard, which panics if it notices     *)
(* that this comes between zero and the return of a Wait,                    *)
Count(c) ==
    /\ main = "add" /\ c = accepted
    /\ main' \in {"init"} \cup (IF Waking(ShardOf(c)) THEN {"fatal"} ELSE {})
    /\ stage' = [stage EXCEPT ![c] = "added"]
    /\ wg' = [wg EXCEPT ![ShardOf(c)] = @ + 1]
    /\ UNCHANGED <<accepted, open, keepAlives, all, idle, drain, busy, closed, buffered, signals, drainer>>

(* and then tracked, or closed when its shard drains.  Serve returns the     *)
(* error of that case, which is no *net.OpError: main ends with log.Fatal.   *)
track(c) ==
    /\ main = "init" /\ c = accepted
    /\ \/ /\ ~drain[ShardOf(c)]
          /\ main' = "accept"
          /\ stage' = [stage EXCEPT ![c] = "reading"]
          /\ all' = all \cup {c} /\ idle' = idle \cup {c}
          /\ UNCHANGED <<wg, closed>>
       \/ /\ drain[ShardOf(c)]
          /\ main' = "fatal"
          /\ stage' = [stage EXCEPT ![c] = "ended"]
          /\ Close(c)
    /\ UNCHANGED <<accepted, open, keepAlives, drain, busy, buffered, signals, drainer>>

(* Accept fails on the closed socket, which peacefulError takes for an end   *)
(* without error once the flag closing is set; main goes on to Wait.         *)
Refused ==
    /\ main = "accept" /\ ~open
    /\ main' = IF \E k \in Kinds : once[k] # "no" THEN "wait" ELSE "fatal"
    /\ UNCHANGED <<accepted, open, keepAlives, tracking, serving, signals, drainer>>

(* Wait returns, and with it main. *)
Wait ==
    /\ main = "wait" /\ ~waiting
    /\ main' = "exited"
    /\ UNCHANGED <<accepted, open, keepAlives, tracking, serving, signals, drainer>>

-----------------------------------------------------------------------------
(* The goroutine of a connection.  Serves is the common frame. *)
Serves(c, from, to) ==
    /\ ~Over
    /\ stage[c] = from
    /\ stage' = [stage EXCEPT ![c] = to]
    /\ UNCHANGED <<server, keepAlives, drain, signals, drainer>>

(* Bytes of the client arrive, and the connection is marked only later. *)
Arrive(c) ==
    /\ Serves(c, "reading", "got")
    /\ ~closed[c] /\ buffered[c] = 0
    /\ UNCHANGED <<tracking, buffered>>

(* markInUse, with the mark on the connection itself. *)
Marked(c) == busy' = [busy EXCEPT ![c] = TRUE] /\ idle' = idle \ {c}

(* The bytes complete a request, and may hold more of them, *)
ReadRequest(c) ==
    /\ Serves(c, "got", "handling")
    /\ ~closed[c]
    /\ Marked(c)
    /\ \E n \in 1..MaxBuffer : buffered' = [buffered EXCEPT ![c] = n - 1]
    /\ UNCHANGED <<all, wg, closed>>

(* or a part of one, for the rest of which Read is called again. *)
ReadPart(c) ==
    /\ Serves(c, "got", "reading")
    /\ ~closed[c]
    /\ Marked(c)
    /\ UNCHANGED <<all, wg, closed, buffered>>

(* A connection closed in the meantime fails the read. *)
ReadFails(c) ==
    /\ Serves(c, "got", "closing")
    /\ closed[c]
    /\ UNCHANGED <<tracking, buffered>>

\* Mutant: the state of the connection is not looked at.
ReadUnchecked(c) ==
    /\ Serves(c, "got", "handling")
    /\ Marked(c)
    /\ \E n \in 1..MaxBuffer : buffered' = [buffered EXCEPT ![c] = n - 1]
    /\ UNCHANGED <<all, wg, closed>>

(* The deferred function of Read: the connection is in use from now on. *)
Read(c) == ReadRequest(c) \/ ReadPart(c) \/ ReadFails(c)

(* The client has left, or the connection has been closed: Read returns an   *)
(* error, having marked the connection as in use if it is not closed.        *)
Leave(c) ==
    /\ Serves(c, "reading", "closing")
    /\ buffered[c] = 0
    /\ busy' = [busy EXCEPT ![c] = @ \/ ~closed[c]]
    /\ idle' = IF closed[c] THEN idle ELSE idle \ {c}
    /\ UNCHANGED <<all, wg, closed, buffered>>

(* The next request of a pipeline is in the reader's buffer: no Read. *)
Buffered(c) ==
    /\ Serves(c, "reading", "handling")
    /\ buffered[c] > 0
    /\ buffered' = [buffered EXCEPT ![c] = @ - 1]
    /\ UNCHANGED tracking

(* The handler has replied.  The connection is to be closed when keep-alives *)
(* are disabled, when the client wants it, or after a panic.                 *)
Handled(c) ==
    /\ \/ Serves(c, "handling", "closing")
       \/ Serves(c, "handling", "replied") /\ keepAlives
    /\ UNCHANGED <<tracking, buffered>>

(* StateIdle: markIdle, which closes the connection when its shard drains. *)
markIdle(c) ==
    /\ Serves(c, "replied", "reading")
    /\ busy' = [busy EXCEPT ![c] = FALSE]
    /\ IF busy[c] /\ drain[ShardOf(c)]
         THEN Close(c)
         ELSE /\ idle' = IF busy[c] THEN idle \cup {c} ELSE idle
              /\ UNCHANGED <<all, wg, closed>>
    /\ UNCHANGED buffered

(* The goroutine ends by closing the connection. *)
Finish(c) ==
    /\ Serves(c, "closing", "ended")
    /\ Close(c)
    /\ UNCHANGED <<busy, buffered>>

-----------------------------------------------------------------------------
(* An interrupt: signal.Notify does not wait for room in the channel. *)
Signal ==
    /\ ~Over
    /\ sent < MaxSignals
    /\ sent' = sent + 1
    /\ sigchan' = 1
    /\ UNCHANGED <<server, keepAlives, tracking, serving, calls, once, drainer, hooks, waiting>>

(* sigLoop starts a shutdown, which is forced if the last signal was taken   *)
(* less than the double-kick window before.  The pre hook, a line of log, is *)
(* left out.                                                                 *)
sigLoop ==
    /\ ~Over
    /\ sigchan = 1
    /\ sigchan' = 0
    /\ \E k \in IF calls = <<>> THEN {"graceful"} ELSE Kinds :
         calls' = [i \in 1..(Cardinality(DOMAIN calls) + 1) |->
                     IF i \in DOMAIN calls THEN calls[i] ELSE [kind |-> k, at |-> "close"]]
    /\ UNCHANGED <<server, keepAlives, tracking, serving, sent, once, drainer, hooks, waiting>>

Calls(i, from, to) ==
    /\ ~Over
    /\ i \in DOMAIN calls
    /\ calls[i].at = from
    /\ calls' = [calls EXCEPT ![i].at = to]

Drainer(k, at, s, set) == drainer' = [drainer EXCEPT ![k] = [at |-> at, shard |-> s, set |-> set]]

(* closeOnce or forceOnce: the first call runs closeListeners, which sets    *)
(* closing and starts a goroutine if there is a listener; the others go on   *)
(* when that has returned.                                                   *)
closeListeners(i) ==
    LET k == calls[i].kind IN
    \/ /\ ~Over
       /\ i \in DOMAIN calls /\ calls[i].at = "close"
       /\ once[k] = "no"
       /\ IF main = "starting"
            THEN once' = [once EXCEPT ![k] = "done"] /\ UNCHANGED drainer
            ELSE once' = [once EXCEPT ![k] = "running"] /\ Drainer(k, "keepalives", 0, {})
       /\ UNCHANGED <<server, keepAlives, tracking, serving, sigchan, sent, calls, hooks, waiting>>
    \/ /\ Calls(i, "close", "post")
       /\ once[k] = "done"
       /\ UNCHANGED <<server, keepAlives, tracking, serving, sigchan, sent, once, drainer, hooks, waiting>>

(* postOnce *)
PostHooks(i) ==
    /\ Calls(i, "post", "notify")
    /\ hooks' = TRUE
    /\ UNCHANGED <<server, keepAlives, tracking, serving, sigchan, sent, once, drainer, waiting>>

(* notifyOnce *)
Notify(i) ==
    /\ Calls(i, "notify", "gone")
    /\ waiting' = FALSE
    /\ UNCHANGED <<server, keepAlives, tracking, serving, sigchan, sent, once, drainer, hooks>>

-----------------------------------------------------------------------------
At(k, at) == ~Over /\ drainer[k].at = at

(* gracefulServer.Close disables keep-alives and closes the socket. *)
DisableKeepAlives(k) ==
    /\ At(k, "keepalives")
    /\ keepAlives' = FALSE
    /\ Drainer(k, "close", 0, {})
    /\ UNCHANGED <<server, tracking, serving, signals>>

CloseSocket(k) ==
    /\ At(k, "close")
    /\ open' = FALSE
    /\ Drainer(k, "mark", 0, {})
    /\ UNCHANGED <<main, accepted, keepAlives, tracking, serving, signals>>

\* Mutant: drain is not set.
closeConnsLeaving(k) ==
    LET s == drainer[k].shard IN
    /\ At(k, "mark")
    /\ Drainer(k, "shut", s, Of(s) \cap (IF k = "forced" THEN all ELSE idle))
    /\ UNCHANGED <<server, keepAlives, tracking, serving, signals>>

(* closeConns of one shard: under its lock, drain is set and the connections *)
(* to be closed are copied; *)
closeConns(k) ==
    LET s == drainer[k].shard IN
    /\ At(k, "mark")
    /\ drain' = [drain EXCEPT ![s] = TRUE]
    /\ Drainer(k, "shut", s, Of(s) \cap (IF k = "forced" THEN all ELSE idle))
    /\ UNCHANGED <<server, keepAlives, all, idle, wg, busy, closed, serving, signals>>

(* without the lock, each is closed, by a graceful drain only if it is still *)
(* idle;                                                                     *)
closeIfIdle(k) ==
    LET d == drainer[k] IN
    /\ At(k, "shut")
    /\ \E c \in d.set :
         /\ IF k = "graceful" /\ busy[c] THEN UNCHANGED <<all, idle, wg, closed>> ELSE Close(c)
         /\ Drainer(k, "shut", d.shard, d.set \ {c})
    /\ UNCHANGED <<server, keepAlives, drain, busy, serving, signals>>

(* then the next shard, and after the last the groups of all are waited for. *)
NextShard(k) ==
    LET d == drainer[k] IN
    /\ At(k, "shut")
    /\ d.set = {}
    /\ IF d.shard + 1 < Shards THEN Drainer(k, "mark", d.shard + 1, {}) ELSE Drainer(k, "wait", 0, {})
    /\ UNCHANGED <<server, keepAlives, tracking, serving, signals>>

WaitShard(k) ==
    LET s == drainer[k].shard IN
    /\ At(k, "wait")
    /\ wg[s] = 0
    /\ IF s + 1 < Shards
         THEN Drainer(k, "wait", s + 1, {}) /\ UNCHANGED once
         ELSE Drainer(k, "done", 0, {}) /\ once' = [once EXCEPT ![k] = "done"]
    /\ UNCHANGED <<server, keepAlives, tracking, serving, sigchan, sent, calls, hooks, waiting>>

-----------------------------------------------------------------------------
Main == appendListener \/ Refused \/ Wait \/ \E c \in Conns : Count(c) \/ track(c)
Shutting(i) == closeListeners(i) \/ PostHooks(i) \/ Notify(i)
Draining(k) ==
    \/ DisableKeepAlives(k) \/ CloseSocket(k) \/ closeConns(k)
    \/ closeIfIdle(k) \/ NextShard(k) \/ WaitShard(k)

(* What the goroutine of a connection does by itself, once a request has     *)
(* begun to arrive: clients send the rest or leave, and handlers return.     *)
Request(c) ==
    \/ Read(c) \/ Buffered(c) \/ Handled(c) \/ markIdle(c) \/ Finish(c)
    \/ (busy[c] \/ closed[c]) /\ Leave(c)

Serving(c) == Request(c) \/ Arrive(c) \/ Leave(c)

Next ==
    \/ Main \/ Signal \/ sigLoop
    \/ \E c \in Conns : Accept(c) \/ Serving(c)
    \/ \E i \in 1..MaxSignals : Shutting(i)
    \/ \E k \in Kinds : Draining(k)

Spec == Init /\ [][Next]_vars

(* The package's own goroutines go on when they can, *)
FairShutdown ==
    /\ Spec
    /\ WF_vars(Main) /\ WF_vars(sigLoop)
    /\ \A i \in 1..MaxSignals : WF_vars(Shutting(i))
    /\ \A k \in Kinds : WF_vars(Draining(k))

(* and so do requests; one is complete after a number of parts that net/http *)
(* bounds.                                                                   *)
RequestsEnd == \A c \in Conns : WF_vars(Request(c)) /\ SF_vars(ReadRequest(c))

-----------------------------------------------------------------------------
Forced == once["forced"] # "no"

(* A graceful shutdown lets requests finish: as long as no signal has forced *)
(* it, no connection is closed, by however late a step of a drain that saw    *)
(* it idle, while a handler works on a request from it, and the process does *)
(* not end either.  Two exceptions: the end by log.Fatal or by the panic of  *)
(* a group, for a connection that the drain of its shard has overtaken on    *)
(* the way into the maps, and requests of a pipeline behind the first,       *)
(* during which nothing marks the connection.                                *)
RequestsFinish ==
    ~Forced /\ main # "fatal"
      => \A c \in Conns : stage[c] = "handling" =>
           IF busy[c] THEN ~closed[c] /\ main # "exited" ELSE MaxBuffer > 1

(* The group of each shard counts its open connections from Count on, with   *)
(* the one that is not tracked yet, whoever closes them and however often:   *)
(* the wait of a drain ends with the last of them, and no Done is one too    *)
(* many.                                                                     *)
CountsExact ==
    \A s \in ShardIds :
        wg[s] = Cardinality({c \in Of(s) : c \in all \/ stage[c] = "added"})

(* A signal taken before the listener was in the list: nothing is closed. *)
Missed == \E k \in Kinds : once[k] = "done" /\ drainer[k].at = "none"

(* "guaranteed to be called after all listening connections have been        *)
(* closed, but before Wait() returns", signal.go of the post hooks: so it is *)
(* if there was a listener when the signal came, but for the one connection  *)
(* that main may hold between Accept and track, for no drain waits for it.   *)
(* Its shard drains, and it is closed, or the process ends, before it is     *)
(* served.                                                                   *)
HooksLast ==
    /\ hooks /\ ~Missed =>
         /\ all = {}
         /\ \A c \in Conns :
              \/ stage[c] = "none" \/ closed[c]
              \/ c = accepted /\ stage[c] \in {"accepted", "added"} /\ drain[ShardOf(c)]
    /\ ~waiting => hooks

(* The books of the drain, shard.go and signal.go. *)
Accounts == TypeOK /\ CountsExact /\ HooksLast

(* With requests that end, a shutdown that has begun to close ends the       *)
(* process, whatever idle clients do; it has not begun if Missed.            *)
GracefulEnds == (\E k \in Kinds : once[k] = "running") ~> Over

(* A forced one does so even if handlers never return and clients never      *)
(* leave.                                                                    *)
ForceEnds == (once["forced"] = "running") ~> Over

(* Drain waits, signal.go, for what ends and for nothing else. *)
ShutdownEnds == ForceEnds /\ (RequestsEnd => GracefulEnds)
=============================================================================
