----------------------------- MODULE QueryCache -----------------------------
(***************************************************************************)
(* The API server's requests against PostgreSQL and its Redis query cache  *)
(* (db_utils.go, cache_utils.go, folders.go, torrents.go).  Each request   *)
(* is a goroutine; one action is one command sent to Redis or PostgreSQL   *)
(* and the handling of its answer.                                         *)
(*                                                                         *)
(*   a read:   lookup -> query -> store -> expire -> register -> ok        *)
(*   a write:  exec -> invalidate -> ok                                    *)
(*                                                                         *)
(* The three commands of cacheSet are a pipeline and not a transaction:    *)
(* Redis runs other clients' commands between them.  The Lua script of     *)
(* cacheInvalidate is atomic.                                              *)
(***************************************************************************)
EXTENDS Operations

CONSTANTS Requests,     \* the requests that can be in progress together
          Offered,      \* the Go functions that clients call
          SeedFolders, SeedTorrents,    \* the rows the database starts with
          MaxFills,     \* bound: fills of the cache
          MaxWrites,    \* bound: calls that write
          MaxFaults     \* bound: lost connections and server crashes

VARIABLES
  db,           \* the tables
  issued,       \* ids that exist: seeded, or made by newID
  cache,        \* Redis hashes: key -> bytes, etag, and whether a TTL is set
  registered,   \* members of the Redis rkeys sets: <<rkey, cache key>>
  pc, op, got,  \* per request: its next command or its reply, the call it
                \* serves, and the answer it has read
  fills,        \* number of etags made
  writes,       \* number of calls that write
  delivered,    \* answers clients have received
  past,         \* the answers each read has had since the start
  cut,          \* keys of fills that were not carried out to the end
  faults        \* number of faults so far

vars == <<db, issued, cache, registered, pc, op, got, fills, writes, delivered,
          past, cut, faults>>

Seed == [folders |-> SeedFolders, torrents |-> SeedTorrents]

ASSUME ConstantsAssumption ==
  /\ SeedFolders \subseteq Folder /\ SeedTorrents \subseteq Torrent
  /\ SchemaHolds(Seed)
  /\ MaxFills \in Nat /\ MaxWrites \in Nat /\ MaxFaults \in Nat
  /\ Offered \subseteq {o.kind : o \in Reads \cup Writes}

NoCall  == Call("none", Blank, Blank, Blank, Blank)
ETagNil == 0
Nothing == [bytes |-> {}, etag |-> ETagNil]

Replies == {"idle", "ok", "badRequest", "error"}

Busy(r) == pc[r] \notin Replies

RowIds(d) == {f.id : f \in d.folders} \cup {t.id : t \in d.torrents}

Init ==
  /\ db = Seed
  /\ issued = RowIds(Seed)
  /\ cache = << >> /\ registered = {}
  /\ pc  = [r \in Requests |-> "idle"]
  /\ op  = [r \in Requests |-> NoCall]
  /\ got = [r \in Requests |-> Nothing]
  /\ fills = 0 /\ writes = 0 /\ delivered = {}
  /\ past = [q \in Reads |-> Answers(Seed, q)]
  /\ cut = {} /\ faults = 0

-----------------------------------------------------------------------------
Goto(r, step) == pc' = [pc EXCEPT ![r] = step]

Reply(r, status) ==
  /\ Goto(r, status)
  /\ op'  = [op  EXCEPT ![r] = NoCall]
  /\ got' = [got EXCEPT ![r] = Nothing]

Deliver(r, cacheable) ==
  /\ Reply(r, "ok")
  /\ delivered' = delivered \cup {[key   |-> KeyOf(op[r]),
                                   bytes |-> cacheable.bytes,
                                   etag  |-> cacheable.etag]}

Fault == faults < MaxFaults /\ faults' = faults + 1

\* Texts clients know: names, and ids that exist.
Known(o) == {o.id, o.name} \subseteq Names \cup issued \cup {Blank}

\* Bound: no more than MaxFills fills, counting those that may yet come.
MayFill == fills + Cardinality({r \in Requests : Busy(r) /\ op[r] \in Reads}) < MaxFills

Receive(r) ==
  /\ ~Busy(r)
  /\ \/ \E o \in Reads :
          /\ o.kind \in Offered /\ Known(o) /\ MayFill
          /\ op' = [op EXCEPT ![r] = o]
          /\ Goto(r, "lookup") /\ UNCHANGED <<issued, writes>>
     \/ \E o \in Writes :
          /\ o.kind \in Offered /\ writes < MaxWrites
          /\ writes' = writes + 1
          /\ IF o.kind = "FolderCreate"
             THEN /\ o.id \notin issued     \* newID
                  /\ o.name \in Names \cup issued
                  /\ issued' = issued \cup {o.id}
             ELSE Known(o) /\ UNCHANGED issued
          /\ op' = [op EXCEPT ![r] = o]
          /\ Goto(r, "exec")
  /\ UNCHANGED <<db, cache, registered, got, fills, delivered, past, cut, faults>>

-----------------------------------------------------------------------------
(* dbFindExec.                                                             *)

\* cacheGet
Lookup(r) ==
  /\ pc[r] = "lookup"
  /\ LET key == KeyOf(op[r])
     IN  IF key \in DOMAIN cache
         THEN Deliver(r, cache[key])
         ELSE Goto(r, "query") /\ UNCHANGED <<op, got, delivered>>
  /\ UNCHANGED <<db, issued, cache, registered, fills, past, cut, faults, writes>>

Query(r) ==
  /\ pc[r] = "query"
  /\ \/ \E bytes \in Answers(db, op[r]) :
          /\ got' = [got EXCEPT ![r].bytes = bytes]
          /\ Goto(r, "store") /\ UNCHANGED op
     \/ Answers(db, op[r]) = {} /\ Reply(r, "error")
  /\ UNCHANGED <<db, issued, cache, registered, fills, delivered, past, cut,
                 faults, writes>>

\* Mutant: one ETag for two fills, as from a clock too coarse.
ETagOfTick == 1 + fills \div 2

\* A fresh uuid.
cacheMakeEtag == 1 + fills

\* HMSET: sets the fields of the hash and leaves its TTL as it is.
Store(r) ==
  /\ pc[r] = "store"
  /\ LET key     == KeyOf(op[r])
         present == key \in DOMAIN cache
         entry   == [bytes |-> got[r].bytes, etag |-> cacheMakeEtag,
                     ttl   |-> present /\ cache[key].ttl]
     IN  /\ cache' = [k \in DOMAIN cache \cup {key} |->
                        IF k = key THEN entry ELSE cache[k]]
         /\ got'   = [got EXCEPT ![r].etag = cacheMakeEtag]
         /\ fills' = fills + 1
  /\ Goto(r, "expire")
  /\ UNCHANGED <<db, issued, registered, op, delivered, past, cut, faults, writes>>

\* Mutant: no EXPIRE in the pipeline.
NoTTL(r) ==
  /\ pc[r] = "expire"
  /\ Goto(r, "register")
  /\ UNCHANGED <<db, issued, cache, registered, op, got, fills, delivered, past, cut,
                 faults, writes>>

\* EXPIRE: does nothing if the key is gone.
SetTTL(r) ==
  /\ pc[r] = "expire"
  /\ LET key == KeyOf(op[r])
     IN  cache' = [k \in DOMAIN cache |->
                     IF k = key THEN [cache[k] EXCEPT !.ttl = TRUE] ELSE cache[k]]
  /\ Goto(r, "register")
  /\ UNCHANGED <<db, issued, registered, op, got, fills, delivered, past, cut,
                 faults, writes>>

\* SADD, and the answer goes to the client.
\* Mutant: the rkey of the table alone.
AddedToTable(r) ==
  registered' = registered \cup
    {<<cacheMakeInvalidateKey([HintOf(op[r]) EXCEPT !.params = << >>]), KeyOf(op[r])>>}

Added(r) ==
  registered' = registered \cup
    {<<cacheMakeInvalidateKey(HintOf(op[r])), KeyOf(op[r])>>}

Register(r) ==
  /\ pc[r] = "register"
  /\ Added(r)
  /\ Deliver(r, got[r])
  /\ UNCHANGED <<db, issued, cache, fills, past, cut, faults, writes>>

-----------------------------------------------------------------------------
(* dbFinalizeExec.                                                         *)

Commit(d) ==
  /\ db' = d
  /\ past' = [q \in Reads |-> past[q] \cup Answers(d, q)]

\* The reply to a statement, or "invalidate" if it affected the one row that
\* dbCheckRowsAffected expects.
dbFinalizeExec(out) ==
  IF out.err = "unique" THEN "badRequest"
  ELSE IF out.err # "none" \/ out.affected # 1 THEN "error"
  ELSE "invalidate"

Exec(r) ==
  /\ pc[r] = "exec"
  /\ LET out  == Outcome(db, op[r])
         next == dbFinalizeExec(out)
     IN  /\ Commit(out.db)
         /\ IF next = "invalidate"
            THEN Goto(r, next) /\ UNCHANGED <<op, got>>
            ELSE Reply(r, next)
  /\ UNCHANGED <<issued, cache, registered, fills, delivered, cut, faults, writes>>

\* What the script of cacheInvalidate deletes.
Evicted(hint) ==
  {m[2] : m \in {n \in registered : n[1] \in RelatedKeys(hint)}}

Evict(hint) ==
  /\ cache' = [k \in DOMAIN cache \ Evicted(hint) |-> cache[k]]
  /\ registered' = {n \in registered : n[1] \notin RelatedKeys(hint)}

Invalidate(r) ==
  /\ pc[r] = "invalidate"
  /\ LET hint == HintOf(op[r])
     IN  IF SubsetsPanics(hint)
         THEN Reply(r, "error") /\ UNCHANGED <<cache, registered>>
         ELSE Evict(hint) /\ Reply(r, "ok")
  /\ UNCHANGED <<db, issued, fills, delivered, past, cut, faults, writes>>

-----------------------------------------------------------------------------
(* The environment: lost connections, a crash of the server, Redis.        *)

\* A command to Redis fails; it may have been carried out before the reply was
\* lost.  What is left of a pipeline is not sent.
LoseRedis(r) ==
  /\ Fault
  /\ \/ pc[r] \in {"lookup", "store"} /\ UNCHANGED <<cache, registered, cut>>
     \/ /\ pc[r] \in {"expire", "register"}
        /\ cut' = cut \cup {KeyOf(op[r])}
        /\ UNCHANGED <<cache, registered>>
     \/ pc[r] = "register" /\ Added(r) /\ UNCHANGED <<cache, cut>>
     \/ /\ pc[r] = "invalidate"
        /\ Evict(HintOf(op[r])) \/ UNCHANGED <<cache, registered>>
        /\ UNCHANGED cut
  /\ Reply(r, "error")
  /\ UNCHANGED <<db, issued, fills, delivered, past, writes>>

\* A statement fails with a lost connection; it may have been committed.
LoseDb(r) ==
  /\ Fault
  /\ \/ pc[r] \in {"query", "exec"} /\ UNCHANGED <<db, past>>
     \/ pc[r] = "exec" /\ Commit(Outcome(db, op[r]).db)
  /\ Reply(r, "error")
  /\ UNCHANGED <<issued, cache, registered, fills, delivered, cut, writes>>

\* The server stops and comes back; requests in progress are never answered.
Crash ==
  /\ Fault
  /\ \E r \in Requests : Busy(r)
  /\ pc'  = [r \in Requests |-> IF Busy(r) THEN "idle" ELSE pc[r]]
  /\ op'  = [r \in Requests |-> NoCall]
  /\ got' = [r \in Requests |-> Nothing]
  /\ cut' = cut \cup {KeyOf(op[r]) : r \in {s \in Requests : pc[s] \in {"expire", "register"}}}
  /\ UNCHANGED <<db, issued, cache, registered, fills, delivered, past, writes>>

\* The hour given to EXPIRE is over.
Expire(key) ==
  /\ key \in DOMAIN cache
  /\ cache[key].ttl
  /\ cache' = [k \in DOMAIN cache \ {key} |-> cache[k]]
  /\ UNCHANGED <<db, issued, registered, pc, op, got, fills, delivered, past, cut,
                 faults, writes>>

\* make redis-flush
Flush ==
  /\ cache # << >> \/ registered # {}
  /\ cache' = << >> /\ registered' = {} /\ cut' = {}
  /\ UNCHANGED <<db, issued, pc, op, got, fills, delivered, past, faults, writes>>

-----------------------------------------------------------------------------
Step(r) == \/ Lookup(r) \/ Query(r) \/ Store(r) \/ SetTTL(r) \/ Register(r)
           \/ Exec(r) \/ Invalidate(r)

Keys == {KeyOf(q) : q \in Reads}

Next == \/ \E r \in Requests : Receive(r) \/ Step(r) \/ LoseRedis(r) \/ LoseDb(r)
        \/ Crash \/ Flush
        \/ \E k \in Keys : Expire(k)

Spec == Init /\ [][Next]_vars

\* The scheduler runs every goroutine, and Redis expires what has a TTL.
Fairness == /\ \A r \in Requests : WF_vars(Step(r))
            /\ \A k \in Keys : WF_vars(Expire(k))

FairSpec == Spec /\ Fairness

-----------------------------------------------------------------------------
(* Properties.                                                             *)

Row    == [id : Ids, name : Param] \cup Torrent
Answer == SUBSET Row
ETags  == 1..MaxFills

Entry == [bytes : Answer, etag : Nat, ttl : BOOLEAN]

\* The types of the variables, and where a request is with what it holds.
TypeOK ==
  /\ db \in Database /\ issued \subseteq Ids
  /\ DOMAIN cache \subseteq Keys /\ cache \in [DOMAIN cache -> Entry]
  /\ \A n \in registered : n[2] \in Keys
  /\ pc \in [Requests -> Replies \cup {"lookup", "query", "store", "expire",
                                        "register", "exec", "invalidate"}]
  /\ op \in [Requests -> Reads \cup Writes \cup {NoCall}]
  /\ \A r \in Requests :
       /\ pc[r] \in {"lookup", "query", "store", "expire", "register"} => op[r] \in Reads
       /\ pc[r] \in {"exec", "invalidate"} => op[r] \in Writes
  /\ got \in [Requests -> [bytes : Answer, etag : Nat]]
  /\ fills \in Nat /\ writes \in Nat /\ faults \in Nat
  /\ delivered \subseteq [key : Keys, bytes : Answer, etag : Nat]
  /\ past \in [Reads -> SUBSET Answer]
  /\ cut \subseteq Keys

\* The statements of folders.go and torrents.go, one by one and autocommitted,
\* keep the unique and foreign keys of schema.sql whatever their order, and no
\* row has an id that was not made for it.
SchemaKept == SchemaHolds(db) /\ RowIds(db) \subseteq issued

\* What the cache holds for a read, and what clients were given for it, is the
\* answer that same read (same function, user and parameter) had at some time:
\* a key never carries the answer of another user or folder, whatever fills,
\* expirations and crashes come between SELECT and HMSET.
CachedIsPast ==
  \A q \in Reads :
    /\ KeyOf(q) \in DOMAIN cache => cache[KeyOf(q)].bytes \in past[q]
    /\ \A d \in delivered : d.key = KeyOf(q) => d.bytes \in past[q]

\* writeCacheHeaders answers 304 when the client's ETag is the cached one: the
\* client's copy is then the cached one, though two fills of a key may race and
\* each client is given the ETag of its own fill.
EtagIdentifiesBytes ==
  /\ \A k \in DOMAIN cache : \A d \in delivered :
       cache[k].etag = d.etag => k = d.key /\ cache[k].bytes = d.bytes
  /\ \A c, d \in delivered : c.etag = d.etag => c = d
  /\ \A k, l \in DOMAIN cache : cache[k].etag = cache[l].etag => k = l

Filling(k, steps) == \E r \in Requests : pc[r] \in steps /\ KeyOf(op[r]) = k

RkeyOf(k) == {cacheMakeInvalidateKey(HintOf(q)) : q \in {p \in Reads : KeyOf(p) = k}}

\* An entry that no fault left behind has a TTL and is listed under the hint of
\* its query, or the fill that will see to it is still in progress: fills of a
\* key, expirations, evictions and flushes interleaved do not orphan an entry.
EntriesAccountedFor ==
  \A k \in DOMAIN cache \ cut :
    /\ cache[k].ttl \/ Filling(k, {"expire"})
    /\ \/ \E n \in registered : n[2] = k /\ n[1] \in RkeyOf(k)
       \/ Filling(k, {"expire", "register"})

RowsOf(d, u) == [folders  |-> {f \in d.folders  : f.owner_id = u},
                 torrents |-> {t \in d.torrents : t.owner_id = u}]

\* The rows of a user change only by a statement of a call of that user: the
\* owner_id of every WHERE, the cascade included.
OwnRowsOnly ==
  [][\A u \in Users : RowsOf(db, u)' # RowsOf(db, u) =>
       \E r \in Requests : pc[r] = "exec" /\ op[r].user = u /\ pc'[r] # "exec"]_vars

TorrentIds == {t.id : t \in db.torrents}

\* The set of torrents changes only by TorrentDelete and by the one torrent it
\* names: a folder takes no torrent with it, a rename loses none, and
\* TorrentCreate, which leaves the id blank, never adds one.
TorrentsGoOnlyByDelete ==
  [][TorrentIds' # TorrentIds =>
       \E r \in Requests : /\ pc[r] = "exec" /\ op[r].kind = "TorrentDelete"
                           /\ TorrentIds' = TorrentIds \ {op[r].id}]_vars

\* A stored version of an answer leaves the cache, by its TTL or a newer fill,
\* unless a fault cut a fill of its key: the TTL bounds how long a write stays
\* unseen, which no invalidation does.
VersionsRetire ==
  \A k \in Keys, e \in ETags :
    (k \in DOMAIN cache /\ cache[k].etag = e)
      ~> (k \in cut \/ ~(k \in DOMAIN cache /\ cache[k].etag = e))

-----------------------------------------------------------------------------
\* What the cache shows: to a read, what is under its key.
Shown == [q \in {p \in Reads : KeyOf(p) \in DOMAIN cache} |-> cache[KeyOf(q)].bytes]

Promise == INSTANCE ReadThrough WITH Start <- Seed, view <- Shown

\* Requests, pipelines, invalidations and faults implement the promise of
\* ReadThrough: tables of which a statement changes one user's rows, and a view
\* of past answers that is filled and dropped read by read.
ImplementsReadThrough == Promise!Spec
=============================================================================
