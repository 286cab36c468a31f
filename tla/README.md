# tormgr in TLA+

tormgr is a torrent manager: a Go API server over PostgreSQL (users, access
tokens, folders, torrents) and Redis (a cache of query results and of tokens),
and a React client. Its libraries are vendored under `Godeps`; the parts of
them that every request runs through (goji's muxes, router and graceful end,
the connection pool of the Redis client) are modelled as well. This directory
holds TLA+ models of the server, the TLC runs that check them and proofs checked
by TLAPS. The source has no README, no
design document and no test of its own; the code, its comments, the SQL schema
and the comments and tests of the libraries are the only reference.

## Inventory

| component | state | operations | works with |
|---|---|---|---|
| cache hints (`cache_utils.go`) | none | `cacheHintMake`, `cacheMakeInvalidateKey`, `cacheMakeRelatedCacheHints`, `submaps`, `subsets` | query cache |
| query cache (`cache_utils.go`, `db_utils.go`) | Redis: one hash `q.<digest>` per read (data, etag, TTL of an hour), one set `rkeys\|table\|user\|param=value...` per hint | `cacheGet`, `cacheSet` (a pipeline), `cacheInvalidate` (a Lua script), Redis expiration, `make redis-flush` | shared by all requests |
| database access (`db_utils.go`) | none of its own | `dbFind`, `dbFindOne`, `dbExecOnRecord`, `dbFinalizeExec` | PostgreSQL, query cache |
| folders (`folders.go`, `schema.sql`) | table `folders` | list, create, rename, delete | database access |
| torrents (`torrents.go`, `schema.sql`) | table `torrents`, with a foreign key to the folder's *name* | list, by folder, get, get data, create, update, delete | database access |
| torrent sources (`torrents.go`) | none | magnet links, download, bencode, title, info hash | torrents |
| access tokens (`accessTokens.go`, `views.sql`) | table `access_tokens`; Redis: one hash per token, one set of tokens per user | create, authenticate, delete, delete all, hourly deletion of expired ones | PostgreSQL and Redis, with no transaction across the two |
| users (`users.go`) | table `users` | create, authenticate with a password | tokens |
| authentication (`auth.go`) | the request's context | parse header or form, verify, `mustAuthenticate` | users, tokens |
| mux, routes (`mux.go`, `server.go`, `rest_utils.go`) | none | middleware chain, error replies, ETag and 304 | everything |
| start-up (`services.go`) | connections | three stages, each retried four times | PostgreSQL, Redis, RabbitMQ |
| muxes (`mux.go`, goji `web`) | pools of middleware stacks; per request a context, whose maps are shared by its copies | `alloc`, `release`, middlewares, recovery of panics, sub-routing | all handlers |
| router (goji `web`) | a sorted table of routes and the machine it is compiled to | add a route, compile, match | muxes |
| graceful end (goji `graceful`, `listener`) | listeners, connections in shards, counts that drains wait for | accept, read, close, drain, force, hooks | `net/http`, signals |
| Redis client (`redis.v3`) | a list of connections, a channel of free ones, a rate limiter for dials | get, put, remove, one pipeline at a time on a connection | query cache, tokens |
| web client (`web/src`) | session in `localStorage`, Redux store | sign in, sign up, sign out on a 401; fetch if needed, create, delete | API |
| Chrome extension (`chromebg.js`) | context menus | uses `Api.Feeds`, which `api.js` no longer exports | API |

What is hard, and what makes each part correct:

- **Query cache.** Every request is a goroutine and every Redis or PostgreSQL
  call is a point where others run. A fill is SELECT, then HMSET, EXPIRE, SADD;
  the three are pipelined but not a transaction. A write commits first and
  invalidates afterwards, and either part can fail. Correct means: what is
  stored or served for a read is an answer *that* read has had, for that user
  and that parameter; an ETag stands for one answer; nothing stays in Redis
  without a TTL; the invalidation finds what it is meant to find.
- **Tables.** Statements address rows by an id *or a name* and are
  autocommitted before their effect is checked. Correct means: the schema's
  keys hold after every sequence, a user changes only the own rows, no torrent
  is lost or orphaned by what happens to its folder.
- **Tokens.** Two stores, no transaction: a deletion races an authentication
  that copies the token back into Redis; an error between HMSET and SADD is
  ignored. Correct means that a grant names the user and the access the token
  was made with, that the deletions find every copy, that a deleted token stops
  working and that no other does.
- **Start-up.** Bounded retries; the server must not serve without its
  connections, over any number of crashes and restarts.
- **Muxes and router.** Stacks and maps are reused between requests that run at
  once. Correct means that a handler sees the identity verified for its own
  request and no other, that a panic is answered, and that the compiled machine
  routes as a search of the table in order would.
- **Graceful end.** Signals, drains, accepts, reads and closes overlap. Correct
  means that no request is cut while it is handled, that the counts the end
  waits for are exact, and that the end comes.
- **Redis client.** Callers share connections whose replies come in the order of
  the commands. Correct means one user per connection, no place lost on any
  error path, no reply read by another caller, and no caller left waiting.
- **Client.** Answers that come back after the session or the selection has
  changed. Correct means that the answer to an old request does not end or
  change a new session, and that what is invalidated is fetched again.

`PROJECT.json` lists each hazard at its line.

## Modules

    CacheHints ----+
    Tables --------+--> Operations --> QueryCache --implements--> ReadThrough
    QueryCache --> MCQueryCache (TLC), QueryCacheProofs
    CacheHints --> MCCacheHints (TLC) --> QueryCacheProofs
    Tokens --implements--> TokenStore
    Tokens --> MCTokens (TLC), TokensProofs
    Auth --> MCAuth (TLC), AuthProofs
    WebSession --> MCWebSession (TLC), WebSessionProofs
    RedisPool --implements--> Lending
    RedisPool --> RedisPoolProofs
    Startup --> StartupProofs
    Shutdown --> ShutdownProofs
    Dispatch --implements--> Alone
    Dispatch --> MCDispatch (TLC)
    RouteTable, RouteCode --> RouteMachine
    RouteCode --> RouteCompiler
    RouteMachine, RouteCompiler --> Router --> MCRouter (TLC)
    Dispatch, RouteMachine --> MuxProofs

`RedisPool`, `Shutdown` and `Startup` are checked as they are.

- **`CacheHints`** - the pure functions of `cache_utils.go`. A Go string is the
  sequence of its pieces: concatenation is that of the code, and a text of a client
  may hold the pieces that the code itself writes, `|` and `=` among them. `Sprint`
  is what `fmt.Sprint` does: it does not interpret `"%v"`, it prepends it. As a
  result no parameter is ever empty, and `cacheHintMake` leaves none out.
  `cacheMakeInvalidateKey` concatenates names and values as they are, so that two
  hints may have one key; what that leaves of a write's reach is
  `EvictsRestrictions`.
- **`Tables`** - the two tables and one operator per SQL statement, from a
  database to `[err, affected, db]`. Constraints are those of `schema.sql`:
  unique ids, unique names per owner, the foreign key with `ON UPDATE CASCADE`
  and `ON DELETE RESTRICT`. A text that is no uuid makes a comparison with an
  id column fail. `TorrentSelect` asks for a column `title` the table does not
  have, so every cached read of torrents is answered with an error;
  `TorrentCreate` leaves the id blank, so it never inserts. Torrents come only
  from the seed, as they do from `dev.sql`.
- **`Operations`** - the routed calls: arguments, cache key, hint, answer of a
  read, statement of a write.
- **`QueryCache`** - the state machine. `db` is PostgreSQL; `cache` and
  `registered` are Redis; `pc`, `op`, `got` are the requests in progress. One
  action is one command sent and the handling of its reply:

  | action | code |
  |---|---|
  | `Receive` | a route of `server.go` calls into `folders.go` or `torrents.go`; inputs are any known text |
  | `Lookup` | `cacheGet`; a hit is the reply |
  | `Query` | the SELECT; a PostgreSQL error is a 500 |
  | `Store`, `SetTTL`, `Register` | HMSET, EXPIRE, SADD of `cacheSet`; HMSET leaves an existing TTL alone, EXPIRE on a missing key does nothing; after SADD the client has its answer and its ETag |
  | `Exec` | the statement and the checks of `dbFinalizeExec`: unique violation 400, other error or not exactly one row 500, all of it after the commit |
  | `Invalidate` | the Lua script over `RelatedKeys`, atomic |
  | `LoseRedis`, `LoseDb` | a lost connection, before or after the command took effect |
  | `Crash` | the server stops; its requests are never answered |
  | `Expire`, `Flush` | a TTL runs out; `redis-cli flushall` |

  History variables serve the properties: `past` (the answers each read has
  had), `delivered` (what clients hold), `cut` (keys of fills that a fault cut
  short), and the counters `fills`, `writes`, `faults` that the bounds need.
  `fills` also numbers the ETags, which are fresh uuids in the code.
- **`ReadThrough`** - the promise to a client, without requests, pipelines or
  faults: a statement changes the rows of one user and keeps the schema; a view
  of a read shows an answer it has had; views come and go on their own. It
  deliberately does *not* promise that a write ends a view, because the code
  does not do that (see Deviations).
- **`Tokens`** - `accessTokens.go`. `rows` is the table, `copies` the token
  hashes in Redis and `listed` the sets of each user's tokens; `pc`, `op`, `got`
  are the calls in progress, as in `QueryCache`. The commands of each call are
  actions in the order of the code:

  | call | actions |
  |---|---|
  | `AccessTokenCreate` (also `AccessTokenCreateFull`) | `Insert`, `CopyToRedis`, `List` |
  | `AccessTokenAuthenticateUser` | `Lookup`; on a miss `Select`, `CopyToRedis`, `List` |
  | `AccessTokenDelete` | `Del`, `SRem`, `DelRows` |
  | `AccessTokenDeleteAll` | `Members`, `DelAll` (which fails if there is nothing to delete), `DelRows` |
  | the hourly loop | `tokensDeleteExpired` |

  `LoseRedis` keeps apart the errors the code ignores (those of
  `tokenAddToCache`: the call goes on and succeeds) from those it returns.
  History: `issued`, `known` (secrets given to clients), `granted` (answers to
  authentications), `alone` (deletions in progress that no other call on one of
  their tokens has overlapped), `dead` (what such deletions have deleted) and
  `cut` (secrets of calls a fault ended). The EXPIREAT of `tokenAddToCache` is
  left out: it is sent for tokens with a time only, and the checks show that
  there are none. The deletions have no route yet; they are modelled as
  functions that may be called for any user, with any secret a client has.
- **`TokenStore`** - what `accessTokens.go` promises the rest of the server, with
  no stores, requests or faults: tokens are made once, under a secret of their
  own, and never change; a client is let in with tokens as they were made; a
  deletion takes effect on tokens of one user, or on none, and what it takes effect
  on is never granted again. `Tokens` implements it with its `issued`, `dead`
  and `granted`. It does not promise that a deletion that another call overlaps
  has any effect, because the code does not (see DeletedStayDeleted), nor that a
  valid token is accepted. `Auth` relies on no more than this: any secret may be
  refused, and one that is accepted stands for its user and its access.
- **`Auth`** - who a request is: the middleware chain of `mux.go`, `auth.go`,
  `users.go` and the routes `/`, `/users`, `/users/tokens` and `/users/me`.
  `users` and `tokens` are the tables; `pc`, `op` and `env` are the requests,
  `env` being the user and the access that `authenticate` leaves in the context.

  | action | code |
  |---|---|
  | `Arrive` | header or else `_tok`; without credentials the handler's first part follows at once |
  | `Select` | `UserAuthenticateWithPassword`, then the handler's first part |
  | `Check` | `AccessTokenAuthenticateUser`, likewise; any token may also be refused |
  | `Insert` | the INSERT of `UserCreate` and the constraints it meets |
  | `Grant` | `AccessTokenCreate`, and the reply |
  | `Lose` | a store fails before or after it has done its part |

  An email is an address and a form (typed or normalized); a password is a text
  with or without a colon, because `auth.go` splits the credentials at every
  colon and takes the second part as the password. An account whose password has
  a colon can be made but not signed into; what is typed after a colon plays no
  part in the comparison. bcrypt is equality. Rejected bodies, bad
  headers and unknown methods end a request before any command. The level that
  `mustAuthenticate` is given is not used in the code and not in the model. The
  pattern in the struct tag of `userRequest` has an escape that makes the tag
  void, so that the CHECK of the table decides which addresses are taken.
- **`WebSession`** - `session.js`, `api.js` and what depends on the session:
  `checkAccess` of `root.jsx` and the submission of the sign-in form. Tabs have
  a `memory` (`Session._data`), a `page` and timers, and share `storage`
  (`localStorage`), which has no lock. A task of a tab's event loop is one action
  up to its accesses to `localStorage`, and each of these is an action of its own,
  between which other tabs have theirs; the tab's next task waits for the last. The
  memory changes at once, since only the tab itself sees it. The actions:

  | action | code |
  |---|---|
  | `Send` | a method of `Users` or `Folders`, up to `fetch`; the header has the token of that moment |
  | `Serve` | the server's answer, or a failed connection; sign-outs are answered with 401 or 404, since no route deletes a token |
  | `Receive` | `_exec`: on a 401 with a session open, `Users.signout()` is called without being awaited, then the caller's `catch` runs |
  | `Read` | `res.json()`, `Session.set` up to its first key, the form's redirect |
  | `Store` | one turn of the loop of `set` or `clear`: a key is written or deleted |
  | `Load` | one turn of the loop of the constructor after a `Reload`; the page follows the last |
  | `Redirect` | a timer that `signout` sets |
  | `Navigate`, `Reload`, `Revoke` | the person at the browser; the server refuses a token it has accepted |

  A call that ends because of a 401 gives its place to the sign-out it starts:
  nothing refers to it any more, and the number of calls stays bounded. Any part
  of the page may call any method at any time. `overlap` is a history variable: it
  says whether two tabs have ever been in `localStorage` at once. A browser that is
  killed in the middle of a task, and the `JSON.parse` of a key that another tab
  deletes between the listing and the reading, are left out.
- **`Startup`** - `main`, `InitServices`, `retry` and the three `setup...`
  functions, over processes that are killed and started again while PostgreSQL,
  Redis and RabbitMQ come and go. `services` holds the handles that are not
  nil; `loop` is the hourly deletion of tokens, started between the stages.
  Time is left out: a sleep ends at any moment (the code's
  `math.Max(float64(i), 8)` makes it a random part of 8 seconds or so, and
  possibly none).
- **`RedisPool`** - `pool.go`, `process` and `putConn` of `redis.go`, `Exec` of
  `pipeline.go`. A socket is the queue of commands whose replies have not been
  read; a caller writes its commands and reads as many replies, and any of the
  dials, writes and reads may fail. The steps of `Get` and `Remove` that touch
  `len`, the list or the channel are actions of their own, since `len` is an
  atomic counter and not under the list's lock. The client is not closed and has
  no reaper, because `setupRedis` sets no idle timeout. The limiter that may
  refuse a dial is one of the ways a dial fails.
- **`Lending`** - what the client promises the code that calls it: a call asks,
  is refused or has a connection that nobody else has, of no more than the size,
  gets its replies one by one, and gives the connection back when it has all or
  has failed. Between that and the next call the pool may be busy replacing the
  connection (`"ending"`). There is no list, channel, count or socket. `RedisPool`
  maps to it by the step of each caller: `Lent` is its `cn` while it writes,
  reads or puts.
- **`Shutdown`** - `graceful`, its `listener` package and goji's `Serve`:
  signals, `closeListeners`, the two drains, each shard's list and wait count,
  and connections that accept, read, handle and close on goroutines of their
  own. `buffered` are requests that `net/http` has read ahead. Only
  `os.Interrupt` is caught; a SIGTERM ends the process at once and is not an
  action. A new connection comes in three steps of main: `Accept` takes it from the
  socket, `Count` adds it to the group of its shard (`wg.Add` of `conn.init`) and
  `track` puts it into the maps, or closes it if the shard drains. A drain may go on
  between any two of them, and find the group at zero before `Count`. The
  `WaitGroup` of Go 1.5 panics when it notices that it is counted up between its
  zero and the return of a `Wait`: then `Count` may end the process. That it may
  notice the same in the goroutine of a connection, where net/http recovers the
  panic, is left out.
- **`Dispatch`** - a request's way through goji's default mux and the API's mux
  under it. `ctx` is the context in each pooled stack: a pointer to a map of
  entries and the parameters bound so far. Copies of a context share the map,
  which is why the user that `authenticate` writes into its copy reaches the
  handler. `Authenticate` lets a request pass, verifies or refuses it, or panics
  (`creds[1]` of `auth.go:91`, `data[0]` of `accessTokens.go:193`), which is
  `Recovered` like the panic of a handler. `release` is three steps, as its three
  accesses to the field `pool` are; `Forget` is `sync.Pool` dropping what it holds.
  `struck` is a history variable: in which mux another request has unset the field
  of the stack that this one is using.
- **`Alone`** - what the muxes promise each request, with no stacks, pools,
  contexts or maps: it goes through the outer mux, has no route or goes into the
  inner one, is refused, verified or let pass there, or panics on the way or in its
  handler, sees the user verified for it, and leaves with its path restored and an
  answer. It promises one answer, but for a
  second one when what is done behind the reply panics, because the code does not
  exclude that (see `release` below). `Dispatch` implements it: `Stages` maps the
  steps of a request to its stage, and the rest are variables that both have.
- **`RouteTable`, `RouteMachine`** - the routes of a mux. The first has the table
  and the sorted insertion of `handle`; the second adds routes to it, compiles it
  and runs the machine, one instruction a step. It knows neither the compiler nor
  the patterns: `Compiled` and `Matching` are constants, of which
  `PatternAssumption` says what `Pattern` (`pattern.go:15`) asks of its
  implementations, that a path a pattern matches has its prefix.
- **`RouteCode`, `RouteCompiler`** - instructions, and the pure functions that
  turn prefixes into a trie and the trie into instructions. `RouteCode` also says
  when a code searches for routes with given prefixes (`Searches`): each
  instruction gets two labels, what the path is known to start with there
  (`Known`) and how many routes are behind (`Behind`), and each instruction has
  to lead on in keeping with them, without leaving a route behind that the path
  may match. The labels are no part of the code of goji; they are to a code what
  an inductive invariant is to a program.
- **`Router`** - the machine with goji's own compiler and string patterns, for
  the run. Bytes are small numbers in the order of ASCII. Patterns are given as
  their parsed literals.
- **`MC...`** - instances for TLC.
- **`...Proofs`** - see below.

Abstractions: in `QueryCache` a name is one piece, without separators (`hints` has
the others); one spelling per uuid (the code strips dashes and case); names of
the CITEXT column are canonical; the 64-bit digest of a query has no
collisions; JSON is the set of rows it lists, in the order PostgreSQL gives
them; timestamps are left out. When a pipeline's reply is lost Redis may still
execute commands the model treats as not sent; the model has the same outcome
as a request that completes and then fails at `Register`.

## Runs

| run | question | bounds |
|---|---|---|
| `hints` | Do `subsets` and the related hints do what they say, and what does a write reach? | all pairs of a write and a read hint over a blank, a plain text and one that is spelled like further parameters, two users; all parameter lists up to `subsetsMaxSize` |
| `caching` | Are answers, ETags and rows kept apart between reads, fills and users, do the keys hold over sequences of all statements, and is `ReadThrough` implemented? | 2 requests, 2 users, one of them with a folder with a torrent, whose name and id the other may name, a third id for what is created, the ids and 1 text as names, an invalid status, 2 fills, 2 writes, no fault; of the reads of torrents, which all fail alike, one |
| `expiry` | Does every stored version leave the cache, and is nothing left behind by a fault? (fair) | 2 requests, 2 fills, 1 write, 1 fault |
| `tokens` | Do copies, lists and deletions agree across the two stores, and do the two implement one store? | 2 requests, 2 users, 2 tokens, 4 calls, 1 fault |
| `auth` | Do requests act for whom they should, and do accounts work? | 2 requests, 3 addresses of which the table accepts 2, passwords of 2 texts, 2 tokens, 3 calls, 1 fault |
| `session` | Do memory, storage and pages of several tabs agree? | 2 tabs, 2 users, 2 calls at once, 2 sessions, 4 sends, 1 visit |
| `signout` | Do sign-outs end, and refused tokens go? (fair) | 2 tabs, 1 user, 2 calls at once, 1 session, 3 sends, 1 visit |
| `startup` | Does every start end in a server that serves with all handles, or in a process that is gone? (fair) | 2 processes, the code's 4 tries, 4 changes of the dependencies |
| `redispool` | Do the list, the channel, the count and the sockets agree on every path, does each caller read its own replies, is each connection lent to one at a time, and does each call end? (fair) | 3 callers, 2 places, 3 dials, 3 calls of up to 2 commands, 1 broken connection |
| `shutdown` | Are requests finished and counts exact under any two signals? Does a graceful shutdown end if requests do, and a forced one anyway? (fair) | 2 connections on 2 shards, 2 signals, up to 2 pipelined requests |
| `dispatch` | Does each request meet its own context, identity, path and exactly one answer, as if it were alone? | 3 requests, 4 stacks |
| `router` | Is the code of each table a search by its labels, and does the machine agree with a search in order, and end? (fair) | all 820 tables of up to 3 of 9 overlapping routes, 18 requests after each addition; the 16 routes of `setupRoutes` in order, 26 requests after each |

Two requests are enough for a race: the only state a fill shares with others is
one key and its set, so a third request adds no new pair of steps on them. Two
fills give an overwrite and two ETags; two or three writes give create, rename
or delete on top of the seed. The proofs remove these bounds for all safety
properties but `CompilesToSearch`. `CHECK_DEADLOCK FALSE` stands where the
budgets of calls run out and an idle server is a state with no successor. The
safety runs use symmetry over the requests and a view that merges the final
replies, which no action or property tells apart; the runs with liveness use
neither.

**Fairness** of `expiry`: a goroutine that can go on does (`WF` of each
request's `Step`; the Go scheduler is fair and the drivers time out), and Redis
removes what has a TTL (`WF` of `Expire`). Nothing is assumed of clients, of
flushes or of faults. The guarantee excepts the keys in `cut`: a fill whose
EXPIRE was never sent leaves an entry that no one ever removes.

For tokens, four calls are one more than the longest scenario needs (create,
then a deletion that races an authentication, then another authentication), and
two tokens tell a deletion of one from a deletion of all.

For `auth`, three calls make two accounts and a sign-in, or a sign-up whose
token is lost, its retry and a sign-in. For `session`, two tabs are enough for
one to change what another has stored, also in the middle of a task of the other,
and four sends are a session in each tab and a sign-out of each. `signout` needs one
session only: its refusals come from `Revoke`. `signout` assumes that every call is answered or fails
and that event loops run what is ready (`WF` of each call's `Progress`, of each
timer); nothing is assumed of people, and what a reload cuts short is excepted.

`startup` assumes that the main goroutine goes on, and that dependencies change
at most `MaxChanges` times, so that they finally stay as they are. `redispool`
assumes that callers go on and that Redis answers or the connection breaks:
`setupRedis` sets no read timeout, so that a silent Redis would hold a caller for
ever, and nothing in the code prevents it. `shutdown` assumes only that the
goroutines of the package go on: for forced shutdowns that is enough, and
`ShutdownEnds` has the rest as a premise for graceful ones, that handlers return
and that a client completes the request it has begun (`SF` of `ReadRequest`,
since other actions interrupt it; there is no read timeout either). `router`
needs only that the machine goes on.

In `redispool` three callers are enough for one to wait, one to work and one to
replace a connection; in `shutdown` each of two connections has a shard of its own,
so that a drain meets each in every state while it is busy with the other. The
mux's races need two requests on one stack and a third to be harmed. A prefix of
five bytes takes two instructions, which is where the chunks of three matter, and
three routes put one before, one below and one after another.

What the runs show:

- `EvictsRestrictions` holds although keys are not escaped: a write always
  reaches the lists whose parameters are among its own, and nothing makes it reach
  another table or another user, since both come before any text of a client. The
  converse holds for texts without a separator only. One of the texts of the run is
  spelled like the parameters that follow it, so that a write with it reaches lists
  that restrict other fields.
- `ImplementsReadThrough` holds with two users and reads of both tables: no view
  of one user's read ever shows rows of another's, also when requests race for one
  key. A digest without the owner breaks it.
- `DeletedStayDeleted` holds for the deletions that nothing overlaps, and only
  for them: an authentication that has read the row before the deletion puts the
  copy back after it, and the copy has no TTL, so that the token goes on being
  accepted until it is deleted again or Redis is flushed. `StoresAgree`
  has the exceptions the code forces on it, at `delRow` and in `cut`.
- `TokensLast` holds because `tokenMkExpires` tests for the longest duration;
  all tokens are made with it, so the hourly deletion deletes nothing.
- `Settles` holds although the sign-out of a refused token is itself refused: by
  the time its answer comes the session is gone, and no further one starts.
- `SessionsKept` says what is left without a lock. Each key of `localStorage` has
  a tab that has its value or is in a task that is about to write, delete or read it,
  so that no token is left when all tabs have signed out, although a tab deletes
  only the keys it knows: every session has the same two. And two sessions are mixed
  by nothing but two tabs that are in `localStorage` at once; then they may be, and
  the run has states in which they are.
- `Accounts` of the pool holds on every error path: an overlapping `Reserve`, a
  dial that fails, a connection that breaks and is or is not replaced. `OwnReplies`
  holds although a pipeline whose first reply is an error of Redis and whose
  second is lost puts the dead connection back: it has no replies to give.
- `LendsInTurn` holds although `Reserve` counts first and looks afterwards: a
  caller that is sent away has added to `len`, never to what is lent. A
  connection that a caller is about to put in the list, or to take off it, is
  nobody's to use, and `Replace` and `Drop` may take as long as they like.
- `RequestsFinish` and `ShutdownEnds` hold with the exceptions listed below.
- `RequestsApart` holds although stacks, contexts and maps are reused, thanks to
  `RequestID`, which makes the map before any copy. The API's own
  `panicRecovery` never sees a handler's panic, since its deferred function ends
  with it; goji's `Recoverer` answers, and `RunsThrough` holds.
- `ServesApart` holds with the second reply of the deviation below and nothing
  else, a panic of `authenticate` included: no request can tell that others were served with the same stacks.
- `AnswersAsSearch` and `CompilesToSearch` hold: sorting moves no route past one
  that may match the same path, chunks of three bytes read no further than the
  path, and code that fails jumps back to the segments that the path may still
  match and to no other. `Ends` holds although it jumps back.

### Deviations

Where the code does something other than its names, comments or messages say,
the models have what the code does, and the properties name it as an exception
or speak of the rest:

- A folder may be *named* like another folder's id. `DELETE ... WHERE (name=:id
  OR id=:id)` (`folders.go:37`) then removes both, commits, and is answered with
  "unexpected result: expected 1, got 2".
- **No write of the run ever evicts a cached folder list.** The list is registered
  with a blank id and a blank name, which the stray `"%v"` of `fmt.Sprint` keeps in
  its hint, while a write's hint has a non-blank id. A client sees its own new folder
  only after the TTL of an hour, an overwrite or a flush. Nothing in the repository
  says what a write should evict, so that no property asks for more; `VersionsRetire`
  is what bounds it.
- `cacheMakeInvalidateKey` has a format with a verb more than arguments, which leaves
  `%!s(MISSING)` in every key, and puts texts into it unescaped: a folder named
  `|Name=%v` that is deleted by its name evicts the list that the deletion of any
  other misses.
- Two tabs that sign in at once, or one that signs in while another signs out or is
  loaded, may leave the user of one session with the token of the other, in
  `localStorage` and in a tab that is loaded then (`overlap` in `SessionsKept`).
- Torrent hints have four parameters, the limit of `subsets`, although the
  comment at `cache_utils.go:156` expects one or two; one more field and every
  torrent write would panic after its commit.
- `api.js:101` logs "invalid token, signout" for any 401. A late answer to a call
  with an earlier token, or a wrong password typed while a session is open, ends
  a session whose token is valid.
- `Remove` of the pool dials the new connection before it closes the old one, so
  that for a moment there may be more than `PoolSize` sockets.
- `putConn` sees the first error of a pipeline only, and may put a dead
  connection back behind an error of Redis; its next user gets the error.
- A connection accepted just before a drain and tracked after it makes Accept
  fail with an error that is not swallowed: `log.Fatal` ends the process
  (`RequestsFinish` excepts `main = "fatal"`).
- The post hooks are "guaranteed to be called after all listening connections have
  been closed", `signal.go:60`: no drain waits for the connection that main has
  accepted and not counted, which may be open while they run (`HooksLast` excepts
  it, and says that its shard drains, so that it is never served).
- During the requests of a pipeline behind the first, nothing marks the
  connection as in use, and a drain may close it (`RequestsFinish` asks for the
  mark, and that only these lack it).
- A signal between `HandleSignals` and `Serve` uses up `closeOnce` with no
  listener to close (`Missed`).
- `release` clears the field `pool` of a stack after the stack is back in the
  pool. The request that has taken it in between drops the stack, or calls a
  method of a nil pool and panics after its reply: in the API's mux `Recoverer` then
  replies a second time (`struck` in `AnsweredOnce`).
- `panicRecovery` of `mux.go` means to answer panics, and its deferred function is
  over before the layers behind it begin: it covers neither `authenticate` nor a
  handler.

## Proofs

TLAPS proves, for all values of the constants that satisfy `TextAssumption`
and `ConstantsAssumption` (ids and names are disjoint and not blank; the seed
satisfies the schema; the bounds are natural numbers), `PoolAssumption` (finitely
many callers, a positive size), `ShutdownAssumption` (finitely many connections,
numbered), `DispatchAssumption` (`None` is no request and no stack),
`StartupAssumption` (bounds are natural numbers, one try at least),
`UserAssumption` (the empty string is no user), `TextsAssumption` (texts are sequences
of pieces), `TablesAssumption` (tables are sequences of patterns, prefixes are strings of
bytes) and `PatternAssumption` (paths are strings of bytes, and a path that a
pattern matches has its prefix), any number of requests and any bounds:

| theorem | module | argument |
|---|---|---|
| `OutcomeKeepsSchema` | `QueryCacheProofs` | one lemma per statement: insertion under a fresh id, the cascade of a rename, the restriction of a delete |
| `TypeCorrect` | `QueryCacheProofs` | `TypeOK` is inductive: it ties each `pc` to the kind of call in `op` |
| `SchemaCorrect` | `QueryCacheProofs` | inductive with `SchemaInv`: an id given to a pending FolderCreate is issued, in no row, and given to no other request |
| `AnswersArePast` | `QueryCacheProofs` | inductive with `PastInv`: what a request carries between SELECT and HMSET is in `past`, which only grows; `KeyTellsRead`: keys are injective |
| `ETagsIdentify` | `QueryCacheProofs` | inductive with `ETagInv`: all ETags are at most `fills`, and a request between HMSET and SADD holds an ETag that agrees with any other holder of it |
| `NoOrphanEntry` | `QueryCacheProofs` | inductive; an entry leaves "being filled" only through its EXPIRE and SADD, and the script removes the entry with its listing |
| `RowsAreOwn`, `TorrentsOnlyGo` | `QueryCacheProofs` | one lemma per statement on the rows it leaves alone |
| `Refinement` | `QueryCacheProofs` | initial states map to initial states; `Exec` and `LoseDb` map to `Write`, `Store` to `Fill`, whatever removes entries to `Drop`, the rest to stutters |
| `TypeCorrect` | `TokensProofs` | inductive: `RequestOK` ties the step of a request to its call and to what it holds |
| `TokensRefinement` | `TokensProofs` | initial states map to initial states; in `StepShown`, the call of `AccessTokenCreate` maps to `Make` (`CreationShown`), the answer of an authentication to `Grant` (`GrantShown`), the end of a deletion to `Delete` (`DeletionShown`), the rest to stutters. Inductive with `TokenInv` (secrets identify issued tokens, rows are issued, copies and grants are copies of issued tokens, a request between its row and its reply holds the one token its call names) and `Deletion` below, which says that no request is about to grant what is dead |
| `LastingCorrect` | `TokensProofs` | from `TokenInv`: no issued token has a time |
| `ListingCorrect` | `TokensProofs` | inductive with `Fresh` (a secret that is being created is named by no other call, and has no copy before its row) and `Listing`, which names the user of the deletion that may have taken the copy off the list |
| `DeletionCorrect` | `TokensProofs` | inductive invariant `Deletion`: `Apart` (an undisturbed deletion shares no token with a call in progress), `ClearedAt` (what it has removed at each of its steps; `MembersFinds` takes from `Listing` that the list names every copy) and `Buried` (nothing is left of a dead secret, no grant either, and no request is about to store it) |
| `TypeCorrect` | `AuthProofs` | `TypeOK` with "`users` is finite", which the number of the next account needs; `Frame`: if one request goes on and stays well typed, all do |
| `AccountsAreOne`, `AccountsReachable` | `AuthProofs` | inductive with `AccountInv`: ids are at most the number of accounts, stored emails are normalized |
| `IdentitiesCorrect` | `AuthProofs` | inductive with the types: what credentials show they go on showing, since rows are only added |
| `TokensEarned` | `AuthProofs` | from the two invariants: the holder of a new token is the sign-up's own account or the user in the context |
| `TypeCorrect` | `WebSessionProofs` | `TypeOK` with "`opened` is finite"; each value, not each pair of values, is one that an answer brought, which an interleaving of accesses keeps |
| `StorageCorrect` | `WebSessionProofs` | `StorageHasATab` is inductive (`StorageStep`, with a lemma for each way a step touches `localStorage`: `SetStep`, `ClearStep`, `StoreStep`, `LoadStep`); for `WholeIfApart` it takes `Apart`: while no two tabs have met there is one at most in the middle of a task, and what is stored is a mixture of what was there and what that tab writes |
| `PagesCorrect` | `WebSessionProofs` | inductive: whatever changes a session ends on a page that goes with it, sets a timer, or loads the tab |
| `PoolAccounts` | `RedisPoolProofs` | inductive invariant `Rest`: `Owned` (what a caller keeps or has made is its own, and the open sockets are those of the list and the made ones), `Counted` (`len`, the list and the channel differ by the number of callers at certain steps; `CountStep` moves one caller between two sets), `Working` |
| `PoolReplies` | `RedisPoolProofs` | `Replies`: all that a reader's socket still owes is the reader's, as many as it waits for unless the socket is dead and its buffer empty; an open socket that nobody reads owes nothing. `OneSocket` is the frame of a step that touches one socket |
| `Lends` | `RedisPoolProofs` | refinement with `Rest` and `Finished` (a connection is put back after the last reply or an error). Taking a connection from the channel and adding a new one map to `Borrow` (`ReceiveRoom` and `AddRoom`: by `Counted` fewer than `size` are lent, by `Owned` the connection is nobody's), each reply to `Reply`, `Put` to `GiveBack`, the ends of `Remove` to `End`; `QuietSteps` are the stutters |
| `DrainAccounts` | `ShutdownProofs` | inductive invariant `Inv`: `Tracks` (the maps hold the tracked connections that are not closed; main has one at most that is not tracked, the last), `Counted` (a group counts the `Live` connections of its shard, those from their `Count` on), `Drains` (a shard that a drain has marked drains; once a drain has found its group at zero its maps are empty and stay so, `GoneStays`, for `track` closes what comes after; the group itself may rise again), `Ends` (hooks come after a `once` is done). `Effects` sorts the steps by what they do to a connection, `HooksAfter` draws the conclusion |
| `RequestsComplete` | `ShutdownProofs` | from the same invariant, with `Buffers`: what is left in a connection's buffer is known at each of its steps, and no drain is over while a connection lives (`NoneAtExit`) |
| `StartInOrder` | `StartupProofs` | inductive invariant `StartInv`: the property with `StagesDone`, which says by the step of `main` which handles it has and that a try is left |
| `Apart` | `MuxProofs` | inductive invariant with `StackInv` (a stack has one holder: the pool or the request whose `stack` it is) and `ContextInv` (the context of a pooled stack is empty, that of a request is what the layers behind it have made of it) |
| `Through` | `MuxProofs` | from the same invariant, with `CourseInv` (whether a request has been verified, seen and answered, how often, and which path it has, by its step) and `FieldInv` (the field of a stack in use is set, unless another request has unset it: `FieldsStay`, `UsesBegin`) |
| `TableInOrder` | `MuxProofs` | inductive with the types of the table: a new route goes behind every route whose prefix is a prefix of its own or the other way round (`InsertionPoint`), and the rest of the order is left as it is (`InsertKeepsOrder`) |
| `PathsInOrder` | `MuxProofs` | from the same invariant, for every path and not only those of the run: two prefixes of one path are prefixes one of the other (`PrefixesOfOne`) |
| `RouterTable` | `MuxProofs` | a step of the router adds a route as `insert` does or leaves the table alone |
| `Answers` | `MuxProofs` | of the router whose code has the labels of a search (`[]CompilesToSearch` is its premise). Inductive invariant `RouterInv`: while the machine runs, what is known at its instruction starts the path, the cursor is at its end, and the routes behind are tried, or their prefix is none of the path's; `BranchLeads` and `TriesInOrder` take that from one instruction to the next, and at the end all routes are behind |
| `Shared` | `MuxProofs` | refinement with the invariant of `Apart` and `Through`: a step of one request changes nothing of another (`OthersStay`), and each maps to a step of `Alone` or to a stutter (`OuterSteps`, `InnerSteps`, `HandlerSteps`, `StackSteps`); the handler's user is the verified one since its context leads to its own map |
| `SubsetsOfShort` | `QueryCacheProofs` | `subsets` of a list of up to four elements yields each set of them and nothing else: by the bits of the counter, from `Powers` and `HighestBit` |
| `ReachOfWrite` | `QueryCacheProofs` | keys are flat sequences of pieces. That restrictions are reached follows from `SubsetsOfShort`, for any texts; that others are not, from the place of table and owner before all texts; and that plain texts can be read back from a key (`KeyTells`) from where its separators are (`SameCut`, `SpelledApart`) |
| `AllSubsets`, `Restrictions` | `QueryCacheProofs` | from these two; `Considered` is the invariant that says which hints and lists are compared, for any set of texts |

None of the safety invariants is inductive alone: `SchemaKept` needs the
promise that two pending creations do not hold one id, `CachedIsPast` the value
a request carries from the SELECT to the HMSET, `EtagIdentifiesBytes` the ETag
it carries from the HMSET to the reply. `WithinSize` of the pool needs the
number of callers that hold a place before they have a connection, and
`OwnReplies` what is left in the sockets of idle connections. `Accounts` of
`Shutdown` needs that a shard whose group a drain has found at zero keeps empty maps, although
connections may still come to it, and `RequestsApart`
that pooled contexts are empty, which `release` sees to before it puts a stack
back.

What the compiler makes of every table is out of the provers' reach: its functions
are recursive, and an induction over a trie is none they can make. The proof of
the router is divided where that begins. `CompilesToSearch` says what the code has
to be, by labels that can be computed from the code alone and conditions on one
instruction at a time; TLC computes both for the code of every table of the run.
That a machine with such a code answers as a search of the table does, for every
table, path and sequence of additions and requests, is the theorem `Answers`.
`MuxProofs` therefore extends `RouteMachine`, where the compiler is a constant,
and not `Router`, which gives that constant its value in the run.

Only model-checked: `VersionsRetire`, `Settles`, `RefusedTokenGoes`, `Starts`,
`CallsEnd`, `ShutdownEnds` and `Ends` (liveness under fairness is out of the
prover's reach), and `CompilesToSearch`.

## Not modelled, and the plan

In the order of importance:

1. **`TorrentSource`** - which kind of source is taken for which input, and
   what title and hash it yields, as pure operators.
2. Proofs: that `Auth` needs no more of tokens than `TokenStore` promises, as a
   refinement.

Not planned: the web client's store and actions (at this commit no action is
ever dispatched: the folder list is connected to `state.folder`, which has no
`folders`, so `Object.values` throws while it renders, and several imported
actions do not exist), configuration (environment variables read once), build scripts,
rendering components, the Chrome extension (it calls an API object that does
not exist), and the vendored libraries beyond the parts above: the wire protocols
of PostgreSQL, Redis and AMQP, reflection in `sqlx` and `validator`, generated
code. PostgreSQL, Redis, `net/http` and `fmt` are modelled as far as the code
uses them.
