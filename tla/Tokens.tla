------------------------------- MODULE Tokens -------------------------------
(***************************************************************************)
(* Access tokens (accessTokens.go): rows of PostgreSQL, copies of them in  *)
(* Redis, and a Redis list of each user's copies.  No transaction spans    *)
(* the two, and one action is one command to either.                       *)
(*                                                                         *)
(*   AccessTokenCreate:            insert -> copy -> list -> ok            *)
(*   AccessTokenAuthenticateUser:  lookup -> select -> copy -> list -> ok  *)
(*   AccessTokenDelete:            del -> srem -> delRow -> ok             *)
(*   AccessTokenDeleteAll:         members -> delAll -> delRows -> ok      *)
(***************************************************************************)
EXTENDS Integers, FiniteSets

CONSTANTS Users, Secrets,
          Requests,     \* the requests that can be in progress together
          MaxCalls,     \* bound: calls
          MaxFaults     \* bound: lost connections and server crashes

ASSUME BoundsAssumption == MaxCalls \in Nat /\ MaxFaults \in Nat

VARIABLES
  rows,     \* the access_tokens table
  copies,   \* Redis: the token hashes
  listed,   \* Redis: members of the users' token lists, <<user, secret>>
  pc,       \* per request: its next command, or "idle"
  op,       \* per request: the call it serves
  got,      \* per request: the tokens it has made, read or listed
  issued,   \* tokens ever made
  known,    \* secrets clients were given
  granted,  \* what authentications have answered, for tokens that are not dead
  alone,    \* deletions that no other call on the same token has overlapped
  dead,     \* secrets deleted by such a deletion
  cut,      \* secrets whose listing a fault may have broken
  calls, faults

vars == <<rows, copies, listed, pc, op, got, issued, known, granted, alone, dead,
          cut, calls, faults>>

AccessRead      == 1
AccessWrite     == 2
AccessReadWrite == 3

Parse(text) == CASE text = "Read"              -> AccessRead
                 [] text = "Write"             -> AccessWrite
                 [] text \in {"", "ReadWrite"} -> AccessReadWrite

AccessTexts == {"Read", "Write", "ReadWrite", ""}

Never       == "null"
Later       == "time"
maxDuration == "max"

\* Mutant: no test for the longest duration.
ExpiresAlways(duration) == Later

tokenMkExpires(duration) == IF duration = maxDuration THEN Never ELSE Later

Access == {AccessRead, AccessWrite, AccessReadWrite}
Token  == [secret : Secrets, user : Users, access : Access, expires : {Never, Later}]
Copy   == [secret : Secrets, user : Users, access : Access]

\* Mutant: the access is not stored.
CopyWithFullAccess(t) == [secret |-> t.secret, user |-> t.user, access |-> AccessReadWrite]

CopyOf(t) == [secret |-> t.secret, user |-> t.user, access |-> t.access]

\* A call: its kind, and the user and the secret it names, if any.
NoCall == [kind |-> "none", user |-> "", secret |-> ""]

Init ==
  /\ rows = {} /\ copies = {} /\ listed = {}
  /\ pc  = [r \in Requests |-> "idle"]
  /\ op  = [r \in Requests |-> NoCall]
  /\ got = [r \in Requests |-> {}]
  /\ issued = {} /\ known = {} /\ granted = {}
  /\ alone = {} /\ dead = {} /\ cut = {}
  /\ calls = 0 /\ faults = 0

redis   == <<copies, listed>>
history == <<issued, known, granted, alone, dead, cut>>

-----------------------------------------------------------------------------
Busy(r) == pc[r] # "idle"

Goto(r, step) == pc' = [pc EXCEPT ![r] = step]

Reply(r) ==
  /\ Goto(r, "idle")
  /\ op'  = [op  EXCEPT ![r] = NoCall]
  /\ got' = [got EXCEPT ![r] = {}]

SecretsOf(u) == {t.secret : t \in {i \in issued : i.user = u}}

\* The tokens a call works on.
Touches(c) == IF c.kind = "deleteAll" THEN SecretsOf(c.user) ELSE {c.secret}

Overlap(c, d) == \/ Touches(c) \cap Touches(d) # {}
                 \/ {c.kind, d.kind} = {"create", "deleteAll"} /\ c.user = d.user

Others(r, c) == {q \in Requests \ {r} : Busy(q) /\ Overlap(op[q], c)}

\* A call begins.
Begin(r, c, step) ==
  /\ ~Busy(r)
  /\ calls < MaxCalls /\ calls' = calls + 1
  /\ Goto(r, step)
  /\ op' = [op EXCEPT ![r] = c]
  /\ alone' = (alone \ ({r} \cup Others(r, c)))
                \cup (IF Others(r, c) = {} THEN {r} ELSE {})
  /\ UNCHANGED <<rows, redis, known, granted, dead, cut, faults>>

\* tokenGenerateSecret makes a secret that was never used.
BeginCreate(r) ==
  \E u \in Users, s \in Secrets, text \in AccessTexts :
    LET token == [secret |-> s, user |-> u, access |-> Parse(text),
                  expires |-> tokenMkExpires(maxDuration)]
    IN  /\ s \notin {t.secret : t \in issued}
        /\ Begin(r, [kind |-> "create", user |-> u, secret |-> s], "insert")
        /\ got' = [got EXCEPT ![r] = {token}]
        /\ issued' = issued \cup {token}

BeginAuthenticate(r) ==
  /\ \E s \in known :
       Begin(r, [kind |-> "authenticate", user |-> "", secret |-> s], "lookup")
  /\ UNCHANGED <<got, issued>>

BeginDelete(r) ==
  /\ \E s \in known, u \in Users :
       Begin(r, [kind |-> "delete", user |-> u, secret |-> s], "del")
  /\ UNCHANGED <<got, issued>>

BeginDeleteAll(r) ==
  /\ \E u \in Users :
       Begin(r, [kind |-> "deleteAll", user |-> u, secret |-> ""], "members")
  /\ UNCHANGED <<got, issued>>

-----------------------------------------------------------------------------
(* Creation and authentication.                                            *)

\* The end of a creation or an authentication: the client has the secret, or
\* is let in as the token's user.
Accept(r) ==
  /\ Reply(r)
  /\ IF op[r].kind = "create"
     THEN known' = known \cup {op[r].secret} /\ UNCHANGED granted
     ELSE known' = known /\ granted' = granted \cup {CopyOf(t) : t \in got[r]}

\* tokenDbCreate
Insert(r) ==
  /\ pc[r] = "insert"
  /\ rows' = rows \cup got[r]
  /\ Goto(r, "copy")
  /\ UNCHANGED <<redis, op, got, history, calls, faults>>

\* tokenGetFromCache
Lookup(r) ==
  /\ pc[r] = "lookup"
  /\ LET hit == {c \in copies : c.secret = op[r].secret}
     IN  IF hit # {}
         THEN Reply(r) /\ granted' = granted \cup hit
         ELSE Goto(r, "select") /\ UNCHANGED <<op, got, granted>>
  /\ UNCHANGED <<rows, redis, issued, known, alone, dead, cut, calls, faults>>

\* access_token_is_valid; it may be past the time in expires or not.
Valid(t, secret, past) == t.secret = secret /\ (t.expires = Never \/ ~past)

\* tokenGetFromDB
Select(r) ==
  /\ pc[r] = "select"
  /\ \E past \in BOOLEAN :
       LET hit == {t \in rows : Valid(t, op[r].secret, past)}
       IN  IF hit # {}
           THEN Goto(r, "copy") /\ got' = [got EXCEPT ![r] = hit] /\ UNCHANGED op
           ELSE Reply(r)
  /\ UNCHANGED <<rows, redis, history, calls, faults>>

\* HMSET of tokenAddToCache.  The EXPIREAT that follows is for tokens with a time
\* in expires; there are none (TokensLast).
SetCopy(r) ==
  copies' = {c \in copies : c.secret # op[r].secret} \cup {CopyOf(t) : t \in got[r]}

CopyToRedis(r) ==
  /\ pc[r] = "copy"
  /\ SetCopy(r)
  /\ Goto(r, "list")
  /\ UNCHANGED <<rows, listed, op, got, history, calls, faults>>

\* SADD of tokenAddToCache.
\* Mutant: one list for all users.
AddToOneList(r) == listed' = listed \cup {<<"", t.secret>> : t \in got[r]}

AddToList(r) == listed' = listed \cup {<<t.user, t.secret>> : t \in got[r]}

List(r) ==
  /\ pc[r] = "list"
  /\ AddToList(r)
  /\ Accept(r)
  /\ UNCHANGED <<rows, copies, issued, alone, dead, cut, calls, faults>>

-----------------------------------------------------------------------------
(* Deletion.                                                               *)

\* Mutant: the list is deleted and not what it names.
DropList(secrets) == /\ copies' = copies
                     /\ listed' = {l \in listed : l[2] \notin secrets}

\* DEL
DropCopies(secrets) == /\ copies' = {c \in copies : c.secret \notin secrets}
                       /\ UNCHANGED listed

Unlist(r) == listed' = listed \ {<<op[r].user, op[r].secret>>}

Del(r) ==
  /\ pc[r] = "del"
  /\ DropCopies({op[r].secret})
  /\ Goto(r, "srem")
  /\ UNCHANGED <<rows, op, got, history, calls, faults>>

SRem(r) ==
  /\ pc[r] = "srem"
  /\ Unlist(r)
  /\ Goto(r, "delRow")
  /\ UNCHANGED <<rows, copies, op, got, history, calls, faults>>

\* The rows a deletion deletes.
Doomed(c) == {t \in rows : t.user = c.user /\ (c.kind = "delete" => t.secret = c.secret)}

\* tokenDeleteFromDB, tokenDeleteAllFromDB
DelRows(r) ==
  /\ pc[r] \in {"delRow", "delRows"}
  /\ rows' = rows \ Doomed(op[r])
  /\ dead' = dead \cup (IF r \in alone
                        THEN {t.secret : t \in {d \in Doomed(op[r]) :
                                                  op[r].kind = "delete" \/ d.secret \notin cut}}
                        ELSE {})
  /\ granted' = {g \in granted : g.secret \notin dead'}
  /\ Reply(r)
  /\ UNCHANGED <<redis, issued, known, alone, cut, calls, faults>>

\* SMEMBERS
Members(r) ==
  /\ pc[r] = "members"
  /\ got' = [got EXCEPT ![r] = {l[2] : l \in {m \in listed : m[1] = op[r].user}}]
  /\ Goto(r, "delAll")
  /\ UNCHANGED <<rows, redis, op, history, calls, faults>>

\* DEL of what the list names; Redis rejects a DEL without keys.
DelAll(r) ==
  /\ pc[r] = "delAll"
  /\ IF got[r] = {}
     THEN Reply(r) /\ UNCHANGED redis
     ELSE DropCopies(got[r]) /\ Goto(r, "delRows") /\ UNCHANGED <<op, got>>
  /\ UNCHANGED <<rows, history, calls, faults>>

\* Every hour: the rows that are past the time in expires.
tokensDeleteExpired ==
  /\ \E kept \in SUBSET {t \in rows : t.expires # Never} :
       rows' = kept \cup {t \in rows : t.expires = Never}
  /\ UNCHANGED <<redis, pc, op, got, history, calls, faults>>

-----------------------------------------------------------------------------
(* The environment.                                                        *)

Fault == faults < MaxFaults /\ faults' = faults + 1

\* A reply of Redis is lost, before or after the command.  An error of
\* tokenAddToCache is ignored and ends it; any other is the call's error.
LoseRedis(r) ==
  /\ Fault
  /\ \/ /\ pc[r] = "copy"
        /\ SetCopy(r) \/ UNCHANGED copies
        /\ UNCHANGED listed
        /\ Accept(r)
     \/ /\ pc[r] = "list"
        /\ AddToList(r) \/ UNCHANGED listed
        /\ UNCHANGED copies
        /\ Accept(r)
     \/ /\ pc[r] = "del"
        /\ DropCopies({op[r].secret}) \/ UNCHANGED redis
        /\ Reply(r) /\ UNCHANGED <<known, granted>>
     \/ /\ pc[r] = "srem"
        /\ Unlist(r) \/ UNCHANGED listed
        /\ UNCHANGED copies
        /\ Reply(r) /\ UNCHANGED <<known, granted>>
     \/ /\ pc[r] = "delAll"
        /\ DropCopies(got[r]) \/ UNCHANGED redis
        /\ Reply(r) /\ UNCHANGED <<known, granted>>
     \/ /\ pc[r] \in {"lookup", "members"}
        /\ UNCHANGED redis
        /\ Reply(r) /\ UNCHANGED <<known, granted>>
  /\ cut' = cut \cup {op[r].secret}
  /\ UNCHANGED <<rows, issued, alone, dead, calls>>

\* A reply of PostgreSQL is lost, before or after the statement's commit.
LoseDb(r) ==
  /\ Fault
  /\ \/ pc[r] = "insert" /\ rows' = rows \cup got[r]
     \/ pc[r] \in {"delRow", "delRows"} /\ rows' = rows \ Doomed(op[r])
     \/ pc[r] \in {"insert", "select", "delRow", "delRows"} /\ UNCHANGED rows
  /\ Reply(r)
  /\ cut' = cut \cup {op[r].secret}
  /\ UNCHANGED <<redis, issued, known, granted, alone, dead, calls>>

\* The server stops and comes back.
Crash ==
  /\ Fault
  /\ \E r \in Requests : Busy(r)
  /\ pc'  = [r \in Requests |-> "idle"]
  /\ op'  = [r \in Requests |-> NoCall]
  /\ got' = [r \in Requests |-> {}]
  /\ cut' = cut \cup {op[r].secret : r \in {q \in Requests : Busy(q)}}
  /\ UNCHANGED <<rows, redis, issued, known, granted, alone, dead, calls>>

\* make redis-flush
Flush ==
  /\ copies # {} \/ listed # {}
  /\ copies' = {} /\ listed' = {} /\ cut' = {}
  /\ UNCHANGED <<rows, pc, op, got, issued, known, granted, alone, dead, calls, faults>>

Next ==
  \/ \E r \in Requests :
       \/ BeginCreate(r) \/ BeginAuthenticate(r) \/ BeginDelete(r) \/ BeginDeleteAll(r)
       \/ Insert(r) \/ Lookup(r) \/ Select(r) \/ CopyToRedis(r) \/ List(r)
       \/ Del(r) \/ SRem(r) \/ DelRows(r) \/ Members(r) \/ DelAll(r)
       \/ LoseRedis(r) \/ LoseDb(r)
  \/ tokensDeleteExpired \/ Crash \/ Flush

Spec == Init /\ [][Next]_vars

-----------------------------------------------------------------------------
(* Properties.                                                             *)

Kinds == {"none", "create", "authenticate", "delete", "deleteAll"}
Steps == {"idle", "insert", "lookup", "select", "copy", "list", "del", "srem", "delRow",
          "members", "delAll", "delRows"}

Call == [kind : Kinds, user : Users \cup {""}, secret : Secrets \cup {""}]

\* The step of a request, its call and what it holds go together.
RequestOK(step, call, tokens) ==
  /\ step \in Steps /\ call \in Call
  /\ call.kind \in {"create", "authenticate", "delete"} => call.secret \in Secrets
  /\ call.kind \in {"create", "deleteAll"} => call.user \in Users
  /\ step = "insert"                            => call.kind = "create"
  /\ step \in {"copy", "list"}                  => call.kind \in {"create", "authenticate"}
  /\ step \in {"lookup", "select"}              => call.kind = "authenticate"
  /\ step \in {"del", "srem", "delRow"}         => call.kind = "delete"
  /\ step \in {"members", "delAll", "delRows"}  => call.kind = "deleteAll"
  /\ step \in {"insert", "copy", "list"}        => tokens \subseteq Token
  /\ step = "delAll"                            => tokens \subseteq Secrets

\* The types of the variables, and where a request is with what it holds.
TypeOK ==
  /\ rows \subseteq Token /\ issued \subseteq Token
  /\ copies \subseteq Copy /\ granted \subseteq Copy
  /\ listed \subseteq Users \X Secrets
  /\ known \subseteq Secrets /\ dead \subseteq Secrets
  /\ alone \subseteq Requests
  /\ DOMAIN pc = Requests /\ DOMAIN op = Requests /\ DOMAIN got = Requests
  /\ \A r \in Requests : RequestOK(pc[r], op[r], got[r])

\* Whatever the order of creations, deletions, faults and cache fills, a client
\* is let in as the user and with the access the token was created with, and
\* not after a deletion of the token that met no other call: the module Auth
\* needs no more of tokens than this.
Store == INSTANCE TokenStore WITH
           tokens  <- {[secret |-> t.secret, user |-> t.user, access |-> t.access] : t \in issued},
           deleted <- dead,
           grants  <- granted

ImplementsTokenStore == Store!Spec

At(s, steps) == \E r \in Requests : pc[r] \in steps /\ op[r].secret = s

\* A copy whose row exists is in the list by which AccessTokenDeleteAll finds it,
\* unless its SADD or its DELETE is still to come, or a fault broke it off.  The
\* SREM of a deletion may come after the SADD of an authentication it races.
CopiesListed ==
  \A t \in rows :
    (\E c \in copies : c.secret = t.secret) /\ t.secret \notin cut =>
      <<t.user, t.secret>> \in listed \/ At(t.secret, {"list", "delRow"})

\* The two stores and the list agree: the types, and each copy listed.
StoresAgree == TypeOK /\ CopiesListed

\* A token deleted while no other call worked on it is gone from both stores and
\* is never let in again, for all the copies there were of it.
DeletedStayDeleted ==
  \A s \in dead : \A t \in rows \cup copies \cup granted : t.secret # s

\* A token lasts: rows go only by the deletions a user asks for.  The hourly
\* deletion of expired tokens finds none, as all are made with maxDuration.
TokensLast ==
  [][\A t \in rows \ rows' :
       \E r \in Requests : pc[r] \in {"delRow", "delRows"} /\ op[r].user = t.user]_vars
=============================================================================
