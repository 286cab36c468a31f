---------------------------- MODULE TokensProofs ----------------------------
(***************************************************************************)
(* The safety properties of Tokens, for any number of users, secrets,      *)
(* requests, calls and faults.                                             *)
(***************************************************************************)
EXTENDS Tokens, TLAPS

\* CASE is not for the SMT translation: what a text parses to.
LEMMA ParseType == \A text \in AccessTexts : Parse(text) \in Access
<1>1. Parse("Read") = AccessRead
  BY DEF Parse
<1>2. Parse("Write") = AccessWrite
  BY DEF Parse
<1>3. Parse("ReadWrite") = AccessReadWrite
  BY DEF Parse
<1>4. Parse("") = AccessReadWrite
  BY DEF Parse
<1>5. QED
  BY <1>1, <1>2, <1>3, <1>4 DEF AccessTexts, Access

LEMMA CopyType == \A t \in Token : CopyOf(t) \in Copy
<1> TAKE t \in Token
<1>1. t.secret \in Secrets /\ t.user \in Users /\ t.access \in Access
  BY DEF Token
<1>2. QED
  BY <1>1 DEF Copy, CopyOf

LEMMA IdleType == RequestOK("idle", NoCall, {})
<1>1. NoCall \in Call
  BY DEF NoCall, Call, Kinds
<1>2. QED
  BY <1>1 DEF RequestOK, NoCall, Steps

LEMMA InitType == Init => TypeOK
BY IdleType DEF Init, TypeOK

\* Request r changes and no other does.
Moves(r) == /\ DOMAIN pc' = Requests /\ DOMAIN op' = Requests /\ DOMAIN got' = Requests
            /\ \A q \in Requests \ {r} : pc'[q] = pc[q] /\ op'[q] = op[q] /\ got'[q] = got[q]

DataOK == /\ rows \subseteq Token /\ issued \subseteq Token
          /\ copies \subseteq Copy /\ granted \subseteq Copy
          /\ listed \subseteq Users \X Secrets
          /\ known \subseteq Secrets /\ dead \subseteq Secrets
          /\ alone \subseteq Requests

LEMMA MoveType ==
  ASSUME TypeOK, NEW r \in Requests, Moves(r), DataOK', RequestOK(pc'[r], op'[r], got'[r])
  PROVE  TypeOK'
BY DEF TypeOK, DataOK, Moves

LEMMA ReplyMoves ==
  ASSUME TypeOK, NEW r \in Requests, Reply(r)
  PROVE  Moves(r) /\ RequestOK(pc'[r], op'[r], got'[r])
BY DEF TypeOK, Reply, Goto, Moves, RequestOK, NoCall, Call, Steps, Kinds

LEMMA GotoMoves ==
  ASSUME TypeOK, NEW r \in Requests, NEW step, Goto(r, step), UNCHANGED op,
         NEW held, got' = [got EXCEPT ![r] = held] \/ (UNCHANGED got /\ held = got[r]),
         RequestOK(step, op[r], held)
  PROVE  Moves(r) /\ RequestOK(pc'[r], op'[r], got'[r])
BY DEF TypeOK, Goto, Moves

\* What the beginning of a call keeps.
LEMMA BeginType ==
  ASSUME TypeOK, NEW r \in Requests, NEW c, NEW step, Begin(r, c, step),
         NEW held, got' = [got EXCEPT ![r] = held] \/ (UNCHANGED got /\ held = got[r]),
         RequestOK(step, c, held), issued' \subseteq Token
  PROVE  TypeOK'
<1>1. Moves(r) /\ RequestOK(pc'[r], op'[r], got'[r])
  BY DEF TypeOK, Begin, Goto, Moves
<1>2. DataOK'
  BY DEF TypeOK, Begin, redis, DataOK, Others
<1>3. QED
  BY <1>1, <1>2, MoveType

LEMMA BeginsType ==
  ASSUME TypeOK, NEW r \in Requests,
         BeginCreate(r) \/ BeginAuthenticate(r) \/ BeginDelete(r) \/ BeginDeleteAll(r)
  PROVE  TypeOK'
<1>1. CASE BeginCreate(r)
  <2>1. PICK u \in Users, s \in Secrets, text \in AccessTexts :
          LET token == [secret |-> s, user |-> u, access |-> Parse(text),
                        expires |-> tokenMkExpires(maxDuration)]
          IN  /\ Begin(r, [kind |-> "create", user |-> u, secret |-> s], "insert")
              /\ got' = [got EXCEPT ![r] = {token}]
              /\ issued' = issued \cup {token}
    BY <1>1 DEF BeginCreate
  <2> DEFINE token == [secret |-> s, user |-> u, access |-> Parse(text),
                       expires |-> tokenMkExpires(maxDuration)]
  <2>2. token \in Token
    BY ParseType DEF Token, tokenMkExpires, maxDuration
  <2>3. issued' \subseteq Token
    BY <2>1, <2>2 DEF TypeOK
  <2> HIDE DEF token
  <2>4. RequestOK("insert", [kind |-> "create", user |-> u, secret |-> s], {token})
    BY <2>2 DEF RequestOK, Call, Steps, Kinds
  <2>5. QED
    BY <2>1, <2>3, <2>4, BeginType DEF token
<1>2. CASE BeginAuthenticate(r)
  <2>1. PICK s \in known :
          Begin(r, [kind |-> "authenticate", user |-> "", secret |-> s], "lookup")
    BY <1>2 DEF BeginAuthenticate
  <2>2. RequestOK("lookup", [kind |-> "authenticate", user |-> "", secret |-> s], got[r])
    BY DEF TypeOK, RequestOK, Call, Steps, Kinds
  <2>3. QED
    BY <1>2, <2>1, <2>2, BeginType DEF BeginAuthenticate, TypeOK
<1>3. CASE BeginDelete(r)
  <2>1. PICK s \in known, u \in Users :
          Begin(r, [kind |-> "delete", user |-> u, secret |-> s], "del")
    BY <1>3 DEF BeginDelete
  <2>2. RequestOK("del", [kind |-> "delete", user |-> u, secret |-> s], got[r])
    BY DEF TypeOK, RequestOK, Call, Steps, Kinds
  <2>3. QED
    BY <1>3, <2>1, <2>2, BeginType DEF BeginDelete, TypeOK
<1>4. CASE BeginDeleteAll(r)
  <2>1. PICK u \in Users :
          Begin(r, [kind |-> "deleteAll", user |-> u, secret |-> ""], "members")
    BY <1>4 DEF BeginDeleteAll
  <2>2. RequestOK("members", [kind |-> "deleteAll", user |-> u, secret |-> ""], got[r])
    BY DEF TypeOK, RequestOK, Call, Steps, Kinds
  <2>3. QED
    BY <1>4, <2>1, <2>2, BeginType DEF BeginDeleteAll, TypeOK
<1>5. QED
  BY <1>1, <1>2, <1>3, <1>4

LEMMA FillType ==
  ASSUME TypeOK, NEW r \in Requests,
         Insert(r) \/ Lookup(r) \/ Select(r) \/ CopyToRedis(r) \/ List(r)
  PROVE  TypeOK'
<1> USE DEF history, redis
<1>1. CASE Insert(r)
  <2>1. RequestOK("copy", op[r], got[r]) /\ got[r] \subseteq Token
    BY <1>1 DEF TypeOK, RequestOK, Insert, Steps
  <2>2. QED
    BY <1>1, <2>1, GotoMoves, MoveType DEF TypeOK, DataOK, Insert
<1>2. CASE Lookup(r)
  <2>1. RequestOK("select", op[r], got[r])
    BY <1>2 DEF TypeOK, RequestOK, Lookup, Steps
  <2>2. Moves(r) /\ RequestOK(pc'[r], op'[r], got'[r])
    BY <1>2, <2>1, ReplyMoves, GotoMoves DEF Lookup
  <2>3. QED
    BY <1>2, <2>2, MoveType DEF TypeOK, DataOK, Lookup
<1>3. CASE Select(r)
  <2>1. \A past \in BOOLEAN :
          RequestOK("copy", op[r], {t \in rows : Valid(t, op[r].secret, past)})
    BY <1>3 DEF TypeOK, RequestOK, Select, Steps
  <2>2. Moves(r) /\ RequestOK(pc'[r], op'[r], got'[r])
    BY <1>3, <2>1, ReplyMoves, GotoMoves DEF Select
  <2>3. QED
    BY <1>3, <2>2, MoveType DEF TypeOK, DataOK, Select
<1>4. CASE CopyToRedis(r)
  <2>1. RequestOK("list", op[r], got[r]) /\ got[r] \subseteq Token
    BY <1>4 DEF TypeOK, RequestOK, CopyToRedis, Steps
  <2>2. copies' \subseteq Copy
    BY <1>4, <2>1, CopyType DEF CopyToRedis, SetCopy, TypeOK
  <2>3. QED
    BY <1>4, <2>1, <2>2, GotoMoves, MoveType DEF TypeOK, DataOK, CopyToRedis
<1>5. CASE List(r)
  <2>1. got[r] \subseteq Token /\ (op[r].kind = "create" => op[r].secret \in Secrets)
    BY <1>5 DEF TypeOK, RequestOK, List
  <2>2. Moves(r) /\ RequestOK(pc'[r], op'[r], got'[r])
    BY <1>5, ReplyMoves DEF List, Accept
  <2>3. DataOK'
    BY <1>5, <2>1, CopyType DEF TypeOK, DataOK, List, Accept, AddToList, Token
  <2>4. QED
    BY <2>2, <2>3, MoveType
<1>6. QED
  BY <1>1, <1>2, <1>3, <1>4, <1>5

LEMMA DeleteType ==
  ASSUME TypeOK, NEW r \in Requests,
         Del(r) \/ SRem(r) \/ DelRows(r) \/ Members(r) \/ DelAll(r)
  PROVE  TypeOK'
<1> USE DEF history, redis
<1>1. CASE Del(r)
  <2>1. RequestOK("srem", op[r], got[r])
    BY <1>1 DEF TypeOK, RequestOK, Del, Steps
  <2>2. QED
    BY <1>1, <2>1, GotoMoves, MoveType DEF TypeOK, DataOK, Del, DropCopies
<1>2. CASE SRem(r)
  <2>1. RequestOK("delRow", op[r], got[r])
    BY <1>2 DEF TypeOK, RequestOK, SRem, Steps
  <2>2. QED
    BY <1>2, <2>1, GotoMoves, MoveType DEF TypeOK, DataOK, SRem, Unlist
<1>3. CASE DelRows(r)
  BY <1>3, ReplyMoves, MoveType DEF TypeOK, DataOK, DelRows, Doomed, Token
<1>4. CASE Members(r)
  <2>1. {l[2] : l \in {m \in listed : m[1] = op[r].user}} \subseteq Secrets
    BY DEF TypeOK
  <2>2. RequestOK("delAll", op[r], {l[2] : l \in {m \in listed : m[1] = op[r].user}})
    BY <1>4, <2>1 DEF TypeOK, RequestOK, Members, Steps
  <2>3. QED
    BY <1>4, <2>2, GotoMoves, MoveType DEF TypeOK, DataOK, Members
<1>5. CASE DelAll(r)
  <2>1. RequestOK("delRows", op[r], got[r])
    BY <1>5 DEF TypeOK, RequestOK, DelAll, Steps
  <2>2. Moves(r) /\ RequestOK(pc'[r], op'[r], got'[r])
    BY <1>5, <2>1, ReplyMoves, GotoMoves DEF DelAll
  <2>3. QED
    BY <1>5, <2>2, MoveType DEF TypeOK, DataOK, DelAll, DropCopies
<1>6. QED
  BY <1>1, <1>2, <1>3, <1>4, <1>5

LEMMA LossType ==
  ASSUME TypeOK, NEW r \in Requests, LoseRedis(r) \/ LoseDb(r)
  PROVE  TypeOK'
<1>1. Reply(r)
  BY DEF LoseRedis, LoseDb, Accept
<1>2. CASE LoseRedis(r)
  <2>1. pc[r] \in {"copy", "list"} =>
          got[r] \subseteq Token /\ (op[r].kind = "create" => op[r].secret \in Secrets)
    BY DEF TypeOK, RequestOK
  <2>2. pc[r] = "copy" \/ UNCHANGED copies \/ copies' \subseteq copies
    BY <1>2 DEF LoseRedis, DropCopies, redis
  <2>3. copies' \subseteq Copy
    BY <1>2, <2>1, <2>2, CopyType DEF LoseRedis, SetCopy, TypeOK, redis, DropCopies
  <2>4. listed' \subseteq Users \X Secrets
    BY <1>2, <2>1 DEF LoseRedis, AddToList, Unlist, DropCopies, TypeOK, Token, redis
  <2>5. known' \subseteq Secrets /\ granted' \subseteq Copy
    BY <1>2, <2>1, CopyType DEF LoseRedis, Accept, TypeOK
  <2>6. QED
    BY <1>1, <1>2, <2>3, <2>4, <2>5, ReplyMoves, MoveType DEF LoseRedis, TypeOK, DataOK
<1>3. CASE LoseDb(r)
  <2>1. pc[r] = "insert" => got[r] \subseteq Token
    BY DEF TypeOK, RequestOK
  <2>2. QED
    BY <1>1, <1>3, <2>1, ReplyMoves, MoveType DEF LoseDb, TypeOK, DataOK, Doomed, redis
<1>4. QED
  BY <1>2, <1>3

LEMMA NextType == TypeOK /\ [Next]_vars => TypeOK'
<1> SUFFICES ASSUME TypeOK, [Next]_vars PROVE TypeOK'
  OBVIOUS
<1>1. CASE tokensDeleteExpired
  BY <1>1 DEF TypeOK, tokensDeleteExpired, redis, history
<1>2. CASE Crash
  BY <1>2 DEF TypeOK, Crash, redis, NoCall, RequestOK, Call, Steps, Kinds
<1>3. CASE Flush
  BY <1>3 DEF TypeOK, Flush
<1>4. CASE UNCHANGED vars
  BY <1>4 DEF TypeOK, vars, redis, history
<1>5. QED
  BY <1>1, <1>2, <1>3, <1>4, BeginsType, FillType, DeleteType, LossType DEF Next

\* Every reachable state is well typed.
THEOREM TypeCorrect == Spec => []TypeOK
BY InitType, NextType, PTL DEF Spec

-----------------------------------------------------------------------------
(* Tokens and what is made of them.                                        *)

IssuedSecrets == {t.secret : t \in issued}

\* What r holds is the one token of its call.
Holding(r) == \E t \in issued : /\ got[r] = {t}
                                /\ t.secret = op[r].secret
                                /\ op[r].kind = "create" => t.user = op[r].user

TokenInv ==
  /\ \A t, u \in issued : t.secret = u.secret => t = u
  /\ \A t \in issued : t.expires = Never
  /\ rows \subseteq issued
  /\ \A c \in copies \cup granted : \E t \in issued : c = CopyOf(t)
  /\ known \subseteq IssuedSecrets /\ dead \subseteq IssuedSecrets
  /\ \A r \in Requests :
       /\ pc[r] \in {"insert", "copy", "list"} => Holding(r)
       /\ op[r].kind \in {"create", "authenticate", "delete"} => op[r].secret \in IssuedSecrets

LEMMA InitToken == Init => TokenInv
<1> SUFFICES ASSUME Init PROVE TokenInv
  OBVIOUS
<1>1. \A r \in Requests : pc[r] = "idle" /\ op[r].kind = "none"
  BY DEF Init, NoCall
<1>2. issued = {} /\ rows = {} /\ copies = {} /\ granted = {} /\ known = {} /\ dead = {}
  BY DEF Init
<1>3. QED
  BY <1>1, <1>2 DEF TokenInv

\* A request that ends does not disturb what the others hold.
LEMMA HeldKept ==
  ASSUME TypeOK, TokenInv, NEW r \in Requests, Moves(r), UNCHANGED issued,
         pc'[r] \in {"insert", "copy", "list"} => Holding(r)',
         op'[r] = op[r] \/ op'[r] = NoCall
  PROVE  \A q \in Requests :
           /\ pc'[q] \in {"insert", "copy", "list"} => Holding(q)'
           /\ op'[q].kind \in {"create", "authenticate", "delete"} =>
                op'[q].secret \in IssuedSecrets'
<1> TAKE q \in Requests
<1>1. CASE q = r
  <2>1. pc'[q] \in {"insert", "copy", "list"} => Holding(q)'
    BY <1>1 DEF Holding
  <2>2. op'[q].kind \in {"create", "authenticate", "delete"} => op'[q] = op[q]
    <3>1. NoCall.kind = "none"
      BY DEF NoCall
    <3>2. QED
      BY <1>1, <3>1
  <2>3. QED
    BY <1>1, <2>1, <2>2 DEF TokenInv, IssuedSecrets
<1>2. CASE q # r
  BY <1>2 DEF TokenInv, IssuedSecrets, Moves, Holding
<1>3. QED
  BY <1>1, <1>2

LEMMA BeginToken ==
  ASSUME TypeOK, TokenInv, NEW r \in Requests,
         BeginCreate(r) \/ BeginAuthenticate(r) \/ BeginDelete(r) \/ BeginDeleteAll(r)
  PROVE  TokenInv'
<1>1. UNCHANGED <<rows, copies, granted, known, dead>>
  BY DEF BeginCreate, BeginAuthenticate, BeginDelete, BeginDeleteAll, Begin, redis
<1>2. CASE BeginCreate(r)
  <2>1. PICK u \in Users, s \in Secrets, text \in AccessTexts :
          LET token == [secret |-> s, user |-> u, access |-> Parse(text),
                        expires |-> tokenMkExpires(maxDuration)]
          IN  /\ s \notin {t.secret : t \in issued}
              /\ Begin(r, [kind |-> "create", user |-> u, secret |-> s], "insert")
              /\ got' = [got EXCEPT ![r] = {token}]
              /\ issued' = issued \cup {token}
    BY <1>2 DEF BeginCreate
  <2> DEFINE token == [secret |-> s, user |-> u, access |-> Parse(text),
                       expires |-> tokenMkExpires(maxDuration)]
  <2>2. token.secret = s /\ token.user = u /\ token.expires = Never
    BY DEF tokenMkExpires, maxDuration
  <2>3. issued' = issued \cup {token} /\ got' = [got EXCEPT ![r] = {token}]
    BY <2>1
  <2> HIDE DEF token
  <2>4. /\ op' = [op EXCEPT ![r] = [kind |-> "create", user |-> u, secret |-> s]]
        /\ pc' = [pc EXCEPT ![r] = "insert"]
    BY <2>1 DEF Begin, Goto
  <2>5. IssuedSecrets' = IssuedSecrets \cup {s}
    BY <2>2, <2>3 DEF IssuedSecrets
  <2>6. \A q \in Requests :
           /\ pc'[q] \in {"insert", "copy", "list"} => Holding(q)'
           /\ op'[q].kind \in {"create", "authenticate", "delete"} =>
                op'[q].secret \in IssuedSecrets'
    BY <2>2, <2>3, <2>4, <2>5 DEF TokenInv, TypeOK, Holding
  <2>7. \A t, v \in issued' : t.secret = v.secret => t = v
    BY <2>1, <2>2, <2>3 DEF TokenInv
  <2>8. QED
    BY <1>1, <2>2, <2>3, <2>5, <2>6, <2>7 DEF TokenInv
<1>3. CASE BeginAuthenticate(r) \/ BeginDelete(r) \/ BeginDeleteAll(r)
  <2>1. UNCHANGED <<issued, got>> /\ IssuedSecrets' = IssuedSecrets
    BY <1>3 DEF BeginAuthenticate, BeginDelete, BeginDeleteAll, IssuedSecrets
  <2>2. /\ \A q \in Requests \ {r} : pc'[q] = pc[q] /\ op'[q] = op[q]
        /\ pc'[r] \notin {"insert", "copy", "list"}
        /\ op'[r].kind = "deleteAll" \/ op'[r].secret \in known
    <3>1. CASE BeginAuthenticate(r)
      <4>1. PICK s \in known :
              Begin(r, [kind |-> "authenticate", user |-> "", secret |-> s], "lookup")
        BY <3>1 DEF BeginAuthenticate
      <4>2. QED
        BY <4>1 DEF Begin, Goto, TypeOK
    <3>2. CASE BeginDelete(r)
      <4>1. PICK s \in known, u \in Users :
              Begin(r, [kind |-> "delete", user |-> u, secret |-> s], "del")
        BY <3>2 DEF BeginDelete
      <4>2. QED
        BY <4>1 DEF Begin, Goto, TypeOK
    <3>3. CASE BeginDeleteAll(r)
      <4>1. PICK u \in Users :
              Begin(r, [kind |-> "deleteAll", user |-> u, secret |-> ""], "members")
        BY <3>3 DEF BeginDeleteAll
      <4>2. QED
        BY <4>1 DEF Begin, Goto, TypeOK
    <3>4. QED
      BY <1>3, <3>1, <3>2, <3>3
  <2>3. \A q \in Requests :
           /\ pc'[q] \in {"insert", "copy", "list"} => Holding(q)'
           /\ op'[q].kind \in {"create", "authenticate", "delete"} =>
                op'[q].secret \in IssuedSecrets'
    BY <2>1, <2>2 DEF TokenInv, Holding
  <2>4. QED
    BY <1>1, <2>1, <2>3 DEF TokenInv
<1>4. QED
  BY <1>2, <1>3

LEMMA FillToken ==
  ASSUME TypeOK, TokenInv, NEW r \in Requests,
         Insert(r) \/ Lookup(r) \/ Select(r) \/ CopyToRedis(r) \/ List(r)
  PROVE  TokenInv'
<1> USE DEF history, redis
<1>1. UNCHANGED <<issued, dead>> /\ IssuedSecrets' = IssuedSecrets
  BY DEF Insert, Lookup, Select, CopyToRedis, List, IssuedSecrets
<1>2. Moves(r)
  BY DEF Insert, Lookup, Select, CopyToRedis, List, Moves, Goto, Reply, Accept, TypeOK
<1>3. pc[r] \in {"insert", "copy", "list"} => got[r] \subseteq issued /\ Holding(r)
  BY DEF TokenInv, Holding
<1>4. CASE Insert(r) \/ CopyToRedis(r)
  <2>1. UNCHANGED <<op, got, known, granted>> /\ Holding(r)' /\ op'[r] = op[r]
    BY <1>1, <1>3, <1>4 DEF Insert, CopyToRedis, Holding
  <2>2. rows' \subseteq issued /\ \A c \in copies' : \E t \in issued : c = CopyOf(t)
    BY <1>3, <1>4 DEF Insert, CopyToRedis, SetCopy, TokenInv
  <2>3. QED
    BY <1>1, <1>2, <2>1, <2>2, HeldKept DEF TokenInv
<1>5. CASE Lookup(r)
  <2>1. /\ UNCHANGED <<rows, copies, known>> /\ granted' \subseteq granted \cup copies
        /\ pc'[r] \in {"idle", "select"} /\ (op'[r] = op[r] \/ op'[r] = NoCall)
    BY <1>5 DEF Lookup, Reply, Goto, TypeOK
  <2>2. QED
    BY <1>1, <1>2, <2>1, HeldKept DEF TokenInv
<1>6. CASE Select(r)
  <2>1. UNCHANGED <<rows, copies, known, granted>>
    BY <1>6 DEF Select
  <2>2. PICK past \in BOOLEAN :
          LET hit == {t \in rows : Valid(t, op[r].secret, past)}
          IN  IF hit # {}
              THEN Goto(r, "copy") /\ got' = [got EXCEPT ![r] = hit] /\ UNCHANGED op
              ELSE Reply(r)
    BY <1>6 DEF Select
  <2> DEFINE hit == {t \in rows : Valid(t, op[r].secret, past)}
  <2>3. CASE hit # {}
    <3>1. PICK t \in rows : t \in hit
      BY <2>3
    <3>2. hit = {t} /\ t \in issued /\ t.secret = op[r].secret
      BY <3>1 DEF Valid, TokenInv
    <3>3. op[r].kind # "create"
      BY <1>6 DEF Select, TypeOK, RequestOK
    <3>4. got'[r] = {t} /\ UNCHANGED op
      BY <2>2, <2>3, <3>2 DEF TypeOK
    <3>5. Holding(r)'
      BY <1>1, <3>2, <3>3, <3>4 DEF Holding
    <3>6. QED
      BY <1>1, <1>2, <2>1, <3>4, <3>5, HeldKept DEF TokenInv
  <2>4. CASE hit = {}
    <3>1. pc'[r] = "idle" /\ op'[r] = NoCall
      BY <2>2, <2>4 DEF Reply, Goto, TypeOK
    <3>2. QED
      BY <1>1, <1>2, <2>1, <3>1, HeldKept DEF TokenInv
  <2>5. QED
    BY <2>3, <2>4
<1>7. CASE List(r)
  <2>1. UNCHANGED <<rows, copies>> /\ pc'[r] = "idle" /\ op'[r] = NoCall
    BY <1>7 DEF List, Accept, Reply, Goto, TypeOK
  <2>2. known' \subseteq IssuedSecrets /\ \A c \in granted' : \E t \in issued : c = CopyOf(t)
    BY <1>3, <1>7 DEF List, Accept, TokenInv
  <2>3. QED
    BY <1>1, <1>2, <2>1, <2>2, HeldKept DEF TokenInv
<1>8. QED
  BY <1>4, <1>5, <1>6, <1>7

LEMMA DeleteToken ==
  ASSUME TypeOK, TokenInv, NEW r \in Requests,
         Del(r) \/ SRem(r) \/ DelRows(r) \/ Members(r) \/ DelAll(r)
  PROVE  TokenInv'
<1> USE DEF history, redis
<1>1. UNCHANGED <<issued, known>> /\ IssuedSecrets' = IssuedSecrets /\ granted' \subseteq granted
  BY DEF Del, SRem, DelRows, Members, DelAll, IssuedSecrets
<1>2. Moves(r)
  BY DEF Del, SRem, DelRows, Members, DelAll, Moves, Goto, Reply, TypeOK
<1>3. /\ pc'[r] \in {"idle", "srem", "delRow", "delAll", "delRows"}
      /\ op'[r] = op[r] \/ op'[r] = NoCall
  BY DEF Del, SRem, DelRows, Members, DelAll, Goto, Reply, TypeOK
<1>4. rows' \subseteq rows /\ copies' \subseteq copies
  BY DEF Del, SRem, DelRows, Members, DelAll, DropCopies
<1>5. dead' \subseteq dead \cup {t.secret : t \in rows}
  BY DEF Del, SRem, DelRows, Members, DelAll, Doomed
<1>6. dead' \subseteq IssuedSecrets
  BY <1>5 DEF TokenInv, IssuedSecrets
<1>7. QED
  BY <1>1, <1>2, <1>3, <1>4, <1>6, HeldKept DEF TokenInv

LEMMA LossToken ==
  ASSUME TypeOK, TokenInv, NEW r \in Requests, LoseRedis(r) \/ LoseDb(r)
  PROVE  TokenInv'
<1>1. Reply(r) /\ UNCHANGED <<issued, dead>> /\ IssuedSecrets' = IssuedSecrets
  BY DEF LoseRedis, LoseDb, Accept, IssuedSecrets
<1>2. Moves(r) /\ pc'[r] = "idle" /\ op'[r] = NoCall
  BY <1>1 DEF Reply, Goto, TypeOK, Moves
<1>3. pc[r] \in {"insert", "copy", "list"} => got[r] \subseteq issued
  BY DEF TokenInv, Holding
<1>4. \A c \in copies' : \E t \in issued : c = CopyOf(t)
  <2>1. CASE pc[r] = "copy"
    BY <1>3, <2>1 DEF LoseRedis, LoseDb, SetCopy, TokenInv, redis
  <2>2. CASE pc[r] # "copy"
    <3>1. copies' \subseteq copies
      BY <2>2 DEF LoseRedis, LoseDb, DropCopies, redis
    <3>2. QED
      BY <3>1 DEF TokenInv
  <2>3. QED
    BY <2>1, <2>2
<1>5. rows' \subseteq issued
  BY <1>3 DEF LoseRedis, LoseDb, TokenInv
<1>6. known' \subseteq IssuedSecrets /\ \A c \in granted' : \E t \in issued : c = CopyOf(t)
  BY <1>3 DEF LoseRedis, LoseDb, Accept, TokenInv
<1>7. QED
  BY <1>1, <1>2, <1>4, <1>5, <1>6, HeldKept DEF TokenInv

LEMMA NextToken == TypeOK /\ TokenInv /\ [Next]_vars => TokenInv'
<1> SUFFICES ASSUME TypeOK, TokenInv, [Next]_vars PROVE TokenInv'
  OBVIOUS
<1>1. CASE tokensDeleteExpired
  <2>1. rows' \subseteq rows
    BY <1>1 DEF tokensDeleteExpired
  <2>2. QED
    BY <1>1, <2>1 DEF tokensDeleteExpired, TokenInv, redis, history, IssuedSecrets, Holding
<1>2. CASE Crash
  BY <1>2 DEF TokenInv, Crash, redis, NoCall, IssuedSecrets
<1>3. CASE Flush
  BY <1>3 DEF TokenInv, Flush, IssuedSecrets, Holding
<1>4. CASE UNCHANGED vars
  BY <1>4 DEF TokenInv, vars, redis, history, IssuedSecrets, Holding
<1>5. QED
  BY <1>1, <1>2, <1>3, <1>4, BeginToken, FillToken, DeleteToken, LossToken DEF Next

-----------------------------------------------------------------------------
(* What deletes a token.                                                   *)

LEMMA LastStep ==
  ASSUME TokenInv, [Next]_vars
  PROVE  \A t \in rows \ rows' :
           \E r \in Requests : pc[r] \in {"delRow", "delRows"} /\ op[r].user = t.user
<1> USE DEF redis, history
<1>1. CASE tokensDeleteExpired
  <2>1. \A t \in rows : t.expires = Never
    BY DEF TokenInv
  <2>2. rows \subseteq rows'
    BY <1>1, <2>1 DEF tokensDeleteExpired
  <2>3. QED
    BY <2>2
<1>2. ASSUME NEW r \in Requests, DelRows(r)
      PROVE  \A t \in rows \ rows' :
               \E q \in Requests : pc[q] \in {"delRow", "delRows"} /\ op[q].user = t.user
  BY <1>2 DEF DelRows, Doomed
<1>3. ASSUME NEW r \in Requests, LoseDb(r)
      PROVE  \A t \in rows \ rows' :
               \E q \in Requests : pc[q] \in {"delRow", "delRows"} /\ op[q].user = t.user
  BY <1>3 DEF LoseDb, Doomed
<1>4. ASSUME NEW r \in Requests,
             \/ BeginCreate(r) \/ BeginAuthenticate(r) \/ BeginDelete(r) \/ BeginDeleteAll(r)
             \/ Insert(r) \/ Lookup(r) \/ Select(r) \/ CopyToRedis(r) \/ List(r)
             \/ Del(r) \/ SRem(r) \/ Members(r) \/ DelAll(r) \/ LoseRedis(r)
      PROVE  rows \subseteq rows'
  BY <1>4 DEF BeginCreate, BeginAuthenticate, BeginDelete, BeginDeleteAll, Begin, Insert,
              Lookup, Select, CopyToRedis, List, Del, SRem, Members, DelAll, LoseRedis
<1>5. CASE Crash \/ Flush \/ UNCHANGED vars
  BY <1>5 DEF Crash, Flush, vars
<1>6. QED
  BY <1>1, <1>2, <1>3, <1>4, <1>5 DEF Next

\* A row leaves the table only by a deletion that its user asked for: no token is
\* ever made with a time after which the hourly deletion would take it.
THEOREM LastingCorrect == Spec => TokensLast
<1>1. TokenInv /\ [Next]_vars =>
        [\A t \in rows \ rows' :
           \E r \in Requests : pc[r] \in {"delRow", "delRows"} /\ op[r].user = t.user]_vars
  BY LastStep
<1>2. QED
  BY <1>1, InitType, NextType, InitToken, NextToken, PTL DEF Spec, TokensLast

-----------------------------------------------------------------------------
(* What a step does to its request and to the stores.                      *)

Step(r) == \/ Insert(r) \/ Lookup(r) \/ Select(r) \/ CopyToRedis(r) \/ List(r)
           \/ Del(r) \/ SRem(r) \/ DelRows(r) \/ Members(r) \/ DelAll(r)
           \/ LoseRedis(r) \/ LoseDb(r)

Start(r) == BeginCreate(r) \/ BeginAuthenticate(r) \/ BeginDelete(r) \/ BeginDeleteAll(r)

Naming == {"create", "authenticate", "delete"}

\* The step of a request: it adds a copy of its own token at "copy" and a row of
\* its own token at "insert".
Advances(r) ==
  /\ Moves(r) /\ Busy(r) /\ UNCHANGED <<issued, alone>> /\ cut \subseteq cut'
  /\ op'[r] = op[r] \/ (op'[r] = NoCall /\ pc'[r] = "idle")
  /\ known' = known \/ /\ op[r].kind = "create" /\ op'[r] = NoCall
                       /\ known' = known \cup {op[r].secret}
  /\ \A c \in copies' \ copies : pc[r] = "copy" /\ c.secret = op[r].secret
  /\ \A t \in rows' \ rows : pc[r] = "insert" /\ t \in got[r]
  /\ pc'[r] # "insert"

LEMMA StepAdvances ==
  ASSUME TypeOK, TokenInv, NEW r \in Requests, Step(r)
  PROVE  Advances(r)
<1> USE DEF redis, history, Advances
<1>1. \A t \in got[r] : pc[r] \in {"copy", "list"} => t.secret = op[r].secret
  BY DEF TokenInv, Holding
<1>2. CASE Insert(r) \/ Lookup(r) \/ Select(r)
  BY <1>2 DEF Insert, Lookup, Select, Goto, Reply, Moves, TypeOK, Busy
<1>3. CASE CopyToRedis(r)
  BY <1>1, <1>3 DEF CopyToRedis, SetCopy, CopyOf, Goto, Moves, TypeOK, Busy
<1>4. CASE List(r)
  BY <1>4 DEF List, Accept, Goto, Reply, Moves, TypeOK, Busy
<1>5. CASE Del(r) \/ SRem(r) \/ DelRows(r)
  BY <1>5 DEF Del, SRem, DelRows, DropCopies, Goto, Reply, Moves, TypeOK, Busy
<1>6. CASE Members(r) \/ DelAll(r)
  BY <1>6 DEF Members, DelAll, DropCopies, Goto, Reply, Moves, TypeOK, Busy
<1>7. CASE LoseRedis(r)
  <2>1. Reply(r) /\ UNCHANGED <<rows, issued, alone>> /\ cut \subseteq cut'
    BY <1>7 DEF LoseRedis, Accept
  <2>2. Moves(r) /\ Busy(r) /\ op'[r] = NoCall /\ pc'[r] = "idle"
    BY <1>7, <2>1 DEF LoseRedis, Reply, Goto, Moves, TypeOK, Busy
  <2>3. \A c \in copies' \ copies : pc[r] = "copy" /\ c.secret = op[r].secret
    BY <1>1, <1>7 DEF LoseRedis, SetCopy, CopyOf, DropCopies
  <2>4. known' = known \/ (op[r].kind = "create" /\ known' = known \cup {op[r].secret})
    BY <1>7 DEF LoseRedis, Accept
  <2>5. QED
    BY <2>1, <2>2, <2>3, <2>4
<1>8. CASE LoseDb(r)
  BY <1>8 DEF LoseDb, Goto, Reply, Moves, TypeOK, Busy
<1>9. QED
  BY <1>2, <1>3, <1>4, <1>5, <1>6, <1>7, <1>8 DEF Step

\* The beginning of the call c.
Opens(r, c) ==
  /\ Moves(r) /\ ~Busy(r) /\ op'[r] = c
  /\ UNCHANGED <<rows, copies, listed, known, granted, dead, cut>>
  /\ alone' \subseteq alone \cup {r} /\ alone' \cap Others(r, c) = {}
  /\ r \in alone' => Others(r, c) = {}
  /\ \/ /\ c.kind = "create" /\ c.secret \notin IssuedSecrets /\ pc'[r] = "insert"
        /\ \E t \in issued' : /\ t.secret = c.secret /\ t.user = c.user
                              /\ issued' = issued \cup {t}
     \/ /\ c.kind \in {"authenticate", "delete"} /\ c.secret \in known
        /\ pc'[r] \in {"lookup", "del"} /\ UNCHANGED issued
     \/ c.kind = "deleteAll" /\ pc'[r] = "members" /\ UNCHANGED issued

LEMMA BeginOpens ==
  ASSUME TypeOK, NEW r \in Requests, NEW c, NEW step, Begin(r, c, step),
         NEW held, got' = [got EXCEPT ![r] = held] \/ UNCHANGED got
  PROVE  /\ Moves(r) /\ ~Busy(r) /\ op'[r] = c /\ pc'[r] = step
         /\ UNCHANGED <<rows, copies, listed, known, granted, dead, cut>>
         /\ alone' \subseteq alone \cup {r} /\ alone' \cap Others(r, c) = {}
         /\ r \in alone' => Others(r, c) = {}
<1>1. Moves(r) /\ ~Busy(r) /\ op'[r] = c /\ pc'[r] = step
  BY DEF Begin, Goto, Moves, TypeOK
<1>2. UNCHANGED <<rows, copies, listed, known, granted, dead, cut>>
  BY DEF Begin, redis
<1>3. r \notin Others(r, c)
  BY DEF Others
<1>4. QED
  BY <1>1, <1>2, <1>3 DEF Begin

LEMMA StartOpens ==
  ASSUME TypeOK, NEW r \in Requests, Start(r)
  PROVE  \E c : Opens(r, c)
<1>1. CASE BeginCreate(r)
  <2>1. PICK u \in Users, s \in Secrets, text \in AccessTexts :
          LET token == [secret |-> s, user |-> u, access |-> Parse(text),
                        expires |-> tokenMkExpires(maxDuration)]
          IN  /\ s \notin {t.secret : t \in issued}
              /\ Begin(r, [kind |-> "create", user |-> u, secret |-> s], "insert")
              /\ got' = [got EXCEPT ![r] = {token}]
              /\ issued' = issued \cup {token}
    BY <1>1 DEF BeginCreate
  <2> DEFINE token == [secret |-> s, user |-> u, access |-> Parse(text),
                       expires |-> tokenMkExpires(maxDuration)]
             c == [kind |-> "create", user |-> u, secret |-> s]
  <2>2. token.secret = s /\ token.user = u /\ c.kind = "create" /\ c.user = u /\ c.secret = s
    OBVIOUS
  <2>3. Begin(r, c, "insert") /\ got' = [got EXCEPT ![r] = {token}] /\ issued' = issued \cup {token}
    BY <2>1
  <2>4. s \notin IssuedSecrets
    BY <2>1 DEF IssuedSecrets
  <2> HIDE DEF token, c
  <2>5. token \in issued'
    BY <2>3
  <2>6. Opens(r, c)
    BY <2>2, <2>3, <2>4, <2>5, BeginOpens DEF Opens
  <2>7. QED
    BY <2>6
<1>2. CASE BeginAuthenticate(r)
  <2>1. PICK s \in known :
          Begin(r, [kind |-> "authenticate", user |-> "", secret |-> s], "lookup")
    BY <1>2 DEF BeginAuthenticate
  <2>2. UNCHANGED <<got, issued>>
    BY <1>2 DEF BeginAuthenticate
  <2> DEFINE c == [kind |-> "authenticate", user |-> "", secret |-> s]
  <2>3. Begin(r, c, "lookup") /\ c.kind = "authenticate" /\ c.secret \in known
    BY <2>1
  <2> HIDE DEF c
  <2>4. Opens(r, c)
    BY <2>2, <2>3, BeginOpens DEF Opens
  <2>5. QED
    BY <2>4
<1>3. CASE BeginDelete(r)
  <2>1. PICK s \in known, u \in Users :
          Begin(r, [kind |-> "delete", user |-> u, secret |-> s], "del")
    BY <1>3 DEF BeginDelete
  <2>2. UNCHANGED <<got, issued>>
    BY <1>3 DEF BeginDelete
  <2> DEFINE c == [kind |-> "delete", user |-> u, secret |-> s]
  <2>3. Begin(r, c, "del") /\ c.kind = "delete" /\ c.secret \in known
    BY <2>1
  <2> HIDE DEF c
  <2>4. Opens(r, c)
    BY <2>2, <2>3, BeginOpens DEF Opens
  <2>5. QED
    BY <2>4
<1>4. CASE BeginDeleteAll(r)
  <2>1. PICK u \in Users :
          Begin(r, [kind |-> "deleteAll", user |-> u, secret |-> ""], "members")
    BY <1>4 DEF BeginDeleteAll
  <2>2. UNCHANGED <<got, issued>>
    BY <1>4 DEF BeginDeleteAll
  <2> DEFINE c == [kind |-> "deleteAll", user |-> u, secret |-> ""]
  <2>3. Begin(r, c, "members") /\ c.kind = "deleteAll"
    BY <2>1
  <2> HIDE DEF c
  <2>4. Opens(r, c)
    BY <2>2, <2>3, BeginOpens DEF Opens
  <2>5. QED
    BY <2>4
<1>5. QED
  BY <1>1, <1>2, <1>3, <1>4 DEF Start

\* Every step is one of these.
LEMMA NextCases ==
  ASSUME TypeOK, TokenInv, [Next]_vars
  PROVE  \/ \E r \in Requests : Start(r) /\ \E c : Opens(r, c)
         \/ \E r \in Requests : Step(r) /\ Advances(r)
         \/ tokensDeleteExpired \/ Crash \/ Flush \/ UNCHANGED vars
BY StepAdvances, StartOpens DEF Next, Step, Start

-----------------------------------------------------------------------------
(* A secret that is being created.                                         *)

HasCopy(s) == \E c \in copies : c.secret = s

\* Nobody else names it, and nothing is stored under it before its row is.
Fresh ==
  \A r \in Requests : op[r].kind = "create" =>
    /\ op[r].secret \notin known
    /\ \A q \in Requests \ {r} : op[q].kind \in Naming => op[q].secret # op[r].secret
    /\ pc[r] = "insert" => ~HasCopy(op[r].secret)

LEMMA InitFresh == Init => Fresh
<1> SUFFICES ASSUME Init PROVE Fresh
  OBVIOUS
<1>1. \A r \in Requests : op[r].kind = "none"
  BY DEF Init, NoCall
<1>2. QED
  BY <1>1 DEF Fresh

LEMMA FreshStep ==
  ASSUME TypeOK, TokenInv, Fresh, [Next]_vars
  PROVE  Fresh'
<1>0. NoCall.kind = "none" /\ "none" \notin Naming
  BY DEF NoCall, Naming
<1>1. ASSUME NEW r \in Requests, NEW c, Opens(r, c)
      PROVE  Fresh'
  <2>1. known \subseteq IssuedSecrets /\ \A s : HasCopy(s) => s \in IssuedSecrets
    BY DEF TokenInv, HasCopy, CopyOf, IssuedSecrets
  <2>2. UNCHANGED <<known, copies>> /\ \A s : HasCopy(s)' = HasCopy(s)
    BY <1>1 DEF Opens, HasCopy
  <2>3. \A q \in Requests \ {r} : pc'[q] = pc[q] /\ op'[q] = op[q]
    BY <1>1 DEF Opens, Moves
  <2>4. \A q \in Requests : op[q].kind \in Naming => op[q].secret \in IssuedSecrets
    BY DEF TokenInv, Naming
  <2>5. CASE c.kind = "create"
    <3>1. op'[r] = c /\ c.secret \notin IssuedSecrets
      BY <1>1, <2>5 DEF Opens
    <3>2. QED
      BY <2>1, <2>2, <2>3, <2>4, <3>1 DEF Fresh, Naming
  <2>6. CASE c.kind # "create"
    <3>1. op'[r] = c /\ (c.kind \in Naming => c.secret \in known)
      BY <1>1, <2>6 DEF Opens, Naming
    <3>2. QED
      BY <2>2, <2>3, <2>6, <3>1 DEF Fresh
  <2>7. QED
    BY <2>5, <2>6
<1>2. ASSUME NEW r \in Requests, Advances(r)
      PROVE  Fresh'
  <2>1. \A q \in Requests : op'[q] = op[q] \/ op'[q] = NoCall
    BY <1>2 DEF Advances, Moves
  <2>2. SUFFICES ASSUME NEW q \in Requests, op'[q].kind = "create"
                 PROVE  /\ op'[q].secret \notin known'
                        /\ \A p \in Requests \ {q} :
                             op'[p].kind \in Naming => op'[p].secret # op'[q].secret
                        /\ pc'[q] = "insert" => ~HasCopy(op[q].secret)'
    BY DEF Fresh
  <2>3. op'[q] = op[q] /\ op[q].kind = "create"
    BY <1>0, <2>1, <2>2
  <2>4. op[r].kind = "create" /\ r # q => op[r].secret # op[q].secret
    BY <2>3 DEF Fresh, Naming
  <2>5. op'[q].secret \notin known'
    BY <1>0, <1>2, <2>2, <2>3, <2>4 DEF Advances, Fresh
  <2>6. \A p \in Requests \ {q} : op'[p].kind \in Naming => op'[p].secret # op'[q].secret
    BY <1>0, <2>1, <2>3 DEF Fresh
  <2>7. ASSUME pc'[q] = "insert" PROVE ~HasCopy(op[q].secret)'
    <3>1. q # r /\ pc[q] = "insert"
      BY <1>2, <2>7 DEF Advances, Moves
    <3>2. pc[r] = "copy" => op[r].kind \in Naming
      BY DEF TypeOK, RequestOK, Naming
    <3>3. pc[r] = "copy" => op[r].secret # op[q].secret
      BY <2>3, <3>1, <3>2 DEF Fresh
    <3>4. \A c \in copies : c.secret # op[q].secret
      BY <2>3, <3>1 DEF Fresh, HasCopy
    <3>5. \A c \in copies' : c.secret # op[q].secret
      BY <1>2, <3>3, <3>4 DEF Advances
    <3>6. QED
      BY <2>3, <3>5 DEF HasCopy
  <2>8. QED
    BY <2>5, <2>6, <2>7
<1>3. CASE tokensDeleteExpired \/ UNCHANGED vars
  BY <1>3 DEF tokensDeleteExpired, vars, redis, history, Fresh, HasCopy
<1>4. CASE Crash
  BY <1>0, <1>4 DEF Crash, Fresh
<1>5. CASE Flush
  BY <1>5 DEF Flush, Fresh, HasCopy
<1>6. QED
  BY <1>1, <1>2, <1>3, <1>4, <1>5, NextCases

-----------------------------------------------------------------------------
(* Copies are listed.                                                      *)

\* A request is about to list the copy, or to delete its row.
Pending(t) ==
  \E r \in Requests :
    /\ op[r].secret = t.secret
    /\ pc[r] = "list" \/ (pc[r] = "delRow" /\ op[r].user = t.user)

Listing == \A t \in rows : HasCopy(t.secret) /\ t.secret \notin cut =>
                             <<t.user, t.secret>> \in listed \/ Pending(t)

LEMMA InitListing == Init => Listing
BY DEF Init, Listing

\* A step of a request takes a copy off the list only to delete its row.
LEMMA Unlisted ==
  ASSUME NEW r \in Requests, Step(r), NEW l \in listed, l \notin listed'
  PROVE  /\ pc[r] = "srem" /\ l = <<op[r].user, op[r].secret>>
         /\ SRem(r) \/ LoseRedis(r)
<1> USE DEF redis, history
<1>1. CASE Insert(r) \/ Lookup(r) \/ Select(r) \/ CopyToRedis(r) \/ List(r)
  BY <1>1 DEF Insert, Lookup, Select, CopyToRedis, List, AddToList
<1>2. CASE Del(r) \/ DelRows(r) \/ Members(r) \/ DelAll(r) \/ LoseDb(r)
  BY <1>2 DEF Del, DelRows, Members, DelAll, LoseDb, DropCopies
<1>3. CASE SRem(r)
  BY <1>3 DEF SRem, Unlist
<1>4. CASE LoseRedis(r)
  BY <1>4 DEF LoseRedis, DropCopies, AddToList, Unlist
<1>5. QED
  BY <1>1, <1>2, <1>3, <1>4 DEF Step

LEMMA ListingAdvance ==
  ASSUME TypeOK, TokenInv, Fresh, Listing, NEW r \in Requests, Step(r), Advances(r)
  PROVE  Listing'
<1> SUFFICES ASSUME NEW t \in rows', HasCopy(t.secret)', t.secret \notin cut'
             PROVE  <<t.user, t.secret>> \in listed' \/ Pending(t)'
  BY DEF Listing
<1>1. LoseRedis(r) \/ LoseDb(r) => op[r].secret \in cut'
  BY DEF LoseRedis, LoseDb
<1>2. t \in rows
  <2> SUFFICES ASSUME t \notin rows PROVE FALSE
    OBVIOUS
  <2>1. pc[r] = "insert" /\ t \in got[r]
    BY DEF Advances
  <2>2. op[r].kind = "create" /\ t.secret = op[r].secret
    BY <2>1 DEF TypeOK, RequestOK, TokenInv, Holding
  <2>3. ~HasCopy(t.secret)
    BY <2>1, <2>2 DEF Fresh
  <2>4. QED
    BY <2>1, <2>3 DEF HasCopy, Advances
<1>3. t.secret \notin cut
  BY DEF Advances
<1>4. CASE ~HasCopy(t.secret)
  <2>1. pc[r] = "copy" /\ op[r].secret = t.secret
    BY <1>4 DEF HasCopy, Advances
  <2>2. CopyToRedis(r)
    BY <1>1, <2>1 DEF Step, Insert, Lookup, Select, List, Del, SRem, DelRows, Members, DelAll
  <2>3. pc'[r] = "list" /\ op'[r] = op[r]
    BY <2>2 DEF CopyToRedis, Goto, TypeOK
  <2>4. QED
    BY <2>1, <2>3 DEF Pending
<1>5. CASE <<t.user, t.secret>> \in listed
  <2> SUFFICES ASSUME <<t.user, t.secret>> \notin listed' PROVE Pending(t)'
    OBVIOUS
  <2>1. op[r].user = t.user /\ op[r].secret = t.secret /\ (SRem(r) \/ LoseRedis(r))
    BY <1>5, Unlisted
  <2>2. SRem(r)
    BY <1>1, <2>1
  <2>3. pc'[r] = "delRow" /\ op'[r] = op[r]
    BY <2>2 DEF SRem, Goto, TypeOK
  <2>4. QED
    BY <2>1, <2>3 DEF Pending
<1>6. CASE Pending(t)
  <2>1. PICK q \in Requests : /\ op[q].secret = t.secret
                              /\ pc[q] = "list" \/ (pc[q] = "delRow" /\ op[q].user = t.user)
    BY <1>6 DEF Pending
  <2>2. CASE q # r
    BY <2>1, <2>2 DEF Pending, Advances, Moves
  <2>3. CASE q = r /\ pc[r] = "list"
    <3>1. List(r)
      BY <1>1, <2>1, <2>3 DEF Step, Insert, Lookup, Select, CopyToRedis, Del, SRem, DelRows,
                              Members, DelAll
    <3>2. t \in got[r]
      BY <1>2, <2>1, <2>3 DEF TokenInv, Holding
    <3>3. QED
      BY <3>1, <3>2 DEF List, AddToList
  <2>4. CASE q = r /\ pc[r] = "delRow"
    <3>1. DelRows(r)
      BY <1>1, <2>1, <2>4 DEF Step, Insert, Lookup, Select, CopyToRedis, List, Del, SRem,
                              Members, DelAll
    <3>2. op[r].user = t.user
      BY <2>1, <2>4
    <3>3. t \in Doomed(op[r])
      BY <1>2, <2>1, <2>4, <3>2 DEF Doomed
    <3>4. QED
      BY <3>1, <3>3 DEF DelRows
  <2>5. QED
    BY <2>1, <2>2, <2>3, <2>4
<1>7. QED
  BY <1>2, <1>3, <1>4, <1>5, <1>6 DEF Listing

LEMMA ListingStep ==
  ASSUME TypeOK, TokenInv, Fresh, Listing, [Next]_vars
  PROVE  Listing'
<1>1. ASSUME NEW r \in Requests, NEW c, Opens(r, c)
      PROVE  Listing'
  <2>1. \A q \in Requests : Busy(q) => pc'[q] = pc[q] /\ op'[q] = op[q]
    BY <1>1 DEF Opens, Moves
  <2>2. \A t : Pending(t) => Pending(t)'
    BY <2>1 DEF Pending, Busy
  <2>3. UNCHANGED <<rows, listed, cut, copies>>
    BY <1>1 DEF Opens
  <2>4. QED
    BY <2>2, <2>3 DEF Listing, HasCopy
<1>2. CASE tokensDeleteExpired \/ UNCHANGED vars
  <2>1. rows' \subseteq rows
    BY <1>2 DEF tokensDeleteExpired, vars
  <2>2. UNCHANGED <<listed, cut, copies, pc, op>>
    BY <1>2 DEF tokensDeleteExpired, vars, redis, history
  <2>3. QED
    BY <2>1, <2>2 DEF Listing, HasCopy, Pending
<1>3. CASE Crash
  <2>1. UNCHANGED <<rows, listed, copies>>
    BY <1>3 DEF Crash, redis
  <2>2. \A t : t.secret \notin cut' => t.secret \notin cut /\ ~Pending(t)
    BY <1>3 DEF Crash, Pending, Busy
  <2>3. QED
    BY <2>1, <2>2 DEF Listing, HasCopy
<1>4. CASE Flush
  BY <1>4 DEF Flush, Listing, HasCopy
<1>5. QED
  BY <1>1, <1>2, <1>3, <1>4, ListingAdvance, NextCases

ListInv == TypeOK /\ TokenInv /\ Fresh /\ Listing

LEMMA ListInvariance == Spec => []ListInv
<1>1. Init => ListInv
  BY InitType, InitToken, InitFresh, InitListing DEF ListInv
<1>2. ListInv /\ [Next]_vars => ListInv'
  BY NextType, NextToken, FreshStep, ListingStep DEF ListInv
<1>3. QED
  BY <1>1, <1>2, PTL DEF Spec

\* AccessTokenDeleteAll finds the copy of every row by the user's list, unless a
\* request is about to list it or to delete the row, or a fault broke that off.
THEOREM ListingCorrect == Spec => []StoresAgree
<1>1. ListInv => StoresAgree
  BY DEF ListInv, Listing, Pending, HasCopy, CopiesListed, StoresAgree, At
<1>2. QED
  BY <1>1, ListInvariance, PTL

-----------------------------------------------------------------------------
(* Deleted tokens stay deleted.                                            *)

\* Overlap, of the tokens I.
NamesOf(I, c) == IF c.kind = "deleteAll" THEN {t.secret : t \in {i \in I : i.user = c.user}}
                 ELSE {c.secret}

Meet(I, c, d) == \/ NamesOf(I, c) \cap NamesOf(I, d) # {}
                 \/ {c.kind, d.kind} = {"create", "deleteAll"} /\ c.user = d.user

LEMMA OthersMeet ==
  \A r, c : Others(r, c) = {q \in Requests \ {r} : Busy(q) /\ Meet(issued, op[q], c)}
BY DEF Others, Overlap, Touches, SecretsOf, Meet, NamesOf

LEMMA MeetSymmetric == ASSUME NEW I, NEW c, NEW d PROVE Meet(I, c, d) <=> Meet(I, d, c)
<1>1. {c.kind, d.kind} = {d.kind, c.kind}
  OBVIOUS
<1>2. QED
  BY <1>1 DEF Meet

\* A new token joins no calls unless both work on its user's tokens.
LEMMA NewToken ==
  ASSUME NEW I, NEW t, NEW c, NEW d, ~Meet(I, c, d),
         ~(c.kind = "deleteAll" /\ c.user = t.user), t.secret \notin NamesOf(I, c)
  PROVE  ~Meet(I \cup {t}, c, d)
<1>1. NamesOf(I \cup {t}, c) = NamesOf(I, c)
  BY DEF NamesOf
<1>2. NamesOf(I \cup {t}, d) \subseteq NamesOf(I, d) \cup {t.secret}
  BY DEF NamesOf
<1>3. QED
  BY <1>1, <1>2 DEF Meet

\* An undisturbed deletion shares no token with any call in progress.
Apart == \A r \in alone : \A q \in Requests \ {r} :
           Busy(r) /\ Busy(q) => ~Meet(issued, op[q], op[r])

\* What an undisturbed deletion has removed at each of its steps.
ClearedAt(r) ==
  /\ pc[r] \in {"srem", "delRow"} => ~HasCopy(op[r].secret)
  /\ pc[r] = "delAll" => \A t \in rows :
       t.user = op[r].user /\ t.secret \notin cut /\ HasCopy(t.secret) => t.secret \in got[r]
  /\ pc[r] = "delRows" => \A t \in rows :
       t.user = op[r].user /\ t.secret \notin cut => ~HasCopy(t.secret)

\* Nothing is left of a secret, and no request is about to store it or let it in.
Gone(s) == /\ ~HasCopy(s)
           /\ \A t \in rows \cup granted : t.secret # s
           /\ \A r \in Requests : pc[r] \in {"insert", "copy", "list"} => op[r].secret # s

Buried == \A s \in dead : Gone(s)

\* A busy request serves a call, on issued tokens.
LEMMA Serving ==
  ASSUME TypeOK, TokenInv, NEW r \in Requests, Busy(r)
  PROVE  /\ op[r].kind \in Naming \cup {"deleteAll"}
         /\ NamesOf(issued, op[r]) \subseteq IssuedSecrets
<1>1. op[r].kind \in Naming \cup {"deleteAll"}
  BY DEF TypeOK, RequestOK, Steps, Busy, Naming
<1>2. op[r].kind \in Naming => op[r].secret \in IssuedSecrets
  BY DEF TokenInv, Naming
<1>3. QED
  BY <1>1, <1>2 DEF NamesOf, Naming, IssuedSecrets

LEMMA ApartStart ==
  ASSUME TypeOK, TokenInv, Apart, NEW r \in Requests, NEW c, Opens(r, c)
  PROVE  Apart'
<1>1. /\ \A q \in Requests \ {r} : pc'[q] = pc[q] /\ op'[q] = op[q]
      /\ op'[r] = c /\ ~Busy(r) /\ alone' \subseteq alone \cup {r}
  BY DEF Opens, Moves
<1>2. alone' \subseteq Requests
  BY <1>1 DEF TypeOK
<1>3. /\ r \in alone' => \A q \in Requests \ {r} : Busy(q) => ~Meet(issued, op[q], c)
      /\ \A q \in alone' \ {r} : Busy(q) => ~Meet(issued, op[q], c)
  BY <1>2, OthersMeet DEF Opens
<1>4. \A q \in Requests \ {r} : Busy(q) /\ ~Meet(issued, op[q], c) =>
        /\ ~Meet(issued', op[q], c)
        /\ \A p \in Requests \ {q} : ~Meet(issued, op[q], op[p]) => ~Meet(issued', op[q], op[p])
  <2>1. CASE c.kind # "create"
    BY <2>1 DEF Opens
  <2>2. CASE c.kind = "create"
    <3>1. PICK t : /\ t.secret \notin IssuedSecrets /\ t.user = c.user
                   /\ issued' = issued \cup {t}
      BY <2>2 DEF Opens
    <3>2. ASSUME NEW q \in Requests \ {r}, Busy(q), ~Meet(issued, op[q], c)
          PROVE  /\ ~(op[q].kind = "deleteAll" /\ op[q].user = t.user)
                 /\ t.secret \notin NamesOf(issued, op[q])
      <4>1. t.secret \notin NamesOf(issued, op[q])
        BY <3>1, <3>2, Serving
      <4>2. ~(op[q].kind = "deleteAll" /\ op[q].user = c.user)
        BY <2>2, <3>2 DEF Meet
      <4>3. QED
        BY <3>1, <4>1, <4>2
    <3>3. QED
      BY <3>1, <3>2, NewToken
  <2>3. QED
    BY <2>1, <2>2
<1>5. SUFFICES ASSUME NEW q \in alone', NEW p \in Requests \ {q}, Busy(q)', Busy(p)'
               PROVE  ~Meet(issued', op'[p], op'[q])
  BY DEF Apart
<1>6. CASE q = r
  <2>1. p \in Requests \ {r} /\ Busy(p) /\ ~Meet(issued, op[p], c)
    BY <1>1, <1>3, <1>5, <1>6 DEF Busy
  <2>2. QED
    BY <1>1, <1>4, <1>6, <2>1
<1>7. CASE q # r
  <2>1. q \in Requests \ {r} /\ q \in alone /\ Busy(q) /\ ~Meet(issued, op[q], c)
    BY <1>1, <1>2, <1>3, <1>5, <1>7 DEF Busy
  <2>2. CASE p = r
    BY <1>1, <1>4, <2>1, <2>2, MeetSymmetric
  <2>3. CASE p # r
    <3>1. Busy(p) /\ ~Meet(issued, op[q], op[p])
      BY <1>1, <1>5, <2>1, <2>3, MeetSymmetric DEF Apart, Busy
    <3>2. QED
      BY <1>1, <1>4, <2>1, <2>3, <3>1, MeetSymmetric
  <2>4. QED
    BY <2>2, <2>3
<1>8. QED
  BY <1>6, <1>7

LEMMA ApartAdvance ==
  ASSUME TypeOK, Apart, NEW r \in Requests, Advances(r)
  PROVE  Apart'
<1>1. \A q \in Requests : Busy(q)' => Busy(q) /\ op'[q] = op[q]
  BY DEF Advances, Moves, Busy
<1>2. QED
  BY <1>1 DEF Advances, Apart, TypeOK

\* The token that another call stores is none that an undisturbed deletion works on.
LEMMA NoneStored ==
  ASSUME TypeOK, TokenInv, Apart, NEW q \in alone, Busy(q),
         NEW r \in Requests \ {q}, pc[r] \in {"insert", "copy", "list", "delRow"}
  PROVE  /\ op[q].kind = "delete" => op[r].secret # op[q].secret
         /\ op[q].kind = "deleteAll" =>
              /\ \A t \in issued : t.user = op[q].user => t.secret # op[r].secret
              /\ op[r].kind = "create" => op[r].user # op[q].user
<1>1. Busy(r) /\ op[r].kind \in Naming
  BY DEF TypeOK, RequestOK, Busy, Naming
<1>2. NamesOf(issued, op[r]) = {op[r].secret}
  BY <1>1 DEF NamesOf, Naming
<1>3. ~Meet(issued, op[r], op[q])
  BY <1>1 DEF Apart
<1>4. op[q].kind = "delete" => op[r].secret # op[q].secret
  BY <1>2, <1>3 DEF Meet, NamesOf
<1>5. op[q].kind = "deleteAll" => \A t \in issued : t.user = op[q].user => t.secret # op[r].secret
  BY <1>2, <1>3 DEF Meet, NamesOf
<1>6. op[q].kind = "deleteAll" /\ op[r].kind = "create" => op[r].user # op[q].user
  BY <1>3 DEF Meet
<1>7. QED
  BY <1>4, <1>5, <1>6

\* A row that a step adds has the secret and the user of the creation.
LEMMA NewRow ==
  ASSUME TypeOK, TokenInv, NEW r \in Requests, Advances(r), NEW t \in rows', t \notin rows
  PROVE  pc[r] = "insert" /\ op[r].kind = "create" /\ t.secret = op[r].secret /\ t.user = op[r].user
<1>1. pc[r] = "insert" /\ t \in got[r]
  BY DEF Advances
<1>2. op[r].kind = "create"
  BY <1>1 DEF TypeOK, RequestOK
<1>3. QED
  BY <1>1, <1>2 DEF TokenInv, Holding

\* The other calls leave it so.
LEMMA ClearedOthers ==
  ASSUME TypeOK, TokenInv, Apart, NEW r \in Requests, Advances(r),
         NEW q \in alone, q # r, ClearedAt(q)
  PROVE  ClearedAt(q)'
<1>1. q \in Requests /\ pc'[q] = pc[q] /\ op'[q] = op[q] /\ got'[q] = got[q] /\ cut \subseteq cut'
  BY DEF Advances, Moves, TypeOK
<1>2. \A c \in copies' : c \notin copies => pc[r] = "copy" /\ c.secret = op[r].secret
  BY DEF Advances
<1>3. ASSUME pc[q] \in {"srem", "delRow"} PROVE ~HasCopy(op[q].secret)'
  <2>1. Busy(q) /\ op[q].kind = "delete"
    BY <1>1, <1>3 DEF TypeOK, RequestOK, Busy
  <2>2. pc[r] = "copy" => op[r].secret # op[q].secret
    BY <2>1, NoneStored
  <2>3. \A c \in copies : c.secret # op[q].secret
    BY <1>3 DEF ClearedAt, HasCopy
  <2>4. \A c \in copies' : c.secret # op[q].secret
    BY <1>2, <2>2, <2>3
  <2>5. QED
    BY <1>1, <2>4 DEF HasCopy
<1>4. ASSUME pc[q] \in {"delAll", "delRows"}, NEW t \in rows', t.user = op[q].user
      PROVE  t \in rows /\ (HasCopy(t.secret)' => HasCopy(t.secret))
  <2>1. Busy(q) /\ op[q].kind = "deleteAll"
    BY <1>1, <1>4 DEF TypeOK, RequestOK, Busy
  <2>2. t \in rows
    BY <1>4, <2>1, NewRow, NoneStored
  <2>3. pc[r] = "copy" => t.secret # op[r].secret
    <3>1. t \in issued
      BY <2>2 DEF TokenInv
    <3>2. QED
      BY <1>4, <2>1, <3>1, NoneStored
  <2>4. QED
    BY <1>2, <2>2, <2>3 DEF HasCopy
<1>5. pc[q] = "delAll" => \A t \in rows' :
        t.user = op[q].user /\ t.secret \notin cut' /\ HasCopy(t.secret)' => t.secret \in got[q]
  BY <1>1, <1>4 DEF ClearedAt
<1>6. pc[q] = "delRows" => \A t \in rows' :
        t.user = op[q].user /\ t.secret \notin cut' => ~HasCopy(t.secret)'
  BY <1>1, <1>4 DEF ClearedAt
<1>7. QED
  BY <1>1, <1>3, <1>5, <1>6 DEF ClearedAt

\* AccessTokenDeleteAll reads all the copies that no other call works on.
LEMMA MembersFinds ==
  ASSUME TypeOK, TokenInv, Listing, Apart, NEW r \in alone, r \in Requests, Members(r),
         NEW t \in rows, t.user = op[r].user, t.secret \notin cut, HasCopy(t.secret)
  PROVE  t.secret \in got'[r]
<1>1. Busy(r) /\ op[r].kind = "deleteAll" /\ pc[r] = "members"
  BY DEF Members, TypeOK, RequestOK, Busy
<1>2. ~Pending(t)
  <2> SUFFICES ASSUME NEW q \in Requests, op[q].secret = t.secret, pc[q] \in {"list", "delRow"}
               PROVE  FALSE
    BY DEF Pending
  <2>1. q # r /\ t \in issued
    BY <1>1 DEF TokenInv
  <2>2. QED
    BY <1>1, <2>1, NoneStored
<1>3. <<t.user, t.secret>> \in listed
  BY <1>2 DEF Listing
<1>4. got'[r] = {l[2] : l \in {m \in listed : m[1] = op[r].user}}
  BY DEF Members, TypeOK
<1>5. QED
  BY <1>3, <1>4

LEMMA ClearedOwn ==
  ASSUME TypeOK, TokenInv, Listing, Apart, NEW r \in alone, r \in Requests, Step(r), ClearedAt(r)
  PROVE  ClearedAt(r)'
<1> USE DEF redis, history
<1>1. CASE Del(r)
  <2>1. pc'[r] = "srem" /\ op'[r] = op[r] /\ copies' = {c \in copies : c.secret \notin {op[r].secret}}
    BY <1>1 DEF Del, Goto, DropCopies, TypeOK
  <2>2. QED
    BY <2>1 DEF ClearedAt, HasCopy
<1>2. CASE SRem(r)
  <2>1. pc[r] = "srem" /\ pc'[r] = "delRow" /\ op'[r] = op[r] /\ copies' = copies
    BY <1>2 DEF SRem, Goto, TypeOK
  <2>2. QED
    BY <2>1 DEF ClearedAt, HasCopy
<1>3. CASE Members(r)
  <2>1. pc'[r] = "delAll" /\ UNCHANGED <<op, rows, copies, cut>>
    BY <1>3 DEF Members, Goto, TypeOK
  <2>2. \A t \in rows : t.user = op[r].user /\ t.secret \notin cut /\ HasCopy(t.secret) =>
          t.secret \in got'[r]
    BY <1>3, MembersFinds
  <2>3. QED
    BY <2>1, <2>2 DEF ClearedAt, HasCopy
<1>4. CASE DelAll(r)
  <2>1. CASE got[r] = {}
    <3>1. pc'[r] = "idle"
      BY <1>4, <2>1 DEF DelAll, Reply, Goto, TypeOK
    <3>2. QED
      BY <3>1 DEF ClearedAt
  <2>2. CASE got[r] # {}
    <3>1. /\ pc[r] = "delAll" /\ pc'[r] = "delRows" /\ UNCHANGED <<op, rows, cut>>
          /\ copies' = {c \in copies : c.secret \notin got[r]}
      BY <1>4, <2>2 DEF DelAll, Goto, DropCopies, TypeOK
    <3>2. QED
      BY <3>1 DEF ClearedAt, HasCopy
  <2>3. QED
    BY <2>1, <2>2
<1>5. CASE Insert(r) \/ Lookup(r) \/ Select(r) \/ CopyToRedis(r) \/ List(r)
  <2>1. pc'[r] \in {"idle", "copy", "select", "list"}
    BY <1>5 DEF Insert, Lookup, Select, CopyToRedis, List, Accept, Goto, Reply, TypeOK
  <2>2. QED
    BY <2>1 DEF ClearedAt
<1>6. CASE DelRows(r) \/ LoseRedis(r) \/ LoseDb(r)
  <2>1. pc'[r] = "idle"
    BY <1>6 DEF DelRows, LoseRedis, LoseDb, Accept, Goto, Reply, TypeOK
  <2>2. QED
    BY <2>1 DEF ClearedAt
<1>7. QED
  BY <1>1, <1>2, <1>3, <1>4, <1>5, <1>6 DEF Step

\* What a deletion adds to the dead secrets.
LEMMA NewlyDead ==
  ASSUME TypeOK, NEW r \in Requests, Step(r), NEW s \in dead', s \notin dead
  PROVE  /\ DelRows(r) /\ r \in alone
         /\ \E t \in Doomed(op[r]) : /\ t.secret = s
                                     /\ op[r].kind = "delete" \/ s \notin cut
<1>1. DelRows(r)
  BY DEF Step, Insert, Lookup, Select, CopyToRedis, List, Del, SRem, Members, DelAll,
         LoseRedis, LoseDb, history
<1>2. QED
  BY <1>1 DEF DelRows

\* Who is let in holds a token, of which there is a copy or which it has read.
LEMMA GrantStep ==
  ASSUME TypeOK, TokenInv, NEW r \in Requests, Step(r)
  PROVE  \/ DelRows(r)
         \/ UNCHANGED <<granted, dead>>
         \/ /\ UNCHANGED <<issued, dead>>
            /\ \E t \in issued : /\ granted' = granted \cup {CopyOf(t)}
                               /\ \/ CopyOf(t) \in copies
                                  \/ pc[r] \in {"copy", "list"} /\ op[r].secret = t.secret
<1> USE DEF history, redis
<1>1. CASE Insert(r) \/ Select(r) \/ CopyToRedis(r) \/ Del(r) \/ SRem(r) \/ Members(r)
           \/ DelAll(r) \/ LoseDb(r)
  BY <1>1 DEF Insert, Select, CopyToRedis, Del, SRem, Members, DelAll, LoseDb
<1>2. CASE Lookup(r)
  <2> DEFINE hit == {c \in copies : c.secret = op[r].secret}
  <2>1. /\ UNCHANGED <<issued, dead>>
        /\ UNCHANGED granted \/ (hit # {} /\ granted' = granted \cup hit)
    BY <1>2 DEF Lookup
  <2>2. ASSUME hit # {} PROVE \E t \in issued : hit = {CopyOf(t)} /\ CopyOf(t) \in copies
    <3>1. PICK c : c \in copies /\ c.secret = op[r].secret
      BY <2>2
    <3>2. PICK t \in issued : c = CopyOf(t)
      BY <3>1 DEF TokenInv
    <3>3. ASSUME NEW d \in hit PROVE d = c
      <4>1. PICK u \in issued : d = CopyOf(u)
        BY <3>3 DEF TokenInv
      <4>2. u.secret = t.secret
        BY <3>1, <3>2, <3>3, <4>1 DEF CopyOf
      <4>3. QED
        BY <3>2, <4>1, <4>2 DEF TokenInv
    <3>4. QED
      BY <3>1, <3>2, <3>3
  <2>3. QED
    BY <2>1, <2>2
<1>3. CASE List(r) \/ LoseRedis(r)
  <2>1. UNCHANGED <<issued, dead>>
    BY <1>3 DEF List, LoseRedis
  <2>2. \/ UNCHANGED granted
        \/ /\ pc[r] \in {"copy", "list"}
           /\ granted' = granted \cup {CopyOf(t) : t \in got[r]}
    BY <1>3 DEF List, LoseRedis, Accept
  <2>3. pc[r] \in {"copy", "list"} => \E t \in issued : got[r] = {t} /\ t.secret = op[r].secret
    BY DEF TokenInv, Holding
  <2>4. QED
    BY <2>1, <2>2, <2>3
<1>4. QED
  BY <1>1, <1>2, <1>3 DEF Step

LEMMA BuriedNew ==
  ASSUME TypeOK, TokenInv, Apart, NEW r \in Requests, Step(r), r \in alone, ClearedAt(r),
         NEW s \in dead', s \notin dead
  PROVE  Gone(s)'
<1>1. PICK t \in Doomed(op[r]) : t.secret = s /\ (op[r].kind = "delete" \/ s \notin cut)
  BY NewlyDead
<1>2. DelRows(r) /\ pc[r] \in {"delRow", "delRows"} /\ copies' = copies /\ pc'[r] = "idle"
  BY NewlyDead DEF DelRows, Reply, Goto, redis, TypeOK
<1>3. t \in rows /\ t \in issued /\ t.user = op[r].user /\ (op[r].kind = "delete" => s = op[r].secret)
  BY <1>1 DEF Doomed, TokenInv
<1>4. /\ pc[r] = "delRow" => op[r].kind = "delete"
      /\ pc[r] = "delRows" => op[r].kind = "deleteAll"
  BY DEF TypeOK, RequestOK
<1>5. ~HasCopy(s)
  BY <1>1, <1>2, <1>3, <1>4 DEF ClearedAt
<1>6. \A u \in rows' \cup granted' : u.secret # s
  <2>1. rows' = rows \ Doomed(op[r])
    BY <1>2 DEF DelRows
  <2>2. \A u \in rows : u.secret = s => u = t
    BY <1>1, <1>3 DEF TokenInv
  <2>3. \A g \in granted' : g.secret # s
    BY <1>2 DEF DelRows
  <2>4. QED
    BY <1>1, <2>1, <2>2, <2>3
<1>7. \A q \in Requests : pc'[q] \in {"insert", "copy", "list"} => op'[q].secret # s
  <2> SUFFICES ASSUME NEW q \in Requests, pc'[q] \in {"insert", "copy", "list"}
               PROVE  op'[q].secret # s
    OBVIOUS
  <2>1. q # r
    BY <1>2
  <2>2. pc'[q] = pc[q] /\ op'[q] = op[q]
    BY <1>2, <2>1 DEF DelRows, Reply, Goto, TypeOK
  <2>3. Busy(r)
    BY <1>2 DEF Busy
  <2>4. pc[q] \in {"insert", "copy", "list", "delRow"}
    BY <2>2
  <2>5. CASE op[r].kind = "delete"
    BY <1>3, <2>1, <2>2, <2>3, <2>4, <2>5, NoneStored
  <2>6. CASE op[r].kind = "deleteAll"
    BY <1>1, <1>3, <2>1, <2>2, <2>3, <2>4, <2>6, NoneStored
  <2>7. QED
    BY <1>2, <1>4, <2>5, <2>6
<1>8. QED
  BY <1>2, <1>5, <1>6, <1>7 DEF Gone, HasCopy

LEMMA BuriedStays ==
  ASSUME TypeOK, TokenInv, NEW r \in Requests, Step(r), Advances(r), NEW s, Gone(s)
  PROVE  Gone(s)'
<1>1. ~HasCopy(s)'
  BY DEF Gone, HasCopy, Advances
<1>2. \A t \in rows' \cup granted' : t.secret # s
  <2>1. \A t \in rows' : t.secret # s
    BY NewRow DEF Gone
  <2>2. ASSUME NEW t \in issued,
               CopyOf(t) \in copies \/ (pc[r] \in {"copy", "list"} /\ op[r].secret = t.secret)
        PROVE  CopyOf(t).secret # s
    BY <2>2 DEF Gone, HasCopy, CopyOf
  <2>3. DelRows(r) => granted' \subseteq granted
    BY DEF DelRows
  <2>4. \A g \in granted' : g.secret # s
    <3>1. CASE granted' \subseteq granted
      BY <3>1 DEF Gone
    <3>2. CASE ~(granted' \subseteq granted)
      <4>1. PICK t \in issued : /\ granted' = granted \cup {CopyOf(t)}
                               /\ \/ CopyOf(t) \in copies
                                  \/ pc[r] \in {"copy", "list"} /\ op[r].secret = t.secret
        BY <2>3, <3>2, GrantStep
      <4>2. CopyOf(t).secret # s
        BY <2>2, <4>1
      <4>3. \A g \in granted : g.secret # s
        BY DEF Gone
      <4>4. QED
        BY <4>1, <4>2, <4>3
    <3>3. QED
      BY <3>1, <3>2
  <2>5. QED
    BY <2>1, <2>4
<1>3. ASSUME NEW q \in Requests, pc'[q] \in {"insert", "copy", "list"}
      PROVE  op'[q].secret # s
  <2>1. CASE q # r
    BY <1>3, <2>1 DEF Advances, Moves, Gone
  <2>2. CASE q = r
    <3>1. pc'[r] \in {"copy", "list"} /\ op'[r] = op[r]
      BY <1>3, <2>2 DEF Advances
    <3>2. Insert(r) \/ Select(r) \/ CopyToRedis(r)
      BY <3>1 DEF Step, Lookup, List, Del, SRem, DelRows, Members, DelAll,
                  LoseRedis, LoseDb, Accept, Goto, Reply, TypeOK
    <3>3. CASE Insert(r)
      BY <2>2, <3>1, <3>3 DEF Insert, Gone
    <3>4. CASE Select(r)
      <4>1. \E t \in rows : t.secret = op[r].secret
        BY <3>1, <3>4 DEF Select, Reply, Goto, TypeOK, Valid
      <4>2. QED
        BY <2>2, <3>1, <4>1 DEF Gone
    <3>5. CASE CopyToRedis(r)
      BY <2>2, <3>1, <3>5 DEF CopyToRedis, Gone
    <3>6. QED
      BY <3>2, <3>3, <3>4, <3>5
  <2>3. QED
    BY <2>1, <2>2
<1>4. QED
  BY <1>1, <1>2, <1>3 DEF Gone

Deletion == Apart /\ (\A r \in alone : ClearedAt(r)) /\ Buried

LEMMA DeletionStep ==
  ASSUME TypeOK, TokenInv, Listing, Deletion, [Next]_vars
  PROVE  Deletion'
<1> USE DEF Deletion
<1>0. alone \subseteq Requests
  BY DEF TypeOK
<1>1. ASSUME NEW r \in Requests, Step(r), Advances(r)
      PROVE  Deletion'
  <2>1. Apart'
    BY <1>1, ApartAdvance
  <2>2. alone' = alone
    BY <1>1 DEF Advances
  <2>3. \A q \in alone' : ClearedAt(q)'
    BY <1>0, <1>1, <2>2, ClearedOthers, ClearedOwn
  <2>4. \A s \in dead' : Gone(s)'
    BY <1>1, NewlyDead, BuriedNew, BuriedStays DEF Buried
  <2>5. QED
    BY <2>1, <2>3, <2>4 DEF Buried
<1>2. ASSUME NEW r \in Requests, NEW c, Opens(r, c)
      PROVE  Deletion'
  <2>1. Apart'
    BY <1>2, ApartStart
  <2>2. /\ \A q \in Requests \ {r} : pc'[q] = pc[q] /\ op'[q] = op[q] /\ got'[q] = got[q]
        /\ UNCHANGED <<rows, copies, granted, dead, cut>> /\ alone' \subseteq alone \cup {r}
        /\ op'[r] = c /\ pc'[r] \in {"insert", "lookup", "del", "members"}
    BY <1>2 DEF Opens, Moves
  <2>3. ASSUME NEW q \in alone' PROVE ClearedAt(q)'
    <3>1. CASE q = r
      BY <2>2, <3>1 DEF ClearedAt
    <3>2. CASE q # r
      BY <1>0, <2>2, <3>2 DEF ClearedAt, HasCopy
    <3>3. QED
      BY <3>1, <3>2
  <2>4. pc'[r] = "insert" => c.secret \notin IssuedSecrets
    BY <1>2 DEF Opens
  <2>5. dead \subseteq IssuedSecrets
    BY DEF TokenInv
  <2>6. ASSUME NEW s \in dead PROVE Gone(s)'
    <3>1. Gone(s)
      BY DEF Buried
    <3>2. \A q \in Requests : pc'[q] \in {"insert", "copy", "list"} => op'[q].secret # s
      BY <2>2, <2>4, <2>5, <3>1 DEF Gone
    <3>3. QED
      BY <2>2, <3>1, <3>2 DEF Gone, HasCopy
  <2>7. QED
    BY <2>1, <2>2, <2>3, <2>6 DEF Buried
<1>3. CASE tokensDeleteExpired \/ UNCHANGED vars
  <2>1. rows' \subseteq rows
    BY <1>3 DEF tokensDeleteExpired, vars
  <2>2. UNCHANGED <<copies, granted, pc, op, got, issued, alone, dead, cut>>
    BY <1>3 DEF tokensDeleteExpired, vars, redis, history
  <2>3. Apart' /\ \A q \in alone' : ClearedAt(q)'
    BY <2>1, <2>2 DEF Apart, Busy, ClearedAt, HasCopy
  <2>4. Buried'
    BY <2>1, <2>2 DEF Buried, Gone, HasCopy
  <2>5. QED
    BY <2>3, <2>4
<1>4. CASE Crash
  <2>1. UNCHANGED <<rows, copies, granted, alone, dead>> /\ \A q \in Requests : pc'[q] = "idle"
    BY <1>4 DEF Crash, redis
  <2>2. Apart' /\ \A q \in alone' : ClearedAt(q)'
    BY <1>0, <2>1 DEF Apart, Busy, ClearedAt
  <2>3. Buried'
    BY <2>1 DEF Buried, Gone, HasCopy
  <2>4. QED
    BY <2>2, <2>3
<1>5. CASE Flush
  <2>1. UNCHANGED <<rows, granted, pc, op, got, issued, alone, dead>> /\ copies' = {}
    BY <1>5 DEF Flush
  <2>2. Apart' /\ \A q \in alone' : ClearedAt(q)'
    BY <2>1 DEF Apart, Busy, ClearedAt, HasCopy
  <2>3. Buried'
    BY <2>1 DEF Buried, Gone, HasCopy
  <2>4. QED
    BY <2>2, <2>3
<1>6. QED
  BY <1>1, <1>2, <1>3, <1>4, <1>5, NextCases

DeletionInv == ListInv /\ Deletion

LEMMA DeletionInvariance == Spec => []DeletionInv
<1>1. Init => Deletion
  BY DEF Init, Deletion, Apart, Buried
<1>2. ListInv /\ Deletion /\ [Next]_vars => Deletion'
  BY DeletionStep DEF ListInv
<1>3. QED
  BY <1>1, <1>2, ListInvariance, PTL DEF Spec, DeletionInv

\* A token that a deletion has removed while no other call worked on it is in
\* neither store again and lets nobody in, for all the calls and faults that follow.
THEOREM DeletionCorrect == Spec => []DeletedStayDeleted
<1>1. DeletionInv => DeletedStayDeleted
  BY DEF DeletionInv, Deletion, Buried, Gone, HasCopy, DeletedStayDeleted
<1>2. QED
  BY <1>1, DeletionInvariance, PTL

-----------------------------------------------------------------------------
(* The store that the rest of the server sees.                             *)

Shown == {CopyOf(t) : t \in issued}

StoreStep == [Store!Make \/ Store!Grant \/ Store!Delete]_<<Shown, dead, granted>>

LEMMA DeletionShown ==
  ASSUME TypeOK, TokenInv, Deletion, NEW r \in Requests, DelRows(r)
  PROVE  StoreStep
<1> DEFINE D == IF r \in alone
                THEN {d \in Doomed(op[r]) : op[r].kind = "delete" \/ d.secret \notin cut}
                ELSE {}
           T == {CopyOf(d) : d \in D}
<1>1. /\ dead' = dead \cup {d.secret : d \in D}
      /\ granted' = {g \in granted : g.secret \notin dead'}
      /\ issued' = issued
  BY DEF DelRows
<1>2. \A d \in D : d \in issued /\ d \in Token /\ d.user = op[r].user
  BY DEF Doomed, TokenInv, TypeOK
<1> HIDE DEF D
<1>3. Shown' = Shown
  BY <1>1 DEF Shown
<1>4. CASE D = {}
  <2>1. dead' = dead
    BY <1>1, <1>4
  <2>2. \A g \in granted : g.secret \notin dead
    BY DEF Deletion, Buried, Gone
  <2>3. granted' = granted
    BY <1>1, <2>1, <2>2
  <2>4. QED
    BY <1>3, <2>1, <2>3 DEF StoreStep
<1>5. CASE D # {}
  <2>1. op[r].user \in Users
    BY <1>2, <1>5 DEF Token
  <2>2. T \in SUBSET {t \in Shown : t.user = op[r].user}
    BY <1>2 DEF Shown, CopyOf
  <2>3. {t.secret : t \in T} = {d.secret : d \in D}
    <3>1. \A d \in D : CopyOf(d).secret = d.secret
      BY DEF CopyOf
    <3>2. ASSUME NEW s \in {t.secret : t \in T} PROVE s \in {d.secret : d \in D}
      BY <3>1
    <3>3. ASSUME NEW d \in D PROVE d.secret \in {t.secret : t \in T}
      BY <3>1
    <3>4. QED
      BY <3>2, <3>3
  <2> HIDE DEF T
  <2>4. dead' = dead \cup {t.secret : t \in T}
    BY <1>1, <2>3
  <2>5. Store!Delete
    BY <1>1, <1>3, <2>1, <2>2, <2>4 DEF Store!Delete, Shown, CopyOf
  <2>6. QED
    BY <2>5 DEF StoreStep
<1>6. QED
  BY <1>4, <1>5

LEMMA GrantShown ==
  ASSUME TokenInv, Deletion, NEW r \in Requests, UNCHANGED <<issued, dead>>,
         NEW t \in issued, granted' = granted \cup {CopyOf(t)},
         CopyOf(t) \in copies \/ (pc[r] \in {"copy", "list"} /\ op[r].secret = t.secret)
  PROVE  Store!Grant
<1>1. CopyOf(t) \in Shown /\ CopyOf(t).secret = t.secret /\ Shown' = Shown
  BY DEF Shown, CopyOf
<1>2. t.secret \notin dead
  BY <1>1 DEF Deletion, Buried, Gone, HasCopy
<1>3. QED
  BY <1>1, <1>2 DEF Store!Grant, Shown, CopyOf

LEMMA CreationShown ==
  ASSUME TypeOK', NEW t \in issued', t.secret \notin IssuedSecrets,
         issued' = issued \cup {t}, UNCHANGED <<dead, granted>>
  PROVE  Store!Make
<1>1. t \in Token
  BY DEF TypeOK
<1>2. t.secret \in Secrets /\ t.user \in Users /\ t.access \in Access
  BY <1>1 DEF Token
<1>3. \A u \in Shown : u.secret # t.secret
  BY DEF Shown, CopyOf, IssuedSecrets
<1>4. Shown' = Shown \cup {[secret |-> t.secret, user |-> t.user, access |-> t.access]}
  BY DEF Shown, CopyOf
<1>5. QED
  BY <1>2, <1>3, <1>4 DEF Store!Make, Shown, CopyOf

LEMMA StepShown == DeletionInv /\ [Next]_vars /\ TypeOK' => StoreStep
<1> SUFFICES ASSUME DeletionInv, [Next]_vars, TypeOK' PROVE StoreStep
  OBVIOUS
<1> USE DEF DeletionInv, ListInv
<1>1. UNCHANGED <<issued, dead, granted>> => StoreStep
  BY DEF StoreStep, Shown
<1>2. ASSUME NEW r \in Requests, NEW c, Opens(r, c) PROVE StoreStep
  <2>1. UNCHANGED <<dead, granted>>
    BY <1>2 DEF Opens
  <2>2. CASE c.kind # "create"
    BY <1>1, <1>2, <2>1, <2>2 DEF Opens
  <2>3. CASE c.kind = "create"
    <3>1. c.secret \notin IssuedSecrets
      BY <1>2, <2>3 DEF Opens
    <3>2. PICK t \in issued' : t.secret = c.secret /\ issued' = issued \cup {t}
      BY <1>2, <2>3 DEF Opens
    <3>3. QED
      BY <2>1, <3>1, <3>2, CreationShown DEF StoreStep
  <2>4. QED
    BY <2>2, <2>3
<1>3. ASSUME NEW r \in Requests, Step(r), Advances(r) PROVE StoreStep
  <2>1. issued' = issued
    BY <1>3 DEF Advances
  <2>2. CASE DelRows(r)
    BY <2>2, DeletionShown
  <2>3. CASE UNCHANGED <<granted, dead>>
    BY <1>1, <2>1, <2>3
  <2>4. CASE ~DelRows(r) /\ ~UNCHANGED <<granted, dead>>
    <3>1. PICK t \in issued :
            /\ granted' = granted \cup {CopyOf(t)}
            /\ \/ CopyOf(t) \in copies
               \/ pc[r] \in {"copy", "list"} /\ op[r].secret = t.secret
      BY <1>3, <2>4, GrantStep
    <3>2. UNCHANGED <<issued, dead>>
      BY <1>3, <2>4, GrantStep
    <3>3. Store!Grant
      BY <3>1, <3>2, GrantShown
    <3>4. QED
      BY <3>3 DEF StoreStep
  <2>5. QED
    BY <2>2, <2>3, <2>4
<1>4. CASE tokensDeleteExpired \/ Crash \/ Flush \/ UNCHANGED vars
  BY <1>1, <1>4 DEF tokensDeleteExpired, Crash, Flush, vars, history
<1>5. QED
  BY <1>2, <1>3, <1>4, NextCases

\* Rows, copies and lists together are a store whose tokens never change, that lets
\* clients in with nothing else, and not with a token that is deleted for good.
THEOREM TokensRefinement == Spec => ImplementsTokenStore
<1>1. Init => Store!Init
  BY DEF Init, Store!Init
<1>2. StoreStep <=> [Store!Make \/ Store!Grant \/ Store!Delete]_<<
          {[secret |-> t.secret, user |-> t.user, access |-> t.access] : t \in issued},
          dead, granted>>
  BY DEF StoreStep, Shown, CopyOf
<1>3. QED
  BY <1>1, <1>2, StepShown, DeletionInvariance, TypeCorrect, PTL
     DEF Spec, ImplementsTokenStore, Store!Spec
=============================================================================
