----------------------------- MODULE AuthProofs -----------------------------
(***************************************************************************)
(* Proofs about Auth, for any addresses, passwords, requests and bounds.   *)
(***************************************************************************)
EXTENDS Auth, FiniteSetTheorems, TLAPS

Accounts == [id : Nat \ {0}, email : Emails, password : Passwords]
Granted  == [secret : Secrets, user : Ids, access : AccessRead .. AccessReadWrite]
Calls    == [route : Routes \cup {""}, creds : Creds, user : users \cup {NoUser}]
Contexts == [user : users \cup {NoUser}, access : AccessNone .. AccessReadWrite]

\* The part of TypeOK about one request.
RequestTyped(r) ==
  /\ pc[r]  \in {"idle", "select", "check", "insert", "grant"}
  /\ op[r]  \in Calls
  /\ env[r] \in Contexts
  /\ RequestOK(r)

\* Only r goes on.
Only(r) ==
  /\ pc'  = [pc  EXCEPT ![r] = pc'[r]]
  /\ op'  = [op  EXCEPT ![r] = op'[r]]
  /\ env' = [env EXCEPT ![r] = env'[r]]

Tables == users \subseteq Accounts /\ tokens \subseteq Granted

-----------------------------------------------------------------------------
(* Data.                                                                   *)

LEMMA EmailTyped == NoEmail.form = "normal" /\ \A e \in Emails : userNormalizeEmail(e) \in Emails
BY DEF NoEmail, Emails, userNormalizeEmail

\* What each kind of credentials brings.
LEMMA CredsTyped ==
  ASSUME NEW c \in Creds
  PROVE  \/ c = NoCreds /\ c.method = ""
         \/ c.method = "Basic" /\ c.email \in Emails /\ c.password \in Passwords
         \/ c.method = "Token" /\ c.secret \in Secrets
<1>1. CASE c = NoCreds
  BY <1>1 DEF NoCreds
<1>2. CASE c \in PasswordCreds
  <2>1. PICK e \in Emails, p \in Passwords :
          c = Basic(e, p)
    BY <1>2 DEF PasswordCreds
  <2>2. c.method = "Basic" /\ c.email = e /\ c.password = p
    BY <2>1 DEF Basic, NoCreds
  <2> QED
    BY <2>2
<1>3. CASE c \in TokenCreds
  BY <1>3 DEF TokenCreds, NoCreds
<1> QED
  BY <1>1, <1>2, <1>3 DEF Creds

LEMMA NoOneTyped ==
  /\ NoCall \in Calls /\ NoIdentity \in Contexts
  /\ NoUser.id = 0 /\ NoIdentity.user = NoUser /\ NoCall.user = NoUser /\ NoCall.creds = NoCreds
<1>1. NoCreds \in Creds
  BY DEF Creds
<1>2. NoIdentity.user = NoUser /\ NoIdentity \in Contexts
  BY DEF NoIdentity, Contexts, AccessNone, AccessReadWrite
<1>3. NoUser.id = 0
  BY DEF NoUser
<1>4. NoCall \in Calls /\ NoCall.user = NoUser /\ NoCall.creds = NoCreds
  BY <1>1 DEF NoCall, Calls
<1> QED
  BY <1>2, <1>3, <1>4

\* No account is NoUser.
LEMMA AccountsAreSome == Tables => NoUser \notin users
BY NoOneTyped DEF Tables, Accounts

AllTyped ==
  /\ Tables
  /\ pc  = [r \in Requests |-> pc[r]]
  /\ op  = [r \in Requests |-> op[r]]
  /\ env = [r \in Requests |-> env[r]]
  /\ \A r \in Requests : RequestTyped(r)

\* TypeOK, request by request.
LEMMA Split == TypeOK <=> AllTyped
<1>1. TypeOK => AllTyped
  BY DEF AllTyped, TypeOK, Tables, Accounts, Granted, RequestTyped, Calls, Contexts
<1>2. AllTyped =>
        /\ users \subseteq [id : Nat \ {0}, email : Emails, password : Passwords]
        /\ tokens \subseteq [secret : Secrets, user : Ids, access : AccessRead .. AccessReadWrite]
        /\ \A r \in Requests :
             /\ pc[r] \in {"idle", "select", "check", "insert", "grant"}
             /\ op[r] \in [route : Routes \cup {""}, creds : Creds, user : users \cup {NoUser}]
             /\ env[r] \in [user : users \cup {NoUser}, access : AccessNone .. AccessReadWrite]
             /\ RequestOK(r)
  BY DEF AllTyped, Tables, Accounts, Granted, RequestTyped, Calls, Contexts
<1> QED
  BY <1>1, <1>2 DEF TypeOK, AllTyped

-----------------------------------------------------------------------------
(* Types.                                                                  *)

LEMMA InitTyped == Init => TypeOK
<1> SUFFICES ASSUME Init PROVE TypeOK
  OBVIOUS
<1>1. Tables
  BY DEF Init, Tables
<1>2. ASSUME NEW r \in Requests PROVE RequestTyped(r)
  BY NoOneTyped DEF Init, RequestTyped, RequestOK
<1> QED
  BY <1>1, <1>2, Split DEF Init, AllTyped

\* If one request goes on and stays well typed, and no account goes, all is.
LEMMA Frame ==
  ASSUME NEW r \in Requests, TypeOK, Only(r), users \subseteq users', Tables', RequestTyped(r)'
  PROVE  TypeOK'
<1>1. \A q \in Requests : RequestTyped(q)
  BY Split DEF AllTyped
<1>2. /\ pc'  = [q \in Requests |-> pc'[q]]
      /\ op'  = [q \in Requests |-> op'[q]]
      /\ env' = [q \in Requests |-> env'[q]]
  BY Split DEF Only, AllTyped
<1>3. ASSUME NEW q \in Requests PROVE RequestTyped(q)'
  <2>1. CASE q = r
    BY <2>1
  <2>2. CASE q # r
    <3>1. pc'[q] = pc[q] /\ op'[q] = op[q] /\ env'[q] = env[q]
      BY <2>2, Split DEF Only, AllTyped
    <3>2. op[q] \in Calls' /\ env[q] \in Contexts'
      BY <1>1 DEF RequestTyped, Calls, Contexts
    <3>3. Holder(q)' = Holder(q)
      BY <3>1 DEF Holder
    <3>4. RequestOK(q)'
      BY <1>1, <3>1, <3>3 DEF RequestTyped, RequestOK
    <3> QED
      BY <1>1, <3>1, <3>2, <3>4 DEF RequestTyped
  <2> QED
    BY <2>1, <2>2
<1>4. AllTyped'
  BY <1>2, <1>3 DEF AllTyped
<1> QED
  BY <1>4, Split, PTL

\* The client has its answer.
LEMMA ReplyTyped ==
  ASSUME NEW r \in Requests, TypeOK, Reply(r), users \subseteq users'
  PROVE  Only(r) /\ RequestTyped(r)'
<1>1. AllTyped
  BY Split
<1>2. Only(r) /\ pc'[r] = "idle" /\ op'[r] = NoCall /\ env'[r] = NoIdentity
  BY <1>1 DEF AllTyped, Reply, Goto, Only
<1>3. NoCall \in Calls' /\ NoIdentity \in Contexts'
  BY NoOneTyped DEF Calls, Contexts
<1> QED
  BY <1>2, <1>3 DEF RequestTyped, RequestOK

\* A request enters its handler.
LEMMA HandleTyped ==
  ASSUME NEW r \in Requests, TypeOK, NEW call \in Calls, NEW identity \in Contexts,
         HandleRequest(r, call, identity), UNCHANGED <<users, tokens>>
  PROVE  Only(r) /\ RequestTyped(r)'
<1>1. AllTyped
  BY Split
<1>2. Calls' = Calls /\ Contexts' = Contexts
  BY DEF Calls, Contexts
<1>3. CASE Reply(r)
  BY <1>3, ReplyTyped
<1>4. CASE ~Reply(r)
  <2>1. /\ op'  = [op  EXCEPT ![r] = call]
        /\ env' = [env EXCEPT ![r] = identity]
        /\ \/ call.route = "signup" /\ Goto(r, "insert")
           \/ call.route = "tokens" /\ mustAuthenticate(identity) /\ Goto(r, "grant")
    BY <1>4 DEF HandleRequest
  <2>2. op'[r] = call /\ env'[r] = identity
    BY <1>1, <2>1 DEF AllTyped
  <2>3. CASE call.route = "signup" /\ Goto(r, "insert")
    <3>1. Only(r) /\ pc'[r] = "insert"
      BY <1>1, <2>1, <2>3 DEF AllTyped, Goto, Only
    <3> QED
      BY <1>2, <2>2, <2>3, <3>1 DEF RequestTyped, RequestOK
  <2>4. CASE call.route = "tokens" /\ mustAuthenticate(identity) /\ Goto(r, "grant")
    <3>1. Only(r) /\ pc'[r] = "grant"
      BY <1>1, <2>1, <2>4 DEF AllTyped, Goto, Only
    <3>2. identity.user \in users
      BY <2>4 DEF mustAuthenticate, Contexts
    <3>3. Holder(r)' = identity.user
      BY <2>2, <2>4 DEF Holder
    <3> QED
      BY <1>2, <2>2, <2>4, <3>1, <3>2, <3>3 DEF RequestTyped, RequestOK
  <2> QED
    BY <2>1, <2>3, <2>4
<1> QED
  BY <1>3, <1>4

LEMMA ArriveTyped ==
  ASSUME NEW r \in Requests, TypeOK, Arrive(r)
  PROVE  TypeOK'
<1>1. AllTyped /\ UNCHANGED <<users, tokens>>
  BY Split DEF Arrive
<1>2. Tables' /\ users \subseteq users'
  BY <1>1 DEF AllTyped, Tables, Granted, Ids
<1>3. PICK route \in Routes, creds \in Creds :
        LET call == [NoCall EXCEPT !.route = route, !.creds = creds]
        IN  IF creds = NoCreds
            THEN HandleRequest(r, call, NoIdentity)
            ELSE /\ Goto(r, IF creds.method = "Basic" THEN "select" ELSE "check")
                 /\ op' = [op EXCEPT ![r] = call]
                 /\ UNCHANGED env
  BY DEF Arrive
<1> DEFINE call == [NoCall EXCEPT !.route = route, !.creds = creds]
<1>4. call \in Calls /\ call.creds = creds
  BY DEF NoCall, Calls
<1> HIDE DEF call
<1>5. CASE creds = NoCreds
  <2>1. HandleRequest(r, call, NoIdentity)
    BY <1>3, <1>5 DEF call
  <2> QED
    BY <1>1, <1>2, <1>4, <2>1, HandleTyped, NoOneTyped, Frame
<1>6. CASE creds # NoCreds
  <2>1. /\ Goto(r, IF creds.method = "Basic" THEN "select" ELSE "check")
        /\ op' = [op EXCEPT ![r] = call]
        /\ UNCHANGED env
    BY <1>3, <1>6 DEF call
  <2>2. /\ Only(r) /\ op'[r] = call /\ env'[r] = env[r]
        /\ pc'[r] = IF creds.method = "Basic" THEN "select" ELSE "check"
    BY <1>1, <2>1 DEF AllTyped, Goto, Only
  <2>3. env[r] \in Contexts /\ env[r] = NoIdentity
    BY <1>1 DEF Arrive, AllTyped, RequestTyped, RequestOK
  <2>4. creds.method \in {"Basic", "Token"}
    BY <1>6, CredsTyped
  <2>5. op'[r] \in Calls' /\ env'[r] \in Contexts'
    BY <1>1, <1>4, <2>2, <2>3 DEF Calls, Contexts
  <2>6. RequestTyped(r)'
    BY <1>4, <2>2, <2>3, <2>4, <2>5 DEF RequestTyped, RequestOK
  <2> QED
    BY <1>2, <2>2, <2>6, Frame
<1> QED
  BY <1>5, <1>6

LEMMA SelectTyped ==
  ASSUME NEW r \in Requests, TypeOK, Select(r)
  PROVE  TypeOK'
<1>1. AllTyped /\ UNCHANGED <<users, tokens>>
  BY Split DEF Select
<1>2. Tables' /\ users \subseteq users'
  BY <1>1 DEF AllTyped, Tables, Granted, Ids
<1>3. op[r] \in Calls
  BY <1>1 DEF AllTyped, RequestTyped
<1>4. CASE Reply(r)
  BY <1>2, <1>4, ReplyTyped, Frame
<1>5. CASE ~Reply(r)
  <2>1. PICK u \in users : HandleRequest(r, op[r], [user |-> u, access |-> AccessReadWrite])
    BY <1>5 DEF Select
  <2>2. [user |-> u, access |-> AccessReadWrite] \in Contexts
    BY DEF Contexts, AccessReadWrite, AccessNone
  <2> QED
    BY <1>1, <1>2, <1>3, <2>1, <2>2, HandleTyped, Frame
<1> QED
  BY <1>4, <1>5

LEMMA CheckTyped ==
  ASSUME NEW r \in Requests, TypeOK, Check(r)
  PROVE  TypeOK'
<1>1. AllTyped /\ UNCHANGED <<users, tokens>>
  BY Split DEF Check
<1>2. Tables' /\ users \subseteq users'
  BY <1>1 DEF AllTyped, Tables, Granted, Ids
<1>3. op[r] \in Calls
  BY <1>1 DEF AllTyped, RequestTyped
<1>4. CASE Reply(r)
  BY <1>2, <1>4, ReplyTyped, Frame
<1>5. CASE ~Reply(r)
  <2>1. PICK t \in tokens, u \in users : HandleRequest(r, op[r], [user |-> u, access |-> t.access])
    BY <1>5 DEF Check
  <2>2. [user |-> u, access |-> t.access] \in Contexts
    BY <1>1 DEF AllTyped, Tables, Granted, Contexts, AccessRead, AccessReadWrite, AccessNone
  <2> QED
    BY <1>1, <1>2, <1>3, <2>1, <2>2, HandleTyped, Frame
<1> QED
  BY <1>4, <1>5

\* TypeOK needs a next number for the next account.
TypeInv == TypeOK /\ IsFiniteSet(users)

LEMMA NewUsersTyped ==
  ASSUME IsFiniteSet(users), NEW user \in NewUsers
  PROVE  /\ user \in Accounts
         /\ user.id = Cardinality(users) + 1
         /\ user.email.form = "normal"
<1>1. PICK e \in Emails, p \in Passwords :
        user = [id |-> Cardinality(users) + 1, email |-> userNormalizeEmail(e), password |-> p]
  BY DEF NewUsers
<1>2. Cardinality(users) \in Nat
  BY FS_CardinalityType
<1>3. userNormalizeEmail(e).form = "normal" /\ userNormalizeEmail(e) \in Emails
  BY DEF userNormalizeEmail, Emails
<1> QED
  BY <1>1, <1>2, <1>3 DEF Accounts

\* The insertion of a row.
LEMMA InsertedTables ==
  ASSUME TypeInv, NEW user \in NewUsers, users' = users \cup {user}, UNCHANGED tokens
  PROVE  Tables' /\ IsFiniteSet(users')
<1>1. Tables /\ user \in Accounts
  BY Split, NewUsersTyped DEF TypeInv, AllTyped
<1>2. Ids \subseteq Ids'
  BY DEF Ids
<1>3. Tables'
  BY <1>1, <1>2 DEF Tables, Granted
<1>4. IsFiniteSet(users \cup {user})
  BY FS_AddElement DEF TypeInv
<1> QED
  BY <1>3, <1>4

\* The creation of a token.
LEMMA MadeTables ==
  ASSUME NEW r \in Requests, TypeOK, pc[r] = "grant", MakeToken(r), UNCHANGED users
  PROVE  Tables'
<1>1. Tables /\ Holder(r) \in users
  BY Split DEF AllTyped, RequestTyped, RequestOK
<1>2. PICK s \in Secrets, access \in {AccessRead, AccessWrite, AccessReadWrite} :
        tokens' = tokens \cup {[secret |-> s, user |-> Holder(r).id, access |-> access]}
  BY DEF MakeToken
<1>3. Ids' = Ids /\ Holder(r).id \in Ids
  BY <1>1 DEF Ids
<1>4. [secret |-> s, user |-> Holder(r).id, access |-> access] \in Granted
  BY <1>3 DEF Granted, AccessRead, AccessWrite, AccessReadWrite
<1> QED
  BY <1>1, <1>2, <1>3, <1>4 DEF Tables, Granted

LEMMA InsertTyped ==
  ASSUME NEW r \in Requests, TypeInv, Insert(r)
  PROVE  TypeInv'
<1>1. AllTyped
  BY Split DEF TypeInv
<1>2. PICK user \in NewUsers :
        IF Accepts(user)
        THEN /\ users' = users \cup {user}
             /\ Goto(r, "grant")
             /\ op' = [op EXCEPT ![r].user = user]
             /\ UNCHANGED env
        ELSE Reply(r) /\ UNCHANGED users
  BY DEF Insert
<1>3. CASE Accepts(user)
  <2>1. Tables' /\ IsFiniteSet(users') /\ users \subseteq users'
    BY <1>2, <1>3, InsertedTables DEF Insert
  <2>2. op[r] \in Calls /\ env[r] \in Contexts /\ op[r].route = "signup"
    BY <1>1 DEF Insert, AllTyped, RequestTyped, RequestOK
  <2>3. /\ Only(r) /\ pc'[r] = "grant" /\ env'[r] = env[r]
        /\ op'[r] = [op[r] EXCEPT !.user = user]
    BY <1>1, <1>2, <1>3 DEF AllTyped, Goto, Only
  <2>4. /\ op'[r] \in Calls' /\ env'[r] \in Contexts'
        /\ op'[r].route = "signup" /\ op'[r].user = user
    BY <1>2, <1>3, <2>2, <2>3 DEF Calls, Contexts
  <2>5. Holder(r)' = user /\ user \in users'
    BY <1>2, <1>3, <2>4 DEF Holder
  <2>6. RequestTyped(r)'
    BY <2>3, <2>4, <2>5 DEF RequestTyped, RequestOK
  <2> QED
    BY <2>1, <2>3, <2>6, Frame DEF TypeInv
<1>4. CASE ~Accepts(user)
  <2>1. Tables' /\ users \subseteq users' /\ Reply(r)
    BY <1>1, <1>2, <1>4 DEF Insert, AllTyped, Tables, Granted, Ids
  <2> QED
    BY <1>2, <1>4, <2>1, ReplyTyped, Frame DEF TypeInv
<1> QED
  BY <1>3, <1>4

LEMMA GrantTyped ==
  ASSUME NEW r \in Requests, TypeOK, Grant(r)
  PROVE  TypeOK'
BY MadeTables, ReplyTyped, Frame DEF Grant

LEMMA LoseTyped ==
  ASSUME NEW r \in Requests, TypeInv, Lose(r)
  PROVE  TypeInv'
<1>1. AllTyped /\ Reply(r)
  BY Split DEF TypeInv, Lose
<1>2. CASE \E user \in NewUsers : users' = users \cup {user} /\ UNCHANGED tokens
  BY <1>1, <1>2, InsertedTables, ReplyTyped, Frame DEF TypeInv
<1>3. CASE pc[r] = "grant" /\ MakeToken(r) /\ UNCHANGED users
  BY <1>1, <1>3, MadeTables, ReplyTyped, Frame DEF TypeInv
<1>4. CASE UNCHANGED <<users, tokens>>
  <2>1. Tables'
    BY <1>1, <1>4 DEF AllTyped, Tables, Granted, Ids
  <2> QED
    BY <1>1, <1>4, <2>1, ReplyTyped, Frame DEF TypeInv
<1> QED
  BY <1>2, <1>3, <1>4 DEF Lose

LEMMA StutterTyped == TypeInv /\ UNCHANGED vars => TypeInv'
BY DEF TypeInv, TypeOK, vars, Ids, RequestOK, Holder

LEMMA NextTyped == TypeInv /\ [Next]_vars => TypeInv'
<1> SUFFICES ASSUME TypeInv, Next PROVE TypeInv'
  BY StutterTyped
<1>1. PICK r \in Requests :
        Arrive(r) \/ Select(r) \/ Check(r) \/ Insert(r) \/ Grant(r) \/ Lose(r)
  BY DEF Next
<1>2. CASE Arrive(r)
  BY <1>2, ArriveTyped DEF TypeInv, Arrive
<1>3. CASE Select(r)
  BY <1>3, SelectTyped DEF TypeInv, Select
<1>4. CASE Check(r)
  BY <1>4, CheckTyped DEF TypeInv, Check
<1>5. CASE Insert(r)
  BY <1>5, InsertTyped
<1>6. CASE Grant(r)
  BY <1>6, GrantTyped DEF TypeInv, Grant
<1>7. CASE Lose(r)
  BY <1>7, LoseTyped
<1> QED
  BY <1>1, <1>2, <1>3, <1>4, <1>5, <1>6, <1>7

LEMMA InitTypeInv == Init => TypeInv
BY InitTyped, FS_EmptySet DEF TypeInv, Init

LEMMA TypeInvCorrect == Spec => []TypeInv
BY InitTypeInv, NextTyped, PTL DEF Spec

\* Every reachable state is well typed: what a request holds goes with the command
\* it is about to send, and a token is only made for an account of the table.
THEOREM TypeCorrect == Spec => []TypeOK
<1>1. TypeInv => TypeOK
  BY DEF TypeInv
<1> QED
  BY <1>1, TypeInvCorrect, PTL

-----------------------------------------------------------------------------
(* Accounts.                                                               *)

\* A step adds at most one account, which the table accepts.
LEMMA UsersStep ==
  Next => \/ UNCHANGED users
          \/ \E user \in NewUsers : Accepts(user) /\ users' = users \cup {user}
<1> SUFFICES ASSUME NEW r \in Requests,
                    Arrive(r) \/ Select(r) \/ Check(r) \/ Insert(r) \/ Grant(r) \/ Lose(r)
             PROVE  \/ UNCHANGED users
                    \/ \E user \in NewUsers : Accepts(user) /\ users' = users \cup {user}
  BY DEF Next
<1>1. CASE Arrive(r) \/ Select(r) \/ Check(r) \/ Grant(r)
  BY <1>1 DEF Arrive, Select, Check, Grant
<1>2. CASE Insert(r)
  BY <1>2 DEF Insert
<1>3. CASE Lose(r)
  BY <1>3 DEF Lose
<1> QED
  BY <1>1, <1>2, <1>3

\* Accounts are numbered, and their emails are normalized.
AccountInv ==
  /\ \A u \in users : u.id <= Cardinality(users) /\ u.email.form = "normal"
  /\ OneAccountPerEmail

LEMMA AccountStep == TypeInv /\ AccountInv /\ [Next]_vars => AccountInv'
<1> SUFFICES ASSUME TypeInv, AccountInv, [Next]_vars PROVE AccountInv'
  OBVIOUS
<1>1. CASE UNCHANGED users
  BY <1>1 DEF AccountInv, OneAccountPerEmail
<1>2. CASE Next /\ ~UNCHANGED users
  <2>1. PICK user \in NewUsers : Accepts(user) /\ users' = users \cup {user}
    BY <1>2, UsersStep
  <2>2. user \in Accounts /\ user.id = Cardinality(users) + 1 /\ user.email.form = "normal"
    BY NewUsersTyped DEF TypeInv
  <2>3. Cardinality(users) \in Nat
    BY FS_CardinalityType DEF TypeInv
  <2>4. \A u \in users : u.id \in Nat /\ u.id <= Cardinality(users)
    BY Split DEF TypeInv, AllTyped, Tables, Accounts, AccountInv
  <2>5. user \notin users
    BY <2>2, <2>3, <2>4
  <2>6. Cardinality(users') = Cardinality(users) + 1
    BY <2>1, <2>5, FS_AddElement DEF TypeInv
  <2>7. \A u \in users' : u.id <= Cardinality(users') /\ u.email.form = "normal"
    BY <2>1, <2>2, <2>3, <2>4, <2>6 DEF AccountInv
  <2>8. \A u \in users : u.id # user.id /\ u.email.address # user.email.address
    BY <2>1, <2>2, <2>3, <2>4 DEF Accepts, IsFree
  <2> QED
    BY <2>1, <2>7, <2>8 DEF AccountInv, OneAccountPerEmail
<1> QED
  BY <1>1, <1>2 DEF vars

LEMMA AccountInvCorrect == Spec => [](TypeInv /\ AccountInv)
<1>1. Init => AccountInv
  BY DEF Init, AccountInv, OneAccountPerEmail
<1> QED
  BY <1>1, InitTypeInv, NextTyped, AccountStep, PTL DEF Spec

\* Sign-ups that race for one address make one account, whatever their number,
\* and tokens are of accounts that the table has.
THEOREM AccountsAreOne == Spec => []AccountsSound
<1>1. TypeInv /\ AccountInv => AccountsSound
  BY DEF TypeInv, AccountInv, AccountsSound
<1> QED
  BY <1>1, AccountInvCorrect, PTL

\* An account whose password has no colon can be signed into, however its email is
\* typed and whatever became of the request that made it.
THEOREM AccountsReachable == Spec => []SignInFindsAccount
<1>1. TypeInv /\ AccountInv => SignInFindsAccount
  <2> SUFFICES ASSUME TypeInv, AccountInv, NEW u \in users, NEW e \in Emails,
                      e.address = u.email.address, u.password.tail = NoTail
               PROVE  Matches(u, Basic(e, u.password))
    BY DEF SignInFindsAccount
  <2>1. u.email \in Emails /\ u.password \in Passwords /\ u.email.form = "normal"
    BY Split DEF TypeInv, AllTyped, Tables, Accounts, AccountInv
  <2>2. userNormalizeEmail(e) = u.email
    BY <2>1 DEF userNormalizeEmail, Emails
  <2>3. BeforeColon(u.password) = u.password
    BY <2>1 DEF BeforeColon, Passwords
  <2>4. Basic(e, u.password).email = e /\ Basic(e, u.password).password = u.password
    BY DEF Basic, NoCreds
  <2> QED
    BY <2>2, <2>3, <2>4 DEF Matches
<1> QED
  BY <1>1, AccountInvCorrect, PTL

-----------------------------------------------------------------------------
(* Identities.                                                             *)

ActsFor(r) == env[r].user # NoUser => Presents(op[r].creds, env[r].user.id)

\* What credentials show they go on showing.
LEMMA PresentsStays ==
  ASSUME users \subseteq users', tokens \subseteq tokens', NEW creds, NEW id, Presents(creds, id)
  PROVE  Presents(creds, id)'
BY DEF Presents

LEMMA FrameActs ==
  ASSUME NEW r \in Requests, TypeOK, ActsAsPresented, Only(r),
         users \subseteq users', tokens \subseteq tokens', ActsFor(r)'
  PROVE  ActsAsPresented'
<1>1. AllTyped
  BY Split
<1>2. ASSUME NEW q \in Requests PROVE ActsFor(q)'
  <2>1. CASE q = r
    BY <2>1
  <2>2. CASE q # r
    <3>1. op'[q] = op[q] /\ env'[q] = env[q]
      BY <1>1, <2>2 DEF AllTyped, Only
    <3>2. env[q].user # NoUser => Presents(op[q].creds, env[q].user.id)
      BY DEF ActsAsPresented
    <3>3. env[q].user # NoUser => Presents(op[q].creds, env[q].user.id)'
      BY <3>1, <3>2, PresentsStays DEF Presents
    <3> QED
      BY <3>1, <3>3 DEF ActsFor, Presents
  <2> QED
    BY <2>1, <2>2
<1> QED
  BY <1>2 DEF ActsAsPresented, ActsFor

LEMMA ReplyActs ==
  ASSUME NEW r \in Requests, TypeOK, Reply(r)
  PROVE  ActsFor(r)'
<1>1. env'[r] = NoIdentity
  BY Split DEF AllTyped, Reply
<1> QED
  BY <1>1, NoOneTyped DEF ActsFor

LEMMA HandleActs ==
  ASSUME NEW r \in Requests, TypeOK, NEW call, NEW identity,
         HandleRequest(r, call, identity), UNCHANGED <<users, tokens>>,
         identity.user # NoUser => Presents(call.creds, identity.user.id)
  PROVE  ActsFor(r)'
<1>1. CASE Reply(r)
  BY <1>1, ReplyActs
<1>2. CASE ~Reply(r)
  <2>1. op'[r] = call /\ env'[r] = identity
    BY <1>2, Split DEF HandleRequest, AllTyped
  <2> QED
    BY <2>1 DEF ActsFor, Presents
<1> QED
  BY <1>1, <1>2

LEMMA ArriveActs ==
  ASSUME NEW r \in Requests, TypeOK, ActsAsPresented, Arrive(r)
  PROVE  ActsAsPresented'
<1>1. AllTyped /\ UNCHANGED <<users, tokens>>
  BY Split DEF Arrive
<1>2. PICK route \in Routes, creds \in Creds :
        LET call == [NoCall EXCEPT !.route = route, !.creds = creds]
        IN  IF creds = NoCreds
            THEN HandleRequest(r, call, NoIdentity)
            ELSE /\ Goto(r, IF creds.method = "Basic" THEN "select" ELSE "check")
                 /\ op' = [op EXCEPT ![r] = call]
                 /\ UNCHANGED env
  BY DEF Arrive
<1> DEFINE call == [NoCall EXCEPT !.route = route, !.creds = creds]
<1>3. call \in Calls
  BY DEF NoCall, Calls
<1> HIDE DEF call
<1>4. CASE creds = NoCreds
  <2>1. HandleRequest(r, call, NoIdentity)
    BY <1>2, <1>4 DEF call
  <2>2. Only(r)
    BY <1>1, <1>3, <2>1, HandleTyped, NoOneTyped
  <2>3. ActsFor(r)'
    BY <1>1, <2>1, HandleActs, NoOneTyped
  <2> QED
    BY <1>1, <2>2, <2>3, FrameActs
<1>5. CASE creds # NoCreds
  <2>1. /\ Goto(r, IF creds.method = "Basic" THEN "select" ELSE "check")
        /\ op' = [op EXCEPT ![r] = call]
        /\ UNCHANGED env
    BY <1>2, <1>5 DEF call
  <2>2. Only(r)
    BY <1>1, <2>1 DEF AllTyped, Goto, Only
  <2>3. env'[r].user = NoUser
    BY <1>1, <2>1, NoOneTyped DEF Arrive, AllTyped, RequestTyped, RequestOK
  <2> QED
    BY <1>1, <2>2, <2>3, FrameActs DEF ActsFor
<1> QED
  BY <1>4, <1>5

LEMMA SelectActs ==
  ASSUME NEW r \in Requests, TypeOK, ActsAsPresented, Select(r)
  PROVE  ActsAsPresented'
<1>1. AllTyped /\ UNCHANGED <<users, tokens>>
  BY Split DEF Select
<1>2. op[r] \in Calls /\ op[r].creds.method = "Basic"
  BY <1>1 DEF Select, AllTyped, RequestTyped, RequestOK
<1>3. CASE Reply(r)
  BY <1>1, <1>3, ReplyTyped, ReplyActs, FrameActs
<1>4. CASE ~Reply(r)
  <2>1. PICK u \in users :
          /\ Matches(u, op[r].creds)
          /\ HandleRequest(r, op[r], [user |-> u, access |-> AccessReadWrite])
    BY <1>4 DEF Select
  <2>2. op[r].creds.email \in Emails /\ op[r].creds.password \in Passwords
    BY <1>2, CredsTyped DEF Calls, NoCreds
  <2>3. u.email.address = op[r].creds.email.address
    BY <2>1, <2>2 DEF Matches, userNormalizeEmail, Emails
  <2>4. u.password.head = op[r].creds.password.head
    BY <2>1, <2>2 DEF Matches, BeforeColon, Passwords
  <2>5. Presents(op[r].creds, u.id)
    BY <1>2, <2>3, <2>4 DEF Presents
  <2>6. [user |-> u, access |-> AccessReadWrite] \in Contexts
    BY DEF Contexts, AccessReadWrite, AccessNone
  <2>7. ActsFor(r)'
    BY <1>1, <2>1, <2>5, HandleActs
  <2> QED
    BY <1>1, <1>2, <2>1, <2>6, <2>7, HandleTyped, FrameActs
<1> QED
  BY <1>3, <1>4

LEMMA CheckActs ==
  ASSUME NEW r \in Requests, TypeOK, ActsAsPresented, Check(r)
  PROVE  ActsAsPresented'
<1>1. AllTyped /\ UNCHANGED <<users, tokens>>
  BY Split DEF Check
<1>2. op[r] \in Calls /\ op[r].creds.method = "Token"
  BY <1>1 DEF Check, AllTyped, RequestTyped, RequestOK
<1>3. CASE Reply(r)
  BY <1>1, <1>3, ReplyTyped, ReplyActs, FrameActs
<1>4. CASE ~Reply(r)
  <2>1. PICK t \in tokens, u \in users :
          /\ t.secret = op[r].creds.secret /\ t.user = u.id
          /\ HandleRequest(r, op[r], [user |-> u, access |-> t.access])
    BY <1>4 DEF Check
  <2>2. Presents(op[r].creds, u.id)
    BY <1>2, <2>1 DEF Presents
  <2>3. [user |-> u, access |-> t.access] \in Contexts
    BY <1>1 DEF AllTyped, Tables, Granted, Contexts, AccessRead, AccessReadWrite, AccessNone
  <2>4. ActsFor(r)'
    BY <1>1, <2>1, <2>2, HandleActs
  <2> QED
    BY <1>1, <1>2, <2>1, <2>3, <2>4, HandleTyped, FrameActs
<1> QED
  BY <1>3, <1>4

LEMMA InsertActs ==
  ASSUME NEW r \in Requests, TypeInv, ActsAsPresented, Insert(r)
  PROVE  ActsAsPresented'
<1>1. AllTyped /\ TypeOK
  BY Split DEF TypeInv
<1>2. PICK user \in NewUsers :
        IF Accepts(user)
        THEN /\ users' = users \cup {user}
             /\ Goto(r, "grant")
             /\ op' = [op EXCEPT ![r].user = user]
             /\ UNCHANGED env
        ELSE Reply(r) /\ UNCHANGED users
  BY DEF Insert
<1>3. CASE Accepts(user)
  <2>1. Only(r) /\ op'[r] = [op[r] EXCEPT !.user = user] /\ env'[r] = env[r]
    BY <1>1, <1>2, <1>3 DEF AllTyped, Goto, Only
  <2>2. op'[r].creds = op[r].creds
    BY <1>1, <2>1 DEF AllTyped, RequestTyped, Calls
  <2>3. env[r].user # NoUser => Presents(op[r].creds, env[r].user.id)
    BY DEF ActsAsPresented
  <2>4. users \subseteq users' /\ tokens \subseteq tokens'
    BY <1>2, <1>3 DEF Insert
  <2>5. env[r].user # NoUser => Presents(op[r].creds, env[r].user.id)'
    BY <2>1, <2>2, <2>3, <2>4 DEF Presents
  <2>6. ActsFor(r)'
    BY <2>1, <2>2, <2>5 DEF ActsFor, Presents
  <2> QED
    BY <1>1, <2>1, <2>4, <2>6, FrameActs
<1>4. CASE ~Accepts(user)
  BY <1>1, <1>2, <1>4, ReplyTyped, ReplyActs, FrameActs DEF Insert
<1> QED
  BY <1>3, <1>4

\* The other actions end a request.
LEMMA EndActs ==
  ASSUME NEW r \in Requests, TypeOK, ActsAsPresented, Reply(r),
         users \subseteq users', tokens \subseteq tokens'
  PROVE  ActsAsPresented'
BY ReplyTyped, ReplyActs, FrameActs

LEMMA ActsStep == TypeInv /\ ActsAsPresented /\ [Next]_vars => ActsAsPresented'
<1> SUFFICES ASSUME TypeInv, ActsAsPresented, [Next]_vars PROVE ActsAsPresented'
  OBVIOUS
<1>1. TypeOK
  BY DEF TypeInv
<1>2. CASE UNCHANGED vars
  BY <1>2 DEF vars, ActsAsPresented, Presents
<1>3. ASSUME NEW r \in Requests, Arrive(r) PROVE ActsAsPresented'
  BY <1>1, <1>3, ArriveActs
<1>4. ASSUME NEW r \in Requests, Select(r) PROVE ActsAsPresented'
  BY <1>1, <1>4, SelectActs
<1>5. ASSUME NEW r \in Requests, Check(r) PROVE ActsAsPresented'
  BY <1>1, <1>5, CheckActs
<1>6. ASSUME NEW r \in Requests, Insert(r) PROVE ActsAsPresented'
  BY <1>6, InsertActs
<1>7. ASSUME NEW r \in Requests, Grant(r) PROVE ActsAsPresented'
  BY <1>1, <1>7, EndActs DEF Grant, MakeToken
<1>8. ASSUME NEW r \in Requests, Lose(r) PROVE ActsAsPresented'
  BY <1>1, <1>8, EndActs DEF Lose, MakeToken
<1> QED
  BY <1>2, <1>3, <1>4, <1>5, <1>6, <1>7, <1>8 DEF Next

LEMMA ActsInvCorrect == Spec => [](TypeInv /\ ActsAsPresented)
<1>1. Init => ActsAsPresented
  BY NoOneTyped DEF Init, ActsAsPresented
<1> QED
  BY <1>1, InitTypeInv, NextTyped, ActsStep, PTL DEF Spec

\* However many requests interleave, each acts for whom its credentials name.
THEOREM IdentitiesCorrect == Spec => []ActsAsPresented
BY ActsInvCorrect, PTL

\* A token is made for the account of its own sign-up, or for one whose credentials
\* the request has brought.
THEOREM TokensEarned == Spec => TokensAreEarned
<1> DEFINE Earned == \A t \in tokens' \ tokens : \E r \in Requests :
             /\ pc[r] = "grant"
             /\ IF op[r].route = "signup" THEN t.user = op[r].user.id
                                          ELSE Presents(op[r].creds, t.user)
<1>1. TypeInv /\ ActsAsPresented /\ [Next]_vars => [Earned]_vars
  <2> SUFFICES ASSUME TypeInv, ActsAsPresented, Next, NEW t \in tokens', t \notin tokens
               PROVE  \E r \in Requests :
                        /\ pc[r] = "grant"
                        /\ IF op[r].route = "signup" THEN t.user = op[r].user.id
                                                     ELSE Presents(op[r].creds, t.user)
    OBVIOUS
  <2>1. PICK r \in Requests : pc[r] = "grant" /\ MakeToken(r)
    BY DEF Next, Arrive, Select, Check, Insert, Grant, Lose
  <2>2. t.user = Holder(r).id
    BY <2>1 DEF MakeToken
  <2>3. Tables /\ Holder(r) \in users
    BY <2>1, Split DEF TypeInv, AllTyped, RequestTyped, RequestOK
  <2>4. op[r].route # "signup" => Presents(op[r].creds, t.user)
    BY <2>2, <2>3, AccountsAreSome DEF Holder, ActsAsPresented
  <2> QED
    BY <2>1, <2>2, <2>4 DEF Holder
<1> HIDE DEF Earned
<1>2. Spec => [][Earned]_vars
  BY <1>1, ActsInvCorrect, PTL DEF Spec
<1> QED
  BY <1>2 DEF Earned, TokensAreEarned

=============================================================================
