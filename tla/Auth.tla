-------------------------------- MODULE Auth --------------------------------
(***************************************************************************)
(* Who a request is: the middlewares of mux.go and server.go, auth.go,     *)
(* users.go, and the routes under /users.  An action is one command to a   *)
(* store, with what the request computes up to the next:                   *)
(*                                                                         *)
(*   authenticate:        select, if it brings a password; check, a token  *)
(*   POST /users:         insert -> grant -> ok                            *)
(*   POST /users/tokens:  grant -> ok                                      *)
(*                                                                         *)
(* The access tokens are here what TokenStore promises of them: a secret   *)
(* that is accepted stands for the user and the access it was made with;   *)
(* any secret may also be refused.                                         *)
(***************************************************************************)
EXTENDS Integers, FiniteSets

CONSTANTS Addresses,    \* email addresses, up to case and space around
          WellFormed,   \* those the CHECK of the users table accepts
          Words,        \* texts without a colon
          Secrets, Requests,
          MaxCalls, MaxFaults

ASSUME BoundsAssumption == MaxCalls \in Nat /\ MaxFaults \in Nat

VARIABLES
  users,   \* the users table
  tokens,  \* the access tokens ever made
  pc,      \* per request: its next command, or "idle"
  op,      \* per request: its route, its credentials, the user it has made
  env,     \* per request: the user and the access in its context
  calls, faults

vars == <<users, tokens, pc, op, env, calls, faults>>

AccessNone      == 0
AccessRead      == 1
AccessWrite     == 2
AccessReadWrite == 3

\* The text of a password, "head" or "head:tail".
NoTail     == ""
Passwords  == [head : Words, tail : Words \cup {NoTail}]
NoPassword == [head |-> "", tail |-> NoTail]

\* An email as typed, or in lower case without space around.
Emails  == [address : Addresses, form : {"typed", "normal"}]
NoEmail == [address |-> "", form |-> "normal"]

\* Mutant: the email is taken as it is typed.
AsTyped(email) == email

userNormalizeEmail(email) == [email EXCEPT !.form = "normal"]

NoUser     == [id |-> 0, email |-> NoEmail, password |-> NoPassword]
NoIdentity == [user |-> NoUser, access |-> AccessNone]

\* What an Authorization header or else a _tok field brings.
NoCreds == [method |-> "", email |-> NoEmail, password |-> NoPassword, secret |-> ""]

Basic(email, password) ==
  [NoCreds EXCEPT !.method = "Basic", !.email = email, !.password = password]

PasswordCreds == {Basic(e, p) : e \in Emails, p \in Passwords}
TokenCreds    == {[NoCreds EXCEPT !.method = "Token", !.secret = s] : s \in Secrets}
Creds         == {NoCreds} \cup PasswordCreds \cup TokenCreds

Routes == {"home", "signup", "tokens", "me"}

NoCall == [route |-> "", creds |-> NoCreds, user |-> NoUser]

Init ==
  /\ users = {} /\ tokens = {}
  /\ pc  = [r \in Requests |-> "idle"]
  /\ op  = [r \in Requests |-> NoCall]
  /\ env = [r \in Requests |-> NoIdentity]
  /\ calls = 0 /\ faults = 0

-----------------------------------------------------------------------------
Goto(r, step) == pc' = [pc EXCEPT ![r] = step]

\* The client has its answer, or an error or a panic has become one.
Reply(r) ==
  /\ Goto(r, "idle")
  /\ op'  = [op  EXCEPT ![r] = NoCall]
  /\ env' = [env EXCEPT ![r] = NoIdentity]

\* Mutant: no test for a user.
LetAllPass(identity) == TRUE

\* mustAuthenticate, for any access.
mustAuthenticate(identity) == identity.user # NoUser

\* The handler of a request that the middlewares let through, up to its first
\* command.  Any body may be bad.
HandleRequest(r, call, identity) ==
  \/ /\ \/ call.route = "signup" /\ Goto(r, "insert")
        \/ call.route = "tokens" /\ mustAuthenticate(identity) /\ Goto(r, "grant")
     /\ op'  = [op  EXCEPT ![r] = call]
     /\ env' = [env EXCEPT ![r] = identity]
  \/ Reply(r)

\* A request comes in.  Without credentials it goes on as nobody; credentials that
\* do not parse and unknown methods are answered at once.
Arrive(r) ==
  /\ pc[r] = "idle"
  /\ calls < MaxCalls /\ calls' = calls + 1
  /\ \E route \in Routes, creds \in Creds :
       LET call == [NoCall EXCEPT !.route = route, !.creds = creds]
       IN  IF creds = NoCreds
           THEN HandleRequest(r, call, NoIdentity)
           ELSE /\ Goto(r, IF creds.method = "Basic" THEN "select" ELSE "check")
                /\ op' = [op EXCEPT ![r] = call]
                /\ UNCHANGED env
  /\ UNCHANGED <<users, tokens, faults>>

\* strings.Split of Basic credentials: the password ends at its first colon.
BeforeColon(password) == [password EXCEPT !.tail = NoTail]

\* Mutant: the password is not compared.
MatchesEmail(user, creds) == user.email = userNormalizeEmail(creds.email)

\* The SELECT and the comparison of UserAuthenticateWithPassword.
Matches(user, creds) ==
  /\ user.email = userNormalizeEmail(creds.email)
  /\ user.password = BeforeColon(creds.password)

Select(r) ==
  /\ pc[r] = "select"
  /\ LET found == {u \in users : Matches(u, op[r].creds)}
     IN  IF found = {}
         THEN Reply(r)
         ELSE \E u \in found :
                HandleRequest(r, op[r], [user |-> u, access |-> AccessReadWrite])
  /\ UNCHANGED <<users, tokens, calls, faults>>

\* AccessTokenAuthenticateUser
Check(r) ==
  /\ pc[r] = "check"
  /\ \/ \E t \in tokens, u \in users :
          /\ t.secret = op[r].creds.secret /\ t.user = u.id
          /\ HandleRequest(r, op[r], [user |-> u, access |-> t.access])
     \/ Reply(r)
  /\ UNCHANGED <<users, tokens, calls, faults>>

-----------------------------------------------------------------------------
(* The commands of the handlers.                                           *)

\* Mutant: no unique index.
AlwaysFree(email) == TRUE

\* The unique indexes of the users table.
IsFree(email) == \A u \in users : u.email.address # email.address

\* The constraints of the users table, as the INSERT of UserCreate meets them.
Accepts(user) == user.email.address \in WellFormed /\ IsFree(user.email)

NewUsers == {[id |-> Cardinality(users) + 1, email |-> userNormalizeEmail(e), password |-> p] :
               e \in Emails, p \in Passwords}

Insert(r) ==
  /\ pc[r] = "insert"
  /\ \E user \in NewUsers :
       IF Accepts(user)
       THEN /\ users' = users \cup {user}
            /\ Goto(r, "grant")
            /\ op' = [op EXCEPT ![r].user = user]
            /\ UNCHANGED env
       ELSE Reply(r) /\ UNCHANGED users
  /\ UNCHANGED <<tokens, calls, faults>>

\* Mutant: always that of the context.
ContextUser(r) == env[r].user

\* Whom a new token is for: the user just made, or that of the context.
Holder(r) == IF op[r].route = "signup" THEN op[r].user ELSE env[r].user

\* AccessTokenCreate
MakeToken(r) ==
  \E s \in Secrets, access \in {AccessRead, AccessWrite, AccessReadWrite} :
    /\ \A t \in tokens : t.secret # s
    /\ op[r].route = "signup" => access = AccessReadWrite
    /\ tokens' = tokens \cup {[secret |-> s, user |-> Holder(r).id, access |-> access]}

Grant(r) ==
  /\ pc[r] = "grant"
  /\ MakeToken(r)
  /\ Reply(r)
  /\ UNCHANGED <<users, calls, faults>>

\* A store fails, before or after it has done its part.
Lose(r) ==
  /\ faults < MaxFaults /\ faults' = faults + 1
  /\ \/ /\ pc[r] = "insert"
        /\ \E user \in NewUsers : Accepts(user) /\ users' = users \cup {user}
        /\ UNCHANGED tokens
     \/ pc[r] = "grant" /\ MakeToken(r) /\ UNCHANGED users
     \/ pc[r] # "idle" /\ UNCHANGED <<users, tokens>>
  /\ Reply(r)
  /\ UNCHANGED calls

Next == \E r \in Requests :
  Arrive(r) \/ Select(r) \/ Check(r) \/ Insert(r) \/ Grant(r) \/ Lose(r)

Spec == Init /\ [][Next]_vars

-----------------------------------------------------------------------------
(* Properties.                                                             *)

Ids == {u.id : u \in users}

\* Credentials that name the user with this id: the email and the password, or a
\* token made for that user.
Presents(creds, id) ==
  \/ /\ creds.method = "Basic"
     /\ \E u \in users : /\ u.id = id
                         /\ u.email.address = creds.email.address
                         /\ u.password.head = creds.password.head
  \/ /\ creds.method = "Token"
     /\ \E t \in tokens : t.secret = creds.secret /\ t.user = id

\* What a request holds at each command: a sign-up has a user to make a token for,
\* a guarded route has the user of its credentials.
RequestOK(r) ==
  /\ pc[r] = "idle"   => op[r] = NoCall /\ env[r] = NoIdentity
  /\ pc[r] = "select" => op[r].creds.method = "Basic" /\ env[r] = NoIdentity
  /\ pc[r] = "check"  => op[r].creds.method = "Token" /\ env[r] = NoIdentity
  /\ pc[r] = "insert" => op[r].route = "signup"
  /\ pc[r] = "grant"  => op[r].route \in {"signup", "tokens"} /\ Holder(r) \in users

\* The types, and RequestOK of every request.
TypeOK ==
  /\ users \subseteq [id : Nat \ {0}, email : Emails, password : Passwords]
  /\ tokens \subseteq [secret : Secrets, user : Ids, access : AccessRead .. AccessReadWrite]
  /\ pc  \in [Requests -> {"idle", "select", "check", "insert", "grant"}]
  /\ op  \in [Requests -> [route : Routes \cup {""}, creds : Creds, user : users \cup {NoUser}]]
  /\ env \in [Requests -> [user : users \cup {NoUser}, access : AccessNone .. AccessReadWrite]]
  /\ \A r \in Requests : RequestOK(r)

\* Whoever a request acts for is whom its credentials name, for as long as it is
\* in progress and whatever other requests do to the same tables; without
\* credentials it acts for nobody.
ActsAsPresented ==
  \A r \in Requests :
    env[r].user # NoUser => Presents(op[r].creds, env[r].user.id)

\* A token comes into being for the account its request has just made, or for one
\* that the client can already show credentials of.
TokensAreEarned ==
  [][\A t \in tokens' \ tokens : \E r \in Requests :
       /\ pc[r] = "grant"
       /\ IF op[r].route = "signup" THEN t.user = op[r].user.id
                                    ELSE Presents(op[r].creds, t.user)]_vars

\* Of sign-ups that race for one address, however it is spelled, at most one makes
\* an account.
OneAccountPerEmail ==
  \A u, v \in users : u.id = v.id \/ u.email.address = v.email.address => u = v

\* The tables hold accounts with one owner each and tokens of such accounts only,
\* and a request in progress an account that is still there.
AccountsSound == TypeOK /\ OneAccountPerEmail

\* An account can be used: any spelling of its email signs in with its password,
\* also when the token of the sign-up was lost, unless the password has a colon.
SignInFindsAccount ==
  \A u \in users, e \in Emails :
    e.address = u.email.address /\ u.password.tail = NoTail =>
      Matches(u, Basic(e, u.password))
=============================================================================
