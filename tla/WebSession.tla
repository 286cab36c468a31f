----------------------------- MODULE WebSession -----------------------------
(***************************************************************************)
(* The session of the web client (session.js, api.js) and what depends on  *)
(* it: the header of each call, the sign-out on a 401, the pages.          *)
(*                                                                         *)
(* Every tab keeps the session in memory; all tabs share localStorage, key *)
(* by key and without a lock.  An action is one task of a tab's event loop *)
(* up to its accesses to localStorage, one such access, or one step of the *)
(* API server.  A call goes sent -> answered, and then, if it brings a     *)
(* session, -> body until its JSON is read.                                *)
(***************************************************************************)
EXTENDS Integers, FiniteSets, Sequences

CONSTANTS Tabs, Users,
          Calls,        \* the calls that can be in progress together
          MaxTokens,    \* bound: sessions the server opens
          MaxSends,     \* bound: calls users make
          MaxVisits     \* bound: reloads and typed addresses

ASSUME BoundsAssumption == MaxTokens \in Nat /\ MaxSends \in Nat /\ MaxVisits \in Nat

\* "" stands for no user.
ASSUME UserAssumption == "" \notin Users

VARIABLES
  storage,  \* localStorage
  stores,   \* per tab: the keys its task has still to write or delete in it
  loads,    \* per tab: the keys its new Session has still to read from it
  overlap,  \* have two tabs been in localStorage at the same time?
  memory,   \* per tab: Session._data
  page,     \* per tab: the page of the router
  timers,   \* per tab: the timers set that go to the sign-in page
  stage,    \* per call: "idle", "sent", "answered", "body"
  call,     \* per call: its tab, its kind and the token in its header
  answer,   \* per call: the status of its answer
  brought,  \* per call: the session its answer brings
  opened,   \* sessions the server has opened
  valid,    \* tokens the server accepts
  sends, visits

disk   == <<storage, stores, loads, overlap>>
tabs   == <<memory, page, timers>>
inside == <<stage, call, answer, brought>>
server == <<opened, valid>>
vars   == <<disk, tabs, inside, server, sends, visits>>

Keys      == {"user", "token"}
NoToken   == 0
NoSession == [user |-> "", token |-> NoToken]
NoCall    == [tab |-> "", kind |-> "none", token |-> NoToken]

Pages == {"signin", "folders", "notfound"}

TokensOf(sessions) == {s.token : s \in sessions}

isSignedIn(t) == memory[t].token # NoToken

\* Is the tab between two accesses to localStorage of one task?
Busy(t) == stores[t] # <<>> \/ loads[t] # {}

Init ==
  /\ storage = NoSession /\ overlap = FALSE
  /\ stores  = [t \in Tabs  |-> <<>>]
  /\ loads   = [t \in Tabs  |-> {}]
  /\ memory  = [t \in Tabs  |-> NoSession]
  /\ page    = [t \in Tabs  |-> "signin"]
  /\ timers  = [t \in Tabs  |-> 0]
  /\ stage   = [c \in Calls |-> "idle"]
  /\ call    = [c \in Calls |-> NoCall]
  /\ answer  = [c \in Calls |-> "none"]
  /\ brought = [c \in Calls |-> NoSession]
  /\ opened = {} /\ valid = {}
  /\ sends = 0 /\ visits = 0

-----------------------------------------------------------------------------
(* Pages.                                                                  *)

\* Mutant: only those without a token are sent elsewhere.
checkAccessOneWay(wanted, session) ==
  IF session.token = NoToken /\ wanted = "folders" THEN "signin" ELSE wanted

\* checkAccess: the page a tab with this session gets for the one it asks for.
checkAccess(wanted, session) ==
  IF session.token = NoToken /\ wanted = "folders" THEN "signin"
  ELSE IF session.token # NoToken /\ wanted = "signin" THEN "folders"
  ELSE wanted

\* The hooks run when a route is entered.
Enter(t, wanted) ==
  page' = [page EXCEPT ![t] = IF @ = wanted THEN @ ELSE checkAccess(wanted, memory'[t])]

-----------------------------------------------------------------------------
(* The session.  No other task of a tab sees its memory before a task is   *)
(* over, so that the memory changes at once; localStorage follows in steps.*)

\* A task starts to store these keys, in this order.
StartStore(t, keys) ==
  /\ stores'  = [stores EXCEPT ![t] = keys]
  /\ overlap' = (overlap \/ (keys # <<>> /\ \E u \in Tabs \ {t} : Busy(u)))
  /\ UNCHANGED <<storage, loads>>

\* Session.set, with the keys in the order of the answer's JSON, whose encoder
\* sorts them.
Set(t, session) ==
  /\ memory' = [memory EXCEPT ![t] = session]
  /\ StartStore(t, <<"token", "user">>)

\* The keys in the orders in which Object.entries may list them.
Orders(keys) == {order \in [1 .. Cardinality(keys) -> keys] :
                   \A k \in keys : \E i \in DOMAIN order : order[i] = k}

Known(t) == {k \in Keys : memory[t][k] # NoSession[k]}

\* Mutant: remove forgets localStorage.
ClearMemory(t) ==
  /\ memory' = [memory EXCEPT ![t] = NoSession]
  /\ StartStore(t, <<>>)

\* Session.clear removes the keys the tab knows.
Clear(t) ==
  /\ memory' = [memory EXCEPT ![t] = NoSession]
  /\ \E order \in Orders(Known(t)) : StartStore(t, order)

\* One turn of the loop of set or clear: the key is written, or deleted.
Store(t) ==
  /\ stores[t] # <<>>
  /\ LET key == Head(stores[t])
     IN  storage' = [storage EXCEPT ![key] = memory[t][key]]
  /\ stores' = [stores EXCEPT ![t] = Tail(@)]
  /\ UNCHANGED <<loads, overlap, tabs, inside, server, sends, visits>>

\* One turn of the loop of the constructor.  The router starts after the last.
Load(t) ==
  /\ \E key \in loads[t] :
       /\ memory' = [memory EXCEPT ![t][key] = storage[key]]
       /\ loads'  = [loads EXCEPT ![t] = @ \ {key}]
  /\ page' = IF loads'[t] = {} THEN [page EXCEPT ![t] = checkAccess(@, memory'[t])] ELSE page
  /\ UNCHANGED <<storage, stores, overlap, timers, inside, server, sends, visits>>

-----------------------------------------------------------------------------
(* Calls.                                                                  *)

\* _authorize: a call carries the session's token; a sign-in has a password.
Header(t, kind) == IF kind = "signin" THEN NoToken ELSE memory[t].token

Request(t, kind) == [tab |-> t, kind |-> kind, token |-> Header(t, kind)]

\* Users.signin, signup, signout, Folders.getAll ...  Without a token signout
\* fails at once.
Send(c) ==
  /\ stage[c] = "idle"
  /\ sends < MaxSends /\ sends' = sends + 1
  /\ \E t \in Tabs, kind \in {"signin", "signup", "signout", "fetch"} :
       /\ ~Busy(t)
       /\ kind = "signout" => isSignedIn(t)
       /\ call' = [call EXCEPT ![c] = Request(t, kind)]
  /\ stage' = [stage EXCEPT ![c] = "sent"]
  /\ UNCHANGED <<disk, tabs, answer, brought, server, visits>>

\* The server refuses a token it does not know, and a call that needs a user and
\* has none.
Refuses(request) ==
  \/ request.token # NoToken /\ request.token \notin valid
  \/ request.kind = "fetch" /\ request.token = NoToken

Answered(c, status) ==
  /\ answer' = [answer EXCEPT ![c] = status]
  /\ stage'  = [stage EXCEPT ![c] = "answered"]

\* A new session: a token of a new number.
Open(c, user) ==
  LET session == [user |-> user, token |-> Cardinality(opened) + 1]
  IN  /\ session.token <= MaxTokens
      /\ opened'  = opened \cup {session}
      /\ valid'   = valid \cup {session.token}
      /\ brought' = [brought EXCEPT ![c] = session]

\* The API server answers, or the call fails on its way.  There is no route that
\* deletes a token: a sign-out is refused, or it fails with 404.
Serve(c) ==
  /\ stage[c] = "sent"
  /\ \/ Answered(c, "failed") /\ UNCHANGED <<brought, server>>
     \/ /\ Refuses(call[c]) \/ call[c].kind = "signin"
        /\ Answered(c, "refused")
        /\ UNCHANGED <<brought, server>>
     \/ /\ ~Refuses(call[c])
        /\ Answered(c, "ok")
        /\ \/ call[c].kind \in {"signin", "signup"} /\ \E u \in Users : Open(c, u)
           \/ call[c].kind = "fetch" /\ UNCHANGED <<brought, server>>
  /\ UNCHANGED <<disk, tabs, call, sends, visits>>

Settle(c) ==
  /\ stage'   = [stage   EXCEPT ![c] = "idle"]
  /\ call'    = [call    EXCEPT ![c] = NoCall]
  /\ answer'  = [answer  EXCEPT ![c] = "none"]
  /\ brought' = [brought EXCEPT ![c] = NoSession]

\* A 401 signs a session out: the call is settled and a new one takes its place.
SignoutInstead(c, t) ==
  /\ stage'   = [stage   EXCEPT ![c] = "sent"]
  /\ call'    = [call    EXCEPT ![c] = Request(t, "signout")]
  /\ answer'  = [answer  EXCEPT ![c] = "none"]
  /\ brought' = [brought EXCEPT ![c] = NoSession]

\* Mutant: finalize when the DELETE succeeds only, which it never does.
FinalizeNever(t) == UNCHANGED <<disk, tabs>>

\* finalize of signout
Finalize(t) ==
  /\ Clear(t)
  /\ timers' = [timers EXCEPT ![t] = @ + 1]
  /\ UNCHANGED page

\* The rejection of a call, by _exec and then by its caller.
Reject(c) ==
  LET t == call[c].tab
  IN  /\ IF answer[c] = "refused" /\ isSignedIn(t) THEN SignoutInstead(c, t) ELSE Settle(c)
      /\ IF call[c].kind = "signout" THEN Finalize(t) ELSE UNCHANGED <<disk, tabs>>

Receive(c) ==
  /\ stage[c] = "answered" /\ ~Busy(call[c].tab)
  /\ IF answer[c] # "ok"
     THEN Reject(c)
     ELSE /\ IF call[c].kind = "fetch"
             THEN Settle(c)
             ELSE stage' = [stage EXCEPT ![c] = "body"] /\ UNCHANGED <<call, answer, brought>>
          /\ UNCHANGED <<disk, tabs>>
  /\ UNCHANGED <<server, sends, visits>>

\* The JSON of a sign-in or sign-up is read, or the connection ends first.  The
\* form goes to the start page, which is the folders.
Read(c) ==
  /\ stage[c] = "body" /\ ~Busy(call[c].tab)
  /\ Settle(c)
  /\ \/ Set(call[c].tab, brought[c]) /\ Enter(call[c].tab, "folders")
     \/ UNCHANGED <<disk, memory, page>>
  /\ UNCHANGED <<timers, server, sends, visits>>

\* A timer of signout.
Redirect(t) ==
  /\ timers[t] > 0 /\ ~Busy(t)
  /\ timers' = [timers EXCEPT ![t] = @ - 1]
  /\ UNCHANGED memory
  /\ Enter(t, "signin")
  /\ UNCHANGED <<disk, inside, server, sends, visits>>

-----------------------------------------------------------------------------
(* The environment.                                                        *)

Visit == visits < MaxVisits /\ visits' = visits + 1

\* An address is typed or a link followed.
Navigate(t) ==
  /\ Visit /\ ~Busy(t)
  /\ UNCHANGED memory
  /\ \E wanted \in Pages : Enter(t, wanted)
  /\ UNCHANGED <<disk, timers, inside, server, sends>>

\* The page is loaded again: a Session is to be made from localStorage, and the
\* calls and timers of the tab are gone.
Reload(t) ==
  /\ Visit /\ ~Busy(t)
  /\ memory'  = [memory EXCEPT ![t] = NoSession]
  /\ loads'   = [loads EXCEPT ![t] = Keys]
  /\ overlap' = (overlap \/ \E u \in Tabs \ {t} : Busy(u))
  /\ timers'  = [timers EXCEPT ![t] = 0]
  /\ LET gone == {c \in Calls : call[c].tab = t}
     IN  /\ stage'   = [c \in Calls |-> IF c \in gone THEN "idle"    ELSE stage[c]]
         /\ call'    = [c \in Calls |-> IF c \in gone THEN NoCall    ELSE call[c]]
         /\ answer'  = [c \in Calls |-> IF c \in gone THEN "none"    ELSE answer[c]]
         /\ brought' = [c \in Calls |-> IF c \in gone THEN NoSession ELSE brought[c]]
  /\ UNCHANGED <<storage, stores, page, server, sends>>

\* The server stops accepting a token.
Revoke ==
  /\ \E n \in valid : valid' = valid \ {n}
  /\ UNCHANGED <<disk, tabs, inside, opened, sends, visits>>

Progress(c) == Serve(c) \/ Receive(c) \/ Read(c)

Next ==
  \/ \E c \in Calls : Send(c) \/ Serve(c) \/ Receive(c) \/ Read(c)
  \/ \E t \in Tabs  : Store(t) \/ Load(t) \/ Redirect(t) \/ Navigate(t) \/ Reload(t)
  \/ Revoke

Spec == Init /\ [][Next]_vars

\* The network answers or fails, and the event loops run what is ready.
Fairness == /\ \A c \in Calls : WF_vars(Progress(c))
            /\ \A t \in Tabs  : WF_vars(Store(t) \/ Load(t)) /\ WF_vars(Redirect(t))

FairSpec == Spec /\ Fairness

-----------------------------------------------------------------------------
(* Properties.                                                             *)

Tokens   == 0 .. MaxTokens
Sessions == opened \cup {NoSession}

\* The values of each key, one by one: those the server sent, or none.
UsersOf(sessions) == {s.user : s \in sessions}
Stored == [user : UsersOf(Sessions), token : TokensOf(Sessions)]

\* The types, with each value of a session one that some answer of the server
\* brought, and what a call carries at each stage.
TypeOK ==
  /\ opened \subseteq [user : Users, token : Tokens \ {NoToken}]
  /\ valid \subseteq TokensOf(opened)
  /\ storage \in Stored
  /\ stores  \in [Tabs -> Seq(Keys)]
  /\ loads   \in [Tabs -> SUBSET Keys]
  /\ overlap \in BOOLEAN
  /\ memory  \in [Tabs -> Stored]
  /\ page    \in [Tabs -> Pages]
  /\ timers  \in [Tabs -> Nat]
  /\ stage   \in [Calls -> {"idle", "sent", "answered", "body"}]
  /\ answer  \in [Calls -> {"none", "failed", "refused", "ok"}]
  /\ brought \in [Calls -> Sessions]
  /\ DOMAIN call = Calls
  /\ \A c \in Calls :
       IF stage[c] = "idle"
       THEN call[c] = NoCall
       ELSE /\ call[c].tab \in Tabs
            /\ call[c].kind \in {"signin", "signup", "signout", "fetch"}
            /\ call[c].token \in Tokens
            /\ stage[c] = "body" => answer[c] = "ok" /\ call[c].kind # "fetch"
            /\ stage[c] # "sent" /\ answer[c] = "ok" /\ call[c].kind # "fetch" =>
                 brought[c] # NoSession

ToStore(t) == {stores[t][i] : i \in DOMAIN stores[t]}

\* What localStorage keeps under a key is what a tab has, but for the accesses
\* still to come: when every tab has signed out, in any order, with their loops
\* interleaved and whatever answers come late, no token is left that a reload would
\* bring back.
StorageHasATab ==
  \A k \in Keys : storage[k] # NoSession[k] =>
    \E t \in Tabs : memory[t][k] = storage[k] \/ k \in ToStore(t) \cup loads[t]

\* The user and the token of a session are of one answer, in localStorage between
\* the accesses of a task and in the tabs, as long as no two tabs were in
\* localStorage at the same time: nothing but that mixes two sessions.
WholeIfApart ==
  ~overlap => /\ (\A t \in Tabs : stores[t] = <<>>) => storage \in Sessions
              /\ \A t \in Tabs : loads[t] = {} => memory[t] \in Sessions

\* localStorage keeps what the tabs have, and keeps it whole if they take turns.
SessionsKept == TypeOK /\ StorageHasATab /\ WholeIfApart

\* A tab that is not signed in does not stay on a page for which it must be, and one
\* that is is not left at the sign-in form.
PageMatchesSession ==
  \A t \in Tabs : loads[t] = {} =>
    /\ ~isSignedIn(t) /\ page[t] = "folders" => timers[t] > 0
    /\ isSignedIn(t) => page[t] # "signin"

\* The sign-out that a 401 starts may itself be answered with 401: this ends.
Settles == <>[](\A c \in Calls : stage[c] = "idle")

RefusedIn(t, n) == \E c \in Calls :
  /\ call[c].tab = t /\ call[c].token = n
  /\ stage[c] = "answered" /\ answer[c] = "refused"

\* A token refused by the server does not stay in the tab that used it, unless it
\* is reloaded before the answer comes.
RefusedTokenGoes ==
  \A t \in Tabs, n \in Tokens \ {NoToken}, v \in 0 .. MaxVisits :
    RefusedIn(t, n) /\ memory[t].token = n /\ visits = v ~>
      memory[t].token # n \/ visits # v
=============================================================================
