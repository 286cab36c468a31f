-------------------------- MODULE WebSessionProofs --------------------------
(***************************************************************************)
(* Proofs about WebSession, for any tabs, users and calls.                 *)
(***************************************************************************)
EXTENDS WebSession, FiniteSetTheorems, TLAPS

DiskOK ==
  /\ storage \in Stored
  /\ stores  \in [Tabs -> Seq(Keys)]
  /\ loads   \in [Tabs -> SUBSET Keys]
  /\ overlap \in BOOLEAN

TabsOK ==
  /\ DiskOK
  /\ memory  \in [Tabs -> Stored]
  /\ page    \in [Tabs -> Pages]
  /\ timers  \in [Tabs -> Nat]

ServerOK ==
  /\ opened \subseteq [user : Users, token : Tokens \ {NoToken}]
  /\ valid \subseteq TokensOf(opened)

CallOK(c) ==
  IF stage[c] = "idle"
  THEN call[c] = NoCall
  ELSE /\ call[c].tab \in Tabs
       /\ call[c].kind \in {"signin", "signup", "signout", "fetch"}
       /\ call[c].token \in Tokens
       /\ stage[c] = "body" => answer[c] = "ok" /\ call[c].kind # "fetch"
       /\ stage[c] # "sent" /\ answer[c] = "ok" /\ call[c].kind # "fetch" =>
            brought[c] # NoSession

CallsOK ==
  /\ stage   \in [Calls -> {"idle", "sent", "answered", "body"}]
  /\ answer  \in [Calls -> {"none", "failed", "refused", "ok"}]
  /\ brought \in [Calls -> Sessions]
  /\ DOMAIN call = Calls
  /\ \A c \in Calls : CallOK(c)

\* TypeOK is inductive with a finite number of sessions opened.
TypeInv == TypeOK /\ IsFiniteSet(opened)

LEMMA TypeParts == TypeOK <=> TabsOK /\ ServerOK /\ CallsOK
BY DEF TypeOK, TabsOK, DiskOK, ServerOK, CallsOK, CallOK

LEMMA TypePartsAfter == TypeOK' <=> TabsOK' /\ ServerOK' /\ CallsOK'
BY DEF TypeOK, TabsOK, DiskOK, ServerOK, CallsOK, CallOK

\* No session is one of those that may be stored, and a session with a token of the
\* server's or of none is too.
LEMMA StoredSessions ==
  ASSUME ServerOK
  PROVE  Sessions \subseteq Stored /\ NoSession \in Sessions /\ NoSession \in Stored
<1>1. NoSession \in Sessions
  BY DEF Sessions
<1>2. NoSession \in Stored
  BY <1>1 DEF Stored, UsersOf, TokensOf, NoSession
<1>3. ASSUME NEW s \in opened PROVE s \in Stored
  <2>1. s = [user |-> s.user, token |-> s.token]
    BY DEF ServerOK
  <2>2. s.user \in UsersOf(Sessions) /\ s.token \in TokensOf(Sessions)
    BY DEF UsersOf, TokensOf, Sessions
  <2>3. QED
    BY <2>1, <2>2 DEF Stored
<1>4. QED
  BY <1>1, <1>2, <1>3 DEF Sessions

\* What may be stored grows with the sessions opened.
LEMMA StoredGrows == opened \subseteq opened' => Stored \subseteq Stored' /\ Sessions \subseteq Sessions'
<1> SUFFICES ASSUME opened \subseteq opened'
             PROVE  Stored \subseteq Stored' /\ Sessions \subseteq Sessions'
  OBVIOUS
<1>1. Sessions \subseteq Sessions'
  BY DEF Sessions
<1>2. UsersOf(Sessions) \subseteq UsersOf(Sessions') /\ TokensOf(Sessions) \subseteq TokensOf(Sessions')
  BY <1>1 DEF UsersOf, TokensOf
<1>3. QED
  BY <1>1, <1>2 DEF Stored

LEMMA StoredTokens == ASSUME ServerOK PROVE \A r \in Stored : r.token \in Tokens
<1>1. NoSession.token = 0 /\ 0 \in Tokens
  BY BoundsAssumption DEF NoSession, NoToken, Tokens
<1>2. QED
  BY <1>1 DEF ServerOK, Stored, TokensOf, Sessions

LEMMA InitType == Init => TypeInv
<1> SUFFICES ASSUME Init PROVE TypeInv
  OBVIOUS
<1>1. ServerOK /\ IsFiniteSet(opened)
  BY FS_EmptySet DEF Init, ServerOK, TokensOf
<1>2. TabsOK
  <2>1. NoSession \in Stored /\ <<>> \in Seq(Keys) /\ 0 \in Nat
    BY <1>1, StoredSessions
  <2>2. DiskOK
    BY <2>1 DEF Init, DiskOK
  <2>3. QED
    BY <2>1, <2>2 DEF Init, TabsOK, Pages
<1>3. CallsOK
  BY <1>1, StoredSessions DEF Init, CallsOK, CallOK
<1>4. QED
  BY <1>1, <1>2, <1>3, TypeParts DEF TypeInv

\* Putting a stored value under a key, and what the other key has then.
LEMMA PutKey ==
  ASSUME ServerOK, NEW r \in Stored, NEW v \in Stored, NEW key \in Keys
  PROVE  /\ [r EXCEPT ![key] = v[key]] \in Stored
         /\ \A k \in Keys : [r EXCEPT ![key] = v[key]][k] = IF k = key THEN v[k] ELSE r[k]
<1>1. CASE key = "user"
  BY <1>1 DEF Stored, Keys
<1>2. CASE key = "token"
  BY <1>2 DEF Stored, Keys
<1>3. QED
  BY <1>1, <1>2 DEF Keys

\* Orders lists keys of the set given, all of them.
LEMMA OrdersOf ==
  ASSUME NEW keys \in SUBSET Keys, NEW order \in Orders(keys)
  PROVE  /\ order \in Seq(Keys)
         /\ {order[i] : i \in DOMAIN order} = keys
         /\ keys = {} => order = <<>>
<1>1. Cardinality(keys) \in Nat
  <2>1. IsFiniteSet({"user"} \cup {"token"})
    BY FS_Singleton, FS_AddElement
  <2>2. Keys = {"user"} \cup {"token"}
    BY DEF Keys
  <2>3. IsFiniteSet(Keys)
    BY <2>1, <2>2
  <2>4. QED
    BY <2>3, FS_Subset, FS_CardinalityType
<1>2. order \in [1 .. Cardinality(keys) -> keys]
  BY DEF Orders
<1>3. order \in Seq(Keys) /\ DOMAIN order = 1 .. Cardinality(keys)
  BY <1>1, <1>2
<1>4. {order[i] : i \in DOMAIN order} = keys
  BY <1>2 DEF Orders
<1>5. ASSUME keys = {} PROVE order = <<>>
  BY <1>3, <1>5, FS_EmptySet
<1>6. QED
  BY <1>3, <1>4, <1>5

\* What a call in progress keeps, and what one that is settled leaves.
LEMMA SettleType ==
  ASSUME CallsOK, NEW c \in Calls, Settle(c), UNCHANGED opened
  PROVE  CallsOK'
<1>1. NoSession \in Sessions /\ Sessions' = Sessions
  BY DEF Sessions
<1>2. ASSUME NEW d \in Calls PROVE CallOK(d)'
  BY DEF CallsOK, CallOK, Settle
<1>3. QED
  BY <1>1, <1>2 DEF CallsOK, Settle

LEMMA SignoutType ==
  ASSUME TabsOK, ServerOK, CallsOK, NEW c \in Calls, NEW t \in Tabs,
         SignoutInstead(c, t), UNCHANGED opened
  PROVE  CallsOK'
<1>1. NoSession \in Sessions /\ Sessions' = Sessions
  BY DEF Sessions
<1>2. Request(t, "signout").token \in Tokens
  BY StoredTokens DEF Request, Header, TabsOK
<1>3. ASSUME NEW d \in Calls PROVE CallOK(d)'
  BY <1>2 DEF CallsOK, CallOK, SignoutInstead, Request
<1>4. QED
  BY <1>1, <1>3 DEF CallsOK, SignoutInstead

LEMMA SendType ==
  ASSUME TabsOK, ServerOK, CallsOK, NEW c \in Calls, Send(c)
  PROVE  TabsOK' /\ ServerOK' /\ CallsOK'
<1> USE DEF disk, tabs, server
<1>1. PICK t \in Tabs, kind \in {"signin", "signup", "signout", "fetch"} :
        call' = [call EXCEPT ![c] = Request(t, kind)]
  BY DEF Send
<1>2. Request(t, kind).token \in Tokens
  BY StoredTokens, BoundsAssumption DEF Request, Header, TabsOK, Tokens, NoToken
<1>3. ASSUME NEW d \in Calls PROVE CallOK(d)'
  BY <1>1, <1>2 DEF CallsOK, CallOK, Send, Request
<1>4. QED
  <2>1. Stored' = Stored /\ Sessions' = Sessions
    BY DEF Send, Stored, Sessions
  <2>2. TabsOK' /\ ServerOK'
    BY <2>1 DEF Send, TabsOK, DiskOK, ServerOK
  <2>3. QED
    BY <1>1, <1>3, <2>1, <2>2 DEF CallsOK, Send

LEMMA ServeType ==
  ASSUME TabsOK, ServerOK, CallsOK, IsFiniteSet(opened), NEW c \in Calls, Serve(c)
  PROVE  TabsOK' /\ ServerOK' /\ CallsOK' /\ IsFiniteSet(opened')
<1> USE DEF disk, tabs, server
<1>1. CASE /\ UNCHANGED <<brought, server>>
           /\ \E status \in {"failed", "refused", "ok"} :
                Answered(c, status) /\ (status = "ok" => call[c].kind = "fetch")
  <2>1. PICK status \in {"failed", "refused", "ok"} :
          Answered(c, status) /\ (status = "ok" => call[c].kind = "fetch")
    BY <1>1
  <2>2. ASSUME NEW d \in Calls PROVE CallOK(d)'
    BY <1>1, <2>1 DEF CallsOK, CallOK, Serve, Answered
  <2>3. QED
    <3>1. Stored' = Stored /\ Sessions' = Sessions
      BY <1>1 DEF Stored, Sessions
    <3>2. TabsOK' /\ ServerOK'
      BY <1>1, <3>1 DEF Serve, TabsOK, DiskOK, ServerOK
    <3>3. QED
      BY <1>1, <2>1, <2>2, <3>1, <3>2 DEF CallsOK, Serve, Answered
<1>2. CASE \E u \in Users : Open(c, u) /\ Answered(c, "ok")
  <2>1. PICK u \in Users : Open(c, u) /\ Answered(c, "ok")
    BY <1>2
  <2> DEFINE session == [user |-> u, token |-> Cardinality(opened) + 1]
  <2>2. session \in [user : Users, token : Tokens \ {NoToken}]
    BY <2>1, FS_CardinalityType, BoundsAssumption DEF Open, Tokens, NoToken
  <2>3. /\ opened' = opened \cup {session}
        /\ valid' = valid \cup {session.token}
        /\ brought' = [brought EXCEPT ![c] = session]
    BY <2>1 DEF Open
  <2> HIDE DEF session
  <2>4. IsFiniteSet(opened')
    BY <2>3, FS_AddElement
  <2>5. Sessions \subseteq Sessions' /\ Stored \subseteq Stored' /\ session \in Sessions'
    BY <2>3, StoredGrows DEF Sessions
  <2>6. ServerOK'
    BY <2>2, <2>3 DEF ServerOK, TokensOf
  <2>7. ASSUME NEW d \in Calls PROVE CallOK(d)'
    <3>1. NoSession.token = NoToken
      BY DEF NoSession
    <3>2. session # NoSession
      BY <2>2, <3>1
    <3>3. QED
      BY <2>1, <2>3, <3>2 DEF CallsOK, CallOK, Serve, Answered
  <2>8. CallsOK'
    BY <2>1, <2>3, <2>5, <2>7 DEF CallsOK, Serve, Answered
  <2>9. TabsOK'
    BY <2>5 DEF TabsOK, DiskOK, Serve
  <2>10. QED
    BY <2>4, <2>6, <2>8, <2>9
<1>3. QED
  BY <1>1, <1>2 DEF Serve

\* The steps of a task that starts to store keys leave the types right.
LEMMA ClearType ==
  ASSUME ServerOK, TabsOK, NEW t \in Tabs, Clear(t), Stored' = Stored
  PROVE  DiskOK' /\ memory' \in [Tabs -> Stored]
<1>1. PICK order \in Orders(Known(t)) : StartStore(t, order)
  BY DEF Clear
<1>2. order \in Seq(Keys)
  BY OrdersOf DEF Known
<1>3. QED
  BY <1>1, <1>2, StoredSessions DEF StartStore, Clear, TabsOK, DiskOK

LEMMA ReceiveType ==
  ASSUME TabsOK, ServerOK, CallsOK, NEW c \in Calls, Receive(c)
  PROVE  TabsOK' /\ ServerOK' /\ CallsOK'
<1> USE DEF disk, tabs, server
<1> DEFINE t == call[c].tab
<1>1. t \in Tabs /\ stage[c] = "answered"
  BY DEF Receive, CallsOK, CallOK
<1>2. ServerOK' /\ Stored' = Stored /\ UNCHANGED opened
  BY DEF Receive, ServerOK, Sessions, Stored
<1>3. CASE answer[c] # "ok"
  <2>1. CallsOK'
    BY <1>1, <1>2, <1>3, SettleType, SignoutType DEF Receive, Reject
  <2>2. TabsOK'
    <3>1. CASE UNCHANGED <<disk, tabs>>
      BY <1>2, <3>1 DEF TabsOK, DiskOK
    <3>2. CASE Finalize(t)
      BY <1>1, <1>2, <3>2, ClearType DEF Finalize, TabsOK
    <3>3. QED
      BY <1>3, <3>1, <3>2 DEF Receive, Reject
  <2>3. QED
    BY <1>2, <2>1, <2>2
<1>4. CASE answer[c] = "ok"
  <2>1. TabsOK'
    BY <1>2, <1>4 DEF Receive, TabsOK, DiskOK
  <2>2. CASE call[c].kind = "fetch"
    BY <1>2, <1>4, <2>1, <2>2, SettleType DEF Receive
  <2>3. CASE call[c].kind # "fetch"
    <3>1. Sessions' = Sessions
      BY <1>2 DEF Sessions
    <3>2. ASSUME NEW d \in Calls PROVE CallOK(d)'
      BY <1>4, <2>3 DEF Receive, CallsOK, CallOK
    <3>3. QED
      BY <1>2, <1>4, <2>1, <2>3, <3>1, <3>2 DEF Receive, CallsOK
  <2>4. QED
    BY <2>2, <2>3
<1>5. QED
  BY <1>3, <1>4

LEMMA PageType == \A wanted \in Pages : \A session : checkAccess(wanted, session) \in Pages
BY DEF checkAccess, Pages

LEMMA ReadType ==
  ASSUME TabsOK, ServerOK, CallsOK, NEW c \in Calls, Read(c)
  PROVE  TabsOK' /\ ServerOK' /\ CallsOK'
<1> USE DEF server
<1>1. ServerOK' /\ Sessions' = Sessions /\ Stored' = Stored /\ UNCHANGED opened
  BY DEF Read, ServerOK, Sessions, Stored
<1>2. CallsOK'
  BY <1>1, SettleType DEF Read
<1> DEFINE t == call[c].tab
<1>3. t \in Tabs /\ brought[c] \in Stored
  BY StoredSessions DEF Read, CallsOK, CallOK
<1> HIDE DEF t
<1>4. CASE Set(t, brought[c]) /\ Enter(t, "folders") /\ UNCHANGED timers
  <2>1. <<"token", "user">> \in Seq(Keys) /\ "folders" \in Pages
    BY DEF Keys, Pages
  <2>2. DiskOK' /\ memory' \in [Tabs -> Stored']
    BY <1>1, <1>3, <1>4, <2>1 DEF Set, StartStore, DiskOK, TabsOK
  <2>3. QED
    BY <1>1, <1>2, <1>3, <1>4, <2>1, <2>2, PageType DEF Enter, TabsOK
<1>5. CASE UNCHANGED <<disk, tabs>>
  BY <1>1, <1>2, <1>5 DEF TabsOK, DiskOK, disk, tabs
<1>6. QED
  BY <1>4, <1>5 DEF Read, disk, tabs, t

LEMMA StoreType ==
  ASSUME TabsOK, ServerOK, CallsOK, NEW t \in Tabs, Store(t) \/ Load(t)
  PROVE  TabsOK' /\ ServerOK' /\ CallsOK'
<1> USE DEF server, inside, tabs
<1>1. ServerOK' /\ Stored' = Stored /\ UNCHANGED opened
  BY DEF Store, Load, ServerOK, Sessions, Stored
<1>2. CallsOK'
  BY <1>1 DEF Store, Load, CallsOK, CallOK, Sessions
<1>3. storage \in Stored /\ memory[t] \in Stored /\ memory \in [Tabs -> Stored]
  BY DEF TabsOK, DiskOK
<1>4. CASE Store(t)
  <2> DEFINE key == Head(stores[t])
  <2>1. key \in Keys /\ Tail(stores[t]) \in Seq(Keys)
    BY <1>4 DEF Store, TabsOK, DiskOK
  <2>2. storage' = [storage EXCEPT ![key] = memory[t][key]]
    BY <1>4 DEF Store
  <2> HIDE DEF key
  <2>3. storage' \in Stored
    BY <1>3, <2>1, <2>2, PutKey
  <2>4. DiskOK'
    BY <1>1, <1>4, <2>1, <2>3 DEF Store, TabsOK, DiskOK
  <2>5. QED
    BY <1>1, <1>2, <1>4, <2>4 DEF Store, TabsOK
<1>5. CASE Load(t)
  <2>1. PICK key \in loads[t] : /\ memory' = [memory EXCEPT ![t][key] = storage[key]]
                                /\ loads'  = [loads EXCEPT ![t] = @ \ {key}]
    BY <1>5 DEF Load
  <2>2. key \in Keys
    BY <2>1 DEF TabsOK, DiskOK
  <2> DEFINE new == [memory[t] EXCEPT ![key] = storage[key]]
  <2>3. new \in Stored
    BY <1>3, <2>2, PutKey
  <2>4. memory' = [memory EXCEPT ![t] = new]
    BY <2>1
  <2> HIDE DEF new
  <2>5. memory' \in [Tabs -> Stored']
    BY <1>1, <1>3, <2>3, <2>4
  <2>6. DiskOK'
    BY <1>1, <1>5, <2>1 DEF Load, TabsOK, DiskOK
  <2>7. page' \in [Tabs -> Pages]
    BY <1>5, PageType DEF Load, TabsOK
  <2>8. QED
    BY <1>1, <1>2, <1>5, <2>5, <2>6, <2>7 DEF Load, TabsOK
<1>6. QED
  BY <1>4, <1>5

LEMMA TabType ==
  ASSUME TabsOK, ServerOK, CallsOK, NEW t \in Tabs,
         Redirect(t) \/ Navigate(t) \/ Reload(t)
  PROVE  TabsOK' /\ ServerOK' /\ CallsOK'
<1> USE DEF server, inside, disk
<1>1. /\ ServerOK' /\ Sessions' = Sessions /\ Stored' = Stored /\ UNCHANGED opened
      /\ "signin" \in Pages
  BY DEF Redirect, Navigate, Reload, ServerOK, Sessions, Stored, Pages
<1>2. CASE Redirect(t) \/ Navigate(t)
  <2>1. CallsOK'
    BY <1>1, <1>2 DEF Redirect, Navigate, CallsOK, CallOK
  <2>2. DiskOK'
    BY <1>1, <1>2 DEF Redirect, Navigate, TabsOK, DiskOK
  <2>3. page' \in [Tabs -> Pages]
    BY <1>1, <1>2, PageType DEF Redirect, Navigate, Enter, TabsOK
  <2>4. timers' \in [Tabs -> Nat]
    BY <1>2 DEF Redirect, Navigate, TabsOK
  <2>5. memory' \in [Tabs -> Stored']
    BY <1>1, <1>2 DEF Redirect, Navigate, TabsOK
  <2>6. QED
    BY <1>1, <2>1, <2>2, <2>3, <2>4, <2>5 DEF TabsOK
<1>3. CASE Reload(t)
  <2>1. NoSession \in Sessions /\ NoSession \in Stored
    BY StoredSessions
  <2>2. ASSUME NEW c \in Calls PROVE CallOK(c)'
    BY <1>3 DEF Reload, CallsOK, CallOK
  <2>3. CallsOK'
    BY <1>1, <1>3, <2>1, <2>2 DEF Reload, CallsOK
  <2>4. DiskOK' /\ memory' \in [Tabs -> Stored']
    BY <1>1, <1>3, <2>1 DEF Reload, TabsOK, DiskOK
  <2>5. QED
    BY <1>1, <1>3, <2>3, <2>4 DEF Reload, TabsOK
<1>4. QED
  BY <1>2, <1>3

LEMMA NextType == TypeInv /\ [Next]_vars => TypeInv'
<1> SUFFICES ASSUME TypeOK, IsFiniteSet(opened), [Next]_vars
             PROVE  TypeOK' /\ IsFiniteSet(opened')
  BY DEF TypeInv
<1>1. TabsOK /\ ServerOK /\ CallsOK
  BY TypeParts
<1>2. CASE UNCHANGED vars \/ Revoke
  <2>1. UNCHANGED <<disk, tabs, inside, opened>> /\ valid' \subseteq valid
    BY <1>2 DEF vars, server, Revoke
  <2>2. Stored' = Stored /\ Sessions' = Sessions
    BY <2>1 DEF Stored, Sessions
  <2>3. ServerOK' /\ CallsOK'
    BY <1>1, <2>1, <2>2 DEF inside, ServerOK, CallsOK, CallOK
  <2>4. TabsOK'
    BY <1>1, <2>1, <2>2 DEF disk, tabs, TabsOK, DiskOK
  <2>5. QED
    BY <2>1, <2>3, <2>4, TypePartsAfter
<1>3. ASSUME NEW c \in Calls, Serve(c) PROVE TypeOK' /\ IsFiniteSet(opened')
  BY <1>1, <1>3, ServeType, TypePartsAfter
<1>4. ASSUME NEW c \in Calls, Send(c) \/ Receive(c) \/ Read(c)
      PROVE  TypeOK' /\ IsFiniteSet(opened')
  <2>1. UNCHANGED opened
    BY <1>4 DEF Send, Receive, Read, server
  <2>2. QED
    BY <1>1, <1>4, <2>1, SendType, ReceiveType, ReadType, TypePartsAfter
<1>5. ASSUME NEW t \in Tabs, Redirect(t) \/ Navigate(t) \/ Reload(t)
      PROVE  TypeOK' /\ IsFiniteSet(opened')
  <2>1. UNCHANGED opened
    BY <1>5 DEF Redirect, Navigate, Reload, server
  <2>2. QED
    BY <1>1, <1>5, <2>1, TabType, TypePartsAfter
<1>6. ASSUME NEW t \in Tabs, Store(t) \/ Load(t) PROVE TypeOK' /\ IsFiniteSet(opened')
  <2>1. UNCHANGED opened
    BY <1>6 DEF Store, Load, server
  <2>2. QED
    BY <1>1, <1>6, <2>1, StoreType, TypePartsAfter
<1>7. QED
  BY <1>2, <1>3, <1>4, <1>5, <1>6 DEF Next

\* Every reachable state is well typed; in particular each value of a session, in
\* localStorage or in a tab, is one that the server sent, however the tabs' accesses
\* to localStorage interleave.
THEOREM TypeCorrect == Spec => []TypeOK
<1>1. TypeInv => TypeOK
  BY DEF TypeInv
<1>2. QED
  BY <1>1, InitType, NextType, PTL DEF Spec

-----------------------------------------------------------------------------
(* localStorage and the tabs.                                              *)

\* The part of StorageHasATab about one key.
HasATab(k) == storage[k] # NoSession[k] =>
  \E t \in Tabs : memory[t][k] = storage[k] \/ k \in ToStore(t) \cup loads[t]

\* The key stored last leaves the list of those to come.
LEMMA HeadStored ==
  ASSUME NEW order \in Seq(Keys), order # <<>>
  PROVE  /\ Head(order) \in Keys /\ Tail(order) \in Seq(Keys)
         /\ \A i \in DOMAIN order : order[i] = Head(order) \/ \E j \in DOMAIN Tail(order) :
                                                            Tail(order)[j] = order[i]
<1>1. Head(order) = order[1] /\ Head(order) \in Keys /\ Tail(order) \in Seq(Keys)
  OBVIOUS
<1>2. ASSUME NEW i \in DOMAIN order, i # 1 PROVE i - 1 \in DOMAIN Tail(order)
  BY <1>2
<1>3. ASSUME NEW i \in DOMAIN order, i # 1 PROVE Tail(order)[i - 1] = order[i]
  BY <1>3
<1>4. QED
  BY <1>1, <1>2, <1>3

\* What the steps that touch localStorage or a Session change, key by key.
LEMMA SetStep ==
  ASSUME TypeOK, NEW t \in Tabs, NEW session, Set(t, session)
  PROVE  /\ memory' = [memory EXCEPT ![t] = session] /\ UNCHANGED <<storage, loads>>
         /\ stores' = [stores EXCEPT ![t] = <<"token", "user">>]
         /\ Keys \subseteq ToStore(t)'
<1>1. stores' = [stores EXCEPT ![t] = <<"token", "user">>] /\ stores'[t] = <<"token", "user">>
  BY DEF Set, StartStore, TypeOK
<1>2. 1 \in DOMAIN stores'[t] /\ 2 \in DOMAIN stores'[t]
  BY <1>1
<1>3. stores'[t][1] = "token" /\ stores'[t][2] = "user"
  BY <1>1
<1>4. QED
  BY <1>1, <1>2, <1>3 DEF Set, StartStore, ToStore, Keys

LEMMA ClearStep ==
  ASSUME TypeOK, NEW t \in Tabs, Clear(t)
  PROVE  /\ memory' = [memory EXCEPT ![t] = NoSession] /\ UNCHANGED <<storage, loads>>
         /\ \E order \in Orders(Known(t)) : StartStore(t, order) /\ stores'[t] = order
         /\ \A u \in Tabs \ {t} : stores'[u] = stores[u]
         /\ ToStore(t)' = Known(t)
         /\ Known(t) = {} => stores'[t] = <<>>
<1>1. PICK order \in Orders(Known(t)) : StartStore(t, order)
  BY DEF Clear
<1>2. stores' = [stores EXCEPT ![t] = order] /\ stores'[t] = order
  BY <1>1 DEF StartStore, TypeOK
<1>3. Known(t) \in SUBSET Keys
  BY DEF Known
<1>4. {order[i] : i \in DOMAIN order} = Known(t) /\ (Known(t) = {} => order = <<>>)
  BY <1>3, OrdersOf
<1>5. /\ memory' = [memory EXCEPT ![t] = NoSession] /\ UNCHANGED <<storage, loads>>
      /\ \A u \in Tabs \ {t} : stores'[u] = stores[u]
  BY <1>1, <1>2 DEF Clear, StartStore, TypeOK
<1>6. ToStore(t)' = Known(t)
  BY <1>2, <1>4 DEF ToStore
<1>7. QED
  BY <1>1, <1>2, <1>4, <1>5, <1>6

LEMMA StoreStep ==
  ASSUME TypeOK, NEW t \in Tabs, Store(t)
  PROVE  \E key \in ToStore(t) \cap Keys :
           /\ UNCHANGED <<memory, loads, overlap>>
           /\ storage'[key] = memory[t][key]
           /\ \A k \in Keys \ {key} : storage'[k] = storage[k]
           /\ \A u \in Tabs \ {t} : stores'[u] = stores[u]
           /\ \A k \in ToStore(t) : k = key \/ k \in ToStore(t)'
<1> DEFINE order == stores[t]
<1> DEFINE key == Head(order)
<1>1. order \in Seq(Keys) /\ order # <<>>
  BY DEF TypeOK, Store
<1>2. storage' = [storage EXCEPT ![key] = memory[t][key]] /\ stores'[t] = Tail(order)
  BY DEF Store, TypeOK
<1>3. key \in Keys /\ key = order[1] /\ 1 \in DOMAIN order
  BY <1>1
<1>4. storage \in Stored /\ memory[t] \in Stored /\ ServerOK
  BY DEF TypeOK, ServerOK
<1>5. \A k \in ToStore(t) : k = key \/ k \in ToStore(t)'
  <2>1. ToStore(t)' = {Tail(order)[j] : j \in DOMAIN Tail(order)}
    BY <1>2 DEF ToStore
  <2>2. ToStore(t) = {order[i] : i \in DOMAIN order}
    BY DEF ToStore
  <2> HIDE DEF order
  <2>3. QED
    BY <1>1, <2>1, <2>2, HeadStored
<1>6. UNCHANGED <<memory, loads, overlap>> /\ \A u \in Tabs \ {t} : stores'[u] = stores[u]
  BY DEF Store, tabs, TypeOK
<1>7. key \in ToStore(t)
  BY <1>3 DEF ToStore
<1> HIDE DEF key, order
<1>8. \A k \in Keys : storage'[k] = IF k = key THEN memory[t][k] ELSE storage[k]
  <2>1. ASSUME NEW r \in Stored, NEW v \in Stored, NEW k \in Keys
        PROVE  [r EXCEPT ![key] = v[key]][k] = IF k = key THEN v[k] ELSE r[k]
    <3>1. DOMAIN r = Keys
      BY DEF Stored, Keys
    <3>2. QED
      BY <1>3, <3>1
  <2>2. QED
    BY <1>2, <1>4, <2>1
<1>9. QED
  BY <1>3, <1>5, <1>6, <1>7, <1>8

LEMMA LoadStep ==
  ASSUME TypeOK, NEW t \in Tabs, Load(t)
  PROVE  \E key \in loads[t] \cap Keys :
           /\ UNCHANGED <<storage, stores, overlap>>
           /\ memory'[t] \in Stored /\ memory'[t][key] = storage[key]
           /\ \A k \in Keys \ {key} : memory'[t][k] = memory[t][k]
           /\ \A u \in Tabs \ {t} : memory'[u] = memory[u] /\ loads'[u] = loads[u]
           /\ loads'[t] = loads[t] \ {key}
<1>1. PICK key \in loads[t] : /\ memory' = [memory EXCEPT ![t][key] = storage[key]]
                              /\ loads'  = [loads EXCEPT ![t] = @ \ {key}]
  BY DEF Load
<1>2. key \in Keys /\ storage \in Stored /\ memory[t] \in Stored /\ ServerOK
  BY DEF TypeOK, ServerOK
<1> DEFINE new == [memory[t] EXCEPT ![key] = storage[key]]
<1>3. memory' = [memory EXCEPT ![t] = new]
  BY <1>1
<1>4. new \in Stored /\ \A k \in Keys : new[k] = IF k = key THEN storage[k] ELSE memory[t][k]
  BY <1>2, PutKey
<1> HIDE DEF new
<1>5. memory'[t] = new /\ \A u \in Tabs \ {t} : memory'[u] = memory[u]
  BY <1>3 DEF TypeOK
<1>6. loads'[t] = loads[t] \ {key} /\ \A u \in Tabs \ {t} : loads'[u] = loads[u]
  BY <1>1 DEF TypeOK
<1>7. QED
  BY <1>1, <1>2, <1>4, <1>5, <1>6 DEF Load

\* The steps that leave localStorage and the memory of every tab alone.
Elsewhere == UNCHANGED <<disk, memory>>

LEMMA StepKinds ==
  ASSUME TypeOK, [Next]_vars
  PROVE  \/ Elsewhere
         \/ \E t \in Tabs : ~Busy(t) /\ \E c \in Calls :
              brought[c] \in opened /\ UNCHANGED opened /\ Set(t, brought[c])
         \/ \E t \in Tabs : ~Busy(t) /\ Clear(t) /\ UNCHANGED opened
         \/ \E t \in Tabs : (Store(t) \/ Load(t) \/ Reload(t)) /\ UNCHANGED opened
<1>1. ASSUME NEW c \in Calls, Receive(c)
      PROVE  Elsewhere \/ \E t \in Tabs : ~Busy(t) /\ Clear(t) /\ UNCHANGED opened
  <2>1. call[c].tab \in Tabs /\ ~Busy(call[c].tab) /\ UNCHANGED opened
    BY <1>1 DEF Receive, TypeOK, server
  <2>2. Finalize(call[c].tab) \/ UNCHANGED <<disk, tabs>>
    BY <1>1 DEF Receive, Reject
  <2>3. QED
    BY <2>1, <2>2 DEF Finalize, Elsewhere, tabs
<1>2. ASSUME NEW c \in Calls, Read(c)
      PROVE  \/ Elsewhere
             \/ \E t \in Tabs : /\ ~Busy(t) /\ brought[c] \in opened
                               /\ UNCHANGED opened /\ Set(t, brought[c])
  <2>1. /\ call[c].tab \in Tabs /\ ~Busy(call[c].tab) /\ UNCHANGED opened
        /\ brought[c] \in opened
    BY <1>2 DEF Read, TypeOK, server, Sessions
  <2>2. QED
    BY <1>2, <2>1 DEF Read, Elsewhere
<1>3. ASSUME NEW t \in Tabs, Store(t) \/ Load(t) \/ Reload(t) PROVE UNCHANGED opened
  BY <1>3 DEF Store, Load, Reload, server
<1>4. ASSUME NEW c \in Calls, Send(c) \/ Serve(c) PROVE Elsewhere
  BY <1>4 DEF Send, Serve, Elsewhere, tabs
<1>5. ASSUME NEW t \in Tabs, Redirect(t) \/ Navigate(t) PROVE Elsewhere
  BY <1>5 DEF Redirect, Navigate, Elsewhere
<1>6. ASSUME Revoke \/ UNCHANGED vars PROVE Elsewhere
  BY <1>6 DEF Revoke, vars, Elsewhere, tabs
<1>7. QED
  BY <1>1, <1>2, <1>3, <1>4, <1>5, <1>6 DEF Next

LEMMA StorageStep == TypeInv /\ StorageHasATab /\ [Next]_vars => StorageHasATab'
<1> SUFFICES ASSUME TypeOK, StorageHasATab, [Next]_vars, NEW k \in Keys PROVE HasATab(k)'
  BY DEF TypeInv, StorageHasATab, HasATab
<1>1. /\ memory \in [Tabs -> Stored] /\ stores \in [Tabs -> Seq(Keys)]
      /\ loads \in [Tabs -> SUBSET Keys]
      /\ HasATab(k)
  BY DEF TypeOK, StorageHasATab, HasATab
<1>2. CASE Elsewhere
  BY <1>1, <1>2 DEF Elsewhere, disk, HasATab, ToStore
<1>3. ASSUME NEW t \in Tabs, NEW session, Set(t, session) PROVE HasATab(k)'
  BY <1>1, <1>3, SetStep DEF HasATab
<1>4. ASSUME NEW t \in Tabs, ~Busy(t), Clear(t) PROVE HasATab(k)'
  <2>1. k \notin ToStore(t) \cup loads[t]
    BY <1>4 DEF Busy, ToStore
  <2>2. /\ UNCHANGED <<storage, loads>> /\ ToStore(t)' = Known(t)
        /\ \A u \in Tabs \ {t} : stores'[u] = stores[u] /\ memory'[u] = memory[u]
    BY <1>1, <1>4, ClearStep
  <2>3. \A u \in Tabs \ {t} : ToStore(u)' = ToStore(u)
    BY <2>2 DEF ToStore
  <2>4. QED
    BY <1>1, <2>1, <2>2, <2>3 DEF HasATab, Known
<1>5. ASSUME NEW t \in Tabs, Store(t) PROVE HasATab(k)'
  <2>1. PICK key \in ToStore(t) \cap Keys :
           /\ UNCHANGED <<memory, loads, overlap>>
           /\ storage'[key] = memory[t][key]
           /\ \A j \in Keys \ {key} : storage'[j] = storage[j]
           /\ \A u \in Tabs \ {t} : stores'[u] = stores[u]
           /\ \A j \in ToStore(t) : j = key \/ j \in ToStore(t)'
    BY <1>5, StoreStep
  <2>2. \A u \in Tabs \ {t} : ToStore(u)' = ToStore(u)
    BY <2>1 DEF ToStore
  <2>3. QED
    BY <1>1, <2>1, <2>2 DEF HasATab
<1>6. ASSUME NEW t \in Tabs, Load(t) PROVE HasATab(k)'
  <2>1. PICK key \in loads[t] \cap Keys :
           /\ UNCHANGED <<storage, stores, overlap>>
           /\ memory'[t][key] = storage[key]
           /\ \A j \in Keys \ {key} : memory'[t][j] = memory[t][j]
           /\ \A u \in Tabs \ {t} : memory'[u] = memory[u] /\ loads'[u] = loads[u]
           /\ loads'[t] = loads[t] \ {key}
    BY <1>6, LoadStep
  <2>2. \A u \in Tabs : ToStore(u)' = ToStore(u)
    BY <2>1 DEF ToStore
  <2>3. QED
    BY <1>1, <2>1, <2>2 DEF HasATab
<1>7. ASSUME NEW t \in Tabs, Reload(t) PROVE HasATab(k)'
  BY <1>1, <1>7 DEF Reload, HasATab
<1>8. QED
  BY <1>2, <1>3, <1>4, <1>5, <1>6, <1>7, StepKinds

-----------------------------------------------------------------------------
(* Sessions while the tabs take turns.                                     *)

\* A tab that stores is done with the keys that are not to come, and so is one that
\* loads.
TabApart(t) ==
  /\ \A u \in Tabs : Busy(t) /\ Busy(u) => t = u
  /\ loads[t] = {} => memory[t] \in Sessions
  /\ stores[t] # <<>> => /\ loads[t] = {}
                         /\ \A k \in Keys \ ToStore(t) : storage[k] = memory[t][k]
  /\ loads[t] # {} => \A k \in Keys \ loads[t] : memory[t][k] = storage[k]

Apart ==
  /\ (\A t \in Tabs : stores[t] = <<>>) => storage \in Sessions
  /\ \A t \in Tabs : TabApart(t)

\* WholeIfApart is inductive with what holds between two accesses.
ApartInv == ~overlap => Apart

\* Two sessions with the same values are the same.
LEMMA SameSession ==
  ASSUME NEW r \in Stored, NEW s \in Stored, \A k \in Keys : r[k] = s[k]
  PROVE  r = s
BY DEF Stored, Keys

\* A tab with a whole session knows both keys of it, or none.
LEMMA KnownWhole ==
  ASSUME TypeOK, NEW t \in Tabs, memory[t] \in Sessions
  PROVE  Known(t) = Keys \/ Known(t) = {}
<1>1. CASE memory[t] = NoSession
  BY <1>1 DEF Known
<1>2. CASE memory[t] \in opened
  <2>1. memory[t].user # NoSession.user /\ memory[t].token # NoSession.token
    BY <1>2, UserAssumption DEF TypeOK, NoSession
  <2>2. QED
    BY <2>1 DEF Known, Keys
<1>3. QED
  BY <1>1, <1>2 DEF Sessions

\* A step that finds another tab busy sets overlap.
LEMMA ApartStep == TypeInv /\ ApartInv /\ [Next]_vars => ApartInv'
<1> SUFFICES ASSUME TypeOK, ApartInv, [Next]_vars, ~overlap' PROVE Apart'
  BY DEF TypeInv, ApartInv
<1>1. /\ memory \in [Tabs -> Stored] /\ stores \in [Tabs -> Seq(Keys)]
      /\ loads \in [Tabs -> SUBSET Keys] /\ storage \in Stored /\ ServerOK
  BY DEF TypeOK, ServerOK
<1>2. CASE Elsewhere
  <2>1. opened \subseteq opened'
    BY DEF Next, Send, Serve, Open, Receive, Read, Store, Load, Redirect, Navigate, Reload,
           Revoke, server, vars
  <2>2. Sessions \subseteq Sessions'
    BY <2>1 DEF Sessions
  <2>3. Apart
    BY <1>2 DEF ApartInv, Elsewhere, disk
  <2>4. UNCHANGED <<storage, stores, loads, memory>>
    BY <1>2 DEF Elsewhere, disk
  <2>5. QED
    BY <2>2, <2>3, <2>4 DEF Apart, TabApart, Busy, ToStore
<1>3. ASSUME NEW t \in Tabs, ~Busy(t), NEW session \in opened, UNCHANGED opened,
             Set(t, session)
      PROVE  Apart'
  <2>1. ~overlap /\ \A u \in Tabs : ~Busy(u)
    BY <1>3 DEF Set, StartStore
  <2>2. Apart
    BY <2>1 DEF ApartInv
  <2>3. /\ memory'[t] = session /\ \A u \in Tabs \ {t} : memory'[u] = memory[u]
        /\ UNCHANGED <<storage, loads>>
        /\ stores'[t] # <<>> /\ \A u \in Tabs \ {t} : stores'[u] = stores[u]
        /\ Keys \subseteq ToStore(t)'
    <3>1. /\ memory' = [memory EXCEPT ![t] = session] /\ UNCHANGED <<storage, loads>>
          /\ stores' = [stores EXCEPT ![t] = <<"token", "user">>]
          /\ Keys \subseteq ToStore(t)'
      BY <1>3, SetStep
    <3>2. <<"token", "user">> # <<>>
      OBVIOUS
    <3>3. QED
      BY <1>1, <3>1, <3>2
  <2>4. Sessions' = Sessions /\ session \in Sessions
    BY <1>3 DEF Sessions
  <2>5. ASSUME NEW u \in Tabs PROVE TabApart(u)'
    BY <1>3, <2>1, <2>2, <2>3, <2>4 DEF Apart, TabApart, Busy
  <2>6. QED
    BY <2>3, <2>5 DEF Apart
<1>4. ASSUME NEW t \in Tabs, ~Busy(t), UNCHANGED opened, Clear(t) PROVE Apart'
  <2>1. PICK order \in Orders(Known(t)) : StartStore(t, order) /\ stores'[t] = order
    BY <1>4, ClearStep
  <2>2. ~overlap /\ (order # <<>> => \A u \in Tabs : ~Busy(u))
    BY <1>4, <2>1 DEF StartStore
  <2>3. Apart /\ loads[t] = {} /\ stores[t] = <<>>
    BY <1>4, <2>2 DEF ApartInv, Busy
  <2>4. /\ memory'[t] = NoSession /\ \A u \in Tabs \ {t} : memory'[u] = memory[u]
        /\ UNCHANGED <<storage, loads>>
        /\ \A u \in Tabs \ {t} : stores'[u] = stores[u]
        /\ ToStore(t)' = Known(t)
        /\ (Known(t) = {} => stores'[t] = <<>>)
    BY <1>1, <1>4, ClearStep
  <2>5. Known(t) = Keys \/ Known(t) = {}
    BY <2>3, KnownWhole DEF Apart, TabApart
  <2>6. Sessions' = Sessions /\ NoSession \in Sessions
    BY <1>4 DEF Sessions
  <2>7. ASSUME NEW u \in Tabs PROVE TabApart(u)'
    <3>1. \A v \in Tabs \ {t} : Busy(v)' = Busy(v)
      BY <2>4 DEF Busy
    <3>2. Busy(t)' => \A v \in Tabs : ~Busy(v)
      BY <2>1, <2>2, <2>3, <2>4 DEF Busy
    <3>3. \A v \in Tabs : Busy(u)' /\ Busy(v)' => u = v
      BY <2>3, <3>1, <3>2 DEF Apart, TabApart
    <3>4. CASE u = t
      <4>1. stores'[t] # <<>> => Keys \ ToStore(t)' = {}
        BY <2>4, <2>5
      <4>2. QED
        BY <2>3, <2>4, <2>6, <3>3, <3>4, <4>1 DEF TabApart
    <3>5. CASE u # t
      <4>1. ToStore(u)' = ToStore(u)
        BY <2>4, <3>5 DEF ToStore
      <4>2. QED
        BY <2>3, <2>4, <2>6, <3>3, <3>5, <4>1 DEF Apart, TabApart
    <3>6. QED
      BY <3>4, <3>5
  <2>8. (\A u \in Tabs : stores'[u] = <<>>) => \A u \in Tabs : stores[u] = <<>>
    BY <2>3, <2>4
  <2>9. QED
    BY <2>3, <2>4, <2>6, <2>7, <2>8 DEF Apart
<1>5. ASSUME NEW t \in Tabs, Store(t), UNCHANGED opened PROVE Apart'
  <2>1. PICK key \in ToStore(t) \cap Keys :
           /\ UNCHANGED <<memory, loads, overlap>>
           /\ storage'[key] = memory[t][key]
           /\ \A k \in Keys \ {key} : storage'[k] = storage[k]
           /\ \A u \in Tabs \ {t} : stores'[u] = stores[u]
           /\ \A k \in ToStore(t) : k = key \/ k \in ToStore(t)'
    BY <1>5, StoreStep
  <2>2. Apart
    BY <2>1 DEF ApartInv
  <2>3. Busy(t) /\ stores[t] # <<>> /\ loads[t] = {} /\ memory[t] \in Sessions
    BY <1>5, <2>2 DEF Store, Busy, Apart, TabApart
  <2>4. \A u \in Tabs \ {t} : stores[u] = <<>> /\ loads[u] = {}
    BY <2>2, <2>3 DEF Apart, TabApart, Busy
  <2>5. \A k \in Keys \ ToStore(t)' : storage'[k] = memory'[t][k]
    BY <2>1, <2>2, <2>3 DEF Apart, TabApart
  <2>6. Sessions' = Sessions
    BY <1>5 DEF Sessions
  <2>7. ASSUME NEW u \in Tabs PROVE TabApart(u)'
    BY <2>1, <2>2, <2>3, <2>4, <2>5, <2>6 DEF Apart, TabApart, Busy
  <2>8. ASSUME \A u \in Tabs : stores'[u] = <<>> PROVE storage' \in Sessions'
    <3>1. ToStore(t)' = {}
      BY <2>8 DEF ToStore
    <3>2. \A k \in Keys : storage'[k] = memory[t][k]
      BY <2>1, <2>5, <3>1
    <3>3. storage' \in Stored /\ memory[t] \in Stored
      <4>1. TabsOK'
        BY <1>5, StoreType, TypeParts
      <4>2. Stored' = Stored
        BY <2>6 DEF Stored
      <4>3. QED
        BY <1>1, <4>1, <4>2 DEF TabsOK, DiskOK
    <3>4. storage' = memory[t]
      BY <3>2, <3>3, SameSession
    <3>5. QED
      BY <2>3, <2>6, <3>4
  <2>9. QED
    BY <2>7, <2>8 DEF Apart
<1>6. ASSUME NEW t \in Tabs, Load(t), UNCHANGED opened PROVE Apart'
  <2>1. PICK key \in loads[t] \cap Keys :
           /\ UNCHANGED <<storage, stores, overlap>>
           /\ memory'[t] \in Stored /\ memory'[t][key] = storage[key]
           /\ \A k \in Keys \ {key} : memory'[t][k] = memory[t][k]
           /\ \A u \in Tabs \ {t} : memory'[u] = memory[u] /\ loads'[u] = loads[u]
           /\ loads'[t] = loads[t] \ {key}
    BY <1>6, LoadStep
  <2>2. Apart
    BY <2>1 DEF ApartInv
  <2>3. Busy(t) /\ loads[t] # {} /\ stores[t] = <<>>
    BY <2>1, <2>2 DEF Busy, Apart, TabApart
  <2>4. \A u \in Tabs \ {t} : stores[u] = <<>> /\ loads[u] = {}
    BY <2>2, <2>3 DEF Apart, TabApart, Busy
  <2>5. storage \in Sessions /\ Sessions' = Sessions
    BY <1>6, <2>2, <2>3, <2>4 DEF Apart, Sessions
  <2>6. \A k \in Keys \ loads'[t] : memory'[t][k] = storage'[k]
    BY <2>1, <2>2, <2>3 DEF Apart, TabApart
  <2>7. ASSUME loads'[t] = {} PROVE memory'[t] = storage
    BY <1>1, <2>1, <2>6, <2>7, SameSession
  <2>8. ASSUME NEW u \in Tabs PROVE TabApart(u)'
    <3>1. ToStore(u)' = ToStore(u)
      BY <2>1 DEF ToStore
    <3>2. QED
      BY <2>1, <2>2, <2>3, <2>4, <2>5, <2>6, <2>7, <3>1 DEF Apart, TabApart, Busy
  <2>9. QED
    BY <2>1, <2>5, <2>8 DEF Apart
<1>7. ASSUME NEW t \in Tabs, Reload(t), UNCHANGED opened PROVE Apart'
  <2>1. ~overlap /\ \A u \in Tabs : ~Busy(u)
    BY <1>7 DEF Reload
  <2>2. Apart
    BY <2>1 DEF ApartInv
  <2>3. /\ memory'[t] = NoSession /\ \A u \in Tabs \ {t} : memory'[u] = memory[u]
        /\ loads'[t] = Keys /\ \A u \in Tabs \ {t} : loads'[u] = loads[u]
        /\ UNCHANGED <<storage, stores>>
    BY <1>1, <1>7 DEF Reload
  <2>4. Sessions' = Sessions /\ Keys # {}
    BY <1>7 DEF Sessions, Keys
  <2>5. ASSUME NEW u \in Tabs PROVE TabApart(u)'
    BY <2>1, <2>2, <2>3, <2>4 DEF Apart, TabApart, Busy
  <2>6. QED
    BY <2>2, <2>3, <2>4, <2>5 DEF Apart
<1>8. QED
  BY <1>2, <1>3, <1>4, <1>5, <1>6, <1>7, StepKinds

\* Whatever the tabs do, a token in localStorage is one some tab still has to answer
\* for, and two sessions are mixed only when two tabs are in localStorage at once.
THEOREM StorageCorrect == Spec => []SessionsKept
<1>1. Init => StorageHasATab /\ ApartInv
  BY DEF Init, StorageHasATab, ApartInv, Apart, TabApart, Busy, Sessions
<1>2. TypeInv /\ StorageHasATab /\ ApartInv => SessionsKept
  BY DEF TypeInv, SessionsKept, WholeIfApart, ApartInv, Apart, TabApart
<1>3. QED
  BY <1>1, <1>2, InitType, NextType, StorageStep, ApartStep, PTL DEF Spec

-----------------------------------------------------------------------------
(* Pages.                                                                  *)

PageOK(t) == loads[t] = {} =>
  /\ ~isSignedIn(t) /\ page[t] = "folders" => timers[t] > 0
  /\ isSignedIn(t) => page[t] # "signin"

LEMMA PageStep == TypeInv /\ PageMatchesSession /\ [Next]_vars => PageMatchesSession'
<1> SUFFICES ASSUME TypeOK, PageMatchesSession, [Next]_vars, NEW t \in Tabs PROVE PageOK(t)'
  BY DEF TypeInv, PageMatchesSession, PageOK
<1> USE DEF isSignedIn
<1>1. /\ memory \in [Tabs -> Stored] /\ page \in [Tabs -> Pages]
      /\ timers \in [Tabs -> Nat] /\ loads \in [Tabs -> SUBSET Keys]
      /\ PageOK(t) /\ NoSession.token = NoToken
  BY DEF TypeOK, PageMatchesSession, PageOK, NoSession
<1>2. ASSUME NEW c \in Calls, Receive(c) PROVE PageOK(t)'
  <2>1. call[c].tab \in Tabs
    BY <1>2 DEF Receive, TypeOK
  <2>2. CASE UNCHANGED <<disk, tabs>>
    BY <1>1, <2>2 DEF PageOK, disk, tabs
  <2>3. CASE Finalize(call[c].tab)
    <3>1. memory' = [memory EXCEPT ![call[c].tab] = NoSession] /\ UNCHANGED <<loads, page>>
      BY <2>3 DEF Finalize, Clear, StartStore
    <3>2. timers' = [timers EXCEPT ![call[c].tab] = @ + 1]
      BY <2>3 DEF Finalize
    <3>3. QED
      BY <1>1, <2>1, <3>1, <3>2 DEF PageOK
  <2>4. QED
    BY <1>2, <2>2, <2>3 DEF Receive, Reject
<1>3. ASSUME NEW c \in Calls, Read(c) PROVE PageOK(t)'
  <2>1. call[c].tab \in Tabs /\ brought[c] \in opened
    BY <1>3 DEF Read, TypeOK, Sessions
  <2>2. brought[c].token # NoToken
    BY <2>1 DEF TypeOK
  <2>3. CASE UNCHANGED <<disk, memory, page, timers>>
    BY <1>1, <2>3 DEF PageOK, disk
  <2>4. CASE /\ Set(call[c].tab, brought[c]) /\ Enter(call[c].tab, "folders")
             /\ UNCHANGED timers
    <3>1. /\ memory' = [memory EXCEPT ![call[c].tab] = brought[c]] /\ UNCHANGED loads
          /\ checkAccess("folders", brought[c]) = "folders"
      BY <2>2, <2>4 DEF Set, StartStore, checkAccess
    <3>2. memory'[call[c].tab] = brought[c]
      BY <1>1, <2>1, <3>1
    <3>3. page' = [page EXCEPT ![call[c].tab] = "folders"]
      BY <2>4, <3>1, <3>2 DEF Enter
    <3>4. QED
      BY <1>1, <2>1, <2>2, <2>4, <3>1, <3>3 DEF PageOK
  <2>5. QED
    BY <1>3, <2>3, <2>4 DEF Read
<1>4. ASSUME NEW u \in Tabs, Redirect(u) \/ Navigate(u) PROVE PageOK(t)'
  <2>1. UNCHANGED <<memory, loads>> /\ \E wanted \in Pages : Enter(u, wanted)
    BY <1>4 DEF Redirect, Navigate, disk, Pages
  <2>2. CASE u # t
    BY <1>1, <1>4, <2>1, <2>2 DEF PageOK, Enter, Redirect, Navigate
  <2>3. CASE u = t /\ Navigate(u)
    BY <1>1, <2>1, <2>3 DEF PageOK, Enter, Navigate, checkAccess, Pages
  <2>4. CASE u = t /\ Redirect(u)
    BY <1>1, <2>1, <2>4 DEF PageOK, Enter, Redirect, checkAccess, Pages
  <2>5. QED
    BY <1>4, <2>2, <2>3, <2>4
<1>5. ASSUME NEW u \in Tabs, Store(u) PROVE PageOK(t)'
  BY <1>1, <1>5 DEF Store, tabs, PageOK
<1>6. ASSUME NEW u \in Tabs, Load(u) PROVE PageOK(t)'
  <2>1. CASE u # t
    <3>1. memory'[t] = memory[t] /\ loads'[t] = loads[t]
      BY <1>6, <2>1, LoadStep
    <3>2. page'[t] = page[t] /\ UNCHANGED timers
      BY <1>1, <1>6, <2>1 DEF Load
    <3>3. QED
      BY <1>1, <3>1, <3>2 DEF PageOK
  <2>2. CASE u = t
    BY <1>1, <1>6, <2>2 DEF PageOK, Load, checkAccess
  <2>3. QED
    BY <2>1, <2>2
<1>7. ASSUME NEW u \in Tabs, Reload(u) PROVE PageOK(t)'
  BY <1>1, <1>7 DEF Reload, PageOK, Keys
<1>8. ASSUME UNCHANGED <<disk, tabs>> PROVE PageOK(t)'
  BY <1>1, <1>8 DEF PageOK, disk, tabs
<1>9. QED
  BY <1>2, <1>3, <1>4, <1>5, <1>6, <1>7, <1>8 DEF Next, Send, Serve, Revoke, vars

\* A tab is never left on a page its session does not go with.
THEOREM PagesCorrect == Spec => []PageMatchesSession
<1>1. Init => PageMatchesSession
  <2>1. NoSession.token = NoToken
    BY DEF NoSession
  <2>2. QED
    BY <2>1 DEF Init, PageMatchesSession, isSignedIn
<1>2. QED
  BY <1>1, InitType, NextType, PageStep, PTL DEF Spec
=============================================================================
