--------------------------- MODULE RedisPoolProofs ---------------------------
(* The safety properties of RedisPool, for any number of callers, places,    *)
(* commands, dials and breaks.                                               *)
EXTENDS RedisPool, FiniteSetTheorems, TLAPS

Steps == {"idle"} \cup InGet \cup InCall \cup InRemove
KeepSteps == InCall \cup {"redial", "drop", "replace", "push"}
ReserveSteps == {"unreserve", "dial", "giveback", "add"}
PlaceSteps == {"dial", "giveback", "add"}
Count(S) == Cardinality({g \in Callers : pc[g] \in S})

(* A connection dialled and not in the list yet. *)
Made(g) ==
    IF pc[g] = "add" THEN {cn[g]} ELSE IF pc[g] = "replace" THEN {newcn[g]} ELSE {}

Alive == {c \in Conns : sock[c].state \in {"open", "dead"}}

Dialled ==
    /\ cns \subseteq 1..dialled
    /\ \A g \in Callers : Made(g) \subseteq 1..dialled

Owned ==
    /\ Dialled
    /\ \A i \in DOMAIN free : free[i] \in cns
    /\ \A g \in Callers : Kept(g) \subseteq cns /\ Made(g) \cap cns = {}
    /\ OneUser
    /\ \A g, h \in Callers : g # h => Made(g) \cap Made(h) = {}
    /\ \A c \in cns : (\E i \in DOMAIN free : free[i] = c) \/ \E g \in Callers : c \in Kept(g)
    /\ \A c \in Conns : c \in Alive <=> c \in cns \/ \E g \in Callers : c \in Made(g)

Counted ==
    /\ len = Cardinality(cns) + Count(ReserveSteps)
    /\ Cardinality(cns) = Len(free) + Count(KeepSteps)
    /\ Cardinality(cns) + Count(PlaceSteps) <= size

Working == \A g \in Callers : pc[g] \in InGet \cup {"write", "read"} => todo[g] >= 1

(* What a caller that reads finds in the socket of its connection. *)
GoodReader(g) ==
    LET s == sock[cn[g]] IN
    /\ \A i \in DOMAIN s.sent : s.sent[i] = g
    /\ Len(s.sent) = todo[g] \/ (s.state # "open" /\ s.buffered = 0)

Replies ==
    /\ ~misread
    /\ \A c \in Conns : sock[c].buffered <= Len(sock[c].sent)
    /\ \A g \in Callers : pc[g] = "read" => GoodReader(g)
    /\ \A c \in Conns : sock[c].state = "open" =>
         sock[c].sent = <<>> \/ \E g \in Callers : pc[g] = "read" /\ cn[g] = c

(* TypeOK but for len, whose type is a matter of counting. *)
TypeRest ==
    /\ cns \subseteq Conns
    /\ free \in Seq(Conns)
    /\ sock \in [Conns -> [state : {"unused", "open", "dead", "closed"}, sent : Seq(Callers),
                           buffered : Nat]]
    /\ dialled \in 0..MaxDials
    /\ pc \in [Callers -> Steps]
    /\ cn \in [Callers -> Conns \cup {None}]
    /\ newcn \in [Callers -> Conns \cup {None}]
    /\ todo \in [Callers -> 0..MaxCmds]
    /\ err \in [Callers -> {"none", "redis", "net"}]
    /\ misread \in BOOLEAN
    /\ breaks \in 0..MaxBreaks
    /\ calls \in 0..MaxCalls

-----------------------------------------------------------------------------
(* Types. *)
LEMMA SplitType == TypeOK <=> TypeRest /\ len \in Nat
BY DEF TypeOK, TypeRest, Steps

LEMMA ReturnType ==
  ASSUME TypeRest, NEW g \in Callers, NEW from, Return(g, from)
  PROVE  /\ pc' \in [Callers -> Steps]
         /\ cn' \in [Callers -> Conns \cup {None}] /\ newcn' \in [Callers -> Conns \cup {None}]
         /\ todo' \in [Callers -> 0..MaxCmds] /\ err' \in [Callers -> {"none", "redis", "net"}]
BY PoolAssumption DEF TypeRest, Return, Goto, Steps

LEMMA FreshType ==
  ASSUME TypeRest, NEW c \in Conns, sock' = [sock EXCEPT ![c] = Fresh]
  PROVE  sock' \in [Conns -> [state : {"unused", "open", "dead", "closed"}, sent : Seq(Callers),
                              buffered : Nat]]
<1>1. Fresh = [state |-> "open", sent |-> <<>>, buffered |-> 0]
  BY DEF Fresh, Unused
<1>2. QED
  BY <1>1 DEF TypeRest

LEMMA OpenedType ==
  ASSUME TypeRest, dialled < MaxDials, Opened
  PROVE  /\ dialled + 1 \in Conns /\ dialled' \in 0..MaxDials
         /\ sock' \in [Conns -> [state : {"unused", "open", "dead", "closed"}, sent : Seq(Callers),
                                 buffered : Nat]]
<1>1. dialled + 1 \in Conns /\ dialled' \in 0..MaxDials
  BY PoolAssumption DEF TypeRest, Conns, Opened
<1>2. QED
  BY <1>1, FreshType DEF Opened

LEMMA GetType ==
  ASSUME TypeRest, Owned, NEW g \in Callers, GetConn(g)
  PROVE  TypeRest'
<1> USE PoolAssumption
<1>1. ASSUME NEW from, Receive(g, from) PROVE TypeRest'
  <2>1. Head(free) \in Conns /\ Tail(free) \in Seq(Conns)
    BY <1>1 DEF Receive, TypeRest
  <2>2. QED
    BY <1>1, <2>1 DEF Receive, TypeRest, Goto, Steps, InCall
<1>2. CASE First(g)
  <2>1. CASE Receive(g, "first")
    BY <1>1, <2>1
  <2>2. CASE Goto(g, "first", "reserve") /\ UNCHANGED <<len, cns, free, sock, dialled, cn, newcn, todo, err, misread, breaks, calls>>
    BY <2>2 DEF TypeRest, Goto, Steps, InGet
  <2>3. QED
    BY <1>2, <2>1, <2>2 DEF First
<1>3. CASE Reserve(g)
  BY <1>3 DEF Reserve, TypeRest, Goto, Steps, InGet
<1>4. CASE Unreserve(g)
  BY <1>4 DEF Unreserve, TypeRest, Goto, Steps, InGet
<1>5. CASE Dial(g)
  <2>1. CASE dialled < MaxDials /\ Opened /\ cn' = [cn EXCEPT ![g] = dialled + 1] /\ Goto(g, "dial", "add")
    <3>1. pc' \in [Callers -> Steps] /\ cn' \in [Callers -> Conns \cup {None}]
      BY <2>1, OpenedType DEF TypeRest, Goto, Steps, InGet
    <3>2. QED
      BY <1>5, <2>1, <3>1, OpenedType DEF Dial, TypeRest
  <2>2. CASE Goto(g, "dial", "giveback") /\ UNCHANGED <<dialled, sock, cn>>
    BY <1>5, <2>2 DEF Dial, TypeRest, Goto, Steps, InGet
  <2>3. QED
    BY <1>5, <2>1, <2>2 DEF Dial
<1>6. CASE GiveBack(g)
  BY <1>6, ReturnType DEF GiveBack, TypeRest
<1>7. CASE Add(g)
  <2>1. cn[g] \in Conns
    <3>1. Made(g) = {cn[g]}
      BY <1>7 DEF Add, Goto, Made
    <3>2. cn[g] \in 1..dialled
      BY <3>1 DEF Owned, Dialled
    <3>3. QED
      BY <3>2 DEF TypeRest, Conns
  <2>2. QED
    BY <1>7, <2>1 DEF Add, TypeRest, Goto, Steps, InCall
<1>8. CASE Wait(g)
  <2>1. CASE Receive(g, "wait")
    BY <1>1, <2>1
  <2>2. CASE Deadline(g)
    BY <2>2, ReturnType DEF Deadline, TypeRest
  <2>3. QED
    BY <1>8, <2>1, <2>2 DEF Wait
<1>9. QED
  BY <1>2, <1>3, <1>4, <1>5, <1>6, <1>7, <1>8 DEF GetConn

LEMMA WorkingCn ==
  ASSUME TypeRest, Owned, NEW g \in Callers, pc[g] \in InCall \cup {"redial", "drop", "replace"}
  PROVE  cn[g] \in Conns /\ cn[g] \in cns
BY DEF Owned, Kept, TypeRest

LEMMA ExecType ==
  ASSUME TypeRest, Owned, Working, NEW g \in Callers, Exec(g)
  PROVE  TypeRest'
<1> USE PoolAssumption
<1>0. pc[g] \in InCall /\ cn[g] \in Conns
  <2>1. pc[g] \in InCall
    BY DEF Exec, Write, Read, Put, Goto, Return, InCall
  <2>2. QED
    BY <2>1, WorkingCn
<1> DEFINE s == sock[cn[g]]
<1>1. s.state \in {"unused", "open", "dead", "closed"} /\ s.sent \in Seq(Callers) /\ s.buffered \in Nat
  BY <1>0 DEF TypeRest
<1> HIDE DEF s
<1>2. CASE Write(g)
  <2> DEFINE new == [i \in 1..todo[g] |-> g]
  <2>1. new \in Seq(Callers)
    <3>1. todo[g] \in Nat
      BY DEF TypeRest
    <3>2. QED
      BY <3>1
  <2>2. s.sent \o new \in Seq(Callers)
    BY <1>1, <2>1
  <2> HIDE DEF new
  <2>3. ASSUME sock' = [sock EXCEPT ![cn[g]].sent = @ \o new]
        PROVE  sock' \in [Conns -> [state : {"unused", "open", "dead", "closed"}, sent : Seq(Callers),
                              buffered : Nat]]
    BY <1>0, <2>2, <2>3 DEF TypeRest, s
  <2>4. QED
    BY <1>2, <2>3 DEF Write, TypeRest, Goto, Steps, InCall, new
<1>3. CASE Read(g)
  <2>0. pc[g] = "read" /\ todo[g] - 1 \in 0..MaxCmds
    BY <1>3 DEF Read, Working, TypeRest
  <2>1. ASSUME NEW done \in BOOLEAN, NEW e \in {"none", "redis"}, Answer(g, done, e)
        PROVE  TypeRest'
    <3>1. s.sent # <<>> /\ Tail(s.sent) \in Seq(Callers)
      BY <1>1, <2>1 DEF Answer, s
    <3>2. PICK n \in Nat : sock' = [sock EXCEPT ![cn[g]].sent = Tail(@), ![cn[g]].buffered = n]
      <4>1. PICK arrived \in (IF s.buffered > 0 THEN {s.buffered} ELSE 1..Len(s.sent)) :
              sock' = [sock EXCEPT ![cn[g]].sent = Tail(@), ![cn[g]].buffered = arrived - 1]
        BY <2>1 DEF Answer, s
      <4>2. arrived - 1 \in Nat
        BY <1>1
      <4>3. QED
        BY <4>1, <4>2
    <3>3. sock' \in [Conns -> [state : {"unused", "open", "dead", "closed"}, sent : Seq(Callers),
                              buffered : Nat]]
      BY <1>0, <3>1, <3>2 DEF TypeRest, s
    <3>4. QED
      BY <2>0, <2>1, <3>3 DEF Answer, TypeRest, GoOn, Goto, Steps, InCall, FirstError
  <2>2. ASSUME Fail(g) PROVE TypeRest'
    BY <2>0, <2>2 DEF Fail, TypeRest, GoOn, Goto, Steps, InCall, FirstError
  <2>3. LastReply(g) \in BOOLEAN
    BY DEF LastReply
  <2>4. QED
    BY <1>3, <2>1, <2>2, <2>3 DEF Read
<1>4. CASE Put(g)
  <2>1. CASE Return(g, "put") /\ free' = Append(free, cn[g]) /\ UNCHANGED <<len, cns, sock, dialled, misread, breaks, calls>>
    BY <1>0, <2>1, ReturnType DEF TypeRest
  <2>2. CASE Goto(g, "put", "redial") /\ UNCHANGED <<len, cns, free, sock, dialled, cn, newcn, todo, err, misread, breaks, calls>>
    BY <2>2 DEF TypeRest, Goto, Steps, InRemove
  <2>3. QED
    BY <1>4, <2>1, <2>2 DEF Put
<1>5. QED
  BY <1>2, <1>3, <1>4 DEF Exec

LEMMA RemoveType ==
  ASSUME TypeRest, Owned, NEW g \in Callers, Remove(g)
  PROVE  TypeRest'
<1>1. CASE Redial(g)
  <2>1. CASE dialled < MaxDials /\ Opened /\ newcn' = [newcn EXCEPT ![g] = dialled + 1] /\ Goto(g, "redial", "replace")
    <3>1. pc' \in [Callers -> Steps] /\ newcn' \in [Callers -> Conns \cup {None}]
      BY <2>1, OpenedType DEF TypeRest, Goto, Steps, InRemove
    <3>2. QED
      BY <1>1, <2>1, <3>1, OpenedType DEF Redial, TypeRest
  <2>2. CASE Goto(g, "redial", "drop") /\ UNCHANGED <<dialled, sock, newcn>>
    BY <1>1, <2>2 DEF Redial, TypeRest, Goto, Steps, InRemove
  <2>3. QED
    BY <1>1, <2>1, <2>2 DEF Redial
<1>2. ASSUME NEW c \in Conns, Closed(c)
      PROVE  sock' \in [Conns -> [state : {"unused", "open", "dead", "closed"}, sent : Seq(Callers),
                              buffered : Nat]]
  BY <1>2 DEF Closed, TypeRest
<1>3. CASE Drop(g)
  <2>1. cn[g] \in Conns
    BY <1>3, WorkingCn DEF Drop, Return, Goto
  <2>2. QED
    BY <1>2, <1>3, <2>1, ReturnType DEF Drop, TypeRest
<1>4. ASSUME pc[g] \in {"replace", "push"} PROVE newcn[g] \in Conns
  <2>1. CASE pc[g] = "replace"
    <3>1. newcn[g] \in 1..dialled
      BY <2>1 DEF Owned, Dialled, Made
    <3>2. QED
      BY <3>1, PoolAssumption DEF TypeRest, Conns
  <2>2. CASE pc[g] = "push"
    BY <2>2 DEF Owned, Kept, TypeRest, InCall
  <2>3. QED
    BY <1>4, <2>1, <2>2
<1>5. CASE Replace(g)
  <2>1. cn[g] \in Conns /\ newcn[g] \in Conns
    BY <1>4, <1>5, WorkingCn DEF Replace, Goto
  <2>2. pc' \in [Callers -> Steps] /\ cns' \subseteq Conns
    BY <1>5, <2>1 DEF Replace, Goto, TypeRest, Steps, InRemove
  <2>3. QED
    BY <1>2, <1>5, <2>1, <2>2 DEF Replace, TypeRest
<1>6. CASE Push(g)
  <2>1. newcn[g] \in Conns
    BY <1>4, <1>6 DEF Push, Return, Goto
  <2>2. free' \in Seq(Conns)
    BY <1>6, <2>1 DEF Push, TypeRest
  <2>3. QED
    BY <1>6, <2>2, ReturnType DEF Push, TypeRest
<1>7. QED
  BY <1>1, <1>3, <1>5, <1>6 DEF Remove

LEMMA TypeStep ==
  ASSUME TypeRest, Owned, Working, Next
  PROVE  TypeRest'
<1>1. ASSUME NEW g \in Callers, Step(g) PROVE TypeRest'
  BY <1>1, GetType, ExecType, RemoveType DEF Step
<1>2. ASSUME NEW g \in Callers, NEW n \in 1..MaxCmds, Begin(g, n) PROVE TypeRest'
  <2>1. n \in 0..MaxCmds /\ calls' \in 0..MaxCalls
    BY <1>2, PoolAssumption DEF Begin, TypeRest
  <2>2. pc' \in [Callers -> Steps] /\ todo' \in [Callers -> 0..MaxCmds]
    BY <1>2, <2>1 DEF Begin, TypeRest, Goto, Steps, InGet
  <2>3. QED
    BY <1>2, <2>1, <2>2 DEF Begin, TypeRest
<1>3. ASSUME NEW c \in Conns, Break(c) PROVE TypeRest'
  <2>1. breaks' \in 0..MaxBreaks
    BY <1>3, PoolAssumption DEF Break, TypeRest
  <2>2. sock' \in [Conns -> [state : {"unused", "open", "dead", "closed"}, sent : Seq(Callers),
                            buffered : Nat]]
    BY <1>3 DEF Break, TypeRest
  <2>3. QED
    BY <1>3, <2>1, <2>2 DEF Break, TypeRest
<1>4. QED
  BY <1>1, <1>2, <1>3 DEF Next

-----------------------------------------------------------------------------
(* Owning.  Most steps move no connection between the list, the channel and  *)
(* the callers. *)
LEMMA SameOwned ==
  ASSUME Owned, UNCHANGED <<cns, free, dialled>>, Alive' = Alive,
         \A h \in Callers : Kept(h)' = Kept(h) /\ Made(h)' = Made(h)
  PROVE  Owned'
BY DEF Owned, Dialled, OneUser

(* What callers other than g hold stays. *)
Only(g) == \A h \in Callers \ {g} : pc'[h] = pc[h] /\ cn'[h] = cn[h] /\ newcn'[h] = newcn[h]

LEMMA OnlyHolds ==
  ASSUME NEW g \in Callers, Only(g)
  PROVE  \A h \in Callers \ {g} : Kept(h)' = Kept(h) /\ Made(h)' = Made(h)
BY DEF Only, Kept, Made

LEMMA MoveOnly ==
  ASSUME TypeRest, NEW g \in Callers, NEW from, NEW to
  PROVE  /\ Goto(g, from, to) /\ UNCHANGED <<cn, newcn>> => Only(g)
         /\ Return(g, from) => Only(g)
BY DEF TypeRest, Goto, Return, Only

(* The steps that leave g what it holds, *)
LEMMA QuietOwned ==
  ASSUME TypeRest, Owned, NEW g \in Callers, Only(g), UNCHANGED <<cns, free, dialled>>, Alive' = Alive,
         Kept(g)' = Kept(g), Made(g)' = Made(g)
  PROVE  Owned'
<1>1. \A h \in Callers : Kept(h)' = Kept(h) /\ Made(h)' = Made(h)
  BY OnlyHolds
<1>2. QED
  BY <1>1, SameOwned

LEMMA SameAlive ==
  ASSUME UNCHANGED sock
  PROVE  Alive' = Alive
BY DEF Alive

(* and those that take a connection from the channel *)
LEMMA ReceiveOwned ==
  ASSUME TypeRest, Owned, NEW g \in Callers, NEW from \in InGet \ {"add"}, Receive(g, from)
  PROVE  Owned'
<1>1. Only(g)
  BY DEF Receive, TypeRest, Goto, Only
<1>2. \A h \in Callers \ {g} : Kept(h)' = Kept(h) /\ Made(h)' = Made(h)
  BY <1>1, OnlyHolds
<1>3. Kept(g) = {} /\ Made(g) = {} /\ Made(g)' = {}
  BY DEF Receive, TypeRest, Goto, Kept, Made, InGet, InCall
<1>4. Kept(g)' = {Head(free)}
  BY DEF Receive, TypeRest, Goto, Kept, InCall
<1>5. /\ Head(free) = free[1] /\ 1 \in DOMAIN free
      /\ free' = Tail(free) /\ free' \in Seq(Conns)
      /\ \A i \in DOMAIN free' : i + 1 \in DOMAIN free /\ free'[i] = free[i + 1] /\ i + 1 # 1
      /\ \A i \in DOMAIN free : i # 1 => i - 1 \in DOMAIN free' /\ free'[i - 1] = free[i]
  <2>1. free \in Seq(Conns) /\ free # <<>> /\ free' = Tail(free)
    BY DEF Receive, TypeRest
  <2>2. Len(free) \in Nat /\ Len(free) >= 1 /\ DOMAIN free = 1..Len(free)
    BY <2>1
  <2>3. Len(free') = Len(free) - 1 /\ free' \in Seq(Conns) /\ DOMAIN free' = 1..Len(free) - 1
    BY <2>1, <2>2
  <2>4. \A i \in 1..Len(free) - 1 : free'[i] = free[i + 1]
    BY <2>1, <2>2
  <2>5. Head(free) = free[1]
    BY <2>1
  <2>6. QED
    BY <2>1, <2>2, <2>3, <2>4, <2>5
<1>6. UNCHANGED <<cns, sock, dialled>>
  BY DEF Receive
<1>7. Alive' = Alive
  BY <1>6, SameAlive
<1>8. Dialled'
  BY <1>2, <1>3, <1>6 DEF Owned, Dialled
<1>9. OneUser'
  <2>1. \A h, k \in Callers : h # k => Kept(h)' \cap Kept(k)' = {}
    <3>1. \A h \in Callers : Head(free) \notin Kept(h)
      BY <1>5 DEF Owned, OneUser
    <3>2. QED
      BY <1>2, <1>4, <3>1 DEF Owned, OneUser
  <2>2. \A h \in Callers, i \in DOMAIN free' : free'[i] \notin Kept(h)'
    <3>1. \A i \in DOMAIN free' : free'[i] # Head(free)
      BY <1>5 DEF Owned, OneUser
    <3>2. \A h \in Callers, i \in DOMAIN free' : free'[i] \notin Kept(h)
      BY <1>5 DEF Owned, OneUser
    <3>3. QED
      BY <1>2, <1>4, <3>1, <3>2
  <2>3. \A i, j \in DOMAIN free' : free'[i] = free'[j] => i = j
    <3> SUFFICES ASSUME NEW i \in DOMAIN free', NEW j \in DOMAIN free', free'[i] = free'[j] PROVE i = j
      OBVIOUS
    <3>1. i + 1 = j + 1
      BY <1>5 DEF Owned, OneUser
    <3>2. QED
      BY <1>5, <3>1
  <2>4. QED
    BY <2>1, <2>2, <2>3 DEF OneUser
<1>10. \A i \in DOMAIN free' : free'[i] \in cns'
  BY <1>5, <1>6 DEF Owned
<1>11. \A h \in Callers : Kept(h)' \subseteq cns' /\ Made(h)' \cap cns' = {}
  BY <1>2, <1>3, <1>4, <1>5, <1>6 DEF Owned
<1>12. \A h, k \in Callers : h # k => Made(h)' \cap Made(k)' = {}
  BY <1>2, <1>3 DEF Owned
<1>13. \A c \in cns' : (\E i \in DOMAIN free' : free'[i] = c) \/ \E h \in Callers : c \in Kept(h)'
  <2> SUFFICES ASSUME NEW c \in cns
               PROVE  (\E i \in DOMAIN free' : free'[i] = c) \/ \E h \in Callers : c \in Kept(h)'
    BY <1>6
  <2>1. CASE \E h \in Callers : c \in Kept(h)
    BY <1>2, <1>3, <2>1
  <2>2. CASE \E i \in DOMAIN free : free[i] = c
    <3>1. PICK i \in DOMAIN free : free[i] = c
      BY <2>2
    <3>2. QED
      BY <1>4, <1>5, <3>1
  <2>3. QED
    BY <2>1, <2>2 DEF Owned
<1>14. \A c \in Conns : c \in Alive' <=> c \in cns' \/ \E h \in Callers : c \in Made(h)'
  <2>1. \A h \in Callers : Made(h)' = Made(h)
    BY <1>2, <1>3
  <2>2. QED
    BY <1>6, <1>7, <2>1 DEF Owned
<1>15. QED
  BY <1>8, <1>9, <1>10, <1>11, <1>12, <1>13, <1>14 DEF Owned

(* those that put one back into it, *)
LEMMA AppendOwned ==
  ASSUME TypeRest, Owned, NEW g \in Callers, NEW c \in Conns, Only(g), UNCHANGED <<cns, dialled>>,
         Alive' = Alive, free' = Append(free, c),
         Kept(g) = {c}, Kept(g)' = {}, Made(g) = {}, Made(g)' = {}
  PROVE  Owned'
<1>2. \A h \in Callers \ {g} : Kept(h)' = Kept(h) /\ Made(h)' = Made(h)
  BY OnlyHolds
<1>3. /\ \A i \in DOMAIN free : i \in DOMAIN free' /\ free'[i] = free[i]
      /\ \A i \in DOMAIN free' : i \in DOMAIN free \/ (i = Len(free) + 1 /\ free'[i] = c)
      /\ Len(free) + 1 \in DOMAIN free' /\ free'[Len(free) + 1] = c
  BY DEF TypeRest
<1>4. \A i \in DOMAIN free : free[i] # c
  BY DEF Owned, OneUser
<1>5. \A h \in Callers \ {g} : c \notin Kept(h)
  BY DEF Owned, OneUser
<1>8. Dialled'
  BY <1>2 DEF Owned, Dialled
<1>9. OneUser'
  <2>1. \A h, k \in Callers : h # k => Kept(h)' \cap Kept(k)' = {}
    BY <1>2 DEF Owned, OneUser
  <2>2. \A h \in Callers, i \in DOMAIN free' : free'[i] \notin Kept(h)'
    BY <1>2, <1>3, <1>5 DEF Owned, OneUser
  <2>3. \A i, j \in DOMAIN free' : free'[i] = free'[j] => i = j
    BY <1>3, <1>4 DEF Owned, OneUser
  <2>4. QED
    BY <2>1, <2>2, <2>3 DEF OneUser
<1>10. \A i \in DOMAIN free' : free'[i] \in cns'
  BY <1>3 DEF Owned
<1>11. \A h \in Callers : Kept(h)' \subseteq cns' /\ Made(h)' \cap cns' = {}
  BY <1>2 DEF Owned
<1>12. \A h, k \in Callers : h # k => Made(h)' \cap Made(k)' = {}
  BY <1>2 DEF Owned
<1>13. \A d \in cns' : (\E i \in DOMAIN free' : free'[i] = d) \/ \E h \in Callers : d \in Kept(h)'
  BY <1>2, <1>3 DEF Owned
<1>14. \A d \in Conns : d \in Alive' <=> d \in cns' \/ \E h \in Callers : d \in Made(h)'
  BY <1>2 DEF Owned
<1>15. QED
  BY <1>8, <1>9, <1>10, <1>11, <1>12, <1>13, <1>14 DEF Owned

(* and those that change the list and not the channel, with the connections  *)
(* in new dialled. *)
LEMMA ListOwned ==
  ASSUME TypeRest, Owned, NEW g \in Callers, Only(g), free' = free, dialled' \in Nat, dialled' >= dialled,
         NEW new, new \subseteq 1..dialled', new \cap (1..dialled) = {},
         Kept(g)' \cup Made(g)' \subseteq Kept(g) \cup Made(g) \cup new,
         Made(g)' \cap Kept(g)' = {},
         cns' = (cns \ Kept(g)) \cup Kept(g)',
         Alive' = (Alive \ (Kept(g) \cup Made(g))) \cup Kept(g)' \cup Made(g)'
  PROVE  Owned'
<1>1. dialled \in Nat /\ 1..dialled \subseteq 1..dialled'
  BY PoolAssumption DEF TypeRest
<1>2. \A h \in Callers \ {g} : Kept(h)' = Kept(h) /\ Made(h)' = Made(h)
  BY OnlyHolds
<1>3. \A h \in Callers \ {g} :
        /\ Kept(h) \cap (Kept(g) \cup Made(g)) = {} /\ Made(h) \cap (Kept(g) \cup Made(g)) = {}
        /\ Kept(h) \cap new = {} /\ Made(h) \cap new = {}
  BY DEF Owned, OneUser, Dialled
<1>4. \A i \in DOMAIN free : free[i] \notin Kept(g) \cup Made(g) \cup new
  BY DEF Owned, OneUser, Dialled
<1>5. Kept(g) \subseteq 1..dialled /\ Made(g) \subseteq 1..dialled /\ cns \subseteq 1..dialled
  BY DEF Owned, Dialled
<1>6. Kept(g)' \cup Made(g)' \subseteq 1..dialled'
  BY <1>1, <1>5
<1>7. \A h \in Callers \ {g} : Kept(h)' \subseteq cns /\ Kept(h)' \cap Kept(g) = {} /\ Made(h)' \cap cns = {}
  BY <1>2, <1>3 DEF Owned
<1>8. Dialled'
  <2>1. cns' \subseteq 1..dialled'
    BY <1>1, <1>5, <1>6
  <2>2. \A h \in Callers : Made(h)' \subseteq 1..dialled'
    <3>1. \A h \in Callers \ {g} : Made(h)' \subseteq 1..dialled
      BY <1>2 DEF Owned, Dialled
    <3>2. QED
      BY <1>1, <1>6, <3>1
  <2>3. QED
    BY <2>1, <2>2 DEF Dialled
<1>9. OneUser'
  <2>1. \A h, k \in Callers : h # k => Kept(h)' \cap Kept(k)' = {}
    <3>1. \A h \in Callers \ {g} : Kept(h)' \cap Kept(g)' = {}
      BY <1>2, <1>3
    <3>2. \A h, k \in Callers \ {g} : h # k => Kept(h)' \cap Kept(k)' = {}
      BY <1>2 DEF Owned, OneUser
    <3>3. QED
      BY <3>1, <3>2
  <2>2. \A h \in Callers, i \in DOMAIN free' : free'[i] \notin Kept(h)'
    BY <1>2, <1>4 DEF Owned, OneUser
  <2>3. \A i, j \in DOMAIN free' : free'[i] = free'[j] => i = j
    BY DEF Owned, OneUser
  <2>4. QED
    BY <2>1, <2>2, <2>3 DEF OneUser
<1>10. \A i \in DOMAIN free' : free'[i] \in cns'
  BY <1>4 DEF Owned
<1>11. \A h \in Callers : Kept(h)' \subseteq cns' /\ Made(h)' \cap cns' = {}
  <2>1. \A h \in Callers \ {g} : Kept(h)' \subseteq cns'
    BY <1>7
  <2>2. \A h \in Callers \ {g} : Made(h)' \cap cns' = {}
    BY <1>2, <1>3, <1>7
  <2>3. Made(g)' \cap cns' = {}
    <3>1. (Kept(g) \cup Made(g) \cup new) \cap (cns \ Kept(g)) = {}
      BY <1>5 DEF Owned
    <3>2. QED
      BY <3>1
  <2>4. QED
    BY <2>1, <2>2, <2>3
<1>12. \A h, k \in Callers : h # k => Made(h)' \cap Made(k)' = {}
  <2>1. \A h \in Callers \ {g} : Made(h)' \cap Made(g)' = {}
    BY <1>2, <1>3
  <2>2. \A h, k \in Callers \ {g} : h # k => Made(h)' \cap Made(k)' = {}
    BY <1>2 DEF Owned
  <2>3. QED
    BY <2>1, <2>2
<1>13. \A d \in cns' : (\E i \in DOMAIN free' : free'[i] = d) \/ \E h \in Callers : d \in Kept(h)'
  <2> SUFFICES ASSUME NEW d \in cns'
               PROVE  (\E i \in DOMAIN free' : free'[i] = d) \/ \E h \in Callers : d \in Kept(h)'
    OBVIOUS
  <2>1. CASE d \in Kept(g)'
    BY <2>1
  <2>2. CASE d \in cns /\ d \notin Kept(g)
    <3>1. (\E i \in DOMAIN free : free[i] = d) \/ \E h \in Callers \ {g} : d \in Kept(h)
      BY <2>2 DEF Owned
    <3>2. QED
      BY <1>2, <3>1
  <2>3. QED
    BY <2>1, <2>2
<1>14. \A d \in Conns : d \in Alive' <=> d \in cns' \/ \E h \in Callers : d \in Made(h)'
  <2> SUFFICES ASSUME NEW d \in Conns
               PROVE  d \in Alive' <=> d \in cns' \/ \E h \in Callers : d \in Made(h)'
    OBVIOUS
  <2>1. d \in Alive <=> d \in cns \/ \E h \in Callers : d \in Made(h)
    BY DEF Owned
  <2>2. (\E h \in Callers \ {g} : d \in Made(h)) => d \notin Kept(g) \cup Made(g)
    BY <1>3
  <2>3. d \in cns => d \notin Made(g)
    BY DEF Owned
  <2>4. (\E h \in Callers : d \in Made(h)') <=> d \in Made(g)' \/ \E h \in Callers \ {g} : d \in Made(h)
    BY <1>2
  <2>5. (\E h \in Callers : d \in Made(h)) <=> d \in Made(g) \/ \E h \in Callers \ {g} : d \in Made(h)
    OBVIOUS
  <2>6. QED
    BY <2>1, <2>2, <2>3, <2>4, <2>5
<1>15. QED
  BY <1>8, <1>9, <1>10, <1>11, <1>12, <1>13, <1>14 DEF Owned

(* A step that changes no socket's state, the list or the channel, and ends   *)
(* where g holds the same. *)
LEMMA StillOwned ==
  ASSUME TypeRest, Owned, NEW g \in Callers, NEW from, NEW to,
         Goto(g, from, to), UNCHANGED <<cns, free, dialled, cn, newcn>>, Alive' = Alive,
         from \in KeepSteps \ {"push", "replace"} <=> to \in KeepSteps \ {"push", "replace"},
         {from, to} \cap {"add", "push", "replace"} = {}
  PROVE  Owned'
<1>1. Only(g)
  BY MoveOnly
<1>2. Kept(g)' = Kept(g) /\ Made(g)' = Made(g)
  BY DEF TypeRest, Goto, Kept, Made, KeepSteps
<1>3. QED
  BY <1>1, <1>2, QuietOwned

LEMMA OutOwned ==
  ASSUME TypeRest, Owned, NEW g \in Callers, NEW from \in {"giveback", "wait"}, Return(g, from),
         UNCHANGED <<cns, free, dialled, sock>>
  PROVE  Owned'
<1>1. Only(g)
  BY MoveOnly
<1>2. Kept(g)' = Kept(g) /\ Made(g)' = Made(g)
  BY DEF TypeRest, Return, Goto, Kept, Made, InCall
<1>3. QED
  BY <1>1, <1>2, QuietOwned, SameAlive

(* The dial of a connection. *)
LEMMA OpenedAlive ==
  ASSUME TypeRest, dialled < MaxDials, Opened
  PROVE  /\ Alive' = Alive \cup {dialled + 1}
         /\ dialled' = dialled + 1 /\ dialled \in Nat
         /\ {dialled + 1} \subseteq 1..dialled' /\ {dialled + 1} \cap (1..dialled) = {}
<1>1. dialled \in Nat /\ dialled + 1 \in Conns /\ dialled' = dialled + 1
  BY PoolAssumption DEF TypeRest, Conns, Opened
<1>2. Fresh.state = "open"
  BY DEF Fresh, Unused
<1>3. Alive' = Alive \cup {dialled + 1}
  BY <1>1, <1>2 DEF Opened, Alive, TypeRest
<1>4. QED
  BY <1>1, <1>3

LEMMA GetOwned ==
  ASSUME TypeRest, Owned, NEW g \in Callers, GetConn(g)
  PROVE  Owned'
<1>1. CASE First(g)
  <2>1. CASE Receive(g, "first")
    BY <2>1, ReceiveOwned DEF InGet
  <2>2. CASE Goto(g, "first", "reserve") /\ UNCHANGED <<len, cns, free, sock, dialled, cn, newcn, todo, err, misread, breaks, calls>>
    BY <2>2, StillOwned, SameAlive DEF KeepSteps, InCall
  <2>3. QED
    BY <1>1, <2>1, <2>2 DEF First
<1>2. CASE Reserve(g)
  <2>1. CASE Goto(g, "reserve", "dial")
    BY <1>2, <2>1, StillOwned, SameAlive DEF Reserve, KeepSteps, InCall
  <2>2. CASE Goto(g, "reserve", "unreserve")
    BY <1>2, <2>2, StillOwned, SameAlive DEF Reserve, KeepSteps, InCall
  <2>3. QED
    BY <1>2, <2>1, <2>2 DEF Reserve
<1>3. CASE Unreserve(g)
  BY <1>3, StillOwned, SameAlive DEF Unreserve, KeepSteps, InCall
<1>4. CASE Dial(g)
  <2>1. CASE dialled < MaxDials /\ Opened /\ cn' = [cn EXCEPT ![g] = dialled + 1] /\ Goto(g, "dial", "add")
    <3>1. Only(g)
      BY <1>4, <2>1 DEF Dial, Goto, Only, TypeRest
    <3>2. Kept(g) = {} /\ Made(g) = {} /\ Kept(g)' = {} /\ Made(g)' = {dialled + 1}
      BY <2>1 DEF Goto, TypeRest, Kept, Made, InCall
    <3>3. cns' = (cns \ Kept(g)) \cup Kept(g)' /\ free' = free
      BY <1>4, <3>2 DEF Dial
    <3>4. Alive' = (Alive \ (Kept(g) \cup Made(g))) \cup Kept(g)' \cup Made(g)'
      BY <2>1, <3>2, OpenedAlive
    <3>5. QED
      <4> DEFINE new == {dialled + 1}
      <4>1. /\ dialled' \in Nat /\ dialled' >= dialled
            /\ new \subseteq 1..dialled' /\ new \cap (1..dialled) = {}
        BY <2>1, OpenedAlive
      <4>2. Kept(g)' \cup Made(g)' \subseteq Kept(g) \cup Made(g) \cup new /\ Made(g)' \cap Kept(g)' = {}
        BY <3>2
      <4> HIDE DEF new
      <4>3. QED
        BY <3>1, <3>3, <3>4, <4>1, <4>2, ListOwned
  <2>2. CASE Goto(g, "dial", "giveback") /\ UNCHANGED <<dialled, sock, cn>>
    BY <1>4, <2>2, StillOwned, SameAlive DEF Dial, KeepSteps, InCall
  <2>3. QED
    BY <1>4, <2>1, <2>2 DEF Dial
<1>5. CASE GiveBack(g)
  BY <1>5, OutOwned DEF GiveBack
<1>6. CASE Add(g)
  <2>1. Only(g)
    BY <1>6, MoveOnly DEF Add
  <2>2. Kept(g) = {} /\ Made(g) = {cn[g]} /\ Kept(g)' = {cn[g]} /\ Made(g)' = {}
    BY <1>6 DEF Add, Goto, TypeRest, Kept, Made, InCall
  <2>3. Alive' = Alive /\ cn[g] \in Alive
    <3>1. cn[g] \in 1..dialled
      BY <2>2 DEF Owned, Dialled
    <3>2. cn[g] \in Conns
      BY <3>1, PoolAssumption DEF TypeRest, Conns
    <3>3. QED
      BY <1>6, <2>2, <3>2, SameAlive DEF Add, Owned
  <2>4. dialled \in Nat /\ dialled' = dialled
    BY <1>6, PoolAssumption DEF Add, TypeRest
  <2>5. cns' = (cns \ Kept(g)) \cup Kept(g)' /\ free' = free
    BY <1>6, <2>2 DEF Add
  <2>6. Alive' = (Alive \ (Kept(g) \cup Made(g))) \cup Kept(g)' \cup Made(g)'
    BY <2>2, <2>3
  <2>7. QED
    BY <2>1, <2>2, <2>4, <2>5, <2>6, ListOwned
<1>7. CASE Wait(g)
  <2>1. CASE Receive(g, "wait")
    BY <2>1, ReceiveOwned DEF InGet
  <2>2. CASE Deadline(g)
    BY <2>2, OutOwned DEF Deadline
  <2>3. QED
    BY <1>7, <2>1, <2>2 DEF Wait
<1>8. QED
  BY <1>1, <1>2, <1>3, <1>4, <1>5, <1>6, <1>7 DEF GetConn

LEMMA SameStates ==
  ASSUME TypeRest, sock' \in [Conns -> [state : {"unused", "open", "dead", "closed"}, sent : Seq(Callers),
                              buffered : Nat]],
         \A c \in Conns : sock'[c].state = sock[c].state
  PROVE  Alive' = Alive
BY DEF Alive

LEMMA ExecOwned ==
  ASSUME TypeRest, Owned, NEW g \in Callers, Exec(g), TypeRest'
  PROVE  Owned'
<1>0. ASSUME Write(g) \/ Read(g) PROVE Alive' = Alive
  <2>1. CASE UNCHANGED sock
    BY <2>1, SameStates DEF TypeRest
  <2>2. CASE sock' = [sock EXCEPT ![cn[g]].sent = @ \o [i \in 1..todo[g] |-> g]]
    <3>1. \A c \in Conns : sock'[c].state = sock[c].state
      BY <2>2 DEF TypeRest
    <3>2. QED
      BY <3>1, SameStates DEF TypeRest
  <2>3. ASSUME NEW n \in Nat,
               sock' = [sock EXCEPT ![cn[g]].sent = Tail(@), ![cn[g]].buffered = n - 1]
        PROVE  Alive' = Alive
    <3>1. ASSUME NEW c \in Conns PROVE sock'[c].state = sock[c].state
      <4>1. CASE c = cn[g]
        BY <2>3, <4>1 DEF TypeRest
      <4>2. CASE c # cn[g]
        BY <2>3, <4>2 DEF TypeRest
      <4>3. QED
        BY <4>1, <4>2
    <3>2. QED
      BY <3>1, SameStates DEF TypeRest
  <2>4. CASE Write(g)
    BY <2>1, <2>2, <2>4 DEF Write
  <2>5. ASSUME NEW d, NEW e, Answer(g, d, e) PROVE Alive' = Alive
    <3> DEFINE Arrived == IF sock[cn[g]].buffered > 0 THEN {sock[cn[g]].buffered}
                          ELSE 1..Len(sock[cn[g]].sent)
    <3>1. PICK n \in Arrived :
             sock' = [sock EXCEPT ![cn[g]].sent = Tail(@), ![cn[g]].buffered = n - 1]
      BY <2>5 DEF Answer
    <3>2. n \in Nat
      <4>1. pc[g] = "read"
        BY <2>5 DEF Answer, GoOn, Goto
      <4>2. cn[g] \in Conns
        BY <4>1, WorkingCn DEF InCall
      <4>3. Len(sock[cn[g]].sent) \in Nat /\ sock[cn[g]].buffered \in Nat
        BY <4>2 DEF TypeRest
      <4>4. QED
        BY <3>1, <4>3
    <3>3. QED
      BY <2>3, <3>1, <3>2
  <2>6. CASE Read(g)
    BY <2>1, <2>5, <2>6 DEF Read, Fail
  <2>7. QED
    BY <1>0, <2>4, <2>6
<1>1. CASE Write(g)
  <2>1. CASE Goto(g, "write", "read")
    BY <1>0, <1>1, <2>1, StillOwned DEF Write, KeepSteps, InCall
  <2>2. CASE Goto(g, "write", "put")
    BY <1>0, <1>1, <2>2, StillOwned DEF Write, KeepSteps, InCall
  <2>3. QED
    BY <1>1, <2>1, <2>2 DEF Write
<1>2. CASE Read(g)
  <2>1. UNCHANGED <<cns, free, dialled, cn, newcn>>
    BY <1>2 DEF Read, Answer, Fail
  <2>2. CASE Goto(g, "read", "read")
    BY <1>0, <1>2, <2>1, <2>2, StillOwned DEF KeepSteps, InCall
  <2>3. CASE Goto(g, "read", "put")
    BY <1>0, <1>2, <2>1, <2>3, StillOwned DEF KeepSteps, InCall
  <2>4. QED
    BY <1>2, <2>2, <2>3 DEF Read, Answer, Fail, GoOn
<1>3. CASE Put(g)
  <2>1. CASE Return(g, "put") /\ free' = Append(free, cn[g]) /\ UNCHANGED <<len, cns, sock, dialled, misread, breaks, calls>>
    <3>1. Only(g)
      BY <2>1, MoveOnly
    <3>2. Kept(g) = {cn[g]} /\ Made(g) = {} /\ Kept(g)' = {} /\ Made(g)' = {}
      BY <2>1 DEF Return, Goto, TypeRest, Kept, Made, InCall
    <3>3. cn[g] \in Conns
      BY <2>1, WorkingCn DEF Return, Goto, InCall
    <3>4. QED
      BY <2>1, <3>1, <3>2, <3>3, SameAlive, AppendOwned
  <2>2. CASE Goto(g, "put", "redial") /\ UNCHANGED <<len, cns, free, sock, dialled, cn, newcn, todo, err, misread, breaks, calls>>
    BY <2>2, StillOwned, SameAlive DEF KeepSteps, InCall
  <2>3. QED
    BY <1>3, <2>1, <2>2 DEF Put
<1>4. QED
  BY <1>1, <1>2, <1>3 DEF Exec

LEMMA ClosedAlive ==
  ASSUME TypeRest, NEW c \in Conns, Closed(c)
  PROVE  Alive' = Alive \ {c}
BY DEF TypeRest, Closed, Alive

LEMMA RemoveOwned ==
  ASSUME TypeRest, Owned, NEW g \in Callers, Remove(g)
  PROVE  Owned'
<1>0. dialled \in Nat
  BY PoolAssumption DEF TypeRest
<1>1. CASE Redial(g)
  <2>1. CASE dialled < MaxDials /\ Opened /\ newcn' = [newcn EXCEPT ![g] = dialled + 1] /\ Goto(g, "redial", "replace")
    <3> DEFINE new == {dialled + 1}
    <3>1. Only(g)
      BY <1>1, <2>1 DEF Redial, Goto, Only, TypeRest
    <3>2. Kept(g) = {cn[g]} /\ Made(g) = {} /\ Kept(g)' = {cn[g]} /\ Made(g)' = new
      BY <1>1, <2>1 DEF Redial, Goto, TypeRest, Kept, Made, InCall
    <3>3. cn[g] \in cns /\ cn[g] \in Alive /\ cn[g] # dialled + 1
      BY <1>0, <2>1, <3>2, WorkingCn DEF Owned, Dialled, Goto
    <3>4. cns' = (cns \ Kept(g)) \cup Kept(g)' /\ free' = free
      BY <1>1, <3>2, <3>3 DEF Redial
    <3>5. Alive' = (Alive \ (Kept(g) \cup Made(g))) \cup Kept(g)' \cup Made(g)'
      BY <2>1, <3>2, <3>3, OpenedAlive
    <3>6. /\ dialled' \in Nat /\ dialled' >= dialled
          /\ new \subseteq 1..dialled' /\ new \cap (1..dialled) = {}
      BY <2>1, OpenedAlive
    <3>7. Kept(g)' \cup Made(g)' \subseteq Kept(g) \cup Made(g) \cup new /\ Made(g)' \cap Kept(g)' = {}
      BY <3>2, <3>3
    <3> HIDE DEF new
    <3>8. QED
      BY <3>1, <3>4, <3>5, <3>6, <3>7, ListOwned
  <2>2. CASE Goto(g, "redial", "drop") /\ UNCHANGED <<dialled, sock, newcn>>
    BY <1>1, <2>2, StillOwned, SameAlive DEF Redial, KeepSteps, InCall
  <2>3. QED
    BY <1>1, <2>1, <2>2 DEF Redial
<1>2. CASE Drop(g)
  <2>1. Only(g)
    BY <1>2, MoveOnly DEF Drop
  <2>2. Kept(g) = {cn[g]} /\ Made(g) = {} /\ Kept(g)' = {} /\ Made(g)' = {}
    BY <1>2 DEF Drop, Return, Goto, TypeRest, Kept, Made, InCall
  <2>3. Alive' = Alive \ {cn[g]}
    BY <1>2, WorkingCn, ClosedAlive DEF Drop, Return, Goto
  <2>4. cns' = (cns \ Kept(g)) \cup Kept(g)' /\ free' = free /\ dialled' = dialled
    BY <1>2, <2>2 DEF Drop
  <2>5. Alive' = (Alive \ (Kept(g) \cup Made(g))) \cup Kept(g)' \cup Made(g)'
    BY <2>2, <2>3
  <2>6. QED
    BY <1>0, <2>1, <2>2, <2>4, <2>5, ListOwned
<1>3. CASE Replace(g)
  <2>1. Only(g)
    BY <1>3, MoveOnly DEF Replace
  <2>2. Kept(g) = {cn[g]} /\ Made(g) = {newcn[g]} /\ Kept(g)' = {newcn[g]} /\ Made(g)' = {}
    BY <1>3 DEF Replace, Goto, TypeRest, Kept, Made, InCall
  <2>3. Alive' = Alive \ {cn[g]}
    BY <1>3, WorkingCn, ClosedAlive DEF Replace, Goto
  <2>4. newcn[g] \in Alive /\ newcn[g] # cn[g]
    <3>1. newcn[g] \in 1..dialled /\ newcn[g] \notin cns /\ cn[g] \in cns
      BY <2>2 DEF Owned, Dialled
    <3>2. newcn[g] \in Conns
      BY <3>1, PoolAssumption DEF TypeRest, Conns
    <3>3. QED
      BY <2>2, <3>1, <3>2 DEF Owned
  <2>5. cns' = (cns \ Kept(g)) \cup Kept(g)' /\ free' = free /\ dialled' = dialled
    BY <1>3, <2>2 DEF Replace
  <2>6. Alive' = (Alive \ (Kept(g) \cup Made(g))) \cup Kept(g)' \cup Made(g)'
    BY <2>2, <2>3, <2>4
  <2>7. QED
    BY <1>0, <2>1, <2>2, <2>5, <2>6, ListOwned
<1>4. CASE Push(g)
  <2>1. Only(g)
    BY <1>4, MoveOnly DEF Push
  <2>2. Kept(g) = {newcn[g]} /\ Made(g) = {} /\ Kept(g)' = {} /\ Made(g)' = {}
    BY <1>4 DEF Push, Return, Goto, TypeRest, Kept, Made, InCall
  <2>3. newcn[g] \in Conns
    BY <2>2 DEF Owned, TypeRest
  <2>4. QED
    BY <1>4, <2>1, <2>2, <2>3, SameAlive, AppendOwned DEF Push
<1>5. QED
  BY <1>1, <1>2, <1>3, <1>4 DEF Remove

LEMMA OwnedStep ==
  ASSUME TypeRest, Owned, TypeRest', Next
  PROVE  Owned'
<1>1. ASSUME NEW g \in Callers, Step(g) PROVE Owned'
  BY <1>1, GetOwned, ExecOwned, RemoveOwned DEF Step
<1>2. ASSUME NEW g \in Callers, NEW n \in 1..MaxCmds, Begin(g, n) PROVE Owned'
  BY <1>2, StillOwned, SameAlive DEF Begin, KeepSteps, InCall
<1>3. ASSUME NEW c \in Conns, Break(c) PROVE Owned'
  <2>1. Alive' = Alive
    BY <1>3 DEF Break, Alive, TypeRest
  <2>2. \A h \in Callers : Kept(h)' = Kept(h) /\ Made(h)' = Made(h)
    BY <1>3 DEF Break, Kept, Made
  <2>3. QED
    BY <1>3, <2>1, <2>2, SameOwned DEF Break
<1>4. QED
  BY <1>1, <1>2, <1>3 DEF Next
-----------------------------------------------------------------------------
(* The numbers. *)
LEMMA CnsNat ==
  ASSUME TypeRest
  PROVE  IsFiniteSet(cns) /\ Cardinality(cns) \in Nat /\ Len(free) \in Nat
<1>1. IsFiniteSet(Conns)
  BY PoolAssumption, FS_Interval DEF Conns
<1>2. IsFiniteSet(cns)
  BY <1>1, FS_Subset DEF TypeRest
<1>3. QED
  BY <1>2, FS_CardinalityType DEF TypeRest

LEMMA CountNat ==
  ASSUME NEW S
  PROVE  IsFiniteSet({g \in Callers : pc[g] \in S}) /\ Count(S) \in Nat
<1>1. IsFiniteSet({g \in Callers : pc[g] \in S})
  <2>1. {g \in Callers : pc[g] \in S} \subseteq Callers
    OBVIOUS
  <2>2. QED
    BY <2>1, PoolAssumption, FS_Subset
<1>2. QED
  BY <1>1, FS_CardinalityType DEF Count

LEMMA CountStep ==
  ASSUME TypeRest, NEW g \in Callers, NEW from, NEW to, Goto(g, from, to), NEW S
  PROVE  /\ Count(S) \in Nat /\ Count(S)' \in Nat
         /\ (from \in S <=> to \in S) => Count(S)' = Count(S)
         /\ from \notin S /\ to \in S => Count(S)' = Count(S) + 1
         /\ from \in S /\ to \notin S => Count(S)' = Count(S) - 1
<1>1. pc \in [Callers -> Steps] /\ pc' = [pc EXCEPT ![g] = to] /\ pc[g] = from
  BY DEF TypeRest, Goto
<1> DEFINE A == {h \in Callers : pc[h] \in S}
           B == {h \in Callers : pc'[h] \in S}
<1>2. Count(S) = Cardinality(A) /\ Count(S)' = Cardinality(B)
  BY DEF Count
<1>3. IsFiniteSet(A) /\ IsFiniteSet(B)
  <2>1. A \subseteq Callers /\ B \subseteq Callers
    OBVIOUS
  <2>2. QED
    BY <2>1, PoolAssumption, FS_Subset
<1>4. Cardinality(A) \in Nat /\ Cardinality(B) \in Nat
  BY <1>3, FS_CardinalityType
<1>5. ASSUME from \in S <=> to \in S PROVE B = A
  BY <1>1, <1>5
<1>6. ASSUME from \notin S, to \in S PROVE Cardinality(B) = Cardinality(A) + 1
  <2>1. B = A \cup {g} /\ g \notin A
    BY <1>1, <1>6
  <2>2. QED
    BY <2>1, <1>3, FS_AddElement
<1>7. ASSUME from \in S, to \notin S PROVE Cardinality(B) = Cardinality(A) - 1
  <2>1. B = A \ {g} /\ g \in A
    BY <1>1, <1>7
  <2>2. QED
    BY <2>1, <1>3, FS_RemoveElement
<1> HIDE DEF A, B
<1>8. QED
  BY <1>2, <1>4, <1>5, <1>6, <1>7

LEMMA PlacesAmong ==
  ASSUME TypeRest
  PROVE  Count(PlaceSteps) <= Count(ReserveSteps)
<1> DEFINE A == {g \in Callers : pc[g] \in PlaceSteps}
           B == {g \in Callers : pc[g] \in ReserveSteps}
<1>1. A \subseteq B
  BY DEF PlaceSteps, ReserveSteps
<1>2. IsFiniteSet(B)
  BY CountNat
<1>3. Cardinality(A) <= Cardinality(B)
  BY <1>1, <1>2, FS_Subset
<1>4. QED
  BY <1>3 DEF Count

LEMMA QuietCounted ==
  ASSUME TypeRest, Counted, NEW g \in Callers, NEW from, NEW to, Goto(g, from, to),
         from \in ReserveSteps <=> to \in ReserveSteps,
         from \in KeepSteps <=> to \in KeepSteps,
         from \in PlaceSteps <=> to \in PlaceSteps,
         UNCHANGED <<len, cns, free>>
  PROVE  Counted'
<1>1. Count(ReserveSteps)' = Count(ReserveSteps)
  BY CountStep
<1>2. Count(KeepSteps)' = Count(KeepSteps)
  BY CountStep
<1>3. Count(PlaceSteps)' = Count(PlaceSteps)
  BY CountStep
<1>4. QED
  BY <1>1, <1>2, <1>3 DEF Counted

LEMMA ReceiveCounted ==
  ASSUME TypeRest, Counted, NEW g \in Callers, NEW from \in {"first", "wait"}, Receive(g, from)
  PROVE  Counted'
<1>1. Goto(g, from, "write") /\ UNCHANGED <<len, cns>>
  BY DEF Receive
<1>2. Count(ReserveSteps)' = Count(ReserveSteps)
  BY <1>1, CountStep DEF ReserveSteps
<1>3. Count(KeepSteps)' = Count(KeepSteps) + 1 /\ Count(KeepSteps) \in Nat
  BY <1>1, CountStep DEF KeepSteps, InCall
<1>4. Count(PlaceSteps)' = Count(PlaceSteps)
  BY <1>1, CountStep DEF PlaceSteps
<1>5. Len(free') = Len(free) - 1
  BY DEF Receive, TypeRest
<1>6. QED
  BY <1>1, <1>2, <1>3, <1>4, <1>5, CnsNat DEF Counted

LEMMA AppendCounted ==
  ASSUME TypeRest, Counted, NEW g \in Callers, NEW from \in {"put", "push"}, Goto(g, from, "idle"),
         NEW c \in Conns, free' = Append(free, c), UNCHANGED <<len, cns>>
  PROVE  Counted'
<1>1. Count(ReserveSteps)' = Count(ReserveSteps)
  BY CountStep DEF ReserveSteps
<1>2. Count(KeepSteps)' = Count(KeepSteps) - 1 /\ Count(KeepSteps) \in Nat
  BY CountStep DEF KeepSteps, InCall
<1>3. Count(PlaceSteps)' = Count(PlaceSteps)
  BY CountStep DEF PlaceSteps
<1>4. Len(free') = Len(free) + 1
  BY DEF TypeRest
<1>5. QED
  BY <1>1, <1>2, <1>3, <1>4, CnsNat DEF Counted

LEMMA GetCounted ==
  ASSUME TypeRest, Owned, Counted, NEW g \in Callers, GetConn(g)
  PROVE  Counted'
<1> USE DEF InCall
<1>1. CASE First(g)
  <2>1. CASE Receive(g, "first")
    BY <2>1, ReceiveCounted
  <2>2. CASE Goto(g, "first", "reserve") /\ UNCHANGED <<len, cns, free, sock, dialled, cn, newcn, todo, err, misread, breaks, calls>>
    BY <2>2, QuietCounted DEF ReserveSteps, KeepSteps, PlaceSteps
  <2>3. QED
    BY <1>1, <2>1, <2>2 DEF First
<1>2. CASE Reserve(g)
  <2>0. len' = len + 1 /\ cns' = cns /\ free' = free
    BY <1>2 DEF Reserve
  <2>1. CASE len + 1 <= size
    <3>1. Goto(g, "reserve", "dial")
      BY <1>2, <2>1 DEF Reserve
    <3>2. Count(ReserveSteps)' = Count(ReserveSteps) + 1 /\ Count(ReserveSteps) \in Nat
      BY <3>1, CountStep DEF ReserveSteps
    <3>3. Count(KeepSteps)' = Count(KeepSteps)
      BY <3>1, CountStep DEF KeepSteps
    <3>4. Count(PlaceSteps)' = Count(PlaceSteps) + 1 /\ Count(PlaceSteps) \in Nat
      BY <3>1, CountStep DEF PlaceSteps
    <3>5. QED
      BY <2>0, <2>1, <3>2, <3>3, <3>4, CnsNat, PlacesAmong, PoolAssumption DEF Counted
  <2>2. CASE ~(len + 1 <= size)
    <3>1. Goto(g, "reserve", "unreserve")
      BY <1>2, <2>2 DEF Reserve
    <3>2. Count(ReserveSteps)' = Count(ReserveSteps) + 1 /\ Count(ReserveSteps) \in Nat
      BY <3>1, CountStep DEF ReserveSteps
    <3>3. Count(KeepSteps)' = Count(KeepSteps)
      BY <3>1, CountStep DEF KeepSteps
    <3>4. Count(PlaceSteps)' = Count(PlaceSteps)
      BY <3>1, CountStep DEF PlaceSteps
    <3>5. QED
      BY <2>0, <3>2, <3>3, <3>4, CnsNat DEF Counted
  <2>3. QED
    BY <2>1, <2>2
<1>3. CASE Unreserve(g)
  <2>1. Goto(g, "unreserve", "wait") /\ len' = len - 1 /\ cns' = cns /\ free' = free
    BY <1>3 DEF Unreserve
  <2>2. Count(ReserveSteps)' = Count(ReserveSteps) - 1 /\ Count(ReserveSteps) \in Nat
    BY <2>1, CountStep DEF ReserveSteps
  <2>3. Count(KeepSteps)' = Count(KeepSteps)
    BY <2>1, CountStep DEF KeepSteps
  <2>4. Count(PlaceSteps)' = Count(PlaceSteps)
    BY <2>1, CountStep DEF PlaceSteps
  <2>5. QED
    BY <2>1, <2>2, <2>3, <2>4, CnsNat DEF Counted
<1>4. CASE Dial(g)
  <2>1. CASE Goto(g, "dial", "add")
    BY <1>4, <2>1, QuietCounted DEF Dial, ReserveSteps, KeepSteps, PlaceSteps
  <2>2. CASE Goto(g, "dial", "giveback")
    BY <1>4, <2>2, QuietCounted DEF Dial, ReserveSteps, KeepSteps, PlaceSteps
  <2>3. QED
    BY <1>4, <2>1, <2>2 DEF Dial
<1>5. CASE GiveBack(g)
  <2>1. Goto(g, "giveback", "idle") /\ len' = len - 1 /\ cns' = cns /\ free' = free
    BY <1>5 DEF GiveBack, Return
  <2>2. Count(ReserveSteps)' = Count(ReserveSteps) - 1 /\ Count(ReserveSteps) \in Nat
    BY <2>1, CountStep DEF ReserveSteps
  <2>3. Count(KeepSteps)' = Count(KeepSteps)
    BY <2>1, CountStep DEF KeepSteps
  <2>4. Count(PlaceSteps)' = Count(PlaceSteps) - 1 /\ Count(PlaceSteps) \in Nat
    BY <2>1, CountStep DEF PlaceSteps
  <2>5. QED
    BY <2>1, <2>2, <2>3, <2>4, CnsNat, PoolAssumption DEF Counted
<1>6. CASE Add(g)
  <2>1. Goto(g, "add", "write") /\ len' = len /\ cns' = cns \cup {cn[g]} /\ free' = free
    BY <1>6 DEF Add
  <2>2. Count(ReserveSteps)' = Count(ReserveSteps) - 1 /\ Count(ReserveSteps) \in Nat
    BY <2>1, CountStep DEF ReserveSteps
  <2>3. Count(KeepSteps)' = Count(KeepSteps) + 1 /\ Count(KeepSteps) \in Nat
    BY <2>1, CountStep DEF KeepSteps
  <2>4. Count(PlaceSteps)' = Count(PlaceSteps) - 1 /\ Count(PlaceSteps) \in Nat
    BY <2>1, CountStep DEF PlaceSteps
  <2>5. cn[g] \notin cns
    BY <2>1 DEF Goto, Owned, Made
  <2>6. Cardinality(cns') = Cardinality(cns) + 1
    BY <2>1, <2>5, CnsNat, FS_AddElement
  <2>7. size \in Nat /\ Cardinality(cns) \in Nat /\ Len(free) \in Nat
    BY PoolAssumption, CnsNat
  <2>8. len' = Cardinality(cns') + Count(ReserveSteps)'
    BY <2>1, <2>2, <2>6, <2>7 DEF Counted
  <2>9. Cardinality(cns') = Len(free') + Count(KeepSteps)'
    BY <2>1, <2>3, <2>6, <2>7 DEF Counted
  <2>10. Cardinality(cns') + Count(PlaceSteps)' <= size
    BY <2>4, <2>6, <2>7 DEF Counted
  <2>11. QED
    BY <2>8, <2>9, <2>10 DEF Counted
<1>7. CASE Wait(g)
  <2>1. CASE Receive(g, "wait")
    BY <2>1, ReceiveCounted
  <2>2. CASE Deadline(g)
    BY <2>2, QuietCounted DEF Deadline, Return, ReserveSteps, KeepSteps, PlaceSteps
  <2>3. QED
    BY <1>7, <2>1, <2>2 DEF Wait
<1>8. QED
  BY <1>1, <1>2, <1>3, <1>4, <1>5, <1>6, <1>7 DEF GetConn

LEMMA ExecCounted ==
  ASSUME TypeRest, Owned, Counted, NEW g \in Callers, Exec(g)
  PROVE  Counted'
<1> USE DEF InCall
<1>1. CASE Write(g)
  <2>1. CASE Goto(g, "write", "read")
    BY <1>1, <2>1, QuietCounted DEF Write, ReserveSteps, KeepSteps, PlaceSteps
  <2>2. CASE Goto(g, "write", "put")
    BY <1>1, <2>2, QuietCounted DEF Write, ReserveSteps, KeepSteps, PlaceSteps
  <2>3. QED
    BY <1>1, <2>1, <2>2 DEF Write
<1>2. CASE Read(g)
  <2>1. UNCHANGED <<len, cns, free>>
    BY <1>2 DEF Read, Answer, Fail
  <2>2. CASE Goto(g, "read", "read")
    BY <2>1, <2>2, QuietCounted
  <2>3. CASE Goto(g, "read", "put")
    BY <2>1, <2>3, QuietCounted DEF ReserveSteps, KeepSteps, PlaceSteps
  <2>4. ASSUME NEW d, GoOn(g, d) PROVE Counted'
    BY <2>2, <2>3, <2>4 DEF GoOn
  <2>5. QED
    BY <1>2, <2>4 DEF Read, Answer, Fail
<1>3. CASE Put(g)
  <2>1. CASE Return(g, "put") /\ free' = Append(free, cn[g]) /\ UNCHANGED <<len, cns, sock, dialled, misread, breaks, calls>>
    <3>1. cn[g] \in Conns
      BY <2>1, WorkingCn DEF Return, Goto
    <3>2. QED
      BY <2>1, <3>1, AppendCounted DEF Return
  <2>2. CASE Goto(g, "put", "redial") /\ UNCHANGED <<len, cns, free, sock, dialled, cn, newcn, todo, err, misread, breaks, calls>>
    BY <2>2, QuietCounted DEF ReserveSteps, KeepSteps, PlaceSteps
  <2>3. QED
    BY <1>3, <2>1, <2>2 DEF Put
<1>4. QED
  BY <1>1, <1>2, <1>3 DEF Exec

LEMMA RemoveCounted ==
  ASSUME TypeRest, Owned, Counted, NEW g \in Callers, Remove(g)
  PROVE  Counted'
<1> USE DEF InCall
<1>1. CASE Redial(g)
  <2>1. CASE Goto(g, "redial", "replace")
    BY <1>1, <2>1, QuietCounted DEF Redial, ReserveSteps, KeepSteps, PlaceSteps
  <2>2. CASE Goto(g, "redial", "drop")
    BY <1>1, <2>2, QuietCounted DEF Redial, ReserveSteps, KeepSteps, PlaceSteps
  <2>3. QED
    BY <1>1, <2>1, <2>2 DEF Redial
<1>2. CASE Drop(g)
  <2>1. Goto(g, "drop", "idle") /\ len' = len - 1 /\ cns' = cns \ {cn[g]} /\ free' = free
    BY <1>2 DEF Drop, Return
  <2>2. Count(ReserveSteps)' = Count(ReserveSteps) /\ Count(ReserveSteps) \in Nat
    BY <2>1, CountStep DEF ReserveSteps
  <2>3. Count(KeepSteps)' = Count(KeepSteps) - 1 /\ Count(KeepSteps) \in Nat
    BY <2>1, CountStep DEF KeepSteps
  <2>4. Count(PlaceSteps)' = Count(PlaceSteps) /\ Count(PlaceSteps) \in Nat
    BY <2>1, CountStep DEF PlaceSteps
  <2>5. cn[g] \in cns
    BY <2>1, WorkingCn DEF Goto
  <2>6. Cardinality(cns') = Cardinality(cns) - 1
    BY <2>1, <2>5, CnsNat, FS_RemoveElement
  <2>7. size \in Nat /\ Cardinality(cns) \in Nat /\ Len(free) \in Nat
    BY PoolAssumption, CnsNat
  <2>8. len' = Cardinality(cns') + Count(ReserveSteps)'
    BY <2>1, <2>2, <2>6, <2>7 DEF Counted
  <2>9. Cardinality(cns') = Len(free') + Count(KeepSteps)'
    BY <2>1, <2>3, <2>6, <2>7 DEF Counted
  <2>10. Cardinality(cns') + Count(PlaceSteps)' <= size
    BY <2>4, <2>6, <2>7 DEF Counted
  <2>11. QED
    BY <2>8, <2>9, <2>10 DEF Counted
<1>3. CASE Replace(g)
  <2>1. Goto(g, "replace", "push") /\ len' = len /\ cns' = (cns \ {cn[g]}) \cup {newcn[g]} /\ free' = free
    BY <1>3 DEF Replace
  <2>2. Count(ReserveSteps)' = Count(ReserveSteps)
    BY <2>1, CountStep DEF ReserveSteps
  <2>3. Count(KeepSteps)' = Count(KeepSteps)
    BY <2>1, CountStep DEF KeepSteps
  <2>4. Count(PlaceSteps)' = Count(PlaceSteps)
    BY <2>1, CountStep DEF PlaceSteps
  <2>5. cn[g] \in cns /\ newcn[g] \notin cns
    <3>1. Made(g) = {newcn[g]}
      BY <2>1 DEF Goto, Made
    <3>2. QED
      BY <2>1, <3>1, WorkingCn DEF Goto, Owned
  <2>6. Cardinality(cns') = Cardinality(cns)
    <3>1. IsFiniteSet(cns \ {cn[g]}) /\ Cardinality(cns \ {cn[g]}) = Cardinality(cns) - 1
      BY <2>5, CnsNat, FS_RemoveElement
    <3>2. Cardinality(cns') = Cardinality(cns \ {cn[g]}) + 1
      BY <2>1, <2>5, <3>1, FS_AddElement
    <3>3. QED
      BY <3>1, <3>2, CnsNat
  <2>7. QED
    BY <2>1, <2>2, <2>3, <2>4, <2>6 DEF Counted
<1>4. CASE Push(g)
  <2>1. newcn[g] \in Conns
    <3>1. Kept(g) = {newcn[g]}
      BY <1>4 DEF Push, Return, Goto, Kept
    <3>2. QED
      BY <3>1 DEF Owned, TypeRest
  <2>2. Goto(g, "push", "idle") /\ free' = Append(free, newcn[g]) /\ len' = len /\ cns' = cns
    BY <1>4 DEF Push, Return
  <2>3. QED
    BY <2>1, <2>2, AppendCounted
<1>5. QED
  BY <1>1, <1>2, <1>3, <1>4 DEF Remove

LEMMA CountedStep ==
  ASSUME TypeRest, Owned, Counted, Next
  PROVE  Counted'
<1>1. ASSUME NEW g \in Callers, Step(g) PROVE Counted'
  BY <1>1, GetCounted, ExecCounted, RemoveCounted DEF Step
<1>2. ASSUME NEW g \in Callers, NEW n \in 1..MaxCmds, Begin(g, n) PROVE Counted'
  BY <1>2, QuietCounted DEF Begin, ReserveSteps, KeepSteps, PlaceSteps, InCall
<1>3. ASSUME NEW c \in Conns, Break(c) PROVE Counted'
  BY <1>3 DEF Break, Counted, Count
<1>4. QED
  BY <1>1, <1>2, <1>3 DEF Next

-----------------------------------------------------------------------------
(* A caller with replies to come has at least one of them to read. *)
Others(g) ==
    \A h \in Callers : h # g => pc'[h] = pc[h] /\ cn'[h] = cn[h] /\ todo'[h] = todo[h]

LEMMA OthersStep ==
  ASSUME TypeRest, NEW g \in Callers, Step(g)
  PROVE  Others(g)
<1>1. CASE GetConn(g)
  <2>1. CASE First(g) \/ Reserve(g) \/ Unreserve(g)
    BY <2>1 DEF TypeRest, Others, First, Receive, Reserve, Unreserve, Goto
  <2>2. CASE Dial(g) \/ Add(g)
    BY <2>2 DEF TypeRest, Others, Dial, Add, Goto
  <2>3. CASE GiveBack(g) \/ Wait(g)
    BY <2>3 DEF TypeRest, Others, GiveBack, Wait, Receive, Deadline, Return, Goto
  <2>4. QED
    BY <1>1, <2>1, <2>2, <2>3 DEF GetConn
<1>2. CASE Exec(g)
  <2>1. CASE Write(g)
    BY <2>1 DEF TypeRest, Others, Write, Goto
  <2>2. CASE Fail(g)
    BY <2>2 DEF TypeRest, Others, Fail, GoOn, Goto
  <2>3. ASSUME NEW d, NEW e, Answer(g, d, e) PROVE Others(g)
    BY <2>3 DEF TypeRest, Others, Answer, GoOn, Goto
  <2>4. CASE Put(g)
    BY <2>4 DEF TypeRest, Others, Put, Return, Goto
  <2>5. QED
    BY <1>2, <2>1, <2>2, <2>3, <2>4 DEF Exec, Read
<1>3. CASE Remove(g)
  <2>1. CASE Redial(g) \/ Replace(g)
    BY <2>1 DEF TypeRest, Others, Redial, Replace, Goto
  <2>2. CASE Drop(g) \/ Push(g)
    BY <2>2 DEF TypeRest, Others, Drop, Push, Return, Goto
  <2>3. QED
    BY <1>3, <2>1, <2>2 DEF Remove
<1>4. QED
  BY <1>1, <1>2, <1>3 DEF Step

Waits == InGet \cup {"write", "read"}

LEMMA ReadWorks ==
  ASSUME TypeRest, Working, NEW g \in Callers, pc[g] = "read",
         GoOn(g, LastReply(g)), todo' = [todo EXCEPT ![g] = @ - 1]
  PROVE  pc'[g] \in Waits => todo'[g] >= 1
<1>1. todo[g] \in Nat /\ todo[g] >= 1 /\ todo'[g] = todo[g] - 1
  BY PoolAssumption DEF TypeRest, Working
<1>2. CASE todo[g] = 1
  BY <1>2 DEF TypeRest, GoOn, LastReply, Goto, Waits, InGet
<1>3. CASE todo[g] # 1
  BY <1>1, <1>3
<1>4. QED
  BY <1>2, <1>3

LEMMA WorkingStep ==
  ASSUME TypeRest, Working, Next
  PROVE  Working'
<1>0. ASSUME NEW g \in Callers, Others(g), pc'[g] \in Waits => todo'[g] >= 1 PROVE Working'
  BY <1>0 DEF Working, Others, Waits
<1>1. ASSUME NEW g \in Callers, Step(g) PROVE pc'[g] \in Waits => todo'[g] >= 1
  <2> USE DEF Waits, InGet, TypeRest
  <2>1. CASE First(g) \/ Reserve(g) \/ Unreserve(g)
    BY <2>1 DEF Working, First, Receive, Reserve, Unreserve, Goto
  <2>2. CASE Dial(g) \/ Add(g)
    BY <2>2 DEF Working, Dial, Add, Goto
  <2>3. CASE GiveBack(g) \/ Wait(g)
    BY <2>3 DEF Working, GiveBack, Wait, Receive, Deadline, Return, Goto
  <2>4. CASE Write(g)
    BY <2>4 DEF Working, Write, Goto
  <2>5. CASE Read(g)
    BY <2>5, ReadWorks DEF Read, Fail, Answer
  <2>6. CASE Put(g)
    BY <2>6 DEF Put, Return, Goto
  <2>7. CASE Remove(g)
    BY <2>7 DEF Remove, Redial, Replace, Drop, Push, Return, Goto
  <2>8. QED
    BY <1>1, <2>1, <2>2, <2>3, <2>4, <2>5, <2>6, <2>7 DEF Step, GetConn, Exec
<1>2. ASSUME NEW g \in Callers, NEW n \in 1..MaxCmds, Begin(g, n) PROVE Working'
  <2>1. n >= 1 /\ Others(g) /\ todo'[g] = n
    BY <1>2 DEF TypeRest, Begin, Others, Goto
  <2>2. QED
    BY <1>0, <2>1
<1>3. ASSUME NEW c \in Conns, Break(c) PROVE Working'
  BY <1>3 DEF Break, Working
<1>4. QED
  BY <1>0, <1>1, <1>2, <1>3, OthersStep DEF Next

-----------------------------------------------------------------------------
(* Replies and their readers. *)
LEMMA QuietReplies ==
  ASSUME TypeRest, Replies, NEW g \in Callers, Others(g),
         pc[g] # "read", pc'[g] # "read", UNCHANGED <<sock, misread>>
  PROVE  Replies'
<1>1. \A h \in Callers : pc'[h] = "read" => h # g /\ pc[h] = "read" /\ cn'[h] = cn[h] /\ todo'[h] = todo[h]
  BY DEF Others
<1>2. \A h \in Callers : pc'[h] = "read" => GoodReader(h)'
  BY <1>1 DEF Replies, GoodReader
<1>3. \A h \in Callers : pc[h] = "read" => h # g /\ pc'[h] = "read" /\ cn'[h] = cn[h]
  BY DEF Others
<1>4. QED
  BY <1>2, <1>3 DEF Replies

(* A step of g that touches the socket of c alone. *)
LEMMA OneSocket ==
  ASSUME TypeRest, Replies, NEW g \in Callers, Others(g), NEW c \in Conns,
         \A d \in Conns : d # c => sock'[d] = sock[d],
         \A h \in Callers : h # g /\ pc[h] = "read" => cn[h] \in Conns /\ cn[h] # c,
         pc[g] = "read" => cn[g] = c,
         ~misread',
         sock'[c].buffered <= Len(sock'[c].sent),
         pc'[g] = "read" => cn'[g] = c /\ GoodReader(g)',
         sock'[c].state = "open" => sock'[c].sent = <<>> \/ pc'[g] = "read"
  PROVE  Replies'
<1>1. \A d \in Conns : sock'[d].buffered <= Len(sock'[d].sent)
  BY DEF Replies
<1>2. ASSUME NEW h \in Callers, pc'[h] = "read" PROVE GoodReader(h)'
  <2>1. CASE h = g
    BY <1>2, <2>1
  <2>2. CASE h # g
    <3>1. pc[h] = "read" /\ cn'[h] = cn[h] /\ todo'[h] = todo[h]
      BY <1>2, <2>2 DEF Others
    <3>2. GoodReader(h) /\ sock'[cn[h]] = sock[cn[h]]
      BY <2>2, <3>1 DEF Replies
    <3>3. QED
      BY <3>1, <3>2 DEF GoodReader
  <2>3. QED
    BY <2>1, <2>2
<1>3. ASSUME NEW d \in Conns, sock'[d].state = "open"
      PROVE  sock'[d].sent = <<>> \/ \E h \in Callers : pc'[h] = "read" /\ cn'[h] = d
  <2>1. CASE d = c
    BY <1>3, <2>1
  <2>2. CASE d # c
    <3>1. sock'[d] = sock[d]
      BY <2>2
    <3>2. CASE sock[d].sent = <<>>
      BY <3>1, <3>2
    <3>3. CASE sock[d].sent # <<>>
      <4>1. PICK h \in Callers : pc[h] = "read" /\ cn[h] = d
        BY <1>3, <3>1, <3>3 DEF Replies
      <4>2. h # g
        BY <2>2, <4>1
      <4>3. QED
        BY <4>1, <4>2 DEF Others
    <3>4. QED
      BY <3>2, <3>3
  <2>3. QED
    BY <2>1, <2>2
<1>4. QED
  BY <1>1, <1>2, <1>3 DEF Replies

(* The connection of a caller in a call is not that of another who reads. *)
LEMMA ApartReaders ==
  ASSUME TypeRest, Owned, NEW g \in Callers, pc[g] \in InCall \cup {"redial", "drop", "replace"}
  PROVE  /\ cn[g] \in Conns
         /\ \A h \in Callers : h # g /\ pc[h] = "read" => cn[h] \in Conns /\ cn[h] # cn[g]
<1>1. Kept(g) = {cn[g]}
  BY DEF Kept
<1>2. \A h \in Callers : pc[h] = "read" => Kept(h) = {cn[h]} /\ cn[h] \in Conns
  BY WorkingCn DEF Kept, InCall
<1>3. QED
  BY <1>1, <1>2, WorkingCn DEF Owned, OneUser

LEMMA OpenedReplies ==
  ASSUME TypeRest, Owned, Replies, NEW g \in Callers, Others(g), pc[g] # "read", pc'[g] # "read",
         dialled < MaxDials, Opened, UNCHANGED misread
  PROVE  Replies'
<1> DEFINE c == dialled + 1
<1>1. c \in Conns /\ sock' = [sock EXCEPT ![c] = Fresh] /\ dialled \in Nat
  BY OpenedType, PoolAssumption DEF Opened, TypeRest
<1>2. sock'[c] = [state |-> "open", sent |-> <<>>, buffered |-> 0]
  BY <1>1 DEF TypeRest, Fresh, Unused
<1>3. \A d \in Conns : d # c => sock'[d] = sock[d]
  BY <1>1 DEF TypeRest
<1>4. \A h \in Callers : pc[h] = "read" => cn[h] \in Conns /\ cn[h] # c
  BY <1>1, WorkingCn DEF Owned, Dialled, InCall
<1>5. sock'[c].buffered <= Len(sock'[c].sent) /\ sock'[c].sent = <<>>
  BY <1>2
<1>6. ~misread'
  BY DEF Replies
<1> HIDE DEF c
<1>7. QED
  BY <1>1, <1>3, <1>4, <1>5, <1>6, OneSocket

LEMMA ClosedReplies ==
  ASSUME TypeRest, Owned, Replies, NEW g \in Callers, Others(g), pc[g] \in {"drop", "replace"},
         pc'[g] # "read", Closed(cn[g]), UNCHANGED misread
  PROVE  Replies'
<1> DEFINE c == cn[g]
<1>1. /\ c \in Conns
      /\ \A h \in Callers : h # g /\ pc[h] = "read" => cn[h] \in Conns /\ cn[h] # c
  BY ApartReaders
<1>2. \A d \in Conns : d # c => sock'[d] = sock[d]
  BY DEF Closed, TypeRest
<1>3. sock'[c].state = "closed" /\ sock'[c].sent = sock[c].sent /\ sock'[c].buffered = sock[c].buffered
  BY <1>1 DEF Closed, TypeRest
<1>4. sock'[c].buffered <= Len(sock'[c].sent) /\ ~misread'
  BY <1>1, <1>3 DEF Replies
<1>5. pc[g] # "read"
  OBVIOUS
<1> HIDE DEF c
<1>6. QED
  BY <1>1, <1>2, <1>3, <1>4, <1>5, OneSocket

LEMMA WriteReplies ==
  ASSUME TypeRest, Owned, Replies, NEW g \in Callers, Write(g), Others(g)
  PROVE  Replies'
<1>1. CASE Goto(g, "write", "put") /\ UNCHANGED <<sock, misread>>
  <2>1. pc[g] # "read" /\ pc'[g] # "read"
    BY <1>1 DEF TypeRest, Goto
  <2>2. QED
    BY <1>1, <2>1, QuietReplies
<1>2. CASE /\ Goto(g, "write", "read")
           /\ sock[cn[g]].state = "open"
           /\ sock' = [sock EXCEPT ![cn[g]].sent = @ \o [i \in 1..todo[g] |-> g]]
           /\ UNCHANGED <<cn, todo, misread>>
  <2> DEFINE c == cn[g]
             new == [i \in 1..todo[g] |-> g]
  <2>1. /\ c \in Conns
        /\ \A h \in Callers : h # g /\ pc[h] = "read" => cn[h] \in Conns /\ cn[h] # c
    BY <1>2, ApartReaders DEF Goto, InCall
  <2>2. sock[c].sent = <<>>
    <3>1. pc[g] = "write"
      BY <1>2 DEF Goto
    <3>2. ~\E h \in Callers : pc[h] = "read" /\ cn[h] = c
      BY <2>1, <3>1
    <3>3. QED
      BY <1>2, <2>1, <3>2 DEF Replies
  <2>3. todo[g] \in Nat
    BY PoolAssumption DEF TypeRest
  <2>4. new \in Seq(Callers) /\ Len(new) = todo[g] /\ \A i \in DOMAIN new : new[i] = g
    BY <2>3
  <2> HIDE DEF new
  <2>5. /\ \A d \in Conns : d # c => sock'[d] = sock[d]
        /\ sock'[c].sent = <<>> \o new
        /\ sock'[c].buffered = sock[c].buffered
    BY <1>2, <2>1, <2>2 DEF TypeRest, new
  <2>6. sock'[c].sent = new
    BY <2>4, <2>5
  <2>7. sock'[c].buffered <= Len(sock'[c].sent)
    <3>1. sock[c].buffered \in Nat /\ sock[c].buffered <= Len(sock[c].sent)
      BY <2>1 DEF Replies, TypeRest
    <3>2. sock[c].buffered = 0
      BY <2>2, <3>1
    <3>3. QED
      BY <2>3, <2>4, <2>5, <2>6, <3>2
  <2>8. cn'[g] = c /\ todo'[g] = todo[g] /\ pc[g] # "read" /\ pc'[g] = "read" /\ ~misread'
    BY <1>2 DEF Goto, TypeRest, Replies
  <2>9. GoodReader(g)'
    BY <2>4, <2>6, <2>8 DEF GoodReader
  <2> HIDE DEF c
  <2>10. QED
    BY <2>1, <2>5, <2>7, <2>8, <2>9, OneSocket
<1>3. QED
  BY <1>1, <1>2 DEF Write

LEMMA FailReplies ==
  ASSUME TypeRest, Owned, Replies, NEW g \in Callers, Fail(g), Others(g)
  PROVE  Replies'
<1> DEFINE c == cn[g]
<1>0. pc[g] = "read"
  BY DEF Fail, GoOn, Goto
<1>1. /\ c \in Conns
      /\ \A h \in Callers : h # g /\ pc[h] = "read" => cn[h] \in Conns /\ cn[h] # c
  BY <1>0, ApartReaders DEF InCall
<1>2. sock' = sock /\ cn' = cn /\ ~misread' /\ sock[c].state # "open" /\ sock[c].buffered = 0
  BY DEF Fail, Replies
<1>3. GoodReader(g)'
  BY <1>0, <1>2 DEF Replies, GoodReader
<1>4. sock'[c].buffered <= Len(sock'[c].sent)
  BY <1>1, <1>2 DEF Replies
<1> HIDE DEF c
<1>5. cn[g] = c /\ cn'[g] = c
  BY <1>2 DEF c
<1>6. QED
  BY <1>1, <1>2, <1>3, <1>4, <1>5, OneSocket

LEMMA AnswerReplies ==
  ASSUME TypeRest, Owned, Replies, NEW g \in Callers, NEW e, Answer(g, LastReply(g), e), Others(g)
  PROVE  Replies'
<1> DEFINE c == cn[g]
           s == sock[c]
           Arrived == IF s.buffered > 0 THEN {s.buffered} ELSE 1..Len(s.sent)
<1>0. pc[g] = "read"
  BY DEF Answer, GoOn, Goto
<1>1. /\ c \in Conns
      /\ \A h \in Callers : h # g /\ pc[h] = "read" => cn[h] \in Conns /\ cn[h] # c
  BY <1>0, ApartReaders DEF InCall
<1>2. PICK n \in Arrived : sock' = [sock EXCEPT ![c].sent = Tail(@), ![c].buffered = n - 1]
  BY DEF Answer
<1>3. s.sent \in Seq(Callers) /\ s.buffered \in Nat /\ s.buffered <= Len(s.sent)
      /\ s.sent # <<>> /\ (s.buffered > 0 \/ s.state = "open")
  BY <1>1 DEF TypeRest, Replies, Answer
<1>4. (\A i \in DOMAIN s.sent : s.sent[i] = g) /\ Len(s.sent) = todo[g]
  <2>1. GoodReader(g)
    BY <1>0 DEF Replies
  <2>2. QED
    BY <1>3, <2>1 DEF GoodReader
<1>5. Head(s.sent) = g /\ ~misread'
  <2>1. Head(s.sent) = g
    <3>1. 1 \in DOMAIN s.sent /\ Head(s.sent) = s.sent[1]
      BY <1>3
    <3>2. QED
      BY <1>4, <3>1
  <2>2. misread' = (misread \/ Head(s.sent) # g)
    BY DEF Answer
  <2>3. QED
    BY <2>1, <2>2 DEF Replies
<1>6. n \in Nat /\ 1 <= n /\ n <= Len(s.sent)
  BY <1>2, <1>3
<1>7. /\ \A d \in Conns : d # c => sock'[d] = sock[d]
      /\ sock'[c].sent = Tail(s.sent)
      /\ sock'[c].buffered = n - 1
      /\ sock'[c].state = s.state
  <2>1. ASSUME NEW d \in Conns, d # c PROVE sock'[d] = sock[d]
    BY <1>2, <2>1 DEF TypeRest
  <2>2. sock[c] \in [state : {"unused", "open", "dead", "closed"}, sent : Seq(Callers), buffered : Nat]
    BY <1>1 DEF TypeRest
  <2>3. sock'[c] = [sock[c] EXCEPT !.sent = Tail(sock[c].sent), !.buffered = n - 1]
    BY <1>1, <1>2 DEF TypeRest
  <2>4. QED
    BY <2>1, <2>2, <2>3
<1>8. Len(Tail(s.sent)) = Len(s.sent) - 1 /\ \A i \in DOMAIN Tail(s.sent) : Tail(s.sent)[i] = g
  BY <1>3, <1>4
<1>9. todo'[g] = todo[g] - 1 /\ cn'[g] = c
  BY DEF Answer, TypeRest
<1>10. sock'[c].buffered <= Len(sock'[c].sent)
  BY <1>3, <1>6, <1>7, <1>8
<1>11. GoodReader(g)'
  BY <1>4, <1>7, <1>8, <1>9 DEF GoodReader
<1>12. sock'[c].sent = <<>> \/ pc'[g] = "read"
  <2>1. CASE todo[g] = 1
    BY <1>3, <1>4, <1>7, <1>8, <2>1
  <2>2. CASE todo[g] # 1
    BY <2>2 DEF Answer, GoOn, LastReply, Goto, TypeRest
  <2>3. QED
    BY <2>1, <2>2
<1> HIDE DEF c, s
<1>13. cn[g] = c
  BY DEF c
<1>14. QED
  BY <1>1, <1>5, <1>7, <1>9, <1>10, <1>11, <1>12, <1>13, OneSocket

LEMMA BreakReplies ==
  ASSUME TypeRest, Owned, Replies, NEW c \in Conns, Break(c)
  PROVE  Replies'
<1>1. sock'[c] = [sock[c] EXCEPT !.state = "dead"] /\ \A d \in Conns : d # c => sock'[d] = sock[d]
  BY DEF Break, TypeRest
<1>2. ASSUME NEW d \in Conns
      PROVE  /\ sock'[d].sent = sock[d].sent /\ sock'[d].buffered = sock[d].buffered
             /\ sock'[d].state = "open" => sock[d].state = "open"
             /\ sock'[d].state # "open" \/ sock'[d].state = sock[d].state
             /\ sock[d].state # "open" => sock'[d].state # "open"
  <2>1. sock[d] \in [state : {"unused", "open", "dead", "closed"}, sent : Seq(Callers), buffered : Nat]
    BY DEF TypeRest
  <2>2. CASE d = c
    BY <1>1, <2>1, <2>2 DEF Break
  <2>3. CASE d # c
    BY <1>1, <2>3
  <2>4. QED
    BY <2>2, <2>3
<1>3. UNCHANGED <<pc, cn, todo, misread>>
  BY DEF Break
<1>4. ASSUME NEW g \in Callers, pc'[g] = "read" PROVE GoodReader(g)'
  <2>1. GoodReader(g) /\ cn[g] \in Conns
    BY <1>3, <1>4, WorkingCn DEF Replies, InCall
  <2>2. QED
    BY <1>2, <1>3, <2>1 DEF GoodReader
<1>5. QED
  BY <1>2, <1>3, <1>4 DEF Replies

LEMMA StepReplies ==
  ASSUME TypeRest, Owned, Replies, NEW g \in Callers, Step(g)
  PROVE  Replies'
<1>0. Others(g)
  BY OthersStep
<1>1. CASE First(g) \/ Reserve(g) \/ Unreserve(g) \/ Add(g)
  <2>1. pc[g] # "read" /\ pc'[g] # "read" /\ UNCHANGED <<sock, misread>>
    BY <1>1 DEF TypeRest, First, Receive, Reserve, Unreserve, Add, Goto
  <2>2. QED
    BY <1>0, <2>1, QuietReplies
<1>2. CASE GiveBack(g) \/ Wait(g) \/ Put(g) \/ Push(g)
  <2>1. pc[g] # "read" /\ pc'[g] # "read" /\ UNCHANGED <<sock, misread>>
    BY <1>2 DEF TypeRest, GiveBack, Wait, Receive, Deadline, Put, Push, Return, Goto
  <2>2. QED
    BY <1>0, <2>1, QuietReplies
<1>3. CASE Dial(g) \/ Redial(g)
  <2>1. pc[g] # "read" /\ pc'[g] # "read" /\ misread' = misread
    BY <1>3 DEF TypeRest, Dial, Redial, Goto
  <2>2. CASE dialled < MaxDials /\ Opened
    BY <1>0, <2>1, <2>2, OpenedReplies
  <2>3. CASE UNCHANGED sock
    BY <1>0, <2>1, <2>3, QuietReplies
  <2>4. QED
    BY <1>3, <2>2, <2>3 DEF Dial, Redial
<1>4. CASE Write(g)
  BY <1>0, <1>4, WriteReplies
<1>5. CASE Read(g)
  BY <1>0, <1>5, FailReplies, AnswerReplies DEF Read
<1>6. CASE Drop(g) \/ Replace(g)
  <2>1. pc[g] \in {"drop", "replace"} /\ pc'[g] # "read" /\ misread' = misread /\ Closed(cn[g])
    BY <1>6 DEF TypeRest, Drop, Replace, Return, Goto
  <2>2. QED
    BY <1>0, <2>1, ClosedReplies
<1>7. QED
  BY <1>1, <1>2, <1>3, <1>4, <1>5, <1>6 DEF Step, GetConn, Exec, Remove

LEMMA RepliesStep ==
  ASSUME TypeRest, Owned, Replies, Next
  PROVE  Replies'
<1>1. ASSUME NEW g \in Callers, NEW n \in 1..MaxCmds, Begin(g, n) PROVE Replies'
  <2>1. Others(g) /\ pc[g] # "read" /\ pc'[g] # "read" /\ UNCHANGED <<sock, misread>>
    BY <1>1 DEF Begin, Goto, TypeRest, Others
  <2>2. QED
    BY <2>1, QuietReplies
<1>2. QED
  BY <1>1, StepReplies, BreakReplies DEF Next

-----------------------------------------------------------------------------
Rest == TypeRest /\ Owned /\ Counted /\ Working /\ Replies

LEMMA LenNat ==
  ASSUME TypeRest, Counted
  PROVE  TypeOK
<1>1. Count(ReserveSteps) \in Nat /\ Cardinality(cns) \in Nat
  BY CountNat, CnsNat
<1>2. QED
  BY <1>1, SplitType DEF Counted

LEMMA RestInit ==
  ASSUME Init
  PROVE  Rest
<1> USE DEF Init, InGet, InCall, InRemove
<1>1. TypeRest
  <2>1. dialled \in 0..MaxDials /\ breaks \in 0..MaxBreaks /\ calls \in 0..MaxCalls /\ 0 \in 0..MaxCmds
    BY PoolAssumption
  <2>2. sock \in [Conns -> [state : {"unused", "open", "dead", "closed"}, sent : Seq(Callers),
                           buffered : Nat]]
    <3>1. Unused \in [state : {"unused", "open", "dead", "closed"}, sent : Seq(Callers), buffered : Nat]
      BY DEF Unused
    <3>2. QED
      BY <3>1
  <2>3. cns \subseteq Conns /\ free \in Seq(Conns) /\ misread \in BOOLEAN
    <3>1. cns \subseteq Conns /\ misread \in BOOLEAN
      OBVIOUS
    <3>2. free \in Seq(Conns)
      OBVIOUS
    <3>3. QED
      BY <3>1, <3>2
  <2>4. /\ pc \in [Callers -> Steps] /\ todo \in [Callers -> 0..MaxCmds]
        /\ cn \in [Callers -> Conns \cup {None}] /\ newcn \in [Callers -> Conns \cup {None}]
        /\ err \in [Callers -> {"none", "redis", "net"}]
    BY <2>1 DEF Steps
  <2>5. QED
    BY <2>1, <2>2, <2>3, <2>4 DEF TypeRest
<1>2. \A g \in Callers : Kept(g) = {} /\ Made(g) = {}
  BY DEF Kept, Made
<1>3. Alive = {}
  BY DEF Alive, Unused
<1>4. DOMAIN free = {}
  OBVIOUS
<1>5. Owned
  BY <1>2, <1>3, <1>4 DEF Owned, Dialled, OneUser
<1>6. ASSUME NEW S, "idle" \notin S PROVE Count(S) = 0
  <2>1. {g \in Callers : pc[g] \in S} = {}
    BY <1>6
  <2>2. QED
    BY <2>1, FS_EmptySet DEF Count
<1>7. Count(ReserveSteps) = 0 /\ Count(KeepSteps) = 0 /\ Count(PlaceSteps) = 0
  BY <1>6 DEF ReserveSteps, KeepSteps, PlaceSteps
<1>8. Cardinality(cns) = 0 /\ Len(free) = 0
  BY FS_EmptySet
<1>9. Counted
  BY <1>7, <1>8, PoolAssumption DEF Counted
<1>10. Working
  BY DEF Working
<1>11. Replies
  BY DEF Replies, Unused
<1>12. QED
  BY <1>1, <1>5, <1>9, <1>10, <1>11 DEF Rest

LEMMA RestStutter ==
  ASSUME Rest, UNCHANGED vars
  PROVE  Rest'
<1> USE DEF vars
<1>1. TypeRest'
  BY DEF Rest, TypeRest
<1>2. Owned'
  <2>1. \A g \in Callers : Kept(g)' = Kept(g) /\ Made(g)' = Made(g)
    BY DEF Kept, Made
  <2>2. Alive' = Alive
    BY DEF Alive
  <2>3. QED
    BY <2>1, <2>2 DEF Rest, Owned, Dialled, OneUser
<1>3. Counted'
  BY DEF Rest, Counted, Count
<1>4. Working'
  BY DEF Rest, Working
<1>5. Replies'
  BY DEF Rest, Replies, GoodReader
<1>6. QED
  BY <1>1, <1>2, <1>3, <1>4, <1>5 DEF Rest

LEMMA RestStep ==
  ASSUME Rest, [Next]_vars
  PROVE  Rest'
<1>1. CASE Next
  <2>1. TypeRest /\ Owned /\ Counted /\ Working /\ Replies
    BY DEF Rest
  <2>2. TypeRest'
    BY <1>1, <2>1, TypeStep
  <2>3. QED
    BY <1>1, <2>1, <2>2, OwnedStep, CountedStep, WorkingStep, RepliesStep DEF Rest
<1>2. QED
  BY <1>1, RestStutter

LEMMA RestOneUser ==
  ASSUME Rest
  PROVE  OneUser /\ NoneLost
<1>1. OneUser /\ Owned
  BY DEF Rest, Owned
<1>2. cns = {free[i] : i \in DOMAIN free} \cup UNION {Kept(g) : g \in Callers}
  <2>1. ASSUME NEW c, c \in UNION {Kept(g) : g \in Callers} PROVE c \in cns
    <3>1. PICK g \in Callers : c \in Kept(g)
      BY <2>1
    <3>2. QED
      BY <1>1, <3>1 DEF Owned
  <2>2. QED
    BY <1>1, <2>1 DEF Owned
<1>3. \A c : (\E g \in Callers : c \in Made(g)) <=>
               c \in {cn[g] : g \in {h \in Callers : pc[h] = "add"}}
                     \cup {newcn[g] : g \in {h \in Callers : pc[h] = "replace"}}
  BY DEF Made
<1>4. cns \subseteq Conns /\ \A g \in Callers : Made(g) \subseteq Conns
  BY PoolAssumption DEF Rest, Owned, Dialled, TypeRest, Conns
<1>5. Alive = cns \cup {cn[g] : g \in {h \in Callers : pc[h] = "add"}}
                  \cup {newcn[g] : g \in {h \in Callers : pc[h] = "replace"}}
  BY <1>1, <1>3, <1>4 DEF Owned, Alive
<1>6. QED
  BY <1>1, <1>2, <1>5 DEF NoneLost, Alive

LEMMA RestWithin ==
  ASSUME Rest
  PROVE  PlacesExact /\ WithinSize
<1>1. TypeRest /\ Counted
  BY DEF Rest
<1>2. /\ Cardinality(cns) \in Nat /\ Len(free) \in Nat /\ size \in Nat
      /\ Count(PlaceSteps) \in Nat
  BY <1>1, CnsNat, CountNat, PoolAssumption
<1>3. Reserving = {g \in Callers : pc[g] \in ReserveSteps}
  BY DEF Reserving, ReserveSteps
<1>4. PlacesExact
  BY <1>1, <1>3 DEF Counted, PlacesExact, Count
<1>5. ASSUME NEW g \in Callers, pc[g] \in {"put", "push"} PROVE Len(free) < size
  <2> DEFINE A == {h \in Callers : pc[h] \in KeepSteps}
  <2>1. g \in A
    BY <1>5 DEF KeepSteps, InCall
  <2>2. IsFiniteSet(A) /\ Cardinality(A) = Count(KeepSteps) /\ Count(KeepSteps) \in Nat
    BY CountNat DEF Count
  <2>3. Count(KeepSteps) # 0
    BY <2>1, <2>2, FS_EmptySet
  <2>4. QED
    BY <1>1, <1>2, <2>2, <2>3 DEF Counted
<1>6. Cardinality(cns) <= size
  BY <1>1, <1>2 DEF Counted
<1>7. QED
  BY <1>4, <1>5, <1>6 DEF WithinSize

LEMMA RestAccounts == Rest => Accounts /\ OwnReplies
<1>1. ASSUME Rest PROVE Accounts /\ OwnReplies
  <2>1. TypeOK
    BY <1>1, LenNat DEF Rest
  <2>2. ~misread
    BY <1>1 DEF Rest, Replies
  <2>3. QED
    BY <1>1, <2>1, <2>2, RestOneUser, RestWithin DEF Accounts, OwnReplies
<1>2. QED
  BY <1>1

(* Rest is an invariant: what a caller keeps or has made is its own, the     *)
(* three counts agree, and the reader of a socket is the one the replies in  *)
(* it are for.                                                               *)
LEMMA RestInvariant == Spec => []Rest
<1>1. Init => Rest
  BY RestInit
<1>2. Rest /\ [Next]_vars => Rest'
  BY RestStep
<1>3. QED
  BY <1>1, <1>2, PTL DEF Spec

(* The books of the pool hold in every state: its connections have one user  *)
(* each, none is lost, len is exact, and the size is kept, so that the       *)
(* channel has room for whoever puts a connection back (pool.go).            *)
THEOREM PoolAccounts == Spec => []Accounts
<1>1. Rest => Accounts
  BY RestAccounts
<1>2. QED
  BY <1>1, RestInvariant, PTL

(* No caller reads the reply to another's command, although connections are  *)
(* reused after failed pipelines (putConn, execCmds).                        *)
THEOREM PoolReplies == Spec => []OwnReplies
<1>1. Rest => OwnReplies
  BY RestAccounts
<1>2. QED
  BY <1>1, RestInvariant, PTL

-----------------------------------------------------------------------------
(* The refinement.  A connection is put back after the last reply or an      *)
(* error, which Accounts does not say.                                       *)
Finished == \A g \in Callers : pc[g] = "put" => todo[g] = 0 \/ err[g] # "none"

LEMMA FinishedInit == Init => Finished
BY DEF Init, Finished

LEMMA FinishedStep ==
  ASSUME Rest, Finished, [Next]_vars
  PROVE  Finished'
<1>0. TypeRest
  BY DEF Rest
<1>1. ASSUME NEW g \in Callers,
             \A h \in Callers : h # g => pc'[h] = pc[h] /\ todo'[h] = todo[h] /\ err'[h] = err[h],
             pc'[g] = "put" => todo'[g] = 0 \/ err'[g] # "none"
      PROVE  Finished'
  BY <1>1 DEF Finished
<1>2. ASSUME NEW g \in Callers, GetConn(g) \/ Remove(g) PROVE Finished'
  <2>1. pc'[g] # "put"
    BY <1>0, <1>2 DEF GetConn, First, Receive, Reserve, Unreserve, Dial, GiveBack, Add, Wait,
       Deadline, Remove, Redial, Drop, Replace, Push, Return, Goto, TypeRest
  <2>2. \A h \in Callers : h # g => pc'[h] = pc[h] /\ todo'[h] = todo[h] /\ err'[h] = err[h]
    BY <1>0, <1>2 DEF GetConn, First, Receive, Reserve, Unreserve, Dial, GiveBack, Add, Wait,
       Deadline, Remove, Redial, Drop, Replace, Push, Return, Goto, TypeRest
  <2>3. QED
    BY <1>1, <2>1, <2>2
<1>3. ASSUME NEW g \in Callers, NEW n \in 1..MaxCmds, Begin(g, n) PROVE Finished'
  BY <1>0, <1>3 DEF Finished, Begin, Goto, TypeRest
<1>4. ASSUME NEW g \in Callers, Write(g) \/ Put(g) PROVE Finished'
  BY <1>0, <1>4 DEF Finished, Write, Put, Goto, Return, TypeRest
<1>5. ASSUME NEW g \in Callers, Read(g) PROVE Finished'
  <2>1. PICK e \in {"none", "redis", "net"} :
          /\ Goto(g, "read", IF LastReply(g) THEN "put" ELSE "read")
          /\ err' = [err EXCEPT ![g] = FirstError(@, e)] /\ todo' = [todo EXCEPT ![g] = @ - 1]
    BY <1>5 DEF Read, Fail, Answer, GoOn
  <2>2. pc'[g] = "put" => todo'[g] = 0
    BY <1>0, <2>1 DEF LastReply, Goto, TypeRest
  <2>3. QED
    BY <1>0, <1>1, <2>1, <2>2 DEF Goto, TypeRest
<1>6. ASSUME NEW c \in Conns, Break(c) PROVE Finished'
  BY <1>6 DEF Finished, Break
<1>7. CASE UNCHANGED vars
  BY <1>7 DEF Finished, vars
<1>8. QED
  BY <1>2, <1>3, <1>4, <1>5, <1>6, <1>7 DEF Next, Step, Exec

(* The step of one caller is a step of its call. *)
LEMMA StagesMove ==
  ASSUME TypeRest, NEW g \in Callers, NEW from, NEW to, Goto(g, from, to)
  PROVE  /\ Stages[g] = Stage(from) /\ Stages' = [Stages EXCEPT ![g] = Stage(to)]
         /\ Stage(from) = Stage(to) => Stages' = Stages
<1>1. pc[g] = from /\ pc' = [pc EXCEPT ![g] = to] /\ pc' \in [Callers -> {pc[h] : h \in Callers} \cup {to}]
  BY DEF Goto, TypeRest
<1>2. \A h \in Callers : pc'[h] = IF h = g THEN to ELSE pc[h]
  BY <1>1 DEF TypeRest
<1>3. QED
  BY <1>1, <1>2 DEF Stages

LEMMA LentMove ==
  ASSUME TypeRest, NEW g \in Callers, Only(g), pc' \in [Callers -> Steps]
  PROVE  /\ Lent' = [Lent EXCEPT ![g] = IF pc'[g] \in InCall THEN cn'[g] ELSE None]
         /\ pc[g] \notin InCall /\ pc'[g] \notin InCall => Lent' = Lent
         /\ pc[g] \in InCall /\ pc'[g] \in InCall /\ cn'[g] = cn[g] => Lent' = Lent
BY DEF Only, Lent

LEMMA FailedMove ==
  ASSUME TypeRest, NEW g \in Callers, NEW e, err' = [err EXCEPT ![g] = e]
  PROVE  Failed' = [Failed EXCEPT ![g] = e # "none"]
BY DEF TypeRest, Failed

LEMMA ReturnFinish ==
  ASSUME TypeRest, NEW g \in Callers, NEW from, Return(g, from)
  PROVE  Promise!Finish(g)
<1>1. todo' = [todo EXCEPT ![g] = 0] /\ err' = [err EXCEPT ![g] = "none"]
  BY DEF Return
<1>2. Failed' = [Failed EXCEPT ![g] = FALSE]
  BY <1>1, FailedMove
<1>3. QED
  BY <1>1, <1>2 DEF Promise!Finish

(* The steps of a caller that are not seen: how it comes by a place, and how *)
(* it comes by another connection for the one it gives up.                   *)
LEMMA QuietSteps ==
  ASSUME TypeRest, TypeRest', NEW g \in Callers, NEW from, NEW to,
         Goto(g, from, to), UNCHANGED <<todo, err>>,
         \/ {from, to} \subseteq InGet \/ {from, to} \subseteq InRemove
         \/ {from, to} \subseteq InCall /\ UNCHANGED cn,
         Only(g)
  PROVE  UNCHANGED Promise!vars
<1>1. Stage(from) = Stage(to)
  BY DEF Stage, InGet, InCall, InRemove
<1>2. Stages' = Stages
  BY <1>1, StagesMove
<1>3. pc[g] = from /\ pc'[g] = to /\ pc' \in [Callers -> Steps]
  BY DEF Goto, TypeRest
<1>4. Lent' = Lent
  BY <1>3, LentMove DEF InGet, InCall, InRemove
<1>5. Failed' = Failed
  BY DEF Failed
<1>6. QED
  BY <1>2, <1>4, <1>5 DEF Promise!vars

LEMMA OnlyStep ==
  ASSUME TypeRest, NEW g \in Callers, Step(g)
  PROVE  Only(g)
BY DEF TypeRest, Only, Step, GetConn, First, Receive, Reserve, Unreserve, Dial, GiveBack, Add, Wait,
   Deadline, Exec, Write, Read, Fail, Answer, GoOn, Put, Remove, Redial, Drop, Replace, Push,
   Return, Goto

(* A connection is lent: nobody else has it, and one more than are lent is   *)
(* no more than the size.                                                    *)
LEMMA Using == {h \in Callers : Stages[h] = "using"} = {h \in Callers : pc[h] \in InCall}
BY DEF Stages, Stage, InGet, InCall, InRemove

LEMMA ReceiveRoom ==
  ASSUME Rest, NEW g \in Callers, NEW from \in {"first", "wait"}, Receive(g, from)
  PROVE  /\ Cardinality({h \in Callers : pc[h] \in InCall}) < size
         /\ Head(free) \in Conns /\ \A h \in Callers : Lent[h] # Head(free)
<1>1. TypeRest /\ Counted /\ Owned /\ free # <<>>
  BY DEF Rest, Receive
<1>2. Len(free) \in Nat /\ Len(free) >= 1 /\ Head(free) = free[1] /\ 1 \in DOMAIN free
  BY <1>1 DEF TypeRest
<1>3. Head(free) \in Conns
  BY <1>1, <1>2 DEF TypeRest
<1>4. ASSUME NEW h \in Callers PROVE Lent[h] # Head(free)
  <2>1. CASE pc[h] \in InCall
    BY <1>1, <1>2, <2>1 DEF Lent, Owned, OneUser, Kept
  <2>2. CASE pc[h] \notin InCall
    BY <1>3, <2>2, PoolAssumption DEF Lent, Conns, None
  <2>3. QED
    BY <2>1, <2>2
<1>5. /\ Cardinality({h \in Callers : pc[h] \in InCall}) \in Nat
      /\ Cardinality({h \in Callers : pc[h] \in InCall}) <= Count(KeepSteps)
  <2>1. {h \in Callers : pc[h] \in InCall} \subseteq {h \in Callers : pc[h] \in KeepSteps}
    BY DEF KeepSteps
  <2>2. IsFiniteSet({h \in Callers : pc[h] \in KeepSteps})
    BY CountNat
  <2>3. QED
    BY <2>1, <2>2, FS_Subset, CountNat DEF Count
<1>6. /\ Cardinality(cns) \in Nat /\ size \in Nat
      /\ Count(KeepSteps) \in Nat /\ Count(PlaceSteps) \in Nat
  BY <1>1, CnsNat, CountNat, PoolAssumption
<1>7. QED
  BY <1>1, <1>2, <1>3, <1>4, <1>5, <1>6 DEF Counted

LEMMA AddRoom ==
  ASSUME Rest, NEW g \in Callers, Add(g)
  PROVE  /\ Cardinality({h \in Callers : pc[h] \in InCall}) < size
         /\ cn[g] \in Conns /\ \A h \in Callers : Lent[h] # cn[g]
<1>1. TypeRest /\ Counted /\ Owned /\ pc[g] = "add"
  BY DEF Rest, Add, Goto
<1>2. Made(g) = {cn[g]}
  BY <1>1 DEF Made
<1>3. cn[g] \in Conns /\ cn[g] \notin cns
  <2>1. cn[g] \in 1..dialled /\ cn[g] \notin cns
    BY <1>1, <1>2 DEF Owned, Dialled
  <2>2. QED
    BY <1>1, <2>1, PoolAssumption DEF TypeRest, Conns
<1>4. ASSUME NEW h \in Callers PROVE Lent[h] # cn[g]
  <2>1. CASE pc[h] \in InCall
    BY <1>1, <1>3, <2>1 DEF Lent, Owned, Kept
  <2>2. CASE pc[h] \notin InCall
    BY <1>3, <2>2, PoolAssumption DEF Lent, Conns, None
  <2>3. QED
    BY <2>1, <2>2
<1>5. /\ Cardinality({h \in Callers : pc[h] \in InCall}) \in Nat
      /\ Cardinality({h \in Callers : pc[h] \in InCall}) <= Count(KeepSteps)
  <2>1. {h \in Callers : pc[h] \in InCall} \subseteq {h \in Callers : pc[h] \in KeepSteps}
    BY DEF KeepSteps
  <2>2. IsFiniteSet({h \in Callers : pc[h] \in KeepSteps})
    BY CountNat
  <2>3. QED
    BY <2>1, <2>2, FS_Subset, CountNat DEF Count
<1>6. Count(PlaceSteps) # 0
  <2>1. g \in {h \in Callers : pc[h] \in PlaceSteps}
    BY <1>1 DEF PlaceSteps
  <2>2. QED
    BY <2>1, CountNat, FS_EmptySet DEF Count
<1>7. /\ Cardinality(cns) \in Nat /\ size \in Nat /\ Len(free) \in Nat
      /\ Count(KeepSteps) \in Nat /\ Count(PlaceSteps) \in Nat
  BY <1>1, CnsNat, CountNat, PoolAssumption
<1>8. QED
  BY <1>1, <1>3, <1>4, <1>5, <1>6, <1>7 DEF Counted

(* A step of the pool is a step of a call, or none that is seen. *)
LEMMA BorrowStep ==
  ASSUME Rest, Rest', NEW g \in Callers, Add(g) \/ Receive(g, "first") \/ Receive(g, "wait")
  PROVE  Promise!Borrow(g)
<1>0. TypeRest /\ pc' \in [Callers -> Steps] /\ UNCHANGED <<todo, err>>
  BY DEF Rest, TypeRest, Add, Receive
<1>1. PICK from \in InGet : Goto(g, from, "write")
  BY DEF Add, Receive, InGet
<1>2. Promise!Pass(g, "asking", "using")
  <2>1. Stage(from) = "asking" /\ Stage("write") = "using"
    BY DEF Stage, InGet, InCall
  <2>2. QED
    BY <1>0, <1>1, <2>1, StagesMove DEF Promise!Pass
<1>3. Step(g)
  BY DEF Step, GetConn, First, Wait
<1>4. Only(g)
  BY <1>0, <1>3, OnlyStep
<1>5. Lent' = [Lent EXCEPT ![g] = cn'[g]]
  <2>1. pc'[g] \in InCall
    BY <1>0, <1>1 DEF Goto, TypeRest, InCall
  <2>2. QED
    BY <1>0, <1>4, <2>1, LentMove
<1>6. PICK c \in Conns : /\ Cardinality({h \in Callers : pc[h] \in InCall}) < size
                         /\ cn'[g] = c /\ \A h \in Callers : Lent[h] # c
  <2>1. CASE Add(g)
    BY <2>1, AddRoom DEF Add
  <2>2. ASSUME NEW at \in {"first", "wait"}, Receive(g, at)
        PROVE  /\ Cardinality({h \in Callers : pc[h] \in InCall}) < size
               /\ Head(free) \in Conns /\ cn'[g] = Head(free)
               /\ \A h \in Callers : Lent[h] # Head(free)
    BY <1>0, <2>2, ReceiveRoom DEF Receive, TypeRest
  <2>3. QED
    BY <2>1, <2>2
<1>7. Failed' = Failed
  BY <1>0 DEF Failed
<1>8. Cardinality({h \in Callers : Stages[h] = "using"}) < size
  BY <1>6, Using
<1>9. Promise!Cardinality({h \in Callers : Stages[h] = "using"}) < size
  BY <1>8 DEF Promise!Cardinality, Cardinality
<1>10. QED
  BY <1>0, <1>2, <1>5, <1>6, <1>7, <1>9 DEF Promise!Borrow

LEMMA RefuseStep ==
  ASSUME Rest, Rest', NEW g \in Callers, GiveBack(g) \/ Deadline(g)
  PROVE  Promise!Refuse(g)
<1>0. TypeRest /\ pc' \in [Callers -> Steps]
  BY DEF Rest, TypeRest
<1>1. PICK from \in InGet : Return(g, from)
  BY DEF GiveBack, Deadline, InGet
<1>2. Goto(g, from, "idle")
  BY <1>1 DEF Return
<1>3. Promise!Pass(g, "asking", "idle")
  <2>1. Stage(from) = "asking" /\ Stage("idle") = "idle"
    BY DEF Stage, InGet, InCall, InRemove
  <2>2. QED
    BY <1>0, <1>2, <2>1, StagesMove DEF Promise!Pass
<1>4. Only(g)
  <2>1. Step(g)
    BY DEF Step, GetConn, Wait
  <2>2. QED
    BY <1>0, <2>1, OnlyStep
<1>5. Lent' = Lent
  <2>1. pc[g] \notin InCall /\ pc'[g] \notin InCall
    BY <1>0, <1>2 DEF Goto, TypeRest, InGet, InCall
  <2>2. QED
    BY <1>0, <1>4, <2>1, LentMove
<1>6. QED
  BY <1>0, <1>1, <1>3, <1>5, ReturnFinish DEF Promise!Refuse

LEMMA EndStep ==
  ASSUME Rest, Rest', NEW g \in Callers, Drop(g) \/ Push(g)
  PROVE  Promise!End(g)
<1>0. TypeRest /\ pc' \in [Callers -> Steps]
  BY DEF Rest, TypeRest
<1>1. PICK from \in InRemove : Return(g, from)
  BY DEF Drop, Push, InRemove
<1>2. Goto(g, from, "idle")
  BY <1>1 DEF Return
<1>3. Promise!Pass(g, "ending", "idle")
  <2>1. Stage(from) = "ending" /\ Stage("idle") = "idle"
    BY DEF Stage, InGet, InCall, InRemove
  <2>2. QED
    BY <1>0, <1>2, <2>1, StagesMove DEF Promise!Pass
<1>4. Only(g)
  <2>1. Step(g)
    BY DEF Step, Remove
  <2>2. QED
    BY <1>0, <2>1, OnlyStep
<1>5. Lent' = Lent
  <2>1. pc[g] \notin InCall /\ pc'[g] \notin InCall
    BY <1>0, <1>2 DEF Goto, TypeRest, InRemove, InCall
  <2>2. QED
    BY <1>0, <1>4, <2>1, LentMove
<1>6. QED
  BY <1>0, <1>1, <1>3, <1>5, ReturnFinish DEF Promise!End

LEMMA GiveBackStep ==
  ASSUME Rest, Rest', Finished, NEW g \in Callers, Put(g)
  PROVE  Promise!GiveBack(g)
<1>0. TypeRest /\ pc' \in [Callers -> Steps]
  BY DEF Rest, TypeRest
<1>1. pc[g] = "put"
  BY DEF Put, Return, Goto
<1>2. todo[g] = 0 \/ Failed[g]
  BY <1>1 DEF Finished, Failed
<1>3. Only(g)
  <2>1. Step(g)
    BY DEF Step, Exec
  <2>2. QED
    BY <1>0, <2>1, OnlyStep
<1>4. Lent' = [Lent EXCEPT ![g] = None]
  <2>1. pc'[g] \notin InCall
    BY <1>0 DEF Put, Return, Goto, TypeRest, InCall
  <2>2. QED
    BY <1>0, <1>3, <2>1, LentMove
<1>5. /\ Stage("put") = "using" /\ Stage("idle") = "idle" /\ Stage("redial") = "ending"
  BY DEF Stage, InGet, InCall, InRemove
<1>6. CASE Return(g, "put")
  <2>1. Promise!Pass(g, "using", "idle")
    BY <1>0, <1>5, <1>6, StagesMove DEF Promise!Pass, Return
  <2>2. QED
    BY <1>0, <1>2, <1>4, <1>6, <2>1, ReturnFinish DEF Promise!GiveBack
<1>7. CASE Goto(g, "put", "redial") /\ UNCHANGED <<todo, err>>
  <2>1. Promise!Pass(g, "using", "ending")
    BY <1>0, <1>5, <1>7, StagesMove DEF Promise!Pass
  <2>2. Failed' = Failed
    BY <1>7 DEF Failed
  <2>3. QED
    BY <1>2, <1>4, <1>7, <2>1, <2>2 DEF Promise!GiveBack
<1>8. QED
  BY <1>6, <1>7 DEF Put

LEMMA ReadStep ==
  ASSUME Rest, Rest', NEW g \in Callers, Read(g)
  PROVE  Promise!Reply(g)
<1>0. TypeRest /\ pc' \in [Callers -> Steps] /\ Working
  BY DEF Rest, TypeRest
<1>1. PICK e \in {"none", "redis", "net"} :
        /\ Goto(g, "read", IF LastReply(g) THEN "put" ELSE "read")
        /\ err' = [err EXCEPT ![g] = FirstError(@, e)] /\ todo' = [todo EXCEPT ![g] = @ - 1]
        /\ cn' = cn
  BY DEF Read, Fail, Answer, GoOn
<1>2. Stages[g] = "using" /\ Stages' = Stages
  <2>1. Stage("read") = "using" /\ Stage("put") = "using"
    BY DEF Stage, InGet, InCall
  <2>2. QED
    BY <1>0, <1>1, <2>1, StagesMove
<1>3. todo[g] > 0
  BY <1>0, <1>1, PoolAssumption DEF Working, TypeRest, Goto
<1>4. Promise!Fails(g) \/ UNCHANGED Failed
  <2>1. err' = [err EXCEPT ![g] = FirstError(err[g], e)]
    BY <1>1
  <2>2. CASE FirstError(err[g], e) = "none"
    <3>1. err[g] = "none"
      BY <2>2 DEF FirstError
    <3>2. err' = err
      BY <1>0, <2>1, <2>2, <3>1 DEF TypeRest
    <3>3. QED
      BY <3>2 DEF Failed
  <2>3. CASE FirstError(err[g], e) # "none"
    <3>1. Failed' = [Failed EXCEPT ![g] = TRUE]
      BY <1>0, <2>1, <2>3, FailedMove
    <3>2. QED
      BY <3>1 DEF Promise!Fails
  <2>4. QED
    BY <2>2, <2>3
<1>5. Lent' = Lent
  <2>1. Only(g)
    <3>1. Step(g)
      BY DEF Step, Exec
    <3>2. QED
      BY <1>0, <3>1, OnlyStep
  <2>2. pc[g] \in InCall /\ pc'[g] \in InCall
    BY <1>0, <1>1 DEF Goto, TypeRest, InCall
  <2>3. QED
    BY <1>0, <1>1, <2>1, <2>2, LentMove
<1>6. QED
  BY <1>1, <1>2, <1>3, <1>4, <1>5 DEF Promise!Reply

LEMMA WriteStep ==
  ASSUME Rest, Rest', NEW g \in Callers, Write(g)
  PROVE  Promise!Lose(g) \/ UNCHANGED Promise!vars
<1>0. TypeRest /\ TypeRest' /\ Only(g)
  <2>1. Step(g)
    BY DEF Step, Exec
  <2>2. QED
    BY <2>1, OnlyStep DEF Rest
<1>1. CASE Goto(g, "write", "read") /\ UNCHANGED <<todo, err, cn>>
  BY <1>0, <1>1, QuietSteps DEF InCall
<1>2. CASE Goto(g, "write", "put") /\ err' = [err EXCEPT ![g] = "net"] /\ UNCHANGED <<todo, cn>>
  <2>1. Stages[g] = "using" /\ Stages' = Stages
    <3>1. Stage("write") = "using" /\ Stage("put") = "using"
      BY DEF Stage, InGet, InCall
    <3>2. QED
      BY <1>0, <1>2, <3>1, StagesMove
  <2>2. Promise!Fails(g)
    <3>1. Failed' = [Failed EXCEPT ![g] = "net" # "none"]
      BY <1>0, <1>2, FailedMove
    <3>2. QED
      BY <3>1, ("net" # "none") = TRUE DEF Promise!Fails
  <2>3. Lent' = Lent
    <3>1. pc[g] \in InCall /\ pc'[g] \in InCall /\ pc' \in [Callers -> Steps]
      BY <1>0, <1>2 DEF Goto, TypeRest, InCall
    <3>2. QED
      BY <1>0, <1>2, <3>1, LentMove
  <2>4. QED
    BY <1>2, <2>1, <2>2, <2>3 DEF Promise!Lose
<1>3. QED
  BY <1>1, <1>2 DEF Write

LEMMA AskStep ==
  ASSUME Rest, Rest', NEW g \in Callers, NEW n \in 1..MaxCmds, Begin(g, n)
  PROVE  Promise!Ask(g)
<1>0. TypeRest /\ pc' \in [Callers -> Steps] /\ Goto(g, "idle", "first") /\ UNCHANGED <<cn, newcn, err>>
  BY DEF Rest, TypeRest, Begin
<1>1. Promise!Pass(g, "idle", "asking")
  <2>1. Stage("idle") = "idle" /\ Stage("first") = "asking"
    BY DEF Stage, InGet, InCall, InRemove
  <2>2. QED
    BY <1>0, <2>1, StagesMove DEF Promise!Pass
<1>2. Lent' = Lent
  <2>1. pc[g] \notin InCall /\ pc'[g] \notin InCall /\ Only(g)
    BY <1>0, MoveOnly DEF Goto, TypeRest, InCall
  <2>2. QED
    BY <1>0, <2>1, LentMove
<1>3. Failed' = Failed
  BY <1>0 DEF Failed
<1>4. \E k \in 1..MaxCmds : todo' = [todo EXCEPT ![g] = k]
  BY DEF Begin
<1>5. QED
  BY <1>1, <1>2, <1>3, <1>4 DEF Promise!Ask

LEMMA LendingInit == Init => Promise!Init
<1>1. ASSUME Init PROVE Promise!Init
  <2>1. Stages = [g \in Callers |-> "idle"]
    BY <1>1 DEF Init, Stages, Stage, InGet, InCall, InRemove
  <2>2. Lent = [g \in Callers |-> None]
    BY <1>1 DEF Init, Lent, InCall
  <2>3. Failed = [g \in Callers |-> FALSE]
    BY <1>1 DEF Init, Failed
  <2>4. QED
    BY <1>1, <2>1, <2>2, <2>3 DEF Init, Promise!Init
<1>2. QED
  BY <1>1

LEMMA LendingStep ==
  ASSUME Rest, Rest', Finished, [Next]_vars
  PROVE  [Promise!Next]_(Promise!vars)
<1>0. TypeRest /\ TypeRest'
  BY DEF Rest
<1>1. ASSUME NEW g \in Callers, NEW n \in 1..MaxCmds, Begin(g, n) PROVE Promise!Next
  BY <1>1, AskStep DEF Promise!Next
<1>2. ASSUME NEW g \in Callers, GetConn(g) PROVE Promise!Next \/ UNCHANGED Promise!vars
  <2>0. Only(g)
    BY <1>0, <1>2, OnlyStep DEF Step
  <2>1. CASE Add(g) \/ Receive(g, "first") \/ Receive(g, "wait")
    BY <2>1, BorrowStep DEF Promise!Next
  <2>2. CASE GiveBack(g) \/ Deadline(g)
    BY <2>2, RefuseStep DEF Promise!Next
  <2>3. ASSUME NEW from \in InGet, NEW to \in InGet, Goto(g, from, to), UNCHANGED <<todo, err>>
        PROVE  UNCHANGED Promise!vars
    BY <1>0, <2>0, <2>3, QuietSteps
  <2>4. CASE Goto(g, "first", "reserve") /\ UNCHANGED <<todo, err>>
    BY <2>3, <2>4 DEF InGet
  <2>5. CASE Reserve(g) \/ Unreserve(g)
    <3>1. UNCHANGED <<todo, err>> /\ \E from, to \in InGet : Goto(g, from, to)
      BY <2>5 DEF Reserve, Unreserve, InGet
    <3>2. QED
      BY <2>3, <3>1
  <2>6. CASE Dial(g)
    <3>1. UNCHANGED <<todo, err>> /\ \E from, to \in InGet : Goto(g, from, to)
      BY <2>6 DEF Dial, InGet
    <3>2. QED
      BY <2>3, <3>1
  <2>7. QED
    BY <1>2, <2>1, <2>2, <2>4, <2>5, <2>6 DEF GetConn, First, Wait
<1>3. ASSUME NEW g \in Callers, Exec(g) PROVE Promise!Next \/ UNCHANGED Promise!vars
  BY <1>3, WriteStep, ReadStep, GiveBackStep DEF Exec, Promise!Next
<1>4. ASSUME NEW g \in Callers, Remove(g) PROVE Promise!Next \/ UNCHANGED Promise!vars
  <2>1. CASE Drop(g) \/ Push(g)
    BY <2>1, EndStep DEF Promise!Next
  <2>2. CASE Redial(g) \/ Replace(g)
    <3>1. Only(g)
      BY <1>0, <1>4, OnlyStep DEF Step
    <3>2. UNCHANGED <<todo, err>> /\ \E from, to \in InRemove : Goto(g, from, to)
      BY <2>2 DEF Redial, Replace, InRemove
    <3>3. QED
      BY <1>0, <3>1, <3>2, QuietSteps
  <2>3. QED
    BY <1>4, <2>1, <2>2 DEF Remove
<1>5. CASE UNCHANGED <<pc, cn, todo, err>>
  BY <1>5 DEF Promise!vars, Stages, Lent, Failed
<1>6. ASSUME NEW c \in Conns, Break(c) PROVE UNCHANGED <<pc, cn, todo, err>>
  BY <1>6 DEF Break
<1>7. QED
  BY <1>1, <1>2, <1>3, <1>4, <1>5, <1>6 DEF Next, Step, vars

(* The pool implements Lending: whatever list, channel, count and sockets it *)
(* keeps, a caller sees a connection that is its own from the time it gets   *)
(* it until the last reply or an error, or a refusal (pool.go, redis.go).    *)
THEOREM Lends == Spec => LendsInTurn
<1>1. Init => Promise!Init /\ Finished
  BY LendingInit, FinishedInit
<1>2. Rest /\ Rest' /\ Finished /\ [Next]_vars => [Promise!Next]_(Promise!vars) /\ Finished'
  BY LendingStep, FinishedStep
<1>3. QED
  BY <1>1, <1>2, RestInvariant, PTL DEF Spec, LendsInTurn, Promise!Spec
=============================================================================
