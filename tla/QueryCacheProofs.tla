-------------------------- MODULE QueryCacheProofs --------------------------
(***************************************************************************)
(* What QueryCache keeps in Redis and in the database, what it hands to    *)
(* clients and what a write does, for any sets of requests, users, ids and *)
(* names, any seed and any bounds.                                         *)
(***************************************************************************)
EXTENDS QueryCache, MCCacheHints, SequenceTheorems, TLAPS

-----------------------------------------------------------------------------
(* What the statements of Tables, called as Operations calls them, keep.   *)

\* Every call of a handler that writes, with the fields it sets.
LEMMA WriteFields ==
  ASSUME NEW o \in Writes
  PROVE  /\ o.user \in Users
         /\ \/ o.kind = "FolderCreate"  /\ o.id \in Ids   /\ o.name \in Param
            \/ o.kind = "FolderRename"  /\ o.id \in Param /\ o.name \in Param
            \/ o.kind = "FolderDelete"  /\ o.id \in Param /\ o.name = Blank
            \/ o.kind = "TorrentCreate" /\ o.id = Blank   /\ o.name \in Param
            \/ /\ o.kind = "TorrentUpdate" /\ o.id \in Param
               /\ o.name \in Param \cup {Blank}
            \/ o.kind = "TorrentDelete" /\ o.id \in Param
<1>1. PICK u \in Users : o \in WriteCalls(u)
  BY DEF Writes
<1>2. QED
  BY <1>1 DEF WriteCalls, Call

LEMMA ReadFields ==
  ASSUME NEW q \in Reads
  PROVE  /\ q.user \in Users
         /\ \/ q.kind = "FolderGetAll"       /\ q.id = Blank   /\ q.name = Blank
            \/ q.kind = "TorrentGetAll"      /\ q.id = Blank   /\ q.name = Blank
            \/ q.kind = "TorrentGetByFolder" /\ q.id = Blank   /\ q.name \in Param
            \/ q.kind = "TorrentGet"         /\ q.id \in Param /\ q.name = Blank
<1>1. PICK u \in Users : q \in ReadCalls(u)
  BY DEF Reads
<1>2. QED
  BY <1>1 DEF ReadCalls, Call

-----------------------------------------------------------------------------
(* Types.                                                                  *)

LEMMA FolderOutcomeType ==
  ASSUME NEW tables \in Database, NEW u \in Users, NEW p, NEW n \in Param
  PROVE  /\ p \in Ids => FolderInsert(tables, p, u, n).db \in Database
         /\ FolderUpdate(tables, p, u, n).db \in Database
         /\ FolderDeleteRows(tables, p, u).db \in Database
<1>1. p \in Ids => FolderInsert(tables, p, u, n).db \in Database
  BY DEF FolderInsert, Failed, Done, Database, Folder
<1>2. FolderUpdate(tables, p, u, n).db \in Database
  <2> DEFINE hit == FolderMatches(tables, p, u)
             follows(t) == \E f \in hit : Holds(t, f)
  <2>1. {[f EXCEPT !.name = n] : f \in hit} \subseteq Folder
    BY DEF FolderMatches, Database, Folder
  <2>2. {[t EXCEPT !.folder = n] : t \in {s \in tables.torrents : follows(s)}} \subseteq Torrent
    BY DEF Database, Torrent
  <2>3. QED
    BY <2>1, <2>2 DEF FolderUpdate, Failed, Done, Database
<1>3. FolderDeleteRows(tables, p, u).db \in Database
  BY DEF FolderDeleteRows, FolderMatches, Failed, Done, Database
<1>4. QED
  BY <1>1, <1>2, <1>3

LEMMA TorrentOutcomeType ==
  ASSUME NEW tables \in Database, NEW u \in Users, NEW p, NEW n \in Param \cup {Blank},
         NEW s
  PROVE  /\ n \in Param => TorrentInsert(tables, p, u, n).db \in Database
         /\ TorrentUpdateRows(tables, p, u, s, n).db \in Database
         /\ TorrentDeleteRows(tables, p, u).db \in Database
<1>1. n \in Param => TorrentInsert(tables, p, u, n).db \in Database
  BY DEF TorrentInsert, IsUuid, Failed, Done, Database, Torrent, TorrentStatus
<1>2. TorrentUpdateRows(tables, p, u, s, n).db \in Database
  <2> DEFINE hit == TorrentMatches(tables, p, u)
             set(t) == [t EXCEPT !.status = IF s = Blank THEN @ ELSE s,
                                 !.folder = IF n = Blank THEN @ ELSE n]
  <2>1. CASE hit # {} /\ s \notin TorrentStatus \cup {Blank}
    BY <2>1 DEF TorrentUpdateRows, Failed
  <2>2. CASE hit = {} \/ s \in TorrentStatus \cup {Blank}
    <3>1. {set(t) : t \in hit} \subseteq Torrent
      BY <2>2 DEF TorrentMatches, Database, Torrent
    <3>2. QED
      BY <3>1 DEF TorrentUpdateRows, Failed, Done, Database
  <2>3. QED
    BY <2>1, <2>2
<1>3. TorrentDeleteRows(tables, p, u).db \in Database
  BY DEF TorrentDeleteRows, TorrentMatches, Failed, Done, Database
<1>4. QED
  BY <1>1, <1>2, <1>3

\* A write leaves tables of the types of the schema.
LEMMA OutcomeType ==
  ASSUME NEW tables \in Database, NEW o \in Writes
  PROVE  Outcome(tables, o).db \in Database
<1>1. CASE o.kind \in FolderWrites
  <2>1. CASE o.kind = "FolderDelete"
    BY <2>1, WriteFields DEF Outcome, FolderDeleteRows, FolderMatches, Failed, Done, Database
  <2>2. CASE o.kind # "FolderDelete"
    BY <1>1, <2>2, WriteFields, FolderOutcomeType DEF Outcome, FolderWrites
  <2>3. QED
    BY <2>1, <2>2
<1>2. CASE o.kind \in TorrentWrites
  <2>1. CASE o.kind = "TorrentDelete"
    BY <2>1, WriteFields DEF Outcome, TorrentDeleteRows, TorrentMatches, Failed, Done, Database
  <2>2. CASE o.kind # "TorrentDelete"
    BY <1>2, <2>2, WriteFields, TorrentOutcomeType DEF Outcome, TorrentWrites
  <2>3. QED
    BY <2>1, <2>2
<1>3. QED
  BY <1>1, <1>2, WriteFields DEF FolderWrites, TorrentWrites

\* The statement of each function.
LEMMA OutcomeOf ==
  ASSUME NEW tables, NEW o
  PROVE  /\ o.kind = "FolderCreate"  => Outcome(tables, o) = FolderInsert(tables, o.id, o.user, o.name)
         /\ o.kind = "FolderRename"  => Outcome(tables, o) = FolderUpdate(tables, o.id, o.user, o.name)
         /\ o.kind = "FolderDelete"  => Outcome(tables, o) = FolderDeleteRows(tables, o.id, o.user)
         /\ o.kind = "TorrentCreate" => Outcome(tables, o) = TorrentInsert(tables, o.id, o.user, o.name)
         /\ o.kind = "TorrentUpdate" =>
              Outcome(tables, o) = TorrentUpdateRows(tables, o.id, o.user, o.status, o.name)
         /\ o.kind = "TorrentDelete" => Outcome(tables, o) = TorrentDeleteRows(tables, o.id, o.user)
BY Zenon DEF Outcome

-----------------------------------------------------------------------------
(* The schema's constraints.                                               *)

LEMMA FolderInsertKeepsSchema ==
  ASSUME NEW tables \in Database, SchemaHolds(tables), NEW u \in Users, NEW n \in Param,
         NEW i \in Ids, i \notin {f.id : f \in tables.folders}
  PROVE  SchemaHolds(FolderInsert(tables, i, u, n).db)
BY DEF FolderInsert, Failed, Done, SchemaHolds, UniqueIds, UniqueNames, ForeignKeys,
       Holds, Database, Folder, Torrent

LEMMA FolderUpdateKeepsSchema ==
  ASSUME NEW tables \in Database, SchemaHolds(tables), NEW u \in Users, NEW n \in Param, NEW p
  PROVE  SchemaHolds(FolderUpdate(tables, p, u, n).db)
<1> DEFINE out == FolderUpdate(tables, p, u, n)
           hit == FolderMatches(tables, p, u)
           follows(t) == \E f \in hit : Holds(t, f)
           renamed(f) == [f EXCEPT !.name = n]
           moved(t) == [t EXCEPT !.folder = n]
<1>1. CASE out.db = tables
  BY <1>1
<1>2. CASE out.db # tables
  <2>1. /\ out.db.folders  = (tables.folders \ hit) \cup {renamed(f) : f \in hit}
        /\ out.db.torrents = {t \in tables.torrents : ~follows(t)}
                                \cup {moved(t) : t \in {s \in tables.torrents : follows(s)}}
        /\ \A f, g \in hit : f = g
        /\ \A f \in hit, g \in tables.folders \ hit : ~(g.owner_id = u /\ g.name = n)
    BY <1>2 DEF FolderUpdate, Failed, Done
  <2>2. /\ hit \subseteq tables.folders /\ \A f \in hit : f.owner_id = u
        /\ tables.folders \subseteq Folder /\ tables.torrents \subseteq Torrent
    BY DEF FolderMatches, Database
  <2>3. /\ \A f \in hit : /\ renamed(f).id = f.id /\ renamed(f).owner_id = u
                          /\ renamed(f).name = n
        /\ \A t \in tables.torrents : /\ moved(t).id = t.id /\ moved(t).owner_id = t.owner_id
                                  /\ moved(t).folder = n
    BY <2>2 DEF Folder, Torrent
  <2> HIDE DEF out, hit, renamed, moved
  <2>4. UniqueIds(out.db)
    BY <2>1, <2>2, <2>3 DEF SchemaHolds, UniqueIds
  <2>5. UniqueNames(out.db)
    BY <2>1, <2>2, <2>3 DEF SchemaHolds, UniqueNames
  <2>6. ForeignKeys(out.db)
    <3> SUFFICES ASSUME NEW t \in out.db.torrents
                 PROVE  \E f \in out.db.folders : Holds(t, f)
      BY DEF ForeignKeys
    <3>1. CASE t \in tables.torrents /\ ~follows(t)
      <4>1. PICK f \in tables.folders : Holds(t, f)
        BY <3>1 DEF SchemaHolds, ForeignKeys
      <4>2. f \notin hit
        BY <3>1, <4>1
      <4>3. QED
        BY <2>1, <4>1, <4>2
    <3>2. CASE \E s \in tables.torrents : follows(s) /\ t = moved(s)
      <4>1. PICK s \in tables.torrents, f \in hit : Holds(s, f) /\ t = moved(s)
        BY <3>2
      <4>2. Holds(t, renamed(f))
        BY <2>2, <2>3, <4>1 DEF Holds
      <4>3. QED
        BY <2>1, <4>1, <4>2
    <3>3. QED
      BY <2>1, <3>1, <3>2
  <2>7. QED
    BY <2>4, <2>5, <2>6 DEF SchemaHolds, out
<1>3. QED
  BY <1>1, <1>2

LEMMA FolderDeleteKeepsSchema ==
  ASSUME NEW tables \in Database, SchemaHolds(tables), NEW u, NEW p
  PROVE  SchemaHolds(FolderDeleteRows(tables, p, u).db)
BY DEF FolderDeleteRows, FolderMatches, Failed, Done, SchemaHolds, UniqueIds, UniqueNames,
       ForeignKeys, Holds, Database

LEMMA TorrentUpdateKeepsSchema ==
  ASSUME NEW tables \in Database, SchemaHolds(tables), NEW u \in Users, NEW p, NEW s, NEW n
  PROVE  SchemaHolds(TorrentUpdateRows(tables, p, u, s, n).db)
<1> DEFINE out == TorrentUpdateRows(tables, p, u, s, n)
           hit == TorrentMatches(tables, p, u)
           set(t) == [t EXCEPT !.status = IF s = Blank THEN @ ELSE s,
                               !.folder = IF n = Blank THEN @ ELSE n]
<1>1. CASE out.db = tables
  BY <1>1
<1>2. CASE out.db # tables
  <2>1. /\ out.db.folders = tables.folders
        /\ out.db.torrents = (tables.torrents \ hit) \cup {set(t) : t \in hit}
        /\ hit = {} \/ n = Blank \/ \E f \in tables.folders : f.owner_id = u /\ f.name = n
    BY <1>2 DEF TorrentUpdateRows, Failed, Done, Database
  <2>2. hit \subseteq tables.torrents /\ \A t \in hit : t.owner_id = u
    BY DEF TorrentMatches
  <2>3. \A t \in hit : /\ set(t).id = t.id /\ set(t).owner_id = t.owner_id
                       /\ set(t).folder = IF n = Blank THEN t.folder ELSE n
    BY <2>2 DEF Database, Torrent
  <2> HIDE DEF out, hit, set
  <2>4. UniqueIds(out.db)
    BY <2>1, <2>2, <2>3 DEF SchemaHolds, UniqueIds
  <2>5. UniqueNames(out.db)
    BY <2>1 DEF SchemaHolds, UniqueNames
  <2>6. ForeignKeys(out.db)
    BY <2>1, <2>2, <2>3 DEF SchemaHolds, ForeignKeys, Holds
  <2>7. QED
    BY <2>4, <2>5, <2>6 DEF SchemaHolds, out
<1>3. QED
  BY <1>1, <1>2

LEMMA TorrentDeleteKeepsSchema ==
  ASSUME NEW tables \in Database, SchemaHolds(tables), NEW u, NEW p
  PROVE  SchemaHolds(TorrentDeleteRows(tables, p, u).db)
BY DEF TorrentDeleteRows, TorrentMatches, Failed, Done, SchemaHolds, UniqueIds, UniqueNames,
       ForeignKeys, Holds, Database

\* TorrentCreate leaves the id blank, which is not a uuid.
LEMMA TorrentCreateFails ==
  ASSUME NEW tables, NEW o \in Writes, o.kind = "TorrentCreate"
  PROVE  Outcome(tables, o) = Failed(tables, "other")
BY WriteFields, OutcomeOf, TextAssumption DEF TorrentInsert, IsUuid

\* The statement of a write keeps the constraints of schema.sql, provided that
\* FolderCreate has a new id.
THEOREM OutcomeKeepsSchema ==
  ASSUME NEW tables \in Database, SchemaHolds(tables), NEW o \in Writes,
         o.kind = "FolderCreate" => o.id \notin {f.id : f \in tables.folders}
  PROVE  SchemaHolds(Outcome(tables, o).db)
<1>1. CASE o.kind \in FolderWrites
  BY <1>1, WriteFields, OutcomeOf, FolderInsertKeepsSchema, FolderUpdateKeepsSchema,
     FolderDeleteKeepsSchema DEF FolderWrites
<1>2. CASE o.kind = "TorrentCreate"
  BY <1>2, TorrentCreateFails DEF Failed
<1>3. CASE o.kind \in {"TorrentUpdate", "TorrentDelete"}
  BY <1>3, WriteFields, OutcomeOf, TorrentUpdateKeepsSchema, TorrentDeleteKeepsSchema
<1>4. QED
  BY <1>1, <1>2, <1>3, WriteFields DEF FolderWrites

-----------------------------------------------------------------------------
(* The steps of requests.                                                  *)

\* Zenon, not SMT, selects the branch of a CASE.
LEMMA SelectedOf ==
  ASSUME NEW d, NEW q
  PROVE  /\ q.kind = "FolderGetAll"       => Selected(d, q) = FoldersOf(d, q.user)
         /\ q.kind = "TorrentGetAll"      => Selected(d, q) = TorrentsOf(d, q.user)
         /\ q.kind = "TorrentGetByFolder" => Selected(d, q) = TorrentsIn(d, q.user, q.name)
         /\ q.kind = "TorrentGet"         => Selected(d, q) = TorrentMatches(d, q.id, q.user)
BY Zenon DEF Selected

LEMMA AnswersType ==
  ASSUME NEW d \in Database, NEW q \in Reads
  PROVE  Answers(d, q) \subseteq Answer
<1>1. FoldersOf(d, q.user) \in Answer
  BY DEF FoldersOf, Database, Folder, Answer, Row
<1>2. /\ TorrentsOf(d, q.user) \in Answer
      /\ TorrentsIn(d, q.user, q.name) \in Answer
      /\ TorrentMatches(d, q.id, q.user) \in Answer
  BY DEF TorrentsOf, TorrentsIn, TorrentMatches, Database, Answer, Row
<1>3. Selected(d, q) \in Answer
  BY <1>1, <1>2, ReadFields, SelectedOf
<1>4. QED
  BY <1>3 DEF Answers

LEMMA SeedType == Seed \in Database /\ RowIds(Seed) \subseteq Ids
BY ConstantsAssumption DEF Seed, Database, RowIds, Folder, Torrent

LEMMA KeyOfRead ==
  ASSUME NEW q \in Reads
  PROVE  KeyOf(q) \in Keys
BY DEF Keys

-----------------------------------------------------------------------------
(* Types.                                                                  *)

LEMMA InitType == Init => TypeOK
<1> SUFFICES ASSUME Init PROVE TypeOK
  OBVIOUS
<1>1. db \in Database /\ issued \subseteq Ids
  BY SeedType DEF Init
<1>2. DOMAIN cache = {} /\ registered = {} /\ cut = {}
  BY DEF Init
<1>3. past \in [Reads -> SUBSET Answer]
  BY SeedType, AnswersType DEF Init
<1>4. got \in [Requests -> [bytes : Answer, etag : Nat]]
  BY DEF Init, Nothing, ETagNil, Answer
<1>5. QED
  BY <1>1, <1>2, <1>3, <1>4 DEF Init, TypeOK, Replies

\* The part of TypeOK about the requests.
RequestsOK ==
  /\ pc \in [Requests -> Replies \cup {"lookup", "query", "store", "expire",
                                        "register", "exec", "invalidate"}]
  /\ op \in [Requests -> Reads \cup Writes \cup {NoCall}]
  /\ \A r \in Requests :
       /\ pc[r] \in {"lookup", "query", "store", "expire", "register"} => op[r] \in Reads
       /\ pc[r] \in {"exec", "invalidate"} => op[r] \in Writes
  /\ got \in [Requests -> [bytes : Answer, etag : Nat]]

LEMMA ReplyType ==
  ASSUME TypeOK, NEW r \in Requests, NEW s \in Replies, Reply(r, s)
  PROVE  RequestsOK'
<1>1. Nothing \in [bytes : Answer, etag : Nat]
  BY DEF Nothing, ETagNil, Answer
<1>2. QED
  BY <1>1 DEF TypeOK, RequestsOK, Reply, Goto, Replies

LEMMA NextType == TypeOK /\ [Next]_vars => TypeOK'
<1> SUFFICES ASSUME TypeOK, [Next]_vars PROVE TypeOK'
  OBVIOUS
<1> USE DEF Replies
<1>0. Nothing \in [bytes : Answer, etag : Nat]
  BY DEF Nothing, ETagNil, Answer
<1>1. ASSUME NEW r \in Requests, Receive(r) PROVE TypeOK'
  <2>1. PICK o \in Reads \cup Writes :
          /\ op' = [op EXCEPT ![r] = o]
          /\ \/ o \in Reads /\ Goto(r, "lookup") /\ UNCHANGED <<issued, writes>>
             \/ /\ o \in Writes /\ Goto(r, "exec") /\ writes' = writes + 1
                /\ issued' \in {issued, issued \cup {o.id}}
                /\ o.kind # "FolderCreate" => UNCHANGED issued
    BY <1>1 DEF Receive
  <2>2. issued' \subseteq Ids
    BY <2>1, WriteFields DEF TypeOK
  <2>3. RequestsOK'
    BY <1>1, <2>1 DEF TypeOK, RequestsOK, Receive, Goto, Busy
  <2>4. QED
    BY <1>1, <2>1, <2>2, <2>3 DEF TypeOK, RequestsOK, Receive
<1>2. ASSUME NEW r \in Requests, Lookup(r) PROVE TypeOK'
  <2>1. CASE KeyOf(op[r]) \in DOMAIN cache
    <3>1. RequestsOK'
      BY <1>2, <2>1, ReplyType DEF Lookup, Deliver
    <3>2. delivered' \subseteq [key : Keys, bytes : Answer, etag : Nat]
      BY <1>2, <2>1, KeyOfRead DEF TypeOK, Lookup, Deliver, Entry
    <3>3. QED
      BY <1>2, <3>1, <3>2 DEF TypeOK, RequestsOK, Lookup
  <2>2. CASE KeyOf(op[r]) \notin DOMAIN cache
    BY <1>2, <2>2 DEF TypeOK, Lookup, Goto
  <2>3. QED
    BY <2>1, <2>2
<1>3. ASSUME NEW r \in Requests, Query(r) PROVE TypeOK'
  <2>1. CASE Reply(r, "error")
    BY <1>3, <2>1, ReplyType DEF TypeOK, RequestsOK, Query
  <2>2. CASE ~Reply(r, "error")
    BY <1>3, <2>2, AnswersType DEF TypeOK, Query, Goto
  <2>3. QED
    BY <2>1, <2>2
<1>4. ASSUME NEW r \in Requests, Store(r) PROVE TypeOK'
  BY <1>4, KeyOfRead DEF TypeOK, Store, Goto, Entry, cacheMakeEtag
<1>5. ASSUME NEW r \in Requests, SetTTL(r) PROVE TypeOK'
  <2>1. DOMAIN cache' \subseteq Keys /\ cache' \in [DOMAIN cache' -> Entry]
    <3>1. \A k \in DOMAIN cache : /\ cache[k] \in Entry
                                 /\ [cache[k] EXCEPT !.ttl = TRUE] \in Entry
      BY <1>5 DEF TypeOK, Entry
    <3>2. QED
      BY <1>5, <3>1 DEF TypeOK, SetTTL
  <2>2. RequestsOK'
    BY <1>5 DEF TypeOK, RequestsOK, SetTTL, Goto
  <2>3. QED
    BY <1>5, <2>1, <2>2 DEF TypeOK, RequestsOK, SetTTL
<1>6. ASSUME NEW r \in Requests, Register(r) PROVE TypeOK'
  BY <1>0, <1>6, KeyOfRead DEF TypeOK, Register, Added, Goto, Reply, Deliver
<1>7. ASSUME NEW r \in Requests, Exec(r) PROVE TypeOK'
  <2>1. op[r] \in Writes
    BY <1>7 DEF TypeOK, Exec
  <2>2. db' \in Database /\ past' \in [Reads -> SUBSET Answer]
    BY <1>7, <2>1, OutcomeType, AnswersType DEF TypeOK, Exec, Commit
  <2>3. RequestsOK'
    <3>1. CASE dbFinalizeExec(Outcome(db, op[r])) = "invalidate"
      BY <1>7, <2>1, <3>1 DEF TypeOK, RequestsOK, Exec, Goto
    <3>2. CASE dbFinalizeExec(Outcome(db, op[r])) # "invalidate"
      BY <1>7, <3>2, ReplyType DEF Exec, dbFinalizeExec
    <3>3. QED
      BY <3>1, <3>2
  <2>4. QED
    BY <1>7, <2>2, <2>3 DEF TypeOK, RequestsOK, Exec
<1>8. ASSUME NEW r \in Requests, Invalidate(r) PROVE TypeOK'
  <2>1. RequestsOK'
    BY <1>8, ReplyType DEF Invalidate
  <2>2. \/ UNCHANGED <<cache, registered>>
        \/ Evict(HintOf(op[r]))
    BY <1>8 DEF Invalidate
  <2>3. QED
    BY <1>8, <2>1, <2>2 DEF TypeOK, RequestsOK, Invalidate, Evict
<1>9. ASSUME NEW r \in Requests, LoseRedis(r) PROVE TypeOK'
  BY <1>0, <1>9, KeyOfRead DEF TypeOK, LoseRedis, Fault, Added, Evict, Goto, Reply
<1>10. ASSUME NEW r \in Requests, LoseDb(r) PROVE TypeOK'
  BY <1>0, <1>10, OutcomeType, AnswersType DEF TypeOK, LoseDb, Fault, Commit, Goto, Reply
<1>11. CASE Crash
  BY <1>0, <1>11, KeyOfRead DEF TypeOK, Crash, Fault, Busy
<1>12. CASE Flush
  BY <1>12 DEF TypeOK, Flush
<1>13. ASSUME NEW k \in Keys, Expire(k) PROVE TypeOK'
  BY <1>13 DEF TypeOK, Expire
<1>14. CASE UNCHANGED vars
  BY <1>14 DEF TypeOK, vars
<1>15. QED
  BY <1>1, <1>2, <1>3, <1>4, <1>5, <1>6, <1>7, <1>8, <1>9, <1>10, <1>11, <1>12, <1>13,
     <1>14 DEF Next, Step

\* The variables keep their types, and a request in progress holds a call of
\* the kind its next command is for.
THEOREM TypeCorrect == Spec => []TypeOK
BY InitType, NextType, PTL DEF Spec

-----------------------------------------------------------------------------
(* The schema.                                                             *)

LEMMA OutcomeIds ==
  ASSUME NEW d \in Database, NEW o \in Writes
  PROVE  RowIds(Outcome(d, o).db) \subseteq
           RowIds(d) \cup {i \in {o.id} : o.kind = "FolderCreate"}
<1>1. CASE o.kind = "FolderCreate"
  BY <1>1, OutcomeOf DEF FolderInsert, Failed, Done, RowIds, Database
<1>2. CASE o.kind = "FolderRename"
  <2> DEFINE renamed(f) == [f EXCEPT !.name = o.name]
             moved(t) == [t EXCEPT !.folder = o.name]
             hit == FolderMatches(d, o.id, o.user)
             follows(t) == \E f \in hit : Holds(t, f)
             after == FolderUpdate(d, o.id, o.user, o.name).db
  <2>1. \A f \in d.folders : renamed(f).id = f.id
    BY DEF Database, Folder
  <2>2. \A t \in d.torrents : moved(t).id = t.id
    BY DEF Database, Torrent
  <2>3. \/ after = d
        \/ /\ after.folders = (d.folders \ hit) \cup {renamed(f) : f \in hit}
           /\ after.torrents = {t \in d.torrents : ~follows(t)}
                                 \cup {moved(t) : t \in {s \in d.torrents : follows(s)}}
    BY DEF FolderUpdate, Failed, Done
  <2>4. hit \subseteq d.folders
    BY DEF FolderMatches
  <2> HIDE DEF hit, follows, after, renamed, moved
  <2>5. RowIds(after) \subseteq RowIds(d)
    <3>1. CASE after = d
      BY <3>1
    <3>2. CASE after # d
      <4>1. \A f \in after.folders : f \in d.folders \/ \E g \in hit : f = renamed(g)
        BY <2>3, <3>2
      <4>2. \A t \in after.torrents :
              t \in d.torrents \/ \E s \in d.torrents : t = moved(s)
        BY <2>3, <3>2
      <4>3. \A f \in after.folders : \E g \in d.folders : f.id = g.id
        BY <2>1, <2>4, <4>1
      <4>4. \A t \in after.torrents : \E s \in d.torrents : t.id = s.id
        BY <2>2, <4>2
      <4>5. QED
        BY <4>3, <4>4 DEF RowIds
    <3>3. QED
      BY <3>1, <3>2
  <2>6. QED
    BY <1>2, <2>5, OutcomeOf DEF after
<1>3. CASE o.kind = "FolderDelete"
  BY <1>3, OutcomeOf DEF FolderDeleteRows, Failed, Done, RowIds, Database
<1>4. CASE o.kind = "TorrentCreate"
  BY <1>4, TorrentCreateFails DEF Failed
<1>5. CASE o.kind = "TorrentUpdate"
  <2> DEFINE set(t) == [t EXCEPT !.status = IF o.status = Blank THEN @ ELSE o.status,
                                 !.folder = IF o.name = Blank THEN @ ELSE o.name]
             hit == TorrentMatches(d, o.id, o.user)
             after == TorrentUpdateRows(d, o.id, o.user, o.status, o.name).db
  <2>1. \A t \in d.torrents : set(t).id = t.id
    BY DEF Database, Torrent
  <2>2. \/ after = d
        \/ /\ after.folders = d.folders
           /\ after.torrents = (d.torrents \ hit) \cup {set(t) : t \in hit}
    BY DEF TorrentUpdateRows, Failed, Done, Database
  <2>3. hit \subseteq d.torrents
    BY DEF TorrentMatches
  <2> HIDE DEF hit, after, set
  <2>4. RowIds(after) \subseteq RowIds(d)
    BY <2>1, <2>2, <2>3 DEF RowIds
  <2>5. QED
    BY <1>5, <2>4, OutcomeOf DEF after
<1>6. CASE o.kind = "TorrentDelete"
  BY <1>6, OutcomeOf DEF TorrentDeleteRows, Failed, Done, RowIds, Database
<1>7. QED
  BY <1>1, <1>2, <1>3, <1>4, <1>5, <1>6, WriteFields

Creates(r) == pc[r] = "exec" /\ op[r].kind = "FolderCreate"

\* SchemaKept with what makes it inductive: the id of a FolderCreate that is
\* still to run is its own, and in no row.
SchemaInv ==
  /\ SchemaKept
  /\ \A r \in Requests : Creates(r) => op[r].id \in issued \ RowIds(db)
  /\ \A r, s \in Requests : Creates(r) /\ Creates(s) /\ op[r].id = op[s].id => r = s

\* A statement of request r, whatever becomes of r afterwards.
LEMMA CommitKeepsSchema ==
  ASSUME TypeOK, SchemaInv, NEW r \in Requests, pc[r] = "exec",
         Commit(Outcome(db, op[r]).db), UNCHANGED issued,
         \A s \in Requests \ {r} : pc'[s] = pc[s] /\ op'[s] = op[s],
         pc'[r] # "exec"
  PROVE  SchemaInv'
<1>1. op[r] \in Writes /\ db \in Database
  BY DEF TypeOK
<1>2. RowIds(db') \subseteq RowIds(db) \cup {i \in {op[r].id} : Creates(r)}
  BY <1>1, OutcomeIds DEF Commit, Creates
<1>3. SchemaHolds(db')
  <2>1. op[r].kind = "FolderCreate" => op[r].id \notin {f.id : f \in db.folders}
    BY DEF SchemaInv, Creates, RowIds
  <2>2. QED
    BY <1>1, <2>1, OutcomeKeepsSchema DEF Commit, SchemaInv, SchemaKept
<1>4. \A s \in Requests : Creates(s)' => s # r /\ Creates(s) /\ op'[s] = op[s]
  BY DEF Creates
<1>5. QED
  BY <1>2, <1>3, <1>4 DEF SchemaInv, SchemaKept

\* A step that runs no statement and starts no call.
LEMMA OthersKeepSchema ==
  ASSUME SchemaInv, UNCHANGED <<db, issued>>,
         \A r \in Requests : Creates(r)' => Creates(r) /\ op'[r] = op[r]
  PROVE  SchemaInv'
BY DEF SchemaInv, SchemaKept

LEMMA InitSchema == Init => SchemaInv
BY ConstantsAssumption DEF Init, SchemaInv, SchemaKept, Creates

LEMMA NextSchema == TypeOK /\ SchemaInv /\ [Next]_vars => SchemaInv'
<1> SUFFICES ASSUME TypeOK, SchemaInv, [Next]_vars PROVE SchemaInv'
  OBVIOUS
<1>1. ASSUME NEW r \in Requests, Receive(r) PROVE SchemaInv'
  <2>1. PICK o \in Reads \cup Writes :
          /\ op' = [op EXCEPT ![r] = o]
          /\ pc' \in {[pc EXCEPT ![r] = "lookup"], [pc EXCEPT ![r] = "exec"]}
          /\ \/ UNCHANGED issued /\ o.kind # "FolderCreate"
             \/ issued' = issued \cup {o.id} /\ o.id \notin issued
    BY <1>1, ReadFields DEF Receive, Goto
  <2>2. \A s \in Requests : s # r => (Creates(s)' <=> Creates(s)) /\ op'[s] = op[s]
    BY <2>1 DEF Creates, TypeOK
  <2>3. Creates(r)' => op'[r] = o /\ o.id \in issued' \ issued
    BY <2>1 DEF Creates, TypeOK
  <2>4. QED
    BY <1>1, <2>1, <2>2, <2>3 DEF SchemaInv, SchemaKept, Receive
<1>2. ASSUME NEW r \in Requests, Exec(r) PROVE SchemaInv'
  BY <1>2, CommitKeepsSchema DEF TypeOK, Exec, dbFinalizeExec, Reply, Goto
<1>3. ASSUME NEW r \in Requests, LoseDb(r) PROVE SchemaInv'
  <2>1. CASE UNCHANGED <<db, past>>
    BY <1>3, <2>1, OthersKeepSchema DEF TypeOK, LoseDb, Reply, Goto, Creates
  <2>2. CASE pc[r] = "exec" /\ Commit(Outcome(db, op[r]).db)
    BY <1>3, <2>2, CommitKeepsSchema DEF TypeOK, LoseDb, Reply, Goto
  <2>3. QED
    BY <1>3, <2>1, <2>2 DEF LoseDb
<1>4. ASSUME NEW r \in Requests,
             Lookup(r) \/ Query(r) \/ Store(r) \/ SetTTL(r) \/ Register(r)
               \/ Invalidate(r) \/ LoseRedis(r)
      PROVE  SchemaInv'
  <2>1. /\ UNCHANGED <<db, issued>>
        /\ \E s \in {"ok", "error", "query", "store", "expire", "register"} :
             pc' = [pc EXCEPT ![r] = s]
        /\ \A q \in Requests \ {r} : op'[q] = op[q]
    BY <1>4 DEF TypeOK, Lookup, Query, Store, SetTTL, Register, Invalidate, LoseRedis,
                Deliver, Reply, Goto
  <2>2. QED
    BY <2>1, OthersKeepSchema DEF TypeOK, Creates
<1>5. CASE Crash
  BY <1>5, OthersKeepSchema DEF Crash, Creates, Busy, Replies
<1>6. CASE Flush \/ UNCHANGED vars \/ \E k \in Keys : Expire(k)
  BY <1>6, OthersKeepSchema DEF Flush, Expire, vars, Creates
<1>7. QED
  BY <1>1, <1>2, <1>3, <1>4, <1>5, <1>6 DEF Next, Step

\* The constraints of schema.sql hold whatever the order of the statements, and
\* every row has an id made for it.
THEOREM SchemaCorrect == Spec => []SchemaKept
<1>1. SchemaInv => SchemaKept
  BY DEF SchemaInv
<1>2. QED
  BY <1>1, InitType, NextType, InitSchema, NextSchema, PTL DEF Spec

LEMMA ArgsOfCall ==
  ASSUME NEW q
  PROVE  /\ q.kind = "TorrentGetByFolder" => ArgsOf(q) = <<q.user, q.name>>
         /\ q.kind = "TorrentGet"         => ArgsOf(q) = <<q.id, q.user>>
         /\ q.kind \in {"FolderGetAll", "TorrentGetAll"} => ArgsOf(q) = <<q.user>>
<1>1. q.kind = "FolderGetAll" => ArgsOf(q) = <<q.user>>
  BY Zenon DEF ArgsOf
<1>2. q.kind = "TorrentGetAll" => ArgsOf(q) = <<q.user>>
  BY Zenon DEF ArgsOf
<1>3. q.kind = "TorrentGetByFolder" => ArgsOf(q) = <<q.user, q.name>>
  BY Zenon DEF ArgsOf
<1>4. q.kind = "TorrentGet" => ArgsOf(q) = <<q.id, q.user>>
  BY Zenon DEF ArgsOf
<1>5. QED
  BY <1>1, <1>2, <1>3, <1>4

\* A read is what its fields say.
LEMMA ReadIsCall ==
  ASSUME NEW q \in Reads
  PROVE  q = Call(q.kind, q.user, q.id, q.name, Blank)
<1>1. PICK u \in Users : q \in ReadCalls(u)
  BY DEF Reads
<1>2. QED
  BY <1>1 DEF ReadCalls, Call

\* A cache key tells its read.
LEMMA KeyTellsRead ==
  ASSUME NEW p \in Reads, NEW q \in Reads, KeyOf(p) = KeyOf(q)
  PROVE  p = q
<1>1. p.kind = q.kind /\ ArgsOf(p) = ArgsOf(q)
  BY DEF KeyOf, cacheMakeKeyFromQuery
<1>2. p.user = q.user /\ p.id = q.id /\ p.name = q.name
  BY <1>1, ReadFields, ArgsOfCall
<1>3. QED
  BY <1>1, <1>2, ReadIsCall

-----------------------------------------------------------------------------
(* Past answers.                                                           *)

\* CachedIsPast with what makes it inductive: the answers in the hands of a
\* request and the present ones are past ones too.
PastInv ==
  /\ CachedIsPast
  /\ \A r \in Requests :
       pc[r] \in {"store", "expire", "register"} => got[r].bytes \in past[op[r]]
  /\ \A q \in Reads : Answers(db, q) \subseteq past[q]

LEMMA InitPast == Init => PastInv
BY DEF Init, PastInv, CachedIsPast

\* No step takes an answer out of the past, and the present is added to it.
LEMMA PastGrows ==
  ASSUME TypeOK, PastInv, [Next]_vars
  PROVE  \A q \in Reads : past[q] \subseteq past'[q] /\ Answers(db', q) \subseteq past'[q]
<1>1. \/ UNCHANGED <<db, past>>
      \/ \E d : Commit(d)
  BY DEF Next, Step, Receive, Lookup, Query, Store, SetTTL, Register, Exec, Invalidate,
         LoseRedis, LoseDb, Crash, Flush, Expire, vars
<1>2. QED
  BY <1>1 DEF Commit, PastInv, TypeOK

\* Bytes and ETags come into the cache by a Store.
LEMMA CacheSteps ==
  ASSUME TypeOK, [Next]_vars
  PROVE  \/ \E r \in Requests : Store(r)
         \/ \A k \in DOMAIN cache' : /\ k \in DOMAIN cache
                                    /\ cache'[k].bytes = cache[k].bytes
                                    /\ cache'[k].etag = cache[k].etag
<1> DEFINE Kept == \A k \in DOMAIN cache' : /\ k \in DOMAIN cache
                                           /\ cache'[k].bytes = cache[k].bytes
                                           /\ cache'[k].etag = cache[k].etag
<1>1. ASSUME NEW r \in Requests, SetTTL(r) PROVE Kept
  BY <1>1 DEF SetTTL, TypeOK, Entry
<1>2. ASSUME NEW r \in Requests, Invalidate(r) \/ LoseRedis(r) PROVE Kept
  <2>1. UNCHANGED cache \/ Evict(HintOf(op[r]))
    BY <1>2 DEF Invalidate, LoseRedis
  <2>2. QED
    BY <2>1 DEF Evict
<1>3. CASE Flush
  <2>1. DOMAIN cache' = {}
    BY <1>3 DEF Flush
  <2>2. QED
    BY <2>1
<1>4. ASSUME NEW k \in Keys, Expire(k) PROVE Kept
  BY <1>4 DEF Expire
<1>5. CASE UNCHANGED cache
  BY <1>5
<1>6. QED
  BY <1>1, <1>2, <1>3, <1>4, <1>5 DEF Next, Step, Receive, Lookup, Query, Register, Exec, LoseDb,
                                Crash, vars

LEMMA NextPast == TypeOK /\ PastInv /\ [Next]_vars => PastInv'
<1> SUFFICES ASSUME TypeOK, PastInv, [Next]_vars PROVE PastInv'
  OBVIOUS
<1>p. \A q \in Reads : past[q] \subseteq past'[q] /\ Answers(db', q) \subseteq past'[q]
  BY PastGrows
<1>1. CachedIsPast'
  <2> SUFFICES ASSUME NEW q \in Reads
               PROVE  /\ KeyOf(q) \in DOMAIN cache' => cache'[KeyOf(q)].bytes \in past'[q]
                      /\ \A d \in delivered' : d.key = KeyOf(q) => d.bytes \in past'[q]
    BY DEF CachedIsPast
  <2>1. ASSUME NEW r \in Requests, Store(r)
        PROVE  KeyOf(q) \in DOMAIN cache' => cache'[KeyOf(q)].bytes \in past'[q]
    <3>1. op[r] \in Reads /\ got[r].bytes \in past[op[r]]
      BY <2>1 DEF Store, TypeOK, PastInv
    <3>2. CASE KeyOf(q) = KeyOf(op[r])
      BY <1>p, <2>1, <3>1, <3>2, KeyTellsRead DEF Store
    <3>3. CASE KeyOf(q) # KeyOf(op[r])
      BY <1>p, <2>1, <3>3 DEF Store, PastInv, CachedIsPast
    <3>4. QED
      BY <3>2, <3>3
  <2>2. ASSUME \A k \in DOMAIN cache' :
                 k \in DOMAIN cache /\ cache'[k].bytes = cache[k].bytes
        PROVE  KeyOf(q) \in DOMAIN cache' => cache'[KeyOf(q)].bytes \in past'[q]
    BY <1>p, <2>2 DEF PastInv, CachedIsPast
  <2>3. \/ \E r \in Requests : Store(r)
        \/ \A k \in DOMAIN cache' : k \in DOMAIN cache /\ cache'[k].bytes = cache[k].bytes
    BY CacheSteps
  <2>4. ASSUME NEW d \in delivered', d.key = KeyOf(q), d \notin delivered
        PROVE  d.bytes \in past'[q]
    <3>1. PICK r \in Requests : Lookup(r) \/ Register(r)
      BY <2>4 DEF Next, Step, Receive, Query, Store, SetTTL, Exec, Invalidate,
           LoseRedis, LoseDb, Crash, Flush, Expire, vars
    <3>2. op[r] \in Reads
      BY <3>1 DEF TypeOK, Lookup, Register
    <3>3. d.key = KeyOf(op[r]) /\ q = op[r]
      BY <2>4, <3>1, <3>2, KeyTellsRead DEF Lookup, Register, Deliver
    <3>4. CASE Lookup(r)
      BY <1>p, <2>4, <3>2, <3>3, <3>4 DEF Lookup, Deliver, PastInv, CachedIsPast
    <3>5. CASE Register(r)
      BY <1>p, <2>4, <3>2, <3>3, <3>5 DEF Register, Deliver, PastInv
    <3>6. QED
      BY <3>1, <3>4, <3>5
  <2>5. QED
    BY <1>p, <2>1, <2>2, <2>3, <2>4 DEF PastInv, CachedIsPast
<1>2. ASSUME NEW r \in Requests, pc'[r] \in {"store", "expire", "register"}
      PROVE  got'[r].bytes \in past'[op'[r]]
  <2>1. CASE Query(r)
    BY <1>2, <1>p, <2>1 DEF TypeOK, PastInv, Query, Goto, Reply
  <2>2. CASE ~Query(r)
    <3> DEFINE Kept == /\ pc[r] \in {"store", "expire", "register"}
                       /\ got'[r].bytes = got[r].bytes /\ op'[r] = op[r]
    <3>1. Kept
      <4>1. CASE Crash \/ Flush \/ UNCHANGED vars \/ \E k \in Keys : Expire(k)
        BY <1>2, <4>1 DEF Crash, Flush, Expire, vars, Busy, Replies, TypeOK
      <4>2. ASSUME NEW s \in Requests,
                   Receive(s) \/ Lookup(s) \/ Exec(s) \/ Invalidate(s) \/ LoseRedis(s)
                     \/ LoseDb(s) \/ Register(s)
            PROVE  Kept
        <5>1. /\ pc' \in {[pc EXCEPT ![s] = x] : x \in {"ok", "error", "badRequest",
                              "lookup", "query", "exec", "invalidate"}}
              /\ \A t \in Requests \ {s} : op'[t] = op[t] /\ got'[t] = got[t]
          BY <4>2 DEF Receive, Lookup, Exec, dbFinalizeExec, Invalidate, LoseRedis, LoseDb,
                      Register, Deliver, Reply, Goto, TypeOK
        <5>2. QED
          BY <1>2, <5>1 DEF TypeOK
      <4>3. ASSUME NEW s \in Requests, Store(s) \/ SetTTL(s)
            PROVE  Kept
        BY <1>2, <4>3 DEF Store, SetTTL, Goto, TypeOK
      <4>4. ASSUME NEW s \in Requests, s # r, Query(s)
            PROVE  Kept
        BY <1>2, <4>4 DEF Query, Reply, Goto, TypeOK
      <4>5. QED
        BY <2>2, <4>1, <4>2, <4>3, <4>4 DEF Next, Step
    <3>2. op[r] \in Reads
      BY <3>1 DEF TypeOK
    <3>3. QED
      BY <1>p, <3>1, <3>2 DEF PastInv
  <2>3. QED
    BY <2>1, <2>2
<1>3. QED
  BY <1>p, <1>1, <1>2 DEF PastInv

\* The cache and the clients only ever hold an answer that the same read had.
THEOREM AnswersArePast == Spec => []CachedIsPast
<1>1. PastInv => CachedIsPast
  BY DEF PastInv
<1>2. QED
  BY <1>1, InitType, NextType, InitPast, NextPast, PTL DEF Spec

-----------------------------------------------------------------------------
(* ETags.                                                                  *)

\* The versions of answers there are: cached, in the hands of a request that
\* has stored one, or delivered.
Version(k, b, e) == [key |-> k, bytes |-> b, etag |-> e]

Versions ==
  {Version(k, cache[k].bytes, cache[k].etag) : k \in DOMAIN cache}
    \cup {Version(KeyOf(op[r]), got[r].bytes, got[r].etag) :
            r \in {s \in Requests : pc[s] \in {"expire", "register"}}}
    \cup delivered

ETagInv == \A v, w \in Versions : v.etag \in 1..fills /\ (v.etag = w.etag => v = w)

LEMMA InitETag == Init => ETagInv
<1> SUFFICES ASSUME Init PROVE Versions = {}
  BY DEF ETagInv
<1>1. DOMAIN cache = {} /\ delivered = {} /\ \A r \in Requests : pc[r] = "idle"
  BY DEF Init
<1>2. QED
  BY <1>1 DEF Versions

\* Only a Store makes a version: with the next ETag.
LEMMA VersionSteps ==
  ASSUME TypeOK, [Next]_vars
  PROVE  \/ UNCHANGED fills /\ Versions' \subseteq Versions
         \/ /\ fills' = fills + 1
            /\ \E k, b : Versions' \subseteq Versions \cup {Version(k, b, fills + 1)}
<1> DEFINE Old  == UNCHANGED fills /\ Versions' \subseteq Versions
           Made == /\ fills' = fills + 1
                   /\ \E k, b : Versions' \subseteq Versions \cup {Version(k, b, fills + 1)}
           InHand == {r \in Requests : pc[r] \in {"expire", "register"}}
           Held(r) == Version(KeyOf(op[r]), got[r].bytes, got[r].etag)
           Cached(k) == Version(k, cache[k].bytes, cache[k].etag)
<1>1. ASSUME NEW r \in Requests, Store(r) PROVE Made
  <2> DEFINE new == Version(KeyOf(op[r]), got[r].bytes, fills + 1)
  <2>1. \A k \in DOMAIN cache' : Cached(k)' = new \/ (k \in DOMAIN cache /\ Cached(k)' = Cached(k))
    <3> SUFFICES ASSUME NEW k \in DOMAIN cache'
                 PROVE  Cached(k)' = new \/ (k \in DOMAIN cache /\ Cached(k)' = Cached(k))
      OBVIOUS
    <3>1. CASE k = KeyOf(op[r])
      <4>1. cache'[k].bytes = got[r].bytes /\ cache'[k].etag = fills + 1
        BY <1>1, <3>1 DEF Store, cacheMakeEtag, TypeOK
      <4>2. QED
        BY <3>1, <4>1 DEF Version
    <3>2. CASE k # KeyOf(op[r])
      <4>1. k \in DOMAIN cache /\ cache'[k] = cache[k]
        BY <1>1, <3>2 DEF Store
      <4>2. QED
        BY <4>1
    <3>3. QED
      BY <3>1, <3>2
  <2>2. \A s \in InHand' : Held(s)' = new \/ (s \in InHand /\ Held(s)' = Held(s))
    BY <1>1 DEF Store, Goto, cacheMakeEtag, TypeOK, Version
  <2>3. UNCHANGED delivered
    BY <1>1 DEF Store
  <2>4. Versions' \subseteq Versions \cup {new}
    BY <2>1, <2>2, <2>3 DEF Versions
  <2>5. QED
    BY <1>1, <2>4 DEF Store
<1>2. ASSUME NEW r \in Requests, Lookup(r) \/ Register(r) PROVE Old
  <2>1. InHand' \subseteq InHand /\ \A s \in InHand' : Held(s)' = Held(s)
    BY <1>2 DEF Lookup, Register, Deliver, Reply, Goto, TypeOK, Replies
  <2>2. delivered' \subseteq Versions
    BY <1>2 DEF Lookup, Register, Deliver, Versions, Version
  <2>3. UNCHANGED <<cache, fills>>
    BY <1>2 DEF Lookup, Register
  <2>4. QED
    BY <2>1, <2>2, <2>3 DEF Versions
<1>3. ASSUME UNCHANGED <<fills, delivered>>, ~\E r \in Requests : Store(r),
             InHand' \subseteq InHand, \A s \in InHand' : Held(s)' = Held(s)
      PROVE  Old
  <2>1. \A k \in DOMAIN cache' : k \in DOMAIN cache /\ Cached(k)' = Cached(k)
    BY <1>3, CacheSteps DEF Version
  <2>2. QED
    BY <1>3, <2>1 DEF Versions
<1>4. ASSUME NEW r \in Requests, ~\E s \in Requests : Store(s),
             Receive(r) \/ Query(r) \/ SetTTL(r) \/ Exec(r) \/ Invalidate(r)
               \/ LoseRedis(r) \/ LoseDb(r)
      PROVE  Old
  <2>1. UNCHANGED <<fills, delivered>>
    BY <1>4 DEF Receive, Query, SetTTL, Exec, Invalidate, LoseRedis, LoseDb
  <2>2. InHand' \subseteq InHand /\ \A s \in InHand' : Held(s)' = Held(s)
    <3>1. CASE SetTTL(r)
      BY <3>1 DEF SetTTL, Goto, TypeOK
    <3>2. CASE ~SetTTL(r)
      <4>1. /\ pc' \in {[pc EXCEPT ![r] = x] : x \in Replies \cup {"lookup", "query",
                          "store", "exec", "invalidate"}}
            /\ \A s \in Requests \ {r} : op'[s] = op[s] /\ got'[s] = got[s]
        BY <1>4, <3>2 DEF Receive, Query, Exec, dbFinalizeExec, Invalidate, LoseRedis,
                          LoseDb, Reply, Goto, TypeOK, Replies
      <4>2. QED
        BY <4>1 DEF TypeOK, Replies
    <3>3. QED
      BY <3>1, <3>2
  <2>3. QED
    BY <1>3, <1>4, <2>1, <2>2
<1>5. CASE Crash
  <2>1. UNCHANGED <<fills, cache, delivered>> /\ InHand' = {}
    BY <1>5 DEF Crash, Busy, Replies
  <2>2. QED
    BY <2>1 DEF Versions
<1>6. CASE Flush
  <2>1. DOMAIN cache' = {} /\ UNCHANGED <<fills, pc, op, got, delivered>>
    BY <1>6 DEF Flush
  <2>2. QED
    BY <2>1 DEF Versions
<1>7. ASSUME NEW k \in Keys, Expire(k) PROVE Old
  <2>1. /\ UNCHANGED <<fills, pc, op, got, delivered>>
        /\ \A l \in DOMAIN cache' : l \in DOMAIN cache /\ Cached(l)' = Cached(l)
    BY <1>7 DEF Expire
  <2>2. QED
    BY <2>1 DEF Versions
<1>8. CASE UNCHANGED vars
  BY <1>8 DEF vars, Versions
<1>9. QED
  BY <1>1, <1>2, <1>4, <1>5, <1>6, <1>7, <1>8 DEF Next, Step

LEMMA NextETag == TypeOK /\ ETagInv /\ [Next]_vars => ETagInv'
<1> SUFFICES ASSUME TypeOK, ETagInv, [Next]_vars PROVE ETagInv'
  OBVIOUS
<1>0. fills \in Nat
  BY DEF TypeOK
<1>1. CASE UNCHANGED fills /\ Versions' \subseteq Versions
  BY <1>1 DEF ETagInv
<1>2. CASE fills' = fills + 1 /\ \E k, b : Versions' \subseteq Versions \cup {Version(k, b, fills + 1)}
  <2>1. PICK new : new.etag = fills + 1 /\ Versions' \subseteq Versions \cup {new}
    BY <1>2 DEF Version
  <2>2. QED
    BY <1>0, <1>2, <2>1 DEF ETagInv
<1>3. QED
  BY <1>1, <1>2, VersionSteps

\* An ETag names one answer of one read, wherever it is.
THEOREM ETagsIdentify == Spec => []EtagIdentifiesBytes
<1>1. TypeOK /\ ETagInv => EtagIdentifiesBytes
  <2> SUFFICES ASSUME TypeOK, ETagInv PROVE EtagIdentifiesBytes
    OBVIOUS
  <2>1. \A k \in DOMAIN cache : Version(k, cache[k].bytes, cache[k].etag) \in Versions
    BY DEF Versions
  <2>2. delivered \subseteq Versions
    BY DEF Versions
  <2>3. ASSUME NEW k \in DOMAIN cache, NEW d \in delivered, cache[k].etag = d.etag
        PROVE  k = d.key /\ cache[k].bytes = d.bytes
    <3>1. Version(k, cache[k].bytes, cache[k].etag).etag = d.etag
      BY <2>3 DEF Version
    <3>2. Version(k, cache[k].bytes, cache[k].etag) = d
      BY <2>1, <2>2, <3>1 DEF ETagInv
    <3>3. QED
      BY <3>2 DEF Version
  <2>4. ASSUME NEW k \in DOMAIN cache, NEW l \in DOMAIN cache, cache[k].etag = cache[l].etag
        PROVE  k = l
    BY <2>1, <2>4 DEF ETagInv, Version
  <2>5. \A c, d \in delivered : c.etag = d.etag => c = d
    BY <2>2 DEF ETagInv
  <2>6. QED
    BY <2>3, <2>4, <2>5 DEF EtagIdentifiesBytes
<1>2. QED
  BY <1>1, InitType, NextType, InitETag, NextETag, PTL DEF Spec

-----------------------------------------------------------------------------
(* Every entry is accounted for.                                           *)

LEMMA InitEntries == Init => EntriesAccountedFor
<1>1. Init => DOMAIN cache = {}
  BY DEF Init
<1>2. QED
  BY <1>1 DEF EntriesAccountedFor

\* Steps after which an entry was there before, with its TTL, its registration
\* and the fill in progress for it.
LEMMA EntriesStay ==
  ASSUME EntriesAccountedFor,
         \A k \in DOMAIN cache' \ cut' :
           /\ k \in DOMAIN cache \ cut
           /\ cache[k].ttl => cache'[k].ttl
           /\ Filling(k, {"expire"}) => cache'[k].ttl \/ Filling(k, {"expire"})'
           /\ Filling(k, {"expire", "register"}) =>
                \/ \E n \in registered' : n[2] = k /\ n[1] \in RkeyOf(k)
                \/ Filling(k, {"expire", "register"})'
           /\ \A n \in registered : n[2] = k => n \in registered'
  PROVE  EntriesAccountedFor'
BY DEF EntriesAccountedFor

LEMMA NextEntries == TypeOK /\ EntriesAccountedFor /\ [Next]_vars => EntriesAccountedFor'
<1> SUFFICES ASSUME TypeOK, EntriesAccountedFor, [Next]_vars PROVE EntriesAccountedFor'
  OBVIOUS
<1> DEFINE Pending == {"expire", "register"}
<1>1. ASSUME NEW r \in Requests, Store(r) PROVE EntriesAccountedFor'
  <2> SUFFICES ASSUME NEW k \in DOMAIN cache' \ cut'
               PROVE  /\ cache'[k].ttl \/ Filling(k, {"expire"})'
                      /\ \/ \E n \in registered' : n[2] = k /\ n[1] \in RkeyOf(k)
                         \/ Filling(k, Pending)'
    BY DEF EntriesAccountedFor
  <2>1. CASE k = KeyOf(op[r])
    BY <1>1, <2>1 DEF Store, Goto, Filling, TypeOK
  <2>2. CASE k # KeyOf(op[r])
    <3>1. k \in DOMAIN cache \ cut /\ cache'[k] = cache[k]
      BY <1>1, <2>2 DEF Store
    <3>2. \A s \in {{"expire"}, Pending} : Filling(k, s) => Filling(k, s)'
      BY <1>1 DEF Store, Goto, Filling, TypeOK
    <3>3. UNCHANGED registered
      BY <1>1 DEF Store
    <3>4. QED
      BY <3>1, <3>2, <3>3 DEF EntriesAccountedFor
  <2>3. QED
    BY <2>1, <2>2
<1>2. ASSUME NEW r \in Requests, SetTTL(r) PROVE EntriesAccountedFor'
  <2>1. \A k \in DOMAIN cache' : /\ k \in DOMAIN cache
                                 /\ cache'[k].ttl = (cache[k].ttl \/ k = KeyOf(op[r]))
    BY <1>2 DEF SetTTL, TypeOK, Entry
  <2>2. \A k : Filling(k, {"expire"}) => k = KeyOf(op[r]) \/ Filling(k, {"expire"})'
    BY <1>2 DEF SetTTL, Goto, Filling, TypeOK
  <2>3. \A k : Filling(k, Pending) => Filling(k, Pending)'
    BY <1>2 DEF SetTTL, Goto, Filling, TypeOK
  <2>4. UNCHANGED <<registered, cut>>
    BY <1>2 DEF SetTTL
  <2>5. QED
    BY <2>1, <2>2, <2>3, <2>4, EntriesStay
<1>3. ASSUME NEW r \in Requests, pc[r] = "register", Added(r), UNCHANGED <<cache, cut>>,
             \A s \in Requests \ {r} : pc'[s] = pc[s] /\ op'[s] = op[s]
      PROVE  EntriesAccountedFor'
  <2>1. op[r] \in Reads
    BY <1>3 DEF TypeOK
  <2>2. \E n \in registered' : n[2] = KeyOf(op[r]) /\ n[1] \in RkeyOf(KeyOf(op[r]))
    <3> DEFINE rkey == cacheMakeInvalidateKey(HintOf(op[r]))
    <3>1. <<rkey, KeyOf(op[r])>> \in registered'
      BY <1>3 DEF Added
    <3>2. rkey \in RkeyOf(KeyOf(op[r]))
      BY <2>1 DEF RkeyOf
    <3> HIDE DEF rkey
    <3>3. QED
      BY <3>1, <3>2
  <2>3. \A k : Filling(k, {"expire"}) => Filling(k, {"expire"})'
    BY <1>3 DEF Filling
  <2>4. \A k : Filling(k, Pending) => k = KeyOf(op[r]) \/ Filling(k, Pending)'
    BY <1>3 DEF Filling
  <2>5. registered \subseteq registered'
    BY <1>3 DEF Added
  <2>6. QED
    BY <1>3, <2>2, <2>3, <2>4, <2>5, EntriesStay
<1>4. ASSUME NEW r \in Requests, Register(r) PROVE EntriesAccountedFor'
  BY <1>3, <1>4 DEF Register, Deliver, Reply, Goto, TypeOK
<1>5. ASSUME NEW r \in Requests, pc[r] \notin Pending, pc'[r] \notin Pending,
             \A s \in Requests \ {r} : pc'[s] = pc[s] /\ op'[s] = op[s],
             UNCHANGED cut,
             UNCHANGED <<cache, registered>> \/ Evict(HintOf(op[r]))
      PROVE  EntriesAccountedFor'
  <2>1. /\ \A k : Filling(k, {"expire"}) => Filling(k, {"expire"})'
        /\ \A k : Filling(k, Pending) => Filling(k, Pending)'
    BY <1>5 DEF Filling
  <2>2. \A k \in DOMAIN cache' : /\ k \in DOMAIN cache /\ cache'[k] = cache[k]
                                 /\ \A n \in registered : n[2] = k => n \in registered'
    BY <1>5 DEF Evict, Evicted
  <2>3. QED
    BY <1>5, <2>1, <2>2, EntriesStay
<1>6. ASSUME NEW r \in Requests,
             Receive(r) \/ Lookup(r) \/ Query(r) \/ Exec(r) \/ Invalidate(r) \/ LoseDb(r)
      PROVE  EntriesAccountedFor'
  <2>1. pc[r] \notin Pending /\ \A s \in Requests \ {r} : pc'[s] = pc[s] /\ op'[s] = op[s]
    BY <1>6 DEF Receive, Lookup, Query, Exec, Invalidate, LoseDb, Deliver, Reply, Goto,
                TypeOK, Busy, Replies
  <2>2. pc'[r] \notin Pending
    BY <1>6 DEF Receive, Lookup, Query, Exec, dbFinalizeExec, Invalidate, LoseDb, Deliver,
                Reply, Goto, TypeOK
  <2>3. UNCHANGED cut /\ (UNCHANGED <<cache, registered>> \/ Evict(HintOf(op[r])))
    BY <1>6 DEF Receive, Lookup, Query, Exec, Invalidate, LoseDb
  <2>4. QED
    BY <1>5, <2>1, <2>2, <2>3
<1>7. ASSUME NEW r \in Requests, LoseRedis(r) PROVE EntriesAccountedFor'
  <2>0. pc'[r] = "error" /\ \A s \in Requests \ {r} : pc'[s] = pc[s] /\ op'[s] = op[s]
    BY <1>7 DEF LoseRedis, Reply, Goto, TypeOK
  <2>1. CASE pc[r] \in {"lookup", "store", "invalidate"}
    BY <1>5, <1>7, <2>0, <2>1 DEF LoseRedis
  <2>2. CASE pc[r] = "register" /\ Added(r) /\ UNCHANGED <<cache, cut>>
    BY <1>3, <2>0, <2>2
  <2>3. CASE cut' = cut \cup {KeyOf(op[r])} /\ UNCHANGED <<cache, registered>>
    <3>1. \A k \in DOMAIN cache' \ cut' :
            /\ Filling(k, {"expire"}) => Filling(k, {"expire"})'
            /\ Filling(k, Pending) => Filling(k, Pending)'
      BY <2>0, <2>3 DEF Filling
    <3>2. QED
      BY <2>3, <3>1, EntriesStay
  <2>4. QED
    BY <1>7, <2>1, <2>2, <2>3 DEF LoseRedis
<1>8. CASE Crash
  <2>1. \A k \in DOMAIN cache' \ cut' : ~Filling(k, {"expire"}) /\ ~Filling(k, Pending)
    BY <1>8 DEF Crash, Filling
  <2>2. QED
    BY <1>8, <2>1, EntriesStay DEF Crash
<1>9. CASE Flush
  <2>1. DOMAIN cache' = {}
    BY <1>9 DEF Flush
  <2>2. QED
    BY <2>1, EntriesStay
<1>10. ASSUME NEW key \in Keys, Expire(key) PROVE EntriesAccountedFor'
  <2>1. \A k : /\ Filling(k, {"expire"}) => Filling(k, {"expire"})'
               /\ Filling(k, Pending) => Filling(k, Pending)'
    BY <1>10 DEF Expire, Filling
  <2>2. QED
    BY <1>10, <2>1, EntriesStay DEF Expire
<1>11. CASE UNCHANGED vars
  <2>1. \A k : /\ Filling(k, {"expire"}) => Filling(k, {"expire"})'
               /\ Filling(k, Pending) => Filling(k, Pending)'
    BY <1>11 DEF vars, Filling
  <2>2. QED
    BY <1>11, <2>1, EntriesStay DEF vars
<1>12. QED
  BY <1>1, <1>2, <1>4, <1>6, <1>7, <1>8, <1>9, <1>10, <1>11 DEF Next, Step

\* An entry that no fault left behind expires and can be found under the hint of
\* its query, or a fill in progress will see to it.
THEOREM NoOrphanEntry == Spec => []EntriesAccountedFor
BY InitType, NextType, InitEntries, NextEntries, PTL DEF Spec

-----------------------------------------------------------------------------
(* Whose rows a statement changes.                                         *)

\* Tables that differ in rows of u only.
Leaves(d, e, u) ==
  /\ \A f : f \in d.folders \cup e.folders /\ f.owner_id # u =>
              (f \in d.folders <=> f \in e.folders)
  /\ \A t : t \in d.torrents \cup e.torrents /\ t.owner_id # u =>
              (t \in d.torrents <=> t \in e.torrents)

LEMMA OutcomeLeaves ==
  ASSUME NEW d \in Database, NEW o \in Writes
  PROVE  Leaves(d, Outcome(d, o).db, o.user)
<1>1. CASE o.kind = "FolderCreate"
  BY <1>1, OutcomeOf DEF FolderInsert, Failed, Done, Leaves, Database
<1>2. CASE o.kind = "FolderRename"
  <2> DEFINE renamed(f) == [f EXCEPT !.name = o.name]
             moved(t) == [t EXCEPT !.folder = o.name]
             hit == FolderMatches(d, o.id, o.user)
             follows(t) == \E f \in hit : Holds(t, f)
             after == FolderUpdate(d, o.id, o.user, o.name).db
  <2>1. hit \subseteq d.folders /\ \A f \in hit : f.owner_id = o.user
    BY DEF FolderMatches
  <2>2. \A t : follows(t) => t.owner_id = o.user
    BY <2>1 DEF Holds
  <2>3. \A f \in hit : renamed(f).owner_id = o.user
    BY <2>1 DEF Database, Folder
  <2>4. \A t \in d.torrents : follows(t) => moved(t).owner_id = o.user
    BY <2>2 DEF Database, Torrent
  <2>5. \/ after = d
        \/ /\ after.folders = (d.folders \ hit) \cup {renamed(f) : f \in hit}
           /\ after.torrents = {t \in d.torrents : ~follows(t)}
                                 \cup {moved(t) : t \in {s \in d.torrents : follows(s)}}
    BY DEF FolderUpdate, Failed, Done
  <2> HIDE DEF hit, follows, after, renamed, moved
  <2>6. Leaves(d, after, o.user)
    <3>1. CASE after = d
      BY <3>1 DEF Leaves
    <3>2. CASE after # d
      BY <2>1, <2>2, <2>3, <2>4, <2>5, <3>2 DEF Leaves
    <3>3. QED
      BY <3>1, <3>2
  <2>7. QED
    BY <1>2, <2>6, OutcomeOf DEF after
<1>3. CASE o.kind = "FolderDelete"
  <2> DEFINE hit == FolderMatches(d, o.id, o.user)
             after == FolderDeleteRows(d, o.id, o.user).db
  <2>1. \A x \in hit : x.owner_id = o.user
    BY DEF FolderMatches
  <2>2. \/ after = d
        \/ after.folders = d.folders \ hit /\ after.torrents = d.torrents
    BY DEF FolderDeleteRows, Failed, Done, Database
  <2> HIDE DEF hit, after
  <2>3. Leaves(d, after, o.user)
    BY <2>1, <2>2 DEF Leaves
  <2>4. QED
    BY <1>3, <2>3, OutcomeOf DEF after
<1>4. CASE o.kind = "TorrentCreate"
  BY <1>4, TorrentCreateFails DEF Failed, Leaves
<1>5. CASE o.kind = "TorrentUpdate"
  <2> DEFINE set(t) == [t EXCEPT !.status = IF o.status = Blank THEN @ ELSE o.status,
                                 !.folder = IF o.name = Blank THEN @ ELSE o.name]
             hit == TorrentMatches(d, o.id, o.user)
             after == TorrentUpdateRows(d, o.id, o.user, o.status, o.name).db
  <2>1. hit \subseteq d.torrents /\ \A t \in hit : t.owner_id = o.user
    BY DEF TorrentMatches
  <2>2. \A t \in hit : set(t).owner_id = o.user
    BY <2>1 DEF Database, Torrent
  <2>3. \/ after = d
        \/ /\ after.folders = d.folders
           /\ after.torrents = (d.torrents \ hit) \cup {set(t) : t \in hit}
    BY DEF TorrentUpdateRows, Failed, Done, Database
  <2> HIDE DEF hit, after, set
  <2>4. Leaves(d, after, o.user)
    BY <2>1, <2>2, <2>3 DEF Leaves
  <2>5. QED
    BY <1>5, <2>4, OutcomeOf DEF after
<1>6. CASE o.kind = "TorrentDelete"
  <2> DEFINE hit == TorrentMatches(d, o.id, o.user)
             after == TorrentDeleteRows(d, o.id, o.user).db
  <2>1. \A x \in hit : x.owner_id = o.user
    BY DEF TorrentMatches
  <2>2. \/ after = d
        \/ after.torrents = d.torrents \ hit /\ after.folders = d.folders
    BY DEF TorrentDeleteRows, Failed, Done, Database
  <2> HIDE DEF hit, after
  <2>3. Leaves(d, after, o.user)
    BY <2>1, <2>2 DEF Leaves
  <2>4. QED
    BY <1>6, <2>3, OutcomeOf DEF after
<1>7. QED
  BY <1>1, <1>2, <1>3, <1>4, <1>5, <1>6, WriteFields

\* A step that changes the tables is the statement of one request.
LEMMA StatementSteps ==
  ASSUME TypeOK, Next, db' # db
  PROVE  \E r \in Requests : /\ pc[r] = "exec" /\ pc'[r] # "exec" /\ op[r] \in Writes
                             /\ db' = Outcome(db, op[r]).db
<1>1. PICK r \in Requests : Exec(r) \/ LoseDb(r)
  BY DEF Next, Step, Receive, Lookup, Query, Store, SetTTL, Register, Invalidate, LoseRedis,
         Crash, Flush, Expire
<1>2. pc[r] = "exec" /\ db' = Outcome(db, op[r]).db
  BY <1>1 DEF Exec, LoseDb, Commit
<1>3. pc'[r] # "exec"
  BY <1>1, <1>2 DEF Exec, LoseDb, dbFinalizeExec, Reply, Goto, TypeOK
<1>4. QED
  BY <1>2, <1>3 DEF TypeOK

\* The rows of a user change only by a call of that user.
THEOREM RowsAreOwn == Spec => OwnRowsOnly
<1> DEFINE Own == \A u \in Users : RowsOf(db, u)' # RowsOf(db, u) =>
       \E r \in Requests : pc[r] = "exec" /\ op[r].user = u /\ pc'[r] # "exec"
<1>1. TypeOK /\ [Next]_vars => [Own]_vars
  <2> SUFFICES ASSUME TypeOK, Next, NEW u \in Users, RowsOf(db, u)' # RowsOf(db, u)
               PROVE  \E r \in Requests : pc[r] = "exec" /\ op[r].user = u /\ pc'[r] # "exec"
    OBVIOUS
  <2>1. db' # db
    BY DEF RowsOf
  <2>2. PICK r \in Requests : /\ pc[r] = "exec" /\ pc'[r] # "exec" /\ op[r] \in Writes
                              /\ db' = Outcome(db, op[r]).db
    BY <2>1, StatementSteps
  <2>3. Leaves(db, db', op[r].user)
    BY <2>2, OutcomeLeaves DEF TypeOK
  <2>4. CASE op[r].user # u
    BY <2>3, <2>4 DEF Leaves, RowsOf
  <2>5. QED
    BY <2>2, <2>4
<1>2. QED
  BY <1>1, InitType, NextType, PTL DEF Spec, OwnRowsOnly

\* The ids of the torrents after a statement.
LEMMA OutcomeTorrents ==
  ASSUME NEW d \in Database, SchemaHolds(d), NEW o \in Writes,
         {t.id : t \in Outcome(d, o).db.torrents} # {t.id : t \in d.torrents}
  PROVE  /\ o.kind = "TorrentDelete"
         /\ {t.id : t \in Outcome(d, o).db.torrents} = {t.id : t \in d.torrents} \ {o.id}
<1> DEFINE ids(e) == {t.id : t \in e.torrents}
<1>1. CASE o.kind = "FolderRename"
  <2> DEFINE moved(t) == [t EXCEPT !.folder = o.name]
             hit == FolderMatches(d, o.id, o.user)
             follows(t) == \E f \in hit : Holds(t, f)
             after == FolderUpdate(d, o.id, o.user, o.name).db
  <2>1. \A t \in d.torrents : moved(t).id = t.id
    BY DEF Database, Torrent
  <2>2. \/ after = d
        \/ after.torrents = {t \in d.torrents : ~follows(t)}
                              \cup {moved(t) : t \in {s \in d.torrents : follows(s)}}
    BY DEF FolderUpdate, Failed, Done
  <2> HIDE DEF hit, follows, after, moved
  <2>3. ids(after) = ids(d)
    BY <2>1, <2>2
  <2>4. QED
    BY <1>1, <2>3, OutcomeOf DEF after
<1>2. CASE o.kind \in {"FolderCreate", "FolderDelete"}
  BY <1>2, OutcomeOf DEF FolderInsert, FolderDeleteRows, Failed, Done, Database
<1>3. CASE o.kind = "TorrentCreate"
  BY <1>3, TorrentCreateFails DEF Failed
<1>4. CASE o.kind = "TorrentUpdate"
  <2> DEFINE set(t) == [t EXCEPT !.status = IF o.status = Blank THEN @ ELSE o.status,
                                 !.folder = IF o.name = Blank THEN @ ELSE o.name]
             hit == TorrentMatches(d, o.id, o.user)
             after == TorrentUpdateRows(d, o.id, o.user, o.status, o.name).db
  <2>1. \A t \in d.torrents : set(t).id = t.id
    BY DEF Database, Torrent
  <2>2. after = d \/ after.torrents = (d.torrents \ hit) \cup {set(t) : t \in hit}
    BY DEF TorrentUpdateRows, Failed, Done, Database
  <2>3. hit \subseteq d.torrents
    BY DEF TorrentMatches
  <2> HIDE DEF hit, after, set
  <2>4. ids(after) = ids(d)
    BY <2>1, <2>2, <2>3
  <2>5. QED
    BY <1>4, <2>4, OutcomeOf DEF after
<1>5. CASE o.kind = "TorrentDelete"
  <2> DEFINE hit == TorrentMatches(d, o.id, o.user)
             after == TorrentDeleteRows(d, o.id, o.user).db
  <2>1. after.torrents = d.torrents \/ after.torrents = d.torrents \ hit
    BY DEF TorrentDeleteRows, Failed, Done, Database
  <2>2. hit = {} \/ hit = {t \in d.torrents : t.id = o.id}
    BY DEF TorrentMatches, SchemaHolds, UniqueIds
  <2>3. ids(after) = ids(d) \/ ids(after) = ids(d) \ {o.id}
    BY <2>1, <2>2
  <2>4. QED
    BY <1>5, <2>3, OutcomeOf
<1>6. QED
  BY <1>1, <1>2, <1>3, <1>4, <1>5, WriteFields

\* Torrents go by TorrentDelete, one at a time, and never come.
THEOREM TorrentsOnlyGo == Spec => TorrentsGoOnlyByDelete
<1> DEFINE Gone == TorrentIds' # TorrentIds =>
       \E r \in Requests : /\ pc[r] = "exec" /\ op[r].kind = "TorrentDelete"
                           /\ TorrentIds' = TorrentIds \ {op[r].id}
<1>1. TypeOK /\ SchemaInv /\ [Next]_vars => [Gone]_vars
  <2> SUFFICES ASSUME TypeOK, SchemaInv, Next, TorrentIds' # TorrentIds
               PROVE  \E r \in Requests : /\ pc[r] = "exec" /\ op[r].kind = "TorrentDelete"
                                          /\ TorrentIds' = TorrentIds \ {op[r].id}
    OBVIOUS
  <2>1. db' # db
    BY DEF TorrentIds
  <2>2. PICK r \in Requests : /\ pc[r] = "exec" /\ op[r] \in Writes
                              /\ db' = Outcome(db, op[r]).db
    BY <2>1, StatementSteps
  <2>3. db \in Database /\ SchemaHolds(db)
    BY DEF TypeOK, SchemaInv, SchemaKept
  <2>4. QED
    BY <2>2, <2>3, OutcomeTorrents DEF TorrentIds
<1>2. QED
  BY <1>1, InitType, NextType, InitSchema, NextSchema, PTL DEF Spec, TorrentsGoOnlyByDelete

-----------------------------------------------------------------------------
(* QueryCache implements ReadThrough.                                      *)

ShownReads == {q \in Reads : KeyOf(q) \in DOMAIN cache}

LEMMA InitRefines == Init => Promise!Init
<1> SUFFICES ASSUME Init PROVE Promise!Init
  OBVIOUS
<1>1. DOMAIN cache = {} /\ ShownReads = {}
  BY DEF Init, ShownReads
<1>2. Shown = << >>
  BY <1>1 DEF Shown, ShownReads
<1>3. QED
  BY <1>2 DEF Init, Promise!Init

\* The statement of a request is a Write.
LEMMA CommitRefines ==
  ASSUME TypeOK, SchemaInv, NEW r \in Requests, op[r] \in Writes, pc[r] = "exec",
         Commit(Outcome(db, op[r]).db), UNCHANGED cache
  PROVE  Promise!Write
<1>1. db \in Database
  BY DEF TypeOK
<1>2. Leaves(db, db', op[r].user)
  BY <1>1, OutcomeLeaves DEF Commit
<1>3. \A w \in Users \ {op[r].user} : RowsOf(db', w) = RowsOf(db, w)
  BY <1>2 DEF Leaves, RowsOf
<1>4. op[r].user \in Users
  BY WriteFields
<1>5. SchemaHolds(db')
  <2>1. op[r].kind = "FolderCreate" => op[r].id \notin {f.id : f \in db.folders}
    BY DEF SchemaInv, Creates, RowIds
  <2>2. QED
    BY <1>1, <2>1, OutcomeKeepsSchema DEF Commit, SchemaInv, SchemaKept
<1>6. UNCHANGED Shown
  BY DEF Shown
<1>7. QED
  BY <1>3, <1>4, <1>5, <1>6 DEF Promise!Write, Commit

\* HMSET is a Fill.
LEMMA StoreRefines ==
  ASSUME TypeOK, PastInv, NEW r \in Requests, Store(r)
  PROVE  Promise!Fill
<1>1. op[r] \in Reads /\ got[r].bytes \in past[op[r]]
  BY DEF Store, TypeOK, PastInv
<1>2. \A q \in Reads : KeyOf(q) = KeyOf(op[r]) => q = op[r]
  BY <1>1, KeyTellsRead
<1>3. DOMAIN cache' = DOMAIN cache \cup {KeyOf(op[r])}
  BY DEF Store
<1>4. ShownReads' = ShownReads \cup {op[r]}
  BY <1>1, <1>2, <1>3 DEF ShownReads
<1>5. \A q \in ShownReads' : cache'[KeyOf(q)].bytes =
                               IF q = op[r] THEN got[r].bytes ELSE cache[KeyOf(q)].bytes
  <2> SUFFICES ASSUME NEW q \in ShownReads'
               PROVE  cache'[KeyOf(q)].bytes =
                        IF q = op[r] THEN got[r].bytes ELSE cache[KeyOf(q)].bytes
    OBVIOUS
  <2>1. CASE q = op[r]
    BY <2>1, <1>3 DEF Store
  <2>2. CASE q # op[r]
    BY <2>2, <1>2, <1>3 DEF Store, ShownReads
  <2>3. QED
    BY <2>1, <2>2
<1>6. Shown' = [p \in DOMAIN Shown \cup {op[r]} |->
                  IF p = op[r] THEN got[r].bytes ELSE Shown[p]]
  <2>1. Shown  = [q \in ShownReads  |-> cache[KeyOf(q)].bytes]
    BY DEF Shown, ShownReads
  <2>2. Shown' = [q \in ShownReads' |-> cache'[KeyOf(q)].bytes]
    BY DEF Shown, ShownReads
  <2>3. QED
    BY <1>4, <1>5, <2>1, <2>2
<1>7. UNCHANGED <<db, past>>
  BY DEF Store
<1>8. QED
  BY <1>1, <1>6, <1>7 DEF Promise!Fill

\* A step that only takes entries away is a Drop.
LEMMA RemovalRefines ==
  ASSUME UNCHANGED <<db, past>>,
         \A k \in DOMAIN cache' : k \in DOMAIN cache /\ cache'[k].bytes = cache[k].bytes
  PROVE  Promise!Drop
<1>1. ShownReads' \subseteq ShownReads
  BY DEF ShownReads
<1>2. DOMAIN Shown = ShownReads
  BY DEF Shown, ShownReads
<1>3. Shown' = [q \in ShownReads' |-> Shown[q]]
  BY DEF Shown, ShownReads
<1>4. QED
  BY <1>1, <1>2, <1>3 DEF Promise!Drop

LEMMA NextRefines ==
  ASSUME TypeOK, SchemaInv, PastInv, [Next]_vars
  PROVE  Promise!Write \/ Promise!Fill \/ Promise!Drop \/ UNCHANGED <<db, past, Shown>>
<1>1. ASSUME NEW r \in Requests, Store(r) PROVE Promise!Fill
  BY <1>1, StoreRefines
<1>2. CASE ~\E r \in Requests : Store(r)
  <2>1. \A k \in DOMAIN cache' : k \in DOMAIN cache /\ cache'[k].bytes = cache[k].bytes
    BY <1>2, CacheSteps
  <2>2. CASE UNCHANGED <<db, past>>
    BY <2>1, <2>2, RemovalRefines
  <2>3. ASSUME NEW r \in Requests, Exec(r) \/ LoseDb(r) PROVE Promise!Write \/ Promise!Drop
    <3>1. UNCHANGED cache /\ (UNCHANGED <<db, past>> \/
            (pc[r] = "exec" /\ op[r] \in Writes /\ Commit(Outcome(db, op[r]).db)))
      BY <2>3 DEF Exec, LoseDb, TypeOK
    <3>2. CASE pc[r] = "exec" /\ op[r] \in Writes /\ Commit(Outcome(db, op[r]).db)
      BY <3>1, <3>2, CommitRefines
    <3>3. CASE UNCHANGED <<db, past>>
      BY <2>1, <3>3, RemovalRefines
    <3>4. QED
      BY <3>1, <3>2, <3>3
  <2>4. QED
    BY <1>2, <2>2, <2>3 DEF Next, Step, Receive, Lookup, Query, SetTTL, Register, Invalidate,
       LoseRedis, Crash, Flush, Expire, vars
<1>3. QED
  BY <1>1, <1>2

\* The detailed specification implements the abstract one.
THEOREM Refinement == Spec => ImplementsReadThrough
<1>1. TypeOK /\ SchemaInv /\ PastInv /\ [Next]_vars =>
        [Promise!Write \/ Promise!Fill \/ Promise!Drop]_<<db, past, Shown>>
  BY NextRefines
<1>2. QED
  BY <1>1, InitRefines, InitType, NextType, InitSchema, NextSchema, InitPast, NextPast, PTL
     DEF Spec, ImplementsReadThrough, Promise!Spec

-----------------------------------------------------------------------------
(* The bits of a counter.                                                    *)

Bit(i, j) == (i \div 2^j) % 2 = 1

LEMMA Powers ==
  /\ 2^0 = 1 /\ 2^1 = 2 /\ 2^2 = 4 /\ 2^3 = 8 /\ 2^4 = 16
  /\ \A b \in 5..15 : 2^b > 16
<1>1. 2^0 = 1 /\ 2^1 = 2 /\ 2^2 = 4 /\ 2^3 = 8 /\ 2^4 = 16
  OBVIOUS
<1>2. /\ 2^5 > 16 /\ 2^6 > 16 /\ 2^7 > 16 /\ 2^8 > 16 /\ 2^9 > 16 /\ 2^10 > 16
      /\ 2^11 > 16 /\ 2^12 > 16 /\ 2^13 > 16 /\ 2^14 > 16 /\ 2^15 > 16
  OBVIOUS
<1>3. \A b \in 5..15 : b \in {5, 6, 7, 8, 9, 10, 11, 12, 13, 14, 15}
  OBVIOUS
<1>4. QED
  BY <1>1, <1>2, <1>3

\* The position of the highest bit.
LEMMA HighestBit ==
  ASSUME NEW i \in 1..15
  PROVE  (CHOOSE b \in 0..i : 2^b <= i /\ i < 2^(b + 1))
           = IF i < 2 THEN 0 ELSE IF i < 4 THEN 1 ELSE IF i < 8 THEN 2 ELSE 3
<1> DEFINE top == IF i < 2 THEN 0 ELSE IF i < 4 THEN 1 ELSE IF i < 8 THEN 2 ELSE 3
           P(b) == 2^b <= i /\ i < 2^(b + 1)
<1>1. top \in 0..i /\ P(top)
  <2>1. CASE i < 2
    BY <2>1, Powers
  <2>2. CASE i >= 2 /\ i < 4
    BY <2>2, Powers
  <2>3. CASE i >= 4 /\ i < 8
    BY <2>3, Powers
  <2>4. CASE i >= 8
    BY <2>4, Powers
  <2>5. QED
    BY <2>1, <2>2, <2>3, <2>4
<1>2. ASSUME NEW b \in 0..i, P(b) PROVE b = top
  <2>1. b \in 0..15
    OBVIOUS
  <2>2. ~(b \in 5..15)
    <3> SUFFICES ASSUME b \in 5..15 PROVE FALSE
      OBVIOUS
    <3>1. 2^b > 16
      BY Powers
    <3>2. 2^b <= i
      BY <1>2
    <3>3. 2^b \in Int
      BY <2>1
    <3>4. QED
      BY <3>1, <3>2, <3>3
  <2>3. CASE b = 0
    BY <1>2, <2>3, Powers
  <2>4. CASE b = 1
    BY <1>2, <2>4, Powers
  <2>5. CASE b = 2
    BY <1>2, <2>5, Powers
  <2>6. CASE b = 3
    BY <1>2, <2>6, Powers
  <2>7. CASE b = 4
    BY <1>2, <2>7, Powers
  <2>8. QED
    BY <2>1, <2>2, <2>3, <2>4, <2>5, <2>6, <2>7
<1> HIDE DEF top, P
<1>3. (CHOOSE b \in 0..i : P(b)) = top
  BY <1>1, <1>2
<1>4. QED
  BY <1>3 DEF top, P

\* What the loop of subsets() reads of i, one bit after the other.
LEMMA BitsBelow ==
  ASSUME NEW i \in 1..15
  PROVE  /\ Bit(i, 0) <=> i % 2 = 1
         /\ Bit(i, 1) <=> (i \div 2) % 2 = 1
         /\ Bit(i, 2) <=> (i \div 4) % 2 = 1
         /\ Bit(i, 3) <=> i >= 8
BY Powers DEF Bit

\* SubsetAt takes the elements at the bits that are set.
LEMMA SubsetAtBits ==
  ASSUME NEW keys, NEW i \in 1..15
  PROVE  SubsetAt(keys, i) = {keys[j + 1] : j \in {j \in 0..3 : Bit(i, j)}}
<1> DEFINE top == IF i < 2 THEN 0 ELSE IF i < 4 THEN 1 ELSE IF i < 8 THEN 2 ELSE 3
<1>1. SubsetAt(keys, i) = {keys[j + 1] : j \in {j \in 0..top : Bit(i, j)}}
  BY HighestBit DEF SubsetAt, Bit
<1>2. \A j \in 0..3 : Bit(i, j) => j <= top
  <2>1. /\ i < 2 => ~Bit(i, 1) /\ ~Bit(i, 2) /\ ~Bit(i, 3)
        /\ i < 4 => ~Bit(i, 2) /\ ~Bit(i, 3)
        /\ i < 8 => ~Bit(i, 3)
    BY BitsBelow
  <2>2. QED
    BY <2>1
<1>3. {j \in 0..top : Bit(i, j)} = {j \in 0..3 : Bit(i, j)}
  BY <1>2
<1>4. QED
  BY <1>1, <1>3

\* For every choice of four bits there is a counter that has them.
LEMMA CounterOfBits ==
  ASSUME NEW a \in {0, 1}, NEW b \in {0, 1}, NEW c \in {0, 1}, NEW d \in {0, 1},
         a + b + c + d > 0
  PROVE  \E i \in 1..15 :
           /\ Bit(i, 0) <=> a = 1
           /\ Bit(i, 1) <=> b = 1
           /\ Bit(i, 2) <=> c = 1
           /\ Bit(i, 3) <=> d = 1
           /\ b + c + d = 0 => i < 2
           /\ c + d = 0 => i < 4
           /\ d = 0 => i < 8
<1> DEFINE i == a + 2 * b + 4 * c + 8 * d
<1>1. i \in 1..15
  OBVIOUS
<1>2. Bit(i, 0) <=> a = 1
  BY <1>1, BitsBelow
<1>3. Bit(i, 1) <=> b = 1
  BY <1>1, BitsBelow
<1>4. Bit(i, 2) <=> c = 1
  BY <1>1, BitsBelow
<1>5. Bit(i, 3) <=> d = 1
  BY <1>1, BitsBelow
<1>6. (b + c + d = 0 => i < 2) /\ (c + d = 0 => i < 4) /\ (d = 0 => i < 8)
  OBVIOUS
<1>7. QED
  BY <1>1, <1>2, <1>3, <1>4, <1>5, <1>6

-----------------------------------------------------------------------------
(* Subsets.                                                                  *)

\* The last value of the counter, by the length of the keys.
LEMMA LastCounter ==
  ASSUME NEW n \in 0..subsetsMaxSize
  PROVE  /\ n = 0 => 2^n - 1 = 0
         /\ n = 1 => 2^n - 1 = 1
         /\ n = 2 => 2^n - 1 = 3
         /\ n = 3 => 2^n - 1 = 7
         /\ n = 4 => 2^n - 1 = 15
         /\ n \in {0, 1, 2, 3, 4}
<1>1. n = 0 => 2^n - 1 = 0
  BY Powers
<1>2. n = 1 => 2^n - 1 = 1
  BY Powers
<1>3. n = 2 => 2^n - 1 = 3
  BY Powers
<1>4. n = 3 => 2^n - 1 = 7
  BY Powers
<1>5. n = 4 => 2^n - 1 = 15
  BY Powers
<1>6. n \in {0, 1, 2, 3, 4}
  BY DEF subsetsMaxSize
<1>7. QED
  BY <1>1, <1>2, <1>3, <1>4, <1>5, <1>6

\* subsets() on any keys short enough for it, of any elements.
THEOREM SubsetsOfShort ==
  ASSUME NEW S, NEW keys \in Seq(S), Len(keys) <= subsetsMaxSize
  PROVE  subsets(keys) = SUBSET Elements(keys)
<1> DEFINE n == Len(keys)
           last == 2^n - 1
<1> HIDE DEF n
<1>0. n \in Nat /\ n \in 0..subsetsMaxSize
  <2>1. n \in Nat /\ n <= subsetsMaxSize
    BY DEF n
  <2>2. QED
    BY <2>1 DEF subsetsMaxSize
<1>1. \/ n = 0 /\ last = 0
      \/ n = 1 /\ last = 1
      \/ n = 2 /\ last = 3
      \/ n = 3 /\ last = 7
      \/ n = 4 /\ last = 15
  BY <1>0, LastCounter
<1> HIDE DEF last
<1>2. ASSUME NEW i \in 1..last PROVE SubsetAt(keys, i) \subseteq Elements(keys)
  <2>1. i \in 1..15
    BY <1>1
  <2>2. /\ Bit(i, 0) => n >= 1
        /\ Bit(i, 1) => n >= 2
        /\ Bit(i, 2) => n >= 3
        /\ Bit(i, 3) => n >= 4
    <3>1. /\ i < 2 => ~Bit(i, 1) /\ ~Bit(i, 2) /\ ~Bit(i, 3)
          /\ i < 4 => ~Bit(i, 2) /\ ~Bit(i, 3)
          /\ i < 8 => ~Bit(i, 3)
      BY <2>1, BitsBelow
    <3>2. QED
      BY <1>1, <3>1
  <2>3. \A j \in 0..3 : Bit(i, j) => j + 1 \in 1..n
    BY <1>0, <2>2
  <2>4. \A j \in 0..3 : Bit(i, j) => keys[j + 1] \in Elements(keys)
    BY <2>3 DEF Elements, n
  <2>5. SubsetAt(keys, i) = {keys[j + 1] : j \in {j \in 0..3 : Bit(i, j)}}
    BY <2>1, SubsetAtBits
  <2>6. QED
    BY <2>4, <2>5
<1>3. ASSUME NEW T, T \subseteq Elements(keys), T # {}
      PROVE  \E i \in 1..last : T = SubsetAt(keys, i)
  <2> DEFINE In(j) == j < n /\ keys[j + 1] \in T
  <2>1. \A x \in T : \E j \in 0..3 : In(j) /\ x = keys[j + 1]
    <3> SUFFICES ASSUME NEW x \in T PROVE \E j \in 0..3 : In(j) /\ x = keys[j + 1]
      OBVIOUS
    <3>1. PICK k \in 1..n : x = keys[k]
      BY <1>3 DEF Elements, n
    <3>2. k - 1 \in 0..3 /\ (k - 1) + 1 = k /\ k - 1 < n
      BY <1>1, <3>1
    <3>3. QED
      BY <3>1, <3>2
  <2>2. In(0) \/ In(1) \/ In(2) \/ In(3)
    <3>1. PICK x : x \in T
      BY <1>3
    <3>2. PICK j \in 0..3 : In(j)
      BY <2>1, <3>1
    <3>3. j = 0 \/ j = 1 \/ j = 2 \/ j = 3
      OBVIOUS
    <3>4. QED
      BY <3>2, <3>3
  <2>3. /\ n <= 3 => ~In(3)
        /\ n <= 2 => ~In(2)
        /\ n <= 1 => ~In(1)
        /\ n # 0
    BY <1>0, <2>2
  <2>4. \A x : x \in T <=> \E j \in 0..3 : In(j) /\ x = keys[j + 1]
    BY <2>1
  <2> HIDE DEF In
  <2>5. \E i \in 1..15 :
          /\ Bit(i, 0) <=> In(0)
          /\ Bit(i, 1) <=> In(1)
          /\ Bit(i, 2) <=> In(2)
          /\ Bit(i, 3) <=> In(3)
          /\ ~In(1) /\ ~In(2) /\ ~In(3) => i < 2
          /\ ~In(2) /\ ~In(3) => i < 4
          /\ ~In(3) => i < 8
    <3>1. \A j : \E d \in {0, 1} : d = 1 <=> In(j)
      OBVIOUS
    <3>2. PICK a \in {0, 1} : a = 1 <=> In(0)
      BY <3>1
    <3>3. PICK b \in {0, 1} : b = 1 <=> In(1)
      BY <3>1
    <3>4. PICK c \in {0, 1} : c = 1 <=> In(2)
      BY <3>1
    <3>5. PICK d \in {0, 1} : d = 1 <=> In(3)
      BY <3>1
    <3>6. a + b + c + d > 0
      BY <2>2, <3>2, <3>3, <3>4, <3>5
    <3>7. PICK i \in 1..15 :
            /\ Bit(i, 0) <=> a = 1
            /\ Bit(i, 1) <=> b = 1
            /\ Bit(i, 2) <=> c = 1
            /\ Bit(i, 3) <=> d = 1
            /\ b + c + d = 0 => i < 2
            /\ c + d = 0 => i < 4
            /\ d = 0 => i < 8
      BY <3>6, CounterOfBits
    <3>8. QED
      BY <3>2, <3>3, <3>4, <3>5, <3>7
  <2>6. PICK i \in 1..15 :
          /\ \A j \in 0..3 : Bit(i, j) <=> In(j)
          /\ ~In(1) /\ ~In(2) /\ ~In(3) => i < 2
          /\ ~In(2) /\ ~In(3) => i < 4
          /\ ~In(3) => i < 8
    BY <2>5
  <2>7. {keys[j + 1] : j \in {j \in 0..3 : In(j)}} = T
    BY <2>4
  <2>8. SubsetAt(keys, i) = T
    BY <2>6, <2>7, SubsetAtBits
  <2>9. i <= last
    BY <1>1, <2>3, <2>6
  <2>10. QED
    BY <1>1, <2>8, <2>9
<1>4. \A T \in SUBSET Elements(keys) : T \in subsets(keys)
  BY <1>3 DEF subsets, last, n
<1>5. \A T \in subsets(keys) : T \in SUBSET Elements(keys)
  BY <1>2 DEF subsets, last, n
<1>6. QED
  BY <1>4, <1>5

\* The sorted list of the parameter names.
LEMMA ConcatKeys ==
  ASSUME NEW S, NEW l \in Seq(S), NEW m \in Seq(S)
  PROVE  /\ l \o m \in Seq(S) /\ Len(l \o m) = Len(l) + Len(m)
         /\ Elements(l \o m) = Elements(l) \cup Elements(m)
<1>1. l \o m \in Seq(S) /\ Len(l \o m) = Len(l) + Len(m)
  OBVIOUS
<1>2. Elements(l \o m) \subseteq Elements(l) \cup Elements(m)
  BY <1>1 DEF Elements
<1>3. Elements(l) \subseteq Elements(l \o m)
  BY <1>1 DEF Elements
<1>4. Elements(m) \subseteq Elements(l \o m)
  <2> SUFFICES ASSUME NEW k \in 1..Len(m) PROVE m[k] \in Elements(l \o m)
    BY DEF Elements
  <2>1. (l \o m)[Len(l) + k] = m[k] /\ Len(l) + k \in 1..Len(l \o m)
    BY <1>1
  <2>2. QED
    BY <2>1 DEF Elements
<1>5. QED
  BY <1>1, <1>2, <1>3, <1>4

LEMMA SortedKeys ==
  ASSUME NEW params, DOMAIN params \subseteq FieldNames
  PROVE  /\ sortedKeyList(params) \in Seq(FieldNames)
         /\ Elements(sortedKeyList(params)) = DOMAIN params
         /\ DOMAIN params # FieldNames => Len(sortedKeyList(params)) <= subsetsMaxSize
<1> DEFINE Kept(k) == IF k \in DOMAIN params THEN <<k>> ELSE << >>
<1>1. ASSUME NEW k \in FieldNames
      PROVE  /\ Kept(k) \in Seq(FieldNames) /\ Elements(Kept(k)) = DOMAIN params \cap {k}
             /\ Len(Kept(k)) = IF k \in DOMAIN params THEN 1 ELSE 0
  BY DEF Elements
<1> DEFINE l2 == Kept("Folder") \o Kept("ID")
           l3 == l2 \o Kept("InfoHash")
           l4 == l3 \o Kept("Name")
           l5 == l4 \o Kept("Status")
           K(k) == IF k \in DOMAIN params THEN 1 ELSE 0
<1>2. sortedKeyList(params) = l5
  BY DEF sortedKeyList, Sorted
<1>3. /\ "Folder" \in FieldNames /\ "ID" \in FieldNames /\ "InfoHash" \in FieldNames
      /\ "Name" \in FieldNames /\ "Status" \in FieldNames
  BY DEF FieldNames
<1> HIDE DEF Kept
<1>4. /\ l2 \in Seq(FieldNames) /\ Elements(l2) = DOMAIN params \cap {"Folder", "ID"}
      /\ Len(l2) = K("Folder") + K("ID")
  <2>1. Kept("Folder") \in Seq(FieldNames) /\ Kept("ID") \in Seq(FieldNames)
    BY <1>1, <1>3
  <2>2. /\ l2 \in Seq(FieldNames) /\ Len(l2) = Len(Kept("Folder")) + Len(Kept("ID"))
        /\ Elements(l2) = Elements(Kept("Folder")) \cup Elements(Kept("ID"))
    BY <2>1, ConcatKeys
  <2>3. QED
    BY <1>1, <1>3, <2>2
<1> HIDE DEF l2
<1>5. /\ l3 \in Seq(FieldNames) /\ Elements(l3) = DOMAIN params \cap {"Folder", "ID", "InfoHash"}
      /\ Len(l3) = K("Folder") + K("ID") + K("InfoHash")
  <2>1. Kept("InfoHash") \in Seq(FieldNames)
    BY <1>1, <1>3
  <2>2. /\ l3 \in Seq(FieldNames) /\ Len(l3) = Len(l2) + Len(Kept("InfoHash"))
        /\ Elements(l3) = Elements(l2) \cup Elements(Kept("InfoHash"))
    BY <1>4, <2>1, ConcatKeys
  <2>3. QED
    BY <1>1, <1>3, <1>4, <2>2
<1> HIDE DEF l3
<1>6. /\ l4 \in Seq(FieldNames)
      /\ Elements(l4) = DOMAIN params \cap {"Folder", "ID", "InfoHash", "Name"}
      /\ Len(l4) = K("Folder") + K("ID") + K("InfoHash") + K("Name")
  <2>1. Kept("Name") \in Seq(FieldNames)
    BY <1>1, <1>3
  <2>2. /\ l4 \in Seq(FieldNames) /\ Len(l4) = Len(l3) + Len(Kept("Name"))
        /\ Elements(l4) = Elements(l3) \cup Elements(Kept("Name"))
    BY <1>5, <2>1, ConcatKeys
  <2>3. QED
    BY <1>1, <1>3, <1>5, <2>2
<1> HIDE DEF l4
<1>7. /\ l5 \in Seq(FieldNames) /\ Elements(l5) = DOMAIN params \cap FieldNames
      /\ Len(l5) = K("Folder") + K("ID") + K("InfoHash") + K("Name") + K("Status")
  <2>1. Kept("Status") \in Seq(FieldNames)
    BY <1>1, <1>3
  <2>2. /\ l5 \in Seq(FieldNames) /\ Len(l5) = Len(l4) + Len(Kept("Status"))
        /\ Elements(l5) = Elements(l4) \cup Elements(Kept("Status"))
    BY <1>6, <2>1, ConcatKeys
  <2>3. QED
    BY <1>1, <1>3, <1>6, <2>2 DEF FieldNames
<1>8. DOMAIN params # FieldNames => \E k \in FieldNames : K(k) = 0
  OBVIOUS
<1>9. DOMAIN params # FieldNames => Len(l5) <= 4
  BY <1>7, <1>8 DEF FieldNames
<1>10. QED
  BY <1>2, <1>7, <1>9 DEF subsetsMaxSize

-----------------------------------------------------------------------------
(* Keys.                                                                     *)

\* The first of two sequences keeps its places.
LEMMA Lead ==
  ASSUME NEW h \in Seq(Pieces), NEW v \in Seq(Pieces), NEW i \in 1..Len(h)
  PROVE  h \o v \in Seq(Pieces) /\ Len(h \o v) >= Len(h) /\ (h \o v)[i] = h[i]
<1>1. Len(h) \in Nat /\ Len(v) \in Nat
  BY LenProperties
<1>2. h \o v \in Seq(Pieces) /\ Len(h \o v) = Len(h) + Len(v)
  BY ConcatProperties
<1>3. i \in 1..(Len(h) + Len(v)) /\ i <= Len(h)
  BY <1>1
<1>4. (h \o v)[i] = h[i]
  BY <1>3, ConcatProperties
<1>5. QED
  BY <1>1, <1>2, <1>4

\* A parameter starts with a "|", and a plain text holds none.
Starts(r) == r # << >> => r[1] = "|"

\* Two spellings of one text that start alike.
SpelledAlike(h, v, r, w, s) == (h \o v) \o r = (h \o w) \o s

\* A text that is cut where the same two parameters end is cut at one place.
LEMMA ValuesEndTogether ==
  ASSUME NEW h \in Seq(Pieces), NEW v \in Seq(Pieces), NEW w \in Seq(Pieces),
         NEW r \in Seq(Pieces), NEW s \in Seq(Pieces),
         Starts(r), Bare(w), SpelledAlike(h, v, r, w, s)
  PROVE  ~(Len(v) < Len(w))
<1> SUFFICES ASSUME Len(v) < Len(w) PROVE FALSE
  OBVIOUS
<1> DEFINE l == (h \o v) \o r
           i == Len(h) + Len(v) + 1
<1>0. l = (h \o w) \o s
  BY DEF SpelledAlike
<1>1. h \o v \in Seq(Pieces) /\ h \o w \in Seq(Pieces)
  OBVIOUS
<1>2. /\ Len(l) = Len(h) + Len(v) + Len(r)
      /\ Len(l) = Len(h) + Len(w) + Len(s)
  BY <1>0, <1>1
<1>3. Len(r) > 0 /\ i \in 1..Len(l)
  BY <1>2
<1>4. l[i] = "|"
  <2>1. l[i] = r[1]
    BY <1>1, <1>2, <1>3
  <2>2. r # << >>
    BY <1>3
  <2>3. QED
    BY <2>1, <2>2 DEF Starts
<1>5. l[i] = w[Len(v) + 1]
  <2>1. l[i] = (h \o w)[i]
    BY <1>0, <1>1, <1>2
  <2>2. QED
    BY <2>1
<1>6. Len(v) + 1 \in 1..Len(w)
  BY LenProperties
<1>7. QED
  BY <1>4, <1>5, <1>6 DEF Bare, Elements

LEMMA SameCut ==
  ASSUME NEW h \in Seq(Pieces), NEW v \in Seq(Pieces), NEW w \in Seq(Pieces),
         NEW r \in Seq(Pieces), NEW s \in Seq(Pieces),
         Starts(r), Bare(v), Starts(s), Bare(w), SpelledAlike(h, v, r, w, s)
  PROVE  v = w /\ r = s
<1>0. (h \o v) \o r = (h \o w) \o s
  BY DEF SpelledAlike
<1>1. Len(v) = Len(w)
  <2>1. ~(Len(v) < Len(w)) /\ ~(Len(w) < Len(v))
    <3>1. SpelledAlike(h, w, s, v, r)
      BY DEF SpelledAlike
    <3>2. QED
      BY <3>1, ValuesEndTogether
  <2>2. QED
    BY <2>1
<1>2. h \o v \in Seq(Pieces) /\ h \o w \in Seq(Pieces)
  OBVIOUS
<1>3. h \o v = h \o w
  <2>1. ASSUME NEW i \in 1..(Len(h) + Len(v)) PROVE (h \o v)[i] = (h \o w)[i]
    <3>1. ((h \o v) \o r)[i] = (h \o v)[i] /\ ((h \o w) \o s)[i] = (h \o w)[i]
      BY <1>1, <1>2
    <3>2. QED
      BY <1>0, <3>1
  <2>2. Len(h \o v) = Len(h) + Len(v) /\ Len(h \o w) = Len(h) + Len(w)
    BY ConcatProperties
  <2>3. Len(h \o w) = Len(h \o v)
    BY <1>1, <2>2
  <2>4. QED
    BY <1>2, <2>1, <2>2, <2>3, SeqEqual
<1>4. v = w
  BY <1>3, ConcatSimplifications
<1>5. (h \o v) \o r = (h \o v) \o s
  BY <1>0, <1>3
<1>6. r = s
  BY <1>2, <1>5, ConcatSimplifications
<1>7. QED
  BY <1>4, <1>6

\* What a parameter adds to a key.
Spelled(params, k) == IF k \in DOMAIN params THEN <<"|", k, "=">> \o params[k] ELSE << >>

\* The end of a key, or a parameter of one of the names in K.
Begins(rest, K) == rest # << >> => rest[1] = "|" /\ rest[2] \in K

PlainParams(p) == \A k \in DOMAIN p : p[k] \in Seq(Pieces) /\ Bare(p[k])

SpelledFirst(k, p, r, q, s) == Spelled(p, k) \o r = Spelled(q, k) \o s

LEMMA SpelledOnce ==
  ASSUME NEW k \in Pieces, NEW K, k \notin K, NEW p, NEW q, PlainParams(p), PlainParams(q),
         NEW r \in Seq(Pieces), NEW s \in Seq(Pieces), Begins(r, K), Begins(s, K),
         SpelledFirst(k, p, r, q, s)
  PROVE  /\ k \in DOMAIN p <=> k \in DOMAIN q
         /\ k \in DOMAIN p => p[k] = q[k]
         /\ r = s
<1> DEFINE h == <<"|", k, "=">>
<1>a. Spelled(p, k) \o r = Spelled(q, k) \o s
  BY DEF SpelledFirst
<1>0. h \in Seq(Pieces) /\ Len(h) = 3 /\ h[2] = k
  <2>1. h \in Seq(Pieces)
    BY DEF Pieces
  <2>2. Len(h) = 3
    OBVIOUS
  <2>3. h[2] = k
    OBVIOUS
  <2>4. QED
    BY <2>1, <2>2, <2>3
<1> HIDE DEF h
<1>1. ASSUME NEW a, PlainParams(a), k \in DOMAIN a, NEW x \in Seq(Pieces), NEW y \in Seq(Pieces),
             Begins(y, K), (h \o a[k]) \o x = y
      PROVE  FALSE
  <2> DEFINE v == a[k]
  <2>1. v \in Seq(Pieces)
    BY <1>1 DEF PlainParams
  <2> HIDE DEF v
  <2>2. Len((h \o v) \o x) >= 3 /\ ((h \o v) \o x)[2] = k
    <3>1. 2 \in 1..Len(h) /\ Len(h) >= 3
      BY <1>0
    <3>2. h \o v \in Seq(Pieces) /\ Len(h \o v) >= Len(h) /\ (h \o v)[2] = h[2]
      BY <1>0, <2>1, <3>1, Lead
    <3>3. Len(h \o v) \in Nat /\ Len(h) \in Nat
      BY <1>0, <3>2, LenProperties
    <3>4. 2 \in 1..Len(h \o v) /\ Len(h \o v) >= 3
      BY <3>1, <3>2, <3>3
    <3>5. /\ Len((h \o v) \o x) >= Len(h \o v)
          /\ ((h \o v) \o x)[2] = (h \o v)[2]
          /\ (h \o v) \o x \in Seq(Pieces)
      BY <1>1, <3>2, <3>4, Lead
    <3>6. Len((h \o v) \o x) \in Nat
      BY <3>5, LenProperties
    <3>7. QED
      BY <1>0, <3>2, <3>3, <3>4, <3>5, <3>6
  <2>4. Len(y) >= 3 /\ y[2] = k
    BY <1>1, <2>2 DEF v
  <2>3. y # << >>
    BY <2>4
  <2>5. QED
    BY <1>1, <2>3, <2>4 DEF Begins
<1>2. CASE k \in DOMAIN p /\ k \in DOMAIN q
  <2>1. (h \o p[k]) \o r = (h \o q[k]) \o s
    BY <1>a, <1>2 DEF Spelled, h
  <2>2. /\ p[k] \in Seq(Pieces) /\ Bare(p[k])
        /\ q[k] \in Seq(Pieces) /\ Bare(q[k])
    BY <1>2 DEF PlainParams
  <2>3. Starts(r) /\ Starts(s)
    BY DEF Begins, Starts
  <2> DEFINE v == p[k]
             w == q[k]
  <2> HIDE DEF v, w
  <2>4. /\ v \in Seq(Pieces) /\ Bare(v)
        /\ w \in Seq(Pieces) /\ Bare(w)
        /\ SpelledAlike(h, v, r, w, s)
    BY <2>1, <2>2 DEF v, w, SpelledAlike
  <2>6. h \in Seq(Pieces)
    BY <1>0
  <2>7. v = w /\ r = s
    BY <2>3, <2>4, <2>6, SameCut
  <2>5. QED
    BY <1>2, <2>7 DEF v, w
<1>3. CASE k \in DOMAIN p /\ k \notin DOMAIN q
  <2>1. (h \o p[k]) \o r = s
    BY <1>a, <1>3, ConcatEmptySeq DEF Spelled, h
  <2>2. QED
    BY <1>1, <1>3, <2>1
<1>4. CASE k \notin DOMAIN p /\ k \in DOMAIN q
  <2>1. (h \o q[k]) \o s = r
    BY <1>a, <1>4, ConcatEmptySeq DEF Spelled, h
  <2>2. QED
    BY <1>1, <1>4, <2>1
<1>5. CASE k \notin DOMAIN p /\ k \notin DOMAIN q
  <2>1. r = s
    BY <1>a, <1>5, ConcatEmptySeq DEF Spelled
  <2>2. QED
    BY <1>5, <2>1
<1>6. QED
  BY <1>2, <1>3, <1>4, <1>5

LEMMA SpelledBegins ==
  ASSUME NEW k \in Pieces, NEW K, NEW p, NEW rest \in Seq(Pieces), Begins(rest, K),
         k \in DOMAIN p => p[k] \in Seq(Pieces)
  PROVE  /\ Spelled(p, k) \in Seq(Pieces)
         /\ Spelled(p, k) \o rest \in Seq(Pieces)
         /\ Begins(Spelled(p, k) \o rest, K \cup {k})
<1> DEFINE h == <<"|", k, "=">>
           v == p[k]
<1>1. h \in Seq(Pieces) /\ Len(h) = 3 /\ h[1] = "|" /\ h[2] = k
  <2>1. h \in Seq(Pieces)
    BY DEF Pieces
  <2>2. Len(h) = 3
    OBVIOUS
  <2>3. h[1] = "|" /\ h[2] = k
    OBVIOUS
  <2>4. QED
    BY <2>1, <2>2, <2>3
<1> HIDE DEF h, v
<1>2. CASE k \in DOMAIN p
  <2>1. Spelled(p, k) = h \o v /\ v \in Seq(Pieces)
    BY <1>2 DEF Spelled, h, v
  <2>2. 1 \in 1..Len(h) /\ 2 \in 1..Len(h)
    BY <1>1
  <2>3. /\ h \o v \in Seq(Pieces) /\ Len(h \o v) >= Len(h)
        /\ (h \o v)[1] = "|" /\ (h \o v)[2] = k
    BY <1>1, <2>1, <2>2, Lead
  <2>4. Len(h \o v) \in Nat
    BY <2>3, LenProperties
  <2>5. 1 \in 1..Len(h \o v) /\ 2 \in 1..Len(h \o v)
    BY <1>1, <2>3, <2>4
  <2>6. /\ (h \o v) \o rest \in Seq(Pieces)
        /\ ((h \o v) \o rest)[1] = "|" /\ ((h \o v) \o rest)[2] = k
    BY <2>3, <2>5, Lead
  <2>7. QED
    BY <2>1, <2>3, <2>6 DEF Begins
<1>3. CASE k \notin DOMAIN p
  <2>1. Spelled(p, k) = << >> /\ Spelled(p, k) \o rest = rest /\ << >> \in Seq(Pieces)
    BY <1>3, ConcatEmptySeq, EmptySeq DEF Spelled
  <2>2. QED
    BY <2>1 DEF Begins
<1>4. QED
  BY <1>2, <1>3

\* The parameters of a key, from a name on.
FromStatus(p)   == Spelled(p, "Status")
FromName(p)     == Spelled(p, "Name") \o FromStatus(p)
FromInfoHash(p) == Spelled(p, "InfoHash") \o FromName(p)
FromID(p)       == Spelled(p, "ID") \o FromInfoHash(p)
FromFolder(p)   == Spelled(p, "Folder") \o FromID(p)

Values(p) == \A k \in DOMAIN p : p[k] \in Seq(Pieces)

LEMMA Parts ==
  ASSUME NEW p, Values(p)
  PROVE  /\ FromStatus(p) \in Seq(Pieces) /\ Begins(FromStatus(p), {"Status"})
         /\ FromName(p) \in Seq(Pieces) /\ Begins(FromName(p), {"Status", "Name"})
         /\ FromInfoHash(p) \in Seq(Pieces)
         /\ Begins(FromInfoHash(p), {"Status", "Name", "InfoHash"})
         /\ FromID(p) \in Seq(Pieces)
         /\ Begins(FromID(p), {"Status", "Name", "InfoHash", "ID"})
         /\ FromFolder(p) \in Seq(Pieces)
         /\ \A k \in FieldNames : Spelled(p, k) \in Seq(Pieces)
<1>0. FieldNames \subseteq Pieces
  BY DEF Pieces
<1>1. /\ "Folder" \in FieldNames /\ "ID" \in FieldNames /\ "InfoHash" \in FieldNames
      /\ "Name" \in FieldNames /\ "Status" \in FieldNames
  BY DEF FieldNames
<1>2. << >> \in Seq(Pieces) /\ Begins(<< >>, {})
  BY EmptySeq DEF Begins
<1>3. ASSUME NEW k \in FieldNames PROVE Spelled(p, k) \in Seq(Pieces)
  BY <1>0, <1>2, SpelledBegins DEF Values
<1>4. FromStatus(p) \in Seq(Pieces) /\ Begins(FromStatus(p), {"Status"})
  <2>1. Spelled(p, "Status") \o << >> = Spelled(p, "Status")
    BY <1>1, <1>3, ConcatEmptySeq
  <2>2. Begins(Spelled(p, "Status") \o << >>, {} \cup {"Status"})
    BY <1>0, <1>1, <1>2, SpelledBegins DEF Values
  <2>3. QED
    BY <1>1, <1>3, <2>1, <2>2 DEF FromStatus
<1>5. FromName(p) \in Seq(Pieces) /\ Begins(FromName(p), {"Status"} \cup {"Name"})
  BY <1>0, <1>1, <1>4, SpelledBegins DEF Values, FromName
<1>6. /\ FromInfoHash(p) \in Seq(Pieces)
      /\ Begins(FromInfoHash(p), ({"Status"} \cup {"Name"}) \cup {"InfoHash"})
  BY <1>0, <1>1, <1>5, SpelledBegins DEF Values, FromInfoHash
<1>7. /\ FromID(p) \in Seq(Pieces)
      /\ Begins(FromID(p), (({"Status"} \cup {"Name"}) \cup {"InfoHash"}) \cup {"ID"})
  BY <1>0, <1>1, <1>6, SpelledBegins DEF Values, FromID
<1>8. FromFolder(p) \in Seq(Pieces)
  BY <1>0, <1>1, <1>7, SpelledBegins DEF Values, FromFolder
<1>9. /\ {"Status"} \cup {"Name"} = {"Status", "Name"}
      /\ ({"Status"} \cup {"Name"}) \cup {"InfoHash"} = {"Status", "Name", "InfoHash"}
      /\ (({"Status"} \cup {"Name"}) \cup {"InfoHash"}) \cup {"ID"}
           = {"Status", "Name", "InfoHash", "ID"}
  OBVIOUS
<1>10. QED
  BY <1>3, <1>4, <1>5, <1>6, <1>7, <1>8, <1>9

\* Plain parameters are spelled in one way.
LEMMA SpelledApart ==
  ASSUME NEW p, NEW q, PlainParams(p), PlainParams(q), FromFolder(p) = FromFolder(q)
  PROVE  \A k \in FieldNames : /\ k \in DOMAIN p <=> k \in DOMAIN q
                               /\ k \in DOMAIN p => p[k] = q[k]
<1> DEFINE Same(k) == /\ k \in DOMAIN p <=> k \in DOMAIN q
                      /\ k \in DOMAIN p => p[k] = q[k]
<1>0. /\ Values(p) /\ Values(q)
      /\ "Folder" \in Pieces /\ "ID" \in Pieces /\ "InfoHash" \in Pieces
      /\ "Name" \in Pieces /\ "Status" \in Pieces
  BY DEF PlainParams, Values, Pieces, FieldNames
<1>1. Same("Folder") /\ FromID(p) = FromID(q)
  <2>1. "Folder" \notin {"Status", "Name", "InfoHash", "ID"}
    OBVIOUS
  <2>2. Spelled(p, "Folder") \o FromID(p) = Spelled(q, "Folder") \o FromID(q)
    BY DEF FromFolder
  <2> DEFINE K == {"Status", "Name", "InfoHash", "ID"}
             r == FromID(p)
             s == FromID(q)
  <2>3. /\ r \in Seq(Pieces) /\ Begins(r, K)
        /\ s \in Seq(Pieces) /\ Begins(s, K)
    BY <1>0, Parts
  <2>4. "Folder" \in Pieces /\ "Folder" \notin K
    BY <1>0, <2>1
  <2> HIDE DEF K, r, s
  <2>5. SpelledFirst("Folder", p, r, q, s)
    BY <2>2 DEF r, s, SpelledFirst
  <2>6. Same("Folder") /\ r = s
    BY <2>3, <2>4, <2>5, SpelledOnce
  <2>7. QED
    BY <2>6 DEF r, s
<1>2. Same("ID") /\ FromInfoHash(p) = FromInfoHash(q)
  <2>1. "ID" \notin {"Status", "Name", "InfoHash"}
    OBVIOUS
  <2>2. Spelled(p, "ID") \o FromInfoHash(p) = Spelled(q, "ID") \o FromInfoHash(q)
    BY <1>1 DEF FromID
  <2> DEFINE K == {"Status", "Name", "InfoHash"}
             r == FromInfoHash(p)
             s == FromInfoHash(q)
  <2>3. /\ r \in Seq(Pieces) /\ Begins(r, K)
        /\ s \in Seq(Pieces) /\ Begins(s, K)
    BY <1>0, Parts
  <2>4. "ID" \in Pieces /\ "ID" \notin K
    BY <1>0, <2>1
  <2> HIDE DEF K, r, s
  <2>5. SpelledFirst("ID", p, r, q, s)
    BY <2>2 DEF r, s, SpelledFirst
  <2>6. Same("ID") /\ r = s
    BY <2>3, <2>4, <2>5, SpelledOnce
  <2>7. QED
    BY <2>6 DEF r, s
<1>3. Same("InfoHash") /\ FromName(p) = FromName(q)
  <2>1. "InfoHash" \notin {"Status", "Name"}
    OBVIOUS
  <2>2. Spelled(p, "InfoHash") \o FromName(p) = Spelled(q, "InfoHash") \o FromName(q)
    BY <1>2 DEF FromInfoHash
  <2> DEFINE K == {"Status", "Name"}
             r == FromName(p)
             s == FromName(q)
  <2>3. /\ r \in Seq(Pieces) /\ Begins(r, K)
        /\ s \in Seq(Pieces) /\ Begins(s, K)
    BY <1>0, Parts
  <2>4. "InfoHash" \in Pieces /\ "InfoHash" \notin K
    BY <1>0, <2>1
  <2> HIDE DEF K, r, s
  <2>5. SpelledFirst("InfoHash", p, r, q, s)
    BY <2>2 DEF r, s, SpelledFirst
  <2>6. Same("InfoHash") /\ r = s
    BY <2>3, <2>4, <2>5, SpelledOnce
  <2>7. QED
    BY <2>6 DEF r, s
<1>4. Same("Name") /\ FromStatus(p) = FromStatus(q)
  <2>1. "Name" \notin {"Status"}
    OBVIOUS
  <2>2. Spelled(p, "Name") \o FromStatus(p) = Spelled(q, "Name") \o FromStatus(q)
    BY <1>3 DEF FromName
  <2> DEFINE K == {"Status"}
             r == FromStatus(p)
             s == FromStatus(q)
  <2>3. /\ r \in Seq(Pieces) /\ Begins(r, K)
        /\ s \in Seq(Pieces) /\ Begins(s, K)
    BY <1>0, Parts
  <2>4. "Name" \in Pieces /\ "Name" \notin K
    BY <1>0, <2>1
  <2> HIDE DEF K, r, s
  <2>5. SpelledFirst("Name", p, r, q, s)
    BY <2>2 DEF r, s, SpelledFirst
  <2>6. Same("Name") /\ r = s
    BY <2>3, <2>4, <2>5, SpelledOnce
  <2>7. QED
    BY <2>6 DEF r, s
<1>5. Same("Status")
  <2>1. << >> \in Seq(Pieces) /\ Begins(<< >>, {}) /\ "Status" \notin {}
    BY EmptySeq DEF Begins
  <2>2. SpelledFirst("Status", p, << >>, q, << >>)
    BY <1>4 DEF FromStatus, SpelledFirst
  <2>3. QED
    BY <1>0, <2>1, <2>2, SpelledOnce
<1> HIDE DEF Same
<1>6. \A k \in FieldNames : Same(k)
  BY <1>1, <1>2, <1>3, <1>4, <1>5 DEF FieldNames
<1>7. QED
  BY <1>6 DEF Same

\* A hint of a record type that has fewer than the five fields there are.
IsHint(h) ==
  /\ h = [table |-> h.table, userID |-> h.userID, params |-> h.params]
  /\ h.params = [k \in DOMAIN h.params |-> h.params[k]]
  /\ DOMAIN h.params \subseteq FieldNames /\ DOMAIN h.params # FieldNames
  /\ h.table \in Pieces /\ h.userID \in Pieces
  /\ Values(h.params)

Prefix(h) == <<"rkeys", "|", h.table, "|", h.userID, "|", "%!s(MISSING)">>

Joined(a, b, ab) == ab = a \o b

LEMMA Regroup ==
  ASSUME NEW a \in Seq(Pieces), NEW b \in Seq(Pieces), NEW c \in Seq(Pieces),
         NEW ab, NEW bc, NEW abc,
         Joined(a, b, ab), Joined(b, c, bc), Joined(ab, c, abc)
  PROVE  Joined(a, bc, abc)
BY ConcatAssociative DEF Joined

LEMMA KeyForm ==
  ASSUME NEW h, IsHint(h)
  PROVE  /\ cacheMakeInvalidateKey(h) = Prefix(h) \o FromFolder(h.params)
         /\ Prefix(h) \in Seq(Pieces) /\ Len(Prefix(h)) = 7
<1> DEFINE p == h.params
           F == Spelled(p, "Folder")
           I == Spelled(p, "ID")
           H == Spelled(p, "InfoHash")
           N == Spelled(p, "Name")
           S == Spelled(p, "Status")
<1>1. cacheMakeInvalidateKey(h) = Prefix(h) \o ((((F \o I) \o H) \o N) \o S)
  BY DEF cacheMakeInvalidateKey, Sorted, Spelled, Prefix
<1>2. /\ F \in Seq(Pieces) /\ I \in Seq(Pieces) /\ H \in Seq(Pieces)
      /\ N \in Seq(Pieces) /\ S \in Seq(Pieces)
  BY Parts DEF IsHint, FieldNames
<1>3. FromFolder(p) = F \o (I \o (H \o (N \o S)))
  BY DEF FromFolder, FromID, FromInfoHash, FromName, FromStatus
<1> HIDE DEF F, I, H, N, S
<1> DEFINE FI    == F \o I
           FIH   == FI \o H
           FIHN  == FIH \o N
           FIHNS == FIHN \o S
           NS    == N \o S
           HNS   == H \o NS
           IHNS  == I \o HNS
<1>4. FIHNS = F \o IHNS
  <2>1. /\ FI \in Seq(Pieces) /\ FIH \in Seq(Pieces)
        /\ NS \in Seq(Pieces) /\ HNS \in Seq(Pieces)
    BY <1>2, ConcatProperties
  <2>2. /\ Joined(F, I, FI) /\ Joined(FI, H, FIH) /\ Joined(FIH, N, FIHN)
        /\ Joined(FIHN, S, FIHNS)
        /\ Joined(N, S, NS) /\ Joined(H, NS, HNS) /\ Joined(I, HNS, IHNS)
    BY DEF Joined
  <2> HIDE DEF FI, FIH, FIHN, FIHNS, NS, HNS, IHNS
  <2>3. Joined(FIH, NS, FIHNS)
    BY <1>2, <2>1, <2>2, Regroup
  <2>4. Joined(FI, HNS, FIHNS)
    BY <1>2, <2>1, <2>2, <2>3, Regroup
  <2>5. Joined(F, IHNS, FIHNS)
    BY <1>2, <2>1, <2>2, <2>4, Regroup
  <2>6. QED
    BY <2>5 DEF Joined
<1>5. Prefix(h) \in Seq(Pieces)
  BY DEF Prefix, Pieces, IsHint
<1>6. Len(Prefix(h)) = 7
  BY DEF Prefix
<1>7. QED
  BY <1>1, <1>3, <1>4, <1>5, <1>6 DEF p

\* A key tells the table and the owner, and the parameters of plain hints.
LEMMA KeyTells ==
  ASSUME NEW g, IsHint(g), NEW h, IsHint(h),
         cacheMakeInvalidateKey(g) = cacheMakeInvalidateKey(h)
  PROVE  /\ g.table = h.table /\ g.userID = h.userID
         /\ Plain(g) /\ Plain(h) => g.params = h.params
<1>1. /\ FromFolder(g.params) \in Seq(Pieces) /\ FromFolder(h.params) \in Seq(Pieces)
  BY Parts DEF IsHint
<1>2. Prefix(g) \o FromFolder(g.params) = Prefix(h) \o FromFolder(h.params)
  BY KeyForm
<1>3. ASSUME NEW i \in 1..7 PROVE Prefix(g)[i] = Prefix(h)[i]
  <2>1. /\ (Prefix(g) \o FromFolder(g.params))[i] = Prefix(g)[i]
        /\ (Prefix(h) \o FromFolder(h.params))[i] = Prefix(h)[i]
    BY <1>1, KeyForm, Lead
  <2>2. QED
    BY <1>2, <2>1
<1>4. g.table = h.table /\ g.userID = h.userID
  <2>1. Prefix(g)[3] = Prefix(h)[3] /\ Prefix(g)[5] = Prefix(h)[5]
    BY <1>3
  <2>2. QED
    BY <2>1 DEF Prefix
<1>5. FromFolder(g.params) = FromFolder(h.params)
  <2>1. Prefix(g) = Prefix(h)
    BY <1>4 DEF Prefix
  <2>2. QED
    BY <1>1, <1>2, <2>1, KeyForm, ConcatSimplifications
<1>6. ASSUME Plain(g), Plain(h) PROVE g.params = h.params
  <2>1. PlainParams(g.params) /\ PlainParams(h.params)
    BY <1>6 DEF IsHint, Values, Plain, PlainParams
  <2>2. \A k \in FieldNames : /\ k \in DOMAIN g.params <=> k \in DOMAIN h.params
                              /\ k \in DOMAIN g.params => g.params[k] = h.params[k]
    BY <1>5, <2>1, SpelledApart
  <2>3. DOMAIN g.params = DOMAIN h.params
    BY <2>2 DEF IsHint
  <2>4. [k \in DOMAIN g.params |-> g.params[k]] = [k \in DOMAIN h.params |-> h.params[k]]
    BY <2>2, <2>3 DEF IsHint
  <2>5. QED
    BY <2>4 DEF IsHint
<1>7. QED
  BY <1>4, <1>6

-----------------------------------------------------------------------------
(* Hints.                                                                    *)

\* A write reaches all the reads of its table and owner whose parameters are
\* among its own and none of another table or owner, whatever the two hints
\* hold; without a "|" in their texts it reaches no others.
THEOREM ReachOfWrite ==
  ASSUME NEW w, IsHint(w), NEW r, IsHint(r)
  PROVE  LET reached == cacheMakeInvalidateKey(r) \in RelatedKeys(w)
             own     == r.table = w.table /\ r.userID = w.userID
         IN  /\ own /\ Restricts(r, w) => reached
             /\ reached => own
             /\ reached /\ Plain(r) /\ Plain(w) => Restricts(r, w)
<1> DEFINE related(S) ==
             [table |-> w.table, userID |-> w.userID, params |-> [k \in S |-> w.params[k]]]
           reached == cacheMakeInvalidateKey(r) \in RelatedKeys(w)
<1>1. subsets(sortedKeyList(w.params)) = SUBSET DOMAIN w.params
  BY SortedKeys, SubsetsOfShort DEF IsHint
<1>2. cacheMakeRelatedCacheHints(w) = {w} \cup {related(S) : S \in SUBSET DOMAIN w.params}
  BY <1>1 DEF cacheMakeRelatedCacheHints, submaps
<1>3. related(DOMAIN w.params) = w
  BY DEF IsHint
<1>4. reached <=> \E S \in SUBSET DOMAIN w.params :
                    cacheMakeInvalidateKey(r) = cacheMakeInvalidateKey(related(S))
  BY <1>2, <1>3 DEF RelatedKeys
<1>5. ASSUME NEW S \in SUBSET DOMAIN w.params
      PROVE  /\ IsHint(related(S)) /\ related(S).table = w.table
             /\ related(S).userID = w.userID /\ related(S).params = [k \in S |-> w.params[k]]
             /\ Plain(w) => Plain(related(S))
  BY DEF IsHint, Values, Plain
<1>6. ASSUME r.table = w.table, r.userID = w.userID, Restricts(r, w) PROVE reached
  <2>1. DOMAIN r.params \in SUBSET DOMAIN w.params
    BY <1>6 DEF Restricts
  <2>2. r.params = [k \in DOMAIN r.params |-> w.params[k]]
    BY <1>6 DEF IsHint, Restricts
  <2>3. r = related(DOMAIN r.params)
    BY <1>6, <2>2 DEF IsHint
  <2>4. QED
    BY <1>4, <2>1, <2>3
<1>7. ASSUME reached
      PROVE  /\ r.table = w.table /\ r.userID = w.userID
             /\ Plain(r) /\ Plain(w) => Restricts(r, w)
  <2>1. PICK S \in SUBSET DOMAIN w.params :
               cacheMakeInvalidateKey(r) = cacheMakeInvalidateKey(related(S))
    BY <1>4, <1>7
  <2> DEFINE g == related(S)
  <2>2. /\ IsHint(g) /\ g.table = w.table /\ g.userID = w.userID
        /\ g.params = [k \in S |-> w.params[k]] /\ (Plain(w) => Plain(g))
    BY <1>5
  <2> HIDE DEF g
  <2>3. cacheMakeInvalidateKey(r) = cacheMakeInvalidateKey(g)
    BY <2>1 DEF g
  <2>4. /\ r.table = g.table /\ r.userID = g.userID
        /\ Plain(r) /\ Plain(g) => r.params = g.params
    BY <2>2, <2>3, KeyTells
  <2>5. QED
    BY <2>2, <2>4 DEF Restricts
<1>8. QED
  BY <1>6, <1>7

\* The "%v" keeps every field: no text makes an empty parameter.
LEMMA EveryFieldIsKept ==
  ASSUME NEW table \in Pieces, NEW userID \in Pieces, NEW fields,
         DOMAIN fields \subseteq FieldNames, DOMAIN fields # FieldNames,
         \A k \in DOMAIN fields : fields[k] \in Seq(Pieces)
  PROVE  IsHint(cacheHintMake(table, userID, fields))
<1> DEFINE params == [k \in DOMAIN fields |-> Sprint("%v", fields[k])]
<1>1. ASSUME NEW v \in Seq(Pieces) PROVE <<"%v">> \o v \in Seq(Pieces) /\ <<"%v">> \o v # << >>
  <2>1. <<"%v">> \in Seq(Pieces) /\ <<"%v">> # << >>
    BY DEF Pieces
  <2>2. QED
    BY <2>1, ConcatProperties, ConcatEqualIffEmpty
<1>2. {k \in DOMAIN fields : Sprint("%v", fields[k]) # << >>} = DOMAIN fields
  BY <1>1 DEF Sprint
<1>3. \A k \in DOMAIN fields : Sprint("%v", fields[k]) \in Seq(Pieces)
  BY <1>1 DEF Sprint
<1>4. Values(params)
  BY <1>3 DEF Values
<1>5. cacheHintMake(table, userID, fields) = [table |-> table, userID |-> userID, params |-> params]
  BY <1>2 DEF cacheHintMake
<1>6. DOMAIN params = DOMAIN fields /\ params = [k \in DOMAIN params |-> params[k]]
  OBVIOUS
<1> HIDE DEF params
<1>7. QED
  BY <1>4, <1>5, <1>6 DEF IsHint

\* The hints of the records the API builds have all fields of their type.
LEMMA HintShape ==
  ASSUME NEW h \in Hints
  PROVE  IsHint(h)
<1>0. /\ "u" \in Pieces /\ "v" \in Pieces /\ "folders" \in Pieces /\ "torrents" \in Pieces
      /\ << >> \in Seq(Pieces) /\ <<"x">> \in Seq(Pieces)
  BY EmptySeq DEF Pieces
<1>1. ASSUME NEW o \in Pieces, NEW i \in Seq(Pieces), NEW n \in Seq(Pieces)
      PROVE  IsHint(FolderHint(o, i, n))
  <2> DEFINE fields == [ID |-> i, Name |-> n]
  <2>1. /\ DOMAIN fields \subseteq FieldNames /\ DOMAIN fields # FieldNames
        /\ \A k \in DOMAIN fields : fields[k] \in Seq(Pieces)
    BY DEF FieldNames
  <2>2. QED
    BY <1>0, <2>1, EveryFieldIsKept DEF FolderHint
<1>2. ASSUME NEW o \in Pieces, NEW i \in Seq(Pieces), NEW f \in Seq(Pieces),
             NEW hash \in Seq(Pieces), NEW s \in Seq(Pieces)
      PROVE  IsHint(TorrentHint(o, i, f, hash, s))
  <2> DEFINE fields == [ID |-> i, Folder |-> f, InfoHash |-> hash, Status |-> s]
  <2>1. DOMAIN fields \subseteq FieldNames
    BY DEF FieldNames
  <2>2. "Name" \in FieldNames /\ "Name" \notin DOMAIN fields
    BY DEF FieldNames
  <2>3. \A k \in DOMAIN fields : fields[k] \in Seq(Pieces)
    OBVIOUS
  <2>4. TorrentHint(o, i, f, hash, s) = cacheHintMake("torrents", o, fields)
    BY DEF TorrentHint
  <2> HIDE DEF fields
  <2>5. QED
    BY <1>0, <2>1, <2>2, <2>3, <2>4, EveryFieldIsKept
<1>3. CASE h \in {FolderHint("u", i, n) : i, n \in Texts}
  BY <1>0, <1>1, <1>3, TextsAssumption
<1>4. CASE h \in {TorrentHint(u, i, f, hash, s) : u \in {"u", "v"}, i, f \in Texts,
                                                hash, s \in {<< >>, <<"x">>}}
  <2>1. PICK u \in {"u", "v"}, i \in Texts, f \in Texts, hash \in {<< >>, <<"x">>},
             s \in {<< >>, <<"x">>} : h = TorrentHint(u, i, f, hash, s)
    BY <1>4
  <2>2. /\ u \in Pieces /\ i \in Seq(Pieces) /\ f \in Seq(Pieces)
        /\ hash \in Seq(Pieces) /\ s \in Seq(Pieces)
    BY <1>0, TextsAssumption
  <2>3. QED
    BY <1>2, <2>1, <2>2
<1>5. QED
  BY <1>3, <1>4 DEF Hints

LEMMA NarrowerIsHint ==
  ASSUME NEW h, IsHint(h), NEW g \in Narrower(h)
  PROVE  IsHint(g)
<1>1. PICK S \in SUBSET DOMAIN h.params : g = [h EXCEPT !.params = [k \in S |-> h.params[k]]]
  BY DEF Narrower
<1>2. g = [table |-> h.table, userID |-> h.userID, params |-> [k \in S |-> h.params[k]]]
  BY <1>1 DEF IsHint
<1>3. QED
  BY <1>1, <1>2 DEF IsHint, Values

-----------------------------------------------------------------------------
(* The write and the read under consideration.                               *)

Considered ==
  /\ write \in Hints
  /\ read \in UNION {Narrower(h) : h \in Hints}
  /\ list \in {l \in Lists : Len(l) <= subsetsMaxSize}

LEMMA AlwaysConsidered ==
  (HintsInit => Considered) /\ (Considered /\ [HintsNext]_considered => Considered')
<1>1. HintsInit => Considered
  BY DEF HintsInit, Considered
<1>2. Considered /\ [HintsNext]_considered => Considered'
  BY DEF HintsNext, considered, Considered
<1>3. QED
  BY <1>1, <1>2

\* For the keys of any hint, subsets() returns each set of them and no other.
THEOREM AllSubsets == HintsSpec => []SubsetsAreAll
<1>1. Considered => SubsetsAreAll
  <2> SUFFICES ASSUME Considered PROVE SubsetsAreAll
    OBVIOUS
  <2>1. PICK S \in SUBSET FieldNames : list = sortedKeyList([k \in S |-> << >>])
    BY DEF Considered, Lists
  <2>2. list \in Seq(FieldNames)
    BY <2>1, SortedKeys
  <2>3. QED
    BY <2>2, SubsetsOfShort DEF Considered, SubsetsAreAll
<1>2. QED
  BY <1>1, AlwaysConsidered, PTL DEF HintsSpec

\* For any texts a write reaches the reads that it must and no one else's, and
\* for plain ones no others.
THEOREM Restrictions == HintsSpec => []EvictsRestrictions
<1>1. Considered => EvictsRestrictions
  <2> SUFFICES ASSUME Considered PROVE EvictsRestrictions
    OBVIOUS
  <2>1. IsHint(write) /\ IsHint(read)
    BY HintShape, NarrowerIsHint DEF Considered
  <2>2. QED
    BY <2>1, ReachOfWrite DEF EvictsRestrictions
<1>2. QED
  BY <1>1, AlwaysConsidered, PTL DEF HintsSpec
=============================================================================
