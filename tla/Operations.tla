----------------------------- MODULE Operations -----------------------------
(***************************************************************************)
(* The routed operations of folders.go and torrents.go that go through     *)
(* dbFind, dbFindOne or dbExecOnRecord (db_utils.go): which cache key and  *)
(* hint each has, what a read answers and what a write does.               *)
(*                                                                         *)
(* An operation is a record: the Go function, the user, and the fields of  *)
(* the Folder or Torrent it builds (name is a torrent's Folder).           *)
(***************************************************************************)
EXTENDS Tables, CacheHints

CONSTANT Statuses   \* the status texts clients send, unknown ones included

FolderReads   == {"FolderGetAll"}
TorrentReads  == {"TorrentGetAll", "TorrentGetByFolder", "TorrentGet"}
FolderWrites  == {"FolderCreate", "FolderRename", "FolderDelete"}
TorrentWrites == {"TorrentCreate", "TorrentUpdate", "TorrentDelete"}

Call(kind, user, id, name, status) ==
  [kind |-> kind, user |-> user, id |-> id, name |-> name, status |-> status]

\* The calls the handlers make for a user: a path parameter is a text, a body
\* field that is validated as nonzero is a text, any other may be blank.
ReadCalls(user) ==
       {Call(k, user, Blank, Blank, Blank) : k \in {"FolderGetAll", "TorrentGetAll"}}
  \cup {Call("TorrentGetByFolder", user, Blank, n, Blank) : n \in Param}
  \cup {Call("TorrentGet", user, i, Blank, Blank) : i \in Param}

WriteCalls(user) ==
       {Call("FolderCreate", user, i, n, Blank) : i \in Ids, n \in Param}
  \cup {Call("FolderRename", user, i, n, Blank) : i \in Param, n \in Param}
  \cup {Call("FolderDelete", user, i, Blank, Blank) : i \in Param}
  \cup {Call("TorrentCreate", user, Blank, n, Blank) : n \in Param}
  \cup {Call("TorrentUpdate", user, i, n, s) :
          i \in Param, n \in Param \cup {Blank}, s \in Statuses \cup {Blank}}
  \cup {Call("TorrentDelete", user, i, Blank, Blank) : i \in Param}

Reads  == UNION {ReadCalls(u) : u \in Users}
Writes == UNION {WriteCalls(u) : u \in Users}

-----------------------------------------------------------------------------
\* A text as the hints spell it.
Text(v) == IF v = Blank THEN << >> ELSE <<v>>

\* The hint of the record an operation builds.  Only TorrentCreate sets an
\* info hash.
HintOf(o) ==
  IF o.kind \in FolderReads \cup FolderWrites
  THEN FolderHint(o.user, Text(o.id), Text(o.name))
  ELSE TorrentHint(o.user, Text(o.id), Text(o.name),
                   IF o.kind = "TorrentCreate" THEN <<"hash">> ELSE << >>, Text(o.status))

\* Mutant: the arguments are left out of the digest.
cacheMakeKeyFromText(query, args) == <<"q", query, << >>>>

\* The digest of a query and its arguments, taken to be without collisions.
cacheMakeKeyFromQuery(query, args) == <<"q", query, args>>

\* Mutant: the digest is taken of the client's parameters, without the owner.
ArgsOfClient(o) == CASE o.kind = "TorrentGetByFolder" -> <<o.name>>
                     [] o.kind = "TorrentGet"         -> <<o.id>>
                     [] OTHER                         -> << >>

ArgsOf(o) == CASE o.kind = "TorrentGetByFolder" -> <<o.user, o.name>>
               [] o.kind = "TorrentGet"         -> <<o.id, o.user>>
               [] OTHER                         -> <<o.user>>

KeyOf(o) == cacheMakeKeyFromQuery(o.kind, ArgsOf(o))

\* The rows a read selects.
Selected(db, o) ==
  CASE o.kind = "FolderGetAll"       -> FoldersOf(db, o.user)
    [] o.kind = "TorrentGetAll"      -> TorrentsOf(db, o.user)
    [] o.kind = "TorrentGetByFolder" -> TorrentsIn(db, o.user, o.name)
    [] o.kind = "TorrentGet"         -> TorrentMatches(db, o.id, o.user)

\* The answers a read can be given on db: none when PostgreSQL rejects the
\* query or when Get finds no row.
Answers(db, o) ==
  IF \/ o.kind \in FolderReads  /\ ~FolderQueryRuns
     \/ o.kind \in TorrentReads /\ ~TorrentQueryRuns
     \/ o.kind = "TorrentGet" /\ (~IsUuid(o.id) \/ Selected(db, o) = {})
  THEN {}
  ELSE {Selected(db, o)}

\* The statement of a write.
Outcome(db, o) ==
  CASE o.kind = "FolderCreate"  -> FolderInsert(db, o.id, o.user, o.name)
    [] o.kind = "FolderRename"  -> FolderUpdate(db, o.id, o.user, o.name)
    [] o.kind = "FolderDelete"  -> FolderDeleteRows(db, o.id, o.user)
    [] o.kind = "TorrentCreate" -> TorrentInsert(db, o.id, o.user, o.name)
    [] o.kind = "TorrentUpdate" -> TorrentUpdateRows(db, o.id, o.user, o.status, o.name)
    [] o.kind = "TorrentDelete" -> TorrentDeleteRows(db, o.id, o.user)
=============================================================================
