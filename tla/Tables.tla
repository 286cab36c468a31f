------------------------------- MODULE Tables -------------------------------
(***************************************************************************)
(* The folders and torrents tables of db/sql/schema.sql and the SQL        *)
(* statements that folders.go and torrents.go run on them.  A statement is *)
(* an operator from a database to an outcome: the error PostgreSQL reports *)
(* ("none", "unique" or "other"), the rows affected and the database after *)
(* the statement, which is autocommitted.                                  *)
(*                                                                         *)
(* Ids are the texts that parse as a uuid.  A folder name and a path       *)
(* parameter are any text, hence possibly the text of an id.               *)
(***************************************************************************)
EXTENDS Integers, FiniteSets

CONSTANTS Blank,    \* the zero value of a string field: ""
          Users,    \* the ids of the users (rows of the users table)
          Ids,      \* texts that are uuids
          Names     \* texts that are not

ASSUME TextAssumption ==
  /\ Ids \cap Names = {}
  /\ Blank \notin Ids \cup Names

Param == Ids \cup Names

TorrentStatus == {"new", "downloading", "downloaded", "failed"}

Folder  == [id : Ids, owner_id : Users, name : Param]
Torrent == [id : Ids, owner_id : Users, folder : Param, status : TorrentStatus]

Database == [folders : SUBSET Folder, torrents : SUBSET Torrent]

-----------------------------------------------------------------------------
(* The constraints of the schema.                                          *)

UniqueIds(db) ==
  /\ \A f, g \in db.folders  : f.id = g.id => f = g
  /\ \A t, s \in db.torrents : t.id = s.id => t = s

UniqueNames(db) ==
  \A f, g \in db.folders : f.owner_id = g.owner_id /\ f.name = g.name => f = g

Holds(t, f) == t.owner_id = f.owner_id /\ t.folder = f.name

ForeignKeys(db) == \A t \in db.torrents : \E f \in db.folders : Holds(t, f)

SchemaHolds(db) == UniqueIds(db) /\ UniqueNames(db) /\ ForeignKeys(db)

-----------------------------------------------------------------------------
(* Statements.                                                             *)

IsUuid(text) == text \in Ids

Failed(db, err) == [err |-> err, affected |-> 0, db |-> db]
Done(n, db)     == [err |-> "none", affected |-> n, db |-> db]

\* Mutant: no AND owner_id=:owner_id.
FolderMatchesAnyOwner(db, param, owner) ==
  {f \in db.folders : f.name = param \/ f.id = param}

\* WHERE (name=:id OR id=:id) AND owner_id=:owner_id
FolderMatches(db, param, owner) ==
  {f \in db.folders : f.owner_id = owner /\ (f.name = param \/ f.id = param)}

\* Mutant: the record's id is not set.
FolderInsertNoID(db, id, owner, name) ==
  Done(1, [db EXCEPT !.folders =
             @ \cup {[id |-> Blank, owner_id |-> owner, name |-> name]}])

\* Mutant: no UNIQUE(owner_id, name).
FolderInsertAny(db, id, owner, name) ==
  Done(1, [db EXCEPT !.folders =
             @ \cup {[id |-> id, owner_id |-> owner, name |-> name]}])

FolderInsert(db, id, owner, name) ==
  IF \E f \in db.folders : f.owner_id = owner /\ f.name = name
  THEN Failed(db, "unique")
  ELSE Done(1, [db EXCEPT !.folders =
                  @ \cup {[id |-> id, owner_id |-> owner, name |-> name]}])

\* Mutant: no foreign key; the torrents are left behind.
FolderUpdateAlone(db, param, owner, name) ==
  LET hit == FolderMatches(db, param, owner)
  IN  IF ~IsUuid(param) THEN Failed(db, "other")
      ELSE Done(Cardinality(hit),
                [db EXCEPT !.folders = (@ \ hit) \cup {[f EXCEPT !.name = name] : f \in hit}])

\* ON UPDATE CASCADE: the torrents follow the folder to its new name.
FolderUpdate(db, param, owner, name) ==
  LET hit     == FolderMatches(db, param, owner)
      clash   == \/ \E f, g \in hit : f # g
                 \/ \E f \in hit, g \in db.folders \ hit :
                      g.owner_id = owner /\ g.name = name
      follows(t) == \E f \in hit : Holds(t, f)
  IN  IF ~IsUuid(param) THEN Failed(db, "other")
      ELSE IF clash     THEN Failed(db, "unique")
      ELSE Done(Cardinality(hit),
                [folders  |-> (db.folders \ hit)
                                \cup {[f EXCEPT !.name = name] : f \in hit},
                 torrents |-> {t \in db.torrents : ~follows(t)}
                                \cup {[t EXCEPT !.folder = name] :
                                        t \in {s \in db.torrents : follows(s)}}])

\* Mutant: ON DELETE CASCADE.
FolderDeleteCascades(db, param, owner) ==
  LET hit == FolderMatches(db, param, owner)
  IN  IF ~IsUuid(param)
      THEN Failed(db, "other")
      ELSE Done(Cardinality(hit),
                [folders  |-> db.folders \ hit,
                 torrents |-> {t \in db.torrents : ~\E f \in hit : Holds(t, f)}])

\* ON DELETE RESTRICT: a folder that still holds torrents is not deleted.
FolderDeleteRows(db, param, owner) ==
  LET hit == FolderMatches(db, param, owner)
  IN  IF \/ ~IsUuid(param)
         \/ \E f \in hit, t \in db.torrents : Holds(t, f)
      THEN Failed(db, "other")
      ELSE Done(Cardinality(hit), [db EXCEPT !.folders = @ \ hit])

TorrentMatches(db, param, owner) ==
  {t \in db.torrents : t.id = param /\ t.owner_id = owner}

TorrentInsert(db, id, owner, folder) ==
  IF IsUuid(id) /\ \E f \in db.folders : f.owner_id = owner /\ f.name = folder
  THEN Done(1, [db EXCEPT !.torrents =
                  @ \cup {[id |-> id, owner_id |-> owner, folder |-> folder,
                           status |-> "new"]}])
  ELSE Failed(db, "other")

\* A blank status or folder is left out of SET; with both blank the statement
\* is not SQL.  A row gets a status of the CHECK and a folder that exists, or
\* the statement fails.
TorrentUpdateRows(db, param, owner, status, folder) ==
  LET hit == TorrentMatches(db, param, owner)
      set(t) == [t EXCEPT !.status = IF status = Blank THEN @ ELSE status,
                          !.folder = IF folder = Blank THEN @ ELSE folder]
      orphan  == folder # Blank
                   /\ ~\E f \in db.folders : f.owner_id = owner /\ f.name = folder
      unknown == status \notin TorrentStatus \cup {Blank}
  IN  IF \/ ~IsUuid(param)
         \/ status = Blank /\ folder = Blank
         \/ hit # {} /\ (orphan \/ unknown)
      THEN Failed(db, "other")
      ELSE Done(Cardinality(hit),
                [db EXCEPT !.torrents = (@ \ hit) \cup {set(t) : t \in hit}])

TorrentDeleteRows(db, param, owner) ==
  LET hit == TorrentMatches(db, param, owner)
  IN  IF ~IsUuid(param)
      THEN Failed(db, "other")
      ELSE Done(Cardinality(hit), [db EXCEPT !.torrents = @ \ hit])

-----------------------------------------------------------------------------
(* Queries.                                                                *)

FolderColumns  == {"id", "owner_id", "date_created", "date_modified", "name"}
TorrentColumns == {"id", "folder", "owner_id", "date_created", "date_modified",
                   "info_hash", "source_url", "data", "status"}

\* The columns FolderGetAll and torrentSelect ask for.
FolderSelect  == {"id", "name"}
TorrentSelect == {"id", "folder", "title", "owner_id", "info_hash",
                  "source_url", "status"}

\* PostgreSQL rejects a query that names a column the table does not have.
FolderQueryRuns  == FolderSelect \subseteq FolderColumns
TorrentQueryRuns == TorrentSelect \subseteq TorrentColumns

FoldersOf(db, owner) ==
  {[id |-> f.id, name |-> f.name] : f \in {g \in db.folders : g.owner_id = owner}}

TorrentsOf(db, owner) == {t \in db.torrents : t.owner_id = owner}

TorrentsIn(db, owner, folder) == {t \in TorrentsOf(db, owner) : t.folder = folder}
=============================================================================
