---------------------------- MODULE MCQueryCache ----------------------------
(***************************************************************************)
(* Instances of QueryCache for TLC.  The seeds have the shape of dev.sql:  *)
(* folders of a user and torrents that are in them.                        *)
(***************************************************************************)
EXTENDS QueryCache, TLC

CONSTANTS u1, u2, i1, i2, i3, n1, r1, r2

FolderRow(i, u, n)  == [id |-> i, owner_id |-> u, name |-> n]
TorrentRow(i, u, n) == [id |-> i, owner_id |-> u, folder |-> n, status |-> "new"]

NoRows == {}

OneFolder    == {FolderRow(i1, u1, n1)}
OneTorrent   == {TorrentRow(i2, u1, n1)}

\* No action and no property tells one reply from another.
RepliesApart == <<db, issued, cache, registered, op, got, fills, writes, delivered,
                  past, cut, faults, [r \in Requests |-> IF Busy(r) THEN pc[r] ELSE "idle"]>>

AnyRequest == Permutations(Requests)

FolderCalls  == FolderReads \cup FolderWrites

\* TorrentGet and TorrentGetByFolder fail as TorrentGetAll does.
MostCalls == FolderCalls \cup {"TorrentGetAll"} \cup TorrentWrites
=============================================================================
