------------------------------- MODULE MCRouter -------------------------------
(* Tables and requests for the router: all tables of at most MaxRoutes of a  *)
(* few routes chosen to overlap, and the table of setupRoutes.               *)
EXTENDS Router

CONSTANT MaxRoutes

(* The bytes are dot, slash and letters, in the order of ASCII. *)
Route(literals, breaks, wildcard, ms) ==
    [literals |-> literals, breaks |-> breaks, wildcard |-> wildcard, methods |-> ms]

GET == {"GET", "HEAD"}
POST == {"POST"}

Overlapping == {
    Route(<<<<2>>>>, <<>>, TRUE, GET),                       \* /*
    Route(<<<<2, 3>>>>, <<>>, FALSE, GET),                   \* /a
    Route(<<<<2, 3>>>>, <<>>, FALSE, POST),                  \* /a
    Route(<<<<2>>, <<>>>>, <<2>>, FALSE, GET),               \* /:x
    Route(<<<<2>>, <<1, 3>>>>, <<1>>, FALSE, POST),          \* /:x.a
    Route(<<<<2, 3, 4, 3, 4>>>>, <<>>, FALSE, GET),          \* /abab
    Route(<<<<2, 3, 4, 3>>>>, <<>>, FALSE, POST),            \* /aba
    Route(<<<<2, 3, 4, 3, 4, 2>>, <<2, 3>>>>, <<2>>, FALSE, GET), \* /abab/:x/a
    Route(<<<<2, 4, 2>>>>, <<>>, TRUE, POST)}                \* /b/*

Exhaustive == UNION {[1..n -> Overlapping] : n \in 0..MaxRoutes}

Paths == {<<2>>, <<2, 3>>, <<2, 4>>, <<2, 3, 4, 3>>, <<2, 3, 4, 3, 4>>, <<2, 3, 1, 3>>,
          <<2, 4, 2, 3>>, <<2, 3, 4, 3, 4, 2, 3, 2, 3>>, <<2, 3, 4, 3, 3>>}

Probes == [path : Paths, method : {"GET", "POST"}]

-----------------------------------------------------------------------------
(* The table of setupRoutes, with all the letters of its paths. *)
Users == <<2, 15, 13, 5, 12, 13>>
Tokens == <<2, 14, 11, 7, 5, 10, 13>>
Me == <<2, 9, 5>>
Folders == <<2, 6, 11, 8, 4, 5, 12, 13>>
Torrents == <<2, 14, 11, 12, 12, 5, 10, 14, 13>>
Data == <<2, 4, 3, 14, 3>>

Literal(path, ms) == Route(<<path>>, <<>>, FALSE, ms)
Below(path, ms) == Route(<<path \o <<2>>, <<>>>>, <<2>>, FALSE, ms)

setupRoutes == <<
    Literal(<<2>>, GET), Literal(Users, POST), Literal(Users \o Tokens, POST),
    Literal(Users \o Me, GET), Literal(Folders, GET), Literal(Folders, POST),
    Below(Folders, {"DELETE"}), Below(Folders, {"PUT"}), Below(Folders, GET),
    Route(<<Folders \o <<2>>, Torrents>>, <<2>>, FALSE, GET),
    Literal(Torrents, GET), Below(Torrents, GET),
    Route(<<Torrents \o <<2>>, Data>>, <<2>>, FALSE, GET),
    Literal(Torrents, POST), Below(Torrents, {"DELETE"}), Below(Torrents, {"PUT"})>>

Asked == [path : {<<2>>, Users, Users \o Tokens, Users \o Me, Folders, Folders \o Me,
                  Folders \o Me \o Torrents, Torrents, Torrents \o Me \o Data, Torrents \o Me,
                  Users \o Data, <<2, 6, 11, 8>>, <<2, 6, 11, 8>> \o Users},
          method : {"GET", "PUT"}]

-----------------------------------------------------------------------------
AllTables == Exhaustive \cup {setupRoutes}

(* The requests are of the bytes of the table they are sent to. *)
SentTo(table) == IF table # <<>> /\ IsPrefix(table, setupRoutes) THEN Asked ELSE Probes
=============================================================================
