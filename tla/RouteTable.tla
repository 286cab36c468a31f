------------------------------ MODULE RouteTable ------------------------------
(* The table of a goji router: each new route is put where a compiler that   *)
(* compares only neighbours finds routes of one prefix together, and routes  *)
(* that may match one path in the order of addition.                         *)
EXTENDS Integers, Sequences, SequencesExt, FiniteSetsExt

CONSTANT Tables    \* tables of routes: each a sequence in the order of addition

VARIABLES added,   \* the routes added so far, in order
          routes   \* their numbers as the router has sorted them

Patterns == UNION {{t[k] : k \in DOMAIN t} : t \in Tables}

(* The prefix of a pattern is a string of bytes. *)
ASSUME TablesAssumption ==
    /\ Tables \subseteq Seq(Patterns)
    /\ \A r \in Patterns : r.literals[1] \in Seq(Nat)

prefix(r) == added[r].literals[1]

Before(s, t) == \* s <= t for strings of bytes
    \/ IsPrefix(s, t)
    \/ \E k \in 1..Min({Len(s), Len(t)}) :
         s[k] < t[k] /\ SubSeq(s, 1, k - 1) = SubSeq(t, 1, k - 1)

(* A new route goes before the routes at the end that sort after it, up to   *)
(* one that may match the same path.                                         *)
insertion(pp) ==
    Max({0} \cup {k \in DOMAIN routes :
          LET rip == prefix(routes[k]) IN Before(rip, pp) \/ IsPrefix(pp, rip)})

InitTable == added = <<>> /\ routes = <<>>

insert(r) ==
    /\ added' = Append(added, r)
    /\ routes' = InsertAt(routes, insertion(r.literals[1]) + 1, Len(added) + 1)

(* The routes a table may have next. *)
Addable == {t[Len(added) + 1] : t \in {u \in Tables : IsStrictPrefix(added, u)}}

TableSpec == InitTable /\ [][\E r \in Addable : insert(r)]_<<added, routes>>

-----------------------------------------------------------------------------
(* handle, router.go: every route is in the table, and once; of two routes   *)
(* that some path may both match, the one added earlier comes before.        *)
RoutesInOrder ==
    /\ Len(routes) = Len(added)
    /\ \A n \in DOMAIN added : \E k \in DOMAIN routes : routes[k] = n
    /\ \A j, k \in DOMAIN routes :
         j < k /\ routes[k] <= routes[j] =>
           /\ ~IsPrefix(prefix(routes[j]), prefix(routes[k]))
           /\ ~IsPrefix(prefix(routes[k]), prefix(routes[j]))
=============================================================================
