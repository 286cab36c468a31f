----------------------------- MODULE CacheHints -----------------------------
(***************************************************************************)
(* The cache hints of cache_utils.go.  Every record the API stores or      *)
(* looks up carries a hint: its table, its owner and a map of parameters.  *)
(* A cached query is registered under the key made of its hint, and a      *)
(* write deletes what is registered under its own hint and under every     *)
(* hint obtained by dropping some of its parameters.                       *)
(*                                                                         *)
(* A Go string is the sequence of the pieces it is put together from: the  *)
(* empty string is the empty sequence, concatenation is \o, and a text of  *)
(* a client may hold the pieces the code itself writes.                    *)
(***************************************************************************)
EXTENDS Integers, Sequences, FiniteSets

\* The most parameters subsets() accepts: it panics on a longer list.
subsetsMaxSize == 4

\* fmt.Sprint concatenates its operands: it does not interpret a format.
Sprint(format, text) == <<format>> \o text

\* A hint from the fields of a record (a function from names to strings).
\* A parameter is kept only if the string made for it is not empty.
cacheHintMake(table, userID, fields) ==
  LET strv(k) == Sprint("%v", fields[k])
      kept    == {k \in DOMAIN fields : strv(k) # << >>}
  IN  [table |-> table, userID |-> userID, params |-> [k \in kept |-> strv(k)]]

\* The record types that have hints.
FolderHint(owner, id, name) ==
  cacheHintMake("folders", owner, [ID |-> id, Name |-> name])

TorrentHint(owner, id, folder, infoHash, status) ==
  cacheHintMake("torrents", owner,
                [ID |-> id, Folder |-> folder, InfoHash |-> infoHash, Status |-> status])

-----------------------------------------------------------------------------
FieldNames == {"Folder", "ID", "InfoHash", "Name", "Status"}

\* What a loop over the names in the order of sort.Strings puts together.
Sorted(Part(_)) ==
  Part("Folder") \o Part("ID") \o Part("InfoHash") \o Part("Name") \o Part("Status")

sortedKeyList(params) ==
  LET Kept(k) == IF k \in DOMAIN params THEN <<k>> ELSE << >>
  IN  Sorted(Kept)

\* Mutant: the loop stops before the highest bit.
SubsetAtLow(list, i) ==
  LET maxBits == CHOOSE b \in 0..i : 2^b <= i /\ i < 2^(b + 1)
  IN  {list[j + 1] : j \in {j \in 0..(maxBits - 1) : (i \div 2^j) % 2 = 1}}

\* The subset that the bits of i select from list, i > 0.
SubsetAt(list, i) ==
  LET maxBits == CHOOSE b \in 0..i : 2^b <= i /\ i < 2^(b + 1)
  IN  {list[j + 1] : j \in {j \in 0..maxBits : (i \div 2^j) % 2 = 1}}

\* All the subsets of list, the empty one first.
subsets(list) == {{}} \cup {SubsetAt(list, i) : i \in 1..(2^Len(list) - 1)}

submaps(params) ==
  {[k \in S |-> params[k]] : S \in subsets(sortedKeyList(params))}

\* Mutant: the owner is left out of the related hints.
relatedHintsOfAll(hint) ==
  {hint} \cup {[table |-> hint.table, userID |-> "", params |-> sub] :
                 sub \in submaps(hint.params)}

cacheMakeRelatedCacheHints(hint) ==
  {hint} \cup {[table |-> hint.table, userID |-> hint.userID, params |-> sub] :
                 sub \in submaps(hint.params)}

\* The name of the Redis set a hint stands for.  Its format has a verb more than
\* arguments, and the values follow as they are: one that holds a "|" is spelled
\* like several parameters.
cacheMakeInvalidateKey(hint) ==
  LET Spelled(k) == IF k \in DOMAIN hint.params
                    THEN <<"|", k, "=">> \o hint.params[k] ELSE << >>
  IN  <<"rkeys", "|", hint.table, "|", hint.userID, "|", "%!s(MISSING)">> \o Sorted(Spelled)

\* Go panics in subsets(), so that nothing is invalidated, on a longer list.
SubsetsPanics(hint) == Cardinality(DOMAIN hint.params) > subsetsMaxSize

\* The Redis sets a write with this hint empties.
RelatedKeys(hint) ==
  {cacheMakeInvalidateKey(h) : h \in cacheMakeRelatedCacheHints(hint)}
=============================================================================
