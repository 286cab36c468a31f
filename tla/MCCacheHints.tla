---------------------------- MODULE MCCacheHints ----------------------------
(***************************************************************************)
(* The hints of cache_utils.go against reference definitions, over small   *)
(* inputs.  The state is one write and one read under consideration.       *)
(***************************************************************************)
EXTENDS CacheHints

CONSTANTS Words,    \* what clients write, besides the pieces the code writes
          Texts     \* what they put in a field

Pieces == FieldNames \cup {"folders", "torrents", "u", "v", "x"}
            \cup {"rkeys", "%!s(MISSING)", "|", "=", "%v"} \cup Words

ASSUME TextsAssumption == Texts \subseteq Seq(Pieces)

\* The last is spelled like the field a followed by three blank ones.
SomeTexts == {<< >>, <<"a">>,
              <<"a", "|", "ID", "=", "%v", "|", "InfoHash", "=", "%v", "|", "Status", "=", "%v">>}

\* The hints of the records the API builds.
Hints == {FolderHint("u", i, n) : i, n \in Texts}
           \cup {TorrentHint(u, i, f, h, s) : u \in {"u", "v"}, i, f \in Texts,
                                              h, s \in {<< >>, <<"x">>}}

\* Hints of record types with fewer fields.
Narrower(h) == {[h EXCEPT !.params = [k \in S |-> h.params[k]]] :
                  S \in SUBSET DOMAIN h.params}

Lists == {sortedKeyList([k \in S |-> << >>]) : S \in SUBSET FieldNames}

VARIABLES write, read, list
considered == <<write, read, list>>

HintsInit == /\ write \in Hints
        /\ read \in UNION {Narrower(h) : h \in Hints}
        /\ list \in {l \in Lists : Len(l) <= subsetsMaxSize}

HintsNext == UNCHANGED considered

HintsSpec == HintsInit /\ [][HintsNext]_considered

Elements(l) == {l[i] : i \in 1..Len(l)}

\* subsets() reads the bits of a counter with float64 logarithms and shifts: it
\* returns each set of the elements of the list.
SubsetsAreAll == subsets(list) = SUBSET Elements(list)

\* The read's hint holds no parameter but the write's.
Restricts(r, w) ==
  \A k \in DOMAIN r.params : k \in DOMAIN w.params /\ w.params[k] = r.params[k]

\* No text of the hint looks like parameters.
Bare(text) == "|" \notin Elements(text)
Plain(h)   == \A k \in DOMAIN h.params : Bare(h.params[k])

\* A write reaches every cached read of its table and owner whose parameters are
\* among its own, whatever the texts are, and never one of another table or
\* owner.  The values are not escaped, so that it may reach more than these; it
\* does not when no text holds a "|".
EvictsRestrictions ==
  LET reached == cacheMakeInvalidateKey(read) \in RelatedKeys(write)
      own     == read.table = write.table /\ read.userID = write.userID
  IN  /\ own /\ Restricts(read, write) => reached
      /\ reached => own
      /\ reached /\ Plain(read) /\ Plain(write) => Restricts(read, write)
=============================================================================
