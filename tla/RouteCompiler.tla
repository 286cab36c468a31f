---------------------------- MODULE RouteCompiler ----------------------------
(* The router of goji compiles the prefixes of its routes, in the order of   *)
(* the routes, into a trie and the trie into a machine: instructions of up   *)
(* to three bytes, flags and an index.                                       *)
EXTENDS RouteCode, FiniteSetsExt

RECURSIVE buildTrie(_, _, _), buildTrieSegment(_, _, _), encode(_, _, _)

(* The routes that end at depth dp split the others into segments; those     *)
(* before the first are in a segment without a route.  dr routes are to the  *)
(* left of these.                                                            *)
buildTrie(prefixes, dp, dr) ==
    LET ending == {k \in DOMAIN prefixes : Len(prefixes[k]) = dp}
        starts == SetToSortSeq(IF 1 \in ending THEN ending ELSE {0} \cup ending, <)
        end(n) == IF n = Len(starts) THEN Len(prefixes) ELSE starts[n + 1] - 1
    IN [n \in DOMAIN starts |->
          [route |-> IF starts[n] = 0 THEN NoRoute ELSE dr + starts[n],
           children |-> buildTrieSegment(SubSeq(prefixes, starts[n] + 1, end(n)),
                                         dp, dr + starts[n])]]

(* Neighbours that share their next byte become one child, under all they    *)
(* have in common; routes are never moved past one another.                  *)
buildTrieSegment(prefixes, dp, dr) ==
    IF prefixes = <<>> THEN <<>>
    ELSE LET rest(k) == SubSeq(prefixes[k], dp + 1, Len(prefixes[k]))
             n == Max({k \in DOMAIN prefixes : \A j \in 1..k : rest(j)[1] = rest(1)[1]})
             p == LongestCommonPrefix({rest(k) : k \in 1..n})
         IN <<[prefix |-> p,
               segments |-> buildTrie(SubSeq(prefixes, 1, n), dp + Len(p), dr)]>>
            \o buildTrieSegment(SubSeq(prefixes, n + 1, Len(prefixes)), dp, dr + n)

-----------------------------------------------------------------------------
(* At most three bytes of a prefix. *)
Bytes(p, first) == SubSeq(p, first, Min({first + 2, Len(p)}))

(* What is left of a prefix after its first three bytes, three at a time. *)
Chunks(p) ==
    [k \in 1..((Len(p) - 1) \div 3) |-> Instruction({}, Bytes(p, 3 * k + 1), EndOfCode)]

(* The code of a segment: it sets the cursor, tries the route and jumps to a *)
(* child; the code of the children is collected in sub.                      *)
encodeSegment(ts, dp) ==
    LET route == IF ts.route = NoRoute THEN <<>>
                 ELSE <<Instruction({"route"}, <<>>, ts.route)>>
        Child(code, t) ==
            LET sub == code.sub \o Chunks(t.prefix) IN
            [me |-> Append(code.me, Instruction({"jump"}, Bytes(t.prefix, 1), Len(code.sub))),
             sub |-> sub \o encode(t.segments, dp + Len(t.prefix), Len(sub))]
        start == <<Instruction({"cursor"}, <<>>, dp)>>
    IN FoldLeft(Child, [me |-> start \o route, sub |-> <<>>], ts.children)

\* Mutant: code that finds nothing resumes at its own segment.
ResolveAgain(code, before, shift, next) ==
    [j \in DOMAIN code |->
       IF code[j].mode \cap {"route", "cursor"} # {} THEN code[j]
       ELSE IF code[j].i = EndOfCode THEN [code[j] EXCEPT !.i = before]
       ELSE [code[j] EXCEPT !.i = @ + shift]]

(* The jumps of code that is moved by shift; those that end it go to next. *)
Resolve(code, before, shift, next) ==
    [j \in DOMAIN code |->
       IF code[j].mode \cap {"route", "cursor"} # {} THEN code[j]
       ELSE IF code[j].i = EndOfCode THEN [code[j] EXCEPT !.i = next]
       ELSE [code[j] EXCEPT !.i = @ + shift]]

(* The code of a trie: that of its segments, an end, and the code of their   *)
(* children, which resumes at the next segment when it finds nothing.        *)
encode(segments, dp, off) ==
    LET code == [n \in DOMAIN segments |-> encodeSegment(segments[n], dp)]
        me(n) == FlattenSeq([k \in 1..n |-> code[k].me])
        sub(n) == FlattenSeq([k \in 1..n |-> code[k].sub])
        children(n) == off + Len(me(Len(segments))) + 1 + Len(sub(n - 1))
    IN FlattenSeq([n \in DOMAIN segments |->
           Resolve(code[n].me, off, children(n), EndOfCode)])
       \o <<Instruction({"jump"}, <<>>, EndOfCode)>>
       \o FlattenSeq([n \in DOMAIN segments |->
           Resolve(code[n].sub, off + Len(me(n - 1)), children(n), off + Len(me(n)))])

(* An index that is still open is one that fails. *)
compile(prefixes) ==
    LET code == encode(buildTrie(prefixes, 0, 0), 0, 0) IN
    IF prefixes = <<>> THEN <<>>
    ELSE [k \in DOMAIN code |->
            IF code[k].i = EndOfCode THEN [code[k] EXCEPT !.mode = @ \cup {"fail"}] ELSE code[k]]
=============================================================================
