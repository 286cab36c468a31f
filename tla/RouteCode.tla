------------------------------- MODULE RouteCode -------------------------------
(* The code that a goji router compiles its routes into, and what makes such *)
(* a code one that searches the routes.  Instructions are numbered from 0    *)
(* and routes from 1, so that 0 is no route.  Bytes are numbers.             *)
EXTENDS Integers, Sequences, SequencesExt

NoRoute == 0
EndOfCode == -1 \* the index that is resolved late, or never: then it fails

Modes == {"jump", "route", "cursor", "fail"}
Instructions == [mode : SUBSET Modes, bs : Seq(Nat), i : Int]

Instruction(mode, bs, i) == [mode |-> mode, bs |-> bs, i |-> i]

-----------------------------------------------------------------------------
(* The labels of a code.                                                     *)

Places(code) == 0..(Len(code) - 1)

Enters(ins) == "jump" \in ins.mode /\ ins.bs # <<>>   \* into the code of a child
Resumes(ins) == "jump" \in ins.mode /\ ins.bs = <<>>  \* at the next segment

(* What a path is known to start with when instruction k is reached: all the *)
(* bytes of the children that were entered on the way.                       *)
Known(code) ==
    LET known[k \in Nat] ==
          IF k = 0 THEN <<>>
          ELSE LET ins == code[k]
                   from == {j \in 0..(k - 2) : Enters(code[j + 1]) /\ code[j + 1].i = k}
                   parent == CHOOSE j \in from : TRUE
               IN IF Enters(ins) \/ ins.mode \cap {"cursor", "route"} # {} THEN known[k - 1]
                  ELSE IF "jump" \notin ins.mode THEN known[k - 1] \o ins.bs
                  ELSE IF from = {} THEN <<>>
                  ELSE known[parent] \o code[parent + 1].bs
    IN [k \in Places(code) |-> known[k]]

(* How many of n routes are behind when instruction k is reached: those up   *)
(* to the route just tried, or before the next that is if all bytes match.   *)
Behind(code, n) ==
    LET behind[left \in Nat, k \in Int] ==
          IF left = 0 \/ k \notin Places(code) THEN n
          ELSE LET ins == code[k + 1] IN
               IF "route" \in ins.mode THEN ins.i - 1
               ELSE behind[left - 1, IF "jump" \in ins.mode THEN ins.i ELSE k + 1]
    IN [k \in Places(code) |->
          IF k > 0 /\ "route" \in code[k].mode THEN code[k].i ELSE behind[Len(code), k]]

(* The cursor may be anywhere before these instructions. *)
Loose(ins) == "cursor" \in ins.mode \/ Resumes(ins)

-----------------------------------------------------------------------------
(* What the labels of a code have to satisfy, instruction by instruction.    *)

Comparable(s, t) == IsPrefix(s, t) \/ IsPrefix(t, s)

(* The next instruction has the same label, or the one with a route more. *)
Sequel(code, known, behind, k, tried) ==
    /\ k + 1 \in Places(code)
    /\ known[k + 1] = known[k]
    /\ behind[k + 1] = behind[k] + tried

(* The cursor is set to the end of what is known. *)
SetsCursor(code, known, behind, k) ==
    /\ code[k + 1].i = Len(known[k])
    /\ Sequel(code, known, behind, k, 0)

(* A route is tried where its prefix is known to match, and is the next one. *)
TriesNext(code, prefixes, known, behind, k) ==
    /\ code[k + 1].bs = <<>> /\ "jump" \notin code[k + 1].mode
    /\ code[k + 1].i = behind[k] + 1
    /\ behind[k] + 1 \in DOMAIN prefixes
    /\ IsPrefix(prefixes[behind[k] + 1], known[k])
    /\ Sequel(code, known, behind, k, 1)

(* Where a jump or a run of bytes goes, as its bytes match or do not, no     *)
(* route is left behind that the path may match, and the cursor is right.    *)
Branches(code, prefixes, known, behind, k, matches) ==
    LET ins == code[k + 1]
        all == known[k] \o ins.bs
        holds == IF matches THEN all ELSE known[k]
        Past(n) == /\ behind[k] <= n
                   /\ \A j \in (behind[k] + 1)..n :
                        \/ ~Comparable(prefixes[j], holds)
                        \/ ~matches /\ IsPrefix(all, prefixes[j])
        To(t) == /\ t \in Places(code)
                 /\ IF Loose(code[t + 1]) THEN IsPrefix(known[t], holds)
                    ELSE ~Loose(ins) /\ known[t] = holds
                 /\ Past(behind[t])
    IN IF matches # ("jump" \in ins.mode) THEN To(k + 1)
       ELSE IF "fail" \in ins.mode THEN Past(Len(prefixes))
       ELSE To(ins.i)

Labelled(code, prefixes, known, behind, k) ==
    LET ins == code[k + 1] IN
    IF "cursor" \in ins.mode THEN SetsCursor(code, known, behind, k)
    ELSE IF "route" \in ins.mode THEN TriesNext(code, prefixes, known, behind, k)
    ELSE /\ Branches(code, prefixes, known, behind, k, TRUE)
         /\ ins.bs # <<>> => Branches(code, prefixes, known, behind, k, FALSE)

(* The code searches the routes with these prefixes. *)
Searches(code, prefixes) ==
    LET known == Known(code)
        behind == Behind(code, Len(prefixes))
    IN /\ code \in Seq(Instructions)
       /\ (code = <<>>) <=> (prefixes = <<>>)
       /\ code # <<>> => known[0] = <<>> /\ behind[0] = 0
       /\ \A k \in Places(code) :
            /\ known[k] \in Seq(Nat)
            /\ behind[k] \in 0..Len(prefixes)
            /\ Labelled(code, prefixes, known, behind, k)
=============================================================================
