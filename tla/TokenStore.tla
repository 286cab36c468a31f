----------------------------- MODULE TokenStore -----------------------------
(***************************************************************************)
(* What accessTokens.go promises the rest of the server, without stores,   *)
(* requests or faults: tokens that are made once and never change, and     *)
(* grants of them.  A deletion may take effect or not; it takes effect on  *)
(* tokens of one user, and they are never granted again.                   *)
(***************************************************************************)
CONSTANTS Users, Secrets, Access

VARIABLES tokens,   \* the tokens ever made
          deleted,  \* the secrets of those that are deleted for good
          grants    \* the tokens clients were let in with, and still may be

Init == tokens = {} /\ deleted = {} /\ grants = {}

Make ==
  /\ \E s \in Secrets, u \in Users, a \in Access :
       /\ \A t \in tokens : t.secret # s
       /\ tokens' = tokens \cup {[secret |-> s, user |-> u, access |-> a]}
  /\ UNCHANGED <<deleted, grants>>

Grant ==
  /\ \E t \in tokens : t.secret \notin deleted /\ grants' = grants \cup {t}
  /\ UNCHANGED <<tokens, deleted>>

Delete ==
  /\ \E u \in Users :
       deleted' \in {deleted \cup {t.secret : t \in T} : T \in SUBSET {t \in tokens : t.user = u}}
  /\ grants' = {g \in grants : g.secret \notin deleted'}
  /\ UNCHANGED tokens

Spec == Init /\ [][Make \/ Grant \/ Delete]_<<tokens, deleted, grants>>
=============================================================================
