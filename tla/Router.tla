-------------------------------- MODULE Router --------------------------------
(* The router of goji with its own compiler and its own patterns, which are  *)
(* strings with parameters.                                                  *)
EXTENDS RouteCompiler, RouteMachine

RECURSIVE Matches(_, _, _)

(* stringPattern.match from its k-th parameter on: literals and parameters   *)
(* alternate; a parameter is not empty and ends before a break or a slash.   *)
Slash == 2
Matches(s, k, path) ==
    IF k > Len(s.breaks)
      THEN IF s.wildcard THEN IsPrefix(s.literals[k], path) ELSE path = s.literals[k]
      ELSE LET rest == SubSeq(path, Len(s.literals[k]) + 1, Len(path))
               m == Min({Len(rest) + 1} \cup
                        {j \in DOMAIN rest : rest[j] \in {s.breaks[k], Slash}})
           IN /\ IsPrefix(s.literals[k], path)
              /\ m > 1
              /\ Matches(s, k + 1, SubSeq(rest, m, Len(rest)))

MatchString(s, path) == Matches(s, 1, path)
=============================================================================
