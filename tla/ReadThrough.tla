---------------------------- MODULE ReadThrough ----------------------------
(***************************************************************************)
(* What db_utils.go and cache_utils.go promise a client, without requests, *)
(* pipelines or faults: tables of which each user changes the own rows,    *)
(* and a view of each read that shows some answer the read has had.  A     *)
(* view is filled or dropped on its own: the promise does not tie it to    *)
(* the writes.                                                             *)
(***************************************************************************)
CONSTANTS Users,
          Reads,            \* the reads clients can ask for
          Start,            \* the database at the start
          Answers(_, _),    \* the answers of a read on a database: one or none
          RowsOf(_, _),     \* the rows of a user
          SchemaHolds(_)    \* the schema's constraints

VARIABLES db,       \* the tables
          past,     \* the answers each read has had
          view      \* the answer shown for a read, for the reads that have one

Init ==
  /\ db = Start
  /\ past = [q \in Reads |-> Answers(Start, q)]
  /\ view = << >>

\* The rows of one user change, and the schema's constraints still hold.
Write ==
  /\ UNCHANGED view
  /\ \E u \in Users : \A w \in Users \ {u} : RowsOf(db', w) = RowsOf(db, w)
  /\ SchemaHolds(db')
  /\ past' = [q \in Reads |-> past[q] \cup Answers(db', q)]

Fill ==
  /\ UNCHANGED <<db, past>>
  /\ \E q \in Reads : \E a \in past[q] :
       view' = [p \in DOMAIN view \cup {q} |-> IF p = q THEN a ELSE view[p]]

Drop ==
  /\ UNCHANGED <<db, past>>
  /\ \E kept \in SUBSET DOMAIN view : view' = [p \in kept |-> view[p]]

Spec == Init /\ [][Drop \/ Fill \/ Write]_<<db, past, view>>
=============================================================================
