----------------------------- MODULE MCManager ------------------------------
(* Instances of Manager for TLC. *)
EXTENDS Manager

Storm ==
  [serial |-> FALSE, fresh |-> FALSE, crash |-> FALSE, disk |-> TRUE,
   lastPort |-> 14]
Careless == [Storm EXCEPT !.serial = TRUE, !.crash = TRUE, !.lastPort = 16]
Forgetful == [Careless EXCEPT !.disk = FALSE]
Orderly == [Forgetful EXCEPT !.fresh = TRUE]

Safety == {Storm, Careless, Forgetful, Orderly}

Symmetry == Permutations(Name) \cup Permutations(Client)
=============================================================================
