----------------------------- MODULE MCWGServer -----------------------------
(* Instances of WGServer for TLC. *)
EXTENDS WGServer, TLC

Hosts == 2..3

Various ==
  {Fault, Fault \ {"wg"}, {"wg", "nat", "route"}, {}}
OnlyCrash == {{"crash"}}

Symmetry == Permutations(Name) \cup Permutations(Key)
=============================================================================
