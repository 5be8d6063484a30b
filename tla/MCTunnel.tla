------------------------------ MODULE MCTunnel ------------------------------
(* Instances of Tunnel for TLC. *)
EXTENDS Tunnel, TLC

Hasty ==
  [faults |-> FALSE, stubborn |-> FALSE, patient |-> FALSE, runs |-> 2,
   asks |-> [o \in Request |-> Kind]]
Storm == [Hasty EXCEPT !.faults = TRUE]
Rough == [Storm EXCEPT !.stubborn = TRUE, !.patient = TRUE, !.runs = 3]
Quiet == [Hasty EXCEPT !.patient = TRUE, !.runs = 3]

Lonely(e, kinds) ==
  [e EXCEPT !.runs = 2,
            !.asks = [o \in Request |->
                        IF o = CHOOSE p \in Request : TRUE THEN kinds ELSE {}]]

\* Requests that meet on the locks while wireproxy takes its time.
Crowd ==
  [Hasty EXCEPT !.stubborn = TRUE, !.runs = 1,
                !.asks = [o \in Request |-> {"stop", "delete"}]]

Safety == {Storm, Rough, Quiet}
Liveness ==
  {Lonely(Rough, Kind), Lonely(Quiet, Kind),
   Lonely(Hasty, {"restart", "disconnect"}), Crowd}
OnlyHasty == {Hasty}

Symmetry == Permutations(Run) \cup Permutations(Request)
=============================================================================
