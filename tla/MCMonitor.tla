----------------------------- MODULE MCMonitor -----------------------------
(* An instance of Dashboard, and the HealthChecker it extends, for TLC.     *)
EXTENDS Dashboard

CONSTANTS t1, t2, d1, d2, b1, b2

TwoTunnels == <<t1, t2>>

(***************************************************************************)
(* A case takes what it is about: two tunnels of which one deep check      *)
(* probes one at a time; one tunnel and two overlapping deep checks;       *)
(* look-ups of the exit address; a browser and requests that change what   *)
(* it is shown; two browsers.                                              *)
(***************************************************************************)
Case(tunnels, slots, links) ==
  [tunnels |-> tunnels, slots |-> slots, links |-> links,
   looks |-> FALSE, requests |-> FALSE, checks |-> TRUE, watched |-> {}]

Cases ==
  {Case({t1, t2}, {d1}, {"tcp", "https"}),
   [Case({t1}, {d1, d2}, {"down", "https"}) EXCEPT !.requests = TRUE],
   [Case({t1}, {}, {"down", "tcp"}) EXCEPT !.looks = TRUE, !.requests = TRUE],
   [Case({t1}, {}, {"tcp"}) EXCEPT !.checks = FALSE, !.requests = TRUE,
                                   !.watched = {b1}],
   [Case({t1}, {}, {"tcp"}) EXCEPT !.checks = FALSE, !.watched = {b1, b2}]}
=============================================================================
