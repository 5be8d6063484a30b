---------------------------- MODULE MCProxyServer ----------------------------
(* An instance of ProxyServer for TLC: two countries, one with two tunnels. *)
EXTENDS ProxyServer

CONSTANTS c1, c2, t1, t2, t3, NL, US

ThreeTunnels == <<t1, t2, t3>>
TheirCountries == (t1 :> US) @@ (t2 :> NL) @@ (t3 :> US)

\* Two clients of a server that stays up, one of a server in any trouble, and
\* one of a server that is closed as it should be.
Cases ==
  {[clients |-> {c1, c2}, auth |-> FALSE, taken |-> FALSE, closing |-> "never"],
   [clients |-> {c1}, auth |-> TRUE, taken |-> TRUE, closing |-> "any time"],
   [clients |-> {c1}, auth |-> FALSE, taken |-> TRUE, closing |-> "orderly"]}
=============================================================================
