--------------------------- MODULE MCServerParts ---------------------------
(* Two parts of the package wgserver, the routing controller and the        *)
(* allocation of addresses, the latter for all subnets when the last byte   *)
(* has three bits.  They share no state, so that their interleavings show   *)
(* nothing: either part moves while the other is where it began.            *)
EXTENDS Routing, Subnet

Everything == {Trouble, {"crash", "reboot"}}

PartsInit == Init /\ SubnetInit

RoutingAtRest == mode = "direct" /\ target = "none" /\ host.nat = Bare
SubnetAtRest == used = {} /\ ~refused

PartsNext ==
  \/ Next /\ SubnetAtRest /\ UNCHANGED subnetVars
  \/ SubnetNext /\ RoutingAtRest /\ UNCHANGED vars

PartsSpec == PartsInit /\ [][PartsNext]_<<vars, subnetVars>>
=============================================================================
