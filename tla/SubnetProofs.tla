---------------------------- MODULE SubnetProofs ----------------------------
(***************************************************************************)
(* Theorems about Subnet, for a last byte of any number of values above    *)
(* three, and for subnets of any size.  That an allocation was refused     *)
(* means that nothing is free until an address is released: the part of    *)
(* the invariant that is not about types.                                  *)
(***************************************************************************)
EXTENDS Subnet, ModuloFacts

Inv ==
  /\ net \in Subnets
  /\ used \subseteq Candidates
  /\ refused \in BOOLEAN
  /\ refused => Free = {}

(* A number below the size of a block is in the first block. *)
LEMMA FirstBlock ==
  ASSUME NEW n \in Nat \ {0}, NEW b \in Nat, b < n
  PROVE  b \div n = 0 /\ b % n = b
<1> DEFINE q == b \div n
           r == b % n
<1>1. q \in Nat /\ r \in 0..(n - 1) /\ b = (n * q) + r
  BY DivMod
<1> HIDE DEF q, r
<1>2. q = 0 \/ q >= 1
  BY <1>1
<1>3. q >= 1 => n * q >= n
  BY <1>1
<1>4. q = 0
  BY <1>1, <1>2, <1>3
<1> QED  BY <1>1, <1>4 DEF q, r

(* The subnet of a network that leaves the whole last byte to its hosts. *)
LEMMA WholeByte ==
  ASSUME Inv, net.size >= Values
  PROVE  /\ net.base = 0 /\ net.size \in Nat
         /\ \A b \in Byte : Contains(net, b)
<1>1. /\ net.base \in Byte /\ net.size \in Nat \ {0}
      /\ net.base % net.size = 0 /\ Values \in Nat
  BY SubnetAssumption DEF Inv, Subnets
<1>2. \A b \in Byte : b \in Nat /\ b < net.size
  BY <1>1 DEF Byte
<1>3. net.base = 0
  <2>1. net.base % net.size = net.base
    BY <1>1, <1>2, FirstBlock
  <2> QED  BY <1>1, <2>1
<1>4. \A b \in Byte : b \div net.size = 0
  BY <1>1, <1>2, FirstBlock
<1> QED  BY <1>1, <1>3, <1>4 DEF Contains

LEMMA InitInv == SubnetInit => Inv
BY DEF SubnetInit, Inv

LEMMA NextInv == Inv /\ [SubnetNext]_subnetVars => Inv'
<1> SUFFICES ASSUME Inv, [SubnetNext]_subnetVars PROVE Inv'
  OBVIOUS
<1>1. CASE Allocate
  BY <1>1 DEF Allocate, Inv, Free
<1>2. ASSUME NEW b \in used, Release(b)
      PROVE  Inv'
  BY <1>2 DEF Release, Inv
<1>3. CASE UNCHANGED subnetVars
  BY <1>3 DEF subnetVars, Inv, Free
<1> QED  BY <1>1, <1>2, <1>3 DEF SubnetNext

THEOREM Invariance == SubnetSpec => []Inv
  BY InitInv, NextInv, PTL DEF SubnetSpec

(* In a /24 and in anything larger, server and clients have addresses of     *)
(* hosts, and no client has the server's.                                    *)
THEOREM HostAddresses == SubnetSpec => []ClientsUsable
<1>1. Inv => ClientsUsable
  <2> SUFFICES ASSUME Inv, net.size >= Values
               PROVE  /\ used \cup {ServerIP} \subseteq Usable
                      /\ ServerIP \notin used
    BY DEF ClientsUsable
  <2>1. /\ net.base = 0 /\ net.size \in Nat /\ Values \in Nat /\ Values > 3
        /\ \A b \in Byte : Contains(net, b)
    BY WholeByte, SubnetAssumption
  <2>2. used \subseteq 2..(Values - 3)
    BY DEF Inv, Candidates
  <2>3. ASSUME NEW b \in 1..(Values - 3)
        PROVE  b \in Usable
    <3>1. b \in Byte /\ b # 0 /\ b # Values - 1 /\ b # 0 + Values - 1
      BY <2>1 DEF Byte
    <3>2. net.size <= Values => net.size = Values
      BY <2>1
    <3> QED  BY <2>1, <3>1, <3>2 DEF Usable
  <2>4. 1 \in 1..(Values - 3) /\ 2..(Values - 3) \subseteq 1..(Values - 3)
        /\ 1 \notin 2..(Values - 3)
    BY <2>1
  <2> QED  BY <2>2, <2>3, <2>4 DEF ServerIP
<1> QED  BY <1>1, Invariance, PTL

(* "no available IPs in subnet" is said of a /24 only when its 252 clients   *)
(* have all their addresses, of which .254 is not one.                       *)
THEOREM FullWhenRefused == SubnetSpec => []RefusedWhenFull
<1>1. Inv => RefusedWhenFull
  <2> SUFFICES ASSUME Inv, refused, net.size = Values,
                      NEW b \in Usable \ {ServerIP, Values - 2}
               PROVE  b \in used
    BY DEF RefusedWhenFull
  <2>1. /\ net.base = 0 /\ Values \in Nat /\ Values > 3
        /\ \A c \in Byte : Contains(net, c)
    BY WholeByte, SubnetAssumption
  <2>2. b \in Byte /\ b # 0 /\ b # Values - 1 /\ b # 1 /\ b # Values - 2
    BY <2>1 DEF Usable, ServerIP
  <2>3. b \in Candidates
    BY <2>1, <2>2 DEF Byte, Candidates
  <2>4. Free = {}
    BY DEF Inv
  <2> QED  BY <2>1, <2>2, <2>3, <2>4 DEF Free, ServerIP
<1> QED  BY <1>1, Invariance, PTL
=============================================================================
