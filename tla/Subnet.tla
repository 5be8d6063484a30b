------------------------------- MODULE Subnet -------------------------------
(***************************************************************************)
(* The addresses wgserver hands out in a subnet: getServerIP, allocateIP   *)
(* and the release of an address when its peer is removed.  Both functions *)
(* only vary the last byte of the network address, so an address is that   *)
(* byte here, and a subnet is the last byte of its network address and the *)
(* number of its addresses, which is a power of two.                       *)
(***************************************************************************)
EXTENDS Naturals

CONSTANTS
  Values, \* the number of values of the last byte, 256 in the code
  Sizes   \* the sizes of the subnets considered

ASSUME SubnetAssumption ==
  /\ Values \in Nat /\ Values > 3
  /\ Sizes \subseteq Nat \ {0}

VARIABLES
  net,     \* the configured subnet
  used,    \* the addresses of the peers
  refused  \* did the last allocation fail?

subnetVars == <<net, used, refused>>

Byte == 0..(Values - 1)

\* Does ipNet contain the network address with b for its last byte?
Contains(n, b) == b \div n.size = n.base \div n.size

\* ParseCIDR clears the host bits.
Subnets == {n \in [base : Byte, size : Sizes] : n.base % n.size = 0}

\* getServerIP sets the last byte to 1.
ServerIP == 1

\* Mutant: the loop starts with the first address.
CandidatesFromZero == 0..(Values - 3)

\* Mutant: the loop stops one address earlier.
CandidatesShort == 2..(Values - 4)

\* The loop of allocateIP stops short of 254.
Candidates == 2..(Values - 3)

Free == {b \in Candidates : Contains(net, b) /\ b # ServerIP /\ b \notin used}

SubnetInit ==
  /\ net \in Subnets
  /\ used = {}
  /\ refused = FALSE

Allocate ==
  \/ /\ Free # {}
     /\ \E b \in Free :
          /\ \A c \in Free : b <= c
          /\ used' = used \cup {b}
     /\ refused' = FALSE
     /\ UNCHANGED net
  \/ /\ Free = {}
     /\ refused' = TRUE
     /\ UNCHANGED <<net, used>>

Release(b) ==
  /\ b \in used
  /\ used' = used \ {b}
  /\ refused' = FALSE
  /\ UNCHANGED net

SubnetNext == Allocate \/ \E b \in used : Release(b)

SubnetSpec == SubnetInit /\ [][SubnetNext]_subnetVars

-----------------------------------------------------------------------------

\* The addresses of the subnet a host may have, as far as they differ from the
\* network address in the last byte only.
Usable ==
  {b \in Byte :
     /\ Contains(net, b)
     /\ b # net.base
     /\ net.size <= Values => b # net.base + net.size - 1}

\* Where the last byte belongs to the host, the server and the clients have
\* usable addresses, neither the network's nor the broadcast address, and no
\* client has the server's.  In a subnet that splits this byte they may not:
\* of 10.0.0.128/25 the server gets 10.0.0.1 and the first client 10.0.0.128.
ClientsUsable ==
  net.size >= Values => used \cup {ServerIP} \subseteq Usable /\ ServerIP \notin used

\* "no available IPs in subnet" (server.go, the error of allocateIP) is the
\* answer only when every usable address of a /24 is in use, but for the last
\* one, .254, which the loop never tries.
RefusedWhenFull ==
  refused /\ net.size = Values => Usable \ {ServerIP, Values - 2} \subseteq used
=============================================================================
