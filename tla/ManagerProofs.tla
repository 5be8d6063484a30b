--------------------------- MODULE ManagerProofs ----------------------------
(***************************************************************************)
(* Theorems about Manager, for any number of names, clients and ports.     *)
(*                                                                         *)
(* Ports: they only increase along the list, and differ between all the    *)
(* tunnels anybody still knows of, requests under way included (Known).    *)
(*                                                                         *)
(* Requests for one tunnel at a time: what a request has found stays the   *)
(* first tunnel of its name while requests for other names move the list   *)
(* (Midway).  The rest says what a request under way has already changed   *)
(* in the directory (Filed, Distinct), so that list and directory agree    *)
(* again when it returns.                                                  *)
(***************************************************************************)
EXTENDS Manager, FiniteSetTheorems, TLAPS

Known ==
  Listed \cup starting \cup alive \cup UNION {req[c].found : c \in Client}

Ports ==
  /\ \A i, j \in DOMAIN tunnels : i < j => tunnels[i].port < tunnels[j].port
  /\ \A t \in Known : t.port < nextPort
  /\ \A t, u \in Known : t.port = u.port => t = u

Named == \A c \in Client : ~At(c, "idle") => req[c].name \in Name

Inv == TypeOK /\ Named /\ Ports

Stopping == {"restart", "disconnect", "delete", "remove", "unlist"}

\* A tunnel has one request at a time, and no start meanwhile.
Alone ==
  /\ \A c, d \in Client :
       ~At(c, "idle") /\ ~At(d, "idle") /\ req[c].name = req[d].name => c = d
  /\ \A c \in Client : At(c, "idle") \/ \A t \in starting : t.name # req[c].name

Reachable == starting \subseteq Listed /\ alive \subseteq Listed

Midway ==
  \A c \in Client :
    /\ req[c].at \in Stopping =>
         req[c].found = First(req[c].name) /\ req[c].found # {}
    /\ req[c].at \in {"remove", "unlist"} => alive \cap req[c].found = {}

Serial == env.serial => Alone /\ Reachable /\ Midway

Filed ==
  /\ kept \subseteq disk
  /\ \A n \in disk \ Names : \E c \in Client : At(c, "append") /\ req[c].name = n
  /\ \A c \in Client :
       /\ At(c, "append") => req[c].name \in disk
       /\ At(c, "unlist") => req[c].name \notin disk
       /\ req[c].at \in {"delete", "remove", "unlist"} => req[c].name \notin kept

\* When imports bring new names only.
Distinct ==
  /\ \A t, u \in Listed : t.name = u.name => t = u
  /\ \A c \in Client : req[c].at \in {"write", "append"} => req[c].name \notin Names
  /\ \A n \in Names \ disk : \E c \in Client : At(c, "unlist") /\ req[c].name = n

Matched == OneByOne => Filed /\ (env.fresh => Distinct)

ReqType ==
  [at : {"idle", "write", "append", "restart", "disconnect", "delete",
         "remove", "unlist"},
   name : Name \cup {""}, found : SUBSET Tunnel]

-----------------------------------------------------------------------------
(* What the operations on the list do to it. *)

(* append(m.tunnels[:i], m.tunnels[i+1:]...) closes the gap. *)
LEMMA RemoveAtFacts ==
  ASSUME NEW T, NEW s \in Seq(T), NEW i \in DOMAIN s
  PROVE  /\ RemoveAt(s, i) \in Seq(T)
         /\ DOMAIN RemoveAt(s, i) = 1..(Len(s) - 1)
         /\ \A k \in 1..(Len(s) - 1) :
              RemoveAt(s, i)[k] = IF k < i THEN s[k] ELSE s[k + 1]
<1>1. Len(s) \in Nat /\ i \in 1..Len(s) /\ i \in Nat
  OBVIOUS
<1>2. /\ SubSeq(s, 1, i - 1) \in Seq(T)
      /\ Len(SubSeq(s, 1, i - 1)) = i - 1
      /\ \A k \in 1..(i - 1) : SubSeq(s, 1, i - 1)[k] = s[k]
  BY <1>1
<1>3. /\ SubSeq(s, i + 1, Len(s)) \in Seq(T)
      /\ Len(SubSeq(s, i + 1, Len(s))) = Len(s) - i
      /\ \A k \in 1..(Len(s) - i) : SubSeq(s, i + 1, Len(s))[k] = s[k + i]
  BY <1>1
<1> DEFINE a == SubSeq(s, 1, i - 1)
           b == SubSeq(s, i + 1, Len(s))
<1> HIDE DEF a, b
<1>4. /\ a \o b \in Seq(T) /\ Len(a \o b) = Len(s) - 1
      /\ \A k \in 1..(Len(s) - 1) :
           (a \o b)[k] = IF k < i THEN s[k] ELSE s[k + 1]
  <2>1. /\ a \in Seq(T) /\ Len(a) = i - 1
        /\ \A k \in 1..(i - 1) : a[k] = s[k]
        /\ b \in Seq(T) /\ Len(b) = Len(s) - i
        /\ \A k \in 1..(Len(s) - i) : b[k] = s[k + i]
    BY <1>2, <1>3 DEF a, b
  <2>2. a \o b \in Seq(T) /\ Len(a \o b) = Len(s) - 1
    BY <1>1, <2>1
  <2>3. ASSUME NEW k \in 1..(Len(s) - 1)
        PROVE  (a \o b)[k] = IF k < i THEN s[k] ELSE s[k + 1]
    <3>1. CASE k < i
      BY <1>1, <2>1, <3>1
    <3>2. CASE ~(k < i)
      <4>1. (a \o b)[k] = b[k - (i - 1)]
        BY <1>1, <2>1, <3>2
      <4>2. b[k - (i - 1)] = s[(k - (i - 1)) + i]
        BY <1>1, <2>1, <3>2
      <4>3. (k - (i - 1)) + i = k + 1
        BY <1>1
      <4> QED  BY <1>1, <3>2, <4>1, <4>2, <4>3
    <3> QED  BY <3>1, <3>2
  <2> QED  BY <2>2, <2>3
<1>5. DOMAIN (a \o b) = 1..(Len(s) - 1)
  BY <1>4
<1>6. RemoveAt(s, i) = a \o b
  BY DEF RemoveAt, a, b
<1> QED  BY <1>4, <1>5, <1>6

(* LoadConfigs gives each file one tunnel, and consecutive ports. *)
LEMMA LoadedFacts ==
  ASSUME NEW names \in SetToSeqs(disk), disk \subseteq Name
  PROVE  /\ Cardinality(disk) \in Nat
         /\ Loaded(names) \in Seq(Tunnel)
         /\ DOMAIN Loaded(names) = 1..Cardinality(disk)
         /\ \A i \in 1..Cardinality(disk) :
              /\ Loaded(names)[i].name = names[i]
              /\ Loaded(names)[i].port = (basePort + i) - 1
         /\ \A i, j \in 1..Cardinality(disk) : names[i] = names[j] => i = j
         /\ {names[i] : i \in 1..Cardinality(disk)} = disk
<1> DEFINE n == Cardinality(disk)
<1>1. IsFiniteSet(disk) /\ n \in Nat
  BY ManagerAssumption, FS_Subset, FS_CardinalityType
<1>2. /\ names \in [1..n -> disk]
      /\ \A i, j \in 1..n : i # j => names[i] # names[j]
  BY DEF SetToSeqs
<1>3. names \in Surjection(1..n, disk)
  <2>1. names \in Injection(1..n, disk)
    BY <1>2 DEF Injection, IsInjective
  <2>2. Cardinality(1..n) = n
    BY <1>1, FS_Interval
  <2> QED  BY <1>1, <2>1, <2>2, FS_Injection
<1> HIDE DEF n
<1>4. \A i \in 1..n :
        /\ (basePort + i) - 1 \in Nat
        /\ [name |-> names[i], port |-> (basePort + i) - 1] \in Tunnel
  BY <1>1, <1>2, ManagerAssumption DEF Tunnel
<1>5. Loaded(names) = [i \in 1..n |->
        [name |-> names[i], port |-> (basePort + i) - 1]]
  BY <1>1, <1>2, ManagerAssumption DEF Loaded
<1>6. Loaded(names) \in [1..n -> Tunnel]
  BY <1>4, <1>5
<1>7. Loaded(names) \in Seq(Tunnel)
  BY <1>1, <1>6
<1> QED
  BY <1>1, <1>2, <1>3, <1>5, <1>7 DEF Surjection, n

-----------------------------------------------------------------------------
(* Types and ports: in every environment. *)

LEMMA FirstListed ==
  ASSUME TypeOK, NEW n
  PROVE  First(n) \subseteq Listed /\ Listed \subseteq Tunnel
<1>1. tunnels \in Seq(Tunnel)
  BY DEF TypeOK
<1>2. \A i \in DOMAIN tunnels : tunnels[i] \in Tunnel
  BY <1>1
<1> QED  BY <1>2 DEF First, Position, Listed, Range

(* The directory was just read, by StartAll or after a crash. *)
Fresh ==
  /\ \E names \in SetToSeqs(disk) :
       tunnels = Loaded(names) /\ starting = Range(Loaded(names))
  /\ nextPort = basePort + Cardinality(disk) /\ alive = {}
  /\ req = [c \in Client |-> NoRequest]
  /\ disk \subseteq Name /\ kept \subseteq Name /\ env \in Environments

LEMMA FreshInv == Fresh => Inv
<1> SUFFICES ASSUME Fresh PROVE Inv
  OBVIOUS
<1> PICK names \in SetToSeqs(disk) :
      tunnels = Loaded(names) /\ starting = Range(Loaded(names))
  BY DEF Fresh
<1> USE DEF Fresh
<1> DEFINE n == Cardinality(disk)
<1>1. /\ n \in Nat /\ basePort \in Nat
      /\ tunnels \in Seq(Tunnel) /\ DOMAIN tunnels = 1..n
      /\ \A i \in 1..n : tunnels[i].port = (basePort + i) - 1
  BY LoadedFacts, ManagerAssumption
<1>2. req \in [Client -> ReqType] /\ \A c \in Client : req[c].found = {}
  BY DEF NoRequest, ReqType
<1> HIDE DEF n
<1>3. /\ starting = {tunnels[i] : i \in 1..n}
      /\ Listed = {tunnels[i] : i \in 1..n}
  BY <1>1 DEF Listed, Range
<1>4. Known = {tunnels[i] : i \in 1..n}
  BY <1>2, <1>3 DEF Known
<1>5. starting \subseteq Tunnel
  BY <1>1, <1>3
<1>6. nextPort = basePort + n /\ nextPort \in Nat
  BY <1>1 DEF n
<1>7. Ports
  BY <1>1, <1>4, <1>6 DEF Ports
<1>8. Named
  BY DEF Named, At, NoRequest
<1> QED
  BY <1>1, <1>2, <1>5, <1>6, <1>7, <1>8 DEF Inv, TypeOK, ReqType

LEMMA InitInv == Init => Inv
<1>1. Init => Fresh
  BY DEF Init, Fresh
<1> QED  BY <1>1, FreshInv

(* A step that leaves the list alone, and teaches nobody a new tunnel.       *)
LEMMA KnownPorts ==
  ASSUME Ports, UNCHANGED <<tunnels, nextPort>>, Known' \subseteq Known
  PROVE  Ports'
BY DEF Ports

LEMMA NewRequestInv ==
  ASSUME Inv, UNCHANGED env, NEW c \in Client, NEW n \in Name, NewRequest(c, n)
  PROVE  Inv'
<1>1. ASSUME NEW found \in SUBSET Listed, NEW place \in
               {"write", "restart", "disconnect", "delete"},
             Begin(c, n, found, place)
      PROVE  Inv'
  <2>1. /\ UNCHANGED <<tunnels, nextPort, disk, starting, alive>>
        /\ req' = [req EXCEPT ![c] =
                    [at |-> place, name |-> n, found |-> found]]
        /\ kept' \subseteq kept
    BY <1>1 DEF Begin
  <2>2. Listed \subseteq Tunnel
    BY FirstListed DEF Inv
  <2>3. req \in [Client -> ReqType]
    BY DEF Inv, TypeOK, ReqType
  <2>4. [at |-> place, name |-> n, found |-> found] \in ReqType
    BY <2>2 DEF ReqType
  <2>5. TypeOK'
    BY <2>1, <2>3, <2>4 DEF Inv, TypeOK, ReqType
  <2>6. /\ req'[c].found \subseteq Listed
        /\ \A d \in Client \ {c} : req'[d].found = req[d].found
    BY <2>1, <2>3
  <2>7. Known' \subseteq Known
    BY <2>1, <2>6 DEF Known, Listed
  <2>8. Named'
    BY <2>1, <2>3 DEF Inv, Named, At
  <2> QED  BY <2>1, <2>5, <2>7, <2>8, KnownPorts DEF Inv
<1>2. CASE BeginImport(c, n)
  BY <1>1, <1>2 DEF BeginImport
<1>3. ASSUME NEW kind \in {"restart", "disconnect", "delete"},
             BeginStop(c, n, kind)
      PROVE  Inv'
  BY <1>1, <1>3, FirstListed DEF BeginStop, Inv
<1> QED  BY <1>2, <1>3 DEF NewRequest

(* A new tunnel gets the next port. *)
LEMMA AppendInv ==
  ASSUME Inv, UNCHANGED env, NEW c \in Client, AppendTunnel(c)
  PROVE  Inv'
<1> DEFINE t == [name |-> req[c].name, port |-> nextPort]
<1>1. /\ tunnels' = Append(tunnels, t) /\ starting' = starting \cup {t}
      /\ nextPort' = nextPort + 1 /\ kept' = kept \cup {req[c].name}
      /\ req' = [req EXCEPT ![c] = NoRequest]
      /\ UNCHANGED <<disk, alive>>
  BY DEF AppendTunnel, Return
<1>2. /\ nextPort \in Nat /\ tunnels \in Seq(Tunnel)
      /\ req \in [Client -> ReqType]
  BY DEF Inv, TypeOK, ReqType
<1>3. /\ t \in Tunnel /\ t.port = nextPort
      /\ req[c].name \in Name /\ nextPort + 1 \in Nat
  BY <1>2 DEF AppendTunnel, At, Inv, Named, Tunnel
<1> HIDE DEF t
<1>4. /\ tunnels' \in Seq(Tunnel)
      /\ DOMAIN tunnels' = 1..(Len(tunnels) + 1)
      /\ DOMAIN tunnels = 1..Len(tunnels)
      /\ Len(tunnels) \in Nat
      /\ \A i \in 1..Len(tunnels) : tunnels'[i] = tunnels[i]
      /\ tunnels'[Len(tunnels) + 1] = t
  BY <1>1, <1>2, <1>3
<1>5. Listed' \subseteq Listed \cup {t}
  BY <1>4 DEF Listed, Range
<1>6. /\ req' \in [Client -> ReqType]
      /\ \A d \in Client : req'[d].found \subseteq req[d].found
  BY <1>1, <1>2 DEF NoRequest, ReqType
<1>7. Known' \subseteq Known \cup {t}
  BY <1>1, <1>5, <1>6 DEF Known
<1>8. TypeOK'
  BY <1>1, <1>3, <1>4, <1>6 DEF Inv, TypeOK, ReqType
<1>9. Listed \subseteq Known /\ Known \subseteq Tunnel
  <2>1. /\ Listed \subseteq Tunnel /\ starting \subseteq Tunnel
        /\ alive \subseteq Tunnel
    BY FirstListed DEF Inv, TypeOK
  <2>2. \A d \in Client : req[d].found \subseteq Tunnel
    BY <1>2 DEF ReqType
  <2> QED  BY <2>1, <2>2 DEF Known
<1>10. \A u \in Known : u.port \in Nat /\ u.port < nextPort
  BY <1>9 DEF Inv, Ports, Tunnel
<1>11. \A i \in 1..Len(tunnels) :
         tunnels[i].port \in Nat /\ tunnels[i].port < nextPort
  BY <1>4, <1>9, <1>10 DEF Listed, Range
<1>12. Ports'
  <2>1. \A i, j \in DOMAIN tunnels' :
          i < j => tunnels'[i].port < tunnels'[j].port
    BY <1>3, <1>4, <1>11 DEF Inv, Ports
  <2>2. \A u \in Known' : u.port < nextPort'
    BY <1>1, <1>2, <1>3, <1>7, <1>10
  <2>3. \A u, v \in Known' : u.port = v.port => u = v
    BY <1>3, <1>7, <1>10 DEF Inv, Ports
  <2> QED  BY <2>1, <2>2, <2>3 DEF Ports
<1>13. Named'
  BY <1>1, <1>2 DEF Inv, Named, At, NoRequest
<1> QED  BY <1>8, <1>12, <1>13 DEF Inv

LEMMA UnlistInv ==
  ASSUME Inv, UNCHANGED env, NEW c \in Client, Unlist(c)
  PROVE  Inv'
<1>1. /\ UNCHANGED <<nextPort, disk, starting, alive, kept>>
      /\ req' = [req EXCEPT ![c] = NoRequest]
      /\ tunnels \in Seq(Tunnel) /\ req \in [Client -> ReqType]
  BY DEF Unlist, Return, Inv, TypeOK, ReqType
<1>2. /\ req' \in [Client -> ReqType]
      /\ \A d \in Client : req'[d].found \subseteq req[d].found
  BY <1>1 DEF NoRequest, ReqType
<1> Named'
  BY <1>1 DEF Inv, Named, At, NoRequest
<1>3. CASE UNCHANGED tunnels
  <2>1. Known' \subseteq Known
    BY <1>1, <1>2, <1>3 DEF Known, Listed
  <2>2. TypeOK'
    BY <1>1, <1>2, <1>3 DEF Inv, TypeOK, ReqType
  <2> QED  BY <1>1, <1>3, <2>1, <2>2, KnownPorts DEF Inv
<1>4. ASSUME NEW i \in DOMAIN tunnels, tunnels' = RemoveAt(tunnels, i)
      PROVE  Inv'
  <2>1. /\ tunnels' \in Seq(Tunnel)
        /\ DOMAIN tunnels' = 1..(Len(tunnels) - 1)
        /\ \A k \in 1..(Len(tunnels) - 1) :
             tunnels'[k] = IF k < i THEN tunnels[k] ELSE tunnels[k + 1]
    BY <1>1, <1>4, RemoveAtFacts
  <2>2. DOMAIN tunnels = 1..Len(tunnels) /\ Len(tunnels) \in Nat
    BY <1>1
  <2>3. Listed' \subseteq Listed
    BY <2>1, <2>2 DEF Listed, Range
  <2>4. Known' \subseteq Known
    BY <1>1, <1>2, <2>3 DEF Known
  <2>5. TypeOK'
    BY <1>1, <1>2, <2>1 DEF Inv, TypeOK, ReqType
  <2>6. \A j, k \in DOMAIN tunnels' :
          j < k => tunnels'[j].port < tunnels'[k].port
    <3> DEFINE old(k) == IF k < i THEN k ELSE k + 1
    <3>1. \A k \in DOMAIN tunnels' :
            old(k) \in DOMAIN tunnels /\ tunnels'[k] = tunnels[old(k)]
      BY <2>1, <2>2
    <3>2. \A j, k \in DOMAIN tunnels' : j < k => old(j) < old(k)
      BY <2>1, <2>2
    <3> HIDE DEF old
    <3> QED  BY <3>1, <3>2 DEF Inv, Ports
  <2> QED  BY <1>1, <2>4, <2>5, <2>6 DEF Inv, Ports
<1> QED  BY <1>3, <1>4 DEF Unlist, Position

(* The steps of a request that leave the list alone. *)
LEMMA RequestInv ==
  ASSUME Inv, UNCHANGED env, NEW c \in Client,
         \/ WriteConf(c) \/ FailWrite(c) \/ Restart(c) \/ Disconnect(c)
         \/ DeleteStop(c) \/ RemoveConf(c) \/ FailRemove(c)
  PROVE  Inv'
<1>1. /\ UNCHANGED <<tunnels, nextPort, kept>>
      /\ starting' \subseteq starting \cup req[c].found
      /\ alive' \subseteq alive
  BY DEF WriteConf, FailWrite, Restart, Disconnect, DeleteStop, RemoveConf,
     FailRemove, StopTunnel
<1>2. /\ req \in [Client -> ReqType] /\ disk \subseteq Name
  BY DEF Inv, TypeOK, ReqType
<1>3. /\ req' \in [Client -> ReqType]
      /\ \A d \in Client : req'[d].found \subseteq req[d].found
      /\ \A d \in Client : req'[d].at = "idle" \/ req'[d].name = req[d].name
      /\ \A d \in Client \ {c} : req'[d] = req[d]
  <2>1. CASE req' = [req EXCEPT ![c] = NoRequest]
    BY <1>2, <2>1 DEF NoRequest, ReqType
  <2>2. ASSUME NEW place \in {"append", "remove", "unlist"},
               req' = [req EXCEPT ![c].at = place]
        PROVE  /\ req' \in [Client -> ReqType]
               /\ \A d \in Client : req'[d].found \subseteq req[d].found
               /\ \A d \in Client : req'[d].name = req[d].name
               /\ \A d \in Client \ {c} : req'[d] = req[d]
    BY <1>2, <2>2 DEF ReqType
  <2> QED
    BY <2>1, <2>2 DEF WriteConf, FailWrite, Restart, Disconnect, DeleteStop,
       RemoveConf, FailRemove, Goto, Return
<1>4. disk' \subseteq disk \cup {req[c].name} /\ req[c].name \in Name
  BY DEF WriteConf, FailWrite, Restart, Disconnect, DeleteStop, RemoveConf,
     FailRemove, StopTunnel, At, Inv, Named
<1>5. Known' \subseteq Known
  BY <1>1, <1>3 DEF Known, Listed
<1>6. TypeOK'
  BY <1>1, <1>2, <1>3, <1>4 DEF Inv, TypeOK, ReqType
<1>7. Named'
  BY <1>3, <1>4 DEF Inv, Named, At
<1> QED
  BY <1>1, <1>5, <1>6, <1>7, KnownPorts DEF Inv

LEMMA StartInv ==
  ASSUME Inv, UNCHANGED env, NEW t \in starting, StartTunnel(t)
  PROVE  Inv'
<1>1. /\ UNCHANGED <<tunnels, nextPort, disk, req, kept>>
      /\ starting' \subseteq starting /\ alive' \subseteq alive \cup starting
  BY DEF StartTunnel
<1>2. Known' \subseteq Known
  BY <1>1 DEF Known, Listed
<1>3. TypeOK' /\ Named'
  BY <1>1 DEF Inv, TypeOK, Named, At
<1> QED  BY <1>1, <1>2, <1>3, KnownPorts DEF Inv

LEMMA CrashInv ==
  ASSUME Inv, UNCHANGED env, Crash
  PROVE  Inv'
<1>1. Fresh'
  BY DEF Crash, Fresh, Inv, TypeOK
<1>2. Fresh' => Inv'
  BY FreshInv, PTL
<1> QED  BY <1>1, <1>2

LEMMA NextInv == Inv /\ [Next]_vars => Inv'
<1> SUFFICES ASSUME Inv, [Next]_vars PROVE Inv'
  OBVIOUS
<1>1. CASE UNCHANGED vars
  <2>1. TypeOK' /\ Named'
    BY <1>1 DEF vars, Inv, TypeOK, Named, At
  <2>2. Known' = Known
    BY <1>1 DEF vars, Known, Listed
  <2> QED  BY <1>1, <2>1, <2>2 DEF vars, Inv, Ports
<1>2. CASE Next
  BY <1>2, NewRequestInv, RequestInv, AppendInv, UnlistInv, StartInv, CrashInv
  DEF Next, Request
<1> QED  BY <1>1, <1>2

THEOREM Invariance == Spec => []Inv
  BY InitInv, NextInv, PTL DEF Spec

(* The list, the counter, the directory and the requests keep their types,   *)
(* through overlapping requests, errors of the disk and crashes.             *)
THEOREM TypeCorrect == Spec => []TypeOK
<1>1. Inv => TypeOK
  BY DEF Inv
<1> QED  BY <1>1, Invariance, PTL

(* A port names one tunnel in the life of the program, in every environment: *)
(* nextPort only grows, so that no deletion makes a port available again.    *)
THEOREM PortsUnique == Spec => []PortsIncrease
<1>1. Inv => PortsIncrease
  BY DEF Inv, Ports, PortsIncrease, Known
<1> QED  BY <1>1, Invariance, PTL

-----------------------------------------------------------------------------
(* The tunnel a name means. *)

LeastFirst ==
  \A n, t : t \in First(n) <=>
    /\ t \in Listed /\ t.name = n
    /\ \A u \in Listed : u.name = n => t.port <= u.port

(* The first tunnel of a name is the one with the least port.                *)
LEMMA FirstIsLeast == Inv => LeastFirst
<1> SUFFICES ASSUME Inv, NEW n, NEW t
             PROVE  t \in First(n) <=>
                      /\ t \in Listed /\ t.name = n
                      /\ \A u \in Listed : u.name = n => t.port <= u.port
  BY DEF LeastFirst
<1>1. /\ Len(tunnels) \in Nat /\ DOMAIN tunnels = 1..Len(tunnels)
      /\ \A i \in DOMAIN tunnels : tunnels[i].port \in Nat
      /\ \A i, j \in DOMAIN tunnels : i < j => tunnels[i].port < tunnels[j].port
  <2>1. tunnels \in Seq(Tunnel)
    BY DEF Inv, TypeOK
  <2>2. \A i \in DOMAIN tunnels : tunnels[i] \in Tunnel
    BY <2>1
  <2> QED  BY <2>1, <2>2 DEF Inv, Ports, Tunnel
<1>2. ASSUME t \in First(n)
      PROVE  /\ t \in Listed /\ t.name = n
             /\ \A u \in Listed : u.name = n => t.port <= u.port
  <2>1. PICK i \in Position(n) : t = tunnels[i]
    BY <1>2 DEF First
  <2>2. /\ i \in DOMAIN tunnels /\ tunnels[i].name = n
        /\ \A k \in 1..(i - 1) : tunnels[k].name # n
    BY DEF Position
  <2>3. ASSUME NEW j \in DOMAIN tunnels, tunnels[j].name = n
        PROVE  t.port <= tunnels[j].port
    <3>1. j \notin 1..(i - 1)
      BY <2>2, <2>3
    <3>2. j = i \/ i < j
      BY <1>1, <2>2, <3>1
    <3> QED  BY <1>1, <2>1, <2>2, <3>2
  <2> QED  BY <2>1, <2>2, <2>3 DEF Listed, Range
<1>3. ASSUME t \in Listed, t.name = n,
             \A u \in Listed : u.name = n => t.port <= u.port
      PROVE  t \in First(n)
  <2>1. PICK i \in DOMAIN tunnels : t = tunnels[i]
    BY <1>3 DEF Listed, Range
  <2>2. \A k \in 1..(i - 1) :
          /\ tunnels[k].port < t.port /\ tunnels[k] \in Listed
          /\ tunnels[k].port \in Nat /\ t.port \in Nat
    BY <1>1, <2>1 DEF Listed, Range
  <2>3. \A k \in 1..(i - 1) : tunnels[k].name # n
    BY <1>3, <2>2
  <2>4. i \in Position(n)
    BY <1>3, <2>1, <2>3 DEF Position
  <2> QED  BY <2>1, <2>4 DEF First
<1> QED  BY <1>2, <1>3

(* A tunnel that is appended does not change what the other names mean, nor  *)
(* its own name, if that meant a tunnel before.                              *)
LEMMA AppendKeepsFirst ==
  ASSUME Inv, Inv', NEW t \in Tunnel, t.port = nextPort,
         Listed' = Listed \cup {t}, NEW n, First(n) # {}
  PROVE  First(n)' = First(n)
<1>1. LeastFirst /\ LeastFirst'
  <2>1. Inv' => LeastFirst'
    BY FirstIsLeast, PTL
  <2> QED  BY <2>1, FirstIsLeast
<1>2. /\ \A u \in Listed : u.port \in Nat /\ u.port < nextPort
      /\ nextPort \in Nat
  <2>1. Listed \subseteq Tunnel
    BY FirstListed DEF Inv
  <2> QED  BY <2>1 DEF Inv, TypeOK, Ports, Known, Tunnel
<1>3. PICK u : u \in First(n)
  OBVIOUS
<1>4. u \in Listed /\ u.name = n
  BY <1>1, <1>3 DEF LeastFirst
<1>5. ASSUME NEW v \in First(n)' PROVE v \in First(n)
  <2>1. /\ v \in Listed' /\ v.name = n
        /\ \A w \in Listed' : w.name = n => v.port <= w.port
    BY <1>1, <1>5 DEF LeastFirst
  <2>2. v # t
    BY <1>2, <1>4, <2>1
  <2> QED  BY <1>1, <2>1, <2>2 DEF LeastFirst
<1>6. ASSUME NEW v \in First(n) PROVE v \in First(n)'
  <2>1. /\ v \in Listed /\ v.name = n
        /\ \A w \in Listed : w.name = n => v.port <= w.port
    BY <1>1, <1>6 DEF LeastFirst
  <2>2. v.port <= t.port
    BY <1>2, <2>1
  <2> QED  BY <1>1, <2>1, <2>2 DEF LeastFirst
<1> QED  BY <1>5, <1>6

(* Unlisting a name takes the first tunnel of that name away, and leaves the *)
(* other names their tunnels.                                                *)
LEMMA UnlistFacts ==
  ASSUME Inv, Inv', NEW n, NEW i \in Position(n),
         tunnels' = RemoveAt(tunnels, i)
  PROVE  /\ First(n) = {tunnels[i]}
         /\ Listed' = Listed \ First(n)
         /\ \A m : m # n => First(m)' = First(m)
<1>1. /\ i \in DOMAIN tunnels /\ tunnels[i].name = n
      /\ tunnels \in Seq(Tunnel)
  BY DEF Position, Inv, TypeOK
<1>2. DOMAIN tunnels = 1..Len(tunnels) /\ Len(tunnels) \in Nat
  BY <1>1
<1>3. /\ DOMAIN tunnels' = 1..(Len(tunnels) - 1)
      /\ \A k \in 1..(Len(tunnels) - 1) :
           tunnels'[k] = IF k < i THEN tunnels[k] ELSE tunnels[k + 1]
  BY <1>1, RemoveAtFacts
<1>4. \A j, k \in DOMAIN tunnels : tunnels[j] = tunnels[k] => j = k
  <2>1. \A j \in DOMAIN tunnels : tunnels[j] \in Tunnel
    BY <1>1
  <2>2. \A j \in DOMAIN tunnels : tunnels[j].port \in Nat
    BY <2>1 DEF Tunnel
  <2>3. \A j, k \in DOMAIN tunnels :
          j < k => tunnels[j].port < tunnels[k].port
    BY DEF Inv, Ports
  <2> QED  BY <1>2, <2>2, <2>3
<1>5. First(n) = {tunnels[i]}
  <2>1. \A j \in Position(n) : j = i
    BY <1>1, <1>2 DEF Position
  <2> QED  BY <2>1 DEF First
<1> DEFINE old(k) == IF k < i THEN k ELSE k + 1
<1>6. \A k \in DOMAIN tunnels' :
        /\ old(k) \in DOMAIN tunnels \ {i}
        /\ tunnels'[k] = tunnels[old(k)]
  BY <1>1, <1>2, <1>3
<1>7. \A j \in DOMAIN tunnels \ {i} :
        \E k \in DOMAIN tunnels' : old(k) = j
  <2> SUFFICES ASSUME NEW j \in DOMAIN tunnels \ {i}
               PROVE  \E k \in DOMAIN tunnels' : old(k) = j
    OBVIOUS
  <2>1. CASE j < i
    BY <1>1, <1>2, <1>3, <2>1
  <2>2. CASE ~(j < i)
    <3>1. j > i /\ j - 1 \in 1..(Len(tunnels) - 1) /\ ~(j - 1 < i)
      BY <1>1, <1>2, <2>2
    <3>2. (j - 1) + 1 = j
      BY <1>1, <1>2, <2>2
    <3> QED  BY <1>3, <3>1, <3>2
  <2> QED  BY <2>1, <2>2
<1> HIDE DEF old
<1>8. Listed' = {tunnels[j] : j \in DOMAIN tunnels \ {i}}
  BY <1>6, <1>7 DEF Listed, Range
<1>9. Listed' = Listed \ First(n)
  BY <1>1, <1>4, <1>5, <1>8 DEF Listed, Range
<1>10. ASSUME NEW m, m # n PROVE First(m)' = First(m)
  <2>1. Inv' => LeastFirst'
    BY FirstIsLeast, PTL
  <2>2. LeastFirst /\ LeastFirst'
    BY <2>1, FirstIsLeast
  <2>3. \A t : t.name = m => (t \in Listed' <=> t \in Listed)
    BY <1>1, <1>5, <1>9, <1>10
  <2>4. \A t : t \in First(m)' <=> t \in First(m)
    BY <2>2, <2>3 DEF LeastFirst
  <2> QED  BY <2>4
<1> QED  BY <1>5, <1>9, <1>10

-----------------------------------------------------------------------------
(* Requests for one tunnel at a time. *)

LEMMA FreshSerial == Fresh => Serial
<1> SUFFICES ASSUME Fresh PROVE Alone /\ Reachable /\ Midway
  BY DEF Serial
<1>1. \A c \in Client : At(c, "idle") /\ req[c].at = "idle"
  BY DEF Fresh, NoRequest, At
<1>2. starting = Listed /\ alive \subseteq Listed
  BY DEF Listed, Fresh
<1> QED  BY <1>1, <1>2 DEF Alone, Reachable, Midway, At, Stopping

LEMMA NewRequestSerial ==
  ASSUME Inv, env.serial, Alone, Reachable, Midway,
         NEW c \in Client, NEW n \in Name, NewRequest(c, n)
  PROVE  (Alone /\ Reachable /\ Midway)'
<1>0. req \in [Client -> ReqType]
  BY DEF Inv, TypeOK, ReqType
<1>1. ASSUME NEW found,
             NEW place \in {"write", "restart", "disconnect", "delete"},
             Begin(c, n, found, place),
             place # "write" => found = First(n) /\ found # {}
      PROVE  (Alone /\ Reachable /\ Midway)'
  <2>1. /\ UNCHANGED <<tunnels, starting, alive>>
        /\ req' = [req EXCEPT ![c] =
                    [at |-> place, name |-> n, found |-> found]]
        /\ AtRest(n)
    BY <1>1 DEF Begin
  <2>2. /\ req'[c] = [at |-> place, name |-> n, found |-> found]
        /\ \A d \in Client \ {c} : req'[d] = req[d]
    BY <1>0, <2>1
  <2>3. Alone'
    BY <2>1, <2>2 DEF Alone, AtRest, At
  <2>4. Reachable'
    BY <2>1 DEF Reachable, Listed
  <2>5. \A m : First(m)' = First(m)
    BY <2>1 DEF First, Position
  <2>6. Midway'
    BY <1>1, <2>1, <2>2, <2>5 DEF Midway, Stopping
  <2> QED  BY <2>3, <2>4, <2>6
<1>2. CASE BeginImport(c, n)
  BY <1>1, <1>2 DEF BeginImport
<1>3. ASSUME NEW kind \in {"restart", "disconnect", "delete"},
             BeginStop(c, n, kind)
      PROVE  (Alone /\ Reachable /\ Midway)'
  BY <1>1, <1>3 DEF BeginStop
<1> QED  BY <1>2, <1>3 DEF NewRequest

LEMMA Moves ==
  ASSUME NEW c \in Client, req \in [Client -> ReqType]
  PROVE  /\ Return(c) => /\ req'[c].at = "idle"
                         /\ \A d \in Client \ {c} : req'[d] = req[d]
         /\ \A place : Goto(c, place) =>
              /\ req'[c].at = place
              /\ req'[c].name = req[c].name /\ req'[c].found = req[c].found
              /\ \A d \in Client \ {c} : req'[d] = req[d]
<1>1. ASSUME Return(c)
      PROVE  /\ req'[c].at = "idle"
             /\ \A d \in Client \ {c} : req'[d] = req[d]
  BY <1>1 DEF Return, NoRequest
<1>2. ASSUME NEW place, Goto(c, place)
      PROVE  /\ req'[c].at = place
             /\ req'[c].name = req[c].name /\ req'[c].found = req[c].found
             /\ \A d \in Client \ {c} : req'[d] = req[d]
  BY <1>2 DEF Goto, ReqType
<1> QED  BY <1>1, <1>2

(* A step of a request.  The other requests keep what they have found: they  *)
(* are about other names.                                                    *)
LEMMA RequestSerial ==
  ASSUME Inv, Inv', env.serial, Alone, Reachable, Midway,
         NEW c \in Client, Request(c)
  PROVE  (Alone /\ Reachable /\ Midway)'
<1>1. req \in [Client -> ReqType] /\ LeastFirst
  BY FirstIsLeast DEF Inv, TypeOK, ReqType
<1>2. ~At(c, "idle")
  BY DEF Request, WriteConf, FailWrite, AppendTunnel, Restart, Disconnect,
     DeleteStop, RemoveConf, FailRemove, Unlist, At
<1>3. /\ \A d \in Client \ {c} : At(d, "idle") \/ req[d].name # req[c].name
      /\ \A t \in starting : t.name # req[c].name
  BY <1>2 DEF Alone
<1>4. CASE WriteConf(c) \/ FailWrite(c) \/ RemoveConf(c) \/ FailRemove(c)
  <2>1. UNCHANGED <<tunnels, starting, alive>>
    BY <1>4 DEF WriteConf, FailWrite, RemoveConf, FailRemove
  <2>2. /\ \A d \in Client \ {c} : req'[d] = req[d]
        /\ \/ req'[c].at \in {"idle", "append"}
           \/ /\ req'[c].at = "unlist" /\ req[c].at = "remove"
              /\ req'[c].name = req[c].name /\ req'[c].found = req[c].found
        /\ At(c, "idle")' \/ req'[c].name = req[c].name
    BY <1>1, <1>4, Moves
    DEF WriteConf, FailWrite, RemoveConf, FailRemove, At
  <2>3. Alone'
    BY <1>2, <2>1, <2>2 DEF Alone, At
  <2>4. Reachable'
    BY <2>1 DEF Reachable, Listed
  <2>5. \A m : First(m)' = First(m)
    BY <2>1 DEF First, Position
  <2>6. Midway'
    BY <2>1, <2>2, <2>5 DEF Midway, Stopping
  <2> QED  BY <2>3, <2>4, <2>6
<1>5. CASE AppendTunnel(c)
  <2> DEFINE t == [name |-> req[c].name, port |-> nextPort]
  <2>1. /\ tunnels' = Append(tunnels, t) /\ starting' = starting \cup {t}
        /\ req' = [req EXCEPT ![c] = NoRequest] /\ UNCHANGED alive
    BY <1>5 DEF AppendTunnel, Return
  <2>2. /\ \A d \in Client \ {c} : req'[d] = req[d]
        /\ req'[c].at = "idle"
    BY <1>1, <2>1 DEF NoRequest
  <2>3. /\ t \in Tunnel /\ t.port = nextPort /\ t.name = req[c].name
        /\ tunnels \in Seq(Tunnel)
    BY <1>2 DEF Inv, TypeOK, Named, Tunnel
  <2> HIDE DEF t
  <2>4. Listed' = Listed \cup {t}
    <3>1. /\ DOMAIN tunnels' = 1..(Len(tunnels) + 1)
          /\ DOMAIN tunnels = 1..Len(tunnels) /\ Len(tunnels) \in Nat
          /\ \A i \in 1..Len(tunnels) : tunnels'[i] = tunnels[i]
          /\ tunnels'[Len(tunnels) + 1] = t
      BY <2>1, <2>3
    <3> QED  BY <3>1 DEF Listed, Range
  <2>5. \A m : First(m) # {} => First(m)' = First(m)
    BY <2>3, <2>4, AppendKeepsFirst
  <2>6. Alone'
    BY <1>3, <2>1, <2>2, <2>3 DEF Alone, At
  <2>7. Reachable'
    BY <2>1, <2>4 DEF Reachable
  <2>8. Midway'
    BY <2>1, <2>2, <2>5 DEF Midway, Stopping
  <2> QED  BY <2>6, <2>7, <2>8
<1>6. CASE Restart(c) \/ Disconnect(c) \/ DeleteStop(c)
  <2>1. /\ UNCHANGED tunnels /\ alive' = alive \ req[c].found
        /\ starting' \subseteq starting \cup req[c].found
        /\ req[c].at \in Stopping
    BY <1>6 DEF Restart, Disconnect, DeleteStop, StopTunnel, Stopping, At
  <2>2. /\ \A d \in Client \ {c} : req'[d] = req[d]
        /\ \/ req'[c].at = "idle"
           \/ /\ req'[c].at = "remove" /\ req[c].at = "delete"
              /\ req'[c].name = req[c].name /\ req'[c].found = req[c].found
              /\ UNCHANGED starting
    BY <1>1, <1>6, Moves DEF Restart, Disconnect, DeleteStop, At
  <2>3. req[c].found = First(req[c].name) /\ req[c].found # {}
    BY <2>1 DEF Midway
  <2>4. \A t \in req[c].found : t \in Listed /\ t.name = req[c].name
    BY <1>1, <2>3 DEF LeastFirst
  <2>5. Alone'
    BY <1>2, <1>3, <2>1, <2>2, <2>4 DEF Alone, At
  <2>6. Reachable'
    BY <2>1, <2>4 DEF Reachable, Listed
  <2>7. \A m : First(m)' = First(m)
    BY <2>1 DEF First, Position
  <2>8. Midway'
    BY <2>1, <2>2, <2>3, <2>7 DEF Midway, Stopping
  <2> QED  BY <2>5, <2>6, <2>8
<1>7. CASE Unlist(c)
  <2>1. /\ UNCHANGED <<starting, alive>>
        /\ req' = [req EXCEPT ![c] = NoRequest] /\ req[c].at = "unlist"
    BY <1>7 DEF Unlist, Return, At
  <2>2. /\ \A d \in Client \ {c} : req'[d] = req[d]
        /\ req'[c].at = "idle"
    BY <1>1, <2>1 DEF NoRequest
  <2>3. /\ First(req[c].name) # {} /\ alive \cap First(req[c].name) = {}
    BY <2>1 DEF Midway, Stopping
  <2>4. Position(req[c].name) # {}
    BY <2>3 DEF First
  <2>5. PICK i \in Position(req[c].name) : tunnels' = RemoveAt(tunnels, i)
    BY <1>7, <2>4 DEF Unlist
  <2>6. /\ Listed' = Listed \ First(req[c].name)
        /\ \A m : m # req[c].name => First(m)' = First(m)
    BY <2>5, UnlistFacts
  <2>7. \A t \in First(req[c].name) : t.name = req[c].name
    BY <1>1 DEF LeastFirst
  <2>8. Alone'
    BY <2>1, <2>2 DEF Alone, At
  <2>9. Reachable'
    BY <1>3, <2>1, <2>3, <2>6, <2>7 DEF Reachable
  <2>10. Midway'
    BY <1>3, <2>1, <2>2, <2>6 DEF Midway, Stopping, At
  <2> QED  BY <2>8, <2>9, <2>10
<1> QED  BY <1>4, <1>5, <1>6, <1>7 DEF Request

LEMMA StartSerial ==
  ASSUME Inv, Alone, Reachable, Midway, NEW t \in starting, StartTunnel(t)
  PROVE  (Alone /\ Reachable /\ Midway)'
<1>1. /\ UNCHANGED <<tunnels, req>>
      /\ starting' \subseteq starting /\ alive' \subseteq alive \cup {t}
  BY DEF StartTunnel
<1>2. LeastFirst
  BY FirstIsLeast
<1>3. Alone' /\ Reachable'
  BY <1>1 DEF Alone, Reachable, Listed, At
<1>4. \A m : First(m)' = First(m)
  BY <1>1 DEF First, Position
<1>5. ASSUME NEW c \in Client, req[c].at \in {"remove", "unlist"}
      PROVE  alive' \cap req[c].found = {}
  <2>1. t.name # req[c].name
    BY <1>5 DEF Alone, At
  <2>2. \A u \in req[c].found : u.name = req[c].name
    BY <1>2, <1>5 DEF Midway, Stopping, LeastFirst
  <2> QED  BY <1>1, <1>5, <2>1, <2>2 DEF Midway
<1>6. Midway'
  BY <1>1, <1>4, <1>5 DEF Midway
<1> QED  BY <1>3, <1>6

LEMMA InitSerial == Init => Serial
<1>1. Init => Fresh
  BY DEF Init, Fresh
<1> QED  BY <1>1, FreshSerial

LEMMA NextSerial == Inv /\ Inv' /\ Serial /\ [Next]_vars => Serial'
<1> SUFFICES ASSUME Inv, Inv', Serial, [Next]_vars, env'.serial
             PROVE  (Alone /\ Reachable /\ Midway)'
  BY DEF Serial
<1>1. env.serial /\ Alone /\ Reachable /\ Midway
  BY DEF Next, vars, Serial
<1>2. CASE UNCHANGED vars
  <2>1. (Alone /\ Reachable)'
    BY <1>1, <1>2 DEF vars, Alone, Reachable, Listed, At
  <2>2. \A m : First(m)' = First(m)
    BY <1>2 DEF vars, First, Position
  <2> QED  BY <1>1, <1>2, <2>1, <2>2 DEF vars, Midway
<1>3. CASE Crash
  <2>1. Fresh'
    BY <1>3 DEF Crash, Fresh, Inv, TypeOK
  <2>2. Fresh' => Serial'
    BY FreshSerial, PTL
  <2> QED  BY <2>1, <2>2 DEF Serial
<1> QED
  BY <1>1, <1>2, <1>3, NewRequestSerial, RequestSerial, StartSerial DEF Next

THEOREM SerialInvariance == Spec => []Serial
  BY InitSerial, NextSerial, Invariance, PTL DEF Spec

(* Every wireproxy belongs to a tunnel of the list, where a client can reach *)
(* it: Delete takes a tunnel off the list only after stopping it, and no     *)
(* start is under way that could bring it back (Alone, Midway).              *)
THEOREM NoneUnlisted == Spec => []NoUnlistedProcess
<1>1. Serial => NoUnlistedProcess
  BY DEF Serial, NoUnlistedProcess, Reachable
<1> QED  BY <1>1, SerialInvariance, PTL

(* Delete looks the name up twice, to stop a tunnel and to take it off the   *)
(* list.  Both times it finds the same one, although requests for other      *)
(* names have moved the list, and although the name may be there twice.      *)
THEOREM UnlistsTheStopped == Spec => DeletesWhatItStopped
<1> DEFINE Step ==
      \A c \in Client :
        env.serial /\ Unlist(c) => (Listed \ Listed') \subseteq req[c].found
<1>1. Inv /\ Inv' /\ Serial /\ [Next]_vars => [Step]_vars
  <2> SUFFICES ASSUME Inv, Inv', Serial, NEW c \in Client, env.serial, Unlist(c)
               PROVE  (Listed \ Listed') \subseteq req[c].found
    OBVIOUS
  <2>1. req[c].found = First(req[c].name) /\ req[c].found # {}
    BY DEF Unlist, At, Serial, Midway, Stopping
  <2>2. Position(req[c].name) # {}
    BY <2>1 DEF First
  <2>3. PICK i \in Position(req[c].name) : tunnels' = RemoveAt(tunnels, i)
    BY <2>2 DEF Unlist
  <2>4. Listed' = Listed \ First(req[c].name)
    BY <2>3, UnlistFacts
  <2> QED  BY <2>1, <2>4
<1>2. DeletesWhatItStopped <=> [][Step]_vars
  BY DEF DeletesWhatItStopped
<1> QED  BY <1>1, <1>2, Invariance, SerialInvariance, PTL DEF Spec

-----------------------------------------------------------------------------
(* ... and no errors of the disk. *)

LEMMA FreshMatched == Fresh /\ kept \subseteq disk => Matched
<1> SUFFICES ASSUME Fresh, kept \subseteq disk PROVE Filed /\ Distinct
  BY DEF Matched
<1> PICK names \in SetToSeqs(disk) :
      tunnels = Loaded(names) /\ starting = Range(Loaded(names))
  BY DEF Fresh
<1>1. \A c \in Client : At(c, "idle") /\ req[c].at = "idle"
  BY DEF Fresh, NoRequest, At
<1> DEFINE n == Cardinality(disk)
<1>2. /\ DOMAIN tunnels = 1..n
      /\ \A i \in 1..n : tunnels[i].name = names[i]
      /\ \A i, j \in 1..n : names[i] = names[j] => i = j
      /\ {names[i] : i \in 1..n} = disk
  BY LoadedFacts DEF Fresh
<1> HIDE DEF n
<1>3. Names = disk
  BY <1>2 DEF Names, Listed, Range
<1>4. \A t, u \in Listed : t.name = u.name => t = u
  BY <1>2 DEF Listed, Range
<1> QED  BY <1>1, <1>3, <1>4 DEF Filed, Distinct, At

LEMMA NewRequestMatched ==
  ASSUME Inv, OneByOne, Filed, env.fresh => Distinct,
         NEW c \in Client, NEW n \in Name, NewRequest(c, n)
  PROVE  Filed' /\ (env.fresh => Distinct')
<1>0. req \in [Client -> ReqType]
  BY DEF Inv, TypeOK, ReqType
<1>1. ASSUME NEW found,
             NEW place \in {"write", "restart", "disconnect", "delete"},
             Begin(c, n, found, place),
             env.fresh /\ place = "write" => n \notin Names
      PROVE  Filed' /\ (env.fresh => Distinct')
  <2>1. /\ UNCHANGED <<tunnels, disk>> /\ AtRest(n) /\ At(c, "idle")
        /\ req' = [req EXCEPT ![c] =
                    [at |-> place, name |-> n, found |-> found]]
        /\ kept' = IF place = "delete" THEN kept \ {n} ELSE kept
    BY <1>1 DEF Begin, OneByOne
  <2>2. /\ req'[c].at = place /\ req'[c].name = n
        /\ \A d \in Client \ {c} : req'[d] = req[d]
    BY <1>0, <2>1
  <2>3. Listed' = Listed /\ Names' = Names
    BY <2>1 DEF Listed, Names
  <2>4. Filed'
    BY <2>1, <2>2, <2>3 DEF Filed, At
  <2>5. env.fresh => Distinct'
    BY <1>1, <2>1, <2>2, <2>3 DEF Distinct, At
  <2> QED  BY <2>4, <2>5
<1>2. CASE BeginImport(c, n)
  BY <1>1, <1>2 DEF BeginImport
<1>3. ASSUME NEW kind \in {"restart", "disconnect", "delete"},
             BeginStop(c, n, kind)
      PROVE  Filed' /\ (env.fresh => Distinct')
  BY <1>1, <1>3 DEF BeginStop
<1> QED  BY <1>2, <1>3 DEF NewRequest

LEMMA RequestMatched ==
  ASSUME Inv, Inv', OneByOne, Alone, Midway, Filed, env.fresh => Distinct,
         NEW c \in Client, Request(c)
  PROVE  Filed' /\ (env.fresh => Distinct')
<1>1. req \in [Client -> ReqType] /\ LeastFirst /\ ~env.disk
  BY FirstIsLeast DEF Inv, TypeOK, ReqType, OneByOne
<1>2. ~At(c, "idle")
  BY DEF Request, WriteConf, FailWrite, AppendTunnel, Restart, Disconnect,
     DeleteStop, RemoveConf, FailRemove, Unlist, At
<1>3. \A d \in Client \ {c} : At(d, "idle") \/ req[d].name # req[c].name
  BY <1>2 DEF Alone
<1> DEFINE n == req[c].name
<1>4. CASE WriteConf(c) \/ RemoveConf(c)
  <2>1. /\ UNCHANGED <<tunnels, kept>>
        /\ \/ /\ At(c, "write") /\ At(c, "append")' /\ disk' = disk \cup {n}
           \/ /\ At(c, "remove") /\ At(c, "unlist")' /\ disk' = disk \ {n}
        /\ req'[c].name = n
        /\ \A d \in Client \ {c} : req'[d] = req[d]
    BY <1>1, <1>4, Moves DEF WriteConf, RemoveConf, At
  <2>2. Listed' = Listed /\ Names' = Names
    BY <2>1 DEF Listed, Names
  <2>3. Filed'
    BY <1>3, <2>1, <2>2 DEF Filed, At
  <2>4. env.fresh => Distinct'
    BY <1>3, <2>1, <2>2 DEF Distinct, At
  <2> QED  BY <2>3, <2>4
<1>5. CASE AppendTunnel(c)
  <2> DEFINE t == [name |-> n, port |-> nextPort]
  <2>1. /\ tunnels' = Append(tunnels, t) /\ At(c, "append")
        /\ kept' = kept \cup {n} /\ UNCHANGED disk
        /\ req'[c].at = "idle"
        /\ \A d \in Client \ {c} : req'[d] = req[d]
    BY <1>1, <1>5, Moves DEF AppendTunnel
  <2>2. t \in Tunnel /\ t.name = n /\ tunnels \in Seq(Tunnel)
    BY <1>2 DEF Inv, TypeOK, Named, Tunnel
  <2> HIDE DEF t
  <2>3. Listed' = Listed \cup {t}
    <3>1. /\ DOMAIN tunnels' = 1..(Len(tunnels) + 1)
          /\ DOMAIN tunnels = 1..Len(tunnels) /\ Len(tunnels) \in Nat
          /\ \A i \in 1..Len(tunnels) : tunnels'[i] = tunnels[i]
          /\ tunnels'[Len(tunnels) + 1] = t
      BY <2>1, <2>2
    <3> QED  BY <3>1 DEF Listed, Range
  <2>4. Names' = Names \cup {n}
    BY <2>2, <2>3 DEF Names
  <2>5. n \in disk
    BY <2>1 DEF Filed
  <2>6. Filed'
    BY <1>3, <2>1, <2>4, <2>5 DEF Filed, At
  <2>7. ASSUME env.fresh PROVE Distinct'
    <3>1. \A u \in Listed : u.name # n
      BY <2>1, <2>7 DEF Distinct, At, Names
    <3>2. \A u, v \in Listed' : u.name = v.name => u = v
      BY <2>2, <2>3, <2>7, <3>1 DEF Distinct
    <3>3. \A d \in Client : req'[d].at \in {"write", "append"} =>
            req'[d].name \notin Names'
      BY <1>3, <2>1, <2>4, <2>7 DEF Distinct, At
    <3>4. \A m \in Names' \ disk' :
            \E d \in Client : At(d, "unlist")' /\ req'[d].name = m
      BY <2>1, <2>4, <2>5, <2>7 DEF Distinct, At
    <3> QED  BY <3>2, <3>3, <3>4 DEF Distinct
  <2> QED  BY <2>6, <2>7
<1>6. CASE Restart(c) \/ Disconnect(c) \/ DeleteStop(c)
  <2>1. /\ UNCHANGED <<tunnels, disk, kept>>
        /\ \/ req'[c].at = "idle"
           \/ At(c, "delete") /\ req'[c].at = "remove" /\ req'[c].name = n
        /\ ~At(c, "append") /\ ~At(c, "unlist")
        /\ \A d \in Client \ {c} : req'[d] = req[d]
    BY <1>1, <1>6, Moves DEF Restart, Disconnect, DeleteStop, StopTunnel, At
  <2>2. Listed' = Listed /\ Names' = Names
    BY <2>1 DEF Listed, Names
  <2>3. Filed'
    BY <2>1, <2>2 DEF Filed, At
  <2>4. env.fresh => Distinct'
    BY <2>1, <2>2 DEF Distinct, At
  <2> QED  BY <2>3, <2>4
<1>7. CASE Unlist(c)
  <2>1. /\ UNCHANGED <<disk, kept>> /\ At(c, "unlist")
        /\ req'[c].at = "idle"
        /\ \A d \in Client \ {c} : req'[d] = req[d]
    BY <1>1, <1>7, Moves DEF Unlist
  <2>2. First(n) # {} /\ n \notin disk
    BY <2>1 DEF Midway, Stopping, Filed, At
  <2>3. Position(n) # {}
    BY <2>2 DEF First
  <2>4. PICK i \in Position(n) : tunnels' = RemoveAt(tunnels, i)
    BY <1>7, <2>3 DEF Unlist
  <2>5. First(n) = {tunnels[i]} /\ Listed' = Listed \ First(n)
    BY <2>4, UnlistFacts
  <2>6. \A t \in First(n) : t \in Listed /\ t.name = n
    BY <1>1 DEF LeastFirst
  <2>7. Names' \subseteq Names /\ Names \subseteq Names' \cup {n}
    BY <2>5, <2>6 DEF Names
  <2>8. Filed'
    BY <2>1, <2>2, <2>7 DEF Filed, At
  <2>9. ASSUME env.fresh PROVE Distinct'
    <3>1. n \notin Names'
      BY <2>2, <2>5, <2>6, <2>9 DEF Distinct, Names
    <3> QED  BY <2>1, <2>5, <2>7, <2>9, <3>1 DEF Distinct, At
  <2> QED  BY <2>8, <2>9
<1>8. ~FailWrite(c) /\ ~FailRemove(c)
  BY <1>1 DEF FailWrite, FailRemove
<1> QED  BY <1>4, <1>5, <1>6, <1>7, <1>8 DEF Request

LEMMA InitMatched == Init => Matched
<1>1. Init => Fresh /\ kept \subseteq disk
  BY DEF Init, Fresh
<1> QED  BY <1>1, FreshMatched

LEMMA NextMatched == Inv /\ Inv' /\ Serial /\ Matched /\ [Next]_vars => Matched'
<1> SUFFICES ASSUME Inv, Inv', Serial, Matched, [Next]_vars, OneByOne'
             PROVE  Filed' /\ (env'.fresh => Distinct')
  BY DEF Matched
<1>1. /\ UNCHANGED env /\ OneByOne /\ Alone /\ Midway
      /\ Filed /\ (env.fresh => Distinct)
  BY DEF Next, vars, OneByOne, Serial, Matched
<1>2. CASE UNCHANGED vars
  BY <1>1, <1>2 DEF vars, Filed, Distinct, Names, Listed, At
<1>3. CASE Crash
  <2>1. Fresh' /\ (kept \subseteq disk)'
    BY <1>1, <1>3 DEF Crash, Fresh, Inv, TypeOK, Filed
  <2>2. Fresh' /\ (kept \subseteq disk)' => Matched'
    BY FreshMatched, PTL
  <2> QED  BY <2>1, <2>2 DEF Matched
<1>4. ASSUME NEW t \in starting, StartTunnel(t)
      PROVE  Filed' /\ (env'.fresh => Distinct')
  BY <1>1, <1>4 DEF StartTunnel, Filed, Distinct, Names, Listed, At
<1> QED
  BY <1>1, <1>2, <1>3, <1>4, NewRequestMatched, RequestMatched DEF Next

THEOREM MatchedInvariance == Spec => []Matched
  BY InitMatched, NextMatched, Invariance, SerialInvariance, PTL DEF Spec

(* When nothing happens to a tunnel, its file and its place in the list      *)
(* agree, whatever happens to others and also after a crash in the middle of *)
(* an import or a deletion.  Without imports of listed names they agree both *)
(* ways; with them a tunnel may be left without a file.                      *)
THEOREM ListIsDirectory == Spec => []ListMatchesDisk
<1>1. Matched => ListMatchesDisk
  BY DEF Matched, Filed, Distinct, ListMatchesDisk, AtRest, At
<1> QED  BY <1>1, MatchedInvariance, PTL

(* An import that was reported is on the disk until somebody deletes it.     *)
THEOREM ImportsKept == Spec => []KeptOnDisk
<1>1. Matched => KeptOnDisk
  BY DEF Matched, KeptOnDisk, Filed
<1> QED  BY <1>1, MatchedInvariance, PTL
=============================================================================
