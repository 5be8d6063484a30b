--------------------------- MODULE WGServerProofs ---------------------------
(***************************************************************************)
(* Theorems about WGServer, for every number of names, keys, addresses and *)
(* starts, whatever fails and wherever the program dies.                   *)
(*                                                                         *)
(* UniquePeers and RevokedIsGone are not inductive: they rest on the key   *)
(* of every listed or stored peer having been generated (KeysMinted), on   *)
(* the peer that AddPeer carries being different from all of them until it *)
(* is stored (Adding), and on the peer that RemovePeer carries being       *)
(* listed until it is dropped, and the only one with its key (Removing).   *)
(***************************************************************************)
EXTENDS WGServer, TLAPS

KeysMinted ==
  /\ \A p \in peers \cup peersFile.peers : p.key \in minted
  /\ revoked \subseteq minted

Adding ==
  op.at \in {"wgSet", "store"} =>
    /\ op.peer \in Peer
    /\ op.peer.key \in minted \ revoked
    /\ \A p \in peers : p.name # op.peer.name /\ p.ip # op.peer.ip
    /\ \A p \in peers \cup peersFile.peers : p.key # op.peer.key

Removing ==
  /\ op.at \in {"wgRemove", "drop"} => op.peer \in peers
  /\ op.at \in {"flush", "flushRemoval"} => op.peer \in Peer
  /\ op.at = "flushRemoval" =>
       /\ op.peer.key \in minted
       /\ \A p \in peers : p.key # op.peer.key

Inv ==
  TypeOK /\ UniquePeers /\ RevokedIsGone /\ KeysMinted /\ Adding /\ Removing

LEMMA InitInv == Init => Inv
<1> SUFFICES ASSUME Init PROVE Inv
  OBVIOUS
<1>1. op \in [at : Step, peer : Peer \cup {None}]
  BY DEF Init, NoOp, Step
<1>2. nat \in [masq : [Route -> Nat], fwdIn : Nat, fwdOut : Nat]
  BY DEF Init, NoRules
<1>3. TypeOK
  BY <1>1, <1>2 DEF Init, TypeOK, Missing
<1>4. UniquePeers /\ RevokedIsGone /\ KeysMinted
  BY DEF Init, Missing, UniquePeers, Distinct, RevokedIsGone, KeysMinted
<1>5. Adding /\ Removing
  BY DEF Init, NoOp, Adding, Removing
<1> QED  BY <1>3, <1>4, <1>5 DEF Inv

(* Types. *)

LEMMA StartType ==
  ASSUME TypeOK, UNCHANGED may, StartStep
  PROVE  TypeOK'
<1> USE DEF TypeOK, At, GoTo, Return, NoOp, Step, memory, keyFiles,
      kernel, history, NoRules, Whole, Torn
<1>1. CASE BeginStart
  BY <1>1 DEF BeginStart
<1>2. CASE ReadKeys
  BY <1>2 DEF ReadKeys
<1>3. CASE OpenKey
  BY <1>3 DEF OpenKey
<1>4. CASE WriteKey
  BY <1>4 DEF WriteKey
<1>5. CASE OpenPub
  BY <1>5 DEF OpenPub
<1>6. CASE WritePub
  BY <1>6 DEF WritePub
<1>7. CASE Load
  BY <1>7 DEF Load
<1>8. CASE CreateLink
  BY <1>8 DEF CreateLink, TearDown
<1>9. CASE Configure
  BY <1>9 DEF Configure
<1>10. CASE Attach
  BY <1>10 DEF Attach
<1>11. CASE FailNAT
  BY <1>11 DEF FailNAT, TearDown
<1>12. CASE AddRule
  BY <1>12 DEF AddRule
<1>13. CASE Announce
  BY <1>13 DEF Announce
<1> QED
  BY <1>1, <1>2, <1>3, <1>4, <1>5, <1>6, <1>7, <1>8, <1>9,
     <1>10, <1>11, <1>12, <1>13 DEF StartStep

LEMMA StopType ==
  ASSUME TypeOK, UNCHANGED may, StopStep
  PROVE  TypeOK'
<1> USE DEF TypeOK, At, GoTo, Return, NoOp, Step, memory, keyFiles,
      kernel, history, NoRules, Whole, Torn
<1>1. CASE BeginStop
  BY <1>1 DEF BeginStop
<1>2. CASE DeleteMasquerade
  BY <1>2 DEF DeleteMasquerade, OneLess
<1>3. CASE DeleteForward
  <2>1. \A n \in Nat : OneLess(n) \in Nat
    BY DEF OneLess
  <2>2. PICK in \in {OneLess(nat.fwdIn), nat.fwdIn},
             out \in {OneLess(nat.fwdOut), nat.fwdOut} :
          nat' = [nat EXCEPT !.fwdIn = in, !.fwdOut = out]
    BY <1>3 DEF DeleteForward
  <2>3. in \in Nat /\ out \in Nat
    BY <2>1, <2>2
  <2>4. nat' \in [masq : [Route -> Nat], fwdIn : Nat, fwdOut : Nat]
    BY <2>2, <2>3
  <2> QED  BY <1>3, <2>4 DEF DeleteForward
<1>4. CASE DeleteLink
  BY <1>4 DEF DeleteLink, TearDown
<1> QED
  BY <1>1, <1>2, <1>3, <1>4 DEF StopStep

LEMMA RemoveType ==
  ASSUME TypeOK, UNCHANGED may, Removing, RemoveStep
  PROVE  TypeOK'
<1> USE DEF TypeOK, At, GoTo, Return, NoOp, Step, memory, keyFiles,
      kernel, history, NoRules, Whole, Torn
<1>1. CASE \E p \in peers : BeginRemove(p)
  BY <1>1 DEF BeginRemove
<1>2. CASE UnsetPeer
  BY <1>2 DEF UnsetPeer
<1>3. CASE DropPeer
  BY <1>3 DEF DropPeer
<1>4. CASE FlushRemoval
  BY <1>4 DEF FlushRemoval, Removing, Peer
<1> QED
  BY <1>1, <1>2, <1>3, <1>4 DEF RemoveStep

LEMMA AddType ==
  ASSUME TypeOK, UNCHANGED may, Adding, Removing, AddStep
  PROVE  TypeOK'
<1> USE DEF TypeOK, At, GoTo, Return, NoOp, Step, memory, keyFiles,
      kernel, history, NoRules, Whole, Torn
<1>1. ASSUME NEW n \in Name, BeginAdd(n) PROVE TypeOK'
  <2>1. PICK k \in Key \ minted, h \in Allocate :
          /\ minted' = minted \cup {k}
          /\ op' = [at |-> "wgSet", peer |-> [name |-> n, key |-> k, ip |-> h]]
    BY <1>1 DEF BeginAdd
  <2>2. h \in Host
    BY DEF Allocate
  <2>3. [name |-> n, key |-> k, ip |-> h] \in Peer
    BY <2>2 DEF Peer
  <2> QED  BY <1>1, <2>1, <2>3 DEF BeginAdd
<1>2. CASE SetPeer
  <2>1. op.peer \in Peer
    BY <1>2 DEF SetPeer, Adding
  <2>2. wgPeers' \subseteq Peer
    BY <1>2, <2>1 DEF SetPeer, Configured
  <2> QED  BY <1>2, <2>2 DEF SetPeer
<1>3. CASE StorePeer
  BY <1>3 DEF StorePeer, Adding
<1>4. CASE FlushPeer
  BY <1>4 DEF FlushPeer, Removing
<1>5. CASE UndoPeer
  BY <1>5 DEF UndoPeer
<1> QED  BY <1>1, <1>2, <1>3, <1>4, <1>5 DEF AddStep

LEMMA FaultType ==
  ASSUME TypeOK, UNCHANGED may, Crash \/ Reboot \/ MoveRoute
  PROVE  TypeOK'
<1> USE DEF LoseMemory, TypeOK, At, GoTo, Return, NoOp, Step, memory, keyFiles,
      kernel, history, NoRules, Whole, Torn
<1>1. CASE Crash
  BY <1>1 DEF Crash
<1>2. CASE Reboot
  BY <1>2 DEF Reboot
<1>3. CASE MoveRoute
  BY <1>3 DEF MoveRoute
<1> QED  BY <1>1, <1>2, <1>3

LEMMA NextType == Inv /\ [Next]_vars => TypeOK'
<1>1. ASSUME TypeOK, UNCHANGED vars PROVE TypeOK'
  BY <1>1 DEF TypeOK, vars, memory, keyFiles, kernel, history
<1> QED
  BY <1>1, StartType, StopType, RemoveType, AddType, FaultType DEF Next, Inv

(* The clients. *)

Clients == UniquePeers /\ RevokedIsGone /\ KeysMinted /\ Adding /\ Removing

(* A step that leaves list, file and keys alone, and does not go on with an  *)
(* AddPeer or RemovePeer, disturbs none of this.                             *)
Aside ==
  /\ UNCHANGED <<peers, peersFile, minted, revoked>>
  /\ op'.at \notin
       {"wgSet", "store", "flush", "wgRemove", "drop", "flushRemoval"}

LEMMA AsideClients ==
  ASSUME Clients, Aside
  PROVE  Clients'
<1>1. (UniquePeers /\ RevokedIsGone /\ KeysMinted)'
  BY DEF Clients, Aside, UniquePeers, Distinct, RevokedIsGone, KeysMinted
<1>2. (Adding /\ Removing)'
  BY DEF Aside, Adding, Removing
<1> QED  BY <1>1, <1>2 DEF Clients

LEMMA StillClients ==
  ASSUME Clients, UNCHANGED <<op, peers, peersFile, minted, revoked>>
  PROVE  Clients'
<1>1. (UniquePeers /\ RevokedIsGone /\ KeysMinted)'
  BY DEF Clients, UniquePeers, Distinct, RevokedIsGone, KeysMinted
<1>2. (Adding /\ Removing)'
  BY DEF Clients, Adding, Removing
<1> QED  BY <1>1, <1>2 DEF Clients

LEMMA StartClients ==
  ASSUME TypeOK, Clients, StartStep
  PROVE  Clients'
<1> USE DEF At, GoTo, Return, NoOp, memory, kernel, history
<1>1. CASE Load
  <2>1. peers' = peersFile.peers \/ peers' = peers
    BY <1>1 DEF Load
  <2>2. UNCHANGED <<peersFile, minted, revoked>> /\ op'.at = "link"
    BY <1>1 DEF Load, TypeOK
  <2>3. UniquePeers'
    BY <2>1, <2>2 DEF Clients, UniquePeers
  <2>4. (RevokedIsGone /\ KeysMinted)'
    BY <2>1, <2>2 DEF Clients, RevokedIsGone, KeysMinted
  <2>5. (Adding /\ Removing)'
    BY <2>2 DEF Adding, Removing
  <2> QED  BY <2>3, <2>4, <2>5 DEF Clients
<1>2. CASE BeginStart \/ ReadKeys \/ OpenKey \/ WriteKey \/ OpenPub \/ WritePub
  <2>1. Aside
    BY <1>2
    DEF Aside, TypeOK, BeginStart, ReadKeys, OpenKey, WriteKey, OpenPub,
         WritePub
  <2> QED  BY <2>1, AsideClients
<1>3. CASE CreateLink \/ Configure \/ Attach \/ AddRule \/ FailNAT \/ Announce
  <2>1. Aside
    BY <1>3
      DEF Aside, TypeOK, CreateLink, TearDown, Configure, Attach, AddRule, FailNAT,
         Announce
  <2> QED  BY <2>1, AsideClients
<1> QED  BY <1>1, <1>2, <1>3 DEF StartStep

LEMMA StopClients ==
  ASSUME TypeOK, Clients, StopStep
  PROVE  Clients'
<1>1. Aside
  BY DEF Aside, TypeOK, At, GoTo, Return, NoOp, memory, kernel, history,
       StopStep, BeginStop, DeleteMasquerade, DeleteForward, DeleteLink
<1> QED  BY <1>1, AsideClients

LEMMA AddClients ==
  ASSUME TypeOK, Clients, AddStep
  PROVE  Clients'
<1> USE DEF At, GoTo, Return, NoOp, memory, kernel, history
<1>1. ASSUME NEW n \in Name, BeginAdd(n) PROVE Clients'
  <2>1. PICK k \in Key \ minted, h \in Allocate :
          /\ minted' = minted \cup {k}
          /\ op' = [at |-> "wgSet", peer |-> [name |-> n, key |-> k, ip |-> h]]
    BY <1>1 DEF BeginAdd
  <2>2. UNCHANGED <<peers, peersFile, revoked>>
    BY <1>1 DEF BeginAdd
  <2>3. h \in Host /\ \A p \in peers : p.ip # h
    BY DEF Allocate, Used
  <2>4. \A p \in peers : p.name # n
    BY <1>1 DEF BeginAdd, Taken
  <2>5. (UniquePeers /\ RevokedIsGone)'
    BY <2>2 DEF Clients, UniquePeers, Distinct, RevokedIsGone
  <2>6. KeysMinted'
    BY <2>1, <2>2 DEF Clients, KeysMinted
  <2>7. Adding'
    <3>1. op'.peer = [name |-> n, key |-> k, ip |-> h] /\ op'.peer \in Peer
      BY <2>1, <2>3 DEF Peer
    <3>2. k \in minted' \ revoked'
      BY <2>1, <2>2 DEF Clients, KeysMinted
    <3>3. \A p \in peers \cup peersFile.peers : p.key # k
      BY DEF Clients, KeysMinted
    <3> QED  BY <2>2, <2>3, <2>4, <3>1, <3>2, <3>3 DEF Adding
  <2>8. Removing'
    BY <2>1 DEF Removing
  <2> QED  BY <2>5, <2>6, <2>7, <2>8 DEF Clients
<1>2. CASE SetPeer
  <2>1. UNCHANGED <<peers, peersFile, minted, revoked>>
    BY <1>2 DEF SetPeer
  <2>2. CASE op' = [op EXCEPT !.at = "store"]
    <3>1. op'.at = "store" /\ op'.peer = op.peer
      BY <2>2 DEF TypeOK
    <3>2. (UniquePeers /\ RevokedIsGone /\ KeysMinted)'
      BY <2>1 DEF Clients, UniquePeers, Distinct, RevokedIsGone, KeysMinted
    <3>3. Adding'
      BY <1>2, <2>1, <3>1 DEF Clients, Adding, SetPeer
    <3>4. Removing'
      BY <3>1 DEF Removing
    <3> QED  BY <3>2, <3>3, <3>4 DEF Clients
  <2>3. CASE op' = NoOp
    <3>1. Aside
      BY <2>1, <2>3 DEF Aside
    <3> QED  BY <3>1, AsideClients
  <2> QED  BY <1>2, <2>2, <2>3 DEF SetPeer
<1>3. CASE StorePeer
  <2>1. /\ op.peer \in Peer
        /\ op.peer.key \in minted \ revoked
        /\ \A p \in peers : p.name # op.peer.name /\ p.ip # op.peer.ip
        /\ \A p \in peers \cup peersFile.peers : p.key # op.peer.key
    BY <1>3 DEF StorePeer, Clients, Adding
  <2>2. peers' = peers \cup {op.peer} /\ UNCHANGED <<minted, revoked>>
    BY <1>3 DEF StorePeer
  <2>3. peersFile' = peersFile \/ peersFile'.peers = {}
    BY <1>3 DEF StorePeer, Torn
  <2>4. op'.at \in {"flush", "undo"} /\ op'.peer = op.peer
    BY <1>3 DEF StorePeer, TypeOK
  <2>5. UniquePeers'
    <3>1. Distinct(peers')
      BY <2>1, <2>2 DEF Clients, UniquePeers, Distinct
    <3>2. Distinct(peersFile.peers)'
      BY <2>3 DEF Clients, UniquePeers, Distinct
    <3> QED  BY <3>1, <3>2 DEF UniquePeers
  <2>6. RevokedIsGone'
    BY <2>1, <2>2, <2>3 DEF Clients, RevokedIsGone
  <2>7. KeysMinted'
    BY <2>1, <2>2, <2>3 DEF Clients, KeysMinted
  <2>8. Adding'
    BY <2>4 DEF Adding
  <2>9. Removing'
    BY <2>1, <2>4 DEF Removing
  <2> QED  BY <2>5, <2>6, <2>7, <2>8, <2>9 DEF Clients
<1>4. CASE FlushPeer
  <2>1. UNCHANGED <<peers, minted, revoked>>
    BY <1>4 DEF FlushPeer
  <2>2. peersFile'.peers = peers \/ peersFile' = peersFile
    BY <1>4 DEF FlushPeer, Whole
  <2>3. op'.at \in {"idle", "undo"}
    BY <1>4 DEF FlushPeer, TypeOK
  <2>4. UniquePeers'
    BY <2>1, <2>2 DEF Clients, UniquePeers, Distinct
  <2>5. (RevokedIsGone /\ KeysMinted)'
    BY <2>1, <2>2 DEF Clients, RevokedIsGone, KeysMinted
  <2>6. (Adding /\ Removing)'
    BY <2>3 DEF Adding, Removing
  <2> QED  BY <2>4, <2>5, <2>6 DEF Clients
<1>5. CASE UndoPeer
  <2>1. Aside
    BY <1>5 DEF UndoPeer, Aside
  <2> QED  BY <2>1, AsideClients
<1> QED  BY <1>1, <1>2, <1>3, <1>4, <1>5 DEF AddStep

LEMMA RemoveClients ==
  ASSUME TypeOK, Clients, RemoveStep
  PROVE  Clients'
<1> USE DEF At, GoTo, Return, NoOp, memory, kernel, history
<1>1. ASSUME NEW p \in peers, BeginRemove(p) PROVE Clients'
  <2>1. /\ UNCHANGED <<peers, peersFile, minted, revoked>>
        /\ op' = [at |-> "wgRemove", peer |-> p]
    BY <1>1 DEF BeginRemove
  <2>2. (UniquePeers /\ RevokedIsGone /\ KeysMinted)'
    BY <2>1 DEF Clients, UniquePeers, Distinct, RevokedIsGone, KeysMinted
  <2>3. (Adding /\ Removing)'
    BY <2>1 DEF Adding, Removing
  <2> QED  BY <2>2, <2>3 DEF Clients
<1>2. CASE UnsetPeer
  <2>1. /\ UNCHANGED <<peers, peersFile, minted, revoked>>
        /\ op'.at = "drop" /\ op'.peer = op.peer
    BY <1>2 DEF UnsetPeer, TypeOK
  <2>2. (UniquePeers /\ RevokedIsGone /\ KeysMinted)'
    BY <2>1 DEF Clients, UniquePeers, Distinct, RevokedIsGone, KeysMinted
  <2>3. op.peer \in peers
    BY <1>2 DEF UnsetPeer, Clients, Removing
  <2>4. (Adding /\ Removing)'
    BY <2>1, <2>3 DEF Adding, Removing
  <2> QED  BY <2>2, <2>4 DEF Clients
<1>3. CASE DropPeer
  <2>1. op.peer \in peers
    BY <1>3 DEF DropPeer, Clients, Removing
  <2>2. peers' = peers \ {op.peer} /\ UNCHANGED <<minted, revoked>>
    BY <1>3 DEF DropPeer
  <2>3. peersFile' = peersFile \/ peersFile'.peers = {}
    BY <1>3 DEF DropPeer, Torn
  <2>4. \/ op'.at = "flushRemoval" /\ op'.peer = op.peer
        \/ op'.at = "idle"
    BY <1>3 DEF DropPeer, TypeOK
  <2>5. UniquePeers'
    BY <2>2, <2>3 DEF Clients, UniquePeers, Distinct
  <2>6. (RevokedIsGone /\ KeysMinted)'
    BY <2>2, <2>3 DEF Clients, RevokedIsGone, KeysMinted
  <2>7. Adding'
    BY <2>4 DEF Adding
  <2>8. Removing'
    <3>1. op.peer \in Peer /\ op.peer.key \in minted
      BY <2>1 DEF TypeOK, Clients, KeysMinted
    <3>2. \A p \in peers' : p.key # op.peer.key
      BY <2>1, <2>2 DEF Clients, UniquePeers, Distinct
    <3> QED  BY <2>2, <2>4, <3>1, <3>2 DEF Removing
  <2> QED  BY <2>5, <2>6, <2>7, <2>8 DEF Clients
<1>4. CASE FlushRemoval
  <2>1. UNCHANGED <<peers, minted>> /\ op'.at = "idle"
    BY <1>4 DEF FlushRemoval
  <2>2. \/ peersFile'.peers = peers /\ revoked' = revoked \cup {op.peer.key}
        \/ UNCHANGED <<peersFile, revoked>>
    BY <1>4 DEF FlushRemoval, Whole
  <2>3. /\ op.peer.key \in minted
        /\ \A p \in peers : p.key # op.peer.key
    BY <1>4 DEF FlushRemoval, Clients, Removing
  <2>4. UniquePeers'
    BY <2>1, <2>2 DEF Clients, UniquePeers, Distinct
  <2>5. RevokedIsGone'
    BY <2>1, <2>2, <2>3 DEF Clients, RevokedIsGone
  <2>6. KeysMinted'
    BY <2>1, <2>2, <2>3 DEF Clients, KeysMinted
  <2>7. (Adding /\ Removing)'
    BY <2>1 DEF Adding, Removing
  <2> QED  BY <2>4, <2>5, <2>6, <2>7 DEF Clients
<1> QED  BY <1>1, <1>2, <1>3, <1>4 DEF RemoveStep

LEMMA FaultClients ==
  ASSUME TypeOK, Clients, Crash \/ Reboot \/ MoveRoute
  PROVE  Clients'
<1>1. CASE Crash \/ Reboot
  <2>1. /\ peers' = {} /\ op'.at = "idle"
        /\ UNCHANGED <<peersFile, minted, revoked>>
    BY <1>1 DEF Crash, Reboot, LoseMemory, Return, NoOp, history
  <2>2. (UniquePeers /\ RevokedIsGone /\ KeysMinted)'
    BY <2>1 DEF Clients, UniquePeers, Distinct, RevokedIsGone, KeysMinted
  <2>3. (Adding /\ Removing)'
    BY <2>1 DEF Adding, Removing
  <2> QED  BY <2>2, <2>3 DEF Clients
<1>2. CASE MoveRoute
  <2>1. UNCHANGED <<op, peers, peersFile, minted, revoked>>
    BY <1>2 DEF MoveRoute, memory, history
  <2> QED  BY <2>1, StillClients
<1> QED  BY <1>1, <1>2

(* Every step keeps the invariant. *)
LEMMA NextInv == Inv /\ [Next]_vars => Inv'
<1> SUFFICES ASSUME Inv, [Next]_vars PROVE Inv'
  OBVIOUS
<1>1. TypeOK /\ Clients
  BY DEF Inv, Clients
<1>2. TypeOK'
  BY NextType
<1>3. CASE UNCHANGED vars
  <2>1. UNCHANGED <<op, peers, peersFile, minted, revoked>>
    BY <1>3 DEF vars, memory, history
  <2> QED  BY <1>1, <1>2, <2>1, StillClients DEF Inv, Clients
<1>4. ASSUME Next PROVE Clients'
  BY <1>1, <1>4, StartClients, StopClients, AddClients, RemoveClients,
     FaultClients DEF Next
<1> QED  BY <1>2, <1>3, <1>4 DEF Inv, Clients

(* The invariant holds in every reachable state. *)
THEOREM Invariance == Spec => []Inv
  BY InitInv, NextInv, PTL DEF Spec

(* Every variable keeps its type, through failures, crashes and restarts: in *)
(* particular AddPeer and RemovePeer only ever store and delete peers that   *)
(* they were given or allocated.                                             *)
THEOREM TypeCorrect == Spec => []TypeOK
<1>1. Inv => TypeOK
  BY DEF Inv
<1> QED  BY <1>1, Invariance, PTL

(* No two clients share a name, an address or a key, in the list or in       *)
(* peers.json: Exists in AddPeer, allocateIP and the generation of keys are  *)
(* enough, although a failed operation leaves the list and the file apart.   *)
THEOREM ClientsDistinct == Spec => []UniquePeers
<1>1. Inv => UniquePeers
  BY DEF Inv
<1> QED  BY <1>1, Invariance, PTL

(* A client that RemovePeer reported removed is never listed or stored       *)
(* again, whatever fails afterwards and however often the server starts.     *)
THEOREM RevocationLasts == Spec => []RevokedIsGone
<1>1. Inv => RevokedIsGone
  BY DEF Inv
<1> QED  BY <1>1, Invariance, PTL
-----------------------------------------------------------------------------
(***************************************************************************)
(* What holds unless something in particular goes wrong.                   *)
(*                                                                         *)
(* Each of these properties speaks of the moments between operations; the  *)
(* invariant says what is already, or still, true at every step inside one *)
(* (the list and the interface, the list and the file, the files of the    *)
(* keys, the rules), and where a Start or another operation can be at all  *)
(* (Stages).                                                               *)
(***************************************************************************)

Starting ==
  {"keys", "openKey", "writeKey", "openPub", "writePub", "load", "link",
   "configure", "attach", "masq", "fwdIn", "fwdOut", "announce"}
Attached == {"masq", "fwdIn", "fwdOut", "announce"}

Stages == op.at # "idle" => (running <=> op.at \notin Starting)

\* Acknowledged clients, and the one that is being added or removed.
Acked ==
  /\ \A p \in acked : p.key \in minted
  /\ op.at \in {"wgSet", "store", "flush", "undo", "wgRemove", "drop",
                "flushRemoval"} => op.peer \notin acked
  /\ op.at \in {"flush", "undo"} => op.peer \in peers

\* The list and the interface.
Admitting ==
  "wg" \notin may =>
    /\ op.at \in {"configure", "attach"} => wgPeers = {}
    /\ running \/ op.at \in Attached =>
         /\ \A p \in wgPeers :
              p \in peers \/ (op.at = "store" /\ p = op.peer)
         /\ acked \cap peers \subseteq wgPeers
    /\ op.at \in {"store", "flush"} => op.peer \in wgPeers
    /\ op.at = "drop" => op.peer \notin wgPeers

\* The list and the file.
Storing ==
  may \cap {"crash", "disk"} = {} =>
    /\ op.at # "undo"
    /\ op.at \notin {"flush", "flushRemoval"} => acked \subseteq peersFile.peers
    /\ peersFile.state # "whole" => peersFile.peers = {}
    /\ running \/ op.at \in Attached \cup {"link", "configure", "attach"} =>
         acked \subseteq peers

\* The files of the keys.
Keyed ==
  may \cap {"crash", "disk"} = {} =>
    /\ op.at = "openKey" => keyFile = "absent"
    /\ op.at = "writeKey" => keyFile = "empty"
    /\ op.at \in {"openPub", "writePub"} => keyFile = "good"
    /\ op.at \in {"openKey", "writeKey", "openPub"} => pubFile = "absent"
    /\ op.at = "writePub" => pubFile = "empty"
    /\ op.at \notin {"writeKey", "openPub", "writePub"} => pubFile = keyFile
    /\ keyFile = "empty" => op.at = "writeKey"
    /\ op.at \in Starting \ {"keys"} => pub = "good"

\* The rules and the interface, step by step.
Rules(in, out, here) ==
  /\ nat.fwdIn = in /\ nat.fwdOut = out
  /\ \A r \in Route : nat.masq[r] = IF r = route THEN here ELSE 0

Ruled ==
  may = {} =>
    /\ op.at = "configure" => link = "created"
    /\ running \/ op.at \in Attached \cup {"attach"} => link = "up"
    /\ ~running /\ op.at \in {"idle", "keys", "openKey", "writeKey", "openPub",
                              "writePub", "load", "link"} => link = "absent"
    /\ ~running /\ op.at \notin {"fwdIn", "fwdOut", "announce"} => Rules(0, 0, 0)
    /\ op.at = "fwdIn" => Rules(0, 0, 1)
    /\ op.at = "fwdOut" => Rules(1, 0, 1)
    /\ op.at = "announce" => Rules(1, 1, 1)
    /\ running /\ op.at \notin {"unfwd", "unlink"} => Rules(1, 1, 1)
    /\ op.at = "unfwd" => Rules(1, 1, 0)
    /\ op.at = "unlink" => Rules(0, 0, 0)

Careful == Stages /\ Acked /\ Admitting /\ Storing /\ Keyed /\ Ruled

LEMMA InitCareful == Init => Careful
<1> SUFFICES ASSUME Init PROVE Careful
  OBVIOUS
<1> USE DEF Init, NoOp, Starting, Attached
<1>1. Stages /\ Acked /\ Admitting
  BY DEF Stages, Acked, Admitting
<1>2. Storing /\ Keyed
  BY DEF Storing, Keyed, Missing
<1>3. Ruled
  BY DEF Ruled, Rules, NoRules
<1> QED  BY <1>1, <1>2, <1>3 DEF Careful

LEMMA StartCareful ==
  ASSUME Inv, Careful, UNCHANGED may, StartStep
  PROVE  Careful'
<1> USE DEF At, GoTo, Return, NoOp, memory, keyFiles, kernel, history,
      Starting, Attached
<1>1. /\ op \in [at : Step, peer : Peer \cup {None}]
      /\ running \in BOOLEAN
  BY DEF Inv, TypeOK
<1>2. ~running
  BY DEF Careful, Stages, StartStep, BeginStart, ReadKeys, OpenKey, WriteKey,
     OpenPub, WritePub, Load, CreateLink, Configure, Attach, AddRule, FailNAT,
     Announce
<1>3. CASE BeginStart
  <2>1. (Stages /\ Acked /\ Admitting)'
    BY <1>1, <1>2, <1>3
    DEF BeginStart, Inv, TypeOK, Careful, Stages, Acked, Admitting
  <2>2. (Storing /\ Keyed)'
    BY <1>1, <1>2, <1>3 DEF BeginStart, Inv, TypeOK, Careful, Storing, Keyed
  <2>3. Ruled'
    BY <1>1, <1>2, <1>3 DEF BeginStart, Inv, TypeOK, Careful, Ruled, Rules
  <2> QED  BY <2>1, <2>2, <2>3 DEF Careful
<1>4. CASE ReadKeys
  <2>1. (Stages /\ Acked /\ Admitting)'
    BY <1>1, <1>2, <1>4
    DEF ReadKeys, Unread, Inv, TypeOK, Careful, Stages, Acked, Admitting
  <2>2. (Storing /\ Keyed)'
    BY <1>1, <1>2, <1>4
      DEF ReadKeys, Unread, Inv, TypeOK, Careful, Storing, Keyed
  <2>3. Ruled'
    BY <1>1, <1>2, <1>4 DEF ReadKeys, Unread, Inv, TypeOK, Careful, Ruled, Rules
  <2> QED  BY <2>1, <2>2, <2>3 DEF Careful
<1>5. CASE OpenKey
  <2>1. (Stages /\ Acked /\ Admitting)'
    BY <1>1, <1>2, <1>5
    DEF OpenKey, Inv, TypeOK, Careful, Stages, Acked, Admitting
  <2>2. (Storing /\ Keyed)'
    BY <1>1, <1>2, <1>5 DEF OpenKey, Inv, TypeOK, Careful, Storing, Keyed
  <2>3. Ruled'
    BY <1>1, <1>2, <1>5 DEF OpenKey, Inv, TypeOK, Careful, Ruled, Rules
  <2> QED  BY <2>1, <2>2, <2>3 DEF Careful
<1>6. CASE WriteKey
  <2>1. (Stages /\ Acked /\ Admitting)'
    BY <1>1, <1>2, <1>6
    DEF WriteKey, Inv, TypeOK, Careful, Stages, Acked, Admitting
  <2>2. (Storing /\ Keyed)'
    BY <1>1, <1>2, <1>6 DEF WriteKey, Inv, TypeOK, Careful, Storing, Keyed
  <2>3. Ruled'
    BY <1>1, <1>2, <1>6 DEF WriteKey, Inv, TypeOK, Careful, Ruled, Rules
  <2> QED  BY <2>1, <2>2, <2>3 DEF Careful
<1>7. CASE OpenPub
  <2>1. (Stages /\ Acked /\ Admitting)'
    BY <1>1, <1>2, <1>7
    DEF OpenPub, Inv, TypeOK, Careful, Stages, Acked, Admitting
  <2>2. (Storing /\ Keyed)'
    BY <1>1, <1>2, <1>7 DEF OpenPub, Inv, TypeOK, Careful, Storing, Keyed
  <2>3. Ruled'
    BY <1>1, <1>2, <1>7 DEF OpenPub, Inv, TypeOK, Careful, Ruled, Rules
  <2> QED  BY <2>1, <2>2, <2>3 DEF Careful
<1>8. CASE WritePub
  <2>1. (Stages /\ Acked /\ Admitting)'
    BY <1>1, <1>2, <1>8
    DEF WritePub, Inv, TypeOK, Careful, Stages, Acked, Admitting
  <2>2. (Storing /\ Keyed)'
    BY <1>1, <1>2, <1>8 DEF WritePub, Inv, TypeOK, Careful, Storing, Keyed
  <2>3. Ruled'
    BY <1>1, <1>2, <1>8 DEF WritePub, Inv, TypeOK, Careful, Ruled, Rules
  <2> QED  BY <2>1, <2>2, <2>3 DEF Careful
<1>9. CASE Load
  <2>1. (Stages /\ Acked /\ Admitting)'
    BY <1>1, <1>2, <1>9
    DEF Load, Inv, TypeOK, Careful, Stages, Acked, Admitting
  <2>2. (Storing /\ Keyed)'
    BY <1>1, <1>2, <1>9 DEF Load, Inv, TypeOK, Careful, Storing, Keyed
  <2>3. Ruled'
    BY <1>1, <1>2, <1>9 DEF Load, Inv, TypeOK, Careful, Ruled, Rules
  <2> QED  BY <2>1, <2>2, <2>3 DEF Careful
<1>10. CASE CreateLink
  <2>1. (Stages /\ Acked /\ Admitting)'
    BY <1>1, <1>2, <1>10
    DEF CreateLink, TearDown, Inv, TypeOK, Careful, Stages, Acked, Admitting
  <2>2. (Storing /\ Keyed)'
    BY <1>1, <1>2, <1>10
      DEF CreateLink, TearDown, Inv, TypeOK, Careful, Storing, Keyed
  <2>3. Ruled'
    BY <1>1, <1>2, <1>10
      DEF CreateLink, TearDown, Inv, TypeOK, Careful, Ruled, Rules
  <2> QED  BY <2>1, <2>2, <2>3 DEF Careful
<1>11. CASE Configure
  <2>1. (Stages /\ Acked /\ Admitting)'
    BY <1>1, <1>2, <1>11
    DEF Configure, Inv, TypeOK, Careful, Stages, Acked, Admitting
  <2>2. (Storing /\ Keyed)'
    BY <1>1, <1>2, <1>11 DEF Configure, Inv, TypeOK, Careful, Storing, Keyed
  <2>3. Ruled'
    BY <1>1, <1>2, <1>11 DEF Configure, Inv, TypeOK, Careful, Ruled, Rules
  <2> QED  BY <2>1, <2>2, <2>3 DEF Careful
<1>12. CASE Attach
  <2>1. (Stages /\ Acked /\ Admitting)'
    BY <1>1, <1>2, <1>12
    DEF Attach, Inv, TypeOK, Careful, Stages, Acked, Admitting
  <2>2. (Storing /\ Keyed)'
    BY <1>1, <1>2, <1>12 DEF Attach, Inv, TypeOK, Careful, Storing, Keyed
  <2>3. Ruled'
    BY <1>1, <1>2, <1>12 DEF Attach, Inv, TypeOK, Careful, Ruled, Rules
  <2> QED  BY <2>1, <2>2, <2>3 DEF Careful
<1>13. CASE FailNAT
  <2>1. (Stages /\ Acked /\ Admitting)'
    BY <1>1, <1>2, <1>13
    DEF FailNAT, TearDown, Inv, TypeOK, Careful, Stages, Acked, Admitting
  <2>2. (Storing /\ Keyed)'
    BY <1>1, <1>2, <1>13
      DEF FailNAT, TearDown, Inv, TypeOK, Careful, Storing, Keyed
  <2>3. Ruled'
    BY <1>1, <1>2, <1>13
      DEF FailNAT, TearDown, Inv, TypeOK, Careful, Ruled, Rules
  <2> QED  BY <2>1, <2>2, <2>3 DEF Careful
<1>14. CASE AddRule
  <2>1. (Stages /\ Acked /\ Admitting)'
    BY <1>1, <1>2, <1>14
    DEF AddRule, Inv, TypeOK, Careful, Stages, Acked, Admitting
  <2>2. (Storing /\ Keyed)'
    BY <1>1, <1>2, <1>14 DEF AddRule, Inv, TypeOK, Careful, Storing, Keyed
  <2>3. Ruled'
    BY <1>1, <1>2, <1>14 DEF AddRule, Inv, TypeOK, Careful, Ruled, Rules
  <2> QED  BY <2>1, <2>2, <2>3 DEF Careful
<1>15. CASE Announce
  <2>1. (Stages /\ Acked /\ Admitting)'
    BY <1>1, <1>2, <1>15
    DEF Announce, Inv, TypeOK, Careful, Stages, Acked, Admitting
  <2>2. (Storing /\ Keyed)'
    BY <1>1, <1>2, <1>15 DEF Announce, Inv, TypeOK, Careful, Storing, Keyed
  <2>3. Ruled'
    BY <1>1, <1>2, <1>15 DEF Announce, Inv, TypeOK, Careful, Ruled, Rules
  <2> QED  BY <2>1, <2>2, <2>3 DEF Careful
<1> QED
  BY <1>3, <1>4, <1>5, <1>6, <1>7, <1>8, <1>9, <1>10, <1>11, <1>12, <1>13,
    <1>14, <1>15 DEF StartStep

LEMMA StopCareful ==
  ASSUME Inv, Careful, UNCHANGED may, StopStep
  PROVE  Careful'
<1> USE DEF At, GoTo, Return, NoOp, memory, keyFiles, kernel, history,
      Starting, Attached
<1>1. /\ op \in [at : Step, peer : Peer \cup {None}]
      /\ running \in BOOLEAN
  BY DEF Inv, TypeOK
<1>2. CASE BeginStop
  <2>1. (Stages /\ Acked /\ Admitting)'
    BY <1>1, <1>2 DEF BeginStop, Inv, TypeOK, Careful, Stages, Acked, Admitting
  <2>2. (Storing /\ Keyed)'
    BY <1>1, <1>2 DEF BeginStop, Inv, TypeOK, Careful, Stages, Storing, Keyed
  <2>3. Ruled'
    BY <1>1, <1>2 DEF BeginStop, Inv, TypeOK, Careful, Stages, Ruled, Rules
  <2> QED  BY <2>1, <2>2, <2>3 DEF Careful
<1>3. CASE DeleteMasquerade
  <2>1. (Stages /\ Acked /\ Admitting)'
    BY <1>1, <1>3
    DEF DeleteMasquerade, OneLess, Inv, TypeOK, Careful, Stages, Acked,
      Admitting
  <2>2. (Storing /\ Keyed)'
    BY <1>1, <1>3
    DEF DeleteMasquerade, OneLess, Inv, TypeOK, Careful, Stages, Storing, Keyed
  <2>3. Ruled'
    BY <1>1, <1>3
    DEF DeleteMasquerade, OneLess, Inv, TypeOK, Careful, Stages, Ruled, Rules
  <2> QED  BY <2>1, <2>2, <2>3 DEF Careful
<1>4. CASE DeleteForward
  <2>1. (Stages /\ Acked /\ Admitting)'
    BY <1>1, <1>4
    DEF DeleteForward, OneLess, Inv, TypeOK, Careful, Stages, Acked, Admitting
  <2>2. (Storing /\ Keyed)'
    BY <1>1, <1>4
    DEF DeleteForward, OneLess, Inv, TypeOK, Careful, Stages, Storing, Keyed
  <2>3. Ruled'
    BY <1>1, <1>4
    DEF DeleteForward, OneLess, Inv, TypeOK, Careful, Stages, Ruled, Rules
  <2> QED  BY <2>1, <2>2, <2>3 DEF Careful
<1>5. CASE DeleteLink
  <2>1. (Stages /\ Acked /\ Admitting)'
    BY <1>1, <1>5
    DEF DeleteLink, TearDown, NoRules, Inv, TypeOK, Careful, Stages, Acked,
        Admitting
  <2>2. (Storing /\ Keyed)'
    BY <1>1, <1>5
    DEF DeleteLink, TearDown, NoRules, Inv, TypeOK, Careful, Stages, Storing,
        Keyed
  <2>3. Ruled'
    BY <1>1, <1>5
    DEF DeleteLink, TearDown, NoRules, Inv, TypeOK, Careful, Stages, Ruled,
        Rules
  <2> QED  BY <2>1, <2>2, <2>3 DEF Careful
<1> QED
  BY <1>2, <1>3, <1>4, <1>5 DEF StopStep

LEMMA AddCareful ==
  ASSUME Inv, Careful, UNCHANGED may, AddStep
  PROVE  Careful'
<1> USE DEF At, GoTo, Return, NoOp, memory, keyFiles, kernel, history,
      Starting, Attached
<1>1. /\ op \in [at : Step, peer : Peer \cup {None}]
      /\ running \in BOOLEAN
  BY DEF Inv, TypeOK
<1>2. ASSUME NEW n \in Name, BeginAdd(n) PROVE Careful'
  <2>1. (Stages /\ Acked /\ Admitting)'
    BY <1>1, <1>2
    DEF BeginAdd, Allocate, Used, Inv, TypeOK, Careful, Stages, Acked,
      Admitting
  <2>2. (Storing /\ Keyed)'
    BY <1>1, <1>2
    DEF BeginAdd, Allocate, Used, Inv, TypeOK, Careful, Stages, Storing, Keyed
  <2>3. Ruled'
    BY <1>1, <1>2
    DEF BeginAdd, Allocate, Used, Inv, TypeOK, Careful, Stages, Ruled, Rules
  <2> QED  BY <2>1, <2>2, <2>3 DEF Careful
<1>3. CASE SetPeer
  <2>1. (Stages /\ Acked /\ Admitting)'
    BY <1>1, <1>3
    DEF SetPeer, Configured, Adding, Inv, TypeOK, Careful, Stages, Acked,
      Admitting
  <2>2. (Storing /\ Keyed)'
    BY <1>1, <1>3
    DEF SetPeer, Configured, Adding, Inv, TypeOK, Careful, Stages, Storing,
      Keyed
  <2>3. Ruled'
    BY <1>1, <1>3
    DEF SetPeer, Configured, Adding, Inv, TypeOK, Careful, Stages, Ruled, Rules
  <2> QED  BY <2>1, <2>2, <2>3 DEF Careful
<1>4. CASE StorePeer
  <2>1. (Stages /\ Acked /\ Admitting)'
    BY <1>1, <1>4
    DEF StorePeer, Torn, Adding, Inv, TypeOK, Careful, Stages, Acked, Admitting
  <2>2. (Storing /\ Keyed)'
    BY <1>1, <1>4
    DEF StorePeer, Torn, Adding, Inv, TypeOK, Careful, Stages, Storing, Keyed
  <2>3. Ruled'
    BY <1>1, <1>4
    DEF StorePeer, Torn, Adding, Inv, TypeOK, Careful, Stages, Ruled, Rules
  <2> QED  BY <2>1, <2>2, <2>3 DEF Careful
<1>5. CASE FlushPeer
  <2>1. (Stages /\ Acked /\ Admitting)'
    BY <1>1, <1>5
    DEF FlushPeer, Whole, Removing, KeysMinted, Inv, TypeOK, Careful, Stages,
      Acked, Admitting
  <2>2. (Storing /\ Keyed)'
    BY <1>1, <1>5
    DEF FlushPeer, Whole, Removing, Inv, TypeOK, Careful, Stages, Acked,
      Storing, Keyed
  <2>3. Ruled'
    BY <1>1, <1>5
    DEF FlushPeer, Whole, Removing, Inv, TypeOK, Careful, Stages, Ruled, Rules
  <2> QED  BY <2>1, <2>2, <2>3 DEF Careful
<1>6. CASE UndoPeer
  <2>1. (Stages /\ Acked /\ Admitting)'
    BY <1>1, <1>6
    DEF UndoPeer, UniquePeers, Distinct, Inv, TypeOK, Careful, Stages, Acked,
      Admitting
  <2>2. (Storing /\ Keyed)'
    BY <1>1, <1>6
    DEF UndoPeer, UniquePeers, Distinct, Inv, TypeOK, Careful, Stages, Storing,
      Keyed
  <2>3. Ruled'
    BY <1>1, <1>6
    DEF UndoPeer, UniquePeers, Distinct, Inv, TypeOK, Careful, Stages, Ruled,
      Rules
  <2> QED  BY <2>1, <2>2, <2>3 DEF Careful
<1> QED
  BY <1>2, <1>3, <1>4, <1>5, <1>6 DEF AddStep

LEMMA RemoveCareful ==
  ASSUME Inv, Careful, UNCHANGED may, RemoveStep
  PROVE  Careful'
<1> USE DEF At, GoTo, Return, NoOp, memory, keyFiles, kernel, history,
      Starting, Attached
<1>1. /\ op \in [at : Step, peer : Peer \cup {None}]
      /\ running \in BOOLEAN
  BY DEF Inv, TypeOK
<1>2. ASSUME NEW p \in peers, BeginRemove(p) PROVE Careful'
  <2>1. (Stages /\ Acked /\ Admitting)'
    BY <1>1, <1>2
    DEF BeginRemove, Inv, TypeOK, Careful, Stages, Acked, Admitting
  <2>2. (Storing /\ Keyed)'
    BY <1>1, <1>2 DEF BeginRemove, Inv, TypeOK, Careful, Stages, Storing, Keyed
  <2>3. Ruled'
    BY <1>1, <1>2 DEF BeginRemove, Inv, TypeOK, Careful, Stages, Ruled, Rules
  <2> QED  BY <2>1, <2>2, <2>3 DEF Careful
<1>3. CASE UnsetPeer
  <2>1. (Stages /\ Acked /\ Admitting)'
    BY <1>1, <1>3
    DEF UnsetPeer, UniquePeers, Distinct, Removing, Inv, TypeOK, Careful,
      Stages, Acked, Admitting
  <2>2. (Storing /\ Keyed)'
    BY <1>1, <1>3
    DEF UnsetPeer, UniquePeers, Distinct, Removing, Inv, TypeOK, Careful,
      Stages, Storing, Keyed
  <2>3. Ruled'
    BY <1>1, <1>3
    DEF UnsetPeer, UniquePeers, Distinct, Removing, Inv, TypeOK, Careful,
      Stages, Ruled, Rules
  <2> QED  BY <2>1, <2>2, <2>3 DEF Careful
<1>4. CASE DropPeer
  <2>1. (Stages /\ Acked /\ Admitting)'
    BY <1>1, <1>4
    DEF DropPeer, Torn, Removing, Inv, TypeOK, Careful, Stages, Acked,
      Admitting
  <2>2. (Storing /\ Keyed)'
    BY <1>1, <1>4
    DEF DropPeer, Torn, Removing, Inv, TypeOK, Careful, Stages, Acked, Storing,
      Keyed
  <2>3. Ruled'
    BY <1>1, <1>4
    DEF DropPeer, Torn, Removing, Inv, TypeOK, Careful, Stages, Ruled, Rules
  <2> QED  BY <2>1, <2>2, <2>3 DEF Careful
<1>5. CASE FlushRemoval
  <2>1. (Stages /\ Acked /\ Admitting)'
    BY <1>1, <1>5
    DEF FlushRemoval, Whole, Removing, Inv, TypeOK, Careful, Stages, Acked,
      Admitting
  <2>2. (Storing /\ Keyed)'
    BY <1>1, <1>5
    DEF FlushRemoval, Whole, Removing, Inv, TypeOK, Careful, Stages, Storing,
      Keyed
  <2>3. Ruled'
    BY <1>1, <1>5
    DEF FlushRemoval, Whole, Removing, Inv, TypeOK, Careful, Stages, Ruled,
      Rules
  <2> QED  BY <2>1, <2>2, <2>3 DEF Careful
<1> QED
  BY <1>2, <1>3, <1>4, <1>5 DEF RemoveStep

LEMMA FaultCareful ==
  ASSUME Inv, Careful, UNCHANGED may, Crash \/ Reboot \/ MoveRoute
  PROVE  Careful'
<1> USE DEF LoseMemory, Return, NoOp, At, memory, keyFiles, kernel, history,
      Starting, Attached
<1>1. CASE Crash \/ Reboot
  <2>1. /\ op' = NoOp /\ running' = FALSE
        /\ UNCHANGED <<acked, minted, may>>
    BY <1>1 DEF Crash, Reboot
  <2>2. may \cap {"crash", "disk"} # {}
    BY <1>1 DEF Crash, Reboot, Careful, Keyed
  <2> QED
    BY <2>1, <2>2 DEF Careful, Stages, Acked, Admitting, Storing, Keyed, Ruled
<1>2. CASE MoveRoute
  <2>1. /\ "route" \in may
        /\ UNCHANGED <<may, op, memory, peersFile, keyFiles, kernel, history>>
    BY <1>2 DEF MoveRoute
  <2> QED
    BY <2>1 DEF Careful, Stages, Acked, Admitting, Storing, Keyed, Ruled
<1> QED  BY <1>1, <1>2

LEMMA NextCareful == Inv /\ Careful /\ [Next]_vars => Careful'
<1> SUFFICES ASSUME Inv, Careful, [Next]_vars PROVE Careful'
  OBVIOUS
<1>1. CASE UNCHANGED vars
  BY <1>1 DEF vars, memory, keyFiles, kernel, history, Careful, Stages, Acked,
     Admitting, Storing, Keyed, Ruled, Rules
<1>2. CASE Next
  BY <1>2, StartCareful, StopCareful, AddCareful, RemoveCareful, FaultCareful
  DEF Next
<1> QED  BY <1>1, <1>2

THEOREM CarefulInvariance == Spec => []Careful
  BY InitCareful, NextCareful, Invariance, PTL DEF Spec

(* Between operations the interface admits listed clients only: the one that *)
(* AddPeer has put there too early is taken off again when it cannot be      *)
(* stored, and Start removes what an earlier life of the program has left.   *)
THEOREM NoStranger == Spec => []OnlyListedAdmitted
<1>1. Careful => OnlyListedAdmitted
  BY DEF Careful, Admitting, OnlyListedAdmitted, Quiet, At
<1> QED  BY <1>1, CarefulInvariance, PTL

(* A client that was handed its configuration and is still listed is on the  *)
(* interface: no AddPeer or RemovePeer of another client takes it off, since *)
(* they go by keys and addresses, and those are different.                   *)
THEOREM HandedOutConnects == Spec => []AckedAdmitted
<1>1. Careful => AckedAdmitted
  BY DEF Careful, Admitting, AckedAdmitted, Quiet, At
<1> QED  BY <1>1, CarefulInvariance, PTL

(* Unless a write fails or is interrupted, every client that was handed its  *)
(* configuration is in peers.json between operations.                        *)
THEOREM HandedOutStored == Spec => []AckedDurable
<1>1. Careful => AckedDurable
  BY DEF Careful, Storing, AckedDurable, Durable, At, Starting, Attached
<1> QED  BY <1>1, CarefulInvariance, PTL

(* When nothing goes wrong, Stop deletes exactly the rules and the interface *)
(* that Start has made, after any sequence of operations.                    *)
THEOREM StopMirrorsStart == Spec => []StopCleansUp
<1>1. Inv /\ Careful => StopCleansUp
  <2> SUFFICES ASSUME Inv, Careful, may = {}, op.at = "idle"
               PROVE  /\ link = (IF running THEN "up" ELSE "absent")
                      /\ ~running => nat = NoRules
                      /\ running => nat.fwdIn = 1 /\ nat.fwdOut = 1
    BY DEF StopCleansUp, At
  <2>1. /\ nat \in [masq : [Route -> Nat], fwdIn : Nat, fwdOut : Nat]
        /\ running \in BOOLEAN
    BY DEF Inv, TypeOK
  <2>2. /\ link = (IF running THEN "up" ELSE "absent")
        /\ ~running => Rules(0, 0, 0)
        /\ running => Rules(1, 1, 1)
    BY <2>1 DEF Careful, Ruled, Attached
  <2>3. ASSUME Rules(0, 0, 0) PROVE nat = NoRules
    <3>1. /\ nat.fwdIn = 0 /\ nat.fwdOut = 0
          /\ nat.masq = [r \in Route |-> 0]
      BY <2>1, <2>3 DEF Rules
    <3> QED  BY <2>1, <3>1 DEF NoRules
  <2> QED  BY <2>2, <2>3 DEF Rules
<1> QED  BY <1>1, Invariance, CarefulInvariance, PTL

(* A Start that announces its public key has one, unless a write has failed  *)
(* or was interrupted.                                                       *)
THEOREM KeyAnnounced == Spec => []KeyLoaded
<1>1. Careful => KeyLoaded
  BY DEF Careful, Keyed, KeyLoaded, At, Starting
<1> QED  BY <1>1, CarefulInvariance, PTL
=============================================================================
