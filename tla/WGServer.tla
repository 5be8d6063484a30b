------------------------------ MODULE WGServer ------------------------------
(***************************************************************************)
(* The WireGuard server: wgserver.Server, its PeerStore, the files they    *)
(* keep, and the interface and firewall rules they leave in the kernel.    *)
(*                                                                         *)
(* Start, Stop, AddPeer and RemovePeer hold s.mu from beginning to end, so *)
(* one operation is under way at a time.  Its steps are told apart because *)
(* each of them may fail, and the program may die between any two: memory  *)
(* is then lost, files and kernel state are not.                           *)
(***************************************************************************)
EXTENDS Naturals, FiniteSets

CONSTANTS
  Name,      \* names clients are given
  Key,       \* key pairs the server can generate
  Host,      \* last bytes allocateIP tries, 2 to 253 in the code
  Route,     \* interfaces the default route may go through
  None,      \* no peer
  MaxStarts, \* bound on the number of Starts
  Environments

(***************************************************************************)
(* An environment is the set of what may go wrong:                         *)
(*   crash   the program dies, or the machine reboots                      *)
(*   disk    a file cannot be opened, read or written                      *)
(*   wg      wg or ip fails                                                *)
(*   nat     iptables fails                                                *)
(*   route   the default route moves to another interface                  *)
(***************************************************************************)
Fault == {"crash", "disk", "wg", "nat", "route"}

ASSUME WGAssumption ==
  /\ Host \subseteq Nat
  /\ Route # {}
  /\ MaxStarts \in Nat
  /\ Environments \subseteq SUBSET Fault

Peer == [name : Name, key : Key, ip : Host]

ASSUME NoneAssumption == None \notin Peer

VARIABLES
  may,       \* the environment of this behaviour
  op,        \* the operation that holds s.mu: what, how far, and about whom
  running,   \* Server.running
  pub,       \* Server.publicKey
  peers,     \* PeerStore.peers; the order of the list is left out
  peersFile, \* peers.json
  keyFile,   \* server.key; a good key is not told apart from another one
  pubFile,   \* server.pub
  link,      \* the network interface wg-server
  wgPeers,   \* the peers configured on it
  nat,       \* how many copies of each firewall rule there are
  route,     \* the interface of the default route
  minted,    \* the keys generated so far
  starts,    \* the number of Starts so far
  acked,     \* peers AddPeer returned and nobody has asked to remove
  revoked    \* keys of the peers RemovePeer has reported removed

memory == <<running, pub, peers>>
keyFiles == <<keyFile, pubFile>>
kernel == <<link, wgPeers, nat>>
history == <<minted, starts, acked, revoked>>
vars == <<may, op, memory, peersFile, keyFiles, kernel, route, history>>

NoOp == [at |-> "idle", peer |-> None]

Step ==
  {"idle", "keys", "openKey", "writeKey", "openPub", "writePub", "load",
   "link", "configure", "attach", "masq", "fwdIn", "fwdOut", "announce",
   "unmasq", "unfwd", "unlink",
   "wgSet", "store", "flush", "undo", "wgRemove", "drop", "flushRemoval"}

At(step) == op.at = step
GoTo(step) == op' = [op EXCEPT !.at = step]
Return == op' = NoOp

NoRules == [masq |-> [r \in Route |-> 0], fwdIn |-> 0, fwdOut |-> 0]

\* A Save makes the file whole again; opened for writing it holds nothing yet.
Whole(ps) == [state |-> "whole", peers |-> ps]
Torn == [state |-> "torn", peers |-> {}]
Missing == [state |-> "absent", peers |-> {}]

Init ==
  /\ may \in Environments
  /\ op = NoOp
  /\ running = FALSE /\ pub = "unset" /\ peers = {}
  /\ peersFile = Missing
  /\ keyFile = "absent" /\ pubFile = "absent"
  /\ link = "absent" /\ wgPeers = {} /\ nat = NoRules
  /\ route \in Route
  /\ minted = {} /\ starts = 0 /\ acked = {} /\ revoked = {}

-----------------------------------------------------------------------------
(***************************************************************************)
(* Start: the keys.  A file is truncated when it is opened and written     *)
(* afterwards, so that an empty one may be found by the next Start.        *)
(***************************************************************************)

BeginStart ==
  /\ At("idle") /\ ~running
  /\ starts < MaxStarts
  /\ starts' = starts + 1
  /\ GoTo("keys")
  /\ UNCHANGED <<memory, peersFile, keyFiles, kernel, route, minted, acked,
                 revoked>>

\* Mutant: the public key of a new pair is written but not kept.
ReadKeysOnly ==
  /\ At("keys")
  /\ \/ keyFile = "absent" /\ GoTo("openKey") /\ UNCHANGED pub
     \/ keyFile # "absent" /\ pub' = pubFile /\ GoTo("load")
  /\ UNCHANGED <<running, peers, peersFile, keyFiles, kernel, route, history>>

\* A file that cannot be read counts as absent.
Unread(file) == file = "absent" \/ "disk" \in may

ReadKeys ==
  /\ At("keys")
  /\ \/ /\ Unread(keyFile)
        /\ pub' = "good"
        /\ GoTo("openKey")
     \/ /\ keyFile # "absent" /\ pubFile # "absent"
        /\ pub' = pubFile
        /\ GoTo("load")
     \/ /\ keyFile = "good" /\ Unread(pubFile)
        /\ pub' = "good"
        /\ GoTo("openPub")
     \/ \* no key pair can be generated, or derived from an empty key
        /\ \/ "wg" \in may /\ (Unread(keyFile) \/ Unread(pubFile))
           \/ keyFile = "empty" /\ Unread(pubFile)
        /\ Return
        /\ UNCHANGED pub
  /\ UNCHANGED <<running, peers, peersFile, keyFiles, kernel, route, history>>

OpenKey ==
  /\ At("openKey")
  /\ \/ keyFile' = "empty" /\ GoTo("writeKey")
     \/ "disk" \in may /\ Return /\ UNCHANGED keyFile
  /\ UNCHANGED <<memory, peersFile, pubFile, kernel, route, history>>

WriteKey ==
  /\ At("writeKey")
  /\ \/ keyFile' = "good" /\ GoTo("openPub")
     \/ "disk" \in may /\ Return /\ UNCHANGED keyFile
  /\ UNCHANGED <<memory, peersFile, pubFile, kernel, route, history>>

OpenPub ==
  /\ At("openPub")
  /\ \/ pubFile' = "empty" /\ GoTo("writePub")
     \/ "disk" \in may /\ Return /\ UNCHANGED pubFile
  /\ UNCHANGED <<memory, peersFile, keyFile, kernel, route, history>>

WritePub ==
  /\ At("writePub")
  /\ \/ pubFile' = "good" /\ GoTo("load")
     \/ "disk" \in may /\ Return /\ UNCHANGED pubFile
  /\ UNCHANGED <<memory, peersFile, keyFile, kernel, route, history>>

(***************************************************************************)
(* Start: the peers, the interface and the firewall.                       *)
(***************************************************************************)

\* A file that is missing or cannot be parsed leaves the list as it is.
Load ==
  /\ At("load")
  /\ peers' = IF peersFile.state = "whole" THEN peersFile.peers ELSE peers
  /\ GoTo("link")
  /\ UNCHANGED <<running, pub, peersFile, keyFiles, kernel, route, history>>

\* Mutant: an interface of this name is used as it is.
ReuseLink ==
  /\ At("link")
  /\ link' = "created"
  /\ GoTo("configure")
  /\ UNCHANGED <<memory, peersFile, keyFiles, wgPeers, nat, route, history>>

\* A failure to delete the interface is ignored everywhere.
TearDown ==
  \/ link' = "absent" /\ wgPeers' = {}
  \/ "wg" \in may /\ UNCHANGED <<link, wgPeers>>

\* Whatever an earlier life has left behind under this name is deleted first;
\* while it is there, none can be created.
CreateLink ==
  /\ At("link")
  /\ \/ link' = "created" /\ wgPeers' = {} /\ GoTo("configure")
     \/ "wg" \in may /\ TearDown /\ Return
  /\ UNCHANGED <<memory, peersFile, keyFiles, nat, route, history>>

\* A failure, which may be that of writing the key for wg to a temporary file,
\* returns without deleting the interface.
Configure ==
  /\ At("configure")
  /\ \/ link' = "up" /\ GoTo("attach")
     \/ may \cap {"disk", "wg"} # {} /\ Return /\ UNCHANGED link
  /\ UNCHANGED <<memory, peersFile, keyFiles, wgPeers, nat, route, history>>

\* Mutant: the loaded peers are not added to the interface.
AttachNone ==
  /\ At("attach")
  /\ GoTo("masq")
  /\ UNCHANGED <<memory, peersFile, keyFiles, kernel, route, history>>

\* The peers that wg refuses are only reported in the log.
Attach ==
  /\ At("attach")
  /\ \E ok \in SUBSET peers :
       /\ "wg" \in may \/ ok = peers
       /\ wgPeers' = wgPeers \cup ok
  /\ GoTo("masq")
  /\ UNCHANGED <<memory, peersFile, keyFiles, link, nat, route, history>>

\* A rule that cannot be added: the interface goes, earlier rules stay.
FailNAT ==
  /\ At("masq") \/ At("fwdIn") \/ At("fwdOut")
  /\ "nat" \in may
  /\ TearDown
  /\ Return
  /\ UNCHANGED <<memory, peersFile, keyFiles, nat, route, history>>

AddRule ==
  /\ \/ /\ At("masq")
        /\ nat' = [nat EXCEPT !.masq[route] = @ + 1]
        /\ GoTo("fwdIn")
     \/ /\ At("fwdIn")
        /\ nat' = [nat EXCEPT !.fwdIn = @ + 1]
        /\ GoTo("fwdOut")
     \/ /\ At("fwdOut")
        /\ nat' = [nat EXCEPT !.fwdOut = @ + 1]
        /\ GoTo("announce")
  /\ UNCHANGED <<memory, peersFile, keyFiles, link, wgPeers, route, history>>

\* The log line takes the first eight bytes of the public key.
Announce ==
  /\ At("announce")
  /\ pub # "empty"
  /\ running' = TRUE
  /\ Return
  /\ UNCHANGED <<pub, peers, peersFile, keyFiles, kernel, route, history>>

StartStep ==
  \/ BeginStart \/ ReadKeys \/ OpenKey \/ WriteKey \/ OpenPub \/ WritePub
  \/ Load \/ CreateLink \/ Configure \/ Attach \/ AddRule \/ FailNAT
  \/ Announce

-----------------------------------------------------------------------------
(***************************************************************************)
(* Stop.  Failures to delete a rule are ignored; the masquerading rule is  *)
(* looked for on the interface that has the default route now.             *)
(***************************************************************************)

BeginStop ==
  /\ At("idle") /\ running
  /\ GoTo("unmasq")
  /\ UNCHANGED <<memory, peersFile, keyFiles, kernel, route, history>>

OneLess(n) == IF n = 0 THEN 0 ELSE n - 1

DeleteMasquerade ==
  /\ At("unmasq")
  /\ \/ nat' = [nat EXCEPT !.masq[route] = OneLess(@)]
     \/ "nat" \in may /\ UNCHANGED nat
  /\ GoTo("unfwd")
  /\ UNCHANGED <<memory, peersFile, keyFiles, link, wgPeers, route, history>>

\* Mutant: only the rule for packets that come in is deleted.
DeleteForwardIn ==
  /\ At("unfwd")
  /\ nat' = [nat EXCEPT !.fwdIn = OneLess(@)]
  /\ GoTo("unlink")
  /\ UNCHANGED <<memory, peersFile, keyFiles, link, wgPeers, route, history>>

DeleteForward ==
  /\ At("unfwd")
  /\ \E in \in {OneLess(nat.fwdIn), nat.fwdIn} :
     \E out \in {OneLess(nat.fwdOut), nat.fwdOut} :
       /\ \/ "nat" \in may
          \/ in = OneLess(nat.fwdIn) /\ out = OneLess(nat.fwdOut)
       /\ nat' = [nat EXCEPT !.fwdIn = in, !.fwdOut = out]
  /\ GoTo("unlink")
  /\ UNCHANGED <<memory, peersFile, keyFiles, link, wgPeers, route, history>>

DeleteLink ==
  /\ At("unlink")
  /\ TearDown
  /\ running' = FALSE
  /\ Return
  /\ UNCHANGED <<pub, peers, peersFile, keyFiles, nat, route, history>>

StopStep == BeginStop \/ DeleteMasquerade \/ DeleteForward \/ DeleteLink

-----------------------------------------------------------------------------
(***************************************************************************)
(* AddPeer.                                                                *)
(***************************************************************************)

\* The addresses of the peers in the list; the server's own is no candidate.
Used == {p.ip : p \in peers}

\* Mutant: the address after the highest in use, even past the last candidate.
AllocateNext ==
  IF Used = {} THEN {2}
  ELSE {h + 1 : h \in {g \in Used : \A f \in Used : f <= g}}

\* Mutant: the address after as many as there are peers.
AllocateByCount == {2 + Cardinality(peers)} \cap Host

\* allocateIP takes the lowest one that is free.
Allocate == {h \in Host \ Used : \A g \in Host \ Used : h <= g}

Taken(n) == \E p \in peers : p.name = n

BeginAdd(n) ==
  /\ At("idle") /\ running
  /\ ~Taken(n)
  /\ \E k \in Key \ minted, h \in Allocate :
       /\ minted' = minted \cup {k}
       /\ op' = [at |-> "wgSet", peer |-> [name |-> n, key |-> k, ip |-> h]]
  /\ UNCHANGED <<memory, peersFile, keyFiles, kernel, route, starts, acked,
                 revoked>>

\* WireGuard moves an address that another peer had.
Configured(p) == {q \in wgPeers : q.ip # p.ip /\ q.key # p.key} \cup {p}

SetPeer ==
  /\ At("wgSet")
  /\ \/ wgPeers' = Configured(op.peer) /\ GoTo("store")
     \/ "wg" \in may /\ Return /\ UNCHANGED wgPeers
  /\ UNCHANGED <<memory, peersFile, keyFiles, link, nat, route, history>>

StorePeer ==
  /\ At("store")
  /\ peers' = peers \cup {op.peer}
  /\ \/ peersFile' = Torn /\ GoTo("flush")
     \/ "disk" \in may /\ GoTo("undo") /\ UNCHANGED peersFile
  /\ UNCHANGED <<running, pub, keyFiles, kernel, route, history>>

\* Mutant: the list is saved as it was before the peer was appended.
FlushOthers ==
  /\ At("flush")
  /\ peersFile' = Whole(peers \ {op.peer})
  /\ acked' = acked \cup {op.peer}
  /\ Return
  /\ UNCHANGED <<memory, keyFiles, kernel, route, minted, starts, revoked>>

FlushPeer ==
  /\ At("flush")
  /\ \/ /\ peersFile' = Whole(peers)
        /\ acked' = acked \cup {op.peer}
        /\ Return
     \/ /\ "disk" \in may
        /\ GoTo("undo")
        /\ UNCHANGED <<peersFile, acked>>
  /\ UNCHANGED <<memory, keyFiles, kernel, route, minted, starts, revoked>>

\* The peer leaves the interface, but not the list.
UndoPeer ==
  /\ At("undo")
  /\ \/ wgPeers' = {p \in wgPeers : p.key # op.peer.key}
     \/ "wg" \in may /\ UNCHANGED wgPeers
  /\ Return
  /\ UNCHANGED <<memory, peersFile, keyFiles, link, nat, route, history>>

AddStep ==
  \/ \E n \in Name : BeginAdd(n)
  \/ SetPeer \/ StorePeer \/ FlushPeer \/ UndoPeer

-----------------------------------------------------------------------------
(***************************************************************************)
(* RemovePeer.                                                             *)
(***************************************************************************)

BeginRemove(p) ==
  /\ At("idle") /\ running
  /\ op' = [at |-> "wgRemove", peer |-> p]
  /\ acked' = acked \ {p}
  /\ UNCHANGED <<memory, peersFile, keyFiles, kernel, route, minted, starts,
                 revoked>>

UnsetPeer ==
  /\ At("wgRemove")
  /\ \/ wgPeers' = {p \in wgPeers : p.key # op.peer.key}
     \/ "wg" \in may /\ UNCHANGED wgPeers
  /\ GoTo("drop")
  /\ UNCHANGED <<memory, peersFile, keyFiles, link, nat, route, history>>

\* Mutant: the error of Save is ignored.
DropUnsaved ==
  /\ At("drop")
  /\ peers' = peers \ {op.peer}
  /\ \/ peersFile' = Torn /\ GoTo("flushRemoval") /\ UNCHANGED revoked
     \/ /\ "disk" \in may
        /\ revoked' = revoked \cup {op.peer.key}
        /\ Return
        /\ UNCHANGED peersFile
  /\ UNCHANGED <<running, pub, keyFiles, kernel, route, minted, starts, acked>>

DropPeer ==
  /\ At("drop")
  /\ peers' = peers \ {op.peer}
  /\ \/ peersFile' = Torn /\ GoTo("flushRemoval")
     \/ "disk" \in may /\ Return /\ UNCHANGED peersFile
  /\ UNCHANGED <<running, pub, keyFiles, kernel, route, history>>

FlushRemoval ==
  /\ At("flushRemoval")
  /\ \/ /\ peersFile' = Whole(peers)
        /\ revoked' = revoked \cup {op.peer.key}
     \/ /\ "disk" \in may
        /\ UNCHANGED <<peersFile, revoked>>
  /\ Return
  /\ UNCHANGED <<memory, keyFiles, kernel, route, minted, starts, acked>>

RemoveStep ==
  \/ \E p \in peers : BeginRemove(p)
  \/ UnsetPeer \/ DropPeer \/ FlushRemoval

-----------------------------------------------------------------------------

LoseMemory ==
  /\ Return
  /\ running' = FALSE /\ pub' = "unset" /\ peers' = {}

\* The program dies, of a panic in Announce or for a reason of its own.
Crash ==
  /\ "crash" \in may \/ (At("announce") /\ pub = "empty")
  /\ LoseMemory
  /\ UNCHANGED <<peersFile, keyFiles, kernel, route, history>>

Reboot ==
  /\ "crash" \in may
  /\ LoseMemory
  /\ link' = "absent" /\ wgPeers' = {} /\ nat' = NoRules
  /\ UNCHANGED <<peersFile, keyFiles, route, history>>

MoveRoute ==
  /\ "route" \in may
  /\ route' \in Route \ {route}
  /\ UNCHANGED <<op, memory, peersFile, keyFiles, kernel, history>>

Next ==
  /\ UNCHANGED may
  /\ \/ StartStep \/ StopStep \/ AddStep \/ RemoveStep
     \/ Crash \/ Reboot \/ MoveRoute

Spec == Init /\ [][Next]_vars

-----------------------------------------------------------------------------
(***************************************************************************)
(* What holds whatever fails, and wherever the program dies.               *)
(***************************************************************************)

\* The type of every variable.
TypeOK ==
  /\ may \in Environments
  /\ op \in [at : Step, peer : Peer \cup {None}]
  /\ running \in BOOLEAN
  /\ pub \in {"unset", "good", "empty"}
  /\ peers \subseteq Peer
  /\ peersFile \in [state : {"absent", "torn", "whole"}, peers : SUBSET Peer]
  /\ keyFile \in {"absent", "empty", "good"}
  /\ pubFile \in {"absent", "empty", "good"}
  /\ link \in {"absent", "created", "up"}
  /\ wgPeers \subseteq Peer
  /\ nat \in [masq : [Route -> Nat], fwdIn : Nat, fwdOut : Nat]
  /\ route \in Route
  /\ minted \subseteq Key /\ revoked \subseteq Key
  /\ starts \in Nat
  /\ acked \subseteq Peer

Distinct(ps) ==
  \A p, q \in ps :
    p # q => p.name # q.name /\ p.ip # q.ip /\ p.key # q.key

\* No two clients ever have the same name, address or key, in the list or in
\* peers.json, although a failed AddPeer leaves its peer in the list and a
\* failed RemovePeer leaves its peer in the file.
UniquePeers == Distinct(peers) /\ Distinct(peersFile.peers)

\* A client that RemovePeer reported removed never comes back, neither into
\* the list nor from peers.json, after whatever crash.
RevokedIsGone ==
  \A p \in peers \cup peersFile.peers : p.key \notin revoked

(***************************************************************************)
(* What holds unless something in particular goes wrong.                   *)
(***************************************************************************)

Quiet == At("idle") /\ running

\* Between operations the interface admits no client that is not listed, if wg
\* does what it is told: not after a restart that finds an old interface, nor
\* after an AddPeer that could not be stored.
OnlyListedAdmitted == "wg" \notin may /\ Quiet => wgPeers \subseteq peers

\* ... and every client whose configuration was handed out and that is still
\* listed can connect, also after a restart of the server or of the program.
AckedAdmitted == "wg" \notin may /\ Quiet => acked \cap peers \subseteq wgPeers

\* The clients that were handed a configuration are on the disk.
Durable ==
  /\ acked \subseteq peersFile.peers
  /\ running => acked \subseteq peers

\* They are, between operations, if no write fails or is interrupted.
AckedDurable == may \cap {"crash", "disk"} = {} /\ At("idle") => Durable

\* "Stop tears down the WireGuard interface and NAT rules." (server.go, the
\* comment of Stop), and a running server has one rule of each kind, if no
\* command or write fails, the program is not killed and the route stays.
StopCleansUp ==
  may = {} /\ At("idle") =>
    /\ link = (IF running THEN "up" ELSE "absent")
    /\ ~running => nat = NoRules
    /\ running => nat.fwdIn = 1 /\ nat.fwdOut = 1

\* A server that is about to announce itself has a public key to announce, if
\* no write has failed or was interrupted.
KeyLoaded ==
  may \cap {"crash", "disk"} = {} /\ At("announce") => pub = "good"

(***************************************************************************)
(* What the comments say, without such conditions, and what does not hold. *)
(***************************************************************************)

\* "Add adds a new peer and persists." (peers.go, the comment of Add)
AddPersists == At("idle") => Durable
=============================================================================
