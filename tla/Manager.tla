------------------------------ MODULE Manager -------------------------------
(***************************************************************************)
(* tunnels.Manager: the list of tunnels, their ports, and the .conf files  *)
(* the list is rebuilt from when the program starts again.  Requests name  *)
(* a tunnel, look it up, and go on with what they found; m.mu is held for  *)
(* the look-up and for the change of the list, not in between.             *)
(*                                                                         *)
(* What happens to one tunnel is the subject of Tunnel; here stopTunnel    *)
(* and the success of startTunnel are one step each.                       *)
(***************************************************************************)
EXTENDS Naturals, Sequences, FiniteSets, SequencesExt

CONSTANTS
  Name,      \* names of tunnels
  Client,    \* clients of the HTTP interface, one request each at a time
  basePort,  \* Manager.basePort
  Environments

(***************************************************************************)
(* An environment fixes what may happen:                                   *)
(*   serial    do the requests that name one tunnel come one at a time,    *)
(*             when its starts are over?  (Others may come meanwhile.)     *)
(*   fresh     do imports only bring names that are not in the list?       *)
(*   crash     may the program die?                                        *)
(*   disk      may a file not be written, or not be removed?               *)
(*   lastPort  bound on the ports given out                                *)
(***************************************************************************)
ASSUME ManagerAssumption ==
  /\ basePort \in Nat
  /\ IsFiniteSet(Name) \* a directory holds finitely many files
  /\ Environments \subseteq
       [serial : BOOLEAN, fresh : BOOLEAN, crash : BOOLEAN, disk : BOOLEAN,
        lastPort : Nat]

VARIABLES
  env,       \* the environment of this behaviour
  tunnels,   \* Manager.tunnels
  nextPort,  \* Manager.nextPort
  disk,      \* the names of the .conf files in configDir
  starting,  \* startTunnel goroutines under way
  alive,     \* tunnels whose wireproxy runs
  req,       \* the request of each client
  kept       \* names whose import was reported and whose deletion nobody wants

vars == <<env, tunnels, nextPort, disk, starting, alive, req, kept>>

Tunnel == [name : Name, port : Nat]

NoRequest == [at |-> "idle", name |-> "", found |-> {}]

At(c, place) == req[c].at = place
Goto(c, place) == req' = [req EXCEPT ![c].at = place]

Return(c) == req' = [req EXCEPT ![c] = NoRequest]

\* LoadConfigs: one tunnel per file; StartAll starts them all.
Loaded(names) ==
  [i \in DOMAIN names |-> [name |-> names[i], port |-> basePort + i - 1]]

Listed == Range(tunnels)

Names == {t.name : t \in Listed}

Init ==
  /\ env \in Environments
  /\ disk \in SUBSET Name
  /\ \E names \in SetToSeqs(disk) :
       /\ tunnels = Loaded(names)
       /\ starting = Range(Loaded(names))
  /\ nextPort = basePort + Cardinality(disk)
  /\ alive = {}
  /\ req = [c \in Client |-> NoRequest]
  /\ kept = disk

\* No request names this tunnel, and no start of it is under way.
AtRest(n) ==
  /\ \A t \in starting : t.name # n
  /\ \A c \in Client : At(c, "idle") \/ req[c].name # n

Begin(c, n, found, place) ==
  /\ At(c, "idle")
  /\ env.serial => AtRest(n)
  /\ req' = [req EXCEPT ![c] = [at |-> place, name |-> n, found |-> found]]
  /\ kept' = IF place = "delete" THEN kept \ {n} ELSE kept
  /\ UNCHANGED <<tunnels, nextPort, disk, starting, alive>>

-----------------------------------------------------------------------------
(***************************************************************************)
(* ImportConfig.  The name is not looked up: a second import of a name     *)
(* overwrites its file and adds a second tunnel.                           *)
(***************************************************************************)

BeginImport(c, n) ==
  /\ env.fresh => n \notin Names
  /\ nextPort + Cardinality({d \in Client : At(d, "write") \/ At(d, "append")})
       < env.lastPort
  /\ Begin(c, n, {}, "write")

\* Mutant: the file is written after the answer, if at all.
WriteLater(c) ==
  /\ At(c, "write")
  /\ Goto(c, "append")
  /\ UNCHANGED <<tunnels, nextPort, disk, starting, alive, kept>>

WriteConf(c) ==
  /\ At(c, "write")
  /\ disk' = disk \cup {req[c].name}
  /\ Goto(c, "append")
  /\ UNCHANGED <<tunnels, nextPort, starting, alive, kept>>

FailWrite(c) ==
  /\ At(c, "write")
  /\ env.disk
  /\ disk' \in {disk, disk \cup {req[c].name}}
  /\ Return(c)
  /\ UNCHANGED <<tunnels, nextPort, starting, alive, kept>>

\* Mutant: the port follows from the length of the list.
AppendByLength(c) ==
  /\ At(c, "append")
  /\ LET t == [name |-> req[c].name, port |-> basePort + Len(tunnels)] IN
       /\ tunnels' = Append(tunnels, t)
       /\ starting' = starting \cup {t}
  /\ nextPort' = nextPort + 1
  /\ kept' = kept \cup {req[c].name}
  /\ Return(c)
  /\ UNCHANGED <<disk, alive>>

AppendTunnel(c) ==
  /\ At(c, "append")
  /\ LET t == [name |-> req[c].name, port |-> nextPort] IN
       /\ tunnels' = Append(tunnels, t)
       /\ starting' = starting \cup {t}
  /\ nextPort' = nextPort + 1
  /\ kept' = kept \cup {req[c].name}
  /\ Return(c)
  /\ UNCHANGED <<disk, alive>>

-----------------------------------------------------------------------------
(***************************************************************************)
(* Restart, Disconnect and Delete.  GetTunnel returns the first tunnel of  *)
(* that name.                                                              *)
(***************************************************************************)

Position(n) ==
  {i \in DOMAIN tunnels :
     tunnels[i].name = n /\ \A k \in 1..(i - 1) : tunnels[k].name # n}

First(n) == {tunnels[i] : i \in Position(n)}

BeginStop(c, n, kind) ==
  /\ First(n) # {}
  /\ Begin(c, n, First(n), kind)

StopTunnel(c) ==
  /\ alive' = alive \ req[c].found
  /\ UNCHANGED <<tunnels, nextPort, disk, kept>>

Restart(c) ==
  /\ At(c, "restart")
  /\ StopTunnel(c)
  /\ starting' = starting \cup req[c].found
  /\ Return(c)

Disconnect(c) ==
  /\ At(c, "disconnect")
  /\ StopTunnel(c)
  /\ Return(c)
  /\ UNCHANGED starting

\* Mutant: the tunnel is not stopped.
DeleteWithoutStop(c) ==
  /\ At(c, "delete")
  /\ Goto(c, "remove")
  /\ UNCHANGED <<tunnels, nextPort, disk, starting, alive, kept>>

DeleteStop(c) ==
  /\ At(c, "delete")
  /\ StopTunnel(c)
  /\ Goto(c, "remove")
  /\ UNCHANGED starting

\* Mutant: the file stays.
RemoveNothing(c) ==
  /\ At(c, "remove")
  /\ Goto(c, "unlist")
  /\ UNCHANGED <<tunnels, nextPort, disk, starting, alive, kept>>

RemoveConf(c) ==
  /\ At(c, "remove")
  /\ disk' = disk \ {req[c].name}
  /\ Goto(c, "unlist")
  /\ UNCHANGED <<tunnels, nextPort, starting, alive, kept>>

\* Delete returns and leaves the tunnel stopped, but listed.
FailRemove(c) ==
  /\ At(c, "remove") /\ req[c].name \in disk
  /\ env.disk
  /\ Return(c)
  /\ UNCHANGED <<tunnels, nextPort, disk, starting, alive, kept>>

\* Mutant: the list is searched from its end.
UnlistLast(c) ==
  /\ At(c, "unlist")
  /\ LET named == {i \in DOMAIN tunnels : tunnels[i].name = req[c].name} IN
       /\ named # {}
       /\ tunnels' = RemoveAt(tunnels, Max(named))
  /\ Return(c)
  /\ UNCHANGED <<nextPort, disk, starting, alive, kept>>

\* The first tunnel of that name goes, be it the one that was stopped or not.
Unlist(c) ==
  /\ At(c, "unlist")
  /\ \/ \E i \in Position(req[c].name) : tunnels' = RemoveAt(tunnels, i)
     \/ Position(req[c].name) = {} /\ UNCHANGED tunnels
  /\ Return(c)
  /\ UNCHANGED <<nextPort, disk, starting, alive, kept>>

-----------------------------------------------------------------------------

\* startTunnel needs the .conf file.
StartTunnel(t) ==
  /\ t \in starting
  /\ starting' = starting \ {t}
  /\ alive' = IF t.name \in disk THEN alive \cup {t} ELSE alive
  /\ UNCHANGED <<tunnels, nextPort, disk, req, kept>>

\* The program dies and is started again.  It is the first process of its
\* container (Dockerfile), so that its children die with it.
Crash ==
  /\ env.crash
  /\ \E names \in SetToSeqs(disk) :
       /\ tunnels' = Loaded(names)
       /\ starting' = Range(Loaded(names))
  /\ nextPort' = basePort + Cardinality(disk)
  /\ alive' = {}
  /\ req' = [c \in Client |-> NoRequest]
  /\ UNCHANGED <<disk, kept>>

Request(c) ==
  \/ WriteConf(c) \/ FailWrite(c) \/ AppendTunnel(c)
  \/ Restart(c) \/ Disconnect(c)
  \/ DeleteStop(c) \/ RemoveConf(c) \/ FailRemove(c) \/ Unlist(c)

NewRequest(c, n) ==
  \/ BeginImport(c, n)
  \/ \E kind \in {"restart", "disconnect", "delete"} : BeginStop(c, n, kind)

Next ==
  /\ UNCHANGED env
  /\ \/ \E c \in Client, n \in Name : NewRequest(c, n)
     \/ \E c \in Client : Request(c)
     \/ \E t \in starting : StartTunnel(t)
     \/ Crash

Spec == Init /\ [][Next]_vars

-----------------------------------------------------------------------------

\* The type of every variable.
TypeOK ==
  /\ env \in Environments
  /\ tunnels \in Seq(Tunnel)
  /\ nextPort \in Nat
  /\ disk \subseteq Name /\ kept \subseteq Name
  /\ starting \subseteq Tunnel /\ alive \subseteq Tunnel
  /\ req \in [Client ->
       [at : {"idle", "write", "append", "restart", "disconnect", "delete",
              "remove", "unlist"},
        name : Name \cup {""}, found : SUBSET Tunnel]]

\* A port names one tunnel in the life of the program, also after others were
\* deleted: the gold pool, the country proxies and requests under way may keep
\* a port or a tunnel for long after it has left the list.
PortsIncrease ==
  /\ \A i, j \in DOMAIN tunnels : i < j => tunnels[i].port < tunnels[j].port
  /\ \A t \in Listed \cup starting \cup alive : t.port < nextPort
  /\ \A t, u \in Listed \cup starting \cup alive : t.port = u.port => t = u

(***************************************************************************)
(* What holds when the requests that name one tunnel come one at a time,   *)
(* whatever is done to other tunnels meanwhile, and also when a name was   *)
(* imported twice.                                                         *)
(***************************************************************************)

\* Every wireproxy belongs to a tunnel of the list, where it can be stopped.
NoUnlistedProcess == env.serial => alive \subseteq Listed

\* "Delete stops the wireproxy process and removes the .conf file." (manager.go,
\* the comment of Delete): what it takes from the list is what it has stopped,
\* although it looks the name up twice, and other requests move the list in
\* between or have added the name again before.
DeletesWhatItStopped ==
  [][\A c \in Client :
       env.serial /\ Unlist(c) => (Listed \ Listed') \subseteq req[c].found]_vars

(***************************************************************************)
(* ... and writes succeed, although the program may die at any point.      *)
(***************************************************************************)

OneByOne == env.serial /\ ~env.disk

\* When nothing happens to a tunnel, its file and its place in the list agree, so
\* that a restart of the program brings back the same tunnels: a file has a
\* tunnel, and a tunnel has a file unless a listed name was imported again.
ListMatchesDisk ==
  OneByOne => \A n \in Name : AtRest(n) =>
                /\ n \in disk => n \in Names
                /\ env.fresh /\ n \in Names => n \in disk

\* An import that was reported is on the disk until somebody deletes it, also
\* if the program dies in the middle of another request.
KeptOnDisk == OneByOne => kept \subseteq disk
=============================================================================
