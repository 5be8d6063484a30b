----------------------------- MODULE ProxyServer -----------------------------
(***************************************************************************)
(* proxy.Server: the SOCKS5 proxy that spreads connections over the        *)
(* healthy tunnels, on one port for all tunnels and on one port for each   *)
(* country.  ListenAndServe and one loop per country accept; every         *)
(* connection has a goroutine, handleConnection.  Clients, tunnels and     *)
(* their health are the environment.                                       *)
(*                                                                         *)
(* Ports are numbered from CountryPortBase = 1; 0 is the common port.      *)
(***************************************************************************)
EXTENDS Naturals, Sequences, FiniteSets, SequencesExt, Functions

CONSTANTS
  Conn,    \* client connections
  Tunnels, \* the tunnels, in the order GetTunnels returns them
  Country, \* the country codes
  country, \* the country of each tunnel, or None
  None,
  Environments

Tunnel == ToSet(Tunnels)
Port == 0..Cardinality(Country)

(***************************************************************************)
(* An environment says which clients there are, whether a user name and a  *)
(* password are configured, whether a port may be taken by another         *)
(* program, and when Close may be called: never, at any time, or only      *)
(* after the listeners have been started.                                  *)
(***************************************************************************)
Environment ==
  [clients : SUBSET Conn, auth : BOOLEAN, taken : BOOLEAN,
   closing : {"never", "any time", "orderly"}]

ASSUME ProxyAssumption ==
  /\ Tunnels \in Seq(Tunnel) /\ IsInjective(Tunnels)
  /\ country \in [Tunnel -> Country \cup {None}] /\ None \notin Country \cup Tunnel
  /\ IsFiniteSet(Country)
  /\ Environments \subseteq Environment

VARIABLES
  env,     \* the environment of this behaviour
  healthy, \* the tunnels for which IsHealthy holds
  open,    \* the ports with an open listener
  loop,    \* by port, the loop that accepts
  stored,  \* has ListenAndServe stored its listener?
  closed,  \* Server.closed
  closer,  \* where Close is
  starter, \* StartCountryProxies: where it is, countries left, next port
  mapping, \* Server.countryMapping
  served,  \* by port, the country of the tunnels its loop passes on
  counter, \* by port, Server.counter or the counter of the country
  conn     \* the local variables of handleConnection, and where it is

serverVars == <<open, loop, stored, closed, closer, starter, mapping, served>>
vars == <<env, healthy, serverVars, counter, conn>>

New == [at |-> "absent", port |-> 0, left |-> <<>>, found |-> <<>>,
        ticket |-> 0, upstream |-> None, reply |-> "none", copying |-> {}]

Init ==
  /\ env \in Environments
  /\ healthy = Tunnel
  /\ open = {} /\ loop = [p \in Port |-> "none"]
  /\ stored = FALSE /\ closed = FALSE /\ closer = "idle"
  /\ starter = [at |-> "idle", left |-> {}, port |-> 1]
  /\ mapping = << >> /\ served = [p \in Port |-> None]
  /\ counter = [p \in Port |-> 0]
  /\ conn = [c \in Conn |-> New]

-----------------------------------------------------------------------------
(***************************************************************************)
(* ListenAndServe, and what all accepting loops do when Accept fails.      *)
(***************************************************************************)

Listen ==
  /\ loop[0] = "none"
  /\ \/ /\ env.taken
        /\ loop' = [loop EXCEPT ![0] = "ended"]
        /\ UNCHANGED open
     \/ /\ open' = open \cup {0}
        /\ loop' = [loop EXCEPT ![0] = "listening"]
  /\ UNCHANGED <<stored, closed, closer, starter, mapping, served>>

StoreListener ==
  /\ loop[0] = "listening"
  /\ stored' = TRUE
  /\ loop' = [loop EXCEPT ![0] = "accepting"]
  /\ UNCHANGED <<open, closed, closer, starter, mapping, served>>

\* Until closed is set, an error of Accept is only a reason to try again.
EndLoop(p) ==
  /\ loop[p] = "accepting"
  /\ p \notin open /\ closed
  /\ loop' = [loop EXCEPT ![p] = "ended"]
  /\ UNCHANGED <<open, stored, closed, closer, starter, mapping, served>>

-----------------------------------------------------------------------------
(***************************************************************************)
(* StartCountryProxies.  It holds countryMu from the first country to the  *)
(* last, and takes the countries in any order.                             *)
(***************************************************************************)

StartCountries ==
  /\ starter.at = "idle"
  /\ starter' = [at |-> "opening", left |-> ToSet([i \in DOMAIN Tunnels |->
                   country[Tunnels[i]]]) \ {None}, port |-> 1]
  /\ UNCHANGED <<open, loop, stored, closed, closer, mapping, served>>

\* Mutant: the next country gets the port that could not be opened.
SkipCountry(k) ==
  /\ starter' = [starter EXCEPT !.left = @ \ {k}]
  /\ UNCHANGED <<open, loop, served>>

FailCountry(k) ==
  /\ starter' = [starter EXCEPT !.left = @ \ {k}, !.port = @ + 1]
  /\ UNCHANGED <<open, loop, served>>

ServeCountry(k) ==
  /\ starter' = [starter EXCEPT !.left = @ \ {k}, !.port = @ + 1]
  /\ open' = open \cup {starter.port}
  /\ loop' = [loop EXCEPT ![starter.port] = "accepting"]
  /\ served' = [served EXCEPT ![starter.port] = k]

OpenCountry(k) ==
  /\ starter.at = "opening" /\ k \in starter.left
  /\ mapping' = [l \in DOMAIN mapping \cup {k} |->
                   IF l = k THEN starter.port ELSE mapping[l]]
  /\ (env.taken /\ FailCountry(k)) \/ ServeCountry(k)
  /\ UNCHANGED <<stored, closed, closer>>

CountriesStarted ==
  /\ starter.at = "opening" /\ starter.left = {}
  /\ starter' = [starter EXCEPT !.at = "done"]
  /\ UNCHANGED <<open, loop, stored, closed, closer, mapping, served>>

-----------------------------------------------------------------------------
(***************************************************************************)
(* Close.                                                                  *)
(***************************************************************************)

MayClose ==
  \/ env.closing = "any time"
  \/ /\ env.closing = "orderly"
     /\ loop[0] # "none" /\ loop[0] # "listening"
     /\ starter.at = "done"

BeginClose ==
  /\ closer = "idle" /\ MayClose
  /\ closed' = TRUE /\ closer' = "begun"
  /\ UNCHANGED <<open, loop, stored, starter, mapping, served>>

CloseListener ==
  /\ closer = "begun"
  /\ open' = IF stored THEN open \ {0} ELSE open
  /\ closer' = "listener"
  /\ UNCHANGED <<loop, stored, closed, starter, mapping, served>>

\* Mutant: the listeners of the countries are forgotten.
CloseNoCountries ==
  /\ closer = "listener" /\ starter.at # "opening"
  /\ closer' = "done"
  /\ UNCHANGED <<open, loop, stored, closed, starter, mapping, served>>

\* countryMu is read-locked here.
CloseCountries ==
  /\ closer = "listener" /\ starter.at # "opening"
  /\ open' = open \cap {0}
  /\ closer' = "done"
  /\ UNCHANGED <<loop, stored, closed, starter, mapping, served>>

ServerStep ==
  \/ StoreListener \/ \E p \in Port : EndLoop(p)
  \/ \E k \in Country : OpenCountry(k)
  \/ CountriesStarted
  \/ CloseListener \/ CloseCountries

-----------------------------------------------------------------------------
(***************************************************************************)
(* handleConnection.                                                       *)
(***************************************************************************)

At(c, place) == conn[c].at = place
Goto(c, place) == conn' = [conn EXCEPT ![c].at = place]

\* A return closes both connections.
Return(c, reply) ==
  conn' = [conn EXCEPT ![c].at = "closed", ![c].reply = reply,
                       ![c].upstream = None, ![c].copying = {}]

Accept(c, p) ==
  /\ At(c, "absent") /\ c \in env.clients
  /\ p \in open /\ loop[p] = "accepting"
  /\ conn' = [conn EXCEPT ![c].at = "new", ![c].port = p]
  /\ UNCHANGED counter

Greeting(c) ==
  /\ At(c, "new")
  /\ \/ Goto(c, IF env.auth THEN "auth" ELSE "greeted")
     \/ Return(c, "none")
  /\ UNCHANGED counter

Authenticate(c) ==
  /\ At(c, "auth")
  /\ Goto(c, "greeted") \/ Return(c, "none")
  /\ UNCHANGED counter

\* A request that is not a CONNECT is refused.
Request(c) ==
  /\ At(c, "greeted")
  /\ \/ conn' = [conn EXCEPT ![c].at = "scanning", ![c].left = Tunnels]
     \/ Return(c, "denied")
  /\ UNCHANGED counter

\* Is t in the list behind the port?  The list of a country is that of the time
\* its loop was started, in the order of all tunnels.
InCountry(p, t) == p = 0 \/ country[t] = served[p]

\* IsHealthy, for one tunnel after the other; a step passes one over that is
\* not in the list.
Scan(c) ==
  /\ At(c, "scanning") /\ conn[c].left # <<>>
  /\ LET t == Head(conn[c].left) IN
     conn' = [conn EXCEPT
       ![c].left = Tail(@),
       ![c].found = IF InCountry(conn[c].port, t) /\ t \in healthy
                      THEN Append(@, t) ELSE @]
  /\ UNCHANGED counter

NoBackend(c) ==
  /\ At(c, "scanning") /\ conn[c].left = <<>> /\ conn[c].found = <<>>
  /\ Return(c, "denied")
  /\ UNCHANGED counter

\* Mutant: the counter is read by one step and incremented by another.
ReadTurn(c) ==
  /\ At(c, "scanning") /\ conn[c].left = <<>> /\ conn[c].found # <<>>
  /\ conn' = [conn EXCEPT ![c].at = "turn", ![c].ticket = counter[conn[c].port]]
  /\ UNCHANGED counter

\* Server.mu makes one step of reading and incrementing the common counter.
\* The mutex of a country's counter is another one for every connection.
TakeTurn(c) ==
  LET p == conn[c].port IN
  /\ At(c, "scanning") /\ conn[c].left = <<>> /\ conn[c].found # <<>>
  /\ conn' = [conn EXCEPT ![c].at = IF p = 0 THEN "dialing" ELSE "turn",
                          ![c].ticket = counter[p]]
  /\ counter' = IF p = 0 THEN [counter EXCEPT ![p] = @ + 1] ELSE counter

\* The increment may use the value read before or read it again.
Increment(c) ==
  LET p == conn[c].port IN
  /\ At(c, "turn")
  /\ \E v \in {conn[c].ticket, counter[p]} : counter' = [counter EXCEPT ![p] = v + 1]
  /\ Goto(c, "dialing")

Backend(c) == conn[c].found[(conn[c].ticket % Len(conn[c].found)) + 1]

Dial(c) ==
  /\ At(c, "dialing")
  /\ \/ conn' = [conn EXCEPT ![c].at = "handshake", ![c].upstream = Backend(c)]
     \/ Return(c, "denied")
  /\ UNCHANGED counter

\* Mutant: the connection to the backend is only closed by the relay.
HandshakeLeaking(c) ==
  /\ At(c, "handshake")
  /\ \/ conn' = [conn EXCEPT ![c].at = "relay", ![c].reply = "granted",
                             ![c].copying = {"up", "down"}]
     \/ conn' = [conn EXCEPT ![c].at = "closed", ![c].reply = "denied"]
  /\ UNCHANGED counter

\* There is no deadline: a backend that says nothing is waited for.
Handshake(c) ==
  /\ At(c, "handshake")
  /\ \/ conn' = [conn EXCEPT ![c].at = "relay", ![c].reply = "granted",
                             ![c].copying = {"up", "down"}]
     \/ Return(c, "denied")
  /\ UNCHANGED counter

EndCopy(c, direction) ==
  /\ At(c, "relay") /\ direction \in conn[c].copying
  /\ conn' = [conn EXCEPT ![c].copying = @ \ {direction}]
  /\ UNCHANGED counter

Finish(c) ==
  /\ At(c, "relay") /\ conn[c].copying = {}
  /\ Return(c, "granted")
  /\ UNCHANGED counter

ConnStep(c) ==
  \/ \E p \in Port : Accept(c, p)
  \/ Greeting(c) \/ Authenticate(c) \/ Request(c)
  \/ Scan(c) \/ NoBackend(c) \/ TakeTurn(c) \/ Increment(c)
  \/ Dial(c) \/ Handshake(c)
  \/ \E direction \in {"up", "down"} : EndCopy(c, direction)
  \/ Finish(c)

-----------------------------------------------------------------------------

\* The health checker, requests and dying processes.  Only scans read it.
ChangeHealth(t) ==
  /\ \E c \in Conn : At(c, "scanning") /\ t \in ToSet(conn[c].left)
  /\ healthy' = IF t \in healthy THEN healthy \ {t} ELSE healthy \cup {t}

Next ==
  /\ UNCHANGED env
  /\ \/ /\ Listen \/ StartCountries \/ BeginClose \/ ServerStep
        /\ UNCHANGED <<healthy, counter, conn>>
     \/ \E c \in Conn : ConnStep(c) /\ UNCHANGED <<healthy, serverVars>>
     \/ \E t \in Tunnel : ChangeHealth(t) /\ UNCHANGED <<serverVars, counter, conn>>

Spec == Init /\ [][Next]_vars

\* Goroutines are scheduled, and none of these can run for ever.  The program
\* may never call Close, and clients and backends may wait as long as they like.
FairSpec == Spec /\ WF_serverVars(ServerStep)

-----------------------------------------------------------------------------

\* Connections to the common port that have found the same tunnels healthy, and
\* come within one round of them, leave through different tunnels: "load-balances
\* across healthy tunnel backends" (server.go, Server).
RoundRobin ==
  \A c, d \in Conn :
    (/\ c # d
     /\ conn[c].port = 0 /\ conn[d].port = 0
     /\ conn[c].upstream # None /\ conn[d].upstream # None
     /\ conn[c].found = conn[d].found
     /\ conn[c].ticket <= conn[d].ticket
     /\ conn[d].ticket < conn[c].ticket + Len(conn[c].found))
    => conn[c].upstream # conn[d].upstream

\* Whoever connects to the port GetCountryMapping gives for a country is not
\* served through a tunnel of another one, also when ports could not be opened.
MappingServes ==
  \A c \in Conn : \A k \in DOMAIN mapping :
    conn[c].port = mapping[k] /\ conn[c].upstream # None =>
      country[conn[c].upstream] = k

\* A Close that is called when everything has been started ends every loop.
LoopsEnd ==
  env.closing = "orderly" /\ closed ~>
    \A p \in Port : loop[p] \in {"none", "ended"}

Phase(c) ==
  CASE conn[c].at \in {"absent", "new", "auth", "greeted"} -> "negotiating"
    [] conn[c].at = "relay" -> "relaying"
    [] conn[c].at = "closed" -> "closed"
    [] OTHER -> "pending"

Promise == INSTANCE Socks WITH
  phase <- [c \in Conn |-> Phase(c)],
  reply <- [c \in Conn |-> conn[c].reply],
  upstream <- [c \in Conn |-> conn[c].upstream # None]

\* Server is a SOCKS5 proxy: one answer at most, "granted" only over an open
\* connection to a tunnel, which is closed on every way out.  It does not promise
\* an answer, since it waits for a silent backend.
ImplementsSocks == Promise!Spec
=============================================================================
