-------------------------- MODULE ProxyServerProofs --------------------------
(***************************************************************************)
(* Theorems about ProxyServer, for any number of clients, tunnels and      *)
(* countries, and whenever Close is called.                                *)
(*                                                                         *)
(* The ports of the countries: what GetCountryMapping says of a port is    *)
(* what its loop passes on (Countries), also to connections that outlive   *)
(* the loop (Reach).  The common port: no two connections have the same    *)
(* turn (Turns), and a list of candidates has no tunnel twice (Scanned).   *)
(***************************************************************************)
EXTENDS ProxyServer, ModuloFacts, FiniteSetTheorems, TLAPS

ConnType ==
  [at : {"absent", "new", "auth", "greeted", "scanning", "turn", "dialing",
         "handshake", "relay", "closed"},
   port : Port, left : Seq(Tunnel), found : Seq(Tunnel), ticket : Nat,
   upstream : Tunnel \cup {None}, reply : {"none", "denied", "granted"},
   copying : SUBSET {"up", "down"}]

Types ==
  /\ env \in Environments /\ healthy \subseteq Tunnel
  /\ loop \in [Port -> {"none", "listening", "accepting", "ended"}]
  /\ starter \in [at : {"idle", "opening", "done"}, left : SUBSET Country,
                  port : Nat \ {0}]
  /\ served \in [Port -> Country \cup {None}]
  /\ counter \in [Port -> Nat]
  /\ conn \in [Conn -> ConnType]

Countries ==
  /\ DOMAIN mapping \subseteq Country
  /\ starter.at = "idle" => DOMAIN mapping = {}
  /\ starter.left \cap DOMAIN mapping = {}
  /\ \A k \in DOMAIN mapping : mapping[k] \in 1..(starter.port - 1)
  /\ \A k, l \in DOMAIN mapping : mapping[k] = mapping[l] => k = l
  /\ \A p \in Port : p >= starter.port => loop[p] = "none"
  /\ \A p \in Port \ {0} : loop[p] # "none" =>
       served[p] \in DOMAIN mapping /\ mapping[served[p]] = p

Reach(c) ==
  /\ conn[c].port # 0 => loop[conn[c].port] # "none"
  /\ \A i \in DOMAIN conn[c].found : InCountry(conn[c].port, conn[c].found[i])

Distinct(s) == \A i, j \in DOMAIN s : s[i] = s[j] => i = j

Scanned(c) ==
  /\ Distinct(conn[c].left) /\ Distinct(conn[c].found)
  /\ \A i \in DOMAIN conn[c].left, j \in DOMAIN conn[c].found :
       conn[c].left[i] # conn[c].found[j]

Stage(c) ==
  /\ conn[c].at \in {"absent", "new", "auth", "greeted"} => conn[c].found = <<>>
  /\ conn[c].at \in {"turn", "dialing", "handshake", "relay"} =>
       conn[c].found # <<>>
  /\ conn[c].at = "turn" => conn[c].port # 0
  /\ conn[c].upstream # None <=> conn[c].at \in {"handshake", "relay"}
  /\ conn[c].upstream # None => conn[c].upstream = Backend(c)
  /\ conn[c].at \notin {"relay", "closed"} => conn[c].reply = "none"
  /\ conn[c].at = "relay" => conn[c].reply = "granted"

HasTurn(c) ==
  conn[c].port = 0 /\ conn[c].at \in {"dialing", "handshake", "relay"}

Turns ==
  /\ \A c \in Conn : HasTurn(c) => conn[c].ticket < counter[0]
  /\ \A c, d \in Conn :
       c # d /\ HasTurn(c) /\ HasTurn(d) => conn[c].ticket # conn[d].ticket

Inv ==
  /\ Types /\ Countries /\ Turns
  /\ \A c \in Conn : Reach(c) /\ Scanned(c) /\ Stage(c)

-----------------------------------------------------------------------------

LEMMA Constants ==
  /\ 0 \in Port /\ Port \subseteq Nat
  /\ None \notin Country /\ None \notin Tunnel
  /\ Tunnels \in Seq(Tunnel) /\ Distinct(Tunnels)
  /\ \A t \in Tunnel : country[t] \in Country \cup {None}
<1>1. Cardinality(Country) \in Nat
  BY ProxyAssumption, FS_CardinalityType
<1> QED  BY <1>1, ProxyAssumption DEF Port, Distinct, IsInjective

LEMMA InitInv == Init => Inv
<1> SUFFICES ASSUME Init PROVE Inv
  OBVIOUS
<1>1. /\ New \in ConnType /\ 1 \in Nat \ {0} /\ DOMAIN << >> = {}
  BY Constants DEF New, ConnType
<1>2. Types
  BY <1>1, Constants, ProxyAssumption DEF Init, Types
<1>3. Countries
  BY <1>1 DEF Init, Countries
<1>4. \A c \in Conn : conn[c] = New
  BY DEF Init
<1>5. Turns
  BY <1>4 DEF Turns, HasTurn, New
<1>6. \A c \in Conn : Reach(c) /\ Scanned(c) /\ Stage(c)
  BY <1>1, <1>4 DEF Reach, Scanned, Stage, Distinct, New
<1> QED  BY <1>2, <1>3, <1>5, <1>6 DEF Inv

(* What a step of the server leaves for the connections there are.           *)
LEMMA ServerConn ==
  ASSUME Inv, UNCHANGED <<env, healthy, counter, conn>>, Types', Countries',
         \A p \in Port : loop[p] # "none" =>
           loop'[p] # "none" /\ (p # 0 => served'[p] = served[p])
  PROVE  Inv'
<1>1. Turns' /\ \A c \in Conn : Scanned(c)' /\ Stage(c)'
  BY DEF Inv, Turns, HasTurn, Scanned, Stage, Backend, Distinct
<1>2. \A c \in Conn : Reach(c)'
  <2> SUFFICES ASSUME NEW c \in Conn PROVE Reach(c)'
    OBVIOUS
  <2>1. conn[c].port \in Port /\ Reach(c)
    BY DEF Inv, Types, ConnType
  <2> QED  BY <2>1 DEF Reach, InCountry
<1> QED  BY <1>1, <1>2 DEF Inv

LEMMA OpenInv ==
  ASSUME Inv, UNCHANGED <<env, healthy, counter, conn>>, NEW k \in Country,
         OpenCountry(k)
  PROVE  Inv'
<1> DEFINE q == starter.port
<1>1. /\ starter.at = "opening" /\ k \in starter.left
      /\ starter' = [starter EXCEPT !.left = starter.left \ {k},
                                    !.port = q + 1]
      /\ DOMAIN mapping' = DOMAIN mapping \cup {k}
      /\ mapping'[k] = q
      /\ \A l \in DOMAIN mapping \ {k} : mapping'[l] = mapping[l]
  BY DEF OpenCountry, FailCountry, ServeCountry
<1>2. \/ UNCHANGED <<loop, served>>
      \/ /\ loop' = [loop EXCEPT ![q] = "accepting"]
         /\ served' = [served EXCEPT ![q] = k]
  BY DEF OpenCountry, FailCountry, ServeCountry
<1>3. /\ loop \in [Port -> {"none", "listening", "accepting", "ended"}]
      /\ served \in [Port -> Country \cup {None}]
      /\ q \in Nat \ {0} /\ q + 1 \in Nat \ {0}
      /\ starter.left \subseteq Country
      /\ Countries /\ Port \subseteq Nat
  BY Constants DEF Inv, Types
<1>4. starter'.port = q + 1 /\ starter'.at = "opening"
      /\ starter'.left = starter.left \ {k}
  BY <1>1 DEF Inv, Types
<1>5. Types'
  <2>1. starter' \in [at : {"idle", "opening", "done"}, left : SUBSET Country,
                      port : Nat \ {0}]
    BY <1>1, <1>3 DEF Inv, Types
  <2>2. served' \in [Port -> Country \cup {None}]
    BY <1>2, <1>3
  <2>3. loop' \in [Port -> {"none", "listening", "accepting", "ended"}]
    BY <1>2, <1>3
  <2> QED  BY <2>1, <2>2, <2>3 DEF Inv, Types
<1>6. k \notin DOMAIN mapping
  BY <1>1, <1>3 DEF Countries
<1> HIDE DEF q
<1>7. \A p \in Port : p >= q => loop[p] = "none"
  BY <1>3 DEF Countries, q
<1>8. \A p \in Port \ {q} : loop'[p] = loop[p] /\ served'[p] = served[p]
  BY <1>2, <1>3
<1>9. \A p \in Port : loop[p] # "none" => p # q
  BY <1>3, <1>7
<1>10. Countries'
  <2>1. /\ DOMAIN mapping' \subseteq Country
        /\ starter'.left \cap DOMAIN mapping' = {}
    BY <1>1, <1>3, <1>4 DEF Countries
  <2>2. /\ \A l \in DOMAIN mapping' : mapping'[l] \in 1..q
        /\ \A l \in DOMAIN mapping : mapping[l] \in 1..(q - 1)
    BY <1>1, <1>3, <1>6 DEF Countries, q
  <2>3. \A l, m \in DOMAIN mapping' : mapping'[l] = mapping'[m] => l = m
    BY <1>1, <1>3, <1>6, <2>2 DEF Countries
  <2>4. \A p \in Port : p >= q + 1 => loop'[p] = "none"
    <3>1. \A p \in Port : p >= q + 1 => p >= q /\ p # q
      BY <1>3 DEF q
    <3> QED  BY <1>7, <1>8, <3>1
  <2>5. \A p \in Port \ {0} : loop'[p] # "none" =>
          served'[p] \in DOMAIN mapping' /\ mapping'[served'[p]] = p
    BY <1>1, <1>2, <1>3, <1>6, <1>7, <1>8 DEF Countries
  <2>6. (q + 1) - 1 = q
    BY <1>3
  <2> QED  BY <1>4, <2>1, <2>2, <2>3, <2>4, <2>5, <2>6 DEF Countries
<1> QED  BY <1>5, <1>8, <1>9, <1>10, ServerConn

LEMMA ServerInv ==
  ASSUME Inv, UNCHANGED <<env, healthy, counter, conn>>,
         Listen \/ StartCountries \/ BeginClose \/ ServerStep
  PROVE  Inv'
<1>1. /\ loop \in [Port -> {"none", "listening", "accepting", "ended"}]
      /\ Types /\ Countries /\ 0 \in Port /\ Port \subseteq Nat
      /\ starter.port \in Nat \ {0}
  BY Constants DEF Inv, Types
<1>2. ASSUME NEW p \in Port, NEW place \in {"listening", "accepting", "ended"},
             loop' = [loop EXCEPT ![p] = place], p # 0 => loop[p] # "none",
             UNCHANGED <<starter, mapping, served>>
      PROVE  Inv'
  <2>1. Types'
    BY <1>1, <1>2 DEF Types
  <2>2. Countries'
    BY <1>1, <1>2 DEF Countries
  <2> QED  BY <1>1, <1>2, <2>1, <2>2, ServerConn
<1>3. CASE Listen \/ StoreListener
  BY <1>1, <1>2, <1>3 DEF Listen, StoreListener
<1>4. CASE \E p \in Port : EndLoop(p)
  BY <1>1, <1>2, <1>4 DEF EndLoop
<1>5. CASE StartCountries
  <2>1. /\ starter.at = "idle" /\ UNCHANGED <<loop, mapping, served>>
        /\ starter'.at = "opening" /\ starter'.port = 1
        /\ starter'.left \subseteq Country
        /\ starter' = [at |-> "opening", left |-> starter'.left, port |-> 1]
    <3>1. \A i \in DOMAIN Tunnels : country[Tunnels[i]] \in Country \cup {None}
      BY Constants
    <3> QED  BY <1>5, <3>1 DEF StartCountries, ToSet
  <2>2. Types'
    BY <1>1, <2>1 DEF Types
  <2>3. Countries'
    BY <1>1, <2>1 DEF Countries
  <2> QED  BY <1>1, <2>1, <2>2, <2>3, ServerConn
<1>6. CASE CountriesStarted
  <2>1. /\ UNCHANGED <<loop, mapping, served>> /\ starter.at = "opening"
        /\ starter' = [starter EXCEPT !.at = "done"]
    BY <1>6 DEF CountriesStarted
  <2>2. Types'
    BY <1>1, <2>1 DEF Types
  <2>3. Countries'
    BY <1>1, <2>1 DEF Countries, Types
  <2> QED  BY <1>1, <2>1, <2>2, <2>3, ServerConn
<1>7. CASE BeginClose \/ CloseListener \/ CloseCountries
  <2>1. UNCHANGED <<loop, mapping, served, starter>>
    BY <1>7 DEF BeginClose, CloseListener, CloseCountries
  <2>2. Types' /\ Countries'
    BY <1>1, <2>1 DEF Types, Countries
  <2> QED  BY <1>1, <2>1, <2>2, ServerConn
<1> QED  BY <1>3, <1>4, <1>5, <1>6, <1>7, OpenInv DEF ServerStep
-----------------------------------------------------------------------------
(* handleConnection. *)

(* What a step of one connection has to leave for the invariant to hold.     *)
LEMMA OneConn ==
  ASSUME Inv, UNCHANGED <<env, healthy, serverVars>>, NEW c \in Conn,
         conn' = [conn EXCEPT ![c] = conn'[c]], conn'[c] \in ConnType,
         counter' \in [Port -> Nat],
         Reach(c)', Scanned(c)', Stage(c)',
         \/ /\ counter'[0] = counter[0]
            /\ HasTurn(c)' => HasTurn(c) /\ conn'[c].ticket = conn[c].ticket
         \/ conn'[c].ticket = counter[0] /\ counter'[0] = counter[0] + 1
  PROVE  Inv'
<1>1. conn \in [Conn -> ConnType] /\ counter[0] \in Nat
  BY Constants DEF Inv, Types
<1>2. Types'
  BY <1>1 DEF Inv, Types, serverVars
<1>3. Countries'
  BY DEF Inv, Countries, serverVars
<1>4. \A d \in Conn \ {c} : conn'[d] = conn[d]
  BY <1>1
<1>5. ASSUME NEW d \in Conn
      PROVE  Reach(d)' /\ Scanned(d)' /\ Stage(d)'
  <2>1. CASE d = c
    BY <2>1
  <2>2. CASE d # c
    BY <1>4, <2>2
    DEF Inv, Reach, InCountry, Scanned, Stage, Backend, Distinct, serverVars
  <2> QED  BY <2>1, <2>2
<1>6. \A d \in Conn : conn[d].ticket \in Nat
  BY <1>1 DEF ConnType
<1>7. \A d \in Conn \ {c} : HasTurn(d)' = HasTurn(d)
  BY <1>4 DEF HasTurn
<1>8. Turns'
  BY <1>1, <1>4, <1>6, <1>7 DEF Inv, Turns
<1> QED  BY <1>2, <1>3, <1>5, <1>8 DEF Inv

(* The tunnel whose turn it is is one of those found healthy.                *)
LEMMA BackendType ==
  ASSUME Inv, NEW c \in Conn, conn[c].at \in {"dialing", "handshake", "relay"}
  PROVE  /\ Backend(c) \in Tunnel
         /\ \E i \in DOMAIN conn[c].found : Backend(c) = conn[c].found[i]
<1> DEFINE found == conn[c].found
           a == conn[c].ticket
<1>1. found \in Seq(Tunnel) /\ found # <<>> /\ a \in Nat
  BY DEF Inv, Types, ConnType, Stage
<1>2. Len(found) \in Nat \ {0} /\ DOMAIN found = 1..Len(found)
  BY <1>1
<1>3. a % Len(found) \in 0..(Len(found) - 1)
  BY <1>1, <1>2, DivMod
<1>4. (a % Len(found)) + 1 \in DOMAIN found
  BY <1>2, <1>3
<1> QED  BY <1>1, <1>4 DEF Backend

(* A step that neither takes a turn nor adds to what was found.              *)
LEMMA QuietInv ==
  ASSUME Inv, UNCHANGED <<env, healthy, serverVars, counter>>, NEW c \in Conn,
         \/ \E p \in Port : Accept(c, p)
         \/ Greeting(c) \/ Authenticate(c) \/ Request(c) \/ NoBackend(c)
         \/ Dial(c) \/ Handshake(c)
         \/ \E direction \in {"up", "down"} : EndCopy(c, direction)
         \/ Finish(c)
  PROVE  Inv'
<1>1. conn[c] \in ConnType /\ conn \in [Conn -> ConnType]
      /\ counter \in [Port -> Nat]
  BY DEF Inv, Types
<1>2. Reach(c) /\ Scanned(c) /\ Stage(c)
  BY DEF Inv
<1>3. ASSUME NEW reply \in {"none", "denied", "granted"}, Return(c, reply)
      PROVE  Inv'
  <2>1. /\ conn' = [conn EXCEPT ![c] = conn'[c]] /\ conn'[c] \in ConnType
        /\ conn'[c].at = "closed" /\ conn'[c].upstream = None
        /\ conn'[c].port = conn[c].port /\ conn'[c].left = conn[c].left
        /\ conn'[c].found = conn[c].found
    BY <1>1, <1>3 DEF Return, ConnType
  <2>2. Reach(c)' /\ Scanned(c)' /\ Stage(c)' /\ ~HasTurn(c)'
    BY <1>2, <2>1
    DEF Reach, InCountry, Scanned, Stage, HasTurn, serverVars, Distinct
  <2> QED  BY <1>1, <2>1, <2>2, OneConn
<1>4. ASSUME NEW from \in {"new", "auth"}, NEW place \in {"auth", "greeted"},
             At(c, from), Goto(c, place)
      PROVE  Inv'
  <2>1. /\ conn' = [conn EXCEPT ![c] = conn'[c]] /\ conn'[c] \in ConnType
        /\ conn'[c].at = place /\ conn'[c].upstream = conn[c].upstream
        /\ conn'[c].port = conn[c].port /\ conn'[c].left = conn[c].left
        /\ conn'[c].found = conn[c].found /\ conn'[c].reply = conn[c].reply
    BY <1>1, <1>4 DEF Goto, ConnType
  <2>2. Reach(c)' /\ Scanned(c)' /\ Stage(c)' /\ ~HasTurn(c)'
    BY <1>2, <1>4, <2>1
    DEF At, Reach, InCountry, Scanned, Stage, HasTurn, serverVars, Distinct
  <2> QED  BY <1>1, <2>1, <2>2, OneConn
<1>5. ASSUME NEW p \in Port, Accept(c, p)
      PROVE  Inv'
  <2>1. /\ conn' = [conn EXCEPT ![c] = conn'[c]] /\ conn'[c] \in ConnType
        /\ conn'[c].at = "new" /\ conn'[c].upstream = conn[c].upstream
        /\ conn'[c].port = p /\ conn'[c].left = conn[c].left
        /\ conn'[c].found = conn[c].found /\ conn'[c].reply = conn[c].reply
        /\ loop[p] = "accepting" /\ conn[c].at = "absent"
    BY <1>1, <1>5 DEF Accept, At, ConnType
  <2>2. Reach(c)' /\ Scanned(c)' /\ Stage(c)' /\ ~HasTurn(c)'
    BY <1>2, <2>1
    DEF Reach, InCountry, Scanned, Stage, HasTurn, serverVars, Distinct
  <2> QED  BY <1>1, <2>1, <2>2, OneConn
<1>6. ASSUME At(c, "greeted"),
             conn' = [conn EXCEPT ![c].at = "scanning", ![c].left = Tunnels]
      PROVE  Inv'
  <2>1. /\ conn' = [conn EXCEPT ![c] = conn'[c]] /\ conn'[c] \in ConnType
        /\ conn'[c].at = "scanning" /\ conn'[c].upstream = conn[c].upstream
        /\ conn'[c].port = conn[c].port /\ conn'[c].left = Tunnels
        /\ conn'[c].found = conn[c].found /\ conn'[c].reply = conn[c].reply
        /\ conn[c].found = <<>> /\ conn[c].upstream = None
        /\ conn[c].reply = "none"
    BY <1>1, <1>2, <1>6, Constants DEF At, ConnType, Stage
  <2>2. Reach(c)' /\ Scanned(c)' /\ Stage(c)' /\ ~HasTurn(c)'
    BY <1>2, <2>1, Constants
    DEF Reach, InCountry, Scanned, Stage, HasTurn, serverVars, Distinct
  <2> QED  BY <1>1, <2>1, <2>2, OneConn
<1>7. ASSUME At(c, "dialing"), conn' = [conn EXCEPT ![c].at = "handshake",
                                                 ![c].upstream = Backend(c)]
      PROVE  Inv'
  <2>1. Backend(c) \in Tunnel
    BY <1>7, BackendType DEF At
  <2>2. /\ conn' = [conn EXCEPT ![c] = conn'[c]] /\ conn'[c] \in ConnType
        /\ conn'[c].at = "handshake" /\ conn'[c].upstream = Backend(c)
        /\ conn'[c].port = conn[c].port /\ conn'[c].left = conn[c].left
        /\ conn'[c].found = conn[c].found /\ conn'[c].reply = conn[c].reply
        /\ conn'[c].ticket = conn[c].ticket
    BY <1>1, <1>7, <2>1 DEF ConnType
  <2>3. Backend(c)' = Backend(c)
    BY <2>2 DEF Backend
  <2>4. Reach(c)' /\ Scanned(c)'
    BY <1>2, <2>2 DEF Reach, InCountry, Scanned, serverVars, Distinct
  <2>5. Stage(c)'
    BY <1>2, <1>7, <2>1, <2>2, <2>3, Constants DEF At, Stage
  <2>6. HasTurn(c)' => HasTurn(c)
    BY <1>7, <2>2 DEF HasTurn, At
  <2> QED  BY <1>1, <2>2, <2>4, <2>5, <2>6, OneConn
<1>8. ASSUME NEW copying \in SUBSET {"up", "down"},
             conn[c].at \in {"handshake", "relay"},
             conn' = [conn EXCEPT ![c].at = "relay", ![c].reply = "granted",
                                  ![c].copying = copying]
      PROVE  Inv'
  <2>1. /\ conn' = [conn EXCEPT ![c] = conn'[c]] /\ conn'[c] \in ConnType
        /\ conn'[c].at = "relay" /\ conn'[c].upstream = conn[c].upstream
        /\ conn'[c].port = conn[c].port /\ conn'[c].left = conn[c].left
        /\ conn'[c].found = conn[c].found /\ conn'[c].reply = "granted"
        /\ conn'[c].ticket = conn[c].ticket
    BY <1>1, <1>8 DEF ConnType
  <2>2. Backend(c)' = Backend(c)
    BY <2>1 DEF Backend
  <2>3. Reach(c)' /\ Scanned(c)'
    BY <1>2, <2>1 DEF Reach, InCountry, Scanned, serverVars, Distinct
  <2>4. Stage(c)'
    BY <1>2, <1>8, <2>1, <2>2 DEF Stage
  <2>5. HasTurn(c)' => HasTurn(c)
    BY <1>8, <2>1 DEF HasTurn
  <2> QED  BY <1>1, <2>1, <2>3, <2>4, <2>5, OneConn
<1>9. CASE \E p \in Port : Accept(c, p)
  BY <1>5, <1>9
<1>10. CASE Greeting(c) \/ Authenticate(c)
  BY <1>3, <1>4, <1>10 DEF Greeting, Authenticate
<1>11. CASE Request(c) \/ NoBackend(c) \/ Finish(c)
  BY <1>3, <1>6, <1>11 DEF Request, NoBackend, Finish
<1>12. CASE Dial(c)
  BY <1>3, <1>7, <1>12 DEF Dial
<1>13. CASE Handshake(c)
  BY <1>3, <1>8, <1>13 DEF Handshake, At
<1>14. ASSUME NEW direction \in {"up", "down"}, EndCopy(c, direction)
       PROVE  Inv'
  <2>1. /\ conn[c].at = "relay" /\ conn[c].reply = "granted"
        /\ conn[c].copying \ {direction} \in SUBSET {"up", "down"}
    BY <1>1, <1>2, <1>14 DEF EndCopy, At, ConnType, Stage
  <2>2. conn' = [conn EXCEPT ![c].at = "relay", ![c].reply = "granted",
                             ![c].copying = conn[c].copying \ {direction}]
    BY <1>1, <1>14, <2>1 DEF EndCopy, ConnType
  <2> QED  BY <1>8, <2>1, <2>2
<1> QED  BY <1>9, <1>10, <1>11, <1>12, <1>13, <1>14
LEMMA TailFacts ==
  ASSUME NEW T, NEW s \in Seq(T), s # <<>>
  PROVE  /\ Head(s) \in T /\ Head(s) = s[1] /\ 1 \in DOMAIN s
         /\ Tail(s) \in Seq(T)
         /\ \A i \in DOMAIN Tail(s) :
              i + 1 \in DOMAIN s /\ i + 1 # 1 /\ Tail(s)[i] = s[i + 1]
         /\ \A i, j \in DOMAIN Tail(s) : i + 1 = j + 1 => i = j
OBVIOUS

LEMMA AppendFacts ==
  ASSUME NEW T, NEW s \in Seq(T), NEW t \in T
  PROVE  /\ Append(s, t) \in Seq(T)
         /\ \A i \in DOMAIN Append(s, t) :
              \/ i \in DOMAIN s /\ Append(s, t)[i] = s[i]
              \/ i = Len(s) + 1 /\ Append(s, t)[i] = t
OBVIOUS

LEMMA ScanInv ==
  ASSUME Inv, UNCHANGED <<env, healthy, serverVars>>, NEW c \in Conn, Scan(c)
  PROVE  Inv'
<1> DEFINE left == conn[c].left
           found == conn[c].found
           t == Head(left)
<1>1. conn[c] \in ConnType /\ conn \in [Conn -> ConnType]
      /\ counter \in [Port -> Nat]
  BY DEF Inv, Types
<1>2. /\ conn[c].at = "scanning" /\ left # <<>> /\ counter' = counter
      /\ left \in Seq(Tunnel) /\ found \in Seq(Tunnel)
      /\ Reach(c) /\ Scanned(c) /\ Stage(c)
  BY <1>1 DEF Scan, At, ConnType, Inv
<1>3. /\ t \in Tunnel /\ t = left[1] /\ 1 \in DOMAIN left
      /\ Tail(left) \in Seq(Tunnel)
      /\ \A i \in DOMAIN Tail(left) :
           i + 1 \in DOMAIN left /\ i + 1 # 1 /\ Tail(left)[i] = left[i + 1]
      /\ \A i, j \in DOMAIN Tail(left) : i + 1 = j + 1 => i = j
  BY <1>2, TailFacts
<1>4. /\ Append(found, t) \in Seq(Tunnel)
      /\ \A i \in DOMAIN Append(found, t) :
           \/ i \in DOMAIN found /\ Append(found, t)[i] = found[i]
           \/ i = Len(found) + 1 /\ Append(found, t)[i] = t
  BY <1>2, <1>3, AppendFacts
<1> HIDE DEF left, found, t
<1>5. ASSUME NEW more,
             \/ more = found
             \/ more = Append(found, t) /\ InCountry(conn[c].port, t),
             conn' = [conn EXCEPT ![c].left = Tail(left), ![c].found = more]
      PROVE  Inv'
  <2>1. /\ conn' = [conn EXCEPT ![c] = conn'[c]] /\ conn'[c] \in ConnType
        /\ conn'[c].at = "scanning" /\ conn'[c].upstream = conn[c].upstream
        /\ conn'[c].port = conn[c].port /\ conn'[c].left = Tail(left)
        /\ conn'[c].found = more /\ conn'[c].reply = conn[c].reply
    BY <1>1, <1>2, <1>3, <1>4, <1>5 DEF ConnType
  <2>2. \A i \in DOMAIN more :
          \/ i \in DOMAIN found /\ more[i] = found[i]
          \/ /\ i = Len(found) + 1 /\ more[i] = t
             /\ InCountry(conn[c].port, t)
    BY <1>2, <1>4, <1>5
  <2>3. /\ Distinct(left) /\ Distinct(found)
        /\ \A i \in DOMAIN left, j \in DOMAIN found : left[i] # found[j]
        /\ \A j \in DOMAIN found : InCountry(conn[c].port, found[j])
        /\ conn[c].port # 0 => loop[conn[c].port] # "none"
    BY <1>2 DEF Scanned, Reach, left, found
  <2>4. Distinct(Tail(left))
    BY <1>3, <2>3 DEF Distinct
  <2>5. Distinct(more)
    BY <1>3, <2>2, <2>3 DEF Distinct
  <2>6. \A i \in DOMAIN Tail(left), j \in DOMAIN more : Tail(left)[i] # more[j]
    BY <1>3, <2>2, <2>3 DEF Distinct
  <2>7. Scanned(c)'
    BY <2>1, <2>4, <2>5, <2>6 DEF Scanned, Distinct
  <2>8. \A j \in DOMAIN more : InCountry(conn[c].port, more[j])
    BY <1>5, <2>2, <2>3
  <2>9. Reach(c)'
    BY <2>1, <2>3, <2>8 DEF Reach, InCountry, serverVars
  <2>10. Stage(c)' /\ ~HasTurn(c)'
    BY <1>2, <2>1 DEF Stage, HasTurn
  <2> QED  BY <1>1, <1>2, <2>1, <2>7, <2>9, <2>10, OneConn
<1>6. CASE InCountry(conn[c].port, t) /\ t \in healthy
  BY <1>5, <1>6 DEF Scan, left, found, t
<1>7. CASE ~(InCountry(conn[c].port, t) /\ t \in healthy)
  BY <1>5, <1>7 DEF Scan, left, found, t
<1> QED  BY <1>6, <1>7

(* The common counter goes up with every turn that is taken; the counters of *)
(* the countries do what they like.                                          *)
LEMMA TurnInv ==
  ASSUME Inv, UNCHANGED <<env, healthy, serverVars>>, NEW c \in Conn,
         TakeTurn(c) \/ Increment(c)
  PROVE  Inv'
<1> DEFINE p == conn[c].port
<1>1. /\ conn[c] \in ConnType /\ conn \in [Conn -> ConnType]
      /\ counter \in [Port -> Nat] /\ p \in Port /\ counter[p] \in Nat
      /\ 0 \in Port /\ conn[c].ticket \in Nat /\ counter[0] \in Nat
  BY Constants DEF Inv, Types, ConnType
<1>2. Reach(c) /\ Scanned(c) /\ Stage(c)
  BY DEF Inv
<1>3. /\ conn' = [conn EXCEPT ![c] = conn'[c]] /\ conn'[c] \in ConnType
      /\ conn'[c].upstream = conn[c].upstream /\ conn'[c].port = p
      /\ conn'[c].left = conn[c].left /\ conn'[c].found = conn[c].found
      /\ conn'[c].reply = conn[c].reply
      /\ conn'[c].at \in {"turn", "dialing"} /\ conn[c].found # <<>>
      /\ conn[c].at \in {"scanning", "turn"}
      /\ conn'[c].at = "turn" => p # 0
    <2>1. CASE TakeTurn(c)
      BY <1>1, <2>1 DEF TakeTurn, At, ConnType
    <2>2. CASE Increment(c)
      BY <1>1, <1>2, <2>2 DEF Increment, At, Goto, ConnType, Stage
    <2> QED  BY <2>1, <2>2
<1>4. Reach(c)' /\ Scanned(c)' /\ Stage(c)'
  BY <1>2, <1>3
  DEF Reach, InCountry, Scanned, Stage, Distinct, serverVars
<1>5. CASE TakeTurn(c) /\ p = 0
  <2>1. /\ counter' = [counter EXCEPT ![0] = counter[0] + 1]
        /\ conn'[c].ticket = counter[0]
    BY <1>1, <1>5 DEF TakeTurn, ConnType
  <2>2. counter' \in [Port -> Nat] /\ counter'[0] = counter[0] + 1
    BY <1>1, <2>1
  <2> QED  BY <1>3, <1>4, <2>1, <2>2, OneConn
<1>6. CASE TakeTurn(c) /\ p # 0
  <2>1. counter' = counter /\ conn'[c].at = "turn"
    BY <1>1, <1>6 DEF TakeTurn, ConnType
  <2>2. ~HasTurn(c)'
    BY <2>1 DEF HasTurn
  <2> QED  BY <1>1, <1>3, <1>4, <2>1, <2>2, OneConn
<1>7. CASE Increment(c)
  <2>1. PICK v \in Nat : counter' = [counter EXCEPT ![p] = v + 1]
    BY <1>1, <1>7 DEF Increment
  <2>2. p # 0
    BY <1>2, <1>7 DEF Increment, At, Stage
  <2>3. counter' \in [Port -> Nat] /\ counter'[0] = counter[0]
    BY <1>1, <2>1, <2>2
  <2>4. ~HasTurn(c)'
    BY <1>3, <2>2 DEF HasTurn
  <2> QED  BY <1>3, <1>4, <2>3, <2>4, OneConn
<1> QED  BY <1>5, <1>6, <1>7

LEMMA NextInv == Inv /\ [Next]_vars => Inv'
<1> SUFFICES ASSUME Inv, [Next]_vars PROVE Inv'
  OBVIOUS
<1>1. CASE UNCHANGED vars \/ \E t \in Tunnel : ChangeHealth(t)
           /\ UNCHANGED <<env, serverVars, counter, conn>>
  <2>1. /\ UNCHANGED <<env, serverVars, counter, conn>>
        /\ healthy' \subseteq Tunnel
    BY <1>1 DEF vars, ChangeHealth, Inv, Types
  <2>2. Types' /\ Countries' /\ Turns'
    BY <2>1 DEF Inv, Types, Countries, Turns, HasTurn, serverVars
  <2>3. \A c \in Conn : Reach(c)' /\ Scanned(c)' /\ Stage(c)'
    BY <2>1 DEF Inv, Reach, InCountry, Scanned, Stage, Backend, Distinct,
       serverVars
  <2> QED  BY <2>2, <2>3 DEF Inv
<1>2. ASSUME NEW c \in Conn, ConnStep(c),
             UNCHANGED <<env, healthy, serverVars>>
      PROVE  Inv'
  <2>1. CASE Scan(c)
    BY <1>2, <2>1, ScanInv
  <2>2. CASE TakeTurn(c) \/ Increment(c)
    BY <1>2, <2>2, TurnInv
  <2>3. CASE ~(Scan(c) \/ TakeTurn(c) \/ Increment(c))
    <3>1. UNCHANGED counter
      BY <1>2, <2>3 DEF ConnStep, Accept, Greeting, Authenticate, Request,
         NoBackend, Dial, Handshake, EndCopy, Finish
    <3> QED  BY <1>2, <2>3, <3>1, QuietInv DEF ConnStep
  <2> QED  BY <2>1, <2>2, <2>3
<1>3. CASE /\ Listen \/ StartCountries \/ BeginClose \/ ServerStep
           /\ UNCHANGED <<env, healthy, counter, conn>>
  BY <1>3, ServerInv
<1> QED  BY <1>1, <1>2, <1>3 DEF Next

THEOREM Invariance == Spec => []Inv
  BY InitInv, NextInv, PTL DEF Spec

-----------------------------------------------------------------------------

(* Connections to the common port that found the same tunnels healthy leave  *)
(* through different ones, until the round is complete: one lock covers the  *)
(* reading and the incrementing of the counter.                              *)
THEOREM CommonRoundRobin == Spec => []RoundRobin
<1>1. Inv => RoundRobin
  <2> SUFFICES ASSUME Inv, NEW c \in Conn, NEW d \in Conn, c # d,
                      conn[c].port = 0, conn[d].port = 0,
                      conn[c].upstream # None, conn[d].upstream # None,
                      conn[c].found = conn[d].found,
                      conn[c].ticket <= conn[d].ticket,
                      conn[d].ticket < conn[c].ticket + Len(conn[c].found)
               PROVE  conn[c].upstream # conn[d].upstream
    BY DEF RoundRobin
  <2> DEFINE n == Len(conn[c].found)
             a == conn[c].ticket
             b == conn[d].ticket
  <2>1. /\ conn[c].found \in Seq(Tunnel) /\ conn[c].found # <<>>
        /\ a \in Nat /\ b \in Nat /\ Distinct(conn[c].found)
        /\ conn[c].upstream = conn[c].found[(a % n) + 1]
        /\ conn[d].upstream = conn[c].found[(b % n) + 1]
    BY DEF Inv, Types, ConnType, Scanned, Stage, Backend
  <2>2. HasTurn(c) /\ HasTurn(d)
    BY DEF Inv, Stage, HasTurn
  <2>3. n \in Nat \ {0} /\ DOMAIN conn[c].found = 1..n
    BY <2>1
  <2>4. a # b
    BY <2>2 DEF Inv, Turns
  <2> HIDE DEF n, a, b
  <2>5. a < b /\ b < a + n
    BY <2>1, <2>4 DEF n, a, b
  <2>6. /\ a % n # b % n
        /\ a % n \in 0..(n - 1) /\ b % n \in 0..(n - 1)
    BY <2>1, <2>3, <2>5, ModApart, DivMod
  <2>7. /\ (a % n) + 1 # (b % n) + 1
        /\ (a % n) + 1 \in 1..n /\ (b % n) + 1 \in 1..n
    BY <2>3, <2>6
  <2> QED  BY <2>1, <2>3, <2>7 DEF Distinct
<1> QED  BY <1>1, Invariance, PTL

(* Who connects to the port that is published for a country leaves through a *)
(* tunnel of that country: a port that could not be opened stays reserved.   *)
THEOREM MappingTrue == Spec => []MappingServes
<1>1. Inv => MappingServes
  <2> SUFFICES ASSUME Inv, NEW c \in Conn, NEW k \in DOMAIN mapping,
                      conn[c].port = mapping[k], conn[c].upstream # None
               PROVE  country[conn[c].upstream] = k
    BY DEF MappingServes
  <2> DEFINE p == conn[c].port
  <2>1. /\ p \in Port /\ p \in 1..(starter.port - 1) /\ starter.port \in Nat
        /\ Reach(c) /\ Stage(c)
    BY DEF Inv, Types, ConnType, Countries
  <2>2. p # 0 /\ served[p] = k
    <3>1. p # 0 /\ loop[p] # "none"
      BY <2>1 DEF Reach
    <3>2. served[p] \in DOMAIN mapping /\ mapping[served[p]] = p
      BY <2>1, <3>1 DEF Inv, Countries
    <3> QED  BY <3>1, <3>2 DEF Inv, Countries
  <2>3. conn[c].upstream = Backend(c) /\ conn[c].at \in {"handshake", "relay"}
    BY <2>1 DEF Stage
  <2>4. PICK i \in DOMAIN conn[c].found : Backend(c) = conn[c].found[i]
    BY <2>3, BackendType
  <2>5. InCountry(p, conn[c].upstream)
    BY <2>1, <2>3, <2>4 DEF Reach
  <2> QED  BY <2>2, <2>5 DEF InCountry
<1> QED  BY <1>1, Invariance, PTL
-----------------------------------------------------------------------------
(***************************************************************************)
(* ProxyServer implements Socks.  A step of one connection maps to the     *)
(* step of Socks that changes the same connection in the same way, or to   *)
(* none; the steps of the server and of the tunnels map to none.           *)
(***************************************************************************)

Said(c) == conn[c].reply
Open(c) == conn[c].upstream # None

LEMMA InitSocks == Init => Promise!Init
<1> SUFFICES ASSUME Init PROVE Promise!Init
  OBVIOUS
<1>1. ASSUME NEW c \in Conn
      PROVE  /\ conn[c].at = "absent" /\ conn[c].reply = "none"
             /\ conn[c].upstream = None
  BY DEF Init, New
<1>2. [c \in Conn |-> Phase(c)] = [c \in Conn |-> "negotiating"]
  BY <1>1 DEF Phase
<1>3. [c \in Conn |-> conn[c].reply] = [c \in Conn |-> "none"]
  BY <1>1
<1>4. [c \in Conn |-> conn[c].upstream # None] = [c \in Conn |-> FALSE]
  BY <1>1
<1> QED  BY <1>2, <1>3, <1>4 DEF Promise!Init

(* Nothing that Socks sees changes. *)
LEMMA SocksStutter ==
  ASSUME Types, NEW c \in Conn, NEW k, conn' = [conn EXCEPT ![c] = k],
         Phase(c)' = Phase(c), Said(c)' = Said(c), Open(c)' = Open(c)
  PROVE  UNCHANGED Promise!vars
<1>1. \A d \in Conn :
        Phase(d)' = Phase(d) /\ Said(d)' = Said(d) /\ Open(d)' = Open(d)
  BY DEF Types, Phase, Said, Open
<1>2. /\ [d \in Conn |-> Phase(d)]' = [d \in Conn |-> Phase(d)]
      /\ [d \in Conn |-> Said(d)]' = [d \in Conn |-> Said(d)]
      /\ [d \in Conn |-> Open(d)]' = [d \in Conn |-> Open(d)]
  BY <1>1
<1> QED  BY <1>2 DEF Promise!vars, Said, Open

(* What Socks sees of one connection changes as Socks allows. *)
LEMMA SocksStep ==
  ASSUME Types, NEW c \in Conn, NEW k, conn' = [conn EXCEPT ![c] = k],
         \/ /\ Phase(c) = "negotiating" /\ Phase(c)' \in {"closed", "pending"}
            /\ Said(c)' = Said(c) /\ Open(c)' = Open(c)
         \/ /\ Phase(c) = "pending" /\ Phase(c)' = Phase(c)
            /\ Said(c)' = Said(c) /\ Open(c)' = ~Open(c)
         \/ /\ Phase(c) = "pending" /\ Phase(c)' = "relaying"
            /\ Said(c)' = "granted" /\ Open(c) /\ Open(c)'
         \/ /\ Phase(c) \in {"negotiating", "pending"} /\ Phase(c)' = "closed"
            /\ Said(c)' = "denied" /\ ~Open(c)'
         \/ /\ Phase(c) = "relaying" /\ Phase(c)' = "closed"
            /\ Said(c)' = Said(c) /\ ~Open(c)'
  PROVE  Promise!Next
<1> DEFINE phase == [d \in Conn |-> Phase(d)]
           reply == [d \in Conn |-> conn[d].reply]
           upstream == [d \in Conn |-> conn[d].upstream # None]
<1>1. \A d \in Conn \ {c} :
        Phase(d)' = Phase(d) /\ Said(d)' = Said(d) /\ Open(d)' = Open(d)
  BY DEF Types, Phase, Said, Open
<1>2. /\ phase[c] = Phase(c) /\ reply[c] = Said(c) /\ upstream[c] = Open(c)
  BY DEF Said, Open
<1>3. phase' = [phase EXCEPT ![c] = Phase(c)']
  BY <1>1
<1>4. /\ reply' = [reply EXCEPT ![c] = Said(c)']
      /\ Said(c)' = Said(c) => reply' = reply
  BY <1>1 DEF Said
<1>5. \A b \in BOOLEAN : Open(c)' = b =>
        upstream' = [upstream EXCEPT ![c] = b]
  BY <1>1 DEF Open
<1>6. Open(c)' = Open(c) => upstream' = upstream
  BY <1>1 DEF Open
<1>7. Open(c) \in BOOLEAN /\ Open(c)' \in BOOLEAN
  BY DEF Open
<1>8. CASE /\ Phase(c) = "negotiating" /\ Phase(c)' = "closed"
           /\ Said(c)' = Said(c) /\ Open(c)' = Open(c)
  <2>1. Promise!HangUp(c)
    BY <1>2, <1>3, <1>4, <1>6, <1>8 DEF Promise!HangUp
  <2> QED  BY <2>1 DEF Promise!Next
<1>9. CASE /\ Phase(c) = "negotiating" /\ Phase(c)' = "pending"
           /\ Said(c)' = Said(c) /\ Open(c)' = Open(c)
  <2>1. Promise!Ask(c)
    BY <1>2, <1>3, <1>4, <1>6, <1>9 DEF Promise!Ask
  <2> QED  BY <2>1 DEF Promise!Next
<1>10. CASE /\ Phase(c) = "pending" /\ Phase(c)' = Phase(c)
            /\ Said(c)' = Said(c) /\ Open(c)' = ~Open(c)
  <2>1. phase' = phase
    BY <1>1, <1>10
  <2>2. upstream' = [upstream EXCEPT ![c] = ~upstream[c]]
    BY <1>2, <1>5, <1>7, <1>10
  <2>3. Promise!Try(c)
    BY <1>2, <1>4, <1>10, <2>1, <2>2 DEF Promise!Try
  <2> QED  BY <2>3 DEF Promise!Next
<1>11. CASE /\ Phase(c) = "pending" /\ Phase(c)' = "relaying"
            /\ Said(c)' = "granted" /\ Open(c) /\ Open(c)'
  <2>1. Open(c)' = Open(c)
    BY <1>7, <1>11
  <2>2. Promise!Grant(c)
    BY <1>2, <1>3, <1>4, <1>6, <1>11, <2>1 DEF Promise!Grant
  <2> QED  BY <2>2 DEF Promise!Next
<1>12. CASE /\ Phase(c) \in {"negotiating", "pending"} /\ Phase(c)' = "closed"
            /\ Said(c)' = "denied" /\ ~Open(c)'
  <2>1. upstream' = [upstream EXCEPT ![c] = FALSE]
    BY <1>5, <1>7, <1>12
  <2>2. Promise!Deny(c)
    BY <1>2, <1>3, <1>4, <1>12, <2>1 DEF Promise!Deny
  <2> QED  BY <2>2 DEF Promise!Next
<1>13. CASE /\ Phase(c) = "relaying" /\ Phase(c)' = "closed"
            /\ Said(c)' = Said(c) /\ ~Open(c)'
  <2>1. upstream' = [upstream EXCEPT ![c] = FALSE]
    BY <1>5, <1>7, <1>13
  <2>2. Promise!End(c)
    BY <1>2, <1>3, <1>4, <1>13, <2>1 DEF Promise!End
  <2> QED  BY <2>2 DEF Promise!Next
<1> QED  BY <1>8, <1>9, <1>10, <1>11, <1>12, <1>13

LEMMA ConnSocks ==
  ASSUME Inv, NEW c \in Conn, ConnStep(c)
  PROVE  [Promise!Next]_Promise!vars
<1>1. conn[c] \in ConnType /\ conn \in [Conn -> ConnType] /\ Types
  BY DEF Inv, Types
<1>2. /\ Open(c) <=> conn[c].at \in {"handshake", "relay"}
      /\ conn[c].at \notin {"relay", "closed"} => Said(c) = "none"
      /\ conn[c].at = "relay" => Said(c) = "granted"
      /\ Open(c) \in BOOLEAN
  BY DEF Inv, Stage, Open, Said
<1>3. ASSUME NEW reply \in {"none", "denied", "granted"}, Return(c, reply),
             \/ conn[c].at \in {"new", "auth"} /\ reply = "none"
             \/ conn[c].at \in {"greeted", "scanning", "dialing", "handshake"}
                /\ reply = "denied"
             \/ conn[c].at = "relay" /\ reply = "granted"
      PROVE  Promise!Next
  <2>1. /\ conn' = [conn EXCEPT ![c] = conn'[c]] /\ conn'[c].at = "closed"
        /\ conn'[c].reply = reply /\ conn'[c].upstream = None
    BY <1>1, <1>3 DEF Return, ConnType
  <2>2. Phase(c)' = "closed" /\ ~Open(c)' /\ Said(c)' = reply
    BY <2>1 DEF Phase, Open, Said
  <2>3. CASE conn[c].at \in {"new", "auth"} /\ reply = "none"
    <3>1. Phase(c) = "negotiating" /\ Said(c) = "none" /\ ~Open(c)
      BY <1>2, <2>3 DEF Phase
    <3>2. Open(c)' = Open(c)
      BY <2>2, <3>1 DEF Open
    <3> QED  BY <1>1, <2>1, <2>2, <2>3, <3>1, <3>2, SocksStep
  <2>4. CASE conn[c].at \in {"greeted", "scanning", "dialing", "handshake"}
             /\ reply = "denied"
    <3>1. Phase(c) \in {"negotiating", "pending"}
      BY <2>4 DEF Phase
    <3> QED  BY <1>1, <2>1, <2>2, <2>4, <3>1, SocksStep
  <2>5. CASE conn[c].at = "relay" /\ reply = "granted"
    <3>1. Phase(c) = "relaying" /\ Said(c) = "granted"
      BY <1>2, <2>5 DEF Phase
    <3> QED  BY <1>1, <2>1, <2>2, <2>5, <3>1, SocksStep
  <2> QED  BY <1>3, <2>3, <2>4, <2>5
<1>4. ASSUME conn' = [conn EXCEPT ![c] = conn'[c]],
             conn'[c].reply = conn[c].reply,
             conn'[c].upstream = conn[c].upstream,
             Phase(c)' = Phase(c)
      PROVE  UNCHANGED Promise!vars
  BY <1>1, <1>4, SocksStutter DEF Said, Open
<1>5. ASSUME NEW p \in Port, Accept(c, p)
      PROVE  UNCHANGED Promise!vars
  BY <1>1, <1>4, <1>5 DEF Accept, At, ConnType, Phase
<1>6. CASE Greeting(c) \/ Authenticate(c)
  <2>1. ASSUME NEW place \in {"auth", "greeted"}, Goto(c, place),
               conn[c].at \in {"new", "auth"}
        PROVE  UNCHANGED Promise!vars
    BY <1>1, <1>4, <2>1 DEF Goto, ConnType, Phase
  <2> QED  BY <1>3, <1>6, <2>1 DEF Greeting, Authenticate, At
<1>7. CASE Request(c)
  <2>1. ASSUME conn[c].at = "greeted",
               conn' = [conn EXCEPT ![c].at = "scanning", ![c].left = Tunnels]
        PROVE  Promise!Next
    <3>1. /\ conn' = [conn EXCEPT ![c] = conn'[c]]
          /\ conn'[c].at = "scanning" /\ conn'[c].reply = conn[c].reply
          /\ conn'[c].upstream = conn[c].upstream
      BY <1>1, <2>1 DEF ConnType
    <3>2. /\ Phase(c) = "negotiating" /\ Phase(c)' = "pending"
          /\ Said(c)' = Said(c) /\ Open(c)' = Open(c)
      BY <2>1, <3>1 DEF Phase, Said, Open
    <3> QED  BY <1>1, <3>1, <3>2, SocksStep
  <2> QED  BY <1>3, <1>7, <2>1 DEF Request, At
<1>8. CASE Scan(c)
  BY <1>1, <1>4, <1>8 DEF Scan, At, ConnType, Phase
<1>9. CASE TakeTurn(c) \/ Increment(c)
  BY <1>1, <1>4, <1>9 DEF TakeTurn, Increment, At, Goto, ConnType, Phase
<1>10. CASE NoBackend(c) \/ Finish(c)
  BY <1>3, <1>10 DEF NoBackend, Finish, At
<1>11. CASE Dial(c)
  <2>1. ASSUME conn[c].at = "dialing",
               conn' = [conn EXCEPT ![c].at = "handshake",
                                    ![c].upstream = Backend(c)]
        PROVE  Promise!Next
    <3>1. /\ conn' = [conn EXCEPT ![c] = conn'[c]]
          /\ conn'[c].at = "handshake" /\ conn'[c].reply = conn[c].reply
          /\ conn'[c].upstream = Backend(c)
      BY <1>1, <2>1 DEF ConnType
    <3>2. /\ Phase(c) = "pending" /\ Phase(c)' = Phase(c)
          /\ Said(c)' = Said(c) /\ ~Open(c)
      BY <1>2, <2>1, <3>1 DEF Phase, Said
    <3>3. Open(c)' = ~Open(c)
      <4>1. Backend(c) # None
        BY <2>1, BackendType, Constants
      <4> QED  BY <3>1, <3>2, <4>1 DEF Open
    <3> QED  BY <1>1, <3>1, <3>2, <3>3, SocksStep
  <2> QED  BY <1>3, <1>11, <2>1 DEF Dial, At
<1>12. CASE Handshake(c)
  <2>1. ASSUME conn[c].at = "handshake",
               conn' = [conn EXCEPT ![c].at = "relay", ![c].reply = "granted",
                                    ![c].copying = {"up", "down"}]
        PROVE  Promise!Next
    <3>1. /\ conn' = [conn EXCEPT ![c] = conn'[c]]
          /\ conn'[c].at = "relay" /\ conn'[c].reply = "granted"
          /\ conn'[c].upstream = conn[c].upstream
      BY <1>1, <2>1 DEF ConnType
    <3>2. /\ Phase(c) = "pending" /\ Phase(c)' = "relaying"
          /\ Said(c)' = "granted" /\ Open(c) /\ Open(c)'
      BY <1>2, <2>1, <3>1 DEF Phase, Said, Open
    <3> QED  BY <1>1, <3>1, <3>2, SocksStep
  <2> QED  BY <1>3, <1>12, <2>1 DEF Handshake, At
<1>13. CASE \E direction \in {"up", "down"} : EndCopy(c, direction)
  BY <1>1, <1>4, <1>13 DEF EndCopy, At, ConnType, Phase
<1> QED
  BY <1>5, <1>6, <1>7, <1>8, <1>9, <1>10, <1>11, <1>12, <1>13 DEF ConnStep

LEMMA NextSocks == Inv /\ [Next]_vars => [Promise!Next]_Promise!vars
<1> SUFFICES ASSUME Inv, [Next]_vars PROVE [Promise!Next]_Promise!vars
  OBVIOUS
<1>1. CASE UNCHANGED conn
  BY <1>1 DEF Promise!vars, Phase
<1>2. CASE \E c \in Conn : ConnStep(c)
  BY <1>2, ConnSocks
<1> QED  BY <1>1, <1>2 DEF Next, vars

(* ProxyServer keeps the promise of Socks, so that nothing a client sees     *)
(* depends on which of the two proxies serves it, but for the answer itself: *)
(* one at most, and "granted" only over an open upstream connection.         *)
THEOREM RefinesSocks == Spec => ImplementsSocks
  BY InitSocks, NextSocks, Invariance, PTL
  DEF Spec, ImplementsSocks, Promise!Spec
=============================================================================
