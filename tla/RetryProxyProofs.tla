-------------------------- MODULE RetryProxyProofs --------------------------
(***************************************************************************)
(* Theorems about RetryProxy, for any number of connections, backends and  *)
(* retries, and whatever lists of backends the two callbacks return.       *)
(*                                                                         *)
(* The invariant says of each connection that what it has tried is a       *)
(* stretch of its list, read as a ring from its ticket on (Stretch), how   *)
(* long that stretch is in each place (Progress), and what is open and     *)
(* answered in each place (Stage); and of all connections that their       *)
(* tickets are different values of the index (Tickets).                    *)
(***************************************************************************)
EXTENDS RetryProxy, ModuloFacts

Chosen(c) == conn[c].at \in {"chosen", "trying", "handshake", "relay"}

\* The index, from 1, of the backend of attempt i, from 0.
Place0(c, i) == (((conn[c].ticket % Length(c)) + i) % Length(c)) + 1

Stretch(c) ==
  /\ Injective(conn[c].ports)
  /\ Chosen(c) \/ conn[c].tried # <<>> => conn[c].ports # <<>>
  /\ Len(conn[c].tried) <= maxRetries
  /\ Len(conn[c].tried) <= Length(c)
  /\ \A i \in 1..Len(conn[c].tried) :
       conn[c].tried[i] = conn[c].ports[Place0(c, i - 1)]

Progress(c) ==
  /\ conn[c].at \in {"new", "greeted", "asked", "chosen"} =>
       conn[c].tried = <<>> /\ conn[c].attempt = 0
  /\ conn[c].at = "trying" => Len(conn[c].tried) = conn[c].attempt
  /\ conn[c].at = "handshake" =>
       /\ MoreToTry(c)
       /\ Len(conn[c].tried) = conn[c].attempt + 1
       /\ conn[c].upstream = Last(c)
  /\ conn[c].reply = "refused" => Exhausted(c) \/ Last(c) \in Odd

Stage(c) ==
  /\ conn[c].upstream # None <=> conn[c].at \in {"handshake", "relay"}
  /\ conn[c].at \notin {"relay", "closed"} => conn[c].reply = "none"
  /\ conn[c].at = "relay" => conn[c].reply = "granted"
  /\ conn[c].at = "closed" => conn[c].copying = {}

Tickets ==
  /\ \A c \in Conn :
       /\ conn[c].ticket <= index
       /\ At(c, "trying") \/ At(c, "handshake") \/ conn[c].tried # <<>> =>
            conn[c].ticket # 0
  /\ \A c, d \in Conn :
       c # d /\ conn[c].ticket = conn[d].ticket => conn[c].ticket = 0

Inv ==
  /\ TypeOK /\ Tickets
  /\ \A c \in Conn : Stretch(c) /\ Progress(c) /\ Stage(c)

ConnType ==
  [at : Place, ports : Seq(Port), ticket : Nat, attempt : Nat,
   tried : Seq(Port), upstream : Port \cup {None}, reply : Reply,
   copying : SUBSET {"up", "down"}]

LEMMA InitInv == Init => Inv
<1> SUFFICES ASSUME Init PROVE Inv
  OBVIOUS
<1> USE DEF Init, New
<1>1. TypeOK
  BY DEF TypeOK, Place, Reply
<1>2. Tickets
  BY DEF Tickets, At
<1>3. ASSUME NEW c \in Conn PROVE Stretch(c) /\ Progress(c) /\ Stage(c)
  BY <1>3, RetryAssumption
  DEF Stretch, Progress, Stage, Injective, Chosen, Length, Place0
<1> QED  BY <1>1, <1>2, <1>3 DEF Inv

(* What is said of a connection depends on its own variables only. *)
LEMMA Elsewhere ==
  ASSUME NEW d \in Conn, UNCHANGED conn[d], Stretch(d), Progress(d), Stage(d)
  PROVE  (Stretch(d) /\ Progress(d) /\ Stage(d))'
<1>1. Stretch(d)'
  BY DEF Stretch, Chosen, Length, Place0
<1>2. Progress(d)'
  BY DEF Progress, MoreToTry, Exhausted, Length, Last
<1>3. Stage(d)'
  BY DEF Stage
<1> QED  BY <1>1, <1>2, <1>3

(* The next backend is one of the list. *)
LEMMA CandidateType ==
  ASSUME Inv, NEW c \in Conn, MoreToTry(c)
  PROVE  /\ Candidate(c) \in Port
         /\ Candidate(c) = conn[c].ports[Place0(c, conn[c].attempt)]
<1>1. /\ Length(c) \in Nat \ {0}
      /\ conn[c].ticket \in Nat /\ conn[c].attempt \in Nat
      /\ conn[c].ports \in Seq(Port)
  BY DEF Inv, TypeOK, ConnType, MoreToTry, Length
<1>2. conn[c].ticket % Length(c) \in Nat
  BY <1>1
<1>3. Turn(c) + 1 \in 1..Length(c)
  BY <1>1, <1>2 DEF Turn
<1> QED  BY <1>1, <1>3 DEF Candidate, Turn, Place0, Length

(* A step of one connection that keeps its ticket.                           *)
LEMMA StepInv ==
  ASSUME Inv, NEW c \in Conn, NEW k \in ConnType,
         conn' = [conn EXCEPT ![c] = k], UNCHANGED index,
         k.ticket = conn[c].ticket,
         k.at \in {"trying", "handshake"} \/ k.tried # <<>> =>
           k.ticket # 0,
         (Stretch(c) /\ Progress(c) /\ Stage(c))'
  PROVE  Inv'
<1>1. TypeOK'
  BY DEF Inv, TypeOK, ConnType
<1>2. conn'[c] = k /\ \A d \in Conn \ {c} : conn'[d] = conn[d]
  BY DEF Inv, TypeOK
<1>3. Tickets'
  BY <1>2 DEF Inv, Tickets, At
<1>4. ASSUME NEW d \in Conn PROVE (Stretch(d) /\ Progress(d) /\ Stage(d))'
  <2>1. CASE d # c
    BY <1>2, <2>1, Elsewhere DEF Inv
  <2> QED  BY <2>1
<1> QED  BY <1>1, <1>3, <1>4 DEF Inv

LEMMA CloseInv ==
  ASSUME Inv, NEW c \in Conn, NEW reply \in Reply,
         Close(c, reply), UNCHANGED index,
         reply = "refused" => Exhausted(c) \/ Last(c) \in Odd
  PROVE  Inv'
<1> DEFINE k == [conn[c] EXCEPT !.at = "closed", !.reply = reply,
                                !.upstream = None, !.copying = {}]
<1>1. conn[c] \in ConnType
  BY DEF Inv, TypeOK, ConnType
<1>2. k \in ConnType
  BY <1>1 DEF ConnType, Place
<1>3. conn' = [conn EXCEPT ![c] = k] /\ conn'[c] = k
  BY DEF Close, Inv, TypeOK
<1>4. /\ k.at = "closed" /\ k.reply = reply
      /\ k.upstream = None /\ k.copying = {}
      /\ k.ports = conn[c].ports /\ k.ticket = conn[c].ticket
      /\ k.attempt = conn[c].attempt /\ k.tried = conn[c].tried
  BY <1>1 DEF ConnType
<1> HIDE DEF k
<1>5. Stretch(c)'
  BY <1>3, <1>4 DEF Inv, Stretch, Chosen, Length, Place0
<1>6. Progress(c)'
  BY <1>3, <1>4 DEF Progress, Exhausted, Last, Length
<1>7. Stage(c)'
  BY <1>3, <1>4 DEF Stage
<1>8. k.tried # <<>> => k.ticket # 0
  BY <1>4 DEF Inv, Tickets
<1> QED  BY <1>2, <1>3, <1>4, <1>5, <1>6, <1>7, <1>8, StepInv

(* The clients' part: greeting and request.                                  *)
LEMMA ReadInv ==
  ASSUME Inv, NEW c \in Conn, Greeting(c) \/ Request(c)
  PROVE  Inv'
<1>1. conn[c] \in ConnType
  BY DEF Inv, TypeOK, ConnType
<1>2. CASE Close(c, "none")
  BY <1>2, CloseInv DEF Reply, Greeting, Request
<1>3. ASSUME NEW place \in {"greeted", "asked"},
             conn[c].at \in {"new", "greeted"},
             conn' = [conn EXCEPT ![c].at = place]
      PROVE  Inv'
  <2> DEFINE k == [conn[c] EXCEPT !.at = place]
  <2>1. k \in ConnType
    BY <1>1 DEF ConnType, Place
  <2>2. conn' = [conn EXCEPT ![c] = k] /\ conn'[c] = k
    BY <1>3 DEF Inv, TypeOK
  <2>3. /\ k.at = place /\ k.tried = conn[c].tried
        /\ k.ports = conn[c].ports /\ k.ticket = conn[c].ticket
        /\ k.attempt = conn[c].attempt /\ k.reply = conn[c].reply
        /\ k.upstream = conn[c].upstream
    BY <1>1 DEF ConnType
  <2> HIDE DEF k
  <2>4. Stretch(c)'
    BY <1>3, <2>2, <2>3 DEF Inv, Stretch, Chosen, Length, Place0
  <2>5. (Progress(c) /\ Stage(c))'
    BY <1>3, <2>2, <2>3 DEF Inv, Progress, Stage, MoreToTry, Exhausted, Last,
         Length
  <2>6. k.tried = <<>>
    BY <1>3, <2>3 DEF Inv, Progress
  <2> QED
    BY <2>1, <2>2, <2>3, <2>4, <2>5, <2>6, StepInv DEF Greeting, Request
<1> QED
  BY <1>2, <1>3 DEF Greeting, Request, At

LEMMA ChooseInv ==
  ASSUME Inv, NEW c \in Conn, ChooseBackends(c)
  PROVE  Inv'
<1>1. conn[c] \in ConnType
  BY DEF Inv, TypeOK, ConnType
<1>2. PICK gold \in Backends, healthy \in Backends :
        LET ports == IF gold # <<>> THEN gold ELSE healthy IN
        IF ports = <<>>
          THEN Close(c, "failure")
          ELSE conn' = [conn EXCEPT ![c].at = "chosen", ![c].ports = ports]
  BY DEF ChooseBackends
<1> DEFINE ports == IF gold # <<>> THEN gold ELSE healthy
           k == [conn[c] EXCEPT !.at = "chosen", !.ports = ports]
<1>3. ports \in Seq(Port) /\ Injective(ports)
  BY <1>2, RetryAssumption
<1>4. CASE ports = <<>>
  BY <1>2, <1>4, CloseInv DEF Reply, ChooseBackends
<1>5. CASE ports # <<>>
  <2>1. k \in ConnType
    BY <1>1, <1>3 DEF ConnType, Place
  <2>2. conn' = [conn EXCEPT ![c] = k] /\ conn'[c] = k
    BY <1>2, <1>5 DEF Inv, TypeOK
  <2>3. /\ k.at = "chosen" /\ k.tried = conn[c].tried /\ k.ports = ports
        /\ k.ticket = conn[c].ticket /\ k.attempt = conn[c].attempt
        /\ k.reply = conn[c].reply /\ k.upstream = conn[c].upstream
    BY <1>1 DEF ConnType
  <2>4. conn[c].at = "asked"
    BY DEF ChooseBackends, At
  <2> HIDE DEF k, ports
  <2>5. k.tried = <<>> /\ conn[c].attempt = 0
    BY <2>3, <2>4 DEF Inv, Progress
  <2>6. Stretch(c)'
    BY <1>3, <1>5, <2>2, <2>3, <2>5, RetryAssumption
    DEF Stretch, Chosen, Length, Place0
  <2>7. (Progress(c) /\ Stage(c))'
    BY <2>2, <2>3, <2>4, <2>5 DEF Inv, Progress, Stage
  <2> QED
    BY <2>1, <2>2, <2>3, <2>5, <2>6, <2>7, StepInv DEF ChooseBackends
<1> QED  BY <1>4, <1>5

(* The only step that moves the index.                                       *)
LEMMA TakeTurnInv ==
  ASSUME Inv, NEW c \in Conn, TakeTurn(c)
  PROVE  Inv'
<1>1. conn[c] \in ConnType /\ index \in Nat
  BY DEF Inv, TypeOK, ConnType
<1> DEFINE k == [conn[c] EXCEPT !.at = "trying", !.ticket = index + 1]
<1>2. k \in ConnType
  <2>1. index + 1 \in Nat
    BY <1>1
  <2> QED  BY <1>1, <2>1 DEF ConnType, Place
<1>3. conn' = [conn EXCEPT ![c] = k] /\ index' = index + 1
  BY DEF TakeTurn, Inv, TypeOK
<1>4. conn'[c] = k /\ \A d \in Conn \ {c} : conn'[d] = conn[d]
  BY <1>3 DEF Inv, TypeOK
<1>5. /\ k.at = "trying" /\ k.ticket = index + 1 /\ k.tried = conn[c].tried
      /\ k.ports = conn[c].ports /\ k.attempt = conn[c].attempt
      /\ k.reply = conn[c].reply /\ k.upstream = conn[c].upstream
  BY <1>1 DEF ConnType
<1>6. conn[c].at = "chosen"
  BY DEF TakeTurn, At
<1> HIDE DEF k
<1>7. TypeOK'
  BY <1>2, <1>3 DEF Inv, TypeOK, ConnType
<1>8. Tickets'
  <2>1. \A d \in Conn : conn[d].ticket \in Nat
    BY DEF Inv, TypeOK
  <2> QED  BY <1>1, <1>3, <1>4, <1>5, <2>1 DEF Inv, Tickets, At
<1>9. k.tried = <<>> /\ conn[c].attempt = 0
  BY <1>5, <1>6 DEF Inv, Progress
<1>10. Stretch(c)'
  BY <1>4, <1>5, <1>6, <1>9, RetryAssumption
  DEF Inv, Stretch, Chosen, Length, Place0
<1>11. (Progress(c) /\ Stage(c))'
  BY <1>4, <1>5, <1>6, <1>9 DEF Inv, Progress, Stage
<1>12. ASSUME NEW d \in Conn PROVE (Stretch(d) /\ Progress(d) /\ Stage(d))'
  <2>1. CASE d # c
    BY <1>4, <2>1, Elsewhere DEF Inv
  <2> QED  BY <2>1, <1>10, <1>11
<1> QED  BY <1>7, <1>8, <1>12 DEF Inv

(* An attempt: the next backend of the stretch is tried, with success or not. *)
LEMMA DialInv ==
  ASSUME Inv, NEW c \in Conn, Dial(c)
  PROVE  Inv'
<1>1. conn[c] \in ConnType
  BY DEF Inv, TypeOK, ConnType
<1>2. conn[c].at = "trying" /\ MoreToTry(c) /\ UNCHANGED index
  BY DEF Dial, At
<1>3. /\ Candidate(c) \in Port
      /\ Candidate(c) = conn[c].ports[Place0(c, conn[c].attempt)]
  BY <1>2, CandidateType
<1>4. Len(conn[c].tried) = conn[c].attempt
  BY <1>2 DEF Inv, Progress
<1>5. /\ Tried(c) \in Seq(Port) /\ Tried(c) # <<>>
      /\ Len(Tried(c)) = conn[c].attempt + 1
      /\ Tried(c)[conn[c].attempt + 1] = Candidate(c)
      /\ \A i \in 1..conn[c].attempt : Tried(c)[i] = conn[c].tried[i]
  <2>1. \A s \in Seq(Port), p \in Port :
          /\ Append(s, p) \in Seq(Port) /\ Append(s, p) # <<>>
          /\ Len(Append(s, p)) = Len(s) + 1
          /\ Append(s, p)[Len(s) + 1] = p
          /\ \A i \in 1..Len(s) : Append(s, p)[i] = s[i]
    OBVIOUS
  <2>2. conn[c].tried \in Seq(Port)
    BY <1>1 DEF ConnType
  <2> QED  BY <1>3, <1>4, <2>1, <2>2 DEF Tried
<1>6. conn[c].ticket # 0
  BY <1>2 DEF Inv, Tickets, At
<1>7. ASSUME NEW k \in ConnType, conn' = [conn EXCEPT ![c] = k],
             k.ports = conn[c].ports, k.ticket = conn[c].ticket,
             k.tried = Tried(c), k.reply = conn[c].reply,
             \/ k.at = "handshake" /\ k.upstream = Candidate(c)
                /\ k.attempt = conn[c].attempt
             \/ k.at = "trying" /\ k.upstream = conn[c].upstream
                /\ k.attempt = conn[c].attempt + 1
      PROVE  Inv'
  <2>1. conn'[c] = k
    BY <1>7 DEF Inv, TypeOK
  <2>2. conn[c].ports \in Seq(Port) /\ conn[c].attempt \in Nat
    BY <1>1 DEF ConnType
  <2>3. Stretch(c)'
    <3>1. \A i \in 1..Len(k.tried) :
            k.tried[i] = conn[c].ports[Place0(c, i - 1)]
      BY <1>3, <1>4, <1>5, <1>7, <2>2 DEF Inv, Stretch
    <3> QED
      BY <1>2, <1>5, <1>7, <2>1, <2>2, <3>1, RetryAssumption
      DEF Inv, Stretch, Chosen, Length, Place0, MoreToTry
  <2>4. Progress(c)'
    BY <1>2, <1>5, <1>7, <2>1, <2>2
    DEF Inv, Stage, Progress, MoreToTry, Length, Last
  <2>5. Stage(c)'
    BY <1>2, <1>3, <1>7, <2>1, RetryAssumption DEF Inv, Stage
  <2> QED  BY <1>2, <1>6, <1>7, <2>3, <2>4, <2>5, StepInv
<1>8. CASE conn' = [conn EXCEPT ![c].at = "handshake", ![c].tried = Tried(c),
                                ![c].upstream = Candidate(c)]
  <2> DEFINE k == [conn[c] EXCEPT !.at = "handshake", !.tried = Tried(c),
                                  !.upstream = Candidate(c)]
  <2>1. k \in ConnType /\ conn' = [conn EXCEPT ![c] = k]
    BY <1>1, <1>3, <1>5, <1>8 DEF ConnType, Place, Inv, TypeOK
  <2>2. /\ k.ports = conn[c].ports /\ k.ticket = conn[c].ticket
        /\ k.tried = Tried(c) /\ k.reply = conn[c].reply
        /\ k.at = "handshake" /\ k.upstream = Candidate(c)
        /\ k.attempt = conn[c].attempt
    BY <1>1 DEF ConnType
  <2> HIDE DEF k
  <2> QED  BY <1>7, <2>1, <2>2
<1>9. CASE conn' = [conn EXCEPT ![c].attempt = @ + 1, ![c].tried = Tried(c)]
  <2> DEFINE k == [conn[c] EXCEPT !.attempt = @ + 1, !.tried = Tried(c)]
  <2>1. conn[c].attempt + 1 \in Nat
    BY <1>1 DEF ConnType
  <2>2. k \in ConnType /\ conn' = [conn EXCEPT ![c] = k]
    BY <1>1, <1>5, <1>9, <2>1 DEF ConnType, Inv, TypeOK
  <2>3. /\ k.ports = conn[c].ports /\ k.ticket = conn[c].ticket
        /\ k.tried = Tried(c) /\ k.reply = conn[c].reply
        /\ k.at = "trying" /\ k.upstream = conn[c].upstream
        /\ k.attempt = conn[c].attempt + 1
    BY <1>1, <1>2 DEF ConnType
  <2> HIDE DEF k
  <2> QED  BY <1>7, <2>2, <2>3
<1> QED  BY <1>8, <1>9 DEF Dial

(* All attempts have failed: the bounds of the loop have been reached.       *)
LEMMA GiveUpInv ==
  ASSUME Inv, NEW c \in Conn, GiveUp(c)
  PROVE  Inv'
<1>1. conn[c] \in ConnType
  BY DEF Inv, TypeOK, ConnType
<1>2. conn[c].at = "trying" /\ ~MoreToTry(c)
  BY DEF GiveUp, At
<1>3. /\ Len(conn[c].tried) = conn[c].attempt
      /\ Len(conn[c].tried) <= maxRetries /\ Len(conn[c].tried) <= Length(c)
  BY <1>2 DEF Inv, Progress, Stretch
<1>4. conn[c].attempt \in Nat /\ Length(c) \in Nat
  BY <1>1 DEF ConnType, Length
<1>5. Exhausted(c)
  BY <1>2, <1>3, <1>4, RetryAssumption DEF MoreToTry, Exhausted
<1> QED  BY <1>5, CloseInv DEF GiveUp, Reply

LEMMA HandshakeInv ==
  ASSUME Inv, NEW c \in Conn, Handshake(c)
  PROVE  Inv'
<1>1. conn[c] \in ConnType
  BY DEF Inv, TypeOK, ConnType
<1>2. conn[c].at = "handshake" /\ UNCHANGED index
  BY DEF Handshake, At
<1>3. /\ Len(conn[c].tried) = conn[c].attempt + 1
      /\ conn[c].upstream = Last(c)
  BY <1>2 DEF Inv, Progress
<1>4. conn[c].ticket # 0 /\ conn[c].upstream # None /\ conn[c].reply = "none"
  BY <1>2 DEF Inv, Tickets, Stage, At
<1>5. ASSUME NEW k \in ConnType, conn' = [conn EXCEPT ![c] = k],
             k.ports = conn[c].ports, k.ticket = conn[c].ticket,
             k.tried = conn[c].tried,
             \/ k.at = "trying" /\ k.upstream = None
                /\ k.attempt = conn[c].attempt + 1 /\ k.reply = "none"
             \/ k.at = "relay" /\ k.upstream = conn[c].upstream
                /\ k.reply = "granted"
      PROVE  Inv'
  <2>1. conn'[c] = k
    BY <1>5 DEF Inv, TypeOK
  <2>2. Stretch(c)'
    BY <1>2, <1>5, <2>1 DEF Inv, Stretch, Chosen, Length, Place0
  <2>3. Progress(c)'
    BY <1>3, <1>5, <2>1 DEF Progress
  <2>4. Stage(c)'
    BY <1>4, <1>5, <2>1 DEF Stage
  <2> QED  BY <1>2, <1>4, <1>5, <2>2, <2>3, <2>4, StepInv
<1>6. CASE NextBackend(c)
  <2> DEFINE k == [conn[c] EXCEPT !.at = "trying", !.attempt = @ + 1,
                                  !.upstream = None]
  <2>1. conn[c].attempt + 1 \in Nat
    BY <1>1 DEF ConnType
  <2>2. k \in ConnType /\ conn' = [conn EXCEPT ![c] = k]
    BY <1>1, <1>6, <2>1 DEF NextBackend, ConnType, Place, Inv, TypeOK
  <2>3. /\ k.ports = conn[c].ports /\ k.ticket = conn[c].ticket
        /\ k.tried = conn[c].tried /\ k.at = "trying" /\ k.upstream = None
        /\ k.attempt = conn[c].attempt + 1 /\ k.reply = "none"
    BY <1>1, <1>4 DEF ConnType
  <2> HIDE DEF k
  <2> QED  BY <1>5, <2>2, <2>3
<1>7. CASE conn' = [conn EXCEPT ![c].at = "relay", ![c].reply = "granted",
                                ![c].copying = {"up", "down"}]
  <2> DEFINE k == [conn[c] EXCEPT !.at = "relay", !.reply = "granted",
                                  !.copying = {"up", "down"}]
  <2>1. k \in ConnType /\ conn' = [conn EXCEPT ![c] = k]
    BY <1>1, <1>7 DEF ConnType, Place, Reply, Inv, TypeOK
  <2>2. /\ k.ports = conn[c].ports /\ k.ticket = conn[c].ticket
        /\ k.tried = conn[c].tried /\ k.at = "relay"
        /\ k.upstream = conn[c].upstream /\ k.reply = "granted"
    BY <1>1 DEF ConnType
  <2> HIDE DEF k
  <2> QED  BY <1>5, <2>1, <2>2
<1>8. CASE conn[c].upstream \in Odd /\ Close(c, "refused")
  BY <1>2, <1>3, <1>8, CloseInv DEF Reply
<1> QED  BY <1>6, <1>7, <1>8 DEF Handshake

LEMMA RelayInv ==
  ASSUME Inv, NEW c \in Conn,
         (\E direction \in {"up", "down"} : EndCopy(c, direction)) \/ Finish(c)
  PROVE  Inv'
<1>1. conn[c] \in ConnType
  BY DEF Inv, TypeOK, ConnType
<1>2. CASE Finish(c)
  BY <1>2, CloseInv DEF Finish, Reply
<1>3. ASSUME NEW direction \in {"up", "down"}, EndCopy(c, direction)
      PROVE  Inv'
  <2> DEFINE k == [conn[c] EXCEPT !.copying = @ \ {direction}]
  <2>1. conn[c].at = "relay" /\ UNCHANGED index
    BY <1>3 DEF EndCopy, At
  <2>2. k \in ConnType /\ conn' = [conn EXCEPT ![c] = k] /\ conn'[c] = k
    BY <1>1, <1>3 DEF EndCopy, ConnType, Inv, TypeOK
  <2>3. /\ k.ports = conn[c].ports /\ k.ticket = conn[c].ticket
        /\ k.tried = conn[c].tried /\ k.at = "relay"
        /\ k.upstream = conn[c].upstream /\ k.reply = conn[c].reply
    BY <1>1, <2>1 DEF ConnType
  <2> HIDE DEF k
  <2>4. Stretch(c)'
    BY <2>1, <2>2, <2>3 DEF Inv, Stretch, Chosen, Length, Place0
  <2>5. (Progress(c) /\ Stage(c))'
    BY <2>1, <2>2, <2>3 DEF Inv, Progress, Stage
  <2>6. k.tried # <<>> => k.ticket # 0
    BY <2>3 DEF Inv, Tickets
  <2> QED  BY <2>1, <2>2, <2>3, <2>4, <2>5, <2>6, StepInv
<1> QED  BY <1>2, <1>3

(* Every step keeps the invariant. *)
LEMMA NextInv == Inv /\ [Next]_vars => Inv'
<1> SUFFICES ASSUME Inv, [Next]_vars PROVE Inv'
  OBVIOUS
<1>1. CASE UNCHANGED vars
  <2>1. UNCHANGED <<index, conn>>
    BY <1>1 DEF vars
  <2>2. (TypeOK /\ Tickets)'
    BY <2>1 DEF Inv, TypeOK, Tickets, At
  <2>3. \A d \in Conn : (Stretch(d) /\ Progress(d) /\ Stage(d))'
    BY <2>1, Elsewhere DEF Inv
  <2> QED  BY <2>2, <2>3 DEF Inv
<1>2. CASE Next
  BY <1>2, ReadInv, ChooseInv, TakeTurnInv, DialInv, GiveUpInv, HandshakeInv,
     RelayInv DEF Next, Answer
<1> QED  BY <1>1, <1>2

(* The invariant holds in every reachable state. *)
THEOREM Invariance == Spec => []Inv
  BY InitInv, NextInv, PTL DEF Spec

(* The shared index and the local variables of every connection keep their   *)
(* types: the backend that handleConn picks is always one of its list.       *)
THEOREM TypeCorrect == Spec => []TypeOK
<1>1. Inv => TypeOK
  BY DEF Inv
<1> QED  BY <1>1, Invariance, PTL

(* No connection is offered to the same backend twice, for lists of any      *)
(* length: the attempts are at most as many as the list is long, and places  *)
(* of a ring that are less than its length apart differ.                     *)
THEOREM DistinctTries == Spec => []TriesDistinct
<1>1. ASSUME Inv, NEW c \in Conn,
             NEW i \in DOMAIN conn[c].tried, NEW j \in DOMAIN conn[c].tried,
             conn[c].tried[i] = conn[c].tried[j]
      PROVE  i = j
  <2> DEFINE n == Length(c)
             t == conn[c].ticket % n
  <2>1. /\ i \in 1..Len(conn[c].tried) /\ j \in 1..Len(conn[c].tried)
        /\ conn[c].ticket \in Nat /\ n \in Nat
        /\ DOMAIN conn[c].ports = 1..n
        /\ Len(conn[c].tried) \in Nat /\ Len(conn[c].tried) <= n
        /\ Injective(conn[c].ports)
    BY <1>1 DEF Inv, TypeOK, Length, Stretch
  <2>2. n \in Nat \ {0} /\ i - 1 \in 0..(n - 1) /\ j - 1 \in 0..(n - 1)
    BY <2>1
  <2>3. t \in 0..(n - 1)
    BY <2>1, <2>2, DivMod
  <2>4. conn[c].ports[Place0(c, i - 1)] = conn[c].ports[Place0(c, j - 1)]
    BY <1>1, <2>1 DEF Inv, Stretch
  <2>5. /\ Place0(c, i - 1) = ((t + (i - 1)) % n) + 1
        /\ Place0(c, j - 1) = ((t + (j - 1)) % n) + 1
    BY DEF Place0
  <2> HIDE DEF t, n
  <2>6. /\ (t + (i - 1)) % n \in 0..(n - 1)
        /\ (t + (j - 1)) % n \in 0..(n - 1)
    <3>1. t + (i - 1) \in Nat /\ t + (j - 1) \in Nat
      BY <2>2, <2>3
    <3> QED  BY <2>2, <3>1, DivMod
  <2>7. (t + (i - 1)) % n = (t + (j - 1)) % n
    <3>1. Place0(c, i - 1) \in 1..n /\ Place0(c, j - 1) \in 1..n
      BY <2>2, <2>5, <2>6
    <3>2. Place0(c, i - 1) = Place0(c, j - 1)
      BY <2>1, <2>4, <3>1 DEF Injective
    <3> QED  BY <2>2, <2>5, <2>6, <3>2
  <2>8. i - 1 = j - 1
    BY <2>2, <2>3, <2>7, ModShift
  <2> QED  BY <2>1, <2>8
<1>2. Inv => TriesDistinct
  BY <1>1 DEF TriesDistinct, Injective, Inv, Stretch
<1> QED  BY <1>2, Invariance, PTL

(* A client is refused only after as many different backends have failed as  *)
(* the list and maxRetries allow, or after one with another method.          *)
THEOREM RefusedLast == Spec => []RefusedAfterRetries
<1>1. Inv => RefusedAfterRetries
  BY DEF Inv, Progress, RefusedAfterRetries
<1> QED  BY <1>1, Invariance, PTL

(* Connections with the same list, less than one round of the index apart,   *)
(* are first offered to different backends, however they are interleaved.    *)
THEOREM SpreadFirst == Spec => []RoundRobin
<1>1. ASSUME Inv, NEW c \in Conn, NEW d \in Conn, c # d,
             conn[c].ports = conn[d].ports,
             conn[c].tried # <<>>, conn[d].tried # <<>>,
             conn[c].ticket <= conn[d].ticket,
             conn[d].ticket < conn[c].ticket + Length(c)
      PROVE  conn[c].tried[1] # conn[d].tried[1]
  <2> DEFINE n == Length(c)
  <2>1. /\ conn[c].ticket \in Nat /\ conn[d].ticket \in Nat
        /\ conn[c].ports \in Seq(Port) /\ conn[c].ports # <<>>
        /\ Len(conn[c].tried) \in Nat \ {0} /\ Len(conn[d].tried) \in Nat \ {0}
    BY <1>1 DEF Inv, TypeOK, Stretch
  <2>2. n \in Nat \ {0} /\ DOMAIN conn[c].ports = 1..n /\ Length(d) = n
    BY <1>1, <2>1 DEF Length
  <2>3. conn[c].ticket < conn[d].ticket
    <3>1. conn[c].ticket # conn[d].ticket
      BY <1>1 DEF Inv, Tickets
    <3> QED  BY <1>1, <2>1, <3>1
  <2>4. conn[c].ticket % n # conn[d].ticket % n
    BY <1>1, <2>1, <2>2, <2>3, ModApart
  <2>5. /\ conn[c].ticket % n \in 0..(n - 1)
        /\ conn[d].ticket % n \in 0..(n - 1)
    BY <2>1, <2>2, DivMod
  <2>6. /\ Place0(c, 0) = (conn[c].ticket % n) + 1
        /\ Place0(d, 0) = (conn[d].ticket % n) + 1
    <3>1. \A a \in 0..(n - 1) : (a + 0) % n = a
      BY <2>2
    <3> QED  BY <2>2, <2>5, <3>1 DEF Place0
  <2>7. /\ conn[c].tried[1] = conn[c].ports[Place0(c, 0)]
        /\ conn[d].tried[1] = conn[d].ports[Place0(d, 0)]
    <3>1. 1 \in 1..Len(conn[c].tried) /\ 1 \in 1..Len(conn[d].tried)
      BY <2>1
    <3> QED  BY <1>1, <3>1 DEF Inv, Stretch
  <2>8. Injective(conn[c].ports)
    BY <1>1 DEF Inv, Stretch
  <2> HIDE DEF n
  <2>9. Place0(c, 0) # Place0(d, 0)
        /\ Place0(c, 0) \in 1..n /\ Place0(d, 0) \in 1..n
    BY <2>2, <2>4, <2>5, <2>6
  <2> QED  BY <1>1, <2>2, <2>7, <2>8, <2>9 DEF Injective
<1>2. Inv => RoundRobin
  BY <1>1 DEF RoundRobin
<1> QED  BY <1>2, Invariance, PTL
-----------------------------------------------------------------------------
(***************************************************************************)
(* RetryProxy implements Socks.  A step of one connection maps to the step *)
(* of Socks that changes the same connection in the same way, or to none.  *)
(***************************************************************************)

Open(c) == conn[c].upstream # None

LEMMA InitSocks == Init => Promise!Init
<1> SUFFICES ASSUME Init PROVE Promise!Init
  OBVIOUS
<1>1. ASSUME NEW c \in Conn
      PROVE  /\ conn[c].at = "new" /\ conn[c].reply = "none"
             /\ conn[c].upstream = None
  BY DEF Init, New
<1>2. [c \in Conn |-> Phase(c)] = [c \in Conn |-> "negotiating"]
  BY <1>1 DEF Phase
<1>3. [c \in Conn |-> Said(c)] = [c \in Conn |-> "none"]
  BY <1>1 DEF Said
<1>4. [c \in Conn |-> conn[c].upstream # None] = [c \in Conn |-> FALSE]
  BY <1>1
<1> QED  BY <1>2, <1>3, <1>4 DEF Promise!Init

(* Nothing that Socks sees changes. *)
LEMMA SocksStutter ==
  ASSUME TypeOK, NEW c \in Conn, NEW k, conn' = [conn EXCEPT ![c] = k],
         Phase(c)' = Phase(c), Said(c)' = Said(c), Open(c)' = Open(c)
  PROVE  UNCHANGED Promise!vars
<1>1. \A d \in Conn :
        Phase(d)' = Phase(d) /\ Said(d)' = Said(d) /\ Open(d)' = Open(d)
  BY DEF TypeOK, Phase, Said, Open
<1>2. /\ [d \in Conn |-> Phase(d)]' = [d \in Conn |-> Phase(d)]
      /\ [d \in Conn |-> Said(d)]' = [d \in Conn |-> Said(d)]
      /\ [d \in Conn |-> Open(d)]' = [d \in Conn |-> Open(d)]
  BY <1>1
<1> QED  BY <1>2 DEF Promise!vars, Open

(* What Socks sees of one connection changes as Socks allows. *)
LEMMA SocksStep ==
  ASSUME TypeOK, NEW c \in Conn, NEW k, conn' = [conn EXCEPT ![c] = k],
         \/ /\ Phase(c) = "negotiating" /\ Phase(c)' \in {"closed", "pending"}
            /\ Said(c)' = Said(c) /\ Open(c)' = Open(c)
         \/ /\ Phase(c) = "pending" /\ Phase(c)' = Phase(c)
            /\ Said(c)' = Said(c) /\ Open(c)' = ~Open(c)
         \/ /\ Phase(c) = "pending" /\ Phase(c)' = "relaying"
            /\ Said(c)' = "granted" /\ Open(c) /\ Open(c)'
         \/ /\ Phase(c) = "pending" /\ Phase(c)' = "closed"
            /\ Said(c)' = "denied" /\ ~Open(c)'
         \/ /\ Phase(c) = "relaying" /\ Phase(c)' = "closed"
            /\ Said(c)' = Said(c) /\ ~Open(c)'
  PROVE  Promise!Next
<1> DEFINE phase == [d \in Conn |-> Phase(d)]
           reply == [d \in Conn |-> Said(d)]
           upstream == [d \in Conn |-> conn[d].upstream # None]
<1>1. \A d \in Conn \ {c} :
        Phase(d)' = Phase(d) /\ Said(d)' = Said(d) /\ Open(d)' = Open(d)
  BY DEF TypeOK, Phase, Said, Open
<1>2. /\ phase[c] = Phase(c) /\ reply[c] = Said(c) /\ upstream[c] = Open(c)
  BY DEF Open
<1>3. phase' = [phase EXCEPT ![c] = Phase(c)']
  BY <1>1
<1>4. /\ reply' = [reply EXCEPT ![c] = Said(c)']
      /\ Said(c)' = Said(c) => reply' = reply
  BY <1>1
<1>5. \A b \in BOOLEAN : Open(c)' = b =>
        upstream' = [upstream EXCEPT ![c] = b]
  BY <1>1 DEF Open
<1>6. Open(c)' = Open(c) => upstream' = upstream
  BY <1>1 DEF Open
<1>7. Open(c) \in BOOLEAN /\ Open(c)' \in BOOLEAN
  BY DEF Open
<1>8. CASE /\ Phase(c) = "negotiating" /\ Phase(c)' = "closed"
           /\ Said(c)' = Said(c) /\ Open(c)' = Open(c)
  <2>1. Promise!HangUp(c)
    BY <1>2, <1>3, <1>4, <1>6, <1>8 DEF Promise!HangUp
  <2> QED  BY <2>1 DEF Promise!Next
<1>9. CASE /\ Phase(c) = "negotiating" /\ Phase(c)' = "pending"
           /\ Said(c)' = Said(c) /\ Open(c)' = Open(c)
  <2>1. Promise!Ask(c)
    BY <1>2, <1>3, <1>4, <1>6, <1>9 DEF Promise!Ask
  <2> QED  BY <2>1 DEF Promise!Next
<1>10. CASE /\ Phase(c) = "pending" /\ Phase(c)' = Phase(c)
            /\ Said(c)' = Said(c) /\ Open(c)' = ~Open(c)
  <2>1. phase' = phase
    BY <1>1, <1>10
  <2>2. upstream' = [upstream EXCEPT ![c] = ~upstream[c]]
    BY <1>2, <1>5, <1>7, <1>10
  <2>3. Promise!Try(c)
    BY <1>2, <1>4, <1>10, <2>1, <2>2 DEF Promise!Try
  <2> QED  BY <2>3 DEF Promise!Next
<1>11. CASE /\ Phase(c) = "pending" /\ Phase(c)' = "relaying"
            /\ Said(c)' = "granted" /\ Open(c) /\ Open(c)'
  <2>1. Open(c)' = Open(c)
    BY <1>7, <1>11
  <2>2. Promise!Grant(c)
    BY <1>2, <1>3, <1>4, <1>6, <1>11, <2>1 DEF Promise!Grant
  <2> QED  BY <2>2 DEF Promise!Next
<1>12. CASE /\ Phase(c) = "pending" /\ Phase(c)' = "closed"
            /\ Said(c)' = "denied" /\ ~Open(c)'
  <2>1. upstream' = [upstream EXCEPT ![c] = FALSE]
    BY <1>5, <1>7, <1>12
  <2>2. Promise!Deny(c)
    BY <1>2, <1>3, <1>4, <1>12, <2>1 DEF Promise!Deny
  <2> QED  BY <2>2 DEF Promise!Next
<1>13. CASE /\ Phase(c) = "relaying" /\ Phase(c)' = "closed"
            /\ Said(c)' = Said(c) /\ ~Open(c)'
  <2>1. upstream' = [upstream EXCEPT ![c] = FALSE]
    BY <1>5, <1>7, <1>13
  <2>2. Promise!End(c)
    BY <1>2, <1>3, <1>4, <1>13, <2>1 DEF Promise!End
  <2> QED  BY <2>2 DEF Promise!Next
<1> QED  BY <1>8, <1>9, <1>10, <1>11, <1>12, <1>13

(* The two ways in which handleConn returns before it has an answer to give, *)
(* with one, and after one.                                                  *)
LEMMA CloseSocks ==
  ASSUME Inv, NEW c \in Conn, NEW reply \in Reply, Close(c, reply),
         \/ conn[c].at \in {"new", "greeted"} /\ reply = "none"
         \/ conn[c].at \in {"asked", "trying", "handshake"}
            /\ reply \in {"failure", "refused"}
         \/ conn[c].at = "relay" /\ reply = "granted"
  PROVE  Promise!Next
<1>1. conn[c] \in ConnType
  BY DEF Inv, TypeOK, ConnType
<1>2. conn' = [conn EXCEPT ![c] = conn'[c]]
  BY DEF Close, Inv, TypeOK
<1>3. /\ conn'[c].at = "closed" /\ conn'[c].reply = reply
      /\ conn'[c].upstream = None
  BY <1>1 DEF Close, ConnType, Inv, TypeOK
<1>4. /\ conn[c].upstream # None <=> conn[c].at \in {"handshake", "relay"}
      /\ conn[c].at \notin {"relay", "closed"} => conn[c].reply = "none"
      /\ conn[c].at = "relay" => conn[c].reply = "granted"
  BY DEF Inv, Stage
<1>5. Phase(c)' = "closed" /\ ~Open(c)'
      /\ Said(c)' =
           IF reply \in {"failure", "refused"} THEN "denied" ELSE reply
  BY <1>3 DEF Phase, Open, Said
<1>6. CASE conn[c].at \in {"new", "greeted"} /\ reply = "none"
  <2>1. Phase(c) = "negotiating" /\ Said(c) = "none" /\ ~Open(c)
    BY <1>4, <1>6 DEF Phase, Open, Said
  <2>2. Said(c)' = Said(c) /\ Open(c)' = Open(c)
    BY <1>5, <1>6, <2>1 DEF Open
  <2> QED  BY <1>2, <1>5, <2>1, <2>2, SocksStep DEF Inv
<1>7. CASE conn[c].at \in {"asked", "trying", "handshake"}
           /\ reply \in {"failure", "refused"}
  <2>1. Phase(c) = "pending" /\ Said(c)' = "denied"
    BY <1>5, <1>7 DEF Phase
  <2> QED  BY <1>2, <1>5, <2>1, SocksStep DEF Inv
<1>8. CASE conn[c].at = "relay" /\ reply = "granted"
  <2>1. Phase(c) = "relaying" /\ Said(c)' = Said(c)
    BY <1>4, <1>5, <1>8 DEF Phase, Said
  <2> QED  BY <1>2, <1>5, <2>1, SocksStep DEF Inv
<1> QED  BY <1>6, <1>7, <1>8

(* Steps before and after the attempts. *)
LEMMA QuietSocks ==
  ASSUME Inv, NEW c \in Conn,
         \/ Greeting(c) \/ Request(c) \/ ChooseBackends(c) \/ TakeTurn(c)
         \/ GiveUp(c) \/ Finish(c)
         \/ \E direction \in {"up", "down"} : EndCopy(c, direction)
  PROVE  [Promise!Next]_Promise!vars
<1>1. conn[c] \in ConnType
  BY DEF Inv, TypeOK, ConnType
<1>2. CASE \/ conn[c].at \in {"new", "greeted"} /\ Close(c, "none")
           \/ conn[c].at = "asked" /\ Close(c, "failure")
           \/ conn[c].at = "trying" /\ Close(c, "refused")
           \/ conn[c].at = "relay" /\ Close(c, "granted")
  BY <1>2, CloseSocks DEF Reply
<1>3. ASSUME conn' = [conn EXCEPT ![c] = conn'[c]],
             conn'[c].reply = conn[c].reply,
             conn'[c].upstream = conn[c].upstream,
             <<conn[c].at, conn'[c].at>> \in
               {<<"new", "greeted">>, <<"greeted", "asked">>,
                <<"asked", "chosen">>, <<"chosen", "trying">>,
                <<"relay", "relay">>}
      PROVE  [Promise!Next]_Promise!vars
  <2>1. Said(c)' = Said(c) /\ Open(c)' = Open(c)
    BY <1>3 DEF Said, Open
  <2>2. CASE conn[c].at = "greeted" /\ conn'[c].at = "asked"
    <3>1. Phase(c) = "negotiating" /\ Phase(c)' = "pending"
      BY <2>2 DEF Phase
    <3> QED  BY <1>3, <2>1, <3>1, SocksStep DEF Inv
  <2>3. CASE ~(conn[c].at = "greeted" /\ conn'[c].at = "asked")
    <3>1. Phase(c)' = Phase(c)
      BY <1>3, <2>3 DEF Phase
    <3> QED  BY <1>3, <2>1, <3>1, SocksStutter DEF Inv
  <2> QED  BY <2>2, <2>3
<1>4. CASE Greeting(c) \/ Request(c)
  BY <1>1, <1>2, <1>3, <1>4
  DEF Greeting, Request, At, ConnType, Inv, TypeOK
<1>5. CASE ChooseBackends(c)
  <2>1. conn[c].at = "asked"
    BY <1>5 DEF ChooseBackends, At
  <2>2. CASE Close(c, "failure")
    BY <1>2, <2>1, <2>2
  <2>3. ASSUME NEW ports,
               conn' = [conn EXCEPT ![c].at = "chosen", ![c].ports = ports]
        PROVE  [Promise!Next]_Promise!vars
    BY <1>1, <1>3, <2>1, <2>3 DEF ConnType, Inv, TypeOK
  <2> QED  BY <1>5, <2>2, <2>3 DEF ChooseBackends
<1>6. CASE TakeTurn(c)
  BY <1>1, <1>3, <1>6 DEF TakeTurn, At, ConnType, Inv, TypeOK
<1>7. CASE GiveUp(c) \/ Finish(c)
  BY <1>2, <1>7 DEF GiveUp, Finish, At
<1>8. CASE \E direction \in {"up", "down"} : EndCopy(c, direction)
  BY <1>1, <1>3, <1>8 DEF EndCopy, At, ConnType, Inv, TypeOK
<1> QED  BY <1>4, <1>5, <1>6, <1>7, <1>8

(* An attempt: Socks sees the upstream connection come and go. *)
LEMMA AttemptSocks ==
  ASSUME Inv, NEW c \in Conn, Dial(c) \/ Handshake(c)
  PROVE  [Promise!Next]_Promise!vars
<1>1. conn[c] \in ConnType
  BY DEF Inv, TypeOK, ConnType
<1>2. conn[c].at \in {"trying", "handshake"} /\ conn[c].reply = "none"
      /\ Phase(c) = "pending" /\ Said(c) = "none"
  BY DEF Dial, Handshake, At, Inv, Stage, Phase, Said
<1>3. conn[c].at = "handshake" <=> Open(c)
  BY <1>2 DEF Inv, Stage, Open
<1>4. ASSUME conn' = [conn EXCEPT ![c] = conn'[c]],
             conn'[c].at \in {"trying", "handshake"},
             conn'[c].reply = conn[c].reply,
             conn'[c].at = "handshake" <=> Open(c)'
      PROVE  [Promise!Next]_Promise!vars
  <2>1. Phase(c)' = Phase(c) /\ Said(c)' = Said(c)
    BY <1>2, <1>4 DEF Phase, Said
  <2>2. Open(c) \in BOOLEAN /\ Open(c)' \in BOOLEAN
    BY DEF Open
  <2>3. CASE Open(c)' = Open(c)
    BY <1>4, <2>1, <2>3, SocksStutter DEF Inv
  <2>4. CASE Open(c)' = ~Open(c)
    BY <1>2, <1>4, <2>1, <2>4, SocksStep DEF Inv
  <2> QED  BY <2>2, <2>3, <2>4
<1>5. CASE Dial(c)
  <2>1. MoreToTry(c)
    BY <1>5 DEF Dial
  <2>2. Candidate(c) # None
    BY <2>1, CandidateType, RetryAssumption
  <2>3. conn' = [conn EXCEPT ![c] = conn'[c]] /\ conn'[c].reply = conn[c].reply
    BY <1>1, <1>5 DEF Dial, ConnType, Inv, TypeOK
  <2>4. \/ conn'[c].at = "handshake" /\ conn'[c].upstream = Candidate(c)
        \/ conn'[c].at = "trying" /\ conn'[c].upstream = None
    BY <1>1, <1>3, <1>5 DEF Dial, At, ConnType, Open, Inv, TypeOK
  <2> QED  BY <1>4, <2>2, <2>3, <2>4 DEF Open
<1>6. CASE Handshake(c)
  <2>1. conn[c].at = "handshake" /\ Open(c)
    BY <1>3, <1>6 DEF Handshake, At
  <2>2. CASE NextBackend(c)
    <3>1. /\ conn' = [conn EXCEPT ![c] = conn'[c]]
          /\ conn'[c].reply = conn[c].reply
          /\ conn'[c].at = "trying" /\ conn'[c].upstream = None
      BY <1>1, <2>2 DEF NextBackend, ConnType, Inv, TypeOK
    <3> QED  BY <1>4, <3>1 DEF Open
  <2>3. CASE conn' = [conn EXCEPT ![c].at = "relay", ![c].reply = "granted",
                                  ![c].copying = {"up", "down"}]
    <3>1. /\ conn' = [conn EXCEPT ![c] = conn'[c]]
          /\ conn'[c].reply = "granted" /\ conn'[c].at = "relay"
          /\ conn'[c].upstream = conn[c].upstream
      BY <1>1, <2>3 DEF ConnType, Inv, TypeOK
    <3>2. Phase(c)' = "relaying" /\ Said(c)' = "granted" /\ Open(c)'
      BY <2>1, <3>1 DEF Phase, Said, Open
    <3> QED  BY <1>2, <2>1, <3>1, <3>2, SocksStep DEF Inv
  <2>4. CASE Close(c, "refused")
    BY <2>1, <2>4, CloseSocks DEF Reply
  <2> QED  BY <1>6, <2>2, <2>3, <2>4 DEF Handshake
<1> QED  BY <1>5, <1>6

LEMMA NextSocks == Inv /\ [Next]_vars => [Promise!Next]_Promise!vars
<1> SUFFICES ASSUME Inv, [Next]_vars PROVE [Promise!Next]_Promise!vars
  OBVIOUS
<1>1. CASE UNCHANGED vars
  BY <1>1 DEF vars, Promise!vars, Phase, Said
<1>2. CASE Next
  BY <1>2, QuietSocks, AttemptSocks DEF Next, Answer
<1> QED  BY <1>1, <1>2

(* RetryProxy keeps the promise of Socks: through all the retries a client   *)
(* gets at most one answer, "granted" only over an open upstream connection. *)
(* That it does get one is liveness, and checked by TLC (ImplementsSocks).   *)
THEOREM RefinesSocks == Spec => Promise!Spec
  BY InitSocks, NextSocks, Invariance, PTL DEF Spec, Promise!Spec
=============================================================================
