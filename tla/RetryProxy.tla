----------------------------- MODULE RetryProxy -----------------------------
(***************************************************************************)
(* RetryProxy: the SOCKS5 proxy that offers each connection to several     *)
(* backends in turn.  One handleConn goroutine per connection; they share  *)
(* the round-robin index only.  The two callbacks that supply the          *)
(* backends, the clients and the backends themselves are the environment.  *)
(***************************************************************************)
EXTENDS Naturals, Sequences

CONSTANTS
  Conn,       \* client connections
  Port,       \* ports of backends
  None,       \* no upstream connection
  maxRetries, \* 5 in the code
  Backends,   \* the lists the two callbacks may return
  Odd         \* backends that answer the greeting with another method than 0

Injective(s) == \A i, j \in DOMAIN s : s[i] = s[j] => i = j

ASSUME RetryAssumption ==
  /\ None \notin Port
  /\ \A s \in Backends : s \in Seq(Port) /\ Injective(s)
  /\ maxRetries \in Nat \ {0}
  /\ Odd \subseteq Port

VARIABLES
  index,   \* RetryProxy.index
  conn     \* the local variables of handleConn, and where it is

vars == <<index, conn>>

Place == {"new", "greeted", "asked", "chosen", "trying", "handshake", "relay",
          "closed"}
Reply == {"none", "failure", "refused", "granted"}

New == [at |-> "new", ports |-> <<>>, ticket |-> 0, attempt |-> 0,
        tried |-> <<>>, upstream |-> None, reply |-> "none",
        copying |-> {}]

At(c, place) == conn[c].at = place

Init ==
  /\ index = 0
  /\ conn = [c \in Conn |-> New]

-----------------------------------------------------------------------------

\* Every return closes the client connection, and the upstream one if any.
Close(c, reply) ==
  conn' = [conn EXCEPT ![c].at = "closed", ![c].reply = reply,
                       ![c].upstream = None, ![c].copying = {}]

Greeting(c) ==
  /\ At(c, "new")
  /\ \/ conn' = [conn EXCEPT ![c].at = "greeted"]
     \/ Close(c, "none")
  /\ UNCHANGED index

Request(c) ==
  /\ At(c, "greeted")
  /\ \/ conn' = [conn EXCEPT ![c].at = "asked"]
     \/ Close(c, "none")
  /\ UNCHANGED index

\* The gold pool, or else the healthy backends, or else a failure.
ChooseBackends(c) ==
  /\ At(c, "asked")
  /\ \E gold, healthy \in Backends :
       LET ports == IF gold # <<>> THEN gold ELSE healthy IN
       IF ports = <<>>
         THEN Close(c, "failure")
         ELSE conn' = [conn EXCEPT ![c].at = "chosen", ![c].ports = ports]
  /\ UNCHANGED index

\* Mutant: the index is incremented by a read and a write.
TakeTurnUnlocked(c) ==
  /\ At(c, "chosen")
  /\ index' \in {index, index + 1}
  /\ conn' = [conn EXCEPT ![c].at = "trying", ![c].ticket = index + 1]

TakeTurn(c) ==
  /\ At(c, "chosen")
  /\ index' = index + 1
  /\ conn' = [conn EXCEPT ![c].at = "trying", ![c].ticket = index']

Length(c) == Len(conn[c].ports)

\* Mutant: the attempts are spread instead of consecutive.
SpreadTurn(c) == (conn[c].ticket + 2 * conn[c].attempt) % Length(c)

\* The index of the backend to try, from 0 as in the code.
Turn(c) == ((conn[c].ticket % Length(c)) + conn[c].attempt) % Length(c)

Candidate(c) == conn[c].ports[Turn(c) + 1]

MoreToTry(c) == conn[c].attempt < maxRetries /\ conn[c].attempt < Length(c)

Tried(c) == Append(conn[c].tried, Candidate(c))

\* Mutant: a dial that fails ends the loop.
DialOnce(c) ==
  /\ At(c, "trying")
  /\ MoreToTry(c)
  /\ \/ conn' = [conn EXCEPT ![c].at = "handshake", ![c].tried = Tried(c),
                             ![c].upstream = Candidate(c)]
     \/ conn' = [conn EXCEPT ![c].attempt = maxRetries, ![c].tried = Tried(c)]
  /\ UNCHANGED index

Dial(c) ==
  /\ At(c, "trying")
  /\ MoreToTry(c)
  /\ \/ conn' = [conn EXCEPT ![c].at = "handshake", ![c].tried = Tried(c),
                             ![c].upstream = Candidate(c)]
     \/ conn' = [conn EXCEPT ![c].attempt = @ + 1, ![c].tried = Tried(c)]
  /\ UNCHANGED index

\* Mutant: the client is left without an answer when all backends have failed.
GiveUpSilently(c) ==
  /\ At(c, "trying")
  /\ ~MoreToTry(c)
  /\ Close(c, "none")
  /\ UNCHANGED index

GiveUp(c) ==
  /\ At(c, "trying")
  /\ ~MoreToTry(c)
  /\ Close(c, "refused")
  /\ UNCHANGED index

NextBackend(c) ==
  conn' = [conn EXCEPT ![c].at = "trying", ![c].attempt = @ + 1,
                       ![c].upstream = None]

(***************************************************************************)
(* The handshake ends within the deadline of eight seconds.  When the      *)
(* backend picks another method than "no authentication", tryBackend       *)
(* returns neither a connection nor an error, and the loop is left.        *)
(***************************************************************************)
Handshake(c) ==
  /\ At(c, "handshake")
  /\ \/ NextBackend(c)
     \/ /\ conn[c].upstream \notin Odd
        /\ conn' = [conn EXCEPT ![c].at = "relay", ![c].reply = "granted",
                                ![c].copying = {"up", "down"}]
     \/ /\ conn[c].upstream \in Odd
        /\ Close(c, "refused")
  /\ UNCHANGED index

\* One direction ends: its source is at its end, or its destination is gone.
EndCopy(c, direction) ==
  /\ At(c, "relay")
  /\ direction \in conn[c].copying
  /\ conn' = [conn EXCEPT ![c].copying = @ \ {direction}]
  /\ UNCHANGED index

Finish(c) ==
  /\ At(c, "relay")
  /\ conn[c].copying = {}
  /\ Close(c, "granted")
  /\ UNCHANGED index

Answer(c) ==
  ChooseBackends(c) \/ TakeTurn(c) \/ Dial(c) \/ GiveUp(c) \/ Handshake(c)

Next ==
  \E c \in Conn :
    \/ Greeting(c) \/ Request(c)
    \/ Answer(c)
    \/ \E direction \in {"up", "down"} : EndCopy(c, direction)
    \/ Finish(c)

Spec == Init /\ [][Next]_vars

\* Dials and handshakes have deadlines.  Clients may say nothing for ever.
FairSpec == Spec /\ \A c \in Conn : WF_vars(Answer(c)) /\ WF_vars(Finish(c))

-----------------------------------------------------------------------------

\* The type of the shared index and of every connection.
TypeOK ==
  /\ index \in Nat
  /\ conn \in [Conn ->
       [at : Place, ports : Seq(Port), ticket : Nat, attempt : Nat,
        tried : Seq(Port), upstream : Port \cup {None}, reply : Reply,
        copying : SUBSET {"up", "down"}]]

\* No connection is offered to the same backend twice, wherever in the list
\* the round-robin starts and however often the list wraps around.
TriesDistinct ==
  \A c \in Conn :
    /\ Injective(conn[c].tried)
    /\ Len(conn[c].tried) <= maxRetries

Last(c) == conn[c].tried[Len(conn[c].tried)]

Exhausted(c) ==
  \/ Len(conn[c].tried) = maxRetries
  \/ Len(conn[c].tried) = Length(c)

\* A client is refused only after as many backends have failed as the list and
\* the limit allow, or after a backend that has picked another method.
RefusedAfterRetries ==
  \A c \in Conn :
    conn[c].reply = "refused" => Exhausted(c) \/ Last(c) \in Odd

\* "RetryProxy is a SOCKS5 proxy that retries failed connections across multiple
\* backends." (retry.go): this does not hold if a backend picks another method.
RetriesFailed ==
  \A c \in Conn : conn[c].reply = "refused" => Exhausted(c)

\* Two connections with the same list, served within one round of it, are
\* offered to different backends first.
RoundRobin ==
  \A c, d \in Conn :
    LET first(e) == conn[e].tried[1] IN
    (/\ c # d /\ conn[c].ports = conn[d].ports
     /\ conn[c].tried # <<>> /\ conn[d].tried # <<>>
     /\ conn[c].ticket <= conn[d].ticket
     /\ conn[d].ticket < conn[c].ticket + Length(c))
    => first(c) # first(d)

Phase(c) ==
  CASE conn[c].at \in {"new", "greeted"} -> "negotiating"
    [] conn[c].at = "relay" -> "relaying"
    [] conn[c].at = "closed" -> "closed"
    [] OTHER -> "pending"

Said(c) ==
  IF conn[c].reply \in {"failure", "refused"} THEN "denied" ELSE conn[c].reply

Promise == INSTANCE Socks WITH
  phase <- [c \in Conn |-> Phase(c)],
  reply <- [c \in Conn |-> Said(c)],
  upstream <- [c \in Conn |-> conn[c].upstream # None]

\* RetryProxy is a SOCKS5 proxy that answers: through all retries a client gets
\* one answer, "granted" only over an open upstream connection, which is closed
\* when it ends, and it gets it in the end, whatever the backends do.
ImplementsSocks == Promise!AnsweringSpec
=============================================================================
