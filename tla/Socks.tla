-------------------------------- MODULE Socks --------------------------------
(***************************************************************************)
(* What a SOCKS5 proxy promises its clients, whichever way it finds an     *)
(* upstream connection: one answer to each request, a positive one only    *)
(* when there is an upstream connection to relay to, and none of the two   *)
(* connections left open without the other.  RetryProxy and ProxyServer    *)
(* are shown to implement it.                                              *)
(***************************************************************************)
CONSTANT Conn \* client connections

VARIABLES
  phase,   \* what the proxy does for a connection
  reply,   \* the answer to its request
  upstream \* is an upstream connection open for it?

vars == <<phase, reply, upstream>>

Init ==
  /\ phase = [c \in Conn |-> "negotiating"]
  /\ reply = [c \in Conn |-> "none"]
  /\ upstream = [c \in Conn |-> FALSE]

\* The client sends nonsense, or leaves.
HangUp(c) ==
  /\ phase[c] = "negotiating"
  /\ phase' = [phase EXCEPT ![c] = "closed"]
  /\ UNCHANGED <<reply, upstream>>

Ask(c) ==
  /\ phase[c] = "negotiating"
  /\ phase' = [phase EXCEPT ![c] = "pending"]
  /\ UNCHANGED <<reply, upstream>>

\* The proxy opens an upstream connection, or closes one.
Try(c) ==
  /\ phase[c] = "pending"
  /\ upstream' = [upstream EXCEPT ![c] = ~@]
  /\ UNCHANGED <<phase, reply>>

Grant(c) ==
  /\ phase[c] = "pending"
  /\ upstream[c]
  /\ phase' = [phase EXCEPT ![c] = "relaying"]
  /\ reply' = [reply EXCEPT ![c] = "granted"]
  /\ UNCHANGED upstream

Deny(c) ==
  /\ phase[c] \in {"negotiating", "pending"}
  /\ phase' = [phase EXCEPT ![c] = "closed"]
  /\ reply' = [reply EXCEPT ![c] = "denied"]
  /\ upstream' = [upstream EXCEPT ![c] = FALSE]

End(c) ==
  /\ phase[c] = "relaying"
  /\ phase' = [phase EXCEPT ![c] = "closed"]
  /\ upstream' = [upstream EXCEPT ![c] = FALSE]
  /\ UNCHANGED reply

Next ==
  \E c \in Conn :
    HangUp(c) \/ Ask(c) \/ Try(c) \/ Grant(c) \/ Deny(c) \/ End(c)

Spec == Init /\ [][Next]_vars

\* A proxy that limits the time it spends on backends also answers.
AnsweringSpec ==
  Spec /\ \A c \in Conn : phase[c] = "pending" ~> reply[c] # "none"
=============================================================================
