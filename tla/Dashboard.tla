------------------------------ MODULE Dashboard ------------------------------
(***************************************************************************)
(* web.Dashboard on top of the health checker: every two seconds           *)
(* broadcastLoop collects the state of the tunnels and puts it into the    *)
(* queue of every browser that watches; HandleSSE, one goroutine per       *)
(* browser, writes it out.  A full queue misses the update.                *)
(*                                                                         *)
(* What is shown is the status of each tunnel, read under its own lock.    *)
(* Browsers and the HTTP server that runs HandleSSE are the environment.   *)
(***************************************************************************)
EXTENDS HealthChecker

CONSTANTS
  QueueLimit, \* the capacity of their queues, 8 in the code
  Nobody,
  Blank

ASSUME DashboardAssumption ==
  /\ QueueLimit \in Nat \ {0}
  /\ Nobody \notin Watcher

VARIABLES
  sseMu,   \* who holds sseMu between two steps
  clients, \* Dashboard.clients
  sender,  \* the local variables of broadcastLoop, and where it is
  page,    \* the local variables of HandleSSE, and where it is
  online   \* the browsers whose request has not been cancelled

webVars == <<sseMu, clients, sender, page, online>>
allVars == <<vars, webVars>>

\* collectState, as far as it has got.
Nothing == [left |-> Listed, data |-> <<>>]
Look(view) == [left |-> Tail(view.left),
               data |-> Append(view.data, status[Head(view.left)])]
Complete(view) == view.left = <<>>

Away == [at |-> "away", view |-> Nothing, queue |-> <<>>, shown |-> Blank]

MonitorInit ==
  /\ Init
  /\ sseMu = Nobody /\ clients = {} /\ online = {}
  /\ sender = [at |-> "ticker", view |-> Nothing, to |-> {}]
  /\ page = [w \in Watcher |-> Away]

-----------------------------------------------------------------------------
(***************************************************************************)
(* broadcastLoop.                                                          *)
(***************************************************************************)

\* Bound: nothing is collected when there is nobody to come and watch it.
Wake ==
  /\ sender.at = "ticker" /\ env.watched # {}
  /\ sender' = [sender EXCEPT !.at = "collect", !.view = Nothing]
  /\ UNCHANGED <<sseMu, clients, page>>

Collect ==
  /\ sender.at = "collect" /\ ~Complete(sender.view)
  /\ sender' = [sender EXCEPT !.view = Look(@)]
  /\ UNCHANGED <<sseMu, clients, page>>

Lock ==
  /\ sender.at = "collect" /\ Complete(sender.view)
  /\ sseMu = Nobody
  /\ sseMu' = "broadcastLoop"
  /\ sender' = [sender EXCEPT !.at = "send", !.to = clients]
  /\ UNCHANGED <<clients, page>>

Enqueue(w) == page' = [page EXCEPT ![w].queue = Append(@, sender.view.data)]

\* Mutant: the send waits for room.
SendBlocking(w) ==
  /\ sender.at = "send" /\ w \in sender.to
  /\ Len(page[w].queue) < QueueLimit /\ Enqueue(w)
  /\ sender' = [sender EXCEPT !.to = @ \ {w}]
  /\ UNCHANGED <<sseMu, clients>>

\* Mutant: a browser that has missed an update is forgotten.
SendOrForget(w) ==
  /\ sender.at = "send" /\ w \in sender.to
  /\ IF Len(page[w].queue) < QueueLimit
       THEN Enqueue(w) /\ UNCHANGED clients
       ELSE clients' = clients \ {w} /\ UNCHANGED page
  /\ sender' = [sender EXCEPT !.to = @ \ {w}]
  /\ UNCHANGED sseMu

\* select with a default case.
Send(w) ==
  /\ sender.at = "send" /\ w \in sender.to
  /\ IF Len(page[w].queue) < QueueLimit THEN Enqueue(w) ELSE UNCHANGED page
  /\ sender' = [sender EXCEPT !.to = @ \ {w}]
  /\ UNCHANGED <<sseMu, clients>>

Unlock ==
  /\ sender.at = "send" /\ sender.to = {}
  /\ sseMu' = Nobody
  /\ sender' = [sender EXCEPT !.at = "ticker"]
  /\ UNCHANGED <<clients, page>>

Broadcast ==
  /\ Wake \/ Collect \/ Lock \/ Unlock \/ \E w \in Watcher : Send(w)
  /\ UNCHANGED <<vars, online>>

-----------------------------------------------------------------------------
(***************************************************************************)
(* HandleSSE.                                                              *)
(***************************************************************************)

At(w, place) == page[w].at = place
Goto(w, place) == page' = [page EXCEPT ![w].at = place]

Register(w) ==
  /\ At(w, "joining") /\ sseMu = Nobody
  /\ clients' = clients \cup {w}
  /\ page' = [page EXCEPT ![w].at = "initial", ![w].view = Nothing]

CollectInitial(w) ==
  /\ At(w, "initial") /\ ~Complete(page[w].view)
  /\ page' = [page EXCEPT ![w].view = Look(@)]
  /\ UNCHANGED clients

WriteInitial(w) ==
  /\ At(w, "initial") /\ Complete(page[w].view)
  /\ Goto(w, "write")
  /\ UNCHANGED clients

Receive(w) ==
  /\ At(w, "select") /\ page[w].queue # <<>>
  /\ page' = [page EXCEPT ![w].at = "write", ![w].view.data = Head(page[w].queue),
                          ![w].queue = Tail(page[w].queue)]
  /\ UNCHANGED clients

\* The deferred deletion.  The queue goes with the goroutine.
Leave(w) ==
  /\ At(w, "leaving") /\ sseMu = Nobody
  /\ clients' = clients \ {w}
  /\ page' = [page EXCEPT ![w] = Away]

PageStep(w) ==
  /\ \/ Register(w) \/ CollectInitial(w) \/ WriteInitial(w)
     \/ Receive(w) \/ Leave(w)
  /\ UNCHANGED <<vars, sseMu, sender, online>>

\* A write ends when the browser reads, or with an error when it is gone.
EndWrite(w) ==
  /\ At(w, "write")
  /\ page' = [page EXCEPT ![w].at = "select", ![w].view = Nothing,
                          ![w].shown = page[w].view.data]
  /\ UNCHANGED <<vars, sseMu, clients, sender, online>>

SeeGone(w) ==
  /\ At(w, "select") /\ w \notin online
  /\ Goto(w, "leaving")
  /\ UNCHANGED <<vars, sseMu, clients, sender, online>>

Arrive(w) ==
  /\ At(w, "away") /\ w \notin online /\ w \in env.watched
  /\ Goto(w, "joining")
  /\ online' = online \cup {w}
  /\ UNCHANGED <<vars, sseMu, clients, sender>>

Disconnect(w) ==
  /\ w \in online
  /\ online' = online \ {w}
  /\ UNCHANGED <<vars, sseMu, clients, sender, page>>

WebNext ==
  \/ Broadcast
  \/ \E w \in Watcher :
       PageStep(w) \/ EndWrite(w) \/ SeeGone(w) \/ Arrive(w) \/ Disconnect(w)

(***************************************************************************)
(* Goroutines are scheduled, and a write to a browser that is gone fails.  *)
(* A browser may stop reading for ever.  A sync.Mutex does not starve who  *)
(* waits for it, and select chooses at random.                             *)
(***************************************************************************)
WebFairness ==
  /\ WF_allVars(Broadcast)
  /\ \A w \in Watcher :
       /\ SF_allVars(PageStep(w)) /\ SF_allVars(SeeGone(w))
       /\ WF_allVars(EndWrite(w) /\ w \notin online)

MonitorNext ==
  \/ Next /\ UNCHANGED webVars
  \/ WebNext

MonitorSpec ==
  /\ MonitorInit
  /\ [][MonitorNext]_allVars
  /\ Fairness /\ WebFairness

-----------------------------------------------------------------------------

Statuses == [t \in DOMAIN Listed |-> status[Listed[t]]]

\* When nothing changes any more, a browser that goes on reading shows how things
\* are in the end, although it may have missed updates before, has shown others
\* late, and may have got its initial state between two of them.
ViewCatchesUp ==
  \A w \in Watcher :
    (/\ <>[](w \in online /\ page[w].at # "away")
     /\ <>[][FALSE]_status
     /\ []<>(page[w].at # "write"))
    => <>[](page[w].shown = Statuses)

\* The goroutine of a browser that has gone ends and leaves the list, whatever
\* is in its queue and whoever else does not read.
ClientLeaves ==
  \A w \in Watcher :
    w \notin online ~> At(w, "away") /\ w \notin clients
=============================================================================
