---------------------------- MODULE HealthChecker ----------------------------
(***************************************************************************)
(* health.Checker: one loop that checks every tunnel at each tick, a deep  *)
(* check every few ticks that verifies the running tunnels with a real     *)
(* HTTPS request each and replaces the gold pool, goroutines that look up  *)
(* the exit address of a tunnel, and Start and Stop.                       *)
(*                                                                         *)
(* Deep checks and look-ups are not waited for: several deep checks may be *)
(* at work, and they outlive Stop.  Requests that start and stop tunnels,  *)
(* and the tunnels themselves, are the environment.  Latencies and the     *)
(* statistics other than the number of checks are left out.                *)
(***************************************************************************)
EXTENDS Naturals, FiniteSets, Sequences, SequencesExt

CONSTANTS
  Tunnels,  \* the tunnels, in the order GetTunnels returns them
  Every,    \* a deep check every so many checks, 5 in the code
  Limit,    \* probes at a time in a deep check, 50 in the code
  Slot,     \* bound: deep checks at a time
  MaxLooks, \* bound: look-ups of one tunnel at a time
  Watcher,  \* browsers, which Dashboard serves
  Environments

Tunnel == ToSet(Tunnels)

(***************************************************************************)
(* An environment fixes the tunnels there are, the deep checks there may   *)
(* be, the states a tunnel's link may have, whether exit addresses are     *)
(* still to be looked up, whether requests start and stop tunnels, whether *)
(* the checker is started at all, and the browsers that may come to watch. *)
(***************************************************************************)
Link == {"down", "tcp", "https"}
Environment ==
  [tunnels : SUBSET Tunnel, slots : SUBSET Slot, links : SUBSET Link,
   looks : BOOLEAN, requests : BOOLEAN, checks : BOOLEAN,
   watched : SUBSET Watcher]

ASSUME HealthAssumption ==
  /\ Tunnels \in Seq(Tunnel) /\ IsInjective(Tunnels)
  /\ Every \in Nat /\ Every > 1
  /\ Limit \in Nat \ {0} /\ MaxLooks \in Nat
  /\ IsFiniteSet(Slot)
  /\ Environments \subseteq Environment

VARIABLES
  env,    \* the environment of this behaviour
  link,   \* how far a connection through a tunnel gets
  status, \* Tunnel.Status
  exit,   \* is Tunnel.ExitIP known?
  looks,  \* the number of look-ups of a tunnel's exit address at work
  loop,   \* the local variables of loop and checkAll, and where it is
  count,  \* stats.TotalChecks, modulo Every
  deep,   \* the local variables of each deepCheckAll, and where it is
  gold,   \* goldPorts
  stopper \* where Stop is

envVars == <<env, link>>
vars == <<env, link, status, exit, looks, loop, count, deep, gold, stopper>>

Status == {"stopped", "starting", "running", "unhealthy"}

\* GetTunnels
Listed == SelectSeq(Tunnels, LAMBDA t : t \in env.tunnels)

Asleep == [at |-> "asleep", left |-> <<>>, probing |-> {}, found |-> {}]

Init ==
  /\ env \in Environments
  /\ link \in [Tunnel -> env.links]
  /\ status = [t \in Tunnel |-> "starting"]
  /\ exit = [t \in Tunnel |-> ~env.looks]
  /\ looks = [t \in Tunnel |-> 0]
  /\ loop = [at |-> IF env.checks THEN "sweep" ELSE "ended", left |-> Listed,
             ok |-> FALSE]
  /\ count = 0
  /\ deep = [d \in Slot |-> Asleep]
  /\ gold = {}
  /\ stopper = "idle"

-----------------------------------------------------------------------------
(***************************************************************************)
(* loop and checkAll.  The first check comes before the first select.      *)
(***************************************************************************)

Tick ==
  /\ loop.at = "select"
  /\ loop' = [loop EXCEPT !.at = "sweep", !.left = Listed]
  /\ UNCHANGED <<status, looks, count, deep, stopper>>

\* Mutant: the loop returns without telling Stop.
StopSeenSilently ==
  /\ loop.at = "select" /\ stopper = "waiting"
  /\ loop' = [loop EXCEPT !.at = "gone"]
  /\ UNCHANGED <<status, looks, count, deep, stopper>>

StopSeen ==
  /\ loop.at = "select" /\ stopper = "waiting"
  /\ loop' = [loop EXCEPT !.at = "ended"]
  /\ UNCHANGED <<status, looks, count, deep, stopper>>

\* Stopped tunnels are not checked.
ReadStatus ==
  /\ loop.at = "sweep" /\ loop.left # <<>>
  /\ loop' = IF status[Head(loop.left)] = "stopped"
               THEN [loop EXCEPT !.left = Tail(@)]
               ELSE [loop EXCEPT !.at = "dial"]
  /\ UNCHANGED <<status, looks, count, deep, stopper>>

\* checkTunnel
Dial ==
  /\ loop.at = "dial"
  /\ loop' = [loop EXCEPT !.at = "write", !.ok = link[Head(loop.left)] # "down"]
  /\ UNCHANGED <<status, looks, count, deep, stopper>>

\* The verdict of the dial replaces whatever the status is by now.
WriteVerdict ==
  LET t == Head(loop.left) IN
  /\ loop.at = "write"
  /\ status' = [status EXCEPT ![t] = IF loop.ok THEN "running" ELSE "unhealthy"]
  /\ IF loop.ok /\ ~exit[t]
       THEN looks[t] < MaxLooks /\ looks' = [looks EXCEPT ![t] = @ + 1]
       ELSE UNCHANGED looks
  /\ loop' = [loop EXCEPT !.at = "sweep", !.left = Tail(@)]
  /\ UNCHANGED <<count, deep, stopper>>

Scanning == [Asleep EXCEPT !.at = "scan", !.left = Listed]

\* Bound: a deep check is only begun when there is a slot for it.
EndSweep ==
  /\ loop.at = "sweep" /\ loop.left = <<>>
  /\ count' = (count + 1) % Every
  /\ IF count' = 1 /\ env.slots # {}
       THEN \E d \in env.slots : deep[d].at = "asleep"
              /\ deep' = [deep EXCEPT ![d] = Scanning]
       ELSE UNCHANGED deep
  /\ loop' = [loop EXCEPT !.at = "select"]
  /\ UNCHANGED <<status, looks, stopper>>

CheckStep ==
  /\ Tick \/ ReadStatus \/ Dial \/ WriteVerdict \/ EndSweep
  /\ UNCHANGED <<envVars, exit, gold>>

-----------------------------------------------------------------------------
(***************************************************************************)
(* deepCheckAll and httpsProbe.                                            *)
(***************************************************************************)

ScanTunnel(d) ==
  /\ deep[d].at = "scan" /\ deep[d].left # <<>>
  /\ deep' = IF status[Head(deep[d].left)] = "running"
               THEN [deep EXCEPT ![d].at = "acquire"]
               ELSE [deep EXCEPT ![d].left = Tail(@)]
  /\ UNCHANGED gold

\* sem <- struct{}{}
BeginProbe(d) ==
  /\ deep[d].at = "acquire" /\ Cardinality(deep[d].probing) < Limit
  /\ deep' = [deep EXCEPT ![d].at = "scan", ![d].left = Tail(@),
                          ![d].probing = @ \cup {Head(deep[d].left)}]
  /\ UNCHANGED gold

\* Mutant: the semaphore is only released after a success.
EndProbeLeaking(d, t) ==
  /\ t \in deep[d].probing /\ link[t] = "https"
  /\ deep' = [deep EXCEPT ![d].probing = @ \ {t}, ![d].found = @ \cup {t}]
  /\ UNCHANGED gold

\* The request has eight seconds.
EndProbe(d, t) ==
  /\ t \in deep[d].probing
  /\ deep' = [deep EXCEPT ![d].probing = @ \ {t},
                          ![d].found = IF link[t] = "https" THEN @ \cup {t} ELSE @]
  /\ UNCHANGED gold

\* Mutant: the verified tunnels are added to the pool.
PublishMore(d) ==
  /\ deep[d].at = "scan" /\ deep[d].left = <<>> /\ deep[d].probing = {}
  /\ gold' = gold \cup deep[d].found
  /\ deep' = [deep EXCEPT ![d] = Asleep]

\* dwg.Wait and what follows it.
Publish(d) ==
  /\ deep[d].at = "scan" /\ deep[d].left = <<>> /\ deep[d].probing = {}
  /\ gold' = deep[d].found
  /\ deep' = [deep EXCEPT ![d] = Asleep]

DeepStep(d) ==
  /\ \/ ScanTunnel(d) \/ BeginProbe(d) \/ Publish(d)
     \/ \E t \in Tunnel : EndProbe(d, t)
  /\ UNCHANGED <<envVars, status, exit, looks, loop, count, stopper>>

\* resolveExitIP, which has ten seconds.  It may fail.
EndLook(t) ==
  /\ looks[t] > 0
  /\ looks' = [looks EXCEPT ![t] = @ - 1]
  /\ exit' = [exit EXCEPT ![t] = @ \/ link[t] # "down"] \/ UNCHANGED exit
  /\ UNCHANGED <<envVars, status, loop, count, deep, gold, stopper>>

-----------------------------------------------------------------------------
(***************************************************************************)
(* Stop, called once: a second call would close stopCh again and panic.    *)
(***************************************************************************)

BeginStop ==
  /\ env.checks /\ stopper = "idle"
  /\ stopper' = "waiting"
  /\ UNCHANGED <<envVars, status, exit, looks, loop, count, deep, gold>>

\* wg.Wait
Stopped ==
  /\ stopper = "waiting" /\ loop.at = "ended"
  /\ stopper' = "done"
  /\ UNCHANGED <<envVars, status, exit, looks, loop, count, deep, gold>>

SeeStop == StopSeen /\ UNCHANGED <<envVars, exit, gold>>

-----------------------------------------------------------------------------

\* startTunnel, and stopTunnel or the exit of wireproxy.
ChangeStatus(t) ==
  /\ env.requests /\ t \in env.tunnels
  /\ status' = [status EXCEPT ![t] = IF @ = "stopped" THEN "starting" ELSE "stopped"]
  /\ UNCHANGED <<envVars, exit, looks, loop, count, deep, gold, stopper>>

ChangeLink(t) ==
  /\ t \in env.tunnels
  /\ \E l \in env.links \ {link[t]} : link' = [link EXCEPT ![t] = l]
  /\ UNCHANGED <<env, status, exit, looks, loop, count, deep, gold, stopper>>

Next ==
  \/ CheckStep \/ SeeStop
  \/ \E d \in Slot : DeepStep(d)
  \/ \E t \in Tunnel : EndLook(t) \/ ChangeStatus(t) \/ ChangeLink(t)
  \/ BeginStop \/ Stopped

Spec == Init /\ [][Next]_vars

(***************************************************************************)
(* The ticker ticks, dials, probes and look-ups have deadlines, goroutines *)
(* are scheduled.  When both a tick and a stop are there, select chooses   *)
(* at random, so that it cannot choose the tick for ever.                  *)
(***************************************************************************)
Fairness ==
  /\ WF_vars(CheckStep) /\ SF_vars(SeeStop) /\ WF_vars(Stopped)
  /\ \A d \in Slot : WF_vars(DeepStep(d))
  /\ \A t \in Tunnel : WF_vars(EndLook(t))

FairSpec == Spec /\ Fairness

-----------------------------------------------------------------------------

\* A tunnel that stays up and passes HTTPS gets into the gold pool and stays,
\* however many other tunnels fail and however deep checks overlap, unless the
\* checker is stopped.
GoldLearns ==
  \A t \in Tunnel :
    <>[](t \in env.tunnels /\ link[t] = "https" /\ status[t] # "stopped"
         /\ stopper = "idle" /\ env.checks /\ env.slots # {})
    => <>[](t \in gold)

\* A tunnel that does not pass HTTPS any more leaves the gold pool for good,
\* unless the checker is stopped: its clients are not sent there for ever.
GoldForgets ==
  \A t \in Tunnel :
    <>[](link[t] # "https" /\ stopper = "idle") => <>[](t \notin gold)

\* Stop returns, also when it comes in the middle of a check.
StopReturns == stopper = "waiting" ~> stopper = "done"
=============================================================================
