------------------------------- MODULE Tunnel -------------------------------
(***************************************************************************)
(* One tunnels.Tunnel object and everything that touches it concurrently:  *)
(* the startTunnel goroutines, the goroutine each of them leaves behind to *)
(* wait for its wireproxy process, the HTTP requests and StopAll, all of   *)
(* which go through stopTunnel, and the health checker.                    *)
(*                                                                         *)
(* A step of the model is a critical section of t.mu, or one operation on  *)
(* a file, a process or a channel between two critical sections.           *)
(*                                                                         *)
(* A run is one invocation of startTunnel; its done channel, its temporary *)
(* configuration, its process and its waiting goroutine carry its name.    *)
(***************************************************************************)
EXTENDS Naturals, FiniteSets

CONSTANTS
  Run,       \* invocations of startTunnel; their number bounds the restarts
  Request,   \* slots for requests that are served at the same time
  None,      \* the nil pointer, channel, or empty file name
  Environments

Kind == {"stop", "restart", "disconnect", "delete"}

(***************************************************************************)
(* An environment fixes what the processes and the callers may do:         *)
(*   faults    may wireproxy exit by itself, and a dial or removal fail?   *)
(*   stubborn  may wireproxy outlive the 5 second grace period?            *)
(*   patient   is a request only made once the last one has run its course?*)
(*   runs      how many runs there may be                                  *)
(*   asks      what each request slot may ask for                          *)
(***************************************************************************)
ASSUME TunnelAssumption ==
  /\ None \notin Run
  /\ Environments \subseteq
       [faults : BOOLEAN, stubborn : BOOLEAN, patient : BOOLEAN, runs : Nat,
        asks : [Request -> SUBSET Kind]]

VARIABLES
  env,       \* the environment of this behaviour
  status,    \* Tunnel.Status
  cmd,       \* Tunnel.cmd: the run whose process it designates
  done,      \* Tunnel.done: the run that made the channel
  tmpConf,   \* Tunnel.tmpConf: the run that wrote the file
  listed,    \* is the tunnel in Manager.tunnels?
  conf,      \* does the file at Tunnel.ConfigPath exist?
  pc,        \* where the goroutines of each run are
  proc,      \* the process of each run
  sig,       \* the signal it has to heed
  files,     \* the temporary configurations on disk
  closed,    \* the done channels that are closed
  panicked,  \* has a goroutine panicked, which ends the program?
  req,       \* what each request slot is doing
  check      \* where the health checker is with this tunnel

tunnelVars == <<status, cmd, done, tmpConf>>
osVars == <<proc, sig, files>>
managerVars == <<listed, conf>>
vars == <<env, tunnelVars, osVars, managerVars, pc, closed, panicked, req, check>>

Status ==
  {"stopped", "starting", "running", "unhealthy", "error", "disconnected"}

\* The places of startTunnel, up to the one where it has returned ...
Launching == {"spawned", "generating", "generated", "registered", "launched"}
\* ... and those of the goroutine that waits for the process.
Place == {"unused", "waiting", "reaped", "recorded", "ended"} \cup Launching

\* A request keeps the local variables cmd and done of stopTunnel.
Idle == [kind |-> "stop", at |-> "idle", cmd |-> None, done |-> None]

Alive(r) == proc[r] \in {"loading", "listening"}

\* The port of the tunnel accepts connections.
PortOpen == \E r \in Run : proc[r] = "listening"

Busy(o) == req[o].at # "idle"

\* No request is being served and no startTunnel is on its way.
Settled ==
  /\ \A o \in Request : ~Busy(o)
  /\ \A r \in Run : pc[r] \notin Launching

-----------------------------------------------------------------------------

(* StartAll or ImportConfig has just started the first run. *)
Init ==
  /\ env \in Environments
  /\ status = "stopped"
  /\ cmd = None /\ done = None /\ tmpConf = None
  /\ listed = TRUE /\ conf = TRUE
  /\ \E r \in Run :
        pc = [q \in Run |-> IF q = r THEN "spawned" ELSE "unused"]
  /\ proc = [r \in Run |-> "none"]
  /\ sig = [r \in Run |-> "none"]
  /\ files = {} /\ closed = {} /\ panicked = FALSE
  /\ req = [o \in Request |-> Idle]
  /\ check = "idle"

-----------------------------------------------------------------------------
(***************************************************************************)
(* startTunnel.                                                            *)
(***************************************************************************)

MoveRun(r, from, to) ==
  /\ pc[r] = from
  /\ pc' = [pc EXCEPT ![r] = to]

BeginStart(r) ==
  /\ MoveRun(r, "spawned", "generating")
  /\ status' = "starting"
  /\ UNCHANGED <<cmd, done, tmpConf, osVars, managerVars, closed, panicked,
                 req, check>>

WriteConfig(r) ==
  /\ conf
  /\ MoveRun(r, "generating", "generated")
  /\ files' = files \cup {r}
  /\ UNCHANGED <<tunnelVars, proc, sig, managerVars, closed, panicked, req,
                 check>>

\* generateWireproxyConfig fails, for want of the .conf file or of space.
FailConfig(r) ==
  /\ MoveRun(r, "generating", "ended")
  /\ status' = "error"
  /\ UNCHANGED <<cmd, done, tmpConf, osVars, managerVars, closed, panicked,
                 req, check>>

\* Mutant: the done channel is only made the first time.
RegisterOnce(r) ==
  /\ MoveRun(r, "generated", "registered")
  /\ tmpConf' = r
  /\ done' = IF done = None THEN r ELSE done
  /\ UNCHANGED <<status, cmd, osVars, managerVars, closed, panicked, req,
                 check>>

Register(r) ==
  /\ MoveRun(r, "generated", "registered")
  /\ tmpConf' = r
  /\ done' = r
  /\ UNCHANGED <<status, cmd, osVars, managerVars, closed, panicked, req,
                 check>>

StartProcess(r) ==
  /\ MoveRun(r, "registered", "launched")
  /\ proc' = [proc EXCEPT ![r] = "loading"]
  /\ UNCHANGED <<tunnelVars, sig, files, managerVars, closed, panicked, req,
                 check>>

\* Mutant: the error path forgets the status.
FailProcessSilently(r) ==
  /\ MoveRun(r, "registered", "ended")
  /\ UNCHANGED <<tunnelVars, osVars, managerVars, closed, panicked, req, check>>

FailProcess(r) ==
  /\ MoveRun(r, "registered", "ended")
  /\ status' = "error"
  /\ UNCHANGED <<cmd, done, tmpConf, osVars, managerVars, closed, panicked,
                 req, check>>

PublishRun(r) ==
  /\ MoveRun(r, "launched", "waiting")
  /\ cmd' = r
  /\ status' = "running"
  /\ UNCHANGED <<done, tmpConf, osVars, managerVars, closed, panicked, req,
                 check>>

(***************************************************************************)
(* The goroutine that startTunnel leaves behind.  It waits without a lock, *)
(* so that cmd goes on designating a process that was waited for until it  *)
(* is cleared under t.mu.  t.done is read after the unlock: the channel    *)
(* that is closed is the current one, whoever made it.                     *)
(***************************************************************************)

ReapProcess(r) ==
  /\ proc[r] = "dead"
  /\ MoveRun(r, "waiting", "reaped")
  /\ UNCHANGED <<tunnelVars, osVars, managerVars, closed, panicked, req, check>>

ExitStatus == IF status = "stopped" THEN status ELSE "error"

\* Mutant: cmd is not reset.
RecordKeepingCmd(r) ==
  /\ MoveRun(r, "reaped", "recorded")
  /\ status' = ExitStatus
  /\ UNCHANGED <<cmd, done, tmpConf, osVars, managerVars, closed, panicked,
                 req, check>>

RecordExit(r) ==
  /\ MoveRun(r, "reaped", "recorded")
  /\ status' = ExitStatus
  /\ cmd' = None
  /\ UNCHANGED <<done, tmpConf, osVars, managerVars, closed, panicked, req,
                 check>>

\* Mutant: the channel is looked up through cmd, which was just reset.
ChannelOfCmd(r) == cmd

ChannelToClose(r) == done

CloseDone(r) ==
  /\ MoveRun(r, "recorded", "ended")
  /\ closed' = closed \cup {ChannelToClose(r)}
  /\ panicked' = (ChannelToClose(r) \in closed)
  /\ UNCHANGED <<tunnelVars, osVars, managerVars, req, check>>

StartStep(r) ==
  \/ BeginStart(r)
  \/ WriteConfig(r) \/ FailConfig(r)
  \/ Register(r)
  \/ StartProcess(r) \/ FailProcess(r)
  \/ PublishRun(r)

WaiterStep(r) == ReapProcess(r) \/ RecordExit(r) \/ CloseDone(r)

-----------------------------------------------------------------------------
(***************************************************************************)
(* wireproxy, as the operating system runs it.  It exits at once when it   *)
(* cannot read its configuration or its port is taken.                     *)
(***************************************************************************)

CanListen(r) == r \in files /\ ~PortOpen

Load(r) ==
  /\ proc[r] = "loading"
  /\ \/ /\ CanListen(r)
        /\ proc' = [proc EXCEPT ![r] = "listening"]
        /\ UNCHANGED sig
     \/ /\ ~CanListen(r)
        /\ proc' = [proc EXCEPT ![r] = "dead"]
        /\ sig' = [sig EXCEPT ![r] = "none"]
  /\ UNCHANGED <<tunnelVars, files, managerVars, pc, closed, panicked, req,
                 check>>

MustExit(r) == sig[r] = "kill" \/ (sig[r] = "int" /\ ~env.stubborn)

Exit(r) ==
  /\ Alive(r)
  /\ env.faults \/ sig[r] # "none"
  /\ proc' = [proc EXCEPT ![r] = "dead"]
  /\ sig' = [sig EXCEPT ![r] = "none"]
  /\ UNCHANGED <<tunnelVars, files, managerVars, pc, closed, panicked, req,
                 check>>

-----------------------------------------------------------------------------
(***************************************************************************)
(* Requests.  All of them call stopTunnel and differ in what they do next: *)
(* "stop" is StopAll, which keeps m.mu read-locked until it returns.       *)
(***************************************************************************)

At(o, place) == req[o].at = place

GoTo(o, place) == req' = [req EXCEPT ![o].at = place]

Finish(o) == req' = [req EXCEPT ![o] = Idle]

\* A goroutine waiting for m.mu.Lock keeps new readers out.
Readable == \A o \in Request : ~At(o, "unlist")

\* Bound: a run is left for each restart under way and one more.
RunLeft ==
  Cardinality({r \in Run : pc[r] # "unused"})
    + Cardinality({o \in Request : Busy(o) /\ req[o].kind = "restart"})
      < env.runs

BeginRequest(o, k) ==
  /\ k \in env.asks[o] /\ ~Busy(o)
  /\ listed /\ Readable
  /\ env.patient => Settled
  /\ k = "restart" => RunLeft
  /\ req' = [req EXCEPT ![o] = [Idle EXCEPT !.kind = k, !.at = "stopping"]]
  /\ UNCHANGED <<tunnelVars, osVars, managerVars, pc, closed, panicked, check>>

\* A signal is lost on a process that has exited, and none undoes SIGKILL.
\* os.Process refuses to signal a process that was waited for.
Signal(r, s) ==
  sig' = IF Alive(r) /\ sig[r] # "kill" THEN [sig EXCEPT ![r] = s] ELSE sig

\* Mutant: StopAll looks the tunnel up by name, as Restart does, although it
\* holds m.mu already.
StopBeginByName(o) ==
  /\ At(o, "stopping")
  /\ req[o].kind = "stop" => Readable
  /\ status' = "stopped"
  /\ \/ cmd = None /\ GoTo(o, "cleanup")
     \/ /\ cmd # None
        /\ req' = [req EXCEPT ![o].cmd = cmd, ![o].done = done,
                              ![o].at = "signal"]
  /\ UNCHANGED <<cmd, done, tmpConf, osVars, managerVars, pc, closed, panicked,
                 check>>

\* The first critical section of stopTunnel.
StopBegin(o) ==
  /\ At(o, "stopping")
  /\ status' = "stopped"
  /\ \/ cmd = None /\ GoTo(o, "cleanup")
     \/ /\ cmd # None
        /\ req' = [req EXCEPT ![o].cmd = cmd, ![o].done = done,
                              ![o].at = "signal"]
  /\ UNCHANGED <<cmd, done, tmpConf, osVars, managerVars, pc, closed, panicked,
                 check>>

\* The process may have exited and been waited for since cmd was copied.
Interrupt(o) ==
  /\ At(o, "signal")
  /\ Signal(req[o].cmd, "int")
  /\ GoTo(o, "grace")
  /\ UNCHANGED <<tunnelVars, proc, files, managerVars, pc, closed, panicked,
                 check>>

\* Mutant: the request does not wait for the process to exit.
StopAtOnce(o) ==
  /\ At(o, "grace")
  /\ GoTo(o, "cleanup")
  /\ UNCHANGED <<tunnelVars, osVars, managerVars, pc, closed, panicked, check>>

StopDone(o) ==
  /\ At(o, "grace")
  /\ req[o].done \in closed
  /\ GoTo(o, "cleanup")
  /\ UNCHANGED <<tunnelVars, osVars, managerVars, pc, closed, panicked, check>>

\* Nobody will close the channel that the request waits for.
Deserted(o) == pc[req[o].cmd] = "ended" /\ req[o].done \notin closed

\* Five seconds are ample for a process that heeds SIGINT and for its waiting
\* goroutine, unless that goroutine closed another channel than this one.
StopTimeout(o) ==
  /\ At(o, "grace")
  /\ env.stubborn \/ Deserted(o)
  /\ Signal(req[o].cmd, "kill")
  /\ GoTo(o, "cleanup")
  /\ UNCHANGED <<tunnelVars, proc, files, managerVars, pc, closed, panicked,
                 check>>

\* Mutant: the temporary configuration stays.
CleanupNothing(o) ==
  /\ At(o, "cleanup")
  /\ GoTo(o, "finish")
  /\ UNCHANGED <<tunnelVars, osVars, managerVars, pc, closed, panicked, check>>

Cleanup(o) ==
  /\ At(o, "cleanup")
  /\ files' = files \ {tmpConf}
  /\ GoTo(o, "finish")
  /\ UNCHANGED <<tunnelVars, proc, sig, managerVars, pc, closed, panicked, check>>

FinishStop(o) ==
  /\ At(o, "finish") /\ req[o].kind = "stop"
  /\ Finish(o)
  /\ UNCHANGED <<tunnelVars, osVars, managerVars, pc, closed, panicked, check>>

FinishRestart(o) ==
  /\ At(o, "finish") /\ req[o].kind = "restart"
  /\ \E r \in Run : MoveRun(r, "unused", "spawned")
  /\ Finish(o)
  /\ UNCHANGED <<tunnelVars, osVars, managerVars, closed, panicked, check>>

FinishDisconnect(o) ==
  /\ At(o, "finish") /\ req[o].kind = "disconnect"
  /\ status' = "disconnected"
  /\ Finish(o)
  /\ UNCHANGED <<cmd, done, tmpConf, osVars, managerVars, pc, closed, panicked,
                 check>>

RemoveConf(o) ==
  /\ At(o, "finish") /\ req[o].kind = "delete"
  /\ conf' = FALSE
  /\ GoTo(o, "unlist")
  /\ UNCHANGED <<tunnelVars, osVars, listed, pc, closed, panicked, check>>

\* os.Remove fails: Delete returns and leaves the tunnel stopped but listed.
FailRemoveConf(o) ==
  /\ At(o, "finish") /\ req[o].kind = "delete"
  /\ env.faults /\ conf
  /\ Finish(o)
  /\ UNCHANGED <<tunnelVars, osVars, managerVars, pc, closed, panicked, check>>

Unlist(o) ==
  /\ At(o, "unlist")
  /\ \A p \in Request : req[p].kind = "stop" => ~Busy(p)
  /\ listed' = FALSE
  /\ Finish(o)
  /\ UNCHANGED <<tunnelVars, osVars, conf, pc, closed, panicked, check>>

RequestStep(o) ==
  \/ StopBegin(o) \/ Interrupt(o) \/ StopDone(o) \/ StopTimeout(o)
  \/ Cleanup(o)
  \/ FinishStop(o) \/ FinishRestart(o) \/ FinishDisconnect(o)
  \/ RemoveConf(o) \/ FailRemoveConf(o) \/ Unlist(o)

-----------------------------------------------------------------------------
(***************************************************************************)
(* The part of a health check that concerns this tunnel.  The status read  *)
(* before the dial may be stale when the verdict is written after it.      *)
(***************************************************************************)

\* Mutant: unhealthy tunnels are skipped.
UncheckedUnhealthy == {"stopped", "error", "disconnected", "unhealthy"}

\* Mutant: so are the running ones.
UncheckedRunning == {"stopped", "error", "disconnected", "running"}

Unchecked == {"stopped", "error", "disconnected"}

CheckTo(from, to) ==
  /\ check = from
  /\ check' = to

\* checkAll copies the list of tunnels.
Sweep ==
  /\ listed /\ Readable
  /\ CheckTo("idle", "swept")
  /\ UNCHANGED <<tunnelVars, osVars, managerVars, pc, closed, panicked, req>>

ReadStatus ==
  /\ CheckTo("swept", IF status \in Unchecked THEN "idle" ELSE "dialing")
  /\ UNCHANGED <<tunnelVars, osVars, managerVars, pc, closed, panicked, req>>

Dial ==
  /\ \/ PortOpen /\ CheckTo("dialing", "answered")
     \/ (~PortOpen \/ env.faults) /\ CheckTo("dialing", "refused")
  /\ UNCHANGED <<tunnelVars, osVars, managerVars, pc, closed, panicked, req>>

WriteVerdict ==
  /\ \/ CheckTo("answered", "idle") /\ status' = "running"
     \/ CheckTo("refused", "idle") /\ status' = "unhealthy"
  /\ UNCHANGED <<cmd, done, tmpConf, osVars, managerVars, pc, closed, panicked,
                 req>>

CheckStep == ReadStatus \/ Dial \/ WriteVerdict

-----------------------------------------------------------------------------

\* A panic in any goroutine ends the program.
Next ==
  /\ ~panicked
  /\ UNCHANGED env
  /\ \/ \E r \in Run : StartStep(r) \/ WaiterStep(r) \/ Load(r) \/ Exit(r)
     \/ \E o \in Request : RequestStep(o) \/ \E k \in Kind : BeginRequest(o, k)
     \/ Sweep \/ CheckStep

Spec == Init /\ [][Next]_vars

(***************************************************************************)
(* Every goroutine that can go on does so, the ticker of the health        *)
(* checker keeps ticking, and a process that has to exit exits.  Nothing   *)
(* obliges anybody to make a request, or a healthy process to exit.        *)
(***************************************************************************)
Fairness ==
  /\ \A r \in Run :
       /\ WF_vars(~panicked /\ UNCHANGED env /\ StartStep(r))
       /\ WF_vars(~panicked /\ UNCHANGED env /\ WaiterStep(r))
       /\ WF_vars(~panicked /\ UNCHANGED env /\ Load(r))
       /\ WF_vars(~panicked /\ UNCHANGED env /\ MustExit(r) /\ Exit(r))
  /\ \A o \in Request : WF_vars(~panicked /\ UNCHANGED env /\ RequestStep(o))
  /\ WF_vars(~panicked /\ UNCHANGED env /\ (Sweep \/ CheckStep))

FairSpec == Spec /\ Fairness

-----------------------------------------------------------------------------
(***************************************************************************)
(* What holds of every environment.                                        *)
(***************************************************************************)

\* The type of every variable of the tunnel and of what surrounds it.
TypeOK ==
  /\ env \in Environments
  /\ status \in Status
  /\ cmd \in Run \cup {None}
  /\ done \in Run \cup {None}
  /\ tmpConf \in Run \cup {None}
  /\ listed \in BOOLEAN /\ conf \in BOOLEAN
  /\ pc \in [Run -> Place]
  /\ proc \in [Run -> {"none", "loading", "listening", "dead"}]
  /\ sig \in [Run -> {"none", "int", "kill"}]
  /\ files \subseteq Run /\ closed \subseteq Run
  /\ panicked \in BOOLEAN
  /\ req \in [Request ->
       [kind : Kind, cmd : Run \cup {None}, done : Run \cup {None},
        at : {"idle", "stopping", "signal", "grace", "cleanup", "finish",
              "unlist"}]]
  /\ check \in {"idle", "swept", "dialing", "answered", "refused"}

\* A tunnel shown as "starting" has a startTunnel that will settle its status:
\* whatever requests, exits and health checks do in between, no path of
\* startTunnel returns and leaves that status behind.
StartingHasStarter ==
  status = "starting" =>
    \E r \in Run : pc[r] \in Launching \ {"spawned"}

\* When requests come one at a time, a stop that waits has something to wait for:
\* the channel it has copied is closed, or the goroutine of the process it has
\* copied is there to close it, whatever exits and failed starts came before.
\* Otherwise every further stop of the tunnel would take five seconds, which
\* StopAll spends with m.mu held.
StopHasCloser ==
  env.patient => \A o \in Request : At(o, "grace") => ~Deserted(o)

(***************************************************************************)
(* What fairness adds to them.                                             *)
(***************************************************************************)

\* Restart, Disconnect, Delete and StopAll return, even when wireproxy heeds no
\* SIGINT, its waiting goroutine closes another channel, or a Delete has to
\* wait for the lock that a StopAll holds while it waits for the process.
RequestReturns == \A o \in Request : Busy(o) ~> (~Busy(o) \/ panicked)

\* A tunnel does not stay routable without a process: if no exit does so, a
\* health check eventually takes the status "running" from it.
DeadIsUnrouted ==
  (status = "running" /\ \A r \in Run : ~Alive(r)) ~>
    (status # "running" \/ (\E r \in Run : Alive(r)) \/ ~listed \/ panicked)

(***************************************************************************)
(* What holds in a calm environment, where requests come one at a time and *)
(* wireproxy only exits, promptly, when it is told to.                     *)
(***************************************************************************)

Calm == ~env.faults /\ ~env.stubborn /\ env.patient

\* No done channel is closed twice, which would end the program (manager.go,
\* the last line of startTunnel's waiting goroutine).
NoPanic == Calm => ~panicked

\* At most one wireproxy is alive, and it is the one stopTunnel would stop, or
\* the one a startTunnel is about to publish: none is orphaned.
NoOrphan ==
  Calm => \A r \in Run : Alive(r) => cmd = r \/ pc[r] = "launched"

\* Only the temporary configuration of the current run is on the disk: it is
\* removed by the stopTunnel before each restart.
NoTempLeak ==
  Calm /\ Settled => files \subseteq {tmpConf}

\* A wireproxy that accepts connections is eventually routed to, also after a
\* health check that came too early called the tunnel unhealthy.
LiveIsRouted ==
  Calm /\ PortOpen ~> (status = "running" \/ ~PortOpen \/ ~listed)

(***************************************************************************)
(* What the documentation says, and what does not hold when requests come  *)
(* while a start is under way, even if wireproxy is well behaved.          *)
(***************************************************************************)

\* "clean start/stop/restart of individual tunnels or all at once" (README.md,
\* Features): no sequence of them ends the program.
CleanRestarts == ~panicked

\* "Disconnect stops the wireproxy process but keeps the .conf file."
\* (manager.go, the comment of Disconnect)
DisconnectStops ==
  [][\A o \in Request :
       (req[o].kind = "disconnect" /\ Busy(o) /\ ~Busy(o)') =>
         (\A r \in Run : ~Alive(r))']_vars
=============================================================================
