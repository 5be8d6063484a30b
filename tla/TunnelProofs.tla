---------------------------- MODULE TunnelProofs ----------------------------
(***************************************************************************)
(* Theorems about Tunnel, for every number of runs and requests: first     *)
(* what holds in every environment (Inv), then what holds when requests    *)
(* come one by one (Served), and when wireproxy also does as it is told    *)
(* (Careful).  In each part the steps of Next are taken up by their actor: *)
(* a startTunnel, its waiting goroutine, the process, a request, the       *)
(* health checker.                                                         *)
(***************************************************************************)
EXTENDS Tunnel, TLAPS

\* The goroutine that waits for a process finds a channel to close: t.done is
\* set before the process is started and never reset.
DoneMade ==
  (\E r \in Run :
     pc[r] \in {"registered", "launched", "waiting", "reaped", "recorded"})
       => done # None

\* cmd is cleared by the goroutine that waits for it, before that returns.
CmdHasWaiter == \A r \in Run : cmd = r => pc[r] \in {"waiting", "reaped"}

Inv == TypeOK /\ DoneMade /\ StartingHasStarter /\ CmdHasWaiter

ReqType ==
  [kind : Kind, cmd : Run \cup {None}, done : Run \cup {None},
   at : {"idle", "stopping", "signal", "grace", "cleanup", "finish",
         "unlist"}]

LEMMA InitInv == Init => Inv
<1> SUFFICES ASSUME Init PROVE Inv
  OBVIOUS
<1> PICK r \in Run : pc = [q \in Run |-> IF q = r THEN "spawned" ELSE "unused"]
  BY DEF Init
<1>1. pc \in [Run -> Place]
  BY DEF Place, Launching
<1>2. req \in [Request -> ReqType]
  BY DEF Init, Idle, Kind, ReqType
<1>3. TypeOK
  BY <1>1, <1>2 DEF Init, TypeOK, Status, ReqType
<1>4. DoneMade
  BY DEF DoneMade
<1>5. StartingHasStarter /\ CmdHasWaiter
  BY TunnelAssumption DEF Init, StartingHasStarter, CmdHasWaiter
<1> QED  BY <1>3, <1>4, <1>5 DEF Inv

\* startTunnel.
LEMMA StartStepInv ==
  ASSUME Inv, UNCHANGED env, NEW r \in Run, StartStep(r)
  PROVE  Inv'
<1> USE TunnelAssumption DEF Inv, TypeOK, DoneMade, StartingHasStarter,
      CmdHasWaiter, Status, Place, Launching,
      tunnelVars, osVars, managerVars, MoveRun
<1>1. CASE BeginStart(r)
  BY <1>1 DEF BeginStart
<1>2. CASE WriteConfig(r)
  BY <1>2 DEF WriteConfig
<1>3. CASE FailConfig(r)
  BY <1>3 DEF FailConfig
<1>4. CASE Register(r)
  BY <1>4 DEF Register
<1>5. CASE StartProcess(r)
  BY <1>5 DEF StartProcess
<1>6. CASE FailProcess(r)
  BY <1>6 DEF FailProcess
<1>7. CASE PublishRun(r)
  BY <1>7 DEF PublishRun
<1> QED  BY <1>1, <1>2, <1>3, <1>4, <1>5, <1>6, <1>7
  DEF StartStep

\* The goroutine that waits for the process.
LEMMA WaiterStepInv ==
  ASSUME Inv, UNCHANGED env, NEW r \in Run, WaiterStep(r)
  PROVE  Inv'
<1> USE TunnelAssumption DEF Inv, TypeOK, DoneMade, StartingHasStarter,
      CmdHasWaiter, Status, Place, Launching,
      tunnelVars, osVars, managerVars, MoveRun
<1>1. CASE ReapProcess(r)
  BY <1>1 DEF ReapProcess
<1>2. CASE RecordExit(r)
  BY <1>2 DEF RecordExit, ExitStatus
<1>3. CASE CloseDone(r)
  BY <1>3 DEF CloseDone, ChannelToClose
<1> QED  BY <1>1, <1>2, <1>3
  DEF WaiterStep

\* wireproxy.
LEMMA ProcessStepInv ==
  ASSUME Inv, UNCHANGED env, NEW r \in Run, Load(r) \/ Exit(r)
  PROVE  Inv'
<1> USE TunnelAssumption DEF Inv, TypeOK, DoneMade, StartingHasStarter,
      CmdHasWaiter, Status, Place, Launching,
      tunnelVars, osVars, managerVars
<1>1. CASE Load(r)
  BY <1>1 DEF Load
<1>2. CASE Exit(r)
  BY <1>2 DEF Exit
<1> QED  BY <1>1, <1>2

(* A step that leaves the status, cmd, done and the places of the runs alone *)
(* disturbs nothing but types.                                               *)
LEMMA StillInv ==
  ASSUME Inv, TypeOK', UNCHANGED <<status, cmd, done, pc>>
  PROVE  Inv'
BY DEF Inv, DoneMade, StartingHasStarter, CmdHasWaiter

\* A request under way.
LEMMA RequestStepInv ==
  ASSUME Inv, UNCHANGED env, NEW o \in Request, RequestStep(o)
  PROVE  Inv'
<1> TypeOK
  BY DEF Inv
<1> USE DEF TypeOK, ReqType, tunnelVars, osVars, managerVars
<1>1. CASE StopBegin(o)
  <2>1. req' \in [Request -> ReqType]
    BY <1>1 DEF StopBegin, GoTo
  <2>2. /\ status' = "stopped"
        /\ UNCHANGED <<cmd, done, pc>>
    BY <1>1 DEF StopBegin
  <2>3. TypeOK'
    BY <1>1, <2>1, <2>2 DEF StopBegin, Status
  <2>4. (DoneMade /\ StartingHasStarter /\ CmdHasWaiter)'
    BY <2>2 DEF Inv, DoneMade, StartingHasStarter, CmdHasWaiter
  <2> QED  BY <2>3, <2>4 DEF Inv
<1>2. CASE StopDone(o)
  <2>1. req' \in [Request -> ReqType]
    BY <1>2 DEF StopDone, GoTo
  <2>2. TypeOK'
    BY <1>2, <2>1 DEF StopDone
  <2> QED  BY <1>2, <2>2, StillInv DEF StopDone
<1>3. CASE StopTimeout(o)
  <2>1. req' \in [Request -> ReqType]
    BY <1>3 DEF StopTimeout, GoTo
  <2>2. sig' \in [Run -> {"none", "int", "kill"}]
    BY <1>3 DEF StopTimeout, Signal
  <2>3. TypeOK'
    BY <1>3, <2>1, <2>2 DEF StopTimeout
  <2> QED  BY <1>3, <2>3, StillInv DEF StopTimeout
<1>4. CASE Cleanup(o)
  <2>1. req' \in [Request -> ReqType]
    BY <1>4 DEF Cleanup, GoTo
  <2>2. TypeOK'
    BY <1>4, <2>1 DEF Cleanup
  <2> QED  BY <1>4, <2>2, StillInv DEF Cleanup
<1>5. CASE FinishStop(o)
  <2>1. req' \in [Request -> ReqType]
    BY <1>5 DEF FinishStop, Finish, Idle, Kind
  <2>2. TypeOK'
    BY <1>5, <2>1 DEF FinishStop
  <2> QED  BY <1>5, <2>2, StillInv DEF FinishStop
<1>6. CASE FinishRestart(o)
  <2>1. req' \in [Request -> ReqType]
    BY <1>6 DEF FinishRestart, Finish, Idle, Kind
  <2>2. PICK r \in Run : MoveRun(r, "unused", "spawned")
    BY <1>6 DEF FinishRestart
  <2>3. /\ pc[r] = "unused"
        /\ pc' = [pc EXCEPT ![r] = "spawned"]
        /\ UNCHANGED <<status, cmd, done, tmpConf, proc, sig, files, listed,
                      conf, closed, panicked, check>>
    BY <1>6, <2>2 DEF FinishRestart, MoveRun
  <2>4. TypeOK'
    BY <2>1, <2>3 DEF Place, Launching
  <2>5. DoneMade'
    BY <2>3 DEF Inv, DoneMade
  <2>6. StartingHasStarter'
    <3> SUFFICES ASSUME status = "starting"
                 PROVE  \E q \in Run : pc'[q] \in Launching \ {"spawned"}
      BY <2>3 DEF StartingHasStarter
    <3>1. PICK q \in Run : pc[q] \in Launching \ {"spawned"}
      BY DEF Inv, StartingHasStarter
    <3>2. pc'[q] = pc[q]
      BY <2>3, <3>1 DEF Launching
    <3> QED  BY <3>1, <3>2
  <2>7. CmdHasWaiter'
    <3> SUFFICES ASSUME NEW q \in Run, cmd' = q
                 PROVE  pc'[q] \in {"waiting", "reaped"}
      BY DEF CmdHasWaiter
    <3>1. pc[q] \in {"waiting", "reaped"}
      BY <2>3 DEF Inv, CmdHasWaiter
    <3>2. q # r
      BY <2>3, <3>1
    <3>3. pc'[q] = pc[q]
      BY <2>3, <3>2
    <3> QED  BY <3>1, <3>3
  <2> QED  BY <2>4, <2>5, <2>6, <2>7 DEF Inv
<1>7. CASE FinishDisconnect(o)
  <2>1. req' \in [Request -> ReqType]
    BY <1>7 DEF FinishDisconnect, Finish, Idle, Kind
  <2>2. /\ status' = "disconnected"
        /\ UNCHANGED <<cmd, done, pc>>
    BY <1>7 DEF FinishDisconnect
  <2>3. TypeOK'
    BY <1>7, <2>1, <2>2 DEF FinishDisconnect, Status
  <2>4. (DoneMade /\ StartingHasStarter /\ CmdHasWaiter)'
    BY <2>2 DEF Inv, DoneMade, StartingHasStarter, CmdHasWaiter
  <2> QED  BY <2>3, <2>4 DEF Inv
<1>8. CASE RemoveConf(o)
  <2>1. req' \in [Request -> ReqType]
    BY <1>8 DEF RemoveConf, GoTo
  <2>2. TypeOK'
    BY <1>8, <2>1 DEF RemoveConf
  <2> QED  BY <1>8, <2>2, StillInv DEF RemoveConf
<1>9. CASE FailRemoveConf(o)
  <2>1. req' \in [Request -> ReqType]
    BY <1>9 DEF FailRemoveConf, Finish, Idle, Kind
  <2>2. TypeOK'
    BY <1>9, <2>1 DEF FailRemoveConf
  <2> QED  BY <1>9, <2>2, StillInv DEF FailRemoveConf
<1>10. CASE Unlist(o)
  <2>1. req' \in [Request -> ReqType]
    BY <1>10 DEF Unlist, Finish, Idle, Kind
  <2>2. TypeOK'
    BY <1>10, <2>1 DEF Unlist
  <2> QED  BY <1>10, <2>2, StillInv DEF Unlist
<1>11. CASE Interrupt(o)
  <2>1. req' \in [Request -> ReqType]
    BY <1>11 DEF Interrupt, GoTo
  <2>2. sig' \in [Run -> {"none", "int", "kill"}]
    BY <1>11 DEF Interrupt, Signal
  <2>3. TypeOK'
    BY <1>11, <2>1, <2>2 DEF Interrupt
  <2> QED  BY <1>11, <2>3, StillInv DEF Interrupt
<1> QED
  BY <1>1, <1>2, <1>3, <1>4, <1>5, <1>6, <1>7, <1>8, <1>9, <1>10, <1>11
  DEF RequestStep

\* A new request.
LEMMA BeginRequestInv ==
  ASSUME Inv, UNCHANGED env, NEW o \in Request, NEW k \in Kind,
         BeginRequest(o, k)
  PROVE  Inv'
BY DEF BeginRequest, Idle, Inv, TypeOK, DoneMade, StartingHasStarter,
   CmdHasWaiter, tunnelVars, osVars, managerVars

\* The health checker.
LEMMA CheckerInv ==
  ASSUME Inv, UNCHANGED env, Sweep \/ CheckStep
  PROVE  Inv'
<1> USE TunnelAssumption DEF Inv, TypeOK, DoneMade, StartingHasStarter,
      CmdHasWaiter, Status, Place, Launching,
      tunnelVars, osVars, managerVars
<1>1. CASE Sweep
  BY <1>1 DEF Sweep, CheckTo
<1>2. CASE ReadStatus
  BY <1>2 DEF ReadStatus, CheckTo
<1>3. CASE Dial
  BY <1>3 DEF Dial, CheckTo
<1>4. CASE WriteVerdict
  BY <1>4 DEF WriteVerdict, CheckTo
<1> QED  BY <1>1, <1>2, <1>3, <1>4
  DEF CheckStep

LEMMA NextInv == Inv /\ [Next]_vars => Inv'
<1> SUFFICES ASSUME Inv, [Next]_vars PROVE Inv'
  OBVIOUS
<1>1. CASE Next
  BY <1>1, StartStepInv, WaiterStepInv, ProcessStepInv, RequestStepInv,
     BeginRequestInv, CheckerInv DEF Next
<1>2. CASE UNCHANGED vars
  BY <1>2 DEF Inv, TypeOK, DoneMade, StartingHasStarter, CmdHasWaiter, vars,
     tunnelVars, osVars, managerVars
<1> QED  BY <1>1, <1>2

THEOREM Invariance == Spec => []Inv
  BY InitInv, NextInv, PTL DEF Spec

\* Every variable keeps its type; in particular the waiting goroutine never
\* closes a nil channel.
THEOREM TypeCorrect == Spec => []TypeOK
  BY Invariance, PTL DEF Inv

\* A tunnel that is shown as starting has a startTunnel on its way.
THEOREM NoStuckStart == Spec => []StartingHasStarter
  BY Invariance, PTL DEF Inv

-----------------------------------------------------------------------------
(***************************************************************************)
(* The patient environments.  A stop copies cmd and done together, and     *)
(* while it is served nobody starts, so that the channel it waits for      *)
(* stays the current one, which the waiting goroutine will close.          *)
(***************************************************************************)

OneAtATime ==
  /\ \A o, p \in Request : Busy(o) /\ Busy(p) => o = p
  /\ \A o \in Request, r \in Run : Busy(o) => pc[r] \notin Launching

HasCloser(o) ==
  /\ req[o].cmd \in Run /\ req[o].done = done
  /\ \/ pc[req[o].cmd] \in {"waiting", "reaped", "recorded"}
     \/ req[o].done \in closed

Served ==
  env.patient =>
    /\ OneAtATime
    /\ \A o \in Request : req[o].at \in {"signal", "grace"} => HasCloser(o)

LEMMA InitServed == Init => Served
BY DEF Init, Served, OneAtATime, Idle, Busy

LEMMA NextServed == Inv /\ Served /\ [Next]_vars => Served'
<1> SUFFICES ASSUME Inv, Served, [Next]_vars, env.patient, UNCHANGED env
             PROVE  Served'
  BY DEF Next, vars, Served
<1>0. /\ pc \in [Run -> Place] /\ req \in [Request -> ReqType]
      /\ OneAtATime /\ CmdHasWaiter /\ cmd \in Run \cup {None}
      /\ \A o \in Request : req[o].at \in {"signal", "grace"} => HasCloser(o)
  BY DEF Inv, TypeOK, ReqType, Served
<1> USE DEF tunnelVars, osVars, managerVars, MoveRun, Busy, At, Launching, GoTo,
      Finish, Idle
<1>1. ASSUME NEW r \in Run, StartStep(r) PROVE Served'
  <2>1. \A o \in Request : req[o].at = "idle"
    BY <1>0, <1>1
    DEF StartStep, BeginStart, WriteConfig, FailConfig, Register, StartProcess,
      FailProcess, PublishRun, OneAtATime
  <2>2. UNCHANGED req
    BY <1>1
    DEF StartStep, BeginStart, WriteConfig, FailConfig, Register, StartProcess,
      FailProcess, PublishRun
  <2> QED  BY <2>1, <2>2 DEF Served, OneAtATime
<1>2. ASSUME NEW r \in Run, WaiterStep(r) PROVE Served'
  <2>1. CASE ReapProcess(r)
    BY <1>0, <2>1 DEF ReapProcess, Served, OneAtATime, HasCloser, ReqType
  <2>2. CASE RecordExit(r)
    BY <1>0, <2>2 DEF RecordExit, Served, OneAtATime, HasCloser, ReqType
  <2>3. CASE CloseDone(r)
    BY <1>0, <2>3
    DEF CloseDone, ChannelToClose, Served, OneAtATime, HasCloser, ReqType
  <2> QED  BY <1>2, <2>1, <2>2, <2>3 DEF WaiterStep
<1>3. ASSUME NEW r \in Run, Load(r) \/ Exit(r) PROVE Served'
  BY <1>0, <1>3 DEF Load, Exit, Served, OneAtATime, HasCloser
<1>4. ASSUME NEW o \in Request, RequestStep(o) PROVE Served'
  <2>1. \A p \in Request \ {o} : req[p].at = "idle"
    BY <1>0, <1>4
    DEF RequestStep, StopBegin, Interrupt, StopDone, StopTimeout, Cleanup,
      FinishStop, FinishRestart, FinishDisconnect, RemoveConf, FailRemoveConf,
      Unlist, OneAtATime
  <2>2. CASE StopBegin(o)
    <3>1. CASE cmd = None
      BY <1>0, <2>1, <2>2, <3>1
      DEF StopBegin, Served, OneAtATime, HasCloser, ReqType
    <3>2. CASE cmd # None
      <4>1. cmd \in Run /\ pc[cmd] \in {"waiting", "reaped"}
        BY <1>0, <3>2 DEF CmdHasWaiter
      <4>2. /\ UNCHANGED <<pc, done>>
            /\ req' = [req EXCEPT ![o].cmd = cmd, ![o].done = done,
                                ![o].at = "signal"]
        BY <2>2, <3>2 DEF StopBegin
      <4>3. req'[o].cmd = cmd /\ req'[o].done = done
        BY <1>0, <4>2 DEF ReqType
      <4>4. HasCloser(o)'
        BY <4>1, <4>2, <4>3 DEF HasCloser
      <4>5. \A p \in Request \ {o} : req'[p].at = "idle"
        BY <1>0, <2>1, <4>2
      <4>6. \A r \in Run : pc'[r] \notin Launching
        BY <1>0, <2>2, <4>2 DEF StopBegin, OneAtATime
      <4> QED  BY <4>4, <4>5, <4>6 DEF Served, OneAtATime
    <3> QED  BY <3>1, <3>2
  <2>3. CASE Interrupt(o)
    BY <1>0, <2>1, <2>3
    DEF Interrupt, Served, OneAtATime, HasCloser, ReqType
  <2>4. CASE FinishRestart(o)
    <3>1. \A p \in Request : req'[p].at = "idle"
      BY <1>0, <2>1, <2>4 DEF FinishRestart, ReqType
    <3> QED  BY <3>1 DEF Served, OneAtATime
  <2>5. CASE \/ StopDone(o) \/ StopTimeout(o) \/ Cleanup(o) \/ FinishStop(o)
             \/ FinishDisconnect(o) \/ RemoveConf(o) \/ FailRemoveConf(o)
             \/ Unlist(o)
    <3>1. /\ UNCHANGED pc /\ Busy(o)
          /\ req'[o].at \in {"idle", "cleanup", "finish", "unlist"}
          /\ \A p \in Request \ {o} : req'[p] = req[p]
      BY <1>0, <2>5
      DEF StopDone, StopTimeout, Cleanup, FinishStop, FinishDisconnect,
        RemoveConf, FailRemoveConf, Unlist, ReqType
    <3> QED  BY <1>0, <2>1, <3>1 DEF Served, OneAtATime
  <2> QED  BY <1>4, <2>2, <2>3, <2>4, <2>5 DEF RequestStep
<1>5. ASSUME NEW o \in Request, NEW k \in Kind, BeginRequest(o, k)
      PROVE  Served'
  BY <1>0, <1>5 DEF BeginRequest, Settled, Served, OneAtATime, ReqType
<1>6. CASE Sweep \/ CheckStep
  BY <1>0, <1>6
  DEF Sweep, CheckStep, ReadStatus, Dial, WriteVerdict, CheckTo, Served,
    OneAtATime, HasCloser
<1>7. CASE UNCHANGED vars
  BY <1>0, <1>7 DEF vars, Served, OneAtATime, HasCloser
<1> QED  BY <1>1, <1>2, <1>3, <1>4, <1>5, <1>6, <1>7 DEF Next

\* While requests come one by one, a stop that waits has somebody to close the
\* channel it waits for, although startTunnel replaces t.done and the waiting
\* goroutine closes whatever it finds there: also when wireproxy dies by
\* itself, ignores the signal, or does not start.
THEOREM StopsAreAwaited == Spec => []StopHasCloser
<1>1. Served => StopHasCloser
  BY DEF Served, HasCloser, StopHasCloser, Deserted, At
<1> QED  BY <1>1, InitServed, NextServed, Invariance, PTL DEF Spec
-----------------------------------------------------------------------------
(***************************************************************************)
(* The calm environment.  What stopTunnel and the waiting goroutine read   *)
(* at different times is then about the same run, because there is one run *)
(* at a time (Alone), done, tmpConf and cmd are about it (Registered), its *)
(* process only exits while a request waits for that (Obedient), and a     *)
(* request that waited leaves no run behind (Stopped), nor a file (Tidy).  *)
(***************************************************************************)

Active(r) == pc[r] \notin {"unused", "ended"}

Alone ==
  /\ \A q, r \in Run : Active(q) /\ Active(r) => q = r
  /\ \A o, p \in Request : Busy(o) /\ Busy(p) => o = p
  /\ \A o \in Request, r \in Run : Busy(o) => pc[r] \notin Launching

Registered ==
  \A r \in Run :
    /\ pc[r] \in {"registered", "launched", "waiting", "reaped", "recorded"} =>
         done = r /\ tmpConf = r
    /\ pc[r] \in {"waiting", "reaped"} => cmd = r
    /\ r \in closed => pc[r] = "ended"

Obedient ==
  \A r \in Run :
    /\ Alive(r) => pc[r] \in {"launched", "waiting"}
    /\ pc[r] = "launched" => Alive(r)
    /\ sig[r] # "none" => pc[r] = "waiting" /\ Alive(r)
    /\ \/ sig[r] # "none"
       \/ pc[r] = "waiting" /\ ~Alive(r)
       \/ pc[r] \in {"reaped", "recorded"}
       => \E o \in Request : At(o, "grace")

Stopped ==
  \A o \in Request :
    /\ req[o].at \in {"signal", "grace"} =>
         /\ req[o].cmd \in Run /\ req[o].done = req[o].cmd
         /\ pc[req[o].cmd] \in {"waiting", "reaped", "recorded", "ended"}
         /\ pc[req[o].cmd] = "ended" => req[o].cmd \in closed
         /\ \A r \in Run : Active(r) => r = req[o].cmd
    /\ req[o].at \in {"cleanup", "finish", "unlist"} =>
         \A r \in Run : ~Active(r)

Tidy ==
  /\ \A o \in Request : req[o].at \in {"finish", "unlist"} => files = {}
  /\ \A r \in Run :
       /\ pc[r] \in {"spawned", "generating"} => files = {}
       /\ pc[r] = "generated" => files = {r}
       /\ pc[r] \in {"registered", "launched", "waiting"} => r \in files
  /\ (\A r \in Run : pc[r] # "generated") => files \subseteq {tmpConf}

Careful ==
  Calm => ~panicked /\ Alone /\ Registered /\ Obedient /\ Stopped /\ Tidy

LEMMA InitCareful == Init => Careful
<1> SUFFICES ASSUME Init PROVE ~panicked /\ Alone /\ Registered /\ Obedient
                                /\ Stopped /\ Tidy
  BY DEF Careful
<1> PICK r \in Run : pc = [q \in Run |-> IF q = r THEN "spawned" ELSE "unused"]
  BY DEF Init
<1> USE DEF Init, Idle, At, Busy, Alive, Active, Launching
<1>1. ~panicked /\ Alone /\ Registered
  BY DEF Alone, Registered
<1>2. Obedient /\ Stopped /\ Tidy
  BY DEF Obedient, Stopped, Tidy
<1> QED  BY <1>1, <1>2

LEMMA StartCareful ==
  ASSUME Inv, Careful, Calm, UNCHANGED env, ~panicked,
         NEW r \in Run, StartStep(r)
  PROVE  Careful'
<1> USE TunnelAssumption DEF tunnelVars, osVars, managerVars, MoveRun, Active,
      Busy, At, Alive, Launching, GoTo, Finish, Idle
<1>0. /\ pc \in [Run -> Place] /\ req \in [Request -> ReqType]
      /\ proc \in [Run -> {"none", "loading", "listening", "dead"}]
      /\ sig \in [Run -> {"none", "int", "kill"}]
      /\ Alone /\ Registered /\ Obedient /\ Stopped /\ Tidy /\ CmdHasWaiter
      /\ None \notin Run
  BY DEF Inv, TypeOK, ReqType, Careful
<1>1. CASE BeginStart(r)
  <2>1. Alone'
    BY <1>0, <1>1
    DEF BeginStart, ReqType, Alone, Obedient, Registered, Stopped, Tidy
  <2>2. Registered'
    BY <1>0, <1>1
    DEF BeginStart, ReqType, Alone, Obedient, Registered, Stopped, Tidy
  <2>3. Obedient'
    BY <1>0, <1>1
    DEF BeginStart, ReqType, Alone, Obedient, Registered, Stopped, Tidy
  <2>4. Stopped'
    BY <1>0, <1>1
    DEF BeginStart, ReqType, Alone, Obedient, Registered, Stopped, Tidy
  <2>5. Tidy'
    BY <1>0, <1>1
    DEF BeginStart, ReqType, Alone, Obedient, Registered, Stopped, Tidy
  <2>6. ~panicked'
    BY <1>0, <1>1 DEF BeginStart, Registered
  <2> QED  BY <2>1, <2>2, <2>3, <2>4, <2>5, <2>6 DEF Careful
<1>2. CASE WriteConfig(r)
  <2>1. Alone'
    BY <1>0, <1>2
    DEF WriteConfig, ReqType, Alone, Obedient, Registered, Stopped, Tidy
  <2>2. Registered'
    BY <1>0, <1>2
    DEF WriteConfig, ReqType, Alone, Obedient, Registered, Stopped, Tidy
  <2>3. Obedient'
    BY <1>0, <1>2
    DEF WriteConfig, ReqType, Alone, Obedient, Registered, Stopped, Tidy
  <2>4. Stopped'
    BY <1>0, <1>2
    DEF WriteConfig, ReqType, Alone, Obedient, Registered, Stopped, Tidy
  <2>5. Tidy'
    BY <1>0, <1>2
    DEF WriteConfig, ReqType, Alone, Obedient, Registered, Stopped, Tidy
  <2>6. ~panicked'
    BY <1>0, <1>2 DEF WriteConfig, Registered
  <2> QED  BY <2>1, <2>2, <2>3, <2>4, <2>5, <2>6 DEF Careful
<1>3. CASE FailConfig(r)
  <2>1. Alone'
    BY <1>0, <1>3
    DEF FailConfig, ReqType, Alone, Obedient, Registered, Stopped, Tidy
  <2>2. Registered'
    BY <1>0, <1>3
    DEF FailConfig, ReqType, Alone, Obedient, Registered, Stopped, Tidy
  <2>3. Obedient'
    BY <1>0, <1>3
    DEF FailConfig, ReqType, Alone, Obedient, Registered, Stopped, Tidy
  <2>4. Stopped'
    BY <1>0, <1>3
    DEF FailConfig, ReqType, Alone, Obedient, Registered, Stopped, Tidy
  <2>5. Tidy'
    BY <1>0, <1>3
    DEF FailConfig, ReqType, Alone, Obedient, Registered, Stopped, Tidy
  <2>6. ~panicked'
    BY <1>0, <1>3 DEF FailConfig, Registered
  <2> QED  BY <2>1, <2>2, <2>3, <2>4, <2>5, <2>6 DEF Careful
<1>4. CASE Register(r)
  <2>1. Alone'
    BY <1>0, <1>4
    DEF Register, ReqType, Alone, Obedient, Registered, Stopped, Tidy
  <2>2. Registered'
    BY <1>0, <1>4
    DEF Register, ReqType, Alone, Obedient, Registered, Stopped, Tidy
  <2>3. Obedient'
    BY <1>0, <1>4
    DEF Register, ReqType, Alone, Obedient, Registered, Stopped, Tidy
  <2>4. Stopped'
    BY <1>0, <1>4
    DEF Register, ReqType, Alone, Obedient, Registered, Stopped, Tidy
  <2>5. Tidy'
    BY <1>0, <1>4
    DEF Register, ReqType, Alone, Obedient, Registered, Stopped, Tidy
  <2>6. ~panicked'
    BY <1>0, <1>4 DEF Register, Registered
  <2> QED  BY <2>1, <2>2, <2>3, <2>4, <2>5, <2>6 DEF Careful
<1>5. CASE StartProcess(r)
  <2>1. Alone'
    BY <1>0, <1>5
    DEF StartProcess, ReqType, Alone, Obedient, Registered, Stopped, Tidy
  <2>2. Registered'
    BY <1>0, <1>5
    DEF StartProcess, ReqType, Alone, Obedient, Registered, Stopped, Tidy
  <2>3. Obedient'
    BY <1>0, <1>5
    DEF StartProcess, ReqType, Alone, Obedient, Registered, Stopped, Tidy
  <2>4. Stopped'
    BY <1>0, <1>5
    DEF StartProcess, ReqType, Alone, Obedient, Registered, Stopped, Tidy
  <2>5. Tidy'
    BY <1>0, <1>5
    DEF StartProcess, ReqType, Alone, Obedient, Registered, Stopped, Tidy
  <2>6. ~panicked'
    BY <1>0, <1>5 DEF StartProcess, Registered
  <2> QED  BY <2>1, <2>2, <2>3, <2>4, <2>5, <2>6 DEF Careful
<1>6. CASE FailProcess(r)
  <2>1. Alone'
    BY <1>0, <1>6
    DEF FailProcess, ReqType, Alone, Obedient, Registered, Stopped, Tidy
  <2>2. Registered'
    BY <1>0, <1>6
    DEF FailProcess, ReqType, Alone, Obedient, Registered, Stopped, Tidy
  <2>3. Obedient'
    BY <1>0, <1>6
    DEF FailProcess, ReqType, Alone, Obedient, Registered, Stopped, Tidy
  <2>4. Stopped'
    BY <1>0, <1>6
    DEF FailProcess, ReqType, Alone, Obedient, Registered, Stopped, Tidy
  <2>5. Tidy'
    BY <1>0, <1>6
    DEF FailProcess, ReqType, Alone, Obedient, Registered, Stopped, Tidy
  <2>6. ~panicked'
    BY <1>0, <1>6 DEF FailProcess, Registered
  <2> QED  BY <2>1, <2>2, <2>3, <2>4, <2>5, <2>6 DEF Careful
<1>7. CASE PublishRun(r)
  <2>1. Alone'
    BY <1>0, <1>7
    DEF PublishRun, ReqType, Alone, Obedient, Registered, Stopped, Tidy
  <2>2. Registered'
    BY <1>0, <1>7
    DEF PublishRun, ReqType, Alone, Obedient, Registered, Stopped, Tidy
  <2>3. Obedient'
    BY <1>0, <1>7
    DEF PublishRun, ReqType, Alone, Obedient, Registered, Stopped, Tidy
  <2>4. Stopped'
    BY <1>0, <1>7
    DEF PublishRun, ReqType, Alone, Obedient, Registered, Stopped, Tidy
  <2>5. Tidy'
    BY <1>0, <1>7
    DEF PublishRun, ReqType, Alone, Obedient, Registered, Stopped, Tidy
  <2>6. ~panicked'
    BY <1>0, <1>7 DEF PublishRun, Registered
  <2> QED  BY <2>1, <2>2, <2>3, <2>4, <2>5, <2>6 DEF Careful
<1> QED
  BY <1>1, <1>2, <1>3, <1>4, <1>5, <1>6, <1>7 DEF StartStep

LEMMA WaiterCareful ==
  ASSUME Inv, Careful, Calm, UNCHANGED env, ~panicked,
         NEW r \in Run, WaiterStep(r)
  PROVE  Careful'
<1> USE TunnelAssumption DEF tunnelVars, osVars, managerVars, MoveRun, Active,
      Busy, At, Alive, Launching, GoTo, Finish, Idle
<1>0. /\ pc \in [Run -> Place] /\ req \in [Request -> ReqType]
      /\ proc \in [Run -> {"none", "loading", "listening", "dead"}]
      /\ sig \in [Run -> {"none", "int", "kill"}]
      /\ Alone /\ Registered /\ Obedient /\ Stopped /\ Tidy /\ CmdHasWaiter
      /\ None \notin Run
  BY DEF Inv, TypeOK, ReqType, Careful
<1>1. CASE ReapProcess(r)
  <2>1. Alone'
    BY <1>0, <1>1
    DEF ReapProcess, ReqType, Alone, Obedient, Registered, Stopped, Tidy
  <2>2. Registered'
    BY <1>0, <1>1
    DEF ReapProcess, ReqType, Alone, Obedient, Registered, Stopped, Tidy
  <2>3. Obedient'
    <3>1. /\ pc[r] = "waiting" /\ ~Alive(r) /\ sig[r] = "none"
          /\ pc' = [pc EXCEPT ![r] = "reaped"]
          /\ UNCHANGED <<proc, sig, req>>
      BY <1>0, <1>1 DEF ReapProcess, Obedient
    <3>2. \E o \in Request : At(o, "grace")
      BY <1>0, <3>1 DEF Obedient
    <3>3. \A q \in Run \ {r} : ~Active(q)
      BY <1>0, <3>1 DEF Alone
    <3> QED  BY <1>0, <3>1, <3>2, <3>3 DEF Obedient
  <2>4. Stopped'
    BY <1>0, <1>1
    DEF ReapProcess, ReqType, Alone, Obedient, Registered, Stopped, Tidy
  <2>5. Tidy'
    BY <1>0, <1>1
    DEF ReapProcess, ReqType, Alone, Obedient, Registered, Stopped, Tidy
  <2>6. ~panicked'
    BY <1>0, <1>1 DEF ReapProcess, Registered
  <2> QED  BY <2>1, <2>2, <2>3, <2>4, <2>5, <2>6 DEF Careful
<1>2. CASE CloseDone(r)
  <2>1. Alone'
    BY <1>0, <1>2
    DEF CloseDone, ChannelToClose, ReqType, Alone, Obedient, Registered,
      Stopped, Tidy
  <2>2. Registered'
    BY <1>0, <1>2
    DEF CloseDone, ChannelToClose, ReqType, Alone, Obedient, Registered,
      Stopped, Tidy
  <2>3. Obedient'
    BY <1>0, <1>2
    DEF CloseDone, ChannelToClose, ReqType, Alone, Obedient, Registered,
      Stopped, Tidy
  <2>4. Stopped'
    BY <1>0, <1>2
    DEF CloseDone, ChannelToClose, ReqType, Alone, Obedient, Registered,
      Stopped, Tidy
  <2>5. Tidy'
    BY <1>0, <1>2
    DEF CloseDone, ChannelToClose, ReqType, Alone, Obedient, Registered,
      Stopped, Tidy
  <2>6. ~panicked'
    BY <1>0, <1>2 DEF CloseDone, ChannelToClose, Registered
  <2> QED  BY <2>1, <2>2, <2>3, <2>4, <2>5, <2>6 DEF Careful
<1>3. CASE RecordExit(r)
  <2>1. Alone'
    BY <1>0, <1>3
    DEF RecordExit, ReqType, Alone, Obedient, Registered, Stopped, Tidy
  <2>2. Registered'
    BY <1>0, <1>3
    DEF RecordExit, ReqType, Alone, Obedient, Registered, Stopped, Tidy
  <2>3. Obedient'
    <3>1. /\ pc[r] = "reaped" /\ ~Alive(r) /\ sig[r] = "none"
          /\ pc' = [pc EXCEPT ![r] = "recorded"]
          /\ UNCHANGED <<proc, sig, req>>
      BY <1>0, <1>3 DEF RecordExit, Obedient
    <3>2. \E o \in Request : At(o, "grace")
      BY <1>0, <3>1 DEF Obedient
    <3>3. \A q \in Run \ {r} : ~Active(q)
      BY <1>0, <3>1 DEF Alone
    <3> QED  BY <1>0, <3>1, <3>2, <3>3 DEF Obedient
  <2>4. Stopped'
    BY <1>0, <1>3
    DEF RecordExit, ReqType, Alone, Obedient, Registered, Stopped, Tidy
  <2>5. Tidy'
    BY <1>0, <1>3
    DEF RecordExit, ReqType, Alone, Obedient, Registered, Stopped, Tidy
  <2>6. ~panicked'
    BY <1>0, <1>3 DEF RecordExit, Registered
  <2> QED  BY <2>1, <2>2, <2>3, <2>4, <2>5, <2>6 DEF Careful
<1> QED
  BY <1>1, <1>2, <1>3 DEF WaiterStep

LEMMA ProcessCareful ==
  ASSUME Inv, Careful, Calm, UNCHANGED env, ~panicked,
         NEW r \in Run, Load(r) \/ Exit(r)
  PROVE  Careful'
<1> USE TunnelAssumption DEF tunnelVars, osVars, managerVars, MoveRun, Active,
      Busy, At, Alive, Launching, GoTo, Finish, Idle
<1>0. /\ pc \in [Run -> Place] /\ req \in [Request -> ReqType]
      /\ proc \in [Run -> {"none", "loading", "listening", "dead"}]
      /\ sig \in [Run -> {"none", "int", "kill"}]
      /\ Alone /\ Registered /\ Obedient /\ Stopped /\ Tidy /\ CmdHasWaiter
      /\ None \notin Run
  BY DEF Inv, TypeOK, ReqType, Careful
<1>1. CASE Load(r)
  <2>1. Alone'
    BY <1>0, <1>1
    DEF Load, CanListen, PortOpen, ReqType, Alone, Obedient, Registered,
      Stopped, Tidy
  <2>2. Registered'
    BY <1>0, <1>1
    DEF Load, CanListen, PortOpen, ReqType, Alone, Obedient, Registered,
      Stopped, Tidy
  <2>3. Obedient'
    BY <1>0, <1>1
    DEF Load, CanListen, PortOpen, ReqType, Alone, Obedient, Registered,
      Stopped, Tidy
  <2>4. Stopped'
    BY <1>0, <1>1
    DEF Load, CanListen, PortOpen, ReqType, Alone, Obedient, Registered,
      Stopped, Tidy
  <2>5. Tidy'
    BY <1>0, <1>1
    DEF Load, CanListen, PortOpen, ReqType, Alone, Obedient, Registered,
      Stopped, Tidy
  <2>6. ~panicked'
    BY <1>0, <1>1 DEF Load, CanListen, PortOpen, Registered
  <2> QED  BY <2>1, <2>2, <2>3, <2>4, <2>5, <2>6 DEF Careful
<1>2. CASE Exit(r)
  <2>1. Alone'
    BY <1>0, <1>2
    DEF Exit, Calm, ReqType, Alone, Obedient, Registered, Stopped, Tidy
  <2>2. Registered'
    BY <1>0, <1>2
    DEF Exit, Calm, ReqType, Alone, Obedient, Registered, Stopped, Tidy
  <2>3. Obedient'
    BY <1>0, <1>2
    DEF Exit, Calm, ReqType, Alone, Obedient, Registered, Stopped, Tidy
  <2>4. Stopped'
    BY <1>0, <1>2
    DEF Exit, Calm, ReqType, Alone, Obedient, Registered, Stopped, Tidy
  <2>5. Tidy'
    BY <1>0, <1>2
    DEF Exit, Calm, ReqType, Alone, Obedient, Registered, Stopped, Tidy
  <2>6. ~panicked'
    BY <1>0, <1>2 DEF Exit, Calm, Registered
  <2> QED  BY <2>1, <2>2, <2>3, <2>4, <2>5, <2>6 DEF Careful
<1> QED
  BY <1>1, <1>2

LEMMA RequestCareful ==
  ASSUME Inv, Careful, Calm, UNCHANGED env, ~panicked,
         NEW o \in Request, RequestStep(o)
  PROVE  Careful'
<1> USE TunnelAssumption DEF tunnelVars, osVars, managerVars, MoveRun, Active,
      Busy, At, Alive, Launching, GoTo, Finish, Idle
<1>0. /\ pc \in [Run -> Place] /\ req \in [Request -> ReqType]
      /\ proc \in [Run -> {"none", "loading", "listening", "dead"}]
      /\ sig \in [Run -> {"none", "int", "kill"}]
      /\ Alone /\ Registered /\ Obedient /\ Stopped /\ Tidy /\ CmdHasWaiter
      /\ None \notin Run
  BY DEF Inv, TypeOK, ReqType, Careful
<1>1. CASE StopBegin(o)
  <2>1. Alone'
    BY <1>0, <1>1
    DEF StopBegin, CmdHasWaiter, ReqType, Alone, Obedient, Registered,
      Stopped, Tidy
  <2>2. Registered'
    BY <1>0, <1>1
    DEF StopBegin, CmdHasWaiter, ReqType, Alone, Obedient, Registered,
      Stopped, Tidy
  <2>3. Obedient'
    BY <1>0, <1>1
    DEF StopBegin, CmdHasWaiter, ReqType, Alone, Obedient, Registered,
      Stopped, Tidy
  <2>4. Stopped'
    <3>1. CASE cmd = None
      <4>1. \A r \in Run : ~Active(r)
        BY <1>0, <1>1, <3>1 DEF StopBegin, Alone, Registered, Obedient, Place
      <4>2. UNCHANGED pc /\ req' = [req EXCEPT ![o].at = "cleanup"]
        BY <1>1, <3>1 DEF StopBegin
      <4> QED  BY <1>0, <1>1, <4>1, <4>2 DEF StopBegin, Alone, Stopped, ReqType
    <3>2. CASE cmd # None
      <4>1. /\ cmd \in Run /\ done = cmd
            /\ pc[cmd] \in {"waiting", "reaped"}
        BY <1>0, <3>2 DEF Inv, TypeOK, CmdHasWaiter, Registered
      <4>2. \A r \in Run : Active(r) => r = cmd
        BY <1>0, <4>1 DEF Alone
      <4>3. /\ UNCHANGED pc
            /\ req' = [req EXCEPT ![o].cmd = cmd, ![o].done = done,
                                ![o].at = "signal"]
        BY <1>1, <3>2 DEF StopBegin
      <4>4. /\ req'[o].cmd = cmd /\ req'[o].done = done
            /\ req'[o].at = "signal"
            /\ \A p \in Request \ {o} : req'[p] = req[p]
        BY <1>0, <4>3 DEF ReqType
      <4>5. \A p \in Request \ {o} : req[p].at = "idle"
        BY <1>0, <1>1 DEF StopBegin, Alone
      <4> QED  BY <4>1, <4>2, <4>3, <4>4, <4>5 DEF Stopped
    <3> QED  BY <3>1, <3>2
  <2>5. Tidy'
    BY <1>0, <1>1 DEF StopBegin, ReqType, Tidy
  <2>6. ~panicked'
    BY <1>0, <1>1 DEF StopBegin
  <2> QED  BY <2>1, <2>2, <2>3, <2>4, <2>5, <2>6 DEF Careful
<1>2. CASE StopDone(o)
  <2>1. Alone'
    BY <1>0, <1>2
    DEF StopDone, ReqType, Alone, Obedient, Registered, Stopped, Tidy
  <2>2. Registered'
    BY <1>0, <1>2
    DEF StopDone, ReqType, Alone, Obedient, Registered, Stopped, Tidy
  <2>3. Obedient'
    BY <1>0, <1>2
    DEF StopDone, ReqType, Alone, Obedient, Registered, Stopped, Tidy
  <2>4. Stopped'
    BY <1>0, <1>2
    DEF StopDone, ReqType, Alone, Obedient, Registered, Stopped, Tidy
  <2>5. Tidy'
    BY <1>0, <1>2
    DEF StopDone, ReqType, Alone, Obedient, Registered, Stopped, Tidy
  <2>6. ~panicked'
    BY <1>0, <1>2 DEF StopDone, Registered
  <2> QED  BY <2>1, <2>2, <2>3, <2>4, <2>5, <2>6 DEF Careful
<1>3. CASE StopTimeout(o)
  <2>1. Alone'
    BY <1>0, <1>3
    DEF StopTimeout, Deserted, Calm, ReqType, Alone, Obedient, Registered,
      Stopped, Tidy
  <2>2. Registered'
    BY <1>0, <1>3
    DEF StopTimeout, Deserted, Calm, ReqType, Alone, Obedient, Registered,
      Stopped, Tidy
  <2>3. Obedient'
    BY <1>0, <1>3
    DEF StopTimeout, Deserted, Calm, ReqType, Alone, Obedient, Registered,
      Stopped, Tidy
  <2>4. Stopped'
    BY <1>0, <1>3
    DEF StopTimeout, Deserted, Calm, ReqType, Alone, Obedient, Registered,
      Stopped, Tidy
  <2>5. Tidy'
    BY <1>0, <1>3
    DEF StopTimeout, Deserted, Calm, ReqType, Alone, Obedient, Registered,
      Stopped, Tidy
  <2>6. ~panicked'
    BY <1>0, <1>3 DEF StopTimeout, Deserted, Calm, Registered
  <2> QED  BY <2>1, <2>2, <2>3, <2>4, <2>5, <2>6 DEF Careful
<1>4. CASE Cleanup(o)
  <2>1. Alone'
    BY <1>0, <1>4
    DEF Cleanup, ReqType, Alone, Obedient, Registered, Stopped, Tidy
  <2>2. Registered'
    BY <1>0, <1>4
    DEF Cleanup, ReqType, Alone, Obedient, Registered, Stopped, Tidy
  <2>3. Obedient'
    BY <1>0, <1>4
    DEF Cleanup, ReqType, Alone, Obedient, Registered, Stopped, Tidy
  <2>4. Stopped'
    BY <1>0, <1>4
    DEF Cleanup, ReqType, Alone, Obedient, Registered, Stopped, Tidy
  <2>5. Tidy'
    BY <1>0, <1>4
    DEF Cleanup, ReqType, Alone, Obedient, Registered, Stopped, Tidy
  <2>6. ~panicked'
    BY <1>0, <1>4 DEF Cleanup, Registered
  <2> QED  BY <2>1, <2>2, <2>3, <2>4, <2>5, <2>6 DEF Careful
<1>5. CASE FinishStop(o)
  <2>1. Alone'
    BY <1>0, <1>5
    DEF FinishStop, ReqType, Alone, Obedient, Registered, Stopped, Tidy
  <2>2. Registered'
    BY <1>0, <1>5
    DEF FinishStop, ReqType, Alone, Obedient, Registered, Stopped, Tidy
  <2>3. Obedient'
    BY <1>0, <1>5
    DEF FinishStop, ReqType, Alone, Obedient, Registered, Stopped, Tidy
  <2>4. Stopped'
    BY <1>0, <1>5
    DEF FinishStop, ReqType, Alone, Obedient, Registered, Stopped, Tidy
  <2>5. Tidy'
    BY <1>0, <1>5
    DEF FinishStop, ReqType, Alone, Obedient, Registered, Stopped, Tidy
  <2>6. ~panicked'
    BY <1>0, <1>5 DEF FinishStop, Registered
  <2> QED  BY <2>1, <2>2, <2>3, <2>4, <2>5, <2>6 DEF Careful
<1>6. CASE FinishRestart(o)
  <2>1. Alone'
    BY <1>0, <1>6
    DEF FinishRestart, ReqType, Alone, Obedient, Registered, Stopped, Tidy
  <2>2. Registered'
    BY <1>0, <1>6
    DEF FinishRestart, ReqType, Alone, Obedient, Registered, Stopped, Tidy
  <2>3. Obedient'
    BY <1>0, <1>6
    DEF FinishRestart, ReqType, Alone, Obedient, Registered, Stopped, Tidy
  <2>4. Stopped'
    BY <1>0, <1>6
    DEF FinishRestart, ReqType, Alone, Obedient, Registered, Stopped, Tidy
  <2>5. Tidy'
    BY <1>0, <1>6
    DEF FinishRestart, ReqType, Alone, Obedient, Registered, Stopped, Tidy
  <2>6. ~panicked'
    BY <1>0, <1>6 DEF FinishRestart, Registered
  <2> QED  BY <2>1, <2>2, <2>3, <2>4, <2>5, <2>6 DEF Careful
<1>7. CASE FinishDisconnect(o)
  <2>1. Alone'
    BY <1>0, <1>7
    DEF FinishDisconnect, ReqType, Alone, Obedient, Registered, Stopped, Tidy
  <2>2. Registered'
    BY <1>0, <1>7
    DEF FinishDisconnect, ReqType, Alone, Obedient, Registered, Stopped, Tidy
  <2>3. Obedient'
    BY <1>0, <1>7
    DEF FinishDisconnect, ReqType, Alone, Obedient, Registered, Stopped, Tidy
  <2>4. Stopped'
    BY <1>0, <1>7
    DEF FinishDisconnect, ReqType, Alone, Obedient, Registered, Stopped, Tidy
  <2>5. Tidy'
    BY <1>0, <1>7
    DEF FinishDisconnect, ReqType, Alone, Obedient, Registered, Stopped, Tidy
  <2>6. ~panicked'
    BY <1>0, <1>7 DEF FinishDisconnect, Registered
  <2> QED  BY <2>1, <2>2, <2>3, <2>4, <2>5, <2>6 DEF Careful
<1>8. CASE RemoveConf(o)
  <2>1. Alone'
    BY <1>0, <1>8
    DEF RemoveConf, ReqType, Alone, Obedient, Registered, Stopped, Tidy
  <2>2. Registered'
    BY <1>0, <1>8
    DEF RemoveConf, ReqType, Alone, Obedient, Registered, Stopped, Tidy
  <2>3. Obedient'
    BY <1>0, <1>8
    DEF RemoveConf, ReqType, Alone, Obedient, Registered, Stopped, Tidy
  <2>4. Stopped'
    BY <1>0, <1>8
    DEF RemoveConf, ReqType, Alone, Obedient, Registered, Stopped, Tidy
  <2>5. Tidy'
    BY <1>0, <1>8
    DEF RemoveConf, ReqType, Alone, Obedient, Registered, Stopped, Tidy
  <2>6. ~panicked'
    BY <1>0, <1>8 DEF RemoveConf, Registered
  <2> QED  BY <2>1, <2>2, <2>3, <2>4, <2>5, <2>6 DEF Careful
<1>9. CASE FailRemoveConf(o)
  <2>1. Alone'
    BY <1>0, <1>9
    DEF FailRemoveConf, ReqType, Alone, Obedient, Registered, Stopped, Tidy
  <2>2. Registered'
    BY <1>0, <1>9
    DEF FailRemoveConf, ReqType, Alone, Obedient, Registered, Stopped, Tidy
  <2>3. Obedient'
    BY <1>0, <1>9
    DEF FailRemoveConf, ReqType, Alone, Obedient, Registered, Stopped, Tidy
  <2>4. Stopped'
    BY <1>0, <1>9
    DEF FailRemoveConf, ReqType, Alone, Obedient, Registered, Stopped, Tidy
  <2>5. Tidy'
    BY <1>0, <1>9
    DEF FailRemoveConf, ReqType, Alone, Obedient, Registered, Stopped, Tidy
  <2>6. ~panicked'
    BY <1>0, <1>9 DEF FailRemoveConf, Registered
  <2> QED  BY <2>1, <2>2, <2>3, <2>4, <2>5, <2>6 DEF Careful
<1>10. CASE Unlist(o)
  <2>1. Alone'
    BY <1>0, <1>10
    DEF Unlist, ReqType, Alone, Obedient, Registered, Stopped, Tidy
  <2>2. Registered'
    BY <1>0, <1>10
    DEF Unlist, ReqType, Alone, Obedient, Registered, Stopped, Tidy
  <2>3. Obedient'
    BY <1>0, <1>10
    DEF Unlist, ReqType, Alone, Obedient, Registered, Stopped, Tidy
  <2>4. Stopped'
    BY <1>0, <1>10
    DEF Unlist, ReqType, Alone, Obedient, Registered, Stopped, Tidy
  <2>5. Tidy'
    BY <1>0, <1>10
    DEF Unlist, ReqType, Alone, Obedient, Registered, Stopped, Tidy
  <2>6. ~panicked'
    BY <1>0, <1>10 DEF Unlist, Registered
  <2> QED  BY <2>1, <2>2, <2>3, <2>4, <2>5, <2>6 DEF Careful
<1>11. CASE Interrupt(o)
  <2>1. Alone'
    BY <1>0, <1>11
    DEF Interrupt, Signal, ReqType, Alone, Obedient, Registered, Stopped, Tidy
  <2>2. Registered'
    BY <1>0, <1>11
    DEF Interrupt, Signal, ReqType, Alone, Obedient, Registered, Stopped, Tidy
  <2>3. Obedient'
    BY <1>0, <1>11
    DEF Interrupt, Signal, ReqType, Alone, Obedient, Registered, Stopped, Tidy
  <2>4. Stopped'
    BY <1>0, <1>11
    DEF Interrupt, Signal, ReqType, Alone, Obedient, Registered, Stopped, Tidy
  <2>5. Tidy'
    BY <1>0, <1>11
    DEF Interrupt, Signal, ReqType, Alone, Obedient, Registered, Stopped, Tidy
  <2>6. ~panicked'
    BY <1>0, <1>11 DEF Interrupt
  <2> QED  BY <2>1, <2>2, <2>3, <2>4, <2>5, <2>6 DEF Careful
<1> QED
  BY <1>1, <1>2, <1>3, <1>4, <1>5, <1>6, <1>7, <1>8, <1>9, <1>10, <1>11
  DEF RequestStep

LEMMA BeginRequestCareful ==
  ASSUME Inv, Careful, Calm, UNCHANGED env, ~panicked,
         NEW o \in Request, NEW k \in Kind, BeginRequest(o, k)
  PROVE  Careful'
<1> USE TunnelAssumption DEF tunnelVars, osVars, managerVars, MoveRun, Active,
      Busy, At, Alive, Launching, GoTo, Finish, Idle
<1>0. /\ pc \in [Run -> Place] /\ req \in [Request -> ReqType]
      /\ proc \in [Run -> {"none", "loading", "listening", "dead"}]
      /\ sig \in [Run -> {"none", "int", "kill"}]
      /\ Alone /\ Registered /\ Obedient /\ Stopped /\ Tidy /\ CmdHasWaiter
      /\ None \notin Run
  BY DEF Inv, TypeOK, ReqType, Careful
<1>1. CASE BeginRequest(o, k)
  <2>1. Alone'
    BY <1>0, <1>1
    DEF BeginRequest, Calm, Settled, ReqType, Alone, Obedient, Registered,
      Stopped, Tidy
  <2>2. Registered'
    BY <1>0, <1>1
    DEF BeginRequest, Calm, Settled, ReqType, Alone, Obedient, Registered,
      Stopped, Tidy
  <2>3. Obedient'
    BY <1>0, <1>1
    DEF BeginRequest, Calm, Settled, ReqType, Alone, Obedient, Registered,
      Stopped, Tidy
  <2>4. Stopped'
    BY <1>0, <1>1
    DEF BeginRequest, Calm, Settled, ReqType, Alone, Obedient, Registered,
      Stopped, Tidy
  <2>5. Tidy'
    BY <1>0, <1>1
    DEF BeginRequest, Calm, Settled, ReqType, Alone, Obedient, Registered,
      Stopped, Tidy
  <2>6. ~panicked'
    BY <1>0, <1>1 DEF BeginRequest, Calm, Settled, Registered
  <2> QED  BY <2>1, <2>2, <2>3, <2>4, <2>5, <2>6 DEF Careful
<1> QED
  BY <1>1

LEMMA CheckerCareful ==
  ASSUME Inv, Careful, Calm, UNCHANGED env, ~panicked, Sweep \/ CheckStep
  PROVE  Careful'
<1> USE TunnelAssumption DEF tunnelVars, osVars, managerVars, MoveRun, Active,
      Busy, At, Alive, Launching, GoTo, Finish, Idle
<1>0. /\ pc \in [Run -> Place] /\ req \in [Request -> ReqType]
      /\ proc \in [Run -> {"none", "loading", "listening", "dead"}]
      /\ sig \in [Run -> {"none", "int", "kill"}]
      /\ Alone /\ Registered /\ Obedient /\ Stopped /\ Tidy /\ CmdHasWaiter
      /\ None \notin Run
  BY DEF Inv, TypeOK, ReqType, Careful
<1>1. CASE Sweep
  <2>1. Alone'
    BY <1>0, <1>1
    DEF Sweep, CheckTo, ReqType, Alone, Obedient, Registered, Stopped, Tidy
  <2>2. Registered'
    BY <1>0, <1>1
    DEF Sweep, CheckTo, ReqType, Alone, Obedient, Registered, Stopped, Tidy
  <2>3. Obedient'
    BY <1>0, <1>1
    DEF Sweep, CheckTo, ReqType, Alone, Obedient, Registered, Stopped, Tidy
  <2>4. Stopped'
    BY <1>0, <1>1
    DEF Sweep, CheckTo, ReqType, Alone, Obedient, Registered, Stopped, Tidy
  <2>5. Tidy'
    BY <1>0, <1>1
    DEF Sweep, CheckTo, ReqType, Alone, Obedient, Registered, Stopped, Tidy
  <2>6. ~panicked'
    BY <1>0, <1>1 DEF Sweep, CheckTo, Registered
  <2> QED  BY <2>1, <2>2, <2>3, <2>4, <2>5, <2>6 DEF Careful
<1>2. CASE CheckStep
  <2>1. Alone'
    BY <1>0, <1>2
    DEF CheckStep, ReadStatus, Dial, WriteVerdict, CheckTo, ReqType, Alone,
      Obedient, Registered, Stopped, Tidy
  <2>2. Registered'
    BY <1>0, <1>2
    DEF CheckStep, ReadStatus, Dial, WriteVerdict, CheckTo, ReqType, Alone,
      Obedient, Registered, Stopped, Tidy
  <2>3. Obedient'
    BY <1>0, <1>2
    DEF CheckStep, ReadStatus, Dial, WriteVerdict, CheckTo, ReqType, Alone,
      Obedient, Registered, Stopped, Tidy
  <2>4. Stopped'
    BY <1>0, <1>2
    DEF CheckStep, ReadStatus, Dial, WriteVerdict, CheckTo, ReqType, Alone,
      Obedient, Registered, Stopped, Tidy
  <2>5. Tidy'
    BY <1>0, <1>2
    DEF CheckStep, ReadStatus, Dial, WriteVerdict, CheckTo, ReqType, Alone,
      Obedient, Registered, Stopped, Tidy
  <2>6. ~panicked'
    BY <1>0, <1>2
    DEF CheckStep, ReadStatus, Dial, WriteVerdict, CheckTo, Registered
  <2> QED  BY <2>1, <2>2, <2>3, <2>4, <2>5, <2>6 DEF Careful
<1> QED
  BY <1>1, <1>2

LEMMA NextCareful == Inv /\ Careful /\ [Next]_vars => Careful'
<1> SUFFICES ASSUME Inv, Careful, [Next]_vars PROVE Careful'
  OBVIOUS
<1>1. CASE UNCHANGED vars
  BY <1>1 DEF vars, tunnelVars, osVars, managerVars, Careful, Calm, Alone,
     Registered, Obedient, Stopped, Tidy, Active, Busy, At, Alive
<1>2. CASE Next /\ Calm
  BY <1>2, StartCareful, WaiterCareful, ProcessCareful, RequestCareful,
     BeginRequestCareful, CheckerCareful DEF Next
<1>3. CASE Next /\ ~Calm
  <2>1. ~Calm'
    BY <1>3 DEF Next, Calm
  <2> QED  BY <2>1 DEF Careful
<1> QED  BY <1>1, <1>2, <1>3

THEOREM CarefulInvariance == Spec => []Careful
  BY InitCareful, NextCareful, Invariance, PTL DEF Spec

\* In a calm environment the program does not panic: the channel that a
\* waiting goroutine closes is its own, although it reads t.done unlocked.
THEOREM NoDoubleClose == Spec => []NoPanic
<1>1. Careful => NoPanic
  BY DEF Careful, NoPanic
<1> QED  BY <1>1, CarefulInvariance, PTL

\* In a calm environment every live wireproxy is the one stopTunnel would
\* stop, or about to become it, through any number of restarts.
THEOREM NoneOrphaned == Spec => []NoOrphan
<1>1. Careful => NoOrphan
  BY DEF Careful, NoOrphan, Obedient, Registered
<1> QED  BY <1>1, CarefulInvariance, PTL

\* In a calm environment at most the temporary configuration of the current
\* run is on the disk, however many runs there have been.
THEOREM OneTempFile == Spec => []NoTempLeak
<1>1. Careful => NoTempLeak
  BY DEF Careful, NoTempLeak, Settled, Tidy, Launching
<1> QED  BY <1>1, CarefulInvariance, PTL
=============================================================================
