# TLA+ models of wg-proxy

wg-proxy turns a directory of WireGuard configurations into a pool of SOCKS5
backends, one `wireproxy` process each, offers the pool as SOCKS5 proxies, and
runs a WireGuard server whose clients may be routed through it. These modules
model its Go code (`src/internal`), TLC checks them on small instances, and
TLAPS proves every safety property of theirs for all instances.

`*Proofs` modules hold the theorems, `MC*` modules what TLC runs on.
`PROJECT.json` ties every definition to the lines it models, every property to
a change of the code that it would detect, and every hazard to its properties.

## The system

| Component | State | Operations | Hard because |
|---|---|---|---|
| one tunnel (`tunnels/manager.go`) | status, cmd, done channel, temporary configuration; a child process | start, stop, restart, disconnect, delete, a goroutine that waits for the process | a start runs in a goroutine of its own and gives up `t.mu` around the process start; the waiter reads `t.done` unlocked; the process exits when it likes |
| tunnel manager (`tunnels/manager.go`) | list of tunnels, next port, directory of `.conf` files | load, import, restart, disconnect, delete | look-up and change are separate critical sections; files and list change one after the other; crashes |
| health checker (`health/checker.go`) | statistics, gold pool, exit addresses; writes tunnel status | periodic checks, deep checks every fifth time | status is read, the port dialled, status written; deep checks overlap |
| retrying proxy (`proxy/retry.go`) | a shared index; local state of each connection | SOCKS5 handshake, up to five backends, relay | five failure paths for each attempt; shared index; lists that differ in length |
| round-robin and country proxies (`proxy/server.go`) | counters, listeners, country map | SOCKS5 handshake, one backend, relay | a counter shared without a common lock; snapshots of the tunnel list |
| WireGuard server (`wgserver/server.go`, `peers.go`) | running, keys, client list; `server.key`, `server.pub`, `peers.json`; interface and firewall rules | Start, Stop, AddPeer, RemovePeer | three places keep the clients (memory, file, kernel); each step may fail and the program may die between any two |
| address allocation (`wgserver/server.go`) | addresses of the listed clients | getServerIP, allocateIP | bounds of the loop, subnets that split a byte |
| routing controller (`wgserver/routing.go`) | mode; rules in the kernel; redsocks and its configuration | SetMode | errors of commands are ignored, rules are left behind and outlive the program |
| HTTP handlers (`handlers/routes.go`) | none | one call each of the above | they run concurrently |
| dashboard (`web/dashboard.go`) | a queue for each browser, the lock around their list | subscribe, broadcast, leave | full queues; browsers that stop reading |
| configuration (`config/config.go`), web page | none at run time | | |

The parts meet as follows. A handler runs in a goroutine per request and calls
the manager or the server. The health checker and the proxies take snapshots of
the list under `m.mu` and then work on `*Tunnel` objects, some of which may have
been deleted meanwhile; they share `Tunnel.Status` under `t.mu`. The retrying
proxy gets its backends from two callbacks, the gold pool and
`HealthyBackends`. `cmd/wg-proxy`, which puts the parts together, is not in the
repository, so that the order in which they are started and stopped is not
known and not modelled.

What makes each of them correct:

* tunnel: a stop stops; nobody waits for ever, or for nothing; no process is out of reach; the
  status tells the truth in the end; no channel is closed twice;
* manager: a port means one tunnel; list, directory and processes agree; a
  deletion takes what it has stopped; what was reported as imported survives a
  crash;
* proxies: attempts are distinct and as many as promised; a client gets one
  answer; no connection leaks; load is spread; a country's port leaves through
  that country; Close ends what accepts;
* health checker: the gold pool follows what works; Stop returns;
* dashboard: who reads sees how things are in the end; who has gone is forgotten;
* routing: after a whole switch the traffic goes where the mode says, and rules
  do not pile up;
* WireGuard server: clients never share a name, key or address; removed means
  removed; acknowledged means durable; the kernel admits the listed clients;
  Stop undoes Start.

## Modules

Each component has a module with its constants, state, actions, specification
and properties; `MC*` modules extend it with the values the `.cfg` files
substitute. Operators whose comment starts with *Mutant* are changes of an
action that a plausible bug would make; no specification uses them. They show
that a property depends on what the code does.

### Tunnel

One `Tunnel` object and all that touches it. A *run* is one invocation of
`startTunnel`; since the done channel, the temporary configuration, the process
and the waiting goroutine all belong to one invocation, they carry its name.

| Model | Code (`tunnels/manager.go`, `health/checker.go`) |
|---|---|
| `status`, `cmd`, `done`, `tmpConf` | the fields of `Tunnel` |
| `pc[r]`: spawned, generating, generated, registered, launched | the places of `startTunnel` between two critical sections or system calls |
| `pc[r]`: waiting, reaped, recorded, ended | the goroutine in `cmd.Wait`, after it, after its critical section, at its end |
| `proc`, `sig`, `files` | the process, the signal it has to heed, its configuration on disk |
| `BeginStart` ... `PublishRun`, `FailConfig`, `FailProcess` | `startTunnel` with its error returns |
| `ReapProcess`, `RecordExit`, `CloseDone` | the waiting goroutine: `cmd.Wait`, which holds no lock, the critical section that resets `cmd`, and `close(t.done)` |
| `Load`, `Exit` | wireproxy (external) |
| `BeginRequest`, `StopBegin`, `Interrupt`, `StopDone`, `StopTimeout`, `Cleanup` | a request in `stopTunnel`: its critical section, the signal, the wait for its copy of `done` and the removal of the temporary configuration |
| `Deserted` | the request waits for a channel although the goroutine of the process it has signalled is gone |
| `FinishStop`, `FinishRestart`, `FinishDisconnect`, `RemoveConf`, `FailRemoveConf`, `Unlist` | what `StopAll`, `Restart`, `Disconnect` and `Delete` do next |
| `Sweep`, `ReadStatus`, `Dial`, `WriteVerdict` | `checkAll` as far as it concerns this tunnel |

The variable `env` is chosen at the start from the constant `Environments` and
never changes: `faults`, wireproxy may exit by itself, dials and removals may
fail; `stubborn`, it may outlive the five seconds after SIGINT; `patient`, a
request is made only when the previous one, and the start it has caused, are
over; `runs`, the bound on the starts; `asks`, what each request slot may ask for,
which makes instances small. A property that holds in calm
environments only says so (`Calm`), so that one run checks what holds always
and what holds then.

`monitorOutput` only logs, and the texts of errors, latencies and traffic
counters are left out. `StopTimeout` without `stubborn` is possible only when
the wait cannot succeed any more, since five seconds are ample for a process
that heeds SIGINT. The program ends with the panic of any goroutine.

Between `cmd.Wait` and the critical section after it, `cmd` designates a process
that was waited for already, and a request that copies it then, or has copied it
before, signals it later. `Signal` has no effect on a process that is dead: the
operating system keeps its number until it was waited for, and from then on
`os.Process` of Go's library refuses to signal it. This is the library's promise
and not one of this code, and no property is stated of it.

### Manager

The list, the ports and the directory. Here stopping a tunnel and the success of
a start are one step each, since *Tunnel* covers what happens in between. A
request keeps the tunnel it has found (`found`) while the list goes on changing;
`Unlist` removes the first entry of the name, whichever tunnel that is by then.
`ImportConfig` looks nothing up, so that importing a listed name overwrites the
file and adds a second tunnel.

`env` says what the callers and the machine do. `serial`: a request that names a
tunnel is made when no other request names it and none of its starts is under
way (`AtRest`), while requests on other names may come at any time. `fresh`:
imports only bring names that are not listed. `crash`, `disk`: the program may
die, and a file may not be written or not be removed. Properties that need one of
the first two say so themselves.

`Crash` is the end of the program and its restart as the first process of the
container the Dockerfile builds, so that the children die with it. `kept` is a
history variable: the names whose import was reported and whose deletion nobody
has asked for.

### Socks, RetryProxy and ProxyServer

`Socks` is an abstract specification: what either SOCKS5 proxy promises a client
however it finds its upstream connection. A connection negotiates, is pending,
relays and is closed; it gets one answer at most; "granted" needs an open
upstream connection; ending closes both. `AnsweringSpec` adds that a pending
request is answered.

`RetryProxy` has `handleConn` and `tryBackend` for several connections. Each
disjunct of an action is one outcome of a read, write or dial. Bytes are left
out; the round-robin arithmetic is kept as it is in the code, with indices from
0. The backends in `Odd` answer the greeting with a method other than 0. It
implements `AnsweringSpec` under its fairness.

`ProxyServer` is the other proxy, with everything around its connections:

| Model | Code (`proxy/server.go`) |
|---|---|
| `Listen`, `StoreListener`, `EndLoop` | `ListenAndServe`: between the listening and the assignment of `s.listener` Close sees none |
| `StartCountries`, `OpenCountry`, `CountriesStarted` | `StartCountryProxies`, which holds `countryMu` to the end and takes the countries in the order of a map, that is, in any |
| `BeginClose`, `CloseListener`, `CloseCountries` | `Close` |
| `Accept` ... `Finish` | `handleConnection`, `pick`, `pickBackend`, `backendHandshake`, `relay` |
| `Scan` | `IsHealthy`, for one tunnel after the other while health changes; a country's port passes over the tunnels of other countries (`InCountry`) |
| `TakeTurn`, `Increment` | one step for the common counter under `s.mu`; for the counter of a country, whose mutex is a new one for each connection, a read and a later write that may be based on an older value |

It implements `Spec` of `Socks` but not `AnsweringSpec`: the handshake with a
backend has no deadline, so that a backend that accepts and says nothing keeps
its client waiting.

### HealthChecker and Dashboard

`HealthChecker` is the loop over all tunnels (`Tunnel` has what a check means
for one of them): `Tick`, `StopSeen`, `ReadStatus`, `Dial`, `WriteVerdict`,
`EndSweep`; several `deepCheckAll` at a time, each with its semaphore
(`ScanTunnel`, `BeginProbe`, `EndProbe`, `Publish`); the look-ups of exit
addresses (`EndLook`); and `Stop`. `link[t]` says how far a connection through a
tunnel gets: not at all, to wireproxy, or to an HTTPS server. The number of
checks is kept modulo `Every`, which is all the code does with it.

`Dashboard` extends it, as the package `web` imports `health`: `broadcastLoop`
with its lock and its sends without waiting, and one `HandleSSE` per browser. A
browser may stop reading at any time (`EndWrite` is then late for ever), and go
at any time (`Disconnect`). What is shown is the status of each tunnel, read
one after the other.

### WGServer

`Start`, `Stop`, `AddPeer` and `RemovePeer`, each step by step. They hold `s.mu`
to the end, so that one operation (`op`) is under way, but each step may fail
(writes, `wg` and `ip link`, `iptables`), the program or the machine may go down
between any two steps (`Crash`, `Reboot`), and the default route may move
(`MoveRoute`). The variable `may` is the set of these things that can happen,
chosen at the start from `Environments`. `disk` makes the opening, the reading
and the writing of key files fail, and the temporary file that hands the key to
`wg`; a failed `ip link del` is ignored wherever the code ignores it (`TearDown`).
A `server.key` that cannot be read counts as absent and is replaced by a new pair,
as in the code; good keys are not told apart. A write of a
file is two steps, for `os.WriteFile` truncates first: `peersFile` is then torn,
a key file empty. `link`, `wgPeers` and `nat` are the kernel's state, which
outlives the program but not the machine. A write that has completed is durable:
the code calls no `fsync`, and a reboot that loses completed writes is left out.
`minted`, `acked` and `revoked` are
history: the keys generated, the clients that `AddPeer` has handed out and that are
not being removed, and the keys of those whose removal was reported. A
configuration that `GetClientConfig` gives out later, for a client whose own
`AddPeer` failed, say, does not count as handed out.

A panic is the step `Crash` from `announce` with an empty public key, possible
even when nothing else may go down. Status pages, client configuration texts and the
detection of the public address change no state and are left out. The order of
the list plays no role and it is a set.

### Subnet

`getServerIP` and `allocateIP` on the last byte of the address, for subnets of
different lengths (`Sizes`), with a byte of `Values` values, 256 in the code.

### Routing

`SetMode` for `handleRouting`. A switch is the list of commands of
`enableProxiedMode` or `enableDirectMode`; `RunCommand` runs the next one, which
succeeds (`Succeed`, `Applied`) or fails (`Fail`), with `EndSwitch` changing the
mode in any case. `host` is what outlives the program: the copies of each rule
in the nat table, the chain `WG_PROXY`, `redsocks.conf` and redsocks. A "check or
append" whose check fails for another reason than a missing rule appends a
copy. `sound` is history: has a whole switch succeeded since the last failure,
crash or reboot? Nothing is claimed of a state that is not sound.

A command that succeeds has its whole effect: whether redsocks, configured for
127.0.0.1 (`routing.go:115`), receives what PREROUTING redirects to it is decided
by the kernel and not asked here.

## What is checked

Runs that pass:

| Run | Instance | Properties |
|---|---|---|
| `tunnel_safety` | 2 requests; a storm (faults, impatient, 2 runs), a rough environment (faults, stubborn, patient, 3 runs) and a quiet one (none, patient, 3 runs) | always: `TypeOK`; `StartingHasStarter`, "starting" is always somebody's business to settle. When patient: `StopHasCloser`, a stop that waits waits for something. When calm: `NoPanic`; `NoOrphan`, a live wireproxy can be stopped; `NoTempLeak` |
| `tunnel_live` | fair; one request and 2 runs in the rough and the quiet environment; one impatient restart or disconnect at a time, 2 runs; two requests that stop or delete a stubborn wireproxy, 1 run | `RequestReturns`, whatever wireproxy does and whoever holds `m.mu`; `DeadIsUnrouted`, without a process the status running does not last; when calm `LiveIsRouted`, a wireproxy that listens is routed to in the end |
| `manager_safety` | 2 names, 2 clients; a storm (not serial, disk errors, 4 ports) and three serial environments with crashes (6 ports): with disk errors, without, and with fresh imports only | always: `PortsIncrease`, a port never means two tunnels. When the requests on one name come one at a time: `NoUnlistedProcess`; `DeletesWhatItStopped`, also with two tunnels of that name and while others change the list. When writes succeed, too: `KeptOnDisk`, and `ListMatchesDisk`, a file has a tunnel and, if imports are fresh, a tunnel has a file |
| `retry_sound` | 3 connections, 3 backends of which one is odd, 2 attempts, fair | `TriesDistinct`, `RefusedAfterRetries`, `RoundRobin`; `ImplementsSocks`, the refinement of `Socks!AnsweringSpec` |
| `wg_safety` | 2 names, 3 keys, 2 addresses, 3 starts, 2 routes; everything may go wrong, everything but `wg`, all commands, nothing | always: `TypeOK`, `UniquePeers`, `RevokedIsGone`. Unless `wg` fails: `OnlyListedAdmitted`, `AckedAdmitted`, between operations the interface agrees with the list. Unless a write fails or is interrupted: `AckedDurable`, `KeyLoaded`. If nothing goes wrong: `StopCleansUp` |
| `proxy` | 3 tunnels in 2 countries; two clients of a server that stays up; one client, authentication, ports that may be taken, Close at any time; one client, ports that may be taken, Close when all is started; fair | `RoundRobin`, two turns within a round are different tunnels; `MappingServes`, the port the mapping gives for a country serves no other; `LoopsEnd`, a Close after the start ends every loop; `ImplementsSocks`, the refinement of `Socks!Spec` |
| `monitor` | 2 tunnels, one deep check, one probe at a time; 1 tunnel, 2 deep checks; 1 tunnel, look-ups; 1 tunnel, 1 browser, requests; 1 tunnel, 2 browsers; queues of 2, fair | `GoldLearns`, a tunnel that works stays in the pool in the end; `GoldForgets`, one that does not leaves it; `StopReturns`; `ViewCatchesUp`, a browser that reads shows the last state in the end; `ClientLeaves`, a browser that has gone is forgotten whoever does not read |
| `server_parts` | `Routing`: up to 2 failing commands in a switch, crashes, reboots, and without failing commands. `Subnet`: all subnets of 2, 4, 8, 16 and 32 addresses with a last byte of 8 values. They share no state, and each moves while the other rests | `ModeIsEffective`, a whole switch puts right whatever came before; `NoBlackHole`, no redirection to a redsocks that does not run but while the proxied mode is being set up; `NoPileUp`, one copy of each rule as long as commands do not fail. Where the byte belongs to the host: `ClientsUsable`, `RefusedWhenFull` |

Runs that show a disagreement between the code and what is said of it (the
findings of `PROJECT.json` quote the lines):

| Run | What TLC finds |
|---|---|
| `tunnel_disconnect` | a Disconnect between `cmd.Start` and `t.cmd = cmd` stops nothing |
| `tunnel_panic` | two restarts in quick succession: two goroutines close one channel |
| `retry_odd` | a backend that picks another method ends the retries |
| `wg_lost` | a crash in the middle of `Save`: the list is lost |

The conditions in the other properties mark further places where the code does
less than its comments say; dropping a condition gives a counterexample:

* `DeletesWhatItStopped` without `serial`: two deletions of a name that was
  imported twice stop the same tunnel, and the second takes the other one from
  the list with its process running (`manager.go:355`); the same happens to
  a tunnel that is imported while two deletions of its name overlap.
* `ListMatchesDisk` without `fresh`: import a, import a, delete a, one after the
  other, leave a listed tunnel whose file is gone, and whose next start fails;
  after a restart of the program it is not there (`manager.go:371`).
* `NoPanic` when wireproxy may exit by itself, or may ignore SIGINT, although
  requests come one at a time: a process exits, its goroutine has reset `cmd` and
  not yet closed `t.done` when a restart replaces it (`manager.go:256`), or it
  exits after the five seconds, when the next start has registered. The
  goroutine then closes the channel of the new process, which is closed again
  when that one exits.
* `StopCleansUp` when the route may move: `teardownNAT` looks for the
  masquerading rule on the interface that has the default route now
  (`server.go:441`), and the rule that was added stays. A full disk is enough to
  break it, too: an empty `server.pub` makes a later `Start` panic with the rules
  in place.
* `ClientsUsable` in a subnet that splits a byte: `getServerIP` overwrites the
  last byte with 1 (`server.go:479`), outside of 10.0.0.128/25, and the first
  client gets the network's address.
* `RefusedWhenFull` for the address 254, which the loop never tries
  (`server.go:501`).
* `KeyLoaded` when the program may crash or a write fail: `server.pub` is created
  and then written, and an empty one is loaded by every later `Start`, which
  panics on it (`server.go:328`).
* `DeadIsUnrouted` says "in the end": a health check that dialled before a stop
  writes "running" after it (`checker.go:140`), and the stopped tunnel is handed
  out by `HealthyBackends` until the next check. When the tunnel was deleted
  meanwhile there is no next check; the country proxies, which keep the list of
  the time they were started, would go on picking it.
* `LoopsEnd` when Close may come at any time: before `ListenAndServe` has stored
  its listener, or before `StartCountryProxies`, it closes nothing
  (`server.go:65`).
* `RoundRobin` on a country's port: two connections may get the same turn and the
  counter may go back (`server.go:152`).
* `GoldLearns` and `GoldForgets` say "in the end": a deep check that takes longer
  than the next one replaces its newer pool by an older one, and the pool keeps
  a tunnel that was stopped until a deep check that began later ends. Each
  overlapping deep check has a semaphore of its own.
* `ModeIsEffective` only for sound states: after a crash `GetMode` says direct
  while the kernel goes on redirecting, and a failed command changes the mode
  all the same. While the proxied mode is set up again the chain is flushed with
  the jump in place, and traffic is not redirected for a moment.

Read in the code and not the subject of a property: redsocks is always sent to
port 1090 whatever port a switch names (`routing.go:118`), and 1090 is also the
port of the tenth country when `CountryPortBase` has its default; the rules for
ens5 and the chain stay when the mode goes back to direct, as does a second copy
of the DNS rule that a failed check has left; `routing.go`
hard-codes 10.100.0.0/24, ens5 and wg-server although the subnet can be
configured; the exit address is never looked up again; a second call of
`StartCountryProxies` would begin at the first port again and point the mapping
at the listeners of other countries.

### Bounds

* `runs` bounds the starts of a tunnel: two are enough for a run to meet its
  predecessor, three for a predecessor that has met its own. Two requests are
  enough for every pair of operations to overlap; a third would find the tunnel
  in a state that two can leave it in.
* For `RequestReturns`, one run suffices with two requests: StopAll holds `m.mu`
  for reading while it waits for a stubborn process, a Delete waits for the write
  lock meanwhile and keeps new readers out, and restarts add nothing to that.
  Restarts, with the channels they replace, are in the environments with one
  request.
* `lastPort` of an environment bounds the imports: with up to two files to begin
  with, two more tunnels can be imported in the storm and four in the others, at
  least, enough for both names to be there twice. Two names and two clients give
  every overlap of operations on one name or on two.
* Three connections and the lists of length 0 to 3 include lists longer and
  shorter than `maxRetries` (2 here, 5 in the code), wrapping around, and two
  connections between two turns of a third.
* Three keys allow an addition, a removal and an addition to the address that
  became free; `MaxStarts` = 3 allows a start to be interrupted, to be repeated,
  and the server to be stopped and started again.
* Two commands that fail in one switch make two copies of one rule, or one of
  two, or a torn `redsocks.conf` with a restart that fails; `MaxCopies` = 2 lets a
  switch begin with a rule, or the whole chain, there twice. A third copy is
  removed as the second is.
* Three tunnels in two countries, one of which has two, make scans of different
  lengths; two clients are enough for two turns on one counter, and one for what
  a connection does by itself.
* Two deep checks are what overlaps: a third one relates to each as the second
  to the first. With one probe at a time the second tunnel waits for the first.
  A deep check begins only when one of the two has ended (`Slot`), where the code
  would begin a third. `Every` = 2 instead of 5 leaves a check without a deep
  check between two with one. At most two look-ups of a tunnel are at work
  (`MaxLooks`), a third verdict waits.
* Queues of two show a full, a partly filled and an empty queue; of two browsers
  one may stop reading while the other leaves. Broadcasts are left out when
  there is no browser to come.
* Keys, names, runs, requests and clients are symmetric where no liveness is
  checked.

`CHECK_DEADLOCK FALSE` stands where the system may really stop: all runs are
used up and nobody makes a request, the program has panicked, all connections
are closed, the ports or keys are used up.

### Fairness

`Tunnel`: each goroutine of a start, each waiting goroutine, each request and
the loop of the health checker go on when they can (the Go scheduler, the
ticker, the deadlines of dials), and a process that has to exit does
(SIGKILL, or SIGINT when it heeds it). Nothing forces a request to be made, a
healthy process to exit, or StopTimeout to win over StopDone. `RetryProxy`:
dials and handshakes have deadlines in the code (5 and 8 seconds), so that
`Answer` is fair; a client may be silent for ever, and copying has no deadline,
so `Greeting`, `Request` and `EndCopy` are not fair. `ProxyServer`:
`ServerStep`, the steps of the accepting loops, of `StartCountryProxies` and of a
Close that was called, of which there are finitely many; clients, backends and
the call of Close are not fair.

`HealthChecker`: the ticker ticks, and dials, probes (`--max-time 8`) and look-ups
(10 seconds) end, so that `CheckStep`, each `DeepStep` and `EndLook` are weakly
fair. A `select` that finds both a tick and a stop chooses at random and not the
tick for ever: `SeeStop` is strongly fair, since it is disabled during each
sweep. `Dashboard`: `Broadcast` is weakly fair; what waits for `sseMu` is strongly
fair, since a `sync.Mutex` hands itself over to who has waited for a
millisecond; `SeeGone` is so for its `select`. Writing to a browser is fair only
when it has gone; `ViewCatchesUp` assumes of a browser that it goes on reading.

## What is proved

Every safety property that a passing run checks, the one action property
(`DeletesWhatItStopped`) included, is also a theorem, for every value of the
constants; so is the refinement of `Socks!Spec` by both proxies. The proofs
assume what the modules assume of their constants and nothing else, and
nothing of the operating system beyond what the actions say. The one assumption
that is there for a proof's sake, `IsFiniteSet(Name)` in *Manager*, says that a
directory holds finitely many files: without it the ports that `LoadConfigs`
gives to them would not be numbers.

Each proof module has an inductive invariant, lemmas that say of each
actor that its steps keep it, and short theorems that draw the properties from it.
`ModuloFacts` has the lemmas on remainders that the round-robin counters and the
subnets need.

`TunnelProofs`, in every environment: `TypeCorrect`, `NoStuckStart`
(`StartingHasStarter`). The inductive invariant is the conjunction of the two, of
`DoneMade`, once a start has registered, `t.done` is a channel, which `CloseDone`
needs to keep its type, and of `CmdHasWaiter`, the process that `cmd` designates has
a goroutine that waits for it.
`StartingHasStarter` is inductive only with it and with the types: only
`BeginStart` writes "starting", and every step that takes a run out of the places
after it also writes the status.

In patient environments, faults and stubborn processes included: `StopsAreAwaited`
(`StopHasCloser`). `Served` adds that one request is served at a time
(`OneAtATime`) and that for one which waits, its channel is closed, or the
goroutine of its process has not ended and `t.done` is still the channel it
waits for (`HasCloser`). That no start replaces `t.done` during the wait is what patience is
needed for, and that `RecordExit` resets `cmd` is why the next stop does not
wait for a goroutine that has ended.

In calm environments: `NoDoubleClose` (`NoPanic`), `NoneOrphaned` (`NoOrphan`),
`OneTempFile` (`NoTempLeak`). None of the three is inductive. The waiter reads
`t.done` and a request reads `cmd` and `done` long before they use them, and the
invariant (`Careful`) says why this is still about the same run: one run and one
request are active at a time (`Alone`); from registration on, `done`, `tmpConf` and
`cmd` are that run's, and its channel is open until it has ended (`Registered`); a
process exits only while a request waits for it (`Obedient`); a request that
waited leaves no run (`Stopped`) and no file (`Tidy`) to the start that follows.

`ManagerProofs`: `PortsUnique` (`PortsIncrease`) in every environment. It is
inductive with all tunnels that anybody still knows of (`Known`), those in the
hands of requests included: they come back to the processes when a request restarts a
tunnel that has left the list.

`NoneUnlisted` and `UnlistsTheStopped` need the requests on one name to come one
at a time, and nothing else: disk errors, crashes, names imported twice and
requests on other names are all allowed. `Serial` says that no two requests,
and no request and a start, have the same name (`Alone`); that processes and starts are those of
listed tunnels (`Reachable`); and that what a request has found is, until it
ends, the first listed tunnel of its name, which a deletion that is past its stop
has no process of (`Midway`). The first tunnel of a name is the one with the
least port (`FirstIsLeast`), from which it follows that neither an import of a
tunnel, which gets a larger port, nor a deletion of one with another name
changes it (`AppendKeepsFirst`, `UnlistFacts`).

`ListIsDirectory` and `ImportsKept` also need writes that succeed. `Matched` says
that a file without a tunnel has an import under way, and that no import and no
deletion has done half of its work without being at the place where it has
(`Filed`); and, if imports are fresh, that no name is listed twice and that a
tunnel without a file has a deletion under way (`Distinct`).

`RetryProxyProofs`: `DistinctTries`, `RefusedLast`, `SpreadFirst` (`RoundRobin`).
What a connection has tried is a stretch of its list read as a ring from its
ticket on (`Stretch`), no longer than the list; its length follows from the place
the connection is in (`Progress`), and two tickets are different values of the
index (`Tickets`). Different offsets on a ring are different places as long as
they are less than a round apart (`ModApart`). `RefinesSocks` maps each step of a
connection to one of `Socks` or to none.

`ProxyServerProofs`: `CommonRoundRobin` (`RoundRobin`), `MappingTrue`
(`MappingServes`), `RefinesSocks` (`ImplementsSocks`). The invariant says that the
mapping, the loops and the countries they serve agree, ports that could not be opened
included (`Countries`), that what a scan has found is of the country of the port
and without repetition (`Reach`, `Scanned`), and that turns on the common port
differ (`Turns`), which is where the common lock matters.

`WGServerProofs` (any names, keys, addresses and starts, every fault and crash):
`TypeCorrect`, `ClientsDistinct` (`UniquePeers`), `RevocationLasts`
(`RevokedIsGone`). The invariant adds `KeysMinted` (listed, stored and revoked
keys were generated), without which a new key could collide; `Adding` (the
client that AddPeer carries differs from all that are listed and stored, up
to the append), and `Removing` (the one that RemovePeer carries is listed
until it is dropped, and afterwards nobody has its key), without which
`FlushRemoval` could revoke a key that is still there. Most steps follow from
`AsideClients`, for they leave list, file and keys alone.

What holds unless something in particular goes wrong follows from `Careful`:
`NoStranger` (`OnlyListedAdmitted`), `HandedOutConnects` (`AckedAdmitted`),
`HandedOutStored` (`AckedDurable`), `StopMirrorsStart` (`StopCleansUp`),
`KeyAnnounced` (`KeyLoaded`). These speak of the moments between operations; the
invariant says of every step inside one how the list, the interface
(`Admitting`), the file (`Storing`), the key files (`Keyed`) and the rules
(`Ruled`) are then related, each part under the condition of its property.

`RoutingProofs`: `SwitchTakesEffect` (`ModeIsEffective`), `RedsocksStopsLast`
(`NoBlackHole`), `OneOfEach` (`NoPileUp`). A switch is at some place of its list
of commands (`Progress`), and as long as none has failed, the commands run so far
have brought the chain, the rules, `redsocks.conf` and redsocks to a state that
depends on that place only (`Clean`) and not on what was there before.

`SubnetProofs`, for a last byte of any number of values and subnets of any size:
`HostAddresses` (`ClientsUsable`), `FullWhenRefused` (`RefusedWhenFull`). That an
allocation was refused means that nothing is free until an address is released.

Only model-checked: what needs fairness, which the prover cannot reason about,
namely `RequestReturns`, `DeadIsUnrouted`, `LiveIsRouted`, `LoopsEnd`, that
`RetryProxy` answers (the half of its `ImplementsSocks` that `RefinesSocks` leaves
out), and all five properties of *HealthChecker* and *Dashboard*.

## What is not modelled

* The health checker's latencies and counts, traffic counters, and the port and
  country `SetMode` records: they are shown and nothing depends on them.
* `ListenAndServe` and `Close` of RetryProxy: one listener, as in `ProxyServer`,
  but any error of Accept ends the proxy.
* Configuration and the web page, which keep no state; `cmd/wg-proxy`, which is
  not there; country codes, which only group tunnels for the country proxies.
* wireproxy, wg, ip, iptables, curl: external, modelled by their outcomes.
* Several tunnels at once inside `Tunnel`: they share `m.mu` only, which
  `Readable` and `Unlist` stand for.

## Plan

What is left, in this order:

1. The safety half of what is only model-checked: that a Close which finds
   everything started leaves no open listener behind its loops (`LoopsEnd`), that
   a semaphore of the health checker never admits more probes than it has places,
   and that a browser that lags has a full queue (`ViewCatchesUp`).
2. Abstract specifications of the life of a tunnel as a caller sees it (down,
   coming up, up, going down), implemented by `Tunnel` in the calm environment,
   and of a registry of clients, implemented by `WGServer` when nothing crashes,
   each with the proof that every step maps to a step or a stutter.
3. `HealthChecker` composed with `RetryProxy`, for ports that leave the gold pool
   while a connection is retried; `RetryProxy`'s own listener.
