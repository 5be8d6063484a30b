------------------------------- MODULE Routing -------------------------------
(***************************************************************************)
(* wgserver.RoutingController: how the traffic of VPN clients leaves the   *)
(* host.  A change of mode is a list of shell commands on the nat table    *)
(* and on redsocks; runCmds logs the ones that fail and goes on.  rc.mu is *)
(* held from the first command to the last.                                *)
(*                                                                         *)
(* The mode is in memory, the rules are in the kernel: what the program    *)
(* has done outlives it.  The port and the country of a request are        *)
(* recorded for the status page only and are left out.                     *)
(***************************************************************************)
EXTENDS Naturals, Sequences

CONSTANTS
  MaxCopies,   \* bound on the copies of a rule at the start of a switch
  MaxFailed,   \* bound on the commands that fail in one switch
  Environments

(***************************************************************************)
(* An environment is the set of what may happen:                           *)
(*   fail     a command fails, say because another has the xtables lock    *)
(*   crash    the program dies and is started again                        *)
(*   reboot   the machine does                                             *)
(***************************************************************************)
Trouble == {"fail", "crash", "reboot"}

ASSUME RoutingAssumption ==
  /\ MaxCopies \in Nat /\ MaxFailed \in Nat
  /\ Environments \subseteq SUBSET Trouble

VARIABLES
  trouble, \* the environment of this behaviour
  mode,    \* RoutingController.mode
  target,  \* the mode SetMode is switching to, or "none"
  todo,    \* the commands it has still to run
  failed,  \* how many of them have failed in this switch
  sound,   \* has a whole switch succeeded since something went wrong?
  host     \* the nat table, redsocks.conf and redsocks

vars == <<trouble, mode, target, todo, failed, sound, host>>

Mode == {"direct", "proxied"}

(***************************************************************************)
(* direct, jump, dns and out count the copies of a rule: masquerading for  *)
(* the VPN's subnet, the jump from PREROUTING to the chain WG_PROXY, the   *)
(* redirection of DNS, masquerading on ens5.  The eight rules of WG_PROXY  *)
(* that let private ranges pass are one.                                   *)
(***************************************************************************)
Counted == {"direct", "jump", "dns", "out"}

Bare == [rules |-> [r \in Counted |-> 0], chained |-> FALSE, chain |-> <<>>]

Init ==
  /\ trouble \in Environments
  /\ mode = "direct" /\ target = "none" /\ todo = <<>>
  /\ failed = 0 /\ sound = FALSE
  /\ host = [nat |-> Bare, conf |-> "absent", redsocks |-> FALSE]

-----------------------------------------------------------------------------
(***************************************************************************)
(* The commands.                                                           *)
(***************************************************************************)

\* Mutant: WG_PROXY is not flushed before it is filled.
ProxiedUnflushed ==
  <<[cmd |-> "delete", rule |-> "direct"], [cmd |-> "new"],
    [cmd |-> "append", rule |-> "private"], [cmd |-> "append", rule |-> "redirect"],
    [cmd |-> "ensure", rule |-> "jump"], [cmd |-> "ensure", rule |-> "dns"],
    [cmd |-> "ensure", rule |-> "out"], [cmd |-> "configure"],
    [cmd |-> "restart"]>>

ProxiedCommands ==
  <<[cmd |-> "delete", rule |-> "direct"], [cmd |-> "flush"], [cmd |-> "new"],
    [cmd |-> "append", rule |-> "private"], [cmd |-> "append", rule |-> "redirect"],
    [cmd |-> "ensure", rule |-> "jump"], [cmd |-> "ensure", rule |-> "dns"],
    [cmd |-> "ensure", rule |-> "out"], [cmd |-> "configure"],
    [cmd |-> "restart"]>>

\* Mutant: the jump to the chain goes, the chain keeps its rules.
DirectUnflushed ==
  <<[cmd |-> "delete", rule |-> "jump"], [cmd |-> "delete", rule |-> "dns"],
    [cmd |-> "ensure", rule |-> "direct"], [cmd |-> "stop"]>>

\* Mutant: redsocks stops before its traffic does.
DirectStopFirst ==
  <<[cmd |-> "stop"], [cmd |-> "delete", rule |-> "jump"],
    [cmd |-> "delete", rule |-> "dns"], [cmd |-> "flush"],
    [cmd |-> "ensure", rule |-> "direct"]>>

DirectCommands ==
  <<[cmd |-> "delete", rule |-> "jump"], [cmd |-> "delete", rule |-> "dns"],
    [cmd |-> "flush"], [cmd |-> "ensure", rule |-> "direct"],
    [cmd |-> "stop"]>>

OneFewer(n) == IF n = 0 THEN 0 ELSE n - 1

\* What iptables makes of the nat table.  A jump needs its target.
Applied(c, nat) ==
  CASE c.cmd = "delete" -> [nat EXCEPT !.rules[c.rule] = OneFewer(@)]
    [] c.cmd = "ensure" /\ (c.rule = "jump" => nat.chained) ->
         [nat EXCEPT !.rules[c.rule] = IF @ = 0 THEN 1 ELSE @]
    [] c.cmd = "flush" -> [nat EXCEPT !.chain = <<>>]
    [] c.cmd = "new" -> [nat EXCEPT !.chained = TRUE]
    [] c.cmd = "append" /\ nat.chained ->
         [nat EXCEPT !.chain = Append(@, c.rule)]
    [] OTHER -> nat

\* When the check of "check or append" fails though the rule is there, another
\* copy is appended.
Duplicated(c, nat) ==
  IF c.cmd = "ensure" /\ (c.rule = "jump" => nat.chained)
    THEN [nat EXCEPT !.rules[c.rule] = @ + 1]
    ELSE nat

Succeed(c) ==
  /\ host' = [nat |-> Applied(c, host.nat),
              conf |-> IF c.cmd = "configure" THEN "whole" ELSE host.conf,
              redsocks |-> CASE c.cmd = "restart" -> host.conf = "whole"
                             [] c.cmd = "stop" -> FALSE
                             [] OTHER -> host.redsocks]
  /\ UNCHANGED <<failed, sound>>

Fail(c) ==
  /\ "fail" \in trouble
  /\ \E nat \in {host.nat, Duplicated(c, host.nat)} :
     \E conf \in IF c.cmd = "configure" THEN {host.conf, "torn"} ELSE {host.conf} :
     \E up \in IF c.cmd = "restart" THEN {host.redsocks, FALSE} ELSE {host.redsocks} :
       host' = [nat |-> nat, conf |-> conf, redsocks |-> up]
  /\ failed < MaxFailed
  /\ failed' = failed + 1 /\ sound' = FALSE

-----------------------------------------------------------------------------

\* Bound: nothing has been duplicated too often.
Roomy ==
  /\ \A r \in Counted : host.nat.rules[r] <= MaxCopies
  /\ Len(host.nat.chain) <= 2 * MaxCopies

(***************************************************************************)
(* SetMode, for handleRouting, which answers a request for the proxied     *)
(* mode without calling it when no port is given and the gold pool is      *)
(* empty.                                                                  *)
(***************************************************************************)
BeginSwitch(m) ==
  /\ target = "none"
  /\ Roomy
  /\ target' = m
  /\ todo' = IF m = "proxied" THEN ProxiedCommands ELSE DirectCommands
  /\ failed' = 0
  /\ UNCHANGED <<mode, sound, host>>

RunCommand ==
  /\ todo # <<>>
  /\ Succeed(Head(todo)) \/ Fail(Head(todo))
  /\ todo' = Tail(todo)
  /\ UNCHANGED <<mode, target>>

\* runCmds reports no failure, and the mode is changed in any case.
EndSwitch ==
  /\ target # "none" /\ todo = <<>>
  /\ mode' = target
  /\ target' = "none"
  /\ sound' = (failed = 0)
  /\ UNCHANGED <<todo, failed, host>>

-----------------------------------------------------------------------------

\* NewRoutingController.
LoseMemory ==
  /\ mode' = "direct" /\ target' = "none" /\ todo' = <<>>
  /\ failed' = 0 /\ sound' = FALSE

Crash ==
  /\ "crash" \in trouble
  /\ LoseMemory
  /\ UNCHANGED host

Reboot ==
  /\ "reboot" \in trouble
  /\ LoseMemory
  /\ host' = [host EXCEPT !.nat = Bare, !.redsocks = FALSE]

Next ==
  /\ UNCHANGED trouble
  /\ \/ \E m \in Mode : BeginSwitch(m)
     \/ RunCommand \/ EndSwitch
     \/ Crash \/ Reboot

Spec == Init /\ [][Next]_vars

-----------------------------------------------------------------------------

\* The type of every variable.
TypeOK ==
  /\ trouble \in Environments
  /\ mode \in Mode /\ target \in Mode \cup {"none"}
  /\ todo \in Seq([cmd : {"delete", "ensure", "append"},
                   rule : Counted \cup {"private", "redirect"}]
                  \cup [cmd : {"flush", "new", "configure", "restart", "stop"}])
  /\ failed \in Nat /\ sound \in BOOLEAN
  /\ host \in [nat : [rules : [Counted -> Nat], chained : BOOLEAN,
                      chain : Seq({"private", "redirect"})],
               conf : {"absent", "torn", "whole"}, redsocks : BOOLEAN]

\* TCP from a client to a public address goes to the port of redsocks ...
Redirected ==
  /\ host.nat.rules["jump"] > 0
  /\ \E i \in DOMAIN host.nat.chain : host.nat.chain[i] = "redirect"

\* ... and TCP to a private address does not.
PrivatePasses ==
  host.nat.chain # <<>> => host.nat.chain[1] = "private"

\* After a switch without a failed command the traffic goes the way the mode
\* says, whatever failed switches, crashes and reboots have left behind: "direct
\* \ Traffic goes out server's public IP", "proxied \ Traffic goes through
\* wireproxy" (routing.go, RoutingMode).
ModeIsEffective ==
  sound /\ target = "none" =>
    CASE mode = "proxied" -> Redirected /\ PrivatePasses /\ host.redsocks
      [] mode = "direct" -> ~Redirected /\ host.nat.rules["direct"] > 0

\* From one sound state to the next, traffic is redirected to a redsocks that
\* does not run only while the proxied mode is being set up, not while it is
\* being left.
NoBlackHole ==
  sound /\ target # "proxied" => ~(Redirected /\ ~host.redsocks)

\* However often modes change, and wherever the program dies in a change, there
\* is at most one copy of each rule, as long as commands do not fail.
NoPileUp ==
  "fail" \notin trouble =>
    /\ \A r \in Counted : host.nat.rules[r] <= 1
    /\ Len(host.nat.chain) <= 2
=============================================================================
