---------------------------- MODULE RoutingProofs ----------------------------
(***************************************************************************)
(* Theorems about Routing, for any number of failures and copies.          *)
(*                                                                         *)
(* The invariant says what the nat table and redsocks look like after each *)
(* command of a switch none of whose commands has failed (Clean), from any *)
(* state earlier switches, crashes and reboots may have left behind.       *)
(***************************************************************************)
EXTENDS Routing, SequenceTheorems, TLAPS

Command ==
  [cmd : {"delete", "ensure"}, rule : Counted]
  \cup [cmd : {"append"}, rule : {"private", "redirect"}]
  \cup [cmd : {"flush", "new", "configure", "restart", "stop"}]

Commands(m) == IF m = "proxied" THEN ProxiedCommands ELSE DirectCommands

\* How many commands of the switch have been run.
Done == Len(Commands(target)) - Len(todo)

NatTable == [rules : [Counted -> Nat], chained : BOOLEAN,
             chain : Seq({"private", "redirect"})]

Types ==
  /\ trouble \in Environments /\ mode \in Mode /\ target \in Mode \cup {"none"}
  /\ todo \in Seq(Command)
  /\ failed \in Nat /\ sound \in BOOLEAN
  /\ host \in [nat : NatTable,
               conf : {"absent", "torn", "whole"}, redsocks : BOOLEAN]

\* The commands of a switch are run in their order.
Progress ==
  /\ target = "none" => todo = <<>>
  /\ target # "none" =>
       /\ Done \in 0..Len(Commands(target))
       /\ todo = SubSeq(Commands(target), Done + 1, Len(Commands(target)))

\* What the commands run so far have done, when none of them has failed.
CleanProxied ==
  /\ Done \in {2, 3} => host.nat.chain = <<>>
  /\ Done >= 3 => host.nat.chained
  /\ Done = 4 => host.nat.chain = <<"private">>
  /\ Done >= 5 => host.nat.chain = <<"private", "redirect">>
  /\ Done >= 6 => host.nat.rules["jump"] > 0
  /\ Done >= 9 => host.conf = "whole"
  /\ Done >= 10 => host.redsocks

CleanDirect ==
  /\ Done >= 3 => host.nat.chain = <<>>
  /\ Done >= 4 => host.nat.rules["direct"] > 0

Clean ==
  /\ target = "proxied" /\ failed = 0 => CleanProxied
  /\ target = "direct" /\ failed = 0 => CleanDirect

Sound == sound => failed = 0

Effective ==
  sound /\ target = "none" =>
    /\ mode = "proxied" =>
         /\ host.nat.rules["jump"] > 0 /\ host.redsocks
         /\ host.nat.chain = <<"private", "redirect">>
    /\ mode = "direct" =>
         host.nat.chain = <<>> /\ host.nat.rules["direct"] > 0

NoHole ==
  sound /\ target # "proxied" =>
    \/ host.redsocks \/ host.nat.rules["jump"] = 0
    \/ \A i \in DOMAIN host.nat.chain : host.nat.chain[i] # "redirect"

Thin ==
  "fail" \notin trouble =>
    /\ failed = 0
    /\ \A r \in Counted : host.nat.rules[r] <= 1
    /\ Len(host.nat.chain) <= 2

Inv == Types /\ Progress /\ Clean /\ Sound /\ Effective /\ NoHole /\ Thin

LEMMA TypesTypeOK == Types => TypeOK
<1> SUFFICES ASSUME Types PROVE TypeOK
  OBVIOUS
<1> DEFINE Loose == [cmd : {"delete", "ensure", "append"},
                     rule : Counted \cup {"private", "redirect"}]
                    \cup
                    [cmd : {"flush", "new", "configure", "restart", "stop"}]
<1>1. Command \subseteq Loose
  BY DEF Command
<1>2. todo \in Seq(Command)
  BY DEF Types
<1> HIDE DEF Loose
<1>3. todo \in Seq(Loose)
  BY <1>1, <1>2
<1> QED  BY <1>3 DEF Types, TypeOK, NatTable, Loose

-----------------------------------------------------------------------------
(* The lists of commands. *)

LEMMA CommandsFacts ==
  /\ ProxiedCommands \in Seq(Command) /\ Len(ProxiedCommands) = 10
  /\ DirectCommands \in Seq(Command) /\ Len(DirectCommands) = 5
BY DEF ProxiedCommands, DirectCommands, Command, Counted

LEMMA Rest ==
  ASSUME NEW T, NEW s \in Seq(T), NEW k \in 0..(Len(s) - 1)
  PROVE  /\ Head(SubSeq(s, k + 1, Len(s))) = s[k + 1]
         /\ Tail(SubSeq(s, k + 1, Len(s))) = SubSeq(s, (k + 1) + 1, Len(s))
         /\ Len(SubSeq(s, (k + 1) + 1, Len(s))) = Len(s) - (k + 1)
<1>1. Len(s) \in Nat /\ k + 1 \in 1..Len(s)
  OBVIOUS
<1>2. SubSeq(s, k + 1, Len(s)) \in Seq(T) /\ SubSeq(s, k + 1, Len(s)) # <<>>
  <2>1. /\ SubSeq(s, k + 1, Len(s)) \in Seq(T)
        /\ Len(SubSeq(s, k + 1, Len(s))) = Len(s) - k
    BY <1>1
  <2>2. Len(s) - k # 0
    BY <1>1
  <2>3. Len(<<>>) = 0
    OBVIOUS
  <2> QED  BY <2>1, <2>2, <2>3
<1>3. Head(SubSeq(s, k + 1, Len(s))) = s[k + 1]
  BY <1>1, <1>2
<1>4. Tail(SubSeq(s, k + 1, Len(s))) = SubSeq(s, (k + 1) + 1, Len(s))
  BY <1>1, <1>2
<1>5. Len(SubSeq(s, (k + 1) + 1, Len(s))) = Len(s) - (k + 1)
  BY <1>1
<1> QED  BY <1>3, <1>4, <1>5

LEMMA AppendTuple ==
  ASSUME NEW x, NEW y
  PROVE  Append(<<>>, x) = <<x>> /\ Append(<<x>>, y) = <<x, y>>
<1>1. <<>> \in Seq({x, y}) /\ <<x>> \in Seq({x, y}) /\ <<x, y>> \in Seq({x, y})
  OBVIOUS
<1>2. /\ Len(Append(<<>>, x)) = 1 /\ Append(<<>>, x)[1] = x
      /\ Append(<<>>, x) \in Seq({x, y})
  BY <1>1
<1>3. /\ Len(Append(<<x>>, y)) = 2 /\ Append(<<x>>, y)[1] = x
      /\ Append(<<x>>, y)[2] = y /\ Append(<<x>>, y) \in Seq({x, y})
  BY <1>1
<1>4. Append(<<>>, x) = <<x>>
  BY <1>1, <1>2, SeqEqual
<1>5. Append(<<x>>, y) = <<x, y>>
  <2>1. \A i \in 1..2 : i = 1 \/ i = 2
    OBVIOUS
  <2>2. Len(<<x, y>>) = 2 /\ <<x, y>>[1] = x /\ <<x, y>>[2] = y
    OBVIOUS
  <2>3. \A i \in 1..2 : Append(<<x>>, y)[i] = <<x, y>>[i]
    BY <1>3, <2>1, <2>2, ZenonT(20)
  <2> QED  BY <1>1, <1>3, <2>2, <2>3, SeqEqual
<1> QED  BY <1>4, <1>5

(* RunCommand runs the next command of the switch.                           *)
LEMMA RunFacts ==
  ASSUME Types, Progress, RunCommand
  PROVE  /\ target \in Mode /\ target' = target /\ mode' = mode
         /\ Done \in 0..(Len(Commands(target)) - 1)
         /\ Done' = Done + 1
         /\ Progress'
         /\ todo' \in Seq(Command)
         /\ Head(todo) = Commands(target)[Done + 1] /\ Head(todo) \in Command
<1>1. target \in Mode /\ UNCHANGED <<mode, target>> /\ todo # <<>>
      /\ todo' = Tail(todo) /\ todo \in Seq(Command)
  BY DEF RunCommand, Progress, Types
<1>2. /\ Commands(target) \in Seq(Command) /\ Len(Commands(target)) \in Nat
      /\ Commands(target)' = Commands(target)
  BY <1>1, CommandsFacts DEF Commands
<1>3. /\ Done \in 0..Len(Commands(target))
      /\ todo = SubSeq(Commands(target), Done + 1, Len(Commands(target)))
  BY <1>1 DEF Progress, Mode
<1>4. /\ Len(todo) \in Nat /\ Len(todo) > 0
      /\ Done = Len(Commands(target)) - Len(todo)
  BY <1>1 DEF Done
<1>5. Done \in 0..(Len(Commands(target)) - 1)
  BY <1>2, <1>3, <1>4
<1>6. /\ Head(todo) = Commands(target)[Done + 1]
      /\ todo' =
           SubSeq(Commands(target), (Done + 1) + 1, Len(Commands(target)))
      /\ Len(todo') = Len(Commands(target)) - (Done + 1)
  BY <1>1, <1>2, <1>3, <1>5, Rest
<1>7. Done' = Done + 1
  BY <1>1, <1>2, <1>5, <1>6 DEF Done
<1>8. Progress'
  <2>1. target' # "none"
    BY <1>1 DEF Mode
  <2>2. Done' \in 0..Len(Commands(target)')
    BY <1>2, <1>5, <1>7
  <2>3. todo' = SubSeq(Commands(target)', Done' + 1, Len(Commands(target)'))
    BY <1>2, <1>6, <1>7
  <2> QED  BY <2>1, <2>2, <2>3 DEF Progress
<1> QED
  BY <1>1, <1>5, <1>6, <1>7, <1>8

(* Which command that is.                                                    *)
LEMMA Which ==
  ASSUME NEW k \in 0..9
  PROVE  /\ ProxiedCommands[k + 1].cmd =
              CASE k = 0 -> "delete" [] k = 1 -> "flush" [] k = 2 -> "new"
                [] k \in {3, 4} -> "append" [] k \in {5, 6, 7} -> "ensure"
                [] k = 8 -> "configure" [] k = 9 -> "restart"
         /\ k = 0 => ProxiedCommands[k + 1].rule = "direct"
         /\ k = 3 => ProxiedCommands[k + 1].rule = "private"
         /\ k = 4 => ProxiedCommands[k + 1].rule = "redirect"
         /\ k = 5 => ProxiedCommands[k + 1].rule = "jump"
         /\ k = 6 => ProxiedCommands[k + 1].rule = "dns"
         /\ k = 7 => ProxiedCommands[k + 1].rule = "out"
         /\ k < 5 => /\ DirectCommands[k + 1].cmd =
                        CASE k \in {0, 1} -> "delete" [] k = 2 -> "flush"
                          [] k = 3 -> "ensure" [] k = 4 -> "stop"
                     /\ k = 0 => DirectCommands[k + 1].rule = "jump"
                     /\ k = 1 => DirectCommands[k + 1].rule = "dns"
                     /\ k = 3 => DirectCommands[k + 1].rule = "direct"
<1>1. k = 0 \/ k = 1 \/ k = 2 \/ k = 3 \/ k = 4 \/ k = 5 \/ k = 6 \/ k = 7
        \/ k = 8 \/ k = 9
  OBVIOUS
<1> QED  BY <1>1 DEF ProxiedCommands, DirectCommands

-----------------------------------------------------------------------------

LEMMA InitInv == Init => Inv
<1> SUFFICES ASSUME Init PROVE Inv
  OBVIOUS
<1> USE DEF Init, Bare
<1>1. Types
  <2>1. host.nat \in NatTable
    BY DEF NatTable, Counted
  <2>2. todo \in Seq(Command)
    OBVIOUS
  <2>3. host = [nat |-> host.nat, conf |-> "absent", redsocks |-> FALSE]
    OBVIOUS
  <2> HIDE DEF Bare
  <2> QED  BY <2>1, <2>2, <2>3 DEF Types, Mode
<1>2. Progress /\ Clean /\ Sound /\ Effective /\ NoHole /\ Thin
  BY DEF Progress, Clean, Sound, Effective, NoHole, Thin, Counted
<1> QED  BY <1>1, <1>2 DEF Inv

LEMMA BeginInv ==
  ASSUME Inv, UNCHANGED trouble, NEW m \in Mode, BeginSwitch(m)
  PROVE  Inv'
<1>1. /\ target = "none" /\ target' = m /\ todo' = Commands(m) /\ failed' = 0
      /\ UNCHANGED <<mode, sound, host>>
  BY DEF BeginSwitch, Commands
<1>2. m = "proxied" \/ m = "direct"
  BY DEF Mode
<1>3. Commands(m) \in Seq(Command) /\ Len(Commands(m)) \in Nat \ {0}
  <2>1. 10 \in Nat \ {0} /\ 5 \in Nat \ {0}
    OBVIOUS
  <2> QED  BY <2>1, CommandsFacts DEF Commands
<1>4. Commands(target)' = Commands(m) /\ Done' = 0
  BY <1>1, <1>3 DEF Done, Commands
<1>5. Types'
  BY <1>1, <1>2, <1>3 DEF Inv, Types, Mode
<1>6. Progress'
  BY <1>1, <1>2, <1>3, <1>4 DEF Progress
<1>7. Clean' /\ Sound' /\ Effective' /\ Thin'
  BY <1>1, <1>2, <1>4
  DEF Inv, Clean, CleanProxied, CleanDirect, Sound, Effective, Thin
<1>8. NoHole'
  BY <1>1, <1>2 DEF Inv, NoHole
<1> QED  BY <1>5, <1>6, <1>7, <1>8 DEF Inv

LEMMA EndInv ==
  ASSUME Inv, UNCHANGED trouble, EndSwitch
  PROVE  Inv'
<1>1. /\ target \in Mode /\ todo = <<>> /\ mode' = target /\ target' = "none"
      /\ sound' = (failed = 0) /\ UNCHANGED <<todo, failed, host>>
  BY DEF EndSwitch, Inv, Types
<1>2. Done = Len(Commands(target))
  BY <1>1, CommandsFacts DEF Done, Commands
<1>3. /\ target = "proxied" => Done = 10
      /\ target = "direct" => Done = 5
  BY <1>2, CommandsFacts DEF Commands
<1>4. Types' /\ Progress' /\ Clean' /\ Sound' /\ Thin'
  BY <1>1 DEF Inv, Types, Progress, Clean, Sound, Thin, Mode
<1>5. /\ sound' /\ target = "proxied" =>
           /\ host.nat.rules["jump"] > 0 /\ host.redsocks
           /\ host.nat.chain = <<"private", "redirect">>
      /\ sound' /\ target = "direct" =>
           host.nat.chain = <<>> /\ host.nat.rules["direct"] > 0
  <2>1. sound' => failed = 0
    BY <1>1
  <2>2. 10 >= 6 /\ 10 >= 5 /\ 5 >= 3 /\ 5 >= 4 /\ 10 >= 10
    OBVIOUS
  <2>3. CASE target = "proxied"
    BY <1>3, <2>1, <2>2, <2>3 DEF Inv, Clean, CleanProxied
  <2>4. CASE target = "direct"
    BY <1>3, <2>1, <2>2, <2>4 DEF Inv, Clean, CleanDirect
  <2> QED  BY <2>3, <2>4
<1>6. Effective' /\ NoHole'
  BY <1>1, <1>5 DEF Effective, NoHole, Mode
<1> QED  BY <1>4, <1>6 DEF Inv
(* What a command that succeeds makes of the nat table.                      *)
LEMMA AppliedFacts ==
  ASSUME NEW nat \in NatTable, NEW c \in Command
  PROVE  /\ Applied(c, nat) \in NatTable
         /\ Applied(c, nat).chain =
              CASE c.cmd = "flush" -> <<>>
                [] c.cmd = "append" /\ nat.chained -> Append(nat.chain, c.rule)
                [] OTHER -> nat.chain
         /\ Applied(c, nat).chained = (nat.chained \/ c.cmd = "new")
         /\ \A r \in Counted :
              Applied(c, nat).rules[r] =
                CASE c.cmd = "delete" /\ c.rule = r -> OneFewer(nat.rules[r])
                  [] c.cmd = "ensure" /\ c.rule = r /\ nat.rules[r] = 0
                       /\ (r = "jump" => nat.chained) -> 1
                  [] OTHER -> nat.rules[r]
<1>0. /\ nat.rules \in [Counted -> Nat] /\ nat.chained \in BOOLEAN
      /\ nat.chain \in Seq({"private", "redirect"})
      /\ <<>> \in Seq({"private", "redirect"})
  BY DEF NatTable
<1>1. CASE c.cmd = "delete"
  <2>1. c.rule \in Counted /\ OneFewer(nat.rules[c.rule]) \in Nat
    BY <1>0, <1>1 DEF Command, OneFewer
  <2> DEFINE rules ==
        [nat.rules EXCEPT ![c.rule] = OneFewer(nat.rules[c.rule])]
  <2>2. Applied(c, nat) = [nat EXCEPT !.rules = rules]
    BY <1>1 DEF Applied
  <2>3. /\ rules \in [Counted -> Nat]
        /\ \A r \in Counted : rules[r] = IF r = c.rule
                                        THEN OneFewer(nat.rules[r])
                                        ELSE nat.rules[r]
    BY <1>0, <2>1
  <2> HIDE DEF rules
  <2>4. /\ Applied(c, nat) \in NatTable /\ Applied(c, nat).rules = rules
        /\ Applied(c, nat).chain = nat.chain
        /\ Applied(c, nat).chained = nat.chained
    BY <2>2, <2>3 DEF NatTable
  <2> QED  BY <1>0, <1>1, <2>1, <2>3, <2>4
<1>2. CASE c.cmd = "ensure"
  <2>1. c.rule \in Counted
    BY <1>2 DEF Command
  <2>2. CASE c.rule = "jump" => nat.chained
    <3> DEFINE rules ==
          [nat.rules EXCEPT ![c.rule] =
             IF nat.rules[c.rule] = 0 THEN 1 ELSE nat.rules[c.rule]]
    <3>1. Applied(c, nat) = [nat EXCEPT !.rules = rules]
      BY <1>2, <2>2 DEF Applied
    <3>2. /\ rules \in [Counted -> Nat]
          /\ \A r \in Counted : rules[r] = IF r = c.rule /\ nat.rules[r] = 0
                                          THEN 1 ELSE nat.rules[r]
      BY <1>0, <2>1
    <3> HIDE DEF rules
    <3>3. /\ Applied(c, nat) \in NatTable /\ Applied(c, nat).rules = rules
          /\ Applied(c, nat).chain = nat.chain
          /\ Applied(c, nat).chained = nat.chained
      BY <3>1, <3>2 DEF NatTable
    <3> QED  BY <1>0, <1>2, <2>1, <2>2, <3>2, <3>3
  <2>3. CASE ~(c.rule = "jump" => nat.chained)
    BY <1>2, <2>3 DEF Applied, NatTable
  <2> QED  BY <2>2, <2>3
<1>3. CASE c.cmd = "flush"
  <2>1. Applied(c, nat) = [nat EXCEPT !.chain = <<>>]
    BY <1>3 DEF Applied
  <2> QED  BY <1>0, <1>3, <2>1 DEF NatTable
<1>4. CASE c.cmd = "append"
  <2>1. c.rule \in {"private", "redirect"}
    BY <1>4 DEF Command
  <2>2. CASE nat.chained
    <3>1. Applied(c, nat) = [nat EXCEPT !.chain = Append(nat.chain, c.rule)]
      BY <1>4, <2>2 DEF Applied
    <3>2. Append(nat.chain, c.rule) \in Seq({"private", "redirect"})
      BY <1>0, <2>1
    <3> QED  BY <1>0, <1>4, <2>2, <3>1, <3>2 DEF NatTable
  <2>3. CASE ~nat.chained
    BY <1>4, <2>3 DEF Applied, NatTable
  <2> QED  BY <2>2, <2>3
<1>6. CASE c.cmd = "new"
  <2>1. Applied(c, nat) = [nat EXCEPT !.chained = TRUE]
    BY <1>6 DEF Applied
  <2> QED  BY <1>0, <1>6, <2>1 DEF NatTable
<1>5. CASE c.cmd \in {"configure", "restart", "stop"}
  BY <1>5 DEF Applied, NatTable
<1> QED  BY <1>1, <1>2, <1>3, <1>4, <1>5, <1>6 DEF Command
LEMMA SucceedFacts ==
  ASSUME Types, NEW c \in Command, Succeed(c)
  PROVE  /\ host'.nat = Applied(c, host.nat)
         /\ host'.conf = IF c.cmd = "configure" THEN "whole" ELSE host.conf
         /\ host'.redsocks = CASE c.cmd = "restart" -> host.conf = "whole"
                               [] c.cmd = "stop" -> FALSE
                               [] OTHER -> host.redsocks
         /\ UNCHANGED <<failed, sound>>
BY DEF Succeed

LEMMA FailFacts ==
  ASSUME Types, NEW c \in Command, Fail(c)
  PROVE  /\ "fail" \in trouble /\ failed' = failed + 1 /\ sound' = FALSE
         /\ host' \in [nat : NatTable, conf : {"absent", "torn", "whole"},
                        redsocks : BOOLEAN]
<1>1. /\ host.nat \in NatTable /\ host.conf \in {"absent", "torn", "whole"}
      /\ host.redsocks \in BOOLEAN
  BY DEF Types
<1>2. Duplicated(c, host.nat) \in NatTable
  <2>1. CASE c.cmd = "ensure" /\ (c.rule = "jump" => host.nat.chained)
    <3> DEFINE rules ==
          [host.nat.rules EXCEPT ![c.rule] = host.nat.rules[c.rule] + 1]
    <3>1. rules \in [Counted -> Nat]
      BY <1>1, <2>1 DEF NatTable, Command
    <3>2. Duplicated(c, host.nat) = [host.nat EXCEPT !.rules = rules]
      BY <2>1 DEF Duplicated
    <3> HIDE DEF rules
    <3> QED  BY <1>1, <3>1, <3>2 DEF NatTable
  <2>2. CASE ~(c.cmd = "ensure" /\ (c.rule = "jump" => host.nat.chained))
    BY <1>1, <2>2 DEF Duplicated
  <2> QED  BY <2>1, <2>2
<1>3. PICK nat \in NatTable, conf \in {"absent", "torn", "whole"},
           up \in BOOLEAN :
        host' = [nat |-> nat, conf |-> conf, redsocks |-> up]
  BY <1>1, <1>2 DEF Fail
<1> QED  BY <1>3 DEF Fail

LEMMA RunInv ==
  ASSUME Inv, UNCHANGED trouble, RunCommand
  PROVE  Inv'
<1> DEFINE c == Head(todo)
           k == Done
<1>1. /\ Types /\ Progress /\ target \in Mode
      /\ target' = target /\ mode' = mode
      /\ c \in Command /\ todo' \in Seq(Command) /\ Progress'
      /\ Done' = k + 1
      /\ Succeed(c) \/ Fail(c)
  BY RunFacts DEF Inv, RunCommand
<1>2. /\ target = "proxied" => k \in 0..9 /\ c = ProxiedCommands[k + 1]
      /\ target = "direct" => k \in 0..4 /\ c = DirectCommands[k + 1]
  <2>1. k \in 0..(Len(Commands(target)) - 1) /\ c = Commands(target)[k + 1]
    BY RunFacts DEF Inv
  <2>2. 0..(10 - 1) = 0..9 /\ 0..(5 - 1) = 0..4
    OBVIOUS
  <2> QED  BY <2>1, <2>2, CommandsFacts DEF Commands
<1>3. k \in 0..9 /\ k \in Nat
  BY <1>1, <1>2 DEF Mode
<1> HIDE DEF c, k
<1>4. CASE Fail(c)
  <2>0. /\ "fail" \in trouble /\ failed' = failed + 1 /\ sound' = FALSE
        /\ host' \in [nat : NatTable, conf : {"absent", "torn", "whole"},
                       redsocks : BOOLEAN]
    BY <1>1, <1>4, FailFacts
  <2>1. failed \in Nat /\ failed' \in Nat /\ failed' # 0
    BY <1>1, <2>0 DEF Types
  <2>2. Types' /\ ~sound' /\ "fail" \in trouble'
    BY <1>1, <2>0, <2>1 DEF Types
  <2> QED
    BY <1>1, <2>1, <2>2 DEF Inv, Clean, Sound, Effective, NoHole, Thin
<1>5. CASE Succeed(c)
  <2>1. /\ host'.nat = Applied(c, host.nat)
        /\ host'.conf = IF c.cmd = "configure" THEN "whole" ELSE host.conf
        /\ host'.redsocks = CASE c.cmd = "restart" -> host.conf = "whole"
                              [] c.cmd = "stop" -> FALSE
                              [] OTHER -> host.redsocks
        /\ UNCHANGED <<failed, sound>>
    BY <1>1, <1>5, SucceedFacts
  <2>2. host.nat \in NatTable
    BY <1>1 DEF Types
  <2>3. Types'
    <3>1. host'.nat \in NatTable
      BY <1>1, <2>1, <2>2, AppliedFacts
    <3>2. host' = [nat |-> host'.nat, conf |-> host'.conf,
                   redsocks |-> host'.redsocks]
      BY <1>5 DEF Succeed
    <3> QED  BY <1>1, <2>1, <3>1, <3>2 DEF Types
  <2>4. Sound' /\ Effective'
    BY <1>1, <2>1 DEF Inv, Sound, Effective, Mode
  <2> DEFINE nat == host.nat
  <2>5. /\ nat'.chain =
              CASE c.cmd = "flush" -> <<>>
                [] c.cmd = "append" /\ nat.chained -> Append(nat.chain, c.rule)
                [] OTHER -> nat.chain
        /\ nat'.chained = (nat.chained \/ c.cmd = "new")
        /\ \A r \in Counted :
              nat'.rules[r] =
                CASE c.cmd = "delete" /\ c.rule = r -> OneFewer(nat.rules[r])
                  [] c.cmd = "ensure" /\ c.rule = r /\ nat.rules[r] = 0
                       /\ (r = "jump" => nat.chained) -> 1
                  [] OTHER -> nat.rules[r]
    BY <1>1, <2>1, <2>2, AppliedFacts
  <2>6. /\ nat.chain \in Seq({"private", "redirect"})
        /\ \A r \in Counted : nat.rules[r] \in Nat
        /\ "jump" \in Counted /\ "direct" \in Counted
    BY <2>2 DEF NatTable, Counted
  <2>7. ASSUME target = "proxied", failed = 0
        PROVE  CleanProxied'
    <3>1. /\ k \in {2, 3} => nat.chain = <<>>
          /\ k >= 3 => nat.chained
          /\ k = 4 => nat.chain = <<"private">>
          /\ k >= 5 => nat.chain = <<"private", "redirect">>
          /\ k >= 6 => nat.rules["jump"] > 0
          /\ k >= 9 => host.conf = "whole"
      BY <2>7 DEF Inv, Clean, CleanProxied, k
    <3>2. nat'.chain = IF k = 1 THEN <<>>
                       ELSE IF k \in {3, 4} /\ nat.chained
                              THEN Append(nat.chain, c.rule) ELSE nat.chain
      BY <1>2, <1>3, <2>5, <2>7, Which
    <3>3. nat'.chained = (nat.chained \/ k = 2)
      BY <1>2, <1>3, <2>5, <2>7, Which
    <3>4. nat'.rules["jump"] = IF k = 5 /\ nat.chained /\ nat.rules["jump"] = 0
                                 THEN 1 ELSE nat.rules["jump"]
      BY <1>2, <1>3, <2>5, <2>6, <2>7, Which
    <3>5. /\ k = 3 => c.rule = "private"
          /\ k = 4 => c.rule = "redirect"
          /\ c.cmd = "configure" <=> k = 8
          /\ c.cmd = "restart" <=> k = 9
          /\ c.cmd # "stop"
      BY <1>2, <1>3, <2>7, Which
    <3>6. /\ Append(<<>>, "private") = <<"private">>
          /\ Append(<<"private">>, "redirect") = <<"private", "redirect">>
      BY AppendTuple
    <3>7. k + 1 \in {2, 3} => nat'.chain = <<>>
      BY <1>3, <3>1, <3>2
    <3>8. k + 1 = 4 => nat'.chain = <<"private">>
      <4> SUFFICES ASSUME k = 3 PROVE nat'.chain = <<"private">>
        BY <1>3
      <4>1. nat.chain = <<>> /\ nat.chained /\ c.rule = "private"
        BY <3>1, <3>5
      <4>2. nat'.chain = Append(nat.chain, c.rule)
        BY <3>2, <4>1
      <4> QED  BY <3>6, <4>1, <4>2
    <3>9. k + 1 >= 5 => nat'.chain = <<"private", "redirect">>
      <4>1. CASE k = 4
        <5>1. nat.chain = <<"private">> /\ nat.chained /\ c.rule = "redirect"
          BY <3>1, <3>5, <4>1
        <5>2. nat'.chain = Append(nat.chain, c.rule)
          BY <3>2, <4>1, <5>1
        <5> QED  BY <3>6, <5>1, <5>2
      <4>2. CASE k >= 5
        BY <1>3, <3>1, <3>2, <4>2
      <4> QED  BY <1>3, <4>1, <4>2
    <3>10. k + 1 >= 3 => nat'.chained
      <4>1. k + 1 >= 3 => k = 2 \/ k >= 3
        BY <1>3
      <4>2. k = 2 => nat'.chained
        BY <3>3
      <4>3. k >= 3 => nat'.chained
        BY <3>1, <3>3
      <4> QED  BY <4>1, <4>2, <4>3
    <3>11. k + 1 >= 6 => nat'.rules["jump"] > 0
      BY <1>3, <2>6, <3>1, <3>4
    <3>12. /\ k + 1 >= 9 => host'.conf = "whole"
           /\ k + 1 >= 10 => host'.redsocks
      <4>1. /\ k + 1 >= 9 => k = 8 \/ k >= 9
            /\ k + 1 >= 10 => k = 9 /\ k >= 9
        BY <1>3
      <4>2. k = 8 => host'.conf = "whole"
        BY <2>1, <3>5
      <4>3. k >= 9 => host'.conf = "whole"
        BY <2>1, <3>1
      <4>4. k = 9 => host'.redsocks = (host.conf = "whole")
        BY <2>1, <3>5
      <4> QED  BY <3>1, <4>1, <4>2, <4>3, <4>4
    <3> QED
      BY <1>1, <3>7, <3>8, <3>9, <3>10, <3>11, <3>12 DEF CleanProxied
  <2>8. ASSUME target = "direct", failed = 0
        PROVE  CleanDirect'
    <3>1. CleanDirect /\ k \in 0..4
      BY <1>2, <2>8 DEF Inv, Clean
    <3>2. nat'.chain = IF k = 2 THEN <<>> ELSE nat.chain
      BY <1>2, <1>3, <2>5, <2>8, <3>1, Which
    <3>3. nat'.rules["direct"] = IF k = 3 /\ nat.rules["direct"] = 0
                                   THEN 1 ELSE nat.rules["direct"]
      BY <1>2, <1>3, <2>5, <2>6, <2>8, <3>1, Which
    <3>4. k + 1 >= 3 => nat'.chain = <<>>
      BY <1>3, <3>1, <3>2 DEF CleanDirect, k
    <3>5. k + 1 >= 4 => nat'.rules["direct"] > 0
      BY <1>3, <2>6, <3>1, <3>3 DEF CleanDirect, k
    <3> QED  BY <1>1, <3>4, <3>5 DEF CleanDirect
  <2>9. Clean'
    BY <1>1, <2>1, <2>7, <2>8 DEF Clean
  <2>10. Thin'
    <3> SUFFICES ASSUME "fail" \notin trouble
                 PROVE  /\ \A r \in Counted : nat'.rules[r] <= 1
                        /\ Len(nat'.chain) <= 2
      BY <2>1 DEF Inv, Thin
    <3>1. /\ failed = 0 /\ Len(nat.chain) <= 2
          /\ \A r \in Counted : nat.rules[r] <= 1
      BY DEF Inv, Thin
    <3>2. \A r \in Counted : nat'.rules[r] <= 1
      <4> SUFFICES ASSUME NEW r \in Counted PROVE nat'.rules[r] <= 1
        OBVIOUS
      <4>1. nat'.rules[r] \in {nat.rules[r], 1, OneFewer(nat.rules[r])}
        BY <2>5
      <4> QED  BY <2>6, <3>1, <4>1 DEF OneFewer
    <3>3. Len(nat'.chain) <= 2
      <4>1. CASE nat'.chain = nat.chain
        BY <3>1, <4>1
      <4>2. CASE c.cmd = "flush"
        BY <2>5, <4>2
      <4>3. CASE c.cmd = "append"
        <5>1. target = "proxied" /\ k \in {3, 4}
          BY <1>1, <1>2, <1>3, <4>3, Which DEF Mode
        <5>2. \/ nat'.chain = <<"private">>
              \/ nat'.chain = <<"private", "redirect">>
          BY <1>1, <2>7, <3>1, <5>1 DEF CleanProxied
        <5>3. Len(<<"private">>) = 1 /\ Len(<<"private", "redirect">>) = 2
          OBVIOUS
        <5>4. CASE nat'.chain = <<"private">>
          BY <5>3, <5>4
        <5>5. CASE nat'.chain = <<"private", "redirect">>
          BY <5>3, <5>5
        <5> QED  BY <5>2, <5>4, <5>5
      <4> QED  BY <2>5, <4>1, <4>2, <4>3
    <3> QED  BY <3>2, <3>3
  <2>11. NoHole'
    <3> SUFFICES ASSUME sound, target = "direct"
                 PROVE  \/ host'.redsocks \/ nat'.rules["jump"] = 0
                        \/ \A i \in DOMAIN nat'.chain :
                             nat'.chain[i] # "redirect"
      BY <1>1, <2>1 DEF NoHole, Mode
    <3>1. /\ failed = 0 /\ k \in 0..4
          /\ k >= 3 => nat.chain = <<>>
          /\ \/ host.redsocks \/ nat.rules["jump"] = 0
             \/ \A i \in DOMAIN nat.chain : nat.chain[i] # "redirect"
      BY <1>2 DEF Inv, Sound, Clean, CleanDirect, NoHole, k
    <3>2. /\ nat'.chain = <<>> \/ nat'.chain = nat.chain
          /\ nat.rules["jump"] = 0 => nat'.rules["jump"] = 0
          /\ k < 4 => host'.redsocks = host.redsocks
      <4>1. /\ c.cmd \in {"delete", "flush", "ensure", "stop"}
            /\ c.cmd = "stop" <=> k = 4
            /\ c.cmd = "ensure" => c.rule = "direct"
        BY <1>2, <1>3, <3>1, Which
      <4>2. nat'.rules["jump"] \in
              {nat.rules["jump"], OneFewer(nat.rules["jump"])}
        BY <2>5, <2>6, <4>1
      <4>3. OneFewer(0) = 0
        BY DEF OneFewer
      <4>4. nat'.chain = <<>> \/ nat'.chain = nat.chain
        BY <2>5, <4>1
      <4>5. k < 4 => host'.redsocks = host.redsocks
        <5>1. k < 4 => k # 4
          BY <1>3
        <5> QED  BY <2>1, <4>1, <5>1
      <4> QED  BY <4>2, <4>3, <4>4, <4>5
    <3>3. CASE k = 4
      <4>1. nat'.chain = <<>>
        BY <3>1, <3>2, <3>3
      <4> QED  BY <4>1
    <3>4. CASE k < 4
      BY <3>1, <3>2, <3>4
    <3> QED  BY <3>1, <3>3, <3>4
  <2> QED  BY <1>1, <2>3, <2>4, <2>9, <2>10, <2>11 DEF Inv
<1> QED  BY <1>1, <1>4, <1>5
(* The memory is lost; the kernel keeps its rules through a crash.           *)
LEMMA LossInv ==
  ASSUME Inv, UNCHANGED trouble, Crash \/ Reboot
  PROVE  Inv'
<1>1. LoseMemory
  BY DEF Crash, Reboot
<1>2. host' = host \/ host' = [host EXCEPT !.nat = Bare, !.redsocks = FALSE]
  BY DEF Crash, Reboot
<1>3. /\ Bare \in NatTable /\ Len(Bare.chain) <= 2
      /\ \A r \in Counted : Bare.rules[r] <= 1
  BY DEF Bare, NatTable, Counted
<1>4. host'.nat = host.nat \/ host'.nat = Bare
  BY <1>2 DEF Inv, Types
<1>5. todo' \in Seq(Command)
  BY <1>1 DEF LoseMemory
<1>6. Types'
  BY <1>1, <1>2, <1>3, <1>5 DEF Inv, Types, LoseMemory, Mode
<1>7. Thin'
  BY <1>1, <1>3, <1>4 DEF Inv, Thin, LoseMemory
<1>8. Progress' /\ Clean' /\ Sound' /\ Effective' /\ NoHole'
  BY <1>1 DEF LoseMemory, Progress, Clean, Sound, Effective, NoHole
<1> QED  BY <1>6, <1>7, <1>8 DEF Inv

LEMMA NextInv == Inv /\ [Next]_vars => Inv'
<1> SUFFICES ASSUME Inv, [Next]_vars PROVE Inv'
  OBVIOUS
<1>1. CASE UNCHANGED vars
  <2>1. Done' = Done /\ Commands(target)' = Commands(target)
    BY <1>1 DEF vars, Done, Commands
  <2>2. Types' /\ Progress' /\ Sound' /\ Effective' /\ NoHole' /\ Thin'
    BY <1>1, <2>1
    DEF vars, Inv, Types, Progress, Sound, Effective, NoHole, Thin
  <2>3. Clean'
    BY <1>1, <2>1 DEF vars, Inv, Clean, CleanProxied, CleanDirect
  <2> QED  BY <2>2, <2>3 DEF Inv
<1>2. CASE Next
  BY <1>2, BeginInv, RunInv, EndInv, LossInv DEF Next
<1> QED  BY <1>1, <1>2

THEOREM Invariance == Spec => []Inv
  BY InitInv, NextInv, PTL DEF Spec

(* Mode, commands, nat table and redsocks keep their types.                  *)
THEOREM TypeCorrect == Spec => []TypeOK
<1>1. Inv => TypeOK
  BY TypesTypeOK DEF Inv
<1> QED  BY <1>1, Invariance, PTL

(* A switch without a failed command makes the mode effective, whatever      *)
(* earlier switches, crashes and reboots have left behind: the commands are  *)
(* enough on their own (Clean speaks of the commands of this switch only).   *)
THEOREM SwitchTakesEffect == Spec => []ModeIsEffective
<1>1. Inv => ModeIsEffective
  <2> SUFFICES ASSUME Inv, sound, target = "none"
               PROVE  /\ mode = "proxied" =>
                           Redirected /\ PrivatePasses /\ host.redsocks
                      /\ mode = "direct" =>
                           ~Redirected /\ host.nat.rules["direct"] > 0
    BY DEF ModeIsEffective, Inv, Types, Mode
  <2>1. CASE mode = "proxied"
    <3>1. /\ host.nat.rules["jump"] > 0 /\ host.redsocks
          /\ host.nat.chain = <<"private", "redirect">>
      BY <2>1 DEF Inv, Effective
    <3>2. /\ 2 \in DOMAIN <<"private", "redirect">>
          /\ <<"private", "redirect">>[1] = "private"
          /\ <<"private", "redirect">>[2] = "redirect"
      OBVIOUS
    <3> QED  BY <2>1, <3>1, <3>2 DEF Redirected, PrivatePasses
  <2>2. CASE mode = "direct"
    BY <2>2 DEF Inv, Effective, Redirected
  <2> QED  BY <2>1, <2>2 DEF Inv, Types, Mode
<1> QED  BY <1>1, Invariance, PTL

(* Leaving the proxied mode, redsocks stops last: no client is redirected to *)
(* a port where nothing listens.                                             *)
THEOREM RedsocksStopsLast == Spec => []NoBlackHole
<1>1. Inv => NoBlackHole
  BY DEF Inv, Types, NatTable, Counted, NoHole, NoBlackHole, Redirected
<1> QED  BY <1>1, Invariance, PTL

(* "Check or append" and the flush keep one copy of each rule, wherever a    *)
(* switch was cut off by a crash.                                            *)
THEOREM OneOfEach == Spec => []NoPileUp
<1>1. Inv => NoPileUp
  BY DEF Inv, Thin, NoPileUp
<1> QED  BY <1>1, Invariance, PTL
==============================================================================
