------------------------------ MODULE Iptables ------------------------------
(***************************************************************************)
(* The kernel's packet filter as netd drives it, and the way a command of  *)
(* netd runs.                                                              *)
(*                                                                         *)
(* netd changes the packet filter by running iptables and ip6tables, one   *)
(* process after another, and looks only at their exit status.  A command  *)
(* of BandwidthController, NatController, FirewallController or            *)
(* IdletimerController is therefore a plan: the sequence of the calls it   *)
(* makes, of the assignments to the controller's members between them, and *)
(* of the points where it returns early.  Run executes a plan; any call    *)
(* may fail, and netd may be killed before any call, which leaves in the   *)
(* kernel what was done so far.                                            *)
(*                                                                         *)
(* A chain is named without its table (no two tables have a chain of the   *)
(* same name here, but for FORWARD of "mangle").  A rule is a tuple        *)
(* <<match, in, out, target>>.                                             *)
(***************************************************************************)
EXTENDS Integers, FiniteSets, SequencesExt

Families == {"v4", "v6"}

\* Targets that are not chains; "" is a rule that only counts or matches.
Targets == {"", "REJECT", "DROP", "RETURN", "MASQUERADE", "TCPMSS", "IDLETIMER"}

\* Rules: from an interface, to an interface, any packet, of a user, beyond a
\* named xt_quota2 counter, of some local socket.
In(iface, target) == <<"all", iface, "", target>>
Out(iface, target) == <<"all", "", iface, target>>
All(target) == <<"all", "", "", target>>
Uid(uid, target) == <<"uid", uid, "", target>>
Quota2(name, target) == <<"quota2", name, "", target>>
SocketExists == <<"socket", "", "", "">>

-----------------------------------------------------------------------------
(***************************************************************************)
(* One call.  A call is [op, chain, rule, pos, bytes]; bytes is the value  *)
(* of a quota2 match, which is no part of the rule's identity.             *)
(***************************************************************************)
Call(op, chain, rule) == [op |-> op, chain |-> chain, rule |-> rule, pos |-> 1, bytes |-> 0]
CallAt(op, chain, rule, pos) == [Call(op, chain, rule) EXCEPT !.pos = pos]
CallQuota(op, chain, name, target, bytes) ==
    [Call(op, chain, Quota2(name, target)) EXCEPT !.bytes = bytes]

Referenced(chains, c) == \E d \in DOMAIN chains : \E i \in DOMAIN chains[d] : chains[d][i][4] = c

\* When the kernel accepts a call.
Accepts(chains, c) ==
    IF c.op = "N" THEN c.chain \notin DOMAIN chains
    ELSE /\ c.chain \in DOMAIN chains
         /\ c.op = "X" => chains[c.chain] = <<>> /\ ~Referenced(chains, c.chain)
         /\ c.op \in {"A", "I"} => c.rule[4] \in Targets \cup DOMAIN chains
         /\ c.op = "I" => c.pos <= Len(chains[c.chain]) + 1
         /\ c.op = "D" => Contains(chains[c.chain], c.rule)

\* The chains after an accepted call.
Changed(chains, c) ==
    CASE c.op = "N" -> chains @@ (c.chain :> <<>>)
      [] c.op = "X" -> Restrict(chains, DOMAIN chains \ {c.chain})
      [] c.op = "F" -> [chains EXCEPT ![c.chain] = <<>>]
      [] c.op = "A" -> [chains EXCEPT ![c.chain] = Append(@, c.rule)]
      [] c.op = "I" -> [chains EXCEPT ![c.chain] = InsertAt(@, c.pos, c.rule)]
      [] c.op = "D" -> [chains EXCEPT ![c.chain] = RemoveFirst(@, c.rule)]

\* The names of the quota2 counters that rules of the chains use.
CountersIn(chains) ==
    UNION {{chains[d][i][2] : i \in {j \in DOMAIN chains[d] : chains[d][j][1] = "quota2"}} :
              d \in DOMAIN chains}

\* A quota2 counter exists while a rule of either family names it; it starts
\* at the value of the rule that creates it.
Counters(quota2, v4, v6, bytes) ==
    [n \in CountersIn(v4) \cup CountersIn(v6) |-> IF n \in DOMAIN quota2 THEN quota2[n] ELSE bytes]

-----------------------------------------------------------------------------
(***************************************************************************)
(* Plans.  The state of an execution has the kernel's part (v4, v6,        *)
(* quota2, rules), the controllers' members (bw, nat), the local result    *)
(* variables (res, res1, res2: TRUE is a failure), "returned", "dead",     *)
(* and the fate of the execution: "left" calls from now one fails or netd  *)
(* is killed, as "fate" says.                                              *)
(***************************************************************************)
Ipt(family, call, reg) == [do |-> "iptables", family |-> family, call |-> call, reg |-> reg]

\* execIptables with target V4V6, runIpxtablesCmd: both families always run.
Ipx(call, reg) == << Ipt("v4", call, reg), Ipt("v6", call, reg) >>

\* A write to /proc/net/xt_quota/<name>.
WriteCounter(name, bytes, reg) == [do |-> "write", name |-> name, bytes |-> bytes, reg |-> reg]

\* ip rule add/del for a tethered pair.
IpRule(op, pair, reg) == [do |-> "rule", op |-> op, pair |-> pair, reg |-> reg]

\* Assignments to the members of a controller, to one and to all.
SetBw(member, value) == [do |-> "bw", member |-> member, value |-> value]
SetNat(member, value) == [do |-> "nat", member |-> member, value |-> value]
ResetBw(members) == [do |-> "reset bw", members |-> members]

\* Return when the result variable says failure; first run the unwind plan.
ReturnIf(reg, unwind) == [do |-> "return", reg |-> reg, unwind |-> unwind]

\* res = (res1 && res2) || (!res1 && !res2)
OneOf == [do |-> "oneof"]

\* A call of a function that has early returns of its own.
Sub(plan) == [do |-> "sub", plan |-> plan]

\* return -1, return 0
Fail == [do |-> "fail"]
ReturnOk == [do |-> "ok"]

-----------------------------------------------------------------------------
Result(s, reg, failed) ==
    IF reg = "" THEN s ELSE [s EXCEPT ![reg] = @ \/ failed]

\* A call of iptables or ip6tables.
RunIptables(s, i) ==
    LET ok == (s.fate = "fail" => s.left # 1) /\ Accepts(s[i.family], i.call)
        t == IF ok THEN [s EXCEPT ![i.family] = Changed(@, i.call)] ELSE s
        counts == ok /\ (i.call.op = "F" \/ i.call.rule[1] = "quota2")
    IN Result(IF counts THEN [t EXCEPT !.quota2 = Counters(@, t.v4, t.v6, i.call.bytes)] ELSE t,
              i.reg, ~ok)

RunWrite(s, i) ==
    LET ok == (s.fate = "fail" => s.left # 1) /\ i.name \in DOMAIN s.quota2
    IN Result(IF ok THEN [s EXCEPT !.quota2[i.name] = i.bytes] ELSE s, i.reg, ~ok)

\* The kernel refuses to add a rule twice and to delete a rule that is not there.
RunRule(s, i) ==
    LET ok == /\ s.fate = "fail" => s.left # 1
              /\ (i.op = "add") = (i.pair \notin s.rules)
    IN Result(IF ok THEN [s EXCEPT !.rules = IF i.op = "add" THEN @ \cup {i.pair} ELSE @ \ {i.pair}]
              ELSE s, i.reg, ~ok)

External == {"iptables", "write", "rule"}

\* One instruction that calls no other plan.
Simple(s, i) ==
    IF s.dead \/ s.returned THEN s
    ELSE IF i.do \in External
    THEN IF s.fate = "kill" /\ s.left = 1 THEN [s EXCEPT !.dead = TRUE]
         ELSE [(CASE i.do = "iptables" -> RunIptables(s, i)
                  [] i.do = "write" -> RunWrite(s, i)
                  [] i.do = "rule" -> RunRule(s, i)) EXCEPT !.left = @ - 1]
    ELSE CASE i.do = "bw" -> [s EXCEPT !.bw[i.member] = i.value]
           [] i.do = "reset bw" -> [s EXCEPT !.bw = i.members]
           [] i.do = "nat" -> [s EXCEPT !.nat[i.member] = i.value]
           [] i.do = "oneof" -> [s EXCEPT !.res = @ \/ (s.res1 = s.res2)]
           [] i.do = "fail" -> [s EXCEPT !.res = TRUE, !.returned = TRUE]
           [] i.do = "ok" -> [s EXCEPT !.res = FALSE, !.returned = TRUE]
           [] i.do = "return" -> [s EXCEPT !.returned = s[i.reg]]

RunSimple(s, plan) ==
    LET run[n \in 0..Len(plan)] == IF n = 0 THEN s ELSE Simple(run[n - 1], plan[n])
    IN run[Len(plan)]

\* A called plan has its own res1 and res2 and returns to its caller.
Called(s, plan) == RunSimple([s EXCEPT !.res1 = FALSE, !.res2 = FALSE], plan)

Step(s, i) ==
    IF s.dead \/ s.returned THEN s
    ELSE IF i.do = "sub" THEN [Called(s, i.plan) EXCEPT !.returned = FALSE]
    ELSE IF i.do = "return" /\ s[i.reg]
    THEN [Called(s, i.unwind) EXCEPT !.returned = TRUE, !.res = TRUE]
    ELSE Simple(s, i)

Run(s, plan) ==
    LET run[n \in 0..Len(plan)] == IF n = 0 THEN s ELSE Step(run[n - 1], plan[n])
    IN run[Len(plan)]

Start(kernel, bw, nat, fate, left) ==
    [v4 |-> kernel.v4, v6 |-> kernel.v6, quota2 |-> kernel.quota2, rules |-> kernel.rules,
     bw |-> bw, nat |-> nat, res |-> FALSE, res1 |-> FALSE, res2 |-> FALSE,
     returned |-> FALSE, dead |-> FALSE, fate |-> fate, left |-> left]

\* What happened in an execution: whether its fate struck, and the kernel after it.
Struck(s) == s.fate # "none" /\ (s.dead \/ s.left <= 0)
KernelOf(s) == [v4 |-> s.v4, v6 |-> s.v6, quota2 |-> s.quota2, rules |-> s.rules]
=============================================================================
