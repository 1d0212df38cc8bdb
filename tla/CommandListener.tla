--------------------------- MODULE CommandListener ---------------------------
(***************************************************************************)
(* The commands of CommandListener that change the packet filter: those of *)
(* bandwidth, nat, firewall and idletimer.  One thread runs all commands   *)
(* of all clients, one at a time, so a command is one step: it runs the    *)
(* plan of the controller's method.  In a step one call of iptables (or    *)
(* one write to /proc, or one netlink request) may fail, or netd may be    *)
(* killed; init starts netd again, which sets up the hooks in a kernel     *)
(* that still holds what was there.                                        *)
(*                                                                         *)
(* A behaviour uses the commands of one group, with the names and values   *)
(* of the group.                                                           *)
(***************************************************************************)
EXTENDS BandwidthController, NatController, FirewallController

CONSTANTS Groups,        \* records: commands, and the interfaces, bytes, apps and
                         \* <<internal, external>> pairs of NATs they name
          MaxTrouble,    \* bound on the calls that fail and the times netd is killed
          MaxRules,      \* bound on the rules of a chain whose length no code limits
          MaxTethers     \* bound on globalAlertTetherCount, for the debug command

VARIABLES kernel,   \* the packet filter: [v4, v6, quota2, rules]
          bw, nat,  \* the members of BandwidthController and NatController
          up,       \* netd has started and accepts commands
          intact,   \* controllers none of whose commands went wrong since the last reset
          group,    \* the group of commands this behaviour uses
          faults, crashes

vars == << kernel, bw, nat, up, intact, group, faults, crashes >>

-----------------------------------------------------------------------------
FILTER_INPUT == << "bw_INPUT", "fw_INPUT" >>
FILTER_FORWARD == << "oem_fwd", "fw_FORWARD", "bw_FORWARD", "natctrl_FORWARD" >>
FILTER_OUTPUT == << "oem_out", "fw_OUTPUT", "bw_OUTPUT" >>
RAW_PREROUTING == << "bw_raw_PREROUTING", "idletimer_raw_PREROUTING" >>
MANGLE_POSTROUTING == << "bw_mangle_POSTROUTING", "idletimer_mangle_POSTROUTING" >>
MANGLE_FORWARD == << "natctrl_mangle_FORWARD" >>
NAT_PREROUTING == << "oem_nat_pre" >>
NAT_POSTROUTING == << "natctrl_nat_POSTROUTING" >>

\* Faulty variant: a chain that exists is neither detached nor flushed.
BugCreateChildChains(families, parent, children) ==
    LET Exec(call) == IF families = Families THEN Ipx(call, "") ELSE << Ipt("v4", call, "") >> IN
    [n \in DOMAIN children |->
        Sub(Exec(Delete(children[n])) \o Exec(New(children[n]))
                \o Exec(Call("A", parent, All(children[n]))))]

\* Order is important: -D removes the reference that would keep -X from working.
createChildChains(families, parent, children) ==
    LET Exec(call) == IF families = Families THEN Ipx(call, "") ELSE << Ipt("v4", call, "") >> IN
    [n \in DOMAIN children |->
        Sub(Exec(Call("D", parent, All(children[n]))) \o Exec(Flush(children[n]))
                \o Exec(Delete(children[n])) \o Exec(New(children[n]))
                \o Exec(Call("A", parent, All(children[n]))))]

\* The constructor, in four plans: the chains of the filter table, the chains of
\* the other tables and the hooks of NAT, the hooks of bandwidth control, and
\* bandwidth control itself, which finds no costly chain left.
Startup(k) ==
    << createChildChains(Families, "INPUT", FILTER_INPUT)
           \o createChildChains(Families, "FORWARD", FILTER_FORWARD)
           \o createChildChains(Families, "OUTPUT", FILTER_OUTPUT),
       createChildChains(Families, "PREROUTING", RAW_PREROUTING)
           \o createChildChains(Families, "POSTROUTING", MANGLE_POSTROUTING)
           \o createChildChains({"v4"}, "mangle FORWARD", MANGLE_FORWARD)
           \o createChildChains({"v4"}, "nat PREROUTING", NAT_PREROUTING)
           \o createChildChains({"v4"}, "nat POSTROUTING", NAT_POSTROUTING)
           \o << Sub(setupNatHooks) >>,
       setupBandwidthHooks(k),
       enableBandwidthControl([k EXCEPT !.v4 = [c \in {} |-> <<>>]]) >>

BuiltIn == {"INPUT", "FORWARD", "OUTPUT", "PREROUTING", "POSTROUTING"}
BuiltInV4 == BuiltIn \cup {"mangle FORWARD", "nat PREROUTING", "nat POSTROUTING"}

\* The kernel after the device has booted, before netd starts.
Booted == [v4 |-> [c \in BuiltInV4 |-> <<>>], v6 |-> [c \in BuiltIn |-> <<>>],
           quota2 |-> [n \in {} |-> 0], rules |-> {}]

Controllers == {"bandwidth", "nat", "tether", "firewall", "idletimer"}

Init ==
    /\ kernel = Booted
    /\ bw = BwReset
    /\ nat = NatReset
    /\ up = FALSE
    /\ intact = Controllers
    /\ group \in Groups
    /\ faults = 0
    /\ crashes = 0

-----------------------------------------------------------------------------
\* Executions that begin now, one for each fate, and what a plan makes of them.
Begin(fates) == {Start(kernel, bw, nat, f[1], f[2]) : f \in fates}
After(executions, plan) == {Run(s, plan) : s \in executions}
Constructed(executions, plans) ==
    After(After(After(After(executions, plans[1]), plans[2]), plans[3]), plans[4])

\* The calls of the one execution that nothing disturbs.
Undisturbed == Begin({<< "none", 0 >>})
Calls(executions) == -(CHOOSE s \in executions : TRUE).left

\* The fates of a plan: each of its calls may fail, and netd may be killed
\* before each of them.
Fates(calls) ==
    {<< "none", 0 >>}
        \cup {<< "fail", n >> : n \in IF faults + crashes < MaxTrouble THEN 1..calls ELSE {}}
        \cup {<< "kill", n >> : n \in IF faults + crashes < MaxTrouble THEN 1..calls ELSE {}}

\* netd dies with what it had in memory.
Die(s) ==
    /\ kernel' = KernelOf(s)
    /\ up' = FALSE
    /\ bw' = BwReset
    /\ nat' = NatReset
    /\ crashes' = crashes + 1
    /\ UNCHANGED << intact, group, faults >>

\* A command answers: Intact(s, bad) are the controllers that are as their
\* members say, where bad tells that something failed on the way.
Answer(s, Intact(_, _)) ==
    /\ kernel' = KernelOf(s)
    /\ bw' = s.bw
    /\ nat' = s.nat
    /\ intact' = Intact(s, Struck(s) \/ (s.res /\ s.left < 0))
    /\ faults' = faults + (IF Struck(s) THEN 1 ELSE 0)
    /\ UNCHANGED << up, group, crashes >>

Command(plan, Intact(_, _)) ==
    \E p \in {plan} : \E s \in After(Begin(Fates(Calls(After(Undisturbed, p)))), p) :
        IF s.dead THEN Die(s) ELSE Answer(s, Intact)

\* RouteController::Init, at the end, begins by flushing the ip rules.
Restart ==
    /\ ~up
    /\ \E p \in {Startup(kernel)} :
       \E fates \in {Fates(Calls(Constructed(Undisturbed, p)))} :
       \E s \in Constructed(Begin({f \in fates : f[1] # "fail"}), p) :
          \/ s.dead /\ Die(s)
          \/ /\ ~s.dead
             /\ up' = TRUE
             /\ kernel' = [KernelOf(s) EXCEPT !.rules = {}]
             /\ bw' = s.bw
             /\ nat' = s.nat
             /\ intact' = Controllers \ (IF s.res THEN {"bandwidth"} ELSE {})
             /\ UNCHANGED << group, faults, crashes >>

-----------------------------------------------------------------------------
\* bandwidth: a command that fails, or one of whose calls does, may leave rules
\* that the members do not tell of, until "bandwidth enable" resets everything.
BwIntact(s, bad) == IF bad THEN intact \ {"bandwidth"} ELSE intact

EnableIntact(s, bad) ==
    (IF bad THEN intact \ {"bandwidth"} ELSE intact \cup {"bandwidth"})
        \ (IF nat.natCount # 0 THEN {"tether"} ELSE {})

\* Quotas and alerts of bandwidth off; the members stay.
DisableIntact(s, bad) == intact \ {"bandwidth"}

BandwidthEnable == Command(enableBandwidthControl(kernel), EnableIntact)
BandwidthDisable == Command(disableBandwidthControl(kernel), DisableIntact)

SharedQuotaCmd ==
    \E i \in group.ifaces :
        \/ \E b \in group.bytes : Command(setInterfaceSharedQuota(bw, i, b), BwIntact)
        \/ Command(removeInterfaceSharedQuota(bw, i), BwIntact)

SharedAlertCmd ==
    \/ \E b \in group.bytes : Command(setSharedAlert(bw, b), BwIntact)
    \/ Command(removeSharedAlert(bw), BwIntact)

QuotaCmd ==
    \E i \in group.ifaces :
        \/ \E b \in group.bytes : Command(setInterfaceQuota(bw, i, b), BwIntact)
        \/ Command(removeInterfaceQuota(bw, i), BwIntact)

AlertCmd ==
    \E i \in group.ifaces :
        \/ \E b \in group.bytes : Command(setInterfaceAlert(bw, i, b), BwIntact)
        \/ Command(removeInterfaceAlert(bw, i), BwIntact)

\* debugsettetherglobalalert and debugremovetetherglobalalert: a tether that is no
\* NAT.  The two controllers count differently then, until both count none.
DebugIntact(s, bad) ==
    (BwIntact(s, bad) \ {"tether"}) \cup (IF s.bw.tether = 0 /\ nat.natCount = 0 THEN {"tether"} ELSE {})

DebugTetherGlobalAlert ==
    /\ "debugtether" \in group.commands
    /\ \/ bw.tether < MaxTethers /\ Command(setGlobalAlertInForwardChain(bw), DebugIntact)
       \/ Command(removeGlobalAlertInForwardChain(bw), DebugIntact)

GlobalAlertCmd ==
    \/ \E b \in group.bytes : Command(setGlobalAlert(bw, b), BwIntact)
    \/ Command(removeGlobalAlert(bw), BwIntact)
    \/ DebugTetherGlobalAlert

NaughtyAppsCmd ==
    \E u \in group.apps :
        \/ Command(addNaughtyApps(bw, u), BwIntact)
        \/ Command(removeNaughtyApps(bw, u), BwIntact)

NiceAppsCmd ==
    \E u \in group.apps :
        \/ Command(addNiceApps(bw, u), BwIntact)
        \/ Command(removeNiceApps(bw, u), BwIntact)

HappyBoxCmd ==
    \/ Command(enableHappyBox(bw), BwIntact)
    \/ Command(disableHappyBox(bw), BwIntact)

-----------------------------------------------------------------------------
\* nat: an enableNat that fails while no other NAT is on is unwound by
\* setDefaults, one that fails while another is on leaves rules behind.
NatEnableIntact(s, bad) ==
    intact \ ((IF bad /\ s.nat.natCount > 0 THEN {"nat"} ELSE {})
                \cup (IF bad /\ s.nat.natCount > nat.natCount THEN {"bandwidth"} ELSE {}))

\* A disable that fails has given back the tether count of the alert already.
NatDisableIntact(s, bad) ==
    ((intact \ ((IF Struck(s) THEN {"nat", "bandwidth"} ELSE {})
                \cup (IF s.res THEN {"tether"} ELSE {})))
     \cup (IF ~Struck(s) /\ nat.natCount = 1 /\ s.nat.natCount = 0 THEN {"nat"} ELSE {}))
     \cup (IF s.nat.natCount = 0 /\ s.bw.tether = 0 THEN {"tether"} ELSE {})

\* Faulty variant: the alert is set before it is known whether the NAT is.
BugNatEnable(in, ext) ==
    Command(setGlobalAlertInForwardChain(bw) \o enableNat(nat, in, ext), NatEnableIntact)

NatEnable(in, ext) ==
    Command(enableNat(nat, in, ext) \o setGlobalAlertInForwardChain(bw), NatEnableIntact)

NatDisable(in, ext) ==
    Command(<< Sub(removeGlobalAlertInForwardChain(bw)) >> \o disableNat(nat, in, ext),
            NatDisableIntact)

NatCmd ==
    \E pair \in group.pairs :
        \/ /\ Len(kernel.v4["natctrl_FORWARD"]) <= 3 * MaxRules - 2
           /\ NatEnable(pair[1], pair[2])
        \/ NatDisable(pair[1], pair[2])

-----------------------------------------------------------------------------
\* firewall, idletimer: only a call that fails alone leaves the chains unequal; a
\* rule that is not there is there in none of them.
FwIntact(s, bad) == IF Struck(s) THEN intact \ {"firewall"} ELSE intact
IdleIntact(s, bad) == IF Struck(s) THEN intact \ {"idletimer"} ELSE intact

\* These begin by flushing the chains.
FwResetIntact(s, bad) == IF bad THEN intact \ {"firewall"} ELSE intact \cup {"firewall"}
IdleResetIntact(s, bad) == IF bad THEN intact \ {"idletimer"} ELSE intact \cup {"idletimer"}

\* allow inserts whatever there is: the bound on it.
Room(chain, rule) ==
    rule = "allow" => \A f \in Families : Len(kernel[f][chain]) < MaxRules

FirewallCmd ==
    \/ Command(enableFirewall, FwResetIntact)
    \/ Command(disableFirewall, FwResetIntact)
    \/ \E rule \in Rules :
        /\ Room("fw_INPUT", rule)
        /\ \/ \E i \in group.ifaces : Command(setInterfaceRule(i, rule), FwIntact)
           \/ \E f \in Families : Command(setEgressSourceRule(f, f, rule), FwIntact)
           \/ \E f \in Families : Command(setEgressDestRule(f, f, "tcp", rule)
                                          \o setEgressDestRule(f, f, "udp", rule), FwIntact)
           \/ \E u \in group.apps : Command(setUidRule(u, rule), FwIntact)

IdletimerControlCmd ==
    \/ Command(setIdletimerDefaults, IdleResetIntact)
    \/ \E i \in group.ifaces :
        \/ /\ Room("idletimer_raw_PREROUTING", "allow")
           /\ Command(modifyInterfaceIdletimer("A", i), IdleIntact)
        \/ Command(modifyInterfaceIdletimer("D", i), IdleIntact)

-----------------------------------------------------------------------------
Does(commands) == up /\ commands \in group.commands

Next ==
    \/ Restart
    \/ Does("bandwidth") /\ (BandwidthEnable \/ BandwidthDisable)
    \/ Does("globalalert") /\ GlobalAlertCmd
    \/ Does("shared") /\ SharedQuotaCmd
    \/ Does("sharedalert") /\ SharedAlertCmd
    \/ Does("quota") /\ QuotaCmd
    \/ Does("alert") /\ AlertCmd
    \/ Does("apps") /\ (NaughtyAppsCmd \/ NiceAppsCmd \/ HappyBoxCmd)
    \/ Does("nat") /\ NatCmd
    \/ Does("firewall") /\ FirewallCmd
    \/ Does("idletimer") /\ IdletimerControlCmd

Spec == Init /\ [][Next]_vars

-----------------------------------------------------------------------------
AlertIf(bytes, name) == IF bytes = 0 THEN <<>> ELSE << Quota2(name, "") >>

\* The rules of a chain: first the alert, if any, last the counting rule, and in
\* between each of the jumps exactly once.
HookChain(chain, alert, jumps) ==
    /\ Len(chain) = Len(alert) + Cardinality(jumps) + 1
    /\ SubSeq(chain, 1, Len(alert)) = alert
    /\ Last(chain) = SocketExists
    /\ ToSet(chain) = ToSet(alert) \cup jumps \cup {SocketExists}

\* The rules of a chain, each once, the first of them in the order given and the
\* alert anywhere.
Exactly(chain, rules, alert) ==
    /\ Len(chain) = Len(rules) + Len(alert)
    /\ SelectSeq(chain, LAMBDA r : ~Contains(alert, r)) = rules
    /\ ToSet(alert) \subseteq ToSet(chain)

\* Traffic of an interface with a quota (prepCostlyIface, setInterfaceQuota,
\* setInterfaceSharedQuota) passes its costly chain exactly once in each
\* direction and family, after the global alert has seen it and before it is
\* counted, and in the costly chain meets the penalty box, the quota and the alert
\* that is set exactly once.  An own quota comes after the penalty box, "or else a
\* naughty app could just eat up the quota", the shared one before it.  This
\* holds through any sequence of set, update and remove commands, none of which
\* went wrong since bandwidth control was enabled, "which resets everything" also
\* after one did.
CostlyTrafficIsLimited ==
    up /\ "bandwidth" \in intact =>
    \A f \in Families :
        LET alert == AlertIf(bw.globalAlert, GlobalAlert)
            own == {i \in Ifaces : bw.quota[i] # 0}
            shared == ToSet(bw.shared)
            chains == kernel[f]
        IN /\ HookChain(chains["bw_INPUT"], alert,
                        {In(i, Costly(i)) : i \in own} \cup {In(i, "bw_costly_shared") : i \in shared})
           /\ HookChain(chains["bw_OUTPUT"], alert,
                        {Out(i, Costly(i)) : i \in own} \cup {Out(i, "bw_costly_shared") : i \in shared})
           /\ \A i \in own :
                  Exactly(chains[Costly(i)], << All("bw_penalty_box"), Quota2(i, "REJECT") >>,
                          AlertIf(bw.alert[i], Alert(i)))
           /\ Exactly(chains["bw_costly_shared"],
                      (IF shared = {} THEN <<>> ELSE << Quota2("shared", "REJECT") >>) \o << All("bw_penalty_box") >>,
                      AlertIf(bw.sharedAlert, Alert("shared")))

\* Every quota in force has its counter in the kernel, with the bytes that were
\* last set (makeIptablesQuotaCmd, updateQuota), shared by both families; no
\* counter outlives its quota or alert, as long as no call has failed: the reset
\* of "bandwidth enable" does not see a costly chain that only IPv6 has.
CountersMatchQuotas ==
    up /\ "bandwidth" \in intact =>
    /\ \A i \in Ifaces : bw.quota[i] # 0 => kernel.quota2[i] = bw.quota[i]
    /\ bw.shared # <<>> => kernel.quota2["shared"] = bw.sharedQuota
    /\ bw.globalAlert # 0 => kernel.quota2[GlobalAlert] = bw.globalAlert
    /\ faults = 0 => DOMAIN kernel.quota2 =
          {i \in Ifaces : bw.quota[i] # 0} \cup {Alert(i) : i \in {j \in Ifaces : bw.alert[j] # 0}}
              \cup (IF bw.shared # <<>> THEN {"shared"} ELSE {})
              \cup (IF bw.sharedAlert # 0 THEN {Alert("shared")} ELSE {})
              \cup (IF bw.globalAlert # 0 THEN {GlobalAlert} ELSE {})

UidRules(list, target) == [n \in DOMAIN list |-> Uid(list[n], target)]

\* The penalty box rejects exactly the apps of naughtyAppUids and ends with the
\* happy box when that is on; the happy box lets exactly the apps of niceAppUids
\* through and rejects all others, whatever the order of the commands
\* (manipulateSpecialApps, enableHappyBox, disableHappyBox).
BoxesMatchLists ==
    up /\ "bandwidth" \in intact =>
    \A f \in Families :
        LET naughty == UidRules(bw.naughty, "REJECT")
            penalty == kernel[f]["bw_penalty_box"]
        IN \/ /\ penalty = naughty
              /\ bw.nice # <<>> => kernel[f]["bw_happy_box"] = UidRules(bw.nice, "RETURN")
           \/ /\ penalty = Append(naughty, All("bw_happy_box"))
              /\ kernel[f]["bw_happy_box"] = Append(UidRules(bw.nice, "RETURN"), All("REJECT"))


\* The global alert sees forwarded traffic exactly while a tether is counted, once
\* however many are ("We only add the rule if this was the 1st tether added"), in
\* whatever order alert and tethers come and go, also when tethers are counted by
\* the debug commands, when "nat disable" named no NAT, and when bandwidth control
\* is enabled anew (setGlobalAlertInForwardChain, removeGlobalAlertInForwardChain).
\* The tethers counted are the NATs (NatCmd), but after such a command.
AlertFollowsTethering ==
    up /\ "bandwidth" \in intact =>
    /\ \A f \in Families : kernel[f]["bw_FORWARD"] =
           (IF bw.tether = 0 THEN <<>> ELSE AlertIf(bw.globalAlert, GlobalAlert))
    /\ "tether" \in intact => bw.tether = nat.natCount

\* The rule for the other direction.
Mirror(r) ==
    IF r = All("DROP") THEN All("REJECT")
    ELSE IF r[1] = "uid" THEN r ELSE << r[1], r[3], r[2], r[4] >>
MirrorAll(chain) == [n \in DOMAIN chain |-> Mirror(chain[n])]

\* A firewall or idletimer rule is there for both directions and, unless it is
\* about an address, both families, at the same place, and nothing follows the
\* rule that drops the rest (FirewallController, modifyInterfaceIdletimer).
RulesArePaired ==
    LET raw == "idletimer_raw_PREROUTING"
        General(chain) == SelectSeq(chain, LAMBDA r : r[1] \in {"all", "uid"})
        In4 == kernel.v4["fw_INPUT"]
    IN /\ up /\ "firewall" \in intact =>
              /\ \A f \in Families :
                    /\ kernel[f]["fw_OUTPUT"] = MirrorAll(kernel[f]["fw_INPUT"])
                    /\ General(kernel[f]["fw_INPUT"]) = General(In4)
                    /\ \A n \in DOMAIN kernel[f]["fw_INPUT"] :
                          kernel[f]["fw_INPUT"][n] = All("DROP") => n = Len(kernel[f]["fw_INPUT"])
                    /\ Contains(In4, All("DROP")) = (kernel[f]["fw_FORWARD"] = << All("REJECT") >>)
       /\ up /\ "idletimer" \in intact =>
              \A f \in Families : /\ kernel[f][raw] = kernel.v4[raw]
                                  /\ kernel[f]["idletimer_mangle_POSTROUTING"] = MirrorAll(kernel.v4[raw])

\* The chains a packet can reach, as they should be after a start: the hooks in
\* the order of the tables above, and in their chains only what counts and drops.
Jumps(children) == [n \in DOMAIN children |-> All(children[n])]

Parents == [INPUT |-> FILTER_INPUT, FORWARD |-> FILTER_FORWARD, OUTPUT |-> FILTER_OUTPUT,
            PREROUTING |-> RAW_PREROUTING, POSTROUTING |-> MANGLE_POSTROUTING]

CleanHooks(chains) ==
    /\ \A p \in DOMAIN Parents : chains[p] = Jumps(Parents[p])
    /\ \A c \in {"bw_INPUT", "bw_OUTPUT", "bw_raw_PREROUTING", "bw_mangle_POSTROUTING"} :
          chains[c] = << SocketExists >>
    /\ chains["bw_costly_shared"] = << All("bw_penalty_box") >>
    /\ \A c \in {"bw_FORWARD", "bw_penalty_box", "bw_happy_box", "fw_INPUT", "fw_OUTPUT", "fw_FORWARD",
                 "idletimer_raw_PREROUTING", "idletimer_mangle_POSTROUTING"} : chains[c] = <<>>

CleanNat(chains) ==
    /\ chains["mangle FORWARD"] = Jumps(MANGLE_FORWARD)
    /\ chains["nat PREROUTING"] = Jumps(NAT_PREROUTING)
    /\ chains["nat POSTROUTING"] = Jumps(NAT_POSTROUTING)
    /\ chains["natctrl_FORWARD"] = << All("DROP") >>
    /\ chains["natctrl_mangle_FORWARD"] = << All("TCPMSS") >>
    /\ chains["natctrl_nat_POSTROUTING"] = <<>>
    /\ chains["natctrl_tether_counters"] = <<>>

\* Wherever netd was killed, and whatever it left in the kernel, starting it
\* again makes every chain a packet can reach what it is after the first start
\* (createChildChains, setupIptablesHooks), as long as no call has failed.
RestartIsClean ==
    [][ ~up /\ up' /\ faults = 0 =>
          /\ kernel'.rules = {}
          /\ \A f \in Families : CleanHooks(kernel'[f])
          /\ CleanNat(kernel'.v4) ]_vars
=============================================================================
