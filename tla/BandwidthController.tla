------------------------- MODULE BandwidthController -------------------------
(***************************************************************************)
(* BandwidthController: data quotas and alerts of interfaces, the penalty  *)
(* box of background-restricted apps and the happy box of exempt ones.     *)
(* Every operator is the plan (see Iptables) of the method of that name,   *)
(* given the controller's members bw at the time of the call.              *)
(*                                                                         *)
(* bw.shared is sharedQuotaIfaces; bw.quota and bw.alert give quotaIfaces: *)
(* a quota of 0 is an interface that is not in the list.  A quota or an    *)
(* alert of 0 bytes is refused by every setter.                            *)
(***************************************************************************)
EXTENDS Iptables

CONSTANTS Ifaces   \* names of interfaces

Costly(name) == "bw_costly_" \o name
Alert(name) == name \o "Alert"
GlobalAlert == "globalAlert"

BwReset == [shared |-> <<>>, sharedQuota |-> 0, sharedAlert |-> 0,
            quota |-> [i \in Ifaces |-> 0], alert |-> [i \in Ifaces |-> 0],
            globalAlert |-> 0, tether |-> 0, naughty |-> <<>>, nice |-> <<>>]

\* runCommands of a table whose failures are ignored, and of one that stops
\* at the first failure.
FailureOk(calls) == << Sub(FlattenSeq([n \in DOMAIN calls |-> Ipx(calls[n], "")])) >>
FailureBad(calls, reg) ==
    << Sub(FlattenSeq([n \in DOMAIN calls |-> Append(Ipx(calls[n], reg), ReturnIf(reg, <<>>))])) >>

Flush(chain) == Call("F", chain, All(""))
Delete(chain) == Call("X", chain, All(""))
New(chain) == Call("N", chain, All(""))

IPT_FLUSH_COMMANDS ==
    << Flush("bw_INPUT"), Flush("bw_OUTPUT"), Flush("bw_FORWARD"), Flush("bw_happy_box"),
       Flush("bw_penalty_box"), Flush("bw_costly_shared"), Flush("bw_raw_PREROUTING"),
       Flush("bw_mangle_POSTROUTING") >>

IPT_CLEANUP_COMMANDS ==
    << Delete("bw_happy_box"), Delete("bw_penalty_box"), Delete("bw_costly_shared") >>

IPT_SETUP_COMMANDS == << New("bw_happy_box"), New("bw_penalty_box"), New("bw_costly_shared") >>

IPT_BASIC_ACCOUNTING_COMMANDS ==
    << Call("A", "bw_INPUT", SocketExists), Call("A", "bw_OUTPUT", SocketExists),
       Call("A", "bw_costly_shared", All("bw_penalty_box")),
       Call("A", "bw_raw_PREROUTING", SocketExists),
       Call("A", "bw_mangle_POSTROUTING", SocketExists) >>

\* Interfaces with a costly chain of their own among the chains of IPv4, the
\* only ones parseAndFlushCostlyTables looks at.
CostlyIfaces(kernel) == {i \in Ifaces : Costly(i) \in DOMAIN kernel.v4}

flushExistingCostlyTables(ifaces, doClean) ==
    FailureOk(FlattenSeq([n \in DOMAIN ifaces |->
        IF doClean THEN << Flush(Costly(ifaces[n])), Delete(Costly(ifaces[n])) >>
        ELSE << Flush(Costly(ifaces[n])) >>]))

flushCleanTables(kernel, doClean) ==
    flushExistingCostlyTables(SetToSeq(CostlyIfaces(kernel)), doClean)
        \o FailureOk(IPT_FLUSH_COMMANDS)
        \o (IF doClean THEN FailureOk(IPT_CLEANUP_COMMANDS) ELSE <<>>)

setupBandwidthHooks(kernel) ==
    flushCleanTables(kernel, TRUE) \o FailureBad(IPT_SETUP_COMMANDS, "res1")

\* Let's pretend we started from scratch ...
Forget == << ResetBw(BwReset) >>

enableBandwidthControl(kernel) ==
    Forget \o flushCleanTables(kernel, FALSE)
           \o FailureBad(IPT_BASIC_ACCOUNTING_COMMANDS, "res")

disableBandwidthControl(kernel) == flushCleanTables(kernel, FALSE)

-----------------------------------------------------------------------------
\* Faulty variant: a jump that is there already is not deleted first.
BugEnableHappyBox(bw) ==
    Ipx(New("bw_happy_box"), "") \o << SetBw("nice", <<>>) >>
        \o Ipx(Flush("bw_happy_box"), "res")
        \o Ipx(Call("A", "bw_penalty_box", All("bw_happy_box")), "res")
        \o Ipx(Call("A", "bw_happy_box", All("REJECT")), "res")

enableHappyBox(bw) ==
    Ipx(New("bw_happy_box"), "") \o << SetBw("nice", <<>>) >>
        \o Ipx(Flush("bw_happy_box"), "res")
        \o Ipx(Call("D", "bw_penalty_box", All("bw_happy_box")), "")
        \o Ipx(Call("A", "bw_penalty_box", All("bw_happy_box")), "res")
        \o Ipx(Call("D", "bw_happy_box", All("REJECT")), "")
        \o Ipx(Call("A", "bw_happy_box", All("REJECT")), "res")

disableHappyBox(bw) ==
    Ipx(Call("D", "bw_penalty_box", All("bw_happy_box")), "") \o << SetBw("nice", <<>>) >>
        \o Ipx(Flush("bw_happy_box"), "") \o Ipx(Delete("bw_happy_box"), "")

\* One app of the list a command names: the loop stops at the first failure.
addSpecialApp(list, member, uid, chain, target) ==
    IF Contains(list, uid) THEN << Fail >>
    ELSE << SetBw(member, << uid >> \o list) >> \o Ipx(Call("I", chain, Uid(uid, target)), "res")
             \o << ReturnIf("res", Ipx(Call("D", chain, Uid(uid, target)), "")) >>

removeSpecialApp(list, member, uid, chain, target) ==
    IF ~Contains(list, uid) THEN << Fail >>
    ELSE << SetBw(member, RemoveFirst(list, uid)) >> \o Ipx(Call("D", chain, Uid(uid, target)), "res")
             \o << ReturnIf("res", Ipx(Call("D", chain, Uid(uid, target)), "")) >>

addNaughtyApps(bw, uid) == addSpecialApp(bw.naughty, "naughty", uid, "bw_penalty_box", "REJECT")
removeNaughtyApps(bw, uid) == removeSpecialApp(bw.naughty, "naughty", uid, "bw_penalty_box", "REJECT")
addNiceApps(bw, uid) == addSpecialApp(bw.nice, "nice", uid, "bw_happy_box", "RETURN")
removeNiceApps(bw, uid) == removeSpecialApp(bw.nice, "nice", uid, "bw_happy_box", "RETURN")

-----------------------------------------------------------------------------
updateQuota(name, bytes, reg) == << WriteCounter(name, bytes, reg) >>

\* Faulty variant: the old jump is not deleted first.
BugJumpToCostly(bw, iface, chain) ==
    Ipx(CallAt("I", "bw_INPUT", In(iface, chain), 1), "res")
        \o Ipx(CallAt("I", "bw_OUTPUT", Out(iface, chain), 1), "res")

\* The part of prepCostlyIface that is the same for both types of quota.
JumpToCostly(bw, iface, chain) ==
    LET pos == IF bw.globalAlert # 0 THEN 2 ELSE 1 IN
    Ipx(Call("D", "bw_INPUT", In(iface, chain)), "")
        \o Ipx(CallAt("I", "bw_INPUT", In(iface, chain), pos), "res")
        \o Ipx(Call("D", "bw_OUTPUT", Out(iface, chain)), "")
        \o Ipx(CallAt("I", "bw_OUTPUT", Out(iface, chain), pos), "res")

prepCostlyUnique(bw, iface) ==
    LET chain == Costly(iface) IN
    Ipx(Flush(chain), "res1") \o Ipx(New(chain), "res2") \o << OneOf >>
        \o Ipx(Call("A", chain, All("bw_penalty_box")), "res")
        \o JumpToCostly(bw, iface, chain)

prepCostlyShared(bw, iface) == JumpToCostly(bw, iface, "bw_costly_shared")

cleanupCostlyShared(iface) ==
    Ipx(Call("D", "bw_INPUT", In(iface, "bw_costly_shared")), "res")
        \o Ipx(Call("D", "bw_OUTPUT", Out(iface, "bw_costly_shared")), "res")

cleanupCostlyUnique(iface) ==
    LET chain == Costly(iface) IN
    Ipx(Call("D", "bw_INPUT", In(iface, chain)), "res")
        \o Ipx(Call("D", "bw_OUTPUT", Out(iface, chain)), "res")
        \o Ipx(Flush(chain), "res") \o Ipx(Delete(chain), "res")

removeCostlyAlert(name, bytes) ==
    Ipx(CallQuota("D", Costly(name), Alert(name), "", bytes), "res")

\* It will also cleanup any shared alerts, and ignores how that went.
removeInterfaceSharedQuota(bw, iface) ==
    IF ~Contains(bw.shared, iface) THEN << Fail >>
    ELSE cleanupCostlyShared(iface) \o << SetBw("shared", RemoveFirst(bw.shared, iface)) >>
         \o (IF bw.shared # << iface >> THEN <<>>
             ELSE Ipx(CallQuota("D", "bw_costly_shared", "shared", "REJECT", bw.sharedQuota), "res")
                  \o << SetBw("sharedQuota", 0) >>
                  \o (IF bw.sharedAlert = 0 THEN <<>>
                      ELSE Ipx(CallQuota("D", "bw_costly_shared", Alert("shared"), "", bw.sharedAlert), "")
                           \o << SetBw("sharedAlert", 0) >>))

setInterfaceSharedQuota(bw, iface, bytes) ==
    LET new == ~Contains(bw.shared, iface)
        first == bw.shared = <<>>
        added == IF new THEN << iface >> \o bw.shared ELSE bw.shared
    IN (IF ~new THEN <<>> ELSE prepCostlyShared(bw, iface))
       \o (IF ~first THEN <<>>
           ELSE Ipx(CallQuota("I", "bw_costly_shared", "shared", "REJECT", bytes), "res")
                \o << ReturnIf("res", << Fail >>), SetBw("sharedQuota", bytes) >>)
       \o << SetBw("shared", added) >>
       \o (IF first \/ bytes = bw.sharedQuota THEN << ReturnOk >>
           ELSE updateQuota("shared", bytes, "res")
                \o << ReturnIf("res", removeInterfaceSharedQuota([bw EXCEPT !.shared = added], iface)),
                      SetBw("sharedQuota", bytes) >>)

\* Faulty variant: a quota that is set already is not updated in the kernel.
BugSetInterfaceQuota(bw, iface, bytes) ==
    (IF bw.quota[iface] # 0 THEN <<>>
     ELSE prepCostlyUnique(bw, iface)
          \o Ipx(CallQuota("A", Costly(iface), iface, "REJECT", bytes), "res"))
    \o << ReturnIf("res", removeInterfaceSharedQuota(bw, iface)),
          SetBw("quota", [bw.quota EXCEPT ![iface] = bytes]) >>

setInterfaceQuota(bw, iface, bytes) ==
    LET Unwind == << ReturnIf("res", removeInterfaceSharedQuota(bw, iface)),
                     SetBw("quota", [bw.quota EXCEPT ![iface] = bytes]) >>
    IN IF bw.quota[iface] = 0
       THEN prepCostlyUnique(bw, iface)
            \o Ipx(CallQuota("A", Costly(iface), iface, "REJECT", bytes), "res") \o Unwind
       ELSE updateQuota(iface, bytes, "res") \o Unwind

removeInterfaceQuota(bw, iface) ==
    IF bw.quota[iface] = 0 THEN << Fail >>
    ELSE cleanupCostlyUnique(iface)
         \o << SetBw("quota", [bw.quota EXCEPT ![iface] = 0]),
               SetBw("alert", [bw.alert EXCEPT ![iface] = 0]) >>

-----------------------------------------------------------------------------
runIptablesAlertCmd(op, bytes) ==
    Ipx(CallQuota(op, "bw_INPUT", GlobalAlert, "", bytes), "res")
        \o Ipx(CallQuota(op, "bw_OUTPUT", GlobalAlert, "", bytes), "res")

runIptablesAlertFwdCmd(op, bytes) == Ipx(CallQuota(op, "bw_FORWARD", GlobalAlert, "", bytes), "res")

setGlobalAlert(bw, bytes) ==
    (IF bw.globalAlert # 0 THEN updateQuota(GlobalAlert, bytes, "res")
     ELSE runIptablesAlertCmd("I", bytes)
          \o (IF bw.tether # 0 THEN runIptablesAlertFwdCmd("I", bytes) ELSE <<>>))
    \o << SetBw("globalAlert", bytes) >>

removeGlobalAlert(bw) ==
    IF bw.globalAlert = 0 THEN << Fail >>
    ELSE runIptablesAlertCmd("D", bw.globalAlert)
         \o (IF bw.tether # 0 THEN runIptablesAlertFwdCmd("D", bw.globalAlert) ELSE <<>>)
         \o << SetBw("globalAlert", 0) >>

setGlobalAlertInForwardChain(bw) ==
    << SetBw("tether", bw.tether + 1) >>
    \o (IF bw.globalAlert = 0 \/ bw.tether # 0 THEN <<>>
        ELSE runIptablesAlertFwdCmd("I", bw.globalAlert))

removeGlobalAlertInForwardChain(bw) ==
    IF bw.tether = 0 THEN << Fail >>
    ELSE << SetBw("tether", bw.tether - 1) >>
         \o (IF bw.globalAlert = 0 \/ bw.tether > 1 THEN <<>>
             ELSE runIptablesAlertFwdCmd("D", bw.globalAlert))

\* The counter of an alert that is set already is written with the old value.
setCostlyAlert(name, bytes, old) ==
    IF old # 0 THEN updateQuota(Alert(name), old, "res")
    ELSE Ipx(CallQuota("A", Costly(name), Alert(name), "", bytes), "res")

setSharedAlert(bw, bytes) ==
    IF bw.sharedQuota = 0 THEN << Fail >>
    ELSE setCostlyAlert("shared", bytes, bw.sharedAlert) \o << SetBw("sharedAlert", bytes) >>

removeSharedAlert(bw) ==
    IF bw.sharedAlert = 0 THEN << Fail >>
    ELSE removeCostlyAlert("shared", bw.sharedAlert) \o << SetBw("sharedAlert", 0) >>

setInterfaceAlert(bw, iface, bytes) ==
    IF bw.quota[iface] = 0 THEN << Fail >>
    ELSE setCostlyAlert(iface, bytes, bw.alert[iface])
         \o << SetBw("alert", [bw.alert EXCEPT ![iface] = bytes]) >>

removeInterfaceAlert(bw, iface) ==
    IF bw.quota[iface] = 0 \/ bw.alert[iface] = 0 THEN << Fail >>
    ELSE removeCostlyAlert(iface, bw.alert[iface])
         \o << SetBw("alert", [bw.alert EXCEPT ![iface] = 0]) >>
=============================================================================
