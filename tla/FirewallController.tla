------------------------- MODULE FirewallController -------------------------
(***************************************************************************)
(* FirewallController and IdletimerController, which keep no state of      *)
(* their own: every operator is the plan (see Iptables) of a method.       *)
(***************************************************************************)
EXTENDS Iptables

Rules == {"allow", "deny"}

\* ALLOW inserts, DENY deletes.
FirewallOp(rule) == IF rule = "allow" THEN "I" ELSE "D"

disableFirewall ==
    Ipx(Call("F", "fw_INPUT", All("")), "res") \o Ipx(Call("F", "fw_OUTPUT", All("")), "res")
        \o Ipx(Call("F", "fw_FORWARD", All("")), "res")

\* How the flush went is ignored.
enableFirewall ==
    Ipx(Call("F", "fw_INPUT", All("")), "") \o Ipx(Call("F", "fw_OUTPUT", All("")), "")
        \o Ipx(Call("F", "fw_FORWARD", All("")), "")
        \o Ipx(Call("A", "fw_INPUT", All("DROP")), "res")
        \o Ipx(Call("A", "fw_OUTPUT", All("REJECT")), "res")
        \o Ipx(Call("A", "fw_FORWARD", All("REJECT")), "res")

setInterfaceRule(iface, rule) ==
    Ipx(Call(FirewallOp(rule), "fw_INPUT", In(iface, "RETURN")), "res")
        \o Ipx(Call(FirewallOp(rule), "fw_OUTPUT", Out(iface, "RETURN")), "res")

\* The address decides the family.
setEgressSourceRule(family, addr, rule) ==
    << Ipt(family, Call(FirewallOp(rule), "fw_INPUT", << "address", "", addr, "RETURN" >>), "res"),
       Ipt(family, Call(FirewallOp(rule), "fw_OUTPUT", << "address", addr, "", "RETURN" >>), "res") >>

setEgressDestRule(family, addr, protocol, rule) ==
    << Ipt(family, Call(FirewallOp(rule), "fw_INPUT", << protocol, addr, "", "RETURN" >>), "res"),
       Ipt(family, Call(FirewallOp(rule), "fw_OUTPUT", << protocol, "", addr, "RETURN" >>), "res") >>

setUidRule(uid, rule) ==
    Ipx(Call(FirewallOp(rule), "fw_INPUT", Uid(uid, "RETURN")), "res")
        \o Ipx(Call(FirewallOp(rule), "fw_OUTPUT", Uid(uid, "RETURN")), "res")

-----------------------------------------------------------------------------
\* enableIdletimerControl and disableIdletimerControl are both setDefaults.
setIdletimerDefaults ==
    Ipx(Call("F", "idletimer_raw_PREROUTING", All("")), "res") \o << ReturnIf("res", <<>>) >>
        \o Ipx(Call("F", "idletimer_mangle_POSTROUTING", All("")), "res")

\* Faulty variant: the second rule is always appended.
BugModifyInterfaceIdletimer(op, iface) ==
    Ipx(Call(op, "idletimer_raw_PREROUTING", In(iface, "IDLETIMER")), "res") \o << ReturnIf("res", <<>>) >>
        \o Ipx(Call("A", "idletimer_mangle_POSTROUTING", Out(iface, "IDLETIMER")), "res")

modifyInterfaceIdletimer(op, iface) ==
    Ipx(Call(op, "idletimer_raw_PREROUTING", In(iface, "IDLETIMER")), "res") \o << ReturnIf("res", <<>>) >>
        \o Ipx(Call(op, "idletimer_mangle_POSTROUTING", Out(iface, "IDLETIMER")), "res")
=============================================================================
