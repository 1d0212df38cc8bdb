---------------------------- MODULE NatController ----------------------------
(***************************************************************************)
(* NatController: forwarding between a tethered interface and its          *)
(* upstream.  As in BandwidthController, every operator is a plan.  All    *)
(* calls are for IPv4.  nat.natCount counts the enabled pairs,             *)
(* nat.ifacePairList the pairs that have a counting rule, which is never   *)
(* removed.                                                                *)
(***************************************************************************)
EXTENDS Iptables

NatReset == [natCount |-> 0, ifacePairList |-> {}]

\* A rule of natctrl_FORWARD for packets from one interface to another.
Forward(match, in, out, target) == << match, in, out, target >>

V4(call, reg) == << Ipt("v4", call, reg) >>
Checked(call) == << Ipt("v4", call, "res1"), ReturnIf("res1", <<>>) >>

\* The first failure ends setDefaults, and then natCount stays as it is.
setNatDefaults ==
    Checked(Call("F", "natctrl_FORWARD", All("")))
        \o Checked(Call("A", "natctrl_FORWARD", All("DROP")))
        \o Checked(Call("F", "natctrl_nat_POSTROUTING", All("")))
        \o << SetNat("natCount", 0) >>

setupNatHooks ==
    setNatDefaults
        \o V4(Call("F", "natctrl_tether_counters", All("")), "")
        \o V4(Call("X", "natctrl_tether_counters", All("")), "")
        \o Checked(Call("N", "natctrl_tether_counters", All("")))
        \o V4(Call("A", "natctrl_mangle_FORWARD", All("TCPMSS")), "")
        \o << SetNat("ifacePairList", {}) >>

\* The three rules of a pair: cmd1, cmd2 and cmd3 of setForwardRules.
Established(in, ext) == Forward("established", ext, in, "natctrl_tether_counters")
InvalidDrop(in, ext) == Forward("invalid", in, ext, "DROP")
Outgoing(in, ext) == Forward("all", in, ext, "natctrl_tether_counters")

\* Counting rules stick: they are only added, once per direction.
setTetherCountingRules(nat, in, ext, unwind) ==
    LET there == << in, ext >>
        back == << ext, in >>
        Count(from, to) ==
            V4(Call("A", "natctrl_tether_counters", Forward("all", from, to, "RETURN")), "res1")
                \o << ReturnIf("res1", unwind) >>
    IN IF there \in nat.ifacePairList THEN <<>>
       ELSE Count(in, ext) \o << SetNat("ifacePairList", nat.ifacePairList \cup {there}) >>
            \o (IF back \in nat.ifacePairList THEN <<>>
                ELSE Count(ext, in)
                     \o << SetNat("ifacePairList", nat.ifacePairList \cup {there, back}) >>)

\* What a failing enableNat undoes: its forwarding rules as far as
\* setForwardRules does, and everything when it would have been the only NAT.
Unwind(nat, calls) ==
    FlattenSeq([n \in DOMAIN calls |-> V4(calls[n], "")])
        \o (IF nat.natCount = 0 THEN setNatDefaults ELSE <<>>)

addForwardRules(nat, in, ext) ==
    LET chain == "natctrl_FORWARD"
        err_invalid_drop == << Call("D", chain, Established(in, ext)) >>
        err_return == << Call("D", chain, InvalidDrop(in, ext)) >> \o err_invalid_drop
    IN V4(Call("A", chain, Established(in, ext)), "res1") \o << ReturnIf("res1", Unwind(nat, <<>>)) >>
       \o V4(Call("A", chain, InvalidDrop(in, ext)), "res1")
       \o << ReturnIf("res1", Unwind(nat, err_invalid_drop)) >>
       \o V4(Call("A", chain, Outgoing(in, ext)), "res1")
       \o << ReturnIf("res1", Unwind(nat, err_return)) >>
       \o setTetherCountingRules(nat, in, ext, Unwind(nat, err_return))

\* Errors are ignored when the rules are deleted.
deleteForwardRules(in, ext) ==
    V4(Call("D", "natctrl_FORWARD", Established(in, ext)), "")
        \o V4(Call("D", "natctrl_FORWARD", InvalidDrop(in, ext)), "")
        \o V4(Call("D", "natctrl_FORWARD", Outgoing(in, ext)), "")


enableNat(nat, in, ext) ==
    IF in = ext THEN << Fail >>
    ELSE (IF nat.natCount # 0 THEN <<>>
          ELSE V4(Call("A", "natctrl_nat_POSTROUTING", Out(ext, "MASQUERADE")), "res1")
               \o << ReturnIf("res1", setNatDefaults) >>)
         \o addForwardRules(nat, in, ext)
         \o V4(Call("D", "natctrl_FORWARD", All("DROP")), "")
         \o V4(Call("A", "natctrl_FORWARD", All("DROP")), "")
         \o << IpRule("add", << in, ext >>, "res1"), ReturnIf("res1", Unwind(nat, <<>>)),
               SetNat("natCount", nat.natCount + 1) >>

disableNat(nat, in, ext) ==
    << IpRule("del", << in, ext >>, "res1"), ReturnIf("res1", <<>>) >>
        \o deleteForwardRules(in, ext)
        \o << SetNat("natCount", nat.natCount - 1) >>
        \o (IF nat.natCount <= 1 THEN << Sub(setNatDefaults) >> ELSE <<>>)
=============================================================================
