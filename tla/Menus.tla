-------------------------------- MODULE Menus --------------------------------
(***************************************************************************)
(* The menus of the command line (cli/menu): for every command that runs a *)
(* handler, the privilege it takes (the highest on its path from the root, *)
(* since a node whose mask fails hides those below it), the types of       *)
(* interface one of which it takes, if any, the handler, and what kind of  *)
(* argument selects among its effects.  The words of the commands, their   *)
(* help and the patterns of their arguments are left out, but for the      *)
(* limits of the numbers that CommandLine uses.                            *)
(***************************************************************************)
EXTENDS Naturals

Types == {"switched", "routed", "vif"}

\* Commands of one privilege, and of interfaces of the given types.
RunsFor(types, priv, handlers) ==
    {[priv |-> priv, types |-> types, run |-> h, arg |-> "none"] : h \in handlers}
Runs(priv, handlers) == RunsFor({}, priv, handlers)
With(arg, priv, h) == {[priv |-> priv, types |-> {}, run |-> h, arg |-> arg]}

\* cli_mask_apply() on each node of the path.
Permitted(entry, level, types) ==
    entry.priv <= level /\ (entry.types = {} \/ entry.types \cap types # {})

-----------------------------------------------------------------------------
(* Subtrees that several commands share.                                   *)

\* The nodes below "show cdp neighbors" and "show ip igmp snooping groups".
NeighborDetail == Runs(1, {"cmd_sh_cdp_ne"})
IgmpGroups     == Runs(1, {"cmd_sh_ip_igmps_groups"})

\* "| begin", "| exclude", "| include" and "| grep" run the command left of
\* them through a filter.
OutputModifiers == Runs(1, {"swcli_output_modifiers_run"})

\* Ethernet <0-24>, vlan <1-4094> (an interface, or just the VLAN), netdev
\* WORD and address H.H.H.
IfEther(priv, h)  == With("ethernet", priv, h)
IfVlan(priv, h)   == With("vlan", priv, h)
IfNetdev(priv, h) == With("netdev", priv, h)
Vlan(priv, h)     == With("vlan", priv, h)
Address(priv, h)  == With("address", priv, h)

ConfigInterface ==
    IfEther(1, "cmd_int_any") \cup IfVlan(1, "cmd_int_any") \cup IfNetdev(1, "cmd_int_any")

\* static H.H.H vlan <1-4094> interface ...
MacAddrTableStatic == IfEther(15, "cmd_macstatic") \cup IfNetdev(15, "cmd_macstatic")

ConfigVlanNode == Runs(15, {"cmd_vlan"})

\* dynamic, with an address, an interface or a VLAN: below "clear".
ClearMacAddrT ==
    LET h == "cmd_cl_mac_addr_t" IN
    Runs(2, {h}) \cup Address(2, h) \cup IfEther(2, h) \cup IfNetdev(2, h) \cup Vlan(2, h)

\* address, aging-time, dynamic, interface, static and vlan: below "show".
ShowMacAddrT ==
    LET h == "cmd_sh_mac_addr_t" IN
    Runs(1, {h, "cmd_sh_mac_age"}) \cup Address(1, h) \cup IfEther(1, h)
    \cup IfNetdev(1, h) \cup Vlan(1, h) \cup OutputModifiers

-----------------------------------------------------------------------------
(* The menu a session starts in.                                           *)

\* Mutant: "configure terminal" takes no privilege, as "reload" takes none.
ExecShellOpen ==
    Runs(2, {"cmd_disable"})
    \cup Runs(1, {"cmd_conf_t", "cmd_enable", "cmd_quit", "cmd_help", "cmd_ping", "cmd_reload"})

\* clear mac address-table and clear mac-address-table.
ExecClear == ClearMacAddrT

\* configure, disable, enable, exit, help, logout, ping, reload and quit.
ExecShell ==
    Runs(15, {"cmd_conf_t"}) \cup Runs(2, {"cmd_disable"})
    \cup Runs(1, {"cmd_enable", "cmd_quit", "cmd_help", "cmd_ping", "cmd_reload"})

ShowCdpEntry == Runs(1, {"cmd_sh_cdp", "cmd_sh_cdp_entry", "cmd_sh_clock"}) \cup OutputModifiers

\* show cdp holdtime, interface, neighbors, run, timer and traffic.
ShowCdp ==
    Runs(1, {"cmd_sh_cdp_holdtime", "cmd_sh_cdp_run", "cmd_sh_cdp_timer",
             "cmd_sh_cdp_traffic"})
    \cup Runs(1, {"cmd_sh_cdp_int"}) \cup IfEther(1, "cmd_sh_cdp_int")
    \cup IfNetdev(1, "cmd_sh_cdp_int")
    \cup NeighborDetail \cup IfEther(1, "cmd_sh_cdp_ne")
    \cup IfNetdev(1, "cmd_sh_cdp_ne") \cup OutputModifiers

\* show history and interfaces, show ip igmp snooping.
ShowIp ==
    Runs(1, {"cmd_history", "cmd_sh_int", "cmd_sh_ip", "cmd_sh_ip_igmps",
             "cmd_sh_ip_igmps_mrouter"}) \cup IgmpGroups
    \cup IfEther(1, "cmd_sh_int") \cup IfVlan(1, "cmd_sh_int")
    \cup IfNetdev(1, "cmd_sh_int") \cup OutputModifiers

\* show mac, mac-address-table, privilege, running-config, startup-config and
\* version.
ShowRunning ==
    Runs(1, {"cmd_sh_mac_addr_t", "cmd_show_start", "cmd_show_ver"}) \cup ShowMacAddrT
    \cup Runs(2, {"cmd_show_priv", "cmd_show_run"}) \cup IfEther(2, "cmd_show_run")
    \cup IfVlan(2, "cmd_show_run") \cup IfNetdev(2, "cmd_show_run") \cup OutputModifiers

ShowVlan == Runs(1, {"cmd_show_vlan"}) \cup OutputModifiers

\* traceroute and write memory.
ExecWrite == Runs(1, {"cmd_trace"}) \cup Runs(15, {"cmd_write_mem"})

MenuMain ==
    ExecClear \cup ExecShell \cup ShowCdpEntry \cup ShowCdp \cup ShowIp
    \cup ShowRunning \cup ShowVlan \cup ExecWrite

-----------------------------------------------------------------------------
(* The configuration menu.                                                 *)

\* ip igmp snooping, vlan <1-4094>, mrouter interface.
ConfigIp ==
    Runs(2, {"cmd_ip_igmp_snooping"}) \cup IfEther(2, "cmd_add_mrouter")
    \cup IfNetdev(2, "cmd_add_mrouter")

\* rstp run, cdp advertise-v2, cdp holdtime, cdp timer and cdp run.
ConfigCdp ==
    Runs(15, {"cmd_rstp_run", "cmd_cdp_v2", "cmd_cdp_holdtime", "cmd_cdp_timer",
              "cmd_cdp_run"})
HoldtimeLimits == 10 .. 255
TimerLimits    == 5 .. 254

\* enable secret, with a level and with an encrypted password.
ConfigEnable == Runs(15, {"cmd_setenpw", "cmd_setenpw_encrypted"})

\* end, exit, hostname, interface, line vty.
ConfigShell ==
    Runs(15, {"cmd_end", "cmd_hostname", "cmd_linevty"}) \cup ConfigInterface

\* mac-address-table aging-time and static.
ConfigMac == Runs(15, {"cmd_set_aging"}) \cup MacAddrTableStatic

\* no rstp run, no cdp, no enable secret, no hostname and no interface.
ConfigNoShell ==
    Runs(15, {"cmd_rstp_run", "cmd_cdp_v2", "cmd_cdp_run", "cmd_noensecret",
              "cmd_hostname"})
    \cup IfEther(15, "cmd_no_int_any") \cup IfVlan(15, "cmd_no_int_any")
    \cup IfNetdev(15, "cmd_no_int_any")

\* no ip igmp snooping, like "ip".
ConfigNoIp ==
    Runs(15, {"cmd_ip_igmp_snooping"}) \cup IfEther(15, "cmd_add_mrouter")
    \cup IfNetdev(15, "cmd_add_mrouter")

\* no mac-address-table, no vlan, and vlan.
ConfigNoMac == Runs(15, {"cmd_set_aging"}) \cup MacAddrTableStatic \cup ConfigVlanNode

ConfigMain ==
    ConfigIp \cup ConfigCdp \cup ConfigEnable \cup ConfigShell \cup ConfigMac
    \cup ConfigNoShell \cup ConfigNoIp \cup ConfigNoMac

-----------------------------------------------------------------------------
(* The menus below it.                                                     *)

\* rstp, cdp, description and duplex.
IfCdp ==
    RunsFor({"switched"}, 2, {"cmd_rstp_if_set", "cmd_cdp_if_set", "cmd_speed_duplex"})
    \cup Runs(2, {"cmd_if_desc"})

\* end, exit, help, interface and ip address.
IfShell ==
    Runs(2, {"cmd_end", "cmd_exit", "cmd_help"}) \cup ConfigInterface
    \cup RunsFor({"routed", "vif"}, 2, {"cmd_ip"})

\* no rstp, no cdp, no description, no duplex and no ip address: whatever the
\* type of the interface.
IfNoCdp ==
    Runs(2, {"cmd_rstp_if_set", "cmd_cdp_if_set", "cmd_if_desc", "cmd_speed_duplex",
             "cmd_ip"})

\* no shutdown, no speed and no switchport, likewise.
IfNoSwitchport ==
    Runs(2, {"cmd_shutdown", "cmd_speed_duplex", "cmd_swport", "cmd_acc_vlan",
             "cmd_nomode", "cmd_trunk_vlan"})

\* shutdown and speed.
IfSpeed == Runs(2, {"cmd_shutdown"}) \cup RunsFor({"switched"}, 2, {"cmd_speed_duplex"})

\* switchport access, mode and trunk, then vlan.
IfSwitchport ==
    RunsFor({"switched", "routed"}, 2,
            {"cmd_swport", "cmd_acc_vlan", "cmd_setmode", "cmd_trunk_vlan"})
    \cup ConfigVlanNode

ConfigIfMain == IfCdp \cup IfShell \cup IfNoCdp \cup IfNoSwitchport \cup IfSpeed \cup IfSwitchport

\* exit, name, no name and vlan.
ConfigVlanMain == Runs(15, {"cmd_exit", "cmd_namevlan"}) \cup ConfigVlanNode

\* password, exit and end.
ConfigLineMain == Runs(15, {"cmd_setpw", "cmd_exit", "cmd_end"})

MenuOf == [root \in {"exec", "config", "config-if", "config-vlan", "config-line"} |->
             CASE root = "exec"        -> MenuMain
               [] root = "config"      -> ConfigMain
               [] root = "config-if"   -> ConfigIfMain
               [] root = "config-vlan" -> ConfigVlanMain
               [] root = "config-line" -> ConfigLineMain]

\* The handlers a session may run and their arguments, by menu, privilege and types.
Offered ==
    [root \in DOMAIN MenuOf |-> [level \in 1 .. 15 |-> [types \in SUBSET Types |->
        {<<e.run, e.arg>> : e \in {f \in MenuOf[root] : Permitted(f, level, types)}}]]]
=============================================================================
