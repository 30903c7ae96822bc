------------------------------ MODULE MCClient ------------------------------
(* Instances of Client: how applications construct one, on a host that has a *)
(* loopback, a wired interface with four addresses, a tunnel, an interface   *)
(* that is down and one whose netmask has a hole.                            *)
EXTENDS Client

CONSTANTS mac, agent, other

Address(family, net, host, scope) ==
    [family |-> family, net |-> net, host |-> host, scope |-> scope]

V4(net, host) == Address("v4", net, host, "none")
AnyV6    == Address("v6", "zero", "any", "none")
Wired    == V4("lan", "h1")
LinkV6   == Address("v6", "fe80", "h1", "link")
SiteV6   == Address("v6", "fec0", "h1", "site")
GlobalV6 == Address("v6", "2001", "h1", "global")

Slash24 == <<255, 255, 255, 0>>

Interface(name, addr, index) ==
    [name |-> name, addr |-> addr, up |-> TRUE, ptp |-> FALSE,
     loopback |-> FALSE, mask |-> Slash24, index |-> index]

Lo == [Interface("lo", V4("loop", "h1"), 1) EXCEPT !.loopback = TRUE]

LoV6 == [Interface("lo", Address("v6", "loop", "h1", "none"), 1) EXCEPT
            !.loopback = TRUE]

Interfaces == <<
    Lo,
    [Interface("tun0", V4("vpn", "h1"), 4) EXCEPT !.ptp = TRUE],
    [Interface("odd0", V4("odd", "h1"), 6) EXCEPT !.mask = <<255, 0, 255, 0>>],
    Interface("eth0", Wired, 2),
    Interface("eth0", LinkV6, 2),
    Interface("eth0", SiteV6, 2),
    Interface("eth0", GlobalV6, 2),
    [Interface("eth1", V4("old", "h1"), 5) EXCEPT !.up = FALSE] >>

Nothing == [iface |-> NONE, ip |-> NONE, addr |-> NONE, mask |-> NONE,
            family |-> "v4", index |-> -1]

\* gssdp_client_new (NULL): everything is left to the client.
Default == [interfaces |-> Interfaces, device |-> Nothing, port |-> 0,
            allocate |-> FALSE, uda11 |-> FALSE, boot_id |-> -1,
            config_id |-> -1, pktinfo |-> TRUE, hosts |-> {},
            calls |-> FALSE]

At(addr) == [Nothing EXCEPT !.addr = addr]

MCGivens == {
    [Default EXCEPT !.allocate = TRUE, !.calls = TRUE],
    [Default EXCEPT !.port = 5001, !.uda11 = TRUE, !.boot_id = 1, !.calls = TRUE,
                    !.device.iface = "eth0",
                    !.device.mask = [net |-> "vpn", bits |-> 24]],
    [Default EXCEPT !.device.addr = AnyV6, !.hosts = {LinkV6}, !.port = 5001],
    [Default EXCEPT !.device.addr = SiteV6, !.port = 5001,
                    !.hosts = {SiteV6}],
    [Default EXCEPT !.device.addr = GlobalV6, !.port = 5001,
                    !.hosts = {GlobalV6}],
    [Default EXCEPT !.device.iface = "eth0", !.device.addr = Wired,
                    !.device.mask = [net |-> "lan", bits |-> 24],
                    !.port = 5001, !.pktinfo = FALSE,
                    !.hosts = {V4("lan", "h2"), V4("x", "h2")}],
    [Default EXCEPT !.device.ip = V4("nowhere", "h1")],
    [Default EXCEPT !.device.ip = V4("lan", "unparseable")],
    [Default EXCEPT !.device.ip = Wired, !.device.addr = LinkV6],
    [Default EXCEPT !.device.iface = "odd0"],
    [Default EXCEPT !.interfaces = <<Lo>>],
    [Default EXCEPT !.interfaces = <<LoV6>> \o Interfaces,
                    !.device.addr = AnyV6, !.port = 5001] }

\* A client with a port of its own
GivenPort == { [Default EXCEPT !.port = 5001] }

MCMACs   == {mac}
MCAgents == {agent, other}

\* The reference for PrefixLength: n bits of the mask are set, the first n.
IsPrefix(mask, n) ==
    \A k \in 1..(8 * Len(mask)) :
      (mask[1 + ((k - 1) \div 8)] \div 2^(7 - ((k - 1) % 8))) % 2
        = (IF k <= n THEN 1 ELSE 0)

ASSUME NetmaskAssumption ==
    \A mask \in [1..2 -> 0..255] :
      \/ IsPrefix(mask, PrefixLength(mask))
      \/ PrefixLength(mask) = -1 /\ \A n \in 0..16 : ~IsPrefix(mask, n)
=============================================================================
