------------------------------ MODULE NetDevice ------------------------------
(***************************************************************************)
(* Choosing the network device of a client (libgssdp/gssdp-net-posix.c and *)
(* init_network_info of gssdp-client.c), as functions of the interfaces    *)
(* the system has and of what the application gave.                        *)
(*                                                                         *)
(* An address is [family, net, host]; a mask is the [net, bits] it stands  *)
(* for.  The host "any" is the address that only chooses a family.         *)
(***************************************************************************)
EXTENDS Integers, Sequences, FiniteSets

CONSTANT NONE    \* the null pointer

-----------------------------------------------------------------------------
(* Netmasks.                                                               *)

\* bits_map: the ones of a nibble that has its ones first, else nothing.
NibbleBits(n) ==
    CASE n = 0 -> 0 [] n = 8 -> 1 [] n = 12 -> 2 [] n = 14 -> 3 [] n = 15 -> 4
      [] OTHER -> -1

\* The ones of a byte that ends a mask, -1 if they do not come first.
ByteBits(b) ==
    LET hi == b \div 16
        lo == b % 16
    IN  IF \/ hi # 15 /\ lo # 0
           \/ NibbleBits(hi) = -1
           \/ NibbleBits(lo) = -1
        THEN -1
        ELSE NibbleBits(hi) + NibbleBits(lo)

\* The byte that ends a mask: the first one that is not full.
LastByte(mask) ==
    CHOOSE i \in DOMAIN mask :
      mask[i] # 255 /\ \A j \in 1..(i-1) : mask[j] = 255

\* get_netmask of a mask given as bytes: its length, -1 if it has holes.
\* What follows the byte that ends it must be zero.
PrefixLength(mask) ==
    LET last == LastByte(mask)
    IN  IF \A i \in DOMAIN mask : mask[i] = 255
        THEN 8 * Len(mask)
        ELSE IF \/ \E i \in DOMAIN mask : i > last /\ mask[i] # 0
                \/ ByteBits(mask[last]) = -1
        THEN -1
        ELSE 8 * (last - 1) + ByteBits(mask[last])

GetNetmask(ifa) ==
    IF PrefixLength(ifa.mask) = -1 THEN NONE
    ELSE [net |-> ifa.addr.net, bits |-> PrefixLength(ifa.mask)]

\* g_inet_address_mask_matches
Matches(mask, addr) == mask.net = addr.net

-----------------------------------------------------------------------------
(* What the functions below are given: the list of getifaddrs, and what an *)
(* application may say of a device.                                        *)

IsList(ifas) == Len(ifas) \in Nat /\ DOMAIN ifas = 1..Len(ifas)

IsDevice(device) ==
    {"iface", "ip", "addr", "mask", "family", "index"} \subseteq DOMAIN device

-----------------------------------------------------------------------------
(* gssdp_net_get_host_ip                                                   *)

\* Mutant: interfaces that are down are considered.
WorthyIfDown(ifa, device) ==
    /\ device.iface \in {NONE, ifa.name}
    /\ ~ifa.ptp

\* The first loop keeps what is up, not point to point and has the name.
Worthy(ifa, device) ==
    /\ device.iface \in {NONE, ifa.name}
    /\ ifa.up /\ ~ifa.ptp

\* Interfaces prepended to the list; the others are appended.
Prepended(ifa) == ifa.addr.family = "v4" /\ ~ifa.loopback

\* An address given decides the family, and if it is "any", nothing else.
WantedFamily(device) ==
    IF device.addr = NONE THEN device.family ELSE device.addr.family

GivenAddr(device) ==
    IF device.addr # NONE /\ device.addr.host = "any" THEN NONE ELSE device.addr

\* The second loop: the family and the address, if there is one, must match.
Suits(ifa, device) ==
    /\ Worthy(ifa, device)
    /\ ifa.addr.family = WantedFamily(device)
    /\ GivenAddr(device) \in {NONE, ifa.addr}

\* The index of the interface chosen: the last of the prepended ones, else
\* the first of the appended ones.
Chosen(ifas, device) ==
    LET suited == {i \in DOMAIN ifas : Suits(ifas[i], device)}
        front  == {i \in suited : Prepended(ifas[i])}
        back   == suited \ front
    IN  IF front # {} THEN CHOOSE i \in front : \A j \in front : j <= i
        ELSE CHOOSE i \in back : \A j \in back : i <= j

\* gssdp_net_query_ifindex of the interface the device names
IndexOf(ifas, name) ==
    IF \E i \in DOMAIN ifas : ifas[i].name = name
    THEN ifas[CHOOSE i \in DOMAIN ifas : ifas[i].name = name].index
    ELSE -1

GetHostIp(ifas, device) ==
    IF \A i \in DOMAIN ifas : ~Suits(ifas[i], device)
    THEN [device EXCEPT
            !.addr   = GivenAddr(device),
            !.family = IF GivenAddr(device) = NONE THEN @
                       ELSE device.addr.family]
    ELSE LET ifa  == ifas[Chosen(ifas, device)]
             kept == device.mask # NONE /\ Matches(device.mask, ifa.addr)
         IN  [device EXCEPT
                !.addr   = ifa.addr,
                !.ip     = ifa.addr,
                !.mask   = IF kept THEN device.mask ELSE GetNetmask(ifa),
                !.iface  = ifa.name,
                !.family = ifa.addr.family,
                !.index  = ifa.index]

-----------------------------------------------------------------------------
(* init_network_info                                                       *)

\* host_ip must be an address, and host_addr the same one if it is given.
Contradictory(device) ==
    /\ device.ip # NONE
    /\ device.ip.host = "unparseable" \/ device.addr \notin {NONE, device.ip}

\* init_network_info finds nothing missing.
Complete(device) ==
    device.iface # NONE /\ device.addr # NONE /\ device.mask # NONE

\* The device with the address that host_ip gives.
Addressed(device) ==
    IF device.addr = NONE THEN [device EXCEPT !.addr = device.ip] ELSE device

\* Nothing is looked up but the index if interface, address and mask are given.
NetworkInfo(ifas, given) ==
    LET device == Addressed(given)
    IN  IF ~Complete(device)
        THEN GetHostIp(ifas, device)
        ELSE [device EXCEPT !.index = IndexOf(ifas, device.iface),
                            !.family = device.addr.family]

-----------------------------------------------------------------------------
(* What the choice promises.                                               *)

\* The device found knows interface, address and mask, and they are the ones
\* it was given.  Unless all three were given, the address is one that an
\* interface has that is up and not point to point, the index is that of the
\* interface and the mask fits the address.  The loopback, unless asked for,
\* serves in IPv4 only if no other address would do; in IPv6 it serves if it is
\* listed before all others, since all of them are appended.
FitsRequest(ifas, given, device) ==
    LET asked == Addressed(given)
        fits(ifa) == /\ ifa.up /\ ~ifa.ptp
                     /\ ifa.addr.family = WantedFamily(asked)
    IN  /\ Complete(device)
        /\ asked.iface \in {NONE, device.iface}
        /\ GivenAddr(asked) \in {NONE, device.addr}
        /\ ~Complete(asked) =>
             \E i \in DOMAIN ifas :
               /\ fits(ifas[i])
               /\ ifas[i].name = device.iface /\ ifas[i].addr = device.addr
               /\ ifas[i].index = device.index
               /\ Matches(device.mask, device.addr)
               /\ ifas[i].loopback =>
                    \/ asked.iface # NONE
                    \/ GivenAddr(asked) # NONE
                    \/ \A j \in DOMAIN ifas :
                         fits(ifas[j]) /\ ~ifas[j].loopback
                           => ifas[j].addr.family # "v4" /\ i < j

=============================================================================
