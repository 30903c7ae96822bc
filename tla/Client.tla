-------------------------------- MODULE Client --------------------------------
(***************************************************************************)
(* GSSDPClient (libgssdp/gssdp-client.c): the transport of groups and      *)
(* browsers.  It finds its network device, makes three sockets, puts       *)
(* headers on what it sends and replaces a socket it cannot receive from.  *)
(*                                                                         *)
(* Making a socket is the sequence of system calls of SocketSource, during *)
(* which only other processes act: the client runs on one thread.  API     *)
(* calls, sends, packets and receive errors come between such sequences.   *)
(***************************************************************************)
EXTENDS SocketSource, NetDevice

CONSTANTS
    Givens,         \* what the application may construct a client with
    BootIds,        \* ids it may set
    ConfigIds,
    VendorHeaders,  \* names of the headers it may add
    MaxValues,      \* bound: values of one vendor header
    MACs,           \* the link-layer addresses of the other hosts
    Agents          \* what they call themselves

Roles == {"request", "multicast", "search"}

\* given: the constructor's properties, and the interfaces of the system.
\*   msearch_port, port: 0 when not given   allocate: allocate-tcp-socket
\*   uda11: uda-version is 1.1 (unspecified falls back to 1.0)
\*   boot_id, config_id: -1 when not given   device: interface, address, mask
\*   pktinfo: the build has packet info messages   hosts: addresses of others
\*   calls: the application changes headers and ids (a bound)
VARIABLES
    given,
    phase,          \* new, starting, running, failed or disposed
    opening,        \* the role a socket is being made for
    sockets,        \* priv->request_socket, multicast_socket, search_socket
    tcpSocket,      \* the port of priv->tcp_socket, 0 for none
    msearchPort,    \* priv->msearch_port
    device,         \* priv->device
    headers,        \* priv->headers: the values of each header
    bootId,         \* priv->boot_id
    configId,       \* priv->config_id
    active,         \* priv->active
    agents,         \* priv->user_agent_cache
    replaced,       \* history: the roles whose socket an error has replaced
    neighbour,      \* the neighbour table: the link-layer address of each host
    spoke,          \* history: what each link-layer address last called itself
    traffic         \* the message the last step sent or passed on

idVars     == <<headers, bootId, configId, active>>
socketVars == <<opening, sockets, tcpSocket, replaced>>
cacheVars  == <<agents, neighbour, spoke>>
dataVars   == <<given, idVars, cacheVars>>
vars == <<phase, msearchPort, device, socketVars, sourceVars, dataVars,
          traffic>>

HeaderNames == VendorHeaders \cup {"BOOTID", "CONFIGID"}

\* The addresses of a list of interfaces and of a device
AddressesOf(g) ==
    {g.interfaces[i].addr : i \in DOMAIN g.interfaces}
      \cup ({g.device.addr, g.device.ip} \ {NONE})

\* An application asks for a port of its own, and one that adds id headers
\* by hand has to keep them up itself.  getifaddrs gives a list, and init looks
\* at the addresses of the two families in it.
ASSUME GivensAssumption ==
    /\ \A g \in Givens :
         /\ g.port \in DynamicPorts \cup {0} /\ g.allocate \in BOOLEAN
         /\ IsList(g.interfaces) /\ IsDevice(g.device)
         /\ \A addr \in AddressesOf(g) : addr.family \in {"v4", "v6"}
         /\ g.hosts \cap MACs = {}
    /\ NONE \notin MACs
    /\ VendorHeaders \cap {"BOOTID", "CONFIGID"} = {}
    /\ NONE \notin Source

-----------------------------------------------------------------------------
(* Multicast groups.                                                       *)

\* Mutant: the scope of the address is not looked at.
GroupOfFamily(addr) == IF addr.family = "v4" THEN "v4" ELSE "GL"

\* gssdp_socket_source_get_multicast_group: what a multicast socket joins.
JoinedGroup(addr) ==
    CASE addr.family = "v4" -> "v4"
      [] addr.family = "v6" /\ addr.scope = "link" -> "LL"
      [] OTHER -> "SL"

\* _gssdp_client_get_mcast_group: where messages go that have no address.
McastGroup(addr) ==
    CASE addr.family = "v4" -> "v4"
      [] addr.family = "v6" /\ addr.scope = "link" -> "LL"
      [] addr.family = "v6" /\ addr.scope = "site" -> "SL"
      [] OTHER -> "GL"

-----------------------------------------------------------------------------
(* Construction.                                                           *)

\* set_boot_id and set_config_id write the header of a UDA 1.1 client.
IdHeader(value) == IF given.uda11 THEN <<value>> ELSE <<>>

\* The properties are set in the order they are installed in, with their
\* defaults if not given: port comes after msearch-port, and sets the same.
Init ==
    /\ SourceInit
    /\ given \in Givens
    /\ phase = "new"
    /\ opening = "none"
    /\ sockets = [r \in Roles |-> NONE]
    /\ tcpSocket = 0
    /\ replaced = {}
    /\ msearchPort = given.port
    /\ device = given.device
    /\ headers = [n \in HeaderNames |->
                    CASE n = "BOOTID" -> IdHeader(given.boot_id)
                      [] n = "CONFIGID" -> IdHeader(given.config_id)
                      [] OTHER -> <<>>]
    /\ bootId = given.boot_id
    /\ configId = IF given.uda11 THEN given.config_id ELSE -1
    /\ active = TRUE
    /\ neighbour \in [given.hosts -> {NONE} \cup MACs]
    /\ agents = [k \in given.hosts \cup MACs |-> NONE]
    /\ spoke = [m \in MACs |-> NONE]
    /\ traffic = NONE

-----------------------------------------------------------------------------
(* gssdp_client_initable_init                                              *)

\* init_network_info succeeds and the request socket is next.
FindDevice ==
    /\ phase = "new"
    /\ ~Contradictory(given.device)
    /\ device' = NetworkInfo(given.interfaces, given.device)
    /\ Complete(device')
    /\ phase' = "starting"
    /\ opening' = "request"
    /\ NewSource("request", 0, FALSE)
    /\ UNCHANGED <<sockets, tcpSocket, replaced, msearchPort, dataVars, traffic>>

\* init_network_info fails, or getifaddrs does.
NoDevice ==
    /\ phase = "new"
    /\ Contradictory(given.device) \/ ~Complete(Addressed(given.device))
    /\ phase' = "failed"
    /\ UNCHANGED <<socketVars, msearchPort, device, dataVars, traffic,
                   sourceVars>>

\* The source made is the socket of its role.
Install(source) ==
    /\ sockets' = [sockets EXCEPT ![opening] = source]
    /\ SourceDone
    /\ UNCHANGED lost

\* The request socket, then the multicast socket.
SocketMade ==
    /\ phase = "starting" /\ step = "made"
    /\ opening \in {"request", "multicast"}
    /\ sockets' = [sockets EXCEPT ![opening] = making]
    /\ IF opening = "request"
       THEN opening' = "multicast" /\ making' = Blank("multicast", 0, FALSE)
       ELSE /\ opening' = "search"
            /\ making' = Blank("search", msearchPort, given.allocate)
    /\ step' = "create"
    /\ UNCHANGED <<phase, tcpSocket, replaced, msearchPort, device, dataVars,
                   traffic, tcpUse, open, lost>>

\* The port of the search socket if the application gave none
PortFound == IF msearchPort = 0 THEN making.port ELSE msearchPort

\* The search socket, last: its TCP socket is taken over by the client.
SearchSocketMade ==
    /\ phase = "starting" /\ step = "made" /\ opening = "search"
    /\ Install([making EXCEPT !.tcp = 0])
    /\ tcpSocket' = making.tcp
    /\ msearchPort' = PortFound
    /\ phase' = "running"
    /\ opening' = "none"
    /\ UNCHANGED <<replaced, device, dataVars, traffic, open>>

\* The descriptors the client has for a role.
Held(role) == IF sockets[role] = NONE THEN 0 ELSE Descriptors(sockets[role])

\* g_clear_object of each of the three sockets
CloseAll == Held("request") + Held("multicast") + Held("search")

\* errors: what has been made so far is closed again.
SocketFailed ==
    /\ phase = "starting" /\ step = "failed"
    /\ phase' = "failed"
    /\ open' = open - CloseAll
    /\ sockets' = [r \in Roles |-> NONE]
    /\ opening' = "none"
    /\ SourceDone
    /\ UNCHANGED <<tcpSocket, replaced, msearchPort, device, dataVars, traffic,
                   lost>>

-----------------------------------------------------------------------------
(* A receive error.                                                        *)

Idle == phase = "running" /\ step = "none"

\* request_socket_source_cb, multicast_..., search_socket_source_cb when
\* socket_source_cb returns FALSE: all three make a request socket.
ReceiveFails(role) ==
    /\ Idle
    /\ opening' = role
    /\ NewSource("request", 0, FALSE)
    /\ traffic' = NONE
    /\ UNCHANGED <<phase, sockets, tcpSocket, replaced, msearchPort, device,
                   dataVars>>

\* Mutant: the pointer to the old socket is overwritten.
ReplaceLeaking ==
    /\ phase = "running" /\ step = "made"
    /\ Install(making)
    /\ replaced' = replaced \cup {opening}
    /\ opening' = "none"
    /\ UNCHANGED <<phase, tcpSocket, msearchPort, device, dataVars, traffic, open>>

\* The new socket takes the place of the old one, which is closed.
Replace ==
    /\ phase = "running" /\ step = "made"
    /\ Install(making)
    /\ open' = open - Held(opening)
    /\ replaced' = replaced \cup {opening}
    /\ opening' = "none"
    /\ UNCHANGED <<phase, tcpSocket, msearchPort, device, dataVars, traffic>>

\* "Could not recreate ... socket on error": the old one stays.
KeepOld ==
    /\ phase = "running" /\ step = "failed"
    /\ SourceDone
    /\ opening' = "none"
    /\ UNCHANGED <<phase, sockets, tcpSocket, replaced, msearchPort, device,
                   dataVars, traffic, open, lost>>

-----------------------------------------------------------------------------
(* Headers, ids and sending.                                               *)

\* A call that leaves all but headers, ids and the active property alone.
Call == Idle /\ UNCHANGED <<given, phase, socketVars, msearchPort, device,
                            sourceVars, cacheVars>>

\* gssdp_client_append_header
AppendHeader(name, value) ==
    /\ Call
    /\ Len(headers[name]) < MaxValues
    /\ headers' = [headers EXCEPT ![name] = Append(@, value)]
    /\ traffic' = NONE
    /\ UNCHANGED <<bootId, configId, active>>

\* gssdp_client_remove_header takes every value of the header away.
RemoveHeader(name) ==
    /\ Call
    /\ headers' = [headers EXCEPT ![name] = <<>>]
    /\ traffic' = NONE
    /\ UNCHANGED <<bootId, configId, active>>

\* Mutant: the ids are cleared with the other headers.
EveryHeader == HeaderNames

\* The headers that clear_headers removes
Clearable == HeaderNames \ {"BOOTID", "CONFIGID"}

\* gssdp_client_clear_headers
ClearHeaders ==
    /\ Call
    /\ headers' = [n \in HeaderNames |-> IF n \in Clearable THEN <<>>
                                         ELSE headers[n]]
    /\ traffic' = NONE
    /\ UNCHANGED <<bootId, configId, active>>

\* gssdp_client_set_boot_id: the field always, the header for UDA 1.1.
SetBootId(id) ==
    /\ Call
    /\ bootId' = id
    /\ headers' = [headers EXCEPT !["BOOTID"] = IdHeader(id)]
    /\ traffic' = NONE
    /\ UNCHANGED <<configId, active>>

\* gssdp_client_set_config_id: nothing for UDA 1.0.
SetConfigId(id) ==
    /\ Call
    /\ configId' = IF given.uda11 THEN id ELSE configId
    /\ headers' = [headers EXCEPT !["CONFIGID"] = IdHeader(id)]
    /\ traffic' = NONE
    /\ UNCHANGED <<bootId, active>>

\* The active property
SetActive ==
    /\ Call
    /\ active' = ~active
    /\ traffic' = NONE
    /\ UNCHANGED <<headers, bootId, configId>>

\* _gssdp_client_send_message of a search or of anything else: it leaves from
\* the port of its socket with the headers of the moment, unless passive.
SendMessage(search) ==
    /\ Call
    /\ traffic' =
         IF active
         THEN [sent |-> TRUE, search |-> search,
               port |-> sockets[IF search THEN "search" ELSE "request"].udp,
               to |-> McastGroup(device.addr),
               headers |-> headers]
         ELSE NONE
    /\ UNCHANGED idVars

-----------------------------------------------------------------------------
(* Reception.                                                              *)

\* gssdp_client_can_reach; the scope of a link-local source is the interface
\* its packet came in on.
CanReach(src, index) ==
    IF src.family = "v6" /\ src.scope = "link" THEN index = device.index
    ELSE Matches(device.mask, src)

LOOPBACK_IFINDEX == 1

\* The interfaces of the system
Indices ==
    {LOOPBACK_IFINDEX} \cup
    {given.interfaces[i].index : i \in DOMAIN given.interfaces}

\* socket_source_cb, what is let in: a packet to our group over our interface,
\* one to our address also over the loopback, and one to any other address.
\* A multicast socket is bound to the group it joined and gets nothing else.
LetIn(role, src, index) ==
    IF ~given.pktinfo THEN CanReach(src, index)
    ELSE IF sockets[role].joined
    THEN JoinedGroup(device.addr) = McastGroup(device.addr)
           => index = device.index
    ELSE index \in {device.index, LOOPBACK_IFINDEX}

\* Mutant: a host is known by its address alone.
ByAddress(host) == host

\* gssdp_net_mac_lookup: the link-layer address, if the kernel knows one.
MacLookup(host) == IF neighbour[host] = NONE THEN host ELSE neighbour[host]

\* gssdp_client_guess_user_agent
GuessUserAgent(host) == agents[MacLookup(host)]

\* gssdp_client_add_cache_entry, if the packet has a Server or User-Agent.
AddCacheEntry(host, agent) ==
    /\ agents' = IF agent = NONE THEN agents
                 ELSE [agents EXCEPT ![MacLookup(host)] = agent]
    /\ spoke' = IF agent = NONE \/ neighbour[host] = NONE THEN spoke
                ELSE [spoke EXCEPT ![neighbour[host]] = agent]

\* socket_source_cb of a packet that parses as a search, an announcement or a
\* response, or of one that does not or is too long.
Receive(role, src, index, agent, parses) ==
    /\ Idle
    /\ IF parses /\ LetIn(role, src, index)
       THEN /\ AddCacheEntry(src, agent)
            /\ traffic' = [sent |-> FALSE, group |-> sockets[role].joined,
                           index |-> index]
       ELSE traffic' = NONE /\ UNCHANGED <<agents, spoke>>
    /\ UNCHANGED <<given, phase, socketVars, msearchPort, device, idVars,
                   sourceVars, neighbour>>

\* The kernel learns, changes or forgets a link-layer address.
NeighbourChanges(host, mac) ==
    /\ Idle
    /\ neighbour' = [neighbour EXCEPT ![host] = mac]
    /\ traffic' = NONE
    /\ UNCHANGED <<given, phase, socketVars, msearchPort, device, idVars,
                   sourceVars, agents, spoke>>

Network ==
    \E host \in given.hosts :
      \/ \E mac \in {NONE} \cup MACs : NeighbourChanges(host, mac)
      \/ \E role \in Roles, index \in Indices, agent \in {NONE} \cup Agents,
           parses \in BOOLEAN : Receive(role, host, index, agent, parses)

-----------------------------------------------------------------------------
\* dispose: the sockets and the TCP socket are closed.
Dispose ==
    /\ Idle
    /\ phase' = "disposed"
    /\ open' = open - CloseAll - (IF tcpSocket = 0 THEN 0 ELSE 1)
    /\ sockets' = [r \in Roles |-> NONE]
    /\ tcpSocket' = 0
    /\ traffic' = NONE
    /\ UNCHANGED <<opening, replaced, msearchPort, device, dataVars, step, making,
                   tcpUse, lost>>

SystemCalls ==
    /\ DoInit \/ CallFails
    /\ UNCHANGED <<phase, socketVars, msearchPort, device, dataVars, traffic>>

Environment ==
    /\ OtherProcesses
    /\ UNCHANGED <<phase, socketVars, msearchPort, device, dataVars, traffic>>

Initialise ==
    \/ FindDevice
    \/ NoDevice
    \/ SocketMade
    \/ SearchSocketMade
    \/ SocketFailed

Repair ==
    \/ \E r \in Roles : ReceiveFails(r)
    \/ Replace
    \/ KeepOld

Headers ==
    \/ \E n \in VendorHeaders : \/ \E v \in BootIds : AppendHeader(n, v)
                                \/ RemoveHeader(n)
    \/ ClearHeaders
    \/ \E id \in BootIds : SetBootId(id)
    \/ \E id \in ConfigIds : SetConfigId(id)

Application ==
    \/ given.calls /\ Headers
    \/ SetActive
    \/ \E search \in BOOLEAN : SendMessage(search)
    \/ Dispose

Next ==
    \/ Initialise
    \/ SystemCalls
    \/ Environment
    \/ Repair
    \/ Network
    \/ Application

Spec == Init /\ [][Next]_vars

\* System calls return and init goes on.  The kernel, whose choice of a port is
\* random, chooses each port again and again, and claiming a port that is free
\* again and again is not refused for ever for another reason.
FairSpec ==
    /\ Spec
    /\ WF_vars(Initialise)
    /\ WF_vars(SystemCalls)
    /\ \A p \in DynamicPorts : SF_vars(BindSocket(p) /\ SystemCalls)
    /\ SF_vars(ClaimTcpPort /\ SystemCalls)

-----------------------------------------------------------------------------
(* Properties.                                                             *)

\* The descriptors of the source being made, while nothing has decided about it
InTheMaking == IF step \in {"none", "failed"} THEN 0 ELSE Descriptors(making)

\* Every descriptor that is open belongs to a socket of the client, to the TCP
\* socket or to the source being made: failing at any system call, replacing
\* sockets and disposing leave none behind.  Only looking for another port
\* may lose one, so never a client whose port was given.
DescriptorsAreAccounted ==
    /\ open = CloseAll + (IF tcpSocket = 0 THEN 0 ELSE 1) + InTheMaking
    /\ phase \in {"failed", "disposed"} => open = 0
    /\ given.port # 0 => ~lost

\* What a UDA 1.1 client sends carries exactly one BOOTID and one CONFIGID
\* header, those of its properties, whatever headers were appended, removed or
\* cleared before; a UDA 1.0 client sends neither.
IdsReachTheWire ==
    traffic # NONE /\ traffic.sent =>
      /\ traffic.headers["BOOTID"] = IdHeader(bootId)
      /\ traffic.headers["CONFIGID"] = IdHeader(configId)

\* A running client has a socket in each role, also after receive errors and
\* failed attempts to replace it.  Until an error replaces it, the multicast
\* socket is a member of its group and the search socket is bound to the port
\* the client says and not to SSDP_PORT (gssdp-client.c:261).  The TCP socket has
\* that port, too (Client:tcp-socket, "bound to the same port"), and a port that
\* was given is kept, however often a port cannot be claimed.  The client says
\* port 0 if it never learnt which port the kernel chose.
SocketsServeTheirRoles ==
    phase = "running" =>
      /\ \A r \in Roles : sockets[r] # NONE
      /\ sockets["request"].udp = SSDP_PORT
      /\ "multicast" \notin replaced =>
           sockets["multicast"].joined /\ sockets["multicast"].udp = SSDP_PORT
      /\ "search" \notin replaced =>
           /\ sockets["search"].udp # SSDP_PORT
           /\ msearchPort # 0 => sockets["search"].udp = msearchPort
      /\ msearchPort # 0 => tcpSocket = msearchPort
      /\ given.port # 0 => msearchPort = given.port

\* What the documentation of GSSDPClient:port says: it is the "UDP port to use
\* for sending multicast M-SEARCH requests".  search_socket_source_cb makes a
\* request socket, so after a receive error searches leave from SSDP_PORT, which
\* gssdp_client_initable_init avoids "for security reasons".
SearchesLeaveFromThePort ==
    traffic # NONE /\ traffic.sent /\ traffic.search => traffic.port = msearchPort

\* The device of a running client fits what the application asked for: a given
\* interface, address and mask are kept, and what is found belongs together and
\* is on an interface that can be used.  An IPv4 client is on the loopback only
\* if nothing else would do; an IPv6 client is on what getifaddrs lists first.
HostAddressFitsRequest ==
    phase = "running" => FitsRequest(given.interfaces, given.device, device)

\* With packet information, no multicast packet gets in that came over another
\* interface, though every socket of the group on this host receives it.  This
\* needs the group that the socket joined to be the one the client compares
\* with: that is so for v4, and in v6 only for link and site scope.
ForeignPacketsStayOut ==
    /\ traffic # NONE /\ ~traffic.sent /\ given.pktinfo
    /\ device.addr.family = "v6" => device.addr.scope \in {"link", "site"}
    => \/ traffic.index = device.index
       \/ ~traffic.group /\ traffic.index = LOOPBACK_IFINDEX

\* A host is known by what it last called itself also after it has changed its
\* address, as long as the kernel knows its link-layer address at both times.
AgentsFollowTheirHosts ==
    \A host \in given.hosts :
      neighbour[host] # NONE /\ spoke[neighbour[host]] # NONE
        => GuessUserAgent(host) = spoke[neighbour[host]]

\* Initialisation comes to an end although it looks for a port until the TCP
\* port is free too: it is enough that one port is free for good.
InitialisationEnds ==
    (\E p \in DynamicPorts : <>[](tcpUse[p] = "free"))
      => <>(phase \in {"running", "failed"})

-----------------------------------------------------------------------------
(* The inductive invariant of ClientProofs.                                *)

TypeOK ==
    /\ given \in Givens
    /\ phase \in {"new", "starting", "running", "failed", "disposed"}
    /\ step \in {"none", "create", "bind", "claim", "join", "made", "failed"}
    /\ opening \in Roles \cup {"none"}
    /\ making \in Source
    /\ sockets \in [Roles -> Source \cup {NONE}]
    /\ msearchPort \in DynamicPorts \cup {0}
    /\ tcpSocket \in DynamicPorts \cup {0}
    /\ replaced \subseteq Roles
    /\ open \in Int
    /\ lost \in BOOLEAN

\* Which phase makes sockets, and which are there
PhasesAreCoherent ==
    /\ phase \in {"new", "failed", "disposed"} =>
         step = "none" /\ \A r \in Roles : sockets[r] = NONE
    /\ phase \in {"new", "starting"} => msearchPort = given.port /\ replaced = {}
    /\ phase # "running" => tcpSocket = 0
    /\ phase = "starting" =>
         /\ step # "none" /\ opening = making.type
         /\ sockets["search"] = NONE
         /\ opening = "request" <=> sockets["request"] = NONE
         /\ opening # "search" <=> sockets["multicast"] = NONE
         /\ opening = "search" => making.asked = given.port
    /\ phase = "running" /\ step # "none" =>
         opening \in Roles /\ making.type = "request"

\* What has been done for the source that is being made
MakingIsCoherent ==
    /\ making.type # "search" => making.tcp = 0 /\ making.asked = 0
    /\ making.type = "search" /\ making.asked # 0 => making.port = making.asked
    /\ step \in {"create", "bind"} =>
         making.tcp = 0 /\ (making.asked = 0 => making.port = 0)
    /\ Overwritten => making.type = "search" /\ making.asked = 0
    /\ step = "bind" => making.udp = 0
    /\ step = "claim" =>
         /\ making.type = "search" /\ making.tcp = 0
         /\ making.udp \in DynamicPorts /\ making.port \in {0, making.udp}
         /\ making.retry => making.asked = 0
    /\ step = "join" => making.type = "multicast" /\ making.udp = SSDP_PORT
    /\ step = "made" /\ making.type = "search" =>
         /\ making.tcp \in DynamicPorts /\ making.udp \in DynamicPorts
         /\ making.port # 0 => making.tcp = making.port /\ making.udp = making.port
    /\ step = "made" /\ making.type # "search" => making.udp = SSDP_PORT
    /\ step = "made" /\ making.type = "multicast" => making.joined

\* What every socket the client has can do
SocketsAreGood ==
    \A r \in Roles : sockets[r] # NONE =>
      /\ sockets[r].type = IF r \in replaced THEN "request" ELSE r
      /\ sockets[r].type = "multicast" => sockets[r].joined
      /\ sockets[r].type = "search" =>
           /\ phase = "running" /\ sockets[r].udp \in DynamicPorts
           /\ msearchPort # 0 => sockets[r].udp = msearchPort
      /\ sockets[r].type # "search" => sockets[r].udp = SSDP_PORT

RunningClientIsReachable ==
    phase = "running" =>
      /\ \A r \in Roles : sockets[r] # NONE
      /\ given.port \in {0, msearchPort}
      /\ msearchPort # 0 => tcpSocket = msearchPort

HeadersFollowTheIds ==
    /\ DOMAIN headers = HeaderNames
    /\ headers["BOOTID"] = IdHeader(bootId)
    /\ headers["CONFIGID"] = IdHeader(configId)

SocketInv ==
    /\ TypeOK
    /\ PhasesAreCoherent
    /\ MakingIsCoherent
    /\ SocketsAreGood
    /\ RunningClientIsReachable
    /\ DescriptorsAreAccounted

\* The device is looked for once, and what was found stays.
DeviceIsTheOneFound ==
    phase \in {"starting", "running"} =>
      /\ device = NetworkInfo(given.interfaces, given.device)
      /\ Complete(device)

DeviceInv ==
    /\ phase = "new" => traffic = NONE
    /\ DeviceIsTheOneFound

\* What the client has learnt about a link-layer address is the last it heard.
CacheInv ==
    /\ neighbour \in [given.hosts -> {NONE} \cup MACs]
    /\ DOMAIN agents = given.hosts \cup MACs
    /\ DOMAIN spoke = MACs
    /\ \A m \in MACs : spoke[m] # NONE => agents[m] = spoke[m]

IInv ==
    /\ SocketInv
    /\ HeadersFollowTheIds /\ IdsReachTheWire
    /\ DeviceInv /\ ForeignPacketsStayOut
    /\ CacheInv

=============================================================================
