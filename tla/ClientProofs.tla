----------------------------- MODULE ClientProofs -----------------------------
(***************************************************************************)
(* Theorems about Client: its sockets serve their roles, no descriptor is  *)
(* lost, the ids reach the wire, its device is the one asked for, packets  *)
(* of other interfaces stay out and hosts are known by what they last      *)
(* said, for every set of ports, interfaces, hosts, headers and ids.       *)
(***************************************************************************)
EXTENDS Client, NetDeviceProofs, TLAPS

-----------------------------------------------------------------------------
(* Headers and ids.                                                        *)

HeaderInv == HeadersFollowTheIds /\ IdsReachTheWire

\* A step that leaves headers and ids alone, and sends nothing new.
LEMMA HeadersStay ==
    ASSUME HeaderInv, UNCHANGED <<given, headers, bootId, configId>>,
           traffic' = traffic \/ traffic' = NONE \/ ~traffic'.sent
    PROVE  HeaderInv'
BY DEF HeaderInv, HeadersFollowTheIds, IdsReachTheWire, IdHeader

\* A step that changes headers or ids sends nothing.
LEMMA HeadersChange ==
    ASSUME HeadersFollowTheIds', traffic' = NONE
    PROVE  HeaderInv'
BY DEF HeaderInv, IdsReachTheWire

LEMMA InitHeaderInv == Init => HeaderInv
<1> SUFFICES ASSUME Init PROVE HeaderInv
  OBVIOUS
<1>1. headers = [n \in HeaderNames |->
                   CASE n = "BOOTID" -> IdHeader(given.boot_id)
                     [] n = "CONFIGID" -> IdHeader(given.config_id)
                     [] OTHER -> <<>>]
      /\ bootId = given.boot_id
      /\ configId = (IF given.uda11 THEN given.config_id ELSE -1)
      /\ traffic = NONE
  BY DEF Init
<1>2. "BOOTID" \in HeaderNames /\ "CONFIGID" \in HeaderNames
  BY DEF HeaderNames
<1>3. /\ headers["BOOTID"] = IdHeader(bootId)
      /\ headers["CONFIGID"] = IdHeader(given.config_id)
  BY <1>1, <1>2
<1>4. IdHeader(given.config_id) = IdHeader(configId)
  BY <1>1 DEF IdHeader
<1> QED
  BY <1>1, <1>3, <1>4 DEF HeaderInv, HeadersFollowTheIds, IdsReachTheWire

LEMMA NextHeaderInv == HeaderInv /\ [Next]_vars => HeaderInv'
<1> SUFFICES ASSUME HeaderInv, [Next]_vars PROVE HeaderInv'
  OBVIOUS
<1>i. /\ DOMAIN headers = HeaderNames
      /\ headers["BOOTID"] = IdHeader(bootId)
      /\ headers["CONFIGID"] = IdHeader(configId)
      /\ "BOOTID" \in HeaderNames /\ "CONFIGID" \in HeaderNames
  BY DEF HeaderInv, HeadersFollowTheIds, HeaderNames
<1>v. \A n \in VendorHeaders :
        n \in HeaderNames /\ n # "BOOTID" /\ n # "CONFIGID"
  BY GivensAssumption DEF HeaderNames
<1>1. CASE Initialise \/ SystemCalls \/ Environment \/ Repair \/ Dispose
           \/ UNCHANGED vars
  <2>1. UNCHANGED <<given, headers, bootId, configId>>
        /\ (traffic' = traffic \/ traffic' = NONE)
    BY <1>1 DEF Initialise, FindDevice, NoDevice, SocketMade, SearchSocketMade,
                SocketFailed, SystemCalls, Environment, Repair, ReceiveFails,
                Replace, KeepOld, Dispose, dataVars, idVars, vars
  <2> QED
    BY <2>1, HeadersStay
<1>2. CASE Network
  <2>1. UNCHANGED <<given, headers, bootId, configId>>
        /\ (traffic' = NONE \/ ~traffic'.sent)
    BY <1>2 DEF Network, NeighbourChanges, Receive, idVars
  <2> QED
    BY <2>1, HeadersStay
<1>3. CASE Headers
  <2>1. given' = given /\ traffic' = NONE
    BY <1>3 DEF Headers, AppendHeader, RemoveHeader, ClearHeaders, SetBootId,
                SetConfigId, Call
  <2>2. HeadersFollowTheIds'
    <3>1. ASSUME NEW n \in VendorHeaders, NEW v,
                 AppendHeader(n, v) \/ RemoveHeader(n)
          PROVE  HeadersFollowTheIds'
      <4>1. /\ bootId' = bootId /\ configId' = configId
            /\ \E x : headers' = [headers EXCEPT ![n] = x]
        BY <3>1 DEF AppendHeader, RemoveHeader
      <4> QED
        BY <1>i, <1>v, <2>1, <4>1 DEF HeadersFollowTheIds, IdHeader
    <3>2. CASE ClearHeaders
      <4>1. /\ bootId' = bootId /\ configId' = configId
            /\ headers' = [n \in HeaderNames |-> IF n \in Clearable THEN <<>>
                                                 ELSE headers[n]]
        BY <3>2 DEF ClearHeaders
      <4>2. "BOOTID" \notin Clearable /\ "CONFIGID" \notin Clearable
        BY DEF Clearable
      <4> QED
        BY <1>i, <2>1, <4>1, <4>2 DEF HeadersFollowTheIds, IdHeader
    <3>3. ASSUME NEW id \in BootIds, SetBootId(id) PROVE HeadersFollowTheIds'
      BY <1>i, <2>1, <3>3 DEF SetBootId, HeadersFollowTheIds, IdHeader
    <3>4. ASSUME NEW id \in ConfigIds, SetConfigId(id)
          PROVE  HeadersFollowTheIds'
      BY <1>i, <2>1, <3>4 DEF SetConfigId, HeadersFollowTheIds, IdHeader
    <3> QED
      BY <1>3, <3>1, <3>2, <3>3, <3>4 DEF Headers
  <2> QED
    BY <2>1, <2>2, HeadersChange
<1>4. CASE SetActive
  <2>1. UNCHANGED <<given, headers, bootId, configId>> /\ traffic' = NONE
    BY <1>4 DEF SetActive, Call
  <2> QED
    BY <2>1, HeadersStay
<1>5. ASSUME NEW search \in BOOLEAN, SendMessage(search) PROVE HeaderInv'
  <2>1. /\ UNCHANGED <<given, headers, bootId, configId>>
        /\ traffic' = NONE \/ traffic'.headers = headers
    BY <1>5 DEF SendMessage, Call, idVars
  <2> QED
    BY <1>i, <2>1 DEF HeaderInv, HeadersFollowTheIds, IdsReachTheWire, IdHeader
<1> QED
  BY <1>1, <1>2, <1>3, <1>4, <1>5 DEF Next, Application

-----------------------------------------------------------------------------
(* Sockets.                                                                *)

\* The state that SocketInv is about
Sock == <<given, phase, opening, sockets, tcpSocket, replaced, msearchPort, step,
          making, open, lost>>

\* A step that touches none of it.
LEMMA SocketsStay == SocketInv /\ UNCHANGED Sock => SocketInv'
BY DEF Sock, SocketInv, TypeOK, PhasesAreCoherent, MakingIsCoherent, Overwritten,
       SocketsAreGood, RunningClientIsReachable, DescriptorsAreAccounted,
       CloseAll, Held, Descriptors, InTheMaking

\* A source that nothing has been done for.
LEMMA BlankFacts ==
    ASSUME NEW type \in Types, NEW port \in DynamicPorts \cup {0},
           NEW exclusive \in BOOLEAN
    PROVE  /\ Blank(type, port, exclusive) \in Source
           /\ Blank(type, port, exclusive).type = type
           /\ Blank(type, port, exclusive).asked = port
           /\ Blank(type, port, exclusive).port = port
           /\ Blank(type, port, exclusive).udp = 0
           /\ Blank(type, port, exclusive).tcp = 0
           /\ ~Blank(type, port, exclusive).retry
           /\ Descriptors(Blank(type, port, exclusive)) = 0
BY DEF Blank, Source, Ports, Descriptors

\* What is in a source.
LEMMA SourceFacts ==
    ASSUME NEW s \in Source
    PROVE  /\ s # NONE
           /\ s.type \in Types
           /\ s.asked \in Ports \cup {0} /\ s.port \in Ports \cup {0}
           /\ s.exclusive \in BOOLEAN /\ s.retry \in BOOLEAN
           /\ s.udp \in Ports \cup {0} /\ s.tcp \in Ports \cup {0}
           /\ s.joined \in BOOLEAN
           /\ Descriptors(s) \in 0..2
BY GivensAssumption DEF Source, Descriptors

LEMMA PortFacts ==
    /\ 0 \notin Ports /\ SSDP_PORT \in Ports /\ SSDP_PORT # 0
    /\ DynamicPorts \subseteq Ports /\ 0 \notin DynamicPorts
BY PortsAssumption DEF Ports

\* The part of the invariant that a system call can disturb.
CallInv ==
    /\ making \in Source
    /\ step \in {"none", "create", "bind", "claim", "join", "made", "failed"}
    /\ MakingIsCoherent
    /\ lost \in BOOLEAN
    /\ given.port # 0 => ~lost

\* A step of do_init keeps the invariant if it keeps that part, the type and
\* the port asked for, and accounts for its descriptors.
LEMMA CallStep ==
    ASSUME SocketInv,
           UNCHANGED <<given, phase, opening, sockets, tcpSocket, replaced,
                       msearchPort>>,
           step # "none", step' # "none", CallInv', open' \in Int,
           making'.type = making.type, making'.asked = making.asked,
           open' - InTheMaking' = open - InTheMaking,
           InTheMaking' \in Int, InTheMaking \in Int
    PROVE  SocketInv'
<1>1. phase \in {"starting", "running"}
  BY DEF SocketInv, TypeOK, PhasesAreCoherent
<1>2. TypeOK'
  BY DEF SocketInv, TypeOK, CallInv
<1>3. PhasesAreCoherent'
  BY <1>1 DEF SocketInv, PhasesAreCoherent
<1>4. SocketsAreGood' /\ RunningClientIsReachable'
  BY DEF SocketInv, SocketsAreGood, RunningClientIsReachable
<1>5. DescriptorsAreAccounted'
  <2>1. CloseAll' = CloseAll
    BY DEF CloseAll, Held
  <2>2. CloseAll \in Int
    <3>1. \A r \in Roles : Held(r) \in Int
      BY SourceFacts DEF SocketInv, TypeOK, Held
    <3> QED
      BY <3>1 DEF CloseAll, Roles
  <2>3. open = CloseAll + (IF tcpSocket = 0 THEN 0 ELSE 1) + InTheMaking
        /\ open \in Int
    BY DEF SocketInv, DescriptorsAreAccounted, TypeOK
  <2>4. open' = CloseAll' + (IF tcpSocket' = 0 THEN 0 ELSE 1) + InTheMaking'
    <3> DEFINE a == CloseAll
               b == InTheMaking
               c == InTheMaking'
               t == IF tcpSocket = 0 THEN 0 ELSE 1
    <3>1. t \in Int /\ t = IF tcpSocket' = 0 THEN 0 ELSE 1
      OBVIOUS
    <3>2. a \in Int /\ b \in Int /\ c \in Int /\ open' - c = open - b
          /\ open = a + t + b /\ CloseAll' = a
      BY <2>1, <2>2, <2>3
    <3> HIDE DEF a, b, c, t
    <3>3. open' = a + t + c
      BY <2>3, <3>1, <3>2
    <3> QED
      BY <3>1, <3>2, <3>3 DEF c
  <2> QED
    BY <1>1, <2>4 DEF DescriptorsAreAccounted, CallInv
<1> QED
  BY <1>2, <1>3, <1>4, <1>5 DEF SocketInv, CallInv

\* The system calls.
LEMMA SystemCallsInv == SocketInv /\ SystemCalls => SocketInv'
<1> SUFFICES ASSUME SocketInv, SystemCalls PROVE SocketInv'
  OBVIOUS
<1> USE PortFacts
<1>i. /\ making \in Source /\ MakingIsCoherent /\ open \in Int
      /\ lost \in BOOLEAN /\ (given.port # 0 => ~lost)
  BY DEF SocketInv, TypeOK, DescriptorsAreAccounted
<1>u. UNCHANGED <<given, phase, opening, sockets, tcpSocket, replaced,
                  msearchPort>>
  BY DEF SystemCalls, socketVars, dataVars
<1>f. /\ making # NONE /\ making.type \in Types
      /\ making.asked \in Ports \cup {0} /\ making.port \in Ports \cup {0}
      /\ making.exclusive \in BOOLEAN
      /\ making.udp \in Ports \cup {0} /\ making.tcp \in Ports \cup {0}
      /\ Descriptors(making) \in 0..2
  BY <1>i, SourceFacts
<1>g. given.port \in DynamicPorts \cup {0}
  BY GivensAssumption DEF SocketInv, TypeOK
<1>s. step # "none" =>
        /\ making.type = "search" => making.asked = given.port
        /\ making.asked \in DynamicPorts \cup {0}
  <2>1. step # "none" => phase \in {"starting", "running"}
    BY DEF SocketInv, TypeOK, PhasesAreCoherent
  <2>2. step # "none" /\ making.type = "search" => making.asked = given.port
    BY <2>1 DEF SocketInv, PhasesAreCoherent
  <2>3. making.type # "search" => making.asked = 0
    BY <1>i DEF MakingIsCoherent
  <2> QED
    BY <2>2, <2>3, <1>g
<1>l. Overwritten => given.port = 0
  BY <1>i, <1>s DEF MakingIsCoherent, Overwritten
<1>o. ASSUME lost' = lost \/ lost' = (lost \/ Overwritten)
      PROVE  lost' \in BOOLEAN /\ (given'.port # 0 => ~lost')
  <2>1. lost' \in BOOLEAN /\ (lost' => lost \/ Overwritten)
    <3>1. (lost \/ Overwritten) \in BOOLEAN
      OBVIOUS
    <3>2. lost' \in BOOLEAN
      BY <1>i, <1>o, <3>1, Zenon
    <3>3. CASE lost' = lost
      BY <3>2, <3>3, Zenon
    <3>4. CASE lost' = (lost \/ Overwritten)
      BY <3>2, <3>4, Zenon
    <3> QED
      BY <1>o, <3>3, <3>4, Zenon
  <2>2. given'.port # 0 => ~lost /\ ~Overwritten
    BY <1>i, <1>l, <1>u
  <2> QED
    BY <2>1, <2>2, Zenon
<1>m. InTheMaking \in Int /\ (step # "failed" /\ step # "none"
        => InTheMaking = Descriptors(making))
  BY <1>f DEF InTheMaking
\* Giving up
<1>1. ASSUME step \in {"create", "bind", "claim", "join"}, Abandon,
             lost' = lost \/ lost' = (lost \/ Overwritten)
      PROVE  SocketInv'
  <2>1. /\ step' = "failed" /\ step # "none"
        /\ open' = open - Descriptors(making)
        /\ making' = Blank(making.type, making.asked, making.exclusive)
    BY <1>1 DEF Abandon
  <2>2. making.asked \in DynamicPorts \cup {0}
    BY <1>s, <2>1
  <2>3. /\ making' \in Source /\ making'.type = making.type
        /\ making'.asked = making.asked /\ making'.port = making.asked
        /\ making'.udp = 0 /\ making'.tcp = 0
    BY <1>f, <2>1, <2>2, BlankFacts
  <2>4. CallInv'
    <3>1. MakingIsCoherent'
      BY <1>i, <2>1, <2>3 DEF MakingIsCoherent, Overwritten
    <3>2. lost' \in BOOLEAN /\ (given'.port # 0 => ~lost')
      BY <1>1, <1>o
    <3> QED
      BY <2>1, <2>3, <3>1, <3>2 DEF CallInv
  <2>5. InTheMaking' = 0
    BY <2>1 DEF InTheMaking
  <2>6. InTheMaking = Descriptors(making)
    BY <1>1, <1>m
  <2> QED
    BY <1>f, <1>i, <1>u, <1>m, <2>1, <2>3, <2>4, <2>5, <2>6, CallStep
<1>2. CASE CallFails
  BY <1>1, <1>2 DEF CallFails
<1>3. CASE CannotClaim
  BY <1>1, <1>3 DEF CannotClaim
\* Going on: the descriptors the source gets or loses are the change of open.
<1>4. ASSUME step \in {"create", "bind", "claim", "join"},
             step' \in {"create", "bind", "claim", "join", "made"},
             making' \in Source, MakingIsCoherent',
             making'.type = making.type, making'.asked = making.asked,
             lost' = lost \/ lost' = (lost \/ Overwritten),
             open' \in Int,
             open' - Descriptors(making') = open - Descriptors(making)
      PROVE  SocketInv'
  <2>1. CallInv'
    <3>1. lost' \in BOOLEAN /\ (given'.port # 0 => ~lost')
      BY <1>4, <1>o
    <3> QED
      BY <1>4, <3>1 DEF CallInv
  <2>2. InTheMaking' = Descriptors(making') /\ InTheMaking' \in Int
    <3>1. InTheMaking' = Descriptors(making')
      BY <1>4 DEF InTheMaking, Descriptors
    <3>2. Descriptors(making') \in 0..2
      BY <1>4, SourceFacts
    <3> QED
      BY <3>1, <3>2
  <2>3. InTheMaking = Descriptors(making) /\ step # "none" /\ step' # "none"
    BY <1>4, <1>m
  <2> QED
    BY <1>4, <1>u, <1>m, <2>1, <2>2, <2>3, CallStep
<1>5. CASE CreateSocket
  <2>1. /\ step = "create" /\ step' = "bind"
        /\ lost' = (lost \/ Overwritten)
        /\ open' = open - Descriptors(making)
        /\ making' = [making EXCEPT !.udp = 0]
    BY <1>5 DEF CreateSocket
  <2>2. making' \in Source
    BY <1>i, <2>1 DEF Source
  <2>3. /\ making'.udp = 0 /\ making'.tcp = making.tcp
        /\ making'.type = making.type /\ making'.asked = making.asked
        /\ making'.port = making.port
    BY <1>i, <2>1 DEF Source
  <2>4. MakingIsCoherent'
    BY <1>i, <2>1, <2>3 DEF MakingIsCoherent, Overwritten
  <2>5. Descriptors(making') = 0 /\ open' \in Int
        /\ open' - Descriptors(making') = open - Descriptors(making)
    <3>1. making.tcp = 0
      BY <1>i, <2>1 DEF MakingIsCoherent
    <3>2. Descriptors(making') = 0
      BY <2>3, <3>1 DEF Descriptors
    <3> QED
      BY <1>f, <1>i, <2>1, <3>2
  <2> QED
    BY <1>4, <2>1, <2>2, <2>3, <2>4, <2>5
<1>6. ASSUME NEW p \in Ports, BindSocket(p) PROVE SocketInv'
  <2> DEFINE any == making.type = "search" /\ making.port = 0
  <2>1. /\ step = "bind" /\ p \in BindablePorts
        /\ open' = open + 1 /\ lost' = lost
        /\ step' = CASE making.type = "search" -> "claim"
                     [] making.type = "multicast" -> "join"
                     [] OTHER -> "made"
    BY <1>6 DEF BindSocket
  <2>p. PICK port \in AssignedPorts(p) :
          making' = [making EXCEPT !.udp = p, !.port = port, !.retry = any]
    BY <1>6 DEF BindSocket, ShouldRetry
  <2>q. /\ any => port \in {p, 0}
        /\ ~any => port = making.port
        /\ any \in BOOLEAN
    BY <2>p DEF AssignedPorts
  <2>2. making' \in Source
    BY <1>i, <1>f, <2>p, <2>q DEF Source
  <2>3. /\ making'.udp = p /\ making'.tcp = making.tcp
        /\ making'.type = making.type /\ making'.asked = making.asked
        /\ making'.port = port /\ making'.retry = any
    BY <1>i, <2>p DEF Source
  <2>4. /\ making.udp = 0 /\ making.tcp = 0 /\ p # 0
        /\ making.type = "search" =>
             /\ p \in DynamicPorts
             /\ making.asked # 0 => p = making.asked /\ port = making.asked
             /\ port \in {0, p}
             /\ any => making.asked = 0
        /\ making.type # "search" => p = SSDP_PORT
    BY <1>i, <1>s, <2>1, <2>q DEF MakingIsCoherent, BindablePorts
  <2>5. /\ step' \in {"claim", "join", "made"}
        /\ step' = "claim" <=> making.type = "search"
        /\ step' = "join" <=> making.type = "multicast"
    BY <1>f, <2>1 DEF Types
  <2> HIDE DEF any
  <2>6. MakingIsCoherent'
    BY <1>i, <2>3, <2>4, <2>5 DEF MakingIsCoherent, Overwritten
  <2>7. Descriptors(making) = 0 /\ Descriptors(making') = 1
    BY <2>3, <2>4 DEF Descriptors
  <2> QED
    BY <1>4, <1>i, <2>1, <2>2, <2>3, <2>5, <2>6, <2>7
<1>7. CASE ClaimTcpPort
  <2>1. step = "claim" /\ step' = "made" /\ open' = open + 1 /\ lost' = lost
    BY <1>7 DEF ClaimTcpPort
  <2>p. PICK p \in TcpPorts : making' = [making EXCEPT !.tcp = p]
    BY <1>7 DEF ClaimTcpPort
  <2>4. /\ making.type = "search" /\ making.tcp = 0
        /\ making.udp \in DynamicPorts /\ making.port \in {0, making.udp}
        /\ making.asked # 0 => making.port = making.asked
    BY <1>i, <2>1 DEF MakingIsCoherent
  <2>q. p \in DynamicPorts /\ (making.port # 0 => p = making.port)
    BY <2>p, <2>4 DEF TcpPorts
  <2>2. making' \in Source
    BY <1>i, <2>p, <2>q DEF Source
  <2>3. /\ making'.udp = making.udp /\ making'.tcp = p
        /\ making'.type = making.type /\ making'.asked = making.asked
        /\ making'.port = making.port
    BY <1>i, <2>p DEF Source
  <2>5. MakingIsCoherent'
    BY <2>1, <2>q, <2>3, <2>4 DEF MakingIsCoherent, Overwritten
  <2>6. Descriptors(making) = 1 /\ Descriptors(making') = 2
    BY <2>3, <2>4, <2>q DEF Descriptors
  <2> QED
    BY <1>4, <1>i, <2>1, <2>2, <2>3, <2>5, <2>6
<1>8. CASE RetryAnotherPort
  <2>1. /\ step = "claim" /\ step' = "create" /\ UNCHANGED <<open, lost>>
        /\ making' = [making EXCEPT !.port = 0] /\ making.retry
    BY <1>8 DEF RetryAnotherPort
  <2>2. making' \in Source
    BY <1>i, <2>1 DEF Source
  <2>3. /\ making'.udp = making.udp /\ making'.tcp = making.tcp
        /\ making'.type = making.type /\ making'.asked = making.asked
        /\ making'.port = 0
    BY <1>i, <2>1 DEF Source
  <2>4. making.type = "search" /\ making.tcp = 0 /\ making.asked = 0
    BY <1>i, <2>1 DEF MakingIsCoherent
  <2>5. MakingIsCoherent'
    BY <2>1, <2>3, <2>4 DEF MakingIsCoherent, Overwritten
  <2>6. Descriptors(making') = Descriptors(making)
    BY <2>3 DEF Descriptors
  <2> QED
    BY <1>4, <1>i, <2>1, <2>2, <2>3, <2>5, <2>6
<1>9. CASE JoinGroup
  <2>1. /\ step = "join" /\ step' = "made" /\ UNCHANGED <<open, lost>>
        /\ making' = [making EXCEPT !.joined = TRUE]
    BY <1>9 DEF JoinGroup
  <2>2. making' \in Source
    BY <1>i, <2>1 DEF Source
  <2>3. /\ making'.udp = making.udp /\ making'.tcp = making.tcp
        /\ making'.type = making.type /\ making'.asked = making.asked
        /\ making'.port = making.port /\ making'.joined
    BY <1>i, <2>1 DEF Source
  <2>4. making.type = "multicast" /\ making.udp = SSDP_PORT
    BY <1>i, <2>1 DEF MakingIsCoherent
  <2>5. MakingIsCoherent'
    BY <1>i, <2>1, <2>3, <2>4 DEF MakingIsCoherent, Overwritten
  <2>6. Descriptors(making') = Descriptors(making)
    BY <2>3 DEF Descriptors
  <2> QED
    BY <1>4, <1>i, <2>1, <2>2, <2>3, <2>5, <2>6
<1> QED
  BY <1>2, <1>3, <1>5, <1>6, <1>7, <1>8, <1>9 DEF SystemCalls, DoInit

\* Initialisation.
LEMMA InitialiseInv == SocketInv /\ Initialise => SocketInv'
<1> SUFFICES ASSUME SocketInv, Initialise PROVE SocketInv'
  OBVIOUS
<1> USE PortFacts
<1>t. TypeOK /\ PhasesAreCoherent /\ MakingIsCoherent /\ SocketsAreGood
      /\ DescriptorsAreAccounted
  BY DEF SocketInv
<1>u. given' = given /\ given.port \in DynamicPorts \cup {0}
  BY <1>t, GivensAssumption DEF Initialise, FindDevice, NoDevice, SocketMade,
     SearchSocketMade, SocketFailed, dataVars, TypeOK
<1>c. /\ \A r \in Roles : Held(r) \in 0..2
      /\ CloseAll = Held("request") + Held("multicast") + Held("search")
      /\ CloseAll \in Int
  <2>1. \A r \in Roles : Held(r) \in 0..2
    BY <1>t, SourceFacts DEF TypeOK, Held
  <2> QED
    BY <2>1 DEF CloseAll, Roles
<1>b. /\ Blank("request", 0, FALSE) \in Source
      /\ Blank("request", 0, FALSE).type = "request"
      /\ Blank("request", 0, FALSE).asked = 0
      /\ Blank("request", 0, FALSE).tcp = 0
      /\ Blank("request", 0, FALSE).port = 0
      /\ Blank("request", 0, FALSE).udp = 0
      /\ Descriptors(Blank("request", 0, FALSE)) = 0
  BY BlankFacts DEF Types
<1>1. CASE FindDevice
  <2>1. /\ phase = "new" /\ phase' = "starting" /\ opening' = "request"
        /\ step = "none" /\ step' = "create"
        /\ making' = Blank("request", 0, FALSE)
        /\ UNCHANGED <<sockets, tcpSocket, replaced, msearchPort, open, lost>>
    BY <1>1 DEF FindDevice, NewSource
  <2>2. TypeOK'
    BY <1>t, <1>u, <1>b, <2>1 DEF TypeOK, Roles
  <2>3. PhasesAreCoherent'
    BY <1>t, <1>u, <1>b, <2>1 DEF PhasesAreCoherent, Roles
  <2>4. MakingIsCoherent'
    BY <1>b, <2>1 DEF MakingIsCoherent, Overwritten
  <2>5. SocketsAreGood' /\ RunningClientIsReachable'
    BY <1>t, <2>1 DEF SocketsAreGood, RunningClientIsReachable,
                      PhasesAreCoherent
  <2>6. DescriptorsAreAccounted'
    <3>1. CloseAll' = CloseAll
      BY <2>1 DEF CloseAll, Held
    <3>2. InTheMaking = 0 /\ InTheMaking' = 0
      BY <1>b, <2>1 DEF InTheMaking
    <3> QED
      BY <1>t, <1>u, <2>1, <3>1, <3>2 DEF DescriptorsAreAccounted
  <2> QED
    BY <2>2, <2>3, <2>4, <2>5, <2>6 DEF SocketInv
<1>2. CASE NoDevice
  <2>1. /\ phase = "new" /\ phase' = "failed" /\ step = "none"
        /\ UNCHANGED <<opening, sockets, tcpSocket, replaced, msearchPort, step,
                       making, open, lost>>
    BY <1>2, <1>t DEF NoDevice, socketVars, sourceVars, PhasesAreCoherent
  <2>2. TypeOK' /\ PhasesAreCoherent' /\ MakingIsCoherent'
    BY <1>t, <1>u, <2>1 DEF TypeOK, PhasesAreCoherent, MakingIsCoherent,
                            Overwritten
  <2>3. SocketsAreGood' /\ RunningClientIsReachable'
    BY <1>t, <2>1 DEF SocketsAreGood, RunningClientIsReachable,
                      PhasesAreCoherent
  <2>4. DescriptorsAreAccounted'
    <3>1. CloseAll' = 0 /\ CloseAll = 0
      BY <1>t, <2>1 DEF CloseAll, Held, PhasesAreCoherent, Roles
    <3>2. InTheMaking = 0 /\ InTheMaking' = 0
      BY <2>1 DEF InTheMaking
    <3>3. tcpSocket = 0
      BY <1>t, <2>1 DEF PhasesAreCoherent
    <3> QED
      BY <1>t, <1>u, <2>1, <3>1, <3>2, <3>3 DEF DescriptorsAreAccounted
  <2> QED
    BY <2>2, <2>3, <2>4 DEF SocketInv
<1>3. CASE SocketMade
  <2>1. /\ phase = "starting" /\ step = "made" /\ step' = "create"
        /\ opening \in {"request", "multicast"}
        /\ sockets' = [sockets EXCEPT ![opening] = making]
        /\ UNCHANGED <<phase, tcpSocket, replaced, msearchPort, open, lost>>
        /\ opening' = (IF opening = "request" THEN "multicast" ELSE "search")
        /\ making' = (IF opening = "request" THEN Blank("multicast", 0, FALSE)
                      ELSE Blank("search", msearchPort, given.allocate))
    BY <1>3 DEF SocketMade
  <2>2. making.type = opening /\ msearchPort = given.port /\ replaced = {}
        /\ sockets[opening] = NONE /\ sockets["search"] = NONE
        /\ (opening = "request" <=> sockets["request"] = NONE)
        /\ sockets["multicast"] = NONE /\ tcpSocket = 0
    BY <1>t, <2>1 DEF PhasesAreCoherent
  <2>3. making \in Source /\ making # NONE
    BY <1>t, SourceFacts DEF TypeOK
  <2>4. /\ making' \in Source /\ making'.type = opening'
        /\ making'.asked = (IF opening' = "search" THEN given.port ELSE 0)
        /\ making'.port = making'.asked /\ making'.udp = 0 /\ making'.tcp = 0
        /\ Descriptors(making') = 0
    <3>1. given.allocate \in BOOLEAN
      BY <1>t, GivensAssumption DEF TypeOK
    <3>2. CASE opening = "request"
      <4>1. making' = Blank("multicast", 0, FALSE) /\ opening' = "multicast"
        BY <2>1, <3>2
      <4> DEFINE b == Blank("multicast", 0, FALSE)
      <4>2. /\ b \in Source /\ b.type = "multicast" /\ b.asked = 0
            /\ b.port = 0 /\ b.udp = 0 /\ b.tcp = 0 /\ Descriptors(b) = 0
        BY BlankFacts DEF Types
      <4> HIDE DEF b
      <4>3. making' = b
        BY <4>1 DEF b
      <4> QED
        BY <4>1, <4>2, <4>3 DEF Descriptors
    <3>3. CASE opening = "multicast"
      <4>1. making' = Blank("search", given.port, given.allocate)
            /\ opening' = "search"
        BY <2>1, <2>2, <3>3
      <4> QED
        BY <1>u, <3>1, <4>1, BlankFacts DEF Types
    <3> QED
      BY <2>1, <3>2, <3>3
  <2>5. /\ \A r \in Roles : r # opening => sockets'[r] = sockets[r]
        /\ sockets'[opening] = making
        /\ sockets' \in [Roles -> Source \cup {NONE}]
    BY <1>t, <2>1, <2>3 DEF TypeOK, Roles
  <2>6. TypeOK'
    BY <1>t, <1>u, <2>1, <2>4, <2>5 DEF TypeOK, Roles
  <2>7. PhasesAreCoherent'
    BY <1>t, <1>u, <2>1, <2>2, <2>3, <2>4, <2>5 DEF PhasesAreCoherent, Roles
  <2>8. MakingIsCoherent'
    BY <1>u, <2>1, <2>4 DEF MakingIsCoherent, Overwritten
  <2>9. SocketsAreGood' /\ RunningClientIsReachable'
    BY <1>t, <2>1, <2>2, <2>5 DEF SocketsAreGood, RunningClientIsReachable,
       MakingIsCoherent
  <2>10. DescriptorsAreAccounted'
    <3>p. PICK o \in Roles : o = opening
      BY <2>1 DEF Roles
    <3>1. Held(o) = 0 /\ Held(o)' = Descriptors(making)
      BY <2>1, <2>2, <2>3, <2>5, <3>p DEF Held
    <3>2. \A r \in Roles : r # o => Held(r)' = Held(r)
      BY <2>5, <3>p DEF Held
    <3>3. CloseAll' = CloseAll + Descriptors(making)
      BY <1>c, <2>1, <2>3, <3>p, <3>1, <3>2, SourceFacts
         DEF CloseAll, Roles
    <3>4. InTheMaking = Descriptors(making) /\ InTheMaking' = 0
      BY <2>1, <2>4 DEF InTheMaking
    <3> QED
      BY <1>t, <1>u, <1>c, <2>1, <2>2, <2>3, <3>3, <3>4, SourceFacts
         DEF DescriptorsAreAccounted
  <2> QED
    BY <2>6, <2>7, <2>8, <2>9, <2>10 DEF SocketInv
<1>4. CASE SearchSocketMade
  <2> DEFINE new == [making EXCEPT !.tcp = 0]
  <2>1. /\ phase = "starting" /\ step = "made" /\ opening = "search"
        /\ phase' = "running" /\ step' = "none" /\ opening' = "none"
        /\ sockets' = [sockets EXCEPT !["search"] = new]
        /\ making' = Blank("request", 0, FALSE)
        /\ tcpSocket' = making.tcp
        /\ msearchPort' = (IF msearchPort = 0 THEN making.port ELSE msearchPort)
        /\ UNCHANGED <<replaced, open, lost>>
    BY <1>4 DEF SearchSocketMade, Install, SourceDone, PortFound
  <2>2. /\ making.type = "search" /\ making.asked = given.port
        /\ msearchPort = given.port /\ tcpSocket = 0 /\ replaced = {}
        /\ sockets["search"] = NONE
        /\ sockets["request"] # NONE /\ sockets["multicast"] # NONE
    BY <1>t, <2>1 DEF PhasesAreCoherent
  <2>3. making \in Source
    BY <1>t DEF TypeOK
  <2>4. /\ making.tcp \in DynamicPorts /\ making.udp \in DynamicPorts
        /\ making.port # 0 => making.tcp = making.port /\ making.udp = making.port
        /\ making.asked # 0 => making.port = making.asked
        /\ making.port \in DynamicPorts \cup {0}
    BY <1>t, <2>1, <2>2 DEF MakingIsCoherent
  <2>5. /\ new \in Source /\ new # NONE /\ new.type = "search"
        /\ new.udp = making.udp /\ new.tcp = 0
    <3>1. new \in Source
      BY <2>3 DEF Source
    <3>2. new.type = making.type /\ new.udp = making.udp /\ new.tcp = 0
      BY <2>3 DEF Source
    <3> QED
      BY <2>2, <2>4, <3>1, <3>2, SourceFacts
  <2>6. msearchPort' = making.port
    BY <2>1, <2>2, <2>4
  <2> HIDE DEF new
  <2>7. /\ \A r \in Roles : r # "search" => sockets'[r] = sockets[r]
        /\ sockets'["search"] = new
        /\ sockets' \in [Roles -> Source \cup {NONE}]
    BY <1>t, <2>1, <2>5 DEF TypeOK, Roles
  <2>8. TypeOK'
    BY <1>t, <1>u, <1>b, <2>1, <2>4, <2>6, <2>7 DEF TypeOK
  <2>9. PhasesAreCoherent'
    BY <1>u, <2>1 DEF PhasesAreCoherent
  <2>10. MakingIsCoherent'
    BY <1>b, <2>1 DEF MakingIsCoherent, Overwritten
  <2>11. SocketsAreGood' /\ RunningClientIsReachable'
    BY <1>t, <1>u, <2>1, <2>2, <2>4, <2>5, <2>6, <2>7
       DEF SocketsAreGood, RunningClientIsReachable, Roles
  <2>12. DescriptorsAreAccounted'
    <3>1. Held("search") = 0 /\ Held("search")' = 1
      BY <2>2, <2>4, <2>5, <2>7 DEF Held, Descriptors
    <3>2. /\ Held("request")' = Held("request")
          /\ Held("multicast")' = Held("multicast")
      BY <2>7 DEF Held, Roles
    <3>3. CloseAll' = CloseAll + 1
      BY <1>c, <3>1, <3>2 DEF CloseAll, Roles
    <3>4. InTheMaking = 2 /\ InTheMaking' = 0
      BY <2>1, <2>4 DEF InTheMaking, Descriptors
    <3> QED
      BY <1>t, <1>u, <1>c, <2>1, <2>2, <2>4, <3>3, <3>4
         DEF DescriptorsAreAccounted
  <2> QED
    BY <2>8, <2>9, <2>10, <2>11, <2>12 DEF SocketInv
<1>5. CASE SocketFailed
  <2>1. /\ phase = "starting" /\ step = "failed" /\ phase' = "failed"
        /\ step' = "none" /\ opening' = "none"
        /\ open' = open - CloseAll
        /\ sockets' = [r \in Roles |-> NONE]
        /\ making' = Blank("request", 0, FALSE)
        /\ UNCHANGED <<tcpSocket, replaced, msearchPort, lost>>
    BY <1>5 DEF SocketFailed, SourceDone
  <2>2. tcpSocket = 0 /\ InTheMaking = 0 /\ InTheMaking' = 0
    BY <1>t, <2>1 DEF PhasesAreCoherent, InTheMaking
  <2>3. open' = 0
    BY <1>t, <1>c, <2>1, <2>2 DEF DescriptorsAreAccounted
  <2>4. CloseAll' = 0
    BY <2>1 DEF CloseAll, Held, Roles
  <2>5. TypeOK'
    <3>1. sockets' \in [Roles -> Source \cup {NONE}]
      BY <2>1
    <3>2. /\ phase' = "failed" /\ step' = "none" /\ opening' = "none"
          /\ making' \in Source
          /\ UNCHANGED <<tcpSocket, replaced, msearchPort, lost>>
      BY <1>b, <2>1
    <3> QED
      BY <1>t, <1>u, <2>3, <3>1, <3>2 DEF TypeOK
  <2>6. PhasesAreCoherent' /\ SocketsAreGood' /\ RunningClientIsReachable'
    BY <1>t, <2>1, <2>2 DEF PhasesAreCoherent, SocketsAreGood,
                            RunningClientIsReachable
  <2>7. MakingIsCoherent'
    BY <1>b, <2>1 DEF MakingIsCoherent, Overwritten
  <2>8. DescriptorsAreAccounted'
    BY <1>t, <1>u, <2>1, <2>2, <2>3, <2>4 DEF DescriptorsAreAccounted
  <2> QED
    BY <2>5, <2>6, <2>7, <2>8 DEF SocketInv
<1> QED
  BY <1>1, <1>2, <1>3, <1>4, <1>5 DEF Initialise

\* A receive error.
LEMMA RepairInv == SocketInv /\ Repair => SocketInv'
<1> SUFFICES ASSUME SocketInv, Repair PROVE SocketInv'
  OBVIOUS
<1> USE PortFacts
<1>t. TypeOK /\ PhasesAreCoherent /\ MakingIsCoherent /\ SocketsAreGood
      /\ RunningClientIsReachable /\ DescriptorsAreAccounted
  BY DEF SocketInv
<1>u. UNCHANGED <<given, phase, tcpSocket, msearchPort>> /\ phase = "running"
  BY DEF Repair, ReceiveFails, Idle, Replace, KeepOld, dataVars
<1>c. /\ \A r \in Roles : Held(r) \in 0..2
      /\ CloseAll = Held("request") + Held("multicast") + Held("search")
      /\ CloseAll \in Int
  <2>1. \A r \in Roles : Held(r) \in 0..2
    BY <1>t, SourceFacts DEF TypeOK, Held
  <2> QED
    BY <2>1 DEF CloseAll, Roles
<1>b. /\ Blank("request", 0, FALSE) \in Source
      /\ Blank("request", 0, FALSE).type = "request"
      /\ Blank("request", 0, FALSE).asked = 0
      /\ Blank("request", 0, FALSE).tcp = 0
      /\ Blank("request", 0, FALSE).port = 0
      /\ Blank("request", 0, FALSE).udp = 0
      /\ Descriptors(Blank("request", 0, FALSE)) = 0
  BY BlankFacts DEF Types
\* A new source, or none: MakingIsCoherent of a blank one
<1>m. ASSUME making' = Blank("request", 0, FALSE), step' \in {"none", "create"}
      PROVE  MakingIsCoherent' /\ InTheMaking' = 0
  BY <1>b, <1>m DEF MakingIsCoherent, Overwritten, InTheMaking
<1>1. ASSUME NEW role \in Roles, ReceiveFails(role) PROVE SocketInv'
  <2>1. /\ step = "none" /\ step' = "create" /\ opening' = role
        /\ making' = Blank("request", 0, FALSE)
        /\ UNCHANGED <<sockets, replaced, open, lost>>
    BY <1>1 DEF ReceiveFails, NewSource
  <2>2. TypeOK' /\ PhasesAreCoherent'
    BY <1>t, <1>u, <1>b, <2>1 DEF TypeOK, PhasesAreCoherent
  <2>3. SocketsAreGood' /\ RunningClientIsReachable'
    BY <1>t, <1>u, <2>1 DEF SocketsAreGood, RunningClientIsReachable
  <2>4. DescriptorsAreAccounted'
    <3>1. CloseAll' = CloseAll
      BY <2>1 DEF CloseAll, Held
    <3>2. InTheMaking = 0 /\ InTheMaking' = 0
      BY <1>m, <2>1 DEF InTheMaking
    <3> QED
      BY <1>t, <1>u, <2>1, <3>1, <3>2 DEF DescriptorsAreAccounted
  <2> QED
    BY <1>m, <2>1, <2>2, <2>3, <2>4 DEF SocketInv
<1>2. CASE Replace
  <2>1. /\ step = "made" /\ step' = "none" /\ opening' = "none"
        /\ sockets' = [sockets EXCEPT ![opening] = making]
        /\ making' = Blank("request", 0, FALSE)
        /\ open' = open - Held(opening) /\ lost' = lost
        /\ replaced' = replaced \cup {opening}
    BY <1>2 DEF Replace, Install, SourceDone
  <2>p. PICK o \in Roles : o = opening
    BY <1>t, <1>u, <2>1 DEF PhasesAreCoherent
  <2>2. /\ making \in Source /\ making # NONE /\ making.type = "request"
        /\ making.udp = SSDP_PORT /\ making.tcp = 0
        /\ Descriptors(making) = 1
    <3>1. making \in Source /\ making # NONE
      BY <1>t, SourceFacts DEF TypeOK
    <3>2. making.type = "request" /\ making.udp = SSDP_PORT /\ making.tcp = 0
      BY <1>t, <1>u, <2>1 DEF PhasesAreCoherent, MakingIsCoherent
    <3> QED
      BY <3>1, <3>2 DEF Descriptors
  <2>3. /\ \A r \in Roles : r # o => sockets'[r] = sockets[r]
        /\ sockets'[o] = making
        /\ sockets' \in [Roles -> Source \cup {NONE}]
    BY <1>t, <2>1, <2>p, <2>2 DEF TypeOK
  <2>4. Held(o) \in 0..2 /\ open \in Int
    BY <1>c, <1>t DEF TypeOK
  <2>5. TypeOK'
    <3>1. /\ step' = "none" /\ opening' = "none" /\ making' \in Source
          /\ lost' = lost /\ replaced' \subseteq Roles
      BY <1>t, <1>b, <2>1, <2>p DEF TypeOK
    <3>2. open' \in Int
      <4>1. Held(opening) = Held(o)
        BY <2>p
      <4>2. open' = open - Held(opening)
        BY <2>1
      <4> HIDE DEF Held
      <4> QED
        BY <2>4, <4>1, <4>2
    <3>3. sockets' \in [Roles -> Source \cup {NONE}]
      BY <2>3
    <3>4. given' \in Givens /\ phase' = "running"
      BY <1>t, <1>u DEF TypeOK
    <3>5. /\ msearchPort' \in DynamicPorts \cup {0}
          /\ tcpSocket' \in DynamicPorts \cup {0}
      BY <1>t, <1>u DEF TypeOK
    <3>6. lost' \in BOOLEAN
      BY <1>t, <3>1, Zenon DEF TypeOK
    <3> QED
      BY <3>1, <3>2, <3>3, <3>4, <3>5, <3>6 DEF TypeOK
  <2>6. PhasesAreCoherent'
    BY <1>u, <2>1 DEF PhasesAreCoherent
  <2>7. SocketsAreGood' /\ RunningClientIsReachable'
    BY <1>t, <1>u, <2>1, <2>p, <2>2, <2>3 DEF SocketsAreGood,
       RunningClientIsReachable
  <2>8. DescriptorsAreAccounted'
    <3>1. Held(o)' = 1
      BY <2>2, <2>3 DEF Held
    <3>2. \A r \in Roles : r # o => Held(r)' = Held(r)
      BY <2>3 DEF Held
    <3>3. CloseAll' = CloseAll - Held(o) + 1
      BY <1>c, <2>p, <3>1, <3>2 DEF CloseAll, Roles
    <3>4. InTheMaking = 1 /\ InTheMaking' = 0
      BY <1>m, <2>1, <2>2 DEF InTheMaking
    <3>5. /\ open' = open - Held(o)
          /\ open = CloseAll + (IF tcpSocket = 0 THEN 0 ELSE 1) + 1
      BY <1>t, <2>1, <2>p, <3>4 DEF DescriptorsAreAccounted
    <3> QED
      BY <1>t, <1>u, <1>c, <2>1, <2>4, <3>3, <3>4, <3>5
         DEF DescriptorsAreAccounted
  <2> QED
    BY <1>m, <2>1, <2>5, <2>6, <2>7, <2>8 DEF SocketInv
<1>3. CASE KeepOld
  <2>1. /\ step = "failed" /\ step' = "none" /\ opening' = "none"
        /\ making' = Blank("request", 0, FALSE)
        /\ UNCHANGED <<sockets, replaced, open, lost>>
    BY <1>3 DEF KeepOld, SourceDone
  <2>2. TypeOK' /\ PhasesAreCoherent'
    BY <1>t, <1>u, <1>b, <2>1 DEF TypeOK, PhasesAreCoherent
  <2>3. SocketsAreGood' /\ RunningClientIsReachable'
    BY <1>t, <1>u, <2>1 DEF SocketsAreGood, RunningClientIsReachable
  <2>4. DescriptorsAreAccounted'
    <3>1. CloseAll' = CloseAll
      BY <2>1 DEF CloseAll, Held
    <3>2. InTheMaking = 0 /\ InTheMaking' = 0
      BY <1>m, <2>1 DEF InTheMaking
    <3> QED
      BY <1>t, <1>u, <2>1, <3>1, <3>2 DEF DescriptorsAreAccounted
  <2> QED
    BY <1>m, <2>1, <2>2, <2>3, <2>4 DEF SocketInv
<1> QED
  BY <1>1, <1>2, <1>3 DEF Repair

LEMMA DisposeInv == SocketInv /\ Dispose => SocketInv'
<1> SUFFICES ASSUME SocketInv, Dispose PROVE SocketInv'
  OBVIOUS
<1>t. TypeOK /\ PhasesAreCoherent /\ MakingIsCoherent
      /\ DescriptorsAreAccounted
  BY DEF SocketInv
<1>1. /\ phase' = "disposed" /\ step = "none" /\ tcpSocket' = 0
      /\ open' = open - CloseAll - (IF tcpSocket = 0 THEN 0 ELSE 1)
      /\ sockets' = [r \in Roles |-> NONE]
      /\ UNCHANGED <<given, opening, replaced, msearchPort, step, making, lost>>
  BY DEF Dispose, Idle, dataVars
<1>2. InTheMaking = 0 /\ InTheMaking' = 0
  BY <1>1 DEF InTheMaking
<1>3. CloseAll \in Int
  <2>1. \A r \in Roles : Held(r) \in Int
    BY <1>t, SourceFacts DEF TypeOK, Held
  <2> QED
    BY <2>1 DEF CloseAll, Roles
<1>4. open' = 0
  BY <1>t, <1>1, <1>2, <1>3 DEF DescriptorsAreAccounted
<1>5. CloseAll' = 0
  BY <1>1 DEF CloseAll, Held, Roles
<1>6. TypeOK'
  <2>1. sockets' \in [Roles -> Source \cup {NONE}]
    BY <1>1
  <2> QED
    BY <1>t, <1>1, <1>4, <2>1 DEF TypeOK
<1>7. /\ PhasesAreCoherent' /\ SocketsAreGood' /\ RunningClientIsReachable'
      /\ MakingIsCoherent'
  BY <1>t, <1>1 DEF PhasesAreCoherent, SocketsAreGood,
     RunningClientIsReachable, MakingIsCoherent, Overwritten
<1>8. DescriptorsAreAccounted'
  BY <1>t, <1>1, <1>2, <1>4, <1>5 DEF DescriptorsAreAccounted
<1> QED
  BY <1>6, <1>7, <1>8 DEF SocketInv

LEMMA InitSocketInv == Init => SocketInv
<1> SUFFICES ASSUME Init PROVE SocketInv
  OBVIOUS
<1> USE PortFacts
<1>1. /\ given \in Givens /\ phase = "new" /\ opening = "none"
      /\ sockets = [r \in Roles |-> NONE] /\ tcpSocket = 0 /\ replaced = {}
      /\ msearchPort = given.port /\ step = "none"
      /\ making = Blank("request", 0, FALSE) /\ open = 0 /\ lost = FALSE
  BY DEF Init, SourceInit
<1>b. /\ Blank("request", 0, FALSE) \in Source
      /\ Blank("request", 0, FALSE).type = "request"
      /\ Blank("request", 0, FALSE).asked = 0
      /\ Blank("request", 0, FALSE).tcp = 0
      /\ Blank("request", 0, FALSE).port = 0
      /\ Blank("request", 0, FALSE).udp = 0
  BY BlankFacts DEF Types
<1>2. TypeOK
  <2>1. sockets \in [Roles -> Source \cup {NONE}]
    BY <1>1
  <2> QED
    <3>1. /\ given \in Givens /\ phase = "new" /\ opening = "none"
          /\ tcpSocket = 0 /\ msearchPort = given.port /\ step = "none"
          /\ replaced = {} /\ making \in Source /\ open = 0 /\ lost \in BOOLEAN
      BY <1>1, <1>b
    <3>2. given.port \in DynamicPorts \cup {0}
      BY <3>1, GivensAssumption
    <3> QED
      BY <2>1, <3>1, <3>2 DEF TypeOK
<1>3. /\ PhasesAreCoherent /\ SocketsAreGood /\ RunningClientIsReachable
      /\ MakingIsCoherent
  BY <1>1, <1>b DEF PhasesAreCoherent, SocketsAreGood,
     RunningClientIsReachable, MakingIsCoherent, Overwritten
<1>4. DescriptorsAreAccounted
  BY <1>1 DEF DescriptorsAreAccounted, CloseAll, Held, Roles, InTheMaking
<1> QED
  BY <1>2, <1>3, <1>4 DEF SocketInv

LEMMA NextSocketInv == SocketInv /\ [Next]_vars => SocketInv'
<1>1. Environment \/ Network \/ Headers \/ SetActive
      \/ (\E search \in BOOLEAN : SendMessage(search)) \/ UNCHANGED vars
      => UNCHANGED Sock
  <2>1. Environment => UNCHANGED Sock
    BY DEF Environment, OtherProcesses, OthersUse, Sock, socketVars, dataVars
  <2>2. Network => UNCHANGED Sock
    BY DEF Network, NeighbourChanges, Receive, Sock, socketVars, sourceVars
  <2>3. Headers \/ SetActive \/ (\E search \in BOOLEAN : SendMessage(search))
        => UNCHANGED Sock
    BY DEF Headers, AppendHeader, RemoveHeader, ClearHeaders, SetBootId,
           SetConfigId, SetActive, SendMessage, Call, Sock, socketVars,
           sourceVars
  <2>4. UNCHANGED vars => UNCHANGED Sock
    BY DEF vars, Sock, socketVars, sourceVars, dataVars
  <2> QED
    BY <2>1, <2>2, <2>3, <2>4
<1> QED
  BY <1>1, InitialiseInv, SystemCallsInv, RepairInv, DisposeInv, SocketsStay
     DEF Next, Application

-----------------------------------------------------------------------------
(* The device, and packets from other interfaces.                          *)

ReachInv == DeviceInv /\ ForeignPacketsStayOut

\* A step that leaves the device alone and passes no packet on.
LEMMA DeviceStays ==
    ASSUME ReachInv, UNCHANGED <<given, device>>,
           \/ UNCHANGED <<phase, traffic>>
           \/ /\ phase \in {"starting", "running"} /\ phase' # "new"
              /\ traffic' = traffic \/ traffic' = NONE \/ traffic'.sent
           \/ phase' = "failed" /\ UNCHANGED traffic
    PROVE  ReachInv'
<1>1. DeviceInv'
  BY DEF ReachInv, DeviceInv, DeviceIsTheOneFound
<1>2. ForeignPacketsStayOut'
  BY DEF ReachInv, ForeignPacketsStayOut
<1> QED
  BY <1>1, <1>2 DEF ReachInv

\* The address of a device that was found is of one of the two families.
LEMMA DeviceFamily ==
    ASSUME given \in Givens, device = NetworkInfo(given.interfaces, given.device),
           Complete(device)
    PROVE  device.addr.family \in {"v4", "v6"}
<1> DEFINE asked == Addressed(given.device)
<1>1. /\ IsList(given.interfaces) /\ IsDevice(given.device)
      /\ \A addr \in AddressesOf(given) : addr.family \in {"v4", "v6"}
  BY GivensAssumption
<1>2. device.addr \in AddressesOf(given)
  <2>1. CASE Complete(asked)
    <3>1. IsDevice(asked)
      BY <1>1 DEF Addressed, IsDevice
    <3>2. device.addr = asked.addr /\ asked.addr # NONE
      BY <2>1, <3>1 DEF NetworkInfo, IsDevice, Complete
    <3>3. asked.addr \in {given.device.addr, given.device.ip}
      BY <1>1 DEF Addressed, IsDevice
    <3> QED
      BY <3>2, <3>3 DEF AddressesOf
  <2>2. CASE ~Complete(asked)
    <3>1. FitsRequest(given.interfaces, given.device, device)
      BY <1>1, DeviceFits
    <3>2. PICK i \in DOMAIN given.interfaces :
            given.interfaces[i].addr = device.addr
      BY <2>2, <3>1 DEF FitsRequest
    <3> QED
      BY <3>2 DEF AddressesOf
  <2> QED
    BY <2>1, <2>2
<1> QED
  BY <1>1, <1>2

\* The socket is a member of the group the client compares with, unless the
\* address is of a scope that is neither link nor site.
LEMMA SameGroup ==
    ASSUME NEW addr, addr.family \in {"v4", "v6"},
           addr.family = "v6" => addr.scope \in {"link", "site"}
    PROVE  JoinedGroup(addr) = McastGroup(addr)
<1>1. CASE addr.family = "v4"
  BY <1>1 DEF JoinedGroup, McastGroup
<1>2. CASE addr.family = "v6" /\ addr.scope = "link"
  BY <1>2 DEF JoinedGroup, McastGroup
<1>3. CASE addr.family = "v6" /\ addr.scope = "site"
  BY <1>3 DEF JoinedGroup, McastGroup
<1> QED
  BY <1>1, <1>2, <1>3

LEMMA ReceiveReachInv ==
    ASSUME given \in Givens, ReachInv, NEW role, NEW src, NEW index, NEW agent,
           NEW parses, Receive(role, src, index, agent, parses)
    PROVE  ReachInv'
<1>1. phase = "running" /\ UNCHANGED <<given, device, phase>>
  BY DEF Receive, Idle
<1>2. CASE ~(parses /\ LetIn(role, src, index))
  BY <1>1, <1>2, DeviceStays DEF Receive
<1>3. CASE parses /\ LetIn(role, src, index)
  <2>1. traffic' = [sent |-> FALSE, group |-> sockets[role].joined,
                    index |-> index]
    BY <1>3 DEF Receive
  <2>2. /\ ~traffic'.sent /\ traffic'.index = index
        /\ traffic'.group = sockets[role].joined
    BY <2>1
  <2>3. DeviceInv'
    BY <1>1 DEF ReachInv, DeviceInv, DeviceIsTheOneFound
  <2>4. ASSUME given.pktinfo,
               device.addr.family = "v6" => device.addr.scope \in {"link", "site"}
        PROVE  \/ index = device.index
               \/ ~sockets[role].joined /\ index = LOOPBACK_IFINDEX
    <3>1. device.addr.family \in {"v4", "v6"}
      BY <1>1, DeviceFamily DEF ReachInv, DeviceInv, DeviceIsTheOneFound
    <3>2. JoinedGroup(device.addr) = McastGroup(device.addr)
      BY <2>4, <3>1, SameGroup
    <3> QED
      BY <1>3, <2>4, <3>2 DEF LetIn
  <2>5. ForeignPacketsStayOut'
    BY <1>1, <2>2, <2>4 DEF ForeignPacketsStayOut
  <2> QED
    BY <2>3, <2>5 DEF ReachInv
<1> QED
  BY <1>2, <1>3

LEMMA NextReachInv ==
    given \in Givens /\ ReachInv /\ [Next]_vars => ReachInv'
<1> SUFFICES ASSUME given \in Givens, ReachInv, [Next]_vars PROVE ReachInv'
  OBVIOUS
<1>1. CASE FindDevice
  <2>1. /\ phase = "new" /\ phase' = "starting" /\ UNCHANGED <<given, traffic>>
        /\ device' = NetworkInfo(given.interfaces, given.device)
        /\ Complete(device')
    BY <1>1 DEF FindDevice, dataVars
  <2>2. traffic' = NONE
    BY <2>1 DEF ReachInv, DeviceInv
  <2>3. Complete(device)'
    BY <2>1 DEF Complete
  <2> QED
    BY <2>1, <2>2, <2>3 DEF ReachInv, DeviceInv, DeviceIsTheOneFound,
                            ForeignPacketsStayOut
<1>2. CASE NoDevice
  BY <1>2, DeviceStays DEF NoDevice, dataVars
<1>3. CASE SocketMade \/ SearchSocketMade \/ SocketFailed
  BY <1>3, DeviceStays
     DEF SocketMade, SearchSocketMade, SocketFailed, dataVars
<1>4. CASE SystemCalls \/ Environment \/ UNCHANGED vars
  BY <1>4, DeviceStays DEF SystemCalls, Environment, dataVars, vars
<1>5. CASE Repair
  BY <1>5, DeviceStays DEF Repair, ReceiveFails, Idle, Replace, KeepOld, dataVars
<1>6. ASSUME NEW host, NEW mac, NeighbourChanges(host, mac) PROVE ReachInv'
  BY <1>6, DeviceStays DEF NeighbourChanges, Idle
<1>7. CASE Network
  BY <1>6, <1>7, ReceiveReachInv DEF Network
<1>8. CASE Headers \/ SetActive
  BY <1>8, DeviceStays
     DEF Headers, AppendHeader, RemoveHeader, ClearHeaders, SetBootId,
         SetConfigId, SetActive, Call, Idle
<1>9. ASSUME NEW search \in BOOLEAN, SendMessage(search) PROVE ReachInv'
  <2>1. phase = "running" /\ UNCHANGED <<given, device, phase>>
    BY <1>9 DEF SendMessage, Call, Idle
  <2>2. traffic' = NONE \/ traffic'.sent
    BY <1>9 DEF SendMessage
  <2> QED
    BY <2>1, <2>2, DeviceStays
<1>10. CASE Dispose
  BY <1>10, DeviceStays DEF Dispose, Idle, dataVars
<1> QED
  BY <1>1, <1>2, <1>3, <1>4, <1>5, <1>7, <1>8, <1>9, <1>10
     DEF Next, Initialise, Application

-----------------------------------------------------------------------------
(* The user agent cache.                                                   *)

\* A step that leaves the cache, the neighbours and the hosts alone.
LEMMA CacheStays == CacheInv /\ UNCHANGED <<given, cacheVars>> => CacheInv'
BY DEF CacheInv, cacheVars

\* A host that speaks is remembered under its link-layer address if the kernel
\* knows it, else under an address that is no link-layer address.
LEMMA ReceiveCacheInv ==
    ASSUME given \in Givens, CacheInv, NEW role, NEW host \in given.hosts,
           NEW index, NEW agent, NEW parses,
           Receive(role, host, index, agent, parses)
    PROVE  CacheInv'
<1>1. given' = given /\ neighbour' = neighbour
  BY DEF Receive
<1>2. \/ UNCHANGED <<agents, spoke>>
      \/ agent # NONE /\ AddCacheEntry(host, agent)
  BY DEF Receive, AddCacheEntry
<1>3. CASE UNCHANGED <<agents, spoke>>
  BY <1>1, <1>3, CacheStays DEF cacheVars
<1>4. CASE agent # NONE /\ AddCacheEntry(host, agent) /\ neighbour[host] = NONE
  <2>1. spoke' = spoke /\ agents' = [agents EXCEPT ![host] = agent]
    BY <1>4 DEF AddCacheEntry, MacLookup
  <2>2. host \notin MACs
    BY GivensAssumption
  <2> QED
    BY <1>1, <2>1, <2>2 DEF CacheInv
<1>5. CASE agent # NONE /\ AddCacheEntry(host, agent) /\ neighbour[host] # NONE
  <2>1. PICK m \in MACs : m = neighbour[host]
    BY <1>5 DEF CacheInv
  <2>2. /\ spoke' = [spoke EXCEPT ![m] = agent]
        /\ agents' = [agents EXCEPT ![m] = agent]
    BY <1>5, <2>1 DEF AddCacheEntry, MacLookup
  <2> QED
    BY <1>1, <2>2 DEF CacheInv
<1> QED
  BY <1>2, <1>3, <1>4, <1>5

LEMMA NextCacheInv ==
    given \in Givens /\ CacheInv /\ [Next]_vars => CacheInv'
<1> SUFFICES ASSUME given \in Givens, CacheInv, [Next]_vars PROVE CacheInv'
  OBVIOUS
<1>1. CASE Initialise \/ SystemCalls \/ Environment \/ Repair \/ Dispose
           \/ UNCHANGED vars
  BY <1>1, CacheStays
     DEF Initialise, FindDevice, NoDevice, SocketMade, SearchSocketMade,
         SocketFailed, SystemCalls, Environment, Repair, ReceiveFails, Replace,
         KeepOld, Dispose, dataVars, vars
<1>2. CASE Headers \/ SetActive \/ \E search \in BOOLEAN : SendMessage(search)
  BY <1>2, CacheStays
     DEF Headers, AppendHeader, RemoveHeader, ClearHeaders, SetBootId,
         SetConfigId, SetActive, SendMessage, Call
<1>3. ASSUME NEW host \in given.hosts, NEW mac \in {NONE} \cup MACs,
             NeighbourChanges(host, mac)
      PROVE  CacheInv'
  BY <1>3 DEF NeighbourChanges, CacheInv
<1>4. CASE Network
  BY <1>3, <1>4, ReceiveCacheInv DEF Network
<1> QED
  BY <1>1, <1>2, <1>4 DEF Next, Application

-----------------------------------------------------------------------------
(* Theorems.                                                               *)

\* The inductive invariant of the client.
THEOREM Invariance == Spec => []IInv
<1>1. Init => SocketInv /\ HeaderInv
  BY InitSocketInv, InitHeaderInv
<1>2. Init => ReachInv /\ CacheInv
  BY DEF Init, ReachInv, DeviceInv, DeviceIsTheOneFound, ForeignPacketsStayOut,
         CacheInv
<1>3. SocketInv /\ HeaderInv /\ [Next]_vars => (SocketInv /\ HeaderInv)'
  BY NextSocketInv, NextHeaderInv
<1>4. SocketInv /\ ReachInv /\ CacheInv /\ [Next]_vars => (ReachInv /\ CacheInv)'
  BY NextReachInv, NextCacheInv DEF SocketInv, TypeOK
<1>5. SocketInv /\ HeaderInv /\ ReachInv /\ CacheInv => IInv
  BY DEF IInv, HeaderInv, ReachInv
<1> QED
  BY <1>1, <1>2, <1>3, <1>4, <1>5, PTL DEF Spec

\* Failing at any system call, replacing a socket and disposing leave no
\* descriptor open that nothing points to, except looking for another port.
THEOREM DescriptorsKept == Spec => []DescriptorsAreAccounted
<1>1. IInv => DescriptorsAreAccounted
  BY DEF IInv, SocketInv
<1> QED
  BY <1>1, Invariance, PTL

\* Whatever is done to the headers, a message carries the ids of the client.
THEOREM IdsSent == Spec => []IdsReachTheWire
<1>1. IInv => IdsReachTheWire
  BY DEF IInv
<1> QED
  BY <1>1, Invariance, PTL

\* A running client has a socket in each role; until an error replaces them, the
\* search socket has the port of the client and not SSDP_PORT, and the multicast
\* socket is a member of its group.
THEOREM SocketsServe == Spec => []SocketsServeTheirRoles
<1>1. IInv => SocketsServeTheirRoles
  <2> SUFFICES ASSUME IInv, phase = "running"
               PROVE  SocketsServeTheirRoles
    BY DEF SocketsServeTheirRoles
  <2>1. /\ \A r \in Roles : sockets[r] # NONE
        /\ given.port \in {0, msearchPort}
        /\ msearchPort # 0 => tcpSocket = msearchPort
    BY DEF IInv, SocketInv, RunningClientIsReachable
  <2>2. SocketsAreGood
    BY DEF IInv, SocketInv
  <2>3. sockets["request"].udp = SSDP_PORT
    BY <2>1, <2>2 DEF SocketsAreGood, Roles
  <2>4. ASSUME "multicast" \notin replaced
        PROVE  sockets["multicast"].joined /\ sockets["multicast"].udp = SSDP_PORT
    BY <2>1, <2>2, <2>4 DEF SocketsAreGood, Roles
  <2>5. ASSUME "search" \notin replaced
        PROVE  /\ sockets["search"].udp # SSDP_PORT
               /\ msearchPort # 0 => sockets["search"].udp = msearchPort
    BY <2>1, <2>2, <2>5, PortsAssumption DEF SocketsAreGood, Roles
  <2> QED
    BY <2>1, <2>3, <2>4, <2>5 DEF SocketsServeTheirRoles
<1> QED
  BY <1>1, Invariance, PTL

\* The device of a running client is one that the application asked for, on an
\* interface that can be used, whatever interfaces the system has.
THEOREM DeviceIsAskedFor == Spec => []HostAddressFitsRequest
<1>1. IInv => HostAddressFitsRequest
  <2> SUFFICES ASSUME IInv, phase = "running"
               PROVE  FitsRequest(given.interfaces, given.device, device)
    BY DEF HostAddressFitsRequest
  <2>1. /\ device = NetworkInfo(given.interfaces, given.device)
        /\ Complete(device)
    BY DEF IInv, DeviceInv, DeviceIsTheOneFound
  <2>2. IsList(given.interfaces) /\ IsDevice(given.device)
    BY GivensAssumption DEF IInv, SocketInv, TypeOK
  <2> QED
    BY <2>1, <2>2, DeviceFits
<1> QED
  BY <1>1, Invariance, PTL

\* No multicast packet of another interface is passed on.
THEOREM ForeignersStayOut == Spec => []ForeignPacketsStayOut
<1>1. IInv => ForeignPacketsStayOut
  BY DEF IInv
<1> QED
  BY <1>1, Invariance, PTL

\* What a host last called itself is what it is known by at any of its
\* addresses, while the kernel knows its link-layer address.
THEOREM AgentsFollow == Spec => []AgentsFollowTheirHosts
<1>1. IInv => AgentsFollowTheirHosts
  <2> SUFFICES ASSUME IInv, NEW host \in given.hosts, neighbour[host] # NONE,
                      spoke[neighbour[host]] # NONE
               PROVE  GuessUserAgent(host) = spoke[neighbour[host]]
    BY DEF AgentsFollowTheirHosts
  <2>1. neighbour[host] \in MACs
    BY DEF IInv, CacheInv
  <2> QED
    BY <2>1 DEF IInv, CacheInv, GuessUserAgent, MacLookup
<1> QED
  BY <1>1, Invariance, PTL

=============================================================================
