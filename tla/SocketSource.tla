---------------------------- MODULE SocketSource ----------------------------
(***************************************************************************)
(* GSSDPSocketSource (libgssdp/gssdp-socket-source.c): making the socket a *)
(* client sends and receives with.  do_init is a sequence of system calls, *)
(* each of which may fail, and other processes claim and release TCP ports *)
(* between any two of them.  One source is being made at a time.           *)
(*                                                                         *)
(* UDP sockets are bound with address reuse, so they never conflict here;  *)
(* a process that insists on a UDP port shows as a failing bind.           *)
(***************************************************************************)
EXTENDS Integers, FiniteSets

CONSTANTS
    SSDP_PORT,      \* 1900
    DynamicPorts    \* bound: the ports the kernel hands out

Ports == DynamicPorts \cup {SSDP_PORT}

ASSUME PortsAssumption ==
    /\ SSDP_PORT \in Nat \ {0}
    /\ DynamicPorts \subseteq Nat \ {0}
    /\ SSDP_PORT \notin DynamicPorts

Types == {"request", "search", "multicast"}

VARIABLES
    step,       \* the part of do_init that comes next
    making,     \* the source being made
    tcpUse,     \* how other processes hold the TCP ports of our address
    open,       \* descriptors this process has open and a pointer to
    lost        \* a descriptor was left open that nothing points to

sourceVars == <<step, making, tcpUse, open, lost>>

\* A source: the port asked for and the port it knows (priv->port), whether its
\* TCP port must be its own, whether it looks for another port if that cannot be
\* claimed (should_retry), and the ports that its UDP socket and its TCP socket
\* really have, 0 for no socket.
Source == [type : Types, asked : Ports \cup {0}, port : Ports \cup {0},
           exclusive : BOOLEAN, retry : BOOLEAN, udp : Ports \cup {0},
           tcp : Ports \cup {0}, joined : BOOLEAN]

Blank(type, port, exclusive) ==
    [type |-> type, asked |-> port, port |-> port, exclusive |-> exclusive,
     retry |-> FALSE, udp |-> 0, tcp |-> 0, joined |-> FALSE]

\* How many descriptors a source has.
Descriptors(s) == (IF s.udp # 0 THEN 1 ELSE 0) + (IF s.tcp # 0 THEN 1 ELSE 0)

NoUse == [p \in DynamicPorts |-> "free"]

SourceInit ==
    /\ step = "none"
    /\ making = Blank("request", 0, FALSE)
    /\ tcpUse = NoUse
    /\ open = 0
    /\ lost = FALSE

\* g_initable_new (GSSDP_TYPE_SOCKET_SOURCE): the properties are set.
NewSource(type, port, exclusive) ==
    /\ step = "none"
    /\ step' = "create"
    /\ making' = Blank(type, port, exclusive)
    /\ UNCHANGED <<tcpUse, open, lost>>

\* The client has taken the source, or knows that there is none.  What other
\* processes do with their ports is of no interest until the next one.
SourceDone ==
    /\ step' = "none"
    /\ making' = Blank("request", 0, FALSE)
    /\ tcpUse' = NoUse

\* A call of do_init fails: the object is released, which closes what it has.
Abandon ==
    /\ step' = "failed"
    /\ open' = open - Descriptors(making)
    /\ making' = Blank(making.type, making.asked, making.exclusive)

\* priv->socket is overwritten before creating a socket can fail.
Overwritten == step = "create" /\ making.udp # 0

CallFails ==
    /\ step \in {"create", "bind", "claim", "join"}
    /\ Abandon
    /\ lost' = (lost \/ Overwritten)
    /\ UNCHANGED tcpUse

\* create_socket and configure_socket.  After a retry priv->socket is
\* overwritten: the descriptor it had stays open and nothing points to it.
CreateSocket ==
    /\ step = "create"
    /\ step' = "bind"
    /\ lost' = (lost \/ Overwritten)
    /\ open' = open - Descriptors(making)
    /\ making' = [making EXCEPT !.udp = 0]
    /\ UNCHANGED tcpUse

\* The ports bind_socket may end up with.
BindablePorts ==
    IF making.type # "search" THEN {SSDP_PORT}
    ELSE IF making.port = 0 THEN DynamicPorts
    ELSE {making.port}

\* Mutant: a port that the application asked for is given up, too.
AlwaysRetry == making.type = "search"

\* should_retry: any port would do.
ShouldRetry == making.type = "search" /\ making.port = 0

\* get_assigned_port when the kernel chose the port: it may fail, which leaves
\* priv->port 0 and is not an error for do_init.
AssignedPorts(p) ==
    IF making.type = "search" /\ making.port = 0 THEN {p, 0} ELSE {making.port}

\* bind_socket and get_assigned_port
BindSocket(p) ==
    /\ step = "bind" /\ p \in BindablePorts
    /\ \E port \in AssignedPorts(p) :
         making' = [making EXCEPT !.udp = p, !.port = port, !.retry = ShouldRetry]
    /\ open' = open + 1
    /\ step' = CASE making.type = "search" -> "claim"
                 [] making.type = "multicast" -> "join"
                 [] OTHER -> "made"
    /\ UNCHANGED <<tcpUse, lost>>

\* The ports that the TCP socket may be bound to: the kernel chooses again if
\* the source does not know its port.
TcpPorts == IF making.port = 0 THEN DynamicPorts ELSE {making.port}

\* g_socket_bind of the TCP socket can succeed, with address reuse unless the
\* application wants the socket for itself.
Claimable(p) ==
    IF making.exclusive THEN tcpUse[p] = "free" ELSE tcpUse[p] # "exclusive"

ClaimTcpPort ==
    /\ step = "claim"
    /\ \E p \in TcpPorts : Claimable(p) /\ making' = [making EXCEPT !.tcp = p]
    /\ open' = open + 1
    /\ step' = "made"
    /\ UNCHANGED <<tcpUse, lost>>

\* Mutant: whatever cannot be claimed is tried again, with the port it has.
RetrySamePort ==
    /\ step = "claim"
    /\ step' = "create"
    /\ UNCHANGED <<making, tcpUse, open, lost>>

\* g_socket_bind of the TCP socket fails, for this or another reason, and any
\* port would do: goto retry
RetryAnotherPort ==
    /\ step = "claim" /\ making.retry
    /\ making' = [making EXCEPT !.port = 0]
    /\ step' = "create"
    /\ UNCHANGED <<tcpUse, open, lost>>

\* It fails otherwise: "Could not claim TCP socket"
CannotClaim ==
    /\ step = "claim" /\ ~making.retry
    /\ Abandon
    /\ UNCHANGED <<tcpUse, lost>>

JoinGroup ==
    /\ step = "join"
    /\ making' = [making EXCEPT !.joined = TRUE]
    /\ step' = "made"
    /\ UNCHANGED <<tcpUse, open, lost>>

DoInit ==
    \/ CreateSocket
    \/ \E p \in Ports : BindSocket(p)
    \/ ClaimTcpPort
    \/ RetryAnotherPort
    \/ CannotClaim
    \/ JoinGroup

\* Another process takes, shares or releases a TCP port.  It matters only
\* while a search socket is being made.
OthersUse(p, use) ==
    /\ making.type = "search" /\ step \in {"create", "bind", "claim"}
    /\ tcpUse[p] # use
    /\ tcpUse' = [tcpUse EXCEPT ![p] = use]
    /\ UNCHANGED <<step, making, open, lost>>

OtherProcesses ==
    \E p \in DynamicPorts, use \in {"free", "shared", "exclusive"} : OthersUse(p, use)

=============================================================================
