------------------------------- MODULE Sniffer -------------------------------
(***************************************************************************)
(* The device sniffer (tools/main-window.c): a window over a client and a  *)
(* browser for ssdp:all.  Every message that arrives goes to the browser,  *)
(* whose signals maintain the list of devices, and to the window, which    *)
(* appends it to the list of packets unless it is filtered out.            *)
(*                                                                         *)
(* A device is the uuid of a USN and has one row, whatever the number of   *)
(* its USNs.  A packet is the address it came from; every device sends     *)
(* from its own, so that its uuid stands for it.                           *)
(***************************************************************************)
EXTENDS Integers, Sequences, FiniteSets

CONSTANTS
    Usns,           \* the USNs on the network
    DeviceTypes,    \* the types that have ":device:" in them
    Locations,      \* the location lists the messages give
    MaxPackets,     \* bound: packets in the list
    NONE            \* no device type, and an empty filter

VARIABLES
    active, target, version, cache, discoverySrc, numDiscovery, refreshSrc,
    collecting, fresh, known, asked, heard, signals, disposed

VARIABLES
    client,         \* "none" until constructed() has run, "open" or "failed"
    rows,           \* the device list: uuid -> [type, location]
    devices,        \* self->devices
    list,           \* the packet list, newest first
    packets,        \* self->packets
    capture,        \* self->capture
    searchMode,     \* the search bar is open
    filter          \* the text of the address filter

Browser == INSTANCE ResourceBrowser WITH
    BrowseTargets <- {[type |-> "all", ver |-> 0]}, HandlerStops <- FALSE

browserState == <<active, target, version, cache, discoverySrc, numDiscovery,
                  refreshSrc, collecting, fresh, known, asked, heard, disposed>>
browserVars  == <<browserState, signals>>
deviceVars == <<rows, devices>>
packetVars == <<list, packets>>
toolVars   == <<capture, searchMode, filter>>
vars == <<browserVars, client, deviceVars, packetVars, toolVars>>

Uuids == {u.uuid : u \in Usns}

UuidsOf(S) == {u.uuid : u \in S}

-----------------------------------------------------------------------------
(* The lists.                                                              *)

\* Mutant: a row stays until its device says byebye for the USN with the type.
LeftWithoutType ==
    {x \in DOMAIN rows :
       \A u \in signals'.gone : u.uuid = x => u.type \notin DeviceTypes}

\* resource_unavailable_cb: the first USN that goes takes the row with it.
\* What is left of the rows once the signal has come for all that are gone.
Left == DOMAIN rows \ UuidsOf(signals'.gone)

\* append_device: the row of x once its resource u is available.  One that is
\* there already only learns its type.
RowWith(x, u) ==
    [type     |-> IF u.type \in DeviceTypes THEN u.type
                  ELSE IF x \in Left THEN rows[x].type ELSE NONE,
     location |-> IF x \in Left THEN rows[x].location
                  ELSE cache'[Browser!Key(u)].locations]

\* Mutant: every resource that comes counts as a device.
CountedTwice == UuidsOf(signals'.new)

\* resource_available_cb counts the devices that get a row.
Counted == UuidsOf(signals'.new) \ Left

\* The signals of a step of the browser; at most one resource is new.
ShowDevices ==
    /\ rows' = [x \in Left \cup UuidsOf(signals'.new) |->
                  IF x \in UuidsOf(signals'.new)
                  THEN RowWith(x, CHOOSE u \in signals'.new : u.uuid = x)
                  ELSE rows[x]]
    /\ devices' = devices - Cardinality(DOMAIN rows \ Left)
                          + Cardinality(Counted)

\* An open filter lets nothing but its address through; an empty one nothing.
Shown(from) == capture /\ (searchMode => filter = from)

\* on_ssdp_message and append_packet
ShowPacket(from) ==
    IF Shown(from)
    THEN /\ Len(list) < MaxPackets
         /\ list' = <<from>> \o list
         /\ packets' = packets + 1
    ELSE UNCHANGED packetVars

-----------------------------------------------------------------------------
Init ==
    /\ Browser!Init
    /\ client = "none"
    /\ rows = [x \in {} |-> x]
    /\ devices = 0
    /\ list = <<>>
    /\ packets = 0
    /\ capture = TRUE
    /\ searchMode = FALSE
    /\ filter = NONE

\* constructed() with a client: the browser is connected, then activated.
Construct ==
    /\ client = "none"
    /\ client' = "open"
    /\ Browser!Activate
    /\ ShowDevices
    /\ UNCHANGED <<packetVars, toolVars>>

\* constructed() without one: the window stays, with no browser.
ConstructWithoutClient ==
    /\ client = "none"
    /\ client' = "failed"
    /\ UNCHANGED <<browserVars, deviceVars, packetVars, toolVars>>

\* The browser has no use for a message.
Disregard == Browser!TellNothing /\ UNCHANGED browserState

\* An answer or an announcement about u.  A search is not shown, and changes
\* nothing.
Receive(u) ==
    /\ client = "open"
    /\ \/ \E l \in Locations : \/ Browser!Discover(u, l)
                               \/ Browser!Renew(u, l)
                               \/ Browser!Relocate(u, l)
       \/ Browser!ReceiveByebye(u)
       \/ Browser!ReceiveUpdate(u)
       \/ Disregard
    /\ ShowDevices
    /\ ShowPacket(u.uuid)
    /\ UNCHANGED <<client, toolVars>>

\* The timers of the browser
Timers ==
    /\ \/ Browser!DiscoveryTimeout
       \/ Browser!RefreshCache
       \/ \E k \in Browser!Keys : Browser!Expire(k)
    /\ ShowDevices
    /\ UNCHANGED <<client, packetVars, toolVars>>

\* on_trigger_rescan: without a browser it is a failed assertion.
TriggerRescan ==
    /\ client = "open"
    /\ Browser!Rescan
    /\ ShowDevices
    /\ UNCHANGED <<client, packetVars, toolVars>>

\* Mutant: the counter is not reset.
ClearCaptureKeepsCount ==
    /\ list' = <<>>
    /\ UNCHANGED <<browserVars, client, deviceVars, packets, toolVars>>

\* on_clear_capture
ClearCapture ==
    /\ list' = <<>>
    /\ packets' = 0
    /\ UNCHANGED <<browserVars, client, deviceVars, toolVars>>

\* The property "capture", toggled by its button
ToggleCapture ==
    /\ capture' = ~capture
    /\ UNCHANGED <<browserVars, client, deviceVars, packetVars, searchMode,
                   filter>>

\* The button bound to the search bar, and the text typed there
ToggleSearch ==
    /\ searchMode' = ~searchMode
    /\ UNCHANGED <<browserVars, client, deviceVars, packetVars, capture,
                   filter>>

TypeFilter(text) ==
    /\ searchMode
    /\ filter' = text
    /\ UNCHANGED <<browserVars, client, deviceVars, packetVars, capture,
                   searchMode>>

\* on_set_address_filter, from the menu of a selected packet
SetAddressFilter(from) ==
    /\ \E i \in DOMAIN list : list[i] = from
    /\ filter' = from
    /\ searchMode' = TRUE
    /\ UNCHANGED <<browserVars, client, deviceVars, packetVars, capture>>

Next ==
    \/ Construct
    \/ ConstructWithoutClient
    \/ \E u \in Usns : Receive(u)
    \/ Timers
    \/ TriggerRescan
    \/ ClearCapture
    \/ ToggleCapture
    \/ ToggleSearch
    \/ \E text \in Uuids \cup {NONE} : TypeFilter(text)
    \/ \E from \in Uuids : SetAddressFilter(from)

Spec == Init /\ [][Next]_vars

-----------------------------------------------------------------------------
(* Properties.                                                             *)

\* A row shows nothing that the browser does not believe in: a cached resource
\* of the device gave the location in it, and a cached resource of the device
\* gave the type, although only the first resource fills in the row and the
\* rows do not say which.
RowsAreBelieved ==
    \A x \in DOMAIN rows :
        /\ \E k \in Browser!Cached : /\ cache[k].usn.uuid = x
                                     /\ cache[k].locations = rows[x].location
        /\ rows[x].type # NONE =>
             \E k \in Browser!Cached : /\ cache[k].usn.uuid = x
                                       /\ cache[k].usn.type = rows[x].type

\* The counters in the title are the lengths of the lists, whichever signals
\* and packets came and whatever was filtered, captured or cleared meanwhile.
CountersMatchTheLists ==
    /\ devices = Cardinality(DOMAIN rows)
    /\ packets = Len(list)

-----------------------------------------------------------------------------
(* The inductive invariant of SnifferProofs.                               *)

\* A browser for ssdp:all has no version, so that a resource is filed under
\* the USN it came with.
FiledUnderUsns ==
    /\ version = 0
    /\ Browser!Cached \subseteq Usns
    /\ \A k \in Browser!Cached : cache[k].usn = k

IInv ==
    /\ FiledUnderUsns
    /\ IsFiniteSet(DOMAIN rows)
    /\ list \in Seq(Uuids)
    /\ RowsAreBelieved
    /\ CountersMatchTheLists

=============================================================================
