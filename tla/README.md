# GSSDP in TLA+

GSSDP is a C library for SSDP, the discovery protocol of UPnP: programs
announce resources on the local network and browse for those of others. This
directory models the protocol logic of `src/libgssdp/` in TLA+, checks the
models with TLC and proves theorems about them with TLAPS.

## The system

Everything runs in one thread, on a GLib main loop. There is no data race to
find; what is hard is *order*: API calls, timers (`GSource`s) and received
packets interleave freely between dispatches, packets get lost, and signal
handlers of the application run in the middle of library functions.

| Component | State | Operations | Talks to |
|---|---|---|---|
| **GSSDPResourceGroup** `gssdp-resource-group.c` | available, resources (each with its pending discovery responses and `initial_byebye_sent`), message queue, message timer, re-announcement timer | set_available, add_resource, remove_resource, update, dispose; the two timers; a response timer per answer; receipt of M-SEARCH | sends through the client; the client's `message-received` |
| **GSSDPResourceBrowser** `gssdp-resource-browser.c` | target and version, active, cache of resources with an expiry timer each, discovery timer and counter, refresh timer, set of fresh resources | set_target, set_active, rescan, dispose; discovery, refresh and expiry timers; receipt of announcements and responses | searches through the client; signals to the application |
| **GSSDPClient** `gssdp-client.c` | network device, header list, boot and config id, UDA version, active flag, three sockets, user-agent cache | header and id setters, send, receive and classify, socket replacement on error | group and browser by `message-received`; sockets |
| **GSSDPSocketSource** `gssdp-socket-source.c`, `gssdp-socket-functions.c` | one socket of type request, search or multicast, its port, its source | open (bind, join the multicast group, claim a port), attach, dispose | kernel; callbacks of the client |
| **Network discovery** `gssdp-net-{posix,bionic,win32}.c` | none | pick the host address, netmask, interface index, MAC lookup | kernel |
| **pktinfo messages** `gssdp-pktinfo*-message.c` | one control message | serialise, deserialise | kernel |
| **Protocol, errors** `gssdp-protocol.h`, `gssdp-error.c` | none | message templates, constants | all |
| **Device sniffer** `tools/` | table of devices and of packets | signal handlers of a browser and a client | browser, client |
| Examples, tests, build files, docs | – | – | – |

What makes each correct, and what is hard about it:

* **Group.** Listeners end up believing what is true: the last announcement of
  each resource matches the group's state, although announcements wait in a
  queue while the application changes its mind; a byebye precedes the first
  alive; timers exist exactly when they should; responses do not outlive their
  resource; dispose says goodbye.
* **Browser.** The application's picture and the cache are the same thing; a
  resource leaves the cache in six ways, each with exactly one signal; a round
  of discovery drops what stayed silent and nothing else; the target and the
  version used for matching and hashing stay in step; handlers may call back.
* **Client.** Packets go to the right consumers, ids and headers reach the wire,
  a failing socket is replaced by an equivalent one.
* **Socket source.** The group joined is the group sent to; opening ends.
* **Network discovery.** The device found is one the application asked for, and
  a real one of the host.
* **Sniffer.** What a row shows is believed by the browser; the counters count.
* **All together.** What a browser tells its application was once on offer, an
  offer that ends is forgotten, one that stays is learnt, although messages are
  lost, repeated and reordered, timers have only seconds and processes die.

## Modules

| Module | Contents |
|---|---|
| `ResourceGroup`, `MCResourceGroup` + 4 cfgs | the announcer |
| `ResourceGroupProofs`, `ResourceGroupByebyeProofs` | its inductive invariants and theorems |
| `ResourceBrowser`, `MCResourceBrowser` + 3 cfgs | the listener |
| `ResourceBrowserProofs` | its inductive invariant and theorems |
| `Presence` | the abstract specification of discovery: an offer and a belief, no messages |
| `Discovery`, `MCDiscovery.cfg` | group, browser and network composed, with crashes; implements `Presence` |
| `DiscoveryProofs` | the refinement, and the theorems of the parts in the composition, for every bound |
| `Timing`, `MCTiming.cfg` | the durations that the others leave out |
| `TimingProofs` | its inductive invariant and theorems |
| `NetDevice` | choosing the network device, as functions |
| `NetDeviceProofs` | what these functions compute, for every list of interfaces |
| `SocketSource` | making one socket, system call by system call |
| `Client`, `MCClient` + 2 cfgs | the client, over the two modules before |
| `ClientProofs` | its inductive invariant and theorems |
| `Sniffer`, `MCSniffer` + cfg | the sniffer's window over a `ResourceBrowser` |
| `SnifferProofs` | its inductive invariant and theorems |

`Discovery` instantiates `ResourceGroup`, `ResourceBrowser` and `Presence`;
`Sniffer` instantiates `ResourceBrowser`; `Client` extends `SocketSource` and
`NetDevice`. `Timing` stands alone: it repeats the few actions of group and
browser that a clock matters to.

In every specification a definition that begins with the comment "Mutant" is a
plausible mistake in the definition that follows it. No action uses it; it
documents which mistake the properties catch.

### ResourceGroup

`available`, `listed`, `lastId`, `byebyeSent` stand for the fields of the group
and of its resources; resource ids only grow and the C list is prepended to, so
the order of the list is the descending order of ids and the module keeps a
set. `queue` and `messageSrc` are the message queue and its timer;
`timeoutSrc` is the pointer `priv->timeout_src` and `timeoutSources` counts the
re-announcement sources really attached, so that an overwritten pointer shows
as a leaked source. `responses` counts pending answers per resource and target.
`wire` is what the last step gave to the client; `announced` remembers the last
announcement sent per resource. The last two are for the properties only.

| Action | Code |
|---|---|
| `MakeAvailable`, `MakeUnavailable` | `set_available` with `send_initial_resource_byebye`, `send_announcement_set`, `setup_reannouncement_timeout` |
| `AddResource`, `RefuseResource` | `add_resource`; the second is the error path that frees the resource again |
| `RemoveResource` | `remove_resource`, `resource_free`, `discovery_response_free` |
| `Update` | `gssdp_resource_group_update` |
| `Reannounce`, `ProcessQueue`, `SendResponse` | the three kinds of timer |
| `SearchFor`, `SearchAll` | `message_received_cb` |
| `Dispose` | `dispose`, with the flush of the queue |

Messages are records of kind, resource and next boot id; the BOOTID header is
added when a message is sent, as the client does it. Header wording, URLs and
dates are left out. Timers have no duration: an attached timer may fire at any
time, which covers every setting of `max_age`, `message_delay` and every random
response delay; `Timing` looks at the durations. An announcement set is three rounds over the list
(`DEFAULT_ANNOUNCEMENT_SET_SIZE`). A call after `dispose` is not modelled.

### ResourceBrowser

`active`, `target`, `version`, `discoverySrc`, `numDiscovery`, `refreshSrc` are
the fields of the browser. `cache` is the hash table, a function from canonical
USN to the USN and locations stored; `collecting` and `fresh` are
`fresh_resources` (whether it is there, and its keys). `signals` holds what the
last step emitted. `known` (what the application was told is there), `asked`
(searches of this round) and `heard` (resources heard of in this round) are
history for the properties.

| Action | Code |
|---|---|
| `SetTarget`, `Activate`, `Deactivate`, `Rescan`, `Dispose` | the API calls, with `start_discovery`, `stop_discovery`, `clear_cache` |
| `DiscoveryTimeout`, `RefreshCache`, `Expire` | the timers |
| `Discover`, `Renew`, `Relocate` | `resource_available` for a resource that is new, cached, cached at another location |
| `RelocateStopped` | the last one when the `resource-unavailable` handler calls `set_active (FALSE)` before `resource_available` goes on |
| `ReceiveByebye`, `ReceiveUpdate` | `resource_unavailable`, `resource_update` |

A USN is `[uuid, type, ver]`; `Canonical` cuts it at its last colon when the
browser has a version, which for a USN that is only a uuid removes the uuid.
`Compatible` is `check_target_compat`, with the version that `set_target` may
have left behind. Location lists are compared on their common prefix, as the
code does. Alive announcements and search responses are the same action: they
reach `resource_available` through the same test.

A handler that calls back in other places is either equivalent to the two calls
one after the other (the signal is the last thing the function does) or, from
inside `g_hash_table_foreach_remove` in `refresh_cache` and `clear_cache`,
undefined in C; the model lets no handler run there. `HandlerStops` says whether
the handler of `RelocateStopped` exists; an application that has one is assumed
to browse for one version only (`ConstantsAssumption`), because it may find
resources cached while the browser is stopped.

### Discovery and Presence

`Presence` has four variables: `offered` (where the resource is on offer, or
`NONE`), `offers` (where it ever was), `believed` and `listening`. Its steps are
that the offer changes and that the believer comes to believe in some offer that
was once made, or in none. `Discovery` implements it under this mapping:

| `Presence` | `Discovery` |
|---|---|
| `offered` | the location of this epoch while the group is available, lists the resource and is not disposed of |
| `offers` | a history variable |
| `believed` | the locations in the browser's cache |
| `listening` | the browser is active |

A step of `Discovery` is a step of the group or of the browser, taken whole from
their modules, or of the network. `inFlight` is a set from which a message may
be delivered and stay (duplication), be lost, or be overtaken by any other. An
alive carries the location of the process that sent it; a response is an alive
sent to one address. `Crash` replaces the process of the group by a new one that
remembers nothing and is at another location; its old messages are still under
way. Not taken over from the two modules: `RemoveResource`, `Update`,
`RefuseResource` and `SearchAll` of the group, `SetTarget`, `Dispose`,
`ReceiveUpdate` and `RelocateStopped` of the browser. With one resource and one
target they add ways to withdraw an offer or forget one that are there already.

### Timing

One group, one browser and the network again, with clocks. The tick is the delay
between two messages of the queue, `message_delay`; `PerSecond` of them make a
second. `untilRound`, `left` and `sender` are the re-announcement timer, the
expiry timer and the message timer. Sources made by
`g_timeout_source_new_seconds` are aligned by GLib with the other timers of the
process, which moves the first firing by less than a second either way
(`FirstFires`); after that they keep their interval. `SetMaxAge` leaves a running
timer as it is, as the code does. Messages are the max-age they carry, 0 for a
byebye. Time passes only when no timer is due: the main loop is not starved.

### SocketSource, NetDevice and Client

`SocketSource` has one action per system call of `do_init` (`step` is the next
one), and `CallFails` for the failure of any of them; `OthersUse` lets other
processes take and release TCP ports in between. A source has the port it knows
(`port`, the C field) apart from the ports its sockets really have (`udp`,
`tcp`): they differ when `getsockname` fails, which `do_init` ignores. `retry` is
`should_retry`: any failure to bind the TCP socket is then tried again with
another port, and is an error otherwise. `open` counts descriptors that
something points to; `lost` says that one was left open that nothing points to.

| Action of `Client` | Code |
|---|---|
| `FindDevice`, `NoDevice` | `init_network_info`, with `gssdp_net_get_host_ip` and the netmask in `NetDevice` |
| `SocketMade`, `SearchSocketMade`, `SocketFailed` | `gssdp_client_initable_init` |
| `SystemCalls`, `Environment` | the actions of `SocketSource` |
| `ReceiveFails`, `Replace`, `KeepOld` | the three socket callbacks, replacing a socket |
| `AppendHeader`, `RemoveHeader`, `ClearHeaders`, `SetBootId`, `SetConfigId`, `SetActive` | the API calls |
| `SendMessage` | `_gssdp_client_send_message` |
| `Receive`, `NeighbourChanges` | `socket_source_cb` and the user-agent cache; the neighbour table of the kernel |
| `Dispose` | `dispose` |

`given` holds the constructor's properties and the interfaces of the host.
`spoke`, `replaced` (the roles whose socket an error has replaced) and `traffic`
are for the properties only. API calls and packets come
only between two sequences of system calls: the client runs on one thread. An
address is its family, network and host; the interface list is in the order of
`getifaddrs`. The device is whatever `NetDevice` computes, a function of the
interfaces. `PrefixLength` is checked against its definition by bits
(`NetmaskAssumption` of `MCClient`), and proved against it in `NetDeviceProofs`.

### Sniffer

A row is a device (a uuid), with the type and the location that the first of its
resources gave, or a later one for the type. `Receive`, `Timers` and
`TriggerRescan` are steps of the browser followed by the signal handlers
(`ShowDevices`) and, for a packet, by the message handler (`ShowPacket`); the
other actions are those of the window. A packet is the address it came from.

## Runs

| Run | Expected | Shows |
|---|---|---|
| `group` | pass | safety of the announcer under every order of calls, searches, timers and dispose, with `update()`; announcements and answers get out |
| `group_goodbye` | violation | `set_available(FALSE)` then dispose: byebyes are dropped |
| `group_answers` | violation | an unavailable group still answers |
| `group_update` | violation | not even the first update has the old BOOTID |
| `browser` | pass | safety of the listener, three targets set in turn, versioned and uuid-only USNs |
| `browser_live` | pass | signals alternate even with the reentrant handler; a round of discovery ends and forgets the silent |
| `browser_retarget` | violation | a versioned target spoils the unversioned one set after it |
| `client` | pass | no descriptor is left behind whichever call fails; each role has its socket after errors; ids reach the wire; the device found is one asked for; foreign packets stay out; hosts are known after they moved; initialisation ends |
| `client_replaced` | violation | after a receive error searches leave from port 1900 |
| `discovery` | pass | group, network and browser implement `Presence`; what ended is forgotten and what stays is learnt |
| `timing` | pass | eight announcements lost in a row lose no offer; re-announcements do not pile up |
| `sniffer` | pass | rows show what is believed; counters count; the window never gets stuck |

Bounds, and why they are enough:

* `group`: two resources of different versions (`MaxId = 2`; ids are never
  reused, so both may also be added after one another), boot ids -1 and 0, at most
  12 messages waiting (`MaxQueue`). Making two resources available takes 8 and
  updating one 6, so announcement sets meet leftovers of earlier ones in the
  queue; updating both takes 12 and finds it empty. Actions that would exceed the
  bound are disabled. One response per resource and target may be pending.
* `browser`: device u1 in versions 1 and 2, uuid-only USNs of u1 and u2 (the
  ones that collapse to one key under a stale version), location lists `<<a>>`,
  `<<b>>` (conflict) and `<<a, c>>` (extends the first), targets device:1,
  device:2 and ssdp:all.
* `browser_live`: one target, two devices, `HandlerStops`.
* `client`: twelve ways to construct a client on a host with a loopback, a wired
  interface with an IPv4, a link-local, a site-local and a global IPv6 address, a
  tunnel, an interface that is down and one whose netmask has a hole: among them
  nothing given, everything given, contradictory and unparseable addresses, a
  mask that does not fit, a host with only a loopback, and an IPv6 loopback that
  is listed first. Two ports, so that a retry finds the same port or the other
  one; at most two values of one header.
* `discovery`: one restart (`MaxEpoch = 1`), so that the messages of two
  processes mix; four messages in the queue, an initial byebye and its three
  alives; the set of messages in flight is bounded by their kinds.
* `timing`: three ticks to a second, the slowest queue that
  `ConstantsAssumption` allows; max-ages of 6 seconds (no early re-announcement),
  9 (the shortest period but one) and 12, changed at any time; six messages
  waiting. `MaxLost = 8` is sharp: with nine lost in a row TLC finds the offer
  forgotten.
* `sniffer`: three USNs of two devices, two locations, one packet in the list.

Groups, browsers and clients end with `dispose` or fail, so deadlock checking is
off for all runs but `timing` and `sniffer`, which must never stop.

**Fairness.** Weak fairness of timers (`ProcessQueue`, `SendResponse`;
`DiscoveryTimeout`, `RefreshCache`): GLib dispatches a source whose time has
come, and these sources are not re-armed by anything else while they wait. What
the application and the network do is not promised, nor in `ResourceBrowser`
that an expiry timer fires, since each announcement re-arms it.

* `Discovery` adds weak fairness of `AnnounceAgain`, a timer that keeps firing,
  and of `ExpiresUnrenewed`: a cached resource expires if from some time on no
  alive is under way that could renew it. While one is, expiry is possible and
  not promised. The network is fair in two ways: an alive that is sent again and
  again is delivered again and again (`SF` of `BrowserHears`), and none is
  repeated for ever (`WF` of `Lose`). Byebyes may all be lost.
* `Client`: init goes on and its system calls return (`WF`), the kernel, whose
  choice of a port is random, chooses each port again and again (`SF` of
  `BindSocket` per port), and a bind that is possible again and again is not
  refused for ever for another reason (`SF` of `ClaimTcpPort`): `do_init` retries
  whatever the reason, so it would not end otherwise. `InitialisationEnds` then
  needs only one port that stays free.

## Proofs

TLAPS proves the following for every value of the constants (any number of
resources, targets, USNs, locations, ports, interfaces and headers, any queue
length), from the named assumptions on the constants of each module only.

* **`ResourceGroupProofs`**: `IInv` is inductive, and with it type correctness,
  `TimersMatchState`, `QueueIsServed`, `ResponsesAreOwned`, `LastWordIsCurrent`
  and the action property `DisposeSaysGoodbye`. What was sent last does not
  determine what a listener will believe, since announcements are still
  waiting; so `LastWordIsCurrent` speaks of `Promised`: the last announcement in
  the queue, or, when the queue is silent about the resource, the last one sent.
  `Promised` is what each kind of step moves in one direction only: the timer
  shifts a message from the queue to the wire and leaves it unchanged
  (`SendHead`, `QueueStep`), the calls append announcements of which the last
  decides (`SaysConcat`, `AnnouncementSetFacts`). The proof also needs that
  every listed resource of an available group has had its initial byebye, that
  ids are not reused and that a non-empty queue has its timer.
  `DueWaits` and `QueueAdvances` say what the liveness properties of the group
  rest on: what is due and not yet said waits in the queue (`DueIsWaiting`), and
  nothing drops or overtakes it; each firing of the timer brings it nearer
  (`AnnouncementsComeNearer`). What is left for TLC is that the timer fires.
* **`ResourceGroupByebyeProofs`**: `InitialByebyesDone`, `FirstWordIsByebye` and
  `ByebyesComeGrouped`. `FirstWordIsByebye` alone is not inductive: a resource
  marked as having had its byebye must really have it, in the queue, as long as
  the network has heard nothing of it (`ByebyeIsWaiting`); without that a later
  alive could be queued behind nothing.
* **`ResourceBrowserProofs`**: `IInv` is inductive, and with it type
  correctness, `DiscoveryIsInOnePhase`, `ApplicationKnowsTheCache`,
  `CacheMatchesTarget`, `StoppedBrowserIsEmpty` and the action properties
  `SignalsAlternate`, `RefreshDropsTheSilent` and `NewLocationsAreTold`. The
  strengthening: while a round is collecting, `fresh` is exactly what was heard;
  and a browser that its handler may stop keeps its version. Without the second,
  a change of target could re-key a cache that is not empty, and
  `resource_expire` would miss its entry. `KeepStep` and `StoreStep` carry the
  argument for the cache: a step that drops entries reports USNs with exactly
  their keys, one that files an entry reports its USN as new.
  `RoundsAdvance` is the variant of a round of discovery (`RoundsRunDown`): the
  number of timers still to fire is never raised, falls with each of them, and
  where it reaches zero no silent resource is left, however the round ended.
* **`DiscoveryProofs`**: `Discovery` implements `Presence` (`ImplementsPresence`)
  for any number of restarts and any queue length. The invariant names every
  place from which the browser can still get a location: the group's queue, its
  pending responses, the network and the cache; what is in any of them comes
  from an offer. The group's own actions are used as they stand in
  `ResourceGroup`, one lemma per action.
  The theorems about the parts are carried over, not proved again: a step of the
  composition is, of the group's variables, a step of `ResourceGroup`, its `Init`
  after a crash, or nothing (`GroupStepOrCrash`), and likewise for the browser,
  whose locations come from offers, which are `Places` (`BrowserStepOrNone`). So
  `GroupCorrect` and `BrowserCorrect` say that the invariants of both hold
  (`GroupKeepsItsWord`, `BrowserKeepsItsWord`), the first for every process of
  the group anew, and `BrowserAlternates` that the signals of the browser
  alternate, whatever the network does.
* **`TimingProofs`**: `OfferOutlivesLoss` and `QueueKeepsUp`. It is not enough
  that the next announcement is in time, since it may be lost. `InTime(n)` says
  that the n-th alive from now, wherever it will come from, leaves before the
  resource expires: those in the queue leave one a tick, the others come in
  threes with the re-announcements. What is invariant is `InTime(9 - lost)`: a
  loss and a sending cost one each, an arrival starts again. That it holds again
  after an arrival is the arithmetic of `ThreePeriods`.
* **`NetDeviceProofs`**: `get_netmask` counts the leading ones of a mask, and
  accepts exactly the masks that are ones and then zeros, whatever their number
  of bytes (`PrefixLengthSound`, `PrefixLengthComplete`). The reference is
  `OnesFirst`, which speaks of the bits; that the table of nibbles agrees with it
  on a byte is `ByteBitsOfMask`, the rest is where the first byte that is not
  full stands. What `init_network_info` finds complete fits the request
  (`DeviceFits`), and it finds everything if some interface suits
  (`DeviceFound`). Both rest on `ChosenSuits`: of a list from which some are
  prepended and some appended the first that suits is taken. Only IPv4 addresses
  are prepended, so only there does the loopback come last.
* **`ClientProofs`**: `DescriptorsAreAccounted`, `SocketsServeTheirRoles`,
  `IdsReachTheWire`, `HostAddressFitsRequest`, `ForeignPacketsStayOut` and
  `AgentsFollowTheirHosts`. What a running client needs follows from what has
  been done for the source when it is finished, so the invariant follows a source
  through its system calls (`MakingIsCoherent`): that the TCP port is the one
  bound if the source knows its port, that only a search socket retries, and only
  if no port was given. A socket has the type of its role until it is in
  `replaced` (`SocketsAreGood`), which is what `SocketsServeTheirRoles` rests on.
  `CallStep` reduces each system call to that part and its count of descriptors.
  The device is fixed before the first socket exists (`DeviceIsTheOneFound`),
  which is why the theorems of `NetDevice` still hold of it when packets come.
  A foreign packet stays out because the group that the sockets joined and the
  group the client compares with are computed by two functions that agree on v4
  and on link and site scope (`SameGroup`). The cache of user agents agrees with
  what was last heard under every link-layer address (`CacheInv`); link-layer and
  other addresses must not be confused, which `GivensAssumption` says.
* **`SnifferProofs`**: `RowsAreBelieved` and `CountersMatchTheLists`. A row
  remembers neither the resource that gave its location nor the one that gave its
  type; that both are still cached follows because the first resource of a device
  that goes takes the row with it. This needs that a browser for `ssdp:all` files
  every resource under the USN it came with (`FiledUnderUsns`), so that the
  signal names the entry that went, and that at most one resource comes in a step
  (`Faithful`).

Only model-checked: the properties under fairness (`AliveReachesTheNetwork`,
`ByebyeReachesTheNetwork`, `SearchIsAnswered`, `DiscoveryEnds`,
`SilentResourcesAreForgotten`, `GoneIsForgotten`, `OfferIsLearnt`,
`InitialisationEnds`), since what fairness says needs ENABLED, which is out of the
prover's reach. Every invariant and every action property of a passing run is
proved. `DueIsWaiting`, `AnnouncementsComeNearer` and `RoundsRunDown` are proved
and, being what liveness properties that are checked rest on, in no run;
`GroupKeepsItsWord` and `BrowserKeepsItsWord` are in no run either, their
conjuncts being checked in the runs of the parts.

## What the code does against its documentation

Five runs expect a violation; `PROJECT.json` quotes the sentence each refutes.
The first three concern the group: dropped byebyes, late answers, BOOTID of
updates. The fourth concerns the browser: the version of an earlier target
decides what a later one matches, and with `ssdp:all` which resources share a
cache entry. The fifth concerns the client: a search socket that is replaced
after a receive error becomes a request socket (`gssdp-client.c:2024`), so that
searches leave from port 1900, against `GSSDPClient:port` and against the comment
that explains why there is a search socket at all (`gssdp-client.c:261`).

The models follow the code in these further points, which no run is spent on:

* The property `msearch-port` is overwritten by `port`, which is set after it
  (`gssdp-client.c:420`).
* A multicast socket that is replaced after a receive error becomes a request
  socket, too, which is a member of no group (`gssdp-client.c:1988`).
  `SocketsServeTheirRoles` speaks of the multicast and the search socket until
  they are replaced.
* If `getsockname` fails while a port is looked for, `do_init` goes on with port
  0: the TCP socket gets any port and the client says 0, against "bound to the
  same port" (`gssdp-client.c:783`).
* "Loopback [interfaces] go at the bottom on the list" (`gssdp-net-posix.c:443`)
  is so in IPv4 only: all IPv6 addresses are appended, and the loopback's, which
  `getifaddrs` lists before those of other interfaces, is taken if a client asks
  for IPv6 and nothing else. `FitsRequest` says so.
* For an IPv6 address of global scope the client sends to the global group while
  its sockets join the site-local one. `ForeignPacketsStayOut` is about the
  scopes for which the two agree, link and site.
* `gssdp_client_set_boot_id` changes the property of a UDA 1.0 client also, for
  which its documentation says it does nothing. An id that was never set is
  announced as -1.
* Looking for another port leaves the socket of the last attempt open
  (`lost` in `SocketSource`).
* A group with a max-age of at most 6 seconds re-announces when its listeners
  forget it, against the comment at `gssdp-resource-group.c:521-527`, and
  `set_max_age` does not change a running timer. `OfferOutlivesLoss` excludes
  both.
* A lifetime from an Expires header is 1800 seconds for a date in the future and
  the time since then for one in the past (`gssdp-resource-browser.c:889`).
* `mx * 1000` may overflow (`gssdp-resource-group.c:928`).
* The user-agent cache is keyed by the link-layer address if the kernel knows it
  and by the address otherwise: an entry made under one is not found under the
  other.
* The sniffer removes the row of a device when the first of its USNs goes,
  though others of it may still be cached.

## Not modelled

* Setters that store a value which no decision depends on: `set_network`,
  `set_server_id`, `set_mx` of the browser. `set_message_delay` is the parameter
  `PerSecond` of `Timing`.
* Parsing and formatting of packets: a packet parses or does not, and is a
  record of what the handlers look at. Target patterns are compared as type and
  version.
* `gssdp_net_mac_lookup` on systems other than Linux, which gives the address
  back (`gssdp-net-posix.c:250-255`); in the model, a host whose link-layer
  address is never known.
* `gssdp-net-win32.c` and `gssdp-net-bionic.c`: the same questions asked by
  other system calls. The second does not compile against `gssdp-net.h`, whose
  device has no field `mask`. `gssdp_net_list_devices` and the like are queries
  without state.
* `gssdp-socket-functions.c` and the pktinfo messages: wrappers of single calls
  and the serialisation of one structure. That a call may fail is in
  `SocketSource`.
* A handler that calls back while a hash table is being walked
  (`refresh_cache`, `clear_cache`): undefined in C.
* Calls on an object after `dispose`, except where the code guards against them.
* The presentation in the sniffer, the examples, tests and build files.
