--------------------------- MODULE ResourceBrowser ---------------------------
(***************************************************************************)
(* GSSDPResourceBrowser (libgssdp/gssdp-resource-browser.c): the listener. *)
(*                                                                         *)
(* A browser searches for a target (three M-SEARCHes, then a pause, then   *)
(* what stayed silent is dropped), keeps a cache of the resources it heard *)
(* of, and tells the application with the signals resource-available,      *)
(* resource-unavailable and resource-update.  The steps are the API calls, *)
(* the timers and the messages the client hands over, in any order.        *)
(*                                                                         *)
(* A USN is its parts, [uuid, type, ver]: ver is 0 when the USN carries no *)
(* version, type is "uuid" for the USN that is the uuid alone.  Its NT or  *)
(* ST header is its type and version.  No type is a part of another.       *)
(* Timers have no duration: a timer that is attached may fire.             *)
(***************************************************************************)
EXTENDS Integers, Sequences, FiniteSets

CONSTANTS
    Usns,           \* what the network may announce
    Locations,      \* the location lists it may give (Location, then AL)
    BrowseTargets,  \* what the application browses for, [type, ver]
    HandlerStops    \* a resource-unavailable handler may stop the browser

MAX_DISCOVERY_MESSAGES == 3    \* the searches of a round

\* An application whose handler stops the browser leaves the version alone.
ASSUME ConstantsAssumption ==
    /\ \A u \in Usns : DOMAIN u = {"uuid", "type", "ver"} /\ u.ver \in Nat
    /\ \A l \in Locations : DOMAIN l \subseteq Nat
    /\ \A t \in BrowseTargets : t.ver \in Nat
    /\ HandlerStops \in BOOLEAN
    /\ HandlerStops => \A s, t \in BrowseTargets : s.ver = t.ver

VARIABLES
    active,         \* priv->active
    target,         \* priv->target and priv->target_regex
    version,        \* priv->version
    cache,          \* priv->resources: canonical USN -> [usn, locations]
    discoverySrc,   \* priv->timeout_src # NULL
    numDiscovery,   \* priv->num_discovery
    refreshSrc,     \* priv->refresh_cache_src # NULL
    collecting,     \* priv->fresh_resources # NULL
    fresh,          \* the keys of priv->fresh_resources
    disposed,       \* dispose() has run
    signals,        \* the USNs the last step emitted each signal for
    known,          \* history: resources the application was told are there
    asked,          \* history: M-SEARCHes sent since discovery started
    heard           \* history: resources that answered since it started

targetVars == <<target, version>>
phaseVars  == <<discoverySrc, numDiscovery, refreshSrc, collecting, asked>>
scanVars   == <<phaseVars, fresh>>
cacheVars  == <<cache, signals, known>>
vars == <<active, targetVars, scanVars, heard, cacheVars, disposed>>

-----------------------------------------------------------------------------
(* Names.                                                                  *)

\* The hash key of u for a browser of version v: a browser of a versioned
\* target cuts the USN at its last ":".  That is its version, or, in a USN
\* that is a uuid alone, the uuid.
Canonical(u, v) ==
    IF v = 0 THEN u
    ELSE [uuid |-> IF u.type = "uuid" THEN "any" ELSE u.uuid,
          type |-> u.type, ver |-> 0]

Keys == Usns \cup {Canonical(u, 1) : u \in Usns}

Key(u) == Canonical(u, version)

KeysOf(S) == {Key(u) : u \in S}

\* check_target_compat.  The regular expression has a version group exactly
\* when the target has a version; priv->version may stem from another target.
Compatible(u) ==
    \/ target.type = "all"
    \/ /\ u.type = target.type
       /\ target.ver > 0 => u.ver > 0
       /\ version > 0 => target.ver > 0 /\ u.ver >= version

\* The lists are compared as far as both go.
Conflict(l, m) == \E i \in DOMAIN l \cap DOMAIN m : l[i] # m[i]

-----------------------------------------------------------------------------
(* The cache and the application.                                          *)

Cached == DOMAIN cache

Keep(S) == [k \in Cached \cap S |-> cache[k]]

Store(c, k, u, l) ==
    [x \in DOMAIN c \cup {k} |->
       IF x = k THEN [usn |-> u, locations |-> l] ELSE c[x]]

\* The signals of a step: unavailable for gone, then available for new.
Tell(gone, new) ==
    /\ signals' = [gone |-> gone, new |-> new, updated |-> {}]
    /\ known' = (known \ KeysOf(gone)) \cup KeysOf(new)

TellNothing == Tell({}, {})

UsnsOf(S) == {cache[k].usn : k \in S}

\* clear_cache: every cached resource is gone.
ClearCache == cache' = Keep({}) /\ Tell(UsnsOf(Cached), {})

-----------------------------------------------------------------------------
(* Discovery.                                                              *)

Init ==
    /\ active = FALSE
    /\ target \in BrowseTargets
    /\ version = target.ver
    /\ cache = [k \in {} |-> k]
    /\ discoverySrc = FALSE
    /\ numDiscovery = 0
    /\ refreshSrc = FALSE
    /\ collecting = FALSE
    /\ fresh = {}
    /\ disposed = FALSE
    /\ signals = [gone |-> {}, new |-> {}, updated |-> {}]
    /\ known = {}
    /\ asked = 0
    /\ heard = {}

\* start_discovery
StartDiscovery ==
    /\ numDiscovery' = 1
    /\ discoverySrc' = TRUE
    /\ collecting' = TRUE
    /\ fresh' = {}
    /\ asked' = 1
    /\ heard' = {}
    /\ UNCHANGED refreshSrc

\* stop_discovery
StopDiscovery ==
    /\ numDiscovery' = IF discoverySrc THEN 0 ELSE numDiscovery
    /\ discoverySrc' = FALSE
    /\ refreshSrc' = FALSE
    /\ collecting' = FALSE
    /\ fresh' = {}
    /\ UNCHANGED asked

\* Mutant: the target may change under a running browser.
SetTargetAnytime(t) ==
    /\ ~disposed
    /\ target' = t
    /\ version' = IF t.ver > 0 THEN t.ver ELSE version
    /\ TellNothing
    /\ UNCHANGED <<active, scanVars, heard, cache, disposed>>

\* set_target: only a target with a version sets priv->version.
SetTarget(t) ==
    /\ ~disposed /\ ~active
    /\ target' = t
    /\ version' = IF t.ver > 0 THEN t.ver ELSE version
    /\ TellNothing
    /\ UNCHANGED <<active, scanVars, heard, cache, disposed>>

\* set_active(TRUE)
Activate ==
    /\ ~disposed /\ ~active
    /\ active' = TRUE
    /\ StartDiscovery
    /\ TellNothing
    /\ UNCHANGED <<targetVars, cache, disposed>>

\* Mutant: an inactive browser keeps what it has found.
DeactivateKeeps ==
    /\ ~disposed /\ active
    /\ active' = FALSE
    /\ StopDiscovery
    /\ TellNothing
    /\ UNCHANGED <<targetVars, heard, cache, disposed>>

\* set_active(FALSE)
Deactivate ==
    /\ ~disposed /\ active
    /\ active' = FALSE
    /\ StopDiscovery
    /\ ClearCache
    /\ UNCHANGED <<targetVars, heard, disposed>>

\* Mutant: rescan() restarts a discovery that is waiting for its refresh.
RescanEarly ==
    /\ ~disposed /\ active /\ ~discoverySrc
    /\ StartDiscovery
    /\ TellNothing
    /\ UNCHANGED <<active, targetVars, cache, disposed>>

\* rescan
Rescan ==
    /\ ~disposed /\ active /\ ~discoverySrc /\ ~refreshSrc
    /\ StartDiscovery
    /\ TellNothing
    /\ UNCHANGED <<active, targetVars, cache, disposed>>

\* Mutant: the refresh is never scheduled.
DiscoveryTimeoutStops ==
    /\ discoverySrc
    /\ asked' = asked + 1
    /\ discoverySrc' = (numDiscovery + 1 < MAX_DISCOVERY_MESSAGES)
    /\ numDiscovery' = IF discoverySrc' THEN numDiscovery + 1 ELSE 0
    /\ TellNothing
    /\ UNCHANGED <<active, targetVars, refreshSrc, collecting, fresh, heard,
                   cache, disposed>>

\* Mutant: one search too many.
DiscoveryTimeoutLate ==
    /\ discoverySrc
    /\ asked' = asked + 1
    /\ IF numDiscovery + 1 > MAX_DISCOVERY_MESSAGES
       THEN discoverySrc' = FALSE /\ numDiscovery' = 0 /\ refreshSrc' = TRUE
       ELSE /\ numDiscovery' = numDiscovery + 1
            /\ UNCHANGED <<discoverySrc, refreshSrc>>
    /\ TellNothing
    /\ UNCHANGED <<active, targetVars, collecting, fresh, heard, cache,
                   disposed>>

\* discovery_timeout: search again; after the last search wait for answers.
DiscoveryTimeout ==
    /\ discoverySrc
    /\ asked' = asked + 1
    /\ IF numDiscovery + 1 >= MAX_DISCOVERY_MESSAGES
       THEN discoverySrc' = FALSE /\ numDiscovery' = 0 /\ refreshSrc' = TRUE
       ELSE /\ numDiscovery' = numDiscovery + 1
            /\ UNCHANGED <<discoverySrc, refreshSrc>>
    /\ TellNothing
    /\ UNCHANGED <<active, targetVars, collecting, fresh, heard, cache,
                   disposed>>

\* Mutant: the test of refresh_cache_helper the other way round.
Unresponsive == Cached \ fresh

\* refresh_cache_helper: what refresh_cache leaves in the cache.
Responsive == Cached \cap fresh

\* refresh_cache
RefreshCache ==
    /\ refreshSrc
    /\ cache' = Keep(Responsive)
    /\ Tell(UsnsOf(Cached \ Responsive), {})
    /\ collecting' = FALSE
    /\ fresh' = {}
    /\ refreshSrc' = FALSE
    /\ UNCHANGED <<active, targetVars, discoverySrc, numDiscovery, asked,
                   heard, disposed>>

-----------------------------------------------------------------------------
(* Messages and expiry.                                                    *)

\* Mutant: an expired resource is dropped without a word.
ExpireSilently(k) ==
    /\ k \in Cached
    /\ cache' = Keep(Cached \ {Key(cache[k].usn)})
    /\ TellNothing
    /\ UNCHANGED <<active, targetVars, scanVars, heard, disposed>>

\* Mutant: an expired resource is told of and stays in the cache.
ExpireKeeps(k) ==
    /\ k \in Cached
    /\ Tell({cache[k].usn}, {})
    /\ UNCHANGED <<active, targetVars, scanVars, heard, cache, disposed>>

\* resource_expire: the key is computed again from the USN.
Expire(k) ==
    /\ k \in Cached
    /\ cache' = Keep(Cached \ {Key(cache[k].usn)})
    /\ Tell({cache[k].usn}, {})
    /\ UNCHANGED <<active, targetVars, scanVars, heard, disposed>>

\* message_received_cb and check_target_compat let a message about u through.
\* A message that lacks a header its handler needs is dropped, which is no
\* step here.
Listening(u) == ~disposed /\ active /\ Compatible(u)

\* Mutant: only a resource that is new counts as fresh.
MarkNewOnly(u) ==
    /\ fresh' = IF collecting /\ Key(u) \notin Cached
                THEN fresh \cup {Key(u)} ELSE fresh
    /\ heard' = heard \cup {Key(u)}

\* An offer counts as an answer whatever becomes of it.
MarkFresh(u) ==
    /\ fresh' = IF collecting THEN fresh \cup {Key(u)} ELSE fresh
    /\ heard' = heard \cup {Key(u)}

\* resource_available of a resource that is not in the cache
Discover(u, l) ==
    /\ Listening(u) /\ Key(u) \notin Cached
    /\ MarkFresh(u)
    /\ cache' = Store(cache, Key(u), u, l)
    /\ Tell({}, {u})
    /\ UNCHANGED <<active, targetVars, phaseVars, disposed>>

\* resource_available of a cached one: its timer starts again, and that is
\* all, so the cache keeps the USN and the locations it has.
Renew(u, l) ==
    /\ Listening(u) /\ Key(u) \in Cached
    /\ ~Conflict(l, cache[Key(u)].locations)
    /\ MarkFresh(u)
    /\ TellNothing
    /\ UNCHANGED <<active, targetVars, phaseVars, cache, disposed>>

\* Mutant: the new locations are stored and nobody is told.
RelocateQuietly(u, l) ==
    /\ Listening(u) /\ Key(u) \in Cached
    /\ Conflict(l, cache[Key(u)].locations)
    /\ MarkFresh(u)
    /\ cache' = Store(cache, Key(u), u, l)
    /\ TellNothing
    /\ UNCHANGED <<active, targetVars, phaseVars, disposed>>

\* Mutant: the cached resource is replaced without resource_unavailable.
RelocateTwice(u, l) ==
    /\ Listening(u) /\ Key(u) \in Cached
    /\ Conflict(l, cache[Key(u)].locations)
    /\ MarkFresh(u)
    /\ cache' = Store(cache, Key(u), u, l)
    /\ Tell({}, {u})
    /\ UNCHANGED <<active, targetVars, phaseVars, disposed>>

\* resource_available of one cached at another location: a byebye must have
\* been missed, so the resource goes and comes back.
Relocate(u, l) ==
    /\ Listening(u) /\ Key(u) \in Cached
    /\ Conflict(l, cache[Key(u)].locations)
    /\ MarkFresh(u)
    /\ cache' = Store(cache, Key(u), u, l)
    /\ Tell({u}, {u})
    /\ UNCHANGED <<active, targetVars, phaseVars, disposed>>

\* The same when the handler of the resource-unavailable signal stops the
\* browser: resource_available stores and announces the resource all the same.
RelocateStopped(u, l) ==
    /\ HandlerStops
    /\ Listening(u) /\ Key(u) \in Cached
    /\ Conflict(l, cache[Key(u)].locations)
    /\ active' = FALSE
    /\ StopDiscovery
    /\ heard' = heard \cup {Key(u)}
    /\ cache' = Store(Keep({}), Key(u), u, l)
    /\ Tell(UsnsOf(Cached \ {Key(u)}) \cup {u}, {u})
    /\ UNCHANGED <<targetVars, disposed>>

\* resource_unavailable: the signal carries the USN of the message.
ReceiveByebye(u) ==
    /\ Listening(u) /\ Key(u) \in Cached
    /\ cache' = Keep(Cached \ {Key(u)})
    /\ Tell({u}, {})
    /\ UNCHANGED <<active, targetVars, scanVars, heard, disposed>>

\* resource_update
ReceiveUpdate(u) ==
    /\ Listening(u) /\ Key(u) \in Cached
    /\ signals' = [gone |-> {}, new |-> {}, updated |-> {u}]
    /\ UNCHANGED <<active, targetVars, scanVars, heard, cache, known,
                   disposed>>

\* dispose: priv->active stays what it was.
Dispose ==
    /\ ~disposed
    /\ disposed' = TRUE
    /\ StopDiscovery
    /\ ClearCache
    /\ UNCHANGED <<active, targetVars, heard>>

Application ==
    \/ \E t \in BrowseTargets : SetTarget(t)
    \/ Activate
    \/ Deactivate
    \/ Rescan
    \/ Dispose

Timers ==
    \/ DiscoveryTimeout
    \/ RefreshCache
    \/ \E k \in Keys : Expire(k)

Network ==
    \E u \in Usns :
        \/ \E l \in Locations : \/ Discover(u, l)
                                \/ Renew(u, l)
                                \/ Relocate(u, l)
                                \/ RelocateStopped(u, l)
        \/ ReceiveByebye(u)
        \/ ReceiveUpdate(u)

Next == Application \/ Timers \/ Network

Spec == Init /\ [][Next]_vars

\* The main loop dispatches the timers of the discovery; nothing else is
\* promised.
FairSpec ==
    /\ Spec
    /\ WF_vars(DiscoveryTimeout)
    /\ WF_vars(RefreshCache)

-----------------------------------------------------------------------------
(* Properties.                                                             *)

\* A Resource
Entry == [usn : Usns, locations : Locations]

\* Every variable has its type.
TypeOK ==
    /\ active \in BOOLEAN
    /\ target \in BrowseTargets
    /\ version \in Nat
    /\ Cached \subseteq Keys
    /\ cache \in [Cached -> Entry]
    /\ discoverySrc \in BOOLEAN
    /\ numDiscovery \in 0..MAX_DISCOVERY_MESSAGES
    /\ refreshSrc \in BOOLEAN
    /\ collecting \in BOOLEAN
    /\ fresh \subseteq Keys
    /\ disposed \in BOOLEAN
    /\ signals \in [gone : SUBSET Usns, new : SUBSET Usns,
                    updated : SUBSET Usns]
    /\ known \subseteq Keys
    /\ asked \in 0..MAX_DISCOVERY_MESSAGES
    /\ heard \subseteq Keys

\* A round of discovery is in one phase at a time: while answers are being
\* collected exactly one of the two timers is attached, num_discovery counts
\* the searches sent, and the refresh waits until all three are out.  Nothing
\* of it is left once the browser is stopped or disposed of.
DiscoveryIsInOnePhase ==
    /\ collecting <=> (discoverySrc \/ refreshSrc)
    /\ ~(discoverySrc /\ refreshSrc)
    /\ numDiscovery = IF discoverySrc THEN asked ELSE 0
    /\ discoverySrc => asked < MAX_DISCOVERY_MESSAGES
    /\ refreshSrc => asked = MAX_DISCOVERY_MESSAGES
    /\ ~active \/ disposed => ~collecting

\* The application knows the cache: it was told of every resource in it, and
\* of the end of every other, by expiry, byebye, refresh or stop alike; and
\* each resource is filed under the key its expiry will look for.
ApplicationKnowsTheCache ==
    /\ known = Cached
    /\ \A k \in Cached : k = Key(cache[k].usn)

\* The cache holds nothing that the browser, with the target it has now,
\* would not let in: set_target finds it empty.
CacheMatchesTarget ==
    ~HandlerStops => \A k \in Cached : Compatible(cache[k].usn)

\* A stopped browser has forgotten everything, so that it starts afresh: no
\* expiry can fire after set_active(FALSE), none after dispose().
StoppedBrowserIsEmpty ==
    /\ ~HandlerStops /\ ~active => Cached = {}
    /\ disposed => Cached = {}

\* The inductive invariant: what the round has heard is what is fresh, and a
\* browser that its handler may stop keeps the version it started with.
IInv ==
    /\ TypeOK
    /\ DiscoveryIsInOnePhase
    /\ ApplicationKnowsTheCache
    /\ CacheMatchesTarget
    /\ StoppedBrowserIsEmpty
    /\ collecting => fresh = heard
    /\ HandlerStops => version = target.ver

\* Available and unavailable alternate: the application never hears that a
\* resource goes, or is updated, that it did not know, nor twice that the same
\* one came.
SignalsAlternate ==
    [][/\ KeysOf(signals'.gone \cup signals'.updated) \subseteq known
       /\ KeysOf(signals'.new) \cap (known \ KeysOf(signals'.gone)) = {}
      ]_vars

\* The locations of a cached resource never change behind the application's
\* back: it is told that the resource went and came.
NewLocationsAreTold ==
    [][\A k \in Cached :
         k \in DOMAIN cache' /\ cache'[k].locations # cache[k].locations
           => k \in KeysOf(signals'.gone) \cap KeysOf(signals'.new)]_vars

\* A round of discovery that runs to its end has sent three searches, and
\* drops exactly the resources that were silent since it began.
RefreshDropsTheSilent ==
    [][collecting /\ ~collecting' /\ active' /\ ~disposed'
         => /\ asked = MAX_DISCOVERY_MESSAGES
            /\ DOMAIN cache' = Cached \cap heard]_vars

\* A round of discovery ends, so that rescan() can start another.
DiscoveryEnds == collecting ~> ~collecting

\* A resource that stays silent during a round of discovery is forgotten.
SilentResourcesAreForgotten ==
    \A k \in Keys : (collecting /\ k \in Cached /\ k \notin heard)
                      ~> (k \notin Cached \/ k \in heard)

\* The timers that must still fire in this round of discovery: the searches to
\* come, and the refresh.
Remaining ==
    IF ~collecting THEN 0
    ELSE IF refreshSrc THEN 1 ELSE 1 + MAX_DISCOVERY_MESSAGES - asked

\* Nothing prolongs a round, neither calls nor messages, and each of its timers
\* takes it forward; at its end, however it ends, no resource that was silent
\* is left.
RoundsRunDown ==
    [][collecting =>
         /\ Remaining' <= Remaining
         /\ DiscoveryTimeout \/ RefreshCache => Remaining' < Remaining
         /\ Remaining' = 0 => DOMAIN cache' \cap Cached \subseteq heard']_vars

\* check_target_compat, "If there was no version to match, we're done": a
\* target without a version matches every resource of its type.
UnversionedTargetMatchesAll ==
    target.ver = 0 => \A u \in Usns : u.type = target.type => Compatible(u)

=============================================================================
