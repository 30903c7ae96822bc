------------------------------ MODULE Discovery ------------------------------
(***************************************************************************)
(* A resource group and a resource browser with the network between them.  *)
(*                                                                         *)
(* The network loses, duplicates, delays and reorders.  The process of the *)
(* group may crash, without a byebye, and start again: its resource then   *)
(* is at a new location.  Messages carry the location they were sent from. *)
(* The group offers one resource and the browser looks for its target.     *)
(* It withdraws its offer by becoming unavailable, by dispose() or by a    *)
(* crash; update() and refused resources stay with ResourceGroup, and      *)
(* SetTarget and Dispose of the browser with ResourceBrowser.              *)
(***************************************************************************)
EXTENDS Integers, Sequences, FiniteSets

CONSTANTS
    MaxEpoch,   \* bound: how often the group's process starts again
    MaxQueue,   \* bound: messages waiting in the group's queue
    NONE        \* no offer

ASSUME EpochAssumption == MaxEpoch \in Nat /\ MaxQueue \in Nat

Target == [type |-> "device", version |-> 1]
Usn    == [uuid |-> "u1", type |-> "device", ver |-> 1]

VARIABLES
    available, listed, lastId, byebyeSent, responses, queue, messageSrc,
    timeoutSrc, timeoutSources, bootId, groupDisposed, announced, wire

VARIABLES
    active, target, version, cache, discoverySrc, numDiscovery, refreshSrc,
    collecting, fresh, known, asked, heard, signals,
    browserDisposed     \* dispose() of the browser, which is no action here

VARIABLES
    epoch,      \* how often the group's process has started again
    inFlight,   \* what the network may still deliver
    offers      \* history: where the resource was ever on offer

\* Where the resource is in an epoch: the value of AL or Location
At(e) == <<e>>

Places == {At(e) : e \in 0..MaxEpoch}

ASSUME NoneAssumption == NONE \notin Places

Group == INSTANCE ResourceGroup WITH
    disposed <- groupDisposed, MaxId <- 1, Targets <- {Target},
    TargetOf <- [r \in 1..1 |-> Target], MaxBoot <- 0, UDA11 <- FALSE,
    MaxResponses <- 1

Browser == INSTANCE ResourceBrowser WITH
    disposed <- browserDisposed, Usns <- {Usn}, Locations <- Places,
    BrowseTargets <- {[type |-> "device", ver |-> 1]}, HandlerStops <- FALSE

processVars == <<available, listed, lastId, byebyeSent, responses, queue,
                 messageSrc, timeoutSrc, timeoutSources, bootId, groupDisposed,
                 announced>>
browserVars == <<active, target, version, cache, discoverySrc, numDiscovery,
                 refreshSrc, collecting, fresh, known, asked, heard,
                 browserDisposed>>
vars == <<processVars, wire, browserVars, signals, epoch, inFlight, offers>>

-----------------------------------------------------------------------------
(* The refinement mapping.                                                 *)

\* Where the resource is on offer
offered == IF available /\ listed # {} /\ ~groupDisposed THEN At(epoch)
           ELSE NONE

\* The location the browser has told the application
believed == IF Browser!Cached = {} THEN NONE
            ELSE cache[Browser!Key(Usn)].locations

listening == active

P == INSTANCE Presence

-----------------------------------------------------------------------------
(* Messages.                                                               *)

\* The browser's M-SEARCH, and what the group says: a response is an alive
\* sent to one address, and a byebye names no location.
Search == [kind |-> "search", place |-> NONE]

AliveAt(p) == [kind |-> "alive", place |-> p]

Gone == [kind |-> "byebye", place |-> NONE]

\* What the group's step has put on the network
Announced ==
    {IF wire'[i].kind = "byebye" THEN Gone ELSE AliveAt(At(epoch)) :
       i \in DOMAIN wire'}

GroupIsQuiet   == wire' = <<>> /\ UNCHANGED <<processVars, epoch, offers>>
BrowserIsQuiet ==
    /\ signals' = [gone |-> {}, new |-> {}, updated |-> {}]
    /\ UNCHANGED browserVars

\* What the group's step leaves behind: its messages are on their way, and an
\* offer, as soon as there is one, is part of the history.
GroupSent ==
    /\ UNCHANGED epoch
    /\ inFlight' = inFlight \cup Announced
    /\ offers' = offers \cup ({offered'} \ {NONE})
    /\ BrowserIsQuiet

\* send_discovery_request, called by start_discovery and discovery_timeout
Searches == asked' # asked \/ (~collecting /\ collecting')

\* What the browser's step leaves behind
BrowserSent ==
    /\ inFlight' = inFlight \cup (IF Searches THEN {Search} ELSE {})
    /\ GroupIsQuiet

\* The network may deliver a message once more.
Deliver(m) ==
    /\ m \in inFlight
    /\ inFlight' \in {inFlight, inFlight \ {m}}

-----------------------------------------------------------------------------
Init ==
    /\ Group!Init
    /\ Browser!Init
    /\ epoch = 0
    /\ inFlight = {}
    /\ offers = {}

\* The group acts on its own.
GroupCalls ==
    /\ \/ Group!MakeAvailable
       \/ Group!MakeUnavailable
       \/ Group!AddResource
       \/ Group!Dispose
    /\ GroupSent

SendQueued == Group!ProcessQueue /\ GroupSent

Respond == Group!SendResponse(1, Target) /\ GroupSent

AnnounceAgain == Group!Reannounce /\ GroupSent

\* An M-SEARCH reaches the group.
GroupHears ==
    /\ Deliver(Search)
    /\ Group!SearchFor(Target)
    /\ BrowserIsQuiet
    /\ UNCHANGED <<epoch, offers>>

\* The group's process dies and a new one starts; nothing is kept on disk.
Crash ==
    /\ epoch < MaxEpoch
    /\ epoch' = epoch + 1
    /\ available' = FALSE
    /\ listed' = {}
    /\ lastId' = 0
    /\ byebyeSent' = {}
    /\ responses' = [p \in {1} \X {Target} |-> 0]
    /\ queue' = <<>>
    /\ messageSrc' = FALSE
    /\ timeoutSrc' = FALSE
    /\ timeoutSources' = 0
    /\ bootId' = -1
    /\ groupDisposed' = FALSE
    /\ announced' = [r \in {1} |-> "none"]
    /\ wire' = <<>>
    /\ UNCHANGED <<inFlight, offers>>
    /\ BrowserIsQuiet

\* The browser acts on its own.
BrowserCalls ==
    /\ Browser!Activate \/ Browser!Deactivate \/ Browser!Rescan
    /\ BrowserSent

BrowserTimers ==
    /\ Browser!DiscoveryTimeout \/ Browser!RefreshCache
    /\ BrowserSent

Expires == Browser!Expire(Browser!Key(Usn)) /\ BrowserSent

\* An announcement reaches the browser.
BrowserHears(m) ==
    /\ Deliver(m)
    /\ \/ /\ m.kind = "alive"
          /\ \/ Browser!Discover(Usn, m.place)
             \/ Browser!Renew(Usn, m.place)
             \/ Browser!Relocate(Usn, m.place)
       \/ /\ m.kind = "byebye"
          /\ Browser!ReceiveByebye(Usn)
    /\ GroupIsQuiet

\* A message is lost, or the network has stopped repeating it.
Lose(m) ==
    /\ m \in inFlight
    /\ inFlight' = inFlight \ {m}
    /\ GroupIsQuiet
    /\ BrowserIsQuiet

Next ==
    \/ GroupCalls
    \/ SendQueued
    \/ Respond
    \/ AnnounceAgain
    \/ GroupHears
    \/ Crash
    \/ BrowserCalls
    \/ BrowserTimers
    \/ Expires
    \/ \E m \in inFlight : BrowserHears(m) \/ Lose(m)

Spec == Init /\ [][Next]_vars

-----------------------------------------------------------------------------
(* Fairness.  Timers are dispatched when their time has come, and that of  *)
(* a cached resource comes if nothing can renew it.  What is sent again    *)
(* and again arrives again and again, but nothing is repeated by the       *)
(* network for ever.                                                       *)

Alives == {AliveAt(p) : p \in Places}

ExpiresUnrenewed == Expires /\ inFlight \cap Alives = {}

FairSpec ==
    /\ Spec
    /\ WF_vars(SendQueued)
    /\ WF_vars(AnnounceAgain)
    /\ WF_vars(ExpiresUnrenewed)
    /\ \A m \in Alives : SF_vars(BrowserHears(m)) /\ WF_vars(Lose(m))

-----------------------------------------------------------------------------
(* Properties.                                                             *)

\* Whatever is lost, repeated, delayed or reordered, and whenever the group's
\* process dies, the browser tells of no resource, and no location, that the
\* group never had on offer: group, browser and network implement Presence.
ImplementsPresence == P!Spec

\* After the group has withdrawn its offer for good, by a byebye that may be
\* lost, a crash that sends none or a dispose, the browser forgets it for good.
GoneIsForgotten == P!Forgotten

\* A browser that keeps listening learns where the resource is, again after
\* every expiry and from any stale belief, if the offer stays.
OfferIsLearnt == P!Learnt

-----------------------------------------------------------------------------
(* What the two parts promise on their own, and keep here.                 *)

\* The group, whose process may die at any time: the next one knows nothing of
\* what its predecessor has queued, said or promised.
GroupKeepsItsWord ==
    /\ Group!TimersMatchState
    /\ Group!QueueIsServed
    /\ Group!ResponsesAreOwned
    /\ Group!FirstWordIsByebye
    /\ Group!LastWordIsCurrent

\* The browser, whatever the network makes of the messages it gets.
BrowserKeepsItsWord ==
    /\ Browser!DiscoveryIsInOnePhase
    /\ Browser!ApplicationKnowsTheCache
    /\ Browser!CacheMatchesTarget
    /\ Browser!StoppedBrowserIsEmpty

-----------------------------------------------------------------------------
(* The inductive invariant of DiscoveryProofs: whatever may still give the *)
(* browser a location comes from an offer.                                 *)

Announcing(ms) == \E i \in DOMAIN ms : ms[i].kind # "byebye"

GroupIsTyped ==
    /\ epoch \in 0..MaxEpoch
    /\ lastId \in 0..1
    /\ listed \subseteq 1..lastId
    /\ queue \in Seq(Group!Message)
    /\ timeoutSources = IF available /\ ~groupDisposed THEN 1 ELSE 0
    /\ timeoutSrc <=> (available /\ ~groupDisposed)

\* The group speaks, now or later, of what it has offered since it started.
SpeaksOfItsOffer ==
    \/ available /\ listed # {} /\ ~groupDisposed
    \/ Announcing(queue)
    \/ responses[<<1, Target>>] > 0
    => At(epoch) \in offers

NetworkCarriesOffers == \A m \in inFlight : m.kind = "alive" => m.place \in offers

CacheHoldsOffers ==
    /\ version = 1
    /\ \A k \in Browser!Cached :
          k = Browser!Key(Usn) /\ cache[k].locations \in offers

IInv ==
    /\ GroupIsTyped
    /\ SpeaksOfItsOffer
    /\ NetworkCarriesOffers
    /\ CacheHoldsOffers

=============================================================================
