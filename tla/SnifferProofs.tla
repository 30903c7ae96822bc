---------------------------- MODULE SnifferProofs ----------------------------
(***************************************************************************)
(* Theorems about Sniffer: the rows show what the browser believes and the *)
(* counters count the lists, for every set of USNs, device types and       *)
(* location lists.                                                         *)
(***************************************************************************)
EXTENDS Sniffer, FiniteSetTheorems, TLAPS

-----------------------------------------------------------------------------
(* Steps of the browser.                                                   *)

\* What a step of the browser does to the cache, by its signals: what is not
\* gone stays as it is, what is new is there, and there is one new at most.
Faithful ==
    /\ FiledUnderUsns'
    /\ \A k \in Browser!Cached :
         k \notin signals'.gone => k \in DOMAIN cache' /\ cache'[k] = cache[k]
    /\ \A u \in signals'.new : u \in DOMAIN cache'
    /\ \A u, v \in signals'.new : u = v

\* With version 0 a USN is its own key.
LEMMA KeyIsUsn ==
    ASSUME version = 0, NEW u
    PROVE  Browser!Key(u) = u
BY DEF Browser!Key, Browser!Canonical

\* The signals of a step.
LEMMA TellFacts ==
    ASSUME NEW gone, NEW new, Browser!Tell(gone, new)
    PROVE  signals'.gone = gone /\ signals'.new = new
BY DEF Browser!Tell

\* A step that leaves the cache alone and tells of nothing.
LEMMA QuietStep ==
    ASSUME FiledUnderUsns, UNCHANGED <<version, cache>>,
           signals'.gone = {}, signals'.new = {}
    PROVE  Faithful
BY DEF Faithful, FiledUnderUsns, Browser!Cached

\* A step that keeps part of the cache and tells of the rest.
LEMMA KeepStep ==
    ASSUME FiledUnderUsns, version' = version, NEW S \in SUBSET Browser!Cached,
           cache' = Browser!Keep(S), Browser!Cached \ S \subseteq signals'.gone,
           signals'.new = {}
    PROVE  Faithful
BY DEF Faithful, FiledUnderUsns, Browser!Cached, Browser!Keep

\* A step that stores a resource and tells that it came, and that it went
\* before if it was there.
LEMMA StoreStep ==
    ASSUME FiledUnderUsns, version' = version, NEW u \in Usns, NEW l,
           cache' = Browser!Store(cache, u, u, l),
           u \in Browser!Cached => u \in signals'.gone, signals'.new = {u}
    PROVE  Faithful
<1>1. /\ DOMAIN cache' = Browser!Cached \cup {u}
      /\ cache'[u].usn = u
      /\ \A k \in Browser!Cached : k # u => cache'[k] = cache[k]
  BY DEF Browser!Store, Browser!Cached
<1>2. FiledUnderUsns'
  BY <1>1 DEF FiledUnderUsns, Browser!Cached
<1> QED
  BY <1>1, <1>2 DEF Faithful

\* The steps of the browser that the sniffer's messages cause.
LEMMA ReceiveFaithful ==
    ASSUME FiledUnderUsns, NEW u \in Usns, Receive(u)
    PROVE  Faithful
<1>k. Browser!Key(u) = u
  BY KeyIsUsn DEF FiledUnderUsns
<1>1. ASSUME NEW l \in Locations, Browser!Discover(u, l) PROVE Faithful
  <2>1. /\ u \notin Browser!Cached /\ version' = version
        /\ cache' = Browser!Store(cache, u, u, l) /\ Browser!Tell({}, {u})
    BY <1>1, <1>k DEF Browser!Discover, Browser!targetVars
  <2> QED
    BY <2>1, TellFacts, StoreStep
<1>2. ASSUME NEW l \in Locations, Browser!Renew(u, l) PROVE Faithful
  <2>1. UNCHANGED <<version, cache>> /\ Browser!Tell({}, {})
    BY <1>2 DEF Browser!Renew, Browser!TellNothing, Browser!targetVars
  <2> QED
    BY <2>1, TellFacts, QuietStep
<1>3. ASSUME NEW l \in Locations, Browser!Relocate(u, l) PROVE Faithful
  <2>1. /\ version' = version
        /\ cache' = Browser!Store(cache, u, u, l) /\ Browser!Tell({u}, {u})
    BY <1>3, <1>k DEF Browser!Relocate, Browser!targetVars
  <2>2. signals'.gone = {u} /\ signals'.new = {u}
    BY <2>1, TellFacts
  <2> QED
    BY <2>1, <2>2, StoreStep
<1>4. CASE Browser!ReceiveByebye(u)
  <2>1. /\ version' = version /\ cache' = Browser!Keep(Browser!Cached \ {u})
        /\ Browser!Tell({u}, {})
    BY <1>4, <1>k DEF Browser!ReceiveByebye, Browser!targetVars
  <2>2. signals'.gone = {u} /\ signals'.new = {}
    BY <2>1, TellFacts
  <2> QED
    BY <2>1, <2>2, KeepStep
<1>5. CASE Browser!ReceiveUpdate(u)
  <2>1. /\ UNCHANGED <<version, cache>>
        /\ signals'.gone = {} /\ signals'.new = {}
    BY <1>5 DEF Browser!ReceiveUpdate, Browser!targetVars
  <2> QED
    BY <2>1, QuietStep
<1>6. CASE Disregard
  <2>1. UNCHANGED <<version, cache>> /\ Browser!Tell({}, {})
    BY <1>6 DEF Disregard, Browser!TellNothing, browserState
  <2> QED
    BY <2>1, TellFacts, QuietStep
<1> QED
  BY <1>1, <1>2, <1>3, <1>4, <1>5, <1>6 DEF Receive

\* Starting, restarting and the timers
LEMMA TimersFaithful ==
    ASSUME FiledUnderUsns,
           \/ Browser!Activate \/ Browser!Rescan \/ Browser!DiscoveryTimeout
           \/ Browser!RefreshCache \/ \E k \in Browser!Keys : Browser!Expire(k)
    PROVE  Faithful
<1>1. CASE Browser!Activate \/ Browser!Rescan \/ Browser!DiscoveryTimeout
  <2>1. UNCHANGED <<version, cache>> /\ Browser!Tell({}, {})
    BY <1>1 DEF Browser!Activate, Browser!Rescan, Browser!DiscoveryTimeout,
                Browser!TellNothing, Browser!targetVars
  <2> QED
    BY <2>1, TellFacts, QuietStep
<1>2. CASE Browser!RefreshCache
  <2> DEFINE S == Browser!Responsive
             gone == Browser!UsnsOf(Browser!Cached \ S)
  <2>1. /\ version' = version /\ cache' = Browser!Keep(S)
        /\ Browser!Tell(gone, {})
    BY <1>2 DEF Browser!RefreshCache, Browser!targetVars
  <2>2. S \subseteq Browser!Cached
    BY DEF Browser!Responsive
  <2>3. Browser!Cached \ S \subseteq gone
    BY DEF FiledUnderUsns, Browser!UsnsOf
  <2>4. signals'.gone = gone /\ signals'.new = {}
    BY <2>1, TellFacts
  <2> HIDE DEF S, gone
  <2> QED
    BY <2>1, <2>2, <2>3, <2>4, KeepStep
<1>3. ASSUME NEW k \in Browser!Keys, Browser!Expire(k) PROVE Faithful
  <2>1. /\ k \in Browser!Cached /\ version' = version
        /\ cache' = Browser!Keep(Browser!Cached \ {Browser!Key(cache[k].usn)})
        /\ Browser!Tell({cache[k].usn}, {})
    BY <1>3 DEF Browser!Expire, Browser!targetVars
  <2>2. cache[k].usn = k /\ Browser!Key(k) = k
    BY <2>1, KeyIsUsn DEF FiledUnderUsns
  <2>3. signals'.gone = {k} /\ signals'.new = {}
    BY <2>1, <2>2, TellFacts
  <2> QED
    BY <2>1, <2>2, <2>3, KeepStep
<1> QED
  BY <1>1, <1>2, <1>3

-----------------------------------------------------------------------------
(* The lists.                                                              *)

RowsInv ==
    /\ IsFiniteSet(DOMAIN rows)
    /\ RowsAreBelieved
    /\ devices = Cardinality(DOMAIN rows)

PacketsInv == list \in Seq(Uuids) /\ packets = Len(list)

\* The rows of the devices that lost no resource are still believed, and so is
\* the row of one that has a new resource.
LEMMA RowsStayBelieved ==
    ASSUME FiledUnderUsns, Faithful, RowsAreBelieved, ShowDevices
    PROVE  RowsAreBelieved'
<1> DEFINE new == signals'.new
<1>d. rows' = [x \in Left \cup UuidsOf(new) |->
                 IF x \in UuidsOf(new)
                 THEN RowWith(x, CHOOSE u \in new : u.uuid = x)
                 ELSE rows[x]]
  BY DEF ShowDevices
<1>f. /\ \A k \in DOMAIN cache' : cache'[k].usn = k
      /\ \A u \in new : u \in DOMAIN cache'
  BY DEF Faithful, FiledUnderUsns, Browser!Cached
<1> SUFFICES ASSUME NEW x \in DOMAIN rows'
             PROVE  /\ \E k \in DOMAIN cache' :
                         /\ cache'[k].usn.uuid = x
                         /\ cache'[k].locations = rows'[x].location
                    /\ rows'[x].type # NONE =>
                         \E k \in DOMAIN cache' :
                           /\ cache'[k].usn.uuid = x
                           /\ cache'[k].usn.type = rows'[x].type
  BY DEF RowsAreBelieved, Browser!Cached
<1>1. ASSUME x \in Left
      PROVE  /\ \E k \in DOMAIN cache' :
                  /\ cache'[k].usn.uuid = x
                  /\ cache'[k].locations = rows[x].location
             /\ rows[x].type # NONE =>
                  \E k \in DOMAIN cache' : /\ cache'[k].usn.uuid = x
                                           /\ cache'[k].usn.type = rows[x].type
  <2>1. x \in DOMAIN rows /\ \A u \in signals'.gone : u.uuid # x
    BY <1>1 DEF Left, UuidsOf
  <2>2. ASSUME NEW k \in Browser!Cached, cache[k].usn.uuid = x
        PROVE  k \in DOMAIN cache' /\ cache'[k] = cache[k]
    <3>1. k \notin signals'.gone
      BY <2>1, <2>2 DEF FiledUnderUsns
    <3> QED
      BY <3>1 DEF Faithful
  <2> QED
    BY <2>1, <2>2 DEF RowsAreBelieved
<1>2. CASE x \notin UuidsOf(new)
  <2>1. x \in Left /\ rows'[x] = rows[x]
    BY <1>d, <1>2
  <2> QED
    BY <1>1, <2>1
<1>3. CASE x \in UuidsOf(new)
  <2>1. PICK u \in new : u.uuid = x /\ u = CHOOSE v \in new : v.uuid = x
    BY <1>3 DEF UuidsOf
  <2>2. rows'[x] = RowWith(x, u)
    BY <1>d, <1>3, <2>1
  <2>3. u \in DOMAIN cache' /\ cache'[u].usn = u
    BY <1>f
  <2>4. Browser!Key(u) = u
    BY KeyIsUsn DEF FiledUnderUsns
  <2>5. /\ rows'[x].type = IF u.type \in DeviceTypes THEN u.type
                           ELSE IF x \in Left THEN rows[x].type ELSE NONE
        /\ rows'[x].location = IF x \in Left THEN rows[x].location
                               ELSE cache'[u].locations
    BY <2>2, <2>4 DEF RowWith
  <2> QED
    BY <1>1, <2>1, <2>3, <2>5
<1> QED
  BY <1>2, <1>3

\* Disjoint sets are counted apart.
LEMMA DisjointUnion ==
    ASSUME NEW S, IsFiniteSet(S), NEW T, IsFiniteSet(T), S \cap T = {}
    PROVE  /\ IsFiniteSet(S \cup T)
           /\ Cardinality(S \cup T) = Cardinality(S) + Cardinality(T)
<1>1. /\ IsFiniteSet(S \cup T)
      /\ Cardinality(S \cup T)
           = Cardinality(S) + Cardinality(T) - Cardinality(S \cap T)
  BY FS_Union
<1>2. Cardinality(S \cap T) = 0
  BY FS_EmptySet
<1>3. Cardinality(S) \in Nat /\ Cardinality(T) \in Nat
  BY FS_CardinalityType
<1> QED
  BY <1>1, <1>2, <1>3

\* The counter follows: rows that go and rows that come are counted once.
LEMMA RowsStayCounted ==
    ASSUME RowsInv, Faithful, ShowDevices
    PROVE  /\ IsFiniteSet(DOMAIN rows')
           /\ devices' = Cardinality(DOMAIN rows')
<1> DEFINE D == DOMAIN rows
           N == UuidsOf(signals'.new)
<1>1. /\ DOMAIN rows' = Left \cup N
      /\ devices' = devices - Cardinality(D \ Left) + Cardinality(N \ Left)
  BY DEF ShowDevices, Counted
<1>2. IsFiniteSet(D) /\ Left \subseteq D /\ devices = Cardinality(D)
  BY DEF RowsInv, Left
<1>3. IsFiniteSet(N)
  <2>1. CASE signals'.new = {}
    <3>1. N = {}
      BY <2>1 DEF UuidsOf
    <3> QED
      BY <3>1, FS_EmptySet
  <2>2. CASE signals'.new # {}
    <3>1. PICK u \in signals'.new : \A v \in signals'.new : v = u
      BY <2>2 DEF Faithful
    <3>2. N = {u.uuid}
      BY <3>1 DEF UuidsOf
    <3> QED
      BY <3>2, FS_Singleton
  <2> QED
    BY <2>1, <2>2
<1> HIDE DEF D, N
<1>4. IsFiniteSet(Left) /\ IsFiniteSet(D \ Left) /\ IsFiniteSet(N \ Left)
  BY <1>2, <1>3, FS_Subset, FS_Difference
<1>5. Cardinality(D) = Cardinality(Left) + Cardinality(D \ Left)
  <2>1. Left \cup (D \ Left) = D /\ Left \cap (D \ Left) = {}
    BY <1>2
  <2> QED
    BY <1>4, <2>1, DisjointUnion
<1>6. /\ IsFiniteSet(Left \cup N)
      /\ Cardinality(Left \cup N) = Cardinality(Left) + Cardinality(N \ Left)
  <2>1. Left \cup (N \ Left) = Left \cup N /\ Left \cap (N \ Left) = {}
    OBVIOUS
  <2> QED
    BY <1>4, <2>1, DisjointUnion
<1>7. /\ Cardinality(Left) \in Nat /\ Cardinality(D \ Left) \in Nat
      /\ Cardinality(N \ Left) \in Nat
  BY <1>4, FS_CardinalityType
<1> QED
  BY <1>1, <1>2, <1>5, <1>6, <1>7

LEMMA ShowDevicesInv ==
    ASSUME FiledUnderUsns, Faithful, RowsInv, ShowDevices
    PROVE  FiledUnderUsns' /\ RowsInv'
<1>1. FiledUnderUsns'
  BY DEF Faithful
<1>2. RowsAreBelieved'
  BY RowsStayBelieved DEF RowsInv
<1> QED
  BY <1>1, <1>2, RowsStayCounted DEF RowsInv

\* A packet that is shown is counted.
LEMMA ShowPacketInv ==
    ASSUME PacketsInv, NEW from \in Uuids, ShowPacket(from)
    PROVE  PacketsInv'
<1>1. CASE UNCHANGED packetVars
  BY <1>1 DEF PacketsInv, packetVars
<1>2. CASE list' = <<from>> \o list /\ packets' = packets + 1
  <2>1. list' \in Seq(Uuids) /\ Len(list') = Len(list) + 1
    BY <1>2 DEF PacketsInv
  <2> QED
    BY <1>2, <2>1 DEF PacketsInv
<1> QED
  BY <1>1, <1>2 DEF ShowPacket

-----------------------------------------------------------------------------
(* The theorems.                                                           *)

LEMMA InitIInv == Init => IInv
<1> SUFFICES ASSUME Init PROVE IInv
  OBVIOUS
<1>1. FiledUnderUsns
  BY DEF Init, Browser!Init, FiledUnderUsns, Browser!Cached
<1>2. DOMAIN rows = {} /\ devices = 0
  BY DEF Init
<1>3. IsFiniteSet(DOMAIN rows) /\ devices = Cardinality(DOMAIN rows)
  BY <1>2, FS_EmptySet
<1>4. list \in Seq(Uuids) /\ packets = Len(list)
  BY DEF Init
<1> QED
  BY <1>1, <1>2, <1>3, <1>4
     DEF IInv, RowsAreBelieved, CountersMatchTheLists

LEMMA NextIInv == IInv /\ [Next]_vars => IInv'
<1> SUFFICES ASSUME IInv, [Next]_vars PROVE IInv'
  OBVIOUS
<1>i. FiledUnderUsns /\ RowsInv /\ PacketsInv
  BY DEF IInv, RowsInv, PacketsInv, CountersMatchTheLists
<1> SUFFICES FiledUnderUsns' /\ RowsInv' /\ PacketsInv'
  BY DEF IInv, RowsInv, PacketsInv, CountersMatchTheLists
<1>b. ASSUME UNCHANGED <<browserVars, deviceVars>>
      PROVE  FiledUnderUsns' /\ RowsInv'
  BY <1>b, <1>i
     DEF browserVars, browserState, deviceVars, FiledUnderUsns, Browser!Cached,
         RowsInv, RowsAreBelieved
<1>p. ASSUME UNCHANGED packetVars PROVE PacketsInv'
  BY <1>p, <1>i DEF packetVars, PacketsInv
<1>1. CASE Construct \/ Timers \/ TriggerRescan
  <2>1. ShowDevices /\ UNCHANGED packetVars
    BY <1>1 DEF Construct, Timers, TriggerRescan
  <2>2. Faithful
    BY <1>1, <1>i, TimersFaithful DEF Construct, Timers, TriggerRescan
  <2> QED
    BY <1>i, <1>p, <2>1, <2>2, ShowDevicesInv
<1>2. ASSUME NEW u \in Usns, Receive(u)
      PROVE  FiledUnderUsns' /\ RowsInv' /\ PacketsInv'
  <2>1. ShowDevices /\ ShowPacket(u.uuid)
    BY <1>2 DEF Receive
  <2>2. Faithful
    BY <1>2, <1>i, ReceiveFaithful
  <2>3. u.uuid \in Uuids
    BY DEF Uuids
  <2> QED
    BY <1>i, <2>1, <2>2, <2>3, ShowDevicesInv, ShowPacketInv
<1>3. CASE ClearCapture
  <2>1. PacketsInv'
    BY <1>3 DEF ClearCapture, PacketsInv
  <2> QED
    BY <1>3, <1>b, <2>1 DEF ClearCapture
<1>4. CASE ConstructWithoutClient \/ ToggleCapture \/ ToggleSearch
  BY <1>4, <1>b, <1>p DEF ConstructWithoutClient, ToggleCapture, ToggleSearch
<1>5. ASSUME NEW text, TypeFilter(text) \/ SetAddressFilter(text)
      PROVE  FiledUnderUsns' /\ RowsInv' /\ PacketsInv'
  BY <1>5, <1>b, <1>p DEF TypeFilter, SetAddressFilter
<1>6. CASE UNCHANGED vars
  BY <1>6, <1>b, <1>p DEF vars
<1> QED
  BY <1>1, <1>2, <1>3, <1>4, <1>5, <1>6 DEF Next

\* The inductive invariant of the sniffer.
THEOREM Invariance == Spec => []IInv
<1> QED
  BY InitIInv, NextIInv, PTL DEF Spec

\* What a row shows, some cached resource of its device said, whatever came,
\* went, moved, expired or was missed meanwhile.
THEOREM RowsBelieved == Spec => []RowsAreBelieved
<1>1. IInv => RowsAreBelieved
  BY DEF IInv
<1> QED
  BY <1>1, Invariance, PTL

\* The counters in the title never drift from the lists.
THEOREM CountersMatch == Spec => []CountersMatchTheLists
<1>1. IInv => CountersMatchTheLists
  BY DEF IInv
<1> QED
  BY <1>1, Invariance, PTL

=============================================================================
