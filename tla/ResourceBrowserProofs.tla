------------------------ MODULE ResourceBrowserProofs ------------------------
(***************************************************************************)
(* Theorems about ResourceBrowser: its invariants and its action           *)
(* properties, for every set of USNs, locations and targets.               *)
(***************************************************************************)
EXTENDS ResourceBrowser, TLAPS

-----------------------------------------------------------------------------
(* The operators.                                                          *)

\* The hash key of a USN is a key, whatever the version browsed for: only
\* whether there is a version matters.
LEMMA CanonicalFacts ==
    ASSUME NEW u \in Usns, NEW v \in Nat
    PROVE  /\ Canonical(u, v) \in Keys
           /\ v = 0 => Canonical(u, v) = u
           /\ v # 0 => Canonical(u, v) = Canonical(u, 1)
BY DEF Canonical, Keys

\* g_hash_table_remove leaves the other entries as they are.
LEMMA KeepFacts ==
    ASSUME NEW S, TypeOK
    PROVE  /\ DOMAIN Keep(S) = Cached \cap S
           /\ Keep(S) \in [DOMAIN Keep(S) -> Entry]
           /\ \A k \in DOMAIN Keep(S) : Keep(S)[k] = cache[k]
BY DEF Keep, TypeOK, Cached

\* The USNs of cached resources are USNs, and their keys are where they are
\* cached.
LEMMA UsnsOfFacts ==
    ASSUME NEW S \in SUBSET Cached, TypeOK, ApplicationKnowsTheCache
    PROVE  /\ UsnsOf(S) \subseteq Usns
           /\ KeysOf(UsnsOf(S)) = S
BY DEF UsnsOf, KeysOf, TypeOK, Entry, ApplicationKnowsTheCache

\* The keys of any USNs are keys.
LEMMA KeysOfFacts ==
    ASSUME NEW S \in SUBSET Usns, TypeOK
    PROVE  /\ KeysOf(S) \subseteq Keys
           /\ \A u \in S : Key(u) \in KeysOf(S)
BY CanonicalFacts DEF KeysOf, Key, TypeOK

-----------------------------------------------------------------------------
(* Type correctness.                                                       *)

\* What a step tells the application is well typed.
LEMMA TellFacts ==
    ASSUME NEW gone \in SUBSET Usns, NEW new \in SUBSET Usns,
           TypeOK, Tell(gone, new)
    PROVE  /\ signals' \in [gone : SUBSET Usns, new : SUBSET Usns,
                            updated : SUBSET Usns]
           /\ signals'.gone = gone
           /\ signals'.new = new
           /\ signals'.updated = {}
           /\ known' = (known \ KeysOf(gone)) \cup KeysOf(new)
           /\ known' \subseteq Keys
<1>1. KeysOf(gone) \subseteq Keys /\ KeysOf(new) \subseteq Keys
  BY KeysOfFacts
<1>2. signals' = [gone |-> gone, new |-> new, updated |-> {}]
  BY DEF Tell
<1>3. known' = (known \ KeysOf(gone)) \cup KeysOf(new)
  BY DEF Tell
<1>4. known' \subseteq Keys
  BY <1>1, <1>3 DEF TypeOK
<1> QED
  BY <1>2, <1>3, <1>4

\* The browser is constructed in a state of the inductive invariant.
LEMMA InitIInv == Init => IInv
<1> SUFFICES ASSUME Init PROVE IInv
  OBVIOUS
<1> USE ConstantsAssumption DEF Init
<1>1. TypeOK
  <2>1. version \in Nat
    OBVIOUS
  <2>2. Cached = {} /\ cache \in [Cached -> Entry]
    BY DEF Cached
  <2>3. signals \in [gone : SUBSET Usns, new : SUBSET Usns,
                     updated : SUBSET Usns]
    OBVIOUS
  <2>4. numDiscovery \in 0..MAX_DISCOVERY_MESSAGES
        /\ asked \in 0..MAX_DISCOVERY_MESSAGES
    BY DEF MAX_DISCOVERY_MESSAGES
  <2> QED
    BY <2>1, <2>2, <2>3, <2>4 DEF TypeOK
<1>2. DiscoveryIsInOnePhase
  BY DEF DiscoveryIsInOnePhase
<1>3. Cached = {}
  BY DEF Cached
<1> QED
  BY <1>1, <1>2, <1>3
     DEF IInv, ApplicationKnowsTheCache, CacheMatchesTarget,
         StoppedBrowserIsEmpty

-----------------------------------------------------------------------------
(* Steps on the cache.                                                     *)

\* The typing of the cache, the application's view of it and the signals.
CacheOK ==
    /\ Cached \subseteq Keys
    /\ cache \in [Cached -> Entry]
    /\ signals \in [gone : SUBSET Usns, new : SUBSET Usns,
                    updated : SUBSET Usns]
    /\ known \subseteq Keys
    /\ ApplicationKnowsTheCache

\* A step that neither touches the cache nor tells anything.
LEMMA SilentStep ==
    ASSUME TypeOK, ApplicationKnowsTheCache, cache' = cache, TellNothing,
           version' = version \/ Cached = {}
    PROVE  CacheOK' /\ Cached' = Cached /\ known' = known
<1>1. KeysOf({}) = {}
  BY DEF KeysOf
<1>2. known' = known
  BY <1>1 DEF TellNothing, Tell
<1>3. signals' \in [gone : SUBSET Usns, new : SUBSET Usns,
                    updated : SUBSET Usns]
  BY DEF TellNothing, Tell
<1>4. Cached' = Cached
  BY DEF Cached
<1>5. ApplicationKnowsTheCache'
  <2>1. \A k \in Cached' : k = Key(cache[k].usn)'
    BY <1>4 DEF ApplicationKnowsTheCache, Key
  <2> QED
    BY <1>2, <1>4, <2>1 DEF ApplicationKnowsTheCache
<1> QED
  BY <1>2, <1>3, <1>4, <1>5 DEF CacheOK, TypeOK

\* A step that drops all but S and reports USNs with the keys of the others.
LEMMA KeepStep ==
    ASSUME TypeOK, ApplicationKnowsTheCache, version' = version,
           NEW S \in SUBSET Cached, NEW gone \in SUBSET Usns,
           KeysOf(gone) = Cached \ S, cache' = Keep(S), Tell(gone, {})
    PROVE  /\ CacheOK'
           /\ Cached' = S
           /\ \A k \in S : cache'[k] = cache[k]
<1>1. Cached' = S
  BY KeepFacts DEF Cached
<1>2. cache' \in [S -> Entry] /\ \A k \in S : cache'[k] = cache[k]
  BY <1>1, KeepFacts DEF Cached
<1>3. KeysOf({}) = {}
  BY DEF KeysOf
<1>4. /\ known' = known \ KeysOf(gone)
      /\ known' \subseteq Keys
      /\ signals' \in [gone : SUBSET Usns, new : SUBSET Usns,
                       updated : SUBSET Usns]
  BY <1>3, TellFacts
<1>5. known' = S
  BY <1>4 DEF ApplicationKnowsTheCache
<1>6. \A k \in S : k = Key(cache'[k].usn)
  BY <1>2 DEF ApplicationKnowsTheCache
<1>7. ApplicationKnowsTheCache'
  BY <1>1, <1>5, <1>6 DEF ApplicationKnowsTheCache, Key
<1> QED
  BY <1>1, <1>2, <1>4, <1>7 DEF CacheOK, TypeOK

\* A step that drops all but S, reports USNs with the keys of the others,
\* and files u, which it reports as new.
LEMMA StoreStep ==
    ASSUME TypeOK, ApplicationKnowsTheCache, version' = version,
           NEW S \in SUBSET Cached, NEW gone \in SUBSET Usns,
           NEW u \in Usns, NEW l \in Locations,
           KeysOf(gone) \ {Key(u)} = Cached \ (S \cup {Key(u)}),
           cache' = Store(Keep(S), Key(u), u, l), Tell(gone, {u})
    PROVE  /\ CacheOK'
           /\ Cached' = S \cup {Key(u)}
           /\ cache'[Key(u)].usn = u
           /\ \A k \in S \ {Key(u)} : cache'[k] = cache[k]
<1>1. Keep(S) \in [S -> Entry] /\ \A k \in S : Keep(S)[k] = cache[k]
  <2>1. Cached \cap S = S
    OBVIOUS
  <2> QED
    BY <2>1, KeepFacts
<1>2. /\ DOMAIN cache' = S \cup {Key(u)}
      /\ cache' \in [DOMAIN cache' -> Entry]
      /\ cache'[Key(u)].usn = u
      /\ \A x \in S \ {Key(u)} : cache'[x] = Keep(S)[x]
  <2> DEFINE c == Keep(S)
             k == Key(u)
  <2>1. c \in [S -> Entry]
    BY <1>1
  <2> HIDE DEF c, k
  <2>2. /\ DOMAIN Store(c, k, u, l) = S \cup {k}
        /\ Store(c, k, u, l) \in [DOMAIN Store(c, k, u, l) -> Entry]
        /\ Store(c, k, u, l)[k].usn = u
        /\ \A x \in S \ {k} : Store(c, k, u, l)[x] = c[x]
    BY <2>1 DEF Store, Entry
  <2> QED
    BY <2>2 DEF c, k
<1>3. Cached' = S \cup {Key(u)}
  BY <1>2 DEF Cached
<1>4. \A k \in S \ {Key(u)} : cache'[k] = cache[k]
  BY <1>1, <1>2
<1>5. KeysOf({u}) = {Key(u)} /\ Key(u) \in Keys
  BY CanonicalFacts DEF KeysOf, Key, TypeOK
<1>6. /\ known' = (known \ KeysOf(gone)) \cup {Key(u)}
      /\ known' \subseteq Keys
      /\ signals' \in [gone : SUBSET Usns, new : SUBSET Usns,
                       updated : SUBSET Usns]
  BY <1>5, TellFacts
<1>7. known' = S \cup {Key(u)}
  BY <1>6 DEF ApplicationKnowsTheCache
<1>8. \A k \in Cached' : k = Key(cache'[k].usn)
  BY <1>2, <1>3, <1>4 DEF ApplicationKnowsTheCache
<1>9. ApplicationKnowsTheCache'
  BY <1>3, <1>7, <1>8 DEF ApplicationKnowsTheCache, Key
<1> QED
  BY <1>2, <1>3, <1>4, <1>5, <1>6, <1>9 DEF CacheOK, TypeOK, Cached

\* What stop_discovery leaves.
LEMMA StopFacts ==
    ASSUME TypeOK, DiscoveryIsInOnePhase, StopDiscovery
    PROVE  /\ numDiscovery' = 0 /\ ~discoverySrc' /\ ~refreshSrc'
           /\ ~collecting' /\ fresh' = {} /\ asked' = asked
BY DEF StopDiscovery, DiscoveryIsInOnePhase

\* clear_cache empties the cache and says so.
LEMMA ClearFacts ==
    ASSUME TypeOK, ApplicationKnowsTheCache, ClearCache, version' = version
    PROVE  CacheOK' /\ Cached' = {}
<1>1. UsnsOf(Cached) \in SUBSET Usns /\ KeysOf(UsnsOf(Cached)) = Cached
  BY UsnsOfFacts
<1>2. cache' = Keep({}) /\ Tell(UsnsOf(Cached), {})
  BY DEF ClearCache
<1>3. {} \in SUBSET Cached /\ Cached \ {} = Cached
  OBVIOUS
<1> QED
  BY <1>1, <1>2, <1>3, KeepStep

-----------------------------------------------------------------------------
(* The inductive invariant.                                                *)

\* The rest of the state: the target and the round of discovery.
ScanOK ==
    /\ active \in BOOLEAN
    /\ target \in BrowseTargets
    /\ version \in Nat
    /\ discoverySrc \in BOOLEAN
    /\ numDiscovery \in 0..MAX_DISCOVERY_MESSAGES
    /\ refreshSrc \in BOOLEAN
    /\ collecting \in BOOLEAN
    /\ fresh \subseteq Keys
    /\ disposed \in BOOLEAN
    /\ asked \in 0..MAX_DISCOVERY_MESSAGES
    /\ heard \subseteq Keys

\* The two halves make TypeOK.
LEMMA TypeParts == TypeOK /\ ApplicationKnowsTheCache <=> CacheOK /\ ScanOK
BY DEF TypeOK, CacheOK, ScanOK

\* The same after a step.
LEMMA TypePartsNext ==
    CacheOK' /\ ScanOK' => TypeOK' /\ ApplicationKnowsTheCache'
BY DEF TypeOK, CacheOK, ScanOK

\* An offer is noted the same way in fresh and in heard.
LEMMA MarkFacts ==
    ASSUME IInv, NEW u \in Usns, MarkFresh(u), UNCHANGED <<phaseVars>>
    PROVE  /\ fresh' \subseteq Keys /\ heard' \subseteq Keys
           /\ collecting' => fresh' = heard'
<1>1. Key(u) \in Keys
  BY CanonicalFacts DEF Key, IInv, TypeOK
<1>2. fresh \subseteq Keys /\ heard \subseteq Keys
  BY DEF IInv, TypeOK
<1>3. collecting' <=> collecting
  BY DEF phaseVars
<1>4. collecting => fresh = heard
  BY DEF IInv
<1>5. heard' = heard \cup {Key(u)}
  BY DEF MarkFresh
<1>6. CASE collecting
  <2>1. fresh' = fresh \cup {Key(u)}
    BY <1>6 DEF MarkFresh
  <2> QED
    BY <1>1, <1>2, <1>3, <1>4, <1>5, <1>6, <2>1
<1>7. CASE ~collecting
  <2>1. fresh' = fresh
    BY <1>7 DEF MarkFresh
  <2> QED
    BY <1>1, <1>2, <1>3, <1>5, <1>7, <2>1
<1> QED
  BY <1>6, <1>7

\* Compatibility depends on the target and the version only.
LEMMA CompatibleStable ==
    ASSUME UNCHANGED targetVars, NEW S \in SUBSET Cached,
           Cached' = S, \A k \in S : cache'[k] = cache[k], CacheMatchesTarget
    PROVE  CacheMatchesTarget'
BY DEF CacheMatchesTarget, Compatible, targetVars

\* API calls preserve the invariant.
LEMMA ApplicationIInv == IInv /\ Application => IInv'
<1> SUFFICES ASSUME IInv, Application PROVE IInv'
  OBVIOUS
<1> USE ConstantsAssumption
<1>i. /\ TypeOK /\ DiscoveryIsInOnePhase /\ ApplicationKnowsTheCache
      /\ CacheMatchesTarget /\ StoppedBrowserIsEmpty
  BY DEF IInv
<1>s. ScanOK
  BY <1>i, TypeParts
<1>m. /\ 0 \in 0..MAX_DISCOVERY_MESSAGES /\ 1 \in 0..MAX_DISCOVERY_MESSAGES
      /\ MAX_DISCOVERY_MESSAGES = 3
  BY DEF MAX_DISCOVERY_MESSAGES
<1>1. ASSUME NEW t \in BrowseTargets, SetTarget(t) PROVE IInv'
  <2>1. version' \in Nat
    BY <1>1, <1>s DEF SetTarget, ScanOK
  <2>2. HandlerStops => version' = version /\ version' = target'.ver
    <3> SUFFICES ASSUME HandlerStops
                 PROVE  version' = version /\ version' = target'.ver
      OBVIOUS
    <3>1. target \in BrowseTargets /\ target' = t
      BY <1>1, <1>s DEF SetTarget, ScanOK
    <3>2. version = target.ver
      BY DEF IInv
    <3>3. target.ver = t.ver
      BY <3>1
    <3> QED
      BY <1>1, <3>1, <3>2, <3>3 DEF SetTarget
  <2>3. ~HandlerStops => Cached = {}
    BY <1>1, <1>i DEF SetTarget, StoppedBrowserIsEmpty
  <2>4. CacheOK' /\ Cached' = Cached
    BY <1>1, <1>i, <2>2, <2>3, SilentStep DEF SetTarget
  <2>5. ScanOK'
    BY <1>1, <1>s, <2>1 DEF SetTarget, ScanOK, scanVars, phaseVars
  <2>6. DiscoveryIsInOnePhase'
    BY <1>1, <1>i DEF SetTarget, DiscoveryIsInOnePhase, scanVars, phaseVars
  <2>7. CacheMatchesTarget'
    BY <2>3, <2>4 DEF CacheMatchesTarget
  <2>8. StoppedBrowserIsEmpty'
    BY <1>1, <1>i, <2>4 DEF SetTarget, StoppedBrowserIsEmpty
  <2>9. collecting' => fresh' = heard'
    BY <1>1 DEF SetTarget, IInv, scanVars, phaseVars
  <2> QED
    BY <2>2, <2>4, <2>5, <2>6, <2>7, <2>8, <2>9, TypePartsNext DEF IInv
<1>2. ASSUME Activate \/ Rescan PROVE IInv'
  <2>1. /\ StartDiscovery /\ TellNothing /\ ~disposed /\ disposed' = disposed
        /\ active' = TRUE /\ UNCHANGED <<targetVars, cache>>
    BY <1>2, <1>s DEF Activate, Rescan, ScanOK
  <2>2. ~refreshSrc
    BY <1>2, <1>i DEF Activate, Rescan, DiscoveryIsInOnePhase
  <2>3. version' = version /\ target' = target
    BY <2>1 DEF targetVars
  <2>4. CacheOK' /\ Cached' = Cached
    BY <1>i, <2>1, <2>3, SilentStep
  <2>a. /\ numDiscovery' = 1 /\ asked' = 1 /\ fresh' = {} /\ heard' = {}
        /\ UNCHANGED refreshSrc
    BY <2>1 DEF StartDiscovery
  <2>b. discoverySrc' = TRUE /\ collecting' = TRUE
    BY <2>1 DEF StartDiscovery
  <2>5. ScanOK'
    BY <1>m, <1>s, <2>1, <2>3, <2>a, <2>b DEF ScanOK
  <2>c. /\ numDiscovery' = asked' /\ asked' < MAX_DISCOVERY_MESSAGES
    BY <1>m, <2>a
  <2>6. DiscoveryIsInOnePhase'
    BY <2>1, <2>2, <2>a, <2>b, <2>c DEF DiscoveryIsInOnePhase
  <2>7. CacheMatchesTarget'
    <3>1. \A k \in Cached : cache'[k] = cache[k]
      BY <2>1
    <3> QED
      BY <1>i, <2>1, <2>4, <3>1, CompatibleStable
  <2>8. StoppedBrowserIsEmpty'
    BY <2>1 DEF StoppedBrowserIsEmpty
  <2>9. collecting' => fresh' = heard'
    BY <2>1 DEF StartDiscovery
  <2>10. HandlerStops => version' = target'.ver
    BY <2>3 DEF IInv
  <2> QED
    BY <2>4, <2>5, <2>6, <2>7, <2>8, <2>9, <2>10, TypePartsNext DEF IInv
<1>3. ASSUME Deactivate \/ Dispose PROVE IInv'
  <2>1. /\ StopDiscovery /\ ClearCache /\ UNCHANGED <<targetVars, heard>>
        /\ active' \in BOOLEAN /\ disposed' \in BOOLEAN
        /\ ~active' \/ disposed'
    BY <1>3, <1>s DEF Deactivate, Dispose, ScanOK
  <2>3. version' = version /\ target' = target /\ heard' = heard
    BY <2>1 DEF targetVars
  <2>4. CacheOK' /\ Cached' = {}
    BY <1>i, <2>1, <2>3, ClearFacts
  <2>s. /\ numDiscovery' = 0 /\ ~discoverySrc' /\ ~refreshSrc'
        /\ ~collecting' /\ fresh' = {} /\ asked' = asked
    BY <1>i, <2>1, StopFacts
  <2>b. discoverySrc' \in BOOLEAN /\ refreshSrc' \in BOOLEAN
        /\ collecting' \in BOOLEAN
    BY <2>1 DEF StopDiscovery
  <2>5. ScanOK'
    BY <1>m, <1>s, <2>1, <2>3, <2>s, <2>b DEF ScanOK
  <2>6. DiscoveryIsInOnePhase'
    BY <2>s DEF DiscoveryIsInOnePhase
  <2>7. CacheMatchesTarget' /\ StoppedBrowserIsEmpty'
    BY <2>4 DEF CacheMatchesTarget, StoppedBrowserIsEmpty
  <2>8. HandlerStops => version' = target'.ver
    BY <2>3 DEF IInv
  <2> QED
    BY <2>4, <2>5, <2>6, <2>7, <2>8, <2>s, TypePartsNext DEF IInv
<1> QED
  BY <1>1, <1>2, <1>3 DEF Application

\* The discovery timers and expiry preserve the invariant.
LEMMA TimersIInv == IInv /\ Timers => IInv'
<1> SUFFICES ASSUME IInv, Timers PROVE IInv'
  OBVIOUS
<1>i. /\ TypeOK /\ DiscoveryIsInOnePhase /\ ApplicationKnowsTheCache
      /\ CacheMatchesTarget /\ StoppedBrowserIsEmpty
  BY DEF IInv
<1>s. ScanOK
  BY <1>i, TypeParts
<1>v. version' = version /\ target' = target /\ active' = active
      /\ disposed' = disposed /\ heard' = heard
  BY DEF Timers, DiscoveryTimeout, RefreshCache, Expire, targetVars
<1>h. HandlerStops => version' = target'.ver
  BY <1>v DEF IInv
<1>1. ASSUME DiscoveryTimeout PROVE IInv'
  <2>1. CacheOK' /\ Cached' = Cached
    BY <1>1, <1>i, <1>v, SilentStep DEF DiscoveryTimeout
  <2>2. /\ numDiscovery = asked /\ asked \in 0..2
        /\ collecting /\ ~refreshSrc /\ active /\ ~disposed
    BY <1>1, <1>i, <1>s
       DEF DiscoveryIsInOnePhase, DiscoveryTimeout, ScanOK,
           MAX_DISCOVERY_MESSAGES
  <2>3. asked' = asked + 1 /\ collecting' = collecting /\ fresh' = fresh
        /\ cache' = cache
    BY <1>1 DEF DiscoveryTimeout
  <2>6. ScanOK' /\ DiscoveryIsInOnePhase'
    <3>1. CASE asked = 2
      <4>1. discoverySrc' = FALSE /\ numDiscovery' = 0 /\ refreshSrc' = TRUE
        BY <1>1, <2>2, <3>1 DEF DiscoveryTimeout, MAX_DISCOVERY_MESSAGES
      <4>2. asked' = 3
        BY <2>3, <3>1
      <4>3. numDiscovery' \in 0..3 /\ asked' \in 0..3
        BY <4>1, <4>2
      <4>4. ScanOK'
        BY <1>s, <1>v, <2>3, <4>1, <4>3 DEF ScanOK, MAX_DISCOVERY_MESSAGES
      <4>5. /\ numDiscovery' = IF discoverySrc' THEN asked' ELSE 0
            /\ asked' = MAX_DISCOVERY_MESSAGES
        BY <4>1, <4>2 DEF MAX_DISCOVERY_MESSAGES
      <4> QED
        BY <1>v, <2>2, <2>3, <4>1, <4>4, <4>5 DEF DiscoveryIsInOnePhase
    <3>2. CASE asked # 2
      <4>1. /\ discoverySrc' = discoverySrc /\ discoverySrc
            /\ numDiscovery' = asked + 1 /\ refreshSrc' = refreshSrc
        <5>1. ~(numDiscovery + 1 >= MAX_DISCOVERY_MESSAGES)
          BY <2>2, <3>2 DEF MAX_DISCOVERY_MESSAGES
        <5>2. /\ numDiscovery' = numDiscovery + 1
              /\ UNCHANGED <<discoverySrc, refreshSrc>> /\ discoverySrc
          BY <1>1, <5>1 DEF DiscoveryTimeout
        <5> QED
          BY <2>2, <5>2
      <4> QED
        BY <1>s, <1>v, <2>2, <2>3, <3>2, <4>1
           DEF ScanOK, DiscoveryIsInOnePhase, MAX_DISCOVERY_MESSAGES
    <3> QED
      BY <3>1, <3>2
  <2>7. CacheMatchesTarget'
    <3>1. \A k \in Cached : cache'[k] = cache[k]
      BY <2>3
    <3> QED
      BY <1>i, <1>v, <2>1, <3>1, CompatibleStable DEF targetVars
  <2>8. StoppedBrowserIsEmpty' /\ (collecting' => fresh' = heard')
    BY <1>i, <1>v, <2>1, <2>3 DEF StoppedBrowserIsEmpty, IInv
  <2> QED
    BY <1>h, <2>1, <2>6, <2>7, <2>8, TypePartsNext DEF IInv
<1>2. ASSUME RefreshCache PROVE IInv'
  <2>1. cache' = Keep(Responsive) /\ Tell(UsnsOf(Cached \ Responsive), {})
    BY <1>2 DEF RefreshCache
  <2>2. /\ Responsive \in SUBSET Cached
        /\ UsnsOf(Cached \ Responsive) \in SUBSET Usns
        /\ KeysOf(UsnsOf(Cached \ Responsive)) = Cached \ Responsive
    BY <1>i, UsnsOfFacts DEF Responsive
  <2>3. /\ CacheOK' /\ Cached' = Responsive
        /\ \A k \in Responsive : cache'[k] = cache[k]
    BY <1>i, <1>v, <2>1, <2>2, KeepStep
  <2>4. ~refreshSrc' /\ ~collecting' /\ fresh' = {} /\ asked' = asked
        /\ discoverySrc' = discoverySrc /\ numDiscovery' = numDiscovery
        /\ ~discoverySrc
    BY <1>2, <1>i DEF RefreshCache, DiscoveryIsInOnePhase
  <2>b. refreshSrc' \in BOOLEAN /\ collecting' \in BOOLEAN
    BY <1>2 DEF RefreshCache
  <2>5. ScanOK'
    BY <1>s, <1>v, <2>4, <2>b DEF ScanOK
  <2>6. DiscoveryIsInOnePhase'
    BY <1>i, <1>v, <2>4 DEF DiscoveryIsInOnePhase
  <2>7. CacheMatchesTarget'
    BY <1>i, <1>v, <2>2, <2>3, CompatibleStable DEF targetVars
  <2>8. StoppedBrowserIsEmpty'
    BY <1>i, <1>v, <2>2, <2>3 DEF StoppedBrowserIsEmpty
  <2> QED
    BY <1>h, <2>3, <2>4, <2>5, <2>6, <2>7, <2>8, TypePartsNext DEF IInv
<1>3. ASSUME NEW k \in Keys, Expire(k) PROVE IInv'
  <2> DEFINE u == cache[k].usn
             S == Cached \ {k}
  <2>1. u \in Usns /\ Key(u) = k /\ k \in Cached
    BY <1>3, <1>i DEF Expire, ApplicationKnowsTheCache, TypeOK, Entry
  <2>2. cache' = Keep(S) /\ Tell({u}, {}) /\ UNCHANGED scanVars
    BY <1>3, <2>1 DEF Expire
  <2>3. /\ S \in SUBSET Cached /\ {u} \in SUBSET Usns
        /\ KeysOf({u}) = Cached \ S
    BY <2>1 DEF KeysOf
  <2> HIDE DEF u, S
  <2>4. /\ CacheOK' /\ Cached' = S
        /\ \A x \in S : cache'[x] = cache[x]
    BY <1>i, <1>v, <2>2, <2>3, KeepStep
  <2>5. ScanOK' /\ DiscoveryIsInOnePhase'
    BY <1>i, <1>s, <1>v, <2>2
       DEF ScanOK, DiscoveryIsInOnePhase, scanVars, phaseVars
  <2>6. CacheMatchesTarget'
    BY <1>i, <1>v, <2>3, <2>4, CompatibleStable DEF targetVars
  <2>7. StoppedBrowserIsEmpty' /\ (collecting' => fresh' = heard')
    BY <1>i, <1>v, <2>2, <2>3, <2>4
       DEF StoppedBrowserIsEmpty, IInv, scanVars, phaseVars
  <2> QED
    BY <1>h, <2>4, <2>5, <2>6, <2>7, TypePartsNext DEF IInv
<1> QED
  BY <1>1, <1>2, <1>3 DEF Timers

\* Messages preserve the invariant.
LEMMA NetworkIInv == IInv /\ Network => IInv'
<1> SUFFICES ASSUME IInv, Network PROVE IInv'
  OBVIOUS
<1>i. /\ TypeOK /\ DiscoveryIsInOnePhase /\ ApplicationKnowsTheCache
      /\ CacheMatchesTarget /\ StoppedBrowserIsEmpty
  BY DEF IInv
<1>s. ScanOK
  BY <1>i, TypeParts
<1>v. version' = version /\ target' = target /\ disposed' = disposed
  BY DEF Network, Discover, Renew, Relocate, RelocateStopped, ReceiveByebye,
         ReceiveUpdate, targetVars
<1>h. HandlerStops => version' = target'.ver
  BY <1>v DEF IInv
<1> SUFFICES ASSUME NEW u \in Usns, Listening(u),
                    \/ \E l \in Locations : \/ Discover(u, l)
                                            \/ Renew(u, l)
                                            \/ Relocate(u, l)
                                            \/ RelocateStopped(u, l)
                    \/ ReceiveByebye(u)
                    \/ ReceiveUpdate(u)
             PROVE  IInv'
  BY DEF Network, Discover, Renew, Relocate, RelocateStopped, ReceiveByebye,
         ReceiveUpdate
<1>l. active /\ ~disposed /\ Compatible(u)
  BY DEF Listening
<1>k. Key(u) \in Keys /\ {u} \in SUBSET Usns /\ KeysOf({u}) = {Key(u)}
      /\ KeysOf({}) = {} /\ {} \in SUBSET Usns
  BY <1>s, CanonicalFacts DEF Key, ScanOK, KeysOf
<1>e. Keep(Cached) = cache
  BY <1>i DEF Keep, Cached, TypeOK
<1>1. ASSUME NEW l \in Locations, Discover(u, l) \/ Relocate(u, l)
      PROVE  IInv'
  <2>1. PICK gone \in SUBSET {u} :
          /\ Tell(gone, {u})
          /\ cache' = Store(cache, Key(u), u, l)
          /\ MarkFresh(u) /\ active' = active
          /\ UNCHANGED phaseVars
    BY <1>1 DEF Discover, Relocate
  <2>2. KeysOf(gone) \ {Key(u)} = Cached \ (Cached \cup {Key(u)})
        /\ gone \in SUBSET Usns /\ Cached \in SUBSET Cached
    BY DEF KeysOf
  <2>3. /\ CacheOK' /\ Cached' = Cached \cup {Key(u)}
        /\ cache'[Key(u)].usn = u
        /\ \A k \in Cached \ {Key(u)} : cache'[k] = cache[k]
    BY <1>i, <1>v, <1>e, <2>1, <2>2, StoreStep
  <2>4. /\ fresh' \subseteq Keys /\ heard' \subseteq Keys
        /\ collecting' => fresh' = heard'
    BY <2>1, MarkFacts
  <2>5. ScanOK'
    BY <1>s, <1>v, <2>1, <2>4 DEF ScanOK, phaseVars
  <2>6. DiscoveryIsInOnePhase'
    BY <1>i, <1>v, <2>1 DEF DiscoveryIsInOnePhase, phaseVars
  <2>7. CacheMatchesTarget'
    BY <1>i, <1>v, <1>l, <2>3 DEF CacheMatchesTarget, Compatible
  <2>8. StoppedBrowserIsEmpty'
    BY <1>v, <1>l, <2>1 DEF StoppedBrowserIsEmpty
  <2> QED
    BY <1>h, <2>3, <2>4, <2>5, <2>6, <2>7, <2>8, TypePartsNext DEF IInv
<1>2. ASSUME NEW l \in Locations, Renew(u, l) PROVE IInv'
  <2>1. TellNothing /\ cache' = cache /\ MarkFresh(u) /\ active' = active
        /\ UNCHANGED phaseVars
    BY <1>2 DEF Renew
  <2>3. CacheOK' /\ Cached' = Cached
    BY <1>i, <1>v, <2>1, SilentStep
  <2>4. /\ fresh' \subseteq Keys /\ heard' \subseteq Keys
        /\ collecting' => fresh' = heard'
    BY <2>1, MarkFacts
  <2>5. ScanOK'
    BY <1>s, <1>v, <2>1, <2>4 DEF ScanOK, phaseVars
  <2>6. DiscoveryIsInOnePhase'
    BY <1>i, <1>v, <2>1 DEF DiscoveryIsInOnePhase, phaseVars
  <2>7. CacheMatchesTarget'
    BY <1>i, <1>v, <2>1, <2>3 DEF CacheMatchesTarget, Compatible
  <2>8. StoppedBrowserIsEmpty'
    BY <1>v, <1>l, <2>1 DEF StoppedBrowserIsEmpty
  <2> QED
    BY <1>h, <2>3, <2>4, <2>5, <2>6, <2>7, <2>8, TypePartsNext DEF IInv
<1>3. ASSUME NEW l \in Locations, RelocateStopped(u, l) PROVE IInv'
  <2> DEFINE gone == UsnsOf(Cached \ {Key(u)}) \cup {u}
  <2>1. /\ Tell(gone, {u})
        /\ cache' = Store(Keep({}), Key(u), u, l)
        /\ StopDiscovery /\ active' = FALSE /\ HandlerStops
        /\ heard' = heard \cup {Key(u)}
    BY <1>3 DEF RelocateStopped
  <2>2. /\ UsnsOf(Cached \ {Key(u)}) \in SUBSET Usns
        /\ KeysOf(UsnsOf(Cached \ {Key(u)})) = Cached \ {Key(u)}
    BY <1>i, UsnsOfFacts
  <2>3. KeysOf(gone) = KeysOf(UsnsOf(Cached \ {Key(u)})) \cup KeysOf({u})
    BY DEF KeysOf
  <2>4. KeysOf(gone) \ {Key(u)} = Cached \ ({} \cup {Key(u)})
        /\ gone \in SUBSET Usns /\ {} \in SUBSET Cached
    BY <1>k, <2>2, <2>3
  <2> HIDE DEF gone
  <2>5. CacheOK'
    BY <1>i, <1>v, <2>1, <2>4, StoreStep
  <2>s. /\ numDiscovery' = 0 /\ ~discoverySrc' /\ ~refreshSrc'
        /\ ~collecting' /\ fresh' = {} /\ asked' = asked
    BY <1>i, <2>1, StopFacts
  <2>b. discoverySrc' \in BOOLEAN /\ refreshSrc' \in BOOLEAN
        /\ collecting' \in BOOLEAN /\ active' \in BOOLEAN
    BY <2>1 DEF StopDiscovery
  <2>n. numDiscovery' \in 0..MAX_DISCOVERY_MESSAGES
    BY <2>s DEF MAX_DISCOVERY_MESSAGES
  <2>6. ScanOK'
    BY <1>s, <1>v, <1>k, <2>1, <2>s, <2>b, <2>n DEF ScanOK
  <2>7. DiscoveryIsInOnePhase'
    BY <2>s DEF DiscoveryIsInOnePhase
  <2>8. CacheMatchesTarget' /\ StoppedBrowserIsEmpty'
    BY <1>v, <1>l, <2>1 DEF CacheMatchesTarget, StoppedBrowserIsEmpty
  <2> QED
    BY <1>h, <2>5, <2>6, <2>7, <2>8, <2>s, TypePartsNext DEF IInv
<1>4. ASSUME ReceiveByebye(u) PROVE IInv'
  <2> DEFINE S == Cached \ {Key(u)}
  <2>1. /\ cache' = Keep(S) /\ Tell({u}, {}) /\ Key(u) \in Cached
        /\ active' = active /\ heard' = heard /\ UNCHANGED scanVars
    BY <1>4 DEF ReceiveByebye
  <2>2. S \in SUBSET Cached /\ KeysOf({u}) = Cached \ S
    BY <1>k, <2>1
  <2> HIDE DEF S
  <2>3. /\ CacheOK' /\ Cached' = S
        /\ \A x \in S : cache'[x] = cache[x]
    BY <1>i, <1>v, <1>k, <2>1, <2>2, KeepStep
  <2>4. ScanOK' /\ DiscoveryIsInOnePhase'
    BY <1>i, <1>s, <1>v, <2>1
       DEF ScanOK, DiscoveryIsInOnePhase, scanVars, phaseVars
  <2>5. CacheMatchesTarget'
    BY <1>i, <1>v, <2>2, <2>3, CompatibleStable DEF targetVars
  <2>6. StoppedBrowserIsEmpty' /\ (collecting' => fresh' = heard')
    BY <1>v, <1>l, <2>1
       DEF StoppedBrowserIsEmpty, IInv, scanVars, phaseVars
  <2> QED
    BY <1>h, <2>3, <2>4, <2>5, <2>6, TypePartsNext DEF IInv
<1>5. ASSUME ReceiveUpdate(u) PROVE IInv'
  <2>1. /\ cache' = cache /\ known' = known /\ active' = active
        /\ heard' = heard /\ UNCHANGED scanVars
        /\ signals' = [gone |-> {}, new |-> {}, updated |-> {u}]
    BY <1>5 DEF ReceiveUpdate
  <2>2. Cached' = Cached
    BY <2>1 DEF Cached
  <2>3. ApplicationKnowsTheCache'
    BY <1>i, <1>v, <2>1, <2>2 DEF ApplicationKnowsTheCache, Key
  <2>4. signals' \in [gone : SUBSET Usns, new : SUBSET Usns,
                     updated : SUBSET Usns]
    BY <2>1
  <2>5. CacheOK'
    BY <1>i, <2>1, <2>2, <2>3, <2>4 DEF CacheOK, TypeOK
  <2>6. ScanOK' /\ DiscoveryIsInOnePhase'
    BY <1>i, <1>s, <1>v, <2>1
       DEF ScanOK, DiscoveryIsInOnePhase, scanVars, phaseVars
  <2>7. CacheMatchesTarget'
    BY <1>i, <1>v, <2>1, <2>2 DEF CacheMatchesTarget, Compatible
  <2>8. StoppedBrowserIsEmpty' /\ (collecting' => fresh' = heard')
    BY <1>v, <1>l, <2>1
       DEF StoppedBrowserIsEmpty, IInv, scanVars, phaseVars
  <2> QED
    BY <1>h, <2>5, <2>6, <2>7, <2>8, TypePartsNext DEF IInv
<1> QED
  BY <1>1, <1>2, <1>3, <1>4, <1>5

\* Every step preserves the invariant.
LEMMA NextIInv == IInv /\ [Next]_vars => IInv'
<1>1. IInv /\ Next => IInv'
  BY ApplicationIInv, TimersIInv, NetworkIInv DEF Next
<1>2. IInv /\ UNCHANGED vars => IInv'
  BY DEF IInv, TypeOK, Cached, DiscoveryIsInOnePhase, StoppedBrowserIsEmpty,
         ApplicationKnowsTheCache, Key, CacheMatchesTarget, Compatible, vars,
         targetVars, scanVars, phaseVars, cacheVars
<1> QED
  BY <1>1, <1>2

-----------------------------------------------------------------------------
(* Theorems.                                                               *)

\* The inductive invariant holds in every reachable state.
THEOREM Invariance == Spec => []IInv
<1>1. Init => IInv
  BY InitIInv
<1>2. IInv /\ [Next]_vars => IInv'
  BY NextIInv
<1> QED
  BY <1>1, <1>2, PTL DEF Spec

\* Every variable keeps its type.
THEOREM TypeCorrect == Spec => []TypeOK
<1>1. IInv => TypeOK
  BY DEF IInv
<1> QED
  BY <1>1, Invariance, PTL

\* A round of discovery (start_discovery, discovery_timeout, refresh_cache,
\* stop_discovery) is always in exactly one of its phases.
THEOREM DiscoveryPhases == Spec => []DiscoveryIsInOnePhase
<1>1. IInv => DiscoveryIsInOnePhase
  BY DEF IInv
<1> QED
  BY <1>1, Invariance, PTL

\* What the signals said is what the cache holds, and every cached resource
\* is filed where resource_expire will look for it.
THEOREM ApplicationKnows == Spec => []ApplicationKnowsTheCache
<1>1. IInv => ApplicationKnowsTheCache
  BY DEF IInv
<1> QED
  BY <1>1, Invariance, PTL

\* Nothing cached fails check_target_compat.
THEOREM CacheMatches == Spec => []CacheMatchesTarget
<1>1. IInv => CacheMatchesTarget
  BY DEF IInv
<1> QED
  BY <1>1, Invariance, PTL

\* set_active(FALSE) and dispose() leave no cached resource behind.
THEOREM StoppedIsEmpty == Spec => []StoppedBrowserIsEmpty
<1>1. IInv => StoppedBrowserIsEmpty
  BY DEF IInv
<1> QED
  BY <1>1, Invariance, PTL

\* No USN has no key.
LEMMA NoKeys == KeysOf({}) = {}
BY DEF KeysOf

\* The keys of the resources a step reports gone, reports new or updates.
LEMMA SignalsOfAStep ==
    ASSUME IInv, Next
    PROVE  /\ KeysOf(signals'.gone) \subseteq known
           /\ KeysOf(signals'.new) \cap (known \ KeysOf(signals'.gone)) = {}
           /\ KeysOf(signals'.updated) \subseteq known
<1>i. TypeOK /\ ApplicationKnowsTheCache /\ known = Cached
  BY DEF IInv, ApplicationKnowsTheCache
<1>1. ASSUME TellNothing
      PROVE  signals'.gone = {} /\ signals'.new = {} /\ signals'.updated = {}
  BY <1>1 DEF TellNothing, Tell
<1>2. ASSUME NEW S \in SUBSET Cached, Tell(UsnsOf(S), {})
      PROVE  KeysOf(signals'.gone) = S /\ signals'.new = {}
             /\ signals'.updated = {}
  <2>1. KeysOf(UsnsOf(S)) = S
    BY <1>i, UsnsOfFacts
  <2>2. signals' = [gone |-> UsnsOf(S), new |-> {}, updated |-> {}]
    BY <1>2 DEF Tell
  <2> QED
    BY <2>1, <2>2
<1>3. CASE \/ \E t \in BrowseTargets : SetTarget(t)
           \/ Activate \/ Rescan \/ DiscoveryTimeout
           \/ \E u \in Usns, l \in Locations : Renew(u, l)
  <2>1. TellNothing
    BY <1>3 DEF SetTarget, Activate, Rescan, DiscoveryTimeout, Renew
  <2> QED
    BY <1>1, <2>1, NoKeys
<1>4. CASE Deactivate \/ Dispose
  <2>1. Tell(UsnsOf(Cached), {}) /\ Cached \in SUBSET Cached
    BY <1>4 DEF Deactivate, Dispose, ClearCache
  <2> QED
    BY <1>2, <1>i, <2>1, NoKeys
<1>5. CASE RefreshCache
  <2>1. Tell(UsnsOf(Cached \ Responsive), {})
        /\ Cached \ Responsive \in SUBSET Cached
    BY <1>5 DEF RefreshCache
  <2> QED
    BY <1>2, <1>i, <2>1, NoKeys
<1>6. ASSUME NEW k \in Keys, Expire(k)
      PROVE  KeysOf(signals'.gone) \subseteq known /\ signals'.new = {}
             /\ signals'.updated = {}
  <2>1. k \in Cached /\ Key(cache[k].usn) = k
    BY <1>6, <1>i DEF Expire, ApplicationKnowsTheCache
  <2>2. signals' = [gone |-> {cache[k].usn}, new |-> {}, updated |-> {}]
    BY <1>6 DEF Expire, Tell
  <2>3. KeysOf({cache[k].usn}) = {k}
    BY <2>1 DEF KeysOf
  <2> QED
    BY <1>i, <2>1, <2>2, <2>3
<1>7. ASSUME NEW u \in Usns
      PROVE  KeysOf({u}) = {Key(u)}
  BY DEF KeysOf
<1>8. ASSUME NEW u \in Usns, NEW l \in Locations,
             Discover(u, l) \/ Relocate(u, l) \/ RelocateStopped(u, l)
      PROVE  /\ KeysOf(signals'.gone) \subseteq known
             /\ KeysOf(signals'.new) = {Key(u)}
             /\ Key(u) \notin known \ KeysOf(signals'.gone)
             /\ signals'.updated = {}
  <2>1. CASE Discover(u, l)
    <3>1. signals' = [gone |-> {}, new |-> {u}, updated |-> {}]
          /\ Key(u) \notin Cached
      BY <2>1 DEF Discover, Tell
    <3> QED
      BY <1>i, <1>7, <3>1, NoKeys
  <2>2. CASE Relocate(u, l)
    <3>1. signals' = [gone |-> {u}, new |-> {u}, updated |-> {}]
          /\ Key(u) \in Cached
      BY <2>2 DEF Relocate, Tell
    <3> QED
      BY <1>i, <1>7, <3>1
  <2>3. CASE RelocateStopped(u, l)
    <3> DEFINE rest == UsnsOf(Cached \ {Key(u)})
    <3>1. signals' = [gone |-> rest \cup {u}, new |-> {u}, updated |-> {}]
          /\ Key(u) \in Cached
      BY <2>3 DEF RelocateStopped, Tell
    <3>2. KeysOf(rest) = Cached \ {Key(u)}
      BY <1>i, UsnsOfFacts
    <3>3. KeysOf(rest \cup {u}) = KeysOf(rest) \cup KeysOf({u})
      BY DEF KeysOf
    <3> QED
      BY <1>i, <1>7, <3>1, <3>2, <3>3
  <2> QED
    BY <1>8, <2>1, <2>2, <2>3
<1>9. ASSUME NEW u \in Usns, ReceiveByebye(u)
      PROVE  KeysOf(signals'.gone) \subseteq known /\ signals'.new = {}
             /\ signals'.updated = {}
  <2>1. signals' = [gone |-> {u}, new |-> {}, updated |-> {}]
        /\ Key(u) \in Cached
    BY <1>9 DEF ReceiveByebye, Tell
  <2> QED
    BY <1>i, <1>7, <2>1
<1>10. ASSUME NEW u \in Usns, ReceiveUpdate(u)
       PROVE  KeysOf(signals'.updated) \subseteq known /\ signals'.new = {}
              /\ signals'.gone = {}
  <2>1. signals' = [gone |-> {}, new |-> {}, updated |-> {u}]
        /\ Key(u) \in Cached
    BY <1>10 DEF ReceiveUpdate
  <2> QED
    BY <1>i, <1>7, <2>1
<1> QED
  BY <1>3, <1>4, <1>5, <1>6, <1>8, <1>9, <1>10, NoKeys
     DEF Next, Application, Timers, Network

\* The signals of the browser alternate: unavailable and updates only for what
\* the application was told is there, available only for what it was not.
THEOREM Alternation == Spec => SignalsAlternate
<1>1. IInv /\ [Next]_vars
        => [/\ KeysOf(signals'.gone \cup signals'.updated) \subseteq known
            /\ KeysOf(signals'.new) \cap (known \ KeysOf(signals'.gone)) = {}
           ]_vars
  BY SignalsOfAStep DEF KeysOf
<1> QED
  BY <1>1, Invariance, PTL DEF Spec, SignalsAlternate

\* A round of discovery that is not stopped ends with exactly the resources
\* heard of since it began, of those cached, and after all three searches.
THEOREM SilentDropped == Spec => RefreshDropsTheSilent
<1> DEFINE A == collecting /\ ~collecting' /\ active' /\ ~disposed'
                  => /\ asked = MAX_DISCOVERY_MESSAGES
                     /\ DOMAIN cache' = Cached \cap heard
<1>1. IInv /\ [Next]_vars => [A]_vars
  <2> SUFFICES ASSUME IInv, Next, collecting, ~collecting', active',
                      ~disposed'
               PROVE  /\ asked = MAX_DISCOVERY_MESSAGES
                      /\ DOMAIN cache' = Cached \cap heard
    OBVIOUS
  <2>1. RefreshCache
    <3>1. ~ \E t \in BrowseTargets : SetTarget(t)
      BY DEF SetTarget, scanVars, phaseVars
    <3>2. ~Activate /\ ~Rescan
      BY DEF Activate, Rescan, StartDiscovery
    <3>3. ~Deactivate /\ ~Dispose
      BY DEF Deactivate, Dispose
    <3>4. ~DiscoveryTimeout /\ ~ \E k \in Keys : Expire(k)
      BY DEF DiscoveryTimeout, Expire, scanVars, phaseVars
    <3>5. ~Network
      BY DEF Network, Discover, Renew, Relocate, RelocateStopped,
             ReceiveByebye, ReceiveUpdate, scanVars, phaseVars
    <3> QED
      BY <3>1, <3>2, <3>3, <3>4, <3>5 DEF Next, Application, Timers
  <2>2. refreshSrc /\ cache' = Keep(Responsive)
    BY <2>1 DEF RefreshCache
  <2>3. asked = MAX_DISCOVERY_MESSAGES
    BY <2>2 DEF IInv, DiscoveryIsInOnePhase
  <2>4. fresh = heard
    BY DEF IInv
  <2>5. DOMAIN Keep(Responsive) = Cached \cap Responsive
    BY KeepFacts DEF IInv
  <2> QED
    BY <2>2, <2>3, <2>4, <2>5 DEF Responsive
<1> QED
  BY <1>1, Invariance, PTL DEF Spec, RefreshDropsTheSilent

\* The locations of a cached resource change only in a step that tells the
\* application that it went and came.
THEOREM LocationsTold == Spec => NewLocationsAreTold
<1> DEFINE Changed(k) == k \in DOMAIN cache'
                           /\ cache'[k].locations # cache[k].locations
           Told(k) == k \in KeysOf(signals'.gone) \cap KeysOf(signals'.new)
           A == \A k \in Cached : Changed(k) => Told(k)
<1>1. IInv /\ [Next]_vars => [A]_vars
  <2> SUFFICES ASSUME IInv, Next, NEW k \in Cached, Changed(k)
               PROVE  Told(k)
    OBVIOUS
  <2>i. TypeOK /\ ApplicationKnowsTheCache
    BY DEF IInv
  <2>1. ~ \E S : cache' = Keep(S)
    BY DEF Keep
  <2>2. cache' # cache
    OBVIOUS
  <2>3. \A u, l : cache' = Store(cache, Key(u), u, l) => k = Key(u)
    BY DEF Store, Cached
  <2>4. PICK u \in Usns, l \in Locations :
          Discover(u, l) \/ Relocate(u, l) \/ RelocateStopped(u, l)
    <3>1. ~Application
      BY <2>1, <2>2 DEF Application, SetTarget, Activate, Deactivate, Rescan,
                        Dispose, ClearCache
    <3>2. ~Timers
      BY <2>1, <2>2 DEF Timers, DiscoveryTimeout, RefreshCache, Expire
    <3>3. \A u \in Usns : ~ReceiveByebye(u) /\ ~ReceiveUpdate(u)
      BY <2>1, <2>2 DEF ReceiveByebye, ReceiveUpdate
    <3>4. \A u \in Usns, l \in Locations : ~Renew(u, l)
      BY <2>2 DEF Renew
    <3> QED
      BY <3>1, <3>2, <3>3, <3>4 DEF Next, Network
  <2>5. Key(u) \in KeysOf({u})
    BY DEF KeysOf
  <2>6. CASE Discover(u, l)
    <3>1. cache' = Store(cache, Key(u), u, l) /\ Key(u) \notin Cached
      BY <2>6 DEF Discover
    <3> QED
      BY <2>3, <3>1
  <2>7. CASE Relocate(u, l)
    <3>1. /\ cache' = Store(cache, Key(u), u, l)
          /\ signals' = [gone |-> {u}, new |-> {u}, updated |-> {}]
      BY <2>7 DEF Relocate, Tell
    <3>2. k = Key(u)
      BY <2>3, <3>1
    <3> QED
      BY <2>5, <3>1, <3>2
  <2>8. CASE RelocateStopped(u, l)
    <3>1. /\ cache' = Store(Keep({}), Key(u), u, l)
          /\ signals'.new = {u} /\ u \in signals'.gone
      BY <2>8 DEF RelocateStopped, Tell
    <3>2. k = Key(u)
      BY <3>1 DEF Store, Keep
    <3> QED
      BY <2>5, <3>1, <3>2 DEF KeysOf
  <2> QED
    BY <2>4, <2>6, <2>7, <2>8
<1> QED
  BY <1>1, Invariance, PTL DEF Spec, NewLocationsAreTold

-----------------------------------------------------------------------------
(* What the fairness of the discovery timers has to work with.             *)

\* A round that goes on has its two timers ahead, or one of them.
LEMMA RemainingFacts ==
    ASSUME IInv, collecting
    PROVE  /\ Remaining \in Nat /\ Remaining >= 1
           /\ refreshSrc => Remaining = 1 /\ ~discoverySrc
           /\ discoverySrc => /\ Remaining = 1 + MAX_DISCOVERY_MESSAGES - asked
                              /\ asked < MAX_DISCOVERY_MESSAGES
                              /\ numDiscovery = asked /\ asked \in Nat
BY DEF IInv, TypeOK, DiscoveryIsInOnePhase, Remaining, MAX_DISCOVERY_MESSAGES

\* No call and no message prolongs a round of discovery; each of its timers
\* takes it forward, and at its end no silent resource is left.
THEOREM RoundsAdvance == Spec => RoundsRunDown
<1> DEFINE A == collecting =>
                  /\ Remaining' <= Remaining
                  /\ DiscoveryTimeout \/ RefreshCache => Remaining' < Remaining
                  /\ Remaining' = 0 => DOMAIN cache' \cap Cached \subseteq heard'
<1>1. IInv /\ [Next]_vars => [A]_vars
  <2> SUFFICES ASSUME IInv, Next, collecting PROVE A
    OBVIOUS
  <2>0. /\ Remaining \in Nat /\ Remaining >= 1
        /\ refreshSrc => Remaining = 1 /\ ~discoverySrc
        /\ discoverySrc => /\ Remaining = 1 + MAX_DISCOVERY_MESSAGES - asked
                           /\ asked < MAX_DISCOVERY_MESSAGES
                           /\ numDiscovery = asked /\ asked \in Nat
    BY RemainingFacts
  <2>1. TypeOK /\ DiscoveryIsInOnePhase /\ active /\ ~disposed
          /\ (discoverySrc \/ refreshSrc) /\ fresh = heard
    BY DEF IInv, DiscoveryIsInOnePhase
  <2>2. CASE DiscoveryTimeout
    <3>1. /\ discoverySrc /\ asked' = asked + 1 /\ collecting' = collecting
          /\ IF numDiscovery + 1 >= MAX_DISCOVERY_MESSAGES
             THEN refreshSrc' = TRUE
             ELSE refreshSrc' = refreshSrc
      BY <2>2 DEF DiscoveryTimeout
    <3>2. Remaining' = IF asked + 1 >= MAX_DISCOVERY_MESSAGES THEN 1
                       ELSE MAX_DISCOVERY_MESSAGES - asked
      BY <2>0, <3>1 DEF Remaining, MAX_DISCOVERY_MESSAGES
    <3>3. Remaining' < Remaining /\ Remaining' # 0
      BY <2>0, <3>1, <3>2 DEF MAX_DISCOVERY_MESSAGES
    <3>4. Remaining' \in Nat
      BY <2>0, <3>1, <3>2 DEF MAX_DISCOVERY_MESSAGES
    <3> QED BY <2>0, <3>3, <3>4
  <2>3. CASE RefreshCache
    <3>1. /\ refreshSrc /\ ~collecting' /\ heard' = heard
          /\ cache' = Keep(Responsive)
      BY <2>3 DEF RefreshCache
    <3>2. Remaining' = 0 /\ Remaining = 1
      BY <2>0, <3>1 DEF Remaining
    <3>3. DOMAIN cache' = Cached \cap Responsive
      BY <2>1, <3>1, KeepFacts
    <3> QED BY <2>1, <3>1, <3>2, <3>3 DEF Responsive
  <2>4. ASSUME ~DiscoveryTimeout, ~RefreshCache, ~collecting',
               DOMAIN cache' \cap Cached \subseteq heard'
        PROVE  A
    <3>1. Remaining' = 0
      BY <2>4 DEF Remaining
    <3> QED BY <2>0, <2>4, <3>1
  <2>5. ASSUME ~DiscoveryTimeout, ~RefreshCache, UNCHANGED phaseVars PROVE A
    <3>1. Remaining' = Remaining
      BY <2>5 DEF Remaining, phaseVars
    <3> QED BY <2>0, <2>5, <3>1
  <2>6. ASSUME ~DiscoveryTimeout, ~RefreshCache PROVE A
    <3>1. CASE Application
      <4>1. Deactivate \/ Dispose
        BY <2>1, <3>1 DEF Application, SetTarget, Activate, Rescan
      <4>2. ~collecting' /\ cache' = Keep({})
        BY <4>1 DEF Deactivate, Dispose, StopDiscovery, ClearCache
      <4>3. DOMAIN cache' = {}
        BY <4>2 DEF Keep
      <4> QED BY <2>4, <2>6, <4>2, <4>3
    <3>2. CASE Timers
      <4>1. UNCHANGED phaseVars
        BY <2>6, <3>2 DEF Timers, Expire, scanVars
      <4> QED BY <2>5, <2>6, <4>1
    <3>3. CASE Network
      <4>1. PICK u \in Usns :
              \/ \E l \in Locations : \/ Discover(u, l) \/ Renew(u, l)
                                      \/ Relocate(u, l)
              \/ ReceiveByebye(u) \/ ReceiveUpdate(u)
              \/ \E l \in Locations : RelocateStopped(u, l)
        BY <3>3 DEF Network
      <4>2. CASE \E l \in Locations : RelocateStopped(u, l)
        <5>1. PICK l \in Locations : RelocateStopped(u, l)
          BY <4>2
        <5>2. /\ ~collecting' /\ heard' = heard \cup {Key(u)}
              /\ cache' = Store(Keep({}), Key(u), u, l)
          BY <5>1 DEF RelocateStopped, StopDiscovery
        <5>3. DOMAIN cache' = {Key(u)}
          BY <5>2 DEF Store, Keep
        <5> QED BY <2>4, <2>6, <5>2, <5>3
      <4>3. CASE ~ \E l \in Locations : RelocateStopped(u, l)
        <5>1. UNCHANGED phaseVars
          BY <4>1, <4>3 DEF Discover, Renew, Relocate, ReceiveByebye,
                            ReceiveUpdate, scanVars
        <5> QED BY <2>5, <2>6, <5>1
      <4> QED BY <4>2, <4>3
    <3> QED BY <3>1, <3>2, <3>3 DEF Next
  <2> QED BY <2>2, <2>3, <2>6
<1> QED
  BY <1>1, Invariance, PTL DEF Spec, RoundsRunDown

=============================================================================
