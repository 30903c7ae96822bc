---------------------------- MODULE DiscoveryProofs ----------------------------
(***************************************************************************)
(* Group, network and browser implement Presence, however often the group  *)
(* crashes, however long its queue and whatever the network does; and what *)
(* is proved of the group and of the browser alone holds of them here.     *)
(***************************************************************************)
EXTENDS Discovery, FiniteSetTheorems, TLAPS

-----------------------------------------------------------------------------
(* What the group sends.                                                   *)

\* The cardinality that ResourceGroup uses is that of FiniteSets.
LEMMA SameCardinality ==
    ASSUME NEW S PROVE Group!Cardinality(S) = Cardinality(S)
BY DEF Group!Cardinality, Cardinality

\* The list of the one resource, or of none.
LEMMA ListFacts ==
    ASSUME NEW S, S = {} \/ S = {1}, NEW l \in Group!ListsOf(S)
    PROVE  l \in Seq({1}) /\ (S = {} => l = <<>>)
<1>1. l \in [1..Cardinality(S) -> S]
  BY SameCardinality DEF Group!ListsOf
<1>2. CASE S = {}
  <2>1. Cardinality(S) = 0
    BY <1>2, FS_EmptySet
  <2> QED
    BY <1>1, <1>2, <2>1
<1>3. CASE S = {1}
  <2>1. Cardinality(S) = 1
    BY <1>3, FS_Singleton
  <2>2. \E n \in Nat : l \in [1..n -> {1}]
    BY <1>1, <1>3, <2>1
  <2>3. l \in Seq({1})
    BY <2>2
  <2>4. S # {}
    BY <1>3
  <2> QED
    BY <2>3, <2>4
<1> QED
  BY <1>2, <1>3

\* A round over such a list is a sequence of messages of one kind.
LEMMA RoundFacts ==
    ASSUME NEW l \in Seq({1}), NEW kind \in {"alive", "byebye"}
    PROVE  /\ Group!Round(kind, -1, l) \in Seq(Group!Message)
           /\ \A i \in DOMAIN Group!Round(kind, -1, l) :
                Group!Round(kind, -1, l)[i].kind = kind
           /\ l = <<>> => Group!Round(kind, -1, l) = <<>>
<1> DEFINE rd == Group!Round(kind, -1, l)
<1>1. Len(l) \in Nat /\ DOMAIN l = 1..Len(l) /\ \A i \in 1..Len(l) : l[i] = 1
  OBVIOUS
<1>2. rd = [i \in 1..Len(l) |-> [kind |-> kind, id |-> l[i], next |-> -1]]
  BY <1>1 DEF Group!Round
<1>3. 1 \in 0..1 /\ -1 \in -1..0
  OBVIOUS
<1>4. \A i \in 1..Len(l) :
        [kind |-> kind, id |-> l[i], next |-> -1] \in Group!Message
  BY <1>1, <1>3 DEF Group!Message, Group!BootIds
<1>5. rd \in Seq(Group!Message)
  BY <1>1, <1>2, <1>4
<1>6. l = <<>> => rd = <<>>
  BY <1>1, <1>2, <1>5
<1>7. \A i \in DOMAIN rd : rd[i].kind = kind
  BY <1>2
<1> QED
  BY <1>5, <1>6, <1>7

\* Concatenation brings in no other kinds of message.
LEMMA ConcatFacts ==
    ASSUME NEW s \in Seq(Group!Message), NEW t \in Seq(Group!Message)
    PROVE  /\ s \o t \in Seq(Group!Message)
           /\ Announcing(s \o t) => Announcing(s) \/ Announcing(t)
<1>1. s \o t \in Seq(Group!Message)
  OBVIOUS
<1>2. ASSUME NEW i \in DOMAIN (s \o t), (s \o t)[i].kind # "byebye"
      PROVE  Announcing(s) \/ Announcing(t)
  <2>1. CASE i \in DOMAIN s
    BY <1>2, <2>1 DEF Announcing
  <2>2. CASE i \notin DOMAIN s
    <3>1. i - Len(s) \in DOMAIN t /\ (s \o t)[i] = t[i - Len(s)]
      BY <1>2, <2>2
    <3> QED
      BY <1>2, <3>1 DEF Announcing
  <2> QED
    BY <2>1, <2>2
<1> QED
  BY <1>1, <1>2 DEF Announcing

\* An announcement set, likewise.
LEMMA SetFacts ==
    ASSUME NEW S, S = {} \/ S = {1}, NEW l \in Group!ListsOf(S)
    PROVE  /\ Group!Byebyes(l) \in Seq(Group!Message)
           /\ ~Announcing(Group!Byebyes(l))
           /\ Group!AnnouncementSet(Group!Byebyes(l)) \in Seq(Group!Message)
           /\ ~Announcing(Group!AnnouncementSet(Group!Byebyes(l)))
           /\ Group!AnnouncementSet(Group!Alives(l)) \in Seq(Group!Message)
           /\ S = {} => ~Announcing(Group!AnnouncementSet(Group!Alives(l)))
<1> DEFINE b == Group!Byebyes(l)
           a == Group!Alives(l)
<1>0. l \in Seq({1}) /\ (S = {} => l = <<>>)
  BY ListFacts
<1>1. b \in Seq(Group!Message) /\ ~Announcing(b)
  <2>1. b = Group!Round("byebye", -1, l)
    BY DEF Group!Byebyes
  <2> QED
    BY <1>0, <2>1, RoundFacts DEF Announcing
<1>2. a \in Seq(Group!Message) /\ (S = {} => ~Announcing(a))
  <2>1. a = Group!Round("alive", -1, l)
    BY DEF Group!Alives
  <2>2. a \in Seq(Group!Message) /\ (S = {} => a = <<>>)
    BY <1>0, <2>1, RoundFacts
  <2> QED
    BY <2>2 DEF Announcing
<1> HIDE DEF a, b
<1>3. ASSUME NEW s \in Seq(Group!Message)
      PROVE  /\ Group!AnnouncementSet(s) \in Seq(Group!Message)
             /\ Announcing(Group!AnnouncementSet(s)) => Announcing(s)
  <2>1. s \o s \in Seq(Group!Message) /\ (Announcing(s \o s) => Announcing(s))
    BY ConcatFacts
  <2> DEFINE two == s \o s
  <2> HIDE DEF two
  <2>2. two \o s \in Seq(Group!Message)
        /\ (Announcing(two \o s) => Announcing(two) \/ Announcing(s))
    BY <2>1, ConcatFacts DEF two
  <2>3. Group!AnnouncementSet(s) = two \o s
    BY DEF Group!AnnouncementSet, two
  <2> QED
    BY <2>1, <2>2, <2>3 DEF two
<1> QED
  BY <1>1, <1>2, <1>3 DEF a, b

\* Only what is transmitted gets on the wire.
LEMMA TransmitFacts ==
    ASSUME NEW ms, Group!Transmit(ms)
    PROVE  Announcing(wire') <=> Announcing(ms)
BY DEF Group!Transmit, Announcing

\* The queue is a sequence of messages from before and of ms, and so is what
\* goes out.
LEMMA QueueFacts ==
    ASSUME NEW ms \in Seq(Group!Message), Group!QueueMessages(ms),
           queue \in Seq(Group!Message)
    PROVE  /\ queue' \in Seq(Group!Message)
           /\ Announcing(wire') \/ Announcing(queue')
                => Announcing(queue) \/ Announcing(ms)
<1> DEFINE all == queue \o ms
<1>1. /\ all \in Seq(Group!Message)
      /\ Announcing(all) => Announcing(queue) \/ Announcing(ms)
  BY ConcatFacts
<1>2. ms # <<>> => all # <<>>
  OBVIOUS
<1> HIDE DEF all
<1>3. CASE Group!TransmitNothing
  <2>1. ~Announcing(wire')
    BY <1>3 DEF Group!TransmitNothing, Announcing
  <2>2. queue' = queue \/ queue' = all \/ (ms # <<>> /\ queue' = Tail(all))
    BY DEF Group!QueueMessages, all
  <2>3. CASE ms # <<>> /\ queue' = Tail(all)
    <3>1. /\ Tail(all) \in Seq(Group!Message)
          /\ \A i \in DOMAIN Tail(all) :
               i + 1 \in DOMAIN all /\ Tail(all)[i] = all[i + 1]
      BY <1>1, <1>2, <2>3
    <3> QED
      BY <1>1, <2>1, <2>3, <3>1 DEF Announcing
  <2> QED
    BY <1>1, <2>1, <2>2, <2>3
<1>4. CASE /\ ms # <<>> /\ queue' = Tail(all)
           /\ Group!Transmit(<<Head(all)>>)
  <2>1. /\ Tail(all) \in Seq(Group!Message)
        /\ \A i \in DOMAIN Tail(all) :
             i + 1 \in DOMAIN all /\ Tail(all)[i] = all[i + 1]
        /\ 1 \in DOMAIN all /\ Head(all) = all[1]
    BY <1>1, <1>2, <1>4
  <2>2. Announcing(queue') => Announcing(all)
    BY <1>4, <2>1 DEF Announcing
  <2>3. Announcing(<<Head(all)>>) => Announcing(all)
    BY <2>1 DEF Announcing
  <2>4. Announcing(wire') => Announcing(all)
    BY <1>4, <2>3, TransmitFacts
  <2> QED
    BY <1>1, <1>4, <2>1, <2>2, <2>4
<1> QED
  BY <1>3, <1>4 DEF Group!QueueMessages, all

-----------------------------------------------------------------------------
(* The inductive invariant.                                                *)

LEMMA InitIInv == Init => IInv
<1> SUFFICES ASSUME Init PROVE IInv
  OBVIOUS
<1>1. GroupIsTyped
  <2>1. queue = <<>> /\ listed = {} /\ lastId = 0 /\ epoch = 0
        /\ timeoutSources = 0 /\ ~timeoutSrc /\ ~available
    BY DEF Init, Group!Init
  <2> QED
    BY <2>1, EpochAssumption DEF GroupIsTyped
<1>2. SpeaksOfItsOffer
  <2>1. queue = <<>> /\ listed = {}
    BY DEF Init, Group!Init
  <2>2. responses[<<1, Target>>] = 0
    <3>1. responses = [p \in (1..1) \X {Target} |-> 0]
      BY DEF Init, Group!Init, Group!Ids
    <3>2. <<1, Target>> \in (1..1) \X {Target}
      OBVIOUS
    <3> QED
      BY <3>1, <3>2
  <2> QED
    BY <2>1, <2>2 DEF SpeaksOfItsOffer, Announcing
<1>3. NetworkCarriesOffers
  BY DEF Init, NetworkCarriesOffers
<1>4. CacheHoldsOffers
  BY DEF Init, Browser!Init, CacheHoldsOffers, Browser!Cached
<1> QED
  BY <1>1, <1>2, <1>3, <1>4 DEF IInv

\* A step of the group that sends: what it says, and will say, it has offered,
\* if it said so before the step or offers the resource after it.
LEMMA GroupStep ==
    ASSUME IInv, GroupSent, GroupIsTyped',
           Announcing(wire') \/ Announcing(queue')
             \/ responses'[<<1, Target>>] > 0
             => \/ Announcing(queue)
                \/ responses[<<1, Target>>] > 0
                \/ available' /\ listed' # {} /\ ~groupDisposed'
                \/ available /\ listed # {} /\ ~groupDisposed
    PROVE  IInv'
<1>1. epoch' = epoch /\ At(epoch) # NONE
  <2>1. epoch \in 0..MaxEpoch
    BY DEF IInv, GroupIsTyped
  <2> QED
    BY <2>1, NoneAssumption DEF GroupSent, Places
<1>2. offers \subseteq offers'
  BY DEF GroupSent
<1>3. available' /\ listed' # {} /\ ~groupDisposed' => At(epoch) \in offers'
  <2> SUFFICES ASSUME available' /\ listed' # {} /\ ~groupDisposed'
               PROVE  At(epoch) \in offers'
    OBVIOUS
  <2>1. offered' = At(epoch)
    BY <1>1 DEF offered
  <2> QED
    BY <1>1, <2>1 DEF GroupSent
<1>4. /\ Announcing(wire') => At(epoch) \in offers'
      /\ SpeaksOfItsOffer'
  BY <1>1, <1>2, <1>3 DEF IInv, SpeaksOfItsOffer
<1>5. NetworkCarriesOffers'
  <2> SUFFICES ASSUME NEW m \in inFlight', m.kind = "alive"
               PROVE  m.place \in offers'
    BY DEF NetworkCarriesOffers
  <2>1. CASE m \in inFlight
    BY <1>2, <2>1 DEF IInv, NetworkCarriesOffers
  <2>2. CASE m \in Announced
    <3>1. PICK i \in DOMAIN wire' :
            m = IF wire'[i].kind = "byebye" THEN Gone ELSE AliveAt(At(epoch))
      BY <2>2 DEF Announced
    <3>2. wire'[i].kind # "byebye" /\ m.place = At(epoch)
      BY <3>1 DEF Gone, AliveAt
    <3> QED
      BY <1>4, <3>2 DEF Announcing
  <2> QED
    BY <2>1, <2>2 DEF GroupSent
<1>6. CacheHoldsOffers'
  <2>1. cache' = cache /\ version' = version
    BY DEF GroupSent, BrowserIsQuiet, browserVars
  <2> QED
    BY <1>2, <2>1 DEF IInv, CacheHoldsOffers, Browser!Cached, Browser!Key
<1> QED
  BY <1>4, <1>5, <1>6 DEF IInv

\* A step that leaves the group alone.
LEMMA OtherStep ==
    ASSUME IInv, GroupIsQuiet, NetworkCarriesOffers', CacheHoldsOffers'
    PROVE  IInv'
<1>1. UNCHANGED <<available, listed, lastId, queue, timeoutSrc, timeoutSources,
                  groupDisposed, responses, epoch, offers>>
  BY DEF GroupIsQuiet, processVars
<1> QED
  BY <1>1 DEF IInv, GroupIsTyped, SpeaksOfItsOffer, Announcing

\* What the group does on its own.
LEMMA GroupIInv ==
    ASSUME IInv, GroupCalls \/ SendQueued \/ Respond \/ AnnounceAgain
    PROVE  IInv'
<1> DEFINE Said == \/ Announcing(queue)
                   \/ responses[<<1, Target>>] > 0
                   \/ available' /\ listed' # {} /\ ~groupDisposed'
                   \/ available /\ listed # {} /\ ~groupDisposed
           Saying == Announcing(wire') \/ Announcing(queue')
                       \/ responses'[<<1, Target>>] > 0
<1>i. /\ GroupIsTyped
      /\ queue \in Seq(Group!Message)
      /\ listed = {} \/ listed = {1}
      /\ ~groupDisposed => Group!Attached = 0
      /\ <<>> \in Seq(Group!Message)
  <2>1. GroupIsTyped /\ queue \in Seq(Group!Message)
    BY DEF IInv, GroupIsTyped
  <2>2. listed \subseteq {1}
    BY <2>1 DEF GroupIsTyped
  <2>3. listed = {} \/ listed = {1}
    BY <2>2
  <2>4. ~groupDisposed => Group!Attached = 0
    BY <2>1 DEF GroupIsTyped, Group!Attached
  <2> QED
    BY <2>1, <2>3, <2>4
<1>s. GroupSent /\ epoch' = epoch
  BY DEF GroupCalls, SendQueued, Respond, AnnounceAgain, GroupSent
<1>q. \A ms \in Seq(Group!Message) :
        Group!QueueMessages(ms) =>
          /\ queue' \in Seq(Group!Message)
          /\ Announcing(wire') \/ Announcing(queue')
               => Announcing(queue) \/ Announcing(ms)
  BY <1>i, QueueFacts
<1>1. CASE Group!MakeAvailable
  <2>1. PICK silent \in Group!ListsOf(listed \ byebyeSent),
             all \in Group!ListsOf(listed) :
          Group!QueueMessages(Group!Byebyes(silent)
                                \o Group!AnnouncementSet(Group!Alives(all)))
    BY <1>1 DEF Group!MakeAvailable, Group!InitialAnnouncement
  <2> DEFINE b == Group!Byebyes(silent)
             a == Group!AnnouncementSet(Group!Alives(all))
  <2>2. b \in Seq(Group!Message) /\ ~Announcing(b)
    <3>1. listed \ byebyeSent = {} \/ listed \ byebyeSent = {1}
      BY <1>i
    <3> QED
      BY <3>1, SetFacts
  <2>3. a \in Seq(Group!Message) /\ (listed = {} => ~Announcing(a))
    BY <1>i, SetFacts
  <2> HIDE DEF a, b
  <2>4. b \o a \in Seq(Group!Message)
        /\ (Announcing(b \o a) => Announcing(a))
    BY <2>2, <2>3, ConcatFacts
  <2>5. queue' \in Seq(Group!Message)
        /\ (Announcing(wire') \/ Announcing(queue')
              => Announcing(queue) \/ Announcing(a))
    BY <1>q, <2>1, <2>4 DEF a, b
  <2>6. /\ ~groupDisposed /\ ~available /\ available'
        /\ timeoutSrc' = TRUE /\ timeoutSources' = timeoutSources + 1
        /\ UNCHANGED <<listed, lastId, responses, groupDisposed>>
    BY <1>1 DEF Group!MakeAvailable, Group!SetupReannouncement
  <2>7. GroupIsTyped'
    BY <1>i, <1>s, <2>5, <2>6 DEF GroupIsTyped
  <2>8. Saying => Said
    BY <2>3, <2>5, <2>6
  <2> QED
    BY <1>s, <2>7, <2>8, GroupStep
<1>2. CASE Group!MakeUnavailable
  <2>1. PICK all \in Group!ListsOf(listed) :
          Group!QueueMessages(Group!AnnouncementSet(Group!Byebyes(all)))
    BY <1>2 DEF Group!MakeUnavailable
  <2> DEFINE b == Group!AnnouncementSet(Group!Byebyes(all))
  <2>2. b \in Seq(Group!Message) /\ ~Announcing(b)
    BY <1>i, SetFacts
  <2> HIDE DEF b
  <2>3. queue' \in Seq(Group!Message)
        /\ (Announcing(wire') \/ Announcing(queue') => Announcing(queue))
    BY <1>q, <2>1, <2>2 DEF b
  <2>4. /\ ~groupDisposed /\ available /\ available' = FALSE
        /\ timeoutSrc' = FALSE /\ timeoutSources' = Group!Attached
        /\ UNCHANGED <<listed, lastId, responses, groupDisposed>>
    BY <1>2 DEF Group!MakeUnavailable
  <2>5. GroupIsTyped'
    BY <1>i, <1>s, <2>3, <2>4 DEF GroupIsTyped
  <2>6. Saying => Said
    BY <2>3, <2>4
  <2> QED
    BY <1>s, <2>5, <2>6, GroupStep
<1>3. CASE Group!AddResource
  <2> DEFINE n == lastId + 1
             ms == IF available THEN <<Group!Byebye(n), Group!Alive(n)>> ELSE <<>>
  <2>1. /\ ~groupDisposed /\ lastId < 1
        /\ lastId' = n /\ listed' = listed \cup {n}
        /\ Group!QueueMessages(ms)
        /\ UNCHANGED <<available, timeoutSrc, timeoutSources, responses,
                       groupDisposed>>
    BY <1>3 DEF Group!AddResource, Group!FirstAnnouncement, Group!timerVars
  <2>2. n = 1 /\ lastId' = 1
    BY <1>i, <2>1 DEF GroupIsTyped
  <2>3. ms \in Seq(Group!Message) /\ (~available => ~Announcing(ms))
    <3>1. CASE available
      <4>1. 1 \in 0..1 /\ -1 \in -1..0
        OBVIOUS
      <4>2. Group!Byebye(n) \in Group!Message /\ Group!Alive(n) \in Group!Message
        BY <2>2, <4>1 DEF Group!Byebye, Group!Alive, Group!Msg, Group!Message,
                          Group!BootIds
      <4> QED
        BY <3>1, <4>2
    <3>2. CASE ~available
      BY <3>2 DEF Announcing
    <3> QED
      BY <3>1, <3>2
  <2> HIDE DEF ms
  <2>4. queue' \in Seq(Group!Message)
        /\ (Announcing(wire') \/ Announcing(queue')
              => Announcing(queue) \/ available)
    BY <1>q, <2>1, <2>3
  <2>5. GroupIsTyped'
    <3>1. listed' \subseteq 1..1 /\ 1 \in 0..1
      BY <1>i, <2>1, <2>2
    <3> QED
      BY <1>i, <1>s, <2>1, <2>2, <2>4, <3>1 DEF GroupIsTyped
  <2>6. Saying => Said
    BY <2>1, <2>4
  <2> QED
    BY <1>s, <2>5, <2>6, GroupStep
<1>4. CASE Group!Dispose
  <2>1. PICK all \in Group!ListsOf(listed) :
          IF available THEN Group!Transmit(queue \o Group!Byebyes(all))
          ELSE Group!TransmitNothing
    BY <1>4 DEF Group!Dispose, Group!Flush
  <2>2. /\ groupDisposed' = TRUE /\ ~groupDisposed
        /\ listed' = {} /\ queue' = <<>>
        /\ responses' = [p \in Group!Ids \X {Target} |-> 0]
        /\ timeoutSources' = Group!Attached /\ timeoutSrc' = FALSE
        /\ UNCHANGED <<available, lastId>>
    BY <1>4 DEF Group!Dispose
  <2>3. Announcing(wire') => Announcing(queue)
    <3> DEFINE b == Group!Byebyes(all)
    <3>1. b \in Seq(Group!Message) /\ ~Announcing(b)
      BY <1>i, SetFacts
    <3> HIDE DEF b
    <3>2. Announcing(queue \o b) => Announcing(queue)
      BY <1>i, <3>1, ConcatFacts
    <3>3. CASE available
      BY <2>1, <3>2, <3>3, TransmitFacts DEF b
    <3>4. CASE ~available
      BY <2>1, <3>4 DEF Group!TransmitNothing, Announcing
    <3> QED
      BY <3>3, <3>4
  <2>4. responses'[<<1, Target>>] = 0
    <3>1. <<1, Target>> \in Group!Ids \X {Target}
      BY DEF Group!Ids
    <3> QED
      BY <2>2, <3>1
  <2>5. ~Announcing(queue')
    BY <2>2 DEF Announcing
  <2>6. GroupIsTyped'
    BY <1>i, <1>s, <2>2 DEF GroupIsTyped
  <2>7. Saying => Said
    BY <2>3, <2>4, <2>5
  <2> QED
    BY <1>s, <2>6, <2>7, GroupStep
<1>5. CASE Group!ProcessQueue
  <2>1. UNCHANGED <<available, listed, lastId, timeoutSrc, timeoutSources,
                    responses, groupDisposed>>
    BY <1>5 DEF Group!ProcessQueue, Group!groupVars, Group!timerVars
  <2>2. queue' \in Seq(Group!Message)
        /\ (Announcing(wire') \/ Announcing(queue') => Announcing(queue))
    <3>1. CASE queue = <<>>
      BY <1>5, <1>i, <3>1 DEF Group!ProcessQueue, Group!TransmitNothing, Announcing
    <3>2. CASE queue # <<>>
      <4>1. Group!Transmit(<<Head(queue)>>) /\ queue' = Tail(queue)
        BY <1>5, <3>2 DEF Group!ProcessQueue
      <4>2. /\ Tail(queue) \in Seq(Group!Message)
            /\ \A i \in DOMAIN Tail(queue) :
                 i + 1 \in DOMAIN queue /\ Tail(queue)[i] = queue[i + 1]
            /\ 1 \in DOMAIN queue /\ Head(queue) = queue[1]
        BY <1>i, <3>2
      <4>3. Announcing(queue') => Announcing(queue)
        BY <4>1, <4>2 DEF Announcing
      <4>4. Announcing(<<Head(queue)>>) => Announcing(queue)
        BY <4>2 DEF Announcing
      <4>5. Announcing(wire') => Announcing(queue)
        BY <4>1, <4>4, TransmitFacts
      <4> QED
        BY <4>1, <4>2, <4>3, <4>5
    <3> QED
      BY <3>1, <3>2
  <2>3. GroupIsTyped'
    BY <1>i, <1>s, <2>1, <2>2 DEF GroupIsTyped
  <2>4. Saying => Said
    BY <2>1, <2>2
  <2> QED
    BY <1>s, <2>3, <2>4, GroupStep
<1>6. CASE Group!SendResponse(1, Target)
  <2>1. /\ responses[<<1, Target>>] > 0
        /\ UNCHANGED <<available, listed, lastId, timeoutSrc, timeoutSources,
                       queue, groupDisposed>>
    BY <1>6 DEF Group!SendResponse, Group!groupVars, Group!timerVars
  <2>2. GroupIsTyped'
    BY <1>i, <1>s, <2>1 DEF GroupIsTyped
  <2> QED
    BY <1>s, <2>1, <2>2, GroupStep
<1>7. CASE Group!Reannounce
  <2>1. PICK all \in Group!ListsOf(listed) :
          Group!QueueMessages(Group!AnnouncementSet(Group!Alives(all)))
    BY <1>7 DEF Group!Reannounce
  <2> DEFINE a == Group!AnnouncementSet(Group!Alives(all))
  <2>2. a \in Seq(Group!Message) /\ (listed = {} => ~Announcing(a))
    BY <1>i, SetFacts
  <2> HIDE DEF a
  <2>3. queue' \in Seq(Group!Message)
        /\ (Announcing(wire') \/ Announcing(queue')
              => Announcing(queue) \/ Announcing(a))
    BY <1>q, <2>1, <2>2 DEF a
  <2>4. /\ ~groupDisposed /\ timeoutSources > 0
        /\ UNCHANGED <<available, listed, lastId, timeoutSrc, timeoutSources,
                       responses, groupDisposed>>
    BY <1>7 DEF Group!Reannounce, Group!groupVars, Group!timerVars
  <2>5. available
    BY <1>i, <2>4 DEF GroupIsTyped
  <2>6. GroupIsTyped'
    BY <1>i, <1>s, <2>3, <2>4 DEF GroupIsTyped
  <2>7. Saying => Said
    BY <2>2, <2>3, <2>4, <2>5
  <2> QED
    BY <1>s, <2>6, <2>7, GroupStep
<1> QED
  BY <1>1, <1>2, <1>3, <1>4, <1>5, <1>6, <1>7
  DEF GroupCalls, SendQueued, Respond, AnnounceAgain

\* A search that reaches the group is answered only if there is an offer.
LEMMA SearchIInv == IInv /\ GroupHears => IInv'
<1> SUFFICES ASSUME IInv, GroupHears PROVE IInv'
  OBVIOUS
<1> DEFINE pairs == {<<r, Target>> : r \in Group!Matching(Target)}
<1>1. /\ ~groupDisposed /\ available
      /\ responses' = [p \in Group!Ids \X {Target} |->
                         IF p \in pairs THEN responses[p] + 1 ELSE responses[p]]
      /\ UNCHANGED <<available, listed, lastId, timeoutSrc, timeoutSources,
                     queue, groupDisposed, epoch, offers, cache, version>>
  BY DEF GroupHears, Group!SearchFor, Group!Answer, Group!groupVars,
         Group!timerVars, BrowserIsQuiet, browserVars
<1>2. <<1, Target>> \in Group!Ids \X {Target}
  BY DEF Group!Ids
<1>3. responses'[<<1, Target>>] > 0
        => responses[<<1, Target>>] > 0 \/ listed # {}
  <2>1. CASE <<1, Target>> \in pairs
    BY <2>1 DEF Group!Matching
  <2>2. CASE <<1, Target>> \notin pairs
    BY <1>1, <1>2, <2>2
  <2> QED
    BY <2>1, <2>2
<1> HIDE DEF pairs
<1>4. GroupIsTyped'
  BY <1>1 DEF IInv, GroupIsTyped
<1>5. SpeaksOfItsOffer'
  BY <1>1, <1>3 DEF IInv, SpeaksOfItsOffer, Announcing
<1>6. NetworkCarriesOffers'
  BY <1>1 DEF IInv, NetworkCarriesOffers, GroupHears, Deliver
<1>7. CacheHoldsOffers'
  BY <1>1 DEF IInv, CacheHoldsOffers, Browser!Cached, Browser!Key
<1> QED
  BY <1>4, <1>5, <1>6, <1>7 DEF IInv

\* A new process has offered nothing and says nothing.
LEMMA CrashIInv == IInv /\ Crash => IInv'
<1> SUFFICES ASSUME IInv, Crash PROVE IInv'
  OBVIOUS
<1>1. GroupIsTyped'
  <2>1. epoch' \in 0..MaxEpoch
    BY EpochAssumption DEF IInv, GroupIsTyped, Crash
  <2>2. queue' \in Seq(Group!Message) /\ listed' = {} /\ lastId' = 0
        /\ timeoutSources' = 0 /\ timeoutSrc' = FALSE /\ available' = FALSE
    BY DEF Crash
  <2> QED
    BY <2>1, <2>2 DEF GroupIsTyped
<1>2. SpeaksOfItsOffer'
  <2>1. queue' = <<>> /\ available' = FALSE
    BY DEF Crash
  <2>2. responses'[<<1, Target>>] = 0
    <3>1. responses' = [p \in {1} \X {Target} |-> 0]
      BY DEF Crash
    <3> QED
      BY <3>1
  <2> QED
    BY <2>1, <2>2 DEF SpeaksOfItsOffer, Announcing
<1>3. NetworkCarriesOffers' /\ CacheHoldsOffers'
  BY DEF IInv, Crash, NetworkCarriesOffers, CacheHoldsOffers, BrowserIsQuiet,
         browserVars, Browser!Cached, Browser!Key
<1> QED
  BY <1>1, <1>2, <1>3 DEF IInv

\* The browser drops entries, or leaves its cache alone.
LEMMA BrowserIInv ==
    ASSUME IInv, BrowserCalls \/ BrowserTimers \/ Expires
    PROVE  IInv' /\ offers' = offers
<1>1. /\ BrowserSent /\ version' = version
      /\ cache' = cache \/ \E S : cache' = Browser!Keep(S)
  BY DEF BrowserCalls, BrowserTimers, Expires, Browser!Activate,
         Browser!Deactivate, Browser!Rescan, Browser!DiscoveryTimeout,
         Browser!RefreshCache, Browser!Expire, Browser!ClearCache,
         Browser!targetVars
<1>2. GroupIsQuiet /\ offers' = offers
  BY <1>1 DEF BrowserSent, GroupIsQuiet
<1>3. NetworkCarriesOffers'
  <2>1. \A m \in inFlight' : m \in inFlight \/ m = Search
    BY <1>1 DEF BrowserSent
  <2>2. Search.kind # "alive"
    BY DEF Search
  <2> QED
    BY <1>2, <2>1, <2>2 DEF IInv, NetworkCarriesOffers
<1>4. CacheHoldsOffers'
  <2>1. \A k \in DOMAIN cache' : k \in DOMAIN cache /\ cache'[k] = cache[k]
    BY <1>1 DEF Browser!Keep, Browser!Cached
  <2> QED
    BY <1>1, <1>2, <2>1 DEF IInv, CacheHoldsOffers, Browser!Cached, Browser!Key
<1> QED
  BY <1>2, <1>3, <1>4, OtherStep

\* What the browser learns, the network carried.
LEMMA HearsIInv ==
    ASSUME IInv, NEW m \in inFlight, BrowserHears(m)
    PROVE  IInv' /\ offers' = offers
<1>1. GroupIsQuiet /\ offers' = offers /\ inFlight' \subseteq inFlight
  BY DEF BrowserHears, GroupIsQuiet, Deliver
<1>2. NetworkCarriesOffers'
  BY <1>1 DEF IInv, NetworkCarriesOffers
<1>3. version' = version
  BY DEF BrowserHears, Browser!Discover, Browser!Renew, Browser!Relocate,
         Browser!ReceiveByebye, Browser!targetVars
<1>4. CASE m.kind = "alive" /\ cache' =
             Browser!Store(cache, Browser!Key(Usn), Usn, m.place)
  <2>1. m.place \in offers
    BY <1>4 DEF IInv, NetworkCarriesOffers
  <2>2. \A k \in DOMAIN cache' :
          \/ k \in DOMAIN cache /\ cache'[k] = cache[k]
          \/ k = Browser!Key(Usn) /\ cache'[k].locations = m.place
    BY <1>4 DEF Browser!Store
  <2> QED
    BY <1>1, <1>2, <1>3, <2>1, <2>2, OtherStep
    DEF IInv, CacheHoldsOffers, Browser!Cached, Browser!Key
<1>5. CASE cache' = cache \/ \E S : cache' = Browser!Keep(S)
  <2>1. \A k \in DOMAIN cache' : k \in DOMAIN cache /\ cache'[k] = cache[k]
    BY <1>5 DEF Browser!Keep, Browser!Cached
  <2>2. CacheHoldsOffers'
    BY <1>1, <1>3, <2>1 DEF IInv, CacheHoldsOffers, Browser!Cached, Browser!Key
  <2> QED
    BY <1>1, <1>2, <2>2, OtherStep
<1> QED
  BY <1>4, <1>5 DEF BrowserHears, Browser!Discover, Browser!Renew,
                    Browser!Relocate, Browser!ReceiveByebye

LEMMA LoseIInv ==
    ASSUME IInv, NEW m, Lose(m)
    PROVE  IInv' /\ offers' = offers
<1>1. /\ GroupIsQuiet /\ offers' = offers /\ inFlight' \subseteq inFlight
      /\ cache' = cache /\ version' = version
  BY DEF Lose, GroupIsQuiet, BrowserIsQuiet, browserVars
<1>2. NetworkCarriesOffers' /\ CacheHoldsOffers'
  BY <1>1 DEF IInv, NetworkCarriesOffers, CacheHoldsOffers, Browser!Cached,
              Browser!Key
<1> QED
  BY <1>1, <1>2, OtherStep

LEMMA StutterIInv == IInv /\ UNCHANGED vars => IInv'
BY DEF IInv, GroupIsTyped, SpeaksOfItsOffer, Announcing, NetworkCarriesOffers,
       CacheHoldsOffers, Browser!Cached, Browser!Key, vars, processVars,
       browserVars

LEMMA NextIInv == IInv /\ [Next]_vars => IInv'
<1> SUFFICES ASSUME IInv, [Next]_vars PROVE IInv'
  OBVIOUS
<1>1. CASE GroupCalls \/ SendQueued \/ Respond \/ AnnounceAgain
  BY <1>1, GroupIInv
<1>2. CASE BrowserCalls \/ BrowserTimers \/ Expires
  BY <1>2, BrowserIInv
<1> QED
  BY <1>1, <1>2, SearchIInv, CrashIInv, HearsIInv, LoseIInv, StutterIInv DEF Next

-----------------------------------------------------------------------------
(* The refinement.                                                         *)

\* Whatever the browser tells the application about comes from an offer.
LEMMA BelievedOnce == IInv' => believed' \in offers' \cup {NONE}
BY DEF IInv, CacheHoldsOffers, believed, Browser!Cached

LEMMA OfferedSomewhere == IInv' => offered' \in Places \cup {NONE}
BY DEF IInv, GroupIsTyped, offered, Places

\* A step of the group changes the offer, one of the browser notices an offer
\* that once was, and all others are invisible.
LEMMA StepRefines == IInv /\ IInv' /\ [Next]_vars => [P!Next]_(P!presenceVars)
<1> SUFFICES ASSUME IInv, IInv', [Next]_vars
             PROVE  [P!Next]_(P!presenceVars)
  OBVIOUS
<1>c. ASSUME UNCHANGED <<cache, version>> PROVE believed' = believed
  BY <1>c DEF believed, Browser!Cached, Browser!Key
<1>o. ASSUME UNCHANGED <<available, listed, groupDisposed, epoch>>
      PROVE  offered' = offered
  BY <1>o DEF offered
<1>n. ASSUME UNCHANGED <<available, listed, groupDisposed, epoch, offers>>
      PROVE  P!Next
  <2>1. believed' \in offers \cup {NONE}
    BY <1>n, BelievedOnce
  <2> QED
    BY <1>n, <1>o, <2>1 DEF P!Next, P!Notice
<1>g. ASSUME offers' = offers \cup ({offered'} \ {NONE}),
             UNCHANGED <<cache, version>>
      PROVE  P!Next
  <2>1. offered' \in Places \cup {NONE}
    BY OfferedSomewhere
  <2> QED
    BY <1>c, <1>g, <2>1 DEF P!Next, P!Change
<1>1. CASE GroupCalls \/ SendQueued \/ Respond \/ AnnounceAgain
  <2>1. GroupSent
    BY <1>1 DEF GroupCalls, SendQueued, Respond, AnnounceAgain
  <2>2. UNCHANGED <<cache, version>>
    BY <2>1 DEF GroupSent, BrowserIsQuiet, browserVars
  <2> QED
    BY <1>g, <2>1, <2>2 DEF GroupSent
<1>2. CASE Crash
  <2>1. offered' = NONE /\ offers' = offers
    BY <1>2 DEF Crash, offered
  <2>2. UNCHANGED <<cache, version>>
    BY <1>2 DEF Crash, BrowserIsQuiet, browserVars
  <2> QED
    BY <1>g, <2>1, <2>2
<1>3. CASE GroupHears
  <2>1. UNCHANGED <<available, listed, groupDisposed, epoch, offers>>
    BY <1>3 DEF GroupHears, Group!SearchFor, Group!Answer, Group!groupVars
  <2> QED
    BY <1>n, <2>1
<1>4. CASE \/ BrowserCalls \/ BrowserTimers \/ Expires
           \/ \E m \in inFlight : BrowserHears(m) \/ Lose(m)
  <2>1. GroupIsQuiet
    BY <1>4 DEF BrowserCalls, BrowserTimers, Expires, BrowserSent,
                BrowserHears, Lose
  <2>2. UNCHANGED <<available, listed, groupDisposed, epoch, offers>>
    BY <2>1 DEF GroupIsQuiet, processVars
  <2> QED
    BY <1>n, <2>2
<1>5. CASE UNCHANGED vars
  <2>1. UNCHANGED <<available, listed, groupDisposed, epoch, offers>>
    BY <1>5 DEF vars, processVars
  <2> QED
    BY <1>n, <2>1
<1> QED
  BY <1>1, <1>2, <1>3, <1>4, <1>5 DEF Next

LEMMA InitRefines == Init => P!Init
BY DEF Init, Group!Init, Browser!Init, P!Init, offered, believed, Browser!Cached

\* IInv is an invariant of group, network and browser.
THEOREM DiscoveryInvariant == Spec => []IInv
BY InitIInv, NextIInv, PTL DEF Spec

\* Whatever the network does and however often the group crashes, the browser
\* believes only in offers that once were: Discovery implements Presence.
THEOREM Refinement == Spec => ImplementsPresence
<1>1. Init => P!Init
  BY InitRefines
<1>2. IInv /\ IInv' /\ [Next]_vars => [P!Next]_(P!presenceVars)
  BY StepRefines
<1> QED
  BY <1>1, <1>2, DiscoveryInvariant, PTL DEF Spec, ImplementsPresence, P!Spec

-----------------------------------------------------------------------------
(* The parts keep their word: what is proved of group and browser on their *)
(* own holds of them here, where one crashes and the network talks.        *)

OfGroup == INSTANCE ResourceGroupByebyeProofs WITH
    disposed <- groupDisposed, MaxId <- 1, Targets <- {Target},
    TargetOf <- [r \in 1..1 |-> Target], MaxBoot <- 0, UDA11 <- FALSE,
    MaxResponses <- 1

OfBrowser == INSTANCE ResourceBrowserProofs WITH
    disposed <- browserDisposed, Usns <- {Usn}, Locations <- Places,
    BrowseTargets <- {[type |-> "device", ver |-> 1]}, HandlerStops <- FALSE

\* The constants of this composition are as the two modules want them.
LEMMA PartsAssumption ==
    OfGroup!ConstantsAssumption /\ OfBrowser!ConstantsAssumption
<1>1. OfGroup!ConstantsAssumption
  BY EpochAssumption DEF OfGroup!ConstantsAssumption, OfGroup!Ids, Target
<1>2. OfBrowser!ConstantsAssumption
  BY DEF OfBrowser!ConstantsAssumption, Usn, Places, At
<1> QED
  BY <1>1, <1>2

\* The two instances of ResourceGroup are the same.
LEMMA SameGroup ==
    /\ Group!Init => OfGroup!Init
    /\ Group!MakeAvailable => OfGroup!MakeAvailable
    /\ Group!MakeUnavailable => OfGroup!MakeUnavailable
    /\ Group!AddResource => OfGroup!AddResource
    /\ Group!Dispose => OfGroup!Dispose
    /\ Group!ProcessQueue => OfGroup!ProcessQueue
    /\ Group!Reannounce => OfGroup!Reannounce
    /\ Group!SendResponse(1, Target) => OfGroup!SendResponse(1, Target)
    /\ Group!SearchFor(Target) => OfGroup!SearchFor(Target)
<1> USE
    DEF Group!Announces, OfGroup!Announces, Group!Says, OfGroup!Says,
        Group!Silent, OfGroup!Silent, Group!Transmit, OfGroup!Transmit,
        Group!TransmitNothing, OfGroup!TransmitNothing, Group!QueueMessages,
        OfGroup!QueueMessages, Group!Room, OfGroup!Room, Group!ListsOf,
        OfGroup!ListsOf, Group!Cardinality, OfGroup!Cardinality,
        Group!Round, OfGroup!Round, Group!Alives, OfGroup!Alives,
        Group!Byebyes, OfGroup!Byebyes, Group!AnnouncementSet,
        OfGroup!AnnouncementSet, Group!Alive, OfGroup!Alive, Group!Byebye,
        OfGroup!Byebye, Group!Msg, OfGroup!Msg, Group!SetupReannouncement,
        OfGroup!SetupReannouncement, Group!Attached, OfGroup!Attached,
        Group!InitialAnnouncement, OfGroup!InitialAnnouncement,
        Group!Marked, OfGroup!Marked, Group!FirstAnnouncement,
        OfGroup!FirstAnnouncement, Group!Flush, OfGroup!Flush,
        Group!Matching, OfGroup!Matching, Group!Answer, OfGroup!Answer,
        Group!Ids, OfGroup!Ids, Group!groupVars, OfGroup!groupVars,
        Group!timerVars, OfGroup!timerVars, Group!Init, OfGroup!Init,
        Group!MakeAvailable, OfGroup!MakeAvailable, Group!MakeUnavailable,
        OfGroup!MakeUnavailable, Group!AddResource, OfGroup!AddResource,
        Group!Dispose, OfGroup!Dispose, Group!ProcessQueue,
        OfGroup!ProcessQueue, Group!Reannounce, OfGroup!Reannounce,
        Group!SendResponse, OfGroup!SendResponse, Group!SearchFor,
        OfGroup!SearchFor
<1>1. Group!Init => OfGroup!Init
  OBVIOUS
<1>2. Group!MakeAvailable => OfGroup!MakeAvailable
  OBVIOUS
<1>3. Group!MakeUnavailable => OfGroup!MakeUnavailable
  OBVIOUS
<1>4. Group!AddResource => OfGroup!AddResource
  OBVIOUS
<1>5. Group!Dispose => OfGroup!Dispose
  OBVIOUS
<1>6. Group!ProcessQueue => OfGroup!ProcessQueue
  OBVIOUS
<1>7. Group!Reannounce => OfGroup!Reannounce
  OBVIOUS
<1>8. Group!SendResponse(1, Target) => OfGroup!SendResponse(1, Target)
  OBVIOUS
<1>9. Group!SearchFor(Target) => OfGroup!SearchFor(Target)
  OBVIOUS
<1> QED
  BY <1>1, <1>2, <1>3, <1>4, <1>5, <1>6, <1>7, <1>8, <1>9

\* The two instances of ResourceBrowser are the same.
LEMMA SameBrowser ==
    /\ Browser!Init => OfBrowser!Init
    /\ Browser!Activate => OfBrowser!Activate
    /\ Browser!Deactivate => OfBrowser!Deactivate
    /\ Browser!Rescan => OfBrowser!Rescan
    /\ Browser!DiscoveryTimeout => OfBrowser!DiscoveryTimeout
    /\ Browser!RefreshCache => OfBrowser!RefreshCache
    /\ \A k : Browser!Expire(k) => OfBrowser!Expire(k)
    /\ \A l : /\ Browser!Discover(Usn, l) => OfBrowser!Discover(Usn, l)
              /\ Browser!Renew(Usn, l) => OfBrowser!Renew(Usn, l)
              /\ Browser!Relocate(Usn, l) => OfBrowser!Relocate(Usn, l)
    /\ Browser!ReceiveByebye(Usn) => OfBrowser!ReceiveByebye(Usn)
<1> USE
    DEF Browser!MAX_DISCOVERY_MESSAGES, OfBrowser!MAX_DISCOVERY_MESSAGES,
        Browser!Canonical, OfBrowser!Canonical, Browser!Keys,
        OfBrowser!Keys, Browser!Key, OfBrowser!Key, Browser!KeysOf,
        OfBrowser!KeysOf, Browser!Compatible, OfBrowser!Compatible,
        Browser!Conflict, OfBrowser!Conflict, Browser!Cached,
        OfBrowser!Cached, Browser!Keep, OfBrowser!Keep, Browser!Store,
        OfBrowser!Store, Browser!Tell, OfBrowser!Tell, Browser!TellNothing,
        OfBrowser!TellNothing, Browser!UsnsOf, OfBrowser!UsnsOf,
        Browser!ClearCache, OfBrowser!ClearCache, Browser!StartDiscovery,
        OfBrowser!StartDiscovery, Browser!StopDiscovery,
        OfBrowser!StopDiscovery, Browser!Responsive, OfBrowser!Responsive,
        Browser!Listening, OfBrowser!Listening, Browser!MarkFresh,
        OfBrowser!MarkFresh, Browser!targetVars, OfBrowser!targetVars,
        Browser!phaseVars, OfBrowser!phaseVars, Browser!scanVars,
        OfBrowser!scanVars, Browser!Init, OfBrowser!Init, Browser!Activate,
        OfBrowser!Activate, Browser!Deactivate, OfBrowser!Deactivate,
        Browser!Rescan, OfBrowser!Rescan, Browser!DiscoveryTimeout,
        OfBrowser!DiscoveryTimeout, Browser!RefreshCache,
        OfBrowser!RefreshCache, Browser!Expire, OfBrowser!Expire,
        Browser!Discover, OfBrowser!Discover, Browser!Renew,
        OfBrowser!Renew, Browser!Relocate, OfBrowser!Relocate,
        Browser!ReceiveByebye, OfBrowser!ReceiveByebye
<1>1. Browser!Init => OfBrowser!Init
  OBVIOUS
<1>2. Browser!Activate => OfBrowser!Activate
  OBVIOUS
<1>3. Browser!Deactivate => OfBrowser!Deactivate
  OBVIOUS
<1>4. Browser!Rescan => OfBrowser!Rescan
  OBVIOUS
<1>5. Browser!DiscoveryTimeout => OfBrowser!DiscoveryTimeout
  OBVIOUS
<1>6. Browser!RefreshCache => OfBrowser!RefreshCache
  OBVIOUS
<1>7. ASSUME NEW k PROVE Browser!Expire(k) => OfBrowser!Expire(k)
  OBVIOUS
<1>8. ASSUME NEW l PROVE Browser!Discover(Usn, l) => OfBrowser!Discover(Usn, l)
  OBVIOUS
<1>9. ASSUME NEW l PROVE Browser!Renew(Usn, l) => OfBrowser!Renew(Usn, l)
  OBVIOUS
<1>10. ASSUME NEW l PROVE Browser!Relocate(Usn, l) => OfBrowser!Relocate(Usn, l)
  OBVIOUS
<1>11. Browser!ReceiveByebye(Usn) => OfBrowser!ReceiveByebye(Usn)
  OBVIOUS
<1> QED
  BY <1>1, <1>2, <1>3, <1>4, <1>5, <1>6, <1>7, <1>8, <1>9, <1>10, <1>11

\* Of the group's variables a step changes what a step of the group changes,
\* or begins with a new process, or leaves them.
LEMMA GroupStepOrCrash ==
    ASSUME [Next]_vars
    PROVE  \/ OfGroup!Next
           \/ OfGroup!Init'
           \/ UNCHANGED processVars /\ (wire' = <<>> \/ wire' = wire)
<1>1. CASE GroupCalls \/ SendQueued \/ Respond \/ AnnounceAgain \/ GroupHears
  <2>1. 1 \in OfGroup!Ids /\ Target \in {Target}
    BY DEF OfGroup!Ids
  <2>2. \/ OfGroup!MakeAvailable \/ OfGroup!MakeUnavailable
        \/ OfGroup!AddResource \/ OfGroup!Dispose
        \/ OfGroup!ProcessQueue \/ OfGroup!Reannounce
        \/ OfGroup!SendResponse(1, Target) \/ OfGroup!SearchFor(Target)
    BY <1>1, SameGroup DEF GroupCalls, SendQueued, Respond, AnnounceAgain, GroupHears
  <2> QED
    BY <2>1, <2>2 DEF OfGroup!Next, OfGroup!Application, OfGroup!Network,
                      OfGroup!Timers
<1>2. CASE Crash
  BY <1>2 DEF Crash, OfGroup!Init, OfGroup!Ids
<1>3. CASE \/ BrowserCalls \/ BrowserTimers \/ Expires
           \/ \E m \in inFlight : BrowserHears(m) \/ Lose(m)
  BY <1>3 DEF BrowserCalls, BrowserTimers, Expires, BrowserSent, BrowserHears,
              Lose, GroupIsQuiet
<1>4. CASE UNCHANGED vars
  BY <1>4 DEF vars
<1> QED
  BY <1>1, <1>2, <1>3, <1>4 DEF Next

\* Every process of the group keeps the group's invariants, and what it says
\* first of its resource is byebye, however many died before it.
THEOREM GroupCorrect == Spec => []GroupKeepsItsWord
<1>1. Init => OfGroup!WordInv
  BY PartsAssumption, SameGroup, OfGroup!InitWordInv DEF Init
<1>2. OfGroup!Init' => OfGroup!WordInv'
  <2>1. OfGroup!Init => OfGroup!WordInv
    BY PartsAssumption, OfGroup!InitWordInv
  <2> QED
    BY <2>1, PTL
<1>3. OfGroup!WordInv /\ [Next]_vars => OfGroup!WordInv'
  <2> SUFFICES ASSUME OfGroup!WordInv, [Next]_vars PROVE OfGroup!WordInv'
    OBVIOUS
  <2>1. CASE OfGroup!Next
    BY <2>1, PartsAssumption, OfGroup!NextWordInv
  <2>2. CASE OfGroup!Init'
    BY <2>2, <1>2
  <2>3. CASE UNCHANGED processVars /\ (wire' = <<>> \/ wire' = wire)
    <3>1. /\ UNCHANGED <<available, listed, lastId, byebyeSent, responses, queue>>
          /\ UNCHANGED <<messageSrc, timeoutSrc, timeoutSources, bootId>>
          /\ UNCHANGED <<groupDisposed, announced>>
      BY <2>3 DEF processVars
    <3>2. wire' \in Seq(OfGroup!WireMessage)
      <4> DEFINE W == OfGroup!WireMessage
      <4>1. wire \in Seq(W)
        BY DEF OfGroup!WordInv, OfGroup!IInv, OfGroup!TypeOK
      <4> HIDE DEF W
      <4>2. <<>> \in Seq(W)
        OBVIOUS
      <4>3. wire' \in Seq(W)
        BY <2>3, <4>1, <4>2
      <4> QED
        BY <4>3 DEF W
    <3>3. OfGroup!TypeOK'
      BY <3>1, <3>2 DEF OfGroup!WordInv, OfGroup!IInv, OfGroup!TypeOK
    <3>4. OfGroup!IInv'
      BY <3>1, <3>3
         DEF OfGroup!WordInv, OfGroup!IInv, OfGroup!TimersMatchState,
             OfGroup!QueueIsServed, OfGroup!ResponsesAreOwned,
             OfGroup!InitialByebyesDone, OfGroup!LastWordIsCurrent,
             OfGroup!Promised
    <3> QED
      BY <3>1, <3>4 DEF OfGroup!WordInv, OfGroup!ByebyeIsWaiting
  <2> QED
    BY <2>1, <2>2, <2>3, GroupStepOrCrash
<1>4. OfGroup!WordInv => GroupKeepsItsWord
  <2> SUFFICES ASSUME OfGroup!WordInv PROVE GroupKeepsItsWord
    OBVIOUS
  <2>1. OfGroup!FirstWordIsByebye
    BY PartsAssumption, OfGroup!WordInvSays
  <2>2. /\ OfGroup!TimersMatchState /\ OfGroup!QueueIsServed
        /\ OfGroup!ResponsesAreOwned /\ OfGroup!LastWordIsCurrent
    BY DEF OfGroup!WordInv, OfGroup!IInv
  <2> QED
    BY <2>1, <2>2
       DEF GroupKeepsItsWord,
           Group!TimersMatchState, OfGroup!TimersMatchState,
           Group!QueueIsServed, OfGroup!QueueIsServed,
           Group!ResponsesAreOwned, OfGroup!ResponsesAreOwned,
           Group!FirstWordIsByebye, OfGroup!FirstWordIsByebye,
           Group!LastWordIsCurrent, OfGroup!LastWordIsCurrent,
           Group!Promised, OfGroup!Promised, Group!Says, OfGroup!Says,
           Group!Silent, OfGroup!Silent, Group!Announces, OfGroup!Announces,
           Group!Alive, OfGroup!Alive, Group!Byebye, OfGroup!Byebye,
           Group!Msg, OfGroup!Msg, Group!Ids, OfGroup!Ids
<1> QED
  BY <1>1, <1>3, <1>4, PTL DEF Spec

\* Of the browser's variables a step changes what a step of the browser
\* changes, or nothing but the signals, which are then silent.
LEMMA BrowserStepOrNone ==
    ASSUME IInv, offers \subseteq Places, [Next]_vars
    PROVE  \/ OfBrowser!Next
           \/ BrowserIsQuiet
           \/ UNCHANGED <<browserVars, signals>>
<1>u. Usn \in {Usn}
  OBVIOUS
<1>1. CASE BrowserCalls \/ BrowserTimers
  <2>1. \/ OfBrowser!Activate \/ OfBrowser!Deactivate \/ OfBrowser!Rescan
        \/ OfBrowser!DiscoveryTimeout \/ OfBrowser!RefreshCache
    BY <1>1, SameBrowser DEF BrowserCalls, BrowserTimers
  <2> QED
    BY <2>1 DEF OfBrowser!Next, OfBrowser!Application, OfBrowser!Timers
<1>2. CASE Expires
  <2>1. OfBrowser!Expire(Browser!Key(Usn))
    BY <1>2, SameBrowser DEF Expires
  <2>2. Browser!Key(Usn) = OfBrowser!Canonical(Usn, 1)
    BY DEF IInv, CacheHoldsOffers, Browser!Key, Browser!Canonical,
           OfBrowser!Canonical
  <2>3. Browser!Key(Usn) \in OfBrowser!Keys
    BY <2>2 DEF OfBrowser!Keys
  <2> QED
    BY <2>1, <2>3 DEF OfBrowser!Next, OfBrowser!Timers
<1>3. ASSUME NEW m \in inFlight, BrowserHears(m) PROVE OfBrowser!Next
  <2>1. CASE m.kind = "alive"
    <3>1. m.place \in Places
      BY <2>1 DEF IInv, NetworkCarriesOffers
    <3>2. \/ OfBrowser!Discover(Usn, m.place)
          \/ OfBrowser!Renew(Usn, m.place)
          \/ OfBrowser!Relocate(Usn, m.place)
      BY <1>3, <2>1, SameBrowser DEF BrowserHears
    <3> QED
      BY <1>u, <3>1, <3>2 DEF OfBrowser!Next, OfBrowser!Network
  <2>2. CASE m.kind = "byebye"
    <3>1. OfBrowser!ReceiveByebye(Usn)
      BY <1>3, <2>2, SameBrowser DEF BrowserHears
    <3> QED
      BY <1>u, <3>1 DEF OfBrowser!Next, OfBrowser!Network
  <2> QED
    BY <1>3, <2>1, <2>2 DEF BrowserHears
<1>4. CASE \/ GroupCalls \/ SendQueued \/ Respond \/ AnnounceAgain
           \/ GroupHears \/ Crash \/ \E m \in inFlight : Lose(m)
  BY <1>4 DEF GroupCalls, SendQueued, Respond, AnnounceAgain, GroupHears,
              Crash, Lose, GroupSent
<1>5. CASE UNCHANGED vars
  BY <1>5 DEF vars
<1> QED
  BY <1>1, <1>2, <1>3, <1>4, <1>5 DEF Next

\* Offers are of places of the resource.
LEMMA OffersArePlaces == Spec => [](offers \subseteq Places)
<1>1. Init => offers \subseteq Places
  BY DEF Init
<1>2. IInv /\ IInv' /\ offers \subseteq Places /\ [Next]_vars
        => (offers \subseteq Places)'
  <2> SUFFICES ASSUME IInv, IInv', offers \subseteq Places, [Next]_vars
               PROVE  (offers \subseteq Places)'
    OBVIOUS
  <2>1. offered' \in Places \cup {NONE}
    BY OfferedSomewhere
  <2>2. Places' = Places
    BY DEF Places, At
  <2>3. offers' = offers \/ offers' = offers \cup ({offered'} \ {NONE})
    BY BrowserIInv, HearsIInv, LoseIInv
       DEF Next, vars, GroupCalls, SendQueued, Respond, AnnounceAgain,
           GroupHears, Crash, GroupSent
  <2> QED
    BY <2>1, <2>2, <2>3
<1> QED
  BY <1>1, <1>2, DiscoveryInvariant, PTL DEF Spec

\* What is known of the browser alone, along every behaviour of the composition.
LEMMA BrowserInvariant == Spec => []OfBrowser!IInv
<1>1. Init => OfBrowser!IInv
  BY PartsAssumption, SameBrowser, OfBrowser!InitIInv DEF Init
<1>2. /\ IInv /\ offers \subseteq Places /\ [Next]_vars /\ OfBrowser!IInv
      => OfBrowser!IInv'
  <2> SUFFICES ASSUME IInv, offers \subseteq Places, [Next]_vars,
                      OfBrowser!IInv
               PROVE  OfBrowser!IInv'
    OBVIOUS
  <2>1. CASE OfBrowser!Next
    BY <2>1, PartsAssumption, OfBrowser!NextIInv
  <2>2. CASE BrowserIsQuiet \/ UNCHANGED <<browserVars, signals>>
    <3>1. /\ UNCHANGED <<active, target, version, cache, discoverySrc>>
          /\ UNCHANGED <<numDiscovery, refreshSrc, collecting, fresh, known>>
          /\ UNCHANGED <<asked, heard, browserDisposed>>
      BY <2>2 DEF BrowserIsQuiet, browserVars
    <3>2. signals' \in [gone : SUBSET {Usn}, new : SUBSET {Usn},
                        updated : SUBSET {Usn}]
      BY <2>2 DEF BrowserIsQuiet, OfBrowser!IInv, OfBrowser!TypeOK
    <3>3. OfBrowser!TypeOK'
      BY <3>1, <3>2 DEF OfBrowser!IInv, OfBrowser!TypeOK, OfBrowser!Cached
    <3> QED
      BY <3>1, <3>3
         DEF OfBrowser!IInv, OfBrowser!DiscoveryIsInOnePhase,
             OfBrowser!ApplicationKnowsTheCache, OfBrowser!CacheMatchesTarget,
             OfBrowser!StoppedBrowserIsEmpty, OfBrowser!Cached, OfBrowser!Key,
             OfBrowser!Compatible
  <2> QED
    BY <2>1, <2>2, BrowserStepOrNone
<1> QED
  BY <1>1, <1>2, DiscoveryInvariant, OffersArePlaces, PTL DEF Spec

\* Whatever the network loses, repeats or delays, the application knows the
\* cache, and the cache and the timers are as the calls have left them.
THEOREM BrowserCorrect == Spec => []BrowserKeepsItsWord
<1>1. OfBrowser!IInv => BrowserKeepsItsWord
  <2> SUFFICES ASSUME OfBrowser!IInv PROVE BrowserKeepsItsWord
    OBVIOUS
  <2>1. /\ OfBrowser!DiscoveryIsInOnePhase
        /\ OfBrowser!ApplicationKnowsTheCache
        /\ OfBrowser!CacheMatchesTarget
        /\ OfBrowser!StoppedBrowserIsEmpty
    BY DEF OfBrowser!IInv
  <2> QED
    BY <2>1
       DEF BrowserKeepsItsWord, Browser!DiscoveryIsInOnePhase,
           OfBrowser!DiscoveryIsInOnePhase, Browser!ApplicationKnowsTheCache,
           OfBrowser!ApplicationKnowsTheCache, Browser!CacheMatchesTarget,
           OfBrowser!CacheMatchesTarget, Browser!StoppedBrowserIsEmpty,
           OfBrowser!StoppedBrowserIsEmpty, Browser!Cached, OfBrowser!Cached,
           Browser!Key, OfBrowser!Key, Browser!Canonical, OfBrowser!Canonical,
           Browser!Compatible, OfBrowser!Compatible,
           Browser!MAX_DISCOVERY_MESSAGES, OfBrowser!MAX_DISCOVERY_MESSAGES
<1> QED
  BY <1>1, BrowserInvariant, PTL

\* The signals alternate here too: no lost byebye, late alive or crash of the
\* group makes the application hear twice that the resource came, or that it
\* went when it did not know it.
THEOREM BrowserAlternates == Spec => Browser!SignalsAlternate
<1> DEFINE Alternate ==
             /\ Browser!KeysOf(signals'.gone \cup signals'.updated) \subseteq known
             /\ Browser!KeysOf(signals'.new)
                  \cap (known \ Browser!KeysOf(signals'.gone)) = {}
<1>1. /\ IInv /\ offers \subseteq Places /\ OfBrowser!IInv /\ [Next]_vars
      => [Alternate]_(Browser!vars)
  <2> SUFFICES ASSUME IInv, offers \subseteq Places, OfBrowser!IInv,
                      [Next]_vars
               PROVE  Alternate \/ UNCHANGED Browser!vars
    OBVIOUS
  <2>1. CASE OfBrowser!Next
    <3>1. /\ OfBrowser!KeysOf(signals'.gone) \subseteq known
          /\ OfBrowser!KeysOf(signals'.new)
               \cap (known \ OfBrowser!KeysOf(signals'.gone)) = {}
          /\ OfBrowser!KeysOf(signals'.updated) \subseteq known
      BY <2>1, PartsAssumption, OfBrowser!SignalsOfAStep
    <3> QED
      BY <3>1 DEF Browser!KeysOf, OfBrowser!KeysOf, Browser!Key, OfBrowser!Key,
                  Browser!Canonical, OfBrowser!Canonical
  <2>2. CASE BrowserIsQuiet
    <3>1. /\ signals'.gone \cup signals'.updated = {}
          /\ signals'.new = {}
      BY <2>2 DEF BrowserIsQuiet
    <3> QED
      BY <3>1 DEF Browser!KeysOf
  <2>3. CASE UNCHANGED <<browserVars, signals>>
    BY <2>3 DEF browserVars, Browser!vars, Browser!targetVars,
                Browser!scanVars, Browser!phaseVars, Browser!cacheVars
  <2> QED
    BY <2>1, <2>2, <2>3, BrowserStepOrNone
<1> QED
  BY <1>1, DiscoveryInvariant, OffersArePlaces, BrowserInvariant, PTL
     DEF Spec, Browser!SignalsAlternate

=============================================================================
