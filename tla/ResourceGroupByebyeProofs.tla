---------------------- MODULE ResourceGroupByebyeProofs ----------------------
(***************************************************************************)
(* What ResourceGroup promises about initial byebyes, proved for every     *)
(* value of its constants: they are the first word on each resource, and   *)
(* those of a group that becomes available precede its alives.             *)
(***************************************************************************)
EXTENDS ResourceGroupProofs

\* The first message about r in ms, if it is an announcement, is a byebye.
ByebyeFirst(ms, r) ==
    \A i \in DOMAIN ms :
        ms[i] = Alive(r) => \E j \in 1..(i-1) : ms[j] = Byebye(r)

HasByebye(ms, r) == \E i \in DOMAIN ms : ms[i] = Byebye(r)

\* A resource that was marked and of which nothing has been said still has its
\* byebye in the queue.
ByebyeIsWaiting ==
    ~disposed => \A r \in byebyeSent : announced[r] = "none" => HasByebye(queue, r)

\* The strengthening: FirstWordIsByebye survives an append of alives of r only
\* because the byebye of r is queued already or comes first in what is appended.
WordInv ==
    /\ IInv
    /\ \A r \in Ids : announced[r] = "none" => ByebyeFirst(queue, r)
    /\ ByebyeIsWaiting

-----------------------------------------------------------------------------
(* Sequences of messages.                                                  *)

\* Appending keeps a byebye in front of the first alive.
LEMMA ByebyeFirstConcat ==
    ASSUME NEW s \in Seq(Message), NEW t \in Seq(Message), NEW r
    PROVE  /\ ByebyeFirst(s, r) /\ (ByebyeFirst(t, r) \/ HasByebye(s, r))
                => ByebyeFirst(s \o t, r)
           /\ HasByebye(s, r) \/ HasByebye(t, r) => HasByebye(s \o t, r)
<1>1. /\ s \o t \in Seq(Message)
      /\ Len(s \o t) = Len(s) + Len(t)
      /\ \A i \in 1..Len(s) : (s \o t)[i] = s[i]
      /\ \A i \in 1..Len(t) : (s \o t)[Len(s) + i] = t[i]
  OBVIOUS
<1>2. ASSUME ByebyeFirst(s, r), ByebyeFirst(t, r) \/ HasByebye(s, r)
      PROVE  ByebyeFirst(s \o t, r)
  <2> SUFFICES ASSUME NEW i \in 1..Len(s \o t), (s \o t)[i] = Alive(r)
               PROVE  \E j \in 1..(i-1) : (s \o t)[j] = Byebye(r)
    BY <1>1 DEF ByebyeFirst
  <2>1. CASE i <= Len(s)
    <3>1. PICK j \in 1..(i-1) : s[j] = Byebye(r)
      BY <1>1, <1>2, <2>1 DEF ByebyeFirst
    <3> QED
      BY <1>1, <2>1, <3>1
  <2>2. CASE i > Len(s) /\ HasByebye(s, r)
    <3>1. PICK j \in 1..Len(s) : s[j] = Byebye(r)
      BY <2>2 DEF HasByebye
    <3> QED
      BY <1>1, <2>2, <3>1
  <2>3. CASE i > Len(s) /\ ByebyeFirst(t, r)
    <3>1. i - Len(s) \in 1..Len(t) /\ t[i - Len(s)] = Alive(r)
      BY <1>1, <2>3
    <3>2. PICK j \in 1..(i - Len(s) - 1) : t[j] = Byebye(r)
      BY <2>3, <3>1 DEF ByebyeFirst
    <3>3. Len(s) + j \in 1..(i-1) /\ (s \o t)[Len(s) + j] = Byebye(r)
      BY <1>1, <3>1, <3>2
    <3> QED
      BY <3>3
  <2> QED
    BY <1>2, <2>1, <2>2, <2>3
<1>3. ASSUME HasByebye(s, r) PROVE HasByebye(s \o t, r)
  BY <1>1, <1>3 DEF HasByebye
<1>4. ASSUME HasByebye(t, r) PROVE HasByebye(s \o t, r)
  <2>1. PICK j \in 1..Len(t) : t[j] = Byebye(r)
    BY <1>4 DEF HasByebye
  <2>2. Len(s) + j \in DOMAIN (s \o t) /\ (s \o t)[Len(s) + j] = Byebye(r)
    BY <1>1, <2>1
  <2> QED
    BY <2>2 DEF HasByebye
<1> QED
  BY <1>2, <1>3, <1>4

\* Where a sequence is silent there is no alive to precede.
LEMMA SilentIsFirst ==
    ASSUME NEW ms, NEW r, Silent(ms, r)
    PROVE  ByebyeFirst(ms, r)
BY DEF Silent, ByebyeFirst, Announces, Alive, Msg

\* Sending the head of a sequence: a resource of which still nothing has been
\* said was not its subject, so the tail keeps what the sequence had.
LEMMA HeadIsOther ==
    ASSUME NEW ms \in Seq(Message), ms # <<>>, Transmit(<<Head(ms)>>),
           NEW r \in Ids, announced'[r] = "none"
    PROVE  /\ announced[r] = "none"
           /\ ByebyeFirst(ms, r) => ByebyeFirst(Tail(ms), r)
           /\ HasByebye(ms, r) => HasByebye(Tail(ms), r)
<1> DEFINE h == <<Head(ms)>>
           Said == \E k \in {"alive", "byebye"} : Says(h, r, k)
           Word == CHOOSE k \in {"alive", "byebye"} : Says(h, r, k)
<1>1. announced'[r] = IF Said THEN Word ELSE announced[r]
  BY DEF Transmit
<1>2. Said => Word \in {"alive", "byebye"}
  BY Zenon
<1>3. ~Said /\ announced[r] = "none"
  BY <1>1, <1>2
<1>4. h[1] = ms[1] /\ DOMAIN h = {1}
  BY HeadTailProperties
<1>5. ms[1] # Byebye(r)
  <2>1. ms[1] = Byebye(r) => Says(h, r, "byebye")
    BY <1>4 DEF Says, Byebye, Msg
  <2> QED
    BY <1>3, <2>1
<1>6. /\ Tail(ms) \in Seq(Message)
      /\ Len(Tail(ms)) = Len(ms) - 1
      /\ \A i \in 1..Len(Tail(ms)) : Tail(ms)[i] = ms[i + 1]
  BY HeadTailProperties
<1>7. ASSUME ByebyeFirst(ms, r) PROVE ByebyeFirst(Tail(ms), r)
  <2> SUFFICES ASSUME NEW i \in 1..Len(Tail(ms)), Tail(ms)[i] = Alive(r)
               PROVE  \E j \in 1..(i-1) : Tail(ms)[j] = Byebye(r)
    BY <1>6 DEF ByebyeFirst
  <2>1. i + 1 \in DOMAIN ms /\ ms[i + 1] = Alive(r)
    BY <1>6
  <2>2. PICK j \in 1..i : ms[j] = Byebye(r)
    BY <1>7, <2>1 DEF ByebyeFirst
  <2>3. j # 1
    BY <1>5, <2>2
  <2>4. j - 1 \in 1..(i-1) /\ Tail(ms)[j - 1] = ms[j]
    BY <1>6, <2>2, <2>3
  <2> QED
    BY <2>2, <2>4
<1>8. ASSUME HasByebye(ms, r) PROVE HasByebye(Tail(ms), r)
  <2>1. PICK j \in 1..Len(ms) : ms[j] = Byebye(r)
    BY <1>8 DEF HasByebye
  <2>2. j # 1
    BY <1>5, <2>1
  <2>3. j - 1 \in 1..Len(Tail(ms)) /\ Tail(ms)[j - 1] = ms[j]
    BY <1>6, <2>1, <2>2
  <2>4. j - 1 \in DOMAIN Tail(ms) /\ Tail(ms)[j - 1] = Byebye(r)
    BY <1>6, <2>1, <2>3
  <2> HIDE DEF h
  <2> QED
    BY <2>4, Zenon DEF HasByebye
<1> QED
  BY <1>3, <1>7, <1>8

-----------------------------------------------------------------------------
(* The invariant.                                                          *)

\* A step that queues ms keeps the byebyes first if, of every resource that
\* was not marked before, ms says byebye before alive, and if ms has a byebye
\* of every resource it marks.
LEMMA WordStep ==
    ASSUME WordInv, NEW ms \in Seq(Message), QueueMessages(ms), ~disposed,
           \A r \in Ids : r \in byebyeSent \/ ByebyeFirst(ms, r),
           \A r \in byebyeSent' : r \in Ids,
           \A r \in byebyeSent' : r \in byebyeSent \/ HasByebye(ms, r)
    PROVE  /\ \A r \in Ids : announced'[r] = "none" => ByebyeFirst(queue', r)
           /\ ByebyeIsWaiting'
<1> DEFINE all == queue \o ms
<1>1. queue \in Seq(Message) /\ QueueIsServed
  BY DEF WordInv, IInv, TypeOK
<1>2. all \in Seq(Message)
  BY <1>1
<1>3. ASSUME NEW r \in Ids, announced[r] = "none"
      PROVE  /\ ByebyeFirst(all, r)
             /\ r \in byebyeSent' => HasByebye(all, r)
  <2>1. ByebyeFirst(queue, r) /\ (r \in byebyeSent => HasByebye(queue, r))
    BY <1>3 DEF WordInv, ByebyeIsWaiting
  <2> QED
    BY <1>1, <2>1, ByebyeFirstConcat
<1> HIDE DEF all
<1>4. ASSUME NEW r \in Ids, announced'[r] = "none"
      PROVE  /\ ByebyeFirst(queue', r)
             /\ r \in byebyeSent' => HasByebye(queue', r)
  <2>1. CASE queue' = all /\ announced' = announced
    BY <1>3, <1>4, <2>1
  <2>2. CASE all # <<>> /\ queue' = Tail(all) /\ Transmit(<<Head(all)>>)
    BY <1>2, <1>3, <1>4, <2>2, HeadIsOther
  <2>3. ms = <<>> => all = queue
    BY <1>1 DEF all
  <2>4. ms # <<>> => all # <<>>
    BY <1>1 DEF all
  <2> QED
    BY <2>1, <2>2, <2>3, <2>4 DEF QueueMessages, TransmitNothing, all
<1> QED
  BY <1>4 DEF ByebyeIsWaiting

\* The byebyes of fresh resources, then alives: right for every resource.
LEMMA ByebyesLead ==
    ASSUME NEW F, F \subseteq Ids, NEW fresh \in ListsOf(F),
           NEW t \in Seq(Message)
    PROVE  /\ Byebyes(fresh) \in Seq(Message)
           /\ \A r \in F : HasByebye(Byebyes(fresh), r)
           /\ \A r \in F : ByebyeFirst(Byebyes(fresh) \o t, r)
           /\ \A r \in F : HasByebye(Byebyes(fresh) \o t, r)
<1> DEFINE b == Byebyes(fresh)
<1>0. -1 \in BootIds
  BY ConstantsAssumption DEF BootIds
<1>1. b \in Seq(Message)
  BY <1>0, RoundFacts DEF Byebyes
<1>2. /\ DOMAIN fresh = 1..Len(fresh)
      /\ \A r \in F : \E i \in 1..Len(fresh) : fresh[i] = r
  BY ListFacts
<1>3. b = [i \in 1..Len(fresh) |-> Byebye(fresh[i])]
  BY <1>2 DEF Byebyes, Round, Byebye, Msg
<1>4. ASSUME NEW r \in F PROVE HasByebye(b, r)
  BY <1>2, <1>3 DEF HasByebye
<1>5. ASSUME NEW r PROVE ByebyeFirst(b, r)
  BY <1>3 DEF ByebyeFirst, Byebye, Alive, Msg
<1> HIDE DEF b
<1> QED
  BY <1>1, <1>4, <1>5, ByebyeFirstConcat DEF b

LEMMA NextWordInv == WordInv /\ [Next]_vars => WordInv'
<1> SUFFICES ASSUME WordInv, [Next]_vars PROVE WordInv'
  OBVIOUS
<1> USE ConstantsAssumption
<1>0. IInv'
  BY NextIInv DEF WordInv
<1>i. /\ IInv /\ listed \subseteq Ids /\ -1 \in BootIds
      /\ byebyeSent \subseteq Ids /\ byebyeSent' \subseteq Ids
      /\ \A b \in 0..MaxBoot : b \in BootIds
      /\ queue \in Seq(Message)
      /\ available => listed \subseteq byebyeSent
  BY <1>0 DEF WordInv, IInv, TypeOK, Ids, BootIds, InitialByebyesDone
<1> DEFINE Words == /\ \A r \in Ids : announced[r] = "none"
                                        => ByebyeFirst(queue, r)
                    /\ ByebyeIsWaiting
<1>s. \A ms, r : Silent(ms, r) => ByebyeFirst(ms, r)
  BY SilentIsFirst
<1> SUFFICES Words'
  BY <1>0 DEF WordInv
<1>1. CASE MakeAvailable
  <2>1. PICK fresh \in ListsOf(listed \ byebyeSent), all \in ListsOf(listed) :
          QueueMessages(Byebyes(fresh) \o AnnouncementSet(Alives(all)))
    BY <1>1 DEF MakeAvailable, InitialAnnouncement
  <2> DEFINE a == AnnouncementSet(Alives(all))
             ms == Byebyes(fresh) \o a
  <2>2. /\ ms \in Seq(Message)
        /\ \A r : r \notin listed => Silent(ms, r)
    BY <1>i, MakeAvailableFacts
  <2>3. a \in Seq(Message)
    BY <1>i, AliveSetFacts
  <2>4. \A r \in listed \ byebyeSent : ByebyeFirst(ms, r) /\ HasByebye(ms, r)
    <3> HIDE DEF a
    <3> QED
      BY <1>i, <2>3, ByebyesLead
  <2> HIDE DEF ms
  <2>5. byebyeSent' = byebyeSent \cup listed /\ ~disposed
    BY <1>1 DEF MakeAvailable, Marked
  <2>6. QueueMessages(ms)
    BY <2>1 DEF ms
  <2> QED
    BY <1>i, <1>s, <2>2, <2>4, <2>5, <2>6, WordStep
<1>2. CASE MakeUnavailable
  <2>1. PICK all \in ListsOf(listed) : QueueMessages(AnnouncementSet(Byebyes(all)))
    BY <1>2 DEF MakeUnavailable
  <2> DEFINE ms == AnnouncementSet(Byebyes(all))
  <2>2. ms \in Seq(Message) /\ \A r : r \notin listed => Silent(ms, r)
    BY <1>i, ByebyeSetFacts
  <2> HIDE DEF ms
  <2>3. ~disposed /\ available /\ byebyeSent' = byebyeSent
    BY <1>2 DEF MakeUnavailable
  <2>4. QueueMessages(ms)
    BY <2>1 DEF ms
  <2> QED
    BY <1>i, <1>s, <2>2, <2>3, <2>4, WordStep
<1>3. CASE AddResource
  <2> DEFINE n == lastId + 1
             ms == IF available THEN <<Byebye(n), Alive(n)>> ELSE <<>>
  <2>1. /\ ~disposed /\ QueueMessages(ms) /\ lastId < MaxId
        /\ byebyeSent' = IF available THEN byebyeSent \cup {n} ELSE byebyeSent
    BY <1>3 DEF AddResource, FirstAnnouncement, Marked
  <2>2. n \in Ids
    BY <1>i, <2>1 DEF IInv, TypeOK, Ids
  <2>3. ms \in Seq(Message) /\ \A q : q # n => Silent(ms, q)
    <3>1. CASE available
      BY <2>2, <3>1, ByebyeAliveFacts
    <3>2. CASE ~available
      BY <3>2 DEF Silent
    <3> QED
      BY <3>1, <3>2
  <2>4. ByebyeFirst(ms, n)
    <3>1. CASE available
      <4>1. ms[1] = Byebye(n) /\ DOMAIN ms = 1..2
        BY <3>1
      <4>2. ms[1] # Alive(n)
        BY <4>1 DEF Byebye, Alive, Msg
      <4> QED
        BY <4>1, <4>2 DEF ByebyeFirst
    <3>2. CASE ~available
      BY <3>2 DEF ByebyeFirst
    <3> QED
      BY <3>1, <3>2
  <2>5. available => HasByebye(ms, n)
    <3> SUFFICES ASSUME available PROVE 1 \in DOMAIN ms /\ ms[1] = Byebye(n)
      BY DEF HasByebye
    <3> QED
      OBVIOUS
  <2> HIDE DEF ms
  <2> QED
    BY <1>i, <1>s, <2>1, <2>3, <2>4, <2>5, WordStep
<1>4. CASE RefuseResource
  <2> DEFINE ms == IF available THEN <<Byebye(0)>> ELSE <<>>
  <2>1. ~disposed /\ QueueMessages(ms) /\ byebyeSent' = byebyeSent
    BY <1>4 DEF RefuseResource, LastWords, groupVars
  <2>2. ms \in Seq(Message) /\ \A q \in Ids : Silent(ms, q)
    <3>1. CASE available
      BY <3>1, ByebyeFacts DEF Ids
    <3>2. CASE ~available
      BY <3>2 DEF Silent
    <3> QED
      BY <3>1, <3>2
  <2> HIDE DEF ms
  <2> QED
    BY <1>i, <1>s, <2>1, <2>2, WordStep
<1>5. ASSUME NEW r \in Ids, RemoveResource(r) PROVE Words'
  <2> DEFINE ms == IF available THEN <<Byebye(r)>> ELSE <<>>
  <2>1. /\ ~disposed /\ r \in listed /\ QueueMessages(ms)
        /\ byebyeSent' = byebyeSent
    BY <1>5 DEF RemoveResource, LastWords
  <2>2. ms \in Seq(Message) /\ \A q : q # r \/ ~available => Silent(ms, q)
    <3>1. CASE available
      <4>1. r \in 0..MaxId
        BY DEF Ids
      <4> QED
        BY <3>1, <4>1, ByebyeFacts
    <3>2. CASE ~available
      BY <3>2 DEF Silent
    <3> QED
      BY <3>1, <3>2
  <2> HIDE DEF ms
  <2> QED
    BY <1>i, <1>s, <2>1, <2>2, WordStep
<1>6. ASSUME NEW next \in 0..MaxBoot, Update(next) PROVE Words'
  <2>1. ~disposed /\ byebyeSent' = byebyeSent
    BY <1>6 DEF Update, groupVars
  <2>2. PICK ms \in Seq(Message) :
          /\ QueueMessages(ms)
          /\ \A r : r \notin listed \/ ~available => Silent(ms, r)
    <3>1. CASE available
      <4>1. PICK all \in ListsOf(listed) :
              QueueMessages(AnnouncementSet(Updates(next, all))
                              \o AnnouncementSet(Alives(all)))
        BY <1>6, <3>1 DEF Update
      <4> QED
        BY <1>i, <3>1, <4>1, UpdateFacts
    <3>2. CASE ~available
      <4>1. QueueMessages(<<>>)
        BY <1>6, <3>2 DEF Update
      <4>2. <<>> \in Seq(Message) /\ \A r : Silent(<<>>, r)
        BY DEF Silent
      <4> QED
        BY <3>2, <4>1, <4>2
    <3> QED
      BY <3>1, <3>2
  <2> QED
    BY <1>i, <1>s, <2>1, <2>2, WordStep
<1>7. CASE Dispose
  <2>1. queue' = <<>> /\ disposed'
    BY <1>7 DEF Dispose
  <2> QED
    BY <2>1 DEF ByebyeIsWaiting, ByebyeFirst
<1>8. ASSUME NEW pairs, Answer(pairs) PROVE Words'
  <2>1. UNCHANGED <<announced, queue, byebyeSent, disposed>>
    BY <1>8 DEF Answer, TransmitNothing, groupVars
  <2> QED
    BY <2>1 DEF WordInv, ByebyeIsWaiting
<1>9. CASE Reannounce
  <2>1. PICK all \in ListsOf(listed) : QueueMessages(AnnouncementSet(Alives(all)))
    BY <1>9 DEF Reannounce
  <2> DEFINE ms == AnnouncementSet(Alives(all))
  <2>2. ms \in Seq(Message) /\ \A r : r \notin listed => Silent(ms, r)
    BY <1>i, AliveSetFacts
  <2> HIDE DEF ms
  <2>3. ~disposed /\ byebyeSent' = byebyeSent /\ timeoutSources > 0
    BY <1>9 DEF Reannounce, groupVars
  <2>4. QueueMessages(ms) /\ available
    BY <1>i, <2>1, <2>3 DEF ms, IInv, TimersMatchState
  <2> QED
    BY <1>i, <1>s, <2>2, <2>3, <2>4, WordStep
<1>10. ASSUME NEW r \in Ids, NEW t \in Targets, SendResponse(r, t) PROVE Words'
  <2> DEFINE ms == <<Msg("response", r)>>
  <2>1. Transmit(ms) /\ UNCHANGED <<queue, byebyeSent, disposed>>
    BY <1>10 DEF SendResponse, groupVars
  <2>2. ms \in Seq(Sendable)
    BY <1>i DEF Msg, Sendable, Ids
  <2>3. \A q : Silent(ms, q)
    BY DEF Silent, Announces, Msg
  <2> HIDE DEF ms
  <2>4. \A q \in Ids : announced'[q] = announced[q]
    BY <1>i, <2>1, <2>2, <2>3, TransmitFacts DEF IInv, TypeOK, Told
  <2> QED
    BY <1>i, <2>1, <2>4 DEF WordInv, ByebyeIsWaiting
<1>11. CASE ProcessQueue
  <2>1. UNCHANGED <<byebyeSent, disposed>>
    BY <1>11 DEF ProcessQueue, groupVars
  <2>2. CASE queue = <<>>
    <3>1. UNCHANGED <<announced, queue>>
      BY <1>11, <2>2 DEF ProcessQueue, TransmitNothing
    <3> QED
      BY <2>1, <3>1 DEF WordInv, ByebyeIsWaiting
  <2>3. CASE queue # <<>>
    <3>1. Transmit(<<Head(queue)>>) /\ queue' = Tail(queue)
      BY <1>11, <2>3 DEF ProcessQueue
    <3>2. ASSUME NEW r \in Ids, announced'[r] = "none"
          PROVE  /\ ByebyeFirst(queue', r)
                 /\ ~disposed /\ r \in byebyeSent => HasByebye(queue', r)
      <4>1. /\ announced[r] = "none"
            /\ ByebyeFirst(queue, r) => ByebyeFirst(Tail(queue), r)
            /\ HasByebye(queue, r) => HasByebye(Tail(queue), r)
        BY <1>i, <2>3, <3>1, <3>2, HeadIsOther
      <4> QED
        BY <3>1, <4>1 DEF WordInv, ByebyeIsWaiting
    <3> QED
      BY <1>i, <2>1, <3>2 DEF ByebyeIsWaiting
  <2> QED
    BY <2>2, <2>3
<1>12. CASE UNCHANGED vars
  <2>1. UNCHANGED <<announced, queue, byebyeSent, disposed>>
    BY <1>12 DEF vars, groupVars, outVars
  <2> QED
    BY <2>1 DEF WordInv, ByebyeIsWaiting
<1> QED
  BY <1>1, <1>2, <1>3, <1>4, <1>5, <1>6, <1>7, <1>8, <1>9, <1>10, <1>11, <1>12
  DEF Next, Application, Network, Timers, SearchFor, SearchAll

-----------------------------------------------------------------------------
(* Theorems.                                                               *)

\* Every listed resource of an available group has had its initial byebye.
THEOREM ByebyesDone == Spec => []InitialByebyesDone
<1>1. IInv => InitialByebyesDone
  BY DEF IInv
<1> QED
  BY <1>1, Invariance, PTL

LEMMA InitWordInv == Init => WordInv
<1> SUFFICES ASSUME Init PROVE WordInv
  OBVIOUS
<1>1. queue = <<>> /\ byebyeSent = {}
  BY DEF Init
<1> QED
  BY <1>1, InitIInv DEF WordInv, ByebyeIsWaiting, ByebyeFirst

LEMMA WordInvSays == WordInv => FirstWordIsByebye
BY DEF WordInv, FirstWordIsByebye, ByebyeFirst

\* The first the network hears of a resource is its byebye, whatever the queue
\* held when the resource was added or the group became available.
THEOREM FirstWord == Spec => []FirstWordIsByebye
BY InitWordInv, NextWordInv, WordInvSays, PTL DEF Spec

\* An announcement set of one kind holds nothing else.
LEMMA AnnouncementSetKind ==
    ASSUME NEW S, S \subseteq Ids, NEW l \in ListsOf(S),
           NEW kind \in {"alive", "byebye", "update"}, NEW next \in BootIds
    PROVE  \A i \in DOMAIN AnnouncementSet(Round(kind, next, l)) :
             AnnouncementSet(Round(kind, next, l))[i].kind = kind
<1> DEFINE rd == Round(kind, next, l)
<1>1. rd \in Seq(Message) /\ \A i \in DOMAIN rd : rd[i].kind = kind
  BY RoundFacts
<1> HIDE DEF rd
<1>2. /\ rd \o rd \in Seq(Message)
      /\ \A i \in DOMAIN (rd \o rd) : (rd \o rd)[i].kind = kind
  BY <1>1
<1> DEFINE two == rd \o rd
<1> HIDE DEF two
<1>3. two \o rd \in Seq(Message)
      /\ \A i \in DOMAIN (two \o rd) : (two \o rd)[i].kind = kind
  BY <1>1, <1>2 DEF two
<1>4. AnnouncementSet(rd) = two \o rd
  BY <1>1 DEF AnnouncementSet, two
<1> QED
  BY <1>3, <1>4 DEF rd

\* A group that becomes available queues all its byebyes before its alives.
THEOREM ByebyesGrouped == Spec => ByebyesComeGrouped
<1> DEFINE Grouped(out) ==
             \A i, j \in DOMAIN out :
               Len(queue) < i /\ i < j =>
                 ~(out[i].kind = "alive" /\ out[j].kind = "byebye")
           A == ~available /\ available' => Grouped(wire' \o queue')
<1>1. IInv /\ [Next]_vars => [A]_vars
  <2> SUFFICES ASSUME IInv, Next, ~available, available'
               PROVE  Grouped(wire' \o queue')
    OBVIOUS
  <2> USE ConstantsAssumption
  <2>1. MakeAvailable
    BY DEF Next, Application, Network, Timers, MakeUnavailable, AddResource,
           RefuseResource, RemoveResource, Update, Dispose, Reannounce,
           SearchFor, SearchAll, Answer, SendResponse, ProcessQueue, groupVars
  <2>2. PICK fresh \in ListsOf(listed \ byebyeSent), all \in ListsOf(listed) :
          QueueMessages(Byebyes(fresh) \o AnnouncementSet(Alives(all)))
    BY <2>1 DEF MakeAvailable, InitialAnnouncement
  <2> DEFINE b == Byebyes(fresh)
             a == AnnouncementSet(Alives(all))
             ms == b \o a
  <2>3. listed \subseteq Ids /\ -1 \in BootIds /\ queue \in Seq(Message)
        /\ QueueIsServed
    BY DEF IInv, TypeOK, Ids, BootIds
  <2>4. b \in Seq(Message) /\ \A i \in DOMAIN b : b[i].kind = "byebye"
    <3>1. listed \ byebyeSent \subseteq Ids
      BY <2>3
    <3>2. b \in Seq(Message)
      BY <2>3, <3>1, RoundFacts DEF Byebyes
    <3>3. \A i \in DOMAIN b : b[i].kind = "byebye"
      BY <2>3, <3>1, RoundFacts DEF Byebyes
    <3> QED
      BY <3>2, <3>3
  <2>5. a \in Seq(Message)
    BY <2>3, AliveSetFacts
  <2>6. \A i \in DOMAIN a : a[i].kind = "alive"
    BY <2>3, AnnouncementSetKind DEF Alives
  <2> HIDE DEF a, b
  <2>7. /\ ms \in Seq(Message)
        /\ \A i, j \in DOMAIN ms :
             i < j => ~(ms[i].kind = "alive" /\ ms[j].kind = "byebye")
    BY <2>4, <2>5, <2>6
  <2> HIDE DEF ms
  <2>8. QueueMessages(ms)
    BY <2>2 DEF a, b, ms
  <2>9. CASE ms = <<>> \/ messageSrc
    <3>1. wire' = <<>> /\ queue' = queue \o ms
      BY <2>3, <2>8, <2>9 DEF QueueMessages, TransmitNothing
    <3>2. wire' \o queue' = queue \o ms
      BY <2>3, <2>7, <3>1
    <3>3. Grouped(queue \o ms)
      <4> SUFFICES ASSUME NEW i \in DOMAIN (queue \o ms),
                          NEW j \in DOMAIN (queue \o ms),
                          Len(queue) < i, i < j
                   PROVE  ~((queue \o ms)[i].kind = "alive"
                              /\ (queue \o ms)[j].kind = "byebye")
        OBVIOUS
      <4>1. /\ i - Len(queue) \in DOMAIN ms /\ j - Len(queue) \in DOMAIN ms
            /\ i - Len(queue) < j - Len(queue)
            /\ (queue \o ms)[i] = ms[i - Len(queue)]
            /\ (queue \o ms)[j] = ms[j - Len(queue)]
        BY <2>3, <2>7
      <4> QED
        BY <2>7, <4>1
    <3> QED
      BY <3>2, <3>3
  <2>10. CASE ms # <<>> /\ ~messageSrc
    <3>1. queue = <<>> /\ queue \o ms = ms
      BY <2>3, <2>7, <2>10 DEF QueueIsServed
    <3>2. /\ queue' = Tail(ms)
          /\ Transmit(<<Head(ms)>>)
      BY <2>8, <2>10, <3>1 DEF QueueMessages
    <3> DEFINE h == [kind |-> Head(ms).kind, id |-> Head(ms).id,
                     next |-> Head(ms).next, boot |-> bootId]
    <3>3. wire' = <<h>>
      BY <3>2 DEF Transmit
    <3>4. /\ Tail(ms) \in Seq(Message) /\ Len(Tail(ms)) = Len(ms) - 1
          /\ \A i \in 1..Len(Tail(ms)) : Tail(ms)[i] = ms[i + 1]
          /\ h.kind = ms[1].kind
      BY <2>7, <2>10, HeadTailProperties
    <3> HIDE DEF h
    <3>5. /\ DOMAIN (<<h>> \o Tail(ms)) = DOMAIN ms
          /\ \A i \in DOMAIN ms : (<<h>> \o Tail(ms))[i].kind = ms[i].kind
      <4>1. Len(ms) \in Nat \ {0} /\ DOMAIN ms = 1..Len(ms)
        BY <2>7, <2>10
      <4> DEFINE t == Tail(ms)
      <4> HIDE DEF t
      <4>2. DOMAIN (<<h>> \o t) = 1..Len(ms)
        BY <3>4, <4>1 DEF t
      <4>3. ASSUME NEW i \in 1..Len(ms)
            PROVE  (<<h>> \o t)[i] = IF i = 1 THEN h ELSE t[i - 1]
        BY <3>4, <4>1 DEF t
      <4>4. ASSUME NEW i \in 1..Len(ms), i # 1
            PROVE  t[i - 1] = ms[i]
        <5>1. i - 1 \in 1..Len(t) /\ (i - 1) + 1 = i
          BY <3>4, <4>1, <4>4 DEF t
        <5> QED
          BY <3>4, <5>1 DEF t
      <4> QED
        BY <3>4, <4>1, <4>2, <4>3, <4>4 DEF t
    <3> QED
      BY <2>7, <3>2, <3>3, <3>5
  <2> QED
    BY <2>9, <2>10
<1> QED
  BY <1>1, Invariance, PTL DEF Spec, ByebyesComeGrouped

=============================================================================
