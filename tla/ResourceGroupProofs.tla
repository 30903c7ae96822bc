------------------------- MODULE ResourceGroupProofs -------------------------
(***************************************************************************)
(* Theorems about ResourceGroup, for every value of its constants.         *)
(***************************************************************************)
EXTENDS ResourceGroup, FiniteSetTheorems, SequenceTheorems, TLAPS

-----------------------------------------------------------------------------
(* Lists and rounds.                                                       *)

\* The list of a set of resources is a sequence of exactly its members.
LEMMA ListFacts ==
    ASSUME NEW S, S \subseteq Ids, NEW l \in ListsOf(S)
    PROVE  /\ Len(l) \in Nat
           /\ DOMAIN l = 1..Len(l)
           /\ \A i \in 1..Len(l) : l[i] \in S
           /\ \A r \in S : \E i \in 1..Len(l) : l[i] = r
           /\ \A i, j \in 1..Len(l) : i < j => l[i] # l[j]
<1>1. IsFiniteSet(Ids)
  BY ConstantsAssumption, FS_Interval DEF Ids
<1>2. Cardinality(S) \in Nat
  BY <1>1, FS_Subset, FS_CardinalityType
<1>3. /\ l \in [1..Cardinality(S) -> S]
      /\ \A r \in S : \E i \in DOMAIN l : l[i] = r
      /\ \A i, j \in DOMAIN l : i < j => l[i] > l[j]
  BY DEF ListsOf
<1>4. l \in Seq(S)
  BY <1>2, <1>3
<1>5. Len(l) \in Nat /\ DOMAIN l = 1..Len(l)
  BY <1>4, LenProperties
<1>6. ASSUME NEW i \in 1..Len(l), NEW j \in 1..Len(l), i < j
      PROVE  l[i] # l[j]
  <2>1. l[i] > l[j] /\ l[i] \in 1..MaxId
    BY <1>3, <1>5, <1>6 DEF Ids
  <2> QED
    BY <2>1, ConstantsAssumption
<1>7. QED
  BY <1>3, <1>5, <1>6

\* A round over a list says its kind of every member and nothing else.
LEMMA RoundFacts ==
    ASSUME NEW S, S \subseteq Ids, NEW l \in ListsOf(S),
           NEW kind \in {"alive", "byebye", "update"}, NEW next \in BootIds
    PROVE  /\ Round(kind, next, l) \in Seq(Message)
           /\ \A i \in DOMAIN Round(kind, next, l) :
                /\ Round(kind, next, l)[i].kind = kind
                /\ Round(kind, next, l)[i].id \in S
           /\ \A r \in S : \E i \in DOMAIN Round(kind, next, l) :
                Round(kind, next, l)[i].id = r
           /\ \A i, j \in DOMAIN Round(kind, next, l) :
                i < j => Round(kind, next, l)[i].id # Round(kind, next, l)[j].id
<1> DEFINE rd == Round(kind, next, l)
<1>1. /\ Len(l) \in Nat
      /\ DOMAIN l = 1..Len(l)
      /\ \A i \in 1..Len(l) : l[i] \in S
      /\ \A r \in S : \E i \in 1..Len(l) : l[i] = r
      /\ \A i, j \in 1..Len(l) : i < j => l[i] # l[j]
  BY ListFacts
<1>2. rd = [i \in 1..Len(l) |-> [kind |-> kind, id |-> l[i], next |-> next]]
  BY <1>1 DEF Round
<1>3. \A i \in 1..Len(l) :
         [kind |-> kind, id |-> l[i], next |-> next] \in Message
  <2>1. ASSUME NEW i \in 1..Len(l) PROVE l[i] \in 0..MaxId
    <3>1. l[i] \in Ids
      BY <1>1
    <3> QED
      BY <3>1, ConstantsAssumption DEF Ids
  <2> QED
    BY <2>1 DEF Message
<1>4. rd \in Seq(Message)
  BY <1>1, <1>2, <1>3
<1> QED
  BY <1>1, <1>2, <1>4

-----------------------------------------------------------------------------
(* What a sequence of messages says.                                       *)

\* The last word is one word.
LEMMA SaysOne ==
    ASSUME NEW T, NEW ms \in Seq(T), NEW r, Says(ms, r, "alive"),
           Says(ms, r, "byebye")
    PROVE  FALSE
<1>1. PICK i \in DOMAIN ms :
        /\ ms[i].id = r /\ ms[i].kind = "alive"
        /\ \A j \in DOMAIN ms : j > i => ~Announces(ms[j], r)
  BY DEF Says
<1>2. PICK j \in DOMAIN ms :
        /\ ms[j].id = r /\ ms[j].kind = "byebye"
        /\ \A k \in DOMAIN ms : k > j => ~Announces(ms[k], r)
  BY DEF Says
<1> QED
  BY <1>1, <1>2 DEF Announces

\* What the second of two sequences says, their concatenation says; where the
\* second is silent, it says what the first does.
LEMMA SaysConcat ==
    ASSUME NEW T, NEW s \in Seq(T), NEW t \in Seq(T), NEW r,
           NEW k \in {"alive", "byebye"}
    PROVE  /\ Says(t, r, k) => Says(s \o t, r, k)
           /\ Silent(t, r) /\ Says(s, r, k) => Says(s \o t, r, k)
           /\ Silent(t, r) /\ Silent(s, r) => Silent(s \o t, r)
<1>1. ASSUME Says(t, r, k) PROVE Says(s \o t, r, k)
  <2>1. PICK i \in DOMAIN t :
          /\ t[i].id = r /\ t[i].kind = k
          /\ \A j \in DOMAIN t : j > i => ~Announces(t[j], r)
    BY <1>1 DEF Says
  <2>2. /\ Len(s) + i \in DOMAIN (s \o t)
        /\ (s \o t)[Len(s) + i] = t[i]
    BY <2>1
  <2>3. ASSUME NEW j \in DOMAIN (s \o t), j > Len(s) + i
        PROVE  ~Announces((s \o t)[j], r)
    <3>1. /\ j - Len(s) \in DOMAIN t
          /\ j - Len(s) > i
          /\ (s \o t)[j] = t[j - Len(s)]
      BY <2>3, <2>1
    <3> QED BY <3>1, <2>1
  <2> QED BY <2>1, <2>2, <2>3 DEF Says
<1>2. ASSUME Silent(t, r), Says(s, r, k) PROVE Says(s \o t, r, k)
  <2>1. PICK i \in DOMAIN s :
          /\ s[i].id = r /\ s[i].kind = k
          /\ \A j \in DOMAIN s : j > i => ~Announces(s[j], r)
    BY <1>2 DEF Says
  <2>2. i \in DOMAIN (s \o t) /\ (s \o t)[i] = s[i]
    BY <2>1
  <2>3. ASSUME NEW j \in DOMAIN (s \o t), j > i
        PROVE  ~Announces((s \o t)[j], r)
    <3>1. CASE j \in DOMAIN s
      BY <3>1, <2>1, <2>3
    <3>2. CASE j \notin DOMAIN s
      <4>1. j - Len(s) \in DOMAIN t /\ (s \o t)[j] = t[j - Len(s)]
        BY <3>2, <2>3
      <4> QED BY <4>1, <1>2 DEF Silent
    <3> QED BY <3>1, <3>2
  <2> QED BY <2>1, <2>2, <2>3 DEF Says
<1>3. ASSUME Silent(t, r), Silent(s, r) PROVE Silent(s \o t, r)
  <2>1. ASSUME NEW j \in DOMAIN (s \o t) PROVE ~Announces((s \o t)[j], r)
    <3>1. CASE j \in DOMAIN s
      BY <3>1, <2>1, <1>3 DEF Silent
    <3>2. CASE j \notin DOMAIN s
      <4>1. j - Len(s) \in DOMAIN t /\ (s \o t)[j] = t[j - Len(s)]
        BY <3>2, <2>1
      <4> QED BY <4>1, <1>3 DEF Silent
    <3> QED BY <3>1, <3>2
  <2> QED BY <2>1 DEF Silent
<1> QED BY <1>1, <1>2, <1>3

\* An announcement set of one kind: type, and what it says.
LEMMA AnnouncementSetFacts ==
    ASSUME NEW S, S \subseteq Ids, NEW l \in ListsOf(S),
           NEW kind \in {"alive", "byebye", "update"}, NEW next \in BootIds
    PROVE  LET ms == AnnouncementSet(Round(kind, next, l))
           IN  /\ ms \in Seq(Message)
               /\ kind # "update" =>
                    /\ \A r \in S : Says(ms, r, kind)
                    /\ \A r : r \notin S => Silent(ms, r)
               /\ kind = "update" => \A r : Silent(ms, r)
<1> DEFINE rd == Round(kind, next, l)
           ms == rd \o rd \o rd
<1>1. /\ rd \in Seq(Message)
      /\ \A i \in DOMAIN rd : rd[i].kind = kind /\ rd[i].id \in S
      /\ \A r \in S : \E i \in DOMAIN rd : rd[i].id = r
      /\ \A i, j \in DOMAIN rd : i < j => rd[i].id # rd[j].id
  <2> USE RoundFacts
  <2>1. rd \in Seq(Message)
    OBVIOUS
  <2>2. \A i \in DOMAIN rd : rd[i].kind = kind /\ rd[i].id \in S
    OBVIOUS
  <2>3. \A r \in S : \E i \in DOMAIN rd : rd[i].id = r
    OBVIOUS
  <2>4. \A i, j \in DOMAIN rd : i < j => rd[i].id # rd[j].id
    OBVIOUS
  <2> QED BY <2>1, <2>2, <2>3, <2>4
<1> HIDE DEF rd
<1>2. /\ ms \in Seq(Message)
      /\ Len(ms) = Len(rd) + Len(rd) + Len(rd)
  BY <1>1
<1>3. \A i \in DOMAIN ms : \E j \in DOMAIN rd : ms[i] = rd[j]
  <2> TAKE i \in DOMAIN ms
  <2>1. CASE i <= Len(rd)
    BY <2>1, <1>1
  <2>2. CASE i > Len(rd) /\ i <= Len(rd) + Len(rd)
    <3>1. ms[i] = rd[i - Len(rd)] /\ i - Len(rd) \in DOMAIN rd
      BY <2>2, <1>1
    <3> QED BY <3>1
  <2>3. CASE i > Len(rd) + Len(rd)
    <3>1. ms[i] = rd[i - (Len(rd) + Len(rd))] /\ i - (Len(rd) + Len(rd)) \in DOMAIN rd
      BY <2>3, <1>1
    <3> QED BY <3>1
  <2> QED BY <2>1, <2>2, <2>3, <1>1
<1>4. ASSUME NEW r, kind = "update" \/ r \notin S
      PROVE  Silent(ms, r)
  BY <1>1, <1>3, <1>4 DEF Silent, Announces
<1>5. ASSUME NEW r \in S, kind # "update" PROVE Says(ms, r, kind)
  <2>1. Says(rd, r, kind)
    <3>1. PICK i \in DOMAIN rd : rd[i].id = r
      BY <1>1
    <3>2. \A j \in DOMAIN rd : j > i => ~Announces(rd[j], r)
      BY <3>1, <1>1 DEF Announces
    <3> QED BY <3>1, <3>2, <1>1 DEF Says
  <2>2. Says(rd \o rd, r, kind)
    BY <2>1, <1>1, <1>5, SaysConcat
  <2>3. rd \o rd \in Seq(Message)
    BY <1>1
  <2>4. \A s, t \in Seq(Message) : Says(t, r, kind) => Says(s \o t, r, kind)
    BY <1>5, SaysConcat
  <2> QED BY <2>1, <2>3, <2>4, <1>1
<1> QED
  <2>1. AnnouncementSet(Round(kind, next, l)) = ms
    BY DEF AnnouncementSet, rd
  <2> QED BY <2>1, <1>2, <1>4, <1>5

-----------------------------------------------------------------------------
(* Sending.                                                                *)

Sendable == [kind : {"alive", "byebye", "update", "response"},
             id : 0..MaxId, next : BootIds]

Told == [Ids -> {"none", "alive", "byebye"}]

\* What is transmitted is well typed; the history records the last word on
\* every resource it speaks of and keeps it for the others.
LEMMA TransmitFacts ==
    ASSUME NEW ms \in Seq(Sendable), Transmit(ms), bootId \in BootIds,
           announced \in Told
    PROVE  /\ wire' \in Seq(WireMessage)
           /\ announced' \in Told
           /\ \A r \in Ids : Silent(ms, r) => announced'[r] = announced[r]
           /\ \A r \in Ids : Says(ms, r, "byebye") => announced'[r] = "byebye"
           /\ \A r \in Ids : Says(ms, r, "alive") => announced'[r] = "alive"
<1> DEFINE Said(r) == \E k \in {"alive", "byebye"} : Says(ms, r, k)
           Word(r) == CHOOSE k \in {"alive", "byebye"} : Says(ms, r, k)
<1>1. wire' \in Seq(WireMessage)
  <2>1. \A i \in DOMAIN ms :
          [kind |-> ms[i].kind, id |-> ms[i].id, next |-> ms[i].next,
           boot |-> bootId] \in WireMessage
    <3>1. \A i \in DOMAIN ms : ms[i] \in Sendable
      OBVIOUS
    <3> QED BY <3>1 DEF Sendable, WireMessage
  <2> QED BY <2>1 DEF Transmit
<1>2. announced' = [r \in Ids |-> IF Said(r) THEN Word(r) ELSE announced[r]]
  BY DEF Transmit
<1>3. ASSUME NEW r \in Ids, Said(r)
      PROVE  Word(r) \in {"alive", "byebye"} /\ Says(ms, r, Word(r))
  BY <1>3, Zenon
<1>4. ASSUME NEW r \in Ids, Silent(ms, r) PROVE ~Said(r)
  BY <1>4 DEF Says, Silent, Announces
<1>5. ASSUME NEW r \in Ids PROVE ~(Says(ms, r, "alive") /\ Says(ms, r, "byebye"))
  BY SaysOne
<1> HIDE DEF Word, Said
<1>6. announced' \in Told
  BY <1>2, <1>3 DEF Told
<1>7. ASSUME NEW r \in Ids, NEW k \in {"alive", "byebye"}, Says(ms, r, k)
      PROVE  announced'[r] = k
  <2>1. Said(r)
    BY <1>7 DEF Said
  <2> QED BY <2>1, <1>2, <1>3, <1>5, <1>7
<1> QED BY <1>1, <1>2, <1>4, <1>6, <1>7

\* Sending the head of a sequence and keeping the tail promises of every
\* resource what the sequence did, or where it was silent what was sent last.
LEMMA SendHead ==
    ASSUME NEW ms \in Seq(Message), ms # <<>>,
           Transmit(<<Head(ms)>>), queue' = Tail(ms),
           bootId \in BootIds, announced \in Told
    PROVE  /\ wire' \in Seq(WireMessage)
           /\ announced' \in Told
           /\ queue' \in Seq(Message)
           /\ \A r \in Ids : \A k \in {"alive", "byebye"} :
                Says(ms, r, k) => Promised(r, k)'
           /\ \A r \in Ids : \A k \in {"none", "alive", "byebye"} :
                Silent(ms, r) /\ announced[r] = k => Promised(r, k)'
<1> DEFINE h == <<Head(ms)>>
<1>1. Head(ms) \in Message /\ Head(ms) = ms[1]
  BY HeadTailProperties
<1>2. h \in Seq(Sendable)
  BY <1>1 DEF Message, Sendable
<1>3. /\ wire' \in Seq(WireMessage)
      /\ announced' \in Told
      /\ \A r \in Ids : Silent(h, r) => announced'[r] = announced[r]
      /\ \A r \in Ids : Says(h, r, "byebye") => announced'[r] = "byebye"
      /\ \A r \in Ids : Says(h, r, "alive") => announced'[r] = "alive"
  BY <1>2, TransmitFacts
<1>4. /\ Tail(ms) \in Seq(Message)
      /\ Len(Tail(ms)) = Len(ms) - 1
      /\ \A i \in 1..Len(Tail(ms)) : Tail(ms)[i] = ms[i + 1]
  BY HeadTailProperties
<1>5. \A r : Silent(h, r) <=> ~Announces(ms[1], r)
  BY <1>1 DEF Silent
<1>6. \A r, k : Says(h, r, k) <=> ms[1].id = r /\ ms[1].kind = k
  BY <1>1 DEF Says
<1>7. ASSUME NEW r \in Ids, NEW k \in {"alive", "byebye"}, Says(ms, r, k)
      PROVE  Promised(r, k)'
  <2>1. PICK i \in DOMAIN ms :
          /\ ms[i].id = r /\ ms[i].kind = k
          /\ \A j \in DOMAIN ms : j > i => ~Announces(ms[j], r)
    BY <1>7 DEF Says
  <2>2. CASE i = 1
    <3>1. Silent(Tail(ms), r)
      <4> SUFFICES ASSUME NEW j \in DOMAIN Tail(ms)
                   PROVE  ~Announces(Tail(ms)[j], r)
        BY DEF Silent
      <4>1. j + 1 \in DOMAIN ms /\ j + 1 > 1 /\ Tail(ms)[j] = ms[j + 1]
        BY <1>4
      <4> QED BY <4>1, <2>1, <2>2
    <3>2. announced'[r] = k
      BY <2>1, <2>2, <1>3, <1>6
    <3> QED BY <3>1, <3>2 DEF Promised
  <2>3. CASE i # 1
    <3>1. i - 1 \in DOMAIN Tail(ms) /\ Tail(ms)[i - 1] = ms[i]
      BY <2>3, <1>4
    <3>2. \A j \in DOMAIN Tail(ms) : j > i - 1 => ~Announces(Tail(ms)[j], r)
      BY <1>4, <2>1
    <3>3. Says(Tail(ms), r, k)
      BY <3>1, <3>2, <2>1 DEF Says
    <3> QED BY <3>3 DEF Promised
  <2> QED BY <2>2, <2>3
<1>8. ASSUME NEW r \in Ids, Silent(ms, r)
      PROVE  Silent(Tail(ms), r) /\ announced'[r] = announced[r]
  <2>1. ~Announces(ms[1], r)
    BY <1>8 DEF Silent
  <2>2. Silent(Tail(ms), r)
    BY <1>8, <1>4 DEF Silent
  <2> QED BY <2>1, <2>2, <1>3, <1>5
<1> QED BY <1>3, <1>4, <1>7, <1>8 DEF Promised

\* queue_message keeps the queue typed and served; of every resource the
\* messages speak of it promises what they say, and of the others what it did.
LEMMA QueueMessagesFacts ==
    ASSUME NEW ms \in Seq(Message), QueueMessages(ms),
           queue \in Seq(Message), messageSrc \in BOOLEAN, QueueIsServed,
           bootId \in BootIds, announced \in Told
    PROVE  /\ wire' \in Seq(WireMessage)
           /\ announced' \in Told
           /\ queue' \in Seq(Message)
           /\ messageSrc' \in BOOLEAN
           /\ QueueIsServed'
           /\ \A r \in Ids : \A k \in {"alive", "byebye"} :
                Says(ms, r, k) => Promised(r, k)'
           /\ \A r \in Ids : \A k \in {"none", "alive", "byebye"} :
                Silent(ms, r) /\ Promised(r, k) => Promised(r, k)'
<1>1. CASE ms = <<>>
  <2>1. /\ wire' = <<>> /\ announced' = announced
        /\ queue' = queue /\ messageSrc' = messageSrc
    BY <1>1 DEF QueueMessages, TransmitNothing
  <2>2. \A r, k : ~Says(ms, r, k)
    BY <1>1 DEF Says
  <2> QED BY <2>1, <2>2 DEF QueueIsServed, Promised
<1>2. CASE ms # <<>> /\ messageSrc
  <2>1. /\ wire' = <<>> /\ announced' = announced
        /\ queue' = queue \o ms /\ messageSrc' = messageSrc
    BY <1>2 DEF QueueMessages, TransmitNothing
  <2>2. \A r : \A k \in {"alive", "byebye"} :
          /\ Says(ms, r, k) => Says(queue \o ms, r, k)
          /\ Silent(ms, r) /\ Says(queue, r, k) => Says(queue \o ms, r, k)
          /\ Silent(ms, r) /\ Silent(queue, r) => Silent(queue \o ms, r)
    BY SaysConcat
  <2>3. \A r : ~Says(queue, r, "none")
    <3>1. \A i \in DOMAIN queue : queue[i] \in Message
      OBVIOUS
    <3> QED BY <3>1 DEF Says, Message
  <2> QED BY <1>2, <2>1, <2>2, <2>3 DEF QueueIsServed, Promised
<1>3. CASE ms # <<>> /\ ~messageSrc
  <2>1. queue = <<>> /\ queue \o ms = ms
    BY <1>3 DEF QueueIsServed
  <2>2. /\ queue' = Tail(ms)
        /\ Transmit(<<Head(ms)>>)
        /\ messageSrc' = TRUE
    BY <1>3, <2>1 DEF QueueMessages
  <2>3. \A r, k : ~Says(queue, r, k)
    BY <2>1 DEF Says
  <2>4. /\ wire' \in Seq(WireMessage)
        /\ announced' \in Told
        /\ queue' \in Seq(Message)
        /\ \A r \in Ids : \A k \in {"alive", "byebye"} :
             Says(ms, r, k) => Promised(r, k)'
        /\ \A r \in Ids : \A k \in {"none", "alive", "byebye"} :
             Silent(ms, r) /\ announced[r] = k => Promised(r, k)'
    BY <1>3, <2>2, SendHead
  <2> QED BY <2>2, <2>3, <2>4 DEF QueueIsServed, Promised
<1> QED BY <1>1, <1>2, <1>3

-----------------------------------------------------------------------------
(* The messages each operation queues.                                     *)

LEMMA ByebyeFacts ==
    ASSUME NEW r \in 0..MaxId
    PROVE  /\ <<Byebye(r)>> \in Seq(Message)
           /\ Says(<<Byebye(r)>>, r, "byebye")
           /\ \A q : q # r => Silent(<<Byebye(r)>>, q)
<1>1. Byebye(r) \in Message
  BY ConstantsAssumption DEF Byebye, Msg, Message, BootIds
<1>2. Byebye(r).id = r /\ Byebye(r).kind = "byebye"
  BY DEF Byebye, Msg
<1> QED BY <1>1, <1>2 DEF Says, Silent, Announces

\* add_resource of an available group: the last word is alive.
LEMMA ByebyeAliveFacts ==
    ASSUME NEW r \in Ids
    PROVE  /\ <<Byebye(r), Alive(r)>> \in Seq(Message)
           /\ Says(<<Byebye(r), Alive(r)>>, r, "alive")
           /\ \A q : q # r => Silent(<<Byebye(r), Alive(r)>>, q)
<1>1. Byebye(r) \in Message /\ Alive(r) \in Message
  BY ConstantsAssumption DEF Byebye, Alive, Msg, Message, BootIds, Ids
<1>2. /\ Byebye(r).id = r /\ Byebye(r).kind = "byebye"
      /\ Alive(r).id = r /\ Alive(r).kind = "alive"
  BY DEF Byebye, Alive, Msg
<1> DEFINE ms == <<Byebye(r), Alive(r)>>
<1>3. ms \in Seq(Message) /\ DOMAIN ms = 1..2 /\ ms[1] = Byebye(r) /\ ms[2] = Alive(r)
  BY <1>1
<1> HIDE DEF ms
<1>4. Says(ms, r, "alive")
  BY <1>2, <1>3 DEF Says
<1>5. \A q : q # r => Silent(ms, q)
  BY <1>2, <1>3 DEF Silent, Announces
<1> QED BY <1>3, <1>4, <1>5 DEF ms

\* Making a group available: whatever byebyes come first, the last word on
\* every listed resource is alive.
LEMMA MakeAvailableFacts ==
    ASSUME NEW S, S \subseteq Ids, NEW F, F \subseteq S,
           NEW fresh \in ListsOf(F), NEW all \in ListsOf(S)
    PROVE  LET ms == Byebyes(fresh) \o AnnouncementSet(Alives(all))
           IN  /\ ms \in Seq(Message)
               /\ \A r \in S : Says(ms, r, "alive")
               /\ \A r : r \notin S => Silent(ms, r)
<1> DEFINE b == Byebyes(fresh)
           a == AnnouncementSet(Alives(all))
<1>0. -1 \in BootIds
  BY ConstantsAssumption DEF BootIds
<1>1. b \in Seq(Message) /\ \A i \in DOMAIN b : b[i].id \in F
  BY <1>0, RoundFacts, Zenon DEF Byebyes
<1>2. /\ a \in Seq(Message)
      /\ \A r \in S : Says(a, r, "alive")
      /\ \A r : r \notin S => Silent(a, r)
  BY <1>0, AnnouncementSetFacts DEF Alives
<1>3. \A r : r \notin S => Silent(b, r)
  BY <1>1 DEF Silent, Announces
<1> HIDE DEF a, b
<1>4. b \o a \in Seq(Message)
  BY <1>1, <1>2
<1>5. ASSUME NEW r \in S PROVE Says(b \o a, r, "alive")
  BY <1>1, <1>2, SaysConcat
<1>6. ASSUME NEW r, r \notin S PROVE Silent(b \o a, r)
  BY <1>1, <1>2, <1>3, <1>6, SaysConcat
<1> QED BY <1>4, <1>5, <1>6 DEF a, b

\* An announcement set of alives, or of byebyes.
LEMMA AliveSetFacts ==
    ASSUME NEW S, S \subseteq Ids, NEW l \in ListsOf(S)
    PROVE  LET ms == AnnouncementSet(Alives(l))
           IN  /\ ms \in Seq(Message)
               /\ \A r \in S : Says(ms, r, "alive")
               /\ \A r : r \notin S => Silent(ms, r)
<1>1. -1 \in BootIds
  BY ConstantsAssumption DEF BootIds
<1> QED BY <1>1, AnnouncementSetFacts DEF Alives

LEMMA ByebyeSetFacts ==
    ASSUME NEW S, S \subseteq Ids, NEW l \in ListsOf(S)
    PROVE  LET ms == AnnouncementSet(Byebyes(l))
           IN  /\ ms \in Seq(Message)
               /\ \A r \in S : Says(ms, r, "byebye")
               /\ \A r : r \notin S => Silent(ms, r)
<1>1. -1 \in BootIds
  BY ConstantsAssumption DEF BootIds
<1> QED BY <1>1, AnnouncementSetFacts DEF Byebyes

\* The updates say nothing about availability; the alives after them do.
LEMMA UpdateFacts ==
    ASSUME NEW S, S \subseteq Ids, NEW l \in ListsOf(S), NEW next \in BootIds
    PROVE  LET ms == AnnouncementSet(Updates(next, l)) \o AnnouncementSet(Alives(l))
           IN  /\ ms \in Seq(Message)
               /\ \A r \in S : Says(ms, r, "alive")
               /\ \A r : r \notin S => Silent(ms, r)
<1> DEFINE u == AnnouncementSet(Updates(next, l))
           a == AnnouncementSet(Alives(l))
<1>1. u \in Seq(Message) /\ \A r : Silent(u, r)
  BY AnnouncementSetFacts DEF Updates
<1>2. /\ a \in Seq(Message)
      /\ \A r \in S : Says(a, r, "alive")
      /\ \A r : r \notin S => Silent(a, r)
  BY AliveSetFacts
<1> HIDE DEF a, u
<1>4. u \o a \in Seq(Message)
  BY <1>1, <1>2
<1>5. ASSUME NEW r \in S PROVE Says(u \o a, r, "alive")
  BY <1>1, <1>2, SaysConcat
<1>6. ASSUME NEW r, r \notin S PROVE Silent(u \o a, r)
  BY <1>1, <1>2, <1>6, SaysConcat
<1> QED BY <1>4, <1>5, <1>6 DEF a, u

-----------------------------------------------------------------------------
(* The inductive invariant.                                                *)

\* What a step that queues ms needs for the output variables to keep the
\* invariant: ms says alive of every resource on offer after the step, or
\* leaves a right promise alone, and never says alive of any other.
LEMMA QueueStep ==
    ASSUME IInv, NEW ms \in Seq(Message), QueueMessages(ms),
           ~disposed, disposed' \in BOOLEAN,
           \A r \in Ids :
             IF available' /\ r \in listed'
             THEN \/ Says(ms, r, "alive")
                  \/ Silent(ms, r) /\ available /\ r \in listed
             ELSE \/ Says(ms, r, "byebye")
                  \/ Silent(ms, r) /\ ~(available /\ r \in listed)
    PROVE  /\ wire' \in Seq(WireMessage)
           /\ announced' \in Told
           /\ queue' \in Seq(Message)
           /\ messageSrc' \in BOOLEAN
           /\ QueueIsServed'
           /\ LastWordIsCurrent'
<1>1. /\ wire' \in Seq(WireMessage)
      /\ announced' \in Told
      /\ queue' \in Seq(Message)
      /\ messageSrc' \in BOOLEAN
      /\ QueueIsServed'
      /\ \A r \in Ids : \A k \in {"alive", "byebye"} :
           Says(ms, r, k) => Promised(r, k)'
      /\ \A r \in Ids : \A k \in {"none", "alive", "byebye"} :
           Silent(ms, r) /\ Promised(r, k) => Promised(r, k)'
  BY QueueMessagesFacts DEF IInv, TypeOK, Told
<1>2. ASSUME NEW r \in Ids
      PROVE  IF available' /\ r \in listed'
             THEN Promised(r, "alive")'
             ELSE Promised(r, "byebye")' \/ Promised(r, "none")'
  <2>1. IF available /\ r \in listed
        THEN Promised(r, "alive")
        ELSE Promised(r, "byebye") \/ Promised(r, "none")
    BY DEF IInv, LastWordIsCurrent
  <2> QED BY <1>1, <2>1
<1> QED BY <1>1, <1>2 DEF LastWordIsCurrent

\* The rest of the invariant, from what a step does to the other variables.
LEMMA InitIInv == Init => IInv
<1> SUFFICES ASSUME Init PROVE IInv
  OBVIOUS
<1>1. TypeOK
  <2>1. /\ listed \subseteq 1..lastId /\ lastId \in 0..MaxId
        /\ byebyeSent \subseteq 1..lastId /\ bootId \in BootIds
        /\ timeoutSources \in Int
    BY ConstantsAssumption DEF Init, BootIds
  <2>2. queue \in Seq(Message) /\ wire \in Seq(WireMessage)
    BY DEF Init
  <2>3. /\ responses \in [Ids \X Targets -> Nat]
        /\ announced \in [Ids -> {"none", "alive", "byebye"}]
    BY DEF Init
  <2>4. /\ available \in BOOLEAN /\ messageSrc \in BOOLEAN
        /\ timeoutSrc \in BOOLEAN /\ disposed \in BOOLEAN
    BY DEF Init
  <2> QED BY <2>1, <2>2, <2>3, <2>4 DEF TypeOK
<1>2. TimersMatchState /\ QueueIsServed /\ ResponsesAreOwned /\ InitialByebyesDone
  BY DEF Init, TimersMatchState, QueueIsServed, ResponsesAreOwned, InitialByebyesDone
<1>3. LastWordIsCurrent
  BY DEF Init, LastWordIsCurrent, Promised, Silent
<1> QED BY <1>1, <1>2, <1>3 DEF IInv

LEMMA NextIInv == IInv /\ [Next]_vars => IInv'
<1> SUFFICES ASSUME IInv, [Next]_vars PROVE IInv'
  OBVIOUS
<1> USE ConstantsAssumption
<1>0. /\ listed \subseteq Ids
      /\ -1 \in BootIds
      /\ \A b \in 0..MaxBoot : b \in BootIds
  BY DEF IInv, TypeOK, Ids, BootIds
<1>a. (~disposed => Attached = 0) /\ Attached \in Int
  BY DEF IInv, TypeOK, TimersMatchState, Attached
<1>1. CASE MakeAvailable
  <2>1. PICK fresh \in ListsOf(listed \ byebyeSent), all \in ListsOf(listed) :
          QueueMessages(InitialAnnouncement(fresh, all))
    BY <1>1 DEF MakeAvailable
  <2> DEFINE ms == Byebyes(fresh) \o AnnouncementSet(Alives(all))
  <2>2. /\ ms \in Seq(Message)
        /\ \A r \in listed : Says(ms, r, "alive")
        /\ \A r : r \notin listed => Silent(ms, r)
    BY <1>0, MakeAvailableFacts
  <2> HIDE DEF ms
  <2>3. /\ ~disposed /\ ~available /\ available'
        /\ timeoutSrc' = TRUE /\ timeoutSources' = timeoutSources + 1
        /\ byebyeSent' = byebyeSent \cup listed
        /\ listed' = listed /\ lastId' = lastId /\ responses' = responses
        /\ bootId' = bootId /\ disposed' = disposed
    BY <1>1 DEF MakeAvailable, SetupReannouncement, Marked
  <2>4. QueueMessages(ms)
    BY <2>1 DEF ms, InitialAnnouncement
  <2>5. /\ wire' \in Seq(WireMessage)
        /\ announced' \in Told
        /\ queue' \in Seq(Message)
        /\ messageSrc' \in BOOLEAN
        /\ QueueIsServed'
        /\ LastWordIsCurrent'
    BY <2>2, <2>3, <2>4, QueueStep DEF IInv, TypeOK
  <2>6. TypeOK'
    BY <2>3, <2>5 DEF IInv, TypeOK, Told
  <2>7. TimersMatchState' /\ ResponsesAreOwned' /\ InitialByebyesDone'
    BY <2>3 DEF IInv, TimersMatchState, ResponsesAreOwned, InitialByebyesDone, Ids
  <2> QED BY <2>5, <2>6, <2>7 DEF IInv
<1>2. CASE MakeUnavailable
  <2>1. PICK all \in ListsOf(listed) : QueueMessages(AnnouncementSet(Byebyes(all)))
    BY <1>2 DEF MakeUnavailable
  <2> DEFINE ms == AnnouncementSet(Byebyes(all))
  <2>2. /\ ms \in Seq(Message)
        /\ \A r \in listed : Says(ms, r, "byebye")
        /\ \A r : r \notin listed => Silent(ms, r)
    BY <1>0, ByebyeSetFacts
  <2> HIDE DEF ms
  <2>3. /\ ~disposed /\ available /\ available' = FALSE
        /\ timeoutSrc' = FALSE /\ timeoutSources' = Attached
        /\ byebyeSent' = byebyeSent
        /\ listed' = listed /\ lastId' = lastId /\ responses' = responses
        /\ bootId' = bootId /\ disposed' = disposed
    BY <1>2 DEF MakeUnavailable
  <2>4. QueueMessages(ms)
    BY <2>1 DEF ms, InitialAnnouncement
  <2>5. /\ wire' \in Seq(WireMessage)
        /\ announced' \in Told
        /\ queue' \in Seq(Message)
        /\ messageSrc' \in BOOLEAN
        /\ QueueIsServed'
        /\ LastWordIsCurrent'
    BY <2>2, <2>3, <2>4, QueueStep DEF IInv, TypeOK
  <2>6. TypeOK'
    BY <1>a, <2>3, <2>5 DEF IInv, TypeOK, Told
  <2>7. TimersMatchState' /\ ResponsesAreOwned' /\ InitialByebyesDone'
    BY <1>a, <2>3 DEF IInv, TimersMatchState, ResponsesAreOwned, InitialByebyesDone
  <2> QED BY <2>5, <2>6, <2>7 DEF IInv
<1>3. CASE AddResource
  <2> DEFINE n == lastId + 1
             ms == IF available THEN <<Byebye(n), Alive(n)>> ELSE <<>>
  <2>1. /\ ~disposed /\ disposed' = disposed
        /\ lastId' = n /\ listed' = listed \cup {n} /\ lastId < MaxId
        /\ available' = available
        /\ byebyeSent' = IF available THEN byebyeSent \cup {n} ELSE byebyeSent
        /\ timeoutSrc' = timeoutSrc /\ timeoutSources' = timeoutSources
        /\ responses' = responses /\ bootId' = bootId
    BY <1>3 DEF AddResource, Marked, timerVars
  <2>2. n \in Ids
    BY <2>1 DEF IInv, TypeOK, Ids
  <2>3. QueueMessages(ms)
    BY <1>3 DEF AddResource, FirstAnnouncement
  <2>4. /\ ms \in Seq(Message)
        /\ available => Says(ms, n, "alive")
        /\ \A q : q # n => Silent(ms, q)
        /\ ~available => Silent(ms, n)
    <3>1. CASE available
      BY <3>1, <2>2, ByebyeAliveFacts
    <3>2. CASE ~available
      BY <3>2 DEF Silent
    <3> QED BY <3>1, <3>2
  <2> HIDE DEF ms
  <2>5. /\ wire' \in Seq(WireMessage)
        /\ announced' \in Told
        /\ queue' \in Seq(Message)
        /\ messageSrc' \in BOOLEAN
        /\ QueueIsServed'
        /\ LastWordIsCurrent'
    BY <2>1, <2>3, <2>4, QueueStep DEF IInv, TypeOK
  <2>6. TypeOK'
    BY <2>1, <2>5 DEF IInv, TypeOK, Told
  <2>7. TimersMatchState' /\ ResponsesAreOwned' /\ InitialByebyesDone'
    BY <2>1 DEF IInv, TimersMatchState, ResponsesAreOwned, InitialByebyesDone
  <2> QED BY <2>5, <2>6, <2>7 DEF IInv
<1>4. CASE RefuseResource
  <2> DEFINE ms == IF available THEN <<Byebye(0)>> ELSE <<>>
  <2>1. /\ ~disposed /\ QueueMessages(ms)
        /\ UNCHANGED <<groupVars, timerVars, responses, bootId, disposed>>
    BY <1>4 DEF RefuseResource, LastWords
  <2>2. ms \in Seq(Message) /\ \A q \in Ids : Silent(ms, q)
    <3>1. CASE available
      BY <3>1, ByebyeFacts DEF Ids
    <3>2. CASE ~available
      BY <3>2 DEF Silent
    <3> QED BY <3>1, <3>2
  <2> HIDE DEF ms
  <2>5. /\ wire' \in Seq(WireMessage)
        /\ announced' \in Told
        /\ queue' \in Seq(Message)
        /\ messageSrc' \in BOOLEAN
        /\ QueueIsServed'
        /\ LastWordIsCurrent'
    BY <2>1, <2>2, QueueStep DEF groupVars, IInv, TypeOK
  <2>6. TypeOK'
    BY <2>1, <2>5 DEF IInv, TypeOK, Told, groupVars, timerVars
  <2>7. TimersMatchState' /\ ResponsesAreOwned' /\ InitialByebyesDone'
    BY <2>1, <2>5 DEF IInv, TimersMatchState, ResponsesAreOwned,
                      InitialByebyesDone, groupVars, timerVars
  <2> QED BY <2>5, <2>6, <2>7 DEF IInv
<1>5. ASSUME NEW r \in Ids, RemoveResource(r) PROVE IInv'
  <2> DEFINE ms == IF available THEN <<Byebye(r)>> ELSE <<>>
  <2>1. /\ ~disposed /\ disposed' = disposed /\ r \in listed
        /\ listed' = listed \ {r} /\ QueueMessages(ms)
        /\ responses' = [p \in Ids \X Targets |->
                           IF p[1] = r THEN 0 ELSE responses[p]]
        /\ available' = available /\ lastId' = lastId
        /\ byebyeSent' = byebyeSent
        /\ timeoutSrc' = timeoutSrc /\ timeoutSources' = timeoutSources
        /\ bootId' = bootId
    BY <1>5 DEF RemoveResource, ResponsesWithout, LastWords, timerVars
  <2>2. /\ ms \in Seq(Message)
        /\ available => Says(ms, r, "byebye")
        /\ \A q : q # r \/ ~available => Silent(ms, q)
    <3>1. CASE available
      <4>1. r \in 0..MaxId
        BY DEF Ids
      <4>2. /\ <<Byebye(r)>> \in Seq(Message)
            /\ Says(<<Byebye(r)>>, r, "byebye")
            /\ \A q : q # r => Silent(<<Byebye(r)>>, q)
        BY <4>1, ByebyeFacts
      <4>3. ms = <<Byebye(r)>>
        BY <3>1
      <4> QED BY <3>1, <4>2, <4>3
    <3>2. CASE ~available
      BY <3>2 DEF Silent
    <3> QED BY <3>1, <3>2
  <2> HIDE DEF ms
  <2>5. /\ wire' \in Seq(WireMessage)
        /\ announced' \in Told
        /\ queue' \in Seq(Message)
        /\ messageSrc' \in BOOLEAN
        /\ QueueIsServed'
        /\ LastWordIsCurrent'
    BY <2>1, <2>2, QueueStep DEF IInv, TypeOK
  <2>6. TypeOK'
    BY <2>1, <2>5 DEF IInv, TypeOK, Told
  <2>7. TimersMatchState' /\ ResponsesAreOwned' /\ InitialByebyesDone'
    BY <2>1 DEF IInv, TimersMatchState, ResponsesAreOwned, InitialByebyesDone
  <2> QED BY <2>5, <2>6, <2>7 DEF IInv
<1>6. ASSUME NEW next \in 0..MaxBoot, Update(next) PROVE IInv'
  <2>1. /\ ~disposed /\ bootId' = next
        /\ UNCHANGED <<groupVars, responses, disposed>>
    BY <1>6 DEF Update
  <2>2. PICK ms \in Seq(Message) :
          /\ QueueMessages(ms)
          /\ available => \A r \in listed : Says(ms, r, "alive")
          /\ \A r : r \notin listed \/ ~available => Silent(ms, r)
    <3>1. CASE available
      <4>1. PICK all \in ListsOf(listed) :
              QueueMessages(AnnouncementSet(Updates(next, all))
                              \o AnnouncementSet(Alives(all)))
        BY <1>6, <3>1 DEF Update
      <4> QED BY <4>1, <3>1, <1>0, UpdateFacts
    <3>2. CASE ~available
      <4>1. QueueMessages(<<>>)
        BY <1>6, <3>2 DEF Update
      <4>2. <<>> \in Seq(Message) /\ \A r : Silent(<<>>, r)
        BY DEF Silent
      <4> QED BY <4>1, <4>2, <3>2
    <3> QED BY <3>1, <3>2
  <2>5. /\ wire' \in Seq(WireMessage)
        /\ announced' \in Told
        /\ queue' \in Seq(Message)
        /\ messageSrc' \in BOOLEAN
        /\ QueueIsServed'
        /\ LastWordIsCurrent'
    BY <2>1, <2>2, QueueStep DEF IInv, TypeOK, groupVars
  <2>6. TimersMatchState' /\ timeoutSrc' \in BOOLEAN /\ timeoutSources' \in Int
    <3>1. CASE available
      BY <1>a, <3>1, <1>6, <2>1 DEF Update, SetupReannouncement, IInv,
                              TimersMatchState, TypeOK, groupVars
    <3>2. CASE ~available
      BY <3>2, <1>6, <2>1 DEF Update, timerVars, IInv, TimersMatchState, TypeOK,
                              groupVars
    <3> QED BY <3>1, <3>2
  <2>7. TypeOK'
    BY <1>0, <2>1, <2>5, <2>6 DEF IInv, TypeOK, Told, groupVars
  <2>8. ResponsesAreOwned' /\ InitialByebyesDone'
    BY <2>1 DEF IInv, ResponsesAreOwned, InitialByebyesDone, groupVars
  <2> QED BY <2>5, <2>6, <2>7, <2>8 DEF IInv
<1>7. CASE Dispose
  <2>1. PICK all \in ListsOf(listed) :
          IF available THEN Transmit(queue \o Byebyes(all)) ELSE TransmitNothing
    BY <1>7 DEF Dispose, Flush
  <2>2. queue \o Byebyes(all) \in Seq(Sendable)
    <3>1. Byebyes(all) \in Seq(Message)
      BY <1>0, RoundFacts DEF Byebyes
    <3>2. queue \o Byebyes(all) \in Seq(Message)
      BY <3>1 DEF IInv, TypeOK
    <3>3. Message \subseteq Sendable
      BY DEF Message, Sendable
    <3> QED BY <3>2, <3>3, SeqMonotonic
  <2>3. wire' \in Seq(WireMessage) /\ announced' \in Told
    <3>1. CASE available
      BY <3>1, <2>1, <2>2, TransmitFacts DEF IInv, TypeOK, Told
    <3>2. CASE ~available
      BY <3>2, <2>1 DEF TransmitNothing, IInv, TypeOK, Told
    <3> QED BY <3>1, <3>2
  <2>4. /\ disposed' = TRUE /\ listed' = {} /\ queue' = <<>>
        /\ messageSrc' = FALSE /\ timeoutSources' = Attached
        /\ timeoutSrc' = FALSE /\ available' = available
        /\ responses' = [p \in Ids \X Targets |-> 0]
        /\ lastId' = lastId /\ byebyeSent' = byebyeSent /\ bootId' = bootId
        /\ ~disposed
    BY <1>7 DEF Dispose
  <2>5. TypeOK'
    <3>1. responses' \in [Ids \X Targets -> Nat]
      BY <2>4
    <3>2. queue' \in Seq(Message)
      BY <2>4
    <3>3. /\ messageSrc' \in BOOLEAN /\ timeoutSrc' \in BOOLEAN
          /\ disposed' \in BOOLEAN
      BY <2>4
    <3> QED BY <1>a, <2>3, <2>4, <3>1, <3>2, <3>3 DEF IInv, TypeOK, Told
  <2>6. TimersMatchState' /\ QueueIsServed' /\ ResponsesAreOwned'
          /\ InitialByebyesDone' /\ LastWordIsCurrent'
    BY <1>a, <2>4 DEF IInv, TypeOK, TimersMatchState, QueueIsServed,
                ResponsesAreOwned, InitialByebyesDone, LastWordIsCurrent
  <2> QED BY <2>5, <2>6 DEF IInv
<1>8. ASSUME NEW pairs, Answer(pairs), \A p \in pairs : p[1] \in listed PROVE IInv'
  <2>1. /\ wire' = <<>> /\ announced' = announced
        /\ UNCHANGED <<groupVars, timerVars, queue, messageSrc, bootId, disposed>>
        /\ responses' = [p \in Ids \X Targets |->
                           IF p \in pairs THEN responses[p] + 1 ELSE responses[p]]
        /\ ~disposed
    BY <1>8 DEF Answer, TransmitNothing
  <2>2. TypeOK'
    BY <2>1 DEF IInv, TypeOK, groupVars, timerVars
  <2>3. TimersMatchState' /\ QueueIsServed' /\ InitialByebyesDone'
    BY <2>1 DEF IInv, TimersMatchState, QueueIsServed, InitialByebyesDone,
                groupVars, timerVars
  <2>4. ResponsesAreOwned'
    BY <2>1, <1>8 DEF IInv, ResponsesAreOwned, groupVars
  <2>5. LastWordIsCurrent'
    BY <2>1 DEF IInv, LastWordIsCurrent, Promised, groupVars
  <2> QED BY <2>2, <2>3, <2>4, <2>5 DEF IInv
<1>9. CASE Reannounce
  <2>1. PICK all \in ListsOf(listed) : QueueMessages(AnnouncementSet(Alives(all)))
    BY <1>9 DEF Reannounce
  <2> DEFINE ms == AnnouncementSet(Alives(all))
  <2>2. /\ ms \in Seq(Message)
        /\ \A r \in listed : Says(ms, r, "alive")
        /\ \A r : r \notin listed => Silent(ms, r)
    BY <1>0, AliveSetFacts
  <2> HIDE DEF ms
  <2>3. /\ ~disposed /\ timeoutSources > 0
        /\ UNCHANGED <<groupVars, timerVars, responses, bootId, disposed>>
    BY <1>9 DEF Reannounce
  <2>4. QueueMessages(ms) /\ available
    BY <2>1, <2>3 DEF ms, IInv, TimersMatchState
  <2>5. /\ wire' \in Seq(WireMessage)
        /\ announced' \in Told
        /\ queue' \in Seq(Message)
        /\ messageSrc' \in BOOLEAN
        /\ QueueIsServed'
        /\ LastWordIsCurrent'
    BY <2>2, <2>3, <2>4, QueueStep DEF groupVars, IInv, TypeOK
  <2>6. TypeOK'
    BY <2>3, <2>5 DEF IInv, TypeOK, Told, groupVars, timerVars
  <2>7. TimersMatchState' /\ ResponsesAreOwned' /\ InitialByebyesDone'
    BY <2>3 DEF IInv, TimersMatchState, ResponsesAreOwned, InitialByebyesDone,
                groupVars, timerVars
  <2> QED BY <2>5, <2>6, <2>7 DEF IInv
<1>10. ASSUME NEW r \in Ids, NEW t \in Targets, SendResponse(r, t) PROVE IInv'
  <2> DEFINE ms == <<Msg("response", r)>>
  <2>1. /\ responses[<<r, t>>] > 0
        /\ responses' = [responses EXCEPT ![<<r, t>>] = @ - 1]
        /\ Transmit(ms)
        /\ UNCHANGED <<groupVars, timerVars, queue, messageSrc, bootId, disposed>>
    BY <1>10 DEF SendResponse
  <2>2. ms \in Seq(Sendable)
    BY <1>0 DEF Msg, Sendable, Ids
  <2>3. \A q : Silent(ms, q)
    BY DEF Silent, Announces, Msg
  <2> HIDE DEF ms
  <2>4. wire' \in Seq(WireMessage) /\ announced' = announced
    BY <2>1, <2>2, <2>3, TransmitFacts DEF IInv, TypeOK, Told
  <2>5. responses' \in [Ids \X Targets -> Nat]
    BY <2>1 DEF IInv, TypeOK
  <2>6. TypeOK'
    BY <2>1, <2>4, <2>5 DEF IInv, TypeOK, groupVars, timerVars
  <2>7. QueueIsServed' /\ InitialByebyesDone' /\ LastWordIsCurrent'
    BY <2>1, <2>4 DEF IInv, QueueIsServed, InitialByebyesDone,
                      LastWordIsCurrent, Promised, groupVars
  <2>8. ResponsesAreOwned' /\ TimersMatchState'
    BY <2>1 DEF IInv, TypeOK, ResponsesAreOwned, TimersMatchState, groupVars, timerVars
  <2> QED BY <2>6, <2>7, <2>8 DEF IInv
<1>11. CASE ProcessQueue
  <2>1. /\ messageSrc
        /\ UNCHANGED <<groupVars, timerVars, responses, bootId, disposed>>
    BY <1>11 DEF ProcessQueue
  <2>2. CASE queue = <<>>
    <3>1. /\ messageSrc' = FALSE /\ queue' = queue
          /\ wire' = <<>> /\ announced' = announced
      BY <1>11, <2>2 DEF ProcessQueue, TransmitNothing
    <3>2. TypeOK'
      <4>1. wire' \in Seq(WireMessage)
        BY <3>1
      <4>2. messageSrc' \in BOOLEAN
        BY <3>1
      <4> QED BY <2>1, <3>1, <4>1, <4>2 DEF IInv, TypeOK, groupVars, timerVars
    <3>4. TimersMatchState' /\ QueueIsServed' /\ ResponsesAreOwned'
            /\ InitialByebyesDone'
      BY <2>1, <2>2, <3>1 DEF IInv, TimersMatchState, QueueIsServed,
                 ResponsesAreOwned, InitialByebyesDone, groupVars, timerVars
    <3>3. LastWordIsCurrent'
      BY <2>1, <3>1 DEF IInv, LastWordIsCurrent, Promised, groupVars
    <3> QED BY <3>2, <3>3, <3>4 DEF IInv
  <2>3. CASE queue # <<>>
    <3>1. /\ Transmit(<<Head(queue)>>) /\ queue' = Tail(queue)
          /\ messageSrc' = messageSrc
      BY <1>11, <2>3 DEF ProcessQueue
    <3>2. /\ wire' \in Seq(WireMessage)
          /\ announced' \in Told
          /\ queue' \in Seq(Message)
          /\ \A r \in Ids : \A k \in {"alive", "byebye"} :
               Says(queue, r, k) => Promised(r, k)'
          /\ \A r \in Ids : \A k \in {"none", "alive", "byebye"} :
               Silent(queue, r) /\ announced[r] = k => Promised(r, k)'
      BY <3>1, <2>3, SendHead DEF IInv, TypeOK, Told
    <3>3. \A r : ~Says(queue, r, "none")
      <4>1. \A i \in DOMAIN queue : queue[i] \in Message
        BY DEF IInv, TypeOK
      <4> QED BY <4>1 DEF Says, Message
    <3>4. LastWordIsCurrent'
      BY <2>1, <3>2, <3>3 DEF IInv, LastWordIsCurrent, Promised, groupVars
    <3>5. TypeOK' /\ TimersMatchState' /\ QueueIsServed' /\ ResponsesAreOwned'
            /\ InitialByebyesDone'
      BY <2>1, <3>1, <3>2 DEF IInv, TypeOK, TimersMatchState, QueueIsServed, Told,
                 ResponsesAreOwned, InitialByebyesDone, groupVars, timerVars
    <3> QED BY <3>4, <3>5 DEF IInv
  <2> QED BY <2>2, <2>3
<1>12. CASE UNCHANGED vars
  <2>1. UNCHANGED <<available, listed, lastId, byebyeSent, responses, queue, messageSrc,
              timeoutSrc, timeoutSources, bootId, disposed, wire, announced>>
    BY <1>12 DEF vars, groupVars, timerVars, outVars
  <2> QED
    BY <2>1 DEF IInv, TypeOK, TimersMatchState, QueueIsServed, ResponsesAreOwned,
              InitialByebyesDone, LastWordIsCurrent, Promised
<1>13. ASSUME NEW t \in Targets, SearchFor(t) PROVE IInv'
  <2>1. \A p \in {<<r, t>> : r \in Matching(t)} : p[1] \in listed
    BY DEF Matching
  <2> QED BY <2>1, <1>8, <1>13 DEF SearchFor
<1>14. CASE SearchAll
  <2>1. \A p \in {<<r, TargetOf[r]>> : r \in listed} : p[1] \in listed
    OBVIOUS
  <2> QED BY <2>1, <1>8, <1>14 DEF SearchAll
<1> QED
  BY <1>1, <1>2, <1>3, <1>4, <1>5, <1>6, <1>7, <1>9, <1>10, <1>11, <1>12, <1>13, <1>14
  DEF Next, Application, Network, Timers

-----------------------------------------------------------------------------
(* Theorems.                                                               *)

\* IInv is an invariant of the group, whatever the bounds.
THEOREM Invariance == Spec => []IInv
<1>1. Init => IInv
  BY InitIInv
<1>2. IInv /\ [Next]_vars => IInv'
  BY NextIInv
<1> QED BY <1>1, <1>2, PTL DEF Spec

\* Every variable keeps its type.
THEOREM TypeCorrect == Spec => []TypeOK
<1>1. IInv => TypeOK
  BY DEF IInv
<1> QED BY <1>1, Invariance, PTL

\* One re-announcement source while available, none otherwise, and no timer
\* left on a disposed group.
THEOREM TimersCorrect == Spec => []TimersMatchState
<1>1. IInv => TimersMatchState
  BY DEF IInv
<1> QED BY <1>1, Invariance, PTL

\* A message never waits without a timer that will send it.
THEOREM QueueServed == Spec => []QueueIsServed
<1>1. IInv => QueueIsServed
  BY DEF IInv
<1> QED BY <1>1, Invariance, PTL

\* A pending response never outlives its resource.
THEOREM ResponsesOwned == Spec => []ResponsesAreOwned
<1>1. IInv => ResponsesAreOwned
  BY DEF IInv
<1> QED BY <1>1, Invariance, PTL

\* The last word on every resource, sent or still queued, is current.
THEOREM LastWordCurrent == Spec => []LastWordIsCurrent
<1>1. IInv => LastWordIsCurrent
  BY DEF IInv
<1> QED BY <1>1, Invariance, PTL

\* Disposing of an available group takes back everything it ever announced.
THEOREM DisposeGoodbye == Spec => DisposeSaysGoodbye
<1> DEFINE A == available /\ ~disposed /\ disposed' =>
                  \A r \in Ids : announced'[r] # "alive"
<1>1. IInv /\ [Next]_vars => A
  <2> SUFFICES ASSUME IInv, [Next]_vars, available, ~disposed, disposed',
                      NEW r \in Ids
               PROVE  announced'[r] # "alive"
    OBVIOUS
  <2> USE ConstantsAssumption
  <2>0. listed \subseteq Ids /\ -1 \in BootIds
    BY DEF IInv, TypeOK, Ids, BootIds
  <2>1. Dispose
    BY DEF Next, Application, Network, Timers, MakeAvailable, MakeUnavailable,
           AddResource, RefuseResource, RemoveResource, Update, Reannounce,
           SearchFor, SearchAll, Answer, SendResponse, ProcessQueue, vars
  <2>2. PICK all \in ListsOf(listed) : Transmit(queue \o Byebyes(all))
    BY <2>1 DEF Dispose, Flush
  <2> DEFINE b == Byebyes(all)
  <2>3. /\ b \in Seq(Message)
        /\ \A i \in DOMAIN b : b[i].kind = "byebye" /\ b[i].id \in listed
        /\ \A q \in listed : \E i \in DOMAIN b : b[i].id = q
        /\ \A i, j \in DOMAIN b : i < j => b[i].id # b[j].id
    <3> USE <2>0, RoundFacts DEF Byebyes
    <3>1. b \in Seq(Message)
      OBVIOUS
    <3>2. \A i \in DOMAIN b : b[i].kind = "byebye" /\ b[i].id \in listed
      OBVIOUS
    <3>3. \A q \in listed : \E i \in DOMAIN b : b[i].id = q
      OBVIOUS
    <3>4. \A i, j \in DOMAIN b : i < j => b[i].id # b[j].id
      OBVIOUS
    <3> QED BY <3>1, <3>2, <3>3, <3>4
  <2> HIDE DEF b
  <2>4. queue \in Seq(Message) /\ queue \o b \in Seq(Message)
    BY <2>3 DEF IInv, TypeOK
  <2>5. queue \o b \in Seq(Sendable)
    <3>1. Message \subseteq Sendable
      BY DEF Message, Sendable
    <3> QED BY <3>1, <2>4, SeqMonotonic
  <2>6. /\ Silent(queue \o b, r) => announced'[r] = announced[r]
        /\ Says(queue \o b, r, "byebye") => announced'[r] = "byebye"
    BY <2>2, <2>5, TransmitFacts DEF b, IInv, TypeOK, Told
  <2>7. CASE r \in listed
    <3>1. PICK i \in DOMAIN b : b[i].id = r
      BY <2>3, <2>7
    <3>2. Says(b, r, "byebye")
      BY <3>1, <2>3 DEF Says, Announces
    <3>3. Says(queue \o b, r, "byebye")
      BY <3>2, <2>3, <2>4, SaysConcat
    <3> QED BY <3>3, <2>6
  <2>8. CASE r \notin listed
    <3>1. Silent(b, r)
      BY <2>3, <2>8 DEF Silent, Announces
    <3>2. Promised(r, "byebye") \/ Promised(r, "none")
      BY <2>8 DEF IInv, LastWordIsCurrent
    <3>3. ~Says(queue, r, "none")
      <4>1. \A i \in DOMAIN queue : queue[i] \in Message
        BY <2>4
      <4> QED BY <4>1 DEF Says, Message
    <3>4. CASE Says(queue, r, "byebye")
      <4>1. Says(queue \o b, r, "byebye")
        BY <3>1, <3>4, <2>3, <2>4, SaysConcat
      <4> QED BY <4>1, <2>6
    <3>5. CASE Silent(queue, r) /\ announced[r] \in {"none", "byebye"}
      <4>1. Silent(queue \o b, r)
        BY <3>1, <3>5, <2>3, <2>4, SaysConcat
      <4> QED BY <4>1, <3>5, <2>6
    <3> QED BY <3>2, <3>3, <3>4, <3>5 DEF Promised
  <2> QED BY <2>7, <2>8
<1>2. IInv /\ [Next]_vars => [A]_vars
  BY <1>1
<1>3. Spec => [][A]_vars
  BY <1>2, Invariance, PTL DEF Spec
<1> QED BY <1>3 DEF DisposeSaysGoodbye

-----------------------------------------------------------------------------
(* What the fairness of the message timer has to work with.                *)

\* What waits keeps its place until it is the first and the timer sends it:
\* every other step leaves the queue alone or appends to it.
LEMMA QueueInOrder ==
    ASSUME IInv, [Next]_vars, ~disposed', queue # <<>>
    PROVE  IF ProcessQueue
           THEN Transmit(<<Head(queue)>>) /\ queue' = Tail(queue)
           ELSE \E ms \in Seq(Message) : queue' = queue \o ms
<1> USE ConstantsAssumption
<1>0. /\ listed \subseteq Ids /\ messageSrc /\ queue \in Seq(Message)
      /\ \A b \in 0..MaxBoot : b \in BootIds
  BY DEF IInv, TypeOK, Ids, BootIds, QueueIsServed
<1>1. ASSUME ProcessQueue PROVE Transmit(<<Head(queue)>>) /\ queue' = Tail(queue)
  BY <1>1 DEF ProcessQueue
<1>2. ASSUME NEW ms \in Seq(Message), QueueMessages(ms)
      PROVE  \E more \in Seq(Message) : queue' = queue \o more
  <2>1. CASE ms = <<>>
    <3>1. queue' = queue \o <<>> /\ <<>> \in Seq(Message)
      BY <2>1, <1>0, <1>2 DEF QueueMessages
    <3> QED BY <3>1
  <2>2. CASE ms # <<>>
    BY <2>2, <1>0, <1>2 DEF QueueMessages
  <2> QED BY <2>1, <2>2
<1>3. ASSUME queue' = queue PROVE \E ms \in Seq(Message) : queue' = queue \o ms
  <2>1. queue' = queue \o <<>> /\ <<>> \in Seq(Message)
    BY <1>0, <1>3
  <2> QED BY <2>1
<1>4. ASSUME QueueMessages(<<>>)
      PROVE  \E ms \in Seq(Message) : queue' = queue \o ms
  BY <1>3, <1>4 DEF QueueMessages
<1>5. ASSUME ~ProcessQueue PROVE \E ms \in Seq(Message) : queue' = queue \o ms
  <2>1. CASE MakeAvailable
    <3>1. PICK fresh \in ListsOf(listed \ byebyeSent), all \in ListsOf(listed) :
            QueueMessages(InitialAnnouncement(fresh, all))
      BY <2>1 DEF MakeAvailable
    <3>2. InitialAnnouncement(fresh, all) \in Seq(Message)
      BY <1>0, MakeAvailableFacts DEF InitialAnnouncement
    <3> QED BY <3>1, <3>2, <1>2
  <2>2. CASE MakeUnavailable
    <3>1. PICK all \in ListsOf(listed) :
            QueueMessages(AnnouncementSet(Byebyes(all)))
      BY <2>2 DEF MakeUnavailable
    <3>2. AnnouncementSet(Byebyes(all)) \in Seq(Message)
      BY <1>0, ByebyeSetFacts
    <3> QED BY <3>1, <3>2, <1>2
  <2>3. CASE AddResource
    <3>1. lastId + 1 \in Ids
      BY <2>3 DEF AddResource, IInv, TypeOK, Ids
    <3>2. FirstAnnouncement(lastId + 1) \in Seq(Message)
      BY <3>1, ByebyeAliveFacts DEF FirstAnnouncement
    <3>3. \/ QueueMessages(FirstAnnouncement(lastId + 1))
          \/ QueueMessages(<<>>)
      BY <2>3 DEF AddResource
    <3> QED BY <3>2, <3>3, <1>2, <1>4
  <2>4. ASSUME NEW r \in 0..MaxId, QueueMessages(LastWords(r))
        PROVE  \E ms \in Seq(Message) : queue' = queue \o ms
    <3>1. CASE available
      <4>1. LastWords(r) = <<Byebye(r)>>
        BY <3>1 DEF LastWords
      <4>2. LastWords(r) \in Seq(Message)
        BY <4>1, ByebyeFacts
      <4> QED BY <2>4, <4>2, <1>2
    <3>2. CASE ~available
      BY <3>2, <2>4, <1>4 DEF LastWords
    <3> QED BY <3>1, <3>2
  <2>5. CASE RefuseResource
    <3>1. 0 \in 0..MaxId /\ QueueMessages(LastWords(0))
      BY <2>5 DEF RefuseResource
    <3> QED BY <3>1, <2>4
  <2>6. ASSUME NEW r \in Ids, RemoveResource(r)
        PROVE  \E ms \in Seq(Message) : queue' = queue \o ms
    <3>1. r \in 0..MaxId /\ QueueMessages(LastWords(r))
      BY <2>6 DEF RemoveResource, Ids
    <3> QED BY <3>1, <2>4
  <2>7. ASSUME NEW next \in 0..MaxBoot, Update(next)
        PROVE  \E ms \in Seq(Message) : queue' = queue \o ms
    <3>1. CASE available
      <4>1. PICK all \in ListsOf(listed) :
              QueueMessages(AnnouncementSet(Updates(next, all))
                              \o AnnouncementSet(Alives(all)))
        BY <2>7, <3>1 DEF Update
      <4>2. AnnouncementSet(Updates(next, all)) \o AnnouncementSet(Alives(all))
              \in Seq(Message)
        BY <1>0, UpdateFacts
      <4> QED BY <4>1, <4>2, <1>2
    <3>2. CASE ~available
      BY <3>2, <2>7, <1>4 DEF Update
    <3> QED BY <3>1, <3>2
  <2>8. CASE Reannounce
    <3>1. PICK all \in ListsOf(listed) :
            QueueMessages(AnnouncementSet(Alives(all)))
      BY <2>8 DEF Reannounce
    <3>2. AnnouncementSet(Alives(all)) \in Seq(Message)
      BY <1>0, AliveSetFacts
    <3> QED BY <3>1, <3>2, <1>2
  <2>9. ASSUME \/ \E pairs : Answer(pairs)
               \/ \E r \in Ids, t \in Targets : SendResponse(r, t)
               \/ UNCHANGED vars
        PROVE  queue' = queue
    BY <2>9 DEF Answer, SendResponse, vars, outVars
  <2>10. ~Dispose
    BY DEF Dispose
  <2> QED
    BY <1>3, <1>5, <2>1, <2>2, <2>3, <2>5, <2>6, <2>7, <2>8, <2>9, <2>10
    DEF Next, Application, Network, Timers, SearchFor, SearchAll
<1> QED BY <1>1, <1>5

\* An announcement that is due has been made or waits in the queue.
THEOREM DueWaits == Spec => []DueIsWaiting
<1>1. IInv => DueIsWaiting
  <2> SUFFICES ASSUME IInv, ~disposed, NEW r \in Ids
               PROVE  LET due == IF available /\ r \in listed
                                 THEN "alive" ELSE "byebye"
                      IN  \/ announced[r] = due \/ Waiting(r, due, Len(queue))
                          \/ due = "byebye" /\ announced[r] = "none"
    BY DEF DueIsWaiting
  <2>1. queue \in Seq(Message) /\ \A i \in DOMAIN queue : queue[i] \in Message
    BY DEF IInv, TypeOK
  <2>2. ASSUME NEW k, Promised(r, k)
        PROVE  Waiting(r, k, Len(queue)) \/ announced[r] = k
    BY <2>1, <2>2 DEF Promised, Says, Waiting
  <2>3. ~Waiting(r, "none", Len(queue))
    BY <2>1 DEF Waiting, Message
  <2>4. IF available /\ r \in listed
        THEN Promised(r, "alive")
        ELSE Promised(r, "byebye") \/ Promised(r, "none")
    BY DEF IInv, LastWordIsCurrent
  <2> QED BY <2>2, <2>3, <2>4
<1> QED BY <1>1, Invariance, PTL

\* What waits is neither dropped nor overtaken, and every firing of the
\* message timer brings it nearer.
THEOREM QueueAdvances == Spec => AnnouncementsComeNearer
<1> DEFINE A == ~disposed' =>
                  \A r \in Ids, k \in {"alive", "byebye"}, n \in 1..Len(queue) :
                    Waiting(r, k, n) =>
                      \/ announced'[r] = k
                      \/ /\ Waiting(r, k, n)'
                         /\ ProcessQueue => Waiting(r, k, n - 1)'
<1>1. IInv /\ [Next]_vars => A
  <2> SUFFICES ASSUME IInv, [Next]_vars, ~disposed', NEW r \in Ids,
                      NEW k \in {"alive", "byebye"}, NEW n \in 1..Len(queue),
                      Waiting(r, k, n)
               PROVE  \/ announced'[r] = k
                      \/ /\ Waiting(r, k, n)'
                         /\ ProcessQueue => Waiting(r, k, n - 1)'
    OBVIOUS
  <2>1. queue \in Seq(Message) /\ queue # <<>> /\ bootId \in BootIds
          /\ announced \in Told
    BY DEF IInv, TypeOK, Told
  <2>2. PICK i \in DOMAIN queue : i <= n /\ queue[i].kind = k /\ queue[i].id = r
    BY DEF Waiting
  <2>3. CASE ~ProcessQueue
    <3>1. PICK ms \in Seq(Message) : queue' = queue \o ms
      BY <2>1, <2>3, QueueInOrder
    <3>2. i \in DOMAIN (queue \o ms) /\ (queue \o ms)[i] = queue[i]
      BY <2>1
    <3> QED BY <2>2, <2>3, <3>1, <3>2 DEF Waiting
  <2>4. CASE ProcessQueue
    <3>1. Transmit(<<Head(queue)>>) /\ queue' = Tail(queue)
      BY <2>1, <2>4, QueueInOrder
    <3>2. CASE i = 1
      <4>1. Head(queue) = queue[1] /\ queue[1] \in Message
        BY <2>1, HeadTailProperties
      <4>2. <<Head(queue)>> \in Seq(Sendable)
        BY <4>1 DEF Message, Sendable
      <4>3. Says(<<Head(queue)>>, r, k)
        BY <2>2, <3>2, <4>1 DEF Says
      <4> QED BY <2>1, <3>1, <4>2, <4>3, TransmitFacts
    <3>3. CASE i # 1
      <4>1. i - 1 \in DOMAIN Tail(queue) /\ Tail(queue)[i - 1] = queue[i]
        BY <2>1, <3>3, HeadTailProperties
      <4>2. i - 1 <= n - 1 /\ i - 1 <= n
        BY <2>1, <2>2
      <4> QED BY <2>2, <3>1, <4>1, <4>2 DEF Waiting
    <3> QED BY <3>2, <3>3
  <2> QED BY <2>3, <2>4
<1>2. IInv /\ [Next]_vars => [A]_vars
  BY <1>1
<1>3. Spec => [][A]_vars
  BY <1>2, Invariance, PTL DEF Spec
<1> QED BY <1>3 DEF AnnouncementsComeNearer

=============================================================================
