----------------------------- MODULE TimingProofs -----------------------------
(***************************************************************************)
(* Proofs about Timing: for every set of max-ages, every message delay up  *)
(* to a third of a second and every queue, an offer outlives the loss of   *)
(* eight announcements in a row and re-announcements keep up.              *)
(***************************************************************************)
EXTENDS Timing, TLAPS

-----------------------------------------------------------------------------
(* Sequences.                                                              *)

\* What is left when the head of a sequence is gone.
LEMMA TailFacts ==
    ASSUME NEW S, NEW q \in Seq(S), q # <<>>
    PROVE  /\ Head(q) \in S
           /\ Head(q) = q[1]
           /\ 1 \in DOMAIN q
           /\ Tail(q) \in Seq(S)
           /\ Len(Tail(q)) = Len(q) - 1
           /\ Len(q) \in Nat /\ Len(q) > 0
           /\ \A i \in DOMAIN Tail(q) : i + 1 \in DOMAIN q /\ Tail(q)[i] = q[i + 1]
OBVIOUS

\* What is appended to a queue follows what is in it.
LEMMA AppendFacts ==
    ASSUME NEW S, NEW q \in Seq(S), NEW s \in Seq(S)
    PROVE  /\ q \o s \in Seq(S)
           /\ Len(q \o s) = Len(q) + Len(s)
           /\ \A i \in DOMAIN (q \o s) :
                \/ i \in DOMAIN q /\ (q \o s)[i] = q[i]
                \/ i - Len(q) \in DOMAIN s /\ (q \o s)[i] = s[i - Len(q)]
OBVIOUS

\* An announcement set is the same message three times.
LEMMA SetFacts ==
    ASSUME NEW m \in Nat
    PROVE  /\ AnnouncementSet(m) \in Seq(Nat)
           /\ Len(AnnouncementSet(m)) = 3
           /\ DOMAIN AnnouncementSet(m) = 1..3
           /\ \A i \in DOMAIN AnnouncementSet(m) : AnnouncementSet(m)[i] = m
BY DEF AnnouncementSet

-----------------------------------------------------------------------------
(* Durations.                                                              *)

\* A product grows with its first factor.
LEMMA TimesMonotone ==
    ASSUME NEW i \in Nat, NEW j \in Nat, NEW p \in Nat, i <= j
    PROVE  i * p <= j * p
BY SMT

\* setup_reannouncement_timeout: three periods end three seconds before the
\* max-age does, and no period is empty.
THEOREM ThreePeriods ==
    ASSUME NEW age \in Nat, age > 0
    PROVE  /\ Period(age) \in Nat
           /\ Period(age) >= 1
           /\ age > 6 => 3 * Period(age) + 3 <= age
BY DEF Period

\* A lifetime of more than six seconds outlasts three intervals of the timer
\* that renews it, by nearly two seconds, however both are aligned.
LEMMA LifetimeOutlasts ==
    ASSUME NEW age \in Nat, age > 6,
           NEW i \in Nat, i <= Period(age),
           NEW t \in FirstFires(age)
    PROVE  /\ t \in Int
           /\ FiresAgain(i) \in Nat
           /\ 3 * FiresAgain(i) + 2 * PerSecond < t
           /\ 6 * PerSecond < t
<1> DEFINE P == Period(age)
           E == i * PerSecond
<1>1. PerSecond \in Nat /\ P \in Nat /\ 3 * P + 2 <= age - 1
  BY ThreePeriods, ConstantsAssumption
<1> HIDE DEF P
<1>2. E \in Nat /\ E <= P * PerSecond
  BY <1>1, TimesMonotone DEF P
<1>3. (3 * P + 2) * PerSecond <= (age - 1) * PerSecond
  BY <1>1, TimesMonotone
<1>4. (3 * P + 2) * PerSecond = 3 * (P * PerSecond) + 2 * PerSecond
  BY <1>1
<1>5. 6 * PerSecond <= (age - 1) * PerSecond
  BY <1>1, TimesMonotone
<1>6. t \in Int /\ (age - 1) * PerSecond < t
  <2>1. (age - 1) * PerSecond \in Int /\ (age + 1) * PerSecond \in Int
    BY <1>1
  <2> QED
    BY <2>1 DEF FirstFires
<1>7. 3 * E <= 3 * (P * PerSecond) /\ P * PerSecond \in Nat
  BY <1>1, <1>2
<1> HIDE DEF E
<1>8. 3 * E + 2 * PerSecond <= (age - 1) * PerSecond
  <2>1. (age - 1) * PerSecond \in Int
    BY <1>1
  <2> QED
    BY <2>1, <1>1, <1>2, <1>3, <1>4, <1>7
<1> QED
  BY <1>1, <1>2, <1>5, <1>6, <1>8 DEF FiresAgain, E

-----------------------------------------------------------------------------
(* The steps.                                                              *)

LEMMA InitIInv == Init => IInv
<1> SUFFICES ASSUME Init PROVE IInv
  OBVIOUS
<1> USE ConstantsAssumption DEF Init
<1>1. TypeOK
  <2>1. <<>> \in Seq(Nat) /\ 0 \in 0..MaxLost
    BY ConstantsAssumption
  <2> QED
    BY <2>1 DEF TypeOK
<1>2. StateIsCoherent
  BY DEF StateIsCoherent
<1>3. RenewalIsInTime
  BY DEF RenewalIsInTime
<1>4. RoundHasRoom
  BY DEF RoundHasRoom
<1> QED
  BY <1>1, <1>2, <1>3, <1>4 DEF IInv

\* The interval of a group that is available
LEMMA IntervalFacts ==
    ASSUME NEW i, \E age \in Ages : i = Period(age)
    PROVE  /\ i \in Nat /\ i >= 1
           /\ FiresAgain(i) \in Nat
           /\ FiresAgain(i) >= PerSecond
           /\ PerSecond \in Nat /\ PerSecond >= 3
<1>1. PerSecond \in Nat /\ PerSecond >= 3 /\ Ages \subseteq Nat \ {0}
  BY ConstantsAssumption
<1>2. i \in Nat /\ i >= 1
  BY <1>1, ThreePeriods
<1>3. 1 * PerSecond <= i * PerSecond /\ i * PerSecond \in Nat
  BY <1>1, <1>2, TimesMonotone
<1> QED
  BY <1>1, <1>2, <1>3 DEF FiresAgain

\* When the first timer of an interval may fire
LEMMA FirstFiresFacts ==
    ASSUME NEW i, \E age \in Ages : i = Period(age), NEW t \in FirstFires(i)
    PROVE  /\ t \in Nat /\ t >= 1
           /\ t < FiresAgain(i) + PerSecond
           /\ i >= 2 => t >= 4
<1>1. i \in Nat /\ i >= 1 /\ PerSecond \in Nat /\ PerSecond >= 3
  BY IntervalFacts
<1>2. /\ (i - 1) * PerSecond \in Nat
      /\ (i + 1) * PerSecond = FiresAgain(i) + PerSecond
      /\ FiresAgain(i) \in Nat
  BY <1>1 DEF FiresAgain
<1>3. i >= 2 => 1 * PerSecond <= (i - 1) * PerSecond
  BY <1>1, TimesMonotone
<1> QED
  BY <1>1, <1>2, <1>3 DEF FirstFires

\* However its timer and that of the group are aligned, a resource that has
\* just been renewed lives on until the ninth alive from now.
LEMMA RenewedInTime ==
    ASSUME NEW age \in Ages, age > 6,
           NEW i, \E a \in Ages : i = Period(a), i <= Period(age),
           NEW t \in FirstFires(age),
           NEW u \in Nat, u < FiresAgain(i) + PerSecond,
           NEW waiting \in Nat
    PROVE  LET more == 9 - waiting
           IN  /\ t \in Nat /\ 9 < t
               /\ more > 0 => u + more < t
               /\ more > 3 => u + FiresAgain(i) + (more - 3) < t
               /\ more > 6 => u + FiresAgain(i) + FiresAgain(i) + (more - 6) < t
<1> DEFINE every == FiresAgain(i)
<1>1. /\ i \in Nat /\ every \in Nat /\ every >= PerSecond
      /\ PerSecond \in Nat /\ PerSecond >= 3
  BY IntervalFacts
<1>2. age \in Nat
  BY ConstantsAssumption
<1>3. t \in Int /\ 3 * every + 2 * PerSecond < t /\ 6 * PerSecond < t
  BY <1>1, <1>2, LifetimeOutlasts
<1>4. u < every + PerSecond
  OBVIOUS
<1> HIDE DEF every
<1>5. LET more == 9 - waiting
      IN  /\ t \in Nat /\ 9 < t
          /\ more > 0 => u + more < t
          /\ more > 3 => u + every + (more - 3) < t
          /\ more > 6 => u + every + every + (more - 6) < t
  BY <1>1, <1>3, <1>4
<1> QED
  BY <1>5 DEF every

\* Whatever is sent, and whatever becomes of it, the browser's state stays
\* coherent.
LEMMA TransmitFacts ==
    ASSUME TypeOK, NEW m \in Ages \cup {Byebye}, Transmit(m),
           available' \in BOOLEAN,
           current => known,
           current /\ available' => NoByebyeIn(queue')
    PROVE  /\ known' \in BOOLEAN /\ lifetime' \in Nat /\ left' \in Nat
           /\ current' \in BOOLEAN /\ lost' \in 0..MaxLost
           /\ current' => available' /\ known' /\ NoByebyeIn(queue')
<1> USE DEF TypeOK
<1>1. CASE HearByebye /\ UNCHANGED lost
  BY <1>1 DEF HearByebye
<1>2. CASE HearNothing /\ UNCHANGED lost
  BY <1>2 DEF HearNothing
<1>3. CASE m # Byebye /\ HearAlive(m) /\ lost' = 0
  <2>1. m \in Nat /\ m >= 1 /\ 0 \in 0..MaxLost
    BY <1>3, ConstantsAssumption
  <2>2. PerSecond \in Nat /\ (m - 1) * PerSecond \in Nat
           /\ (m + 1) * PerSecond \in Nat
    BY <2>1, ConstantsAssumption
  <2>3. left' \in Nat
    BY <1>3, <2>2 DEF HearAlive, FirstFires
  <2>4. NoByebyeIn(queue') \in BOOLEAN
    BY DEF NoByebyeIn
  <2> QED
    BY <1>3, <2>1, <2>3, <2>4 DEF HearAlive
<1>4. CASE lost < MaxLost /\ lost' = lost + 1 /\ HearNothing
  <2>1. lost' \in 0..MaxLost
    BY <1>4, ConstantsAssumption
  <2> QED
    BY <1>4, <2>1 DEF HearNothing
<1> QED
  BY <1>1, <1>2, <1>3, <1>4 DEF Transmit

LEMMA ProcessQueueIInv == IInv /\ ProcessQueue => IInv'
<1> SUFFICES ASSUME IInv, ProcessQueue PROVE IInv'
  OBVIOUS
<1> USE DEF IInv
<1>1. /\ sender = "due"
      /\ UNCHANGED <<maxAge, available, byebyeSent, interval, untilRound>>
  BY DEF ProcessQueue, groupVars
<1>2. CASE queue = <<>>
  <2>1. UNCHANGED <<queue, known, lifetime, left, current, lost>> /\ sender' = "none"
    BY <1>2 DEF ProcessQueue, netVars, browserVars
  <2>2. TypeOK'
    BY <1>1, <2>1 DEF TypeOK
  <2>3. StateIsCoherent'
    BY <1>1, <1>2, <2>1 DEF StateIsCoherent, FiresAgain, NoByebyeIn
  <2>4. RenewalIsInTime'
    BY <1>1, <1>2, <2>1 DEF RenewalIsInTime, InTime, FiresAgain
  <2>5. RoundHasRoom'
    <3>1. Len(queue) = 0 /\ MaxQueue \in Nat
      BY <1>2, ConstantsAssumption
    <3> QED
      BY <1>1, <1>2, <2>1, <3>1 DEF RoundHasRoom
  <2> QED
    BY <2>2, <2>3, <2>4, <2>5
<1>3. CASE queue # <<>>
  <2> DEFINE m == Head(queue)
  <2>1. Transmit(m) /\ queue' = Tail(queue) /\ sender' = "waiting"
    BY <1>3 DEF ProcessQueue
  <2>2. /\ queue \in Seq(Nat) /\ queue' \in Seq(Nat)
        /\ Len(queue) \in Nat /\ Len(queue) > 0
        /\ Len(queue') = Len(queue) - 1
        /\ 1 \in DOMAIN queue /\ m = queue[1]
        /\ \A i \in DOMAIN queue' : i + 1 \in DOMAIN queue /\ queue'[i] = queue[i + 1]
    BY <1>3, <2>1, TailFacts DEF TypeOK
  <2>3. m \in Ages \cup {Byebye}
    BY <2>2 DEF StateIsCoherent
  <2> HIDE DEF m
  <2>4. current => available /\ known /\ NoByebyeIn(queue) /\ NoByebyeIn(queue')
                     /\ m # Byebye
    BY <2>2 DEF StateIsCoherent, NoByebyeIn
  <2>5. /\ known' \in BOOLEAN /\ lifetime' \in Nat /\ left' \in Nat
        /\ current' \in BOOLEAN /\ lost' \in 0..MaxLost
        /\ current' => available' /\ known' /\ NoByebyeIn(queue')
    <3>1. available' \in BOOLEAN
      BY <1>1 DEF TypeOK
    <3> QED
      BY <2>1, <2>3, <2>4, <3>1, TransmitFacts
  <2>6. TypeOK'
    BY <1>1, <2>1, <2>2, <2>5 DEF TypeOK
  <2>7. StateIsCoherent'
    <3>1. \A i \in DOMAIN queue' : queue'[i] \in Ages \cup {Byebye}
      BY <2>2 DEF StateIsCoherent
    <3> QED
      BY <1>1, <2>1, <2>5, <3>1 DEF StateIsCoherent, FiresAgain
  <2>8. RenewalIsInTime'
    <3> SUFFICES ASSUME current', lifetime' > 6, interval' <= Period(lifetime')
                 PROVE  InTime(9 - lost)'
      BY DEF RenewalIsInTime
    <3>1. CASE m # Byebye /\ HearAlive(m) /\ lost' = 0
      <4>1. /\ m \in Ages /\ m > 6 /\ interval <= Period(m) /\ left' \in FirstFires(m)
        BY <1>1, <2>3, <3>1 DEF HearAlive
      <4>2. /\ \E a \in Ages : interval = Period(a)
            /\ untilRound \in Nat /\ untilRound < FiresAgain(interval) + PerSecond
        BY <1>1, <2>5 DEF StateIsCoherent, TypeOK
      <4>3. Len(queue') \in Nat
        BY <2>2
      <4>4. LET more == 9 - Len(queue')
            IN  /\ left' \in Nat /\ 9 < left'
                /\ more > 0 => untilRound + more < left'
                /\ more > 3 => untilRound + FiresAgain(interval) + (more - 3) < left'
                /\ more > 6 => untilRound + FiresAgain(interval)
                                 + FiresAgain(interval) + (more - 6) < left'
        BY <4>1, <4>2, <4>3, RenewedInTime
      <4>5. FiresAgain(interval') = FiresAgain(interval) /\ untilRound' = untilRound
        BY <1>1
      <4>6. FiresAgain(interval) \in Nat /\ 9 - lost' = 9
        BY <3>1, <4>2, IntervalFacts
      <4> QED
        BY <2>1, <4>2, <4>3, <4>4, <4>5, <4>6 DEF InTime
    <3>2. CASE lost' = lost + 1 /\ HearNothing
      <4>1. current /\ UNCHANGED <<lifetime, left>>
        BY <3>2 DEF HearNothing
      <4>2. InTime(9 - lost)
        BY <1>1, <4>1 DEF RenewalIsInTime
      <4>3. lost \in Nat /\ left \in Nat /\ untilRound \in Nat
        BY ConstantsAssumption DEF TypeOK
      <4> QED
        BY <1>1, <1>3, <2>1, <2>2, <3>2, <4>1, <4>2, <4>3 DEF InTime, FiresAgain
    <3>3. m # Byebye
      BY <2>1, <2>4 DEF Transmit, HearByebye, HearNothing, HearAlive
    <3> QED
      BY <2>1, <3>1, <3>2, <3>3 DEF Transmit
  <2>9. RoundHasRoom'
    <3>1. MaxQueue \in Nat /\ untilRound \in Nat
      BY ConstantsAssumption DEF TypeOK
    <3> QED
      BY <1>1, <2>1, <2>2, <3>1 DEF RoundHasRoom
  <2> QED
    BY <2>6, <2>7, <2>8, <2>9
<1> QED
  BY <1>2, <1>3

\* What the application or the timer puts behind what is waiting
LEMMA AppendedFacts ==
    ASSUME TypeOK, StateIsCoherent, NEW m \in Ages \cup {Byebye},
           queue' = queue \o AnnouncementSet(m)
    PROVE  /\ queue' \in Seq(Nat)
           /\ Len(queue) \in Nat /\ Len(queue') = Len(queue) + 3
           /\ queue' # <<>>
           /\ \A i \in DOMAIN queue' : queue'[i] \in Ages \cup {Byebye}
           /\ NoByebyeIn(queue) /\ m # Byebye => NoByebyeIn(queue')
<1>1. queue \in Seq(Nat) /\ m \in Nat /\ Len(queue) \in Nat
  BY ConstantsAssumption DEF TypeOK, Byebye
<1>2. /\ AnnouncementSet(m) \in Seq(Nat)
      /\ Len(AnnouncementSet(m)) = 3
      /\ \A i \in DOMAIN AnnouncementSet(m) : AnnouncementSet(m)[i] = m
  BY <1>1, SetFacts
<1> DEFINE s == AnnouncementSet(m)
<1> HIDE DEF s
<1>3. /\ queue' \in Seq(Nat)
      /\ Len(queue') = Len(queue) + 3
      /\ \A i \in DOMAIN queue' :
           \/ i \in DOMAIN queue /\ queue'[i] = queue[i]
           \/ i - Len(queue) \in DOMAIN s /\ queue'[i] = s[i - Len(queue)]
  <2>1. s \in Seq(Nat) /\ Len(s) = 3
    BY <1>2 DEF s
  <2>2. /\ queue \o s \in Seq(Nat)
        /\ Len(queue \o s) = Len(queue) + Len(s)
        /\ \A i \in DOMAIN (queue \o s) :
             \/ i \in DOMAIN queue /\ (queue \o s)[i] = queue[i]
             \/ i - Len(queue) \in DOMAIN s /\ (queue \o s)[i] = s[i - Len(queue)]
    BY <1>1, <2>1, AppendFacts
  <2>3. queue' = queue \o s
    BY DEF s
  <2> QED
    BY <2>1, <2>2, <2>3
<1>4. queue' # <<>>
  BY <1>1, <1>3
<1>5. \A i \in DOMAIN queue' :
        (i \in DOMAIN queue /\ queue'[i] = queue[i]) \/ queue'[i] = m
  BY <1>2, <1>3 DEF s
<1> QED
  BY <1>1, <1>3, <1>4, <1>5 DEF StateIsCoherent, NoByebyeIn

\* The first of an announcement set leaves, the others wait.
LEMMA HeadOfSet ==
    ASSUME NEW m \in Ages \cup {Byebye}
    PROVE  /\ Head(AnnouncementSet(m)) = m
           /\ Tail(AnnouncementSet(m)) \in Seq(Nat)
           /\ Len(Tail(AnnouncementSet(m))) = 2
           /\ Tail(AnnouncementSet(m)) # <<>>
           /\ \A i \in DOMAIN Tail(AnnouncementSet(m)) :
                Tail(AnnouncementSet(m))[i] = m
<1>1. m \in Nat
  BY ConstantsAssumption DEF Byebye
<1>2. Tail(AnnouncementSet(m)) = <<m, m>>
  BY <1>1 DEF AnnouncementSet
<1>3. Head(AnnouncementSet(m)) = m
  BY DEF AnnouncementSet
<1>4. <<m, m>> \in Seq(Nat) /\ Len(<<m, m>>) = 2 /\ <<m, m>> # <<>>
  BY <1>1
<1>5. DOMAIN <<m, m>> = 1..2 /\ \A i \in 1..2 : <<m, m>>[i] = m
  OBVIOUS
<1> QED
  BY <1>2, <1>3, <1>4, <1>5

LEMMA ReannounceIInv == IInv /\ Reannounce => IInv'
<1> SUFFICES ASSUME IInv, Reannounce PROVE IInv'
  OBVIOUS
<1> USE DEF IInv
<1> DEFINE every == FiresAgain(interval)
<1>1. /\ available /\ untilRound = 0
      /\ UNCHANGED <<maxAge, available, byebyeSent, interval>>
      /\ untilRound' = every
      /\ QueueMessages(AnnouncementSet(maxAge))
  BY DEF Reannounce, groupVars
<1>2. maxAge \in Ages /\ maxAge # Byebye
  BY ConstantsAssumption DEF TypeOK, Byebye
<1>3. /\ \E age \in Ages : interval = Period(age)
      /\ interval \in Nat /\ interval >= 1
      /\ every \in Nat /\ every >= PerSecond
      /\ PerSecond \in Nat /\ PerSecond >= 3
      /\ every' = every
  BY <1>1, IntervalFacts DEF StateIsCoherent
<1> HIDE DEF every
<1>4. CASE sender = "none"
  <2>1. /\ Transmit(maxAge) /\ queue' = Tail(AnnouncementSet(maxAge))
        /\ sender' = "waiting"
    BY <1>1, <1>2, <1>4, HeadOfSet DEF QueueMessages
  <2>2. /\ queue' \in Seq(Nat) /\ Len(queue') = 2 /\ queue' # <<>>
        /\ \A i \in DOMAIN queue' : queue'[i] = maxAge
    BY <1>2, <2>1, HeadOfSet
  <2>3. NoByebyeIn(queue')
    BY <1>2, <2>2 DEF NoByebyeIn
  <2>4. current => known
    BY DEF StateIsCoherent
  <2>5. /\ known' \in BOOLEAN /\ lifetime' \in Nat /\ left' \in Nat
        /\ current' \in BOOLEAN /\ lost' \in 0..MaxLost
        /\ current' => available' /\ known' /\ NoByebyeIn(queue')
    <3>1. available' \in BOOLEAN
      BY <1>1 DEF TypeOK
    <3> QED
      BY <1>2, <2>1, <2>3, <2>4, <3>1, TransmitFacts
  <2>6. TypeOK'
    BY <1>1, <1>3, <2>1, <2>2, <2>5 DEF TypeOK
  <2>7. StateIsCoherent'
    BY <1>1, <1>2, <1>3, <2>1, <2>2, <2>5 DEF StateIsCoherent, every
  <2>8. RenewalIsInTime'
    <3> SUFFICES ASSUME current', lifetime' > 6, interval' <= Period(lifetime')
                 PROVE  InTime(9 - lost)'
      BY DEF RenewalIsInTime
    <3>1. CASE HearAlive(maxAge) /\ lost' = 0
      <4>1. maxAge > 6 /\ interval <= Period(maxAge) /\ left' \in FirstFires(maxAge)
        BY <1>1, <3>1 DEF HearAlive
      <4>2. /\ left' \in Nat /\ 9 < left'
            /\ every + 7 < left'
            /\ every + every + 4 < left'
            /\ every + every + every + 1 < left'
        <5>1. LET more == 9 - 2
              IN  /\ left' \in Nat /\ 9 < left'
                  /\ more > 0 => every + more < left'
                  /\ more > 3 => every + FiresAgain(interval) + (more - 3) < left'
                  /\ more > 6 => every + FiresAgain(interval)
                                   + FiresAgain(interval) + (more - 6) < left'
          <6>1. every < FiresAgain(interval) + PerSecond
            BY <1>3 DEF every
          <6> QED
            BY <1>2, <1>3, <4>1, <6>1, RenewedInTime
        <5>2. FiresAgain(interval) = every
          BY DEF every
        <5> QED
          BY <1>3, <5>1, <5>2
      <4>3. FiresAgain(interval') = every
        BY <1>1 DEF every
      <4>4. /\ sender' # "due" /\ untilRound' = every
            /\ 9 - lost' = 9 /\ 9 - Len(queue') = 7
        <5>1. untilRound' = every
          BY <1>1
        <5>2. sender' # "due"
          BY <2>1
        <5>3. 9 - lost' = 9 /\ 9 - Len(queue') = 7
          BY <2>2, <3>1
        <5> QED
          BY <5>1, <5>2, <5>3
      <4> QED
        BY <1>3, <4>2, <4>3, <4>4 DEF InTime
    <3>2. CASE lost' = lost + 1 /\ HearNothing
      <4>1. current /\ UNCHANGED <<lifetime, left>>
        BY <3>2 DEF HearNothing
      <4>2. InTime(9 - lost)
        BY <1>1, <4>1 DEF RenewalIsInTime
      <4>3. lost \in Nat /\ left \in Nat /\ lost' <= 8
        BY <2>5, ConstantsAssumption DEF TypeOK
      <4>4. queue = <<>> /\ Len(queue) = 0
        BY <1>4 DEF StateIsCoherent
      <4>5. FiresAgain(interval) = every /\ FiresAgain(interval') = every
        BY <1>1 DEF every
      <4> DEFINE n == 9 - lost
      <4>6. n \in 2..9 /\ 9 - lost' = n - 1
        BY <3>2, <4>3, <2>5
      <4>7. /\ n > 0 => n < left
            /\ n > 3 => every + (n - 3) < left
            /\ n > 6 => every + every + (n - 6) < left
        BY <1>1, <1>3, <4>2, <4>3, <4>4, <4>5, <4>6 DEF InTime
      <4>8. sender' # "due" /\ untilRound' = every /\ Len(queue') = 2
        BY <1>1, <2>1, <2>2
      <4> HIDE DEF n
      <4> QED
        BY <1>3, <4>1, <4>3, <4>5, <4>6, <4>7, <4>8 DEF InTime
    <3>3. \/ HearAlive(maxAge) /\ lost' = 0
          \/ lost' = lost + 1 /\ HearNothing
      BY <1>2, <2>1 DEF Transmit
    <3> QED
      BY <3>1, <3>2, <3>3
  <2>9. RoundHasRoom'
    <3> SUFFICES ASSUME \A age \in Ages : Period(age) >= 2
                 PROVE  /\ Len(queue') <= MaxQueue
                        /\ MaxQueue >= 4
                        /\ byebyeSent'
                        /\ Len(queue') + 4 <= MaxQueue + untilRound'
      BY <2>1, <2>6 DEF RoundHasRoom
    <3>1. byebyeSent /\ MaxQueue >= 4 /\ MaxQueue \in Nat
      BY <1>1, ConstantsAssumption DEF StateIsCoherent, RoundHasRoom
    <3> QED
      BY <1>1, <1>3, <2>2, <3>1
  <2> QED
    BY <2>6, <2>7, <2>8, <2>9
<1>5. CASE sender # "none"
  <2>1. /\ queue' = queue \o AnnouncementSet(maxAge) /\ HearNothing
        /\ UNCHANGED <<sender, lost>>
    BY <1>1, <1>5 DEF QueueMessages
  <2>2. UNCHANGED <<known, lifetime, left, current>>
    BY <1>1, <2>1 DEF HearNothing, TypeOK
  <2>3. /\ queue' \in Seq(Nat)
        /\ Len(queue) \in Nat /\ Len(queue') = Len(queue) + 3
        /\ queue' # <<>>
        /\ \A i \in DOMAIN queue' : queue'[i] \in Ages \cup {Byebye}
        /\ NoByebyeIn(queue) => NoByebyeIn(queue')
    BY <1>2, <2>1, AppendedFacts
  <2>4. TypeOK'
    BY <1>1, <1>3, <2>1, <2>2, <2>3 DEF TypeOK
  <2>5. StateIsCoherent'
    BY <1>1, <1>3, <1>5, <2>1, <2>2, <2>3 DEF StateIsCoherent, every
  <2>6. RenewalIsInTime'
    <3> SUFFICES ASSUME current', lifetime' > 6, interval' <= Period(lifetime')
                 PROVE  InTime(9 - lost)'
      BY DEF RenewalIsInTime
    <3>1. InTime(9 - lost)
      BY <1>1, <2>2 DEF RenewalIsInTime
    <3>2. lost \in Nat /\ left \in Nat /\ lost <= 8
      BY ConstantsAssumption DEF TypeOK
    <3>3. FiresAgain(interval) = every /\ FiresAgain(interval') = every
      BY <1>1 DEF every
    <3> DEFINE n == 9 - lost
              more == n - Len(queue)
              due == IF sender = "due" THEN 1 ELSE 0
    <3>4. /\ n \in Nat /\ n >= 1 /\ more \in Int /\ due \in Nat
          /\ 9 - lost' = n /\ n - Len(queue') = more - 3
          /\ untilRound' = every
          /\ due = IF sender' = "due" THEN 1 ELSE 0
      BY <1>1, <2>1, <2>3, <3>2
    <3>5. /\ queue # <<>> => n < left + due
          /\ more > 0 => more < left
          /\ more > 3 => every + (more - 3) < left
          /\ more > 6 => every + every + (more - 6) < left
      BY <1>1, <1>3, <3>1, <3>2, <3>3, <3>4 DEF InTime
    <3>6. queue = <<>> => more = n
      BY <3>4
    <3> HIDE DEF n, more, due
    <3>7. n < left + due
      BY <3>2, <3>4, <3>5, <3>6
    <3>8. more <= 9
      BY <2>3, <3>2, <3>4 DEF n, more
    <3> QED
      BY <1>3, <2>2, <3>2, <3>3, <3>4, <3>5, <3>7, <3>8 DEF InTime
  <2>7. RoundHasRoom'
    <3>1. sender = "due" \/ sender = "waiting"
      BY <1>5 DEF TypeOK
    <3>2. byebyeSent /\ every >= 3 /\ every \in Nat
      BY <1>1, <1>3 DEF StateIsCoherent
    <3> QED
      BY <1>1, <2>1, <2>3, <3>1, <3>2, ConstantsAssumption DEF RoundHasRoom
  <2> QED
    BY <2>4, <2>5, <2>6, <2>7
<1> QED
  BY <1>4, <1>5

\* What the application sends first when it makes the group available
LEMMA FirstAnnouncement ==
    ASSUME NEW m \in Ages
    PROVE  /\ InitialAnnouncement(m) \in Seq(Nat)
           /\ Len(InitialAnnouncement(m)) = 4
           /\ \A i \in DOMAIN InitialAnnouncement(m) :
                InitialAnnouncement(m)[i] \in {m, Byebye}
           /\ Head(InitialAnnouncement(m)) = Byebye
           /\ Tail(InitialAnnouncement(m)) = AnnouncementSet(m)
<1>1. m \in Nat
  BY ConstantsAssumption
<1>2. Tail(<<Byebye, m, m, m>>) = <<m, m, m>>
  OBVIOUS
<1>3. <<Byebye, m, m, m>> \in Seq(Nat) /\ Head(<<Byebye, m, m, m>>) = Byebye
  BY <1>1 DEF Byebye
<1>4. Len(<<Byebye, m, m, m>>) = 4
  OBVIOUS
<1>5. /\ DOMAIN <<Byebye, m, m, m>> = 1..4
      /\ \A i \in 1..4 : <<Byebye, m, m, m>>[i] \in {m, Byebye}
  OBVIOUS
<1> QED
  BY <1>2, <1>3, <1>4, <1>5 DEF AnnouncementSet, InitialAnnouncement

LEMMA MakeAvailableIInv == IInv /\ MakeAvailable => IInv'
<1> SUFFICES ASSUME IInv, MakeAvailable PROVE IInv'
  OBVIOUS
<1> USE DEF IInv
<1> DEFINE A == AnnouncementSet(maxAge)
           B == InitialAnnouncement(maxAge)
           ms == IF byebyeSent THEN A ELSE B
<1>1. /\ ~available /\ Len(queue) + 4 <= MaxQueue
      /\ available' = TRUE /\ interval' = Period(maxAge)
      /\ untilRound' \in FirstFires(Period(maxAge))
      /\ QueueMessages(ms)
      /\ byebyeSent' = TRUE /\ maxAge' = maxAge
  BY DEF MakeAvailable, Room
<1>2. maxAge \in Ages /\ maxAge # Byebye /\ ~current
  BY <1>1, ConstantsAssumption DEF TypeOK, Byebye, StateIsCoherent
<1>3. /\ \E age \in Ages : interval' = Period(age)
      /\ interval' \in Nat /\ untilRound' \in Nat
      /\ untilRound' < FiresAgain(interval') + PerSecond
      /\ interval' >= 2 => untilRound' >= 4
  <2>1. \E age \in Ages : Period(maxAge) = Period(age)
    BY <1>2
  <2>2. /\ untilRound' \in Nat /\ Period(maxAge) \in Nat
        /\ untilRound' < FiresAgain(Period(maxAge)) + PerSecond
        /\ Period(maxAge) >= 2 => untilRound' >= 4
    BY <1>1, <2>1, FirstFiresFacts, IntervalFacts
  <2> QED
    BY <1>1, <2>1, <2>2
<1>4. ms = A \/ (~byebyeSent /\ ms = B)
  OBVIOUS
<1> HIDE DEF A, B, ms
<1>5. MaxQueue \in Nat /\ queue \in Seq(Nat) /\ Len(queue) \in Nat /\ MaxQueue >= 4
  BY <1>1, ConstantsAssumption DEF TypeOK
<1>6. CASE sender = "none"
  <2> DEFINE m == Head(ms)
  <2>1. Transmit(m) /\ queue' = Tail(ms) /\ sender' = "waiting"
    BY <1>1, <1>6 DEF QueueMessages
  <2>2. /\ m \in Ages \cup {Byebye}
        /\ queue' \in Seq(Nat) /\ Len(queue') \in 2..3
        /\ \A i \in DOMAIN queue' : queue'[i] = maxAge
    <3>1. CASE ms = A
      <4>1. m = maxAge /\ queue' = Tail(A)
        BY <1>2, <2>1, <3>1, HeadOfSet DEF A
      <4>2. /\ Tail(A) \in Seq(Nat) /\ Len(Tail(A)) = 2
            /\ \A i \in DOMAIN Tail(A) : Tail(A)[i] = maxAge
        BY <1>2, HeadOfSet DEF A
      <4> QED
        BY <1>2, <4>1, <4>2
    <3>2. CASE ms = B
      <4>1. m = Byebye /\ queue' = A
        BY <1>2, <2>1, <3>2, FirstAnnouncement DEF A, B
      <4>2. maxAge \in Nat
        BY <1>2, ConstantsAssumption
      <4>3. /\ A \in Seq(Nat) /\ Len(A) = 3
            /\ \A i \in DOMAIN A : A[i] = maxAge
        BY <4>2, SetFacts DEF A
      <4> QED
        BY <4>1, <4>3
    <3> QED
      BY <1>4, <3>1, <3>2
  <2> HIDE DEF m
  <2>3. NoByebyeIn(queue')
    BY <1>2, <2>2 DEF NoByebyeIn
  <2>4. /\ known' \in BOOLEAN /\ lifetime' \in Nat /\ left' \in Nat
        /\ current' \in BOOLEAN /\ lost' \in 0..MaxLost
        /\ current' => available' /\ known' /\ NoByebyeIn(queue')
    BY <1>1, <1>2, <2>1, <2>2, <2>3, TransmitFacts
  <2>5. TypeOK'
    BY <1>1, <1>2, <1>3, <2>1, <2>2, <2>4 DEF TypeOK
  <2>6. StateIsCoherent'
    BY <1>1, <1>2, <1>3, <2>1, <2>2, <2>4 DEF StateIsCoherent
  <2>7. RenewalIsInTime'
    <3> SUFFICES ASSUME current', lifetime' > 6, interval' <= Period(lifetime')
                 PROVE  InTime(9 - lost)'
      BY DEF RenewalIsInTime
    <3>1. m # Byebye /\ HearAlive(m) /\ lost' = 0
      BY <1>2, <2>1 DEF Transmit, HearByebye, HearNothing
    <3>2. /\ m \in Ages /\ m > 6 /\ interval' <= Period(m)
          /\ left' \in FirstFires(m)
      BY <2>2, <3>1 DEF HearAlive
    <3>3. LET more == 9 - Len(queue')
          IN  /\ left' \in Nat /\ 9 < left'
              /\ more > 0 => untilRound' + more < left'
              /\ more > 3 => untilRound' + FiresAgain(interval') + (more - 3) < left'
              /\ more > 6 => untilRound' + FiresAgain(interval')
                               + FiresAgain(interval') + (more - 6) < left'
      <4>1. Len(queue') \in Nat
        BY <2>2
      <4> QED
        BY <1>3, <3>2, <4>1, RenewedInTime
    <3>4. FiresAgain(interval') \in Nat /\ 9 - lost' = 9 /\ sender' # "due"
      BY <1>3, <2>1, <3>1, IntervalFacts
    <3>5. Len(queue') \in Nat
      BY <2>2
    <3> QED
      BY <1>3, <3>3, <3>4, <3>5 DEF InTime
  <2>8. RoundHasRoom'
    <3> SUFFICES ASSUME \A age \in Ages : Period(age) >= 2
                 PROVE  /\ Len(queue') <= MaxQueue
                        /\ MaxQueue >= 4
                        /\ byebyeSent'
                        /\ Len(queue') + 4 <= MaxQueue + untilRound'
      BY <1>3, <1>5, <2>2, <2>5 DEF RoundHasRoom, TypeOK
    <3>1. untilRound' >= 4 /\ untilRound' \in Nat
      BY <1>1, <1>2, <1>3
    <3>2. byebyeSent'
      BY <1>1
    <3>3. Len(queue') \in Nat /\ Len(queue') <= 3
      BY <2>2
    <3>4. MaxQueue \in Nat /\ MaxQueue >= 4
      BY <1>5
    <3> HIDE DEF IInv
    <3>5. Len(queue') <= MaxQueue /\ Len(queue') + 4 <= MaxQueue + untilRound'
      BY <3>1, <3>3, <3>4
    <3> QED
      BY <3>2, <3>4, <3>5
  <2> QED
    BY <2>5, <2>6, <2>7, <2>8
<1>7. CASE sender # "none"
  <2>1. queue' = queue \o ms /\ HearNothing /\ UNCHANGED <<sender, lost>>
    BY <1>1, <1>7 DEF QueueMessages
  <2>2. UNCHANGED <<known, lifetime, left>> /\ current' = FALSE
    BY <1>2, <2>1 DEF HearNothing, TypeOK
  <2>3. /\ ms \in Seq(Nat) /\ Len(ms) \in 3..4
        /\ byebyeSent => Len(ms) = 3
        /\ \A i \in DOMAIN ms : ms[i] \in Ages \cup {Byebye}
    <3>1. maxAge \in Nat
      BY <1>2, ConstantsAssumption
    <3>2. A \in Seq(Nat) /\ Len(A) = 3 /\ \A i \in DOMAIN A : A[i] = maxAge
      BY <3>1, SetFacts DEF A
    <3>3. /\ B \in Seq(Nat) /\ Len(B) = 4
          /\ \A i \in DOMAIN B : B[i] \in {maxAge, Byebye}
      BY <1>2, FirstAnnouncement DEF B
    <3> QED
      BY <1>2, <1>4, <3>2, <3>3
  <2>4. /\ queue' \in Seq(Nat) /\ Len(queue') = Len(queue) + Len(ms)
        /\ \A i \in DOMAIN queue' :
             \/ i \in DOMAIN queue /\ queue'[i] = queue[i]
             \/ i - Len(queue) \in DOMAIN ms /\ queue'[i] = ms[i - Len(queue)]
    <3>1. ms \in Seq(Nat) /\ queue' = queue \o ms
      BY <2>1, <2>3
    <3>2. /\ queue \o ms \in Seq(Nat)
          /\ Len(queue \o ms) = Len(queue) + Len(ms)
          /\ \A i \in DOMAIN (queue \o ms) :
               \/ i \in DOMAIN queue /\ (queue \o ms)[i] = queue[i]
               \/ i - Len(queue) \in DOMAIN ms /\ (queue \o ms)[i] = ms[i - Len(queue)]
      BY <1>5, <3>1, AppendFacts
    <3> QED
      BY <3>1, <3>2
  <2>5. TypeOK'
    BY <1>1, <1>2, <1>3, <2>1, <2>2, <2>4 DEF TypeOK
  <2>6. StateIsCoherent'
    <3>1. \A i \in DOMAIN queue' : queue'[i] \in Ages \cup {Byebye}
      BY <2>3, <2>4 DEF StateIsCoherent
    <3> QED
      BY <1>1, <1>3, <1>7, <2>1, <2>2, <3>1 DEF StateIsCoherent
  <2>7. RenewalIsInTime'
    BY <2>2 DEF RenewalIsInTime
  <2>8. RoundHasRoom'
    <3> SUFFICES ASSUME \A age \in Ages : Period(age) >= 2
                 PROVE  /\ Len(queue') <= MaxQueue
                        /\ MaxQueue >= 4
                        /\ byebyeSent'
                        /\ Len(queue') + 4 <= MaxQueue + untilRound'
      BY <1>3, <1>5, <2>4, <2>5 DEF RoundHasRoom, TypeOK
    <3>1. untilRound' >= 4 /\ untilRound' \in Nat
      BY <1>1, <1>2, <1>3
    <3>2. byebyeSent /\ Len(ms) = 3
      BY <1>7, <2>3 DEF RoundHasRoom
    <3> QED
      BY <1>1, <1>5, <2>4, <3>1, <3>2
  <2> QED
    BY <2>5, <2>6, <2>7, <2>8
<1> QED
  BY <1>6, <1>7

LEMMA MakeUnavailableIInv == IInv /\ MakeUnavailable => IInv'
<1> SUFFICES ASSUME IInv, MakeUnavailable PROVE IInv'
  OBVIOUS
<1> USE DEF IInv
<1>1. /\ available /\ Len(queue) + 3 <= MaxQueue
      /\ available' = FALSE /\ interval' = 0 /\ untilRound' = 0
      /\ QueueMessages(AnnouncementSet(Byebye))
      /\ UNCHANGED <<maxAge, byebyeSent>>
  BY DEF MakeUnavailable, Room
<1>2. MaxQueue \in Nat /\ queue \in Seq(Nat) /\ Len(queue) \in Nat
  BY ConstantsAssumption DEF TypeOK
<1>3. byebyeSent
  BY <1>1 DEF StateIsCoherent
<1>4. /\ known' \in BOOLEAN /\ lifetime' \in Nat /\ left' \in Nat
      /\ current' = FALSE /\ lost' \in 0..MaxLost
      /\ queue' \in Seq(Nat) /\ Len(queue') <= MaxQueue
      /\ \A i \in DOMAIN queue' : queue'[i] \in Ages \cup {Byebye}
      /\ sender' \in {"waiting", "due"}
  <2>1. CASE sender = "none"
    <3>1. /\ Transmit(Byebye) /\ queue' = Tail(AnnouncementSet(Byebye))
          /\ sender' = "waiting"
      BY <1>1, <2>1, HeadOfSet DEF QueueMessages
    <3>2. /\ queue' \in Seq(Nat) /\ Len(queue') = 2
          /\ \A i \in DOMAIN queue' : queue'[i] = Byebye
      BY <3>1, HeadOfSet
    <3>3. (HearByebye \/ HearNothing) /\ UNCHANGED lost
      BY <3>1 DEF Transmit
    <3>4. Len(queue') <= MaxQueue
      <4>1. Len(queue') = 2
        BY <3>2
      <4> QED
        BY <1>1, <1>2, <4>1
    <3>5. lost' \in 0..MaxLost
      BY <3>3 DEF TypeOK
    <3>6. \A i \in DOMAIN queue' : queue'[i] \in Ages \cup {Byebye}
      BY <3>2
    <3>7. current' = FALSE
      <4>1. available' = FALSE
        BY <1>1
      <4>2. CASE HearByebye
        BY <4>2 DEF HearByebye
      <4>3. CASE HearNothing
        BY <4>1, <4>3 DEF HearNothing
      <4> QED
        BY <3>3, <4>2, <4>3
    <3>8. known' \in BOOLEAN /\ lifetime' \in Nat /\ left' \in Nat
      <4>1. CASE HearByebye
        BY <4>1 DEF HearByebye
      <4>2. CASE HearNothing
        BY <4>2 DEF HearNothing, TypeOK
      <4> QED
        BY <3>3, <4>1, <4>2
    <3> QED
      BY <3>1, <3>2, <3>4, <3>5, <3>6, <3>7, <3>8
  <2>2. CASE sender # "none"
    <3>1. /\ queue' = queue \o AnnouncementSet(Byebye) /\ HearNothing
          /\ UNCHANGED <<sender, lost>>
      BY <1>1, <2>2 DEF QueueMessages
    <3>2. /\ queue' \in Seq(Nat) /\ Len(queue') = Len(queue) + 3
          /\ \A i \in DOMAIN queue' : queue'[i] \in Ages \cup {Byebye}
      BY <3>1, AppendedFacts
    <3>3. UNCHANGED <<known, lifetime, left>> /\ current' = FALSE
      BY <1>1, <3>1 DEF HearNothing, TypeOK
    <3> QED
      BY <1>1, <1>2, <2>2, <3>1, <3>2, <3>3 DEF TypeOK
  <2> QED
    BY <2>1, <2>2
<1>5. TypeOK'
  BY <1>1, <1>4 DEF TypeOK
<1>6. StateIsCoherent'
  BY <1>1, <1>4 DEF StateIsCoherent
<1>7. RenewalIsInTime'
  BY <1>4 DEF RenewalIsInTime
<1>8. RoundHasRoom'
  BY <1>1, <1>3, <1>4 DEF RoundHasRoom
<1> QED
  BY <1>5, <1>6, <1>7, <1>8

LEMMA SetMaxAgeIInv == \A age \in Ages : IInv /\ SetMaxAge(age) => IInv'
<1> SUFFICES ASSUME NEW age \in Ages, IInv, SetMaxAge(age) PROVE IInv'
  OBVIOUS
<1> USE DEF IInv
<1>1. /\ maxAge' = age
      /\ UNCHANGED <<available, byebyeSent, interval, untilRound, queue, sender>>
      /\ UNCHANGED <<known, lifetime, left, current, lost>>
  BY DEF SetMaxAge, sendVars, netVars, browserVars
<1>2. TypeOK'
  BY <1>1 DEF TypeOK
<1>3. StateIsCoherent'
  BY <1>1 DEF StateIsCoherent, FiresAgain, NoByebyeIn
<1>4. RenewalIsInTime'
  BY <1>1 DEF RenewalIsInTime, InTime, FiresAgain
<1>5. RoundHasRoom'
  BY <1>1 DEF RoundHasRoom
<1> QED
  BY <1>2, <1>3, <1>4, <1>5

LEMMA ExpireIInv == IInv /\ Expire => IInv'
<1> SUFFICES ASSUME IInv, Expire PROVE IInv'
  OBVIOUS
<1> USE DEF IInv
<1>1. /\ known' = FALSE /\ lifetime' = 0 /\ current' = FALSE
      /\ UNCHANGED <<maxAge, available, byebyeSent, interval, untilRound>>
      /\ UNCHANGED <<queue, sender, left, lost>>
  BY DEF Expire, groupVars, sendVars
<1>2. TypeOK'
  BY <1>1 DEF TypeOK
<1>3. StateIsCoherent'
  BY <1>1 DEF StateIsCoherent, FiresAgain
<1>4. RenewalIsInTime'
  BY <1>1 DEF RenewalIsInTime
<1>5. RoundHasRoom'
  BY <1>1 DEF RoundHasRoom
<1> QED
  BY <1>2, <1>3, <1>4, <1>5

\* A renewal that is in time leaves a moment to live.
LEMMA InTimeLeavesTime ==
    ASSUME TypeOK, RenewalIsInTime, current, lifetime > 6,
           interval <= Period(lifetime)
    PROVE  left > 0
<1>1. InTime(9 - lost)
  BY DEF RenewalIsInTime
<1>2. /\ lost \in 0..8 /\ left \in Nat /\ untilRound \in Nat
  BY ConstantsAssumption DEF TypeOK
<1>3. queue = <<>> => Len(queue) = 0
  OBVIOUS
<1> QED
  BY <1>1, <1>2, <1>3 DEF InTime

LEMMA TickIInv == IInv /\ Tick => IInv'
<1> SUFFICES ASSUME IInv, Tick PROVE IInv'
  OBVIOUS
<1> USE DEF IInv
<1>1. /\ sender # "due"
      /\ available => untilRound > 0
      /\ known => left > 0
      /\ sender' = IF sender = "waiting" THEN "due" ELSE "none"
      /\ untilRound' = IF available THEN untilRound - 1 ELSE 0
      /\ left' = IF known THEN left - 1 ELSE 0
      /\ UNCHANGED <<maxAge, available, byebyeSent, interval>>
      /\ UNCHANGED <<queue, known, lifetime, current, lost>>
  BY DEF Tick, groupVars
<1>2. TypeOK'
  BY <1>1 DEF TypeOK
<1>3. /\ untilRound \in Nat /\ left \in Nat /\ sender \in {"none", "waiting"}
      /\ FiresAgain(interval') = FiresAgain(interval)
  BY <1>1 DEF TypeOK
<1>4. StateIsCoherent'
  <2>1. available => /\ FiresAgain(interval) \in Nat /\ PerSecond \in Nat
                     /\ untilRound < FiresAgain(interval) + PerSecond
    BY IntervalFacts DEF StateIsCoherent
  <2>2. available' => untilRound' < FiresAgain(interval') + PerSecond
    BY <1>1, <1>3, <2>1
  <2>3. sender' = "none" => queue' = <<>>
    BY <1>1, <1>3 DEF StateIsCoherent
  <2> QED
    BY <1>1, <2>2, <2>3 DEF StateIsCoherent, NoByebyeIn
<1>5. RenewalIsInTime'
  <2> SUFFICES ASSUME current', lifetime' > 6, interval' <= Period(lifetime')
               PROVE  InTime(9 - lost)'
    BY DEF RenewalIsInTime
  <2>1. InTime(9 - lost)
    BY <1>1 DEF RenewalIsInTime
  <2>2. available /\ known /\ untilRound' = untilRound - 1 /\ left' = left - 1
    BY <1>1 DEF StateIsCoherent
  <2>3. /\ FiresAgain(interval) \in Nat
        /\ lost \in 0..8
    BY <2>2, IntervalFacts, ConstantsAssumption DEF StateIsCoherent, TypeOK
  <2>4. queue # <<>> => sender = "waiting" /\ sender' = "due"
    BY <1>1, <1>3 DEF StateIsCoherent
  <2> QED
    BY <1>1, <1>3, <2>1, <2>2, <2>3, <2>4 DEF InTime
<1>6. RoundHasRoom'
  BY <1>1, <1>3, ConstantsAssumption DEF RoundHasRoom
<1> QED
  BY <1>2, <1>4, <1>5, <1>6

\* The invariant of the timers, for every max-age, message delay and queue.
THEOREM TimingInvariant == Spec => []IInv
<1>1. Init => IInv
  BY InitIInv
<1>2. IInv /\ [Next]_vars => IInv'
  <2> SUFFICES ASSUME IInv, [Next]_vars PROVE IInv'
    OBVIOUS
  <2>1. CASE UNCHANGED vars
    <3>1. /\ UNCHANGED <<maxAge, available, byebyeSent, interval, untilRound>>
          /\ UNCHANGED <<queue, sender, known, lifetime, left, current, lost>>
      BY <2>1 DEF vars, groupVars, sendVars, netVars, browserVars
    <3> QED
      BY <3>1 DEF IInv, TypeOK, StateIsCoherent, RenewalIsInTime, RoundHasRoom,
                  InTime, NoByebyeIn, FiresAgain
  <2> QED
    BY <2>1, MakeAvailableIInv, MakeUnavailableIInv, SetMaxAgeIInv, ExpireIInv,
       ReannounceIInv, ProcessQueueIInv, TickIInv DEF Next
<1> QED
  BY <1>1, <1>2, PTL DEF Spec

\* An offer is not forgotten while it lasts, though the network loses eight
\* announcements in a row, unless its max-age is six seconds or less or was
\* set after the re-announcement timer.
THEOREM OffersOutliveLoss == Spec => []OfferOutlivesLoss
<1>1. IInv => OfferOutlivesLoss
  BY InTimeLeavesTime DEF IInv, OfferOutlivesLoss
<1> QED
  BY <1>1, TimingInvariant, PTL

\* Re-announcements with a period of two seconds or more keep up.
THEOREM QueuesKeepUp == Spec => []QueueKeepsUp
<1>1. IInv => QueueKeepsUp
  BY DEF IInv, QueueKeepsUp, RoundHasRoom
<1> QED
  BY <1>1, TimingInvariant, PTL

=============================================================================
