-------------------------------- MODULE Timing --------------------------------
(***************************************************************************)
(* The clocks of discovery (gssdp-resource-group.c and                     *)
(* gssdp-resource-browser.c): ResourceGroup and ResourceBrowser let their  *)
(* timers fire at any time, this module gives them their durations.        *)
(*                                                                         *)
(* A group with one resource announces it, re-announces it and takes it    *)
(* back through its queue; the network loses announcements; a browser of   *)
(* its target forgets it when nothing has renewed it for the max-age that  *)
(* its last announcement carried.  The unit of time is the delay between   *)
(* two messages of the queue (message_delay).  The main loop dispatches a  *)
(* timer when it is due, in any order with others that are due; sources    *)
(* made by g_timeout_source_new_seconds are first aligned with the timers  *)
(* of the whole process, which moves them by less than a second.           *)
(***************************************************************************)
EXTENDS Integers, Sequences

CONSTANTS
    PerSecond,  \* message delays in a second
    Ages,       \* what the application sets max_age to, in seconds
    MaxLost,    \* announcements the network loses in a row
    MaxQueue    \* bound: messages waiting when the application adds more

\* message_delay is a third of a second or less; by default it is 120 ms.
\* Nothing survives the loss of three whole re-announcements.
ASSUME ConstantsAssumption ==
    /\ PerSecond \in Nat /\ PerSecond >= 3
    /\ Ages \subseteq Nat \ {0}
    /\ MaxLost \in 0..8
    /\ MaxQueue \in Nat

VARIABLES
    maxAge,     \* priv->max_age
    available,  \* priv->available
    byebyeSent, \* resource->initial_byebye_sent
    interval,   \* the seconds priv->timeout_src was made with
    untilRound, \* ticks until it fires
    queue,      \* priv->message_queue: max-ages of alives, 0 for a byebye
    sender,     \* priv->message_src: "none", or attached and "waiting" or "due"
    known,      \* the resource is in the browser's cache
    lifetime,   \* the max-age its last announcement carried
    left,       \* ticks until it expires there
    current,    \* history: renewed by what the available group says now
    lost        \* history: announcements lost since one arrived

groupVars   == <<maxAge, available, byebyeSent, interval>>
sendVars    == <<queue, sender>>
browserVars == <<known, lifetime, left, current>>
netVars     == <<browserVars, lost>>
vars == <<groupVars, untilRound, sendVars, netVars>>

Byebye == 0

NoByebyeIn(q) == \A i \in DOMAIN q : q[i] # Byebye

-----------------------------------------------------------------------------
(* Durations.                                                              *)

\* Mutant: a second more, which still makes three re-announcements.
PeriodThird(age) == IF age > 6 THEN age \div 3 ELSE age

\* setup_reannouncement_timeout: seconds between two re-announcements
Period(age) == IF age > 6 THEN (age \div 3) - 1 ELSE age

\* Ticks until a source of so many seconds, just attached, first fires
FirstFires(seconds) ==
    ((seconds - 1) * PerSecond + 1)..((seconds + 1) * PerSecond - 1)

\* Once aligned it keeps its interval.
FiresAgain(seconds) == seconds * PerSecond

-----------------------------------------------------------------------------
(* The network and the browser.                                            *)

\* Nothing arrives; a resource that is taken back is not current.
HearNothing ==
    /\ UNCHANGED <<known, lifetime, left>>
    /\ current' = (current /\ available')

\* resource_available: whatever the cache held, its timer is a new one.
\* What the group says now are the alives that no byebye is waiting behind.
HearAlive(age) ==
    /\ known' = TRUE
    /\ lifetime' = age
    /\ left' \in FirstFires(age)
    /\ current' = (available' /\ NoByebyeIn(queue'))

\* resource_unavailable
HearByebye == known' = FALSE /\ lifetime' = 0 /\ left' = 0 /\ current' = FALSE

\* _gssdp_client_send_message, and what the network makes of it
Transmit(m) ==
    \/ m = Byebye /\ (HearByebye \/ HearNothing) /\ UNCHANGED lost
    \/ m # Byebye /\ HearAlive(m) /\ lost' = 0
    \/ m # Byebye /\ lost < MaxLost /\ lost' = lost + 1 /\ HearNothing

\* resource_expire
Expire ==
    /\ known /\ left = 0
    /\ known' = FALSE /\ lifetime' = 0 /\ current' = FALSE
    /\ UNCHANGED <<groupVars, untilRound, sendVars, left, lost>>

-----------------------------------------------------------------------------
(* The group.                                                              *)

\* Mutant: four rounds of every announcement.
AnnouncementSetOfFour(m) == <<m, m, m, m>>

\* send_announcement_set: DEFAULT_ANNOUNCEMENT_SET_SIZE rounds
AnnouncementSet(m) == <<m, m, m>>

\* The initial byebye goes before the first announcement set.
InitialAnnouncement(m) == <<Byebye, m, m, m>>

\* queue_message for each of ms: the first leaves at once if no message timer
\* is attached, which then is attached for the others.
QueueMessages(ms) ==
    IF sender = "none"
    THEN queue' = Tail(ms) /\ Transmit(Head(ms)) /\ sender' = "waiting"
    ELSE queue' = queue \o ms /\ HearNothing /\ UNCHANGED <<sender, lost>>

\* process_queue as the message timer
ProcessQueue ==
    /\ sender = "due"
    /\ UNCHANGED <<groupVars, untilRound>>
    /\ IF queue = <<>>
       THEN sender' = "none" /\ UNCHANGED <<queue, netVars>>
       ELSE queue' = Tail(queue) /\ Transmit(Head(queue)) /\ sender' = "waiting"

Init ==
    /\ maxAge \in Ages
    /\ available = FALSE
    /\ byebyeSent = FALSE
    /\ interval = 0
    /\ untilRound = 0
    /\ queue = <<>>
    /\ sender = "none"
    /\ known = FALSE
    /\ lifetime = 0
    /\ left = 0
    /\ current = FALSE
    /\ lost = 0

Room(n) == Len(queue) + n <= MaxQueue

\* set_available(TRUE)
MakeAvailable ==
    /\ ~available /\ Room(4)
    /\ available' = TRUE
    /\ interval' = Period(maxAge)
    /\ untilRound' \in FirstFires(Period(maxAge))
    /\ QueueMessages(IF byebyeSent THEN AnnouncementSet(maxAge)
                     ELSE InitialAnnouncement(maxAge))
    /\ byebyeSent' = TRUE
    /\ UNCHANGED maxAge

\* set_available(FALSE)
MakeUnavailable ==
    /\ available /\ Room(3)
    /\ available' = FALSE
    /\ QueueMessages(AnnouncementSet(Byebye))
    /\ interval' = 0
    /\ untilRound' = 0
    /\ UNCHANGED <<maxAge, byebyeSent>>

\* set_max_age: a timer that runs keeps its interval.
SetMaxAge(age) ==
    /\ maxAge' = age
    /\ UNCHANGED <<available, byebyeSent, interval, untilRound, sendVars, netVars>>

\* resource_group_timeout
Reannounce ==
    /\ available /\ untilRound = 0
    /\ UNCHANGED groupVars
    /\ untilRound' = FiresAgain(interval)
    /\ QueueMessages(AnnouncementSet(maxAge))

\* Time passes when no timer is due.
Tick ==
    /\ sender # "due"
    /\ available => untilRound > 0
    /\ known => left > 0
    /\ sender' = IF sender = "waiting" THEN "due" ELSE "none"
    /\ untilRound' = IF available THEN untilRound - 1 ELSE 0
    /\ left' = IF known THEN left - 1 ELSE 0
    /\ UNCHANGED <<groupVars, queue, known, lifetime, current, lost>>

Next ==
    \/ MakeAvailable
    \/ MakeUnavailable
    \/ \E age \in Ages : SetMaxAge(age)
    \/ Reannounce
    \/ ProcessQueue
    \/ Expire
    \/ Tick

Spec == Init /\ [][Next]_vars

-----------------------------------------------------------------------------
(* Properties.                                                             *)

\* "We want to re-announce at least 3 times before the resource group
\* expires": a browser that has heard of an offer does not forget it while it
\* lasts, though the network loses eight announcements in a row, which is two
\* whole re-announcements and two thirds of a third.
\* It may if its max-age is so short that it is re-announced when it expires,
\* or was set after the timer that re-announces it.
OfferOutlivesLoss ==
    available /\ known /\ current /\ lifetime > 6 /\ interval <= Period(lifetime)
        => left > 0

\* What is sent periodically has left before it is sent again, if there is
\* time for it: re-announcements never add up to a queue longer than the
\* application's own calls made it, and so a byebye never waits behind them.
QueueKeepsUp ==
    (\A age \in Ages : Period(age) >= 2)
        => Len(queue) <= MaxQueue

-----------------------------------------------------------------------------
(* The inductive invariant of TimingProofs.                                *)

TypeOK ==
    /\ maxAge \in Ages
    /\ available \in BOOLEAN
    /\ byebyeSent \in BOOLEAN
    /\ interval \in Nat
    /\ untilRound \in Nat
    /\ queue \in Seq(Nat)
    /\ sender \in {"none", "waiting", "due"}
    /\ known \in BOOLEAN
    /\ lifetime \in Nat
    /\ left \in Nat
    /\ current \in BOOLEAN
    /\ lost \in 0..MaxLost

\* What the variables have to do with each other
StateIsCoherent ==
    /\ \A i \in DOMAIN queue : queue[i] \in Ages \cup {Byebye}
    /\ sender = "none" => queue = <<>>
    /\ available => /\ byebyeSent
                    /\ \E age \in Ages : interval = Period(age)
                    /\ untilRound < FiresAgain(interval) + PerSecond
    /\ current => available /\ known /\ NoByebyeIn(queue)

\* The n-th alive from now leaves before the resource expires: those in the
\* queue leave one a tick, and of those that are not yet there the next three
\* come with the next re-announcement, and so on.
InTime(n) ==
    LET more == n - Len(queue)
        every == FiresAgain(interval)
    IN  /\ queue # <<>> => n < left + (IF sender = "due" THEN 1 ELSE 0)
        /\ more > 0 => untilRound + more < left
        /\ more > 3 => untilRound + every + (more - 3) < left
        /\ more > 6 => untilRound + every + every + (more - 6) < left

\* Of nine announcements in a row one arrives.
RenewalIsInTime ==
    current /\ lifetime > 6 /\ interval <= Period(lifetime) => InTime(9 - lost)

\* What the application queued leaves room for the next re-announcement.
RoundHasRoom ==
    (\A age \in Ages : Period(age) >= 2) =>
        /\ Len(queue) <= MaxQueue
        /\ available => MaxQueue >= 4
        /\ ~byebyeSent => sender = "none"
        /\ available /\ sender = "due" =>
             Len(queue) + 3 <= MaxQueue + untilRound
        /\ available /\ sender = "waiting" =>
             Len(queue) + 4 <= MaxQueue + untilRound

IInv == TypeOK /\ StateIsCoherent /\ RenewalIsInTime /\ RoundHasRoom

=============================================================================
