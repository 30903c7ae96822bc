---------------------------- MODULE ResourceGroup ----------------------------
(***************************************************************************)
(* GSSDPResourceGroup (libgssdp/gssdp-resource-group.c): the announcer.    *)
(*                                                                         *)
(* A group holds resources, tells the network about them (ssdp:alive,      *)
(* ssdp:byebye, ssdp:update) through one queue that a timer drains, and    *)
(* answers searches after a random delay.  Everything runs on one main     *)
(* loop, so the steps of this module are the API calls, the timer          *)
(* callbacks and the receipt of a search, in any order.                    *)
(*                                                                         *)
(* The list of resources is prepended to and ids grow, so its order is the *)
(* descending order of ids: the module keeps the set and derives the list. *)
(* Timers have no duration here: a timer that is attached may fire.        *)
(***************************************************************************)
EXTENDS Integers, Sequences, FiniteSets

CONSTANTS
    MaxId,          \* bound: resources ever added (priv->last_resource_id)
    Targets,        \* resource targets, records [type, version]
    TargetOf,       \* the target given to the i-th successful add_resource
    MaxBoot,        \* bound: boot ids an application passes to update()
    UDA11,          \* the client speaks UDA 1.1, not 1.0
    MaxQueue,       \* bound: messages waiting in priv->message_queue
    MaxResponses    \* bound: equal responses pending at once

Ids == 1..MaxId

ASSUME ConstantsAssumption ==
    /\ MaxId \in Nat
    /\ \A t \in Targets : t.version \in Nat
    /\ TargetOf \in [Ids -> Targets]
    /\ MaxBoot \in Nat
    /\ UDA11 \in BOOLEAN
    /\ MaxQueue \in Nat
    /\ MaxResponses \in Nat

VARIABLES
    available,      \* priv->available
    listed,         \* ids of priv->resources
    lastId,         \* priv->last_resource_id
    byebyeSent,     \* resources whose initial_byebye_sent is set
    responses,      \* pending DiscoveryResponses, per resource and target
    queue,          \* priv->message_queue
    messageSrc,     \* priv->message_src # NULL
    timeoutSrc,     \* priv->timeout_src # NULL
    timeoutSources, \* re-announcement sources attached to the main context
    bootId,         \* the client's boot id
    disposed,       \* dispose() has run
    wire,           \* what the last step handed to the client to send
    announced       \* history: the last announcement sent, per resource

groupVars == <<available, listed, lastId, byebyeSent>>
timerVars == <<timeoutSrc, timeoutSources>>
outVars   == <<queue, messageSrc, wire, announced>>
vars == <<groupVars, timerVars, outVars, responses, bootId, disposed>>

-----------------------------------------------------------------------------
(* Messages.  A queued message names its resource; id 0 is a resource that *)
(* add_resource refused.  The BOOTID header is added when it is sent.      *)

BootIds == -1..MaxBoot

Message == [kind : {"alive", "byebye", "update"}, id : 0..MaxId, next : BootIds]

WireMessage == [kind : {"alive", "byebye", "update", "response"},
                id : 0..MaxId, next : BootIds, boot : BootIds]

Msg(k, r) == [kind |-> k, id |-> r, next |-> -1]

Announces(m, r) == m.id = r /\ m.kind \in {"alive", "byebye"}

\* The last announcement about r in the sequence ms is of kind k.
Says(ms, r, k) ==
    \E i \in DOMAIN ms :
        /\ ms[i].id = r /\ ms[i].kind = k
        /\ \A j \in DOMAIN ms : j > i => ~Announces(ms[j], r)

Silent(ms, r) == \A i \in DOMAIN ms : ~Announces(ms[i], r)

-----------------------------------------------------------------------------
(* Sending.                                                                *)

\* _gssdp_client_send_message for each of ms, in order.
Transmit(ms) ==
    /\ wire' = [i \in DOMAIN ms |->
                  [kind |-> ms[i].kind, id |-> ms[i].id, next |-> ms[i].next,
                   boot |-> bootId]]
    /\ announced' =
         [r \in Ids |->
            IF \E k \in {"alive", "byebye"} : Says(ms, r, k)
            THEN CHOOSE k \in {"alive", "byebye"} : Says(ms, r, k)
            ELSE announced[r]]

TransmitNothing == wire' = <<>> /\ UNCHANGED announced

\* queue_message for each of ms, in order: when no message timer is attached
\* the first goes out at once and the timer is attached for the others.
QueueMessages(ms) ==
    IF ms = <<>> THEN
        TransmitNothing /\ UNCHANGED <<queue, messageSrc>>
    ELSE IF messageSrc THEN
        queue' = queue \o ms /\ TransmitNothing /\ UNCHANGED messageSrc
    ELSE
        /\ queue' = Tail(queue \o ms)
        /\ Transmit(<<Head(queue \o ms)>>)
        /\ messageSrc' = TRUE

Room(n) == Len(queue) + n <= MaxQueue

-----------------------------------------------------------------------------
(* Announcement sets.                                                      *)

\* The list order of a set of resources: newest (largest id) first.
ListsOf(S) == {l \in [1..Cardinality(S) -> S] :
                 /\ \A r \in S : \E i \in DOMAIN l : l[i] = r
                 /\ \A i, j \in DOMAIN l : i < j => l[i] > l[j]}

Round(kind, next, l) ==
    [i \in DOMAIN l |-> [kind |-> kind, id |-> l[i], next |-> next]]

\* resource_alive, resource_byebye, resource_update for each resource of l.
\* The resources of an available group have all had their initial byebye
\* (InitialByebyesDone), so resource_alive adds none to an announcement set.
Alives(l) == Round("alive", -1, l)

Byebyes(l) == Round("byebye", -1, l)

Updates(next, l) == Round("update", next, l)

\* send_announcement_set: DEFAULT_ANNOUNCEMENT_SET_SIZE rounds over the list
AnnouncementSet(round) == round \o round \o round

Alive(r) == Msg("alive", r)

Byebye(r) == Msg("byebye", r)

\* setup_reannouncement_timeout overwrites the pointer: whatever source it
\* named stays attached to the main context.
SetupReannouncement(attached) ==
    timeoutSrc' = TRUE /\ timeoutSources' = attached + 1

\* Mutant: update() forgets to destroy the running source.
AttachedLeaked == timeoutSources

\* The sources left after g_source_destroy of the one priv->timeout_src names
Attached == IF timeoutSrc THEN timeoutSources - 1 ELSE timeoutSources

-----------------------------------------------------------------------------
Init ==
    /\ available = FALSE
    /\ listed = {}
    /\ lastId = 0
    /\ byebyeSent = {}
    /\ responses = [p \in Ids \X Targets |-> 0]
    /\ queue = <<>>
    /\ messageSrc = FALSE
    /\ timeoutSrc = FALSE
    /\ timeoutSources = 0
    /\ bootId = -1
    /\ disposed = FALSE
    /\ wire = <<>>
    /\ announced = [r \in Ids |-> "none"]

\* Mutant: the initial byebyes follow the alives.
InitialAnnouncementSwapped(fresh, all) ==
    AnnouncementSet(Alives(all)) \o Byebyes(fresh)

\* What becoming available sends: the byebyes still due, then the alives.
InitialAnnouncement(fresh, all) ==
    Byebyes(fresh) \o AnnouncementSet(Alives(all))

\* Mutant: initial_byebye_sent stays unset.
NotMarked(S) == byebyeSent

\* send_initial_resource_byebye has been through S.
Marked(S) == byebyeSent \cup S

\* set_available(TRUE): the initial byebyes of every resource that has not
\* had one, then three rounds of alives.  Only the first of the three rounds
\* of send_initial_resource_byebye finds anything to send.
MakeAvailable ==
    /\ ~disposed /\ ~available
    /\ available' = TRUE
    /\ SetupReannouncement(timeoutSources)
    /\ \E fresh \in ListsOf(listed \ byebyeSent), all \in ListsOf(listed) :
         LET ms == InitialAnnouncement(fresh, all)
         IN  Room(Len(ms)) /\ QueueMessages(ms)
    /\ byebyeSent' = Marked(listed)
    /\ UNCHANGED <<listed, lastId, responses, bootId, disposed>>

\* set_available(FALSE): three rounds of byebyes, no more re-announcements.
MakeUnavailable ==
    /\ ~disposed /\ available
    /\ available' = FALSE
    /\ \E all \in ListsOf(listed) :
         LET byes == AnnouncementSet(Byebyes(all))
         IN  Room(Len(byes)) /\ QueueMessages(byes)
    /\ timeoutSources' = Attached
    /\ timeoutSrc' = FALSE
    /\ UNCHANGED <<listed, lastId, byebyeSent, responses, bootId, disposed>>

\* Mutant: a resource added to an available group is announced right away.
FirstWords(r) == <<Alive(r)>>

\* resource_alive of a resource that has not been announced
FirstAnnouncement(r) == <<Byebye(r), Alive(r)>>

\* Mutant: add_resource announces whatever the group's availability.
AddResourceAnnounces ==
    /\ ~disposed /\ lastId < MaxId /\ Room(2)
    /\ lastId' = lastId + 1
    /\ listed' = listed \cup {lastId + 1}
    /\ QueueMessages(FirstAnnouncement(lastId + 1))
    /\ byebyeSent' = Marked({lastId + 1})
    /\ UNCHANGED <<available, timerVars, responses, bootId, disposed>>

\* Mutant: the id is taken before last_resource_id is incremented, so that the
\* first one is 0, which stands for failure.
AddResourcePostfix ==
    /\ ~disposed /\ lastId < MaxId /\ Room(2)
    /\ lastId' = lastId + 1
    /\ listed' = listed \cup {lastId}
    /\ IF available
       THEN /\ QueueMessages(FirstAnnouncement(lastId))
            /\ byebyeSent' = Marked({lastId})
       ELSE QueueMessages(<<>>) /\ UNCHANGED byebyeSent
    /\ UNCHANGED <<available, timerVars, responses, bootId, disposed>>

\* add_resource: an available group announces it once, after its byebye.
AddResource ==
    /\ ~disposed /\ lastId < MaxId /\ Room(2)
    /\ lastId' = lastId + 1
    /\ listed' = listed \cup {lastId + 1}
    /\ IF available
       THEN /\ QueueMessages(FirstAnnouncement(lastId + 1))
            /\ byebyeSent' = Marked({lastId + 1})
       ELSE QueueMessages(<<>>) /\ UNCHANGED byebyeSent
    /\ UNCHANGED <<available, timerVars, responses, bootId, disposed>>

\* Mutant: resource_free forgets the pending responses.
ResponsesKept(r) == responses

\* The responses left when those of r are freed.
ResponsesWithout(r) ==
    [p \in Ids \X Targets |-> IF p[1] = r THEN 0 ELSE responses[p]]

\* Mutant: a resource is freed without a byebye.
NoLastWords(r) == <<>>

\* What resource_free queues.
LastWords(r) == IF available THEN <<Byebye(r)>> ELSE <<>>

\* add_resource with a target that is no regular expression: the resource is
\* freed again, which says byebye for it if the group is available.  Bound:
\* one such byebye waits at a time.
RefuseResource ==
    /\ ~disposed /\ Room(1)
    /\ \A i \in DOMAIN queue : queue[i].id # 0
    /\ QueueMessages(LastWords(0))
    /\ UNCHANGED <<groupVars, timerVars, responses, bootId, disposed>>

\* remove_resource, resource_free: pending answers are cancelled, and an
\* available group says byebye, once.
RemoveResource(r) ==
    /\ ~disposed /\ r \in listed /\ Room(1)
    /\ listed' = listed \ {r}
    /\ responses' = ResponsesWithout(r)
    /\ QueueMessages(LastWords(r))
    /\ UNCHANGED <<available, lastId, byebyeSent, timerVars, bootId, disposed>>

\* gssdp_resource_group_update.  The updates are queued while the client has
\* the old boot id; every message still queued leaves with the new one.
Update(next) ==
    /\ ~disposed /\ UDA11
    /\ bootId' = next
    /\ IF available
       THEN /\ \E all \in ListsOf(listed) :
                 LET burst == AnnouncementSet(Updates(next, all))
                                \o AnnouncementSet(Alives(all))
                 IN  Room(Len(burst)) /\ QueueMessages(burst)
            /\ SetupReannouncement(Attached)
       ELSE QueueMessages(<<>>) /\ UNCHANGED timerVars
    /\ UNCHANGED <<groupVars, responses, disposed>>

\* Mutant: resource_group_timeout does not keep its source (returns FALSE).
ReannounceOnce ==
    /\ ~disposed /\ timeoutSources > 0
    /\ timeoutSources' = timeoutSources - 1
    /\ \E all \in ListsOf(listed) :
         LET alives == AnnouncementSet(Alives(all))
         IN  Room(Len(alives)) /\ QueueMessages(alives)
    /\ UNCHANGED <<groupVars, timeoutSrc, responses, bootId, disposed>>

\* resource_group_timeout: announce everything again.
Reannounce ==
    /\ ~disposed /\ timeoutSources > 0
    /\ \E all \in ListsOf(listed) :
         LET alives == AnnouncementSet(Alives(all))
         IN  Room(Len(alives)) /\ QueueMessages(alives)
    /\ UNCHANGED <<groupVars, timerVars, responses, bootId, disposed>>

\* The resources a search for target t finds.
Matching(t) == {r \in listed : /\ t.type = TargetOf[r].type
                               /\ t.version <= TargetOf[r].version}

\* message_received_cb with a valid M-SEARCH: one delayed response for every
\* pair of a matching resource and the target it answers with.
Answer(pairs) ==
    /\ ~disposed /\ available
    /\ \A p \in pairs : responses[p] < MaxResponses
    /\ responses' = [p \in Ids \X Targets |->
                       IF p \in pairs THEN responses[p] + 1 ELSE responses[p]]
    /\ TransmitNothing
    /\ UNCHANGED <<groupVars, timerVars, queue, messageSrc, bootId, disposed>>

SearchFor(t) == Answer({<<r, t>> : r \in Matching(t)})

\* ssdp:all: every resource answers with its own target.
SearchAll == Answer({<<r, TargetOf[r]>> : r \in listed})

\* Mutant: the response is freed before it is sent.
SendResponseFreed(r, t) ==
    /\ responses[<<r, t>>] > 0
    /\ responses' = [responses EXCEPT ![<<r, t>>] = @ - 1]
    /\ TransmitNothing
    /\ UNCHANGED <<groupVars, timerVars, queue, messageSrc, bootId, disposed>>

\* discovery_response_timeout: the answer goes straight to the searcher.
SendResponse(r, t) ==
    /\ responses[<<r, t>>] > 0
    /\ responses' = [responses EXCEPT ![<<r, t>>] = @ - 1]
    /\ Transmit(<<Msg("response", r)>>)
    /\ UNCHANGED <<groupVars, timerVars, queue, messageSrc, bootId, disposed>>

\* Mutant: process_queue detaches its source after every message.
ProcessQueueOnce ==
    /\ messageSrc
    /\ messageSrc' = FALSE
    /\ IF queue = <<>>
       THEN TransmitNothing /\ UNCHANGED queue
       ELSE Transmit(<<Head(queue)>>) /\ queue' = Tail(queue)
    /\ UNCHANGED <<groupVars, timerVars, responses, bootId, disposed>>

\* process_queue as the message timer: send the head, or detach when there
\* is none left.
ProcessQueue ==
    /\ messageSrc
    /\ IF queue = <<>>
       THEN messageSrc' = FALSE /\ TransmitNothing /\ UNCHANGED queue
       ELSE /\ Transmit(<<Head(queue)>>)
            /\ queue' = Tail(queue)
            /\ UNCHANGED messageSrc
    /\ UNCHANGED <<groupVars, timerVars, responses, bootId, disposed>>

\* Mutant: dispose flushes the queue before it frees the resources.
FlushTooEarly(byes) == IF available THEN Transmit(queue) ELSE TransmitNothing

\* dispose sends what is queued, the byebyes of the freed resources last, if
\* the group is available, and drops the queue if it is not.
Flush(byes) == IF available THEN Transmit(queue \o byes) ELSE TransmitNothing

\* dispose: the resources are freed (which queues their byebyes if the group
\* is available), the queue is flushed if the group is available and dropped
\* if not, and every timer is destroyed.
Dispose ==
    /\ ~disposed
    /\ disposed' = TRUE
    /\ \E all \in ListsOf(listed) : Flush(Byebyes(all))
    /\ listed' = {}
    /\ responses' = [p \in Ids \X Targets |-> 0]
    /\ queue' = <<>>
    /\ messageSrc' = FALSE
    /\ timeoutSources' = Attached
    /\ timeoutSrc' = FALSE
    /\ UNCHANGED <<available, lastId, byebyeSent, bootId>>

Application ==
    \/ MakeAvailable
    \/ MakeUnavailable
    \/ AddResource
    \/ RefuseResource
    \/ \E r \in Ids : RemoveResource(r)
    \/ \E next \in 0..MaxBoot : Update(next)
    \/ Dispose

Network ==
    \/ \E t \in Targets : SearchFor(t)
    \/ SearchAll

Timers ==
    \/ Reannounce
    \/ \E r \in Ids, t \in Targets : SendResponse(r, t)
    \/ ProcessQueue

Next == Application \/ Network \/ Timers

Spec == Init /\ [][Next]_vars

\* The main loop dispatches every source whose time has come; what the
\* application and the network do is not promised.
FairSpec ==
    /\ Spec
    /\ WF_vars(ProcessQueue)
    /\ \A r \in Ids, t \in Targets : WF_vars(SendResponse(r, t))

-----------------------------------------------------------------------------
(* Properties.                                                             *)

\* Every variable has its type; the queue holds announcements only.
TypeOK ==
    /\ available \in BOOLEAN
    /\ listed \subseteq 1..lastId
    /\ lastId \in 0..MaxId
    /\ byebyeSent \subseteq 1..lastId
    /\ responses \in [Ids \X Targets -> Nat]
    /\ queue \in Seq(Message)
    /\ messageSrc \in BOOLEAN
    /\ timeoutSrc \in BOOLEAN
    /\ timeoutSources \in Int
    /\ bootId \in BootIds
    /\ disposed \in BOOLEAN
    /\ wire \in Seq(WireMessage)
    /\ announced \in [Ids -> {"none", "alive", "byebye"}]

\* No source outlives its purpose: exactly one re-announcement source is
\* attached while the group is available and none otherwise (priv->timeout_src
\* always names it), and no timer of a disposed group can still fire.
TimersMatchState ==
    /\ timeoutSources = IF available /\ ~disposed THEN 1 ELSE 0
    /\ timeoutSrc <=> (available /\ ~disposed)
    /\ disposed => ~messageSrc /\ \A p \in Ids \X Targets : responses[p] = 0

\* A message that waits is served: queue_message and process_queue never
\* leave a non-empty queue without the timer that drains it.
QueueIsServed == queue # <<>> => messageSrc

\* A pending response points at a resource that is still in the list
\* (discovery_response_timeout dereferences response->resource).
ResponsesAreOwned ==
    \A p \in Ids \X Targets : responses[p] > 0 => p[1] \in listed

\* Every listed resource of an available group has had its initial byebye:
\* resource_alive never finds one to send in the middle of an announcement set.
InitialByebyesDone == available => listed \subseteq byebyeSent

\* The first thing the network hears of a resource is its byebye
\* (send_initial_resource_byebye), whatever was waiting in the queue.
FirstWordIsByebye ==
    \A r \in Ids : announced[r] = "none" =>
        \A i \in DOMAIN queue :
            queue[i] = Alive(r) => \E j \in 1..(i-1) : queue[j] = Byebye(r)

\* What is waiting in the queue, or else what was sent last, says k of r.
Promised(r, k) ==
    \/ Says(queue, r, k)
    \/ Silent(queue, r) /\ announced[r] = k

\* The last word on every resource is current: alive for a listed resource of
\* an available group; byebye, or nothing at all, for every other resource.
LastWordIsCurrent ==
    ~disposed =>
        \A r \in Ids : IF available /\ r \in listed
                       THEN Promised(r, "alive")
                       ELSE Promised(r, "byebye") \/ Promised(r, "none")

\* set_available(TRUE) queues the initial byebyes of all resources before the
\* first alive of any of them.
ByebyesComeGrouped ==
    [][~available /\ available' =>
         LET out == wire' \o queue'
         IN  \A i, j \in DOMAIN out :
               Len(queue) < i /\ i < j =>
                   ~(out[i].kind = "alive" /\ out[j].kind = "byebye")]_vars

\* Disposing of an available group leaves no listener with a resource it was
\* last told is alive: dispose flushes what is queued and the byebyes with it.
DisposeSaysGoodbye ==
    [][available /\ ~disposed /\ disposed' =>
         \A r \in Ids : announced'[r] # "alive"]_vars

\* The announcement of a state reaches the network: a resource that is on
\* offer is announced alive, and one that is not is taken back, unless the
\* application changes its mind or disposes of the group first.
AliveReachesTheNetwork ==
    \A r \in Ids :
        (available /\ r \in listed) ~>
            (announced[r] = "alive" \/ ~available \/ r \notin listed)

ByebyeReachesTheNetwork ==
    \A r \in Ids :
        (announced[r] = "alive" /\ ~(available /\ r \in listed)) ~>
            (announced[r] = "byebye" \/ (available /\ r \in listed) \/ disposed)

\* A search that matched is answered unless the resource is taken away.
SearchIsAnswered ==
    \A r \in Ids, t \in Targets :
        responses[<<r, t>>] > 0 ~>
            \/ \E i \in DOMAIN wire : wire[i].kind = "response" /\ wire[i].id = r
            \/ r \notin listed

-----------------------------------------------------------------------------
(* What the fairness of the message timer has to work with.                *)

\* A message of kind k about r is among the first n that wait.
Waiting(r, k, n) ==
    \E i \in DOMAIN queue : i <= n /\ queue[i].kind = k /\ queue[i].id = r

\* An announcement that is due has been made or waits.
DueIsWaiting ==
    ~disposed => \A r \in Ids :
      LET due == IF available /\ r \in listed THEN "alive" ELSE "byebye"
      IN  \/ announced[r] = due \/ Waiting(r, due, Len(queue))
          \/ due = "byebye" /\ announced[r] = "none"

\* Nothing that waits is dropped or overtaken, whatever is queued meanwhile:
\* until the group is disposed of, an announcement keeps its place or comes
\* nearer, by one place whenever the timer fires, and then is made.
AnnouncementsComeNearer ==
    [][~disposed' =>
         \A r \in Ids, k \in {"alive", "byebye"}, n \in 1..Len(queue) :
           Waiting(r, k, n) =>
             \/ announced'[r] = k
             \/ /\ Waiting(r, k, n)'
                /\ ProcessQueue => Waiting(r, k, n - 1)']_vars

\* The inductive invariant of ResourceGroupProofs.
IInv ==
    /\ TypeOK
    /\ TimersMatchState
    /\ QueueIsServed
    /\ ResponsesAreOwned
    /\ InitialByebyesDone
    /\ LastWordIsCurrent

-----------------------------------------------------------------------------
(* What the documentation and comments say and the code does not do.       *)

\* "Changing availability causes it to announce its new state to listening
\* SSDP clients": no group is gone while it was last said to be alive.
GoneGroupsSaidGoodbye == disposed => \A r \in Ids : announced[r] # "alive"

\* "Only process if we are available": an unavailable group answers nobody.
AnswersOnlyWhileAvailable ==
    \A i \in DOMAIN wire : wire[i].kind = "response" => available

\* "only the first of the three update messages [is] correct": an update()
\* sends at least one update whose BOOTID header is not yet the next boot id.
FirstUpdateIsCorrect ==
    [][available /\ listed # {} /\ bootId' # bootId =>
         \E i \in DOMAIN wire' : /\ wire'[i].kind = "update"
                                 /\ wire'[i].next = bootId'
                                 /\ wire'[i].boot = bootId]_vars

=============================================================================
