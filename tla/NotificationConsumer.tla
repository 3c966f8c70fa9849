------------------------ MODULE NotificationConsumer ------------------------
(***************************************************************************)
(* The consumer group of notification-service on the domain topics:        *)
(* startNotificationConsumer (kafka-consumer.ts).  A message that names a  *)
(* user becomes a pending row of notification.notifications, after its     *)
(* event id has been claimed in notification.processed_events.             *)
(*                                                                         *)
(* extractMeta looks for the event id where no producer puts it, and draws *)
(* a fresh one instead, at each delivery anew.  So the claim finds a row   *)
(* for nobody; it does not recognise a redelivery, and a member that ends  *)
(* between the claim and the notification does not stop the next member    *)
(* from inserting it.  Errors never leave eachMessage: a failed claim      *)
(* reads as "already processed", a failed insert is logged, and the offset *)
(* moves on.                                                               *)
(*                                                                         *)
(* Kafka and kafkajs are external and modelled by what the code relies on: *)
(* one partition, one owner per generation, redelivery from the committed  *)
(* offset, the end of the log when nothing was ever committed              *)
(* (fromBeginning: false), and commits of a fenced member refused, which   *)
(* still finishes what it has fetched.                                     *)
(***************************************************************************)
EXTENDS Integers, Sequences, FiniteSets

CONSTANTS
    Events,      \* what the producers of the topics announce
    KindOf,      \* what an event is: a key of UserAt
    Instances,   \* processes of notification-service
    MaxLog,      \* bound on the length of the topic
    MaxFailures  \* bound on the failures of a behaviour

NoOffset == -1

\* Where each producer puts the user its event is about: listings-service,
\* the forum and read receipts of messaging-service, its messages, and
\* booking-service.
UserAt == [listing |-> "payload.user_id",
           forum   |-> "user_id",
           message |-> "recipient_id",
           booking |-> "payload.tenant_id"]

ASSUME KindAssumption     == KindOf \in [Events -> DOMAIN UserAt]
ASSUME InstanceAssumption == IsFiniteSet(Instances)
ASSUME LogAssumption      == MaxLog \in Nat
ASSUME FailureAssumption  == MaxFailures \in Nat

VARIABLES
    log,        \* the topic: events in append order, a duplicate per resend
    processed,  \* notification.processed_events
    drawn,      \* ids drawn with randomUUID(), numbered in the order of drawing
    notified,   \* rows of notification.notifications a message has led to
    missed,     \* history: messages for which the claim or the insert failed
    cpc,        \* a process: off, polling, inserting, or deaf (without consumer)
    pos,        \* offset an instance reads next, NoOffset without a partition
    from,       \* offset an instance began to read at
    owner,      \* the instances (at most one) the broker has given the partition
    committed,  \* the group's committed offset, NoOffset if none
    base,       \* offset the group last began at without a committed one
    failures    \* failures so far

tables == <<processed, drawn, notified, missed>>
group  == <<pos, from, owner, committed, base>>
vars   == <<log, tables, cpc, group, failures>>

Init ==
    /\ log = <<>>
    /\ processed = {} /\ drawn = 0 /\ missed = {}
    /\ notified = [k \in 1..MaxLog |-> 0]
    /\ cpc = [i \in Instances |-> "off"]
    /\ pos = [i \in Instances |-> NoOffset]
    /\ from = [i \in Instances |-> NoOffset]
    /\ owner = {} /\ committed = NoOffset /\ base = 0
    /\ failures = 0

Failure   == failures < MaxFailures /\ failures' = failures + 1
NoFailure == failures' = failures

-----------------------------------------------------------------------------
(* extractMeta.                                                            *)

\* The places of a message where it looks for the user.
UserPlaces == {"entity_id", "user_id", "aggregate_id", "payload.user_id", "payload.recipient_id"}

\* Mutant: the claim is made under the id that the producers have given.
IdPlacesNested == {"event_id", "id", "metadata.event_id"}

\* Where it looks for the event id, and where all producers put it.
IdPlaces == {"event_id", "id"}
IdAt     == "metadata.event_id"

\* A message without a user is passed over.
Named(e) == UserAt[KindOf[e]] \in UserPlaces

EventId(e) == IF IdAt \in IdPlaces THEN e ELSE drawn

-----------------------------------------------------------------------------
(* A process and its consumer.                                             *)

HasNext(i)  == pos[i] # NoOffset /\ pos[i] < Len(log)
Position(i) == pos[i] + 1
Message(i)  == log[Position(i)]

\* eachMessage has returned.
Resolve(i) == pos' = [pos EXCEPT ![i] = @ + 1] /\ UNCHANGED <<from, owner, committed, base>>

\* The process starts and connects, once and within eight seconds; when that
\* fails it runs on without a consumer, and nobody tries again.
Start(i) ==
    /\ cpc[i] = "off"
    /\ \/ cpc' = [cpc EXCEPT ![i] = "polling"] /\ NoFailure
       \/ cpc' = [cpc EXCEPT ![i] = "deaf"] /\ Failure
    /\ UNCHANGED <<log, tables, group>>

\* The coordinator gives the partition to a member, at first, after the owner
\* has left, or because it took a slow owner for dead.
Assign(i) ==
    /\ cpc[i] = "polling"
    /\ pos[i] = NoOffset
    /\ IF owner = {} THEN NoFailure ELSE Failure
    /\ owner' = {i}
    /\ base' = IF committed = NoOffset THEN Len(log) ELSE base
    /\ LET start == IF committed = NoOffset THEN Len(log) ELSE committed
       IN  pos' = [pos EXCEPT ![i] = start] /\ from' = [from EXCEPT ![i] = start]
    /\ UNCHANGED <<log, tables, cpc, committed>>

\* extractMeta finds no user.
PassOver(i) ==
    /\ cpc[i] = "polling" /\ HasNext(i)
    /\ ~Named(Message(i))
    /\ Resolve(i)
    /\ UNCHANGED <<log, tables, cpc, failures>>

\* Mutant: the offset is resolved before the notification is inserted.
ClaimResolvesEarly(i) ==
    LET id == EventId(Message(i))
    IN  /\ cpc[i] = "polling" /\ HasNext(i)
        /\ Named(Message(i))
        /\ drawn' = drawn + 1
        /\ processed' = processed \cup {id}
        /\ cpc' = [cpc EXCEPT ![i] = "inserting"]
        /\ Resolve(i)
        /\ UNCHANGED <<log, notified, missed, failures>>

\* ensureProcessed: INSERT INTO notification.processed_events ... ON CONFLICT DO
\* NOTHING; a message whose id has a row is passed over.
Claim(i) ==
    LET id == EventId(Message(i))
    IN  /\ cpc[i] = "polling" /\ HasNext(i)
        /\ Named(Message(i))
        /\ drawn' = drawn + 1
        /\ IF id \in processed
           THEN Resolve(i) /\ UNCHANGED <<processed, cpc>>
           ELSE /\ processed' = processed \cup {id}
                /\ cpc' = [cpc EXCEPT ![i] = "inserting"]
                /\ UNCHANGED group
        /\ UNCHANGED <<log, notified, missed, failures>>

\* The INSERT fails, with or without effect: ensureProcessed returns false.
ClaimFails(i) ==
    LET id == EventId(Message(i))
    IN  /\ cpc[i] = "polling" /\ HasNext(i)
        /\ Named(Message(i))
        /\ drawn' = drawn + 1
        /\ processed' \in {processed, processed \cup {id}}
        /\ missed' = missed \cup {Position(i)}
        /\ Failure
        /\ Resolve(i)
        /\ UNCHANGED <<log, notified, cpc>>

\* Mutant: the message stays unresolved and is handed to eachMessage again.
InsertNotificationUnresolved(i) ==
    /\ cpc[i] = "inserting"
    /\ notified[Position(i)] < 4
    /\ notified' = [notified EXCEPT ![Position(i)] = @ + 1]
    /\ cpc' = [cpc EXCEPT ![i] = "polling"]
    /\ UNCHANGED <<log, processed, drawn, missed, group, failures>>

\* INSERT INTO notification.notifications; an error is logged and swallowed.
InsertNotification(i) ==
    LET k    == Position(i)
        more == [notified EXCEPT ![k] = @ + 1]
    IN  /\ cpc[i] = "inserting"
        /\ \/ notified' = more /\ UNCHANGED missed /\ NoFailure
           \/ notified' \in {notified, more} /\ missed' = missed \cup {k} /\ Failure
        /\ cpc' = [cpc EXCEPT ![i] = "polling"]
        /\ Resolve(i)
        /\ UNCHANGED <<log, processed, drawn>>

\* Auto-commit of the resolved offset, between messages.  The broker refuses a
\* member that no longer owns the partition, which then rejoins.
CommitOffset(i) ==
    /\ cpc[i] = "polling"
    /\ pos[i] # NoOffset
    /\ IF i \in owner
       THEN /\ pos[i] > from[i] /\ committed # pos[i]
            /\ committed' = pos[i]
            /\ pos' = pos
       ELSE pos' = [pos EXCEPT ![i] = NoOffset] /\ committed' = committed
    /\ UNCHANGED <<log, tables, cpc, from, owner, base, failures>>

\* The process ends anywhere, between a claim and its notification too.
CrashInstance(i) ==
    /\ cpc[i] # "off"
    /\ Failure
    /\ cpc' = [cpc EXCEPT ![i] = "off"]
    /\ pos' = [pos EXCEPT ![i] = NoOffset]
    /\ owner' = owner \ {i}
    /\ UNCHANGED <<log, tables, from, committed, base>>

\* A producer sends an event, or sends it again.
Produce(e) ==
    /\ Len(log) < MaxLog
    /\ log' = Append(log, e)
    /\ UNCHANGED <<tables, cpc, group, failures>>

Consume(i) == PassOver(i) \/ Claim(i) \/ ClaimFails(i) \/ InsertNotification(i)

Next ==
    \/ \E i \in Instances : \/ Start(i) \/ Assign(i) \/ Consume(i)
                            \/ CommitOffset(i) \/ CrashInstance(i)
    \/ \E e \in Events : Produce(e)

Spec == Init /\ [][Next]_vars

\* A process that ended is started again; the coordinator assigns an unowned
\* partition; and a member that has it goes on polling and committing.  Nobody
\* has to connect: Start may leave a process deaf, as long as failures last.
Fairness ==
    \A i \in Instances :
        /\ WF_vars(Start(i))
        /\ WF_vars(owner = {} /\ Assign(i))
        /\ WF_vars(Consume(i))
        /\ WF_vars(CommitOffset(i))

FairSpec == Spec /\ Fairness

-----------------------------------------------------------------------------
(* Properties.                                                             *)

\* The variables stay in their domains, and an instance inserts for a message it
\* has a position for.
TypeOK ==
    /\ log \in Seq(Events) /\ Len(log) <= MaxLog
    /\ processed \subseteq Nat /\ drawn \in Nat
    /\ notified \in [1..MaxLog -> Nat]
    /\ missed \subseteq 1..MaxLog
    /\ cpc \in [Instances -> {"off", "polling", "inserting", "deaf"}]
    /\ pos \in [Instances -> Nat \cup {NoOffset}]
    /\ from \in [Instances -> Nat \cup {NoOffset}]
    /\ owner \subseteq Instances
    /\ committed \in Nat \cup {NoOffset}
    /\ base \in Nat
    /\ failures \in 0..MaxFailures
    /\ \A i \in Instances : pos[i] # NoOffset => pos[i] <= Len(log)
    /\ \A i \in Instances : cpc[i] = "inserting" => HasNext(i)

\* The user is told again of a message only after a failure, and once more per
\* failure at most: a crash, or a partition taken from a live member, makes the
\* group read again what was not committed, and the claim stops none of it.
RepeatsBounded == \A k \in DOMAIN log : notified[k] <= 1 + failures

\* Nothing is committed over: a message that names a user, between the offset
\* the group began at and the committed one, has led to a notification, or its
\* own claim or insert has failed.  A crash after the claim is no excuse.
NothingDropped ==
    \A k \in DOMAIN log : base < k /\ k <= committed /\ Named(log[k]) =>
        notified[k] > 0 \/ k \in missed

\* A message that names a user leads to a notification in the end, unless its
\* own claim or insert has failed, the group began to read behind it, or every
\* process has been without a consumer.
EventuallyNotified ==
    \A k \in 1..MaxLog :
        (k \in DOMAIN log /\ Named(log[k]))
            ~> \/ notified[k] > 0
               \/ k \in missed
               \/ k <= base
               \/ \A i \in Instances : cpc[i] = "deaf"

\* kafka-consumer.ts: "insert pending in-app notifications (idempotent via
\* processed_events)".  So a message delivered again leads to no second row.
NotifiedOnce == \A k \in DOMAIN log : notified[k] <= 1
=============================================================================
