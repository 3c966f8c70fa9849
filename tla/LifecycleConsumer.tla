-------------------------- MODULE LifecycleConsumer --------------------------
(***************************************************************************)
(* The consumer group of one service on the user.lifecycle.v1 topic:       *)
(* startUserLifecycleConsumer (common/src/user-lifecycle-consumer.ts) with *)
(* the envelope of user-lifecycle-kafka.ts, the claim on the service's     *)
(* processed_events table and the service's handler.  Every service runs   *)
(* this code in a group of its own.                                        *)
(*                                                                         *)
(* What a member reads of a message is decided by the wire format.         *)
(* getProtoRoot calls protobuf.loadSync without keepCase, so that          *)
(* protobufjs knows the fields of the .proto files by camel-cased names:   *)
(* encode writes none of the snake-cased properties it is given, and a     *)
(* decoded message has none of them to read.                               *)
(*                                                                         *)
(* Kafka and kafkajs are external and modelled by what the code relies on: *)
(* one partition, one owner per generation, redelivery from the committed  *)
(* offset, the end of the log when nothing was ever committed              *)
(* (fromBeginning: false), commits of resolved offsets only, and a         *)
(* consumer that leaves the group and comes back when eachMessage has      *)
(* thrown as often as it is retried.                                       *)
(***************************************************************************)
EXTENDS Integers, Sequences, FiniteSets

CONSTANTS
    Events,      \* what auth-service announces, by event id
    Users,
    UserOf,      \* the account an event is about
    Instances,   \* processes of the service
    MaxFailures  \* bound on the failures of a behaviour

NoOffset  == -1
Undefined == "undefined"

VARIABLES
    log,        \* the topic: encoded events in append order
    processed,  \* <service>.processed_events
    applied,    \* how often the handler's statement ran for a user
    cpc,        \* a process: off, polling, handling, or deaf (without consumer)
    pos,        \* offset an instance reads next, NoOffset without a partition
    owner,      \* the instances (at most one) the broker has given the partition
    from,       \* offset an instance began to read at
    committed,  \* the group's committed offset, NoOffset if none
    failures    \* failures so far

groupVars == <<processed, applied, cpc, pos, from, owner, committed, failures>>
vars == <<log, groupVars>>

GroupInit ==
    /\ processed = {}
    /\ applied = [u \in Users |-> 0]
    /\ cpc = [i \in Instances |-> "off"]
    /\ pos = [i \in Instances |-> NoOffset]
    /\ from = [i \in Instances |-> NoOffset]
    /\ owner = {}
    /\ committed = NoOffset
    /\ failures = 0

Failure   == failures < MaxFailures /\ failures' = failures + 1
NoFailure == failures' = failures

-----------------------------------------------------------------------------
(* The wire format.                                                        *)

\* The name under which protobufjs knows a field that a .proto file declares.
RegisteredName(field) ==
    CASE field = "event_id" -> "eventId"
      [] field = "user_id"  -> "userId"
      [] OTHER              -> field

EnvelopeFields == {RegisteredName(f) : f \in {"event_id", "type", "payload"}}
PayloadFields  == {RegisteredName(f) : f \in {"user_id", "reason"}}

\* Type.encode(object).finish(): properties that are no fields are not written.
Encode(fields, object) == [f \in fields \cap DOMAIN object |-> object[f]]

\* A property of Type.decode(bytes): what was written, the default of a field
\* that was not, and undefined if it is no field at all.
Read(fields, message, property) ==
    IF property \notin fields THEN Undefined
    ELSE IF property \in DOMAIN message THEN message[property] ELSE ""

\* encodeUserAccountDeletedEnvelope.
Envelope(e) ==
    LET inner == Encode(PayloadFields, [user_id |-> UserOf[e], reason |-> "user_requested"])
    IN  Encode(EnvelopeFields,
               [event_id |-> e, type |-> "user.account.deleted.v1", payload |-> inner])

\* tryDecodeUserAccountDeletedEnvelope.
Decoded(message) ==
    [eventId |-> Read(EnvelopeFields, message, "event_id"),
     type    |-> Read(EnvelopeFields, message, "type"),
     userId  |-> Read(PayloadFields, Read(EnvelopeFields, message, "payload"), "user_id")]

-----------------------------------------------------------------------------
(* The consumer.                                                           *)

HasNext(i) == pos[i] # NoOffset /\ pos[i] < Len(log)
Message(i) == Decoded(Envelope(log[pos[i] + 1]))

Resolve(i) == pos' = [pos EXCEPT ![i] = @ + 1]
GiveUp(i)  == pos' = [pos EXCEPT ![i] = NoOffset] /\ owner' = owner \ {i}

\* The process starts and connects, once and within eight seconds; when that
\* fails it runs on without a consumer, and nobody tries again.
Start(i) ==
    /\ cpc[i] = "off"
    /\ \/ cpc' = [cpc EXCEPT ![i] = "polling"] /\ NoFailure
       \/ cpc' = [cpc EXCEPT ![i] = "deaf"] /\ Failure
    /\ UNCHANGED <<log, processed, applied, pos, from, owner, committed>>

\* The coordinator gives the partition to a member, at first, after the owner
\* has left, or because it took a slow owner for dead.
Assign(i) ==
    /\ cpc[i] = "polling"
    /\ pos[i] = NoOffset
    /\ IF owner = {} THEN NoFailure ELSE Failure
    /\ owner' = {i}
    /\ LET start == IF committed = NoOffset THEN Len(log) ELSE committed
       IN  pos' = [pos EXCEPT ![i] = start] /\ from' = [from EXCEPT ![i] = start]
    /\ UNCHANGED <<log, processed, applied, cpc, committed>>

\* A message that is no user.account.deleted.v1 is passed over.
PassOver(i) ==
    /\ cpc[i] = "polling" /\ HasNext(i)
    /\ Message(i).type # "user.account.deleted.v1"
    /\ Resolve(i)
    /\ UNCHANGED <<log, processed, applied, cpc, from, owner, committed, failures>>

\* claimEvent: INSERT INTO processed_events ... ON CONFLICT DO NOTHING
\* RETURNING.  A row returned leads to the handler.
ClaimEvent(i) ==
    LET id == Message(i).eventId
    IN  /\ cpc[i] = "polling" /\ HasNext(i)
        /\ Message(i).type = "user.account.deleted.v1"
        /\ id # Undefined
        /\ IF id \in processed
           THEN Resolve(i) /\ UNCHANGED <<processed, cpc>>
           ELSE /\ processed' = processed \cup {id}
                /\ cpc' = [cpc EXCEPT ![i] = "handling"]
                /\ pos' = pos
        /\ UNCHANGED <<log, applied, from, owner, committed, failures>>

\* The INSERT fails: undefined is sent as NULL, which the primary key refuses,
\* or the database fails (with or without effect).  The error leaves
\* eachMessage.  kafkajs delivers the message again, which changes nothing, and
\* gives up after some attempts: the consumer leaves the group and rejoins.
ClaimThrows(i) ==
    LET id == Message(i).eventId
    IN  /\ cpc[i] = "polling" /\ HasNext(i)
        /\ Message(i).type = "user.account.deleted.v1"
        /\ \/ id = Undefined /\ processed' = processed /\ NoFailure
           \/ id # Undefined /\ processed' \in {processed, processed \cup {id}} /\ Failure
        /\ GiveUp(i)
        /\ UNCHANGED <<log, applied, cpc, from, committed>>

\* onUserAccountDeleted, one SQL statement; an error is logged and swallowed.
\* A user id that is undefined matches no row.
HandleEvent(i) ==
    /\ cpc[i] = "handling"
    /\ \/ /\ applied' = [u \in Users |-> IF u = Message(i).userId THEN applied[u] + 1 ELSE applied[u]]
          /\ NoFailure
       \/ applied' = applied /\ Failure
    /\ cpc' = [cpc EXCEPT ![i] = "polling"]
    /\ Resolve(i)
    /\ UNCHANGED <<log, processed, from, owner, committed>>

\* Auto-commit of the resolved offset, between messages.  A position that comes
\* from the end of the log is not a resolved offset.  The broker refuses a
\* member that no longer owns the partition, which then rejoins.
CommitOffset(i) ==
    /\ cpc[i] = "polling"
    /\ pos[i] # NoOffset
    /\ IF i \in owner
       THEN /\ pos[i] > from[i] /\ committed # pos[i]
            /\ committed' = pos[i]
            /\ pos' = pos
       ELSE pos' = [pos EXCEPT ![i] = NoOffset] /\ committed' = committed
    /\ UNCHANGED <<log, processed, applied, cpc, from, owner, failures>>

\* The process ends anywhere, between a claim and its handler too.
CrashInstance(i) ==
    /\ cpc[i] # "off"
    /\ Failure
    /\ cpc' = [cpc EXCEPT ![i] = "off"]
    /\ GiveUp(i)
    /\ UNCHANGED <<log, processed, applied, from, committed>>

Consume(i) == PassOver(i) \/ ClaimEvent(i) \/ ClaimThrows(i) \/ HandleEvent(i)

Instance(i) ==
    Start(i) \/ Assign(i) \/ Consume(i) \/ CommitOffset(i) \/ CrashInstance(i)

\* A process that ended is started again; the coordinator assigns an unowned
\* partition; and a member that has it goes on polling, handling, committing.
Fairness ==
    \A i \in Instances :
        /\ WF_vars(Start(i))
        /\ WF_vars(owner = {} /\ Assign(i))
        /\ WF_vars(Consume(i))
        /\ WF_vars(CommitOffset(i))
=============================================================================
