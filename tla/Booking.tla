------------------------------- MODULE Booking -------------------------------
(***************************************************************************)
(* The reservation life cycle of booking-service.                          *)
(*                                                                         *)
(* The HTTP routes (http-app.ts) and the gRPC methods (grpc-server.ts)     *)
(* read a row, decide, and update it in statements of their own: nothing   *)
(* is locked in between, and confirming takes two updates.  The database   *)
(* has the last word on each update: a trigger knows the legal transitions *)
(* and an exclusion constraint keeps two bookings of a listing from        *)
(* holding the same day.  Events go to Kafka after the update, and         *)
(* straight from the handler.  Bookings of a deleted account are cancelled *)
(* by the lifecycle consumer, in one statement and without an event.       *)
(*                                                                         *)
(* A booking stands for its row and for the one call that inserts it.      *)
(* Errors of the database or of Kafka and the end of a process are faults, *)
(* at most MaxFaults in a behaviour.                                       *)
(***************************************************************************)
EXTENDS Naturals, Sequences

CONSTANTS
    Users,
    Bookings,   \* booking ids
    Listings,
    ListingOf,  \* listing_id
    TenantOf,   \* tenant_id
    First,      \* start_date, a day number
    Last,       \* end_date
    Calls,      \* calls of confirm and cancel, each runs once
    Nobody,     \* no landlordId given
    Days,       \* days on which the lifecycle consumer may run
    MaxFaults   \* bound on the faults of a behaviour

ASSUME ListingAssumption == ListingOf \in [Bookings -> Listings]
ASSUME TenantAssumption  == TenantOf \in [Bookings -> Users]
ASSUME DatesAssumption   == First \in [Bookings -> Nat] /\ Last \in [Bookings -> Nat]
ASSUME NobodyAssumption  == Nobody \notin Users
ASSUME DaysAssumption    == Days \subseteq Nat
ASSUME FaultAssumption   == MaxFaults \in Nat

VARIABLES
    status,     \* bookings.status, "absent" before the INSERT
    landlord,   \* bookings.landlord_id
    confirmed,  \* bookings whose confirmed_at is set
    reason,     \* bookings.cancellation_reason
    creator,    \* does the inserting call still owe its event
    call,       \* local variables of each call
    log,        \* the booking events topic
    faults      \* faults so far

rowVars == <<status, landlord, confirmed, reason>>
vars == <<status, landlord, confirmed, reason, creator, call, log, faults>>

Idle == [at |-> "idle", via |-> "none", b |-> Nobody, landlord |-> Nobody,
         event |-> "none", answer |-> "none"]

Init ==
    /\ status = [b \in Bookings |-> "absent"]
    /\ landlord = [b \in Bookings |-> Nobody]
    /\ confirmed = {}
    /\ reason = [b \in Bookings |-> "none"]
    /\ creator = [b \in Bookings |-> "none"]
    /\ call = [c \in Calls |-> Idle]
    /\ log = <<>>
    /\ faults = 0

Fault   == faults < MaxFaults /\ faults' = faults + 1
NoFault == faults' = faults

-----------------------------------------------------------------------------
(* What the database accepts *)

\* Mutants: no trigger; a trigger of another life cycle.
LegalAny(from, to) == TRUE
LegalNoConfirm(from, to) ==
    \/ from = to
    \/ from = "created" /\ to \in {"pending_confirmation", "confirmed", "cancelled"}
    \/ from = "pending_confirmation" /\ to = "cancelled"
    \/ from = "confirmed" /\ to = "cancelled"

\* enforce_booking_transition
Legal(from, to) ==
    \/ from = to
    \/ from = "created" /\ to \in {"pending_confirmation", "cancelled"}
    \/ from = "pending_confirmation" /\ to \in {"confirmed", "rejected", "cancelled", "expired"}
    \/ from = "confirmed" /\ to \in {"completed", "cancelled"}

\* no_overlapping_bookings: the rows it looks at, and daterange(.., .., '[]'),
\* which cannot be built from a start after its end.
Holding == {"pending_confirmation", "confirmed"}

Overlap(b1, b2) ==
    /\ ListingOf[b1] = ListingOf[b2]
    /\ First[b1] <= Last[b2]
    /\ First[b2] <= Last[b1]

\* Mutant: no exclusion constraint.
FreeAlways(b) == TRUE

Free(b) ==
    /\ First[b] <= Last[b]
    /\ \A other \in Bookings \ {b} : Overlap(b, other) => status[other] \notin Holding

Accepts(b, to) == Legal(status[b], to) /\ (to \in Holding => Free(b))

-----------------------------------------------------------------------------
(* POST /create, POST /request and CreateBooking *)

\* The INSERT: the landlord is the tenant, the body's landlordId, or the owner
\* of the listing fetched before; dates are not compared with other bookings.
CreateBooking(b) ==
    /\ status[b] = "absent"
    /\ status' = [status EXCEPT ![b] = "created"]
    /\ \E u \in Users : landlord' = [landlord EXCEPT ![b] = u]
    /\ creator' = [creator EXCEPT ![b] = "publishing"]
    /\ UNCHANGED <<confirmed, reason, call, log, faults>>

\* BookingCreatedV1 (BookingRequestV1).
PublishCreated(b) ==
    /\ creator[b] = "publishing"
    /\ \/ log' = Append(log, <<"created", b>>) /\ NoFault
       \/ log' = log /\ Fault
    /\ creator' = [creator EXCEPT ![b] = "done"]
    /\ UNCHANGED <<rowVars, call>>

-----------------------------------------------------------------------------
(* Confirming and cancelling *)

Answer(c, a) ==
    call' = [call EXCEPT ![c].at = "done", ![c].answer = a, ![c].landlord = Nobody]

Goto(c, l) == call' = [call EXCEPT ![c].at = l]

\* A call on booking b that is answered at once, and one that goes on.
Settled(via, b, e, a) ==
    [at |-> "done", via |-> via, b |-> b, landlord |-> Nobody, event |-> e, answer |-> a]

Started(l, via, b, given, e) ==
    [at |-> l, via |-> via, b |-> b, landlord |-> given, event |-> e, answer |-> "none"]

\* findUnique and the checks made on what was read.  The HTTP route will write
\* the landlord of the body or the one it has read; gRPC writes none.
ReadToConfirm(c) ==
    /\ call[c].at = "idle"
    /\ \E b \in Bookings, via \in {"http", "grpc"}, given \in Users \cup {Nobody} :
          call' = [call EXCEPT ![c] =
            IF status[b] = "absent"
            THEN Settled(via, b, "confirmed", "not_found")
            ELSE IF status[b] \notin {"created", "pending_confirmation"}
            THEN Settled(via, b, "confirmed", "conflict")
            ELSE Started("marking", via, b,
                         IF via = "http" /\ given = Nobody THEN landlord[b]
                         ELSE IF via = "http" THEN given ELSE Nobody, "confirmed")]
    /\ UNCHANGED <<rowVars, creator, log, faults>>

\* Only the HTTP route asks who is cancelling.
ReadToCancel(c) ==
    /\ call[c].at = "idle"
    /\ \E b \in Bookings, via \in {"http", "grpc"}, u \in Users :
          call' = [call EXCEPT ![c] =
            IF status[b] = "absent"
            THEN Settled(via, b, "cancelled", "not_found")
            ELSE IF via = "http" /\ u \notin {TenantOf[b], landlord[b]}
            THEN Settled(via, b, "cancelled", "forbidden")
            ELSE IF status[b] = "cancelled"
            THEN Settled(via, b, "cancelled", "conflict")
            ELSE Started("cancelling", via, b, Nobody, "cancelled")]
    /\ UNCHANGED <<rowVars, creator, log, faults>>

\* The first update of a confirmation.
MarkPending(c) ==
    /\ call[c].at = "marking"
    /\ LET b == call[c].b IN
       IF Accepts(b, "pending_confirmation")
       THEN /\ status' = [status EXCEPT ![b] = "pending_confirmation"]
            /\ Goto(c, "confirming")
       ELSE status' = status /\ Answer(c, "error")
    /\ UNCHANGED <<landlord, confirmed, reason, creator, log, faults>>

\* Mutant: a landlord that was not given is written as null.
ConfirmNullLandlord(b, l) ==
    /\ status' = [status EXCEPT ![b] = "confirmed"]
    /\ landlord' = [landlord EXCEPT ![b] = l]
    /\ confirmed' = confirmed \cup {b}

\* What the second update writes.
Confirm(b, l) ==
    /\ status' = [status EXCEPT ![b] = "confirmed"]
    /\ landlord' = [landlord EXCEPT ![b] = IF l = Nobody THEN @ ELSE l]
    /\ confirmed' = confirmed \cup {b}

\* Mutant: the handler publishes whether or not the update was accepted.
MarkConfirmedErrorIgnored(c) ==
    /\ call[c].at = "confirming"
    /\ IF Accepts(call[c].b, "confirmed")
       THEN Confirm(call[c].b, call[c].landlord)
       ELSE UNCHANGED <<status, landlord, confirmed>>
    /\ Goto(c, "publishing")
    /\ UNCHANGED <<reason, creator, log, faults>>

\* The second update.
MarkConfirmed(c) ==
    /\ call[c].at = "confirming"
    /\ IF Accepts(call[c].b, "confirmed")
       THEN Confirm(call[c].b, call[c].landlord) /\ Goto(c, "publishing")
       ELSE UNCHANGED <<status, landlord, confirmed>> /\ Answer(c, "error")
    /\ UNCHANGED <<reason, creator, log, faults>>

\* The one update of a cancellation.
MarkCancelled(c) ==
    /\ call[c].at = "cancelling"
    /\ LET b == call[c].b IN
       IF Accepts(b, "cancelled")
       THEN /\ status' = [status EXCEPT ![b] = "cancelled"]
            /\ reason' = [reason EXCEPT ![b] = "caller"]
            /\ Goto(c, "publishing")
       ELSE UNCHANGED <<status, reason>> /\ Answer(c, "error")
    /\ UNCHANGED <<landlord, confirmed, creator, log, faults>>

\* Mutant: the gRPC method swallows Kafka errors as the HTTP routes do.
PublishSwallowed(c) ==
    /\ call[c].at = "publishing"
    /\ LET appended == Append(log, <<call[c].event, call[c].b>>) IN
       \/ log' = appended /\ Answer(c, "ok") /\ NoFault
       \/ log' \in {log, appended} /\ Answer(c, "ok") /\ Fault
    /\ UNCHANGED <<rowVars, creator>>

\* publishBookingEvent: the HTTP routes swallow an error of Kafka, the gRPC
\* methods answer INTERNAL, and the message may have been appended all the same.
Publish(c) ==
    /\ call[c].at = "publishing"
    /\ LET appended == Append(log, <<call[c].event, call[c].b>>) IN
       \/ log' = appended /\ Answer(c, "ok") /\ NoFault
       \/ /\ log' \in {log, appended}
          /\ Answer(c, IF call[c].via = "http" THEN "ok" ELSE "error")
          /\ Fault
    /\ UNCHANGED <<rowVars, creator>>

\* A database error, a lost answer, or the end of the process.
CallFails(c) ==
    /\ call[c].at \in {"marking", "confirming", "cancelling", "publishing"}
    /\ Answer(c, "error")
    /\ Fault
    /\ UNCHANGED <<rowVars, creator, log>>

-----------------------------------------------------------------------------
\* onUserAccountDeleted: one UPDATE over the bookings of the user that start
\* after today (CURRENT_DATE).  It publishes no event.  Whether the event gets
\* here is not this module's matter: with the envelope as it is, it does not
\* (UserLifecycle), and the proofs hold with and without this step.
AccountDeleted(u, today) ==
    LET hit == {b \in Bookings : /\ u \in {TenantOf[b], landlord[b]}
                                 /\ First[b] > today
                                 /\ status[b] \in {"created", "pending_confirmation", "confirmed"}}
    IN  /\ hit # {}
        /\ status' = [b \in Bookings |-> IF b \in hit THEN "cancelled" ELSE status[b]]
        /\ reason' = [b \in Bookings |-> IF b \in hit THEN "user_account_deleted" ELSE reason[b]]
        /\ UNCHANGED <<landlord, confirmed, creator, call, log, faults>>

-----------------------------------------------------------------------------
Arrive(c) == ReadToConfirm(c) \/ ReadToCancel(c)

Continue(c) == MarkPending(c) \/ MarkConfirmed(c) \/ MarkCancelled(c) \/ Publish(c)

Next ==
    \/ \E b \in Bookings : CreateBooking(b) \/ PublishCreated(b)
    \/ \E c \in Calls : Arrive(c) \/ Continue(c) \/ CallFails(c)
    \/ \E u \in Users, today \in Days : AccountDeleted(u, today)

Spec == Init /\ [][Next]_vars

\* A handler that has started runs to its end; nobody has to call.
FairSpec == Spec /\ \A c \in Calls : WF_vars(Continue(c))

-----------------------------------------------------------------------------
InLog(e, b) == \E k \in DOMAIN log : log[k] = <<e, b>>

Statuses == {"absent", "created", "pending_confirmation", "confirmed", "cancelled"}
Stages   == {"idle", "marking", "confirming", "cancelling", "publishing", "done"}
Answers  == {"none", "ok", "not_found", "conflict", "forbidden", "error"}
Events   == {"created", "confirmed", "cancelled"} \X Bookings

CallStates ==
    [at : Stages, via : {"none", "http", "grpc"}, b : Bookings \cup {Nobody},
     landlord : Users \cup {Nobody}, event : {"none", "confirmed", "cancelled"},
     answer : Answers]

\* The variables stay in their domains: only these five of the statuses are ever
\* written, and the landlord of a row is never null.
TypeOK ==
    /\ status \in [Bookings -> Statuses]
    /\ landlord \in [Bookings -> Users \cup {Nobody}]
    /\ confirmed \subseteq Bookings
    /\ reason \in [Bookings -> {"none", "caller", "user_account_deleted"}]
    /\ creator \in [Bookings -> {"none", "publishing", "done"}]
    /\ call \in [Calls -> CallStates]
    /\ log \in Seq(Events)
    /\ faults \in 0..MaxFaults
    /\ \A c \in Calls : call[c].at # "idle" => call[c].b \in Bookings
    /\ \A b \in Bookings : status[b] # "absent" => landlord[b] \in Users

\* Two bookings that share a day of a listing are never both announced as
\* confirmed unless one of them is off: however confirmations, cancellations and
\* late updates interleave, a day once sold is sold again only after a
\* cancellation that nothing can undo.
NoDoubleSale ==
    \A b1, b2 \in Bookings :
        b1 # b2 /\ Overlap(b1, b2) /\ InLog("confirmed", b1) /\ InLog("confirmed", b2)
            => "cancelled" \in {status[b1], status[b2]}

\* The service carries out Reservations: whatever calls race, with each other and
\* with the deletion of an account, days are held by one booking at a time, no
\* update decided on an older read confirms what holds nothing or brings back what
\* is cancelled, and the topic announces only what has happened.
Reserved == INSTANCE Reservations WITH
    Clash  <- {p \in Bookings \X Bookings : p[1] # p[2] /\ Overlap(p[1], p[2])},
    held   <- {b \in Bookings : status[b] \in Holding},
    off    <- {b \in Bookings : status[b] = "cancelled"},
    agreed <- confirmed,
    told   <- {m \in {"confirmed", "cancelled"} \X Bookings : InLog(m[1], m[2])}

RefinesReservations == Reserved!Spec

\* The topic and the answers tell what has happened to the row, even to callers
\* that lost a race: nothing is announced or acknowledged as confirmed that was
\* not, or as cancelled that is not.
EventsAreTrue ==
    /\ \A b \in Bookings : InLog("confirmed", b) => b \in confirmed
    /\ \A b \in Bookings : InLog("cancelled", b) => status[b] = "cancelled"
    /\ \A c \in Calls : call[c].answer = "ok" /\ call[c].event = "confirmed"
                            => call[c].b \in confirmed
    /\ \A c \in Calls : call[c].answer = "ok" /\ call[c].event = "cancelled"
                            => status[call[c].b] = "cancelled"

\* A gRPC caller that is answered OK has had the event published.  (The HTTP
\* routes do not promise it.)
GrpcOkIsAnnounced ==
    \A c \in Calls :
        call[c].answer = "ok" /\ call[c].via = "grpc" => InLog(call[c].event, call[c].b)

\* c confirms b and is between its two updates, or a fault cut it short.
Handles(c, b) ==
    /\ call[c].b = b /\ call[c].event = "confirmed"
    /\ call[c].at = "confirming" \/ (call[c].answer = "error" /\ faults > 0)

\* A booking is pending_confirmation, and so keeps its days from others, only
\* while a confirmation of this very booking is between its two updates, or when
\* a fault has cut one of its confirmations short, whose caller was told so.
PendingIsHandled ==
    \A b \in Bookings :
        status[b] = "pending_confirmation" => \E c \in Calls : Handles(c, b)

\* It does not stay so unless a fault has cut short every confirmation of it: a
\* fault elsewhere does not matter, and another confirmation gets a booking out
\* of what a failed one left behind.
EventuallyDecided ==
    \A b \in Bookings :
        status[b] = "pending_confirmation" ~>
            \/ status[b] \in {"confirmed", "cancelled"}
            \/ /\ faults > 0
               /\ \A c \in Calls : call[c].b = b /\ call[c].event = "confirmed"
                                   => call[c].answer \notin {"none", "ok"}

\* docs/KAFKA_TOPICS_AND_PARTITIONS.md: "All events about the same listing (or
\* booking) stay in order per partition; consumers that care about a single
\* listing get ordering."  Cancelling is a booking's last change, so in the
\* topic its confirmation does not come after its cancellation.
NoConfirmAfterCancel ==
    \A j, k \in DOMAIN log :
        j < k /\ log[j] = <<"cancelled", log[k][2]>> => log[k][1] # "confirmed"
=============================================================================
