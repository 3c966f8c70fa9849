---------------------------- MODULE ListingFeed ----------------------------
(***************************************************************************)
(* How a new listing reaches the analytics: the create handlers of          *)
(* listings-service (http-server.ts, grpc-server.ts), its producer, and the *)
(* projection of analytics-service that counts new listings per day.       *)
(*                                                                         *)
(* The handler inserts the row; with ANALYTICS_SYNC_MODE=1 it posts the     *)
(* event id to analytics and waits eight seconds at most; it then publishes *)
(* the event under the same id, and waits for that or not.  Each of the    *)
(* three can fail by itself and the row stays.  No step is tried again.    *)
(*                                                                         *)
(* Analytics applies an event twice over: when it is posted, and when the   *)
(* consumer group reads it.  Whoever inserts the id into processed_events   *)
(* adds one to daily_metrics, in a statement of its own.  The claim takes   *)
(* an error for "claimed by another", the consumer swallows a failed bump   *)
(* and goes on.  The group starts where the topic ends.  A process connects *)
(* its member once, within eight seconds; when that fails it serves on      *)
(* without one, and only its restart tries again.                          *)
(***************************************************************************)
EXTENDS Naturals, Sequences

CONSTANTS
    Listings,   \* calls of create; each has its row and its event id
    Members,    \* replicas of analytics-service, members of the group
    NoMember,
    NoOffset,   \* the group has committed nothing
    MaxFaults   \* bound on crashes and revoked assignments (not on failed connects)

ASSUME TasksAssumption    == Listings \cap Members = {}
ASSUME NoMemberAssumption == NoMember \notin Members
ASSUME NoOffsetAssumption == NoOffset \notin Nat
ASSUME FaultsAssumption   == MaxFaults \in Nat

\* Whoever applies an event: the handler of a posted one, or a member.
Tasks == Listings \cup Members

VARIABLES
    env,         \* ANALYTICS_SYNC_MODE and LISTINGS_KAFKA_AWAIT_PUBLISH
    row,         \* listings.listings
    call,        \* the create handlers
    sending,     \* events whose publication nobody awaits
    log,         \* the topic, one partition
    claimed,     \* analytics.processed_events
    counted,     \* what each listing has added to daily_metrics
    apply,       \* applyListingCreatedForAnalytics in each task
    conn,        \* whether the member of a process will connect: up, or deaf
    owner,       \* the member the partition is assigned to
    pos,         \* events the group has behind it
    committed,   \* the committed offset
    faults,
    missed       \* history: events that a failed step or a jump passed over

listings  == <<row, call, sending>>
group     == <<owner, pos, committed>>
analytics == <<claimed, counted, apply>>
vars == <<env, listings, log, analytics, conn, group, faults, missed>>

\* startListingEventsConsumer connects, or it returns null.
Connects == {"up", "deaf"}

Idle == [at |-> "idle", answer |-> "none"]

Init ==
    /\ env \in [sync : BOOLEAN, await : BOOLEAN]
    /\ row = {} /\ sending = {} /\ claimed = {} /\ missed = {}
    /\ call = [l \in Listings |-> Idle]
    /\ log = <<>>
    /\ counted = [l \in Listings |-> 0]
    /\ \E l \in Listings : apply = [t \in Tasks |-> [at |-> "off", ev |-> l]]
    /\ conn \in [Members -> Connects]
    /\ owner = NoMember /\ pos = 0 /\ committed = NoOffset
    /\ faults = 0

\* A handler that waits for its post leaves it under way.
GiveUp(l, a) == call' = [call EXCEPT ![l] = [at |-> "late", answer |-> a]]
Answer(l, a) == call' = [call EXCEPT ![l] = [at |-> "done", answer |-> a]]
Goto(l, s)   == call' = [call EXCEPT ![l].at = s]

Become(t, s) == apply' = [apply EXCEPT ![t].at = s]

-----------------------------------------------------------------------------
(* listings-service.                                                       *)

\* The INSERT, or its error; the row may be there all the same.
Insert(l) ==
    /\ call[l].at = "idle"
    /\ \/ row' = row \cup {l} /\ Goto(l, IF env.sync THEN "sync" ELSE "publish")
       \/ row' \in {row, row \cup {l}} /\ Answer(l, "500")
    /\ UNCHANGED <<env, sending, log, analytics, conn, group, faults, missed>>

\* The post to /internal/ingest/listing-created arrives, before the handler has
\* given it up or after.
Ingest(l) ==
    /\ call[l].at \in {"sync", "late"} /\ apply[l].at = "off"
    /\ apply' = [apply EXCEPT ![l] = [at |-> "claim", ev |-> l]]
    /\ UNCHANGED <<env, listings, log, claimed, counted, conn, group, faults, missed>>

Synced(l) ==
    /\ call[l].at = "sync" /\ apply[l].at = "ok"
    /\ Goto(l, "publish")
    /\ UNCHANGED <<env, row, sending, log, analytics, conn, group, faults, missed>>

\* Refused, timed out, lost or answered 500: analytics may be still at work, or
\* the post not there yet.
SyncFails(l) ==
    /\ call[l].at = "sync"
    /\ GiveUp(l, "500")
    /\ UNCHANGED <<env, row, sending, log, analytics, conn, group, faults, missed>>

\* The producer retries a batch whose acknowledgement it did not get.
Produced(l) == {Append(log, l), Append(Append(log, l), l)}

\* Mutant: the error of the producer is swallowed where it is awaited, too.
PublishSwallowed(l) ==
    /\ call[l].at = "publish"
    /\ log' \in Produced(l) \cup {log}
    /\ Answer(l, "201")
    /\ UNCHANGED <<env, row, sending, analytics, conn, group, faults, missed>>

Publish(l) ==
    /\ call[l].at = "publish"
    /\ \/ env.await /\ log' \in Produced(l) /\ Answer(l, "201") /\ UNCHANGED sending
       \/ env.await /\ log' \in {log, Append(log, l)} /\ Answer(l, "503") /\ UNCHANGED sending
       \/ ~env.await /\ sending' = sending \cup {l} /\ Answer(l, "201") /\ UNCHANGED log
    /\ UNCHANGED <<env, row, analytics, conn, group, faults, missed>>

\* The send that nobody awaits ends; its error is logged.
SendEnds(l) ==
    /\ l \in sending
    /\ sending' = sending \ {l}
    /\ \/ log' \in Produced(l) /\ UNCHANGED missed
       \/ log' = log /\ missed' = missed \cup {l}
    /\ UNCHANGED <<env, row, call, analytics, conn, group, faults>>

\* The process ends with the call unanswered, or before the send.
CallLost(l) ==
    /\ call[l].at \in {"sync", "publish"} \/ l \in sending
    /\ faults < MaxFaults
    /\ faults' = faults + 1
    /\ CASE l \in sending        -> UNCHANGED call
         [] call[l].at = "sync"   -> GiveUp(l, "none")
         [] OTHER                 -> Answer(l, "none")
    /\ sending' = sending \ {l}
    /\ missed' = IF l \in sending THEN missed \cup {l} ELSE missed
    /\ UNCHANGED <<env, row, log, analytics, conn, group>>

-----------------------------------------------------------------------------
(* applyListingCreatedForAnalytics.                                        *)

\* Mutant: an error of the claim is taken for a claim.
ClaimErrorGoesOn(t) ==
    LET e == apply[t].ev
    IN  /\ apply[t].at = "claim"
        /\ \/ e \notin claimed /\ claimed' = claimed \cup {e} /\ Become(t, "bump")
           \/ e \in claimed /\ Become(t, "ok") /\ UNCHANGED claimed
           \/ claimed' \in {claimed, claimed \cup {e}} /\ Become(t, "bump")
        /\ UNCHANGED <<env, listings, log, counted, conn, group, faults, missed>>

\* tryClaimListingEvent.
Claim(t) ==
    LET e == apply[t].ev
    IN  /\ apply[t].at = "claim"
        /\ \/ /\ e \notin claimed
              /\ claimed' = claimed \cup {e}
              /\ Become(t, "bump")
              /\ UNCHANGED missed
           \/ e \in claimed /\ Become(t, "ok") /\ UNCHANGED <<claimed, missed>>
           \/ /\ e \notin claimed
              /\ claimed' \in {claimed, claimed \cup {e}}
              /\ missed' = missed \cup {e}
              /\ Become(t, "ok")
        /\ UNCHANGED <<env, listings, log, counted, conn, group, faults>>

\* bumpDailyMetricsNewListings.
Bump(t) ==
    LET e == apply[t].ev
        more == [counted EXCEPT ![e] = @ + 1]
    IN  /\ apply[t].at = "bump"
        /\ \/ counted' = more /\ Become(t, "ok") /\ UNCHANGED missed
           \/ counted' \in {counted, more} /\ Become(t, "failed") /\ missed' = missed \cup {e}
        /\ UNCHANGED <<env, listings, log, claimed, conn, group, faults>>

\* The process that applies a posted event ends.
TaskLost(l) ==
    /\ apply[l].at \in {"claim", "bump"}
    /\ faults < MaxFaults
    /\ faults' = faults + 1
    /\ missed' = IF apply[l].at = "bump" THEN missed \cup {apply[l].ev} ELSE missed
    /\ Become(l, "failed")
    /\ UNCHANGED <<env, listings, log, claimed, counted, conn, group>>

-----------------------------------------------------------------------------
(* The consumer group.                                                     *)

\* The process ends, with the event its member is at, and another is started.
MemberLost(m) ==
    /\ faults < MaxFaults
    /\ faults' = faults + 1
    /\ \E s \in Connects : conn' = [conn EXCEPT ![m] = s]
    /\ missed' = IF apply[m].at = "bump" THEN missed \cup {apply[m].ev} ELSE missed
    /\ Become(m, "off")
    /\ owner' = IF m = owner THEN NoMember ELSE owner
    /\ UNCHANGED <<env, listings, log, claimed, counted, pos, committed>>

\* The partition goes to m, which begins at the committed offset, or at the
\* end of the topic.
Assign(m) ==
    /\ owner = NoMember /\ conn[m] = "up" /\ apply[m].at = "off"
    /\ owner' = m
    /\ IF committed = NoOffset
       THEN pos' = Len(log) /\ missed' = missed \cup {log[i] : i \in (pos + 1) .. Len(log)}
       ELSE pos' = committed /\ UNCHANGED missed
    /\ UNCHANGED <<env, listings, log, analytics, conn, committed, faults>>

\* The owner loses the partition, whatever it is handling.
Revoke ==
    /\ owner # NoMember
    /\ faults < MaxFaults
    /\ faults' = faults + 1
    /\ owner' = NoMember
    /\ UNCHANGED <<env, listings, log, analytics, conn, pos, committed, missed>>

Fetch(m) ==
    /\ owner = m /\ apply[m].at = "off" /\ pos < Len(log)
    /\ apply' = [apply EXCEPT ![m] = [at |-> "claim", ev |-> log[pos + 1]]]
    /\ UNCHANGED <<env, listings, log, claimed, counted, conn, group, faults, missed>>

\* eachMessage returns, whether or not the event was applied.  The offset is
\* committed now, or with a later message.
Resolve(m) ==
    /\ apply[m].at \in {"ok", "failed"}
    /\ Become(m, "off")
    /\ IF owner = m THEN pos' = pos + 1 /\ committed' \in {committed, pos + 1}
                    ELSE UNCHANGED <<pos, committed>>
    /\ UNCHANGED <<env, listings, log, claimed, counted, conn, owner, faults, missed>>

-----------------------------------------------------------------------------
Next ==
    \/ \E l \in Listings : \/ Insert(l)   \/ Ingest(l)   \/ Synced(l) \/ SyncFails(l)
                           \/ Publish(l)  \/ SendEnds(l) \/ CallLost(l)
                           \/ TaskLost(l)
    \/ \E t \in Tasks : Claim(t) \/ Bump(t)
    \/ \E m \in Members : MemberLost(m) \/ Assign(m) \/ Fetch(m) \/ Resolve(m)
    \/ Revoke

\* Statements and sends end, and the group hands its partition to a member that
\* has connected, if there is one, and reads on.  Nobody has to connect.
Fairness ==
    /\ \A l \in Listings : WF_vars(SendEnds(l))
    /\ \A t \in Tasks : WF_vars(Claim(t) \/ Bump(t))
    /\ \A m \in Members : WF_vars(Fetch(m)) /\ WF_vars(Resolve(m))
    /\ WF_vars(\E m \in Members : Assign(m))

Spec == Init /\ [][Next]_vars /\ Fairness

-----------------------------------------------------------------------------
(* Properties.                                                             *)

\* The types.
TypeOK ==
    /\ env \in [sync : BOOLEAN, await : BOOLEAN]
    /\ row \subseteq Listings /\ sending \subseteq Listings
    /\ call \in [Listings -> [at : {"idle", "sync", "publish", "late", "done"},
                              answer : {"none", "201", "500", "503"}]]
    /\ log \in Seq(Listings)
    /\ claimed \subseteq Listings /\ missed \subseteq Listings
    /\ counted \in [Listings -> Nat]
    /\ apply \in [Tasks -> [at : {"off", "claim", "bump", "ok", "failed"}, ev : Listings]]
    /\ conn \in [Members -> Connects]
    /\ owner \in Members \cup {NoMember}
    /\ pos \in Nat /\ committed \in Nat \cup {NoOffset}
    /\ faults \in 0 .. MaxFaults

\* A listing adds one at most to the day's number, and only if its row exists.
AtMostOnce == \A l \in Listings :
    /\ counted[l] <= 1
    /\ counted[l] = 1 => l \in row

\* The group leaves no event behind that is not counted, or about to be, unless
\* one of the steps that nobody repeats has failed for it.
NonePassedOver == \A i \in 1 .. pos :
    \/ counted[log[i]] = 1
    \/ log[i] \in missed
    \/ \E t \in Tasks : apply[t] = [at |-> "bump", ev |-> log[i]]

\* An event counts once: not twice when it is posted and published, published
\* twice, read again after a crash or by two members, or when a statement took
\* effect and failed; and not less when the two ways race for the claim, or the
\* partition changes hands.
CountedOnce == AtMostOnce /\ NonePassedOver

\* A listing whose creation was confirmed is counted in the end, unless one of
\* the steps that nobody repeats has failed for it: the claim, the bump, a send
\* that was not awaited; or the group began to read behind it; or no process of
\* analytics has got a member connected.
EventuallyCounted == \A l \in Listings :
    call[l].answer = "201" ~> \/ counted[l] = 1
                              \/ l \in missed
                              \/ \A m \in Members : conn[m] = "deaf"
=============================================================================
