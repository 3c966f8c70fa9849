# TLA+ models of the Off-Campus Housing Tracker

The repository is a set of Node services (auth, booking, listings, messaging,
media, trust, notification, analytics) behind an API gateway, each with a
PostgreSQL database of its own, sharing Kafka and Redis. The code that is hard
to get right is where one operation spans several statements or systems: a
database and a topic, two updates, a cache and a table. These modules model that
code, TLC checks them on small instances and TLAPS proves the safety results for
instances of any size.

## 1. Inventory

| Component | State | Operations | Interacts with | What makes it correct |
|---|---|---|---|---|
| auth: account deletion (`auth-service/src/server.ts`) | `auth.users`, `auth.auth_outbox`, revoked tokens in Redis | `DELETE /account` | Redis, the outbox | one event per deleted account, atomic with the deletion |
| auth: outbox publisher (`lib/auth-outbox-publisher.ts`) | `published_at`, `retry_count`, `producerReady` | a timer's tick: claim, send, mark | Kafka topic `user.lifecycle.v1` | nothing lost, bounded duplicates, everything published in the end |
| lifecycle consumers (`common/src/user-lifecycle-consumer.ts`, six services) | `<service>.processed_events`, group offsets | connect, decode, claim, handle, commit | Kafka, the service's tables | a deletion reaches every service |
| auth: sessions and cache (`server.ts`, `lib/redis-cache.ts`) | tokens, `user:email:*` in Redis | register, login, refresh, logout | gateway (checks revoked tokens) | a deleted account cannot log in |
| auth: MFA, passkeys, codes | challenge tables | enrol, verify | SMS and mail providers | a code is used once |
| booking (`booking-service/src`, `infra/db/0[12]-booking-*.sql`) | `booking.bookings` | create, request, confirm, cancel, notes | Kafka, listings over HTTP, the lifecycle topic | a day is sold once, cancelled is final, events are true |
| messaging: groups (`routes/messages.ts`) | groups, members, bans, messages | create, add, kick, ban, unban, leave, archive, delete; send, reply, edit, recall, remove | Redis cache, Kafka | who is removed or banned is out of what asks for membership, a group keeps an owner or admin, nothing outlives it, events match rows |
| messaging: direct messages, archived threads, rate limit | messages, one archive row per user | send, archive | Redis | an answer matches its row |
| messaging: forum (`routes/forum.ts`, `grpc-server.ts`) | posts, comments, votes, attachments | create, edit, delete, vote, attach, read the thread | Kafka, media ids | nothing dangles, the thread is whole |
| messaging: cached reads (`lib/cache.ts`) | data and lock keys in Redis | single-flight read, invalidate | PostgreSQL | one recomputation while the lock lasts, an old value does not come back for good |
| listings: creation and events (`http-server.ts`, `grpc-server.ts`, `listing-kafka.ts`) | `listings` | create | analytics over HTTP, Kafka | a confirmed listing is announced |
| listings: search, details, watchlist | - | reads | booking over HTTP | - |
| analytics: projection (`listing-metrics-projection.ts`, consumer, ingest route) | `processed_events`, `daily_metrics` | Kafka and HTTP ingest | listings | a listing is counted once, and is counted |
| analytics: dashboards and AI control plane | measurements | reads, control loop | a language model | - |
| media | media rows, outbox | upload URL, complete | S3, outbox | one event per upload |
| notification (`kafka-consumer.ts`) | `processed_events`, `notifications`, group offsets | connect, claim, insert, commit; reads and marks over HTTP | Kafka topics of booking, listings, messaging | a message is told, once unless something failed |
| trust | flags, reviews, scores | CRUD | PostgreSQL | - |
| gateway, common guards | in-flight counters | acquire, release | Redis | the limit holds, nothing leaks |
| ollama gateway and worker | job queue | enqueue, run | a language model | jobs end |
| web application, scripts, k6, manifests | - | - | - | outside the models |

The behaviours that are hard: statements of two requests interleave, because
almost nothing is locked between a read and the write it decides; a message is
sent outside the transaction that records it; consumers claim and act in two
statements; Redis and Kafka may fail at any await, and most such errors are
logged and swallowed; timers overlap; a timeout rejects a call whose statement
goes on. `PROJECT.json` lists each hazard at its line with the properties that
watch it.

## 2. Modules

| Module | Models |
|---|---|
| `AuthOutbox` | `DELETE /account` and the outbox publisher |
| `LifecycleConsumer` | the wire format of a deletion, and one service's consumer group on the topic |
| `UserLifecycle` | `AuthOutbox` and `LifecycleConsumer` joined by the topic |
| `NotificationConsumer` | notification-service's consumer group on the domain topics |
| `Reservations` | abstract: what booking-service promises about days and answers |
| `Booking` | booking-service: reservations, their database rules, their events; implements `Reservations` |
| `AuthSession` | auth-service: accounts, tokens, revocation and the user cache, with the gateway's guard |
| `GroupRecord` | abstract: what messaging-service promises about the record of a group |
| `GroupChat` | messaging-service: one group, its members, bans and messages; implements `GroupRecord` |
| `SingleFlight` | messaging-service: reads through the Redis cache, for one key |
| `ListingFeed` | listings-service's create and analytics' projection, joined by HTTP and the topic |
| `Forum` | messaging-service: posts, comments, votes, attachments |
| `MC*` | instances for TLC |
| `*_proofs` | theorems and proofs |

**AuthOutbox.** A request is one call of `DELETE /account`; its program counter
follows the awaits of the handler: `LookupUser` (first SELECT), `CheckJti`
(Redis), `BeginTx`/`CommitTx` (the transaction; `SELECT ... FOR UPDATE` holds
the user row, so its body is one step for that row), `RevokeJti`. `created_at`
is `NOW()`, which PostgreSQL fixes when the transaction begins, so `stamp` is
taken in `BeginTx` and rows may become visible out of `created_at` order. A tick
is a `<<process, slot>>` pair: `setInterval` does not wait, so several ticks of
one process overlap. `ClaimRows`/`CommitClaim` are the claiming transaction with
its row locks, `EnsureProducer`, `SendRow`, `MarkPublished` and `BumpRetry` the
loop over the rows, with the order of `send` and `UPDATE` and the catch block of
the source. A send may fail with or without having appended, an UPDATE with or
without having taken effect.

**LifecycleConsumer.** What a member gets to see of an event is decided by the
wire format, so `Envelope` and `Decoded` model the codec by its field names.
`getProtoRoot` loads the `.proto` files without `keepCase`; protobufjs then knows
`event_id` as `eventId`. `Encode` writes the properties that are fields and drops
the others, `Read` gives `undefined` for a name that is no field. The type of the
envelope survives both ways, the event id and the user id do not. `ClaimEvent` is
the INSERT, `ClaimThrows` its error (`undefined` becomes NULL in a primary key),
which leaves `eachMessage`: the offset stays, and the consumer leaves the group
and comes back. `Start` connects once or leaves the process `deaf`, because
`startUserLifecycleConsumer` returns null after eight seconds and no caller tries
again. The rest is written as the source has it for an event that can be claimed,
although no step gets there until the fields are read by their names: the
handler inside the `try` that swallows, the commit, a member that lost the
partition without noticing. Kafka and kafkajs are external.

**NotificationConsumer.** `extractMeta` decides two things. The user is looked
for in five places: a listing's event, a post's or comment's and a message's
have one there, a booking's has not (`UserAt`, `UserPlaces`). The event id is
looked for at the top level while every producer puts it under `metadata`, so a
fresh one is drawn at each delivery (`EventId`). `Claim`/`ClaimFails` are
`ensureProcessed`, whose `catch` says "already processed"; `InsertNotification`
is the INSERT in its `try`; both resolve the message. `missed` is history:
positions whose claim or insert failed. `base` is where the group began when it
had committed nothing.

**Booking.** A booking stands for its row and for the call that inserts it. A
call of confirm or cancel keeps the local variables of its handler in `call[c]`:
the booking, the transport (`via`), the landlord it will write, the event it
will publish, its answer. `Accepts` is the database: the trigger
`enforce_booking_transition` and the exclusion constraint
`no_overlapping_bookings` with its inclusive date ranges. Faults are errors of
the database or of Kafka and the end of a process. `AccountDeleted` is the handler that the lifecycle consumer calls; no event
reaches it as the envelope stands, and everything said here holds with it and
without it. `http-app.ts` contains a second, truncated copy of the cancel route after the complete one (lines
422-442), and other repeated fragments; the routes modelled are the complete
ones.

**AuthSession.** A call is one request: `register` and `login` bring an e-mail
and a password, `validate`, `refresh`, `logout`, `erase` (`DELETE /account`) and
`use` (any other service) bring a token. `at` follows the awaits of the handler,
so the steps of two requests interleave between them. `cache` is the record
under `user:email:<e-mail>`, with the empty hash that registering a known
address writes; `revoked` the `revoked:<jti>` keys, which disappear once the
token has expired, since their TTL is what is left of its life. An error of
Redis reads as a miss everywhere, and the guard of the gateway gives up after
half a second: `blind` remembers that a request went on without an answer. Two
history variables serve the properties: `signedOut` (revocations reported done)
and, in a call, `gone` and `late` (what was deleted or signed out when the
request began). The transaction of the deletion is one step here; `AuthOutbox`
has it in full. The gRPC methods repeat the HTTP handlers step for step and
share the actions. MFA is not: its routes are not mounted, so `mfa_enabled`
stays false.

**GroupChat.** A call is one request; `at` names the statement it runs next, and
every SELECT and every write of a route is a step of its own, because the routes
hold nothing in between. Only `archiveTx` and `deleteTx` are transactions. The
foreign keys and the unique membership row are guards of the writes. A statement
may fail, or take effect although its caller hears 500 (`Finish`): that is the
five-second timer of `withTimeout`, which rejects without cancelling the query.
`Crash` ends every call in progress. `before` is history: which calls had ended
when a call began, so that a property can tell overlap from sequence. The reply
route reads its parent and inserts, and asks for no membership; edits and recalls
ask for the sender only. So a user who was removed or banned can still answer a
message of the group, and `OutIsOut` names the routes of which it speaks. The event
follows the write; the routes answer 500 when it fails, with the row in place.

**SingleFlight.** A read follows the awaits of `cached()`: the Lua script
(entry, lock, or wait), the second GET, `SETNX` and `PEXPIRE` as two calls or
the sleep of 75 ms, the query, the write, the release. The lock is `free`,
`held` or `stuck` (no expiry); it has no token, so a release deletes whatever
lock is there. `lost` is history: the read's lock expired while it held it. A
replica that ends leaves its keys behind. `Change` is a write to the table with
or without its invalidation; entries and locks may expire at any time they can.
The gRPC handlers read the same key with a placeholder as their value (`Stubs`).
`SETNX`, `PEXPIRE` and the last GET stand outside the `try` blocks: when Redis
rejects one of them (`Rejected`), a gRPC read ends alone, since `withLogging`
catches the error, and a route's read takes its process along.

**ListingFeed.** A listing stands for its create call, its row and its event.
`call` follows the handler: INSERT, the post to analytics when
`ANALYTICS_SYNC_MODE` is set, the event, awaited or not; `env` fixes the two
switches for a run. A task applies an event, for a post (one per listing) or for
a member of the consumer group: claim in `processed_events`, then bump of
`daily_metrics`, each of which may fail with or without effect. The group has an
owner, a position, a committed offset, and starts at the end of the topic. A
post that was given up after eight seconds may still arrive (`late`). A process
of analytics connects its member once (`conn`): `deaf` ones stay so until they
are restarted.
`missed` is history: listings for which a step that nobody repeats has failed,
or whose event was before the group's first offset.

**Forum.** Items are posts and comments alike; a row is named by the call that
creates it. `Begin` is a request's arrival with whatever it asks, `AuthorCheck`
its SELECT, `Write` its statement with the cascades of the foreign keys,
`ReadCounters` the SELECT after a vote, `Publish` the event. `Shown` is the tree
that `GET /posts/:postId/comments` builds: comments without a parent among the
rows are roots.

## 3. Runs

| Run | Instance | Shows |
|---|---|---|
| `outbox` | 2 accounts, 3 calls, 1 process with 2 ticks, batch 1, 1 fault | `PublishedInLog`, `OneRowPerDeletion`, `LogIsCommitted`, `AnswersAreDurable`, `CopiesBounded`, `EventuallyPublished` |
| `lifecycle` | 1 account, 1 call, a service of 2 instances, no fault | *violated*: `DeletionPropagates` |
| `notifications` | topic of 3, a kind that names its user and one that does not, 2 processes, 2 failures | `RepeatsBounded`, `NothingDropped`, `EventuallyNotified` |
| `notified_twice` | 1 kind, 1 process, 1 failure | *violated*: `NotifiedOnce` |
| `booking` | 2 overlapping bookings, 2 calls, 1 fault | `NoDoubleSale`, `EventsAreTrue`, `GrpcOkIsAnnounced`, `PendingIsHandled`, `RefinesReservations`, `EventuallyDecided` |
| `confirm_after_cancel` | the same, no fault | *violated*: `NoConfirmAfterCancel` |
| `session` | 1 e-mail, 2 passwords, 5 requests, 2 at a time, 1 fault | `SignedOutIsRefused`, `ErasedIsRefused`, `TokenOfThePassword`, `OnlyOverlapRecaches` |
| `deleted_login` | the same with 4 requests and no fault | *violated*: `DeletedMustGet401` |
| `groups` | one request of any kind, one that adds, leaves, sends or kicks, one that sends; 2 users, 1 message | `OutIsOut`, `BanHolds`, `OrphanedByItsOwner`, `EventsAreTrue`, `RefinesRecord` |
| `cache` | 3 reads of one key on 2 replicas, one read through gRPC | `ExclusionUntilExpiry`, `EveryReadEnds`, `NothingReturns` |
| `listing_feed` | 2 creations, 2 members, 1 crash or reassignment | `CountedOnce`, `EventuallyCounted` |
| `forum` | 3 requests on 2 posts of 2 users | `NothingDangles`, `ThreadIsWhole` |

Each passing run also checks its module's `TypeOK`, except `groups` and
`listing_feed`, whose types are theorems.

**Bounds.** Two overlapping ticks are enough for the races of the publisher: a
row is either held by the other tick or not. A batch of one with two rows makes
`LIMIT` bind. Three calls on two accounts let two deletions race and a third
stand behind them in the outbox. Two processes, a topic of three and two failures
give a repeated message, a rebalance with a member that has not noticed, a
message behind it, and one that is passed over. Two bookings that share a day and two calls cover each pair of racing
handlers; the third actor is the account deletion, which is free to come at any
time. One e-mail makes an account and its successor share a cache key, and two
passwords tell them apart; five requests are enough for two registrations, a
deletion and two logins, any two of them overlapping. In a group, any operation
meets an add, a kick or a leave, and a send that one of them may overtake; two
bans or two deletions at once are left to the proofs, which bound nothing. Users
are symmetric there, calls in the forum. Three
reads are needed for the lock without a token: one that outlives its ten
seconds, the next owner, and the one let in when the first deletes the second's
lock. Failed statements and crashes are not counted in `GroupChat`,
`SingleFlight` and `Forum`: each call runs once, so they end by themselves. `MaxFaults`, `MaxFailures`, `MaxLog` and
`MaxCalls` are the only bounds on behaviour; the proofs hold for every value of
them.

**Fairness.** Weak fairness of a tick's steps: the timer of a live process keeps
firing and an awaited promise settles. Weak fairness of a process being started
again, of assigning an unowned partition to a member that has *connected*, of
polling and of auto-commit: kafkajs' loop. None of connecting: it is tried once
per process, and `EventuallyCounted` and `EventuallyNotified` say "or no process
has connected". Weak fairness of a started booking handler. Weak fairness of
every step of a cached read, which the process resumes unless it ends; of the
sends, claims and bumps of the listings feed. Nobody has to call an API, no
message has to be produced, and no fault has to happen; where faults are bounded,
liveness is about behaviours in which they stop. `DeletionPropagates` asks for
least of all: an event that lies ahead of a member that reads, and no failure.

**What the code does not do** (four violations, each against a quoted line):

- A deletion reaches no service. The codec drops the names it is given, the
  claim of `undefined` throws at every delivery, and the group stays at the first
  deletion it meets (`lifecycle`; the end-to-end test expects the opposite).
- A notification is not idempotent: a message that is delivered again is claimed
  under another id and told again. `RepeatsBounded` says how often. The fault has
  a good side, which `NothingDropped` states: a crash between claim and insert
  drops nothing, where a claim that recognised the event would drop it.
- A booking's confirmation can follow its cancellation in the topic.
- A deleted user can log in: the Runbook has the cache invalidated before the
  deletion, the code does it after the commit, and a login in between is served
  from the cache. `OnlyOverlapRecaches` bounds the rest: after the invalidation, only a
  request that began before the deletion can bring the record back.

## 4. Theorems

| Theorem | Statement |
|---|---|
| `NotificationConsumer_proofs` | `TypeOK`, `RepeatsBounded`, `NothingDropped` |
| `AuthOutbox_proofs` | `TypeOK`, `PublishedInLog`, `OneRowPerDeletion`, `LogIsCommitted`, `AnswersAreDurable`, `CopiesBounded` |
| `Booking_proofs` | `TypeOK`, `NoDoubleSale`, `EventsAreTrue`, `GrpcOkIsAnnounced`, `PendingIsHandled`, `CancelledIsFinal`; `Spec => RefinesReservations`, `RefinesReservations => []NoDoubleSale` |
| `AuthSession_proofs` | `TypeOK`, `SignedOutIsRefused`, `ErasedIsRefused`, `TokenOfThePassword`, `OnlyOverlapRecaches` |
| `GroupChat_proofs` | `TypeOK`, `DeletedGroupIsEmpty`, `OutIsOut`, `BanHolds`, `OrphanedByItsOwner`, `EventsAreTrue`; `Spec => RefinesRecord`, `RefinesRecord => []DeletedGroupIsEmpty` |
| `SingleFlight_proofs` | `TypeOK`, `ExclusionUntilExpiry`, `NothingReturns` |
| `ListingFeed_proofs` | `TypeOK`, `CountedOnce` |
| `Forum_proofs` | `TypeOK`, `NothingDangles`, `ThreadIsWhole` |

Assumptions are those of the modules (`ASSUME ...Assumption`): tokens belong to
users, requests carry tokens, bounds are natural numbers, listings and dates are
functions of the booking, an event is of a known kind, an old post has an author,
a name is not two things. The sets of auth-service's processes and of the ticks
of a process are finite, which only `CopiesBounded` needs, and so is the set of
notification-service's processes, which `RepeatsBounded` needs; nothing else is
bounded.

*Outbox.* `IInv` relates what a tick or a handler is in the middle of to the
tables: a tick that is about to mark a row has appended it, a handler past
COMMIT has its row, a row belongs to a deleted account, and two rows never
belong to one account. The last needs the recheck under the lock in `CommitTx`:
the first SELECT proves nothing. `CopiesBounded` says that an event is in the
topic at most once per tick, plus once per tick that a fault cost. It is not
inductive, since it does not say who sent a copy. `CopyInv` does: while a row is
unpublished, each copy belongs to a tick that has sent and will mark it, or to a
tick that was lost; once it is published nobody claims it, and only the ticks
that hold it in their batch can send it again. A crash loses at most the ticks
of one process, so `Lost` counts `Cardinality(Slots)` a fault. The proof needs
that a tick is in one of the two sets at a time, and that marking moves it.

*Notifications.* `RepeatsBounded` has to count what may still be told: in
`TellInv` each reader that has message `k` before it is one more notification to
come, and told and to come together exceed the failures by one at most, for the
one assignment that needs no failure: any other follows a crash or takes the
partition from a member that lives. `NothingDropped`
needs two more facts. `Fresh` says that an id that will be drawn is in nobody's
claims, so the claim turns no message away; `DropInv` says of every reader's
position, not only of the committed one, that what lies behind it was told or
has failed. Both use that `extractMeta` finds no event id (`Drawn`).

*Booking.* `NoDoubleSale` is not inductive: nothing in it says that a booking
about to be confirmed is alone. `Exclusive` does: overlapping bookings never
both hold their days. `ConfirmedRows` says that a row once confirmed can only
become cancelled, so that what was announced still binds. `PendingIsHandled` is
the delicate one: it speaks of each booking and asks for a confirmation of this
very booking that is between its updates, or that a fault has cut short and whose
caller was told. A refused second update would leave the booking pending without
such a call. It is not refused, because a pending row holds its days exclusively,
so `Accepts` is true. No fault elsewhere excuses it. `Reservations` has neither handlers nor
constraints: `held`, `off` and `told` are read off the status and the topic,
`agreed` is the history of confirmations. A step to pending maps to `Hold`, a
confirmation to `Agree`, a cancellation to `Cancel` of one booking, the
lifecycle handler's UPDATE to `Cancel` of many, an append to `Tell`; the
invariant is needed where a handler acts on a status it read earlier.
`ReservedOnce` derives the single sale again, from the abstract specification.

*Sessions.* None of the properties is inductive: a request decides on what it
read some steps ago. `CallSound` says what a request carries about its user at
each step, `CallLate` that a request whose token was signed out before it began
is still at a look-up that will refuse it, `CacheSound` that a cached record
belongs to a user, live or not, who registered with that e-mail, and has its
hash or none. They survive the steps of other requests because users and tokens
only gain (`Grows`): an e-mail and a hash of the history never change, a deleted
account never comes back. `SignedOutIsRefused` needs `signedOut \subseteq
revoked \cup expired`, where the TTL of a revocation matters.
`OnlyOverlapRecaches` follows step by step: only three actions fill the cache,
and each has read its user while it was live.

*Groups.* The twenty-odd steps are judged once each: a lemma per step says that
the call moved legally (`CallStep`) and how the group, the members, the bans,
the messages and the events may have changed by it (`GroupStep`, `MemberStep`,
`BanStep`, `MessageStep`, `EventStep`). The invariants are then proved from
these six descriptions and not from the steps. `BeforeInv` says that what is in
`before` runs no more; `LateAdd` that an add which began after a ban was
answered ended with a refusal, and `BanRow` that a ban without a rival has its
row from the moment it is inserted. `OwnerInv` and `GroupInv` carry
`OrphanedByItsOwner`: there is one owner at most, nobody becomes owner later, a
leave that passed its check is not the owner's, and so a group that is not
deleted is owned, untouched, or left behind by an owner who removed itself.
`GroupInv` has nothing outlive the group because members and messages need their
group's row at the moment of their INSERT, not at the check.

`GroupRecord` has neither requests nor statements: sets of owners, members and
messages that grow only while the group is there. The mapping reads the rows as
those sets. Each step is one abstract action or a stutter. `InsertOwner` is
`Own`, which asks for an untouched group, so `GroupInv` has to know that a
creation still under way is alone in its group; `InsertMember` and
`InsertMessage` are `Admit` and `Post`, where the foreign key says that the group
is not deleted and `NotYet` that it exists; an update that meets a row deleted
meanwhile, an edit, and a second deletion of the group stutter. `EventInv` makes
an event follow its row. Who may do what is beyond `GroupRecord`: `OutIsOut` and
`BanHolds` speak of the calls. From `RefinesRecord` alone follows
`DeletedGroupIsEmpty`, as `NoDoubleSale` does from `RefinesReservations`.

*Cache.* `LockInv`: as long as no read has lost its lock there is one owner at
most, and while there is one the lock is taken. It needs every way into
ownership, the script and `SETNX`, to test the lock in the same Redis command
that takes it, and every release to be by an owner. `IdleInv` says that a read
that has not begun holds nothing. `NothingReturns` is an action property:
`CarryStep` shows that only a query adds a value to what is carried, and a query
reads the row as it is.

*Feed.* `CountInv`: a listing is counted, or about to be bumped, by one task at
most, since the claim is unique and only its winner bumps. `RowInv`: whatever is
posted, sent, in the topic, being applied or counted has its row behind it.
`PassInv` carries the other direction, that nothing is passed over: something has
become of every claimed event (`Settled`), a member that is done with an event
has seen it claimed or has missed it, the owner works at the event that follows
the position, and what is behind the position was claimed or missed. A member
that lost the partition in the middle of an event settles it all the same, and
moves nothing.

*Forum.* What a deletion takes along and what a reader is shown are least sets
closed under hanging on: as in the database, and in a form about which a proof
needs no induction. `FallsClosed` and `FallsBounded` give `NothingDangles`: a
survivor hangs on nothing that fell. `Checked` keeps the author over the gap
between SELECT and statement, because a row's author never changes and a name is
not used twice. `ThreadIsWhole` needs that replies form no cycle, which is said
of sets (`Grounded`): each set of rows has one whose parent is outside. A row is
written once, under a name nobody has used, with a parent that is there, so no
set loses that. Were some comment of a post not shown, the comments not shown
would be a set with such a member: a root, or a reply to one that is shown.

Every invariant and every action property that a run checks is a theorem. Only
model-checked are the liveness properties `EventuallyPublished`,
`EventuallyNotified`, `EventuallyDecided`, `EveryReadEnds` and
`EventuallyCounted`: they rest on fairness, hence on ENABLED, which is beyond
these provers; and the four violations, which are counterexamples.

## 5. Not modelled

Inside the modelled components: tenant notes, the dry-run (which compares dates
with half-open ranges while the constraint is inclusive), the watchlist and the
search history; the metrics of the publisher; e-mail verification, OAuth and
passkeys around the sessions; what kafkajs does between a thrown message and the
consumer's return beyond leaving and rejoining; the sliding TTL of a cached record beyond the fact
that it may expire at any time; attachments, read marks and the lists of groups;
transport, tracing, encoding.

Whole components: direct messages and archived threads (single statements on one
row), dashboards and searches (reads), the AI control plane and the
language-model gateways (floating-point tuning around an external service), the
web application, scripts, k6 scenarios and manifests (no state of the system).
media and trust are small, and so are the routes of notification; what is hard in them is listed in
`PROJECT.json` and in the plan. User interface, dashboards, prompts for language
models and scripts are the larger part of the repository's lines, which keeps
the mapped share small.

## 6. Plan

1. `MediaUpload`: two completions of one upload, each with an outbox row, over the
   publisher that `AuthOutbox` models.
2. `QueryGuard`: the bounded pool guard that trust, media, messaging, listings and
   analytics share (`db.ts`): limit, queue, the window between a release and
   the waiter's resumption.
3. Once the envelope carries its fields: what the lifecycle consumers promise
   (an effect at most once, no offset committed over an event), and a composition
   of `Booking` with the pipeline: no live booking of a deleted user, where it
   holds.
4. The gateway's gRPC calls with retries (`common/src/grpc-clients.ts`), and the
   in-flight budget with its expiring counter.
