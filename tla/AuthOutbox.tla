----------------------------- MODULE AuthOutbox -----------------------------
(***************************************************************************)
(* Account deletion in auth-service and its transactional outbox.          *)
(*                                                                         *)
(* DELETE /account (server.ts) reads the user row, asks Redis whether the  *)
(* token is revoked, then runs one database transaction that anonymises    *)
(* the row and inserts a user.account.deleted.v1 row in auth.auth_outbox.  *)
(* A timer runs runAuthOutboxPublisherTick on every replica: a tick claims *)
(* unpublished rows in a short transaction (FOR UPDATE SKIP LOCKED), then  *)
(* sends them to Kafka OUTSIDE that transaction and marks them one by one. *)
(* setInterval does not wait for the previous tick, so ticks of one        *)
(* replica overlap with each other as well as with those of other          *)
(* replicas.                                                               *)
(*                                                                         *)
(* A request stands for one call of DELETE /account and runs once; the     *)
(* eventId it would draw with randomUUID() is the request itself.  What    *)
(* can go wrong outside the program (a broker or database error, Redis     *)
(* down, a crash) is a fault, and a behaviour has at most MaxFaults.       *)
(***************************************************************************)
EXTENDS Naturals, Sequences, FiniteSets

CONSTANTS
    Users,       \* rows of auth.users
    Sessions,    \* JWT ids (jti)
    OwnerOf,     \* the user a token was signed for
    Requests,    \* calls of DELETE /account, each also the eventId it may insert
    SessionOf,   \* the token a request carries
    Replicas,    \* auth-service processes
    Slots,       \* ticks of one process that may be in flight at once
    BatchSize,   \* AUTH_OUTBOX_BATCH
    MaxFaults    \* bound on the faults of a behaviour

ASSUME OwnerAssumption   == OwnerOf \in [Sessions -> Users]
ASSUME SessionAssumption == SessionOf \in [Requests -> Sessions]
ASSUME BatchAssumption   == BatchSize \in Nat \ {0}
ASSUME FaultAssumption   == MaxFaults \in Nat
ASSUME ProcessAssumption == IsFiniteSet(Replicas) /\ IsFiniteSet(Slots)

Ticks   == Replicas \X Slots
User(r) == OwnerOf[SessionOf[r]]

VARIABLES
    deleted,   \* auth.users.is_deleted
    revoked,   \* jtis with a revoked:<jti> key in Redis, written here by the deletion
    pc,        \* where the handler of a request is
    answer,    \* what it answered
    row,       \* the auth_outbox row whose id is the request
    stamp,     \* created_at of that row: NOW() is the start of the transaction
    clock,     \* the database clock, ticking once per transaction begun
    retries,   \* auth_outbox.retry_count
    tpc,       \* where a publisher tick is
    batch,     \* rows a tick has claimed and not yet finished
    cur,       \* the row a tick is sending or marking
    ready,     \* producerReady of each process
    log,       \* the user.lifecycle.v1 topic, in append order
    faults     \* faults so far

reqVars  == <<deleted, revoked, pc, answer, stamp, clock>>
tickVars == <<tpc, batch, cur, ready>>
vars == <<deleted, revoked, pc, answer, row, stamp, clock, retries,
          tpc, batch, cur, ready, log, faults>>

Init ==
    /\ deleted = [u \in Users |-> FALSE]
    /\ revoked = {}
    /\ pc = [r \in Requests |-> "idle"]
    /\ answer = [r \in Requests |-> "none"]
    /\ row = [r \in Requests |-> "absent"]
    /\ stamp = [r \in Requests |-> 0]
    /\ clock = 0
    /\ retries = [r \in Requests |-> 0]
    /\ tpc = [t \in Ticks |-> "idle"]
    /\ batch = [t \in Ticks |-> {}]
    /\ cur = [t \in Ticks |-> {}]
    /\ ready = [p \in Replicas |-> FALSE]
    /\ log = <<>>
    /\ faults = 0

Fault   == faults < MaxFaults /\ faults' = faults + 1
NoFault == faults' = faults

-----------------------------------------------------------------------------
(* DELETE /account *)

Reply(r, a) ==
    /\ pc' = [pc EXCEPT ![r] = "done"]
    /\ answer' = [answer EXCEPT ![r] = a]

Goto(r, l) ==
    /\ pc' = [pc EXCEPT ![r] = l]
    /\ answer' = answer

\* verifyJwt and the first SELECT: a deleted account is answered before the
\* token is looked up in Redis.
LookupUser(r) ==
    /\ pc[r] = "idle"
    /\ IF deleted[User(r)] THEN Reply(r, "already_deleted") ELSE Goto(r, "found")
    /\ UNCHANGED <<deleted, revoked, row, stamp, clock, retries, tickVars, log, faults>>

\* isJtiRevoked: an error of Redis reads as "not revoked".
CheckJti(r) ==
    /\ pc[r] = "found"
    /\ \/ SessionOf[r] \in revoked /\ Reply(r, "token_revoked") /\ NoFault
       \/ SessionOf[r] \notin revoked /\ Goto(r, "checked") /\ NoFault
       \/ SessionOf[r] \in revoked /\ Goto(r, "checked") /\ Fault
    /\ UNCHANGED <<deleted, revoked, row, stamp, clock, retries, tickVars, log>>

\* Mutant: the outbox row is inserted by a statement of its own, ahead of the
\* transaction that deletes the account.
BeginTxOutboxFirst(r) ==
    /\ pc[r] = "checked"
    /\ Goto(r, "tx")
    /\ clock' = clock + 1
    /\ stamp' = [stamp EXCEPT ![r] = clock]
    /\ row' = [row EXCEPT ![r] = "unpublished"]
    /\ UNCHANGED <<deleted, revoked, retries, tickVars, log, faults>>

\* prisma.$transaction begins: every NOW() in it is this moment.
BeginTx(r) ==
    /\ pc[r] = "checked"
    /\ Goto(r, "tx")
    /\ clock' = clock + 1
    /\ stamp' = [stamp EXCEPT ![r] = clock]
    /\ UNCHANGED <<deleted, revoked, row, retries, tickVars, log, faults>>

\* Mutant: the transaction trusts the SELECT made before it.
CommitTxNoRecheck(r) ==
    /\ pc[r] = "tx"
    /\ Goto(r, "committed")
    /\ deleted' = [deleted EXCEPT ![User(r)] = TRUE]
    /\ row' = [row EXCEPT ![r] = "unpublished"]
    /\ UNCHANGED <<revoked, stamp, clock, retries, tickVars, log, faults>>

\* SELECT ... FOR UPDATE, the check of is_deleted under the row lock, the
\* anonymising UPDATE and the INSERT into auth_outbox.  The lock on the user
\* row is held until COMMIT, so the body is one step for that row.
CommitTx(r) ==
    /\ pc[r] = "tx"
    /\ IF deleted[User(r)]
       THEN Reply(r, "already_deleted") /\ UNCHANGED <<deleted, row>>
       ELSE /\ Goto(r, "committed")
            /\ deleted' = [deleted EXCEPT ![User(r)] = TRUE]
            /\ row' = [row EXCEPT ![r] = "unpublished"]
    /\ UNCHANGED <<revoked, stamp, clock, retries, tickVars, log, faults>>

\* After COMMIT: revoke the caller's token; an error of Redis is only logged.
RevokeJti(r) ==
    /\ pc[r] = "committed"
    /\ Reply(r, "accepted")
    /\ \/ revoked' = revoked \cup {SessionOf[r]} /\ NoFault
       \/ revoked' = revoked /\ Fault
    /\ UNCHANGED <<deleted, row, stamp, clock, retries, tickVars, log>>

\* A database error (the transaction rolls back, the caller reads 500) or the
\* end of the process: the caller learns nothing of what was committed.
RequestFails(r) ==
    /\ pc[r] \in {"found", "checked", "tx", "committed"}
    /\ Reply(r, "error")
    /\ Fault
    /\ UNCHANGED <<deleted, revoked, row, stamp, clock, retries, tickVars, log>>

-----------------------------------------------------------------------------
(* runAuthOutboxPublisherTick *)

\* Mutants: a claim that does not look at published_at, and one that leaves out
\* rows that failed before.
AvailableAnyRow   == {r \in Requests : row[r] # "absent"}
AvailableNoRetry  == {r \in Requests : row[r] = "unpublished" /\ retries[r] = 0}

Locked    == UNION {batch[t] : t \in {x \in Ticks : tpc[x] = "claiming"}}
Available == {r \in Requests : row[r] = "unpublished"} \ Locked

\* ORDER BY created_at ASC LIMIT take, over the rows no other claim has locked.
OldestBatch(picked) ==
    /\ picked \subseteq Available
    /\ \/ Cardinality(picked) = BatchSize
       \/ picked = Available /\ Cardinality(picked) < BatchSize
    /\ \A x \in picked, y \in Available \ picked : stamp[x] <= stamp[y]

\* The timer fires, whether or not earlier ticks have ended.  A tick that
\* finds no row returns at once.
ClaimRows(t) ==
    /\ tpc[t] = "idle"
    /\ \E picked \in SUBSET Available :
          /\ picked # {}
          /\ OldestBatch(picked)
          /\ batch' = [batch EXCEPT ![t] = picked]
    /\ tpc' = [tpc EXCEPT ![t] = "claiming"]
    /\ UNCHANGED <<reqVars, row, retries, cur, ready, log, faults>>

\* The claiming transaction ends before anything is sent: its locks are gone.
CommitClaim(t) ==
    /\ tpc[t] = "claiming"
    /\ tpc' = [tpc EXCEPT ![t] = "claimed"]
    /\ UNCHANGED <<reqVars, row, retries, batch, cur, ready, log, faults>>

StopTick(t) ==
    /\ tpc' = [tpc EXCEPT ![t] = "idle"]
    /\ batch' = [batch EXCEPT ![t] = {}]
    /\ cur' = [cur EXCEPT ![t] = {}]

\* ensureProducer: a failed connect ends the tick and touches no row.
EnsureProducer(t) ==
    /\ tpc[t] = "claimed"
    /\ \/ /\ tpc' = [tpc EXCEPT ![t] = "publishing"]
          /\ ready' = [ready EXCEPT ![t[1]] = TRUE]
          /\ UNCHANGED <<batch, cur>>
          /\ NoFault
       \/ /\ ~ready[t[1]]
          /\ StopTick(t)
          /\ ready' = ready
          /\ Fault
    /\ UNCHANGED <<reqVars, row, retries, log>>

\* Mutant: an error of producer.send is swallowed, so the row is marked.
SendRowErrorIgnored(t, r) ==
    /\ tpc[t] = "publishing"
    /\ r \in batch[t]
    /\ cur' = [cur EXCEPT ![t] = {r}]
    /\ tpc' = [tpc EXCEPT ![t] = "sent"]
    /\ \/ log' = Append(log, r) /\ NoFault
       \/ log' = log /\ Fault
    /\ UNCHANGED <<reqVars, row, retries, batch, ready>>

\* producer.send.  It may fail before or after the broker has appended the
\* message (a lost acknowledgement).
SendRow(t, r) ==
    /\ tpc[t] = "publishing"
    /\ r \in batch[t]
    /\ cur' = [cur EXCEPT ![t] = {r}]
    /\ \/ log' = Append(log, r) /\ tpc' = [tpc EXCEPT ![t] = "sent"] /\ NoFault
       \/ log' = Append(log, r) /\ tpc' = [tpc EXCEPT ![t] = "failed"] /\ Fault
       \/ log' = log /\ tpc' = [tpc EXCEPT ![t] = "failed"] /\ Fault
    /\ UNCHANGED <<reqVars, row, retries, batch, ready>>

\* Mutant: the row in hand outlives its turn.
NextRowKeepsCur(t) ==
    /\ batch' = [batch EXCEPT ![t] = @ \ cur[t]]
    /\ cur' = cur
    /\ tpc' = [tpc EXCEPT ![t] = IF batch[t] \ cur[t] = {} THEN "idle" ELSE "publishing"]

\* The for loop goes on to the next row, or the tick ends.
NextRow(t) ==
    /\ batch' = [batch EXCEPT ![t] = @ \ cur[t]]
    /\ cur' = [cur EXCEPT ![t] = {}]
    /\ tpc' = [tpc EXCEPT ![t] = IF batch[t] \ cur[t] = {} THEN "idle" ELSE "publishing"]

Unlocked(t) == cur[t] \cap Locked = {}

\* UPDATE ... SET published_at = NOW(), which waits for a row another claim
\* holds.  On an error, with or without effect, the catch block runs next.
MarkPublished(t) ==
    /\ tpc[t] = "sent"
    /\ Unlocked(t)
    /\ \/ /\ row' = [r \in Requests |-> IF r \in cur[t] THEN "published" ELSE row[r]]
          /\ NextRow(t)
          /\ NoFault
       \/ /\ \/ row' = row
             \/ row' = [r \in Requests |-> IF r \in cur[t] THEN "published" ELSE row[r]]
          /\ tpc' = [tpc EXCEPT ![t] = "failed"]
          /\ UNCHANGED <<batch, cur>>
          /\ Fault
    /\ UNCHANGED <<reqVars, retries, ready, log>>

\* The catch block: retry_count + 1; an error here is thrown out of the loop
\* and ends the tick.
BumpRetry(t) ==
    /\ tpc[t] = "failed"
    /\ Unlocked(t)
    /\ \/ /\ retries' = [r \in Requests |-> IF r \in cur[t] THEN retries[r] + 1 ELSE retries[r]]
          /\ NextRow(t)
          /\ NoFault
       \/ retries' = retries /\ StopTick(t) /\ Fault
    /\ UNCHANGED <<reqVars, row, ready, log>>

\* The process ends: its connections close, which releases its row locks, and
\* its ticks are gone.
CrashReplica(p) ==
    /\ ready[p] \/ \E t \in Ticks : t[1] = p /\ tpc[t] # "idle"
    /\ Fault
    /\ ready' = [ready EXCEPT ![p] = FALSE]
    /\ tpc' = [t \in Ticks |-> IF t[1] = p THEN "idle" ELSE tpc[t]]
    /\ batch' = [t \in Ticks |-> IF t[1] = p THEN {} ELSE batch[t]]
    /\ cur' = [t \in Ticks |-> IF t[1] = p THEN {} ELSE cur[t]]
    /\ UNCHANGED <<reqVars, row, retries, log>>

-----------------------------------------------------------------------------
Request(r) ==
    \/ LookupUser(r) \/ CheckJti(r) \/ BeginTx(r) \/ CommitTx(r)
    \/ RevokeJti(r) \/ RequestFails(r)

Tick(t) ==
    \/ ClaimRows(t) \/ CommitClaim(t) \/ EnsureProducer(t)
    \/ \E r \in Requests : SendRow(t, r)
    \/ MarkPublished(t) \/ BumpRetry(t)

Next ==
    \/ \E r \in Requests : Request(r)
    \/ \E t \in Ticks : Tick(t)
    \/ \E p \in Replicas : CrashReplica(p)

Spec == Init /\ [][Next]_vars

\* The timer of a live process keeps firing and its awaits return; nobody has
\* to call DELETE /account, and no fault has to happen.
FairSpec == Spec /\ \A t \in Ticks : WF_vars(Tick(t))

-----------------------------------------------------------------------------
InLog(r)  == \E k \in DOMAIN log : log[k] = r
Copies(r) == Cardinality({k \in DOMAIN log : log[k] = r})

\* A tick has a row in hand only while it sends or marks it, and claimed it.
CurOfBatch(t) ==
    /\ cur[t] \subseteq batch[t]
    /\ tpc[t] \notin {"sent", "failed"} => cur[t] = {}

\* The variables stay in their domains; a tick works only on a row it claimed.
TypeOK ==
    /\ deleted \in [Users -> BOOLEAN]
    /\ revoked \subseteq Sessions
    /\ pc \in [Requests -> {"idle", "found", "checked", "tx", "committed", "done"}]
    /\ answer \in [Requests -> {"none", "accepted", "already_deleted", "token_revoked", "error"}]
    /\ row \in [Requests -> {"absent", "unpublished", "published"}]
    /\ stamp \in [Requests -> Nat]
    /\ clock \in Nat
    /\ retries \in [Requests -> Nat]
    /\ tpc \in [Ticks -> {"idle", "claiming", "claimed", "publishing", "sent", "failed"}]
    /\ batch \in [Ticks -> SUBSET Requests]
    /\ cur \in [Ticks -> SUBSET Requests]
    /\ ready \in [Replicas -> BOOLEAN]
    /\ log \in Seq(Requests)
    /\ faults \in 0..MaxFaults
    /\ \A t \in Ticks : CurOfBatch(t)

\* No event is lost on the producer side: whatever ticks, crashes and broker
\* errors interleave, a row whose published_at is set has been appended to the
\* topic (auth-outbox-publisher.ts sends, then updates).
PublishedInLog == \A r \in Requests : row[r] = "published" => InLog(r)

\* However many calls of DELETE /account race on one account, from one token or
\* several, the account is deleted exactly when there is one outbox row for it.
OneRowPerDeletion ==
    /\ \A u \in Users : deleted[u] <=> \E r \in Requests : User(r) = u /\ row[r] # "absent"
    /\ \A r1, r2 \in Requests :
          User(r1) = User(r2) /\ row[r1] # "absent" /\ row[r2] # "absent" => r1 = r2

\* Consumers are told only of deletions that were committed: an event in the
\* topic has its outbox row, and its account is deleted.
LogIsCommitted ==
    \A k \in DOMAIN log : row[log[k]] # "absent" /\ deleted[User(log[k])]

\* A caller is told "accepted" at most once per account, and "accepted" or
\* "already_deleted" only when the deletion is durable.
AnswersAreDurable ==
    /\ \A r \in Requests : answer[r] \in {"accepted", "already_deleted"} => deleted[User(r)]
    /\ \A r1, r2 \in Requests :
          answer[r1] = "accepted" /\ answer[r2] = "accepted" /\ User(r1) = User(r2) => r1 = r2

\* Duplicates in the topic come only from ticks that overlap and from faults:
\* one copy per tick in flight, and at most one process's worth of ticks lost
\* per fault.
CopiesBounded ==
    \A r \in Requests : Copies(r) <= Cardinality(Ticks) + Cardinality(Slots) * faults

\* Every outbox row is published in the end, once faults stop: neither the
\* LIMIT, nor rows locked by another claim, nor a failed attempt starves it.  A
\* row is inserted once and never leaves "published", so that the outbox is
\* without an unpublished row again and again says this of each row.
EventuallyPublished == []<>(\A r \in Requests : row[r] # "unpublished")
=============================================================================
