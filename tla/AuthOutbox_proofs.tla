------------------------- MODULE AuthOutbox_proofs -------------------------
(***************************************************************************)
(* Safety of auth-service's deletion handler and outbox publisher, for any *)
(* number of accounts, calls, processes, overlapping ticks and faults.     *)
(***************************************************************************)
EXTENDS AuthOutbox, Integers, FiniteSetTheorems, TLAPS

-----------------------------------------------------------------------------
(* Type correctness *)

\* The variables of AuthOutbox keep their types, and a tick only works on rows
\* it has claimed.
THEOREM TypeCorrect == Spec => []TypeOK
<1>1. Init => TypeOK
  BY FaultAssumption DEF Init, TypeOK, CurOfBatch
<1>2. TypeOK /\ [Next]_vars => TypeOK'
  <2> SUFFICES ASSUME TypeOK, [Next]_vars
               PROVE  TypeOK'
    OBVIOUS
  <2> USE FaultAssumption, OwnerAssumption, SessionAssumption DEF TypeOK, Goto, Reply, Fault, NoFault, User
  <2>1. ASSUME NEW r \in Requests, LookupUser(r)
        PROVE  TypeOK'
    BY <2>1 DEF LookupUser, tickVars, CurOfBatch
  <2>2. ASSUME NEW r \in Requests, CheckJti(r)
        PROVE  TypeOK'
    <3>1. faults' \in 0..MaxFaults
      BY <2>2 DEF CheckJti
    <3>2. \/ Reply(r, "token_revoked")
          \/ Goto(r, "checked")
      BY <2>2 DEF CheckJti
    <3>3. UNCHANGED <<deleted, revoked, row, stamp, clock, retries, tpc, batch, cur, ready, log>>
      BY <2>2 DEF CheckJti, tickVars
    <3> QED
      <4>1. CASE Reply(r, "token_revoked")
        BY <3>1, <3>3, <4>1 DEF CurOfBatch
      <4>2. CASE Goto(r, "checked")
        BY <3>1, <3>3, <4>2 DEF CurOfBatch
      <4> QED
        BY <3>2, <4>1, <4>2
  <2>3. ASSUME NEW r \in Requests, BeginTx(r)
        PROVE  TypeOK'
    BY <2>3 DEF BeginTx, tickVars, CurOfBatch
  <2>4. ASSUME NEW r \in Requests, CommitTx(r)
        PROVE  TypeOK'
    BY <2>4 DEF CommitTx, tickVars, CurOfBatch
  <2>5. ASSUME NEW r \in Requests, RevokeJti(r)
        PROVE  TypeOK'
    BY <2>5 DEF RevokeJti, tickVars, CurOfBatch
  <2>6. ASSUME NEW r \in Requests, RequestFails(r)
        PROVE  TypeOK'
    BY <2>6 DEF RequestFails, tickVars, CurOfBatch
  <2>7. ASSUME NEW t \in Ticks, ClaimRows(t)
        PROVE  TypeOK'
    <3>1. PICK picked \in SUBSET Available : batch' = [batch EXCEPT ![t] = picked]
      BY <2>7 DEF ClaimRows
    <3>2. picked \subseteq Requests
      BY <3>1 DEF Available
    <3>3. batch' \in [Ticks -> SUBSET Requests]
      BY <3>1, <3>2
    <3>4. \A x \in Ticks : CurOfBatch(x)'
      BY <2>7, <3>1 DEF ClaimRows, CurOfBatch
    <3> QED
      BY <2>7, <3>3, <3>4 DEF ClaimRows, reqVars
  <2>8. ASSUME NEW t \in Ticks, CommitClaim(t)
        PROVE  TypeOK'
    <3>1. \A x \in Ticks : CurOfBatch(x)'
      BY <2>8 DEF CommitClaim, CurOfBatch
    <3> QED
      BY <2>8, <3>1 DEF CommitClaim, reqVars
  <2>9. ASSUME NEW t \in Ticks, EnsureProducer(t)
        PROVE  TypeOK'
    <3>1. \A x \in Ticks : CurOfBatch(x)'
      BY <2>9 DEF EnsureProducer, StopTick, CurOfBatch
    <3>2. tpc' \in [Ticks -> {"idle", "claiming", "claimed", "publishing", "sent", "failed"}]
      <4>1. \/ tpc' = [tpc EXCEPT ![t] = "publishing"]
            \/ tpc' = [tpc EXCEPT ![t] = "idle"]
        BY <2>9 DEF EnsureProducer, StopTick
      <4> QED
        BY <4>1
    <3>3. batch' \in [Ticks -> SUBSET Requests] /\ cur' \in [Ticks -> SUBSET Requests]
      BY <2>9 DEF EnsureProducer, StopTick
    <3>4. faults' \in 0..MaxFaults
      BY <2>9 DEF EnsureProducer, StopTick
    <3>5. ready' \in [Replicas -> BOOLEAN]
      BY <2>9 DEF EnsureProducer, StopTick
    <3>6. UNCHANGED <<deleted, revoked, pc, answer, row, stamp, clock, retries, log>>
      BY <2>9 DEF EnsureProducer, StopTick, reqVars
    <3> QED
      BY <3>1, <3>2, <3>3, <3>4, <3>5, <3>6
  <2>10. ASSUME NEW t \in Ticks, NEW r \in Requests, SendRow(t, r)
         PROVE  TypeOK'
    <3>1. \A x \in Ticks : CurOfBatch(x)'
      BY <2>10 DEF SendRow, CurOfBatch
    <3>2. tpc' \in [Ticks -> {"idle", "claiming", "claimed", "publishing", "sent", "failed"}]
      <4>1. \/ tpc' = [tpc EXCEPT ![t] = "sent"]
            \/ tpc' = [tpc EXCEPT ![t] = "failed"]
        BY <2>10 DEF SendRow
      <4> QED
        BY <4>1
    <3>3. batch' \in [Ticks -> SUBSET Requests] /\ cur' \in [Ticks -> SUBSET Requests]
      BY <2>10 DEF SendRow
    <3>4. faults' \in 0..MaxFaults
      BY <2>10 DEF SendRow
    <3>5. log' \in Seq(Requests)
      <4>1. log' = Append(log, r) \/ log' = log
        BY <2>10 DEF SendRow
      <4>2. log \in Seq(Requests)
        OBVIOUS
      <4>3. Append(log, r) \in Seq(Requests)
        BY <4>2, SMT
      <4> QED
        BY <4>1, <4>2, <4>3
    <3>6. UNCHANGED <<deleted, revoked, pc, answer, row, stamp, clock, retries, ready>>
      BY <2>10 DEF SendRow, reqVars
    <3> QED
      BY <3>1, <3>2, <3>3, <3>4, <3>5, <3>6
  <2>11. ASSUME NEW t \in Ticks, MarkPublished(t)
         PROVE  TypeOK'
    <3>1. \A x \in Ticks : CurOfBatch(x)'
      BY <2>11 DEF MarkPublished, NextRow, CurOfBatch
    <3>2. tpc' \in [Ticks -> {"idle", "claiming", "claimed", "publishing", "sent", "failed"}]
      <4>1. \/ tpc' = [tpc EXCEPT ![t] = "idle"]
            \/ tpc' = [tpc EXCEPT ![t] = "publishing"]
            \/ tpc' = [tpc EXCEPT ![t] = "failed"]
        BY <2>11 DEF MarkPublished, NextRow
      <4> QED
        BY <4>1
    <3>3. batch' \in [Ticks -> SUBSET Requests] /\ cur' \in [Ticks -> SUBSET Requests]
      <4>1. \/ UNCHANGED <<batch, cur>>
            \/ batch' = [batch EXCEPT ![t] = @ \ cur[t]] /\ cur' = [cur EXCEPT ![t] = {}]
        BY <2>11 DEF MarkPublished, NextRow
      <4> QED
        BY <4>1
    <3>4. faults' \in 0..MaxFaults
      BY <2>11 DEF MarkPublished, NextRow
    <3>5. row' \in [Requests -> {"absent", "unpublished", "published"}]
      <4>1. \/ row' = row
            \/ row' = [r \in Requests |-> IF r \in cur[t] THEN "published" ELSE row[r]]
        BY <2>11 DEF MarkPublished
      <4> QED
        BY <4>1
    <3>6. UNCHANGED <<deleted, revoked, pc, answer, stamp, clock, retries, ready, log>>
      BY <2>11 DEF MarkPublished, NextRow, reqVars
    <3> QED
      BY <3>1, <3>2, <3>3, <3>4, <3>5, <3>6
  <2>12. ASSUME NEW t \in Ticks, BumpRetry(t)
         PROVE  TypeOK'
    <3>1. \A x \in Ticks : CurOfBatch(x)'
      BY <2>12 DEF BumpRetry, NextRow, StopTick, CurOfBatch
    <3>2. tpc' \in [Ticks -> {"idle", "claiming", "claimed", "publishing", "sent", "failed"}]
      <4>1. \/ tpc' = [tpc EXCEPT ![t] = "idle"]
            \/ tpc' = [tpc EXCEPT ![t] = "publishing"]
        BY <2>12 DEF BumpRetry, NextRow, StopTick
      <4> QED
        BY <4>1
    <3>3. batch' \in [Ticks -> SUBSET Requests] /\ cur' \in [Ticks -> SUBSET Requests]
      <4>1. /\ batch' = [batch EXCEPT ![t] = @ \ cur[t]] \/ batch' = [batch EXCEPT ![t] = {}]
            /\ cur' = [cur EXCEPT ![t] = {}]
        BY <2>12 DEF BumpRetry, NextRow, StopTick
      <4> QED
        BY <4>1
    <3>4. faults' \in 0..MaxFaults
      BY <2>12 DEF BumpRetry, NextRow, StopTick
    <3>5. retries' \in [Requests -> Nat]
      <4>1. \/ retries' = [x \in Requests |-> IF x \in cur[t] THEN retries[x] + 1 ELSE retries[x]]
            \/ retries' = retries
        BY <2>12 DEF BumpRetry
      <4> QED
        BY <4>1
    <3>6. UNCHANGED <<deleted, revoked, pc, answer, row, stamp, clock, ready, log>>
      BY <2>12 DEF BumpRetry, NextRow, StopTick, reqVars
    <3> QED
      BY <3>1, <3>2, <3>3, <3>4, <3>5, <3>6
  <2>13. ASSUME NEW p \in Replicas, CrashReplica(p)
         PROVE  TypeOK'
    <3>1. \A x \in Ticks : CurOfBatch(x)'
      BY <2>13 DEF CrashReplica, CurOfBatch
    <3> QED
      BY <2>13, <3>1 DEF CrashReplica, reqVars
  <2>14. CASE UNCHANGED vars
    BY <2>14 DEF vars, CurOfBatch
  <2> QED
    BY <2>1, <2>2, <2>3, <2>4, <2>5, <2>6, <2>7, <2>8, <2>9, <2>10, <2>11, <2>12, <2>13, <2>14
       DEF Next, Request, Tick
<1> QED
  BY <1>1, <1>2, PTL DEF Spec

-----------------------------------------------------------------------------
(* Safety of the handler and of the publisher *)

Present(r) == row[r] # "absent"

\* A row is there once its call has committed, and a call that has committed,
\* or answered as if it had, left a row.
HandlerRows ==
    \A r \in Requests :
        /\ Present(r) => pc[r] \in {"committed", "done"}
        /\ pc[r] = "committed" \/ answer[r] = "accepted" => Present(r)
        /\ answer[r] = "already_deleted" => deleted[User(r)]

\* Ticks hold rows that are there, and have sent the one they are marking.
TickRows ==
    \A t \in Ticks :
        /\ \A r \in batch[t] : Present(r)
        /\ tpc[t] = "sent" => \A r \in cur[t] : InLog(r)

\* The inductive invariant: the properties, with what the handlers and the
\* ticks in progress know.
IInv ==
    /\ HandlerRows
    /\ TickRows
    /\ OneRowPerDeletion
    /\ PublishedInLog
    /\ LogIsCommitted

\* A user id is the subject of every token.
LEMMA UserType == \A r \in Requests : User(r) \in Users
  BY OwnerAssumption, SessionAssumption DEF User

\* What a request does to the log and to rows already there, when it inserts
\* no row.
LEMMA NoInsert ==
  ASSUME TypeOK, IInv,
         UNCHANGED <<deleted, row, batch, cur, tpc, log>>,
         HandlerRows'
  PROVE  IInv'
  BY DEF IInv, TickRows, OneRowPerDeletion, PublishedInLog, LogIsCommitted, Present, InLog, User

\* IInv holds of the initial state.
LEMMA InitIInv == Init => IInv
  BY UserType DEF Init, IInv, HandlerRows, TickRows, OneRowPerDeletion, PublishedInLog,
                  LogIsCommitted, Present

\* Every step of a request keeps IInv.
LEMMA RequestIInv ==
  ASSUME TypeOK, IInv, NEW r \in Requests, Request(r)
  PROVE  IInv'
<1> USE UserType
<1>1. CASE LookupUser(r) \/ CheckJti(r) \/ BeginTx(r) \/ RevokeJti(r) \/ RequestFails(r)
  <2>1. UNCHANGED <<deleted, row, batch, cur, tpc, log>>
    BY <1>1 DEF LookupUser, CheckJti, BeginTx, RevokeJti, RequestFails, tickVars
  <2>2. HandlerRows'
    <3> SUFFICES ASSUME NEW q \in Requests
                 PROVE  /\ Present(q)' => pc'[q] \in {"committed", "done"}
                        /\ pc'[q] = "committed" \/ answer'[q] = "accepted" => Present(q)'
                        /\ answer'[q] = "already_deleted" => deleted'[User(q)]
      BY DEF HandlerRows, User
    <3>1. CASE q # r
      BY <1>1, <2>1, <3>1 DEF LookupUser, CheckJti, BeginTx, RevokeJti, RequestFails,
                              Goto, Reply, TypeOK, IInv, HandlerRows, Present
    <3>2. CASE q = r
      BY <1>1, <2>1, <3>2 DEF LookupUser, CheckJti, BeginTx, RevokeJti, RequestFails,
                              Goto, Reply, TypeOK, IInv, HandlerRows, Present
    <3> QED
      BY <3>1, <3>2
  <2> QED
    BY <2>1, <2>2, NoInsert
<1>2. CASE CommitTx(r) /\ deleted[User(r)]
  <2>1. UNCHANGED <<deleted, row, batch, cur, tpc, log>>
    BY <1>2 DEF CommitTx, tickVars
  <2>2. HandlerRows'
    BY <1>2, <2>1 DEF CommitTx, Reply, TypeOK, IInv, HandlerRows, Present, User
  <2> QED
    BY <2>1, <2>2, NoInsert
<1>3. CASE CommitTx(r) /\ ~deleted[User(r)]
  <2>1. /\ pc[r] = "tx"
        /\ pc' = [pc EXCEPT ![r] = "committed"]
        /\ answer' = answer
        /\ deleted' = [deleted EXCEPT ![User(r)] = TRUE]
        /\ row' = [row EXCEPT ![r] = "unpublished"]
        /\ UNCHANGED <<batch, cur, tpc, log>>
    BY <1>3 DEF CommitTx, Goto, tickVars
  <2>2. HandlerRows'
    BY <2>1 DEF TypeOK, IInv, HandlerRows, Present, User
  <2>3. TickRows'
    BY <2>1 DEF TypeOK, IInv, TickRows, Present, InLog
  <2>4. OneRowPerDeletion'
    <3>1. \A q \in Requests : Present(q) => User(q) # User(r)
      BY <1>3 DEF IInv, OneRowPerDeletion, Present
    <3>2. \A q \in Requests : Present(q)' <=> Present(q) \/ q = r
      BY <2>1 DEF TypeOK, Present
    <3>3. \A u \in Users : deleted'[u] <=> deleted[u] \/ u = User(r)
      BY <2>1 DEF TypeOK
    <3>4. \A u \in Users : deleted'[u] <=> \E q \in Requests : User(q) = u /\ Present(q)'
      BY <3>2, <3>3 DEF IInv, OneRowPerDeletion, Present
    <3>5. \A q1, q2 \in Requests :
              User(q1) = User(q2) /\ Present(q1)' /\ Present(q2)' => q1 = q2
      BY <3>1, <3>2 DEF IInv, OneRowPerDeletion, Present
    <3> QED
      BY <3>4, <3>5 DEF OneRowPerDeletion, Present, User
  <2>5. PublishedInLog'
    BY <2>1 DEF TypeOK, IInv, PublishedInLog, InLog
  <2>6. LogIsCommitted'
    BY <2>1 DEF TypeOK, IInv, LogIsCommitted, User
  <2> QED
    BY <2>2, <2>3, <2>4, <2>5, <2>6 DEF IInv
<1> QED
  BY <1>1, <1>2, <1>3 DEF Request

\* A tick inserts and removes no row: the rest of IInv follows from what it
\* does to the log, to its batch and to the row it marks.
LEMMA NoRowsTouched ==
  ASSUME TypeOK, IInv,
         UNCHANGED <<deleted, pc, answer>>,
         \A q \in Requests : Present(q)' <=> Present(q),
         TickRows', PublishedInLog',
         \/ log' = log
         \/ \E r \in Requests : Present(r) /\ log' = Append(log, r)
  PROVE  IInv'
<1> USE UserType DEF IInv
<1>1. HandlerRows'
  BY DEF HandlerRows, User
<1>2. OneRowPerDeletion'
  BY DEF OneRowPerDeletion, Present, User
<1>3. LogIsCommitted'
  <2>1. \A q \in Requests : Present(q) => Present(q)' /\ deleted'[User(q)]
    BY DEF OneRowPerDeletion, Present
  <2>2. CASE log' = log
    BY <2>1, <2>2 DEF LogIsCommitted, Present, User, TypeOK
  <2>3. ASSUME NEW r \in Requests, Present(r), log' = Append(log, r)
        PROVE  LogIsCommitted'
    <3>1. \A k \in DOMAIN log' : log'[k] \in Requests /\ Present(log'[k])
      BY <2>3 DEF TypeOK, LogIsCommitted, Present
    <3> QED
      BY <2>1, <3>1 DEF LogIsCommitted, Present, User
  <2> QED
    BY <2>2, <2>3
<1> QED
  BY <1>1, <1>2, <1>3

\* What a message once appended stays: the log only grows.
LEMMA LogGrows ==
  ASSUME TypeOK, NEW r \in Requests, log' = Append(log, r)
  PROVE  InLog(r)' /\ \A q \in Requests : InLog(q) => InLog(q)'
<1>1. log \in Seq(Requests)
  BY DEF TypeOK
<1>2. log'[Len(log) + 1] = r /\ Len(log) + 1 \in DOMAIN log'
  BY <1>1
<1>3. \A k \in DOMAIN log : k \in DOMAIN log' /\ log'[k] = log[k]
  BY <1>1
<1> QED
  BY <1>2, <1>3 DEF InLog

\* Every step of a tick keeps IInv.
LEMMA TickIInv ==
  ASSUME TypeOK, IInv, NEW t \in Ticks, Tick(t)
  PROVE  IInv'
<1>1. CASE ClaimRows(t)
  <2>1. PICK picked \in SUBSET Available : batch' = [batch EXCEPT ![t] = picked]
    BY <1>1 DEF ClaimRows
  <2>2. UNCHANGED <<deleted, pc, answer, row, cur, log>> /\ tpc' = [tpc EXCEPT ![t] = "claiming"]
    BY <1>1 DEF ClaimRows, reqVars
  <2>3. TickRows'
    BY <2>1, <2>2 DEF Available, TypeOK, IInv, TickRows, Present, InLog
  <2>4. PublishedInLog'
    BY <2>2 DEF IInv, PublishedInLog, InLog
  <2> QED
    BY <2>2, <2>3, <2>4, NoRowsTouched DEF Present
<1>2. CASE CommitClaim(t) \/ EnsureProducer(t)
  <2>1. UNCHANGED <<deleted, pc, answer, row, log>>
    BY <1>2 DEF CommitClaim, EnsureProducer, reqVars
  <2>2. \A x \in Ticks : batch'[x] \subseteq batch[x] /\ (tpc'[x] = "sent" => tpc[x] = "sent" /\ cur'[x] = cur[x])
    BY <1>2 DEF CommitClaim, EnsureProducer, StopTick, TypeOK
  <2>3. TickRows'
    BY <2>1, <2>2 DEF IInv, TickRows, Present, InLog
  <2>4. PublishedInLog'
    BY <2>1 DEF IInv, PublishedInLog, InLog
  <2> QED
    BY <2>1, <2>3, <2>4, NoRowsTouched DEF Present
<1>3. ASSUME NEW r \in Requests, SendRow(t, r)
      PROVE  IInv'
  <2>1. /\ r \in batch[t]
        /\ UNCHANGED <<deleted, pc, answer, row, batch>>
        /\ cur' = [cur EXCEPT ![t] = {r}]
    BY <1>3 DEF SendRow, reqVars
  <2>2. Present(r)
    BY <2>1 DEF IInv, TickRows
  <2>3. CASE log' = Append(log, r)
    <3>1. InLog(r)' /\ \A q \in Requests : InLog(q) => InLog(q)'
      BY <2>3, LogGrows
    <3>2. \A x \in Ticks : x # t => tpc'[x] = tpc[x] /\ cur'[x] = cur[x]
      BY <1>3 DEF SendRow, TypeOK
    <3>3. TickRows'
      BY <2>1, <3>1, <3>2 DEF TypeOK, IInv, TickRows, Present
    <3>4. PublishedInLog'
      BY <2>1, <3>1 DEF IInv, PublishedInLog
    <3> QED
      BY <2>1, <2>2, <2>3, <3>3, <3>4, NoRowsTouched DEF Present
  <2>4. CASE log' = log /\ tpc' = [tpc EXCEPT ![t] = "failed"]
    <3>1. TickRows'
      BY <2>1, <2>4 DEF TypeOK, IInv, TickRows, Present, InLog
    <3>2. PublishedInLog'
      BY <2>1, <2>4 DEF IInv, PublishedInLog, InLog
    <3> QED
      BY <2>1, <2>4, <3>1, <3>2, NoRowsTouched DEF Present
  <2> QED
    BY <1>3, <2>3, <2>4 DEF SendRow
<1>4. CASE MarkPublished(t)
  <2>1. /\ tpc[t] = "sent"
        /\ UNCHANGED <<deleted, pc, answer, log>>
        /\ \/ row' = [r \in Requests |-> IF r \in cur[t] THEN "published" ELSE row[r]]
           \/ row' = row
    BY <1>4 DEF MarkPublished, reqVars
  <2>2. \A r \in cur[t] : r \in Requests /\ Present(r) /\ InLog(r)
    BY <2>1 DEF TypeOK, CurOfBatch, IInv, TickRows
  <2>3. \A q \in Requests : Present(q)' <=> Present(q)
    BY <2>1, <2>2 DEF TypeOK, Present
  <2>4. \A x \in Ticks : batch'[x] \subseteq batch[x] /\ (tpc'[x] = "sent" => tpc[x] = "sent" /\ cur'[x] = cur[x])
    BY <1>4 DEF MarkPublished, NextRow, TypeOK
  <2>5. TickRows'
    BY <2>1, <2>3, <2>4 DEF TypeOK, IInv, TickRows, InLog
  <2>6. PublishedInLog'
    BY <2>1, <2>2 DEF TypeOK, IInv, PublishedInLog, InLog
  <2> QED
    BY <2>1, <2>3, <2>5, <2>6, NoRowsTouched
<1>5. CASE BumpRetry(t)
  <2>1. UNCHANGED <<deleted, pc, answer, row, log>>
    BY <1>5 DEF BumpRetry, reqVars
  <2>2. \A x \in Ticks : batch'[x] \subseteq batch[x] /\ (tpc'[x] = "sent" => tpc[x] = "sent" /\ cur'[x] = cur[x])
    BY <1>5 DEF BumpRetry, NextRow, StopTick, TypeOK
  <2>3. TickRows'
    BY <2>1, <2>2 DEF IInv, TickRows, Present, InLog
  <2>4. PublishedInLog'
    BY <2>1 DEF IInv, PublishedInLog, InLog
  <2> QED
    BY <2>1, <2>3, <2>4, NoRowsTouched DEF Present
<1> QED
  BY <1>1, <1>2, <1>3, <1>4, <1>5 DEF Tick

\* A crash keeps IInv.
LEMMA CrashIInv ==
  ASSUME TypeOK, IInv, NEW p \in Replicas, CrashReplica(p)
  PROVE  IInv'
<1>1. UNCHANGED <<deleted, pc, answer, row, log>>
  BY DEF CrashReplica, reqVars
<1>2. \A x \in Ticks : batch'[x] \subseteq batch[x] /\ (tpc'[x] = "sent" => tpc[x] = "sent" /\ cur'[x] = cur[x])
  BY DEF CrashReplica, TypeOK
<1>3. TickRows'
  BY <1>1, <1>2 DEF IInv, TickRows, Present, InLog
<1>4. PublishedInLog'
  BY <1>1 DEF IInv, PublishedInLog, InLog
<1> QED
  BY <1>1, <1>3, <1>4, NoRowsTouched DEF Present

\* IInv holds throughout every behaviour.
THEOREM Invariance == Spec => [](TypeOK /\ IInv)
<1>1. TypeOK /\ IInv /\ [Next]_vars => IInv'
  <2> SUFFICES ASSUME TypeOK, IInv, [Next]_vars
               PROVE  IInv'
    OBVIOUS
  <2>1. CASE UNCHANGED vars
    BY <2>1 DEF vars, IInv, HandlerRows, TickRows, OneRowPerDeletion, PublishedInLog,
                LogIsCommitted, Present, InLog, User
  <2> QED
    BY <2>1, RequestIInv, TickIInv, CrashIInv DEF Next
<1> QED
  BY <1>1, InitIInv, TypeCorrect, PTL DEF Spec

\* PublishedInLog for every instance: a row marked published is in the topic.
THEOREM NoEventLost == Spec => []PublishedInLog
  BY Invariance, PTL DEF IInv

\* OneRowPerDeletion for every instance: racing calls delete an account, and
\* insert its outbox row, exactly once.
THEOREM DeletedOnce == Spec => []OneRowPerDeletion
  BY Invariance, PTL DEF IInv

\* LogIsCommitted for every instance: nothing uncommitted is announced.
THEOREM AnnouncedAreCommitted == Spec => []LogIsCommitted
  BY Invariance, PTL DEF IInv

\* AnswersAreDurable for every instance: one "accepted" per account, and no
\* answer ahead of the commit.
THEOREM AnswersHold == Spec => []AnswersAreDurable
<1>1. TypeOK /\ IInv => AnswersAreDurable
  BY UserType DEF IInv, HandlerRows, OneRowPerDeletion, AnswersAreDurable, Present
<1> QED
  BY <1>1, Invariance, PTL

-----------------------------------------------------------------------------
(* Copies in the topic *)

\* Ticks that have sent a row and not marked it, and those that will send it.
Sent(r)    == {t \in Ticks : tpc[t] = "sent" /\ r \in cur[t]}
Pending(r) == {t \in Ticks : r \in batch[t] \ cur[t]}
Lost       == Cardinality(Slots) * faults

\* Until a row is marked, each copy is some tick's that will mark it, or was lost
\* by a fault; from then on nobody claims it, and only the ticks that hold it
\* send it again.
CopyOK(r) ==
    /\ row[r] # "published" => Copies(r) <= Cardinality(Sent(r)) + Lost
    /\ row[r] = "published" => Copies(r) + Cardinality(Pending(r)) <= Cardinality(Ticks) + Lost

CopyInv == \A r \in Requests : CopyOK(r)

\* All sets of ticks are finite.
LEMMA TickSets ==
  /\ Cardinality(Slots) \in Nat /\ Cardinality(Ticks) \in Nat
  /\ \A S \in SUBSET Ticks : /\ IsFiniteSet(S) /\ Cardinality(S) \in Nat
                             /\ Cardinality(S) <= Cardinality(Ticks)
<1>1. IsFiniteSet(Ticks)
  BY ProcessAssumption, FS_Product DEF Ticks
<1>2. ASSUME NEW S \in SUBSET Ticks
      PROVE  IsFiniteSet(S) /\ Cardinality(S) \in Nat /\ Cardinality(S) <= Cardinality(Ticks)
  BY <1>1, FS_Subset, FS_CardinalityType
<1> QED
  BY <1>1, <1>2, FS_CardinalityType, ProcessAssumption

\* A tick is one of the slots of its process, so there is a slot.
LEMMA OneSlot ==
  ASSUME NEW t \in Ticks
  PROVE  t[1] \in Replicas /\ t \in {t[1]} \X Slots /\ Cardinality(Slots) >= 1
<1>1. t[1] \in Replicas /\ t[2] \in Slots /\ t \in {t[1]} \X Slots
  BY DEF Ticks
<1>2. Cardinality(Slots) # 0
  BY <1>1, FS_EmptySet, ProcessAssumption
<1> QED
  BY <1>1, <1>2, TickSets

\* A process has as many ticks as there are slots.
LEMMA ProcessTicks ==
  ASSUME NEW p \in Replicas, NEW S \in SUBSET Ticks, NEW T \in SUBSET Ticks,
         S \subseteq T \cup ({p} \X Slots)
  PROVE  Cardinality(S) <= Cardinality(T) + Cardinality(Slots)
<1>1. IsFiniteSet({p}) /\ Cardinality({p}) = 1
  BY FS_Singleton
<1>2. IsFiniteSet({p} \X Slots) /\ Cardinality({p} \X Slots) = 1 * Cardinality(Slots)
  BY <1>1, FS_Product, ProcessAssumption
<1>3. IsFiniteSet(T) /\ Cardinality(T) \in Nat /\ Cardinality(Slots) \in Nat
  BY TickSets
<1>4. /\ IsFiniteSet(T \cup ({p} \X Slots)) /\ IsFiniteSet(T \cap ({p} \X Slots))
      /\ Cardinality(T \cup ({p} \X Slots))
           = Cardinality(T) + Cardinality({p} \X Slots) - Cardinality(T \cap ({p} \X Slots))
  BY <1>2, <1>3, FS_Union, FS_Intersection
<1>5. Cardinality(T \cap ({p} \X Slots)) \in Nat
  BY <1>4, FS_CardinalityType
<1>6. Cardinality(S) <= Cardinality(T \cup ({p} \X Slots))
  BY <1>4, FS_Subset
<1>7. Cardinality(S) \in Nat
  BY TickSets
<1> QED
  BY <1>2, <1>3, <1>4, <1>5, <1>6, <1>7

\* A fault costs as many copies as there are slots.
LEMMA LostType ==
  ASSUME TypeOK
  PROVE  Lost \in Nat
<1>1. faults \in Nat /\ Cardinality(Slots) \in Nat
  BY FaultAssumption, TickSets DEF TypeOK
<1> QED
  BY <1>1 DEF Lost

LEMMA FaultCosts ==
  ASSUME TypeOK
  PROVE  /\ NoFault => Lost' = Lost
         /\ Fault => Lost' = Lost + Cardinality(Slots)
<1>1. faults \in Nat /\ Cardinality(Slots) \in Nat
  BY FaultAssumption, TickSets DEF TypeOK
<1> QED
  BY <1>1 DEF Lost, Fault, NoFault

\* An event more in the topic.
LEMMA CopiesStep ==
  ASSUME TypeOK, NEW r \in Requests
  PROVE  /\ Copies(r) \in Nat
         /\ log' = log => (Copies(r))' = Copies(r)
         /\ \A q \in Requests : log' = Append(log, q) =>
                (Copies(r))' = IF q = r THEN Copies(r) + 1 ELSE Copies(r)
<1> DEFINE K == {k \in DOMAIN log : log[k] = r}
<1>1. log \in Seq(Requests) /\ Len(log) \in Nat /\ DOMAIN log = 1..Len(log)
  BY DEF TypeOK
<1>2. IsFiniteSet(K) /\ Cardinality(K) \in Nat
  <2>1. IsFiniteSet(1..Len(log))
    BY <1>1, FS_Interval
  <2>2. K \in SUBSET (1..Len(log))
    BY <1>1
  <2> QED
    BY <2>1, <2>2, FS_Subset, FS_CardinalityType
<1>3. log' = log => (Copies(r))' = Copies(r)
  BY DEF Copies
<1>4. ASSUME NEW q \in Requests, log' = Append(log, q)
      PROVE  (Copies(r))' = IF q = r THEN Copies(r) + 1 ELSE Copies(r)
  <2> DEFINE n  == Len(log) + 1
             K2 == {k \in DOMAIN log' : log'[k] = r}
  <2>1. DOMAIN log' = 1..n /\ log'[n] = q /\ \A k \in 1..Len(log) : log'[k] = log[k]
    BY <1>1, <1>4
  <2>2. n \notin K /\ K2 = IF q = r THEN K \cup {n} ELSE K
    BY <1>1, <2>1
  <2>3. Cardinality(K \cup {n}) = Cardinality(K) + 1
    BY <1>2, <2>2, FS_AddElement
  <2> QED
    BY <2>2, <2>3 DEF Copies
<1> QED
  BY <1>2, <1>3, <1>4 DEF Copies

\* Ticks that have sent a row do not have it before them.
LEMMA SentOrPending ==
  ASSUME NEW r \in Requests
  PROVE  Cardinality(Sent(r)) + Cardinality(Pending(r)) <= Cardinality(Ticks)
<1>1. Sent(r) \in SUBSET Ticks /\ Pending(r) \in SUBSET Ticks /\ Sent(r) \cap Pending(r) = {}
  BY DEF Sent, Pending
<1>2. /\ IsFiniteSet(Sent(r)) /\ IsFiniteSet(Pending(r))
      /\ Cardinality(Sent(r)) \in Nat /\ Cardinality(Pending(r)) \in Nat
      /\ Cardinality(Sent(r) \cup Pending(r)) <= Cardinality(Ticks)
  BY <1>1, TickSets
<1>3. Cardinality(Sent(r) \cup Pending(r)) = Cardinality(Sent(r)) + Cardinality(Pending(r)) - 0
  BY <1>1, <1>2, FS_Union, FS_EmptySet
<1> QED
  BY <1>2, <1>3

\* A step that sends no copy of r and does not mark it, and at most makes the
\* ticks of one process forget it, at the price of a fault.
LEMMA NoCopy ==
  ASSUME TypeOK, NEW r \in Requests, CopyOK(r),
         (Copies(r))' = Copies(r), row'[r] = "published" <=> row[r] = "published",
         row[r] = "published" => (Pending(r))' \subseteq Pending(r),
         \/ Sent(r) \subseteq (Sent(r))' /\ (Fault \/ NoFault)
         \/ /\ \E p \in Replicas : Sent(r) \subseteq (Sent(r))' \cup ({p} \X Slots)
            /\ Fault
  PROVE  (CopyOK(r))'
<1> DEFINE S  == Sent(r)    S2 == (Sent(r))'
           P  == Pending(r) P2 == (Pending(r))'
<1>1. S \in SUBSET Ticks /\ S2 \in SUBSET Ticks /\ P \in SUBSET Ticks /\ P2 \in SUBSET Ticks
  BY DEF Sent, Pending
<1>2. /\ Cardinality(S) \in Nat /\ Cardinality(S2) \in Nat /\ Cardinality(P) \in Nat
      /\ Cardinality(P2) \in Nat /\ Cardinality(Ticks) \in Nat /\ Cardinality(Slots) \in Nat
      /\ Copies(r) \in Nat /\ Lost \in Nat
  BY <1>1, TickSets, CopiesStep, LostType
<1>3. Lost' = Lost \/ Lost' = Lost + Cardinality(Slots)
  BY FaultCosts
<1>4. Cardinality(S) + Lost <= Cardinality(S2) + Lost'
  <2>1. CASE S \subseteq S2
    <3>1. IsFiniteSet(S2) /\ Cardinality(S) <= Cardinality(S2)
      BY <1>1, <2>1, TickSets, FS_Subset
    <3> QED
      BY <1>2, <1>3, <3>1
  <2>2. CASE Fault /\ \E p \in Replicas : S \subseteq S2 \cup ({p} \X Slots)
    <3>1. Cardinality(S) <= Cardinality(S2) + Cardinality(Slots)
      BY <1>1, <2>2, ProcessTicks
    <3>2. Lost' = Lost + Cardinality(Slots)
      BY <2>2, FaultCosts
    <3> QED
      BY <1>2, <3>1, <3>2
  <2> QED
    BY <2>1, <2>2
<1>5. row[r] = "published" => Cardinality(P2) <= Cardinality(P)
  BY <1>1, TickSets, FS_Subset
<1>6. /\ row'[r] # "published" => Copies(r) <= Cardinality(S2) + Lost'
      /\ row'[r] = "published" => Copies(r) + Cardinality(P2) <= Cardinality(Ticks) + Lost'
  <2> HIDE DEF S, S2, P, P2
  <2>1. CASE row[r] # "published"
    <3>1. Copies(r) <= Cardinality(S) + Lost
      BY <2>1 DEF CopyOK, S
    <3> QED
      BY <1>2, <1>3, <1>4, <2>1, <3>1
  <2>2. CASE row[r] = "published"
    <3>1. Copies(r) + Cardinality(P) <= Cardinality(Ticks) + Lost
      BY <2>2 DEF CopyOK, P
    <3> QED
      BY <1>2, <1>3, <1>5, <2>2, <3>1
  <2> QED
    BY <2>1, <2>2
<1> QED
  BY <1>6 DEF CopyOK

\* A send is a copy more, which the tick in question marks or a fault accounts for.
LEMMA SendCopies ==
  ASSUME TypeOK, NEW t \in Ticks, NEW q \in Requests, SendRow(t, q),
         NEW r \in Requests, CopyOK(r)
  PROVE  (CopyOK(r))'
<1>1. /\ tpc[t] = "publishing" /\ q \in batch[t] /\ row' = row /\ batch' = batch
      /\ cur' = [cur EXCEPT ![t] = {q}] /\ cur[t] = {}
      /\ \/ log' = Append(log, q) /\ tpc' = [tpc EXCEPT ![t] = "sent"] /\ NoFault
         \/ log' = Append(log, q) /\ tpc' = [tpc EXCEPT ![t] = "failed"] /\ Fault
         \/ log' = log /\ tpc' = [tpc EXCEPT ![t] = "failed"] /\ Fault
  BY DEF SendRow, TypeOK, CurOfBatch
<1>2. tpc \in [Ticks -> {"idle", "claiming", "claimed", "publishing", "sent", "failed"}]
      /\ cur \in [Ticks -> SUBSET Requests]
  BY DEF TypeOK
<1>3. /\ t \notin Sent(r) /\ Sent(r) \subseteq (Sent(r))'
      /\ (Pending(r))' = Pending(r) \ (IF q = r THEN {t} ELSE {})
      /\ (q = r => t \in Pending(r))
      /\ (q = r /\ tpc' = [tpc EXCEPT ![t] = "sent"] => (Sent(r))' = Sent(r) \cup {t})
  BY <1>1, <1>2 DEF Sent, Pending
<1>4. CASE q # r \/ log' = log
  <2>1. (Copies(r))' = Copies(r)
    BY <1>1, <1>4, CopiesStep
  <2> QED
    BY <1>1, <1>3, <2>1, NoCopy
<1>5. CASE q = r /\ log' = Append(log, q)
  <2> DEFINE S  == Sent(r)    S2 == (Sent(r))'
             P  == Pending(r) P2 == (Pending(r))'
  <2>1. S \in SUBSET Ticks /\ S2 \in SUBSET Ticks /\ P \in SUBSET Ticks /\ P2 \in SUBSET Ticks
    BY DEF Sent, Pending
  <2>2. /\ Cardinality(S) \in Nat /\ Cardinality(S2) \in Nat /\ Cardinality(P) \in Nat
        /\ Cardinality(P2) \in Nat /\ Cardinality(Ticks) \in Nat /\ Cardinality(Slots) \in Nat
        /\ Copies(r) \in Nat /\ Lost \in Nat /\ Cardinality(Slots) >= 1
        /\ (Copies(r))' = Copies(r) + 1
    BY <1>5, <2>1, TickSets, OneSlot, CopiesStep, LostType
  <2>3. Cardinality(P2) = Cardinality(P) - 1
    BY <1>3, <1>5, <2>1, TickSets, FS_RemoveElement
  <2>4. \/ Lost' = Lost /\ Cardinality(S2) = Cardinality(S) + 1
        \/ Lost' = Lost + Cardinality(Slots) /\ Cardinality(S) <= Cardinality(S2)
    <3>1. CASE NoFault /\ tpc' = [tpc EXCEPT ![t] = "sent"]
      BY <1>3, <1>5, <2>1, <3>1, TickSets, FS_AddElement, FaultCosts
    <3>2. CASE Fault
      <4>1. Cardinality(S) <= Cardinality(S2)
        BY <1>3, <2>1, TickSets, FS_Subset
      <4> QED
        BY <3>2, <4>1, FaultCosts
    <3> QED
      BY <1>1, <3>1, <3>2
  <2>5. /\ row[r] # "published" => Copies(r) <= Cardinality(S) + Lost
        /\ row[r] = "published" => Copies(r) + Cardinality(P) <= Cardinality(Ticks) + Lost
    BY DEF CopyOK
  <2>6. /\ row'[r] # "published" => (Copies(r))' <= Cardinality(S2) + Lost'
        /\ row'[r] = "published" => (Copies(r))' + Cardinality(P2) <= Cardinality(Ticks) + Lost'
    <3> HIDE DEF S, S2, P, P2
    <3>1. row' = row
      BY <1>1
    <3> QED
      BY <2>2, <2>3, <2>4, <2>5, <3>1
  <2> QED
    BY <2>6 DEF CopyOK
<1> QED
  BY <1>1, <1>4, <1>5

\* What is marked was copied once per tick that sent it and per fault, and only the
\* ticks that have it before them will send it again: sent or pending, not both.
LEMMA MarkCopies ==
  ASSUME TypeOK, NEW t \in Ticks, MarkPublished(t), NEW r \in Requests, CopyOK(r)
  PROVE  (CopyOK(r))'
<1>1. /\ tpc[t] = "sent" /\ log' = log
      /\ \/ row' = row
         \/ row' = [x \in Requests |-> IF x \in cur[t] THEN "published" ELSE row[x]]
      /\ \/ NextRow(t) /\ NoFault /\ row' = [x \in Requests |-> IF x \in cur[t] THEN "published" ELSE row[x]]
         \/ tpc' = [tpc EXCEPT ![t] = "failed"] /\ UNCHANGED <<batch, cur>> /\ Fault
  BY DEF MarkPublished
<1>2. /\ tpc \in [Ticks -> {"idle", "claiming", "claimed", "publishing", "sent", "failed"}]
      /\ batch \in [Ticks -> SUBSET Requests] /\ cur \in [Ticks -> SUBSET Requests]
      /\ row \in [Requests -> {"absent", "unpublished", "published"}]
  BY DEF TypeOK
<1>3. (Pending(r))' \subseteq Pending(r)
  BY <1>1, <1>2 DEF NextRow, Pending
<1>4. (Copies(r))' = Copies(r)
  BY <1>1, CopiesStep
<1>5. CASE row'[r] = "published" /\ row[r] # "published"
  <2>1. Copies(r) <= Cardinality(Sent(r)) + Lost
    BY <1>5 DEF CopyOK
  <2>2. Pending(r) \in SUBSET Ticks /\ Sent(r) \in SUBSET Ticks /\ (Pending(r))' \in SUBSET Ticks
    BY DEF Pending, Sent
  <2>3. Cardinality((Pending(r))') <= Cardinality(Pending(r))
    BY <1>3, <2>2, TickSets, FS_Subset
  <2>4. /\ Cardinality(Sent(r)) \in Nat /\ Cardinality(Pending(r)) \in Nat
        /\ Cardinality((Pending(r))') \in Nat /\ Cardinality(Ticks) \in Nat
        /\ Cardinality(Slots) \in Nat /\ Lost \in Nat /\ Copies(r) \in Nat
    BY <2>2, TickSets, LostType, CopiesStep
  <2>5. Lost' = Lost \/ Lost' = Lost + Cardinality(Slots)
    BY <1>1, FaultCosts
  <2>6. (Copies(r))' + Cardinality((Pending(r))') <= Cardinality(Ticks) + Lost'
    BY <1>4, <2>1, <2>3, <2>4, <2>5, SentOrPending
  <2> QED
    BY <1>5, <2>6 DEF CopyOK
<1>6. CASE row'[r] = "published" <=> row[r] = "published"
  <2>1. CASE Fault /\ tpc' = [tpc EXCEPT ![t] = "failed"] /\ UNCHANGED <<batch, cur>>
    <3>1. Sent(r) \subseteq (Sent(r))' \cup {t}
      BY <1>2, <2>1 DEF Sent
    <3>2. t[1] \in Replicas /\ Sent(r) \subseteq (Sent(r))' \cup ({t[1]} \X Slots)
      BY <3>1, OneSlot
    <3> QED
      BY <1>3, <1>4, <1>6, <2>1, <3>2, NoCopy
  <2>2. CASE NextRow(t) /\ NoFault /\ row' = [x \in Requests |-> IF x \in cur[t] THEN "published" ELSE row[x]]
    <3>1. CASE row[r] # "published"
      <4>1. r \notin cur[t]
        BY <1>2, <1>6, <2>2, <3>1
      <4>2. Sent(r) \subseteq (Sent(r))'
        BY <1>2, <2>2, <4>1 DEF Sent, NextRow
      <4> QED
        BY <1>3, <1>4, <1>6, <2>2, <4>2, NoCopy
    <3>2. CASE row[r] = "published"
      <4>1. Pending(r) \in SUBSET Ticks /\ (Pending(r))' \in SUBSET Ticks
        BY DEF Pending
      <4>2. Cardinality((Pending(r))') <= Cardinality(Pending(r))
        BY <1>3, <4>1, TickSets, FS_Subset
      <4>3. /\ Cardinality(Pending(r)) \in Nat /\ Cardinality((Pending(r))') \in Nat
            /\ Cardinality(Ticks) \in Nat /\ Lost \in Nat /\ Copies(r) \in Nat /\ Lost' = Lost
        BY <2>2, <4>1, TickSets, LostType, CopiesStep, FaultCosts
      <4>4. (Copies(r))' + Cardinality((Pending(r))') <= Cardinality(Ticks) + Lost'
        BY <1>4, <3>2, <4>2, <4>3 DEF CopyOK
      <4> QED
        BY <1>6, <3>2, <4>4 DEF CopyOK
    <3> QED
      BY <3>1, <3>2
  <2> QED
    BY <1>1, <2>1, <2>2
<1>7. row[r] = "published" => row'[r] = "published"
  BY <1>1, <1>2
<1> QED
  BY <1>5, <1>6, <1>7

\* The other steps of a tick: only rows that are not published are claimed.
LEMMA TickCopies ==
  ASSUME TypeOK, NEW t \in Ticks, Tick(t), NEW r \in Requests, CopyOK(r)
  PROVE  (CopyOK(r))'
<1>1. /\ tpc \in [Ticks -> {"idle", "claiming", "claimed", "publishing", "sent", "failed"}]
      /\ batch \in [Ticks -> SUBSET Requests] /\ cur \in [Ticks -> SUBSET Requests]
      /\ (tpc[t] \notin {"sent", "failed"} => cur[t] = {})
  BY DEF TypeOK, CurOfBatch
<1>2. CASE ClaimRows(t)
  <2>1. PICK picked \in SUBSET Available : batch' = [batch EXCEPT ![t] = picked]
    BY <1>2 DEF ClaimRows
  <2>2. /\ row' = row /\ log' = log /\ cur' = cur /\ NoFault
        /\ tpc[t] = "idle" /\ tpc' = [tpc EXCEPT ![t] = "claiming"]
    BY <1>2 DEF ClaimRows, NoFault
  <2>3. row[r] = "published" => r \notin picked
    BY <2>1 DEF Available
  <2>4. row[r] = "published" => (Pending(r))' \subseteq Pending(r)
    BY <1>1, <2>1, <2>2, <2>3 DEF Pending
  <2>5. Sent(r) \subseteq (Sent(r))'
    BY <1>1, <2>2 DEF Sent
  <2> QED
    BY <2>2, <2>4, <2>5, CopiesStep, NoCopy
<1>3. CASE CommitClaim(t) \/ EnsureProducer(t) \/ BumpRetry(t)
  <2>1. row' = row /\ log' = log /\ (Fault \/ NoFault) /\ tpc[t] # "sent"
    BY <1>3 DEF CommitClaim, EnsureProducer, BumpRetry, NoFault
  <2>2. \A x \in Ticks \ {t} : tpc'[x] = tpc[x] /\ cur'[x] = cur[x] /\ batch'[x] = batch[x]
    BY <1>1, <1>3 DEF CommitClaim, EnsureProducer, BumpRetry, NextRow, StopTick
  <2>3. batch'[t] \ cur'[t] \subseteq batch[t] \ cur[t]
    BY <1>1, <1>3 DEF CommitClaim, EnsureProducer, BumpRetry, NextRow, StopTick
  <2>4. Sent(r) \subseteq (Sent(r))' /\ (Pending(r))' \subseteq Pending(r)
    BY <2>1, <2>2, <2>3 DEF Sent, Pending
  <2> QED
    BY <2>1, <2>4, CopiesStep, NoCopy
<1> QED
  BY <1>2, <1>3, SendCopies, MarkCopies DEF Tick

\* A request neither sends nor marks; the row it inserts is new.
LEMMA RequestCopies ==
  ASSUME TypeOK, IInv, NEW q \in Requests, Request(q), NEW r \in Requests, CopyOK(r)
  PROVE  (CopyOK(r))'
<1>1. log' = log /\ tpc' = tpc /\ batch' = batch /\ cur' = cur /\ (Fault \/ NoFault)
  BY DEF Request, LookupUser, CheckJti, BeginTx, CommitTx, RevokeJti, RequestFails, tickVars, NoFault
<1>2. row'[r] = "published" <=> row[r] = "published"
  <2>1. row' = row \/ (pc[q] = "tx" /\ row' = [row EXCEPT ![q] = "unpublished"])
    BY DEF Request, LookupUser, CheckJti, BeginTx, CommitTx, RevokeJti, RequestFails
  <2>2. pc[q] = "tx" => row[q] = "absent"
    BY DEF IInv, HandlerRows, Present
  <2> QED
    BY <2>1, <2>2 DEF TypeOK
<1>3. (Sent(r))' = Sent(r) /\ (Pending(r))' = Pending(r)
  BY <1>1 DEF Sent, Pending
<1> QED
  BY <1>1, <1>2, <1>3, CopiesStep, NoCopy

\* A crash loses what the ticks of one process sent and did not mark.
LEMMA CrashCopies ==
  ASSUME TypeOK, NEW p \in Replicas, CrashReplica(p), NEW r \in Requests, CopyOK(r)
  PROVE  (CopyOK(r))'
<1>1. /\ row' = row /\ log' = log /\ Fault
      /\ tpc' = [t \in Ticks |-> IF t[1] = p THEN "idle" ELSE tpc[t]]
      /\ batch' = [t \in Ticks |-> IF t[1] = p THEN {} ELSE batch[t]]
      /\ cur' = [t \in Ticks |-> IF t[1] = p THEN {} ELSE cur[t]]
  BY DEF CrashReplica
<1>2. (Pending(r))' \subseteq Pending(r)
  BY <1>1 DEF Pending
<1>3. Sent(r) \subseteq (Sent(r))' \cup ({p} \X Slots)
  <2>1. \A t \in Sent(r) : t \in Ticks /\ (t[1] = p => t \in {p} \X Slots)
    BY OneSlot DEF Sent
  <2>2. \A t \in Sent(r) : t[1] # p => t \in (Sent(r))'
    BY <1>1 DEF Sent
  <2> QED
    BY <2>1, <2>2
<1> QED
  BY <1>1, <1>2, <1>3, CopiesStep, NoCopy

\* CopiesBounded for every instance: however ticks overlap and processes crash, the
\* topic holds at most a copy per tick, and per fault a copy per slot.
THEOREM BoundedCopies == Spec => []CopiesBounded
<1>1. Init => CopyInv
  <2> SUFFICES ASSUME Init, NEW r \in Requests
               PROVE  CopyOK(r)
    BY DEF CopyInv
  <2>1. {k \in DOMAIN log : log[k] = r} = {} /\ row[r] # "published"
    BY DEF Init
  <2>2. Copies(r) = 0
    BY <2>1, FS_EmptySet DEF Copies
  <2>3. Sent(r) \in SUBSET Ticks
    BY DEF Sent
  <2>4. Cardinality(Sent(r)) \in Nat /\ Lost = 0
    BY <2>3, TickSets DEF Init, Lost
  <2> QED
    BY <2>1, <2>2, <2>4 DEF CopyOK
<1>2. TypeOK /\ IInv /\ CopyInv /\ [Next]_vars => CopyInv'
  <2> SUFFICES ASSUME TypeOK, IInv, CopyInv, [Next]_vars, NEW r \in Requests
               PROVE  (CopyOK(r))'
    BY DEF CopyInv
  <2>1. CopyOK(r)
    BY DEF CopyInv
  <2>2. CASE UNCHANGED vars
    BY <2>1, <2>2 DEF vars, CopyOK, Copies, Sent, Pending, Lost
  <2> QED
    BY <2>1, <2>2, RequestCopies, TickCopies, CrashCopies DEF Next
<1>3. TypeOK /\ CopyInv => CopiesBounded
  <2> SUFFICES ASSUME TypeOK, CopyInv, NEW r \in Requests
               PROVE  Copies(r) <= Cardinality(Ticks) + Lost
    BY DEF CopiesBounded, Lost
  <2>1. Sent(r) \in SUBSET Ticks /\ Pending(r) \in SUBSET Ticks
    BY DEF Sent, Pending
  <2>2. /\ Cardinality(Sent(r)) <= Cardinality(Ticks) /\ Cardinality(Sent(r)) \in Nat
        /\ Cardinality(Pending(r)) \in Nat /\ Cardinality(Ticks) \in Nat
        /\ Copies(r) \in Nat /\ Lost \in Nat
    BY <2>1, TickSets, CopiesStep, LostType
  <2> QED
    BY <2>2 DEF CopyInv, CopyOK
<1> QED
  BY <1>1, <1>2, <1>3, Invariance, PTL DEF Spec
=============================================================================
