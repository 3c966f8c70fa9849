-------------------- MODULE NotificationConsumer_proofs ---------------------
(* Proofs about NotificationConsumer: types, how often a user is told of a   *)
(* message, and that the group commits over none.                            *)
EXTENDS NotificationConsumer, FiniteSetTheorems, TLAPS

USE KindAssumption, LogAssumption, FailureAssumption

-----------------------------------------------------------------------------
(* Types.                                                                  *)

\* Offsets are within the topic: TypeOK says it of the positions.
TypeInv == TypeOK /\ committed <= Len(log)

LEMMA TypeInit == Init => TypeInv
  BY DEF Init, TypeInv, TypeOK, NoOffset

\* extractMeta finds no event id and draws one.
LEMMA Drawn == ASSUME NEW e PROVE EventId(e) = drawn
  BY DEF EventId, IdAt, IdPlaces

LEMMA ClaimDraws ==
  ASSUME NEW i \in Instances, Claim(i) \/ ClaimFails(i)
  PROVE  processed' \subseteq processed \cup {drawn} /\ drawn' = drawn + 1
  <1>1. PICK id : id = EventId(Message(i))  OBVIOUS
  <1>2. id = drawn  BY <1>1, Drawn
  <1> QED  BY <1>1, <1>2 DEF Claim, ClaimFails

LEMMA PositionTyped ==
  ASSUME TypeOK, NEW i \in Instances, HasNext(i)
  PROVE  /\ pos[i] \in Nat /\ pos[i] + 1 \in Nat /\ pos[i] + 1 <= Len(log)
         /\ Position(i) = pos[i] + 1 /\ Position(i) \in 1..MaxLog /\ Position(i) \in DOMAIN log
         /\ Message(i) = log[pos[i] + 1]
  BY DEF TypeOK, HasNext, Position, Message, NoOffset

\* The reader that has dealt with a message is one further.
LEMMA Resolved ==
  ASSUME TypeOK, NEW i \in Instances, HasNext(i), Resolve(i)
  PROVE  /\ pos' \in [Instances -> Nat \cup {NoOffset}]
         /\ pos'[i] = pos[i] + 1 /\ pos'[i] <= Len(log)
         /\ \A j \in Instances \ {i} : pos'[j] = pos[j]
         /\ UNCHANGED <<from, owner, committed, base>>
  BY PositionTyped DEF Resolve, TypeOK

\* Nobody else is in the middle of an insert because of it.
LEMMA InsertingStays ==
  ASSUME TypeOK, NEW i \in Instances, HasNext(i), Resolve(i), cpc'[i] # "inserting",
         \A j \in Instances \ {i} : cpc'[j] = cpc[j], UNCHANGED log
  PROVE  /\ \A j \in Instances : pos'[j] # NoOffset => pos'[j] <= Len(log)'
         /\ \A j \in Instances : cpc'[j] = "inserting" => HasNext(j)'
  BY Resolved DEF TypeOK, HasNext

LEMMA TypeStep == TypeInv /\ [Next]_vars => TypeInv'
  <1> SUFFICES ASSUME TypeInv, TypeOK, [Next]_vars PROVE TypeInv'
    BY DEF TypeInv
  <1>0. committed \in Nat \cup {NoOffset} /\ committed <= Len(log) /\ Len(log) \in Nat
    BY DEF TypeInv, TypeOK
  <1>1. ASSUME NEW i \in Instances, Start(i) PROVE TypeInv'
    <2>1. /\ UNCHANGED <<log, tables, group>>
          /\ cpc' \in [Instances -> {"off", "polling", "inserting", "deaf"}]
          /\ \A j \in Instances : cpc'[j] = "inserting" => cpc[j] = "inserting"
      BY <1>1 DEF TypeOK, Start
    <2>2. failures' \in 0..MaxFailures
      BY <1>1 DEF TypeOK, Start, Failure, NoFailure
    <2> QED  BY <1>0, <2>1, <2>2 DEF TypeInv, TypeOK, tables, group, HasNext
  <1>2. ASSUME NEW i \in Instances, Assign(i) PROVE TypeInv'
    <2>1. PICK start \in Nat : start <= Len(log)
            /\ pos' = [pos EXCEPT ![i] = start] /\ from' = [from EXCEPT ![i] = start]
      <3> DEFINE start == IF committed = NoOffset THEN Len(log) ELSE committed
      <3>1. pos' = [pos EXCEPT ![i] = start] /\ from' = [from EXCEPT ![i] = start]
        BY <1>2 DEF Assign
      <3>2. start \in Nat /\ start <= Len(log)
        BY <1>0
      <3> QED  BY <3>1, <3>2
    <2>2. \A j \in Instances : pos'[j] # NoOffset => pos'[j] <= Len(log)
      BY <2>1 DEF TypeOK
    <2>3. \A j \in Instances : cpc[j] = "inserting" => pos'[j] = pos[j]
      BY <1>2, <2>1 DEF TypeOK, Assign
    <2>4. \A j \in Instances : cpc'[j] = "inserting" => HasNext(j)'
      BY <1>2, <2>3 DEF TypeOK, Assign, HasNext
    <2>5. base' \in Nat /\ failures' \in 0..MaxFailures
      BY <1>0, <1>2 DEF TypeOK, Assign, Failure, NoFailure
    <2>6. /\ pos' \in [Instances -> Nat \cup {NoOffset}]
          /\ from' \in [Instances -> Nat \cup {NoOffset}]
      BY <2>1 DEF TypeOK
    <2> QED  BY <1>0, <1>2, <2>2, <2>4, <2>5, <2>6 DEF TypeInv, TypeOK, Assign, tables
  <1>3. ASSUME NEW i \in Instances, Consume(i) PROVE TypeInv'
    <2>1. HasNext(i)
      BY <1>3 DEF TypeOK, Consume, PassOver, Claim, ClaimFails, InsertNotification
    <2>2. CASE Claim(i) /\ cpc' = [cpc EXCEPT ![i] = "inserting"] /\ UNCHANGED group
      <3>1. \A j \in Instances : cpc'[j] = "inserting" => HasNext(j)'
        BY <2>1, <2>2 DEF TypeOK, Claim, group, HasNext
      <3>2. processed' \subseteq Nat /\ drawn' \in Nat
        <4>1. processed' \subseteq processed \cup {drawn} /\ drawn' = drawn + 1
          BY <2>2, ClaimDraws
        <4> QED  BY <4>1 DEF TypeOK
      <3>3. cpc' \in [Instances -> {"off", "polling", "inserting", "deaf"}]
        BY <2>2 DEF TypeOK
      <3> QED  BY <1>0, <2>2, <3>1, <3>2, <3>3 DEF TypeInv, TypeOK, Claim, group
    <2>3. CASE /\ PassOver(i) \/ Claim(i) \/ ClaimFails(i) \/ InsertNotification(i)
               /\ Resolve(i)
               /\ UNCHANGED cpc \/ cpc' = [cpc EXCEPT ![i] = "polling"]
               /\ cpc'[i] # "inserting"
      <3>1. /\ UNCHANGED log
            /\ cpc' \in [Instances -> {"off", "polling", "inserting", "deaf"}]
            /\ \A j \in Instances \ {i} : cpc'[j] = cpc[j]
        BY <2>3 DEF PassOver, Claim, ClaimFails, InsertNotification, TypeOK
      <3>2. /\ \A j \in Instances : pos'[j] # NoOffset => pos'[j] <= Len(log)'
            /\ \A j \in Instances : cpc'[j] = "inserting" => HasNext(j)'
        BY <2>1, <2>3, <3>1, InsertingStays
      <3>3. processed' \subseteq Nat /\ drawn' \in Nat
        <4>1. processed' \subseteq processed \cup {drawn} /\ drawn' \in {drawn, drawn + 1}
          BY <2>3, ClaimDraws DEF PassOver, InsertNotification, tables
        <4>2. processed \subseteq Nat /\ drawn \in Nat  BY DEF TypeOK
        <4> QED  BY <4>1, <4>2
      <3>4. notified' \in [1..MaxLog -> Nat] /\ missed' \subseteq 1..MaxLog
        <4>1. Position(i) \in 1..MaxLog  BY <2>1, PositionTyped
        <4>2. [notified EXCEPT ![Position(i)] = @ + 1] \in [1..MaxLog -> Nat]
          BY <4>1 DEF TypeOK
        <4> QED  BY <2>3, <4>1, <4>2
                 DEF PassOver, Claim, ClaimFails, InsertNotification, TypeOK, tables
      <3>5. failures' \in 0..MaxFailures
        BY <2>3 DEF PassOver, Claim, ClaimFails, InsertNotification, TypeOK, Failure, NoFailure
      <3> QED  BY <1>0, <2>1, <2>3, <3>1, <3>2, <3>3, <3>4, <3>5, Resolved DEF TypeInv, TypeOK
    <2> QED
      BY <1>3, <2>2, <2>3 DEF Consume, PassOver, Claim, ClaimFails, InsertNotification, TypeOK
  <1>4. ASSUME NEW i \in Instances, CommitOffset(i) PROVE TypeInv'
    <2>1. \A j \in Instances : cpc[j] = "inserting" => pos'[j] = pos[j]
      BY <1>4 DEF CommitOffset, TypeOK
    <2>2. /\ pos' \in [Instances -> Nat \cup {NoOffset}]
          /\ \A j \in Instances : pos'[j] # NoOffset => pos'[j] <= Len(log)
          /\ committed' \in Nat \cup {NoOffset} /\ committed' <= Len(log)
      BY <1>0, <1>4 DEF CommitOffset, TypeOK
    <2> QED  BY <1>4, <2>1, <2>2 DEF TypeInv, TypeOK, CommitOffset, tables, HasNext
  <1>5. ASSUME NEW i \in Instances, CrashInstance(i) PROVE TypeInv'
    <2>1. \A j \in Instances : cpc'[j] = "inserting" => cpc[j] = "inserting" /\ pos'[j] = pos[j]
      BY <1>5 DEF CrashInstance, TypeOK
    <2>2. /\ pos' \in [Instances -> Nat \cup {NoOffset}]
          /\ \A j \in Instances : pos'[j] # NoOffset => pos'[j] <= Len(log)
          /\ cpc' \in [Instances -> {"off", "polling", "inserting", "deaf"}]
      BY <1>5 DEF CrashInstance, TypeOK
    <2>3. failures' \in 0..MaxFailures
      BY <1>5 DEF CrashInstance, TypeOK, Failure
    <2> QED  BY <1>0, <1>5, <2>1, <2>2, <2>3 DEF TypeInv, TypeOK, CrashInstance, tables, HasNext
  <1>6. ASSUME NEW e \in Events, Produce(e) PROVE TypeInv'
    <2>1. log' \in Seq(Events) /\ Len(log') = Len(log) + 1 /\ Len(log') <= MaxLog
      BY <1>6 DEF Produce, TypeOK
    <2>2. /\ \A j \in Instances : pos[j] # NoOffset => pos[j] <= Len(log')
          /\ \A j \in Instances : cpc[j] = "inserting" => HasNext(j)'
      BY <1>0, <1>6, <2>1 DEF TypeOK, Produce, group, HasNext
    <2> QED  BY <1>0, <1>6, <2>1, <2>2 DEF TypeInv, TypeOK, Produce, tables, group
  <1>7. CASE UNCHANGED vars
    BY <1>0, <1>7 DEF TypeInv, TypeOK, vars, tables, group, HasNext
  <1> QED  BY <1>1, <1>2, <1>3, <1>4, <1>5, <1>6, <1>7 DEF Next

\* The types hold in every reachable state.
THEOREM NotificationTypes == Spec => []TypeOK
  <1>1. TypeInv => TypeOK  BY DEF TypeInv
  <1> QED  BY <1>1, TypeInit, TypeStep, PTL DEF Spec
-----------------------------------------------------------------------------
(* How often a user is told.                                               *)

\* The instances that have a message before them.
Before(k) == {i \in Instances : pos[i] # NoOffset /\ pos[i] < k}

\* What a message has led to, and may lead to with nothing failing any more, is
\* paid for by failures, and by the one assignment that needs none.
TellInv == \A k \in 1..MaxLog :
    notified[k] + Cardinality(Before(k)) <= failures + (IF owner = {} THEN 0 ELSE 1)

LEMMA BeforeFinite ==
  ASSUME NEW k
  PROVE  /\ IsFiniteSet(Before(k)) /\ Cardinality(Before(k)) \in Nat
         /\ IsFiniteSet(Before(k)') /\ Cardinality(Before(k)') \in Nat
  BY InstanceAssumption, FS_Subset, FS_CardinalityType DEF Before

\* What does not bring a message before an instance costs nothing.
LEMMA TellsNoMore ==
  ASSUME TypeOK, TellInv, UNCHANGED notified,
         \A k \in 1..MaxLog : Before(k)' \subseteq Before(k),
         failures' \in Nat, failures <= failures',
         owner # {} /\ owner' = {} => failures < failures'
  PROVE  TellInv'
  <1> SUFFICES ASSUME NEW k \in 1..MaxLog
               PROVE  notified[k] + Cardinality(Before(k)')
                        <= failures' + (IF owner' = {} THEN 0 ELSE 1)
    BY DEF TellInv
  <1>1. Cardinality(Before(k)') <= Cardinality(Before(k))
    BY BeforeFinite, FS_Subset
  <1>2. notified[k] \in Nat /\ failures \in Nat
    BY DEF TypeOK
  <1>3. notified[k] + Cardinality(Before(k)) <= failures + (IF owner = {} THEN 0 ELSE 1)
    BY DEF TellInv
  <1>4. Cardinality(Before(k)) \in Nat /\ Cardinality(Before(k)') \in Nat
    BY BeforeFinite
  <1> QED  BY <1>1, <1>2, <1>3, <1>4

LEMMA TellStep == TypeOK /\ TellInv /\ TypeOK' /\ [Next]_vars => TellInv'
  <1> SUFFICES ASSUME TypeOK, TellInv, TypeOK', [Next]_vars PROVE TellInv'
    OBVIOUS
  <1>0. failures \in Nat /\ failures' \in Nat
    BY DEF TypeOK
  <1>1. ASSUME NEW i \in Instances, Start(i) PROVE TellInv'
    BY <1>0, <1>1, TellsNoMore DEF Start, tables, group, Failure, NoFailure, Before
  <1>2. ASSUME NEW i \in Instances, Assign(i) PROVE TellInv'
    <2> SUFFICES ASSUME NEW k \in 1..MaxLog
                 PROVE  notified'[k] + Cardinality(Before(k)')
                          <= failures' + (IF owner' = {} THEN 0 ELSE 1)
      BY DEF TellInv
    <2>1. \A j \in Instances \ {i} : pos'[j] = pos[j]
      BY <1>2 DEF Assign, TypeOK
    <2>2. Before(k)' \subseteq Before(k) \cup {i}
      BY <2>1 DEF Before
    <2>3. /\ IsFiniteSet(Before(k) \cup {i})
          /\ Cardinality(Before(k) \cup {i}) <= Cardinality(Before(k)) + 1
          /\ Cardinality(Before(k) \cup {i}) \in Nat
      <3>1. IsFiniteSet(Before(k)) /\ Cardinality(Before(k)) \in Nat
        BY BeforeFinite
      <3>2. Cardinality(Before(k) \cup {i}) \in {Cardinality(Before(k)), Cardinality(Before(k)) + 1}
        BY <3>1, FS_AddElement
      <3>3. IsFiniteSet(Before(k) \cup {i})
        BY <3>1, FS_AddElement
      <3> QED  BY <3>1, <3>2, <3>3
    <2>4. Cardinality(Before(k)') <= Cardinality(Before(k)) + 1
      BY <2>2, <2>3, BeforeFinite, FS_Subset
    <2>5. notified[k] + Cardinality(Before(k)) <= failures + (IF owner = {} THEN 0 ELSE 1)
      BY DEF TellInv
    <2>6. /\ notified'[k] = notified[k] /\ notified[k] \in Nat /\ owner' # {}
          /\ failures' = failures + (IF owner = {} THEN 0 ELSE 1)
      BY <1>2 DEF Assign, tables, TypeOK, Failure, NoFailure
    <2>7. Cardinality(Before(k)) \in Nat /\ Cardinality(Before(k)') \in Nat
      BY BeforeFinite
    <2> QED  BY <1>0, <2>4, <2>5, <2>6, <2>7
  <1>3. ASSUME NEW i \in Instances, PassOver(i) \/ Claim(i) \/ ClaimFails(i) PROVE TellInv'
    <2>1. HasNext(i) /\ UNCHANGED <<notified, owner>> /\ failures <= failures'
      BY <1>0, <1>3 DEF PassOver, Claim, ClaimFails, Resolve, tables, group, Failure
    <2>2. Resolve(i) \/ UNCHANGED pos
      BY <1>3 DEF PassOver, Claim, ClaimFails, group
    <2>3. \A k \in 1..MaxLog : Before(k)' \subseteq Before(k)
      <3>1. CASE Resolve(i)
        <4>1. \A j \in Instances : pos'[j] = pos[j] \/ (pos'[j] = pos[j] + 1 /\ pos[j] \in Nat)
          BY <2>1, <3>1, Resolved, PositionTyped
        <4> QED  BY <4>1 DEF Before, NoOffset
      <3>2. CASE UNCHANGED pos
        BY <3>2 DEF Before
      <3> QED  BY <2>2, <3>1, <3>2
    <2> QED  BY <1>0, <2>1, <2>3, TellsNoMore
  <1>4. ASSUME NEW i \in Instances, InsertNotification(i) PROVE TellInv'
    <2> SUFFICES ASSUME NEW k \in 1..MaxLog
                 PROVE  notified'[k] + Cardinality(Before(k)')
                          <= failures' + (IF owner' = {} THEN 0 ELSE 1)
      BY DEF TellInv
    <2>1. HasNext(i) /\ Resolve(i)
      BY <1>4 DEF InsertNotification, TypeOK
    <2>2. /\ pos'[i] = pos[i] + 1 /\ pos[i] \in Nat /\ Position(i) = pos[i] + 1
          /\ \A j \in Instances \ {i} : pos'[j] = pos[j]
          /\ owner' = owner
      BY <2>1, Resolved, PositionTyped
    <2>3. notified[k] + Cardinality(Before(k)) <= failures + (IF owner = {} THEN 0 ELSE 1)
      BY DEF TellInv
    <2>4. /\ notified[k] \in Nat /\ notified'[k] \in Nat /\ failures <= failures'
      BY <1>0, <1>4 DEF InsertNotification, TypeOK, Failure, NoFailure
    <2>7. /\ Cardinality(Before(k)) \in Nat /\ Cardinality(Before(k)') \in Nat
          /\ IsFiniteSet(Before(k))
      BY BeforeFinite
    <2>5. CASE k = pos[i] + 1
      <3>1. notified'[k] <= notified[k] + 1
        BY <1>4, <2>2, <2>5 DEF InsertNotification, TypeOK
      <3>2. Before(k)' = Before(k) \ {i} /\ i \in Before(k)
        BY <2>2, <2>5 DEF Before, NoOffset
      <3>3. Cardinality(Before(k)') = Cardinality(Before(k)) - 1
        BY <2>7, <3>2, FS_RemoveElement
      <3> QED  BY <1>0, <2>2, <2>3, <2>4, <2>7, <3>1, <3>3
    <2>6. CASE k # pos[i] + 1
      <3>1. notified'[k] = notified[k]
        BY <1>4, <2>2, <2>6 DEF InsertNotification, TypeOK
      <3>2. Before(k)' \subseteq Before(k)
        BY <2>2 DEF Before, NoOffset
      <3>3. Cardinality(Before(k)') <= Cardinality(Before(k))
        BY <2>7, <3>2, FS_Subset
      <3> QED  BY <1>0, <2>2, <2>3, <2>4, <2>7, <3>1, <3>3
    <2> QED  BY <2>5, <2>6
  <1>5. ASSUME NEW i \in Instances, CommitOffset(i) PROVE TellInv'
    <2>1. \A j \in Instances : pos'[j] = pos[j] \/ pos'[j] = NoOffset
      BY <1>5 DEF CommitOffset, TypeOK
    <2>2. \A k \in 1..MaxLog : Before(k)' \subseteq Before(k)
      BY <2>1 DEF Before
    <2> QED  BY <1>0, <1>5, <2>2, TellsNoMore DEF CommitOffset, tables
  <1>6. ASSUME NEW i \in Instances, CrashInstance(i) PROVE TellInv'
    <2>1. \A j \in Instances : pos'[j] = pos[j] \/ pos'[j] = NoOffset
      BY <1>6 DEF CrashInstance, TypeOK
    <2>2. \A k \in 1..MaxLog : Before(k)' \subseteq Before(k)
      BY <2>1 DEF Before
    <2> QED  BY <1>0, <1>6, <2>2, TellsNoMore DEF CrashInstance, tables, Failure
  <1>7. CASE UNCHANGED vars \/ \E e \in Events : Produce(e)
    BY <1>0, <1>7, TellsNoMore DEF vars, Produce, tables, group, Before
  <1> QED  BY <1>1, <1>2, <1>3, <1>4, <1>5, <1>6, <1>7 DEF Next, Consume

\* Each failure, be it a crash, a partition taken from a live member or a
\* statement that reports an error, makes the group tell a user once more of the
\* same message at most, although no claim recognises a redelivery.
THEOREM ToldAgainOnlyAfterFailure == Spec => []RepeatsBounded
  <1>1. Init => TellInv
    <2> SUFFICES ASSUME Init, NEW k \in 1..MaxLog
                 PROVE  notified[k] + Cardinality(Before(k)) <= failures + (IF owner = {} THEN 0 ELSE 1)
      BY DEF TellInv
    <2>1. Before(k) = {}  BY DEF Init, Before
    <2> QED  BY <2>1, FS_EmptySet DEF Init
  <1>2. ASSUME TypeInv, TellInv PROVE RepeatsBounded
    <2> SUFFICES ASSUME NEW k \in DOMAIN log PROVE notified[k] <= 1 + failures
      BY DEF RepeatsBounded
    <2>1. k \in 1..MaxLog  BY <1>2 DEF TypeInv, TypeOK
    <2>2. notified[k] \in Nat /\ failures \in Nat /\ Cardinality(Before(k)) \in Nat
      BY <1>2, <2>1, BeforeFinite DEF TypeInv, TypeOK
    <2> QED  BY <1>2, <2>1, <2>2 DEF TellInv
  <1>3. TypeInv => TypeOK  BY DEF TypeInv
  <1>4. TypeInv /\ TypeInv' /\ TellInv /\ [Next]_vars => TellInv'
    BY TellStep DEF TypeInv
  <1> QED  BY <1>1, <1>2, <1>4, TypeInit, TypeStep, PTL DEF Spec
-----------------------------------------------------------------------------
(* That no message is committed over.                                      *)

\* A message has had its effect, or its claim or insert has failed.
Done(k) == notified[k] > 0 \/ k \in missed

\* A reader, or the committed offset, has the message behind it.
Behind(k) == k <= committed \/ \E i \in Instances : pos[i] # NoOffset /\ k <= pos[i]

\* No id that was ever claimed is drawn again; and what is behind anyone, from
\* where the group began, is done.
Fresh   == \A id \in processed : id < drawn
DropInv == \A k \in 1..Len(log) : base < k /\ Named(log[k]) /\ Behind(k) => Done(k)

LEMMA FreshStep == TypeOK /\ Fresh /\ [Next]_vars => Fresh'
  <1> SUFFICES ASSUME TypeOK, Fresh, [Next]_vars PROVE Fresh'
    OBVIOUS
  <1>0. drawn \in Nat /\ processed \subseteq Nat
    BY DEF TypeOK
  <1>1. ASSUME NEW i \in Instances, Claim(i) \/ ClaimFails(i) PROVE Fresh'
    <2>1. processed' \subseteq processed \cup {drawn} /\ drawn' = drawn + 1
      BY <1>1, ClaimDraws
    <2>2. ASSUME NEW id \in processed' PROVE id < drawn'
      BY <1>0, <2>1 DEF Fresh
    <2> QED  BY <2>2 DEF Fresh
  <1>2. CASE UNCHANGED <<processed, drawn>>
    BY <1>2 DEF Fresh
  <1> QED  BY <1>1, <1>2
           DEF Next, Consume, Start, Assign, PassOver, InsertNotification, CommitOffset,
               CrashInstance, Produce, vars, tables

\* Whatever the process does next, what is done stays done.
LEMMA DoneStays == TypeOK /\ [Next]_vars => \A k \in 1..MaxLog : Done(k) => Done(k)'
  <1> SUFFICES ASSUME TypeOK, [Next]_vars, NEW k \in 1..MaxLog, Done(k) PROVE Done(k)'
    OBVIOUS
  <1>1. ASSUME NEW i \in Instances, InsertNotification(i) PROVE Done(k)'
    BY <1>1 DEF InsertNotification, Done, TypeOK
  <1>2. CASE UNCHANGED notified /\ missed \subseteq missed'
    BY <1>2 DEF Done
  <1> QED  BY <1>1, <1>2
           DEF Next, Consume, Start, Assign, PassOver, Claim, ClaimFails, CommitOffset,
               CrashInstance, Produce, vars, tables

\* What was behind someone is done after the step, too.
LEMMA OldIsDone ==
  ASSUME TypeOK, DropInv, [Next]_vars, NEW k \in 1..Len(log),
         base < k, Named(log[k]), Behind(k)
  PROVE  Done(k)'
  <1>1. Done(k) /\ k \in 1..MaxLog  BY DEF DropInv, TypeOK
  <1> QED  BY <1>1, DoneStays

\* An instance has dealt with the message before it.
LEMMA DropResolved ==
  ASSUME TypeInv, DropInv, [Next]_vars, NEW i \in Instances, HasNext(i), Resolve(i),
         UNCHANGED log, NEW q, q = Position(i), Named(log[q]) => Done(q)'
  PROVE  DropInv'
  <1>0. TypeOK  BY DEF TypeInv
  <1>1. PICK n \in Nat : n = pos[i] /\ pos'[i] = n + 1 /\ n + 1 <= Len(log)
          /\ q = n + 1 /\ pos[i] # NoOffset
    BY <1>0, PositionTyped, Resolved DEF HasNext
  <1>2. UNCHANGED <<base, committed>> /\ \A j \in Instances \ {i} : pos'[j] = pos[j]
    BY <1>0, Resolved
  <1> SUFFICES ASSUME NEW k \in 1..Len(log), base < k, Named(log[k]), Behind(k)' PROVE Done(k)'
    BY <1>2 DEF DropInv
  <1>3. CASE k = n + 1
    BY <1>1, <1>3 DEF Done
  <1>4. CASE k # n + 1
    <2>1. Behind(k)  BY <1>1, <1>2, <1>4 DEF Behind
    <2> QED  BY <1>0, <2>1, OldIsDone
  <1> QED  BY <1>3, <1>4

LEMMA DropStep == TypeInv /\ Fresh /\ DropInv /\ [Next]_vars => DropInv'
  <1> SUFFICES ASSUME TypeInv, Fresh, DropInv, [Next]_vars PROVE DropInv'
    OBVIOUS
  <1>0. TypeOK /\ Len(log) \in Nat /\ committed \in Int /\ committed <= Len(log)
    BY DEF TypeInv, TypeOK, NoOffset
  <1> DEFINE Old == \A k \in 1..Len(log) : base < k /\ Named(log[k]) /\ Behind(k) => Done(k)'
  <1>1. Old
    BY <1>0, OldIsDone
  <1> HIDE DEF Old
  <1>2. ASSUME NEW i \in Instances, Assign(i) PROVE DropInv'
    <2>1. UNCHANGED <<log, committed>> /\ \A j \in Instances \ {i} : pos'[j] = pos[j]
      BY <1>0, <1>2 DEF Assign, TypeOK
    <2>2. CASE committed = NoOffset
      <3>1. base' = Len(log)  BY <1>2, <2>2 DEF Assign
      <3> QED  BY <1>0, <2>1, <3>1 DEF DropInv
    <2>3. CASE committed # NoOffset
      <3>1. base' = base /\ pos'[i] = committed
        BY <1>0, <1>2, <2>3 DEF Assign, TypeOK
      <3>2. \A k : Behind(k)' => Behind(k)
        BY <2>1, <3>1 DEF Behind
      <3> QED  BY <1>1, <2>1, <3>1, <3>2 DEF DropInv, Old
    <2> QED  BY <2>2, <2>3
  <1>3. ASSUME NEW i \in Instances, PassOver(i) PROVE DropInv'
    <2>1. PICK q : q = Position(i)  OBVIOUS
    <2>2. HasNext(i) /\ Resolve(i) /\ UNCHANGED log /\ ~Named(log[q])
      BY <1>3, <2>1 DEF PassOver, Message
    <2> QED  BY <2>1, <2>2, DropResolved
  <1>4. ASSUME NEW i \in Instances, Claim(i) PROVE DropInv'
    <2>1. PICK id : id = EventId(Message(i))  OBVIOUS
    <2>2. id = drawn  BY <2>1, Drawn
    <2>3. id \notin processed  BY <1>0, <2>2 DEF Fresh, TypeOK
    <2>4. UNCHANGED <<log, group>>
      BY <1>4, <2>1, <2>3 DEF Claim
    <2> QED  BY <1>1, <2>4 DEF DropInv, Old, group, Behind
  <1>5. ASSUME NEW i \in Instances, ClaimFails(i) PROVE DropInv'
    <2>1. PICK q : q = Position(i)  OBVIOUS
    <2>2. HasNext(i) /\ Resolve(i) /\ UNCHANGED log /\ q \in missed'
      BY <1>5, <2>1 DEF ClaimFails
    <2>3. Done(q)'  BY <2>2 DEF Done
    <2> QED  BY <2>1, <2>2, <2>3, DropResolved
  <1>6. ASSUME NEW i \in Instances, InsertNotification(i) PROVE DropInv'
    <2>1. PICK q : q = Position(i)  OBVIOUS
    <2>2. HasNext(i) /\ Resolve(i) /\ UNCHANGED log
      BY <1>0, <1>6 DEF InsertNotification, TypeOK
    <2>3. Done(q)'
      <3>1. q \in 1..MaxLog  BY <1>0, <2>1, <2>2, PositionTyped
      <3> QED  BY <1>0, <1>6, <2>1, <3>1 DEF InsertNotification, Done, TypeOK
    <2> QED  BY <2>1, <2>2, <2>3, DropResolved
  <1>7. ASSUME NEW i \in Instances, CommitOffset(i) PROVE DropInv'
    <2>1. \A k : Behind(k)' => Behind(k)
      BY <1>0, <1>7 DEF CommitOffset, TypeOK, Behind
    <2> QED  BY <1>1, <1>7, <2>1 DEF CommitOffset, DropInv, Old
  <1>8. ASSUME NEW i \in Instances, Start(i) \/ CrashInstance(i) PROVE DropInv'
    <2>1. UNCHANGED <<log, base, committed>>
          /\ \A j \in Instances : pos'[j] \in {pos[j], NoOffset}
      BY <1>0, <1>8 DEF Start, CrashInstance, group, TypeOK
    <2>2. \A k : Behind(k)' => Behind(k)
      BY <2>1 DEF Behind
    <2> QED  BY <1>1, <2>1, <2>2 DEF DropInv, Old
  <1>9. ASSUME NEW e \in Events, Produce(e) PROVE DropInv'
    <2>1. UNCHANGED group /\ log' = Append(log, e) /\ Len(log') = Len(log) + 1
          /\ \A k \in 1..Len(log) : log'[k] = log[k]
      BY <1>0, <1>9 DEF Produce, TypeOK
    <2>2. \A k \in 1..Len(log') : Behind(k)' => k <= Len(log) /\ Behind(k)
      BY <1>0, <2>1 DEF Behind, group, TypeOK
    <2> QED  BY <1>0, <1>1, <2>1, <2>2 DEF DropInv, Old, group
  <1>10. CASE UNCHANGED vars
    BY <1>1, <1>10 DEF vars, group, DropInv, Old, Behind
  <1> QED  BY <1>2, <1>3, <1>4, <1>5, <1>6, <1>7, <1>8, <1>9, <1>10 DEF Next, Consume

\* However a process crashes, loses its partition or fails a statement, the
\* group never commits over a message that names a user and has led to nothing,
\* unless its own claim or insert has failed: the id extractMeta draws is never
\* one that was claimed.
THEOREM NoneCommittedOver == Spec => []NothingDropped
  <1>1. Init => Fresh /\ DropInv
    BY DEF Init, Fresh, DropInv
  <1>2. ASSUME TypeInv, DropInv PROVE NothingDropped
    <2> SUFFICES ASSUME NEW k \in DOMAIN log, base < k, k <= committed, Named(log[k])
                 PROVE  notified[k] > 0 \/ k \in missed
      BY DEF NothingDropped
    <2>1. k \in 1..Len(log) /\ Behind(k)  BY <1>2 DEF TypeInv, TypeOK, Behind
    <2> QED  BY <1>2, <2>1 DEF DropInv, Done
  <1>3. TypeInv => TypeOK  BY DEF TypeInv
  <1> QED  BY <1>1, <1>2, <1>3, TypeInit, TypeStep, FreshStep, DropStep, PTL DEF Spec
=============================================================================
