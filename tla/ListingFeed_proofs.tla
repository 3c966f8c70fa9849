------------------------ MODULE ListingFeed_proofs -------------------------
(* Proofs about ListingFeed: types, and that a listing counts once. *)
EXTENDS ListingFeed, TLAPS

USE NoMemberAssumption, NoOffsetAssumption, FaultsAssumption

-----------------------------------------------------------------------------
(* Types.                                                                  *)

CallType  == [at : {"idle", "sync", "publish", "late", "done"}, answer : {"none", "201", "500", "503"}]
ApplyType == [at : {"off", "claim", "bump", "ok", "failed"}, ev : Listings]

LEMMA TypeInit == Init => TypeOK
  BY DEF Init, TypeOK, Idle, Connects

LEMMA CallTyped ==
  ASSUME TypeOK, NEW l \in Listings
  PROVE  /\ \A a \in {"none", "201", "500", "503"} :
              Answer(l, a) \/ GiveUp(l, a) => call' \in [Listings -> CallType]
         /\ \A s \in {"sync", "publish"} :
              Goto(l, s) => call' \in [Listings -> CallType]
  <1>1. ASSUME NEW s \in {"sync", "publish"} PROVE [call[l] EXCEPT !.at = s] \in CallType
    <2>1. call[l] \in CallType  BY DEF TypeOK, CallType
    <2>2. ASSUME NEW f \in CallType PROVE [f EXCEPT !.at = s] \in CallType
      BY DEF CallType
    <2> QED  BY <2>1, <2>2
  <1>2. ASSUME NEW a \in {"none", "201", "500", "503"}, NEW s \in {"late", "done"}
        PROVE  [at |-> s, answer |-> a] \in CallType
    BY DEF CallType
  <1>3. ASSUME NEW f \in CallType PROVE [call EXCEPT ![l] = f] \in [Listings -> CallType]
    BY DEF TypeOK, CallType
  <1> QED  BY <1>1, <1>2, <1>3 DEF Answer, GiveUp, Goto

LEMMA AnalyticsTyped ==
  ASSUME TypeOK
  PROVE  apply \in [Tasks -> ApplyType] /\ counted \in [Listings -> Nat]
  BY DEF TypeOK, ApplyType

LEMMA ApplyTyped ==
  ASSUME TypeOK, NEW t \in Tasks
  PROVE  /\ \A s \in {"off", "claim", "bump", "ok", "failed"} :
              Become(t, s) => apply' \in [Tasks -> ApplyType]
         /\ \A e \in Listings : apply' = [apply EXCEPT ![t] = [at |-> "claim", ev |-> e]]
              => apply' \in [Tasks -> ApplyType]
         /\ apply[t].ev \in Listings
  <1>1. ASSUME NEW s \in {"off", "claim", "bump", "ok", "failed"}
        PROVE  [apply[t] EXCEPT !.at = s] \in ApplyType
    BY AnalyticsTyped DEF ApplyType
  <1>2. ASSUME NEW f \in ApplyType PROVE [apply EXCEPT ![t] = f] \in [Tasks -> ApplyType]
    BY AnalyticsTyped
  <1>3. ASSUME NEW e \in Listings PROVE [at |-> "claim", ev |-> e] \in ApplyType
    BY DEF ApplyType
  <1>4. apply[t].ev \in Listings
    BY AnalyticsTyped DEF ApplyType
  <1> QED  BY <1>1, <1>2, <1>3, <1>4 DEF Become

LEMMA LogTyped ==
  ASSUME TypeOK, NEW l \in Listings
  PROVE  /\ Append(log, l) \in Seq(Listings)
         /\ Produced(l) \subseteq Seq(Listings)
  BY DEF TypeOK, Produced

LEMMA TypeStep == TypeOK /\ [Next]_vars => TypeOK'
  <1> SUFFICES ASSUME TypeOK, [Next]_vars PROVE TypeOK'
    OBVIOUS
  <1> DEFINE
        CT == call' \in [Listings -> CallType]
        AT == apply' \in [Tasks -> ApplyType]
  <1>1. ASSUME NEW l \in Listings, Insert(l) PROVE TypeOK'
    <2>1. CT  BY <1>1, CallTyped DEF Insert
    <2> QED  BY <1>1, <2>1 DEF TypeOK, Insert, CallType, analytics, group
  <1>2. ASSUME NEW l \in Listings, Ingest(l) PROVE TypeOK'
    <2>1. AT  BY <1>2, ApplyTyped DEF Ingest, Tasks
    <2> QED  BY <1>2, <2>1 DEF TypeOK, Ingest, ApplyType, listings, group
  <1>3. ASSUME NEW l \in Listings, Synced(l) \/ SyncFails(l) PROVE TypeOK'
    <2>1. CT  BY <1>3, CallTyped DEF Synced, SyncFails
    <2> QED  BY <1>3, <2>1 DEF TypeOK, Synced, SyncFails, CallType, analytics, group
  <1>4. ASSUME NEW l \in Listings, Publish(l) PROVE TypeOK'
    <2>1. CT  BY <1>4, CallTyped DEF Publish
    <2>2. log' \in Seq(Listings)  BY <1>4, LogTyped DEF Publish, TypeOK
    <2> QED  BY <1>4, <2>1, <2>2 DEF TypeOK, Publish, CallType, analytics, group
  <1>5. ASSUME NEW l \in Listings, SendEnds(l) PROVE TypeOK'
    <2>1. log' \in Seq(Listings)  BY <1>5, LogTyped DEF SendEnds, TypeOK
    <2> QED  BY <1>5, <2>1 DEF TypeOK, SendEnds, analytics, group
  <1>6. ASSUME NEW l \in Listings, CallLost(l) PROVE TypeOK'
    <2>1. CT  BY <1>6, CallTyped DEF CallLost, TypeOK, CallType
    <2> QED  BY <1>6, <2>1 DEF TypeOK, CallLost, CallType, analytics, group
  <1>7. ASSUME NEW t \in Tasks, Claim(t) PROVE TypeOK'
    <2>1. AT /\ apply[t].ev \in Listings  BY <1>7, ApplyTyped DEF Claim
    <2> QED  BY <1>7, <2>1 DEF TypeOK, Claim, ApplyType, listings, group
  <1>8. ASSUME NEW t \in Tasks, Bump(t) PROVE TypeOK'
    <2>1. AT /\ apply[t].ev \in Listings  BY <1>8, ApplyTyped DEF Bump
    <2>2. \E e \in Listings : counted' \in {counted, [counted EXCEPT ![e] = @ + 1]}
      BY <1>8, <2>1 DEF Bump
    <2>3. counted' \in [Listings -> Nat]  BY <2>2, AnalyticsTyped
    <2> QED  BY <1>8, <2>1, <2>3 DEF TypeOK, Bump, ApplyType, listings, group
  <1>9. ASSUME NEW l \in Listings, TaskLost(l) PROVE TypeOK'
    <2>1. AT /\ apply[l].ev \in Listings  BY <1>9, ApplyTyped DEF TaskLost, Tasks
    <2> QED  BY <1>9, <2>1 DEF TypeOK, TaskLost, ApplyType, listings, group
  <1>15. ASSUME NEW m \in Members, MemberLost(m) PROVE TypeOK'
    <2>1. AT /\ apply[m].ev \in Listings  BY <1>15, ApplyTyped DEF MemberLost, Tasks
    <2>2. conn' \in [Members -> Connects]  BY <1>15 DEF MemberLost, TypeOK
    <2> QED  BY <1>15, <2>1, <2>2 DEF TypeOK, MemberLost, ApplyType, listings
  <1>10. ASSUME NEW m \in Members, Assign(m) PROVE TypeOK'
    <2>1. CASE committed = NoOffset
      BY <1>10, <2>1 DEF TypeOK, Assign, listings, analytics
    <2>2. CASE committed # NoOffset
      BY <1>10, <2>2 DEF TypeOK, Assign, listings, analytics
    <2> QED  BY <2>1, <2>2
  <1>11. CASE Revoke
    BY <1>11 DEF TypeOK, Revoke, listings, analytics
  <1>12. ASSUME NEW m \in Members, Fetch(m) PROVE TypeOK'
    <2>1. log[pos + 1] \in Listings  BY <1>12 DEF Fetch, TypeOK
    <2>2. AT  BY <1>12, <2>1, ApplyTyped DEF Fetch, Tasks
    <2> QED  BY <1>12, <2>2 DEF TypeOK, Fetch, ApplyType, listings, group
  <1>13. ASSUME NEW m \in Members, Resolve(m) PROVE TypeOK'
    <2>1. AT  BY <1>13, ApplyTyped DEF Resolve, Tasks
    <2> QED  BY <1>13, <2>1 DEF TypeOK, Resolve, ApplyType, listings
  <1>14. CASE UNCHANGED vars
    BY <1>14 DEF TypeOK, vars, listings, analytics, group
  <1> QED  BY <1>1, <1>2, <1>3, <1>4, <1>5, <1>6, <1>7, <1>8, <1>9, <1>10, <1>11, <1>12, <1>13, <1>14, <1>15
           DEF Next

\* The types hold in every reachable state.
THEOREM FeedTypeCorrect == Spec => []TypeOK
  BY TypeInit, TypeStep, PTL DEF Spec

-----------------------------------------------------------------------------
(* Where an event comes from.                                              *)

Applying(t) == apply[t].at \in {"claim", "bump"}

\* Behind whatever is under way, published or counted there is a row.
RowInv ==
    /\ \A l \in Listings : call[l].at \in {"sync", "late", "publish"} => l \in row
    /\ sending \subseteq row
    /\ \A i \in 1 .. Len(log) : log[i] \in row
    /\ \A t \in Tasks : Applying(t) => apply[t].ev \in row
    /\ \A l \in Listings : counted[l] # 0 => l \in row

LEMMA LogRows ==
  ASSUME TypeOK, RowInv, NEW l \in row,
         log' \in Produced(l) \cup {log, Append(log, l)}
  PROVE  \A i \in 1 .. Len(log') : log'[i] \in row
  <1>1. ASSUME NEW s \in Seq(Listings), \A i \in 1 .. Len(s) : s[i] \in row
        PROVE  \A i \in 1 .. Len(Append(s, l)) : Append(s, l)[i] \in row
    <2>1. l \in Listings  BY DEF TypeOK
    <2> QED  BY <1>1, <2>1
  <1>2. l \in Listings  BY DEF TypeOK
  <1>3. \A i \in 1 .. Len(Append(log, l)) : Append(log, l)[i] \in row
    BY <1>1 DEF TypeOK, RowInv
  <1>4. \A i \in 1 .. Len(Append(Append(log, l), l)) : Append(Append(log, l), l)[i] \in row
    BY <1>1, <1>2, <1>3 DEF TypeOK
  <1> QED  BY <1>3, <1>4 DEF Produced, RowInv

LEMMA RowStep == TypeOK /\ RowInv /\ [Next]_vars => RowInv'
  <1> SUFFICES ASSUME TypeOK, RowInv, [Next]_vars PROVE RowInv'
    OBVIOUS
  <1>1. ASSUME NEW l \in Listings,
               Insert(l) \/ Ingest(l) \/ Synced(l) \/ SyncFails(l) \/ CallLost(l)
        PROVE  RowInv'
    <2>1. UNCHANGED <<log, counted>> /\ row \subseteq row' /\ sending' \subseteq sending
      BY <1>1 DEF Insert, Ingest, Synced, SyncFails, CallLost, listings, analytics
    <2>2. ASSUME NEW k \in Listings, call'[k].at \in {"sync", "late", "publish"} PROVE k \in row'
      BY <1>1, <2>2 DEF Insert, Ingest, Synced, SyncFails, CallLost, listings,
                        Answer, GiveUp, Goto, RowInv, TypeOK
    <2>3. ASSUME NEW t \in Tasks, Applying(t)' PROVE apply'[t].ev \in row'
      <3>1. CASE Ingest(l)
        <4>1. l \in row /\ UNCHANGED row  BY <3>1 DEF Ingest, listings, RowInv
        <4>2. apply' = [apply EXCEPT ![l] = [at |-> "claim", ev |-> l]]  BY <3>1 DEF Ingest
        <4>3. t = l \/ apply'[t] = apply[t]  BY <4>2, AnalyticsTyped
        <4>4. t = l => apply'[t].ev = l  BY <4>2, AnalyticsTyped
        <4> QED  BY <2>3, <4>1, <4>3, <4>4 DEF Applying, RowInv
      <3>2. CASE UNCHANGED apply
        BY <3>2, <2>1, <2>3 DEF Applying, RowInv
      <3> QED  BY <1>1, <3>1, <3>2 DEF Insert, Synced, SyncFails, CallLost, analytics
    <2> QED  BY <2>1, <2>2, <2>3 DEF RowInv
  <1>2. ASSUME NEW l \in Listings, Publish(l) \/ SendEnds(l) PROVE RowInv'
    <2>1. l \in row  BY <1>2 DEF Publish, SendEnds, RowInv
    <2>2. UNCHANGED <<row, analytics>> /\ log' \in Produced(l) \cup {log, Append(log, l)}
      BY <1>2 DEF Publish, SendEnds
    <2>3. \A i \in 1 .. Len(log') : log'[i] \in row  BY <2>1, <2>2, LogRows
    <2>4. sending' \subseteq row  BY <1>2, <2>1 DEF Publish, SendEnds, RowInv
    <2>5. ASSUME NEW k \in Listings, call'[k].at \in {"sync", "late", "publish"} PROVE k \in row
      BY <1>2, <2>5 DEF Publish, SendEnds, Answer, RowInv, TypeOK
    <2> QED  BY <2>2, <2>3, <2>4, <2>5 DEF RowInv, analytics, Applying
  <1>3. ASSUME NEW t \in Tasks,
               \/ Claim(t) \/ Bump(t)
               \/ t \in Listings /\ TaskLost(t)
               \/ t \in Members /\ MemberLost(t)
        PROVE  RowInv'
    <2>1. /\ UNCHANGED <<listings, log>>
          /\ \/ Applying(t) /\ \E s \in {"bump", "ok", "failed"} : Become(t, s)
             \/ Become(t, "off")
      BY <1>3 DEF Claim, Bump, TaskLost, MemberLost, Applying
    <2>2. ASSUME NEW u \in Tasks, Applying(u)' PROVE apply'[u].ev \in row
      BY <2>1, <2>2, AnalyticsTyped DEF Become, Applying, RowInv, ApplyType
    <2>3. ASSUME NEW l \in Listings, counted'[l] # 0 PROVE l \in row
      <3>1. CASE counted[l] # 0
        BY <3>1 DEF RowInv
      <3>2. CASE counted[l] = 0
        <4>1. Bump(t) /\ l = apply[t].ev
          BY <1>3, <2>3, <3>2, AnalyticsTyped DEF Claim, Bump, TaskLost, MemberLost
        <4> QED  BY <4>1 DEF Bump, Applying, RowInv
      <3> QED  BY <3>1, <3>2
    <2> QED  BY <2>1, <2>2, <2>3 DEF RowInv, listings
  <1>4. ASSUME NEW m \in Members, Fetch(m) PROVE RowInv'
    <2>1. m \in Tasks /\ log[pos + 1] \in row
      BY <1>4 DEF Fetch, RowInv, TypeOK, Tasks
    <2>2. ASSUME NEW u \in Tasks, Applying(u)' PROVE apply'[u].ev \in row
      BY <1>4, <2>1, <2>2 DEF Fetch, Applying, RowInv, TypeOK
    <2> QED  BY <1>4, <2>2 DEF Fetch, RowInv, listings
  <1>5. ASSUME NEW m \in Members, Resolve(m) PROVE RowInv'
    <2>1. ASSUME NEW u \in Tasks, Applying(u)' PROVE apply'[u].ev \in row
      BY <1>5, <2>1 DEF Resolve, Become, Applying, RowInv, TypeOK
    <2> QED  BY <1>5, <2>1 DEF Resolve, RowInv, listings
  <1>6. CASE Revoke \/ UNCHANGED vars \/ \E m \in Members : Assign(m)
    BY <1>6 DEF Revoke, Assign, vars, listings, analytics, RowInv, Applying
  <1> QED  BY <1>1, <1>2, <1>3, <1>4, <1>5, <1>6 DEF Next, Tasks

-----------------------------------------------------------------------------
(* The claim.                                                              *)

\* A counted event is claimed and nobody counts it; one counts it at a time.
CountInv ==
    /\ \A l \in Listings : counted[l] <= 1
    /\ \A l \in Listings : counted[l] # 0 => l \in claimed
    /\ \A t \in Tasks : apply[t].at = "bump" =>
          apply[t].ev \in claimed /\ counted[apply[t].ev] = 0
    /\ \A t, u \in Tasks : apply[t].at = "bump" /\ apply[u].at = "bump"
                            /\ apply[t].ev = apply[u].ev => t = u

\* What is not counted further and not newly claimed stays as it is.
LEMMA NoNewBump ==
  ASSUME CountInv, UNCHANGED counted, claimed \subseteq claimed',
         \A t \in Tasks : apply'[t].at = "bump" => apply'[t] = apply[t]
  PROVE  CountInv'
  BY DEF CountInv

LEMMA CountStep == TypeOK /\ CountInv /\ [Next]_vars => CountInv'
  <1> SUFFICES ASSUME TypeOK, CountInv, [Next]_vars PROVE CountInv'
    OBVIOUS
  <1>1. ASSUME NEW t \in Tasks, Claim(t) PROVE CountInv'
    <2> DEFINE e == apply[t].ev
    <2>0. e \in Listings  BY DEF TypeOK
    <2>1. CASE e \notin claimed /\ claimed' = claimed \cup {e} /\ Become(t, "bump")
      <3>1. counted[e] = 0 /\ UNCHANGED counted  BY <1>1, <2>0, <2>1 DEF CountInv, Claim
      <3>2. \A u \in Tasks : apply[u].at = "bump" => apply[u].ev # e
        BY <2>1 DEF CountInv
      <3>3. apply'[t].at = "bump" /\ apply'[t].ev = e
            /\ \A u \in Tasks \ {t} : apply'[u] = apply[u]
        BY <2>1 DEF Become, TypeOK
      <3> HIDE DEF e
      <3> QED  BY <2>0, <2>1, <3>1, <3>2, <3>3 DEF CountInv
    <2>2. CASE Become(t, "ok") /\ claimed \subseteq claimed'
      <3>1. \A u \in Tasks : apply'[u].at = "bump" => apply'[u] = apply[u]
        BY <2>2 DEF Become, TypeOK
      <3> QED  BY <1>1, <2>2, <3>1, NoNewBump DEF Claim
    <2> QED  BY <1>1, <2>1, <2>2 DEF Claim
  <1>2. ASSUME NEW t \in Tasks, Bump(t) PROVE CountInv'
    <2> DEFINE e == apply[t].ev
    <2>0. e \in Listings /\ e \in claimed /\ counted[e] = 0
      BY <1>2 DEF TypeOK, CountInv, Bump
    <2>1. counted'[e] \in {0, 1} /\ \A l \in Listings \ {e} : counted'[l] = counted[l]
      BY <1>2, <2>0 DEF Bump, TypeOK
    <2>2. \A u \in Tasks \ {t} : apply[u].at = "bump" => apply[u].ev # e
      BY <1>2 DEF CountInv, Bump
    <2>3. apply'[t].at # "bump" /\ \A u \in Tasks \ {t} : apply'[u] = apply[u]
      BY <1>2 DEF Bump, Become, TypeOK
    <2>4. claimed' = claimed  BY <1>2 DEF Bump
    <2>5. \A u \in Tasks : apply[u].ev \in Listings  BY DEF TypeOK
    <2> HIDE DEF e
    <2> QED  BY <2>0, <2>1, <2>2, <2>3, <2>4, <2>5 DEF CountInv
  <1>3. ASSUME NEW t \in Tasks, TaskLost(t) \/ MemberLost(t) PROVE CountInv'
    <2>1. \A u \in Tasks : apply'[u].at = "bump" => apply'[u] = apply[u]
      BY <1>3 DEF TaskLost, MemberLost, Become, TypeOK
    <2> QED  BY <1>3, <2>1, NoNewBump DEF TaskLost, MemberLost
  <1>4. ASSUME NEW l \in Listings, Ingest(l) PROVE CountInv'
    <2>1. \A u \in Tasks : apply'[u].at = "bump" => apply'[u] = apply[u]
      BY <1>4 DEF Ingest, TypeOK
    <2> QED  BY <1>4, <2>1, NoNewBump DEF Ingest
  <1>5. ASSUME NEW m \in Members, Fetch(m) \/ Resolve(m) PROVE CountInv'
    <2>1. \A u \in Tasks : apply'[u].at = "bump" => apply'[u] = apply[u]
      BY <1>5 DEF Fetch, Resolve, Become, TypeOK
    <2> QED  BY <1>5, <2>1, NoNewBump DEF Fetch, Resolve
  <1>6. CASE UNCHANGED analytics
    BY <1>6, NoNewBump DEF analytics
  <1> QED  BY <1>1, <1>2, <1>3, <1>4, <1>5, <1>6
           DEF Next, Tasks, Insert, Synced, SyncFails, Publish, SendEnds, CallLost, Assign, Revoke, vars

-----------------------------------------------------------------------------
(* What the group leaves behind.                                           *)

\* Something has become of every claimed event.
Settled(l) == l \in claimed =>
    \/ counted[l] = 1
    \/ l \in missed
    \/ \E t \in Tasks : apply[t] = [at |-> "bump", ev |-> l]

\* A member that is done with an event has seen it claimed or has missed it.
DoneOK == \A m \in Members : apply[m].at \in {"ok", "failed"} =>
    apply[m].ev \in claimed \cup missed

\* The owner works at the event that follows the position.
OwnerOK == owner \in Members /\ apply[owner].at # "off" =>
    pos < Len(log) /\ apply[owner].ev = log[pos + 1]

\* The position is within the topic, the committed offset never ahead of it.
OffsetsOK == pos <= Len(log) /\ (committed # NoOffset => committed <= pos)

\* What the group has behind it was claimed or missed.
BehindOK == \A i \in 1 .. pos : log[i] \in claimed \cup missed

PassInv ==
    /\ OffsetsOK /\ BehindOK /\ DoneOK /\ OwnerOK
    /\ \A l \in Listings : Settled(l)

\* The topic only grows.
LEMMA LogGrows ==
  ASSUME TypeOK, NEW l \in Listings, log' \in Produced(l) \cup {log, Append(log, l)}
  PROVE  Len(log) <= Len(log') /\ \A i \in 1 .. Len(log) : log'[i] = log[i]
  <1>1. ASSUME NEW s \in Seq(Listings)
        PROVE  /\ Append(s, l) \in Seq(Listings) /\ Len(Append(s, l)) = Len(s) + 1
               /\ \A i \in 1 .. Len(s) : Append(s, l)[i] = s[i]
    OBVIOUS
  <1>2. log \in Seq(Listings)  BY DEF TypeOK
  <1> DEFINE one == Append(log, l)
             two == Append(one, l)
  <1>3. one \in Seq(Listings) /\ Len(one) = Len(log) + 1
        /\ \A i \in 1 .. Len(log) : one[i] = log[i]
    BY <1>1, <1>2
  <1>4. Len(two) = Len(one) + 1 /\ \A i \in 1 .. Len(one) : two[i] = one[i]
    BY <1>1, <1>3
  <1>5. log' \in {log, one, two}  BY DEF Produced
  <1>6. Len(log) \in Nat  BY <1>2
  <1> HIDE DEF one, two
  <1> QED  BY <1>3, <1>4, <1>5, <1>6

\* A step of the listings side, which leaves the analytics and the group alone.
LEMMA PassTopic ==
  ASSUME TypeOK, PassInv, UNCHANGED <<analytics, group>>, missed \subseteq missed',
         Len(log') \in Nat, Len(log) <= Len(log'),
         \A i \in 1 .. Len(log) : log'[i] = log[i]
  PROVE  PassInv'
  <1>1. pos \in Nat /\ pos <= Len(log) /\ Len(log) \in Nat
    BY DEF TypeOK, PassInv, OffsetsOK
  <1>2. OffsetsOK'  BY <1>1 DEF PassInv, OffsetsOK, group
  <1>3. BehindOK'  BY <1>1 DEF PassInv, BehindOK, group, analytics
  <1>4. DoneOK'  BY DEF PassInv, DoneOK, analytics
  <1>5. OwnerOK'  BY <1>1 DEF PassInv, OwnerOK, group, analytics
  <1>6. ASSUME NEW l \in Listings PROVE Settled(l)'
    BY DEF PassInv, Settled, analytics
  <1> QED  BY <1>2, <1>3, <1>4, <1>5, <1>6 DEF PassInv

\* Only the task that goes on changes.
LEMMA OneGoesOn ==
  ASSUME TypeOK, NEW t \in Tasks, NEW s \in {"off", "bump", "ok", "failed"}, Become(t, s)
  PROVE  /\ apply'[t].at = s /\ apply'[t].ev = apply[t].ev
         /\ apply'[t] = [at |-> s, ev |-> apply[t].ev]
         /\ \A u \in Tasks \ {t} : apply'[u] = apply[u]
  BY DEF Become, TypeOK

\* A task goes on or stops, at the same event, and leaves the position where it is.
LEMMA PassTask ==
  ASSUME TypeOK, PassInv, NEW t \in Tasks,
         NEW s \in {"off", "bump", "ok", "failed"}, Become(t, s),
         s = "off" \/ apply[t].at # "off",
         UNCHANGED <<log, pos, committed>>, owner' \in {owner, NoMember},
         claimed \subseteq claimed', missed \subseteq missed',
         t \in Members /\ s \in {"ok", "failed"} => apply[t].ev \in claimed' \cup missed',
         \A l \in Listings : Settled(l)'
  PROVE  PassInv'
  <1>1. /\ apply'[t].at = s /\ apply'[t].ev = apply[t].ev
        /\ \A u \in Tasks \ {t} : apply'[u] = apply[u]
    BY OneGoesOn
  <1>2. OffsetsOK' /\ BehindOK'  BY DEF PassInv, OffsetsOK, BehindOK
  <1>3. DoneOK'  BY <1>1 DEF PassInv, DoneOK, Tasks
  <1>4. OwnerOK'
    <2>1. CASE owner' \notin Members
      BY <2>1 DEF OwnerOK
    <2>2. CASE owner' = owner /\ owner \in Members
      <3>1. owner \in Tasks  BY <2>2 DEF Tasks
      <3>2. apply'[owner].ev = apply[owner].ev /\ (apply'[owner].at # "off" => apply[owner].at # "off")
        BY <1>1, <3>1
      <3> QED  BY <2>2, <3>2 DEF PassInv, OwnerOK
    <2> QED  BY <2>1, <2>2
  <1> QED  BY <1>2, <1>3, <1>4 DEF PassInv

LEMMA PassStep == TypeOK /\ CountInv /\ PassInv /\ [Next]_vars => PassInv'
  <1> SUFFICES ASSUME TypeOK, CountInv, PassInv, [Next]_vars PROVE PassInv'
    OBVIOUS
  <1>0. log \in Seq(Listings) /\ Len(log) \in Nat /\ pos \in Nat
    BY DEF TypeOK
  <1>1. ASSUME NEW l \in Listings, Insert(l) \/ Synced(l) \/ SyncFails(l) \/ CallLost(l)
        PROVE  PassInv'
    <2>1. UNCHANGED <<log, analytics, group>> /\ missed \subseteq missed'
      BY <1>1 DEF Insert, Synced, SyncFails, CallLost
    <2> QED  BY <1>0, <2>1, PassTopic
  <1>2. ASSUME NEW l \in Listings, Publish(l) \/ SendEnds(l) PROVE PassInv'
    <2>1. UNCHANGED <<analytics, group>> /\ missed \subseteq missed'
          /\ log' \in Produced(l) \cup {log, Append(log, l)}
      BY <1>2 DEF Publish, SendEnds
    <2>2. log' \in Seq(Listings)  BY <1>0, <2>1, LogTyped
    <2> QED  BY <2>1, <2>2, LogGrows, PassTopic
  <1>3. ASSUME NEW l \in Listings, Ingest(l) PROVE PassInv'
    <2>1. apply'[l].at = "claim" /\ \A u \in Tasks \ {l} : apply'[u] = apply[u]
      BY <1>3 DEF Ingest, TypeOK, Tasks
    <2>2. UNCHANGED <<log, claimed, counted, group, missed>> /\ l \notin Members
      BY <1>3, TasksAssumption DEF Ingest, listings
    <2>3. DoneOK' /\ OwnerOK'
      BY <2>1, <2>2 DEF PassInv, DoneOK, OwnerOK, group, Tasks
    <2>4. ASSUME NEW k \in Listings PROVE Settled(k)'
      <3>1. apply[l].at = "off"  BY <1>3 DEF Ingest
      <3>2. \A t \in Tasks : apply[t] = [at |-> "bump", ev |-> k] => t # l
        BY <3>1
      <3> QED  BY <2>1, <2>2, <3>2 DEF PassInv, Settled
    <2> QED  BY <2>2, <2>3, <2>4 DEF PassInv, OffsetsOK, BehindOK, group
  <1>4. ASSUME NEW t \in Tasks, Claim(t) PROVE PassInv'
    <2>1. \A u \in Tasks \ {t} : apply'[u] = apply[u]
      BY <1>4, OneGoesOn DEF Claim
    <2>2. PICK e \in Listings : e = apply[t].ev  BY DEF TypeOK
    <2>3. apply[t].at = "claim" /\ UNCHANGED <<log, counted, group>>
      BY <1>4 DEF Claim, listings
    <2>4. ASSUME NEW l \in Listings, Settled(l), (l \in claimed' => l \in claimed), missed \subseteq missed'
          PROVE  Settled(l)'
      <3>1. \A u \in Tasks : apply[u] = [at |-> "bump", ev |-> l] => u # t
        BY <2>3
      <3> QED  BY <2>1, <2>3, <2>4, <3>1 DEF Settled
    <2>5. CASE e \notin claimed /\ claimed' = claimed \cup {e} /\ Become(t, "bump") /\ UNCHANGED missed
      <3>1. apply'[t] = [at |-> "bump", ev |-> e]
        BY <2>2, <2>5, OneGoesOn
      <3>2. Settled(e)'  BY <3>1 DEF Settled
      <3>3. ASSUME NEW l \in Listings \ {e} PROVE Settled(l)'
        BY <2>4, <2>5, <3>3 DEF PassInv
      <3> QED  BY <2>2, <2>3, <2>5, <3>2, <3>3, PassTask DEF group
    <2>6. CASE e \in claimed /\ Become(t, "ok") /\ UNCHANGED <<claimed, missed>>
      <3>1. ASSUME NEW l \in Listings PROVE Settled(l)'
        BY <2>4, <2>6, <3>1 DEF PassInv
      <3> QED  BY <2>2, <2>3, <2>6, <3>1, PassTask DEF group
    <2>7. CASE /\ claimed' \in {claimed, claimed \cup {e}} /\ missed' = missed \cup {e}
               /\ Become(t, "ok")
      <3>1. Settled(e)'  BY <2>7 DEF Settled
      <3>2. ASSUME NEW l \in Listings \ {e} PROVE Settled(l)'
        BY <2>4, <2>7, <3>2 DEF PassInv
      <3> QED  BY <2>2, <2>3, <2>7, <3>1, <3>2, PassTask DEF group
    <2> QED  BY <1>4, <2>2, <2>5, <2>6, <2>7 DEF Claim
  <1>5. ASSUME NEW t \in Tasks, Bump(t) PROVE PassInv'
    <2> DEFINE e == apply[t].ev
    <2>1. \A u \in Tasks \ {t} : apply'[u] = apply[u]
      BY <1>5, OneGoesOn DEF Bump
    <2>2. e \in Listings /\ e \in claimed /\ counted[e] = 0
      BY <1>5 DEF TypeOK, CountInv, Bump
    <2>3. /\ apply[t].at = "bump" /\ UNCHANGED <<log, claimed, group>>
          /\ missed \subseteq missed'
          /\ \E s \in {"ok", "failed"} : Become(t, s)
      BY <1>5 DEF Bump, listings
    <2>4. counted'[e] = 1 \/ e \in missed'
      BY <1>5, <2>2 DEF Bump, TypeOK
    <2>5. ASSUME NEW l \in Listings \ {e} PROVE Settled(l)'
      <3>1. counted'[l] = counted[l]  BY <1>5, <2>2 DEF Bump, TypeOK
      <3>2. \A u \in Tasks : apply[u] = [at |-> "bump", ev |-> l] => u # t
        OBVIOUS
      <3> QED  BY <2>1, <2>3, <3>1, <3>2 DEF PassInv, Settled
    <2>6. \A l \in Listings : Settled(l)'
      BY <2>4, <2>5 DEF Settled
    <2> QED  BY <2>2, <2>3, <2>6, PassTask DEF group
  <1>6. ASSUME NEW t \in Tasks,
               \/ t \in Listings /\ TaskLost(t)
               \/ t \in Members /\ MemberLost(t)
        PROVE  PassInv'
    <2> DEFINE e == apply[t].ev
    <2>1. \A u \in Tasks \ {t} : apply'[u] = apply[u]
      BY <1>6, OneGoesOn DEF TaskLost, MemberLost
    <2>2. /\ missed \subseteq missed'
          /\ UNCHANGED <<log, claimed, counted, pos, committed>>
          /\ owner' \in {owner, NoMember}
          /\ apply[t].at = "bump" => e \in missed'
      BY <1>6 DEF TaskLost, MemberLost, listings, group
    <2>3. ASSUME NEW l \in Listings PROVE Settled(l)'
      <3>1. CASE apply[t] = [at |-> "bump", ev |-> l]
        BY <2>2, <3>1 DEF Settled
      <3>2. CASE apply[t] # [at |-> "bump", ev |-> l]
        BY <2>1, <2>2, <3>2 DEF PassInv, Settled
      <3> QED  BY <3>1, <3>2
    <2>4. CASE t \in Members /\ MemberLost(t)
      <3>1. Become(t, "off")  BY <2>4 DEF MemberLost
      <3> QED  BY <2>2, <2>3, <3>1, PassTask
    <2>5. CASE t \in Listings /\ TaskLost(t)
      <3>1. Become(t, "failed") /\ apply[t].at # "off" /\ t \notin Members
        BY <2>5, TasksAssumption DEF TaskLost
      <3> QED  BY <2>2, <2>3, <3>1, PassTask
    <2> QED  BY <1>6, <2>4, <2>5
  <1>7. ASSUME NEW m \in Members, Assign(m) PROVE PassInv'
    <2>1. /\ UNCHANGED <<log, analytics, committed>> /\ owner' = m /\ apply[m].at = "off"
          /\ missed \subseteq missed'
      BY <1>7 DEF Assign, listings
    <2>2. OwnerOK' /\ DoneOK'  BY <2>1 DEF OwnerOK, PassInv, DoneOK, analytics
    <2>3. \A l \in Listings : Settled(l)'  BY <2>1 DEF PassInv, Settled, analytics
    <2>4. OffsetsOK' /\ BehindOK'
      <3>1. CASE committed = NoOffset
        <4>1. pos' = Len(log) /\ missed' = missed \cup {log[i] : i \in (pos + 1) .. Len(log)}
          BY <1>7, <3>1 DEF Assign
        <4>2. ASSUME NEW i \in 1 .. Len(log) PROVE log[i] \in claimed \cup missed'
          <5>1. CASE i \in 1 .. pos
            BY <5>1, <2>1 DEF PassInv, BehindOK
          <5>2. CASE i \in (pos + 1) .. Len(log)
            BY <5>2, <4>1
          <5> QED  BY <1>0, <5>1, <5>2
        <4> QED  BY <1>0, <2>1, <3>1, <4>1, <4>2 DEF OffsetsOK, BehindOK, analytics
      <3>2. CASE committed # NoOffset
        <4>1. pos' = committed /\ missed' = missed  BY <1>7, <3>2 DEF Assign
        <4>2. committed \in Nat /\ committed <= pos /\ pos <= Len(log)
          BY <3>2 DEF TypeOK, PassInv, OffsetsOK
        <4>3. OffsetsOK'  BY <1>0, <2>1, <4>1, <4>2 DEF OffsetsOK
        <4>4. BehindOK'  BY <1>0, <2>1, <4>1, <4>2 DEF PassInv, BehindOK, analytics
        <4> QED  BY <4>3, <4>4
      <3> QED  BY <3>1, <3>2
    <2> QED  BY <2>2, <2>3, <2>4 DEF PassInv
  <1>8. CASE Revoke
    BY <1>8 DEF Revoke, listings, analytics, PassInv, OffsetsOK, BehindOK, DoneOK, OwnerOK, Settled
  <1>9. ASSUME NEW m \in Members, Fetch(m) PROVE PassInv'
    <2>0. m \in Tasks  BY DEF Tasks
    <2>1. /\ apply'[m] = [at |-> "claim", ev |-> log[pos + 1]]
          /\ \A u \in Tasks \ {m} : apply'[u] = apply[u]
      BY <1>9, <2>0 DEF Fetch, TypeOK
    <2>2. UNCHANGED <<log, claimed, counted, group, missed>> /\ owner = m
          /\ pos < Len(log) /\ apply[m].at = "off"
      BY <1>9 DEF Fetch, listings
    <2>3. OwnerOK'  BY <2>1, <2>2 DEF OwnerOK, group
    <2>4. DoneOK'  BY <2>1, <2>2 DEF PassInv, DoneOK, Tasks
    <2>5. ASSUME NEW l \in Listings PROVE Settled(l)'
      <3>1. \A u \in Tasks : apply[u] = [at |-> "bump", ev |-> l] => u # m
        BY <2>2
      <3> QED  BY <2>1, <2>2, <3>1 DEF PassInv, Settled
    <2> QED  BY <2>2, <2>3, <2>4, <2>5 DEF PassInv, OffsetsOK, BehindOK, group
  <1>10. ASSUME NEW m \in Members, Resolve(m) PROVE PassInv'
    <2>0. m \in Tasks  BY DEF Tasks
    <2>1. /\ apply'[m].at = "off" /\ apply[m].at \in {"ok", "failed"}
          /\ \A u \in Tasks \ {m} : apply'[u] = apply[u]
      BY <1>10, <2>0 DEF Resolve, Become, TypeOK
    <2>2. UNCHANGED <<log, claimed, counted, owner, missed>>
      BY <1>10 DEF Resolve, listings
    <2>3. DoneOK'  BY <2>1, <2>2 DEF PassInv, DoneOK, Tasks
    <2>4. ASSUME NEW l \in Listings PROVE Settled(l)'
      <3>1. \A u \in Tasks : apply[u] = [at |-> "bump", ev |-> l] => u # m
        BY <2>1
      <3> QED  BY <2>1, <2>2, <3>1 DEF PassInv, Settled
    <2>5. OffsetsOK' /\ BehindOK' /\ OwnerOK'
      <3>1. CASE owner = m
        <4>1. pos' = pos + 1 /\ committed' \in {committed, pos + 1}
          BY <1>10, <3>1 DEF Resolve
        <4>2. pos < Len(log) /\ log[pos + 1] \in claimed \cup missed
          BY <2>1, <3>1 DEF PassInv, OwnerOK, DoneOK
        <4>3. committed \in Nat \cup {NoOffset} /\ (committed # NoOffset => committed <= pos)
          BY DEF TypeOK, PassInv, OffsetsOK
        <4>4. OffsetsOK'  BY <1>0, <2>2, <4>1, <4>2, <4>3 DEF OffsetsOK
        <4>5. ASSUME NEW i \in 1 .. pos + 1 PROVE log[i] \in claimed \cup missed
          <5>1. i \in 1 .. pos \/ i = pos + 1  BY <1>0
          <5> QED  BY <5>1, <4>2 DEF PassInv, BehindOK
        <4>6. BehindOK'  BY <2>2, <4>1, <4>5 DEF BehindOK
        <4>7. OwnerOK'  BY <2>1, <2>2, <3>1 DEF OwnerOK
        <4> QED  BY <4>4, <4>6, <4>7
      <3>2. CASE owner # m
        <4>1. UNCHANGED <<pos, committed>>  BY <1>10, <3>2 DEF Resolve
        <4>2. owner \in Members => apply'[owner] = apply[owner]
          BY <2>1, <3>2 DEF Tasks
        <4> QED  BY <2>2, <4>1, <4>2 DEF PassInv, OffsetsOK, BehindOK, OwnerOK
      <3> QED  BY <3>1, <3>2
    <2> QED  BY <2>3, <2>4, <2>5 DEF PassInv
  <1>11. CASE UNCHANGED vars
    BY <1>0, <1>11, PassTopic DEF vars, listings
  <1>12. ASSUME NEW l \in Listings, TaskLost(l) PROVE PassInv'
    BY <1>12, <1>6 DEF Tasks
  <1>13. ASSUME NEW m \in Members, MemberLost(m) PROVE PassInv'
    BY <1>13, <1>6 DEF Tasks
  <1>14. CASE \E l \in Listings :
               \/ Insert(l)   \/ Ingest(l)   \/ Synced(l) \/ SyncFails(l)
               \/ Publish(l)  \/ SendEnds(l) \/ CallLost(l)
               \/ TaskLost(l)
    BY <1>14, <1>1, <1>2, <1>3, <1>12
  <1>15. CASE \E m \in Members : MemberLost(m) \/ Assign(m) \/ Fetch(m) \/ Resolve(m)
    BY <1>15, <1>7, <1>9, <1>10, <1>13
  <1> QED  BY <1>4, <1>5, <1>8, <1>11, <1>14, <1>15 DEF Next

\* However often an event is posted, published, delivered and applied, it is
\* counted once at most, and never without its listing; and the group passes
\* over none that is not counted, unless a step that nobody repeats has failed.
THEOREM ListingsCountOnce == Spec => []CountedOnce
  <1>1. Init => RowInv /\ CountInv
    BY DEF Init, RowInv, CountInv, Idle, Applying
  <1>2. Init => PassInv
    BY DEF Init, PassInv, OffsetsOK, BehindOK, DoneOK, OwnerOK, Settled, Tasks
  <1>3. ASSUME TypeOK, RowInv, CountInv, PassInv PROVE CountedOnce
    <2>1. ASSUME NEW l \in Listings PROVE counted[l] <= 1 /\ (counted[l] = 1 => l \in row)
      BY <1>3 DEF RowInv, CountInv, TypeOK
    <2>2. ASSUME NEW i \in 1 .. pos, log[i] \notin missed
          PROVE  counted[log[i]] = 1 \/ \E t \in Tasks : apply[t] = [at |-> "bump", ev |-> log[i]]
      <3>1. i \in 1 .. Len(log) /\ log[i] \in claimed
        BY <1>3, <2>2 DEF PassInv, BehindOK, OffsetsOK, TypeOK
      <3>2. log[i] \in Listings  BY <1>3, <3>1 DEF TypeOK
      <3>3. Settled(log[i])  BY <1>3, <3>2 DEF PassInv
      <3> QED  BY <2>2, <3>1, <3>3 DEF Settled
    <2> QED  BY <2>1, <2>2 DEF CountedOnce, AtMostOnce, NonePassedOver
  <1> QED  BY <1>1, <1>2, <1>3, TypeInit, TypeStep, RowStep, CountStep, PassStep, PTL DEF Spec
=============================================================================
