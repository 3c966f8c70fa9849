------------------------ MODULE SingleFlight_proofs ------------------------
(* Proofs about SingleFlight: types, and whom the lock keeps out. *)
EXTENDS SingleFlight, TLAPS

-----------------------------------------------------------------------------
(* Types.                                                                  *)

LEMMA TypeInit == Init => TypeOK
  BY DEF Init, TypeOK, ReadType, Fresh

\* What Goto, Return and EndOf make of the reads.
LEMMA ReturnTyped ==
  ASSUME TypeOK, NEW r \in Reads, NEW v \in Cacheable \cup {NoValue}, Return(r, v)
  PROVE  /\ read' \in [Reads -> ReadType]
         /\ \A q \in Reads : read'[q].at = "store" => read'[q].val \in Cacheable
  <1>1. [read[r] EXCEPT !.at = "done", !.val = v] \in ReadType
    BY DEF TypeOK, ReadType
  <1> QED  BY <1>1 DEF TypeOK, Return, ReadType

LEMMA GotoTyped ==
  ASSUME TypeOK, NEW r \in Reads,
         NEW s \in {"script", "get", "setnx", "pexpire", "sleep", "compute"}, Goto(r, s)
  PROVE  /\ read' \in [Reads -> ReadType]
         /\ \A q \in Reads : read'[q].at = "store" => read'[q].val \in Cacheable
  <1>1. [read[r] EXCEPT !.at = s] \in ReadType
    BY DEF TypeOK, ReadType
  <1> QED  BY <1>1 DEF TypeOK, Goto, ReadType

LEMMA EndTyped ==
  ASSUME TypeOK, NEW p, EndOf(p)
  PROVE  /\ read' \in [Reads -> ReadType]
         /\ \A q \in Reads : read'[q].at = "store" => read'[q].val \in Cacheable
  <1>1. ASSUME NEW q \in Reads
        PROVE  /\ [read[q] EXCEPT !.at = "done", !.val = NoValue] \in ReadType
               /\ [read[q] EXCEPT !.at = "done", !.val = NoValue].at # "store"
    BY DEF TypeOK, ReadType
  <1> QED  BY <1>1 DEF TypeOK, EndOf

LEMMA TypeStep == TypeOK /\ [Next]_vars => TypeOK'
  <1> SUFFICES ASSUME TypeOK, [Next]_vars PROVE TypeOK'
    OBVIOUS
  <1> DEFINE Typed == /\ read' \in [Reads -> ReadType]
                      /\ \A q \in Reads : read'[q].at = "store" => read'[q].val \in Cacheable
  <1>0. ASSUME NEW f, NEW r \in Reads, f \in ReadType,
               f.at = "store" => f.val \in Cacheable, read' = [read EXCEPT ![r] = f]
        PROVE  Typed
    BY <1>0 DEF TypeOK
  <1>1. ASSUME NEW r \in Reads, Begin(r) PROVE TypeOK'
    BY <1>1, GotoTyped DEF TypeOK, Begin, redis
  <1>2. ASSUME NEW r \in Reads, Script(r) PROVE TypeOK'
    <2>1. CASE Return(r, entry) /\ UNCHANGED redis
      BY <2>1, <1>2, ReturnTyped DEF TypeOK, Script, redis
    <2>2. ASSUME lock' = "held", UNCHANGED entry,
                 read' = [read EXCEPT ![r].at = "get", ![r].state = "miss-locked", ![r].haveLock = TRUE]
          PROVE  TypeOK'
      <3> DEFINE f == [read[r] EXCEPT !.at = "get", !.state = "miss-locked", !.haveLock = TRUE]
      <3>1. f \in ReadType /\ f.at # "store"  BY DEF TypeOK, ReadType
      <3>2. read' = [read EXCEPT ![r] = f]  BY <2>2
      <3> HIDE DEF f
      <3>3. Typed  BY <3>1, <3>2, <1>0
      <3> QED  BY <3>3, <2>2, <1>2 DEF TypeOK, Script
    <2>3. ASSUME UNCHANGED redis,
                 read' = [read EXCEPT ![r].at = "get", ![r].state = "miss-wait"]
          PROVE  TypeOK'
      <3> DEFINE f == [read[r] EXCEPT !.at = "get", !.state = "miss-wait"]
      <3>1. f \in ReadType /\ f.at # "store"  BY DEF TypeOK, ReadType
      <3>2. read' = [read EXCEPT ![r] = f]  BY <2>3
      <3> HIDE DEF f
      <3>3. Typed  BY <3>1, <3>2, <1>0
      <3> QED  BY <3>3, <2>3, <1>2 DEF TypeOK, Script, redis
    <2> QED  BY <1>2, <2>1, <2>2, <2>3 DEF Script
  <1>3. ASSUME NEW r \in Reads, ScriptFails(r) PROVE TypeOK'
    BY <1>3, GotoTyped DEF TypeOK, ScriptFails
  <1>4. ASSUME NEW r \in Reads, GetEntry(r) PROVE TypeOK'
    BY <1>4, GotoTyped, ReturnTyped DEF TypeOK, GetEntry, redis
  <1>5. ASSUME NEW r \in Reads, SetNx(r) PROVE TypeOK'
    <2>1. CASE lock = "free"
      <3> DEFINE f == [read[r] EXCEPT !.at = "pexpire", !.haveLock = TRUE]
      <3>1. f \in ReadType /\ f.at # "store"  BY DEF TypeOK, ReadType
      <3>2. read' = [read EXCEPT ![r] = f]  BY <2>1, <1>5 DEF SetNx
      <3> HIDE DEF f
      <3>3. Typed  BY <3>1, <3>2, <1>0
      <3> QED  BY <3>3, <2>1, <1>5 DEF TypeOK, SetNx
    <2>2. CASE lock # "free"
      BY <2>2, <1>5, GotoTyped DEF TypeOK, SetNx
    <2> QED  BY <2>1, <2>2
  <1>6. ASSUME NEW r \in Reads, PExpire(r) PROVE TypeOK'
    BY <1>6, GotoTyped DEF TypeOK, PExpire
  <1>7. ASSUME NEW r \in Reads, GetAgain(r) PROVE TypeOK'
    BY <1>7, GotoTyped, ReturnTyped DEF TypeOK, GetAgain, redis
  <1>8. ASSUME NEW r \in Reads, Compute(r) PROVE TypeOK'
    <2> DEFINE v == IF r \in Stubs THEN Placeholder ELSE data
    <2>1. CASE v = NoValue
      BY <2>1, <1>8, EndTyped DEF TypeOK, Compute, redis
    <2>2. CASE v # NoValue
      <3> DEFINE f == [read[r] EXCEPT !.at = "store", !.val = v]
      <3>1. v \in Cacheable  BY <2>2 DEF TypeOK, Cacheable
      <3>2. read' = [read EXCEPT ![r] = f]  BY <2>2, <1>8 DEF Compute
      <3> HIDE DEF v
      <3>4. f \in ReadType /\ f.val \in Cacheable  BY <3>1 DEF TypeOK, ReadType
      <3> HIDE DEF f
      <3>3. Typed  BY <3>2, <3>4, <1>0
      <3> QED  BY <3>3, <1>8 DEF TypeOK, Compute, redis
    <2> QED  BY <2>1, <2>2
  <1>9. ASSUME NEW r \in Reads, Store(r) PROVE TypeOK'
    BY <1>9, ReturnTyped DEF TypeOK, Store, redis
  <1>10. CASE EntryGone
    BY <1>10 DEF TypeOK, EntryGone
  <1>11. CASE LockExpires
    <2>1. ASSUME NEW q \in Reads PROVE [read[q] EXCEPT !.lost = @ \/ q \in Owners] \in ReadType
      <3> DEFINE b == read[q].lost \/ q \in Owners
      <3>1. b \in BOOLEAN  OBVIOUS
      <3> HIDE DEF b
      <3>2. [read[q] EXCEPT !.lost = b] \in ReadType  BY <3>1 DEF TypeOK, ReadType
      <3> QED  BY <3>2 DEF b
    <2>2. ASSUME NEW q \in Reads
          PROVE  /\ [read[q] EXCEPT !.lost = @ \/ q \in Owners].at = read[q].at
                 /\ [read[q] EXCEPT !.lost = @ \/ q \in Owners].val = read[q].val
      BY DEF TypeOK, ReadType
    <2>3. Typed  BY <2>1, <2>2, <1>11 DEF TypeOK, LockExpires
    <2> QED  BY <2>3, <1>11 DEF TypeOK, LockExpires
  <1>12. ASSUME NEW p \in Processes, Crash(p) PROVE TypeOK'
    BY <1>12, EndTyped DEF TypeOK, Crash, redis
  <1>13. CASE Change
    BY <1>13 DEF TypeOK, Change
  <1>15. ASSUME NEW r \in Reads, Rejected(r) PROVE TypeOK'
    <2>1. Typed
      BY <1>15, EndTyped, ReturnTyped DEF Rejected
    <2> QED  BY <1>15, <2>1 DEF TypeOK, Rejected, Lockable
  <1>14. CASE UNCHANGED vars
    BY <1>14 DEF TypeOK, vars, redis
  <1> QED  BY <1>1, <1>2, <1>3, <1>4, <1>5, <1>6, <1>7, <1>8, <1>9, <1>10, <1>11, <1>12, <1>13, <1>14,
              <1>15 DEF Next, CacheNext, Step

\* The types hold, and no read ever stores the absence of a row.
THEOREM CacheTypeCorrect == Spec => []TypeOK
  BY TypeInit, TypeStep, PTL DEF Spec

-----------------------------------------------------------------------------
(* The lock.                                                               *)

Lost == \E r \in Reads : read[r].lost

\* While nobody has lost it, the lock has one owner at most, and is taken.
LockInv == ~Lost => /\ \A r, s \in Owners : r = s
                    /\ \A r \in Owners : lock # "free"

\* A step that makes no new owner keeps LockInv unless it frees the lock.
LEMMA NoNewOwner ==
  ASSUME LockInv, Owners' \subseteq Owners, Lost => Lost',
         lock' = lock \/ lock' # "free"
  PROVE  LockInv'
  BY DEF LockInv

\* One read moves, and others stay owners or not.
LEMMA OneMoves ==
  ASSUME TypeOK, NEW r \in Reads, NEW f, read' = [read EXCEPT ![r] = f]
  PROVE  /\ f.lost = read[r].lost => (Lost => Lost')
         /\ Owners' \subseteq Owners \cup {r}
         /\ f.at = "done" \/ ~f.haveLock => Owners' \subseteq Owners \ {r}
         /\ (f.haveLock => r \in Owners) => Owners' \subseteq Owners
  BY DEF TypeOK, Lost, Owners, Running

LEMMA EndKeeps ==
  ASSUME TypeOK, NEW p, EndOf(p)
  PROVE  (Lost => Lost') /\ Owners' \subseteq Owners
  BY DEF TypeOK, ReadType, EndOf, Lost, Owners, Running

LEMMA GotoKeeps ==
  ASSUME TypeOK, NEW r \in Reads, NEW s, Goto(r, s), Running(r) \/ ~read[r].haveLock
  PROVE  (Lost => Lost') /\ Owners' \subseteq Owners
  <1> DEFINE f == [read[r] EXCEPT !.at = s]
  <1>1. read' = [read EXCEPT ![r] = f]  BY DEF Goto
  <1>2. f.lost = read[r].lost /\ f.haveLock = read[r].haveLock
    BY DEF TypeOK, ReadType
  <1> HIDE DEF f
  <1> QED  BY <1>1, <1>2, OneMoves DEF Owners

LEMMA ReturnKeeps ==
  ASSUME TypeOK, NEW r \in Reads, NEW v, Return(r, v)
  PROVE  (Lost => Lost') /\ Owners' \subseteq Owners \ {r}
  <1> DEFINE f == [read[r] EXCEPT !.at = "done", !.val = v]
  <1>1. read' = [read EXCEPT ![r] = f]  BY DEF Return
  <1>2. f.lost = read[r].lost /\ f.at = "done"
    BY DEF TypeOK, ReadType
  <1> HIDE DEF f
  <1> QED  BY <1>1, <1>2, OneMoves

\* A read that has not begun holds nothing.
IdleInv == \A r \in Reads : read[r].at = "idle" => ~read[r].haveLock

LEMMA IdleStep == TypeOK /\ IdleInv /\ [Next]_vars => IdleInv'
  <1> SUFFICES ASSUME TypeOK, IdleInv, [Next]_vars PROVE IdleInv'
    OBVIOUS
  <1> USE DEF TypeOK, IdleInv
  <1>1. ASSUME NEW r \in Reads, Begin(r) \/ Step(r) PROVE IdleInv'
    <2>1. CASE Compute(r) /\ EndOf(ProcessOf[r])
      BY <2>1 DEF EndOf, Running, ReadType
    <2> QED  BY <1>1, <2>1 DEF Begin, Step, Script, ScriptFails, GetEntry, SetNx, PExpire,
                               GetAgain, Compute, Store, Goto, Return, ReadType
  <1>2. CASE EntryGone \/ Change \/ UNCHANGED vars
    BY <1>2 DEF EntryGone, Change, vars
  <1>3. CASE LockExpires
    BY <1>3 DEF LockExpires, ReadType
  <1>4. ASSUME NEW p \in Processes, Crash(p) PROVE IdleInv'
    BY <1>4 DEF Crash, EndOf, Running, ReadType
  <1>5. ASSUME NEW r \in Reads, Rejected(r) PROVE IdleInv'
    <2>1. CASE Return(r, NoValue)
      BY <2>1 DEF Return, ReadType
    <2>2. CASE EndOf(ProcessOf[r])
      BY <2>2 DEF EndOf, Running, ReadType
    <2> QED  BY <1>5, <2>1, <2>2 DEF Rejected
  <1> QED  BY <1>1, <1>2, <1>3, <1>4, <1>5 DEF Next, CacheNext

LEMMA LockStep == TypeOK /\ IdleInv /\ LockInv /\ [Next]_vars => LockInv'
  <1> SUFFICES ASSUME TypeOK, IdleInv, LockInv, [Next]_vars PROVE LockInv'
    OBVIOUS
  \* The lock is taken by a read that finds it free.
  <1>0. ASSUME NEW r \in Reads, NEW f, read' = [read EXCEPT ![r] = f], f.lost = read[r].lost,
               lock = "free", lock' # "free"
        PROVE  LockInv'
    <2>1. (Lost => Lost') /\ Owners' \subseteq Owners \cup {r}
      BY <1>0, OneMoves
    <2>2. ~Lost' => Owners = {}
      BY <2>1, <1>0 DEF LockInv, Owners
    <2> QED  BY <2>1, <2>2, <1>0 DEF LockInv
  <1>1. ASSUME NEW r \in Reads, Begin(r) PROVE LockInv'
    BY <1>1, GotoKeeps, NoNewOwner DEF Begin, redis, IdleInv
  <1>2. ASSUME NEW r \in Reads, Script(r) PROVE LockInv'
    <2>1. CASE Return(r, entry) /\ UNCHANGED redis
      BY <2>1, ReturnKeeps, NoNewOwner DEF redis
    <2>2. ASSUME lock = "free", lock' = "held",
                 read' = [read EXCEPT ![r].at = "get", ![r].state = "miss-locked", ![r].haveLock = TRUE]
          PROVE  LockInv'
      <3> DEFINE f == [read[r] EXCEPT !.at = "get", !.state = "miss-locked", !.haveLock = TRUE]
      <3>1. f.lost = read[r].lost  BY DEF TypeOK, ReadType
      <3>2. read' = [read EXCEPT ![r] = f]  BY <2>2
      <3> HIDE DEF f
      <3> QED  BY <3>1, <3>2, <2>2, <1>0
    <2>3. ASSUME UNCHANGED redis,
                 read' = [read EXCEPT ![r].at = "get", ![r].state = "miss-wait"]
          PROVE  LockInv'
      <3> DEFINE f == [read[r] EXCEPT !.at = "get", !.state = "miss-wait"]
      <3>1. f.lost = read[r].lost /\ f.haveLock = read[r].haveLock  BY DEF TypeOK, ReadType
      <3>2. read' = [read EXCEPT ![r] = f]  BY <2>3
      <3>3. Running(r)  BY <1>2 DEF Script, Running
      <3> HIDE DEF f
      <3>4. (Lost => Lost') /\ Owners' \subseteq Owners
        BY <3>1, <3>2, <3>3, OneMoves DEF Owners
      <3> QED  BY <3>4, <2>3, NoNewOwner DEF redis
    <2> QED  BY <1>2, <2>1, <2>2, <2>3 DEF Script
  <1>3. ASSUME NEW r \in Reads, ScriptFails(r) PROVE LockInv'
    <2>1. Running(r)  BY <1>3 DEF ScriptFails, Running
    <2> QED  BY <1>3, <2>1, GotoKeeps, NoNewOwner DEF ScriptFails
  <1>4. ASSUME NEW r \in Reads, GetEntry(r) PROVE LockInv'
    <2>1. Running(r)  BY <1>4 DEF GetEntry, Running
    <2> QED  BY <1>4, <2>1, GotoKeeps, ReturnKeeps, NoNewOwner DEF GetEntry, redis
  <1>5. ASSUME NEW r \in Reads, SetNx(r) PROVE LockInv'
    <2>1. CASE lock = "free"
      <3> DEFINE f == [read[r] EXCEPT !.at = "pexpire", !.haveLock = TRUE]
      <3>1. f.lost = read[r].lost  BY DEF TypeOK, ReadType
      <3>2. read' = [read EXCEPT ![r] = f] /\ lock' = "stuck"  BY <2>1, <1>5 DEF SetNx
      <3> HIDE DEF f
      <3> QED  BY <3>1, <3>2, <2>1, <1>0
    <2>2. CASE lock # "free"
      <3>1. Running(r)  BY <1>5 DEF SetNx, Running
      <3> QED  BY <2>2, <3>1, <1>5, GotoKeeps, NoNewOwner DEF SetNx
    <2> QED  BY <2>1, <2>2
  <1>6. ASSUME NEW r \in Reads, PExpire(r) PROVE LockInv'
    <2>1. Running(r)  BY <1>6 DEF PExpire, Running
    <2> QED  BY <1>6, <2>1, GotoKeeps, NoNewOwner DEF PExpire
  <1>7. ASSUME NEW r \in Reads, GetAgain(r) PROVE LockInv'
    <2>1. Running(r)  BY <1>7 DEF GetAgain, Running
    <2> QED  BY <1>7, <2>1, GotoKeeps, ReturnKeeps, NoNewOwner DEF GetAgain, redis
  <1>8. ASSUME NEW r \in Reads, Compute(r) PROVE LockInv'
    <2> DEFINE v == IF r \in Stubs THEN Placeholder ELSE data
    <2>1. CASE v = NoValue
      BY <2>1, <1>8, EndKeeps, NoNewOwner DEF Compute, redis
    <2>2. CASE v # NoValue
      <3> DEFINE f == [read[r] EXCEPT !.at = "store", !.val = v]
      <3>1. f.lost = read[r].lost /\ f.haveLock = read[r].haveLock  BY DEF TypeOK, ReadType
      <3>2. read' = [read EXCEPT ![r] = f]  BY <2>2, <1>8 DEF Compute
      <3>3. Running(r)  BY <1>8 DEF Compute, Running
      <3> HIDE DEF f, v
      <3>4. (Lost => Lost') /\ Owners' \subseteq Owners
        BY <3>1, <3>2, <3>3, OneMoves DEF Owners
      <3> QED  BY <3>4, <1>8, NoNewOwner DEF Compute, redis
    <2> QED  BY <2>1, <2>2
  \* Only the owner releases the lock, and then there is none.
  <1>9. ASSUME NEW r \in Reads, Store(r) PROVE LockInv'
    <2>1. (Lost => Lost') /\ Owners' \subseteq Owners \ {r}
      BY <1>9, ReturnKeeps DEF Store
    <2>2. CASE read[r].haveLock
      <3>1. r \in Owners  BY <2>2, <1>9 DEF Store, Owners, Running
      <3> QED  BY <2>1, <3>1 DEF LockInv
    <2>3. CASE ~read[r].haveLock
      BY <2>1, <2>3, <1>9, NoNewOwner DEF Store, redis
    <2> QED  BY <2>2, <2>3
  <1>10. CASE EntryGone \/ Change \/ UNCHANGED vars
    <2>1. (Lost => Lost') /\ Owners' \subseteq Owners /\ lock' = lock
      BY <1>10 DEF EntryGone, Change, vars, redis, Lost, Owners, Running
    <2> QED  BY <2>1, NoNewOwner
  <1>11. CASE LockExpires
    <2>1. ASSUME NEW q \in Reads
          PROVE  /\ read'[q].at = read[q].at
                 /\ read'[q].haveLock = read[q].haveLock
                 /\ read'[q].lost <=> read[q].lost \/ q \in Owners
      BY <1>11 DEF LockExpires, TypeOK, ReadType
    <2>2. Owners' = Owners  BY <2>1 DEF Owners, Running
    <2>3. ~Lost' => Owners = {}  BY <2>1 DEF Lost, Owners
    <2> QED  BY <2>2, <2>3 DEF LockInv
  <1>12. ASSUME NEW p \in Processes, Crash(p) PROVE LockInv'
    BY <1>12, EndKeeps, NoNewOwner DEF Crash, redis
  <1>13. ASSUME NEW r \in Reads, Rejected(r) PROVE LockInv'
    <2>1. (Lost => Lost') /\ Owners' \subseteq Owners
      BY <1>13, EndKeeps, ReturnKeeps DEF Rejected
    <2>2. lock' = lock \/ lock' # "free"
      BY <1>13 DEF Rejected, Lockable
    <2> QED  BY <2>1, <2>2, NoNewOwner
  <1> QED  BY <1>1, <1>2, <1>3, <1>4, <1>5, <1>6, <1>7, <1>8, <1>9, <1>10, <1>11, <1>12,
              <1>13 DEF Next, CacheNext, Step

\* Errors, crashes, lost answers and the SETNX around the script never give the
\* lock to two reads: it takes a read that outlived the ten seconds.
THEOREM OneOwnerUntilExpiry == Spec => []ExclusionUntilExpiry
  <1>1. Init => IdleInv /\ LockInv
    BY DEF Init, Fresh, IdleInv, LockInv, Owners, Running
  <1>2. LockInv => ExclusionUntilExpiry
    BY DEF LockInv, ExclusionUntilExpiry, Lost
  <1> QED  BY <1>1, <1>2, TypeInit, TypeStep, IdleStep, LockStep, PTL DEF Spec

-----------------------------------------------------------------------------
(* Old values.                                                             *)

LEMMA CarryStep ==
  ASSUME TypeOK, [Next]_vars, NEW v \in Values, data # v, data' # v, ~Carried(v)
  PROVE  ~Carried(v)'
  <1> SUFFICES ASSUME Carried(v)' PROVE FALSE
    OBVIOUS
  <1> USE DEF Carried
  <1>1. v # NoValue /\ v # Placeholder
    BY NoValueAssumption, PlaceholderAssumption
  <1>2. ASSUME NEW r \in Reads, Begin(r) \/ Step(r), ~Compute(r) PROVE FALSE
    BY <1>1, <1>2 DEF TypeOK, ReadType, Begin, Step, Script, ScriptFails, GetEntry, SetNx, PExpire,
                      GetAgain, Store, Goto, Return, redis
  <1>3. ASSUME NEW r \in Reads, Compute(r) PROVE FALSE
    <2>1. CASE EndOf(ProcessOf[r])
      BY <1>3, <2>1 DEF TypeOK, ReadType, Compute, EndOf, redis
    <2>2. ASSUME NEW w \in {data, Placeholder},
                 read' = [read EXCEPT ![r].at = "store", ![r].val = w]
          PROVE  FALSE
      BY <1>1, <1>3, <2>2 DEF TypeOK, ReadType, Compute, redis
    <2> QED  BY <1>3, <2>1, <2>2 DEF Compute
  <1>4. ASSUME NEW p \in Processes, Crash(p) PROVE FALSE
    BY <1>4 DEF TypeOK, ReadType, Crash, EndOf, redis
  <1>5. CASE EntryGone \/ Change \/ UNCHANGED vars
    BY <1>1, <1>5 DEF EntryGone, Change, vars, redis
  <1>6. CASE LockExpires
    BY <1>6 DEF TypeOK, ReadType, LockExpires
  <1>7. ASSUME NEW r \in Reads, Rejected(r) PROVE FALSE
    <2>1. CASE Return(r, NoValue)
      BY <1>7, <2>1 DEF TypeOK, ReadType, Rejected, Return
    <2>2. CASE EndOf(ProcessOf[r])
      BY <1>7, <2>2 DEF TypeOK, ReadType, Rejected, EndOf
    <2> QED  BY <1>7, <2>1, <2>2 DEF Rejected
  <1> QED  BY <1>2, <1>3, <1>4, <1>5, <1>6, <1>7 DEF Next, CacheNext

\* A value that was overwritten comes back only with a read that was under way.
THEOREM OldValuesStayGone == Spec => NothingReturns
  <1>1. TypeOK /\ [Next]_vars =>
          [\A v \in Values : data # v /\ data' # v /\ ~Carried(v) => ~Carried(v)']_vars
    BY CarryStep
  <1> QED  BY <1>1, TypeInit, TypeStep, PTL DEF Spec, NothingReturns
=============================================================================
