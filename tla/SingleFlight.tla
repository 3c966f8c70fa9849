---------------------------- MODULE SingleFlight ----------------------------
(***************************************************************************)
(* Reading through the cache of messaging-service: cached() of lib/cache.ts *)
(* with its Lua script, for one key.                                       *)
(*                                                                         *)
(* A read asks the script, which answers with the entry or hands out a     *)
(* lock, then asks Redis again, and computes the value when neither has    *)
(* it.  Who found the lock taken tries once more with SETNX and PEXPIRE,   *)
(* or sleeps 75 ms and looks once more, and computes then.  Every await is *)
(* a step of its own; reads of all replicas interleave.                    *)
(*                                                                         *)
(* The lock carries no token and expires after ten seconds, entries expire *)
(* after their time to live.  A Redis error in the script, in the first    *)
(* GET and in the write is swallowed; anywhere else, and in the query, it  *)
(* rejects cached(), which no route awaits in a try: the process ends with *)
(* all its reads, and what it left in Redis stays.                         *)
(*                                                                         *)
(* The gRPC handlers read the same keys with a placeholder for a query, in *)
(* a try of the server: where cached() rejects, only that read ends.       *)
(***************************************************************************)
CONSTANTS
    Reads,        \* calls of cached() with this key, each runs once
    Processes,    \* replicas of the service
    ProcessOf,    \* the replica of each read
    Stubs,        \* the reads that come through gRPC
    Values,       \* what the query may find
    NoValue,      \* no row, no entry
    Placeholder   \* what the gRPC handlers compute

ASSUME ProcessAssumption     == ProcessOf \in [Reads -> Processes]
ASSUME StubsAssumption       == Stubs \subseteq Reads
ASSUME NoValueAssumption     == NoValue \notin Values
ASSUME PlaceholderAssumption == Placeholder \notin Values \cup {NoValue}

VARIABLES
    data,    \* what the query would find now
    entry,   \* the cache entry
    lock,    \* sf:lock:<key>; "stuck" has no expiry
    read     \* local variables of each read

redis == <<entry, lock>>
vars == <<data, entry, lock, read>>

Cacheable == Values \cup {Placeholder}

Fresh == [at |-> "idle", state |-> "none", haveLock |-> FALSE, val |-> NoValue, lost |-> FALSE]

Running(r) == read[r].at \notin {"idle", "done"}

\* The reads that hold the lock, or believe so.
Owners == {r \in Reads : Running(r) /\ read[r].haveLock}

Init ==
    /\ data \in Values \cup {NoValue}
    /\ entry = NoValue
    /\ lock = "free"
    /\ read = [r \in Reads |-> Fresh]

Goto(r, s)   == read' = [read EXCEPT ![r].at = s]
Return(r, v) == read' = [read EXCEPT ![r].at = "done", ![r].val = v]

\* A process ends, its reads unanswered.
EndOf(p) ==
    read' = [r \in Reads |-> IF Running(r) /\ ProcessOf[r] = p
                             THEN [read[r] EXCEPT !.at = "done", !.val = NoValue] ELSE read[r]]

-----------------------------------------------------------------------------
Begin(r) ==
    /\ read[r].at = "idle"
    /\ Goto(r, "script")
    /\ UNCHANGED <<data, redis>>

\* singleflight_cache.lua
Script(r) ==
    /\ read[r].at = "script"
    /\ \/ /\ entry # NoValue
          /\ Return(r, entry)
          /\ UNCHANGED redis
       \/ /\ entry = NoValue /\ lock = "free"
          /\ lock' = "held"
          /\ read' = [read EXCEPT ![r].at = "get", ![r].state = "miss-locked", ![r].haveLock = TRUE]
          /\ UNCHANGED entry
       \/ /\ entry = NoValue /\ lock # "free"
          /\ read' = [read EXCEPT ![r].at = "get", ![r].state = "miss-wait"]
          /\ UNCHANGED redis
    /\ UNCHANGED data

\* The script fails, or its answer is lost.
ScriptFails(r) ==
    /\ read[r].at = "script"
    /\ lock' \in {lock, IF entry = NoValue /\ lock = "free" THEN "held" ELSE lock}
    /\ Goto(r, "get")
    /\ UNCHANGED <<data, entry>>

\* A GET that finds the entry ends the read: an owner leaves its lock behind.
GetEntry(r) ==
    /\ read[r].at = "get"
    /\ \/ entry # NoValue /\ Return(r, entry)
       \/ Goto(r, IF read[r].state = "miss-wait" THEN "setnx" ELSE "compute")
    /\ UNCHANGED <<data, redis>>

SetNx(r) ==
    /\ read[r].at = "setnx"
    /\ IF lock = "free"
       THEN /\ lock' = "stuck"
            /\ read' = [read EXCEPT ![r].at = "pexpire", ![r].haveLock = TRUE]
       ELSE Goto(r, "sleep") /\ UNCHANGED lock
    /\ UNCHANGED <<data, entry>>

PExpire(r) ==
    /\ read[r].at = "pexpire"
    /\ lock' = IF lock = "free" THEN "free" ELSE "held"
    /\ Goto(r, "compute")
    /\ UNCHANGED <<data, entry>>

\* Mutant: the reader sleeps until the entry is there.
GetAgainLoops(r) ==
    /\ read[r].at = "sleep"
    /\ entry # NoValue
    /\ Return(r, entry)
    /\ UNCHANGED <<data, redis>>

GetAgain(r) ==
    /\ read[r].at = "sleep"
    /\ IF entry # NoValue THEN Return(r, entry) ELSE Goto(r, "compute")
    /\ UNCHANGED <<data, redis>>

\* Mutant: a missing row is answered with null.
ComputeNull(r) ==
    /\ read[r].at = "compute"
    /\ read' = [read EXCEPT ![r].at = "store",
                            ![r].val = IF r \in Stubs THEN Placeholder ELSE data]
    /\ UNCHANGED <<data, redis>>

\* Mutant: a missing row is answered with what an earlier read found.
ComputeRemembers(r) ==
    LET seen == {read[q].val : q \in {q \in Reads : read[q].at = "done"}} \ {NoValue}
        v == IF r \in Stubs THEN Placeholder
             ELSE IF data = NoValue /\ seen # {} THEN CHOOSE w \in seen : TRUE ELSE data
    IN  /\ read[r].at = "compute"
        /\ IF v = NoValue THEN EndOf(ProcessOf[r])
                          ELSE read' = [read EXCEPT ![r].at = "store", ![r].val = v]
        /\ UNCHANGED <<data, redis>>

\* The query; where there must be a row and is none, it throws.
Compute(r) ==
    LET v == IF r \in Stubs THEN Placeholder ELSE data
    IN  /\ read[r].at = "compute"
        /\ IF v = NoValue THEN EndOf(ProcessOf[r])
                          ELSE read' = [read EXCEPT ![r].at = "store", ![r].val = v]
        /\ UNCHANGED <<data, redis>>

\* Mutant: everyone who computed deletes the lock.
StoreFreesAlways(r) ==
    /\ read[r].at = "store"
    /\ \/ entry' = read[r].val /\ lock' = "free"
       \/ UNCHANGED redis
    /\ Return(r, read[r].val)
    /\ UNCHANGED data

\* PSETEX, with DEL of the lock in one MULTI for an owner.  A value that is
\* too long is not stored, nor the lock released; nor is it when Redis fails.
Store(r) ==
    /\ read[r].at = "store"
    /\ \/ /\ entry' = read[r].val
          /\ lock' = IF read[r].haveLock THEN "free" ELSE lock
       \/ UNCHANGED redis
    /\ Return(r, read[r].val)
    /\ UNCHANGED data

\* SETNX, PEXPIRE and the GET after the sleep fail, perhaps after they took
\* effect: the gRPC server answers INTERNAL, a route takes its process along.
Lockable(r) ==
    {lock} \cup {l \in {"stuck"} : read[r].at = "setnx"   /\ lock = "free"}
           \cup {l \in {"held"}  : read[r].at = "pexpire" /\ lock # "free"}

Rejected(r) ==
    /\ read[r].at \in {"setnx", "pexpire", "sleep"}
    /\ lock' \in Lockable(r)
    /\ IF r \in Stubs THEN Return(r, NoValue) ELSE EndOf(ProcessOf[r])
    /\ UNCHANGED <<data, entry>>

Step(r) ==
    \/ Script(r)   \/ ScriptFails(r) \/ GetEntry(r) \/ SetNx(r) \/ PExpire(r)
    \/ GetAgain(r) \/ Compute(r)     \/ Store(r)

-----------------------------------------------------------------------------
\* The time to live of the entry is over, or a route deletes the key.
EntryGone ==
    /\ entry # NoValue
    /\ entry' = NoValue
    /\ UNCHANGED <<data, lock, read>>

\* Ten seconds are over: the owners have lost the lock and do not know.
LockExpires ==
    /\ lock = "held"
    /\ lock' = "free"
    /\ read' = [r \in Reads |-> [read[r] EXCEPT !.lost = @ \/ r \in Owners]]
    /\ UNCHANGED <<data, entry>>

Crash(p) ==
    /\ \E r \in Reads : Running(r) /\ ProcessOf[r] = p
    /\ EndOf(p)
    /\ UNCHANGED <<data, redis>>

\* Other routes change the row.
Change ==
    /\ data' \in Values \cup {NoValue}
    /\ UNCHANGED <<entry, lock, read>>

CacheNext ==
    \/ \E r \in Reads : Begin(r) \/ Step(r) \/ Rejected(r)
    \/ EntryGone
    \/ LockExpires
    \/ \E p \in Processes : Crash(p)

Next == CacheNext \/ Change

\* Node resumes every await.
Fairness == \A r \in Reads : WF_vars(Step(r))

Spec == Init /\ [][Next]_vars /\ Fairness

-----------------------------------------------------------------------------
(* Properties.                                                             *)

ReadType ==
    [at : {"idle", "script", "get", "setnx", "pexpire", "sleep", "compute", "store", "done"},
     state : {"none", "miss-locked", "miss-wait"}, haveLock : BOOLEAN,
     val : Cacheable \cup {NoValue}, lost : BOOLEAN]

\* The types; what is cached is never the absence of a row.
TypeOK ==
    /\ data \in Values \cup {NoValue}
    /\ entry \in Cacheable \cup {NoValue}
    /\ lock \in {"free", "held", "stuck"}
    /\ read \in [Reads -> ReadType]
    /\ \A r \in Reads : read[r].at = "store" => read[r].val \in Cacheable

\* Two reads hold the lock at once only after some read has held it for more
\* than its ten seconds.  Errors, crashes and the way around the script do not
\* do it by themselves.
ExclusionUntilExpiry ==
    (\E r, s \in Owners : r # s) => \E r \in Reads : read[r].lost

\* Every read ends, whatever happened to the lock: a lock that its owner left
\* behind, even without expiry, delays the others and holds nobody up.
EveryReadEnds == \A r \in Reads : Running(r) ~> read[r].at = "done"

\* The entry, or a read that is about to write it.
Carried(v) == entry = v \/ \E r \in Reads : read[r].at = "store" /\ read[r].val = v

\* What is no longer so comes back into the cache only with a read that had
\* looked before: a write cannot recall it, and a key that was deleted may hold
\* the old value again, but once it and those reads are gone it is gone.
NothingReturns ==
    [][\A v \in Values : data # v /\ data' # v /\ ~Carried(v) => ~Carried(v)']_vars
=============================================================================
