---------------------------- MODULE UserLifecycle ----------------------------
(***************************************************************************)
(* The account-deletion pipeline end to end: auth-service with its outbox  *)
(* and publisher (AuthOutbox) and the consumer group of one service        *)
(* (LifecycleConsumer), joined by the user.lifecycle.v1 topic.  The two    *)
(* share nothing but the topic, so a step is a step of one of them.        *)
(***************************************************************************)
EXTENDS AuthOutbox, Integers

CONSTANTS
    Instances,    \* processes of the consuming service
    MaxFailures   \* bound on the failures of the consuming side

VARIABLES processed, applied, cpc, pos, from, owner, committed, failures

Group == INSTANCE LifecycleConsumer
    WITH Events <- Requests, UserOf <- [r \in Requests |-> User(r)]

groupVars == <<processed, applied, cpc, pos, from, owner, committed, failures>>
authVars  == <<reqVars, row, retries, tickVars, faults>>
allVars   == <<vars, groupVars>>

SystemInit == Init /\ Group!GroupInit

AuthStep  == Next /\ UNCHANGED groupVars
GroupStep == (\E i \in Instances : Group!Instance(i)) /\ UNCHANGED authVars

SystemNext == AuthStep \/ GroupStep

SystemSpec == SystemInit /\ [][SystemNext]_allVars

FairSystemSpec ==
    /\ SystemSpec
    /\ \A t \in Ticks : WF_vars(Tick(t))
    /\ Group!Fairness

-----------------------------------------------------------------------------
\* A deletion whose event a member of the group has yet to read.
Awaited(r) == \E k \in DOMAIN log, i \in Instances :
    log[k] = r /\ pos[i] # Group!NoOffset /\ pos[i] < k

\* tests/account-deletion.e2e.test.ts: "delete account propagates to all
\* services".  Once the event of a deletion is ahead of a member that reads the
\* topic, and nothing fails, the service's statement runs for the account.
DeletionPropagates ==
    \A r \in Requests : Awaited(r) ~> (applied[User(r)] > 0 \/ failures > 0)
=============================================================================
