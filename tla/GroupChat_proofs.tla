-------------------------- MODULE GroupChat_proofs --------------------------
(***************************************************************************)
(* What holds of a group chat for every number of users, messages and      *)
(* requests.  A step is judged once, by what it does to the rows and to    *)
(* the requests that move (RowStep, CallStep); the parts of the invariant  *)
(* follow from that judgement alone, whichever step it was.                *)
(***************************************************************************)
EXTENDS GroupChat, TLAPS

-----------------------------------------------------------------------------
(* The inductive invariant *)

\* What a request says of itself.
CallTyped(r) ==
    /\ r.at = "start" => r.before = {} /\ r.role = "none"
    /\ r.at = "done" <=> r.answer # "none"
    /\ r.op \in {"add", "kick", "ban", "unban"} => r.target \in Users
    /\ r.op \in MessageOps \/ r.at \in {"deleteMessage", "publish"} => r.msg \in Messages
    /\ r.role \in {"none", "owner"}
    /\ r.op = "send" => r.at \in {"start", "insertMessage", "publish", "done"}
    /\ r.op = "add" => r.at \in {"start", "roleCheck", "insertMember", "done"}
    /\ r.op = "remove" => r.at \in {"start", "deleteMessage", "publish", "done"}
    /\ r.op \in {"kick", "ban"} /\ r.at \notin {"start", "done"} => r.role = "owner"

\* Which requests had ended when a request began.
BeforeInv == \A c \in Calls : \A k \in call[c].before : ~Running(k)

\* There is at most one owner, nobody becomes one later, and a leave that
\* passed its check is not the owner's.
OwnerInv ==
    /\ \A u \in Users : role[u] \in {"none", "member", "owner"}
    /\ \A u, v \in Users : role[u] = "owner" /\ role[v] = "owner" => u = v
    /\ \A c \in Calls, u \in Users : call[c].role = "owner" /\ role[u] = "owner" => u = call[c].by
    /\ \A c \in Calls : call[c].op = "leave" /\ call[c].at = "deleteMember"
           => role[call[c].by] # "owner"

\* Nobody has ever been in the group, so no request got anywhere.
Unstepped == {"start", "roleCheck", "insertOwner", "done"}
Pristine ==
    /\ \A u \in Users : role[u] = "none"
    /\ \A m \in Messages : message[m].state = "none"
    /\ \A k \in Calls : /\ call[k].at \in Unstepped
                        /\ call[k].role = "none"
                        /\ call[k].op # "create" => call[k].answer # "ok"

\* The owner has removed itself.
SelfRemoved ==
    \E c \in Calls : /\ call[c].op \in {"kick", "ban"} /\ call[c].at = "done"
                     /\ call[c].target = call[c].by /\ call[c].role = "owner"

\* Nothing outlives its group: whatever calls were between their check and
\* their write when the group was deleted, there is neither a member nor a
\* message of a deleted group, nor of one that does not exist.
DeletedGroupIsEmpty ==
    group \in {"none", "deleted"} =>
        /\ \A u \in Users : role[u] = "none"
        /\ \A m \in Messages : message[m].state # "here"

Owned == \E u \in Users : role[u] = "owner"

GroupInv ==
    /\ group = "none" => Pristine /\ \A c \in Calls : call[c].at # "insertOwner"
    /\ \A c \in Calls : call[c].at = "insertOwner" =>
           /\ group = "live"
           /\ Pristine
           /\ \A k \in Calls : call[k].at = "insertOwner" => k = c
    /\ group \in {"live", "archived"} => Owned \/ Pristine \/ SelfRemoved
    /\ DeletedGroupIsEmpty

\* A ban for good that has been inserted is there as long as it has no rival.
BanRow(b) ==
    /\ call[b].op = "ban" /\ call[b].forGood
    /\ \A c \in Calls \ call[b].before :
          call[c].op \in {"ban", "unban"} /\ call[c].target = call[b].target => c = b
    /\ call[b].at = "deleteMember" \/ call[b].answer = "ok"
    => ban[call[b].target] = "forever"

\* An add that began after the ban was answered ended with a refusal.
LateAdd(b) ==
    BannedBy(b) => \A a \in Calls : Adds(a, call[b].target) /\ b \in call[a].before
                       => call[a].at = "done" /\ call[a].answer # "ok"

\* A published event has its row; so has an event about to be published.
RowOf(op, m) == IF op = "remove" THEN message[m].state = "gone" ELSE message[m].state # "none"
EventInv ==
    /\ \A c \in Calls : /\ call[c].at = "publish" => RowOf(call[c].op, call[c].msg)
                        /\ call[c].at = "deleteMessage" => message[call[c].msg].state # "none"
    /\ EventsAreTrue

IInv ==
    /\ TypeOK
    /\ \A c \in Calls : CallTyped(call[c])
    /\ BeforeInv
    /\ OwnerInv
    /\ GroupInv
    /\ OutIsOut
    /\ \A b \in Calls : BanRow(b) /\ LateAdd(b)
    /\ BanHolds
    /\ EventInv

-----------------------------------------------------------------------------
(* The judgement of a step *)

\* What a request that moves has done.
Moved(k) ==
    /\ Running(k)
    /\ CallTyped(call'[k])
    /\ call'[k].op = call[k].op /\ call'[k].by = call[k].by
    /\ call'[k].target = call[k].target /\ call'[k].forGood = call[k].forGood
    /\ call'[k].before = Before(k)
    /\ call'[k].at # "start"
    /\ call'[k].role = call[k].role \/ (call'[k].role = "owner" /\ role[call[k].by] = "owner")
    /\ call'[k].at = "insertOwner" => group = "none" /\ group' = "live"
    /\ call[k].at \in Unstepped
          => \/ /\ call'[k].at \in Unstepped
                /\ call'[k].role = call[k].role
                /\ call[k].op # "create" => call'[k].answer # "ok"
             \/ ~Pristine
    /\ call[k].op \in {"send", "add", "leave"} \cup RoleOps /\ call[k].at \in {"start", "roleCheck"}
          => \/ call'[k].at = "done" /\ call'[k].answer = "refused"
             \/ call'[k].at = "roleCheck"
             \/ role[call[k].by] # "none"
    /\ call[k].op = "remove" /\ call[k].at = "start"
          => \/ call'[k].at = "done" /\ call'[k].answer = "refused"
             \/ /\ message[call[k].msg].state # "none"
                /\ message[call[k].msg].sender = call[k].by \/ role[call[k].by] # "none"
    /\ call[k].op \notin {"send", "reply"} => call'[k].msg = call[k].msg
    /\ call[k].op \in RemovalOps /\ call'[k].answer = "ok"
          => call[k].at = "deleteMember" /\ role'[Removed(k)] = "none"
    /\ call[k].op = "leave" /\ call'[k].at = "deleteMember" => role[call[k].by] # "owner"
    /\ call[k].op = "add" /\ call[k].at = "start"
          => \/ call'[k].at = "done" /\ call'[k].answer = "refused"
             \/ call'[k].at = "roleCheck" /\ ban[call[k].target] \notin ActiveBan
    /\ call[k].op = "ban" /\ call'[k].at = "deleteMember" /\ call[k].forGood
          => ban'[call[k].target] = "forever"
    /\ call'[k].at \in {"deleteMessage", "publish"} => message'[call'[k].msg].state # "none"
    /\ call'[k].at = "publish" /\ call[k].op = "remove" => message'[call'[k].msg].state = "gone"
    /\ call[k].op \in {"send", "reply", "remove"} /\ call'[k].answer = "ok"
          => <<EventOf(call[k].op), call'[k].msg>> \in events'

CallStep(k) == call'[k] = call[k] \/ Moved(k)

\* Only the end of the process moves two requests.
OneMoves ==
    \A k, j \in Calls : k # j /\ call'[k] # call[k] /\ call'[j] # call[j]
        => call'[k].at = "done"

\* What may happen to the group, to a member, to a ban, to a message and to
\* the events.
GroupStep ==
    \/ group' = group
    \/ group = "none" /\ group' = "live"
    \/ group = "live" /\ group' = "archived" /\ ~Pristine
    \/ group' = "deleted" /\ group # "none" /\ ~Pristine
       /\ (\A u \in Users : role'[u] = "none")
       /\ (\A m \in Messages : message'[m].state # "here")

MemberStep(u) ==
    \/ role'[u] = role[u]
    \/ role'[u] = "none"
       /\ \/ role[u] # "owner"
          \/ group' = "deleted"
          \/ \E c \in Calls : /\ call[c].op \in {"kick", "ban"} /\ call[c].at = "deleteMember"
                              /\ call[c].target = u /\ call'[c].at = "done"
    \/ role[u] = "none" /\ role'[u] = "member" /\ group' = group /\ group # "deleted"
       /\ \E a \in Calls : Adds(a, u) /\ call[a].at = "insertMember" /\ call'[a].at = "done"
    \/ role'[u] = "owner" /\ group' = group
       /\ \E c \in Calls : call[c].at = "insertOwner" /\ call[c].by = u /\ call'[c].at = "done"

BanStep(u) ==
    \/ ban'[u] = ban[u]
    \/ ban[u] = "timed"
    \/ \E c \in Calls : /\ call[c].op \in {"ban", "unban"} /\ call[c].target = u
                        /\ call[c].at \in {"insertBan", "deleteBan"}
                        /\ call[c].forGood /\ call[c].op = "ban" => ban'[u] = "forever"

MessageStep(m) ==
    /\ \/ message'[m].state = message[m].state
       \/ message[m].state = "none" /\ message'[m].state = "here"
          /\ group' = group /\ group # "deleted" /\ ~Pristine
       \/ message[m].state # "none" /\ message'[m].state = "gone"
    /\ message[m].state # "none" => message'[m].sender = message[m].sender

EventStep ==
    /\ events \subseteq events'
    /\ \A e \in events' \ events : \E c \in Calls :
           /\ call[c].at = "publish" /\ e = <<EventOf(call[c].op), call[c].msg>>
           /\ call[c].op \in {"send", "reply", "remove"}

Judged ==
    /\ TypeOK'
    /\ \A k \in Calls : CallStep(k)
    /\ OneMoves
    /\ GroupStep
    /\ \A u \in Users : MemberStep(u) /\ BanStep(u)
    /\ \A m \in Messages : MessageStep(m)
    /\ EventStep
-----------------------------------------------------------------------------
(* Every step is judged *)

Steps == {"start", "insertOwner", "roleCheck", "insertMember", "targetRole", "insertBan",
          "deleteMember", "deleteBan", "archiveTx", "deleteTx", "insertMessage",
          "publish", "update", "deleteMessage", "done"}

\* What a request is after it goes to another step, or answers.
LEMMA GotoEffect ==
  ASSUME call \in [Calls -> CallType], NEW c \in Calls, NEW s \in Steps, Goto(c, s)
  PROVE  /\ call' \in [Calls -> CallType]
         /\ \A k \in Calls : k # c => call'[k] = call[k]
         /\ call'[c] = [call[c] EXCEPT !.at = s, !.before = Before(c)]
<1>1. Before(c) \in SUBSET Calls
  BY DEF Before, CallType
<1>2. call[c] \in CallType
  OBVIOUS
<1>3. call' = [call EXCEPT ![c] = [call[c] EXCEPT !.at = s, !.before = Before(c)]]
  BY <1>2 DEF Goto, CallType
<1>4. [call[c] EXCEPT !.at = s, !.before = Before(c)] \in CallType
  BY <1>1, <1>2 DEF CallType, Steps
<1> QED
  BY <1>3, <1>4

LEMMA AnswerEffect ==
  ASSUME call \in [Calls -> CallType], NEW c \in Calls, NEW a \in {"ok", "refused"}, Answer(c, a)
  PROVE  /\ call' \in [Calls -> CallType]
         /\ \A k \in Calls : k # c => call'[k] = call[k]
         /\ call'[c] = [call[c] EXCEPT !.at = "done", !.before = Before(c), !.answer = a]
<1>1. Before(c) \in SUBSET Calls
  BY DEF Before, CallType
<1>2. call[c] \in CallType
  OBVIOUS
<1>3. call' = [call EXCEPT ![c] = [call[c] EXCEPT !.at = "done", !.before = Before(c), !.answer = a]]
  BY <1>2 DEF Answer, CallType
<1>4. [call[c] EXCEPT !.at = "done", !.before = Before(c), !.answer = a] \in CallType
  BY <1>1, <1>2 DEF CallType
<1> QED
  BY <1>3, <1>4

\* A running request that is refused is judged whatever it asked for.
LEMMA RefusalMoves ==
  ASSUME TypeOK, NEW c \in Calls, CallTyped(call[c]), Running(c), Answer(c, "refused")
  PROVE  /\ call' \in [Calls -> CallType]
         /\ \A k \in Calls : k # c => call'[k] = call[k]
         /\ Moved(c)
<1>1. call \in [Calls -> CallType] /\ call[c] \in CallType
  BY DEF TypeOK
<1>2. /\ call' \in [Calls -> CallType]
      /\ \A k \in Calls : k # c => call'[k] = call[k]
      /\ call'[c] = [call[c] EXCEPT !.at = "done", !.before = Before(c), !.answer = "refused"]
  BY <1>1, AnswerEffect
<1> DEFINE q == call'[c]
<1>3. /\ q.op = call[c].op /\ q.by = call[c].by /\ q.target = call[c].target
      /\ q.forGood = call[c].forGood /\ q.msg = call[c].msg /\ q.role = call[c].role
      /\ q.at = "done" /\ q.before = Before(c) /\ q.answer = "refused"
  BY <1>1, <1>2 DEF CallType
<1> HIDE DEF q
<1>4. CallTyped(q)
  BY <1>3 DEF CallTyped
<1> QED
  BY <1>2, <1>3, <1>4 DEF Moved, q, Unstepped, RoleOps

\* The fields of a request that goes on.
LEMMA GotoFields ==
  ASSUME TypeOK, NEW c \in Calls, NEW s \in Steps, Goto(c, s)
  PROVE  /\ call' \in [Calls -> CallType]
         /\ \A k \in Calls : k # c => call'[k] = call[k]
         /\ call'[c].op = call[c].op /\ call'[c].by = call[c].by
         /\ call'[c].target = call[c].target /\ call'[c].forGood = call[c].forGood
         /\ call'[c].msg = call[c].msg /\ call'[c].role = call[c].role
         /\ call'[c].answer = call[c].answer
         /\ call'[c].at = s /\ call'[c].before = Before(c)
<1>1. call \in [Calls -> CallType] /\ call[c] \in CallType
  BY DEF TypeOK
<1>2. /\ call' \in [Calls -> CallType]
      /\ \A k \in Calls : k # c => call'[k] = call[k]
      /\ call'[c] = [call[c] EXCEPT !.at = s, !.before = Before(c)]
  BY <1>1, GotoEffect
<1> QED
  BY <1>1, <1>2 DEF CallType

\* The fields of a request that finishes.
LEMMA FinishFields ==
  ASSUME TypeOK, NEW c \in Calls, Finish(c)
  PROVE  /\ call' \in [Calls -> CallType]
         /\ \A k \in Calls : k # c => call'[k] = call[k]
         /\ call'[c].op = call[c].op /\ call'[c].by = call[c].by
         /\ call'[c].target = call[c].target /\ call'[c].forGood = call[c].forGood
         /\ call'[c].msg = call[c].msg /\ call'[c].role = call[c].role
         /\ call'[c].answer \in {"ok", "refused"}
         /\ call'[c].at = "done" /\ call'[c].before = Before(c)
<1>1. call \in [Calls -> CallType] /\ call[c] \in CallType
  BY DEF TypeOK
<1>2. PICK a \in {"ok", "refused"} : Answer(c, a)
  BY DEF Finish
<1>3. /\ call' \in [Calls -> CallType]
      /\ \A k \in Calls : k # c => call'[k] = call[k]
      /\ call'[c] = [call[c] EXCEPT !.at = "done", !.before = Before(c), !.answer = a]
  BY <1>1, <1>2, AnswerEffect
<1> QED
  BY <1>1, <1>3 DEF CallType

rowVars == <<group, role, ban, message, events>>

\* A step that leaves the rows alone is judged by its request.
LEMMA QuietJudged ==
  ASSUME TypeOK, UNCHANGED rowVars, NEW c \in Calls, Moved(c),
         call' \in [Calls -> CallType], \A k \in Calls : k # c => call'[k] = call[k]
  PROVE  Judged
<1>1. TypeOK'
  BY DEF TypeOK, rowVars
<1>2. /\ \A k \in Calls : CallStep(k)
      /\ OneMoves
  BY DEF CallStep, OneMoves
<1>3. /\ GroupStep
      /\ \A u \in Users : MemberStep(u) /\ BanStep(u)
      /\ \A m \in Messages : MessageStep(m)
      /\ EventStep
  BY DEF rowVars, GroupStep, MemberStep, BanStep, MessageStep, EventStep
<1> QED
  BY <1>1, <1>2, <1>3 DEF Judged

\* The ban check of an add.
LEMMA BanCheckJudged ==
  ASSUME IInv, NEW c \in Calls, BanCheck(c)
  PROVE  Judged
<1>1. TypeOK /\ CallTyped(call[c]) /\ call[c] \in CallType /\ Running(c) /\ UNCHANGED rowVars
  BY DEF IInv, TypeOK, BanCheck, At, Running, rowVars
<1>2. CASE Answer(c, "refused")
  BY <1>1, <1>2, RefusalMoves, QuietJudged
<1>3. CASE Goto(c, "roleCheck") /\ ~Answer(c, "refused")
  <2>1. /\ call' \in [Calls -> CallType]
        /\ \A k \in Calls : k # c => call'[k] = call[k]
        /\ call'[c].op = call[c].op /\ call'[c].by = call[c].by
        /\ call'[c].target = call[c].target /\ call'[c].forGood = call[c].forGood
        /\ call'[c].msg = call[c].msg /\ call'[c].role = call[c].role
        /\ call'[c].answer = "none"
        /\ call'[c].at = "roleCheck" /\ call'[c].before = Before(c)
    BY <1>1, <1>3, GotoFields DEF Steps, CallTyped, Running
  <2>2. call[c].op = "add" /\ call[c].at = "start" /\ ban[call[c].target] \notin ActiveBan
    BY <1>1, <1>3 DEF BanCheck, At
  <2>3. CallTyped(call'[c])
    BY <1>1, <2>1, <2>2 DEF CallTyped, Running
  <2>4. Moved(c)
    BY <1>1, <2>1, <2>2, <2>3 DEF Moved, Unstepped, RemovalOps, RoleOps
  <2> QED
    BY <1>1, <2>1, <2>4, QuietJudged
<1> QED
  BY <1>2, <1>3 DEF BanCheck

\* A kick looks at its target.
LEMMA TargetRoleJudged ==
  ASSUME IInv, NEW c \in Calls, TargetRole(c)
  PROVE  Judged
<1>1. TypeOK /\ CallTyped(call[c]) /\ call[c] \in CallType /\ Running(c) /\ UNCHANGED rowVars
  BY DEF IInv, TypeOK, TargetRole, At, Running, rowVars
<1>2. CASE Answer(c, "refused")
  BY <1>1, <1>2, RefusalMoves, QuietJudged
<1>3. CASE Goto(c, "deleteMember") /\ ~Answer(c, "refused")
  <2>1. /\ call' \in [Calls -> CallType]
        /\ \A k \in Calls : k # c => call'[k] = call[k]
        /\ call'[c].op = call[c].op /\ call'[c].by = call[c].by
        /\ call'[c].target = call[c].target /\ call'[c].forGood = call[c].forGood
        /\ call'[c].msg = call[c].msg /\ call'[c].role = call[c].role
        /\ call'[c].answer = "none"
        /\ call'[c].at = "deleteMember" /\ call'[c].before = Before(c)
    BY <1>1, <1>3, GotoFields DEF Steps, CallTyped, Running
  <2>2. call[c].op = "kick" /\ call[c].at = "targetRole"
    BY <1>1, <1>3 DEF TargetRole, At
  <2>3. CallTyped(call'[c])
    BY <1>1, <2>1, <2>2 DEF CallTyped, Running
  <2>4. Moved(c)
    BY <1>1, <2>1, <2>2, <2>3 DEF Moved, Unstepped, RemovalOps, RoleOps
  <2> QED
    BY <1>1, <2>1, <2>4, QuietJudged
<1> QED
  BY <1>2, <1>3 DEF TargetRole

\* A leave that goes on is not the owner's: there is only one.
LEMMA LeaveCheckJudged ==
  ASSUME IInv, NEW c \in Calls, LeaveCheck(c)
  PROVE  Judged
<1>1. TypeOK /\ CallTyped(call[c]) /\ call[c] \in CallType /\ Running(c) /\ UNCHANGED rowVars
  BY DEF IInv, TypeOK, LeaveCheck, At, Running, rowVars
<1>2. CASE Answer(c, "refused")
  BY <1>1, <1>2, RefusalMoves, QuietJudged
<1>3. CASE Goto(c, "deleteMember") /\ ~Answer(c, "refused")
  <2>1. /\ call' \in [Calls -> CallType]
        /\ \A k \in Calls : k # c => call'[k] = call[k]
        /\ call'[c].op = call[c].op /\ call'[c].by = call[c].by
        /\ call'[c].target = call[c].target /\ call'[c].forGood = call[c].forGood
        /\ call'[c].msg = call[c].msg /\ call'[c].role = call[c].role
        /\ call'[c].answer = "none"
        /\ call'[c].at = "deleteMember" /\ call'[c].before = Before(c)
    BY <1>1, <1>3, GotoFields DEF Steps, CallTyped, Running
  <2>2. /\ call[c].op = "leave" /\ call[c].at = "start"
        /\ role[call[c].by] \notin {"owner", "none"} /\ ~Pristine
    BY <1>1, <1>3 DEF LeaveCheck, At, Elevated, IInv, OwnerInv, CallType, Pristine
  <2>3. CallTyped(call'[c])
    BY <1>1, <2>1, <2>2 DEF CallTyped, Running
  <2>4. Moved(c)
    BY <1>1, <2>1, <2>2, <2>3 DEF Moved, Unstepped, RemovalOps, RoleOps
  <2> QED
    BY <1>1, <2>1, <2>4, QuietJudged
<1> QED
  BY <1>2, <1>3 DEF LeaveCheck

\* A send looks its sender up.
LEMMA MemberCheckJudged ==
  ASSUME IInv, NEW c \in Calls, MemberCheck(c)
  PROVE  Judged
<1>1. TypeOK /\ CallTyped(call[c]) /\ call[c] \in CallType /\ Running(c) /\ UNCHANGED rowVars
  BY DEF IInv, TypeOK, MemberCheck, At, Running, rowVars
<1>2. CASE Answer(c, "refused")
  BY <1>1, <1>2, RefusalMoves, QuietJudged
<1>3. CASE Goto(c, "insertMessage") /\ ~Answer(c, "refused")
  <2>1. /\ call' \in [Calls -> CallType]
        /\ \A k \in Calls : k # c => call'[k] = call[k]
        /\ call'[c].op = call[c].op /\ call'[c].by = call[c].by
        /\ call'[c].target = call[c].target /\ call'[c].forGood = call[c].forGood
        /\ call'[c].msg = call[c].msg /\ call'[c].role = call[c].role
        /\ call'[c].answer = "none"
        /\ call'[c].at = "insertMessage" /\ call'[c].before = Before(c)
    BY <1>1, <1>3, GotoFields DEF Steps, CallTyped, Running
  <2>2. /\ call[c].op = "send" /\ call[c].at = "start"
        /\ role[call[c].by] # "none" /\ ~Pristine
    BY <1>1, <1>3 DEF MemberCheck, At, CallType, Pristine
  <2>3. CallTyped(call'[c])
    BY <1>1, <2>1, <2>2 DEF CallTyped, Running
  <2>4. Moved(c)
    BY <1>1, <2>1, <2>2, <2>3 DEF Moved, Unstepped, RemovalOps, RoleOps
  <2> QED
    BY <1>1, <2>1, <2>4, QuietJudged
<1> QED
  BY <1>2, <1>3 DEF MemberCheck

\* A reply looks its parent up.
LEMMA ReadParentJudged ==
  ASSUME IInv, NEW c \in Calls, ReadParent(c)
  PROVE  Judged
<1>1. TypeOK /\ CallTyped(call[c]) /\ call[c] \in CallType /\ Running(c) /\ UNCHANGED rowVars
  BY DEF IInv, TypeOK, ReadParent, At, Running, rowVars
<1>2. CASE Answer(c, "refused")
  BY <1>1, <1>2, RefusalMoves, QuietJudged
<1>3. CASE Goto(c, "insertMessage") /\ ~Answer(c, "refused")
  <2>1. /\ call' \in [Calls -> CallType]
        /\ \A k \in Calls : k # c => call'[k] = call[k]
        /\ call'[c].op = call[c].op /\ call'[c].by = call[c].by
        /\ call'[c].target = call[c].target /\ call'[c].forGood = call[c].forGood
        /\ call'[c].msg = call[c].msg /\ call'[c].role = call[c].role
        /\ call'[c].answer = "none"
        /\ call'[c].at = "insertMessage" /\ call'[c].before = Before(c)
    BY <1>1, <1>3, GotoFields DEF Steps, CallTyped, Running
  <2>2. call[c].op = "reply" /\ call[c].at = "start" /\ ~Pristine
    BY <1>1, <1>3 DEF ReadParent, At, CallType, CallTyped, MessageOps, Pristine
  <2>3. CallTyped(call'[c])
    BY <1>1, <2>1, <2>2 DEF CallTyped, Running
  <2>4. Moved(c)
    BY <1>1, <2>1, <2>2, <2>3 DEF Moved, Unstepped, RemovalOps, RoleOps
  <2> QED
    BY <1>1, <2>1, <2>4, QuietJudged
<1> QED
  BY <1>2, <1>3 DEF ReadParent

\* An edit or a recall looks its message up.
LEMMA SenderCheckJudged ==
  ASSUME IInv, NEW c \in Calls, SenderCheck(c)
  PROVE  Judged
<1>1. TypeOK /\ CallTyped(call[c]) /\ call[c] \in CallType /\ Running(c) /\ UNCHANGED rowVars
  BY DEF IInv, TypeOK, SenderCheck, At, Running, rowVars
<1>2. CASE Answer(c, "refused")
  BY <1>1, <1>2, RefusalMoves, QuietJudged
<1>3. CASE Goto(c, "update") /\ ~Answer(c, "refused")
  <2>1. /\ call' \in [Calls -> CallType]
        /\ \A k \in Calls : k # c => call'[k] = call[k]
        /\ call'[c].op = call[c].op /\ call'[c].by = call[c].by
        /\ call'[c].target = call[c].target /\ call'[c].forGood = call[c].forGood
        /\ call'[c].msg = call[c].msg /\ call'[c].role = call[c].role
        /\ call'[c].answer = "none"
        /\ call'[c].at = "update" /\ call'[c].before = Before(c)
    BY <1>1, <1>3, GotoFields DEF Steps, CallTyped, Running
  <2>2. call[c].op \in {"edit", "recall"} /\ call[c].at = "start" /\ ~Pristine
    BY <1>1, <1>3 DEF SenderCheck, At, CallType, CallTyped, MessageOps, Pristine
  <2>3. CallTyped(call'[c])
    BY <1>1, <2>1, <2>2 DEF CallTyped, Running
  <2>4. Moved(c)
    BY <1>1, <2>1, <2>2, <2>3 DEF Moved, Unstepped, RemovalOps, RoleOps
  <2> QED
    BY <1>1, <2>1, <2>4, QuietJudged
<1> QED
  BY <1>2, <1>3 DEF SenderCheck

\* A deletion looks its message up.
LEMMA AccessCheckJudged ==
  ASSUME IInv, NEW c \in Calls, AccessCheck(c)
  PROVE  Judged
<1>1. TypeOK /\ CallTyped(call[c]) /\ call[c] \in CallType /\ Running(c) /\ UNCHANGED rowVars
  BY DEF IInv, TypeOK, AccessCheck, At, Running, rowVars
<1>2. CASE Answer(c, "refused")
  BY <1>1, <1>2, RefusalMoves, QuietJudged
<1>3. CASE Goto(c, "deleteMessage") /\ ~Answer(c, "refused")
  <2>1. /\ call' \in [Calls -> CallType]
        /\ \A k \in Calls : k # c => call'[k] = call[k]
        /\ call'[c].op = call[c].op /\ call'[c].by = call[c].by
        /\ call'[c].target = call[c].target /\ call'[c].forGood = call[c].forGood
        /\ call'[c].msg = call[c].msg /\ call'[c].role = call[c].role
        /\ call'[c].answer = "none"
        /\ call'[c].at = "deleteMessage" /\ call'[c].before = Before(c)
    BY <1>1, <1>3, GotoFields DEF Steps, CallTyped, Running
  <2>2. /\ call[c].op = "remove" /\ call[c].at = "start" /\ ~Pristine
        /\ message'[call[c].msg].state # "none"
        /\ message[call[c].msg].state # "none"
        /\ message[call[c].msg].sender = call[c].by \/ role[call[c].by] # "none"
    <3>1. call[c].op = "remove" /\ call[c].at = "start" /\ message' = message
      BY DEF AccessCheck, At
    <3>2. call[c].msg \in Messages
      BY <1>1, <3>1 DEF CallTyped, MessageOps
    <3>3. /\ message[call[c].msg].state = "here"
          /\ message[call[c].msg].sender = call[c].by \/ role[call[c].by] # "none"
      BY <1>3 DEF AccessCheck
    <3> QED
      BY <3>1, <3>2, <3>3 DEF Pristine
  <2>3. CallTyped(call'[c])
    BY <1>1, <2>1, <2>2 DEF CallTyped, Running, MessageOps
  <2>4. Moved(c)
    BY <1>1, <2>1, <2>2, <2>3 DEF Moved, Unstepped, RemovalOps, RoleOps
  <2> QED
    BY <1>1, <2>1, <2>4, QuietJudged
<1> QED
  BY <1>2, <1>3 DEF AccessCheck

\* A request that passes the role check keeps the type.
LEMMA RoleKept ==
  ASSUME NEW old \in CallType, NEW r \in Roles, NEW b \in SUBSET Calls,
         NEW s \in {"insertMember", "targetRole", "insertBan", "deleteBan", "deleteTx", "archiveTx"}
  PROVE  [old EXCEPT !.at = s, !.role = r, !.before = b] \in CallType
BY DEF CallType

\* The role check of the owner's operations; only the owner passes it.
LEMMA RoleCheckJudged ==
  ASSUME IInv, NEW c \in Calls, RoleCheck(c)
  PROVE  Judged
<1>1. TypeOK /\ CallTyped(call[c]) /\ call[c] \in CallType /\ Running(c) /\ UNCHANGED rowVars
  BY DEF IInv, TypeOK, RoleCheck, At, Running, rowVars
<1>2. CASE Answer(c, "refused")
  BY <1>1, <1>2, RefusalMoves, QuietJudged
<1>3. CASE ~Answer(c, "refused")
  <2> DEFINE s == Then(call[c].op)
             q == [call[c] EXCEPT !.at = s, !.role = role[call[c].by], !.before = Before(c)]
  <2>1. /\ \/ call[c].op = "add" /\ call[c].at = "roleCheck"
           \/ call[c].op \in RoleOps /\ call[c].at = "start"
        /\ MayDo(call[c].op, role[call[c].by])
        /\ call' = [call EXCEPT ![c].at = s, ![c].role = role[call[c].by], ![c].before = Before(c)]
    BY <1>3 DEF RoleCheck, At
  <2>2. role[call[c].by] = "owner" /\ ~Pristine
    BY <1>1, <2>1 DEF IInv, OwnerInv, MayDo, CallType, Pristine
  <2>3. /\ s \in {"insertMember", "targetRole", "insertBan", "deleteBan", "deleteTx", "archiveTx"}
        /\ call[c].op = "add" => s = "insertMember"
    BY <2>1 DEF Then, RoleOps
  <2>4. call' = [call EXCEPT ![c] = q]
    BY <1>1, <2>1 DEF CallType
  <2> HIDE DEF s
  <2>5. Before(c) \in SUBSET Calls
    BY <1>1 DEF Before, CallType
  <2>6. q \in CallType
    <3>1. role[call[c].by] \in Roles
      BY <2>2 DEF Roles
    <3> QED
      BY <1>1, <2>3, <2>5, <3>1, RoleKept
  <2>7. /\ q.op = call[c].op /\ q.by = call[c].by /\ q.target = call[c].target
        /\ q.forGood = call[c].forGood /\ q.msg = call[c].msg /\ q.answer = call[c].answer
        /\ q.at = s /\ q.role = "owner" /\ q.before = Before(c)
    BY <1>1, <2>2 DEF CallType
  <2> HIDE DEF q
  <2>8. /\ call' \in [Calls -> CallType]
        /\ \A k \in Calls : k # c => call'[k] = call[k]
        /\ call'[c] = q
    BY <1>1, <2>4, <2>6 DEF TypeOK
  <2>9. CallTyped(q) /\ q.answer = "none"
    BY <1>1, <2>1, <2>3, <2>7 DEF CallTyped, Running, RoleOps
  <2>10. Moved(c)
    BY <1>1, <2>1, <2>2, <2>3, <2>7, <2>8, <2>9 DEF Moved, Unstepped, RemovalOps, RoleOps
  <2> QED
    BY <1>1, <2>8, <2>10, QuietJudged
<1> QED
  BY <1>2, <1>3

\* A statement fails.
LEMMA FailJudged ==
  ASSUME IInv, NEW c \in Calls, Fail(c)
  PROVE  Judged
<1>1. TypeOK /\ CallTyped(call[c]) /\ Running(c) /\ UNCHANGED rowVars /\ Answer(c, "refused")
  BY DEF IInv, Fail, rowVars
<1> QED
  BY <1>1, RefusalMoves, QuietJudged

\* The process ends with all its requests.
LEMMA CrashJudged ==
  ASSUME IInv, Crash
  PROVE  Judged
<1>1. TypeOK /\ UNCHANGED rowVars
  BY DEF IInv, Crash, rowVars
<1>2. ASSUME NEW k \in Calls
      PROVE  call'[k] \in CallType /\ CallStep(k) /\ (call'[k] # call[k] => call'[k].at = "done")
  <2>1. call[k] \in CallType /\ CallTyped(call[k])
    BY <1>1 DEF IInv, TypeOK
  <2>2. CASE ~Running(k)
    BY <2>1, <2>2 DEF Crash, CallStep
  <2>3. CASE Running(k)
    <3> DEFINE q == [call[k] EXCEPT !.at = "done", !.before = Before(k), !.answer = "refused"]
    <3>1. call'[k] = q
      BY <2>3 DEF Crash
    <3>2. Before(k) \in SUBSET Calls
      BY <2>1 DEF Before, CallType
    <3>3. /\ q \in CallType
          /\ q.op = call[k].op /\ q.by = call[k].by /\ q.target = call[k].target
          /\ q.forGood = call[k].forGood /\ q.msg = call[k].msg /\ q.role = call[k].role
          /\ q.at = "done" /\ q.before = Before(k) /\ q.answer = "refused"
      BY <2>1, <3>2 DEF CallType
    <3> HIDE DEF q
    <3>4. CallTyped(q)
      BY <2>1, <3>3 DEF CallTyped
    <3> QED
      BY <2>3, <3>1, <3>3, <3>4 DEF CallStep, Moved, Unstepped
  <2> QED
    BY <2>2, <2>3
<1>3. call' \in [Calls -> CallType]
  BY <1>2 DEF Crash
<1>4. TypeOK'
  BY <1>1, <1>3 DEF TypeOK, rowVars
<1>5. /\ GroupStep
      /\ \A u \in Users : MemberStep(u) /\ BanStep(u)
      /\ \A m \in Messages : MessageStep(m)
      /\ EventStep
  BY <1>1 DEF rowVars, GroupStep, MemberStep, BanStep, MessageStep, EventStep
<1> QED
  BY <1>2, <1>4, <1>5 DEF Judged, OneMoves

\* A timed ban lapses.
LEMMA LapseJudged ==
  ASSUME IInv, NEW u \in Users, BanLapses(u)
  PROVE  Judged
<1>1. TypeOK'
  BY DEF IInv, TypeOK, BanLapses
<1>2. (\A k \in Calls : CallStep(k)) /\ OneMoves
  BY DEF BanLapses, CallStep, OneMoves
<1>3. /\ GroupStep
      /\ \A v \in Users : MemberStep(v)
      /\ \A m \in Messages : MessageStep(m)
      /\ EventStep
  BY DEF BanLapses, GroupStep, MemberStep, MessageStep, EventStep
<1>4. \A v \in Users : BanStep(v)
  BY DEF IInv, TypeOK, BanLapses, BanStep
<1> QED
  BY <1>1, <1>2, <1>3, <1>4 DEF Judged

\* A step of one request that writes.
LEMMA LoneJudged ==
  ASSUME NEW c \in Calls, Moved(c), TypeOK',
         \A k \in Calls : k # c => call'[k] = call[k],
         GroupStep, \A u \in Users : MemberStep(u) /\ BanStep(u),
         \A m \in Messages : MessageStep(m), EventStep
  PROVE  Judged
BY DEF Judged, CallStep, OneMoves

\* The owner of a new group.
LEMMA InsertOwnerJudged ==
  ASSUME IInv, NEW c \in Calls, InsertOwner(c)
  PROVE  Judged
<1>1. TypeOK /\ CallTyped(call[c]) /\ call[c] \in CallType /\ Running(c)
  BY DEF IInv, TypeOK, InsertOwner, At, Running
<1>2. /\ call[c].op = "create" /\ call[c].at = "insertOwner" /\ Finish(c)
      /\ role' = [role EXCEPT ![call[c].by] = "owner"]
      /\ UNCHANGED <<group, ban, message, events>>
  BY <1>1 DEF InsertOwner, At
<1>3. /\ call' \in [Calls -> CallType]
      /\ \A k \in Calls : k # c => call'[k] = call[k]
      /\ call'[c].op = call[c].op /\ call'[c].by = call[c].by
      /\ call'[c].target = call[c].target /\ call'[c].forGood = call[c].forGood
      /\ call'[c].msg = call[c].msg /\ call'[c].role = call[c].role
      /\ call'[c].answer \in {"ok", "refused"}
      /\ call'[c].at = "done" /\ call'[c].before = Before(c)
  BY <1>1, <1>2, FinishFields
<1>4. CallTyped(call'[c])
  BY <1>1, <1>2, <1>3 DEF CallTyped, Running, MessageOps
<1>5. TypeOK'
  BY <1>1, <1>2, <1>3 DEF TypeOK, Roles, CallType
<1>6. Moved(c)
  BY <1>1, <1>2, <1>3, <1>4 DEF Moved, Unstepped, RemovalOps, RoleOps
<1>7. GroupStep /\ (\A u \in Users : MemberStep(u) /\ BanStep(u))
  BY <1>1, <1>2, <1>3 DEF TypeOK, GroupStep, MemberStep, BanStep, CallType
<1>8. (\A m \in Messages : MessageStep(m)) /\ EventStep
  BY <1>1, <1>2, <1>3 DEF TypeOK, MessageStep, EventStep
<1> QED
  BY <1>3, <1>5, <1>6, <1>7, <1>8, LoneJudged

\* An add.
LEMMA InsertMemberJudged ==
  ASSUME IInv, NEW c \in Calls, InsertMember(c)
  PROVE  Judged
<1>1. TypeOK /\ CallTyped(call[c]) /\ call[c] \in CallType /\ Running(c)
  BY DEF IInv, TypeOK, InsertMember, At, Running
<1>2. CASE Answer(c, "refused") /\ UNCHANGED rowVars
  BY <1>1, <1>2, RefusalMoves, QuietJudged
<1>3. CASE ~(Answer(c, "refused") /\ UNCHANGED rowVars)
  <2>1. /\ call[c].op = "add" /\ call[c].at = "insertMember" /\ Finish(c) /\ group # "deleted"
        /\ call[c].target \in Users
        /\ role' = [role EXCEPT ![call[c].target] = IF @ = "none" THEN "member" ELSE @]
        /\ UNCHANGED <<group, ban, message, events>>
    BY <1>1, <1>3 DEF InsertMember, At, rowVars, CallTyped
  <2>2. /\ call' \in [Calls -> CallType]
        /\ \A k \in Calls : k # c => call'[k] = call[k]
        /\ call'[c].op = call[c].op /\ call'[c].by = call[c].by
        /\ call'[c].target = call[c].target /\ call'[c].forGood = call[c].forGood
        /\ call'[c].msg = call[c].msg /\ call'[c].role = call[c].role
        /\ call'[c].answer \in {"ok", "refused"}
        /\ call'[c].at = "done" /\ call'[c].before = Before(c)
    BY <1>1, <2>1, FinishFields
  <2>3. CallTyped(call'[c])
    BY <1>1, <2>1, <2>2 DEF CallTyped, Running, MessageOps
  <2>4. TypeOK'
    BY <1>1, <2>1, <2>2 DEF TypeOK, Roles, CallType
  <2>5. Moved(c)
    BY <1>1, <2>1, <2>2, <2>3 DEF Moved, Unstepped, RemovalOps, RoleOps
  <2>6. GroupStep /\ (\A u \in Users : MemberStep(u) /\ BanStep(u))
    BY <1>1, <2>1, <2>2 DEF TypeOK, GroupStep, MemberStep, BanStep, Adds
  <2>7. (\A m \in Messages : MessageStep(m)) /\ EventStep
    BY <1>1, <2>1, <2>2 DEF TypeOK, MessageStep, EventStep
  <2> QED
    BY <2>2, <2>4, <2>5, <2>6, <2>7, LoneJudged
<1> QED
  BY <1>2, <1>3 DEF rowVars

\* A ban.
LEMMA InsertBanJudged ==
  ASSUME IInv, NEW c \in Calls, InsertBan(c)
  PROVE  Judged
<1>1. TypeOK /\ CallTyped(call[c]) /\ call[c] \in CallType /\ Running(c)
  BY DEF IInv, TypeOK, InsertBan, At, Running
<1>2. /\ call[c].op = "ban" /\ call[c].at = "insertBan" /\ Goto(c, "deleteMember")
      /\ call[c].target \in Users
      /\ ban' = [ban EXCEPT ![call[c].target] = IF call[c].forGood THEN "forever" ELSE "timed"]
      /\ UNCHANGED <<group, role, message, events>>
  BY <1>1 DEF InsertBan, At, CallTyped
<1>3. /\ call' \in [Calls -> CallType]
      /\ \A k \in Calls : k # c => call'[k] = call[k]
      /\ call'[c].op = call[c].op /\ call'[c].by = call[c].by
      /\ call'[c].target = call[c].target /\ call'[c].forGood = call[c].forGood
      /\ call'[c].msg = call[c].msg /\ call'[c].role = call[c].role
      /\ call'[c].answer = "none"
      /\ call'[c].at = "deleteMember" /\ call'[c].before = Before(c)
  BY <1>1, <1>2, GotoFields DEF Steps, CallTyped, Running
<1>4. CallTyped(call'[c])
  BY <1>1, <1>2, <1>3 DEF CallTyped, Running
<1>5. TypeOK'
  BY <1>1, <1>2, <1>3 DEF TypeOK
<1>6. Moved(c)
  BY <1>1, <1>2, <1>3, <1>4 DEF Moved, Unstepped, RemovalOps, RoleOps, TypeOK
<1>7. GroupStep /\ (\A u \in Users : MemberStep(u) /\ BanStep(u))
  BY <1>1, <1>2, <1>3 DEF TypeOK, GroupStep, MemberStep, BanStep
<1>8. (\A m \in Messages : MessageStep(m)) /\ EventStep
  BY <1>1, <1>2, <1>3 DEF TypeOK, MessageStep, EventStep
<1> QED
  BY <1>3, <1>5, <1>6, <1>7, <1>8, LoneJudged

\* A kick, a ban or a leave; none of them is the owner's but by its own hand.
LEMMA DeleteMemberJudged ==
  ASSUME IInv, NEW c \in Calls, DeleteMember(c)
  PROVE  Judged
<1>1. TypeOK /\ CallTyped(call[c]) /\ call[c] \in CallType /\ Running(c)
  BY DEF IInv, TypeOK, DeleteMember, At, Running
<1>2. /\ call[c].op \in RemovalOps /\ call[c].at = "deleteMember" /\ Finish(c)
      /\ Removed(c) \in Users
      /\ role' = [role EXCEPT ![Removed(c)] = "none"]
      /\ call[c].op = "leave" => role[Removed(c)] # "owner"
      /\ call[c].op # "leave" => call[c].target = Removed(c)
      /\ UNCHANGED <<group, ban, message, events>>
  BY <1>1 DEF DeleteMember, At, CallTyped, CallType, RemovalOps, Removed, IInv, OwnerInv
<1>3. /\ call' \in [Calls -> CallType]
      /\ \A k \in Calls : k # c => call'[k] = call[k]
      /\ call'[c].op = call[c].op /\ call'[c].by = call[c].by
      /\ call'[c].target = call[c].target /\ call'[c].forGood = call[c].forGood
      /\ call'[c].msg = call[c].msg /\ call'[c].role = call[c].role
      /\ call'[c].answer \in {"ok", "refused"}
      /\ call'[c].at = "done" /\ call'[c].before = Before(c)
  BY <1>1, <1>2, FinishFields
<1>4. CallTyped(call'[c])
  BY <1>1, <1>2, <1>3 DEF CallTyped, Running, MessageOps
<1>5. TypeOK'
  BY <1>1, <1>2, <1>3 DEF TypeOK, Roles
<1>6. Moved(c)
  BY <1>1, <1>2, <1>3, <1>4 DEF Moved, Unstepped, RemovalOps, RoleOps, Removed, TypeOK
<1>7. GroupStep /\ (\A u \in Users : MemberStep(u) /\ BanStep(u))
  BY <1>1, <1>2, <1>3 DEF TypeOK, GroupStep, MemberStep, BanStep, RemovalOps
<1>8. (\A m \in Messages : MessageStep(m)) /\ EventStep
  BY <1>1, <1>2, <1>3 DEF TypeOK, MessageStep, EventStep
<1> QED
  BY <1>3, <1>5, <1>6, <1>7, <1>8, LoneJudged

\* An unban.
LEMMA DeleteBanJudged ==
  ASSUME IInv, NEW c \in Calls, DeleteBan(c)
  PROVE  Judged
<1>1. TypeOK /\ CallTyped(call[c]) /\ call[c] \in CallType /\ Running(c)
  BY DEF IInv, TypeOK, DeleteBan, At, Running
<1>2. CASE Answer(c, "refused") /\ UNCHANGED rowVars
  BY <1>1, <1>2, RefusalMoves, QuietJudged
<1>3. CASE ~(Answer(c, "refused") /\ UNCHANGED rowVars)
  <2>1. /\ call[c].op = "unban" /\ call[c].at = "deleteBan" /\ Finish(c)
        /\ call[c].target \in Users
        /\ ban' = [ban EXCEPT ![call[c].target] = "none"]
        /\ UNCHANGED <<group, role, message, events>>
    BY <1>1, <1>3 DEF DeleteBan, At, CallTyped, Finish, rowVars, TypeOK
  <2>2. /\ call' \in [Calls -> CallType]
        /\ \A k \in Calls : k # c => call'[k] = call[k]
        /\ call'[c].op = call[c].op /\ call'[c].by = call[c].by
        /\ call'[c].target = call[c].target /\ call'[c].forGood = call[c].forGood
        /\ call'[c].msg = call[c].msg /\ call'[c].role = call[c].role
        /\ call'[c].answer \in {"ok", "refused"}
        /\ call'[c].at = "done" /\ call'[c].before = Before(c)
    BY <1>1, <2>1, FinishFields
  <2>3. CallTyped(call'[c])
    BY <1>1, <2>1, <2>2 DEF CallTyped, Running, MessageOps
  <2>4. TypeOK'
    BY <1>1, <2>1, <2>2 DEF TypeOK
  <2>5. Moved(c)
    BY <1>1, <2>1, <2>2, <2>3 DEF Moved, Unstepped, RemovalOps, RoleOps, TypeOK
  <2>6. GroupStep /\ (\A u \in Users : MemberStep(u) /\ BanStep(u))
    BY <1>1, <2>1, <2>2 DEF TypeOK, GroupStep, MemberStep, BanStep
  <2>7. (\A m \in Messages : MessageStep(m)) /\ EventStep
    BY <1>1, <2>1, <2>2 DEF TypeOK, MessageStep, EventStep
  <2> QED
    BY <2>2, <2>4, <2>5, <2>6, <2>7, LoneJudged
<1> QED
  BY <1>2, <1>3 DEF rowVars

\* An archiving, whether it took effect or not.
LEMMA ArchiveGroupJudged ==
  ASSUME IInv, NEW c \in Calls, ArchiveGroup(c)
  PROVE  Judged
<1>1. TypeOK /\ CallTyped(call[c]) /\ call[c] \in CallType /\ Running(c)
  BY DEF IInv, TypeOK, ArchiveGroup, At, Running
<1>2. /\ call[c].op = "archive" /\ call[c].at = "archiveTx" /\ Finish(c)
      /\ group' \in {group, IF group = "live" THEN "archived" ELSE group} /\ ~Pristine
      /\ UNCHANGED <<role, ban, message, events>>
  BY <1>1 DEF ArchiveGroup, At, Finish, Pristine, Unstepped
<1>3. /\ call' \in [Calls -> CallType]
      /\ \A k \in Calls : k # c => call'[k] = call[k]
      /\ call'[c].op = call[c].op /\ call'[c].by = call[c].by
      /\ call'[c].target = call[c].target /\ call'[c].forGood = call[c].forGood
      /\ call'[c].msg = call[c].msg /\ call'[c].role = call[c].role
      /\ call'[c].answer \in {"ok", "refused"}
      /\ call'[c].at = "done" /\ call'[c].before = Before(c)
  BY <1>1, <1>2, FinishFields
<1>4. CallTyped(call'[c])
  BY <1>1, <1>2, <1>3 DEF CallTyped, Running, MessageOps
<1>5. TypeOK'
  BY <1>1, <1>2, <1>3 DEF TypeOK
<1>6. Moved(c)
  BY <1>1, <1>2, <1>3, <1>4 DEF Moved, Unstepped, RemovalOps, RoleOps
<1>7. GroupStep /\ (\A u \in Users : MemberStep(u) /\ BanStep(u))
  BY <1>1, <1>2, <1>3 DEF TypeOK, GroupStep, MemberStep, BanStep
<1>8. (\A m \in Messages : MessageStep(m)) /\ EventStep
  BY <1>1, <1>2, <1>3 DEF TypeOK, MessageStep, EventStep
<1> QED
  BY <1>3, <1>5, <1>6, <1>7, <1>8, LoneJudged

MessageType == [state : {"none", "here", "gone"}, sender : Users \cup {Nobody},
                content : {"none", "sent", "edited", "recalled"}, recalled : BOOLEAN]

\* A deletion of the group.
LEMMA DeleteGroupJudged ==
  ASSUME IInv, NEW c \in Calls, DeleteGroup(c)
  PROVE  Judged
<1>1. TypeOK /\ CallTyped(call[c]) /\ call[c] \in CallType /\ Running(c)
  BY DEF IInv, TypeOK, DeleteGroup, At, Running
<1>2. /\ call[c].op = "delete" /\ call[c].at = "deleteTx" /\ Finish(c)
      /\ group' = "deleted" /\ group # "none" /\ ~Pristine
      /\ role' = [u \in Users |-> "none"]
      /\ message' = [m \in Messages |->
                          [message[m] EXCEPT !.state = IF @ = "here" THEN "gone" ELSE @]]
      /\ UNCHANGED <<ban, events>>
  BY <1>1 DEF DeleteGroup, At, Pristine, Unstepped, IInv, GroupInv
<1>3. /\ call' \in [Calls -> CallType]
      /\ \A k \in Calls : k # c => call'[k] = call[k]
      /\ call'[c].op = call[c].op /\ call'[c].by = call[c].by
      /\ call'[c].target = call[c].target /\ call'[c].forGood = call[c].forGood
      /\ call'[c].msg = call[c].msg /\ call'[c].role = call[c].role
      /\ call'[c].answer \in {"ok", "refused"}
      /\ call'[c].at = "done" /\ call'[c].before = Before(c)
  BY <1>1, <1>2, FinishFields
<1>4. CallTyped(call'[c])
  BY <1>1, <1>2, <1>3 DEF CallTyped, Running, MessageOps
<1>5. TypeOK'
  <2>1. ASSUME NEW m \in Messages
        PROVE  [message[m] EXCEPT !.state = IF @ = "here" THEN "gone" ELSE @] \in MessageType
    <3>1. message[m] \in MessageType
      BY <1>1 DEF TypeOK, MessageType
    <3> QED
      BY <3>1 DEF MessageType
  <2>2. message' \in [Messages -> MessageType]
    BY <1>2, <2>1
  <2>3. role' \in [Users -> Roles \cup {"none"}]
    BY <1>2
  <2> QED
    BY <1>1, <1>2, <1>3, <2>2, <2>3 DEF TypeOK, MessageType
<1>6. Moved(c)
  BY <1>1, <1>2, <1>3, <1>4 DEF Moved, Unstepped, RemovalOps, RoleOps
<1>7. GroupStep /\ (\A u \in Users : MemberStep(u) /\ BanStep(u))
  BY <1>1, <1>2, <1>3 DEF TypeOK, GroupStep, MemberStep, BanStep
<1>8. (\A m \in Messages : MessageStep(m)) /\ EventStep
  BY <1>1, <1>2, <1>3 DEF TypeOK, MessageStep, EventStep
<1> QED
  BY <1>3, <1>5, <1>6, <1>7, <1>8, LoneJudged

\* An edit and a recall keep the row where it is.
LEMMA UpdateRow ==
  ASSUME NEW old \in MessageType, NEW row \in {old} \cup EditedRow(old) \cup RecalledRow(old)
  PROVE  row.state = old.state /\ row.sender = old.sender /\ row \in MessageType
BY DEF MessageType, EditedRow, RecalledRow

\* An edit or a recall.
LEMMA UpdateMessageJudged ==
  ASSUME IInv, NEW c \in Calls, UpdateMessage(c)
  PROVE  Judged
<1>1. TypeOK /\ CallTyped(call[c]) /\ call[c] \in CallType /\ Running(c)
  BY DEF IInv, TypeOK, UpdateMessage, At, Running
<1>2. /\ call[c].op \in {"edit", "recall"} /\ call[c].at = "update" /\ Finish(c)
      /\ call[c].msg \in Messages
      /\ \E row : /\ message' = [message EXCEPT ![call[c].msg] = row]
                  /\ row.state = message[call[c].msg].state
                  /\ row.sender = message[call[c].msg].sender
                  /\ row \in MessageType
      /\ UNCHANGED <<group, role, ban, events>>
  <2>1. call[c].op \in {"edit", "recall"} /\ call[c].at = "update" /\ call[c].msg \in Messages
    BY <1>1 DEF UpdateMessage, CallTyped, MessageOps
  <2>2. message[call[c].msg] \in MessageType
    BY <1>1, <2>1 DEF TypeOK, MessageType
  <2>3. PICK row : /\ row \in {message[call[c].msg]} \cup EditedRow(message[call[c].msg])
                              \cup RecalledRow(message[call[c].msg])
                   /\ message' = [message EXCEPT ![call[c].msg] = row]
    BY DEF UpdateMessage
  <2>4. /\ row.state = message[call[c].msg].state /\ row.sender = message[call[c].msg].sender
        /\ row \in MessageType
    BY <2>2, <2>3, UpdateRow
  <2> QED
    BY <2>1, <2>3, <2>4 DEF UpdateMessage
<1>3. /\ call' \in [Calls -> CallType]
      /\ \A k \in Calls : k # c => call'[k] = call[k]
      /\ call'[c].op = call[c].op /\ call'[c].by = call[c].by
      /\ call'[c].target = call[c].target /\ call'[c].forGood = call[c].forGood
      /\ call'[c].msg = call[c].msg /\ call'[c].role = call[c].role
      /\ call'[c].answer \in {"ok", "refused"}
      /\ call'[c].at = "done" /\ call'[c].before = Before(c)
  BY <1>1, <1>2, FinishFields
<1>4. CallTyped(call'[c])
  BY <1>1, <1>2, <1>3 DEF CallTyped, Running, MessageOps
<1>5. TypeOK'
  BY <1>1, <1>2, <1>3 DEF TypeOK, MessageType
<1>6. Moved(c)
  BY <1>1, <1>2, <1>3, <1>4 DEF Moved, Unstepped, RemovalOps, RoleOps
<1>7. GroupStep /\ (\A u \in Users : MemberStep(u) /\ BanStep(u))
  BY <1>1, <1>2, <1>3 DEF TypeOK, GroupStep, MemberStep, BanStep
<1>8. (\A m \in Messages : MessageStep(m)) /\ EventStep
  BY <1>1, <1>2, <1>3 DEF TypeOK, MessageType, MessageStep, EventStep
<1> QED
  BY <1>3, <1>5, <1>6, <1>7, <1>8, LoneJudged

\* A deletion of a message.
LEMMA DeleteMessageJudged ==
  ASSUME IInv, NEW c \in Calls, DeleteMessage(c)
  PROVE  Judged
<1>1. TypeOK /\ CallTyped(call[c]) /\ call[c] \in CallType /\ Running(c)
  BY DEF IInv, TypeOK, DeleteMessage, At, Running
<1>2. /\ call[c].op = "remove" /\ call[c].at = "deleteMessage" /\ Goto(c, "publish")
      /\ call[c].msg \in Messages
      /\ message[call[c].msg].state # "none"
      /\ message' = [message EXCEPT ![call[c].msg].state = "gone"]
      /\ UNCHANGED <<group, role, ban, events>>
  BY <1>1 DEF DeleteMessage, At, CallTyped, MessageOps, TypeOK, IInv, EventInv
<1>3. /\ call' \in [Calls -> CallType]
      /\ \A k \in Calls : k # c => call'[k] = call[k]
      /\ call'[c].op = call[c].op /\ call'[c].by = call[c].by
      /\ call'[c].target = call[c].target /\ call'[c].forGood = call[c].forGood
      /\ call'[c].msg = call[c].msg /\ call'[c].role = call[c].role
      /\ call'[c].answer = "none"
      /\ call'[c].at = "publish" /\ call'[c].before = Before(c)
  BY <1>1, <1>2, GotoFields DEF Steps, CallTyped, Running
<1>4. CallTyped(call'[c])
  BY <1>1, <1>2, <1>3 DEF CallTyped, Running
<1>5. TypeOK'
  BY <1>1, <1>2, <1>3 DEF TypeOK
<1>6. Moved(c)
  BY <1>1, <1>2, <1>3, <1>4 DEF Moved, Unstepped, RemovalOps, RoleOps, TypeOK
<1>7. GroupStep /\ (\A u \in Users : MemberStep(u) /\ BanStep(u))
  BY <1>1, <1>2, <1>3 DEF TypeOK, GroupStep, MemberStep, BanStep
<1>8. (\A m \in Messages : MessageStep(m)) /\ EventStep
  BY <1>1, <1>2, <1>3 DEF TypeOK, MessageStep, EventStep
<1> QED
  BY <1>3, <1>5, <1>6, <1>7, <1>8, LoneJudged

\* An event.
LEMMA PublishJudged ==
  ASSUME IInv, NEW c \in Calls, Publish(c)
  PROVE  Judged
<1>1. TypeOK /\ CallTyped(call[c]) /\ call[c] \in CallType /\ Running(c)
  BY DEF IInv, TypeOK, Publish, At, Running
<1>2. /\ call[c].op \in {"send", "reply", "remove"} /\ call[c].at = "publish" /\ Finish(c)
      /\ call[c].msg \in Messages
      /\ EventOf(call[c].op) \in {"MessageSent", "MessageReplied", "MessageDeleted"}
      /\ events' = events \cup {<<EventOf(call[c].op), call[c].msg>>}
      /\ UNCHANGED <<group, role, ban, message>>
  BY <1>1 DEF Publish, At, CallTyped, EventOf
<1>3. /\ call' \in [Calls -> CallType]
      /\ \A k \in Calls : k # c => call'[k] = call[k]
      /\ call'[c].op = call[c].op /\ call'[c].by = call[c].by
      /\ call'[c].target = call[c].target /\ call'[c].forGood = call[c].forGood
      /\ call'[c].msg = call[c].msg /\ call'[c].role = call[c].role
      /\ call'[c].answer \in {"ok", "refused"}
      /\ call'[c].at = "done" /\ call'[c].before = Before(c)
  BY <1>1, <1>2, FinishFields
<1>4. CallTyped(call'[c])
  BY <1>1, <1>2, <1>3 DEF CallTyped, Running, MessageOps
<1>5. TypeOK'
  BY <1>1, <1>2, <1>3 DEF TypeOK
<1>6. Moved(c)
  BY <1>1, <1>2, <1>3, <1>4 DEF Moved, Unstepped, RemovalOps, RoleOps
<1>7. GroupStep /\ (\A u \in Users : MemberStep(u) /\ BanStep(u))
  BY <1>1, <1>2, <1>3 DEF TypeOK, GroupStep, MemberStep, BanStep
<1>8. (\A m \in Messages : MessageStep(m)) /\ EventStep
  BY <1>1, <1>2, <1>3 DEF TypeOK, MessageStep, EventStep
<1> QED
  BY <1>3, <1>5, <1>6, <1>7, <1>8, LoneJudged

\* The group itself.
LEMMA InsertGroupJudged ==
  ASSUME IInv, NEW c \in Calls, InsertGroup(c)
  PROVE  Judged
<1>1. TypeOK /\ CallTyped(call[c]) /\ call[c] \in CallType /\ Running(c)
  BY DEF IInv, TypeOK, InsertGroup, At, Running
<1>2. /\ call[c].op = "create" /\ call[c].at = "start"
      /\ group = "none" /\ group' = "live"
      /\ UNCHANGED <<role, ban, message, events>>
  BY DEF InsertGroup, At
<1>3. /\ call' \in [Calls -> CallType]
      /\ \A k \in Calls : k # c => call'[k] = call[k]
      /\ Moved(c)
  <2>1. CASE Answer(c, "refused")
    BY <1>1, <2>1, RefusalMoves
  <2>2. CASE Goto(c, "insertOwner")
    <3>1. /\ call' \in [Calls -> CallType]
          /\ \A k \in Calls : k # c => call'[k] = call[k]
          /\ call'[c].op = call[c].op /\ call'[c].by = call[c].by
          /\ call'[c].target = call[c].target /\ call'[c].forGood = call[c].forGood
          /\ call'[c].msg = call[c].msg /\ call'[c].role = call[c].role
          /\ call'[c].answer = "none"
          /\ call'[c].at = "insertOwner" /\ call'[c].before = Before(c)
      BY <1>1, <2>2, GotoFields DEF Steps, CallTyped, Running
    <3>2. CallTyped(call'[c])
      BY <1>1, <1>2, <3>1 DEF CallTyped, MessageOps
    <3> QED
      BY <1>1, <1>2, <3>1, <3>2 DEF Moved, Unstepped, RemovalOps, RoleOps
  <2> QED
    BY <2>1, <2>2 DEF InsertGroup
<1>4. TypeOK'
  BY <1>1, <1>2, <1>3 DEF TypeOK
<1>5. GroupStep /\ (\A u \in Users : MemberStep(u) /\ BanStep(u))
  BY <1>2 DEF GroupStep, MemberStep, BanStep
<1>6. (\A m \in Messages : MessageStep(m)) /\ EventStep
  BY <1>2 DEF MessageStep, EventStep
<1> QED
  BY <1>3, <1>4, <1>5, <1>6, LoneJudged

\* A message.
LEMMA InsertMessageJudged ==
  ASSUME IInv, NEW c \in Calls, InsertMessage(c)
  PROVE  Judged
<1>1. TypeOK /\ CallTyped(call[c]) /\ call[c] \in CallType /\ Running(c)
  BY DEF IInv, TypeOK, InsertMessage, Running
<1>2. CASE Answer(c, "refused") /\ UNCHANGED rowVars
  BY <1>1, <1>2, RefusalMoves, QuietJudged
<1>3. ASSUME NEW m \in Messages, group # "deleted", message[m].state = "none",
             message' = [message EXCEPT ![m] = NewRow(call[c].by)],
             call' = [call EXCEPT ![c].at = "publish", ![c].msg = m]
      PROVE  Judged
  <2> DEFINE q == [call[c] EXCEPT !.at = "publish", !.msg = m]
  <2>1. /\ call[c].op \in {"send", "reply"} /\ call[c].at = "insertMessage" /\ ~Pristine
        /\ UNCHANGED <<group, role, ban, events>>
    BY DEF InsertMessage, Pristine, Unstepped
  <2>2. call' = [call EXCEPT ![c] = q]
    BY <1>1, <1>3 DEF CallType
  <2>3. q \in CallType
    BY <1>1 DEF CallType
  <2>4. /\ q.op = call[c].op /\ q.by = call[c].by /\ q.target = call[c].target
        /\ q.forGood = call[c].forGood /\ q.msg = m /\ q.answer = call[c].answer
        /\ q.at = "publish" /\ q.role = call[c].role /\ q.before = Before(c)
    BY <1>1, <2>1 DEF CallType, Before
  <2> HIDE DEF q
  <2>5. /\ call' \in [Calls -> CallType]
        /\ \A k \in Calls : k # c => call'[k] = call[k]
        /\ call'[c] = q
    BY <1>1, <2>2, <2>3 DEF TypeOK
  <2>6. CallTyped(q) /\ q.answer = "none"
    BY <1>1, <2>1, <2>4 DEF CallTyped, Running
  <2>7. message'[m].state = "here"
    BY <1>1, <1>3 DEF TypeOK, NewRow
  <2>8. Moved(c)
    BY <1>1, <2>1, <2>4, <2>5, <2>6, <2>7 DEF Moved, Unstepped, RemovalOps, RoleOps
  <2>9. TypeOK'
    BY <1>1, <1>3, <2>1, <2>5 DEF TypeOK, NewRow, CallType
  <2>10. GroupStep /\ (\A u \in Users : MemberStep(u) /\ BanStep(u))
    BY <2>1 DEF GroupStep, MemberStep, BanStep
  <2>11. (\A k \in Messages : MessageStep(k)) /\ EventStep
    BY <1>1, <1>3, <2>1, <2>7 DEF TypeOK, MessageStep, EventStep
  <2> QED
    BY <2>5, <2>8, <2>9, <2>10, <2>11, LoneJudged
<1> QED
  BY <1>2, <1>3 DEF InsertMessage, rowVars

\* The judgement of any step.
LEMMA StepJudged ==
  ASSUME IInv, Next
  PROVE  Judged
<1>1. ASSUME NEW c \in Calls, Membership(c)
      PROVE  Judged
  BY <1>1, InsertGroupJudged, InsertOwnerJudged, BanCheckJudged, RoleCheckJudged,
     InsertMemberJudged, TargetRoleJudged, InsertBanJudged, DeleteMemberJudged,
     DeleteBanJudged, LeaveCheckJudged, ArchiveGroupJudged, DeleteGroupJudged DEF Membership
<1>2. ASSUME NEW c \in Calls, Messaging(c)
      PROVE  Judged
  BY <1>2, MemberCheckJudged, ReadParentJudged, InsertMessageJudged, PublishJudged,
     SenderCheckJudged, UpdateMessageJudged, AccessCheckJudged, DeleteMessageJudged DEF Messaging
<1> QED
  BY <1>1, <1>2, FailJudged, CrashJudged, LapseJudged DEF Next

-----------------------------------------------------------------------------
(* What the judgement preserves *)

\* What was asked never changes, what has ended stays as it is, and whoever
\* began before keeps the list it began with.
LEMMA CallsKept ==
  ASSUME IInv, Judged, NEW k \in Calls
  PROVE  /\ call'[k].op = call[k].op /\ call'[k].by = call[k].by
         /\ call'[k].target = call[k].target /\ call'[k].forGood = call[k].forGood
         /\ Removed(k)' = Removed(k)
         /\ call[k].at = "done" => call'[k] = call[k]
         /\ call[k].at # "start" => call'[k].before = call[k].before
         /\ \A j \in call'[k].before : call[j].at = "done"
         /\ CallTyped(call'[k])
<1>1. \A j \in call[k].before : call[j].at = "done"
  BY DEF IInv, BeforeInv, Running
<1>2. CASE call'[k] = call[k]
  BY <1>1, <1>2 DEF IInv, Removed
<1>3. CASE Moved(k)
  <2>1. /\ call'[k].op = call[k].op /\ call'[k].by = call[k].by
        /\ call'[k].target = call[k].target /\ call'[k].forGood = call[k].forGood
        /\ call[k].at # "done" /\ CallTyped(call'[k]) /\ call'[k].before = Before(k)
    BY <1>3 DEF Moved, Running
  <2>2. \A j \in Before(k) : call[j].at = "done"
    BY <1>1 DEF Before, Running
  <2> QED
    BY <1>1, <2>1, <2>2 DEF Removed, Before
<1> QED
  BY <1>2, <1>3 DEF Judged, CallStep

LEMMA BeforeKept ==
  ASSUME IInv, Judged
  PROVE  BeforeInv'
<1>1. ASSUME NEW k \in Calls, NEW j \in call'[k].before
      PROVE  call'[j].at = "done"
  <2>1. j \in Calls
    BY <1>1 DEF Judged, TypeOK, CallType
  <2> QED
    BY <1>1, <2>1, CallsKept
<1> QED
  BY <1>1 DEF BeforeInv, Running

\* Nobody enters an untouched group but its owner.
LEMMA PristineKept ==
  ASSUME IInv, Judged, Pristine
  PROVE  \/ Pristine'
         \/ Owned' /\ \E c \in Calls : call[c].at = "insertOwner" /\ call'[c].at = "done"
<1>1. CASE \E u \in Users : role'[u] = "owner"
  <2>1. PICK u \in Users : role'[u] = "owner"
    BY <1>1
  <2>2. role[u] = "none" /\ MemberStep(u)
    BY DEF Pristine, Judged
  <2> QED
    BY <2>1, <2>2 DEF MemberStep, Owned
<1>2. CASE \A u \in Users : role'[u] # "owner"
  <2>1. ASSUME NEW u \in Users
        PROVE  role'[u] = "none"
    <3>1. role[u] = "none" /\ MemberStep(u) /\ role'[u] # "owner"
      BY <1>2 DEF Pristine, Judged
    <3>2. \A a \in Calls : call[a].at # "insertMember"
      BY DEF Pristine, Unstepped
    <3> QED
      BY <3>1, <3>2 DEF MemberStep
  <2>2. ASSUME NEW m \in Messages
        PROVE  message'[m].state = "none"
    BY DEF Pristine, Judged, MessageStep
  <2>3. ASSUME NEW k \in Calls
        PROVE  /\ call'[k].at \in Unstepped
               /\ call'[k].role = "none"
               /\ call'[k].op # "create" => call'[k].answer # "ok"
    <3>1. CASE call'[k] = call[k]
      BY <3>1 DEF Pristine
    <3>2. CASE Moved(k)
      BY <3>2 DEF Pristine, Moved
    <3> QED
      BY <3>1, <3>2 DEF Judged, CallStep
  <2> QED
    BY <2>1, <2>2, <2>3 DEF Pristine
<1> QED
  BY <1>1, <1>2

\* Whoever inserts an owner is alone with an untouched group.
LEMMA InsertingOwner ==
  ASSUME IInv, NEW c \in Calls, call[c].at = "insertOwner"
  PROVE  /\ group = "live" /\ Pristine
         /\ \A k \in Calls : call[k].at = "insertOwner" => k = c
BY DEF IInv, GroupInv

LEMMA OwnerKept ==
  ASSUME IInv, Judged
  PROVE  OwnerInv'
<1>1. ASSUME NEW u \in Users
      PROVE  /\ role'[u] \in {"none", "member", "owner"}
             /\ role'[u] = "owner" => \/ role[u] = "owner"
                                      \/ Pristine /\ \E c \in Calls :
                                            call[c].at = "insertOwner" /\ call[c].by = u
  <2>1. MemberStep(u) /\ role[u] \in {"none", "member", "owner"}
    BY DEF Judged, IInv, OwnerInv
  <2> QED
    BY <2>1, InsertingOwner DEF MemberStep
<1>2. ASSUME NEW u \in Users, NEW v \in Users, role'[u] = "owner", role'[v] = "owner"
      PROVE  u = v
  <2>1. CASE Pristine
    <3>1. role[u] = "none" /\ role[v] = "none"
      BY <2>1 DEF Pristine
    <3> QED
      BY <1>1, <1>2, <3>1, InsertingOwner
  <2>2. CASE ~Pristine
    BY <1>1, <1>2, <2>2 DEF IInv, OwnerInv
  <2> QED
    BY <2>1, <2>2
<1>3. ASSUME NEW c \in Calls, NEW u \in Users, call'[c].role = "owner", role'[u] = "owner"
      PROVE  u = call'[c].by
  <2>1. call'[c].by = call[c].by /\ call[c].by \in Users
    BY CallsKept DEF IInv, TypeOK, CallType
  <2>2. call[c].role = "owner" \/ role[call[c].by] = "owner"
    BY <1>3 DEF Judged, CallStep, Moved
  <2>3. ~Pristine
    BY <2>1, <2>2 DEF Pristine
  <2>4. role[u] = "owner"
    BY <1>1, <1>3, <2>3
  <2> QED
    BY <2>1, <2>2, <2>4 DEF IInv, OwnerInv
<1>4. ASSUME NEW c \in Calls, call'[c].op = "leave", call'[c].at = "deleteMember"
      PROVE  role'[call'[c].by] # "owner"
  <2>1. call'[c].by = call[c].by /\ call[c].by \in Users /\ call[c].op = "leave"
    BY <1>4, CallsKept DEF IInv, TypeOK, CallType
  <2>2. role[call[c].by] # "owner" /\ ~Pristine
    <3>1. CASE call'[c] = call[c]
      BY <1>4, <3>1 DEF IInv, OwnerInv, Pristine, Unstepped
    <3>2. CASE Moved(c)
      BY <1>4, <2>1, <3>2 DEF Moved, Pristine, Unstepped
    <3> QED
      BY <3>1, <3>2 DEF Judged, CallStep
  <2> QED
    BY <1>1, <2>1, <2>2
<1> QED
  BY <1>1, <1>2, <1>3, <1>4 DEF OwnerInv

LEMMA GroupKept ==
  ASSUME IInv, Judged
  PROVE  GroupInv'
<1>1. ASSUME group' = "none"
      PROVE  Pristine' /\ \A c \in Calls : call'[c].at # "insertOwner"
  <2>1. group = "none"
    BY <1>1 DEF Judged, GroupStep
  <2>2. Pristine /\ \A c \in Calls : call[c].at # "insertOwner"
    BY <2>1 DEF IInv, GroupInv
  <2>3. Pristine'
    BY <2>2, PristineKept
  <2>4. \A c \in Calls : call'[c].at # "insertOwner"
    BY <1>1, <2>2 DEF Judged, CallStep, Moved
  <2> QED
    BY <2>3, <2>4
<1>2. ASSUME NEW c \in Calls, call'[c].at = "insertOwner"
      PROVE  /\ group' = "live"
             /\ Pristine'
             /\ \A k \in Calls : call'[k].at = "insertOwner" => k = c
  <2>1. CASE call'[c] = call[c]
    <3>1. /\ group = "live" /\ Pristine
          /\ \A k \in Calls : call[k].at = "insertOwner" => k = c
      BY <1>2, <2>1, InsertingOwner
    <3>2. Pristine'
      BY <1>2, <3>1, PristineKept
    <3> QED
      BY <3>1, <3>2 DEF Judged, GroupStep, CallStep, Moved
  <2>2. CASE call'[c] # call[c]
    <3>1. group = "none" /\ group' = "live"
      BY <1>2, <2>2 DEF Judged, CallStep, Moved
    <3>2. Pristine /\ \A k \in Calls : call[k].at # "insertOwner"
      BY <3>1 DEF IInv, GroupInv
    <3>3. Pristine'
      BY <3>2, PristineKept
    <3>4. ASSUME NEW k \in Calls, call'[k].at = "insertOwner"
          PROVE  k = c
      BY <1>2, <2>2, <3>2, <3>4 DEF Judged, OneMoves
    <3> QED
      BY <3>1, <3>3, <3>4
  <2> QED
    BY <2>1, <2>2
<1>3. ASSUME group' \in {"live", "archived"}
      PROVE  Owned' \/ Pristine' \/ SelfRemoved'
  <2>1. Owned \/ Pristine \/ SelfRemoved
    BY <1>3 DEF Judged, GroupStep, IInv, GroupInv
  <2>2. CASE Pristine
    BY <2>2, PristineKept
  <2>3. CASE SelfRemoved
    <3>1. PICK c \in Calls : /\ call[c].op \in {"kick", "ban"} /\ call[c].at = "done"
                             /\ call[c].target = call[c].by /\ call[c].role = "owner"
      BY <2>3 DEF SelfRemoved
    <3>2. call'[c] = call[c]
      BY <3>1, CallsKept
    <3> QED
      BY <3>1, <3>2 DEF SelfRemoved
  <2>4. CASE Owned
    <3>1. PICK u \in Users : role[u] = "owner"
      BY <2>4 DEF Owned
    <3>2. CASE role'[u] = "owner"
      BY <3>2 DEF Owned
    <3>3. CASE role'[u] # "owner"
      <4>1. PICK c \in Calls : /\ call[c].op \in {"kick", "ban"} /\ call[c].at = "deleteMember"
                               /\ call[c].target = u /\ call'[c].at = "done"
        BY <1>3, <3>1, <3>3 DEF Judged, MemberStep
      <4>2. call[c].role = "owner"
        BY <4>1 DEF IInv, CallTyped
      <4>3. call[c].by = u
        BY <3>1, <4>2 DEF IInv, OwnerInv
      <4>4. call'[c].role = "owner"
        BY <4>2 DEF Judged, CallStep, Moved
      <4> QED
        BY <4>1, <4>3, <4>4, CallsKept DEF SelfRemoved
    <3> QED
      BY <3>2, <3>3
  <2> QED
    BY <2>1, <2>2, <2>3, <2>4
<1>4. DeletedGroupIsEmpty'
  <2>1. CASE group' = "none"
    BY <1>1, <2>1 DEF DeletedGroupIsEmpty, Pristine
  <2>2. CASE group' = "deleted" /\ group # "deleted"
    BY <2>2 DEF DeletedGroupIsEmpty, Judged, GroupStep
  <2>3. CASE group' = "deleted" /\ group = "deleted"
    <3>1. ASSUME NEW u \in Users
          PROVE  role'[u] = "none"
      <4>1. role[u] = "none" /\ MemberStep(u)
        BY <2>3 DEF IInv, GroupInv, DeletedGroupIsEmpty, Judged
      <4> QED
        BY <2>3, <4>1, InsertingOwner DEF MemberStep
    <3>2. ASSUME NEW m \in Messages
          PROVE  message'[m].state # "here"
      BY <2>3 DEF IInv, GroupInv, DeletedGroupIsEmpty, Judged, MessageStep
    <3> QED
      BY <3>1, <3>2 DEF DeletedGroupIsEmpty
  <2> QED
    BY <2>1, <2>2, <2>3 DEF DeletedGroupIsEmpty
<1> QED
  BY <1>1, <1>2, <1>3, <1>4 DEF GroupInv

\* Who removed, or banned, did so before the step or by it.
LEMMA Outsiders ==
  ASSUME IInv, Judged, NEW u \in Users, role[u] = "none", role'[u] # "none"
  PROVE  \/ \E a \in Calls : Adds(a, u) /\ call[a].at = "insertMember" /\ call'[a].at = "done"
         \/ Pristine
<1>1. MemberStep(u)
  BY DEF Judged
<1> QED
  BY <1>1, InsertingOwner DEF MemberStep

\* Who is out does not delete the message of another.
LEMMA RemoveOut ==
  ASSUME IInv, Judged, NEW s \in Calls, NEW b \in call'[s].before,
         call[s].op = "remove", role[call[s].by] = "none", AsksMembership(s)',
         b \in call[s].before /\ AsksMembership(s)
             => call[s].answer # "ok" /\ call[s].at \in {"roleCheck", "done"}
  PROVE  call'[s].answer # "ok" /\ call'[s].at \in {"roleCheck", "done"}
<1>1. /\ CallTyped(call[s]) /\ CallTyped(call'[s]) /\ call[s].msg \in Messages
      /\ call'[s].op = "remove" /\ call'[s].by = call[s].by
  BY CallsKept DEF IInv, CallTyped, MessageOps
<1>2. call'[s].msg = call[s].msg
  BY DEF Judged, CallStep, Moved
<1>3. message'[call[s].msg].sender # call[s].by
  BY <1>1, <1>2 DEF AsksMembership, RoleOps
<1>4. ASSUME message[call[s].msg].state # "none"
      PROVE  message[call[s].msg].sender # call[s].by /\ AsksMembership(s)
  BY <1>1, <1>3, <1>4 DEF Judged, MessageStep, AsksMembership
<1>5. CASE call[s].at = "start"
  <2>1. Moved(s)
    BY <1>1, <1>5 DEF Judged, CallStep, CallTyped
  <2> QED
    BY <1>4, <1>5, <2>1 DEF Moved
<1>6. CASE call[s].at # "start" /\ message[call[s].msg].state # "none"
  <2>1. call[s].answer # "ok" /\ call[s].at = "done"
    BY <1>1, <1>4, <1>6, CallsKept DEF CallTyped
  <2> QED
    BY <2>1, CallsKept
<1>7. CASE call[s].at # "start" /\ message[call[s].msg].state = "none"
  <2>1. call[s].at = "done" /\ call[s].answer # "ok"
    <3>1. call[s].at \notin {"deleteMessage", "publish"}
      BY <1>1, <1>7 DEF IInv, EventInv, RowOf
    <3>2. ASSUME call[s].answer = "ok"
          PROVE  FALSE
      <4>1. <<"MessageDeleted", call[s].msg>> \in events
        BY <1>1, <3>2 DEF IInv, EventInv, EventsAreTrue, EventOf
      <4> QED
        BY <1>7, <4>1 DEF IInv, EventInv, EventsAreTrue
    <3> QED
      BY <1>1, <1>7, <3>1, <3>2 DEF CallTyped
  <2> QED
    BY <2>1, CallsKept
<1> QED
  BY <1>5, <1>6, <1>7

\* Whoever was out stays out.
LEMMA OutKept ==
  ASSUME IInv, Judged
  PROVE  OutIsOut'
<1> SUFFICES ASSUME NEW b \in Calls, RemovedBy(b)', ~Readmitted(b)'
             PROVE  /\ role'[Removed(b)'] = "none"
                    /\ \A s \in Calls :
                          call'[s].by = Removed(b)' /\ b \in call'[s].before /\ AsksMembership(s)'
                             => call'[s].answer # "ok" /\ call'[s].at \in {"roleCheck", "done"}
  BY DEF OutIsOut
<1> DEFINE u == Removed(b)
<1>1. /\ Removed(b)' = u /\ call[b].op \in RemovalOps /\ call'[b].answer = "ok"
      /\ CallTyped(call[b]) /\ CallTyped(call'[b])
  BY CallsKept DEF RemovedBy, IInv
<1>2. u \in Users
  BY <1>1 DEF IInv, TypeOK, CallType, CallTyped, RemovalOps, Removed
<1> HIDE DEF u
<1>3. CASE call'[b] = call[b]
  <2>1. RemovedBy(b) /\ call[b].at = "done"
    BY <1>1, <1>3 DEF RemovedBy, CallTyped
  <2>2. ~Readmitted(b)
    <3>1. \A a \in Calls : call'[a].op = "add" /\ call'[a].target = u <=> Adds(a, u)
      BY CallsKept DEF Adds
    <3> QED
      BY <1>1, <1>3, <3>1 DEF Readmitted, u, Adds
  <2>3. /\ role[u] = "none"
        /\ \A s \in Calls : call[s].by = u /\ b \in call[s].before /\ AsksMembership(s)
              => call[s].answer # "ok" /\ call[s].at \in {"roleCheck", "done"}
    BY <2>1, <2>2 DEF IInv, OutIsOut, u
  <2>4. role'[u] = "none"
    <3>1. ~Pristine
      BY <1>1, <2>1, <1>3 DEF Pristine, RemovalOps
    <3>2. ASSUME NEW a \in Calls, Adds(a, u), call[a].at = "insertMember"
          PROVE  FALSE
      <4>1. a \notin call[b].before
        BY <3>2 DEF IInv, BeforeInv, Running
      <4> QED
        BY <2>2, <3>2, <4>1 DEF Readmitted, u
    <3> QED
      BY <1>2, <2>3, <3>1, <3>2, Outsiders
  <2>5. ASSUME NEW s \in Calls, call'[s].by = u, b \in call'[s].before, AsksMembership(s)'
        PROVE  call'[s].answer # "ok" /\ call'[s].at \in {"roleCheck", "done"}
    <3>1. /\ call'[s].op = call[s].op /\ call[s].by = u
          /\ CallTyped(call[s]) /\ CallTyped(call'[s])
      BY <2>5, CallsKept DEF IInv
    <3>2. CASE call[s].op = "remove"
      BY <2>3, <2>5, <3>1, <3>2, RemoveOut
    <3>3. CASE call[s].op # "remove"
      <4>1. call[s].op \in {"send", "add", "leave"} \cup RoleOps /\ AsksMembership(s)
        BY <2>5, <3>1, <3>3 DEF AsksMembership
      <4>2. CASE call'[s] = call[s]
        BY <2>3, <2>5, <3>1, <4>1, <4>2
      <4>3. CASE Moved(s) /\ call[s].at \in {"start", "roleCheck"}
        BY <2>3, <3>1, <4>1, <4>3 DEF Moved, CallTyped
      <4>4. CASE Moved(s) /\ call[s].at \notin {"start", "roleCheck"}
        <5>1. b \in call[s].before
          BY <2>5, <4>4, CallsKept
        <5> QED
          BY <2>3, <3>1, <4>1, <4>4, <5>1 DEF Moved, Running
      <4> QED
        BY <4>2, <4>3, <4>4 DEF Judged, CallStep
    <3> QED
      BY <3>2, <3>3
  <2> QED
    BY <1>1, <2>4, <2>5
<1>4. CASE Moved(b)
  <2>1. role'[u] = "none"
    BY <1>1, <1>4 DEF Moved, u
  <2>2. ASSUME NEW s \in Calls, b \in call'[s].before
        PROVE  FALSE
    BY <2>2, <1>4, CallsKept DEF Moved, Running
  <2> QED
    BY <1>1, <2>1, <2>2
<1> QED
  BY <1>3, <1>4 DEF Judged, CallStep

\* The row of a ban without rival stays.
LEMMA BanRowKept ==
  ASSUME IInv, Judged, NEW b \in Calls
  PROVE  BanRow(b)'
<1> SUFFICES ASSUME call'[b].op = "ban", call'[b].forGood,
                    \A c \in Calls \ call'[b].before :
                       call'[c].op \in {"ban", "unban"} /\ call'[c].target = call'[b].target => c = b,
                    call'[b].at = "deleteMember" \/ call'[b].answer = "ok"
             PROVE  ban'[call'[b].target] = "forever"
  BY DEF BanRow
<1> DEFINE t == call[b].target
<1>1. /\ call'[b].target = t /\ call[b].op = "ban" /\ call[b].forGood /\ t \in Users
      /\ \A c \in Calls : call'[c].op = call[c].op /\ call'[c].target = call[c].target
      /\ CallTyped(call[b])
  BY CallsKept DEF IInv, CallTyped
<1>2. CASE Moved(b) /\ call'[b].at = "deleteMember"
  BY <1>1, <1>2 DEF Moved
<1>3. CASE \/ call'[b] = call[b]
           \/ Moved(b) /\ call'[b].at # "deleteMember"
  <2>1. call[b].at = "deleteMember" \/ call[b].answer = "ok"
    BY <1>1, <1>3 DEF Moved, RemovalOps
  <2>2. call'[b].before = call[b].before
    BY <1>1, <2>1, CallsKept DEF CallTyped
  <2>3. \A c \in Calls \ call[b].before :
           call[c].op \in {"ban", "unban"} /\ call[c].target = t => c = b
    BY <1>1, <2>2
  <2>4. ban[t] = "forever"
    BY <1>1, <2>1, <2>3 DEF IInv, BanRow
  <2>5. ASSUME NEW c \in Calls, call[c].op \in {"ban", "unban"}, call[c].target = t,
               call[c].at \in {"insertBan", "deleteBan"}
        PROVE  FALSE
    <3>1. c \notin call[b].before
      BY <2>5 DEF IInv, BeforeInv, Running
    <3>2. c = b
      BY <2>3, <2>5, <3>1
    <3> QED
      BY <1>1, <2>1, <2>5, <3>2 DEF CallTyped
  <2>6. BanStep(t)
    BY <1>1 DEF Judged
  <2> QED
    BY <1>1, <2>4, <2>5, <2>6 DEF BanStep
<1> QED
  BY <1>2, <1>3 DEF Judged, CallStep

\* A ban that was answered before the step was one before it.
LEMMA BannedBack ==
  ASSUME IInv, Judged, NEW b \in Calls, BannedBy(b)', ~Moved(b)
  PROVE  BannedBy(b) /\ call'[b] = call[b] /\ call[b].at = "done"
<1>1. call'[b] = call[b]
  BY DEF Judged, CallStep
<1> QED
  BY <1>1, CallsKept DEF BannedBy, IInv, CallTyped

LEMMA LateAddKept ==
  ASSUME IInv, Judged, NEW b \in Calls
  PROVE  LateAdd(b)'
<1> SUFFICES ASSUME BannedBy(b)', NEW a \in Calls, Adds(a, call[b].target)', b \in call'[a].before
             PROVE  call'[a].at = "done" /\ call'[a].answer # "ok"
  <2>1. call'[b].target = call[b].target
    BY CallsKept
  <2> QED
    BY <2>1 DEF LateAdd, Adds
<1>1. Adds(a, call[b].target) /\ CallTyped(call[a]) /\ call[b].at = "done"
  BY CallsKept DEF Adds, IInv
<1>2. BannedBy(b) /\ call[b].at = "done"
  BY <1>1, BannedBack DEF Moved, Running
<1>3. CASE call'[a] = call[a]
  BY <1>1, <1>2, <1>3 DEF IInv, LateAdd
<1>4. CASE Moved(a)
  <2>1. call[a].at = "start"
    BY <1>1, <1>2, <1>4, CallsKept DEF IInv, LateAdd, Moved, Running
  <2>2. ban[call[b].target] = "forever"
    BY <1>2 DEF IInv, BanRow, BannedBy
  <2> QED
    BY <1>1, <1>4, <2>1, <2>2 DEF Moved, Adds, ActiveBan
<1> QED
  BY <1>3, <1>4 DEF Judged, CallStep

LEMMA BanHoldsKept ==
  ASSUME IInv, Judged
  PROVE  BanHolds'
<1>0. \A b \in Calls : BanRow(b)' /\ LateAdd(b)'
  BY BanRowKept, LateAddKept
<1> SUFFICES ASSUME NEW b \in Calls, BannedBy(b)'
             PROVE  role'[call'[b].target] # "none" =>
                       \E a \in Calls : /\ call'[a].op = "add" /\ call'[a].target = call'[b].target
                                        /\ call'[a].at = "done"
                                        /\ a \notin call'[b].before /\ b \notin call'[a].before
  BY <1>0 DEF BanHolds, BanRow, BannedBy, LateAdd, Adds
<1> DEFINE t == call[b].target
<1>1. /\ call'[b].target = t /\ t \in Users /\ call[b].op = "ban" /\ call'[b].answer = "ok"
      /\ \A a \in Calls : call'[a].op = "add" /\ call'[a].target = t <=> Adds(a, t)
  BY CallsKept DEF BannedBy, IInv, CallTyped, Adds
<1>2. CASE Moved(b)
  BY <1>1, <1>2 DEF Moved, RemovalOps, Removed
<1>3. CASE ~Moved(b)
  <2>1. BannedBy(b) /\ call'[b] = call[b] /\ call[b].at = "done"
    BY <1>3, BannedBack
  <2>2. CASE role[t] # "none"
    <3>1. PICK a \in Calls : /\ Adds(a, t) /\ call[a].at = "done"
                             /\ a \notin call[b].before /\ b \notin call[a].before
      BY <2>1, <2>2 DEF IInv, BanHolds
    <3> QED
      BY <1>1, <2>1, <3>1, CallsKept
  <2>3. CASE role[t] = "none" /\ role'[t] # "none"
    <3>1. ~Pristine
      BY <1>1, <2>1 DEF Pristine
    <3>2. PICK a \in Calls : Adds(a, t) /\ call[a].at = "insertMember" /\ call'[a].at = "done"
      BY <1>1, <2>3, <3>1, Outsiders
    <3>3. a \notin call[b].before
      BY <3>2 DEF IInv, BeforeInv, Running
    <3>4. b \notin call[a].before
      BY <2>1, <3>2 DEF IInv, LateAdd
    <3> QED
      BY <1>1, <2>1, <3>2, <3>3, <3>4, CallsKept
  <2> QED
    BY <1>1, <2>2, <2>3
<1> QED
  BY <1>2, <1>3

LEMMA EventKept ==
  ASSUME IInv, Judged
  PROVE  EventInv'
<1>1. ASSUME NEW m \in Messages
      PROVE  /\ message[m].state # "none" => message'[m].state # "none"
             /\ message[m].state = "gone" => message'[m].state = "gone"
  BY DEF Judged, MessageStep
<1>2. ASSUME NEW c \in Calls
      PROVE  /\ call'[c].at = "publish" => RowOf(call[c].op, call[c].msg)'
             /\ call'[c].at = "deleteMessage" => message'[call'[c].msg].state # "none"
             /\ call'[c].op \in {"send", "reply", "remove"} /\ call'[c].answer = "ok"
                   => <<EventOf(call'[c].op), call'[c].msg>> \in events'
  <2>1. CASE call'[c] = call[c]
    <3>1. call[c].at \in {"publish", "deleteMessage"} => call[c].msg \in Messages
      BY DEF IInv, CallTyped
    <3> QED
      BY <1>1, <2>1, <3>1 DEF IInv, EventInv, EventsAreTrue, RowOf, Judged, EventStep
  <2>2. CASE Moved(c)
    BY <2>2 DEF Moved, RowOf
  <2> QED
    BY <2>1, <2>2 DEF Judged, CallStep
<1>3. ASSUME NEW e \in events'
      PROVE  IF e[1] = "MessageDeleted" THEN message'[e[2]].state = "gone"
                                        ELSE message'[e[2]].state # "none"
  <2>1. CASE e \in events
    <3>1. e[2] \in Messages
      BY <2>1 DEF IInv, TypeOK
    <3> QED
      BY <1>1, <2>1, <3>1 DEF IInv, EventInv, EventsAreTrue
  <2>2. CASE e \notin events
    <3>1. PICK c \in Calls : /\ call[c].at = "publish" /\ e = <<EventOf(call[c].op), call[c].msg>>
                             /\ call[c].op \in {"send", "reply", "remove"}
      BY <1>3, <2>2 DEF Judged, EventStep
    <3>2. call[c].msg \in Messages /\ RowOf(call[c].op, call[c].msg)
      BY <3>1 DEF IInv, CallTyped, EventInv
    <3> QED
      BY <1>1, <3>1, <3>2 DEF EventOf, RowOf
  <2> QED
    BY <2>1, <2>2
<1>4. EventsAreTrue'
  BY <1>2, <1>3 DEF EventsAreTrue
<1> QED
  BY <1>2, <1>4 DEF EventInv

-----------------------------------------------------------------------------
(* The theorems *)

LEMMA InitInvariant ==
  Init => IInv
<1> SUFFICES ASSUME Init
             PROVE  IInv
  OBVIOUS
<1>1. ASSUME NEW c \in Calls
      PROVE  /\ call[c] \in CallType /\ CallTyped(call[c])
             /\ call[c].at = "start" /\ call[c].before = {} /\ call[c].answer = "none"
             /\ call[c].role = "none"
  <2>1. call[c] \in Requests
    BY DEF Init
  <2>2. call[c] \in CallType
    BY <2>1 DEF Requests, Fresh, CallType
  <2>3. CallTyped(call[c])
    BY <2>1 DEF Requests, Fresh, CallTyped, MessageOps
  <2> QED
    BY <2>1, <2>2, <2>3 DEF Requests, Fresh
<1>2. call \in [Calls -> CallType]
  BY <1>1 DEF Init
<1>3. CASE Settled
  <2>1. PICK o \in Users : role \in {r \in [Users -> {"owner", "member", "none"}] :
                                        \A u \in Users : r[u] = "owner" <=> u = o}
    BY <1>3 DEF Settled
  <2>2. message \in [Messages -> {NoRow} \cup {NewRow(u) : u \in Users}]
    BY <1>3 DEF Settled
  <2>3. TypeOK
    <3>1. role \in [Users -> Roles \cup {"none"}]
      BY <2>1 DEF Roles
    <3>2. NoRow \in MessageType /\ \A v \in Users : NewRow(v) \in MessageType
      BY DEF NoRow, NewRow, MessageType
    <3>3. message \in [Messages -> MessageType]
      BY <2>2, <3>2
    <3> QED
      BY <1>2, <1>3, <3>1, <3>3 DEF TypeOK, Init, Settled, MessageType
  <2> QED
    BY <1>1, <1>3, <2>1, <2>3 DEF IInv, Init, Settled, BeforeInv, OwnerInv, GroupInv, Owned,
       DeletedGroupIsEmpty, OutIsOut, RemovedBy, BanRow, LateAdd, BannedBy, BanHolds,
       EventInv, EventsAreTrue
<1>4. CASE Empty
  <2>1. TypeOK
    BY <1>2, <1>4 DEF TypeOK, Init, Empty, NoRow
  <2>2. Pristine
    BY <1>1, <1>4 DEF Pristine, Empty, NoRow, Unstepped
  <2> QED
    BY <1>1, <1>4, <2>1, <2>2 DEF IInv, Init, Empty, BeforeInv, OwnerInv, GroupInv,
       DeletedGroupIsEmpty, NoRow, OutIsOut, RemovedBy, BanRow, LateAdd, BannedBy, BanHolds,
       EventInv, EventsAreTrue
<1> QED
  BY <1>3, <1>4 DEF Init

LEMMA StepInvariant ==
  IInv /\ [Next]_vars => IInv'
<1> SUFFICES ASSUME IInv, [Next]_vars
             PROVE  IInv'
  OBVIOUS
<1>1. CASE Next
  <2>1. Judged
    BY <1>1, StepJudged
  <2>2. TypeOK' /\ \A c \in Calls : CallTyped(call'[c])
    BY <2>1, CallsKept DEF Judged
  <2> QED
    BY <2>1, <2>2, BeforeKept, OwnerKept, GroupKept, OutKept, BanRowKept, LateAddKept,
       BanHoldsKept, EventKept DEF IInv
<1>2. CASE UNCHANGED vars
  <2>1. Judged
    BY <1>2 DEF IInv, TypeOK, vars, Judged, CallStep, OneMoves, GroupStep, MemberStep, BanStep,
       MessageStep, EventStep
  <2>2. TypeOK' /\ \A c \in Calls : CallTyped(call'[c])
    BY <2>1, CallsKept DEF Judged
  <2> QED
    BY <2>1, <2>2, BeforeKept, OwnerKept, GroupKept, OutKept, BanRowKept, LateAddKept,
       BanHoldsKept, EventKept DEF IInv
<1> QED
  BY <1>1, <1>2

\* The inductive invariant holds in every reachable state of a group.
THEOREM GroupInvariance == Spec => []IInv
<1> QED
  BY InitInvariant, StepInvariant, PTL DEF Spec

\* Rows and requests keep their types.
THEOREM GroupTypeCorrect == Spec => []TypeOK
<1>1. IInv => TypeOK
  BY DEF IInv
<1> QED
  BY <1>1, GroupInvariance, PTL

\* A deleted group has neither members nor messages, whatever was between its
\* check and its write when the group was deleted.
THEOREM NothingOutlivesTheGroup == Spec => []DeletedGroupIsEmpty
<1>1. IInv => DeletedGroupIsEmpty
  BY DEF IInv, GroupInv
<1> QED
  BY <1>1, GroupInvariance, PTL

\* Who was removed is out of the members and of every route that asks for
\* membership, unless an add ran beside the removal or after it.
THEOREM RemovedStaysOut == Spec => []OutIsOut
<1>1. IInv => OutIsOut
  BY DEF IInv
<1> QED
  BY <1>1, GroupInvariance, PTL

\* A ban without rival stays, and only an add beside it leaves a banned member.
THEOREM BannedStaysBanned == Spec => []BanHolds
<1>1. IInv => BanHolds
  BY DEF IInv
<1> QED
  BY <1>1, GroupInvariance, PTL

\* Only its owner leaves a group without owner.
THEOREM OwnerOrphans == Spec => []OrphanedByItsOwner
<1>1. IInv => OrphanedByItsOwner
  <2> SUFFICES ASSUME IInv, Elevated = {}, \E u \in Users : role[u] # "none"
               PROVE  SelfRemoved
    BY DEF OrphanedByItsOwner, SelfRemoved
  <2>1. ~Pristine /\ ~Owned
    BY DEF Pristine, Owned, Elevated
  <2>2. group \in {"live", "archived"}
    BY DEF IInv, TypeOK, GroupInv, DeletedGroupIsEmpty
  <2> QED
    BY <2>1, <2>2 DEF IInv, GroupInv
<1> QED
  BY <1>1, GroupInvariance, PTL

\* A call that says it sent or deleted a message has announced it, and nothing
\* else is announced.
THEOREM ChatEventsAreTrue == Spec => []EventsAreTrue
<1>1. IInv => EventsAreTrue
  BY DEF IInv, EventInv
<1> QED
  BY <1>1, GroupInvariance, PTL

-----------------------------------------------------------------------------
(* The routes carry out GroupRecord *)

Owners   == {u \in Users : role[u] = "owner"}
Members  == {u \in Users : role[u] # "none"}
Posted   == {m \in Messages : message[m].state # "none"}
Author   == [m \in Messages |-> IF message[m].state = "none" THEN Nobody ELSE message[m].sender]
Gone     == {m \in Messages : message[m].state = "gone"}
Recalled == {m \in Messages : message[m].state # "none" /\ message[m].recalled}

\* What the abstract specification sees of the members, and of the messages.
SamePeople   == Owners' = Owners /\ Members' = Members
SameMessages == Posted' = Posted /\ Author' = Author /\ Gone' = Gone /\ Recalled' = Recalled

\* The abstract actions, in the terms of the routes.
LEMMA RecordStutter ==
  UNCHANGED Record!vars <=> group' = group /\ SamePeople /\ SameMessages /\ events' = events
BY DEF Record!vars, SamePeople, SameMessages, Owners, Members, Posted, Author, Gone, Recalled

LEMMA RecordGroup ==
  /\ Record!Found <=> group = "none" /\ group' = "live" /\ SamePeople /\ SameMessages /\ events' = events
  /\ Record!Archive <=>
         group = "live" /\ group' = "archived" /\ SamePeople /\ SameMessages /\ events' = events
  /\ Record!Disband <=>
         /\ group \in {"live", "archived"} /\ group' = "deleted"
         /\ Owners' = {} /\ Members' = {} /\ Gone' = Posted
         /\ Posted' = Posted /\ Author' = Author /\ Recalled' = Recalled /\ events' = events
BY DEF Record!Found, Record!Archive, Record!Disband, Record!Open, SamePeople, SameMessages,
       Owners, Members, Posted, Author, Gone, Recalled

LEMMA RecordPeople ==
  ASSUME NEW u \in Users
  PROVE  /\ Record!Own(u) <=>
                /\ group = "live" /\ Members = {} /\ Posted = {}
                /\ Owners' = {u} /\ Members' = {u}
                /\ group' = group /\ SameMessages /\ events' = events
         /\ Record!Admit(u) <=>
                /\ group \in {"live", "archived"} /\ u \notin Members
                /\ Members' = Members \cup {u} /\ Owners' = Owners
                /\ group' = group /\ SameMessages /\ events' = events
         /\ Record!Part(u) <=>
                /\ u \in Members
                /\ Members' = Members \ {u} /\ Owners' = Owners \ {u}
                /\ group' = group /\ SameMessages /\ events' = events
BY DEF Record!Own, Record!Admit, Record!Part, Record!Open, SamePeople, SameMessages,
       Owners, Members, Posted, Author, Gone, Recalled

LEMMA RecordMessages ==
  ASSUME NEW m \in Messages
  PROVE  /\ \A u \in Users : Record!Post(m, u) <=>
                /\ group \in {"live", "archived"} /\ m \notin Posted
                /\ Posted' = Posted \cup {m} /\ Author' = [Author EXCEPT ![m] = u]
                /\ Gone' = Gone /\ Recalled' = Recalled
                /\ group' = group /\ SamePeople /\ events' = events
         /\ Record!Recall(m) <=>
                /\ m \in Posted \ (Gone \cup Recalled)
                /\ Recalled' = Recalled \cup {m}
                /\ Posted' = Posted /\ Author' = Author /\ Gone' = Gone
                /\ group' = group /\ SamePeople /\ events' = events
         /\ Record!Erase(m) <=>
                /\ m \in Posted \ Gone
                /\ Gone' = Gone \cup {m}
                /\ Posted' = Posted /\ Author' = Author /\ Recalled' = Recalled
                /\ group' = group /\ SamePeople /\ events' = events
         /\ Record!Tell(m) <=>
                /\ \/ m \in Posted /\ events' \in {events \cup {<<k, m>>} : k \in {"MessageSent", "MessageReplied"}}
                   \/ m \in Gone /\ events' = events \cup {<<"MessageDeleted", m>>}
                /\ group' = group /\ SamePeople /\ SameMessages
BY DEF Record!Post, Record!Recall, Record!Erase, Record!Tell, Record!Open, SamePeople, SameMessages,
       Owners, Members, Posted, Author, Gone, Recalled

\* What is not written is not seen to change.
LEMMA Unseen ==
  /\ role' = role => SamePeople
  /\ message' = message => SameMessages
BY DEF SamePeople, SameMessages, Owners, Members, Posted, Author, Gone, Recalled

\* A group that does not exist has nobody at work in it.
LEMMA NotYet ==
  ASSUME IInv, NEW c \in Calls, call[c].at \notin Unstepped
  PROVE  group # "none"
BY DEF IInv, GroupInv, Pristine

\* The role of one user changes, and the abstract sets with it.
LEMMA RoleSeen ==
  ASSUME TypeOK, NEW u \in Users, NEW r, role' = [role EXCEPT ![u] = r]
  PROVE  /\ r = "none" => Members' = Members \ {u}
         /\ r # "none" => Members' = Members \cup {u}
         /\ r = "owner" => Owners' = Owners \cup {u}
         /\ r # "owner" => Owners' = Owners \ {u}
BY DEF TypeOK, Owners, Members

\* The row of one message changes, and keeps its sender.
LEMMA RowSeen ==
  ASSUME TypeOK, NEW m \in Messages, NEW row, message' = [message EXCEPT ![m] = row],
         message[m].state # "none", row.state # "none", row.sender = message[m].sender
  PROVE  /\ Posted' = Posted /\ Author' = Author
         /\ Gone' = IF row.state = "gone" THEN Gone \cup {m} ELSE Gone \ {m}
         /\ row.recalled = TRUE => Recalled' = Recalled \cup {m}
         /\ row.recalled = FALSE => Recalled' = Recalled \ {m}
<1>1. message'[m] = row /\ \A k \in Messages \ {m} : message'[k] = message[k]
  BY DEF TypeOK
<1>2. Posted' = Posted
  BY <1>1 DEF Posted
<1>3. Author' = Author
  BY <1>1 DEF Author
<1>4. Gone' = IF row.state = "gone" THEN Gone \cup {m} ELSE Gone \ {m}
  BY <1>1 DEF Gone
<1>5. row.recalled = TRUE => Recalled' = Recalled \cup {m}
  BY <1>1 DEF Recalled
<1>6. row.recalled = FALSE => Recalled' = Recalled \ {m}
  BY <1>1 DEF Recalled
<1> QED
  BY <1>2, <1>3, <1>4, <1>5, <1>6

\* The statements on the group and its members.
LEMMA PeopleRefine ==
  ASSUME IInv, NEW c \in Calls,
         \/ InsertGroup(c) \/ InsertOwner(c) \/ InsertMember(c)
         \/ DeleteMember(c) \/ ArchiveGroup(c)
  PROVE  [Record!Next]_(Record!vars)
<1>1. TypeOK /\ call[c] \in CallType /\ CallTyped(call[c]) /\ DeletedGroupIsEmpty
  BY DEF IInv, TypeOK, GroupInv
<1>2. message' = message /\ events' = events
  BY DEF InsertGroup, InsertOwner, InsertMember, DeleteMember, ArchiveGroup
<1>3. SameMessages
  BY <1>2, Unseen
<1>4. CASE InsertGroup(c)
  <2>1. Record!Found
    BY <1>2, <1>3, <1>4, Unseen, RecordGroup DEF InsertGroup
  <2> QED
    BY <2>1 DEF Record!Next
<1>5. CASE InsertOwner(c)
  <2>1. PICK u \in Users : u = call[c].by
    BY <1>1 DEF CallType
  <2>2. group = "live" /\ Pristine /\ group' = group /\ role' = [role EXCEPT ![u] = "owner"]
    BY <1>5, <2>1 DEF InsertOwner, At, IInv, GroupInv
  <2>3. Owners = {} /\ Members = {} /\ Posted = {}
    BY <2>2 DEF Pristine, Owners, Members, Posted
  <2>4. Owners' = {u} /\ Members' = {u}
    BY <1>1, <2>2, <2>3, RoleSeen
  <2>5. Record!Own(u)
    BY <1>2, <1>3, <2>2, <2>3, <2>4, RecordPeople
  <2> QED
    BY <2>5 DEF Record!Next
<1>6. CASE InsertMember(c)
  <2>1. call[c].op = "add" /\ call[c].at = "insertMember" /\ group' = group
    BY <1>6 DEF InsertMember, At
  <2>2. PICK u \in Users : u = call[c].target
    BY <1>1, <2>1 DEF CallTyped
  <2>3. group # "none"
    BY <2>1, NotYet DEF Unstepped
  <2>4. CASE role' = role
    BY <1>2, <1>3, <2>1, <2>4, Unseen, RecordStutter
  <2>5. CASE role' # role
    <3>1. group # "deleted" /\ role' = [role EXCEPT ![u] = IF @ = "none" THEN "member" ELSE @]
      BY <1>6, <2>2, <2>5 DEF InsertMember
    <3>2. role[u] = "none"
      BY <1>1, <2>5, <3>1 DEF TypeOK
    <3>3. u \notin Members /\ u \notin Owners
      BY <3>2 DEF Members, Owners
    <3>4. role' = [role EXCEPT ![u] = "member"]
      BY <3>1, <3>2
    <3>5. Members' = Members \cup {u} /\ Owners' = Owners
      <4>1. PICK r : r = "member"
        OBVIOUS
      <4>2. role' = [role EXCEPT ![u] = r] /\ r # "none" /\ r # "owner"
        BY <3>4, <4>1
      <4>3. Members' = Members \cup {u} /\ Owners' = Owners \ {u}
        BY <1>1, <4>2, RoleSeen
      <4> QED
        BY <3>3, <4>3
    <3>6. group \in {"live", "archived"}
      BY <1>1, <2>3, <3>1 DEF TypeOK
    <3>7. Record!Admit(u)
      BY <1>2, <1>3, <2>1, <3>3, <3>5, <3>6, RecordPeople
    <3> QED
      BY <3>7 DEF Record!Next
  <2> QED
    BY <2>4, <2>5
<1>7. CASE DeleteMember(c)
  <2>1. PICK u \in Users : u = Removed(c)
    BY <1>1, <1>7 DEF DeleteMember, RemovalOps, Removed, CallTyped, CallType
  <2>2. role' = [role EXCEPT ![u] = "none"] /\ group' = group
    BY <1>7, <2>1 DEF DeleteMember
  <2>3. Members' = Members \ {u} /\ Owners' = Owners \ {u}
    BY <1>1, <2>2, RoleSeen
  <2>4. CASE u \in Members
    <3>1. Record!Part(u)
      BY <1>2, <1>3, <2>2, <2>3, <2>4, RecordPeople
    <3> QED
      BY <3>1 DEF Record!Next
  <2>5. CASE u \notin Members
    <3>1. SamePeople
      BY <2>3, <2>5 DEF SamePeople, Owners, Members
    <3> QED
      BY <1>2, <1>3, <2>2, <3>1, RecordStutter
  <2> QED
    BY <2>4, <2>5
<1>8. CASE ArchiveGroup(c)
  <2>1. SamePeople
    BY <1>8, Unseen DEF ArchiveGroup
  <2>2. group' = group \/ (group = "live" /\ group' = "archived")
    BY <1>8 DEF ArchiveGroup
  <2>3. group = "live" /\ group' = "archived" => Record!Archive
    BY <1>2, <1>3, <2>1, RecordGroup
  <2> QED
    BY <1>2, <1>3, <2>1, <2>2, <2>3, RecordStutter DEF Record!Next
<1> QED
  BY <1>4, <1>5, <1>6, <1>7, <1>8

\* The deletion of the group: all of it goes, or there was nothing left.
LEMMA DisbandRefines ==
  ASSUME IInv, NEW c \in Calls, DeleteGroup(c)
  PROVE  [Record!Next]_(Record!vars)
<1>1. TypeOK /\ DeletedGroupIsEmpty
  BY DEF IInv, GroupInv
<1>2. /\ group' = "deleted" /\ events' = events
      /\ role' = [u \in Users |-> "none"]
      /\ message' = [m \in Messages |->
                        [message[m] EXCEPT !.state = IF @ = "here" THEN "gone" ELSE @]]
  BY DEF DeleteGroup
<1>3. group # "none"
  BY NotYet DEF DeleteGroup, At, Unstepped
<1>4. Owners' = {} /\ Members' = {}
  BY <1>2 DEF Owners, Members
<1>5. \A m \in Messages :
        /\ message'[m].state = IF message[m].state = "here" THEN "gone" ELSE message[m].state
        /\ message'[m].sender = message[m].sender /\ message'[m].recalled = message[m].recalled
        /\ message[m].state \in {"none", "here", "gone"}
  BY <1>1, <1>2 DEF TypeOK
<1>6. Posted' = Posted
  BY <1>5 DEF Posted
<1>7. Author' = Author
  BY <1>5 DEF Author
<1>8. Recalled' = Recalled
  BY <1>5 DEF Recalled
<1>9. Gone' = Posted
  BY <1>5 DEF Gone, Posted
<1>10. CASE group = "deleted"
  <2>1. SamePeople
    BY <1>1, <1>4, <1>10 DEF DeletedGroupIsEmpty, SamePeople, Owners, Members
  <2>2. Gone = Posted
    BY <1>1, <1>5, <1>10 DEF DeletedGroupIsEmpty, Gone, Posted
  <2> QED
    BY <1>2, <1>6, <1>7, <1>8, <1>9, <1>10, <2>1, <2>2, RecordStutter DEF SameMessages
<1>11. CASE group # "deleted"
  <2>1. group \in {"live", "archived"}
    BY <1>1, <1>3, <1>11 DEF TypeOK
  <2>2. Record!Disband
    BY <1>2, <1>4, <1>6, <1>7, <1>8, <1>9, <2>1, RecordGroup
  <2> QED
    BY <2>2 DEF Record!Next
<1> QED
  BY <1>10, <1>11

\* The statements on the messages, and their events.
LEMMA MessagesRefine ==
  ASSUME IInv, NEW c \in Calls,
         InsertMessage(c) \/ UpdateMessage(c) \/ DeleteMessage(c) \/ Publish(c)
  PROVE  [Record!Next]_(Record!vars)
<1>1. TypeOK /\ call[c] \in CallType /\ CallTyped(call[c]) /\ EventInv
  BY DEF IInv, TypeOK
<1>2. group' = group /\ SamePeople
  BY Unseen DEF InsertMessage, UpdateMessage, DeleteMessage, Publish
<1>3. CASE InsertMessage(c)
  <2>1. events' = events /\ group # "none"
    BY <1>3, NotYet DEF InsertMessage, Unstepped
  <2>2. CASE message' = message
    BY <1>2, <2>1, <2>2, Unseen, RecordStutter
  <2>3. CASE message' # message
    <3>1. PICK u \in Users : u = call[c].by
      BY <1>1 DEF CallType
    <3>2. PICK m \in Messages : /\ group # "deleted" /\ message[m].state = "none"
                                /\ message' = [message EXCEPT ![m] = NewRow(u)]
      BY <1>3, <2>3, <3>1 DEF InsertMessage
    <3>3. /\ message'[m] = NewRow(u) /\ NewRow(u).state = "here"
          /\ NewRow(u).sender = u /\ NewRow(u).recalled = FALSE
          /\ \A k \in Messages \ {m} : message'[k] = message[k]
      BY <1>1, <3>2 DEF TypeOK, NewRow
    <3>4. m \notin Posted /\ m \notin Recalled /\ m \notin Gone
      BY <3>2 DEF Posted, Recalled, Gone
    <3>5. Posted' = Posted \cup {m} /\ Gone' = Gone /\ Recalled' = Recalled
      BY <3>3, <3>4 DEF Posted, Gone, Recalled
    <3>6. Author' = [Author EXCEPT ![m] = u]
      BY <3>3 DEF Author
    <3>7. group \in {"live", "archived"}
      BY <1>1, <2>1, <3>2 DEF TypeOK
    <3>8. Record!Post(m, u)
      BY <1>2, <2>1, <3>4, <3>5, <3>6, <3>7, RecordMessages
    <3> QED
      BY <3>8 DEF Record!Next
  <2> QED
    BY <2>2, <2>3
<1>4. CASE UpdateMessage(c)
  <2>1. PICK m \in Messages : m = call[c].msg
    BY <1>1, <1>4 DEF UpdateMessage, CallTyped, MessageOps
  <2>2. events' = events
    BY <1>4 DEF UpdateMessage
  <2>3. CASE message[m].state # "here"
    <3>1. message' = [message EXCEPT ![m] = message[m]]
      BY <1>4, <2>1, <2>3 DEF UpdateMessage
    <3>2. message' = message
      BY <1>1, <3>1 DEF TypeOK
    <3> QED
      BY <1>2, <2>2, <3>2, Unseen, RecordStutter
  <2>4. CASE message[m].state = "here"
    <3>1. PICK row \in EditedRow(message[m]) \cup RecalledRow(message[m]) :
              message' = [message EXCEPT ![m] = row]
      BY <1>4, <2>1, <2>4 DEF UpdateMessage
    <3>2. message[m] \in MessageType
      BY <1>1 DEF TypeOK, MessageType
    <3>3. /\ row.state = "here" /\ row.sender = message[m].sender
          /\ row.recalled = message[m].recalled \/ row.recalled = TRUE
          /\ message[m].recalled \in BOOLEAN
      BY <2>4, <3>2 DEF EditedRow, RecalledRow, MessageType
    <3>4. m \in Posted /\ m \notin Gone /\ (m \in Recalled <=> message[m].recalled)
      BY <2>4 DEF Posted, Gone, Recalled
    <3>5. Posted' = Posted /\ Author' = Author /\ Gone' = Gone
      <4>1. Posted' = Posted /\ Author' = Author /\ Gone' = Gone \ {m}
        BY <1>1, <2>4, <3>1, <3>3, RowSeen
      <4> QED
        BY <3>4, <4>1
    <3>6. Recalled' = Recalled \/ (m \notin Recalled /\ Recalled' = Recalled \cup {m})
      <4>1. CASE row.recalled = TRUE
        <5>1. Recalled' = Recalled \cup {m}
          BY <1>1, <2>4, <3>1, <3>3, <4>1, RowSeen
        <5> QED
          BY <5>1
      <4>2. CASE row.recalled = FALSE
        <5>1. Recalled' = Recalled \ {m} /\ ~message[m].recalled
          BY <1>1, <2>4, <3>1, <3>3, <4>2, RowSeen
        <5> QED
          BY <3>4, <5>1
      <4> QED
        BY <3>3, <4>1, <4>2
    <3>7. CASE Recalled' = Recalled
      BY <1>2, <2>2, <3>5, <3>7, RecordStutter DEF SameMessages
    <3>8. CASE m \notin Recalled /\ Recalled' = Recalled \cup {m}
      <4>1. Record!Recall(m)
        BY <1>2, <2>2, <3>4, <3>5, <3>8, RecordMessages
      <4> QED
        BY <4>1 DEF Record!Next
    <3> QED
      BY <3>6, <3>7, <3>8
  <2> QED
    BY <2>3, <2>4
<1>5. CASE DeleteMessage(c)
  <2>1. PICK m \in Messages : m = call[c].msg
    BY <1>1, <1>5 DEF DeleteMessage, At, CallTyped
  <2>2. message[m].state # "none" /\ events' = events
    BY <1>1, <1>5, <2>1 DEF DeleteMessage, At, EventInv
  <2>3. PICK row : row = [message[m] EXCEPT !.state = "gone"]
    OBVIOUS
  <2>4. message[m] \in MessageType
    BY <1>1 DEF TypeOK, MessageType
  <2>5. /\ row.state = "gone" /\ row.sender = message[m].sender
        /\ row.recalled = message[m].recalled /\ message[m].recalled \in BOOLEAN
    BY <2>3, <2>4 DEF MessageType
  <2>6. message' = [message EXCEPT ![m] = row]
    BY <1>5, <2>1, <2>3 DEF DeleteMessage
  <2>7. m \in Posted /\ (m \in Recalled <=> message[m].recalled)
    BY <2>2 DEF Posted, Recalled
  <2>8. Posted' = Posted /\ Author' = Author /\ Gone' = Gone \cup {m}
    BY <1>1, <2>2, <2>5, <2>6, RowSeen
  <2>9. Recalled' = Recalled
    <3>1. CASE row.recalled = TRUE
      <4>1. Recalled' = Recalled \cup {m}
        BY <1>1, <2>2, <2>5, <2>6, <3>1, RowSeen
      <4>2. m \in Recalled
        BY <2>5, <2>7, <3>1
      <4> QED
        BY <4>1, <4>2
    <3>2. CASE row.recalled = FALSE
      <4>1. Recalled' = Recalled \ {m}
        BY <1>1, <2>2, <2>5, <2>6, <3>2, RowSeen
      <4>2. m \notin Recalled
        BY <2>5, <2>7, <3>2
      <4> QED
        BY <4>1, <4>2
    <3> QED
      BY <2>5, <3>1, <3>2
  <2>10. CASE m \in Gone
    BY <1>2, <2>2, <2>8, <2>9, <2>10, RecordStutter DEF SameMessages
  <2>11. CASE m \notin Gone
    <3>1. Record!Erase(m)
      BY <1>2, <2>2, <2>7, <2>8, <2>9, <2>11, RecordMessages
    <3> QED
      BY <3>1 DEF Record!Next
  <2> QED
    BY <2>10, <2>11
<1>6. CASE Publish(c)
  <2>1. PICK m \in Messages : m = call[c].msg
    BY <1>1, <1>6 DEF Publish, CallTyped
  <2>2. /\ message' = message /\ events' = events \cup {<<EventOf(call[c].op), m>>}
        /\ call[c].op \in {"send", "reply", "remove"} /\ RowOf(call[c].op, m)
    BY <1>1, <1>6, <2>1 DEF Publish, EventInv
  <2>3. SameMessages
    BY <2>2, Unseen
  <2>4. \/ /\ m \in Posted
           /\ events' \in {events \cup {<<k, m>>} : k \in {"MessageSent", "MessageReplied"}}
        \/ m \in Gone /\ events' = events \cup {<<"MessageDeleted", m>>}
    BY <2>2 DEF EventOf, RowOf, Posted, Gone
  <2>5. Record!Tell(m)
    BY <1>2, <2>3, <2>4, RecordMessages
  <2> QED
    BY <2>5 DEF Record!Next
<1> QED
  BY <1>3, <1>4, <1>5, <1>6

\* RefinesRecord for every instance: whatever requests interleave, fail or end,
\* the rows and the events only do what GroupRecord allows.
THEOREM RecordRefinement == Spec => RefinesRecord
<1>1. Init => Record!Init
  <2> SUFFICES ASSUME Init
               PROVE  Record!Init
    OBVIOUS
  <2>1. events = {} /\ (Settled \/ Empty)
    BY DEF Init
  <2>2. ASSUME NEW m \in Messages
        PROVE  message[m] = NoRow \/ \E u \in Users : message[m] = NewRow(u)
    BY <2>1 DEF Settled, Empty
  <2>3. ASSUME NEW m \in Messages
        PROVE  /\ message[m].state \in {"none", "here"} /\ message[m].recalled = FALSE
               /\ message[m].state = "here" => message[m].sender \in Users
    <3>1. CASE message[m] = NoRow
      BY <3>1 DEF NoRow
    <3>2. ASSUME NEW u \in Users, message[m] = NewRow(u)
          PROVE  /\ message[m].state = "here" /\ message[m].recalled = FALSE
                 /\ message[m].sender = u
      BY <3>2 DEF NewRow
    <3> QED
      BY <2>2, <3>1, <3>2
  <2>4. Gone = {} /\ Recalled = {}
    BY <2>3 DEF Gone, Recalled
  <2>5. /\ Author \in [Messages -> Users \cup {Nobody}]
        /\ \A m \in Messages : Author[m] = Nobody <=> m \notin Posted
    BY <2>3, NobodyAssumption DEF Author, Posted
  <2>6. CASE Empty
    <3>1. group = "none" /\ Owners = {} /\ Members = {} /\ Posted = {}
      BY <2>6 DEF Empty, Owners, Members, Posted, NoRow
    <3> QED
      BY <2>1, <2>4, <2>5, <3>1
      DEF Record!Init, Owners, Members, Posted, Author, Gone, Recalled
  <2>7. CASE Settled
    <3>1. PICK o \in Users : \A u \in Users : role[u] = "owner" <=> u = o
      BY <2>7 DEF Settled
    <3>2. group = "live" /\ o \in Members /\ Owners = {o}
      BY <2>7, <3>1 DEF Settled, Members, Owners
    <3>3. Members \in SUBSET Users /\ Posted \in SUBSET Messages
      BY DEF Members, Posted
    <3> QED
      BY <2>1, <2>4, <2>5, <3>2, <3>3
      DEF Record!Init, Owners, Members, Posted, Author, Gone, Recalled
  <2> QED
    BY <2>1, <2>6, <2>7
<1>2. IInv /\ [Next]_vars => [Record!Next]_(Record!vars)
  <2> SUFFICES ASSUME IInv, [Next]_vars
               PROVE  [Record!Next]_(Record!vars)
    OBVIOUS
  <2>1. CASE UNCHANGED <<group, role, message, events>>
    BY <2>1, Unseen, RecordStutter
  <2>2. ASSUME NEW c \in Calls, Membership(c)
        PROVE  [Record!Next]_(Record!vars)
    <3>1. CASE BanCheck(c) \/ RoleCheck(c) \/ TargetRole(c) \/ InsertBan(c) \/ DeleteBan(c) \/ LeaveCheck(c)
      BY <2>1, <3>1 DEF BanCheck, RoleCheck, TargetRole, InsertBan, DeleteBan, LeaveCheck
    <3> QED
      BY <2>2, <3>1, PeopleRefine, DisbandRefines DEF Membership
  <2>3. ASSUME NEW c \in Calls, Messaging(c)
        PROVE  [Record!Next]_(Record!vars)
    <3>1. CASE MemberCheck(c) \/ ReadParent(c) \/ SenderCheck(c) \/ AccessCheck(c)
      BY <2>1, <3>1 DEF MemberCheck, ReadParent, SenderCheck, AccessCheck
    <3> QED
      BY <2>3, <3>1, MessagesRefine DEF Messaging
  <2>4. CASE Crash \/ (\E c \in Calls : Fail(c)) \/ (\E u \in Users : BanLapses(u)) \/ UNCHANGED vars
    BY <2>1, <2>4 DEF Crash, Fail, BanLapses, vars
  <2> QED
    BY <2>2, <2>3, <2>4 DEF Next
<1> QED
  BY <1>1, <1>2, GroupInvariance, PTL DEF Spec, RefinesRecord, Record!Spec

\* What GroupRecord keeps of the group, seen in the rows.
RecordInv ==
    /\ group \in {"none", "live", "archived", "deleted"}
    /\ group \in {"none", "deleted"} => Members = {} /\ Posted \subseteq Gone

LEMMA RecordKeeps ==
  ASSUME RecordInv, [Record!Next]_(Record!vars)
  PROVE  RecordInv'
<1>1. CASE UNCHANGED Record!vars
  BY <1>1, RecordStutter DEF RecordInv, SamePeople, SameMessages
<1>2. CASE Record!Found \/ Record!Archive \/ Record!Disband
  BY <1>2, RecordGroup DEF RecordInv
<1>3. ASSUME NEW u \in Users, Record!Own(u) \/ Record!Admit(u) \/ Record!Part(u)
      PROVE  RecordInv'
  <2>1. CASE Record!Own(u) \/ Record!Admit(u)
    BY <2>1, RecordPeople DEF RecordInv
  <2>2. CASE Record!Part(u)
    BY <2>2, RecordPeople DEF RecordInv
  <2> QED
    BY <1>3, <2>1, <2>2
<1>4. ASSUME NEW m \in Messages,
             Record!Recall(m) \/ Record!Erase(m) \/ Record!Tell(m) \/ \E u \in Users : Record!Post(m, u)
      PROVE  RecordInv'
  <2>1. CASE \E u \in Users : Record!Post(m, u)
    BY <2>1, RecordMessages DEF RecordInv, SamePeople
  <2>2. CASE Record!Recall(m) \/ Record!Erase(m) \/ Record!Tell(m)
    <3>1. group' = group /\ Members' = Members /\ Posted' = Posted /\ Gone \subseteq Gone'
      BY <2>2, RecordMessages DEF SamePeople, SameMessages
    <3> QED
      BY <3>1 DEF RecordInv
  <2> QED
    BY <1>4, <2>1, <2>2
<1> QED
  BY <1>1, <1>2, <1>3, <1>4 DEF Record!Next

\* Whatever carries out GroupRecord leaves nothing in a deleted group: the
\* abstract specification says enough for it.
THEOREM RecordEmpties == RefinesRecord => []DeletedGroupIsEmpty
<1>1. Record!Init => RecordInv
  BY DEF Record!Init, RecordInv, Members, Posted, Gone
<1>2. RecordInv => DeletedGroupIsEmpty
  BY DEF RecordInv, DeletedGroupIsEmpty, Members, Posted, Gone
<1>3. RecordInv /\ [Record!Next]_(Record!vars) => RecordInv'
  BY RecordKeeps
<1> QED
  BY <1>1, <1>2, <1>3, PTL DEF RefinesRecord, Record!Spec
=============================================================================
