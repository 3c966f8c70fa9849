------------------------------ MODULE GroupChat ------------------------------
(***************************************************************************)
(* Group chats of messaging-service: one group, its members, its bans and  *)
(* its messages (routes/messages.ts).                                      *)
(*                                                                         *)
(* Every route is a handful of statements with nothing held in between: a  *)
(* check, often a second one, then the write, then a Kafka event.  Only    *)
(* archiving and deleting a group are transactions.  Any two calls may     *)
(* interleave at every statement.  A statement may fail (the call answers  *)
(* 500), may take effect although the caller is told it failed, and the    *)
(* process may end with all its calls.                                     *)
(*                                                                         *)
(* A call runs once; what it asks for is fixed when it arrives.  At its    *)
(* first statement it notes which calls had ended by then, so that a       *)
(* property can speak of calls that overlap and of calls that do not; no   *)
(* step looks at that.  An answer other than 2xx is "refused".             *)
(*                                                                         *)
(* Left out: direct messages, attachments, read marks and the listings of  *)
(* groups, which change none of this state; messages.archived, which no    *)
(* query reads.                                                            *)
(***************************************************************************)
CONSTANTS
    Users,
    Calls,      \* requests, each runs once
    Asks,       \* which operations each call may ask for, a bound
    Messages,   \* message ids of the group
    Nobody,     \* no target user
    NoMessage   \* no message

ASSUME NobodyAssumption    == Nobody \notin Users
ASSUME NoMessageAssumption == NoMessage \notin Messages

VARIABLES
    group,      \* the row of messages.groups
    role,       \* messages.group_members: the role of each user
    ban,        \* messages.group_bans
    message,    \* messages.messages
    events,     \* what was produced to messaging.events.v1
    call        \* local variables of each call

vars == <<group, role, ban, message, events, call>>

Roles == {"owner", "admin", "moderator", "member"}
Elevated == {u \in Users : role[u] \in {"owner", "admin"}}
\* Mutant: a ban without expires_at is not found.
ActiveBanTimedOnly == {"timed"}

ActiveBan == {"timed", "forever"}

RoleOps    == {"kick", "ban", "unban", "delete", "archive"}
RemovalOps == {"kick", "ban", "leave"}
MessageOps == {"reply", "edit", "recall", "remove"}
Ops == {"create", "add", "leave", "send"} \cup RoleOps \cup MessageOps

NoRow  == [state |-> "none", sender |-> Nobody, content |-> "none", recalled |-> FALSE]
NewRow(u) == [state |-> "here", sender |-> u, content |-> "sent", recalled |-> FALSE]

\* A request that has not been looked at yet, and the requests there may be.
Fresh == [op : Ops, at : {"start"}, by : Users, target : Users \cup {Nobody},
          msg : Messages \cup {NoMessage}, forGood : BOOLEAN,
          role : {"none"}, before : {{}}, answer : {"none"}]

Requests ==
    {r \in Fresh :
        /\ r.target # Nobody <=> r.op \in {"add", "kick", "ban", "unban"}
        /\ r.msg # NoMessage <=> r.op \in MessageOps
        /\ r.forGood \/ r.op = "ban"}

Running(c) == call[c].at # "done"
At(c, op, s) == call[c].op = op /\ call[c].at = s
Before(c) == IF call[c].at = "start" THEN {b \in Calls : ~Running(b)} ELSE call[c].before

Goto(c, s)   == call' = [call EXCEPT ![c].at = s, ![c].before = Before(c)]
Answer(c, a) == call' = [call EXCEPT ![c].at = "done", ![c].before = Before(c), ![c].answer = a]

\* A statement took effect: the caller hears so, or hears of an error.
Finish(c) == \E a \in {"ok", "refused"} : Answer(c, a)

-----------------------------------------------------------------------------
\* Either nothing exists yet, or the group was made earlier and has members,
\* and messages of people who may have left since.
Settled ==
    /\ group = "live"
    /\ \E o \in Users :
          role \in {r \in [Users -> {"owner", "member", "none"}] :
                       \A u \in Users : r[u] = "owner" <=> u = o}
    /\ message \in [Messages -> {NoRow} \cup {NewRow(u) : u \in Users}]

Empty ==
    /\ group = "none"
    /\ role = [u \in Users |-> "none"]
    /\ message = [m \in Messages |-> NoRow]

Init ==
    /\ Settled \/ Empty
    /\ ban = [u \in Users |-> "none"]
    /\ events = {}
    /\ call \in {f \in [Calls -> Requests] : \A c \in Calls : f[c].op \in Asks[c]}

-----------------------------------------------------------------------------
(* POST /groups: the group, then its owner, in two statements that race a  *)
(* timer of five seconds each; the caller may be gone in between.          *)
InsertGroup(c) ==
    /\ At(c, "create", "start")
    /\ group = "none"
    /\ group' = "live"
    /\ Goto(c, "insertOwner") \/ Answer(c, "refused")
    /\ UNCHANGED <<role, ban, message, events>>

InsertOwner(c) ==
    /\ At(c, "create", "insertOwner")
    /\ role' = [role EXCEPT ![call[c].by] = "owner"]
    /\ Finish(c)
    /\ UNCHANGED <<group, ban, message, events>>

-----------------------------------------------------------------------------
\* POST /groups/:groupId/members asks for a ban first.
BanCheck(c) ==
    /\ At(c, "add", "start")
    /\ IF ban[call[c].target] \in ActiveBan THEN Answer(c, "refused")
                                            ELSE Goto(c, "roleCheck")
    /\ UNCHANGED <<group, role, ban, message, events>>

\* Who may do what, and what the handler does next.
MayDo(op, r) ==
    r \in IF op \in {"add", "kick"} THEN {"owner", "admin", "moderator"}
                                    ELSE {"owner", "admin"}

Then(op) ==
    CASE op = "add"     -> "insertMember"
      [] op = "kick"    -> "targetRole"
      [] op = "ban"     -> "insertBan"
      [] op = "unban"   -> "deleteBan"
      [] op = "delete"  -> "deleteTx"
      [] op = "archive" -> "archiveTx"

RoleCheck(c) ==
    LET op == call[c].op
        r  == role[call[c].by]
    IN  /\ \/ At(c, "add", "roleCheck")
           \/ op \in RoleOps /\ call[c].at = "start"
        /\ \/ ~MayDo(op, r) /\ Answer(c, "refused")
           \/ MayDo(op, r) /\ call' = [call EXCEPT ![c].at = Then(op), ![c].role = r,
                                                     ![c].before = Before(c)]
        /\ UNCHANGED <<group, role, ban, message, events>>

\* Mutant: nothing refuses a row for a deleted group.
InsertMemberUnchecked(c) ==
    /\ At(c, "add", "insertMember")
    /\ role' = [role EXCEPT ![call[c].target] = IF @ = "none" THEN "member" ELSE @]
    /\ Finish(c)
    /\ UNCHANGED <<group, ban, message, events>>

\* ON CONFLICT DO NOTHING keeps the role of someone who is in already; the
\* foreign key refuses a row for a deleted group.
InsertMember(c) ==
    LET t == call[c].target
    IN  /\ At(c, "add", "insertMember")
        /\ IF group = "deleted"
           THEN Answer(c, "refused") /\ UNCHANGED role
           ELSE /\ role' = [role EXCEPT ![t] = IF @ = "none" THEN "member" ELSE @]
                /\ Finish(c)
        /\ UNCHANGED <<group, ban, message, events>>

\* POST /groups/:groupId/kick looks at the target in a second statement.
TargetRole(c) ==
    LET r == role[call[c].target]
    IN  /\ At(c, "kick", "targetRole")
        /\ IF r = "none" \/ (r = "owner" /\ call[c].role # "owner")
           THEN Answer(c, "refused")
           ELSE Goto(c, "deleteMember")
        /\ UNCHANGED <<group, role, ban, message, events>>

InsertBan(c) ==
    /\ At(c, "ban", "insertBan")
    /\ ban' = [ban EXCEPT ![call[c].target] = IF call[c].forGood THEN "forever" ELSE "timed"]
    /\ Goto(c, "deleteMember")
    /\ UNCHANGED <<group, role, message, events>>

\* The last statement of a kick, a ban and a leave.
Removed(c) == IF call[c].op = "leave" THEN call[c].by ELSE call[c].target

DeleteMember(c) ==
    /\ call[c].op \in RemovalOps /\ call[c].at = "deleteMember"
    /\ role' = [role EXCEPT ![Removed(c)] = "none"]
    /\ Finish(c)
    /\ UNCHANGED <<group, ban, message, events>>

DeleteBan(c) ==
    LET t == call[c].target
    IN  /\ At(c, "unban", "deleteBan")
        /\ IF ban[t] = "none" THEN Answer(c, "refused") ELSE Finish(c)
        /\ ban' = [ban EXCEPT ![t] = "none"]
        /\ UNCHANGED <<group, role, message, events>>

\* expires_at passes; the row stays.
BanLapses(u) ==
    /\ ban[u] = "timed"
    /\ ban' = [ban EXCEPT ![u] = "lapsed"]
    /\ UNCHANGED <<group, role, message, events, call>>

-----------------------------------------------------------------------------
\* Mutant: nobody counts who is left.
LeaveCheckAnyone(c) ==
    /\ At(c, "leave", "start")
    /\ IF role[call[c].by] = "none" THEN Answer(c, "refused") ELSE Goto(c, "deleteMember")
    /\ UNCHANGED <<group, role, ban, message, events>>

\* DELETE /groups/:groupId/leave reads the role and counts the owners and
\* admins in one statement, and deletes in another.
LeaveCheck(c) ==
    LET u == call[c].by
    IN  /\ At(c, "leave", "start")
        /\ IF role[u] = "none" \/ Elevated = {u}
           THEN Answer(c, "refused")
           ELSE Goto(c, "deleteMember")
        /\ UNCHANGED <<group, role, ban, message, events>>

\* DELETE /groups/:groupId?archive=true.  The error of the second UPDATE is
\* swallowed, and the COMMIT of a transaction that failed rolls it back.
ArchiveGroup(c) ==
    /\ At(c, "archive", "archiveTx")
    /\ \/ group' = (IF group = "live" THEN "archived" ELSE group) /\ Finish(c)
       \/ UNCHANGED group /\ Answer(c, "ok")
    /\ UNCHANGED <<role, ban, message, events>>

\* DELETE /groups/:groupId: members, messages and the group in one
\* transaction.
DeleteGroup(c) ==
    /\ At(c, "delete", "deleteTx")
    /\ group' = "deleted"
    /\ role' = [u \in Users |-> "none"]
    /\ message' = [m \in Messages |->
                      [message[m] EXCEPT !.state = IF @ = "here" THEN "gone" ELSE @]]
    /\ Finish(c)
    /\ UNCHANGED <<ban, events>>

-----------------------------------------------------------------------------
\* Mutant: a sender is not looked up.
MemberCheckSkipped(c) ==
    /\ At(c, "send", "start")
    /\ Goto(c, "insertMessage")
    /\ UNCHANGED <<group, role, ban, message, events>>

\* POST /messages to the group.
MemberCheck(c) ==
    /\ At(c, "send", "start")
    /\ IF role[call[c].by] = "none" THEN Answer(c, "refused") ELSE Goto(c, "insertMessage")
    /\ UNCHANGED <<group, role, ban, message, events>>

\* POST /:messageId/reply only looks the parent up.
ReadParent(c) ==
    /\ At(c, "reply", "start")
    /\ IF message[call[c].msg].state # "here" THEN Answer(c, "refused")
                                              ELSE Goto(c, "insertMessage")
    /\ UNCHANGED <<group, role, ban, message, events>>

\* The foreign keys refuse a message of a deleted group or to a deleted
\* parent.
InsertMessage(c) ==
    LET orphan == call[c].op = "reply" /\ message[call[c].msg].state = "gone"
    IN  /\ call[c].op \in {"send", "reply"} /\ call[c].at = "insertMessage"
        /\ \/ /\ group = "deleted" \/ orphan
              /\ Answer(c, "refused")
              /\ UNCHANGED message
           \/ /\ group # "deleted" /\ ~orphan
              /\ \E m \in Messages :
                    /\ message[m].state = "none"
                    /\ message' = [message EXCEPT ![m] = NewRow(call[c].by)]
                    /\ call' = [call EXCEPT ![c].at = "publish", ![c].msg = m]
        /\ UNCHANGED <<group, role, ban, events>>

EventOf(op) ==
    CASE op = "send" -> "MessageSent" [] op = "reply" -> "MessageReplied"
      [] op = "remove" -> "MessageDeleted"

\* Mutant: the error of the producer is swallowed.
PublishSwallowed(c) ==
    /\ call[c].op \in {"send", "reply", "remove"} /\ call[c].at = "publish"
    /\ events' \in {events, events \cup {<<EventOf(call[c].op), call[c].msg>>}}
    /\ Finish(c)
    /\ UNCHANGED <<group, role, ban, message>>

\* The event is sent before the answer, and its error is an error of the call.
Publish(c) ==
    /\ call[c].op \in {"send", "reply", "remove"} /\ call[c].at = "publish"
    /\ events' = events \cup {<<EventOf(call[c].op), call[c].msg>>}
    /\ Finish(c)
    /\ UNCHANGED <<group, role, ban, message>>

\* PUT /:messageId and POST /:messageId/recall: the sender only.
SenderCheck(c) ==
    LET row == message[call[c].msg]
    IN  /\ call[c].op \in {"edit", "recall"} /\ call[c].at = "start"
        /\ IF row.state # "here" \/ row.sender # call[c].by
           THEN Answer(c, "refused")
           ELSE Goto(c, "update")
        /\ UNCHANGED <<group, role, ban, message, events>>

\* An edit may leave the text alone; a row deleted meanwhile is no error.
EditedRow(row)   == {row, [row EXCEPT !.content = "edited"]}
RecalledRow(row) == {[row EXCEPT !.content = "recalled", !.recalled = TRUE]}

UpdateMessage(c) ==
    LET m    == call[c].msg
        rows == IF message[m].state # "here" THEN {message[m]}
                ELSE IF call[c].op = "edit"  THEN EditedRow(message[m])
                                             ELSE RecalledRow(message[m])
    IN  /\ call[c].op \in {"edit", "recall"} /\ call[c].at = "update"
        /\ \E row \in rows : message' = [message EXCEPT ![m] = row]
        /\ Finish(c)
        /\ UNCHANGED <<group, role, ban, events>>

\* DELETE /:messageId: the sender and every member of the group.
AccessCheck(c) ==
    LET row == message[call[c].msg]
    IN  /\ At(c, "remove", "start")
        /\ IF row.state # "here" \/ (row.sender # call[c].by /\ role[call[c].by] = "none")
           THEN Answer(c, "refused")
           ELSE Goto(c, "deleteMessage")
        /\ UNCHANGED <<group, role, ban, message, events>>

DeleteMessage(c) ==
    /\ At(c, "remove", "deleteMessage")
    /\ message' = [message EXCEPT ![call[c].msg].state = "gone"]
    /\ Goto(c, "publish")
    /\ UNCHANGED <<group, role, ban, events>>

-----------------------------------------------------------------------------
\* A statement, or the producer, fails.  The membership query of a send is
\* outside its try: there a failure ends the process.
Fail(c) ==
    /\ Running(c)
    /\ ~At(c, "send", "start")
    /\ Answer(c, "refused")
    /\ UNCHANGED <<group, role, ban, message, events>>

\* The process ends: what its calls have done stays, nobody is answered.
Crash ==
    /\ \E c \in Calls : Running(c)
    /\ call' = [c \in Calls |->
                   IF Running(c) THEN [call[c] EXCEPT !.at = "done", !.before = Before(c),
                                                      !.answer = "refused"]
                                 ELSE call[c]]
    /\ UNCHANGED <<group, role, ban, message, events>>

Membership(c) ==
    \/ InsertGroup(c)  \/ InsertOwner(c) \/ BanCheck(c)     \/ RoleCheck(c)
    \/ InsertMember(c) \/ TargetRole(c)  \/ InsertBan(c)    \/ DeleteMember(c)
    \/ DeleteBan(c)    \/ LeaveCheck(c)  \/ ArchiveGroup(c) \/ DeleteGroup(c)

Messaging(c) ==
    \/ MemberCheck(c) \/ ReadParent(c)    \/ InsertMessage(c) \/ Publish(c)
    \/ SenderCheck(c) \/ UpdateMessage(c) \/ AccessCheck(c)   \/ DeleteMessage(c)

Next ==
    \/ \E c \in Calls : Membership(c) \/ Messaging(c) \/ Fail(c)
    \/ \E u \in Users : BanLapses(u)
    \/ Crash

Spec == Init /\ [][Next]_vars

-----------------------------------------------------------------------------
(* Properties.                                                             *)

CallType ==
    [op : Ops,
     at : {"start", "insertOwner", "roleCheck", "insertMember", "targetRole", "insertBan",
           "deleteMember", "deleteBan", "archiveTx", "deleteTx", "insertMessage",
           "publish", "update", "deleteMessage", "done"},
     by : Users, target : Users \cup {Nobody}, msg : Messages \cup {NoMessage},
     forGood : BOOLEAN, role : Roles \cup {"none"}, before : SUBSET Calls,
     answer : {"none", "ok", "refused"}]

\* The types of the rows and of the calls.
TypeOK ==
    /\ group \in {"none", "live", "archived", "deleted"}
    /\ role \in [Users -> Roles \cup {"none"}]
    /\ ban \in [Users -> {"none", "timed", "forever", "lapsed"}]
    /\ message \in [Messages -> [state : {"none", "here", "gone"},
                                 sender : Users \cup {Nobody},
                                 content : {"none", "sent", "edited", "recalled"},
                                 recalled : BOOLEAN]]
    /\ events \subseteq {"MessageSent", "MessageReplied", "MessageDeleted"} \X Messages
    /\ call \in [Calls -> CallType]

\* c adds u.
Adds(c, u) == call[c].op = "add" /\ call[c].target = u

\* An add of the removed user that had not ended when the removal b began.
Readmitted(b) ==
    \E a \in Calls : Adds(a, Removed(b)) /\ a \notin call[b].before

\* b removed a user and said so.
RemovedBy(b) == call[b].op \in RemovalOps /\ call[b].answer = "ok"

\* What a route asks of its caller before it does anything: to be a member, or
\* to have a role, or, of who deletes a message, to have written it.  A reply,
\* an edit and a recall ask nothing of the kind, and a ban is asked for where
\* someone is added only.
AsksMembership(s) ==
    \/ call[s].op \in {"send", "add", "leave"} \cup RoleOps
    \/ call[s].op = "remove" /\ message[call[s].msg].sender # call[s].by

\* Who was kicked, banned or has left is out of the members, and of what only
\* members may do: unless an add ran beside the removal or after it, the user
\* has no row, and whatever the user asks for after the removal was answered is
\* refused: to send a message, add or remove someone, leave, unban, archive or
\* delete the group, or delete a message of another.  A request that was past
\* its check when the removal was answered may still succeed.  Replies are not
\* covered: that route lets anyone in who can name a message.
OutIsOut ==
    \A b \in Calls : RemovedBy(b) /\ ~Readmitted(b) =>
        /\ role[Removed(b)] = "none"
        /\ \A s \in Calls :
              call[s].by = Removed(b) /\ b \in call[s].before /\ AsksMembership(s)
                  => call[s].answer # "ok" /\ call[s].at \in {"roleCheck", "done"}

\* b banned a user for good, said so, and no other ban or unban of that user
\* ran beside it or after it.
BannedBy(b) ==
    /\ call[b].op = "ban" /\ call[b].forGood
    /\ call[b].answer = "ok"
    /\ \A c \in Calls \ call[b].before :
          call[c].op \in {"ban", "unban"} /\ call[c].target = call[b].target => c = b

\* A ban holds: it stays active, no add that begins after it was answered
\* succeeds, and a banned user is a member only through an add that ran
\* beside the ban, between its ban check and its INSERT.
BanHolds ==
    \A b \in Calls : BannedBy(b) =>
        /\ ban[call[b].target] = "forever"
        /\ \A a \in Calls :
              Adds(a, call[b].target) /\ b \in call[a].before => call[a].answer # "ok"
        /\ role[call[b].target] # "none" =>
              \E a \in Calls : /\ Adds(a, call[b].target) /\ call[a].at = "done"
                               /\ a \notin call[b].before /\ b \notin call[a].before

\* A group with members but without owner or admin, in which nobody can add,
\* kick, ban or delete, only comes about through its owner's own hand: a kick
\* or a ban of oneself.  No leave does it, whatever it interleaves with.
OrphanedByItsOwner ==
    (Elevated = {} /\ \E u \in Users : role[u] # "none") =>
        \E c \in Calls : /\ call[c].op \in {"kick", "ban"} /\ call[c].at = "done"
                         /\ call[c].target = call[c].by /\ call[c].role = "owner"

\* A call that answers 201 or 204 has produced its event, and every event is
\* about a row that was inserted, or deleted.
EventsAreTrue ==
    /\ \A c \in Calls : call[c].op \in {"send", "reply", "remove"} /\ call[c].answer = "ok"
           => <<EventOf(call[c].op), call[c].msg>> \in events
    /\ \A e \in events :
           IF e[1] = "MessageDeleted" THEN message[e[2]].state = "gone"
                                      ELSE message[e[2]].state # "none"

\* The routes carry out GroupRecord: whatever a call has read before, and
\* however calls interleave at their statements, fail or end with the process,
\* no row is added to a group that is gone or not there yet, a deletion leaves
\* no part of it, nobody becomes owner of a group that is in use, no message
\* changes its author or comes back, and no event is ahead of its row.
Record == INSTANCE GroupRecord WITH
    state    <- group,
    owners   <- {u \in Users : role[u] = "owner"},
    members  <- {u \in Users : role[u] # "none"},
    posted   <- {m \in Messages : message[m].state # "none"},
    author   <- [m \in Messages |-> IF message[m].state = "none" THEN Nobody ELSE message[m].sender],
    gone     <- {m \in Messages : message[m].state = "gone"},
    recalled <- {m \in Messages : message[m].state # "none" /\ message[m].recalled},
    told     <- events

RefinesRecord == Record!Spec
=============================================================================
