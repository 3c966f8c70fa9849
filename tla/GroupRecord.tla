---------------------------- MODULE GroupRecord ----------------------------
(***************************************************************************)
(* What messaging-service promises about the record of a group, with       *)
(* neither requests nor statements in sight: only an open group gains       *)
(* members and messages; it has one owner at most, made before there is     *)
(* anyone or anything in it; a message keeps its author, and what is        *)
(* recalled or erased stays so; deleting the group takes all of it at once, *)
(* for good; what is announced of a message has happened.  Who may do what, *)
(* and what a request is answered, it does not say: see GroupChat.          *)
(***************************************************************************)
CONSTANTS
    Users,
    Messages,
    Nobody      \* author of what is not posted

VARIABLES
    state,      \* none, live, archived or deleted
    owners,
    members,    \* the owner too
    posted,     \* messages that are there or were
    author,     \* of each message
    gone,       \* erased messages
    recalled,   \* messages whose text was taken back
    told        \* announcements

vars == <<state, owners, members, posted, author, gone, recalled, told>>

Open == state \in {"live", "archived"}

Init ==
    /\ \/ /\ state = "none" /\ owners = {} /\ members = {} /\ posted = {}
       \/ /\ state = "live"
          /\ members \in SUBSET Users /\ \E u \in members : owners = {u}
          /\ posted \in SUBSET Messages
    /\ author \in [Messages -> Users \cup {Nobody}]
    /\ \A m \in Messages : author[m] = Nobody <=> m \notin posted
    /\ gone = {} /\ recalled = {} /\ told = {}

Found ==
    /\ state = "none" /\ state' = "live"
    /\ UNCHANGED <<owners, members, posted, author, gone, recalled, told>>

Own(u) ==
    /\ state = "live" /\ members = {} /\ posted = {}
    /\ owners' = {u} /\ members' = {u}
    /\ UNCHANGED <<state, posted, author, gone, recalled, told>>

Admit(u) ==
    /\ Open /\ u \notin members
    /\ members' = members \cup {u}
    /\ UNCHANGED <<state, owners, posted, author, gone, recalled, told>>

Part(u) ==
    /\ u \in members
    /\ members' = members \ {u} /\ owners' = owners \ {u}
    /\ UNCHANGED <<state, posted, author, gone, recalled, told>>

Archive ==
    /\ state = "live" /\ state' = "archived"
    /\ UNCHANGED <<owners, members, posted, author, gone, recalled, told>>

Disband ==
    /\ Open /\ state' = "deleted"
    /\ owners' = {} /\ members' = {} /\ gone' = posted
    /\ UNCHANGED <<posted, author, recalled, told>>

Post(m, u) ==
    /\ Open /\ m \notin posted
    /\ posted' = posted \cup {m}
    /\ author' = [author EXCEPT ![m] = u]
    /\ UNCHANGED <<state, owners, members, gone, recalled, told>>

Recall(m) ==
    /\ m \in posted \ (gone \cup recalled)
    /\ recalled' = recalled \cup {m}
    /\ UNCHANGED <<state, owners, members, posted, author, gone, told>>

Erase(m) ==
    /\ m \in posted \ gone
    /\ gone' = gone \cup {m}
    /\ UNCHANGED <<state, owners, members, posted, author, recalled, told>>

Tell(m) ==
    /\ \/ m \in posted /\ told' \in {told \cup {<<k, m>>} : k \in {"MessageSent", "MessageReplied"}}
       \/ m \in gone /\ told' = told \cup {<<"MessageDeleted", m>>}
    /\ UNCHANGED <<state, owners, members, posted, author, gone, recalled>>

Next ==
    \/ Found \/ Archive \/ Disband
    \/ \E u \in Users : Own(u) \/ Admit(u) \/ Part(u)
    \/ \E m \in Messages : Recall(m) \/ Erase(m) \/ Tell(m) \/ \E u \in Users : Post(m, u)

Spec == Init /\ [][Next]_vars
=============================================================================
