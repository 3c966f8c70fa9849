------------------------------- MODULE Forum -------------------------------
(***************************************************************************)
(* The forum of messaging-service (routes/forum.ts and its part of          *)
(* grpc-server.ts): posts, comments and replies, votes, attachments, and   *)
(* the tree of comments that a reader gets.                                *)
(*                                                                         *)
(* Editing, deleting and attaching read the author first and write in a     *)
(* second statement; the rows may be gone in between.  Everything hangs on  *)
(* foreign keys with ON DELETE CASCADE.  A reply names a parent, and nobody *)
(* asks whether the parent belongs to the same post.  The gRPC handlers     *)
(* insert comments without an event; their UpdatePost, DeletePost,          *)
(* UpdateComment and DeleteComment answer and do nothing.                  *)
(*                                                                         *)
(* Texts are "first" or "edited".  The counters upvotes and downvotes of    *)
(* posts and comments are read after a vote and written by nothing.        *)
(***************************************************************************)
CONSTANTS
    Users,
    OldPosts,   \* posts that are there
    AuthorOf,   \* who wrote them
    Calls,      \* requests; one that creates a row gives it its name
    None        \* no item

ASSUME NamesAssumption  == OldPosts \cap Calls = {} /\ None \notin OldPosts \cup Calls
ASSUME AuthorAssumption == AuthorOf \in [OldPosts -> Users]

Items == OldPosts \cup Calls

VARIABLES
    item,     \* forum.posts and forum.comments; a post is of itself
    votes,    \* forum.post_votes and comment_votes
    files,    \* forum.post_attachments and comment_attachments
    events,   \* items announced by PostCreated or CommentCreated
    call

rows == <<item, votes, files>>
vars == <<item, votes, files, events, call>>

NoRow == [at |-> "none", author |-> None, post |-> None, parent |-> None, text |-> "first"]
Idle  == [op |-> "none", user |-> None, on |-> None, parent |-> None,
          at |-> "idle", answer |-> "none"]

Live(i)   == i \in Items /\ item[i].at = "live"
IsPost(i) == item[i].post = i
Posts     == {i \in Items : Live(i) /\ IsPost(i)}
Comments  == {i \in Items : Live(i) /\ ~IsPost(i)}

Init ==
    /\ item = [i \in Items |-> IF i \in OldPosts
                               THEN [NoRow EXCEPT !.at = "live", !.author = AuthorOf[i], !.post = i]
                               ELSE NoRow]
    /\ votes = {} /\ files = {} /\ events = {}
    /\ call = [c \in Calls |-> Idle]

Goto(c, s)   == call' = [call EXCEPT ![c].at = s]
Answer(c, a) == call' = [call EXCEPT ![c].at = "done", ![c].answer = a]

-----------------------------------------------------------------------------
\* A request names what exists or did.
Known == {i \in Items : item[i].at # "none"}

Requests ==
    LET posts == {i \in Known : IsPost(i)}
        said  == Known \ posts
    IN  [op : {"post"}, on : {None}, parent : {None}]
        \cup [op : {"comment", "quiet comment"}, on : posts, parent : said \cup {None}]
        \cup [op : {"edit", "delete", "attach"}, on : Known, parent : {None}]
        \cup [op : {"up", "down"}, on : Known, parent : {None}]

\* title, content, flair, vote and file_url are there.
Begin(c) ==
    /\ call[c].at = "idle"
    /\ \E u \in Users, q \in Requests :
         call' = [call EXCEPT ![c] =
             [op |-> q.op, user |-> u, on |-> q.on, parent |-> q.parent, answer |-> "none",
              at |-> IF q.op \in {"edit", "delete", "attach"} THEN "check" ELSE "write"]]
    /\ UNCHANGED <<rows, events>>

\* SELECT user_id.
AuthorCheck(c) ==
    /\ call[c].at = "check"
    /\ \/ Live(call[c].on) /\ item[call[c].on].author = call[c].user /\ Goto(c, "write")
       \/ Live(call[c].on) /\ item[call[c].on].author # call[c].user /\ Answer(c, "403")
       \/ ~Live(call[c].on) /\ Answer(c, "404")
    /\ UNCHANGED <<rows, events>>

-----------------------------------------------------------------------------
(* The statements.                                                         *)

\* What the foreign keys ask of a comment.
ParentsExist(c) ==
    /\ Live(call[c].on)
    /\ call[c].parent = None \/ Live(call[c].parent)

InsertItem(c) ==
    LET post == call[c].op = "post"
    IN  /\ call[c].at = "write" /\ call[c].op \in {"post", "comment", "quiet comment"}
        /\ IF post \/ ParentsExist(c)
           THEN /\ item' = [item EXCEPT ![c] =
                      [at |-> "live", author |-> call[c].user, parent |-> call[c].parent,
                       post |-> IF post THEN c ELSE call[c].on, text |-> "first"]]
                /\ IF call[c].op = "quiet comment" THEN Answer(c, "200") ELSE Goto(c, "publish")
           ELSE Answer(c, "500") /\ UNCHANGED item
        /\ UNCHANGED <<votes, files, events>>

\* Mutant: what the request leaves out is overwritten with null.
UpdateItemNulls(c) ==
    /\ call[c].at = "write" /\ call[c].op = "edit"
    /\ IF Live(call[c].on)
       THEN \E t \in {"edited", None} : item' = [item EXCEPT ![call[c].on].text = t]
       ELSE UNCHANGED item
    /\ Answer(c, "200")
    /\ UNCHANGED <<votes, files, events>>

\* The row may be gone: then the answer is 200 with nothing in it.
UpdateItem(c) ==
    /\ call[c].at = "write" /\ call[c].op = "edit"
    /\ IF Live(call[c].on) THEN item' = [item EXCEPT ![call[c].on].text = "edited"]
                           ELSE UNCHANGED item
    /\ Answer(c, "200")
    /\ UNCHANGED <<votes, files, events>>

\* Mutant: the parent of a comment does not cascade.
FallsWithPost(i) == {i} \cup {j \in Comments : item[j].post = i}

\* The comments of what is in S, and the replies to it.
HangingOn(S) == {j \in Comments : item[j].post \in S \/ item[j].parent \in S}

\* What a deletion takes along, the least set that loses nothing: comments of a
\* post, replies, their replies.
Falls(i) == {j \in Items : \A S \in SUBSET Items : i \in S /\ HangingOn(S) \subseteq S => j \in S}

DeleteItem(c) ==
    LET gone == IF Live(call[c].on) THEN Falls(call[c].on) ELSE {}
    IN  /\ call[c].at = "write" /\ call[c].op = "delete"
        /\ item' = [i \in Items |-> IF i \in gone THEN [item[i] EXCEPT !.at = "gone"] ELSE item[i]]
        /\ votes' = {v \in votes : v.on \notin gone}
        /\ files' = {f \in files : f.on \notin gone}
        /\ Answer(c, "204")
        /\ UNCHANGED events

\* INSERT ... ON CONFLICT (post_id, user_id) DO UPDATE.
UpsertVote(c) ==
    LET others == {v \in votes : ~(v.on = call[c].on /\ v.user = call[c].user)}
    IN  /\ call[c].at = "write" /\ call[c].op \in {"up", "down"}
        /\ IF Live(call[c].on)
           THEN /\ votes' = others \cup {[on |-> call[c].on, user |-> call[c].user, type |-> call[c].op]}
                /\ Goto(c, "count")
           ELSE Answer(c, "500") /\ UNCHANGED votes
        /\ UNCHANGED <<item, files, events>>

\* SELECT upvotes, downvotes; no row counts as zero.
ReadCounters(c) ==
    /\ call[c].at = "count"
    /\ Answer(c, "200")
    /\ UNCHANGED <<rows, events>>

InsertFile(c) ==
    /\ call[c].at = "write" /\ call[c].op = "attach"
    /\ IF Live(call[c].on)
       THEN /\ files' = files \cup {[on |-> call[c].on, by |-> call[c].user, call |-> c]}
            /\ Answer(c, "201")
       ELSE Answer(c, "500") /\ UNCHANGED files
    /\ UNCHANGED <<item, votes, events>>

\* PostCreated or CommentCreated, awaited.
Publish(c) ==
    /\ call[c].at = "publish"
    /\ \/ events' = events \cup {c} /\ Answer(c, "201")
       \/ events' \in {events, events \cup {c}} /\ Answer(c, "500")
    /\ UNCHANGED rows

Write(c) ==
    InsertItem(c) \/ UpdateItem(c) \/ DeleteItem(c) \/ UpsertVote(c) \/ InsertFile(c)

\* A statement fails, with or without its effect, or the process ends.
Fails(c) ==
    /\ call[c].at \notin {"idle", "done"}
    /\ Answer(c, "500")
    /\ UNCHANGED <<rows, events>>

Next == \E c \in Calls :
    \/ Begin(c) \/ AuthorCheck(c) \/ Write(c) \/ ReadCounters(c) \/ Publish(c) \/ Fails(c)

Spec == Init /\ [][Next]_vars

-----------------------------------------------------------------------------
(* GET /posts/:postId/comments.                                            *)

OfPost(p) == {j \in Comments : item[j].post = p}

\* Mutant: a comment whose parent is not among the rows is left out.
RootsOnly(p) == {j \in OfPost(p) : item[j].parent = None}

\* Comments without a parent among the rows.
Roots(p) == {j \in OfPost(p) : item[j].parent \notin OfPost(p)}

\* The roots and whatever hangs below them: a list of replies per comment, walked
\* down from the roots.
Shown(p) ==
    {j \in OfPost(p) : \A S \in SUBSET OfPost(p) :
        Roots(p) \subseteq S /\ {k \in OfPost(p) : item[k].parent \in S} \subseteq S => j \in S}

-----------------------------------------------------------------------------
(* Properties.                                                             *)

ItemType ==
    [at : {"none", "live", "gone"}, author : Users \cup {None}, post : Items \cup {None},
     parent : Items \cup {None}, text : {"first", "edited"}]

CallType ==
    [op : {"none", "post", "comment", "quiet comment", "edit", "delete", "attach", "up", "down"},
     user : Users \cup {None}, on : Items \cup {None}, parent : Items \cup {None},
     at : {"idle", "check", "write", "publish", "count", "done"},
     answer : {"none", "200", "201", "204", "403", "404", "500"}]

\* The types of the rows and of the calls.
TypeOK ==
    /\ item \in [Items -> ItemType]
    /\ votes \subseteq [on : Items, user : Users, type : {"up", "down"}]
    /\ files \subseteq [on : Items, by : Users, call : Calls]
    /\ events \subseteq Items
    /\ call \in [Calls -> CallType]

\* Nothing outlives what it belongs to, whoever deletes it between the steps of
\* another call: no comment its post or its parent, no vote and no attachment
\* its post or comment; and what is attached comes from the author.
NothingDangles ==
    /\ \A j \in Comments : Live(item[j].post) /\ (item[j].parent # None => Live(item[j].parent))
    /\ \A v \in votes : Live(v.on)
    /\ \A f \in files : Live(f.on) /\ item[f.on].author = f.by

\* The tree shows every comment of the post: also a reply whose parent belongs
\* to another post, and whatever was deleted around it.
ThreadIsWhole == \A p \in Posts : Shown(p) = OfPost(p)
=============================================================================
