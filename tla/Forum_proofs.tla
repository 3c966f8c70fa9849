---------------------------- MODULE Forum_proofs ----------------------------
(***************************************************************************)
(* Safety of the forum, for any number of users, posts and requests.       *)
(* Nothing here is an induction over the tree: what a deletion takes along *)
(* and what a reader is shown are least sets, and that nobody is their own *)
(* ancestor is stated of sets (Grounded).                                  *)
(***************************************************************************)
EXTENDS Forum, TLAPS

Authored == {"edit", "delete", "attach"}

\* What the operation and the place of a request say about each other.
CallTyped ==
    \A c \in Calls :
        /\ call[c].at # "idle" => call[c].user \in Users
        /\ call[c].op = "post" => call[c].parent = None
        /\ call[c].at = "check" => call[c].op \in Authored
        /\ call[c].at = "write" /\ call[c].op \in Authored => call[c].on \in Items

\* A request that has not written has no row.
Unwritten ==
    \A c \in Calls : call[c].at \in {"idle", "check", "write"} => item[c].at = "none"

\* Whose author was checked is still, or was, that author's.
Checked ==
    \A c \in Calls : call[c].at = "write" /\ call[c].op \in Authored
        => item[call[c].on].at # "none" /\ item[call[c].on].author = call[c].user

\* A parent is a row that is there or was.
ParentsKnown ==
    \A i \in Items : item[i].parent # None => item[item[i].parent].at # "none"

\* No cycles: every set of rows has one whose parent is not in it.
Grounded ==
    \A S \in SUBSET Items : S # {} => \E x \in S : item[x].parent \notin S

IInv ==
    /\ TypeOK
    /\ CallTyped
    /\ Unwritten
    /\ Checked
    /\ ParentsKnown
    /\ Grounded
    /\ NothingDangles

-----------------------------------------------------------------------------
(* What falls.                                                             *)

\* Besides the row itself only comments fall.
LEMMA FallsBounded ==
  ASSUME NEW i \in Items
  PROVE  Falls(i) \subseteq {i} \cup Comments
<1> DEFINE S == {i} \cup Comments
<1>1. S \in SUBSET Items /\ i \in S /\ HangingOn(S) \subseteq S
  BY DEF Comments, HangingOn
<1> QED
  BY <1>1 DEF Falls

\* What hangs on what falls, falls.
LEMMA FallsClosed ==
  ASSUME NEW i \in Items
  PROVE  HangingOn(Falls(i)) \subseteq Falls(i)
<1> SUFFICES ASSUME NEW j \in HangingOn(Falls(i)),
                    NEW S \in SUBSET Items, i \in S, HangingOn(S) \subseteq S
             PROVE  j \in S
  BY DEF Falls, HangingOn, Comments
<1>1. Falls(i) \subseteq S
  BY DEF Falls
<1> QED
  BY <1>1 DEF HangingOn

-----------------------------------------------------------------------------
(* Steps of a call.                                                        *)

\* What a call asks for does not change, and no other call moves.
Asks(c) ==
    /\ call' \in [Calls -> CallType]
    /\ \A k \in Calls \ {c} : call'[k] = call[k]
    /\ call'[c].op = call[c].op /\ call'[c].user = call[c].user
    /\ call'[c].on = call[c].on /\ call'[c].parent = call[c].parent

LEMMA GotoCall ==
  ASSUME TypeOK, NEW c \in Calls, NEW s \in {"write", "publish", "count"}, Goto(c, s)
  PROVE  Asks(c) /\ call'[c].at = s
<1> DEFINE r == [call[c] EXCEPT !.at = s]
<1>1. call \in [Calls -> CallType] /\ call[c] \in CallType
  BY DEF TypeOK
<1>2. r \in CallType /\ r.at = s /\ r.op = call[c].op /\ r.user = call[c].user
      /\ r.on = call[c].on /\ r.parent = call[c].parent
  BY <1>1 DEF CallType
<1>3. call' = [call EXCEPT ![c] = r]
  BY DEF Goto
<1> HIDE DEF r
<1> QED
  BY <1>1, <1>2, <1>3 DEF Asks

LEMMA AnswerCall ==
  ASSUME TypeOK, NEW c \in Calls,
         NEW a \in {"200", "201", "204", "403", "404", "500"}, Answer(c, a)
  PROVE  Asks(c) /\ call'[c].at = "done"
<1> DEFINE r == [call[c] EXCEPT !.at = "done", !.answer = a]
<1>1. call \in [Calls -> CallType] /\ call[c] \in CallType
  BY DEF TypeOK
<1>2. r \in CallType /\ r.at = "done" /\ r.op = call[c].op /\ r.user = call[c].user
      /\ r.on = call[c].on /\ r.parent = call[c].parent
  BY <1>1 DEF CallType
<1>3. call' = [call EXCEPT ![c] = r]
  BY DEF Answer
<1> HIDE DEF r
<1> QED
  BY <1>1, <1>2, <1>3 DEF Asks

\* Rows keep their author and do not become unknown, and a call that has not
\* written has none: what is said of the calls holds after a step of c, which
\* ends at s, if it does not begin to write.
LEMMA CallsKept ==
  ASSUME IInv, NEW c \in Calls, Asks(c), call'[c].at \in {"publish", "count", "done"},
         call[c].at # "idle",
         \A i \in Items : item[i].at # "none" =>
             item'[i].at # "none" /\ item'[i].author = item[i].author,
         \A i \in Items \ {c} : item[i].at = "none" => item'[i].at = "none"
  PROVE  CallTyped' /\ Unwritten' /\ Checked'
<1>1. CallTyped'
  BY DEF IInv, CallTyped, Asks
<1>2. Unwritten'
  BY DEF IInv, Unwritten, Asks, Items
<1>3. Checked'
  <2> SUFFICES ASSUME NEW k \in Calls, call'[k].at = "write", call'[k].op \in Authored
               PROVE  item'[call'[k].on].at # "none" /\ item'[call'[k].on].author = call'[k].user
    BY DEF Checked
  <2>1. k # c /\ call'[k] = call[k]
    BY DEF Asks
  <2> QED
    BY <2>1 DEF IInv, CallTyped, Checked
<1> QED
  BY <1>1, <1>2, <1>3

\* Steps that change no row change nothing that is said of rows.
LEMMA RowsKept ==
  ASSUME IInv, UNCHANGED rows
  PROVE  ParentsKnown' /\ Grounded' /\ NothingDangles'
<1> SUFFICES ASSUME item' = item, votes' = votes, files' = files
             PROVE  ParentsKnown' /\ Grounded' /\ NothingDangles'
  BY DEF rows
<1>1. ParentsKnown' /\ Grounded'
  BY DEF IInv, ParentsKnown, Grounded
<1>2. NothingDangles'
  BY DEF IInv, NothingDangles, Comments, Live, IsPost
<1> QED
  BY <1>1, <1>2

-----------------------------------------------------------------------------
(* Steps that change no row.                                               *)

LEMMA BeginStep ==
  ASSUME IInv, NEW c \in Calls, Begin(c)
  PROVE  IInv'
<1>1. PICK u \in Users, q \in Requests :
        call' = [call EXCEPT ![c] =
             [op |-> q.op, user |-> u, on |-> q.on, parent |-> q.parent, answer |-> "none",
              at |-> IF q.op \in {"edit", "delete", "attach"} THEN "check" ELSE "write"]]
  BY DEF Begin
<1> DEFINE r == [op |-> q.op, user |-> u, on |-> q.on, parent |-> q.parent, answer |-> "none",
                 at |-> IF q.op \in {"edit", "delete", "attach"} THEN "check" ELSE "write"]
<1>2. /\ q.op \in {"post", "comment", "quiet comment", "edit", "delete", "attach", "up", "down"}
      /\ q.on \in Items \cup {None} /\ q.parent \in Items \cup {None}
      /\ q.op = "post" => q.parent = None
  BY DEF Requests, Known
<1>3. r \in CallType /\ r.user \in Users /\ (r.op = "post" => r.parent = None)
      /\ r.at = IF r.op \in Authored THEN "check" ELSE "write"
  BY <1>2 DEF CallType, Authored
<1>4. call[c].at = "idle" /\ UNCHANGED rows /\ item' = item /\ events' = events
  BY DEF Begin, rows
<1> HIDE DEF r
<1>5. call \in [Calls -> CallType] /\ call' = [call EXCEPT ![c] = r]
  BY <1>1 DEF IInv, TypeOK, r
<1>6. call' \in [Calls -> CallType] /\ call'[c] = r /\ \A k \in Calls \ {c} : call'[k] = call[k]
  BY <1>3, <1>5
<1>7. TypeOK'
  BY <1>4, <1>6 DEF IInv, TypeOK, rows
<1>8. CallTyped' /\ Unwritten' /\ Checked'
  BY <1>3, <1>4, <1>6 DEF IInv, CallTyped, Unwritten, Checked, Authored
<1> QED
  BY <1>4, <1>7, <1>8, RowsKept DEF IInv

LEMMA AuthorCheckStep ==
  ASSUME IInv, NEW c \in Calls, AuthorCheck(c)
  PROVE  IInv'
<1>1. UNCHANGED rows /\ item' = item /\ events' = events /\ call[c].at = "check"
  BY DEF AuthorCheck, rows
<1>2. CASE \E a \in {"403", "404"} : Answer(c, a)
  <2>1. Asks(c) /\ call'[c].at = "done"
    BY <1>2, AnswerCall DEF IInv
  <2>2. TypeOK'
    BY <1>1, <2>1 DEF IInv, TypeOK, rows, Asks
  <2> QED
    BY <1>1, <2>1, <2>2, CallsKept, RowsKept DEF IInv
<1>3. CASE Live(call[c].on) /\ item[call[c].on].author = call[c].user /\ Goto(c, "write")
  <2>1. Asks(c) /\ call'[c].at = "write"
    BY <1>3, GotoCall DEF IInv
  <2>2. TypeOK'
    BY <1>1, <2>1 DEF IInv, TypeOK, rows, Asks
  <2>3. call[c].op \in Authored /\ call[c].user \in Users /\ call[c].on \in Items
        /\ item[call[c].on].at # "none"
    BY <1>1, <1>3 DEF IInv, CallTyped, Live
  <2>4. CallTyped' /\ Unwritten' /\ Checked'
    BY <1>1, <1>3, <2>1, <2>3 DEF IInv, CallTyped, Unwritten, Checked, Asks
  <2> QED
    BY <1>1, <2>2, <2>4, RowsKept DEF IInv
<1> QED
  BY <1>2, <1>3 DEF AuthorCheck

\* The end of a call that writes nothing: SELECT of the counters, the event, an
\* error, or a statement that finds no row.
LEMMA EndStep ==
  ASSUME IInv, NEW c \in Calls, UNCHANGED rows, call[c].at # "idle",
         events' \in {events, events \cup {c}},
         \E a \in {"200", "201", "204", "403", "404", "500"} : Answer(c, a)
  PROVE  IInv'
<1>1. Asks(c) /\ call'[c].at = "done"
  BY AnswerCall DEF IInv
<1>2. item' = item /\ votes' = votes /\ files' = files
  BY DEF rows
<1>3. TypeOK'
  BY <1>1, <1>2 DEF IInv, TypeOK, Asks, Items
<1> QED
  BY <1>1, <1>2, <1>3, CallsKept, RowsKept DEF IInv

-----------------------------------------------------------------------------
(* Steps that write.                                                       *)

LEMMA UpsertVoteStep ==
  ASSUME IInv, NEW c \in Calls, UpsertVote(c)
  PROVE  IInv'
<1>1. /\ call[c].at = "write" /\ call[c].op \in {"up", "down"}
      /\ item' = item /\ files' = files /\ events' = events
  BY DEF UpsertVote
<1>2. CASE ~Live(call[c].on)
  BY <1>1, <1>2, EndStep DEF UpsertVote, rows
<1>3. CASE Live(call[c].on)
  <2> DEFINE v == [on |-> call[c].on, user |-> call[c].user, type |-> call[c].op]
  <2>1. Goto(c, "count") /\ votes' \subseteq votes \cup {v}
    BY <1>3 DEF UpsertVote
  <2>2. Asks(c) /\ call'[c].at = "count"
    BY <2>1, GotoCall DEF IInv
  <2>3. v \in [on : Items, user : Users, type : {"up", "down"}] /\ v.on = call[c].on
    BY <1>1, <1>3 DEF IInv, CallTyped, Live
  <2> HIDE DEF v
  <2>4. TypeOK'
    BY <1>1, <2>1, <2>2, <2>3 DEF IInv, TypeOK, Asks
  <2>5. ParentsKnown' /\ Grounded'
    BY <1>1 DEF IInv, ParentsKnown, Grounded
  <2>6. NothingDangles'
    BY <1>1, <1>3, <2>1, <2>3 DEF IInv, NothingDangles, Comments, Live, IsPost
  <2> QED
    BY <1>1, <2>2, <2>4, <2>5, <2>6, CallsKept DEF IInv
<1> QED
  BY <1>2, <1>3

\* The author was checked, and rows keep their author.
LEMMA InsertFileStep ==
  ASSUME IInv, NEW c \in Calls, InsertFile(c)
  PROVE  IInv'
<1>1. /\ call[c].at = "write" /\ call[c].op = "attach"
      /\ item' = item /\ votes' = votes /\ events' = events
  BY DEF InsertFile
<1>2. CASE ~Live(call[c].on)
  BY <1>1, <1>2, EndStep DEF InsertFile, rows
<1>3. CASE Live(call[c].on)
  <2> DEFINE f == [on |-> call[c].on, by |-> call[c].user, call |-> c]
  <2>1. Answer(c, "201") /\ files' = files \cup {f}
    BY <1>3 DEF InsertFile
  <2>2. Asks(c) /\ call'[c].at = "done"
    BY <2>1, AnswerCall DEF IInv
  <2>3. /\ f \in [on : Items, by : Users, call : Calls] /\ f.on = call[c].on
        /\ item[f.on].author = f.by
    BY <1>1, <1>3 DEF IInv, CallTyped, Checked, Authored, Live
  <2> HIDE DEF f
  <2>4. TypeOK'
    BY <1>1, <2>1, <2>2, <2>3 DEF IInv, TypeOK, Asks
  <2>5. ParentsKnown' /\ Grounded'
    BY <1>1 DEF IInv, ParentsKnown, Grounded
  <2>6. NothingDangles'
    BY <1>1, <1>3, <2>1, <2>3 DEF IInv, NothingDangles, Comments, Live, IsPost
  <2> QED
    BY <1>1, <2>2, <2>4, <2>5, <2>6, CallsKept DEF IInv
<1> QED
  BY <1>2, <1>3

\* Only a text changes.
LEMMA UpdateItemStep ==
  ASSUME IInv, NEW c \in Calls, UpdateItem(c)
  PROVE  IInv'
<1>1. /\ call[c].at = "write" /\ Answer(c, "200")
      /\ votes' = votes /\ files' = files /\ events' = events
  BY DEF UpdateItem
<1>2. CASE ~Live(call[c].on)
  BY <1>1, <1>2, EndStep DEF UpdateItem, rows
<1>3. CASE Live(call[c].on)
  <2>1. item \in [Items -> ItemType] /\ item' = [item EXCEPT ![call[c].on].text = "edited"]
        /\ call[c].on \in Items
    BY <1>3 DEF UpdateItem, IInv, TypeOK, Live
  <2>2. item' \in [Items -> ItemType]
    BY <2>1 DEF ItemType
  <2>3. \A i \in Items : /\ item'[i].at = item[i].at /\ item'[i].author = item[i].author
                         /\ item'[i].post = item[i].post /\ item'[i].parent = item[i].parent
    BY <2>1 DEF ItemType
  <2>4. Asks(c) /\ call'[c].at = "done"
    BY <1>1, AnswerCall DEF IInv
  <2>5. TypeOK'
    BY <1>1, <2>2, <2>4 DEF IInv, TypeOK, Asks
  <2>6. ParentsKnown'
    BY <2>1, <2>2, <2>3 DEF IInv, ParentsKnown, ItemType
  <2>7. Grounded'
    BY <2>3 DEF IInv, Grounded
  <2>8. \A i : (Live(i))' <=> Live(i)
    BY <2>3 DEF Live
  <2>9. NothingDangles'
    <3>1. Comments' = Comments
      BY <2>3, <2>8 DEF Comments, IsPost
    <3>2. \A f \in files : f.on \in Items
      BY DEF IInv, TypeOK
    <3>3. \A j \in Comments : j \in Items
      BY DEF Comments
    <3> QED
      BY <1>1, <2>3, <2>8, <3>1, <3>2, <3>3 DEF IInv, NothingDangles
  <2> QED
    BY <1>1, <2>3, <2>4, <2>5, <2>6, <2>7, <2>9, CallsKept DEF IInv
<1> QED
  BY <1>2, <1>3

\* A set of rows with a new one: without it, the set has a row whose parent is
\* outside, and nobody has the new row for a parent yet.
LEMMA InsertItemStep ==
  ASSUME IInv, NEW c \in Calls, InsertItem(c)
  PROVE  IInv'
<1> DEFINE post == call[c].op = "post"
<1>1. /\ call[c].at = "write" /\ call[c].op \in {"post", "comment", "quiet comment"}
      /\ votes' = votes /\ files' = files /\ events' = events
      /\ c \in Items /\ item[c].at = "none"
  BY DEF InsertItem, IInv, Unwritten, Items
<1>2. CASE ~post /\ ~ParentsExist(c)
  BY <1>1, <1>2, EndStep DEF InsertItem, rows
<1>3. CASE post \/ ParentsExist(c)
  <2> DEFINE r == [at |-> "live", author |-> call[c].user, parent |-> call[c].parent,
                   post |-> IF post THEN c ELSE call[c].on, text |-> "first"]
  <2>1. item' = [item EXCEPT ![c] = r] /\ item \in [Items -> ItemType] /\ call[c] \in CallType
    BY <1>3 DEF InsertItem, IInv, TypeOK
  <2>2. Asks(c) /\ call'[c].at \in {"publish", "done"}
    <3>1. CASE Answer(c, "200")
      BY <3>1, AnswerCall DEF IInv
    <3>2. CASE Goto(c, "publish")
      BY <3>2, GotoCall DEF IInv
    <3> QED
      BY <1>3, <3>1, <3>2 DEF InsertItem
  <2>3. r \in ItemType /\ r.at = "live" /\ r.parent = call[c].parent
        /\ (post => r.post = c) /\ (~post => r.post = call[c].on)
    BY <1>1, <2>1 DEF ItemType, CallType
  <2> HIDE DEF r
  <2>4. item' \in [Items -> ItemType] /\ item'[c] = r /\ \A i \in Items \ {c} : item'[i] = item[i]
    BY <1>1, <2>1, <2>3
  <2>5. TypeOK'
    BY <1>1, <2>2, <2>4 DEF IInv, TypeOK, Asks
  <2>6. r.parent # None => r.parent \in Items \ {c} /\ item[r.parent].at = "live"
    BY <1>1, <1>3, <2>3 DEF IInv, CallTyped, ParentsExist, Live
  <2>7. ParentsKnown'
    <3>1. \A i \in Items \ {c} : item[i].parent # None => item'[item[i].parent].at # "none"
      BY <1>1, <2>1, <2>3, <2>4 DEF IInv, ParentsKnown, ItemType
    <3> QED
      BY <2>3, <2>4, <2>6, <3>1 DEF ParentsKnown
  <2>8. Grounded'
    <3> SUFFICES ASSUME NEW S \in SUBSET Items, S # {}
                 PROVE  \E x \in S : item'[x].parent \notin S
      BY DEF Grounded
    <3>1. CASE S \subseteq {c}
      BY <2>4, <2>6, <3>1, NamesAssumption DEF Items
    <3>2. CASE ~(S \subseteq {c})
      <4>1. PICK x \in S \ {c} : item[x].parent \notin S \ {c}
        BY <3>2 DEF IInv, Grounded
      <4>2. item[x].parent # c
        BY <1>1, <4>1, NamesAssumption DEF IInv, ParentsKnown, Items
      <4> QED
        BY <2>4, <4>1, <4>2
    <3> QED
      BY <3>1, <3>2
  <2>9. NothingDangles'
    <3> DEFINE LiveNext(i) == i \in Items /\ item'[i].at = "live"
    <3>1. \A i : Live(i) => LiveNext(i) /\ i # c /\ item'[i] = item[i]
      BY <1>1, <2>4 DEF Live
    <3>2. \A j \in Comments' : j \in Items /\ (j = c \/ j \in Comments) /\ (j = c => ~post)
      BY <2>3, <2>4 DEF Comments, Live, IsPost
    <3>3. ASSUME NEW j \in Comments'
          PROVE  LiveNext(item'[j].post) /\ (item'[j].parent # None => LiveNext(item'[j].parent))
      <4>1. CASE j = c
        BY <1>3, <2>3, <2>4, <3>1, <3>2, <4>1 DEF ParentsExist
      <4>2. CASE j # c
        <5>1. j \in Comments /\ item'[j] = item[j]
          BY <2>4, <3>2, <4>2
        <5> QED
          BY <3>1, <5>1 DEF IInv, NothingDangles
      <4> QED
        BY <4>1, <4>2
    <3>4. \A v \in votes : LiveNext(v.on)
      BY <3>1 DEF IInv, NothingDangles
    <3>5. \A f \in files : LiveNext(f.on) /\ item'[f.on].author = f.by
      BY <3>1 DEF IInv, NothingDangles
    <3> QED
      BY <1>1, <3>3, <3>4, <3>5 DEF NothingDangles, Live
  <2> QED
    BY <1>1, <2>2, <2>4, <2>5, <2>7, <2>8, <2>9, CallsKept DEF IInv
<1> QED
  BY <1>2, <1>3

\* What stays hangs on nothing that fell.
LEMMA DeleteItemStep ==
  ASSUME IInv, NEW c \in Calls, DeleteItem(c)
  PROVE  IInv'
<1> DEFINE gone == IF Live(call[c].on) THEN Falls(call[c].on) ELSE {}
<1>1. /\ call[c].at = "write" /\ Answer(c, "204") /\ events' = events
      /\ item' = [i \in Items |-> IF i \in gone THEN [item[i] EXCEPT !.at = "gone"] ELSE item[i]]
      /\ votes' = {v \in votes : v.on \notin gone}
      /\ files' = {f \in files : f.on \notin gone}
  BY DEF DeleteItem
<1>2. HangingOn(gone) \subseteq gone /\ \A i \in gone : Live(i)
  <2>1. CASE Live(call[c].on)
    BY <2>1, FallsClosed, FallsBounded DEF Live, Comments
  <2>2. CASE ~Live(call[c].on)
    BY <2>2 DEF HangingOn, IInv, NothingDangles
  <2> QED
    BY <2>1, <2>2
<1> HIDE DEF gone
<1>3. item \in [Items -> ItemType]
  BY DEF IInv, TypeOK
<1>4. item' \in [Items -> ItemType]
  BY <1>1, <1>3 DEF ItemType
<1>5. \A i \in Items : /\ item'[i].author = item[i].author /\ item'[i].post = item[i].post
                       /\ item'[i].parent = item[i].parent
                       /\ item'[i].at = IF i \in gone THEN "gone" ELSE item[i].at
  BY <1>1, <1>3 DEF ItemType
<1>6. Asks(c) /\ call'[c].at = "done"
  BY <1>1, AnswerCall DEF IInv
<1>7. TypeOK'
  BY <1>1, <1>4, <1>6 DEF IInv, TypeOK, Asks
<1>8. ParentsKnown'
  BY <1>3, <1>5 DEF IInv, ParentsKnown, ItemType
<1>9. Grounded'
  BY <1>5 DEF IInv, Grounded
<1> DEFINE LiveNext(i) == i \in Items /\ item'[i].at = "live"
<1>10. \A i : LiveNext(i) <=> Live(i) /\ i \notin gone
  BY <1>2, <1>5 DEF Live
<1>11. NothingDangles'
  <2>1. \A j \in Comments' : j \in Comments \ gone
    BY <1>5, <1>10 DEF Comments, IsPost, Live
  <2>2. \A j \in Comments : j \in Items
                            /\ (j \notin gone => item[j].post \notin gone /\ item[j].parent \notin gone)
    BY <1>2 DEF HangingOn, Comments
  <2>3. \A j \in Comments' :
            LiveNext(item'[j].post) /\ (item'[j].parent # None => LiveNext(item'[j].parent))
    BY <1>5, <1>10, <2>1, <2>2 DEF IInv, NothingDangles
  <2>4. \A v \in votes' : LiveNext(v.on)
    BY <1>1, <1>10 DEF IInv, NothingDangles
  <2>5. \A f \in files' : LiveNext(f.on) /\ item'[f.on].author = f.by
    BY <1>1, <1>5, <1>10 DEF IInv, NothingDangles, Live
  <2> QED
    BY <2>3, <2>4, <2>5 DEF NothingDangles, Live
<1>12. \A i \in Items : /\ item[i].at # "none" => item'[i].at # "none"
                        /\ item[i].at = "none" => item'[i].at = "none"
  BY <1>2, <1>5 DEF Live
<1> QED
  BY <1>1, <1>5, <1>6, <1>7, <1>8, <1>9, <1>11, <1>12, CallsKept DEF IInv

-----------------------------------------------------------------------------
(* The specification.                                                      *)

LEMMA InitIInv ==
  ASSUME Init
  PROVE  IInv
<1>1. item \in [Items -> ItemType]
  BY NamesAssumption, AuthorAssumption DEF Init, NoRow, ItemType, Items
<1>2. TypeOK
  BY <1>1 DEF Init, TypeOK, Idle, CallType
<1>3. \A i \in Items : item[i].parent = None
  BY DEF Init, NoRow
<1>4. CallTyped /\ Unwritten /\ Checked
  BY NamesAssumption DEF Init, CallTyped, Unwritten, Checked, Idle, NoRow, Items
<1>5. ParentsKnown /\ Grounded
  BY <1>3, NamesAssumption DEF ParentsKnown, Grounded, Items
<1>6. Comments = {}
  BY DEF Init, Comments, Live, IsPost, NoRow
<1>7. NothingDangles
  BY <1>6 DEF Init, NothingDangles
<1> QED
  BY <1>2, <1>4, <1>5, <1>7 DEF IInv

LEMMA StepIInv ==
  ASSUME IInv, [Next]_vars
  PROVE  IInv'
<1>1. ASSUME NEW c \in Calls, ReadCounters(c) PROVE IInv'
  BY <1>1, EndStep DEF ReadCounters
<1>2. ASSUME NEW c \in Calls, Publish(c) PROVE IInv'
  BY <1>2, EndStep DEF Publish
<1>3. ASSUME NEW c \in Calls, Fails(c) PROVE IInv'
  BY <1>3, EndStep DEF Fails
<1>4. CASE UNCHANGED vars
  <2>1. UNCHANGED rows /\ item' = item /\ votes' = votes /\ files' = files
        /\ events' = events /\ call' = call
    BY <1>4 DEF vars, rows
  <2> QED
    BY <2>1, RowsKept DEF IInv, TypeOK, CallTyped, Unwritten, Checked
<1> QED
  BY <1>1, <1>2, <1>3, <1>4, BeginStep, AuthorCheckStep, InsertItemStep, UpdateItemStep,
     DeleteItemStep, UpsertVoteStep, InsertFileStep DEF Next, Write

\* The invariant holds in every state.
THEOREM Invariance == Spec => []IInv
  BY InitIInv, StepIInv, PTL DEF Spec

\* Every row, vote, attachment and call is of its type: in particular who a row
\* belongs to is a user, and what a deletion leaves is a row.
THEOREM TypeCorrect == Spec => []TypeOK
<1>1. IInv => TypeOK
  BY DEF IInv
<1> QED
  BY <1>1, Invariance, PTL

\* No comment outlives its post or its parent, no vote and no attachment what it
\* is on, whichever of edit, delete, attach and reply come between the SELECT and
\* the statement of another; and what is attached comes from the author.
THEOREM Undangling == Spec => []NothingDangles
<1>1. IInv => NothingDangles
  BY DEF IInv
<1> QED
  BY <1>1, Invariance, PTL

\* A set that holds the roots, and the replies to what it holds, holds every
\* comment of the post: of those it left out, one would have its parent elsewhere.
LEMMA Whole ==
  ASSUME Grounded
  PROVE  ThreadIsWhole
<1> SUFFICES ASSUME NEW p \in Posts, NEW S \in SUBSET OfPost(p), Roots(p) \subseteq S,
                    {k \in OfPost(p) : item[k].parent \in S} \subseteq S
             PROVE  OfPost(p) \subseteq S
  BY DEF ThreadIsWhole, Shown
<1> DEFINE out == OfPost(p) \ S
<1> SUFFICES ASSUME out # {} PROVE FALSE
  OBVIOUS
<1>1. out \in SUBSET Items
  BY DEF OfPost, Comments
<1>2. PICK x \in out : item[x].parent \notin out
  BY <1>1 DEF Grounded
<1> QED
  BY <1>2 DEF Roots

\* The tree of a post holds all of its comments: there is no cycle, and a reply
\* whose parent is elsewhere is a root.
THEOREM Threads == Spec => []ThreadIsWhole
<1>1. IInv => ThreadIsWhole
  BY Whole DEF IInv
<1> QED
  BY <1>1, Invariance, PTL
=============================================================================
