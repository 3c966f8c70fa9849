---------------------------- MODULE Booking_proofs ----------------------------
(***************************************************************************)
(* Safety of the reservation life cycle, for any number of bookings,       *)
(* dates, users, calls and faults.                                         *)
(***************************************************************************)
EXTENDS Booking, TLAPS

-----------------------------------------------------------------------------
(* What the helpers do to the local variables of a call *)

\* A call that answers changes only its own stage, answer and landlord.
LEMMA AnswerEffect ==
  ASSUME TypeOK, NEW c \in Calls, NEW a \in Answers, Answer(c, a)
  PROVE  /\ call' \in [Calls -> CallStates]
         /\ \A d \in Calls \ {c} : call'[d] = call[d]
         /\ call'[c].at = "done" /\ call'[c].answer = a
         /\ call'[c].b = call[c].b /\ call'[c].event = call[c].event
         /\ call'[c].via = call[c].via
<1>1. call \in [Calls -> CallStates] /\ call[c] \in CallStates
  BY DEF TypeOK
<1>2. call' = [call EXCEPT ![c] = [call[c] EXCEPT !.at = "done", !.answer = a, !.landlord = Nobody]]
  BY <1>1 DEF Answer, CallStates
<1> DEFINE new == [call[c] EXCEPT !.at = "done", !.answer = a, !.landlord = Nobody]
<1>3. new \in CallStates
  BY <1>1 DEF CallStates, Stages
<1>4. /\ new.at = "done" /\ new.answer = a
      /\ new.b = call[c].b /\ new.event = call[c].event /\ new.via = call[c].via
  BY <1>1 DEF CallStates
<1> HIDE DEF new
<1>5. call' = [call EXCEPT ![c] = new]
  BY <1>2 DEF new
<1> QED
  BY <1>1, <1>3, <1>4, <1>5

\* A call that goes on changes only its own stage.
LEMMA GotoEffect ==
  ASSUME TypeOK, NEW c \in Calls, NEW l \in Stages, Goto(c, l)
  PROVE  /\ call' \in [Calls -> CallStates]
         /\ \A d \in Calls \ {c} : call'[d] = call[d]
         /\ call'[c].at = l /\ call'[c].answer = call[c].answer
         /\ call'[c].b = call[c].b /\ call'[c].event = call[c].event
         /\ call'[c].via = call[c].via /\ call'[c].landlord = call[c].landlord
<1>1. call \in [Calls -> CallStates] /\ call[c] \in CallStates
  BY DEF TypeOK
<1> DEFINE new == [call[c] EXCEPT !.at = l]
<1>2. call' = [call EXCEPT ![c] = new]
  BY <1>1 DEF Goto, CallStates
<1>3. new \in CallStates
  BY <1>1 DEF CallStates
<1>4. /\ new.at = l /\ new.answer = call[c].answer
      /\ new.b = call[c].b /\ new.event = call[c].event
      /\ new.via = call[c].via /\ new.landlord = call[c].landlord
  BY <1>1 DEF CallStates
<1> HIDE DEF new
<1> QED
  BY <1>1, <1>2, <1>3, <1>4

\* What the two reads leave in the local variables of a call.
LEMMA ReadEffect ==
  ASSUME TypeOK, NEW c \in Calls, Arrive(c)
  PROVE  /\ call[c].at = "idle"
         /\ call' \in [Calls -> CallStates]
         /\ \A d \in Calls \ {c} : call'[d] = call[d]
         /\ call'[c].b \in Bookings
         /\ call'[c].at \in {"marking", "cancelling", "done"}
         /\ call'[c].answer # "ok"
         /\ call'[c].at # "done" => call'[c].answer = "none"
         /\ call'[c].at = "marking" => call'[c].event = "confirmed"
         /\ call'[c].at = "cancelling" => call'[c].event = "cancelled"
         /\ call'[c].at # "done" => status[call'[c].b] # "absent"
<1>1. call \in [Calls -> CallStates] /\ call[c].at = "idle"
  BY DEF TypeOK, Arrive, ReadToConfirm, ReadToCancel
<1> DEFINE Good(new) ==
      /\ new \in CallStates
      /\ new.b \in Bookings
      /\ new.at \in {"marking", "cancelling", "done"}
      /\ new.answer # "ok"
      /\ new.at # "done" => new.answer = "none" /\ status[new.b] # "absent"
      /\ new.at = "marking" => new.event = "confirmed"
      /\ new.at = "cancelling" => new.event = "cancelled"
<1>2. ASSUME NEW b \in Bookings, NEW via \in {"http", "grpc"},
             NEW e \in {"confirmed", "cancelled"}, NEW a \in {"not_found", "conflict", "forbidden"}
      PROVE  Good(Settled(via, b, e, a))
  BY DEF Settled, CallStates, Stages, Answers
<1>3. ASSUME NEW b \in Bookings, NEW via \in {"http", "grpc"}, status[b] # "absent",
             NEW u \in Users \cup {Nobody}
      PROVE  /\ Good(Started("marking", via, b, u, "confirmed"))
             /\ Good(Started("cancelling", via, b, u, "cancelled"))
  BY <1>3 DEF Started, CallStates, Stages, Answers
<1>4. \E new : Good(new) /\ call' = [call EXCEPT ![c] = new]
  <2> HIDE DEF Good
  <2>1. CASE ReadToConfirm(c)
    BY <2>1, <1>2, <1>3 DEF ReadToConfirm, TypeOK
  <2>2. CASE ReadToCancel(c)
    BY <2>2, <1>2, <1>3 DEF ReadToCancel
  <2> QED
    BY <2>1, <2>2 DEF Arrive
<1> QED
  BY <1>1, <1>4

\* The topic only grows.
LEMMA LogGrows ==
  ASSUME TypeOK, NEW e \in {"created", "confirmed", "cancelled"}, NEW b \in Bookings,
         log' = Append(log, <<e, b>>)
  PROVE  /\ log' \in Seq(Events)
         /\ \A f, x : InLog(f, x)' <=> InLog(f, x) \/ (f = e /\ x = b)
<1>1. log \in Seq(Events) /\ <<e, b>> \in Events
  BY DEF TypeOK, Events
<1>2. log' \in Seq(Events)
  BY <1>1
<1>3. Len(log') = Len(log) + 1 /\ log'[Len(log) + 1] = <<e, b>> /\ Len(log) + 1 \in DOMAIN log'
  BY <1>1
<1>4. \A k \in DOMAIN log : k \in DOMAIN log' /\ log'[k] = log[k]
  BY <1>1
<1>5. \A k \in DOMAIN log' : k \in DOMAIN log \/ k = Len(log) + 1
  BY <1>1
<1>6. ASSUME NEW f, NEW x
      PROVE  InLog(f, x)' <=> InLog(f, x) \/ (f = e /\ x = b)
  <2>1. <<f, x>> = <<e, b>> <=> f = e /\ x = b
    OBVIOUS
  <2> QED
    BY <1>3, <1>4, <1>5, <2>1 DEF InLog
<1> QED
  BY <1>2, <1>6

-----------------------------------------------------------------------------
(* The inductive invariant *)

\* The days of a listing are held by one booking at a time, each with a real
\* range of days.
Exclusive ==
    /\ \A b \in Bookings : status[b] \in Holding => First[b] <= Last[b]
    /\ \A b1, b2 \in Bookings :
          b1 # b2 /\ Overlap(b1, b2) => ~(status[b1] \in Holding /\ status[b2] \in Holding)

\* What calls in progress know: a confirmation or a cancellation is published
\* only when it has happened, and only a call that has ended has an answer.
CallsInv ==
    \A c \in Calls :
        /\ call[c].at \in {"marking", "confirming"} => call[c].event = "confirmed"
        /\ call[c].at = "cancelling" => call[c].event = "cancelled"
        /\ call[c].at \in {"marking", "confirming", "cancelling"} => status[call[c].b] # "absent"
        /\ call[c].at = "publishing" =>
              \/ call[c].event = "confirmed" /\ call[c].b \in confirmed
              \/ call[c].event = "cancelled" /\ status[call[c].b] = "cancelled"
        /\ call[c].at # "done" => call[c].answer = "none"

ConfirmedRows == \A b \in confirmed : status[b] \in {"confirmed", "cancelled"}

IInv ==
    /\ Exclusive
    /\ CallsInv
    /\ ConfirmedRows
    /\ EventsAreTrue
    /\ GrpcOkIsAnnounced
    /\ PendingIsHandled

\* IInv and the types hold of the initial state.
LEMMA InitIInv == Init => TypeOK /\ IInv
<1> SUFFICES ASSUME Init
             PROVE  TypeOK /\ IInv
  OBVIOUS
<1> USE FaultAssumption DEF Init
<1>1. Idle \in CallStates /\ Idle.at = "idle" /\ Idle.answer = "none"
  BY DEF Idle, CallStates, Stages, Answers
<1>2. TypeOK
  <2>1. \A c \in Calls : call[c] = Idle
    OBVIOUS
  <2>2. call \in [Calls -> CallStates]
    BY <1>1
  <2>3. status \in [Bookings -> Statuses] /\ \A b \in Bookings : status[b] = "absent"
    BY DEF Statuses
  <2> QED
    BY <1>1, <2>1, <2>2, <2>3 DEF TypeOK
<1>3. CallsInv /\ EventsAreTrue /\ GrpcOkIsAnnounced
  BY <1>1 DEF CallsInv, EventsAreTrue, GrpcOkIsAnnounced, InLog
<1>4. Exclusive /\ ConfirmedRows /\ PendingIsHandled
  BY DEF Exclusive, Holding, ConfirmedRows, PendingIsHandled
<1> QED
  BY <1>2, <1>3, <1>4 DEF IInv

\* Steps that write no row, announce nothing but a creation and answer no call
\* with ok: what remains to check is what they do to the calls.
LEMMA RowsKept ==
  ASSUME TypeOK, IInv, UNCHANGED rowVars, CallsInv', PendingIsHandled',
         \A k \in DOMAIN log : k \in DOMAIN log' /\ log'[k] = log[k],
         \A b \in Bookings : InLog("confirmed", b)' => InLog("confirmed", b),
         \A b \in Bookings : InLog("cancelled", b)' => InLog("cancelled", b),
         \A c \in Calls : call'[c].answer = "ok" => call'[c] = call[c]
  PROVE  IInv'
<1> USE DEF rowVars
<1>1. Exclusive' /\ ConfirmedRows'
  BY DEF IInv, Exclusive, Overlap, ConfirmedRows
<1>2. EventsAreTrue'
  BY DEF IInv, EventsAreTrue
<1>3. GrpcOkIsAnnounced'
  <2> SUFFICES ASSUME NEW c \in Calls, call'[c].answer = "ok", call'[c].via = "grpc"
               PROVE  InLog(call[c].event, call[c].b)'
    BY DEF GrpcOkIsAnnounced
  <2>1. InLog(call[c].event, call[c].b)
    BY DEF IInv, GrpcOkIsAnnounced
  <2>2. PICK k \in DOMAIN log : log[k] = <<call[c].event, call[c].b>>
    BY <2>1 DEF InLog
  <2>3. k \in DOMAIN log' /\ log'[k] = <<call'[c].event, call'[c].b>>
    BY <2>2
  <2> QED
    BY <2>3 DEF InLog
<1> QED
  BY <1>1, <1>2, <1>3 DEF IInv

\* Steps that move one row forward and append nothing.
LEMMA RowMoves ==
  ASSUME TypeOK, IInv, CallsInv',
         UNCHANGED log, faults' = faults,
         \A c \in Calls : call'[c].answer = "ok" => call'[c] = call[c],
         confirmed \subseteq confirmed', ConfirmedRows', Exclusive', PendingIsHandled',
         \A b \in Bookings : status[b] = "cancelled" => status'[b] = "cancelled"
  PROVE  IInv'
<1>1. \A e, b : InLog(e, b)' <=> InLog(e, b)
  BY DEF InLog
<1>2. EventsAreTrue'
  <2>1. \A c \in Calls : call'[c].answer = "ok" => call'[c].b \in Bookings
    BY DEF TypeOK, IInv, CallsInv
  <2> QED
    BY <1>1, <2>1 DEF IInv, EventsAreTrue
<1>3. GrpcOkIsAnnounced'
  BY <1>1 DEF IInv, GrpcOkIsAnnounced
<1> QED
  BY <1>2, <1>3 DEF IInv

\* A booking that is pending keeps the call that handles it, or cut short.
LEMMA HandledKept ==
  ASSUME TypeOK, PendingIsHandled, faults' \in Nat, faults' >= faults,
         \A c \in Calls : call'[c] = call[c] \/ call[c].answer = "none",
         \A c \in Calls : call[c].at = "confirming" =>
             /\ call'[c].b = call[c].b /\ call'[c].event = call[c].event
             /\ call'[c].at = "confirming" \/ (call'[c].answer = "error" /\ faults' > 0),
         \A b \in Bookings : status'[b] = "pending_confirmation" =>
                                 status[b] = "pending_confirmation"
  PROVE  PendingIsHandled'
<1> SUFFICES ASSUME NEW b \in Bookings, status'[b] = "pending_confirmation"
             PROVE  \E c \in Calls : Handles(c, b)'
  BY DEF PendingIsHandled
<1>1. PICK c \in Calls : Handles(c, b)
  BY DEF PendingIsHandled
<1>2. Handles(c, b)'
  BY <1>1 DEF Handles, TypeOK
<1> QED
  BY <1>2

-----------------------------------------------------------------------------
(* Every action keeps the types and the invariant *)

LEMMA CreateStep ==
  ASSUME TypeOK, IInv, NEW b \in Bookings, CreateBooking(b)
  PROVE  TypeOK' /\ IInv'
<1>1. /\ status[b] = "absent" /\ status'[b] = "created"
      /\ status' \in [Bookings -> Statuses]
      /\ \A x \in Bookings \ {b} : status'[x] = status[x]
      /\ UNCHANGED <<confirmed, reason, call, log, faults>>
  BY DEF CreateBooking, TypeOK, Statuses
<1>2. /\ landlord' \in [Bookings -> Users \cup {Nobody}] /\ landlord'[b] \in Users
      /\ \A x \in Bookings \ {b} : landlord'[x] = landlord[x]
      /\ creator' \in [Bookings -> {"none", "publishing", "done"}]
  BY DEF CreateBooking, TypeOK
<1>3. TypeOK'
  BY <1>1, <1>2 DEF TypeOK
<1>4. CallsInv'
  BY <1>1 DEF TypeOK, IInv, CallsInv
<1>5. Exclusive' /\ ConfirmedRows'
  BY <1>1 DEF TypeOK, IInv, Exclusive, ConfirmedRows, Holding, Overlap
<1>6. PendingIsHandled'
  BY <1>1, HandledKept DEF TypeOK, IInv
<1> QED
  BY <1>1, <1>3, <1>4, <1>5, <1>6, RowMoves

LEMMA PublishCreatedStep ==
  ASSUME TypeOK, IInv, NEW b \in Bookings, PublishCreated(b)
  PROVE  TypeOK' /\ IInv'
<1>1. UNCHANGED <<rowVars, call>> /\ faults' \in 0..MaxFaults /\ faults' >= faults
  BY FaultAssumption DEF PublishCreated, TypeOK, Fault, NoFault
<1>2. creator' \in [Bookings -> {"none", "publishing", "done"}]
  BY DEF PublishCreated, TypeOK
<1>3. /\ log' \in Seq(Events)
      /\ \A k \in DOMAIN log : k \in DOMAIN log' /\ log'[k] = log[k]
      /\ \A x \in Bookings : /\ InLog("confirmed", x)' => InLog("confirmed", x)
                             /\ InLog("cancelled", x)' => InLog("cancelled", x)
  <2>1. CASE log' = log
    BY <2>1 DEF TypeOK, InLog
  <2>2. CASE log' = Append(log, <<"created", b>>)
    BY <2>2, LogGrows
  <2> QED
    BY <2>1, <2>2 DEF PublishCreated
<1>4. TypeOK'
  BY <1>1, <1>2, <1>3 DEF TypeOK, rowVars
<1>5. CallsInv'
  BY <1>1 DEF IInv, CallsInv, rowVars
<1>6. PendingIsHandled'
  BY <1>1, FaultAssumption, HandledKept DEF IInv, rowVars
<1> QED
  BY <1>1, <1>3, <1>4, <1>5, <1>6, RowsKept

LEMMA ArriveStep ==
  ASSUME TypeOK, IInv, NEW c \in Calls, Arrive(c)
  PROVE  TypeOK' /\ IInv'
<1>1. UNCHANGED <<rowVars, creator, log, faults>>
  BY DEF Arrive, ReadToConfirm, ReadToCancel
<1>2. TypeOK'
  BY <1>1, ReadEffect DEF TypeOK, rowVars
<1>3. CallsInv'
  BY <1>1, ReadEffect DEF IInv, CallsInv, rowVars
<1>4. PendingIsHandled'
  BY <1>1, ReadEffect, HandledKept DEF IInv, CallsInv, TypeOK, rowVars
<1>5. \A x \in Bookings : /\ InLog("confirmed", x)' => InLog("confirmed", x)
                          /\ InLog("cancelled", x)' => InLog("cancelled", x)
  BY <1>1 DEF InLog
<1>6. UNCHANGED rowVars /\ \A d \in Calls : call'[d].answer = "ok" => call'[d] = call[d]
  BY <1>1, ReadEffect
<1>7. \A k \in DOMAIN log : k \in DOMAIN log' /\ log'[k] = log[k]
  BY <1>1
<1>8. IInv'
  BY <1>3, <1>4, <1>5, <1>6, <1>7, RowsKept
<1> QED
  BY <1>2, <1>8

\* A call that gives up leaves rows and topic alone, and breaks nothing provided
\* that no booking is left pending by it.
LEMMA GivesUp ==
  ASSUME TypeOK, IInv, NEW c \in Calls, Answer(c, "error"),
         call[c].at \in {"marking", "confirming", "cancelling", "publishing"},
         UNCHANGED <<rowVars, creator, log>>, faults' \in 0..MaxFaults, PendingIsHandled'
  PROVE  TypeOK' /\ IInv'
<1> "error" \in Answers
  BY DEF Answers
<1>1. TypeOK'
  BY AnswerEffect DEF TypeOK, rowVars
<1>2. CallsInv'
  BY AnswerEffect DEF IInv, CallsInv, rowVars
<1>3. \A x \in Bookings : /\ InLog("confirmed", x)' => InLog("confirmed", x)
                          /\ InLog("cancelled", x)' => InLog("cancelled", x)
  BY DEF InLog
<1>4. UNCHANGED rowVars /\ \A d \in Calls : call'[d].answer = "ok" => call'[d] = call[d]
  BY AnswerEffect
<1>5. \A k \in DOMAIN log : k \in DOMAIN log' /\ log'[k] = log[k]
  OBVIOUS
<1>6. IInv'
  BY <1>2, <1>3, <1>4, <1>5, RowsKept
<1> QED
  BY <1>1, <1>6

LEMMA FailStep ==
  ASSUME TypeOK, IInv, NEW c \in Calls, CallFails(c)
  PROVE  TypeOK' /\ IInv'
<1>1. faults' \in 0..MaxFaults /\ faults' \in Nat /\ faults' > 0 /\ faults' >= faults
  BY FaultAssumption DEF CallFails, Fault, TypeOK
<1>2. "error" \in Answers
  BY DEF Answers
<1>3. UNCHANGED <<rowVars, creator, log>> /\ Answer(c, "error")
  BY DEF CallFails
<1>4. PendingIsHandled'
  BY <1>1, <1>2, <1>3, AnswerEffect, HandledKept DEF IInv, CallsInv, TypeOK, rowVars, CallFails
<1> QED
  BY <1>1, <1>4, GivesUp DEF CallFails

LEMMA MarkPendingStep ==
  ASSUME TypeOK, IInv, NEW c \in Calls, MarkPending(c)
  PROVE  TypeOK' /\ IInv'
<1> DEFINE b == call[c].b
<1>1. /\ call[c].at = "marking" /\ b \in Bookings
      /\ UNCHANGED <<landlord, confirmed, reason, creator, log, faults>>
  BY DEF MarkPending, TypeOK
<1>2. CASE Accepts(b, "pending_confirmation")
  <2>1. /\ Goto(c, "confirming")
        /\ status' \in [Bookings -> Statuses] /\ status'[b] = "pending_confirmation"
        /\ \A x \in Bookings \ {b} : status'[x] = status[x]
    BY <1>1, <1>2 DEF MarkPending, TypeOK, Statuses
  <2>2. status[b] \in {"created", "pending_confirmation"} /\ Free(b)
    BY <1>2 DEF Accepts, Legal, Holding
  <2> "confirming" \in Stages
    BY DEF Stages
  <2> HIDE DEF b
  <2>3. /\ call' \in [Calls -> CallStates]
        /\ \A d \in Calls \ {c} : call'[d] = call[d]
        /\ call'[c].at = "confirming" /\ call'[c].b = b
        /\ call'[c].event = "confirmed" /\ call'[c].answer = "none"
    BY <1>1, <2>1, GotoEffect DEF b, IInv, CallsInv
  <2>4. TypeOK'
    BY <1>1, <2>1, <2>2, <2>3 DEF TypeOK
  <2>5. CallsInv'
    BY <1>1, <2>1, <2>2, <2>3 DEF IInv, CallsInv, TypeOK
  <2>6. ConfirmedRows'
    BY <1>1, <2>1, <2>2 DEF IInv, ConfirmedRows, TypeOK
  <2>7. Exclusive'
    <3>1. First[b] <= Last[b]
      BY <2>2 DEF Free
    <3>2. \A x \in Bookings \ {b} : Overlap(b, x) => status[x] \notin Holding
      BY <2>2 DEF Free
    <3>3. \A x, y \in Bookings : Overlap(x, y) <=> Overlap(y, x)
      BY DEF Overlap
    <3>4. \A x, y \in Bookings : Overlap(x, y)' <=> Overlap(x, y)
      BY DEF Overlap
    <3> QED
      BY <1>1, <2>1, <3>1, <3>2, <3>3, <3>4 DEF IInv, Exclusive, Holding
  <2>8. PendingIsHandled'
    <3>1. ASSUME NEW x \in Bookings, x = b
          PROVE  Handles(c, x)'
      BY <2>3, <3>1 DEF Handles
    <3>2. ASSUME NEW x \in Bookings, status'[x] = "pending_confirmation", x # b
          PROVE  \E d \in Calls : Handles(d, x)'
      <4>1. PICK d \in Calls : Handles(d, x)
        BY <2>1, <3>2 DEF IInv, PendingIsHandled
      <4>2. d # c
        BY <1>1, <3>2, <4>1 DEF b, Handles, IInv, CallsInv
      <4> QED
        BY <1>1, <2>3, <4>1, <4>2 DEF Handles
    <3> QED
      BY <3>1, <3>2 DEF PendingIsHandled
  <2> QED
    BY <1>1, <2>1, <2>2, <2>3, <2>4, <2>5, <2>6, <2>7, <2>8, RowMoves
<1>3. CASE ~Accepts(b, "pending_confirmation")
  <2>1. Answer(c, "error") /\ UNCHANGED <<rowVars, creator, log, faults>>
    BY <1>1, <1>3 DEF MarkPending, rowVars
  <2>2. PendingIsHandled'
    <3>1. "error" \in Answers
      BY DEF Answers
    <3> QED
      BY <1>1, <2>1, <3>1, AnswerEffect, HandledKept, FaultAssumption DEF IInv, CallsInv, TypeOK, rowVars
  <2> QED
    BY <1>1, <2>1, <2>2, GivesUp DEF TypeOK
<1> QED
  BY <1>2, <1>3

LEMMA MarkConfirmedStep ==
  ASSUME TypeOK, IInv, NEW c \in Calls, MarkConfirmed(c)
  PROVE  TypeOK' /\ IInv'
<1> DEFINE b == call[c].b
<1>1. /\ call[c].at = "confirming" /\ b \in Bookings /\ call[c].landlord \in Users \cup {Nobody}
      /\ UNCHANGED <<reason, creator, log, faults>>
  BY DEF MarkConfirmed, TypeOK, CallStates
<1>2. CASE Accepts(b, "confirmed")
  <2>1. Confirm(b, call[c].landlord) /\ Goto(c, "publishing")
    BY <1>2 DEF MarkConfirmed
  <2>2. status[b] \in {"pending_confirmation", "confirmed"}
    BY <1>2 DEF Accepts, Legal
  <2> "publishing" \in Stages
    BY DEF Stages
  <2> HIDE DEF b
  <2>3. /\ status' \in [Bookings -> Statuses] /\ status'[b] = "confirmed"
        /\ \A x \in Bookings \ {b} : status'[x] = status[x]
        /\ confirmed' = confirmed \cup {b}
    BY <1>1, <2>1 DEF Confirm, TypeOK, Statuses
  <2>4. /\ landlord' \in [Bookings -> Users \cup {Nobody}]
        /\ \A x \in Bookings : status'[x] # "absent" => landlord'[x] \in Users
    <3>1. landlord[b] \in Users
      BY <1>1, <2>2 DEF TypeOK
    <3>2. PICK u \in Users : landlord' = [landlord EXCEPT ![b] = u]
      BY <1>1, <2>1, <3>1 DEF Confirm, TypeOK
    <3> QED
      BY <1>1, <2>3, <3>2 DEF TypeOK
  <2>5. /\ call' \in [Calls -> CallStates]
        /\ \A d \in Calls \ {c} : call'[d] = call[d]
        /\ call'[c].at = "publishing" /\ call'[c].b = b
        /\ call'[c].event = "confirmed" /\ call'[c].answer = "none"
    BY <1>1, <2>1, GotoEffect DEF b, IInv, CallsInv
  <2>6. TypeOK'
    BY <1>1, <2>3, <2>4, <2>5 DEF TypeOK
  <2>7. CallsInv'
    BY <1>1, <2>2, <2>3, <2>5 DEF IInv, CallsInv, TypeOK
  <2>8. ConfirmedRows'
    BY <1>1, <2>3 DEF IInv, ConfirmedRows, TypeOK
  <2>9. Exclusive'
    <3>1. \A x \in Bookings : status'[x] \in Holding => status[x] \in Holding
      BY <1>1, <2>2, <2>3 DEF Holding
    <3>2. \A x, y \in Bookings : Overlap(x, y)' <=> Overlap(x, y)
      BY DEF Overlap
    <3> QED
      BY <3>1, <3>2 DEF IInv, Exclusive
  <2>10. PendingIsHandled'
    <3> SUFFICES ASSUME NEW x \in Bookings, status'[x] = "pending_confirmation"
                 PROVE  \E d \in Calls : Handles(d, x)'
      BY DEF PendingIsHandled
    <3>1. x # b /\ status[x] = "pending_confirmation"
      BY <1>1, <2>3
    <3>2. PICK d \in Calls : Handles(d, x)
      BY <3>1 DEF IInv, PendingIsHandled
    <3>3. d # c
      BY <3>1, <3>2 DEF b, Handles
    <3> QED
      BY <1>1, <2>5, <3>2, <3>3 DEF Handles
  <2> QED
    BY <1>1, <2>2, <2>3, <2>5, <2>6, <2>7, <2>8, <2>9, <2>10, RowMoves
<1>3. CASE ~Accepts(b, "confirmed")
  <2>1. Answer(c, "error") /\ UNCHANGED <<rowVars, creator, log, faults>>
    BY <1>1, <1>3 DEF MarkConfirmed, rowVars
  \* The days of a pending booking are its own, so the refusal means it is no
  \* longer pending.
  <2>2. status[b] # "pending_confirmation"
    <3> SUFFICES ASSUME status[b] = "pending_confirmation"
                 PROVE  Accepts(b, "confirmed")
      BY <1>3
    <3>1. Free(b)
      <4>1. First[b] <= Last[b]
        BY <1>1 DEF IInv, Exclusive, Holding
      <4>2. \A x \in Bookings \ {b} : Overlap(b, x) => status[x] \notin Holding
        BY <1>1 DEF IInv, Exclusive, Holding
      <4> QED
        BY <4>1, <4>2 DEF Free
    <3> QED
      BY <3>1 DEF Accepts, Legal
  <2>3. PendingIsHandled'
    <3>1. "error" \in Answers
      BY DEF Answers
    <3>2. \A d \in Calls \ {c} : call'[d] = call[d]
      BY <2>1, <3>1, AnswerEffect
    <3> HIDE DEF b
    <3> SUFFICES ASSUME NEW x \in Bookings, status'[x] = "pending_confirmation"
                 PROVE  \E d \in Calls : Handles(d, x)'
      BY DEF PendingIsHandled
    <3>3. x # b /\ status[x] = "pending_confirmation"
      BY <2>1, <2>2 DEF rowVars
    <3>4. PICK d \in Calls : Handles(d, x)
      BY <3>3 DEF IInv, PendingIsHandled
    <3>5. d # c
      BY <3>3, <3>4 DEF b, Handles
    <3> QED
      BY <2>1, <3>2, <3>4, <3>5 DEF Handles
  <2> QED
    BY <1>1, <2>1, <2>3, GivesUp DEF TypeOK
<1> QED
  BY <1>2, <1>3

LEMMA MarkCancelledStep ==
  ASSUME TypeOK, IInv, NEW c \in Calls, MarkCancelled(c)
  PROVE  TypeOK' /\ IInv'
<1> DEFINE b == call[c].b
<1>1. /\ call[c].at = "cancelling" /\ b \in Bookings
      /\ UNCHANGED <<landlord, confirmed, creator, log, faults>>
  BY DEF MarkCancelled, TypeOK
<1>2. CASE Accepts(b, "cancelled")
  <2>1. /\ Goto(c, "publishing")
        /\ status' \in [Bookings -> Statuses] /\ status'[b] = "cancelled"
        /\ \A x \in Bookings \ {b} : status'[x] = status[x]
        /\ reason' \in [Bookings -> {"none", "caller", "user_account_deleted"}]
    BY <1>1, <1>2 DEF MarkCancelled, TypeOK, Statuses
  <2> "publishing" \in Stages
    BY DEF Stages
  <2>2. status[b] # "absent"
    BY <1>1 DEF IInv, CallsInv
  <2> HIDE DEF b
  <2>3. /\ call' \in [Calls -> CallStates]
        /\ \A d \in Calls \ {c} : call'[d] = call[d]
        /\ call'[c].at = "publishing" /\ call'[c].b = b
        /\ call'[c].event = "cancelled" /\ call'[c].answer = "none"
    BY <1>1, <2>1, GotoEffect DEF b, IInv, CallsInv
  <2>4. TypeOK'
    BY <1>1, <2>1, <2>2, <2>3 DEF TypeOK
  <2>5. CallsInv'
    BY <1>1, <2>1, <2>3 DEF IInv, CallsInv, TypeOK
  <2>6. ConfirmedRows'
    BY <1>1, <2>1 DEF IInv, ConfirmedRows, TypeOK
  <2>7. Exclusive'
    <3>1. \A x \in Bookings : status'[x] \in Holding => status[x] \in Holding
      BY <1>1, <2>1 DEF Holding
    <3>2. \A x, y \in Bookings : Overlap(x, y)' <=> Overlap(x, y)
      BY DEF Overlap
    <3> QED
      BY <3>1, <3>2 DEF IInv, Exclusive
  <2>8. PendingIsHandled'
    BY <1>1, <2>1, <2>3, HandledKept DEF IInv, CallsInv, TypeOK
  <2> QED
    BY <1>1, <2>1, <2>3, <2>4, <2>5, <2>6, <2>7, <2>8, RowMoves
<1>3. CASE ~Accepts(b, "cancelled")
  <2>1. Answer(c, "error") /\ UNCHANGED <<rowVars, creator, log, faults>>
    BY <1>1, <1>3 DEF MarkCancelled, rowVars
  <2>2. PendingIsHandled'
    <3>1. "error" \in Answers
      BY DEF Answers
    <3> QED
      BY <1>1, <2>1, <3>1, AnswerEffect, HandledKept, FaultAssumption DEF IInv, CallsInv, TypeOK, rowVars
  <2> QED
    BY <1>1, <2>1, <2>2, GivesUp DEF TypeOK
<1> QED
  BY <1>2, <1>3

LEMMA PublishStep ==
  ASSUME TypeOK, IInv, NEW c \in Calls, Publish(c)
  PROVE  TypeOK' /\ IInv'
<1> DEFINE b == call[c].b
           e == call[c].event
<1>1. /\ call[c].at = "publishing" /\ b \in Bookings
      /\ \/ e = "confirmed" /\ b \in confirmed
         \/ e = "cancelled" /\ status[b] = "cancelled"
  BY DEF Publish, TypeOK, IInv, CallsInv
<1>2. UNCHANGED <<status, landlord, confirmed, reason, creator>>
  BY DEF Publish, rowVars
<1>3. PICK a \in {"ok", "error"} :
        /\ Answer(c, a)
        /\ log' \in {log, Append(log, <<e, b>>)}
        /\ a = "ok" => log' = Append(log, <<e, b>>) \/ call[c].via = "http"
        /\ faults' \in 0..MaxFaults /\ faults' >= faults
  BY FaultAssumption DEF Publish, Fault, NoFault, TypeOK
<1>4. a \in Answers
  BY DEF Answers
<1>5. /\ call' \in [Calls -> CallStates]
      /\ \A d \in Calls \ {c} : call'[d] = call[d]
      /\ call'[c].at = "done" /\ call'[c].answer = a
      /\ call'[c].b = b /\ call'[c].event = e /\ call'[c].via = call[c].via
  BY <1>3, <1>4, AnswerEffect
<1>6. /\ log' \in Seq(Events)
      /\ \A k \in DOMAIN log : k \in DOMAIN log' /\ log'[k] = log[k]
      /\ \A x \in Bookings : InLog("confirmed", x)' =>
            InLog("confirmed", x) \/ x \in confirmed
      /\ \A x \in Bookings : InLog("cancelled", x)' =>
            InLog("cancelled", x) \/ status[x] = "cancelled"
      /\ a = "ok" /\ call[c].via = "grpc" =>
            \E k \in DOMAIN log' : log'[k] = <<e, b>>
  <2>1. CASE log' = Append(log, <<e, b>>)
    <3>1. \A k \in DOMAIN log : k \in DOMAIN log' /\ log'[k] = log[k]
      BY <2>1 DEF TypeOK
    <3>2. Len(log') = Len(log) + 1 /\ log'[Len(log) + 1] = <<e, b>> /\ Len(log) + 1 \in DOMAIN log'
      BY <2>1 DEF TypeOK
    <3> HIDE DEF b, e
    <3> QED
      BY <1>1, <2>1, <3>1, <3>2, LogGrows
  <2>2. CASE log' = log
    BY <2>2, <1>3, <1>1 DEF TypeOK, InLog
  <2> QED
    BY <1>3, <2>1, <2>2
<1> HIDE DEF b, e
<1>7. TypeOK'
  BY <1>1, <1>2, <1>3, <1>5, <1>6 DEF TypeOK
<1>8. CallsInv'
  BY <1>2, <1>5 DEF IInv, CallsInv
<1>9. Exclusive' /\ ConfirmedRows'
  BY <1>2 DEF IInv, Exclusive, Overlap, ConfirmedRows
<1>10. PendingIsHandled'
  BY <1>1, <1>2, <1>3, <1>5, FaultAssumption, HandledKept DEF IInv, CallsInv
<1>11. EventsAreTrue'
  <2>1. /\ \A x \in Bookings : InLog("confirmed", x)' => x \in confirmed'
        /\ \A x \in Bookings : InLog("cancelled", x)' => status'[x] = "cancelled"
    BY <1>2, <1>6 DEF IInv, EventsAreTrue
  <2>2. \A d \in Calls : call'[d].answer = "ok" =>
            /\ call'[d].event = "confirmed" => call'[d].b \in confirmed'
            /\ call'[d].event = "cancelled" => status'[call'[d].b] = "cancelled"
    BY <1>1, <1>2, <1>5 DEF IInv, EventsAreTrue
  <2> QED
    BY <2>1, <2>2 DEF EventsAreTrue
<1>12. GrpcOkIsAnnounced'
  <2> SUFFICES ASSUME NEW d \in Calls, call'[d].answer = "ok", call'[d].via = "grpc"
               PROVE  InLog(call[d].event, call[d].b)'
    BY DEF GrpcOkIsAnnounced
  <2>1. CASE d = c
    BY <2>1, <1>5, <1>6 DEF InLog
  <2>2. CASE d # c
    <3>1. InLog(call[d].event, call[d].b)
      BY <2>2, <1>5 DEF IInv, GrpcOkIsAnnounced
    <3>2. PICK k \in DOMAIN log : log[k] = <<call[d].event, call[d].b>>
      BY <3>1 DEF InLog
    <3>3. k \in DOMAIN log' /\ log'[k] = <<call'[d].event, call'[d].b>>
      BY <2>2, <3>2, <1>5, <1>6
    <3> QED
      BY <3>3 DEF InLog
  <2> QED
    BY <2>1, <2>2
<1> QED
  BY <1>7, <1>8, <1>9, <1>10, <1>11, <1>12 DEF IInv

LEMMA AccountDeletedStep ==
  ASSUME TypeOK, IInv, NEW u \in Users, NEW today \in Days, AccountDeleted(u, today)
  PROVE  TypeOK' /\ IInv'
<1>1. UNCHANGED <<landlord, confirmed, creator, call, log, faults>>
  BY DEF AccountDeleted
<1>2. /\ status' \in [Bookings -> Statuses]
      /\ reason' \in [Bookings -> {"none", "caller", "user_account_deleted"}]
      /\ \A b \in Bookings : status'[b] = status[b]
                              \/ (status[b] # "absent" /\ status'[b] = "cancelled")
  <2> DEFINE hit == {b \in Bookings :
          /\ u \in {TenantOf[b], landlord[b]}
          /\ First[b] > today
          /\ status[b] \in {"created", "pending_confirmation", "confirmed"}}
  <2>1. /\ hit \subseteq Bookings /\ \A b \in hit : status[b] # "absent"
        /\ status' = [b \in Bookings |-> IF b \in hit THEN "cancelled" ELSE status[b]]
        /\ reason' = [b \in Bookings |-> IF b \in hit THEN "user_account_deleted"
                                        ELSE reason[b]]
    BY DEF AccountDeleted
  <2> HIDE DEF hit
  <2>2. status' \in [Bookings -> Statuses]
    BY <2>1 DEF TypeOK, Statuses
  <2>3. reason' \in [Bookings -> {"none", "caller", "user_account_deleted"}]
    BY <2>1 DEF TypeOK
  <2>4. ASSUME NEW b \in Bookings
        PROVE  status'[b] = status[b] \/ (status[b] # "absent" /\ status'[b] = "cancelled")
    <3>1. status'[b] = IF b \in hit THEN "cancelled" ELSE status[b]
      BY <2>1
    <3>2. b \in hit => status[b] # "absent"
      BY <2>1
    <3> QED
      BY <3>1, <3>2
  <2> QED
    BY <2>2, <2>3, <2>4
<1>3. TypeOK'
  BY <1>1, <1>2 DEF TypeOK
<1>4. CallsInv'
  BY <1>1, <1>2 DEF IInv, CallsInv, TypeOK
<1>5. ConfirmedRows'
  BY <1>1, <1>2 DEF IInv, ConfirmedRows, TypeOK
<1>6. Exclusive'
  <2>1. \A x \in Bookings : status'[x] \in Holding => status[x] \in Holding
    BY <1>2 DEF Holding
  <2>2. \A x, y \in Bookings : Overlap(x, y)' <=> Overlap(x, y)
    BY DEF Overlap
  <2> QED
    BY <2>1, <2>2 DEF IInv, Exclusive
<1>7. PendingIsHandled'
  BY <1>1, <1>2, HandledKept DEF IInv, TypeOK
<1> QED
  BY <1>1, <1>2, <1>3, <1>4, <1>5, <1>6, <1>7, RowMoves

-----------------------------------------------------------------------------
(* Theorems *)

LEMMA Step ==
  TypeOK /\ IInv /\ [Next]_vars => TypeOK' /\ IInv'
<1> SUFFICES ASSUME TypeOK, IInv, [Next]_vars
             PROVE  TypeOK' /\ IInv'
  OBVIOUS
<1>1. CASE Next
  <2>1. ASSUME NEW b \in Bookings, CreateBooking(b) \/ PublishCreated(b)
        PROVE  TypeOK' /\ IInv'
    BY <2>1, CreateStep, PublishCreatedStep
  <2>2. ASSUME NEW c \in Calls, Arrive(c) \/ Continue(c) \/ CallFails(c)
        PROVE  TypeOK' /\ IInv'
    BY <2>2, ArriveStep, MarkPendingStep, MarkConfirmedStep, MarkCancelledStep,
       PublishStep, FailStep DEF Continue
  <2>3. ASSUME NEW u \in Users, NEW today \in Days, AccountDeleted(u, today)
        PROVE  TypeOK' /\ IInv'
    BY <2>3, AccountDeletedStep
  <2> QED
    BY <1>1, <2>1, <2>2, <2>3 DEF Next
<1>2. CASE UNCHANGED vars
  BY <1>2 DEF vars, TypeOK, IInv, Exclusive, Overlap, CallsInv, ConfirmedRows, EventsAreTrue,
     GrpcOkIsAnnounced, PendingIsHandled, Handles, InLog
<1> QED
  BY <1>1, <1>2

\* The types and the invariant hold in every state the service can reach.
THEOREM BookingInvariance == Spec => [](TypeOK /\ IInv)
BY InitIInv, Step, PTL DEF Spec

\* The variables of the service stay in their domains.
THEOREM BookingTypeCorrect == Spec => []TypeOK
BY BookingInvariance, PTL

\* However the handlers of confirm and cancel and the account erasure interleave
\* and fail, a day of a listing is not confirmed to two bookings unless one of
\* them is cancelled.
THEOREM DaysSoldOnce == Spec => []NoDoubleSale
<1>1. TypeOK /\ IInv => NoDoubleSale
  <2> SUFFICES ASSUME TypeOK, IInv, NEW b1 \in Bookings, NEW b2 \in Bookings, b1 # b2,
                      Overlap(b1, b2), InLog("confirmed", b1), InLog("confirmed", b2)
               PROVE  "cancelled" \in {status[b1], status[b2]}
    BY DEF NoDoubleSale
  <2>1. status[b1] \in {"confirmed", "cancelled"} /\ status[b2] \in {"confirmed", "cancelled"}
    BY DEF IInv, EventsAreTrue, ConfirmedRows
  <2> QED
    BY <2>1 DEF IInv, Exclusive, Holding
<1> QED
  BY <1>1, BookingInvariance, PTL

\* Nothing is announced or acknowledged that has not happened to the row.
THEOREM EventsTellTheTruth == Spec => []EventsAreTrue
<1>1. IInv => EventsAreTrue
  BY DEF IInv
<1> QED
  BY <1>1, BookingInvariance, PTL

\* What a gRPC caller is told OK about is in the topic.
THEOREM GrpcAnswersHold == Spec => []GrpcOkIsAnnounced
<1>1. IInv => GrpcOkIsAnnounced
  BY DEF IInv
<1> QED
  BY <1>1, BookingInvariance, PTL

\* Only a confirmation of it between its two updates, or cut short by a fault,
\* leaves a booking pending.
THEOREM PendingHasACall == Spec => []PendingIsHandled
<1>1. IInv => PendingIsHandled
  BY DEF IInv
<1> QED
  BY <1>1, BookingInvariance, PTL

\* A cancelled booking stays cancelled: no update decided on an older read, in
\* particular the second one of a confirmation, brings it back.
CancelledIsFinal ==
    [][\A b \in Bookings : status[b] = "cancelled" => status'[b] = "cancelled"]_vars

\* No step takes a booking out of cancelled.
THEOREM CancelledStays == Spec => CancelledIsFinal
<1>1. TypeOK /\ [Next]_vars =>
        [\A b \in Bookings : status[b] = "cancelled" => status'[b] = "cancelled"]_vars
  <2> SUFFICES ASSUME TypeOK, [Next]_vars, NEW b \in Bookings, status[b] = "cancelled"
               PROVE  status'[b] = "cancelled"
    OBVIOUS
  <2>1. CASE UNCHANGED vars
    BY <2>1 DEF vars
  <2>2. ASSUME NEW x \in Bookings, CreateBooking(x) \/ PublishCreated(x)
        PROVE  status'[b] = "cancelled"
    BY <2>2 DEF CreateBooking, PublishCreated, rowVars, TypeOK
  <2>3. ASSUME NEW c \in Calls, Arrive(c) \/ CallFails(c) \/ Publish(c)
        PROVE  status'[b] = "cancelled"
    BY <2>3 DEF Arrive, ReadToConfirm, ReadToCancel, CallFails, Publish, rowVars
  <2>4. ASSUME NEW c \in Calls, MarkPending(c) \/ MarkConfirmed(c) \/ MarkCancelled(c)
        PROVE  status'[b] = "cancelled"
    BY <2>4 DEF MarkPending, MarkConfirmed, Confirm, MarkCancelled, Accepts, Legal, TypeOK
  <2>5. ASSUME NEW u \in Users, NEW today \in Days, AccountDeleted(u, today)
        PROVE  status'[b] = "cancelled"
    BY <2>5 DEF AccountDeleted
  <2> QED
    BY <2>1, <2>2, <2>3, <2>4, <2>5 DEF Next, Continue
<1> QED
  BY <1>1, BookingTypeCorrect, PTL DEF Spec, CancelledIsFinal

-----------------------------------------------------------------------------
(* The service carries out Reservations *)

Clashing  == {p \in Bookings \X Bookings : p[1] # p[2] /\ Overlap(p[1], p[2])}
Held      == {b \in Bookings : status[b] \in Holding}
Off       == {b \in Bookings : status[b] = "cancelled"}
Told      == {m \in {"confirmed", "cancelled"} \X Bookings : InLog(m[1], m[2])}

\* The abstract actions, in the terms of the service.
LEMMA AbstractActions ==
  /\ Reserved!Init <=> Held = {} /\ Off = {} /\ confirmed = {} /\ Told = {}
  /\ UNCHANGED Reserved!vars <=>
         Held' = Held /\ Off' = Off /\ confirmed' = confirmed /\ Told' = Told
  /\ \A b \in Bookings :
         /\ Reserved!Hold(b) <=>
                /\ b \notin Held \cup Off
                /\ \A other \in Held : <<b, other>> \notin Clashing
                /\ Held' = Held \cup {b}
                /\ Off' = Off /\ confirmed' = confirmed /\ Told' = Told
         /\ Reserved!Agree(b) <=>
                /\ b \in Held \ confirmed
                /\ confirmed' = confirmed \cup {b}
                /\ Held' = Held /\ Off' = Off /\ Told' = Told
         /\ Reserved!Tell(b) <=>
                /\ \/ b \in confirmed /\ Told' = Told \cup {<<"confirmed", b>>}
                   \/ b \in Off /\ Told' = Told \cup {<<"cancelled", b>>}
                /\ Held' = Held /\ Off' = Off /\ confirmed' = confirmed
  BY DEF Reserved!Init, Reserved!vars, Reserved!Hold, Reserved!Agree, Reserved!Tell,
         Held, Off, Told, Clashing

LEMMA AbstractCancel ==
  ASSUME NEW S \in SUBSET Bookings
  PROVE  Reserved!Cancel(S) <=>
             /\ S # {} /\ S \cap Off = {}
             /\ Held' = Held \ S /\ Off' = Off \cup S
             /\ confirmed' = confirmed /\ Told' = Told
  BY DEF Reserved!Cancel, Held, Off, Told

\* What the abstract specification sees of a message.
LEMMA ToldGrows ==
  ASSUME TypeOK, NEW b \in Bookings
  PROVE  /\ log' = log => Told' = Told
         /\ log' = Append(log, <<"created", b>>) => Told' = Told
         /\ \A e \in {"confirmed", "cancelled"} :
                log' = Append(log, <<e, b>>) => Told' = Told \cup {<<e, b>>}
<1>1. log' = log => Told' = Told
  BY DEF Told, InLog
<1>2. ASSUME NEW e \in {"created", "confirmed", "cancelled"}, log' = Append(log, <<e, b>>)
      PROVE  Told' = {m \in {"confirmed", "cancelled"} \X Bookings :
                          InLog(m[1], m[2]) \/ (m[1] = e /\ m[2] = b)}
  BY <1>2, LogGrows DEF Told
<1>3. log' = Append(log, <<"created", b>>) => Told' = Told
  BY <1>2 DEF Told
<1>4. ASSUME NEW e \in {"confirmed", "cancelled"}, log' = Append(log, <<e, b>>)
      PROVE  Told' = Told \cup {<<e, b>>}
  BY <1>2, <1>4 DEF Told
<1> QED
  BY <1>1, <1>3, <1>4

\* The row of a booking moves, and the abstract sets with it.
LEMMA RowSeen ==
  ASSUME TypeOK, NEW b \in Bookings, NEW s \in Statuses, status' = [status EXCEPT ![b] = s]
  PROVE  /\ Held' = IF s \in Holding THEN Held \cup {b} ELSE Held \ {b}
         /\ Off' = IF s = "cancelled" THEN Off \cup {b} ELSE Off \ {b}
  BY DEF TypeOK, Held, Off

\* A step of a call is one of the abstract steps, or none.
LEMMA CallRefines ==
  ASSUME TypeOK, IInv, NEW c \in Calls, Arrive(c) \/ Continue(c) \/ CallFails(c)
  PROVE  [Reserved!Next]_(Reserved!vars)
<1>1. CASE Arrive(c) \/ CallFails(c)
  <2>1. status' = status /\ confirmed' = confirmed /\ log' = log
    BY <1>1 DEF Arrive, ReadToConfirm, ReadToCancel, CallFails, rowVars
  <2>2. Held' = Held /\ Off' = Off /\ Told' = Told
    BY <2>1 DEF Held, Off, Told, InLog
  <2> QED
    BY <2>1, <2>2, AbstractActions
<1> SUFFICES ASSUME Continue(c)
             PROVE  [Reserved!Next]_(Reserved!vars)
  BY <1>1
<1>0. PICK b \in Bookings : b = call[c].b
  BY DEF TypeOK, Continue, MarkPending, MarkConfirmed, MarkCancelled, Publish
<1>2. CASE MarkPending(c)
  <2>1. b \in Bookings /\ confirmed' = confirmed /\ log' = log
    BY <1>0, <1>2 DEF MarkPending
  <2>2. Told' = Told
    BY <2>1, ToldGrows
  <2>3. CASE status' = status
    <3>1. Held' = Held /\ Off' = Off
      BY <2>3 DEF Held, Off
    <3> QED
      BY <2>1, <2>2, <3>1, AbstractActions
  <2>4. CASE /\ Accepts(b, "pending_confirmation")
             /\ status' = [status EXCEPT ![b] = "pending_confirmation"]
    <3>1. Held' = Held \cup {b} /\ Off' = Off \ {b} /\ status[b] \in {"created", "pending_confirmation"}
      BY <2>1, <2>4, RowSeen DEF Accepts, Legal, Holding, Statuses
    <3>2. b \notin Off
      BY <3>1 DEF Off
    <3>3. CASE status[b] = "pending_confirmation"
      <4>1. b \in Held
        BY <2>1, <3>3 DEF Held, Holding
      <4> QED
        BY <2>1, <2>2, <3>1, <3>2, <4>1, AbstractActions
    <3>4. CASE status[b] = "created"
      <4>1. b \notin Held
        BY <3>4 DEF Held, Holding
      <4>2. \A other \in Held : <<b, other>> \notin Clashing
        BY <2>4, <4>1 DEF Accepts, Free, Held, Holding, Clashing
      <4>3. Reserved!Hold(b)
        BY <2>1, <2>2, <3>1, <3>2, <4>1, <4>2, AbstractActions
      <4> QED
        BY <2>1, <4>3 DEF Reserved!Next
    <3> QED
      BY <3>1, <3>3, <3>4
  <2> QED
    BY <1>0, <1>2, <2>3, <2>4 DEF MarkPending
<1>3. CASE MarkConfirmed(c)
  <2>1. b \in Bookings /\ log' = log
    BY <1>0, <1>3 DEF MarkConfirmed
  <2>2. Told' = Told
    BY <2>1, ToldGrows
  <2>3. CASE status' = status /\ confirmed' = confirmed
    <3>1. Held' = Held /\ Off' = Off
      BY <2>3 DEF Held, Off
    <3> QED
      BY <2>2, <2>3, <3>1, AbstractActions
  <2>4. CASE Accepts(b, "confirmed") /\ status' = [status EXCEPT ![b] = "confirmed"]
             /\ confirmed' = confirmed \cup {b}
    <3>1. /\ Held' = Held \cup {b} /\ Off' = Off \ {b}
          /\ status[b] \in {"pending_confirmation", "confirmed"}
      BY <2>1, <2>4, RowSeen DEF Accepts, Legal, Holding, Statuses
    <3>2. b \in Held /\ b \notin Off
      BY <2>1, <3>1 DEF Held, Off, Holding
    <3>3. Held' = Held /\ Off' = Off
      BY <3>1, <3>2
    <3>4. b \notin confirmed => Reserved!Agree(b)
      BY <2>1, <2>2, <2>4, <3>2, <3>3, AbstractActions
    <3>5. b \in confirmed => UNCHANGED Reserved!vars
      BY <2>2, <2>4, <3>3, AbstractActions
    <3> QED
      BY <2>1, <3>4, <3>5 DEF Reserved!Next
  <2> QED
    BY <1>0, <1>3, <2>3, <2>4 DEF MarkConfirmed, Confirm
<1>4. CASE MarkCancelled(c)
  <2>1. b \in Bookings /\ confirmed' = confirmed /\ log' = log
    BY <1>0, <1>4 DEF MarkCancelled
  <2>2. Told' = Told
    BY <2>1, ToldGrows
  <2>3. CASE status' = status
    <3>1. Held' = Held /\ Off' = Off
      BY <2>3 DEF Held, Off
    <3> QED
      BY <2>1, <2>2, <3>1, AbstractActions
  <2>4. CASE status' = [status EXCEPT ![b] = "cancelled"] /\ b \notin Off
    <3>1. Held' = Held \ {b} /\ Off' = Off \cup {b}
      BY <2>1, <2>4, RowSeen DEF Holding, Statuses
    <3>2. Reserved!Cancel({b})
      BY <2>1, <2>2, <2>4, <3>1, AbstractCancel
    <3> QED
      BY <3>2 DEF Reserved!Next
  <2>5. CASE status' = [status EXCEPT ![b] = "cancelled"] /\ b \in Off
    <3>1. status' = status
      BY <2>5 DEF Off, TypeOK
    <3> QED
      BY <2>3, <3>1
  <2> QED
    BY <1>0, <1>4, <2>3, <2>4, <2>5 DEF MarkCancelled
<1>5. CASE Publish(c)
  <2>1. /\ b \in Bookings /\ status' = status /\ confirmed' = confirmed
        /\ log' = log \/ log' = Append(log, <<call[c].event, b>>)
        /\ \/ call[c].event = "confirmed" /\ b \in confirmed
           \/ call[c].event = "cancelled" /\ status[b] = "cancelled"
    BY <1>0, <1>5 DEF Publish, rowVars, IInv, CallsInv
  <2>2. Held' = Held /\ Off' = Off
    BY <2>1 DEF Held, Off
  <2>3. CASE log' = log
    BY <2>1, <2>2, <2>3, ToldGrows, AbstractActions
  <2>4. CASE log' = Append(log, <<call[c].event, b>>)
    <3>1. Told' = Told \cup {<<call[c].event, b>>} /\ (status[b] = "cancelled" => b \in Off)
      BY <2>1, <2>4, ToldGrows DEF Off
    <3>2. Reserved!Tell(b)
      BY <2>1, <2>2, <3>1, AbstractActions
    <3> QED
      BY <2>1, <3>2 DEF Reserved!Next
  <2> QED
    BY <2>1, <2>3, <2>4
<1> QED
  BY <1>2, <1>3, <1>4, <1>5 DEF Continue

\* The erasure of an account cancels all it touches at once.
LEMMA ErasureRefines ==
  ASSUME TypeOK, NEW u \in Users, NEW today \in Days, AccountDeleted(u, today)
  PROVE  [Reserved!Next]_(Reserved!vars)
<1> DEFINE hit == {b \in Bookings : /\ u \in {TenantOf[b], landlord[b]}
                                    /\ First[b] > today
                                    /\ status[b] \in {"created", "pending_confirmation", "confirmed"}}
<1>1. /\ hit # {} /\ confirmed' = confirmed /\ log' = log
      /\ status' = [b \in Bookings |-> IF b \in hit THEN "cancelled" ELSE status[b]]
  BY DEF AccountDeleted
<1>2. hit \in SUBSET Bookings /\ hit \cap Off = {}
  BY DEF Off
<1> HIDE DEF hit
<1>3. Held' = Held \ hit /\ Off' = Off \cup hit
  BY <1>1, <1>2 DEF Held, Off, Holding
<1>4. Told' = Told
  BY <1>1 DEF Told, InLog
<1>5. PICK S \in SUBSET Bookings : S = hit
  BY <1>2
<1>6. Reserved!Cancel(S)
  BY <1>1, <1>2, <1>3, <1>4, <1>5, AbstractCancel
<1> QED
  BY <1>6 DEF Reserved!Next

\* An insertion holds nothing, and its event is not one the abstraction sees.
LEMMA CreationRefines ==
  ASSUME TypeOK, NEW b \in Bookings, CreateBooking(b) \/ PublishCreated(b)
  PROVE  [Reserved!Next]_(Reserved!vars)
<1>1. CASE CreateBooking(b)
  <2>1. /\ status[b] = "absent" /\ status' = [status EXCEPT ![b] = "created"]
        /\ confirmed' = confirmed /\ log' = log
    BY <1>1 DEF CreateBooking
  <2>2. b \notin Held /\ b \notin Off
    BY <2>1 DEF Held, Off, Holding
  <2>3. Held' = Held /\ Off' = Off
    <3>1. "created" \in Statuses /\ "created" \notin Holding
      BY DEF Holding, Statuses
    <3>2. Held' = Held \ {b} /\ Off' = Off \ {b}
      BY <2>1, <3>1, RowSeen
    <3> QED
      BY <2>2, <3>2
  <2> QED
    BY <2>1, <2>3, ToldGrows, AbstractActions
<1>2. CASE PublishCreated(b)
  <2>1. /\ status' = status /\ confirmed' = confirmed
        /\ log' = log \/ log' = Append(log, <<"created", b>>)
    BY <1>2 DEF PublishCreated, rowVars
  <2>2. Held' = Held /\ Off' = Off
    BY <2>1 DEF Held, Off
  <2> QED
    BY <2>1, <2>2, ToldGrows, AbstractActions
<1> QED
  BY <1>1, <1>2

\* RefinesReservations for every instance: whatever calls race and fail, the
\* service only does what Reservations allows.
THEOREM Refinement == Spec => RefinesReservations
<1>1. Init => Reserved!Init
  BY AbstractActions DEF Init, Held, Off, Told, Holding, InLog
<1>2. TypeOK /\ IInv /\ [Next]_vars => [Reserved!Next]_(Reserved!vars)
  <2> SUFFICES ASSUME TypeOK, IInv, [Next]_vars
               PROVE  [Reserved!Next]_(Reserved!vars)
    OBVIOUS
  <2>1. CASE UNCHANGED vars
    <3>1. Held' = Held /\ Off' = Off /\ Told' = Told /\ confirmed' = confirmed
      BY <2>1 DEF vars, Held, Off, Told, InLog
    <3> QED
      BY <3>1, AbstractActions
  <2> QED
    BY <2>1, CallRefines, ErasureRefines, CreationRefines DEF Next
<1> QED
  BY <1>1, <1>2, BookingInvariance, PTL DEF Spec, RefinesReservations, Reserved!Spec

\* What keeps a day from being sold twice is in Reservations: whatever implements it,
\* by a database constraint or otherwise, has NoDoubleSale.
THEOREM ReservedOnce == RefinesReservations => []NoDoubleSale
<1> DEFINE Kept ==
      /\ \A b1, b2 \in Held : <<b1, b2>> \notin Clashing
      /\ confirmed \subseteq Held \cup Off
      /\ \A b \in Bookings : <<"confirmed", b>> \in Told => b \in confirmed
<1>1. Reserved!Init => Kept
  BY AbstractActions
<1>2. Kept /\ [Reserved!Next]_(Reserved!vars) => Kept'
  <2> SUFFICES ASSUME Kept, [Reserved!Next]_(Reserved!vars)
               PROVE  Kept'
    OBVIOUS
  <2>0. \A b1, b2 \in Bookings : <<b1, b2>> \in Clashing <=> <<b2, b1>> \in Clashing
    BY DEF Clashing, Overlap
  <2>1. Clashing' = Clashing /\ Held \subseteq Bookings
    BY DEF Clashing, Overlap, Held
  <2>2. CASE UNCHANGED Reserved!vars
    BY <2>1, <2>2, AbstractActions
  <2>3. ASSUME NEW b \in Bookings, Reserved!Hold(b)
        PROVE  Kept'
    <3>1. <<b, b>> \notin Clashing
      BY DEF Clashing
    <3>2. /\ \A other \in Held : <<b, other>> \notin Clashing
          /\ Held' = Held \cup {b} /\ Off' = Off /\ confirmed' = confirmed /\ Told' = Told
      BY <2>3, AbstractActions
    <3>3. \A b1, b2 \in Held' : <<b1, b2>> \notin Clashing
      BY <2>0, <2>1, <3>1, <3>2
    <3>4. confirmed' \subseteq Held' \cup Off'
      BY <3>2
    <3>5. \A x \in Bookings : <<"confirmed", x>> \in Told' => x \in confirmed'
      BY <3>2
    <3> QED
      BY <2>1, <3>3, <3>4, <3>5
  <2>4. ASSUME NEW b \in Bookings, Reserved!Agree(b)
        PROVE  Kept'
    BY <2>1, <2>4, AbstractActions
  <2>5. ASSUME NEW b \in Bookings, Reserved!Tell(b)
        PROVE  Kept'
    BY <2>1, <2>5, AbstractActions
  <2>6. ASSUME NEW S \in SUBSET Bookings, Reserved!Cancel(S)
        PROVE  Kept'
    BY <2>1, <2>6, AbstractCancel
  <2> QED
    BY <2>2, <2>3, <2>4, <2>5, <2>6 DEF Reserved!Next
<1>3. Kept => NoDoubleSale
  <2> SUFFICES ASSUME Kept, NEW b1 \in Bookings, NEW b2 \in Bookings, b1 # b2,
                      Overlap(b1, b2), InLog("confirmed", b1), InLog("confirmed", b2)
               PROVE  "cancelled" \in {status[b1], status[b2]}
    BY DEF NoDoubleSale
  <2>1. b1 \in confirmed /\ b2 \in confirmed /\ <<b1, b2>> \in Clashing
    BY DEF Told, Clashing
  <2> QED
    BY <2>1 DEF Off
<1> QED
  BY <1>1, <1>2, <1>3, PTL DEF RefinesReservations, Reserved!Spec
=============================================================================
