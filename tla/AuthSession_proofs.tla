------------------------- MODULE AuthSession_proofs -------------------------
(***************************************************************************)
(* What holds of sessions for every number of users, requests and faults.  *)
(* A request in flight carries what it has read (CallSound); the users and *)
(* the tokens it refers to only ever gain (Grows), so what it carries      *)
(* stays true while others run, and each step is judged by its own call.   *)
(***************************************************************************)
EXTENDS AuthSession, TLAPS

-----------------------------------------------------------------------------
(* The inductive invariant *)

Guarded == {"logout", "erase", "use"}

\* What the step of a request says of its operation and its locals.
CallTyped(r) ==
    /\ r.at \in {"exists", "existing", "cacheExisting", "insert", "cacheNew"}
          => r.op = "register"
    /\ r.at \in {"lookup", "select", "cacheFound", "compare"} => r.op = "login"
    /\ r.at \in {"guard", "logout", "account", "commit", "invalidate", "revokeOwn"}
          => r.op \in Guarded
    /\ r.at \in {"account", "commit", "invalidate", "revokeOwn"} => r.op = "erase"
    /\ r.at = "logout" => r.op = "logout"
    /\ r.at = "check" => r.op \in {"validate", "refresh", "erase"}
    /\ r.at = "user" => r.op \in {"validate", "refresh"}
    /\ r.op \in ByPassword => r.email \in Emails /\ r.pw \in Passwords
    /\ r.op \in ByToken => r.tok \in DOMAIN tokens
    /\ r.op \notin ByToken => ~r.late
    /\ r.at = "invalidate" => r.email \in Emails
    /\ r.at \in {"cacheExisting", "cacheNew", "cacheFound", "compare"}
          => r.uid \in DOMAIN users
    /\ r.at # "done" => r.answer = "none"

\* What a request has read of its user, or answered.
CallSound(r) ==
    /\ r.at \in {"cacheExisting", "cacheNew", "cacheFound", "compare"}
          => users[r.uid].email = r.email
    /\ r.at = "cacheNew" => users[r.uid].pw = r.pw
    /\ r.at \in {"cacheFound", "compare"} => users[r.uid].pw = r.hash
    /\ r.at \in {"cacheExisting", "cacheNew", "cacheFound"} => r.uid \notin r.gone
    /\ r.op = "login" /\ r.answer = "token"
          => /\ r.uid \in DOMAIN users
             /\ users[r.uid].email = r.email
             /\ users[r.uid].pw = r.pw
    /\ \A u \in r.gone : u \in DOMAIN users /\ ~users[u].live
    /\ r.op \in {"validate", "refresh"} /\ r.answer \in {"valid", "token"}
          => tokens[r.tok] \notin r.gone

\* A request that came after its token was signed out stops at the first look.
CallLate(r) ==
    /\ r.late => r.tok \in signedOut
    /\ r.late /\ ~r.blind
          => /\ r.at \in {"guard", "check", "done"}
             /\ r.at = "check" => r.op # "erase"
             /\ r.answer \in {"none", "refused", "error"}

CallInv(r) == CallTyped(r) /\ CallSound(r) /\ CallLate(r)

CacheSound ==
    \A e \in Emails : cache[e] # NoEntry =>
        /\ users[cache[e].id].email = e
        /\ cache[e].hash \in {NoHash, users[cache[e].id].pw}

IInv ==
    /\ TypeOK
    /\ \A c \in Calls : CallInv(call[c])
    /\ CacheSound
    /\ signedOut \subseteq revoked \cup expired

-----------------------------------------------------------------------------
(* What steps have in common *)

Grows ==
    /\ DOMAIN users \subseteq DOMAIN users'
    /\ \A u \in DOMAIN users : /\ users'[u].email = users[u].email
                               /\ users'[u].pw = users[u].pw
                               /\ users'[u].live => users[u].live
    /\ DOMAIN tokens \subseteq DOMAIN tokens'
    /\ \A t \in DOMAIN tokens : tokens'[t] = tokens[t]
    /\ signedOut \subseteq signedOut'

\* What a request carries stays true when users and tokens grow.
LEMMA CallKept ==
  ASSUME NEW r \in CallType, CallInv(r), Grows
  PROVE  r \in CallType' /\ CallInv(r)'
<1>1. r \in CallType'
  BY DEF CallType, Grows
<1>2. CallTyped(r)'
  BY DEF CallInv, CallTyped, Grows
<1>3. CallSound(r)'
  <2>1. r.op \in {"validate", "refresh"} => r.tok \in DOMAIN tokens
    BY DEF CallInv, CallTyped, ByToken
  <2>2. r.at \in {"cacheExisting", "cacheNew", "cacheFound", "compare"} => r.uid \in DOMAIN users
    BY DEF CallInv, CallTyped
  <2>3. CallSound(r)
    BY DEF CallInv
  <2> QED
    BY <2>1, <2>2, <2>3 DEF CallSound, Grows
<1>4. CallLate(r)'
  BY DEF CallInv, CallLate, Grows
<1> QED
  BY <1>1, <1>2, <1>3, <1>4 DEF CallInv

\* The other requests do not notice a step of request c.
LEMMA OthersKept ==
  ASSUME TypeOK, \A k \in Calls : CallInv(call[k]), Grows,
         NEW c \in Calls, NEW r, call' = [call EXCEPT ![c] = r], r \in CallType', CallInv(r)'
  PROVE  call' \in [Calls -> CallType'] /\ \A k \in Calls : CallInv(call[k])'
<1>1. call \in [Calls -> CallType]
  BY DEF TypeOK
<1>2. ASSUME NEW k \in Calls
      PROVE  call'[k] \in CallType' /\ CallInv(call[k])'
  <2>1. CASE k = c
    <3>1. call'[k] = r
      BY <1>1, <2>1
    <3> QED
      BY <3>1 DEF CallInv, CallTyped, CallSound, CallLate
  <2>2. CASE k # c
    <3>1. PICK q \in CallType : q = call[k] /\ CallInv(q)
      BY <1>1
    <3>2. call'[k] = q
      BY <1>1, <2>2, <3>1
    <3>3. q \in CallType' /\ CallInv(q)'
      BY <3>1, CallKept
    <3> QED
      BY <3>2, <3>3 DEF CallInv, CallTyped, CallSound, CallLate
  <2> QED
    BY <2>1, <2>2
<1> QED
  BY <1>1, <1>2

\* Going to another step, and answering, change nothing else of a request.
LEMMA GotoEffect ==
  ASSUME call \in [Calls -> CallType], NEW c \in Calls, NEW l \in Steps, Goto(c, l)
  PROVE  \E r \in CallType :
            /\ call' = [call EXCEPT ![c] = r]
            /\ r = [call[c] EXCEPT !.at = l]
BY DEF Goto, CallType

LEMMA AnswerEffect ==
  ASSUME call \in [Calls -> CallType], NEW c \in Calls, NEW a \in Answers, Answer(c, a)
  PROVE  \E r \in CallType :
            /\ call' = [call EXCEPT ![c] = r]
            /\ r = [call[c] EXCEPT !.at = "done", !.answer = a]
<1> DEFINE r == [call[c] EXCEPT !.at = "done", !.answer = a]
<1>1. call[c] \in CallType
  OBVIOUS
<1>2. r \in CallType
  BY <1>1 DEF CallType, Steps
<1>3. call' = [call EXCEPT ![c] = r]
  BY DEF Answer
<1> QED
  BY <1>2, <1>3

LEMMA FaultType ==
  ASSUME TypeOK, Fault \/ NoFault
  PROVE  faults' \in 0..MaxFaults
BY BoundAssumption DEF TypeOK, Fault, NoFault

\* A new token takes the next jti.
LEMMA SignEffect ==
  ASSUME TypeOK, NEW c \in Calls, NEW u \in DOMAIN users, Sign(c, u), UNCHANGED <<users, signedOut>>
  PROVE  /\ Grows
         /\ tokens' \in Seq(DOMAIN users')
         /\ \E r \in CallType :
               /\ call' = [call EXCEPT ![c] = r]
               /\ r = [call[c] EXCEPT !.at = "done", !.answer = "token", !.uid = u]
<1>1. tokens \in Seq(DOMAIN users) /\ tokens' = Append(tokens, u)
  BY DEF TypeOK, Sign
<1>2. tokens' \in Seq(DOMAIN users)
  BY <1>1
<1>3. DOMAIN tokens \subseteq DOMAIN tokens' /\ \A t \in DOMAIN tokens : tokens'[t] = tokens[t]
  BY <1>1
<1>4. Grows
  BY <1>3 DEF Grows
<1>5. PICK r : r = [call[c] EXCEPT !.at = "done", !.answer = "token", !.uid = u]
  OBVIOUS
<1>6. call[c] \in CallType /\ "done" \in Steps /\ "token" \in Answers
  BY DEF TypeOK, Steps, Answers
<1>7. r \in CallType
  BY <1>5, <1>6 DEF CallType
<1>8. call' = [call EXCEPT ![c] = r]
  BY <1>5 DEF Sign
<1> QED
  BY <1>2, <1>4, <1>5, <1>7, <1>8

\* The cache survives whatever users and tokens do.
LEMMA CacheKept ==
  ASSUME TypeOK, CacheSound, Grows, UNCHANGED cache
  PROVE  CacheSound' /\ cache' \in [Emails -> EntryType' \cup {NoEntry}]
<1>1. EntryType \subseteq EntryType'
  BY DEF EntryType, Grows
<1>2. \A e \in Emails : cache[e] # NoEntry => cache[e].id \in DOMAIN users
  BY DEF TypeOK, EntryType
<1>3. CacheSound'
  BY <1>2 DEF CacheSound, Grows
<1> QED
  BY <1>1, <1>3 DEF TypeOK

\* cacheUser with a record that fits the row.
LEMMA CacheWritten ==
  ASSUME TypeOK, CacheSound, UNCHANGED users,
         NEW e \in Emails, NEW u \in DOMAIN users, users[u].email = e,
         NEW h \in {NoHash, users[u].pw}, CacheUser(e, Record(u, h))
  PROVE  /\ CacheSound'
         /\ cache' \in [Emails -> EntryType' \cup {NoEntry}]
         /\ faults' \in 0..MaxFaults
<1>1. users[u] \in UserType /\ cache \in [Emails -> EntryType \cup {NoEntry}]
  BY DEF TypeOK
<1>2. Record(u, h) \in EntryType
  BY <1>1 DEF Record, EntryType, UserType
<1>3. EntryType' = EntryType
  BY DEF EntryType
<1>4. faults' \in 0..MaxFaults
  BY FaultType DEF CacheUser
<1>5. CASE cache' = cache
  BY <1>1, <1>3, <1>4, <1>5 DEF CacheSound
<1>6. CASE cache' = [cache EXCEPT ![e] = Record(u, h)]
  <2>1. cache' \in [Emails -> EntryType \cup {NoEntry}]
    BY <1>1, <1>2, <1>6
  <2>2. cache'[e].id = u /\ cache'[e].hash = h /\ \A x \in Emails \ {e} : cache'[x] = cache[x]
    BY <1>1, <1>6 DEF Record
  <2>3. CacheSound'
    BY <2>2 DEF CacheSound
  <2> QED
    BY <1>3, <1>4, <2>1, <2>3
<1> QED
  BY <1>5, <1>6 DEF CacheUser

\* A step of one request that writes neither users, tokens nor Redis.
LEMMA LocalStep ==
  ASSUME IInv, NEW c \in Calls, NEW r \in CallType, call' = [call EXCEPT ![c] = r], CallInv(r),
         UNCHANGED <<users, tokens, redisVars, expired, signedOut>>,
         started' \in 0..MaxCalls, faults' \in 0..MaxFaults
  PROVE  IInv'
<1> USE DEF redisVars
<1>1. Grows
  BY DEF Grows
<1>2. r \in CallType' /\ CallInv(r)'
  BY <1>1, CallKept
<1>3. call' \in [Calls -> CallType'] /\ \A k \in Calls : CallInv(call[k])'
  BY <1>1, <1>2, OthersKept DEF IInv
<1>4. CacheSound' /\ cache' \in [Emails -> EntryType' \cup {NoEntry}]
  BY <1>1, CacheKept DEF IInv
<1>5. TypeOK'
  BY <1>3, <1>4 DEF IInv, TypeOK, CallType, EntryType
<1> QED
  BY <1>3, <1>4, <1>5 DEF IInv

\* Any step of one request.
LEMMA StepInv ==
  ASSUME IInv, Grows, NEW c \in Calls, NEW r, call' = [call EXCEPT ![c] = r],
         r \in CallType', CallInv(r)',
         users' \in Seq(UserType), tokens' \in Seq(DOMAIN users'),
         CacheSound', cache' \in [Emails -> EntryType' \cup {NoEntry}],
         revoked' \subseteq DOMAIN tokens', expired' \subseteq DOMAIN tokens',
         signedOut' \subseteq DOMAIN tokens', signedOut' \subseteq revoked' \cup expired',
         started' \in 0..MaxCalls, faults' \in 0..MaxFaults
  PROVE  IInv'
<1>1. call' \in [Calls -> CallType'] /\ \A k \in Calls : CallInv(call[k])'
  BY OthersKept DEF IInv
<1> QED
  BY <1>1 DEF IInv, TypeOK

\* A request that goes on, or ends without a token, having written nothing.
LEMMA GotoStep ==
  ASSUME IInv, NEW c \in Calls, NEW l \in Steps, Goto(c, l),
         CallInv([call[c] EXCEPT !.at = l]),
         UNCHANGED <<users, tokens, redisVars, expired, signedOut>>,
         started' \in 0..MaxCalls, faults' \in 0..MaxFaults
  PROVE  IInv'
<1>1. PICK r \in CallType : call' = [call EXCEPT ![c] = r] /\ r = [call[c] EXCEPT !.at = l]
  BY GotoEffect DEF IInv, TypeOK
<1>2. CallInv(r)
  BY <1>1
<1> QED
  BY <1>1, <1>2, LocalStep

LEMMA AnswerStep ==
  ASSUME IInv, NEW c \in Calls, NEW a \in {"conflict", "refused", "error", "already", "notRevoked"}, Answer(c, a),
         a \in {"refused", "error"} \/ ~call[c].late \/ call[c].blind,
         UNCHANGED <<users, tokens, redisVars, expired, signedOut>>,
         started' \in 0..MaxCalls, faults' \in 0..MaxFaults
  PROVE  IInv'
<1>1. a \in Answers
  BY DEF Answers
<1>2. PICK r \in CallType : /\ call' = [call EXCEPT ![c] = r]
                            /\ r = [call[c] EXCEPT !.at = "done", !.answer = a]
  BY <1>1, AnswerEffect DEF IInv, TypeOK
<1>3. PICK q \in CallType : q = call[c] /\ CallInv(q)
  BY DEF IInv, TypeOK
<1>4. /\ r.at = "done" /\ r.answer = a
      /\ r.op = q.op /\ r.email = q.email /\ r.pw = q.pw /\ r.tok = q.tok /\ r.uid = q.uid
      /\ r.gone = q.gone /\ r.late = q.late /\ r.blind = q.blind
  BY <1>2, <1>3 DEF CallType
<1>5. CallInv(r)
  BY <1>3, <1>4 DEF CallInv, CallTyped, CallSound, CallLate
<1> QED
  BY <1>2, <1>5, LocalStep

-----------------------------------------------------------------------------
(* Every step keeps the invariant *)

\* What is known of the request that takes a step.
LEMMA Own ==
  ASSUME IInv, NEW c \in Calls
  PROVE  \E q \in CallType :
            /\ q = call[c]
            /\ CallTyped(q) /\ CallSound(q) /\ CallLate(q)
            /\ q.op \in ByPassword \cup {"none"} => ~q.late
BY DEF IInv, TypeOK, CallInv, CallTyped, ByPassword, ByToken

\* A step that ends with a token, for a user the request may have one for.
LEMMA SignStep ==
  ASSUME IInv, NEW c \in Calls, NEW u \in DOMAIN users, Sign(c, u),
         UNCHANGED <<users, revoked, expired, signedOut, started>>, faults' \in 0..MaxFaults,
         CacheSound', cache' \in [Emails -> EntryType' \cup {NoEntry}],
         call[c].op = "login" => users[u].email = call[c].email /\ users[u].pw = call[c].pw,
         call[c].op = "refresh" => tokens[call[c].tok] \notin call[c].gone,
         call[c].op # "validate",
         call[c].late => call[c].blind
  PROVE  IInv'
<1>1. /\ Grows
      /\ tokens' \in Seq(DOMAIN users')
  BY SignEffect DEF IInv
<1>2. PICK r \in CallType : /\ call' = [call EXCEPT ![c] = r]
                            /\ r = [call[c] EXCEPT !.at = "done", !.answer = "token", !.uid = u]
  BY SignEffect DEF IInv
<1>3. PICK q \in CallType : q = call[c] /\ CallTyped(q) /\ CallSound(q) /\ CallLate(q)
  BY Own
<1>4. /\ r.at = "done" /\ r.answer = "token" /\ r.uid = u
      /\ r.op = q.op /\ r.email = q.email /\ r.pw = q.pw /\ r.tok = q.tok
      /\ r.gone = q.gone /\ r.late = q.late /\ r.blind = q.blind
  BY <1>2, <1>3 DEF CallType
<1>5. CallInv(r)
  BY <1>3, <1>4 DEF CallInv, CallTyped, CallSound, CallLate
<1>6. r \in CallType' /\ CallInv(r)'
  BY <1>1, <1>5, CallKept
<1>7. /\ users' \in Seq(UserType) /\ started' \in 0..MaxCalls
      /\ revoked \subseteq DOMAIN tokens /\ expired \subseteq DOMAIN tokens
      /\ signedOut \subseteq DOMAIN tokens /\ signedOut \subseteq revoked \cup expired
  BY DEF IInv, TypeOK
<1>8. /\ revoked' \subseteq DOMAIN tokens' /\ expired' \subseteq DOMAIN tokens'
      /\ signedOut' \subseteq DOMAIN tokens' /\ signedOut' \subseteq revoked' \cup expired'
  BY <1>1, <1>7 DEF Grows
<1> QED
  BY <1>1, <1>2, <1>6, <1>7, <1>8, StepInv

LEMMA BeginStep ==
  ASSUME IInv, NEW c \in Calls, Begin(c)
  PROVE  IInv'
<1> DEFINE Gone == {u \in DOMAIN users : ~users[u].live}
           New(op) == [Idle EXCEPT !.op = op, !.at = Entry(op), !.gone = Gone]
<1>a. UNCHANGED <<users, tokens, redisVars, expired, signedOut, faults>>
  BY DEF Begin
<1>b. started' \in 0..MaxCalls
  <2>1. started \in 0..MaxCalls /\ started < MaxCalls /\ started' = started + 1
    BY DEF Begin, IInv, TypeOK
  <2> QED
    BY <2>1, BoundAssumption
<1>1. /\ UNCHANGED <<users, tokens, redisVars, expired, signedOut, faults>>
      /\ started' \in 0..MaxCalls
  BY <1>a, <1>b
<1>2. faults' \in 0..MaxFaults
  BY <1>1 DEF IInv, TypeOK
<1>3. ASSUME NEW op \in ByPassword, NEW e \in Emails, NEW p \in Passwords,
             call' = [call EXCEPT ![c] = [New(op) EXCEPT !.email = e, !.pw = p]]
      PROVE  IInv'
  <2>1. PICK r : r = [New(op) EXCEPT !.email = e, !.pw = p]
    OBVIOUS
  <2>2. Entry(op) \in {"exists", "lookup"} /\ (Entry(op) = "exists" <=> op = "register")
    BY DEF Entry, ByPassword
  <2>3. r \in CallType
    BY <2>1, <2>2 DEF Idle, CallType, Steps, Answers
  <2>4. /\ r.op = op /\ r.at = Entry(op) /\ r.email = e /\ r.pw = p /\ r.gone = Gone
        /\ r.answer = "none" /\ ~r.late /\ ~r.blind
    BY <2>1 DEF Idle
  <2>5. CallInv(r)
    BY <2>2, <2>4 DEF CallInv, CallTyped, CallSound, CallLate, ByPassword, ByToken
  <2> QED
    BY <1>1, <1>2, <1>3, <2>1, <2>3, <2>5, LocalStep
<1>4. ASSUME NEW op \in ByToken, NEW t \in DOMAIN tokens,
             call' = [call EXCEPT ![c] = [New(op) EXCEPT !.tok = t, !.late = t \in signedOut]]
      PROVE  IInv'
  <2>a. PICK late \in BOOLEAN : late = (t \in signedOut)
    <3>1. (t \in signedOut) \in BOOLEAN
      OBVIOUS
    <3> QED
      BY <3>1, Zenon
  <2>1. PICK r : r = [New(op) EXCEPT !.tok = t, !.late = late]
    OBVIOUS
  <2>2. /\ Entry(op) \in {"check", "guard"}
        /\ Entry(op) = "check" <=> op \in {"validate", "refresh"}
    BY DEF Entry, ByToken
  <2>3. r \in CallType
    BY <2>1, <2>2 DEF Idle, CallType, Steps, Answers
  <2>4. /\ r.op = op /\ r.at = Entry(op) /\ r.tok = t /\ r.gone = Gone
        /\ r.answer = "none" /\ ~r.blind /\ (r.late => t \in signedOut)
    BY <2>a, <2>1 DEF Idle
  <2>5. CallInv(r)
    BY <2>2, <2>4 DEF CallInv, CallTyped, CallSound, CallLate, ByPassword, ByToken, Guarded
  <2> QED
    BY <1>1, <1>2, <1>4, <2>a, <2>1, <2>3, <2>5, LocalStep
<1> QED
  BY <1>3, <1>4 DEF Begin

LEMMA FailStep ==
  ASSUME IInv, NEW c \in Calls, Fail(c)
  PROVE  IInv'
<1>1. started' \in 0..MaxCalls /\ faults' \in 0..MaxFaults
  BY FaultType DEF Fail, IInv, TypeOK
<1> QED
  BY <1>1, AnswerStep DEF Fail

LEMMA CheckEmailStep ==
  ASSUME IInv, NEW c \in Calls, CheckEmailExistsInCache(c)
  PROVE  IInv'
<1>1. /\ started' \in 0..MaxCalls /\ faults' \in 0..MaxFaults
      /\ UNCHANGED <<users, tokens, redisVars, expired, signedOut>>
  BY FaultType DEF CheckEmailExistsInCache, IInv, TypeOK
<1>2. PICK q \in CallType : /\ q = call[c] /\ CallTyped(q) /\ CallSound(q) /\ CallLate(q)
                            /\ q.op \in ByPassword \cup {"none"} => ~q.late
  BY Own
<1>3. q.at = "exists" /\ q.op = "register" /\ ~q.late
  BY <1>2 DEF CheckEmailExistsInCache, CallTyped, ByPassword
<1>4. CASE Answer(c, "conflict")
  BY <1>1, <1>2, <1>3, <1>4, AnswerStep
<1>5. CASE Goto(c, "existing")
  <2>1. CallInv([q EXCEPT !.at = "existing"])
    BY <1>2, <1>3 DEF CallType, CallInv, CallTyped, CallSound, CallLate, ByPassword
  <2> QED
    BY <1>1, <1>2, <1>5, <2>1, GotoStep DEF Steps
<1> QED
  BY <1>4, <1>5 DEF CheckEmailExistsInCache

LEMMA SelectExistingStep ==
  ASSUME IInv, NEW c \in Calls, SelectExisting(c)
  PROVE  IInv'
<1>1. /\ started' \in 0..MaxCalls /\ faults' \in 0..MaxFaults
      /\ UNCHANGED <<users, tokens, redisVars, expired, signedOut>>
  BY DEF SelectExisting, IInv, TypeOK
<1>2. PICK q \in CallType : /\ q = call[c] /\ CallTyped(q) /\ CallSound(q) /\ CallLate(q)
                            /\ q.op \in ByPassword \cup {"none"} => ~q.late
  BY Own
<1>3. q.at = "existing" /\ q.op = "register" /\ ~q.late
  BY <1>2 DEF SelectExisting, CallTyped, ByPassword
<1>4. CASE Goto(c, "insert")
  <2>1. CallInv([q EXCEPT !.at = "insert"])
    BY <1>2, <1>3 DEF CallType, CallInv, CallTyped, CallSound, CallLate, ByPassword
  <2> QED
    BY <1>1, <1>2, <1>4, <2>1, GotoStep DEF Steps
<1>5. ASSUME NEW u \in LiveUsers(q.email),
             call' = [call EXCEPT ![c].at = "cacheExisting", ![c].uid = u]
      PROVE  IInv'
  <2>1. PICK r : r = [q EXCEPT !.at = "cacheExisting", !.uid = u]
    OBVIOUS
  <2>2. u \in DOMAIN users /\ users[u].email = q.email /\ users[u].live
    BY DEF LiveUsers
  <2>3. r \in CallType /\ call' = [call EXCEPT ![c] = r]
    BY <1>2, <1>5, <2>1, <2>2 DEF CallType, Steps
  <2>4. CallInv(r)
    BY <1>2, <1>3, <2>1, <2>2 DEF CallType, CallInv, CallTyped, CallSound, CallLate
  <2> QED
    BY <1>1, <2>3, <2>4, LocalStep
<1> QED
  BY <1>2, <1>4, <1>5 DEF SelectExisting

LEMMA SelectUserStep ==
  ASSUME IInv, NEW c \in Calls, SelectUser(c)
  PROVE  IInv'
<1>1. /\ started' \in 0..MaxCalls /\ faults' \in 0..MaxFaults
      /\ UNCHANGED <<users, tokens, redisVars, expired, signedOut>>
  BY DEF SelectUser, IInv, TypeOK
<1>2. PICK q \in CallType : /\ q = call[c] /\ CallTyped(q) /\ CallSound(q) /\ CallLate(q)
                            /\ q.op \in ByPassword \cup {"none"} => ~q.late
  BY Own
<1>3. q.at = "select" /\ q.op = "login" /\ ~q.late
  BY <1>2 DEF SelectUser, CallTyped, ByPassword
<1>4. CASE Answer(c, "refused")
  BY <1>1, <1>4, AnswerStep
<1>5. ASSUME NEW u \in LiveUsers(q.email),
             call' = [call EXCEPT ![c].at = "cacheFound", ![c].uid = u, ![c].hash = users[u].pw]
      PROVE  IInv'
  <2>1. PICK r : r = [q EXCEPT !.at = "cacheFound", !.uid = u, !.hash = users[u].pw]
    OBVIOUS
  <2>2. u \in DOMAIN users /\ users[u].email = q.email /\ users[u].live /\ users[u] \in UserType
    BY DEF LiveUsers, IInv, TypeOK
  <2>3. r \in CallType /\ call' = [call EXCEPT ![c] = r]
    <3>1. users[u].pw \in Passwords /\ "cacheFound" \in Steps
      BY <2>2 DEF UserType, Steps
    <3>2. r \in CallType
      BY <2>1, <2>2, <3>1 DEF CallType
    <3>3. call' = [call EXCEPT ![c] = r]
      BY <1>2, <1>5, <2>1
    <3> QED
      BY <3>2, <3>3
  <2>4. CallInv(r)
    BY <1>2, <1>3, <2>1, <2>2 DEF CallType, CallInv, CallTyped, CallSound, CallLate
  <2> QED
    BY <1>1, <2>3, <2>4, LocalStep
<1> QED
  BY <1>2, <1>4, <1>5 DEF SelectUser

\* cacheUser, and the request goes to a step where its record still fits.
LEMMA CacheExistingStep ==
  ASSUME IInv, NEW c \in Calls, CacheExisting(c)
  PROVE  IInv'
<1>1. /\ started' \in 0..MaxCalls
      /\ UNCHANGED <<users, tokens, revoked, expired, signedOut>>
  BY DEF CacheExisting, IInv, TypeOK
<1>2. PICK q \in CallType : /\ q = call[c] /\ CallTyped(q) /\ CallSound(q) /\ CallLate(q)
                            /\ q.op \in ByPassword \cup {"none"} => ~q.late
  BY Own
<1>3. /\ q.at = "cacheExisting" /\ q.op = "register" /\ ~q.late
      /\ q.email \in Emails /\ q.uid \in DOMAIN users /\ users[q.uid].email = q.email
  BY <1>2 DEF CacheExisting, CallTyped, CallSound, ByPassword
<1>4. Answer(c, "conflict") /\ CacheUser(q.email, Record(q.uid, NoHash))
  BY <1>2 DEF CacheExisting
<1>5. PICK r \in CallType : /\ call' = [call EXCEPT ![c] = r]
                            /\ r = [q EXCEPT !.at = "done", !.answer = "conflict"]
  <2>1. "conflict" \in Answers /\ call \in [Calls -> CallType]
    BY DEF IInv, TypeOK, Answers
  <2>2. \E r \in CallType : /\ call' = [call EXCEPT ![c] = r]
                           /\ r = [call[c] EXCEPT !.at = "done", !.answer = "conflict"]
    BY <1>4, <2>1, AnswerEffect
  <2> QED
    BY <1>2, <2>2
<1>6. CallInv(r)
  <2>1. /\ r.at = "done" /\ r.answer = "conflict" /\ r.op = q.op /\ r.email = q.email
        /\ r.pw = q.pw /\ r.tok = q.tok /\ r.gone = q.gone /\ r.late = q.late
    BY <1>2, <1>5 DEF CallType
  <2>2. CallTyped(r)
    BY <1>2, <1>3, <2>1 DEF CallTyped, ByPassword
  <2>3. CallSound(r)
    BY <1>2, <1>3, <2>1 DEF CallSound
  <2>4. CallLate(r)
    BY <1>3, <2>1 DEF CallLate
  <2> QED
    BY <2>2, <2>3, <2>4 DEF CallInv
<1>7. Grows
  BY <1>1 DEF Grows
<1>8. r \in CallType' /\ CallInv(r)'
  BY <1>6, <1>7, CallKept
<1>9. CacheSound' /\ cache' \in [Emails -> EntryType' \cup {NoEntry}] /\ faults' \in 0..MaxFaults
  BY <1>1, <1>3, <1>4, CacheWritten DEF IInv
<1> QED
  BY <1>1, <1>5, <1>7, <1>8, <1>9, StepInv DEF IInv, TypeOK

LEMMA CacheFoundStep ==
  ASSUME IInv, NEW c \in Calls, CacheFoundUser(c)
  PROVE  IInv'
<1>1. /\ started' \in 0..MaxCalls
      /\ UNCHANGED <<users, tokens, revoked, expired, signedOut>>
  BY DEF CacheFoundUser, IInv, TypeOK
<1>2. PICK q \in CallType : /\ q = call[c] /\ CallTyped(q) /\ CallSound(q) /\ CallLate(q)
                            /\ q.op \in ByPassword \cup {"none"} => ~q.late
  BY Own
<1>3. /\ q.at = "cacheFound" /\ q.op = "login" /\ ~q.late
      /\ q.email \in Emails /\ q.uid \in DOMAIN users /\ users[q.uid].email = q.email
      /\ users[q.uid].pw = q.hash
  BY <1>2 DEF CacheFoundUser, CallTyped, CallSound, ByPassword
<1>4. Goto(c, "compare") /\ CacheUser(q.email, Record(q.uid, q.hash))
  BY <1>2 DEF CacheFoundUser
<1>5. PICK r \in CallType : /\ call' = [call EXCEPT ![c] = r]
                            /\ r = [q EXCEPT !.at = "compare"]
  BY <1>2, <1>4, GotoEffect DEF IInv, TypeOK, Steps
<1>6. CallInv(r)
  BY <1>2, <1>3, <1>5 DEF CallType, CallInv, CallTyped, CallSound, CallLate, ByPassword
<1>7. Grows
  BY <1>1 DEF Grows
<1>8. r \in CallType' /\ CallInv(r)'
  BY <1>6, <1>7, CallKept
<1>9. CacheSound' /\ cache' \in [Emails -> EntryType' \cup {NoEntry}] /\ faults' \in 0..MaxFaults
  BY <1>1, <1>3, <1>4, CacheWritten DEF IInv
<1> QED
  BY <1>1, <1>5, <1>7, <1>8, <1>9, StepInv DEF IInv, TypeOK

LEMMA GetUserStep ==
  ASSUME IInv, NEW c \in Calls, GetUserFromCache(c)
  PROVE  IInv'
<1>1. /\ started' \in 0..MaxCalls /\ faults' \in 0..MaxFaults
      /\ UNCHANGED <<users, tokens, redisVars, expired, signedOut>>
  BY FaultType DEF GetUserFromCache, IInv, TypeOK
<1>2. PICK q \in CallType : /\ q = call[c] /\ CallTyped(q) /\ CallSound(q) /\ CallLate(q)
                            /\ q.op \in ByPassword \cup {"none"} => ~q.late
  BY Own
<1>3. q.at = "lookup" /\ q.op = "login" /\ ~q.late /\ q.email \in Emails
  BY <1>2 DEF GetUserFromCache, CallTyped, ByPassword
<1>4. CASE Answer(c, "refused")
  BY <1>1, <1>4, AnswerStep
<1>5. CASE Goto(c, "select")
  <2>1. CallInv([q EXCEPT !.at = "select"])
    BY <1>2, <1>3 DEF CallType, CallInv, CallTyped, CallSound, CallLate, ByPassword
  <2> QED
    BY <1>1, <1>2, <1>5, <2>1, GotoStep DEF Steps
<1>6. ASSUME cache[q.email] # NoEntry, cache[q.email].hash # NoHash,
             call' = [call EXCEPT ![c].at = "compare", ![c].uid = cache[q.email].id,
                                  ![c].hash = cache[q.email].hash]
      PROVE  IInv'
  <2>1. PICK r : r = [q EXCEPT !.at = "compare", !.uid = cache[q.email].id,
                               !.hash = cache[q.email].hash]
    OBVIOUS
  <2>2. /\ cache[q.email] \in EntryType
        /\ users[cache[q.email].id].email = q.email
        /\ cache[q.email].hash = users[cache[q.email].id].pw
    BY <1>3, <1>6 DEF IInv, TypeOK, CacheSound
  <2>3. r \in CallType /\ call' = [call EXCEPT ![c] = r]
    BY <1>2, <1>6, <2>1, <2>2 DEF CallType, Steps, EntryType
  <2>4. CallInv(r)
    BY <1>2, <1>3, <2>1, <2>2 DEF CallType, EntryType, CallInv, CallTyped, CallSound, CallLate
  <2> QED
    BY <1>1, <2>3, <2>4, LocalStep
<1> QED
  BY <1>2, <1>4, <1>5, <1>6 DEF GetUserFromCache

LEMMA CacheNewStep ==
  ASSUME IInv, NEW c \in Calls, CacheNewUser(c)
  PROVE  IInv'
<1>1. UNCHANGED <<users, revoked, expired, signedOut, started>>
  BY DEF CacheNewUser
<1>2. PICK q \in CallType : /\ q = call[c] /\ CallTyped(q) /\ CallSound(q) /\ CallLate(q)
                            /\ q.op \in ByPassword \cup {"none"} => ~q.late
  BY Own
<1>3. /\ q.at = "cacheNew" /\ q.op = "register" /\ ~q.late
      /\ q.email \in Emails /\ q.uid \in DOMAIN users /\ users[q.uid].email = q.email
      /\ users[q.uid].pw = q.pw
  BY <1>2 DEF CacheNewUser, CallTyped, CallSound, ByPassword
<1>4. Sign(c, q.uid) /\ CacheUser(q.email, Record(q.uid, q.pw))
  BY <1>2 DEF CacheNewUser
<1>5. CacheSound' /\ cache' \in [Emails -> EntryType' \cup {NoEntry}] /\ faults' \in 0..MaxFaults
  BY <1>1, <1>3, <1>4, CacheWritten DEF IInv
<1> QED
  BY <1>1, <1>2, <1>3, <1>4, <1>5, SignStep

LEMMA CompareStep ==
  ASSUME IInv, NEW c \in Calls, ComparePassword(c)
  PROVE  IInv'
<1>1. UNCHANGED <<users, redisVars, expired, signedOut, started, faults>>
  BY DEF ComparePassword
<1>2. PICK q \in CallType : /\ q = call[c] /\ CallTyped(q) /\ CallSound(q) /\ CallLate(q)
                            /\ q.op \in ByPassword \cup {"none"} => ~q.late
  BY Own
<1>3. /\ q.at = "compare" /\ q.op = "login" /\ ~q.late
      /\ q.uid \in DOMAIN users /\ users[q.uid].email = q.email /\ users[q.uid].pw = q.hash
  BY <1>2 DEF ComparePassword, CallTyped, CallSound, ByPassword
<1>4. started' \in 0..MaxCalls /\ faults' \in 0..MaxFaults
  BY <1>1 DEF IInv, TypeOK
<1>5. CASE Sign(c, q.uid) /\ q.hash = q.pw
  <2>1. Grows
    BY <1>1, <1>3, <1>5, SignEffect DEF IInv
  <2>2. CacheSound' /\ cache' \in [Emails -> EntryType' \cup {NoEntry}]
    BY <1>1, <2>1, CacheKept DEF IInv, redisVars
  <2> QED
    BY <1>1, <1>2, <1>3, <1>4, <1>5, <2>2, SignStep DEF redisVars
<1>6. CASE Answer(c, "refused") /\ tokens' = tokens
  BY <1>1, <1>4, <1>6, AnswerStep
<1> QED
  BY <1>2, <1>5, <1>6 DEF ComparePassword

LEMMA SelectTokenUserStep ==
  ASSUME IInv, NEW c \in Calls, SelectTokenUser(c)
  PROVE  IInv'
<1>1. UNCHANGED <<users, redisVars, expired, signedOut, started, faults>>
  BY DEF SelectTokenUser
<1>2. PICK q \in CallType : /\ q = call[c] /\ CallTyped(q) /\ CallSound(q) /\ CallLate(q)
                            /\ q.op \in ByPassword \cup {"none"} => ~q.late
  BY Own
<1>3. q.at = "user" /\ q.op \in {"validate", "refresh"} /\ q.tok \in DOMAIN tokens
  BY <1>2 DEF SelectTokenUser, CallTyped, ByToken
<1>4. q.late => q.blind
  BY <1>2, <1>3 DEF CallLate, CallType
<1>5. started' \in 0..MaxCalls /\ faults' \in 0..MaxFaults
  BY <1>1 DEF IInv, TypeOK
<1>6. CASE Answer(c, "refused") /\ tokens' = tokens
  BY <1>1, <1>5, <1>6, AnswerStep
<1>7. ASSUME users[tokens[q.tok]].live
      PROVE  tokens[q.tok] \notin q.gone
  BY <1>2, <1>7 DEF CallSound
<1>8. CASE users[tokens[q.tok]].live /\ q.op = "validate" /\ Answer(c, "valid") /\ tokens' = tokens
  <2>1. "valid" \in Answers /\ call \in [Calls -> CallType]
    BY DEF IInv, TypeOK, Answers
  <2>a. Answer(c, "valid")
    BY <1>8
  <2>2. PICK r \in CallType : /\ call' = [call EXCEPT ![c] = r]
                              /\ r = [call[c] EXCEPT !.at = "done", !.answer = "valid"]
    BY <2>1, <2>a, AnswerEffect
  <2>3. CallInv(r)
    BY <1>2, <1>3, <1>4, <1>7, <1>8, <2>2 DEF CallType, CallInv, CallTyped, CallSound, CallLate
  <2> QED
    BY <1>1, <1>5, <1>8, <2>2, <2>3, LocalStep
<1>9. CASE users[tokens[q.tok]].live /\ q.op = "refresh" /\ Sign(c, tokens[q.tok])
  <2>1. tokens[q.tok] \in DOMAIN users
    BY <1>3 DEF IInv, TypeOK
  <2>2. Grows
    BY <1>1, <1>9, <2>1, SignEffect DEF IInv
  <2>3. CacheSound' /\ cache' \in [Emails -> EntryType' \cup {NoEntry}]
    BY <1>1, <2>2, CacheKept DEF IInv, redisVars
  <2> QED
    BY <1>1, <1>2, <1>3, <1>4, <1>5, <1>7, <1>9, <2>1, <2>3, SignStep DEF redisVars
<1> QED
  BY <1>2, <1>6, <1>8, <1>9 DEF SelectTokenUser

LEMMA InsertStep ==
  ASSUME IInv, NEW c \in Calls, InsertUser(c)
  PROVE  IInv'
<1>1. UNCHANGED <<tokens, redisVars, expired, signedOut, started, faults>>
  BY DEF InsertUser
<1>2. PICK q \in CallType : /\ q = call[c] /\ CallTyped(q) /\ CallSound(q) /\ CallLate(q)
                            /\ q.op \in ByPassword \cup {"none"} => ~q.late
  BY Own
<1>3. /\ q.at = "insert" /\ q.op = "register" /\ ~q.late
      /\ q.email \in Emails /\ q.pw \in Passwords
  BY <1>2 DEF InsertUser, CallTyped, ByPassword
<1>4. started' \in 0..MaxCalls /\ faults' \in 0..MaxFaults
  BY <1>1 DEF IInv, TypeOK
<1>5. CASE users' = users /\ Answer(c, "error")
  BY <1>1, <1>4, <1>5, AnswerStep
<1>6. ASSUME users' = Append(users, [email |-> q.email, pw |-> q.pw, live |-> TRUE]),
             call' = [call EXCEPT ![c].at = "cacheNew", ![c].uid = Len(users) + 1]
      PROVE  IInv'
  <2> DEFINE n == Len(users) + 1
             row == [email |-> q.email, pw |-> q.pw, live |-> TRUE]
  <2>1. row \in UserType /\ users \in Seq(UserType)
    BY <1>3 DEF UserType, IInv, TypeOK
  <2>2. /\ users' \in Seq(UserType)
        /\ DOMAIN users' = DOMAIN users \cup {n} /\ n \notin DOMAIN users
        /\ users'[n] = row /\ \A u \in DOMAIN users : users'[u] = users[u]
    BY <1>6, <2>1
  <2>3. Grows
    BY <1>1, <2>2 DEF Grows
  <2>4. PICK r : r = [q EXCEPT !.at = "cacheNew", !.uid = n]
    OBVIOUS
  <2>5. call' = [call EXCEPT ![c] = r]
    BY <1>2, <1>6, <2>4
  <2>6. /\ r.at = "cacheNew" /\ r.uid = n
        /\ r.op = q.op /\ r.email = q.email /\ r.pw = q.pw /\ r.tok = q.tok
        /\ r.gone = q.gone /\ r.late = q.late /\ r.answer = q.answer
    BY <2>4 DEF CallType
  <2>7. q \in CallType' /\ CallTyped(q)' /\ CallSound(q)' /\ CallLate(q)'
    BY <1>2, <2>3, CallKept DEF CallInv
  <2>8. r \in CallType'
    BY <2>2, <2>4, <2>7 DEF CallType, Steps
  <2>9. q.gone \subseteq DOMAIN users /\ n \notin q.gone
    BY <2>2 DEF CallType
  <2>10. CallTyped(r)'
    BY <1>2, <1>3, <2>2, <2>6, <2>7 DEF CallTyped
  <2>11. CallSound(r)'
    BY <1>2, <1>3, <2>2, <2>6, <2>7, <2>9 DEF CallSound
  <2>12. CallLate(r)'
    BY <1>3, <2>6 DEF CallLate
  <2>13. CacheSound' /\ cache' \in [Emails -> EntryType' \cup {NoEntry}]
    BY <1>1, <2>3, CacheKept DEF IInv, redisVars
  <2>14. tokens' \in Seq(DOMAIN users')
    BY <1>1, <2>2 DEF IInv, TypeOK
  <2>15. CallInv(r)'
    BY <2>10, <2>11, <2>12 DEF CallInv
  <2>16. /\ revoked' \subseteq DOMAIN tokens' /\ expired' \subseteq DOMAIN tokens'
         /\ signedOut' \subseteq DOMAIN tokens' /\ signedOut' \subseteq revoked' \cup expired'
    BY <1>1 DEF IInv, TypeOK, redisVars
  <2> QED
    BY <1>4, <2>2, <2>3, <2>5, <2>8, <2>13, <2>14, <2>15, <2>16, StepInv
<1> QED
  BY <1>2, <1>5, <1>6 DEF InsertUser

LEMMA RejectStep ==
  ASSUME IInv, NEW c \in Calls, RejectExpired(c)
  PROVE  IInv'
<1>1. started' \in 0..MaxCalls /\ faults' \in 0..MaxFaults
  BY DEF RejectExpired, IInv, TypeOK
<1> QED
  BY <1>1, AnswerStep DEF RejectExpired

LEMMA SelectAccountStep ==
  ASSUME IInv, NEW c \in Calls, SelectAccount(c)
  PROVE  IInv'
<1>1. /\ started' \in 0..MaxCalls /\ faults' \in 0..MaxFaults
      /\ UNCHANGED <<users, tokens, redisVars, expired, signedOut>>
  BY DEF SelectAccount, IInv, TypeOK
<1>2. PICK q \in CallType : /\ q = call[c] /\ CallTyped(q) /\ CallSound(q) /\ CallLate(q)
                            /\ q.op \in ByPassword \cup {"none"} => ~q.late
  BY Own
<1>3. q.at = "account" /\ q.op = "erase" /\ (q.late => q.blind)
  BY <1>2 DEF SelectAccount, CallTyped, CallLate, CallType
<1>4. CASE Answer(c, "already")
  BY <1>1, <1>2, <1>3, <1>4, AnswerStep
<1>5. CASE Goto(c, "check")
  <2>1. CallInv([q EXCEPT !.at = "check"])
    BY <1>2, <1>3 DEF CallType, CallInv, CallTyped, CallSound, CallLate, ByPassword
  <2> QED
    BY <1>1, <1>2, <1>5, <2>1, GotoStep DEF Steps
<1> QED
  BY <1>4, <1>5 DEF SelectAccount

LEMMA AuthGuardStep ==
  ASSUME IInv, NEW c \in Calls, AuthGuard(c)
  PROVE  IInv'
<1>1. /\ started' \in 0..MaxCalls /\ faults' \in 0..MaxFaults
      /\ UNCHANGED <<users, tokens, redisVars, expired, signedOut>>
  BY FaultType DEF AuthGuard, IInv, TypeOK
<1>2. PICK q \in CallType : /\ q = call[c] /\ CallTyped(q) /\ CallSound(q) /\ CallLate(q)
                            /\ q.op \in ByPassword \cup {"none"} => ~q.late
  BY Own
<1>3. q.at = "guard" /\ q.op \in Guarded /\ q.answer = "none" /\ q.tok \notin expired
  BY <1>2 DEF AuthGuard, CallTyped
<1>4. q.late => q.tok \in revoked
  BY <1>2, <1>3 DEF CallLate, IInv
<1>5. CASE Answer(c, "refused")
  BY <1>1, <1>5, AnswerStep
<1>6. ASSUME NEW b \in BOOLEAN, AfterGuard(c, b), q.late => b
      PROVE  IInv'
  <2> DEFINE next == CASE call[c].op = "use" -> "done"
                       [] call[c].op = "logout" -> "logout"
                       [] call[c].op = "erase" -> "account"
             said == IF call[c].op = "use" THEN "passed" ELSE "none"
  <2>1. PICK seen \in BOOLEAN : seen = (q.blind \/ b)
    BY Zenon
  <2>2. q.late => seen
    BY <1>6, <2>1
  <2>3. PICK r : r = [q EXCEPT !.blind = seen, !.at = next, !.answer = said]
    OBVIOUS
  <2>4. call' = [call EXCEPT ![c].blind = @ \/ b, ![c].at = next, ![c].answer = said]
    BY <1>6 DEF AfterGuard
  <2>6. /\ next \in Steps /\ said \in Answers
        /\ next = "done" <=> q.op = "use"
        /\ next = "logout" <=> q.op = "logout"
        /\ next = "account" <=> q.op = "erase"
        /\ next \in {"done", "logout", "account"}
        /\ said = IF q.op = "use" THEN "passed" ELSE "none"
    BY <1>2, <1>3 DEF Guarded, Steps, Answers
  <2> HIDE DEF next, said
  <2>5. call' = [call EXCEPT ![c] = r]
    BY <1>2, <2>1, <2>3, <2>4
  <2>7. r \in CallType
    BY <2>3, <2>6 DEF CallType
  <2>8. /\ r.at = next /\ r.answer = said /\ (r.late => r.blind)
        /\ r.op = q.op /\ r.email = q.email /\ r.pw = q.pw /\ r.tok = q.tok
        /\ r.gone = q.gone /\ r.late = q.late
    BY <2>2, <2>3 DEF CallType
  <2>9. CallTyped(r)
    BY <1>2, <1>3, <2>6, <2>8 DEF CallTyped, Guarded, ByPassword, ByToken
  <2>10. CallSound(r)
    BY <1>2, <1>3, <2>6, <2>8 DEF CallSound, Guarded
  <2>11. CallLate(r)
    BY <1>2, <2>8 DEF CallLate
  <2>12. CallInv(r)
    BY <2>9, <2>10, <2>11 DEF CallInv
  <2> QED
    BY <1>1, <2>5, <2>7, <2>12, LocalStep
<1> QED
  BY <1>2, <1>4, <1>5, <1>6 DEF AuthGuard

LEMMA IsJtiRevokedStep ==
  ASSUME IInv, NEW c \in Calls, IsJtiRevoked(c)
  PROVE  IInv'
<1>1. /\ started' \in 0..MaxCalls /\ faults' \in 0..MaxFaults
      /\ UNCHANGED <<users, tokens, redisVars, expired, signedOut>>
  BY FaultType DEF IsJtiRevoked, IInv, TypeOK
<1>2. PICK q \in CallType : /\ q = call[c] /\ CallTyped(q) /\ CallSound(q) /\ CallLate(q)
                            /\ q.op \in ByPassword \cup {"none"} => ~q.late
  BY Own
<1>3. /\ q.at = "check" /\ q.op \in {"validate", "refresh", "erase"} /\ q.answer = "none"
      /\ q.op # "erase" => q.tok \notin expired
  BY <1>2 DEF IsJtiRevoked, Unexpired, CallTyped
<1>4. q.late => q.blind \/ q.tok \in revoked
  BY <1>2, <1>3 DEF CallLate, IInv
<1>5. CASE Answer(c, "refused")
  BY <1>1, <1>5, AnswerStep
<1>6. ASSUME NEW b \in BOOLEAN, AfterCheck(c, b), q.late => q.blind \/ b
      PROVE  IInv'
  <2> DEFINE next == IF q.op = "erase" THEN "commit" ELSE "user"
  <2>1. PICK seen \in BOOLEAN : seen = (q.blind \/ b)
    BY Zenon
  <2>2. q.late => seen
    BY <1>6, <2>1
  <2>3. PICK r : r = [q EXCEPT !.blind = seen, !.at = next]
    OBVIOUS
  <2>4. call' = [call EXCEPT ![c] = [call[c] EXCEPT !.blind = @ \/ b, !.at = next]]
    BY <1>2, <1>6 DEF AfterCheck
  <2>5. call' = [call EXCEPT ![c] = r]
    BY <1>2, <2>1, <2>3, <2>4
  <2>6. next \in Steps
    BY DEF Steps
  <2>7. r \in CallType
    BY <2>3, <2>6 DEF CallType
  <2>8. /\ r.at = next /\ r.answer = "none" /\ (r.late => r.blind)
        /\ r.op = q.op /\ r.email = q.email /\ r.pw = q.pw /\ r.tok = q.tok
        /\ r.gone = q.gone /\ r.late = q.late
    BY <1>3, <2>2, <2>3 DEF CallType
  <2>9. CallTyped(r)
    BY <1>2, <1>3, <2>8 DEF CallTyped, Guarded, ByPassword, ByToken
  <2>10. CallSound(r)
    BY <1>2, <1>3, <2>8 DEF CallSound
  <2>11. CallLate(r)
    BY <1>2, <2>8 DEF CallLate
  <2>12. CallInv(r)
    BY <2>9, <2>10, <2>11 DEF CallInv
  <2> QED
    BY <1>1, <2>5, <2>7, <2>12, LocalStep
<1> QED
  BY <1>2, <1>4, <1>5, <1>6 DEF IsJtiRevoked

\* setJtiRevoked, whatever comes of it, and the answer that follows.
LEMMA RevokeStep ==
  ASSUME IInv, NEW c \in Calls, call[c].at \in {"logout", "revokeOwn"},
         NEW done \in BOOLEAN, SetJtiRevoked(call[c].tok, done),
         NEW a \in {"revoked", "notRevoked", "accepted"}, Answer(c, a),
         UNCHANGED <<users, tokens, cache, expired, started>>
  PROVE  IInv'
<1>1. PICK q \in CallType : q = call[c] /\ CallTyped(q) /\ CallSound(q) /\ CallLate(q)
  BY Own
<1>2. q.op \in {"logout", "erase"} /\ q.tok \in DOMAIN tokens /\ (q.late => q.blind)
  BY <1>1 DEF CallTyped, CallLate, CallType, ByToken
<1>3. /\ revoked' \subseteq DOMAIN tokens /\ signedOut' \subseteq DOMAIN tokens
      /\ signedOut \subseteq signedOut' /\ signedOut' \subseteq revoked' \cup expired
  BY <1>1, <1>2 DEF SetJtiRevoked, IInv, TypeOK
<1>4. faults' \in 0..MaxFaults
  BY FaultType DEF SetJtiRevoked, IInv
<1>5. Grows
  BY <1>3 DEF Grows
<1>6. a \in Answers /\ call \in [Calls -> CallType]
  BY DEF IInv, TypeOK, Answers
<1>7. PICK r \in CallType : /\ call' = [call EXCEPT ![c] = r]
                            /\ r = [call[c] EXCEPT !.at = "done", !.answer = a]
  BY <1>6, AnswerEffect
<1>8. /\ r.at = "done" /\ r.answer = a
      /\ r.op = q.op /\ r.email = q.email /\ r.pw = q.pw /\ r.tok = q.tok
      /\ r.gone = q.gone /\ r.late = q.late /\ r.blind = q.blind
  BY <1>1, <1>7 DEF CallType
<1>9. CallInv(r)
  BY <1>1, <1>2, <1>8 DEF CallInv, CallTyped, CallSound, CallLate
<1>10. r \in CallType' /\ CallInv(r)'
  BY <1>5, <1>9, CallKept
<1>11. CacheSound' /\ cache' \in [Emails -> EntryType' \cup {NoEntry}]
  BY <1>5, CacheKept DEF IInv
<1>12. /\ users' \in Seq(UserType) /\ tokens' \in Seq(DOMAIN users')
       /\ expired' \subseteq DOMAIN tokens' /\ started' \in 0..MaxCalls
  BY DEF IInv, TypeOK
<1> QED
  BY <1>3, <1>4, <1>5, <1>7, <1>10, <1>11, <1>12, StepInv

LEMMA LogoutStep ==
  ASSUME IInv, NEW c \in Calls, Logout(c)
  PROVE  IInv'
<1>1. call[c].at = "logout" /\ UNCHANGED <<users, tokens, cache, expired, started>>
  BY DEF Logout
<1>2. ASSUME NEW done \in BOOLEAN, SetJtiRevoked(call[c].tok, done),
             Answer(c, IF done THEN "revoked" ELSE "notRevoked")
      PROVE  IInv'
  <2>1. PICK a \in {"revoked", "notRevoked", "accepted"} : Answer(c, a)
    BY <1>2
  <2> QED
    BY <1>1, <1>2, <2>1, RevokeStep
<1>3. CASE Answer(c, "notRevoked") /\ UNCHANGED <<revoked, signedOut, faults>>
  <2>1. PICK q \in CallType : /\ q = call[c] /\ CallTyped(q) /\ CallSound(q) /\ CallLate(q)
                              /\ q.op \in ByPassword \cup {"none"} => ~q.late
    BY Own
  <2>2. ~call[c].late \/ call[c].blind
    BY <1>1, <2>1 DEF CallLate, CallType
  <2>3. started' \in 0..MaxCalls /\ faults' \in 0..MaxFaults
    BY <1>1, <1>3 DEF IInv, TypeOK
  <2> QED
    BY <1>1, <1>3, <2>2, <2>3, AnswerStep DEF redisVars
<1> QED
  BY <1>2, <1>3 DEF Logout

LEMMA RevokeOwnStep ==
  ASSUME IInv, NEW c \in Calls, RevokeOwnToken(c)
  PROVE  IInv'
BY RevokeStep DEF RevokeOwnToken

LEMMA AnonymizeStep ==
  ASSUME IInv, NEW c \in Calls, Anonymize(c)
  PROVE  IInv'
<1>1. UNCHANGED <<tokens, redisVars, expired, signedOut, started, faults>>
  BY DEF Anonymize
<1>2. PICK q \in CallType : /\ q = call[c] /\ CallTyped(q) /\ CallSound(q) /\ CallLate(q)
                            /\ q.op \in ByPassword \cup {"none"} => ~q.late
  BY Own
<1>3. /\ q.at = "commit" /\ q.op = "erase" /\ q.tok \in DOMAIN tokens
      /\ q.late => q.blind
  BY <1>2 DEF Anonymize, CallTyped, CallLate, CallType, ByToken
<1>4. started' \in 0..MaxCalls /\ faults' \in 0..MaxFaults
  BY <1>1 DEF IInv, TypeOK
<1>5. CASE users' = users /\ Answer(c, "already")
  BY <1>1, <1>2, <1>3, <1>4, <1>5, AnswerStep
<1>6. ASSUME users' = [users EXCEPT ![tokens[q.tok]].live = FALSE],
             call' = [call EXCEPT ![c].at = "invalidate", ![c].email = users[tokens[q.tok]].email]
      PROVE  IInv'
  <2>1. PICK n \in DOMAIN users : n = tokens[q.tok]
    BY <1>3 DEF IInv, TypeOK
  <2>2. users \in Seq(UserType) /\ users[n] \in UserType
    BY DEF IInv, TypeOK
  <2>3. PICK row : row = [users[n] EXCEPT !.live = FALSE]
    OBVIOUS
  <2>4. /\ row \in UserType /\ row.email = users[n].email /\ row.pw = users[n].pw /\ ~row.live
    BY <2>2, <2>3 DEF UserType
  <2>5. users' = [users EXCEPT ![n] = row]
    BY <1>6, <2>1, <2>2, <2>3
  <2>6. /\ users' \in Seq(UserType) /\ DOMAIN users' = DOMAIN users
        /\ users'[n] = row /\ \A u \in DOMAIN users \ {n} : users'[u] = users[u]
    BY <2>2, <2>4, <2>5
  <2>7. Grows
    BY <1>1, <2>4, <2>6 DEF Grows
  <2>8. PICK r : r = [q EXCEPT !.at = "invalidate", !.email = users[n].email]
    OBVIOUS
  <2>9. call' = [call EXCEPT ![c] = r]
    BY <1>2, <1>6, <2>1, <2>8
  <2>10. users[n].email \in Emails
    BY <2>2 DEF UserType
  <2>11. r \in CallType
    BY <2>8, <2>10 DEF CallType, Steps
  <2>12. /\ r.at = "invalidate" /\ r.email = users[n].email
         /\ r.op = q.op /\ r.pw = q.pw /\ r.tok = q.tok /\ r.uid = q.uid
         /\ r.gone = q.gone /\ r.late = q.late /\ r.blind = q.blind /\ r.answer = q.answer
    BY <2>8 DEF CallType
  <2>13. CallInv(r)
    BY <1>2, <1>3, <2>10, <2>12
       DEF CallInv, CallTyped, CallSound, CallLate, Guarded, ByPassword, ByToken
  <2>14. r \in CallType' /\ CallInv(r)'
    BY <2>7, <2>11, <2>13, CallKept
  <2>15. CacheSound' /\ cache' \in [Emails -> EntryType' \cup {NoEntry}]
    BY <1>1, <2>7, CacheKept DEF IInv, redisVars
  <2>16. /\ tokens' \in Seq(DOMAIN users')
         /\ revoked' \subseteq DOMAIN tokens' /\ expired' \subseteq DOMAIN tokens'
         /\ signedOut' \subseteq DOMAIN tokens' /\ signedOut' \subseteq revoked' \cup expired'
    BY <1>1, <2>6 DEF IInv, TypeOK, redisVars
  <2> QED
    BY <1>4, <2>6, <2>7, <2>9, <2>14, <2>15, <2>16, StepInv
<1> QED
  BY <1>2, <1>5, <1>6 DEF Anonymize

\* Dropping a cached record.
LEMMA CacheDropped ==
  ASSUME TypeOK, CacheSound, UNCHANGED users, NEW e \in Emails,
         cache' = [cache EXCEPT ![e] = NoEntry] \/ cache' = cache
  PROVE  CacheSound' /\ cache' \in [Emails -> EntryType' \cup {NoEntry}]
<1>1. cache \in [Emails -> EntryType \cup {NoEntry}] /\ EntryType' = EntryType
  BY DEF TypeOK, EntryType
<1>2. cache' \in [Emails -> EntryType \cup {NoEntry}]
  BY <1>1
<1>3. \A x \in Emails : cache'[x] # NoEntry => cache'[x] = cache[x]
  BY <1>1
<1>4. CacheSound'
  BY <1>3 DEF CacheSound
<1> QED
  BY <1>1, <1>2, <1>4

LEMMA InvalidateStep ==
  ASSUME IInv, NEW c \in Calls, InvalidateUserCache(c)
  PROVE  IInv'
<1>1. /\ started' \in 0..MaxCalls /\ faults' \in 0..MaxFaults
      /\ UNCHANGED <<users, tokens, revoked, expired, signedOut>>
  BY FaultType DEF InvalidateUserCache, IInv, TypeOK
<1>2. PICK q \in CallType : q = call[c] /\ CallTyped(q) /\ CallSound(q) /\ CallLate(q)
  BY Own
<1>3. q.at = "invalidate" /\ q.op = "erase" /\ q.email \in Emails
  BY <1>2 DEF InvalidateUserCache, CallTyped
<1>4. PICK r \in CallType : /\ call' = [call EXCEPT ![c] = r]
                            /\ r = [call[c] EXCEPT !.at = "revokeOwn"]
  BY GotoEffect DEF InvalidateUserCache, IInv, TypeOK, Steps
<1>5. CallInv(r)
  BY <1>2, <1>3, <1>4
     DEF CallType, CallInv, CallTyped, CallSound, CallLate, Guarded, ByPassword
<1>6. Grows
  BY <1>1 DEF Grows
<1>7. r \in CallType' /\ CallInv(r)'
  BY <1>5, <1>6, CallKept
<1>8. CacheSound' /\ cache' \in [Emails -> EntryType' \cup {NoEntry}]
  BY <1>1, <1>2, <1>3, CacheDropped DEF InvalidateUserCache, IInv
<1>9. /\ users' \in Seq(UserType) /\ tokens' \in Seq(DOMAIN users')
      /\ revoked' \subseteq DOMAIN tokens' /\ expired' \subseteq DOMAIN tokens'
      /\ signedOut' \subseteq DOMAIN tokens' /\ signedOut' \subseteq revoked' \cup expired'
  BY <1>1 DEF IInv, TypeOK
<1> QED
  BY <1>1, <1>4, <1>6, <1>7, <1>8, <1>9, StepInv

\* What time does, and the steps that do nothing.
LEMMA TimeStep ==
  ASSUME IInv, UNCHANGED <<users, tokens, signedOut, call, started, faults>>,
         CacheSound', cache' \in [Emails -> EntryType' \cup {NoEntry}],
         revoked' \subseteq DOMAIN tokens, expired' \subseteq DOMAIN tokens,
         signedOut \subseteq revoked' \cup expired'
  PROVE  IInv'
<1>1. TypeOK'
  BY DEF IInv, TypeOK, CallType, EntryType
<1>2. \A c \in Calls : CallInv(call[c])'
  BY DEF IInv, CallInv, CallTyped, CallSound, CallLate
<1> QED
  BY <1>1, <1>2 DEF IInv

LEMMA CacheExpiresStep ==
  ASSUME IInv, NEW e \in Emails, CacheExpires(e)
  PROVE  IInv'
<1>1. CacheSound' /\ cache' \in [Emails -> EntryType' \cup {NoEntry}]
  BY CacheDropped DEF CacheExpires, IInv
<1>2. UNCHANGED <<users, tokens, revoked, expired, signedOut, call, started, faults>>
  BY DEF CacheExpires
<1> QED
  BY <1>1, <1>2, TimeStep DEF IInv, TypeOK

LEMMA TokensExpireStep ==
  ASSUME IInv, NEW t \in DOMAIN tokens, TokenExpires(t) \/ RevocationExpires(t)
  PROVE  IInv'
<1>1. UNCHANGED <<users, tokens, cache, signedOut, call, started, faults>>
  BY DEF TokenExpires, RevocationExpires, redisVars
<1>2. CacheSound' /\ cache' \in [Emails -> EntryType' \cup {NoEntry}]
  BY <1>1 DEF IInv, TypeOK, CacheSound, EntryType
<1>3. /\ revoked' \subseteq DOMAIN tokens /\ expired' \subseteq DOMAIN tokens
      /\ signedOut \subseteq revoked' \cup expired'
  BY DEF IInv, TypeOK, TokenExpires, RevocationExpires, redisVars
<1> QED
  BY <1>1, <1>2, <1>3, TimeStep

LEMMA StutterStep ==
  ASSUME IInv, UNCHANGED vars
  PROVE  IInv'
<1>1. CacheSound' /\ cache' \in [Emails -> EntryType' \cup {NoEntry}]
  BY DEF vars, redisVars, IInv, TypeOK, CacheSound, EntryType
<1> QED
  BY <1>1, TimeStep DEF vars, redisVars, IInv, TypeOK

-----------------------------------------------------------------------------
(* Theorems *)

LEMMA InitIInv == Init => IInv
<1> SUFFICES ASSUME Init PROVE IInv
  OBVIOUS
<1>1. Idle \in CallType
  BY DEF Init, Idle, CallType, Steps, Answers, ByPassword, ByToken
<1>2. TypeOK
  <2>1. started \in 0..MaxCalls /\ faults \in 0..MaxFaults
    BY BoundAssumption DEF Init
  <2>2. call \in [Calls -> CallType]
    BY <1>1 DEF Init
  <2>3. users \in Seq(UserType) /\ tokens \in Seq(DOMAIN users)
    BY DEF Init
  <2> QED
    BY <2>1, <2>2, <2>3 DEF Init, TypeOK
<1>3. CallInv(Idle)
  BY DEF Idle, CallInv, CallTyped, CallSound, CallLate, ByPassword, ByToken
<1>4. \A c \in Calls : CallInv(call[c])
  BY <1>3 DEF Init
<1> QED
  BY <1>2, <1>4 DEF Init, IInv, CacheSound

LEMMA NextIInv ==
  ASSUME IInv, [Next]_vars
  PROVE  IInv'
<1>1. CASE UNCHANGED vars
  BY <1>1, StutterStep
<1>2. ASSUME NEW c \in Calls, Begin(c) \/ Fail(c)
      PROVE  IInv'
  BY <1>2, BeginStep, FailStep
<1>3. ASSUME NEW c \in Calls, Register(c)
      PROVE  IInv'
  BY <1>3, CheckEmailStep, SelectExistingStep, CacheExistingStep, InsertStep, CacheNewStep
     DEF Register
<1>4. ASSUME NEW c \in Calls, Login(c)
      PROVE  IInv'
  BY <1>4, GetUserStep, SelectUserStep, CacheFoundStep, CompareStep DEF Login
<1>5. ASSUME NEW c \in Calls, Token(c)
      PROVE  IInv'
  BY <1>5, RejectStep, AuthGuardStep, IsJtiRevokedStep, SelectTokenUserStep, LogoutStep DEF Token
<1>6. ASSUME NEW c \in Calls, Erase(c)
      PROVE  IInv'
  BY <1>6, SelectAccountStep, AnonymizeStep, InvalidateStep, RevokeOwnStep DEF Erase
<1>7. ASSUME NEW e \in Emails, CacheExpires(e)
      PROVE  IInv'
  BY <1>7, CacheExpiresStep
<1>8. ASSUME NEW t \in DOMAIN tokens, TokenExpires(t) \/ RevocationExpires(t)
      PROVE  IInv'
  BY <1>8, TokensExpireStep
<1> QED
  BY <1>1, <1>2, <1>3, <1>4, <1>5, <1>6, <1>7, <1>8 DEF Next

THEOREM SessionInvariance == Spec => []IInv
<1>1. Init => IInv
  BY InitIInv
<1>2. IInv /\ [Next]_vars => IInv'
  BY NextIInv
<1> QED
  BY <1>1, <1>2, PTL DEF Spec

\* The types of the variables.
THEOREM SessionTypes == Spec => []TypeOK
<1>1. IInv => TypeOK
  BY DEF IInv
<1> QED
  BY <1>1, SessionInvariance, PTL

\* server.ts:521, :871 and the guard of the gateway: a request that begins after
\* the revocation of its token was reported done is refused, unless it could not
\* read the revocation.
THEOREM RevocationHolds == Spec => []SignedOutIsRefused
<1>1. IInv => SignedOutIsRefused
  BY DEF IInv, CallInv, CallLate, SignedOutIsRefused
<1> QED
  BY <1>1, SessionInvariance, PTL

\* server.ts:611 and :705: no token of an account deleted before the request
\* began is valid or exchanged.
THEOREM ErasureEndsSessions == Spec => []ErasedIsRefused
<1>1. IInv => ErasedIsRefused
  BY DEF IInv, CallInv, CallSound, ErasedIsRefused
<1> QED
  BY <1>1, SessionInvariance, PTL

\* server.ts:393-486: a login gets a token only for a user who registered with
\* its e-mail and its password.
THEOREM LoginIsByPassword == Spec => []TokenOfThePassword
<1>1. IInv => TokenOfThePassword
  BY DEF IInv, CallInv, CallSound, TokenOfThePassword
<1> QED
  BY <1>1, SessionInvariance, PTL

Overlap ==
    \A e \in Emails :
        cache'[e] \notin {cache[e], NoEntry} /\ ~users[cache'[e].id].live
            => \E c \in Calls : /\ call[c].email = e
                               /\ call[c].uid = cache'[e].id
                               /\ call[c].uid \notin call[c].gone

\* A step that writes the record of a request writes what the request has read.
LEMMA WriterOverlaps ==
  ASSUME IInv, NEW c \in Calls, call[c].at \in {"cacheExisting", "cacheNew", "cacheFound"},
         NEW h, CacheUser(call[c].email, Record(call[c].uid, h))
  PROVE  Overlap
<1>1. call[c].uid \notin call[c].gone
  BY DEF IInv, CallInv, CallSound
<1>2. ASSUME NEW e \in Emails, cache'[e] \notin {cache[e], NoEntry}
      PROVE  call[c].email = e /\ call[c].uid = cache'[e].id
  <2>1. cache \in [Emails -> EntryType \cup {NoEntry}]
    BY DEF IInv, TypeOK
  <2>2. cache' = [cache EXCEPT ![call[c].email] = Record(call[c].uid, h)]
    BY <1>2 DEF CacheUser
  <2> QED
    BY <1>2, <2>1, <2>2 DEF Record
<1> QED
  BY <1>1, <1>2 DEF Overlap

LEMMA StepsOverlap ==
  ASSUME IInv, [Next]_vars
  PROVE  Overlap
<1>1. cache \in [Emails -> EntryType \cup {NoEntry}]
  BY DEF IInv, TypeOK
<1>2. ASSUME \A e \in Emails : cache'[e] \in {cache[e], NoEntry}
      PROVE  Overlap
  BY <1>2 DEF Overlap
<1>3. CASE UNCHANGED cache
  BY <1>2, <1>3
<1>4. ASSUME NEW c \in Calls, CacheExisting(c) \/ CacheNewUser(c) \/ CacheFoundUser(c)
      PROVE  Overlap
  BY <1>4, WriterOverlaps DEF CacheExisting, CacheNewUser, CacheFoundUser
<1>5. ASSUME NEW e \in Emails, CacheExpires(e)
      PROVE  Overlap
  BY <1>1, <1>2, <1>5 DEF CacheExpires
<1>6. ASSUME NEW c \in Calls, InvalidateUserCache(c)
      PROVE  Overlap
  <2>1. \A e \in Emails : cache'[e] \in {cache[e], NoEntry}
    BY <1>1, <1>6 DEF InvalidateUserCache
  <2> QED
    BY <1>2, <2>1
<1>7. ASSUME NEW c \in Calls, Begin(c) \/ Fail(c)
      PROVE  Overlap
  BY <1>3, <1>7 DEF Begin, Fail, redisVars
<1>8. ASSUME NEW c \in Calls, Register(c)
      PROVE  Overlap
  BY <1>3, <1>4, <1>8
     DEF Register, CheckEmailExistsInCache, SelectExisting, InsertUser, redisVars
<1>9. ASSUME NEW c \in Calls, Login(c)
      PROVE  Overlap
  BY <1>3, <1>4, <1>9 DEF Login, GetUserFromCache, SelectUser, ComparePassword, redisVars
<1>10. ASSUME NEW c \in Calls, Token(c)
       PROVE  Overlap
  BY <1>3, <1>10
     DEF Token, RejectExpired, AuthGuard, IsJtiRevoked, SelectTokenUser, Logout, redisVars
<1>11. ASSUME NEW c \in Calls, Erase(c)
       PROVE  Overlap
  BY <1>3, <1>6, <1>11 DEF Erase, SelectAccount, Anonymize, RevokeOwnToken, redisVars
<1>12. ASSUME NEW t \in DOMAIN tokens, TokenExpires(t) \/ RevocationExpires(t)
       PROVE  Overlap
  BY <1>3, <1>12 DEF TokenExpires, RevocationExpires, redisVars
<1>13. CASE UNCHANGED vars
  BY <1>3, <1>13 DEF vars, redisVars
<1> QED
  BY <1>4, <1>5, <1>7, <1>8, <1>9, <1>10, <1>11, <1>12, <1>13 DEF Next

\* server.ts:427 and :294: the record of a deleted account comes back to the
\* cache only from a request that began before the deletion.
THEOREM RecachedByOverlap == Spec => OnlyOverlapRecaches
<1>1. IInv /\ [Next]_vars => [Overlap]_vars
  BY StepsOverlap
<1>2. Spec => [][Next]_vars
  BY DEF Spec
<1>3. Spec => [][Overlap]_vars
  BY <1>1, <1>2, SessionInvariance, PTL
<1> QED
  BY <1>3 DEF OnlyOverlapRecaches, Overlap
=============================================================================
