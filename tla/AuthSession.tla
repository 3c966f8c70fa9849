---------------------------- MODULE AuthSession ----------------------------
(***************************************************************************)
(* Accounts, sessions and the user cache of auth-service.                  *)
(*                                                                         *)
(* Redis holds two things for it: a copy of the user's row under its       *)
(* e-mail (redis-cache.ts), which logging in reads before the database,    *)
(* and the ids of revoked tokens (revocation.ts), which auth-service and   *)
(* the gateway's guard look up.  Every failure of Redis is swallowed, and  *)
(* reads as a miss.  A token cannot be taken back otherwise: it is         *)
(* accepted until it expires.                                              *)
(*                                                                         *)
(* Users and tokens are numbered in the order they come to exist.  A call  *)
(* is one request; between two awaits of its handler the other calls run.  *)
(* MaxCalls bounds the requests of a behaviour, MaxFaults the failures.    *)
(***************************************************************************)
EXTENDS Naturals, Sequences

CONSTANTS
    Emails,     \* lower-cased e-mail addresses
    Passwords,
    Calls,      \* how many requests may be in flight: a set of slots
    NoHash,     \* passwordHash "" in a cached record
    NoEntry,    \* no cached record
    MaxCalls,   \* bound on the requests of a behaviour
    MaxFaults   \* bound on its faults

ASSUME HashAssumption  == NoHash \notin Passwords
ASSUME BoundAssumption == MaxCalls \in Nat /\ MaxFaults \in Nat

VARIABLES
    users,      \* auth.users, by id; a deleted row keeps what it held, as history
    tokens,     \* the user each token was signed for, by jti
    cache,      \* user:email:<email>
    revoked,    \* the tokens with a revoked:<jti> key
    expired,    \* the tokens past their exp
    signedOut,  \* history: tokens whose revocation was reported done
    call,       \* local variables of each request
    started,    \* requests so far
    faults      \* faults so far

redisVars == <<cache, revoked>>
vars == <<users, tokens, cache, revoked, expired, signedOut, call, started, faults>>

Idle == [op |-> "none", at |-> "idle", email |-> NoEntry, pw |-> NoHash, tok |-> 0,
         uid |-> 0, hash |-> NoHash, gone |-> {}, late |-> FALSE, blind |-> FALSE,
         answer |-> "none"]

Init ==
    /\ users = <<>>
    /\ tokens = <<>>
    /\ cache = [e \in Emails |-> NoEntry]
    /\ revoked = {}
    /\ expired = {}
    /\ signedOut = {}
    /\ call = [c \in Calls |-> Idle]
    /\ started = 0
    /\ faults = 0

Fault   == faults < MaxFaults /\ faults' = faults + 1
NoFault == faults' = faults

\* SELECT ... WHERE email = ... AND NOT is_deleted.
LiveUsers(e) == {u \in DOMAIN users : users[u].email = e /\ users[u].live}

\* Mutant: a deleted row keeps its e-mail, and the filter is missing.
UsersOf(e) == {u \in DOMAIN users : users[u].email = e}

Goto(c, l)   == call' = [call EXCEPT ![c].at = l]
Answer(c, a) == call' = [call EXCEPT ![c].at = "done", ![c].answer = a]

\* signJwt with a new jti, for user u, and the answer that carries the token.
Sign(c, u) ==
    /\ tokens' = Append(tokens, u)
    /\ call' = [call EXCEPT ![c].at = "done", ![c].answer = "token", ![c].uid = u]

-----------------------------------------------------------------------------
(* Requests *)

ByPassword == {"register", "login"}
ByToken    == {"validate", "refresh", "logout", "erase", "use"}

\* Register, login, validate and refresh are open routes of the gateway; logout,
\* DELETE /account and every other service stand behind its guard.
Entry(op) == CASE op = "register" -> "exists"
               [] op = "login" -> "lookup"
               [] op \in {"validate", "refresh"} -> "check"
               [] op \in {"logout", "erase", "use"} -> "guard"

\* A request arrives.  It remembers, for the properties, which accounts were
\* gone and whether its token was signed out by then.
Begin(c) ==
    /\ call[c].at \in {"idle", "done"}
    /\ started < MaxCalls
    /\ started' = started + 1
    /\ LET new(op) == [Idle EXCEPT !.op = op, !.at = Entry(op),
                                   !.gone = {u \in DOMAIN users : ~users[u].live}]
       IN \/ \E op \in ByPassword, e \in Emails, p \in Passwords :
                call' = [call EXCEPT ![c] = [new(op) EXCEPT !.email = e, !.pw = p]]
          \/ \E op \in ByToken, t \in DOMAIN tokens :
                call' = [call EXCEPT ![c] = [new(op) EXCEPT !.tok = t, !.late = t \in signedOut]]
    /\ UNCHANGED <<users, tokens, redisVars, expired, signedOut, faults>>

\* A statement fails, an answer is lost, or the process ends: whatever was done
\* stays done, and the rest of the handler does not run.
Fail(c) ==
    /\ call[c].at \notin {"idle", "done"}
    /\ Fault
    /\ Answer(c, "error")
    /\ UNCHANGED <<users, tokens, redisVars, expired, signedOut, started>>

-----------------------------------------------------------------------------
(* The cached user record *)

Record(u, h) == [id |-> u, hash |-> h]

\* cacheUser; a failure is swallowed.
CacheUser(e, rec) ==
    \/ cache' = [cache EXCEPT ![e] = rec] /\ NoFault
    \/ cache' = cache /\ Fault

\* The key's TTL runs out.
CacheExpires(e) ==
    /\ cache[e] # NoEntry
    /\ cache' = [cache EXCEPT ![e] = NoEntry]
    /\ UNCHANGED <<users, tokens, revoked, expired, signedOut, call, started, faults>>

-----------------------------------------------------------------------------
(* Register *)

\* checkEmailExistsInCache: a failure says no.
CheckEmailExistsInCache(c) ==
    /\ call[c].at = "exists"
    /\ \/ cache[call[c].email] # NoEntry /\ Answer(c, "conflict") /\ NoFault
       \/ cache[call[c].email] = NoEntry /\ Goto(c, "existing") /\ NoFault
       \/ Goto(c, "existing") /\ Fault
    /\ UNCHANGED <<users, tokens, redisVars, expired, signedOut, started>>

SelectExisting(c) ==
    /\ call[c].at = "existing"
    /\ \/ \E u \in LiveUsers(call[c].email) :
             call' = [call EXCEPT ![c].at = "cacheExisting", ![c].uid = u]
       \/ LiveUsers(call[c].email) = {} /\ Goto(c, "insert")
    /\ UNCHANGED <<users, tokens, redisVars, expired, signedOut, started, faults>>

\* Mutant: caches the hash of the password just submitted.
CacheExistingWithHash(c) ==
    /\ call[c].at = "cacheExisting"
    /\ CacheUser(call[c].email, Record(call[c].uid, call[c].pw))
    /\ Answer(c, "conflict")
    /\ UNCHANGED <<users, tokens, revoked, expired, signedOut, started>>

\* Mutant: the query selects no id to cache.
CacheExistingWithoutId(c) ==
    /\ call[c].at = "cacheExisting"
    /\ CacheUser(call[c].email, Record(0, NoHash))
    /\ Answer(c, "conflict")
    /\ UNCHANGED <<users, tokens, revoked, expired, signedOut, started>>

\* The e-mail is taken: its record is cached without a password hash.
CacheExisting(c) ==
    /\ call[c].at = "cacheExisting"
    /\ CacheUser(call[c].email, Record(call[c].uid, NoHash))
    /\ Answer(c, "conflict")
    /\ UNCHANGED <<users, tokens, revoked, expired, signedOut, started>>

\* INSERT, where the unique index on email has the last word.
InsertUser(c) ==
    /\ call[c].at = "insert"
    /\ \/ /\ LiveUsers(call[c].email) = {}
          /\ users' = Append(users, [email |-> call[c].email, pw |-> call[c].pw, live |-> TRUE])
          /\ call' = [call EXCEPT ![c].at = "cacheNew", ![c].uid = Len(users) + 1]
       \/ /\ LiveUsers(call[c].email) # {}
          /\ users' = users
          /\ Answer(c, "error")
    /\ UNCHANGED <<tokens, redisVars, expired, signedOut, started, faults>>

CacheNewUser(c) ==
    /\ call[c].at = "cacheNew"
    /\ CacheUser(call[c].email, Record(call[c].uid, call[c].pw))
    /\ Sign(c, call[c].uid)
    /\ UNCHANGED <<users, revoked, expired, signedOut, started>>

-----------------------------------------------------------------------------
(* Login *)

\* getUserFromCache: a failure is a miss.  A record without a hash is refused.
GetUserFromCache(c) ==
    /\ call[c].at = "lookup"
    /\ LET rec == cache[call[c].email]
       IN \/ /\ rec # NoEntry
             /\ NoFault
             /\ \/ rec.hash = NoHash /\ Answer(c, "refused")
                \/ /\ rec.hash # NoHash
                   /\ call' = [call EXCEPT ![c].at = "compare", ![c].uid = rec.id,
                                           ![c].hash = rec.hash]
          \/ rec = NoEntry /\ Goto(c, "select") /\ NoFault
          \/ Goto(c, "select") /\ Fault
    /\ UNCHANGED <<users, tokens, redisVars, expired, signedOut, started>>

\* Mutant: finds the row of a deleted account too.
SelectAnyUser(c) ==
    /\ call[c].at = "select"
    /\ \/ \E u \in UsersOf(call[c].email) :
             call' = [call EXCEPT ![c].at = "cacheFound", ![c].uid = u, ![c].hash = users[u].pw]
       \/ UsersOf(call[c].email) = {} /\ Answer(c, "refused")
    /\ UNCHANGED <<users, tokens, redisVars, expired, signedOut, started, faults>>

SelectUser(c) ==
    /\ call[c].at = "select"
    /\ \/ \E u \in LiveUsers(call[c].email) :
             call' = [call EXCEPT ![c].at = "cacheFound", ![c].uid = u, ![c].hash = users[u].pw]
       \/ LiveUsers(call[c].email) = {} /\ Answer(c, "refused")
    /\ UNCHANGED <<users, tokens, redisVars, expired, signedOut, started, faults>>

CacheFoundUser(c) ==
    /\ call[c].at = "cacheFound"
    /\ CacheUser(call[c].email, Record(call[c].uid, call[c].hash))
    /\ Goto(c, "compare")
    /\ UNCHANGED <<users, tokens, revoked, expired, signedOut, started>>

\* comparePassword against whichever record was read; the row is not read again.
ComparePassword(c) ==
    /\ call[c].at = "compare"
    /\ \/ call[c].hash = call[c].pw /\ Sign(c, call[c].uid)
       \/ call[c].hash # call[c].pw /\ Answer(c, "refused") /\ tokens' = tokens
    /\ UNCHANGED <<users, redisVars, expired, signedOut, started, faults>>

-----------------------------------------------------------------------------
(* Tokens *)

\* verifyJwt, where a handler begins with it, of a token that has expired.
RejectExpired(c) ==
    /\ \/ call[c].at \in {"guard", "account"}
       \/ call[c].at = "check" /\ call[c].op # "erase"
    /\ call[c].tok \in expired
    /\ Answer(c, "refused")
    /\ UNCHANGED <<users, tokens, redisVars, expired, signedOut, started, faults>>

Unexpired(c) == call[c].op = "erase" \/ call[c].tok \notin expired

\* What follows the guard, and what follows isJtiRevoked.
AfterGuard(c, blind) ==
    call' = [call EXCEPT ![c].blind = @ \/ blind,
                ![c].at = CASE call[c].op = "use" -> "done"
                            [] call[c].op = "logout" -> "logout"
                            [] call[c].op = "erase" -> "account",
                ![c].answer = IF call[c].op = "use" THEN "passed" ELSE "none"]

AfterCheck(c, blind) ==
    call' = [call EXCEPT ![c].blind = @ \/ blind,
                ![c].at = IF call[c].op = "erase" THEN "commit" ELSE "user"]

\* The gateway's auth guard: a Redis error or half a second without an answer
\* lets the request through.
AuthGuard(c) ==
    /\ call[c].at = "guard"
    /\ call[c].tok \notin expired
    /\ \/ call[c].tok \in revoked /\ Answer(c, "refused") /\ NoFault
       \/ call[c].tok \notin revoked /\ AfterGuard(c, FALSE) /\ NoFault
       \/ AfterGuard(c, TRUE) /\ Fault
    /\ UNCHANGED <<users, tokens, redisVars, expired, signedOut, started>>

\* isJtiRevoked in validate, refresh and DELETE /account: a failure says no.
IsJtiRevoked(c) ==
    /\ call[c].at = "check"
    /\ Unexpired(c)
    /\ \/ call[c].tok \in revoked /\ Answer(c, "refused") /\ NoFault
       \/ call[c].tok \notin revoked /\ AfterCheck(c, FALSE) /\ NoFault
       \/ AfterCheck(c, TRUE) /\ Fault
    /\ UNCHANGED <<users, tokens, redisVars, expired, signedOut, started>>

\* Mutant: the row is not looked at.
SelectNoUser(c) ==
    /\ call[c].at = "user"
    /\ \/ call[c].op = "validate" /\ Answer(c, "valid") /\ tokens' = tokens
       \/ call[c].op = "refresh" /\ Sign(c, tokens[call[c].tok])
    /\ UNCHANGED <<users, redisVars, expired, signedOut, started, faults>>

\* Validate and refresh read the row of the token's user.
SelectTokenUser(c) ==
    /\ call[c].at = "user"
    /\ LET live == users[tokens[call[c].tok]].live
       IN \/ ~live /\ Answer(c, "refused") /\ tokens' = tokens
          \/ live /\ call[c].op = "validate" /\ Answer(c, "valid") /\ tokens' = tokens
          \/ live /\ call[c].op = "refresh" /\ Sign(c, tokens[call[c].tok])
    /\ UNCHANGED <<users, redisVars, expired, signedOut, started, faults>>

-----------------------------------------------------------------------------
(* Logout and DELETE /account *)

\* setJtiRevoked; when it fails the key may be there or not.
SetJtiRevoked(t, done) ==
    \/ done /\ revoked' = revoked \cup {t} /\ signedOut' = signedOut \cup {t} /\ NoFault
    \/ ~done /\ revoked' \in {revoked, revoked \cup {t}} /\ signedOut' = signedOut /\ Fault

\* Every failure answers 200 with revoked: false, verifyJwt's included.
Logout(c) ==
    /\ call[c].at = "logout"
    /\ \/ \E done \in BOOLEAN :
             /\ call[c].tok \notin expired
             /\ SetJtiRevoked(call[c].tok, done)
             /\ Answer(c, IF done THEN "revoked" ELSE "notRevoked")
       \/ /\ call[c].tok \in expired
          /\ Answer(c, "notRevoked")
          /\ UNCHANGED <<revoked, signedOut, faults>>
    /\ UNCHANGED <<users, tokens, cache, expired, started>>

\* The row, before the transaction and without a lock.
SelectAccount(c) ==
    /\ call[c].at = "account"
    /\ call[c].tok \notin expired
    /\ \/ users[tokens[call[c].tok]].live /\ Goto(c, "check")
       \/ ~users[tokens[call[c].tok]].live /\ Answer(c, "already")
    /\ UNCHANGED <<users, tokens, redisVars, expired, signedOut, started, faults>>

\* The transaction, whose row lock orders two of them (AuthOutbox has it in
\* full): the e-mail and the hash go, so no query by e-mail finds the row.
Anonymize(c) ==
    /\ call[c].at = "commit"
    /\ LET u == tokens[call[c].tok]
       IN \/ /\ users[u].live
             /\ users' = [users EXCEPT ![u].live = FALSE]
             /\ call' = [call EXCEPT ![c].at = "invalidate", ![c].email = users[u].email]
          \/ ~users[u].live /\ users' = users /\ Answer(c, "already")
    /\ UNCHANGED <<tokens, redisVars, expired, signedOut, started, faults>>

\* After the commit; a failure is swallowed.
InvalidateUserCache(c) ==
    /\ call[c].at = "invalidate"
    /\ \/ cache' = [cache EXCEPT ![call[c].email] = NoEntry] /\ NoFault
       \/ cache' = cache /\ Fault
    /\ Goto(c, "revokeOwn")
    /\ UNCHANGED <<users, tokens, revoked, expired, signedOut, started>>

\* The token of the request is revoked; the user's other tokens are not.
RevokeOwnToken(c) ==
    /\ call[c].at = "revokeOwn"
    /\ \E done \in BOOLEAN : SetJtiRevoked(call[c].tok, done)
    /\ Answer(c, "accepted")
    /\ UNCHANGED <<users, tokens, cache, expired, started>>

-----------------------------------------------------------------------------
(* Time *)

TokenExpires(t) ==
    /\ t \notin expired
    /\ expired' = expired \cup {t}
    /\ UNCHANGED <<users, tokens, redisVars, signedOut, call, started, faults>>

\* Mutant: a revocation key whose TTL does not depend on exp.
RevocationForgotten(t) ==
    /\ t \in revoked
    /\ revoked' = revoked \ {t}
    /\ UNCHANGED <<users, tokens, cache, expired, signedOut, call, started, faults>>

\* The key's TTL is what was left of the token's life when it was set.
RevocationExpires(t) ==
    /\ t \in revoked
    /\ t \in expired
    /\ revoked' = revoked \ {t}
    /\ UNCHANGED <<users, tokens, cache, expired, signedOut, call, started, faults>>

Register(c) ==
    \/ CheckEmailExistsInCache(c) \/ SelectExisting(c) \/ CacheExisting(c)
    \/ InsertUser(c) \/ CacheNewUser(c)

Login(c) ==
    \/ GetUserFromCache(c) \/ SelectUser(c) \/ CacheFoundUser(c) \/ ComparePassword(c)

Token(c) ==
    \/ RejectExpired(c) \/ AuthGuard(c) \/ IsJtiRevoked(c) \/ SelectTokenUser(c)
    \/ Logout(c)

Erase(c) ==
    \/ SelectAccount(c) \/ Anonymize(c) \/ InvalidateUserCache(c) \/ RevokeOwnToken(c)

Next ==
    \/ \E c \in Calls : Begin(c) \/ Fail(c) \/ Register(c) \/ Login(c) \/ Token(c) \/ Erase(c)
    \/ \E e \in Emails : CacheExpires(e)
    \/ \E t \in DOMAIN tokens : TokenExpires(t) \/ RevocationExpires(t)

Spec == Init /\ [][Next]_vars

-----------------------------------------------------------------------------
(* Properties *)

Steps == {"idle", "exists", "existing", "cacheExisting", "insert", "cacheNew", "lookup",
          "select", "cacheFound", "compare", "check", "guard", "user", "logout", "account",
          "commit", "invalidate", "revokeOwn", "done"}

Answers == {"none", "conflict", "refused", "token", "error", "passed", "valid", "revoked",
            "notRevoked", "already", "accepted"}

UserType  == [email : Emails, pw : Passwords, live : BOOLEAN]
EntryType == [id : DOMAIN users, hash : Passwords \cup {NoHash}]
CallType  == [op : ByPassword \cup ByToken \cup {"none"}, at : Steps,
              email : Emails \cup {NoEntry}, pw : Passwords \cup {NoHash},
              tok : DOMAIN tokens \cup {0}, uid : DOMAIN users \cup {0},
              hash : Passwords \cup {NoHash}, gone : SUBSET DOMAIN users,
              late : BOOLEAN, blind : BOOLEAN, answer : Answers]

\* The types of the variables.
TypeOK ==
    /\ users \in Seq(UserType)
    /\ tokens \in Seq(DOMAIN users)
    /\ cache \in [Emails -> EntryType \cup {NoEntry}]
    /\ revoked \subseteq DOMAIN tokens
    /\ expired \subseteq DOMAIN tokens
    /\ signedOut \subseteq DOMAIN tokens
    /\ call \in [Calls -> CallType]
    /\ started \in 0..MaxCalls
    /\ faults \in 0..MaxFaults

\* server.ts:521, :871 and the guard of the gateway: a request that begins after
\* the revocation of its token was reported done gets nothing but a refusal,
\* whatever expires meanwhile, unless it could not read the revocation.
SignedOutIsRefused ==
    \A c \in Calls : call[c].late /\ ~call[c].blind => call[c].answer \in {"none", "refused", "error"}

\* server.ts:611 and :705: a token of an account deleted before the request
\* began is neither valid nor exchanged for another, with Redis or without.
ErasedIsRefused ==
    \A c \in Calls :
        call[c].op \in {"validate", "refresh"} /\ call[c].answer \in {"valid", "token"}
            => tokens[call[c].tok] \notin call[c].gone

\* server.ts:393-486: whichever copies of rows the cache mixes up, the token a
\* login gets is for a user who registered with that e-mail and that password.
TokenOfThePassword ==
    \A c \in Calls :
        call[c].op = "login" /\ call[c].answer = "token"
            => /\ users[call[c].uid].email = call[c].email
               /\ users[call[c].uid].pw = call[c].pw

\* server.ts:427 and :294: after the invalidation of server.ts:862 the record
\* of a deleted account comes back to the cache only from a request that began
\* before the deletion.
OnlyOverlapRecaches ==
    [][\A e \in Emails :
          cache'[e] \notin {cache[e], NoEntry} /\ ~users[cache'[e].id].live
              => \E c \in Calls : /\ call[c].email = e
                                 /\ call[c].uid = cache'[e].id
                                 /\ call[c].uid \notin call[c].gone]_vars

\* Runbook.md:4159: "deleted user must get 401 on login".
DeletedMustGet401 ==
    \A c \in Calls :
        call[c].op = "login" /\ call[c].answer = "token" => call[c].uid \notin call[c].gone
=============================================================================
