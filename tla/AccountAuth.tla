------------------------------ MODULE AccountAuth ------------------------------
(***************************************************************************)
(* The sessions of ONE account: password login with lockout, refresh-token *)
(* rotation with replay detection, logout, in-session password change and  *)
(* the forgotten-password reset.  (services/auth/{login,session,           *)
(* password_change,password_reset}.py and their routers in api/auth.)      *)
(*                                                                         *)
(* No statement of these handlers reaches the rows of another account, so  *)
(* one account is the whole story.  Every handler is a sequence of         *)
(* database transactions under PostgreSQL's READ COMMITTED; an action is   *)
(* one indivisible piece of it:                                            *)
(*   - a SELECT reads the rows committed by then and remembers them;       *)
(*   - a write is visible to the others when its transaction commits, but  *)
(*     the row (or unique index entry) it touched stays locked until then; *)
(*   - DELETE ... WHERE chooses its rows when the statement starts, waits  *)
(*     for the locked ones and skips those that are gone by then: a row    *)
(*     committed after the statement started is not seen.                  *)
(* A request may die at any point (Abort): what it had committed stays.    *)
(***************************************************************************)
EXTENDS Naturals, FiniteSets

CONSTANTS
    Requests,      \* slots for HTTP requests in flight at the same time
    Tokens,        \* refresh-token hashes
    ResetTokens,   \* password-reset-token hashes
    Passwords,     \* passwords a client may send
    NoToken, NoReset, NoPassword,
    Operations,    \* the endpoints the clients of this instance call
    MaxAttempts,   \* _MAX_FAILED_ATTEMPTS
    ResetLimit     \* _EMAIL_RATE_LIMIT_MAX

ASSUME AccountAuthAssumption ==
    /\ NoToken \notin Tokens
    /\ NoReset \notin ResetTokens
    /\ NoPassword \notin Passwords
    /\ Tokens \cap ResetTokens = {}
    /\ Operations \subseteq
         {"login", "refresh", "logout", "change", "forgot", "reset"}
    /\ IsFiniteSet(Requests)
    /\ MaxAttempts \in Nat \ {0}
    /\ ResetLimit \in Nat

VARIABLES
    password,   \* user.hashed_password
    attempts,   \* user.failed_login_attempts
    locked,     \* user.locked_until > now
    live,       \* rows of refreshtoken
    used,       \* rows of usedrefreshtoken
    resets,     \* rows of passwordresettoken
    expired,    \* token hashes whose expires_at has passed
    req,        \* the requests in flight
    \* History variables: no action reads them to decide what to do.
    minted,     \* refresh tokens ever handed out
    parent,     \* the token each token was exchanged for
    consumed,   \* tokens that were exchanged or logged out with
    stale,      \* tokens whose login or parent precedes the latest revocation
    raced,      \* tokens issued while a revocation was running, and their heirs,
                \* as long as no later revocation has chosen their rows
    guesses,    \* wrong passwords compared since the account last (re)opened,
                \* by requests that did not die before recording the failure
    redeemed    \* how often each reset token set a password

tables  == <<password, attempts, locked, live, used, resets, expired>>
history == <<minted, parent, consumed, stale, raced, guesses, redeemed>>
vars    == <<tables, req, history>>

-------------------------------------------------------------------------------
(* The local state of a request.                                           *)

Steps ==
    { "idle",
      "failing", "clearing", "issuing",                  \* POST /auth/login
      "lookup", "rotating", "flushed", "dropping",       \* POST /auth/refresh
      "replayed", "nuking",                              \*   ... on a replay
      "leaving",                                         \* POST /auth/logout
      "changing", "changeSweep",                         \* POST /auth/password
      "requesting",                                      \* POST /forgot-password
      "resetting", "resetSweep", "resetHook" }           \* POST /reset-password

Request ==
    [ step   : Steps,
      tok    : Tokens \cup {NoToken},       \* the refresh cookie it carries
      new    : Tokens \cup {NoToken},       \* the random token it would issue
      reset  : ResetTokens \cup {NoReset},
      pw     : Passwords \cup {NoPassword}, \* the new password it sets
      forget : BOOLEAN,       \* its transaction deletes an expired used row
      doomed : SUBSET Tokens, \* the rows its DELETE statement chose
      stale  : BOOLEAN,       \* history: its credential is stale
      raced  : BOOLEAN ]      \* history: it overlapped a revocation

Idle ==
    [ step |-> "idle", tok |-> NoToken, new |-> NoToken, reset |-> NoReset,
      pw |-> NoPassword, forget |-> FALSE, doomed |-> {},
      stale |-> FALSE, raced |-> FALSE ]

Become(r, record) == req' = [req EXCEPT ![r] = record]

\* secrets.token_urlsafe never repeats: an id no token has and no request holds.
Fresh == {t \in Tokens \ minted : \A q \in Requests : req[q].new # t}

\* The row locks that outlive an action.  A flushed rotation holds the entry of
\* its token in the unique index of usedrefreshtoken and the refreshtoken row;
\* a password UPDATE, flushed before its DELETE, holds the user row.
TokenLocked(t, r) == \E q \in Requests \ {r} : req[q].step = "flushed" /\ req[q].tok = t
UserRowLocked(r)  == \E q \in Requests \ {r} : req[q].step \in {"changeSweep", "resetSweep"}

Sweeping(q) == req[q].step \in {"nuking", "changeSweep", "resetSweep"}

-------------------------------------------------------------------------------
(* The actions.  An operator whose name starts with Bug is not part of the *)
(* specification: it is the mistake that the action after it must not make.*)

(* POST /auth/login.                                                       *)

\* Compares the password without _check_lockout.
BugLoginUnchecked(r, pw) ==
    /\ req[r].step = "idle"
    /\ IF pw = password
       THEN /\ \E n \in Fresh : Become(r, [Idle EXCEPT !.step = "clearing", !.new = n])
            /\ UNCHANGED guesses
       ELSE /\ Become(r, [Idle EXCEPT !.step = "failing"])
            /\ guesses' = guesses + 1
    /\ UNCHANGED <<tables, minted, parent, consumed, stale, raced, redeemed>>

\* SELECT the user, _check_lockout, compare the password with the hash read: no
\* await separates the three.  A locked account is turned away unchanged.
LoginRead(r, pw) ==
    /\ "login" \in Operations
    /\ req[r].step = "idle"
    /\ ~locked
    /\ IF pw = password
       THEN /\ \E n \in Fresh : Become(r, [Idle EXCEPT !.step = "clearing", !.new = n])
            /\ UNCHANGED guesses
       ELSE /\ Become(r, [Idle EXCEPT !.step = "failing"])
            /\ guesses' = guesses + 1
    /\ UNCHANGED <<tables, minted, parent, consumed, stale, raced, redeemed>>

\* One transaction of its own: the atomic UPDATE + 1, the count, the lock.
RecordFailedAttempt(r) ==
    /\ req[r].step = "failing"
    /\ ~UserRowLocked(r)
    /\ IF attempts + 1 >= MaxAttempts
       THEN attempts' = 0 /\ locked' = TRUE
       ELSE attempts' = attempts + 1 /\ UNCHANGED locked
    /\ Become(r, Idle)
    /\ UNCHANGED <<password, live, used, resets, expired, history>>

\* The one UPDATE a successful login and a finished reset both run.
ClearFailedAttempts ==
    /\ attempts' = 0
    /\ locked' = FALSE
    /\ guesses' = 0
    /\ UNCHANGED <<password, live, used, resets, expired,
                   minted, parent, consumed, stale, raced, redeemed>>

ClearAfterLogin(r) ==
    /\ req[r].step = "clearing"
    /\ ~UserRowLocked(r)
    /\ ClearFailedAttempts
    /\ Become(r, [req[r] EXCEPT !.step = "issuing"])

\* INSERT INTO refreshtoken becomes visible: the history of the new token.
Issue(r) ==
    LET new == req[r].new IN
    /\ minted' = minted \cup {new}
    /\ parent' = [parent EXCEPT ![new] = req[r].tok]
    /\ stale'  = IF req[r].stale THEN stale \cup {new} ELSE stale
    /\ raced'  = IF req[r].raced \/ \E q \in Requests \ {r} : Sweeping(q)
                 THEN raced \cup {new} ELSE raced

CreateUserTokens(r) ==
    /\ req[r].step = "issuing"
    /\ live' = live \cup {req[r].new}
    /\ Issue(r)
    /\ Become(r, Idle)
    /\ UNCHANGED <<password, attempts, locked, used, resets, expired,
                   consumed, guesses, redeemed>>

\* locked_until passes; failed_login_attempts is not touched.
LockExpires ==
    /\ locked
    /\ locked' = FALSE
    /\ guesses' = 0
    /\ UNCHANGED <<password, attempts, live, used, resets, expired, req,
                   minted, parent, consumed, stale, raced, redeemed>>

-------------------------------------------------------------------------------
(* POST /auth/refresh.                                                     *)

\* SELECT from usedrefreshtoken.  An unexpired record is a replay ...
RefreshReplayed(r, t) ==
    /\ "refresh" \in Operations
    /\ req[r].step = "idle"
    /\ t \in used \ expired
    /\ Become(r, [Idle EXCEPT !.step = "replayed", !.tok = t])
    /\ UNCHANGED <<tables, history>>

\* ... no record, or an expired one, which this transaction is to delete, is not.
RefreshUnused(r, t) ==
    /\ "refresh" \in Operations
    /\ req[r].step = "idle"
    /\ t \in minted
    /\ t \in used => t \in expired
    /\ \E n \in Fresh :
         Become(r, [Idle EXCEPT !.step = "lookup", !.tok = t, !.new = n,
                                !.forget = (t \in used)])
    /\ UNCHANGED <<tables, history>>

\* SELECT from refreshtoken finds nothing: 401, and the transaction rolls back,
\* with it the deletion of an expired used record.
RefreshMiss(r) ==
    /\ req[r].step = "lookup"
    /\ req[r].tok \notin live
    /\ Become(r, Idle)
    /\ UNCHANGED <<tables, history>>

\* ... or finds the row, which is to be dropped if it has expired.
RefreshHit(r) ==
    /\ req[r].step = "lookup"
    /\ req[r].tok \in live
    /\ Become(r, [req[r] EXCEPT
           !.step = IF req[r].tok \in expired THEN "dropping" ELSE "rotating",
           !.stale = (req[r].tok \in stale),
           !.raced = (req[r].tok \in raced)])
    /\ UNCHANGED <<tables, history>>

\* _delete_refresh_token in a committed session of its own, then 401.
DropExpired(r) ==
    /\ req[r].step = "dropping"
    /\ ~TokenLocked(req[r].tok, r)
    /\ live' = live \ {req[r].tok}
    /\ Become(r, Idle)
    /\ UNCHANGED <<password, attempts, locked, used, resets, expired, history>>

\* usedrefreshtoken.token_hash without its unique index.
BugNoUniqueIndex(r) ==
    /\ req[r].step = "rotating"
    /\ Become(r, [req[r] EXCEPT !.step = "flushed"])
    /\ UNCHANGED <<tables, history>>

\* flush(): INSERT the used record, then DELETE the row.  The INSERT waits for
\* whoever holds the same index entry; finding the hash committed there is an
\* IntegrityError, which rolls everything back.  A DELETE that matches no row
\* is only a warning.
RotateFlush(r) ==
    /\ req[r].step = "rotating"
    /\ ~TokenLocked(req[r].tok, r)
    /\ Become(r, IF req[r].tok \in used /\ ~req[r].forget
                 THEN Idle
                 ELSE [req[r] EXCEPT !.step = "flushed"])
    /\ UNCHANGED <<tables, history>>

\* Stamps the user row (a last_refresh_at) while holding the token's lock.
BugRotateTouchesUser(r) ==
    /\ req[r].step = "flushed"
    /\ ~UserRowLocked(r)
    /\ used' = used \cup {req[r].tok}
    /\ consumed' = consumed \cup {req[r].tok}
    /\ live' = (live \ {req[r].tok}) \cup {req[r].new}
    /\ Issue(r)
    /\ Become(r, Idle)
    /\ UNCHANGED <<password, attempts, locked, resets, expired, guesses, redeemed>>

\* Deletes the row and issues the next token without the used record.
BugRotateUnrecorded(r) ==
    /\ req[r].step = "flushed"
    /\ consumed' = consumed \cup {req[r].tok}
    /\ live' = (live \ {req[r].tok}) \cup {req[r].new}
    /\ Issue(r)
    /\ Become(r, Idle)
    /\ UNCHANGED <<password, attempts, locked, used, resets, expired, guesses, redeemed>>

RotateCommit(r) ==
    /\ req[r].step = "flushed"
    /\ used' = used \cup {req[r].tok}
    /\ consumed' = consumed \cup {req[r].tok}
    /\ live' = (live \ {req[r].tok}) \cup {req[r].new}
    /\ Issue(r)
    /\ Become(r, Idle)
    /\ UNCHANGED <<password, attempts, locked, resets, expired, guesses, redeemed>>

-------------------------------------------------------------------------------
(* Revocations: one DELETE over the rows of the account, committed by the  *)
(* transaction that ran it.                                                *)

\* The statement of request r starts and chooses its rows.
Sweep(r, step, keep) ==
    Become(r, [req[r] EXCEPT !.step = step, !.doomed = live \ keep])

\* Its transaction commits.  Credentials checked before now are stale, except
\* that of the session in keep.
Revoke(r, keep, next) ==
    /\ \A t \in req[r].doomed : ~TokenLocked(t, r)
    /\ live' = live \ req[r].doomed
    /\ stale' = minted \ keep
    /\ raced' = raced \ req[r].doomed
    /\ req' = [q \in Requests |->
                 IF q = r THEN next
                 ELSE IF req[q].step = "idle" THEN req[q]
                 ELSE [req[q] EXCEPT !.stale = TRUE, !.raced = TRUE]]

\* _nuke_user_refresh_tokens: a session of its own, then 401.
NukeStatement(r) ==
    /\ req[r].step = "replayed"
    /\ Sweep(r, "nuking", {})
    /\ UNCHANGED <<tables, history>>

\* Runs in the request's own transaction, which the 401 rolls back.
BugNukeRolledBack(r) ==
    /\ req[r].step = "nuking"
    /\ stale' = minted
    /\ Become(r, Idle)
    /\ UNCHANGED <<tables, minted, parent, consumed, raced, guesses, redeemed>>

NukeCommit(r) ==
    /\ req[r].step = "nuking"
    /\ Revoke(r, {}, Idle)
    /\ UNCHANGED <<password, attempts, locked, used, resets, expired,
                   minted, parent, consumed, guesses, redeemed>>

-------------------------------------------------------------------------------
(* POST /auth/logout.                                                      *)

\* SELECT the row of the cookie; without one there is nothing to do.
LogoutRead(r, t) ==
    /\ "logout" \in Operations
    /\ req[r].step = "idle"
    /\ t \in live
    /\ Become(r, [Idle EXCEPT !.step = "leaving", !.tok = t])
    /\ UNCHANGED <<tables, history>>

\* INSERT the used record and DELETE the row, flushed and committed together.
LogoutCommit(r) ==
    /\ req[r].step = "leaving"
    /\ ~TokenLocked(req[r].tok, r)
    /\ IF req[r].tok \in used
       THEN UNCHANGED <<used, live, consumed>>   \* IntegrityError
       ELSE /\ used' = used \cup {req[r].tok}
            /\ consumed' = consumed \cup {req[r].tok}
            /\ live' = live \ {req[r].tok}
    /\ Become(r, Idle)
    /\ UNCHANGED <<password, attempts, locked, resets, expired,
                   minted, parent, stale, raced, guesses, redeemed>>

-------------------------------------------------------------------------------
(* POST /auth/password.                                                    *)

\* Verify the current password; t is the request's cookie, if it sent one.
ChangeRead(r, pw, t) ==
    /\ "change" \in Operations
    /\ req[r].step = "idle"
    /\ Become(r, [Idle EXCEPT !.step = "changing", !.pw = pw, !.tok = t])
    /\ UNCHANGED <<tables, history>>

\* The new hash is flushed first: one password UPDATE of the user at a time.
ChangeStatement(r) ==
    /\ req[r].step = "changing"
    /\ ~UserRowLocked(r)
    /\ Sweep(r, "changeSweep", {req[r].tok})
    /\ UNCHANGED <<tables, history>>

ChangeCommit(r) ==
    /\ req[r].step = "changeSweep"
    /\ password' = req[r].pw
    /\ Revoke(r, {req[r].tok}, Idle)
    /\ UNCHANGED <<attempts, locked, used, resets, expired,
                   minted, parent, consumed, guesses, redeemed>>

-------------------------------------------------------------------------------
(* POST /auth/forgot-password and /auth/reset-password.                    *)

\* A reset token lives as long as the rate-limit window is wide (one hour
\* each), so the rows the count sees are the unexpired ones.
RecentResets == {k \in ResetTokens : resets[k] # "unborn" /\ k \notin expired}

ForgotRead(r) ==
    /\ "forgot" \in Operations
    /\ req[r].step = "idle"
    /\ Cardinality(RecentResets) < ResetLimit
    /\ \E k \in ResetTokens :
         /\ resets[k] = "unborn"
         /\ \A q \in Requests : req[q].step = "requesting" => req[q].reset # k
         /\ Become(r, [Idle EXCEPT !.step = "requesting", !.reset = k])
    /\ UNCHANGED <<tables, history>>

ForgotCommit(r) ==
    /\ req[r].step = "requesting"
    /\ resets' = [resets EXCEPT ![req[r].reset] = "unused"]
    /\ Become(r, Idle)
    /\ UNCHANGED <<password, attempts, locked, live, used, expired, history>>

ResetRead(r, k, pw) ==
    /\ "reset" \in Operations
    /\ req[r].step = "idle"
    /\ resets[k] = "unused"
    /\ k \notin expired
    /\ Become(r, [Idle EXCEPT !.step = "resetting", !.reset = k, !.pw = pw])
    /\ UNCHANGED <<tables, history>>

ResetStatement(r) ==
    /\ req[r].step = "resetting"
    /\ ~UserRowLocked(r)
    /\ Sweep(r, "resetSweep", {})
    /\ UNCHANGED <<tables, history>>

ResetCommit(r) ==
    /\ req[r].step = "resetSweep"
    /\ password' = req[r].pw
    /\ resets' = [resets EXCEPT ![req[r].reset] = "used"]
    /\ redeemed' = [redeemed EXCEPT ![req[r].reset] = @ + 1]
    /\ Revoke(r, {}, [Idle EXCEPT !.step = "resetHook"])
    /\ UNCHANGED <<attempts, locked, used, expired, minted, parent, consumed, guesses>>

\* The hook deferred until after the commit.
ResetHook(r) ==
    /\ req[r].step = "resetHook"
    /\ ~UserRowLocked(r)
    /\ ClearFailedAttempts
    /\ Become(r, Idle)

-------------------------------------------------------------------------------
(* expires_at passes; a request dies (disconnect, crash, failed hook) and   *)
(* its open transaction rolls back.                                        *)

Expire(t) ==
    /\ t \notin expired
    /\ t \in minted \/ (t \in ResetTokens /\ resets[t] # "unborn")
    /\ expired' = expired \cup {t}
    /\ UNCHANGED <<password, attempts, locked, live, used, resets, req, history>>

Abort(r) ==
    /\ req[r].step # "idle"
    /\ Become(r, Idle)
    /\ guesses' = IF req[r].step = "failing" /\ guesses > 0 THEN guesses - 1 ELSE guesses
    /\ UNCHANGED <<tables, minted, parent, consumed, stale, raced, redeemed>>

-------------------------------------------------------------------------------
Init ==
    /\ password \in Passwords
    /\ attempts = 0
    /\ locked = FALSE
    /\ live = {}
    /\ used = {}
    /\ resets = [k \in ResetTokens |-> "unborn"]
    /\ expired = {}
    /\ req = [r \in Requests |-> Idle]
    /\ minted = {}
    /\ parent = [t \in Tokens |-> NoToken]
    /\ consumed = {}
    /\ stale = {}
    /\ raced = {}
    /\ guesses = 0
    /\ redeemed = [k \in ResetTokens |-> 0]

\* A client starts a request.
Arrive(r) ==
    \/ \E pw \in Passwords : LoginRead(r, pw)
    \/ \E t \in Tokens : RefreshReplayed(r, t) \/ RefreshUnused(r, t)
    \/ \E t \in Tokens : LogoutRead(r, t)
    \/ \E pw \in Passwords, t \in minted \cup {NoToken} : ChangeRead(r, pw, t)
    \/ ForgotRead(r)
    \/ \E k \in ResetTokens, pw \in Passwords : ResetRead(r, k, pw)

\* The server carries it on.
Serve(r) ==
    \/ RecordFailedAttempt(r) \/ ClearAfterLogin(r) \/ CreateUserTokens(r)
    \/ RefreshMiss(r) \/ RefreshHit(r) \/ DropExpired(r)
    \/ RotateFlush(r) \/ RotateCommit(r)
    \/ NukeStatement(r) \/ NukeCommit(r)
    \/ LogoutCommit(r)
    \/ ChangeStatement(r) \/ ChangeCommit(r)
    \/ ForgotCommit(r)
    \/ ResetStatement(r) \/ ResetCommit(r) \/ ResetHook(r)

Next ==
    \/ \E r \in Requests : Arrive(r) \/ Serve(r) \/ Abort(r)
    \/ LockExpires
    \/ \E t \in Tokens \cup ResetTokens : Expire(t)

Spec == Init /\ [][Next]_vars

\* The server finishes what it started, and PostgreSQL serves the waiters of a
\* row lock in turn: a step that is enabled again and again is taken, although
\* others may take the lock in between.  Clients, clocks and crashes owe nothing.
FairSpec == Spec /\ \A r \in Requests : SF_vars(Serve(r))

-------------------------------------------------------------------------------
(* Properties.                                                             *)

\* The rows, the requests and the history have the values they should have.
TypeOK ==
    /\ password \in Passwords
    /\ attempts \in 0..(MaxAttempts - 1)
    /\ locked \in BOOLEAN
    /\ live \subseteq minted
    /\ used \subseteq minted
    /\ resets \in [ResetTokens -> {"unborn", "unused", "used"}]
    /\ expired \subseteq minted \cup ResetTokens
    /\ req \in [Requests -> Request]
    /\ minted \subseteq Tokens
    /\ parent \in [Tokens -> Tokens \cup {NoToken}]
    /\ consumed \subseteq minted
    /\ stale \subseteq minted
    /\ raced \subseteq minted
    /\ guesses \in Nat
    /\ redeemed \in [ResetTokens -> Nat]

\* A refresh token buys at most one successor, however many requests present it
\* at once (two tabs, a retry, a thief): the unique index on the used record is
\* all that serialises the rotations that read the row at the same time.
SingleExchange ==
    \A s, t \in minted : parent[s] = parent[t] /\ parent[s] # NoToken => s = t

\* No committed state has a token both exchangeable and recorded as used: a
\* replay is then either caught or finds nothing, and never a session.
LiveNotUsed == live \cap used = {}

\* After a replay, a password change or a reset, the only sessions left that
\* rest on an earlier credential are those whose login or rotation overlapped
\* the revocation itself (and their heirs).
RevocationHolds == live \cap stale \subseteq raced

\* How many wrong passwords can be compared between two (re)openings of the
\* account: the threshold, plus what was in flight when it was reached.
GuessBudget == guesses <= MaxAttempts - 1 + Cardinality(Requests)

\* No set of requests waits for each other's row locks for ever.
RequestsEnd == \A r \in Requests : req[r].step # "idle" ~> req[r].step = "idle"

\* The handlers implement the single-use store, and a token that has a parent came
\* of an exchange: what was exchanged or logged out with is never exchanged again,
\* in particular by a request that read its row before, and rows come and go only
\* as the store's operations say, each in one step.  The used records are how, not
\* what: whether the record of a token that expired is kept is left open here.
Store == INSTANCE SessionStore WITH issued <- minted, spent <- consumed
StoreRefined ==
    /\ Store!StoreSpec
    /\ [][\A n \in minted' \ minted :
            IF parent'[n] = NoToken THEN Store!Grant(n)
                                    ELSE Store!Exchange(parent'[n], n)]_vars

-------------------------------------------------------------------------------
(* What the documentation says and the code does not do.                   *)

\* password_reset.py:11 and 173: a successful reset revokes every refresh token
\* for the user, so that no leaked password can ride an existing session.
RevocationComplete == live \cap stale = {}

\* session.py:112: expired used-hash records are cleaned up passively, when a
\* refresh with their token is turned away (models.py:135-136 say the same).
ExpiredRecordsCleaned ==
    [][\A r \in Requests : RefreshMiss(r) /\ req[r].forget => req[r].tok \notin used']_vars

\* models.py:193: password-reset tokens are single-use.
ResetTokenSingleUse == \A k \in ResetTokens : redeemed[k] <= 1
================================================================================
