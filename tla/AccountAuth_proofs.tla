--------------------------- MODULE AccountAuth_proofs --------------------------
(***************************************************************************)
(* Proofs about AccountAuth, for all sets of requests, tokens, passwords   *)
(* and endpoints.  The inductive invariant is the conjunction of           *)
(*   TypeOK /\ InFlightOK   what the rows are and what requests remember,  *)
(*   RotationOK             why a token is exchanged once,                 *)
(*   OverlapOK              why a session that outlives a revocation raced *)
(*                          it,                                            *)
(*   BudgetOK               why guesses are bounded.                       *)
(* The second half is about BrowserSession, the other module that rests on *)
(* SessionStore.                                                           *)
(***************************************************************************)
EXTENDS AccountAuth, BrowserSession, FiniteSetTheorems, TLAPS

\* What the handlers in flight rely on.  Only the steps that use a field are
\* constrained; the reserved token ids are new and pairwise different.
InFlightOK ==
    /\ \A r \in Requests :
         /\ req[r].step \in {"lookup", "rotating", "flushed", "dropping", "leaving"}
              => req[r].tok \in minted
         /\ req[r].step \in {"clearing", "issuing", "lookup", "rotating", "flushed"}
              => req[r].new \in Tokens
         /\ req[r].step \in {"clearing", "issuing"} => req[r].tok = NoToken
         /\ req[r].step \in {"changing", "changeSweep", "resetting", "resetSweep"}
              => req[r].pw \in Passwords
         /\ req[r].step \in {"requesting", "resetting", "resetSweep"}
              => req[r].reset \in ResetTokens
         /\ req[r].new # NoToken => req[r].new \notin minted
    /\ \A r, q \in Requests :
         r # q /\ req[r].new # NoToken => req[r].new # req[q].new

\* TypeOK without the requests.
RowsOK ==
    /\ password \in Passwords
    /\ attempts \in 0..(MaxAttempts - 1)
    /\ locked \in BOOLEAN
    /\ live \subseteq minted
    /\ used \subseteq minted
    /\ resets \in [ResetTokens -> {"unborn", "unused", "used"}]
    /\ expired \subseteq minted \cup ResetTokens
    /\ minted \subseteq Tokens
    /\ parent \in [Tokens -> Tokens \cup {NoToken}]
    /\ consumed \subseteq minted
    /\ stale \subseteq minted
    /\ raced \subseteq minted
    /\ guesses \in Nat
    /\ redeemed \in [ResetTokens -> Nat]

-------------------------------------------------------------------------------
(* The updates of a request record that the actions make.                  *)

\* An idle slot holds a request record.
LEMMA IdleIsRequest == Idle \in Request
  BY DEF Idle, Request, Steps

\* Changing the step of a request record gives a request record,
LEMMA UpdateStep ==
  ASSUME NEW q \in Request, NEW s \in Steps
  PROVE  [q EXCEPT !.step = s] \in Request
  BY DEF Request

\* so does changing the step and the two history fields,
LEMMA UpdateHistory ==
  ASSUME NEW q \in Request, NEW s \in Steps, NEW a \in BOOLEAN, NEW b \in BOOLEAN
  PROVE  [q EXCEPT !.step = s, !.stale = a, !.raced = b] \in Request
  BY DEF Request

\* marking it as overlapped by a revocation,
LEMMA UpdateMarked ==
  ASSUME NEW q \in Request
  PROVE  [q EXCEPT !.stale = TRUE, !.raced = TRUE] \in Request
  BY DEF Request

\* noting the rows that a sweep will delete,
LEMMA UpdateDoomed ==
  ASSUME NEW q \in Request, NEW s \in Steps, NEW D \in SUBSET Tokens
  PROVE  [q EXCEPT !.step = s, !.doomed = D] \in Request
  BY DEF Request

\* and beginning a refresh.
LEMMA LookupIsRequest ==
  ASSUME NEW t \in Tokens, NEW n \in Tokens, NEW b \in BOOLEAN
  PROVE  [Idle EXCEPT !.step = "lookup", !.tok = t, !.new = n, !.forget = b] \in Request
  BY DEF Idle, Request, Steps

\* Revoke replaces the record of r and touches only history elsewhere.
LEMMA RevokeRequests ==
  ASSUME TypeOK, NEW r \in Requests, NEW keep, NEW next \in Request,
         Revoke(r, keep, next)
  PROVE  /\ req' \in [Requests -> Request]
         /\ req'[r] = next
         /\ \A q \in Requests \ {r} :
              /\ req'[q].step = req[q].step
              /\ req'[q].tok = req[q].tok
              /\ req'[q].new = req[q].new
              /\ req'[q].reset = req[q].reset
              /\ req'[q].pw = req[q].pw
              /\ req'[q].forget = req[q].forget
              /\ req'[q].doomed = req[q].doomed
              /\ req[q].step # "idle" => req'[q].stale /\ req'[q].raced
<1> DEFINE marked(q) == [req[q] EXCEPT !.stale = TRUE, !.raced = TRUE]
<1>1. req \in [Requests -> Request]
  BY DEF TypeOK
<1>2. ASSUME NEW q \in Requests
      PROVE  /\ marked(q) \in Request
             /\ marked(q).step = req[q].step
             /\ marked(q).tok = req[q].tok
             /\ marked(q).new = req[q].new
             /\ marked(q).reset = req[q].reset
             /\ marked(q).pw = req[q].pw
             /\ marked(q).forget = req[q].forget
             /\ marked(q).doomed = req[q].doomed
             /\ marked(q).stale /\ marked(q).raced
  <2>1. req[q] \in Request
    BY <1>1
  <2>2. marked(q) \in Request
    BY <2>1, UpdateMarked
  <2> QED  BY <2>1, <2>2 DEF Request
<1>3. req' = [q \in Requests |->
                IF q = r THEN next
                ELSE IF req[q].step = "idle" THEN req[q] ELSE marked(q)]
  BY DEF Revoke
<1> HIDE DEF marked
<1> QED  BY <1>1, <1>2, <1>3

-------------------------------------------------------------------------------
(* Type correctness.                                                       *)

\* The first state has its types.
LEMMA TypeInit == Init => TypeOK /\ InFlightOK
<1> SUFFICES ASSUME Init PROVE TypeOK /\ InFlightOK
  OBVIOUS
<1>1. req \in [Requests -> Request]
  BY IdleIsRequest DEF Init
<1>2. attempts \in 0..(MaxAttempts - 1) /\ guesses \in Nat
  BY AccountAuthAssumption DEF Init
<1>3. /\ resets \in [ResetTokens -> {"unborn", "unused", "used"}]
      /\ redeemed \in [ResetTokens -> Nat]
      /\ parent \in [Tokens -> Tokens \cup {NoToken}]
  BY DEF Init
<1>4. TypeOK
  BY <1>1, <1>2, <1>3 DEF Init, TypeOK
<1>5. InFlightOK
  BY DEF Init, InFlightOK, Idle
<1> QED  BY <1>4, <1>5

\* The record a step writes for its request is a request record.
LEMMA RequestType ==
  ASSUME TypeOK, InFlightOK, [Next]_vars
  PROVE  req' \in [Requests -> Request]
<1>0. req \in [Requests -> Request] /\ minted \subseteq Tokens /\ live \subseteq Tokens
  BY DEF TypeOK
<1> USE <1>0, IdleIsRequest DEF Become
<1>1. ASSUME NEW r \in Requests, Arrive(r)
      PROVE  req' \in [Requests -> Request]
  <2>1. ASSUME NEW pw \in Passwords, LoginRead(r, pw)
        PROVE  req' \in [Requests -> Request]
    <3>1. [Idle EXCEPT !.step = "failing"] \in Request
      BY UpdateStep DEF Steps
    <3>2. \A n \in Fresh : [Idle EXCEPT !.step = "clearing", !.new = n] \in Request
      <4>1. Fresh \subseteq Tokens
        BY DEF Fresh
      <4> QED  BY <4>1 DEF Idle, Request, Steps
    <3> QED  BY <2>1, <3>1, <3>2 DEF LoginRead
  <2>2. ASSUME NEW t \in Tokens, RefreshReplayed(r, t)
        PROVE  req' \in [Requests -> Request]
    <3>1. [Idle EXCEPT !.step = "replayed", !.tok = t] \in Request
      BY DEF Idle, Request, Steps
    <3> QED  BY <2>2, <3>1 DEF RefreshReplayed
  <2>3. ASSUME NEW t \in Tokens, RefreshUnused(r, t)
        PROVE  req' \in [Requests -> Request]
    <3>1. \A n \in Fresh : [Idle EXCEPT !.step = "lookup", !.tok = t, !.new = n,
                                        !.forget = (t \in used)] \in Request
      <4> TAKE n \in Fresh
      <4>1. n \in Tokens /\ (t \in used) \in BOOLEAN
        BY DEF Fresh
      <4> QED  BY <4>1, LookupIsRequest, Zenon
    <3> QED  BY <2>3, <3>1 DEF RefreshUnused
  <2>4. ASSUME NEW t \in Tokens, LogoutRead(r, t)
        PROVE  req' \in [Requests -> Request]
    <3>1. [Idle EXCEPT !.step = "leaving", !.tok = t] \in Request
      BY DEF Idle, Request, Steps
    <3> QED  BY <2>4, <3>1 DEF LogoutRead
  <2>5. ASSUME NEW pw \in Passwords, NEW t \in minted \cup {NoToken}, ChangeRead(r, pw, t)
        PROVE  req' \in [Requests -> Request]
    <3>1. [Idle EXCEPT !.step = "changing", !.pw = pw, !.tok = t] \in Request
      BY DEF Idle, Request, Steps
    <3> QED  BY <2>5, <3>1 DEF ChangeRead
  <2>6. ASSUME ForgotRead(r)
        PROVE  req' \in [Requests -> Request]
    <3>1. \A k \in ResetTokens : [Idle EXCEPT !.step = "requesting", !.reset = k] \in Request
      BY DEF Idle, Request, Steps
    <3> QED  BY <2>6, <3>1 DEF ForgotRead
  <2>7. ASSUME NEW k \in ResetTokens, NEW pw \in Passwords, ResetRead(r, k, pw)
        PROVE  req' \in [Requests -> Request]
    <3>1. [Idle EXCEPT !.step = "resetting", !.reset = k, !.pw = pw] \in Request
      BY DEF Idle, Request, Steps
    <3> QED  BY <2>7, <3>1 DEF ResetRead
  <2> QED  BY <1>1, <2>1, <2>2, <2>3, <2>4, <2>5, <2>6, <2>7 DEF Arrive
<1>2. ASSUME NEW r \in Requests, Serve(r)
      PROVE  req' \in [Requests -> Request]
  <2>1. CASE ClearAfterLogin(r)
    BY <2>1, UpdateStep DEF ClearAfterLogin, Steps
  <2>2. CASE RefreshHit(r)
    <3>1. [req[r] EXCEPT
             !.step = IF req[r].tok \in expired THEN "dropping" ELSE "rotating",
             !.stale = (req[r].tok \in stale),
             !.raced = (req[r].tok \in raced)] \in Request
      <4>1. /\ req[r] \in Request
            /\ (IF req[r].tok \in expired THEN "dropping" ELSE "rotating") \in Steps
            /\ (req[r].tok \in stale) \in BOOLEAN
            /\ (req[r].tok \in raced) \in BOOLEAN
        BY DEF Steps
      <4> QED  BY <4>1, UpdateHistory, Zenon
    <3> QED  BY <2>2, <3>1 DEF RefreshHit
  <2>3. CASE RotateFlush(r)
    BY <2>3, UpdateStep DEF RotateFlush, Steps
  <2>4. CASE NukeStatement(r) \/ ChangeStatement(r) \/ ResetStatement(r)
    <3>1. ASSUME NEW s \in {"nuking", "changeSweep", "resetSweep"}, NEW keep,
                 Sweep(r, s, keep)
          PROVE  req' \in [Requests -> Request]
      <4>1. req[r] \in Request /\ s \in Steps /\ live \ keep \in SUBSET Tokens
        BY DEF Steps
      <4>2. [req[r] EXCEPT !.step = s, !.doomed = live \ keep] \in Request
        BY <4>1, UpdateDoomed, Zenon
      <4> QED  BY <3>1, <4>2 DEF Sweep
    <3> QED  BY <2>4, <3>1 DEF NukeStatement, ChangeStatement, ResetStatement
  <2>5. CASE NukeCommit(r) \/ ChangeCommit(r)
    BY <2>5, RevokeRequests DEF NukeCommit, ChangeCommit
  <2>6. CASE ResetCommit(r)
    <3>1. [Idle EXCEPT !.step = "resetHook"] \in Request
      BY UpdateStep DEF Steps
    <3> QED  BY <2>6, <3>1, RevokeRequests DEF ResetCommit
  <2>7. CASE \/ RecordFailedAttempt(r) \/ CreateUserTokens(r) \/ RefreshMiss(r)
             \/ DropExpired(r) \/ RotateCommit(r) \/ LogoutCommit(r)
             \/ ForgotCommit(r) \/ ResetHook(r)
    BY <2>7 DEF RecordFailedAttempt, CreateUserTokens, RefreshMiss, DropExpired,
                RotateCommit, LogoutCommit, ForgotCommit, ResetHook
  <2> QED  BY <1>2, <2>1, <2>2, <2>3, <2>4, <2>5, <2>6, <2>7 DEF Serve
<1>3. ASSUME NEW r \in Requests, Abort(r)
      PROVE  req' \in [Requests -> Request]
  BY <1>3 DEF Abort
<1>4. CASE LockExpires \/ (\E t \in Tokens \cup ResetTokens : Expire(t)) \/ UNCHANGED vars
  BY <1>4 DEF LockExpires, Expire, vars
<1> QED  BY <1>1, <1>2, <1>3, <1>4 DEF Next

\* Every step keeps what the requests in flight rely on.
LEMMA InFlightStep ==
  ASSUME TypeOK, InFlightOK, [Next]_vars
  PROVE  InFlightOK'
<1> USE AccountAuthAssumption DEF InFlightOK, Become
<1>0. req \in [Requests -> Request] /\ minted \subseteq Tokens
  BY DEF TypeOK
<1>1. ASSUME NEW r \in Requests, Arrive(r)
      PROVE  InFlightOK'
  <2> USE <1>0 DEF Idle, Fresh, tables, history
  <2>1. ASSUME NEW pw \in Passwords, LoginRead(r, pw)
        PROVE  InFlightOK'
    <3>1. CASE pw = password
      <4>1. PICK n \in Fresh :
              req' = [req EXCEPT ![r] = [Idle EXCEPT !.step = "clearing", !.new = n]]
        BY <2>1, <3>1 DEF LoginRead
      <4>2. minted' = minted
        BY <2>1 DEF LoginRead
      <4> QED  BY <4>1, <4>2
    <3>2. CASE pw # password
      <4>1. req' = [req EXCEPT ![r] = [Idle EXCEPT !.step = "failing"]] /\ minted' = minted
        BY <2>1, <3>2 DEF LoginRead
      <4> QED  BY <4>1
    <3> QED  BY <3>1, <3>2
  <2>2. ASSUME NEW t \in Tokens, RefreshReplayed(r, t)
        PROVE  InFlightOK'
    BY <2>2 DEF RefreshReplayed, TypeOK
  <2>3. ASSUME NEW t \in Tokens, RefreshUnused(r, t)
        PROVE  InFlightOK'
    BY <2>3 DEF RefreshUnused
  <2>4. ASSUME NEW t \in Tokens, LogoutRead(r, t)
        PROVE  InFlightOK'
    BY <2>4 DEF LogoutRead, TypeOK
  <2>5. ASSUME NEW pw \in Passwords, NEW t \in minted \cup {NoToken}, ChangeRead(r, pw, t)
        PROVE  InFlightOK'
    BY <2>5 DEF ChangeRead
  <2>6. ASSUME ForgotRead(r)
        PROVE  InFlightOK'
    BY <2>6 DEF ForgotRead
  <2>7. ASSUME NEW k \in ResetTokens, NEW pw \in Passwords, ResetRead(r, k, pw)
        PROVE  InFlightOK'
    BY <2>7 DEF ResetRead
  <2> QED  BY <1>1, <2>1, <2>2, <2>3, <2>4, <2>5, <2>6, <2>7 DEF Arrive
<1>2. ASSUME NEW r \in Requests, Serve(r)
      PROVE  InFlightOK'
  <2> USE <1>0 DEF Idle, tables, history
  <2>1. CASE ClearAfterLogin(r)
    BY <2>1 DEF ClearAfterLogin, ClearFailedAttempts
  <2>2. CASE RefreshHit(r)
    BY <2>2 DEF RefreshHit
  <2>3. CASE RotateFlush(r)
    BY <2>3 DEF RotateFlush
  <2>4. CASE NukeStatement(r) \/ ChangeStatement(r) \/ ResetStatement(r)
    <3>1. CASE NukeStatement(r)    BY <3>1 DEF NukeStatement, Sweep
    <3>2. CASE ChangeStatement(r)  BY <3>2 DEF ChangeStatement, Sweep
    <3>3. CASE ResetStatement(r)   BY <3>3 DEF ResetStatement, Sweep
    <3> QED  BY <2>4, <3>1, <3>2, <3>3
  <2>5. CASE NukeCommit(r) \/ ChangeCommit(r)
    <3>1. PICK keep : Revoke(r, keep, Idle) /\ minted' = minted
      BY <2>5 DEF NukeCommit, ChangeCommit
    <3> QED  BY <3>1, RevokeRequests, IdleIsRequest
  <2>6. CASE ResetCommit(r)
    <3>1. [Idle EXCEPT !.step = "resetHook"] \in Request
      BY UpdateStep, IdleIsRequest DEF Steps
    <3>2. Revoke(r, {}, [Idle EXCEPT !.step = "resetHook"]) /\ minted' = minted
      BY <2>6 DEF ResetCommit
    <3> QED  BY <3>1, <3>2, RevokeRequests
  <2>7. CASE CreateUserTokens(r) \/ RotateCommit(r)
    BY <2>7 DEF CreateUserTokens, RotateCommit, Issue
  <2>8. CASE \/ RecordFailedAttempt(r) \/ RefreshMiss(r) \/ DropExpired(r)
             \/ LogoutCommit(r) \/ ForgotCommit(r) \/ ResetHook(r)
    <3>1. req' = [req EXCEPT ![r] = Idle] /\ minted' = minted
      BY <2>8 DEF RecordFailedAttempt, RefreshMiss, DropExpired, LogoutCommit,
                  ForgotCommit, ResetHook, ClearFailedAttempts
    <3> QED  BY <3>1
  <2> QED  BY <1>2, <2>1, <2>2, <2>3, <2>4, <2>5, <2>6, <2>7, <2>8 DEF Serve
<1>3. ASSUME NEW r \in Requests, Abort(r)
      PROVE  InFlightOK'
  BY <1>0, <1>3 DEF Abort, Idle
<1>4. CASE LockExpires \/ (\E t \in Tokens \cup ResetTokens : Expire(t)) \/ UNCHANGED vars
  BY <1>4 DEF LockExpires, Expire, vars, history
<1> QED  BY <1>1, <1>2, <1>3, <1>4 DEF Next

\* Every step keeps the types of the tables.
LEMMA RowsStep ==
  ASSUME TypeOK, InFlightOK, [Next]_vars
  PROVE  RowsOK'
<1> USE DEF RowsOK, tables, history
<1>0. RowsOK /\ req \in [Requests -> Request]
  BY DEF TypeOK
<1>a. 0 \in 0..(MaxAttempts - 1) /\ MaxAttempts \in Nat
  BY AccountAuthAssumption
<1> USE <1>0
<1>1. ASSUME NEW r \in Requests, Arrive(r)
      PROVE  RowsOK'
  <2>1. ASSUME NEW pw \in Passwords, LoginRead(r, pw)
        PROVE  RowsOK'
    <3>1. guesses' = guesses \/ guesses' = guesses + 1
      BY <2>1 DEF LoginRead
    <3>2. guesses' \in Nat
      BY <3>1
    <3> QED  BY <2>1, <3>2 DEF LoginRead
  <2>2. CASE UNCHANGED <<tables, history>>
    BY <2>2
  <2> QED  BY <1>1, <2>1, <2>2 DEF Arrive, RefreshReplayed, RefreshUnused,
              LogoutRead, ChangeRead, ForgotRead, ResetRead
<1>2. ASSUME NEW r \in Requests, Serve(r)
      PROVE  RowsOK'
  <2>1. CASE RecordFailedAttempt(r)
    <3>1. attempts' \in 0..(MaxAttempts - 1)
      BY <2>1, <1>a DEF RecordFailedAttempt
    <3>2. locked' \in BOOLEAN
      BY <2>1 DEF RecordFailedAttempt
    <3> QED  BY <2>1, <3>1, <3>2 DEF RecordFailedAttempt
  <2>2. CASE ClearAfterLogin(r) \/ ResetHook(r)
    <3>1. ClearFailedAttempts
      BY <2>2 DEF ClearAfterLogin, ResetHook
    <3> QED  BY <3>1, <1>a DEF ClearFailedAttempts
  <2>3. CASE CreateUserTokens(r)
    BY <2>3, AccountAuthAssumption DEF CreateUserTokens, Issue, InFlightOK
  <2>4. CASE RotateCommit(r)
    BY <2>4 DEF RotateCommit, Issue, InFlightOK
  <2>5. CASE DropExpired(r)
    BY <2>5 DEF DropExpired
  <2>6. CASE LogoutCommit(r)
    BY <2>6 DEF LogoutCommit, InFlightOK
  <2>7. CASE NukeCommit(r)
    BY <2>7 DEF NukeCommit, Revoke
  <2>8. CASE ChangeCommit(r)
    BY <2>8 DEF ChangeCommit, Revoke, InFlightOK
  <2>9. CASE ForgotCommit(r)
    BY <2>9 DEF ForgotCommit, InFlightOK
  <2>10. CASE ResetCommit(r)
    <3>1. resets' \in [ResetTokens -> {"unborn", "unused", "used"}]
      BY <2>10 DEF ResetCommit
    <3>2. redeemed' \in [ResetTokens -> Nat]
      BY <2>10 DEF ResetCommit, InFlightOK
    <3>3. password' \in Passwords
      BY <2>10 DEF ResetCommit, InFlightOK
    <3> QED  BY <2>10, <3>1, <3>2, <3>3 DEF ResetCommit, Revoke
  <2>11. CASE UNCHANGED <<tables, history>>
    BY <2>11
  <2> QED  BY <1>2, <2>1, <2>2, <2>3, <2>4, <2>5, <2>6, <2>7, <2>8, <2>9, <2>10,
              <2>11 DEF Serve, RefreshMiss, RefreshHit, RotateFlush,
              NukeStatement, ChangeStatement, ResetStatement
<1>3. ASSUME NEW r \in Requests, Abort(r)
      PROVE  RowsOK'
  <2>1. guesses' \in Nat
    BY <1>3 DEF Abort
  <2> QED  BY <1>3, <2>1 DEF Abort
<1>4. CASE LockExpires
  BY <1>4 DEF LockExpires
<1>5. ASSUME NEW t \in Tokens \cup ResetTokens, Expire(t)
      PROVE  RowsOK'
  BY <1>5 DEF Expire
<1>6. CASE UNCHANGED vars
  BY <1>6 DEF vars
<1> QED  BY <1>1, <1>2, <1>3, <1>4, <1>5, <1>6 DEF Next

\* The tables hold what they should: tokens and records of tokens handed out,
\* a failure count that never reaches the threshold, requests in their steps.
THEOREM TypeCorrect == Spec => [](TypeOK /\ InFlightOK)
<1>1. TypeOK /\ InFlightOK /\ [Next]_vars => TypeOK' /\ InFlightOK'
  <2> SUFFICES ASSUME TypeOK, InFlightOK, [Next]_vars
               PROVE  TypeOK' /\ InFlightOK'
    OBVIOUS
  <2> QED  BY RequestType, InFlightStep, RowsStep DEF TypeOK, RowsOK
<1> QED  BY TypeInit, <1>1, PTL DEF Spec
-------------------------------------------------------------------------------
(* Single use.  A rotation may insert its used record because it holds the *)
(* index entry of the token and no record is there; it never runs on an    *)
(* expired record, for a token that has one is no longer live.             *)

Rotating == {"rotating", "flushed", "dropping"}

RotationOK ==
    /\ LiveNotUsed
    /\ SingleExchange
    /\ \A t \in minted : parent[t] # NoToken => parent[t] \in used
    /\ \A r \in Requests :
         /\ req[r].step \in Rotating => ~req[r].forget
         /\ req[r].step = "lookup" /\ req[r].forget => req[r].tok \in used
         /\ req[r].step = "flushed" => req[r].tok \notin used
    /\ \A r, q \in Requests :
         /\ req[r].step = "flushed"
         /\ req[q].step = "flushed"
         /\ req[r].tok = req[q].tok
         => r = q

\* A step that neither records a used token nor issues one, and that takes its
\* request r out of every rotation.
OffRotation(r) ==
    /\ used' = used /\ minted' = minted /\ parent' = parent
    /\ live' \subseteq live
    /\ req'[r].step \notin Rotating \cup {"lookup"}
    /\ \A q \in Requests \ {r} :
         /\ req'[q].step = req[q].step
         /\ req'[q].tok = req[q].tok
         /\ req'[q].forget = req[q].forget

\* A step that leaves the token tables and the rotations alone keeps RotationOK.
LEMMA QuietRotation ==
  ASSUME NEW r \in Requests, RotationOK, OffRotation(r)
  PROVE  RotationOK'
<1> USE DEF RotationOK, OffRotation, Rotating
<1>1. LiveNotUsed' /\ SingleExchange'
  BY DEF LiveNotUsed, SingleExchange
<1>2. \A t \in minted' : parent'[t] # NoToken => parent'[t] \in used'
  OBVIOUS
<1>3. \A q \in Requests :
        /\ req'[q].step \in Rotating => ~req'[q].forget
        /\ req'[q].step = "lookup" /\ req'[q].forget => req'[q].tok \in used'
        /\ req'[q].step = "flushed" => req'[q].tok \notin used'
  <2> TAKE q \in Requests
  <2> QED  BY q = r \/ q # r
<1>4. \A p, q \in Requests :
         /\ req'[p].step = "flushed"
         /\ req'[q].step = "flushed"
         /\ req'[p].tok = req'[q].tok
         => p = q
  <2> TAKE p, q \in Requests
  <2>1. CASE p = r \/ q = r
    BY <2>1
  <2>2. CASE p # r /\ q # r
    BY <2>2
  <2> QED  BY <2>1, <2>2
<1> QED  BY <1>1, <1>2, <1>3, <1>4

\* A step of r that leaves its request in a rotation changes no row.
LEMMA RotatingStep ==
  ASSUME NEW r \in Requests, RotationOK,
         UNCHANGED <<live, used, minted, parent>>,
         \A q \in Requests \ {r} : req'[q] = req[q],
         req'[r].step \in Rotating => ~req'[r].forget,
         req'[r].step = "lookup" /\ req'[r].forget => req'[r].tok \in used,
         req'[r].step = "flushed" =>
             req'[r].tok \notin used /\ ~TokenLocked(req'[r].tok, r)
  PROVE  RotationOK'
<1> USE DEF RotationOK, Rotating
<1>1. LiveNotUsed' /\ SingleExchange'
  BY DEF LiveNotUsed, SingleExchange
<1>2. \A t \in minted' : parent'[t] # NoToken => parent'[t] \in used'
  OBVIOUS
<1>3. \A q \in Requests :
        /\ req'[q].step \in Rotating => ~req'[q].forget
        /\ req'[q].step = "lookup" /\ req'[q].forget => req'[q].tok \in used'
        /\ req'[q].step = "flushed" => req'[q].tok \notin used'
  <2> TAKE q \in Requests
  <2> QED  BY q = r \/ q # r
<1>4. \A p, q \in Requests :
         /\ req'[p].step = "flushed"
         /\ req'[q].step = "flushed"
         /\ req'[p].tok = req'[q].tok
         => p = q
  <2> TAKE p, q \in Requests
  <2>1. CASE p = r /\ q # r
    BY <2>1 DEF TokenLocked
  <2>2. CASE p # r /\ q = r
    BY <2>2 DEF TokenLocked
  <2>3. CASE p # r /\ q # r
    BY <2>3
  <2> QED  BY <2>1, <2>2, <2>3
<1> QED  BY <1>1, <1>2, <1>3, <1>4

\* A token handed out for nothing (a login) or for one that has no successor.
LEMMA IssueRotation ==
  ASSUME TypeOK, InFlightOK, RotationOK, NEW r \in Requests,
         Issue(r), Become(r, Idle),
         \/ req[r].step = "issuing" /\ used' = used /\ live' = live \cup {req[r].new}
         \/ /\ req[r].step = "flushed"
            /\ used' = used \cup {req[r].tok}
            /\ live' = (live \ {req[r].tok}) \cup {req[r].new}
  PROVE  RotationOK'
<1> DEFINE new == req[r].new
           tok == req[r].tok
<1>1. /\ new \in Tokens \ minted /\ new # NoToken
      /\ tok = NoToken \/ (req[r].step = "flushed" /\ tok \in minted \ used)
      /\ minted' = minted \cup {new} /\ parent' = [parent EXCEPT ![new] = tok]
      /\ used' \subseteq used \cup {tok} /\ used \subseteq used'
      /\ tok # NoToken => tok \in used'
  BY AccountAuthAssumption DEF Issue, InFlightOK, RotationOK
<1>2. /\ req'[r].step = "idle"
      /\ \A q \in Requests \ {r} : req'[q] = req[q]
  BY DEF Become, Idle, TypeOK
<1>3. /\ live \subseteq minted /\ used \subseteq minted /\ minted \subseteq Tokens
      /\ parent \in [Tokens -> Tokens \cup {NoToken}]
  BY DEF TypeOK
<1>4. LiveNotUsed'
  BY <1>1, <1>3 DEF RotationOK, LiveNotUsed
<1>5. /\ parent'[new] = tok
      /\ \A t \in minted : parent'[t] = parent[t]
  BY <1>1, <1>3
<1>6. \A t \in minted' : parent'[t] # NoToken => parent'[t] \in used'
  BY <1>1, <1>5 DEF RotationOK
<1>7. \A t \in minted : parent[t] # NoToken => parent[t] # tok
  BY <1>1 DEF RotationOK
<1>8. SingleExchange'
  BY <1>1, <1>5, <1>7 DEF RotationOK, SingleExchange
<1>9. \A q \in Requests :
        /\ req'[q].step \in Rotating => ~req'[q].forget
        /\ req'[q].step = "lookup" /\ req'[q].forget => req'[q].tok \in used'
        /\ req'[q].step = "flushed" => req'[q].tok \notin used'
  <2> TAKE q \in Requests
  <2>1. CASE q = r
    BY <1>2, <2>1 DEF Rotating
  <2>2. CASE q # r
    <3>1. req'[q] = req[q]
      BY <1>2, <2>2
    <3>2. req[q].step = "flushed" => req[q].tok # tok \/ tok = NoToken
      BY <1>1, <2>2 DEF RotationOK
    <3>3. req[q].step = "flushed" => req[q].tok \in minted
      BY DEF InFlightOK
    <3>4. NoToken \notin minted
      BY <1>3, AccountAuthAssumption
    <3> QED  BY <1>1, <3>1, <3>2, <3>3, <3>4 DEF RotationOK
  <2> QED  BY <2>1, <2>2
<1>10. \A p, q \in Requests :
         /\ req'[p].step = "flushed"
         /\ req'[q].step = "flushed"
         /\ req'[p].tok = req'[q].tok
         => p = q
  BY <1>2 DEF RotationOK
<1> QED  BY <1>4, <1>6, <1>8, <1>9, <1>10 DEF RotationOK

\* So does a logout, which only deletes a row.
LEMMA LogoutRotation ==
  ASSUME TypeOK, InFlightOK, RotationOK, NEW r \in Requests, LogoutCommit(r)
  PROVE  RotationOK'
<1>1. /\ req'[r].step = "idle" /\ req[r].step = "leaving"
      /\ \A q \in Requests \ {r} : req'[q] = req[q]
      /\ UNCHANGED <<minted, parent>>
      /\ ~TokenLocked(req[r].tok, r)
  BY DEF LogoutCommit, Become, Idle, TypeOK, history
<1>2. /\ used \subseteq used' /\ used' \subseteq used \cup {req[r].tok}
      /\ live' \subseteq live
      /\ live' \cap used' = {}
  BY DEF LogoutCommit, RotationOK, LiveNotUsed
<1>3. LiveNotUsed' /\ SingleExchange'
  BY <1>1, <1>2 DEF LiveNotUsed, SingleExchange, RotationOK
<1>4. \A t \in minted' : parent'[t] # NoToken => parent'[t] \in used'
  BY <1>1, <1>2 DEF RotationOK
<1>5. \A q \in Requests :
        /\ req'[q].step \in Rotating => ~req'[q].forget
        /\ req'[q].step = "lookup" /\ req'[q].forget => req'[q].tok \in used'
        /\ req'[q].step = "flushed" => req'[q].tok \notin used'
  <2> TAKE q \in Requests
  <2>1. CASE q = r
    BY <1>1, <2>1 DEF Rotating
  <2>2. CASE q # r
    BY <1>1, <1>2, <2>2 DEF RotationOK, TokenLocked
  <2> QED  BY <2>1, <2>2
<1>6. \A p, q \in Requests :
         /\ req'[p].step = "flushed"
         /\ req'[q].step = "flushed"
         /\ req'[p].tok = req'[q].tok
         => p = q
  BY <1>1 DEF RotationOK
<1> QED  BY <1>3, <1>4, <1>5, <1>6 DEF RotationOK

\* Every step keeps RotationOK.
LEMMA RotationStep ==
  ASSUME TypeOK, InFlightOK, RotationOK, [Next]_vars
  PROVE  RotationOK'
<1>0. req \in [Requests -> Request]
  BY DEF TypeOK
<1>1. ASSUME NEW r \in Requests, Arrive(r)
      PROVE  RotationOK'
  <2> USE <1>0 DEF Become, Idle, tables, history, Rotating
  <2>1. ASSUME NEW pw \in Passwords, LoginRead(r, pw)
        PROVE  RotationOK'
    <3>1. OffRotation(r)
      <4>1. CASE pw = password
        BY <2>1, <4>1 DEF LoginRead, OffRotation
      <4>2. CASE pw # password
        BY <2>1, <4>2 DEF LoginRead, OffRotation
      <4> QED  BY <4>1, <4>2
    <3> QED  BY <3>1, QuietRotation
  <2>2. ASSUME NEW t \in Tokens, RefreshUnused(r, t)
        PROVE  RotationOK'
    <3>1. /\ req'[r].step = "lookup" /\ req'[r].tok = t /\ req'[r].forget = (t \in used)
          /\ \A q \in Requests \ {r} : req'[q] = req[q]
          /\ UNCHANGED <<live, used, minted, parent>>
      BY <2>2 DEF RefreshUnused
    <3> QED  BY <3>1, RotatingStep
  <2>3. CASE \/ \E t \in Tokens : RefreshReplayed(r, t) \/ LogoutRead(r, t)
             \/ \E pw \in Passwords, t \in minted \cup {NoToken} : ChangeRead(r, pw, t)
             \/ ForgotRead(r)
             \/ \E k \in ResetTokens, pw \in Passwords : ResetRead(r, k, pw)
    <3> USE <1>0 DEF OffRotation
    <3>1. ASSUME NEW t \in Tokens, RefreshReplayed(r, t)
          PROVE  OffRotation(r)
      BY <3>1 DEF RefreshReplayed
    <3>2. ASSUME NEW t \in Tokens, LogoutRead(r, t)
          PROVE  OffRotation(r)
      BY <3>2 DEF LogoutRead
    <3>3. ASSUME NEW pw \in Passwords, NEW t \in minted \cup {NoToken}, ChangeRead(r, pw, t)
          PROVE  OffRotation(r)
      BY <3>3 DEF ChangeRead
    <3>4. ASSUME ForgotRead(r)
          PROVE  OffRotation(r)
      BY <3>4 DEF ForgotRead
    <3>5. ASSUME NEW k \in ResetTokens, NEW pw \in Passwords, ResetRead(r, k, pw)
          PROVE  OffRotation(r)
      BY <3>5 DEF ResetRead
    <3> HIDE DEF OffRotation
    <3> QED  BY <2>3, <3>1, <3>2, <3>3, <3>4, <3>5, QuietRotation
  <2> QED  BY <1>1, <2>1, <2>2, <2>3 DEF Arrive
<1>2. ASSUME NEW r \in Requests, Serve(r)
      PROVE  RotationOK'
  <2> USE <1>0 DEF Become, Idle, tables, history, Rotating
  <2>1. CASE RefreshHit(r)
    <3>1. /\ req'[r].step \in {"dropping", "rotating"} /\ req'[r].forget = req[r].forget
          /\ \A q \in Requests \ {r} : req'[q] = req[q]
          /\ UNCHANGED <<live, used, minted, parent>>
      BY <2>1 DEF RefreshHit
    <3>2. ~req[r].forget
      BY <2>1 DEF RefreshHit, RotationOK, LiveNotUsed
    <3> QED  BY <3>1, <3>2, RotatingStep
  <2>2. CASE RotateFlush(r)
    <3>1. ~req[r].forget
      BY <2>2 DEF RotateFlush, RotationOK
    <3>2. CASE req[r].tok \in used
      <4>1. OffRotation(r)
        BY <2>2, <3>1, <3>2 DEF RotateFlush, OffRotation
      <4> QED  BY <4>1, QuietRotation
    <3>3. CASE req[r].tok \notin used
      <4>0. /\ req' = [req EXCEPT ![r] = [req[r] EXCEPT !.step = "flushed"]]
            /\ UNCHANGED <<live, used, minted, parent>>
            /\ ~TokenLocked(req[r].tok, r)
        BY <2>2, <3>3 DEF RotateFlush
      <4>1. /\ req'[r].step = "flushed" /\ req'[r].forget = req[r].forget
            /\ req'[r].tok = req[r].tok
            /\ \A q \in Requests \ {r} : req'[q] = req[q]
        BY <4>0 DEF Request
      <4> QED  BY <4>0, <4>1, <3>1, <3>3, RotatingStep
    <3> QED  BY <3>2, <3>3
  <2>3. CASE CreateUserTokens(r) \/ RotateCommit(r)
    <3> QED  BY <2>3, IssueRotation DEF CreateUserTokens, RotateCommit
  <2>4. CASE LogoutCommit(r)
    BY <2>4, LogoutRotation
  <2>5. CASE NukeCommit(r) \/ ChangeCommit(r) \/ ResetCommit(r)
    <3>0. ASSUME NEW keep, NEW next \in Request, Revoke(r, keep, next),
                 next.step \notin Rotating \cup {"lookup"},
                 UNCHANGED <<used, minted, parent>>
          PROVE  RotationOK'
      <4>1. live' \subseteq live
        BY <3>0 DEF Revoke
      <4>2. OffRotation(r)
        BY <3>0, <4>1, RevokeRequests DEF OffRotation
      <4> QED  BY <4>2, QuietRotation
    <3>1. CASE NukeCommit(r)
      BY <3>0, <3>1, IdleIsRequest DEF NukeCommit
    <3>2. CASE ChangeCommit(r)
      BY <3>0, <3>2, IdleIsRequest DEF ChangeCommit
    <3>3. CASE ResetCommit(r)
      <4>1. [Idle EXCEPT !.step = "resetHook"] \in Request
        BY UpdateStep, IdleIsRequest DEF Steps
      <4> QED  BY <3>0, <3>3, <4>1 DEF ResetCommit
    <3> QED  BY <2>5, <3>1, <3>2, <3>3
  <2>6. CASE NukeStatement(r) \/ ChangeStatement(r) \/ ResetStatement(r)
    <3>0. ASSUME NEW s \in {"nuking", "changeSweep", "resetSweep"}, NEW keep,
                 Sweep(r, s, keep), UNCHANGED <<live, used, minted, parent>>
          PROVE  RotationOK'
      <4>1. OffRotation(r)
        BY <3>0 DEF Sweep, OffRotation, Request
      <4> QED  BY <4>1, QuietRotation
    <3>1. CASE NukeStatement(r)
      BY <3>0, <3>1 DEF NukeStatement
    <3>2. CASE ChangeStatement(r)
      BY <3>0, <3>2 DEF ChangeStatement
    <3>3. CASE ResetStatement(r)
      BY <3>0, <3>3 DEF ResetStatement
    <3> QED  BY <2>6, <3>1, <3>2, <3>3
  <2>7. CASE ClearAfterLogin(r)
    <3>1. OffRotation(r)
      BY <2>7 DEF ClearAfterLogin, ClearFailedAttempts, OffRotation
    <3> QED  BY <3>1, QuietRotation
  <2>8. CASE \/ RecordFailedAttempt(r) \/ RefreshMiss(r) \/ DropExpired(r)
             \/ ForgotCommit(r) \/ ResetHook(r)
    <3>1. OffRotation(r)
      BY <2>8 DEF RecordFailedAttempt, RefreshMiss, DropExpired, ForgotCommit,
                  ResetHook, ClearFailedAttempts, OffRotation
    <3> QED  BY <3>1, QuietRotation
  <2> QED  BY <1>2, <2>1, <2>2, <2>3, <2>4, <2>5, <2>6, <2>7, <2>8 DEF Serve
<1>3. ASSUME NEW r \in Requests, Abort(r)
      PROVE  RotationOK'
  <2>1. OffRotation(r)
    BY <1>0, <1>3 DEF Abort, Become, Idle, OffRotation, Rotating, tables
  <2> QED  BY <2>1, QuietRotation
<1>4. CASE LockExpires \/ (\E t \in Tokens \cup ResetTokens : Expire(t)) \/ UNCHANGED vars
  <2>1. UNCHANGED <<live, used, minted, parent, req>>
    BY <1>4 DEF LockExpires, Expire, vars, tables, history
  <2> QED  BY <2>1 DEF RotationOK, LiveNotUsed, SingleExchange
<1> QED  BY <1>1, <1>2, <1>3, <1>4 DEF Next

\* The first state has no token, so RotationOK holds.
LEMMA RotationInit == Init => RotationOK
  BY DEF Init, Idle, RotationOK, Rotating, LiveNotUsed, SingleExchange

\* However many requests present a refresh token at once, at most one successor
\* is issued for it, and no token is both exchangeable and recorded as used.
THEOREM SingleUse == Spec => [](SingleExchange /\ LiveNotUsed)
<1>1. TypeOK /\ InFlightOK /\ RotationOK /\ [Next]_vars => RotationOK'
  BY RotationStep
<1>2. RotationOK => SingleExchange /\ LiveNotUsed
  BY DEF RotationOK
<1> QED  BY RotationInit, TypeCorrect, <1>1, <1>2, PTL DEF Spec

-------------------------------------------------------------------------------
(* Revocation.  A stale credential under way was marked as racing by the   *)
(* revocation that made it stale; and what a running sweep will leave in   *)
(* the table either was issued while it ran, or is the session it keeps.   *)

Carrying == {"clearing", "issuing", "rotating", "flushed"}

OverlapOK ==
    /\ RevocationHolds
    /\ \A r \in Requests :
         req[r].step \in Carrying /\ req[r].stale => req[r].raced
    /\ \A r \in Requests : Sweeping(r) =>
         \A t \in live \ req[r].doomed :
           t \in raced \/ (req[r].step = "changeSweep" /\ t = req[r].tok)

\* What OverlapOK says of the request q alone.
Overlap(q) ==
    /\ req[q].step \in Carrying /\ req[q].stale => req[q].raced
    /\ Sweeping(q) => \A t \in live \ req[q].doomed :
                        t \in raced \/ (req[q].step = "changeSweep" /\ t = req[q].tok)

\* A step of r that adds no row and revokes nothing.
LEMMA CalmOverlap ==
  ASSUME NEW r \in Requests, OverlapOK,
         live' \subseteq live, stale' = stale, raced' = raced,
         \A q \in Requests \ {r} : req'[q] = req[q],
         Overlap(r)'
  PROVE  OverlapOK'
<1>1. RevocationHolds'
  BY DEF OverlapOK, RevocationHolds
<1>2. \A q \in Requests : Overlap(q)'
  <2> TAKE q \in Requests
  <2>1. CASE q = r
    BY <2>1
  <2>2. CASE q # r
    BY <2>2 DEF OverlapOK, Overlap, Sweeping
  <2> QED  BY <2>1, <2>2
<1> QED  BY <1>1, <1>2 DEF OverlapOK, Overlap

\* A token joins the rows: it races every sweep that is running.
LEMMA IssueOverlap ==
  ASSUME TypeOK, InFlightOK, OverlapOK, NEW r \in Requests, Issue(r), Become(r, Idle),
         req[r].step \in {"issuing", "flushed"},
         live' \subseteq live \cup {req[r].new}
  PROVE  OverlapOK'
<1>1. /\ req'[r].step = "idle"
      /\ \A q \in Requests \ {r} : req'[q] = req[q]
  BY DEF Become, Idle, TypeOK
<1>2. /\ raced \subseteq raced'
      /\ stale' \subseteq stale \cup {req[r].new}
      /\ req[r].stale => req[r].new \in raced'
      /\ ~req[r].stale => stale' = stale
      /\ (\E q \in Requests \ {r} : Sweeping(q)) => req[r].new \in raced'
  BY DEF Issue, OverlapOK, Carrying
<1>3. req[r].new \notin stale
  BY AccountAuthAssumption DEF TypeOK, InFlightOK
<1>4. req[r].new \in stale' => req[r].new \in raced'
  BY <1>2, <1>3
<1>5. RevocationHolds'
  BY <1>2, <1>4 DEF OverlapOK, RevocationHolds
<1>6. \A q \in Requests : Overlap(q)'
  <2> TAKE q \in Requests
  <2>1. CASE q = r
    BY <1>1, <2>1 DEF Overlap, Sweeping, Carrying
  <2>2. CASE q # r
    <3>1. req'[q] = req[q]
      BY <1>1, <2>2
    <3>2. Sweeping(q) => req[r].new \in raced'
      BY <1>2, <2>2
    <3> QED  BY <1>2, <3>1, <3>2 DEF OverlapOK, Overlap, Sweeping
  <2> QED  BY <2>1, <2>2
<1> QED  BY <1>5, <1>6 DEF OverlapOK, Overlap

\* A revocation commits: the rows it leaves raced it, or are the session kept.
LEMMA RevokeOverlap ==
  ASSUME TypeOK, OverlapOK, NEW r \in Requests, NEW keep, NEW next \in Request,
         Revoke(r, keep, next), Sweeping(r),
         req[r].step = "changeSweep" => keep = {req[r].tok},
         next.step \in {"idle", "resetHook"}
  PROVE  OverlapOK'
<1>1. /\ live' = live \ req[r].doomed /\ stale' = minted \ keep
      /\ raced' = raced \ req[r].doomed
  BY DEF Revoke
<1>2. RevocationHolds'
  BY <1>1 DEF RevocationHolds, OverlapOK
<1>3. \A q \in Requests : Overlap(q)'
  <2> TAKE q \in Requests
  <2>1. CASE q = r
    BY <2>1, RevokeRequests DEF Overlap, Sweeping, Carrying
  <2>2. CASE q # r
    <3>1. /\ req'[q].step = req[q].step /\ req'[q].tok = req[q].tok
          /\ req'[q].doomed = req[q].doomed
          /\ req[q].step # "idle" => req'[q].stale /\ req'[q].raced
      BY <2>2, RevokeRequests
    <3> QED  BY <1>1, <3>1 DEF OverlapOK, Overlap, Sweeping, Carrying
  <2> QED  BY <2>1, <2>2
<1> QED  BY <1>2, <1>3 DEF OverlapOK, Overlap

\* Every step keeps OverlapOK.
LEMMA OverlapStep ==
  ASSUME TypeOK, InFlightOK, OverlapOK, [Next]_vars
  PROVE  OverlapOK'
<1>0. req \in [Requests -> Request]
  BY DEF TypeOK
<1>1. ASSUME NEW r \in Requests, Arrive(r)
      PROVE  OverlapOK'
  <2> USE <1>0 DEF Become, Idle, tables, history, Carrying, Overlap, Sweeping
  <2>1. ASSUME NEW pw \in Passwords, LoginRead(r, pw)
        PROVE  OverlapOK'
    <3>1. /\ UNCHANGED <<live, stale, raced>>
          /\ \A q \in Requests \ {r} : req'[q] = req[q]
          /\ req'[r].step \in {"clearing", "failing"} /\ ~req'[r].stale
      <4>1. CASE pw = password
        BY <2>1, <4>1 DEF LoginRead
      <4>2. CASE pw # password
        BY <2>1, <4>2 DEF LoginRead
      <4> QED  BY <4>1, <4>2
    <3> QED  BY <3>1, CalmOverlap
  <2>2. ASSUME NEW t \in Tokens, RefreshReplayed(r, t)
        PROVE  OverlapOK'
    BY <2>2, CalmOverlap DEF RefreshReplayed
  <2>3. ASSUME NEW t \in Tokens, RefreshUnused(r, t)
        PROVE  OverlapOK'
    BY <2>3, CalmOverlap DEF RefreshUnused
  <2>4. ASSUME NEW t \in Tokens, LogoutRead(r, t)
        PROVE  OverlapOK'
    BY <2>4, CalmOverlap DEF LogoutRead
  <2>5. ASSUME NEW pw \in Passwords, NEW t \in minted \cup {NoToken}, ChangeRead(r, pw, t)
        PROVE  OverlapOK'
    BY <2>5, CalmOverlap DEF ChangeRead
  <2>6. ASSUME ForgotRead(r)
        PROVE  OverlapOK'
    BY <2>6, CalmOverlap DEF ForgotRead
  <2>7. ASSUME NEW k \in ResetTokens, NEW pw \in Passwords, ResetRead(r, k, pw)
        PROVE  OverlapOK'
    BY <2>7, CalmOverlap DEF ResetRead
  <2> QED  BY <1>1, <2>1, <2>2, <2>3, <2>4, <2>5, <2>6, <2>7 DEF Arrive
<1>2. ASSUME NEW r \in Requests, Serve(r)
      PROVE  OverlapOK'
  <2> USE <1>0 DEF Become, tables, history, Carrying, Overlap, Sweeping
  <2>1. CASE ClearAfterLogin(r)
    <3>1. /\ UNCHANGED <<live, stale, raced>>
          /\ req[r].step = "clearing"
          /\ req' = [req EXCEPT ![r] = [req[r] EXCEPT !.step = "issuing"]]
      BY <2>1 DEF ClearAfterLogin, ClearFailedAttempts
    <3>2. /\ req'[r].step = "issuing" /\ req'[r].stale = req[r].stale
          /\ req'[r].raced = req[r].raced
          /\ \A q \in Requests \ {r} : req'[q] = req[q]
      BY <3>1 DEF Request
    <3> QED  BY <3>1, <3>2, CalmOverlap DEF OverlapOK
  <2>2. CASE RefreshHit(r)
    <3>1. /\ UNCHANGED <<live, stale, raced>> /\ req[r].tok \in live
          /\ req'[r].step \in {"dropping", "rotating"}
          /\ req'[r].stale = (req[r].tok \in stale)
          /\ req'[r].raced = (req[r].tok \in raced)
          /\ \A q \in Requests \ {r} : req'[q] = req[q]
      BY <2>2 DEF RefreshHit, Request
    <3>2. req'[r].stale => req'[r].raced
      BY <3>1 DEF OverlapOK, RevocationHolds
    <3> QED  BY <3>1, <3>2, CalmOverlap
  <2>3. CASE RotateFlush(r)
    <3>1. CASE req' = [req EXCEPT ![r] = Idle]
      BY <2>3, <3>1, CalmOverlap DEF RotateFlush, Idle
    <3>2. CASE req' = [req EXCEPT ![r] = [req[r] EXCEPT !.step = "flushed"]]
      <4>1. /\ req'[r].step = "flushed" /\ req'[r].stale = req[r].stale
            /\ req'[r].raced = req[r].raced
            /\ \A q \in Requests \ {r} : req'[q] = req[q]
        BY <3>2 DEF Request
      <4>2. req[r].step = "rotating" /\ UNCHANGED <<live, stale, raced>>
        BY <2>3 DEF RotateFlush
      <4> QED  BY <4>1, <4>2, CalmOverlap DEF OverlapOK
    <3> QED  BY <2>3, <3>1, <3>2 DEF RotateFlush
  <2>4. CASE CreateUserTokens(r) \/ RotateCommit(r)
    <3> HIDE DEF Become
    <3> QED  BY <2>4, IssueOverlap DEF CreateUserTokens, RotateCommit
  <2>5. CASE NukeStatement(r) \/ ChangeStatement(r) \/ ResetStatement(r)
    <3>0. ASSUME NEW s \in {"nuking", "changeSweep", "resetSweep"}, NEW keep,
                 Sweep(r, s, keep), UNCHANGED <<live, stale, raced>>,
                 (s = "changeSweep" /\ keep = {req[r].tok}) \/ keep = {}
          PROVE  OverlapOK'
      <4>1. /\ req'[r].step = s /\ req'[r].tok = req[r].tok
            /\ req'[r].doomed = live \ keep
            /\ \A q \in Requests \ {r} : req'[q] = req[q]
        BY <3>0 DEF Sweep, Request
      <4> QED  BY <3>0, <4>1, CalmOverlap
    <3>1. CASE NukeStatement(r)
      BY <3>0, <3>1 DEF NukeStatement
    <3>2. CASE ChangeStatement(r)
      BY <3>0, <3>2 DEF ChangeStatement
    <3>3. CASE ResetStatement(r)
      BY <3>0, <3>3 DEF ResetStatement
    <3> QED  BY <2>5, <3>1, <3>2, <3>3
  <2>6. CASE NukeCommit(r) \/ ChangeCommit(r) \/ ResetCommit(r)
    <3>1. CASE NukeCommit(r)
      BY <3>1, RevokeOverlap, IdleIsRequest DEF NukeCommit, Idle
    <3>2. CASE ChangeCommit(r)
      BY <3>2, RevokeOverlap, IdleIsRequest DEF ChangeCommit, Idle
    <3>3. CASE ResetCommit(r)
      <4>1. [Idle EXCEPT !.step = "resetHook"] \in Request
        BY UpdateStep, IdleIsRequest DEF Steps
      <4> QED  BY <3>3, <4>1, RevokeOverlap DEF ResetCommit, Idle
    <3> QED  BY <2>6, <3>1, <3>2, <3>3
  <2>7. CASE \/ RecordFailedAttempt(r) \/ RefreshMiss(r) \/ DropExpired(r)
             \/ LogoutCommit(r) \/ ForgotCommit(r) \/ ResetHook(r)
    <3>1. /\ req' = [req EXCEPT ![r] = Idle]
          /\ live' \subseteq live /\ UNCHANGED <<stale, raced>>
      BY <2>7 DEF RecordFailedAttempt, RefreshMiss, DropExpired, LogoutCommit,
                  ForgotCommit, ResetHook, ClearFailedAttempts
    <3> QED  BY <3>1, CalmOverlap DEF Idle
  <2> QED  BY <1>2, <2>1, <2>2, <2>3, <2>4, <2>5, <2>6, <2>7 DEF Serve
<1>3. ASSUME NEW r \in Requests, Abort(r)
      PROVE  OverlapOK'
  BY <1>0, <1>3, CalmOverlap DEF Abort, Become, Idle, tables, Overlap, Sweeping, Carrying
<1>4. CASE LockExpires \/ (\E t \in Tokens \cup ResetTokens : Expire(t)) \/ UNCHANGED vars
  <2>1. UNCHANGED <<live, stale, raced, req>>
    BY <1>4 DEF LockExpires, Expire, vars, tables, history
  <2> QED  BY <2>1 DEF OverlapOK, RevocationHolds, Sweeping
<1> QED  BY <1>1, <1>2, <1>3, <1>4 DEF Next

\* The first state has no token, so OverlapOK holds.
LEMMA OverlapInit == Init => OverlapOK
  BY DEF Init, Idle, OverlapOK, RevocationHolds, Carrying, Sweeping

\* After a replay, a password change or a reset, only sessions that overlapped
\* the revocation, and their heirs, still rest on an earlier credential.
THEOREM RevocationCorrect == Spec => []RevocationHolds
<1>1. TypeOK /\ InFlightOK /\ OverlapOK /\ [Next]_vars => OverlapOK'
  BY OverlapStep
<1>2. OverlapOK => RevocationHolds
  BY DEF OverlapOK
<1> QED  BY OverlapInit, TypeCorrect, <1>1, <1>2, PTL DEF Spec

-------------------------------------------------------------------------------
(* Refinement: every step is one operation of the single-use store, or none.*)

\* A token was consumed exactly if its use is on record: no deletion of a used
\* record is ever committed.
Recorded == consumed = used

LEMMA RecordedStep ==
  ASSUME TypeOK, Recorded, [Next]_vars
  PROVE  Recorded'
<1> USE DEF Recorded
<1>1. ASSUME NEW r \in Requests, Arrive(r)
      PROVE  Recorded'
  BY <1>1 DEF Arrive, LoginRead, RefreshReplayed, RefreshUnused, LogoutRead, ChangeRead,
              ForgotRead, ResetRead, tables, history
<1>2. ASSUME NEW r \in Requests, Serve(r)
      PROVE  Recorded'
  <2>1. CASE RotateCommit(r)
    BY <2>1 DEF RotateCommit
  <2>2. CASE LogoutCommit(r)
    BY <2>2 DEF LogoutCommit
  <2>3. CASE \/ CreateUserTokens(r) \/ DropExpired(r) \/ NukeCommit(r)
             \/ ChangeCommit(r) \/ ResetCommit(r)
    BY <2>3 DEF CreateUserTokens, DropExpired, NukeCommit, ChangeCommit, ResetCommit, history
  <2>4. CASE \/ RecordFailedAttempt(r) \/ ClearAfterLogin(r) \/ RefreshMiss(r)
             \/ RefreshHit(r) \/ RotateFlush(r) \/ NukeStatement(r)
             \/ ChangeStatement(r) \/ ForgotCommit(r) \/ ResetStatement(r)
             \/ ResetHook(r)
    BY <2>4 DEF RecordFailedAttempt, ClearAfterLogin, RefreshMiss, RefreshHit,
                RotateFlush, NukeStatement, ChangeStatement, ForgotCommit,
                ResetStatement, ResetHook, ClearFailedAttempts, tables, history
  <2> QED  BY <1>2, <2>1, <2>2, <2>3, <2>4 DEF Serve
<1>3. CASE \/ \E r \in Requests : Abort(r)
           \/ LockExpires \/ \E t \in Tokens \cup ResetTokens : Expire(t)
           \/ UNCHANGED vars
  BY <1>3 DEF Abort, LockExpires, Expire, vars, tables, history
<1> QED  BY <1>1, <1>2, <1>3 DEF Next

\* Deleting rows is a step of the abstract store.
LEMMA WithdrawStep ==
  ASSUME TypeOK, NEW D, live' = live \ D, minted' = minted, consumed' = consumed
  PROVE  Store!StoreNext
<1>1. live \cap D \in SUBSET Tokens
  BY DEF TypeOK
<1>2. Store!Withdraw(live \cap D)
  BY DEF Store!Withdraw
<1> QED  BY <1>1, <1>2 DEF Store!StoreNext

\* How a step hands out tokens: one with a parent came of an exchange.
Handout ==
    \A n \in minted' \ minted :
        IF parent'[n] = NoToken THEN Store!Grant(n) ELSE Store!Exchange(parent'[n], n)

\* Every step is a step of the abstract store or changes nothing it sees, and
\* the tokens it hands out are handed out as their parent says.
LEMMA StoreStep ==
  ASSUME TypeOK, InFlightOK, RotationOK, Recorded, [Next]_vars
  PROVE  [Store!StoreNext]_(Store!store) /\ Handout
<1> DEFINE Stutter == live' = live /\ minted' = minted /\ consumed' = consumed
<1>0. Stutter => UNCHANGED Store!store
  BY DEF Store!store
<1>1. ASSUME NEW r \in Requests, Arrive(r)
      PROVE  Stutter
  BY <1>1 DEF Arrive, LoginRead, RefreshReplayed, RefreshUnused, LogoutRead, ChangeRead,
              ForgotRead, ResetRead, tables, history
<1>2. ASSUME NEW r \in Requests, Serve(r)
      PROVE  (Store!StoreNext \/ Stutter) /\ (minted' = minted \/ Handout)
  <2>1. CASE CreateUserTokens(r)
    <3>1. req[r].new \in Tokens \ minted /\ req[r].tok = NoToken
      BY <2>1, AccountAuthAssumption DEF CreateUserTokens, InFlightOK
    <3>2. Store!Grant(req[r].new)
      BY <2>1, <3>1 DEF CreateUserTokens, Issue, Store!Grant
    <3>3. minted' \ minted = {req[r].new} /\ parent'[req[r].new] = NoToken
      BY <2>1, <3>1 DEF CreateUserTokens, Issue, TypeOK
    <3>4. Handout
      BY <3>2, <3>3 DEF Handout
    <3> QED  BY <3>1, <3>2, <3>4 DEF Store!StoreNext
  <2>2. CASE RotateCommit(r)
    <3>1. req[r].new \in Tokens \ minted /\ req[r].tok \in minted \ consumed
      BY <2>2, AccountAuthAssumption DEF RotateCommit, InFlightOK, RotationOK, Recorded
    <3>2. Store!Exchange(req[r].tok, req[r].new)
      BY <2>2, <3>1 DEF RotateCommit, Issue, Store!Exchange
    <3>3. /\ minted' \ minted = {req[r].new} /\ parent'[req[r].new] = req[r].tok
          /\ req[r].tok # NoToken
      BY <2>2, <3>1, AccountAuthAssumption DEF RotateCommit, Issue, TypeOK
    <3>4. Handout
      BY <3>2, <3>3 DEF Handout
    <3> QED  BY <3>1, <3>2, <3>4 DEF Store!StoreNext, TypeOK
  <2>3. CASE LogoutCommit(r)
    <3>0. minted' = minted
      BY <2>3 DEF LogoutCommit
    <3>1. CASE req[r].tok \in used
      BY <2>3, <3>0, <3>1 DEF LogoutCommit
    <3>2. CASE req[r].tok \notin used
      <4>1. req[r].tok \in minted \ consumed
        BY <2>3, <3>2 DEF LogoutCommit, InFlightOK, Recorded
      <4>2. Store!End(req[r].tok)
        BY <2>3, <3>2, <4>1 DEF LogoutCommit, Store!End
      <4> QED  BY <3>0, <4>1, <4>2 DEF Store!StoreNext, TypeOK
    <3> QED  BY <3>1, <3>2
  <2>4. CASE DropExpired(r) \/ NukeCommit(r) \/ ChangeCommit(r) \/ ResetCommit(r)
    <3>1. CASE DropExpired(r)
      BY <3>1, WithdrawStep DEF DropExpired, history
    <3>2. CASE NukeCommit(r) \/ ChangeCommit(r) \/ ResetCommit(r)
      BY <3>2, WithdrawStep DEF NukeCommit, ChangeCommit, ResetCommit, Revoke
    <3> QED  BY <2>4, <3>1, <3>2
  <2>5. CASE \/ RecordFailedAttempt(r) \/ ClearAfterLogin(r) \/ RefreshMiss(r)
             \/ RefreshHit(r) \/ RotateFlush(r) \/ NukeStatement(r)
             \/ ChangeStatement(r) \/ ForgotCommit(r) \/ ResetStatement(r)
             \/ ResetHook(r)
    BY <2>5 DEF RecordFailedAttempt, ClearAfterLogin, RefreshMiss, RefreshHit,
                RotateFlush, NukeStatement, ChangeStatement, ForgotCommit,
                ResetStatement, ResetHook, ClearFailedAttempts, tables, history
  <2> QED  BY <1>2, <2>1, <2>2, <2>3, <2>4, <2>5 DEF Serve
<1>3. ASSUME NEW r \in Requests, Abort(r)
      PROVE  Stutter
  BY <1>3 DEF Abort, tables
<1>4. ASSUME NEW t \in Tokens \cup ResetTokens, Expire(t)
      PROVE  Stutter
  BY <1>4 DEF Expire, history
<1>5. CASE LockExpires \/ UNCHANGED vars
  <2>1. Stutter
    BY <1>5 DEF LockExpires, vars, tables, history
  <2> QED  BY <2>1, <1>0 DEF Handout
<1>6. minted' = minted => Handout
  BY DEF Handout
<1>7. Stutter => minted' = minted
  OBVIOUS
<1> HIDE DEF Stutter
<1> QED  BY <1>0, <1>1, <1>2, <1>3, <1>4, <1>5, <1>6, <1>7 DEF Next

\* The handlers implement the single-use store: a token is granted once and
\* exchanged or ended at most once, and a token with a parent came of an exchange.
THEOREM StoreCorrect == Spec => StoreRefined
<1>1. Init => Store!StoreInit /\ Recorded
  BY DEF Init, Store!StoreInit, Recorded
<1>2. TypeOK /\ InFlightOK /\ RotationOK /\ [Next]_vars => RotationOK'
  BY RotationStep
<1>3. TypeOK /\ Recorded /\ [Next]_vars => Recorded'
  BY RecordedStep
<1>4. TypeOK /\ InFlightOK /\ RotationOK /\ Recorded /\ [Next]_vars
        => [Store!StoreNext]_(Store!store) /\ [Handout]_vars
  BY StoreStep
<1>5. StoreRefined <=> Store!StoreSpec /\ [][Handout]_vars
  BY DEF StoreRefined, Handout
<1> QED  BY RotationInit, TypeCorrect, <1>1, <1>2, <1>3, <1>4, <1>5, PTL
         DEF Spec, Store!StoreSpec

-------------------------------------------------------------------------------
(* The guess budget: while the account is open, a wrong guess is counted   *)
(* in attempts or still on its way there.                                  *)

Failing == {r \in Requests : req[r].step = "failing"}

BudgetOK ==
    /\ GuessBudget
    /\ ~locked => guesses <= attempts + Cardinality(Failing)

\* The requests about to record a wrong password are finitely many.
LEMMA FailingFinite ==
  ASSUME NEW S \in SUBSET Requests
  PROVE  IsFiniteSet(S) /\ Cardinality(S) \in Nat /\ Cardinality(S) <= Cardinality(Requests)
<1>1. IsFiniteSet(S) /\ Cardinality(S) <= Cardinality(Requests)
  BY AccountAuthAssumption, FS_Subset
<1> QED  BY <1>1, FS_CardinalityType

\* A step that moves no failure and no count.
LEMMA BudgetKept ==
  ASSUME BudgetOK, UNCHANGED <<guesses, attempts, locked>>, Failing' = Failing
  PROVE  BudgetOK'
  BY DEF BudgetOK, GuessBudget

\* A step that opens the account, or forgives.
LEMMA BudgetReset ==
  ASSUME TypeOK, TypeOK', guesses' = 0
  PROVE  BudgetOK'
<1>1. Cardinality(Failing') \in Nat /\ Cardinality(Requests) \in Nat
  BY FailingFinite DEF Failing
<1>2. attempts' \in Nat /\ MaxAttempts \in Nat \ {0}
  BY AccountAuthAssumption DEF TypeOK
<1> QED  BY <1>1, <1>2 DEF BudgetOK, GuessBudget

\* Every step keeps BudgetOK.
LEMMA BudgetStep ==
  ASSUME TypeOK, TypeOK', BudgetOK, [Next]_vars
  PROVE  BudgetOK'
<1>0. /\ req \in [Requests -> Request]
      /\ attempts \in 0..(MaxAttempts - 1) /\ guesses \in Nat /\ MaxAttempts \in Nat \ {0}
      /\ Failing \in SUBSET Requests /\ Failing' \in SUBSET Requests
  BY AccountAuthAssumption DEF TypeOK, Failing
<1>a. /\ IsFiniteSet(Failing) /\ Cardinality(Failing) \in Nat
      /\ Cardinality(Failing') \in Nat /\ Cardinality(Requests) \in Nat
      /\ Cardinality(Failing') <= Cardinality(Requests)
      /\ Cardinality(Failing) <= Cardinality(Requests)
  BY <1>0, FailingFinite
<1>b. ASSUME NEW r \in Requests, req[r].step = "failing", Become(r, Idle)
      PROVE  Cardinality(Failing') = Cardinality(Failing) - 1
  <2>1. Failing' = Failing \ {r} /\ r \in Failing
    BY <1>0, <1>b DEF Become, Idle, Failing
  <2> QED  BY <2>1, <1>a, FS_RemoveElement
<1>1. ASSUME NEW r \in Requests, NEW pw \in Passwords, LoginRead(r, pw)
      PROVE  BudgetOK'
  <2>1. CASE pw = password
    <3>1. UNCHANGED <<guesses, attempts, locked>>
      BY <1>1, <2>1 DEF LoginRead, tables
    <3>2. Failing' = Failing
      BY <1>0, <1>1, <2>1 DEF LoginRead, Become, Idle, Failing
    <3> QED  BY <3>1, <3>2, BudgetKept
  <2>2. CASE pw # password
    <3>1. ~locked /\ guesses' = guesses + 1 /\ UNCHANGED <<attempts, locked>>
      BY <1>1, <2>2 DEF LoginRead, tables
    <3>2. Failing' = Failing \cup {r} /\ r \notin Failing
      BY <1>0, <1>1, <2>2 DEF LoginRead, Become, Idle, Failing
    <3>3. Cardinality(Failing') = Cardinality(Failing) + 1
      BY <3>2, <1>a, FS_AddElement
    <3> QED  BY <1>0, <1>a, <3>1, <3>3 DEF BudgetOK, GuessBudget
  <2> QED  BY <2>1, <2>2
<1>2. ASSUME NEW r \in Requests, RecordFailedAttempt(r)
      PROVE  BudgetOK'
  <2>1. Cardinality(Failing') = Cardinality(Failing) - 1 /\ guesses' = guesses
    BY <1>2, <1>b DEF RecordFailedAttempt, history
  <2>2. CASE attempts + 1 >= MaxAttempts
    BY <2>1, <2>2, <1>2 DEF RecordFailedAttempt, BudgetOK, GuessBudget
  <2>3. CASE ~(attempts + 1 >= MaxAttempts)
    BY <1>0, <1>a, <2>1, <2>3, <1>2 DEF RecordFailedAttempt, BudgetOK, GuessBudget
  <2> QED  BY <2>2, <2>3
<1>3. ASSUME NEW r \in Requests, Abort(r)
      PROVE  BudgetOK'
  <2>0. UNCHANGED <<attempts, locked>> /\ Become(r, Idle) /\ req[r].step # "idle"
    BY <1>3 DEF Abort, tables
  <2>1. CASE req[r].step = "failing"
    <3>1. guesses' = guesses - 1 \/ (guesses' = 0 /\ guesses = 0)
      BY <1>0, <1>3, <2>1 DEF Abort
    <3>2. CASE guesses' = guesses - 1
      BY <1>0, <1>a, <1>b, <2>0, <2>1, <3>2 DEF BudgetOK, GuessBudget
    <3>3. CASE guesses' = 0
      BY <3>3, BudgetReset
    <3> QED  BY <3>1, <3>2, <3>3
  <2>2. CASE req[r].step # "failing"
    <3>1. guesses' = guesses
      BY <1>3, <2>2 DEF Abort
    <3>2. Failing' = Failing
      BY <1>0, <2>0, <2>2 DEF Become, Idle, Failing
    <3> QED  BY <2>0, <3>1, <3>2, BudgetKept
  <2> QED  BY <2>1, <2>2
<1>4. ASSUME \/ \E r \in Requests : ClearAfterLogin(r) \/ ResetHook(r)
             \/ LockExpires
      PROVE  BudgetOK'
  <2>1. guesses' = 0
    BY <1>4 DEF ClearAfterLogin, ResetHook, ClearFailedAttempts, LockExpires
  <2> QED  BY <2>1, BudgetReset
<1>5. ASSUME NEW r \in Requests, UNCHANGED <<guesses, attempts, locked>>,
             req[r].step # "failing", req'[r].step # "failing",
             \A q \in Requests \ {r} : req'[q].step = req[q].step
      PROVE  BudgetOK'
  <2>1. Failing' = Failing
    BY <1>5 DEF Failing
  <2> QED  BY <1>5, <2>1, BudgetKept
<1>6. ASSUME NEW r \in Requests, Arrive(r)
      PROVE  BudgetOK'
  <2> USE <1>0 DEF Become, Idle, tables, history
  <2>1. ASSUME NEW t \in Tokens, RefreshReplayed(r, t)
        PROVE  BudgetOK'
    BY <1>5, <2>1 DEF RefreshReplayed
  <2>2. ASSUME NEW t \in Tokens, RefreshUnused(r, t)
        PROVE  BudgetOK'
    BY <1>5, <2>2 DEF RefreshUnused
  <2>3. ASSUME NEW t \in Tokens, LogoutRead(r, t)
        PROVE  BudgetOK'
    BY <1>5, <2>3 DEF LogoutRead
  <2>4. ASSUME NEW pw \in Passwords, NEW t \in minted \cup {NoToken}, ChangeRead(r, pw, t)
        PROVE  BudgetOK'
    BY <1>5, <2>4 DEF ChangeRead
  <2>5. ASSUME ForgotRead(r)
        PROVE  BudgetOK'
    BY <1>5, <2>5 DEF ForgotRead
  <2>6. ASSUME NEW k \in ResetTokens, NEW pw \in Passwords, ResetRead(r, k, pw)
        PROVE  BudgetOK'
    BY <1>5, <2>6 DEF ResetRead
  <2> QED  BY <1>1, <1>6, <2>1, <2>2, <2>3, <2>4, <2>5, <2>6 DEF Arrive
<1>7. ASSUME NEW r \in Requests, Serve(r)
      PROVE  BudgetOK'
  <2> USE <1>0 DEF tables, history
  <2>1. CASE NukeCommit(r) \/ ChangeCommit(r) \/ ResetCommit(r)
    <3>1. ASSUME NEW keep, NEW next \in Request, Revoke(r, keep, next),
                 UNCHANGED <<guesses, attempts, locked>>,
                 req[r].step # "failing", next.step # "failing"
          PROVE  BudgetOK'
      BY <1>5, <3>1, RevokeRequests
    <3>2. CASE NukeCommit(r)
      BY <3>1, <3>2, IdleIsRequest DEF NukeCommit, Idle
    <3>3. CASE ChangeCommit(r)
      BY <3>1, <3>3, IdleIsRequest DEF ChangeCommit, Idle
    <3>4. CASE ResetCommit(r)
      <4>1. [Idle EXCEPT !.step = "resetHook"] \in Request
        BY UpdateStep, IdleIsRequest DEF Steps
      <4> QED  BY <3>1, <3>4, <4>1 DEF ResetCommit, Idle
    <3> QED  BY <2>1, <3>2, <3>3, <3>4
  <2>2. CASE \/ CreateUserTokens(r) \/ RefreshMiss(r) \/ DropExpired(r)
             \/ RotateCommit(r) \/ LogoutCommit(r) \/ ForgotCommit(r)
    <3>1. /\ req' = [req EXCEPT ![r] = Idle] /\ req[r].step # "failing"
          /\ UNCHANGED <<guesses, attempts, locked>>
      BY <2>2 DEF CreateUserTokens, RefreshMiss, DropExpired, RotateCommit,
                  LogoutCommit, ForgotCommit, Become
    <3> QED  BY <1>5, <3>1 DEF Idle
  <2>3. CASE RefreshHit(r)
    BY <1>5, <2>3 DEF RefreshHit, Become, Request
  <2>4. CASE RotateFlush(r)
    <3>1. /\ UNCHANGED <<guesses, attempts, locked>> /\ req[r].step # "failing"
          /\ \/ req' = [req EXCEPT ![r] = Idle]
             \/ req' = [req EXCEPT ![r] = [req[r] EXCEPT !.step = "flushed"]]
      BY <2>4 DEF RotateFlush, Become
    <3>2. req'[r].step # "failing" /\ \A q \in Requests \ {r} : req'[q] = req[q]
      BY <3>1 DEF Idle, Request
    <3> QED  BY <1>5, <3>1, <3>2
  <2>5. CASE NukeStatement(r) \/ ChangeStatement(r) \/ ResetStatement(r)
    <3>1. ASSUME NEW s \in {"nuking", "changeSweep", "resetSweep"}, NEW keep,
                 Sweep(r, s, keep), UNCHANGED <<guesses, attempts, locked>>,
                 req[r].step # "failing"
          PROVE  BudgetOK'
      BY <1>5, <3>1 DEF Sweep, Become, Request
    <3>2. CASE NukeStatement(r)
      BY <3>1, <3>2 DEF NukeStatement
    <3>3. CASE ChangeStatement(r)
      BY <3>1, <3>3 DEF ChangeStatement
    <3>4. CASE ResetStatement(r)
      BY <3>1, <3>4 DEF ResetStatement
    <3> QED  BY <2>5, <3>2, <3>3, <3>4
  <2> QED  BY <1>2, <1>4, <1>7, <2>1, <2>2, <2>3, <2>4, <2>5 DEF Serve
<1>8. ASSUME NEW t \in Tokens \cup ResetTokens, Expire(t)
      PROVE  BudgetOK'
  <2>1. UNCHANGED <<guesses, attempts, locked, req>>
    BY <1>8 DEF Expire, history
  <2> QED  BY <2>1, BudgetKept DEF Failing
<1>9. CASE UNCHANGED vars
  <2>1. UNCHANGED <<guesses, attempts, locked, req>>
    BY <1>9 DEF vars, tables, history
  <2> QED  BY <2>1, BudgetKept DEF Failing
<1> QED  BY <1>3, <1>4, <1>6, <1>7, <1>8, <1>9 DEF Next

\* Between two openings of the account, at most the threshold plus what is in
\* flight of wrong passwords is compared.
THEOREM GuessesBounded == Spec => []GuessBudget
<1>1. Init => BudgetOK
  <2> SUFFICES ASSUME Init PROVE BudgetOK
    OBVIOUS
  <2>1. guesses = 0 /\ attempts = 0 /\ MaxAttempts \in Nat \ {0}
    BY AccountAuthAssumption DEF Init
  <2>2. Cardinality(Failing) \in Nat /\ Cardinality(Requests) \in Nat
    BY FailingFinite DEF Failing
  <2> QED  BY <2>1, <2>2 DEF BudgetOK, GuessBudget
<1>2. TypeOK /\ TypeOK' /\ BudgetOK /\ [Next]_vars => BudgetOK'
  BY BudgetStep
<1>3. BudgetOK => GuessBudget
  BY DEF BudgetOK
<1> QED  BY TypeCorrect, <1>1, <1>2, <1>3, PTL DEF Spec

-------------------------------------------------------------------------------
(***************************************************************************)
(* The browser on top of that server: BrowserSession, whose server is      *)
(* SessionStore too, for all sets of documents and calls.  Its inductive   *)
(* invariant BrowserInv is the conjunction of                              *)
(*   BrowserSound   what cookies the requests under way carry, presented   *)
(*                  and in answers, and what of it is blamed,              *)
(*   ScreenTyped    the types of the rest,                                 *)
(*   PageOK         which documents know a user and make calls,            *)
(*   DocsOK         which documents have which requests under way,         *)
(* and QueueServed.  BrowserSound is a predicate NetSound of five values,  *)
(* so that what a step does to it is a lemma about sets of requests.       *)
(***************************************************************************)

Asking == {"refresh", "probe"}

\* What the requests N, the cookie k of the jar, the tokens I issued and S spent
\* and the history flag b are.
NetTyped(N, k, I, S, b) ==
  /\ N \subseteq SessionRequest /\ IsFiniteSet(N)
  /\ I \subseteq Nat \ {0} /\ IsFiniteSet(I)
  /\ S \subseteq I /\ k \in I \cup {0} /\ b \in BOOLEAN

\* A login presents no cookie; an answer that carries a cookie carries one that
\* was issued, not spent, and is not in the jar yet.
RequestOK(r, k, I, S) ==
  /\ r.kind = "login" => r.cookie = 0
  /\ r.cookie \in I \cup {0}
  /\ r.state = "ok" /\ r.kind # "logout" => r.new # 0
  /\ r.new # 0 => r.state = "ok" /\ r.new \in I \ S /\ r.new # k

\* A cookie in an answer is presented by no request and is in one answer only.
AnswersApart(N) ==
  \A r, q \in N : r.new # 0 => q.cookie # r.new /\ (q.new = r.new => q = r)

\* A document has one refresh under way.
OneRefresh(N) ==
  \A r, q \in N : r.kind = "refresh" /\ q.kind = "refresh" /\ r.doc = q.doc /\ r.doc # Gone
                  => q = r

\* Without blame no refresh has lost its document,
OrphansBlamed(N, b) == \A r \in N : r.kind \in Asking /\ r.doc = Gone => b

\* no two requests present the same cookie,
CookiesApart(N, b) ==
  ~b => \A r, q \in N : r.cookie = q.cookie /\ r.cookie # 0 => q = r

\* a spent cookie in the jar has an answer under way that replaces it,
SpentAnswered(N, k, S, b) ==
  ~b /\ k \in S => \E r \in N : r.cookie = k /\ r.state = "ok"

\* and no refresh waits for the server with a spent cookie.
SentUnspent(N, S, b) ==
  ~b => \A r \in N : r.kind \in Asking /\ r.state = "sent" => r.cookie \notin S

NetSound(N, k, I, S, b) ==
  /\ NetTyped(N, k, I, S, b)
  /\ \A r \in N : RequestOK(r, k, I, S)
  /\ AnswersApart(N) /\ OneRefresh(N) /\ OrphansBlamed(N, b)
  /\ CookiesApart(N, b) /\ SpentAnswered(N, k, S, b) /\ SentUnspent(N, S, b)

\* More blame keeps all of it.
LEMMA Blame ==
  ASSUME NEW N, NEW k, NEW I, NEW S, NEW b, NEW b2 \in BOOLEAN,
         NetSound(N, k, I, S, b), b => b2
  PROVE  NetSound(N, k, I, S, b2)
  BY DEF NetSound, NetTyped, OrphansBlamed, CookiesApart, SpentAnswered, SentUnspent

\* A request that presents cookie c is added.
LEMMA AddRequest ==
  ASSUME NEW N, NEW k, NEW I, NEW S, NEW b, NEW n \in SessionRequest,
         NetSound(N, k, I, S, b),
         n.state = "sent", n.new = 0, n.doc # Gone, n.cookie \in I \cup {0},
         n.kind = "login" => n.cookie = 0,
         n.kind = "refresh" => \A q \in N : ~(q.kind = "refresh" /\ q.doc = n.doc),
         \A q \in N : q.new # 0 => n.cookie # q.new,
         ~b /\ n.cookie # 0 => \A q \in N : q.cookie # n.cookie,
         ~b /\ n.kind \in Asking => n.cookie \notin S
  PROVE  NetSound(N \cup {n}, k, I, S, b)
  <1> DEFINE M == N \cup {n}
  <1> USE DEF NetSound
  <1>1. NetTyped(M, k, I, S, b)
    BY FS_AddElement DEF NetTyped
  <1>2. \A r \in M : RequestOK(r, k, I, S)
    BY DEF RequestOK
  <1>3. AnswersApart(M)
    BY DEF AnswersApart
  <1>4. OneRefresh(M)
    BY DEF OneRefresh
  <1>5. OrphansBlamed(M, b)
    BY DEF OrphansBlamed
  <1>6. CookiesApart(M, b)
    BY DEF CookiesApart
  <1>7. SpentAnswered(M, k, S, b)
    BY DEF SpentAnswered
  <1>8. SentUnspent(M, S, b)
    BY DEF SentUnspent
  <1> QED BY <1>1, <1>2, <1>3, <1>4, <1>5, <1>6, <1>7, <1>8

\* What is said of requests still holds when they change in nothing of it.
Like(r, q) ==
  r.kind = q.kind /\ r.cookie = q.cookie /\ r.state = q.state /\ r.new = q.new

\* Every request becomes f[r]: it loses its document or its access token.
LEMMA MapRequests ==
  ASSUME NEW N, NEW k, NEW I, NEW S, NEW b, NetSound(N, k, I, S, b),
         NEW f \in [N -> SessionRequest],
         \A r \in N : Like(f[r], r) /\ f[r].doc \in {r.doc, Gone},
         \A r \in N : f[r].doc = Gone /\ r.kind \in Asking => b
  PROVE  NetSound({f[r] : r \in N}, k, I, S, b)
  <1> DEFINE M == {f[r] : r \in N}
  <1> USE DEF NetSound, Like
  <1>1. NetTyped(M, k, I, S, b)
    <2>1. f \in Surjection(N, M)
      BY DEF Surjection
    <2>2. IsFiniteSet(M)
      BY <2>1, FS_Surjection DEF NetTyped
    <2>3. M \subseteq SessionRequest
      OBVIOUS
    <2> QED BY <2>2, <2>3 DEF NetTyped
  <1>2. \A r \in M : RequestOK(r, k, I, S)
    BY DEF RequestOK
  <1>3. AnswersApart(M)
    BY DEF AnswersApart
  <1>4. OneRefresh(M)
    BY DEF OneRefresh
  <1>5. OrphansBlamed(M, b)
    BY DEF OrphansBlamed
  <1>6. CookiesApart(M, b)
    BY DEF CookiesApart
  <1>7. SpentAnswered(M, k, S, b)
    BY DEF SpentAnswered
  <1>8. SentUnspent(M, S, b)
    BY DEF SentUnspent
  <1> QED BY <1>1, <1>2, <1>3, <1>4, <1>5, <1>6, <1>7, <1>8

\* A request ends and the jar stays: nothing that matters was in its answer.
LEMMA DropRequest ==
  ASSUME NEW N, NEW k, NEW I, NEW S, NEW b, NEW r \in N, NetSound(N, k, I, S, b),
         r.state = "ok" => b \/ r.cookie = 0
  PROVE  NetSound(N \ {r}, k, I, S, b)
  <1> DEFINE M == N \ {r}
  <1> USE DEF NetSound
  <1>1. NetTyped(M, k, I, S, b)
    BY FS_RemoveElement DEF NetTyped
  <1>2. AnswersApart(M) /\ OneRefresh(M)
    BY DEF AnswersApart, OneRefresh
  <1>3. OrphansBlamed(M, b) /\ CookiesApart(M, b) /\ SentUnspent(M, S, b)
    BY DEF OrphansBlamed, CookiesApart, SentUnspent
  <1>4. SpentAnswered(M, k, S, b)
    BY DEF SpentAnswered, NetTyped
  <1> QED BY <1>1, <1>2, <1>3, <1>4

\* A request ends and the jar takes the cookie of its answer, or none.
LEMMA TakeAnswer ==
  ASSUME NEW N, NEW k, NEW I, NEW S, NEW b, NEW r \in N, NetSound(N, k, I, S, b),
         NEW j, j = 0 \/ (r.state = "ok" /\ r.kind # "logout" /\ j = r.new)
  PROVE  NetSound(N \ {r}, j, I, S, b)
  <1> DEFINE M == N \ {r}
  <1> USE DEF NetSound
  <1>0. RequestOK(r, k, I, S)
    OBVIOUS
  <1>j. j = 0 \/ (r.new # 0 /\ j = r.new /\ j \in I \ S)
    BY <1>0 DEF RequestOK
  <1>1. NetTyped(M, j, I, S, b)
    BY <1>j, FS_RemoveElement DEF NetTyped
  <1>2. \A q \in M : RequestOK(q, j, I, S)
    BY <1>j DEF RequestOK, AnswersApart
  <1>3. AnswersApart(M) /\ OneRefresh(M)
    BY DEF AnswersApart, OneRefresh
  <1>4. OrphansBlamed(M, b) /\ CookiesApart(M, b) /\ SentUnspent(M, S, b)
    BY DEF OrphansBlamed, CookiesApart, SentUnspent
  <1>5. SpentAnswered(M, j, S, b)
    BY <1>j DEF SpentAnswered, NetTyped
  <1> QED BY <1>1, <1>2, <1>3, <1>4, <1>5

\* The server refuses, or the request or its answer is lost: the request ends or
\* waits to be told.
LEMMA Refuse ==
  ASSUME NEW N, NEW k, NEW I, NEW S, NEW b, NEW r \in N, NetSound(N, k, I, S, b),
         r.state = "ok" => b \/ r.cookie = 0,
         NEW X \in {{}, {[r EXCEPT !.state = "refused", !.new = 0]}}
  PROVE  NetSound((N \ {r}) \cup X, k, I, S, b)
  <1>1. NetSound(N \ {r}, k, I, S, b)
    BY DropRequest
  <1>2. CASE X = {}
    BY <1>1, <1>2
  <1>3. CASE X # {}
    <2> DEFINE M == (N \ {r}) \cup X
    <2>n. PICK n : n = [r EXCEPT !.state = "refused", !.new = 0]
      OBVIOUS
    <2>0. r \in SessionRequest
      BY DEF NetSound, NetTyped
    <2>1. /\ n \in SessionRequest /\ n.state = "refused" /\ n.new = 0
          /\ n.kind = r.kind /\ n.cookie = r.cookie /\ n.doc = r.doc
      BY <2>n, <2>0 DEF SessionRequest
    <2>m. M = (N \ {r}) \cup {n}
      BY <1>3, <2>n
    <2> HIDE DEF M
    <2> USE DEF NetSound
    <2>2. NetTyped(M, k, I, S, b)
      BY <1>1, <2>m, <2>1, FS_AddElement DEF NetTyped
    <2>3. \A q \in M : RequestOK(q, k, I, S)
      BY <2>m, <2>1 DEF RequestOK
    <2>4. AnswersApart(M)
      BY <2>m, <2>1 DEF AnswersApart
    <2>5. OneRefresh(M)
      BY <2>m, <2>1 DEF OneRefresh
    <2>6. OrphansBlamed(M, b)
      BY <2>m, <2>1 DEF OrphansBlamed
    <2>7. CookiesApart(M, b)
      BY <2>m, <2>1 DEF CookiesApart
    <2>8. SpentAnswered(M, k, S, b)
      BY <1>1, <2>m DEF SpentAnswered
    <2>9. SentUnspent(M, S, b)
      BY <2>m, <2>1 DEF SentUnspent
    <2> QED BY <2>2, <2>3, <2>4, <2>5, <2>6, <2>7, <2>8, <2>9 DEF M
  <1> QED BY <1>2, <1>3

\* The server accepts: the answer carries a new token n, or 0 if a logout is
\* answered, and the tokens of C, at most the one presented, are spent.
LEMMA Accept ==
  ASSUME NEW N, NEW k, NEW I, NEW S, NEW b, NEW r \in N, NetSound(N, k, I, S, b),
         r.state = "sent", NEW n \in Nat, n \notin I,
         n = 0 => r.kind = "logout",
         NEW C, C \subseteq {r.cookie} \cap I
  PROVE  NetSound((N \ {r}) \cup {[r EXCEPT !.state = "ok", !.new = n]},
                  k, I \cup ({n} \ {0}), S \cup C, b)
  <1> DEFINE M == (N \ {r}) \cup {[r EXCEPT !.state = "ok", !.new = n]}
             J == I \cup ({n} \ {0})
             T == S \cup C
  <1>m. PICK m : m = [r EXCEPT !.state = "ok", !.new = n]
    OBVIOUS
  <1>0. r \in SessionRequest /\ IsFiniteSet(N) /\ IsFiniteSet(I)
    BY DEF NetSound, NetTyped
  <1>1. /\ m \in SessionRequest /\ m.state = "ok" /\ m.new = n
        /\ m.kind = r.kind /\ m.cookie = r.cookie /\ m.doc = r.doc
    BY <1>m, <1>0 DEF SessionRequest
  <1>M. M = (N \ {r}) \cup {m}
    BY <1>m
  <1>n. \A q \in N : q.new # n \/ n = 0
    BY DEF NetSound, RequestOK
  <1>c. \A q \in N : q.cookie # n \/ n = 0
    BY DEF NetSound, RequestOK
  <1> HIDE DEF M
  <1> USE DEF NetSound
  <1>2. NetTyped(M, k, J, T, b)
    <2>1. IsFiniteSet(N \ {r})
      BY <1>0, FS_RemoveElement
    <2>2. IsFiniteSet(M)
      BY <2>1, <1>M, FS_AddElement
    <2>3. IsFiniteSet(J)
      <3>1. CASE n = 0
        BY <1>0, <3>1
      <3>2. CASE n # 0
        BY <1>0, <3>2, FS_AddElement
      <3> QED BY <3>1, <3>2
    <2> QED BY <2>2, <2>3, <1>1, <1>M DEF NetTyped
  <1>3. \A q \in M : RequestOK(q, k, J, T)
    <2>1. RequestOK(m, k, J, T)
      <3>1. n # k \/ n = 0
        BY DEF NetTyped
      <3> QED BY <3>1, <1>1, <1>c DEF RequestOK, NetTyped
    <2>2. ASSUME NEW q \in N \ {r} PROVE RequestOK(q, k, J, T)
      BY DEF RequestOK, AnswersApart
    <2> QED BY <2>1, <2>2, <1>M
  <1>4. AnswersApart(M)
    BY <1>M, <1>1, <1>n, <1>c DEF AnswersApart
  <1>5. OneRefresh(M)
    BY <1>M, <1>1 DEF OneRefresh
  <1>6. OrphansBlamed(M, b)
    BY <1>M, <1>1 DEF OrphansBlamed
  <1>7. CookiesApart(M, b)
    BY <1>M, <1>1 DEF CookiesApart
  <1>8. SpentAnswered(M, k, T, b)
    <2>1. CASE k \in S
      BY <2>1, <1>M DEF SpentAnswered
    <2>2. CASE k \in C
      BY <2>2, <1>M, <1>1 DEF SpentAnswered
    <2> QED BY <2>1, <2>2 DEF SpentAnswered
  <1>9. SentUnspent(M, T, b)
    BY <1>M, <1>1 DEF SentUnspent, CookiesApart, NetTyped
  <1> QED BY <1>2, <1>3, <1>4, <1>5, <1>6, <1>7, <1>8, <1>9 DEF M

-----------------------------------------------------------------------------
(* What the screen shows and what the requests of a document mean for it.   *)

ScreenTyped ==
  /\ token \in {"none", "fresh", "expired"} /\ valid \subseteq issued
  /\ path \in [Docs -> {"app", "public", "login"}]
  /\ user \in [Docs -> BOOLEAN] /\ initializing \in [Docs -> BOOLEAN]
  /\ loggingOut \in [Docs -> BOOLEAN]
  /\ leaving \in [Docs -> {"no", "login", "public"}]
  /\ submitting \in [Docs -> BOOLEAN] /\ isRefreshing \in [Docs -> BOOLEAN]
  /\ call \in [Calls -> Call] /\ budget \in Nat

\* No call of the document is under way.
QuietDoc(d) == \A c \in Calls : Owner[c] = d => call[c].state \in {"idle", "over"}

\* A document that waits for its probe knows no user; one without a user, or on
\* the login page, makes no calls unless it is being replaced.
PageOK ==
  \A d \in Docs :
    /\ initializing[d] => ~user[d]
    /\ user[d] \/ leaving[d] # "no" \/ QuietDoc(d)
    /\ path[d] = "login" => leaving[d] # "no" \/ QuietDoc(d)

\* The form is sent by a page that does not wait for its probe; a refresh is
\* marked in its document; a document whose probe carries the cookie of the jar
\* knows no user and makes no calls.
DocOK(r) ==
  /\ r.kind = "login" => ~initializing[r.doc]
  /\ r.kind = "refresh" => isRefreshing[r.doc]
  /\ r.kind = "probe" /\ r.cookie = cookie /\ cookie # 0
       => ~user[r.doc] /\ QuietDoc(r.doc)

DocsOK == \A r \in net : r.doc \in Docs => DocOK(r)

BrowserSound == NetSound(net, cookie, issued, spent, blamed)

BrowserInv ==
  BrowserSound /\ ScreenTyped /\ PageOK /\ DocsOK /\ QueueServed

\* There is always an identifier that no request under way has.
LEMMA FreeIdIsNat ==
  ASSUME IsFiniteSet(net), net \subseteq SessionRequest
  PROVE  FreeId \in Nat
  <1> DEFINE n == Cardinality(net)
             ids == {r.id : r \in net}
             f == [r \in net |-> r.id]
  <1>1. n \in Nat
    BY FS_CardinalityType
  <1>2. f \in Surjection(net, ids)
    BY DEF Surjection
  <1>3. IsFiniteSet(ids) /\ Cardinality(ids) <= n
    BY <1>2, FS_Surjection
  <1>4. Cardinality(0 .. n) = n + 1
    BY <1>1, FS_Interval
  <1>5. ASSUME 0 .. n \subseteq ids PROVE FALSE
    <2>1. Cardinality(0 .. n) <= Cardinality(ids)
      BY <1>3, <1>5, FS_Subset
    <2>2. Cardinality(ids) \in Nat
      BY <1>3, FS_CardinalityType
    <2> QED BY <1>1, <1>3, <1>4, <2>1, <2>2
  <1>6. \E i \in 0 .. n : \A r \in net : r.id # i
    BY <1>5
  <1>7. FreeId \in 0 .. n
    BY <1>6 DEF FreeId
  <1> QED BY <1>7, <1>1

\* What a new request is.
LEMMA NewRequestIs ==
  ASSUME BrowserSound, NEW d \in Docs, NEW k \in {"refresh", "probe", "login", "logout"},
         NEW fresh \in BOOLEAN, NEW c \in Nat, NEW n, n = NewRequest(d, k, fresh, c)
  PROVE  /\ n \in SessionRequest /\ n.doc = d /\ n.kind = k /\ n.cookie = c
         /\ n.state = "sent" /\ n.new = 0
  <1>1. FreeId \in Nat
    BY FreeIdIsNat DEF BrowserSound, NetSound, NetTyped
  <1> QED BY <1>1 DEF NewRequest, SessionRequest

\* Where nobody else has presented the cookie of the jar, a request that carries
\* it is the document's own refresh or probe.
LEMMA OnlyOwn ==
  ASSUME BrowserSound, NEW d \in Docs, ~Presented(d), cookie # 0, NEW r \in net,
         r.cookie = cookie
  PROVE  r.doc = d /\ r.kind \in Asking
  BY DEF BrowserSound, NetSound, NetTyped, RequestOK, Presented, SessionRequest, Asking

\* The jar holds a number.
LEMMA CookieIsNat == BrowserSound => cookie \in Nat /\ cookie \in issued \cup {0} /\ blamed \in BOOLEAN
  BY DEF BrowserSound, NetSound, NetTyped

\* A document sends the cookie of the jar.
LEMMA Present ==
  ASSUME BrowserSound, NEW d \in Docs, NEW k \in {"refresh", "probe", "logout"},
         NEW fresh \in BOOLEAN, NEW b \in BOOLEAN, blamed => b,
         k = "refresh" => \A q \in net : ~(q.kind = "refresh" /\ q.doc = d),
         ~b /\ cookie # 0 => \A q \in net : q.cookie # cookie
  PROVE  NetSound(net \cup {NewRequest(d, k, fresh, cookie)}, cookie, issued, spent, b)
  <1> DEFINE n == NewRequest(d, k, fresh, cookie)
  <1>1. NetSound(net, cookie, issued, spent, b)
    BY Blame DEF BrowserSound
  <1>2. /\ n \in SessionRequest /\ n.doc = d /\ n.kind = k /\ n.cookie = cookie
        /\ n.state = "sent" /\ n.new = 0
    <2>1. n = NewRequest(d, k, fresh, cookie)
      OBVIOUS
    <2> HIDE DEF n
    <2> QED BY <2>1, NewRequestIs, CookieIsNat
  <1> HIDE DEF n
  <1>3. ~b => cookie \notin spent
    BY <1>1 DEF NetSound, NetTyped, SpentAnswered
  <1>4. \A q \in net : q.new # 0 => cookie # q.new
    BY <1>1 DEF NetSound, RequestOK
  <1>5. n.doc # Gone /\ n.cookie \in issued \cup {0} /\ n.kind # "login"
    BY <1>2, CookieIsNat, BrowserAssumption
  <1> QED BY <1>1, <1>2, <1>3, <1>4, <1>5, AddRequest DEF n

-----------------------------------------------------------------------------
(* Steps that leave the requests and the cookies alone.                     *)

\* The requests under way, the jar and the store stay.
Still == UNCHANGED <<cookie, issued, valid, spent, net, blamed>>

\* Then what is said of the requests stays.
LEMMA StillSound == BrowserSound /\ Still => BrowserSound'
  BY DEF BrowserSound, Still

\* The valve of the probe opens the page.
LEMMA SafetyTimerStep ==
  ASSUME BrowserInv, NEW d \in Docs, SafetyTimer(d)
  PROVE  BrowserInv'
  <1> USE DEF BrowserInv, SafetyTimer, jar, store
  <1>1. BrowserSound'
    BY StillSound DEF Still
  <1>2. ScreenTyped'
    BY DEF ScreenTyped
  <1>3. PageOK'
    BY DEF PageOK, QuietDoc, ScreenTyped
  <1>4. DocsOK'
    BY DEF DocsOK, DocOK, QuietDoc, ScreenTyped
  <1>5. QueueServed'
    BY DEF QueueServed
  <1> QED BY <1>1, <1>2, <1>3, <1>4, <1>5

\* The valve of the logout.
LEMMA LogoutValveStep ==
  ASSUME BrowserInv, NEW d \in Docs, LogoutValve(d)
  PROVE  BrowserInv'
  <1> USE DEF BrowserInv, LogoutValve, jar, store
  <1>1. BrowserSound'
    BY StillSound DEF Still
  <1>2. ScreenTyped'
    BY DEF ScreenTyped
  <1>3. PageOK'
    BY DEF PageOK, QuietDoc
  <1>4. DocsOK'
    BY DEF DocsOK, DocOK, QuietDoc
  <1>5. QueueServed'
    BY DEF QueueServed
  <1> QED BY <1>1, <1>2, <1>3, <1>4, <1>5

\* A document shows another page; it comes to the login page without a user.
LEMMA MoveStep ==
  ASSUME BrowserInv, NEW d \in Docs, NEW p \in {"app", "public", "login"}, Move(d, p),
         p = "login" => ~user[d], budget' \in Nat
  PROVE  BrowserInv'
  <1> USE DEF BrowserInv, Move, jar, store
  <1>1. BrowserSound'
    BY StillSound DEF Still
  <1>2. ScreenTyped'
    BY DEF ScreenTyped
  <1>3. PageOK'
    BY DEF PageOK, QuietDoc, ScreenTyped
  <1>4. DocsOK'
    BY DEF DocsOK, DocOK, QuietDoc
  <1>5. QueueServed'
    BY DEF QueueServed
  <1> QED BY <1>1, <1>2, <1>3, <1>4, <1>5

\* A link, a guard or the login page moves the document.
LEMMA RouteStep ==
  ASSUME BrowserInv, NEW d \in Docs,
         \/ \E p \in {"app", "public", "login"} : Go(d, p)
         \/ GuardRedirect(d) \/ LoginRedirect(d)
  PROVE  BrowserInv'
  <1>0. budget' \in Nat
    BY DEF BrowserInv, ScreenTyped, Go, GuardRedirect, LoginRedirect, Spend
  <1>1. ASSUME NEW p \in {"app", "public", "login"}, Go(d, p) PROVE BrowserInv'
    <2> DEFINE t == IF p = "login" /\ ~initializing[d] /\ user[d] THEN "app" ELSE p
    <2>1. Move(d, t)
      BY <1>1 DEF Go
    <2>2. t = "login" => ~user[d]
      BY DEF BrowserInv, PageOK
    <2>3. t \in {"app", "public", "login"}
      OBVIOUS
    <2> QED BY <2>1, <2>2, <2>3, <1>0, MoveStep
  <1>2. CASE GuardRedirect(d)
    BY <1>2, <1>0, MoveStep DEF GuardRedirect
  <1>3. CASE LoginRedirect(d)
    BY <1>3, <1>0, MoveStep DEF LoginRedirect
  <1> QED BY <1>1, <1>2, <1>3

\* A page makes a call: it has a user and is not the login page.
LEMMA SendCallStep ==
  ASSUME BrowserInv, NEW c \in Calls, SendCall(c)
  PROVE  BrowserInv'
  <1> USE BrowserAssumption DEF BrowserInv, SendCall, Quiet, jar, store, screen
  <1>1. BrowserSound'
    BY StillSound DEF Still
  <1>2. ScreenTyped'
    BY DEF ScreenTyped, Call
  <1>3. PageOK'
    BY DEF PageOK, QuietDoc, ScreenTyped, Renders
  <1>4. DocsOK'
    BY DEF DocsOK, DocOK, QuietDoc, ScreenTyped, Renders
  <1>5. QueueServed'
    BY DEF QueueServed, ScreenTyped
  <1> QED BY <1>1, <1>2, <1>3, <1>4, <1>5

\* A call is over.
LEMMA CallEndsStep ==
  ASSUME BrowserInv, NEW c \in Calls, CallEnds(c)
  PROVE  BrowserInv'
  <1> USE DEF BrowserInv, CallEnds, jar, store, screen, Over, Quiet
  <1>1. BrowserSound'
    BY StillSound DEF Still
  <1>2. ScreenTyped'
    BY DEF ScreenTyped, Call
  <1>3. PageOK'
    BY DEF PageOK, QuietDoc, ScreenTyped
  <1>4. DocsOK'
    BY DEF DocsOK, DocOK, QuietDoc, ScreenTyped
  <1>5. QueueServed'
    BY DEF QueueServed, ScreenTyped
  <1> QED BY <1>1, <1>2, <1>3, <1>4, <1>5

-----------------------------------------------------------------------------
(* Steps that send a request.                                              *)

\* A 401 joins the queue, or leads a refresh with the cookie of the jar.
LEMMA UnauthorisedStep ==
  ASSUME BrowserInv, NEW c \in Calls, Unauthorised(c)
  PROVE  BrowserInv'
  <1> DEFINE d == Owner[c]
             s == IF isRefreshing[d] THEN "queued" ELSE "refreshing"
             n == NewRequest(d, "refresh", FALSE, cookie)
  <1> USE DEF BrowserInv
  <1>d. d \in Docs
    BY BrowserAssumption
  <1>0. /\ call[c].state = "sent"
        /\ UNCHANGED <<token, cookie, issued, valid, spent, path, user, initializing,
                       loggingOut, leaving, submitting, budget>>
        /\ call' = [call EXCEPT ![c].state = s, ![c].retried = TRUE]
    BY DEF Unauthorised, jar, store, screen
  <1>1. CASE isRefreshing[d]
    <2>0. UNCHANGED <<isRefreshing, net, blamed>> /\ s = "queued"
      BY <1>1 DEF Unauthorised
    <2> HIDE DEF s
    <2>1. BrowserSound'
      BY <1>0, <2>0, StillSound DEF Still
    <2>2. ScreenTyped'
      BY <1>0, <2>0 DEF ScreenTyped, Call
    <2>3. PageOK'
      BY <1>0, <2>0 DEF PageOK, QuietDoc, ScreenTyped, Call
    <2>4. DocsOK'
      BY <1>0, <2>0 DEF DocsOK, DocOK, QuietDoc, ScreenTyped, Call
    <2>5. QueueServed'
      BY <1>0, <1>1, <2>0 DEF QueueServed, ScreenTyped, Call
    <2> QED BY <2>1, <2>2, <2>3, <2>4, <2>5
  <1>2. CASE ~isRefreshing[d]
    <2>0. /\ isRefreshing' = [isRefreshing EXCEPT ![d] = TRUE]
          /\ net' = net \cup {n} /\ blamed' = (blamed \/ Presented(d))
          /\ s = "refreshing"
      BY <1>2 DEF Unauthorised
    <2>n. n \in SessionRequest /\ n.doc = d /\ n.kind = "refresh"
      <3>1. PICK f \in BOOLEAN : f = FALSE
        OBVIOUS
      <3>2. n = NewRequest(d, "refresh", f, cookie)
        BY <3>1
      <3> HIDE DEF n
      <3> QED BY <3>2, <1>d, CookieIsNat, NewRequestIs
    <2>a. \A q \in net : ~(q.kind = "refresh" /\ q.doc = d)
      BY <1>2, <1>d DEF DocsOK, DocOK
    <2>b. ASSUME ~blamed', cookie # 0, NEW q \in net, q.cookie = cookie PROVE FALSE
      <3>1. q.doc = d /\ q.kind \in Asking
        BY <2>b, <2>0, <1>d, OnlyOwn
      <3>2. q.kind = "probe"
        BY <3>1, <2>a DEF Asking
      <3>3. QuietDoc(d)
        BY <3>1, <3>2, <2>b, <1>d DEF DocsOK, DocOK
      <3> QED BY <3>3, <1>0 DEF QuietDoc
    <2>1. BrowserSound'
      <3>1. blamed' \in BOOLEAN /\ (blamed => blamed')
        BY <2>0, CookieIsNat
      <3>2. NetSound(net \cup {n}, cookie, issued, spent, blamed')
        BY <3>1, <2>a, <2>b, <1>d, Present
      <3> QED BY <3>2, <2>0, <1>0 DEF BrowserSound
    <2> HIDE DEF s, n
    <2>2. ScreenTyped'
      BY <1>0, <2>0 DEF ScreenTyped, Call
    <2>3. PageOK'
      BY <1>0, <2>0 DEF PageOK, QuietDoc, ScreenTyped, Call
    <2>4. DocsOK'
      BY <1>0, <2>0, <2>n DEF DocsOK, DocOK, QuietDoc, ScreenTyped, Call
    <2>5. QueueServed'
      BY <1>0, <2>0 DEF QueueServed, ScreenTyped, Call
    <2> QED BY <2>1, <2>2, <2>3, <2>4, <2>5
  <1> QED BY <1>1, <1>2

\* The login form is sent, without a cookie.
LEMMA LoginStep ==
  ASSUME BrowserInv, NEW d \in Docs, Login(d)
  PROVE  BrowserInv'
  <1> DEFINE n == NewRequest(d, "login", FALSE, 0)
  <1> USE DEF BrowserInv
  <1>0. /\ ~initializing[d] /\ net' = net \cup {n} /\ budget' = budget - 1 /\ budget > 0
        /\ submitting' = [submitting EXCEPT ![d] = TRUE]
        /\ UNCHANGED <<token, cookie, issued, valid, spent, path, user, initializing,
                       loggingOut, leaving, isRefreshing, call, blamed>>
    BY DEF Login, jar, store, Spend
  <1>n. /\ n \in SessionRequest /\ n.doc = d /\ n.kind = "login" /\ n.cookie = 0
        /\ n.state = "sent" /\ n.new = 0 /\ n.doc # Gone
    <2>1. n \in SessionRequest /\ n.doc = d /\ n.kind = "login" /\ n.cookie = 0
            /\ n.state = "sent" /\ n.new = 0
      <3>1. PICK f \in BOOLEAN : f = FALSE
        OBVIOUS
      <3>2. n = NewRequest(d, "login", f, 0)
        BY <3>1
      <3> HIDE DEF n
      <3> QED BY <3>2, NewRequestIs
    <2> QED BY <2>1, BrowserAssumption
  <1> HIDE DEF n
  <1>1. BrowserSound'
    BY <1>0, <1>n, AddRequest DEF BrowserSound, Asking
  <1>2. ScreenTyped'
    BY <1>0 DEF ScreenTyped
  <1>3. PageOK'
    BY <1>0 DEF PageOK, QuietDoc
  <1>4. DocsOK'
    BY <1>0, <1>n DEF DocsOK, DocOK, QuietDoc
  <1>5. QueueServed'
    BY <1>0 DEF QueueServed
  <1> QED BY <1>1, <1>2, <1>3, <1>4, <1>5

\* A logout sends the cookie of the jar, whoever else has.
LEMMA LogoutStep ==
  ASSUME BrowserInv, NEW d \in Docs, Logout(d)
  PROVE  BrowserInv'
  <1> DEFINE n == NewRequest(d, "logout", token = "fresh", cookie)
  <1> USE DEF BrowserInv
  <1>0. /\ net' = net \cup {n} /\ budget' = budget - 1 /\ budget > 0
        /\ blamed' = (blamed \/ Presented(d) \/ Of(d, {"refresh", "probe"}) # {})
        /\ loggingOut' = [loggingOut EXCEPT ![d] = TRUE]
        /\ token' = "none" /\ user' = [user EXCEPT ![d] = FALSE]
        /\ leaving' = [leaving EXCEPT ![d] = "public"]
        /\ UNCHANGED <<cookie, issued, valid, spent, path, initializing, submitting,
                       isRefreshing, call>>
    BY DEF Logout, store, Spend
  <1>n. n \in SessionRequest /\ n.doc = d /\ n.kind = "logout"
    <2>1. PICK f \in BOOLEAN : f = (token = "fresh")
      OBVIOUS
    <2>2. n = NewRequest(d, "logout", f, cookie)
      BY <2>1
    <2> HIDE DEF n
    <2> QED BY <2>2, CookieIsNat, NewRequestIs
  <1>b. ASSUME ~blamed', cookie # 0, NEW q \in net, q.cookie = cookie PROVE FALSE
    <2>1. q.doc = d /\ q.kind \in Asking
      BY <1>b, <1>0, OnlyOwn
    <2> QED BY <2>1, <1>b, <1>0 DEF Of, Asking
  <1>1. BrowserSound'
    <2>1. blamed' \in BOOLEAN /\ (blamed => blamed')
      BY <1>0, CookieIsNat
    <2>2. NetSound(net \cup {n}, cookie, issued, spent, blamed')
      BY <2>1, <1>b, Present
    <2> QED BY <2>2, <1>0 DEF BrowserSound
  <1> HIDE DEF n
  <1>2. ScreenTyped'
    BY <1>0 DEF ScreenTyped
  <1>3. PageOK'
    BY <1>0 DEF PageOK, QuietDoc, ScreenTyped
  <1>4. DocsOK'
    BY <1>0, <1>n DEF DocsOK, DocOK, QuietDoc, ScreenTyped
  <1>5. QueueServed'
    BY <1>0 DEF QueueServed, ScreenTyped
  <1> QED BY <1>1, <1>2, <1>3, <1>4, <1>5

\* What LoadDocument makes of the requests of document d.
Orphaned(d) ==
  [r \in net |-> IF r.doc = d THEN [r EXCEPT !.doc = Gone] ELSE r]

\* The requests of a document that is gone have no document; their refreshes
\* are blamed.
LEMMA OrphansSound ==
  ASSUME BrowserSound, NEW d \in Docs, NEW b \in BOOLEAN, blamed => b,
         \A r \in net : r.doc = d /\ r.kind \in Asking => b
  PROVE  NetSound({Orphaned(d)[r] : r \in net}, cookie, issued, spent, b)
  <1> DEFINE f == Orphaned(d)
  <1>1. NetSound(net, cookie, issued, spent, b)
    BY Blame DEF BrowserSound
  <1>2. \A r \in net : r \in SessionRequest
    BY DEF BrowserSound, NetSound, NetTyped
  <1>3. \A r \in net : f[r] \in SessionRequest /\ Like(f[r], r) /\ f[r].doc \in {r.doc, Gone}
    BY <1>2 DEF Orphaned, Like, SessionRequest
  <1>4. f \in [net -> SessionRequest]
    BY <1>3 DEF Orphaned
  <1>5. \A r \in net : f[r].doc = Gone /\ r.kind \in Asking => b
    BY <1>1 DEF Orphaned, NetSound, OrphansBlamed
  <1> HIDE DEF f
  <1>6. NetSound({f[r] : r \in net}, cookie, issued, spent, b)
    BY <1>1, <1>3, <1>4, <1>5, MapRequests
  <1> QED BY <1>6 DEF f

\* A document is loaded; with an expired token it probes the cookie.
LEMMA LoadStep ==
  ASSUME BrowserInv, NEW d \in Docs, NEW p \in {"app", "public", "login"},
         LoadDocument(d, p), budget' \in Nat
  PROVE  BrowserInv'
  <1> DEFINE had == token = "expired"
             K == {Orphaned(d)[r] : r \in net}
             n == NewRequest(d, "probe", FALSE, cookie)
             orphans == {[r EXCEPT !.doc = Gone] : r \in {q \in net : q.doc = d}}
  <1> USE DEF BrowserInv
  <1>k. K = {q \in net : q.doc # d} \cup orphans
    BY DEF Orphaned
  <1>0. /\ path' = [path EXCEPT ![d] = p]
        /\ user' = [user EXCEPT ![d] = token = "fresh"]
        /\ initializing' = [initializing EXCEPT ![d] = had]
        /\ token' = IF had THEN "none" ELSE token
        /\ loggingOut' = [loggingOut EXCEPT ![d] = FALSE]
        /\ leaving' = [leaving EXCEPT ![d] = "no"]
        /\ submitting' = [submitting EXCEPT ![d] = FALSE]
        /\ isRefreshing' = [isRefreshing EXCEPT ![d] = FALSE]
        /\ call' = [c \in Calls |-> IF Owner[c] = d /\ call[c].state # "idle"
                                    THEN Over ELSE call[c]]
        /\ UNCHANGED <<cookie, issued, valid, spent>>
    BY DEF LoadDocument, store
  <1>b. blamed' = (blamed \/ (had /\ Presented(d))
                          \/ \E r \in orphans : r.kind \in {"refresh", "probe"})
    BY DEF LoadDocument
  <1>m. net' = K \cup IF had THEN {n} ELSE {}
    BY <1>k DEF LoadDocument
  <1>r. \A r \in net : r \in SessionRequest
    BY DEF BrowserSound, NetSound, NetTyped
  <1>n. n \in SessionRequest /\ n.doc = d /\ n.kind = "probe" /\ n.cookie = cookie
        /\ n.state = "sent" /\ n.new = 0
    <2>1. PICK f \in BOOLEAN : f = FALSE
      OBVIOUS
    <2>2. n = NewRequest(d, "probe", f, cookie)
      BY <2>1
    <2> HIDE DEF n
    <2> QED BY <2>2, CookieIsNat, NewRequestIs
  <1>o. \A r \in net : r.doc = d /\ r.kind \in Asking => blamed'
    <2> SUFFICES ASSUME NEW r \in net, r.doc = d, r.kind \in Asking PROVE blamed'
      OBVIOUS
    <2> DEFINE m == [r EXCEPT !.doc = Gone]
    <2>1. m \in orphans
      OBVIOUS
    <2>2. m.kind = r.kind
      BY <1>r DEF SessionRequest
    <2> QED BY <2>1, <2>2, <1>b DEF Asking
  <1>q. \A m \in K : m.doc \in Docs => m \in net /\ m.doc # d
    BY <1>r, <1>k, BrowserAssumption DEF SessionRequest
  <1>c. \A m \in K : \E r \in net : m.cookie = r.cookie /\ m.kind = r.kind /\ m.new = r.new
    BY <1>r, <1>k DEF SessionRequest
  <1>B. blamed' \in BOOLEAN /\ (blamed => blamed')
    BY <1>b, CookieIsNat
  <1> HIDE DEF K, n, orphans
  <1>1. BrowserSound'
    <2>1. NetSound(K, cookie, issued, spent, blamed')
      BY <1>B, <1>o, OrphansSound DEF K
    <2>2. CASE ~had
      BY <2>1, <2>2, <1>0, <1>m DEF BrowserSound
    <2>3. CASE had
      <3>1. ASSUME ~blamed', cookie # 0, NEW m \in K, m.cookie = cookie PROVE FALSE
        <4>1. PICK r \in net : m.cookie = r.cookie
          BY <1>c
        <4>2. ~Presented(d)
          BY <3>1, <2>3, <1>b
        <4>3. r.doc = d /\ r.kind \in Asking
          BY <3>1, <4>1, <4>2, OnlyOwn
        <4> QED BY <4>3, <1>o, <3>1
      <3>2. \A m \in K : m.new # 0 => cookie # m.new
        BY <2>1 DEF NetSound, RequestOK
      <3>3. ~blamed' => cookie \notin spent
        BY <3>1, <2>1 DEF NetSound, NetTyped, SpentAnswered
      <3>4. n.doc # Gone /\ n.cookie \in issued \cup {0}
        BY <1>n, CookieIsNat, BrowserAssumption
      <3>5. NetSound(K \cup {n}, cookie, issued, spent, blamed')
        BY <2>1, <3>1, <3>2, <3>3, <3>4, <1>n, AddRequest
      <3> QED BY <3>5, <2>3, <1>0, <1>m DEF BrowserSound
    <2> QED BY <2>2, <2>3
  <1>s. Over \in Call /\ Over.state = "over"
    BY DEF Over, Quiet, Call
  <1>2. ScreenTyped'
    BY <1>0, <1>s DEF ScreenTyped
  <1>u. QuietDoc(d)'
    BY <1>0, <1>s DEF QuietDoc
  <1>v. \A e \in Docs : QuietDoc(e) => QuietDoc(e)'
    BY <1>0, <1>s DEF QuietDoc
  <1>3. PageOK'
    BY <1>0, <1>u, <1>v DEF PageOK, ScreenTyped
  <1>4. DocsOK'
    <2> SUFFICES ASSUME NEW m \in net', m.doc \in Docs PROVE DocOK(m)'
      BY DEF DocsOK
    <2>1. CASE m \in K
      BY <2>1, <1>q, <1>0, <1>v DEF DocsOK, DocOK, ScreenTyped
    <2>2. CASE m = n /\ had
      BY <2>2, <1>n, <1>0, <1>u DEF DocOK, ScreenTyped
    <2> QED BY <2>1, <2>2, <1>m
  <1>5. QueueServed'
    BY <1>0, <1>s DEF QueueServed, ScreenTyped
  <1> QED BY <1>1, <1>2, <1>3, <1>4, <1>5

-----------------------------------------------------------------------------
(* Steps that end or answer a request.                                      *)

\* The screen stays as it is.
ScreenStill ==
  UNCHANGED <<token, path, user, initializing, loggingOut, leaving, submitting,
              isRefreshing, call>>

\* Then what is said of it stays, whatever was spent.
LEMMA StillScreen ==
  ASSUME ScreenTyped, PageOK, QueueServed, ScreenStill, budget' = budget,
         valid' \subseteq issued'
  PROVE  ScreenTyped' /\ PageOK' /\ QueueServed'
  BY DEF ScreenTyped, PageOK, QueueServed, ScreenStill, QuietDoc

\* Every request of a document was one of that document.
NetKept ==
  \A m \in net' : m.doc \in Docs =>
    \E q \in net : q.doc = m.doc /\ q.kind = m.kind /\ q.cookie = m.cookie

\* Then what is said of the documents' requests stays.
LEMMA KeptDocs ==
  ASSUME DocsOK, ScreenStill, NetKept, cookie' = cookie
  PROVE  DocsOK'
  <1> SUFFICES ASSUME NEW m \in net', m.doc \in Docs PROVE DocOK(m)'
    BY DEF DocsOK
  <1>1. PICK q \in net : q.doc = m.doc /\ q.kind = m.kind /\ q.cookie = m.cookie
    BY DEF NetKept
  <1>2. DocOK(q)
    BY <1>1 DEF DocsOK
  <1> QED BY <1>1, <1>2 DEF DocOK, ScreenStill, QuietDoc

\* An answer keeps the requests of the documents.
LEMMA AnsweredKept ==
  ASSUME BrowserSound, NEW r \in net, NEW s, NEW n, Answered(r, s, n)
  PROVE  NetKept
  <1>1. r \in SessionRequest
    BY DEF BrowserSound, NetSound, NetTyped
  <1>2. PICK m : m = [r EXCEPT !.state = s, !.new = n]
    OBVIOUS
  <1>3. m.doc = r.doc /\ m.kind = r.kind /\ m.cookie = r.cookie
    BY <1>1, <1>2 DEF SessionRequest
  <1>4. net' \subseteq net \cup {m}
    BY <1>2 DEF Answered
  <1> QED BY <1>3, <1>4 DEF NetKept

\* A request or its answer is refused or lost.
LEMMA RefusedSound ==
  ASSUME BrowserSound, NEW r \in net, Answered(r, "refused", 0),
         NEW b \in BOOLEAN, blamed => b, r.state = "ok" => b \/ r.cookie = 0
  PROVE  NetSound(net', cookie, issued, spent, b)
  <1>1. NetSound(net, cookie, issued, spent, b)
    BY Blame DEF BrowserSound
  <1>2. PICK X \in {{}, {[r EXCEPT !.state = "refused", !.new = 0]}} : net' = (net \ {r}) \cup X
    BY DEF Answered
  <1> QED BY <1>1, <1>2, Refuse

\* The number of the next token is new.
LEMMA NewTokenIs ==
  BrowserSound => NewToken \in Nat \ {0}
  <1> SUFFICES ASSUME BrowserSound PROVE NewToken \in Nat \ {0}
    OBVIOUS
  <1>1. IsFiniteSet(issued)
    BY DEF BrowserSound, NetSound, NetTyped
  <1>2. Cardinality(issued) \in Nat
    BY <1>1, FS_CardinalityType
  <1>3. NewToken = Cardinality(issued) + 1
    BY DEF NewToken
  <1> QED BY <1>2, <1>3

\* An accepted answer carries a new token, or none to a logout.
LEMMA AcceptedSound ==
  ASSUME BrowserSound, NEW r \in net, r.state = "sent", NEW n \in Nat, n \notin issued,
         n = 0 => r.kind = "logout", Answered(r, "ok", n), blamed' = blamed,
         cookie' = cookie, issued' = issued \cup ({n} \ {0}),
         NEW C, C \subseteq {r.cookie} \cap issued, spent' = spent \cup C
  PROVE  BrowserSound'
  <1>1. net' = (net \ {r}) \cup {[r EXCEPT !.state = "ok", !.new = n]}
    BY DEF Answered
  <1>2. NetSound((net \ {r}) \cup {[r EXCEPT !.state = "ok", !.new = n]},
                 cookie, issued \cup ({n} \ {0}), spent \cup C, blamed)
    BY Accept DEF BrowserSound
  <1> QED BY <1>1, <1>2 DEF BrowserSound

\* The server's steps change neither the screen nor the jar.
LEMMA ServedRest ==
  ASSUME BrowserInv, NEW r \in net, NEW s, NEW n, Answered(r, s, n),
         UNCHANGED <<token, cookie, path, user, initializing, loggingOut, leaving, submitting,
                     isRefreshing, call, budget>>,
         valid' \subseteq issued'
  PROVE  ScreenTyped' /\ PageOK' /\ DocsOK' /\ QueueServed'
  <1>1. ScreenTyped' /\ PageOK' /\ QueueServed'
    BY StillScreen DEF BrowserInv, ScreenStill
  <1>2. NetKept
    BY AnsweredKept DEF BrowserInv
  <1>3. DocsOK'
    BY <1>2, KeptDocs DEF BrowserInv, ScreenStill
  <1> QED BY <1>1, <1>3

\* POST /auth/refresh.
LEMMA ServeRefreshStep ==
  ASSUME BrowserInv, NEW r \in net, ServeRefresh(r)
  PROVE  BrowserInv'
  <1> USE DEF BrowserInv
  <1>0. /\ r.kind \in {"refresh", "probe"} /\ r.state = "sent"
        /\ UNCHANGED <<token, cookie, path, user, initializing, loggingOut, leaving,
                       submitting, isRefreshing, call, budget, blamed>>
    BY DEF ServeRefresh, jar, screen
  <1>t. valid \subseteq issued
    BY DEF ScreenTyped
  <1>1. CASE r.cookie \in valid /\ Server!Exchange(r.cookie, NewToken)
             /\ Answered(r, "ok", NewToken)
    <2> DEFINE n == NewToken
    <2>0. n \in Nat \ {0}
      BY NewTokenIs
    <2>1. /\ r.cookie \in issued /\ n \notin issued /\ issued' = issued \cup {n}
          /\ valid' = (valid \ {r.cookie}) \cup {n} /\ spent' = spent \cup {r.cookie}
      BY <1>1 DEF Server!Exchange
    <2>2. Answered(r, "ok", n)
      BY <1>1
    <2> HIDE DEF n
    <2>3. BrowserSound'
      <3>1. issued' = issued \cup ({n} \ {0}) /\ {r.cookie} \subseteq {r.cookie} \cap issued
        BY <2>0, <2>1
      <3> QED BY <3>1, <2>0, <2>1, <2>2, <1>0, AcceptedSound
    <2>4. ScreenTyped' /\ PageOK' /\ DocsOK' /\ QueueServed'
      BY <1>t, <2>1, <2>2, <1>0, ServedRest
    <2> QED BY <2>3, <2>4
  <1>2. CASE Answered(r, "refused", 0) /\ issued' = issued /\ spent' = spent
             /\ valid' \subseteq valid
    <2>1. BrowserSound'
      <3>1. NetSound(net', cookie, issued, spent, blamed)
        BY <1>2, <1>0, RefusedSound, CookieIsNat
      <3> QED BY <3>1, <1>2, <1>0 DEF BrowserSound
    <2>2. ScreenTyped' /\ PageOK' /\ DocsOK' /\ QueueServed'
      BY <1>2, <1>t, <1>0, ServedRest
    <2> QED BY <2>1, <2>2
  <1> QED BY <1>1, <1>2 DEF ServeRefresh, Server!Withdraw, store

\* POST /auth/login.
LEMMA ServeLoginStep ==
  ASSUME BrowserInv, NEW r \in net, ServeLogin(r)
  PROVE  BrowserInv'
  <1> USE DEF BrowserInv
  <1>0. /\ r.state = "sent"
        /\ UNCHANGED <<token, cookie, path, user, initializing, loggingOut, leaving,
                       submitting, isRefreshing, call, budget, blamed>>
    BY DEF ServeLogin, jar, screen
  <1>t. valid \subseteq issued
    BY DEF ScreenTyped
  <1>1. CASE Server!Grant(NewToken) /\ Answered(r, "ok", NewToken)
    <2> DEFINE n == NewToken
    <2>0. n \in Nat \ {0}
      BY NewTokenIs
    <2>1. /\ n \notin issued /\ issued' = issued \cup {n}
          /\ valid' = valid \cup {n} /\ spent' = spent
      BY <1>1 DEF Server!Grant
    <2>2. Answered(r, "ok", n)
      BY <1>1
    <2> HIDE DEF n
    <2>3. BrowserSound'
      <3>1. issued' = issued \cup ({n} \ {0}) /\ {} \subseteq {r.cookie} \cap issued
            /\ spent' = spent \cup {}
        BY <2>0, <2>1
      <3> QED BY <3>1, <2>0, <2>1, <2>2, <1>0, AcceptedSound
    <2>4. ScreenTyped' /\ PageOK' /\ DocsOK' /\ QueueServed'
      BY <1>t, <2>1, <2>2, <1>0, ServedRest
    <2> QED BY <2>3, <2>4
  <1>2. CASE Answered(r, "refused", 0) /\ UNCHANGED store
    <2>1. BrowserSound'
      <3>1. NetSound(net', cookie, issued, spent, blamed)
        BY <1>2, <1>0, RefusedSound, CookieIsNat
      <3> QED BY <3>1, <1>2, <1>0 DEF BrowserSound, store
    <2>2. ScreenTyped' /\ PageOK' /\ DocsOK' /\ QueueServed'
      BY <1>2, <1>t, <1>0, ServedRest DEF store
    <2> QED BY <2>1, <2>2
  <1> QED BY <1>1, <1>2 DEF ServeLogin

\* POST /auth/logout.
LEMMA ServeLogoutStep ==
  ASSUME BrowserInv, NEW r \in net, ServeLogout(r)
  PROVE  BrowserInv'
  <1> USE DEF BrowserInv
  <1>0. /\ r.state = "sent" /\ r.kind = "logout"
        /\ UNCHANGED <<token, cookie, path, user, initializing, loggingOut, leaving,
                       submitting, isRefreshing, call, budget, blamed>>
    BY DEF ServeLogout, jar, screen
  <1>t. valid \subseteq issued /\ 0 \notin issued
    BY DEF ScreenTyped, BrowserSound, NetSound, NetTyped
  <1>1. ASSUME Answered(r, "ok", 0),
               NEW C \in {{}, {r.cookie}}, C \subseteq issued,
               issued' = issued, spent' = spent \cup C, valid' \subseteq valid
        PROVE  BrowserInv'
    <2>1. BrowserSound'
      <3>1. issued' = issued \cup ({0} \ {0}) /\ C \subseteq {r.cookie} \cap issued
        BY <1>1
      <3> QED BY <3>1, <1>0, <1>t, <1>1, AcceptedSound
    <2>2. ScreenTyped' /\ PageOK' /\ DocsOK' /\ QueueServed'
      BY <1>1, <1>t, <1>0, ServedRest
    <2> QED BY <2>1, <2>2
  <1>2. CASE Answered(r, "refused", 0) /\ UNCHANGED store
    <2>1. BrowserSound'
      <3>1. NetSound(net', cookie, issued, spent, blamed)
        BY <1>2, <1>0, RefusedSound, CookieIsNat
      <3> QED BY <3>1, <1>2, <1>0 DEF BrowserSound, store
    <2>2. ScreenTyped' /\ PageOK' /\ DocsOK' /\ QueueServed'
      BY <1>2, <1>t, <1>0, ServedRest DEF store
    <2> QED BY <2>1, <2>2
  <1>3. CASE Answered(r, "ok", 0) /\ Server!End(r.cookie)
    <2>1. /\ {r.cookie} \subseteq issued /\ issued' = issued
          /\ spent' = spent \cup {r.cookie} /\ valid' \subseteq valid
      BY <1>3 DEF Server!End
    <2> QED BY <2>1, <1>3, <1>1
  <1>4. CASE Answered(r, "ok", 0) /\ UNCHANGED store
    <2>1. /\ {} \subseteq issued /\ issued' = issued
          /\ spent' = spent \cup {} /\ valid' \subseteq valid
      BY <1>4 DEF store
    <2> QED BY <2>1, <1>4, <1>1
  <1> QED BY <1>2, <1>3, <1>4 DEF ServeLogout

\* A request or its answer is lost; what was lost of a session is blamed.
LEMMA LoseStep ==
  ASSUME BrowserInv, NEW r \in net, Lose(r)
  PROVE  BrowserInv'
  <1> USE DEF BrowserInv
  <1>0. /\ Answered(r, "refused", 0)
        /\ blamed' = (blamed \/ (r.state = "ok" /\ r.kind # "login"))
        /\ UNCHANGED <<token, cookie, issued, valid, spent, path, user, initializing,
                       loggingOut, leaving, submitting, isRefreshing, call, budget>>
    BY DEF Lose, jar, screen, store
  <1>1. BrowserSound'
    <2>1. blamed' \in BOOLEAN /\ (blamed => blamed')
      BY <1>0, CookieIsNat
    <2>2. r.state = "ok" => blamed' \/ r.cookie = 0
      BY <1>0 DEF BrowserSound, NetSound, RequestOK
    <2>3. NetSound(net', cookie, issued, spent, blamed')
      BY <2>1, <2>2, <1>0, RefusedSound
    <2> QED BY <2>3, <1>0 DEF BrowserSound
  <1>2. ScreenTyped' /\ PageOK' /\ DocsOK' /\ QueueServed'
    BY <1>0, ServedRest DEF ScreenTyped
  <1> QED BY <1>1, <1>2

\* The access token expires, in the jar and in the requests.
LEMMA ExpireStep ==
  ASSUME BrowserInv, TokenExpires
  PROVE  BrowserInv'
  <1> DEFINE f == [r \in net |-> [r EXCEPT !.fresh = FALSE]]
  <1> USE DEF BrowserInv
  <1>0. /\ token' = "expired" /\ budget > 0 /\ budget' = budget - 1
        /\ UNCHANGED <<cookie, issued, valid, spent, path, user, initializing,
                       loggingOut, leaving, submitting, isRefreshing, call, blamed>>
    BY DEF TokenExpires, Spend, store, screen
  <1>m. net' = {f[r] : r \in net}
    BY DEF TokenExpires
  <1>r. \A r \in net : r \in SessionRequest
    BY DEF BrowserSound, NetSound, NetTyped
  <1>f. \A r \in net : f[r] \in SessionRequest /\ Like(f[r], r) /\ f[r].doc = r.doc
    BY <1>r DEF Like, SessionRequest
  <1>g. f \in [net -> SessionRequest]
    BY <1>f
  <1> HIDE DEF f
  <1>1. BrowserSound'
    <2>1. \A r \in net : f[r].doc = Gone /\ r.kind \in Asking => blamed
      BY <1>f DEF BrowserSound, NetSound, OrphansBlamed
    <2>2. NetSound({f[r] : r \in net}, cookie, issued, spent, blamed)
      BY <1>f, <1>g, <2>1, MapRequests DEF BrowserSound
    <2> QED BY <2>2, <1>m, <1>0 DEF BrowserSound
  <1>q. \A d \in Docs : QuietDoc(d)' <=> QuietDoc(d)
    BY <1>0 DEF QuietDoc
  <1>2. ScreenTyped'
    BY <1>0 DEF ScreenTyped
  <1>3. PageOK'
    BY <1>0, <1>q DEF PageOK
  <1>4. DocsOK'
    BY <1>0, <1>q, <1>m, <1>f DEF DocsOK, DocOK, Like
  <1>5. QueueServed'
    BY <1>0 DEF QueueServed
  <1> QED BY <1>1, <1>2, <1>3, <1>4, <1>5

-----------------------------------------------------------------------------
(* Answers arrive.                                                          *)

\* A request under way has a document, or none any more.
LEMMA ArrivesWhere ==
  ASSUME BrowserSound, NEW r \in net
  PROVE  r \in SessionRequest /\ (r.doc # Gone => r.doc \in Docs)
  BY DEF BrowserSound, NetSound, NetTyped, SessionRequest

\* What arrives is taken out of the network, and the jar may take its cookie.
LEMMA TakenSound ==
  ASSUME BrowserSound, NEW r \in net, net' = net \ {r}, UNCHANGED <<issued, spent, blamed>>,
         \/ cookie' = 0 \/ (r.state = "ok" /\ r.kind # "logout" /\ cookie' = r.new)
         \/ (r.state # "ok" /\ cookie' = cookie)
  PROVE  BrowserSound'
  <1>1. CASE r.state # "ok" /\ cookie' = cookie
    BY <1>1, DropRequest DEF BrowserSound
  <1>2. CASE cookie' = 0 \/ (r.state = "ok" /\ r.kind # "logout" /\ cookie' = r.new)
    BY <1>2, TakeAnswer DEF BrowserSound
  <1> QED BY <1>1, <1>2

\* No request carries the cookie that an answer has just put into the jar.
LEMMA TakenApart ==
  ASSUME BrowserSound, NEW r \in net, r.state = "ok", r.kind # "logout", NEW q \in net
  PROVE  r.new # 0 /\ q.cookie # r.new
  BY DEF BrowserSound, NetSound, RequestOK, AnswersApart

\* The refresh succeeds: what waited for it is sent again.
LEMMA RefreshOkStep ==
  ASSUME BrowserInv, NEW r \in net, RefreshOk(r)
  PROVE  BrowserInv'
  <1> DEFINE d == r.doc
  <1> USE DEF BrowserInv
  <1>0. /\ r.kind = "refresh" /\ d # Gone /\ r.state = "ok"
        /\ cookie' = r.new /\ token' = "fresh" /\ call' = Replayed(d)
        /\ isRefreshing' = [isRefreshing EXCEPT ![d] = FALSE] /\ net' = net \ {r}
        /\ UNCHANGED <<issued, valid, spent, path, user, initializing, loggingOut,
                       leaving, submitting, budget, blamed>>
    BY DEF RefreshOk, Of, store, screen
  <1>d. d \in Docs
    BY <1>0, ArrivesWhere
  <1>1. BrowserSound'
    BY <1>0, TakenSound
  <1>c. \A c \in Calls :
          /\ call'[c] \in Call
          /\ call[c].state \in {"idle", "over"} => call'[c].state = call[c].state
          /\ call'[c].state = "queued" => call[c].state = "queued" /\ Owner[c] # d
    BY <1>0 DEF ScreenTyped, Replayed, Call
  <1>q. \A e \in Docs : QuietDoc(e) => QuietDoc(e)'
    BY <1>c DEF QuietDoc
  <1>2. ScreenTyped'
    BY <1>0, <1>c DEF ScreenTyped, Replayed
  <1>3. PageOK'
    BY <1>0, <1>q DEF PageOK
  <1>4. DocsOK'
    <2> SUFFICES ASSUME NEW m \in net', m.doc \in Docs PROVE DocOK(m)'
      BY DEF DocsOK
    <2>1. m.cookie # cookie'
      BY <1>0, TakenApart
    <2>2. m.kind = "refresh" => m.doc # d
      BY <1>0, <1>d DEF BrowserSound, NetSound, OneRefresh
    <2> QED BY <1>0, <2>1, <2>2 DEF DocsOK, DocOK, ScreenTyped
  <1>5. QueueServed'
    BY <1>0, <1>c, BrowserAssumption DEF QueueServed, ScreenTyped
  <1> QED BY <1>1, <1>2, <1>3, <1>4, <1>5

\* The refresh fails: the page is replaced unless it is the login page.
LEMMA RefreshRefusedStep ==
  ASSUME BrowserInv, NEW r \in net, RefreshRefused(r)
  PROVE  BrowserInv'
  <1> DEFINE d == r.doc
  <1> USE DEF BrowserInv
  <1>0. /\ r.kind = "refresh" /\ d # Gone /\ r.state = "refused" /\ token' = "none"
        /\ leaving' = IF path[d] # "login" THEN [leaving EXCEPT ![d] = "login"] ELSE leaving
        /\ call' = [c \in Calls |-> IF Owner[c] = d /\ call[c].state = "refreshing"
                                    THEN Over ELSE call[c]]
        /\ isRefreshing' = [isRefreshing EXCEPT ![d] = FALSE] /\ net' = net \ {r}
        /\ UNCHANGED <<cookie, issued, valid, spent, path, user, initializing,
                       loggingOut, submitting, budget, blamed>>
    BY DEF RefreshRefused, Of, store
  <1>d. d \in Docs
    BY <1>0, ArrivesWhere
  <1>1. BrowserSound'
    BY <1>0, TakenSound
  <1>s. Over \in Call /\ Over.state = "over"
    BY DEF Over, Quiet, Call
  <1>c. \A c \in Calls :
          /\ call'[c] \in Call
          /\ call[c].state \in {"idle", "over"} => call'[c].state \in {"idle", "over"}
          /\ call'[c].state = "queued" => call[c].state = "queued"
    BY <1>0, <1>s DEF ScreenTyped
  <1>q. \A e \in Docs : QuietDoc(e) => QuietDoc(e)'
    BY <1>c DEF QuietDoc
  <1>2. ScreenTyped'
    BY <1>0, <1>c DEF ScreenTyped
  <1>3. PageOK'
    BY <1>0, <1>q DEF PageOK, ScreenTyped
  <1>4. DocsOK'
    <2> SUFFICES ASSUME NEW m \in net', m.doc \in Docs PROVE DocOK(m)'
      BY DEF DocsOK
    <2>1. m.kind = "refresh" => m.doc # d
      BY <1>0, <1>d DEF BrowserSound, NetSound, OneRefresh
    <2> QED BY <1>0, <1>q, <2>1 DEF DocsOK, DocOK, ScreenTyped
  <1>5. QueueServed'
    <2> SUFFICES ASSUME NEW c \in Calls, call'[c].state = "queued"
                 PROVE  isRefreshing'[Owner[c]] \/ leaving'[Owner[c]] # "no"
      BY DEF QueueServed
    <2>1. Owner[c] \in Docs /\ call[c].state = "queued"
      BY <1>c, BrowserAssumption
    <2>2. CASE Owner[c] # d
      BY <2>1, <2>2, <1>0 DEF QueueServed, ScreenTyped
    <2>3. CASE Owner[c] = d
      <3>1. path[d] = "login" => leaving[d] # "no"
        BY <2>1, <2>3, <1>d DEF PageOK, QuietDoc
      <3> QED BY <3>1, <2>3, <1>0, <1>d DEF ScreenTyped
    <2> QED BY <2>2, <2>3
  <1> QED BY <1>1, <1>2, <1>3, <1>4, <1>5

\* The probe is answered.
LEMMA ProbeStep ==
  ASSUME BrowserInv, NEW r \in net, ProbeOk(r) \/ ProbeRefused(r)
  PROVE  BrowserInv'
  <1> DEFINE d == r.doc
  <1> USE DEF BrowserInv
  <1>0. /\ r.kind = "probe" /\ d # Gone /\ net' = net \ {r}
        /\ initializing' = [initializing EXCEPT ![d] = FALSE]
        /\ UNCHANGED <<issued, valid, spent, path, loggingOut, leaving, submitting,
                       isRefreshing, call, budget, blamed>>
    BY DEF ProbeOk, ProbeRefused, Of, store, jar
  <1>r. \/ /\ r.state = "ok" /\ cookie' = r.new
           /\ token' \in {"fresh", "none"} /\ user' \in {user, [user EXCEPT ![d] = TRUE]}
        \/ r.state = "refused" /\ UNCHANGED <<token, cookie, user>>
    BY DEF ProbeOk, ProbeRefused, jar
  <1>d. d \in Docs
    BY <1>0, ArrivesWhere
  <1>1. BrowserSound'
    BY <1>0, <1>r, TakenSound
  <1>2. ScreenTyped'
    BY <1>0, <1>r, <1>d DEF ScreenTyped
  <1>3. PageOK'
    BY <1>0, <1>r, <1>d DEF PageOK, QuietDoc, ScreenTyped
  <1>4. DocsOK'
    <2> SUFFICES ASSUME NEW m \in net', m.doc \in Docs PROVE DocOK(m)'
      BY DEF DocsOK
    <2>1. m \in net /\ DocOK(m)
      BY <1>0 DEF DocsOK
    <2>2. CASE r.state = "ok" /\ cookie' = r.new
      <3>1. m.cookie # cookie'
        BY <2>1, <2>2, <1>0, TakenApart
      <3> QED BY <1>0, <2>1, <3>1 DEF DocOK, ScreenTyped
    <2>3. CASE UNCHANGED <<cookie, user>>
      BY <1>0, <2>1, <2>3 DEF DocOK, ScreenTyped, QuietDoc
    <2> QED BY <2>2, <2>3, <1>r
  <1>5. QueueServed'
    BY <1>0 DEF QueueServed
  <1> QED BY <1>1, <1>2, <1>3, <1>4, <1>5

\* The login is accepted: a user is known, or the token looks expired and is
\* logged out.
LEMMA LoginOkStep ==
  ASSUME BrowserInv, NEW r \in net, LoginOk(r)
  PROVE  BrowserInv'
  <1> DEFINE d == r.doc
             n == NewRequest(d, "logout", TRUE, r.new)
  <1> USE DEF BrowserInv
  <1>0. /\ r.kind = "login" /\ d # Gone /\ r.state = "ok" /\ cookie' = r.new
        /\ submitting' = [submitting EXCEPT ![d] = FALSE]
        /\ UNCHANGED <<issued, valid, spent, initializing, loggingOut, leaving,
                       isRefreshing, call, budget, blamed>>
    BY DEF LoginOk, Of, store
  <1>r. \/ /\ token' = "fresh" /\ user' = [user EXCEPT ![d] = TRUE]
           /\ path' = [path EXCEPT ![d] = "app"] /\ net' = net \ {r}
        \/ /\ token' = "none" /\ UNCHANGED <<user, path>> /\ net' = (net \ {r}) \cup {n}
    BY DEF LoginOk
  <1>d. d \in Docs /\ ~initializing[d]
    BY <1>0, ArrivesWhere DEF DocsOK, DocOK
  <1>w. r.new \in Nat /\ r.new # 0 /\ r.new \in issued /\ \A q \in net : q.cookie # r.new
    BY <1>0, TakenApart DEF BrowserSound, NetSound, NetTyped, RequestOK
  <1>n. /\ n \in SessionRequest /\ n.doc = d /\ n.kind = "logout" /\ n.cookie = r.new
        /\ n.state = "sent" /\ n.new = 0 /\ n.doc # Gone
    <2>1. PICK f \in BOOLEAN : f = TRUE
      OBVIOUS
    <2>2. n = NewRequest(d, "logout", f, r.new)
      BY <2>1
    <2> HIDE DEF n
    <2> QED BY <2>2, <1>d, <1>w, <1>0, NewRequestIs
  <1> HIDE DEF n
  <1>a. NetSound(net \ {r}, r.new, issued, spent, blamed)
    BY <1>0, TakeAnswer DEF BrowserSound
  <1>1. BrowserSound'
    <2>1. CASE net' = net \ {r}
      BY <2>1, <1>a, <1>0 DEF BrowserSound
    <2>2. CASE net' = (net \ {r}) \cup {n}
      <3>1. \A q \in net \ {r} : q.new # 0 => n.cookie # q.new
        BY <1>n, <1>w DEF BrowserSound, NetSound, AnswersApart
      <3>2. NetSound((net \ {r}) \cup {n}, r.new, issued, spent, blamed)
        BY <1>a, <1>n, <1>w, <3>1, AddRequest DEF Asking
      <3> QED BY <3>2, <2>2, <1>0 DEF BrowserSound
    <2> QED BY <2>1, <2>2, <1>r
  <1>2. ScreenTyped'
    BY <1>0, <1>r, <1>d DEF ScreenTyped
  <1>3. PageOK'
    BY <1>0, <1>r, <1>d DEF PageOK, QuietDoc, ScreenTyped
  <1>4. DocsOK'
    <2> SUFFICES ASSUME NEW m \in net', m.doc \in Docs PROVE DocOK(m)'
      BY DEF DocsOK
    <2>1. CASE m \in net
      <3>1. m.cookie # cookie' /\ DocOK(m)
        BY <2>1, <1>w, <1>0 DEF DocsOK
      <3> QED BY <3>1, <1>0 DEF DocOK
    <2>2. CASE m = n
      BY <2>2, <1>n DEF DocOK
    <2> QED BY <2>1, <2>2, <1>r
  <1>5. QueueServed'
    BY <1>0 DEF QueueServed
  <1> QED BY <1>1, <1>2, <1>3, <1>4, <1>5

\* An answer that leaves the screen alone but for the form.
LEMMA OtherAnswerStep ==
  ASSUME BrowserInv, NEW r \in net,
         LoginRefused(r) \/ LogoutAnswer(r) \/ GoneAnswer(r)
  PROVE  BrowserInv'
  <1> USE DEF BrowserInv
  <1>0. /\ net' = net \ {r}
        /\ submitting' \in {submitting, [submitting EXCEPT ![r.doc] = FALSE]}
        /\ UNCHANGED <<token, issued, valid, spent, path, user, initializing, loggingOut,
                       leaving, isRefreshing, call, budget, blamed>>
    BY DEF LoginRefused, LogoutAnswer, GoneAnswer, Of, store, jar, screen
  <1>r. \/ r.state = "refused" /\ cookie' = cookie
        \/ cookie' = 0
        \/ /\ r.doc = Gone /\ r.kind \in {"refresh", "probe", "login"}
           /\ cookie' = cookie \/ (r.state = "ok" /\ cookie' = r.new)
    BY DEF LoginRefused, LogoutAnswer, GoneAnswer, Of, jar
  <1>1. BrowserSound'
    <2>1. CASE r.doc = Gone /\ r.kind \in {"refresh", "probe", "login"} /\ cookie' = cookie
      <3>1. blamed \/ r.cookie = 0
        BY <2>1 DEF BrowserSound, NetSound, OrphansBlamed, RequestOK, Asking
      <3> QED BY <3>1, <2>1, <1>0, DropRequest DEF BrowserSound
    <2>2. CASE \/ r.state = "refused" /\ cookie' = cookie
               \/ cookie' = 0
               \/ r.kind # "logout" /\ r.state = "ok" /\ cookie' = r.new
      BY <2>2, <1>0, TakenSound
    <2> QED BY <2>1, <2>2, <1>r
  <1>2. ScreenTyped'
    BY <1>0 DEF ScreenTyped
  <1>3. PageOK'
    BY <1>0 DEF PageOK, QuietDoc
  <1>4. DocsOK'
    <2> SUFFICES ASSUME NEW m \in net', m.doc \in Docs PROVE DocOK(m)'
      BY DEF DocsOK
    <2>1. m \in net /\ DocOK(m)
      BY <1>0 DEF DocsOK
    <2>2. cookie' = cookie \/ cookie' = 0 \/ cookie' # m.cookie
      BY <2>1, <1>r, TakenApart
    <2> QED BY <2>1, <2>2, <1>0 DEF DocOK, QuietDoc
  <1>5. QueueServed'
    BY <1>0 DEF QueueServed
  <1> QED BY <1>1, <1>2, <1>3, <1>4, <1>5

-----------------------------------------------------------------------------
\* The invariant holds when every document shows a page,
LEMMA InitBrowser ==
  ASSUME BrowserInit
  PROVE  BrowserInv
  <1> USE BrowserAssumption DEF BrowserInit
  <1>0. /\ net = {} /\ spent = {} /\ blamed = FALSE /\ valid = issued
        /\ \/ issued = {1} /\ cookie = 1
           \/ issued = {} /\ cookie = 0
    OBVIOUS
  <1>f. IsFiniteSet({}) /\ IsFiniteSet({1})
    BY FS_EmptySet, FS_Singleton
  <1>1. BrowserSound
    <2>1. NetTyped(net, cookie, issued, spent, blamed)
      <3>1. CASE issued = {1} /\ cookie = 1
        <4>1. {1} \subseteq Nat \ {0} /\ {} \subseteq {1} /\ 1 \in {1} \cup {0}
          OBVIOUS
        <4>2. NetTyped({}, 1, {1}, {}, FALSE)
          BY <1>f, <4>1, Zenon DEF NetTyped
        <4> QED BY <1>0, <3>1, <4>2
      <3>2. CASE issued = {} /\ cookie = 0
        BY <1>0, <1>f, <3>2 DEF NetTyped
      <3> QED BY <1>0, <3>1, <3>2
    <2> QED BY <1>0, <2>1 DEF BrowserSound, NetSound, AnswersApart, OneRefresh, OrphansBlamed,
                           CookiesApart, SpentAnswered, SentUnspent
  <1>c. \A c \in Calls : call[c] = Quiet("idle")
    OBVIOUS
  <1>i. Quiet("idle") \in Call /\ Quiet("idle").state = "idle"
    BY DEF Quiet, Call
  <1>2. ScreenTyped
    BY <1>i DEF ScreenTyped
  <1>3. PageOK
    BY <1>c, <1>i DEF PageOK, QuietDoc
  <1>4. DocsOK
    BY <1>0 DEF DocsOK
  <1>5. QueueServed
    BY <1>c, <1>i DEF QueueServed
  <1> QED BY <1>1, <1>2, <1>3, <1>4, <1>5 DEF BrowserInv

\* and every step keeps it.
LEMMA StepBrowser ==
  ASSUME BrowserInv, [BrowserNext]_browserVars
  PROVE  BrowserInv'
  <1>1. ASSUME NEW d \in Docs, Routing(d) PROVE BrowserInv'
    <2>1. CASE Unload(d)
      <3>1. leaving[d] \in {"login", "public"}
        BY <2>1 DEF Unload, BrowserInv, ScreenTyped
      <3>2. LoadDocument(d, leaving[d]) /\ budget' \in Nat
        BY <2>1 DEF Unload, BrowserInv, ScreenTyped
      <3> QED BY <3>1, <3>2, LoadStep
    <2> QED BY <1>1, <2>1, RouteStep, SafetyTimerStep, LogoutValveStep DEF Routing
  <1>2. ASSUME NEW d \in Docs, NEW p \in {"app", "public", "login"}, Load(d, p)
        PROVE  BrowserInv'
    <2>1. LoadDocument(d, p) /\ budget' \in Nat
      BY <1>2 DEF Load, Spend, BrowserInv, ScreenTyped
    <2> QED BY <2>1, LoadStep
  <1>3. CASE Users
    BY <1>2, <1>3, LoginStep, LogoutStep, RouteStep DEF Users
  <1>4. ASSUME NEW c \in Calls, SendCall(c) \/ CallEnds(c) \/ Unauthorised(c)
        PROVE  BrowserInv'
    BY <1>4, SendCallStep, CallEndsStep, UnauthorisedStep
  <1>5. CASE ServerStep
    BY <1>5, ServeRefreshStep, ServeLoginStep, ServeLogoutStep DEF ServerStep
  <1>6. CASE Deliver
    BY <1>6, RefreshOkStep, RefreshRefusedStep, ProbeStep, LoginOkStep, OtherAnswerStep
       DEF Deliver
  <1>7. CASE TokenExpires
    BY <1>7, ExpireStep
  <1>8. ASSUME NEW r \in net, Lose(r) PROVE BrowserInv'
    BY <1>8, LoseStep
  <1>9. CASE UNCHANGED browserVars
    <2> USE <1>9 DEF BrowserInv, browserVars, jar, store, screen
    <2>1. BrowserSound'
      BY StillSound DEF Still
    <2>2. ScreenTyped' /\ PageOK' /\ QueueServed'
      BY StillScreen DEF ScreenStill, ScreenTyped
    <2>3. DocsOK'
      BY KeptDocs DEF ScreenStill, NetKept
    <2> QED BY <2>1, <2>2, <2>3
  <1> QED BY <1>1, <1>3, <1>4, <1>5, <1>6, <1>7, <1>8, <1>9 DEF BrowserNext

\* The invariant of the browser.
LEMMA BrowserInvariant == BrowserSpec => []BrowserInv
  <1>1. BrowserInit => BrowserInv
    BY InitBrowser
  <1>2. BrowserInv /\ [BrowserNext]_browserVars => BrowserInv'
    BY StepBrowser
  <1> QED BY <1>1, <1>2, PTL DEF BrowserSpec

\* For every set of documents and calls, the variables of the browser and its
\* server have their types (TypeOK of BrowserSession).
THEOREM BrowserTypes == BrowserSpec => []BrowserTypeOK
  <1>1. BrowserInv => BrowserTypeOK
    BY DEF BrowserInv, BrowserSound, NetSound, NetTyped, ScreenTyped, BrowserTypeOK
  <1> QED BY <1>1, BrowserInvariant, PTL

\* A refresh token is presented a second time only when two documents, a logout,
\* a reload or a lost answer are involved (services/api.ts, AuthContext.tsx).
THEOREM ReplayIsExplained == BrowserSpec => []ReplayExplained
  <1>1. BrowserInv => ReplayExplained
    BY DEF BrowserInv, BrowserSound, NetSound, SentUnspent, ReplayExplained, Asking
  <1> QED BY <1>1, BrowserInvariant, PTL

\* A call in refreshQueue has a refresh that will wake it, or its document is
\* being replaced (services/api.ts).
THEOREM QueueIsServed == BrowserSpec => []QueueServed
  <1>1. BrowserInv => QueueServed
    BY DEF BrowserInv
  <1> QED BY <1>1, BrowserInvariant, PTL
================================================================================
