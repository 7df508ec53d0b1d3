--------------------------- MODULE BrowserSession ---------------------------
(***************************************************************************)
(* The session as the browser keeps it: one access token in localStorage   *)
(* and one refresh cookie, shared by every open document; in each document *)
(* the AuthProvider, the route guards, the login page and the axios        *)
(* interceptor that refreshes an expired token once for all the calls that *)
(* met it.  Code: src/frontend/src/services/api.ts and auth.ts,            *)
(* contexts/AuthContext.tsx, components/guards/, pages/LoginPage.tsx,      *)
(* utils/token.ts.                                                         *)
(*                                                                         *)
(* The server is SessionStore, the specification that AccountAuth          *)
(* implements; a request is sent, served and answered in three steps, and  *)
(* may fail before or after it is served.                                  *)
(* No name of this module is one of AccountAuth: the proofs about sessions *)
(* extend both.                                                            *)
(***************************************************************************)
EXTENDS Naturals, FiniteSets

CONSTANTS
  Docs,        \* the documents (tabs)
  Calls,       \* the API calls made by pages, each used once
  Owner,       \* the document that makes a call
  Gone,        \* stands for a document that was replaced
  MaxNet,      \* bound: requests under way at once
  Budget       \* bound: what users do, other than calls, and expiries

ASSUME BrowserAssumption ==
  /\ Owner \in [Calls -> Docs] /\ Gone \notin Docs
  /\ MaxNet \in Nat /\ Budget \in Nat

VARIABLES
  token,        \* localStorage: "none", "fresh" or "expired"
  cookie,       \* the refresh cookie, 0 for none
  issued, valid, spent,        \* the server's refresh tokens
  path,         \* "app" is a guarded page, "public" any other, "login"
  user,         \* AuthContext: a user is known
  initializing, loggingOut,
  leaving,      \* where the document is being replaced to
  submitting,   \* the login form waits for its answer
  isRefreshing, \* api.ts
  call,         \* the calls
  net,          \* requests that concern the session
  budget,
  blamed        \* history: see ReplayExplained

store == <<issued, valid, spent>>
jar == <<token, cookie>>
screen == <<path, user, initializing, loggingOut, leaving, submitting>>
browserVars == <<jar, store, screen, isRefreshing, call, net, budget, blamed>>

Server == INSTANCE SessionStore WITH Tokens <- Nat, live <- valid

Call == [state : {"idle", "sent", "queued", "refreshing", "over"}, retried : BOOLEAN]
SessionRequest == [doc : Docs \cup {Gone}, kind : {"refresh", "probe", "login", "logout"},
            id : Nat, cookie : Nat, fresh : BOOLEAN,
            state : {"sent", "ok", "refused"}, new : Nat]

BrowserTypeOK ==
  /\ token \in {"none", "fresh", "expired"} /\ cookie \in Nat
  /\ issued \subseteq Nat /\ valid \subseteq Nat /\ spent \subseteq Nat
  /\ path \in [Docs -> {"app", "public", "login"}]
  /\ user \in [Docs -> BOOLEAN] /\ initializing \in [Docs -> BOOLEAN]
  /\ loggingOut \in [Docs -> BOOLEAN]
  /\ leaving \in [Docs -> {"no", "login", "public"}]
  /\ submitting \in [Docs -> BOOLEAN] /\ isRefreshing \in [Docs -> BOOLEAN]
  /\ call \in [Calls -> Call] /\ net \subseteq SessionRequest
  /\ budget \in Nat /\ blamed \in BOOLEAN

\* The requests of a document, by kind; a smallest number tells equal ones apart.
Of(d, K) == {r \in net : r.doc = d /\ r.kind \in K}
FreeId == CHOOSE i \in 0 .. Cardinality(net) : \A r \in net : r.id # i
NewRequest(d, k, fresh, c) ==
  [doc |-> d, kind |-> k, id |-> FreeId, cookie |-> c, fresh |-> fresh,
   state |-> "sent", new |-> 0]
Spend == budget > 0 /\ budget' = budget - 1
Room == Cardinality(net) < MaxNet
\* Another document, or a logout, has presented the cookie of the jar and the jar
\* does not hold the answer yet.
Presented(d) ==
  cookie # 0 /\ \E r \in net : r.cookie = cookie /\ (r.doc # d \/ r.kind = "logout")

Quiet(s) == [state |-> s, retried |-> FALSE]
Over == Quiet("over")

\* Every document shows a page: with a user who has logged in before, or with
\* nobody on the login page.
BrowserInit ==
  /\ \E signed \in BOOLEAN :
       /\ token = IF signed THEN "fresh" ELSE "none"
       /\ cookie = IF signed THEN 1 ELSE 0
       /\ issued = (IF signed THEN {1} ELSE {}) /\ valid = issued
       /\ path = [d \in Docs |-> IF signed THEN "app" ELSE "login"]
       /\ user = [d \in Docs |-> signed]
  /\ spent = {}
  /\ initializing = [d \in Docs |-> FALSE] /\ loggingOut = [d \in Docs |-> FALSE]
  /\ leaving = [d \in Docs |-> "no"] /\ submitting = [d \in Docs |-> FALSE]
  /\ isRefreshing = [d \in Docs |-> FALSE]
  /\ call = [c \in Calls |-> Quiet("idle")]
  /\ net = {} /\ budget = Budget /\ blamed = FALSE

-----------------------------------------------------------------------------
(* A document is loaded: AuthProvider mounts.                              *)

\* computeInitialAuth and the effects of the first render: a valid token is a
\* user; an expired one is removed and the cookie probed; no token is nobody.
\* What the old document had under way finds no listener any more.
LoadDocument(d, p) ==
  LET orphans == {[r EXCEPT !.doc = Gone] : r \in {q \in net : q.doc = d}}
      had == token = "expired"
  IN
  /\ had => Room
  /\ path' = [path EXCEPT ![d] = p]
  /\ user' = [user EXCEPT ![d] = token = "fresh"]
  /\ initializing' = [initializing EXCEPT ![d] = had]
  /\ token' = IF had THEN "none" ELSE token
  /\ loggingOut' = [loggingOut EXCEPT ![d] = FALSE]
  /\ leaving' = [leaving EXCEPT ![d] = "no"]
  /\ submitting' = [submitting EXCEPT ![d] = FALSE]
  /\ isRefreshing' = [isRefreshing EXCEPT ![d] = FALSE]
  /\ call' = [c \in Calls |-> IF Owner[c] = d /\ call[c].state # "idle"
                              THEN Over ELSE call[c]]
  /\ net' = {q \in net : q.doc # d} \cup orphans
             \cup IF had THEN {NewRequest(d, "probe", FALSE, cookie)} ELSE {}
  /\ blamed' = (blamed \/ (had /\ Presented(d))
                       \/ \E r \in orphans : r.kind \in {"refresh", "probe"})
  /\ UNCHANGED <<cookie, store>>

\* The browser carries out window.location.href or .replace.
Unload(d) ==
  /\ leaving[d] # "no" /\ LoadDocument(d, leaving[d]) /\ UNCHANGED budget

\* The user reloads, or opens a page of the site in this tab.
Load(d, p) ==
  /\ Spend /\ LoadDocument(d, p)

\* Mutant: the valve waits for the answer it should do without.
BugSafetyTimer(d) ==
  /\ initializing[d] /\ Of(d, {"probe"}) = {}
  /\ initializing' = [initializing EXCEPT ![d] = FALSE]
  /\ UNCHANGED <<jar, store, path, user, loggingOut, leaving, submitting,
                 isRefreshing, call, net, budget, blamed>>

\* The safety valve of the probe.
SafetyTimer(d) ==
  /\ initializing[d] /\ initializing' = [initializing EXCEPT ![d] = FALSE]
  /\ UNCHANGED <<jar, store, path, user, loggingOut, leaving, submitting,
                 isRefreshing, call, net, budget, blamed>>

-----------------------------------------------------------------------------
(* Routes and guards.                                                      *)

\* The login form is gone with its page; what it sent is not.
Move(d, p) ==
  /\ path' = [path EXCEPT ![d] = p]
  /\ submitting' = [submitting EXCEPT ![d] = FALSE]
  /\ UNCHANGED <<jar, store, user, initializing, loggingOut, leaving, isRefreshing,
                 call, net, blamed>>

Guarded(d) == path[d] = "app"
Renders(d) == ~initializing[d] /\ ~loggingOut[d] /\ user[d]

\* A link inside the application; one to /login ends on the dashboard for a user.
Go(d, p) ==
  /\ path[d] # p /\ Spend
  /\ Move(d, IF p = "login" /\ ~initializing[d] /\ user[d] THEN "app" ELSE p)

\* AdminRoute, CompanyRoute, CandidateRoute and ProtectedRoute alike.
GuardRedirect(d) ==
  /\ Guarded(d) /\ ~initializing[d] /\ ~loggingOut[d] /\ ~user[d]
  /\ Move(d, "login") /\ UNCHANGED budget

LoginRedirect(d) ==
  /\ path[d] = "login" /\ ~initializing[d] /\ user[d] /\ Move(d, "app")
  /\ UNCHANGED budget

-----------------------------------------------------------------------------
(* API calls and the interceptor of api.ts.                                *)

\* A page asks for data, with whatever token there is.
SendCall(c) ==
  LET d == Owner[c] IN
  /\ call[c].state = "idle" /\ path[d] # "login" /\ Renders(d)
  /\ call' = [call EXCEPT ![c] = Quiet("sent")]
  /\ UNCHANGED <<jar, store, screen, isRefreshing, net, budget, blamed>>

\* Any other answer than 401, a second 401, or no answer.
CallEnds(c) ==
  /\ call[c].state = "sent" /\ call' = [call EXCEPT ![c] = Over]
  /\ UNCHANGED <<jar, store, screen, isRefreshing, net, budget, blamed>>

\* Mutant: every 401 starts a refresh.
BugUnauthorised(c) ==
  LET d == Owner[c] IN
  /\ call[c].state = "sent" /\ ~call[c].retried
  /\ call' = [call EXCEPT ![c].state = "refreshing", ![c].retried = TRUE]
  /\ isRefreshing' = [isRefreshing EXCEPT ![d] = TRUE]
  /\ net' = net \cup {NewRequest(d, "refresh", FALSE, cookie)}
  /\ blamed' = (blamed \/ Presented(d))
  /\ UNCHANGED <<jar, store, screen, budget>>

\* A 401, of an expired token or of a valid one (a wrong current password, a
\* deactivated user): the first one refreshes, those that follow wait for it.
Unauthorised(c) ==
  LET d == Owner[c] IN
  /\ call[c].state = "sent" /\ ~call[c].retried
  /\ IF isRefreshing[d]
     THEN /\ call' = [call EXCEPT ![c].state = "queued", ![c].retried = TRUE]
          /\ UNCHANGED <<isRefreshing, net, blamed>>
     ELSE /\ Room /\ call' = [call EXCEPT ![c].state = "refreshing", ![c].retried = TRUE]
          /\ isRefreshing' = [isRefreshing EXCEPT ![d] = TRUE]
          /\ net' = net \cup {NewRequest(d, "refresh", FALSE, cookie)}
          /\ blamed' = (blamed \/ Presented(d))
  /\ UNCHANGED <<jar, store, screen, budget>>

\* Mutant: the queue is not drained.
BugReplayed(d) ==
  [c \in Calls |-> IF Owner[c] = d /\ call[c].state = "refreshing"
                   THEN [call[c] EXCEPT !.state = "sent"] ELSE call[c]]

\* drainQueue, and the call that led: all of them are sent again.
Replayed(d) ==
  [c \in Calls |-> IF Owner[c] = d /\ call[c].state \in {"queued", "refreshing"}
                   THEN [call[c] EXCEPT !.state = "sent"] ELSE call[c]]

RefreshOk(r) ==
  /\ r \in Of(r.doc, {"refresh"}) /\ r.doc # Gone /\ r.state = "ok"
  /\ cookie' = r.new /\ token' = "fresh"
  /\ call' = Replayed(r.doc)
  /\ isRefreshing' = [isRefreshing EXCEPT ![r.doc] = FALSE]
  /\ net' = net \ {r}
  /\ UNCHANGED <<store, screen, budget, blamed>>

\* Mutant: the token is removed but the page stays.
BugRefreshStays(r) ==
  LET d == r.doc IN
  /\ r \in Of(d, {"refresh"}) /\ d # Gone /\ r.state = "refused"
  /\ token' = "none"
  /\ call' = [c \in Calls |-> IF Owner[c] = d /\ call[c].state = "refreshing"
                              THEN Over ELSE call[c]]
  /\ isRefreshing' = [isRefreshing EXCEPT ![d] = FALSE]
  /\ net' = net \ {r}
  /\ UNCHANGED <<cookie, store, screen, budget, blamed>>

\* clearSession: the call that led fails, the queue is left as it is.
RefreshRefused(r) ==
  LET d == r.doc IN
  /\ r \in Of(d, {"refresh"}) /\ d # Gone /\ r.state = "refused"
  /\ token' = "none"
  /\ leaving' = IF path[d] # "login" THEN [leaving EXCEPT ![d] = "login"] ELSE leaving
  /\ call' = [c \in Calls |-> IF Owner[c] = d /\ call[c].state = "refreshing"
                              THEN Over ELSE call[c]]
  /\ isRefreshing' = [isRefreshing EXCEPT ![d] = FALSE]
  /\ net' = net \ {r}
  /\ UNCHANGED <<cookie, store, path, user, initializing, loggingOut, submitting,
                 budget, blamed>>

-----------------------------------------------------------------------------
(* The probe, login and logout of AuthContext.                             *)

\* A token that the local clock takes for expired is thrown away.
ProbeOk(r) ==
  LET d == r.doc IN
  /\ r \in Of(d, {"probe"}) /\ d # Gone /\ r.state = "ok"
  /\ cookie' = r.new
  /\ \/ token' = "fresh" /\ user' = [user EXCEPT ![d] = TRUE]
     \/ token' = "none" /\ UNCHANGED user
  /\ initializing' = [initializing EXCEPT ![d] = FALSE]
  /\ net' = net \ {r}
  /\ UNCHANGED <<store, path, loggingOut, leaving, submitting, isRefreshing, call,
                 budget, blamed>>

ProbeRefused(r) ==
  LET d == r.doc IN
  /\ r \in Of(d, {"probe"}) /\ d # Gone /\ r.state = "refused"
  /\ initializing' = [initializing EXCEPT ![d] = FALSE]
  /\ net' = net \ {r}
  /\ UNCHANGED <<jar, store, path, user, loggingOut, leaving, submitting,
                 isRefreshing, call, budget, blamed>>

Login(d) ==
  /\ Spend /\ Room
  /\ path[d] = "login" /\ ~initializing[d] /\ ~user[d] /\ ~submitting[d]
  /\ submitting' = [submitting EXCEPT ![d] = TRUE]
  /\ net' = net \cup {NewRequest(d, "login", FALSE, 0)}
  /\ UNCHANGED <<jar, store, path, user, initializing, loggingOut, leaving,
                 isRefreshing, call, blamed>>

\* navigate(from) follows setUser(); a token that looks expired is logged out.
LoginOk(r) ==
  LET d == r.doc
      without == net \ {r}
  IN
  /\ r \in Of(d, {"login"}) /\ d # Gone /\ r.state = "ok"
  /\ cookie' = r.new
  /\ submitting' = [submitting EXCEPT ![d] = FALSE]
  /\ \/ /\ token' = "fresh" /\ user' = [user EXCEPT ![d] = TRUE]
        /\ path' = [path EXCEPT ![d] = "app"] /\ net' = without
     \/ /\ token' = "none" /\ UNCHANGED <<user, path>>
        /\ net' = without \cup {NewRequest(d, "logout", TRUE, r.new)}
  /\ UNCHANGED <<store, initializing, loggingOut, leaving, isRefreshing, call,
                 budget, blamed>>

LoginRefused(r) ==
  /\ r \in Of(r.doc, {"login"}) /\ r.doc # Gone /\ r.state = "refused"
  /\ submitting' = [submitting EXCEPT ![r.doc] = FALSE]
  /\ net' = net \ {r}
  /\ UNCHANGED <<jar, store, path, user, initializing, loggingOut, leaving,
                 isRefreshing, call, budget, blamed>>

\* The access token is captured, then removed; the request outlives the page.
Logout(d) ==
  /\ Renders(d) /\ path[d] # "login" /\ Room /\ Spend
  /\ loggingOut' = [loggingOut EXCEPT ![d] = TRUE]
  /\ net' = net \cup {NewRequest(d, "logout", token = "fresh", cookie)}
  /\ blamed' = (blamed \/ Presented(d) \/ Of(d, {"refresh", "probe"}) # {})
  /\ token' = "none" /\ user' = [user EXCEPT ![d] = FALSE]
  /\ leaving' = [leaving EXCEPT ![d] = "public"]
  /\ UNCHANGED <<cookie, store, path, initializing, submitting, isRefreshing,
                 call>>

LogoutValve(d) ==
  /\ loggingOut[d] /\ loggingOut' = [loggingOut EXCEPT ![d] = FALSE]
  /\ UNCHANGED <<jar, store, path, user, initializing, leaving, submitting,
                 isRefreshing, call, net, budget, blamed>>

\* Nobody listens to the answer, but its Set-Cookie clears the jar.
LogoutAnswer(r) ==
  /\ r \in net /\ r.kind = "logout" /\ r.state = "ok" /\ cookie' = 0
  /\ net' = net \ {r}
  /\ UNCHANGED <<token, store, screen, isRefreshing, call, budget, blamed>>

-----------------------------------------------------------------------------
(* The browser, the network and the server.                                *)

\* The answer to a document that is gone: its cookie may still be taken.
GoneAnswer(r) ==
  /\ r \in Of(Gone, {"refresh", "probe", "login"}) /\ r.state \in {"ok", "refused"}
  /\ \/ UNCHANGED cookie
     \/ r.state = "ok" /\ cookie' = r.new
  /\ net' = net \ {r}
  /\ UNCHANGED <<token, store, screen, isRefreshing, call, budget, blamed>>

\* The access token's ten minutes pass.
TokenExpires ==
  /\ Spend /\ token = "fresh" /\ token' = "expired"
  /\ net' = {[r EXCEPT !.fresh = FALSE] : r \in net}
  /\ UNCHANGED <<cookie, store, screen, isRefreshing, call, blamed>>

\* A refusal that nobody listens for ends here.
Answered(r, s, n) ==
  net' = (net \ {r}) \cup
    IF s = "refused" /\ (r.doc = Gone \/ r.kind = "logout") THEN {}
    ELSE {[r EXCEPT !.state = s, !.new = n]}
NewToken == Cardinality(issued) + 1

\* POST /auth/refresh: a live token is exchanged; a spent one is a replay and
\* costs the user every session.
ServeRefresh(r) ==
  /\ r \in net /\ r.kind \in {"refresh", "probe"} /\ r.state = "sent"
  /\ \/ /\ r.cookie \in valid /\ Server!Exchange(r.cookie, NewToken)
        /\ Answered(r, "ok", NewToken)
     \/ /\ r.cookie \in spent /\ Server!Withdraw(valid) /\ Answered(r, "refused", 0)
     \/ /\ r.cookie \notin valid \cup spent /\ UNCHANGED store
        /\ Answered(r, "refused", 0)
  /\ UNCHANGED <<jar, screen, isRefreshing, call, budget, blamed>>

ServeLogin(r) ==
  /\ r \in net /\ r.kind = "login" /\ r.state = "sent"
  /\ \/ Server!Grant(NewToken) /\ Answered(r, "ok", NewToken)
     \/ UNCHANGED store /\ Answered(r, "refused", 0)
  /\ UNCHANGED <<jar, screen, isRefreshing, call, budget, blamed>>

\* POST /auth/logout needs an access token that is still valid.
ServeLogout(r) ==
  /\ r \in net /\ r.kind = "logout" /\ r.state = "sent"
  /\ \/ /\ ~r.fresh /\ UNCHANGED store /\ Answered(r, "refused", 0)
     \/ /\ r.fresh /\ Answered(r, "ok", 0)
        /\ \/ r.cookie \in valid /\ Server!End(r.cookie)
           \/ r.cookie \notin valid /\ UNCHANGED store
  /\ UNCHANGED <<jar, screen, isRefreshing, call, budget, blamed>>

\* The request or its answer is lost.
Lose(r) ==
  /\ r \in net /\ r.state \in {"sent", "ok"} /\ Answered(r, "refused", 0)
  /\ blamed' = (blamed \/ (r.state = "ok" /\ r.kind # "login"))
  /\ UNCHANGED <<jar, store, screen, isRefreshing, call, budget>>

-----------------------------------------------------------------------------
ServerStep == \E r \in net : ServeRefresh(r) \/ ServeLogin(r) \/ ServeLogout(r)
Deliver ==
  \E r \in net : \/ RefreshOk(r) \/ RefreshRefused(r) \/ ProbeOk(r) \/ ProbeRefused(r)
                 \/ LoginOk(r) \/ LoginRefused(r) \/ LogoutAnswer(r) \/ GoneAnswer(r)
Routing(d) ==
  \/ Unload(d) \/ GuardRedirect(d) \/ LoginRedirect(d)
  \/ SafetyTimer(d) \/ LogoutValve(d)
Users ==
  \/ \E d \in Docs : Login(d) \/ Logout(d)
  \/ \E d \in Docs, p \in {"app", "public", "login"} : Go(d, p) \/ Load(d, p)

BrowserNext ==
  \/ \E d \in Docs : Routing(d)
  \/ Users
  \/ \E c \in Calls : SendCall(c) \/ CallEnds(c) \/ Unauthorised(c)
  \/ ServerStep \/ Deliver \/ TokenExpires
  \/ \E r \in net : Lose(r)

BrowserSpec == BrowserInit /\ [][BrowserNext]_browserVars

\* The browser navigates when told to, timers fire, a call is answered, and the
\* server answers the refresh of a document that still exists.
FairBrowserSpec ==
  /\ BrowserSpec
  /\ \A d \in Docs : WF_browserVars(SafetyTimer(d)) /\ WF_browserVars(Unload(d))
  /\ \A c \in Calls : WF_browserVars(CallEnds(c) \/ Unauthorised(c))
  /\ WF_browserVars(\E r \in net : /\ r.kind = "refresh"
                                   /\ ServeRefresh(r) \/ RefreshOk(r) \/ RefreshRefused(r))

-----------------------------------------------------------------------------
\* A call that waits in refreshQueue is woken by the refresh under way, or its
\* document is being replaced: a failed refresh leaves no call that hangs on a
\* page that stays.
QueueServed ==
  \A c \in Calls : call[c].state = "queued" =>
    isRefreshing[Owner[c]] \/ leaving[Owner[c]] # "no"

\* A refresh token is presented a second time, which costs the user every
\* session, only when two documents, a logout, a reload or a lost answer are
\* involved: one document alone, its probe and its interceptor included, never
\* does it ("accepted trade-off of single-use rotation", services/auth/session.py).
ReplayExplained ==
  (\E r \in net : r.kind \in {"refresh", "probe"} /\ r.state = "sent" /\ r.cookie \in spent)
    => blamed

\* The page that follows a logout is not signed in ("clear tokens and user state
\* before navigating so guards never see a stale "logged-in" user",
\* AuthContext.tsx), in a browser with one document that navigates in time.
LogoutHolds ==
  [][\A d \in Docs : leaving[d] = "public" /\ loggingOut[d] /\ leaving'[d] = "no"
                     => ~user'[d]]_browserVars

\* The page shows after a reload with an expired token even if the server never
\* answers the probe (the safety timer of AuthContext).
GuardsUnblock == \A d \in Docs : initializing[d] ~> ~initializing[d]

\* Every call comes back to its page or is dropped with it, refreshed and queued
\* ones included.
CallsSettle ==
  \A c \in Calls : call[c].state = "sent" ~> call[c].state = "over"
=============================================================================
