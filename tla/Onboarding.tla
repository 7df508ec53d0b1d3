------------------------------- MODULE Onboarding ------------------------------
(***************************************************************************)
(* How ONE email address becomes an account: a candidate registers (by     *)
(* the form or by claiming an application), asks for another link and      *)
(* activates; a company is invited, registers, is approved or rejected,    *)
(* activates, is deleted.  (services/auth/{candidate_registration,         *)
(* activation,registration}.py, services/admin/{invites,company_approval,  *)
(* companies,candidates}.py, core/infrastructure/invite_tokens.py, and     *)
(* services/public/applications.py for the claim.)                         *)
(*                                                                         *)
(* The columns User.email and CandidateProfile.email are unique, so there  *)
(* is at most one user row and one candidate profile; a row deleted and    *)
(* inserted again is told from the old one by its primary key.  A handler  *)
(* reads, decides and writes: an UPDATE of a row that is gone              *)
(* (StaleDataError), a second INSERT (IntegrityError) and a token whose    *)
(* user is gone (foreign key) roll the request back; a DELETE of a row     *)
(* that is gone is ignored.                                                *)
(*                                                                         *)
(* There is no clock: a link may have expired, an hour may have passed, or *)
(* not.  A request refused by what it reads changes nothing and is not a   *)
(* step.                                                                   *)
(***************************************************************************)
EXTENDS Naturals, FiniteSets

CONSTANTS
    Requests,        \* slots for HTTP requests in flight at the same time
    Tokens,          \* primary keys of activation tokens
    Invites,         \* primary keys of invites
    NoToken, NoInvite,
    Operations,      \* the endpoints the clients of this instance call
    Budget           \* bound: how many requests a behaviour starts

ASSUME OnboardingAssumption ==
    /\ IsFiniteSet(Requests) /\ IsFiniteSet(Tokens)
    /\ NoToken \notin Tokens
    /\ NoInvite \notin Invites
    /\ Operations \subseteq { "register", "apply", "claim", "resend", "activate", "erase",
                              "invite", "revoke", "reinvite", "drop", "enroll",
                              "approve", "reject", "delete" }
    /\ Budget \in Nat

VARIABLES
    user,       \* the row of User: its key, role, is_active and whence its password
    profile,    \* the row of CandidateProfile: its key and the user it is linked to
    token,      \* the rows of ActivationToken
    invite,     \* the rows of InviteToken
    keys,       \* the last keys given to a user, a profile, an invite link
    req,        \* the requests in flight
    served,     \* how many requests have started
    \* History variables: no action reads them to decide what to do.
    source,     \* which operation minted each token
    known,      \* the tokens committed when its request selected the stale ones
    erased,     \* an admin has erased the profile of the active candidate
    enrolled    \* the invite link with which the company in user registered

rows    == <<user, profile, token, invite, keys>>
history == <<source, known, erased, enrolled>>
vars    == <<rows, req, served, history>>

-------------------------------------------------------------------------------
NoUser    == [id |-> 0, role |-> "none", active |-> FALSE, password |-> NoToken]
NoProfile == [id |-> 0, owner |-> 0]

Role == {"CANDIDATE", "COMPANY"}

Unused == {t \in Tokens : token[t] = "unused"}
Minted == {t \in Tokens : token[t] # "unminted"}

Pending(role) == user.role = role /\ ~user.active

Steps ==
    { "idle",
      "registering", "minting",            \* POST /auth/candidate/register
      "applying",                          \* POST /api/public/jobs/{id}/apply
      "resending", "replacing",            \* POST /auth/candidate/resend-activation
      "activating",                        \* POST /auth/activate
      "inviting", "revoking", "reinviting",    \* /api/admin/companies/invite(s)
      "enrolling", "uploading", "marking", \* POST /auth/register
      "approving", "issuing",              \* POST /api/admin/companies/{id}/approve
      "rejecting" }                        \* .../reject, and DELETE of a company

Request ==
    [ step    : Steps,
      user    : Nat,                       \* the key of the user row read
      profile : Nat,                       \* the key of the profile read
      claims  : BOOLEAN,                   \* the apply form also sets a password
      token   : Tokens \cup {NoToken},     \* the link that is opened
      stale   : SUBSET Tokens,             \* the unused tokens to delete
      seen    : SUBSET Tokens,             \* history: the tokens there were
      invite  : Invites \cup {NoInvite},
      link    : Nat,                       \* the invite link presented
      open    : BOOLEAN ]                  \* the invite was PENDING when read

Idle == [ step |-> "idle", user |-> 0, profile |-> 0, claims |-> FALSE,
          token |-> NoToken, stale |-> {}, seen |-> {}, invite |-> NoInvite,
          link |-> 0, open |-> FALSE ]

Become(r, record) == req' = [req EXCEPT ![r] = record]

\* A request arrives in slot r.
Begin(r, op, record) ==
    /\ op \in Operations
    /\ req[r].step = "idle"
    /\ served < Budget
    /\ served' = served + 1
    /\ Become(r, record)

\* The transaction of another request has inserted or updated the user row, or the
\* profile, and not committed yet: a statement that writes it has to wait.
UserLocked(r) ==
    \E q \in Requests \ {r} : req[q].step \in {"minting", "uploading", "marking"}
ProfileLocked(r) ==
    \E q \in Requests \ {r} : req[q].claims /\ req[q].step \in {"registering", "minting"}

\* The row the request read is still there.
SameUser(r)    == user.id # 0 /\ user.id = req[r].user
SameProfile(r) == profile.id = req[r].profile

\* The stale tokens are deleted and t is inserted, by a request that then ends.
Mint(r, t, op) ==
    /\ token[t] = "unminted"
    /\ token' = [s \in Tokens |-> IF s = t THEN "unused"
                                  ELSE IF s \in req[r].stale THEN "deleted" ELSE token[s]]
    /\ source' = [source EXCEPT ![t] = op]
    /\ known' = [known EXCEPT ![t] = req[r].seen]
    /\ Become(r, Idle)

\* SELECT the unused tokens, to delete them.
Stale(r, step) ==
    Become(r, [req[r] EXCEPT !.step = step, !.stale = Unused, !.seen = Minted])

-------------------------------------------------------------------------------
(* The actions.  An operator whose name starts with Bug is not part of the *)
(* specification: it is the mistake that the action after it must not make.*)

(* Candidates.                                                             *)

\* SELECT the user; an active account, or a company's, is a 409.
RegisterRead(r) ==
    /\ user = NoUser \/ Pending("CANDIDATE")
    /\ Begin(r, "register", [Idle EXCEPT !.step = "registering", !.user = user.id])
    /\ UNCHANGED <<rows, history>>

\* Mutant: selects the stale tokens before the password has locked the row.
BugRegisterStatement(r) ==
    /\ req[r].step = "registering"
    /\ IF req[r].user = 0 => user = NoUser
       THEN Stale(r, "minting") ELSE Become(r, Idle)
    /\ UNCHANGED <<rows, served, history>>

\* INSERT the user; or write the password of the one that was read, flushed, with
\* the lock of its row, by the SELECT of the stale tokens that follows.
RegisterStatement(r) ==
    /\ req[r].step = "registering"
    /\ ~UserLocked(r)
    /\ IF req[r].user = 0
       THEN Become(r, IF user = NoUser
                      THEN [req[r] EXCEPT !.step = "minting", !.seen = Minted] ELSE Idle)
       ELSE IF SameUser(r) THEN Stale(r, "minting") ELSE Become(r, Idle)
    /\ UNCHANGED <<rows, served, history>>

\* What the transaction of a claim has done to the profile before it registers, or
\* that of an application to which no password was given.
KeepProfile(r) ==
    /\ profile' = IF profile = NoProfile
                  THEN [id |-> keys.profile + 1, owner |-> 0] ELSE profile
    /\ keys' = [keys EXCEPT !.profile = IF profile = NoProfile THEN @ + 1 ELSE @,
                            !.user = IF req[r].step = "minting" /\ req[r].user = 0
                                     THEN @ + 1 ELSE @]

RegisterCommit(r) ==
    /\ req[r].step = "minting"
    /\ \E t \in Tokens :
         /\ Mint(r, t, "register")
         /\ user' = IF req[r].user = 0
                    THEN [id |-> keys.user + 1, role |-> "CANDIDATE",
                          active |-> FALSE, password |-> t]
                    ELSE [user EXCEPT !.password = t]
    /\ IF req[r].claims
       THEN KeepProfile(r)
       ELSE /\ keys' = [keys EXCEPT !.user = IF req[r].user = 0 THEN @ + 1 ELSE @]
            /\ UNCHANGED profile
    /\ UNCHANGED <<invite, served, erased, enrolled>>

\* An anonymous application, refused on the email of an active candidate.
ApplyRead(r, claims) ==
    /\ ~(user.role = "CANDIDATE" /\ user.active)
    /\ Begin(r, IF claims THEN "claim" ELSE "apply",
             [Idle EXCEPT !.step = "applying", !.profile = profile.id, !.claims = claims])
    /\ UNCHANGED <<rows, history>>

\* INSERT or UPDATE the profile that was or was not there.  A claim goes on as a
\* registration in the same transaction, with a look at the user of its own.
ApplyStatement(r) ==
    /\ req[r].step = "applying"
    /\ ~ProfileLocked(r)
    /\ IF SameProfile(r) /\ req[r].claims
       THEN /\ Become(r, IF user = NoUser \/ Pending("CANDIDATE")
                         THEN [req[r] EXCEPT !.step = "registering", !.user = user.id]
                         ELSE Idle)
            /\ UNCHANGED <<profile, keys>>
       ELSE /\ Become(r, Idle)
            /\ IF SameProfile(r) THEN KeepProfile(r) ELSE UNCHANGED <<profile, keys>>
    /\ UNCHANGED <<user, token, invite, served, history>>

\* SELECT the user: any answer is a 202.
ResendRead(r) ==
    /\ Pending("CANDIDATE")
    /\ Begin(r, "resend", [Idle EXCEPT !.step = "resending", !.user = user.id])
    /\ UNCHANGED <<rows, history>>

\* Mutant: the stale tokens are deleted, and that is committed, before the limit is
\* found to be reached.
BugResendSelect(r) ==
    /\ req[r].step = "resending"
    /\ \/ Stale(r, "replacing") /\ UNCHANGED token
       \/ /\ Become(r, Idle)
          /\ token' = [t \in Tokens |-> IF t \in Unused THEN "deleted" ELSE token[t]]
    /\ UNCHANGED <<user, profile, invite, keys, served, history>>

\* Mutant: the links sent before stay usable.
BugResendKeeps(r) ==
    /\ req[r].step = "resending"
    /\ \/ Become(r, [req[r] EXCEPT !.step = "replacing", !.seen = Minted])
       \/ Become(r, Idle)
    /\ UNCHANGED <<rows, served, history>>

\* SELECT the tokens of the last hour, which may be too many, and the stale ones.
\* Nothing locks the user row.
ResendSelect(r) ==
    /\ req[r].step = "resending"
    /\ Stale(r, "replacing") \/ Become(r, Idle)
    /\ UNCHANGED <<rows, served, history>>

ResendCommit(r) ==
    /\ req[r].step = "replacing"
    /\ IF SameUser(r)
       THEN \E t \in Tokens : Mint(r, t, "resend")
       ELSE Become(r, Idle) /\ UNCHANGED <<token, source, known>>
    /\ UNCHANGED <<user, profile, invite, keys, served, erased, enrolled>>

-------------------------------------------------------------------------------
(* Activation, of candidates and of companies.                             *)

\* SELECT the token with its user and, for a candidate, the profile of the email.
ActivateRead(r, t) ==
    /\ token[t] = "unused"
    /\ Begin(r, "activate", [Idle EXCEPT !.step = "activating", !.token = t,
                                         !.user = user.id, !.profile = profile.id])
    /\ UNCHANGED <<rows, history>>

\* Mutant: does not notice that the profile it read is not there any more.
BugActivateCommit(r) ==
    LET t     == req[r].token
        fails == ~SameUser(r) \/ token[t] = "deleted"
    IN
    /\ req[r].step = "activating"
    /\ ~UserLocked(r) /\ ~ProfileLocked(r)
    /\ Become(r, Idle)
    /\ IF fails
       THEN UNCHANGED <<user, token, erased, profile, keys>>
       ELSE /\ user' = [user EXCEPT !.active = TRUE]
            /\ token' = [token EXCEPT ![t] = "used"]
            /\ profile' = IF req[r].profile = 0 /\ user.role = "CANDIDATE"
                          THEN [id |-> keys.profile + 1, owner |-> user.id]
                          ELSE [profile EXCEPT !.owner =
                                  IF SameProfile(r) /\ user.role = "CANDIDATE"
                                  THEN user.id ELSE @]
            /\ keys' = [keys EXCEPT !.profile = IF req[r].profile = 0 THEN @ + 1 ELSE @]
            /\ erased' = FALSE
    /\ UNCHANGED <<invite, served, source, known, enrolled>>

\* INSERT the profile or link it, UPDATE the user, UPDATE the token by its key,
\* whatever has become of it, and commit.
ActivateCommit(r) ==
    LET t     == req[r].token
        fails == \/ ~SameUser(r) \/ token[t] = "deleted"
                 \/ user.role = "CANDIDATE" /\ ~SameProfile(r)
    IN
    /\ req[r].step = "activating"
    /\ ~UserLocked(r) /\ ~ProfileLocked(r)
    /\ Become(r, Idle)
    /\ IF fails
       THEN UNCHANGED <<user, token, erased, profile, keys>>
       ELSE /\ user' = [user EXCEPT !.active = TRUE]
            /\ token' = [token EXCEPT ![t] = "used"]
            /\ IF user.role = "COMPANY"
               THEN UNCHANGED <<profile, keys, erased>>
               ELSE /\ profile' = [id |-> IF profile = NoProfile THEN keys.profile + 1
                                          ELSE profile.id,
                                   owner |-> user.id]
                    /\ keys' = [keys EXCEPT !.profile =
                                  IF profile = NoProfile THEN @ + 1 ELSE @]
                    /\ erased' = FALSE
    /\ UNCHANGED <<invite, served, source, known, enrolled>>

\* DELETE /api/admin/candidates/{id}, or the purge: the profile goes, the user stays.
EraseProfile(r) ==
    /\ profile # NoProfile
    /\ ~ProfileLocked(r)
    /\ Begin(r, "erase", Idle)
    /\ profile' = NoProfile
    /\ erased' = (user.role = "CANDIDATE" /\ user.active)
    /\ UNCHANGED <<user, token, invite, keys, source, known, enrolled>>

-------------------------------------------------------------------------------
(* Companies.                                                              *)

PendingInvites == {i \in Invites : invite[i].status = "PENDING"}
StoredInvites  == {i \in Invites : invite[i].status \in {"PENDING", "USED", "REVOKED"}}

\* An address with an account, or with an open invite, is refused.
InviteRead(r) ==
    /\ user = NoUser
    /\ PendingInvites = {}
    /\ Begin(r, "invite", [Idle EXCEPT !.step = "inviting"])
    /\ UNCHANGED <<rows, history>>

InviteCommit(r) ==
    /\ req[r].step = "inviting"
    /\ \E i \in Invites :
         /\ invite[i].status = "unborn"
         /\ invite' = [invite EXCEPT ![i] = [status |-> "PENDING", link |-> keys.link + 1]]
    /\ keys' = [keys EXCEPT !.link = @ + 1]
    /\ Become(r, Idle)
    /\ UNCHANGED <<user, profile, token, served, history>>

\* What is read of an invite by the handler of one of its buttons.
Handle(r, op, step, i) ==
    /\ Begin(r, op, [Idle EXCEPT !.step = step, !.invite = i,
                                 !.open = (invite[i].status = "PENDING")])
    /\ UNCHANGED <<rows, history>>

RevokeRead(r, i) == i \in PendingInvites /\ Handle(r, "revoke", "revoking", i)

RevokeCommit(r) ==
    /\ req[r].step = "revoking"
    /\ LET i == req[r].invite IN
       invite' = IF i \in StoredInvites
                 THEN [invite EXCEPT ![i].status = "REVOKED"] ELSE invite
    /\ Become(r, Idle)
    /\ UNCHANGED <<user, profile, token, keys, served, history>>

ReinviteRead(r, i) ==
    /\ i \in StoredInvites
    /\ invite[i].status # "USED"
    /\ Handle(r, "reinvite", "reinviting", i)

\* Mutant: sends the same link again and opens the invite for it.
BugReinviteCommit(r) ==
    /\ req[r].step = "reinviting"
    /\ LET i == req[r].invite IN
       invite' = IF i \in StoredInvites
                 THEN [invite EXCEPT ![i].status = "PENDING"] ELSE invite
    /\ Become(r, Idle)
    /\ UNCHANGED <<user, profile, token, keys, served, history>>

\* The link is replaced; the status is part of the UPDATE only if it was not PENDING
\* when the row was read.
ReinviteCommit(r) ==
    /\ req[r].step = "reinviting"
    /\ LET i == req[r].invite IN
       IF i \in StoredInvites
       THEN /\ invite' = [invite EXCEPT ![i] =
                            [status |-> IF req[r].open THEN @.status ELSE "PENDING",
                             link |-> keys.link + 1]]
            /\ keys' = [keys EXCEPT !.link = @ + 1]
       ELSE UNCHANGED <<invite, keys>>
    /\ Become(r, Idle)
    /\ UNCHANGED <<user, profile, token, served, history>>

\* DELETE an invite, whatever its status.
DropInvite(r, i) ==
    /\ i \in StoredInvites
    /\ Begin(r, "drop", Idle)
    /\ invite' = [invite EXCEPT ![i].status = "deleted"]
    /\ UNCHANGED <<user, profile, token, keys, history>>

\* validate_invite_token, and SELECT the user: an address with an account is a 409.
EnrollRead(r, i) ==
    /\ i \in PendingInvites
    /\ user = NoUser
    /\ Begin(r, "enroll", [Idle EXCEPT !.step = "enrolling", !.link = invite[i].link])
    /\ UNCHANGED <<rows, history>>

\* INSERT the user.  The uploads that follow are slow.
EnrollInsert(r) ==
    /\ req[r].step = "enrolling"
    /\ ~UserLocked(r)
    /\ Become(r, IF user = NoUser THEN [req[r] EXCEPT !.step = "uploading"] ELSE Idle)
    /\ UNCHANGED <<rows, served, history>>

\* mark_invite_used looks for the link again, and marks it only if it is PENDING.
MarkInvite(r) ==
    LET found == {i \in PendingInvites : invite[i].link = req[r].link} IN
    /\ req[r].step = "uploading"
    /\ Become(r, [req[r] EXCEPT !.step = "marking",
                    !.invite = IF found = {} THEN NoInvite ELSE CHOOSE i \in found : TRUE])
    /\ UNCHANGED <<rows, served, history>>

EnrollCommit(r) ==
    LET i == req[r].invite IN
    /\ req[r].step = "marking"
    /\ Become(r, Idle)
    /\ IF i # NoInvite /\ i \notin StoredInvites
       THEN UNCHANGED <<user, invite, keys, enrolled>>
       ELSE /\ user' = [id |-> keys.user + 1, role |-> "COMPANY",
                        active |-> FALSE, password |-> NoToken]
            /\ keys' = [keys EXCEPT !.user = @ + 1]
            /\ invite' = IF i = NoInvite THEN invite
                         ELSE [invite EXCEPT ![i].status = "USED"]
            /\ enrolled' = req[r].link
    /\ UNCHANGED <<profile, token, served, source, known, erased>>

ApproveRead(r) ==
    /\ Pending("COMPANY")
    /\ Begin(r, "approve", [Idle EXCEPT !.step = "approving", !.user = user.id])
    /\ UNCHANGED <<rows, history>>

\* scalar_one_or_none raises when there are two unused tokens.
ApproveSelect(r) ==
    /\ req[r].step = "approving"
    /\ IF Cardinality(Unused) > 1 THEN Become(r, Idle) ELSE Stale(r, "issuing")
    /\ UNCHANGED <<rows, served, history>>

\* After the contract has been drawn and uploaded.
ApproveCommit(r) ==
    /\ req[r].step = "issuing"
    /\ IF SameUser(r)
       THEN \E t \in Tokens : Mint(r, t, "approve")
       ELSE Become(r, Idle) /\ UNCHANGED <<token, source, known>>
    /\ UNCHANGED <<user, profile, invite, keys, served, erased, enrolled>>

\* Rejection is for a company that is not active, deletion for any.
RejectRead(r, op) ==
    /\ IF op = "reject" THEN Pending("COMPANY") ELSE user.role = "COMPANY"
    /\ Begin(r, op, [Idle EXCEPT !.step = "rejecting", !.user = user.id])
    /\ UNCHANGED <<rows, history>>

\* DELETE the user by its key; its tokens go with it (ON DELETE CASCADE).
RejectCommit(r) ==
    /\ req[r].step = "rejecting"
    /\ ~UserLocked(r)
    /\ Become(r, Idle)
    /\ IF SameUser(r)
       THEN /\ user' = NoUser
            /\ token' = [t \in Tokens |-> IF t \in Minted THEN "deleted" ELSE "unminted"]
       ELSE UNCHANGED <<user, token>>
    /\ UNCHANGED <<profile, invite, keys, served, history>>

\* A disconnect, a crash or a failure of the storage: the transaction rolls back.
Abort(r) ==
    /\ req[r].step # "idle"
    /\ Become(r, Idle)
    /\ UNCHANGED <<rows, served, history>>

-------------------------------------------------------------------------------
\* Nobody has an account; the candidate may have applied before.
Init ==
    /\ user = NoUser
    /\ profile \in {NoProfile, [id |-> 1, owner |-> 0]}
    /\ token = [t \in Tokens |-> "unminted"]
    /\ invite = [i \in Invites |-> [status |-> "unborn", link |-> 0]]
    /\ keys = [user |-> 0, profile |-> 1, link |-> 0]
    /\ req = [r \in Requests |-> Idle]
    /\ served = 0
    /\ source = [t \in Tokens |-> "none"]
    /\ known = [t \in Tokens |-> {}]
    /\ erased = FALSE
    /\ enrolled = 0

Next ==
    \E r \in Requests :
      \/ RegisterRead(r) \/ RegisterStatement(r) \/ RegisterCommit(r)
      \/ ApplyStatement(r) \/ EraseProfile(r)
      \/ ResendRead(r) \/ ResendSelect(r) \/ ResendCommit(r)
      \/ ActivateCommit(r)
      \/ InviteRead(r) \/ InviteCommit(r) \/ RevokeCommit(r) \/ ReinviteCommit(r)
      \/ EnrollInsert(r) \/ MarkInvite(r) \/ EnrollCommit(r)
      \/ ApproveRead(r) \/ ApproveSelect(r) \/ ApproveCommit(r)
      \/ RejectCommit(r) \/ Abort(r)
      \/ \E claims \in BOOLEAN : ApplyRead(r, claims)
      \/ \E t \in Tokens : ActivateRead(r, t)
      \/ \E i \in Invites : RevokeRead(r, i) \/ ReinviteRead(r, i)
                            \/ DropInvite(r, i) \/ EnrollRead(r, i)
      \/ \E op \in {"reject", "delete"} : RejectRead(r, op)

Spec == Init /\ [][Next]_vars

-------------------------------------------------------------------------------
(* Properties.                                                             *)

\* Rows, requests and history have the values they should.
TypeOK ==
    /\ user \in [id : Nat, role : Role \cup {"none"}, active : BOOLEAN,
                 password : Tokens \cup {NoToken}]
    /\ profile \in [id : Nat, owner : Nat]
    /\ token \in [Tokens -> {"unminted", "unused", "used", "deleted"}]
    /\ invite \in [Invites -> [status : {"unborn", "PENDING", "USED", "REVOKED", "deleted"},
                               link : Nat]]
    /\ keys \in [user : Nat, profile : Nat, link : Nat]
    /\ req \in [Requests -> Request]
    /\ served \in 0..Budget
    /\ source \in [Tokens -> {"none", "register", "resend", "approve"}]
    /\ known \in [Tokens -> SUBSET Tokens]
    /\ erased \in BOOLEAN
    /\ enrolled \in Nat

\* While a candidate's account is pending there is always a link that can activate
\* it, expired or not: the login then says that it waits for its activation and
\* not, as for a company, for an approval (services/auth/login.py:146-157), however
\* registrations, resends and activations interleave and fail.
PendingHasLink == Pending("CANDIDATE") => Unused # {}

\* The link of a registration activates the password of that registration: "the
\* old link in the candidate's inbox stops working when they submit a new password"
\* (services/auth/candidate_registration.py:152).  The resends, which lock nothing,
\* are the only source of a second link.
LinkMatchesPassword ==
    \A t \in Unused : source[t] = "register" => t = user.password

\* Two links are usable at once, which makes the next login and the next approval
\* of the account fail, only when the requests that minted them overlapped: neither
\* link existed when the request of the other selected the stale ones.
LinksOverlap ==
    \A s, t \in Unused : s # t => s \notin known[t] /\ t \notin known[s]

\* An active candidate has the profile with the consent of the activation, unless
\* an admin has erased it since: an application made while the account was pending,
\* or a profile that comes or goes between the two halves of an activation, never
\* leaves the account without ("should not happen post-activation",
\* core/infrastructure/dependencies.py:181).
ActiveHasProfile ==
    user.role = "CANDIDATE" /\ user.active /\ ~erased => profile.owner = user.id

\* The invite link with which the company registered is not open any more,
\* whatever admins did to the invite during the registration.
InviteSpent ==
    user.role = "COMPANY" =>
        \A i \in PendingInvites : invite[i].link # enrolled

================================================================================
