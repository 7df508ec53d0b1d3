--------------------------- MODULE Onboarding_proofs ---------------------------
(***************************************************************************)
(* What holds of one email address for any number of requests, tokens,     *)
(* invites and requests started.                                           *)
(*                                                                         *)
(* The properties of the links rest on two facts.  Whoever has inserted or *)
(* updated the user row holds its lock until it commits: there is one such *)
(* request at most, and the user row is what it found.  And a request that *)
(* has selected the stale tokens deletes every unused token that there was *)
(* when it did: what it leaves is younger.  The invite of a company rests  *)
(* on every link being fresh: no two invites have one link, and none that  *)
(* is open has the link of a registration but the one it marks.            *)
(***************************************************************************)
EXTENDS Onboarding, TLAPS

-------------------------------------------------------------------------------
(* Types.                                                                  *)

\* The empty slot is a request.
LEMMA IdleTyped == Idle \in Request
BY DEF Idle, Request, Steps

\* A slot that takes a request keeps the slots well formed.
LEMMA BecomeTyped ==
    ASSUME req \in [Requests -> Request], NEW r \in Requests, NEW record \in Request,
           Become(r, record)
    PROVE  req' \in [Requests -> Request]
BY DEF Become

\* A request that arrives is counted within the bound.
LEMMA BeginTyped ==
    ASSUME TypeOK, NEW r \in Requests, NEW op, NEW record \in Request,
           Begin(r, op, record)
    PROVE  req' \in [Requests -> Request] /\ served' \in 0..Budget
<1>1. req' \in [Requests -> Request]
  BY BecomeTyped DEF TypeOK, Begin
<1>2. served' \in 0..Budget
  BY OnboardingAssumption DEF TypeOK, Begin
<1> QED
  BY <1>1, <1>2

\* A new request differs from the empty slot in well-formed parts.
LEMMA NewTyped ==
    ASSUME NEW s \in Steps, NEW u \in Nat, NEW p \in Nat, NEW c \in BOOLEAN,
           NEW t \in Tokens \cup {NoToken}, NEW i \in Invites \cup {NoInvite},
           NEW l \in Nat, NEW o \in BOOLEAN
    PROVE  /\ [Idle EXCEPT !.step = s, !.user = u] \in Request
           /\ [Idle EXCEPT !.step = s, !.profile = p, !.claims = c] \in Request
           /\ [Idle EXCEPT !.step = s, !.token = t, !.user = u, !.profile = p] \in Request
           /\ [Idle EXCEPT !.step = s] \in Request
           /\ [Idle EXCEPT !.step = s, !.invite = i, !.open = o] \in Request
           /\ [Idle EXCEPT !.step = s, !.link = l] \in Request
BY DEF Idle, Request

\* The keys of the rows are numbers.
LEMMA KeysTyped ==
    ASSUME TypeOK
    PROVE  user.id \in Nat /\ profile.id \in Nat /\ keys.link \in Nat
BY DEF TypeOK

\* The steps in which requests arrive.
LEMMA StepsTyped ==
    { "registering", "resending", "applying", "activating", "inviting", "revoking",
      "reinviting", "enrolling", "approving", "rejecting" } \subseteq Steps
BY DEF Steps

\* Selecting the stale tokens keeps the slots well formed.
LEMMA StaleTyped ==
    ASSUME TypeOK, NEW r \in Requests, NEW s \in Steps, Stale(r, s)
    PROVE  req' \in [Requests -> Request]
<1>1. req[r] \in Request
  BY DEF TypeOK
<1>2. Unused \in SUBSET Tokens /\ Minted \in SUBSET Tokens
  BY DEF Unused, Minted
<1>3. [req[r] EXCEPT !.step = s, !.stale = Unused, !.seen = Minted] \in Request
  BY <1>1, <1>2 DEF Request
<1> QED
  BY <1>3, BecomeTyped DEF Stale, TypeOK

\* Minting writes tokens, where they come from and what was known of others.
LEMMA MintTyped ==
    ASSUME TypeOK, NEW r \in Requests, NEW t \in Tokens,
           NEW op \in {"register", "resend", "approve"}, Mint(r, t, op)
    PROVE  /\ token' \in [Tokens -> {"unminted", "unused", "used", "deleted"}]
           /\ source' \in [Tokens -> {"none", "register", "resend", "approve"}]
           /\ known' \in [Tokens -> SUBSET Tokens]
           /\ req' \in [Requests -> Request]
<1>1. req[r] \in Request
  BY DEF TypeOK
<1>2. req[r].seen \in SUBSET Tokens
  BY <1>1 DEF Request
<1>3. token' \in [Tokens -> {"unminted", "unused", "used", "deleted"}]
  BY DEF Mint, TypeOK
<1>4. source' \in [Tokens -> {"none", "register", "resend", "approve"}]
  BY DEF Mint, TypeOK
<1>5. known' \in [Tokens -> SUBSET Tokens]
  BY <1>2 DEF Mint, TypeOK
<1>6. req' \in [Requests -> Request]
  BY IdleTyped, BecomeTyped DEF Mint, TypeOK
<1> QED
  BY <1>3, <1>4, <1>5, <1>6

\* The profile an application leaves is a row, and its key is counted.
LEMMA KeepTyped ==
    ASSUME TypeOK, NEW r \in Requests, KeepProfile(r)
    PROVE  /\ profile' \in [id : Nat, owner : Nat]
           /\ keys' \in [user : Nat, profile : Nat, link : Nat]
<1> DEFINE p == IF profile = NoProfile THEN keys.profile + 1 ELSE keys.profile
<1> DEFINE u == IF req[r].step = "minting" /\ req[r].user = 0 THEN keys.user + 1 ELSE keys.user
<1>1. keys \in [user : Nat, profile : Nat, link : Nat]
  BY DEF TypeOK
<1>2. p \in Nat /\ u \in Nat
  BY <1>1
<1>3. keys' = [keys EXCEPT !.profile = p, !.user = u]
  BY DEF KeepProfile
<1>4. profile' \in [id : Nat, owner : Nat]
  <2>1. CASE profile = NoProfile
    BY <1>1, <2>1 DEF KeepProfile
  <2>2. CASE profile # NoProfile
    BY <2>2 DEF KeepProfile, TypeOK
  <2> QED
    BY <2>1, <2>2
<1> HIDE DEF p, u
<1>5. keys' \in [user : Nat, profile : Nat, link : Nat]
  BY <1>1, <1>2, <1>3
<1> QED
  BY <1>4, <1>5

\* A step of the candidate's side keeps the types.
LEMMA CandidateTyped ==
    ASSUME TypeOK, NEW r \in Requests,
           \/ RegisterRead(r) \/ RegisterStatement(r) \/ RegisterCommit(r)
           \/ ApplyStatement(r) \/ EraseProfile(r)
           \/ ResendRead(r) \/ ResendSelect(r) \/ ResendCommit(r)
           \/ \E claims \in BOOLEAN : ApplyRead(r, claims)
    PROVE  TypeOK'
<1>0. req[r] \in Request
  BY DEF TypeOK
<1>1. CASE RegisterRead(r)
  <2>1. [Idle EXCEPT !.step = "registering", !.user = user.id] \in Request
    BY KeysTyped, StepsTyped, NewTyped
  <2> QED
    BY <1>1, <2>1, BeginTyped DEF RegisterRead, TypeOK, rows, history
<1>2. CASE RegisterStatement(r)
  <2>1. CASE req[r].user = 0
    <3>1. [req[r] EXCEPT !.step = "minting", !.seen = Minted] \in Request
      BY <1>0 DEF Request, Steps, Minted
    <3>2. req' \in [Requests -> Request]
      <4>1. CASE user = NoUser
        BY <1>2, <2>1, <3>1, <4>1, BecomeTyped DEF RegisterStatement, TypeOK
      <4>2. CASE user # NoUser
        BY <1>2, <2>1, <4>2, IdleTyped, BecomeTyped DEF RegisterStatement, TypeOK
      <4> QED
        BY <4>1, <4>2
    <3> QED
      BY <1>2, <3>2 DEF RegisterStatement, TypeOK, rows, history
  <2>2. CASE req[r].user # 0
    <3>1. Stale(r, "minting") \/ Become(r, Idle)
      BY <1>2, <2>2 DEF RegisterStatement
    <3>2. req' \in [Requests -> Request]
      BY <3>1, IdleTyped, BecomeTyped, StaleTyped DEF TypeOK, Steps
    <3> QED
      BY <1>2, <3>2 DEF RegisterStatement, TypeOK, rows, history
  <2> QED
    BY <2>1, <2>2
<1>3. CASE RegisterCommit(r)
  <2>1. PICK t \in Tokens :
          /\ Mint(r, t, "register")
          /\ user' = IF req[r].user = 0
                     THEN [id |-> keys.user + 1, role |-> "CANDIDATE",
                           active |-> FALSE, password |-> t]
                     ELSE [user EXCEPT !.password = t]
    BY <1>3 DEF RegisterCommit
  <2>2. keys \in [user : Nat, profile : Nat, link : Nat]
    BY DEF TypeOK
  <2>3. user' \in [id : Nat, role : Role \cup {"none"}, active : BOOLEAN,
                   password : Tokens \cup {NoToken}]
    <3>1. CASE req[r].user = 0
      BY <2>1, <2>2, <3>1 DEF Role
    <3>2. CASE req[r].user # 0
      BY <2>1, <3>2 DEF TypeOK
    <3> QED
      BY <3>1, <3>2
  <2>4. /\ profile' \in [id : Nat, owner : Nat]
        /\ keys' \in [user : Nat, profile : Nat, link : Nat]
    <3>1. CASE req[r].claims
      BY <1>3, <3>1, KeepTyped DEF RegisterCommit
    <3>2. CASE ~req[r].claims
      <4> DEFINE u == IF req[r].user = 0 THEN keys.user + 1 ELSE keys.user
      <4>1. u \in Nat
        BY <2>2
      <4>2. keys' = [keys EXCEPT !.user = u] /\ profile' = profile
        BY <1>3, <3>2 DEF RegisterCommit
      <4> HIDE DEF u
      <4> QED
        BY <4>1, <4>2, <2>2 DEF TypeOK
    <3> QED
      BY <3>1, <3>2
  <2>5. UNCHANGED <<invite, served, erased, enrolled>>
    BY <1>3 DEF RegisterCommit
  <2> QED
    BY <2>1, <2>3, <2>4, <2>5, MintTyped DEF TypeOK
<1>4. CASE ApplyStatement(r)
  <2>1. [req[r] EXCEPT !.step = "registering", !.user = user.id] \in Request
    BY <1>0 DEF TypeOK, Request, Steps
  <2>2. \/ Become(r, [req[r] EXCEPT !.step = "registering", !.user = user.id])
        \/ Become(r, Idle)
    BY <1>4 DEF ApplyStatement
  <2>3. req' \in [Requests -> Request]
    BY <2>1, <2>2, IdleTyped, BecomeTyped DEF TypeOK
  <2>4. KeepProfile(r) \/ UNCHANGED <<profile, keys>>
    BY <1>4 DEF ApplyStatement
  <2>5. /\ profile' \in [id : Nat, owner : Nat]
        /\ keys' \in [user : Nat, profile : Nat, link : Nat]
    BY <2>4, KeepTyped DEF TypeOK
  <2> QED
    BY <1>4, <2>3, <2>5 DEF ApplyStatement, TypeOK, history
<1>5. CASE EraseProfile(r)
  <2>1. req' \in [Requests -> Request] /\ served' \in 0..Budget
    BY <1>5, IdleTyped, BeginTyped DEF EraseProfile
  <2>2. profile' \in [id : Nat, owner : Nat]
    BY <1>5 DEF EraseProfile, NoProfile
  <2>3. erased' \in BOOLEAN
    BY <1>5 DEF EraseProfile
  <2> QED
    BY <1>5, <2>1, <2>2, <2>3 DEF EraseProfile, TypeOK
<1>6. CASE ResendRead(r)
  <2>1. [Idle EXCEPT !.step = "resending", !.user = user.id] \in Request
    BY KeysTyped, StepsTyped, NewTyped
  <2> QED
    BY <1>6, <2>1, BeginTyped DEF ResendRead, TypeOK, rows, history
<1>7. CASE ResendSelect(r)
  <2>1. req' \in [Requests -> Request]
    BY <1>7, IdleTyped, BecomeTyped, StaleTyped DEF ResendSelect, TypeOK, Steps
  <2> QED
    BY <1>7, <2>1 DEF ResendSelect, TypeOK, rows, history
<1>8. CASE ResendCommit(r)
  <2>1. CASE SameUser(r)
    BY <1>8, <2>1, MintTyped DEF ResendCommit, TypeOK
  <2>2. CASE ~SameUser(r)
    <3>1. req' \in [Requests -> Request]
      BY <1>8, <2>2, IdleTyped, BecomeTyped DEF ResendCommit, TypeOK
    <3> QED
      BY <1>8, <2>2, <3>1 DEF ResendCommit, TypeOK
  <2> QED
    BY <2>1, <2>2
<1>9. CASE \E claims \in BOOLEAN : ApplyRead(r, claims)
  <2>1. PICK claims \in BOOLEAN : ApplyRead(r, claims)
    BY <1>9
  <2>2. [Idle EXCEPT !.step = "applying", !.profile = profile.id, !.claims = claims] \in Request
    BY KeysTyped, StepsTyped, NewTyped
  <2> QED
    BY <2>1, <2>2, BeginTyped DEF ApplyRead, TypeOK, rows, history
<1> QED
  BY <1>1, <1>2, <1>3, <1>4, <1>5, <1>6, <1>7, <1>8, <1>9

\* So does activation.
LEMMA ActivateTyped ==
    ASSUME TypeOK, NEW r \in Requests,
           (\E t \in Tokens : ActivateRead(r, t)) \/ ActivateCommit(r)
    PROVE  TypeOK'
<1>1. CASE \E t \in Tokens : ActivateRead(r, t)
  <2>1. PICK t \in Tokens : ActivateRead(r, t)
    BY <1>1
  <2>2. [Idle EXCEPT !.step = "activating", !.token = t, !.user = user.id,
                     !.profile = profile.id] \in Request
    BY KeysTyped, StepsTyped, NewTyped
  <2> QED
    BY <2>1, <2>2, BeginTyped DEF ActivateRead, TypeOK, rows, history
<1>2. CASE ActivateCommit(r)
  <2>1. req' \in [Requests -> Request]
    BY <1>2, IdleTyped, BecomeTyped DEF ActivateCommit, TypeOK
  <2>2. UNCHANGED <<invite, served, source, known, enrolled>>
    BY <1>2 DEF ActivateCommit
  <2>3. CASE UNCHANGED <<user, token, erased, profile, keys>>
    BY <2>1, <2>2, <2>3 DEF TypeOK
  <2>4. CASE ~UNCHANGED <<user, token, erased, profile, keys>>
    <3>1. /\ user' = [user EXCEPT !.active = TRUE]
          /\ token' = [token EXCEPT ![req[r].token] = "used"]
      BY <1>2, <2>4 DEF ActivateCommit
    <3>2. /\ profile' \in [id : Nat, owner : Nat]
          /\ keys' \in [user : Nat, profile : Nat, link : Nat]
          /\ erased' \in BOOLEAN
      <4>1. CASE user.role = "COMPANY"
        BY <1>2, <2>4, <4>1 DEF ActivateCommit, TypeOK
      <4>2. CASE user.role # "COMPANY"
        <5> DEFINE p == IF profile = NoProfile THEN keys.profile + 1 ELSE keys.profile
        <5> DEFINE d == IF profile = NoProfile THEN keys.profile + 1 ELSE profile.id
        <5>1. keys \in [user : Nat, profile : Nat, link : Nat]
          BY DEF TypeOK
        <5>2. user.id \in Nat /\ profile.id \in Nat
          BY DEF TypeOK
        <5>3. p \in Nat /\ d \in Nat
          BY <5>1, <5>2
        <5>4. keys' = [keys EXCEPT !.profile = p]
          BY <1>2, <2>4, <4>2 DEF ActivateCommit
        <5>5. profile' = [id |-> d, owner |-> user.id] /\ erased' = FALSE
          BY <1>2, <2>4, <4>2 DEF ActivateCommit
        <5> HIDE DEF p, d
        <5> QED
          BY <5>1, <5>2, <5>3, <5>4, <5>5
      <4> QED
        BY <4>1, <4>2
    <3>3. user' \in [id : Nat, role : Role \cup {"none"}, active : BOOLEAN,
                     password : Tokens \cup {NoToken}]
      BY <3>1 DEF TypeOK
    <3>4. token' \in [Tokens -> {"unminted", "unused", "used", "deleted"}]
      BY <3>1 DEF TypeOK
    <3> QED
      BY <2>1, <2>2, <3>2, <3>3, <3>4 DEF TypeOK
  <2> QED
    BY <2>3, <2>4
<1> QED
  BY <1>1, <1>2

\* So does a step of an invite.
LEMMA InviteTyped ==
    ASSUME TypeOK, NEW r \in Requests,
           \/ InviteRead(r) \/ InviteCommit(r) \/ RevokeCommit(r) \/ ReinviteCommit(r)
           \/ \E i \in Invites : RevokeRead(r, i) \/ ReinviteRead(r, i) \/ DropInvite(r, i)
    PROVE  TypeOK'
<1> DEFINE Row == [status : {"unborn", "PENDING", "USED", "REVOKED", "deleted"}, link : Nat]
<1>1. CASE InviteRead(r)
  <2>1. [Idle EXCEPT !.step = "inviting"] \in Request
    BY StepsTyped, NewTyped
  <2> QED
    BY <1>1, <2>1, BeginTyped DEF InviteRead, TypeOK, rows, history
<1>2. CASE InviteCommit(r)
  <2>1. PICK i \in Invites :
          invite' = [invite EXCEPT ![i] = [status |-> "PENDING", link |-> keys.link + 1]]
    BY <1>2 DEF InviteCommit
  <2>2. [status |-> "PENDING", link |-> keys.link + 1] \in Row
    BY KeysTyped
  <2>3. invite' \in [Invites -> Row]
    BY <2>1, <2>2 DEF TypeOK
  <2>4. req' \in [Requests -> Request]
    BY <1>2, IdleTyped, BecomeTyped DEF InviteCommit, TypeOK
  <2>5. keys' \in [user : Nat, profile : Nat, link : Nat]
    BY <1>2 DEF InviteCommit, TypeOK
  <2> QED
    BY <1>2, <2>3, <2>4, <2>5 DEF InviteCommit, TypeOK, history
<1>3. CASE RevokeCommit(r)
  <2>1. req' \in [Requests -> Request]
    BY <1>3, IdleTyped, BecomeTyped DEF RevokeCommit, TypeOK
  <2>2. invite' \in [Invites -> Row]
    <3>1. invite' = [invite EXCEPT ![req[r].invite].status = "REVOKED"] \/ invite' = invite
      BY <1>3 DEF RevokeCommit
    <3> QED
      BY <3>1 DEF TypeOK
  <2> QED
    BY <1>3, <2>1, <2>2 DEF RevokeCommit, TypeOK, history
<1>4. CASE ReinviteCommit(r)
  <2> DEFINE i == req[r].invite
  <2>1. req' \in [Requests -> Request]
    BY <1>4, IdleTyped, BecomeTyped DEF ReinviteCommit, TypeOK
  <2>2. CASE i \in StoredInvites
    <3> DEFINE s == IF req[r].open THEN invite[i].status ELSE "PENDING"
    <3>1. i \in Invites
      BY <2>2 DEF StoredInvites
    <3>2. invite[i] \in Row
      BY <3>1 DEF TypeOK
    <3>3. [status |-> s, link |-> keys.link + 1] \in Row
      BY <3>2, KeysTyped
    <3>4. invite' = [invite EXCEPT ![i] = [status |-> s, link |-> keys.link + 1]]
      BY <1>4, <2>2 DEF ReinviteCommit
    <3>5. keys' = [keys EXCEPT !.link = @ + 1]
      BY <1>4, <2>2 DEF ReinviteCommit
    <3>6. invite' \in [Invites -> Row]
      BY <3>1, <3>3, <3>4 DEF TypeOK
    <3>7. keys' \in [user : Nat, profile : Nat, link : Nat]
      BY <3>5 DEF TypeOK
    <3> QED
      BY <1>4, <2>1, <3>6, <3>7 DEF ReinviteCommit, TypeOK, history
  <2>3. CASE i \notin StoredInvites
    BY <1>4, <2>1, <2>3 DEF ReinviteCommit, TypeOK, history
  <2> QED
    BY <2>2, <2>3
<1>5. CASE \E i \in Invites : RevokeRead(r, i) \/ ReinviteRead(r, i)
  <2>1. PICK i \in Invites : Handle(r, "revoke", "revoking", i)
                             \/ Handle(r, "reinvite", "reinviting", i)
    BY <1>5 DEF RevokeRead, ReinviteRead
  <2> DEFINE o == (invite[i].status = "PENDING")
  <2>2. UNCHANGED <<rows, history>>
    BY <2>1 DEF Handle
  <2>3. \/ Begin(r, "revoke", [Idle EXCEPT !.step = "revoking", !.invite = i, !.open = o])
        \/ Begin(r, "reinvite", [Idle EXCEPT !.step = "reinviting", !.invite = i, !.open = o])
    BY <2>1 DEF Handle
  <2>4. o \in BOOLEAN
    OBVIOUS
  <2> HIDE DEF o
  <2>5. /\ [Idle EXCEPT !.step = "revoking", !.invite = i, !.open = o] \in Request
        /\ [Idle EXCEPT !.step = "reinviting", !.invite = i, !.open = o] \in Request
    BY <2>4, StepsTyped, NewTyped
  <2>6. req' \in [Requests -> Request] /\ served' \in 0..Budget
    BY <2>3, <2>5, BeginTyped
  <2> QED
    BY <2>2, <2>6 DEF TypeOK, rows, history
<1>6. CASE \E i \in Invites : DropInvite(r, i)
  <2>1. PICK i \in Invites : DropInvite(r, i)
    BY <1>6
  <2>2. invite' \in [Invites -> Row]
    BY <2>1 DEF DropInvite, TypeOK
  <2>3. req' \in [Requests -> Request] /\ served' \in 0..Budget
    BY <2>1, IdleTyped, BeginTyped DEF DropInvite
  <2> QED
    BY <2>1, <2>2, <2>3 DEF DropInvite, TypeOK, history
<1> QED
  BY <1>1, <1>2, <1>3, <1>4, <1>5, <1>6

\* And the registration, approval and deletion of a company.
LEMMA CompanyTyped ==
    ASSUME TypeOK, NEW r \in Requests,
           \/ \E i \in Invites : EnrollRead(r, i)
           \/ EnrollInsert(r) \/ MarkInvite(r) \/ EnrollCommit(r)
           \/ ApproveRead(r) \/ ApproveSelect(r) \/ ApproveCommit(r)
           \/ \E op \in {"reject", "delete"} : RejectRead(r, op)
           \/ RejectCommit(r) \/ Abort(r)
    PROVE  TypeOK'
<1>0. req[r] \in Request
  BY DEF TypeOK
<1>1. CASE \E i \in Invites : EnrollRead(r, i)
  <2>1. PICK i \in Invites : EnrollRead(r, i)
    BY <1>1
  <2>2. invite[i].link \in Nat
    BY DEF TypeOK
  <2>3. [Idle EXCEPT !.step = "enrolling", !.link = invite[i].link] \in Request
    BY <2>2, StepsTyped, NewTyped
  <2> QED
    BY <2>1, <2>3, BeginTyped DEF EnrollRead, TypeOK, rows, history
<1>2. CASE EnrollInsert(r)
  <2>1. [req[r] EXCEPT !.step = "uploading"] \in Request
    BY <1>0 DEF Request, Steps
  <2>2. Become(r, [req[r] EXCEPT !.step = "uploading"]) \/ Become(r, Idle)
    BY <1>2 DEF EnrollInsert
  <2>3. req' \in [Requests -> Request]
    BY <2>1, <2>2, IdleTyped, BecomeTyped DEF TypeOK
  <2> QED
    BY <1>2, <2>3 DEF EnrollInsert, TypeOK, rows, history
<1>3. CASE MarkInvite(r)
  <2> DEFINE found == {i \in PendingInvites : invite[i].link = req[r].link}
  <2> DEFINE j == IF found = {} THEN NoInvite ELSE CHOOSE i \in found : TRUE
  <2>1. found \subseteq Invites
    BY DEF PendingInvites
  <2>2. j \in Invites \cup {NoInvite}
    BY <2>1
  <2>3. Become(r, [req[r] EXCEPT !.step = "marking", !.invite = j])
    BY <1>3 DEF MarkInvite
  <2> HIDE DEF j
  <2>4. [req[r] EXCEPT !.step = "marking", !.invite = j] \in Request
    BY <1>0, <2>2 DEF Request, Steps
  <2>5. req' \in [Requests -> Request]
    BY <2>3, <2>4, BecomeTyped DEF TypeOK
  <2> QED
    BY <1>3, <2>5 DEF MarkInvite, TypeOK, rows, history
<1>4. CASE EnrollCommit(r)
  <2>1. req' \in [Requests -> Request]
    BY <1>4, IdleTyped, BecomeTyped DEF EnrollCommit, TypeOK
  <2>2. UNCHANGED <<profile, token, served, source, known, erased>>
    BY <1>4 DEF EnrollCommit
  <2>3. CASE UNCHANGED <<user, invite, keys, enrolled>>
    BY <2>1, <2>2, <2>3 DEF TypeOK
  <2>4. CASE ~UNCHANGED <<user, invite, keys, enrolled>>
    <3>1. /\ user' = [id |-> keys.user + 1, role |-> "COMPANY",
                      active |-> FALSE, password |-> NoToken]
          /\ keys' = [keys EXCEPT !.user = @ + 1]
          /\ enrolled' = req[r].link
          /\ \/ invite' = invite
             \/ invite' = [invite EXCEPT ![req[r].invite].status = "USED"]
      BY <1>4, <2>4 DEF EnrollCommit
    <3>2. invite' \in [Invites -> [status : {"unborn", "PENDING", "USED", "REVOKED", "deleted"},
                                   link : Nat]]
      BY <3>1 DEF TypeOK
    <3>3. enrolled' \in Nat
      BY <1>0, <3>1 DEF Request
    <3>4. keys.user \in Nat
      BY DEF TypeOK
    <3>5. keys' \in [user : Nat, profile : Nat, link : Nat]
      BY <3>1 DEF TypeOK
    <3>6. user' \in [id : Nat, role : Role \cup {"none"}, active : BOOLEAN,
                     password : Tokens \cup {NoToken}]
      BY <3>1, <3>4 DEF Role
    <3> QED
      BY <2>1, <2>2, <3>2, <3>3, <3>5, <3>6 DEF TypeOK
  <2> QED
    BY <2>3, <2>4
<1>5. CASE ApproveRead(r)
  <2>1. [Idle EXCEPT !.step = "approving", !.user = user.id] \in Request
    BY KeysTyped, StepsTyped, NewTyped
  <2> QED
    BY <1>5, <2>1, BeginTyped DEF ApproveRead, TypeOK, rows, history
<1>6. CASE ApproveSelect(r)
  <2>1. Stale(r, "issuing") \/ Become(r, Idle)
    BY <1>6 DEF ApproveSelect
  <2>2. req' \in [Requests -> Request]
    BY <2>1, IdleTyped, BecomeTyped, StaleTyped DEF TypeOK, Steps
  <2> QED
    BY <1>6, <2>2 DEF ApproveSelect, TypeOK, rows, history
<1>7. CASE ApproveCommit(r)
  <2>1. CASE SameUser(r)
    BY <1>7, <2>1, MintTyped DEF ApproveCommit, TypeOK
  <2>2. CASE ~SameUser(r)
    <3>1. req' \in [Requests -> Request]
      BY <1>7, <2>2, IdleTyped, BecomeTyped DEF ApproveCommit, TypeOK
    <3> QED
      BY <1>7, <2>2, <3>1 DEF ApproveCommit, TypeOK
  <2> QED
    BY <2>1, <2>2
<1>8. CASE \E op \in {"reject", "delete"} : RejectRead(r, op)
  <2>1. PICK op \in {"reject", "delete"} : RejectRead(r, op)
    BY <1>8
  <2>2. [Idle EXCEPT !.step = "rejecting", !.user = user.id] \in Request
    BY KeysTyped, StepsTyped, NewTyped
  <2> QED
    BY <2>1, <2>2, BeginTyped DEF RejectRead, TypeOK, rows, history
<1>9. CASE RejectCommit(r)
  <2>1. req' \in [Requests -> Request]
    BY <1>9, IdleTyped, BecomeTyped DEF RejectCommit, TypeOK
  <2>2. CASE SameUser(r)
    <3>1. user' \in [id : Nat, role : Role \cup {"none"}, active : BOOLEAN,
                     password : Tokens \cup {NoToken}]
      <4>1. user' = NoUser
        BY <1>9, <2>2 DEF RejectCommit
      <4> QED
        BY <4>1 DEF NoUser
    <3>2. token' \in [Tokens -> {"unminted", "unused", "used", "deleted"}]
      BY <1>9, <2>2 DEF RejectCommit
    <3> QED
      BY <1>9, <2>1, <3>1, <3>2 DEF RejectCommit, TypeOK, history
  <2>3. CASE ~SameUser(r)
    BY <1>9, <2>1, <2>3 DEF RejectCommit, TypeOK, history
  <2> QED
    BY <2>2, <2>3
<1>10. CASE Abort(r)
  <2>1. req' \in [Requests -> Request]
    BY <1>10, IdleTyped, BecomeTyped DEF Abort, TypeOK
  <2> QED
    BY <1>10, <2>1 DEF Abort, TypeOK, rows, history
<1> QED
  BY <1>1, <1>2, <1>3, <1>4, <1>5, <1>6, <1>7, <1>8, <1>9, <1>10

\* Rows, requests and history have the values they should.
THEOREM TypeCorrect == Spec => []TypeOK
<1>1. Init => TypeOK
  <2> SUFFICES ASSUME Init PROVE TypeOK
    OBVIOUS
  <2>1. user \in [id : Nat, role : Role \cup {"none"}, active : BOOLEAN,
                  password : Tokens \cup {NoToken}]
    BY DEF Init, NoUser
  <2>2. profile \in [id : Nat, owner : Nat]
    BY DEF Init, NoProfile
  <2>3. req \in [Requests -> Request]
    BY IdleTyped DEF Init
  <2>4. served \in 0..Budget
    BY OnboardingAssumption DEF Init
  <2> QED
    BY <2>1, <2>2, <2>3, <2>4 DEF Init, TypeOK
<1>2. TypeOK /\ [Next]_vars => TypeOK'
  <2> SUFFICES ASSUME TypeOK, [Next]_vars PROVE TypeOK'
    OBVIOUS
  <2>1. CASE Next
    BY <2>1, CandidateTyped, ActivateTyped, InviteTyped, CompanyTyped DEF Next
  <2>2. CASE UNCHANGED vars
    BY <2>2 DEF vars, rows, history, TypeOK
  <2> QED
    BY <2>1, <2>2
<1> QED
  BY <1>1, <1>2, PTL DEF Spec

-------------------------------------------------------------------------------
(* The profile of an active candidate.                                     *)

\* A user has a key other than 0.
UserKeyed == user.role # "none" => user.id # 0

ProfileInv == UserKeyed /\ ActiveHasProfile

\* What an application does to the profile does not touch that of an active
\* candidate.
LEMMA KeepHolds ==
    ASSUME TypeOK, ProfileInv, NEW r \in Requests, KeepProfile(r),
           user.role = "CANDIDATE", user.active, ~erased
    PROVE  profile' = profile
<1>1. user.id # 0
  BY DEF ProfileInv, UserKeyed
<1>2. profile.owner # 0
  BY <1>1 DEF ProfileInv, ActiveHasProfile
<1>3. profile # NoProfile
  BY <1>2 DEF NoProfile
<1> QED
  BY <1>3 DEF KeepProfile

\* A step that keeps key, role and activity of the user, and the profile of an active
\* candidate, keeps the invariant.
LEMMA ProfileKept ==
    ASSUME ProfileInv,
           user'.id = user.id, user'.role = user.role, user'.active = user.active,
           erased' = erased,
           user.role = "CANDIDATE" /\ user.active /\ ~erased => profile' = profile
    PROVE  ProfileInv'
BY DEF ProfileInv, UserKeyed, ActiveHasProfile

\* The actions that write the user row or the profile.
LEMMA ProfileWritten ==
    ASSUME TypeOK, ProfileInv, NEW r \in Requests,
           \/ RegisterCommit(r) \/ ApplyStatement(r) \/ EraseProfile(r)
           \/ ActivateCommit(r) \/ EnrollCommit(r) \/ RejectCommit(r)
    PROVE  ProfileInv'
<1>0. user \in [id : Nat, role : Role \cup {"none"}, active : BOOLEAN,
                password : Tokens \cup {NoToken}]
      /\ keys.user \in Nat
  BY DEF TypeOK
<1>1. CASE RegisterCommit(r)
  <2>1. erased' = erased
    BY <1>1 DEF RegisterCommit
  <2>2. PICK t \in Tokens :
          user' = IF req[r].user = 0
                  THEN [id |-> keys.user + 1, role |-> "CANDIDATE",
                        active |-> FALSE, password |-> t]
                  ELSE [user EXCEPT !.password = t]
    BY <1>1 DEF RegisterCommit
  <2>3. CASE req[r].user = 0
    <3>1. user'.id # 0 /\ ~user'.active
      BY <1>0, <2>2, <2>3
    <3> QED
      BY <3>1 DEF ProfileInv, UserKeyed, ActiveHasProfile
  <2>4. CASE req[r].user # 0
    <3>1. user'.id = user.id /\ user'.role = user.role /\ user'.active = user.active
      BY <1>0, <2>2, <2>4
    <3>2. KeepProfile(r) \/ UNCHANGED profile
      BY <1>1 DEF RegisterCommit
    <3> QED
      BY <2>1, <3>1, <3>2, KeepHolds, ProfileKept
  <2> QED
    BY <2>3, <2>4
<1>2. CASE ApplyStatement(r)
  <2>1. KeepProfile(r) \/ UNCHANGED profile
    BY <1>2 DEF ApplyStatement
  <2>2. user' = user /\ erased' = erased
    BY <1>2 DEF ApplyStatement, history
  <2> QED
    BY <2>1, <2>2, KeepHolds, ProfileKept
<1>3. CASE EraseProfile(r)
  BY <1>3 DEF EraseProfile, ProfileInv, UserKeyed, ActiveHasProfile
<1>4. CASE ActivateCommit(r)
  <2>1. CASE UNCHANGED <<user, token, erased, profile, keys>>
    BY <2>1, ProfileKept
  <2>2. CASE ~UNCHANGED <<user, token, erased, profile, keys>>
    <3>1. SameUser(r) /\ user' = [user EXCEPT !.active = TRUE]
      BY <1>4, <2>2 DEF ActivateCommit
    <3>2. user'.id = user.id /\ user'.role = user.role /\ user.id # 0
      BY <1>0, <3>1 DEF SameUser
    <3>3. user.role # "COMPANY" => profile'.owner = user.id
      BY <1>4, <2>2 DEF ActivateCommit
    <3> QED
      BY <3>2, <3>3 DEF ProfileInv, UserKeyed, ActiveHasProfile
  <2> QED
    BY <2>1, <2>2
<1>5. CASE EnrollCommit(r)
  <2>1. CASE user' = user
    BY <1>5, <2>1, ProfileKept DEF EnrollCommit
  <2>2. CASE user' # user
    <3>1. user'.id # 0 /\ ~user'.active
      BY <1>0, <1>5, <2>2 DEF EnrollCommit
    <3> QED
      BY <3>1 DEF ProfileInv, UserKeyed, ActiveHasProfile
  <2> QED
    BY <2>1, <2>2
<1>6. CASE RejectCommit(r)
  <2>1. CASE SameUser(r)
    <3>1. user'.role = "none"
      BY <1>6, <2>1 DEF RejectCommit, NoUser
    <3> QED
      BY <3>1 DEF ProfileInv, UserKeyed, ActiveHasProfile
  <2>2. CASE ~SameUser(r)
    BY <1>6, <2>2, ProfileKept DEF RejectCommit, history
  <2> QED
    BY <2>1, <2>2
<1> QED
  BY <1>1, <1>2, <1>3, <1>4, <1>5, <1>6

\* All others leave user, profile and erasure alone.
LEMMA ProfileLeft ==
    ASSUME NEW r \in Requests,
           \/ RegisterRead(r) \/ RegisterStatement(r)
           \/ ResendRead(r) \/ ResendSelect(r) \/ ResendCommit(r)
           \/ InviteRead(r) \/ InviteCommit(r) \/ RevokeCommit(r) \/ ReinviteCommit(r)
           \/ EnrollInsert(r) \/ MarkInvite(r)
           \/ ApproveRead(r) \/ ApproveSelect(r) \/ ApproveCommit(r) \/ Abort(r)
           \/ \E claims \in BOOLEAN : ApplyRead(r, claims)
           \/ \E t \in Tokens : ActivateRead(r, t)
           \/ \E i \in Invites : RevokeRead(r, i) \/ ReinviteRead(r, i)
                                 \/ DropInvite(r, i) \/ EnrollRead(r, i)
           \/ \E op \in {"reject", "delete"} : RejectRead(r, op)
    PROVE  UNCHANGED <<user, profile, erased>>
BY DEF RegisterRead, RegisterStatement, ResendRead, ResendSelect, ResendCommit,
       InviteRead, InviteCommit, RevokeCommit, ReinviteCommit, EnrollInsert, MarkInvite,
       ApproveRead, ApproveSelect, ApproveCommit, Abort, ApplyRead, ActivateRead,
       RevokeRead, ReinviteRead, Handle, DropInvite, EnrollRead, RejectRead, rows, history

\* An active candidate has the profile that its activation linked, unless an admin
\* has erased it since (services/auth/activation.py).
THEOREM ActiveKeepsProfile == Spec => []ActiveHasProfile
<1>1. Init => ProfileInv
  BY DEF Init, NoUser, ProfileInv, UserKeyed, ActiveHasProfile
<1>2. TypeOK /\ ProfileInv /\ [Next]_vars => ProfileInv'
  <2> SUFFICES ASSUME TypeOK, ProfileInv, [Next]_vars PROVE ProfileInv'
    OBVIOUS
  <2>1. CASE UNCHANGED <<user, profile, erased>>
    BY <2>1, ProfileKept
  <2>2. CASE Next /\ ~UNCHANGED <<user, profile, erased>>
    BY <2>2, ProfileWritten, ProfileLeft DEF Next
  <2> QED
    BY <2>1, <2>2 DEF vars, rows, history
<1>3. ProfileInv => ActiveHasProfile
  BY DEF ProfileInv
<1> QED
  BY <1>1, <1>2, <1>3, TypeCorrect, PTL DEF Spec

-------------------------------------------------------------------------------
(* The invite of a company.                                                *)

\* No link is newer than the last one that was given out.
LinksCounted ==
    /\ enrolled <= keys.link
    /\ \A r \in Requests : req[r].link <= keys.link
    /\ \A i \in Invites : invite[i].link <= keys.link

\* Two invites never have the same link, and an open one has one.
LinksDistinct ==
    /\ \A i, j \in Invites : i # j /\ invite[i].link = invite[j].link => invite[i].link = 0
    /\ \A i \in PendingInvites : invite[i].link # 0

\* A registration about to commit marks the open invite that has its link, if any.
Marks(r) ==
    req[r].step = "marking" =>
        \A i \in PendingInvites : invite[i].link = req[r].link => i = req[r].invite

InviteInv == LinksCounted /\ LinksDistinct /\ (\A r \in Requests : Marks(r)) /\ InviteSpent

\* A slot takes a request that does not mark and whose link, if any, is not new.
Light(r) ==
    \E record \in Request : /\ record.step # "marking"
                            /\ record.link <= keys.link
                            /\ Become(r, record)

\* The empty slot is such a request, and so are those that carry no link.
LEMMA LightRecords ==
    ASSUME TypeOK, NEW r \in Requests
    PROVE  /\ \A record \in Request : record.step # "marking" /\ record.link = 0
                                      /\ Become(r, record) => Light(r)
           /\ Become(r, Idle) => Light(r)
           /\ \A op : Begin(r, op, Idle) => Light(r)
<1>1. keys.link \in Nat /\ 0 <= keys.link
  BY DEF TypeOK
<1>2. \A record \in Request : record.step # "marking" /\ record.link = 0
                              /\ Become(r, record) => Light(r)
  BY <1>1 DEF Light
<1>3. Idle.step # "marking" /\ Idle.link = 0
  BY DEF Idle
<1> QED
  BY <1>2, <1>3, IdleTyped DEF Begin

\* A step that leaves the invites and the user, at the most rejected or with another
\* password, is harmless.
LEMMA InvitesLeft ==
    ASSUME TypeOK, InviteInv, NEW r \in Requests, Light(r),
           UNCHANGED <<invite, enrolled>>, keys'.link = keys.link,
           user'.role = "COMPANY" => user.role = "COMPANY"
    PROVE  InviteInv'
<1>1. PICK record \in Request : /\ record.step # "marking"
                                /\ record.link <= keys.link
                                /\ req' = [req EXCEPT ![r] = record]
  BY DEF Light, Become
<1>2. PendingInvites' = PendingInvites
  BY DEF PendingInvites
<1>3. req'[r] = record /\ \A q \in Requests \ {r} : req'[q] = req[q]
  BY <1>1 DEF TypeOK
<1>4. LinksCounted'
  BY <1>1, <1>3 DEF InviteInv, LinksCounted
<1>5. LinksDistinct'
  BY <1>2 DEF InviteInv, LinksDistinct
<1>6. \A q \in Requests : Marks(q)'
  BY <1>1, <1>2, <1>3 DEF InviteInv, Marks
<1>7. InviteSpent'
  BY <1>2 DEF InviteInv, InviteSpent
<1> QED
  BY <1>4, <1>5, <1>6, <1>7 DEF InviteInv

\* So is one that gives an invite, open or not, a fresh link, or closes it.
LEMMA InviteReplaced ==
    ASSUME TypeOK, InviteInv, NEW r \in Requests, Light(r), NEW i \in Invites, NEW row,
           row.link \in Nat, row.link # 0,
           invite' = [invite EXCEPT ![i] = row],
           UNCHANGED <<user, enrolled>>,
           keys'.link = row.link, row.link = keys.link + 1
    PROVE  InviteInv'
<1>0. /\ keys.link \in Nat /\ enrolled \in Nat
      /\ \A j \in Invites : invite[j].link \in Nat
  BY DEF TypeOK
<1>1. PICK record \in Request : /\ record.step # "marking"
                                /\ record.link <= keys.link
                                /\ req' = [req EXCEPT ![r] = record]
  BY DEF Light, Become
<1>2. req'[r] = record /\ \A q \in Requests \ {r} : req'[q] = req[q]
  BY <1>1 DEF TypeOK
<1>3. invite'[i] = row /\ \A j \in Invites \ {i} : invite'[j] = invite[j]
  BY DEF TypeOK
<1>4. \A q \in Requests : req'[q].link \in Nat /\ req'[q].link <= keys.link
  BY <1>1, <1>2 DEF InviteInv, LinksCounted, TypeOK, Request
<1>5. \A j \in Invites : invite[j].link <= keys.link
  BY DEF InviteInv, LinksCounted
<1>6. PendingInvites' \subseteq PendingInvites \cup {i}
  BY <1>3 DEF PendingInvites
<1>7. LinksCounted'
  <2>1. enrolled' <= keys'.link
    BY <1>0 DEF InviteInv, LinksCounted
  <2>2. \A q \in Requests : req'[q].link <= keys'.link
    BY <1>0, <1>4
  <2>3. \A j \in Invites : invite'[j].link <= keys'.link
    BY <1>0, <1>3, <1>5
  <2> QED
    BY <2>1, <2>2, <2>3 DEF LinksCounted
<1>8. LinksDistinct'
  <2>1. \A j \in Invites \ {i} : invite'[j].link # row.link
    BY <1>0, <1>3, <1>5
  <2>2. \A j, k \in Invites : j # k /\ invite'[j].link = invite'[k].link => invite'[j].link = 0
    BY <1>3, <2>1 DEF InviteInv, LinksDistinct
  <2>3. \A j \in PendingInvites' : invite'[j].link # 0
    BY <1>3, <1>6 DEF InviteInv, LinksDistinct, PendingInvites
  <2> QED
    BY <2>2, <2>3 DEF LinksDistinct
<1>9. \A q \in Requests : Marks(q)'
  <2> SUFFICES ASSUME NEW q \in Requests, req'[q].step = "marking",
                      NEW j \in PendingInvites', invite'[j].link = req'[q].link
               PROVE  j = req'[q].invite
    BY DEF Marks
  <2>1. req'[q] = req[q]
    BY <1>1, <1>2
  <2>2. j # i
    BY <1>0, <1>3, <1>4
  <2>3. j \in PendingInvites /\ invite'[j] = invite[j]
    BY <1>3, <1>6, <2>2 DEF PendingInvites
  <2> QED
    BY <2>1, <2>3 DEF InviteInv, Marks
<1>10. InviteSpent'
  <2> SUFFICES ASSUME user.role = "COMPANY", NEW j \in PendingInvites'
               PROVE  invite'[j].link # enrolled
    BY DEF InviteSpent
  <2>1. CASE j = i
    BY <1>0, <1>3, <2>1 DEF InviteInv, LinksCounted
  <2>2. CASE j # i
    BY <1>3, <1>6, <2>2 DEF InviteInv, InviteSpent, PendingInvites
  <2> QED
    BY <2>1, <2>2
<1> QED
  BY <1>7, <1>8, <1>9, <1>10 DEF InviteInv

\* And so is one that closes an invite.
LEMMA InviteClosed ==
    ASSUME TypeOK, InviteInv, NEW r \in Requests, Light(r), NEW i \in Invites,
           NEW s, s # "PENDING", invite' = [invite EXCEPT ![i].status = s],
           UNCHANGED <<user, enrolled>>, keys'.link = keys.link
    PROVE  InviteInv'
<1>1. PICK record \in Request : /\ record.step # "marking"
                                /\ record.link <= keys.link
                                /\ req' = [req EXCEPT ![r] = record]
  BY DEF Light, Become
<1>2. req'[r] = record /\ \A q \in Requests \ {r} : req'[q] = req[q]
  BY <1>1 DEF TypeOK
<1>3. \A j \in Invites : invite'[j].link = invite[j].link
  BY DEF TypeOK
<1>4. PendingInvites' \subseteq PendingInvites
  BY DEF PendingInvites, TypeOK
<1>5. LinksCounted'
  BY <1>1, <1>2, <1>3 DEF InviteInv, LinksCounted
<1>6. LinksDistinct'
  BY <1>3, <1>4 DEF InviteInv, LinksDistinct, PendingInvites
<1>7. \A q \in Requests : Marks(q)'
  <2> SUFFICES ASSUME NEW q \in Requests, req'[q].step = "marking",
                      NEW j \in PendingInvites', invite'[j].link = req'[q].link
               PROVE  j = req'[q].invite
    BY DEF Marks
  <2>1. req'[q] = req[q]
    BY <1>1, <1>2
  <2>2. j \in PendingInvites /\ invite'[j].link = invite[j].link
    BY <1>3, <1>4 DEF PendingInvites
  <2> QED
    BY <2>1, <2>2 DEF InviteInv, Marks
<1>8. InviteSpent'
  <2> SUFFICES ASSUME user.role = "COMPANY", NEW j \in PendingInvites'
               PROVE  invite'[j].link # enrolled
    BY DEF InviteSpent
  <2>1. j \in PendingInvites /\ invite'[j].link = invite[j].link
    BY <1>3, <1>4 DEF PendingInvites
  <2> QED
    BY <2>1 DEF InviteInv, InviteSpent
<1> QED
  BY <1>5, <1>6, <1>7, <1>8 DEF InviteInv

\* The steps of an invite.
LEMMA InviteStep ==
    ASSUME TypeOK, InviteInv, NEW r \in Requests,
           \/ InviteCommit(r) \/ RevokeCommit(r) \/ ReinviteCommit(r)
           \/ \E i \in Invites : DropInvite(r, i)
    PROVE  InviteInv'
<1>0. keys.link \in Nat /\ keys.link + 1 \in Nat /\ keys.link + 1 # 0
  BY DEF TypeOK
<1>1. CASE InviteCommit(r)
  <2>1. Light(r) /\ user' = user /\ enrolled' = enrolled
    BY <1>1, LightRecords DEF InviteCommit, history
  <2>2. keys'.link = keys.link + 1
    BY <1>1 DEF InviteCommit, TypeOK
  <2>3. PICK i \in Invites :
          invite' = [invite EXCEPT ![i] = [status |-> "PENDING", link |-> keys.link + 1]]
    BY <1>1 DEF InviteCommit
  <2> DEFINE row == [status |-> "PENDING", link |-> keys.link + 1]
  <2>4. row.link = keys.link + 1
    OBVIOUS
  <2>5. invite' = [invite EXCEPT ![i] = row]
    BY <2>3
  <2> HIDE DEF row
  <2> QED
    BY <1>0, <2>1, <2>2, <2>4, <2>5, InviteReplaced
<1>2. CASE RevokeCommit(r)
  <2>1. Light(r) /\ user' = user /\ enrolled' = enrolled /\ keys' = keys
    BY <1>2, LightRecords DEF RevokeCommit, history
  <2>2. CASE req[r].invite \in StoredInvites
    <3>1. req[r].invite \in Invites
      BY <2>2 DEF StoredInvites
    <3>2. invite' = [invite EXCEPT ![req[r].invite].status = "REVOKED"]
      BY <1>2, <2>2 DEF RevokeCommit
    <3> QED
      BY <2>1, <3>1, <3>2, InviteClosed
  <2>3. CASE req[r].invite \notin StoredInvites
    <3>1. invite' = invite
      BY <1>2, <2>3 DEF RevokeCommit
    <3> QED
      BY <2>1, <3>1, InvitesLeft
  <2> QED
    BY <2>2, <2>3
<1>3. CASE ReinviteCommit(r)
  <2>1. Light(r) /\ user' = user /\ enrolled' = enrolled
    BY <1>3, LightRecords DEF ReinviteCommit, history
  <2>2. CASE req[r].invite \in StoredInvites
    <3> DEFINE i == req[r].invite
    <3> DEFINE row == [status |-> IF req[r].open THEN invite[i].status ELSE "PENDING",
                       link |-> keys.link + 1]
    <3>1. i \in Invites
      BY <2>2 DEF StoredInvites
    <3>2. invite' = [invite EXCEPT ![i] = row]
      BY <1>3, <2>2 DEF ReinviteCommit
    <3>3. keys' = [keys EXCEPT !.link = @ + 1]
      BY <1>3, <2>2 DEF ReinviteCommit
    <3>4. keys'.link = keys.link + 1
      BY <3>3 DEF TypeOK
    <3>5. row.link = keys.link + 1
      OBVIOUS
    <3> HIDE DEF i, row
    <3> QED
      BY <1>0, <2>1, <3>1, <3>2, <3>4, <3>5, InviteReplaced
  <2>3. CASE req[r].invite \notin StoredInvites
    <3>1. invite' = invite /\ keys' = keys
      BY <1>3, <2>3 DEF ReinviteCommit
    <3> QED
      BY <2>1, <3>1, InvitesLeft
  <2> QED
    BY <2>2, <2>3
<1>4. CASE \E i \in Invites : DropInvite(r, i)
  <2>1. PICK i \in Invites : DropInvite(r, i)
    BY <1>4
  <2>2. Light(r) /\ user' = user /\ enrolled' = enrolled /\ keys' = keys
    BY <2>1, LightRecords DEF DropInvite, history
  <2>3. invite' = [invite EXCEPT ![i].status = "deleted"]
    BY <2>1 DEF DropInvite
  <2> QED
    BY <2>2, <2>3, InviteClosed
<1> QED
  BY <1>1, <1>2, <1>3, <1>4

\* The registration looks for the open invite with its link: there is no other.
LEMMA MarkStep ==
    ASSUME TypeOK, InviteInv, NEW r \in Requests, MarkInvite(r)
    PROVE  InviteInv'
<1> DEFINE found == {i \in PendingInvites : invite[i].link = req[r].link}
<1> DEFINE j == IF found = {} THEN NoInvite ELSE CHOOSE i \in found : TRUE
<1>1. \A i \in found : i = j
  <2>1. \A h, i \in found : h = i
    BY DEF InviteInv, LinksDistinct, PendingInvites
  <2>2. found # {} => j \in found
    OBVIOUS
  <2> QED
    BY <2>1, <2>2
<1>2. req' = [req EXCEPT ![r] = [req[r] EXCEPT !.step = "marking", !.invite = j]]
  BY DEF MarkInvite, Become
<1>3. \A i \in PendingInvites : invite[i].link = req[r].link => i = j
  BY <1>1
<1> HIDE DEF j
<1>4. /\ req'[r].link = req[r].link /\ req'[r].invite = j
      /\ \A q \in Requests \ {r} : req'[q] = req[q]
  BY <1>2 DEF TypeOK, Request
<1>5. UNCHANGED <<user, invite, keys, enrolled>>
  BY DEF MarkInvite, rows, history
<1>6. PendingInvites' = PendingInvites
  BY <1>5 DEF PendingInvites
<1>7. LinksCounted' /\ LinksDistinct' /\ InviteSpent'
  BY <1>4, <1>5, <1>6 DEF InviteInv, LinksCounted, LinksDistinct, InviteSpent
<1>8. \A q \in Requests : Marks(q)'
  BY <1>3, <1>4, <1>5, <1>6 DEF InviteInv, Marks
<1> QED
  BY <1>7, <1>8 DEF InviteInv

\* The commit of the registration leaves no open invite with its link.
LEMMA EnrollStep ==
    ASSUME TypeOK, InviteInv, NEW r \in Requests, EnrollCommit(r)
    PROVE  InviteInv'
<1> DEFINE i == req[r].invite
<1>1. Light(r) /\ keys'.link = keys.link
  <2>1. keys' = keys \/ keys' = [keys EXCEPT !.user = @ + 1]
    BY DEF EnrollCommit
  <2>2. keys'.link = keys.link
    BY <2>1 DEF TypeOK
  <2> QED
    BY <2>2, LightRecords DEF EnrollCommit
<1>2. CASE i # NoInvite /\ i \notin StoredInvites
  <2>1. UNCHANGED <<user, invite, enrolled>>
    BY <1>2 DEF EnrollCommit
  <2> QED
    BY <1>1, <2>1, InvitesLeft
<1>3. CASE ~(i # NoInvite /\ i \notin StoredInvites)
  <2>1. enrolled' = req[r].link
    BY <1>3 DEF EnrollCommit
  <2>2. invite' = IF i = NoInvite THEN invite ELSE [invite EXCEPT ![i].status = "USED"]
    BY <1>3 DEF EnrollCommit
  <2>3. i # NoInvite => i \in Invites
    BY <1>3 DEF StoredInvites
  <2>4. \A j \in Invites : invite'[j].link = invite[j].link
    BY <2>2, <2>3 DEF TypeOK
  <2>5. PendingInvites' \subseteq PendingInvites \ {i}
    <3>1. CASE i = NoInvite
      BY <2>2, <3>1, OnboardingAssumption DEF PendingInvites
    <3>2. CASE i # NoInvite
      <4>1. invite' = [invite EXCEPT ![i].status = "USED"]
        BY <2>2, <3>2
      <4>2. \A j \in Invites : invite'[j].status = IF j = i THEN "USED" ELSE invite[j].status
        BY <2>3, <3>2, <4>1 DEF TypeOK
      <4> QED
        BY <4>2 DEF PendingInvites
    <3> QED
      BY <3>1, <3>2
  <2>6. req[r].step = "marking" /\ req' = [req EXCEPT ![r] = Idle]
    BY DEF EnrollCommit, Become
  <2>7. /\ req'[r].step = "idle" /\ req'[r].link = 0
        /\ \A q \in Requests \ {r} : req'[q] = req[q]
    BY <2>6 DEF TypeOK, Idle
  <2>8. \A q \in Requests : Marks(q)'
    BY <2>4, <2>5, <2>7 DEF InviteInv, Marks, PendingInvites
  <2>9. LinksDistinct'
    BY <2>4, <2>5 DEF InviteInv, LinksDistinct, PendingInvites
  <2>10. LinksCounted'
    BY <1>1, <2>1, <2>4, <2>7 DEF InviteInv, LinksCounted, TypeOK
  <2>11. InviteSpent'
    <3> SUFFICES ASSUME NEW j \in PendingInvites' PROVE invite'[j].link # enrolled'
      BY DEF InviteSpent
    <3>1. j \in PendingInvites /\ j # i /\ invite'[j].link = invite[j].link
      BY <2>4, <2>5 DEF PendingInvites
    <3> QED
      BY <2>1, <2>6, <3>1 DEF InviteInv, Marks
  <2> QED
    BY <2>8, <2>9, <2>10, <2>11 DEF InviteInv
<1> QED
  BY <1>2, <1>3

\* A request that goes on without marking is light, and so is one that arrives
\* without a link or with that of an invite.
LEMMA LightSteps ==
    ASSUME TypeOK, InviteInv, NEW r \in Requests
    PROVE  /\ \A s \in Steps \ {"marking"} :
                Become(r, [req[r] EXCEPT !.step = s]) \/ Stale(r, s) => Light(r)
           /\ Become(r, [req[r] EXCEPT !.step = "minting", !.seen = Minted]) => Light(r)
           /\ Become(r, [req[r] EXCEPT !.step = "registering", !.user = user.id]) => Light(r)
<1>1. req[r] \in Request /\ req[r].link <= keys.link
  BY DEF TypeOK, InviteInv, LinksCounted
<1>2. Unused \in SUBSET Tokens /\ Minted \in SUBSET Tokens
  BY DEF Unused, Minted
<1>3. ASSUME NEW s \in Steps \ {"marking"},
             Become(r, [req[r] EXCEPT !.step = s]) \/ Stale(r, s)
      PROVE  Light(r)
  <2>1. [req[r] EXCEPT !.step = s] \in Request
    BY <1>1 DEF Request
  <2>2. [req[r] EXCEPT !.step = s, !.stale = Unused, !.seen = Minted] \in Request
    BY <1>1, <1>2 DEF Request
  <2>3. /\ [req[r] EXCEPT !.step = s].step = s
        /\ [req[r] EXCEPT !.step = s].link = req[r].link
    BY <1>1 DEF Request
  <2>4. /\ [req[r] EXCEPT !.step = s, !.stale = Unused, !.seen = Minted].step = s
        /\ [req[r] EXCEPT !.step = s, !.stale = Unused, !.seen = Minted].link = req[r].link
    BY <1>1 DEF Request
  <2>5. CASE Become(r, [req[r] EXCEPT !.step = s])
    BY <1>1, <2>1, <2>3, <2>5 DEF Light
  <2>6. CASE Stale(r, s)
    BY <1>1, <2>2, <2>4, <2>6 DEF Light, Stale
  <2> QED
    BY <1>3, <2>5, <2>6
<1>4. ASSUME Become(r, [req[r] EXCEPT !.step = "minting", !.seen = Minted])
      PROVE  Light(r)
  <2> DEFINE new == [req[r] EXCEPT !.step = "minting", !.seen = Minted]
  <2>1. new \in Request /\ new.step = "minting" /\ new.link = req[r].link
    BY <1>1, <1>2 DEF Request, Steps
  <2> HIDE DEF new
  <2>2. Become(r, new)
    BY <1>4 DEF new
  <2> QED
    BY <1>1, <2>1, <2>2 DEF Light
<1>5. ASSUME Become(r, [req[r] EXCEPT !.step = "registering", !.user = user.id])
      PROVE  Light(r)
  <2> DEFINE new == [req[r] EXCEPT !.step = "registering", !.user = user.id]
  <2>1. new \in Request /\ new.step = "registering" /\ new.link = req[r].link
    BY <1>1, KeysTyped DEF Request, Steps
  <2> HIDE DEF new
  <2>2. Become(r, new)
    BY <1>5 DEF new
  <2> QED
    BY <1>1, <2>1, <2>2 DEF Light
<1> QED
  BY <1>3, <1>4, <1>5

\* A request that has only read, or is over.
Arrival == { "idle", "registering", "resending", "applying", "activating", "inviting",
             "revoking", "reinviting", "enrolling", "approving", "rejecting" }
Arrives(r) ==
    \E record \in Request : /\ record.step \in Arrival
                            /\ record.link <= keys.link
                            /\ Become(r, record)

\* The request that a handler starts with is one.
LEMMA NewArrives ==
    ASSUME TypeOK, NEW r \in Requests,
           NEW s \in Arrival, NEW u \in Nat, NEW p \in Nat, NEW c \in BOOLEAN,
           NEW t \in Tokens \cup {NoToken}, NEW i \in Invites \cup {NoInvite},
           NEW o \in BOOLEAN, NEW l \in Nat, l <= keys.link,
           NEW record \in { [Idle EXCEPT !.step = s, !.user = u],
                            [Idle EXCEPT !.step = s, !.profile = p, !.claims = c],
                            [Idle EXCEPT !.step = s, !.token = t, !.user = u, !.profile = p],
                            [Idle EXCEPT !.step = s],
                            [Idle EXCEPT !.step = s, !.invite = i, !.open = o],
                            [Idle EXCEPT !.step = s, !.link = l] },
           Become(r, record)
    PROVE  Arrives(r)
<1>1. keys.link \in Nat /\ 0 <= keys.link
  BY DEF TypeOK
<1>2. record \in Request
  <2>0. s \in Steps
    BY DEF Arrival, Steps
  <2>1. /\ [Idle EXCEPT !.step = s, !.user = u] \in Request
        /\ [Idle EXCEPT !.step = s, !.profile = p, !.claims = c] \in Request
        /\ [Idle EXCEPT !.step = s, !.token = t, !.user = u, !.profile = p] \in Request
        /\ [Idle EXCEPT !.step = s] \in Request
        /\ [Idle EXCEPT !.step = s, !.invite = i, !.open = o] \in Request
        /\ [Idle EXCEPT !.step = s, !.link = l] \in Request
    BY <2>0 DEF Idle, Request
  <2> QED
    BY <2>1
<1>3. record.step = s /\ (record.link = 0 \/ record.link = l)
  BY DEF Idle
<1> QED
  BY <1>1, <1>2, <1>3 DEF Arrives

\* The requests that arrive.
LEMMA Arrivals ==
    ASSUME TypeOK, InviteInv, NEW r \in Requests,
           \/ RegisterRead(r) \/ ResendRead(r) \/ InviteRead(r) \/ ApproveRead(r)
           \/ EraseProfile(r)
           \/ \E claims \in BOOLEAN : ApplyRead(r, claims)
           \/ \E t \in Tokens : ActivateRead(r, t)
           \/ \E i \in Invites : RevokeRead(r, i) \/ ReinviteRead(r, i) \/ EnrollRead(r, i)
           \/ \E op \in {"reject", "delete"} : RejectRead(r, op)
    PROVE  Arrives(r)
<1>0. /\ user.id \in Nat /\ profile.id \in Nat /\ keys.link \in Nat /\ 0 <= keys.link
      /\ NoToken \in Tokens \cup {NoToken} /\ NoInvite \in Invites \cup {NoInvite}
      /\ \A i \in Invites : i \in Invites \cup {NoInvite}
      /\ \A t \in Tokens : t \in Tokens \cup {NoToken}
      /\ FALSE \in BOOLEAN /\ 0 \in Nat
  BY DEF TypeOK
<1>00. { "registering", "resending", "applying", "activating", "inviting", "revoking",
         "reinviting", "enrolling", "approving", "rejecting" } \subseteq Arrival
  BY DEF Arrival
<1>1. CASE RegisterRead(r)
  BY <1>0, <1>00, <1>1, NewArrives DEF RegisterRead, Begin
<1>2. CASE ResendRead(r)
  BY <1>0, <1>00, <1>2, NewArrives DEF ResendRead, Begin
<1>3. CASE InviteRead(r)
  BY <1>0, <1>00, <1>3, NewArrives DEF InviteRead, Begin
<1>4. CASE ApproveRead(r)
  BY <1>0, <1>00, <1>4, NewArrives DEF ApproveRead, Begin
<1>5. CASE EraseProfile(r)
  BY <1>0, <1>5, IdleTyped DEF EraseProfile, Begin, Idle, Arrives, Arrival
<1>6. CASE \E claims \in BOOLEAN : ApplyRead(r, claims)
  BY <1>0, <1>00, <1>6, NewArrives DEF ApplyRead, Begin
<1>7. CASE \E t \in Tokens : ActivateRead(r, t)
  BY <1>0, <1>00, <1>7, NewArrives DEF ActivateRead, Begin
<1>8. CASE \E i \in Invites : RevokeRead(r, i) \/ ReinviteRead(r, i)
  <2>1. PICK i \in Invites :
          \/ Become(r, [Idle EXCEPT !.step = "revoking", !.invite = i,
                                    !.open = (invite[i].status = "PENDING")])
          \/ Become(r, [Idle EXCEPT !.step = "reinviting", !.invite = i,
                                    !.open = (invite[i].status = "PENDING")])
    BY <1>8 DEF RevokeRead, ReinviteRead, Handle, Begin
  <2> DEFINE o == (invite[i].status = "PENDING")
  <2>2. o \in BOOLEAN
    OBVIOUS
  <2>3. \/ Become(r, [Idle EXCEPT !.step = "revoking", !.invite = i, !.open = o])
        \/ Become(r, [Idle EXCEPT !.step = "reinviting", !.invite = i, !.open = o])
    BY <2>1
  <2> HIDE DEF o
  <2> QED
    BY <1>0, <1>00, <2>2, <2>3, NewArrives
<1>9. CASE \E i \in Invites : EnrollRead(r, i)
  <2>1. PICK i \in Invites : Become(r, [Idle EXCEPT !.step = "enrolling",
                                                    !.link = invite[i].link])
    BY <1>9 DEF EnrollRead, Begin
  <2>2. invite[i].link \in Nat /\ invite[i].link <= keys.link
    BY DEF TypeOK, InviteInv, LinksCounted
  <2> QED
    BY <1>0, <1>00, <2>1, <2>2, NewArrives
<1>10. CASE \E op \in {"reject", "delete"} : RejectRead(r, op)
  BY <1>0, <1>00, <1>10, NewArrives DEF RejectRead, Begin
<1> QED
  BY <1>1, <1>2, <1>3, <1>4, <1>5, <1>6, <1>7, <1>8, <1>9, <1>10

\* The requests that go on, but for those that mark an invite or commit a company.
LEMMA LightProgress ==
    ASSUME TypeOK, InviteInv, NEW r \in Requests,
           \/ RegisterStatement(r) \/ RegisterCommit(r) \/ ApplyStatement(r)
           \/ ResendSelect(r) \/ ResendCommit(r) \/ ActivateCommit(r)
           \/ EnrollInsert(r) \/ ApproveSelect(r) \/ ApproveCommit(r)
           \/ RejectCommit(r) \/ Abort(r)
    PROVE  Light(r)
<1>0. {"minting", "replacing", "uploading", "issuing"} \subseteq Steps \ {"marking"}
  BY DEF Steps
<1>1. CASE RegisterStatement(r)
  <2>1. \/ Become(r, [req[r] EXCEPT !.step = "minting", !.seen = Minted])
        \/ Become(r, Idle) \/ Stale(r, "minting")
    BY <1>1 DEF RegisterStatement
  <2> QED
    BY <1>0, <2>1, LightSteps, LightRecords
<1>2. CASE RegisterCommit(r)
  BY <1>2, LightRecords DEF RegisterCommit, Mint
<1>3. CASE ApplyStatement(r)
  <2>1. \/ Become(r, [req[r] EXCEPT !.step = "registering", !.user = user.id])
        \/ Become(r, Idle)
    BY <1>3 DEF ApplyStatement
  <2> QED
    BY <2>1, LightSteps, LightRecords
<1>4. CASE ResendSelect(r)
  BY <1>0, <1>4, LightSteps, LightRecords DEF ResendSelect
<1>5. CASE ResendCommit(r)
  BY <1>5, LightRecords DEF ResendCommit, Mint
<1>6. CASE ActivateCommit(r)
  BY <1>6, LightRecords DEF ActivateCommit
<1>7. CASE EnrollInsert(r)
  <2>1. Become(r, [req[r] EXCEPT !.step = "uploading"]) \/ Become(r, Idle)
    BY <1>7 DEF EnrollInsert
  <2> QED
    BY <1>0, <2>1, LightSteps, LightRecords
<1>8. CASE ApproveSelect(r)
  BY <1>0, <1>8, LightSteps, LightRecords DEF ApproveSelect
<1>9. CASE ApproveCommit(r)
  BY <1>9, LightRecords DEF ApproveCommit, Mint
<1>10. CASE RejectCommit(r)
  BY <1>10, LightRecords DEF RejectCommit
<1>11. CASE Abort(r)
  BY <1>11, LightRecords DEF Abort
<1> QED
  BY <1>1, <1>2, <1>3, <1>4, <1>5, <1>6, <1>7, <1>8, <1>9, <1>10, <1>11

\* These steps leave invites and registration alone, and make nobody a company.
LEMMA LightLeaves ==
    ASSUME TypeOK, NEW r \in Requests,
           \/ RegisterRead(r) \/ RegisterStatement(r) \/ RegisterCommit(r)
           \/ ApplyStatement(r) \/ EraseProfile(r)
           \/ ResendRead(r) \/ ResendSelect(r) \/ ResendCommit(r) \/ ActivateCommit(r)
           \/ InviteRead(r) \/ EnrollInsert(r)
           \/ ApproveRead(r) \/ ApproveSelect(r) \/ ApproveCommit(r)
           \/ RejectCommit(r) \/ Abort(r)
           \/ \E claims \in BOOLEAN : ApplyRead(r, claims)
           \/ \E t \in Tokens : ActivateRead(r, t)
           \/ \E i \in Invites : RevokeRead(r, i) \/ ReinviteRead(r, i) \/ EnrollRead(r, i)
           \/ \E op \in {"reject", "delete"} : RejectRead(r, op)
    PROVE  /\ UNCHANGED <<invite, enrolled>> /\ keys'.link = keys.link
           /\ user'.role = "COMPANY" => user.role = "COMPANY"
<1>0. /\ user \in [id : Nat, role : Role \cup {"none"}, active : BOOLEAN,
                   password : Tokens \cup {NoToken}]
      /\ keys \in [user : Nat, profile : Nat, link : Nat]
  BY DEF TypeOK
<1>1. CASE RegisterCommit(r)
  <2>1. UNCHANGED <<invite, enrolled>>
    BY <1>1 DEF RegisterCommit
  <2>2. keys'.link = keys.link
    BY <1>0, <1>1 DEF RegisterCommit, KeepProfile
  <2>3. PICK t \in Tokens :
          user' = IF req[r].user = 0
                  THEN [id |-> keys.user + 1, role |-> "CANDIDATE",
                        active |-> FALSE, password |-> t]
                  ELSE [user EXCEPT !.password = t]
    BY <1>1 DEF RegisterCommit
  <2>4. user'.role = "COMPANY" => user.role = "COMPANY"
    BY <1>0, <2>3
  <2> QED
    BY <2>1, <2>2, <2>4
<1>2. CASE ApplyStatement(r)
  BY <1>0, <1>2 DEF ApplyStatement, KeepProfile, history
<1>3. CASE ActivateCommit(r)
  <2>1. UNCHANGED <<invite, enrolled>>
    BY <1>3 DEF ActivateCommit
  <2>2. user' = user \/ user' = [user EXCEPT !.active = TRUE]
    BY <1>3 DEF ActivateCommit
  <2>3. \/ keys' = keys
        \/ keys' = [keys EXCEPT !.profile = IF profile = NoProfile THEN @ + 1 ELSE @]
    BY <1>3 DEF ActivateCommit
  <2> QED
    BY <1>0, <2>1, <2>2, <2>3
<1>4. CASE RejectCommit(r)
  <2>1. user' = NoUser \/ user' = user
    BY <1>4 DEF RejectCommit
  <2> QED
    BY <1>4, <2>1 DEF RejectCommit, NoUser, history
<1>5. CASE ~(RegisterCommit(r) \/ ApplyStatement(r) \/ ActivateCommit(r) \/ RejectCommit(r))
  <2>1. UNCHANGED <<user, invite, keys, enrolled>>
    BY <1>5 DEF RegisterRead, RegisterStatement, EraseProfile, ResendRead, ResendSelect,
                ResendCommit, InviteRead, EnrollInsert, ApproveRead, ApproveSelect,
                ApproveCommit, Abort, ApplyRead, ActivateRead, RevokeRead, ReinviteRead,
                Handle, EnrollRead, RejectRead, rows, history
  <2> QED
    BY <2>1
<1> QED
  BY <1>1, <1>2, <1>3, <1>4, <1>5

\* Every step keeps what the spending of an invite rests on.
LEMMA InviteKept ==
    ASSUME TypeOK, InviteInv, NEW r \in Requests,
           \/ RegisterRead(r) \/ RegisterStatement(r) \/ RegisterCommit(r)
           \/ ApplyStatement(r) \/ EraseProfile(r)
           \/ ResendRead(r) \/ ResendSelect(r) \/ ResendCommit(r) \/ ActivateCommit(r)
           \/ InviteRead(r) \/ EnrollInsert(r)
           \/ ApproveRead(r) \/ ApproveSelect(r) \/ ApproveCommit(r)
           \/ RejectCommit(r) \/ Abort(r)
           \/ \E claims \in BOOLEAN : ApplyRead(r, claims)
           \/ \E t \in Tokens : ActivateRead(r, t)
           \/ \E i \in Invites : RevokeRead(r, i) \/ ReinviteRead(r, i) \/ EnrollRead(r, i)
           \/ \E op \in {"reject", "delete"} : RejectRead(r, op)
    PROVE  InviteInv'
<1>1. Light(r)
  BY Arrivals, LightProgress DEF Arrives, Arrival, Light
<1>2. /\ UNCHANGED <<invite, enrolled>> /\ keys'.link = keys.link
      /\ user'.role = "COMPANY" => user.role = "COMPANY"
  BY LightLeaves
<1> QED
  BY <1>1, <1>2, InvitesLeft

\* So it holds always.
LEMMA InviteInvariant == Spec => []InviteInv
<1>1. Init => InviteInv
  BY DEF Init, Idle, NoUser, PendingInvites, InviteInv, LinksCounted, LinksDistinct,
         Marks, InviteSpent
<1>2. TypeOK /\ InviteInv /\ [Next]_vars => InviteInv'
  <2> SUFFICES ASSUME TypeOK, InviteInv, [Next]_vars PROVE InviteInv'
    OBVIOUS
  <2>1. CASE Next
    BY <2>1, InviteKept, InviteStep, MarkStep, EnrollStep DEF Next
  <2>2. CASE UNCHANGED vars
    BY <2>2 DEF vars, rows, history, InviteInv, LinksCounted, LinksDistinct,
                PendingInvites, Marks, InviteSpent
  <2> QED
    BY <2>1, <2>2
<1> QED
  BY <1>1, <1>2, TypeCorrect, PTL DEF Spec

\* The invite with which a company registered is not open any more, whatever admins
\* did to it meanwhile (api/auth/registration.py, services/admin/invites.py).
THEOREM InviteIsSpent == Spec => []InviteSpent
<1>1. InviteInv => InviteSpent
  BY DEF InviteInv
<1> QED
  BY <1>1, InviteInvariant, PTL

-------------------------------------------------------------------------------
(* The links.                                                              *)

\* Steps that hold the lock of the user row, and steps that have selected tokens.
Locking    == {"minting", "uploading", "marking"}
Collecting == {"minting", "replacing", "issuing"}

OneLock ==
    \A q, r \in Requests :
        req[q].step \in Locking /\ req[r].step \in Locking => q = r

\* While the lock is held the user is the one that was read, or there is none.
Held(r) ==
    /\ req[r].step = "minting" => user.id = req[r].user
    /\ req[r].step \in {"uploading", "marking"} => user.id = 0

NoOrphans == user.id = 0 => Unused = {}

\* What was unused when the tokens were selected, and still is, will be deleted.
SeenStale(r) ==
    req[r].step \in Collecting =>
        /\ req[r].seen \subseteq Minted
        /\ req[r].seen \cap Unused \subseteq req[r].stale

\* A registration has seen every link of a registration.
RegisteredSeen(r) ==
    req[r].step = "minting" => \A t \in Unused : source[t] = "register" => t \in req[r].seen

KnownMinted == \A t \in Tokens : known[t] \subseteq Minted

LockInv == OneLock /\ (\A r \in Requests : Held(r)) /\ NoOrphans
SeenInv == KnownMinted /\ (\A r \in Requests : SeenStale(r) /\ RegisteredSeen(r))
LinkInv == LockInv /\ SeenInv /\ PendingHasLink /\ LinkMatchesPassword /\ LinksOverlap

\* The request of r has only read, or is over.
Quiet(r) == \E record \in Request : record.step \in Arrival /\ Become(r, record)

\* What becomes of the other slots when one takes a request.
LEMMA OneSlot ==
    ASSUME TypeOK, NEW r \in Requests, NEW record, req' = [req EXCEPT ![r] = record]
    PROVE  req'[r] = record /\ \A q \in Requests \ {r} : req'[q] = req[q]
BY DEF TypeOK

\* A request that reads or ends, and writes neither user nor tokens.
LEMMA QuietKeeps ==
    ASSUME TypeOK, LinkInv, NEW r \in Requests, Quiet(r),
           UNCHANGED <<user, token, source, known>>
    PROVE  LinkInv'
<1>1. PICK record \in Request : record.step \in Arrival
                                /\ req' = [req EXCEPT ![r] = record]
  BY DEF Quiet, Become
<1>2. req'[r] = record /\ \A q \in Requests \ {r} : req'[q] = req[q]
  BY <1>1, OneSlot
<1>3. req'[r].step \notin Locking \cup Collecting
  BY <1>1, <1>2 DEF Arrival, Locking, Collecting
<1>4. \A q \in Requests : req'[q].step \in Locking \cup Collecting => req'[q] = req[q]
  BY <1>2, <1>3
<1>5. Unused' = Unused /\ Minted' = Minted /\ Pending("CANDIDATE")' = Pending("CANDIDATE")
  BY DEF Unused, Minted, Pending
<1>6. OneLock'
  BY <1>4 DEF LinkInv, LockInv, OneLock
<1>7. \A q \in Requests : Held(q)'
  BY <1>4 DEF LinkInv, LockInv, Held, Locking
<1>8. \A q \in Requests : SeenStale(q)'
  BY <1>4, <1>5 DEF LinkInv, SeenInv, SeenStale
<1>9. \A q \in Requests : RegisteredSeen(q)'
  BY <1>4, <1>5 DEF LinkInv, SeenInv, RegisteredSeen, Locking
<1>10. NoOrphans' /\ KnownMinted'
  BY <1>5 DEF LinkInv, LockInv, SeenInv, NoOrphans, KnownMinted
<1>11. PendingHasLink' /\ LinkMatchesPassword' /\ LinksOverlap'
  BY <1>5 DEF LinkInv, PendingHasLink, LinkMatchesPassword, LinksOverlap
<1> QED
  BY <1>6, <1>7, <1>8, <1>9, <1>10, <1>11 DEF LinkInv, LockInv, SeenInv

\* A request of which only the slot changes, to a step that selects tokens or locks.
LEMMA SlotKeeps ==
    ASSUME TypeOK, LinkInv, NEW r \in Requests, NEW record,
           req' = [req EXCEPT ![r] = record],
           UNCHANGED <<user, token, source, known>>,
           record.step \in Locking =>
             \A q \in Requests \ {r} : req[q].step \notin Locking,
           Held(r)', SeenStale(r)', RegisteredSeen(r)'
    PROVE  LinkInv'
<1>2. req'[r] = record /\ \A q \in Requests \ {r} : req'[q] = req[q]
  BY OneSlot
<1>5. Unused' = Unused /\ Minted' = Minted /\ Pending("CANDIDATE")' = Pending("CANDIDATE")
  BY DEF Unused, Minted, Pending
<1>6. OneLock'
  BY <1>2 DEF LinkInv, LockInv, OneLock
<1>7. \A q \in Requests : Held(q)'
  BY <1>2 DEF LinkInv, LockInv, Held
<1>8. \A q \in Requests : SeenStale(q)'
  BY <1>2, <1>5 DEF LinkInv, SeenInv, SeenStale
<1>9. \A q \in Requests : RegisteredSeen(q)'
  BY <1>2, <1>5 DEF LinkInv, SeenInv, RegisteredSeen
<1>10. NoOrphans' /\ KnownMinted'
  BY <1>5 DEF LinkInv, LockInv, SeenInv, NoOrphans, KnownMinted
<1>11. PendingHasLink' /\ LinkMatchesPassword' /\ LinksOverlap'
  BY <1>5 DEF LinkInv, PendingHasLink, LinkMatchesPassword, LinksOverlap
<1> QED
  BY <1>6, <1>7, <1>8, <1>9, <1>10, <1>11 DEF LinkInv, LockInv, SeenInv

\* The end of a request is quiet, and so is what arrives.
LEMMA QuietRecords ==
    ASSUME TypeOK, NEW r \in Requests
    PROVE  /\ Become(r, Idle) => Quiet(r)
           /\ Arrives(r) => Quiet(r)
           /\ Become(r, [req[r] EXCEPT !.step = "registering", !.user = user.id]) => Quiet(r)
<1>1. Become(r, Idle) => Quiet(r)
  BY IdleTyped DEF Quiet, Arrival, Idle
<1>2. Arrives(r) => Quiet(r)
  BY DEF Arrives, Quiet
<1>3. Become(r, [req[r] EXCEPT !.step = "registering", !.user = user.id]) => Quiet(r)
  <2> DEFINE new == [req[r] EXCEPT !.step = "registering", !.user = user.id]
  <2>0. req[r] \in Request
    BY DEF TypeOK
  <2>1. new \in Request /\ new.step = "registering"
    BY <2>0, KeysTyped DEF Request, Steps
  <2>2. new.step \in Arrival
    BY <2>1 DEF Arrival
  <2> HIDE DEF new
  <2>3. Become(r, new) => Quiet(r)
    BY <2>1, <2>2 DEF Quiet
  <2> QED
    BY <2>3 DEF new
<1> QED
  BY <1>1, <1>2, <1>3

\* The selection of the stale tokens: all there are.
LEMMA SelectKeeps ==
    ASSUME TypeOK, LinkInv, NEW r \in Requests, NEW s \in {"minting", "replacing", "issuing"},
           Stale(r, s), UNCHANGED <<user, token, source, known>>,
           s = "minting" => ~UserLocked(r) /\ SameUser(r)
    PROVE  LinkInv'
<1> DEFINE new == [req[r] EXCEPT !.step = s, !.stale = Unused, !.seen = Minted]
<1>0. req[r] \in Request
  BY DEF TypeOK
<1>1. /\ new.step = s /\ new.stale = Unused /\ new.seen = Minted /\ new.user = req[r].user
  BY <1>0 DEF Request
<1>2. req' = [req EXCEPT ![r] = new]
  BY DEF Stale, Become
<1> HIDE DEF new
<1>3. req'[r] = new
  BY <1>2, OneSlot
<1>4. Unused' = Unused /\ Minted' = Minted
  BY DEF Unused, Minted
<1>5. Unused \subseteq Minted
  BY DEF Unused, Minted
<1>6. SeenStale(r)' /\ RegisteredSeen(r)'
  BY <1>1, <1>3, <1>4, <1>5 DEF SeenStale, RegisteredSeen
<1>7. Held(r)'
  BY <1>1, <1>3 DEF Held, SameUser
<1>8. new.step \in Locking => \A q \in Requests \ {r} : req[q].step \notin Locking
  BY <1>1 DEF Locking, UserLocked
<1> QED
  BY <1>2, <1>6, <1>7, <1>8, SlotKeeps

\* What a minting leaves unused: the new token and those that were not selected.
LEMMA MintLeaves ==
    ASSUME TypeOK, LinkInv, NEW r \in Requests, req[r].step \in Collecting,
           NEW t \in Tokens, NEW op, Mint(r, t, op)
    PROVE  /\ t \in Unused' /\ t \notin Minted
           /\ \A s \in Unused' \ {t} : s \in Unused /\ s \notin req[r].seen
           /\ Minted \subseteq Minted'
           /\ source'[t] = op /\ \A s \in Tokens \ {t} : source'[s] = source[s]
           /\ known'[t] = req[r].seen /\ \A s \in Tokens \ {t} : known'[s] = known[s]
           /\ req'[r] = Idle /\ \A q \in Requests \ {r} : req'[q] = req[q]
<1>1. token[t] = "unminted"
  BY DEF Mint
<1>2. \A s \in Tokens : token'[s] = IF s = t THEN "unused"
                                    ELSE IF s \in req[r].stale THEN "deleted" ELSE token[s]
  BY DEF Mint
<1>3. t \in Unused' /\ t \notin Minted
  BY <1>1, <1>2 DEF Unused, Minted
<1>4. SeenStale(r)
  BY DEF LinkInv, SeenInv
<1>5. \A s \in Unused' \ {t} : s \in Unused /\ s \notin req[r].stale
  BY <1>2 DEF Unused
<1>6. \A s \in Unused' \ {t} : s \notin req[r].seen
  BY <1>4, <1>5 DEF SeenStale
<1>7. Minted \subseteq Minted'
  BY <1>2 DEF Minted
<1>8. source'[t] = op /\ \A s \in Tokens \ {t} : source'[s] = source[s]
  BY DEF Mint, TypeOK
<1>9. known'[t] = req[r].seen /\ \A s \in Tokens \ {t} : known'[s] = known[s]
  BY DEF Mint, TypeOK
<1>10. req'[r] = Idle /\ \A q \in Requests \ {r} : req'[q] = req[q]
  BY OneSlot DEF Mint, Become
<1> QED
  BY <1>3, <1>5, <1>6, <1>7, <1>8, <1>9, <1>10

\* The parts that any minting keeps, whoever the user is.
LEMMA MintKeeps ==
    ASSUME TypeOK, LinkInv, NEW r \in Requests, req[r].step \in Collecting,
           NEW t \in Tokens, NEW op, Mint(r, t, op),
           op = "register" => req[r].step \in Locking
    PROVE  OneLock' /\ SeenInv' /\ LinksOverlap' /\ PendingHasLink'
<1>1. /\ t \in Unused' /\ t \notin Minted
      /\ \A s \in Unused' \ {t} : s \in Unused /\ s \notin req[r].seen
      /\ Minted \subseteq Minted'
      /\ source'[t] = op /\ \A s \in Tokens \ {t} : source'[s] = source[s]
      /\ known'[t] = req[r].seen /\ \A s \in Tokens \ {t} : known'[s] = known[s]
      /\ req'[r] = Idle /\ \A q \in Requests \ {r} : req'[q] = req[q]
  BY MintLeaves
<1>2. Idle.step \notin Locking \cup Collecting
  BY DEF Idle, Locking, Collecting
<1>3. Unused' \subseteq Tokens /\ Unused \subseteq Minted
  BY DEF Unused, Minted
<1>4. OneLock'
  BY <1>1, <1>2 DEF LinkInv, LockInv, OneLock
<1>5. req[r].seen \subseteq Minted
  BY DEF LinkInv, SeenInv, SeenStale
<1>6. KnownMinted'
  BY <1>1, <1>5 DEF LinkInv, SeenInv, KnownMinted
<1>7. \A q \in Requests : SeenStale(q)'
  <2> SUFFICES ASSUME NEW q \in Requests, req'[q].step \in Collecting
               PROVE  /\ req'[q].seen \subseteq Minted'
                      /\ req'[q].seen \cap Unused' \subseteq req'[q].stale
    BY DEF SeenStale
  <2>1. req'[q] = req[q]
    BY <1>1, <1>2
  <2>2. /\ req[q].seen \subseteq Minted
        /\ req[q].seen \cap Unused \subseteq req[q].stale
    BY <2>1 DEF LinkInv, SeenInv, SeenStale
  <2> QED
    BY <1>1, <2>1, <2>2
<1>8. \A q \in Requests : RegisteredSeen(q)'
  <2> SUFFICES ASSUME NEW q \in Requests, req'[q].step = "minting",
                      NEW s \in Unused', source'[s] = "register"
               PROVE  s \in req'[q].seen
    BY DEF RegisteredSeen
  <2>1. q # r /\ req'[q] = req[q]
    BY <1>1 DEF Idle
  <2>2. s # t
    BY <1>1, <2>1 DEF LinkInv, LockInv, OneLock, Locking
  <2>3. s \in Unused /\ source[s] = "register"
    BY <1>1, <1>3, <2>2
  <2> QED
    BY <2>1, <2>3 DEF LinkInv, SeenInv, RegisteredSeen
<1>9. LinksOverlap'
  <2> SUFFICES ASSUME NEW s \in Unused', NEW u \in Unused', s # u
               PROVE  s \notin known'[u]
    BY DEF LinksOverlap
  <2>1. CASE u = t
    BY <1>1, <2>1
  <2>2. CASE u # t /\ s = t
    BY <1>1, <1>3, <2>2 DEF LinkInv, SeenInv, KnownMinted
  <2>3. CASE u # t /\ s # t
    BY <1>1, <1>3, <2>3 DEF LinkInv, LinksOverlap
  <2> QED
    BY <2>1, <2>2, <2>3
<1>10. PendingHasLink'
  BY <1>1 DEF PendingHasLink
<1> QED
  BY <1>4, <1>6, <1>7, <1>8, <1>9, <1>10 DEF SeenInv

\* A resend and an approval add a link to a user that is there.
LEMMA ReplaceKeeps ==
    ASSUME TypeOK, LinkInv, NEW r \in Requests, req[r].step \in {"replacing", "issuing"},
           NEW t \in Tokens, NEW op \in {"resend", "approve"}, Mint(r, t, op),
           SameUser(r), UNCHANGED user
    PROVE  LinkInv'
<1>1. req[r].step \in Collecting
  BY DEF Collecting
<1>2. OneLock' /\ SeenInv' /\ LinksOverlap' /\ PendingHasLink'
  BY <1>1, MintKeeps
<1>3. /\ \A s \in Unused' \ {t} : s \in Unused /\ s \notin req[r].seen
      /\ source'[t] = op /\ \A s \in Tokens \ {t} : source'[s] = source[s]
      /\ req'[r] = Idle /\ \A q \in Requests \ {r} : req'[q] = req[q]
  BY <1>1, MintLeaves
<1>4. \A q \in Requests : Held(q)'
  BY <1>3 DEF LinkInv, LockInv, Held, Idle
<1>5. NoOrphans'
  BY DEF NoOrphans, SameUser
<1>6. LinkMatchesPassword'
  BY <1>3 DEF LinkInv, LinkMatchesPassword, Unused
<1> QED
  BY <1>2, <1>4, <1>5, <1>6 DEF LinkInv, LockInv

\* A registration replaces every link of an earlier one.
LEMMA RegisterKeeps ==
    ASSUME TypeOK, LinkInv, NEW r \in Requests, RegisterCommit(r)
    PROVE  LinkInv'
<1>1. PICK t \in Tokens :
        /\ Mint(r, t, "register")
        /\ user' = IF req[r].user = 0
                   THEN [id |-> keys.user + 1, role |-> "CANDIDATE",
                         active |-> FALSE, password |-> t]
                   ELSE [user EXCEPT !.password = t]
  BY DEF RegisterCommit
<1>2. req[r].step = "minting" /\ req[r].step \in Collecting /\ req[r].step \in Locking
  BY DEF RegisterCommit, Collecting, Locking
<1>3. OneLock' /\ SeenInv' /\ LinksOverlap' /\ PendingHasLink'
  BY <1>1, <1>2, MintKeeps
<1>4. /\ \A s \in Unused' \ {t} : s \in Unused /\ s \notin req[r].seen
      /\ \A s \in Tokens \ {t} : source'[s] = source[s]
      /\ req'[r] = Idle /\ \A q \in Requests \ {r} : req'[q] = req[q]
  BY <1>1, <1>2, MintLeaves
<1>5. \A q \in Requests : Held(q)'
  <2>1. \A q \in Requests \ {r} : req[q].step \notin Locking
    BY <1>2 DEF LinkInv, LockInv, OneLock
  <2> QED
    BY <1>4, <2>1 DEF Held, Idle, Locking
<1>6. user'.id # 0 /\ user'.password = t
  <2>1. keys.user \in Nat
    BY DEF TypeOK
  <2>2. user.id = req[r].user
    BY <1>2 DEF LinkInv, LockInv, Held
  <2>3. CASE req[r].user = 0
    BY <1>1, <2>1, <2>3
  <2>4. CASE req[r].user # 0
    BY <1>1, <2>2, <2>4 DEF TypeOK
  <2> QED
    BY <2>3, <2>4
<1>7. NoOrphans'
  BY <1>6 DEF NoOrphans
<1>8. LinkMatchesPassword'
  <2> SUFFICES ASSUME NEW s \in Unused', source'[s] = "register", s # t PROVE FALSE
    BY <1>6 DEF LinkMatchesPassword
  <2>1. s \in Unused /\ s \notin req[r].seen /\ source[s] = "register"
    BY <1>4 DEF Unused
  <2> QED
    BY <1>2, <2>1 DEF LinkInv, SeenInv, RegisteredSeen
<1> QED
  BY <1>3, <1>5, <1>7, <1>8 DEF LinkInv, LockInv

\* The INSERT of a registration, or the UPDATE that takes the lock and then selects.
LEMMA RegisterStatementKeeps ==
    ASSUME TypeOK, LinkInv, NEW r \in Requests, RegisterStatement(r)
    PROVE  LinkInv'
<1>1. req[r].step = "registering" /\ ~UserLocked(r) /\ UNCHANGED <<user, token, source, known>>
  BY DEF RegisterStatement, rows, history
<1>2. \/ Become(r, Idle)
      \/ req[r].user # 0 /\ SameUser(r) /\ Stale(r, "minting")
      \/ /\ req[r].user = 0 /\ user = NoUser
         /\ Become(r, [req[r] EXCEPT !.step = "minting", !.seen = Minted])
  BY DEF RegisterStatement
<1>3. CASE Become(r, Idle)
  BY <1>1, <1>3, QuietRecords, QuietKeeps
<1>4. CASE req[r].user # 0 /\ SameUser(r) /\ Stale(r, "minting")
  BY <1>1, <1>4, SelectKeeps
<1>5. CASE /\ req[r].user = 0 /\ user = NoUser
           /\ Become(r, [req[r] EXCEPT !.step = "minting", !.seen = Minted])
  <2> DEFINE new == [req[r] EXCEPT !.step = "minting", !.seen = Minted]
  <2>0. req[r] \in Request
    BY DEF TypeOK
  <2>1. new.step = "minting" /\ new.seen = Minted /\ new.user = 0
    BY <1>5, <2>0 DEF Request
  <2>2. req' = [req EXCEPT ![r] = new]
    BY <1>5 DEF Become
  <2> HIDE DEF new
  <2>3. req'[r] = new
    BY <2>2, OneSlot
  <2>4. user.id = 0 /\ user'.id = 0
    BY <1>1, <1>5 DEF NoUser
  <2>5. Unused' = {} /\ Minted' = Minted
    BY <1>1, <2>4 DEF LinkInv, LockInv, NoOrphans, Unused, Minted
  <2>6. SeenStale(r)' /\ RegisteredSeen(r)' /\ Held(r)'
    BY <2>1, <2>3, <2>4, <2>5 DEF SeenStale, RegisteredSeen, Held
  <2>7. \A q \in Requests \ {r} : req[q].step \notin Locking
    BY <1>1 DEF UserLocked, Locking
  <2> QED
    BY <1>1, <2>2, <2>6, <2>7, SlotKeeps
<1> QED
  BY <1>2, <1>3, <1>4, <1>5

\* The SELECT of a resend and of an approval, and their commits.
LEMMA ReplacementKeeps ==
    ASSUME TypeOK, LinkInv, NEW r \in Requests,
           ResendSelect(r) \/ ApproveSelect(r) \/ ResendCommit(r) \/ ApproveCommit(r)
    PROVE  LinkInv'
<1>1. CASE ResendSelect(r) \/ ApproveSelect(r)
  <2>1. UNCHANGED <<user, token, source, known>>
    BY <1>1 DEF ResendSelect, ApproveSelect, rows, history
  <2>2. Become(r, Idle) \/ Stale(r, "replacing") \/ Stale(r, "issuing")
    BY <1>1 DEF ResendSelect, ApproveSelect
  <2>3. CASE Become(r, Idle)
    BY <2>1, <2>3, QuietRecords, QuietKeeps
  <2>4. CASE Stale(r, "replacing")
    BY <2>1, <2>4, SelectKeeps
  <2>5. CASE Stale(r, "issuing")
    BY <2>1, <2>5, SelectKeeps
  <2> QED
    BY <2>2, <2>3, <2>4, <2>5
<1>2. CASE ResendCommit(r) \/ ApproveCommit(r)
  <2>1. UNCHANGED user /\ req[r].step \in {"replacing", "issuing"}
    BY <1>2 DEF ResendCommit, ApproveCommit
  <2>2. CASE SameUser(r)
    <3>1. PICK op \in {"resend", "approve"}, t \in Tokens : Mint(r, t, op)
      BY <1>2, <2>2 DEF ResendCommit, ApproveCommit
    <3> QED
      BY <2>1, <2>2, <3>1, ReplaceKeeps
  <2>3. CASE ~SameUser(r)
    <3>1. Become(r, Idle) /\ UNCHANGED <<token, source, known>>
      BY <1>2, <2>3 DEF ResendCommit, ApproveCommit
    <3> QED
      BY <2>1, <3>1, QuietRecords, QuietKeeps
  <2> QED
    BY <2>2, <2>3
<1> QED
  BY <1>1, <1>2

\* A request that ends while no other holds the lock, and after which no other link is
\* usable than was before.
LEMMA ShrinkKeeps ==
    ASSUME TypeOK, LinkInv, NEW r \in Requests, Become(r, Idle),
           \A q \in Requests \ {r} : req[q].step \notin Locking,
           UNCHANGED <<source, known>>,
           Unused' \subseteq Unused, Minted \subseteq Minted',
           NoOrphans', PendingHasLink',
           Unused' = {} \/ user'.password = user.password
    PROVE  LinkInv'
<1>1. req'[r] = Idle /\ \A q \in Requests \ {r} : req'[q] = req[q]
  BY OneSlot DEF Become
<1>2. \A q \in Requests : req'[q].step \notin Locking
  BY <1>1 DEF Idle, Locking
<1>3. OneLock' /\ (\A q \in Requests : Held(q)')
  BY <1>2 DEF OneLock, Held, Locking
<1>4. \A q \in Requests : RegisteredSeen(q)'
  BY <1>2 DEF RegisteredSeen, Locking
<1>5. \A q \in Requests : SeenStale(q)'
  <2> SUFFICES ASSUME NEW q \in Requests, req'[q].step \in Collecting
               PROVE  /\ req'[q].seen \subseteq Minted'
                      /\ req'[q].seen \cap Unused' \subseteq req'[q].stale
    BY DEF SeenStale
  <2>1. req'[q] = req[q]
    BY <1>1 DEF Idle, Collecting
  <2>2. /\ req[q].seen \subseteq Minted
        /\ req[q].seen \cap Unused \subseteq req[q].stale
    BY <2>1 DEF LinkInv, SeenInv, SeenStale
  <2> QED
    BY <2>1, <2>2
<1>6. KnownMinted'
  BY DEF LinkInv, SeenInv, KnownMinted
<1>7. LinksOverlap'
  BY DEF LinkInv, LinksOverlap
<1>8. LinkMatchesPassword'
  BY DEF LinkInv, LinkMatchesPassword
<1> QED
  BY <1>3, <1>4, <1>5, <1>6, <1>7, <1>8 DEF LinkInv, LockInv, SeenInv

\* The activation of an account, which uses up one link.
LEMMA ActivationKeeps ==
    ASSUME TypeOK, LinkInv, NEW r \in Requests, ActivateCommit(r)
    PROVE  LinkInv'
<1> DEFINE t     == req[r].token
           fails == \/ ~SameUser(r) \/ token[t] = "deleted"
                    \/ user.role = "CANDIDATE" /\ ~SameProfile(r)
<1>1. Become(r, Idle) /\ UNCHANGED <<source, known>> /\ ~UserLocked(r)
  BY DEF ActivateCommit
<1>2. CASE fails
  <2>1. UNCHANGED <<user, token>>
    BY <1>2 DEF ActivateCommit
  <2> QED
    BY <1>1, <2>1, QuietRecords, QuietKeeps
<1>3. CASE ~fails
  <2>1. user' = [user EXCEPT !.active = TRUE] /\ token' = [token EXCEPT ![t] = "used"]
    BY <1>3 DEF ActivateCommit
  <2>2. SameUser(r)
    BY <1>3
  <2> HIDE DEF t, fails
  <2>3. user'.id = user.id /\ user'.active /\ user'.password = user.password
    BY <2>1 DEF TypeOK
  <2>4. \A s \in Tokens : token'[s] = token[s] \/ token'[s] = "used"
    BY <2>1 DEF TypeOK
  <2>5. Unused' \subseteq Unused /\ Minted \subseteq Minted'
    BY <2>4 DEF Unused, Minted
  <2>6. NoOrphans' /\ PendingHasLink'
    BY <2>2, <2>3 DEF NoOrphans, PendingHasLink, Pending, SameUser
  <2>7. \A q \in Requests \ {r} : req[q].step \notin Locking
    BY <1>1 DEF UserLocked, Locking
  <2> QED
    BY <1>1, <2>3, <2>5, <2>6, <2>7, ShrinkKeeps
<1> QED
  BY <1>2, <1>3

\* The steps of the registration of a company.
LEMMA EnrollmentKeeps ==
    ASSUME TypeOK, LinkInv, NEW r \in Requests,
           EnrollInsert(r) \/ MarkInvite(r) \/ EnrollCommit(r)
    PROVE  LinkInv'
<1>0. req[r] \in Request
  BY DEF TypeOK
<1>1. CASE EnrollInsert(r)
  <2>1. /\ UNCHANGED <<user, token, source, known>> /\ ~UserLocked(r)
        /\ Become(r, IF user = NoUser THEN [req[r] EXCEPT !.step = "uploading"] ELSE Idle)
    BY <1>1 DEF EnrollInsert, rows, history
  <2>2. CASE user # NoUser
    BY <2>1, <2>2, QuietRecords, QuietKeeps
  <2>3. CASE user = NoUser
    <3> DEFINE new == [req[r] EXCEPT !.step = "uploading"]
    <3>1. new.step = "uploading"
      BY <1>0 DEF Request
    <3>2. req' = [req EXCEPT ![r] = new]
      BY <2>1, <2>3 DEF Become
    <3> HIDE DEF new
    <3>3. req'[r] = new
      BY <3>2, OneSlot
    <3>4. user'.id = 0
      BY <2>1, <2>3 DEF NoUser
    <3>5. Held(r)' /\ SeenStale(r)' /\ RegisteredSeen(r)'
      BY <3>1, <3>3, <3>4 DEF Held, SeenStale, RegisteredSeen, Collecting
    <3>6. \A q \in Requests \ {r} : req[q].step \notin Locking
      BY <2>1 DEF UserLocked, Locking
    <3> QED
      BY <2>1, <3>2, <3>5, <3>6, SlotKeeps
  <2> QED
    BY <2>2, <2>3
<1>2. CASE MarkInvite(r)
  <2> DEFINE found == {i \in PendingInvites : invite[i].link = req[r].link}
             new   == [req[r] EXCEPT !.step = "marking",
                         !.invite = IF found = {} THEN NoInvite
                                    ELSE CHOOSE i \in found : TRUE]
  <2>1. UNCHANGED <<user, token, source, known>> /\ req[r].step = "uploading"
    BY <1>2 DEF MarkInvite, rows, history
  <2>2. req' = [req EXCEPT ![r] = new]
    BY <1>2 DEF MarkInvite, Become
  <2>3. new.step = "marking"
    BY <1>0 DEF Request
  <2> HIDE DEF new
  <2>4. req'[r] = new
    BY <2>2, OneSlot
  <2>5. user'.id = 0
    BY <2>1 DEF LinkInv, LockInv, Held
  <2>6. Held(r)' /\ SeenStale(r)' /\ RegisteredSeen(r)'
    BY <2>3, <2>4, <2>5 DEF Held, SeenStale, RegisteredSeen, Collecting
  <2>7. \A q \in Requests \ {r} : req[q].step \notin Locking
    BY <2>1 DEF LinkInv, LockInv, OneLock, Locking
  <2> QED
    BY <2>1, <2>2, <2>6, <2>7, SlotKeeps
<1>3. CASE EnrollCommit(r)
  <2> DEFINE i == req[r].invite
  <2>1. UNCHANGED <<token, source, known>> /\ req[r].step = "marking" /\ Become(r, Idle)
    BY <1>3 DEF EnrollCommit
  <2>2. CASE i # NoInvite /\ i \notin StoredInvites
    <3>1. UNCHANGED user
      BY <1>3, <2>2 DEF EnrollCommit
    <3> QED
      BY <2>1, <3>1, QuietRecords, QuietKeeps
  <2>3. CASE ~(i # NoInvite /\ i \notin StoredInvites)
    <3>1. user' = [id |-> keys.user + 1, role |-> "COMPANY",
                   active |-> FALSE, password |-> NoToken]
      BY <1>3, <2>3 DEF EnrollCommit
    <3>2. Unused = {}
      BY <2>1 DEF LinkInv, LockInv, Held, NoOrphans
    <3>3. Unused' = {} /\ Minted' = Minted
      BY <2>1, <3>2 DEF Unused, Minted
    <3>4. NoOrphans' /\ PendingHasLink'
      BY <3>1, <3>3 DEF NoOrphans, PendingHasLink, Pending
    <3>5. \A q \in Requests \ {r} : req[q].step \notin Locking
      BY <2>1 DEF LinkInv, LockInv, OneLock, Locking
    <3> QED
      BY <2>1, <3>3, <3>4, <3>5, ShrinkKeeps
  <2> QED
    BY <2>2, <2>3
<1> QED
  BY <1>1, <1>2, <1>3

\* The rejection of a company, which takes every link with it.
LEMMA RejectionKeeps ==
    ASSUME TypeOK, LinkInv, NEW r \in Requests, RejectCommit(r)
    PROVE  LinkInv'
<1>1. Become(r, Idle) /\ UNCHANGED <<source, known>> /\ ~UserLocked(r)
  BY DEF RejectCommit, history
<1>2. CASE ~SameUser(r)
  <2>1. UNCHANGED <<user, token>>
    BY <1>2 DEF RejectCommit
  <2> QED
    BY <1>1, <2>1, QuietRecords, QuietKeeps
<1>3. CASE SameUser(r)
  <2>1. /\ user' = NoUser
        /\ token' = [t \in Tokens |-> IF t \in Minted THEN "deleted" ELSE "unminted"]
    BY <1>3 DEF RejectCommit
  <2>2. Unused' = {} /\ Minted' = Minted
    BY <2>1 DEF Unused, Minted
  <2>3. NoOrphans' /\ PendingHasLink'
    BY <2>1, <2>2 DEF NoOrphans, PendingHasLink, Pending, NoUser
  <2>4. \A q \in Requests \ {r} : req[q].step \notin Locking
    BY <1>1 DEF UserLocked, Locking
  <2> QED
    BY <1>1, <2>2, <2>3, <2>4, ShrinkKeeps
<1> QED
  BY <1>2, <1>3

\* The steps that read, end, or write only profiles and invites.
LEMMA QuietSteps ==
    ASSUME TypeOK, InviteInv, LinkInv, NEW r \in Requests,
           \/ RegisterRead(r) \/ ApplyStatement(r) \/ EraseProfile(r) \/ ResendRead(r)
           \/ InviteRead(r) \/ InviteCommit(r) \/ RevokeCommit(r) \/ ReinviteCommit(r)
           \/ ApproveRead(r) \/ Abort(r)
           \/ \E claims \in BOOLEAN : ApplyRead(r, claims)
           \/ \E t \in Tokens : ActivateRead(r, t)
           \/ \E i \in Invites : RevokeRead(r, i) \/ ReinviteRead(r, i)
                                 \/ DropInvite(r, i) \/ EnrollRead(r, i)
           \/ \E op \in {"reject", "delete"} : RejectRead(r, op)
    PROVE  LinkInv'
<1>1. UNCHANGED <<user, token, source, known>>
  BY DEF RegisterRead, ApplyStatement, EraseProfile, ResendRead, InviteRead, InviteCommit,
         RevokeCommit, ReinviteCommit, ApproveRead, Abort, ApplyRead, ActivateRead,
         RevokeRead, ReinviteRead, Handle, DropInvite, EnrollRead, RejectRead, rows, history
<1>2. Quiet(r)
  <2>1. CASE \/ RegisterRead(r) \/ ResendRead(r) \/ InviteRead(r) \/ ApproveRead(r)
             \/ EraseProfile(r)
             \/ \E claims \in BOOLEAN : ApplyRead(r, claims)
             \/ \E t \in Tokens : ActivateRead(r, t)
             \/ \E i \in Invites : RevokeRead(r, i) \/ ReinviteRead(r, i) \/ EnrollRead(r, i)
             \/ \E op \in {"reject", "delete"} : RejectRead(r, op)
    BY <2>1, Arrivals, QuietRecords
  <2>2. CASE \/ InviteCommit(r) \/ RevokeCommit(r) \/ ReinviteCommit(r) \/ Abort(r)
             \/ \E i \in Invites : DropInvite(r, i)
    <3>1. Become(r, Idle)
      BY <2>2 DEF InviteCommit, RevokeCommit, ReinviteCommit, Abort, DropInvite, Begin
    <3> QED
      BY <3>1, QuietRecords
  <2>3. CASE ApplyStatement(r)
    <3>1. \/ Become(r, Idle)
          \/ Become(r, [req[r] EXCEPT !.step = "registering", !.user = user.id])
      BY <2>3 DEF ApplyStatement
    <3> QED
      BY <3>1, QuietRecords
  <2> QED
    BY <2>1, <2>2, <2>3
<1> QED
  BY <1>1, <1>2, QuietKeeps

\* So the invariant of the links holds always.
LEMMA LinkInvariant == Spec => []LinkInv
<1>1. Init => LinkInv
  BY DEF Init, Idle, NoUser, Unused, Minted, LinkInv, LockInv, SeenInv, OneLock, Held,
         NoOrphans, SeenStale, RegisteredSeen, KnownMinted, Locking, Collecting,
         PendingHasLink, Pending, LinkMatchesPassword, LinksOverlap
<1>2. TypeOK /\ InviteInv /\ LinkInv /\ [Next]_vars => LinkInv'
  <2> SUFFICES ASSUME TypeOK, InviteInv, LinkInv, [Next]_vars PROVE LinkInv'
    OBVIOUS
  <2>1. CASE Next
    BY <2>1, QuietSteps, RegisterStatementKeeps, RegisterKeeps, ReplacementKeeps,
       ActivationKeeps, EnrollmentKeeps, RejectionKeeps DEF Next
  <2>2. CASE UNCHANGED vars
    BY <2>2 DEF vars, rows, history, Unused, Minted, LinkInv, LockInv, SeenInv, OneLock,
                Held, NoOrphans, SeenStale, RegisteredSeen, KnownMinted,
                PendingHasLink, Pending, LinkMatchesPassword, LinksOverlap
  <2> QED
    BY <2>1, <2>2
<1> QED
  BY <1>1, <1>2, TypeCorrect, InviteInvariant, PTL DEF Spec

\* A pending candidate always has a link that can activate the account, however
\* registrations, resends and activations interleave and fail (services/auth/login.py
\* tells them to look for it).
THEOREM PendingKeepsLink == Spec => []PendingHasLink
<1>1. LinkInv => PendingHasLink
  BY DEF LinkInv
<1> QED
  BY <1>1, LinkInvariant, PTL

\* The usable link of a registration is that of the stored password
\* (services/auth/candidate_registration.py).
THEOREM LinkIsOfPassword == Spec => []LinkMatchesPassword
<1>1. LinkInv => LinkMatchesPassword
  BY DEF LinkInv
<1> QED
  BY <1>1, LinkInvariant, PTL

\* Two usable links come only from requests that overlapped: what a request selected
\* as stale is gone when it commits (the resend and the approval lock nothing).
THEOREM LinksOnlyOverlap == Spec => []LinksOverlap
<1>1. LinkInv => LinksOverlap
  BY DEF LinkInv
<1> QED
  BY <1>1, LinkInvariant, PTL
================================================================================
