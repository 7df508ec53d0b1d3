----------------------------- MODULE ApplyWizard -----------------------------
(***************************************************************************)
(* The application form: a wizard of three steps (who applies, the résumé, *)
(* the questions with the consents and the offer of an account), its       *)
(* prefill from the candidate's profile, and the one request it sends.     *)
(* Code: src/frontend/src/pages/public/ApplicationPage.tsx, its steps in   *)
(* pages/public/components/, services/jobs.ts and services/candidate.ts.   *)
(*                                                                         *)
(* The page is public, so it may open before it is known who its visitor   *)
(* is: AuthContext finds the user by an answer that comes while the form   *)
(* is being filled.  Who the server takes the visitor for is decided again *)
(* when the request arrives, from the access token of that moment.         *)
(***************************************************************************)
EXTENDS Naturals, FiniteSets

CONSTANTS
  Budget,      \* bound: what the visitor does, and what happens elsewhere
  MaxPosts     \* bound: applications sent

ASSUME ApplyAssumption == Budget \in Nat /\ MaxPosts \in Nat

Steps == 1 .. 3
Fields == {"name", "email"}
\* What a field of step 1 holds: nothing or a text validateField rejects; what the
\* visitor typed; what the account has; a name of the profile that validateField
\* rejects, of one character or more than a hundred.  Phone and link are treated as
\* the name is, but the profile's are valid.
Values == {"bad", "typed", "own", "unfit"}
\* A picked file: "doc" passes the page and not the server.
Files == {"none", "pdf", "doc"}
Consents == {"privacy", "terms"}
\* "weak" is every password the rules refuse, the empty one included.
Passwords == {"weak", "strong"}
\* The address of the visitor's account, and another.
Emails == {"typed", "own"}
\* Whose profile has an address: the visitor's account's, another account's, or one
\* of no account, which the first application creates.
Holders == {"account", "other", "lead"}

VARIABLES
  account,     \* of the visitor: "none", "candidate" or "company"
  token,       \* the access token of the browser: "none", "fresh", "expired"
  cookie,      \* the refresh cookie is accepted
  user,        \* useAuth: who the page thinks the visitor is
  probing,     \* AuthContext waits for the refresh that began with the document
  page,        \* "closed", "loading", "form", "error", "success", "editor"
  asking,      \* getCandidateMe is under way
  form, fieldErrors, resumeFile, resumeError, saved,
  accepted, open,                        \* consents and the modals of their texts
  claim, password, confirm, claimError,  \* the offer of an account
  step, maxStep, submitting, submitError,
  posts,       \* applications under way
  jobOpen,     \* the job is published
  kept,        \* the profile has a résumé
  holder,      \* whose profile has an email
  apps,        \* the server's application to this job of the profile of an email
  pending,     \* emails with an account that awaits activation
  deleted,     \* history: the profile's résumé was deleted while the page is open
  budget, sent

auth == <<account, token, cookie, user, probing>>
identity == <<form, fieldErrors>>
resume == <<resumeFile, resumeError, saved>>
questions == <<accepted, open, claim, password, confirm, claimError>>
wizard == <<step, maxStep>>
sending == <<submitting, submitError, posts, sent>>
server == <<jobOpen, kept, holder, apps, pending, deleted>>
vars == <<auth, page, asking, identity, resume, questions, wizard, sending,
          server, budget>>

\* candidate: the server took the sender for one; stored: whose profile got the
\* application; strayed: the account's profile had another address than the account
\* at that time; the rest is what was sent, and what the page showed when it was sent.
Post == [id : Nat, mine : BOOLEAN, state : {"sent", "served"},
         outcome : {"none", "created", "editable", "locked", "taken", "gone",
                    "noresume", "badfile", "forbidden", "failed"},
         token : {"none", "fresh", "expired"}, candidate : BOOLEAN,
         name : Values, email : Values, file : Files, claim : BOOLEAN,
         view : {"none", "candidate", "company"}, leaned : BOOLEAN,
         accepted : SUBSET Consents, match : BOOLEAN,
         stored : {"none"} \cup Holders, strayed : BOOLEAN]

TypeOK ==
  /\ account \in {"none", "candidate", "company"}
  /\ token \in {"none", "fresh", "expired"} /\ cookie \in BOOLEAN
  /\ user \in {"none", account} /\ probing \in BOOLEAN
  /\ page \in {"closed", "loading", "form", "error", "success", "editor"}
  /\ asking \in BOOLEAN
  /\ form \in [Fields -> Values] /\ fieldErrors \subseteq Fields
  /\ resumeFile \in Files /\ resumeError \in BOOLEAN /\ saved \in BOOLEAN
  /\ accepted \subseteq Consents /\ open \subseteq Consents
  /\ claim \in BOOLEAN /\ password \in Passwords /\ confirm \in Passwords
  /\ claimError \in BOOLEAN
  /\ step \in Steps /\ maxStep \in Steps /\ step <= maxStep
  /\ submitting \in BOOLEAN /\ submitError \in BOOLEAN
  /\ posts \subseteq Post /\ sent \in Nat
  /\ jobOpen \in BOOLEAN /\ kept \in BOOLEAN /\ deleted \in BOOLEAN
  /\ holder \in [Emails -> Holders]
  /\ apps \in [Emails -> {"none", "new", "locked"}] /\ pending \subseteq Emails
  /\ budget \in Nat

isLoggedInCandidate == user = "candidate"
Spend == budget > 0 /\ budget' = budget - 1
Act == page = "form" /\ Spend
\* What only completes the form is not counted, so that a visitor who completes it
\* has as many steps left as one who is still to begin.
Complete(progress) ==
  page = "form" /\ IF progress THEN UNCHANGED budget ELSE Spend

\* The page is not open yet; the visitor may have an account, and a session of an
\* earlier visit that is still good, or not.
Init ==
  /\ account \in {"none", "candidate", "company"}
  /\ token \in IF account = "none" THEN {"none"} ELSE {"none", "fresh", "expired"}
  /\ cookie \in IF token = "none" THEN {FALSE} ELSE BOOLEAN
  /\ kept \in IF account = "candidate" THEN BOOLEAN ELSE {FALSE}
  /\ user = "none" /\ probing = FALSE /\ page = "closed" /\ asking = FALSE
  /\ form = [f \in Fields |-> "bad"] /\ fieldErrors = {}
  /\ resumeFile = "none" /\ resumeError = FALSE /\ saved = FALSE
  /\ accepted = {} /\ open = {} /\ claim = FALSE
  /\ password = "weak" /\ confirm = "weak" /\ claimError = FALSE
  /\ step = 1 /\ maxStep = 1 /\ submitting = FALSE /\ submitError = FALSE
  /\ posts = {} /\ sent = 0 /\ jobOpen = TRUE
  /\ holder = [e \in Emails |->
                 IF e = "own" /\ account = "candidate" THEN "account" ELSE "lead"]
  /\ apps = [e \in Emails |-> "none"] /\ pending = {} /\ deleted = FALSE
  /\ budget = Budget

-----------------------------------------------------------------------------
(* The document and its visitor.                                           *)

\* The initial value of the form: the email of a candidate the page knows.
EmptyForm(u) ==
  [f \in Fields |-> IF f = "email" /\ u = "candidate" THEN "own" ELSE "bad"]

\* The document is loaded: a good token is a user, an expired one is removed and
\* the cookie is tried; the job and, for a candidate, the profile are fetched.
OpenPage ==
  LET u == IF token = "fresh" THEN account ELSE "none" IN
  /\ page = "closed" /\ page' = "loading"
  /\ user' = u /\ probing' = (token = "expired")
  /\ token' = IF token = "expired" THEN "none" ELSE token
  /\ asking' = (u = "candidate")
  /\ form' = EmptyForm(u) /\ fieldErrors' = {}
  /\ resumeFile' = "none" /\ resumeError' = FALSE /\ saved' = FALSE
  /\ accepted' = {} /\ open' = {} /\ claim' = FALSE
  /\ password' = "weak" /\ confirm' = "weak" /\ claimError' = FALSE
  /\ step' = 1 /\ maxStep' = 1 /\ submitting' = FALSE /\ submitError' = FALSE
  /\ deleted' = FALSE
  /\ UNCHANGED <<account, cookie, posts, sent, jobOpen, kept, holder, apps, pending,
                 budget>>

\* The page is replaced or left: what it waits for finds no listener.
Unmount(to) ==
  /\ page' = to /\ asking' = FALSE /\ submitting' = FALSE
  /\ posts' = {[p EXCEPT !.mine = FALSE] : p \in posts}

\* A link, the back button or a reload.
LeavePage ==
  /\ page # "closed" /\ Spend /\ Unmount("closed")
  /\ probing' = FALSE
  /\ UNCHANGED <<account, token, cookie, user, identity, resume, questions,
                 wizard, submitError, sent, server>>

\* fetchJob: the job of the address, or why there is none.
JobArrives ==
  /\ page = "loading"
  /\ \/ jobOpen /\ page' = "form"
     \/ page' = "error"
  /\ UNCHANGED <<auth, asking, identity, resume, questions, wizard, sending,
                 server, budget>>

\* The answer of the refresh that began with the document; the page may be
\* anywhere in the wizard.  A candidate's profile is then fetched.
ProbeAnswers ==
  /\ probing /\ probing' = FALSE
  /\ \/ /\ cookie /\ user' = account /\ token' = "fresh"
        /\ asking' = (account = "candidate" /\ page \notin {"closed", "editor"})
     \/ UNCHANGED <<user, token, asking>>
  /\ UNCHANGED <<account, cookie, page, identity, resume, questions, wizard,
                 sending, server, budget>>

\* Mutant: the card of a saved résumé is shown whatever the profile holds.
BugSavedAfter == TRUE

\* A profile with a résumé offers it; one without leaves the offer as it is.
SavedAfter == saved \/ kept

\* getCandidateMe answers: the email is set to the account's, and what else the
\* profile knows replaces what was typed meanwhile, with nothing validated; an
\* expired token was refreshed on the way.
ProfileArrives ==
  /\ asking /\ asking' = FALSE
  /\ token # "none" /\ (token = "expired" => cookie) /\ token' = "fresh"
  /\ \E name \in {form["name"], "own", "unfit"} :
       form' = [f \in Fields |-> IF f = "email" THEN "own" ELSE name]
  /\ saved' = SavedAfter
  /\ UNCHANGED <<account, cookie, user, probing, page, fieldErrors, resumeFile,
                 resumeError, questions, wizard, sending, server, budget>>

\* It fails, and the page keeps what it has.
ProfileFails ==
  /\ asking /\ asking' = FALSE
  /\ UNCHANGED <<auth, page, identity, resume, questions, wizard, sending, server,
                 budget>>

\* It is refused, and so is the cookie: clearSession.
SessionEnds ==
  /\ asking /\ token # "fresh" /\ ~cookie
  /\ Unmount("closed") /\ token' = "none"
  /\ UNCHANGED <<account, cookie, user, probing, identity, resume, questions,
                 wizard, submitError, sent, server, budget>>

-----------------------------------------------------------------------------
(* Step 1 and step 2.                                                      *)

\* handleChange; the email of a candidate is read-only.
HandleChange(f, v) ==
  /\ Complete(form[f] = "bad") /\ step = 1
  /\ ~(f = "email" /\ isLoggedInCandidate)
  /\ v \notin {form[f], "unfit"} /\ (v = "own" => f = "email" /\ account # "none")
  /\ form' = [form EXCEPT ![f] = v]
  /\ fieldErrors' = fieldErrors \ {f}
  /\ UNCHANGED <<auth, page, asking, resume, questions, wizard, sending, server>>

Valid(f) == form[f] \notin {"bad", "unfit"}
Wrong == {f \in Fields : ~Valid(f)}

\* handleBlur: the field is checked when it is left.
HandleBlur(f) ==
  LET errors == (fieldErrors \ {f}) \cup (Wrong \cap {f}) IN
  /\ page = "form" /\ step = 1 /\ errors # fieldErrors
  /\ fieldErrors' = errors
  /\ UNCHANGED <<auth, page, asking, form, resume, questions, wizard, sending,
                 server, budget>>

\* ingestResume: a file the page refuses leaves the one before it in place.
IngestResume(file) ==
  /\ resumeError' = (file = "refused")
  /\ resumeFile' = IF file = "refused" THEN resumeFile ELSE file

\* handleResumeChange and onDrop; what is dropped may hold no file.
PickResume(file) ==
  /\ Complete(resumeFile = "none" /\ file # "none") /\ step = 2
  /\ file = "none" => resumeFile = "none" /\ ~saved
  /\ IngestResume(file)
  /\ UNCHANGED <<auth, page, asking, identity, saved, questions, wizard, sending,
                 server>>

\* "Replace" on the card of a picked file; the picker that opens may be cancelled.
ClearResume ==
  /\ Act /\ step = 2 /\ resumeFile # "none"
  /\ resumeFile' = "none" /\ resumeError' = FALSE
  /\ UNCHANGED <<auth, page, asking, identity, saved, questions, wizard, sending,
                 server>>

\* "Replace" on the card of the saved résumé.
ClearSaved ==
  /\ Act /\ step = 2 /\ saved /\ resumeFile = "none"
  /\ saved' = FALSE
  /\ UNCHANGED <<auth, page, asking, identity, resumeFile, resumeError, questions,
                 wizard, sending, server>>

-----------------------------------------------------------------------------
(* Step 3.                                                                 *)

\* The checkbox of a consent; a candidate is not asked.
ToggleConsent(c) ==
  /\ Complete(c \notin accepted) /\ step = 3 /\ ~isLoggedInCandidate
  /\ accepted' = IF c \in accepted THEN accepted \ {c} ELSE accepted \cup {c}
  /\ UNCHANGED <<auth, page, asking, identity, resume, open, claim, password,
                 confirm, claimError, wizard, sending, server>>

\* The text of a consent is opened.
OpenModal(c) ==
  /\ Act /\ step = 3 /\ ~isLoggedInCandidate /\ c \notin open
  /\ open' = open \cup {c}
  /\ UNCHANGED <<auth, page, asking, identity, resume, accepted, claim, password,
                 confirm, claimError, wizard, sending, server>>

\* Closing it accepts it.
CloseModal(c) ==
  /\ page = "form" /\ c \in open
  /\ open' = open \ {c} /\ accepted' = accepted \cup {c}
  /\ UNCHANGED <<auth, page, asking, identity, resume, claim, password, confirm,
                 claimError, wizard, sending, server, budget>>

\* ClaimAccountSection: the checkbox, and its two passwords.
ToggleClaim ==
  /\ Act /\ step = 3 /\ ~isLoggedInCandidate /\ claim' = ~claim
  /\ UNCHANGED <<auth, page, asking, identity, resume, accepted, open, password,
                 confirm, claimError, wizard, sending, server>>
TypePassword(p) ==
  /\ Complete(p = "strong") /\ step = 3 /\ ~isLoggedInCandidate /\ claim /\ p # password
  /\ password' = p
  /\ UNCHANGED <<auth, page, asking, identity, resume, accepted, open, claim,
                 confirm, claimError, wizard, sending, server>>
TypeConfirm(p) ==
  /\ Complete(p = "strong") /\ step = 3 /\ ~isLoggedInCandidate /\ claim /\ p # confirm
  /\ confirm' = p
  /\ UNCHANGED <<auth, page, asking, identity, resume, accepted, open, claim,
                 password, claimError, wizard, sending, server>>

-----------------------------------------------------------------------------
(* From step to step.                                                      *)

\* validateStep, without the errors it shows.  The questions of step 3 are
\* optional, and the inputs hold their maximal length.
StepValid(s) ==
  CASE s = 1 -> Wrong = {}
    [] s = 2 -> (resumeFile # "none" \/ saved) /\ ~resumeError
    [] s = 3 -> isLoggedInCandidate \/ accepted = Consents

\* The errors validateStep(s) leaves behind.
StepErrors(s) ==
  /\ fieldErrors' = IF s = 1 THEN Wrong ELSE fieldErrors
  /\ resumeError' = (resumeError \/ (s = 2 /\ resumeFile = "none" /\ ~saved))

HandleNext ==
  /\ Act /\ step < 3
  /\ StepErrors(step)
  /\ step' = IF StepValid(step) THEN step + 1 ELSE step
  /\ maxStep' = IF step' > maxStep THEN step' ELSE maxStep
  /\ UNCHANGED <<auth, page, asking, form, resumeFile, saved, questions, sending,
                 server>>

HandleBack ==
  /\ Act /\ step > 1 /\ step' = step - 1
  /\ UNCHANGED <<auth, page, asking, identity, resume, questions, maxStep, sending,
                 server>>

\* Mutant: a jump ahead checks only the step it leaves.
BugLanding(target) == IF StepValid(step) THEN target ELSE step

\* jumpTo ahead ends at the first step on the way that is not valid.
Landing(target) ==
  LET bad == {s \in step .. target - 1 : ~StepValid(s)} IN
  IF bad = {} THEN target ELSE CHOOSE s \in bad : \A r \in bad : s <= r

\* A step that was reached, and not the present one.
Reachable(target) == target # step /\ target <= maxStep

\* The stepper: a jump back is free, one ahead validates the steps it passes; the
\* last of the steps it validates are the one it stops at or the one before target.
JumpTo(target) ==
  LET land == Landing(target)
      checked == step .. (IF land = target THEN target - 1 ELSE land)
  IN
  /\ Act /\ Reachable(target)
  /\ IF target < step
     THEN step' = target /\ UNCHANGED <<fieldErrors, resumeError>>
     ELSE /\ step' = land
          /\ fieldErrors' = IF 1 \in checked THEN Wrong ELSE fieldErrors
          /\ resumeError' = (resumeError \/ (2 \in checked /\ resumeFile = "none"
                                                           /\ ~saved))
  /\ UNCHANGED <<auth, page, asking, form, resumeFile, saved, questions, maxStep,
                 sending, server>>

-----------------------------------------------------------------------------
(* The request.                                                            *)

\* Mutant: the button does not wait for the answer.
BugSubmitEnabled == isLoggedInCandidate \/ accepted = Consents

\* StepNav: the button, without which Enter in the form submits nothing either.
SubmitEnabled == ~submitting /\ (isLoggedInCandidate \/ accepted = Consents)

\* Mutant: the password is checked whoever asks, and its repetition is not.
BugClaimRefused == claim /\ password = "weak"

\* The check of the claimed password: a candidate has one already.
ClaimRefused ==
  ~isLoggedInCandidate /\ claim /\ (password # confirm \/ password = "weak")

\* The request as submitApplication builds it; the interceptor adds the token.
NewPost ==
  [id |-> sent, mine |-> TRUE, state |-> "sent", outcome |-> "none",
   token |-> token, candidate |-> FALSE, name |-> form["name"],
   email |-> form["email"], file |-> resumeFile,
   claim |-> ~isLoggedInCandidate /\ claim, view |-> user, leaned |-> saved,
   accepted |-> accepted, match |-> password = confirm, stored |-> "none",
   strayed |-> FALSE]

\* The step doFinalSubmit goes back to, 0 for none.
FirstInvalid ==
  IF ~StepValid(1) THEN 1 ELSE IF ~StepValid(2) THEN 2
  ELSE IF ~StepValid(3) THEN 3 ELSE 0

\* handleFormSubmit and doFinalSubmit: every step is validated again; the first
\* that fails is shown.  The last errors set are those of a step 3 that began from
\* the errors before, so the older errors of step 1 come back.
Submit ==
  /\ Act /\ step = 3 /\ SubmitEnabled /\ sent < MaxPosts
  /\ IF FirstInvalid # 0
     THEN /\ step' = FirstInvalid /\ fieldErrors' = Wrong
          /\ resumeError' = (resumeError \/ (FirstInvalid = 2 /\ resumeFile = "none"
                                                             /\ ~saved))
          /\ UNCHANGED <<claimError, sending>>
     ELSE /\ UNCHANGED <<step, fieldErrors, resumeError>>
          /\ claimError' = IF isLoggedInCandidate \/ ~claim THEN claimError
                           ELSE ClaimRefused
          /\ IF ClaimRefused THEN UNCHANGED sending
             ELSE /\ submitting' = TRUE /\ submitError' = FALSE
                  /\ posts' = posts \cup {NewPost} /\ sent' = sent + 1
  /\ UNCHANGED <<auth, page, asking, form, resumeFile, saved, accepted, open,
                 claim, password, confirm, maxStep, server>>

\* get_current_user_optional: a token that has expired is nobody's.
ServerUser(p) == IF p.token = "fresh" THEN account ELSE "none"

\* Mutant: the application goes to the email of the form, whoever sends it.
BugTarget(p) == p.email

\* The email whose profile gets the application.
Target(p) == IF ServerUser(p) = "candidate" THEN "own" ELSE p.email

\* apply_to_job: the first of its checks that fails, or "created".  The email of an
\* active candidate is refused to others at once, any other account's only to a claim;
\* both are emails of accounts, while the application is one of the profile that has
\* the email.  A candidate's account is linked to the profile that got the application
\* if none is, which fails while it is linked to another.
Verdict(p) ==
  LET who == ServerUser(p)
      foreign == who = "none" /\ p.email = "own" IN
  IF who = "company" THEN "forbidden"
  ELSE IF p.file = "doc" THEN "badfile"
  ELSE IF p.file = "none" /\ ~(who = "candidate" /\ kept) THEN "noresume"
  ELSE IF ~jobOpen THEN "gone"
  ELSE IF foreign /\ account = "candidate" THEN "taken"
  ELSE IF apps[Target(p)] = "new" THEN "editable"
  ELSE IF apps[Target(p)] = "locked" THEN "locked"
  ELSE IF who = "candidate" /\ holder[Target(p)] = "lead" THEN "failed"
  ELSE IF foreign /\ p.claim THEN "taken"
  ELSE "created"

\* The server handles the request in one transaction; a claimed account is created
\* with the application, and a new résumé becomes the profile's.
Serve(p) ==
  LET v == Verdict(p) IN
  /\ p.state = "sent"
  /\ posts' = (posts \ {p})
       \cup {[p EXCEPT !.state = "served", !.outcome = v,
                       !.candidate = ServerUser(p) = "candidate",
                       !.stored = IF v = "created" THEN holder[Target(p)] ELSE "none",
                       !.strayed = holder["own"] # "account"]}
  /\ IF v = "created"
     THEN /\ apps' = [apps EXCEPT ![Target(p)] = "new"]
          /\ pending' = IF p.claim /\ ServerUser(p) = "none"
                        THEN pending \cup {p.email} ELSE pending
          /\ kept' = (kept \/ holder[Target(p)] = "account")
     ELSE UNCHANGED <<apps, pending, kept>>
  /\ UNCHANGED <<auth, page, asking, identity, resume, questions, wizard,
                 submitting, submitError, sent, jobOpen, holder, deleted, budget>>

\* Mutant: the button stays disabled after a failure.
BugSubmitEnds == FALSE

\* The finally of doFinalSubmit.
SubmitEnds == TRUE

\* The answer reaches the page that sent the request: success, the editor of the
\* application that exists, or a message.  An answer for a page that was left is
\* not heard.
Answer(p) ==
  /\ p.state = "served" /\ posts' = posts \ {p}
  /\ IF ~p.mine THEN UNCHANGED <<page, asking, submitting, submitError>>
     ELSE /\ page' = CASE p.outcome = "created" -> "success"
                       [] p.outcome = "editable" -> "editor"
                       [] OTHER -> page
          /\ submitError' = (p.outcome \notin {"created", "editable"})
          /\ submitting' = (submitting /\ ~SubmitEnds)
          /\ asking' = (asking /\ p.outcome # "editable")
  /\ UNCHANGED <<auth, identity, resume, questions, wizard, sent, server, budget>>

\* The request or its answer is lost, or the server fails: a message, and the
\* application may have been stored.
Lose(p) ==
  /\ posts' = posts \ {p}
  /\ submitError' = (submitError \/ p.mine)
  /\ submitting' = (submitting /\ ~(p.mine /\ SubmitEnds))
  /\ UNCHANGED <<auth, page, asking, identity, resume, questions, wizard, sent,
                 server, budget>>

-----------------------------------------------------------------------------
(* Elsewhere.                                                              *)

Elsewhere ==
  UNCHANGED <<user, probing, account, page, asking, identity, resume, questions,
              wizard, sending>>

\* The access token reaches its time, or the refresh cookie is revoked.
SessionAges ==
  /\ Spend
  /\ \/ token = "fresh" /\ token' = "expired" /\ UNCHANGED cookie
     \/ cookie /\ cookie' = FALSE /\ UNCHANGED token
  /\ Elsewhere /\ UNCHANGED server

\* Another tab logs in or out; this one keeps the user it has.
OtherTab ==
  /\ Spend /\ account # "none"
  /\ \/ token' = "fresh" /\ cookie' = TRUE
     \/ token' = "none" /\ cookie' = FALSE
  /\ <<token', cookie'>> # <<token, cookie>>
  /\ Elsewhere /\ UNCHANGED server

\* The job is closed; the admin decides on an application; the candidate deletes
\* the résumé of the profile in another tab.
ServerChanges ==
  /\ Spend
  /\ \/ jobOpen /\ jobOpen' = FALSE /\ UNCHANGED <<apps, kept, deleted>>
     \/ /\ \E e \in Emails : apps[e] = "new" /\ apps' = [apps EXCEPT ![e] = "locked"]
        /\ UNCHANGED <<jobOpen, kept, deleted>>
     \/ /\ kept /\ kept' = FALSE /\ deleted' = TRUE
        /\ UNCHANGED <<jobOpen, apps>>
  /\ Elsewhere /\ UNCHANGED <<token, cookie, holder, pending>>

\* The admin gives a profile another email, which no profile has; the email of the
\* account stays as it is.  It is the account's profile, or another account's.
UpdateCandidate(e) ==
  /\ Spend
  /\ holder[e] = "lead" /\ apps[e] = "none"
  /\ \/ \E old \in Emails :
          /\ holder[old] = "account"
          /\ holder' = [holder EXCEPT ![old] = "lead", ![e] = "account"]
          /\ apps' = [apps EXCEPT ![old] = "none", ![e] = apps[old]]
     \/ holder' = [holder EXCEPT ![e] = "other"] /\ UNCHANGED apps
  /\ Elsewhere /\ UNCHANGED <<token, cookie, jobOpen, kept, pending, deleted>>

Next ==
  \/ OpenPage \/ LeavePage \/ JobArrives \/ ProbeAnswers
  \/ ProfileArrives \/ ProfileFails \/ SessionEnds
  \/ ClearResume \/ ClearSaved \/ ToggleClaim
  \/ HandleNext \/ HandleBack \/ Submit
  \/ SessionAges \/ OtherTab \/ ServerChanges
  \/ \E f \in Fields, v \in Values : HandleChange(f, v)
  \/ \E f \in Fields : HandleBlur(f)
  \/ \E file \in Files \cup {"refused"} : PickResume(file)
  \/ \E c \in Consents : ToggleConsent(c) \/ OpenModal(c) \/ CloseModal(c)
  \/ \E p \in Passwords : TypePassword(p) \/ TypeConfirm(p)
  \/ \E s \in Steps : JumpTo(s)
  \/ \E e \in Emails : UpdateCandidate(e)
  \/ \E p \in posts : Serve(p) \/ Answer(p) \/ Lose(p)

\* A request that was sent is answered, or found lost.
Fairness == WF_vars(\E p \in posts : Serve(p)) /\ WF_vars(\E p \in posts : Answer(p))
Spec == Init /\ [][Next]_vars /\ Fairness

-----------------------------------------------------------------------------
(* Properties.                                                             *)

\* The form never stands at a step while an earlier one is invalid, however the
\* visitor went back, broke a field and jumped ahead again, and whenever the profile
\* or the visitor's session arrived (ApplicationPage.tsx:331: otherwise "the
\* candidate could re-break a field on step 1 ... and skip past the invalid state").
\* One thing can be wrong behind it, a name the profile brought.
StepsBehindValid ==
  page = "form" =>
    \A s \in 1 .. step - 1 :
      StepValid(s) \/ (s = 1 /\ Wrong = {"name"} /\ form["name"] = "unfit")

\* What was sent was complete when it was sent: valid identity, a résumé or the
\* offer of the saved one, both consents unless the page showed a candidate, and a
\* password only if it was repeated by a visitor who is not one.
SentWasComplete ==
  \A p \in posts :
    /\ {p.name, p.email} \cap {"bad", "unfit"} = {}
    /\ p.file # "none" \/ p.leaned
    /\ p.view = "candidate" \/ p.accepted = Consents
    /\ p.claim => p.match /\ p.view # "candidate"

\* A candidate whom the server knows is told that the résumé is missing only if it
\* was deleted while the page was open: the page lets nobody pass on a saved résumé
\* the profile does not have.
ResumeRefusalExplained ==
  \A p \in posts :
    p.mine /\ p.candidate /\ p.outcome = "noresume" => deleted

\* An application goes to the profile of the account that sent it, whatever the form
\* says, and no one else adds one to an active candidate's profile: as long as the
\* profile has the email of its account.
AccountOwnsItsRecord ==
  \A p \in posts :
    p.stored # "none" /\ account = "candidate" /\ ~p.strayed =>
      (p.candidate <=> p.stored = "account")

\* The form waits exactly while the one request it sent is under way: it never sends
\* a second one meanwhile, and never waits for one that is over.
WaitsForItsRequest ==
  page = "form" =>
    Cardinality({p \in posts : p.mine}) = IF submitting THEN 1 ELSE 0

\* A submission ends: the button comes back, or the page has moved on.
SubmitSettles == submitting ~> ~submitting

\* The same without the name the profile brings (it fails: a stored name may have 1 or
\* up to 255 characters, schemas/auth.py:119, and the form wants 2 to 100).
StepsNeverSkipped == page = "form" => \A s \in 1 .. step - 1 : StepValid(s)

\* "Logged-in candidate apply ... sync any updated identity fields onto the
\* candidate's existing profile" (services/public/applications.py:66): the server
\* finds the profile of a candidate it knows (it fails: it looks for the profile that
\* has the account's email).
OwnProfileFound ==
  \A p \in posts :
    p.candidate => p.outcome # "failed" /\ p.stored \in {"none", "account"}

\* "If the email is already taken by an active candidate user the apply is rejected
\* upfront" (services/public/applications.py:63), so that no one adds an application
\* to such a candidate's profile without logging in (it fails: the email of the
\* profile is not looked at).
StrangersKeptOut ==
  \A p \in posts :
    account = "candidate" /\ p.stored = "account" => p.candidate

\* "Non-fatal — the form still works without prefill. The candidate can type their
\* data manually." (ApplicationPage.tsx:254): a field a candidate must fill is valid
\* or can be typed.
ManualEntryPossible ==
  page = "form" /\ ~asking /\ isLoggedInCandidate => Valid("email")

\* "... we submit without a `resume` part and the backend reuses
\* `CandidateProfile.resume_path`" (ApplicationPage.tsx:92): an application of a
\* candidate that relies on the saved résumé, which the profile still has, is not
\* refused for want of one.
SavedResumeReused ==
  \A p \in posts :
    p.view = "candidate" /\ p.outcome = "noresume" => deleted

\* "A new upload OR the saved-profile-resume affordance both satisfy the 'every live
\* application has a resume' backend rule." (ApplicationPage.tsx:135): with the saved
\* résumé on offer and no other file, step 2 is passed.
SavedSuffices ==
  page = "form" /\ step = 2 /\ saved /\ resumeFile = "none" => StepValid(2)

\* A success page that says an account was created is right (SuccessScreen.tsx:28,
\* ApplicationPage.tsx:82: "when checked we send password + password_confirm with the
\* apply submission").
ClaimTold == page = "success" /\ claim => pending # {}
=============================================================================
