# rs-recruitment in TLA+

A verification development for rs-recruitment, a recruiting platform: a FastAPI
backend on PostgreSQL, an SQS worker, S3 storage and a React frontend. The modules
here model how its handlers, its worker and its pages interleave; TLC checks them on
small instances, and TLAPS proves the main results for every value of the constants.

Paths below are relative to the repository root (`src/...` is the backend package,
`frontend/src/...` the single-page application).

## 1. The system

Companies register with an invite, post jobs that an admin approves, and candidates
apply to them. All state that matters to more than one user is in PostgreSQL. Requests
run in one process with many tasks, on a pool of database connections, at READ
COMMITTED: between a handler's SELECT and its commit, every other handler may run.
`transactional` (`src/core/infrastructure/transactions.py:31`) commits once at the end
and then runs the hooks registered with `defer_after_commit`; a failing hook is logged
and dropped. Its docstring takes READ COMMITTED as sufficient because "each row is owned
by one writer at a time". The handlers show where that is so, and where it is not.

The browser has concurrency of its own: every tab shares one access token and one
refresh cookie; a page changes what it shows before, while and after the server
answers; answers come back in any order, or late, or never.

| Component | State | Operations | What is hard | What makes it correct | Modules |
|---|---|---|---|---|---|
| Sessions and passwords (`services/auth/{login,session,password_*}.py`) | user row (hash, failure count, lock), refresh tokens, used refresh tokens, reset tokens | login, refresh, logout, change, forgot, reset | rotations racing on one token; sessions of their own that commit when the request rolls back; a DELETE that sees only what was committed when it started; row locks held across statements | a token buys one successor; a revocation leaves nothing older than itself; guesses are bounded; nobody waits for ever | AccountAuth, SessionStore |
| Registration, activation, onboarding (`services/auth/{candidate_registration,activation,registration}.py`, `services/admin/{invites,company_approval,companies}.py`) | the user and the profile of an address, activation tokens, invites | register, claim, resend, activate; invite, revoke, send again, enroll, approve, reject, delete | what was read is deleted or replaced before it is used; tokens that nothing locks; an invite validated first and marked last | a pending account has a link, of its last password; an active one its profile; an invite is spent | Onboarding |
| Jobs and applications (`services/{company,admin,candidate,public}`) | job rows, application rows, a partial unique index | approve, reject, update, close, delete; apply, withdraw, decide | check-then-write everywhere; the closing cascade; emails after commit | one live application per candidate; withdrawals stay; one email per event that happened | Recruitment |
| Task queue (`worker.py`, `core/tasks.py`) | messages, batches, dead letters | enqueue, receive, handle, acknowledge | at-least-once delivery, one visibility timeout for a batch, failure after the effect | an accepted task is carried out or kept as dead; the queue empties | TaskQueue, AtLeastOnce |
| Data export (`services/candidate/data_export.py`) | export rows, the email and its link | request, build, notify, download | guard and insert in two transactions; crash before the notification | links lead to exports; exports overlap only when builds do | DataExport |
| Browser session (`frontend/src/services/api.ts`, `contexts/AuthContext.tsx`, guards) | access token, cookie, `isRefreshing`, queue of waiting calls | call, 401, refresh, drain, probe on mount, login, logout | two refreshers with one cookie; a queue no failure drains; a request lost | every call is answered; a replay needs two documents or a loss | BrowserSession |
| Paginated lists and dialogs (`hooks/useInfiniteList.ts`, the admin and company pages) | the list, its request, dialogs over copies of rows, calls under way | next page, reload, filter, open, edit, confirm, create | an answer for a row the list has lost; a dialog that keeps the last row's text | what is shown is what is stored; no text reaches another row | AdminLists |
| Filters (`JobBoardPage.tsx`, the filter panels, `utils/salary`) | filters, debounced texts, the address | type, pick, move a thumb, clear, reload, back | bounds that move under a chosen range; two debounces; two sources of truth | cleared filters hide nothing; what is hidden has a chip | JobFilters, SalaryRange |
| Application form (`ApplicationPage.tsx` and its steps) | the wizard, prefill, the request, the server's verdict | fill, next, jump, claim, submit | the session is found, expires or ends while the form is filled | no step skipped; the record is the account's; the button comes back | ApplyWizard |
| Triage (`AdminApplicationsTriagePage.tsx`, `useTriageQueue.ts`) | queue, carousel, decisions shown before they are stored | decide, undo, slide, swipe, jump | updates stored in any order, refused or lost; timers | the view agrees with the server; no undo of nothing; no stuck slide | Triage |
| Resume files (`services/candidate/profile.py`, `services/public/applications.py`, `core/services/storage*.py`) | storage objects, keys in rows | apply, replace, remove, edit | rows that share a key; a deletion in storage that no rollback takes back | a file is lost only by a key two rows shared or by a request that failed | ResumeFiles |
| Retention and deletion of candidates (`services/admin/candidates.py`) | candidate rows, files | delete, nightly purge | the rows are read, deleted, and their files after the commit | no file of another row goes, an active account keeps its profile | ResumeFiles, Onboarding |
| Connections (`core/infrastructure/database.py`) | a bounded pool | acquire, hold, acquire a second | hold and wait | somebody always proceeds | none |

Components interact through rows (a login reads what an activation wrote; a purge
deletes what an application inserted), through hooks that enqueue tasks, and through
the refresh cookie. Guards, validation, rendering, SEO pages, email bodies, telemetry,
migrations and deployment keep no state worth a model; `PROJECT.json` lists them, with
the reason for each, and every hazard with its line and the properties that watch it.

## 2. How the modules fit together

    SessionStore  <-- implemented by --  AccountAuth     (StoreRefined, proved)
         ^------- used as the server by -- BrowserSession (INSTANCE SessionStore)
    ApplicationBook <- implemented by -- Recruitment     (BookRefined, proved)
    AtLeastOnce   <-- implemented by --  TaskQueue + DataExport (TasksCarried, proved)
    TaskQueue     <-- extended by --     DataExport
    SalaryRange   <-- extended by --     JobFilters
    Onboarding, ResumeFiles, AdminLists, ApplyWizard, Triage:
                                         one component each

The backend is split by the rows its handlers share: the tables of sessions
(AccountAuth), the rows one address owns (Onboarding), a candidate's files (ResumeFiles),
a posting with its applications (Recruitment), the exports of a candidate (DataExport).
A module takes what another one
decides as given: AccountAuth begins with an active account, which Onboarding ends with;
Recruitment takes a profile for granted, which Onboarding creates and deletes; ResumeFiles
sees of profile and applications only the keys of their files. The browser modules take
the server by its promise (BrowserSession), or as a table whose rows others may change
(AdminLists, Triage, ApplyWizard).

What the plan has left, most important first: the bounded pool of connections, of which a
login takes a second one while it holds the first; the keyset cursor by date and
identifier. Section 8 says why they are not here.

## 3. Modelling conventions

* A **request** of the backend occupies a slot of the constant `Requests`. Its record in
  `req` holds the step it is at and the local variables it will still use. An idle slot
  can take a new request, so a behaviour has any number of requests, `|Requests|` at a
  time.
* One **action** is the stretch of a handler from one point where another request can
  interfere to the next: a SELECT; a statement that takes a lock; a commit. The guard of
  an action comes from the handler's checks, a refusal (401, 409) is the action's absence
  or a return to idle. What a transaction wrote before its commit is part of the commit,
  as no other transaction sees it earlier.
* **Row and index locks** that outlive an action are read off the steps of the requests
  that hold them (`TokenLocked`, `UserRowLocked`, `JobLocked`, `UserLocked`).
* `Abort` ends a request anywhere: a disconnect, a crash, an exception. What was
  committed stays, the rest is rolled back, hooks are lost.
* In the **browser** one action is one event handler with the render and the effects that
  follow it. A call is a message with a state: sent, served or refused, answered; `Lose`
  drops it before or after it is served.
* **Time** is a step that may happen at any moment: `Expire`, `TokenExpires`, `LockExpires`,
  `EndSlide`, `SafetyTimer`, `HeroSettles`; in TaskQueue a message in the queue may be received at
  any time; in Onboarding a link that has expired is one that nobody opens.
* **History variables** record what happened for the properties; no guard reads them.
* Operators named `Bug...` are not part of the specifications. Each is the mistake the
  action after it must not make (a dropped lock, a missing check, a swapped order), and
  putting it in the action's place makes TLC report the property listed beside it under
  `mutants` in `PROJECT.json`. They show that each property is about this code.

## 4. The modules

### AccountAuth, SessionStore

One account. `password`, `attempts`, `locked` are columns of its `user` row; `live`,
`used`, `resets` are the tables `refreshtoken`, `usedrefreshtoken`,
`passwordresettoken`; `expired` holds the hashes whose time has passed.

| Handler | Actions |
|---|---|
| `POST /auth/login` | `LoginRead` (SELECT, lockout check, password check), then `RecordFailedAttempt` or `ClearAfterLogin` and `CreateUserTokens` |
| `POST /auth/refresh` | `RefreshReplayed` or `RefreshUnused`; `RefreshHit` or `RefreshMiss`; `RotateFlush`, `RotateCommit`; `DropExpired`; on a replay `NukeStatement`, `NukeCommit` |
| `POST /auth/logout` | `LogoutRead`, `LogoutCommit` |
| `POST /auth/password` | `ChangeRead`, `ChangeStatement`, `ChangeCommit` |
| `POST /auth/forgot-password`, `/reset-password` | `ForgotRead`, `ForgotCommit`; `ResetRead`, `ResetStatement`, `ResetCommit`, `ResetHook` |

A revocation is two actions because a `DELETE` under READ COMMITTED chooses its rows
when it starts: tokens committed between `NukeStatement` and `NukeCommit` survive. They are
`raced`, and so are their heirs, until a later revocation chooses their rows: a session that
one revocation has overlooked is not excused from the next. A
password change flushes its UPDATE of the user first, so from `ChangeStatement` to
`ChangeCommit` it also holds the user row.

`SessionStore` is the abstract promise: tokens are handed out once, exchanged or ended at
most once, and an exchange yields one successor. `AccountAuth` implements it with
`issued <- minted, spent <- consumed` (`StoreRefined`), where `consumed` is a history
variable: the tokens that a committed refresh or logout presented. It is not the table
`used`, whose expired records the code means to clean up; the promise is that no token is
exchanged again, whether or not its record is still there.

| Property | What it says, and why it is not obvious |
|---|---|
| `TypeOK` | also: the failure count is always below the threshold, every stored token was handed out (proved only) |
| `SingleExchange` | a refresh token has one successor, although nothing locks the row that two rotations read; the unique index on the used record decides |
| `LiveNotUsed` | no committed state has a token both exchangeable and recorded as used (proved only) |
| `RevocationHolds` | after a replay, change or reset, only sessions that overlapped the revocation rest on an older credential |
| `GuessBudget` | at most `MaxAttempts - 1 + \|Requests\|` wrong passwords are compared between two openings of the account |
| `RequestsEnd` | no set of requests waits for each other's locks for ever |
| `StoreRefined` | the tables implement `SessionStore`: whatever is recorded, deleted and expired in between, no token is exchanged twice |

### Onboarding

One email address. `User.email` and `CandidateProfile.email` are unique, so there is at
most one `user` row and one `profile`; a row deleted and inserted again is told from the
old one by its key. `token` are the activation tokens of the user, `invite` the invites
sent to the address, `link` the secret in the last email of an invite.

| Handler | Actions |
|---|---|
| `POST /auth/candidate/register` | `RegisterRead`, `RegisterStatement` (INSERT, or the UPDATE that takes the row lock; then the SELECT of the stale tokens), `RegisterCommit` |
| `POST /api/public/jobs/{id}/apply` without a session | `ApplyRead`, `ApplyStatement`; with a password it goes on as a registration |
| `POST /auth/candidate/resend-activation` | `ResendRead`, `ResendSelect` (the limit, the stale tokens), `ResendCommit` |
| `POST /auth/activate` | `ActivateRead`, `ActivateCommit` |
| deletion or purge of the profile | `EraseProfile` |
| `/api/admin/companies/invite(s)` | `InviteRead`, `InviteCommit`; `RevokeRead`, `RevokeCommit`; `ReinviteRead`, `ReinviteCommit`; `DropInvite` |
| `POST /auth/register` | `EnrollRead` (validates the link), `EnrollInsert`, the uploads, `MarkInvite`, `EnrollCommit` |
| approve, reject, delete a company | `ApproveRead`, `ApproveSelect`, `ApproveCommit`; `RejectRead`, `RejectCommit` |

An UPDATE of a row that is gone, a second INSERT and a token whose user is gone roll the
request back, a DELETE of a missing row does not.

| Property | What it says, and why it is not obvious |
|---|---|
| `PendingHasLink` | a pending candidate always has a link: whoever deletes the old ones inserts the new one in the same transaction, and a resend over its limit does neither |
| `LinkMatchesPassword` | the usable link of a registration is that of the stored password, because the stale links are selected only after the password has locked the row |
| `LinksOverlap` | two usable links come only from overlapping requests: a resend and an approval lock nothing |
| `ActiveHasProfile` | activation links or creates the profile, or fails; an application, an erasure or another activation in between never leaves an active candidate without |
| `InviteSpent` | the link a company registered with is closed, although an admin may revoke the invite, send it again or delete it while the files upload |

### Recruitment, ApplicationBook

One posting and its applications: `job`, `status`, `owner` are columns, a deleted row
is `"deleted"`, an id not yet used `"unborn"`. Two postings share no row on which a
handler decides, so one is enough. An UPDATE of the ORM is by primary key and names only
columns that differ from what was read, which `WriteJob` and `SetCommit` keep; an update
of one missing row fails (`StaleDataError`), of several rows it skips the missing ones,
and both make `CloseCommit` what it is.

| Handler | Actions |
|---|---|
| apply | `ApplyRead`, `ApplyCheck`, `Insert` (foreign key and unique index at the commit) |
| withdraw | `WithdrawRead`, `WithdrawCommit` |
| set status | `SetRead`, `SetCommit`, `Regret` (the hook) |
| delete an application | `DeleteApplication` |
| approve, reject | `ApproveRead`, `ApproveCommit`; `RejectRead`, `RejectCommit` |
| update, close | `UpdateRead`, `UpdateCommit`; `CloseFlush`, `CloseSelect`, `CloseCommit`, `Notify` (one hook per application) |
| delete a job | `RemoveRead`, `RemoveCommit` (company); `DeleteRead`, `DeleteCommit` (admin) |

| Property | What it says, and why it is not obvious |
|---|---|
| `TypeOK` | also: no application outlives its job (proved only) |
| `OneApplication` | never two applications of one candidate that are not withdrawn: not by applying twice at once, and not when a decision overwrites a withdrawal after which the candidate applied again |
| `NoticeEarned` | each closure of an application sends at most one email, also when several admins close at once: the flushed UPDATE of the job row is what serialises the cascades |
| `WithdrawalHolds` | a withdrawal that no decision in flight had overtaken stays |
| `RegretCommitted` | a rejection email follows a committed rejection (proved; TLC checks it as a part of `BookRefined`) |
| `BookRefined` | the handlers implement `ApplicationBook`, in which each operation happens at once: a decision or a closing written over a row that was deleted, withdrawn for good or replaced in the index meanwhile changes nothing, and nothing returns from a deletion |

`ApplicationBook` has the columns and the emails of Recruitment and none of its requests,
locks and cascades. It leaves out two things the code does not keep (section 6): that an
application reaches only a published posting, and that a withdrawal overtaken by a decision
stays.

### ResumeFiles

The files of one candidate: `files` are the objects in storage, `resume` and `snapshot` the
keys in the profile and in each application. An upload and a deletion happen in storage at
once and stay when the transaction around them fails (`Abort`); a key is a fresh uuid4.

| Handler | Actions |
|---|---|
| `POST /api/jobs/{id}/apply` | `ApplySaved` (sends the profile's key), `ApplyUpload`, `ApplyFind`, `ApplyCommit` |
| activation of an account | `Activate` (the profile adopts the key of an application) |
| `POST /api/candidate/me/resume` | `ReplaceRead`, `ReplaceUpload`, `ReplaceDiscard` (of the old file), `ReplaceCommit` |
| `DELETE /api/candidate/me/resume` | `RemoveRead`, `RemoveDiscard`, `RemoveCommit` |
| `PATCH /api/candidate/me/applications/{id}` | `EditRead`, `EditUpload`, `EditCommit`, `EditDiscard` |
| decisions and deletion of an application | `Engage`, `DeleteApplication` |
| deletion or purge of the candidate, admin's update | `EraseRead`, `PurgeRead`, `EraseDiscard`, `EraseCommit`; `ClearByAdmin` |

| Property | What it says, and why it is not obvious |
|---|---|
| `OwnFileKept` | the file of an application is lost only if the profile has had the same key, although edits, replacements and purges delete by keys they read earlier |
| `ProfileFileKept` | the file of the profile is lost only if an application has had the same key, or a request failed between the deletion in storage and its commit |

### TaskQueue, AtLeastOnce, DataExport

`TaskQueue` is SQS (external) with the loop of `worker.py`: `Enqueue`, `Receive` (up to
`Batch` messages under one timeout), `Take`, `Handled`, `Raised`, `Crash`, `DeadLetter`.
`DataExport` adds what two tasks do on it: `RequestExport`, `EnqueueExport` (the hook);
`Dispatch`, `Guard`, `Build`, `Notify`, `SendMail`, `CountMail`, `Acknowledge`, `Fail`,
`WorkerDies`; `OpenLink`, `Serve`, `FetchFails`, `Expire` for the download.
`AtLeastOnce` is what `docs/ARCHITECTURE.md` promises of the queue, without messages,
receipts or workers: an accepted task is settled only with or after an execution that
reached its end, or is given up and kept.

| Property | What it says, and why it is not obvious |
|---|---|
| `LinksLead` | every link mailed, queued or dead is that of a committed export |
| `ActiveOverlap` | two exports are pending at once only if neither was committed when the guard of the other looked |
| `TasksCarried` | the queue implements `AtLeastOnce`, in spite of exceptions, crashes, stale receipts and a batch that outlives its timeout |
| `TasksSettle` | every message leaves the queue, acknowledged or dead |

### BrowserSession

Documents (tabs) that share `token` (localStorage) and `cookie`; the server is
`SessionStore`. `LoadDocument` with the probe of AuthContext, `ProbeOk`/`ProbeRefused`,
`SafetyTimer`; `SendCall`, `CallEnds`, `Unauthorised` (the interceptor: whatever
the 401 was for, queue behind a refresh or start one), `RefreshOk` (drain), `RefreshRefused` (leave for the login page);
`Login...`, `Logout...`; `GuardRedirect`, `LoginRedirect`, `Go`, `Unload`; the server's
`ServeRefresh`, `ServeLogin`, `ServeLogout`; `Lose`, `TokenExpires`. Roles are left out. The
specification is `BrowserSpec` and its names are apart from those of AccountAuth, so that one
module can prove about both.

| Property | What it says, and why it is not obvious |
|---|---|
| `QueueServed` | a call that waits in `refreshQueue` has a refresh under way, or its page is being replaced |
| `ReplayExplained` | a refresh token is presented twice, which costs every session, only where two documents, a logout, a reload or a lost answer meet; one document with its probe and its interceptor never does it |
| `GuardsUnblock` | the guards stop waiting although the server may never answer the probe |
| `CallsSettle` | every call comes back to its page or is dropped with it |

### AdminLists

One page is on screen (`jobs`, `applications`, `candidates`, the three tabs of
`companies`, `companyJobs`, `board`): the list of `useInfiniteList` with its one request
(`Reset`, `Scroll`, `Retry`, `ListAnswer`, `ListFail`), dialogs over copies of rows
(`OpenDetail`, `OpenForm`, `OpenJob` and the address, `OpenNotes`, `Ask`, `OpenCreate` with
what closes them and the discard prompt), calls (`Save`, `SaveNotes`, `Confirm`, `Approve`,
`RowDeed`, `Create...`), the server (`ServeList`, `Serve`, `Elsewhere`, `Lose`) and what an
answer does to list, dialogs and buttons (`Succeed`, `Fail`). What sorting and filtering
give is the set of sequences in that order, of which there is one. Rows still to be created
have the highest identifiers, as the database hands them out (`ListsAssumption`). Another page, and another tab of `companies`, starts with an empty
list (`Remount`, `SwitchTab`, both `StartAfresh`); a tab switch keeps the page and with it
the dialog that creates a company, which lives above the tabs. The browser's own "back"
reaches the page under an open dialog too (`Remount`, `PopState`).

| Property | What it says, and why it is not obvious |
|---|---|
| `TypeOK` | also: one list request at a time, no indicator without it, no tidy row twice |
| `AgreesWhenQuiet` | with nothing under way every row shown is the server's row, unless answers raced or somebody else wrote it |
| `OwnText` | what one row's dialog holds never reaches another row, the notes dialog apart |
| `Settles` | every indicator ends and every disabled button comes back |

A row is tidy until two calls about it, or a call and a request that reads it, are under way
together, a confirmation is opened on it during another call, an answer about it is lost, or
somebody else changes it. `TypeOK` and `AgreesWhenQuiet` are about tidy rows: the answers of
the others are applied in the order in which they come.

### SalaryRange, JobFilters

`SalaryRange` holds the pure part: bounds of the jobs at hand, the range in force within
them, the slider's thumbs, the two fields of the job form. `JobFilters` applies filters to
the rows loaded so far on the four pages that have them: `Type`, `TypeHero` and the
debounces `QuerySettles`, `HeroSettles`; `PickLocation`, `MoveThumb`, `ResetSalary`,
`PickFeatured`, `PickCompany`, `PickJob`, `RemoveChip`, `Clear`, `Toggle`; pages that
arrive or fail; the board's address, `Remount`, `FollowLink`, `Back`. The specification is
`FiltersSpec`, its names apart from those of ApplyWizard, with which it shares a module of
proofs.

| Property | What it says, and why it is not obvious |
|---|---|
| `ClearedShowsAll` | after "clear filters" every row is shown, those of later pages under other bounds included |
| `HiddenExplained` | a row is hidden only if a chip names the reason |
| `UrlRestores` | a reload shows the same rows, although the range is written to the address only while it is active |
| `RangeInBounds` | the range in force is an interval within the bounds (proved only) |

### ApplyWizard

The wizard of three steps, its consents and the offer of an account
(`HandleChange`, `HandleBlur`, `PickResume`, `ClearResume`, `ToggleConsent`, `ToggleClaim`,
`HandleNext`, `HandleBack`, `JumpTo`, ...), the prefill (`ProfileArrives`, `ProfileFails`,
`SessionEnds`), `ProbeAnswers` of AuthContext, `Submit`, the server's `Serve` with its
verdict, `Answer`, `Lose`; meanwhile the session ages, another tab signs in or out and the
job, the application and the profile change.

The server looks for a profile by its email, and for an account by the account's. `holder`
says whose profile has an address, and `UpdateCandidate` is the admin's edit, which gives a
profile another address and leaves the account its own; a request that is served meanwhile
is `strayed`. A stored name has 1 to 255 characters and the form wants 2 to 100: `"unfit"` is
a name that only a profile can bring.

| Property | What it says, and why it is not obvious |
|---|---|
| `StepsBehindValid` | the form never stands past an invalid step, however the visitor went back, broke a field and jumped, and whenever the profile arrived; a name the profile brought is the one thing that may be wrong |
| `SentWasComplete` | what is sent was complete for the visitor the page showed |
| `ResumeRefusalExplained` | a candidate the server knows is refused for want of a résumé only if it was deleted while the page was open |
| `AccountOwnsItsRecord` | an application goes to the profile of the account that sent it, and nobody else adds one to it, as long as the profile has the account's email |
| `WaitsForItsRequest` | the form waits exactly while its one request is under way |
| `SubmitSettles` | a submission ends |

### Triage

The queue loaded page by page (`LoadPage`, `LoadFail`, `Reload`), decisions shown before
they are stored (`Decide`, `Retract`, `Undo`, `ClearDecision`, `DismissToast`), updates as
messages (`Arrive`, `Lose`, `RollBack`, `Answer`, `Withdraw`), the carousel (`SlideTo`,
`EndSlide`, `EndSwap`, `JumpTo`, `TouchStart`, `TouchMove`, `TouchEnd`), the résumé viewer.

| Property | What it says, and why it is not obvious |
|---|---|
| `UndoPointsAtDecision` | the toast never offers to take back what the screen shows as undecided |
| `AgreesWhenQuiet` | view and server agree on every application handled one update at a time |
| `ArmedSlideEnds` | a slide whose timer was set ends, whatever keys, chips and fingers do |

## 5. The runs

| Run | Instance | Shows |
|---|---|---|
| `auth_sessions` | 2 requests, 3 tokens, 2 passwords, 1 reset link, threshold 2; login, refresh, forgot, reset | `SingleExchange`, `RevocationHolds`, `GuessBudget`, `StoreRefined` |
| `auth_locks` | 2 requests, 2 tokens, no symmetry, `FairSpec` | `RequestsEnd` |
| `recruit_jobs` | 3 requests at a time, 5 in all, 2 applications, 2 candidates, every endpoint | `OneApplication`, `NoticeEarned`, `WithdrawalHolds`, `BookRefined` |
| `onboarding` | 3 requests at a time, 6 in all, 3 tokens, 2 invites, every endpoint | the five properties of Onboarding |
| `resumes` | 2 requests, 2 applications, 3 keys, every endpoint | `OwnFileKept`, `ProfileFileKept` |
| `resumes_snapshot` | as `resumes` | violates `SnapshotKept` (section 6) |
| `exports` | 2 workers, 2 messages received at most twice, 2 requests, 2 exports, `FairSpec` | the four properties of the queue and the export |
| `browser` | 2 tabs, 2 calls of one of them, 2 requests under way, 2 acts of users, `FairBrowserSpec` | the four properties of BrowserSession |
| `lists` | each page in turn, 3 rows of which one is created, pages of one row, 3 or 4 acts, `FairSpec` | `TypeOK`, `AgreesWhenQuiet`, `OwnText`, `Settles` |
| `filters` | 4 pages with filters, 4 rows in 3 pages, 4 acts | `ClearedShowsAll`, `HiddenExplained`, `UrlRestores` |
| `apply` | 5 events, 2 applications sent, with fairness | the six properties of ApplyWizard |
| `triage` | 2 applications on 2 pages, 2 updates, the screen opened twice, `FairSpec` | the three properties of Triage |

The types (`TypeOK`, in BrowserSession `BrowserTypeOK`, in JobFilters `FiltersTyped`) of
every module but AdminLists say no more than types, or what a theorem says, and are in no
run; added to the INVARIANTS of a run of its module they hold.

**Bounds.** In Recruitment and Onboarding three requests at a time are two that race and a
third that interferes with the winner (an application after a withdrawal, a closing behind
a closing, an erasure between the halves of an activation). AccountAuth has two at a time:
its slots are used again, so the replay of a rotated token or a login after a reset begins
when one of the two is over, and its five theorems are for any number. Tokens are never
reused, so their number bounds the logins and rotations of a behaviour: two give a parent
and its heir, three add the heir of an heir or a second session. One
reset token already meets a racing twin of itself and two passwords tell right from wrong.
`MaxAttempts = 2` reaches the threshold with requests to spare; where lockout is not the
question it is the code's 5, and no wrong password exists. `ResetLimit` is 1 where a second
link would add nothing. Recruitment and Onboarding start at most `Budget` requests: five
suffice for apply, withdraw, apply again, decide and close, six for invite, enroll, approve,
activate and two that interfere. Three activation tokens are the link of a registration and
the two of requests that overlap; two invites are a revoked one and its successor. In
`resumes` two applications and the profile may share one key of three, the other two being
an upload under way and the file it is to replace.

`exports`: a message received twice is the redelivery, `MaxReceives = 2` then makes the
dead letter, and `Batch = 2` is the message that waits in a batch while its timeout ends.
`browser`: two requests under way are a refresh and the probe of the second tab or a logout;
the second call is the one that queues behind the refresh of the first. A third, the probe
beside a refresh and a logout, leaves no time for the liveness properties; with it
`browser_three.cfg`, which is run by hand, checks the two invariants, and the theorems prove
them for any number. `lists`: a
page of one row makes three rows three requests, with a creation before or behind the
cursor. `filters`: the first page gives no salary bounds, the second some, the third widens
them. `apply`: `Budget` counts what the visitor chooses and what happens elsewhere; a step
that only completes the form, such as the next field of a form already begun, is not
counted, so that five events meet a form that is sent. `triage`: two updates under way are
what a server may store in the other order.

Every other quantity is finite by itself. The theorems need none of these bounds.

**Symmetry** is used in safety runs only; no module distinguishes requests, tokens,
passwords, invites, applications or candidates among themselves.

**Deadlock** checking is off: a behaviour stops when its tokens or its budget are spent.
Waiting in a circle is what `RequestsEnd` excludes, and a page or a queue that waits for
ever is what the liveness properties exclude.

**Fairness.**

* AccountAuth: `FairSpec` gives each request strong fairness of its server steps. Weak
  fairness would not do: a request that waits for a row lock is disabled each time another
  takes it. PostgreSQL queues the waiters of a lock, so a request that can proceed again
  and again does proceed, and the event loop runs every task that is ready. Nothing is
  assumed of clients, clocks and crashes. The pool of connections is not part of the
  module, so `RequestsEnd` is about locks only.
* DataExport: weak fairness of "some worker works" and of "the broker redelivers or
  buries": a worker polls in an endless loop and is restarted when it dies, and SQS ends
  each visibility timeout. Nothing says that a task succeeds.
* BrowserSession: timers fire, a document that is told to navigate does, a call is
  answered, and the refresh of a document that still exists is answered. The probe may
  stay without an answer: `GuardsUnblock` is about the timer that covers this.
* AdminLists, ApplyWizard: requests are served or fail and their answers are handled,
  which the browser's own timeout gives at the latest. Users owe nothing.
* Triage: timers fire (`setTimeout`); nobody is obliged to press a key.

## 6. Where the code and what is said of it differ

Each of these properties is what a comment, a docstring or a document states, and TLC
finds a behaviour of the code that breaks it. Only `SnapshotKept` is in the list of runs:
it takes no race to lose what a company received, and it is lost for good. The
others are checked by hand (section 9): with the configuration named, or, where the first
column names a run, with that run's configuration and the property in place of its own (an
invariant, unless the property is temporal).

| Configuration | Property | What is said | What happens |
|---|---|---|---|
| `resumes_snapshot` | `SnapshotKept` | `src/models.py:508-511` the snapshot "is independent of `CandidateProfile.resume_path`" | applying sends the profile's own key, and a profile without a file adopts the application's; replacing or removing the profile's file deletes the object both name |
| `resumes` | `ErasureComplete` | `docs/INFRASTRUCTURE.md:313` "data is gone" | an erasure deletes the profile's file; a file that only an application had stays in storage, and its key is in no row |
| `exports` | `RedeliverySafe` | `src/core/tasks.py:106` "if a pending export already exists the task is a no-op so SQS redelivery is safe" | the worker dies between the commit of the export and the enqueueing of its email; the redelivered task finds the export pending and does nothing, so the link is never mailed and no other export can be asked for until it expires |
| `exports` | `OneActiveExport` | `src/api/candidate/data_export.py:47` "one active export at a time per user", `docs/API_DESIGN.md:375` | two deliveries both pass the guard, and both insert |
| `exports` | `LinkServedOnce` | `src/api/candidate/data_export.py:74` "marked used so the link is single-use" | two downloads both read the row as unused |
| `auth_reset_leak` | `RevocationComplete` | `src/services/auth/password_reset.py:11` "revokes every refresh token for the user" | a login that checked the old password before the reset stores its session after it |
| `auth_reset_twice` | `ResetTokenSingleUse` | `src/models.py:193` "Single-use password-reset tokens." | two requests with one link both set a password |
| `auth_cleanup` | `ExpiredRecordsCleaned` | `src/services/auth/session.py:112-113` "Expired used-hash records are cleaned up passively here", `src/models.py:135-137` | a token with a used record has no row any more, so the refresh that deletes the expired record goes on to raise, and the 401 rolls the deletion back |
| `recruit_apply` | `ApplyOnlyPublished` | `src/services/public/applications.py:83` "Restrict apply to PUBLISHED jobs only" | the job closes during the upload; the application is inserted |
| `recruit_withdrawn` | `WithdrawnFinal` | `src/services/admin/applications.py:143` "Cannot change status of a withdrawn application" | a decision that read NEW overwrites the withdrawal |
| `recruit_decide` | `DecideOnlyPending` | `src/services/admin/jobs_workflow.py:82` "If job is not pending approval" | one pending job is both approved and rejected |
| `triage` | `UndoneIsNew` | `AdminApplicationsTriagePage.tsx:71` "Every decision is undo-able for 5 seconds" | decision and undo are stored in the other order |
| `triage` | `SlideEnds` | `AdminApplicationsTriagePage.tsx:247` "A safety timeout fires if the event never arrives" | a slide begun by a key on the summary finds no carousel and sets no timer; when a late failure brings the carousel back, the page is stuck |
| `browser_logout` | `LogoutHolds` | `AuthContext.tsx:150` "so guards never see a stale "logged-in" user" | a call answered 401 after the logout cleared the tokens is refreshed with the cookie, which is not yet revoked; the token it stores signs the next page in |
| `apply` | `SavedResumeReused` | `ApplicationPage.tsx:92` "the backend reuses `CandidateProfile.resume_path`" | the access token has expired; the endpoint takes the candidate for an anonymous visitor, refuses for want of a résumé, or because the email is registered, and no refresh is tried |
| `apply` | `ManualEntryPossible` | `ApplicationPage.tsx:254` "The candidate can type their data manually." | the profile could not be loaded, and the email field of a candidate is read-only and empty |
| `apply` | `SavedSuffices` | `ApplicationPage.tsx:135` "both satisfy the "every live application has a resume" backend rule" | a file that is refused, or a "next" pressed before the profile arrived, leaves an error that the saved résumé does not clear |
| `apply` | `ClaimTold` | `ApplicationPage.tsx:82`, `SuccessScreen.tsx:28` | the visitor turns out to be a candidate after ticking the box; nothing is claimed and the page says an account was created |
| `apply` | `StepsNeverSkipped` | `ApplicationPage.tsx:331`, where a jump ahead validates what it passes, lest the candidate "skip past the invalid state" | the profile arrives at step 2 or 3 with a name of 1 or more than 100 characters, which replaces the one that was typed (`ApplicationPage.tsx:244`); sending goes back to step 1 |
| `apply_moved` | `OwnProfileFound` | `src/services/public/applications.py:66-69` "sync any updated identity fields onto the candidate's existing profile" | an admin has given the profile another email; the profile is looked up by the account's, a second one is created and linked to the account, which the unique `user_id` refuses |
| `apply` | `StrangersKeptOut` | `src/services/public/applications.py:63-64` "rejected upfront" if the email is an active candidate's, `docs/API_DESIGN.md:497-498` | after the same edit, an application without a session that names the profile's new email passes the check, which is of the accounts' emails, and is added to the active candidate's profile |
| `lists_notes` | `NotesOwned` | `ApplicationStatusDialog.tsx:47` "Re-seed form fields whenever the target application changes." | the notes dialog has no such effect for a row opened while it stays mounted: the text of the last row is saved to this one |
| `lists_edits` | `EditsKept` | the prompt "discard changes?" of the dialogs | an answer that replaces the row of the open dialog seeds its fields again |
| `lists_filter` | `FilterShown` | the status tabs | a filter changed while a page is under way is dropped with the request that should load it, and the list stays that of the other filter |
| `filters_comma` | `UrlRestores` | `JobBoardPage.tsx`: the address restores the filters | a location with a comma in its name comes back as two |
| `filters` | `LockHasDrawer` | `JobBoardPage.tsx:49` "Lock body scroll while the mobile filter drawer is open." | the error view replaces the drawer, and the page stays locked |

Noticed on the way, and part of the modules:

* Onboarding: a registration that read an inactive account may overwrite the password of
  one that was activated meanwhile; a rejection that read an inactive company deletes one
  activated meanwhile; two approvals leave two links, after which approvals and logins of
  the account raise; `list_invites` marks invites as expired and never commits it.
* Filters: "reset" stores the bounds of the moment as a range, so rows of later pages
  outside of them are hidden (with a chip); the view without results unmounts the sentinel
  of the list, so pages that would match are never loaded; the debounce of the hero can
  set a text again that was just cleared; "back" changes the address and not the filters;
  the candidates' filter by company knows the first hundred applications only.
* Job form: a typed maximum may be stored above the form's upper bound; what is shown is
  not (`FormFieldOrdered`).
* Application form: a `.doc` passes the page and is refused by the server; a profile that
  arrives late overwrites a name and a phone number already typed.
* Lists: the section of closed applications offers a status update for withdrawn ones.

## 7. The proofs

Each `..._proofs` module extends its component and TLAPS, and proves from the named
assumption of the component (`AccountAuthAssumption`, `RecruitmentAssumption`,
`OnboardingAssumption`, `ResumeAssumption`, `BrowserAssumption`, `TriageAssumption`,
`SalaryAssumption`, `FiltersAssumption`, `ApplyAssumption`, `ListsAssumption`,
`QueueAssumption`, `ExportAssumption`: the "no value" constants are not values, sets of slots
and keys are finite where they are counted, limits are naturals, intervals are ordered, the
identifiers of new rows are above those of old ones, a salary that nobody gave has bounds
that are not negative; salaries themselves are not, by `src/schemas/jobs.py:70`).
`AccountAuth_proofs` is about both sides of a session and extends BrowserSession too;
`PublicPages_proofs` is about the filters of the job board and the application form, and
extends JobFilters and ApplyWizard. One theorem has a hypothesis
of its own: `AddressRestores` assumes that no location holds a comma (`NoComma`), without
which `UrlRestores` is false (`filters_comma`, section 6).

| Module | Theorem | Statement |
|---|---|---|
| `AccountAuth_proofs` | `TypeCorrect` | `Spec => [](TypeOK /\ InFlightOK)` |
| | `SingleUse` | `Spec => [](SingleExchange /\ LiveNotUsed)` |
| | `RevocationCorrect` | `Spec => []RevocationHolds` |
| | `GuessesBounded` | `Spec => []GuessBudget` |
| | `StoreCorrect` | `Spec => StoreRefined` |
| | `BrowserTypes` | `BrowserSpec => []BrowserTypeOK` |
| | `ReplayIsExplained` | `BrowserSpec => []ReplayExplained` |
| | `QueueIsServed` | `BrowserSpec => []QueueServed` |
| `Recruitment_proofs` | `TypeCorrect` | `Spec => [](TypeOK /\ InFlightOK)` |
| | `OneLiveApplication` | `Spec => []OneApplication` |
| | `WithdrawalFinal` | `Spec => []WithdrawalHolds` |
| | `NoticesEarned` | `Spec => []NoticeEarned` |
| | `RegretsCommitted` | `Spec => []RegretCommitted` |
| | `BookKept` | `Spec => BookRefined` |
| `Onboarding_proofs` | `TypeCorrect` | `Spec => []TypeOK` |
| | `PendingKeepsLink` | `Spec => []PendingHasLink` |
| | `LinkIsOfPassword` | `Spec => []LinkMatchesPassword` |
| | `LinksOnlyOverlap` | `Spec => []LinksOverlap` |
| | `ActiveKeepsProfile` | `Spec => []ActiveHasProfile` |
| | `InviteIsSpent` | `Spec => []InviteSpent` |
| `ResumeFiles_proofs` | `TypeCorrect` | `Spec => []TypeOK` |
| | `OwnFilesKept` | `Spec => []OwnFileKept` |
| | `ProfileFilesKept` | `Spec => []ProfileFileKept` |
| `DataExport_proofs` | `LinksCommitted` | `Spec => []LinksLead` |
| | `OverlapOnly` | `Spec => []ActiveOverlap` |
| | `DeliveryCorrect` | `Spec => TasksCarried` |
| `PublicPages_proofs` | `StepsStayValid` | `Spec => []StepsBehindValid` |
| | `AccountKeepsItsRecord` | `Spec => []AccountOwnsItsRecord` |
| | `SentIsComplete` | `Spec => []SentWasComplete` |
| | `RefusalExplained` | `Spec => []ResumeRefusalExplained` |
| | `WaitsExactly` | `Spec => []WaitsForItsRequest` |
| | `FiltersTypes` | `FiltersSpec => []FiltersTyped` |
| | `RangeStaysInBounds` | `FiltersSpec => []RangeInBounds` |
| | `HidingIsExplained` | `FiltersSpec => []HiddenExplained` |
| | `ClearingShowsAll` | `FiltersSpec => []ClearedShowsAll` |
| | `AddressRestores` | `NoComma` implies `FiltersSpec => []UrlRestores` |
| | `FormFieldOrdered` | the job form shows an interval within its bounds, for every stored pair and committed number |
| `AdminLists_proofs` | `ListsTyped` | `Spec => []TypeOK` |
| | `DialogsWriteTheirRow` | `Spec => []OwnText` |
| | `ListsAgree` | `Spec => []AgreesWhenQuiet` |
| `Triage_proofs` | `TypeCorrect` | `Spec => []TypeOK` |
| | `UndoIsOfDecision` | `Spec => []UndoPointsAtDecision` |
| | `ViewAgrees` | `Spec => []AgreesWhenQuiet` |

Hardly any property is inductive as it stands: each speaks of committed rows or of what
is shown, and a step depends on what requests in flight remember. The strengthenings say
what they may rely on.

* **Single use** (`RotationOK`). A flushed rotation holds the index entry alone and
  finds no used record. A token with a used record is not live, so a rotation that is to
  delete an expired record never finds a row and never commits (which is why
  `ExpiredRecordsCleaned` fails); hence a token with a successor is used.
* **Revocation** (`OverlapOK`). A running sweep misses only rows that were issued while
  it ran, and a request whose credential became stale overlapped the revocation. Both are
  marked as racing, and issuing passes the mark on.
* **Guesses** (`BudgetOK`). While the account is open, the guesses compared are at most
  the failures counted plus the failures still to be recorded. A failure that reaches the
  threshold closes the account; after that no guess is compared.
* **Store.** Every step maps to a step of `SessionStore` or to a stutter, by the same
  invariant: what was exchanged or logged out with (`consumed`) has a used record, and what
  has none may still be exchanged.
* **One application.** Every write that can make a row count in the index is guarded by
  the index; a cascade turns rows that count into rows that count, or is refused.
* **Withdrawal** (`SettledOK`). No request in flight has decided on a settled
  application, and none can decide later, for it reads WITHDRAWN.
* **Notices** (`CascadeOK`, `NoticeOK`). One closing holds the job row at a time, so two
  cascades never choose the same rows before either has written them; the emails sent for
  an application and those still owed for it are at most its closures. A cascade that finds
  a chosen row already closed by an admin's decision sends the email which that closure,
  not its own write, has paid for.
* **Regrets** (`RegretOK`). A request about to send has committed its rejection.
* **Book.** Every step is a step of `ApplicationBook` or a stutter, by the same invariants
  and one more: while a closing holds the posting, nobody deletes it (`HeldOK`), so a
  closing never brings a posting back. What a request decided long ago is entered only if
  the row is still there, is not settled (`SettledOK`) and fits the index.
* **Links** (`LinkInv`). One request holds the lock of the user row at a time (`OneLock`),
  and while it is held the user is the one it read, or there is none (`Held`); without a
  user there is no usable link (`NoOrphans`). What a request saw when it selected the stale
  links and is still usable will be deleted by it (`SeenStale`), and a registration, which
  selects under the lock, saw every link of a registration (`RegisteredSeen`). A minting
  thus leaves, beside its own link, only links it cannot have seen.
* **Profile** (`ProfileInv`). An account with a role has a key that is not 0, so the
  profile's owner is never matched by an absent user.
* **Invites** (`InviteInv`). Invites have distinct links, no link exceeds the last one
  handed out, and a registration about to mark an invite holds that of its own link, or
  there is none with it that is open (`Marks`). What another admin does to the invite gives
  it a new link or closes it.
* **Replays** (`BrowserSound`). A cookie in an answer was issued, is not spent, is in no
  other answer and is presented by no request (`AnswersApart`). As long as nothing is to
  blame, no two requests present one cookie (`CookiesApart`), and if the jar still holds a
  spent cookie, the answer that replaces it is under way (`SpentAnswered`). So a request that
  takes the cookie of the jar could repeat it only beside another one that carries it: of
  another document or a logout, which is blamed, or of this document, which has a refresh
  under way only while `isRefreshing` says so and makes no calls while its probe runs with
  the cookie of the jar (`DocsOK`). `BrowserSound` is a predicate of sets of requests and
  tokens, and what adding, ending, answering and orphaning a request does to it is stated
  once for each.
* **Queue** (`PageOK`). A failed refresh replaces the page unless it is the login page, and
  a document on the login page, or without a user, has no calls unless it is being replaced.
* **Files** (`IInv` of ResumeFiles_proofs). The keys that rows and requests hold are ones
  that the profile was offered or an application was sent with (`Traced`); a key that was
  just uploaded has its file and is known to one request (`FreshOwned`); two applications
  share a key only if the profile has had it (`Unshared`); and what an edit is to delete is
  the file of the application it edits alone (`EditOwned`).
* **Exports** (`IInv` of DataExport_proofs). Every export named by a message, a receipt or
  a worker is a committed row, from the commit on (`AllTraced`, `LinksTraced`); what a guard
  knew and did not stop at is used or expired (`KnownOver`).
* **Delivery.** Every step of queue and workers is a step of `AtLeastOnce` or a stutter:
  a message disappears only in the step that follows its task's end, or into the
  dead-letter queue.
* **Wizard** (`IInv` of PublicPages_proofs). Behind step 1 the identity is valid, or wrong
  only in a name the profile brought (`NameAlone`); behind step 2 there is a résumé and no
  error; every way to an edit is on the step it edits.
* **Whose application** (`OwnInv` of PublicPages_proofs). The account's profile has one
  address (`OneAddress`), a request is sent with one (`EmailKnown`) and is stored nowhere
  until it is served. While the profile has the account's address, the check of active
  accounts therefore turns away whatever else would reach it.
* **What was sent** (`SendInv`). The form offers the saved résumé only if the profile has it
  or it was deleted since (`OfferExplained`); a page has at most one request of its own, and
  waits exactly while it is there (`OneMine`, `Waits`).
* **Filters.** The range in force is in bounds because a chosen range is an interval and
  clamping keeps the order; pages and links are arbitrary. A filter that hides a row has a
  chip, case by case; after "clear" nothing is chosen and no debounce has a text to choose
  (`Untouched`). The address of the board is what the filters of the moment write, until a
  link or "back" changes it (`UrlWritten`), and reading it back gives the same filters, with
  the range clamped to the bounds it was cut to.
* **Texts** (`OwnInv`). Every copy of a row, in the list, a page, a dialog or a call, and
  every row of the server has its own text or was given another through the notes; what a
  dialog's fields hold is the text of the row it is open on.
* **Lists** (`ListsInv`). A row is tidy until a call about it is under way together with
  another, with a request that reads it or with a confirmation of another deed, an answer
  about it is lost, or somebody else changes it. A call about a tidy row thus meets nothing
  and finds its page still mounted (`Calm`). Pages, copies, cursors and calls name rows that were created,
  and rows are created in order (`BornInv`), so that a new row is above every cursor. Of a
  tidy row, each copy that the list shows or a call will send has the server's text and
  status, or the call that changed them is stored and its answer still to come; pages come
  in order, so that what a page brings is not in the list (`FreshInv`).
* **Triage** (`IInv` of Triage_proofs). For every application touched by one update at a
  time the screen shows what the update under way has made of it and the server what it was
  before or will be after (`Handled`); off the carousel nothing is offered or sliding, and a
  queue that is being loaded belongs to a screen that has sent nothing (`Parked`).

TLC checks the properties themselves and, for BrowserSession, its strengthening too; the
proofs do the rest. Only model-checked are the liveness properties, which with fairness and
ENABLED are beyond the prover, and the violations of section 6, which are single behaviours.
No module declares a RECURSIVE operator. Induction over data is not needed but once: that a
finite set of identifiers has a greatest one (`LastExists`, for the cursors of Triage and
AdminLists) is proved from a minimal counterexample, which the library's well-foundedness of
strict subsets provides.

## 8. What is not modelled

* ResumeFiles leaves out errors of storage (they are swallowed, and leave an object that no
  row names) and the arbitrary paths an admin's update accepts, which no page sends.
* **Retention.** Which candidates are past the window is one query over dates; a purge may
  choose any candidate who has an application, which is more than the query returns (every
  job closed for long, nobody hired): the properties hold for the wider choice.
* **Connections.** The pool is SQLAlchemy's; that a login or a refresh waits for a second
  connection while it holds one is seen from the code and not modelled.
* AccountAuth takes the account as active. Access tokens are stateless and outlive a
  revocation by their lifetime, which the code accepts. `remember_me` only chooses a
  lifetime, and a lifetime is `Expire`.
* Onboarding is about one address, at which account and profile meet: an admin who moves a
  profile to another address is not in it (for an application that is in ApplyWizard), so
  `ActiveHasProfile` says nothing of an account whose profile was moved. It leaves out the
  company profiles an admin edits, the contract and the files,
  audit rows, and expiry other than "nobody opens the link".
* Recruitment leaves out the candidate profile's own fields, edits of text, notes, audit
  rows, the emails other than the two of its properties, and résumé files, which are
  ResumeFiles. An admin's
  deletion locks applications before the job and a closing the job before the applications;
  PostgreSQL aborts one of them, and the model has the outcome (`Abort`) but not the wait.
* TaskQueue leaves out the purge task, the inline mode of local development and the stop on
  SIGTERM, which finishes the batch first. A crash between a commit and its hooks loses
  the hooks; only the one of the export is a property.
* AdminLists has cursors by identifier; the cursor of the public board by date, with
  featured jobs before it, is left out. BrowserSession leaves roles out. JobFilters takes
  case folding and substring search as a set of words per row.
* Presentation pages, guards, validation, formatting, rendering, configuration and
  deployment, as listed in `PROJECT.json`.

## 9. Running

    tlc -workers 2 -config auth_sessions.cfg MCAccountAuth     (also auth_*.cfg)
    tlc -workers 2 -config recruit_jobs.cfg MCRecruitment      (also recruit_*.cfg)
    tlc -workers 2 -config onboarding.cfg MCOnboarding
    tlc -workers 2 -config resumes.cfg MCResumeFiles           (also resumes_snapshot.cfg)
    tlc -workers 2 -config exports.cfg MCDataExport
    tlc -workers 2 -config browser.cfg MCBrowserSession        (also browser_*.cfg)
    tlc -workers 2 -config lists.cfg MCAdminLists              (also lists_*.cfg)
    tlc -workers 2 -config filters.cfg MCJobFilters            (also filters_comma.cfg)
    tlc -workers 2 -config apply.cfg ApplyWizard               (also apply_moved.cfg)
    tlc -workers 2 -config triage.cfg Triage
    tlapm <module>_proofs.tla, for the eight modules of section 7
