------------------------------- MODULE Recruitment -----------------------------
(***************************************************************************)
(* ONE job posting and the applications to it: approval by an admin,       *)
(* applying, withdrawing, the admin's decisions, closing with its cascade  *)
(* over the active applications, deletion.  (services/{company,admin}/     *)
(* jobs.py, admin/jobs_workflow.py, admin/applications.py,                 *)
(* candidate/applications.py, public/applications.py.)                     *)
(*                                                                         *)
(* The handlers of two postings share no row but the candidate's profile,  *)
(* which none of them makes a decision on, so one job is the whole story.  *)
(* Every handler reads, decides and writes what it decided: an UPDATE by   *)
(* primary key names only the columns that differ from what was read, does *)
(* not look at the row again, and is visible at the commit.  An UPDATE of  *)
(* one row that is gone (StaleDataError) and a write the unique index      *)
(* refuses (IntegrityError) roll the request back.                         *)
(***************************************************************************)
EXTENDS Naturals, FiniteSets

CONSTANTS
    Requests,        \* slots for HTTP requests in flight at the same time
    Applications,    \* primary keys of application rows
    Candidates,
    NoApplication, NoCandidate,
    Operations,      \* the endpoints the clients of this instance call
    Budget           \* bound: how many requests a behaviour starts

ASSUME RecruitmentAssumption ==
    /\ IsFiniteSet(Requests)
    /\ NoApplication \notin Applications
    /\ NoCandidate \notin Candidates
    /\ Operations \subseteq { "apply", "withdraw", "status", "purge", "approve",
                              "reject", "update", "remove", "delete" }
    /\ Budget \in Nat

JobStatus == {"PENDING_APPROVAL", "PUBLISHED", "CLOSED"}
ApplicationStatus ==
    {"NEW", "APPROVED_BY_ADMIN", "REJECTED", "HIRED", "WITHDRAWN", "JOB_CLOSED"}
ActiveStatuses == {"NEW", "APPROVED_BY_ADMIN"}     \* _ACTIVE_STATUSES

VARIABLES
    job,        \* the status of the posting, or "deleted"
    status,     \* the status of each application, or "unborn", "deleted"
    owner,      \* whose application it is
    req,        \* the requests in flight
    served,     \* how many requests have started
    \* History variables: no action reads them to decide what to do.
    closures,   \* how often each application became JOB_CLOSED
    notices,    \* job-closed emails enqueued for each application
    rejected,   \* applications that a commit made REJECTED
    regrets,    \* applications for which a rejection email was enqueued
    settled     \* applications withdrawn while no request had decided to change them

history == <<closures, notices, rejected, regrets, settled>>
vars    == <<job, status, owner, req, served, history>>

-------------------------------------------------------------------------------
Steps ==
    { "idle",
      "applying", "inserting",              \* POST /api/public/jobs/{id}/apply
      "withdrawing",                        \* POST .../applications/{id}/withdraw
      "setting", "regretting",              \* PUT  .../applications/{id}/status
      "approving", "rejecting",             \* POST .../jobs/{id}/approve, /reject
      "updating",                           \* PUT  /api/admin/jobs/{id}
      "closing", "flushed", "cascading", "notifying",  \*   ... closing it
      "removing", "deleting" }              \* DELETE by the company, by an admin

Request ==
    [ step   : Steps,
      app    : Applications \cup {NoApplication},
      cand   : Candidates \cup {NoCandidate},
      old    : JobStatus \cup ApplicationStatus \cup {"none"},  \* the status read
      new    : JobStatus \cup ApplicationStatus \cup {"none"},  \* the one to write
      chosen : SUBSET Applications ]        \* the applications of the cascade

Idle == [ step |-> "idle", app |-> NoApplication, cand |-> NoCandidate,
          old |-> "none", new |-> "none", chosen |-> {} ]

Become(r, record) == req' = [req EXCEPT ![r] = record]

\* A request arrives in slot r.
Begin(r, op, record) ==
    /\ op \in Operations
    /\ req[r].step = "idle"
    /\ served < Budget
    /\ served' = served + 1
    /\ Become(r, record)

Rows == {a \in Applications : status[a] \in ApplicationStatus}

\* uq_application_job_candidate_active: one row per candidate that is not WITHDRAWN.
Indexed(st) == {a \in Applications : st[a] \in ApplicationStatus \ {"WITHDRAWN"}}
IndexAllows(st) == \A a, b \in Indexed(st) : owner[a] = owner[b] => a = b

\* The UPDATE of a closing, flushed before the cascade, locks the job row.
JobLocked(r) == \E q \in Requests \ {r} : req[q].step \in {"flushed", "cascading"}

\* An UPDATE of the job's status by the request r, and what it leaves behind.
WriteJob(r, from, to) ==
    /\ ~JobLocked(r)
    /\ job' = IF job = "deleted" \/ from = to THEN job ELSE to
    /\ Become(r, Idle)
    /\ UNCHANGED <<status, owner, served, history>>

Overwrite(S, st) == [a \in Applications |-> IF a \in S THEN st ELSE status[a]]

\* The rows in S become st: with the history of the two statuses that send email.
WriteStatus(S, st) ==
    /\ status' = Overwrite(S, st)
    /\ closures' = [a \in Applications |->
         IF a \in S /\ st = "JOB_CLOSED" /\ status[a] # st
         THEN closures[a] + 1 ELSE closures[a]]
    /\ rejected' = IF st = "REJECTED" THEN rejected \cup S ELSE rejected

\* A request in flight has read application a and decided to write its status.
Decided(a) == \E q \in Requests : \/ req[q].step = "setting" /\ req[q].app = a
                                  \/ req[q].step = "cascading" /\ a \in req[q].chosen

-------------------------------------------------------------------------------
(* The actions.  An operator whose name starts with Bug is not part of the *)
(* specification: it is the mistake that the action after it must not make.*)

(* Applying.                                                               *)

\* SELECT the job WHERE status = PUBLISHED; nothing else looks at the job again.
ApplyRead(r, c) ==
    /\ job = "PUBLISHED"
    /\ Begin(r, "apply", [Idle EXCEPT !.step = "applying", !.cand = c])
    /\ UNCHANGED <<job, status, owner, history>>

\* After the upload: check_no_blocking_application answers 409, or lets it pass.
ApplyCheck(r) ==
    /\ req[r].step = "applying"
    /\ Become(r, IF \E a \in Indexed(status) : owner[a] = req[r].cand
                 THEN Idle ELSE [req[r] EXCEPT !.step = "inserting"])
    /\ UNCHANGED <<job, status, owner, served, history>>

\* INSERT and commit; what refuses the row rolls the request back.
InsertIf(r, allowed) ==
    /\ req[r].step = "inserting"
    /\ \E a \in Applications :
         /\ status[a] = "unborn"
         /\ IF allowed
            THEN /\ status' = [status EXCEPT ![a] = "NEW"]
                 /\ owner' = [owner EXCEPT ![a] = req[r].cand]
            ELSE UNCHANGED <<status, owner>>
    /\ Become(r, Idle)
    /\ UNCHANGED <<job, served, history>>

\* uq_application_job_candidate_active has no entry for this candidate.
Vacant(c) == \A b \in Indexed(status) : owner[b] # c

BugInsertTwice(r)  == InsertIf(r, job # "deleted")           \* no unique index

Insert(r) == InsertIf(r, job # "deleted" /\ Vacant(req[r].cand))

-------------------------------------------------------------------------------
(* Withdrawing, and the admin's decision on an application.                *)

\* Only a NEW application may be withdrawn.
WithdrawRead(r, a) ==
    /\ status[a] = "NEW"
    /\ Begin(r, "withdraw", [Idle EXCEPT !.step = "withdrawing", !.app = a])
    /\ UNCHANGED <<job, status, owner, history>>

WithdrawCommit(r) ==
    /\ req[r].step = "withdrawing"
    /\ WriteStatus({req[r].app} \cap Rows, "WITHDRAWN")
    /\ settled' = settled \cup {a \in {req[r].app} \cap Rows : ~Decided(a)}
    /\ Become(r, Idle)
    /\ UNCHANGED <<job, owner, served, notices, regrets>>

\* Without the check that the application is withdrawn.
BugSetAnything(r, a, new) ==
    /\ a \in Rows
    /\ Begin(r, "status", [Idle EXCEPT !.step = "setting", !.app = a,
                                       !.old = status[a], !.new = new])
    /\ UNCHANGED <<job, status, owner, history>>

\* Any status to any other, except from WITHDRAWN.
SetRead(r, a, new) ==
    /\ a \in Rows
    /\ status[a] # "WITHDRAWN"
    /\ Begin(r, "status", [Idle EXCEPT !.step = "setting", !.app = a,
                                       !.old = status[a], !.new = new])
    /\ UNCHANGED <<job, status, owner, history>>

\* Enqueues the email although the transaction failed.
BugSetMailsAnyway(r) ==
    LET a == req[r].app
        write == {a} \cap Rows \cap {b \in Applications : req[r].old # req[r].new}
    IN
    /\ req[r].step = "setting"
    /\ WriteStatus(IF IndexAllows(Overwrite(write, req[r].new)) THEN write ELSE {}, req[r].new)
    /\ Become(r, IF req[r].new = "REJECTED" /\ req[r].old # "REJECTED"
                 THEN [req[r] EXCEPT !.step = "regretting"] ELSE Idle)
    /\ UNCHANGED <<job, owner, served, notices, regrets, settled>>

\* Writes the row again that was deleted meanwhile.
BugSetRevives(r) ==
    LET a     == req[r].app
        write == IF req[r].old # req[r].new THEN {a} ELSE {}
        fails == ~IndexAllows(Overwrite(write, req[r].new))
    IN
    /\ req[r].step = "setting"
    /\ WriteStatus(IF fails THEN {} ELSE write, req[r].new)
    /\ Become(r, IF req[r].new = "REJECTED" /\ write # {} /\ ~fails
                 THEN [req[r] EXCEPT !.step = "regretting"] ELSE Idle)
    /\ UNCHANGED <<job, owner, served, notices, regrets, settled>>

\* The UPDATE writes the column only if it differs from the status read.  Bringing
\* back a row withdrawn meanwhile may meet the index entry of a new application.
SetCommit(r) ==
    LET a     == req[r].app
        write == IF req[r].old # req[r].new THEN {a} ELSE {}
        fails == a \notin Rows \/ ~IndexAllows(Overwrite(write, req[r].new))
    IN
    /\ req[r].step = "setting"
    /\ WriteStatus(IF fails THEN {} ELSE write, req[r].new)
    /\ Become(r, IF req[r].new = "REJECTED" /\ write # {} /\ ~fails
                 THEN [req[r] EXCEPT !.step = "regretting"] ELSE Idle)
    /\ UNCHANGED <<job, owner, served, notices, regrets, settled>>

\* The hook after the commit; its failure is logged and swallowed.
Regret(r) ==
    /\ req[r].step = "regretting"
    /\ \/ regrets' = regrets \cup {req[r].app}
       \/ UNCHANGED regrets
    /\ Become(r, Idle)
    /\ UNCHANGED <<job, status, owner, served, closures, notices, rejected, settled>>

\* DELETE /api/admin/applications/{id}: decides nothing on what it reads.
DeleteApplication(r, a) ==
    /\ a \in Rows
    /\ Begin(r, "purge", Idle)
    /\ status' = [status EXCEPT ![a] = "deleted"]
    /\ UNCHANGED <<job, owner, history>>

-------------------------------------------------------------------------------
(* The posting.                                                            *)

\* Both decisions check that the job they read is pending.
DecideRead(r, op, step) ==
    /\ job = "PENDING_APPROVAL"
    /\ Begin(r, op, [Idle EXCEPT !.step = step])
    /\ UNCHANGED <<job, status, owner, history>>

ApproveRead(r) == DecideRead(r, "approve", "approving")
RejectRead(r)  == DecideRead(r, "reject", "rejecting")

ApproveCommit(r) ==
    /\ req[r].step = "approving"
    /\ WriteJob(r, "PENDING_APPROVAL", "PUBLISHED")

\* No cascade: a pending job is taken to have no applications.
RejectCommit(r) ==
    /\ req[r].step = "rejecting"
    /\ WriteJob(r, "PENDING_APPROVAL", "CLOSED")

\* The admin may write any status; PUBLISHED to CLOSED, as read, is a closing.
UpdateRead(r, new) ==
    /\ job \in JobStatus
    /\ Begin(r, "update",
             [Idle EXCEPT !.step = IF job = "PUBLISHED" /\ new = "CLOSED"
                                   THEN "closing" ELSE "updating",
                          !.old = job, !.new = new])
    /\ UNCHANGED <<job, status, owner, history>>

UpdateCommit(r) ==
    /\ req[r].step = "updating"
    /\ WriteJob(r, req[r].old, req[r].new)

\* Chooses the applications without having flushed the job.
BugCloseUnlocked(r) ==
    /\ req[r].step = "closing"
    /\ Become(r, IF job = "deleted" THEN Idle ELSE [req[r] EXCEPT !.step = "flushed"])
    /\ UNCHANGED <<job, status, owner, served, history>>

\* UPDATE job: a second closing waits here until the first has committed.
CloseFlush(r) ==
    /\ req[r].step = "closing"
    /\ ~JobLocked(r)
    /\ Become(r, IF job = "deleted" THEN Idle ELSE [req[r] EXCEPT !.step = "flushed"])
    /\ UNCHANGED <<job, status, owner, served, history>>

\* SELECT the active applications.
CloseSelect(r) ==
    /\ req[r].step = "flushed"
    /\ Become(r, [req[r] EXCEPT
           !.step = "cascading",
           !.chosen = {a \in Applications : status[a] \in ActiveStatuses}])
    /\ UNCHANGED <<job, status, owner, served, history>>

\* Writes them and commits with the job.  Of several rows those that are gone are
\* skipped; a single one that is gone is an error.
CloseCommit(r) ==
    LET chosen == req[r].chosen
        write  == chosen \cap Rows
        fails  == \/ \E a \in chosen : chosen = {a} /\ write = {}
                  \/ ~IndexAllows(Overwrite(write, "JOB_CLOSED"))
    IN
    /\ req[r].step = "cascading"
    /\ job' = IF fails THEN job ELSE "CLOSED"
    /\ WriteStatus(IF fails THEN {} ELSE write, "JOB_CLOSED")
    /\ Become(r, IF fails \/ chosen = {} THEN Idle
                 ELSE [req[r] EXCEPT !.step = "notifying"])
    /\ UNCHANGED <<owner, served, notices, regrets, settled>>

\* One hook per application chosen; each may fail on its own.
Notify(r) ==
    /\ req[r].step = "notifying"
    /\ \E a \in req[r].chosen :
         /\ \/ notices' = [notices EXCEPT ![a] = @ + 1]
            \/ UNCHANGED notices
         /\ Become(r, IF req[r].chosen = {a} THEN Idle
                      ELSE [req[r] EXCEPT !.chosen = @ \ {a}])
    /\ UNCHANGED <<job, status, owner, served, closures, rejected, regrets,
                   settled>>

\* The company may delete a pending job, an admin any job.
RemoveRead(r) == DecideRead(r, "remove", "removing")

DeleteRead(r) ==
    /\ job \in JobStatus
    /\ Begin(r, "delete", [Idle EXCEPT !.step = "deleting"])
    /\ UNCHANGED <<job, status, owner, history>>

\* DELETE by primary key; ON DELETE CASCADE takes the applications that are there.
DropJob(r) ==
    /\ ~JobLocked(r)
    /\ job' = "deleted"
    /\ status' = [a \in Applications |-> IF a \in Rows THEN "deleted" ELSE status[a]]
    /\ Become(r, Idle)
    /\ UNCHANGED <<owner, served, history>>

RemoveCommit(r) == req[r].step = "removing" /\ DropJob(r)
DeleteCommit(r) == req[r].step = "deleting" /\ DropJob(r)

\* A disconnect or a crash: the open transaction rolls back, hooks are lost.
Abort(r) ==
    /\ req[r].step # "idle"
    /\ Become(r, Idle)
    /\ UNCHANGED <<job, status, owner, served, history>>

-------------------------------------------------------------------------------
\* create_job makes a pending job, admin_create_job one of any status.
Init ==
    /\ job \in JobStatus
    /\ status = [a \in Applications |-> "unborn"]
    /\ owner = [a \in Applications |-> NoCandidate]
    /\ req = [r \in Requests |-> Idle]
    /\ served = 0
    /\ closures = [a \in Applications |-> 0]
    /\ notices = [a \in Applications |-> 0]
    /\ rejected = {}
    /\ regrets = {}
    /\ settled = {}

Arrive(r) ==
    \/ \E c \in Candidates : ApplyRead(r, c)
    \/ \E a \in Applications : WithdrawRead(r, a) \/ DeleteApplication(r, a)
    \/ \E a \in Applications, new \in ApplicationStatus : SetRead(r, a, new)
    \/ ApproveRead(r) \/ RejectRead(r)
    \/ \E new \in JobStatus : UpdateRead(r, new)
    \/ RemoveRead(r) \/ DeleteRead(r)

Serve(r) ==
    \/ ApplyCheck(r) \/ Insert(r)
    \/ WithdrawCommit(r) \/ SetCommit(r) \/ Regret(r)
    \/ ApproveCommit(r) \/ RejectCommit(r) \/ UpdateCommit(r)
    \/ CloseFlush(r) \/ CloseSelect(r) \/ CloseCommit(r) \/ Notify(r)
    \/ RemoveCommit(r) \/ DeleteCommit(r)

Next == \E r \in Requests : Arrive(r) \/ Serve(r) \/ Abort(r)

Spec == Init /\ [][Next]_vars

-------------------------------------------------------------------------------
(* Properties.                                                             *)

\* The rows and requests have the values they should; no row outlives the job.
TypeOK ==
    /\ job \in JobStatus \cup {"deleted"}
    /\ status \in [Applications -> ApplicationStatus \cup {"unborn", "deleted"}]
    /\ owner \in [Applications -> Candidates \cup {NoCandidate}]
    /\ \A a \in Rows : owner[a] \in Candidates /\ job # "deleted"
    /\ req \in [Requests -> Request]
    /\ served \in Nat
    /\ closures \in [Applications -> Nat]
    /\ notices \in [Applications -> Nat]
    /\ rejected \subseteq Applications
    /\ regrets \subseteq Applications
    /\ settled \subseteq Applications

\* A candidate never has two applications to a job that are not withdrawn: not by
\* applying twice at once, not by an admin or a closing that writes a status over
\* a withdrawal after which the candidate applied again.
OneApplication ==
    \A a, b \in Indexed(status) : owner[a] = owner[b] => a = b

\* The job-closed email is enqueued at most once for each time the application
\* was closed, also when two admins close the job at the same time.
NoticeEarned == \A a \in Rows : notices[a] <= closures[a]

\* A withdrawal that no decision of an admin or a closing had overtaken is final:
\* the application is withdrawn until it is deleted, and its candidate may apply
\* again without ever meeting it.
WithdrawalHolds == \A a \in settled : status[a] \in {"WITHDRAWN", "deleted"}

\* A rejection email is enqueued only for a rejection that was committed.
RegretCommitted == regrets \subseteq rejected

\* The handlers, with their reads, locks and cascades, implement the book of the
\* applications: for candidates and mailboxes each of them happens at once.  A
\* decision or a closing changes no row that is gone or withdrawn for good.
Book == INSTANCE ApplicationBook
BookRefined == Book!BookSpec

-------------------------------------------------------------------------------
(* What the documentation says and the code does not do.                   *)

\* public/applications.py:83: apply is restricted to published jobs.
ApplyOnlyPublished ==
    [][\A r \in Requests : Insert(r) /\ status' # status => job = "PUBLISHED"]_vars

\* admin/applications.py:141: the status of a withdrawn application cannot change.
WithdrawnFinal ==
    [][\A a \in Applications :
         status[a] = "WITHDRAWN" => status'[a] \in {"WITHDRAWN", "deleted"}]_vars

\* admin/jobs_workflow.py:82: a job that is not pending can be neither approved nor
\* rejected.
DecideOnlyPending ==
    [][\A r \in Requests :
         (ApproveCommit(r) \/ RejectCommit(r)) /\ job' # job
           => job = "PENDING_APPROVAL"]_vars
================================================================================
