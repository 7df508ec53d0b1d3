------------------------------ MODULE DataExport ------------------------------
(***************************************************************************)
(* The data export of one candidate: the request, the task that builds the *)
(* archive, the email with its link, and the download that spends the link *)
(* (src/src/api/candidate/data_export.py, services/candidate/              *)
(* data_export.py, core/tasks.py, core/services/email_quota.py), on the    *)
(* task queue with its redeliveries and the crashes of its workers.        *)
(*                                                                         *)
(* An export is a row of data_export_request; it is pending while neither  *)
(* used nor expired.  The guard that reads the pending rows and the commit *)
(* of a new one are transactions of their own, with the build in between.  *)
(***************************************************************************)
EXTENDS TaskQueue

CONSTANTS
  MaxRequests,    \* "3/day", the limit of the endpoint
  MaxExports      \* bound: exports ever built

ASSUME ExportAssumption ==
  /\ MaxRequests \in Nat /\ MaxExports \in Nat
  /\ Tasks = 0 .. MaxExports

\* A task: 0 builds an export, e > 0 mails the link of the export e.
BuildTask == 0
Exports == 1 .. MaxExports

VARIABLES
  rows,        \* the exports, as committed
  used, expired,
  asking,      \* requests between their check and their post-commit hook
  asked,       \* requests of the candidate
  job,         \* the state of the task each worker executes
  inbox,       \* exports whose link the candidate has
  fetching     \* exports of which one or more downloads are under way

export == <<rows, used, expired>>
request == <<asking, asked>>
vars == <<delivered, export, request, inbox, job, fetching>>

\* known: history, the exports that existed when the guard looked.
Row == [id : Exports, known : SUBSET Exports]
Job == [step : {"idle", "guard", "build", "notify", "send", "count", "ack"},
        export : 0 .. MaxExports, known : SUBSET Exports]
Idle == [step |-> "idle", export |-> 0, known |-> {}]

ExportIds == {r.id : r \in rows}
Minted == Cardinality(rows)

TypeOK ==
  /\ QueueTypeOK
  /\ rows \subseteq Row /\ used \subseteq Exports /\ expired \subseteq Exports
  /\ asking \in 0 .. asked /\ asked \in 0 .. MaxRequests
  /\ job \in [Workers -> Job]
  /\ inbox \subseteq Exports /\ fetching \subseteq Exports

Init ==
  /\ QueueInit
  /\ rows = {} /\ used = {} /\ expired = {} /\ asking = 0 /\ asked = 0
  /\ job = [w \in Workers |-> Idle]
  /\ inbox = {} /\ fetching = {}

\* Mutant: the comparison with the time of expiry is the wrong way round.
BugPending == {e \in ExportIds : e \notin used /\ e \in expired}

\* The rows has_pending_export selects; it raises if there are two.
Pending == {e \in ExportIds : e \notin used /\ e \notin expired}

-----------------------------------------------------------------------------
(* POST /api/candidate/me/export                                           *)

\* request_export: refused while an export is pending; the limiter counts it.
RequestExport ==
  /\ asked < MaxRequests /\ asked' = asked + 1
  /\ asking' = IF Pending = {} THEN asking + 1 ELSE asking
  /\ UNCHANGED <<delivered, export, inbox, job, fetching>>

\* Its post-commit hook, whose failure is logged; the answer is 202 all the same.
EnqueueExport ==
  /\ asking > 0 /\ asking' = asking - 1
  /\ \/ Enqueue(BuildTask)
     \/ UNCHANGED <<queue, sent>>
  /\ UNCHANGED <<dead, held, doing, carried, asked, export, inbox, job, fetching>>

-----------------------------------------------------------------------------
(* The tasks.                                                              *)

At(w, step) == doing[w] # None /\ job[w].step = step
Step(w, step) == job' = [job EXCEPT ![w].step = step]

\* _process_message: the registry leads to one task or the other.
Dispatch(w) ==
  /\ \E r \in held[w] :
       /\ Take(w, r)
       /\ job' = [job EXCEPT ![w] =
            [step |-> IF r.task = BuildTask THEN "guard" ELSE "send",
             export |-> r.task, known |-> {}]]
  /\ UNCHANGED <<export, request, inbox, fetching>>

\* build_data_export_task, the guard against redelivery: with a pending export
\* there is nothing to do, and two of them raise.
Guard(w) ==
  /\ At(w, "guard")
  /\ CASE Pending = {} -> /\ job' = [job EXCEPT ![w].step = "build", ![w].known = ExportIds]
                          /\ UNCHANGED delivered
       [] Cardinality(Pending) = 1 -> Step(w, "ack") /\ UNCHANGED delivered
       [] OTHER -> Raised(w) /\ job' = [job EXCEPT ![w] = Idle]
  /\ UNCHANGED <<export, request, inbox, fetching>>

\* Mutant: the notification does not wait for the commit, which fails.
BugBuild(w) ==
  /\ At(w, "build") /\ Minted < MaxExports
  /\ job' = [job EXCEPT ![w].step = "notify", ![w].export = Minted + 1]
  /\ UNCHANGED <<delivered, export, request, inbox, fetching>>

\* build_and_persist_export: the archive is assembled and uploaded, and the row
\* is committed.
Build(w) ==
  /\ At(w, "build") /\ Minted < MaxExports
  /\ rows' = rows \cup {[id |-> Minted + 1, known |-> job[w].known]}
  /\ job' = [job EXCEPT ![w].step = "notify", ![w].export = Minted + 1]
  /\ UNCHANGED <<delivered, used, expired, request, inbox, fetching>>

\* The notification is enqueued; a failure is logged, and the task is done.
Notify(w) ==
  /\ At(w, "notify")
  /\ \/ Enqueue(job[w].export)
     \/ UNCHANGED <<queue, sent>>
  /\ Step(w, "ack")
  /\ UNCHANGED <<dead, held, doing, carried, export, request, inbox, fetching>>

\* send_email_task: the provider accepts the email ...
SendMail(w) ==
  /\ At(w, "send")
  /\ inbox' = inbox \cup {job[w].export}
  /\ Step(w, "count")
  /\ UNCHANGED <<delivered, export, request, fetching>>

\* ... and increment_and_alert counts it in a transaction of its own; the count is
\* read by nobody else.
CountMail(w) ==
  /\ At(w, "count") /\ Step(w, "ack")
  /\ UNCHANGED <<delivered, export, request, inbox, fetching>>

\* The storage, the database or the provider fails, and the task raises.
Fail(w) ==
  /\ \E step \in {"guard", "build", "send", "count"} : At(w, step)
  /\ Raised(w) /\ job' = [job EXCEPT ![w] = Idle]
  /\ UNCHANGED <<export, request, inbox, fetching>>

\* The task is done and its message is acknowledged.
Acknowledge(w) ==
  /\ At(w, "ack")
  /\ Handled(w) /\ job' = [job EXCEPT ![w] = Idle]
  /\ UNCHANGED <<export, request, inbox, fetching>>

\* The worker dies at any point of a task or between two.
WorkerDies(w) ==
  /\ Crash(w) /\ job' = [job EXCEPT ![w] = Idle]
  /\ UNCHANGED <<export, request, inbox, fetching>>

-----------------------------------------------------------------------------
(* GET /api/candidate/me/export/{token}                                    *)

\* download_export: the checks of a link the candidate has; the archive is then
\* fetched from the storage.  A refused download changes nothing.
OpenLink(e) ==
  /\ e \in inbox \cap Pending /\ fetching' = fetching \cup {e}
  /\ UNCHANGED <<delivered, export, request, inbox, job>>

\* The archive has been fetched: the link is marked used and the archive served;
\* other downloads of it may still be under way.
Serve(e) ==
  /\ e \in fetching /\ fetching' \in {fetching, fetching \ {e}}
  /\ used' = used \cup {e}
  /\ UNCHANGED <<delivered, rows, expired, request, inbox, job>>

\* The storage or the commit fails: the link stays good.
FetchFails(e) ==
  /\ e \in fetching /\ fetching' = fetching \ {e}
  /\ UNCHANGED <<delivered, export, request, inbox, job>>

\* DATA_EXPORT_TTL_HOURS have passed.
Expire(e) ==
  /\ e \in ExportIds \ (used \cup expired) /\ expired' = expired \cup {e}
  /\ UNCHANGED <<delivered, rows, used, request, inbox, job, fetching>>

-----------------------------------------------------------------------------
Work(w) ==
  \/ Receive(w) /\ UNCHANGED <<export, request, inbox, job, fetching>>
  \/ Dispatch(w) \/ Guard(w) \/ Build(w) \/ Notify(w) \/ SendMail(w) \/ CountMail(w)
  \/ Fail(w) \/ Acknowledge(w)

\* What SQS does by itself.
Broker(m) ==
  /\ DeadLetter(m)
  /\ UNCHANGED <<export, request, inbox, job, fetching>>

Next ==
  \/ RequestExport \/ EnqueueExport
  \/ \E w \in Workers : Work(w)
  \/ \E w \in Workers : WorkerDies(w)
  \/ \E m \in queue : Broker(m)
  \/ \E e \in Exports : OpenLink(e) \/ Serve(e) \/ FetchFails(e) \/ Expire(e)

Spec == Init /\ [][Next]_vars

\* Some worker runs while there is work, and SQS ends every visibility timeout.
FairSpec ==
  Spec /\ WF_vars(\E w \in Workers : Work(w)) /\ WF_vars(\E m \in queue : Broker(m))

-----------------------------------------------------------------------------
(* Properties.                                                             *)

\* Every link that was or will be mailed is the link of an export: the email is
\* enqueued only after the commit of the row, whatever fails or dies in between.
LinksLead ==
  /\ inbox \subseteq ExportIds
  /\ \A m \in queue \cup dead : m.task # BuildTask => m.task \in ExportIds

\* "at most one unused-and-unexpired export at a time" (docs/API_DESIGN.md:375) is
\* broken only by builds that overlapped: of two pending exports neither had been
\* committed when the guard of the other one looked.
ActiveOverlap ==
  \A a, b \in rows :
    {a.id, b.id} \cap (used \cup expired) = {} => a.id \notin b.known

\* The queue and the workers implement at-least-once execution: no exception,
\* crash, redelivery or stale receipt makes an accepted task disappear undone.
TasksCarried == Delivery!DeliverySpec

\* Every message leaves the queue, acknowledged or dead-lettered.
TasksSettle == \A i \in Ids : (i \in IdsOf(queue)) ~> (i \notin IdsOf(queue))

\* "Idempotent guard: if a pending export already exists the task is a no-op so SQS
\* redelivery is safe" (core/tasks.py:106): when the task does nothing, the link of
\* the pending export was mailed or is on its way (it fails: the worker that built the
\* export died before it enqueued the link).
RedeliverySafe ==
  [][\A w \in Workers : At(w, "guard") /\ job'[w].step = "ack" =>
       Pending \subseteq inbox \cup {m.task : m \in queue \cup dead}
                       \cup {job[v].export : v \in Workers}]_vars

\* "On success the row is marked used so the link is single-use"
\* (api/candidate/data_export.py:74; it fails).
LinkServedOnce == [][\A e \in Exports : Serve(e) => e \notin used]_vars

\* "one active export at a time per user" (api/candidate/data_export.py:47; it fails).
OneActiveExport == Cardinality(Pending) <= 1
=============================================================================
