--------------------------- MODULE DataExport_proofs ---------------------------
(***************************************************************************)
(* What holds of the task queue and the data export for any number of      *)
(* workers, messages, requests and exports.                                *)
(*                                                                         *)
(* LinksLead needs that whatever carries the number of an export -         *)
(* message, receipt, task at hand - carries that of a committed one: the   *)
(* number enters a task only with the commit.  ActiveOverlap needs that    *)
(* what a guard saw was used or expired, which stays so.  TasksCarried     *)
(* needs that every message and receipt is of a task that was accepted.    *)
(***************************************************************************)
EXTENDS DataExport, FiniteSetTheorems, TLAPS

\* A message or receipt of a task that was accepted and, when it mails a link, of an
\* export that was committed.
Traced(m) == m.id \in 1 .. sent /\ (m.task # BuildTask => m.task \in ExportIds)

AllTraced ==
  /\ \A m \in queue \cup dead : Traced(m)
  /\ \A w \in Workers : \A r \in held[w] : Traced(r)
  /\ \A w \in Workers : doing[w] # None => Traced(doing[w])

\* The export at hand is committed, and so is every link the candidate has.
LinksTraced ==
  /\ inbox \subseteq ExportIds
  /\ \A w \in Workers : job[w].step \in {"notify", "send"} => job[w].export \in ExportIds

\* What a guard saw was over.
KnownOver ==
  /\ \A w \in Workers : job[w].known \subseteq used \cup expired
  /\ \A r \in rows : r.known \subseteq used \cup expired

RowsFinite == IsFiniteSet(rows)

-----------------------------------------------------------------------------
(* Types.                                                                  *)

\* Enqueueing keeps the queue well formed.
LEMMA EnqueueType ==
  ASSUME QueueTypeOK, NEW task \in Tasks, Enqueue(task), UNCHANGED <<dead, held, doing, carried>>
  PROVE  QueueTypeOK'
<1>1. sent \in 0 .. MaxMessages /\ sent < MaxMessages /\ sent' = sent + 1
  BY DEF QueueTypeOK, Enqueue
<1>2. sent' \in 0 .. MaxMessages /\ sent' \in Ids
  BY <1>1, QueueAssumption DEF Ids
<1>3. [id |-> sent', task |-> task, receives |-> 0] \in Message
  BY <1>2, QueueAssumption DEF Message
<1> QED
  BY <1>2, <1>3 DEF QueueTypeOK, Enqueue

\* So does receiving.
LEMMA ReceiveType ==
  ASSUME QueueTypeOK, NEW w \in Workers, Receive(w)
  PROVE  QueueTypeOK'
<1>1. PICK batch \in SUBSET {m \in queue : m.receives < MaxReceives} :
        /\ queue' = (queue \ batch) \cup {[m EXCEPT !.receives = @ + 1] : m \in batch}
        /\ held' = [held EXCEPT ![w] = {[id |-> m.id, task |-> m.task] : m \in batch}]
  BY DEF Receive
<1>2. \A m \in batch : m \in Message /\ m.receives < MaxReceives
  BY DEF QueueTypeOK
<1>3. \A m \in batch : [m EXCEPT !.receives = @ + 1] \in Message
  <2> SUFFICES ASSUME NEW m \in batch PROVE [m EXCEPT !.receives = @ + 1] \in Message
    OBVIOUS
  <2>1. m.receives + 1 \in 0 .. MaxReceives
    BY <1>2, QueueAssumption DEF Message
  <2> QED
    BY <1>2, <2>1 DEF Message
<1>4. \A m \in batch : [id |-> m.id, task |-> m.task] \in Receipt
  BY <1>2 DEF Message, Receipt
<1>5. queue' \subseteq Message
  BY <1>1, <1>3 DEF QueueTypeOK
<1>6. held' \in [Workers -> SUBSET Receipt]
  BY <1>1, <1>4 DEF QueueTypeOK
<1> QED
  BY <1>5, <1>6 DEF QueueTypeOK, Receive

\* And the worker's other steps and the broker's.
LEMMA WorkerType ==
  ASSUME QueueTypeOK, NEW w \in Workers,
         (\E r \in held[w] : Take(w, r)) \/ Handled(w) \/ Raised(w) \/ Crash(w)
  PROVE  QueueTypeOK'
<1>1. CASE \E r \in held[w] : Take(w, r)
  BY <1>1 DEF QueueTypeOK, Take
<1>2. CASE Handled(w)
  <2>1. doing[w] \in Receipt
    BY <1>2 DEF Handled, QueueTypeOK
  <2>2. doing[w].id \in Ids
    BY <2>1 DEF Receipt
  <2> QED
    BY <1>2, <2>2 DEF QueueTypeOK, Handled
<1>3. CASE Raised(w)
  BY <1>3 DEF QueueTypeOK, Raised
<1>4. CASE Crash(w)
  BY <1>4 DEF QueueTypeOK, Crash
<1> QED
  BY <1>1, <1>2, <1>3, <1>4

\* A new export has a number of its own range, and the rows stay finite.
LEMMA BuildType ==
  ASSUME TypeOK, RowsFinite, NEW w \in Workers, Build(w)
  PROVE  TypeOK' /\ RowsFinite'
<1>1. Minted \in Nat /\ Minted < MaxExports
  BY FS_CardinalityType DEF Build, Minted, RowsFinite
<1>2. Minted + 1 \in Exports
  BY <1>1, ExportAssumption DEF Exports
<1>3. job[w] \in Job
  BY DEF TypeOK
<1>4. job[w].known \subseteq Exports
  BY <1>3 DEF Job
<1>5. [id |-> Minted + 1, known |-> job[w].known] \in Row
  BY <1>2, <1>4 DEF Row
<1>6. Minted + 1 \in 0 .. MaxExports
  BY <1>1, ExportAssumption
<1>7. [job[w] EXCEPT !.step = "notify", !.export = Minted + 1] \in Job
  BY <1>3, <1>6 DEF Job
<1>8. job' = [job EXCEPT ![w] = [job[w] EXCEPT !.step = "notify", !.export = Minted + 1]]
  BY DEF Build
<1>9. rows' = rows \cup {[id |-> Minted + 1, known |-> job[w].known]}
  BY DEF Build
<1>10. RowsFinite'
  BY <1>9, FS_AddElement DEF RowsFinite
<1>11. QueueTypeOK'
  BY DEF Build, TypeOK, QueueTypeOK, delivered
<1>12. job' \in [Workers -> Job]
  BY <1>7, <1>8 DEF TypeOK
<1>13. rows' \subseteq Row
  BY <1>5, <1>9 DEF TypeOK
<1> QED
  BY <1>10, <1>11, <1>12, <1>13 DEF TypeOK, Build, request

\* A step of a task that touches neither the queue nor the rows.
LEMMA JobType ==
  ASSUME TypeOK, NEW w \in Workers, NEW j \in Job, job' = [job EXCEPT ![w] = j]
  PROVE  job' \in [Workers -> Job]
BY DEF TypeOK

\* What only the worker's job changes of a record.
LEMMA StepType ==
  ASSUME TypeOK, NEW w \in Workers,
         NEW s \in {"idle", "guard", "build", "notify", "send", "count", "ack"}, Step(w, s)
  PROVE  job' \in [Workers -> Job]
<1>1. [job[w] EXCEPT !.step = s] \in Job
  BY DEF TypeOK, Job
<1> QED
  BY <1>1, JobType DEF Step

\* An idle worker has the form of one.
LEMMA IdleType == Idle \in Job
  BY ExportAssumption DEF Idle, Job

\* Every step of a worker keeps the types.
LEMMA WorkType ==
  ASSUME TypeOK, RowsFinite, LinksTraced, NEW w \in Workers, Work(w)
  PROVE  TypeOK' /\ RowsFinite'
<1>1. CASE Receive(w) /\ UNCHANGED <<export, request, inbox, job, fetching>>
  BY <1>1, ReceiveType DEF TypeOK, RowsFinite, export, request
<1>2. CASE Dispatch(w)
  <2>1. PICK r \in held[w] :
          /\ Take(w, r)
          /\ job' = [job EXCEPT ![w] =
               [step |-> IF r.task = BuildTask THEN "guard" ELSE "send",
                export |-> r.task, known |-> {}]]
    BY <1>2 DEF Dispatch
  <2>2. r.task \in 0 .. MaxExports
    BY ExportAssumption DEF TypeOK, QueueTypeOK, Receipt
  <2>3. [step |-> IF r.task = BuildTask THEN "guard" ELSE "send",
         export |-> r.task, known |-> {}] \in Job
    BY <2>2 DEF Job
  <2>4. job' \in [Workers -> Job]
    BY <2>1, <2>3, JobType
  <2>5. QueueTypeOK'
    BY <2>1, WorkerType DEF TypeOK
  <2> QED
    BY <1>2, <2>4, <2>5 DEF TypeOK, RowsFinite, Dispatch, export, request
<1>3. CASE Guard(w)
  <2>1. job' \in [Workers -> Job] /\ QueueTypeOK'
    <3>1. CASE Pending = {}
      <4>1. ExportIds \subseteq Exports
        BY DEF TypeOK, ExportIds, Row
      <4>2. [job[w] EXCEPT !.step = "build", !.known = ExportIds] \in Job
        BY <4>1 DEF TypeOK, Job
      <4>3. Cardinality(Pending) # 1
        BY <3>1, FS_EmptySet
      <4>4. UNCHANGED delivered
        BY <1>3, <3>1, <4>3 DEF Guard
      <4>5. job' = [job EXCEPT ![w].step = "build", ![w].known = ExportIds]
        BY <1>3, <3>1, <4>3 DEF Guard
      <4>6. job' = [job EXCEPT ![w] = [job[w] EXCEPT !.step = "build", !.known = ExportIds]]
        BY <4>5 DEF TypeOK
      <4> QED
        BY <4>2, <4>4, <4>6, JobType DEF TypeOK, QueueTypeOK, delivered
    <3>2. CASE Pending # {} /\ Step(w, "ack") /\ UNCHANGED delivered
      BY <3>2, StepType DEF TypeOK, QueueTypeOK, delivered
    <3>3. CASE Raised(w) /\ job' = [job EXCEPT ![w] = Idle]
      BY <3>3, IdleType, JobType, WorkerType DEF TypeOK
    <3> QED
      BY <1>3, <3>1, <3>2, <3>3 DEF Guard
  <2> QED
    BY <1>3, <2>1 DEF TypeOK, RowsFinite, Guard, export, request
<1>4. CASE Build(w)
  BY <1>4, BuildType
<1>5. CASE Notify(w)
  <2>1. job' \in [Workers -> Job]
    BY <1>5, StepType DEF Notify
  <2>2. job[w].export \in Tasks
    BY ExportAssumption DEF TypeOK, Job
  <2>3. QueueTypeOK'
    <3>1. CASE Enqueue(job[w].export)
      BY <1>5, <2>2, <3>1, EnqueueType DEF Notify, TypeOK
    <3>2. CASE UNCHANGED <<queue, sent>>
      BY <1>5, <3>2 DEF Notify, TypeOK, QueueTypeOK
    <3> QED
      BY <1>5, <3>1, <3>2 DEF Notify
  <2> QED
    BY <1>5, <2>1, <2>3 DEF TypeOK, RowsFinite, Notify, export, request
<1>6. CASE SendMail(w)
  <2>1. job' \in [Workers -> Job]
    BY <1>6, StepType DEF SendMail
  <2>2. job[w].export \in Exports
    BY <1>6 DEF SendMail, At, LinksTraced, TypeOK, ExportIds, Row
  <2> QED
    BY <1>6, <2>1, <2>2 DEF TypeOK, QueueTypeOK, RowsFinite, SendMail, delivered, export, request
<1>7. CASE CountMail(w)
  <2>1. job' \in [Workers -> Job]
    BY <1>7, StepType DEF CountMail
  <2> QED
    BY <1>7, <2>1 DEF TypeOK, QueueTypeOK, RowsFinite, CountMail, delivered, export, request
<1>8. CASE Fail(w) \/ Acknowledge(w)
  <2>1. job' = [job EXCEPT ![w] = Idle] /\ UNCHANGED <<export, request, inbox, fetching>>
    BY <1>8 DEF Fail, Acknowledge
  <2>2. QueueTypeOK'
    BY <1>8, WorkerType DEF Fail, Acknowledge, TypeOK
  <2> QED
    BY <2>1, <2>2, IdleType, JobType DEF TypeOK, RowsFinite, export, request
<1> QED
  BY <1>1, <1>2, <1>3, <1>4, <1>5, <1>6, <1>7, <1>8 DEF Work

\* And every step of the system.
LEMMA TypeStep ==
  ASSUME TypeOK, RowsFinite, LinksTraced, [Next]_vars
  PROVE  TypeOK' /\ RowsFinite'
<1>1. CASE RequestExport
  <2>1. asked' \in 0 .. MaxRequests /\ UNCHANGED <<delivered, export, inbox, job, fetching>>
    BY <1>1, ExportAssumption DEF RequestExport, TypeOK
  <2>2. asking' \in 0 .. asked'
    BY <1>1, ExportAssumption DEF RequestExport, TypeOK
  <2> QED
    BY <1>1, <2>1, <2>2, ExportAssumption
    DEF TypeOK, QueueTypeOK, RowsFinite, delivered, export
<1>2. CASE EnqueueExport
  <2>1. asking' \in 0 .. asked'
    BY <1>2, ExportAssumption DEF EnqueueExport, TypeOK
  <2>2. BuildTask \in Tasks
    BY ExportAssumption DEF BuildTask
  <2>3. QueueTypeOK'
    <3>1. CASE Enqueue(BuildTask)
      BY <1>2, <2>2, <3>1, EnqueueType DEF EnqueueExport, TypeOK
    <3>2. CASE UNCHANGED <<queue, sent>>
      BY <1>2, <3>2 DEF EnqueueExport, TypeOK, QueueTypeOK
    <3> QED
      BY <1>2, <3>1, <3>2 DEF EnqueueExport
  <2> QED
    BY <1>2, <2>1, <2>3 DEF TypeOK, RowsFinite, EnqueueExport, export
<1>3. CASE \E w \in Workers : Work(w)
  BY <1>3, WorkType
<1>4. CASE \E w \in Workers : WorkerDies(w)
  <2>1. PICK w \in Workers : WorkerDies(w)
    BY <1>4
  <2>2. QueueTypeOK' /\ job' \in [Workers -> Job]
    BY <2>1, WorkerType, IdleType, JobType DEF WorkerDies, TypeOK
  <2> QED
    BY <2>1, <2>2 DEF TypeOK, RowsFinite, WorkerDies, export, request
<1>5. CASE \E m \in queue : Broker(m)
  BY <1>5 DEF Broker, DeadLetter, TypeOK, QueueTypeOK, RowsFinite, export, request
<1>6. CASE \E e \in Exports : OpenLink(e) \/ Serve(e) \/ FetchFails(e) \/ Expire(e)
  BY <1>6 DEF OpenLink, Serve, FetchFails, Expire, TypeOK, QueueTypeOK, RowsFinite,
              delivered, export, request
<1>7. CASE UNCHANGED vars
  BY <1>7 DEF vars, TypeOK, QueueTypeOK, RowsFinite, delivered, export, request
<1> QED
  BY <1>1, <1>2, <1>3, <1>4, <1>5, <1>6, <1>7 DEF Next

-----------------------------------------------------------------------------
(* What carries the number of an export.                                   *)

\* What was traced stays so while nothing is forgotten.
LEMMA TracedKept ==
  ASSUME sent \in Nat, sent' \in Nat, sent <= sent', ExportIds \subseteq ExportIds',
         NEW m, Traced(m)
  PROVE  Traced(m)'
BY DEF Traced

\* Where the queue and the receipts are unchanged, only the history may grow.
LEMMA AllTracedKept ==
  ASSUME TypeOK, AllTraced, ExportIds \subseteq ExportIds', UNCHANGED delivered
  PROVE  AllTraced'
<1>1. sent \in Nat
  BY QueueAssumption DEF TypeOK, QueueTypeOK
<1>2. \A m : Traced(m) => Traced(m)'
  BY <1>1, TracedKept DEF delivered
<1> QED
  BY <1>2 DEF AllTraced, delivered

\* A new message is of a new task.
LEMMA EnqueueTraced ==
  ASSUME TypeOK, AllTraced, NEW task \in Tasks, Enqueue(task),
         task # BuildTask => task \in ExportIds,
         UNCHANGED <<dead, held, doing, rows>>
  PROVE  AllTraced'
<1>1. sent \in Nat /\ sent' = sent + 1
  BY QueueAssumption DEF TypeOK, QueueTypeOK, Enqueue
<1>2. ExportIds' = ExportIds
  BY DEF ExportIds
<1>3. \A m : Traced(m) => Traced(m)'
  BY <1>1, <1>2, TracedKept
<1>4. \A m : m = [id |-> sent', task |-> task, receives |-> 0] => Traced(m)'
  BY <1>1, <1>2 DEF Traced, BuildTask
<1>5. queue' = queue \cup {[id |-> sent', task |-> task, receives |-> 0]}
  BY DEF Enqueue
<1>6. \A m \in queue' \cup dead' : Traced(m)'
  BY <1>3, <1>4, <1>5 DEF AllTraced
<1> QED
  BY <1>3, <1>6 DEF AllTraced

\* A receipt says what its message says.
LEMMA ReceiveTraced ==
  ASSUME TypeOK, AllTraced, NEW w \in Workers, Receive(w), UNCHANGED rows
  PROVE  AllTraced'
<1>1. PICK batch \in SUBSET {m \in queue : m.receives < MaxReceives} :
        /\ queue' = (queue \ batch) \cup {[m EXCEPT !.receives = @ + 1] : m \in batch}
        /\ held' = [held EXCEPT ![w] = {[id |-> m.id, task |-> m.task] : m \in batch}]
  BY DEF Receive
<1>2. UNCHANGED <<dead, sent, doing>>
  BY DEF Receive
<1>3. \A m : Traced(m) => Traced(m)'
  BY <1>2 DEF Traced, ExportIds
<1>4. \A m \in batch : /\ m \in Message /\ Traced(m)
  BY DEF AllTraced, TypeOK, QueueTypeOK
<1>5. \A m \in batch : /\ Traced([m EXCEPT !.receives = @ + 1])
                       /\ Traced([id |-> m.id, task |-> m.task])
  BY <1>4 DEF Traced, Message
<1>6. \A m \in queue' \cup dead' : Traced(m)'
  BY <1>1, <1>2, <1>3, <1>5 DEF AllTraced
<1>7. \A v \in Workers : \A r \in held'[v] : Traced(r)'
  <2> SUFFICES ASSUME NEW v \in Workers, NEW r \in held'[v] PROVE Traced(r)'
    OBVIOUS
  <2>1. CASE v = w
    <3>1. held'[v] = {[id |-> m.id, task |-> m.task] : m \in batch}
      BY <1>1, <2>1 DEF TypeOK, QueueTypeOK
    <3> QED
      BY <1>3, <1>5, <3>1
  <2>2. CASE v # w
    <3>1. held'[v] = held[v]
      BY <1>1, <2>2 DEF TypeOK, QueueTypeOK
    <3> QED
      BY <1>3, <3>1 DEF AllTraced
  <2> QED
    BY <2>1, <2>2
<1> QED
  BY <1>2, <1>3, <1>6, <1>7 DEF AllTraced

\* The other steps of a worker take receipts and messages away, or pass them on.
LEMMA WorkerTraced ==
  ASSUME TypeOK, AllTraced, NEW w \in Workers, UNCHANGED rows,
         (\E r \in held[w] : Take(w, r)) \/ Handled(w) \/ Raised(w) \/ Crash(w)
  PROVE  AllTraced'
<1>1. sent' = sent
  BY DEF Take, Handled, Raised, Crash
<1>2. \A m : Traced(m) => Traced(m)'
  BY <1>1 DEF Traced, ExportIds
<1>3. queue' \cup dead' \subseteq queue \cup dead
  BY DEF Take, Handled, Raised, Crash
<1>4. \A v \in Workers : held'[v] \subseteq held[v]
  BY DEF Take, Handled, Raised, Crash, TypeOK, QueueTypeOK
<1>5. \A v \in Workers : doing'[v] = None \/ doing'[v] = doing[v] \/ doing'[v] \in held[v]
  BY DEF Take, Handled, Raised, Crash, TypeOK, QueueTypeOK
<1> QED
  BY <1>2, <1>3, <1>4, <1>5 DEF AllTraced

\* Every step keeps messages, receipts and tasks traced.
LEMMA TracedStep ==
  ASSUME TypeOK, AllTraced, LinksTraced, [Next]_vars
  PROVE  AllTraced'
<1>1. CASE RequestExport
  BY <1>1, AllTracedKept DEF RequestExport, export, ExportIds
<1>2. CASE EnqueueExport
  <2>1. CASE Enqueue(BuildTask)
    <3>1. BuildTask \in Tasks
      BY ExportAssumption DEF BuildTask
    <3> QED
      BY <1>2, <2>1, <3>1, EnqueueTraced DEF EnqueueExport, export
  <2>2. CASE UNCHANGED <<queue, sent>>
    BY <1>2, <2>2, AllTracedKept DEF EnqueueExport, export, ExportIds, delivered
  <2> QED
    BY <1>2, <2>1, <2>2 DEF EnqueueExport
<1>3. ASSUME NEW w \in Workers, Work(w) PROVE AllTraced'
  <2>1. CASE Receive(w) /\ UNCHANGED <<export, request, inbox, job, fetching>>
    BY <2>1, ReceiveTraced DEF export
  <2>2. CASE Dispatch(w) \/ Fail(w) \/ Acknowledge(w)
    BY <2>2, WorkerTraced DEF Dispatch, Fail, Acknowledge, export
  <2>3. CASE Guard(w)
    <3>1. UNCHANGED delivered \/ Raised(w)
      BY <2>3 DEF Guard
    <3> QED
      BY <2>3, <3>1, WorkerTraced, AllTracedKept DEF Guard, export, ExportIds
  <2>4. CASE Build(w)
    BY <2>4, AllTracedKept DEF Build, ExportIds
  <2>5. CASE Notify(w)
    <3>1. CASE Enqueue(job[w].export)
      <4>1. job[w].export \in Tasks /\ job[w].export \in ExportIds
        BY <2>5, ExportAssumption DEF Notify, At, LinksTraced, TypeOK, Job
      <4> QED
        BY <2>5, <3>1, <4>1, EnqueueTraced DEF Notify, export
    <3>2. CASE UNCHANGED <<queue, sent>>
      BY <2>5, <3>2, AllTracedKept DEF Notify, export, ExportIds, delivered
    <3> QED
      BY <2>5, <3>1, <3>2 DEF Notify
  <2>6. CASE SendMail(w) \/ CountMail(w)
    BY <2>6, AllTracedKept DEF SendMail, CountMail, export, ExportIds
  <2> QED
    BY <1>3, <2>1, <2>2, <2>3, <2>4, <2>5, <2>6 DEF Work
<1>4. CASE \E w \in Workers : WorkerDies(w)
  BY <1>4, WorkerTraced DEF WorkerDies, export
<1>5. CASE \E m \in queue : Broker(m)
  <2>1. /\ queue' \cup dead' \subseteq queue \cup dead
        /\ UNCHANGED <<sent, held, doing, rows>>
    BY <1>5 DEF Broker, DeadLetter, export
  <2> QED
    BY <2>1 DEF AllTraced, Traced, ExportIds
<1>6. CASE \E e \in Exports : OpenLink(e) \/ Serve(e) \/ FetchFails(e) \/ Expire(e)
  BY <1>6, AllTracedKept DEF OpenLink, Serve, FetchFails, Expire, export, ExportIds
<1>7. CASE UNCHANGED vars
  BY <1>7, AllTracedKept DEF vars, export, ExportIds
<1> QED
  BY <1>1, <1>2, <1>3, <1>4, <1>5, <1>6, <1>7 DEF Next

\* The number of one more row is one more number.
LEMMA IdsOfUnion ==
  ASSUME NEW S, NEW x
  PROVE  {r.id : r \in S \cup {x}} = {r.id : r \in S} \cup {x.id}
OBVIOUS

\* Where the inbox and the jobs are unchanged, links stay traced.
LEMMA LinksKept ==
  ASSUME LinksTraced, ExportIds \subseteq ExportIds', UNCHANGED <<inbox, job>>
  PROVE  LinksTraced'
BY DEF LinksTraced

\* A worker that changes its job alone, to one without a link or with a traced one.
LEMMA LinksJob ==
  ASSUME TypeOK, LinksTraced, ExportIds \subseteq ExportIds', NEW w \in Workers, NEW j,
         job' = [job EXCEPT ![w] = j], inbox' \subseteq ExportIds',
         j.step \in {"notify", "send"} => j.export \in ExportIds'
  PROVE  LinksTraced'
BY DEF LinksTraced, TypeOK

\* Every step keeps the links traced.
LEMMA LinksStep ==
  ASSUME TypeOK, AllTraced, LinksTraced, [Next]_vars
  PROVE  LinksTraced'
<1>1. CASE RequestExport \/ EnqueueExport \/ (\E m \in queue : Broker(m)) \/ UNCHANGED vars
  BY <1>1, LinksKept DEF RequestExport, EnqueueExport, Broker, vars, export, ExportIds
<1>2. ASSUME NEW w \in Workers, Work(w) PROVE LinksTraced'
  <2>1. CASE Receive(w) /\ UNCHANGED <<export, request, inbox, job, fetching>>
    BY <2>1, LinksKept DEF export, ExportIds
  <2>2. CASE Dispatch(w)
    <3>1. PICK r \in held[w] :
            job' = [job EXCEPT ![w] =
              [step |-> IF r.task = BuildTask THEN "guard" ELSE "send",
               export |-> r.task, known |-> {}]]
      BY <2>2 DEF Dispatch
    <3>2. r.task # BuildTask => r.task \in ExportIds
      BY DEF AllTraced, Traced
    <3>3. inbox' = inbox /\ ExportIds' = ExportIds
      BY <2>2 DEF Dispatch, export, ExportIds
    <3>4. inbox' \subseteq ExportIds'
      BY <3>3 DEF LinksTraced
    <3> DEFINE j == [step |-> IF r.task = BuildTask THEN "guard" ELSE "send",
                     export |-> r.task, known |-> {}]
    <3>5. j.step \in {"notify", "send"} => j.export \in ExportIds'
      BY <3>2, <3>3
    <3>6. job' = [job EXCEPT ![w] = j]
      BY <3>1
    <3> HIDE DEF j
    <3> QED
      BY <3>3, <3>4, <3>5, <3>6, LinksJob
  <2>3. CASE Guard(w) \/ CountMail(w) \/ Notify(w) \/ Fail(w) \/ Acknowledge(w)
    <3>1. inbox' = inbox /\ ExportIds' = ExportIds
      BY <2>3 DEF Guard, CountMail, Notify, Fail, Acknowledge, export, ExportIds
    <3>2. \A v \in Workers : job'[v].step \in {"notify", "send"} => job'[v] = job[v]
      BY <2>3 DEF Guard, CountMail, Notify, Fail, Acknowledge, Step, Idle, TypeOK, Job
    <3> QED
      BY <3>1, <3>2 DEF LinksTraced
  <2>4. CASE Build(w)
    <3>1. ExportIds' = ExportIds \cup {Minted + 1}
      BY <2>4, IdsOfUnion DEF Build, ExportIds
    <3>2. job' = [job EXCEPT ![w] = [job[w] EXCEPT !.step = "notify", !.export = Minted + 1]]
      BY <2>4 DEF Build, TypeOK
    <3> DEFINE j == [job[w] EXCEPT !.step = "notify", !.export = Minted + 1]
    <3>3. j.export = Minted + 1
      BY DEF TypeOK, Job
    <3>4. inbox' \subseteq ExportIds'
      BY <2>4, <3>1 DEF Build, LinksTraced
    <3>5. job' = [job EXCEPT ![w] = j]
      BY <3>2
    <3> HIDE DEF j
    <3> QED
      BY <3>1, <3>3, <3>4, <3>5, LinksJob
  <2>5. CASE SendMail(w)
    <3>1. ExportIds' = ExportIds /\ job[w].export \in ExportIds
      BY <2>5 DEF SendMail, At, export, ExportIds, LinksTraced
    <3>2. inbox' \subseteq ExportIds'
      BY <2>5, <3>1 DEF SendMail, LinksTraced
    <3>3. \A v \in Workers : job'[v].step \in {"notify", "send"} => job'[v] = job[v]
      BY <2>5 DEF SendMail, Step, TypeOK, Job
    <3> QED
      BY <3>1, <3>2, <3>3 DEF LinksTraced
  <2> QED
    BY <1>2, <2>1, <2>2, <2>3, <2>4, <2>5 DEF Work
<1>3. CASE \E w \in Workers : WorkerDies(w)
  <2>1. inbox' = inbox /\ ExportIds' = ExportIds
    BY <1>3 DEF WorkerDies, export, ExportIds
  <2>2. \A v \in Workers : job'[v].step \in {"notify", "send"} => job'[v] = job[v]
    BY <1>3 DEF WorkerDies, Idle, TypeOK
  <2> QED
    BY <2>1, <2>2 DEF LinksTraced
<1>4. CASE \E e \in Exports : OpenLink(e) \/ Serve(e) \/ FetchFails(e) \/ Expire(e)
  BY <1>4, LinksKept DEF OpenLink, Serve, FetchFails, Expire, export, ExportIds
<1> QED
  BY <1>1, <1>2, <1>3, <1>4 DEF Next

-----------------------------------------------------------------------------
(* What a guard saw.                                                       *)

\* A worker that changes its job alone, to one that knows what was over.
LEMMA KnownJob ==
  ASSUME TypeOK, KnownOver, NEW w \in Workers, NEW j,
         job' = [job EXCEPT ![w] = j], j.known \subseteq used \cup expired,
         UNCHANGED export
  PROVE  KnownOver'
BY DEF KnownOver, TypeOK, export

\* A step that leaves what every job knows.
LEMMA KnownKept ==
  ASSUME KnownOver, \A w \in Workers : job'[w].known = job[w].known,
         rows' = rows, used \subseteq used', expired \subseteq expired'
  PROVE  KnownOver'
BY DEF KnownOver

\* Every step keeps that: an export that is over stays over.
LEMMA KnownOverStep ==
  ASSUME TypeOK, KnownOver, [Next]_vars
  PROVE  KnownOver'
<1>1. CASE RequestExport \/ EnqueueExport \/ (\E m \in queue : Broker(m)) \/ UNCHANGED vars
  BY <1>1, KnownKept DEF RequestExport, EnqueueExport, Broker, vars, export
<1>2. ASSUME NEW w \in Workers, Work(w) PROVE KnownOver'
  <2>1. CASE Receive(w) /\ UNCHANGED <<export, request, inbox, job, fetching>>
    BY <2>1, KnownKept DEF export
  <2>2. CASE Dispatch(w)
    <3>1. PICK r \in held[w] :
            job' = [job EXCEPT ![w] =
              [step |-> IF r.task = BuildTask THEN "guard" ELSE "send",
               export |-> r.task, known |-> {}]]
      BY <2>2 DEF Dispatch
    <3> DEFINE j == [step |-> IF r.task = BuildTask THEN "guard" ELSE "send",
                     export |-> r.task, known |-> {}]
    <3>2. j.known \subseteq used \cup expired
      OBVIOUS
    <3>3. job' = [job EXCEPT ![w] = j]
      BY <3>1
    <3> HIDE DEF j
    <3> QED
      BY <2>2, <3>2, <3>3, KnownJob DEF Dispatch
  <2>3. CASE Guard(w)
    <3>1. CASE Pending = {}
      <4>1. ExportIds \subseteq used \cup expired
        BY <3>1 DEF Pending
      <4>2. Cardinality(Pending) # 1
        BY <3>1, FS_EmptySet
      <4>3. job' = [job EXCEPT ![w].step = "build", ![w].known = ExportIds]
        BY <2>3, <3>1, <4>2 DEF Guard
      <4>4. /\ job'[w].known = ExportIds
            /\ \A v \in Workers \ {w} : job'[v] = job[v]
        BY <4>3 DEF TypeOK, Job
      <4>5. UNCHANGED export
        BY <2>3 DEF Guard
      <4> QED
        BY <4>1, <4>4, <4>5 DEF KnownOver, export
    <3>2. CASE Pending # {} /\ Step(w, "ack")
      <4>1. \A v \in Workers : job'[v].known = job[v].known
        BY <3>2 DEF Step, TypeOK, Job
      <4> QED
        BY <2>3, <4>1, KnownKept DEF Guard, export
    <3>3. CASE job' = [job EXCEPT ![w] = Idle]
      <4>1. Idle.known \subseteq used \cup expired
        BY DEF Idle
      <4> QED
        BY <2>3, <3>3, <4>1, KnownJob DEF Guard
    <3> QED
      BY <2>3, <3>1, <3>2, <3>3 DEF Guard
  <2>4. CASE Build(w)
    <3>1. \A v \in Workers : job'[v].known = job[v].known
      BY <2>4 DEF Build, TypeOK, Job
    <3>2. rows' = rows \cup {[id |-> Minted + 1, known |-> job[w].known]}
      BY <2>4 DEF Build
    <3>3. UNCHANGED <<used, expired>>
      BY <2>4 DEF Build
    <3>4. job[w].known \subseteq used \cup expired
      BY DEF KnownOver
    <3> QED
      BY <3>1, <3>2, <3>3, <3>4 DEF KnownOver
  <2>5. CASE Notify(w) \/ SendMail(w) \/ CountMail(w)
    <3>1. \A v \in Workers : job'[v].known = job[v].known
      BY <2>5 DEF Notify, SendMail, CountMail, Step, TypeOK, Job
    <3> QED
      BY <2>5, <3>1, KnownKept DEF Notify, SendMail, CountMail, export
  <2>6. CASE Fail(w) \/ Acknowledge(w)
    <3>1. Idle.known \subseteq used \cup expired
      BY DEF Idle
    <3> QED
      BY <2>6, <3>1, KnownJob DEF Fail, Acknowledge
  <2> QED
    BY <1>2, <2>1, <2>2, <2>3, <2>4, <2>5, <2>6 DEF Work
<1>3. CASE \E w \in Workers : WorkerDies(w)
  <2>1. Idle.known \subseteq used \cup expired
    BY DEF Idle
  <2> QED
    BY <1>3, <2>1, KnownJob DEF WorkerDies
<1>4. CASE \E e \in Exports : OpenLink(e) \/ Serve(e) \/ FetchFails(e) \/ Expire(e)
  BY <1>4, KnownKept DEF OpenLink, Serve, FetchFails, Expire, export
<1> QED
  BY <1>1, <1>2, <1>3, <1>4 DEF Next

-----------------------------------------------------------------------------
(* The inductive invariant and what it implies.                            *)

IInv == TypeOK /\ RowsFinite /\ AllTraced /\ LinksTraced /\ KnownOver

\* At first there is nothing to trace.
LEMMA IInvInit == Init => IInv
<1> SUFFICES ASSUME Init PROVE IInv
  OBVIOUS
<1>1. TypeOK
  BY IdleType, QueueAssumption, ExportAssumption DEF Init, QueueInit, TypeOK, QueueTypeOK
<1>2. RowsFinite
  BY FS_EmptySet DEF Init, RowsFinite
<1>3. AllTraced /\ LinksTraced /\ KnownOver
  BY DEF Init, QueueInit, Idle, AllTraced, LinksTraced, KnownOver
<1> QED
  BY <1>1, <1>2, <1>3 DEF IInv

\* Every step keeps the inductive invariant.
LEMMA IInvStep == IInv /\ [Next]_vars => IInv'
  BY TypeStep, TracedStep, LinksStep, KnownOverStep DEF IInv

\* The inductive invariant holds in every reachable state.
LEMMA IInvHolds == Spec => []IInv
  BY IInvInit, IInvStep, PTL DEF Spec

\* The types hold in every reachable state.
THEOREM TypeCorrect == Spec => []TypeOK
<1>1. IInv => TypeOK
  BY DEF IInv
<1> QED
  BY IInvHolds, <1>1, PTL

\* Every link in the inbox or in a message, dead ones included, is the link of a
\* committed export, whatever fails, dies or is delivered twice.
THEOREM LinksCommitted == Spec => []LinksLead
<1>1. IInv => LinksLead
  BY DEF IInv, LinksLead, AllTraced, Traced, LinksTraced
<1> QED
  BY IInvHolds, <1>1, PTL

\* Two exports are pending at once only when neither was committed when the guard
\* of the other looked.
THEOREM OverlapOnly == Spec => []ActiveOverlap
<1>1. IInv => ActiveOverlap
  BY DEF IInv, ActiveOverlap, KnownOver
<1> QED
  BY IInvHolds, <1>1, PTL

-----------------------------------------------------------------------------
(* Refinement: the queue and the workers keep the promise of at-least-once *)
(* execution.                                                              *)

\* Nothing the abstract queue shows has changed.
Unseen == sent' = sent /\ carried' = carried /\ dead' = dead /\ IdsOf(queue)' = IdsOf(queue)

\* Then the abstract queue stutters.
LEMMA UnseenStutters == Unseen => UNCHANGED Delivery!delivery
BY DEF Unseen, Delivery!delivery, Settled, IdsOf

\* Enqueueing accepts the next task.
LEMMA EnqueueAccepts ==
  ASSUME TypeOK, NEW task, Enqueue(task), UNCHANGED <<dead, carried>>
  PROVE  Delivery!DeliveryNext
<1>1. sent \in Nat /\ sent < MaxMessages /\ sent' = sent + 1 /\ MaxMessages \in Nat
  BY QueueAssumption DEF Enqueue, TypeOK, QueueTypeOK
<1>2. sent + 1 \in Ids /\ sent + 1 \notin 1 .. sent /\ 1 .. sent' = (1 .. sent) \cup {sent + 1}
  BY <1>1 DEF Ids
<1>3. IdsOf(queue)' = IdsOf(queue) \cup {sent + 1}
  <2>1. queue' = queue \cup {[id |-> sent', task |-> task, receives |-> 0]}
    BY DEF Enqueue
  <2> QED
    BY <1>1, <2>1, IdsOfUnion DEF IdsOf
<1>4. Settled' = Settled
  BY <1>2, <1>3 DEF Settled, IdsOf
<1>5. Delivery!Accept(sent + 1)
  BY <1>2, <1>4 DEF Delivery!Accept, IdsOf
<1> QED
  BY <1>2, <1>5 DEF Delivery!DeliveryNext

\* Receiving counts, it does not take away.
LEMMA ReceiveUnseen ==
  ASSUME TypeOK, NEW w \in Workers, Receive(w)
  PROVE  Unseen
<1>1. PICK batch \in SUBSET {m \in queue : m.receives < MaxReceives} :
        queue' = (queue \ batch) \cup {[m EXCEPT !.receives = @ + 1] : m \in batch}
  BY DEF Receive
<1>2. \A m \in batch : m \in queue /\ m \in Message
  BY DEF TypeOK, QueueTypeOK
<1>3. \A m \in batch : [m EXCEPT !.receives = @ + 1].id = m.id
  BY <1>2 DEF Message
<1>4. \A i \in IdsOf(queue) : i \in IdsOf(queue')
  <2> SUFFICES ASSUME NEW m \in queue PROVE m.id \in IdsOf(queue')
    BY DEF IdsOf
  <2>1. CASE m \in batch
    <3>1. [m EXCEPT !.receives = @ + 1] \in queue'
      BY <1>1, <2>1
    <3> QED
      BY <1>3, <2>1, <3>1 DEF IdsOf
  <2>2. CASE m \notin batch
    BY <1>1, <2>2 DEF IdsOf
  <2> QED
    BY <2>1, <2>2
<1>5. \A i \in IdsOf(queue') : i \in IdsOf(queue)
  <2> SUFFICES ASSUME NEW m \in queue' PROVE m.id \in IdsOf(queue)
    BY DEF IdsOf
  <2>1. CASE m \in queue
    BY <2>1 DEF IdsOf
  <2>2. CASE m \notin queue
    <3>1. PICK n \in batch : m = [n EXCEPT !.receives = @ + 1]
      BY <1>1, <2>2
    <3> QED
      BY <1>2, <1>3, <3>1 DEF IdsOf
  <2> QED
    BY <2>1, <2>2
<1>6. IdsOf(queue)' = IdsOf(queue)
  BY <1>4, <1>5 DEF IdsOf
<1> QED
  BY <1>6 DEF Receive, Unseen

\* A task that ends is carried, and settled if its message was deleted.
LEMMA HandledCarries ==
  ASSUME TypeOK, AllTraced, NEW w \in Workers, Handled(w)
  PROVE  Delivery!DeliveryNext
<1> DEFINE i == doing[w].id
<1>1. i \in 1 .. sent /\ i \in Ids
  <2>1. doing[w] \in Receipt /\ Traced(doing[w])
    BY DEF Handled, TypeOK, QueueTypeOK, AllTraced
  <2> QED
    BY <2>1 DEF Receipt, Traced
<1>2. carried' = carried \cup {i} /\ sent' = sent /\ dead' = dead
  BY DEF Handled
<1>3. queue' = queue \/ queue' = {m \in queue : m.id # i}
  BY DEF Handled
<1>4. Settled' = Settled \/ (i \notin IdsOf(dead) /\ Settled' = Settled \cup {i})
  <2>1. CASE queue' = queue
    BY <1>2, <2>1 DEF Settled, IdsOf
  <2>2. CASE queue' = {m \in queue : m.id # i}
    <3>1. IdsOf(queue)' = IdsOf(queue) \ {i}
      BY <2>2 DEF IdsOf
    <3>2. Settled' = (1 .. sent) \ ((IdsOf(queue) \ {i}) \cup IdsOf(dead))
      BY <1>2, <3>1 DEF Settled, IdsOf
    <3> HIDE DEF i
    <3>3. CASE i \in IdsOf(dead)
      BY <3>2, <3>3 DEF Settled
    <3>4. CASE i \notin IdsOf(dead)
      BY <1>1, <3>2, <3>4 DEF Settled
    <3> QED
      BY <3>3, <3>4
  <2> QED
    BY <1>3, <2>1, <2>2
<1>5. IdsOf(dead)' = IdsOf(dead) /\ (1 .. sent)' = 1 .. sent
  BY <1>2 DEF IdsOf
<1> HIDE DEF i
<1>6. Delivery!Carry(i)
  BY <1>1, <1>2, <1>4, <1>5 DEF Delivery!Carry
<1> QED
  BY <1>1, <1>6 DEF Delivery!DeliveryNext

\* Dead-lettering gives a task up.
LEMMA DeadLetterGivesUp ==
  ASSUME TypeOK, AllTraced, NEW m \in queue, DeadLetter(m), UNCHANGED carried
  PROVE  Delivery!DeliveryNext
<1>1. m.id \in 1 .. sent /\ m.id \in Ids /\ m.id \in IdsOf(queue)
  BY DEF AllTraced, Traced, TypeOK, QueueTypeOK, Message, IdsOf
<1>2. queue' = queue \ {m} /\ dead' = dead \cup {m} /\ sent' = sent
  BY DEF DeadLetter
<1>3. IdsOf(dead)' = IdsOf(dead) \cup {m.id}
  BY <1>2 DEF IdsOf
<1>4. IdsOf(queue)' \cup {m.id} = IdsOf(queue)
  BY <1>2 DEF IdsOf
<1>5. Settled' = Settled
  <2>1. IdsOf(queue)' \cup IdsOf(dead)' = IdsOf(queue) \cup IdsOf(dead)
    BY <1>3, <1>4
  <2> QED
    BY <1>2, <2>1 DEF Settled
<1>6. Delivery!GiveUp(m.id)
  BY <1>1, <1>2, <1>3, <1>5 DEF Delivery!GiveUp, Settled
<1> QED
  BY <1>1, <1>6 DEF Delivery!DeliveryNext

\* Every step is a step of the abstract queue or one it does not see.
LEMMA DeliveryStep ==
  ASSUME TypeOK, AllTraced, [Next]_vars
  PROVE  Delivery!DeliveryNext \/ Unseen
<1>1. CASE RequestExport \/ UNCHANGED vars
  BY <1>1 DEF RequestExport, vars, delivered, Unseen, IdsOf
<1>2. CASE EnqueueExport
  <2>1. CASE Enqueue(BuildTask)
    BY <1>2, <2>1, EnqueueAccepts DEF EnqueueExport
  <2>2. CASE UNCHANGED <<queue, sent>>
    BY <1>2, <2>2 DEF EnqueueExport, Unseen, IdsOf
  <2> QED
    BY <1>2, <2>1, <2>2 DEF EnqueueExport
<1>3. ASSUME NEW w \in Workers, Work(w) PROVE Delivery!DeliveryNext \/ Unseen
  <2>1. CASE Receive(w)
    BY <2>1, ReceiveUnseen
  <2>2. CASE Dispatch(w) \/ Fail(w)
    BY <2>2 DEF Dispatch, Take, Fail, Raised, Unseen, IdsOf
  <2>3. CASE Guard(w)
    <3>1. UNCHANGED delivered \/ Raised(w)
      BY <2>3 DEF Guard
    <3> QED
      BY <3>1 DEF Raised, delivered, Unseen, IdsOf
  <2>4. CASE Build(w) \/ SendMail(w) \/ CountMail(w)
    BY <2>4 DEF Build, SendMail, CountMail, delivered, Unseen, IdsOf
  <2>5. CASE Notify(w)
    <3>1. CASE Enqueue(job[w].export)
      BY <2>5, <3>1, EnqueueAccepts DEF Notify
    <3>2. CASE UNCHANGED <<queue, sent>>
      BY <2>5, <3>2 DEF Notify, Unseen, IdsOf
    <3> QED
      BY <2>5, <3>1, <3>2 DEF Notify
  <2>6. CASE Acknowledge(w)
    BY <2>6, HandledCarries DEF Acknowledge
  <2> QED
    BY <1>3, <2>1, <2>2, <2>3, <2>4, <2>5, <2>6 DEF Work
<1>4. CASE \E w \in Workers : WorkerDies(w)
  BY <1>4 DEF WorkerDies, Crash, Unseen, IdsOf
<1>5. CASE \E m \in queue : Broker(m)
  BY <1>5, DeadLetterGivesUp DEF Broker, DeadLetter
<1>6. CASE \E e \in Exports : OpenLink(e) \/ Serve(e) \/ FetchFails(e) \/ Expire(e)
  BY <1>6 DEF OpenLink, Serve, FetchFails, Expire, delivered, Unseen, IdsOf
<1> QED
  BY <1>1, <1>2, <1>3, <1>4, <1>5, <1>6 DEF Next

\* The queue and the workers implement at-least-once execution: an accepted task is
\* settled only with or after an execution that reached its end, or kept as dead.
THEOREM DeliveryCorrect == Spec => TasksCarried
<1>1. Init => Delivery!DeliveryInit
  <2>1. Init => 1 .. sent = {} /\ IdsOf(queue) = {} /\ IdsOf(dead) = {} /\ carried = {}
    BY DEF Init, QueueInit, IdsOf
  <2> QED
    BY <2>1 DEF Delivery!DeliveryInit, Settled
<1>2. IInv /\ [Next]_vars => [Delivery!DeliveryNext]_(Delivery!delivery)
  BY DeliveryStep, UnseenStutters DEF IInv
<1> QED
  BY IInvHolds, <1>1, <1>2, PTL DEF Spec, TasksCarried, Delivery!DeliverySpec
=============================================================================
