------------------------------ MODULE TaskQueue ------------------------------
(***************************************************************************)
(* The task queue (AWS SQS, external) and the loop of the workers that     *)
(* poll it: src/src/worker.py and the producer in src/src/core/tasks.py.   *)
(*                                                                         *)
(* A received message is not removed but hidden for a while; it is removed *)
(* when its task has ended without an exception.  A worker receives up to  *)
(* ten messages at once under one visibility timeout and handles them one  *)
(* after the other, so the timeout may end while a message is handled or   *)
(* still waits in the batch, and another worker may receive it.  The model *)
(* has no clock: a message in the queue may be received at any time.       *)
(*                                                                         *)
(* What a task does is in the module that extends this one.                *)
(***************************************************************************)
EXTENDS Naturals, FiniteSets

CONSTANTS
  Workers,
  Tasks,          \* what a message asks for
  None,           \* no message at hand
  Batch,          \* _MAX_MESSAGES
  MaxReceives,    \* the redrive policy of the queue (external)
  MaxMessages     \* bound: messages ever sent

ASSUME QueueAssumption ==
  /\ Batch \in Nat \ {0} /\ MaxReceives \in Nat \ {0} /\ MaxMessages \in Nat

VARIABLES
  queue,      \* the messages of SQS
  dead,       \* the dead-letter queue
  sent,       \* number of messages sent
  held,       \* receipts of the batch each worker has still to handle
  doing,      \* the receipt each worker handles, or None
  carried     \* history: messages of which an execution reached its end

delivered == <<queue, dead, sent, held, doing, carried>>

Ids == 1 .. MaxMessages
Message == [id : Ids, task : Tasks, receives : 0 .. MaxReceives]
Receipt == [id : Ids, task : Tasks]
IdsOf(messages) == {m.id : m \in messages}

QueueTypeOK ==
  /\ queue \subseteq Message /\ dead \subseteq Message
  /\ sent \in 0 .. MaxMessages
  /\ held \in [Workers -> SUBSET Receipt]
  /\ doing \in [Workers -> Receipt \cup {None}]
  /\ carried \subseteq Ids

QueueInit ==
  /\ queue = {} /\ dead = {} /\ sent = 0 /\ carried = {}
  /\ held = [w \in Workers |-> {}] /\ doing = [w \in Workers |-> None]

\* _sqs_send
Enqueue(task) ==
  /\ sent < MaxMessages /\ sent' = sent + 1
  /\ queue' = queue \cup {[id |-> sent', task |-> task, receives |-> 0]}

\* receive_message: some messages that are new, or whose timeout has ended.
Receive(w) ==
  /\ held[w] = {} /\ doing[w] = None
  /\ \E batch \in SUBSET {m \in queue : m.receives < MaxReceives} :
       /\ Cardinality(batch) \in 1 .. Batch
       /\ queue' = (queue \ batch)
            \cup {[m EXCEPT !.receives = @ + 1] : m \in batch}
       /\ held' = [held EXCEPT ![w] = {[id |-> m.id, task |-> m.task] : m \in batch}]
  /\ UNCHANGED <<dead, sent, doing, carried>>

\* The next message of the batch, in the order SQS chose.
Take(w, r) ==
  /\ doing[w] = None /\ r \in held[w]
  /\ held' = [held EXCEPT ![w] = @ \ {r}]
  /\ doing' = [doing EXCEPT ![w] = r]
  /\ UNCHANGED <<queue, dead, sent, carried>>

\* The task has ended: delete_message, which may fail, or do nothing because the
\* receipt is no longer the latest.
Handled(w) ==
  /\ doing[w] # None
  /\ doing' = [doing EXCEPT ![w] = None]
  /\ carried' = carried \cup {doing[w].id}
  /\ queue' \in {queue, {m \in queue : m.id # doing[w].id}}
  /\ UNCHANGED <<dead, sent, held>>

\* Mutant: the message is deleted whatever came of its task (a finally).
BugRaised(w) ==
  /\ doing[w] # None
  /\ doing' = [doing EXCEPT ![w] = None]
  /\ queue' = {m \in queue : m.id # doing[w].id}
  /\ UNCHANGED <<dead, sent, held, carried>>

\* Mutant: an exception leaves the loop, and what is at hand stays at hand.
BugLoopEnds(w) == doing[w] # None /\ UNCHANGED delivered

\* The task has raised: "Do NOT delete - SQS redelivers after visibility timeout".
Raised(w) ==
  /\ doing[w] # None
  /\ doing' = [doing EXCEPT ![w] = None]
  /\ UNCHANGED <<queue, dead, sent, held, carried>>

\* The worker dies, and another takes its place (restart: unless-stopped).
Crash(w) ==
  /\ held[w] # {} \/ doing[w] # None
  /\ held' = [held EXCEPT ![w] = {}] /\ doing' = [doing EXCEPT ![w] = None]
  /\ UNCHANGED <<queue, dead, sent, carried>>

\* A message that was received too often goes to the dead-letter queue.
DeadLetter(m) ==
  /\ m.receives = MaxReceives
  /\ queue' = queue \ {m} /\ dead' = dead \cup {m}
  /\ UNCHANGED <<sent, held, doing, carried>>

-----------------------------------------------------------------------------
Settled == (1 .. sent) \ (IdsOf(queue) \cup IdsOf(dead))

Delivery == INSTANCE AtLeastOnce WITH
  accepted <- 1 .. sent, settled <- Settled, given <- IdsOf(dead)
=============================================================================
