--------------------------- MODULE Recruitment_proofs --------------------------
(***************************************************************************)
(* Proofs about Recruitment, for all sets of requests, applications and    *)
(* candidates.  The inductive invariant is the conjunction of              *)
(*   TypeOK /\ InFlightOK   what the rows are and what requests remember,  *)
(*   OneApplication         the unique index,                              *)
(*   SettledOK              nobody in flight may change a settled row,     *)
(*   CascadeOK              one closing at a time holds the job row,       *)
(*   NoticeOK               emails still to be sent are paid for already,  *)
(*   RegretOK               a rejection email follows its commit,          *)
(*   HeldOK                 a posting being closed is not deleted.         *)
(***************************************************************************)
EXTENDS Recruitment, FiniteSetTheorems, TLAPS

\* The fields that the step of a request is about to use.
Sound(q) ==
    /\ q.step \in {"applying", "inserting"} => q.cand \in Candidates
    /\ q.step \in {"withdrawing", "setting", "regretting"} => q.app \in Applications
    /\ q.step = "setting" => q.new \in ApplicationStatus
    /\ q.step = "updating" => q.new \in JobStatus

Good(q) == q \in Request /\ Sound(q)

InFlightOK == \A r \in Requests : Sound(req[r])

\* Nobody in flight is about to write the status of a settled application.
SettledOK == \A a \in settled : status[a] \in {"WITHDRAWN", "deleted"} /\ ~Decided(a)

\* Only one closing holds the job row, and it chose applications that exist.
CascadeOK ==
    /\ \A r, q \in Requests :
         /\ req[r].step \in {"flushed", "cascading"}
         /\ req[q].step \in {"flushed", "cascading"}
         => r = q
    /\ \A r \in Requests : \A a \in req[r].chosen : status[a] # "unborn"

\* The closings that still owe a an email that is paid for by a closure of a: a
\* cascade that will find a closed already does not close it again.
Owed(a) ==
    {r \in Requests :
       /\ a \in req[r].chosen
       /\ \/ req[r].step = "notifying"
          \/ req[r].step = "cascading" /\ status[a] = "JOB_CLOSED"}

NoticeOK ==
    \A a \in Applications :
      status[a] # "deleted" => notices[a] + Cardinality(Owed(a)) <= closures[a]

RegretOK ==
    /\ regrets \subseteq rejected
    /\ \A r \in Requests : req[r].step = "regretting" => req[r].app \in rejected

-------------------------------------------------------------------------------
(* The updates of a request record that the actions make.                  *)

\* The records with which a request begins are good ones: the idle one,
LEMMA IdleGood == Good(Idle)
  BY DEF Good, Sound, Idle, Request, Steps

\* So is the record of a candidate that applies,
LEMMA ApplyingGood ==
  ASSUME NEW c \in Candidates
  PROVE  Good([Idle EXCEPT !.step = "applying", !.cand = c])
  BY DEF Good, Sound, Idle, Request, Steps

\* that withdraws,
LEMMA WithdrawingGood ==
  ASSUME NEW a \in Applications
  PROVE  Good([Idle EXCEPT !.step = "withdrawing", !.app = a])
  BY DEF Good, Sound, Idle, Request, Steps

\* of an admin that writes the status of an application,
LEMMA SettingGood ==
  ASSUME NEW a \in Applications, NEW old \in ApplicationStatus, NEW new \in ApplicationStatus
  PROVE  Good([Idle EXCEPT !.step = "setting", !.app = a, !.old = old, !.new = new])
  BY DEF Good, Sound, Idle, Request, Steps

\* that decides on the job or deletes it,
LEMMA DecidingGood ==
  ASSUME NEW s \in {"approving", "rejecting", "removing", "deleting"}
  PROVE  Good([Idle EXCEPT !.step = s])
  BY DEF Good, Sound, Idle, Request, Steps

\* and that updates or closes it.
LEMMA UpdatingGood ==
  ASSUME NEW s \in {"closing", "updating"}, NEW old \in JobStatus, NEW new \in JobStatus
  PROVE  Good([Idle EXCEPT !.step = s, !.old = old, !.new = new])
  BY DEF Good, Sound, Idle, Request, Steps

\* So are the records a request goes on with.
LEMMA NextGood ==
  ASSUME NEW q \in Request, Sound(q),
         NEW s \in {"inserting", "regretting", "flushed", "notifying"},
         s = "inserting" => q.step = "applying",
         s = "regretting" => q.step = "setting"
  PROVE  Good([q EXCEPT !.step = s])
  BY DEF Good, Sound, Request, Steps

\* and when it has chosen its applications,
LEMMA CascadingGood ==
  ASSUME NEW q \in Request, Sound(q), NEW C \in SUBSET Applications
  PROVE  Good([q EXCEPT !.step = "cascading", !.chosen = C])
  BY DEF Good, Sound, Request, Steps

\* and when it has sent one of its emails.
LEMMA NotifyingGood ==
  ASSUME NEW q \in Request, Sound(q), q.step = "notifying", NEW a
  PROVE  Good([q EXCEPT !.chosen = @ \ {a}])
  BY DEF Good, Sound, Request, Steps

\* Become replaces one record and keeps the others.
LEMMA BecomeGood ==
  ASSUME TypeOK, InFlightOK, NEW r \in Requests, NEW record, Good(record),
         Become(r, record)
  PROVE  /\ req' \in [Requests -> Request]
         /\ InFlightOK'
         /\ req'[r] = record
         /\ \A q \in Requests \ {r} : req'[q] = req[q]
  BY DEF TypeOK, InFlightOK, Become, Good

\* WriteStatus changes the rows in S and neither creates nor deletes one.
LEMMA WriteStatusRows ==
  ASSUME TypeOK, NEW S \in SUBSET Rows, NEW st \in ApplicationStatus,
         WriteStatus(S, st)
  PROVE  /\ status' \in [Applications -> ApplicationStatus \cup {"unborn", "deleted"}]
         /\ closures' \in [Applications -> Nat]
         /\ rejected' \subseteq Applications
         /\ rejected \subseteq rejected'
         /\ Rows' = Rows
         /\ \A a \in Applications : status'[a] = IF a \in S THEN st ELSE status[a]
         /\ \A a \in Applications :
              closures'[a] = IF a \in S /\ st = "JOB_CLOSED" /\ status[a] # st
                             THEN closures[a] + 1 ELSE closures[a]
  BY DEF TypeOK, WriteStatus, Overwrite, Rows

-------------------------------------------------------------------------------
(* TypeOK and InFlightOK.                                                  *)

\* Every step preserves the types.
LEMMA TypeStep ==
  ASSUME TypeOK, InFlightOK, [Next]_vars
  PROVE  TypeOK' /\ InFlightOK'
<1> USE DEF history
<1>1. CASE UNCHANGED vars
  BY <1>1 DEF vars, TypeOK, InFlightOK, Rows
<1>2. ASSUME NEW r \in Requests, Arrive(r) \/ Serve(r) \/ Abort(r)
      PROVE  TypeOK' /\ InFlightOK'
  <2>0. Good(Idle) /\ req[r] \in Request /\ Sound(req[r])
    BY IdleGood DEF TypeOK, InFlightOK
  <2>1. ASSUME NEW c \in Candidates, ApplyRead(r, c)
        PROVE  TypeOK' /\ InFlightOK'
    <3>1. InFlightOK' /\ req' \in [Requests -> Request]
      BY <2>1, ApplyingGood, BecomeGood DEF ApplyRead, Begin
    <3> QED
      BY <2>1, <3>1 DEF ApplyRead, Begin, TypeOK, Rows
  <2>2. ASSUME NEW a \in Applications, WithdrawRead(r, a)
        PROVE  TypeOK' /\ InFlightOK'
    <3>1. InFlightOK' /\ req' \in [Requests -> Request]
      BY <2>2, WithdrawingGood, BecomeGood DEF WithdrawRead, Begin
    <3> QED
      BY <2>2, <3>1 DEF WithdrawRead, Begin, TypeOK, Rows
  <2>3. ASSUME NEW a \in Applications, DeleteApplication(r, a)
        PROVE  TypeOK' /\ InFlightOK'
    BY <2>0, <2>3, BecomeGood DEF DeleteApplication, Begin, TypeOK, Rows, ApplicationStatus
  <2>4. ASSUME NEW a \in Applications, NEW new \in ApplicationStatus, SetRead(r, a, new)
        PROVE  TypeOK' /\ InFlightOK'
    <3>1. Good([Idle EXCEPT !.step = "setting", !.app = a,
                            !.old = status[a], !.new = new])
      BY <2>4, SettingGood DEF SetRead, Rows
    <3> QED
      BY <2>4, <3>1, BecomeGood DEF SetRead, Begin, TypeOK, Rows
  <2>5. ASSUME NEW op, NEW s \in {"approving", "rejecting", "removing"},
               DecideRead(r, op, s)
        PROVE  TypeOK' /\ InFlightOK'
    <3>1. InFlightOK' /\ req' \in [Requests -> Request]
      BY <2>5, DecidingGood, BecomeGood DEF DecideRead, Begin
    <3> QED
      BY <2>5, <3>1 DEF DecideRead, Begin, TypeOK, Rows
  <2>6. ASSUME NEW new \in JobStatus, UpdateRead(r, new)
        PROVE  TypeOK' /\ InFlightOK'
    <3>1. Good([Idle EXCEPT !.step = IF job = "PUBLISHED" /\ new = "CLOSED"
                                     THEN "closing" ELSE "updating",
                            !.old = job, !.new = new])
      BY <2>6, UpdatingGood DEF UpdateRead
    <3> QED
      BY <2>6, <3>1, BecomeGood DEF UpdateRead, Begin, TypeOK, Rows
  <2>7. CASE DeleteRead(r)
    <3>1. InFlightOK' /\ req' \in [Requests -> Request]
      BY <2>7, DecidingGood, BecomeGood DEF DeleteRead, Begin
    <3> QED
      BY <2>7, <3>1 DEF DeleteRead, Begin, TypeOK, Rows
  <2>8. CASE ApplyCheck(r)
    <3>1. /\ Good(IF \E a \in Indexed(status) : owner[a] = req[r].cand
                  THEN Idle ELSE [req[r] EXCEPT !.step = "inserting"])
          /\ Become(r, IF \E a \in Indexed(status) : owner[a] = req[r].cand
                       THEN Idle ELSE [req[r] EXCEPT !.step = "inserting"])
      BY <2>0, <2>8, NextGood DEF ApplyCheck
    <3> QED
      BY <2>8, <3>1, BecomeGood DEF ApplyCheck, TypeOK, Rows
  <2>9. CASE Insert(r)
    <3>1. req[r].cand \in Candidates
      BY <2>9, <2>0 DEF Insert, InsertIf, Sound
    <3>2. InFlightOK' /\ req' \in [Requests -> Request]
      BY <2>0, <2>9, BecomeGood DEF Insert, InsertIf
    <3> QED
      BY <2>9, <3>1, <3>2 DEF Insert, InsertIf, TypeOK, Rows, ApplicationStatus
  <2>10. CASE WithdrawCommit(r)
    <3>1. {req[r].app} \cap Rows \in SUBSET Rows /\ "WITHDRAWN" \in ApplicationStatus
      BY DEF ApplicationStatus
    <3>2. InFlightOK' /\ req' \in [Requests -> Request]
      BY <2>0, <2>10, BecomeGood DEF WithdrawCommit
    <3>3. {req[r].app} \cap Rows \subseteq Applications
      BY DEF Rows
    <3> HIDE DEF Rows
    <3> QED
      BY <2>10, <3>1, <3>2, <3>3, WriteStatusRows DEF WithdrawCommit, TypeOK
  <2>11. CASE SetCommit(r)
    <3> DEFINE write == IF req[r].old # req[r].new THEN {req[r].app} ELSE {}
               fails == \/ req[r].app \notin Rows
                        \/ ~IndexAllows(Overwrite(write, req[r].new))
               S     == IF fails THEN {} ELSE write
    <3>1. S \in SUBSET Rows /\ req[r].new \in ApplicationStatus
      BY <2>0, <2>11 DEF SetCommit, Sound
    <3>2. WriteStatus(S, req[r].new)
      BY <2>11 DEF SetCommit
    <3>3. InFlightOK' /\ req' \in [Requests -> Request]
      BY <2>0, <2>11, BecomeGood, NextGood DEF SetCommit
    <3> HIDE DEF S
    <3> QED
      BY <2>11, <3>1, <3>2, <3>3, WriteStatusRows DEF SetCommit, TypeOK
  <2>12. CASE Regret(r)
    <3>1. req[r].app \in Applications
      BY <2>0, <2>12 DEF Regret, Sound
    <3>2. InFlightOK' /\ req' \in [Requests -> Request]
      BY <2>0, <2>12, BecomeGood DEF Regret
    <3> QED
      BY <2>12, <3>1, <3>2 DEF Regret, TypeOK, Rows
  <2>13. ASSUME NEW from, NEW to \in JobStatus, WriteJob(r, from, to)
         PROVE  TypeOK' /\ InFlightOK'
    BY <2>0, <2>13, BecomeGood DEF WriteJob, TypeOK, Rows, JobStatus
  <2>14. CASE UpdateCommit(r)
    BY <2>0, <2>13, <2>14 DEF UpdateCommit, Sound
  <2>15. CASE CloseFlush(r)
    <3>1. /\ Good(IF job = "deleted" THEN Idle ELSE [req[r] EXCEPT !.step = "flushed"])
          /\ Become(r, IF job = "deleted" THEN Idle ELSE [req[r] EXCEPT !.step = "flushed"])
      BY <2>0, <2>15, NextGood DEF CloseFlush
    <3> QED
      BY <2>15, <3>1, BecomeGood DEF CloseFlush, TypeOK, Rows
  <2>16. CASE CloseSelect(r)
    <3>1. Good([req[r] EXCEPT !.step = "cascading",
                 !.chosen = {a \in Applications : status[a] \in ActiveStatuses}])
      BY <2>0, CascadingGood
    <3> QED
      BY <2>16, <3>1, BecomeGood DEF CloseSelect, TypeOK, Rows
  <2>17. CASE CloseCommit(r)
    <3> DEFINE chosen == req[r].chosen
               write  == chosen \cap Rows
               fails  == \/ \E a \in chosen : chosen = {a} /\ write = {}
                         \/ ~IndexAllows(Overwrite(write, "JOB_CLOSED"))
               S      == IF fails THEN {} ELSE write
    <3>1. S \in SUBSET Rows /\ "JOB_CLOSED" \in ApplicationStatus
      BY DEF ApplicationStatus
    <3>2. WriteStatus(S, "JOB_CLOSED")
      BY <2>17 DEF CloseCommit
    <3>3. /\ Good(IF fails \/ chosen = {} THEN Idle ELSE [req[r] EXCEPT !.step = "notifying"])
          /\ Become(r, IF fails \/ chosen = {} THEN Idle
                       ELSE [req[r] EXCEPT !.step = "notifying"])
      BY <2>0, <2>17, NextGood DEF CloseCommit
    <3>4. InFlightOK' /\ req' \in [Requests -> Request]
      BY <3>3, BecomeGood
    <3>5. job' = job \/ job' = "CLOSED"
      BY <2>17 DEF CloseCommit
    <3> HIDE DEF S
    <3> QED
      BY <2>17, <3>1, <3>2, <3>4, <3>5, WriteStatusRows DEF CloseCommit, TypeOK, JobStatus
  <2>18. CASE Notify(r)
    <3>1. PICK a \in req[r].chosen :
             /\ notices' = [notices EXCEPT ![a] = @ + 1] \/ UNCHANGED notices
             /\ Become(r, IF req[r].chosen = {a} THEN Idle
                          ELSE [req[r] EXCEPT !.chosen = @ \ {a}])
      BY <2>18 DEF Notify
    <3>2. a \in Applications
      BY <2>0 DEF Request
    <3>3. InFlightOK' /\ req' \in [Requests -> Request]
      <4>1. req[r].step = "notifying"
        BY <2>18 DEF Notify
      <4>2. Good([req[r] EXCEPT !.chosen = @ \ {a}])
        BY <2>0, <4>1, NotifyingGood
      <4>3. Good(IF req[r].chosen = {a} THEN Idle ELSE [req[r] EXCEPT !.chosen = @ \ {a}])
        BY <2>0, <4>2
      <4> QED
        BY <3>1, <4>3, BecomeGood
    <3>4. notices' \in [Applications -> Nat]
      BY <3>1, <3>2 DEF TypeOK
    <3> QED
      BY <2>18, <3>3, <3>4 DEF Notify, TypeOK, Rows
  <2>19. CASE DropJob(r)
    BY <2>0, <2>19, BecomeGood DEF DropJob, TypeOK, Rows, ApplicationStatus
  <2>20. CASE Abort(r)
    BY <2>0, <2>20, BecomeGood DEF Abort, TypeOK, Rows
  <2> QED
    BY <1>2, <2>1, <2>2, <2>3, <2>4, <2>5, <2>6, <2>7, <2>8, <2>9, <2>10, <2>11,
       <2>12, <2>13, <2>14, <2>15, <2>16, <2>17, <2>18, <2>19, <2>20
    DEF Arrive, Serve, ApproveRead, RejectRead, RemoveRead, ApproveCommit,
        RejectCommit, RemoveCommit, DeleteCommit, JobStatus
<1> QED
  BY <1>1, <1>2 DEF Next

\* The rows and the requests have the values they should, and no application
\* outlives its job (the foreign keys of models.py).
THEOREM TypeCorrect == Spec => [](TypeOK /\ InFlightOK)
<1>1. Init => TypeOK /\ InFlightOK
  <2> SUFFICES ASSUME Init PROVE TypeOK /\ InFlightOK
    OBVIOUS
  <2>1. InFlightOK /\ req \in [Requests -> Request]
    BY IdleGood DEF Init, InFlightOK, Good
  <2> QED
    BY <2>1 DEF Init, TypeOK, Rows, ApplicationStatus
<1>2. TypeOK /\ InFlightOK /\ [Next]_vars => (TypeOK /\ InFlightOK)'
  BY TypeStep
<1> QED
  BY <1>1, <1>2, PTL DEF Spec

-------------------------------------------------------------------------------
(* What a step does to the rows and to the requests.                       *)

\* The other requests stay as they are.
Alone(r) == \A q \in Requests \ {r} : req'[q] = req[q]

\* A step that writes no row of an application and joins no cascade.
Quiet(r) ==
    /\ Alone(r)
    /\ UNCHANGED <<status, owner, history>>
    /\ req'[r].step \notin {"setting", "regretting", "flushed", "cascading", "notifying"}
    /\ req'[r].chosen \subseteq req[r].chosen

\* Become changes one request.
LEMMA BecomeAlone ==
  ASSUME TypeOK, NEW r \in Requests, NEW record, Become(r, record)
  PROVE  Alone(r) /\ req'[r] = record
  BY DEF TypeOK, Become, Alone

\* The fields of the record that a request takes on.
LEMMA BecomeIdle ==
  ASSUME TypeOK, NEW r \in Requests, Become(r, Idle)
  PROVE  Alone(r) /\ req'[r].step = "idle" /\ req'[r].chosen = {}
  BY BecomeAlone DEF Idle

\* Going on with another step keeps the other fields.
LEMMA BecomeStep ==
  ASSUME TypeOK, NEW r \in Requests, NEW s, Become(r, [req[r] EXCEPT !.step = s])
  PROVE  /\ Alone(r) /\ req'[r].step = s
         /\ req'[r].chosen = req[r].chosen /\ req'[r].app = req[r].app
<1>1. req[r] \in Request /\ Alone(r) /\ req'[r] = [req[r] EXCEPT !.step = s]
  BY BecomeAlone DEF TypeOK
<1> QED
  BY <1>1 DEF Request

\* A closing remembers what it chose.
LEMMA BecomeCascading ==
  ASSUME TypeOK, NEW r \in Requests, NEW C,
         Become(r, [req[r] EXCEPT !.step = "cascading", !.chosen = C])
  PROVE  Alone(r) /\ req'[r].step = "cascading" /\ req'[r].chosen = C
<1>1. /\ req[r] \in Request
      /\ Alone(r) /\ req'[r] = [req[r] EXCEPT !.step = "cascading", !.chosen = C]
  BY BecomeAlone DEF TypeOK
<1> QED
  BY <1>1 DEF Request

\* A closing forgets the application whose email it has sent.
LEMMA BecomeNotifying ==
  ASSUME TypeOK, NEW r \in Requests, NEW a, Become(r, [req[r] EXCEPT !.chosen = @ \ {a}])
  PROVE  /\ Alone(r) /\ req'[r].step = req[r].step
         /\ req'[r].chosen = req[r].chosen \ {a}
<1>1. req[r] \in Request /\ Alone(r) /\ req'[r] = [req[r] EXCEPT !.chosen = @ \ {a}]
  BY BecomeAlone DEF TypeOK
<1> QED
  BY <1>1 DEF Request

\* A new request has chosen nothing.
LEMMA BecomeNew ==
  ASSUME TypeOK, NEW r \in Requests, NEW s,
         \/ Become(r, [Idle EXCEPT !.step = s])
         \/ \E c : Become(r, [Idle EXCEPT !.step = s, !.cand = c])
         \/ \E a : Become(r, [Idle EXCEPT !.step = s, !.app = a])
         \/ \E old, new : Become(r, [Idle EXCEPT !.step = s, !.old = old, !.new = new])
  PROVE  Alone(r) /\ req'[r].step = s /\ req'[r].chosen = {}
<1>1. Alone(r)
  BY BecomeAlone
<1>2. CASE Become(r, [Idle EXCEPT !.step = s])
  <2>1. req'[r] = [Idle EXCEPT !.step = s]
    BY <1>2, BecomeAlone
  <2> QED
    BY <1>1, <2>1 DEF Idle
<1>3. ASSUME NEW c, Become(r, [Idle EXCEPT !.step = s, !.cand = c])
      PROVE  req'[r].step = s /\ req'[r].chosen = {}
  <2>1. req'[r] = [Idle EXCEPT !.step = s, !.cand = c]
    BY <1>3, BecomeAlone
  <2> QED
    BY <2>1 DEF Idle
<1>4. ASSUME NEW a, Become(r, [Idle EXCEPT !.step = s, !.app = a])
      PROVE  req'[r].step = s /\ req'[r].chosen = {}
  <2>1. req'[r] = [Idle EXCEPT !.step = s, !.app = a]
    BY <1>4, BecomeAlone
  <2> QED
    BY <2>1 DEF Idle
<1>5. ASSUME NEW old, NEW new, Become(r, [Idle EXCEPT !.step = s, !.old = old, !.new = new])
      PROVE  req'[r].step = s /\ req'[r].chosen = {}
  <2>1. req'[r] = [Idle EXCEPT !.step = s, !.old = old, !.new = new]
    BY <1>5, BecomeAlone
  <2> QED
    BY <2>1 DEF Idle
<1> QED
  BY <1>1, <1>2, <1>3, <1>4, <1>5

\* A decision names its application.
LEMMA BecomeSetting ==
  ASSUME TypeOK, NEW r \in Requests, NEW a, NEW old, NEW new,
         Become(r, [Idle EXCEPT !.step = "setting", !.app = a, !.old = old, !.new = new])
  PROVE  /\ Alone(r) /\ req'[r].step = "setting"
         /\ req'[r].app = a /\ req'[r].chosen = {}
<1>1. Alone(r) /\ req'[r] = [Idle EXCEPT !.step = "setting", !.app = a,
                                        !.old = old, !.new = new]
  BY BecomeAlone
<1> QED
  BY <1>1 DEF Idle

\* A step is quiet, or one of those that the invariants are about.
LEMMA StepKinds ==
  ASSUME TypeOK, NEW r \in Requests, Arrive(r) \/ Serve(r) \/ Abort(r)
  PROVE  \/ Quiet(r) \/ Insert(r) \/ WithdrawCommit(r)
         \/ \E a \in Applications, new \in ApplicationStatus : SetRead(r, a, new)
         \/ SetCommit(r) \/ Regret(r)
         \/ \E a \in Applications : DeleteApplication(r, a)
         \/ CloseFlush(r) \/ CloseSelect(r) \/ CloseCommit(r) \/ Notify(r) \/ DropJob(r)
<1>1. ASSUME Become(r, Idle), UNCHANGED <<status, owner, history>>
      PROVE  Quiet(r)
  BY <1>1, BecomeIdle DEF Quiet
<1>2. ASSUME NEW s \in {"approving", "rejecting", "removing", "deleting"},
             Become(r, [Idle EXCEPT !.step = s]), UNCHANGED <<status, owner, history>>
      PROVE  Quiet(r)
  BY <1>2, BecomeNew DEF Quiet
<1>3. ASSUME NEW c \in Candidates, ApplyRead(r, c)
      PROVE  Quiet(r)
  <2>1. Alone(r) /\ req'[r].step = "applying" /\ req'[r].chosen = {}
    BY <1>3, BecomeNew DEF ApplyRead, Begin
  <2> QED
    BY <1>3, <2>1 DEF ApplyRead, Quiet
<1>4. ASSUME NEW a \in Applications, WithdrawRead(r, a)
      PROVE  Quiet(r)
  <2>1. Alone(r) /\ req'[r].step = "withdrawing" /\ req'[r].chosen = {}
    BY <1>4, BecomeNew DEF WithdrawRead, Begin
  <2> QED
    BY <1>4, <2>1 DEF WithdrawRead, Quiet
<1>5. ASSUME NEW new \in JobStatus, UpdateRead(r, new)
      PROVE  Quiet(r)
  <2> DEFINE s == IF job = "PUBLISHED" /\ new = "CLOSED" THEN "closing" ELSE "updating"
  <2>1. Become(r, [Idle EXCEPT !.step = s, !.old = job, !.new = new])
    BY <1>5 DEF UpdateRead, Begin
  <2>2. s \in {"closing", "updating"}
    OBVIOUS
  <2> HIDE DEF s
  <2>3. Alone(r) /\ req'[r].step = s /\ req'[r].chosen = {}
    BY <2>1, BecomeNew
  <2> QED
    BY <1>5, <2>2, <2>3 DEF UpdateRead, Quiet
<1>6. CASE ApplyCheck(r)
  <2>1. \/ Become(r, Idle)
        \/ Become(r, [req[r] EXCEPT !.step = "inserting"])
    BY <1>6 DEF ApplyCheck
  <2>2. Alone(r) /\ req'[r].step \in {"idle", "inserting"} /\ req'[r].chosen \subseteq req[r].chosen
    BY <2>1, BecomeIdle, BecomeStep
  <2> QED
    BY <1>6, <2>2 DEF ApplyCheck, Quiet
<1>7. ASSUME ApproveRead(r) \/ RejectRead(r) \/ RemoveRead(r) \/ DeleteRead(r)
      PROVE  Quiet(r)
  BY <1>2, <1>7 DEF ApproveRead, RejectRead, RemoveRead, DeleteRead, DecideRead, Begin
<1>8. ASSUME \/ ApproveCommit(r) \/ RejectCommit(r) \/ UpdateCommit(r) \/ Abort(r)
      PROVE  Quiet(r)
  BY <1>1, <1>8 DEF ApproveCommit, RejectCommit, UpdateCommit, WriteJob, Abort, history
<1> QED
  BY <1>3, <1>4, <1>5, <1>6, <1>7, <1>8
  DEF Arrive, Serve, RemoveCommit, DeleteCommit

-------------------------------------------------------------------------------
(* The unique index.                                                       *)

\* No step gives a candidate a second application that is not withdrawn.
LEMMA OneApplicationStep ==
  ASSUME TypeOK, OneApplication, [Next]_vars
  PROVE  OneApplication'
<1>1. ASSUME owner' = owner,
             \A a \in Applications : a \in Indexed(status') => a \in Indexed(status)
      PROVE  OneApplication'
  BY <1>1 DEF OneApplication, Indexed
<1>2. CASE UNCHANGED vars
  BY <1>2 DEF vars, OneApplication, Indexed
<1>3. ASSUME NEW r \in Requests, Arrive(r) \/ Serve(r) \/ Abort(r)
      PROVE  OneApplication'
  <2>1. CASE UNCHANGED <<status, owner>>
    BY <1>1, <2>1
  <2>2. CASE Insert(r)
    <3>1. PICK a \in Applications :
             /\ status[a] = "unborn"
             /\ \/ /\ \A b \in Indexed(status) : owner[b] # req[r].cand
                   /\ status' = [status EXCEPT ![a] = "NEW"]
                   /\ owner' = [owner EXCEPT ![a] = req[r].cand]
                \/ UNCHANGED <<status, owner>>
      BY <2>2 DEF Insert, InsertIf, Vacant
    <3>2. CASE UNCHANGED <<status, owner>>
      BY <1>1, <3>2
    <3>3. CASE /\ \A b \in Indexed(status) : owner[b] # req[r].cand
               /\ status' = [status EXCEPT ![a] = "NEW"]
               /\ owner' = [owner EXCEPT ![a] = req[r].cand]
      BY <3>1, <3>3 DEF OneApplication, Indexed, TypeOK, ApplicationStatus
    <3> QED
      BY <3>1, <3>2, <3>3
  <2>3. CASE WithdrawCommit(r)
    BY <1>1, <2>3 DEF WithdrawCommit, WriteStatus, Overwrite, Indexed
  <2>4. CASE SetCommit(r)
    <3> DEFINE write == IF req[r].old # req[r].new THEN {req[r].app} ELSE {}
               fails == \/ req[r].app \notin Rows
                        \/ ~IndexAllows(Overwrite(write, req[r].new))
    <3>1. owner' = owner /\ status' = Overwrite(IF fails THEN {} ELSE write, req[r].new)
      BY <2>4 DEF SetCommit, WriteStatus
    <3>2. CASE fails
      BY <1>1, <3>1, <3>2 DEF Overwrite, Indexed
    <3>3. CASE ~fails
      BY <3>1, <3>3 DEF IndexAllows, OneApplication
    <3> QED
      BY <3>2, <3>3
  <2>5. ASSUME NEW a \in Applications, DeleteApplication(r, a)
        PROVE  OneApplication'
    BY <1>1, <2>5 DEF DeleteApplication, Indexed, TypeOK, ApplicationStatus
  <2>6. CASE CloseCommit(r)
    <3> DEFINE write == req[r].chosen \cap Rows
               fails == \/ \E a \in req[r].chosen : req[r].chosen = {a} /\ write = {}
                        \/ ~IndexAllows(Overwrite(write, "JOB_CLOSED"))
    <3>1. owner' = owner /\ status' = Overwrite(IF fails THEN {} ELSE write, "JOB_CLOSED")
      BY <2>6 DEF CloseCommit, WriteStatus
    <3>2. CASE fails
      BY <1>1, <3>1, <3>2 DEF Overwrite, Indexed
    <3>3. CASE ~fails
      BY <3>1, <3>3 DEF IndexAllows, OneApplication
    <3> QED
      BY <3>2, <3>3
  <2>7. CASE DropJob(r)
    BY <1>1, <2>7 DEF DropJob, Indexed, ApplicationStatus
  <2> QED
    BY <1>3, <2>1, <2>2, <2>3, <2>4, <2>5, <2>6, <2>7, StepKinds
    DEF Quiet, SetRead, Regret, CloseFlush, CloseSelect, Notify
<1> QED
  BY <1>2, <1>3 DEF Next

\* A candidate never has two applications to the job that are not withdrawn,
\* whichever requests apply, withdraw, decide and close at the same time.
THEOREM OneLiveApplication == Spec => []OneApplication
<1>1. Init => OneApplication
  BY DEF Init, OneApplication, Indexed, ApplicationStatus
<1>2. TypeOK /\ OneApplication /\ [Next]_vars => OneApplication'
  BY OneApplicationStep
<1> QED
  BY <1>1, <1>2, TypeCorrect, PTL DEF Spec

-------------------------------------------------------------------------------
(* Withdrawals.                                                            *)

\* A step that keeps the settled rows withdrawn and decides nothing about them.
LEMMA SettledFrame ==
  ASSUME SettledOK, NEW r \in Requests, Alone(r), settled' = settled,
         \A a \in settled : status'[a] \in {"WITHDRAWN", "deleted"},
         \A a \in settled :
           /\ ~(req'[r].step = "setting" /\ req'[r].app = a)
           /\ ~(req'[r].step = "cascading" /\ a \in req'[r].chosen)
  PROVE  SettledOK'
  BY DEF SettledOK, Decided, Alone

\* Every step keeps SettledOK.
LEMMA SettledStep ==
  ASSUME TypeOK, InFlightOK, SettledOK, [Next]_vars
  PROVE  SettledOK'
<1>1. CASE UNCHANGED vars
  BY <1>1 DEF vars, history, SettledOK, Decided
<1>2. ASSUME NEW r \in Requests, Arrive(r) \/ Serve(r) \/ Abort(r)
      PROVE  SettledOK'
  <2>0. /\ settled \subseteq Applications
        /\ status \in [Applications -> ApplicationStatus \cup {"unborn", "deleted"}]
        /\ req[r] \in Request
        /\ \A a \in settled : status[a] \in {"WITHDRAWN", "deleted"} /\ ~Decided(a)
    BY DEF TypeOK, SettledOK
  <2>1. CASE Quiet(r)
    BY <2>0, <2>1, SettledFrame DEF Quiet, history
  <2>2. CASE Insert(r)
    <3>1. Alone(r) /\ req'[r].step = "idle" /\ settled' = settled
      BY <2>2, BecomeIdle DEF Insert, InsertIf, history
    <3>2. \A a \in settled : status'[a] = status[a]
      BY <2>0, <2>2 DEF Insert, InsertIf
    <3> QED
      BY <2>0, <3>1, <3>2, SettledFrame
  <2>3. CASE WithdrawCommit(r)
    <3> DEFINE S == {req[r].app} \cap Rows
    <3>1. Alone(r) /\ req'[r].step = "idle"
      BY <2>3, BecomeIdle DEF WithdrawCommit
    <3>2. \A a : Decided(a)' => Decided(a)
      BY <3>1 DEF Decided, Alone
    <3>3. \A a \in settled' : a \in settled \/ (a \in S /\ ~Decided(a))
      <4>1. settled' = settled \cup {a \in S : ~Decided(a)}
        BY <2>3 DEF WithdrawCommit
      <4> HIDE DEF S
      <4> QED
        BY <4>1
    <3>4. \A a \in Applications : status'[a] = IF a \in S THEN "WITHDRAWN" ELSE status[a]
      BY <2>3 DEF WithdrawCommit, WriteStatus, Overwrite
    <3>5. S \subseteq Applications
      BY DEF Rows
    <3> QED
      BY <2>0, <3>2, <3>3, <3>4, <3>5 DEF SettledOK
  <2>4. ASSUME NEW a \in Applications, NEW new \in ApplicationStatus, SetRead(r, a, new)
        PROVE  SettledOK'
    <3>1. a \notin settled
      BY <2>0, <2>4 DEF SetRead, Rows, ApplicationStatus
    <3>2. Alone(r) /\ req'[r].step = "setting" /\ req'[r].app = a
      BY <2>4, BecomeSetting DEF SetRead, Begin
    <3> QED
      BY <2>0, <2>4, <3>1, <3>2, SettledFrame DEF SetRead, history
  <2>5. CASE SetCommit(r)
    <3>1. Decided(req[r].app)
      BY <2>5 DEF SetCommit, Decided
    <3>2. \A a \in Applications \ {req[r].app} : status'[a] = status[a]
      BY <2>5 DEF SetCommit, WriteStatus, Overwrite
    <3>3. Alone(r) /\ req'[r].step \in {"idle", "regretting"} /\ settled' = settled
      <4>1. Become(r, Idle) \/ Become(r, [req[r] EXCEPT !.step = "regretting"])
        BY <2>5 DEF SetCommit
      <4> QED
        BY <2>5, <4>1, BecomeIdle, BecomeStep DEF SetCommit
    <3> QED
      BY <2>0, <3>1, <3>2, <3>3, SettledFrame
  <2>6. CASE Regret(r)
    <3>1. Alone(r) /\ req'[r].step = "idle"
      BY <2>6, BecomeIdle DEF Regret
    <3> QED
      BY <2>0, <2>6, <3>1, SettledFrame DEF Regret
  <2>7. ASSUME NEW a \in Applications, DeleteApplication(r, a)
        PROVE  SettledOK'
    <3>1. Alone(r) /\ req'[r].step = "idle"
      BY <2>7, BecomeIdle DEF DeleteApplication, Begin
    <3> QED
      BY <2>0, <2>7, <3>1, SettledFrame DEF DeleteApplication, history
  <2>8. CASE CloseFlush(r)
    <3>1. Alone(r) /\ req'[r].step \in {"idle", "flushed"}
      <4>1. Become(r, Idle) \/ Become(r, [req[r] EXCEPT !.step = "flushed"])
        BY <2>8 DEF CloseFlush
      <4> QED
        BY <4>1, BecomeIdle, BecomeStep
    <3> QED
      BY <2>0, <2>8, <3>1, SettledFrame DEF CloseFlush, history
  <2>9. CASE CloseSelect(r)
    <3>1. Alone(r) /\ req'[r].step = "cascading"
          /\ req'[r].chosen = {a \in Applications : status[a] \in ActiveStatuses}
      BY <2>9, BecomeCascading DEF CloseSelect
    <3>2. \A a \in settled : a \notin req'[r].chosen
      BY <2>0, <3>1 DEF ActiveStatuses
    <3> QED
      BY <2>0, <2>9, <3>1, <3>2, SettledFrame DEF CloseSelect, history
  <2>10. CASE CloseCommit(r)
    <3>1. \A a \in req[r].chosen : Decided(a)
      BY <2>10 DEF CloseCommit, Decided
    <3>2. \A a \in Applications \ req[r].chosen : status'[a] = status[a]
      BY <2>10 DEF CloseCommit, WriteStatus, Overwrite
    <3>3. Alone(r) /\ req'[r].step \in {"idle", "notifying"} /\ settled' = settled
      <4>1. Become(r, Idle) \/ Become(r, [req[r] EXCEPT !.step = "notifying"])
        BY <2>10 DEF CloseCommit
      <4> QED
        BY <2>10, <4>1, BecomeIdle, BecomeStep DEF CloseCommit
    <3> QED
      BY <2>0, <3>1, <3>2, <3>3, SettledFrame
  <2>11. CASE Notify(r)
    <3>1. Alone(r) /\ req'[r].step \in {"idle", "notifying"}
      <4>1. /\ req[r].step = "notifying"
            /\ \E a : Become(r, Idle) \/ Become(r, [req[r] EXCEPT !.chosen = @ \ {a}])
        BY <2>11 DEF Notify
      <4> QED
        BY <4>1, BecomeIdle, BecomeNotifying
    <3> QED
      BY <2>0, <2>11, <3>1, SettledFrame DEF Notify
  <2>12. CASE DropJob(r)
    <3>1. Alone(r) /\ req'[r].step = "idle"
      BY <2>12, BecomeIdle DEF DropJob
    <3> QED
      BY <2>0, <2>12, <3>1, SettledFrame DEF DropJob, history
  <2> QED
    BY <1>2, <2>1, <2>2, <2>3, <2>4, <2>5, <2>6, <2>7, <2>8, <2>9, <2>10, <2>11,
       <2>12, StepKinds
<1> QED
  BY <1>1, <1>2 DEF Next

\* A withdrawal that no decision in flight had overtaken is final: neither an
\* admin nor a closing ever brings the application back.
THEOREM WithdrawalFinal == Spec => []WithdrawalHolds
<1>1. Init => SettledOK
  BY DEF Init, SettledOK
<1>2. TypeOK /\ InFlightOK /\ SettledOK /\ [Next]_vars => SettledOK'
  BY SettledStep
<1>3. SettledOK => WithdrawalHolds
  BY DEF SettledOK, WithdrawalHolds
<1> QED
  BY <1>1, <1>2, <1>3, TypeCorrect, PTL DEF Spec

-------------------------------------------------------------------------------
(* Closings and their emails.                                              *)

\* A step that neither joins the cascades nor chooses a row that is not there.
LEMMA CascadeFrame ==
  ASSUME CascadeOK, NEW r \in Requests, Alone(r),
         \/ req'[r].step \notin {"flushed", "cascading"}
         \/ req[r].step \in {"flushed", "cascading"},
         \A a \in req'[r].chosen : a \in req[r].chosen \/ status[a] # "unborn",
         \A q \in Requests : \A a \in req'[q].chosen :
           status[a] # "unborn" => status'[a] # "unborn"
  PROVE  CascadeOK'
<1>1. \A q \in Requests : req'[q].step \in {"flushed", "cascading"}
                            => req[q].step \in {"flushed", "cascading"}
  BY DEF Alone
<1>2. \A q \in Requests : \A a \in req'[q].chosen : status[a] # "unborn"
  BY DEF CascadeOK, Alone
<1> QED
  BY <1>1, <1>2 DEF CascadeOK

\* Requests choose applications.
LEMMA ChosenTyped ==
  ASSUME TypeOK, NEW q \in Requests
  PROVE  req[q].chosen \subseteq Applications
  BY DEF TypeOK, Request

\* Every step keeps CascadeOK.
LEMMA CascadeStep ==
  ASSUME TypeOK, InFlightOK, CascadeOK, [Next]_vars
  PROVE  CascadeOK'
<1>0. TypeOK' /\ InFlightOK'
  BY TypeStep
<1>1. CASE UNCHANGED vars
  BY <1>1 DEF vars, CascadeOK
<1>2. ASSUME NEW r \in Requests, Arrive(r) \/ Serve(r) \/ Abort(r)
      PROVE  CascadeOK'
  <2>0. \A q \in Requests : req'[q].chosen \subseteq Applications
    BY <1>0 DEF TypeOK, Request
  <2>1. CASE Quiet(r)
    BY <2>1, CascadeFrame DEF Quiet
  <2>2. CASE Insert(r)
    <3>1. Alone(r) /\ req'[r].step = "idle" /\ req'[r].chosen = {}
      BY <2>2, BecomeIdle DEF Insert, InsertIf
    <3>2. \A a \in Applications : status[a] # "unborn" => status'[a] # "unborn"
      BY <2>2 DEF Insert, InsertIf, TypeOK
    <3> QED
      BY <2>0, <3>1, <3>2, CascadeFrame
  <2>3. ASSUME NEW S, NEW st \in ApplicationStatus, WriteStatus(S, st)
        PROVE  \A a \in Applications : status[a] # "unborn" => status'[a] # "unborn"
    BY <2>3 DEF WriteStatus, Overwrite, ApplicationStatus
  <2>4. CASE WithdrawCommit(r)
    <3>1. Alone(r) /\ req'[r].step = "idle" /\ req'[r].chosen = {}
      BY <2>4, BecomeIdle DEF WithdrawCommit
    <3>2. \A a \in Applications : status[a] # "unborn" => status'[a] # "unborn"
      BY <2>3, <2>4 DEF WithdrawCommit, ApplicationStatus
    <3> QED
      BY <2>0, <3>1, <3>2, CascadeFrame
  <2>5. ASSUME NEW a \in Applications, NEW new \in ApplicationStatus, SetRead(r, a, new)
        PROVE  CascadeOK'
    <3>1. Alone(r) /\ req'[r].step = "setting" /\ req'[r].chosen = {} /\ status' = status
      BY <2>5, BecomeSetting DEF SetRead, Begin
    <3> QED
      BY <3>1, CascadeFrame
  <2>6. CASE SetCommit(r)
    <3>1. Become(r, Idle) \/ Become(r, [req[r] EXCEPT !.step = "regretting"])
      BY <2>6 DEF SetCommit
    <3>2. /\ Alone(r) /\ req'[r].step \in {"idle", "regretting"}
          /\ req'[r].chosen \subseteq req[r].chosen
      BY <3>1, BecomeIdle, BecomeStep
    <3>3. req[r].new \in ApplicationStatus
      BY <2>6 DEF SetCommit, InFlightOK, Sound
    <3>4. \A a \in Applications : status[a] # "unborn" => status'[a] # "unborn"
      BY <2>3, <2>6, <3>3 DEF SetCommit
    <3> QED
      BY <2>0, <3>2, <3>4, CascadeFrame
  <2>7. CASE Regret(r)
    <3>1. Alone(r) /\ req'[r].step = "idle" /\ req'[r].chosen = {} /\ status' = status
      BY <2>7, BecomeIdle DEF Regret
    <3> QED
      BY <3>1, CascadeFrame
  <2>8. ASSUME NEW a \in Applications, DeleteApplication(r, a)
        PROVE  CascadeOK'
    <3>1. Alone(r) /\ req'[r].step = "idle" /\ req'[r].chosen = {}
      BY <2>8, BecomeIdle DEF DeleteApplication, Begin
    <3>2. \A b \in Applications : status[b] # "unborn" => status'[b] # "unborn"
      BY <2>8 DEF DeleteApplication, TypeOK
    <3> QED
      BY <2>0, <3>1, <3>2, CascadeFrame
  <2>9. CASE CloseFlush(r)
    <3>1. Become(r, Idle) \/ Become(r, [req[r] EXCEPT !.step = "flushed"])
      BY <2>9 DEF CloseFlush
    <3>2. Alone(r) /\ req'[r].chosen \subseteq req[r].chosen /\ status' = status
      BY <2>9, <3>1, BecomeIdle, BecomeStep DEF CloseFlush
    <3>3. \A q \in Requests \ {r} : req[q].step \notin {"flushed", "cascading"}
      BY <2>9 DEF CloseFlush, JobLocked
    <3> QED
      BY <3>2, <3>3 DEF CascadeOK, Alone
  <2>10. CASE CloseSelect(r)
    <3>1. /\ Alone(r) /\ req[r].step = "flushed" /\ status' = status
          /\ req'[r].chosen = {a \in Applications : status[a] \in ActiveStatuses}
      BY <2>10, BecomeCascading DEF CloseSelect
    <3>2. \A a \in req'[r].chosen : status[a] # "unborn"
      BY <3>1 DEF ActiveStatuses
    <3> QED
      BY <3>1, <3>2, CascadeFrame
  <2>11. CASE CloseCommit(r)
    <3>1. Become(r, Idle) \/ Become(r, [req[r] EXCEPT !.step = "notifying"])
      BY <2>11 DEF CloseCommit
    <3>2. /\ Alone(r) /\ req'[r].step \in {"idle", "notifying"}
          /\ req'[r].chosen \subseteq req[r].chosen
      BY <3>1, BecomeIdle, BecomeStep
    <3>3. \A a \in Applications : status[a] # "unborn" => status'[a] # "unborn"
      BY <2>3, <2>11 DEF CloseCommit, ApplicationStatus
    <3> QED
      BY <2>0, <3>2, <3>3, CascadeFrame
  <2>12. CASE Notify(r)
    <3>1. /\ req[r].step = "notifying"
          /\ \E a : Become(r, Idle) \/ Become(r, [req[r] EXCEPT !.chosen = @ \ {a}])
      BY <2>12 DEF Notify
    <3>2. /\ Alone(r) /\ req'[r].step \in {"idle", "notifying"}
          /\ req'[r].chosen \subseteq req[r].chosen
      BY <3>1, BecomeIdle, BecomeNotifying
    <3> QED
      BY <2>12, <3>2, CascadeFrame DEF Notify
  <2>13. CASE DropJob(r)
    <3>1. Alone(r) /\ req'[r].step = "idle" /\ req'[r].chosen = {}
      BY <2>13, BecomeIdle DEF DropJob
    <3>2. \A a \in Applications : status[a] # "unborn" => status'[a] # "unborn"
      BY <2>13 DEF DropJob
    <3> QED
      BY <2>0, <3>1, <3>2, CascadeFrame
  <2> QED
    BY <1>2, <2>1, <2>2, <2>4, <2>5, <2>6, <2>7, <2>8, <2>9, <2>10, <2>11, <2>12,
       <2>13, StepKinds
<1> QED
  BY <1>1, <1>2 DEF Next

\* The closings that owe an email are finitely many.
LEMMA OwedFinite == \A a : IsFiniteSet(Owed(a)) /\ Cardinality(Owed(a)) \in Nat
<1>1. \A a : IsFiniteSet(Owed(a))
  BY RecruitmentAssumption, FS_Subset DEF Owed
<1> QED
  BY <1>1, FS_CardinalityType

\* What one application needs for NoticeOK.
Paid(a) == status[a] # "deleted" => notices[a] + Cardinality(Owed(a)) <= closures[a]

\* No closing joins those that owe a an email.
LEMMA PaidFrame ==
  ASSUME TypeOK, NEW a \in Applications, Paid(a), TypeOK',
         status'[a] # "deleted" => status[a] # "deleted",
         notices'[a] = notices[a], closures'[a] >= closures[a],
         Owed(a)' \subseteq Owed(a)
  PROVE  Paid(a)'
<1>1. /\ IsFiniteSet(Owed(a)) /\ Cardinality(Owed(a)) \in Nat
      /\ Cardinality(Owed(a)') <= Cardinality(Owed(a)) /\ Cardinality(Owed(a)') \in Nat
  BY OwedFinite, FS_Subset, FS_CardinalityType
<1>2. /\ notices[a] \in Nat /\ closures[a] \in Nat /\ closures'[a] \in Nat
  BY DEF TypeOK
<1> QED
  BY <1>1, <1>2 DEF Paid

\* One closing joins them, and the application was closed once more.
LEMMA PaidClosure ==
  ASSUME TypeOK, NEW a \in Applications, Paid(a), NEW q \in Requests,
         status[a] # "deleted",
         notices'[a] = notices[a], closures'[a] = closures[a] + 1,
         Owed(a)' \subseteq Owed(a) \cup {q}
  PROVE  Paid(a)'
<1>1. /\ IsFiniteSet(Owed(a) \cup {q})
      /\ Cardinality(Owed(a) \cup {q}) <= Cardinality(Owed(a)) + 1
      /\ Cardinality(Owed(a)) \in Nat
  <2>1. IsFiniteSet(Owed(a)) /\ Cardinality(Owed(a)) \in Nat
    BY OwedFinite
  <2>2. /\ IsFiniteSet(Owed(a) \cup {q})
        /\ \/ Cardinality(Owed(a) \cup {q}) = Cardinality(Owed(a))
           \/ Cardinality(Owed(a) \cup {q}) = Cardinality(Owed(a)) + 1
    BY <2>1, FS_AddElement
  <2> QED
    BY <2>1, <2>2
<1>2. /\ Cardinality(Owed(a)') <= Cardinality(Owed(a) \cup {q})
      /\ Cardinality(Owed(a)') \in Nat
      /\ Cardinality(Owed(a) \cup {q}) \in Nat
  BY <1>1, FS_Subset, FS_CardinalityType
<1>3. notices[a] \in Nat /\ closures[a] \in Nat
  BY DEF TypeOK
<1> QED
  BY <1>1, <1>2, <1>3 DEF Paid

\* A closing sends the email that it owed.
LEMMA PaidNotice ==
  ASSUME TypeOK, NEW a \in Applications, Paid(a), NEW r \in Requests,
         r \in Owed(a), Owed(a)' = Owed(a) \ {r},
         status'[a] = status[a], closures'[a] = closures[a],
         notices'[a] \in {notices[a], notices[a] + 1}
  PROVE  Paid(a)'
<1>1. /\ Cardinality(Owed(a)') = Cardinality(Owed(a)) - 1
      /\ Cardinality(Owed(a)) \in Nat
  BY OwedFinite, FS_RemoveElement
<1>2. notices[a] \in Nat /\ closures[a] \in Nat
  BY DEF TypeOK
<1> QED
  BY <1>1, <1>2 DEF Paid

\* The requests of which Owed is made, after a step of r.
LEMMA OwedFrame ==
  ASSUME NEW r \in Requests, Alone(r), NEW a,
         status'[a] = status[a] \/ status'[a] # "JOB_CLOSED",
         \/ a \notin req'[r].chosen
         \/ req'[r].step \notin {"notifying", "cascading"}
         \/ req'[r].step = "cascading" /\ status'[a] # "JOB_CLOSED"
         \/ r \in Owed(a)
  PROVE  Owed(a)' \subseteq Owed(a)
  BY DEF Owed, Alone

\* Every step keeps NoticeOK.
LEMMA NoticeStep ==
  ASSUME TypeOK, InFlightOK, CascadeOK, NoticeOK, [Next]_vars
  PROVE  NoticeOK'
<1>0. TypeOK' /\ \A a \in Applications : Paid(a)
  BY TypeStep DEF NoticeOK, Paid
<1> SUFFICES ASSUME NEW a \in Applications
             PROVE  Paid(a)'
  BY DEF NoticeOK, Paid
<1>t. /\ notices[a] \in Nat /\ closures[a] \in Nat
      /\ status[a] \in ApplicationStatus \cup {"unborn", "deleted"}
  BY DEF TypeOK
<1>1. CASE UNCHANGED vars
  BY <1>0, <1>1 DEF vars, history, Paid, Owed
<1>2. ASSUME NEW r \in Requests, Arrive(r) \/ Serve(r) \/ Abort(r)
      PROVE  Paid(a)'
  <2>1. CASE Quiet(r)
    <3>1. Owed(a)' \subseteq Owed(a)
      BY <2>1, OwedFrame DEF Quiet
    <3> QED
      BY <1>0, <1>t, <2>1, <3>1, PaidFrame DEF Quiet, history
  <2>2. CASE Insert(r)
    <3>1. Alone(r) /\ req'[r].chosen = {}
      BY <2>2, BecomeIdle DEF Insert, InsertIf
    <3>2. \/ status'[a] = status[a]
          \/ status[a] = "unborn" /\ status'[a] = "NEW"
      BY <2>2 DEF Insert, InsertIf, TypeOK
    <3>3. Owed(a)' \subseteq Owed(a)
      BY <3>1, <3>2, OwedFrame
    <3> QED
      BY <1>0, <1>t, <2>2, <3>2, <3>3, PaidFrame DEF Insert, InsertIf, history
  <2>3. CASE WithdrawCommit(r)
    <3>1. Alone(r) /\ req'[r].chosen = {}
      BY <2>3, BecomeIdle DEF WithdrawCommit
    <3>2. /\ status'[a] = IF a \in {req[r].app} \cap Rows THEN "WITHDRAWN" ELSE status[a]
          /\ closures'[a] = closures[a]
      BY <1>t, <2>3 DEF WithdrawCommit, WriteStatus, Overwrite
    <3>3. status'[a] = status[a] \/ (status[a] # "deleted" /\ status'[a] = "WITHDRAWN")
      BY <3>2 DEF Rows, ApplicationStatus
    <3>4. Owed(a)' \subseteq Owed(a)
      BY <3>1, <3>3, OwedFrame
    <3> QED
      BY <1>0, <1>t, <2>3, <3>2, <3>3, <3>4, PaidFrame DEF WithdrawCommit
  <2>4. ASSUME NEW b \in Applications, NEW new \in ApplicationStatus, SetRead(r, b, new)
        PROVE  Paid(a)'
    <3>1. Alone(r) /\ req'[r].chosen = {}
      BY <2>4, BecomeSetting DEF SetRead, Begin
    <3>2. Owed(a)' \subseteq Owed(a)
      BY <2>4, <3>1, OwedFrame DEF SetRead
    <3> QED
      BY <1>0, <1>t, <2>4, <3>2, PaidFrame DEF SetRead, history
  <2>5. CASE SetCommit(r)
    <3> DEFINE write == IF req[r].old # req[r].new THEN {req[r].app} ELSE {}
               fails == \/ req[r].app \notin Rows
                        \/ ~IndexAllows(Overwrite(write, req[r].new))
               S     == IF fails THEN {} ELSE write
    <3>1. Become(r, Idle) \/ Become(r, [req[r] EXCEPT !.step = "regretting"])
      BY <2>5 DEF SetCommit
    <3>2. Alone(r) /\ req'[r].step \in {"idle", "regretting"}
      BY <3>1, BecomeIdle, BecomeStep
    <3>3. WriteStatus(S, req[r].new) /\ notices' = notices
      BY <2>5 DEF SetCommit
    <3>4. S \subseteq Rows /\ req[r].new \in ApplicationStatus
      BY <2>5 DEF SetCommit, InFlightOK, Sound
    <3> HIDE DEF S
    <3>5. CASE a \in S /\ req[r].new = "JOB_CLOSED" /\ status[a] # "JOB_CLOSED"
      <4>1. closures'[a] = closures[a] + 1 /\ status[a] # "deleted"
        BY <3>3, <3>4, <3>5 DEF WriteStatus, Rows, ApplicationStatus
      <4>2. PICK q \in Requests : \A p \in Requests : req[p].step = "cascading" => p = q
        BY DEF CascadeOK
      <4>3. Owed(a)' \subseteq Owed(a) \cup {q}
        BY <3>2, <4>2 DEF Owed, Alone
      <4> QED
        BY <1>0, <3>3, <4>1, <4>3, PaidClosure
    <3>6. CASE ~(a \in S /\ req[r].new = "JOB_CLOSED" /\ status[a] # "JOB_CLOSED")
      <4>1. /\ closures'[a] = closures[a]
            /\ status'[a] = status[a] \/ status'[a] # "JOB_CLOSED"
            /\ status'[a] # "deleted" => status[a] # "deleted"
        BY <1>t, <3>3, <3>4, <3>6 DEF WriteStatus, Overwrite, Rows, ApplicationStatus
      <4>2. Owed(a)' \subseteq Owed(a)
        BY <3>2, <4>1, OwedFrame
      <4> QED
        BY <1>0, <1>t, <3>3, <4>1, <4>2, PaidFrame
    <3> QED
      BY <3>5, <3>6
  <2>6. CASE Regret(r)
    <3>1. Alone(r) /\ req'[r].chosen = {}
      BY <2>6, BecomeIdle DEF Regret
    <3>2. Owed(a)' \subseteq Owed(a)
      BY <2>6, <3>1, OwedFrame DEF Regret
    <3> QED
      BY <1>0, <1>t, <2>6, <3>2, PaidFrame DEF Regret
  <2>7. ASSUME NEW b \in Applications, DeleteApplication(r, b)
        PROVE  Paid(a)'
    <3>1. Alone(r) /\ req'[r].chosen = {}
      BY <2>7, BecomeIdle DEF DeleteApplication, Begin
    <3>2. status'[a] \in {status[a], "deleted"}
      BY <2>7 DEF DeleteApplication, TypeOK
    <3>3. Owed(a)' \subseteq Owed(a)
      BY <3>1, <3>2, OwedFrame
    <3> QED
      BY <1>0, <1>t, <2>7, <3>2, <3>3, PaidFrame DEF DeleteApplication, history
  <2>8. CASE CloseFlush(r)
    <3>1. Become(r, Idle) \/ Become(r, [req[r] EXCEPT !.step = "flushed"])
      BY <2>8 DEF CloseFlush
    <3>2. Alone(r) /\ req'[r].step \in {"idle", "flushed"}
      BY <3>1, BecomeIdle, BecomeStep
    <3>3. Owed(a)' \subseteq Owed(a)
      BY <2>8, <3>2, OwedFrame DEF CloseFlush
    <3> QED
      BY <1>0, <1>t, <2>8, <3>3, PaidFrame DEF CloseFlush, history
  <2>9. CASE CloseSelect(r)
    <3>1. /\ Alone(r) /\ req'[r].step = "cascading"
          /\ req'[r].chosen = {b \in Applications : status[b] \in ActiveStatuses}
      BY <2>9, BecomeCascading DEF CloseSelect
    <3>2. a \notin req'[r].chosen \/ status[a] # "JOB_CLOSED"
      BY <3>1 DEF ActiveStatuses
    <3>3. Owed(a)' \subseteq Owed(a)
      BY <2>9, <3>1, <3>2, OwedFrame DEF CloseSelect
    <3> QED
      BY <1>0, <1>t, <2>9, <3>3, PaidFrame DEF CloseSelect, history
  <2>10. CASE CloseCommit(r)
    <3> DEFINE write == req[r].chosen \cap Rows
               fails == \/ \E b \in req[r].chosen : req[r].chosen = {b} /\ write = {}
                        \/ ~IndexAllows(Overwrite(write, "JOB_CLOSED"))
    <3>1. /\ WriteStatus(IF fails THEN {} ELSE write, "JOB_CLOSED")
          /\ Become(r, IF fails \/ req[r].chosen = {} THEN Idle
                       ELSE [req[r] EXCEPT !.step = "notifying"])
          /\ notices' = notices /\ req[r].step = "cascading"
      BY <2>10 DEF CloseCommit
    <3>2. CASE fails
      <4>1. Alone(r) /\ req'[r].chosen = {}
        BY <3>1, <3>2, BecomeIdle
      <4>2. status'[a] = status[a] /\ closures'[a] = closures[a]
        BY <3>1, <3>2 DEF WriteStatus, Overwrite
      <4>3. Owed(a)' \subseteq Owed(a)
        BY <4>1, <4>2, OwedFrame
      <4> QED
        BY <1>0, <1>t, <3>1, <4>2, <4>3, PaidFrame
    <3>3. CASE ~fails
      <4>1. Become(r, Idle) \/ Become(r, [req[r] EXCEPT !.step = "notifying"])
        BY <3>1
      <4>2. Alone(r) /\ req'[r].chosen \subseteq req[r].chosen
        BY <4>1, BecomeIdle, BecomeStep
      <4>3. /\ status'[a] = IF a \in write THEN "JOB_CLOSED" ELSE status[a]
            /\ closures'[a] = IF a \in write /\ status[a] # "JOB_CLOSED"
                              THEN closures[a] + 1 ELSE closures[a]
        BY <3>1, <3>3 DEF WriteStatus, Overwrite
      <4>4. \A q \in Requests : req[q].step = "cascading" => q = r
        BY <3>1 DEF CascadeOK
      <4>5. CASE a \in write /\ status[a] # "JOB_CLOSED"
        <5>1. status[a] # "deleted"
          BY <4>5 DEF Rows, ApplicationStatus
        <5>2. Owed(a)' \subseteq Owed(a) \cup {r}
          BY <4>2, <4>4 DEF Owed, Alone
        <5> QED
          BY <1>0, <3>1, <4>3, <4>5, <5>1, <5>2, PaidClosure
      <4>6. CASE a \in write /\ status[a] = "JOB_CLOSED"
        <5>1. r \in Owed(a)
          BY <3>1, <4>6 DEF Owed
        <5>2. Owed(a)' \subseteq Owed(a)
          BY <4>2, <4>3, <4>6, <5>1, OwedFrame
        <5> QED
          BY <1>0, <1>t, <3>1, <4>3, <4>6, <5>2, PaidFrame
      <4>7. CASE a \notin write /\ a \notin req[r].chosen
        <5>1. Owed(a)' \subseteq Owed(a)
          BY <4>2, <4>3, <4>7, OwedFrame
        <5> QED
          BY <1>0, <1>t, <3>1, <4>3, <4>7, <5>1, PaidFrame
      <4>8. CASE a \notin write /\ a \in req[r].chosen
        <5>1. status[a] = "deleted"
          BY <1>t, <4>8 DEF Rows, CascadeOK
        <5> QED
          BY <4>3, <4>8, <5>1 DEF Paid
      <4> QED
        BY <4>5, <4>6, <4>7, <4>8
    <3> QED
      BY <3>2, <3>3
  <2>11. CASE Notify(r)
    <3>1. PICK b \in req[r].chosen :
             /\ notices' = [notices EXCEPT ![b] = @ + 1] \/ notices' = notices
             /\ Become(r, IF req[r].chosen = {b} THEN Idle
                          ELSE [req[r] EXCEPT !.chosen = @ \ {b}])
      BY <2>11 DEF Notify
    <3>2. /\ req[r].step = "notifying" /\ status' = status /\ closures' = closures
          /\ b \in Applications
      BY <2>11, <3>1, ChosenTyped DEF Notify
    <3>3. /\ Alone(r) /\ req'[r].chosen = req[r].chosen \ {b}
          /\ req'[r].step = "notifying" \/ req'[r].chosen = {}
      <4>1. CASE req[r].chosen = {b}
        BY <3>1, <4>1, BecomeIdle
      <4>2. CASE req[r].chosen # {b}
        BY <3>1, <3>2, <4>2, BecomeNotifying
      <4> QED
        BY <4>1, <4>2
    <3>4. CASE a = b
      <4>1. r \in Owed(a) /\ Owed(a)' = Owed(a) \ {r}
        BY <3>1, <3>2, <3>3, <3>4 DEF Owed, Alone
      <4>2. notices'[a] \in {notices[a], notices[a] + 1}
        BY <3>1, <3>4 DEF TypeOK
      <4> QED
        BY <1>0, <3>2, <4>1, <4>2, PaidNotice
    <3>5. CASE a # b
      <4>1. notices'[a] = notices[a]
        BY <3>1, <3>5 DEF TypeOK
      <4>2. Owed(a)' \subseteq Owed(a)
        BY <3>2, <3>3 DEF Owed, Alone
      <4> QED
        BY <1>0, <1>t, <3>2, <4>1, <4>2, PaidFrame
    <3> QED
      BY <3>4, <3>5
  <2>12. CASE DropJob(r)
    <3>1. Alone(r) /\ req'[r].chosen = {}
      BY <2>12, BecomeIdle DEF DropJob
    <3>2. status'[a] \in {status[a], "deleted"}
      BY <2>12 DEF DropJob
    <3>3. Owed(a)' \subseteq Owed(a)
      BY <3>1, <3>2, OwedFrame
    <3> QED
      BY <1>0, <1>t, <2>12, <3>2, <3>3, PaidFrame DEF DropJob, history
  <2> QED
    BY <1>2, <2>1, <2>2, <2>3, <2>4, <2>5, <2>6, <2>7, <2>8, <2>9, <2>10, <2>11,
       <2>12, StepKinds
<1> QED
  BY <1>1, <1>2 DEF Next

\* The job-closed email goes out at most once for each closure of an application:
\* two admins who close the job at the same time do not mail its candidates twice.
THEOREM NoticesEarned == Spec => []NoticeEarned
<1>1. Init => CascadeOK /\ NoticeOK
  <2> SUFFICES ASSUME Init PROVE CascadeOK /\ NoticeOK
    OBVIOUS
  <2>1. \A r \in Requests : req[r].step = "idle" /\ req[r].chosen = {}
    BY DEF Init, Idle
  <2>2. \A a : Owed(a) = {}
    BY <2>1 DEF Owed
  <2>3. \A a : Cardinality(Owed(a)) = 0
    BY <2>2, FS_EmptySet
  <2> QED
    BY <2>1, <2>3 DEF Init, CascadeOK, NoticeOK
<1>2. TypeOK /\ InFlightOK /\ CascadeOK /\ NoticeOK /\ [Next]_vars
        => (CascadeOK /\ NoticeOK)'
  BY CascadeStep, NoticeStep
<1>3. TypeOK /\ NoticeOK => NoticeEarned
  <2> SUFFICES ASSUME TypeOK, NoticeOK, NEW a \in Rows
               PROVE  notices[a] <= closures[a]
    BY DEF NoticeEarned
  <2>1. a \in Applications /\ status[a] # "deleted"
    BY DEF Rows, ApplicationStatus
  <2>2. notices[a] \in Nat /\ closures[a] \in Nat
    BY <2>1 DEF TypeOK
  <2> QED
    BY <2>1, <2>2, OwedFinite DEF NoticeOK
<1> QED
  BY <1>1, <1>2, <1>3, TypeCorrect, PTL DEF Spec

-------------------------------------------------------------------------------
(* Rejection emails.                                                       *)

\* Every step keeps RegretOK.
LEMMA RegretStep ==
  ASSUME TypeOK, InFlightOK, RegretOK, [Next]_vars
  PROVE  RegretOK'
<1>1. CASE UNCHANGED vars
  BY <1>1 DEF vars, history, RegretOK
<1>2. ASSUME NEW r \in Requests, Arrive(r) \/ Serve(r) \/ Abort(r)
      PROVE  RegretOK'
  <2>1. ASSUME Alone(r), req'[r].step # "regretting", regrets' = regrets,
               rejected \subseteq rejected'
        PROVE  RegretOK'
    BY <2>1 DEF RegretOK, Alone
  <2>2. ASSUME NEW S, NEW st, WriteStatus(S, st)
        PROVE  rejected \subseteq rejected'
    BY <2>2 DEF WriteStatus
  <2>3. CASE Quiet(r)
    BY <2>1, <2>3 DEF Quiet, history
  <2>4. CASE SetCommit(r)
    <3> DEFINE write == IF req[r].old # req[r].new THEN {req[r].app} ELSE {}
               fails == \/ req[r].app \notin Rows
                        \/ ~IndexAllows(Overwrite(write, req[r].new))
    <3>1. /\ WriteStatus(IF fails THEN {} ELSE write, req[r].new)
          /\ Become(r, IF req[r].new = "REJECTED" /\ write # {} /\ ~fails
                       THEN [req[r] EXCEPT !.step = "regretting"] ELSE Idle)
          /\ regrets' = regrets
      BY <2>4 DEF SetCommit
    <3>2. CASE req[r].new = "REJECTED" /\ write # {} /\ ~fails
      <4>1. Alone(r) /\ req'[r].app = req[r].app
        BY <3>1, <3>2, BecomeStep
      <4>2. req[r].app \in rejected' /\ rejected \subseteq rejected'
        BY <3>1, <3>2 DEF WriteStatus
      <4> QED
        BY <3>1, <4>1, <4>2 DEF RegretOK, Alone
    <3>3. CASE ~(req[r].new = "REJECTED" /\ write # {} /\ ~fails)
      <4>1. Become(r, Idle)
        BY <3>1, <3>3
      <4> QED
        BY <2>1, <2>2, <3>1, <4>1, BecomeIdle
    <3> QED
      BY <3>2, <3>3
  <2>5. CASE Regret(r)
    <3>1. Alone(r) /\ req'[r].step = "idle"
      BY <2>5, BecomeIdle DEF Regret
    <3>2. req[r].app \in rejected
      BY <2>5 DEF Regret, RegretOK
    <3> QED
      BY <2>5, <3>1, <3>2 DEF Regret, RegretOK, Alone
  <2>6. CASE Insert(r) \/ (\E a \in Applications : DeleteApplication(r, a)) \/ DropJob(r)
    <3>1. Become(r, Idle) /\ UNCHANGED <<rejected, regrets>>
      BY <2>6 DEF Insert, InsertIf, DeleteApplication, Begin, DropJob, history
    <3> QED
      BY <2>1, <3>1, BecomeIdle
  <2>7. CASE WithdrawCommit(r)
    <3>1. Become(r, Idle) /\ regrets' = regrets /\ rejected \subseteq rejected'
      BY <2>2, <2>7 DEF WithdrawCommit
    <3> QED
      BY <2>1, <3>1, BecomeIdle
  <2>8. ASSUME NEW a \in Applications, NEW new \in ApplicationStatus, SetRead(r, a, new)
        PROVE  RegretOK'
    <3>1. Alone(r) /\ req'[r].step = "setting"
      BY <2>8, BecomeSetting DEF SetRead, Begin
    <3> QED
      BY <2>1, <2>8, <3>1 DEF SetRead, history
  <2>9. CASE CloseFlush(r)
    <3>1. Become(r, Idle) \/ Become(r, [req[r] EXCEPT !.step = "flushed"])
      BY <2>9 DEF CloseFlush
    <3>2. Alone(r) /\ req'[r].step \in {"idle", "flushed"}
      BY <3>1, BecomeIdle, BecomeStep
    <3> QED
      BY <2>1, <2>9, <3>2 DEF CloseFlush, history
  <2>10. CASE CloseSelect(r)
    <3>1. Alone(r) /\ req'[r].step = "cascading"
      BY <2>10, BecomeCascading DEF CloseSelect
    <3> QED
      BY <2>1, <2>10, <3>1 DEF CloseSelect, history
  <2>11. CASE CloseCommit(r)
    <3>1. Become(r, Idle) \/ Become(r, [req[r] EXCEPT !.step = "notifying"])
      BY <2>11 DEF CloseCommit
    <3>2. Alone(r) /\ req'[r].step \in {"idle", "notifying"}
      BY <3>1, BecomeIdle, BecomeStep
    <3>3. regrets' = regrets /\ rejected \subseteq rejected'
      BY <2>2, <2>11 DEF CloseCommit
    <3> QED
      BY <2>1, <3>2, <3>3
  <2>12. CASE Notify(r)
    <3>1. /\ req[r].step = "notifying"
          /\ \E a : Become(r, Idle) \/ Become(r, [req[r] EXCEPT !.chosen = @ \ {a}])
      BY <2>12 DEF Notify
    <3>2. Alone(r) /\ req'[r].step \in {"idle", "notifying"}
      BY <3>1, BecomeIdle, BecomeNotifying
    <3> QED
      BY <2>1, <2>12, <3>2 DEF Notify
  <2> QED
    BY <1>2, <2>3, <2>4, <2>5, <2>6, <2>7, <2>8, <2>9, <2>10, <2>11, <2>12, StepKinds
<1> QED
  BY <1>1, <1>2 DEF Next

\* A rejection email is enqueued only for a rejection that was committed.
THEOREM RegretsCommitted == Spec => []RegretCommitted
<1>1. Init => RegretOK
  BY DEF Init, Idle, RegretOK
<1>2. TypeOK /\ InFlightOK /\ RegretOK /\ [Next]_vars => RegretOK'
  BY RegretStep
<1>3. RegretOK => RegretCommitted
  BY DEF RegretOK, RegretCommitted
<1> QED
  BY <1>1, <1>2, <1>3, TypeCorrect, PTL DEF Spec
-------------------------------------------------------------------------------
(* Implementing the book.                                                  *)

Holding == {r \in Requests : req[r].step \in {"flushed", "cascading"}}

\* A closing that has flushed the posting keeps it from being deleted.
HeldOK == Holding # {} => job # "deleted"

\* The posting is deleted, or keeps a status if it has one.
LEMMA JobKinds ==
  ASSUME TypeOK, InFlightOK, HeldOK, NEW r \in Requests,
         Arrive(r) \/ Serve(r) \/ Abort(r)
  PROVE  \/ DropJob(r)
         \/ job' = job
         \/ job # "deleted" /\ job' # "deleted"
<1>1. ASSUME NEW from, NEW to \in JobStatus, WriteJob(r, from, to)
      PROVE  job' = job \/ (job # "deleted" /\ job' # "deleted")
  BY <1>1 DEF WriteJob, JobStatus
<1>2. CASE ApproveCommit(r) \/ RejectCommit(r)
  BY <1>1, <1>2 DEF ApproveCommit, RejectCommit, JobStatus
<1>3. CASE UpdateCommit(r)
  BY <1>1, <1>3 DEF UpdateCommit, InFlightOK, Sound
<1>4. CASE CloseCommit(r)
  <2>1. r \in Holding
    BY <1>4 DEF CloseCommit, Holding
  <2>2. job' \in {job, "CLOSED"}
    BY <1>4 DEF CloseCommit
  <2> QED
    BY <2>1, <2>2 DEF HeldOK
<1> QED
  BY <1>2, <1>3, <1>4
  DEF Arrive, Serve, Abort, RemoveCommit, DeleteCommit, ApplyRead, WithdrawRead, SetRead,
      DeleteApplication, ApproveRead, RejectRead, RemoveRead, DeleteRead, DecideRead,
      UpdateRead, ApplyCheck, Insert, InsertIf, WithdrawCommit, SetCommit, Regret,
      CloseFlush, CloseSelect, Notify

\* Only a flush joins those that hold the posting.
LEMMA HoldingStep ==
  ASSUME TypeOK, InFlightOK, NEW r \in Requests, Arrive(r) \/ Serve(r) \/ Abort(r)
  PROVE  Holding' \subseteq Holding \/ CloseFlush(r)
<1>1. ASSUME Alone(r), \/ req'[r].step \notin {"flushed", "cascading"}
                       \/ req[r].step \in {"flushed", "cascading"}
      PROVE  Holding' \subseteq Holding
  BY <1>1 DEF Alone, Holding
<1>2. CASE Quiet(r)
  BY <1>1, <1>2 DEF Quiet
<1>3. CASE Become(r, Idle)
  BY <1>1, <1>3, BecomeIdle
<1>4. ASSUME NEW a \in Applications, NEW new \in ApplicationStatus, SetRead(r, a, new)
      PROVE  Holding' \subseteq Holding
  BY <1>1, <1>4, BecomeSetting DEF SetRead, Begin
<1>5. CASE SetCommit(r)
  <2>1. Become(r, Idle) \/ Become(r, [req[r] EXCEPT !.step = "regretting"])
    BY <1>5 DEF SetCommit
  <2> QED
    BY <1>1, <1>3, <2>1, BecomeStep
<1>6. CASE CloseSelect(r)
  <2>1. Alone(r)
    BY <1>6, BecomeCascading DEF CloseSelect
  <2> QED
    BY <1>1, <1>6, <2>1 DEF CloseSelect
<1>7. CASE CloseCommit(r)
  <2>1. Become(r, Idle) \/ Become(r, [req[r] EXCEPT !.step = "notifying"])
    BY <1>7 DEF CloseCommit
  <2> QED
    BY <1>1, <1>3, <2>1, BecomeStep
<1>8. CASE Notify(r)
  <2>1. \E a : Become(r, Idle) \/ Become(r, [req[r] EXCEPT !.chosen = @ \ {a}])
    BY <1>8 DEF Notify
  <2>2. req[r].step = "notifying"
    BY <1>8 DEF Notify
  <2> QED
    BY <1>1, <1>3, <2>1, <2>2, BecomeNotifying
<1> QED
  BY <1>2, <1>3, <1>4, <1>5, <1>6, <1>7, <1>8, StepKinds
  DEF Insert, InsertIf, WithdrawCommit, Regret, DeleteApplication, Begin, DropJob

\* Every step keeps HeldOK: a deletion waits for the closing.
LEMMA HeldStep ==
  ASSUME TypeOK, InFlightOK, HeldOK, [Next]_vars
  PROVE  HeldOK'
<1>1. CASE UNCHANGED vars
  BY <1>1 DEF vars, HeldOK, Holding
<1>2. ASSUME NEW r \in Requests, Arrive(r) \/ Serve(r) \/ Abort(r)
      PROVE  HeldOK'
  <2>1. CASE CloseFlush(r)
    <3>1. job' = job
      BY <2>1 DEF CloseFlush
    <3>2. CASE job = "deleted"
      <4>1. Alone(r) /\ req'[r].step = "idle"
        BY <2>1, <3>2, BecomeIdle DEF CloseFlush
      <4> QED
        BY <3>1, <4>1 DEF HeldOK, Holding, Alone
    <3> QED
      BY <3>1, <3>2 DEF HeldOK
  <2>2. CASE DropJob(r)
    <3>1. Alone(r) /\ req'[r].step = "idle"
      BY <2>2, BecomeIdle DEF DropJob
    <3>2. Holding' = {}
      BY <2>2, <3>1 DEF DropJob, JobLocked, Holding, Alone
    <3> QED
      BY <3>2 DEF HeldOK
  <2> QED
    BY <1>2, <2>1, <2>2, JobKinds, HoldingStep DEF HeldOK
<1> QED
  BY <1>1, <1>2 DEF Next

\* The two modules have the same rows and the same index.
LEMMA SameRows ==
  /\ Book!Entries = Rows
  /\ \A st : Book!Counting(st) = Indexed(st) /\ Book!Fits(st) = IndexAllows(st)
  BY DEF Book!Entries, Rows, Book!Counting, Indexed, Book!Fits, IndexAllows,
         Book!Statuses, ApplicationStatus

\* A decision or a closing that the index allows enters its status.
LEMMA WriteEnters ==
  ASSUME TypeOK, NEW S \in SUBSET Rows, NEW st, WriteStatus(S, st),
         IndexAllows(status'), S \cap settled = {},
         UNCHANGED <<owner, notices, regrets, settled>>
  PROVE  Book!Enter(S, st)
<1>1. S \subseteq Book!Entries \ settled
  BY SameRows
<1> QED
  BY <1>1, SameRows DEF WriteStatus, Overwrite, Book!Enter

\* Writing no row changes nothing.
LEMMA WriteNothing ==
  ASSUME TypeOK, NEW st, WriteStatus({}, st)
  PROVE  UNCHANGED <<status, closures, rejected>>
  BY DEF TypeOK, WriteStatus, Overwrite

\* What a step of a request is in the book.
LEMMA BookStep ==
  ASSUME TypeOK, InFlightOK, SettledOK, RegretOK, HeldOK, NoticeEarned', TypeOK',
         [Next]_vars
  PROVE  [Book!BookNext]_(Book!book)
<1> USE DEF history
<1>p. JobStatus = Book!Postings /\ ApplicationStatus = Book!Statuses
  BY DEF JobStatus, Book!Postings, ApplicationStatus, Book!Statuses
<1>s. ASSUME UNCHANGED <<job, status, owner, history>>
      PROVE  UNCHANGED Book!book
  BY <1>s DEF Book!book, Book!mails
<1>1. CASE UNCHANGED vars
  BY <1>1, <1>s DEF vars
<1>2. ASSUME NEW r \in Requests, Arrive(r) \/ Serve(r) \/ Abort(r)
      PROVE  Book!BookNext \/ UNCHANGED Book!book
  <2>0. /\ req[r] \in Request /\ Sound(req[r])
        /\ status \in [Applications -> ApplicationStatus \cup {"unborn", "deleted"}]
        /\ owner \in [Applications -> Candidates \cup {NoCandidate}]
    BY DEF TypeOK, InFlightOK
  <2>1. CASE DropJob(r)
    <3>1. Book!DeletePosting
      BY <2>1, SameRows DEF DropJob, Book!DeletePosting, Book!mails
    <3> QED
      BY <3>1 DEF Book!BookNext
  <2>2. CASE UNCHANGED <<status, owner, history>> /\ ~DropJob(r)
    <3>1. job' = job \/ (job \in JobStatus /\ job' \in JobStatus)
      BY <1>2, <2>2, JobKinds DEF TypeOK
    <3>2. CASE job \in JobStatus /\ job' \in JobStatus
      <4>1. Book!Post
        BY <1>p, <2>2, <3>2 DEF Book!Post, Book!mails
      <4> QED
        BY <4>1 DEF Book!BookNext
    <3> QED
      BY <1>s, <2>2, <3>1, <3>2
  <2>3. CASE Insert(r)
    <3>1. PICK a \in Applications :
             /\ status[a] = "unborn"
             /\ IF job # "deleted" /\ Vacant(req[r].cand)
                THEN /\ status' = [status EXCEPT ![a] = "NEW"]
                     /\ owner' = [owner EXCEPT ![a] = req[r].cand]
                ELSE UNCHANGED <<status, owner>>
      BY <2>3 DEF Insert, InsertIf
    <3>2. CASE job # "deleted" /\ Vacant(req[r].cand)
      <4>1. req[r].cand \in Candidates
        BY <2>0, <2>3 DEF Insert, InsertIf, Sound
      <4>2. job \in Book!Postings
        BY <1>p, <3>2 DEF TypeOK
      <4>3. \A b \in Book!Counting(status) : owner[b] # req[r].cand
        BY <3>2, SameRows DEF Vacant
      <4>4. Book!Submit(a, req[r].cand)
        BY <2>3, <3>1, <3>2, <4>2, <4>3 DEF Insert, InsertIf, Book!Submit, Book!mails
      <4> QED
        BY <4>1, <4>4 DEF Book!BookNext
    <3> QED
      BY <1>s, <2>3, <3>1, <3>2 DEF Insert, InsertIf
  <2>4. CASE WithdrawCommit(r)
    <3> DEFINE a == req[r].app
    <3>1. a \in Applications
      BY <2>0, <2>4 DEF WithdrawCommit, Sound
    <3>2. CASE a \in Rows
      <4>1. {a} \cap Rows = {a}
        BY <3>2
      <4>2. WriteStatus({a}, "WITHDRAWN") /\ settled' \in {settled, settled \cup {a}}
        BY <2>4, <4>1 DEF WithdrawCommit
      <4>3. status' = [status EXCEPT ![a] = "WITHDRAWN"]
        BY <2>0, <3>1, <4>2 DEF WriteStatus, Overwrite
      <4>4. UNCHANGED <<closures, rejected>>
        BY <4>2 DEF TypeOK, WriteStatus
      <4>5. Book!Withdraw(a)
        BY <2>4, <3>2, <4>2, <4>3, <4>4, SameRows
        DEF WithdrawCommit, Book!Withdraw, Book!mails
      <4> QED
        BY <3>1, <4>5 DEF Book!BookNext
    <3>3. CASE a \notin Rows
      <4>1. {a} \cap Rows = {}
        BY <3>3
      <4>2. WriteStatus({}, "WITHDRAWN") /\ settled' = settled
        BY <2>4, <4>1 DEF WithdrawCommit
      <4> QED
        BY <1>s, <2>4, <4>2, WriteNothing DEF WithdrawCommit
    <3> QED
      BY <3>2, <3>3
  <2>5. CASE SetCommit(r)
    <3> DEFINE a     == req[r].app
               write == IF req[r].old # req[r].new THEN {a} ELSE {}
               fails == a \notin Rows \/ ~IndexAllows(Overwrite(write, req[r].new))
    <3>1. a \in Applications /\ req[r].new \in ApplicationStatus
      BY <2>0, <2>5 DEF SetCommit, Sound
    <3>2. WriteStatus(IF fails THEN {} ELSE write, req[r].new)
      BY <2>5 DEF SetCommit
    <3>3. CASE ~fails /\ write = {a}
      <4>1. WriteStatus({a}, req[r].new) /\ {a} \in SUBSET Rows
        BY <3>2, <3>3
      <4>2. IndexAllows(status')
        BY <3>3, <4>1 DEF WriteStatus
      <4>3. {a} \cap settled = {}
        BY <2>5 DEF SetCommit, SettledOK, Decided
      <4>4. Book!Enter({a}, req[r].new)
        BY <2>5, <4>1, <4>2, <4>3, WriteEnters DEF SetCommit
      <4>5. Book!Decide(a, req[r].new)
        BY <2>5, <4>4 DEF SetCommit, Book!Decide
      <4> QED
        BY <1>p, <3>1, <4>5 DEF Book!BookNext
    <3>4. CASE fails \/ write = {}
      <4>1. WriteStatus({}, req[r].new)
        BY <3>2, <3>4
      <4> QED
        BY <1>s, <2>5, <4>1, WriteNothing DEF SetCommit
    <3> QED
      BY <3>3, <3>4
  <2>6. CASE Regret(r)
    <3>1. req[r].app \in Applications /\ req[r].app \in rejected
      BY <2>0, <2>6 DEF Regret, Sound, RegretOK
    <3>2. CASE regrets' = regrets \cup {req[r].app}
      <4>1. Book!Regret(req[r].app)
        BY <2>6, <3>1, <3>2 DEF Regret, Book!Regret
      <4> QED
        BY <3>1, <4>1 DEF Book!BookNext
    <3> QED
      BY <1>s, <2>6, <3>2 DEF Regret
  <2>7. ASSUME NEW a \in Applications, DeleteApplication(r, a)
        PROVE  Book!BookNext
    <3>1. Book!Delete(a)
      BY <2>7, SameRows DEF DeleteApplication, Book!Delete, Book!mails
    <3> QED
      BY <3>1 DEF Book!BookNext
  <2>8. CASE CloseCommit(r)
    <3> DEFINE chosen == req[r].chosen
               write  == chosen \cap Rows
               fails  == \/ \E a \in chosen : chosen = {a} /\ write = {}
                         \/ ~IndexAllows(Overwrite(write, "JOB_CLOSED"))
    <3>1. WriteStatus(IF fails THEN {} ELSE write, "JOB_CLOSED")
      BY <2>8 DEF CloseCommit
    <3>2. CASE ~fails
      <4>1. WriteStatus(write, "JOB_CLOSED") /\ job' = "CLOSED"
        BY <2>8, <3>1, <3>2 DEF CloseCommit
      <4>2. IndexAllows(status')
        BY <3>2, <4>1 DEF WriteStatus
      <4>3. write \cap settled = {}
        BY <2>8 DEF CloseCommit, SettledOK, Decided
      <4>4. write \in SUBSET Rows /\ write \in SUBSET Applications
        BY DEF Rows
      <4>5. job \in Book!Postings
        BY <1>p, <2>8 DEF CloseCommit, HeldOK, Holding, TypeOK
      <4> HIDE DEF write, fails
      <4>6. Book!Enter(write, "JOB_CLOSED")
        BY <2>8, <4>1, <4>2, <4>3, <4>4, WriteEnters DEF CloseCommit
      <4>7. Book!Close(write)
        BY <4>1, <4>5, <4>6 DEF Book!Close
      <4> QED
        BY <4>4, <4>7 DEF Book!BookNext
    <3>3. CASE fails
      <4>1. WriteStatus({}, "JOB_CLOSED") /\ job' = job
        BY <2>8, <3>1, <3>3 DEF CloseCommit
      <4> QED
        BY <1>s, <2>8, <4>1, WriteNothing DEF CloseCommit
    <3> QED
      BY <3>2, <3>3
  <2>9. CASE Notify(r)
    <3>1. PICK a \in req[r].chosen :
             notices' = [notices EXCEPT ![a] = @ + 1] \/ UNCHANGED notices
      BY <2>9 DEF Notify
    <3>2. a \in Applications
      BY <2>0 DEF Request
    <3>3. CASE notices' = [notices EXCEPT ![a] = @ + 1]
      <4>1. a \in Rows => notices[a] < closures[a]
        <5>1. notices'[a] = notices[a] + 1 /\ notices[a] \in Nat /\ closures[a] \in Nat
          BY <3>2, <3>3 DEF TypeOK
        <5>2. closures' = closures /\ Rows' = Rows
          BY <2>9 DEF Notify, Rows
        <5> QED
          BY <5>1, <5>2 DEF NoticeEarned
      <4>2. Book!Notice(a)
        BY <2>9, <3>3, <4>1, SameRows DEF Notify, Book!Notice
      <4> QED
        BY <3>2, <4>2 DEF Book!BookNext
    <3> QED
      BY <1>s, <2>9, <3>1, <3>3 DEF Notify
  <2> QED
    BY <1>2, <1>s, <2>1, <2>2, <2>3, <2>4, <2>5, <2>6, <2>7, <2>8, <2>9, StepKinds
    DEF Quiet, SetRead, CloseFlush, CloseSelect
<1> QED
  BY <1>1, <1>2 DEF Next

\* The handlers implement the book: whatever requests are in flight, a candidate
\* and a mailbox see postings and applications change as if each operation
\* happened at once, or not at all.
THEOREM BookKept == Spec => BookRefined
<1>1. Init => Book!BookInit /\ HeldOK /\ SettledOK /\ RegretOK
  BY DEF Init, Idle, JobStatus, Book!BookInit, Book!Postings, HeldOK, Holding, SettledOK,
         RegretOK
<1>2. TypeOK /\ InFlightOK /\ SettledOK /\ RegretOK /\ HeldOK /\ [Next]_vars
        => (SettledOK /\ RegretOK /\ HeldOK)'
  BY SettledStep, RegretStep, HeldStep
<1>3. /\ TypeOK /\ InFlightOK /\ SettledOK /\ RegretOK /\ HeldOK
      /\ NoticeEarned' /\ TypeOK' /\ [Next]_vars
      => [Book!BookNext]_(Book!book)
  BY BookStep
<1> QED
  BY <1>1, <1>2, <1>3, TypeCorrect, NoticesEarned, PTL
  DEF Spec, BookRefined, Book!BookSpec
================================================================================
