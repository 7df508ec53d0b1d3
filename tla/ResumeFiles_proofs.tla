--------------------------- MODULE ResumeFiles_proofs ---------------------------
(***************************************************************************)
(* Proofs about ResumeFiles: what a file that a row names can be lost by.  *)
(***************************************************************************)
EXTENDS ResumeFiles, TLAPS

(* The inductive invariant.                                                *)

ProfileSteps == {"replacing", "stored", "swapping", "removing", "removed", "erasing", "erased"}
EditSteps    == {"editing", "edited", "tidying"}
FreshSteps   == {"uploaded", "creating", "adopting", "stored", "swapping", "edited"}

\* The request holds a key that no row has had yet.
Fresh(r) == \/ req[r].step \in FreshSteps
            \/ req[r].step = "sending" /\ req[r].new \notin offered

\* The profile's key is one it was offered, an application's one it was sent with,
\* and so are the keys that requests read of them.  An edit is of one application.
Traced ==
    /\ offered \subseteq minted /\ sent \subseteq minted
    /\ resume \in offered \cup {NoKey}
    /\ \A a \in Live : snapshot[a] \in sent
    /\ \A r \in Requests :
         /\ req[r].step \in ProfileSteps => req[r].old \in offered \cup {NoKey}
         /\ req[r].step \in EditSteps => /\ req[r].old \in sent
                                        /\ \A a, b \in req[r].app : a = b
         /\ req[r].step = "sending" => req[r].new \in minted

\* A key that was just uploaded has its file, and one request alone knows it.
FreshOwned ==
    \A r \in Requests : Fresh(r) =>
        /\ req[r].new \in files
        /\ req[r].new \notin offered \cup sent
        /\ \A q \in Requests \ {r} : Fresh(q) => req[q].new # req[r].new

\* Applications share a key only when it is the profile's as well.
Unshared ==
    \A a, b \in Live : snapshot[a] = snapshot[b] => a = b \/ snapshot[a] \in offered

\* The file an edit is to delete is that of the application it edits and of no other;
\* once the edit has been committed, it is that of none.
EditOwned ==
    \A r \in Requests : req[r].step \in EditSteps =>
        \A a \in Live : snapshot[a] = req[r].old =>
            \/ req[r].old \in offered
            \/ req[r].step # "tidying" /\ a \in req[r].app

IInv == TypeOK /\ Traced /\ FreshOwned /\ Unshared /\ EditOwned
          /\ OwnFileKept /\ ProfileFileKept

-------------------------------------------------------------------------------
(* How a request's record changes.                                         *)

\* A request that becomes another record leaves the others as they are.
LEMMA BecomeOther ==
  ASSUME TypeOK, NEW r \in Requests, NEW x \in Request, Become(r, x)
  PROVE  /\ req' \in [Requests -> Request]
         /\ req'[r] = x
         /\ \A q \in Requests \ {r} : req'[q] = req[q]
BY DEF TypeOK, Become

\* A request that goes to another step keeps its fields.
LEMMA GotoOther ==
  ASSUME TypeOK, NEW r \in Requests, NEW s \in Steps, Goto(r, s)
  PROVE  /\ req' \in [Requests -> Request]
         /\ req'[r].step = s
         /\ req'[r].old = req[r].old /\ req'[r].new = req[r].new
         /\ req'[r].app = req[r].app /\ req'[r].held = req[r].held
         /\ \A q \in Requests \ {r} : req'[q] = req[q]
BY DEF TypeOK, Goto, Request

\* A record is given its fields by the idle one.
LEMMA IdleTyped == Idle \in Request
BY DEF Idle, Request, Steps, KeyOrNull

\* Requests that have deleted a file of the profile and have not committed.
Pending(r) == req[r].step \in {"swapping", "removed", "erased"}

-------------------------------------------------------------------------------
(* Steps that read: no file and no row changes, one request moves on.      *)

\* Such a step keeps the invariant when what the request now holds is what it read,
\* and when a request that has deleted the profile's file leaves it to history.
LEMMA ReadingKeeps ==
  ASSUME IInv, NEW r \in Requests,
         req' \in [Requests -> Request],
         \A q \in Requests \ {r} : req'[q] = req[q],
         UNCHANGED <<files, minted, profile, resume, status, snapshot, offered, sent>>,
         broken \subseteq broken', broken' \subseteq Keys,
         req'[r].step \in ProfileSteps => req'[r].old \in offered \cup {NoKey},
         req'[r].step \in EditSteps =>
            /\ req'[r].old \in sent
            /\ \A a, b \in req'[r].app : a = b
            /\ \A a \in Live : snapshot[a] = req'[r].old =>
                 \/ req'[r].old \in offered
                 \/ req'[r].step # "tidying" /\ a \in req'[r].app,
         req'[r].step = "sending" => req'[r].new \in minted,
         Fresh(r)' => Fresh(r) /\ req'[r].new = req[r].new,
         Pending(r) /\ req[r].old = resume =>
            \/ Pending(r)' /\ req'[r].old = resume
            \/ resume \in broken' \cup {NoKey}
  PROVE  IInv'
<1>1. TypeOK'
  BY DEF IInv, TypeOK
<1>2. Traced'
  BY DEF IInv, Traced, Live
<1>3. FreshOwned'
  <2>1. \A q \in Requests \ {r} : Fresh(q)' <=> Fresh(q)
    BY DEF Fresh
  <2>2. QED BY <2>1 DEF IInv, FreshOwned
<1>4. Unshared'
  BY DEF IInv, Unshared, Live
<1>5. EditOwned'
  BY DEF IInv, EditOwned, Live
<1>6. OwnFileKept'
  BY DEF IInv, OwnFileKept, Live
<1>7. ProfileFileKept'
  BY DEF IInv, ProfileFileKept, Pending
<1>8. QED BY <1>1, <1>2, <1>3, <1>4, <1>5, <1>6, <1>7 DEF IInv

\* Applying with the profile's key.
LEMMA ApplySavedKeeps ==
  ASSUME ResumeAssumption, IInv, NEW r \in Requests, ApplySaved(r)
  PROVE  IInv'
<1> DEFINE x == [Idle EXCEPT !.step = "sending", !.new = resume]
<1>1. x \in Request /\ x.step = "sending" /\ x.new = resume
  BY DEF IInv, TypeOK, Idle, Request, Steps, KeyOrNull
<1>2. Become(r, x)
  BY DEF ApplySaved
<1> HIDE DEF x
<1>3. /\ req' \in [Requests -> Request]
      /\ req'[r] = x
      /\ \A q \in Requests \ {r} : req'[q] = req[q]
  BY <1>1, <1>2, BecomeOther DEF IInv
<1>4. resume \in offered /\ resume \in minted /\ broken' = broken
  BY DEF IInv, Traced, ApplySaved, history
<1>5. QED
  BY <1>1, <1>3, <1>4, ReadingKeeps
     DEF IInv, TypeOK, ApplySaved, rows, history, Fresh, FreshSteps, Pending, ProfileSteps, EditSteps

\* The lookup of the profile keeps the uploaded key.
LEMMA ApplyFindKeeps ==
  ASSUME ResumeAssumption, IInv, NEW r \in Requests, ApplyFind(r)
  PROVE  IInv'
<1>1. PICK s \in {"creating", "adopting", "sending"} : Goto(r, s)
  BY DEF ApplyFind
<1>2. /\ req' \in [Requests -> Request]
      /\ req'[r].step = s /\ req'[r].old = req[r].old /\ req'[r].new = req[r].new
      /\ \A q \in Requests \ {r} : req'[q] = req[q]
  BY <1>1, GotoOther DEF IInv, Steps
<1>3. req[r].step = "uploaded" /\ req[r].new \in minted
  BY DEF IInv, TypeOK, FreshOwned, Fresh, FreshSteps, ApplyFind
<1>4. QED
  BY <1>2, <1>3, ReadingKeeps
     DEF IInv, TypeOK, ApplyFind, rows, history, Fresh, FreshSteps, Pending, ProfileSteps, EditSteps

\* A request for the profile's resume, an erasure or a purge remembers the key that
\* the profile has.
LEMMA ProfileReadKeeps ==
  ASSUME ResumeAssumption, IInv, NEW r \in Requests,
         ReplaceRead(r) \/ RemoveRead(r) \/ EraseRead(r) \/ PurgeRead(r)
  PROVE  IInv'
<1> DEFINE x(s) == [Idle EXCEPT !.step = s, !.old = resume]
           y(h) == [Idle EXCEPT !.step = "erasing", !.old = resume, !.held = h]
           Good(z) == /\ z \in Request /\ z.old = resume
                      /\ z.step \in {"replacing", "removing", "erasing"}
<1>1. \A s \in {"replacing", "removing", "erasing"} : Good(x(s))
  BY DEF IInv, TypeOK, Idle, Request, Steps, KeyOrNull
<1>2. \A h \in SUBSET Applications : Good(y(h))
  BY DEF IInv, TypeOK, Idle, Request, Steps, KeyOrNull
<1>3. \/ \E s \in {"replacing", "removing", "erasing"} : Become(r, x(s))
      \/ Become(r, y(Live))
  BY DEF ReplaceRead, RemoveRead, EraseRead, PurgeRead
<1>4. Live \in SUBSET Applications
  BY DEF Live
<1> HIDE DEF x, y
<1>5. PICK z : Good(z) /\ Become(r, z)
  BY <1>1, <1>2, <1>3, <1>4
<1>6. /\ req' \in [Requests -> Request]
      /\ req'[r] = z
      /\ \A q \in Requests \ {r} : req'[q] = req[q]
  BY <1>5, BecomeOther DEF IInv
<1>7. /\ resume \in offered \cup {NoKey} /\ req[r].step = "idle"
      /\ UNCHANGED <<files, minted, profile, resume, status, snapshot, history>>
  BY DEF IInv, Traced, ReplaceRead, RemoveRead, EraseRead, PurgeRead, rows
<1>8. QED
  BY <1>5, <1>6, <1>7, ReadingKeeps
     DEF IInv, TypeOK, history, Fresh, FreshSteps, Pending, ProfileSteps, EditSteps

\* An edit remembers the key of its application, which no other one has.
LEMMA EditReadKeeps ==
  ASSUME ResumeAssumption, IInv, NEW r \in Requests, EditRead(r)
  PROVE  IInv'
<1>1. PICK a \in Applications :
        /\ status[a] = "NEW"
        /\ Become(r, [Idle EXCEPT !.step = "editing", !.app = {a}, !.old = snapshot[a]])
  BY DEF EditRead
<1> DEFINE x == [Idle EXCEPT !.step = "editing", !.app = {a}, !.old = snapshot[a]]
<1>2. x \in Request /\ x.step = "editing" /\ x.old = snapshot[a] /\ x.app = {a}
  BY DEF IInv, TypeOK, Idle, Request, Steps, KeyOrNull
<1>3. Become(r, x)
  BY <1>1
<1> HIDE DEF x
<1>4. /\ req' \in [Requests -> Request]
      /\ req'[r] = x
      /\ \A q \in Requests \ {r} : req'[q] = req[q]
  BY <1>2, <1>3, BecomeOther DEF IInv
<1>5. /\ snapshot[a] \in sent /\ broken' = broken
      /\ \A b \in Live : snapshot[b] = snapshot[a] => b = a \/ snapshot[a] \in offered
  BY <1>1 DEF IInv, Traced, Unshared, Live, EditRead, history
<1>6. QED
  BY <1>2, <1>4, <1>5, ReadingKeeps
     DEF IInv, TypeOK, EditRead, rows, history, Fresh, FreshSteps, Pending, ProfileSteps, EditSteps

\* A request that fails forgets everything, except that it deleted a file.
LEMMA AbortKeeps ==
  ASSUME ResumeAssumption, IInv, NEW r \in Requests, Abort(r)
  PROVE  IInv'
<1>1. /\ req' \in [Requests -> Request]
      /\ req'[r] = Idle
      /\ \A q \in Requests \ {r} : req'[q] = req[q]
  BY IdleTyped, BecomeOther DEF IInv, Abort
<1>2. Idle.step = "idle"
  BY DEF Idle
<1>3. /\ broken \subseteq broken' /\ broken' \subseteq Keys
      /\ Pending(r) => req[r].old \in broken' \cup {NoKey}
  <2>1. req[r].old \in Keys \cup {NoKey} /\ broken \subseteq Keys
    BY DEF IInv, TypeOK, Request, KeyOrNull
  <2>2. CASE Pending(r)
    BY <2>1, <2>2 DEF Abort, Pending
  <2>3. CASE ~Pending(r)
    BY <2>1, <2>3 DEF Abort, Pending
  <2>4. QED BY <2>2, <2>3
<1>4. QED
  BY <1>1, <1>2, <1>3, ReadingKeeps
     DEF Abort, rows, Fresh, FreshSteps, ProfileSteps, EditSteps

-------------------------------------------------------------------------------
(* Steps that touch storage.                                               *)

\* An upload gives the request a key that nobody knows.
LEMMA UploadKeeps ==
  ASSUME IInv, NEW r \in Requests, NEW k, Upload(k),
         req' \in [Requests -> Request],
         \A q \in Requests \ {r} : req'[q] = req[q],
         req'[r].new = k, req'[r].step \in {"uploaded", "stored", "edited"},
         req'[r].step = "stored" => req'[r].old \in offered \cup {NoKey},
         req'[r].step = "edited" =>
            req[r].step = "editing" /\ req'[r].old = req[r].old /\ req'[r].app = req[r].app,
         ~Pending(r),
         UNCHANGED <<rows, history>>
  PROVE  IInv'
<1>k. /\ k \in Keys /\ k \notin minted /\ k \in files' /\ files \subseteq files'
      /\ minted \subseteq minted' /\ k \in minted'
      /\ files' \subseteq minted' /\ minted' \subseteq Keys
  BY DEF IInv, TypeOK, Upload
<1>u. UNCHANGED <<profile, resume, status, snapshot, offered, sent, broken>>
  BY DEF rows, history
<1>1. TypeOK'
  BY <1>k, <1>u DEF IInv, TypeOK
<1>2. Traced'
  BY <1>k, <1>u DEF IInv, Traced, Live, ProfileSteps, EditSteps
<1>3. FreshOwned'
  <2>1. \A q \in Requests \ {r} : Fresh(q)' <=> Fresh(q)
    BY <1>u DEF Fresh
  <2>2. \A q \in Requests \ {r} : Fresh(q) => req[q].new # k
    BY <1>k DEF IInv, TypeOK, FreshOwned
  <2>3. k \notin offered \cup sent
    BY <1>k DEF IInv, Traced
  <2>4. QED BY <1>k, <1>u, <2>1, <2>2, <2>3 DEF IInv, FreshOwned
<1>4. Unshared'
  BY <1>u DEF IInv, Unshared, Live
<1>5. EditOwned'
  BY <1>u DEF IInv, EditOwned, Live, EditSteps
<1>6. OwnFileKept'
  BY <1>k, <1>u DEF IInv, OwnFileKept, Live
<1>7. ProfileFileKept'
  BY <1>k, <1>u DEF IInv, ProfileFileKept, Pending
<1>8. QED BY <1>1, <1>2, <1>3, <1>4, <1>5, <1>6, <1>7 DEF IInv

\* An application's file is uploaded by a request that begins with it.
LEMMA ApplyUploadKeeps ==
  ASSUME ResumeAssumption, IInv, NEW r \in Requests, ApplyUpload(r)
  PROVE  IInv'
<1>1. PICK k \in Keys : Upload(k) /\ Become(r, [Idle EXCEPT !.step = "uploaded", !.new = k])
  BY DEF ApplyUpload
<1> DEFINE x == [Idle EXCEPT !.step = "uploaded", !.new = k]
<1>2. x \in Request /\ x.step = "uploaded" /\ x.new = k
  BY DEF Idle, Request, Steps, KeyOrNull
<1>3. Become(r, x)
  BY <1>1
<1> HIDE DEF x
<1>4. /\ req' \in [Requests -> Request]
      /\ req'[r] = x
      /\ \A q \in Requests \ {r} : req'[q] = req[q]
  BY <1>2, <1>3, BecomeOther DEF IInv
<1>5. QED
  BY <1>1, <1>2, <1>4, UploadKeeps DEF ApplyUpload, Pending

\* A replacement or an edit uploads while it remembers the previous key.
LEMMA LaterUploadKeeps ==
  ASSUME ResumeAssumption, IInv, NEW r \in Requests, ReplaceUpload(r) \/ EditUpload(r)
  PROVE  IInv'
<1>1. PICK k \in Keys, s \in {"stored", "edited"} :
        /\ Upload(k)
        /\ req' = [req EXCEPT ![r].step = s, ![r].new = k]
        /\ req[r].step = IF s = "stored" THEN "replacing" ELSE "editing"
  BY DEF ReplaceUpload, EditUpload
<1>2. /\ req' \in [Requests -> Request]
      /\ req'[r].step = s /\ req'[r].new = k
      /\ req'[r].old = req[r].old /\ req'[r].app = req[r].app
      /\ \A q \in Requests \ {r} : req'[q] = req[q]
  <2>1. req \in [Requests -> Request] /\ s \in Steps /\ k \in KeyOrNull
    BY DEF IInv, TypeOK, Steps, KeyOrNull
  <2>2. req[r] \in Request
    BY <2>1
  <2>3. /\ req'[r] = [[req[r] EXCEPT !.step = s] EXCEPT !.new = k]
        /\ \A q \in Requests \ {r} : req'[q] = req[q]
    BY <1>1, <2>1
  <2>4. /\ req'[r] \in Request
        /\ req'[r].step = s /\ req'[r].new = k
        /\ req'[r].old = req[r].old /\ req'[r].app = req[r].app
    BY <2>1, <2>2, <2>3 DEF Request
  <2>5. req' = [q \in Requests |-> req'[q]]
    BY <1>1, <2>1
  <2>6. QED BY <2>1, <2>3, <2>4, <2>5
<1>3. UNCHANGED <<rows, history>> /\ ~Pending(r)
  BY <1>1 DEF ReplaceUpload, EditUpload, Pending
<1>4. s = "stored" => req[r].old \in offered \cup {NoKey}
  BY <1>1 DEF IInv, Traced, ProfileSteps
<1>5. QED
  BY <1>1, <1>2, <1>3, <1>4, UploadKeeps

\* The file of the profile's previous key is deleted by a request that has not committed:
\* an application that had the key had it of the profile.
LEMMA ProfileDiscardKeeps ==
  ASSUME ResumeAssumption, IInv, NEW r \in Requests,
         ReplaceDiscard(r) \/ RemoveDiscard(r) \/ EraseDiscard(r)
  PROVE  IInv'
<1>1. PICK s \in {"swapping", "removed", "erased"} :
        /\ Goto(r, s)
        /\ req[r].step = CASE s = "swapping" -> "stored" [] s = "removed" -> "removing"
                           [] OTHER -> "erasing"
  BY DEF ReplaceDiscard, RemoveDiscard, EraseDiscard
<1>2. /\ req' \in [Requests -> Request]
      /\ req'[r].step = s /\ req'[r].old = req[r].old /\ req'[r].new = req[r].new
      /\ \A q \in Requests \ {r} : req'[q] = req[q]
  BY <1>1, GotoOther DEF IInv, Steps
<1>3. UNCHANGED <<profile, resume, status, snapshot, offered, sent, broken, minted>>
  BY DEF ReplaceDiscard, RemoveDiscard, EraseDiscard, Discard, rows, history
<1>4. files \ {req[r].old} \subseteq files' /\ files' \subseteq files
  BY DEF ReplaceDiscard, RemoveDiscard, EraseDiscard, Discard
<1>5. req[r].old \in offered \cup {NoKey}
  BY <1>1 DEF IInv, Traced, ProfileSteps
<1>6. TypeOK'
  BY <1>2, <1>3, <1>4 DEF IInv, TypeOK
<1>7. Traced'
  BY <1>1, <1>2, <1>3, <1>5 DEF IInv, Traced, Live, ProfileSteps, EditSteps
<1>8. FreshOwned'
  <2>1. \A q \in Requests : Fresh(q)' => Fresh(q) /\ req'[q].new = req[q].new
    BY <1>1, <1>2, <1>3 DEF Fresh, FreshSteps
  <2>2. \A q \in Requests : Fresh(q) => req[q].new # req[r].old
    BY <1>5, ResumeAssumption DEF IInv, FreshOwned, TypeOK
  <2>3. QED BY <1>2, <1>3, <1>4, <2>1, <2>2 DEF IInv, FreshOwned
<1>9. Unshared'
  BY <1>3 DEF IInv, Unshared, Live
<1>10. EditOwned'
  BY <1>1, <1>2, <1>3 DEF IInv, EditOwned, Live, EditSteps
<1>11. OwnFileKept'
  <2> SUFFICES ASSUME NEW a \in Live PROVE snapshot[a] \in files' \cup offered
    BY <1>3 DEF OwnFileKept, Live
  <2>1. snapshot[a] \in sent /\ snapshot[a] \in files \cup offered
    BY DEF IInv, Traced, OwnFileKept
  <2>2. NoKey \notin sent
    BY ResumeAssumption DEF IInv, TypeOK
  <2>3. QED BY <1>4, <1>5, <2>1, <2>2
<1>12. ProfileFileKept'
  <2>1. CASE req[r].old = resume
    BY <1>2, <1>3, <2>1 DEF ProfileFileKept
  <2>2. CASE req[r].old # resume
    BY <1>1, <1>2, <1>3, <1>4, <2>2 DEF IInv, ProfileFileKept
  <2>3. QED BY <2>1, <2>2
<1>13. QED BY <1>6, <1>7, <1>8, <1>9, <1>10, <1>11, <1>12 DEF IInv

\* The file an edit has replaced is that of no application any more, nor that of the
\* profile, unless profile and application shared it.
LEMMA EditDiscardKeeps ==
  ASSUME ResumeAssumption, IInv, NEW r \in Requests, EditDiscard(r)
  PROVE  IInv'
<1>1. /\ req' \in [Requests -> Request]
      /\ req'[r] = Idle
      /\ \A q \in Requests \ {r} : req'[q] = req[q]
  BY IdleTyped, BecomeOther DEF IInv, EditDiscard
<1>2. Idle.step = "idle"
  BY DEF Idle
<1>3. UNCHANGED <<profile, resume, status, snapshot, offered, sent, broken, minted>>
  BY DEF EditDiscard, Discard, rows, history
<1>4. files \ {req[r].old} \subseteq files' /\ files' \subseteq files
  BY DEF EditDiscard, Discard
<1>5. req[r].step = "tidying" /\ req[r].old \in sent
  BY DEF IInv, Traced, EditSteps, EditDiscard
<1>6. TypeOK'
  BY <1>1, <1>3, <1>4 DEF IInv, TypeOK
<1>7. Traced'
  BY <1>1, <1>2, <1>3 DEF IInv, Traced, Live, ProfileSteps, EditSteps
<1>8. FreshOwned'
  <2>1. \A q \in Requests : Fresh(q)' => Fresh(q) /\ req'[q].new = req[q].new
    BY <1>1, <1>2, <1>3 DEF Fresh, FreshSteps
  <2>2. \A q \in Requests : Fresh(q) => req[q].new # req[r].old
    BY <1>5 DEF IInv, FreshOwned
  <2>3. QED BY <1>3, <1>4, <2>1, <2>2 DEF IInv, FreshOwned
<1>9. Unshared'
  BY <1>3 DEF IInv, Unshared, Live
<1>10. EditOwned'
  BY <1>1, <1>2, <1>3 DEF IInv, EditOwned, Live, EditSteps
<1>11. OwnFileKept'
  <2> SUFFICES ASSUME NEW a \in Live PROVE snapshot[a] \in files' \cup offered
    BY <1>3 DEF OwnFileKept, Live
  <2>1. snapshot[a] = req[r].old => snapshot[a] \in offered
    BY <1>5 DEF IInv, EditOwned, EditSteps
  <2>2. snapshot[a] \in files \cup offered
    BY DEF IInv, OwnFileKept
  <2>3. QED BY <1>4, <2>1, <2>2
<1>12. ProfileFileKept'
  BY <1>1, <1>3, <1>4, <1>5 DEF IInv, ProfileFileKept
<1>13. QED BY <1>6, <1>7, <1>8, <1>9, <1>10, <1>11, <1>12 DEF IInv

-------------------------------------------------------------------------------
(* Commits, and steps of one transaction.                                  *)

\* An application is stored with the key of the profile, or with one of its own.
LEMMA ApplyCommitKeeps ==
  ASSUME ResumeAssumption, IInv, NEW r \in Requests, ApplyCommit(r)
  PROVE  IInv'
<1> DEFINE k == req[r].new
<1>1. PICK a \in Applications :
        /\ status[a] = "unborn"
        /\ status' = [status EXCEPT ![a] = "NEW"]
        /\ snapshot' = [snapshot EXCEPT ![a] = k]
  BY DEF ApplyCommit
<1>2. /\ req' \in [Requests -> Request]
      /\ req'[r] = Idle /\ Idle.step = "idle"
      /\ \A q \in Requests \ {r} : req'[q] = req[q]
  BY IdleTyped, BecomeOther DEF IInv, ApplyCommit, Idle
<1>3. /\ files' = files /\ minted' = minted /\ broken' = broken
      /\ sent' = sent \cup {k} /\ profile' = "present"
      /\ \/ req[r].step = "sending" /\ offered' = offered /\ resume' = resume
         \/ req[r].step \in {"creating", "adopting"} /\ offered' = offered \cup {k}
                                                     /\ resume' = k
  BY DEF ApplyCommit
<1>4. /\ k \in minted /\ k \in Keys
      /\ k \in files \cup offered
      /\ k \in offered \/ k \notin sent
      /\ Fresh(r) \/ k \in offered
      /\ k \in offered'  \/ Fresh(r)
  BY <1>3 DEF IInv, TypeOK, Traced, FreshOwned, Fresh, FreshSteps
<1>5. /\ Live' = Live \cup {a} /\ a \notin Live
      /\ snapshot'[a] = k /\ \A b \in Live : snapshot'[b] = snapshot[b]
  BY <1>1 DEF IInv, TypeOK, Live
<1>6. ~Pending(r)
  BY <1>3 DEF Pending
<1> HIDE DEF k
<1>7. TypeOK'
  BY <1>1, <1>2, <1>3, <1>4 DEF IInv, TypeOK, KeyOrNull
<1>8. Traced'
  BY <1>2, <1>3, <1>4, <1>5 DEF IInv, Traced, ProfileSteps, EditSteps
<1>9. FreshOwned'
  <2>1. \A q \in Requests \ {r} : Fresh(q)' => Fresh(q) /\ req'[q].new = req[q].new
    BY <1>2, <1>3 DEF Fresh
  <2>2. ~Fresh(r)'
    BY <1>2 DEF Fresh, FreshSteps
  <2>3. \A q \in Requests \ {r} : Fresh(q) => req[q].new # k
    BY <1>4 DEF IInv, FreshOwned, k
  <2>4. QED BY <1>2, <1>3, <2>1, <2>2, <2>3 DEF IInv, FreshOwned
<1>10. Unshared'
  <2>1. \A b \in Live : snapshot[b] = k => k \in offered
    BY <1>4 DEF IInv, Traced
  <2>2. offered \subseteq offered'
    BY <1>3
  <2>3. QED BY <1>5, <2>1, <2>2 DEF IInv, Unshared
<1>11. EditOwned'
  <2>1. \A q \in Requests : req[q].step \in EditSteps => req[q].old # k \/ k \in offered
    BY <1>4 DEF IInv, Traced
  <2>2. offered \subseteq offered'
    BY <1>3
  <2>3. QED BY <1>2, <1>5, <2>1, <2>2 DEF IInv, EditOwned, EditSteps
<1>12. OwnFileKept'
  BY <1>3, <1>4, <1>5 DEF IInv, OwnFileKept
<1>13. ProfileFileKept'
  BY <1>2, <1>3, <1>6 DEF IInv, ProfileFileKept, Pending
<1>14. QED BY <1>7, <1>8, <1>9, <1>10, <1>11, <1>12, <1>13 DEF IInv

\* The profile takes the key that its request has uploaded.
LEMMA ReplaceCommitKeeps ==
  ASSUME ResumeAssumption, IInv, NEW r \in Requests, ReplaceCommit(r)
  PROVE  IInv'
<1> DEFINE k == req[r].new
<1>1. /\ req' \in [Requests -> Request]
      /\ req'[r] = Idle /\ Idle.step = "idle"
      /\ \A q \in Requests \ {r} : req'[q] = req[q]
  BY IdleTyped, BecomeOther DEF IInv, ReplaceCommit, Idle
<1>2. /\ UNCHANGED <<files, minted, profile, status, snapshot, sent, broken>>
      /\ resume' = k /\ offered' = offered \cup {k}
  BY DEF ReplaceCommit
<1>3. Fresh(r) /\ k \in files /\ k \in minted /\ k \in Keys
  BY DEF ReplaceCommit, IInv, TypeOK, FreshOwned, Fresh, FreshSteps
<1>4. TypeOK'
  BY <1>1, <1>2, <1>3 DEF IInv, TypeOK, KeyOrNull
<1> HIDE DEF k
<1>5. Traced'
  BY <1>1, <1>2, <1>3 DEF IInv, Traced, Live, ProfileSteps, EditSteps
<1>6. FreshOwned'
  <2>1. \A q \in Requests \ {r} : Fresh(q)' => Fresh(q) /\ req'[q].new = req[q].new
    BY <1>1, <1>2 DEF Fresh
  <2>2. ~Fresh(r)'
    BY <1>1 DEF Fresh, FreshSteps
  <2>3. \A q \in Requests \ {r} : Fresh(q) => req[q].new # k
    BY <1>3 DEF IInv, FreshOwned, k
  <2>4. QED BY <1>1, <1>2, <2>1, <2>2, <2>3 DEF IInv, FreshOwned
<1>7. Unshared'
  BY <1>2 DEF IInv, Unshared, Live
<1>8. EditOwned'
  BY <1>1, <1>2 DEF IInv, EditOwned, EditSteps, Live
<1>9. OwnFileKept'
  BY <1>2 DEF IInv, OwnFileKept, Live
<1>10. ProfileFileKept'
  BY <1>2, <1>3 DEF ProfileFileKept
<1>11. QED BY <1>4, <1>5, <1>6, <1>7, <1>8, <1>9, <1>10 DEF IInv

\* Removing the profile's resume, clearing its column, an activation, and a decision
\* or a deletion of an application: keys are forgotten and none is learnt.
LEMMA ForgettingKeeps ==
  ASSUME ResumeAssumption, IInv,
         req' \in [Requests -> Request],
         \A q \in Requests : req'[q] = req[q] \/ req'[q] = Idle,
         UNCHANGED <<files, minted, history>>,
         profile' \in {"unborn", "present", "gone"},
         resume' \in {resume, NoKey},
         status' \in [Applications -> {"unborn", "NEW", "engaged", "deleted"}],
         snapshot' \in [Applications -> KeyOrNull],
         \A a \in Live' : a \in Live /\ snapshot'[a] = snapshot[a],
         resume' = NoKey \/ \A q \in Requests : req'[q] = req[q] \/ req[q].old = NoKey \/ ~Pending(q)
  PROVE  IInv'
<1>i. Idle.step = "idle"
  BY DEF Idle
<1>u. UNCHANGED <<offered, sent, broken>>
  BY DEF history
<1>1. TypeOK'
  BY <1>u DEF IInv, TypeOK, KeyOrNull
<1>2. Traced'
  BY <1>i, <1>u DEF IInv, Traced, ProfileSteps, EditSteps
<1>3. FreshOwned'
  <2>1. \A q \in Requests : Fresh(q)' => Fresh(q) /\ req'[q].new = req[q].new
    BY <1>i, <1>u DEF Fresh, FreshSteps
  <2>2. QED BY <1>u, <2>1 DEF IInv, FreshOwned
<1>4. Unshared'
  BY <1>u DEF IInv, Unshared
<1>5. EditOwned'
  BY <1>i, <1>u DEF IInv, EditOwned, EditSteps
<1>6. OwnFileKept'
  BY <1>u DEF IInv, OwnFileKept
<1>7. ProfileFileKept'
  BY <1>i, <1>u DEF IInv, ProfileFileKept, Pending
<1>8. QED BY <1>1, <1>2, <1>3, <1>4, <1>5, <1>6, <1>7 DEF IInv

\* The same for the steps of that kind.
LEMMA ForgettingSteps ==
  ASSUME ResumeAssumption, IInv,
         \/ Activate \/ ClearByAdmin
         \/ \E r \in Requests : RemoveCommit(r) \/ EraseCommit(r)
         \/ \E a \in Applications : Engage(a) \/ DeleteApplication(a)
  PROVE  IInv'
<1>1. CASE Activate \/ ClearByAdmin
  BY <1>1, ForgettingKeeps DEF IInv, TypeOK, Activate, ClearByAdmin, Live
<1>2. ASSUME NEW r \in Requests, RemoveCommit(r) PROVE IInv'
  <2>1. /\ req' \in [Requests -> Request]
        /\ req'[r] = Idle
        /\ \A q \in Requests \ {r} : req'[q] = req[q]
    BY <1>2, IdleTyped, BecomeOther DEF IInv, RemoveCommit
  <2>2. QED BY <1>2, <2>1, ForgettingKeeps DEF IInv, TypeOK, RemoveCommit, Live
<1>3. ASSUME NEW r \in Requests, EraseCommit(r) PROVE IInv'
  <2>1. /\ req' \in [Requests -> Request]
        /\ req'[r] = Idle
        /\ \A q \in Requests \ {r} : req'[q] = req[q]
    BY <1>3, IdleTyped, BecomeOther DEF IInv, EraseCommit
  <2>2. Live' = {}
    BY <1>3 DEF EraseCommit, Live
  <2>3. /\ status' \in [Applications -> {"unborn", "NEW", "engaged", "deleted"}]
        /\ snapshot' \in [Applications -> KeyOrNull]
    BY <1>3 DEF IInv, TypeOK, EraseCommit, KeyOrNull
  <2>4. QED BY <1>3, <2>1, <2>2, <2>3, ForgettingKeeps DEF EraseCommit
<1>4. ASSUME NEW a \in Applications, Engage(a) \/ DeleteApplication(a) PROVE IInv'
  <2>1. /\ status' \in [Applications -> {"unborn", "NEW", "engaged", "deleted"}]
        /\ snapshot' \in [Applications -> KeyOrNull]
        /\ \A b \in Live' : b \in Live /\ snapshot'[b] = snapshot[b]
    BY <1>4 DEF IInv, TypeOK, Engage, DeleteApplication, Live, KeyOrNull
  <2>2. QED BY <1>4, <2>1, ForgettingKeeps DEF IInv, TypeOK, Engage, DeleteApplication
<1>5. QED BY <1>1, <1>2, <1>3, <1>4

\* The application takes the key that the edit has uploaded; its previous one is left
\* to no application, unless the profile had it too.
LEMMA EditCommitKeeps ==
  ASSUME ResumeAssumption, IInv, NEW r \in Requests, EditCommit(r)
  PROVE  IInv'
<1> DEFINE k == req[r].new
<1>1. /\ req' \in [Requests -> Request]
      /\ req'[r].step = "tidying"
      /\ req'[r].old = req[r].old /\ req'[r].new = k /\ req'[r].app = req[r].app
      /\ \A q \in Requests \ {r} : req'[q] = req[q]
  BY GotoOther DEF IInv, EditCommit, Steps
<1>2. /\ UNCHANGED <<files, minted, profile, resume, status, offered, broken>>
      /\ sent' = sent \cup {k}
      /\ req[r].step = "edited"
  BY DEF EditCommit
<1>3. Fresh(r) /\ k \in files /\ k \in minted /\ k \in Keys /\ k \notin sent
  BY <1>2 DEF IInv, TypeOK, FreshOwned, Fresh, FreshSteps
<1>4. /\ Live' = Live
      /\ snapshot' \in [Applications -> KeyOrNull]
      /\ \A a \in Live : snapshot'[a] = IF a \in req[r].app THEN k ELSE snapshot[a]
  BY <1>2, <1>3 DEF IInv, TypeOK, Live, EditCommit, KeyOrNull
<1>5. req[r].old \in sent
  BY <1>2 DEF IInv, Traced, EditSteps
<1> HIDE DEF k
<1>6. TypeOK'
  BY <1>1, <1>2, <1>3, <1>4 DEF IInv, TypeOK
<1>7. Traced'
  BY <1>1, <1>2, <1>3, <1>4, <1>5 DEF IInv, Traced, ProfileSteps, EditSteps
<1>8. FreshOwned'
  <2>1. \A q \in Requests \ {r} : Fresh(q)' => Fresh(q) /\ req'[q].new = req[q].new
    BY <1>1, <1>2 DEF Fresh
  <2>2. ~Fresh(r)'
    BY <1>1 DEF Fresh, FreshSteps
  <2>3. \A q \in Requests \ {r} : Fresh(q) => req[q].new # k
    BY <1>3 DEF IInv, FreshOwned, k
  <2>4. QED BY <1>1, <1>2, <2>1, <2>2, <2>3 DEF IInv, FreshOwned
<1>9. Unshared'
  <2>1. \A a, b \in req[r].app : a = b
    BY <1>2 DEF IInv, Traced, EditSteps
  <2>2. \A b \in Live : snapshot[b] # k
    BY <1>3 DEF IInv, Traced
  <2>3. QED BY <1>2, <1>4, <2>1, <2>2 DEF IInv, Unshared
<1>10. EditOwned'
  <2>1. \A q \in Requests : req[q].step \in EditSteps => req[q].old # k
    BY <1>3 DEF IInv, Traced
  <2>2. \A a \in Live : snapshot'[a] = req[r].old => a \notin req[r].app /\ snapshot[a] = req[r].old
    BY <1>2, <1>4, <2>1 DEF EditSteps
  <2>3. \A a \in Live : snapshot'[a] = req[r].old => req[r].old \in offered
    BY <1>2, <2>2 DEF IInv, EditOwned, EditSteps
  <2>4. QED BY <1>1, <1>2, <1>4, <2>1, <2>3 DEF IInv, EditOwned
<1>11. OwnFileKept'
  BY <1>2, <1>3, <1>4 DEF IInv, OwnFileKept
<1>12. ProfileFileKept'
  BY <1>1, <1>2 DEF IInv, ProfileFileKept
<1>13. QED BY <1>6, <1>7, <1>8, <1>9, <1>10, <1>11, <1>12 DEF IInv

-------------------------------------------------------------------------------
(* The theorems.                                                           *)

\* Nothing is in storage and nothing in flight.
LEMMA InitOK == ASSUME ResumeAssumption, Init PROVE IInv
<1>1. \A r \in Requests : req[r] = Idle /\ Idle.step = "idle"
  BY DEF Init, Idle
<1>2. TypeOK
  BY IdleTyped DEF Init, TypeOK, KeyOrNull
<1>3. Live = {} /\ resume = NoKey
  BY DEF Init, Live
<1>4. Traced /\ FreshOwned /\ Unshared /\ EditOwned
  BY <1>1, <1>3 DEF Init, Traced, FreshOwned, Fresh, FreshSteps, Unshared, EditOwned,
     ProfileSteps, EditSteps
<1>5. OwnFileKept /\ ProfileFileKept
  BY <1>3 DEF OwnFileKept, ProfileFileKept
<1>6. QED BY <1>2, <1>4, <1>5 DEF IInv

\* Every step of every request keeps the invariant.
LEMMA StepKeeps == ASSUME ResumeAssumption, IInv, [Next]_vars PROVE IInv'
<1>1. CASE UNCHANGED vars
  BY <1>1 DEF vars, rows, history, IInv, TypeOK, Traced, FreshOwned, Fresh, Unshared, EditOwned,
     OwnFileKept, ProfileFileKept, Live
<1>2. QED
  BY <1>1, ApplySavedKeeps, ProfileReadKeeps, ApplyUploadKeeps, ApplyFindKeeps,
     ApplyCommitKeeps, LaterUploadKeeps, ProfileDiscardKeeps, ReplaceCommitKeeps,
     EditReadKeeps, EditCommitKeeps, EditDiscardKeeps, ForgettingSteps, AbortKeeps
     DEF Next

\* The invariant holds of every behaviour.
LEMMA Invariance == ASSUME ResumeAssumption PROVE Spec => []IInv
<1>1. Init => IInv
  BY InitOK
<1>2. IInv /\ [Next]_vars => IInv'
  BY StepKeeps
<1>3. QED BY <1>1, <1>2, PTL DEF Spec

\* The rows, the requests and the keys have their types.
THEOREM TypeCorrect == Spec => []TypeOK
<1>1. Spec => []IInv
  BY ResumeAssumption, Invariance
<1>2. IInv => TypeOK
  BY DEF IInv
<1>3. QED BY <1>1, <1>2, PTL

\* candidate/applications.py: the file sent with an application, or by editing it, is in
\* storage as long as the application has it, unless the profile ever had the same key.
THEOREM OwnFilesKept == Spec => []OwnFileKept
<1>1. Spec => []IInv
  BY ResumeAssumption, Invariance
<1>2. IInv => OwnFileKept
  BY DEF IInv
<1>3. QED BY <1>1, <1>2, PTL

\* candidate/profile.py: the profile's file is in storage, unless an application ever had
\* the same key, or a request that deleted it has not committed, or failed.
THEOREM ProfileFilesKept == Spec => []ProfileFileKept
<1>1. Spec => []IInv
  BY ResumeAssumption, Invariance
<1>2. IInv => ProfileFileKept
  BY DEF IInv
<1>3. QED BY <1>1, <1>2, PTL
================================================================================
