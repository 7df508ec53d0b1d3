------------------------------ MODULE ResumeFiles ------------------------------
(***************************************************************************)
(* The resume files of ONE candidate: objects in storage, and the keys to  *)
(* them in the candidate's profile and in each application.                *)
(* (services/candidate/{profile,applications}.py, services/public/         *)
(* applications.py, services/admin/candidates.py, core/services/storage*.) *)
(*                                                                         *)
(* Storage takes no part in a transaction: an object is there as soon as   *)
(* it is uploaded, and a deletion is not taken back when the transaction   *)
(* around it fails.  Nothing counts the rows that hold a key.  A handler   *)
(* works with the keys it read when it began.  A profile that is erased    *)
(* does not come back: a later one of the same address is another row.     *)
(* An admin's update may also store any other path, which no page does.    *)
(***************************************************************************)
EXTENDS Naturals, FiniteSets

CONSTANTS
    Requests,       \* slots for requests and purges in flight at the same time
    Applications,   \* primary keys of application rows
    Keys,           \* storage keys (uuid4), each given out once
    NoKey           \* the column is NULL

ASSUME ResumeAssumption == NoKey \notin Keys

VARIABLES
    files,      \* the objects in storage
    minted,     \* keys given out so far
    profile,    \* the profile's row: "unborn", "present" or "gone"
    resume,     \* its column resume_path
    status,     \* each application: "unborn", "NEW", "engaged" (any other), "deleted"
    snapshot,   \* the column resume_path of each application
    req,        \* the requests in flight
    \* History variables: no action reads them to decide what to do.
    offered,    \* keys that have been the profile's
    sent,       \* keys that have been an application's
    broken      \* keys deleted by a request that then failed

history == <<offered, sent, broken>>
rows    == <<profile, resume, status, snapshot>>
vars    == <<files, minted, rows, req, history>>

-------------------------------------------------------------------------------
KeyOrNull == Keys \cup {NoKey}

Steps ==
    { "idle",
      "uploaded", "creating", "adopting", "sending",   \* POST /api/jobs/{id}/apply
      "replacing", "stored", "swapping",               \* POST   /api/candidate/me/resume
      "removing", "removed",                           \* DELETE /api/candidate/me/resume
      "editing", "edited", "tidying",                  \* PATCH  .../applications/{id}
      "erasing", "erased" }                            \* DELETE .../candidates/{id}, purge

Request == [ step : Steps,
             old  : KeyOrNull,              \* the key the request read
             new  : KeyOrNull,              \* the key it is to store
             app  : SUBSET Applications,    \* the application it edits
             held : SUBSET Applications ]   \* the applications it deleted, and locks

TypeOK ==
    /\ files \subseteq minted /\ minted \subseteq Keys
    /\ profile \in {"unborn", "present", "gone"}
    /\ resume \in KeyOrNull
    /\ status \in [Applications -> {"unborn", "NEW", "engaged", "deleted"}]
    /\ snapshot \in [Applications -> KeyOrNull]
    /\ req \in [Requests -> Request]
    /\ offered \subseteq Keys /\ sent \subseteq Keys /\ broken \subseteq Keys

Idle == [step |-> "idle", old |-> NoKey, new |-> NoKey, app |-> {}, held |-> {}]

Become(r, record) == req' = [req EXCEPT ![r] = record]
Goto(r, step)     == req' = [req EXCEPT ![r].step = step]

Live == {a \in Applications : status[a] \in {"NEW", "engaged"}}

\* Rows an uncommitted DELETE has locked: no other request can write them.
Locked == UNION {req[r].held : r \in Requests}

Init ==
    /\ files = {} /\ minted = {}
    /\ profile = "unborn" /\ resume = NoKey
    /\ status = [a \in Applications |-> "unborn"]
    /\ snapshot = [a \in Applications |-> NoKey]
    /\ req = [r \in Requests |-> Idle]
    /\ offered = {} /\ sent = {} /\ broken = {}

-------------------------------------------------------------------------------
(* Storage.                                                                *)

\* An upload under a key that no upload had before.
Upload(k) ==
    /\ k \in Keys \ minted
    /\ minted' = minted \cup {k}
    /\ files' = files \cup {k}

\* A best-effort deletion: refused or failed, it is logged and forgotten.
Discard(k) ==
    /\ files' \in {files, files \ {k}}
    /\ UNCHANGED minted

-------------------------------------------------------------------------------
(* The actions.  An operator whose name starts with Bug is not part of the *)
(* specification: it is the mistake that the action after it must not make.*)

\* An activation finds no profile of the address and makes one, without a resume.
Activate ==
    /\ profile = "unborn"
    /\ profile' = "present"
    /\ UNCHANGED <<files, minted, resume, status, snapshot, req, history>>

(* Applying.                                                               *)

\* A candidate who sends no file applies with the key of the profile: the application
\* is given the same key, not a copy of the object.
ApplySaved(r) ==
    /\ req[r].step = "idle"
    /\ profile = "present" /\ resume # NoKey
    /\ Become(r, [Idle EXCEPT !.step = "sending", !.new = resume])
    /\ UNCHANGED <<files, minted, rows, history>>

\* A file is sent with the form.
ApplyUpload(r) ==
    /\ req[r].step = "idle"
    /\ \E k \in Keys : Upload(k)
                    /\ Become(r, [Idle EXCEPT !.step = "uploaded", !.new = k])
    /\ UNCHANGED <<rows, history>>

\* The profile of the address is looked up: a profile that has no resume adopts
\* that of the application, and so does one that is made now.
ApplyFind(r) ==
    /\ req[r].step = "uploaded"
    /\ profile # "gone"
    /\ Goto(r, CASE profile = "unborn" -> "creating"
                 [] profile # "unborn" /\ resume = NoKey -> "adopting"
                 [] OTHER -> "sending")
    /\ UNCHANGED <<files, minted, rows, history>>

\* The profile and the new application are committed.
ApplyCommit(r) ==
    /\ req[r].step \in {"creating", "adopting", "sending"}
    /\ profile = IF req[r].step = "creating" THEN "unborn" ELSE "present"
    /\ profile' = "present"
    /\ resume' = IF req[r].step = "sending" THEN resume ELSE req[r].new
    /\ \E a \in Applications :
         /\ status[a] = "unborn"
         /\ status' = [status EXCEPT ![a] = "NEW"]
         /\ snapshot' = [snapshot EXCEPT ![a] = req[r].new]
    /\ Become(r, Idle)
    /\ sent' = sent \cup {req[r].new}
    /\ offered' = IF req[r].step = "sending" THEN offered
                  ELSE offered \cup {req[r].new}
    /\ UNCHANGED <<files, minted, broken>>

(* The profile's resume.                                                   *)

\* Mutant: the previous file is deleted before the new one is uploaded.
BugReplaceRead(r) ==
    /\ req[r].step = "idle"
    /\ profile = "present"
    /\ Discard(resume)
    /\ Become(r, [Idle EXCEPT !.step = "replacing", !.old = resume])
    /\ UNCHANGED <<rows, history>>

\* The session's user and profile are read.
ReplaceRead(r) ==
    /\ req[r].step = "idle"
    /\ profile = "present"
    /\ Become(r, [Idle EXCEPT !.step = "replacing", !.old = resume])
    /\ UNCHANGED <<files, minted, rows, history>>

\* The new file is uploaded first, so that a failed upload takes nothing away.
ReplaceUpload(r) ==
    /\ req[r].step = "replacing"
    /\ \E k \in Keys : Upload(k)
                    /\ req' = [req EXCEPT ![r].step = "stored", ![r].new = k]
    /\ UNCHANGED <<rows, history>>

\* The previous file is deleted, before the commit.
ReplaceDiscard(r) ==
    /\ req[r].step = "stored"
    /\ Discard(req[r].old)
    /\ Goto(r, "swapping")
    /\ UNCHANGED <<rows, history>>

ReplaceCommit(r) ==
    /\ req[r].step = "swapping"
    /\ profile = "present"
    /\ resume' = req[r].new
    /\ offered' = offered \cup {req[r].new}
    /\ Become(r, Idle)
    /\ UNCHANGED <<files, minted, profile, status, snapshot, sent, broken>>

RemoveRead(r) ==
    /\ req[r].step = "idle"
    /\ profile = "present"
    /\ Become(r, [Idle EXCEPT !.step = "removing", !.old = resume])
    /\ UNCHANGED <<files, minted, rows, history>>

RemoveDiscard(r) ==
    /\ req[r].step = "removing"
    /\ Discard(req[r].old)
    /\ Goto(r, "removed")
    /\ UNCHANGED <<rows, history>>

\* A column that was NULL when it was read is not written.
RemoveCommit(r) ==
    /\ req[r].step = "removed"
    /\ profile = "present"
    /\ resume' = IF req[r].old = NoKey THEN resume ELSE NoKey
    /\ Become(r, Idle)
    /\ UNCHANGED <<files, minted, profile, status, snapshot, history>>

\* An admin's update of the profile that clears the column: no file is deleted.
ClearByAdmin ==
    /\ profile = "present"
    /\ resume' = NoKey
    /\ UNCHANGED <<files, minted, profile, status, snapshot, req, history>>

(* The resume of an application.                                           *)

EditRead(r) ==
    /\ req[r].step = "idle"
    /\ \E a \in Applications :
         /\ status[a] = "NEW"
         /\ Become(r, [Idle EXCEPT !.step = "editing", !.app = {a}, !.old = snapshot[a]])
    /\ UNCHANGED <<files, minted, rows, history>>

\* Mutant: the previous file is deleted before the commit, as for the profile.
BugEditUpload(r) ==
    /\ req[r].step = "editing"
    /\ \E k \in Keys \ minted :
         /\ minted' = minted \cup {k}
         /\ files' = (files \ {req[r].old}) \cup {k}
         /\ req' = [req EXCEPT ![r].step = "edited", ![r].new = k]
    /\ UNCHANGED <<rows, history>>

EditUpload(r) ==
    /\ req[r].step = "editing"
    /\ \E k \in Keys : Upload(k)
                    /\ req' = [req EXCEPT ![r].step = "edited", ![r].new = k]
    /\ UNCHANGED <<rows, history>>

\* The status is not looked at again.
EditCommit(r) ==
    /\ req[r].step = "edited"
    /\ req[r].app \subseteq Live \ Locked
    /\ snapshot' = [a \in Applications |->
                      IF a \in req[r].app THEN req[r].new ELSE snapshot[a]]
    /\ sent' = sent \cup {req[r].new}
    /\ Goto(r, "tidying")
    /\ UNCHANGED <<files, minted, profile, resume, status, offered, broken>>

\* The previous file is deleted, after the commit.
EditDiscard(r) ==
    /\ req[r].step = "tidying"
    /\ Discard(req[r].old)
    /\ Become(r, Idle)
    /\ UNCHANGED <<rows, history>>

\* An admin decides, a job closes, or the candidate withdraws.
Engage(a) ==
    /\ status[a] = "NEW" /\ a \notin Locked
    /\ status' = [status EXCEPT ![a] = "engaged"]
    /\ UNCHANGED <<files, minted, profile, resume, snapshot, req, history>>

\* Only the row goes: the file of the application stays in storage.
DeleteApplication(a) ==
    /\ a \in Live \ Locked
    /\ status' = [status EXCEPT ![a] = "deleted"]
    /\ snapshot' = [snapshot EXCEPT ![a] = NoKey]
    /\ UNCHANGED <<files, minted, profile, resume, req, history>>

(* Erasing the candidate.                                                  *)

\* An admin's deletion: the profile is read, its applications are deleted.
EraseRead(r) ==
    /\ req[r].step = "idle"
    /\ profile = "present"
    /\ Live \cap Locked = {}
    /\ Become(r, [Idle EXCEPT !.step = "erasing", !.old = resume, !.held = Live])
    /\ UNCHANGED <<files, minted, rows, history>>

\* The nightly purge chooses the candidate, for its applications are all of old jobs.
PurgeRead(r) ==
    /\ req[r].step = "idle"
    /\ profile = "present" /\ Live # {}
    /\ Become(r, [Idle EXCEPT !.step = "erasing", !.old = resume])
    /\ UNCHANGED <<files, minted, rows, history>>

\* The file of the profile is deleted, that of no application.
EraseDiscard(r) ==
    /\ req[r].step = "erasing"
    /\ Discard(req[r].old)
    /\ Goto(r, "erased")
    /\ UNCHANGED <<rows, history>>

\* The profile goes, and with it every application (ON DELETE CASCADE).
EraseCommit(r) ==
    /\ req[r].step = "erased"
    /\ Live \cap UNION {req[q].held : q \in Requests \ {r}} = {}
    /\ profile' = "gone" /\ resume' = NoKey
    /\ status' = [a \in Applications |-> IF a \in Live THEN "deleted" ELSE status[a]]
    /\ snapshot' = [a \in Applications |-> NoKey]
    /\ Become(r, Idle)
    /\ UNCHANGED <<files, minted, history>>

\* A disconnect, a crash or an exception (a row that is gone, the unique address, an
\* upload that fails) rolls the request back, but not what it deleted from storage.
Abort(r) ==
    /\ req[r].step # "idle"
    /\ broken' = IF req[r].step \in {"swapping", "removed", "erased"}
                 THEN broken \cup ({req[r].old} \ {NoKey}) ELSE broken
    /\ Become(r, Idle)
    /\ UNCHANGED <<files, minted, rows, offered, sent>>

-------------------------------------------------------------------------------
Next ==
    \/ Activate \/ ClearByAdmin
    \/ \E r \in Requests :
         \/ ApplySaved(r) \/ ApplyUpload(r) \/ ApplyFind(r) \/ ApplyCommit(r)
         \/ ReplaceRead(r) \/ ReplaceUpload(r) \/ ReplaceDiscard(r) \/ ReplaceCommit(r)
         \/ RemoveRead(r) \/ RemoveDiscard(r) \/ RemoveCommit(r)
         \/ EditRead(r) \/ EditUpload(r) \/ EditCommit(r) \/ EditDiscard(r)
         \/ EraseRead(r) \/ PurgeRead(r) \/ EraseDiscard(r) \/ EraseCommit(r)
         \/ Abort(r)
    \/ \E a \in Applications : Engage(a) \/ DeleteApplication(a)

Spec == Init /\ [][Next]_vars

-------------------------------------------------------------------------------
(* Properties.                                                             *)

\* The resume that was sent with an application, or by editing it, is in storage as
\* long as the application has it, unless the profile ever had the same key: edits
\* that overlap, fail half-way or are overtaken by a decision delete only what no
\* row has any more.  (candidate/applications.py: the old file goes after the
\* commit; every upload has a key of its own.)
OwnFileKept ==
    \A a \in Live : snapshot[a] \in files \cup offered

\* The resume of the profile is in storage, unless an application ever had the same
\* key, a request that deletes it has not committed yet, or one failed after it:
\* replacements, removals and erasures that overlap never leave the key of a file
\* that one of them deleted.  (candidate/profile.py: the file goes before the commit.)
ProfileFileKept ==
    \/ resume \in files \cup sent \cup broken \cup {NoKey}
    \/ \E r \in Requests : /\ req[r].step \in {"swapping", "removed", "erased"}
                           /\ req[r].old = resume

\* What models.py:508 says of the snapshot: it is independent of the profile's resume,
\* so that what a company received stays when the candidate replaces the default one.
\* It does not hold: see the README.
SnapshotKept == \A a \in Live : snapshot[a] \in files

\* What INFRASTRUCTURE.md says of an erasure: "data is gone".  It does not hold: a
\* file that only an application had stays.  See the README.
ErasureComplete == profile = "gone" => files \cap (sent \ offered) = {}
================================================================================
