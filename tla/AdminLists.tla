----------------------------- MODULE AdminLists -----------------------------
(***************************************************************************)
(* The paged lists of the browser and the dialogs over them.               *)
(*                                                                         *)
(* src/frontend/src/hooks/useInfiniteList.ts loads every list: a page at a *)
(* time behind an opaque cursor, one request at a time, started over when  *)
(* its fetcher changes.  The administrator's pages of jobs, applications,  *)
(* candidates and companies (three tabs), the company's page of its jobs   *)
(* and the public board put rows of it on screen, open dialogs on copies   *)
(* of rows and change the list when the server has answered a call.        *)
(*                                                                         *)
(* One page is on screen.  A call is a message: sent, stored or refused by *)
(* the server in any order, answered in any order or lost.                 *)
(***************************************************************************)
EXTENDS Integers, Sequences, FiniteSets

CONSTANTS
  Rows,      \* identifiers, 1..n; a newer row has a larger one
  Created,   \* those that do not exist yet
  PageSize,  \* rows of one answer
  Pages,     \* the pages a behaviour may be about
  Budget     \* bound: what the user does on each page, closing dialogs apart

ASSUME ListsAssumption ==
  /\ Rows \subseteq Nat \ {0} /\ IsFiniteSet(Rows)
  /\ Created \subseteq Rows /\ \A c \in Created, r \in Rows \ Created : c > r
  /\ PageSize \in Nat \ {0} /\ Budget \in [Pages -> Nat]
  /\ Pages \subseteq {"jobs", "applications", "candidates", "active", "pending",
                      "invites", "companyJobs", "board"}

VARIABLES
  page,      \* the page on screen
  filter,    \* the status filter that the fetcher sends
  list,      \* the state of useInfiniteList
  req,       \* its request under way
  origin,    \* history: the filter and place of the answer the items start with
  url,       \* ?job= of the jobs page
  detail,    \* the row of the detail dialog (on the jobs page also the form's)
  look,      \* the request for one row that the address asks for
  side,      \* what the detail dialog has loaded about its row
  editing,   \* the row of the edit or status dialog
  form,      \* what that dialog's fields hold
  discard,   \* its "discard changes?" prompt is open
  notesOf,   \* the row of the notes dialog
  notes,     \* what its field holds
  confirm,   \* the row and the deed of the confirmation dialog
  creating,  \* the dialog for a new row is open
  busy,      \* the buttons that say "saving"
  rowBusy,   \* approvingId, resendingId or deleting
  calls,     \* calls under way
  db,        \* the server's rows
  noted,     \* history: rows whose notes the notes dialog stored
  tidy,      \* history: see AgreesWhenQuiet
  used       \* what the user has done so far

hook == <<list, req, origin>>
dialogs == <<url, detail, look, side, editing, form, discard, notesOf, notes, confirm, creating>>
buttons == <<busy, rowBusy>>
server == <<db, noted>>
vars == <<page, filter, hook, dialogs, buttons, calls, server, tidy, used>>

Status == {"ACTIVE", "PENDING", "PUBLISHED", "CLOSED", "NEW", "REJECTED", "WITHDRAWN",
           "INVITED", "REVOKED", "USED", "ABSENT", "GONE"}
\* A text is 0 (empty) or names the row it was written for.
Text == Rows \cup {0}
Row == [id : Rows, status : Status, text : Text]
None == [id |-> 0, status |-> "GONE", text |-> 0]
Exists(r) == db[r].status \notin {"ABSENT", "GONE"}

FirstStatus(p) ==
  CASE p \in {"jobs", "companyJobs", "pending", "invites"} -> "PENDING"
    [] p = "applications" -> "NEW"
    [] p = "board" -> "PUBLISHED"
    [] OTHER -> "ACTIVE"

\* The status filters of the two pages that send one.
Filters(p) ==
  CASE p = "jobs" -> {"ALL", "PENDING"}
    [] p = "applications" -> {"ALL", "NEW"}
    [] OTHER -> {"ALL"}

\* A row is untidy from when two calls about it, or a call and a request that
\* reads it, are under way together, a confirmation is opened on it during
\* another call, an answer about it is lost, or somebody else changes it.
Disturbed(r) ==
  \/ Cardinality({c \in calls' : c.row.id = r}) > 1
  \/ /\ \E c \in calls' : c.row.id = r
     /\ req'.stage # "none" \/ look'.of = r
  \/ /\ confirm'.row.id = r
     /\ \E c \in calls' : c.row.id = r /\ c.act # confirm'.deed
  \/ \E c \in calls : c.row.id = r /\ c.state = "stored"
       /\ \E d \in calls' : d.n = c.n /\ d.state = "failed"
  \/ db'[r] # db[r] /\ calls' = calls

Tidied == tidy' = [r \in Rows |-> tidy[r] /\ ~Disturbed(r)]

-----------------------------------------------------------------------------
(* useInfiniteList.                                                        *)

InitialState ==
  [items |-> <<>>, cursor |-> 0, hasMore |-> TRUE, loading |-> TRUE, more |-> FALSE,
   error |-> FALSE]
NoReq == [stage |-> "none", replace |-> FALSE, cursor |-> 0, filter |-> "ALL",
          rows |-> <<>>, next |-> 0]

\* fetchPage() on a state that was just set: nothing while a request is under way.
FetchPage(state, cursor, replace) ==
  IF req.stage # "none" THEN list' = state /\ UNCHANGED req
  ELSE /\ list' = [state EXCEPT !.loading = @ \/ replace, !.more = @ \/ ~replace, !.error = FALSE]
       /\ req' = [NoReq EXCEPT !.stage = "sent", !.replace = replace, !.cursor = cursor,
                               !.filter = filter']

Reset == FetchPage(InitialState, 0, TRUE) /\ UNCHANGED origin

\* Mutant: the cursor's own row is on the next page too.
BugListed(f, cursor) ==
  {r \in Rows : /\ Exists(r) /\ (f = "ALL" \/ db[r].status = f)
                /\ (cursor = 0 \/ r <= cursor)}

\* The server's page: rows of the filter behind the cursor, newest first.
Listed(f, cursor) ==
  {r \in Rows : /\ Exists(r) /\ (f = "ALL" \/ db[r].status = f)
                /\ (cursor = 0 \/ r < cursor)}
Newest(S, n) == {r \in S : Cardinality({s \in S : s > r}) < n}
\* The one way to put a set in order, newest or lowest first.
NewestFirst(S) == {q \in [1 .. Cardinality(S) -> S] : \A i, j \in DOMAIN q : i < j => q[i] > q[j]}
LowestFirst(S) == {q \in [1 .. Cardinality(S) -> S] : \A i, j \in DOMAIN q : i < j => q[i] < q[j]}
PageOf(f, cursor) == NewestFirst(Newest(Listed(f, cursor), PageSize))
NextCursor(f, cursor, p) ==
  IF Cardinality(Listed(f, cursor)) > PageSize THEN p[Len(p)] ELSE 0

ServeList ==
  /\ req.stage = "sent"
  /\ \E p \in PageOf(req.filter, req.cursor) :
       req' = [req EXCEPT !.stage = "served", !.rows = [i \in DOMAIN p |-> db[p[i]]],
                          !.next = NextCursor(req.filter, req.cursor, p)]
  /\ UNCHANGED <<page, filter, list, origin, dialogs, buttons, calls, server, used>>
  /\ Tidied

\* The answer replaces the items or goes behind whatever they are by now.
ListAnswer ==
  /\ req.stage = "served"
  /\ list' = [items |-> IF req.replace THEN req.rows ELSE list.items \o req.rows,
              cursor |-> req.next, hasMore |-> req.next # 0,
              loading |-> FALSE, more |-> FALSE, error |-> FALSE]
  /\ origin' = IF req.replace THEN req.filter ELSE IF list.items = <<>> THEN "middle" ELSE origin
  /\ req' = NoReq
  /\ UNCHANGED <<page, filter, dialogs, buttons, calls, server, used>>
  /\ Tidied

\* A lost answer is the same to the list as a lost request.
ListFail ==
  /\ req.stage = "sent"
  /\ list' = [list EXCEPT !.loading = FALSE, !.more = FALSE, !.error = TRUE]
  /\ req' = NoReq
  /\ UNCHANGED <<page, filter, origin, dialogs, buttons, calls, server, used>>
  /\ Tidied

\* The list itself is drawn: on the administrator's pages in place of the
\* skeleton, the error and the empty state, on the board also in place of a
\* board whose next page failed, on the company's page even under an error.
ListDrawn == ~list.loading /\ ~list.error /\ list.items # <<>>
BoardDrawn == ~list.loading /\ ~list.error /\ list.items # <<>>
CompanyJobsDrawn == ~list.loading /\ list.items # <<>>
OnScreen ==
  CASE page = "companyJobs" -> CompanyJobsDrawn
    [] page = "board" -> BoardDrawn
    [] OTHER -> ListDrawn
Shown == IF OnScreen THEN {list.items[i] : i \in DOMAIN list.items} ELSE {}

\* The sentinel under a list on screen comes into view.
Scroll ==
  /\ OnScreen /\ req.stage = "none" /\ list.hasMore /\ list.cursor # 0
  /\ UNCHANGED filter
  /\ FetchPage(list, list.cursor, FALSE)
  /\ UNCHANGED <<page, origin, dialogs, buttons, calls, server, used>>
  /\ Tidied

\* prependItem and removeItem: the items they leave.
Prepend(row) == <<row>> \o list.items
Remove(id) ==
  LET kept == {i \in DOMAIN list.items : list.items[i].id # id}
  IN {[k \in DOMAIN q |-> list.items[q[k]]] : q \in LowestFirst(kept)}

-----------------------------------------------------------------------------
(* What is on screen.                                                      *)

\* The jobs page shows its dialog only while the address names a job.
Dialog == IF page # "jobs" THEN editing ELSE IF url = 0 THEN None ELSE detail
DetailShown == page # "jobs" /\ detail # None
NoConfirm == [row |-> None, deed |-> "none"]
Modal == DetailShown \/ Dialog # None \/ notesOf # None \/ confirm # NoConfirm \/ creating

\* What the menu of a row offers, page by page, in a table or on a card.
Closed(row) == row.status \in {"WITHDRAWN", "JOB_CLOSED"}
When(yes, deeds) == IF yes THEN deeds ELSE {}
JobsTable(row) ==
  {"view", "edit", "delete"} \cup When(row.status = "PENDING", {"approve", "reject"})
JobsList(row) == {"edit", "delete"} \cup When(row.status = "PENDING", {"approve", "reject"})
ApplicationsTable(row) == {"view", "notes", "delete"} \cup When(row.status # "WITHDRAWN", {"edit"})
ClosedSection(row) == {"view", "edit", "notes", "delete"}
CandidatesTable(row) == {"view", "edit", "delete"}
CandidatesCards(row) == {"edit", "delete"}
ActiveTab(row) == {"view", "edit", "delete"}
PendingTab(row) == {"view", "approve", "reject"}
InvitesTab(row) ==
  {"delete"} \cup When(row.status # "USED", {"resend"}) \cup When(row.status = "PENDING", {"revoke"})
CompanyJobs(row) ==
  When(row.status \in {"PENDING", "PUBLISHED"}, {"edit"}) \cup When(row.status = "PENDING", {"delete"})
Menu(row) ==
  CASE page = "jobs" -> JobsTable(row) \cup JobsList(row)
    [] page = "applications" -> IF Closed(row) THEN ClosedSection(row) ELSE ApplicationsTable(row)
    [] page = "candidates" -> CandidatesTable(row) \cup CandidatesCards(row)
    [] page = "active" -> ActiveTab(row)
    [] page = "pending" -> PendingTab(row)
    [] page = "invites" -> InvitesTab(row)
    [] page = "companyJobs" -> CompanyJobs(row)
    [] OTHER -> {}

\* What the buttons of the dialog over one row offer.
JobDialog(row) == {"delete"} \cup When(row.status = "PENDING", {"approve", "reject"})
ApplicationDialog(row) == {"notes", "delete"} \cup When(row.status # "WITHDRAWN", {"edit"})
CandidateDialog(row) == {"edit", "delete"}
CompanyDialog(row) == When(page = "active", {"edit"})
Footer(row) ==
  CASE page = "jobs" -> JobDialog(row)
    [] page = "applications" -> ApplicationDialog(row)
    [] page = "candidates" -> CandidateDialog(row)
    [] OTHER -> CompanyDialog(row)

CanCreate == page \in {"jobs", "active", "invites", "companyJobs"}
Retries == page \notin {"companyJobs", "board"}

Act == used < Budget[page] /\ used' = used + 1
NoSide == [of |-> 0, stage |-> "none"]
NoLook == [of |-> 0, stage |-> "none", row |-> None]
Seed(row) == [text |-> row.text, status |-> row.status]
EmptyForm == [text |-> 0, status |-> "PUBLISHED"]
Dirty == Dialog # None /\ form # Seed(Dialog)

InCalls(r) == \E c \in calls : c.row.id = r

Mounted ==
  /\ url' = 0 /\ detail' = None /\ look' = NoLook /\ side' = NoSide /\ editing' = None
  /\ form' = EmptyForm /\ discard' = FALSE /\ notesOf' = None /\ notes' = 0
  /\ confirm' = NoConfirm /\ creating' = FALSE /\ rowBusy' = 0

Init ==
  /\ page \in Pages /\ filter = "ALL" /\ origin = "ALL"
  /\ list = [InitialState EXCEPT !.loading = TRUE]
  /\ req = [NoReq EXCEPT !.stage = "sent", !.replace = TRUE]
  /\ url = 0 /\ detail = None /\ look = NoLook /\ side = NoSide /\ editing = None
  /\ form = EmptyForm /\ discard = FALSE /\ notesOf = None /\ notes = 0
  /\ confirm = NoConfirm /\ creating = FALSE /\ busy = {} /\ rowBusy = 0
  /\ calls = {} /\ noted = {} /\ used = 0
  /\ db = [r \in Rows |-> [id |-> r, text |-> r,
                           status |-> IF r \in Created THEN "ABSENT" ELSE FirstStatus(page)]]
  /\ tidy = [r \in Rows |-> TRUE]

\* The component starts afresh.  What was called stays under way; its answers
\* find no one, except those of the deeds that are kept.
StartAfresh(kept) ==
  /\ Act
  /\ Mounted
  /\ list' = InitialState /\ req' = [NoReq EXCEPT !.stage = "sent", !.replace = TRUE]
  /\ filter' = "ALL"
  /\ busy' = busy \cap kept
  /\ calls' = {[c EXCEPT !.live = @ /\ c.act \in kept] : c \in calls}
  /\ UNCHANGED <<page, origin, server>>
  /\ Tidied

\* Another page and back: a link, or the browser's back under an open dialog.
Remount == StartAfresh({})
\* Another tab of the companies and back, or brought back by the answer of a
\* creation: the dialog that creates a company belongs to the page, not to a tab.
SwitchTab == page = "active" /\ ~Modal /\ StartAfresh({"create"})

\* A status tab: the fetcher changes, the hook resets and refetches.
SetFilter(f) ==
  /\ Act /\ ~Modal /\ f \in Filters(page) \ {filter}
  /\ filter' = f /\ Reset
  /\ UNCHANGED <<page, dialogs, buttons, calls, server>>
  /\ Tidied

\* ErrorState's button.
Retry ==
  /\ list.error /\ Retries /\ ~list.loading /\ ~Modal /\ Act
  /\ UNCHANGED filter /\ Reset
  /\ UNCHANGED <<page, dialogs, buttons, calls, server>>
  /\ Tidied

-----------------------------------------------------------------------------
(* Dialogs.                                                                *)

Untouched == UNCHANGED <<page, filter, hook, buttons, calls, server>>

\* setDetail from a row; the dialog asks for what belongs to its row.
OpenDetail(row) ==
  /\ page # "jobs" /\ row \in Shown /\ "view" \in Menu(row) /\ ~Modal /\ Act
  /\ detail' = row
  /\ side' = IF page \in {"candidates", "active", "pending"}
             THEN [of |-> row.id, stage |-> "asked"] ELSE NoSide
  /\ Untouched /\ UNCHANGED <<url, look, editing, form, discard, notesOf, notes, confirm, creating>>
  /\ Tidied

CloseDetail ==
  /\ DetailShown /\ detail' = None /\ side' = NoSide
  /\ Untouched /\ UNCHANGED <<url, look, editing, form, discard, notesOf, notes, confirm, creating, used>>
  /\ Tidied

SideAnswer ==
  /\ side.stage = "asked"
  /\ \E s \in {"shown", "failed"} : side' = [side EXCEPT !.stage = s]
  /\ Untouched
  /\ UNCHANGED <<url, detail, look, editing, form, discard, notesOf, notes, confirm, creating, used>>
  /\ Tidied

\* Mutant: the dialog keeps the fields of its last session.
BugOpenForm(row) ==
  /\ page # "jobs" /\ Act
  /\ \/ row \in Shown /\ ~Modal /\ "edit" \in Menu(row) /\ UNCHANGED <<detail, side>>
     \/ DetailShown /\ row = detail /\ "edit" \in Footer(row) /\ detail' = None /\ side' = NoSide
  /\ editing' = row /\ UNCHANGED form
  /\ Untouched /\ UNCHANGED <<url, look, discard, notesOf, notes, confirm, creating>>
  /\ Tidied

\* The edit or status dialog over a row of the list or of the detail dialog;
\* its fields are seeded from the row.
OpenForm(row) ==
  /\ page # "jobs" /\ Act
  /\ \/ row \in Shown /\ ~Modal /\ "edit" \in Menu(row) /\ UNCHANGED <<detail, side>>
     \/ DetailShown /\ row = detail /\ "edit" \in Footer(row) /\ detail' = None /\ side' = NoSide
  /\ editing' = row /\ form' = Seed(row)
  /\ Untouched /\ UNCHANGED <<url, look, discard, notesOf, notes, confirm, creating>>
  /\ Tidied

\* openJob(): the row is shown at once and fetched again for the address.
OpenJob(row) ==
  /\ page = "jobs" /\ row \in Shown /\ ~Modal /\ Act
  /\ url' = row.id /\ detail' = row /\ form' = Seed(row)
  /\ look' = [of |-> row.id, stage |-> "sent", row |-> None]
  /\ Untouched /\ UNCHANGED <<side, editing, discard, notesOf, notes, confirm, creating>>
  /\ Tidied

\* The browser's back and forward: the address changes under the page, whatever
\* dialog is open.
PopState(r) ==
  /\ page = "jobs" /\ r \in (Rows \ Created) \cup {0}
  /\ r # url /\ Act
  /\ url' = r
  /\ look' = IF r = 0 THEN NoLook ELSE [of |-> r, stage |-> "sent", row |-> None]
  /\ form' = IF url = 0 /\ detail # None THEN Seed(detail) ELSE form
  /\ Untouched /\ UNCHANGED <<detail, side, editing, discard, notesOf, notes, confirm, creating>>
  /\ Tidied

ServeLook ==
  /\ look.stage = "sent"
  /\ look' = [look EXCEPT !.stage = "served", !.row = IF Exists(look.of) THEN db[look.of] ELSE None]
  /\ Untouched
  /\ UNCHANGED <<url, detail, side, editing, form, discard, notesOf, notes, confirm, creating, used>>
  /\ Tidied

\* The fetched row is a new object: the dialog seeds its fields from it again.
LookAnswer ==
  /\ look.stage = "served" /\ look' = NoLook
  /\ IF look.row = None THEN UNCHANGED <<detail, form>>
     ELSE detail' = look.row /\ form' = Seed(look.row)
  /\ Untouched /\ UNCHANGED <<url, side, editing, discard, notesOf, notes, confirm, creating, used>>
  /\ Tidied

LookFail ==
  /\ look.stage = "sent" /\ look' = NoLook
  /\ Untouched
  /\ UNCHANGED <<url, detail, side, editing, form, discard, notesOf, notes, confirm, creating, used>>
  /\ Tidied

\* The fields of the dialogs: a text is filled in or emptied, another status is
\* chosen, the changes are reverted.
Written == [form EXCEPT !.text = IF @ = 0 THEN Dialog.id ELSE 0]
JobFields == {Written, [form EXCEPT !.status = "CLOSED"], Seed(Dialog)}
StatusFields == {Written, [form EXCEPT !.status = "REJECTED"]}
CandidateFields == {Written}
CompanyFields == {Written}
CompanyJobFields == {Written}
Fields ==
  CASE page = "jobs" -> JobFields
    [] page = "applications" -> StatusFields
    [] page = "candidates" -> CandidateFields
    [] page = "active" -> CompanyFields
    [] OTHER -> CompanyJobFields
Type ==
  /\ Dialog # None /\ ~discard /\ Act
  /\ form' \in Fields \ {form}
  /\ Untouched
  /\ UNCHANGED <<url, detail, look, side, editing, discard, notesOf, notes, confirm, creating>>
  /\ Tidied

\* Escape, the cross or cancel; only the edit dialogs ask about changes.
Leave ==
  IF page = "jobs" THEN url' = 0 /\ detail' = None /\ look' = NoLook /\ UNCHANGED editing
  ELSE editing' = None /\ UNCHANGED <<url, detail, look>>
CloseForm ==
  /\ Dialog # None /\ ~discard
  /\ page = "companyJobs" => "form" \notin busy
  /\ IF Dirty /\ page \in {"jobs", "candidates", "active"}
     THEN discard' = TRUE /\ UNCHANGED <<url, detail, look, editing>>
     ELSE Leave /\ UNCHANGED discard
  /\ Untouched /\ UNCHANGED <<side, form, notesOf, notes, confirm, creating, used>>
  /\ Tidied
Discard ==
  /\ discard /\ Dialog # None
  /\ discard' = FALSE /\ (Leave \/ UNCHANGED <<url, detail, look, editing>>)
  /\ Untouched /\ UNCHANGED <<side, form, notesOf, notes, confirm, creating, used>>
  /\ Tidied

\* The notes dialog takes its field from the row only when it is first created,
\* with no row: notes stays what it was.
OpenNotes(row) ==
  /\ page = "applications" /\ Act
  /\ \/ row \in Shown /\ ~Modal /\ "notes" \in Menu(row) /\ UNCHANGED <<detail, side>>
     \/ DetailShown /\ row = detail /\ "notes" \in Footer(row) /\ detail' = None /\ side' = NoSide
  /\ notesOf' = row
  /\ Untouched /\ UNCHANGED <<url, look, editing, form, discard, notes, confirm, creating>>
  /\ Tidied
TypeNotes ==
  /\ notesOf # None /\ Act
  /\ notes' = IF notes = 0 THEN notesOf.id ELSE 0
  /\ Untouched
  /\ UNCHANGED <<url, detail, look, side, editing, form, discard, notesOf, confirm, creating>>
  /\ Tidied
CloseNotes ==
  /\ notesOf # None /\ notesOf' = None
  /\ Untouched
  /\ UNCHANGED <<url, detail, look, side, editing, form, discard, notes, confirm, creating, used>>
  /\ Tidied

\* A confirmation for a row of the list or of the dialog over it, which closes.
Ask(row, deed) ==
  /\ page # "companyJobs" /\ Act
  /\ \/ row \in Shown /\ ~Modal /\ deed \in Menu(row) /\ UNCHANGED <<url, detail, look, side>>
     \/ /\ DetailShown /\ row = detail /\ deed \in Footer(row)
        /\ detail' = None /\ side' = NoSide /\ UNCHANGED <<url, look>>
     \/ /\ page = "jobs" /\ Dialog # None /\ row = Dialog /\ deed \in Footer(row)
        /\ url' = 0 /\ detail' = None /\ look' = NoLook /\ UNCHANGED side
  /\ confirm' = [row |-> row, deed |-> deed]
  /\ Untouched /\ UNCHANGED <<editing, form, discard, notesOf, notes, creating>>
  /\ Tidied
\* Escape works while the deed is under way, though its buttons do not.
Dismiss ==
  /\ confirm # NoConfirm /\ confirm' = NoConfirm
  /\ Untouched
  /\ UNCHANGED <<url, detail, look, side, editing, form, discard, notesOf, notes, creating, used>>
  /\ Tidied

OpenCreate ==
  /\ CanCreate /\ ~Modal /\ Act /\ creating' = TRUE
  /\ Untouched
  /\ UNCHANGED <<url, detail, look, side, editing, form, discard, notesOf, notes, confirm>>
  /\ Tidied
CloseCreate ==
  /\ creating /\ creating' = FALSE
  /\ page = "companyJobs" => "create" \notin busy
  /\ Untouched
  /\ UNCHANGED <<url, detail, look, side, editing, form, discard, notesOf, notes, confirm, used>>
  /\ Tidied

-----------------------------------------------------------------------------
(* Calls.                                                                  *)

Fresh == CHOOSE n \in 1 .. Cardinality(calls) + 1 : \A c \in calls : c.n # n
Send(act, row) ==
  calls' = calls \cup {[n |-> Fresh, act |-> act, row |-> row, live |-> TRUE, state |-> "sent"]}
Flag(act) ==
  CASE act \in {"delete", "reject", "revoke"} -> "confirm"
    [] act = "save" -> "form"
    [] OTHER -> act
Filled(row) == [row EXCEPT !.text = form.text, !.status = form.status]

\* save() and handleSave().  The jobs dialog also saves on Ctrl+Enter, which no
\* disabled button stops.
Save ==
  /\ Dialog # None /\ ~discard /\ Act
  /\ page # "jobs" => "form" \notin busy
  /\ Send("save", Filled(Dialog)) /\ busy' = busy \cup {"form"}
  /\ UNCHANGED <<page, filter, hook, dialogs, rowBusy, server>>
  /\ Tidied

SaveNotes ==
  /\ notesOf # None /\ "notes" \notin busy /\ Act
  /\ Send("notes", [notesOf EXCEPT !.text = notes]) /\ busy' = busy \cup {"notes"}
  /\ UNCHANGED <<page, filter, hook, dialogs, rowBusy, server>>
  /\ Tidied

\* handleDeleteConfirm(), handleRejectConfirm(), handleRevokeConfirm().
Confirm ==
  /\ confirm # NoConfirm /\ "confirm" \notin busy /\ Act
  /\ Send(confirm.deed, confirm.row) /\ busy' = busy \cup {"confirm"}
  /\ UNCHANGED <<page, filter, hook, dialogs, rowBusy, server>>
  /\ Tidied

\* handleApprove(): on the jobs page any number of times, and from the dialog,
\* which closes; on the pending tab one at a time.
Approve(row) ==
  /\ Act
  /\ \/ row \in Shown /\ ~Modal /\ "approve" \in Menu(row) /\ UNCHANGED <<url, detail, look>>
     \/ /\ page = "jobs" /\ Dialog # None /\ row = Dialog /\ "approve" \in Footer(row)
        /\ url' = 0 /\ detail' = None /\ look' = NoLook
  /\ IF page = "pending" THEN rowBusy = 0 /\ rowBusy' = row.id ELSE UNCHANGED rowBusy
  /\ Send("approve", row)
  /\ UNCHANGED <<page, filter, hook, side, editing, form, discard, notesOf, notes, confirm,
                 creating, busy, server>>
  /\ Tidied

\* handleResend() of an invitation, handleDelete() of the company's job.
RowDeed(row) ==
  /\ row \in Shown /\ ~Modal /\ Act
  /\ \/ "resend" \in Menu(row) /\ rowBusy = 0 /\ Send("resend", row)
     \/ page = "companyJobs" /\ "delete" \in Menu(row) /\ rowBusy # row.id /\ Send("delete", row)
  /\ rowBusy' = row.id
  /\ UNCHANGED <<page, filter, hook, dialogs, busy, server>>
  /\ Tidied

\* The dialogs of a new row; Ctrl+Enter again only on the jobs page.
Submit ==
  /\ creating /\ Act
  /\ Send("create", None) /\ busy' = busy \cup {"create"}
  /\ UNCHANGED <<page, filter, hook, dialogs, rowBusy, server>>
  /\ Tidied
CreateJob == page = "jobs" /\ Submit
CreateCompany == page = "active" /\ "create" \notin busy /\ Submit
CreateInvite == page = "invites" /\ "create" \notin busy /\ Submit
CreateCompanyJob == page = "companyJobs" /\ "create" \notin busy /\ Submit

\* What the server does with a call: the stored row, or None when it refuses.
NextRow == {r \in Rows : db[r].status = "ABSENT" /\ \A q \in Rows : q < r => db[q].status # "ABSENT"}
Has(c, S) == Exists(c.row.id) /\ db[c.row.id].status \in S
Becomes(c, status) == [db[c.row.id] EXCEPT !.status = status]
NewRow ==
  LET n == CHOOSE n \in NextRow : TRUE
  IN [id |-> n, text |-> n, status |-> IF page = "jobs" THEN "PUBLISHED" ELSE FirstStatus(page)]
Saved(c) ==
  CASE page \in {"jobs", "applications"} /\ Has(c, Status \ {"WITHDRAWN"}) ->
         [Becomes(c, c.row.status) EXCEPT !.text = c.row.text]
    [] \/ page = "companyJobs" /\ Has(c, {"PENDING", "PUBLISHED"})
       \/ page \in {"candidates", "active"} /\ Has(c, Status) ->
         [db[c.row.id] EXCEPT !.text = c.row.text]
    [] OTHER -> None
Stored(c) ==
  CASE c.act = "create" /\ NextRow # {} -> NewRow
    [] c.act = "approve" /\ page = "jobs" /\ Has(c, {"PENDING"}) -> Becomes(c, "PUBLISHED")
    [] c.act = "approve" /\ page = "pending" /\ Has(c, {"PENDING", "INVITED"}) -> Becomes(c, "INVITED")
    [] c.act = "reject" /\ page = "jobs" /\ Has(c, {"PENDING"}) -> Becomes(c, "CLOSED")
    [] c.act = "reject" /\ page = "pending" /\ Has(c, {"PENDING", "INVITED"}) -> Becomes(c, "GONE")
    [] c.act = "revoke" /\ Has(c, {"PENDING"}) -> Becomes(c, "REVOKED")
    [] c.act = "resend" /\ Has(c, Status \ {"USED"}) -> Becomes(c, "PENDING")
    [] c.act = "delete" /\ Has(c, IF page = "companyJobs" THEN {"PENDING"} ELSE Status) ->
         Becomes(c, "GONE")
    [] c.act = "notes" /\ Has(c, Status) -> [db[c.row.id] EXCEPT !.text = c.row.text]
    [] c.act = "save" -> Saved(c)
    [] OTHER -> None

\* Mutant: every handler keeps the copy that its call was opened on.
BugKnown(c, row) == IF c.act = "create" THEN row ELSE c.row

\* What the handler of a stored call knows of the row: the answer, or for a
\* rejected job and a revoked invitation the copy it was opened on.
Known(c, row) ==
  IF c.act \in {"reject", "revoke"} THEN [c.row EXCEPT !.status = row.status] ELSE row

Serve(c) ==
  /\ c.state = "sent"
  /\ LET row == Stored(c) IN
     IF row = None
     THEN /\ calls' = (calls \ {c}) \cup {[c EXCEPT !.state = "failed"]}
          /\ UNCHANGED server
     ELSE /\ calls' = (calls \ {c}) \cup {[c EXCEPT !.state = "stored", !.row = Known(c, row)]}
          /\ db' = [db EXCEPT ![row.id] = row]
          /\ noted' = IF c.act = "notes" THEN noted \cup {row.id} ELSE noted
  /\ UNCHANGED <<page, filter, hook, dialogs, buttons, used>>
  /\ Tidied

\* The call or its answer is lost: axios rejects, whatever the server did.
Lose(c) ==
  /\ c.state \in {"sent", "stored"}
  /\ calls' = (calls \ {c}) \cup {[c EXCEPT !.state = "failed"]}
  /\ UNCHANGED <<page, filter, hook, dialogs, buttons, server, used>>
  /\ Tidied

\* A candidate withdraws, an invitation is used, an administrator publishes.
Elsewhere(r) ==
  /\ Act
  /\ \/ page = "applications" /\ db[r].status = "NEW" /\ db' = [db EXCEPT ![r].status = "WITHDRAWN"]
     \/ page = "invites" /\ db[r].status = "PENDING" /\ db' = [db EXCEPT ![r].status = "USED"]
     \/ page = "companyJobs" /\ db[r].status = "PENDING" /\ db' = [db EXCEPT ![r].status = "PUBLISHED"]
  /\ UNCHANGED <<page, filter, hook, dialogs, buttons, calls, noted>>
  /\ Tidied

\* updateItem: every item of the call's row is replaced, or gets the notes.
Changed(c, x) ==
  IF x.id # c.row.id THEN x ELSE IF c.act = "notes" THEN [x EXCEPT !.text = c.row.text] ELSE c.row

\* What may be in the list after a call that was stored.
ItemsAfter(c) ==
  CASE c.act = "delete" \/ (c.act = "reject" /\ page = "pending") -> Remove(c.row.id)
    [] c.act = "create" /\ page # "active" -> {Prepend(c.row)}
    [] c.act \in {"create", "resend"} -> {list.items}
    [] OTHER -> {[i \in DOMAIN list.items |-> Changed(c, list.items[i])]}

\* The detail dialog and the fields after it, page by page.
JobsAfter(c) ==
  /\ CASE c.act = "save" -> detail' = c.row /\ form' = Seed(c.row) /\ UNCHANGED <<url, look>>
       [] c.act = "delete" -> detail' = None /\ url' = 0 /\ look' = NoLook /\ UNCHANGED form
       [] OTHER -> UNCHANGED <<url, detail, look, form>>
  /\ UNCHANGED side
ApplicationsAfter(c) ==
  /\ IF c.act = "delete" THEN detail' = None /\ side' = NoSide ELSE UNCHANGED <<detail, side>>
  /\ UNCHANGED <<url, look, form>>
CandidatesAfter(c) ==
  /\ IF c.act = "delete" THEN detail' = None /\ side' = NoSide ELSE UNCHANGED <<detail, side>>
  /\ UNCHANGED <<url, look, form>>
CompaniesAfter(c) ==
  /\ IF c.act = "create"
     THEN detail' = c.row /\ side' = [of |-> c.row.id, stage |-> "asked"]
     ELSE UNCHANGED <<detail, side>>
  /\ UNCHANGED <<url, look, form>>

\* Each handler closes its own kind of dialog, whatever row that shows by now.
DialogsAfter(c) ==
  /\ editing' = IF c.act = "save" THEN None ELSE editing
  /\ notesOf' = IF c.act = "notes" THEN None ELSE notesOf
  /\ creating' = (creating /\ c.act # "create")
  /\ confirm' = IF confirm.deed = c.act THEN NoConfirm ELSE confirm
  /\ CASE page = "jobs" -> JobsAfter(c)
       [] page = "applications" -> ApplicationsAfter(c)
       [] page = "candidates" -> CandidatesAfter(c)
       [] page = "active" -> CompaniesAfter(c)
       [] OTHER -> UNCHANGED <<url, detail, look, side, form>>
  /\ UNCHANGED <<discard, notes>>

ButtonsAfter(c) ==
  /\ busy' = busy \ {Flag(c.act)}
  /\ rowBusy' = IF page \in {"pending", "invites", "companyJobs"}
                   /\ c.act \in {"approve", "resend", "delete"} /\ ~(page = "invites" /\ c.act = "delete")
                THEN 0 ELSE rowBusy

\* The answer of a stored call.
Succeed(c) ==
  /\ c.state = "stored" /\ calls' = calls \ {c} /\ UNCHANGED filter
  /\ IF ~c.live THEN UNCHANGED <<hook, dialogs, buttons>>
     ELSE /\ DialogsAfter(c) /\ ButtonsAfter(c)
          /\ IF c.act = "resend" THEN Reset
             ELSE /\ \E items \in ItemsAfter(c) : list' = [list EXCEPT !.items = items]
                  /\ UNCHANGED <<req, origin>>
  /\ UNCHANGED <<page, server, used>>
  /\ Tidied

\* Mutant: the buttons come back only after an answer.
BugFail(c) ==
  /\ c.state = "failed" /\ calls' = calls \ {c}
  /\ UNCHANGED <<page, filter, hook, dialogs, buttons, server, used>>
  /\ Tidied

\* The catch and finally of every handler: a toast, the button again.
Fail(c) ==
  /\ c.state = "failed" /\ calls' = calls \ {c}
  /\ IF c.live THEN ButtonsAfter(c) ELSE UNCHANGED buttons
  /\ UNCHANGED <<page, filter, hook, dialogs, server, used>>
  /\ Tidied

-----------------------------------------------------------------------------
(* The specification.                                                      *)

NetStep ==
  \/ ServeList \/ ListAnswer \/ ListFail \/ SideAnswer \/ ServeLook \/ LookAnswer \/ LookFail
  \/ \E c \in calls : Serve(c) \/ Lose(c) \/ Succeed(c) \/ Fail(c)
UserStep ==
  \/ Remount \/ SwitchTab \/ Retry \/ Scroll \/ CloseDetail \/ Type \/ CloseForm \/ Discard
  \/ TypeNotes \/ CloseNotes \/ Dismiss \/ OpenCreate \/ CloseCreate
  \/ Save \/ SaveNotes \/ Confirm
  \/ CreateJob \/ CreateCompany \/ CreateInvite \/ CreateCompanyJob
  \/ \E f \in Filters(page) : SetFilter(f)
  \/ \E r \in Rows \cup {0} : PopState(r)
  \/ \E r \in Rows : Elsewhere(r)
  \/ \E row \in Shown \cup {detail} :
       \/ OpenDetail(row) \/ OpenForm(row) \/ OpenJob(row) \/ OpenNotes(row)
       \/ \E deed \in {"delete", "reject", "revoke"} : Ask(row, deed)
       \/ Approve(row) \/ RowDeed(row)

Next == NetStep \/ UserStep

Spec == Init /\ [][Next]_vars
\* Every request is served or fails and its answer is handled in the end.
FairSpec ==
  /\ Spec
  /\ WF_vars(ServeList \/ ListAnswer \/ ListFail)
  /\ WF_vars(\E c \in calls : Serve(c))
  /\ WF_vars(\E c \in calls : Succeed(c) \/ Fail(c))

-----------------------------------------------------------------------------
(* Properties.                                                             *)

Call == [n : Nat, act : {"approve", "reject", "delete", "revoke", "resend", "save", "notes", "create"},
         row : Row \cup {None}, live : BOOLEAN, state : {"sent", "stored", "failed"}]

\* The types; at most one request of the list, and its indicators are not on without
\* it; and no tidy row twice in a list, however pages, creations, filters and
\* reloads interleave.
TypeOK ==
  /\ page \in Pages /\ filter \in Filters(page) /\ origin \in Filters(page) \cup {"middle"}
  /\ list.items \in Seq(Row) /\ list.cursor \in Rows \cup {0}
  /\ req.stage \in {"none", "sent", "served"}
  /\ url \in Rows \cup {0} /\ {detail, editing, notesOf, confirm.row} \subseteq Row \cup {None}
  /\ form \in [text : Text, status : Status] /\ notes \in Text
  /\ busy \subseteq {"form", "notes", "confirm", "create", "approve", "resend"}
  /\ rowBusy \in Rows \cup {0} /\ calls \subseteq Call
  /\ db \in [Rows -> Row] /\ noted \subseteq Rows /\ tidy \in [Rows -> BOOLEAN]
  /\ (list.loading \/ list.more) => req.stage # "none"
  /\ ~(list.loading /\ list.error)
  /\ \A i, j \in DOMAIN list.items :
       i # j /\ list.items[i].id = list.items[j].id => ~tidy[list.items[i].id]

\* With nothing under way, every row on screen is the server's row: a deleted
\* one is gone, a changed one changed.  Where two answers raced, one of them was
\* lost, or somebody else changed the row, the code promises nothing.
AgreesWhenQuiet ==
  req.stage = "none" =>
    \A i \in DOMAIN list.items :
      LET x == list.items[i]
      IN tidy[x.id] /\ ~InCalls(x.id) => x = db[x.id]

\* What one row's dialog holds never reaches another row, whichever dialogs were
\* open before and however late their saves are answered; the notes dialog apart.
OwnText == \A r \in Rows : db[r].text \in {0, r} \/ r \in noted

\* The same of the notes dialog (it fails: see NotesOwned in the README).
NotesOwned == \A r \in Rows : db[r].text \in {0, r}

\* The list shows the filter that is chosen, from its first page on (it fails).
FilterShown == req.stage = "none" /\ ~list.error => origin = filter

\* Edits are replaced by another seed only when a new session starts, when they
\* were saved, or when the user agreed to discard them (it fails).
EditsKept ==
  [][Dirty /\ Dialog' # None /\ Dialog'.id = Dialog.id /\ form' = Seed(Dialog')
       => calls' # calls \/ used' # used]_vars

\* Every loading indicator ends, and every button that a call disabled is enabled
\* again, whether the call is answered, refused or lost.
Settles ==
  /\ (list.loading \/ list.more) ~> ~(list.loading \/ list.more)
  /\ (busy # {} \/ rowBusy # 0) ~> (busy = {} /\ rowBusy = 0)
=============================================================================
