-------------------------- MODULE AdminLists_proofs --------------------------
(***************************************************************************)
(* Proofs about AdminLists: its types and that no row is twice in a list,  *)
(* that no dialog writes another row's text, and that with nothing under   *)
(* way the list shows what the server has stored.                          *)
(***************************************************************************)
EXTENDS AdminLists, FiniteSetTheorems, FunctionTheorems, TLAPS

-----------------------------------------------------------------------------
(* Pages and removals.                                                     *)

\* A finite set of identifiers has a last one.
LEMMA LastExists ==
  ASSUME NEW S \in SUBSET Nat, IsFiniteSet(S), S # {}
  PROVE  \E a \in S : \A b \in S : b <= a
<1> DEFINE HasLast(U) == \E a \in U : \A b \in U : b <= a
           Bad == {U \in SUBSET S : U # {} /\ ~HasLast(U)}
<1>1. SUFFICES ASSUME Bad # {} PROVE FALSE
  OBVIOUS
<1>2. Bad \subseteq SUBSET S
  OBVIOUS
<1>3. IsWellFoundedOn(StrictSubsetOrdering(S), SUBSET S)
  BY FS_StrictSubsetOrderingWellFounded, FS_FiniteSubsetsOfFinite
<1> HIDE DEF Bad
<1>4. PICK U \in Bad : \A V \in Bad : <<V, U>> \notin StrictSubsetOrdering(S)
  BY <1>1, <1>2, <1>3, WFMin
<1> USE DEF Bad
<1>5. PICK x \in U : TRUE
  OBVIOUS
<1>6. U \ {x} \notin Bad
  BY <1>4, <1>5 DEF StrictSubsetOrdering
<1>7. CASE U \ {x} = {}
  <2>1. \A b \in U : b <= x
    BY <1>5, <1>7
  <2>2. QED BY <1>5, <2>1
<1>8. CASE U \ {x} # {}
  <2>1. PICK m \in U \ {x} : \A b \in U \ {x} : b <= m
    BY <1>6, <1>8
  <2>2. \A b \in U : b <= IF m <= x THEN x ELSE m
    BY <1>5, <2>1
  <2>3. QED BY <1>5, <2>1, <2>2
<1>9. QED BY <1>7, <1>8

\* What stands where in two lists, one behind the other.
LEMMA AppendedAt ==
  ASSUME NEW S, NEW s \in Seq(S), NEW t \in Seq(S), NEW k \in DOMAIN (s \o t)
  PROVE  \/ k \in DOMAIN s /\ (s \o t)[k] = s[k]
         \/ k - Len(s) \in DOMAIN t /\ (s \o t)[k] = t[k - Len(s)]
OBVIOUS

\* The server's page: rows of the filter, in order, the last of them its cursor.
LEMMA PageTyped ==
  ASSUME ListsAssumption, NEW f, NEW k \in Rows \cup {0}, NEW p \in PageOf(f, k)
  PROVE  \E n \in Nat :
           /\ p \in [1 .. n -> Listed(f, k)]
           /\ \A i, j \in 1 .. n : i < j => p[i] > p[j]
           /\ \/ NextCursor(f, k, p) = 0
              \/ n > 0 /\ NextCursor(f, k, p) = p[n]
<1> DEFINE L == Listed(f, k)
           S == Newest(L, PageSize)
<1>1. L \subseteq Rows /\ IsFiniteSet(L) /\ L \subseteq Nat
  BY FS_Subset DEF Listed, ListsAssumption
<1>2. S \subseteq L /\ IsFiniteSet(S) /\ Cardinality(S) \in Nat
  BY <1>1, FS_Subset, FS_CardinalityType DEF Newest
<1>3. /\ p \in [1 .. Cardinality(S) -> S]
      /\ \A i, j \in DOMAIN p : i < j => p[i] > p[j]
  BY DEF PageOf, NewestFirst
<1>4. p \in [1 .. Cardinality(S) -> L] /\ DOMAIN p = 1 .. Cardinality(S)
  BY <1>2, <1>3
<1>5. Len(p) = Cardinality(S)
  BY <1>2, <1>4
<1>6. Cardinality(L) > PageSize => S # {}
  <2>1. HAVE Cardinality(L) > PageSize
  <2>2. L # {}
    BY <2>1, FS_EmptySet DEF ListsAssumption
  <2>3. PICK a \in L : \A b \in L : b <= a
    BY <1>1, <2>2, LastExists
  <2>4. {b \in L : b > a} = {}
    BY <1>1, <2>3
  <2>5. Cardinality({b \in L : b > a}) < PageSize
    BY <2>4, FS_EmptySet DEF ListsAssumption
  <2>6. QED BY <2>3, <2>5 DEF Newest
<1>7. S # {} => Cardinality(S) > 0
  BY <1>2, FS_EmptySet
<1>8. \/ NextCursor(f, k, p) = 0
      \/ Cardinality(S) > 0 /\ NextCursor(f, k, p) = p[Cardinality(S)]
  <2>1. CASE Cardinality(L) > PageSize
    BY <1>5, <1>6, <1>7, <2>1 DEF NextCursor
  <2>2. CASE ~(Cardinality(L) > PageSize)
    BY <2>2 DEF NextCursor
  <2>3. QED BY <2>1, <2>2
<1>9. QED BY <1>2, <1>3, <1>4, <1>8

\* A number that no call under way has.
LEMMA FreshIsNew ==
  ASSUME IsFiniteSet(calls)
  PROVE  Fresh \in Nat
<1> DEFINE N == Cardinality(calls) + 1
           Used == {c.n : c \in calls}
<1>1. Cardinality(calls) \in Nat
  BY FS_CardinalityType
<1>2. IsFiniteSet(Used) /\ Cardinality(Used) <= Cardinality(calls)
  <2>1. [c \in calls |-> c.n] \in Surjection(calls, Used)
    BY DEF Surjection
  <2>2. QED BY <2>1, FS_Surjection
<1>3. IsFiniteSet(1 .. N) /\ Cardinality(1 .. N) = N
  BY <1>1, FS_Interval
<1>4. ~(1 .. N \subseteq Used)
  <2>1. SUFFICES ASSUME 1 .. N \subseteq Used PROVE FALSE
    OBVIOUS
  <2>2. Cardinality(1 .. N) <= Cardinality(Used)
    BY <1>2, <2>1, FS_Subset
  <2>3. Cardinality(Used) \in Nat
    BY <1>2, FS_CardinalityType
  <2>4. QED BY <1>1, <1>2, <1>3, <2>2, <2>3
<1>5. \E n \in 1 .. N : \A c \in calls : c.n # n
  BY <1>4
<1>6. QED BY <1>1, <1>5 DEF Fresh

\* Two elements of a set without a second one are the same.
LEMMA AtMostOne ==
  ASSUME NEW S, IsFiniteSet(S), ~(Cardinality(S) > 1), NEW a \in S, NEW b \in S
  PROVE  a = b
<1>1. SUFFICES ASSUME a # b PROVE FALSE
  OBVIOUS
<1>2. Cardinality({a, b}) = 2
  <2>1. IsFiniteSet({a}) /\ Cardinality({a}) = 1
    BY FS_Singleton
  <2>2. Cardinality({a} \cup {b}) = Cardinality({a}) + 1
    BY <1>1, <2>1, FS_AddElement
  <2>3. QED BY <2>1, <2>2
<1>3. Cardinality({a, b}) <= Cardinality(S) /\ Cardinality(S) \in Nat
  BY FS_Subset, FS_CardinalityType
<1>4. QED BY <1>2, <1>3

-----------------------------------------------------------------------------
(* Types.                                                                  *)

RowOrNone == Row \cup {None}
Deeds == {"delete", "reject", "revoke"}

TypesOfHook ==
  /\ filter \in Filters(page) /\ origin \in Filters(page) \cup {"middle"}
  /\ list \in [items : Seq(Row), cursor : Rows \cup {0}, hasMore : BOOLEAN,
               loading : BOOLEAN, more : BOOLEAN, error : BOOLEAN]
  /\ req \in [stage : {"none", "sent", "served"}, replace : BOOLEAN, cursor : Rows \cup {0},
              filter : Filters(page), rows : Seq(Row), next : Rows \cup {0}]
  /\ (list.loading \/ list.more) => req.stage # "none"
  /\ ~(list.loading /\ list.error)

TypesOfDialogs ==
  /\ url \in Rows \cup {0}
  /\ look \in [of : Rows \cup {0}, stage : {"none", "sent", "served"}, row : RowOrNone]
  /\ look.stage # "none" => look.of \in Rows /\ page = "jobs"
  /\ detail \in RowOrNone /\ editing \in RowOrNone /\ notesOf \in RowOrNone
  /\ confirm \in [row : RowOrNone, deed : Deeds \cup {"none"}]
  /\ confirm # NoConfirm => confirm.row \in Row /\ confirm.deed \in Deeds
  /\ form \in [text : Text, status : Status] /\ notes \in Text

TypesOfCalls ==
  /\ busy \subseteq {"form", "notes", "confirm", "create", "approve", "resend"}
  /\ rowBusy \in Rows \cup {0}
  /\ calls \subseteq Call /\ IsFiniteSet(calls)
  /\ \A c \in calls : c.state = "stored" \/ c.act # "create" => c.row \in Row

TypesOfServer ==
  /\ db \in [Rows -> Row] /\ \A r \in Rows : db[r].id = r
  /\ noted \subseteq Rows /\ tidy \in [Rows -> BOOLEAN]

Types == page \in Pages /\ TypesOfHook /\ TypesOfDialogs /\ TypesOfCalls /\ TypesOfServer

\* The rows the page has a copy of.
Items == {list.items[i] : i \in DOMAIN list.items}

\* What the list shows is among what it holds, and what it holds are rows.
LEMMA ShownTyped ==
  ASSUME Types
  PROVE  Shown \subseteq Items /\ Items \subseteq Row
BY DEF Types, TypesOfHook, Shown, Items

\* The identifiers of rows are positive numbers.
LEMMA RowsAreNumbers ==
  ASSUME ListsAssumption
  PROVE  \A k \in Rows : k \in Nat /\ k > 0
BY DEF ListsAssumption

\* The absence of a row is not a row.
LEMMA NoneIsNoRow ==
  ASSUME ListsAssumption
  PROVE  None \notin Row
BY DEF ListsAssumption, None, Row

\* Every page has the filter that shows all.
LEMMA AllIsFilter ==
  ASSUME page \in Pages
  PROVE  "ALL" \in Filters(page)
BY DEF Filters

\* A row is tidy after a step only if it was, and the step left it alone.
LEMMA Tidying ==
  ASSUME Tidied, TypesOfServer
  PROVE  /\ tidy' \in [Rows -> BOOLEAN]
         /\ \A r \in Rows : tidy'[r] => tidy[r] /\ ~Disturbed(r)
BY DEF Tidied, TypesOfServer

\* The steps of dialogs: they leave list, calls and server as they are.
DialogStep ==
  \/ CloseDetail \/ SideAnswer \/ ServeLook \/ LookAnswer \/ LookFail \/ Type \/ CloseForm
  \/ Discard \/ TypeNotes \/ CloseNotes \/ Dismiss \/ OpenCreate \/ CloseCreate
  \/ \E r \in Rows \cup {0} : PopState(r)
  \/ \E row \in Shown \cup {detail} :
       \/ OpenDetail(row) \/ OpenForm(row) \/ OpenJob(row) \/ OpenNotes(row)
       \/ \E deed \in Deeds : Ask(row, deed)

\* What they do to the dialogs' copies of rows.
Moved ==
  /\ detail' \in Items \cup {detail, look.row, None}
  /\ editing' \in Items \cup {editing, detail, None}
  /\ notesOf' \in Items \cup {notesOf, detail, None}
  /\ notesOf' \in {notesOf, None} \/ page = "applications"
  /\ \/ confirm' \in {confirm, NoConfirm}
     \/ \E deed \in Deeds : \E row \in (Items \cup {detail}) \ {None} :
          /\ confirm' = [row |-> row, deed |-> deed]
          /\ row \in Items \/ page = "jobs" \/ deed = "delete"
  /\ \/ look' \in {look, NoLook}
     \/ /\ page = "jobs"
        /\ \E r \in Rows : look' = [of |-> r, stage |-> "sent", row |-> None]
     \/ /\ look.stage = "sent"
        /\ look' = [look EXCEPT !.stage = "served",
                                !.row = IF Exists(look.of) THEN db[look.of] ELSE None]

\* A step of a dialog moves dialogs only, to rows on the page or stored, and disturbs no
\* row it should not.
LEMMA DialogMoves ==
  ASSUME ListsAssumption, Types, DialogStep
  PROVE  Moved /\ Untouched /\ Tidied /\ url' \in Rows \cup {0}
<1> USE DEF Moved, dialogs
<1>0. /\ Shown \subseteq Items /\ Items \subseteq Row /\ None \notin Row
      /\ url \in Rows \cup {0} /\ detail \in RowOrNone
  BY ShownTyped, NoneIsNoRow DEF Types, TypesOfDialogs
<1>1. CASE CloseDetail
  BY <1>1, <1>0 DEF CloseDetail
<1>2. CASE SideAnswer
  BY <1>2, <1>0 DEF SideAnswer
<1>3. CASE ServeLook
  BY <1>3, <1>0 DEF ServeLook
<1>4. CASE LookAnswer
  BY <1>4, <1>0 DEF LookAnswer
<1>5. CASE LookFail
  BY <1>5, <1>0 DEF LookFail
<1>6. CASE Type
  BY <1>6, <1>0 DEF Type
<1>7. CASE CloseForm
  BY <1>7, <1>0 DEF CloseForm, Leave
<1>8. CASE Discard
  BY <1>8, <1>0 DEF Discard, Leave
<1>9. CASE TypeNotes
  BY <1>9, <1>0 DEF TypeNotes
<1>10. CASE CloseNotes
  BY <1>10, <1>0 DEF CloseNotes
<1>11. CASE Dismiss
  BY <1>11, <1>0 DEF Dismiss
<1>12. CASE OpenCreate
  BY <1>12, <1>0 DEF OpenCreate
<1>13. CASE CloseCreate
  BY <1>13, <1>0 DEF CloseCreate
<1>14. ASSUME NEW r \in Rows \cup {0}, PopState(r) PROVE Moved /\ Untouched /\ Tidied /\ url' \in Rows \cup {0}
  BY <1>14, <1>0 DEF PopState
<1>15. ASSUME NEW row \in Shown \cup {detail}, OpenDetail(row)
       PROVE  Moved /\ Untouched /\ Tidied /\ url' \in Rows \cup {0}
  BY <1>15, <1>0 DEF OpenDetail
<1>16. ASSUME NEW row \in Shown \cup {detail}, OpenForm(row)
       PROVE  Moved /\ Untouched /\ Tidied /\ url' \in Rows \cup {0}
  BY <1>16, <1>0 DEF OpenForm
<1>17. ASSUME NEW row \in Shown \cup {detail}, OpenJob(row)
       PROVE  Moved /\ Untouched /\ Tidied /\ url' \in Rows \cup {0}
  BY <1>17, <1>0 DEF OpenJob, Row
<1>18. ASSUME NEW row \in Shown \cup {detail}, OpenNotes(row)
       PROVE  Moved /\ Untouched /\ Tidied /\ url' \in Rows \cup {0}
  BY <1>18, <1>0 DEF OpenNotes
<1>19. ASSUME NEW row \in Shown \cup {detail}, NEW deed \in Deeds, Ask(row, deed)
       PROVE  Moved /\ Untouched /\ Tidied /\ url' \in Rows \cup {0}
  <2>1. /\ confirm' = [row |-> row, deed |-> deed] /\ Untouched /\ Tidied
        /\ UNCHANGED <<editing, form, discard, notesOf, notes, creating>>
        /\ \/ row \in Shown /\ UNCHANGED <<url, detail, look, side>>
           \/ /\ page # "jobs" /\ row = detail /\ detail # None /\ deed \in Footer(row)
              /\ detail' = None /\ UNCHANGED <<url, look>>
           \/ /\ page = "jobs" /\ row = detail /\ detail # None
              /\ url' = 0 /\ detail' = None /\ look' = NoLook
    BY <1>19 DEF Ask, DetailShown, Dialog
  <2>2. page # "jobs" /\ deed \in Footer(row) => deed = "delete"
    BY DEF Footer, ApplicationDialog, CandidateDialog, CompanyDialog, When, Deeds
  <2>3. row \in (Items \cup {detail}) \ {None} /\ (row \in Items \/ page = "jobs" \/ deed = "delete")
    BY <1>0, <2>1, <2>2
  <2>4. QED BY <1>0, <2>1, <2>3
<1>20. QED
  BY <1>1, <1>2, <1>3, <1>4, <1>5, <1>6, <1>7, <1>8, <1>9, <1>10, <1>11, <1>12, <1>13, <1>14,
     <1>15, <1>16, <1>17, <1>18, <1>19 DEF DialogStep

\* And to the fields: they are kept, written for the row on screen, or seeded from
\* the row that is on screen from now on.
FormMoved ==
  \/ form' = form /\ Dialog' \in {Dialog, None}
  \/ /\ Dialog # None /\ Dialog' = Dialog
     /\ \/ form' \in {Written, Seed(Dialog)}
        \/ \E s \in {"CLOSED", "REJECTED"} : form' = [form EXCEPT !.status = s]
  \/ \E row \in (Items \cup {detail, look.row}) \ {None} :
       form' = Seed(row) /\ Dialog' \in {row, None}

\* What a dialog step leaves in the form and the notes are a row's fields, what was typed
\* or nothing.
LEMMA FormMoves ==
  ASSUME ListsAssumption, Types, DialogStep
  PROVE  FormMoved /\ notes' \in Text
<1> USE DEF FormMoved, Dialog, Untouched, dialogs
<1>0. /\ Shown \subseteq Items /\ Items \subseteq Row /\ None \notin Row
      /\ url \in Rows \cup {0} /\ detail \in RowOrNone /\ notes \in Text
      /\ notesOf \in RowOrNone
  BY ShownTyped, NoneIsNoRow DEF Types, TypesOfDialogs
<1>1. CASE CloseDetail
  BY <1>1, <1>0 DEF CloseDetail, DetailShown
<1>2. CASE SideAnswer
  BY <1>2, <1>0 DEF SideAnswer
<1>3. CASE ServeLook
  BY <1>3, <1>0 DEF ServeLook
<1>4. CASE LookAnswer
  <2>1. notes' = notes /\ page' = page /\ url' = url /\ editing' = editing
    BY <1>4 DEF LookAnswer
  <2>2. CASE look.row = None
    <3>1. detail' = detail /\ form' = form
      BY <1>4, <2>2 DEF LookAnswer
    <3>2. QED BY <1>0, <2>1, <3>1
  <2>3. CASE look.row # None
    <3>1. detail' = look.row /\ form' = Seed(look.row)
      BY <1>4, <2>3 DEF LookAnswer
    <3>2. CASE page = "jobs"
      <4>1. Dialog' \in {look.row, None}
        BY <2>1, <3>1, <3>2
      <4>2. QED BY <1>0, <2>1, <2>3, <3>1, <4>1
    <3>3. page = "jobs"
      BY <1>4 DEF LookAnswer, Types, TypesOfDialogs
    <3>4. QED BY <3>2, <3>3
  <2>4. QED BY <2>2, <2>3
<1>5. CASE LookFail
  BY <1>5, <1>0 DEF LookFail
<1>6. CASE Type
  <2>1. form' \in Fields /\ Dialog # None /\ Dialog' = Dialog /\ notes' = notes
    BY <1>6, <1>0 DEF Type
  <2>2. \/ form' \in {Written, Seed(Dialog)}
        \/ \E s \in {"CLOSED", "REJECTED"} : form' = [form EXCEPT !.status = s]
    BY <2>1 DEF Fields, JobFields, StatusFields, CandidateFields, CompanyFields, CompanyJobFields
  <2>3. QED BY <1>0, <2>1, <2>2
<1>7. CASE CloseForm
  BY <1>7, <1>0 DEF CloseForm, Leave
<1>8. CASE Discard
  BY <1>8, <1>0 DEF Discard, Leave
<1>9. CASE TypeNotes
  BY <1>9, <1>0 DEF TypeNotes, RowOrNone, Row, Text
<1>10. CASE CloseNotes
  BY <1>10, <1>0 DEF CloseNotes
<1>11. CASE Dismiss
  BY <1>11, <1>0 DEF Dismiss
<1>12. CASE OpenCreate
  BY <1>12, <1>0 DEF OpenCreate
<1>13. CASE CloseCreate
  BY <1>13, <1>0 DEF CloseCreate
<1>14. ASSUME NEW r \in Rows \cup {0}, PopState(r) PROVE FormMoved /\ notes' \in Text
  BY <1>14, <1>0 DEF PopState
<1>15. ASSUME NEW row \in Shown \cup {detail}, OpenDetail(row) PROVE FormMoved /\ notes' \in Text
  BY <1>15, <1>0 DEF OpenDetail
<1>16. ASSUME NEW row \in Shown \cup {detail}, OpenForm(row) PROVE FormMoved /\ notes' \in Text
  BY <1>16, <1>0 DEF OpenForm, DetailShown
<1>17. ASSUME NEW row \in Shown \cup {detail}, OpenJob(row) PROVE FormMoved /\ notes' \in Text
  BY <1>17, <1>0 DEF OpenJob
<1>18. ASSUME NEW row \in Shown \cup {detail}, OpenNotes(row) PROVE FormMoved /\ notes' \in Text
  BY <1>18, <1>0 DEF OpenNotes
<1>19. ASSUME NEW row \in Shown \cup {detail}, NEW deed \in Deeds, Ask(row, deed)
       PROVE  FormMoved /\ notes' \in Text
  BY <1>19, <1>0 DEF Ask, DetailShown
<1>20. QED
  BY <1>1, <1>2, <1>3, <1>4, <1>5, <1>6, <1>7, <1>8, <1>9, <1>10, <1>11, <1>12, <1>13, <1>14,
     <1>15, <1>16, <1>17, <1>18, <1>19 DEF DialogStep

\* The fields of a dialog over a row, as types.
LEMMA FieldsTyped ==
  ASSUME Types, FormMoved
  PROVE  form' \in [text : Text, status : Status]
<1>1. /\ form \in [text : Text, status : Status] /\ Dialog \in RowOrNone
      /\ \A row \in Row : Seed(row) \in [text : Text, status : Status]
      /\ (Items \cup {detail, look.row}) \ {None} \subseteq Row
  BY ShownTyped DEF Types, TypesOfDialogs, Dialog, Seed, Row, RowOrNone
<1>2. Dialog # None => Written \in [text : Text, status : Status]
  BY <1>1 DEF Written, RowOrNone, Row, Text
<1>3. \A s \in {"CLOSED", "REJECTED"} : [form EXCEPT !.status = s] \in [text : Text, status : Status]
  BY <1>1 DEF Status
<1>4. QED BY <1>1, <1>2, <1>3 DEF FormMoved, RowOrNone

\* A step of a dialog keeps the types.
LEMMA DialogTypes ==
  ASSUME ListsAssumption, Types, DialogStep
  PROVE  Types'
<1>1. Moved /\ Untouched /\ Tidied /\ url' \in Rows \cup {0} /\ FormMoved /\ notes' \in Text
  BY DialogMoves, FormMoves
<1>2. form' \in [text : Text, status : Status]
  BY <1>1, FieldsTyped
<1>3. Items \subseteq Row
  BY ShownTyped
<1>4. tidy' \in [Rows -> BOOLEAN]
  BY <1>1, Tidying DEF Types
<1>5. page' = page /\ TypesOfHook' /\ TypesOfCalls' /\ TypesOfServer'
  BY <1>1, <1>4 DEF Types, TypesOfHook, TypesOfCalls, TypesOfServer, Untouched, hook, buttons, server
<1>6. /\ look' \in [of : Rows \cup {0}, stage : {"none", "sent", "served"}, row : RowOrNone]
      /\ look'.stage # "none" => look'.of \in Rows /\ page = "jobs"
  <2>1. /\ look \in [of : Rows \cup {0}, stage : {"none", "sent", "served"}, row : RowOrNone]
        /\ look.stage # "none" => look.of \in Rows /\ page = "jobs"
        /\ \A r \in Rows : db[r] \in RowOrNone
        /\ None \in RowOrNone
    BY DEF Types, TypesOfDialogs, TypesOfServer, RowOrNone
  <2>2. CASE look' \in {look, NoLook}
    BY <2>1, <2>2 DEF NoLook
  <2>3. ASSUME page = "jobs", NEW r \in Rows, look' = [of |-> r, stage |-> "sent", row |-> None]
        PROVE  /\ look' \in [of : Rows \cup {0}, stage : {"none", "sent", "served"}, row : RowOrNone]
               /\ look'.stage # "none" => look'.of \in Rows /\ page = "jobs"
    BY <2>1, <2>3
  <2>4. ASSUME look.stage = "sent", NEW x \in RowOrNone,
               look' = [look EXCEPT !.stage = "served", !.row = x]
        PROVE  /\ look' \in [of : Rows \cup {0}, stage : {"none", "sent", "served"}, row : RowOrNone]
               /\ look'.stage # "none" => look'.of \in Rows /\ page = "jobs"
    BY <2>1, <2>4
  <2>5. QED BY <1>1, <2>1, <2>2, <2>3, <2>4 DEF Moved
<1>7. detail' \in RowOrNone /\ editing' \in RowOrNone /\ notesOf' \in RowOrNone
  BY <1>1, <1>3 DEF Moved, Types, TypesOfDialogs, RowOrNone
<1>8. /\ confirm' \in [row : RowOrNone, deed : Deeds \cup {"none"}]
      /\ confirm' # NoConfirm => confirm'.row \in Row /\ confirm'.deed \in Deeds
  BY <1>1, <1>3 DEF Moved, Types, TypesOfDialogs, RowOrNone, NoConfirm
<1>9. QED BY <1>1, <1>2, <1>5, <1>6, <1>7, <1>8 DEF Types, TypesOfDialogs

\* The steps of the list: they leave dialogs, calls and server as they are.
HookStep ==
  \/ ServeList \/ ListAnswer \/ ListFail \/ Scroll \/ Retry
  \/ \E f \in Filters(page) : SetFilter(f)

\* A list that starts over asks for its first page, or waits for the answer under way.
Restarted ==
  /\ list'.items = <<>> /\ list'.cursor = 0 /\ origin' = origin
  /\ IF req.stage # "none" THEN req' = req
     ELSE req'.stage = "sent" /\ req'.replace /\ req'.cursor = 0 /\ req'.next = 0

\* A reset list starts again from the first page.
LEMMA ResetRestarts ==
  ASSUME ListsAssumption, Types, Reset, page' = page, filter' \in Filters(page)
  PROVE  Restarted /\ TypesOfHook'
<1>1. /\ req \in [stage : {"none", "sent", "served"}, replace : BOOLEAN, cursor : Rows \cup {0},
                  filter : Filters(page), rows : Seq(Row), next : Rows \cup {0}]
      /\ origin \in Filters(page) \cup {"middle"} /\ <<>> \in Seq(Row)
  BY DEF Types, TypesOfHook
<1>2. CASE req.stage # "none"
  <2>1. req' = req /\ list' = InitialState /\ origin' = origin
    BY <1>2 DEF Reset, FetchPage
  <2>2. QED BY <1>1, <1>2, <2>1 DEF Restarted, TypesOfHook, InitialState
<1>3. CASE req.stage = "none"
  <2>1. /\ list' = [InitialState EXCEPT !.loading = @ \/ TRUE, !.more = @ \/ ~TRUE, !.error = FALSE]
        /\ req' = [NoReq EXCEPT !.stage = "sent", !.replace = TRUE, !.cursor = 0,
                                !.filter = filter']
        /\ origin' = origin
    BY <1>3 DEF Reset, FetchPage
  <2>2. /\ list' \in [items : Seq(Row), cursor : Rows \cup {0}, hasMore : BOOLEAN,
                      loading : BOOLEAN, more : BOOLEAN, error : BOOLEAN]
        /\ list'.items = <<>> /\ list'.cursor = 0 /\ list'.error = FALSE
    BY <1>1, <2>1 DEF InitialState
  <2>3. /\ req' \in [stage : {"none", "sent", "served"}, replace : BOOLEAN, cursor : Rows \cup {0},
                     filter : Filters(page), rows : Seq(Row), next : Rows \cup {0}]
        /\ req'.stage = "sent" /\ req'.replace /\ req'.cursor = 0 /\ req'.next = 0
    BY <1>1, <2>1 DEF NoReq
  <2>4. QED BY <1>1, <1>3, <2>1, <2>2, <2>3 DEF Restarted, TypesOfHook
<1>4. QED BY <1>2, <1>3

\* A list that goes on asks for the page behind its cursor.
Continued ==
  /\ req.stage = "none" /\ list.cursor # 0
  /\ list'.items = list.items /\ list'.cursor = list.cursor /\ origin' = origin
  /\ req'.stage = "sent" /\ ~req'.replace /\ req'.cursor = list.cursor /\ req'.next = 0

\* Scrolling and retrying ask for what follows the cursor.
LEMMA ScrollContinues ==
  ASSUME ListsAssumption, Types, Scroll
  PROVE  Continued /\ TypesOfHook'
<1>1. /\ list \in [items : Seq(Row), cursor : Rows \cup {0}, hasMore : BOOLEAN,
                   loading : BOOLEAN, more : BOOLEAN, error : BOOLEAN]
      /\ filter \in Filters(page) /\ origin \in Filters(page) \cup {"middle"} /\ <<>> \in Seq(Row)
  BY DEF Types, TypesOfHook
<1>2. /\ req.stage = "none" /\ list.cursor # 0
      /\ filter' = filter /\ origin' = origin /\ page' = page
      /\ list' = [list EXCEPT !.loading = @ \/ FALSE, !.more = @ \/ ~FALSE, !.error = FALSE]
      /\ req' = [NoReq EXCEPT !.stage = "sent", !.replace = FALSE, !.cursor = list.cursor,
                              !.filter = filter']
  BY DEF Scroll, FetchPage
<1>3. /\ list' \in [items : Seq(Row), cursor : Rows \cup {0}, hasMore : BOOLEAN,
                    loading : BOOLEAN, more : BOOLEAN, error : BOOLEAN]
      /\ list'.items = list.items /\ list'.cursor = list.cursor /\ list'.error = FALSE
  BY <1>1, <1>2
<1>4. /\ req' \in [stage : {"none", "sent", "served"}, replace : BOOLEAN, cursor : Rows \cup {0},
                   filter : Filters(page), rows : Seq(Row), next : Rows \cup {0}]
      /\ req'.stage = "sent" /\ ~req'.replace /\ req'.cursor = list.cursor /\ req'.next = 0
  BY <1>1, <1>2 DEF NoReq
<1>5. QED BY <1>1, <1>2, <1>3, <1>4 DEF Continued, TypesOfHook

\* What a page of the server brings, and the answer that appends it.
LEMMA ServeTyped ==
  ASSUME ListsAssumption, Types, ServeList
  PROVE  \E p \in PageOf(req.filter, req.cursor) : \E n \in Nat :
           /\ p \in [1 .. n -> Listed(req.filter, req.cursor)]
           /\ \A i, j \in 1 .. n : i < j => p[i] > p[j]
           /\ req' = [req EXCEPT !.stage = "served", !.rows = [i \in 1 .. n |-> db[p[i]]],
                                 !.next = NextCursor(req.filter, req.cursor, p)]
           /\ [i \in 1 .. n |-> db[p[i]]] \in Seq(Row)
           /\ NextCursor(req.filter, req.cursor, p) # 0 =>
                n > 0 /\ NextCursor(req.filter, req.cursor, p) = p[n]
<1>1. PICK p \in PageOf(req.filter, req.cursor) :
         req' = [req EXCEPT !.stage = "served", !.rows = [i \in DOMAIN p |-> db[p[i]]],
                            !.next = NextCursor(req.filter, req.cursor, p)]
  BY DEF ServeList
<1>2. req.cursor \in Rows \cup {0}
  BY DEF Types, TypesOfHook
<1>3. PICK n \in Nat :
         /\ p \in [1 .. n -> Listed(req.filter, req.cursor)]
         /\ \A i, j \in 1 .. n : i < j => p[i] > p[j]
         /\ \/ NextCursor(req.filter, req.cursor, p) = 0
            \/ n > 0 /\ NextCursor(req.filter, req.cursor, p) = p[n]
  BY <1>2, PageTyped
<1>4. DOMAIN p = 1 .. n /\ \A i \in 1 .. n : db[p[i]] \in Row
  BY <1>3 DEF Types, TypesOfServer, Listed
<1>5. [i \in DOMAIN p |-> db[p[i]]] = [i \in 1 .. n |-> db[p[i]]]
  BY <1>4
<1>6. [i \in 1 .. n |-> db[p[i]]] \in Seq(Row)
  BY <1>4
<1>7. QED BY <1>1, <1>3, <1>5, <1>6

\* A step of the hook that loads pages keeps the types.
LEMMA HookTypes ==
  ASSUME ListsAssumption, Types, HookStep
  PROVE  Types'
<1>1. /\ Tidied
      /\ UNCHANGED <<page, dialogs, buttons, calls, server>>
  BY DEF HookStep, ServeList, ListAnswer, ListFail, Scroll, Retry, SetFilter
<1>2. tidy' \in [Rows -> BOOLEAN]
  BY <1>1, Tidying DEF Types
<1>3. page' \in Pages /\ TypesOfDialogs' /\ TypesOfCalls' /\ TypesOfServer'
  BY <1>1, <1>2 DEF Types, TypesOfDialogs, TypesOfCalls, TypesOfServer, dialogs, buttons, server
<1>4. CASE ServeList
  <2>1. PICK p \in PageOf(req.filter, req.cursor), n \in Nat :
           /\ p \in [1 .. n -> Listed(req.filter, req.cursor)]
           /\ req' = [req EXCEPT !.stage = "served", !.rows = [i \in 1 .. n |-> db[p[i]]],
                                 !.next = NextCursor(req.filter, req.cursor, p)]
           /\ [i \in 1 .. n |-> db[p[i]]] \in Seq(Row)
           /\ NextCursor(req.filter, req.cursor, p) # 0 =>
                n > 0 /\ NextCursor(req.filter, req.cursor, p) = p[n]
    BY <1>4, ServeTyped
  <2>2. NextCursor(req.filter, req.cursor, p) \in Rows \cup {0}
    BY <2>1 DEF Listed
  <2>3. filter' = filter /\ list' = list /\ origin' = origin
    BY <1>4 DEF ServeList
  <2>4. QED BY <1>1, <1>3, <2>1, <2>2, <2>3 DEF Types, TypesOfHook
<1>5. CASE ListAnswer
  <2>1. /\ filter' = filter /\ origin' \in {origin, req.filter, "middle"} /\ req' = NoReq
        /\ list' = [items |-> IF req.replace THEN req.rows ELSE list.items \o req.rows,
                    cursor |-> req.next, hasMore |-> req.next # 0,
                    loading |-> FALSE, more |-> FALSE, error |-> FALSE]
    BY <1>5 DEF ListAnswer
  <2>2. (IF req.replace THEN req.rows ELSE list.items \o req.rows) \in Seq(Row)
    BY DEF Types, TypesOfHook
  <2>3. <<>> \in Seq(Row) /\ "ALL" \in Filters(page)
    BY AllIsFilter DEF Types
  <2>4. (req.next # 0) \in BOOLEAN /\ req.next \in Rows \cup {0}
    BY DEF Types, TypesOfHook
  <2>5. QED BY <1>1, <1>3, <2>1, <2>2, <2>3, <2>4 DEF Types, TypesOfHook, NoReq
<1>6. CASE ListFail
  <2>1. <<>> \in Seq(Row) /\ "ALL" \in Filters(page)
    BY AllIsFilter DEF Types
  <2>2. QED BY <1>1, <1>3, <1>6, <2>1 DEF ListFail, Types, TypesOfHook, NoReq
<1>7. CASE Scroll
  BY <1>1, <1>3, <1>7, ScrollContinues DEF Types
<1>8. CASE Retry
  <2>1. Reset /\ filter' = filter
    BY <1>8 DEF Retry
  <2>2. QED BY <1>1, <1>3, <2>1, ResetRestarts DEF Types, TypesOfHook
<1>9. ASSUME NEW f \in Filters(page), SetFilter(f) PROVE Types'
  <2>1. Reset /\ filter' = f
    BY <1>9 DEF SetFilter
  <2>2. QED BY <1>1, <1>3, <2>1, ResetRestarts DEF Types
<1>10. QED BY <1>4, <1>5, <1>6, <1>7, <1>8, <1>9 DEF HookStep

\* The steps that start the component afresh.
Leaving == \E kept \in {{}, {"create"}} : StartAfresh(kept)

\* A page that is mounted again: nothing is open, and a first page is asked for.
LEMMA AfreshTypes ==
  ASSUME ListsAssumption, Types, NEW kept, StartAfresh(kept)
  PROVE  Types'
<1>1. <<>> \in Seq(Row) /\ "ALL" \in Filters(page)
  BY AllIsFilter DEF Types
<1>2. tidy' \in [Rows -> BOOLEAN]
  BY Tidying DEF StartAfresh, Types
<1>3. TypesOfHook'
  BY <1>1 DEF StartAfresh, Types, TypesOfHook, InitialState, NoReq
<1>4. TypesOfDialogs'
  BY DEF StartAfresh, Mounted, Types, TypesOfDialogs, NoLook, NoConfirm, EmptyForm, RowOrNone, Text,
         Status, None
<1>5. TypesOfCalls'
  <2> DEFINE Left(c) == [c EXCEPT !.live = @ /\ c.act \in kept]
  <2>1. calls' = {Left(c) : c \in calls} /\ busy' \subseteq busy /\ rowBusy' = 0
    BY DEF StartAfresh, Mounted
  <2>2. IsFiniteSet(calls')
    <3>1. [c \in calls |-> Left(c)] \in Surjection(calls, calls')
      BY <2>1 DEF Surjection
    <3>2. QED BY <3>1, FS_Surjection DEF Types, TypesOfCalls
  <2>3. \A c \in calls : Left(c) \in Call
    BY DEF Types, TypesOfCalls, Call
  <2>4. ASSUME NEW d \in calls', d.state = "stored" \/ d.act # "create" PROVE d.row \in Row
    <3>1. PICK c \in calls : d = Left(c)
      BY <2>1
    <3>2. c \in Call /\ (c.state = "stored" \/ c.act # "create" => c.row \in Row)
      BY DEF Types, TypesOfCalls
    <3>3. d.row = c.row /\ d.state = c.state /\ d.act = c.act
      BY <3>1, <3>2 DEF Call
    <3>4. QED BY <2>4, <3>2, <3>3
  <2>5. 0 \in Rows \cup {0}
    OBVIOUS
  <2>6. QED BY <2>1, <2>2, <2>3, <2>4, <2>5 DEF Types, TypesOfCalls
<1>6. TypesOfServer'
  BY <1>2 DEF StartAfresh, server, Types, TypesOfServer
<1>7. QED BY <1>3, <1>4, <1>5, <1>6 DEF Types, StartAfresh

\* The steps that send a call.
SendStep ==
  \/ Save \/ SaveNotes \/ Confirm
  \/ CreateJob \/ CreateCompany \/ CreateInvite \/ CreateCompanyJob
  \/ \E row \in Shown \cup {detail} : Approve(row) \/ RowDeed(row)

NewCall(act, row) == [n |-> Fresh, act |-> act, row |-> row, live |-> TRUE, state |-> "sent"]

\* The calls that are sent, and over which row.
Sent(act, row) ==
  \/ act = "save" /\ Dialog # None /\ row = Filled(Dialog)
  \/ act = "notes" /\ notesOf # None /\ row = [notesOf EXCEPT !.text = notes]
  \/ confirm # NoConfirm /\ act = confirm.deed /\ row = confirm.row
  \/ act \in {"approve", "resend", "delete"} /\ row \in (Items \cup {detail}) \ {None}
  \/ act = "create" /\ row = None

\* The dialog over a job closes when the job is approved from it.
JobLeft ==
  /\ page = "jobs" /\ url' = 0 /\ detail' = None /\ look' = NoLook
  /\ UNCHANGED <<side, editing, form, discard, notesOf, notes, confirm, creating>>

Sending ==
  /\ \E act \in {"approve", "delete", "reject", "revoke", "resend", "save", "notes", "create"} :
       \E row \in RowOrNone :
         /\ Sent(act, row)
         /\ act # "create" => row \in Row
         /\ calls' = calls \cup {NewCall(act, row)}
  /\ UNCHANGED dialogs \/ JobLeft
  /\ busy' \subseteq busy \cup {"form", "notes", "confirm", "create"}
  /\ rowBusy' \in Rows \cup {0}
  /\ UNCHANGED <<page, filter, hook, server>>
  /\ Tidied

\* Every request of the page sends one call about a row, with what its dialog holds.
LEMMA SendSends ==
  ASSUME ListsAssumption, Types, SendStep
  PROVE  Sending
<1>0. /\ Shown \subseteq Items /\ Items \subseteq Row /\ None \notin Row
      /\ detail \in RowOrNone /\ notesOf \in RowOrNone /\ notes \in Text /\ rowBusy \in Rows \cup {0}
      /\ confirm # NoConfirm => confirm.row \in Row /\ confirm.deed \in Deeds
      /\ form \in [text : Text, status : Status] /\ Dialog \in RowOrNone
      /\ \A row \in Row : row.id \in Rows
  BY ShownTyped, NoneIsNoRow DEF Types, TypesOfDialogs, TypesOfCalls, Dialog, RowOrNone, Row
<1>1. CASE Save
  <2>1. /\ Dialog # None /\ calls' = calls \cup {NewCall("save", Filled(Dialog))}
        /\ busy' = busy \cup {"form"}
        /\ UNCHANGED <<page, filter, hook, dialogs, rowBusy, server>> /\ Tidied
    BY <1>1 DEF Save, Send, NewCall
  <2>2. Filled(Dialog) \in Row
    BY <1>0, <2>1 DEF Filled, RowOrNone, Row
  <2>3. QED BY <1>0, <2>1, <2>2 DEF Sending, Sent, RowOrNone
<1>2. CASE SaveNotes
  <2>1. /\ notesOf # None /\ calls' = calls \cup {NewCall("notes", [notesOf EXCEPT !.text = notes])}
        /\ busy' = busy \cup {"notes"}
        /\ UNCHANGED <<page, filter, hook, dialogs, rowBusy, server>> /\ Tidied
    BY <1>2 DEF SaveNotes, Send, NewCall
  <2>2. [notesOf EXCEPT !.text = notes] \in Row
    BY <1>0, <2>1 DEF RowOrNone, Row
  <2>3. QED BY <1>0, <2>1, <2>2 DEF Sending, Sent, RowOrNone
<1>3. CASE Confirm
  <2>1. /\ confirm # NoConfirm /\ calls' = calls \cup {NewCall(confirm.deed, confirm.row)}
        /\ busy' = busy \cup {"confirm"}
        /\ UNCHANGED <<page, filter, hook, dialogs, rowBusy, server>> /\ Tidied
    BY <1>3 DEF Confirm, Send, NewCall
  <2>2. QED BY <1>0, <2>1 DEF Sending, Sent, RowOrNone, Deeds
<1>4. CASE CreateJob \/ CreateCompany \/ CreateInvite \/ CreateCompanyJob
  <2>1. Submit
    BY <1>4 DEF CreateJob, CreateCompany, CreateInvite, CreateCompanyJob
  <2>2. /\ calls' = calls \cup {NewCall("create", None)} /\ busy' = busy \cup {"create"}
        /\ UNCHANGED <<page, filter, hook, dialogs, rowBusy, server>> /\ Tidied
    BY <2>1 DEF Submit, Send, NewCall
  <2>3. QED BY <1>0, <2>2 DEF Sending, Sent, RowOrNone
<1>5. ASSUME NEW row \in Shown \cup {detail}, Approve(row) PROVE Sending
  <2>1. /\ calls' = calls \cup {NewCall("approve", row)} /\ busy' = busy
        /\ UNCHANGED <<page, filter, hook, server>> /\ Tidied
    BY <1>5 DEF Approve, Send, NewCall
  <2>2. row \in (Items \cup {detail}) \ {None} /\ row \in Row
    BY <1>0, <1>5 DEF Approve, Dialog, RowOrNone
  <2>3. UNCHANGED dialogs \/ JobLeft
    BY <1>5 DEF Approve, dialogs, JobLeft
  <2>4. rowBusy' \in Rows \cup {0}
    BY <1>0, <1>5, <2>2 DEF Approve
  <2>5. QED BY <2>1, <2>2, <2>3, <2>4 DEF Sending, Sent, RowOrNone
<1>6. ASSUME NEW row \in Shown \cup {detail}, RowDeed(row) PROVE Sending
  <2>1. /\ row \in Items /\ row \in Row /\ rowBusy' = row.id
        /\ UNCHANGED <<page, filter, hook, dialogs, busy, server>> /\ Tidied
        /\ calls' = calls \cup {NewCall("resend", row)} \/ calls' = calls \cup {NewCall("delete", row)}
    BY <1>0, <1>6 DEF RowDeed, Send, NewCall
  <2>2. row \in (Items \cup {detail}) \ {None}
    BY <1>0, <2>1
  <2>3. QED BY <1>0, <2>1, <2>2 DEF Sending, Sent, RowOrNone
<1>7. QED BY <1>1, <1>2, <1>3, <1>4, <1>5, <1>6 DEF SendStep

\* Sending keeps the types.
LEMMA SendTypes ==
  ASSUME ListsAssumption, Types, SendStep
  PROVE  Types'
<1>1. Sending
  BY SendSends
<1>2. tidy' \in [Rows -> BOOLEAN]
  BY <1>1, Tidying DEF Sending, Types
<1>3. page' \in Pages /\ TypesOfHook' /\ TypesOfServer'
  BY <1>1, <1>2 DEF Sending, Types, TypesOfHook, TypesOfServer, hook, server
<1>4. TypesOfDialogs'
  <2>1. CASE UNCHANGED dialogs
    BY <1>1, <2>1 DEF Sending, Types, TypesOfDialogs, dialogs
  <2>2. CASE JobLeft
    BY <1>1, <2>2 DEF Sending, JobLeft, Types, TypesOfDialogs, NoLook, RowOrNone
  <2>3. QED BY <1>1, <2>1, <2>2 DEF Sending
<1>5. TypesOfCalls'
  <2>1. PICK act \in {"approve", "delete", "reject", "revoke", "resend", "save", "notes", "create"},
             row \in RowOrNone :
           /\ act # "create" => row \in Row
           /\ calls' = calls \cup {NewCall(act, row)}
    BY <1>1 DEF Sending
  <2>2. Fresh \in Nat
    BY FreshIsNew DEF Types, TypesOfCalls
  <2>3. NewCall(act, row) \in Call
    BY <2>1, <2>2 DEF NewCall, Call, RowOrNone
  <2>4. IsFiniteSet(calls')
    BY <2>1, FS_AddElement DEF Types, TypesOfCalls
  <2>5. \A c \in calls' : c.state = "stored" \/ c.act # "create" => c.row \in Row
    BY <2>1 DEF NewCall, Types, TypesOfCalls
  <2>6. QED BY <1>1, <2>1, <2>3, <2>4, <2>5 DEF Sending, Types, TypesOfCalls
<1>6. QED BY <1>3, <1>4, <1>5 DEF Types

-----------------------------------------------------------------------------
(* Calls.                                                                  *)

\* The row a new one becomes: the first that does not exist.
Inserted(row) ==
  /\ row \in Row /\ row.id \in NextRow /\ row.text = row.id
  /\ row.status \notin {"ABSENT", "GONE"}

\* What a call may make of the row that is there.
Altered(c, row) ==
  /\ row \in Row /\ c.row \in Row /\ row.id = c.row.id /\ Exists(row.id)
  /\ row.text = IF c.act \in {"save", "notes"} THEN c.row.text ELSE db[row.id].text
  /\ row.status # "ABSENT" \/ row.status = c.row.status
  /\ c.act = "notes" => row.status = db[row.id].status

\* What the server stores for a call: a new row of the next number, or the call's own row.
LEMMA StoredRow ==
  ASSUME ListsAssumption, Types, NEW c \in calls, c.state = "sent", Stored(c) # None
  PROVE  IF c.act = "create" THEN Inserted(Stored(c)) ELSE Altered(c, Stored(c))
<1> DEFINE row == Stored(c)
<1>1. /\ c \in Call
      /\ c.act # "create" => c.row \in Row
  BY DEF Types, TypesOfCalls
<1>2. db \in [Rows -> Row] /\ \A r \in Rows : db[r].id = r
  BY DEF Types, TypesOfServer
<1>3. CASE c.act = "create"
  <2>1. NextRow # {} /\ row = NewRow
    BY <1>3 DEF Stored
  <2>2. PICK n \in NextRow :
          row = [id |-> n, text |-> n, status |-> IF page = "jobs" THEN "PUBLISHED" ELSE FirstStatus(page)]
    BY <2>1 DEF NewRow
  <2>3. FirstStatus(page) \in Status \ {"ABSENT", "GONE"} /\ "PUBLISHED" \in Status
    BY DEF FirstStatus, Status
  <2>4. n \in Rows
    BY <2>2 DEF NextRow
  <2>5. row \in Row /\ row.id = n /\ row.text = n /\ row.status \notin {"ABSENT", "GONE"}
    BY <2>2, <2>3, <2>4 DEF Row, Text
  <2>6. QED BY <1>3, <2>2, <2>5 DEF Inserted
<1>4. ASSUME c.act # "create", NEW s \in Status \ {"ABSENT"}, NEW S, Has(c, S), row = Becomes(c, s),
             c.act \notin {"save", "notes"}
      PROVE  Altered(c, row)
  <2>1. c.row.id \in Rows /\ db[c.row.id] \in Row /\ Exists(c.row.id)
    BY <1>1, <1>2, <1>4 DEF Row, Has
  <2>2. row \in Row /\ row.id = c.row.id /\ row.status = s /\ row.text = db[c.row.id].text
    BY <1>2, <1>4, <2>1 DEF Becomes, Row
  <2>3. QED BY <1>1, <1>4, <2>1, <2>2 DEF Altered
<1>5. {"PUBLISHED", "INVITED", "CLOSED", "GONE", "REVOKED", "PENDING"} \subseteq Status \ {"ABSENT"}
  BY DEF Status
<1>6. CASE c.act = "approve"
  <2>1. CASE page = "jobs" /\ Has(c, {"PENDING"})
    BY <1>4, <1>5, <1>6, <2>1 DEF Stored
  <2>2. CASE page = "pending" /\ Has(c, {"PENDING", "INVITED"})
    BY <1>4, <1>5, <1>6, <2>2 DEF Stored
  <2>3. QED BY <1>6, <2>1, <2>2 DEF Stored
<1>7. CASE c.act = "reject"
  <2>1. CASE page = "jobs" /\ Has(c, {"PENDING"})
    BY <1>4, <1>5, <1>7, <2>1 DEF Stored
  <2>2. CASE page = "pending" /\ Has(c, {"PENDING", "INVITED"})
    BY <1>4, <1>5, <1>7, <2>2 DEF Stored
  <2>3. QED BY <1>7, <2>1, <2>2 DEF Stored
<1>8. CASE c.act = "revoke"
  BY <1>4, <1>5, <1>8 DEF Stored
<1>9. CASE c.act = "resend"
  BY <1>4, <1>5, <1>9 DEF Stored
<1>10. CASE c.act = "delete"
  BY <1>4, <1>5, <1>10 DEF Stored
<1>11. CASE c.act = "notes"
  <2>1. Has(c, Status) /\ row = [db[c.row.id] EXCEPT !.text = c.row.text]
    BY <1>11 DEF Stored
  <2>2. c.row.id \in Rows /\ db[c.row.id] \in Row /\ Exists(c.row.id) /\ c.row.text \in Text
    BY <1>1, <1>2, <1>11, <2>1 DEF Row, Has
  <2>3. /\ row \in Row /\ row.id = c.row.id /\ row.status = db[c.row.id].status
        /\ row.text = c.row.text
    BY <1>2, <2>1, <2>2 DEF Row
  <2>4. QED BY <1>1, <1>11, <2>2, <2>3 DEF Altered, Exists
<1>12. CASE c.act = "save"
  <2>1. row = Saved(c)
    BY <1>12 DEF Stored
  <2>2. c.row \in Row /\ c.row.id \in Rows /\ db[c.row.id] \in Row
    BY <1>1, <1>2, <1>12 DEF Row
  <2>3. CASE page \in {"jobs", "applications"} /\ Has(c, Status \ {"WITHDRAWN"})
    <3>1. row = [Becomes(c, c.row.status) EXCEPT !.text = c.row.text] /\ Exists(c.row.id)
      BY <2>1, <2>3 DEF Saved, Has
    <3>2. /\ row \in Row /\ row.id = c.row.id /\ row.status = c.row.status
          /\ row.text = c.row.text
      BY <1>2, <2>2, <3>1 DEF Becomes, Row
    <3>3. QED BY <1>12, <2>2, <3>1, <3>2 DEF Altered
  <2>4. CASE ~(page \in {"jobs", "applications"} /\ Has(c, Status \ {"WITHDRAWN"}))
    <3>1. row = [db[c.row.id] EXCEPT !.text = c.row.text] /\ Exists(c.row.id)
      BY <2>1, <2>4 DEF Saved, Has
    <3>2. /\ row \in Row /\ row.id = c.row.id /\ row.status = db[c.row.id].status
          /\ row.text = c.row.text
      BY <1>2, <2>2, <3>1 DEF Row
    <3>3. QED BY <1>12, <2>2, <3>1, <3>2 DEF Altered, Exists
  <2>5. QED BY <2>3, <2>4
<1>13. QED
  BY <1>1, <1>3, <1>6, <1>7, <1>8, <1>9, <1>10, <1>11, <1>12 DEF Call

\* A removal keeps the others, in their order.
LEMMA RemovalKeeps ==
  ASSUME Types, NEW id, NEW items \in Remove(id)
  PROVE  \E n \in Nat : \E q \in [1 .. n -> DOMAIN list.items] :
           /\ \A i, j \in 1 .. n : i < j => q[i] < q[j]
           /\ \A k \in 1 .. n : list.items[q[k]].id # id
           /\ items = [k \in 1 .. n |-> list.items[q[k]]]
<1> DEFINE kept == {i \in DOMAIN list.items : list.items[i].id # id}
<1>1. IsFiniteSet(kept) /\ Cardinality(kept) \in Nat
  <2>1. DOMAIN list.items = 1 .. Len(list.items) /\ Len(list.items) \in Nat
    BY DEF Types, TypesOfHook
  <2>2. IsFiniteSet(1 .. Len(list.items))
    BY <2>1, FS_Interval
  <2>3. QED BY <2>1, <2>2, FS_Subset, FS_CardinalityType
<1>2. PICK q \in [1 .. Cardinality(kept) -> kept] :
        /\ \A i, j \in DOMAIN q : i < j => q[i] < q[j]
        /\ items = [k \in DOMAIN q |-> list.items[q[k]]]
  BY DEF Remove, LowestFirst
<1>3. DOMAIN q = 1 .. Cardinality(kept) /\ q \in [1 .. Cardinality(kept) -> DOMAIN list.items]
  BY <1>2
<1>4. \A k \in 1 .. Cardinality(kept) : list.items[q[k]].id # id
  BY <1>2
<1>5. QED BY <1>1, <1>2, <1>3, <1>4

\* What the list is after a call that was stored.
Relisted(c) ==
  \/ /\ c.act = "delete" \/ (c.act = "reject" /\ page = "pending")
     /\ \E n \in Nat : \E q \in [1 .. n -> DOMAIN list.items] :
          /\ \A i, j \in 1 .. n : i < j => q[i] < q[j]
          /\ \A k \in 1 .. n : list.items[q[k]].id # c.row.id
          /\ list'.items = [k \in 1 .. n |-> list.items[q[k]]]
  \/ c.act = "create" /\ list'.items = <<c.row>> \o list.items
  \/ c.act = "create" /\ list'.items = list.items
  \/ /\ c.act \in {"approve", "reject", "revoke", "save", "notes"}
     /\ list'.items = [i \in DOMAIN list.items |-> Changed(c, list.items[i])]

\* What a successful answer does to the list.
LEMMA SucceedLists ==
  ASSUME ListsAssumption, Types, NEW c \in calls, Succeed(c), c.live, c.act # "resend"
  PROVE  /\ Relisted(c) /\ UNCHANGED <<req, origin>>
         /\ list' = [list EXCEPT !.items = list'.items]
<1>1. PICK items \in ItemsAfter(c) : list' = [list EXCEPT !.items = items]
  BY DEF Succeed
<1>2. list'.items = items /\ UNCHANGED <<req, origin>>
  BY <1>1 DEF Succeed, Types, TypesOfHook
<1>3. c.act \in {"approve", "delete", "reject", "revoke", "save", "notes", "create"}
  BY DEF Types, TypesOfCalls, Call
<1>4. CASE c.act = "delete" \/ (c.act = "reject" /\ page = "pending")
  <2>1. items \in Remove(c.row.id)
    BY <1>4 DEF ItemsAfter
  <2>2. \E n \in Nat : \E q \in [1 .. n -> DOMAIN list.items] :
          /\ \A i, j \in 1 .. n : i < j => q[i] < q[j]
          /\ \A k \in 1 .. n : list.items[q[k]].id # c.row.id
          /\ items = [k \in 1 .. n |-> list.items[q[k]]]
    BY <2>1, RemovalKeeps
  <2>3. Relisted(c)
    BY <1>2, <1>4, <2>2 DEF Relisted
  <2>4. QED BY <1>1, <1>2, <2>3
<1>5. CASE c.act = "create" /\ page # "active"
  BY <1>1, <1>2, <1>5 DEF ItemsAfter, Prepend, Relisted
<1>6. CASE c.act = "create" /\ page = "active"
  BY <1>1, <1>2, <1>6 DEF ItemsAfter, Relisted
<1>7. CASE c.act \in {"approve", "reject", "revoke", "save", "notes"}
           /\ ~(c.act = "reject" /\ page = "pending")
  BY <1>1, <1>2, <1>7 DEF ItemsAfter, Relisted
<1>8. QED BY <1>3, <1>4, <1>5, <1>6, <1>7

\* An answer changes a row into a row of the same number.
LEMMA ChangedTyped ==
  ASSUME NEW c, c.row \in Row, NEW x \in Row
  PROVE  Changed(c, x) \in Row /\ Changed(c, x).id = x.id
BY DEF Changed, Row

\* After an answer the list holds rows.
LEMMA RelistedTyped ==
  ASSUME Types, NEW c \in calls, c.row \in Row, Relisted(c)
  PROVE  list'.items \in Seq(Row)
<1>1. list.items \in Seq(Row)
  BY DEF Types, TypesOfHook
<1>2. ASSUME NEW n \in Nat, NEW q \in [1 .. n -> DOMAIN list.items]
      PROVE  [k \in 1 .. n |-> list.items[q[k]]] \in Seq(Row)
  BY <1>1
<1>3. [i \in DOMAIN list.items |-> Changed(c, list.items[i])] \in Seq(Row)
  <2>1. DOMAIN list.items = 1 .. Len(list.items) /\ Len(list.items) \in Nat
    BY <1>1
  <2>2. \A i \in 1 .. Len(list.items) : Changed(c, list.items[i]) \in Row
    BY <1>1, ChangedTyped
  <2>3. QED BY <2>1, <2>2
<1>4. <<c.row>> \o list.items \in Seq(Row)
  BY <1>1
<1>5. QED BY <1>1, <1>2, <1>3, <1>4 DEF Relisted

\* What the dialogs are after it.
Answered(c) ==
  /\ url' \in {url, 0} /\ look' \in {look, NoLook} /\ detail' \in {detail, None, c.row}
  /\ page = "jobs" => (detail' \in {detail, None} \/ c.act = "save")
  /\ page = "jobs" /\ c.act = "save" => detail' = c.row
  /\ editing' \in {editing, None} /\ notesOf' \in {notesOf, None} /\ notes' = notes
  /\ confirm' = IF confirm.deed = c.act THEN NoConfirm ELSE confirm
  /\ \/ form' = form /\ Dialog' \in {Dialog, None}
     \/ page = "jobs" /\ form' = Seed(c.row) /\ Dialog' \in {c.row, None}

\* What a successful answer does to the list and the dialogs together.
LEMMA SucceedAnswers ==
  ASSUME ListsAssumption, Types, NEW c \in calls, Succeed(c), c.live
  PROVE  Answered(c)
<1>1. DialogsAfter(c) /\ page' = page
  BY DEF Succeed
<1>2. /\ editing' \in {editing, None} /\ notesOf' \in {notesOf, None} /\ notes' = notes
      /\ confirm' = IF confirm.deed = c.act THEN NoConfirm ELSE confirm
  BY <1>1 DEF DialogsAfter
<1>3. CASE page = "jobs"
  <2>1. JobsAfter(c)
    BY <1>1, <1>3 DEF DialogsAfter
  <2>2. CASE c.act = "save"
    <3>1. detail' = c.row /\ form' = Seed(c.row) /\ url' = url /\ look' = look
      BY <2>1, <2>2 DEF JobsAfter
    <3>2. QED BY <1>1, <1>2, <1>3, <2>2, <3>1 DEF Answered, Dialog
  <2>3. CASE c.act = "delete"
    <3>1. detail' = None /\ form' = form /\ url' = 0 /\ look' = NoLook
      BY <2>1, <2>3 DEF JobsAfter
    <3>2. QED BY <1>1, <1>2, <1>3, <2>3, <3>1 DEF Answered, Dialog
  <2>4. CASE c.act \notin {"save", "delete"}
    <3>1. detail' = detail /\ form' = form /\ url' = url /\ look' = look
      BY <2>1, <2>4 DEF JobsAfter
    <3>2. QED BY <1>1, <1>2, <1>3, <2>4, <3>1 DEF Answered, Dialog
  <2>5. QED BY <2>2, <2>3, <2>4
<1>4. CASE page # "jobs"
  <2>1. url' = url /\ look' = look /\ form' = form /\ detail' \in {detail, None, c.row}
    BY <1>1, <1>4 DEF DialogsAfter, ApplicationsAfter, CandidatesAfter, CompaniesAfter
  <2>2. Dialog' \in {Dialog, None}
    BY <1>1, <1>2, <1>4 DEF Dialog
  <2>3. QED BY <1>2, <1>4, <2>1, <2>2 DEF Answered
<1>5. QED BY <1>3, <1>4

\* The steps of calls under way, and those of other people.
CallStep ==
  \/ \E c \in calls : Serve(c) \/ Lose(c) \/ Succeed(c) \/ Fail(c)
  \/ \E r \in Rows : Elsewhere(r)

\* A call that is refused, or whose answer is lost.
Fails(c) ==
  /\ calls' = (calls \ {c}) \cup {[c EXCEPT !.state = "failed"]}
  /\ UNCHANGED <<page, filter, hook, dialogs, buttons, server>>

\* A call that is stored.
Stores(c) ==
  /\ c.state = "sent" /\ Stored(c) # None
  /\ calls' = (calls \ {c}) \cup {[c EXCEPT !.state = "stored", !.row = Known(c, Stored(c))]}
  /\ db' = [db EXCEPT ![Stored(c).id] = Stored(c)]
  /\ noted' = IF c.act = "notes" THEN noted \cup {Stored(c).id} ELSE noted
  /\ UNCHANGED <<page, filter, hook, dialogs, buttons>>

\* The server refuses a call or stores what it asks for.
LEMMA ServeOrFail ==
  ASSUME NEW c \in calls, Serve(c)
  PROVE  Fails(c) \/ Stores(c)
BY DEF Serve, Fails, Stores

\* A step of a call keeps the types.
LEMMA CallTypes ==
  ASSUME ListsAssumption, Types, CallStep
  PROVE  Types'
<1>0. /\ calls \subseteq Call /\ IsFiniteSet(calls)
      /\ \A c \in calls : c.state = "stored" \/ c.act # "create" => c.row \in Row
      /\ busy \subseteq {"form", "notes", "confirm", "create", "approve", "resend"}
      /\ rowBusy \in Rows \cup {0}
  BY DEF Types, TypesOfCalls
<1>1. tidy' \in [Rows -> BOOLEAN]
  BY Tidying DEF CallStep, Serve, Lose, Succeed, Fail, Elsewhere, Types
<1>2. ASSUME NEW c \in calls PROVE IsFiniteSet(calls \ {c})
  BY <1>0, FS_Subset
<1>3. ASSUME NEW c \in calls, Fails(c) PROVE Types'
  <2>1. [c EXCEPT !.state = "failed"] \in Call
    BY <1>0 DEF Call
  <2>2. IsFiniteSet(calls')
    BY <1>2, <1>3, FS_AddElement DEF Fails
  <2>3. \A d \in calls' : d.state = "stored" \/ d.act # "create" => d.row \in Row
    BY <1>0, <1>3 DEF Fails, Call
  <2>4. TypesOfCalls'
    BY <1>0, <1>3, <2>1, <2>2, <2>3 DEF Fails, TypesOfCalls, buttons
  <2>5. QED
    BY <1>1, <1>3, <2>4 DEF Fails, Types, TypesOfHook, TypesOfDialogs, TypesOfServer, hook, dialogs,
       server
<1>4. ASSUME NEW c \in calls, Stores(c) PROVE Types'
  <2> DEFINE row == Stored(c)
             after == [c EXCEPT !.state = "stored", !.row = Known(c, row)]
  <2>1. IF c.act = "create" THEN Inserted(row) ELSE Altered(c, row)
    BY <1>4, StoredRow DEF Stores
  <2>2. row \in Row
    BY <2>1 DEF Inserted, Altered
  <2>3. Known(c, row) \in Row
    BY <1>0, <2>2 DEF Known, Row, Call
  <2> HIDE DEF row
  <2>4. after \in Call /\ after.row \in Row
    BY <1>0, <2>3 DEF Call
  <2>5. IsFiniteSet(calls')
    BY <1>2, <1>4, FS_AddElement DEF Stores, row
  <2>6. TypesOfCalls'
    BY <1>0, <1>4, <2>4, <2>5 DEF Stores, TypesOfCalls, buttons, row
  <2>7. row.id \in Rows
    BY <2>2 DEF Row
  <2>8. TypesOfServer'
    BY <1>1, <1>4, <2>2, <2>7 DEF Stores, Types, TypesOfServer, row
  <2>9. QED
    BY <1>4, <2>6, <2>8 DEF Stores, Types, TypesOfHook, TypesOfDialogs, hook, dialogs
<1>5. ASSUME NEW c \in calls, Succeed(c) \/ Fail(c) PROVE TypesOfCalls'
  <2>1. busy' \subseteq busy /\ rowBusy' \in {rowBusy, 0} /\ calls' = calls \ {c}
    BY <1>5 DEF Succeed, Fail, ButtonsAfter, buttons
  <2>2. QED BY <1>0, <1>2, <2>1 DEF TypesOfCalls
<1>6. ASSUME NEW c \in calls, Fail(c) PROVE Types'
  BY <1>1, <1>5, <1>6 DEF Fail, Types, TypesOfHook, TypesOfDialogs, TypesOfServer, hook, dialogs,
     server
<1>7. ASSUME NEW c \in calls, Succeed(c) PROVE Types'
  <2>1. page' = page /\ filter' = filter /\ TypesOfServer' /\ c.row \in Row
    BY <1>0, <1>1, <1>7 DEF Succeed, Types, TypesOfServer, server
  <2>2. TypesOfDialogs'
    <3>1. CASE ~c.live
      BY <1>7, <2>1, <3>1 DEF Succeed, Types, TypesOfDialogs, dialogs
    <3>2. CASE c.live
      <4>1. Answered(c)
        BY <1>7, <3>2, SucceedAnswers
      <4>2. Seed(c.row) \in [text : Text, status : Status]
        BY <2>1 DEF Seed, Row
      <4>3. QED
        BY <2>1, <4>1, <4>2 DEF Answered, Types, TypesOfDialogs, RowOrNone, NoLook, NoConfirm
    <3>3. QED BY <3>1, <3>2
  <2>3. TypesOfHook'
    <3>1. CASE ~c.live
      BY <1>7, <2>1, <3>1 DEF Succeed, Types, TypesOfHook, hook
    <3>2. CASE c.live /\ c.act = "resend"
      BY <1>7, <2>1, <3>2, ResetRestarts DEF Succeed, Types, TypesOfHook
    <3>3. CASE c.live /\ c.act # "resend"
      <4>1. /\ list'.items \in Seq(Row) /\ UNCHANGED <<req, origin>>
            /\ list' = [list EXCEPT !.items = list'.items]
        BY <1>7, <2>1, <3>3, SucceedLists, RelistedTyped
      <4>2. QED BY <2>1, <4>1 DEF Types, TypesOfHook
    <3>4. QED BY <3>1, <3>2, <3>3
  <2>4. QED BY <1>5, <1>7, <2>1, <2>2, <2>3 DEF Types
<1>8. ASSUME NEW r \in Rows, Elsewhere(r) PROVE Types'
  <2>1. /\ UNCHANGED <<page, filter, hook, dialogs, buttons, calls, noted>>
        /\ \E s \in {"WITHDRAWN", "USED", "PUBLISHED"} : db' = [db EXCEPT ![r].status = s]
    BY <1>8 DEF Elsewhere
  <2>2. \A s \in {"WITHDRAWN", "USED", "PUBLISHED"} : [db[r] EXCEPT !.status = s] \in Row
    BY DEF Types, TypesOfServer, Row, Status
  <2>3. db' \in [Rows -> Row] /\ \A q \in Rows : db'[q].id = q
    BY <2>1, <2>2 DEF Types, TypesOfServer, Row
  <2>4. QED
    BY <1>1, <2>1, <2>3 DEF Types, TypesOfHook, TypesOfDialogs, TypesOfCalls, TypesOfServer, hook,
       dialogs, buttons
<1>9. QED
  BY <1>3, <1>4, <1>6, <1>7, <1>8, ServeOrFail DEF CallStep, Lose, Fails

-----------------------------------------------------------------------------
(* What every step does to the copies of rows.                             *)

Copies == Items \cup {detail, editing, notesOf, look.row, confirm.row}
PageRows == {req.rows[i] : i \in DOMAIN req.rows}
Stock == {db[r] : r \in Rows}
Present == {db[r] : r \in {q \in Rows : Exists(q)}}

\* The rows that exist are among the server's.
LEMMA PresentInStock == Present \subseteq Stock
BY DEF Present, Stock

\* A dialog copies rows from the page or from the server.
LEMMA DialogCopies ==
  ASSUME Types, Moved, Untouched
  PROVE  /\ Copies' \subseteq Copies \cup Present \cup {None}
         /\ Items' = Items /\ PageRows' = PageRows
<1>1. Items' = Items /\ PageRows' = PageRows
  BY DEF Untouched, hook, Items, PageRows
<1>2. detail' \in Copies \cup {None} /\ editing' \in Copies \cup {None} /\ notesOf' \in Copies \cup {None}
  BY DEF Moved, Copies
<1>3. confirm'.row \in Copies \cup {None}
  BY DEF Moved, Copies, NoConfirm
<1>4. look'.row \in Copies \cup Present \cup {None}
  <2>1. /\ look \in [of : Rows \cup {0}, stage : {"none", "sent", "served"}, row : RowOrNone]
        /\ look.stage = "sent" => look.of \in Rows
    BY DEF Types, TypesOfDialogs
  <2>2. CASE look' \in {look, NoLook}
    BY <2>2 DEF NoLook, Copies
  <2>3. ASSUME NEW r \in Rows, look' = [of |-> r, stage |-> "sent", row |-> None]
        PROVE  look'.row = None
    BY <2>3
  <2>4. CASE look.stage = "sent" /\ look' = [look EXCEPT !.stage = "served",
                                !.row = IF Exists(look.of) THEN db[look.of] ELSE None]
    <3>1. look'.row = IF Exists(look.of) THEN db[look.of] ELSE None
      BY <2>1, <2>4
    <3>2. QED BY <2>1, <2>4, <3>1 DEF Present
  <2>5. QED BY <2>2, <2>3, <2>4 DEF Moved
<1>5. QED BY <1>1, <1>2, <1>3, <1>4 DEF Copies

\* The list takes its rows from pages, and a page from the rows that exist.
LEMMA HookCopies ==
  ASSUME ListsAssumption, Types, HookStep
  PROVE  Items' \subseteq Items \cup PageRows /\ PageRows' \subseteq PageRows \cup Present
<1>0. /\ list.items \in Seq(Row) /\ req.rows \in Seq(Row)
      /\ req \in [stage : {"none", "sent", "served"}, replace : BOOLEAN, cursor : Rows \cup {0},
                  filter : Filters(page), rows : Seq(Row), next : Rows \cup {0}]
  BY DEF Types, TypesOfHook
<1>1. CASE ServeList
  <2>1. PICK p \in PageOf(req.filter, req.cursor), n \in Nat :
           /\ p \in [1 .. n -> Listed(req.filter, req.cursor)]
           /\ req' = [req EXCEPT !.stage = "served", !.rows = [i \in 1 .. n |-> db[p[i]]],
                                 !.next = NextCursor(req.filter, req.cursor, p)]
    BY <1>1, ServeTyped
  <2>2. req'.rows = [i \in 1 .. n |-> db[p[i]]]
    BY <1>0, <2>1
  <2>3. \A i \in 1 .. n : db[p[i]] \in Present
    BY <2>1 DEF Listed, Present
  <2>4. PageRows' \subseteq Present
    BY <2>2, <2>3 DEF PageRows
  <2>5. Items' = Items
    BY <1>1 DEF ServeList, Items
  <2>6. QED BY <2>4, <2>5
<1>2. CASE ListAnswer
  <2>1. list'.items = (IF req.replace THEN req.rows ELSE list.items \o req.rows) /\ req'.rows = <<>>
    BY <1>2 DEF ListAnswer, NoReq
  <2>2. Items' \subseteq Items \cup PageRows
    <3>1. CASE req.replace
      BY <2>1, <3>1 DEF Items, PageRows
    <3>2. CASE ~req.replace
      <4>1. \A k \in DOMAIN (list.items \o req.rows) :
              \/ k \in DOMAIN list.items /\ (list.items \o req.rows)[k] = list.items[k]
              \/ /\ k - Len(list.items) \in DOMAIN req.rows
                 /\ (list.items \o req.rows)[k] = req.rows[k - Len(list.items)]
        BY <1>0, AppendedAt
      <4>2. QED BY <2>1, <3>2, <4>1 DEF Items, PageRows
    <3>3. QED BY <3>1, <3>2
  <2>3. PageRows' = {}
    BY <2>1 DEF PageRows
  <2>4. QED BY <2>2, <2>3
<1>3. CASE ListFail
  <2>1. list'.items = list.items /\ req'.rows = <<>>
    BY <1>3 DEF ListFail, NoReq, Types, TypesOfHook
  <2>2. QED BY <2>1 DEF Items, PageRows
<1>4. CASE Scroll
  <2>1. list'.items = list.items /\ req'.rows = <<>>
    <3>1. req' = [NoReq EXCEPT !.stage = "sent", !.replace = FALSE, !.cursor = list.cursor,
                               !.filter = filter']
      BY <1>4 DEF Scroll, FetchPage
    <3>2. QED BY <1>4, <3>1, ScrollContinues DEF Continued, NoReq
  <2>2. QED BY <2>1 DEF Items, PageRows
<1>5. ASSUME Reset, filter' \in Filters(page), page' = page
      PROVE  Items' = {} /\ PageRows' \subseteq PageRows
  <2>1. list'.items = <<>>
    BY <1>5, ResetRestarts DEF Restarted
  <2>2. req'.rows = <<>> \/ req' = req
    <3>1. \/ req' = req
          \/ req' = [NoReq EXCEPT !.stage = "sent", !.replace = TRUE, !.cursor = 0, !.filter = filter']
      BY <1>5 DEF Reset, FetchPage
    <3>2. QED BY <3>1 DEF NoReq
  <2>3. QED BY <2>1, <2>2 DEF Items, PageRows
<1>6. QED
  BY <1>1, <1>2, <1>3, <1>4, <1>5 DEF HookStep, Retry, SetFilter, Types, TypesOfHook

\* A page that is left keeps no copy.
LEMMA AfreshCopies ==
  ASSUME Types, NEW kept, StartAfresh(kept)
  PROVE  Copies' = {None} /\ PageRows' = {} /\ Items' = {}
BY DEF StartAfresh, Mounted, Copies, Items, PageRows, InitialState, NoReq, NoLook, NoConfirm

\* Sending makes no copy of a row.
LEMMA SendCopies ==
  ASSUME Types, Sending
  PROVE  Copies' \subseteq Copies \cup {None} /\ Items' = Items /\ PageRows' = PageRows
<1>1. Items' = Items /\ PageRows' = PageRows
  BY DEF Sending, hook, Items, PageRows
<1>2. CASE UNCHANGED dialogs
  BY <1>1, <1>2 DEF dialogs, Copies
<1>3. CASE JobLeft
  BY <1>1, <1>3 DEF JobLeft, Copies, NoLook
<1>4. QED BY <1>2, <1>3 DEF Sending

\* The rows the answer of a call puts into the list.
Revised(c) == {Changed(c, x) : x \in Items} \cup {c.row}

\* After an answer the list has the rows it had, changed by it or not, and perhaps the
\* answer's.
LEMMA RelistedCopies ==
  ASSUME Types, NEW c \in calls, c.row \in Row, Relisted(c)
  PROVE  /\ c.act = "delete" => Items' \subseteq {x \in Items : x.id # c.row.id}
         /\ Items' \subseteq Items \cup Revised(c)
<1>0. list.items \in Seq(Row)
  BY DEF Types, TypesOfHook
<1>1. ASSUME NEW n \in Nat, NEW q \in [1 .. n -> DOMAIN list.items],
             \A k \in 1 .. n : list.items[q[k]].id # c.row.id,
             list'.items = [k \in 1 .. n |-> list.items[q[k]]]
      PROVE  Items' \subseteq {x \in Items : x.id # c.row.id}
  BY <1>1 DEF Items
<1>2. CASE c.act = "create" /\ list'.items = <<c.row>> \o list.items
  <2>1. \A k \in DOMAIN (<<c.row>> \o list.items) :
          \/ (<<c.row>> \o list.items)[k] = c.row
          \/ k - 1 \in DOMAIN list.items /\ (<<c.row>> \o list.items)[k] = list.items[k - 1]
    BY <1>0
  <2>2. QED BY <1>2, <2>1 DEF Items, Revised
<1>3. CASE c.act = "create" /\ list'.items = list.items
  BY <1>3 DEF Items
<1>4. CASE list'.items = [i \in DOMAIN list.items |-> Changed(c, list.items[i])]
           /\ c.act # "delete"
  BY <1>4 DEF Items, Revised
<1>5. QED BY <1>1, <1>2, <1>3, <1>4 DEF Relisted

-----------------------------------------------------------------------------
(* No text reaches another row.                                            *)

Own(x) == x.text \in {0, x.id} \/ x.id \in noted

\* The fields on screen are about the row on screen.
OwnFields == Dialog # None => form.text \in {0, Dialog.id} \/ Dialog.id \in noted

\* A call to store notes may have anything in it; once stored, the row is noted.
OwnCalls == \A c \in calls : Own(c.row) \/ (c.act = "notes" /\ c.state # "stored")

OwnInv == (\A x \in Copies \cup PageRows \cup Stock : Own(x)) /\ OwnFields /\ OwnCalls

\* The absence of a row holds no foreign text.
LEMMA NoneOwn == Own(None)
BY DEF Own, None

\* At first no row holds a text of another.
LEMMA OwnInit ==
  ASSUME ListsAssumption, Init
  PROVE  OwnInv
<1>1. Copies = {None} /\ PageRows = {}
  BY DEF Init, Copies, Items, PageRows, InitialState, NoReq, NoLook, NoConfirm
<1>2. \A x \in Stock : Own(x)
  BY DEF Init, Stock, Own
<1>3. Dialog = None /\ calls = {}
  BY DEF Init, Dialog
<1>4. QED BY <1>1, <1>2, <1>3, NoneOwn DEF OwnInv, OwnFields, OwnCalls

\* A dialog shows the text of its own row.
LEMMA OwnByDialog ==
  ASSUME ListsAssumption, Types, OwnInv, DialogStep
  PROVE  OwnInv'
<1>1. Moved /\ Untouched /\ FormMoved
  BY DialogMoves, FormMoves
<1>2. \A x \in (Copies \cup PageRows \cup Stock)' : x \in Copies \cup PageRows \cup Stock \cup {None}
  BY <1>1, DialogCopies, PresentInStock DEF Untouched, server, Stock
<1>3. calls' = calls /\ noted' = noted
  BY <1>1 DEF Untouched, server
<1>4. \A x \in (Copies \cup PageRows \cup Stock)' : Own(x)'
  BY <1>2, <1>3, NoneOwn DEF OwnInv, Own
<1>5. OwnFields'
  <2>1. CASE form' = form /\ Dialog' \in {Dialog, None}
    BY <1>3, <2>1 DEF OwnInv, OwnFields
  <2>2. CASE Dialog # None /\ Dialog' = Dialog
             /\ \/ form' \in {Written, Seed(Dialog)}
                \/ \E s \in {"CLOSED", "REJECTED"} : form' = [form EXCEPT !.status = s]
    <3>1. Dialog \in Copies /\ form \in [text : Text, status : Status]
      BY <2>2 DEF Dialog, Copies, Types, TypesOfDialogs
    <3>2. Own(Dialog) /\ (form.text \in {0, Dialog.id} \/ Dialog.id \in noted)
      BY <2>2, <3>1 DEF OwnInv, OwnFields
    <3>3. form'.text \in {0, Dialog.id, form.text, Dialog.text}
      BY <2>2, <3>1 DEF Written, Seed
    <3>4. QED BY <1>3, <2>2, <3>2, <3>3 DEF OwnFields, Own
  <2>3. ASSUME NEW row \in (Items \cup {detail, look.row}) \ {None},
               form' = Seed(row), Dialog' \in {row, None}
        PROVE  OwnFields'
    BY <1>3, <2>3 DEF OwnInv, OwnFields, Own, Copies, Seed
  <2>4. QED BY <1>1, <2>1, <2>2, <2>3 DEF FormMoved
<1>6. OwnCalls'
  BY <1>3 DEF OwnInv, OwnCalls, Own
<1>7. QED BY <1>4, <1>5, <1>6 DEF OwnInv

\* Loading pages moves no text between rows.
LEMMA OwnByHook ==
  ASSUME ListsAssumption, Types, OwnInv, HookStep
  PROVE  OwnInv'
<1>1. UNCHANGED <<page, dialogs, calls, server>>
  BY DEF HookStep, ServeList, ListAnswer, ListFail, Scroll, Retry, SetFilter
<1>2. Stock' = Stock /\ Dialog' = Dialog /\ noted' = noted
  BY <1>1 DEF server, dialogs, Stock, Dialog
<1>3. (Copies \cup PageRows \cup Stock)' \subseteq Copies \cup PageRows \cup Stock
  BY <1>1, <1>2, HookCopies, PresentInStock DEF Copies, dialogs
<1>4. QED BY <1>1, <1>2, <1>3 DEF OwnInv, OwnFields, OwnCalls, Own, dialogs

\* Leaving the page moves no text between rows.
LEMMA OwnByLeaving ==
  ASSUME ListsAssumption, Types, OwnInv, NEW kept, StartAfresh(kept)
  PROVE  OwnInv'
<1>1. Copies' = {None} /\ PageRows' = {}
  BY AfreshCopies
<1>2. /\ Stock' = Stock /\ noted' = noted /\ Dialog' = None
      /\ calls' = {[c EXCEPT !.live = @ /\ c.act \in kept] : c \in calls}
  BY DEF StartAfresh, Mounted, server, Stock, Dialog
<1>3. \A x \in (Copies \cup PageRows \cup Stock)' : Own(x)'
  BY <1>1, <1>2, NoneOwn DEF OwnInv, Own
<1>4. OwnCalls'
  <2> SUFFICES ASSUME NEW d \in calls'
               PROVE  Own(d.row)' \/ (d.act = "notes" /\ d.state # "stored")
    BY DEF OwnCalls
  <2>1. PICK c \in calls : d = [c EXCEPT !.live = @ /\ c.act \in kept]
    BY <1>2
  <2>2. d.row = c.row /\ d.act = c.act /\ d.state = c.state
    BY <2>1 DEF Types, TypesOfCalls, Call
  <2>3. QED BY <1>2, <2>2 DEF OwnInv, OwnCalls, Own
<1>5. QED BY <1>2, <1>3, <1>4 DEF OwnInv, OwnFields

\* A call carries the text of the row it is about.
LEMMA OwnBySend ==
  ASSUME ListsAssumption, Types, OwnInv, SendStep
  PROVE  OwnInv'
<1>1. Sending
  BY SendSends
<1>2. /\ Copies' \subseteq Copies \cup {None} /\ PageRows' = PageRows
      /\ Stock' = Stock /\ noted' = noted
  BY <1>1, SendCopies DEF Sending, server, Stock
<1>3. \A x \in (Copies \cup PageRows \cup Stock)' : Own(x)'
  BY <1>2, NoneOwn DEF OwnInv, Own
<1>4. OwnFields'
  <2>1. form' = form /\ Dialog' \in {Dialog, None}
    BY <1>1 DEF Sending, JobLeft, Dialog, dialogs
  <2>2. QED BY <1>2, <2>1 DEF OwnInv, OwnFields
<1>5. OwnCalls'
  <2>1. PICK act, row : Sent(act, row) /\ row \in RowOrNone /\ calls' = calls \cup {NewCall(act, row)}
    BY <1>1 DEF Sending
  <2>2. Own(row) \/ act = "notes"
    <3>1. CASE Dialog # None /\ row = Filled(Dialog)
      <4>1. row.id = Dialog.id /\ row.text = form.text
        BY <3>1 DEF Filled, Types, TypesOfDialogs, Dialog, RowOrNone, Row
      <4>2. QED BY <3>1, <4>1 DEF OwnInv, OwnFields, Own
    <3>2. CASE row = confirm.row \/ row \in Items \cup {detail}
      BY <3>2 DEF OwnInv, Copies
    <3>3. QED BY <2>1, <3>1, <3>2, NoneOwn DEF Sent
  <2>3. QED BY <1>2, <2>1, <2>2 DEF OwnInv, OwnCalls, Own, NewCall
<1>6. QED BY <1>3, <1>4, <1>5 DEF OwnInv

\* A call that fails writes no text.
LEMMA OwnByFailure ==
  ASSUME Types, OwnInv, NEW c \in calls, Fails(c)
  PROVE  OwnInv'
<1>1. UNCHANGED <<page, hook, dialogs, server>>
  BY DEF Fails
<1>2. (Copies \cup PageRows \cup Stock)' = Copies \cup PageRows \cup Stock /\ Dialog' = Dialog
      /\ noted' = noted /\ form' = form
  BY <1>1 DEF Copies, Items, PageRows, Stock, Dialog, hook, dialogs, server
<1>3. \A d \in calls' :
        d \in calls \/ (d.row = c.row /\ d.act = c.act /\ d.state # "stored" /\ c \in calls)
  BY DEF Fails, Types, TypesOfCalls, Call
<1>4. OwnCalls'
  <2> SUFFICES ASSUME NEW d \in calls'
               PROVE  Own(d.row)' \/ (d.act = "notes" /\ d.state # "stored")
    BY DEF OwnCalls
  <2>1. CASE d \in calls
    BY <1>2, <2>1 DEF OwnInv, OwnCalls, Own
  <2>2. CASE d.row = c.row /\ d.act = c.act /\ d.state # "stored"
    BY <1>2, <2>2 DEF OwnInv, OwnCalls, Own
  <2>3. QED BY <1>3, <2>1, <2>2
<1>5. QED BY <1>2, <1>4 DEF OwnInv, OwnFields, Own

\* The server stores a call's text in the call's row.
LEMMA OwnByStore ==
  ASSUME ListsAssumption, Types, OwnInv, NEW c \in calls, Stores(c)
  PROVE  OwnInv'
<1>a. PICK row : row = Stored(c)
  OBVIOUS
<1>b. PICK known : known = Known(c, row)
  OBVIOUS
<1> DEFINE after == [c EXCEPT !.state = "stored", !.row = known]
<1>1. IF c.act = "create" THEN Inserted(row) ELSE Altered(c, row)
  BY <1>a, StoredRow DEF Stores
<1>2. /\ c \in Call /\ row \in Row /\ row.id \in Rows
      /\ noted \subseteq noted' /\ (c.act = "notes" => row.id \in noted')
  BY <1>a, <1>1 DEF Stores, Inserted, Altered, Row, Types, TypesOfCalls
<1>3. \A x : Own(x) => Own(x)'
  BY <1>2 DEF Own
<1>4. Own(c.row) \/ c.act = "notes"
  BY DEF OwnInv, OwnCalls
<1>5. Own(row)'
  <2>1. CASE c.act = "create"
    BY <1>1, <2>1 DEF Inserted, Own
  <2>2. CASE c.act = "notes"
    BY <1>2, <2>2 DEF Own
  <2>3. CASE c.act \notin {"create", "notes"}
    <3>1. row.text \in {c.row.text, db[row.id].text} /\ row.id = c.row.id
      BY <1>1, <2>3 DEF Altered
    <3>2. Own(c.row) /\ Own(db[row.id]) /\ db[row.id].id = row.id
      BY <1>2, <1>4, <2>3 DEF OwnInv, Stock, Types, TypesOfServer
    <3>3. QED BY <1>2, <3>1, <3>2 DEF Own
  <2>4. QED BY <2>1, <2>2, <2>3
<1>6. Own(known)'
  <2>1. CASE c.act \in {"reject", "revoke"}
    <3>1. known.id = c.row.id /\ known.text = c.row.text
      BY <1>b, <1>1, <2>1 DEF Known, Altered, Row
    <3>2. QED BY <1>2, <1>4, <2>1, <3>1 DEF Own
  <2>2. CASE c.act \notin {"reject", "revoke"}
    BY <1>b, <1>5, <2>2 DEF Known
  <2>3. QED BY <2>1, <2>2
<1>7. /\ calls' = (calls \ {c}) \cup {after} /\ db' = [db EXCEPT ![row.id] = row]
      /\ UNCHANGED <<page, hook, dialogs>>
  BY <1>a, <1>b DEF Stores
<1>8. /\ Copies' = Copies /\ PageRows' = PageRows /\ Stock' \subseteq Stock \cup {row}
      /\ Dialog' = Dialog /\ form' = form
  BY <1>7 DEF Copies, Items, PageRows, Stock, Dialog, hook, dialogs, Types, TypesOfServer
<1>9. \A x \in (Copies \cup PageRows \cup Stock)' : Own(x)'
  BY <1>3, <1>5, <1>8 DEF OwnInv
<1>10. OwnFields'
  BY <1>2, <1>8 DEF OwnInv, OwnFields
<1>11. OwnCalls'
  <2>1. after.row = known
    BY <1>2 DEF Call
  <2>2. QED BY <1>3, <1>6, <1>7, <2>1 DEF OwnInv, OwnCalls
<1>12. QED BY <1>9, <1>10, <1>11 DEF OwnInv

\* An answer puts a row's text into copies of that row.
LEMMA OwnByAnswer ==
  ASSUME ListsAssumption, Types, OwnInv, NEW c \in calls, Succeed(c) \/ Fail(c)
  PROVE  OwnInv'
<1>1. calls' = calls \ {c} /\ UNCHANGED <<page, server>>
  BY DEF Succeed, Fail
<1>2. noted' = noted /\ Stock' = Stock /\ OwnCalls'
  BY <1>1 DEF server, Stock, OwnInv, OwnCalls, Own
<1>3. CASE UNCHANGED <<hook, dialogs>>
  <2>1. Copies' = Copies /\ PageRows' = PageRows /\ Dialog' = Dialog /\ form' = form
    BY <1>1, <1>3 DEF Copies, Items, PageRows, Dialog, hook, dialogs
  <2>2. QED BY <1>2, <2>1 DEF OwnInv, OwnFields, Own
<1>4. CASE Succeed(c) /\ c.live
  <2>1. Answered(c) /\ c.row \in Row /\ Own(c.row)
    BY <1>4, SucceedAnswers DEF Succeed, Types, TypesOfCalls, OwnInv, OwnCalls
  <2>2. Items' \subseteq Items \cup Revised(c) /\ PageRows' \subseteq PageRows
    <3>1. CASE c.act = "resend"
      <4>1. Reset /\ page' = page /\ filter' = filter
        BY <1>4, <3>1 DEF Succeed
      <4>2. list'.items = <<>>
        BY <4>1, ResetRestarts DEF Restarted, Types, TypesOfHook
      <4>3. req'.rows = <<>> \/ req' = req
        <5>1. \/ req' = req
              \/ req' = [NoReq EXCEPT !.stage = "sent", !.replace = TRUE, !.cursor = 0, !.filter = filter']
          BY <4>1 DEF Reset, FetchPage
        <5>2. QED BY <5>1 DEF NoReq
      <4>4. QED BY <4>2, <4>3 DEF Items, PageRows
    <3>2. CASE c.act # "resend"
      BY <1>4, <2>1, <3>2, SucceedLists, RelistedCopies DEF PageRows
    <3>3. QED BY <3>1, <3>2
  <2>3. \A x \in Revised(c) : Own(x)
    <3> SUFFICES ASSUME NEW x \in Items PROVE Own(Changed(c, x))
      BY <2>1 DEF Revised
    <3>1. Own(x) /\ x \in Row
      BY ShownTyped DEF OwnInv, Copies
    <3>2. CASE x.id # c.row.id
      BY <3>1, <3>2 DEF Changed
    <3>3. CASE x.id = c.row.id
      BY <2>1, <3>1, <3>3 DEF Changed, Own, Row
    <3>4. QED BY <3>2, <3>3
  <2>4. /\ detail' \in Copies \cup {None, c.row} /\ editing' \in Copies \cup {None}
        /\ notesOf' \in Copies \cup {None} /\ look'.row \in Copies \cup {None}
        /\ confirm'.row \in Copies \cup {None}
    BY <2>1 DEF Answered, Copies, NoLook, NoConfirm
  <2>5. \A x \in (Copies \cup PageRows \cup Stock)' :
          x \in Copies \cup PageRows \cup Stock \cup Revised(c) \cup {None, c.row}
    BY <1>2, <2>2, <2>4 DEF Copies
  <2>6. \A x \in (Copies \cup PageRows \cup Stock)' : Own(x)'
    BY <1>2, <2>1, <2>3, <2>5, NoneOwn DEF OwnInv, Own
  <2>7. OwnFields'
    <3>1. CASE form' = form /\ Dialog' \in {Dialog, None}
      BY <1>2, <3>1 DEF OwnInv, OwnFields
    <3>2. CASE form' = Seed(c.row) /\ Dialog' \in {c.row, None}
      BY <1>2, <2>1, <3>2 DEF OwnFields, Own, Seed
    <3>3. QED BY <2>1, <3>1, <3>2 DEF Answered
  <2>8. QED BY <1>2, <2>6, <2>7 DEF OwnInv
<1>5. QED BY <1>3, <1>4 DEF Succeed, Fail

\* Other clients write a row's own text.
LEMMA OwnByOthers ==
  ASSUME Types, OwnInv, NEW r \in Rows, Elsewhere(r)
  PROVE  OwnInv'
<1>1. /\ UNCHANGED <<page, hook, dialogs, calls, noted>>
      /\ \E s \in {"WITHDRAWN", "USED", "PUBLISHED"} : db' = [db EXCEPT ![r].status = s]
  BY DEF Elsewhere
<1>2. \A q \in Rows : db'[q].text = db[q].text /\ db'[q].id = db[q].id
  BY <1>1 DEF Types, TypesOfServer, Row
<1>3. /\ Copies' = Copies /\ PageRows' = PageRows /\ Dialog' = Dialog /\ form' = form
  BY <1>1 DEF Copies, Items, PageRows, Dialog, hook, dialogs
<1>4. ASSUME NEW q \in Rows PROVE Own(db[q])'
  <2>1. Own(db[q])
    BY DEF OwnInv, Stock
  <2>2. QED BY <1>1, <1>2, <2>1 DEF Own
<1>5. \A x \in Stock' : Own(x)'
  BY <1>4 DEF Stock
<1>6. \A x \in (Copies \cup PageRows)' : Own(x)'
  BY <1>1, <1>3 DEF OwnInv, Own
<1>7. QED BY <1>1, <1>3, <1>5, <1>6 DEF OwnInv, OwnFields, OwnCalls, Own

\* Every step is of one of these kinds.
LEMMA StepKinds ==
  ASSUME Next
  PROVE  DialogStep \/ HookStep \/ Leaving \/ SendStep \/ CallStep
BY DEF Leaving, Remount, SwitchTab, Next, NetStep, UserStep, DialogStep, HookStep, SendStep, CallStep, Deeds

\* No step gives a row another's text.
LEMMA OwnNext ==
  ASSUME ListsAssumption, Types, OwnInv, Next
  PROVE  OwnInv'
<1>1. CASE DialogStep BY <1>1, OwnByDialog
<1>2. CASE HookStep BY <1>2, OwnByHook
<1>3. CASE Leaving BY <1>3, OwnByLeaving DEF Leaving
<1>4. CASE SendStep BY <1>4, OwnBySend
<1>5. ASSUME NEW c \in calls, Serve(c) \/ Lose(c) PROVE OwnInv'
  BY <1>5, ServeOrFail, OwnByFailure, OwnByStore DEF Lose, Fails
<1>6. ASSUME NEW c \in calls, Succeed(c) \/ Fail(c) PROVE OwnInv'
  BY <1>6, OwnByAnswer
<1>7. ASSUME NEW r \in Rows, Elsewhere(r) PROVE OwnInv'
  BY <1>7, OwnByOthers
<1>8. QED BY <1>1, <1>2, <1>3, <1>4, <1>5, <1>6, <1>7, StepKinds DEF CallStep

\* The types hold at first.
LEMMA TypesInit ==
  ASSUME ListsAssumption, Init
  PROVE  Types
<1>1. page \in Pages /\ "ALL" \in Filters(page) /\ <<>> \in Seq(Row)
  BY AllIsFilter DEF Init
<1>2. TypesOfHook
  BY <1>1 DEF Init, TypesOfHook, InitialState, NoReq
<1>3. TypesOfDialogs
  BY DEF Init, TypesOfDialogs, NoLook, NoConfirm, EmptyForm, RowOrNone, Text, Status
<1>4. TypesOfCalls
  BY FS_EmptySet DEF Init, TypesOfCalls
<1>5. TypesOfServer
  <2>1. FirstStatus(page) \in Status /\ "ABSENT" \in Status
    BY DEF FirstStatus, Status
  <2>2. QED BY <2>1 DEF Init, TypesOfServer, Row, Text
<1>6. QED BY <1>1, <1>2, <1>3, <1>4, <1>5 DEF Types

\* Every step keeps the types.
LEMMA TypesNext ==
  ASSUME ListsAssumption, Types, Next
  PROVE  Types'
BY StepKinds, DialogTypes, HookTypes, AfreshTypes, SendTypes, CallTypes DEF Leaving

\* So does a step in which nothing happens.
LEMMA TypesStutter ==
  ASSUME Types, UNCHANGED vars
  PROVE  Types'
BY DEF vars, hook, dialogs, buttons, server, Types, TypesOfHook, TypesOfDialogs, TypesOfCalls,
       TypesOfServer

\* A step in which nothing happens keeps the texts where they are.
LEMMA OwnStutter ==
  ASSUME OwnInv, UNCHANGED vars
  PROVE  OwnInv'
BY DEF vars, hook, dialogs, buttons, server, OwnInv, OwnFields, OwnCalls, Own, Dialog, Copies, Items,
       PageRows, Stock

\* Whatever the dialogs hold, and however late their saves are answered, a row's text is
\* its own, unless notes were stored for the row: the code seeds every other form from
\* the row it is opened on.
THEOREM DialogsWriteTheirRow == Spec => []OwnText
<1>1. Init => Types /\ OwnInv
  BY TypesInit, OwnInit, ListsAssumption
<1>2. Types /\ OwnInv /\ [Next]_vars => Types' /\ OwnInv'
  BY TypesNext, OwnNext, TypesStutter, OwnStutter, ListsAssumption
<1>3. Types /\ OwnInv => OwnText
  BY DEF OwnInv, OwnText, Own, Stock, Types, TypesOfServer
<1>4. QED BY <1>1, <1>2, <1>3, PTL DEF Spec

-----------------------------------------------------------------------------
(* Rows that exist, and calls that meet nothing.                           *)

\* A copy is of a row that was created.
Born(x) == x # None => x.status # "ABSENT" /\ db[x.id].status # "ABSENT"

Cursors == {list.cursor, req.cursor, req.next}

BornPage ==
  /\ \A x \in Copies \cup PageRows : Born(x)
  /\ form.status # "ABSENT"
  /\ \A k \in Cursors : k # 0 => db[k].status # "ABSENT"
BornCalls == \A c \in calls : Born(c.row)
\* Rows are created in the order of their identifiers.
InOrder == \A q, s \in Rows : db[q].status = "ABSENT" /\ q < s => db[s].status = "ABSENT"

BornInv == BornPage /\ BornCalls /\ InOrder

About(r) == {c \in calls : c.row.id = r}

\* While a row is tidy, a call about it meets no other call, no request that reads the
\* row, no confirmation of another deed, and the page that sent it is still there.
Calm ==
  \A r \in Rows : tidy[r] =>
    /\ \A c, d \in About(r) : c = d
    /\ About(r) # {} => req.stage = "none" /\ look.of # r
    /\ confirm.row.id = r => \A c \in About(r) : c.act = confirm.deed
    /\ \A c \in About(r) : c.live \/ c.act = "create"

\* If the calls left about tidy rows are live, the rest of Calm follows from how rows
\* cease to be tidy.
LEMMA CalmAfter ==
  ASSUME ListsAssumption, Types, Types', Tidied,
         \A c \in calls' : c.row.id \in Rows /\ tidy'[c.row.id] => c.live \/ c.act = "create"
  PROVE  Calm'
<1> SUFFICES ASSUME NEW r \in Rows, tidy'[r]
             PROVE  /\ \A c, d \in About(r)' : c = d
                    /\ About(r)' # {} => req'.stage = "none" /\ look'.of # r
                    /\ confirm'.row.id = r => \A c \in About(r)' : c.act = confirm'.deed
                    /\ \A c \in About(r)' : c.live \/ c.act = "create"
  BY DEF Calm
<1>1. ~Disturbed(r)
  BY Tidying DEF Types
<1>2. About(r)' = {c \in calls' : c.row.id = r}
  BY DEF About
<1>3. \A c, d \in About(r)' : c = d
  <2>1. IsFiniteSet(About(r)') /\ ~(Cardinality(About(r)') > 1)
    BY <1>1, <1>2, FS_Subset DEF Disturbed, Types, TypesOfCalls
  <2>2. QED BY <2>1, AtMostOne
<1>4. About(r)' # {} => req'.stage = "none" /\ look'.of # r
  BY <1>1, <1>2 DEF Disturbed
<1>5. confirm'.row.id = r => \A c \in About(r)' : c.act = confirm'.deed
  BY <1>1, <1>2 DEF Disturbed
<1>6. QED BY <1>2, <1>3, <1>4, <1>5

\* At first nothing is under way.
LEMMA CalmInit ==
  ASSUME Init
  PROVE  Calm
BY DEF Init, Calm, About

\* Whatever a step does, a row is tidy after it only if it was and nothing disturbed it.
LEMMA StepTidies ==
  ASSUME ListsAssumption, Types, Next
  PROVE  Tidied
BY SendSends, DialogMoves, StepKinds
   DEF HookStep, ServeList, ListAnswer, ListFail, Scroll, Retry, SetFilter, Leaving, StartAfresh, Sending,
       CallStep, Serve, Lose, Succeed, Fail, Elsewhere

\* Every step keeps the calls about tidy rows live.
LEMMA CalmNext ==
  ASSUME ListsAssumption, Types, Types', Calm, Next
  PROVE  Calm'
<1>1. Tidied
  BY StepTidies
<1>2. \A r \in Rows : tidy'[r] => tidy[r] /\ ~Disturbed(r)
  BY <1>1, Tidying DEF Types
<1>3. \A c \in calls : c.row.id \in Rows /\ tidy'[c.row.id] => c.live \/ c.act = "create"
  BY <1>2 DEF Calm, About
<1>4. ASSUME \A d \in calls' : \/ d \in calls
                               \/ d.live
                               \/ \E c \in calls : d.row.id = c.row.id /\ d.live = c.live /\ d.act = c.act
                               \/ d.act = "create"
      PROVE  Calm'
  <2>1. \A d \in calls' : d.row.id \in Rows /\ tidy'[d.row.id] => d.live \/ d.act = "create"
    BY <1>3, <1>4
  <2>2. QED BY <1>1, <2>1, CalmAfter
<1>5. CASE UNCHANGED calls
  BY <1>4, <1>5
<1>6. CASE Leaving
  <2>1. \A d \in calls' : d.row.id \in Rows => ~tidy'[d.row.id]
    <3>1. req'.stage = "sent"
      BY <1>6 DEF Leaving, StartAfresh, NoReq
    <3>2. QED BY <1>2, <3>1 DEF Disturbed
  <2>2. QED BY <1>1, <2>1, CalmAfter
<1>7. CASE SendStep
  <2>1. \E act, row : calls' = calls \cup {NewCall(act, row)}
    BY <1>7, SendSends DEF Sending
  <2>2. QED BY <1>4, <2>1 DEF NewCall
<1>8. ASSUME NEW c \in calls, Fails(c) PROVE Calm'
  BY <1>4, <1>8 DEF Fails, Types, TypesOfCalls, Call
<1>9. ASSUME NEW c \in calls, Stores(c) PROVE Calm'
  <2>1. PICK row : row = Stored(c)
    OBVIOUS
  <2>2. IF c.act = "create" THEN Inserted(row) ELSE Altered(c, row)
    BY <1>9, <2>1, StoredRow DEF Stores
  <2>3. c.act = "create" \/ Known(c, row).id = c.row.id
    BY <2>2 DEF Known, Altered, Row
  <2>4. calls' = (calls \ {c}) \cup {[c EXCEPT !.state = "stored", !.row = Known(c, row)]}
    BY <1>9, <2>1 DEF Stores
  <2>5. QED BY <1>4, <2>3, <2>4 DEF Types, TypesOfCalls, Call
<1>10. ASSUME NEW c \in calls, Succeed(c) \/ Fail(c) PROVE Calm'
  BY <1>4, <1>10 DEF Succeed, Fail
<1>11. QED
  <2>1. CASE DialogStep \/ HookStep \/ \E r \in Rows : Elsewhere(r)
    BY <1>5, <2>1, DialogMoves
       DEF Untouched, HookStep, ServeList, ListAnswer, ListFail, Scroll, Retry, SetFilter, Elsewhere
  <2>2. QED
    BY <1>6, <1>7, <1>8, <1>9, <1>10, <2>1, StepKinds, ServeOrFail DEF CallStep, Lose, Fails

\* Nothing that was created ceases to exist.
LEMMA BornStays ==
  ASSUME \A r \in Rows : db[r].status # "ABSENT" => db'[r].status # "ABSENT",
         NEW x, x = None \/ x.id \in Rows, Born(x)
  PROVE  Born(x)'
BY DEF Born

\* Rows that exist, and none at all, are born.
LEMMA PresentBorn ==
  ASSUME Types
  PROVE  /\ \A x \in Present : Born(x)
         /\ Born(None)
BY DEF Present, Born, Exists, Types, TypesOfServer

\* Copies are rows or none.
LEMMA CopiesTyped ==
  ASSUME Types
  PROVE  /\ Copies \subseteq RowOrNone /\ PageRows \subseteq Row /\ Present \subseteq Row
         /\ \A x \in RowOrNone : x = None \/ x.id \in Rows
<1>1. Copies \subseteq RowOrNone
  BY ShownTyped DEF Types, TypesOfDialogs, Copies, RowOrNone
<1>2. PageRows \subseteq Row
  BY DEF Types, TypesOfHook, PageRows
<1>3. Present \subseteq Row
  BY DEF Types, TypesOfServer, Present
<1>4. \A x \in RowOrNone : x = None \/ x.id \in Rows
  BY DEF RowOrNone, Row
<1>5. QED BY <1>1, <1>2, <1>3, <1>4

\* At first the page holds nothing, and the rows yet to be created are the last.
LEMMA BornInit ==
  ASSUME ListsAssumption, Init
  PROVE  BornInv
<1>1. Copies = {None} /\ PageRows = {} /\ Cursors = {0} /\ calls = {} /\ form.status = "PUBLISHED"
  BY DEF Init, Copies, Items, PageRows, InitialState, NoReq, NoLook, NoConfirm, Cursors, EmptyForm
<1>2. \A r \in Rows : db[r].status = "ABSENT" => r \in Created
  BY DEF Init, FirstStatus
<1>3. \A r \in Created : r \in Rows /\ db[r].status = "ABSENT"
  BY DEF Init, ListsAssumption
<1>4. InOrder
  <2> SUFFICES ASSUME NEW q \in Rows, NEW s \in Rows, db[q].status = "ABSENT", q < s, s \notin Created
               PROVE  FALSE
    BY <1>3 DEF InOrder
  <2>1. q > s
    BY <1>2 DEF ListsAssumption
  <2>2. q \in Nat /\ s \in Nat
    BY RowsAreNumbers
  <2>3. QED BY <2>1, <2>2
<1>5. QED BY <1>1, <1>4 DEF BornInv, BornPage, BornCalls, Born

\* A page whose copies and cursors come from the old ones or from the server's rows.
LEMMA BornPageStays ==
  ASSUME ListsAssumption, Types, Types', BornInv, UNCHANGED server,
         Copies' \subseteq Copies \cup PageRows \cup Present \cup {None},
         PageRows' \subseteq PageRows \cup Present,
         Cursors' \subseteq Cursors \cup {q \in Rows : Exists(q)} \cup {0},
         form'.status # "ABSENT"
  PROVE  BornPage' /\ InOrder'
<1>1. \A x \in (Copies \cup PageRows)' : Born(x)
  BY PresentBorn DEF BornInv, BornPage
<1>2. \A x \in (Copies \cup PageRows)' : Born(x)'
  BY <1>1 DEF Born, server
<1>3. \A k \in Cursors' : k # 0 => db'[k].status # "ABSENT"
  BY DEF BornInv, BornPage, Exists, server
<1>4. QED BY <1>2, <1>3 DEF BornPage, BornInv, InOrder, server

\* A dialog opens on a row that was born.
LEMMA BornByDialog ==
  ASSUME ListsAssumption, Types, Types', BornInv, DialogStep
  PROVE  BornInv'
<1>1. Moved /\ Untouched /\ FormMoved
  BY DialogMoves, FormMoves
<1>2. /\ Copies' \subseteq Copies \cup Present \cup {None} /\ PageRows' = PageRows
      /\ UNCHANGED <<server, calls, list, req>>
  BY <1>1, DialogCopies DEF Untouched, hook
<1>3. form'.status # "ABSENT"
  <2>1. /\ \A row \in Copies \ {None} : Seed(row).status # "ABSENT"
        /\ form.status # "ABSENT" /\ form \in [text : Text, status : Status]
    BY DEF BornInv, BornPage, Born, Seed, Types, TypesOfDialogs
  <2>2. CASE form' = form
    BY <2>1, <2>2
  <2>3. CASE Dialog # None /\ \/ form' \in {Written, Seed(Dialog)}
                              \/ \E s \in {"CLOSED", "REJECTED"} : form' = [form EXCEPT !.status = s]
    <3>1. Dialog \in Copies \ {None} /\ Written.status = form.status
      BY <2>1, <2>3 DEF Dialog, Copies, Written
    <3>2. QED BY <2>1, <2>3, <3>1
  <2>4. ASSUME NEW row \in (Items \cup {detail, look.row}) \ {None}, form' = Seed(row)
        PROVE  form'.status # "ABSENT"
    BY <2>1, <2>4 DEF Copies
  <2>5. QED BY <1>1, <2>2, <2>3, <2>4 DEF FormMoved
<1>4. Cursors' = Cursors
  BY <1>2 DEF Cursors
<1>5. QED BY <1>2, <1>3, <1>4, BornPageStays DEF BornInv, BornCalls, Born, server

\* The cursors of the list and of its request.
LEMMA HookCursors ==
  ASSUME ListsAssumption, Types, HookStep
  PROVE  Cursors' \subseteq Cursors \cup {q \in Rows : Exists(q)} \cup {0}
<1>0. /\ list \in [items : Seq(Row), cursor : Rows \cup {0}, hasMore : BOOLEAN,
                   loading : BOOLEAN, more : BOOLEAN, error : BOOLEAN]
      /\ req \in [stage : {"none", "sent", "served"}, replace : BOOLEAN, cursor : Rows \cup {0},
                  filter : Filters(page), rows : Seq(Row), next : Rows \cup {0}]
  BY DEF Types, TypesOfHook
<1>1. CASE ServeList
  <2>1. PICK p \in PageOf(req.filter, req.cursor), n \in Nat :
           /\ p \in [1 .. n -> Listed(req.filter, req.cursor)]
           /\ req' = [req EXCEPT !.stage = "served", !.rows = [i \in 1 .. n |-> db[p[i]]],
                                 !.next = NextCursor(req.filter, req.cursor, p)]
           /\ NextCursor(req.filter, req.cursor, p) # 0 =>
                n > 0 /\ NextCursor(req.filter, req.cursor, p) = p[n]
    BY <1>1, ServeTyped
  <2>2. req'.next = NextCursor(req.filter, req.cursor, p) /\ req'.cursor = req.cursor
    BY <1>0, <2>1
  <2>3. req'.next = 0 \/ req'.next \in {q \in Rows : Exists(q)}
    BY <2>1, <2>2 DEF Listed
  <2>4. list' = list
    BY <1>1 DEF ServeList
  <2>5. QED BY <2>2, <2>3, <2>4 DEF Cursors
<1>2. CASE ListAnswer
  BY <1>2 DEF ListAnswer, Cursors, NoReq
<1>3. CASE ListFail
  BY <1>0, <1>3 DEF ListFail, Cursors, NoReq
<1>4. CASE Scroll
  BY <1>4, ScrollContinues DEF Continued, Cursors
<1>5. ASSUME Reset, filter' \in Filters(page), page' = page
      PROVE  Cursors' \subseteq Cursors \cup {0}
  BY <1>5, ResetRestarts DEF Restarted, Cursors
<1>6. QED
  BY <1>1, <1>2, <1>3, <1>4, <1>5 DEF HookStep, Retry, SetFilter, Types, TypesOfHook

\* Pages bring rows that were born.
LEMMA BornByHook ==
  ASSUME ListsAssumption, Types, Types', BornInv, HookStep
  PROVE  BornInv'
<1>1. UNCHANGED <<page, dialogs, calls, server>>
  BY DEF HookStep, ServeList, ListAnswer, ListFail, Scroll, Retry, SetFilter
<1>2. /\ Copies' \subseteq Copies \cup PageRows \cup Present \cup {None}
      /\ PageRows' \subseteq PageRows \cup Present /\ form' = form
  BY <1>1, HookCopies DEF Copies, dialogs
<1>3. form'.status # "ABSENT"
  BY <1>2 DEF BornInv, BornPage
<1>4. QED BY <1>1, <1>2, <1>3, HookCursors, BornPageStays DEF BornInv, BornCalls, Born, server

\* Leaving the page brings no row.
LEMMA BornByLeaving ==
  ASSUME ListsAssumption, Types, Types', BornInv, NEW kept, StartAfresh(kept)
  PROVE  BornInv'
<1>1. Copies' = {None} /\ PageRows' = {} /\ Cursors' = {0} /\ UNCHANGED server
  BY AfreshCopies DEF StartAfresh, Cursors, InitialState, NoReq
<1>2. form'.status # "ABSENT" /\ calls' = {[c EXCEPT !.live = @ /\ c.act \in kept] : c \in calls}
  BY DEF StartAfresh, Mounted, EmptyForm
<1>3. BornCalls'
  <2> SUFFICES ASSUME NEW d \in calls' PROVE Born(d.row)'
    BY DEF BornCalls
  <2>1. PICK c \in calls : d = [c EXCEPT !.live = @ /\ c.act \in kept]
    BY <1>2
  <2>2. d.row = c.row
    BY <2>1 DEF Types, TypesOfCalls, Call
  <2>3. QED BY <1>1, <2>2 DEF BornInv, BornCalls, Born, server
<1>4. QED BY <1>1, <1>2, <1>3, BornPageStays DEF BornInv

\* A call is about a row that was born, or about none.
LEMMA BornBySend ==
  ASSUME ListsAssumption, Types, Types', BornInv, SendStep
  PROVE  BornInv'
<1>1. Sending
  BY SendSends
<1>2. /\ Copies' \subseteq Copies \cup {None} /\ PageRows' = PageRows
      /\ UNCHANGED <<server, list, req, form>>
  BY <1>1, SendCopies DEF Sending, hook, dialogs, JobLeft
<1>3. BornPage' /\ InOrder'
  <2>1. Cursors' = Cursors /\ form'.status # "ABSENT"
    BY <1>2 DEF Cursors, BornInv, BornPage
  <2>2. QED BY <1>2, <2>1, BornPageStays
<1>4. BornCalls'
  <2>1. PICK act, row : /\ Sent(act, row) /\ row \in RowOrNone /\ (act # "create" => row \in Row)
                        /\ calls' = calls \cup {NewCall(act, row)}
    BY <1>1 DEF Sending
  <2>2. Born(row)
    <3>1. CASE Dialog # None /\ row = Filled(Dialog)
      <4>1. Dialog \in Copies /\ row.id = Dialog.id /\ row.status = form.status
        BY <3>1 DEF Filled, Types, TypesOfDialogs, Dialog, RowOrNone, Row, Copies
      <4>2. QED BY <3>1, <4>1 DEF BornInv, BornPage, Born
    <3>2. CASE notesOf # None /\ row = [notesOf EXCEPT !.text = notes]
      <4>1. row.id = notesOf.id /\ row.status = notesOf.status /\ notesOf \in Copies
        BY <3>2 DEF Types, TypesOfDialogs, RowOrNone, Row, Copies
      <4>2. QED BY <3>2, <4>1 DEF BornInv, BornPage, Born
    <3>3. CASE row = confirm.row \/ row \in Items \cup {detail}
      BY <3>3 DEF BornInv, BornPage, Copies
    <3>4. QED BY <2>1, <3>1, <3>2, <3>3, PresentBorn DEF Sent
  <2>3. \A d \in calls' : Born(d.row)
    BY <2>1, <2>2 DEF NewCall, BornInv, BornCalls
  <2>4. QED BY <1>2, <2>3 DEF BornCalls, Born, server
<1>5. QED BY <1>3, <1>4 DEF BornInv

\* A call that fails brings no row.
LEMMA BornByFailure ==
  ASSUME ListsAssumption, Types, Types', BornInv, NEW c \in calls, Fails(c)
  PROVE  BornInv'
<1>1. UNCHANGED <<page, hook, dialogs, server>>
  BY DEF Fails
<1>2. Copies' = Copies /\ PageRows' = PageRows /\ Cursors' = Cursors /\ form' = form
  BY <1>1 DEF Copies, Items, PageRows, Cursors, hook, dialogs
<1>3. BornPage' /\ InOrder'
  BY <1>1, <1>2, BornPageStays DEF BornInv, BornPage
<1>4. \A d \in calls' : \E e \in calls : d.row = e.row
  BY DEF Fails, Types, TypesOfCalls, Call
<1>5. BornCalls'
  <2> SUFFICES ASSUME NEW d \in calls' PROVE Born(d.row)'
    BY DEF BornCalls
  <2>1. PICK e \in calls : d.row = e.row
    BY <1>4
  <2>2. QED BY <1>1, <2>1 DEF BornInv, BornCalls, Born, server
<1>6. QED BY <1>3, <1>5 DEF BornInv

\* The row a call creates is the next in order.
LEMMA BornByStore ==
  ASSUME ListsAssumption, Types, Types', BornInv, NEW c \in calls, Stores(c)
  PROVE  BornInv'
<1>a. PICK row : row = Stored(c)
  OBVIOUS
<1>b. PICK known : known = Known(c, row)
  OBVIOUS
<1>1. IF c.act = "create" THEN Inserted(row) ELSE Altered(c, row)
  BY <1>a, StoredRow DEF Stores
<1>2. /\ c \in Call /\ row \in Row /\ row.id \in Rows /\ Born(c.row)
      /\ c.row \in Row => c.row # None
  BY <1>1, NoneIsNoRow DEF Inserted, Altered, Row, Types, TypesOfCalls, BornInv, BornCalls
<1>3. row.status # "ABSENT"
  BY <1>1, <1>2 DEF Inserted, Altered, Born
<1>4. /\ db' = [db EXCEPT ![row.id] = row] /\ db \in [Rows -> Row]
      /\ calls' = (calls \ {c}) \cup {[c EXCEPT !.state = "stored", !.row = known]}
      /\ UNCHANGED <<page, hook, dialogs>>
  BY <1>a, <1>b DEF Stores, Types, TypesOfServer
<1>5. /\ \A r \in Rows : db[r].status # "ABSENT" => db'[r].status # "ABSENT"
      /\ db'[row.id].status # "ABSENT"
      /\ \A r \in Rows : db'[r].status = "ABSENT" => r # row.id /\ db[r].status = "ABSENT"
  BY <1>2, <1>3, <1>4
<1>6. Copies' = Copies /\ PageRows' = PageRows /\ Cursors' = Cursors /\ form' = form
  BY <1>4 DEF Copies, Items, PageRows, Cursors, hook, dialogs
<1>7. BornPage'
  <2>1. \A x \in (Copies \cup PageRows)' : Born(x)'
    BY <1>5, <1>6, CopiesTyped, BornStays DEF BornInv, BornPage, RowOrNone
  <2>2. Cursors \subseteq Rows \cup {0}
    BY DEF Cursors, Types, TypesOfHook
  <2>3. QED BY <1>5, <1>6, <2>1, <2>2 DEF BornInv, BornPage
<1>8. BornCalls'
  <2>1. Born(known)'
    <3>1. known.id = row.id /\ known.status = row.status
      BY <1>b, <1>1 DEF Known, Altered, Row
    <3>2. QED BY <1>3, <1>5, <3>1 DEF Born
  <2>2. [c EXCEPT !.state = "stored", !.row = known].row = known
    BY <1>2 DEF Call
  <2>3. \A d \in calls : Born(d.row)'
    <3> SUFFICES ASSUME NEW d \in calls PROVE Born(d.row)'
      OBVIOUS
    <3>1. d.row \in RowOrNone /\ Born(d.row)
      BY DEF Types, TypesOfCalls, Call, RowOrNone, BornInv, BornCalls
    <3>2. QED BY <1>5, <3>1, CopiesTyped, BornStays
  <2>4. QED BY <1>4, <2>1, <2>2, <2>3 DEF BornCalls
<1>9. InOrder'
  <2> SUFFICES ASSUME NEW q \in Rows, NEW s \in Rows, db'[q].status = "ABSENT", q < s
               PROVE  db'[s].status = "ABSENT"
    BY DEF InOrder
  <2>1. q # row.id /\ db[q].status = "ABSENT" /\ db[s].status = "ABSENT"
    BY <1>5 DEF BornInv, InOrder
  <2>2. s # row.id
    <3>1. CASE c.act = "create"
      BY <1>1, <2>1, <3>1 DEF Inserted, NextRow
    <3>2. CASE c.act # "create"
      BY <1>1, <2>1, <3>2 DEF Altered, Exists
    <3>3. QED BY <3>1, <3>2
  <2>3. QED BY <1>4, <2>1, <2>2
<1>10. QED BY <1>7, <1>8, <1>9 DEF BornInv

\* What the answer of a call leaves on the page.
LEMMA AnswerCopies ==
  ASSUME ListsAssumption, Types, NEW c \in calls, Succeed(c), c.live
  PROVE  /\ Answered(c) /\ c.row \in Row
         /\ Items' \subseteq Items \cup Revised(c) /\ PageRows' \subseteq PageRows
         /\ Copies' \subseteq Copies \cup Revised(c) \cup {None}
         /\ Cursors' \subseteq Cursors \cup {0}
<1>1. Answered(c) /\ c.row \in Row
  BY SucceedAnswers DEF Succeed, Types, TypesOfCalls
<1>2. CASE c.act = "resend"
  <2>1. Reset /\ page' = page /\ filter' = filter
    BY <1>2 DEF Succeed
  <2>2. Restarted
    BY <2>1, ResetRestarts DEF Types, TypesOfHook
  <2>3. req'.rows = <<>> \/ req' = req
    <3>1. \/ req' = req
          \/ req' = [NoReq EXCEPT !.stage = "sent", !.replace = TRUE, !.cursor = 0, !.filter = filter']
      BY <2>1 DEF Reset, FetchPage
    <3>2. QED BY <3>1 DEF NoReq
  <2>4. Items' = {} /\ PageRows' \subseteq PageRows /\ Cursors' \subseteq Cursors \cup {0}
    BY <2>2, <2>3 DEF Restarted, Items, PageRows, Cursors
  <2>5. QED BY <1>1, <2>4 DEF Answered, Copies, Revised, NoLook, NoConfirm
<1>3. CASE c.act # "resend"
  <2>1. Relisted(c) /\ req' = req /\ list' = [list EXCEPT !.items = list'.items]
    BY <1>3, SucceedLists
  <2>2. list'.cursor = list.cursor
    BY <2>1 DEF Types, TypesOfHook
  <2>3. Items' \subseteq Items \cup Revised(c) /\ PageRows' = PageRows /\ Cursors' = Cursors
    BY <1>1, <2>1, <2>2, RelistedCopies DEF PageRows, Cursors
  <2>4. QED BY <1>1, <2>3 DEF Answered, Copies, Revised, NoLook, NoConfirm
<1>4. QED BY <1>2, <1>3

\* An answer brings a row that the server stored.
LEMMA BornByAnswer ==
  ASSUME ListsAssumption, Types, Types', BornInv, NEW c \in calls, Succeed(c) \/ Fail(c)
  PROVE  BornInv'
<1>1. calls' = calls \ {c} /\ UNCHANGED <<page, server>>
  BY DEF Succeed, Fail
<1>2. BornCalls' /\ InOrder'
  BY <1>1 DEF server, BornInv, BornCalls, Born, InOrder
<1>3. CASE UNCHANGED <<hook, dialogs>>
  <2>1. Copies' = Copies /\ PageRows' = PageRows /\ Cursors' = Cursors /\ form' = form
    BY <1>3 DEF Copies, Items, PageRows, Cursors, hook, dialogs
  <2>2. QED BY <1>1, <1>2, <2>1 DEF server, BornInv, BornPage, Born
<1>4. CASE Succeed(c) /\ c.live
  <2>1. /\ Answered(c) /\ c.row \in Row /\ PageRows' \subseteq PageRows
        /\ Copies' \subseteq Copies \cup Revised(c) \cup {None}
        /\ Cursors' \subseteq Cursors \cup {0}
    BY <1>4, AnswerCopies
  <2>2. Born(c.row) /\ c.row # None
    BY <2>1, NoneIsNoRow DEF BornInv, BornCalls
  <2>3. \A x \in Revised(c) : Born(x)
    <3> SUFFICES ASSUME NEW x \in Items PROVE Born(Changed(c, x))
      BY <2>2 DEF Revised
    <3>1. Born(x) /\ x \in Row /\ x # None
      BY ShownTyped, NoneIsNoRow DEF BornInv, BornPage, Copies
    <3>2. Changed(c, x) \in {x, c.row} \/ (Changed(c, x).id = x.id /\ Changed(c, x).status = x.status)
      BY <3>1 DEF Changed, Row
    <3>3. QED BY <2>2, <3>1, <3>2 DEF Born
  <2>4. \A x \in (Copies \cup PageRows)' : Born(x)
    BY <2>1, <2>3, PresentBorn DEF BornInv, BornPage
  <2>5. form'.status # "ABSENT"
    BY <2>1, <2>2 DEF Answered, Seed, Born, BornInv, BornPage
  <2>6. BornPage'
    BY <1>1, <2>1, <2>4, <2>5 DEF server, BornInv, BornPage, Born
  <2>7. QED BY <1>2, <2>6 DEF BornInv
<1>5. QED BY <1>3, <1>4 DEF Succeed, Fail

\* Rows change elsewhere without ceasing to exist.
LEMMA BornByOthers ==
  ASSUME ListsAssumption, Types, Types', BornInv, NEW r \in Rows, Elsewhere(r)
  PROVE  BornInv'
<1>1. /\ UNCHANGED <<page, hook, dialogs, calls, noted>> /\ db[r].status # "ABSENT"
      /\ \E s \in {"WITHDRAWN", "USED", "PUBLISHED"} : db' = [db EXCEPT ![r].status = s]
  BY DEF Elsewhere
<1>2. \A q \in Rows : db'[q].status = "ABSENT" <=> db[q].status = "ABSENT"
  BY <1>1 DEF Types, TypesOfServer, Row
<1>3. Copies' = Copies /\ PageRows' = PageRows /\ Cursors' = Cursors /\ form' = form
  BY <1>1 DEF Copies, Items, PageRows, Cursors, hook, dialogs
<1>4. BornPage'
  <2>1. \A x \in (Copies \cup PageRows)' : Born(x)'
    BY <1>2, <1>3, CopiesTyped, BornStays DEF BornInv, BornPage, RowOrNone
  <2>2. Cursors \subseteq Rows \cup {0}
    BY DEF Cursors, Types, TypesOfHook
  <2>3. QED BY <1>2, <1>3, <2>1, <2>2 DEF BornInv, BornPage
<1>5. BornCalls'
  <2> SUFFICES ASSUME NEW d \in calls PROVE Born(d.row)'
    BY <1>1 DEF BornCalls
  <2>1. d.row \in RowOrNone /\ Born(d.row)
    BY DEF Types, TypesOfCalls, Call, RowOrNone, BornInv, BornCalls
  <2>2. QED BY <1>2, <2>1, CopiesTyped, BornStays
<1>6. InOrder'
  BY <1>2 DEF BornInv, InOrder
<1>7. QED BY <1>4, <1>5, <1>6 DEF BornInv

\* Every step keeps BornInv.
LEMMA BornNext ==
  ASSUME ListsAssumption, Types, Types', BornInv, Next
  PROVE  BornInv'
<1>1. CASE DialogStep BY <1>1, BornByDialog
<1>2. CASE HookStep BY <1>2, BornByHook
<1>3. CASE Leaving BY <1>3, BornByLeaving DEF Leaving
<1>4. CASE SendStep BY <1>4, BornBySend
<1>5. ASSUME NEW c \in calls, Serve(c) \/ Lose(c) PROVE BornInv'
  BY <1>5, ServeOrFail, BornByFailure, BornByStore DEF Lose, Fails
<1>6. ASSUME NEW c \in calls, Succeed(c) \/ Fail(c) PROVE BornInv'
  BY <1>6, BornByAnswer
<1>7. ASSUME NEW r \in Rows, Elsewhere(r) PROVE BornInv'
  BY <1>7, BornByOthers
<1>8. QED BY <1>1, <1>2, <1>3, <1>4, <1>5, <1>6, <1>7, StepKinds DEF CallStep

-----------------------------------------------------------------------------
(* What is on the page is what the server has.                             *)

\* The calls about a row whose answers are on their way to the page.
StoredAbout(r) == {c \in calls : c.row.id = r /\ c.state = "stored"}

\* A copy of a tidy row has the row's text, or the call that wrote another is stored
\* and not answered; and so has its status, which notes do not touch.
TextFresh(x) ==
  tidy[x.id] /\ (\A c \in StoredAbout(x.id) : c.act \notin {"save", "notes"})
    => x.text = db[x.id].text
StatusFresh(x) ==
  tidy[x.id] /\ (\A c \in StoredAbout(x.id) : c.act = "notes") => x.status = db[x.id].status

ItemsFresh == \A x \in Items : TextFresh(x) /\ StatusFresh(x)

\* What is still to be read lies behind what was read.
Ordered ==
  \A x \in Items : tidy[x.id] =>
    /\ x.id >= list.cursor
    /\ req.stage # "none" /\ ~req.replace => x.id >= req.cursor

Distinct ==
  \A i, j \in DOMAIN list.items :
    i # j /\ list.items[i].id = list.items[j].id => ~tidy[list.items[i].id]

\* The page that the server has answered with.
RowsFresh ==
  /\ req.stage # "none" /\ ~req.replace => req.cursor # 0
  /\ req.stage = "served" =>
       /\ \A x \in PageRows :
            /\ tidy[x.id] => x = db[x.id]
            /\ x.id >= req.next
            /\ req.cursor # 0 => x.id < req.cursor
       /\ req.cursor # 0 => req.next < req.cursor
       /\ \A i, j \in DOMAIN req.rows : i # j => req.rows[i].id # req.rows[j].id

\* The copies from which calls are made that keep them.
DialogsFresh ==
  /\ look.row # None => look.row.id = look.of /\ TextFresh(look.row)
  /\ page = "jobs" /\ detail # None => TextFresh(detail)
  /\ confirm.deed \in {"reject", "revoke"} => TextFresh(confirm.row)

\* What a handler will put into the list: the server's row, and a new one is not there yet.
CallsFresh ==
  \A c \in calls : c.row \in Row /\ tidy[c.row.id] =>
    /\ c.act \in {"reject", "revoke"} /\ c.state = "sent" => c.row.text = db[c.row.id].text
    /\ c.state = "stored" =>
         /\ c.row = db[c.row.id]
         /\ c.act = "create" =>
              c.row.id > list.cursor /\ \A x \in Items : x.id # c.row.id

NotesPage == (\E c \in calls : c.act = "notes") \/ notesOf # None => page = "applications"

FreshInv ==
  ItemsFresh /\ Ordered /\ Distinct /\ RowsFresh /\ DialogsFresh /\ CallsFresh /\ NotesPage

\* At first there is no copy to be out of date.
LEMMA FreshInit ==
  ASSUME ListsAssumption, Init
  PROVE  FreshInv
<1>1. Items = {} /\ list.items = <<>> /\ calls = {} /\ notesOf = None
  BY DEF Init, Items, InitialState
<1>2. req.stage = "sent" /\ req.replace
  BY DEF Init, NoReq
<1>3. look.row = None /\ detail = None /\ confirm.deed = "none"
  BY DEF Init, NoLook, NoConfirm
<1>4. QED
  BY <1>1, <1>2, <1>3
     DEF FreshInv, ItemsFresh, Ordered, Distinct, RowsFresh, DialogsFresh, CallsFresh, NotesPage

\* A copy stays as fresh as it was while its row and the answers about it do.
LEMMA FreshStays ==
  ASSUME NEW x, tidy'[x.id] => /\ tidy[x.id] /\ db'[x.id] = db[x.id]
                               /\ StoredAbout(x.id)' = StoredAbout(x.id)
  PROVE  /\ TextFresh(x) => TextFresh(x)'
         /\ StatusFresh(x) => StatusFresh(x)'
<1>1. tidy'[x.id] /\ (\A c \in StoredAbout(x.id)' : c.act \notin {"save", "notes"})
        => (\A c \in StoredAbout(x.id) : c.act \notin {"save", "notes"})
  OBVIOUS
<1>2. tidy'[x.id] /\ (\A c \in StoredAbout(x.id)' : c.act = "notes")
        => (\A c \in StoredAbout(x.id) : c.act = "notes")
  OBVIOUS
<1>3. QED BY <1>1, <1>2 DEF TextFresh, StatusFresh

\* What the server has is fresh.
LEMMA StockFresh ==
  ASSUME NEW x, x = db[x.id]
  PROVE  TextFresh(x) /\ StatusFresh(x)
BY DEF TextFresh, StatusFresh

\* A row tidy after a step was tidy before, and the step did not disturb it.
LEMMA TidyWas ==
  ASSUME Types, Tidied, NEW r \in Rows, tidy'[r]
  PROVE  tidy[r] /\ ~Disturbed(r)
BY Tidying DEF Types

\* A dialog copies a row as the page has it.
LEMMA FreshByDialog ==
  ASSUME ListsAssumption, Types, Types', FreshInv, DialogStep
  PROVE  FreshInv'
<1>1. Moved /\ Untouched /\ Tidied
  BY DialogMoves
<1>2. UNCHANGED <<page, list, req, calls, db>>
  BY <1>1 DEF Untouched, hook, server
<1>3. Items' = Items /\ PageRows' = PageRows /\ Items \subseteq Row /\ PageRows \subseteq Row
  BY <1>2, CopiesTyped, ShownTyped DEF Items, PageRows
<1>4. \A r \in Rows : tidy'[r] => tidy[r]
  BY <1>1, TidyWas
<1>5. \A r : StoredAbout(r)' = StoredAbout(r)
  BY <1>2 DEF StoredAbout
<1>6. ASSUME NEW x \in Row PROVE (TextFresh(x) => TextFresh(x)') /\ (StatusFresh(x) => StatusFresh(x)')
  BY <1>2, <1>4, <1>5, FreshStays DEF Row
<1>7. ItemsFresh' /\ Ordered' /\ Distinct' /\ RowsFresh'
  <2>1. ItemsFresh'
    BY <1>3, <1>6 DEF FreshInv, ItemsFresh
  <2>2. Ordered'
    BY <1>2, <1>3, <1>4 DEF FreshInv, Ordered, Row
  <2>3. Distinct'
    <3>1. \A i \in DOMAIN list.items : list.items[i].id \in Rows
      BY <1>3 DEF Items, Row
    <3>2. QED BY <1>2, <1>4, <3>1 DEF FreshInv, Distinct
  <2>4. RowsFresh'
    BY <1>2, <1>3, <1>4 DEF FreshInv, RowsFresh, Row
  <2>5. QED BY <2>1, <2>2, <2>3, <2>4
<1>8. DialogsFresh'
  <2>a. PICK looked, shown, asked : looked = look'.row /\ shown = detail' /\ asked = confirm'.row
    OBVIOUS
  <2>1. looked # None => looked.id = look'.of /\ TextFresh(looked)'
    <3>1. /\ look \in [of : Rows \cup {0}, stage : {"none", "sent", "served"}, row : RowOrNone]
          /\ look.stage = "sent" => look.of \in Rows
      BY DEF Types, TypesOfDialogs
    <3>2. CASE look' = look
      BY <1>6, <2>a, <3>1, <3>2 DEF FreshInv, DialogsFresh, RowOrNone
    <3>3. CASE look' = NoLook
      BY <2>a, <3>3 DEF NoLook
    <3>4. ASSUME NEW r \in Rows, look' = [of |-> r, stage |-> "sent", row |-> None]
          PROVE  looked = None
      BY <2>a, <3>4
    <3>5. CASE look.stage = "sent" /\ look' = [look EXCEPT !.stage = "served",
                                !.row = IF Exists(look.of) THEN db[look.of] ELSE None]
      <4>1. look'.of = look.of /\ looked = IF Exists(look.of) THEN db[look.of] ELSE None
        BY <2>a, <3>1, <3>5
      <4>2. looked # None => looked.id = look.of /\ looked = db'[looked.id]
        BY <1>2, <3>1, <3>5, <4>1 DEF Types, TypesOfServer
      <4>3. QED BY <4>1, <4>2 DEF TextFresh
    <3>6. QED BY <1>1, <3>2, <3>3, <3>4, <3>5 DEF Moved
  <2>2. page = "jobs" /\ shown # None => TextFresh(shown)'
    <3>1. SUFFICES ASSUME page = "jobs", shown # None PROVE TextFresh(shown)'
      OBVIOUS
    <3>2. shown \in Items \cup {detail, look.row} /\ shown \in Row
      BY <1>1, <2>a, <3>1 DEF Moved, Types, TypesOfDialogs, RowOrNone
    <3>3. TextFresh(shown)
      BY <3>1, <3>2 DEF FreshInv, ItemsFresh, DialogsFresh
    <3>4. QED BY <1>6, <3>2, <3>3
  <2>3. confirm'.deed \in {"reject", "revoke"} => TextFresh(asked)'
    <3>1. CASE confirm' = confirm
      <4>1. confirm.deed \in {"reject", "revoke"} => confirm.row \in Row
        BY DEF Types, TypesOfDialogs, NoConfirm
      <4>2. QED BY <1>6, <2>a, <3>1, <4>1 DEF FreshInv, DialogsFresh
    <3>2. CASE confirm' = NoConfirm
      BY <3>2 DEF NoConfirm
    <3>3. ASSUME NEW deed \in Deeds, NEW row \in (Items \cup {detail}) \ {None},
                 confirm' = [row |-> row, deed |-> deed],
                 row \in Items \/ page = "jobs" \/ deed = "delete"
          PROVE  confirm'.deed \in {"reject", "revoke"} => TextFresh(asked)'
      <4>1. HAVE confirm'.deed \in {"reject", "revoke"}
      <4>2. row \in Items \/ (page = "jobs" /\ row = detail /\ detail # None)
        BY <3>3, <4>1
      <4>3. row \in Row /\ TextFresh(row)
        BY <1>3, <4>2 DEF FreshInv, ItemsFresh, DialogsFresh, Types, TypesOfDialogs, RowOrNone
      <4>4. QED BY <1>6, <2>a, <3>3, <4>3
    <3>4. QED BY <1>1, <3>1, <3>2, <3>3 DEF Moved
  <2>4. QED BY <1>2, <2>a, <2>1, <2>2, <2>3 DEF DialogsFresh, TextFresh, StoredAbout
<1>9. CallsFresh'
  BY <1>2, <1>3, <1>4 DEF FreshInv, CallsFresh, Row
<1>10. NotesPage'
  BY <1>1, <1>2 DEF FreshInv, NotesPage, Moved
<1>11. QED BY <1>7, <1>8, <1>9, <1>10 DEF FreshInv

\* A request of the list untidies the rows that calls are about.
LEMMA CallsFreshUnread ==
  ASSUME Types, Types', Tidied, calls' = calls, UNCHANGED db, Calm, Calm',
         req.stage # "none" \/ req'.stage # "none"
  PROVE  CallsFresh'
<1> SUFFICES ASSUME NEW c \in calls, c.row \in Row, tidy'[c.row.id] PROVE FALSE
  BY DEF CallsFresh
<1>1. c.row.id \in Rows
  BY DEF Row
<1>2. tidy[c.row.id]
  BY <1>1, TidyWas
<1>3. c \in About(c.row.id) /\ c \in About(c.row.id)'
  BY DEF About
<1>4. QED BY <1>1, <1>2, <1>3 DEF Calm

\* The answer of the list's request: what it brings lies behind what is there.
LEMMA FreshByPage ==
  ASSUME ListsAssumption, Types, Types', FreshInv, Tidied, ListAnswer
  PROVE  ItemsFresh' /\ Ordered' /\ Distinct' /\ RowsFresh'
<1>1. /\ req.stage = "served" /\ req' = NoReq /\ list'.cursor = req.next
      /\ list'.items = IF req.replace THEN req.rows ELSE list.items \o req.rows
      /\ UNCHANGED <<calls, db>>
  BY DEF ListAnswer, server
<1>2. /\ list.items \in Seq(Row) /\ req.rows \in Seq(Row) /\ Items \subseteq Row /\ PageRows \subseteq Row
      /\ req.next \in Rows \cup {0} /\ req.cursor \in Rows \cup {0} /\ Rows \subseteq Nat
  BY ShownTyped, CopiesTyped DEF Types, TypesOfHook, ListsAssumption
<1>a. \A k \in Rows \cup {0} : k \in Nat
  BY DEF ListsAssumption
<1>3. \A r \in Rows : tidy'[r] => tidy[r]
  BY TidyWas
<1>4. \A r : StoredAbout(r)' = StoredAbout(r)
  BY <1>1 DEF StoredAbout
<1>5. \A x \in Items : tidy[x.id] /\ ~req.replace => x.id >= req.cursor
  BY <1>1 DEF FreshInv, Ordered
<1>6. \A x \in PageRows : /\ tidy[x.id] => x = db[x.id]
                          /\ x.id >= req.next
                          /\ req.cursor # 0 => x.id < req.cursor
  BY <1>1 DEF FreshInv, RowsFresh
<1>7. ~req.replace => req.cursor # 0 /\ req.next < req.cursor
  BY <1>1 DEF FreshInv, RowsFresh
<1>8. Items' \subseteq Items \cup PageRows /\ (req.replace => Items' \subseteq PageRows)
  <2>1. HookStep
    BY DEF HookStep
  <2>2. req.replace => Items' = PageRows
    BY <1>1 DEF Items, PageRows
  <2>3. QED BY <2>1, <2>2, HookCopies
<1>9. ItemsFresh'
  <2> SUFFICES ASSUME NEW x \in Items' PROVE TextFresh(x)' /\ StatusFresh(x)'
    BY DEF ItemsFresh
  <2>1. x \in Row /\ x.id \in Rows
    BY <1>2, <1>8 DEF Row
  <2>2. CASE x \in Items
    <3>1. TextFresh(x) /\ StatusFresh(x)
      BY <2>2 DEF FreshInv, ItemsFresh
    <3>2. QED BY <1>1, <1>3, <1>4, <2>1, <3>1, FreshStays
  <2>3. CASE x \in PageRows
    <3>1. tidy'[x.id] => x = db'[x.id]
      BY <1>1, <1>3, <1>6, <2>1, <2>3
    <3>2. QED BY <3>1 DEF TextFresh, StatusFresh
  <2>4. QED BY <1>8, <2>2, <2>3
<1>10. Ordered'
  <2> SUFFICES ASSUME NEW x \in Items', tidy'[x.id] PROVE x.id >= list'.cursor
    BY <1>1 DEF Ordered, NoReq
  <2>1. x \in Row /\ x.id \in Rows /\ x.id \in Nat
    BY <1>2, <1>8 DEF Row
  <2>2. tidy[x.id]
    BY <1>3, <2>1
  <2>3. CASE x \in PageRows
    BY <1>1, <1>6, <2>3
  <2>4. CASE x \in Items /\ ~req.replace
    <3>1. x.id >= req.cursor /\ req.next < req.cursor
      BY <1>5, <1>7, <2>2, <2>4
    <3>2. req.next \in Nat /\ req.cursor \in Nat
      BY <1>a DEF Types, TypesOfHook
    <3>3. QED BY <1>1, <2>1, <3>1, <3>2
  <2>5. QED BY <1>8, <2>3, <2>4
<1>11. Distinct'
  <2>1. \A i, j \in DOMAIN req.rows : i # j => req.rows[i].id # req.rows[j].id
    BY <1>1 DEF FreshInv, RowsFresh
  <2>2. CASE req.replace
    BY <1>1, <2>1, <2>2 DEF Distinct
  <2>3. CASE ~req.replace
    <3> SUFFICES ASSUME NEW i \in DOMAIN list'.items, NEW j \in DOMAIN list'.items, i # j,
                        list'.items[i].id = list'.items[j].id, tidy'[list'.items[i].id]
                 PROVE  FALSE
      BY DEF Distinct
    <3> DEFINE n == Len(list.items)
    <3>a. list.items \in Seq(Row) /\ req.rows \in Seq(Row)
      BY DEF Types, TypesOfHook
    <3>b. list'.items = list.items \o req.rows
      BY <1>1, <2>3
    <3>1. n \in Nat /\ i \in Nat /\ j \in Nat
      BY <3>a, <3>b
    <3>2. \A k \in DOMAIN list'.items :
            \/ k \in DOMAIN list.items /\ list'.items[k] = list.items[k]
            \/ k - n \in DOMAIN req.rows /\ list'.items[k] = req.rows[k - n]
      <4> SUFFICES ASSUME NEW k \in DOMAIN (list.items \o req.rows)
                   PROVE  \/ k \in DOMAIN list.items /\ (list.items \o req.rows)[k] = list.items[k]
                          \/ /\ k - n \in DOMAIN req.rows
                             /\ (list.items \o req.rows)[k] = req.rows[k - n]
        BY <3>b
      <4>1. QED BY ONLY <3>a, AppendedAt
    <3>3. \A k \in DOMAIN list.items : list.items[k] \in Items
      BY DEF Items
    <3>4. \A k \in DOMAIN req.rows : req.rows[k] \in PageRows
      BY DEF PageRows
    <3>5. \A x \in Items, y \in PageRows : tidy'[x.id] => x.id # y.id
      <4> SUFFICES ASSUME NEW x \in Items, NEW y \in PageRows, tidy'[x.id], x.id = y.id PROVE FALSE
        OBVIOUS
      <4>1. x.id \in Rows
        BY <1>2 DEF Row
      <4>2. x.id >= req.cursor /\ y.id < req.cursor
        BY <1>3, <1>5, <1>6, <1>7, <2>3, <4>1
      <4>3. req.cursor \in Nat /\ x.id \in Nat
        BY <1>a, <4>1 DEF Types, TypesOfHook
      <4>4. QED BY <4>2, <4>3
    <3>6. CASE list'.items[i] \in Items /\ i \in DOMAIN list.items /\ list'.items[i] = list.items[i]
      <4>1. CASE j \in DOMAIN list.items /\ list'.items[j] = list.items[j]
        <5>1. tidy[list.items[i].id]
          BY <1>2, <1>3, <3>6 DEF Row
        <5>2. QED BY <3>6, <4>1, <5>1 DEF FreshInv, Distinct
      <4>2. CASE j - n \in DOMAIN req.rows /\ list'.items[j] = req.rows[j - n]
        BY <3>4, <3>5, <3>6, <4>2
      <4>3. QED BY <3>2, <4>1, <4>2
    <3>7. CASE i - n \in DOMAIN req.rows /\ list'.items[i] = req.rows[i - n]
      <4>1. CASE j \in DOMAIN list.items /\ list'.items[j] = list.items[j]
        BY <3>3, <3>4, <3>5, <3>7, <4>1
      <4>2. CASE j - n \in DOMAIN req.rows /\ list'.items[j] = req.rows[j - n]
        <5>1. i - n # j - n
          BY <3>1
        <5>2. QED BY <2>1, <3>7, <4>2, <5>1
      <4>3. QED BY <3>2, <4>1, <4>2
    <3>8. QED BY <3>2, <3>3, <3>6, <3>7
  <2>4. QED BY <2>2, <2>3
<1>12. RowsFresh'
  BY <1>1 DEF RowsFresh, NoReq
<1>13. QED BY <1>9, <1>10, <1>11, <1>12

\* What the server answers the list's request with.
LEMMA FreshByServe ==
  ASSUME ListsAssumption, Types, Types', FreshInv, Tidied, ServeList
  PROVE  RowsFresh' /\ req'.cursor = req.cursor /\ req'.replace = req.replace /\ req.stage = "sent"
<1>1. PICK p \in PageOf(req.filter, req.cursor), n \in Nat :
           /\ p \in [1 .. n -> Listed(req.filter, req.cursor)]
           /\ \A i, j \in 1 .. n : i < j => p[i] > p[j]
           /\ req' = [req EXCEPT !.stage = "served", !.rows = [i \in 1 .. n |-> db[p[i]]],
                                 !.next = NextCursor(req.filter, req.cursor, p)]
           /\ NextCursor(req.filter, req.cursor, p) # 0 =>
                n > 0 /\ NextCursor(req.filter, req.cursor, p) = p[n]
  BY ServeTyped
<1>2. /\ req \in [stage : {"none", "sent", "served"}, replace : BOOLEAN, cursor : Rows \cup {0},
                  filter : Filters(page), rows : Seq(Row), next : Rows \cup {0}]
      /\ Rows \subseteq Nat \ {0} /\ (\A r \in Rows : db[r].id = r) /\ req.stage = "sent" /\ db' = db
  BY DEF Types, TypesOfHook, TypesOfServer, ListsAssumption, ServeList, server
<1>3. /\ req'.rows = [i \in 1 .. n |-> db[p[i]]] /\ req'.cursor = req.cursor
      /\ req'.replace = req.replace /\ req'.stage = "served"
      /\ req'.next = NextCursor(req.filter, req.cursor, p)
  BY <1>1, <1>2
<1>4. \A i \in 1 .. n : /\ p[i] \in Rows /\ p[i] \in Nat \ {0}
                        /\ req.cursor # 0 => p[i] < req.cursor
  BY <1>1, <1>2 DEF Listed
<1>5. req'.next = 0 \/ (n \in 1 .. n /\ req'.next = p[n])
  BY <1>1, <1>3
<1>6. ASSUME NEW i \in 1 .. n
      PROVE  /\ db[p[i]] = db'[db[p[i]].id]
             /\ db[p[i]].id >= req'.next
             /\ req'.cursor # 0 => db[p[i]].id < req'.cursor
  <2>1. db[p[i]].id = p[i] /\ p[i] \in Nat
    BY <1>2, <1>4
  <2>2. p[i] >= req'.next
    <3>1. CASE req'.next = 0
      BY <2>1, <3>1
    <3>2. CASE n \in 1 .. n /\ req'.next = p[n]
      <4>1. i = n \/ i < n
        OBVIOUS
      <4>2. QED BY <1>1, <1>4, <3>2, <4>1
    <3>3. QED BY <1>5, <3>1, <3>2
  <2>3. QED BY <1>2, <1>3, <1>4, <2>1, <2>2
<1>7. \A x \in PageRows' : /\ x = db'[x.id]
                           /\ x.id >= req'.next
                           /\ req'.cursor # 0 => x.id < req'.cursor
  BY <1>3, <1>6 DEF PageRows
<1>8. req'.cursor # 0 => req'.next < req'.cursor
  <2>1. HAVE req'.cursor # 0
  <2>2. req'.cursor \in Nat \ {0}
    BY <1>2, <1>3, <2>1
  <2>3. QED BY <1>3, <1>4, <1>5, <2>1, <2>2
<1>9. \A i, j \in DOMAIN req'.rows : i # j => req'.rows[i].id # req'.rows[j].id
  <2> SUFFICES ASSUME NEW i \in 1 .. n, NEW j \in 1 .. n, i # j PROVE db[p[i]].id # db[p[j]].id
    BY <1>3
  <2>1. i < j \/ j < i
    OBVIOUS
  <2>2. p[i] # p[j]
    BY <1>1, <1>4, <2>1
  <2>3. QED BY <1>2, <1>4, <2>2
<1>10. ~req'.replace => req'.cursor # 0
  BY <1>2, <1>3 DEF FreshInv, RowsFresh
<1>11. QED BY <1>2, <1>3, <1>7, <1>8, <1>9, <1>10 DEF RowsFresh

\* A list that starts over is empty.
LEMMA FreshByRestart ==
  ASSUME ListsAssumption, Types, FreshInv, Restarted
  PROVE  ItemsFresh' /\ Ordered' /\ Distinct' /\ (db' = db /\ Tidied => RowsFresh')
<1>1. Items' = {} /\ list'.items = <<>>
  BY DEF Restarted, Items
<1>2. ASSUME db' = db, Tidied PROVE RowsFresh'
  <2>1. CASE req.stage # "none"
    <3>1. req' = req /\ PageRows' = PageRows /\ PageRows \subseteq Row
      BY <2>1, CopiesTyped DEF Restarted, PageRows
    <3>2. \A x \in PageRows : tidy'[x.id] => tidy[x.id]
      BY <1>2, <3>1, TidyWas DEF Row
    <3>3. QED BY <1>2, <3>1, <3>2 DEF FreshInv, RowsFresh
  <2>2. CASE req.stage = "none"
    BY <2>2 DEF Restarted, RowsFresh
  <2>3. QED BY <2>1, <2>2
<1>3. QED BY <1>1, <1>2 DEF ItemsFresh, Ordered, Distinct

\* The dialogs and the items stay as fresh while nothing happens to them and the rows.
LEMMA CopiesStay ==
  ASSUME ListsAssumption, Types, FreshInv, UNCHANGED <<page, dialogs>>,
         \A r \in Rows : tidy'[r] => /\ tidy[r] /\ db'[r] = db[r]
                                     /\ StoredAbout(r)' = StoredAbout(r)
  PROVE  DialogsFresh' /\ (Items' = Items => ItemsFresh')
<1>1. ASSUME NEW x \in Row PROVE (TextFresh(x) => TextFresh(x)') /\ (StatusFresh(x) => StatusFresh(x)')
  BY FreshStays DEF Row
<1>2. DialogsFresh'
  <2>a. PICK looked, shown, asked : looked = look.row /\ shown = detail /\ asked = confirm.row
    OBVIOUS
  <2>b. looked = look'.row /\ shown = detail' /\ asked = confirm'.row /\ page' = page
    BY <2>a DEF dialogs
  <2>1. /\ look.row # None => look.row \in Row
        /\ detail # None => detail \in Row
        /\ confirm.deed \in {"reject", "revoke"} => confirm.row \in Row
    BY DEF Types, TypesOfDialogs, NoConfirm, RowOrNone
  <2>2. /\ looked # None => looked.id = look.of /\ TextFresh(looked)'
        /\ page = "jobs" /\ shown # None => TextFresh(shown)'
        /\ confirm.deed \in {"reject", "revoke"} => TextFresh(asked)'
    BY <1>1, <2>a, <2>1 DEF FreshInv, DialogsFresh
  <2>3. QED BY <2>b, <2>2 DEF DialogsFresh, TextFresh, StoredAbout, dialogs
<1>3. Items' = Items => ItemsFresh'
  BY <1>1, ShownTyped DEF FreshInv, ItemsFresh
<1>4. QED BY <1>2, <1>3

\* The order of the items, with the same list and request and no row tidier.
LEMMA OrderStays ==
  ASSUME Types, FreshInv, UNCHANGED <<list, req>>, \A r \in Rows : tidy'[r] => tidy[r]
  PROVE  Ordered' /\ Distinct'
<1>1. Items' = Items /\ Items \subseteq Row /\ \A i \in DOMAIN list.items : list.items[i] \in Items
  BY ShownTyped DEF Items
<1>2. Ordered'
  BY <1>1 DEF FreshInv, Ordered, Row
<1>3. Distinct'
  BY <1>1 DEF FreshInv, Distinct, Row
<1>4. QED BY <1>2, <1>3

\* Loading pages keeps the copies of tidy rows up to date.
LEMMA FreshByHook ==
  ASSUME ListsAssumption, Types, Types', Calm, Calm', FreshInv, HookStep
  PROVE  FreshInv'
<1>1. UNCHANGED <<page, dialogs, calls, db>> /\ Tidied
  BY DEF HookStep, ServeList, ListAnswer, ListFail, Scroll, Retry, SetFilter, server
<1>2. \A r \in Rows : tidy'[r] => tidy[r]
  BY <1>1, TidyWas
<1>3. \A r : StoredAbout(r)' = StoredAbout(r)
  BY <1>1 DEF StoredAbout
<1>4. DialogsFresh' /\ (Items' = Items => ItemsFresh')
  BY <1>1, <1>2, <1>3, CopiesStay
<1>5. NotesPage'
  BY <1>1 DEF FreshInv, NotesPage, dialogs
<1>6. ASSUME Reset, filter' \in Filters(page)
      PROVE  ItemsFresh' /\ Ordered' /\ Distinct' /\ RowsFresh' /\ CallsFresh'
  <2>1. Restarted
    BY <1>1, <1>6, ResetRestarts
  <2>2. req.stage # "none" \/ req'.stage # "none"
    BY <2>1 DEF Restarted
  <2>3. QED BY <1>1, <2>1, <2>2, FreshByRestart, CallsFreshUnread
<1>7. CASE ServeList
  <2>1. RowsFresh' /\ req'.cursor = req.cursor /\ req'.replace = req.replace /\ req.stage = "sent"
    BY <1>1, <1>7, FreshByServe
  <2>2. list' = list /\ Items' = Items /\ Items \subseteq Row
    BY <1>7, ShownTyped DEF ServeList, Items
  <2>3. Ordered'
    BY <1>2, <2>1, <2>2 DEF FreshInv, Ordered, Row
  <2>4. Distinct'
    <3>1. \A i \in DOMAIN list.items : list.items[i].id \in Rows
      BY <2>2 DEF Items, Row
    <3>2. QED BY <1>2, <2>2, <3>1 DEF FreshInv, Distinct
  <2>5. CallsFresh'
    BY <1>1, <2>1, CallsFreshUnread
  <2>6. QED BY <1>4, <1>5, <2>1, <2>2, <2>3, <2>4, <2>5 DEF FreshInv
<1>8. CASE ListAnswer
  <2>1. req.stage = "served"
    BY <1>8 DEF ListAnswer
  <2>2. CallsFresh'
    BY <1>1, <2>1, CallsFreshUnread
  <2>3. QED BY <1>1, <1>4, <1>5, <1>8, <2>2, FreshByPage DEF FreshInv
<1>9. CASE ListFail
  <2>1. req.stage = "sent" /\ req' = NoReq /\ list'.items = list.items /\ list'.cursor = list.cursor
    BY <1>9 DEF ListFail, Types, TypesOfHook
  <2>2. CallsFresh'
    BY <1>1, <2>1, CallsFreshUnread
  <2>3. Items' = Items /\ Items \subseteq Row /\ \A i \in DOMAIN list.items : list.items[i].id \in Rows
    BY <2>1, ShownTyped DEF Items, Row
  <2>4. Ordered'
    BY <1>2, <2>1, <2>3 DEF FreshInv, Ordered, Row, NoReq
  <2>5. Distinct'
    BY <1>2, <2>1, <2>3 DEF FreshInv, Distinct
  <2>6. RowsFresh'
    BY <2>1 DEF RowsFresh, NoReq
  <2>7. QED BY <1>4, <1>5, <2>2, <2>3, <2>4, <2>5, <2>6 DEF FreshInv
<1>10. CASE Scroll
  <2>1. Continued
    BY <1>10, ScrollContinues
  <2>2. CallsFresh'
    BY <1>1, <2>1, CallsFreshUnread DEF Continued
  <2>3. Items' = Items /\ Items \subseteq Row /\ \A i \in DOMAIN list.items : list.items[i].id \in Rows
    BY <2>1, ShownTyped DEF Continued, Items, Row
  <2>4. Ordered'
    BY <1>2, <2>1, <2>3 DEF Continued, FreshInv, Ordered, Row
  <2>5. Distinct'
    BY <1>2, <2>1, <2>3 DEF Continued, FreshInv, Distinct
  <2>6. RowsFresh'
    BY <2>1 DEF Continued, RowsFresh
  <2>7. QED BY <1>4, <1>5, <2>2, <2>3, <2>4, <2>5, <2>6 DEF FreshInv
<1>11. CASE Retry
  BY <1>4, <1>5, <1>6, <1>11 DEF Retry, FreshInv, Types, TypesOfHook
<1>12. ASSUME NEW f \in Filters(page), SetFilter(f) PROVE FreshInv'
  BY <1>4, <1>5, <1>6, <1>12 DEF SetFilter, FreshInv
<1>13. QED BY <1>7, <1>8, <1>9, <1>10, <1>11, <1>12 DEF HookStep

\* A page begun anew has no copies.
LEMMA FreshByLeaving ==
  ASSUME ListsAssumption, Types, Types', Calm', FreshInv, NEW kept, StartAfresh(kept)
  PROVE  FreshInv'
<1>1. /\ list'.items = <<>> /\ req'.stage = "sent" /\ req'.replace /\ page' = page
      /\ look' = NoLook /\ detail' = None /\ confirm' = NoConfirm /\ notesOf' = None
      /\ calls' = {[c EXCEPT !.live = @ /\ c.act \in kept] : c \in calls}
  BY DEF StartAfresh, Mounted, InitialState, NoReq
<1>2. Items' = {}
  BY <1>1 DEF Items
<1>3. CallsFresh'
  <2> SUFFICES ASSUME NEW c \in calls', c.row \in Row, tidy'[c.row.id] PROVE FALSE
    BY DEF CallsFresh
  <2>1. c.row.id \in Rows /\ c \in About(c.row.id)'
    BY DEF Row, About
  <2>2. QED BY <1>1, <2>1 DEF Calm
<1>4. NotesPage'
  <2>1. \A d \in calls' : \E c \in calls : d.act = c.act
    BY <1>1 DEF Types, TypesOfCalls, Call
  <2>2. QED BY <1>1, <2>1 DEF FreshInv, NotesPage
<1>5. ItemsFresh' /\ Ordered' /\ Distinct' /\ RowsFresh'
  BY <1>1, <1>2 DEF ItemsFresh, Ordered, Distinct, RowsFresh
<1>6. DialogsFresh'
  BY <1>1 DEF DialogsFresh, NoLook, NoConfirm
<1>7. QED BY <1>3, <1>4, <1>5, <1>6 DEF FreshInv

\* Sending a call about a tidy row changes no copy.
LEMMA FreshBySend ==
  ASSUME ListsAssumption, Types, Types', Calm', FreshInv, SendStep
  PROVE  FreshInv'
<1>1. Sending /\ Tidied
  BY SendSends DEF Sending
<1>2. UNCHANGED <<page, list, req, db>> /\ Items' = Items /\ PageRows' = PageRows /\ Items \subseteq Row
      /\ PageRows \subseteq Row
  BY <1>1, SendCopies, ShownTyped, CopiesTyped DEF Sending, hook, server
<1>3. \A r \in Rows : tidy'[r] => tidy[r]
  BY <1>1, TidyWas
<1>4. PICK act, row : /\ Sent(act, row) /\ (act # "create" => row \in Row)
                      /\ act \in {"approve", "delete", "reject", "revoke", "resend", "save", "notes", "create"}
                      /\ calls' = calls \cup {NewCall(act, row)}
  BY <1>1 DEF Sending
<1>5. \A r : StoredAbout(r)' = StoredAbout(r)
  BY <1>4 DEF StoredAbout, NewCall
<1>6. Ordered' /\ Distinct' /\ RowsFresh'
  <2>1. RowsFresh'
    BY <1>2, <1>3 DEF FreshInv, RowsFresh, Row
  <2>2. QED BY <1>2, <1>3, <2>1, OrderStays
<1>7. ItemsFresh'
  BY <1>2, <1>3, <1>5, FreshStays DEF FreshInv, ItemsFresh, Row
<1>8. DialogsFresh'
  <2>1. CASE UNCHANGED dialogs
    BY <1>2, <1>3, <1>5, <2>1, CopiesStay
  <2>2. CASE JobLeft
    <3>a. PICK asked : asked = confirm.row
      OBVIOUS
    <3>1. confirm.deed \in {"reject", "revoke"} => asked \in Row /\ TextFresh(asked)
      BY <3>a DEF FreshInv, DialogsFresh, Types, TypesOfDialogs, NoConfirm
    <3>2. confirm.deed \in {"reject", "revoke"} => TextFresh(asked)'
      BY <1>2, <1>3, <1>5, <3>1, FreshStays DEF Row
    <3>3. look' = NoLook /\ detail' = None /\ confirm' = confirm
      BY <2>2 DEF JobLeft
    <3>4. QED BY <3>a, <3>2, <3>3 DEF DialogsFresh, TextFresh, StoredAbout, NoLook
  <2>3. QED BY <1>1, <2>1, <2>2 DEF Sending
<1>9. CallsFresh'
  <2> SUFFICES ASSUME NEW c \in calls', c.row \in Row, tidy'[c.row.id]
               PROVE  /\ c.act \in {"reject", "revoke"} /\ c.state = "sent" =>
                           c.row.text = db[c.row.id].text
                      /\ c.state = "stored" =>
                           /\ c.row = db[c.row.id]
                           /\ c.act = "create" =>
                                c.row.id > list.cursor /\ \A x \in Items : x.id # c.row.id
    BY <1>2 DEF CallsFresh
  <2>1. c.row.id \in Rows /\ tidy[c.row.id]
    BY <1>3 DEF Row
  <2>2. CASE c \in calls
    BY <2>1, <2>2 DEF FreshInv, CallsFresh
  <2>3. CASE c = NewCall(act, row)
    <3>1. c.state = "sent" /\ c.act = act /\ c.row = row
      BY <2>3 DEF NewCall
    <3>2. SUFFICES ASSUME act \in {"reject", "revoke"} PROVE row.text = db[row.id].text
      BY <3>1
    <3>3. row = confirm.row /\ confirm.deed = act
      BY <1>4, <3>2 DEF Sent
    <3>4. StoredAbout(row.id) = {}
      <4>1. c \in About(row.id)'
        BY <3>1 DEF About
      <4>2. \A d \in About(row.id)' : d = c
        BY <2>1, <3>1, <4>1 DEF Calm
      <4>3. \A d \in StoredAbout(row.id) : d \in About(row.id)'
        BY <1>4 DEF About, StoredAbout
      <4>4. QED BY <3>1, <4>2, <4>3 DEF StoredAbout
    <3>5. TextFresh(row)
      BY <3>2, <3>3 DEF FreshInv, DialogsFresh
    <3>6. QED BY <2>1, <3>1, <3>4, <3>5 DEF TextFresh
  <2>4. QED BY <1>4, <2>2, <2>3
<1>10. NotesPage'
  <2>1. act = "notes" => notesOf # None
    BY <1>4 DEF Sent, Types, TypesOfDialogs, Deeds
  <2>2. \A c \in calls' : c.act = "notes" => (c \in calls \/ act = "notes")
    BY <1>4 DEF NewCall
  <2>3. notesOf' = notesOf
    BY <1>1 DEF Sending, dialogs, JobLeft
  <2>4. QED BY <1>2, <2>1, <2>2, <2>3 DEF FreshInv, NotesPage
<1>11. QED BY <1>6, <1>7, <1>8, <1>9, <1>10 DEF FreshInv

\* A call the server refuses changes no row.
LEMMA FreshByFailure ==
  ASSUME ListsAssumption, Types, Types', FreshInv, NEW c \in calls, c.state \in {"sent", "stored"},
         Fails(c), Tidied
  PROVE  FreshInv'
<1>1. /\ UNCHANGED <<page, list, req, dialogs, db>>
      /\ calls' = (calls \ {c}) \cup {[c EXCEPT !.state = "failed"]}
  BY DEF Fails, hook, server
<1>2. PICK d : d = [c EXCEPT !.state = "failed"]
  OBVIOUS
<1>3. /\ c \in Call /\ d.row = c.row /\ d.act = c.act /\ d.state = "failed" /\ d.n = c.n
      /\ calls' = (calls \ {c}) \cup {d}
  BY <1>1, <1>2 DEF Types, TypesOfCalls, Call
<1>4. \A r \in Rows : tidy'[r] => tidy[r]
  BY TidyWas
<1>5. ASSUME NEW r \in Rows, tidy'[r] PROVE StoredAbout(r)' = StoredAbout(r)
  <2>1. ~(c.row.id = r /\ c.state = "stored")
    BY <1>3, <1>5, TidyWas DEF Disturbed
  <2>2. c \notin StoredAbout(r) /\ d \notin StoredAbout(r)'
    BY <1>3, <2>1 DEF StoredAbout
  <2>3. QED BY <1>3, <2>2 DEF StoredAbout
<1>6. DialogsFresh' /\ ItemsFresh' /\ Ordered' /\ Distinct' /\ Items' = Items
  BY <1>1, <1>4, <1>5, CopiesStay, OrderStays DEF Items
<1>7. RowsFresh'
  <2>1. PageRows' = PageRows /\ \A x \in PageRows : x.id \in Rows
    BY <1>1, CopiesTyped DEF PageRows, Row
  <2>2. QED BY <1>1, <1>4, <2>1 DEF FreshInv, RowsFresh
<1>8. CallsFresh'
  <2> SUFFICES ASSUME NEW e \in calls', e.row \in Row, tidy'[e.row.id]
               PROVE  /\ e.act \in {"reject", "revoke"} /\ e.state = "sent" =>
                           e.row.text = db[e.row.id].text
                      /\ e.state = "stored" =>
                           /\ e.row = db[e.row.id]
                           /\ e.act = "create" =>
                                e.row.id > list.cursor /\ \A x \in Items : x.id # e.row.id
    BY <1>1, <1>6 DEF CallsFresh
  <2>1. e = d \/ (e \in calls /\ tidy[e.row.id])
    BY <1>3, <1>4 DEF Row
  <2>2. QED BY <1>3, <2>1 DEF FreshInv, CallsFresh
<1>9. NotesPage'
  BY <1>1, <1>3 DEF FreshInv, NotesPage, dialogs
<1>10. QED BY <1>6, <1>7, <1>8, <1>9 DEF FreshInv

\* After a calm step a call is alone with its row.
LEMMA CalmAlone ==
  ASSUME Calm', NEW r \in Rows, tidy'[r], NEW c \in About(r)'
  PROVE  req'.stage = "none" /\ \A d \in About(r)' : d = c
BY DEF Calm

\* A stored call meets nothing but copies that are as old as the row it changes.
LEMMA FreshByStore ==
  ASSUME ListsAssumption, Types, Types', Calm, Calm', BornInv, FreshInv, NEW c \in calls,
         Stores(c), Tidied
  PROVE  FreshInv'
<1>a. PICK row : row = Stored(c)
  OBVIOUS
<1>b. PICK known : known = Known(c, row)
  OBVIOUS
<1>c. PICK after : after = [c EXCEPT !.state = "stored", !.row = known]
  OBVIOUS
<1>1. IF c.act = "create" THEN Inserted(row) ELSE Altered(c, row)
  BY <1>a, StoredRow DEF Stores
<1>2. /\ c \in Call /\ c.state = "sent" /\ row \in Row /\ row.id \in Rows
      /\ c.act = "create" => c.row.id # row.id
  <2>1. c \in Call /\ c.state = "sent" /\ row \in Row /\ row.id \in Rows
    BY <1>1 DEF Stores, Inserted, Altered, Row, Types, TypesOfCalls
  <2>2. ASSUME c.act = "create", c.row.id = row.id PROVE FALSE
    <3>1. db[row.id].status = "ABSENT"
      BY <1>1, <2>2 DEF Inserted, NextRow
    <3>2. c.row = None
      BY <2>2, <3>1 DEF BornInv, BornCalls, Born
    <3>3. QED BY <2>1, <2>2, <3>2 DEF None, ListsAssumption
  <2>3. QED BY <2>1, <2>2
<1>3. /\ UNCHANGED <<page, list, req, dialogs>>
      /\ calls' = (calls \ {c}) \cup {after}
      /\ db' = [db EXCEPT ![row.id] = row] /\ db \in [Rows -> Row] /\ \A r \in Rows : db[r].id = r
  BY <1>a, <1>b, <1>c DEF Stores, hook, Types, TypesOfServer
<1>4. /\ after.row = known /\ after.act = c.act /\ after.state = "stored" /\ after \in calls'
      /\ known \in Row /\ known.id = row.id
  <2>1. after.row = known /\ after.act = c.act /\ after.state = "stored" /\ after \in calls'
    BY <1>2, <1>3, <1>c DEF Call
  <2>2. known.id = row.id
    BY <1>b, <1>1, <1>2 DEF Known, Altered, Row
  <2>3. QED BY <2>1, <2>2 DEF Types, TypesOfCalls
<1>5. \A r \in Rows : tidy'[r] => tidy[r]
  BY TidyWas
<1>6. ASSUME NEW r \in Rows, r # row.id PROVE StoredAbout(r)' = StoredAbout(r) /\ db'[r] = db[r]
  BY <1>2, <1>3, <1>4, <1>6 DEF StoredAbout
<1>7. tidy'[row.id] => /\ \A d \in About(row.id)' : d = after
                       /\ req.stage = "none" /\ StoredAbout(row.id)' = {after}
  <2>1. HAVE tidy'[row.id]
  <2>2. after \in About(row.id)'
    BY <1>4 DEF About
  <2>3. \A d \in About(row.id)' : d = after
    BY <1>2, <2>1, <2>2, CalmAlone
  <2>4. req'.stage = "none"
    BY <1>2, <2>1, <2>2, CalmAlone
  <2>5. StoredAbout(row.id)' = {after}
    BY <1>4, <2>2, <2>3 DEF StoredAbout, About
  <2>6. QED BY <1>3, <2>3, <2>4, <2>5
<1>8. tidy'[row.id] /\ c.act # "create" => StoredAbout(row.id) = {}
  <2>1. HAVE tidy'[row.id] /\ c.act # "create"
  <2>2. c \in About(row.id) /\ tidy[row.id]
    BY <1>1, <1>2, <1>5, <2>1 DEF About, Altered
  <2>3. \A d \in About(row.id) : d = c
    BY <1>2, <2>2 DEF Calm
  <2>4. QED BY <1>2, <2>3 DEF StoredAbout, About
<1>9. ASSUME NEW x \in Row, Born(x)
      PROVE  (TextFresh(x) => TextFresh(x)') /\ (StatusFresh(x) => StatusFresh(x)')
  <2>1. x.id \in Rows /\ x # None
    BY <1>9, NoneIsNoRow DEF Row
  <2>2. CASE x.id # row.id
    BY <1>5, <1>6, <2>1, <2>2, FreshStays
  <2>3. CASE x.id = row.id /\ c.act = "create"
    BY <1>1, <1>9, <2>1, <2>3 DEF Born, Inserted, NextRow
  <2>4. CASE x.id = row.id /\ c.act # "create"
    <3>1. db'[row.id] = row /\ Altered(c, row)
      BY <1>1, <1>2, <1>3, <2>4
    <3>2. ASSUME TextFresh(x), tidy'[x.id], \A d \in StoredAbout(x.id)' : d.act \notin {"save", "notes"}
          PROVE  x.text = db'[x.id].text
      <4>1. c.act \notin {"save", "notes"}
        BY <1>4, <1>7, <2>4, <3>2
      <4>2. x.text = db[x.id].text
        BY <1>2, <1>5, <1>8, <2>4, <3>2 DEF TextFresh
      <4>3. QED BY <2>4, <3>1, <4>1, <4>2 DEF Altered
    <3>3. ASSUME StatusFresh(x), tidy'[x.id], \A d \in StoredAbout(x.id)' : d.act = "notes"
          PROVE  x.status = db'[x.id].status
      <4>1. c.act = "notes"
        BY <1>4, <1>7, <2>4, <3>3
      <4>2. x.status = db[x.id].status
        BY <1>2, <1>5, <1>8, <2>4, <3>3 DEF StatusFresh
      <4>3. QED BY <2>4, <3>1, <4>1, <4>2 DEF Altered
    <3>4. QED BY <3>2, <3>3 DEF TextFresh, StatusFresh
  <2>5. QED BY <2>2, <2>3, <2>4
<1>10. Items' = Items /\ PageRows' = PageRows /\ Items \subseteq Row /\ PageRows \subseteq Row
       /\ \A x \in Items : Born(x)
  BY <1>3, ShownTyped, CopiesTyped DEF Items, PageRows, BornInv, BornPage, Copies
<1>11. ItemsFresh'
  BY <1>9, <1>10 DEF FreshInv, ItemsFresh
<1>12. Ordered' /\ Distinct'
  BY <1>3, <1>5, OrderStays
<1>13. RowsFresh'
  <2>1. \A x \in PageRows : tidy'[x.id] /\ req.stage = "served" => x.id # row.id /\ tidy[x.id] /\ x.id \in Rows
    BY <1>5, <1>7, <1>10 DEF Row
  <2>2. QED BY <1>3, <1>6, <1>10, <2>1 DEF FreshInv, RowsFresh
<1>14. DialogsFresh'
  <2>a. PICK looked, shown, asked : looked = look.row /\ shown = detail /\ asked = confirm.row
    OBVIOUS
  <2>b. looked = look'.row /\ shown = detail' /\ asked = confirm'.row /\ UNCHANGED <<page, look, confirm>>
    BY <1>3, <2>a DEF dialogs
  <2>1. /\ looked # None => looked \in Row
        /\ shown # None => shown \in Row
        /\ confirm.deed \in {"reject", "revoke"} => asked \in Row
        /\ Born(looked) /\ Born(shown) /\ Born(asked)
    BY <2>a DEF Types, TypesOfDialogs, NoConfirm, RowOrNone, BornInv, BornPage, Copies
  <2>2. /\ looked # None => looked.id = look.of /\ TextFresh(looked)'
        /\ page = "jobs" /\ shown # None => TextFresh(shown)'
        /\ confirm.deed \in {"reject", "revoke"} => TextFresh(asked)'
    BY <1>9, <2>a, <2>1 DEF FreshInv, DialogsFresh
  <2>3. QED BY <2>b, <2>2 DEF DialogsFresh, TextFresh, StoredAbout
<1>15. CallsFresh'
  <2> SUFFICES ASSUME NEW e \in calls', e.row \in Row, tidy'[e.row.id]
               PROVE  /\ e.act \in {"reject", "revoke"} /\ e.state = "sent" =>
                           e.row.text = db'[e.row.id].text
                      /\ e.state = "stored" =>
                           /\ e.row = db'[e.row.id]
                           /\ e.act = "create" =>
                                e.row.id > list.cursor /\ \A x \in Items : x.id # e.row.id
    BY <1>3, <1>10 DEF CallsFresh
  <2>1. e.row.id \in Rows /\ tidy[e.row.id]
    BY <1>5 DEF Row
  <2>2. CASE e # after
    <3>1. e \in calls /\ e.row.id # row.id
      BY <1>3, <1>7, <2>2 DEF About
    <3>2. QED BY <1>6, <2>1, <3>1 DEF FreshInv, CallsFresh
  <2>3. CASE e = after
    <3>1. db'[e.row.id] = row /\ tidy'[row.id]
      BY <1>2, <1>3, <1>4, <2>3
    <3>2. known = row
      <4>1. CASE c.act \in {"reject", "revoke"}
        <5>1. Altered(c, row) /\ c.row.id = row.id /\ c.row \in Row
          BY <1>1, <4>1 DEF Altered
        <5>2. c.row.text = db[row.id].text
          BY <1>2, <1>5, <3>1, <4>1, <5>1 DEF FreshInv, CallsFresh
        <5>3. row.text = c.row.text
          BY <4>1, <5>1, <5>2 DEF Altered
        <5>4. known.id = row.id /\ known.status = row.status /\ known.text = row.text
          BY <1>b, <4>1, <5>1, <5>3 DEF Known, Row
        <5>5. QED BY <1>2, <1>4, <5>4 DEF Row
      <4>2. CASE c.act \notin {"reject", "revoke"}
        BY <1>b, <4>2 DEF Known
      <4>3. QED BY <4>1, <4>2
    <3>3. ASSUME c.act = "create" PROVE row.id > list.cursor /\ \A x \in Items : x.id # row.id
      <4>1. db[row.id].status = "ABSENT"
        BY <1>1, <3>3 DEF Inserted, NextRow
      <4>2. \A x \in Items : x.id # row.id
        BY <1>10, <4>1, NoneIsNoRow DEF Born
      <4>a. list.cursor \in Rows \cup {0}
        BY DEF Types, TypesOfHook
      <4>b. \A k \in Rows : k \in Nat /\ k > 0
        BY RowsAreNumbers
      <4>c. row.id \in Nat /\ row.id > 0
        BY <1>2, <4>b
      <4>d. list.cursor \in Nat
        BY ONLY <4>a, <4>b
      <4>3. list.cursor \in Rows \cup {0} /\ row.id \in Nat /\ row.id > 0 /\ list.cursor \in Nat
        BY <4>a, <4>c, <4>d
      <4>4. CASE list.cursor = 0
        BY <4>2, <4>3, <4>4
      <4>5. CASE list.cursor # 0
        <5>1. db[list.cursor].status # "ABSENT" /\ list.cursor \in Rows
          BY <4>3, <4>5 DEF BornInv, BornPage, Cursors
        <5>2. ~(row.id < list.cursor) /\ row.id # list.cursor
          BY <1>2, <4>1, <5>1 DEF BornInv, InOrder
        <5>3. QED BY <4>2, <4>3, <5>2
      <4>6. QED BY <4>4, <4>5
    <3>4. QED BY <1>4, <2>3, <3>1, <3>2, <3>3
  <2>4. QED BY <2>2, <2>3
<1>16. NotesPage'
  BY <1>3, <1>4 DEF FreshInv, NotesPage, dialogs
<1>17. QED BY <1>11, <1>12, <1>13, <1>14, <1>15, <1>16 DEF FreshInv

\* Where the items after an answer come from: each is an item that was there, or the
\* row of the call in its place, or a new row in front.
LEMMA RelistedAt ==
  ASSUME Types, NEW c \in calls, c.row \in Row, Relisted(c)
  PROVE  \/ /\ c.act = "create"
            /\ list'.items = <<c.row>> \o list.items
         \/ \E f \in [DOMAIN list'.items -> DOMAIN list.items] :
              /\ \A i, j \in DOMAIN list'.items : i # j => f[i] # f[j]
              /\ \A i \in DOMAIN list'.items :
                   /\ list'.items[i].id = list.items[f[i]].id
                   /\ \/ list'.items[i] = list.items[f[i]]
                         /\ (c.act = "create" \/ list'.items[i].id # c.row.id)
                      \/ /\ c.act \in {"approve", "reject", "revoke", "save", "notes"}
                         /\ list'.items[i] = Changed(c, list.items[f[i]])
<1>0. list.items \in Seq(Row) /\ DOMAIN list.items = 1 .. Len(list.items) /\ Len(list.items) \in Nat
  BY DEF Types, TypesOfHook
<1>1. ASSUME NEW n \in Nat, NEW q \in [1 .. n -> DOMAIN list.items],
             \A i, j \in 1 .. n : i < j => q[i] < q[j],
             \A k \in 1 .. n : list.items[q[k]].id # c.row.id,
             list'.items = [k \in 1 .. n |-> list.items[q[k]]]
      PROVE  /\ q \in [DOMAIN list'.items -> DOMAIN list.items]
             /\ \A i, j \in DOMAIN list'.items : i # j => q[i] # q[j]
             /\ \A i \in DOMAIN list'.items :
                  /\ list'.items[i] = list.items[q[i]]
                  /\ list'.items[i].id # c.row.id
  <2>1. DOMAIN list'.items = 1 .. n
    BY <1>1
  <2>2. ASSUME NEW i \in 1 .. n, NEW j \in 1 .. n, i # j PROVE q[i] # q[j]
    <3>1. i < j \/ j < i
      BY <2>2
    <3>2. q[i] \in Nat /\ q[j] \in Nat
      BY <1>0, <1>1
    <3>3. QED BY <1>1, <3>1, <3>2
  <2>3. QED BY <1>1, <2>1, <2>2
<1>2. PICK same : same = [i \in DOMAIN list.items |-> i]
  OBVIOUS
<1>3. CASE c.act = "create" /\ list'.items = list.items
  BY <1>2, <1>3
<1>4. CASE /\ c.act \in {"approve", "reject", "revoke", "save", "notes"}
           /\ list'.items = [i \in DOMAIN list.items |-> Changed(c, list.items[i])]
  <2>1. DOMAIN list'.items = DOMAIN list.items
    BY <1>4
  <2>2. \A i \in DOMAIN list.items :
          list'.items[i] = Changed(c, list.items[i]) /\ list'.items[i].id = list.items[i].id
    BY <1>0, <1>4, ChangedTyped
  <2>3. same \in [DOMAIN list'.items -> DOMAIN list.items]
        /\ \A i \in DOMAIN list'.items : same[i] = i
    BY <1>2, <2>1
  <2>4. QED BY <1>4, <2>1, <2>2, <2>3
<1>5. QED
  <2>1. CASE \E n \in Nat : \E q \in [1 .. n -> DOMAIN list.items] :
               /\ \A i, j \in 1 .. n : i < j => q[i] < q[j]
               /\ \A k \in 1 .. n : list.items[q[k]].id # c.row.id
               /\ list'.items = [k \in 1 .. n |-> list.items[q[k]]]
    <3>1. PICK n \in Nat : \E q \in [1 .. n -> DOMAIN list.items] :
               /\ \A i, j \in 1 .. n : i < j => q[i] < q[j]
               /\ \A k \in 1 .. n : list.items[q[k]].id # c.row.id
               /\ list'.items = [k \in 1 .. n |-> list.items[q[k]]]
      BY <2>1
    <3>2. PICK q \in [1 .. n -> DOMAIN list.items] :
               /\ \A i, j \in 1 .. n : i < j => q[i] < q[j]
               /\ \A k \in 1 .. n : list.items[q[k]].id # c.row.id
               /\ list'.items = [k \in 1 .. n |-> list.items[q[k]]]
      BY <3>1
    <3>3. /\ q \in [DOMAIN list'.items -> DOMAIN list.items]
          /\ \A i, j \in DOMAIN list'.items : i # j => q[i] # q[j]
          /\ \A i \in DOMAIN list'.items :
               /\ list'.items[i] = list.items[q[i]]
               /\ list'.items[i].id # c.row.id
      BY <1>1, <3>2
    <3>4. QED BY <3>3
  <2>2. QED BY <1>3, <1>4, <2>1 DEF Relisted

\* The items after the answer of a call that is about a row as the server has it.
LEMMA ItemsByAnswer ==
  ASSUME ListsAssumption, Types, Types', Calm, FreshInv, NEW c \in calls, c.row \in Row,
         c.state = "stored", calls' = calls \ {c}, db' = db, req' = req, list'.cursor = list.cursor,
         \A r \in Rows : tidy'[r] => tidy[r], Relisted(c)
  PROVE  /\ ItemsFresh' /\ Ordered' /\ Distinct'
         /\ \A x \in Items' : x.id = c.row.id \/ \E y \in Items : y.id = x.id
<1>1. PICK r \in Rows : r = c.row.id
  BY DEF Row
<1>2. tidy[r] => /\ c.row = db[r] /\ StoredAbout(r) = {c} /\ req.stage = "none"
                 /\ c.act = "create" => r > list.cursor /\ \A x \in Items : x.id # r
  <2>1. HAVE tidy[r]
  <2>2. c \in About(r)
    BY <1>1 DEF About
  <2>3. (\A d \in About(r) : d = c) /\ req.stage = "none"
    BY <2>1, <2>2 DEF Calm
  <2>4. StoredAbout(r) = {c}
    BY <1>1, <2>3 DEF StoredAbout, About
  <2>5. QED BY <1>1, <2>1, <2>3, <2>4 DEF FreshInv, CallsFresh
<1>3. ASSUME NEW q \in Rows, q # r PROVE StoredAbout(q)' = StoredAbout(q)
  BY <1>1, <1>3 DEF StoredAbout
<1>4. \A x \in Items : x \in Row /\ x.id \in Rows /\ TextFresh(x) /\ StatusFresh(x)
  BY ShownTyped DEF FreshInv, ItemsFresh, Row
<1>5. ASSUME NEW x \in Items, x.id # r PROVE TextFresh(x)' /\ StatusFresh(x)'
  BY <1>3, <1>4, <1>5, FreshStays
<1>6. TextFresh(c.row)' /\ StatusFresh(c.row)'
  BY <1>1, <1>2 DEF TextFresh, StatusFresh
<1>7. ASSUME NEW x \in Items, c.act # "create" PROVE TextFresh(Changed(c, x))' /\ StatusFresh(Changed(c, x))'
  <2>1. CASE x.id # r
    BY <1>1, <1>5, <2>1 DEF Changed
  <2>2. CASE x.id = r /\ c.act # "notes"
    BY <1>1, <1>6, <2>2 DEF Changed
  <2>3. CASE x.id = r /\ c.act = "notes"
    <3>1. PICK y : y = Changed(c, x)
      OBVIOUS
    <3>2. y.id = r /\ y.text = c.row.text /\ y.status = x.status
      BY <1>1, <1>4, <2>3, <3>1 DEF Changed, Row
    <3>3. tidy[r] => y.text = db[r].text /\ y.status = db[r].status
      BY <1>2, <1>4, <2>3, <3>2 DEF StatusFresh
    <3>4. TextFresh(y)' /\ StatusFresh(y)'
      BY <3>2, <3>3 DEF TextFresh, StatusFresh
    <3>5. QED BY <3>1, <3>4
  <2>4. QED BY <2>1, <2>2, <2>3
<1>8. \A i \in DOMAIN list.items : list.items[i] \in Items
  BY DEF Items
<1>9. list.items \in Seq(Row)
  BY DEF Types, TypesOfHook
<1>10. CASE c.act = "create" /\ list'.items = <<c.row>> \o list.items
  <2>1. \A k \in DOMAIN list'.items : \/ k = 1 /\ list'.items[k] = c.row
                                      \/ /\ k - 1 \in DOMAIN list.items
                                         /\ list'.items[k] = list.items[k - 1]
    <3> SUFFICES ASSUME NEW k \in DOMAIN (<<c.row>> \o list.items)
                 PROVE  \/ k = 1 /\ (<<c.row>> \o list.items)[k] = c.row
                        \/ /\ k - 1 \in DOMAIN list.items
                           /\ (<<c.row>> \o list.items)[k] = list.items[k - 1]
      BY <1>10
    <3>1. <<c.row>> \in Seq(Row) /\ Len(<<c.row>>) = 1 /\ DOMAIN <<c.row>> = 1 .. 1 /\ <<c.row>>[1] = c.row
      OBVIOUS
    <3>2. QED BY <1>9, <3>1, AppendedAt
  <2>2. Items' \subseteq Items \cup {c.row}
    BY <1>8, <2>1 DEF Items
  <2>3. ASSUME NEW x \in Items, tidy'[x.id] PROVE x.id # r
    BY <1>2, <1>4, <2>3, <1>10
  <2>4. ItemsFresh'
    <3> SUFFICES ASSUME NEW x \in Items' PROVE TextFresh(x)' /\ StatusFresh(x)'
      BY DEF ItemsFresh
    <3>1. CASE x = c.row
      BY <1>6, <3>1
    <3>2. CASE x \in Items /\ tidy'[x.id]
      BY <1>5, <2>3, <3>2
    <3>3. CASE x \in Items /\ ~tidy'[x.id]
      BY <3>3 DEF TextFresh, StatusFresh
    <3>4. QED BY <2>2, <3>1, <3>2, <3>3
  <2>5. Ordered'
    <3> SUFFICES ASSUME NEW x \in Items', tidy'[x.id]
                 PROVE  /\ x.id >= list.cursor
                        /\ req.stage # "none" /\ ~req.replace => x.id >= req.cursor
      BY DEF Ordered
    <3>1. CASE x \in Items
      BY <1>4, <3>1 DEF FreshInv, Ordered
    <3>2. CASE x = c.row
      <4>1. tidy[r]
        BY <1>1, <3>2
      <4>2. r > list.cursor /\ req.stage = "none"
        BY <1>2, <1>10, <4>1
      <4>a. list.cursor \in Rows \cup {0}
        BY DEF Types, TypesOfHook
      <4>b. \A k \in Rows : k \in Nat /\ k > 0
        BY RowsAreNumbers
      <4>c. list.cursor \in Nat
        BY ONLY <4>a, <4>b
      <4>d. r \in Nat
        BY <4>b
      <4>3. r >= list.cursor
        BY ONLY <4>2, <4>c, <4>d
      <4>4. QED BY <1>1, <3>2, <4>2, <4>3
    <3>3. QED BY <2>2, <3>1, <3>2
  <2>6. Distinct'
    <3> SUFFICES ASSUME NEW i \in DOMAIN list'.items, NEW j \in DOMAIN list'.items, i # j,
                        list'.items[i].id = list'.items[j].id, tidy'[list'.items[i].id]
                 PROVE  FALSE
      BY DEF Distinct
    <3>0. 0 \notin DOMAIN list.items
      BY <1>9
    <3>1. CASE i = 1 \/ j = 1
      <4>1. ASSUME NEW k \in DOMAIN list'.items, k # 1
            PROVE  list'.items[k] \in Items
        BY <1>8, <2>1, <4>1
      <4>2. 1 \in DOMAIN list'.items => list'.items[1] = c.row
        BY <2>1, <3>0
      <4>3. \A x \in Items : ~(x.id = r /\ tidy'[x.id])
        BY <2>3
      <4>4. CASE i = 1
        BY <1>1, <4>1, <4>2, <4>3, <4>4
      <4>5. CASE j = 1
        BY <1>1, <4>1, <4>2, <4>3, <4>5
      <4>6. QED BY <3>1, <4>4, <4>5
    <3>2. CASE i # 1 /\ j # 1
      <4>1. /\ i - 1 \in DOMAIN list.items /\ list'.items[i] = list.items[i - 1]
            /\ j - 1 \in DOMAIN list.items /\ list'.items[j] = list.items[j - 1]
        BY <2>1, <3>2
      <4>2. i \in Nat /\ j \in Nat
        <5>1. <<c.row>> \o list.items \in Seq(Row)
          BY <1>9
        <5>2. QED BY <1>10, <5>1
      <4>3. i - 1 # j - 1
        BY <4>2
      <4>4. tidy[list.items[i - 1].id]
        BY <1>4, <1>8, <4>1
      <4>5. QED BY <4>1, <4>3, <4>4 DEF FreshInv, Distinct
    <3>3. QED BY <3>1, <3>2
  <2>7. QED BY <1>1, <2>2, <2>4, <2>5, <2>6
<1>11. ASSUME NEW f \in [DOMAIN list'.items -> DOMAIN list.items],
              \A i, j \in DOMAIN list'.items : i # j => f[i] # f[j],
              \A i \in DOMAIN list'.items :
                   /\ list'.items[i].id = list.items[f[i]].id
                   /\ \/ list'.items[i] = list.items[f[i]]
                         /\ (c.act = "create" \/ list'.items[i].id # c.row.id)
                      \/ /\ c.act \in {"approve", "reject", "revoke", "save", "notes"}
                         /\ list'.items[i] = Changed(c, list.items[f[i]])
       PROVE  /\ ItemsFresh' /\ Ordered' /\ Distinct'
              /\ \A x \in Items' : x.id = c.row.id \/ \E y \in Items : y.id = x.id
  <2>1. ASSUME NEW x \in Items'
        PROVE  \E y \in Items : /\ x.id = y.id
                                /\ \/ x = y /\ (c.act = "create" \/ x.id # c.row.id)
                                   \/ /\ c.act \in {"approve", "reject", "revoke", "save", "notes"}
                                      /\ x = Changed(c, y)
    BY <1>8, <1>11 DEF Items
  <2>2. ItemsFresh'
    <3> SUFFICES ASSUME NEW x \in Items' PROVE TextFresh(x)' /\ StatusFresh(x)'
      BY DEF ItemsFresh
    <3>1. PICK y \in Items : /\ x.id = y.id
                             /\ \/ x = y /\ (c.act = "create" \/ x.id # c.row.id)
                                \/ /\ c.act \in {"approve", "reject", "revoke", "save", "notes"}
                                   /\ x = Changed(c, y)
      BY <2>1
    <3>2. CASE x = y /\ x.id # r
      BY <1>5, <3>2
    <3>3. CASE x = y /\ c.act = "create" /\ x.id = r
      BY <1>2, <3>3 DEF TextFresh, StatusFresh
    <3>4. CASE c.act # "create" /\ x = Changed(c, y)
      BY <1>7, <3>4
    <3>5. QED BY <1>1, <3>1, <3>2, <3>3, <3>4
  <2>3. Ordered'
    BY <1>4, <2>1 DEF FreshInv, Ordered
  <2>4. Distinct'
    <3> SUFFICES ASSUME NEW i \in DOMAIN list'.items, NEW j \in DOMAIN list'.items, i # j,
                        list'.items[i].id = list'.items[j].id, tidy'[list'.items[i].id]
                 PROVE  FALSE
      BY DEF Distinct
    <3>1. /\ f[i] \in DOMAIN list.items /\ f[j] \in DOMAIN list.items /\ f[i] # f[j]
          /\ list.items[f[i]].id = list.items[f[j]].id /\ tidy[list.items[f[i]].id]
      BY <1>4, <1>8, <1>11
    <3>2. QED BY <3>1 DEF FreshInv, Distinct
  <2>5. QED BY <2>1, <2>2, <2>3, <2>4
<1>12. QED BY <1>10, <1>11, RelistedAt

\* The dialogs after an answer: what they hold of the row has its text.
LEMMA DialogsByAnswer ==
  ASSUME ListsAssumption, Types, Calm, FreshInv, NEW c \in calls, c.row \in Row,
         c.state = "stored", calls' = calls \ {c}, db' = db, page' = page,
         \A r \in Rows : tidy'[r] => tidy[r],
         UNCHANGED dialogs \/ Answered(c),
         UNCHANGED dialogs => ~c.live \/ Answered(c)
  PROVE  DialogsFresh'
<1>1. PICK r \in Rows : r = c.row.id
  BY DEF Row
<1>2. tidy[r] => /\ c.row = db[r] /\ StoredAbout(r) = {c} /\ look.of # r
                 /\ c.live \/ c.act = "create"
                 /\ confirm.row.id = r => c.act = confirm.deed
  <2>1. HAVE tidy[r]
  <2>2. c \in About(r)
    BY <1>1 DEF About
  <2>3. /\ \A d \in About(r) : d = c
        /\ look.of # r /\ (c.live \/ c.act = "create")
        /\ confirm.row.id = r => c.act = confirm.deed
    BY <2>1, <2>2 DEF Calm
  <2>4. StoredAbout(r) = {c}
    BY <1>1, <2>3 DEF StoredAbout, About
  <2>5. QED BY <1>1, <2>1, <2>3, <2>4 DEF FreshInv, CallsFresh
<1>3. ASSUME NEW q \in Rows, q # r PROVE StoredAbout(q)' = StoredAbout(q)
  BY <1>1, <1>3 DEF StoredAbout
<1>4. ASSUME NEW x \in Row, TextFresh(x), x.id = r /\ tidy[r] => c.act \notin {"save", "notes"}
      PROVE  TextFresh(x)'
  <2>1. x.id \in Rows
    BY DEF Row
  <2>2. CASE x.id # r
    BY <1>3, <1>4, <2>1, <2>2, FreshStays
  <2>3. CASE x.id = r
    BY <1>2, <1>4, <2>3 DEF TextFresh
  <2>4. QED BY <2>2, <2>3
<1>5. TextFresh(c.row)'
  BY <1>1, <1>2 DEF TextFresh
<1>6. /\ look.row # None => look.row \in Row
      /\ detail # None => detail \in Row
      /\ confirm.deed \in {"reject", "revoke"} => confirm.row \in Row /\ confirm # NoConfirm
  BY DEF Types, TypesOfDialogs, NoConfirm, RowOrNone
<1>a. PICK looked, shown, asked : looked = look'.row /\ shown = detail' /\ asked = confirm'.row
  OBVIOUS
<1>7. /\ look' \in {look, NoLook}
      /\ page = "jobs" => \/ detail' = detail /\ (tidy[r] => c.act # "save")
                          \/ detail' = None
                          \/ detail' = c.row
      /\ \/ confirm' = confirm /\ (confirm.deed # c.act \/ ~c.live)
         \/ confirm' = NoConfirm
  <2>1. CASE Answered(c)
    BY <2>1 DEF Answered
  <2>2. CASE UNCHANGED dialogs /\ ~c.live
    BY <1>2, <2>2 DEF dialogs
  <2>3. QED BY <2>1, <2>2
<1>8. looked # None => looked.id = look'.of /\ TextFresh(looked)'
  <2>1. HAVE looked # None
  <2>2. look' = look
    BY <1>7, <1>a, <2>1 DEF NoLook
  <2>3. looked \in Row /\ looked.id = look.of /\ TextFresh(looked)
    BY <1>6, <1>a, <2>1, <2>2 DEF FreshInv, DialogsFresh
  <2>4. QED BY <1>2, <1>4, <2>2, <2>3
<1>9. page = "jobs" /\ shown # None => TextFresh(shown)'
  <2>1. HAVE page = "jobs" /\ shown # None
  <2>2. CASE detail' = c.row
    BY <1>5, <1>a, <2>2
  <2>3. CASE detail' = detail /\ (tidy[r] => c.act # "save")
    <3>1. shown \in Row /\ TextFresh(shown)
      BY <1>6, <1>a, <2>1, <2>3 DEF FreshInv, DialogsFresh
    <3>2. c.act # "notes"
      BY <2>1 DEF FreshInv, NotesPage
    <3>3. QED BY <1>4, <2>3, <3>1, <3>2
  <2>4. QED BY <1>7, <1>a, <2>1, <2>2, <2>3
<1>10. confirm'.deed \in {"reject", "revoke"} => TextFresh(asked)'
  <2>1. HAVE confirm'.deed \in {"reject", "revoke"}
  <2>2. confirm' = confirm /\ (confirm.deed # c.act \/ ~c.live)
    BY <1>7, <2>1 DEF NoConfirm
  <2>3. asked \in Row /\ TextFresh(asked) /\ asked = confirm.row
    BY <1>6, <1>a, <2>1, <2>2 DEF FreshInv, DialogsFresh
  <2>4. asked.id = r /\ tidy[r] => c.act = "create"
    BY <1>2, <2>2, <2>3
  <2>5. QED BY <1>4, <2>3, <2>4
<1>11. QED BY <1>a, <1>8, <1>9, <1>10 DEF DialogsFresh, TextFresh, StoredAbout

\* A successful answer brings the copies of its row up to date.
LEMMA FreshByAnswer ==
  ASSUME ListsAssumption, Types, Types', Calm, FreshInv, NEW c \in calls, Succeed(c), Tidied
  PROVE  FreshInv'
<1>1. /\ c.state = "stored" /\ calls' = calls \ {c} /\ page' = page /\ db' = db /\ filter' = filter
      /\ c.row \in Row
  BY DEF Succeed, server, Types, TypesOfCalls
<1>2. \A r \in Rows : tidy'[r] => tidy[r]
  BY TidyWas
<1>3. c.live => Answered(c)
  BY SucceedAnswers
<1>4. ~c.live => UNCHANGED <<hook, dialogs>>
  BY DEF Succeed
<1>5. DialogsFresh'
  BY <1>1, <1>2, <1>3, <1>4, DialogsByAnswer
<1>6. NotesPage'
  <2>1. notesOf' \in {notesOf, None}
    BY <1>3, <1>4 DEF Answered, dialogs
  <2>2. QED BY <1>1, <2>1 DEF FreshInv, NotesPage
<1>7. c \in About(c.row.id) /\ c.row.id \in Rows
  BY <1>1 DEF About, Row
<1>8. ASSUME list'.cursor = list.cursor \/ Items' = {},
             \A x \in Items' : x.id = c.row.id \/ \E y \in Items : y.id = x.id
      PROVE  CallsFresh'
  <2> SUFFICES ASSUME NEW e \in calls', e.row \in Row, tidy'[e.row.id]
               PROVE  /\ e.act \in {"reject", "revoke"} /\ e.state = "sent" =>
                           e.row.text = db[e.row.id].text
                      /\ e.state = "stored" =>
                           /\ e.row = db[e.row.id]
                           /\ e.act = "create" =>
                                e.row.id > list'.cursor /\ \A x \in Items' : x.id # e.row.id
    BY <1>1 DEF CallsFresh
  <2>1. e \in calls /\ e # c /\ e.row.id \in Rows /\ tidy[e.row.id]
    BY <1>1, <1>2 DEF Row
  <2>2. e.row.id # c.row.id
    BY <1>7, <2>1 DEF Calm, About
  <2>3. /\ e.act \in {"reject", "revoke"} /\ e.state = "sent" => e.row.text = db[e.row.id].text
        /\ e.state = "stored" =>
             /\ e.row = db[e.row.id]
             /\ e.act = "create" => e.row.id > list.cursor /\ \A x \in Items : x.id # e.row.id
    BY <2>1 DEF FreshInv, CallsFresh
  <2>4. ASSUME e.state = "stored", e.act = "create"
        PROVE  e.row.id > list'.cursor /\ \A x \in Items' : x.id # e.row.id
    <3>1. \A x \in Items' : x.id # e.row.id
      BY <1>8, <2>2, <2>3, <2>4
    <3>2. e.row.id > list'.cursor
      <4>1. CASE list'.cursor = list.cursor
        BY <2>3, <2>4, <4>1
      <4>2. CASE list'.cursor # list.cursor
        <5>1. c.live
          BY <1>4, <4>2 DEF hook
        <5>2. c.act = "resend"
          BY <4>2, <5>1, SucceedLists DEF Types, TypesOfHook
        <5>3. list'.cursor = 0
          BY <1>1, <5>1, <5>2, ResetRestarts DEF Succeed, Restarted, Types, TypesOfHook
        <5>4. QED BY <2>1, <5>3, RowsAreNumbers
      <4>3. QED BY <4>1, <4>2
    <3>3. QED BY <3>1, <3>2
  <2>5. QED BY <2>3, <2>4
<1>9. CASE ~c.live
  <2>1. list' = list /\ req' = req /\ UNCHANGED dialogs
    BY <1>4, <1>9 DEF hook
  <2>2. Items' = Items /\ PageRows' = PageRows /\ Items \subseteq Row /\ PageRows \subseteq Row
    BY <2>1, ShownTyped, CopiesTyped DEF Items, PageRows
  <2>3. ItemsFresh'
    <3> SUFFICES ASSUME NEW x \in Items PROVE TextFresh(x)' /\ StatusFresh(x)'
      BY <2>2 DEF ItemsFresh
    <3>1. x.id \in Rows /\ TextFresh(x) /\ StatusFresh(x)
      BY <2>2 DEF FreshInv, ItemsFresh, Row
    <3>2. CASE x.id # c.row.id
      <4>1. StoredAbout(x.id)' = StoredAbout(x.id)
        BY <1>1, <3>2 DEF StoredAbout
      <4>2. QED BY <1>1, <1>2, <3>1, <4>1, FreshStays
    <3>3. CASE x.id = c.row.id
      <4>1. ~tidy[x.id]
        BY <1>1, <1>7, <1>9, <3>1, <3>3 DEF Calm, FreshInv, CallsFresh
      <4>2. QED BY <1>2, <3>1, <4>1 DEF TextFresh, StatusFresh
    <3>4. QED BY <3>2, <3>3
  <2>4. Ordered' /\ Distinct'
    BY <1>2, <2>1, OrderStays
  <2>5. RowsFresh'
    BY <1>1, <1>2, <2>1, <2>2 DEF FreshInv, RowsFresh, Row
  <2>6. CallsFresh'
    BY <1>8, <2>1, <2>2
  <2>7. QED BY <1>5, <1>6, <2>3, <2>4, <2>5, <2>6 DEF FreshInv
<1>10. CASE c.live /\ c.act = "resend"
  <2>1. Reset
    BY <1>10 DEF Succeed
  <2>2. Restarted
    BY <1>1, <2>1, ResetRestarts DEF Types, TypesOfHook
  <2>3. ItemsFresh' /\ Ordered' /\ Distinct' /\ RowsFresh'
    BY <1>1, <2>2, FreshByRestart
  <2>4. Items' = {}
    BY <2>2 DEF Restarted, Items
  <2>5. CallsFresh'
    BY <1>8, <2>4
  <2>6. QED BY <1>5, <1>6, <2>3, <2>5 DEF FreshInv
<1>11. CASE c.live /\ c.act # "resend"
  <2>1. Relisted(c) /\ req' = req /\ list' = [list EXCEPT !.items = list'.items]
    BY <1>11, SucceedLists
  <2>2. list'.cursor = list.cursor
    BY <2>1 DEF Types, TypesOfHook
  <2>3. /\ ItemsFresh' /\ Ordered' /\ Distinct'
        /\ \A x \in Items' : x.id = c.row.id \/ \E y \in Items : y.id = x.id
    BY <1>1, <1>2, <2>1, <2>2, ItemsByAnswer
  <2>4. RowsFresh'
    <3>1. PageRows' = PageRows /\ PageRows \subseteq Row
      BY <2>1, CopiesTyped DEF PageRows
    <3>2. QED BY <1>1, <1>2, <2>1, <3>1 DEF FreshInv, RowsFresh, Row
  <2>5. CallsFresh'
    BY <1>8, <2>2, <2>3
  <2>6. QED BY <1>5, <1>6, <2>3, <2>4, <2>5 DEF FreshInv
<1>12. QED BY <1>9, <1>10, <1>11

\* An answer that says the call failed changes no copy.
LEMMA FreshByFail ==
  ASSUME ListsAssumption, Types, Types', FreshInv, NEW c \in calls, Fail(c), Tidied
  PROVE  FreshInv'
<1>1. /\ c.state = "failed" /\ calls' = calls \ {c} /\ UNCHANGED <<page, list, req, dialogs, db>>
  BY DEF Fail, hook, server
<1>2. \A r \in Rows : tidy'[r] => tidy[r]
  BY TidyWas
<1>3. \A r : StoredAbout(r)' = StoredAbout(r)
  BY <1>1 DEF StoredAbout
<1>4. /\ DialogsFresh' /\ ItemsFresh' /\ Ordered' /\ Distinct'
      /\ Items' = Items /\ PageRows' = PageRows /\ PageRows \subseteq Row
  BY <1>1, <1>2, <1>3, CopiesStay, OrderStays, CopiesTyped DEF Items, PageRows
<1>5. RowsFresh'
  BY <1>1, <1>2, <1>4 DEF FreshInv, RowsFresh, Row
<1>6. CallsFresh'
  BY <1>1, <1>2, <1>4 DEF FreshInv, CallsFresh, Row
<1>7. NotesPage'
  BY <1>1 DEF FreshInv, NotesPage, dialogs
<1>8. QED BY <1>4, <1>5, <1>6, <1>7 DEF FreshInv

\* A row changed elsewhere is tidy no more.
LEMMA FreshByOthers ==
  ASSUME ListsAssumption, Types, Types', FreshInv, NEW r \in Rows, Elsewhere(r), Tidied
  PROVE  FreshInv'
<1>1. /\ UNCHANGED <<page, list, req, dialogs, calls>>
      /\ \E s \in {"WITHDRAWN", "USED", "PUBLISHED"} :
           db[r].status # s /\ db' = [db EXCEPT ![r].status = s]
  BY DEF Elsewhere, hook
<1>2. \A q \in Rows : q # r => db'[q] = db[q]
  BY <1>1 DEF Types, TypesOfServer
<1>3. db'[r] # db[r]
  BY <1>1 DEF Types, TypesOfServer, Row
<1>4. \A q \in Rows : tidy'[q] => q # r /\ tidy[q] /\ db'[q] = db[q]
  BY <1>1, <1>2, <1>3, TidyWas DEF Disturbed
<1>5. \A q : StoredAbout(q)' = StoredAbout(q)
  BY <1>1 DEF StoredAbout
<1>6. /\ DialogsFresh' /\ ItemsFresh' /\ Ordered' /\ Distinct'
      /\ Items' = Items /\ PageRows' = PageRows /\ PageRows \subseteq Row
  BY <1>1, <1>4, <1>5, CopiesStay, OrderStays, CopiesTyped DEF Items, PageRows
<1>7. RowsFresh'
  BY <1>1, <1>4, <1>6 DEF FreshInv, RowsFresh, Row
<1>8. CallsFresh'
  BY <1>1, <1>4, <1>6 DEF FreshInv, CallsFresh, Row
<1>9. NotesPage'
  BY <1>1 DEF FreshInv, NotesPage, dialogs
<1>10. QED BY <1>6, <1>7, <1>8, <1>9 DEF FreshInv

\* Every step keeps the copies of tidy rows up to date.
LEMMA FreshNext ==
  ASSUME ListsAssumption, Types, Types', Calm, Calm', BornInv, FreshInv, Next
  PROVE  FreshInv'
<1>0. Tidied
  BY StepTidies
<1>1. CASE DialogStep BY <1>1, FreshByDialog
<1>2. CASE HookStep BY <1>2, FreshByHook
<1>3. CASE Leaving BY <1>3, FreshByLeaving DEF Leaving
<1>4. CASE SendStep BY <1>4, FreshBySend
<1>5. ASSUME NEW c \in calls, Serve(c) PROVE FreshInv'
  BY <1>0, <1>5, ServeOrFail, FreshByFailure, FreshByStore DEF Serve
<1>6. ASSUME NEW c \in calls, Lose(c) PROVE FreshInv'
  BY <1>0, <1>6, FreshByFailure DEF Lose, Fails
<1>7. ASSUME NEW c \in calls, Succeed(c) PROVE FreshInv'
  BY <1>0, <1>7, FreshByAnswer
<1>8. ASSUME NEW c \in calls, Fail(c) PROVE FreshInv'
  BY <1>0, <1>8, FreshByFail
<1>9. ASSUME NEW r \in Rows, Elsewhere(r) PROVE FreshInv'
  BY <1>0, <1>9, FreshByOthers
<1>10. QED BY <1>1, <1>2, <1>3, <1>4, <1>5, <1>6, <1>7, <1>8, <1>9, StepKinds DEF CallStep

-----------------------------------------------------------------------------
(* The lists.                                                              *)

ListsInv == Types /\ Calm /\ BornInv /\ FreshInv

\* The invariant holds at first.
LEMMA ListsInitially ==
  ASSUME ListsAssumption, Init
  PROVE  ListsInv
BY TypesInit, CalmInit, BornInit, FreshInit DEF ListsInv

\* Every step keeps it.
LEMMA ListsStep ==
  ASSUME ListsAssumption, ListsInv, Next
  PROVE  ListsInv'
<1>1. Types'
  BY TypesNext DEF ListsInv
<1>2. Calm'
  BY <1>1, CalmNext DEF ListsInv
<1>3. BornInv'
  BY <1>1, BornNext DEF ListsInv
<1>4. FreshInv'
  BY <1>1, <1>2, FreshNext DEF ListsInv
<1>5. QED BY <1>1, <1>2, <1>3, <1>4 DEF ListsInv

\* So does a step in which nothing happens.
LEMMA ListsStutter ==
  ASSUME ListsInv, UNCHANGED vars
  PROVE  ListsInv'
<1>1. Types'
  BY TypesStutter DEF ListsInv
<1>2. UNCHANGED <<page, list, req, dialogs, calls, db, tidy>>
  BY DEF vars, hook, server
<1>3. Calm'
  BY <1>2 DEF ListsInv, Calm, About, dialogs
<1>4. Items' = Items /\ PageRows' = PageRows /\ Copies' = Copies /\ Cursors' = Cursors
  BY <1>2 DEF Items, PageRows, Copies, Cursors, dialogs
<1>5. BornInv'
  BY <1>2, <1>4 DEF ListsInv, BornInv, BornPage, BornCalls, InOrder, Born, dialogs
<1>6. FreshInv'
  BY <1>2, <1>4
     DEF ListsInv, FreshInv, ItemsFresh, Ordered, Distinct, RowsFresh, DialogsFresh, CallsFresh,
         NotesPage, TextFresh, StatusFresh, StoredAbout, dialogs
<1>7. QED BY <1>1, <1>3, <1>5, <1>6 DEF ListsInv

\* The types; and no row is twice in a list, however pages, creations, filters and reloads
\* interleave, as long as the row is tidy.
THEOREM ListsTyped == Spec => []TypeOK
<1>1. Init => ListsInv
  BY ListsInitially, ListsAssumption
<1>2. ListsInv /\ [Next]_vars => ListsInv'
  BY ListsStep, ListsStutter, ListsAssumption
<1>3. ListsInv => TypeOK
  BY DEF ListsInv, Types, TypesOfHook, TypesOfDialogs, TypesOfCalls, TypesOfServer, FreshInv, Distinct,
         TypeOK, RowOrNone
<1>4. QED BY <1>1, <1>2, <1>3, PTL DEF Spec

\* With nothing under way, a row on screen is the server's row: the handlers update, remove
\* and prepend to a list that pages, reloads and other handlers change meanwhile.
THEOREM ListsAgree == Spec => []AgreesWhenQuiet
<1>1. Init => ListsInv
  BY ListsInitially, ListsAssumption
<1>2. ListsInv /\ [Next]_vars => ListsInv'
  BY ListsStep, ListsStutter, ListsAssumption
<1>3. ListsInv => AgreesWhenQuiet
  <2> SUFFICES ASSUME ListsInv, NEW i \in DOMAIN list.items, tidy[list.items[i].id],
                      ~InCalls(list.items[i].id)
               PROVE  list.items[i] = db[list.items[i].id]
    BY DEF AgreesWhenQuiet
  <2>1. PICK x : x = list.items[i]
    OBVIOUS
  <2>2. x \in Items /\ x \in Row /\ x.id \in Rows
    BY <2>1, ShownTyped DEF ListsInv, Items, Row
  <2>3. StoredAbout(x.id) = {}
    BY <2>1 DEF InCalls, StoredAbout
  <2>4. TextFresh(x) /\ StatusFresh(x) /\ tidy[x.id]
    BY <2>1, <2>2 DEF ListsInv, FreshInv, ItemsFresh
  <2>5. x.text = db[x.id].text /\ x.status = db[x.id].status
    BY <2>3, <2>4 DEF TextFresh, StatusFresh
  <2>6. db[x.id] \in Row /\ db[x.id].id = x.id
    BY <2>2 DEF ListsInv, Types, TypesOfServer
  <2>7. x = db[x.id]
    BY <2>2, <2>5, <2>6 DEF Row
  <2>8. QED BY <2>1, <2>7
<1>4. QED BY <1>1, <1>2, <1>3, PTL DEF Spec

=============================================================================
