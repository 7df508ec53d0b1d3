----------------------------- MODULE Triage_proofs -----------------------------
(***************************************************************************)
(* Proofs about Triage: what the undo offers, and when the optimistic view *)
(* agrees with the server.                                                 *)
(***************************************************************************)
EXTENDS Triage, FiniteSetTheorems, WellFoundedInduction, TLAPS

\* A page that is not empty has a last row: the cursor is defined.
LEMMA LastExists ==
  ASSUME NEW S \in SUBSET Nat, IsFiniteSet(S), S # {}
  PROVE  \E a \in S : \A b \in S : b <= a
<1> DEFINE HasLast(U) == \E a \in U : \A b \in U : b <= a
           Bad == {U \in SUBSET S : U # {} /\ ~HasLast(U)}
<1>1. SUFFICES ASSUME Bad # {} PROVE FALSE
  OBVIOUS
<1>2. Bad \subseteq SUBSET S
  OBVIOUS
<1>3. IsWellFoundedOn(StrictSubsetOrdering(S), SUBSET S)
  BY FS_StrictSubsetOrderingWellFounded, FS_FiniteSubsetsOfFinite
<1> HIDE DEF Bad
<1>4. PICK U \in Bad : \A V \in Bad : <<V, U>> \notin StrictSubsetOrdering(S)
  BY <1>1, <1>2, <1>3, WFMin
<1> USE DEF Bad
<1>5. PICK x \in U : TRUE
  OBVIOUS
<1>6. U \ {x} \notin Bad
  BY <1>4, <1>5 DEF StrictSubsetOrdering
<1>7. CASE U \ {x} = {}
  <2>1. \A b \in U : b <= x
    BY <1>5, <1>7
  <2>2. QED BY <1>5, <2>1
<1>8. CASE U \ {x} # {}
  <2>1. PICK m \in U \ {x} : \A b \in U \ {x} : b <= m
    BY <1>6, <1>8
  <2>2. \A b \in U : b <= IF m <= x THEN x ELSE m
    BY <1>5, <2>1
  <2>3. QED BY <1>5, <2>1, <2>2
<1>9. QED BY <1>7, <1>8

-------------------------------------------------------------------------------
(* The inductive invariant.                                                *)

\* What the screen is to show of an application.
Agreed(s) == IF s \in Decision THEN s ELSE None

\* Off the carousel nothing is chosen, offered or sliding; a queue that is being loaded
\* belongs to a screen that has decided nothing and sent nothing.
Parked ==
  /\ phase # "ready" => index = 0 /\ pendingUndo = NoUndo /\ flying = None
  /\ flying # None => Total > 0
  /\ phase \in {"closed", "error"} => items = <<>>
  /\ phase \in {"loading", "error"} =>
       /\ \A a \in Apps : decisions[a] = None
       /\ \A p \in puts : p.mount # mounts
  /\ \A p \in puts : p.mount <= mounts

\* What an update under way has made of the screen, and found or left on the server.
Explained(p) ==
  /\ p.mount = mounts
  /\ p.status \in Decision =>
       /\ decisions[p.app] = p.status
       /\ IF p.state = "stored" THEN status[p.app] = p.status
                               ELSE Agreed(status[p.app]) = None
  /\ p.status = "NEW" =>
       /\ decisions[p.app] = None
       /\ IF p.state = "stored" THEN status[p.app] \in {"NEW", "WITHDRAWN"}
                               ELSE p.snapshot \in Decision /\ status[p.app] = p.snapshot

\* An application handled one update at a time has one under way that explains the
\* screen, or none, and then the screen agrees with the server.
Handled(a) ==
  /\ \A p, q \in puts : p.app = a /\ q.app = a => p = q
  /\ ~InFlight(a) => decisions[a] = Agreed(status[a])
  /\ \A p \in puts : p.app = a => Explained(p)

InQueue(a) == \E i \in 1 .. Total : items[i] = a
AllHandled == \A a \in Apps : InQueue(a) /\ tidy[a] => Handled(a)

IInv == TypeOK /\ Parked /\ UndoPointsAtDecision /\ AllHandled

-------------------------------------------------------------------------------
(* The carousel.                                                           *)

\* A step of the carousel moves the view and withdraws at most the toast.
LEMMA ViewKeeps ==
  ASSUME IInv, UNCHANGED <<queue, decisions, mounts, remote, tidy>>,
         index' \in Chips \cup {0},
         pendingUndo' \in {pendingUndo, NoUndo},
         flying' \in {None, "next", "prev"}, armed' \in BOOLEAN, isSwapping' \in BOOLEAN,
         drag' \in {None, "short", "left", "right"}, showResume' \in BOOLEAN,
         phase # "ready" => index' = 0 /\ flying' = None,
         flying' # None => Total > 0
  PROVE  IInv'
<1>1. UNCHANGED <<phase, items, pos, pages, decisions, mounts, puts, sent, status, tidy>>
  BY DEF queue, remote
<1>2. TypeOK'
  BY <1>1 DEF IInv, TypeOK, Chips, Total
<1>3. Parked'
  BY <1>1 DEF IInv, Parked, Total
<1>4. UndoPointsAtDecision'
  BY <1>1 DEF IInv, UndoPointsAtDecision
<1>5. AllHandled'
  BY <1>1 DEF IInv, AllHandled, InQueue, Total, Handled, InFlight, Explained, Agreed
<1>6. QED BY <1>2, <1>3, <1>4, <1>5 DEF IInv

\* Toast, slides, chips, fingers and the resume viewer.
LEMMA CarouselKeeps ==
  ASSUME IInv,
         \/ DismissToast \/ EndSlide \/ EndSwap \/ TouchStart \/ TouchEnd
         \/ OpenResume \/ CloseResume
         \/ \E dir \in {"next", "prev"} : SlideTo(dir)
         \/ \E i \in Chips : JumpTo(i)
         \/ \E d \in {"short", "left", "right"} : TouchMove(d)
  PROVE  IInv'
<1>1. /\ index \in Chips \cup {0} /\ flying \in {None, "next", "prev"}
      /\ armed \in BOOLEAN /\ isSwapping \in BOOLEAN /\ showResume \in BOOLEAN
      /\ drag \in {None, "short", "left", "right"}
      /\ phase # "ready" => index = 0 /\ flying = None
      /\ flying # None => Total > 0
      /\ Total \in Nat
  BY DEF IInv, TypeOK, Parked, Total
<1>2. CASE DismissToast
  BY <1>1, <1>2, ViewKeeps DEF DismissToast
<1>3. CASE EndSlide
  <2>1. flying # None /\ phase = "ready"
    BY <1>1, <1>3 DEF EndSlide
  <2>2. index' \in Chips \cup {0}
    <3>1. index \in Nat /\ (index <= Total - 1 \/ index = 0)
      BY <1>1 DEF Chips
    <3>2. index' = IF flying = "next" THEN IF index + 1 <= Total - 1 THEN index + 1 ELSE Total - 1
                                      ELSE IF index >= 1 THEN index - 1 ELSE 0
      BY <1>3 DEF EndSlide
    <3>3. index' \in 0 .. Total - 1 \/ index' = 0 \/ index' = Total - 1
      BY <1>1, <3>1, <3>2
    <3>4. Total # 0
      BY <1>1, <2>1
    <3>5. QED BY <1>1, <3>3, <3>4 DEF Chips
  <2>3. QED BY <1>1, <1>3, <2>1, <2>2, ViewKeeps DEF EndSlide
<1>4. CASE EndSwap \/ CloseResume
  BY <1>1, <1>4, ViewKeeps DEF EndSwap, CloseResume
<1>5. CASE TouchStart \/ TouchEnd \/ OpenResume
  <2>1. CASE TouchStart \/ OpenResume
    BY <1>1, <2>1, ViewKeeps DEF TouchStart, OpenResume, Buttons, CarouselShown, Shown
  <2>2. CASE TouchEnd
    <3>1. Swiped \in {"next", "prev", flying} /\ phase = "ready" /\ Total > 0
      BY <2>2 DEF TouchEnd, Swiped, CarouselShown, Shown
    <3>2. flying' = Swiped /\ armed' = (armed \/ Swiped # flying)
      BY <2>2 DEF TouchEnd
    <3>3. flying' \in {None, "next", "prev"} /\ armed' \in BOOLEAN
      BY <1>1, <3>1, <3>2
    <3> QED BY <1>1, <2>2, <3>1, <3>3, ViewKeeps DEF TouchEnd
  <2> QED BY <1>5, <2>1, <2>2
<1>6. ASSUME NEW dir \in {"next", "prev"}, SlideTo(dir) PROVE IInv'
  <2>1. phase = "ready" /\ Total > 0 /\ armed' \in BOOLEAN
    BY <1>6 DEF SlideTo, Keys, Buttons, CarouselShown, Shown
  <2>2. QED BY <1>1, <1>6, <2>1, ViewKeeps DEF SlideTo
<1>7. ASSUME NEW i \in Chips, JumpTo(i) PROVE IInv'
  BY <1>1, <1>7, ViewKeeps DEF JumpTo, Buttons, CarouselShown, Shown
<1>8. ASSUME NEW d \in {"short", "left", "right"}, TouchMove(d) PROVE IInv'
  BY <1>1, <1>8, ViewKeeps DEF TouchMove, CarouselShown, Shown
<1>9. QED BY <1>2, <1>3, <1>4, <1>5, <1>6, <1>7, <1>8

-------------------------------------------------------------------------------
(* The queue.                                                              *)

\* A page is a sequence of applications that are NEW and come after the cursor.
LEMMA PageTyped ==
  ASSUME TriageAssumption, TypeOK,
         NEW page, page = FirstOf(NewAfter(pos), PageSize), NEW rows \in InOrder(page)
  PROVE  /\ page \subseteq Apps /\ \A a \in page : status[a] = "NEW"
         /\ rows \in Seq(Apps)
         /\ \A i \in 1 .. Len(rows) : rows[i] \in page
<1>1. page \subseteq Apps /\ \A a \in page : status[a] = "NEW"
  BY DEF FirstOf, NewAfter
<1>2. Cardinality(page) \in Nat
  BY <1>1, FS_Subset, FS_CardinalityType DEF TriageAssumption
<1>3. rows \in [1 .. Cardinality(page) -> page]
  BY DEF InOrder
<1>4. rows \in Seq(Apps) /\ Len(rows) = Cardinality(page)
  BY <1>1, <1>2, <1>3
<1>5. QED BY <1>1, <1>3, <1>4

\* The cursor moves to an application or stays.
LEMMA CursorTyped ==
  ASSUME TriageAssumption, TypeOK, NEW page \in SUBSET Apps
  PROVE  (IF page = {} THEN pos ELSE CHOOSE a \in page : \A b \in page : b <= a) \in Nat
<1>1. IsFiniteSet(page) /\ page \in SUBSET Nat
  BY FS_Subset DEF TriageAssumption
<1>2. page # {} => \E a \in page : \A b \in page : b <= a
  BY <1>1, LastExists
<1>3. QED BY <1>1, <1>2 DEF TypeOK

\* What a page brings is NEW, undecided, and handled if nothing of it is under way.
LEMMA LoadPageKeeps ==
  ASSUME TriageAssumption, IInv, LoadPage
  PROVE  IInv'
<1> DEFINE page == FirstOf(NewAfter(pos), PageSize)
           last == IF page = {} THEN pos ELSE CHOOSE a \in page : \A b \in page : b <= a
<1>1. PICK rows \in InOrder(page) : items' = items \o rows
  BY DEF LoadPage
<1>2. /\ phase = "loading" /\ pos' = last /\ pages' = pages + 1
      /\ phase' \in {"ready", "loading"}
      /\ tidy' = [a \in Apps |-> tidy[a] /\ (a \in page => ~InFlight(a))]
      /\ UNCHANGED <<index, pendingUndo, flying, armed, isSwapping, drag, showResume,
                     decisions, mounts, puts, sent, status>>
  BY DEF LoadPage, view, remote
<1>3. /\ page \subseteq Apps /\ \A a \in page : status[a] = "NEW"
      /\ rows \in Seq(Apps)
      /\ \A i \in 1 .. Len(rows) : rows[i] \in page
  BY <1>1, PageTyped DEF IInv
<1>4. last \in Nat
  BY <1>3, CursorTyped DEF IInv
<1> HIDE DEF page, last
<1>5. /\ items \in Seq(Apps) /\ items' \in Seq(Apps) /\ Len(items') = Len(items) + Len(rows)
      /\ \A i \in 1 .. Len(items') :
           \/ i \in 1 .. Len(items) /\ items'[i] = items[i]
           \/ i - Len(items) \in 1 .. Len(rows) /\ items'[i] = rows[i - Len(items)]
  BY <1>1, <1>3 DEF IInv, TypeOK
<1>6. index = 0 /\ pendingUndo = NoUndo /\ flying = None
  BY <1>2 DEF IInv, Parked
<1>7. tidy' \in [Apps -> BOOLEAN]
  BY <1>2 DEF IInv, TypeOK
<1>8. TypeOK'
  BY <1>2, <1>4, <1>5, <1>6, <1>7 DEF IInv, TypeOK
<1>9. Parked'
  BY <1>2, <1>6 DEF IInv, Parked
<1>10. UndoPointsAtDecision'
  BY <1>2, <1>6 DEF UndoPointsAtDecision
<1>11. AllHandled'
  <2> SUFFICES ASSUME NEW a \in Apps, InQueue(a)', tidy'[a] PROVE Handled(a)'
    BY DEF AllHandled
  <2>1. InQueue(a) \/ a \in page
    BY <1>3, <1>5 DEF InQueue, Total
  <2>2. tidy[a] /\ (a \in page => ~InFlight(a))
    BY <1>2
  <2>3. Handled(a)
    <3>1. CASE a \in page
      BY <1>2, <1>3, <2>2, <3>1 DEF IInv, Parked, Handled, InFlight, Agreed, Decision
    <3>2. CASE InQueue(a)
      BY <2>2, <3>2 DEF IInv, AllHandled
    <3>3. QED BY <2>1, <3>1, <3>2
  <2>4. QED BY <1>2, <2>3 DEF Handled, InFlight, Explained, Agreed
<1>12. QED BY <1>8, <1>9, <1>10, <1>11 DEF IInv

\* Opening the screen, or leaving it, forgets the queue; what is under way is of an
\* earlier screen.
LEMMA QueueKeeps ==
  ASSUME TriageAssumption, IInv, Open \/ StartNewReview \/ LoadFail \/ Reload \/ Exit
  PROVE  IInv'
<1>1. CASE Mount
  <2>1. TypeOK'
    <3>1. /\ items' = <<>> /\ index' = 0 /\ pendingUndo' = NoUndo
          /\ decisions' \in [Apps -> Decision \cup {None}] /\ tidy' \in [Apps -> BOOLEAN]
      BY <1>1 DEF Mount, FreshView
    <3>2. /\ phase' = "loading" /\ pos' = 0 /\ pages' = 0 /\ mounts' = mounts + 1
          /\ flying' = None /\ armed' = FALSE /\ isSwapping' = FALSE /\ drag' = None
          /\ showResume' = FALSE /\ UNCHANGED <<puts, sent, status>>
      BY <1>1 DEF Mount, FreshView, remote
    <3>3. items' \in Seq(Apps) /\ index' \in Chips' \cup {0}
      BY <3>1
    <3>4. mounts' \in Nat
      BY <3>2 DEF IInv, TypeOK
    <3>5. QED BY <3>1, <3>2, <3>3, <3>4 DEF IInv, TypeOK
  <2>2. Parked'
    BY <1>1 DEF IInv, TypeOK, Parked, Mount, FreshView, remote, Put
  <2>3. UndoPointsAtDecision'
    BY <1>1 DEF UndoPointsAtDecision, Mount, FreshView
  <2>4. AllHandled'
    BY <1>1 DEF AllHandled, InQueue, Total, Mount
  <2>5. QED BY <2>1, <2>2, <2>3, <2>4 DEF IInv
<1>2. CASE Exit
  <2>1. TypeOK'
    <3>1. /\ items' = <<>> /\ index' = 0 /\ pendingUndo' = NoUndo
          /\ decisions' \in [Apps -> Decision \cup {None}]
      BY <1>2 DEF Exit, FreshView
    <3>2. /\ phase' = "closed" /\ pos' = 0 /\ pages' = 0
          /\ flying' = None /\ armed' = FALSE /\ isSwapping' = FALSE /\ drag' = None
          /\ showResume' = FALSE /\ UNCHANGED <<mounts, puts, sent, status, tidy>>
      BY <1>2 DEF Exit, FreshView, remote
    <3>3. items' \in Seq(Apps) /\ index' \in Chips' \cup {0}
      BY <3>1
    <3>4. mounts' \in Nat
      BY <3>2 DEF IInv, TypeOK
    <3>5. QED BY <3>1, <3>2, <3>3, <3>4 DEF IInv, TypeOK
  <2>2. Parked'
    BY <1>2 DEF IInv, Parked, Exit, FreshView, remote
  <2>3. UndoPointsAtDecision'
    BY <1>2 DEF UndoPointsAtDecision, Exit, FreshView
  <2>4. AllHandled'
    BY <1>2 DEF AllHandled, InQueue, Total, Exit
  <2>5. QED BY <2>1, <2>2, <2>3, <2>4 DEF IInv
<1>3. CASE LoadFail \/ Reload
  <2>1. /\ phase \in {"loading", "error"} /\ phase' \in {"loading", "error"} /\ items' = <<>>
        /\ pos' \in Nat /\ pages' \in Nat
        /\ UNCHANGED <<index, pendingUndo, flying, armed, isSwapping, drag, showResume,
                       decisions, mounts, puts, sent, status, tidy>>
    BY <1>3 DEF IInv, TypeOK, Parked, LoadFail, Reload, view, remote
  <2>2. index = 0 /\ pendingUndo = NoUndo /\ flying = None
    BY <2>1 DEF IInv, Parked
  <2>3. TypeOK'
    BY <2>1, <2>2 DEF IInv, TypeOK
  <2>4. Parked'
    BY <2>1, <2>2 DEF IInv, Parked
  <2>5. UndoPointsAtDecision'
    BY <2>1, <2>2 DEF UndoPointsAtDecision
  <2>6. AllHandled'
    BY <2>1 DEF AllHandled, InQueue, Total
  <2>7. QED BY <2>3, <2>4, <2>5, <2>6 DEF IInv
<1>4. QED BY <1>1, <1>2, <1>3 DEF Open, StartNewReview

-------------------------------------------------------------------------------
(* Decisions.                                                              *)

\* An update is sent with what it has made of the screen.
LEMMA SendKeeps ==
  ASSUME IInv, phase = "ready",
         NEW a \in Apps, NEW s \in Decision \cup {"NEW"}, NEW snap \in Decision \cup {None},
         NEW v \in Decision \cup {None}, Send(a, s, snap),
         decisions' = [decisions EXCEPT ![a] = v],
         tidy' \in [Apps -> BOOLEAN],
         \A b \in Apps \ {a} : tidy'[b] = tidy[b],
         tidy'[a] => tidy[a] /\ ~InFlight(a),
         \/ s \in Decision /\ v = s /\ (tidy'[a] => decisions[a] = None)
         \/ s = "NEW" /\ v = None /\ snap = decisions[a] /\ snap # None,
         index' \in Chips \cup {0}, flying' \in {None, "next", "prev"}, armed' \in BOOLEAN,
         flying' # None => Total > 0,
         pendingUndo' \in [app : Apps, decision : Decision, prevIndex : Chips] \cup {NoUndo},
         pendingUndo' # NoUndo =>
            \/ v # None /\ pendingUndo'.app = a
            \/ pendingUndo' = pendingUndo /\ pendingUndo.app # a,
         UNCHANGED <<queue, mounts, isSwapping, drag, showResume>>
  PROVE  IInv'
<1> DEFINE new == [id |-> sent, app |-> a, status |-> s, snapshot |-> snap,
                   mount |-> mounts, state |-> "sent"]
<1>1. /\ puts' = puts \cup {new} /\ sent' = sent + 1 /\ status' = status
      /\ UNCHANGED <<phase, items, pos, pages, mounts, isSwapping, drag, showResume>>
  BY DEF Send, queue
<1>2. PICK n \in Put : /\ puts' = puts \cup {n}
                      /\ n.app = a /\ n.status = s /\ n.snapshot = snap
                      /\ n.mount = mounts /\ n.state = "sent"
  <2>1. new \in Put
    BY DEF IInv, TypeOK, Put
  <2>2. QED BY <1>1, <2>1
<1> HIDE DEF new
<1>3. /\ decisions' \in [Apps -> Decision \cup {None}] /\ decisions'[a] = v
      /\ \A b \in Apps \ {a} : decisions'[b] = decisions[b]
  BY DEF IInv, TypeOK
<1>4. TypeOK'
  BY <1>1, <1>2, <1>3 DEF IInv, TypeOK, Chips, Total
<1>5. Parked'
  BY <1>1, <1>2 DEF IInv, TypeOK, Parked, Total
<1>6. UndoPointsAtDecision'
  BY <1>3 DEF IInv, TypeOK, UndoPointsAtDecision
<1>7. AllHandled'
  <2> SUFFICES ASSUME NEW b \in Apps, InQueue(b)', tidy'[b] PROVE Handled(b)'
    BY DEF AllHandled
  <2>1. InQueue(b) /\ tidy[b]
    BY <1>1 DEF InQueue, Total
  <2>2. Handled(b)
    BY <2>1 DEF IInv, AllHandled
  <2>3. CASE b # a
    <3>1. \A p \in puts' : p.app = b <=> p \in puts /\ p.app = b
      BY <1>1, <1>2, <2>3
    <3>2. decisions'[b] = decisions[b]
      BY <1>3, <2>3
    <3>3. InFlight(b)' <=> InFlight(b)
      BY <1>1, <3>1 DEF InFlight
    <3>4. \A p \in puts' : p.app = b => Explained(p)'
      BY <1>1, <2>2, <3>1, <3>2 DEF Handled, Explained, Agreed
    <3>5. QED BY <1>1, <2>2, <3>1, <3>2, <3>3, <3>4 DEF Handled, Agreed
  <2>4. CASE b = a
    <3>1. \A p \in puts' : p.app = a => p = n
      BY <1>2, <2>4 DEF InFlight
    <3>2. InFlight(a)'
      BY <1>2 DEF InFlight
    <3>3. decisions[a] = Agreed(status[a])
      BY <2>2, <2>4 DEF Handled
    <3>4. CASE s \in Decision
      <4>1. Agreed(status'[a]) = None /\ decisions'[a] = s /\ s # "NEW"
        BY <1>1, <1>3, <2>4, <3>3, <3>4 DEF Decision
      <4>2. Explained(n)'
        BY <1>1, <1>2, <4>1 DEF Explained, Agreed
      <4>3. QED BY <2>4, <3>1, <3>2, <4>2 DEF Handled
    <3>5. CASE s = "NEW"
      <4>1. snap \in Decision /\ status'[a] = snap /\ decisions'[a] = None /\ s \notin Decision
        BY <1>1, <1>3, <3>3, <3>5 DEF Decision, Agreed
      <4>2. Explained(n)'
        BY <1>1, <1>2, <3>5, <4>1 DEF Explained
      <4>3. QED BY <2>4, <3>1, <3>2, <4>2 DEF Handled
    <3>6. QED BY <3>4, <3>5
  <2>5. QED BY <2>3, <2>4
<1>8. QED BY <1>4, <1>5, <1>6, <1>7 DEF IInv

\* The card shown is one of the queue.
LEMMA CurrentTyped ==
  ASSUME TypeOK, Total > 0
  PROVE  Current \in Apps /\ index \in Chips /\ InQueue(Current)
<1>1. index \in 0 .. Total - 1 /\ Total \in Nat
  BY DEF TypeOK, Chips, Total
<1>2. items[index + 1] \in Apps /\ index + 1 \in 1 .. Total
  BY <1>1 DEF TypeOK, Total
<1>3. QED BY <1>1, <1>2 DEF Current, App, Chips, InQueue

\* A decision.
LEMMA DecideKeeps ==
  ASSUME IInv, NEW d \in Decision, Decide(d)
  PROVE  IInv'
<1>1. phase = "ready" /\ Total > 0
  BY DEF Decide, Keys, Buttons, CarouselShown, Shown
<1>2. Current \in Apps /\ index \in Chips
  BY <1>1, CurrentTyped DEF IInv
<1> DEFINE a == Current
           undo == [app |-> a, decision |-> d, prevIndex |-> index]
<1>3. /\ Send(a, d, None)
      /\ decisions' = [decisions EXCEPT ![a] = d] /\ pendingUndo' = undo
      /\ tidy' = [tidy EXCEPT ![a] = tidy[a] /\ decisions[a] = None /\ ~InFlight(a)]
      /\ UNCHANGED <<index, isSwapping, drag, showResume, queue, mounts>>
  BY DEF Decide
<1>4. undo \in [app : Apps, decision : Decision, prevIndex : Chips] /\ undo.app = a
  BY <1>2
<1>5. flying' \in {None, "next", "prev"} /\ armed' \in BOOLEAN /\ index' \in Chips \cup {0}
  BY <1>2, <1>3 DEF Decide, IInv, TypeOK
<1> HIDE DEF a, undo
<1>6. /\ tidy' \in [Apps -> BOOLEAN] /\ \A b \in Apps \ {a} : tidy'[b] = tidy[b]
      /\ tidy'[a] => tidy[a] /\ ~InFlight(a) /\ decisions[a] = None
  BY <1>3, <1>2 DEF IInv, TypeOK, a
<1>7. d # None /\ a \in Apps
  BY <1>2 DEF Decision, None, a
<1>8. QED BY <1>1, <1>3, <1>4, <1>5, <1>6, <1>7, SendKeeps

\* A retraction of a decision that the screen shows.
LEMMA RetractKeeps ==
  ASSUME IInv, phase = "ready", Total > 0, NEW a \in Apps, Retract(a), decisions[a] # None,
         index' \in Chips \cup {0}
  PROVE  IInv'
<1>1. /\ Send(a, "NEW", decisions[a])
      /\ decisions' = [decisions EXCEPT ![a] = None]
      /\ pendingUndo' = IF pendingUndo.app = a THEN NoUndo ELSE pendingUndo
      /\ tidy' = [tidy EXCEPT ![a] = tidy[a] /\ ~InFlight(a)]
      /\ UNCHANGED <<flying, armed, isSwapping, drag, showResume, queue, mounts>>
  BY DEF Retract
<1>2. /\ tidy' \in [Apps -> BOOLEAN] /\ \A b \in Apps \ {a} : tidy'[b] = tidy[b]
      /\ tidy'[a] => tidy[a] /\ ~InFlight(a)
  BY <1>1 DEF IInv, TypeOK
<1>3. /\ flying' \in {None, "next", "prev"} /\ armed' \in BOOLEAN
      /\ decisions[a] \in Decision \cup {None}
      /\ pendingUndo' \in [app : Apps, decision : Decision, prevIndex : Chips] \cup {NoUndo}
      /\ pendingUndo' # NoUndo => pendingUndo' = pendingUndo /\ pendingUndo.app # a
  BY <1>1 DEF IInv, TypeOK
<1>4. QED BY <1>1, <1>2, <1>3, SendKeeps

\* The toast, or Z, and the banners.
LEMMA UndoKeeps ==
  ASSUME IInv, Undo \/ ClearDecision
  PROVE  IInv'
<1>1. CASE Undo
  <2>1. phase = "ready" /\ Total > 0 /\ pendingUndo # NoUndo
    BY <1>1 DEF Undo, Keys, Buttons, CarouselShown, Shown
  <2>2. pendingUndo.app \in Apps /\ pendingUndo.prevIndex \in Chips
    BY <2>1 DEF IInv, TypeOK
  <2>3. decisions[pendingUndo.app] # None
    BY <2>1 DEF IInv, UndoPointsAtDecision
  <2>4. QED BY <1>1, <2>1, <2>2, <2>3, RetractKeeps DEF Undo
<1>2. CASE ClearDecision
  <2>1. phase = "ready" /\ Total > 0
    BY <1>2 DEF ClearDecision, Buttons, CarouselShown, Shown
  <2>2. PICK i \in Chips : CardOffers(i).undo /\ Retract(App(i))
    BY <1>2 DEF ClearDecision
  <2>3. App(i) \in Apps
    BY <2>1 DEF IInv, TypeOK, App, Chips, Total
  <2>4. decisions[App(i)] # None
    BY <2>2 DEF CardOffers, Banner
  <2>5. index' \in Chips \cup {0}
    BY <1>2 DEF ClearDecision, IInv, TypeOK
  <2>6. QED BY <2>1, <2>2, <2>3, <2>4, <2>5, RetractKeeps
<1>3. QED BY <1>1, <1>2

-------------------------------------------------------------------------------
(* The server and the network.                                             *)

\* An update moves on, and the server's status with it.
LEMMA MessageKeeps ==
  ASSUME IInv, NEW p \in puts, NEW x \in {"stored", "refused", "failed"},
         puts' = (puts \ {p}) \cup {[p EXCEPT !.state = x]},
         status' \in [Apps -> ApplicationStatus],
         \A b \in Apps \ {p.app} : status'[b] = status[b],
         tidy' \in [Apps -> BOOLEAN],
         \A b \in Apps : tidy'[b] => tidy[b],
         tidy'[p.app] =>
            /\ p.state = "sent"
            /\ \/ x = "stored" /\ status'[p.app] = p.status
               \/ x = "refused" /\ status[p.app] = "WITHDRAWN" /\ status' = status
               \/ x = "failed" /\ status' = status,
         UNCHANGED <<view, queue, sent, decisions, mounts>>
  PROVE  IInv'
<1>1. UNCHANGED <<index, pendingUndo, flying, armed, isSwapping, drag, showResume,
                  phase, items, pos, pages, sent, decisions, mounts>>
  BY DEF view, queue
<1>2. p \in Put
  BY DEF IInv, TypeOK
<1>3. PICK n \in Put : /\ puts' = (puts \ {p}) \cup {n}
                      /\ n.app = p.app /\ n.status = p.status /\ n.snapshot = p.snapshot
                      /\ n.mount = p.mount /\ n.state = x
  <2>1. /\ [p EXCEPT !.state = x] \in Put
        /\ [p EXCEPT !.state = x].app = p.app /\ [p EXCEPT !.state = x].status = p.status
        /\ [p EXCEPT !.state = x].snapshot = p.snapshot
        /\ [p EXCEPT !.state = x].mount = p.mount /\ [p EXCEPT !.state = x].state = x
    BY <1>2 DEF Put
  <2>2. QED BY <2>1
<1>4. TypeOK'
  BY <1>1, <1>3 DEF IInv, TypeOK, Chips, Total
<1>5. Parked'
  BY <1>1, <1>3 DEF IInv, Parked, Total
<1>6. UndoPointsAtDecision'
  BY <1>1 DEF IInv, UndoPointsAtDecision
<1>7. AllHandled'
  <2> SUFFICES ASSUME NEW b \in Apps, InQueue(b)', tidy'[b] PROVE Handled(b)'
    BY DEF AllHandled
  <2>1. InQueue(b) /\ tidy[b]
    BY <1>1 DEF InQueue, Total
  <2>2. Handled(b)
    BY <2>1 DEF IInv, AllHandled
  <2>3. CASE b # p.app
    <3>1. \A q \in puts' : q.app = b => q \in puts
      BY <1>3, <2>3
    <3>2. InFlight(b)' <=> InFlight(b)
      BY <1>3, <2>3 DEF InFlight
    <3>3. status'[b] = status[b]
      BY <2>3
    <3>4. \A q \in puts' : q.app = b => Explained(q)'
      BY <1>1, <2>2, <3>1, <3>3 DEF Handled, Explained, Agreed
    <3>5. QED BY <1>1, <2>2, <3>1, <3>2, <3>3, <3>4 DEF Handled, Agreed
  <2>4. CASE b = p.app
    <3>1. \A q \in puts' : q.app = b => q = n
      BY <1>3, <2>2, <2>4 DEF Handled
    <3>2. InFlight(b)'
      BY <1>3, <2>4 DEF InFlight
    <3>3. Explained(p) /\ p.state = "sent"
      BY <2>2, <2>4 DEF Handled
    <3>4. /\ p.mount = mounts
          /\ p.status \in Decision => decisions[b] = p.status /\ Agreed(status[b]) = None
          /\ p.status = "NEW" => decisions[b] = None /\ p.snapshot \in Decision
                                                    /\ status[b] = p.snapshot
      BY <2>4, <3>3 DEF Explained
    <3>5. \/ x = "stored" /\ status'[b] = p.status
          \/ x = "refused" /\ status[b] = "WITHDRAWN" /\ status'[b] = status[b]
          \/ x = "failed" /\ status'[b] = status[b]
      BY <2>4
    <3>6. Explained(n)'
      BY <1>1, <1>3, <2>4, <3>4, <3>5 DEF Explained, Agreed, Decision
    <3>7. QED BY <3>1, <3>2, <3>6 DEF Handled
  <2>5. QED BY <2>3, <2>4
<1>8. QED BY <1>4, <1>5, <1>6, <1>7 DEF IInv

\* The server stores or refuses an update.
LEMMA ArriveKeeps ==
  ASSUME IInv, NEW p \in puts, Arrive(p)
  PROVE  IInv'
<1>1. p.app \in Apps /\ p.status \in ApplicationStatus
  BY DEF IInv, TypeOK, Put, ApplicationStatus
<1>2. CASE status[p.app] = "WITHDRAWN"
  BY <1>1, <1>2, MessageKeeps DEF Arrive, IInv, TypeOK
<1>3. CASE status[p.app] # "WITHDRAWN"
  BY <1>1, <1>3, MessageKeeps DEF Arrive, IInv, TypeOK
<1>4. QED BY <1>2, <1>3

\* A request or an answer is lost.
LEMMA LoseKeeps ==
  ASSUME IInv, NEW p \in puts, Lose(p)
  PROVE  IInv'
<1>1. p.app \in Apps
  BY DEF IInv, TypeOK, Put
<1>2. /\ puts' = (puts \ {p}) \cup {[p EXCEPT !.state = "failed"]} /\ status' = status
      /\ tidy' = [tidy EXCEPT ![p.app] = tidy[p.app] /\ p.state = "sent"]
      /\ UNCHANGED <<view, queue, sent, decisions, mounts>>
  BY DEF Lose
<1>3. /\ tidy' \in [Apps -> BOOLEAN] /\ \A b \in Apps : tidy'[b] => tidy[b]
      /\ tidy'[p.app] => p.state = "sent"
  BY <1>1, <1>2 DEF IInv, TypeOK
<1>4. status \in [Apps -> ApplicationStatus]
  BY DEF IInv, TypeOK
<1>5. QED BY <1>2, <1>3, <1>4, MessageKeeps

\* An answer leaves the screen as it is, or rolls back what its update had made of it.
LEMMA AnswerKeeps ==
  ASSUME IInv, NEW p \in puts, Answer(p)
  PROVE  IInv'
<1> DEFINE back == p.state \in {"refused", "failed"} /\ p.mount = mounts /\ phase # "closed"
<1>1. /\ puts' = puts \ {p} /\ p.state # "sent"
      /\ UNCHANGED <<index, flying, armed, isSwapping, drag, showResume,
                     phase, items, pos, pages, sent, status, mounts, tidy>>
      /\ IF back THEN RollBack(p) ELSE UNCHANGED <<decisions, pendingUndo>>
  BY DEF Answer, queue
<1>2. p \in Put /\ p.app \in Apps
  BY DEF IInv, TypeOK, Put
<1> DEFINE v == IF p.status # "NEW" THEN None ELSE IF p.snapshot # None THEN p.snapshot
                                              ELSE decisions[p.app]
<1>3. back => /\ decisions' = [decisions EXCEPT ![p.app] = v]
              /\ pendingUndo' \in {pendingUndo, NoUndo}
              /\ pendingUndo' # NoUndo =>
                   p.status = "NEW" \/ pendingUndo.app # p.app
  BY <1>1, <1>2 DEF RollBack, IInv, TypeOK
<1>4. v \in Decision \cup {None}
  BY <1>2 DEF IInv, TypeOK, Put
<1>5. /\ decisions' \in [Apps -> Decision \cup {None}]
      /\ \A b \in Apps \ {p.app} : decisions'[b] = decisions[b]
      /\ decisions'[p.app] = IF back THEN v ELSE decisions[p.app]
      /\ pendingUndo' \in {pendingUndo, NoUndo}
  BY <1>1, <1>2, <1>3, <1>4 DEF IInv, TypeOK
<1>6. phase # "ready" => pendingUndo' = NoUndo /\ (phase # "closed" => ~back)
  BY <1>5 DEF IInv, TypeOK, Parked
<1>7. TypeOK'
  BY <1>1, <1>5 DEF IInv, TypeOK, Chips, Total
<1>8. Parked'
  <2>1. phase \in {"loading", "error"} => decisions' = decisions
    BY <1>1, <1>6
  <2>2. QED BY <1>1, <1>6, <2>1 DEF IInv, Parked, Total
<1>9. UndoPointsAtDecision'
  <2> SUFFICES ASSUME pendingUndo' # NoUndo PROVE decisions'[pendingUndo'.app] # None
    BY DEF UndoPointsAtDecision
  <2>1. pendingUndo' = pendingUndo /\ decisions[pendingUndo.app] # None
        /\ pendingUndo.app \in Apps
    BY <1>5 DEF IInv, TypeOK, UndoPointsAtDecision
  <2>2. CASE pendingUndo.app # p.app \/ ~back
    BY <1>5, <2>1, <2>2
  <2>3. CASE pendingUndo.app = p.app /\ back
    <3>1. p.status = "NEW"
      BY <1>3, <2>3
    <3>2. QED BY <1>5, <2>1, <2>3, <3>1
  <2>4. QED BY <2>2, <2>3
<1>10. AllHandled'
  <2> SUFFICES ASSUME NEW b \in Apps, InQueue(b)', tidy'[b] PROVE Handled(b)'
    BY DEF AllHandled
  <2>1. InQueue(b) /\ tidy[b]
    BY <1>1 DEF InQueue, Total
  <2>2. Handled(b)
    BY <2>1 DEF IInv, AllHandled
  <2>3. CASE b # p.app
    <3>1. \A q \in puts' : q.app = b => q \in puts
      BY <1>1
    <3>2. InFlight(b)' <=> InFlight(b)
      BY <1>1, <2>3 DEF InFlight
    <3>3. decisions'[b] = decisions[b]
      BY <1>5, <2>3
    <3>4. \A q \in puts' : q.app = b => Explained(q)'
      BY <1>1, <2>2, <3>1, <3>3 DEF Handled, Explained, Agreed
    <3>5. QED BY <1>1, <2>2, <3>1, <3>2, <3>3, <3>4 DEF Handled, Agreed
  <2>4. CASE b = p.app
    <3>1. ~InFlight(b)' /\ \A q \in puts' : q.app # b
      BY <1>1, <2>2, <2>4 DEF Handled, InFlight
    <3>2. Explained(p)
      BY <2>2, <2>4 DEF Handled
    <3>3. phase # "closed"
      BY <2>1 DEF IInv, Parked, InQueue, Total
    <3>4. back <=> p.state # "stored"
      BY <1>1, <1>2, <3>2, <3>3 DEF Explained, Put
    <3>5. p.status \in Decision \/ p.status = "NEW"
      BY <1>2 DEF Put
    <3>6. decisions'[b] = Agreed(status[b])
      <4>1. CASE p.status \in Decision
        BY <1>5, <2>4, <3>2, <3>4, <4>1 DEF Explained, Agreed, Decision
      <4>2. CASE p.status = "NEW"
        BY <1>5, <2>4, <3>2, <3>4, <4>2 DEF Explained, Agreed, Decision, None
      <4>3. QED BY <3>5, <4>1, <4>2
    <3>7. QED BY <1>1, <3>1, <3>6 DEF Handled, Agreed
  <2>5. QED BY <2>3, <2>4
<1>11. QED BY <1>7, <1>8, <1>9, <1>10 DEF IInv

\* A withdrawal finds the application NEW, which the screen shows as undecided.
LEMMA WithdrawKeeps ==
  ASSUME IInv, NEW a \in Apps, Withdraw(a)
  PROVE  IInv'
<1>1. /\ status[a] = "NEW" /\ status' = [status EXCEPT ![a] = "WITHDRAWN"]
      /\ UNCHANGED <<index, pendingUndo, flying, armed, isSwapping, drag, showResume,
                     phase, items, pos, pages, puts, sent, decisions, mounts, tidy>>
  BY DEF Withdraw, view, queue
<1>2. /\ status' \in [Apps -> ApplicationStatus]
      /\ status'[a] = "WITHDRAWN" /\ \A b \in Apps \ {a} : status'[b] = status[b]
  BY <1>1 DEF IInv, TypeOK, ApplicationStatus
<1>3. TypeOK'
  BY <1>1, <1>2 DEF IInv, TypeOK, Chips, Total
<1>4. Parked' /\ UndoPointsAtDecision'
  BY <1>1 DEF IInv, Parked, Total, UndoPointsAtDecision
<1>5. AllHandled'
  <2> SUFFICES ASSUME NEW b \in Apps, InQueue(b)', tidy'[b] PROVE Handled(b)'
    BY DEF AllHandled
  <2>1. Handled(b)
    BY <1>1 DEF IInv, AllHandled, InQueue, Total
  <2>2. Agreed(status'[b]) = Agreed(status[b])
    BY <1>1, <1>2 DEF Agreed, Decision
  <2>3. \A p \in puts : p.app = b => Explained(p)'
    <3> SUFFICES ASSUME NEW p \in puts, p.app = b PROVE Explained(p)'
      OBVIOUS
    <3>1. Explained(p)
      BY <2>1 DEF Handled
    <3>2. CASE b = a
      BY <1>1, <1>2, <3>1, <3>2 DEF Explained, Agreed, Decision
    <3>3. CASE b # a
      BY <1>1, <1>2, <3>1, <3>3 DEF Explained, Agreed
    <3>4. QED BY <3>2, <3>3
  <2>4. QED BY <1>1, <2>1, <2>2, <2>3 DEF Handled, InFlight, Agreed
<1>6. QED BY <1>3, <1>4, <1>5 DEF IInv

-------------------------------------------------------------------------------
(* The theorems.                                                           *)

\* The screen is closed and nothing is under way.
LEMMA InitOK == ASSUME Init PROVE IInv
<1>1. TypeOK
  <2>1. items \in Seq(Apps) /\ puts \subseteq Put
    BY DEF Init
  <2>2. /\ decisions \in [Apps -> Decision \cup {None}] /\ tidy \in [Apps -> BOOLEAN]
        /\ status \in [Apps -> ApplicationStatus]
    BY DEF Init, ApplicationStatus
  <2>3. QED BY <2>1, <2>2 DEF Init, TypeOK
<1>2. Parked /\ UndoPointsAtDecision
  BY DEF Init, Parked, UndoPointsAtDecision
<1>3. AllHandled
  BY DEF Init, AllHandled, InQueue, Total
<1>4. QED BY <1>1, <1>2, <1>3 DEF IInv

\* Every event of the page, the server and the network keeps the invariant.
LEMMA StepKeeps == ASSUME TriageAssumption, IInv, [Next]_vars PROVE IInv'
<1>1. CASE UNCHANGED vars
  BY <1>1 DEF vars, view, queue, remote, IInv, TypeOK, Chips, Total, Parked,
     UndoPointsAtDecision, AllHandled, InQueue, Handled, InFlight, Explained, Agreed
<1>2. QED
  BY <1>1, CarouselKeeps, LoadPageKeeps, QueueKeeps, DecideKeeps, UndoKeeps,
     ArriveKeeps, LoseKeeps, AnswerKeeps, WithdrawKeeps DEF Next

\* The invariant holds of every behaviour.
LEMMA Invariance == ASSUME TriageAssumption PROVE Spec => []IInv
<1>1. Init => IInv
  BY InitOK
<1>2. IInv /\ [Next]_vars => IInv'
  BY StepKeeps
<1>3. QED BY <1>1, <1>2, PTL DEF Spec

\* The queue, the card shown and the updates have their types: in particular the card
\* and the toast name applications of the queue.
THEOREM TypeCorrect == Spec => []TypeOK
<1>1. Spec => []IInv
  BY TriageAssumption, Invariance
<1>2. IInv => TypeOK
  BY DEF IInv
<1>3. QED BY <1>1, <1>2, PTL

\* AdminApplicationsTriagePage.tsx, the two setPendingUndo of the handlers: the toast never
\* offers to take back what the screen shows as undecided.
THEOREM UndoIsOfDecision == Spec => []UndoPointsAtDecision
<1>1. Spec => []IInv
  BY TriageAssumption, Invariance
<1>2. IInv => UndoPointsAtDecision
  BY DEF IInv
<1>3. QED BY <1>1, <1>2, PTL

\* AdminApplicationsTriagePage.tsx, decide() and retractDecision() with their catch
\* handlers: what is shown of an application that was handled one update at a time is
\* what the server has, once nothing of it is under way.
THEOREM ViewAgrees == Spec => []AgreesWhenQuiet
<1>1. Spec => []IInv
  BY TriageAssumption, Invariance
<1>2. IInv => AgreesWhenQuiet
  <2> SUFFICES ASSUME IInv, NEW i \in 1 .. Total, tidy[items[i]], ~InFlight(items[i])
               PROVE  decisions[items[i]] = IF status[items[i]] \in Decision
                                            THEN status[items[i]] ELSE None
    BY DEF AgreesWhenQuiet
  <2>1. items[i] \in Apps /\ InQueue(items[i])
    BY DEF IInv, TypeOK, InQueue, Total
  <2>2. Handled(items[i])
    BY <2>1 DEF IInv, AllHandled
  <2>3. QED BY <2>2 DEF Handled, Agreed
<1>3. QED BY <1>1, <1>2, PTL
================================================================================
