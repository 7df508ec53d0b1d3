------------------------------- MODULE Triage -------------------------------
(***************************************************************************)
(* The triage screen of the administrator: one queue of NEW applications,  *)
(* loaded page by page, decisions shown before the server has stored them, *)
(* an undo, and a carousel that moves by timed slides.  The code is        *)
(* src/frontend/src/pages/admin/AdminApplicationsTriagePage.tsx with       *)
(* components/useTriageQueue.ts, triageComponents.tsx and                  *)
(* triageCandidateCard.tsx.                                                *)
(*                                                                         *)
(* A status update is a message: it is sent, the server applies or refuses *)
(* it in any order, and its answer comes back later, or is lost.           *)
(***************************************************************************)
EXTENDS Integers, Sequences, FiniteSets

CONSTANTS
  Apps,        \* the applications: 1..n, newest first as the server lists them
  HasResume,   \* those whose candidate has a resume_path
  PageSize,    \* rows of one page of the queue (100 in the code)
  MaxPages,    \* pages the hook reads at most (5 in the code)
  MaxPuts,     \* bound: status updates sent
  MaxMounts    \* bound: times the screen is opened

ASSUME TriageAssumption ==
  /\ Apps \subseteq Nat \ {0} /\ IsFiniteSet(Apps)
  /\ HasResume \subseteq Apps
  /\ PageSize \in Nat \ {0} /\ MaxPages \in Nat \ {0}
  /\ MaxPuts \in Nat /\ MaxMounts \in Nat

Decision == {"APPROVED_BY_ADMIN", "REJECTED"}
ApplicationStatus == Decision \cup {"NEW", "WITHDRAWN"}
None == "none"
NoUndo == [app |-> 0, decision |-> None, prevIndex |-> 0]

VARIABLES
  phase,        \* "closed" or what the hook says: "loading", "error", "ready"
  items,        \* the queue, in the order it was loaded
  pos, pages,   \* the cursor and the pages read by the load in progress
  index,        \* the card shown (from 0)
  decisions,    \* what the screen shows as decided
  pendingUndo,  \* what the undo toast offers to take back
  flying,       \* the slide in progress
  armed,        \* the slide's effect found the carousel and set its timer
  isSwapping,   \* the index has just changed and transitions are off
  drag,         \* what the finger on the screen has done so far
  showResume,   \* the resume viewer is open
  mounts,       \* times the screen was opened: the current instance
  puts, sent,   \* updates under way, and how many were ever sent
  status,       \* the server's statuses
  tidy          \* history: see AgreesWhenQuiet

view == <<index, pendingUndo, flying, armed, isSwapping, drag, showResume>>
queue == <<phase, items, pos, pages>>
remote == <<puts, sent, status>>
vars == <<view, queue, remote, decisions, mounts, tidy>>

Total == Len(items)
App(i) == items[i + 1]
Shown == phase = "ready" /\ Total > 0
Current == App(index)
AllDecided == pendingUndo = NoUndo /\ \A i \in 1 .. Total : decisions[items[i]] # None
\* The early returns of the page: the carousel is on screen in no other case.
CarouselShown == Shown /\ ~AllDecided
SummaryShown == Shown /\ AllDecided
Still == flying = None /\ ~isSwapping
\* The keyboard works on every screen; only the resume viewer silences it.
Keys == Shown /\ ~showResume
\* The help dialog only takes buttons away while it is open, so it is left out:
\* every behaviour with it is one without it.
Buttons == CarouselShown

\* SessionStatusStrip: a chip for every item, each of them clickable.
Chips == 0 .. Total - 1
\* RevisitBanner, on the card of a decided application.
Banner(i) == decisions[App(i)] # None
\* CandidateCard: what a card lets the reviewer do; the rest of it is text.
CardOffers(i) == [undo |-> Banner(i), resume |-> i = index /\ App(i) \in HasResume]

Put == [id : Nat, app : Apps, status : Decision \cup {"NEW"},
        snapshot : Decision \cup {None}, mount : Nat,
        state : {"sent", "stored", "refused", "failed"}]
InFlight(a) == \E p \in puts : p.app = a

TypeOK ==
  /\ phase \in {"closed", "loading", "error", "ready"}
  /\ items \in Seq(Apps) /\ pos \in Nat /\ pages \in Nat
  /\ index \in Chips \cup {0}
  /\ decisions \in [Apps -> Decision \cup {None}]
  /\ pendingUndo \in [app : Apps, decision : Decision, prevIndex : Chips] \cup {NoUndo}
  /\ flying \in {None, "next", "prev"} /\ armed \in BOOLEAN /\ isSwapping \in BOOLEAN
  /\ drag \in {None, "short", "left", "right"}
  /\ showResume \in BOOLEAN
  /\ mounts \in Nat /\ sent \in Nat /\ puts \subseteq Put
  /\ status \in [Apps -> ApplicationStatus]
  /\ tidy \in [Apps -> BOOLEAN]

FreshView ==
  /\ index' = 0 /\ pendingUndo' = NoUndo /\ flying' = None /\ armed' = FALSE
  /\ isSwapping' = FALSE /\ drag' = None /\ showResume' = FALSE

Init ==
  /\ phase = "closed" /\ items = <<>> /\ pos = 0 /\ pages = 0
  /\ index = 0 /\ pendingUndo = NoUndo /\ flying = None /\ armed = FALSE
  /\ isSwapping = FALSE /\ drag = None /\ showResume = FALSE
  /\ decisions = [a \in Apps |-> None] /\ mounts = 0 /\ puts = {} /\ sent = 0
  /\ status = [a \in Apps |-> "NEW"] /\ tidy = [a \in Apps |-> TRUE]

-----------------------------------------------------------------------------
(* The queue: useTriageQueue.                                              *)

NewAfter(p) == {a \in Apps : a > p /\ status[a] = "NEW"}
FirstOf(S, n) == {a \in S : Cardinality({b \in S : b < a}) < n}
InOrder(S) == {q \in [1 .. Cardinality(S) -> S] : \A i, j \in DOMAIN q : i < j => q[i] < q[j]}

Mount ==
  /\ mounts < MaxMounts
  /\ phase' = "loading" /\ items' = <<>> /\ pos' = 0 /\ pages' = 0
  /\ mounts' = mounts + 1
  /\ decisions' = [a \in Apps |-> None] /\ tidy' = [a \in Apps |-> TRUE]
  /\ FreshView /\ UNCHANGED remote

Open == phase = "closed" /\ Mount

\* The button of the summary reloads the document.
StartNewReview == SummaryShown /\ Mount

\* One page arrives; the next is asked for while there is a cursor and fewer
\* than MaxPages were read.
LoadPage ==
  LET page == FirstOf(NewAfter(pos), PageSize)
      last == IF page = {} THEN pos ELSE CHOOSE a \in page : \A b \in page : b <= a
  IN
  /\ phase = "loading"
  /\ \E rows \in InOrder(page) : items' = items \o rows
  /\ pos' = last /\ pages' = pages + 1
  /\ phase' = IF NewAfter(last) = {} \/ pages + 1 >= MaxPages THEN "ready" ELSE "loading"
  /\ tidy' = [a \in Apps |-> tidy[a] /\ (a \in page => ~InFlight(a))]
  /\ UNCHANGED <<view, decisions, mounts, remote>>

LoadFail ==
  /\ phase = "loading"
  /\ phase' = "error" /\ items' = <<>> /\ pos' = 0 /\ pages' = 0
  /\ UNCHANGED <<view, decisions, mounts, remote, tidy>>

Reload ==
  /\ phase = "error" /\ phase' = "loading"
  /\ UNCHANGED <<items, pos, pages, view, decisions, mounts, remote, tidy>>

\* Escape, or the exit buttons of the error, empty and summary screens.  What
\* was sent stays under way; its answers find no screen.
Exit ==
  /\ phase # "closed" /\ ~showResume
  /\ phase' = "closed" /\ items' = <<>> /\ pos' = 0 /\ pages' = 0
  /\ decisions' = [a \in Apps |-> None]
  /\ FreshView /\ UNCHANGED <<mounts, remote, tidy>>

-----------------------------------------------------------------------------
(* Decisions.                                                              *)

Send(a, s, snap) ==
  /\ sent < MaxPuts /\ sent' = sent + 1
  /\ puts' = puts \cup {[id |-> sent, app |-> a, status |-> s, snapshot |-> snap,
                         mount |-> mounts, state |-> "sent"]}
  /\ UNCHANGED status

\* decide(): shown at once, the card slides away unless it is the last one, and
\* the update is sent in the background.
Decide(d) ==
  /\ Keys \/ Buttons
  /\ Still
  /\ decisions' = [decisions EXCEPT ![Current] = d]
  /\ pendingUndo' = [app |-> Current, decision |-> d, prevIndex |-> index]
  /\ IF index < Total - 1 THEN flying' = "next" /\ armed' = TRUE
                          ELSE UNCHANGED <<flying, armed>>
  /\ Send(Current, d, None)
  /\ tidy' = [tidy EXCEPT ![Current] = @ /\ decisions[Current] = None /\ ~InFlight(Current)]
  /\ UNCHANGED <<index, isSwapping, drag, showResume, queue, mounts>>

\* Mutant: the snapshot is not kept.
BugRetract(a) ==
  /\ decisions' = [decisions EXCEPT ![a] = None]
  /\ pendingUndo' = IF pendingUndo.app = a THEN NoUndo ELSE pendingUndo
  /\ Send(a, "NEW", None)
  /\ tidy' = [tidy EXCEPT ![a] = @ /\ ~InFlight(a)]
  /\ UNCHANGED <<flying, armed, isSwapping, drag, showResume, queue, mounts>>

\* retractDecision(): the decision disappears and NEW is sent.
Retract(a) ==
  /\ decisions' = [decisions EXCEPT ![a] = None]
  /\ pendingUndo' = IF pendingUndo.app = a THEN NoUndo ELSE pendingUndo
  /\ Send(a, "NEW", decisions[a])
  /\ tidy' = [tidy EXCEPT ![a] = @ /\ ~InFlight(a)]
  /\ UNCHANGED <<flying, armed, isSwapping, drag, showResume, queue, mounts>>

\* undo(), by the toast or by Z: also jumps back to the card decided.
Undo ==
  /\ (Keys \/ Buttons) /\ pendingUndo # NoUndo
  /\ Retract(pendingUndo.app)
  /\ index' = pendingUndo.prevIndex

\* The banner of a decided card; the neighbours of the current card are rendered
\* too and their banners are not disabled.
ClearDecision ==
  /\ Buttons
  /\ \E i \in {index - 1, index, index + 1} \cap Chips : CardOffers(i).undo /\ Retract(App(i))
  /\ UNCHANGED index

\* UndoToast dismisses itself after 5 s.
DismissToast ==
  /\ pendingUndo # NoUndo /\ pendingUndo' = NoUndo
  /\ UNCHANGED <<index, flying, armed, isSwapping, drag, showResume,
                 queue, decisions, mounts, remote, tidy>>

-----------------------------------------------------------------------------
(* The server and the network.                                             *)

\* update_application_status() (see Recruitment.tla): a withdrawn application
\* refuses, any other takes the new status.
Arrive(p) ==
  /\ p \in puts /\ p.state = "sent"
  /\ IF status[p.app] = "WITHDRAWN"
     THEN /\ puts' = (puts \ {p}) \cup {[p EXCEPT !.state = "refused"]}
          /\ UNCHANGED status
     ELSE /\ puts' = (puts \ {p}) \cup {[p EXCEPT !.state = "stored"]}
          /\ status' = [status EXCEPT ![p.app] = p.status]
  /\ UNCHANGED <<view, queue, sent, decisions, mounts, tidy>>

\* The request is lost on its way, or its answer is: axios rejects in both cases.
Lose(p) ==
  /\ p \in puts /\ p.state \in {"sent", "stored"}
  /\ puts' = (puts \ {p}) \cup {[p EXCEPT !.state = "failed"]}
  /\ tidy' = [tidy EXCEPT ![p.app] = @ /\ p.state = "sent"]
  /\ UNCHANGED <<view, queue, sent, status, decisions, mounts>>

\* Mutant: the toast of a failed decision stays.
BugRollBack(p) ==
  /\ decisions' = [decisions EXCEPT ![p.app] = IF p.status # "NEW" THEN None
                                               ELSE IF p.snapshot # None THEN p.snapshot ELSE @]
  /\ UNCHANGED pendingUndo

\* The catch handlers: a failed decision is deleted and its toast withdrawn, a
\* failed retraction puts the snapshot back.
RollBack(p) ==
  IF p.status # "NEW"
  THEN /\ decisions' = [decisions EXCEPT ![p.app] = None]
       /\ pendingUndo' = IF pendingUndo.app = p.app
                         THEN NoUndo ELSE pendingUndo
  ELSE /\ decisions' = IF p.snapshot # None
                       THEN [decisions EXCEPT ![p.app] = p.snapshot] ELSE decisions
       /\ UNCHANGED pendingUndo

Answer(p) ==
  /\ p \in puts /\ p.state # "sent"
  /\ puts' = puts \ {p}
  /\ IF p.state \in {"refused", "failed"} /\ p.mount = mounts /\ phase # "closed"
     THEN RollBack(p) ELSE UNCHANGED <<decisions, pendingUndo>>
  /\ UNCHANGED <<index, flying, armed, isSwapping, drag, showResume,
                 queue, sent, status, mounts, tidy>>

\* The candidate withdraws an application that is still NEW.
Withdraw(a) ==
  /\ status[a] = "NEW" /\ status' = [status EXCEPT ![a] = "WITHDRAWN"]
  /\ UNCHANGED <<view, queue, puts, sent, decisions, mounts, tidy>>

-----------------------------------------------------------------------------
(* The carousel.                                                           *)

HasNext == index < Total - 1
HasPrev == index > 0
CanGo(dir) == IF dir = "next" THEN HasNext ELSE HasPrev

\* slideTo(), by the arrows or the keyboard.  The effect that ends the slide
\* needs the carousel in the document when the slide starts.
SlideTo(dir) ==
  /\ Keys \/ Buttons
  /\ Still /\ CanGo(dir)
  /\ flying' = dir /\ armed' = CarouselShown
  /\ UNCHANGED <<index, pendingUndo, isSwapping, drag, showResume,
                 queue, decisions, mounts, remote, tidy>>

\* transitionend, or the fallback timer, whichever is first.
EndSlide ==
  /\ flying # None /\ armed
  /\ index' = IF flying = "next" THEN IF index + 1 <= Total - 1 THEN index + 1 ELSE Total - 1
                                 ELSE IF index >= 1 THEN index - 1 ELSE 0
  /\ flying' = None /\ armed' = FALSE /\ isSwapping' = TRUE
  /\ UNCHANGED <<pendingUndo, drag, showResume, queue, decisions,
                 mounts, remote, tidy>>

EndSwap ==
  /\ isSwapping /\ isSwapping' = FALSE
  /\ UNCHANGED <<index, pendingUndo, flying, armed, drag, showResume,
                 queue, decisions, mounts, remote, tidy>>

\* A chip of the status strip; a slide in progress goes on.
JumpTo(i) ==
  /\ Buttons /\ i \in Chips /\ i # index
  /\ index' = i
  /\ UNCHANGED <<pendingUndo, flying, armed, isSwapping, drag, showResume,
                 queue, decisions, mounts, remote, tidy>>

TouchStart ==
  /\ Buttons /\ drag = None /\ Still
  /\ drag' = "short"
  /\ UNCHANGED <<index, pendingUndo, flying, armed, isSwapping, showResume,
                 queue, decisions, mounts, remote, tidy>>

\* Past the trigger only towards a neighbour: the drag is clamped at the ends.
TouchMove(d) ==
  /\ CarouselShown /\ drag # None
  /\ (d = "left" => HasNext) /\ (d = "right" => HasPrev)
  /\ drag' = d
  /\ UNCHANGED <<index, pendingUndo, flying, armed, isSwapping, showResume,
                 queue, decisions, mounts, remote, tidy>>

\* The slide a swipe asks for, judged with the neighbours there are now; one that
\* fell short, or has no neighbour any more, asks for none.
Swiped == IF drag = "left" /\ HasNext THEN "next"
          ELSE IF drag = "right" /\ HasPrev THEN "prev" ELSE flying

\* Mutant: the clean-up of the slide replaced, and no timer for the new one.
BugTouchEnd ==
  /\ CarouselShown /\ drag # None /\ drag' = None
  /\ flying' = Swiped /\ armed' = (armed /\ Swiped = flying)
  /\ UNCHANGED <<index, pendingUndo, isSwapping, showResume,
                 queue, decisions, mounts, remote, tidy>>

\* It replaces a slide that a key has started meanwhile; the effect runs anew, and
\* sets the timer, only if the direction changes.
TouchEnd ==
  /\ CarouselShown /\ drag # None /\ drag' = None
  /\ flying' = Swiped /\ armed' = (armed \/ Swiped # flying)
  /\ UNCHANGED <<index, pendingUndo, isSwapping, showResume,
                 queue, decisions, mounts, remote, tidy>>

OpenResume ==
  /\ Buttons /\ CardOffers(index).resume /\ showResume' = TRUE
  /\ UNCHANGED <<index, pendingUndo, flying, armed, isSwapping, drag,
                 queue, decisions, mounts, remote, tidy>>

CloseResume ==
  /\ showResume /\ showResume' = FALSE
  /\ UNCHANGED <<index, pendingUndo, flying, armed, isSwapping, drag,
                 queue, decisions, mounts, remote, tidy>>

-----------------------------------------------------------------------------
Next ==
  \/ Open \/ StartNewReview \/ LoadPage \/ LoadFail \/ Reload \/ Exit
  \/ \E d \in Decision : Decide(d)
  \/ Undo \/ ClearDecision \/ DismissToast
  \/ \E p \in puts : Arrive(p) \/ Lose(p) \/ Answer(p)
  \/ \E a \in Apps : Withdraw(a)
  \/ \E dir \in {"next", "prev"} : SlideTo(dir)
  \/ EndSlide \/ EndSwap
  \/ \E i \in Chips : JumpTo(i)
  \/ TouchStart \/ \E d \in {"short", "left", "right"} : TouchMove(d)
  \/ TouchEnd
  \/ OpenResume \/ CloseResume

Spec == Init /\ [][Next]_vars
\* Timers fire and frames are painted; nobody is obliged to press a key.
FairSpec == Spec /\ WF_vars(EndSlide) /\ WF_vars(EndSwap)

-----------------------------------------------------------------------------
\* What the undo toast offers to take back is a decision the screen still shows:
\* failures, retractions and second decisions in any order never leave a toast
\* that would revert an application the reviewer sees as undecided
\* (AdminApplicationsTriagePage.tsx, the two setPendingUndo in the handlers).
UndoPointsAtDecision == pendingUndo # NoUndo => decisions[pendingUndo.app] # None

\* The optimistic view and the server agree once nothing is under way, in spite
\* of refusals and lost requests, for every application that was handled one
\* update at a time: none sent over another one under way, no decision over a
\* decision, and no answer lost after the server had stored the update.  Each of
\* these conditions is needed: the code has no answer to their opposites.
AgreesWhenQuiet ==
  phase = "ready" =>
    \A i \in 1 .. Total : LET a == items[i] IN
      tidy[a] /\ ~InFlight(a) =>
        decisions[a] = IF status[a] \in Decision THEN status[a] ELSE None

\* A slide whose effect found the carousel ends, and the page takes decisions
\* again, whatever keys, chips and fingers do meanwhile (the transitionend
\* listener and its fallback timer).
ArmedSlideEnds == (flying # None /\ armed) ~> Still

\* Every slide ends: "A safety timeout fires if the event never arrives".  A
\* slide started by a key on the summary screen finds no carousel and sets no
\* timer: when a late failure brings the carousel back, the page is stuck.
SlideEnds == (CarouselShown /\ flying # None) ~> (flying = None)

\* An application whose decision was taken back, and of which every update was
\* answered with success, is NEW again on the server ("Every decision is
\* undo-able for 5 seconds").  Two updates under way may be stored in the other
\* order.
UndoneIsNew ==
  [][\A p \in puts : p.state = "stored" /\ p.status = "NEW" /\ p \notin puts'
       /\ decisions[p.app] = None /\ (\A q \in puts : q.app = p.app => q = p)
       => status[p.app] \in {"NEW", "WITHDRAWN"}]_vars
=============================================================================
