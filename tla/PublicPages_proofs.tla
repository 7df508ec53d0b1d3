------------------------- MODULE PublicPages_proofs -------------------------
(***************************************************************************)
(* Proofs about two parts of the pages an applicant meets: the filters of  *)
(* the lists, foremost of the job board (JobFilters), and the form of an   *)
(* application (ApplyWizard).                                              *)
(*                                                                         *)
(* Filters: their types, and that the salary range in force is always an   *)
(* interval within the bounds; that the salary fields of the job form      *)
(* never store a pair they would show out of order; and that a row is      *)
(* hidden only by what a chip names, that clearing shows all rows, and     *)
(* that the board's address restores what the board shows.                 *)
(*                                                                         *)
(* Form: StepsBehindValid is inductive once it is known that the page that *)
(* loads stands at step 1: a step is left ahead only by HandleNext, which  *)
(* validates it, and by JumpTo, which validates all it passes; what the    *)
(* visitor can change at a step does not touch the steps behind it; and a  *)
(* profile that arrives late makes the email and the résumé valid, and     *)
(* leaves the name as it is or makes that alone invalid.                   *)
(* AccountOwnsItsRecord needs that no request is stored before it is       *)
(* served, that one is sent with an email, and that the account's profile  *)
(* has one; it then follows from the order of the checks in Verdict.       *)
(* What was sent (SentWasComplete, ResumeRefusalExplained) and the one     *)
(* request a page waits for (WaitsForItsRequest) follow from SendInv,      *)
(* which adds why the form offers the file of the profile and that a page  *)
(* has one request of its own.                                             *)
(***************************************************************************)
EXTENDS JobFilters, ApplyWizard, FiniteSetTheorems, TLAPS

-----------------------------------------------------------------------------
(* Salaries.                                                               *)

\* Clamping keeps a number within an interval.
LEMMA ClampWithin ==
  ASSUME NEW x \in Int, NEW b \in Interval
  PROVE  /\ Clamp(x, b) \in Int
         /\ b.lo <= Clamp(x, b)
         /\ Clamp(x, b) <= b.hi
BY DEF Clamp, Most, Least, Interval

\* Clamping keeps the order of two numbers.
LEMMA ClampMonotone ==
  ASSUME NEW x \in Int, NEW y \in Int, x <= y, NEW b \in Interval
  PROVE  Clamp(x, b) <= Clamp(y, b)
BY DEF Clamp, Most, Least, Interval

\* Rounding down and up are integers on either side of the number.
LEMMA Rounding ==
  ASSUME NEW x \in Int
  PROVE  /\ Down(x) \in Int /\ Down(x) <= x
         /\ Up(x) \in Int /\ x <= Up(x)
BY SalaryAssumption, Z3 DEF Down, Up

\* A record of two ordered integers is an interval.
LEMMA IntervalIntro ==
  ASSUME NEW l \in Int, NEW h \in Int, l <= h
  PROVE  [lo |-> l, hi |-> h] \in Interval
BY DEF Interval

\* The ends of an interval.
LEMMA IntervalEnds ==
  ASSUME NEW r \in Interval
  PROVE  r.lo \in Int /\ r.hi \in Int /\ r.lo <= r.hi
BY DEF Interval

\* The absence of a range is written as a degenerate interval.
LEMMA RangeIsInterval == Ranges = Interval
<1>1. NoRange \in Interval
  BY IntervalIntro DEF NoRange, NoSalary
<1> QED BY <1>1 DEF Ranges

\* The bounds of any set of jobs are an interval.
LEMMA BoundsInterval ==
  ASSUME NEW S, \A j \in S : j.lo \in Int /\ j.hi \in Int
  PROVE  SalaryBounds(S) \in Interval
<1>1. CASE Widest(S) = {}
  BY <1>1, SalaryAssumption DEF SalaryBounds
<1>2. CASE Widest(S) # {}
  <2> DEFINE b == CHOOSE x \in Widest(S) : TRUE
  <2>1. b \in Widest(S)
    BY <1>2
  <2>2. b.lo \in {j.lo : j \in S} /\ b.hi \in {j.hi : j \in S} /\ b.lo < b.hi
    BY <2>1 DEF Widest
  <2>3. b.lo \in Int /\ b.hi \in Int
    BY <2>2
  <2> HIDE DEF b
  <2>4. Down(b.lo) \in Int /\ Down(b.lo) <= b.lo /\ Up(b.hi) \in Int /\ b.hi <= Up(b.hi)
    BY <2>3, Rounding
  <2>5. Down(b.lo) <= Up(b.hi)
    BY <2>2, <2>3, <2>4
  <2>6. [lo |-> Down(b.lo), hi |-> Up(b.hi)] \in Interval
    BY <2>4, <2>5, IntervalIntro
  <2> QED BY <1>2, <2>6 DEF SalaryBounds, b
<1> QED BY <1>1, <1>2

\* Whatever range was chosen, the range in force is an interval within the bounds.
LEMMA EffectiveWithin ==
  ASSUME NEW r \in Interval, NEW b \in Interval
  PROVE  /\ Effective(r, b) \in Interval
         /\ b.lo <= Effective(r, b).lo
         /\ Effective(r, b).hi <= b.hi
<1>1. CASE r = NoRange
  BY <1>1, IntervalEnds DEF Effective
<1>2. CASE r # NoRange
  <2>1. r.lo \in Int /\ r.hi \in Int /\ r.lo <= r.hi
    BY IntervalEnds
  <2>2. /\ Clamp(r.lo, b) \in Int /\ b.lo <= Clamp(r.lo, b)
        /\ Clamp(r.hi, b) \in Int /\ Clamp(r.hi, b) <= b.hi
    BY <2>1, ClampWithin
  <2>3. Clamp(r.lo, b) <= Clamp(r.hi, b)
    BY <2>1, ClampMonotone
  <2>4. Effective(r, b) = [lo |-> Clamp(r.lo, b), hi |-> Clamp(r.hi, b)]
    BY <1>2 DEF Effective
  <2> QED BY <2>2, <2>3, <2>4, IntervalIntro
<1> QED BY <1>1, <1>2

\* Either thumb leaves an interval.
LEMMA ThumbsKeepOrder ==
  ASSUME NEW e \in Interval, NEW b \in Interval, b.lo <= e.lo, e.hi <= b.hi, NEW v \in Int
  PROVE  MoveLo(e, b, v) \in Interval /\ MoveHi(e, b, v) \in Interval
<1>1. e.lo \in Int /\ e.hi \in Int /\ e.lo <= e.hi /\ b.lo \in Int /\ b.hi \in Int /\ Step \in Int /\ Step > 0
  BY IntervalEnds, SalaryAssumption
<1>2. Most(b.lo, Least(v, e.hi - Step)) \in Int /\ Most(b.lo, Least(v, e.hi - Step)) <= e.hi
  BY <1>1 DEF Most, Least
<1>3. Least(b.hi, Most(v, e.lo + Step)) \in Int /\ e.lo <= Least(b.hi, Most(v, e.lo + Step))
  BY <1>1 DEF Most, Least
<1> QED BY <1>1, <1>2, <1>3, IntervalIntro DEF MoveLo, MoveHi

\* The fields of the job form: what is shown is always an interval within the
\* form's bounds, whatever was stored (even out of bounds or out of order), and
\* so is what is shown after a typed number was committed at either end.
THEOREM FormFieldOrdered ==
  ASSUME NEW stored \in [lo : Int, hi : Int], NEW n \in Int
  PROVE  LET shown == FieldShown(stored)
             after == {FieldShown(CommitLo(shown, n)), FieldShown(CommitHi(shown, n))}
         IN \A r \in {shown} \cup after :
              r \in Interval /\ Form.lo <= r.lo /\ r.hi <= Form.hi
<1>1. Form.lo \in Int /\ Form.hi \in Int /\ Form.lo < Form.hi /\ Step \in Int /\ Step > 0
  BY SalaryAssumption, IntervalEnds
<1>2. ASSUME NEW s \in [lo : Int, hi : Int]
      PROVE  /\ FieldShown(s) \in Interval
             /\ Form.lo <= FieldShown(s).lo /\ FieldShown(s).hi <= Form.hi
  <2> DEFINE lo == IF s.lo = NoSalary THEN Form.lo ELSE Clamp(s.lo, Form)
             hi == IF s.hi = NoSalary THEN Form.hi ELSE Least(Form.hi, Most(s.hi, Form.lo))
  <2>1. lo \in Int /\ Form.lo <= lo /\ lo <= Form.hi
    BY <1>1 DEF Clamp, Most, Least
  <2>2. hi \in Int /\ hi <= Form.hi
    BY <1>1 DEF Most, Least
  <2>3. FieldShown(s) = [lo |-> lo, hi |-> Most(hi, lo)]
    BY DEF FieldShown
  <2> HIDE DEF lo, hi
  <2>4. Most(hi, lo) \in Int /\ lo <= Most(hi, lo) /\ Most(hi, lo) <= Form.hi
    BY <2>1, <2>2, <1>1 DEF Most
  <2> QED BY <2>1, <2>3, <2>4, IntervalIntro
<1>3. FieldShown(stored).lo \in Int /\ FieldShown(stored).hi \in Int
  BY <1>2, IntervalEnds
<1>4. CommitLo(FieldShown(stored), n) \in [lo : Int, hi : Int]
  BY <1>1, <1>3 DEF CommitLo, Most, Least
<1>5. CommitHi(FieldShown(stored), n) \in [lo : Int, hi : Int]
  BY <1>1, <1>3 DEF CommitHi, Most, Least
<1> QED BY <1>2, <1>4, <1>5

-----------------------------------------------------------------------------
(* The types.                                                              *)

\* Rows of any number of pages are rows.
LEMMA LoadedRows ==
  ASSUME NEW n \in 0 .. Len(Data)
  PROVE  UNION {Data[i] : i \in 1 .. n} \subseteq Row
<1>1. \A i \in 1 .. n : Data[i] \subseteq Row
  BY FiltersAssumption
<1> QED BY <1>1

\* The bounds of any number of pages are an interval.
LEMMA LoadedBounds ==
  ASSUME NEW n \in 0 .. Len(Data)
  PROVE  SalaryBounds(UNION {Data[i] : i \in 1 .. n}) \in Interval
<1>1. \A j \in UNION {Data[i] : i \in 1 .. n} : j.lo \in Int /\ j.hi \in Int
  BY LoadedRows DEF Row, Salary, NoSalary
<1> HIDE DEF Interval
<1> QED BY <1>1, BoundsInterval

\* What a mount reads from an address is a filter.
LEMMA RestoredType ==
  ASSUME NEW u \in Address
  PROVE  Restored(u) \in Filter
<1>1. u.q \in Query /\ u.loc \subseteq Pieces /\ u.salary \in Ranges
  BY DEF Address
<1>2. UNION {IF l \in Locations THEN Split[l] ELSE {l} : l \in u.loc} \subseteq Pieces
  BY <1>1, FiltersAssumption
<1>3. NoFilter \in [query : Query, loc : SUBSET Pieces, salary : {NoRange},
                    companies : SUBSET Companies, jobs : SUBSET Jobs, featured : BOOLEAN]
  BY DEF NoFilter, Query
<1> QED BY <1>1, <1>2, <1>3 DEF Restored, Filter

\* What the effect writes is an address.
LEMMA WrittenType ==
  ASSUME NEW f \in Filter, NEW text \in Query, NEW b \in Interval
  PROVE  Written(f, text, b) \in Address
<1>1. f.loc \in SUBSET Pieces /\ f.salary \in Interval
  BY RangeIsInterval DEF Filter
<1>2. Effective(f.salary, b) \in Ranges
  BY <1>1, EffectiveWithin, RangeIsInterval
<1>3. NoRange \in Ranges
  BY DEF Ranges
<1> QED BY <1>1, <1>2, <1>3 DEF Written, Address

\* The empty address and the mark of an absent one.
LEMMA EmptyType == Empty \in Address
BY DEF Empty, Address, Query, Ranges

\* The effect keeps the address typed.
LEMMA SyncedType ==
  ASSUME FiltersTyped, Synced, view' = view,
         chosen' \in Filter, debounced' \in Query, pages' \in 0 .. Len(Data)
  PROVE  url' \in Address /\ older' \in Address \cup {NoUrl} /\ followed' \in BOOLEAN
<1>1. SalaryBounds(Loaded)' \in Interval
  BY LoadedBounds DEF Loaded, SalaryBounds, Widest
<1>2. Written(chosen', debounced', SalaryBounds(Loaded)') \in Address
  BY <1>1, WrittenType
<1> QED BY <1>2 DEF Synced, FiltersTyped

\* A choice of a typed filter keeps the types, the counters apart.
LEMMA ChooseType ==
  ASSUME FiltersTyped, NEW f \in Filter, Choose(f), cleared' \in BOOLEAN, used' \in 0 .. FilterActs
  PROVE  FiltersTyped'
<1>1. /\ chosen' \in Filter /\ debounced' \in Query /\ pages' \in 0 .. Len(Data)
      /\ view' = view
  BY DEF Choose, FiltersTyped, loading
<1>2. url' \in Address /\ older' \in Address \cup {NoUrl} /\ followed' \in BOOLEAN
  BY <1>1, SyncedType DEF Choose
<1> QED BY <1>1, <1>2 DEF Choose, FiltersTyped, loading

\* Each kind of choice is a filter.
LEMMA FilterUpdates ==
  ASSUME FiltersTyped
  PROVE  /\ \A w \in Query : [chosen EXCEPT !.query = w] \in Filter
         /\ \A S \in SUBSET Pieces : [chosen EXCEPT !.loc = S] \in Filter
         /\ \A r \in Interval : [chosen EXCEPT !.salary = r] \in Filter
         /\ \A S \in SUBSET Companies : [chosen EXCEPT !.companies = S] \in Filter
         /\ \A S \in SUBSET Jobs : [chosen EXCEPT !.jobs = S] \in Filter
         /\ \A S \in SUBSET Companies, T \in SUBSET Jobs :
              [chosen EXCEPT !.companies = S, !.jobs = T] \in Filter
         /\ [chosen EXCEPT !.featured = ~chosen.featured] \in Filter
         /\ [chosen EXCEPT !.featured = FALSE] \in Filter
BY RangeIsInterval DEF FiltersTyped, Filter

\* The bounds at any time.
LEMMA BoundsType ==
  ASSUME FiltersTyped
  PROVE  Bounds \in Interval /\ chosen.salary \in Interval
<1>1. Bounds \in Interval
  BY LoadedBounds DEF Bounds, Loaded, FiltersTyped
<1>2. chosen.salary \in Interval
  BY RangeIsInterval DEF FiltersTyped, Filter
<1> QED BY <1>1, <1>2

\* The acts are counted.
LEMMA ActsCounted ==
  ASSUME FiltersTyped, used < FilterActs, used' = used + 1
  PROVE  used' \in 0 .. FilterActs
BY FiltersAssumption DEF FiltersTyped

\* What may be picked exists.
LEMMA OptionsType ==
  ASSUME FiltersTyped
  PROVE  /\ UniqueLocations \subseteq Pieces
         /\ CompanyOptions \subseteq Companies
         /\ \A cs : JobOptions(cs) \subseteq Jobs
<1>1. \A r \in Loaded : r \in AllRows
  <2>1. \A i \in 1 .. pages : i \in DOMAIN Data
    BY FiltersAssumption DEF FiltersTyped
  <2> QED BY <2>1 DEF Loaded, AllRows
<1>2. UniqueLocations \subseteq Pieces
  BY <1>1 DEF UniqueLocations, Locations, Pieces
<1>3. CompanyOptions \subseteq Companies
  BY <1>1 DEF CompanyOptions, Companies
<1>4. \A cs : JobOptions(cs) \subseteq Jobs
  BY DEF JobOptions, JobsOf, Jobs
<1> QED BY <1>2, <1>3, <1>4

\* Spec keeps the types: whatever pages arrive and whatever is chosen, the
\* filters, the address and its history stay well formed.
THEOREM FiltersTypes == FiltersSpec => []FiltersTyped
<1>1. FiltersInit => FiltersTyped
  <2> SUFFICES ASSUME FiltersInit PROVE FiltersTyped
    OBVIOUS
  <2>1. PICK u \in Links :
          /\ chosen = Restored(u) /\ debounced = u.q
          /\ hero = [typed |-> u.q, settled |-> u.q]
          /\ url = Written(Restored(u), u.q, SalaryBounds({}))
    BY DEF FiltersInit
  <2>2. u \in Address /\ u.q \in Query /\ Restored(u) \in Filter
    BY FiltersAssumption, RestoredType DEF Address
  <2>3. SalaryBounds({}) \in Interval
    BY BoundsInterval
  <2>4. url \in Address
    BY <2>1, <2>2, <2>3, WrittenType
  <2>5. Len(Data) \in Nat
    BY FiltersAssumption
  <2>6. hero \in [typed : Query, settled : Query] /\ debounced \in Query /\ chosen \in Filter
    BY <2>1, <2>2
  <2>7. pages \in 0 .. Len(Data) /\ used \in 0 .. FilterActs
    BY <2>5, FiltersAssumption DEF FiltersInit
  <2>8. older \in Address \cup {NoUrl}
    BY DEF FiltersInit
  <2> QED BY <2>4, <2>6, <2>7, <2>8 DEF FiltersInit, FiltersTyped
<1>2. FiltersTyped /\ [FiltersNext]_filterVars => FiltersTyped'
  <2> SUFFICES ASSUME FiltersTyped, [FiltersNext]_filterVars PROVE FiltersTyped'
    OBVIOUS
  <2> USE DEF loading, address
  <2>1. CASE Remount
    <3>1. url \in Address /\ url.q \in Query
      BY DEF FiltersTyped, Address
    <3>2. Restored(url) \in Filter
      BY <3>1, RestoredType
    <3>3. Written(Restored(url), url.q, SalaryBounds({})) \in Address
      BY <3>1, <3>2, BoundsInterval, WrittenType
    <3>4. used' \in 0 .. FilterActs
      BY <2>1, ActsCounted DEF Remount
    <3>5. /\ hero' \in [typed : Query, settled : Query] /\ debounced' \in Query
          /\ chosen' \in Filter /\ url' \in Address
      BY <2>1, <3>1, <3>2, <3>3 DEF Remount
    <3>6. pages' \in 0 .. Len(Data)
      BY <2>1 DEF Remount, FiltersTyped
    <3>7. view' \in Views /\ older' \in Address \cup {NoUrl} /\ cached' \in BOOLEAN
      BY <2>1 DEF Remount, FiltersTyped
    <3> QED BY <2>1, <3>4, <3>5, <3>6, <3>7 DEF Remount, FiltersTyped
  <2>2. CASE TypeHero
    BY <2>2, ActsCounted DEF TypeHero, FiltersTyped, Acts
  <2>3. CASE Type
    <3>1. chosen' \in Filter
      BY <2>3, FilterUpdates DEF Type
    <3> QED BY <2>3, <3>1, ActsCounted DEF Type, FiltersTyped, Acts
  <2>4. CASE PickLocation
    <3>1. PICK l \in UniqueLocations :
            Choose([chosen EXCEPT !.loc = IF l \in chosen.loc THEN chosen.loc \ {l} ELSE chosen.loc \cup {l}])
      BY <2>4 DEF PickLocation
    <3>2. l \in Pieces /\ chosen.loc \subseteq Pieces
      BY OptionsType DEF FiltersTyped, Filter
    <3>3. [chosen EXCEPT !.loc = IF l \in chosen.loc THEN chosen.loc \ {l} ELSE chosen.loc \cup {l}] \in Filter
      BY <3>2, FilterUpdates
    <3>4. used' \in 0 .. FilterActs /\ cleared' \in BOOLEAN
      BY <2>4, ActsCounted DEF PickLocation, Acts
    <3> QED BY <3>1, <3>3, <3>4, ChooseType
  <2>5. CASE AllLocations
    <3>1. [chosen EXCEPT !.loc = {}] \in Filter
      BY FilterUpdates
    <3>2. used' \in 0 .. FilterActs /\ cleared' \in BOOLEAN
      BY <2>5, ActsCounted DEF AllLocations, Acts, FiltersTyped
    <3> QED BY <2>5, <3>1, <3>2, ChooseType DEF AllLocations
  <2>6. CASE MoveThumb
    <3> DEFINE e == Effective(chosen.salary, Bounds)
    <3>1. /\ Bounds \in Interval /\ e \in Interval
          /\ Bounds.lo <= e.lo /\ e.hi <= Bounds.hi
      BY BoundsType, EffectiveWithin
    <3> HIDE DEF e
    <3>2. PICK v \in Bounds.lo .. Bounds.hi :
            \/ Choose([chosen EXCEPT !.salary = MoveLo(e, Bounds, v)])
            \/ Choose([chosen EXCEPT !.salary = MoveHi(e, Bounds, v)])
      BY <2>6 DEF MoveThumb, e
    <3>3. v \in Int
      BY <3>1, IntervalEnds
    <3>4. MoveLo(e, Bounds, v) \in Interval /\ MoveHi(e, Bounds, v) \in Interval
      BY <3>1, <3>3, ThumbsKeepOrder
    <3>5. /\ [chosen EXCEPT !.salary = MoveLo(e, Bounds, v)] \in Filter
          /\ [chosen EXCEPT !.salary = MoveHi(e, Bounds, v)] \in Filter
      BY <3>4, FilterUpdates
    <3>6. used' \in 0 .. FilterActs /\ cleared' \in BOOLEAN
      BY <2>6, ActsCounted DEF MoveThumb, Acts
    <3> QED BY <3>2, <3>5, <3>6, ChooseType
  <2>7. CASE ResetSalary
    <3>1. [chosen EXCEPT !.salary = Bounds] \in Filter
      BY BoundsType, FilterUpdates
    <3>2. used' \in 0 .. FilterActs /\ cleared' \in BOOLEAN
      BY <2>7, ActsCounted DEF ResetSalary, Acts, FiltersTyped
    <3> QED BY <2>7, <3>1, <3>2, ChooseType DEF ResetSalary
  <2>8. CASE PickFeatured
    <3>1. [chosen EXCEPT !.featured = ~chosen.featured] \in Filter
      BY FilterUpdates
    <3>2. used' \in 0 .. FilterActs /\ cleared' \in BOOLEAN
      BY <2>8, ActsCounted DEF PickFeatured, Acts
    <3> QED BY <2>8, <3>1, <3>2, ChooseType DEF PickFeatured
  <2>9. CASE RemoveChip
    <3>1. used' \in 0 .. FilterActs /\ cleared' \in BOOLEAN
      BY <2>9, ActsCounted DEF RemoveChip, Acts, FiltersTyped
    <3>2. "" \in Query
      BY DEF Query
    <3>3. chosen.loc \subseteq Pieces /\ chosen.companies \subseteq Companies /\ chosen.jobs \subseteq Jobs
      BY DEF FiltersTyped, Filter
    <3>4. CASE /\ chosen' = [chosen EXCEPT !.query = ""]
               /\ UNCHANGED <<view, loading, hero, debounced, drawer, popover, address>>
      <4>1. chosen' \in Filter
        BY <3>2, <3>4, FilterUpdates
      <4> QED BY <3>1, <3>4, <4>1 DEF FiltersTyped
    <3>5. CASE Choose([chosen EXCEPT !.salary = NoRange])
      <4>1. NoRange \in Interval
        BY RangeIsInterval DEF Ranges
      <4>2. [chosen EXCEPT !.salary = NoRange] \in Filter
        BY <4>1, FilterUpdates
      <4> QED BY <3>1, <3>5, <4>2, ChooseType
    <3>6. CASE Choose([chosen EXCEPT !.featured = FALSE])
      <4>1. [chosen EXCEPT !.featured = FALSE] \in Filter
        BY FilterUpdates
      <4> QED BY <3>1, <3>6, <4>1, ChooseType
    <3>7. CASE \E l \in chosen.loc : Choose([chosen EXCEPT !.loc = chosen.loc \ {l}])
      <4>1. PICK l \in chosen.loc : Choose([chosen EXCEPT !.loc = chosen.loc \ {l}])
        BY <3>7
      <4>2. [chosen EXCEPT !.loc = chosen.loc \ {l}] \in Filter
        BY <3>3, FilterUpdates
      <4> QED BY <3>1, <4>1, <4>2, ChooseType
    <3>8. CASE \E c \in chosen.companies : Choose([chosen EXCEPT !.companies = chosen.companies \ {c}])
      <4>1. PICK c \in chosen.companies : Choose([chosen EXCEPT !.companies = chosen.companies \ {c}])
        BY <3>8
      <4>2. [chosen EXCEPT !.companies = chosen.companies \ {c}] \in Filter
        BY <3>3, FilterUpdates
      <4> QED BY <3>1, <4>1, <4>2, ChooseType
    <3>9. CASE \E j \in chosen.jobs : Choose([chosen EXCEPT !.jobs = chosen.jobs \ {j}])
      <4>1. PICK j \in chosen.jobs : Choose([chosen EXCEPT !.jobs = chosen.jobs \ {j}])
        BY <3>9
      <4>2. [chosen EXCEPT !.jobs = chosen.jobs \ {j}] \in Filter
        BY <3>3, FilterUpdates
      <4> QED BY <3>1, <4>1, <4>2, ChooseType
    <3> QED BY <2>9, <3>4, <3>5, <3>6, <3>7, <3>8, <3>9 DEF RemoveChip
  <2>10. CASE TogglePopover
    BY <2>10, ActsCounted DEF TogglePopover, FiltersTyped, Acts
  <2>11. CASE PickCompany
    <3> DEFINE Next1(c) == (chosen.companies \ {c}) \cup ({c} \ chosen.companies)
    <3>1. PICK cs \in {{}} \cup {Next1(c) : c \in CompanyOptions} :
            Choose([chosen EXCEPT
              !.companies = cs,
              !.jobs = IF view # "jobs" /\ cs # {} THEN chosen.jobs \cap JobOptions(cs) ELSE chosen.jobs])
      BY <2>11 DEF PickCompany
    <3>2. chosen.companies \subseteq Companies /\ chosen.jobs \subseteq Jobs
      BY DEF FiltersTyped, Filter
    <3>3. cs \subseteq Companies
      BY <3>2, OptionsType
    <3>4. (IF view # "jobs" /\ cs # {} THEN chosen.jobs \cap JobOptions(cs) ELSE chosen.jobs) \subseteq Jobs
      BY <3>2
    <3>5. used' \in 0 .. FilterActs /\ cleared' \in BOOLEAN
      BY <2>11, ActsCounted DEF PickCompany, Acts
    <3>6. [chosen EXCEPT
              !.companies = cs,
              !.jobs = IF view # "jobs" /\ cs # {} THEN chosen.jobs \cap JobOptions(cs) ELSE chosen.jobs] \in Filter
      BY <3>3, <3>4, FilterUpdates
    <3> QED BY <3>1, <3>5, <3>6, ChooseType
  <2>12. CASE PickJob
    <3> DEFINE Next1(j) == (chosen.jobs \ {j}) \cup ({j} \ chosen.jobs)
    <3>1. PICK js \in {{}} \cup {Next1(j) : j \in JobOptions(chosen.companies)} :
            Choose([chosen EXCEPT !.jobs = js])
      BY <2>12 DEF PickJob
    <3>2. chosen.jobs \subseteq Jobs
      BY DEF FiltersTyped, Filter
    <3>3. js \subseteq Jobs
      BY <3>2, OptionsType
    <3>4. [chosen EXCEPT !.jobs = js] \in Filter
      BY <3>3, FilterUpdates
    <3>5. used' \in 0 .. FilterActs /\ cleared' \in BOOLEAN
      BY <2>12, ActsCounted DEF PickJob, Acts
    <3> QED BY <3>1, <3>4, <3>5, ChooseType
  <2>13. CASE Clear
    <3>1. NoFilter \in Filter
      BY DEF NoFilter, Filter, Query, Ranges
    <3>2. used' \in 0 .. FilterActs /\ cleared' \in BOOLEAN
      BY <2>13, ActsCounted DEF Clear, Acts
    <3> QED BY <2>13, <3>1, <3>2, ChooseType DEF Clear
  <2>14. CASE Toggle
    BY <2>14, ActsCounted DEF Toggle, FiltersTyped, Acts
  <2>15. CASE FollowLink
    BY <2>15, ActsCounted, EmptyType DEF FollowLink, FiltersTyped
  <2>16. CASE Back
    <3>1. url' \in Address
      BY <2>16 DEF Back, FiltersTyped
    <3> QED BY <2>16, <3>1, ActsCounted DEF Back, FiltersTyped
  <2>17. CASE Scroll
    BY <2>17 DEF Scroll, FiltersTyped
  <2>18. CASE PageArrives
    <3>1. pages' \in 0 .. Len(Data)
      BY <2>18, FiltersAssumption DEF PageArrives, FiltersTyped
    <3>2. chosen' \in Filter /\ debounced' \in Query /\ view' = view
      BY <2>18 DEF PageArrives, FiltersTyped
    <3>3. url' \in Address /\ older' \in Address \cup {NoUrl} /\ followed' \in BOOLEAN
      BY <2>18, <3>1, <3>2, SyncedType DEF PageArrives
    <3> QED BY <2>18, <3>1, <3>2, <3>3 DEF PageArrives, FiltersTyped
  <2>19. CASE PageFails
    BY <2>19 DEF PageFails, FiltersTyped
  <2>20. CASE CacheArrives
    BY <2>20 DEF CacheArrives, FiltersTyped
  <2>21. CASE HeroSettles
    <3>1. hero.typed \in Query
      BY DEF FiltersTyped
    <3>2. chosen' \in Filter
      BY <2>21, <3>1, FilterUpdates DEF HeroSettles
    <3> QED BY <2>21, <3>2 DEF HeroSettles, FiltersTyped
  <2>22. CASE QuerySettles
    <3>1. chosen.query \in Query
      BY DEF FiltersTyped, Filter
    <3>2. chosen' \in Filter /\ debounced' \in Query /\ view' = view /\ pages' \in 0 .. Len(Data)
      BY <2>22, <3>1 DEF QuerySettles, FiltersTyped
    <3>3. url' \in Address /\ older' \in Address \cup {NoUrl} /\ followed' \in BOOLEAN
      BY <2>22, <3>2, SyncedType DEF QuerySettles
    <3> QED BY <2>22, <3>2, <3>3 DEF QuerySettles, FiltersTyped
  <2>23. CASE UNCHANGED filterVars
    BY <2>23 DEF filterVars, FiltersTyped
  <2> QED
    BY <2>1, <2>2, <2>3, <2>4, <2>5, <2>6, <2>7, <2>8, <2>9, <2>10, <2>11, <2>12, <2>13, <2>14,
       <2>15, <2>16, <2>17, <2>18, <2>19, <2>20, <2>21, <2>22, <2>23 DEF FiltersNext, User
<1> QED BY <1>1, <1>2, PTL DEF FiltersSpec

\* However many pages arrive and move the bounds, and whatever was chosen under
\* other bounds or read from an address, the salary range in force is an
\* interval within the bounds: for all data, steps, links and histories.
THEOREM RangeStaysInBounds == FiltersSpec => []RangeInBounds
<1>1. FiltersTyped => RangeInBounds
  <2> SUFFICES ASSUME FiltersTyped PROVE RangeInBounds
    OBVIOUS
  <2> DEFINE e == Effective(chosen.salary, Bounds)
  <2>1. e \in Interval /\ Bounds.lo <= e.lo /\ e.hi <= Bounds.hi
    BY BoundsType, EffectiveWithin
  <2>2. e.lo <= e.hi
    BY <2>1, IntervalEnds
  <2> QED BY <2>1, <2>2 DEF RangeInBounds
<1> QED BY <1>1, FiltersTypes, PTL

-----------------------------------------------------------------------------
(* What is shown, and what the address restores.                           *)

\* What hides a row is a filter that has a chip; when that is the salary alone, the
\* row pays nothing within the range.
LEMMA HiddenByChip == FiltersTyped => HiddenExplained
<1> SUFFICES ASSUME FiltersTyped, Settled, NEW r \in Loaded \ Shown
             PROVE  /\ Chips # {} /\ ActiveFilters
                    /\ Chips = {"salary"} =>
                         ~\E s \in Effective(chosen.salary, Bounds).lo ..
                                   Effective(chosen.salary, Bounds).hi :
                            /\ r.lo = NoSalary \/ r.lo <= s
                            /\ r.hi = NoSalary \/ s <= r.hi
  BY DEF HiddenExplained
<1> DEFINE e == Effective(chosen.salary, Bounds)
<1>1. ~Passes(r, chosen, debounced)
  BY DEF Shown, Filtered
<1>2. chosen.query = debounced
  BY DEF Settled
<1>3. CASE debounced # ""
  <2>1. "query" \in Chips /\ ActiveFilters
    BY <1>2, <1>3 DEF Chips, ActiveFilters
  <2> QED
    BY <2>1
<1>4. CASE chosen.loc # {} \/ chosen.companies # {} \/ chosen.jobs # {} \/ chosen.featured
  <2>1. PICK k \in {"loc", "company", "job", "featured"} : k \in Chips
    BY <1>4 DEF Chips
  <2>2. ActiveFilters
    BY <2>1 DEF ActiveFilters
  <2> QED
    BY <2>1, <2>2
<1>5. CASE /\ debounced = "" /\ chosen.loc = {} /\ chosen.companies = {}
           /\ chosen.jobs = {} /\ ~chosen.featured
  <2>1. IsActive(chosen.salary, Bounds) /\ ~Overlaps(r, e)
    BY <1>1, <1>5 DEF Passes
  <2>2. "salary" \in Chips /\ ActiveFilters
    <3>1. "salary" \in Chips
      BY <2>1 DEF Chips
    <3>2. "salary" \in Chips \ {"query"}
      BY <3>1
    <3> QED
      BY <3>1, <3>2, Zenon DEF ActiveFilters
  <2>3. e \in Interval
    BY BoundsType, EffectiveWithin
  <2>4. e.lo \in Int /\ e.hi \in Int
    BY <2>3, IntervalEnds
  <2>5. r \in Row
    BY LoadedRows DEF Loaded, FiltersTyped
  <2>6. r.lo \in Int /\ r.hi \in Int
    BY <2>5 DEF Row, Salary, NoSalary
  <2> HIDE DEF e
  <2>7. ASSUME NEW s \in e.lo .. e.hi,
               r.lo = NoSalary \/ r.lo <= s, r.hi = NoSalary \/ s <= r.hi
        PROVE  FALSE
    BY <2>1, <2>4, <2>6, <2>7 DEF Overlaps
  <2> QED
    BY <2>2, <2>7 DEF e
<1> QED
  BY <1>3, <1>4, <1>5

\* A row is hidden only if a chip names what hides it (JobsFilterPanel.tsx:116).
THEOREM HidingIsExplained == FiltersSpec => []HiddenExplained
  BY FiltersTypes, HiddenByChip, PTL

\* Nothing is chosen and nothing is typed that a debounce could still choose.
Untouched == cleared => chosen = NoFilter /\ hero.typed = hero.settled

\* What is chosen when nothing is.
LEMMA NoFilterFields ==
  /\ NoFilter.query = "" /\ NoFilter.loc = {} /\ NoFilter.salary = NoRange
  /\ NoFilter.companies = {} /\ NoFilter.jobs = {} /\ NoFilter.featured = FALSE
  BY DEF NoFilter

\* Every step keeps it: what leaves the history alone finds nothing to take away.
LEMMA StepKeepsUntouched == FiltersTyped /\ Untouched /\ [FiltersNext]_filterVars => Untouched'
<1> SUFFICES ASSUME FiltersTyped, Untouched, [FiltersNext]_filterVars PROVE Untouched'
  OBVIOUS
<1> USE DEF Untouched
<1>1. ~IsActive(NoRange, Bounds)
  BY DEF IsActive, Effective
<1>2. ASSUME UNCHANGED <<chosen, hero, cleared>> PROVE Untouched'
  BY <1>2
<1>3. ASSUME ~cleared' PROVE Untouched'
  BY <1>3
<1>4. CASE Remount \/ TypeHero \/ Type \/ PickLocation \/ MoveThumb \/ PickFeatured
           \/ PickCompany \/ PickJob
  BY <1>3, <1>4 DEF Remount, TypeHero, Type, PickLocation, MoveThumb, PickFeatured,
                    PickCompany, PickJob
<1>5. CASE Toggle \/ TogglePopover \/ FollowLink \/ Back \/ Scroll \/ PageArrives
           \/ PageFails \/ CacheArrives \/ QuerySettles \/ UNCHANGED filterVars
  BY <1>2, <1>5 DEF Toggle, TogglePopover, FollowLink, Back, Scroll, PageArrives,
                    PageFails, CacheArrives, QuerySettles, filterVars
<1>6. CASE AllLocations
  <2>1. chosen' = [chosen EXCEPT !.loc = {}] /\ UNCHANGED <<hero, cleared>>
    BY <1>6 DEF AllLocations, Choose
  <2>2. ASSUME NEW f \in Filter, f.loc = {} PROVE [f EXCEPT !.loc = {}] = f
    BY <2>2 DEF Filter
  <2>3. chosen = NoFilter => chosen.loc = {}
    BY NoFilterFields
  <2>4. chosen = NoFilter => chosen' = NoFilter
    BY <2>1, <2>2, <2>3 DEF FiltersTyped
  <2> QED
    BY <2>1, <2>4
<1>7. CASE ResetSalary
  <2>1. chosen # NoFilter /\ UNCHANGED cleared
    BY <1>1, <1>7, NoFilterFields DEF ResetSalary
  <2> QED
    BY <2>1
<1>8. CASE RemoveChip
  <2>1. chosen # NoFilter /\ UNCHANGED cleared
    BY <1>1, <1>8, NoFilterFields DEF RemoveChip, Choose
  <2> QED
    BY <2>1
<1>9. CASE Clear
  BY <1>9 DEF Clear, Choose
<1>10. CASE HeroSettles
  BY <1>10 DEF HeroSettles
<1> QED
  BY <1>4, <1>5, <1>6, <1>7, <1>8, <1>9, <1>10 DEF FiltersNext, User

\* After "clear filters" nothing is hidden (JobBoardFilterPanel.tsx:133 and
\* AdminJobsPage.tsx:192), whatever pages arrive and however they move the bounds.
THEOREM ClearingShowsAll == FiltersSpec => []ClearedShowsAll
<1>1. FiltersInit => Untouched
  BY DEF FiltersInit, Untouched
<1>2. Untouched => ClearedShowsAll
  <2> SUFFICES ASSUME Untouched, cleared, Settled PROVE Shown = Loaded
    BY DEF ClearedShowsAll
  <2>1. chosen = NoFilter /\ debounced = ""
    BY NoFilterFields DEF Untouched, Settled
  <2>2. ~IsActive(chosen.salary, Bounds)
    BY <2>1, NoFilterFields DEF IsActive, Effective
  <2>3. ASSUME NEW r \in Loaded PROVE Passes(r, chosen, debounced)
    BY <2>1, <2>2, NoFilterFields DEF Passes
  <2> QED
    BY <2>3 DEF Shown, Filtered
<1> QED
  BY <1>1, <1>2, StepKeepsUntouched, FiltersTypes, PTL DEF FiltersSpec

\* No location holds a comma, at which the address would be cut.
NoComma == \A l \in Locations : Split[l] = {l}

\* The board has none of the filters that its address does not hold, and its
\* address holds the others, until the address is changed without the page.
BoardOnly ==
  view = "board" =>
    /\ popover = "none"
    /\ chosen.companies = {} /\ chosen.jobs = {} /\ ~chosen.featured
UrlWritten == view = "board" /\ ~followed => url = Written(chosen, debounced, Bounds)
UrlInv == BoardOnly /\ UrlWritten

\* What a mount reads.
LEMMA RestoredFields ==
  ASSUME NEW u
  PROVE  /\ Restored(u).query = u.q /\ Restored(u).salary = u.salary
         /\ Restored(u).companies = {} /\ Restored(u).jobs = {}
         /\ Restored(u).featured = FALSE
         /\ NoComma => Restored(u).loc = u.loc
<1>1. ASSUME NoComma
      PROVE  UNION {IF l \in Locations THEN Split[l] ELSE {l} : l \in u.loc} = u.loc
  BY <1>1 DEF NoComma
<1> QED
  BY <1>1 DEF Restored, NoFilter

\* A mount has no rows yet.
LEMMA NoRows == pages = 0 => Loaded = {}
  BY DEF Loaded

\* The query the page has not settled is not part of what is written.
LEMMA WrittenFields ==
  ASSUME NEW f, NEW g, NEW text, NEW b, f.loc = g.loc, f.salary = g.salary
  PROVE  Written(f, text, b) = Written(g, text, b)
  BY DEF Written

\* The first address of the board is written at once.
LEMMA InitUrl == FiltersInit => UrlInv
<1> SUFFICES ASSUME FiltersInit PROVE UrlInv
  OBVIOUS
<1>1. PICK u \in Links :
        /\ chosen = Restored(u) /\ debounced = u.q
        /\ url = Written(Restored(u), u.q, SalaryBounds({}))
  BY DEF FiltersInit
<1>2. Bounds = SalaryBounds({})
  BY NoRows DEF FiltersInit, Bounds
<1>3. UrlWritten
  BY <1>1, <1>2 DEF UrlWritten
<1>4. BoardOnly
  BY <1>1, RestoredFields DEF BoardOnly, FiltersInit
<1> QED
  BY <1>3, <1>4 DEF UrlInv

\* A choice that keeps to the board's filters is written.
LEMMA ChooseKeepsUrl ==
  ASSUME UrlInv, NEW f, Choose(f),
         view = "board" => f.companies = {} /\ f.jobs = {} /\ ~f.featured
  PROVE  UrlInv'
  BY DEF UrlInv, Choose, Synced, BoardOnly, UrlWritten, Bounds

\* So is what the effect writes after another step.
LEMMA SyncedKeepsUrl ==
  ASSUME UrlInv, Synced, UNCHANGED <<view, chosen, popover>>
  PROVE  UrlInv'
  BY DEF UrlInv, Synced, BoardOnly, UrlWritten, Bounds

\* Where the effect does not run, nothing it would write has changed.
LEMMA QuietKeepsUrl ==
  ASSUME UrlInv, FiltersTyped, UNCHANGED <<view, pages, debounced>>,
         UNCHANGED <<url, followed>> \/ followed',
         chosen' = chosen \/ \E w : chosen' = [chosen EXCEPT !.query = w],
         view = "board" => popover' = popover
  PROVE  UrlInv'
<1>1. chosen \in Filter
  BY DEF FiltersTyped
<1>2. /\ chosen'.loc = chosen.loc /\ chosen'.salary = chosen.salary
      /\ chosen'.companies = chosen.companies /\ chosen'.jobs = chosen.jobs
      /\ chosen'.featured = chosen.featured
  BY <1>1 DEF Filter
<1>3. Bounds' = Bounds
  BY DEF Bounds, Loaded
<1>4. BoardOnly'
  BY <1>2 DEF UrlInv, BoardOnly
<1>5. Written(chosen', debounced', Bounds') = Written(chosen, debounced, Bounds)
  BY <1>2, <1>3, WrittenFields
<1>6. UrlWritten'
  BY <1>5 DEF UrlInv, UrlWritten
<1> QED
  BY <1>4, <1>6 DEF UrlInv

\* Every step keeps the address.
LEMMA StepKeepsUrl == FiltersTyped /\ UrlInv /\ [FiltersNext]_filterVars => UrlInv'
<1> SUFFICES ASSUME FiltersTyped, UrlInv, [FiltersNext]_filterVars PROVE UrlInv'
  OBVIOUS
<1>1. /\ chosen \in Filter
      /\ view = "board" => /\ chosen.companies = {} /\ chosen.jobs = {}
                           /\ ~chosen.featured /\ popover = "none"
  BY DEF FiltersTyped, UrlInv, BoardOnly
<1>2. CASE Remount
  <2>1. /\ chosen' = Restored(url) /\ debounced' = url.q /\ pages' = 0
        /\ popover' = "none" /\ url' = Written(Restored(url), url.q, SalaryBounds({}))
    BY <1>2 DEF Remount
  <2>2. Bounds' = SalaryBounds({})
    BY <2>1 DEF Bounds, Loaded
  <2>3. UrlWritten'
    BY <2>1, <2>2 DEF UrlWritten
  <2>4. BoardOnly'
    BY <2>1, RestoredFields DEF BoardOnly
  <2> QED
    BY <2>3, <2>4 DEF UrlInv
<1>3. CASE Scroll \/ PageFails \/ CacheArrives \/ TypeHero \/ Toggle \/ UNCHANGED filterVars
  BY <1>3, QuietKeepsUrl DEF Scroll, PageFails, CacheArrives, TypeHero, Toggle, filterVars,
                             loading, address
<1>4. CASE HeroSettles \/ Type \/ TogglePopover
  BY <1>4, QuietKeepsUrl DEF HeroSettles, Type, TogglePopover, loading, address
<1>5. CASE FollowLink \/ Back
  BY <1>5, QuietKeepsUrl DEF FollowLink, Back, loading
<1>6. CASE PageArrives \/ QuerySettles
  BY <1>6, SyncedKeepsUrl DEF PageArrives, QuerySettles
<1>7. ASSUME NEW S, Choose([chosen EXCEPT !.loc = S]) PROVE UrlInv'
  <2>1. PICK f : f = [chosen EXCEPT !.loc = S]
    OBVIOUS
  <2>2. f.companies = chosen.companies /\ f.jobs = chosen.jobs /\ f.featured = chosen.featured
    BY <1>1, <2>1 DEF Filter
  <2> QED
    BY <1>1, <1>7, <2>1, <2>2, ChooseKeepsUrl
<1>8. ASSUME NEW s, Choose([chosen EXCEPT !.salary = s]) PROVE UrlInv'
  <2>1. PICK f : f = [chosen EXCEPT !.salary = s]
    OBVIOUS
  <2>2. f.companies = chosen.companies /\ f.jobs = chosen.jobs /\ f.featured = chosen.featured
    BY <1>1, <2>1 DEF Filter
  <2> QED
    BY <1>1, <1>8, <2>1, <2>2, ChooseKeepsUrl
<1>9. ASSUME view # "board", NEW f, Choose(f) PROVE UrlInv'
  BY <1>9, ChooseKeepsUrl
<1>10. CASE PickLocation \/ AllLocations
  BY <1>7, <1>10 DEF PickLocation, AllLocations
<1>11. CASE MoveThumb \/ ResetSalary
  BY <1>8, <1>11 DEF MoveThumb, ResetSalary
<1>12. CASE PickFeatured \/ PickCompany \/ PickJob
  BY <1>1, <1>9, <1>12 DEF PickFeatured, PickCompany, PickJob
<1>13. CASE RemoveChip
  <2>1. CASE /\ chosen' = [chosen EXCEPT !.query = ""]
             /\ UNCHANGED <<view, loading, hero, debounced, drawer, popover, address>>
    BY <2>1, QuietKeepsUrl DEF loading, address
  <2>2. CASE \E l \in chosen.loc : Choose([chosen EXCEPT !.loc = chosen.loc \ {l}])
    BY <1>7, <2>2
  <2>3. CASE chosen.featured /\ Choose([chosen EXCEPT !.featured = FALSE])
    BY <1>1, <1>9, <2>3
  <2>4. CASE \/ view = "jobs" /\ Choose([chosen EXCEPT !.salary = NoRange])
             \/ \E c \in chosen.companies :
                  Choose([chosen EXCEPT !.companies = chosen.companies \ {c}])
             \/ \E j \in chosen.jobs : Choose([chosen EXCEPT !.jobs = chosen.jobs \ {j}])
    BY <1>1, <1>9, <2>4
  <2> QED
    BY <1>13, <2>1, <2>2, <2>3, <2>4 DEF RemoveChip
<1>14. CASE Clear
  <2>1. NoFilter.companies = {} /\ NoFilter.jobs = {} /\ ~NoFilter.featured
    BY DEF NoFilter
  <2> QED
    BY <1>14, <2>1, ChooseKeepsUrl DEF Clear
<1> QED
  BY <1>2, <1>3, <1>4, <1>5, <1>6, <1>10, <1>11, <1>12, <1>13, <1>14 DEF FiltersNext, User

\* The bounds of salaries are not negative.
LEMMA BoundsNatural == FiltersTyped => Bounds.lo >= 0
<1> SUFFICES ASSUME FiltersTyped PROVE Bounds.lo >= 0
  OBVIOUS
<1>1. \A j \in Loaded : j.lo \in Salary
  BY LoadedRows DEF Loaded, Row, FiltersTyped
<1>2. CASE Widest(Loaded) = {}
  BY <1>2, SalaryAssumption DEF Bounds, SalaryBounds
<1>3. CASE Widest(Loaded) # {}
  <2>1. PICK b : b \in Widest(Loaded) /\ Bounds = [lo |-> Down(b.lo), hi |-> Up(b.hi)]
    BY <1>3 DEF Bounds, SalaryBounds
  <2>2. b.lo \in Nat
    BY <1>1, <2>1 DEF Widest, Salary
  <2>3. b.lo \div Step \in Nat
    BY <2>2, SalaryAssumption, Z3
  <2>4. Down(b.lo) >= 0
    BY <2>3, SalaryAssumption, Z3 DEF Down
  <2> QED
    BY <2>1, <2>4
<1> QED
  BY <1>2, <1>3

\* A range in force that is written and read is in force again.
LEMMA WrittenInForce ==
  ASSUME NEW r \in Interval, NEW b \in Interval, b.lo >= 0,
         NEW w, w = IF IsActive(r, b) THEN Effective(r, b) ELSE NoRange
  PROVE  /\ IsActive(w, b) <=> IsActive(r, b)
         /\ IsActive(r, b) => Effective(w, b) = Effective(r, b)
<1>1. CASE ~IsActive(r, b)
  BY <1>1 DEF IsActive, Effective
<1>2. CASE IsActive(r, b)
  <2>1. PICK e : e = Effective(r, b)
    OBVIOUS
  <2>2. e \in Interval /\ b.lo <= e.lo /\ e.hi <= b.hi
    BY <2>1, EffectiveWithin
  <2>3. /\ e.lo \in Int /\ e.hi \in Int /\ e.lo <= e.hi
        /\ b.lo \in Int /\ b.hi \in Int
    BY <2>2, IntervalEnds
  <2>4. e # NoRange
    BY <2>2, <2>3 DEF NoRange, NoSalary
  <2>5. Clamp(e.lo, b) = e.lo /\ Clamp(e.hi, b) = e.hi
    BY <2>2, <2>3 DEF Clamp, Most, Least
  <2>6. e = [lo |-> e.lo, hi |-> e.hi]
    BY <2>2 DEF Interval
  <2>7. Effective(e, b) = e
    BY <2>4, <2>5, <2>6 DEF Effective
  <2> QED
    BY <1>2, <2>1, <2>7 DEF IsActive
<1> QED
  BY <1>1, <1>2

\* The address the effect has written restores what is shown.
LEMMA WrittenRestores == NoComma /\ FiltersTyped /\ UrlInv => UrlRestores
<1> SUFFICES ASSUME NoComma, FiltersTyped, UrlInv, view = "board", Settled, ~followed
             PROVE  Filtered(Restored(url), url.q) = Shown
  BY DEF UrlRestores
<1>1. PICK f : f = Restored(url)
  OBVIOUS
<1>2. url = Written(chosen, debounced, Bounds)
  BY DEF UrlInv, UrlWritten
<1>3. /\ url.q = debounced /\ url.loc = chosen.loc
      /\ url.salary = IF IsActive(chosen.salary, Bounds)
                      THEN Effective(chosen.salary, Bounds) ELSE NoRange
  BY <1>2 DEF Written
<1>4. /\ f.loc = chosen.loc /\ f.salary = url.salary
      /\ f.companies = {} /\ f.jobs = {} /\ ~f.featured
  BY <1>1, <1>3, RestoredFields
<1>5. /\ IsActive(f.salary, Bounds) <=> IsActive(chosen.salary, Bounds)
      /\ IsActive(chosen.salary, Bounds) =>
           Effective(f.salary, Bounds) = Effective(chosen.salary, Bounds)
  BY <1>3, <1>4, BoundsType, BoundsNatural, WrittenInForce
<1>6. chosen.companies = {} /\ chosen.jobs = {} /\ ~chosen.featured
  BY DEF UrlInv, BoardOnly
<1>7. ASSUME NEW r \in Loaded
      PROVE  Passes(r, f, debounced) <=> Passes(r, chosen, debounced)
  BY <1>4, <1>5, <1>6 DEF Passes
<1> QED
  BY <1>1, <1>3, <1>7 DEF Filtered, Shown

\* With locations that hold no comma, a reload of the board shows the rows it showed
\* (JobBoardPage.tsx:32-47 reads what JobBoardPage.tsx:85-107 wrote).
THEOREM AddressRestores ==
  ASSUME NoComma
  PROVE  FiltersSpec => []UrlRestores
<1>1. FiltersTyped /\ UrlInv => UrlRestores
  BY WrittenRestores
<1> QED
  BY <1>1, InitUrl, StepKeepsUrl, FiltersTypes, PTL DEF FiltersSpec

-----------------------------------------------------------------------------
(* The form of an application.                                             *)

\* The wizard's own data, as far as the argument uses them.
WizardTyped ==
  /\ step \in Steps /\ maxStep \in Steps
  /\ form \in [Fields -> Values]
  /\ resumeFile \in Files

\* Nothing is wrong but the name, and that is one a profile brought.
NameAlone == Wrong = {"name"} /\ form["name"] = "unfit"

\* The identity is valid past step 1 but for such a name, and the résumé past step 2.
IdentityBehind == page = "form" /\ step > 1 => Wrong = {} \/ NameAlone
ResumeBehind ==
  page = "form" /\ step > 2 => (resumeFile # "none" \/ saved) /\ ~resumeError
BeginsAtOne == page = "loading" => step = 1

IInv == WizardTyped /\ IdentityBehind /\ ResumeBehind /\ BeginsAtOne

\* What is wrong depends on the form alone.
LEMMA SameForm ==
  ASSUME form' = form
  PROVE  Wrong' = Wrong /\ NameAlone' = NameAlone
  BY DEF Wrong, Valid, NameAlone

\* The invariant says what StepsBehindValid says.
LEMMA InvariantSuffices == IInv => StepsBehindValid
<1> SUFFICES ASSUME IInv, page = "form", NEW s \in 1 .. step - 1
             PROVE  StepValid(s) \/ (s = 1 /\ NameAlone)
  BY DEF StepsBehindValid, NameAlone
<1>1. step \in {1, 2, 3}
  BY DEF IInv, WizardTyped, Steps
<1>2. (s = 1 /\ step > 1) \/ (s = 2 /\ step > 2)
  <2>1. CASE step = 1
    BY <2>1
  <2>2. CASE step = 2
    BY <2>2
  <2>3. CASE step = 3
    BY <2>3
  <2> QED
    BY <1>1, <2>1, <2>2, <2>3
<1>3. CASE s = 1 /\ step > 1
  BY <1>3 DEF IInv, IdentityBehind, StepValid
<1>4. CASE s = 2 /\ step > 2
  BY <1>4 DEF IInv, ResumeBehind, StepValid
<1> QED
  BY <1>2, <1>3, <1>4

\* Landing is on the way, and what is passed on the way there is valid.
LEMMA LandingOnTheWay ==
  ASSUME step \in Steps, NEW target \in Steps, target > step
  PROVE  /\ Landing(target) \in step .. target
         /\ \A r \in step .. Landing(target) - 1 : StepValid(r)
<1> DEFINE bad == {s \in step .. target - 1 : ~StepValid(s)}
           first(s) == \A r \in bad : s <= r
<1>1. CASE bad = {}
  <2>1. Landing(target) = target
    BY <1>1 DEF Landing
  <2> QED
    BY <1>1, <2>1 DEF Steps
<1>2. CASE bad # {}
  <2>1. \E s \in bad : first(s)
    <3>1. bad \subseteq {1, 2} /\ \A s \in bad : s \in Nat
      BY DEF Steps
    <3>2. CASE 1 \in bad
      BY <3>1, <3>2
    <3>3. CASE 1 \notin bad
      BY <1>2, <3>1, <3>3
    <3> QED
      BY <3>2, <3>3
  <2>2. Landing(target) = CHOOSE s \in bad : first(s)
    BY <1>2 DEF Landing
  <2>3. Landing(target) \in bad /\ first(Landing(target))
    BY <2>1, <2>2
  <2>4. Landing(target) \in step .. target
    BY <2>3 DEF Steps
  <2>5. ASSUME NEW r \in step .. Landing(target) - 1 PROVE StepValid(r)
    <3>1. r \in step .. target - 1 /\ r < Landing(target)
      BY <2>4 DEF Steps
    <3>2. r \notin bad
      BY <2>3, <2>4, <3>1 DEF Steps
    <3> QED
      BY <3>1, <3>2
  <2> QED
    BY <2>4, <2>5
<1> QED
  BY <1>1, <1>2

\* The document opens an empty wizard.
LEMMA InitInv == Init => IInv
  BY DEF Init, IInv, WizardTyped, IdentityBehind, ResumeBehind, BeginsAtOne, Steps,
         Fields, Values, Files

\* A step that leaves the wizard's data and its page alone keeps the invariant.
LEMMA QuietStep ==
  ASSUME IInv, UNCHANGED <<step, maxStep, form, resumeFile, resumeError, saved>>,
         page' \in {"form", "loading"} => page' = page
  PROVE  IInv'
  BY SameForm DEF IInv, WizardTyped, IdentityBehind, ResumeBehind, BeginsAtOne

\* Opening the page, and the job it shows.
LEMMA OpenKeeps == IInv /\ (OpenPage \/ JobArrives) => IInv'
<1> SUFFICES ASSUME IInv, OpenPage \/ JobArrives PROVE IInv'
  OBVIOUS
<1>1. CASE OpenPage
  BY <1>1 DEF OpenPage, EmptyForm, IInv, WizardTyped, IdentityBehind, ResumeBehind,
              BeginsAtOne, Steps, Fields, Values, Files
<1>2. CASE JobArrives
  BY <1>2 DEF JobArrives, identity, resume, wizard, IInv, WizardTyped,
              IdentityBehind, ResumeBehind, BeginsAtOne
<1> QED
  BY <1>1, <1>2

\* The profile makes the email valid, leaves the name or brings another, and offers a
\* résumé.
LEMMA ProfileKeeps == IInv /\ ProfileArrives => IInv'
<1> SUFFICES ASSUME IInv, ProfileArrives PROVE IInv'
  OBVIOUS
<1>1. UNCHANGED <<page, step, maxStep, resumeFile, resumeError>> /\ (saved => saved')
  BY DEF ProfileArrives, SavedAfter, wizard
<1>2. PICK name \in {form["name"], "own", "unfit"} :
        form' = [f \in Fields |-> IF f = "email" THEN "own" ELSE name]
  BY DEF ProfileArrives
<1>3. form' \in [Fields -> Values]
  BY <1>2 DEF IInv, WizardTyped, Fields, Values
<1>4. form'["email"] = "own" /\ form'["name"] = name
  BY <1>2 DEF Fields
<1>5. Wrong' = IF name \in {"bad", "unfit"} THEN {"name"} ELSE {}
  BY <1>4 DEF Wrong, Valid, Fields
<1>6. Wrong = {} \/ NameAlone => Wrong' = {} \/ NameAlone'
  <2>1. CASE name = "unfit"
    BY <1>4, <1>5, <2>1 DEF NameAlone
  <2>2. CASE name = form["name"] /\ name # "unfit"
    <3>1. Wrong = {} \/ NameAlone => name # "bad"
      BY <2>2 DEF Wrong, Valid, NameAlone, Fields
    <3> QED
      BY <1>5, <2>2, <3>1
  <2>3. CASE name = "own"
    BY <1>5, <2>3
  <2> QED
    BY <2>1, <2>2, <2>3
<1> QED
  BY <1>1, <1>3, <1>6 DEF IInv, WizardTyped, IdentityBehind, ResumeBehind, BeginsAtOne

\* What the visitor enters belongs to the step the form stands at.
LEMMA EntryKeeps ==
  ASSUME IInv,
         \/ \E f \in Fields, v \in Values : HandleChange(f, v)
         \/ \E file \in Files \cup {"refused"} : PickResume(file)
         \/ ClearResume \/ ClearSaved
  PROVE  IInv'
<1>1. ASSUME NEW f \in Fields, NEW v \in Values, HandleChange(f, v) PROVE IInv'
  BY <1>1 DEF HandleChange, resume, wizard, IInv, WizardTyped, IdentityBehind,
              ResumeBehind, BeginsAtOne
<1>2. ASSUME NEW file \in Files \cup {"refused"}, PickResume(file) PROVE IInv'
  <2>1. step = 2 /\ UNCHANGED <<page, form, step, maxStep>>
    BY <1>2 DEF PickResume, identity, wizard
  <2>2. resumeFile' \in Files
    BY <1>2 DEF PickResume, IngestResume, IInv, WizardTyped
  <2> QED
    BY <2>1, <2>2, SameForm DEF IInv, WizardTyped, IdentityBehind, ResumeBehind,
                                BeginsAtOne
<1>3. CASE ClearResume
  BY <1>3, SameForm DEF ClearResume, identity, wizard, IInv, WizardTyped,
                        IdentityBehind, ResumeBehind, BeginsAtOne, Files
<1>4. CASE ClearSaved
  BY <1>4, SameForm DEF ClearSaved, identity, wizard, IInv, WizardTyped,
                        IdentityBehind, ResumeBehind, BeginsAtOne
<1> QED
  BY <1>1, <1>2, <1>3, <1>4

\* The form moves ahead over steps that are valid.
LEMMA MoveKeeps ==
  ASSUME IInv, HandleNext \/ HandleBack \/ \E t \in Steps : JumpTo(t)
  PROVE  IInv'
<1> USE DEF Steps
<1>1. CASE HandleNext
  <2>1. /\ page = "form" /\ step < 3
        /\ UNCHANGED <<page, form, resumeFile, saved>>
        /\ step' = IF StepValid(step) THEN step + 1 ELSE step
        /\ maxStep' = IF step' > maxStep THEN step' ELSE maxStep
        /\ resumeError' = (resumeError \/ (step = 2 /\ resumeFile = "none" /\ ~saved))
    BY <1>1 DEF HandleNext, Act, StepErrors
  <2>2. WizardTyped' /\ BeginsAtOne'
    BY <2>1 DEF IInv, WizardTyped, BeginsAtOne
  <2>4. Wrong' = Wrong /\ NameAlone' = NameAlone
    BY <2>1, SameForm
  <2>5. CASE step = 1
    <3>1. step' \in {1, 2} /\ (step' > 1 => Wrong = {})
      BY <2>1, <2>5 DEF StepValid
    <3>2. IdentityBehind'
      BY <2>4, <3>1 DEF IdentityBehind
    <3>3. ResumeBehind'
      BY <3>1 DEF ResumeBehind
    <3> QED
      BY <2>2, <3>2, <3>3 DEF IInv
  <2>6. CASE step = 2
    <3>1. Wrong = {} \/ NameAlone
      BY <2>1, <2>6 DEF IInv, IdentityBehind
    <3>2. step' > 2 => (resumeFile # "none" \/ saved) /\ ~resumeError
      BY <2>1, <2>6 DEF StepValid
    <3>3. step' > 2 => ~resumeError'
      BY <2>1, <2>6, <3>2
    <3>4. ResumeBehind'
      BY <2>1, <3>2, <3>3 DEF ResumeBehind
    <3>5. IdentityBehind'
      BY <2>4, <3>1 DEF IdentityBehind
    <3> QED
      BY <2>2, <3>4, <3>5 DEF IInv
  <2> QED
    BY <2>1, <2>5, <2>6 DEF IInv, WizardTyped
<1>2. CASE HandleBack
  BY <1>2, SameForm DEF HandleBack, Act, identity, resume, IInv, WizardTyped,
                        IdentityBehind, ResumeBehind, BeginsAtOne
<1>3. ASSUME NEW t \in Steps, JumpTo(t) PROVE IInv'
  <2>1. page = "form" /\ UNCHANGED <<page, form, resumeFile, saved, maxStep>>
    BY <1>3 DEF JumpTo, Act
  <2>2. CASE t < step
    <3>1. step' = t /\ UNCHANGED resumeError
      BY <1>3, <2>2 DEF JumpTo
    <3> QED
      BY <2>1, <2>2, <3>1, SameForm DEF IInv, WizardTyped, IdentityBehind,
                                        ResumeBehind, BeginsAtOne
  <2>3. CASE t > step
    <3>1. /\ Landing(t) \in step .. t
          /\ \A r \in step .. Landing(t) - 1 : StepValid(r)
      BY <2>3, LandingOnTheWay DEF IInv, WizardTyped
    <3>2. step' = Landing(t)
      BY <1>3, <2>3 DEF JumpTo, IInv, WizardTyped
    <3>3. WizardTyped' /\ BeginsAtOne'
      BY <2>1, <3>1, <3>2 DEF IInv, WizardTyped, BeginsAtOne
    <3>4. step' > 1 => Wrong = {} \/ NameAlone
      <4>1. CASE step > 1
        BY <2>1, <4>1 DEF IInv, IdentityBehind
      <4>2. CASE step = 1
        <5>1. step' > 1 => StepValid(1)
          BY <3>1, <3>2, <4>2
        <5> QED
          BY <5>1 DEF StepValid
      <4> QED
        BY <4>1, <4>2 DEF IInv, WizardTyped
    <3>5. step' > 2 => step' = 3 /\ step \in {1, 2}
      BY <2>3, <3>1, <3>2 DEF IInv, WizardTyped
    <3>6. step' > 2 => StepValid(2)
      BY <3>1, <3>2, <3>5
    <3>7. step' > 2 => (resumeFile # "none" \/ saved) /\ ~resumeError
      BY <3>6 DEF StepValid
    <3>8. resumeError' => resumeError \/ (resumeFile = "none" /\ ~saved)
      BY <1>3, <2>3 DEF JumpTo, IInv, WizardTyped
    <3> QED
      BY <2>1, <3>3, <3>4, <3>7, <3>8, SameForm DEF IInv, IdentityBehind,
                                                    ResumeBehind
  <2>4. t # step
    BY <1>3 DEF JumpTo, Reachable
  <2> QED
    BY <2>2, <2>3, <2>4 DEF IInv, WizardTyped
<1> QED
  BY <1>1, <1>2, <1>3

\* A submission goes back to the first step that is not valid, or stays.
LEMMA SubmitKeeps == IInv /\ Submit => IInv'
<1> SUFFICES ASSUME IInv, Submit PROVE IInv'
  OBVIOUS
<1>1. step = 3 /\ page = "form" /\ UNCHANGED <<page, form, resumeFile, saved, maxStep>>
  BY DEF Submit, Act
<1>2. (Wrong = {} \/ NameAlone) /\ (resumeFile # "none" \/ saved) /\ ~resumeError
  BY <1>1 DEF IInv, IdentityBehind, ResumeBehind
<1>3. FirstInvalid \in {0, 1, 3}
  BY <1>2 DEF FirstInvalid, StepValid
<1>4. step' \in {1, 3} /\ ~resumeError'
  BY <1>1, <1>2, <1>3 DEF Submit
<1> QED
  BY <1>1, <1>2, <1>4, SameForm DEF IInv, WizardTyped, IdentityBehind, ResumeBehind,
                                    BeginsAtOne, Steps

-----------------------------------------------------------------------------
(* The steps that concern the rest of the page.                            *)

\* Leaving the page, and the answers that end it.
LEMMA UnmountKeeps == IInv /\ (LeavePage \/ SessionEnds) => IInv'
<1> SUFFICES ASSUME IInv, LeavePage \/ SessionEnds PROVE IInv'
  OBVIOUS
<1>1. UNCHANGED <<step, maxStep, form, resumeFile, resumeError, saved>>
  BY DEF LeavePage, SessionEnds, identity, resume, wizard
<1>2. page' = "closed"
  BY DEF LeavePage, SessionEnds, Unmount
<1> QED
  BY <1>1, <1>2, QuietStep

\* The request on its way.
LEMMA RequestKeeps ==
  ASSUME IInv, \E p \in posts : Serve(p) \/ Answer(p) \/ Lose(p)
  PROVE  IInv'
<1>1. PICK p \in posts : Serve(p) \/ Answer(p) \/ Lose(p)
  OBVIOUS
<1>2. UNCHANGED <<step, maxStep, form, resumeFile, resumeError, saved>>
  BY <1>1 DEF Serve, Answer, Lose, identity, resume, wizard
<1>3. page' \in {page, "success", "editor"}
  BY <1>1 DEF Serve, Answer, Lose
<1> QED
  BY <1>2, <1>3, QuietStep

\* What the visitor does at step 3, and what happens elsewhere.
LEMMA RestKeeps ==
  ASSUME IInv,
         \/ ProbeAnswers \/ ProfileFails \/ ToggleClaim
         \/ SessionAges \/ OtherTab \/ ServerChanges
         \/ \E f \in Fields : HandleBlur(f)
         \/ \E c \in Consents : ToggleConsent(c) \/ OpenModal(c) \/ CloseModal(c)
         \/ \E q \in Passwords : TypePassword(q) \/ TypeConfirm(q)
         \/ \E e \in Emails : UpdateCandidate(e)
  PROVE  IInv'
<1>1. CASE ProbeAnswers \/ ProfileFails \/ ToggleClaim
  <2>1. UNCHANGED <<page, step, maxStep, form, resumeFile, resumeError, saved>>
    BY <1>1 DEF ProbeAnswers, ProfileFails, ToggleClaim, identity, resume, wizard
  <2> QED
    BY <2>1, QuietStep
<1>2. CASE SessionAges \/ OtherTab \/ ServerChanges
  <2>1. UNCHANGED <<page, step, maxStep, form, resumeFile, resumeError, saved>>
    BY <1>2 DEF SessionAges, OtherTab, ServerChanges, Elsewhere, identity, resume,
                wizard
  <2> QED
    BY <2>1, QuietStep
<1>3. ASSUME NEW f \in Fields, HandleBlur(f) PROVE IInv'
  <2>1. UNCHANGED <<page, step, maxStep, form, resumeFile, resumeError, saved>>
    BY <1>3 DEF HandleBlur, resume, wizard
  <2> QED
    BY <2>1, QuietStep
<1>4. ASSUME NEW c \in Consents, ToggleConsent(c) \/ OpenModal(c) \/ CloseModal(c)
      PROVE  IInv'
  <2>1. UNCHANGED <<page, step, maxStep, form, resumeFile, resumeError, saved>>
    BY <1>4 DEF ToggleConsent, OpenModal, CloseModal, identity, resume, wizard
  <2> QED
    BY <2>1, QuietStep
<1>5. ASSUME NEW q \in Passwords, TypePassword(q) \/ TypeConfirm(q) PROVE IInv'
  <2>1. UNCHANGED <<page, step, maxStep, form, resumeFile, resumeError, saved>>
    BY <1>5 DEF TypePassword, TypeConfirm, identity, resume, wizard
  <2> QED
    BY <2>1, QuietStep
<1>6. ASSUME NEW e \in Emails, UpdateCandidate(e) PROVE IInv'
  <2>1. UNCHANGED <<page, step, maxStep, form, resumeFile, resumeError, saved>>
    BY <1>6 DEF UpdateCandidate, Elsewhere, identity, resume, wizard
  <2> QED
    BY <2>1, QuietStep
<1> QED
  BY <1>1, <1>2, <1>3, <1>4, <1>5, <1>6

\* Every step keeps the invariant.
LEMMA StepKeepsInv == IInv /\ [Next]_vars => IInv'
<1> SUFFICES ASSUME IInv, [Next]_vars PROVE IInv'
  OBVIOUS
<1>1. CASE UNCHANGED vars
  <2>1. UNCHANGED <<page, step, maxStep, form, resumeFile, resumeError, saved>>
    BY <1>1 DEF vars, identity, resume, wizard
  <2> QED
    BY <2>1, QuietStep
<1>2. CASE Next
  BY <1>2, OpenKeeps, UnmountKeeps, ProfileKeeps, EntryKeeps, MoveKeeps, SubmitKeeps,
     RequestKeeps, RestKeeps DEF Next
<1> QED
  BY <1>1, <1>2

\* The form never stands past a step that is not valid, but for a name the profile
\* brought (ApplicationPage.tsx:331).
THEOREM StepsStayValid == Spec => []StepsBehindValid
<1>1. Init => IInv
  BY InitInv
<1>2. IInv /\ [Next]_vars => IInv'
  BY StepKeepsInv
<1>3. IInv => StepsBehindValid
  BY InvariantSuffices
<1> QED
  BY <1>1, <1>2, <1>3, PTL DEF Spec

-----------------------------------------------------------------------------
(* Whose application it is.                                                *)

PostFields == {"id", "mine", "state", "outcome", "token", "candidate", "name",
               "email", "file", "claim", "view", "leaned", "accepted", "match",
               "stored", "strayed"}

\* A request has its fields, one of them an email, and is stored under no profile
\* until it is served.
OwnedOnceServed(p) ==
  /\ DOMAIN p = PostFields /\ p.email \in Emails
  /\ p.state = "sent" => p.stored = "none"
  /\ p.stored # "none" /\ account = "candidate" /\ ~p.strayed =>
       (p.candidate <=> p.stored = "account")

\* The account's profile has one email.
OneAddress ==
  /\ holder \in [Emails -> Holders]
  /\ \A d, e \in Emails : holder[d] = "account" /\ holder[e] = "account" => d = e

OwnInv == OneAddress /\ \A p \in posts : OwnedOnceServed(p)

\* A request for a page that was left is otherwise the same.
LEMMA OrphanedPost ==
  ASSUME NEW p, DOMAIN p = PostFields, NEW q, q = [p EXCEPT !.mine = FALSE]
  PROVE  /\ DOMAIN q = PostFields /\ q.state = p.state /\ q.email = p.email
         /\ q.candidate = p.candidate /\ q.stored = p.stored /\ q.strayed = p.strayed
  BY DEF PostFields

\* The check of the email comes before the store: while the account's profile has the
\* account's email, an anonymous request never reaches it.
LEMMA CreatedIsOwned ==
  ASSUME OneAddress, NEW p, p.email \in Emails, account = "candidate",
         holder["own"] = "account", Verdict(p) = "created"
  PROVE  (ServerUser(p) = "candidate") <=> (holder[Target(p)] = "account")
<1>1. CASE ServerUser(p) = "candidate"
  BY <1>1 DEF Target
<1>2. CASE ServerUser(p) # "candidate"
  <2>1. ServerUser(p) = "none"
    BY <1>2 DEF ServerUser
  <2>2. p.email # "own"
    BY <2>1 DEF Verdict
  <2>3. holder[p.email] # "account"
    BY <2>2 DEF OneAddress, Emails
  <2> QED
    BY <1>2, <2>3 DEF Target
<1> QED
  BY <1>1, <1>2

\* The request the page builds is stored nowhere yet.
LEMMA NewPostOwned == form["email"] \in Emails => OwnedOnceServed(NewPost)
  BY DEF OwnedOnceServed, NewPost, PostFields

\* Serving keeps it.
LEMMA ServeKeepsOwn ==
  ASSUME OwnInv, NEW p \in posts, Serve(p)
  PROVE  OwnInv'
<1> DEFINE t == IF Verdict(p) = "created" THEN holder[Target(p)] ELSE "none"
           c == ServerUser(p) = "candidate"
           v == Verdict(p)
           far == holder["own"] # "account"
           q == [p EXCEPT !.state = "served", !.outcome = v, !.candidate = c,
                          !.stored = t, !.strayed = far]
<1>1. posts' = (posts \ {p}) \cup {q} /\ account' = account /\ holder' = holder
  BY DEF Serve, auth
<1>2. DOMAIN p = PostFields /\ p.email \in Emails /\ OneAddress
  BY DEF OwnInv, OwnedOnceServed
<1>3. t # "none" /\ account = "candidate" /\ ~far => (c <=> t = "account")
  BY <1>2, CreatedIsOwned
<1> HIDE DEF t, c, v, far
<1>4. /\ DOMAIN q = PostFields /\ q.state = "served" /\ q.email = p.email
      /\ q.candidate = c /\ q.stored = t /\ q.strayed = far
  BY <1>2 DEF PostFields
<1> HIDE DEF q
<1>5. ASSUME NEW r \in posts' PROVE OwnedOnceServed(r)'
  <2>1. CASE r = q
    <3>1. /\ r.state # "sent"
          /\ r.stored # "none" /\ account = "candidate" /\ ~r.strayed =>
               (r.candidate <=> r.stored = "account")
      BY <1>3, <1>4, <2>1
    <3> QED
      BY <1>1, <1>2, <1>4, <2>1, <3>1 DEF OwnedOnceServed
  <2>2. CASE r \in posts
    BY <1>1, <2>2 DEF OwnInv, OwnedOnceServed
  <2> QED
    BY <1>1, <2>1, <2>2
<1> QED
  BY <1>1, <1>2, <1>5 DEF OwnInv, OneAddress

\* The email of the form is none that a profile brings and the form rejects.
EmailKnown == form \in [Fields -> Values] /\ form["email"] # "unfit"

\* Every step keeps that.
LEMMA StepKeepsEmail == EmailKnown /\ [Next]_vars => EmailKnown'
<1> SUFFICES ASSUME EmailKnown, [Next]_vars PROVE EmailKnown'
  OBVIOUS
<1>1. ASSUME form' = form PROVE EmailKnown'
  BY <1>1 DEF EmailKnown
<1>2. CASE OpenPage
  BY <1>2 DEF OpenPage, EmptyForm, EmailKnown, Fields, Values
<1>3. CASE ProfileArrives
  BY <1>3 DEF ProfileArrives, EmailKnown, Fields, Values
<1>4. ASSUME NEW f \in Fields, NEW v \in Values, HandleChange(f, v)
      PROVE  EmailKnown'
  BY <1>4 DEF HandleChange, EmailKnown, Fields
<1>5. CASE LeavePage \/ JobArrives \/ ProbeAnswers \/ ProfileFails \/ SessionEnds
  BY <1>1, <1>5 DEF LeavePage, JobArrives, ProbeAnswers, ProfileFails, SessionEnds,
                    identity
<1>6. CASE \/ ClearResume \/ ClearSaved \/ ToggleClaim \/ HandleNext \/ HandleBack
          \/ Submit
  BY <1>1, <1>6 DEF ClearResume, ClearSaved, ToggleClaim, HandleNext, HandleBack,
                    Submit, identity
<1>7. CASE \/ SessionAges \/ OtherTab \/ ServerChanges
          \/ \E e \in Emails : UpdateCandidate(e)
  BY <1>1, <1>7 DEF SessionAges, OtherTab, ServerChanges, UpdateCandidate, Elsewhere,
                    identity
<1>8. ASSUME NEW x, HandleBlur(x) \/ PickResume(x) \/ JumpTo(x) PROVE EmailKnown'
  BY <1>1, <1>8 DEF HandleBlur, PickResume, JumpTo, identity
<1>9. ASSUME NEW c, \/ ToggleConsent(c) \/ OpenModal(c) \/ CloseModal(c)
                    \/ TypePassword(c) \/ TypeConfirm(c)
      PROVE  EmailKnown'
  BY <1>1, <1>9 DEF ToggleConsent, OpenModal, CloseModal, TypePassword, TypeConfirm,
                    identity
<1>10. ASSUME NEW p, Serve(p) \/ Answer(p) \/ Lose(p) PROVE EmailKnown'
  BY <1>1, <1>10 DEF Serve, Answer, Lose, identity
<1>11. CASE UNCHANGED vars
  BY <1>1, <1>11 DEF vars, identity
<1> QED
  BY <1>2, <1>3, <1>4, <1>5, <1>6, <1>7, <1>8, <1>9, <1>10, <1>11 DEF Next

\* Every step keeps it.
LEMMA StepKeepsOwn == EmailKnown /\ OwnInv /\ [Next]_vars => OwnInv'
<1> SUFFICES ASSUME EmailKnown, OwnInv, [Next]_vars PROVE OwnInv'
  OBVIOUS
<1>1. ASSUME account' = account, posts' \subseteq posts, holder' = holder
      PROVE  OwnInv'
  BY <1>1 DEF OwnInv, OneAddress, OwnedOnceServed
<1>2. CASE Submit
  <2>1. account' = account /\ holder' = holder
    BY <1>2 DEF Submit, auth, server
  <2>2. CASE UNCHANGED posts
    BY <1>1, <2>1, <2>2
  <2>3. CASE ~UNCHANGED posts
    <3>1. FirstInvalid = 0 /\ posts' = posts \cup {NewPost}
      BY <1>2, <2>3 DEF Submit, sending
    <3>2. form["email"] \in Emails
      <4>1. Wrong = {}
        BY <3>1 DEF FirstInvalid, StepValid
      <4>2. form["email"] \in {"typed", "own"}
        BY <4>1 DEF EmailKnown, Wrong, Valid, Fields, Values
      <4> QED
        BY <4>2 DEF Emails
    <3>3. ASSUME NEW p \in posts' PROVE OwnedOnceServed(p)'
      <4>1. OwnedOnceServed(p)
        BY <3>1, <3>2, NewPostOwned DEF OwnInv
      <4> QED
        BY <2>1, <4>1 DEF OwnedOnceServed
    <3> QED
      BY <2>1, <3>3 DEF OwnInv, OneAddress
  <2> QED
    BY <2>2, <2>3
<1>3. CASE LeavePage \/ SessionEnds
  <2>1. /\ account' = account /\ holder' = holder
        /\ posts' = {[p EXCEPT !.mine = FALSE] : p \in posts}
    BY <1>3 DEF LeavePage, SessionEnds, Unmount, server
  <2>2. ASSUME NEW q \in posts' PROVE OwnedOnceServed(q)'
    <3>1. PICK p \in posts : q = [p EXCEPT !.mine = FALSE]
      BY <2>1
    <3>2. OwnedOnceServed(p)
      BY DEF OwnInv
    <3>3. /\ DOMAIN q = PostFields /\ q.state = p.state /\ q.email = p.email
          /\ q.candidate = p.candidate /\ q.stored = p.stored
          /\ q.strayed = p.strayed
      BY <3>1, <3>2, OrphanedPost DEF OwnedOnceServed
    <3> QED
      BY <2>1, <3>2, <3>3 DEF OwnedOnceServed
  <2> QED
    BY <2>1, <2>2 DEF OwnInv, OneAddress
<1>4. ASSUME NEW p \in posts, Serve(p) \/ Answer(p) \/ Lose(p) PROVE OwnInv'
  <2>1. CASE Serve(p)
    BY <2>1, ServeKeepsOwn
  <2>2. CASE Answer(p) \/ Lose(p)
    BY <1>1, <2>2 DEF Answer, Lose, auth, server
  <2> QED
    BY <1>4, <2>1, <2>2
<1>5. CASE OpenPage \/ JobArrives \/ ProbeAnswers \/ ProfileArrives \/ ProfileFails
  BY <1>1, <1>5 DEF OpenPage, JobArrives, ProbeAnswers, ProfileArrives, ProfileFails,
                    auth, sending, server
<1>6. CASE ClearResume \/ ClearSaved \/ ToggleClaim \/ HandleNext \/ HandleBack
  BY <1>1, <1>6 DEF ClearResume, ClearSaved, ToggleClaim, HandleNext, HandleBack,
                    auth, sending, server
<1>7. CASE SessionAges \/ OtherTab \/ ServerChanges
  BY <1>1, <1>7 DEF SessionAges, OtherTab, ServerChanges, Elsewhere, sending, server
<1>8. ASSUME NEW f \in Fields, HandleBlur(f) \/ \E v \in Values : HandleChange(f, v)
      PROVE  OwnInv'
  BY <1>1, <1>8 DEF HandleBlur, HandleChange, auth, sending, server
<1>9. ASSUME NEW x, PickResume(x) \/ JumpTo(x) PROVE OwnInv'
  BY <1>1, <1>9 DEF PickResume, JumpTo, auth, sending, server
<1>10. ASSUME NEW c, \/ ToggleConsent(c) \/ OpenModal(c) \/ CloseModal(c)
                     \/ TypePassword(c) \/ TypeConfirm(c)
       PROVE  OwnInv'
  BY <1>1, <1>10 DEF ToggleConsent, OpenModal, CloseModal, TypePassword, TypeConfirm,
                     auth, sending, server
<1>11. ASSUME NEW e \in Emails, UpdateCandidate(e) PROVE OwnInv'
  <2>1. account' = account /\ posts' = posts
    BY <1>11 DEF UpdateCandidate, Elsewhere, sending
  <2>2. OneAddress'
    <3>1. CASE holder' = [holder EXCEPT ![e] = "other"]
      BY <3>1 DEF OwnInv, OneAddress, Holders
    <3>2. ASSUME NEW old \in Emails, holder[old] = "account",
                 holder' = [holder EXCEPT ![old] = "lead", ![e] = "account"]
          PROVE  OneAddress'
      BY <3>2 DEF OwnInv, OneAddress, Holders
    <3> QED
      BY <1>11, <3>1, <3>2 DEF UpdateCandidate
  <2> QED
    BY <2>1, <2>2 DEF OwnInv, OwnedOnceServed
<1>12. CASE UNCHANGED vars
  BY <1>1, <1>12 DEF vars, auth, sending, server
<1> QED
  BY <1>2, <1>3, <1>4, <1>5, <1>6, <1>7, <1>8, <1>9, <1>10, <1>11, <1>12 DEF Next

\* An application belongs to the account that sent it, as long as the account's
\* profile has the account's email (api/public/_apply_handler.py and
\* services/public/applications.py:106).
THEOREM AccountKeepsItsRecord == Spec => []AccountOwnsItsRecord
<1>1. Init => EmailKnown /\ OwnInv
  BY DEF Init, OwnInv, OneAddress, EmailKnown, Emails, Holders, Fields, Values
<1>2. EmailKnown /\ OwnInv /\ [Next]_vars => (EmailKnown /\ OwnInv)'
  BY StepKeepsEmail, StepKeepsOwn
<1>3. OwnInv => AccountOwnsItsRecord
  BY DEF OwnInv, OwnedOnceServed, AccountOwnsItsRecord
<1> QED
  BY <1>1, <1>2, <1>3, PTL DEF Spec

-----------------------------------------------------------------------------
(* What is sent, why it is refused, and the wait for its answer.           *)

\* What SentWasComplete says of one request.
CompletePost(p) ==
  /\ {p.name, p.email} \cap {"bad", "unfit"} = {}
  /\ p.file # "none" \/ p.leaned
  /\ p.view = "candidate" \/ p.accepted = Consents
  /\ p.claim => p.match /\ p.view # "candidate"

\* A request of this page that leans on the saved résumé leans on one the profile
\* has or had; so has one that was refused for want of it.
ExplainedPost(p) ==
  p.mine => /\ p.leaned => kept \/ deleted
            /\ p.candidate /\ p.outcome = "noresume" => deleted

SoundPosts ==
  \A p \in posts : /\ DOMAIN p = PostFields /\ p.mine \in BOOLEAN
                   /\ CompletePost(p) /\ ExplainedPost(p)

\* The offer of the saved résumé comes from the profile.
OfferExplained == saved => kept \/ deleted

\* The page has one request at most, waits for it, and has none once it is closed,
\* so that another page begins without.
OneMine == \A p, q \in posts : p.mine /\ q.mine => p = q
Waits ==
  page \in {"form", "loading"} => (submitting <=> \E p \in posts : p.mine)
ClosedOwnsNone == page = "closed" => \A p \in posts : ~p.mine

SendInv ==
  /\ submitting \in BOOLEAN
  /\ SoundPosts /\ OfferExplained /\ OneMine /\ Waits /\ ClosedOwnsNone

\* The document opens without a request.
LEMMA InitSend == Init => SendInv
  BY DEF Init, SendInv, SoundPosts, OfferExplained, OneMine, Waits, ClosedOwnsNone

\* The steps that leave the request alone: a résumé that goes is one that was
\* deleted, an offer comes from the profile, and the page stays, ends or shows the
\* job it has loaded.
LEMMA SendFrame ==
  ASSUME SendInv, UNCHANGED <<posts, submitting>>,
         kept => kept' \/ deleted', deleted => deleted', saved' => saved \/ kept,
         page' = page \/ (page = "loading" /\ page' = "form") \/ page' = "error"
  PROVE  SendInv'
<1>1. SoundPosts'
  BY DEF SendInv, SoundPosts, CompletePost, ExplainedPost
<1>2. OfferExplained' /\ OneMine'
  BY DEF SendInv, OfferExplained, OneMine
<1>3. Waits' /\ ClosedOwnsNone'
  BY DEF SendInv, Waits, ClosedOwnsNone
<1> QED
  BY <1>1, <1>2, <1>3 DEF SendInv

\* Another page begins: it forgets that a résumé was deleted, and no request of
\* this page is left to be refused for it.
LEMMA OpenKeepsSend == SendInv /\ OpenPage => SendInv'
  BY DEF OpenPage, SendInv, SoundPosts, CompletePost, ExplainedPost, OfferExplained,
         OneMine, Waits, ClosedOwnsNone

\* The page that is left disowns its request.
LEMMA UnmountKeepsSend == SendInv /\ (LeavePage \/ SessionEnds) => SendInv'
<1> SUFFICES ASSUME SendInv, LeavePage \/ SessionEnds PROVE SendInv'
  OBVIOUS
<1>1. /\ posts' = {[p EXCEPT !.mine = FALSE] : p \in posts}
      /\ page' = "closed" /\ submitting' = FALSE
      /\ UNCHANGED <<saved, kept, deleted>>
  BY DEF LeavePage, SessionEnds, Unmount, resume, server
<1>2. ASSUME NEW q \in posts'
      PROVE  DOMAIN q = PostFields /\ q.mine = FALSE /\ CompletePost(q)
  <2>1. PICK p \in posts : q = [p EXCEPT !.mine = FALSE]
    BY <1>1
  <2>2. DOMAIN p = PostFields /\ CompletePost(p)
    BY DEF SendInv, SoundPosts
  <2>3. /\ DOMAIN q = PostFields /\ q.mine = FALSE /\ q.name = p.name
        /\ q.email = p.email /\ q.file = p.file /\ q.leaned = p.leaned
        /\ q.view = p.view /\ q.accepted = p.accepted /\ q.claim = p.claim
        /\ q.match = p.match
    BY <2>1, <2>2 DEF PostFields
  <2> QED
    BY <2>2, <2>3 DEF CompletePost
<1>3. SoundPosts'
  BY <1>2 DEF SoundPosts, CompletePost, ExplainedPost
<1>4. OfferExplained'
  BY <1>1 DEF SendInv, OfferExplained
<1>5. OneMine' /\ Waits' /\ ClosedOwnsNone'
  BY <1>1, <1>2 DEF OneMine, Waits, ClosedOwnsNone
<1> QED
  BY <1>1, <1>3, <1>4, <1>5 DEF SendInv

\* The button validates every step before it sends, and waits for what it has sent.
LEMMA SubmitKeepsSend == SendInv /\ Submit => SendInv'
<1> SUFFICES ASSUME SendInv, Submit PROVE SendInv'
  OBVIOUS
<1>1. page = "form" /\ UNCHANGED <<page, saved, kept, deleted>>
  BY DEF Submit, Act, server
<1>2. CASE UNCHANGED sending
  BY <1>1, <1>2, SendFrame DEF sending
<1>3. CASE ~UNCHANGED sending
  <2>1. FirstInvalid = 0 /\ ~ClaimRefused
    BY <1>3 DEF Submit
  <2>2. posts' = posts \cup {NewPost} /\ submitting' = TRUE /\ ~submitting
    BY <1>3, <2>1 DEF Submit, SubmitEnabled
  <2>3. StepValid(1) /\ StepValid(2) /\ StepValid(3)
    BY <2>1 DEF FirstInvalid
  <2>4. \A p \in posts : ~p.mine
    BY <1>1, <2>2 DEF SendInv, Waits
  <2>5. PICK n : n = NewPost
    OBVIOUS
  <2>6. /\ DOMAIN n = PostFields /\ n.mine = TRUE /\ n.outcome = "none"
        /\ n.leaned = saved
    BY <2>5 DEF NewPost, PostFields
  <2>7. CompletePost(n)
    <3>1. {n.name, n.email} \cap {"bad", "unfit"} = {}
      BY <2>3, <2>5 DEF NewPost, StepValid, Wrong, Valid, Fields
    <3>2. n.file # "none" \/ n.leaned
      BY <2>3, <2>5 DEF NewPost, StepValid
    <3>3. n.view = "candidate" \/ n.accepted = Consents
      BY <2>3, <2>5 DEF NewPost, StepValid, isLoggedInCandidate
    <3>4. n.claim => n.match /\ n.view # "candidate"
      BY <2>1, <2>5 DEF NewPost, ClaimRefused, isLoggedInCandidate
    <3> QED
      BY <3>1, <3>2, <3>3, <3>4 DEF CompletePost
  <2>8. ExplainedPost(n)
    BY <2>6 DEF SendInv, OfferExplained, ExplainedPost
  <2>9. SoundPosts'
    BY <1>1, <2>2, <2>5, <2>6, <2>7, <2>8
       DEF SendInv, SoundPosts, CompletePost, ExplainedPost
  <2>10. OneMine' /\ Waits' /\ ClosedOwnsNone'
    BY <1>1, <2>2, <2>4, <2>5, <2>6 DEF OneMine, Waits, ClosedOwnsNone
  <2> QED
    BY <1>1, <2>2, <2>9, <2>10 DEF SendInv, OfferExplained
<1> QED
  BY <1>2, <1>3

\* The server refuses a candidate for want of a résumé when the request has none
\* and the profile has none any more.
LEMMA ServeKeepsSend ==
  ASSUME SendInv, NEW p \in posts, Serve(p)
  PROVE  SendInv'
<1>1. PICK v, c, t, far :
        /\ v = Verdict(p) /\ c = (ServerUser(p) = "candidate")
        /\ t = IF v = "created" THEN holder[Target(p)] ELSE "none"
        /\ far = (holder["own"] # "account")
  OBVIOUS
<1>2. PICK q : q = [p EXCEPT !.state = "served", !.outcome = v, !.candidate = c,
                             !.stored = t, !.strayed = far]
  OBVIOUS
<1>3. /\ posts' = (posts \ {p}) \cup {q}
      /\ kept => kept'
      /\ UNCHANGED <<page, saved, submitting, deleted>>
  BY <1>1, <1>2 DEF Serve, resume
<1>4. /\ DOMAIN p = PostFields /\ p.mine \in BOOLEAN /\ CompletePost(p)
      /\ ExplainedPost(p)
  BY DEF SendInv, SoundPosts
<1>5. /\ DOMAIN q = PostFields /\ q.mine = p.mine /\ q.name = p.name
      /\ q.email = p.email /\ q.file = p.file /\ q.leaned = p.leaned
      /\ q.view = p.view /\ q.accepted = p.accepted /\ q.claim = p.claim
      /\ q.match = p.match /\ q.outcome = v /\ q.candidate = c
  BY <1>2, <1>4 DEF PostFields
<1>6. CompletePost(q)
  BY <1>4, <1>5 DEF CompletePost
<1>7. p.mine /\ c /\ v = "noresume" => deleted
  <2>1. v = "noresume" /\ c => p.file = "none" /\ ~kept
    BY <1>1 DEF Verdict
  <2>2. p.file = "none" => p.leaned
    BY <1>4 DEF CompletePost
  <2> QED
    BY <1>4, <2>1, <2>2 DEF ExplainedPost
<1>8. ExplainedPost(q)'
  BY <1>3, <1>4, <1>5, <1>7 DEF ExplainedPost
<1>9. SoundPosts'
  <2>1. ASSUME NEW r \in posts PROVE ExplainedPost(r)'
    BY <1>3 DEF SendInv, SoundPosts, ExplainedPost
  <2> QED
    BY <1>3, <1>4, <1>5, <1>6, <1>8, <2>1 DEF SendInv, SoundPosts, CompletePost
<1>10. OneMine'
  BY <1>3, <1>5 DEF SendInv, OneMine
<1>11. Waits' /\ ClosedOwnsNone'
  BY <1>3, <1>5 DEF SendInv, Waits, ClosedOwnsNone
<1> QED
  BY <1>3, <1>9, <1>10, <1>11 DEF SendInv, OfferExplained

\* An answer, or the news that there is none, ends the wait for its own request.
LEMMA EndKeepsSend ==
  ASSUME SendInv, NEW p \in posts, Answer(p) \/ Lose(p)
  PROVE  SendInv'
<1>1. posts' = posts \ {p} /\ UNCHANGED <<saved, kept, deleted>>
  BY DEF Answer, Lose, resume, server
<1>2. p.mine \in BOOLEAN /\ submitting \in BOOLEAN
  BY DEF SendInv, SoundPosts
<1>3. submitting' = (submitting /\ ~p.mine)
  BY <1>2 DEF Answer, Lose, SubmitEnds
<1>4. page' = page \/ page' \in {"success", "editor"}
  BY DEF Answer, Lose
<1>5. SoundPosts'
  BY <1>1 DEF SendInv, SoundPosts, CompletePost, ExplainedPost
<1>6. OneMine' /\ OfferExplained'
  BY <1>1 DEF SendInv, OneMine, OfferExplained
<1>7. ClosedOwnsNone'
  BY <1>1, <1>4 DEF SendInv, ClosedOwnsNone
<1>8. Waits'
  <2>1. CASE p.mine
    BY <1>1, <1>3, <1>4, <2>1 DEF SendInv, OneMine, Waits
  <2>2. CASE ~p.mine
    BY <1>1, <1>2, <1>3, <1>4, <2>2 DEF SendInv, Waits
  <2> QED
    BY <2>1, <2>2
<1> QED
  BY <1>2, <1>3, <1>5, <1>6, <1>7, <1>8 DEF SendInv

\* Every step keeps it.
LEMMA StepKeepsSend == SendInv /\ [Next]_vars => SendInv'
<1> SUFFICES ASSUME SendInv, [Next]_vars PROVE SendInv'
  OBVIOUS
<1>1. CASE OpenPage \/ LeavePage \/ SessionEnds \/ Submit
  BY <1>1, OpenKeepsSend, UnmountKeepsSend, SubmitKeepsSend
<1>2. ASSUME NEW p \in posts, Serve(p) \/ Answer(p) \/ Lose(p) PROVE SendInv'
  BY <1>2, ServeKeepsSend, EndKeepsSend
<1>3. CASE JobArrives \/ ProbeAnswers \/ ProfileArrives \/ ProfileFails
  <2>1. CASE JobArrives
    BY <2>1, SendFrame DEF JobArrives, resume, sending, server
  <2>2. CASE ProbeAnswers
    BY <2>2, SendFrame DEF ProbeAnswers, resume, sending, server
  <2>3. CASE ProfileArrives
    BY <2>3, SendFrame DEF ProfileArrives, SavedAfter, sending, server
  <2>4. CASE ProfileFails
    BY <2>4, SendFrame DEF ProfileFails, resume, sending, server
  <2> QED
    BY <1>3, <2>1, <2>2, <2>3, <2>4
<1>4. CASE ClearResume \/ ClearSaved \/ ToggleClaim \/ HandleNext \/ HandleBack
  BY <1>4, SendFrame DEF ClearResume, ClearSaved, ToggleClaim, HandleNext, HandleBack,
                         resume, sending, server
<1>5. CASE SessionAges \/ OtherTab \/ ServerChanges
  BY <1>5, SendFrame DEF SessionAges, OtherTab, ServerChanges, Elsewhere, resume,
                         sending, server
<1>6. ASSUME NEW f \in Fields, HandleBlur(f) \/ \E v \in Values : HandleChange(f, v)
      PROVE  SendInv'
  BY <1>6, SendFrame DEF HandleBlur, HandleChange, resume, sending, server
<1>7. ASSUME NEW x, PickResume(x) \/ JumpTo(x) PROVE SendInv'
  BY <1>7, SendFrame DEF PickResume, JumpTo, resume, sending, server
<1>8. ASSUME NEW c, \/ ToggleConsent(c) \/ OpenModal(c) \/ CloseModal(c)
                    \/ TypePassword(c) \/ TypeConfirm(c)
      PROVE  SendInv'
  BY <1>8, SendFrame DEF ToggleConsent, OpenModal, CloseModal, TypePassword,
                         TypeConfirm, resume, sending, server
<1>9. ASSUME NEW e, UpdateCandidate(e) PROVE SendInv'
  BY <1>9, SendFrame DEF UpdateCandidate, Elsewhere, resume, sending
<1>10. CASE UNCHANGED vars
  BY <1>10, SendFrame DEF vars, resume, sending, server
<1> QED
  BY <1>1, <1>2, <1>3, <1>4, <1>5, <1>6, <1>7, <1>8, <1>9, <1>10 DEF Next

\* The one request the page waits for, counted.
LEMMA WaitsCounted == SendInv => WaitsForItsRequest
<1> SUFFICES ASSUME SendInv, page = "form"
             PROVE  Cardinality({p \in posts : p.mine}) = IF submitting THEN 1 ELSE 0
  BY DEF WaitsForItsRequest
<1>1. CASE submitting
  <2>1. PICK p \in posts : p.mine
    BY <1>1 DEF SendInv, Waits
  <2>2. {q \in posts : q.mine} = {p}
    BY <2>1 DEF SendInv, OneMine
  <2> QED
    BY <1>1, <2>2, FS_Singleton
<1>2. CASE ~submitting
  <2>1. {p \in posts : p.mine} = {}
    BY <1>2 DEF SendInv, Waits
  <2> QED
    BY <1>2, <2>1, FS_EmptySet
<1> QED
  BY <1>1, <1>2

\* The request is complete when it is sent (ApplicationPage.tsx:352-421).
THEOREM SentIsComplete == Spec => []SentWasComplete
<1>1. SendInv => SentWasComplete
  BY DEF SendInv, SoundPosts, CompletePost, SentWasComplete
<1> QED
  BY <1>1, InitSend, StepKeepsSend, PTL DEF Spec

\* A known candidate lacks a résumé only if it was deleted meanwhile
\* (services/public/applications.py and ApplicationPage.tsx:130-140).
THEOREM RefusalExplained == Spec => []ResumeRefusalExplained
<1>1. SendInv => ResumeRefusalExplained
  BY DEF SendInv, SoundPosts, ExplainedPost, ResumeRefusalExplained
<1> QED
  BY <1>1, InitSend, StepKeepsSend, PTL DEF Spec

\* The button waits exactly while its request is under way
\* (ApplicationPage.tsx:386-445).
THEOREM WaitsExactly == Spec => []WaitsForItsRequest
  BY InitSend, StepKeepsSend, WaitsCounted, PTL DEF Spec
=============================================================================
