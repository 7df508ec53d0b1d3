---------------------------- MODULE SalaryRange ----------------------------
(***************************************************************************)
(* Salary intervals in the browser: the bounds of the jobs at hand, the    *)
(* range a filter keeps within them, the slider with two thumbs, and the   *)
(* two typed fields of the job form.                                       *)
(***************************************************************************)
EXTENDS Integers

CONSTANTS
  Step,      \* salaries are rounded to it
  Fallback,  \* bounds of jobs that give none
  Form       \* bounds of the job form

\* An interval; a job may leave out either end, a filter both.
Interval == {r \in [lo : Int, hi : Int] : r.lo <= r.hi}

ASSUME SalaryAssumption ==
  /\ Step \in Nat \ {0}
  /\ Fallback \in Interval /\ Fallback.lo >= 0
  /\ Form \in Interval /\ Form.lo < Form.hi

NoSalary == -1
\* What a job gives: the server takes no negative number.
Salary == Nat \cup {NoSalary}
NoRange == [lo |-> NoSalary, hi |-> NoSalary]

Least(a, b) == IF a <= b THEN a ELSE b
Most(a, b) == IF a >= b THEN a ELSE b
Clamp(x, b) == Most(b.lo, Least(x, b.hi))

\* getSalaryBounds: the least and the greatest salary given, rounded outwards.
Widest(jobs) ==
  {b \in [lo : {j.lo : j \in jobs} \ {NoSalary}, hi : {j.hi : j \in jobs} \ {NoSalary}] :
     /\ \A j \in jobs : j.lo # NoSalary => b.lo <= j.lo
     /\ \A j \in jobs : j.hi # NoSalary => b.hi >= j.hi
     /\ b.lo < b.hi}
Down(x) == (x \div Step) * Step
Up(x) == ((x + Step - 1) \div Step) * Step
SalaryBounds(jobs) ==
  IF Widest(jobs) = {} THEN Fallback
  ELSE LET b == CHOOSE b \in Widest(jobs) : TRUE IN [lo |-> Down(b.lo), hi |-> Up(b.hi)]

\* The chosen range within the bounds of the jobs loaded so far.
Effective(range, b) ==
  IF range = NoRange THEN b ELSE [lo |-> Clamp(range.lo, b), hi |-> Clamp(range.hi, b)]
IsActive(range, b) == Effective(range, b) # b

\* A job without salaries always matches; a missing end is open.
Overlaps(job, range) ==
  /\ job.hi = NoSalary \/ job.hi >= range.lo
  /\ job.lo = NoSalary \/ job.lo <= range.hi

\* RangeSlider: a thumb keeps a step of distance from the other and stays in bounds.
MoveLo(shown, b, v) == [lo |-> Most(b.lo, Least(v, shown.hi - Step)), hi |-> shown.hi]
MoveHi(shown, b, v) == [lo |-> shown.lo, hi |-> Least(b.hi, Most(v, shown.lo + Step))]

\* SalaryRangeField: what the job form shows of a stored pair, and what it
\* stores when a typed number n is committed at either end.
FieldShown(stored) ==
  LET lo == IF stored.lo = NoSalary THEN Form.lo ELSE Clamp(stored.lo, Form)
      hi == IF stored.hi = NoSalary THEN Form.hi ELSE Least(Form.hi, Most(stored.hi, Form.lo))
  IN [lo |-> lo, hi |-> Most(hi, lo)]
CommitLo(shown, n) == [lo |-> Most(Form.lo, Least(n, shown.hi - Step)), hi |-> shown.hi]
CommitHi(shown, n) == [lo |-> shown.lo, hi |-> Most(shown.lo + Step, Least(n, Form.hi))]
=============================================================================
