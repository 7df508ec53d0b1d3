---------------------------- MODULE MCJobFilters ----------------------------
(* Small instances of JobFilters: a unit of salary is 250, a step is two.   *)
EXTENDS JobFilters

AllViews == {"board", "jobs", "applications", "candidates"}
MCFallback == [lo |-> 0, hi |-> 8]
MCForm == [lo |-> 0, hi |-> 6]
Job(i, lo, hi, loc, words, company, featured) ==
  [id |-> i, lo |-> lo, hi |-> hi, loc |-> loc, words |-> words, companies |-> {company},
   jobs |-> {i}, featured |-> featured]
\* The first page gives no bounds, the second gives some, the third widens them.
MCData == <<{Job(1, 3, NoSalary, "north", {"a"}, "c1", TRUE)},
            {Job(2, 3, 4, "south", {}, "c2", FALSE)},
            {Job(3, 5, 10, "north", {"a"}, "c2", FALSE),
             Job(4, NoSalary, NoSalary, "south", {"a"}, "c1", FALSE)}>>
WholeLocations == [l \in {"north", "south"} |-> {l}]
\* One location's name holds a comma.
SplitLocations == [l \in {"north", "south"} |-> IF l = "south" THEN {"so", "uth"} ELSE {l}]
MCLinks == {Empty, [q |-> "a", loc |-> {"south"}, salary |-> [lo |-> 4, hi |-> 9]]}
=============================================================================
