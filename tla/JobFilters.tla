----------------------------- MODULE JobFilters -----------------------------
(***************************************************************************)
(* The filters of the paged lists, which the browser applies to the rows   *)
(* it has loaded so far: the public job board and the administrator's      *)
(* pages of jobs, applications and candidates.                             *)
(*                                                                         *)
(* Pages of rows arrive while filters are chosen, and each page moves the  *)
(* bounds of the salary slider.  Texts pass through a debounce, the one of *)
(* the board's hero through two.  The board keeps its filters in the       *)
(* address, from which it takes them when it is mounted again.  AdminLists *)
(* models how the pages are loaded and changed, and the status filter.     *)
(***************************************************************************)
EXTENDS SalaryRange, Sequences, FiniteSets

CONSTANTS
  Data,    \* the pages of rows the server has, in order
  Split,   \* the pieces a location falls into when the address is read
  Words,   \* what may be searched for
  Links,   \* addresses the board may be opened with
  Views,   \* the pages a behaviour may be about
  FilterActs \* bound: acts of the user

AllRows == UNION {Data[i] : i \in DOMAIN Data}
Locations == {r.loc : r \in AllRows}
Pieces == Locations \cup UNION {Split[l] : l \in Locations}
Companies == UNION {r.companies : r \in AllRows}
Jobs == UNION {r.jobs : r \in AllRows}
Row == [id : Nat, lo : Salary, hi : Salary, loc : Locations, words : SUBSET Words,
        companies : SUBSET Companies, jobs : SUBSET Jobs, featured : BOOLEAN]
Query == Words \cup {""}
Ranges == Interval \cup {NoRange}
Address == [q : Query, loc : SUBSET Pieces, salary : Ranges]

ASSUME FiltersAssumption ==
  /\ Data \in Seq(SUBSET Row)
  /\ Split \in [Locations -> SUBSET Pieces]
  /\ Links \subseteq Address
  /\ Views \subseteq {"board", "jobs", "applications", "candidates"}
  /\ FilterActs \in Nat

VARIABLES
  view,      \* the page on screen
  pages,     \* pages of Data loaded
  fetching,  \* the next one is under way
  failed,    \* the board shows its error instead of anything else
  hero,      \* the text in the hero's search box and its debounced copy
  chosen,    \* the filters chosen
  debounced, \* the debounced copy of the query, which filters
  drawer,    \* the drawer of the board, or the panel of filters of the others, is open
  popover,   \* the multi-select whose list is open
  cached,    \* the jobs and companies for the multi-selects have arrived
  url,       \* the search part of the address, board only
  older,     \* the address behind it in the history
  cleared,   \* history: no filter was chosen since all were cleared
  followed,  \* history: the address was changed without the page
  used       \* acts of the user so far

loading == <<pages, fetching, failed, cached>>
address == <<url, older, followed>>
filterVars == <<view, loading, hero, chosen, debounced, drawer, popover, address, cleared, used>>

Filter == [query : Query, loc : SUBSET Pieces, salary : Ranges,
           companies : SUBSET Companies, jobs : SUBSET Jobs, featured : BOOLEAN]
Empty == [q |-> "", loc |-> {}, salary |-> NoRange]
NoFilter == [query |-> "", loc |-> {}, salary |-> NoRange, companies |-> {}, jobs |-> {},
             featured |-> FALSE]
NoUrl == [Empty EXCEPT !.q = "none"]

-----------------------------------------------------------------------------
(* What a choice of filters shows.                                         *)

Loaded == UNION {Data[i] : i \in 1 .. pages}
Bounds == SalaryBounds(Loaded)
HasSalary == view \in {"board", "jobs"}

\* Rows that pass: any selected location, company and job, the text, the salary.
Passes(r, f, text) ==
  /\ text = "" \/ text \in r.words
  /\ f.loc = {} \/ r.loc \in f.loc
  /\ f.companies = {} \/ f.companies \cap r.companies # {}
  /\ f.jobs = {} \/ f.jobs \cap r.jobs # {}
  /\ f.featured => r.featured
  /\ IsActive(f.salary, Bounds) => Overlaps(r, Effective(f.salary, Bounds))
Filtered(f, text) == {r \in Loaded : Passes(r, f, text)}
Shown == Filtered(chosen, debounced)

\* Mutant: the chip of the featured filter is missing.
BugChips ==
  (IF chosen.query # "" THEN {"query"} ELSE {})
  \cup {"loc" : l \in chosen.loc} \cup {"company" : c \in chosen.companies}
  \cup {"job" : j \in chosen.jobs}
  \cup (IF IsActive(chosen.salary, Bounds) THEN {"salary"} ELSE {})
\* The kinds of chips over the list.
Chips ==
  (IF chosen.query # "" THEN {"query"} ELSE {})
  \cup {"loc" : l \in chosen.loc} \cup {"company" : c \in chosen.companies}
  \cup {"job" : j \in chosen.jobs}
  \cup (IF chosen.featured THEN {"featured"} ELSE {})
  \cup (IF IsActive(chosen.salary, Bounds) THEN {"salary"} ELSE {})
\* They are drawn while activeFilterCount, which counts the debounced text, is positive.
ActiveFilters == (Chips \ {"query"}) # {} \/ debounced # ""

UniqueLocations == {r.loc : r \in Loaded}
LocationPills == HasSalary /\ Cardinality(UniqueLocations) >= 2

-----------------------------------------------------------------------------
(* The address.                                                            *)

\* Mutant: the upper end is written as the bound, not as it is in force.
BugWritten(f, text, b) ==
  [q |-> text, loc |-> f.loc,
   salary |-> IF IsActive(f.salary, b) THEN [Effective(f.salary, b) EXCEPT !.hi = b.hi] ELSE NoRange]
\* What the effect of the board writes.
Written(f, text, b) ==
  [q |-> text, loc |-> f.loc,
   salary |-> IF IsActive(f.salary, b) THEN Effective(f.salary, b) ELSE NoRange]

\* What a mount reads; a location that holds a comma comes apart.
Restored(u) ==
  [NoFilter EXCEPT !.query = u.q, !.salary = u.salary,
                   !.loc = UNION {IF l \in Locations THEN Split[l] ELSE {l} : l \in u.loc}]

\* The effect runs with every new selection, range, bounds or debounced text.
Synced ==
  /\ url' = IF view = "board" THEN Written(chosen', debounced', SalaryBounds(Loaded)') ELSE url
  /\ followed' = FALSE
  /\ UNCHANGED older

-----------------------------------------------------------------------------
(* Mounting, pages and timers.                                             *)

FiltersInit ==
  /\ view \in Views
  /\ \E u \in Links :
       /\ view # "board" => u = Empty
       /\ chosen = Restored(u) /\ debounced = u.q /\ hero = [typed |-> u.q, settled |-> u.q]
       /\ url = Written(Restored(u), u.q, SalaryBounds({}))
  /\ pages = 0 /\ fetching = TRUE /\ failed = FALSE /\ cached = FALSE
  /\ drawer = FALSE /\ popover = "none" /\ older = NoUrl
  /\ cleared = FALSE /\ followed = FALSE /\ used = 0

\* A reload, or a job's page and back: everything but the address starts anew.
Remount ==
  /\ view = "board" /\ used < FilterActs
  /\ chosen' = Restored(url) /\ debounced' = url.q
  /\ hero' = [typed |-> url.q, settled |-> url.q]
  /\ pages' = 0 /\ fetching' = TRUE /\ failed' = FALSE /\ cached' = cached
  /\ drawer' = FALSE /\ popover' = "none" /\ cleared' = FALSE
  /\ url' = Written(Restored(url), url.q, SalaryBounds({}))
  /\ followed' = FALSE /\ used' = used + 1
  /\ UNCHANGED <<view, older>>

\* The end of the list comes into view; it is not drawn when no row passes.
Scroll ==
  /\ ~fetching /\ ~failed /\ pages < Len(Data) /\ Shown # {}
  /\ fetching' = TRUE
  /\ UNCHANGED <<view, pages, failed, cached, hero, chosen, debounced, drawer, popover, address,
                 cleared, used>>

PageArrives ==
  /\ fetching /\ pages < Len(Data)
  /\ pages' = pages + 1 /\ fetching' = FALSE
  /\ UNCHANGED <<view, failed, cached, hero, chosen, debounced, drawer, popover, cleared, used>>
  /\ Synced

\* The board has no retry: its error replaces the rows already loaded.
PageFails ==
  /\ fetching /\ view = "board"
  /\ failed' = TRUE /\ fetching' = FALSE
  /\ UNCHANGED <<view, pages, cached, hero, chosen, debounced, drawer, popover, address,
                 cleared, used>>

CacheArrives ==
  /\ view \in {"applications", "candidates"} /\ ~cached /\ cached' = TRUE
  /\ UNCHANGED <<view, pages, fetching, failed, hero, chosen, debounced, drawer, popover, address,
                 cleared, used>>

\* useDebounce in SearchInput, uncontrolled in the hero.
HeroSettles ==
  /\ view = "board" /\ ~failed /\ hero.typed # hero.settled
  /\ hero' = [hero EXCEPT !.settled = hero.typed]
  /\ chosen' = [chosen EXCEPT !.query = hero.typed]
  /\ UNCHANGED <<view, loading, debounced, drawer, popover, address, cleared, used>>

\* useDebounce in the page.
QuerySettles ==
  /\ chosen.query # debounced
  /\ debounced' = chosen.query
  /\ UNCHANGED <<view, loading, hero, chosen, drawer, popover, cleared, used>>
  /\ Synced

-----------------------------------------------------------------------------
(* The user.                                                               *)

Acts == ~failed /\ used < FilterActs /\ used' = used + 1
\* The panel's controls: the board has them beside the list too, once rows are there.
Panel == IF view = "board" THEN pages > 0 ELSE drawer

\* A new choice; the effect of the board runs unless only the query was set.
Choose(f) ==
  /\ chosen' = f /\ UNCHANGED <<view, loading, hero, debounced, drawer, popover>>
  /\ Synced

TypeHero ==
  /\ Acts /\ view = "board"
  /\ \E w \in Query \ {hero.typed} : hero' = [hero EXCEPT !.typed = w]
  /\ cleared' = FALSE
  /\ UNCHANGED <<view, loading, chosen, debounced, drawer, popover, address>>

\* The controlled search box: in the drawer of the board, over the other lists.
Type ==
  /\ Acts /\ (view = "board" => drawer /\ pages > 0)
  /\ \E w \in Query \ {chosen.query} : chosen' = [chosen EXCEPT !.query = w]
  /\ cleared' = FALSE
  /\ UNCHANGED <<view, loading, hero, debounced, drawer, popover, address>>

PickLocation ==
  /\ Acts /\ Panel /\ LocationPills
  /\ \E l \in UniqueLocations :
       Choose([chosen EXCEPT !.loc = IF l \in @ THEN @ \ {l} ELSE @ \cup {l}])
  /\ cleared' = FALSE

AllLocations ==
  /\ Acts /\ Panel /\ LocationPills
  /\ Choose([chosen EXCEPT !.loc = {}])
  /\ UNCHANGED cleared

MoveThumb ==
  /\ Acts /\ Panel /\ HasSalary
  /\ \E v \in {x \in Bounds.lo .. Bounds.hi : (x - Bounds.lo) % Step = 0} :
       LET shown == Effective(chosen.salary, Bounds)
       IN Choose([chosen EXCEPT !.salary = MoveLo(shown, Bounds, v)])
            \/ Choose([chosen EXCEPT !.salary = MoveHi(shown, Bounds, v)])
  /\ cleared' = FALSE

\* "Reset" stores the bounds of the moment, not the absence of a range.
ResetSalary ==
  /\ Acts /\ HasSalary /\ IsActive(chosen.salary, Bounds)
  /\ Panel \/ view = "board"
  /\ Choose([chosen EXCEPT !.salary = Bounds])
  /\ UNCHANGED cleared

PickFeatured ==
  /\ Acts /\ Panel /\ view = "jobs"
  /\ Choose([chosen EXCEPT !.featured = ~@])
  /\ cleared' = FALSE

\* A chip's cross takes away one choice.
RemoveChip ==
  /\ Acts /\ ActiveFilters /\ UNCHANGED cleared
  /\ \/ /\ chosen.query # "" /\ chosen' = [chosen EXCEPT !.query = ""]
        /\ UNCHANGED <<view, loading, hero, debounced, drawer, popover, address>>
     \/ /\ view = "jobs" /\ IsActive(chosen.salary, Bounds)
        /\ Choose([chosen EXCEPT !.salary = NoRange])
     \/ chosen.featured /\ Choose([chosen EXCEPT !.featured = FALSE])
     \/ \E l \in chosen.loc : Choose([chosen EXCEPT !.loc = @ \ {l}])
     \/ \E c \in chosen.companies : Choose([chosen EXCEPT !.companies = @ \ {c}])
     \/ \E j \in chosen.jobs : Choose([chosen EXCEPT !.jobs = @ \ {j}])

\* The options of a multi-select.
CompanyOptions ==
  IF view = "jobs" THEN UNION {r.companies : r \in Loaded}
  ELSE IF cached THEN Companies ELSE {}
JobsOf(cs) == UNION {r.jobs : r \in {s \in AllRows : s.companies \subseteq cs}}
JobOptions(cs) == IF ~cached THEN {} ELSE IF cs = {} THEN Jobs ELSE JobsOf(cs)

\* Its button, a press outside it, Escape.
TogglePopover ==
  /\ Acts /\ Panel /\ view # "board"
  /\ popover' \in {"none", "companies"} \cup (IF view = "jobs" THEN {} ELSE {"jobs"})
  /\ popover' # popover
  /\ UNCHANGED <<view, loading, hero, chosen, debounced, drawer, address, cleared>>

\* A new selection of companies drops the selected jobs of others.
PickCompany ==
  /\ Acts /\ popover = "companies" /\ cleared' = FALSE
  /\ \E cs \in {{}} \cup {(chosen.companies \ {c}) \cup ({c} \ chosen.companies) : c \in CompanyOptions} :
       /\ cs # chosen.companies
       /\ Choose([chosen EXCEPT
            !.companies = cs,
            !.jobs = IF view # "jobs" /\ cs # {} THEN @ \cap JobOptions(cs) ELSE @])

PickJob ==
  /\ Acts /\ popover = "jobs" /\ cleared' = FALSE
  /\ \E js \in {{}} \cup {(chosen.jobs \ {j}) \cup ({j} \ chosen.jobs) : j \in JobOptions(chosen.companies)} :
       js # chosen.jobs /\ Choose([chosen EXCEPT !.jobs = js])

\* Mutant: clearing stores the bounds, as resetting the salary does.
BugClear ==
  /\ Acts
  /\ \/ view = "board" /\ pages > 0 /\ ActiveFilters
     \/ view = "jobs" /\ Loaded # {} /\ Shown = {}
  /\ Choose([NoFilter EXCEPT !.salary = Bounds])
  /\ cleared' = (hero.typed = hero.settled)

\* "Clear filters": the board's panel, and where no row passes.
Clear ==
  /\ Acts
  /\ \/ view = "board" /\ pages > 0 /\ ActiveFilters
     \/ view = "jobs" /\ Loaded # {} /\ Shown = {}
  /\ Choose(NoFilter)
  /\ cleared' = (hero.typed = hero.settled)

\* The drawer (which locks the page behind it) or the panel.
Toggle ==
  /\ Acts /\ (view = "board" => pages > 0)
  /\ drawer' = ~drawer
  /\ UNCHANGED <<view, loading, hero, chosen, debounced, popover, address, cleared>>

\* The menu's link to the board on the board: a new entry, the page as it was.
FollowLink ==
  /\ view = "board" /\ used < FilterActs /\ used' = used + 1
  /\ older' = url /\ url' = Empty /\ followed' = TRUE
  /\ UNCHANGED <<view, loading, hero, chosen, debounced, drawer, popover, cleared>>

Back ==
  /\ view = "board" /\ older # NoUrl /\ used < FilterActs /\ used' = used + 1
  /\ url' = older /\ older' = NoUrl /\ followed' = TRUE
  /\ UNCHANGED <<view, loading, hero, chosen, debounced, drawer, popover, cleared>>

-----------------------------------------------------------------------------
User ==
  \/ Remount \/ TypeHero \/ Type \/ PickLocation \/ AllLocations \/ MoveThumb \/ ResetSalary
  \/ PickFeatured \/ RemoveChip \/ TogglePopover \/ PickCompany \/ PickJob \/ Clear \/ Toggle
  \/ FollowLink \/ Back
FiltersNext ==
  User \/ Scroll \/ PageArrives \/ PageFails \/ CacheArrives \/ HeroSettles \/ QuerySettles

FiltersSpec == FiltersInit /\ [][FiltersNext]_filterVars

-----------------------------------------------------------------------------
(* Properties.                                                             *)

Settled == hero.typed = hero.settled /\ chosen.query = debounced

\* The types.
FiltersTyped ==
  /\ view \in Views /\ pages \in 0 .. Len(Data)
  /\ fetching \in BOOLEAN /\ failed \in BOOLEAN /\ cached \in BOOLEAN /\ drawer \in BOOLEAN
  /\ hero \in [typed : Query, settled : Query] /\ debounced \in Query
  /\ chosen \in Filter
  /\ popover \in {"none", "companies", "jobs"}
  /\ url \in Address /\ older \in Address \cup {NoUrl}
  /\ cleared \in BOOLEAN /\ followed \in BOOLEAN /\ used \in 0 .. FilterActs

\* However pages move the bounds, and whatever was chosen under other bounds or
\* read from an address, the range in force is an interval within the bounds.
RangeInBounds ==
  LET e == Effective(chosen.salary, Bounds)
  IN Bounds.lo <= e.lo /\ e.lo <= e.hi /\ e.hi <= Bounds.hi

\* After "clear filters" every loaded row is shown, pages that arrive later and
\* other bounds included, until something is chosen again.
ClearedShowsAll == cleared /\ Settled => Shown = Loaded

\* A row is hidden only if a chip names what hides it; a salary filter alone
\* hides no row that pays something within the range.
HiddenExplained ==
  Settled =>
    \A r \in Loaded \ Shown :
      /\ Chips # {} /\ ActiveFilters
      /\ Chips = {"salary"} =>
           ~\E s \in Effective(chosen.salary, Bounds).lo .. Effective(chosen.salary, Bounds).hi :
              /\ r.lo = NoSalary \/ r.lo <= s
              /\ r.hi = NoSalary \/ s <= r.hi

\* A reload of the board with the same rows loaded shows the same rows.
UrlRestores ==
  view = "board" /\ Settled /\ ~followed => Filtered(Restored(url), url.q) = Shown

\* The page behind the drawer is locked only while the drawer is there (it fails).
LockHasDrawer == view = "board" /\ drawer => pages > 0 /\ ~failed
=============================================================================
