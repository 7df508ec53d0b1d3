---------------------------- MODULE MCAdminLists ----------------------------
(* Small instances of AdminLists. *)
EXTENDS AdminLists

AllPages == {"jobs", "applications", "candidates", "active", "pending", "invites",
             "companyJobs", "board"}
\* The jobs page has the most to do at a time.
MCBudget == [p \in Pages |-> IF p = "jobs" THEN 3 ELSE 4]
=============================================================================
