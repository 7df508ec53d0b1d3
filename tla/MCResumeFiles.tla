------------------------------ MODULE MCResumeFiles -----------------------------
(* Small instances of ResumeFiles: requests, applications and keys are       *)
(* interchangeable.                                                          *)
EXTENDS ResumeFiles, TLC

Symmetry == Permutations(Requests) \cup Permutations(Applications)
              \cup Permutations(Keys)
================================================================================
