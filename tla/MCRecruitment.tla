----------------------------- MODULE MCRecruitment -----------------------------
(* Small instances of Recruitment: requests, applications and candidates    *)
(* are interchangeable.                                                     *)
EXTENDS Recruitment, TLC

Symmetry == Permutations(Requests) \cup Permutations(Applications)
              \cup Permutations(Candidates)
================================================================================
