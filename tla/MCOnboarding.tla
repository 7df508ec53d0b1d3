------------------------------ MODULE MCOnboarding -----------------------------
(* Small instances of Onboarding: requests, tokens and invites are          *)
(* interchangeable.                                                         *)
EXTENDS Onboarding, TLC

Symmetry == Permutations(Requests) \cup Permutations(Tokens)
              \cup Permutations(Invites)
================================================================================
