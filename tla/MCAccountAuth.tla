----------------------------- MODULE MCAccountAuth -----------------------------
(* AccountAuth for TLC: which endpoints an instance exercises, and symmetry. *)
EXTENDS AccountAuth, TLC

\* Requests, tokens and passwords are only compared, so permuting them is sound
\* for the safety properties.
Symmetry == Permutations(Requests) \cup Permutations(Tokens)
              \cup Permutations(ResetTokens) \cup Permutations(Passwords)
================================================================================
