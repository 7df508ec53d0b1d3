------------------------------ MODULE SessionStore -----------------------------
(***************************************************************************)
(* What the refresh-token tables of an account promise, without requests, *)
(* locks or passwords: a token is handed out once, is exchanged or ended   *)
(* at most once, and every exchange yields one new token.  A token that    *)
(* was revoked but not spent may still be exchanged: the promise is single *)
(* use, not that a revocation overtakes an exchange under way.             *)
(***************************************************************************)
CONSTANT Tokens

VARIABLES issued, live, spent

store == <<issued, live, spent>>

StoreInit == issued = {} /\ live = {} /\ spent = {}

\* A login hands out a new token.
Grant(n) ==
    /\ n \notin issued
    /\ issued' = issued \cup {n}
    /\ live' = live \cup {n}
    /\ UNCHANGED spent

\* A refresh spends t and hands out n.
Exchange(t, n) ==
    /\ t \in issued \ spent
    /\ n \notin issued
    /\ issued' = issued \cup {n}
    /\ live' = (live \ {t}) \cup {n}
    /\ spent' = spent \cup {t}

\* A logout spends t for nothing.
End(t) ==
    /\ t \in issued \ spent
    /\ live' = live \ {t}
    /\ spent' = spent \cup {t}
    /\ UNCHANGED issued

\* A replay, a password change, a reset or an expiry removes rows.
Withdraw(S) ==
    /\ S \subseteq live
    /\ live' = live \ S
    /\ UNCHANGED <<issued, spent>>

StoreNext ==
    \/ \E n \in Tokens : Grant(n)
    \/ \E t, n \in Tokens : Exchange(t, n)
    \/ \E t \in Tokens : End(t)
    \/ \E S \in SUBSET Tokens : Withdraw(S)

StoreSpec == StoreInit /\ [][StoreNext]_store
================================================================================
