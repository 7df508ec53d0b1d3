---------------------------- MODULE ApplicationBook ----------------------------
(***************************************************************************)
(* What a posting and its applications promise to candidates and to their  *)
(* mailboxes, without requests, locks or cascades under way: each entry is *)
(* made and changed at once, a candidate has one entry that counts, what   *)
(* is deleted or was withdrawn for good stays so, and an email follows     *)
(* what it is about.                                                       *)
(***************************************************************************)
EXTENDS Naturals

CONSTANTS Applications, Candidates, NoCandidate

VARIABLES job, status, owner, closures, notices, rejected, regrets, settled

mails == <<closures, notices, rejected, regrets>>
book == <<job, status, owner, mails, settled>>

Postings == {"PENDING_APPROVAL", "PUBLISHED", "CLOSED"}
Statuses == {"NEW", "APPROVED_BY_ADMIN", "REJECTED", "HIRED", "WITHDRAWN", "JOB_CLOSED"}

Entries == {a \in Applications : status[a] \in Statuses}
Counting(st) == {a \in Applications : st[a] \in Statuses \ {"WITHDRAWN"}}
\* One entry of a candidate counts.
Fits(st) == \A a, b \in Counting(st) : owner[a] = owner[b] => a = b

BookInit ==
    /\ job \in Postings
    /\ status = [a \in Applications |-> "unborn"]
    /\ owner = [a \in Applications |-> NoCandidate]
    /\ closures = [a \in Applications |-> 0]
    /\ notices = [a \in Applications |-> 0]
    /\ rejected = {} /\ regrets = {} /\ settled = {}

\* The posting is decided on or edited.
Post ==
    /\ job \in Postings /\ job' \in Postings
    /\ UNCHANGED <<status, owner, mails, settled>>

\* A candidate without an entry that counts gets one, while there is a posting.
Submit(a, c) ==
    /\ job \in Postings
    /\ status[a] = "unborn"
    /\ \A b \in Counting(status) : owner[b] # c
    /\ status' = [status EXCEPT ![a] = "NEW"]
    /\ owner' = [owner EXCEPT ![a] = c]
    /\ UNCHANGED <<job, mails, settled>>

\* A candidate withdraws an entry, perhaps for good.
Withdraw(a) ==
    /\ a \in Entries
    /\ status' = [status EXCEPT ![a] = "WITHDRAWN"]
    /\ settled' \in {settled, settled \cup {a}}
    /\ UNCHANGED <<job, owner, mails>>

\* The entries of S become st, none of which was withdrawn for good.
Enter(S, st) ==
    /\ S \subseteq Entries \ settled
    /\ status' = [a \in Applications |-> IF a \in S THEN st ELSE status[a]]
    /\ Fits(status')
    /\ closures' = [a \in Applications |->
         IF a \in S /\ st = "JOB_CLOSED" /\ status[a] # st THEN closures[a] + 1 ELSE closures[a]]
    /\ rejected' = IF st = "REJECTED" THEN rejected \cup S ELSE rejected
    /\ UNCHANGED <<owner, notices, regrets, settled>>

\* An admin decides on an entry; a closing closes any number with the posting.
Decide(a, st) == Enter({a}, st) /\ UNCHANGED job
Close(S) == job \in Postings /\ job' = "CLOSED" /\ Enter(S, "JOB_CLOSED")

\* A candidate is told of a closure, at most once for each.
Notice(a) ==
    /\ a \in Entries => notices[a] < closures[a]
    /\ notices' = [notices EXCEPT ![a] = @ + 1]
    /\ UNCHANGED <<job, status, owner, closures, rejected, regrets, settled>>

\* ... and of a rejection that has happened.
Regret(a) ==
    /\ a \in rejected
    /\ regrets' = regrets \cup {a}
    /\ UNCHANGED <<job, status, owner, closures, notices, rejected, settled>>

\* An entry, or the posting with all its entries, is deleted for ever.
Delete(a) ==
    /\ a \in Entries
    /\ status' = [status EXCEPT ![a] = "deleted"]
    /\ UNCHANGED <<job, owner, mails, settled>>
DeletePosting ==
    /\ job' = "deleted"
    /\ status' = [a \in Applications |-> IF a \in Entries THEN "deleted" ELSE status[a]]
    /\ UNCHANGED <<owner, mails, settled>>

BookNext ==
    \/ Post \/ DeletePosting
    \/ \E a \in Applications :
         \/ \E c \in Candidates : Submit(a, c)
         \/ \E st \in Statuses : Decide(a, st)
         \/ Withdraw(a) \/ Notice(a) \/ Regret(a) \/ Delete(a)
    \/ \E S \in SUBSET Applications : Close(S)

BookSpec == BookInit /\ [][BookNext]_book
================================================================================
