----------------------------- MODULE AtLeastOnce -----------------------------
(***************************************************************************)
(* What the task queue promises to those who enqueue (docs/ARCHITECTURE.md *)
(* "at-least-once delivery; DLQ captures failures"), without messages,     *)
(* receipts or workers: an accepted task is settled only with or after an  *)
(* execution of it that reached its end, or is given up, and then kept.    *)
(***************************************************************************)
CONSTANT Ids

VARIABLES accepted, carried, settled, given

delivery == <<accepted, carried, settled, given>>

DeliveryInit == accepted = {} /\ carried = {} /\ settled = {} /\ given = {}

Accept(i) ==
  /\ i \notin accepted /\ accepted' = accepted \cup {i}
  /\ UNCHANGED <<carried, settled, given>>

\* An execution ends, and the task is settled with it or not.
Carry(i) ==
  /\ i \in accepted /\ carried' = carried \cup {i}
  /\ (settled' = settled) \/ (i \notin given /\ settled' = settled \cup {i})
  /\ UNCHANGED <<accepted, given>>

GiveUp(i) ==
  /\ i \in accepted \ settled /\ given' = given \cup {i}
  /\ UNCHANGED <<accepted, carried, settled>>

DeliveryNext == \E i \in Ids : Accept(i) \/ Carry(i) \/ GiveUp(i)
DeliverySpec == DeliveryInit /\ [][DeliveryNext]_delivery
=============================================================================
