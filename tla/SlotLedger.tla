----------------------------- MODULE SlotLedger -----------------------------
(***************************************************************************)
(* What the scheduler promises about replica slots, with nothing of how it *)
(* keeps the promise: every replica has a ceiling, a request takes one     *)
(* slot of one replica and gives it back once, and the count the           *)
(* scheduler keeps for a replica (the in_flight column) is the number of   *)
(* requests that hold one of its slots.                                    *)
(***************************************************************************)
EXTENDS Naturals, FiniteSets

CONSTANTS Requests,        \* requests that may ask for a slot
          Replicas,        \* replicas of one backend
          MaxConcurrency   \* ceiling of each replica

VARIABLES holders,   \* the requests holding a slot of each replica
          load       \* the count kept for each replica

ledgerVars == <<holders, load>>

LedgerInit ==
    /\ holders = [r \in Replicas |-> {}]
    /\ load = [r \in Replicas |-> 0]

Claim(q, r) ==
    /\ \A s \in Replicas : q \notin holders[s]
    /\ Cardinality(holders[r]) < MaxConcurrency[r]
    /\ holders' = [holders EXCEPT ![r] = @ \cup {q}]
    /\ load' = [load EXCEPT ![r] = @ + 1]

Return(q, r) ==
    /\ q \in holders[r]
    /\ holders' = [holders EXCEPT ![r] = @ \ {q}]
    /\ load' = [load EXCEPT ![r] = @ - 1]

LedgerNext == \E q \in Requests, r \in Replicas : Claim(q, r) \/ Return(q, r)

LedgerSpec == LedgerInit /\ [][LedgerNext]_ledgerVars

=============================================================================
