---------------------------- MODULE MCPlacement ----------------------------
(* Instances of Placement for TLC. *)
EXTENDS Placement

CONSTANTS q1, q2, r1, r2, k1

\* q1 sends the turns of a conversation, q2 requests that are not part of one.
OneConversation == [q \in Requests |-> IF q = q1 THEN k1 ELSE NoKey]

OneSlotEach == [r \in Replicas |-> 1]

=============================================================================
