----------------------------- MODULE MCLifecycle -----------------------------
(* Instances of RequestLifecycle for TLC: the constants of every run on it. *)
EXTENDS RequestLifecycle

CONSTANTS q1, q2, q3, r1, r2, rtA, rtB

\* q1 arrives at one router, the others at the second.
TwoRouters == [q \in Requests |-> IF q = q1 THEN rtA ELSE rtB]

\* One request of each kind, or one streamed beside a plain or an embeddings one.
OneOfEach == [q \in Requests |-> IF q = q1 THEN "stream"
                                 ELSE IF q = q2 THEN "chat" ELSE "embed"]
StreamAndChat == [q \in Requests |-> IF q = q1 THEN "stream" ELSE "chat"]
StreamAndEmbed == [q \in Requests |-> IF q = q1 THEN "stream" ELSE "embed"]

\* Two slots for three requests: one on each of two replicas (1 is the default
\* of max_concurrency), or both on one.
OneSlotEach == [r \in Replicas |-> 1]
TwoSlotsEach == [r \in Replicas |-> 2]

=============================================================================
