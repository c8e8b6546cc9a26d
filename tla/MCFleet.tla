------------------------------ MODULE MCFleet ------------------------------
(* Instances of Fleet for TLC. *)
EXTENDS Fleet

CONSTANTS p1, p2, m1, m2

\* One workload with all pods, or one with each.
OneModel == [p \in Pods |-> m1]
TwoModels == [p \in Pods |-> IF p = p1 THEN m1 ELSE m2]

\* Every router starts with the same configuration, or one rollout takes the
\* model out and a restart of an old router puts it back.
OneModelConfig == {{m1}}
NoneOrAll == {{}, {m1}}

=============================================================================
