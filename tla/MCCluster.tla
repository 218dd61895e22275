------------------------------ MODULE MCCluster ------------------------------
(* Finite instances of the worker supervisor. *)
EXTENDS ClusterSupervisor, TLC

\* The kernel's choice of a free pid is arbitrary: pids are interchangeable.
PidSymmetry == Permutations(Pids)

=============================================================================
