----------------------------- MODULE WorkerPool -----------------------------
(***************************************************************************)
(* What quicpro_cluster_orchestrate promises of its workers, without       *)
(* processes, pids, signals or time: a slot is filled once at the start,   *)
(* is refilled only while the pool serves and only after its worker ended, *)
(* and a slot that was vacated stays empty until the next call.            *)
(***************************************************************************)
CONSTANT Slot

VARIABLES
    phase,    \* closed, starting, serving, stopping; gone when the master was killed
    worker    \* [Slot -> empty, live, ended]

vars == <<phase, worker>>

Init ==
    /\ phase = "closed"
    /\ worker = [i \in Slot |-> "empty"]

Becomes(i, from, to) ==
    /\ worker[i] = from
    /\ worker' = [worker EXCEPT ![i] = to]

Open ==
    /\ phase = "closed"
    /\ phase' = "starting"
    /\ UNCHANGED worker

\* The last worker started opens the pool for service.
Start(i) ==
    /\ phase = "starting"
    /\ Becomes(i, "empty", "live")
    /\ phase' \in {"starting", "serving"}

WorkerEnds(i) ==
    /\ Becomes(i, "live", "ended")
    /\ UNCHANGED phase

Refill(i) ==
    /\ phase = "serving"
    /\ Becomes(i, "ended", "live")
    /\ UNCHANGED phase

Vacate(i) ==
    /\ phase \in {"serving", "stopping"}
    /\ Becomes(i, "ended", "empty")
    /\ UNCHANGED phase

Stop ==
    /\ phase = "serving"
    /\ phase' = "stopping"
    /\ UNCHANGED worker

\* The pool is given up as a whole: the start failed or the shutdown is over.
Close ==
    /\ phase \in {"starting", "stopping"}
    /\ phase' = "closed"
    /\ worker' = [i \in Slot |-> "empty"]

MasterKilled ==
    /\ phase' = "gone"
    /\ UNCHANGED worker

Next ==
    \/ Open \/ Stop \/ Close \/ MasterKilled
    \/ \E i \in Slot : Start(i) \/ WorkerEnds(i) \/ Refill(i) \/ Vacate(i)

Spec == Init /\ [][Next]_vars

=============================================================================
