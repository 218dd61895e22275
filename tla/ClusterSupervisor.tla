------------------------- MODULE ClusterSupervisor -------------------------
(***************************************************************************)
(* The fork-based worker supervisor of extension/src/cluster/cluster.c.    *)
(*                                                                         *)
(* One master process runs quicpro_cluster_orchestrate; its children run   *)
(* worker_process_main; signals arrive at any point.  A step of the master *)
(* is the code between two points where another process or a signal can    *)
(* make a difference: a read of a request flag, a fork, a waitpid, a pass  *)
(* of kill() over the pool.  A pass over the pool is one step, because the *)
(* pool is private to the master and a kill() of one worker commutes with  *)
(* the steps of every other one.                                           *)
(***************************************************************************)
EXTENDS Integers, Sequences

CONSTANTS
    Pids,             \* the process ids the kernel can hand out (they are reused)
    NoPid,            \* the 0 of an empty pool slot
    NumWorkers,       \* c_options.num_workers
    MaxRestarts,      \* c_options.max_restarts_per_worker, negative: unlimited
    RestartInterval,  \* c_options.restart_interval_sec
    GraceTimeout,     \* c_options.graceful_shutdown_timeout_sec
    RestartCrashed,   \* c_options.restart_crashed_workers
    Signals,          \* the signals other processes send to the master
    MaxTime,          \* bound: the clock outside a shutdown
    MaxCalls          \* bound: calls of quicpro_cluster_orchestrate

ASSUME ClusterAssumption ==
    /\ NoPid \notin Pids
    /\ NumWorkers \in Nat \ {0}
    /\ MaxRestarts \in Int
    /\ RestartInterval \in Nat
    /\ GraceTimeout \in Nat
    /\ RestartCrashed \in BOOLEAN
    /\ Signals \subseteq {"INT", "TERM", "HUP", "USR1"}
    /\ MaxTime \in Nat
    /\ MaxCalls \in Nat

Slots == 0 .. NumWorkers - 1

VARIABLES
    pc,                 \* where the master is
    slot,               \* the loop variable of the initial fork loop
    pid,                \* g_worker_pool[i].pid
    restart_count,      \* g_worker_pool[i].restart_count
    last_restart_time,  \* g_worker_pool[i].last_restart_time
    is_exiting,         \* g_worker_pool[i].is_exiting
    child_pid,          \* the child waitpid() has just returned
    shutdown_deadline,  \* the local of the shutdown sequence
    g_shutdown_request,
    g_reload_request,
    pid_file,           \* the master's pid file exists
    calls,              \* calls of orchestrate so far
    now,                \* time(NULL)
    proc,               \* the process table entry of each pid
    pending,            \* signals sent to a child and not yet delivered
    restarts            \* history: the times at which slot i was restarted

master    == <<pc, slot, child_pid, shutdown_deadline>>
pool      == <<pid, restart_count, last_restart_time, is_exiting>>
flags     == <<g_shutdown_request, g_reload_request>>
children  == <<proc, pending>>
vars      == <<master, pool, flags, pid_file, calls, now, children, restarts>>

(***************************************************************************)
(* A pid is "none" when it names no child of the master (it is free, or    *)
(* another process has it); "forked" between fork() and the child's        *)
(* signal(SIGTERM, SIG_DFL); "running" from there on; "zombie" while the   *)
(* child has ended, in whichever way, and is not yet waited for: the       *)
(* master only logs the exit status.                                       *)
(***************************************************************************)
ProcState == {"none", "forked", "running", "zombie"}
Alive(p) == proc[p] \in {"forked", "running"}
Dead(p) == proc[p] = "zombie"

\* The pids a pass over the pool meets.
Pooled_Mutant == {p \in Pids : \E i \in Slots \ {0} : pid[i] = p}

Pooled == {p \in Pids : \E i \in Slots : pid[i] = p}

MasterTypeOK ==
    /\ pc \in {"idle", "fork", "loop", "reload", "reload_reset", "wait",
               "reaped", "term", "grace", "kill", "dead"}
    /\ slot \in 0 .. NumWorkers
    /\ child_pid \in Pids \cup {NoPid}
    /\ shutdown_deadline \in Nat
    /\ calls \in Nat
    /\ now \in Nat

PoolTypeOK ==
    /\ pid \in [Slots -> Pids \cup {NoPid}]
    /\ restart_count \in [Slots -> Nat]
    /\ last_restart_time \in [Slots -> Nat]
    /\ is_exiting \in [Slots -> BOOLEAN]

FlagsTypeOK ==
    /\ g_shutdown_request \in BOOLEAN
    /\ g_reload_request \in BOOLEAN
    /\ pid_file \in BOOLEAN

ChildrenTypeOK ==
    /\ proc \in [Pids -> ProcState]
    /\ pending \in [Pids -> SUBSET {"TERM", "KILL", "USR1"}]

HistoryTypeOK == restarts \in [Slots -> Seq(Nat)]

TypeOK ==
    /\ MasterTypeOK
    /\ PoolTypeOK
    /\ FlagsTypeOK
    /\ ChildrenTypeOK
    /\ HistoryTypeOK

Init ==
    /\ pc = "idle"
    /\ slot = 0
    /\ pid = [i \in Slots |-> NoPid]
    /\ restart_count = [i \in Slots |-> 0]
    /\ last_restart_time = [i \in Slots |-> 0]
    /\ is_exiting = [i \in Slots |-> FALSE]
    /\ child_pid = NoPid
    /\ shutdown_deadline = 0
    /\ g_shutdown_request = FALSE
    /\ g_reload_request = FALSE
    /\ pid_file = FALSE
    /\ calls = 0
    /\ now = 0
    /\ proc = [p \in Pids |-> "none"]
    /\ pending = [p \in Pids |-> {}]
    /\ restarts = [i \in Slots |-> <<>>]

-----------------------------------------------------------------------------
(* What the master's steps are made of. *)

\* The children waitpid(-1, ...) can return.
Zombies == {p \in Pids : Dead(p)}

\* kill(pid, s) for every pid in P: a dead child ignores it.
Kill(P, s) ==
    pending' = [p \in Pids |-> IF p \in P /\ Alive(p)
                               THEN pending[p] \cup {s} ELSE pending[p]]

\* fork() gives the child a pid nobody uses.  The child starts with the
\* master's own handlers installed and no signal pending.
Fork(p) ==
    /\ proc[p] = "none"
    /\ proc' = [proc EXCEPT ![p] = "forked"]
    /\ pending' = [pending EXCEPT ![p] = {}]

\* The slots whose pid the grace period's scan over the pool clears.
ClearSlots(p) == [i \in Slots |-> IF pid[i] = p THEN NoPid ELSE pid[i]]

\* The pool is freed when orchestrate returns.
FreePool ==
    /\ pid' = [i \in Slots |-> NoPid]
    /\ restart_count' = [i \in Slots |-> 0]
    /\ last_restart_time' = [i \in Slots |-> 0]
    /\ is_exiting' = [i \in Slots |-> FALSE]

\* cleanup_and_fail: remove the pid file, free the pool, return to PHP.  The
\* request flags keep their values and the handlers stay installed.
Cleanup ==
    /\ pc' = "idle"
    /\ pid_file' = FALSE
    /\ FreePool
    /\ slot' = 0
    /\ shutdown_deadline' = 0

-----------------------------------------------------------------------------
(* quicpro_cluster_orchestrate up to the supervisor loop. *)

Orchestrate ==
    /\ pc = "idle"
    /\ calls < MaxCalls
    /\ pc' = "fork"
    /\ slot' = 0
    /\ calls' = calls + 1
    /\ pid_file' \in BOOLEAN
    /\ FreePool                     \* ecalloc: every field is zero
    /\ restarts' = [i \in Slots |-> <<>>]
    /\ UNCHANGED <<child_pid, shutdown_deadline, flags, now, children>>

ForkWorker ==
    /\ pc = "fork"
    /\ \E p \in Pids :
         /\ Fork(p)
         /\ pid' = [pid EXCEPT ![slot] = p]
    /\ last_restart_time' = [last_restart_time EXCEPT ![slot] = now]
    /\ slot' = slot + 1
    /\ pc' = IF slot + 1 = NumWorkers THEN "loop" ELSE "fork"
    /\ UNCHANGED <<restart_count, is_exiting, child_pid,
                   shutdown_deadline, flags, pid_file, calls, now, restarts>>

\* The workers the failing initial fork loop kills.
AlreadyForked_Mutant == {pid[j] : j \in 0 .. slot - 2} \cap Pids

AlreadyForked == {pid[j] : j \in 0 .. slot - 1} \cap Pids

ForkWorkerFails ==
    /\ pc = "fork"
    /\ Kill(AlreadyForked, "KILL")
    /\ Cleanup
    /\ UNCHANGED <<child_pid, flags, calls, now, proc, restarts>>

-----------------------------------------------------------------------------
(* master_supervisor_loop. *)

LoopHead ==
    /\ pc = "loop"
    /\ pc' = IF g_shutdown_request THEN "term" ELSE "reload"
    /\ UNCHANGED <<slot, child_pid, shutdown_deadline, pool, flags,
                   pid_file, calls, now, children, restarts>>

\* is_exiting after the pass over the pool.
MarkExiting_Mutant == [i \in Slots |-> is_exiting[i] \/ (i > 0 /\ pid[i] # NoPid)]

MarkExiting == [i \in Slots |-> is_exiting[i] \/ pid[i] # NoPid]

ReloadWorkers ==
    /\ pc = "reload"
    /\ IF g_reload_request
       THEN /\ pc' = "reload_reset"
            /\ Kill(Pooled, "TERM")
            /\ is_exiting' = MarkExiting
       ELSE /\ pc' = "wait"
            /\ UNCHANGED <<is_exiting, pending>>
    /\ UNCHANGED <<slot, child_pid, shutdown_deadline, pid,
                   restart_count, last_restart_time, flags, pid_file, calls, now,
                   proc, restarts>>

ReloadReset ==
    /\ pc = "reload_reset"
    /\ pc' = "wait"
    /\ g_reload_request' = FALSE
    /\ UNCHANGED <<slot, child_pid, shutdown_deadline, pool,
                   g_shutdown_request, pid_file, calls, now, children, restarts>>

\* waitpid(-1, &status, WNOHANG) with a dead child, and with none.
WaitReaps ==
    /\ pc = "wait"
    /\ \E p \in Zombies :
         /\ child_pid' = p
         /\ proc' = [proc EXCEPT ![p] = "none"]
    /\ pc' = "reaped"
    /\ UNCHANGED <<slot, shutdown_deadline, pool, flags, pid_file, calls, now,
                   pending, restarts>>

WaitFindsNone ==
    /\ pc = "wait"
    /\ Zombies = {}
    /\ pc' = "loop"
    /\ UNCHANGED <<slot, child_pid, shutdown_deadline, pool, flags,
                   pid_file, calls, now, children, restarts>>

\* Back to the head of the loop once the dead child is dealt with.
NextIteration ==
    /\ pc' = "loop"
    /\ child_pid' = NoPid
    /\ UNCHANGED <<slot, shutdown_deadline, flags, pid_file, calls, now>>

\* A child that no slot holds: left over from an earlier call.
IgnoreChild ==
    /\ pc = "reaped"
    /\ child_pid \notin Pooled
    /\ NextIteration
    /\ UNCHANGED <<pool, children, restarts>>

\* The test in front of the restart logic.
MayRestart(i) == RestartCrashed /\ ~is_exiting[i] /\ ~g_shutdown_request

\* restart_count after the reset and the increment.
CountRestart_Mutant(i) ==
    IF now - last_restart_time[i] >= RestartInterval THEN 1 ELSE restart_count[i] + 1

CountRestart(i) ==
    IF now - last_restart_time[i] > RestartInterval THEN 1 ELSE restart_count[i] + 1

WithinLimit(i) == MaxRestarts < 0 \/ CountRestart(i) <= MaxRestarts

RecordRestart(i) ==
    /\ restart_count' = [restart_count EXCEPT ![i] = CountRestart(i)]
    /\ last_restart_time' = [last_restart_time EXCEPT ![i] = now]

RestartWorker(i) ==
    /\ pc = "reaped"
    /\ pid[i] = child_pid
    /\ MayRestart(i)
    /\ RecordRestart(i)
    /\ WithinLimit(i)
    /\ \E p \in Pids : Fork(p) /\ pid' = [pid EXCEPT ![i] = p]
    /\ restarts' = [restarts EXCEPT ![i] = Append(@, now)]
    /\ NextIteration
    /\ UNCHANGED is_exiting

\* The pid of a worker that is not restarted.
DropPid_Mutant(i) == pid

DropPid(i) == [pid EXCEPT ![i] = NoPid]

\* Over the limit, or the fork fails.
GiveUpWorker(i) ==
    /\ pc = "reaped"
    /\ pid[i] = child_pid
    /\ MayRestart(i)
    /\ RecordRestart(i)
    /\ pid' = DropPid(i)
    /\ NextIteration
    /\ UNCHANGED <<is_exiting, children, restarts>>

LimitExceeded(i) == ~WithinLimit(i) /\ GiveUpWorker(i)

RestartFails(i) == WithinLimit(i) /\ GiveUpWorker(i)

LetWorkerGo(i) ==
    /\ pc = "reaped"
    /\ pid[i] = child_pid
    /\ ~MayRestart(i)
    /\ pid' = DropPid(i)
    /\ NextIteration
    /\ UNCHANGED <<restart_count, last_restart_time, is_exiting, children, restarts>>

-----------------------------------------------------------------------------
(* The shutdown sequence. *)

SendTerm ==
    /\ pc = "term"
    /\ Kill(Pooled, "TERM")
    /\ shutdown_deadline' = now + GraceTimeout
    /\ pc' = "grace"
    /\ UNCHANGED <<slot, child_pid, pool, flags, pid_file, calls, now,
                   proc, restarts>>

\* Mutant: the pass continues the supervisor loop around it.
GraceReaps_Mutant ==
    /\ pc = "grace"
    /\ now < shutdown_deadline
    /\ \E p \in Zombies :
         /\ proc' = [proc EXCEPT ![p] = "none"]
         /\ pid' = ClearSlots(p)
    /\ pc' = IF \A i \in Slots : pid'[i] = NoPid THEN "kill" ELSE "loop"
    /\ UNCHANGED <<slot, child_pid, shutdown_deadline, restart_count,
                   last_restart_time, is_exiting, flags, pid_file, calls, now,
                   pending, restarts>>

\* One pass of the grace loop that reaps a child.  A pass that reaps none only
\* sleeps.
GraceReaps ==
    /\ pc = "grace"
    /\ now < shutdown_deadline
    /\ \E p \in Zombies :
         /\ proc' = [proc EXCEPT ![p] = "none"]
         /\ pid' = ClearSlots(p)
    /\ pc' = IF \A i \in Slots : pid'[i] = NoPid THEN "kill" ELSE "grace"
    /\ UNCHANGED <<slot, child_pid, shutdown_deadline, restart_count,
                   last_restart_time, is_exiting, flags, pid_file, calls, now,
                   pending, restarts>>

\* The test of the grace loop.
DeadlinePassed == now >= shutdown_deadline

GraceEnds ==
    /\ pc = "grace"
    /\ DeadlinePassed
    /\ pc' = "kill"
    /\ UNCHANGED <<slot, child_pid, shutdown_deadline, pool, flags,
                   pid_file, calls, now, children, restarts>>

SendKill ==
    /\ pc = "kill"
    /\ Kill(Pooled, "KILL")
    /\ Cleanup
    /\ UNCHANGED <<child_pid, flags, calls, now, proc, restarts>>

-----------------------------------------------------------------------------
(* Signals to the master. *)

cluster_signal_handler(s) ==
    /\ g_shutdown_request' = (g_shutdown_request \/ s \in {"INT", "TERM"})
    /\ g_reload_request' = (g_reload_request \/ s = "HUP")

Handled == {"INT", "TERM", "HUP"}

\* Any process signals the master once its handlers are installed.
SignalMaster(s) ==
    /\ calls > 0
    /\ pc # "dead"
    /\ s \in Handled
    /\ cluster_signal_handler(s)
    /\ UNCHANGED <<master, pool, pid_file, calls, now, children, restarts>>

\* quicpro_cluster_signal_workers: kill() on the pid read from the pid file.
\* A signal without a handler ends the master.
SignalWorkers(s) ==
    /\ pc # "dead"
    /\ pid_file
    /\ IF s \in Handled
       THEN cluster_signal_handler(s) /\ pc' = pc
       ELSE pc' = "dead" /\ UNCHANGED flags
    /\ UNCHANGED <<slot, child_pid, shutdown_deadline, pool, pid_file,
                   calls, now, children, restarts>>

-----------------------------------------------------------------------------
(* The children: worker_process_main. *)

End(p) ==
    /\ proc' = [proc EXCEPT ![p] = "zombie"]
    /\ pending' = [pending EXCEPT ![p] = {}]

OnlyChildren == UNCHANGED <<master, pool, flags, pid_file, calls, now, restarts>>

\* signal(SIGTERM, SIG_DFL) and the two calls after it.
ResetSignals(p) ==
    /\ proc[p] = "forked"
    /\ proc' = [proc EXCEPT ![p] = "running"]
    /\ UNCHANGED pending
    /\ OnlyChildren

\* exit(0) after the main callable, exit(1) after a failed setup step or
\* callable, or a crash.
WorkerEnds(p) ==
    /\ proc[p] = "running"
    /\ End(p)
    /\ OnlyChildren

\* With the default disposition SIGTERM ends the worker; before that, the
\* handler inherited from the master only sets the child's own flag.
DeliverTerm(p) ==
    /\ "TERM" \in pending[p]
    /\ \/ /\ proc[p] = "forked"
          /\ pending' = [pending EXCEPT ![p] = @ \ {"TERM"}]
          /\ UNCHANGED proc
       \/ /\ proc[p] = "running"
          /\ End(p)
    /\ OnlyChildren

DeliverKill(p) ==
    /\ "KILL" \in pending[p]
    /\ End(p)
    /\ OnlyChildren

\* The clock stops at MaxTime, except that a shutdown may reach its deadline.
Tick ==
    /\ now < MaxTime \/ (pc = "grace" /\ now < shutdown_deadline)
    /\ now' = now + 1
    /\ UNCHANGED <<master, pool, flags, pid_file, calls, children, restarts>>

-----------------------------------------------------------------------------
HandleExit ==
    \/ IgnoreChild
    \/ \E i \in Slots : \/ RestartWorker(i)
                        \/ RestartFails(i)
                        \/ LimitExceeded(i)
                        \/ LetWorkerGo(i)

MasterStep ==
    \/ ForkWorker \/ ForkWorkerFails
    \/ LoopHead \/ ReloadWorkers \/ ReloadReset \/ WaitReaps \/ WaitFindsNone
    \/ HandleExit
    \/ SendTerm \/ GraceReaps \/ GraceEnds \/ SendKill

ChildStep(p) == ResetSignals(p) \/ WorkerEnds(p) \/ DeliverTerm(p) \/ DeliverKill(p)

Next ==
    \/ Orchestrate
    \/ MasterStep
    \/ \E s \in Signals : SignalMaster(s) \/ SignalWorkers(s)
    \/ \E p \in Pids : ChildStep(p)
    \/ Tick

Spec == Init /\ [][Next]_vars

\* The master and its children are ordinary processes the kernel schedules,
\* pending signals are delivered, and time passes.  A worker need not end by
\* itself, and nobody need send a signal.
Fairness ==
    /\ WF_vars(MasterStep)
    /\ WF_vars(Tick)
    /\ \A p \in Pids : /\ WF_vars(ResetSignals(p))
                       /\ WF_vars(DeliverTerm(p))
                       /\ WF_vars(DeliverKill(p))

FairSpec == Spec /\ Fairness

-----------------------------------------------------------------------------
(* Safety. *)

\* A slot's pid always names a child that has not been waited for, so kill()
\* on it can never hit a process that was given the pid later; the one moment
\* it does not is between waitpid() and the end of the exit handling, where
\* the master sends no signal.  And no child sits in two slots, so the search
\* for the slot of a dead child has one answer.
PoolOwnsChildren ==
    /\ \A i \in Slots : pid[i] \notin {NoPid, child_pid} => proc[pid[i]] # "none"
    /\ \A i, j \in Slots : pid[i] = pid[j] /\ pid[i] # NoPid => i = j

\* Every live worker of any call is in the pool or about to be killed: a fork
\* that fails half way, a restart, and the shutdown sequence never leave a
\* worker running that the master has forgotten, and none outlives the call.
NoForgottenWorker ==
    \A p \in Pids : Alive(p) => p \in Pooled \/ "KILL" \in pending[p]

\* A slot is never restarted more than max_restarts_per_worker times within
\* restart_interval_sec: any two restarts that many apart are further apart
\* in time than the interval.
RestartRate ==
    MaxRestarts >= 0 =>
        \A i \in Slots : \A k \in 1 .. Len(restarts[i]) - MaxRestarts :
            restarts[i][k + MaxRestarts] - restarts[i][k] > RestartInterval

\* SIGKILL is for a failed start, or for workers that had the whole of
\* graceful_shutdown_timeout_sec to react to SIGTERM.
KillOnlyAfterGrace ==
    [][\A p \in Pids : "KILL" \in pending'[p] \ pending[p] =>
           pc = "fork" \/ now >= shutdown_deadline]_vars

\* No SIGHUP is lost: when g_reload_request is cleared, every worker in the
\* pool has been told to stop, also for a second SIGHUP that arrived while the
\* pass over the pool was under way.
ReloadNotLost ==
    [][g_reload_request /\ ~g_reload_request' =>
           \A i \in Slots : pid[i] # NoPid => is_exiting[i]]_vars

-----------------------------------------------------------------------------
(* The abstract pool the supervisor implements. *)

Phase ==
    CASE pc = "idle" -> "closed"
      [] pc = "fork" -> "starting"
      [] pc \in {"loop", "reload", "reload_reset", "wait", "reaped"} -> "serving"
      [] pc \in {"term", "grace", "kill"} -> "stopping"
      [] pc = "dead" -> "gone"

\* A child that was waited for has ended until its slot is dealt with.
SlotState(i) ==
    CASE pid[i] = NoPid -> "empty"
      [] pid[i] # NoPid /\ Alive(pid[i]) -> "live"
      [] pid[i] # NoPid /\ ~Alive(pid[i]) -> "ended"

Pool == INSTANCE WorkerPool WITH
            Slot <- Slots, phase <- Phase, worker <- [i \in Slots |-> SlotState(i)]

\* Whatever pids are reused, signals arrive and forks fail, the pool of the
\* supervisor is a worker pool: no worker is started during a shutdown, a slot
\* is refilled or vacated only after its worker ended, a vacated slot stays
\* empty until the next call, and no step touches two slots but the last.
ImplementsWorkerPool == Pool!Spec

-----------------------------------------------------------------------------
(* Liveness, under FairSpec. *)

\* A shutdown request ends in no worker being alive, whether workers react to
\* SIGTERM or not, unless the master itself is killed.
ShutdownStopsAll ==
    g_shutdown_request ~> (pc = "dead" \/ \A p \in Pids : ~Alive(p))

\* The master deals with every dead worker: its pid leaves the slot, for good or
\* because a restart put a live worker there.
DeadWorkerNoticed ==
    \A i \in Slots, p \in Pids :
        (pid[i] = p /\ Dead(p)) ~> (pc = "dead" \/ pid[i] # p \/ Alive(p))

=============================================================================
