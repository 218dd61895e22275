---------------------- MODULE ClusterSupervisorProofs ----------------------
(***************************************************************************)
(* Proofs about the worker supervisor for any number of workers and pids   *)
(* and any restart policy.                                                 *)
(***************************************************************************)
EXTENDS ClusterSupervisor, TLAPS

(***************************************************************************)
(* What PoolOwnsChildren and NoForgottenWorker need to be inductive: a     *)
(* reaped child has left the process table, only the exit handling holds   *)
(* one, slots the fork loop has not reached and the slots of a finished    *)
(* call are empty, and signals are pending only for live children.         *)
(***************************************************************************)
PoolInv ==
    /\ PoolOwnsChildren
    /\ NoForgottenWorker
    /\ child_pid # NoPid => proc[child_pid] = "none"
    /\ pc \notin {"reaped", "dead"} => child_pid = NoPid
    /\ pc = "reaped" => child_pid # NoPid
    /\ pc = "fork" => /\ slot < NumWorkers
                      /\ \A j \in Slots : j >= slot => pid[j] = NoPid
    /\ pc = "idle" => \A j \in Slots : pid[j] = NoPid
    /\ \A p \in Pids : pending[p] # {} => Alive(p)

(***************************************************************************)
(* What RestartRate needs: the restart times t of a slot never decrease,   *)
(* and the last c of them, those restart_count counts, form a run that     *)
(* began more than the interval after the restart before it.               *)
(***************************************************************************)
Paced(t) ==
    MaxRestarts >= 0 =>
        \A k \in 1 .. Len(t) - MaxRestarts : t[k + MaxRestarts] - t[k] > RestartInterval

Ascending(t) == \A k, l \in 1 .. Len(t) : k <= l => t[k] <= t[l]

NotAfter(t, time) == \A k \in 1 .. Len(t) : t[k] <= time

RunOf(t, c) ==
    /\ c <= Len(t)
    /\ Len(t) > 0 => c > 0
    /\ c < Len(t) => t[Len(t) - c + 1] - t[Len(t) - c] > RestartInterval

SlotRate(i) ==
    /\ Paced(restarts[i])
    /\ Ascending(restarts[i])
    /\ last_restart_time[i] <= now
    /\ pc \notin {"idle", "dead"} => NotAfter(restarts[i], last_restart_time[i])
    /\ pid[i] # NoPid => RunOf(restarts[i], restart_count[i])
    /\ (pc = "fork" /\ i >= slot) => restarts[i] = <<>> /\ restart_count[i] = 0

RateInv == \A i \in Slots : SlotRate(i)

-----------------------------------------------------------------------------
(* A pass of kill() over the pool keeps the children well typed. *)
LEMMA KillTyped ==
    ASSUME ChildrenTypeOK, NEW P, NEW s \in {"TERM", "KILL"}, Kill(P, s), UNCHANGED proc
    PROVE  ChildrenTypeOK'
<1>1. pending' \in [Pids -> SUBSET {"TERM", "KILL", "USR1"}]
  BY DEF Kill, ChildrenTypeOK
<1>2. QED
  BY <1>1 DEF ChildrenTypeOK

(* A fork keeps the children well typed. *)
LEMMA ForkTyped ==
    ASSUME ChildrenTypeOK, NEW p \in Pids, Fork(p)
    PROVE  ChildrenTypeOK'
  BY DEF Fork, ChildrenTypeOK, ProcState

(* The end of a child keeps the children well typed. *)
LEMMA EndTyped ==
    ASSUME ChildrenTypeOK, NEW p \in Pids, End(p)
    PROVE  ChildrenTypeOK'
  BY DEF End, ChildrenTypeOK, ProcState

\* slot + 1 stays in range: the fork loop runs only below NumWorkers.
TypeInv == TypeOK /\ (pc = "fork" => slot < NumWorkers)

(* Every state is well typed. *)
THEOREM TypeCorrect == Spec => []TypeOK
<1> USE ClusterAssumption
<1>1. Init => TypeInv
  <2> SUFFICES ASSUME Init PROVE TypeInv
    OBVIOUS
  <2>1. MasterTypeOK
    BY DEF Init, Slots, MasterTypeOK
  <2>2. PoolTypeOK
    BY DEF Init, Slots, PoolTypeOK
  <2>3. FlagsTypeOK
    BY DEF Init, Slots, FlagsTypeOK
  <2>4. ChildrenTypeOK
    BY DEF Init, Slots, ChildrenTypeOK, ProcState
  <2>5. HistoryTypeOK
    BY DEF Init, Slots, HistoryTypeOK
  <2> QED
    BY <2>1, <2>2, <2>3, <2>4, <2>5 DEF Init, TypeInv, TypeOK
<1>2. TypeInv /\ [Next]_vars => TypeInv'
  <2> SUFFICES ASSUME TypeInv, [Next]_vars PROVE TypeInv'
    OBVIOUS
  <2> USE DEF TypeInv, TypeOK, MasterTypeOK, PoolTypeOK, FlagsTypeOK, ChildrenTypeOK,
              HistoryTypeOK, Slots, ProcState, master, pool, flags, children
  <2>1. CASE Orchestrate
    BY <2>1 DEF Orchestrate, FreePool
  <2>2. CASE ForkWorker
    <3> PICK p \in Pids : Fork(p) /\ pid' = [pid EXCEPT ![slot] = p]
      BY <2>2 DEF ForkWorker
    <3>1. ChildrenTypeOK'
      BY ForkTyped
    <3>2. PoolTypeOK'
      BY <2>2 DEF ForkWorker
    <3>3. MasterTypeOK' /\ (pc = "fork" => slot < NumWorkers)'
      BY <2>2 DEF ForkWorker
    <3>4. FlagsTypeOK' /\ HistoryTypeOK'
      BY <2>2 DEF ForkWorker
    <3> QED
      BY <3>1, <3>2, <3>3, <3>4
  <2>3. CASE ForkWorkerFails
    <3>1. ChildrenTypeOK'
      BY <2>3, KillTyped DEF ForkWorkerFails
    <3>2. PoolTypeOK'
      BY <2>3 DEF ForkWorkerFails, Cleanup, FreePool
    <3>3. MasterTypeOK' /\ (pc = "fork" => slot < NumWorkers)'
      BY <2>3 DEF ForkWorkerFails, Cleanup
    <3>4. FlagsTypeOK' /\ HistoryTypeOK'
      BY <2>3 DEF ForkWorkerFails, Cleanup
    <3> QED
      BY <3>1, <3>2, <3>3, <3>4
  <2>4. CASE LoopHead
    BY <2>4 DEF LoopHead
  <2>5. CASE ReloadWorkers
    <3>1. ChildrenTypeOK'
      BY <2>5, KillTyped DEF ReloadWorkers
    <3>2. PoolTypeOK'
      BY <2>5 DEF ReloadWorkers, MarkExiting
    <3>3. MasterTypeOK' /\ (pc = "fork" => slot < NumWorkers)'
      BY <2>5 DEF ReloadWorkers
    <3>4. FlagsTypeOK' /\ HistoryTypeOK'
      BY <2>5 DEF ReloadWorkers
    <3> QED
      BY <3>1, <3>2, <3>3, <3>4
  <2>6. CASE ReloadReset
    BY <2>6 DEF ReloadReset
  <2>7. CASE WaitReaps
    BY <2>7 DEF WaitReaps, Zombies, Dead
  <2>8. CASE WaitFindsNone
    BY <2>8 DEF WaitFindsNone
  <2>9. CASE IgnoreChild
    BY <2>9 DEF IgnoreChild, NextIteration
  <2>10. ASSUME NEW i \in Slots, RestartWorker(i) PROVE TypeInv'
    <3> PICK p \in Pids : Fork(p) /\ pid' = [pid EXCEPT ![i] = p]
      BY <2>10 DEF RestartWorker
    <3>1. ChildrenTypeOK'
      BY ForkTyped
    <3>2. PoolTypeOK'
      <4>1. CountRestart(i) \in Nat
        BY DEF CountRestart
      <4>2. QED
        BY <4>1, <2>10 DEF RestartWorker, RecordRestart
    <3>3. MasterTypeOK' /\ (pc = "fork" => slot < NumWorkers)'
      BY <2>10 DEF RestartWorker, NextIteration
    <3>4. FlagsTypeOK' /\ HistoryTypeOK'
      BY <2>10 DEF RestartWorker, NextIteration
    <3> QED
      BY <3>1, <3>2, <3>3, <3>4
  <2>11. ASSUME NEW i \in Slots, GiveUpWorker(i) PROVE TypeInv'
    <3>1. ChildrenTypeOK' /\ FlagsTypeOK' /\ HistoryTypeOK'
      BY <2>11 DEF GiveUpWorker, NextIteration
    <3>2. PoolTypeOK'
      <4>1. CountRestart(i) \in Nat
        BY DEF CountRestart
      <4>2. QED
        BY <4>1, <2>11 DEF GiveUpWorker, RecordRestart, DropPid
    <3>3. MasterTypeOK' /\ (pc = "fork" => slot < NumWorkers)'
      BY <2>11 DEF GiveUpWorker, NextIteration
    <3> QED
      BY <3>1, <3>2, <3>3
  <2>12. ASSUME NEW i \in Slots, LetWorkerGo(i) PROVE TypeInv'
    BY <2>12 DEF LetWorkerGo, DropPid, NextIteration
  <2>13. CASE SendTerm
    BY <2>13 DEF SendTerm, Kill
  <2>14. CASE GraceReaps
    BY <2>14 DEF GraceReaps, ClearSlots
  <2>15. CASE GraceEnds
    BY <2>15 DEF GraceEnds
  <2>16. CASE SendKill
    <3>1. ChildrenTypeOK'
      BY <2>16, KillTyped DEF SendKill
    <3>2. PoolTypeOK'
      BY <2>16 DEF SendKill, Cleanup, FreePool
    <3>3. MasterTypeOK' /\ (pc = "fork" => slot < NumWorkers)'
      BY <2>16 DEF SendKill, Cleanup
    <3>4. FlagsTypeOK' /\ HistoryTypeOK'
      BY <2>16 DEF SendKill, Cleanup
    <3> QED
      BY <3>1, <3>2, <3>3, <3>4
  <2>17. ASSUME NEW s \in Signals, SignalMaster(s) PROVE TypeInv'
    BY <2>17 DEF SignalMaster, cluster_signal_handler
  <2>18. ASSUME NEW s \in Signals, SignalWorkers(s) PROVE TypeInv'
    BY <2>18 DEF SignalWorkers, cluster_signal_handler
  <2>19. ASSUME NEW p \in Pids, ChildStep(p) PROVE TypeInv'
    <3>1. ChildrenTypeOK'
      <4>1. CASE ResetSignals(p)
        BY <4>1 DEF ResetSignals
      <4>2. CASE WorkerEnds(p)
        BY <4>2, EndTyped DEF WorkerEnds
      <4>3. CASE DeliverTerm(p)
        <5>1. CASE End(p)
          BY <5>1, EndTyped
        <5>2. CASE pending' = [pending EXCEPT ![p] = @ \ {"TERM"}] /\ UNCHANGED proc
          BY <5>2
        <5> QED
          BY <4>3, <5>1, <5>2 DEF DeliverTerm
      <4>4. CASE DeliverKill(p)
        BY <4>4, EndTyped DEF DeliverKill
      <4> QED
        BY <2>19, <4>1, <4>2, <4>3, <4>4 DEF ChildStep
    <3>2. OnlyChildren
      BY <2>19 DEF ChildStep, ResetSignals, WorkerEnds, DeliverTerm, DeliverKill
    <3> QED
      BY <3>1, <3>2 DEF OnlyChildren
  <2>20. CASE Tick
    BY <2>20 DEF Tick
  <2>21. CASE UNCHANGED vars
    BY <2>21 DEF vars
  <2> QED
    BY <2>1, <2>2, <2>3, <2>4, <2>5, <2>6, <2>7, <2>8, <2>9, <2>10, <2>11,
       <2>12, <2>13, <2>14, <2>15, <2>16, <2>17, <2>18, <2>19, <2>20, <2>21
       DEF Next, MasterStep, HandleExit, RestartFails, LimitExceeded
<1>3. QED
  BY <1>1, <1>2, PTL DEF Spec, TypeInv

-----------------------------------------------------------------------------
(* The pool invariant holds before the first call. *)
LEMMA PoolInvInit == Init => PoolInv
  BY ClusterAssumption DEF Init, PoolInv, PoolOwnsChildren, NoForgottenWorker, Alive, Pooled, Slots

(* Every step keeps the pool invariant. *)
LEMMA PoolInvNext == TypeOK /\ PoolInv /\ [Next]_vars => PoolInv'
<1> SUFFICES ASSUME TypeOK, PoolInv, [Next]_vars PROVE PoolInv'
  OBVIOUS
<1>t. /\ pid \in [Slots -> Pids \cup {NoPid}] /\ proc \in [Pids -> ProcState]
      /\ pending \in [Pids -> SUBSET {"TERM", "KILL", "USR1"}]
      /\ child_pid \in Pids \cup {NoPid} /\ slot \in 0 .. NumWorkers
      /\ NoPid \notin Pids /\ NumWorkers \in Nat \ {0}
  BY ClusterAssumption DEF TypeOK, MasterTypeOK, PoolTypeOK, ChildrenTypeOK
<1> USE <1>t DEF PoolInv, PoolOwnsChildren, NoForgottenWorker, Alive, Pooled, Slots
<1>1. CASE Orchestrate
  BY <1>1 DEF Orchestrate, FreePool, children
<1>2. CASE ForkWorker
  BY <1>2 DEF ForkWorker, Fork
<1>3. CASE ForkWorkerFails
  BY <1>3 DEF ForkWorkerFails, Kill, Cleanup, FreePool, AlreadyForked
<1>4. CASE LoopHead
  BY <1>4 DEF LoopHead, pool, children
<1>5. CASE ReloadWorkers
  BY <1>5 DEF ReloadWorkers, Kill
<1>6. CASE ReloadReset
  BY <1>6 DEF ReloadReset, pool, children
<1>7. CASE WaitReaps
  BY <1>7 DEF WaitReaps, Zombies, Dead, pool
<1>8. CASE WaitFindsNone
  BY <1>8 DEF WaitFindsNone, pool, children
<1>9. CASE IgnoreChild
  BY <1>9 DEF IgnoreChild, NextIteration, pool, children
<1>10. ASSUME NEW i \in Slots, RestartWorker(i) PROVE PoolInv'
  BY <1>10 DEF RestartWorker, Fork, NextIteration
<1>11. ASSUME NEW i \in Slots, GiveUpWorker(i) PROVE PoolInv'
  BY <1>11 DEF GiveUpWorker, DropPid, NextIteration, children
<1>12. ASSUME NEW i \in Slots, LetWorkerGo(i) PROVE PoolInv'
  BY <1>12 DEF LetWorkerGo, DropPid, NextIteration, children
<1>13. CASE SendTerm
  BY <1>13 DEF SendTerm, Kill, pool
<1>14. CASE GraceReaps
  BY <1>14 DEF GraceReaps, ClearSlots, Zombies, Dead
<1>15. CASE GraceEnds
  BY <1>15 DEF GraceEnds, pool, children
<1>16. CASE SendKill
  BY <1>16 DEF SendKill, Kill, Cleanup, FreePool
<1>17. ASSUME NEW s \in Signals, SignalMaster(s) PROVE PoolInv'
  BY <1>17 DEF SignalMaster, master, pool, children
<1>18. ASSUME NEW s \in Signals, SignalWorkers(s) PROVE PoolInv'
  BY <1>18 DEF SignalWorkers, pool, children
<1>19. ASSUME NEW p \in Pids, ChildStep(p) PROVE PoolInv'
  <2>1. OnlyChildren
    BY <1>19 DEF ChildStep, ResetSignals, WorkerEnds, DeliverTerm, DeliverKill
  <2>2. CASE ResetSignals(p)
    BY <2>1, <2>2 DEF ResetSignals, OnlyChildren, master, pool
  <2>3. ASSUME End(p), proc[p] # "none"
        PROVE  PoolInv'
    BY <2>1, <2>3 DEF End, OnlyChildren, master, pool
  <2>4. CASE DeliverTerm(p) /\ proc[p] = "forked"
    BY <2>1, <2>4 DEF DeliverTerm, End, OnlyChildren, master, pool
  <2> QED
    BY <1>19, <2>2, <2>3, <2>4 DEF ChildStep, WorkerEnds, DeliverTerm, DeliverKill
<1>20. CASE Tick
  BY <1>20 DEF Tick, master, pool, children
<1>21. CASE UNCHANGED vars
  BY <1>21 DEF vars, master, pool, children
<1> QED
  BY <1>1, <1>2, <1>3, <1>4, <1>5, <1>6, <1>7, <1>8, <1>9, <1>10, <1>11, <1>12, <1>13,
     <1>14, <1>15, <1>16, <1>17, <1>18, <1>19, <1>20, <1>21
     DEF Next, MasterStep, HandleExit, RestartFails, LimitExceeded

(* The pool and the process table agree in every reachable state: a slot's   *)
(* pid names a child of the master that no other slot holds, and no live     *)
(* worker is forgotten.                                                      *)
THEOREM PoolCorrect == Spec => [](PoolOwnsChildren /\ NoForgottenWorker)
<1>1. Spec => []PoolInv
  BY PoolInvInit, PoolInvNext, TypeCorrect, PTL DEF Spec
<1>2. PoolInv => PoolOwnsChildren /\ NoForgottenWorker
  BY DEF PoolInv
<1>3. QED
  BY <1>1, <1>2, PTL

-----------------------------------------------------------------------------
(* A slot that was never restarted. *)
LEMMA NoRestartYet ==
    ASSUME NEW time
    PROVE  Paced(<<>>) /\ Ascending(<<>>) /\ NotAfter(<<>>, time) /\ RunOf(<<>>, 0)
  BY ClusterAssumption DEF Paced, Ascending, NotAfter, RunOf

(* Times that are not after x are not after a later y. *)
LEMMA NotAfterLater ==
    ASSUME NEW t \in Seq(Nat), NEW x \in Nat, NEW y \in Nat, NotAfter(t, x), x <= y
    PROVE  NotAfter(t, y)
<1> SUFFICES ASSUME NEW k \in 1 .. Len(t) PROVE t[k] <= y
  BY DEF NotAfter
<1>1. t[k] <= x /\ t[k] \in Nat
  BY DEF NotAfter
<1>2. QED
  BY <1>1

(* A gap only gets wider when its ends move apart. *)
LEMMA GapWidens ==
    ASSUME NEW a \in Nat, NEW b \in Nat, NEW c \in Nat, NEW d \in Nat, NEW r \in Nat,
           a <= b, c - b > r, c <= d
    PROVE  d - a > r
  OBVIOUS

(* A restart at time x, counted the way the exit handling counts it and      *)
(* allowed by the limit, keeps the restart times paced.                      *)
LEMMA RestartKeepsPace ==
    ASSUME NEW t \in Seq(Nat), NEW c \in Nat, NEW last \in Nat, NEW x \in Nat, NEW d,
           Paced(t), Ascending(t), NotAfter(t, last), RunOf(t, c), last <= x,
           d = IF x - last > RestartInterval THEN 1 ELSE c + 1,
           MaxRestarts < 0 \/ d <= MaxRestarts
    PROVE  /\ Paced(Append(t, x)) /\ Ascending(Append(t, x)) /\ NotAfter(Append(t, x), x)
           /\ RunOf(Append(t, x), d)
<1> USE ClusterAssumption
<1> DEFINE n == Len(t)
           u == Append(t, x)
<1>1. /\ n \in Nat /\ Len(u) = n + 1 /\ u[n + 1] = x
      /\ \A k \in 1 .. n : u[k] = t[k] /\ t[k] \in Nat
      /\ \A k \in 1 .. n + 1 : u[k] \in Nat
  OBVIOUS
<1>2. \A k \in 1 .. n : t[k] <= x
  BY NotAfterLater DEF NotAfter
<1>3. d \in Nat \ {0} /\ d <= n + 1
  BY <1>1 DEF RunOf
<1>4. ASSUME d < n + 1 PROVE u[n + 2 - d] - u[n + 1 - d] > RestartInterval
  <2>1. CASE x - last > RestartInterval
    <3>1. d = 1 /\ n \in 1 .. n
      BY <1>1, <1>4, <2>1
    <3>2. t[n] <= last
      BY <3>1 DEF NotAfter
    <3> QED
      BY <1>1, <2>1, <3>1, <3>2
  <2>2. CASE ~(x - last > RestartInterval)
    <3>1. d = c + 1 /\ c < n /\ c > 0
      BY <1>1, <1>4, <2>2 DEF RunOf
    <3>2. t[n - c + 1] - t[n - c] > RestartInterval
      BY <3>1 DEF RunOf
    <3>3. n + 2 - d = n - c + 1 /\ n + 1 - d = n - c /\ n - c + 1 \in 1 .. n /\ n - c \in 1 .. n
      BY <1>1, <3>1
    <3> HIDE DEF n, u
    <3> QED
      BY <1>1, <3>2, <3>3
  <2> QED
    BY <2>1, <2>2
<1> HIDE DEF n, u
<1>5. NotAfter(u, x)
  <2> SUFFICES ASSUME NEW k \in 1 .. n + 1 PROVE u[k] <= x
    BY <1>1 DEF NotAfter
  <2>1. k \in 1 .. n \/ k = n + 1
    BY <1>1
  <2> QED
    BY <1>1, <1>2, <2>1
<1>6. Ascending(u)
  <2>1. \A k, l \in 1 .. n : k <= l => t[k] <= t[l]
    BY DEF Ascending, n
  <2> SUFFICES ASSUME NEW k \in 1 .. n + 1, NEW l \in 1 .. n + 1, k <= l PROVE u[k] <= u[l]
    BY <1>1 DEF Ascending
  <2>2. CASE l = n + 1
    BY <1>1, <1>5, <2>2 DEF NotAfter
  <2>3. CASE l \in 1 .. n
    <3>1. k \in 1 .. n
      BY <1>1, <2>3
    <3> QED
      BY <1>1, <2>1, <2>3, <3>1
  <2> QED
    BY <1>1, <2>2, <2>3
<1>7. RunOf(u, d)
  <2>1. n + 1 - d + 1 = n + 2 - d
    BY <1>1, <1>3
  <2> QED
    BY <1>1, <1>3, <1>4, <2>1 DEF RunOf
<1>8. Paced(u)
  <2> SUFFICES ASSUME MaxRestarts >= 0, NEW k \in 1 .. n + 1 - MaxRestarts
               PROVE  u[k + MaxRestarts] - u[k] > RestartInterval
    BY <1>1 DEF Paced
  <2>1. CASE k < n + 1 - MaxRestarts
    <3>1. k \in 1 .. n - MaxRestarts /\ k \in 1 .. n /\ k + MaxRestarts \in 1 .. n
      BY <1>1, <2>1
    <3>2. t[k + MaxRestarts] - t[k] > RestartInterval
      BY <3>1 DEF Paced, n
    <3> QED
      BY <1>1, <3>1, <3>2
  <2>2. CASE k = n + 1 - MaxRestarts
    <3>1. /\ n + 1 - d \in 1 .. n + 1 /\ n + 2 - d \in 1 .. n + 1
          /\ k <= n + 1 - d /\ d < n + 1 /\ k \in 1 .. n + 1 /\ k + MaxRestarts = n + 1
      BY <1>1, <1>3, <2>2
    <3>2. u[k] <= u[n + 1 - d] /\ u[n + 2 - d] <= u[n + 1]
      BY <1>1, <1>6, <3>1 DEF Ascending
    <3>3. u[n + 2 - d] - u[n + 1 - d] > RestartInterval
      BY <1>4, <3>1
    <3>4. u[k] \in Nat /\ u[n + 1 - d] \in Nat /\ u[n + 2 - d] \in Nat /\ u[n + 1] \in Nat
      BY <1>1, <3>1
    <3>5. u[n + 1] - u[k] > RestartInterval
      BY <3>2, <3>3, <3>4, GapWidens
    <3> QED
      BY <3>1, <3>5
  <2> QED
    BY <1>1, <2>1, <2>2
<1> QED
  BY <1>5, <1>6, <1>7, <1>8 DEF u

(* The invariant of the restart counters holds before the first call. *)
LEMMA RateInvInit == Init => RateInv
  BY NoRestartYet DEF Init, RateInv, SlotRate

(* Every step keeps the invariant of the restart counters. *)
LEMMA RateInvNext == TypeOK /\ PoolInv /\ RateInv /\ [Next]_vars => RateInv'
<1> SUFFICES ASSUME TypeOK, PoolInv, RateInv, [Next]_vars PROVE RateInv'
  OBVIOUS
<1>t. /\ pid \in [Slots -> Pids \cup {NoPid}] /\ slot \in 0 .. NumWorkers /\ now \in Nat
      /\ restart_count \in [Slots -> Nat] /\ last_restart_time \in [Slots -> Nat]
      /\ restarts \in [Slots -> Seq(Nat)]
      /\ NoPid \notin Pids /\ NumWorkers \in Nat \ {0} /\ MaxRestarts \in Int
      /\ RestartInterval \in Nat
  BY ClusterAssumption DEF TypeOK, MasterTypeOK, PoolTypeOK, HistoryTypeOK
<1> USE <1>t DEF RateInv, SlotRate, Slots
<1>1. CASE Orchestrate
  BY <1>1, NoRestartYet DEF Orchestrate, FreePool
<1>2. CASE ForkWorker
  <2>1. slot \in Slots /\ pc = "fork" /\ restarts[slot] = <<>> /\ restart_count[slot] = 0
    <3>1. pc = "fork" /\ slot < NumWorkers
      BY <1>2 DEF ForkWorker, PoolInv
    <3>2. slot \in Slots /\ slot >= slot
      BY <3>1
    <3> QED
      BY <3>1, <3>2
  <2>2. /\ last_restart_time' = [last_restart_time EXCEPT ![slot] = now] /\ restarts' = restarts
        /\ restart_count' = restart_count /\ slot' = slot + 1 /\ now' = now
        /\ \A j \in Slots : j # slot => pid'[j] = pid[j]
    BY <1>2 DEF ForkWorker
  <2> SUFFICES ASSUME NEW j \in Slots PROVE SlotRate(j)'
    BY DEF RateInv
  <2>3. CASE j = slot
    BY <2>1, <2>2, <2>3, NoRestartYet
  <2>4. CASE j # slot
    <3>1. pid'[j] = pid[j]
      BY <2>2, <2>4
    <3>2. last_restart_time'[j] = last_restart_time[j]
      BY <1>t, <2>2, <2>4
    <3>3. j >= slot' => j >= slot
      BY <1>t, <2>2
    <3> QED
      BY <2>1, <2>2, <3>1, <3>2, <3>3
  <2> QED
    BY <2>3, <2>4
<1>3. CASE ForkWorkerFails
  BY <1>3 DEF ForkWorkerFails, Cleanup, FreePool
<1>4. CASE LoopHead
  BY <1>4 DEF LoopHead, pool
<1>5. CASE ReloadWorkers
  BY <1>5 DEF ReloadWorkers
<1>6. CASE ReloadReset
  BY <1>6 DEF ReloadReset, pool
<1>7. CASE WaitReaps
  BY <1>7 DEF WaitReaps, pool
<1>8. CASE WaitFindsNone
  BY <1>8 DEF WaitFindsNone, pool
<1>9. CASE IgnoreChild
  BY <1>9 DEF IgnoreChild, NextIteration, pool
<1>10. ASSUME NEW i \in Slots, RestartWorker(i) PROVE RateInv'
  <2>1. pid[i] # NoPid /\ pc = "reaped"
    BY <1>10 DEF RestartWorker, PoolInv
  <2>2. /\ restart_count' = [restart_count EXCEPT ![i] = CountRestart(i)]
        /\ last_restart_time' = [last_restart_time EXCEPT ![i] = now]
        /\ restarts' = [restarts EXCEPT ![i] = Append(@, now)]
        /\ \A j \in Slots : j # i => pid'[j] = pid[j]
        /\ pc' = "loop" /\ now' = now
        /\ MaxRestarts < 0 \/ CountRestart(i) <= MaxRestarts
    BY <1>10 DEF RestartWorker, RecordRestart, NextIteration, WithinLimit
  <2>3. /\ Paced(restarts'[i]) /\ Ascending(restarts'[i]) /\ NotAfter(restarts'[i], now)
        /\ RunOf(restarts'[i], CountRestart(i))
    <3>1. restarts'[i] = Append(restarts[i], now)
      BY <2>2
    <3> QED
      BY <2>1, <2>2, <3>1, RestartKeepsPace DEF CountRestart
  <2>4. ASSUME NEW j \in Slots, j # i
        PROVE  /\ restarts'[j] = restarts[j] /\ restart_count'[j] = restart_count[j]
               /\ last_restart_time'[j] = last_restart_time[j] /\ pid'[j] = pid[j]
    BY <2>2, <2>4
  <2>5. restart_count'[i] = CountRestart(i) /\ last_restart_time'[i] = now
    BY <2>2
  <2>6. SlotRate(i)'
    BY <2>1, <2>2, <2>3, <2>5
  <2>7. ASSUME NEW j \in Slots, j # i PROVE SlotRate(j)'
    BY <2>1, <2>2, <2>4, <2>7
  <2> QED
    BY <2>6, <2>7
<1>11. ASSUME NEW i \in Slots, GiveUpWorker(i) PROVE RateInv'
  <2>1. /\ pc = "reaped" /\ pc' = "loop" /\ now' = now /\ restarts' = restarts
        /\ restart_count' = [restart_count EXCEPT ![i] = CountRestart(i)]
        /\ last_restart_time' = [last_restart_time EXCEPT ![i] = now]
        /\ pid' = [pid EXCEPT ![i] = NoPid]
    BY <1>11 DEF GiveUpWorker, RecordRestart, DropPid, NextIteration
  <2>2. NotAfter(restarts[i], now)
    BY <2>1, NotAfterLater
  <2>3. SlotRate(i)'
    BY <2>1, <2>2
  <2>4. ASSUME NEW j \in Slots, j # i PROVE SlotRate(j)'
    <3>1. /\ restart_count'[j] = restart_count[j] /\ last_restart_time'[j] = last_restart_time[j]
          /\ pid'[j] = pid[j]
      BY <2>1, <2>4
    <3> QED
      BY <2>1, <3>1
  <2> QED
    BY <2>3, <2>4
<1>12. ASSUME NEW i \in Slots, LetWorkerGo(i) PROVE RateInv'
  BY <1>12 DEF LetWorkerGo, DropPid, NextIteration
<1>13. CASE SendTerm
  BY <1>13 DEF SendTerm, pool
<1>14. CASE GraceReaps
  BY <1>14 DEF GraceReaps, ClearSlots
<1>15. CASE GraceEnds
  BY <1>15 DEF GraceEnds, pool
<1>16. CASE SendKill
  BY <1>16 DEF SendKill, Cleanup, FreePool
<1>17. ASSUME NEW s \in Signals, SignalMaster(s) PROVE RateInv'
  BY <1>17 DEF SignalMaster, master, pool
<1>18. ASSUME NEW s \in Signals, SignalWorkers(s) PROVE RateInv'
  BY <1>18 DEF SignalWorkers, pool
<1>19. ASSUME NEW p \in Pids, ChildStep(p) PROVE RateInv'
  BY <1>19 DEF ChildStep, ResetSignals, WorkerEnds, DeliverTerm, DeliverKill, OnlyChildren, master, pool
<1>20. CASE Tick
  BY <1>20 DEF Tick, master, pool
<1>21. CASE UNCHANGED vars
  BY <1>21 DEF vars, master, pool
<1> QED
  BY <1>1, <1>2, <1>3, <1>4, <1>5, <1>6, <1>7, <1>8, <1>9, <1>10, <1>11, <1>12, <1>13,
     <1>14, <1>15, <1>16, <1>17, <1>18, <1>19, <1>20, <1>21
     DEF Next, MasterStep, HandleExit, RestartFails, LimitExceeded

(* No slot is restarted more than max_restarts_per_worker times within       *)
(* restart_interval_sec, whatever the limit, the interval and the clock.     *)
THEOREM RestartRateCorrect == Spec => []RestartRate
<1>1. Spec => []PoolInv
  BY PoolInvInit, PoolInvNext, TypeCorrect, PTL DEF Spec
<1>2. Spec => []RateInv
  BY <1>1, RateInvInit, RateInvNext, TypeCorrect, PTL DEF Spec
<1>3. RateInv => RestartRate
  BY DEF RateInv, SlotRate, Paced, RestartRate
<1>4. QED
  BY <1>2, <1>3, PTL

-----------------------------------------------------------------------------
(***************************************************************************)
(* What the two action properties need: the pass over the pool has marked  *)
(* every worker when the reload flag is about to be cleared, and SIGKILL   *)
(* is next only when the deadline has passed or nobody is left.            *)
(***************************************************************************)
StopInv ==
    /\ pc = "reload_reset" => \A i \in Slots : pid[i] # NoPid => is_exiting[i]
    /\ pc = "kill" => now >= shutdown_deadline \/ \A i \in Slots : pid[i] = NoPid

(* Every step keeps the invariant of the two ways to stop workers. *)
LEMMA StopInvNext == TypeOK /\ StopInv /\ [Next]_vars => StopInv'
<1> SUFFICES ASSUME TypeOK, StopInv, [Next]_vars PROVE StopInv'
  OBVIOUS
<1>t. now \in Nat /\ shutdown_deadline \in Nat
  BY DEF TypeOK, MasterTypeOK
<1> USE <1>t DEF StopInv
<1>1. CASE Orchestrate \/ ForkWorker \/ ForkWorkerFails
  BY <1>1 DEF Orchestrate, ForkWorker, ForkWorkerFails, Cleanup
<1>2. CASE ReloadWorkers
  BY <1>2 DEF ReloadWorkers, MarkExiting
<1>3. CASE LoopHead \/ ReloadReset \/ WaitReaps \/ WaitFindsNone \/ HandleExit
  BY <1>3 DEF LoopHead, ReloadReset, WaitReaps, WaitFindsNone, HandleExit, IgnoreChild,
     RestartWorker, RestartFails, LimitExceeded, GiveUpWorker, LetWorkerGo, NextIteration
<1>4. CASE SendTerm \/ SendKill
  BY <1>4 DEF SendTerm, SendKill, Cleanup
<1>5. CASE GraceReaps \/ GraceEnds
  BY <1>5 DEF GraceReaps, GraceEnds, DeadlinePassed, pool
<1>6. ASSUME NEW s \in Signals, SignalMaster(s) \/ SignalWorkers(s) PROVE StopInv'
  BY <1>6 DEF SignalMaster, SignalWorkers, master, pool
<1>7. ASSUME NEW p \in Pids, ChildStep(p) PROVE StopInv'
  BY <1>7 DEF ChildStep, ResetSignals, WorkerEnds, DeliverTerm, DeliverKill, OnlyChildren,
     master, pool
<1>8. CASE Tick \/ UNCHANGED vars
  BY <1>8 DEF Tick, vars, master, pool
<1> QED
  BY <1>1, <1>2, <1>3, <1>4, <1>5, <1>6, <1>7, <1>8 DEF Next, MasterStep

(* It holds in every reachable state. *)
LEMMA StopInvCorrect == Spec => []StopInv
<1>1. Init => StopInv
  BY DEF Init, StopInv
<1>2. QED
  BY <1>1, StopInvNext, TypeCorrect, PTL DEF Spec

(* g_reload_request is cleared only when every worker in the pool was told   *)
(* to stop, so no SIGHUP is lost.                                            *)
THEOREM ReloadNotLostCorrect == Spec => ReloadNotLost
<1> DEFINE Kept == g_reload_request /\ ~g_reload_request' =>
                       \A i \in Slots : pid[i] # NoPid => is_exiting[i]
<1>1. TypeOK /\ StopInv /\ [Next]_vars => [Kept]_vars
  <2> SUFFICES ASSUME StopInv, Next, g_reload_request, ~g_reload_request'
               PROVE  \A i \in Slots : pid[i] # NoPid => is_exiting[i]
    OBVIOUS
  <2>1. ReloadReset
    BY DEF Next, MasterStep, HandleExit, ChildStep, Orchestrate, ForkWorker, ForkWorkerFails,
       LoopHead, ReloadWorkers, WaitReaps, WaitFindsNone, IgnoreChild, RestartWorker,
       RestartFails, LimitExceeded, GiveUpWorker, LetWorkerGo, NextIteration, SendTerm,
       GraceReaps, GraceEnds, SendKill, SignalMaster, SignalWorkers, cluster_signal_handler,
       ResetSignals, WorkerEnds, DeliverTerm, DeliverKill, OnlyChildren, Tick, flags
  <2> QED
    BY <2>1 DEF ReloadReset, StopInv
<1>2. QED
  BY <1>1, StopInvCorrect, TypeCorrect, PTL DEF Spec, ReloadNotLost

(* A worker is sent SIGKILL only by a failing start or when it had all of    *)
(* graceful_shutdown_timeout_sec to stop.                                    *)
THEOREM KillOnlyAfterGraceCorrect == Spec => KillOnlyAfterGrace
<1> DEFINE Patient == \A p \in Pids : "KILL" \in pending'[p] \ pending[p] =>
                          pc = "fork" \/ now >= shutdown_deadline
<1>1. TypeOK /\ StopInv /\ [Next]_vars => [Patient]_vars
  <2> SUFFICES ASSUME TypeOK, StopInv, Next, NEW p \in Pids,
                      "KILL" \in pending'[p], "KILL" \notin pending[p]
               PROVE  pc = "fork" \/ now >= shutdown_deadline
    OBVIOUS
  <2>t. pending \in [Pids -> SUBSET {"TERM", "KILL", "USR1"}]
    BY DEF TypeOK, ChildrenTypeOK
  <2>1. CASE Orchestrate \/ LoopHead \/ ReloadReset \/ WaitReaps \/ WaitFindsNone \/ Tick
    BY <2>1 DEF Orchestrate, LoopHead, ReloadReset, WaitReaps, WaitFindsNone, Tick, children
  <2>2. CASE HandleExit
    BY <2>t, <2>2 DEF HandleExit, IgnoreChild, RestartWorker, RestartFails, LimitExceeded,
       GiveUpWorker, LetWorkerGo, Fork, children
  <2>3. CASE ReloadWorkers \/ SendTerm
    BY <2>t, <2>3 DEF ReloadWorkers, SendTerm, Kill
  <2>4. CASE GraceReaps \/ GraceEnds
    BY <2>4 DEF GraceReaps, GraceEnds, children
  <2>5. CASE ForkWorker \/ ForkWorkerFails
    BY <2>5 DEF ForkWorker, ForkWorkerFails
  <2>6. CASE SendKill
    <3>1. p \in Pooled /\ pc = "kill"
      BY <2>t, <2>6 DEF SendKill, Kill
    <3> QED
      BY <3>1, ClusterAssumption DEF StopInv, Pooled
  <2>7. ASSUME NEW s \in Signals, SignalMaster(s) \/ SignalWorkers(s) PROVE FALSE
    BY <2>7 DEF SignalMaster, SignalWorkers, children
  <2>8. ASSUME NEW q \in Pids, ChildStep(q) PROVE FALSE
    BY <2>t, <2>8 DEF ChildStep, ResetSignals, WorkerEnds, DeliverTerm, DeliverKill, End
  <2> QED
    BY <2>1, <2>2, <2>3, <2>4, <2>5, <2>6, <2>7, <2>8 DEF Next, MasterStep
<1>2. QED
  BY <1>1, StopInvCorrect, TypeCorrect, PTL DEF Spec, KillOnlyAfterGrace

------------------------------------------------------------------------------
(* The supervisor implements WorkerPool.  The mapping is exact: every step *)
(* of the supervisor is one step of the pool or leaves it as it is, given  *)
(* the invariant PoolInv, without which a fork could revive a stale slot.  *)

Worker == [i \in Slots |-> SlotState(i)]

(* A step after which every slot is what it was leaves the pool alone. *)
LEMMA WorkersStay ==
    ASSUME \A i \in Slots : SlotState(i)' = SlotState(i)
    PROVE  Worker' = Worker
  BY DEF Worker, Slots

(* A step that makes one slot b and leaves the others is an update of it. *)
LEMMA OneSlotBecomes ==
    ASSUME NEW i \in Slots, NEW b, SlotState(i)' = b,
           \A j \in Slots \ {i} : SlotState(j)' = SlotState(j)
    PROVE  Worker' = [Worker EXCEPT ![i] = b]
  BY DEF Worker, Slots

(* The pool is empty after a step that frees it. *)
LEMMA FreedPoolIsEmpty ==
    ASSUME FreePool
    PROVE  Worker' = [i \in Slots |-> "empty"]
<1>1. \A i \in Slots : SlotState(i)' = "empty"
  BY DEF FreePool, SlotState, Slots
<1>2. QED
  BY <1>1 DEF Worker, Slots

(* The phases of the places where the master can be. *)
LEMMA PhaseOf ==
    /\ pc = "idle" => Phase = "closed"
    /\ pc = "fork" => Phase = "starting"
    /\ pc \in {"loop", "reload", "reload_reset", "wait", "reaped"} => Phase = "serving"
    /\ pc \in {"term", "grace", "kill"} => Phase = "stopping"
    /\ pc = "dead" => Phase = "gone"
  BY DEF Phase

(* The same after a step. *)
LEMMA PhaseOfNext ==
    /\ pc' = "idle" => Phase' = "closed"
    /\ pc' = "fork" => Phase' = "starting"
    /\ pc' \in {"loop", "reload", "reload_reset", "wait", "reaped"} => Phase' = "serving"
    /\ pc' \in {"term", "grace", "kill"} => Phase' = "stopping"
    /\ pc' = "dead" => Phase' = "gone"
    /\ pc' = pc => Phase' = Phase
  BY DEF Phase

(* A slot whose pid and whose child's state stay is what it was. *)
LEMMA SlotStays ==
    ASSUME NEW i \in Slots, pid'[i] = pid[i],
           pid[i] # NoPid => (Alive(pid[i])' <=> Alive(pid[i]))
    PROVE  SlotState(i)' = SlotState(i)
  BY DEF SlotState, Alive

(* Where no pid moves, children that live on are those of the same slots. *)
LEMMA SameChildren ==
    ASSUME TypeOK, pid' = pid, \A q \in Pids : Alive(q)' <=> Alive(q)
    PROVE  \A i \in Slots : pid[i] # NoPid => (Alive(pid[i])' <=> Alive(pid[i]))
<1> SUFFICES ASSUME NEW i \in Slots, pid[i] # NoPid PROVE Alive(pid[i])' <=> Alive(pid[i])
  OBVIOUS
<1>1. pid[i] \in Pids /\ pid'[i] = pid[i]
  BY ClusterAssumption DEF TypeOK, PoolTypeOK
<1>2. \A q \in Pids : proc'[q] \in {"forked", "running"} <=> proc[q] \in {"forked", "running"}
  BY DEF Alive
<1> QED
  BY <1>1, <1>2 DEF Alive

-----------------------------------------------------------------------------
(* A child that ends without the master: its slot, if it has one, follows. *)
LEMMA ChildEnds ==
    ASSUME TypeOK, PoolInv, NEW p \in Pids, Alive(p), End(p), OnlyChildren
    PROVE  [Pool!Next]_(Pool!vars)
<1> USE ClusterAssumption DEF TypeOK, PoolTypeOK, ChildrenTypeOK
<1>1. Phase' = Phase
  BY PhaseOfNext DEF OnlyChildren, master
<1>2. /\ pid' = pid
      /\ ~Alive(p)'
      /\ \A q \in Pids \ {p} : proc'[q] = proc[q]
  BY DEF OnlyChildren, pool, End, Alive
<1>3. \A j \in Slots : pid[j] # p => SlotState(j)' = SlotState(j)
  BY <1>2 DEF SlotState, Alive
<1>4. CASE \E i \in Slots : pid[i] = p
  <2>1. PICK i \in Slots : pid[i] = p
    BY <1>4
  <2>2. SlotState(i) = "live" /\ SlotState(i)' = "ended"
    BY <1>2, <2>1 DEF SlotState
  <2>3. \A j \in Slots \ {i} : SlotState(j)' = SlotState(j)
    BY <1>3, <2>1 DEF PoolInv, PoolOwnsChildren
  <2>4. Worker' = [Worker EXCEPT ![i] = "ended"]
    BY <2>2, <2>3, OneSlotBecomes
  <2>5. Pool!WorkerEnds(i)
    BY <1>1, <2>2, <2>4 DEF Pool!WorkerEnds, Pool!Becomes, Worker
  <2>6. QED
    BY <2>5 DEF Pool!Next
<1>5. CASE ~ \E i \in Slots : pid[i] = p
  <2>1. Worker' = Worker
    BY <1>3, <1>5, WorkersStay
  <2>2. QED
    BY <1>1, <2>1 DEF Pool!vars, Worker
<1>6. QED
  BY <1>4, <1>5

(* A fork for slot i, whose pid names no child, fills that slot alone. *)
LEMMA ForkFillsSlot ==
    ASSUME TypeOK, PoolInv, NEW p \in Pids, NEW i \in Slots, Fork(p),
           pid' = [pid EXCEPT ![i] = p], pid[i] = child_pid
    PROVE  Worker' = [Worker EXCEPT ![i] = "live"]
<1> USE ClusterAssumption DEF TypeOK, PoolTypeOK, ChildrenTypeOK
<1>1. SlotState(i)' = "live"
  BY DEF SlotState, Fork, Alive
<1>2. ASSUME NEW j \in Slots \ {i} PROVE SlotState(j)' = SlotState(j)
  <2>1. pid'[j] = pid[j]
    OBVIOUS
  <2>2. pid[j] # NoPid => pid[j] # p
    BY DEF PoolInv, PoolOwnsChildren, Fork
  <2>3. pid[j] # NoPid => proc'[pid[j]] = proc[pid[j]]
    BY <2>2 DEF Fork
  <2>4. QED
    BY <2>1, <2>3, SlotStays DEF Alive
<1>3. QED
  BY <1>1, <1>2, OneSlotBecomes

(* A dead child's slot that loses its pid becomes empty, and it alone. *)
LEMMA DropEmptiesSlot ==
    ASSUME TypeOK, PoolInv, NEW i \in Slots, pid[i] # NoPid, ~Alive(pid[i]),
           pid' = [pid EXCEPT ![i] = NoPid],
           \A q \in Pids : Alive(q)' <=> Alive(q)
    PROVE  /\ Worker[i] = "ended"
           /\ Worker' = [Worker EXCEPT ![i] = "empty"]
<1> USE ClusterAssumption DEF TypeOK, PoolTypeOK, ChildrenTypeOK
<1>1. SlotState(i) = "ended" /\ SlotState(i)' = "empty"
  BY DEF SlotState
<1>2. ASSUME NEW j \in Slots \ {i} PROVE SlotState(j)' = SlotState(j)
  <2>1. pid'[j] = pid[j]
    OBVIOUS
  <2>2. pid[j] # NoPid => pid[j] \in Pids
    OBVIOUS
  <2>3. pid[j] # NoPid => (Alive(pid[j])' <=> Alive(pid[j]))
    BY <2>1, <2>2 DEF Alive
  <2> QED
    BY <2>1, <2>3, SlotStays
<1>3. QED
  BY <1>1, <1>2, OneSlotBecomes DEF Worker

-----------------------------------------------------------------------------
(* A step that neither moves a pid nor a child, and stays in the phase. *)
LEMMA QuietStep ==
    ASSUME pid' = pid, Phase' = Phase,
           \A i \in Slots : pid[i] # NoPid => (Alive(pid[i])' <=> Alive(pid[i]))
    PROVE  UNCHANGED Pool!vars
<1>1. Worker' = Worker
  BY SlotStays, WorkersStay
<1>2. QED
  BY <1>1 DEF Pool!vars, Worker

(* Every step of the supervisor is a step of the pool or leaves it alone. *)
LEMMA StepImplements == TypeOK /\ PoolInv /\ [Next]_vars => [Pool!Next]_(Pool!vars)
<1> SUFFICES ASSUME TypeOK, PoolInv, [Next]_vars PROVE [Pool!Next]_(Pool!vars)
  OBVIOUS
<1> USE ClusterAssumption DEF TypeOK, PoolTypeOK, ChildrenTypeOK
<1>1. CASE Orchestrate
  <2>1. Worker = [i \in Slots |-> "empty"] /\ Worker' = [i \in Slots |-> "empty"]
    BY <1>1, FreedPoolIsEmpty DEF Orchestrate, PoolInv, Worker, SlotState
  <2>2. Pool!Open
    BY <1>1, <2>1, PhaseOf, PhaseOfNext DEF Orchestrate, Pool!Open, Worker
  <2>3. QED
    BY <2>2 DEF Pool!Next
<1>2. CASE ForkWorker
  <2>0. pc = "fork"
    BY <1>2 DEF ForkWorker
  <2>1. slot \in Slots /\ pid[slot] = NoPid /\ child_pid = NoPid
    <3>1. slot < NumWorkers /\ child_pid = NoPid /\ \A j \in Slots : j >= slot => pid[j] = NoPid
      BY <2>0 DEF PoolInv
    <3>2. slot \in Slots /\ slot >= slot
      BY <3>1 DEF MasterTypeOK, Slots
    <3> QED
      BY <3>1, <3>2
  <2>2. Worker' = [Worker EXCEPT ![slot] = "live"]
    BY <1>2, <2>1, ForkFillsSlot DEF ForkWorker
  <2>3. Worker[slot] = "empty"
    BY <2>1 DEF Worker, SlotState
  <2>4. Pool!Start(slot)
    BY <1>2, <2>2, <2>3, PhaseOf, PhaseOfNext DEF ForkWorker, Pool!Start, Pool!Becomes, Worker
  <2>5. QED
    BY <2>1, <2>4 DEF Pool!Next
<1>3. CASE ForkWorkerFails \/ SendKill
  <2>1. Worker' = [i \in Slots |-> "empty"]
    BY <1>3, FreedPoolIsEmpty DEF ForkWorkerFails, SendKill, Cleanup
  <2>2. Pool!Close
    BY <1>3, <2>1, PhaseOf, PhaseOfNext
    DEF ForkWorkerFails, SendKill, Cleanup, Pool!Close, Worker
  <2>3. QED
    BY <2>2 DEF Pool!Next
<1>4. CASE LoopHead
  <2>1. pid' = pid /\ proc' = proc
    BY <1>4 DEF LoopHead, pool, children
  <2>2. CASE g_shutdown_request
    <3>1. Worker' = Worker
      BY <2>1, SlotStays, WorkersStay DEF Alive
    <3>2. Pool!Stop
      BY <1>4, <2>2, <3>1, PhaseOf, PhaseOfNext DEF LoopHead, Pool!Stop, Worker
    <3>3. QED
      BY <3>2 DEF Pool!Next
  <2>3. CASE ~g_shutdown_request
    <3>1. Phase' = Phase
      BY <1>4, <2>3, PhaseOf, PhaseOfNext DEF LoopHead
    <3>2. QED
      BY <2>1, <3>1, QuietStep DEF Alive
  <2>4. QED
    BY <2>2, <2>3
<1>5. CASE ReloadWorkers \/ ReloadReset \/ WaitFindsNone \/ IgnoreChild
  <2>1. pid' = pid /\ proc' = proc
    BY <1>5 DEF ReloadWorkers, ReloadReset, WaitFindsNone, IgnoreChild, pool, children
  <2>2. Phase' = Phase
    <3> DEFINE serving == {"loop", "reload", "reload_reset", "wait", "reaped"}
    <3>1. ReloadWorkers => pc \in serving /\ pc' \in serving
      BY DEF ReloadWorkers
    <3>2. ReloadReset => pc \in serving /\ pc' \in serving
      BY DEF ReloadReset
    <3>3. WaitFindsNone => pc \in serving /\ pc' \in serving
      BY DEF WaitFindsNone
    <3>4. IgnoreChild => pc \in serving /\ pc' \in serving
      BY DEF IgnoreChild, NextIteration
    <3>5. Phase = "serving" /\ Phase' = "serving"
      BY <1>5, <3>1, <3>2, <3>3, <3>4, PhaseOf, PhaseOfNext
    <3> QED
      BY <3>5
  <2>3. QED
    BY <2>1, <2>2, QuietStep DEF Alive
<1>6. CASE SendTerm \/ GraceEnds
  <2>1. pid' = pid /\ proc' = proc
    BY <1>6 DEF SendTerm, GraceEnds, pool, children
  <2>2. Phase' = Phase
    <3>1. SendTerm => pc \in {"term", "grace", "kill"} /\ pc' \in {"term", "grace", "kill"}
      BY DEF SendTerm
    <3>2. GraceEnds => pc \in {"term", "grace", "kill"} /\ pc' \in {"term", "grace", "kill"}
      BY DEF GraceEnds
    <3>3. Phase = "stopping" /\ Phase' = "stopping"
      BY <1>6, <3>1, <3>2, PhaseOf, PhaseOfNext
    <3> QED
      BY <3>3
  <2>3. QED
    BY <2>1, <2>2, QuietStep DEF Alive
<1>7. CASE WaitReaps
  <2>1. PICK p \in Zombies : proc' = [proc EXCEPT ![p] = "none"]
    BY <1>7 DEF WaitReaps
  <2>2. \A q \in Pids : Alive(q)' <=> Alive(q)
    BY <2>1 DEF Zombies, Dead, Alive
  <2>3. pid' = pid /\ Phase' = Phase
    BY <1>7, PhaseOf, PhaseOfNext DEF WaitReaps, pool
  <2>4. \A i \in Slots : pid[i] # NoPid => (Alive(pid[i])' <=> Alive(pid[i]))
    BY <2>2, <2>3, SameChildren
  <2>5. QED
    BY <2>3, <2>4, QuietStep
<1>8. ASSUME NEW i \in Slots, RestartWorker(i) PROVE [Pool!Next]_(Pool!vars)
  <2>1. Worker' = [Worker EXCEPT ![i] = "live"]
    BY <1>8, ForkFillsSlot DEF RestartWorker
  <2>2. Worker[i] = "ended"
    BY <1>8 DEF RestartWorker, PoolInv, Worker, SlotState, Alive
  <2>3. Pool!Refill(i)
    BY <1>8, <2>1, <2>2, PhaseOf, PhaseOfNext
    DEF RestartWorker, NextIteration, Pool!Refill, Pool!Becomes, Worker
  <2>4. QED
    BY <2>3 DEF Pool!Next
<1>9. ASSUME NEW i \in Slots, RestartFails(i) \/ LimitExceeded(i) \/ LetWorkerGo(i)
      PROVE  [Pool!Next]_(Pool!vars)
  <2>1. /\ pc = "reaped"
        /\ pid[i] = child_pid
        /\ pid' = [pid EXCEPT ![i] = NoPid]
        /\ NextIteration
        /\ UNCHANGED children
    BY <1>9 DEF RestartFails, LimitExceeded, GiveUpWorker, LetWorkerGo, DropPid
  <2>2. pid[i] # NoPid /\ ~Alive(pid[i])
    BY <2>1 DEF PoolInv, Alive
  <2>3. \A q \in Pids : Alive(q)' <=> Alive(q)
    BY <2>1 DEF children, Alive
  <2>4. Worker[i] = "ended" /\ Worker' = [Worker EXCEPT ![i] = "empty"]
    BY <2>1, <2>2, <2>3, DropEmptiesSlot
  <2>5. Pool!Vacate(i)
    BY <2>1, <2>4, PhaseOf, PhaseOfNext DEF NextIteration, Pool!Vacate, Pool!Becomes, Worker
  <2>6. QED
    BY <2>5 DEF Pool!Next
<1>10. CASE GraceReaps
  <2>1. PICK p \in Zombies : proc' = [proc EXCEPT ![p] = "none"] /\ pid' = ClearSlots(p)
    BY <1>10 DEF GraceReaps
  <2>2. \A q \in Pids : Alive(q)' <=> Alive(q)
    BY <2>1 DEF Zombies, Dead, Alive
  <2>3. Phase = "stopping" /\ Phase' = Phase
    BY <1>10, PhaseOf, PhaseOfNext DEF GraceReaps
  <2>4. CASE \E i \in Slots : pid[i] = p
    <3>1. PICK i \in Slots : pid[i] = p
      BY <2>4
    <3>2. pid[i] # NoPid /\ ~Alive(pid[i])
      BY <3>1 DEF Zombies, Dead, Alive
    <3>3. pid' = [pid EXCEPT ![i] = NoPid]
      BY <2>1, <3>1, <3>2 DEF ClearSlots, PoolInv, PoolOwnsChildren
    <3>4. Worker[i] = "ended" /\ Worker' = [Worker EXCEPT ![i] = "empty"]
      BY <2>2, <3>2, <3>3, DropEmptiesSlot
    <3>5. Pool!Vacate(i)
      BY <2>3, <3>4 DEF Pool!Vacate, Pool!Becomes, Worker
    <3>6. QED
      BY <3>5 DEF Pool!Next
  <2>5. CASE ~ \E i \in Slots : pid[i] = p
    <3>1. pid' = pid
      BY <2>1, <2>5 DEF ClearSlots
    <3>2. \A i \in Slots : pid[i] # NoPid => (Alive(pid[i])' <=> Alive(pid[i]))
      BY <2>2, <3>1, SameChildren
    <3>3. QED
      BY <2>3, <3>1, <3>2, QuietStep
  <2>6. QED
    BY <2>4, <2>5
<1>11. ASSUME NEW s \in Signals, SignalMaster(s) PROVE [Pool!Next]_(Pool!vars)
  BY <1>11, PhaseOfNext, QuietStep DEF SignalMaster, master, pool, children, Alive
<1>12. ASSUME NEW s \in Signals, SignalWorkers(s) PROVE [Pool!Next]_(Pool!vars)
  <2>1. pid' = pid /\ proc' = proc
    BY <1>12 DEF SignalWorkers, pool, children
  <2>2. CASE pc' = pc
    BY <2>1, <2>2, PhaseOfNext, QuietStep DEF Alive
  <2>3. CASE pc' = "dead"
    <3>1. Worker' = Worker
      BY <2>1, SlotStays, WorkersStay DEF Alive
    <3>2. Pool!MasterKilled
      BY <2>3, <3>1, PhaseOfNext DEF Pool!MasterKilled, Worker
    <3>3. QED
      BY <3>2 DEF Pool!Next
  <2>4. QED
    BY <1>12, <2>2, <2>3 DEF SignalWorkers
<1>13. ASSUME NEW p \in Pids, ChildStep(p) PROVE [Pool!Next]_(Pool!vars)
  <2>1. CASE ResetSignals(p) \/ (DeliverTerm(p) /\ proc' = proc)
    <3>1. \A q \in Pids : Alive(q)' <=> Alive(q)
      BY <2>1 DEF ResetSignals, Alive
    <3>2. pid' = pid /\ Phase' = Phase
      BY <2>1, PhaseOfNext DEF ResetSignals, DeliverTerm, OnlyChildren, pool, master
    <3>3. \A i \in Slots : pid[i] # NoPid => (Alive(pid[i])' <=> Alive(pid[i]))
      BY <3>1, <3>2, SameChildren
    <3>4. QED
      BY <3>2, <3>3, QuietStep
  <2>2. CASE WorkerEnds(p) \/ (DeliverTerm(p) /\ End(p)) \/ DeliverKill(p)
    <3>1. Alive(p) /\ End(p) /\ OnlyChildren
      BY <2>2 DEF WorkerEnds, DeliverTerm, DeliverKill, PoolInv, Alive
    <3>2. QED
      BY <3>1, ChildEnds
  <2>3. QED
    BY <1>13, <2>1, <2>2 DEF ChildStep, DeliverTerm
<1>14. CASE Tick
  BY <1>14, PhaseOfNext, QuietStep DEF Tick, master, pool, children, Alive
<1>15. CASE UNCHANGED vars
  BY <1>15, PhaseOfNext, QuietStep DEF vars, master, pool, children, Alive
<1>16. QED
  BY <1>1, <1>2, <1>3, <1>4, <1>5, <1>6, <1>7, <1>8, <1>9, <1>10, <1>11, <1>12, <1>13,
     <1>14, <1>15 DEF Next, MasterStep, HandleExit

(* The supervisor is a worker pool: every behaviour of its processes, pids *)
(* and signals is a behaviour of WorkerPool under the mapping.              *)
THEOREM SupervisorImplementsPool == Spec => ImplementsWorkerPool
<1>1. Init => Pool!Init
  BY DEF Init, Pool!Init, Phase, SlotState
<1>2. Spec => []PoolInv
  BY PoolInvInit, PoolInvNext, TypeCorrect, PTL DEF Spec
<1>3. QED
  BY <1>1, <1>2, TypeCorrect, StepImplements, PTL DEF Spec, Pool!Spec, ImplementsWorkerPool

(* A slot's pid always names a child of the master that was not waited     *)
(* for, and no child is in two slots, whatever pids the kernel reuses.     *)
THEOREM SlotsNameTheirChildren == Spec => []PoolOwnsChildren
  BY PoolCorrect, PTL

=============================================================================
