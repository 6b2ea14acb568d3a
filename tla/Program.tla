------------------------------ MODULE Program -------------------------------
(***************************************************************************)
(* A run of the program from Savitar_main to its return: worker and logger *)
(* pairs placed on cores (thread.cpp), the handler of SIGUSR1 that starts  *)
(* a snapshot, the final waits and the teardown (context.cpp).             *)
(***************************************************************************)
EXTENDS Integers, FiniteSets

CONSTANTS
    Thread,        \* workers
    First,         \* the worker that runs the program's main function
    Main,          \* the thread inside Savitar_main
    None,
    Creator,       \* workers that call Savitar_thread_create
    Interrupted,   \* threads on which SIGUSR1 may be delivered
    CoreInfo,      \* get_cpu_info: processor -> id of its physical core
    MaxSignal      \* bound: SIGUSR1 signals

ASSUME ProgramAssumption == First \in Thread /\ Main \notin Thread /\ None \notin Thread \cup {Main}

Processor == DOMAIN CoreInfo
Core == 0 .. Cardinality(Processor) \div 2 - 1

(* Savitar_core_init asserts that the processors come in pairs.            *)
ASSUME MachineAssumption ==
    /\ Processor \subseteq Int /\ IsFiniteSet(Processor) /\ Cardinality(Processor) >= 2
    /\ CoreInfo \in [Processor -> Int]

VARIABLES
    mpc, next,     \* Savitar_main, and the core it spins on
    worker,        \* "none", "run", "ended"
    logger,        \* "none", "run", the steps of Savitar_core_free, "ended"
    cpu,           \* the processor the logger is pinned to
    late,          \* history: workers created while Savitar_core_finalize waits
    tenants, tlock,   \* core_tenants and the owner of its lock
    tx,            \* workers: "out" of any transaction, "in" one, "asleep" in notify
    snap,          \* Snapshot::instance: "none", "new", "freeze", "copy"
    slock,         \* the owner of snapshot_lock
    handler,       \* "no", "lock", "unlock": a thread inside signal_handler
    signals

threads == <<worker, logger, cpu, late, tenants, tlock>>
snapshots == <<tx, snap, slock, handler, signals>>
vars == <<mpc, next, threads, snapshots>>

Over == mpc \in {"done", "assert"}
Runs(x) == ~Over /\ handler[x] = "no"

-----------------------------------------------------------------------------
(* core_ht_map: the processors by core, two to a core. The loop takes the  *)
(* lowest remaining core id, and the first processor that has it.          *)
Before(p) == {q \in Processor : CoreInfo[q] < CoreInfo[p] \/ (CoreInfo[q] = CoreInfo[p] /\ q < p)}
core_ht_map == [c \in Core |->
    [ht \in {0, 1} |-> CHOOSE p \in Processor : Cardinality(Before(p)) = 2 * c + ht]]

(* Savitar_core_alloc: the first of the least occupied cores.              *)
least_occupied == CHOOSE c \in Core :
    \A d \in Core : tenants[c] < tenants[d] \/ (tenants[c] = tenants[d] /\ c <= d)


(* Savitar_core_free: the core of a processor.                             *)
physical_core(p) == CHOOSE c \in Core : \E ht \in {0, 1} : core_ht_map[c][ht] = p

Init ==
    /\ mpc = "create" /\ next = 0
    /\ worker = [w \in Thread |-> "none"] /\ logger = [w \in Thread |-> "none"]
    /\ cpu = [w \in Thread |-> None] /\ late = {}
    /\ tenants = [c \in Core |-> 0] /\ tlock = None
    /\ tx = [w \in Thread |-> "out"] /\ snap = "none" /\ slock = None
    /\ handler = [x \in Thread \cup {Main} |-> "no"] /\ signals = 0

-----------------------------------------------------------------------------
(* Savitar_thread_create.                                                  *)
Create(w) ==
    /\ worker[w] = "none" /\ tlock = None
    /\ worker' = [worker EXCEPT ![w] = "run"] /\ logger' = [logger EXCEPT ![w] = "run"]
    /\ cpu' = [cpu EXCEPT ![w] = core_ht_map[least_occupied][0]]
    /\ late' = IF mpc \in {"spin", "destroy"} THEN late \cup {w} ELSE late
    /\ tenants' = [tenants EXCEPT ![least_occupied] = @ + 1]
    /\ UNCHANGED <<tlock, snapshots>>

CreateFirst == mpc = "create" /\ Runs(Main) /\ Create(First) /\ mpc' = "join" /\ UNCHANGED next

CreateWorker(w, v) ==
    v \in Creator /\ worker[v] = "run" /\ Runs(v) /\ Create(w) /\ UNCHANGED <<mpc, next>>

(* Savitar_thread_notify of an outermost call; a snapshot that freezes the *)
(* program puts the worker to sleep.                                       *)
BeginTx(w) ==
    /\ worker[w] = "run" /\ Runs(w) /\ tx[w] = "out"
    /\ tx' = [tx EXCEPT ![w] = IF snap = "freeze" THEN "asleep" ELSE "in"]
    /\ UNCHANGED <<mpc, next, threads, snap, slock, handler, signals>>

Wake(w) ==
    /\ Runs(w) /\ tx[w] = "asleep" /\ snap # "freeze"
    /\ tx' = [tx EXCEPT ![w] = "in"]
    /\ UNCHANGED <<mpc, next, threads, snap, slock, handler, signals>>

(* Savitar_thread_wait.                                                    *)
EndTx(w) ==
    /\ Runs(w) /\ tx[w] = "in"
    /\ tx' = [tx EXCEPT ![w] = "out"]
    /\ UNCHANGED <<mpc, next, threads, snap, slock, handler, signals>>

(* The worker's routine returns, it is unregistered under the manager's    *)
(* lock, which a snapshot holds, and the tag tells its logger.             *)
WorkerEnds(w) ==
    /\ worker[w] = "run" /\ Runs(w) /\ tx[w] = "out"
    /\ snap \notin {"freeze", "copy"}
    /\ worker' = [worker EXCEPT ![w] = "ended"]
    /\ UNCHANGED <<mpc, next, logger, cpu, late, tenants, tlock, snapshots>>

(* The logger, once told, calls Savitar_core_free.                         *)
FreeLock(w) ==
    /\ ~Over /\ logger[w] = "run" /\ worker[w] = "ended" /\ tlock = None
    /\ logger' = [logger EXCEPT ![w] = "decrement"] /\ tlock' = w
    /\ UNCHANGED <<mpc, next, worker, cpu, late, tenants, snapshots>>

FreeDecrement(w) ==
    /\ ~Over /\ logger[w] = "decrement"
    /\ tenants' = [tenants EXCEPT ![physical_core(cpu[w])] = @ - 1]
    /\ logger' = [logger EXCEPT ![w] = "unlock"]
    /\ UNCHANGED <<mpc, next, worker, cpu, late, tlock, snapshots>>

FreeUnlock(w) ==
    /\ ~Over /\ logger[w] = "unlock"
    /\ tlock' = None /\ logger' = [logger EXCEPT ![w] = "ended"]
    /\ UNCHANGED <<mpc, next, worker, cpu, late, tenants, snapshots>>

-----------------------------------------------------------------------------
(* signal_handler for SIGUSR1, on a thread x, and the snapshot's thread.   *)

Signal(x) ==
    /\ Runs(x) /\ signals < MaxSignal
    /\ x \in Interrupted /\ (x \in Thread => worker[x] = "run")
    /\ handler' = [handler EXCEPT ![x] = "lock"] /\ signals' = signals + 1
    /\ UNCHANGED <<mpc, next, threads, tx, snap, slock>>

HandlerLock(x) ==
    /\ ~Over /\ handler[x] = "lock" /\ slock = None
    /\ slock' = x /\ snap' = IF snap = "none" THEN "new" ELSE snap
    /\ handler' = [handler EXCEPT ![x] = "unlock"]
    /\ UNCHANGED <<mpc, next, threads, tx, signals>>

HandlerUnlock(x) ==
    /\ ~Over /\ handler[x] = "unlock"
    /\ slock' = None /\ handler' = [handler EXCEPT ![x] = "no"]
    /\ UNCHANGED <<mpc, next, threads, tx, snap, signals>>

(* snapshot_worker: create and delete. The steps are in Freeze, which also *)
(* has the registration of threads and the manager's lock, and PageCopy.   *)
SnapshotFreezes ==
    /\ ~Over /\ snap = "new" /\ snap' = "freeze"
    /\ UNCHANGED <<mpc, next, threads, tx, slock, handler, signals>>

(* waitForRunningTransactions has ended.                                   *)
SnapshotFrozen ==
    /\ ~Over /\ snap = "freeze" /\ \A w \in Thread : tx[w] # "in"
    /\ snap' = "copy"
    /\ UNCHANGED <<mpc, next, threads, tx, slock, handler, signals>>

SnapshotEnds ==
    /\ ~Over /\ snap = "copy" /\ snap' = "none"
    /\ UNCHANGED <<mpc, next, threads, tx, slock, handler, signals>>

-----------------------------------------------------------------------------
(* The end of Savitar_main.                                                *)

JoinFirst ==
    /\ mpc = "join" /\ Runs(Main) /\ worker[First] = "ended"
    /\ mpc' = "wait"
    /\ UNCHANGED <<next, threads, snapshots>>

LockSnapshot ==
    /\ mpc = "wait" /\ Runs(Main) /\ slock = None
    /\ slock' = Main /\ mpc' = "joining"
    /\ UNCHANGED <<next, threads, tx, snap, handler, signals>>

JoinSnapshot ==
    /\ mpc = "joining" /\ Runs(Main) /\ snap = "none"
    /\ slock' = None /\ mpc' = "spin"
    /\ UNCHANGED <<next, threads, tx, snap, handler, signals>>

(* Mutant: the loop leaves out the last core.                              *)
SpinOffByOne ==
    /\ mpc = "spin" /\ Runs(Main) /\ tenants[next] = 0
    /\ IF next + 2 \in Core THEN next' = next + 1 /\ UNCHANGED mpc
                            ELSE mpc' = "destroy" /\ UNCHANGED next
    /\ UNCHANGED <<threads, snapshots>>

(* Savitar_core_finalize: each core in turn, then the lock.                *)
Spin ==
    /\ mpc = "spin" /\ Runs(Main) /\ tenants[next] = 0
    /\ IF next + 1 \in Core THEN next' = next + 1 /\ UNCHANGED mpc
                            ELSE mpc' = "destroy" /\ UNCHANGED next
    /\ UNCHANGED <<threads, snapshots>>

(* pthread_mutex_destroy fails on a mutex that is held.                    *)
Destroy ==
    /\ mpc = "destroy" /\ Runs(Main)
    /\ mpc' = IF tlock = None THEN "done" ELSE "assert"
    /\ UNCHANGED <<next, threads, snapshots>>

Next ==
    \/ CreateFirst \/ JoinFirst \/ LockSnapshot \/ JoinSnapshot \/ Spin \/ Destroy
    \/ \E w, v \in Thread : CreateWorker(w, v)
    \/ \E w \in Thread : BeginTx(w)
    \/ \E w \in Thread : Wake(w)
    \/ \E w \in Thread : EndTx(w)
    \/ \E w \in Thread : WorkerEnds(w)
    \/ \E w \in Thread : FreeLock(w)
    \/ \E w \in Thread : FreeDecrement(w)
    \/ \E w \in Thread : FreeUnlock(w)
    \/ \E x \in Thread \cup {Main} : Signal(x)
    \/ \E x \in Thread \cup {Main} : HandlerLock(x)
    \/ \E x \in Thread \cup {Main} : HandlerUnlock(x)
    \/ SnapshotFreezes
    \/ SnapshotFrozen
    \/ SnapshotEnds

Spec == Init /\ [][Next]_vars

(* Every thread is scheduled while it runs code of the library; no method, *)
(* no thread and no signal is owed, and no end of waitForRunning-          *)
(* Transactions.                                                           *)
Fairness ==
    /\ WF_vars(CreateFirst \/ JoinFirst \/ LockSnapshot \/ JoinSnapshot \/ Spin \/ Destroy)
    /\ \A w \in Thread : WF_vars(Wake(w))
    /\ \A w \in Thread : WF_vars(FreeLock(w) \/ FreeDecrement(w) \/ FreeUnlock(w))
    /\ \A x \in Thread \cup {Main} : WF_vars(HandlerLock(x) \/ HandlerUnlock(x))
    /\ WF_vars(SnapshotFreezes) /\ WF_vars(SnapshotEnds)

FairSpec == Spec /\ Fairness

-----------------------------------------------------------------------------
(* "wait for all threads to terminate": when Savitar_core_finalize goes    *)
(* past its loop no worker runs and no logger has a core, but for workers  *)
(* created since it began, which may be placed on a core already passed.   *)
AllTerminated ==
    mpc \in {"destroy", "done", "assert"} =>
        \A w \in Thread \ late : worker[w] # "run" /\ logger[w] \notin {"run", "decrement"}

(* The program's part: methods and workers return.                         *)
WorkersReturn == \A w \in Thread : WF_vars(EndTx(w)) /\ SF_vars(WorkerEnds(w))

(* A snapshot that waits for no running transaction goes on: see           *)
(* SnapshotEndsUnlessStuck in Freeze for when it does.                     *)
FreezesEnd == WF_vars(SnapshotFrozen)

(* SIGUSR1 has been delivered to the thread of Savitar_main while it holds *)
(* snapshot_lock, or to a worker inside a transaction that the snapshot    *)
(* waits for, while Savitar_main holds the lock and waits for the snapshot.*)
SignalDeadlock ==
    /\ slock = Main
    /\ \/ handler[Main] = "lock"
       \/ snap = "freeze" /\ \E w \in Thread : tx[w] = "in" /\ handler[w] = "lock"


-----------------------------------------------------------------------------
(* Not true of the code. *)

(* "Wait for active snapshots to complete": none is active when            *)
(* Savitar_main returns.                                                   *)
NoSnapshotAtExit == Over => snap = "none"

(* Savitar_core_finalize, assert(pthread_mutex_destroy(...) == 0): no      *)
(* logger holds the lock.                                                  *)
LockIsFree == mpc # "assert"
=============================================================================
