------------------------------ MODULE Persister ------------------------------
(***************************************************************************)
(* Asynchronous semantic logging: every worker thread is paired with a     *)
(* logger thread and shares sync_buffer and tx_buffer with it.             *)
(*                                                                         *)
(* Worker (thread.cpp): Savitar_thread_notify opens a transaction, which   *)
(* may be nested in others, Savitar_thread_wait closes it once the logger  *)
(* has logged it and then commits its log entry (nv_log.cpp).              *)
(* Logger (persister.cpp): finds the level to serve with active_tx_id,     *)
(* appends the entry to the object's redo log and acknowledges.            *)
(*                                                                         *)
(* Each read of a shared word is a step of its own: the Makefile passes    *)
(* "-o3" to the compiler, an output name, so the build is not optimised.   *)
(***************************************************************************)
EXTENDS Integers

CONSTANTS
    Worker,          \* threads made by Savitar_thread_create
    Object,          \* persistent objects, one redo log each
    None,            \* no transaction, no parent
    MAX_ACTIVE_TXS,  \* levels of sync_buffer
    MaxWord,         \* stands for UINT64_MAX
    LogSize,         \* slots of a redo log
    MaxNest,         \* bound: deepest nesting the program uses
    MaxTx,           \* bound: transactions per worker
    MaxFreeze        \* bound: times a snapshot_lock is set

Level == 0 .. MAX_ACTIVE_TXS - 1
Slot == 1 .. LogSize
Tx == Worker \X (1 .. MaxTx)
Ref == Object \X Slot

ASSUME BoundsAssumption ==
    /\ MAX_ACTIVE_TXS \in Nat \ {0}
    /\ LogSize \in Nat
    /\ MaxNest \in Nat \ {0}
    /\ MaxNest <= MAX_ACTIVE_TXS
    /\ MaxTx \in Nat
    /\ MaxFreeze \in Nat
    /\ MaxWord \in Nat
    /\ MaxWord > MAX_ACTIVE_TXS + 1

ASSUME NoneAssumption == None \notin Tx /\ None \notin Ref

VARIABLES
    wpc,           \* worker: where it is in notify, wait and commit
    ntx,           \* worker: transactions begun (gives each its identity)
    call,          \* sync_buffer: object and arguments of each level
    tag,           \* sync_buffer[i].method_tag: zero, call or term
    depth,         \* tx_buffer[0]
    txo,           \* tx_buffer[1..]: log offset of each level, 0 if not logged
    wref,          \* worker: the log slot being committed
    wcid,          \* worker: commit id taken, not yet stored
    lpc,           \* logger: where it is in Savitar_persister_worker
    active,        \* logger: active_tx_id
    loff,          \* logger: log_offset
    body,          \* redo logs: magic and arguments of the entry in each slot
    commit,        \* redo logs: commit id of each slot, 0 for the hole
    durable,       \* slots whose body, and the tail past them, are persistent
    kept,          \* slots whose commit id is persistent
    tail,          \* RedoLog.tail
    lastCommit,    \* RedoLog.last_commit
    locked,        \* RedoLog.snapshot_lock
    freezes        \* times some snapshot_lock was set

workerVars == <<wpc, ntx, wref, wcid>>
bufferVars == <<call, tag, depth, txo>>
loggerVars == <<lpc, active, loff>>
logVars == <<body, commit, durable, kept, tail, lastCommit>>
lockVars == <<locked, freezes>>
vars == <<workerVars, bufferVars, loggerVars, logVars, lockVars>>

(* What a level of sync_buffer holds; what a log entry holds: tx, whose    *)
(* call it is, and parent, the slot a nested entry names; and a slot of    *)
(* the zero-filled log file.                                               *)
Call == [obj : Object \cup {None}, tx : Tx \cup {None}]
Entry == [tx : Tx \cup {None}, parent : Ref \cup {None}]
Blank == [tx |-> None, parent |-> None]

Init ==
    /\ wpc = [w \in Worker |-> "app"]
    /\ ntx = [w \in Worker |-> 0]
    /\ call = [w \in Worker |-> [i \in Level |-> [obj |-> None, tx |-> None]]]
    /\ tag = [w \in Worker |-> [i \in Level |-> "zero"]]
    /\ depth = [w \in Worker |-> 0]
    /\ txo = [w \in Worker |-> [i \in 1 .. MAX_ACTIVE_TXS |-> 0]]
    /\ wref = [w \in Worker |-> None]
    /\ wcid = [w \in Worker |-> 0]
    /\ lpc = [w \in Worker |-> "poll"]
    /\ active = [w \in Worker |-> 0]
    /\ loff = [w \in Worker |-> 0]
    /\ body = [r \in Ref |-> Blank]
    /\ commit = [r \in Ref |-> 0]
    /\ durable = {}
    /\ kept = {}
    /\ tail = [o \in Object |-> 1]
    /\ lastCommit = [o \in Object |-> 0]
    /\ locked = [o \in Object |-> FALSE]
    /\ freezes = 0

-----------------------------------------------------------------------------
(* Savitar_thread_notify.                                                  *)

(* Fills the next level of sync_buffer and increments the depth.           *)
Notify(w, o) ==
    /\ wpc[w] = "app"
    /\ depth[w] < MaxNest
    /\ depth[w] < MAX_ACTIVE_TXS
    /\ ntx[w] < MaxTx
    /\ ntx' = [ntx EXCEPT ![w] = @ + 1]
    /\ call' = [call EXCEPT ![w][depth[w]] = [obj |-> o, tx |-> <<w, ntx[w] + 1>>]]
    /\ depth' = [depth EXCEPT ![w] = @ + 1]
    /\ wpc' = [wpc EXCEPT ![w] = "clear"]
    /\ UNCHANGED <<tag, txo, wref, wcid, loggerVars, logVars, lockVars>>

(* Mutant: the level keeps the offset of the transaction before it.        *)
ClearOffsetForgotten(w) ==
    /\ wpc[w] = "clear"
    /\ wpc' = [wpc EXCEPT ![w] = "gate"]
    /\ UNCHANGED <<ntx, wref, wcid, bufferVars, loggerVars, logVars, lockVars>>

(* tx_buffer[tx_buffer[0]] = 0: the level has no log entry yet.            *)
ClearOffset(w) ==
    /\ wpc[w] = "clear"
    /\ txo' = [txo EXCEPT ![w][depth[w]] = 0]
    /\ wpc' = [wpc EXCEPT ![w] = "gate"]
    /\ UNCHANGED <<ntx, wref, wcid, call, tag, depth, loggerVars, logVars, lockVars>>

(* An outermost transaction steps back while its object is frozen.         *)
Gate(w) ==
    /\ wpc[w] = "gate"
    /\ IF depth[w] = 1 /\ locked[call[w][0].obj]
       THEN /\ depth' = [depth EXCEPT ![w] = 0]
            /\ wpc' = [wpc EXCEPT ![w] = "blocked"]
       ELSE /\ wpc' = [wpc EXCEPT ![w] = "tag"]
            /\ UNCHANGED depth
    /\ UNCHANGED <<ntx, wref, wcid, call, tag, txo, loggerVars, logVars, lockVars>>

(* The wait on ckptCondition ends: the lock was seen clear.                *)
Unblock(w) ==
    /\ wpc[w] = "blocked"
    /\ ~locked[call[w][0].obj]
    /\ wpc' = [wpc EXCEPT ![w] = "resume"]
    /\ UNCHANGED <<ntx, wref, wcid, bufferVars, loggerVars, logVars, lockVars>>

(* tx_buffer[0] = 1, without another look at the lock.                     *)
Resume(w) ==
    /\ wpc[w] = "resume"
    /\ depth' = [depth EXCEPT ![w] = 1]
    /\ wpc' = [wpc EXCEPT ![w] = "tag"]
    /\ UNCHANGED <<ntx, wref, wcid, call, tag, txo, loggerVars, logVars, lockVars>>

(* Publishes the call to the logger; the method body runs from here on.    *)
SetTag(w) ==
    /\ wpc[w] = "tag"
    /\ tag' = [tag EXCEPT ![w][depth[w] - 1] = "call"]
    /\ wpc' = [wpc EXCEPT ![w] = "app"]
    /\ UNCHANGED <<ntx, wref, wcid, call, depth, txo, loggerVars, logVars, lockVars>>

-----------------------------------------------------------------------------
(* Savitar_thread_wait and Savitar_log_commit.                             *)

(* The spin on method_tag ends; the depth is decremented while the         *)
(* argument of Savitar_log_commit is evaluated, before it is called.       *)
WaitLogged(w) ==
    /\ wpc[w] = "app"
    /\ depth[w] > 0
    /\ tag[w][depth[w] - 1] = "zero"
    /\ wref' = [wref EXCEPT ![w] = <<call[w][depth[w] - 1].obj, txo[w][depth[w]]>>]
    /\ depth' = [depth EXCEPT ![w] = @ - 1]
    /\ wpc' = [wpc EXCEPT ![w] = "cid"]
    /\ UNCHANGED <<ntx, wcid, call, tag, txo, loggerVars, logVars, lockVars>>

(* Mutant: __sync_fetch_and_add, which gives the id of the commit before.  *)
FetchCommitId(w) ==
    LET o == wref[w][1] IN
    /\ wpc[w] = "cid"
    /\ lastCommit' = [lastCommit EXCEPT ![o] = @ + 1]
    /\ wcid' = [wcid EXCEPT ![w] = lastCommit[o]]
    /\ wpc' = [wpc EXCEPT ![w] = "store"]
    /\ UNCHANGED <<ntx, wref, bufferVars, loggerVars, body, commit, durable, kept,
                   tail, lockVars>>

(* commit_id = __sync_add_and_fetch(&log->last_commit, 1).                 *)
TakeCommitId(w) ==
    LET o == wref[w][1] IN
    /\ wpc[w] = "cid"
    /\ lastCommit' = [lastCommit EXCEPT ![o] = @ + 1]
    /\ wcid' = [wcid EXCEPT ![w] = lastCommit[o] + 1]
    /\ wpc' = [wpc EXCEPT ![w] = "store"]
    /\ UNCHANGED <<ntx, wref, bufferVars, loggerVars, body, commit, durable, kept,
                   tail, lockVars>>

(* *ptr = commit_id.                                                       *)
StoreCommitId(w) ==
    /\ wpc[w] = "store"
    /\ commit' = [commit EXCEPT ![wref[w]] = wcid[w]]
    /\ wpc' = [wpc EXCEPT ![w] = "persist"]
    /\ UNCHANGED <<ntx, wref, wcid, bufferVars, loggerVars, body, durable, kept,
                   tail, lastCommit, lockVars>>

(* pmem_persist(ptr, sizeof(commit_id)).                                   *)
PersistCommitId(w) ==
    /\ wpc[w] = "persist"
    /\ kept' = kept \cup {wref[w]}
    /\ wpc' = [wpc EXCEPT ![w] = "app"]
    /\ UNCHANGED <<ntx, wref, wcid, bufferVars, loggerVars, body, commit, durable,
                   tail, lastCommit, lockVars>>

(* The end of routine_wrapper for a worker: TERM to the logger.            *)
Exit(w) ==
    /\ wpc[w] = "app"
    /\ depth[w] = 0
    /\ tag' = [tag EXCEPT ![w][0] = "term"]
    /\ wpc' = [wpc EXCEPT ![w] = "done"]
    /\ UNCHANGED <<ntx, wref, wcid, call, depth, txo, loggerVars, logVars, lockVars>>

-----------------------------------------------------------------------------
(* Savitar_persister_worker.                                               *)

(* tx_buffer[0] - 1 in uint64_t.                                           *)
Top(d) == IF d = 0 THEN MaxWord ELSE d - 1

(* The test of the waiting loop. Past the last level the read is out of    *)
(* bounds: zero, or anything else, and then the logger runs wild.          *)
Poll(w) ==
    /\ lpc[w] = "poll"
    /\ \/ /\ active[w] \in Level
          /\ lpc' = [lpc EXCEPT ![w] =
                        IF tag[w][active[w]] = "zero" THEN "depth" ELSE "serve"]
       \/ /\ active[w] \notin Level
          /\ \E next \in {"depth", "wild"} : lpc' = [lpc EXCEPT ![w] = next]
    /\ UNCHANGED <<workerVars, bufferVars, active, loff, logVars, lockVars>>

(* Mutant: active_tx_id is not reset between outermost transactions.       *)
ReadDepthOnly(w) ==
    /\ lpc[w] = "depth"
    /\ lpc' = [lpc EXCEPT ![w] = IF depth[w] = 0 THEN "poll" ELSE "down"]
    /\ UNCHANGED <<workerVars, bufferVars, active, loff, logVars, lockVars>>

(* if (tx_buffer[0] == 0), the first of three reads of the depth.          *)
ReadDepth(w) ==
    /\ lpc[w] = "depth"
    /\ IF depth[w] = 0
       THEN /\ active' = [active EXCEPT ![w] = 0]
            /\ lpc' = [lpc EXCEPT ![w] = "poll"]
       ELSE /\ lpc' = [lpc EXCEPT ![w] = "down"]
            /\ UNCHANGED active
    /\ UNCHANGED <<workerVars, bufferVars, loff, logVars, lockVars>>

(* if (active_tx_id > tx_buffer[0] - 1) active_tx_id--, the second read.   *)
StepDown(w) ==
    /\ lpc[w] = "down"
    /\ IF active[w] > Top(depth[w])
       THEN /\ active' = [active EXCEPT ![w] = @ - 1]
            /\ lpc' = [lpc EXCEPT ![w] = "poll"]
       ELSE /\ lpc' = [lpc EXCEPT ![w] = "up"]
            /\ UNCHANGED active
    /\ UNCHANGED <<workerVars, bufferVars, loff, logVars, lockVars>>

(* Mutants: <= for <, and no branch for the levels above.                  *)
StepUpPast(w) ==
    /\ lpc[w] = "up"
    /\ active' = [active EXCEPT ![w] = IF @ <= Top(depth[w]) THEN @ + 1 ELSE @]
    /\ lpc' = [lpc EXCEPT ![w] = "poll"]
    /\ UNCHANGED <<workerVars, bufferVars, loff, logVars, lockVars>>

StepUpNever(w) ==
    /\ lpc[w] = "up"
    /\ lpc' = [lpc EXCEPT ![w] = "poll"]
    /\ UNCHANGED <<workerVars, bufferVars, active, loff, logVars, lockVars>>

(* else if (active_tx_id < tx_buffer[0] - 1) active_tx_id++, the third.    *)
StepUp(w) ==
    /\ lpc[w] = "up"
    /\ active' = [active EXCEPT ![w] = IF @ < Top(depth[w]) THEN @ + 1 ELSE @]
    /\ lpc' = [lpc EXCEPT ![w] = "poll"]
    /\ UNCHANGED <<workerVars, bufferVars, loff, logVars, lockVars>>

(* TERM: the logger leaves its loop and frees the buffers.                 *)
Terminate(w) ==
    /\ lpc[w] = "serve"
    /\ tag[w][active[w]] = "term"
    /\ lpc' = [lpc EXCEPT ![w] = "freed"]
    /\ UNCHANGED <<workerVars, bufferVars, active, loff, logVars, lockVars>>

(* A nested call is not logged before its parent.                          *)
ServeParentFirst(w) ==
    /\ lpc[w] = "serve"
    /\ tag[w][active[w]] = "call"
    /\ active[w] > 0
    /\ txo[w][active[w]] = 0
    /\ active' = [active EXCEPT ![w] = @ - 1]
    /\ lpc' = [lpc EXCEPT ![w] = "poll"]
    /\ UNCHANGED <<workerVars, bufferVars, loff, logVars, lockVars>>

(* What a nested entry holds: the parent's object and log offset.          *)
ParentRef(w, i) ==
    IF i = 0 THEN None ELSE <<call[w][i - 1].obj, txo[w][i]>>

(* Mutants: the parent may have no entry yet; the tail is read, not moved. *)
AppendWithoutParent(w) ==
    LET i == active[w]
        o == call[w][i].obj
    IN
    /\ lpc[w] = "serve"
    /\ tag[w][i] = "call"
    /\ tail[o] <= LogSize
    /\ body' = [body EXCEPT ![<<o, tail[o]>>] =
                    [tx |-> call[w][i].tx, parent |-> ParentRef(w, i)]]
    /\ tail' = [tail EXCEPT ![o] = @ + 1]
    /\ loff' = [loff EXCEPT ![w] = tail[o]]
    /\ lpc' = [lpc EXCEPT ![w] = "drain"]
    /\ UNCHANGED <<workerVars, bufferVars, active, commit, durable, kept,
                   lastCommit, lockVars>>

AppendUnreserved(w) ==
    LET i == active[w]
        o == call[w][i].obj
    IN
    /\ lpc[w] = "serve"
    /\ tag[w][i] = "call"
    /\ ~(i > 0 /\ txo[w][i] = 0)
    /\ tail[o] <= LogSize
    /\ body' = [body EXCEPT ![<<o, tail[o]>>] =
                    [tx |-> call[w][i].tx, parent |-> ParentRef(w, i)]]
    /\ loff' = [loff EXCEPT ![w] = tail[o]]
    /\ lpc' = [lpc EXCEPT ![w] = "drain"]
    /\ UNCHANGED <<workerVars, bufferVars, active, commit, durable, kept,
                   tail, lastCommit, lockVars>>

(* Savitar_log_append up to pmem_drain: reserves the slot with a fetch and *)
(* add on the tail (assert: the log has room) and writes the entry.        *)
AppendEntry(w) ==
    LET i == active[w]
        o == call[w][i].obj
    IN
    /\ lpc[w] = "serve"
    /\ tag[w][i] = "call"
    /\ ~(i > 0 /\ txo[w][i] = 0)
    /\ tail[o] <= LogSize
    /\ body' = [body EXCEPT ![<<o, tail[o]>>] =
                    [tx |-> call[w][i].tx, parent |-> ParentRef(w, i)]]
    /\ tail' = [tail EXCEPT ![o] = @ + 1]
    /\ loff' = [loff EXCEPT ![w] = tail[o]]
    /\ lpc' = [lpc EXCEPT ![w] = "drain"]
    /\ UNCHANGED <<workerVars, bufferVars, active, commit, durable, kept,
                   lastCommit, lockVars>>

(* Mutant: nothing is drained.                                             *)
DrainNothing(w) ==
    /\ lpc[w] = "drain"
    /\ lpc' = [lpc EXCEPT ![w] = "publish"]
    /\ UNCHANGED <<workerVars, bufferVars, active, loff, logVars, lockVars>>

(* pmem_drain and pmem_persist of the tail.                                *)
DrainEntry(w) ==
    /\ lpc[w] = "drain"
    /\ durable' = durable \cup {<<call[w][active[w]].obj, loff[w]>>}
    /\ lpc' = [lpc EXCEPT ![w] = "publish"]
    /\ UNCHANGED <<workerVars, bufferVars, active, loff, body, commit, kept,
                   tail, lastCommit, lockVars>>

(* Mutant: tx_buffer[active_tx_id], the level below.                       *)
PublishOffsetBelow(w) ==
    /\ lpc[w] = "publish"
    /\ txo' = [txo EXCEPT ![w] = [i \in DOMAIN @ |-> IF i = active[w] THEN loff[w] ELSE @[i]]]
    /\ lpc' = [lpc EXCEPT ![w] = "ack"]
    /\ UNCHANGED <<workerVars, call, tag, depth, active, loff, logVars, lockVars>>

(* tx_buffer[active_tx_id + 1] = log_offset.                               *)
PublishOffset(w) ==
    /\ lpc[w] = "publish"
    /\ txo' = [txo EXCEPT ![w][active[w] + 1] = loff[w]]
    /\ lpc' = [lpc EXCEPT ![w] = "ack"]
    /\ UNCHANGED <<workerVars, call, tag, depth, active, loff, logVars, lockVars>>

(* method_tag = 0: the worker may commit.                                  *)
Acknowledge(w) ==
    /\ lpc[w] = "ack"
    /\ tag' = [tag EXCEPT ![w][active[w]] = "zero"]
    /\ lpc' = [lpc EXCEPT ![w] = "poll"]
    /\ UNCHANGED <<workerVars, call, depth, txo, active, loff, logVars, lockVars>>

-----------------------------------------------------------------------------
(* The snapshot thread, as far as this protocol sees it: it may set and    *)
(* clear the snapshot_lock of any object at any time.                      *)

SetSnapshotLock(o) ==
    /\ ~locked[o]
    /\ freezes < MaxFreeze
    /\ locked' = [locked EXCEPT ![o] = TRUE]
    /\ freezes' = freezes + 1
    /\ UNCHANGED <<workerVars, bufferVars, loggerVars, logVars>>

ClearSnapshotLock(o) ==
    /\ locked[o]
    /\ locked' = [locked EXCEPT ![o] = FALSE]
    /\ UNCHANGED <<workerVars, bufferVars, loggerVars, logVars, freezes>>

-----------------------------------------------------------------------------
WorkerStep(w) ==
    \/ \E o \in Object : Notify(w, o)
    \/ ClearOffset(w)
    \/ Gate(w)
    \/ Unblock(w)
    \/ Resume(w)
    \/ SetTag(w)
    \/ WaitLogged(w)
    \/ TakeCommitId(w)
    \/ StoreCommitId(w)
    \/ PersistCommitId(w)
    \/ Exit(w)

LoggerStep(w) ==
    \/ Poll(w)
    \/ ReadDepth(w)
    \/ StepDown(w)
    \/ StepUp(w)
    \/ Terminate(w)
    \/ ServeParentFirst(w)
    \/ AppendEntry(w)
    \/ DrainEntry(w)
    \/ PublishOffset(w)
    \/ Acknowledge(w)

(* Every worker has exited and every logger has freed the buffers.         *)
Finished ==
    /\ \A w \in Worker : wpc[w] = "done" /\ lpc[w] = "freed"
    /\ UNCHANGED vars

Next ==
    \/ \E w \in Worker : WorkerStep(w) \/ LoggerStep(w)
    \/ \E o \in Object : SetSnapshotLock(o) \/ ClearSnapshotLock(o)
    \/ Finished

Spec == Init /\ [][Next]_vars

(* The OS schedules every runnable thread, and a snapshot ends.            *)
Fairness ==
    /\ \A w \in Worker : WF_vars(WorkerStep(w)) /\ WF_vars(LoggerStep(w))
    /\ \A o \in Object : WF_vars(ClearSnapshotLock(o))

FairSpec == Spec /\ Fairness

-----------------------------------------------------------------------------
(* Properties.                                                             *)

(* Type invariant of the buffers, the registers and the redo logs.         *)
TypeOK ==
    /\ wpc \in [Worker -> {"app", "clear", "gate", "blocked", "resume", "tag",
                           "cid", "store", "persist", "done"}]
    /\ ntx \in [Worker -> 0 .. MaxTx]
    /\ call \in [Worker -> [Level -> Call]]
    /\ tag \in [Worker -> [Level -> {"zero", "call", "term"}]]
    /\ depth \in [Worker -> 0 .. MaxNest]
    /\ txo \in [Worker -> [1 .. MAX_ACTIVE_TXS -> 0 .. LogSize]]
    /\ wref \in [Worker -> Ref \cup {None}]
    /\ wcid \in [Worker -> Nat]
    /\ lpc \in [Worker -> {"poll", "depth", "down", "up", "serve", "drain",
                           "publish", "ack", "freed", "wild"}]
    /\ active \in [Worker -> 0 .. MaxWord]
    /\ loff \in [Worker -> 0 .. LogSize]
    /\ body \in [Ref -> Entry]
    /\ commit \in [Ref -> Nat]
    /\ durable \subseteq Ref
    /\ kept \subseteq Ref
    /\ tail \in [Object -> 1 .. LogSize + 1]
    /\ lastCommit \in [Object -> Nat]
    /\ locked \in [Object -> BOOLEAN]
    /\ freezes \in 0 .. MaxFreeze

Committing(w) == wpc[w] \in {"cid", "store", "persist"}

(* The transaction whose Savitar_thread_wait has been entered.             *)
Closing(w) == call[w][depth[w]].tx

(* The transaction Savitar_thread_wait commits is the one whose arguments  *)
(* are in the entry, and that entry is durable and not yet committed: the  *)
(* offset left in tx_buffer is never stale and never another level's.      *)
CommitOwnEntry ==
    \A w \in Worker : Committing(w) =>
        /\ wref[w] \in Ref
        /\ body[wref[w]].tx = Closing(w)
        /\ wref[w] \in durable
        /\ wpc[w] \in {"cid", "store"} => commit[wref[w]] = 0

(* The outermost transaction has stepped back for a snapshot.              *)
SteppedBack(w) == wpc[w] \in {"blocked", "resume"}

(* Level i holds the call of an open transaction: one on w's stack, one    *)
(* that stepped back, or one whose commit is in progress.                  *)
Live(w, i) ==
    \/ i < depth[w]
    \/ SteppedBack(w) /\ i = 0
    \/ Committing(w) /\ i = depth[w]

Open(w, t) == \E i \in Level : Live(w, i) /\ call[w][i].tx = t

(* Every transaction is logged at most once, and one whose                 *)
(* Savitar_thread_wait has returned has a persistent commit id: nothing is *)
(* acknowledged and lost, nothing is replayed twice.                       *)
LoggedExactlyOnce ==
    /\ \A r1, r2 \in Ref :
          body[r1].tx # None /\ body[r1].tx = body[r2].tx => r1 = r2
    /\ \A w \in Worker : \A n \in 1 .. ntx[w] :
          ~Open(w, <<w, n>>) =>
              \E r \in Ref : body[r].tx = <<w, n>> /\ r \in durable /\ r \in kept

(* buildAbortChains: "we always know the log entry for parent transactions *)
(* are persistent before the child transactions". A nested entry names a   *)
(* durable entry, of an earlier transaction of the same thread.            *)
ParentDurableFirst ==
    \A r \in Ref : body[r].parent # None =>
        LET p == body[r].parent IN
        /\ p \in Ref
        /\ p \in durable
        /\ body[p].tx # None
        /\ body[p].tx[1] = body[r].tx[1]
        /\ body[p].tx[2] < body[r].tx[2]

(* A transaction gets its commit id only when the commit ids of all        *)
(* transactions nested in it are persistent: a crash never leaves a        *)
(* committed parent with an uncommitted child.                             *)
ChildrenCommitFirst ==
    \A r \in Ref : body[r].parent # None /\ commit[body[r].parent] # 0 => r \in kept

(* Holds commit id n of o: stored in an entry, or in a worker's register.  *)
StoredId(o, n) == \E k \in Slot : commit[<<o, k>>] = n
PendingId(o, n) == \E w \in Worker : wpc[w] = "store" /\ wref[w][1] = o /\ wcid[w] = n

(* The commit ids handed out by a log are 1, 2, ..., last_commit: none is  *)
(* given twice, none is lost, whatever the interleaving of the workers.    *)
(* Recover plays entries in exactly that order.                            *)
CommitIdsContiguous ==
    \A o \in Object :
        /\ \A n \in 1 .. lastCommit[o] :
              /\ StoredId(o, n) \/ PendingId(o, n)
              /\ ~(StoredId(o, n) /\ PendingId(o, n))
        /\ \A k \in Slot : commit[<<o, k>>] <= lastCommit[o]
        /\ \A k1, k2 \in Slot :
              commit[<<o, k1>>] # 0 /\ commit[<<o, k1>>] = commit[<<o, k2>>] => k1 = k2
        /\ \A w1, w2 \in Worker :
              /\ wpc[w1] = "store" /\ wref[w1][1] = o
              /\ wpc[w2] = "store" /\ wref[w2][1] = o
              /\ wcid[w1] = wcid[w2]
              => w1 = w2

(* The logger never touches a level it has no business with: while it      *)
(* writes an entry, its level is open, called and not yet acknowledged, so *)
(* the worker can neither reuse the level nor exit under it.               *)
LoggerServesOpenLevel ==
    \A w \in Worker : lpc[w] \in {"drain", "publish", "ack"} =>
        /\ active[w] < depth[w]
        /\ tag[w][active[w]] = "call"
        /\ body[<<call[w][active[w]].obj, loff[w]>>].tx = call[w][active[w]].tx

(* The buffers are freed only when the worker is done with them.           *)
FreedAfterUse ==
    \A w \in Worker : lpc[w] = "freed" => wpc[w] = "done" /\ depth[w] = 0

(* persister.cpp: active_tx_id has "Possible values are 0 to               *)
(* MAX_ACTIVE_TXS - 1".                                                    *)
LoggerIndexInRange == \A w \in Worker : active[w] \in Level

(* How far the three separate reads of the depth can really push the       *)
(* index: two past the deepest level used.                                 *)
LoggerIndexBound == \A w \in Worker : active[w] <= MaxNest + 1

WriteOnce ==
    /\ \A r \in Ref : body[r].tx # None => body'[r] = body[r]
    /\ \A r \in Ref : commit[r] # 0 => commit'[r] = commit[r]
    /\ durable \subseteq durable'
    /\ kept \subseteq kept'

(* An entry is written once: neither its contents nor its commit id change *)
(* once they are there, and what was made persistent stays so. Two loggers *)
(* never write the same slot and no worker stamps another's entry.         *)
EntriesAreFinal == [][WriteOnce]_logVars

(* Every call handed to the logger is eventually acknowledged, so no       *)
(* Savitar_thread_wait spins forever.                                      *)
CallsAreServed ==
    \A w \in Worker : \A i \in Level : tag[w][i] = "call" ~> tag[w][i] = "zero"

(* Every worker comes to its end and its logger with it, even when the     *)
(* index has run past the levels in use.                                   *)
LoggersStop == \A w \in Worker : <>(lpc[w] = "freed")
=============================================================================
