------------------------------- MODULE Freeze -------------------------------
(***************************************************************************)
(* The synchronous half of a snapshot (Snapshot::create) against worker    *)
(* threads that open, nest, log and commit transactions (thread.cpp) and   *)
(* come and go. The gate, tx_buffer[0] and the sleep on ckptCondition are  *)
(* modelled step by step; the logging protocol of module Persister is one  *)
(* step that appends the entry of a level.                                 *)
(***************************************************************************)
EXTENDS Integers, Sequences

CONSTANTS
    Thread,       \* worker threads
    Object,       \* persistent objects
    Late,         \* threads that run before their creator registers them
    StoreBuffer,  \* threads whose stores may stay in the store buffer past a load
    MaxNest,      \* bound: nesting of transactions
    MaxTx,        \* bound: transactions begun
    MaxSnap       \* bound: snapshots

ASSUME FreezeAssumption ==
    /\ Late \subseteq Thread /\ StoreBuffer \subseteq Thread
    /\ MaxNest \in Nat /\ MaxTx \in Nat /\ MaxSnap \in Nat

Tx == Thread \X (1 .. MaxTx)

VARIABLES
    tpc,       \* worker: where it is in notify and wait
    ntx,       \* transactions begun
    open,      \* worker: its open levels: [obj, tx, logged, done]
    depth,     \* tx_buffer[0] as other threads see it
    own,       \* tx_buffer[0] as the worker sees it
    closing,   \* worker: the level it commits, <<>> if none
    registry,  \* program_threads
    pending,   \* threads created and not yet registered
    manager,   \* holder of the manager's lock: "free", "snap" or a thread
    ckpt,      \* holder of ckptLock: "free" or a thread
    asleep,    \* threads waiting on ckptCondition
    lock,      \* snapshot_lock of each object
    log,       \* redo log of each object: transactions in the order appended
    last,      \* last_commit of each redo log
    cid,       \* commit id of each transaction, 0 while it has none
    heap,      \* transactions whose method has changed its object
    spc,       \* where Snapshot::create is
    todo,      \* objects or threads its current loop has still to visit
    saved,     \* what it saved: last_commit, tail and the heap made read-only
    snaps,     \* snapshots begun
    unseen     \* history: threads inside a transaction that this snapshot did not see

levelVars == <<ntx, open, closing>>
depthVars == <<depth, own>>
lockVars == <<manager, ckpt, asleep>>
threadSetVars == <<registry, pending>>
logVars == <<log, last, cid, heap>>
snapVars == <<spc, todo, saved, snaps, lock, unseen>>
vars == <<tpc, levelVars, depthVars, lockVars, threadSetVars, logVars, snapVars>>

Init ==
    /\ tpc = [t \in Thread |-> "app"]
    /\ ntx = 0
    /\ open = [t \in Thread |-> <<>>]
    /\ depth = [t \in Thread |-> 0]
    /\ own = [t \in Thread |-> 0]
    /\ closing = [t \in Thread |-> <<>>]
    /\ registry = Thread \ Late
    /\ pending = Late
    /\ manager = "free"
    /\ ckpt = "free"
    /\ asleep = {}
    /\ lock = [o \in Object |-> FALSE]
    /\ log = [o \in Object |-> <<>>]
    /\ last = [o \in Object |-> 0]
    /\ cid = [x \in Tx |-> 0]
    /\ heap = {}
    /\ spc = "none"
    /\ todo = {}
    /\ saved = [last |-> [o \in Object |-> 0], tail |-> [o \in Object |-> 0], image |-> {}]
    /\ snaps = 0
    /\ unseen = {}

-----------------------------------------------------------------------------
(* Workers.                                                                *)

Top(t) == open[t][Len(open[t])]

(* The thread has passed the gate of a transaction it has not closed.      *)
Inside(t) == tpc[t] \in {"body", "create"} /\ open[t] # <<>>

(* A store to tx_buffer[0].                                                *)
SetDepth(t, d) ==
    /\ own' = [own EXCEPT ![t] = d]
    /\ depth' = IF t \in StoreBuffer THEN depth ELSE [depth EXCEPT ![t] = d]

(* The store buffer drains; a locked instruction waits for it.             *)
Flush(t) ==
    /\ depth[t] # own[t]
    /\ depth' = [depth EXCEPT ![t] = own[t]]
    /\ UNCHANGED <<tpc, levelVars, own, lockVars, threadSetVars, logVars, snapVars>>

Flushed(t) == depth[t] = own[t]

(* notify up to the gate, which a nested transaction does not look at.     *)
Open(t, o) ==
    /\ tpc[t] \in {"app", "body"} /\ closing[t] = <<>>
    /\ own[t] < MaxNest
    /\ ntx < MaxTx
    /\ ntx' = ntx + 1
    /\ open' = [open EXCEPT ![t] = Append(@, [obj |-> o, tx |-> <<t, ntx + 1>>,
                                              logged |-> FALSE, done |-> FALSE])]
    /\ SetDepth(t, own[t] + 1)
    /\ tpc' = [tpc EXCEPT ![t] = IF own[t] = 0 THEN "gate" ELSE "body"]
    /\ UNCHANGED <<closing, lockVars, threadSetVars, logVars, snapVars>>

(* Mutant: the thread goes to sleep without stepping back.                 *)
GateKeepsDepth(t) ==
    /\ tpc[t] = "gate"
    /\ tpc' = [tpc EXCEPT ![t] = IF lock[Top(t).obj] THEN "lock" ELSE "body"]
    /\ UNCHANGED <<levelVars, depthVars, lockVars, threadSetVars, logVars, snapVars>>

(* isWaitingForSnapshot: step back if the object is frozen.                *)
Gate(t) ==
    /\ tpc[t] = "gate"
    /\ IF lock[Top(t).obj]
       THEN tpc' = [tpc EXCEPT ![t] = "lock"] /\ SetDepth(t, 0)
       ELSE tpc' = [tpc EXCEPT ![t] = "body"] /\ UNCHANGED depthVars
    /\ UNCHANGED <<levelVars, lockVars, threadSetVars, logVars, snapVars>>

(* pthread_mutex_lock(ckptLock), at first and when the wait returns.       *)
LockCkpt(t) ==
    /\ tpc[t] \in {"lock", "woken"}
    /\ ckpt = "free"
    /\ Flushed(t)
    /\ ckpt' = t
    /\ tpc' = [tpc EXCEPT ![t] = "check"]
    /\ UNCHANGED <<levelVars, depthVars, manager, asleep, threadSetVars, logVars, snapVars>>

(* Mutant: the lock is not looked at again under ckptLock.                 *)
CheckNothing(t) ==
    /\ tpc[t] = "check"
    /\ tpc' = [tpc EXCEPT ![t] = "asleep"]
    /\ asleep' = asleep \cup {t}
    /\ ckpt' = "free"
    /\ UNCHANGED <<levelVars, depthVars, manager, threadSetVars, logVars, snapVars>>

(* The loop around pthread_cond_wait, and pthread_mutex_unlock.            *)
Check(t) ==
    /\ tpc[t] = "check"
    /\ IF lock[Top(t).obj]
       THEN tpc' = [tpc EXCEPT ![t] = "asleep"] /\ asleep' = asleep \cup {t}
       ELSE tpc' = [tpc EXCEPT ![t] = "resume"] /\ UNCHANGED asleep
    /\ ckpt' = "free"
    /\ UNCHANGED <<levelVars, depthVars, manager, threadSetVars, logVars, snapVars>>

(* tx_buffer[0] = 1, without a further look at the lock.                   *)
Resume(t) ==
    /\ tpc[t] = "resume"
    /\ SetDepth(t, 1)
    /\ tpc' = [tpc EXCEPT ![t] = "body"]
    /\ unseen' = IF lock[Top(t).obj] /\ spc # "unblock" THEN unseen \cup {t} ELSE unseen
    /\ UNCHANGED <<levelVars, lockVars, threadSetVars, logVars, spc, todo, saved, snaps, lock>>

(* The logger appends the entry of the lowest level not yet logged.        *)
LogLevel(t, i) ==
    /\ tpc[t] = "body"
    /\ i \in DOMAIN open[t]
    /\ ~open[t][i].logged
    /\ \A j \in 1 .. i - 1 : open[t][j].logged
    /\ log' = [log EXCEPT ![open[t][i].obj] = Append(@, open[t][i].tx)]
    /\ open' = [open EXCEPT ![t][i].logged = TRUE]
    /\ UNCHANGED <<tpc, ntx, closing, depthVars, lockVars, threadSetVars, last, cid, heap,
                   snapVars>>

(* The method of the innermost transaction changes its object.             *)
Body(t) ==
    /\ tpc[t] = "body" /\ closing[t] = <<>> /\ open[t] # <<>>
    /\ ~Top(t).done
    /\ heap' = heap \cup {Top(t).tx}
    /\ open' = [open EXCEPT ![t][Len(open[t])].done = TRUE]
    /\ UNCHANGED <<tpc, ntx, closing, depthVars, lockVars, threadSetVars, log, last, cid,
                   snapVars>>

(* A method creates an object or a thread: it needs the manager's lock.    *)
Create(t) ==
    /\ tpc[t] = "body" /\ closing[t] = <<>> /\ open[t] # <<>>
    /\ ~Top(t).done
    /\ tpc' = [tpc EXCEPT ![t] = "create"]
    /\ UNCHANGED <<levelVars, depthVars, lockVars, threadSetVars, logVars, snapVars>>

Created(t) ==
    /\ tpc[t] = "create" /\ manager = "free"
    /\ tpc' = [tpc EXCEPT ![t] = "body"]
    /\ heap' = heap \cup {Top(t).tx}
    /\ open' = [open EXCEPT ![t][Len(open[t])].done = TRUE]
    /\ UNCHANGED <<ntx, closing, depthVars, lockVars, threadSetVars, log, last, cid, snapVars>>

(* Mutant: the transaction ends without its log entry.                     *)
CloseUnlogged(t) ==
    /\ tpc[t] = "body" /\ closing[t] = <<>> /\ open[t] # <<>>
    /\ Top(t).done
    /\ SetDepth(t, own[t] - 1)
    /\ closing' = [closing EXCEPT ![t] = <<Top(t)>>]
    /\ open' = [open EXCEPT ![t] = SubSeq(@, 1, Len(@) - 1)]
    /\ UNCHANGED <<tpc, ntx, lockVars, threadSetVars, logVars, snapVars>>

(* Savitar_thread_wait: the level is logged; tx_buffer[0]-- comes before   *)
(* the call of Savitar_log_commit.                                         *)
Close(t) ==
    /\ tpc[t] = "body" /\ closing[t] = <<>> /\ open[t] # <<>>
    /\ Top(t).done /\ Top(t).logged
    /\ SetDepth(t, own[t] - 1)
    /\ closing' = [closing EXCEPT ![t] = <<Top(t)>>]
    /\ open' = [open EXCEPT ![t] = SubSeq(@, 1, Len(@) - 1)]
    /\ UNCHANGED <<tpc, ntx, lockVars, threadSetVars, logVars, snapVars>>

(* Savitar_log_commit: an atomic add gives the id.                         *)
Commit(t) ==
    /\ closing[t] # <<>>
    /\ Flushed(t)
    /\ LET l == closing[t][1] IN
       /\ last' = [last EXCEPT ![l.obj] = @ + 1]
       /\ cid' = [cid EXCEPT ![l.tx] = last[l.obj] + 1]
    /\ closing' = [closing EXCEPT ![t] = <<>>]
    /\ tpc' = [tpc EXCEPT ![t] = IF open[t] = <<>> THEN "app" ELSE "body"]
    /\ UNCHANGED <<ntx, open, depthVars, lockVars, threadSetVars, log, heap, snapVars>>

(* The end of routine_wrapper: unregisterThread under the manager's lock.  *)
End(t) ==
    /\ tpc[t] = "app" /\ manager = "free"
    /\ Flushed(t)
    /\ tpc' = [tpc EXCEPT ![t] = "ended"]
    /\ registry' = registry \ {t}
    /\ UNCHANGED <<levelVars, depthVars, lockVars, pending, logVars, snapVars>>

(* The creator of a thread registers it.                                   *)
Register(t) ==
    /\ t \in pending /\ manager = "free"
    /\ registry' = registry \cup {t}
    /\ pending' = pending \ {t}
    /\ UNCHANGED <<tpc, levelVars, depthVars, lockVars, logVars, snapVars>>

-----------------------------------------------------------------------------
(* Snapshot::create.                                                       *)

snapRest == <<tpc, levelVars, depthVars, threadSetVars, logVars>>

StartSnapshot ==
    /\ spc = "none" /\ snaps < MaxSnap /\ manager = "free"
    /\ manager' = "snap"
    /\ spc' = "block"
    /\ todo' = Object
    /\ snaps' = snaps + 1
    /\ unseen' = {}
    /\ UNCHANGED <<snapRest, ckpt, asleep, saved, lock>>

(* blockNewTransactions, one object of its loop.                           *)
BlockNewTransactions(o) ==
    /\ spc = "block" /\ o \in todo
    /\ lock' = [lock EXCEPT ![o] = TRUE]
    /\ todo' = IF todo = {o} THEN registry ELSE todo \ {o}
    /\ spc' = IF todo = {o} THEN "wait" ELSE "block"
    /\ UNCHANGED <<snapRest, lockVars, saved, snaps, unseen>>

(* Mutant: one open transaction is taken for none.                         *)
ReadDepthOffByOne(t) ==
    /\ spc = "wait" /\ t \in todo
    /\ todo' = IF depth[t] > 1 THEN registry ELSE todo \ {t}
    /\ UNCHANGED <<snapRest, lockVars, spc, saved, snaps, lock, unseen>>

(* What it->second->tx_buffer[0] may read: of a thread that has ended, the *)
(* configuration and the buffer are freed, and the word may be anything.   *)
DepthRead(t) == IF tpc[t] = "ended" THEN {0, 1} ELSE {depth[t]}

(* waitForRunningTransactions reads tx_buffer[0] of one thread; if it is   *)
(* not zero the loop starts again.                                         *)
ReadDepth(t) ==
    /\ spc = "wait" /\ t \in todo
    /\ \E d \in DepthRead(t) : todo' = IF d # 0 THEN registry ELSE todo \ {t}
    /\ unseen' = IF depth[t] = 0 /\ own[t] # 0 /\ Inside(t) THEN unseen \cup {t} ELSE unseen
    /\ UNCHANGED <<snapRest, lockVars, spc, saved, snaps, lock>>

NoneRunning ==
    /\ spc = "wait" /\ todo = {}
    /\ spc' = "save"
    /\ todo' = Object
    /\ unseen' = unseen \cup {t \in Thread \ registry : Inside(t)}
    /\ UNCHANGED <<snapRest, lockVars, saved, snaps, lock>>

(* Mutant: the commit id is not saved.                                     *)
SaveTailOnly(o) ==
    /\ spc = "save" /\ o \in todo
    /\ saved' = [saved EXCEPT !.tail[o] = Len(log[o]) + 1]
    /\ todo' = todo \ {o}
    /\ UNCHANGED <<snapRest, lockVars, spc, snaps, lock, unseen>>

(* saveAllocationTables, one object: last_commit and the tail.             *)
SaveAllocationTables(o) ==
    /\ spc = "save" /\ o \in todo
    /\ saved' = [saved EXCEPT !.last[o] = last[o], !.tail[o] = Len(log[o]) + 1]
    /\ todo' = todo \ {o}
    /\ UNCHANGED <<snapRest, lockVars, spc, snaps, lock, unseen>>

(* markPagesReadOnly: what the heap holds now is what will be copied.      *)
MarkPagesReadOnly ==
    /\ spc = "save" /\ todo = {}
    /\ saved' = [saved EXCEPT !.image = heap]
    /\ spc' = "unblock"
    /\ todo' = Object
    /\ UNCHANGED <<snapRest, lockVars, snaps, lock, unseen>>

(* unblockNewTransactions, one object of its loop.                         *)
UnblockNewTransactions(o) ==
    /\ spc = "unblock" /\ o \in todo
    /\ lock' = [lock EXCEPT ![o] = FALSE]
    /\ todo' = todo \ {o}
    /\ UNCHANGED <<snapRest, lockVars, spc, saved, snaps, unseen>>

(* Its broadcast, under ckptLock.                                          *)
Broadcast ==
    /\ spc = "unblock" /\ todo = {}
    /\ ckpt = "free"
    /\ tpc' = [t \in Thread |-> IF t \in asleep THEN "woken" ELSE tpc[t]]
    /\ asleep' = {}
    /\ spc' = "copy"
    /\ UNCHANGED <<levelVars, depthVars, manager, ckpt, threadSetVars, logVars, todo, saved,
                   snaps, lock, unseen>>

(* The pages are copied (module PageCopy); the manager's lock is released. *)
FinishSnapshot ==
    /\ spc = "copy"
    /\ manager' = "free"
    /\ spc' = "none"
    /\ UNCHANGED <<snapRest, ckpt, asleep, todo, saved, snaps, lock, unseen>>

-----------------------------------------------------------------------------
LibraryStep(t) ==
    \/ Flush(t)
    \/ Gate(t)
    \/ LockCkpt(t)
    \/ Check(t)
    \/ Resume(t)
    \/ \E i \in 1 .. MaxNest : LogLevel(t, i)
    \/ Created(t)
    \/ Close(t)
    \/ Commit(t)

ThreadStep(t) == LibraryStep(t) \/ Body(t)

SnapshotStep ==
    \/ \E o \in Object : BlockNewTransactions(o) \/ SaveAllocationTables(o)
    \/ \E o \in Object : UnblockNewTransactions(o)
    \/ \E t \in Thread : ReadDepth(t)
    \/ NoneRunning
    \/ MarkPagesReadOnly
    \/ Broadcast
    \/ FinishSnapshot

(* All threads have ended.                                                 *)
Ended ==
    /\ \A t \in Thread : tpc[t] \in {"ended", "app"}
    /\ UNCHANGED vars

Next ==
    \/ \E t \in Thread, o \in Object : Open(t, o)
    \/ \E t \in Thread : ThreadStep(t)
    \/ \E t \in Thread : Create(t) \/ End(t) \/ Register(t)
    \/ StartSnapshot
    \/ SnapshotStep
    \/ Ended

Spec == Init /\ [][Next]_vars

(* A thread inside the library keeps running, and so does the snapshot;    *)
(* calls, ends, registrations and signals need not come, and a method need *)
(* not return.                                                             *)
Fairness ==
    /\ \A t \in Thread : WF_vars(LibraryStep(t))
    /\ WF_vars(SnapshotStep)

FairSpec == Spec /\ Fairness

-----------------------------------------------------------------------------
Position(x) == UNION {{o} \X {i \in DOMAIN log[o] : log[o][i] = x} : o \in Object}

(* The transactions whose entries lie below the saved tails.               *)
BelowTail == {x \in Tx : \E p \in Position(x) : p[2] < saved.tail[p[1]]}

(* No thread is between the gate of an outermost transaction and its end   *)
(* while the tables are saved and the pages made read-only                 *)
(* (saveAllocationTables, "No need to lock since all threads are blocked") *)
(* except in three ways: its depth was still in its store buffer when it   *)
(* was read, it woke from the last snapshot and did not look again, or it  *)
(* was not registered yet.                                                 *)
AllThreadsBlocked == spc = "save" => \A t \in Thread : Inside(t) => t \in unseen

(* With every thread seen, the snapshot is a cut: the image holds the      *)
(* effects of exactly the calls whose entries replay will skip because     *)
(* they lie below the saved tail, and every commit id the snapshot vouches *)
(* for is among them.                                                      *)
SnapshotIsCut ==
    spc \in {"unblock", "copy"} /\ unseen = {} =>
        /\ saved.image = BelowTail
        /\ \A o \in Object : \A i \in DOMAIN log[o] :
               cid[log[o][i]] \in 1 .. saved.last[o] => i < saved.tail[o]

(* Recovery replays from the saved tail the commits after the saved one,   *)
(* in order, and an id that lies below the tail is never found             *)
(* (nv_object.cpp, assert(commit_queue.empty())). With every thread seen,  *)
(* a thread can leave at most one such id: that of the transaction it was  *)
(* closing, whose depth falls before the id is taken.                      *)
Unreachable == {x \in BelowTail : \E p \in Position(x) : cid[x] > saved.last[p[1]]}
ReplayMissesOnlyClosing ==
    spc = "copy" /\ unseen = {} => \A x, y \in Unreachable : x[1] = y[1] => x = y

(* Every method that is called returns. Not so for one that loops, whose   *)
(* store spins in the fault handler (module PageCopy), or which SIGUSR1    *)
(* stops while Savitar_main holds snapshot_lock (module Program).          *)
Executing(t) ==
    tpc[t] = "body" /\ closing[t] = <<>> /\ open[t] # <<>> /\ ~Top(t).done
MethodsReturn == \A t \in Thread : []<>(~Executing(t))

(* A method that creates an object or a thread waits for the manager's     *)
(* lock, which the snapshot that waits for the method holds.               *)
Creating == \E t \in Thread : tpc[t] = "create"

(* A thread that ended before its creator registered it stays registered,  *)
(* and the snapshot may read its freed depth as not zero for ever.         *)
EndedIsRegistered == \E t \in registry : tpc[t] = "ended"

(* If methods return, a snapshot that is started ends, with two            *)
(* exceptions: a method creates an object, or a thread that has ended is   *)
(* registered (create, waitForRunningTransactions).                        *)
SnapshotEndsUnlessStuck ==
    MethodsReturn => (spc = "block" ~> (spc = "none" \/ Creating \/ EndedIsRegistered))

(* If methods return, a thread that sleeps on ckptCondition gets into its  *)
(* transaction, with the same exceptions: no wakeup is lost                *)
(* (Savitar_thread_notify, unblockNewTransactions).                        *)
SleeperResumes ==
    MethodsReturn =>
        \A t \in Thread : tpc[t] = "asleep" ~> (tpc[t] = "body" \/ Creating \/ EndedIsRegistered)

-----------------------------------------------------------------------------
(* Not true of the code. *)

(* Only registered threads that have not ended are waited for: the buffers *)
(* of a thread that has ended are freed (waitForRunningTransactions reads  *)
(* "tx_buffer[0] == number of active transactions").                       *)
RegisteredIsAlive ==
    spc = "wait" => \A t \in registry : tpc[t] # "ended"
=============================================================================
