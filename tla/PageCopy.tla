------------------------------ MODULE PageCopy ------------------------------
(***************************************************************************)
(* The copy-on-write half of a snapshot (snapshot.cpp, context.cpp): the   *)
(* used 2 MB blocks are made read-only while transactions are blocked,     *)
(* then snapshot threads copy them while writers run; a writer that faults *)
(* on a block copies it itself in the SIGSEGV handler. A block's contents  *)
(* are a version number, raised by each store. The gate of the freeze      *)
(* (module Freeze) is one condition here.                                  *)
(***************************************************************************)
EXTENDS Integers

CONSTANTS
    Writer,           \* program threads
    Outside,          \* those that store outside transactions too
    BlockCount,       \* allocatedBlocks
    SnapshotThreads,
    MaxStore,         \* bound: stores begun
    MaxSnap           \* bound: SIGUSR1 signals that start a snapshot

ASSUME ShareAssumption ==
    /\ BlockCount \in Nat
    /\ SnapshotThreads \in Nat \ {0}
    /\ BlockCount % SnapshotThreads = 0
    /\ MaxStore \in Nat
    /\ MaxSnap \in Nat

Block == 0 .. BlockCount - 1
Thread == 0 .. SnapshotThreads - 1
shareLength == BlockCount \div SnapshotThreads
Lost == -1

VARIABLES
    heap,      \* contents of each block
    used,      \* blocks with a bit set in the allocation bitmap
    prot,      \* blocks that are read-only
    spc,       \* where Snapshot::create is; "none" without an instance
    mark,      \* markPagesReadOnly: b, addr and regionSize, in blocks
    context,   \* state of each block; "null" while the array does not exist
    bits,      \* the snapshot's copy of the bitmap: blocks with a bit set
    copy,      \* data area of the snapshot file
    frozen,    \* history: contents of a block when it was made read-only
    stamped,   \* view->time has been set
    tpc,       \* snapshot thread: where it is in snapshotWorker
    sp,        \* snapshot thread: the block it looks at
    wpc,       \* writer: where it is
    addr,      \* writer: the block it stores to
    stores,    \* stores begun
    snaps,     \* snapshots begun
    overlap,   \* history: a snapshot began while a handler of an earlier one still ran
    status     \* up, exit (exit(1)), dead (fault in a handler), crash, restored

blockVars == <<heap, prot>>
snapVars == <<spc, mark, bits, frozen, stamped, snaps, overlap>>
threadVars == <<tpc, sp>>
writerVars == <<wpc, addr, stores>>
vars == <<blockVars, used, snapVars, context, copy, threadVars, writerVars, status>>

Init ==
    /\ heap = [b \in Block |-> 0]
    /\ used \in SUBSET Block
    /\ prot = {}
    /\ spc = "none"
    /\ mark = [b |-> 0, addr |-> 0, size |-> 0]
    /\ context = [b \in Block |-> "null"]
    /\ bits = {}
    /\ copy = [b \in Block |-> Lost]
    /\ frozen = [b \in Block |-> Lost]
    /\ stamped = FALSE
    /\ tpc = [t \in Thread |-> "done"]
    /\ sp = [t \in Thread |-> 0]
    /\ wpc = [w \in Writer |-> "idle"]
    /\ addr = [w \in Writer |-> 0]
    /\ stores = 0
    /\ snaps = 0
    /\ overlap = FALSE
    /\ status = "up"

(* The process is running.                                                 *)
Up == status = "up"

-----------------------------------------------------------------------------
(* Writers.                                                                *)

(* snapshot_lock is clear.                                                 *)
GateOpen == spc \notin {"wait", "save", "mark"}

(* A writer is about to store to a block it has allocated, inside a        *)
(* transaction or, as the callers that fill a buffer before they pass it   *)
(* to a method do, outside of any.                                         *)
BeginStore(w, b) ==
    /\ Up
    /\ wpc[w] = "idle"
    /\ GateOpen \/ w \in Outside
    /\ b \in used
    /\ stores < MaxStore
    /\ wpc' = [wpc EXCEPT ![w] = "store"]
    /\ addr' = [addr EXCEPT ![w] = b]
    /\ stores' = stores + 1
    /\ UNCHANGED <<blockVars, used, snapVars, context, copy, threadVars, status>>

(* A block gets its first allocation, or loses its last.                   *)
ChangeAllocation(b) ==
    /\ Up
    /\ GateOpen
    /\ \A w \in Writer : wpc[w] # "idle" => addr[w] # b
    /\ used' = IF b \in used THEN used \ {b} ELSE used \cup {b}
    /\ UNCHANGED <<blockVars, snapVars, context, copy, threadVars, writerVars, status>>

(* The store itself: it faults if the block is read-only.                  *)
Store(w) ==
    /\ Up
    /\ wpc[w] = "store"
    /\ IF addr[w] \in prot
       THEN /\ wpc' = [wpc EXCEPT ![w] = "fault"]
            /\ UNCHANGED heap
       ELSE /\ wpc' = [wpc EXCEPT ![w] = "idle"]
            /\ heap' = [heap EXCEPT ![addr[w]] = @ + 1]
    /\ UNCHANGED <<prot, used, snapVars, context, copy, threadVars, addr, stores, status>>

(* signal_handler, SIGSEGV: without an active snapshot the program exits.  *)
SignalHandler(w) ==
    /\ Up
    /\ wpc[w] = "fault"
    /\ IF spc = "none"
       THEN status' = "exit" /\ UNCHANGED wpc
       ELSE wpc' = [wpc EXCEPT ![w] = "claim"] /\ UNCHANGED status
    /\ UNCHANGED <<blockVars, used, snapVars, context, copy, threadVars, addr, stores>>

(* pageFaultHandler: claim the block, or wait for whoever has. Without the *)
(* instance (getInstance asserts) or its context the process dies.         *)
FaultClaim(w) ==
    /\ Up
    /\ wpc[w] = "claim"
    /\ IF context[addr[w]] = "null"
       THEN status' = "dead" /\ UNCHANGED <<context, wpc>>
       ELSE /\ IF context[addr[w]] = "used"
               THEN /\ context' = [context EXCEPT ![addr[w]] = "locked"]
                    /\ wpc' = [wpc EXCEPT ![w] = "copy"]
               ELSE /\ wpc' = [wpc EXCEPT ![w] = "spin"]
                    /\ UNCHANGED context
            /\ UNCHANGED status
    /\ UNCHANGED <<blockVars, used, snapVars, copy, threadVars, addr, stores>>

FaultSpin(w) ==
    /\ Up
    /\ wpc[w] = "spin"
    /\ \/ /\ context[addr[w]] = "null"
          /\ status' = "dead"
          /\ UNCHANGED wpc
       \/ /\ context[addr[w]] = "saved"
          /\ wpc' = [wpc EXCEPT ![w] = "store"]
          /\ UNCHANGED status
    /\ UNCHANGED <<blockVars, used, snapVars, context, copy, threadVars, addr, stores>>

(* Mutant: the handler makes the block writable before it has copied it.   *)
FaultCopyLate(w) ==
    /\ Up
    /\ wpc[w] = "copy"
    /\ addr[w] \in prot \/ copy' = [copy EXCEPT ![addr[w]] = heap[addr[w]]]
    /\ addr[w] \in prot => UNCHANGED copy
    /\ prot' = prot \ {addr[w]}
    /\ wpc' = [wpc EXCEPT ![w] = IF addr[w] \in prot THEN "copy" ELSE "release"]
    /\ UNCHANGED <<heap, used, snapVars, context, threadVars, addr, stores, status>>

FaultCopy(w) ==
    /\ Up
    /\ wpc[w] = "copy"
    /\ copy' = [copy EXCEPT ![addr[w]] = heap[addr[w]]]
    /\ wpc' = [wpc EXCEPT ![w] = "release"]
    /\ UNCHANGED <<blockVars, used, snapVars, context, threadVars, addr, stores, status>>

(* sfence and mprotect.                                                    *)
FaultRelease(w) ==
    /\ Up
    /\ wpc[w] = "release"
    /\ prot' = prot \ {addr[w]}
    /\ wpc' = [wpc EXCEPT ![w] = "publish"]
    /\ UNCHANGED <<heap, used, snapVars, context, copy, threadVars, addr, stores, status>>

(* Mutant: the handler leaves the block locked.                            *)
FaultPublishForgotten(w) ==
    /\ Up
    /\ wpc[w] = "publish"
    /\ wpc' = [wpc EXCEPT ![w] = "store"]
    /\ UNCHANGED <<blockVars, used, snapVars, context, copy, threadVars, addr, stores, status>>

FaultPublish(w) ==
    /\ Up
    /\ wpc[w] = "publish"
    /\ context' = [context EXCEPT ![addr[w]] = "saved"]
    /\ wpc' = [wpc EXCEPT ![w] = "store"]
    /\ UNCHANGED <<blockVars, used, snapVars, copy, threadVars, addr, stores, status>>

-----------------------------------------------------------------------------
(* The snapshot.                                                           *)

(* signal_handler, SIGUSR1.                                                *)
StartSnapshot ==
    /\ Up
    /\ spc = "none"
    /\ snaps < MaxSnap
    /\ snaps' = snaps + 1
    /\ spc' = "new"
    /\ overlap' = (overlap \/ \E w \in Writer : wpc[w] \notin {"idle", "store"})
    /\ UNCHANGED <<blockVars, used, mark, context, bits, copy, frozen, stamped, threadVars,
                   writerVars, status>>

(* prepareSnapshot and extendSnapshot; then blockNewTransactions.          *)
PrepareSnapshot ==
    /\ Up
    /\ spc = "new"
    /\ context' = [b \in Block |-> "raw"]
    /\ copy' = [b \in Block |-> Lost]
    /\ frozen' = [b \in Block |-> Lost]
    /\ bits' = {}
    /\ stamped' = FALSE
    /\ spc' = "wait"
    /\ UNCHANGED <<blockVars, used, mark, threadVars, writerVars, snaps, overlap, status>>

WaitForRunningTransactions ==
    /\ Up
    /\ spc = "wait"
    /\ \A w \in Writer \ Outside : wpc[w] = "idle"
    /\ spc' = "save"
    /\ UNCHANGED <<blockVars, used, mark, context, bits, copy, frozen, stamped, threadVars,
                   writerVars, snaps, overlap, status>>

SaveBitmap ==
    /\ Up
    /\ spc = "save"
    /\ bits' = used
    /\ mark' = [b |-> 0, addr |-> 0, size |-> 0]
    /\ spc' = "mark"
    /\ UNCHANGED <<blockVars, used, context, copy, frozen, stamped, threadVars, writerVars,
                   snaps, overlap, status>>

(* mprotect of the region of used blocks seen so far.                      *)
ProtectRegion ==
    LET region == mark.addr .. mark.addr + mark.size - 1 IN
    /\ prot' = prot \cup region
    /\ frozen' = [b \in Block |-> IF b \in region THEN heap[b] ELSE frozen[b]]

(* markPagesReadOnly, one block of its loop.                               *)
MarkBlock ==
    /\ Up
    /\ spc = "mark" /\ mark.b < BlockCount
    /\ IF mark.b \in bits
       THEN /\ context' = [context EXCEPT ![mark.b] = "used"]
            /\ mark' = [mark EXCEPT !.b = @ + 1, !.size = @ + 1]
            /\ UNCHANGED <<prot, frozen>>
       ELSE /\ context' = [context EXCEPT ![mark.b] = "free"]
            /\ mark' = [b |-> mark.b + 1, addr |-> mark.b + 1, size |-> 0]
            /\ ProtectRegion
    /\ UNCHANGED <<heap, used, spc, bits, copy, stamped, threadVars, writerVars, snaps, overlap, status>>

(* The last region; then unblockNewTransactions and the snapshot threads.  *)
SaveModifiedPages ==
    /\ Up
    /\ spc = "mark" /\ mark.b = BlockCount
    /\ ProtectRegion
    /\ tpc' = [t \in Thread |-> "scan"]
    /\ sp' = [t \in Thread |-> t * shareLength]
    /\ spc' = "join"
    /\ UNCHANGED <<heap, used, mark, context, bits, copy, stamped, writerVars, snaps, overlap, status>>

(* snapshotWorker: claim the next block of the share, or skip it.          *)
WorkerClaim(t) ==
    /\ Up
    /\ tpc[t] = "scan" /\ sp[t] < (t + 1) * shareLength
    /\ IF context[sp[t]] = "used"
       THEN /\ context' = [context EXCEPT ![sp[t]] = "locked"]
            /\ tpc' = [tpc EXCEPT ![t] = "copy"]
            /\ UNCHANGED sp
       ELSE /\ sp' = [sp EXCEPT ![t] = @ + 1]
            /\ UNCHANGED <<context, tpc>>
    /\ UNCHANGED <<blockVars, used, snapVars, copy, writerVars, status>>

WorkerCopy(t) ==
    /\ Up
    /\ tpc[t] = "copy"
    /\ copy' = [copy EXCEPT ![sp[t]] = heap[sp[t]]]
    /\ tpc' = [tpc EXCEPT ![t] = "release"]
    /\ UNCHANGED <<blockVars, used, snapVars, context, sp, writerVars, status>>

(* Mutant: the snapshot thread leaves the block read-only.                 *)
WorkerReleaseForgotten(t) ==
    /\ Up
    /\ tpc[t] = "release"
    /\ tpc' = [tpc EXCEPT ![t] = "publish"]
    /\ UNCHANGED <<blockVars, used, snapVars, context, copy, sp, writerVars, status>>

WorkerRelease(t) ==
    /\ Up
    /\ tpc[t] = "release"
    /\ prot' = prot \ {sp[t]}
    /\ tpc' = [tpc EXCEPT ![t] = "publish"]
    /\ UNCHANGED <<heap, used, snapVars, context, copy, sp, writerVars, status>>

WorkerPublish(t) ==
    /\ Up
    /\ tpc[t] = "publish"
    /\ context' = [context EXCEPT ![sp[t]] = "saved"]
    /\ sp' = [sp EXCEPT ![t] = @ + 1]
    /\ tpc' = [tpc EXCEPT ![t] = "scan"]
    /\ UNCHANGED <<blockVars, used, snapVars, copy, writerVars, status>>

WorkerReturn(t) ==
    /\ Up
    /\ tpc[t] = "scan" /\ sp[t] = (t + 1) * shareLength
    /\ tpc' = [tpc EXCEPT ![t] = "done"]
    /\ UNCHANGED <<blockVars, used, snapVars, context, copy, sp, writerVars, status>>

(* Mutant: the handlers that are still copying are not waited for.         *)
WaitForFaultHandlersSkipped ==
    /\ Up
    /\ spc = "join"
    /\ \A t \in Thread : tpc[t] = "done"
    /\ stamped' = TRUE
    /\ spc' = "clean"
    /\ UNCHANGED <<blockVars, used, mark, context, bits, copy, frozen, threadVars, writerVars,
                   snaps, overlap, status>>

(* The threads are joined, no block is locked: the header gets its time.   *)
WaitForFaultHandlers ==
    /\ Up
    /\ spc = "join"
    /\ \A t \in Thread : tpc[t] = "done"
    /\ \A b \in Block : context[b] # "locked"
    /\ stamped' = TRUE
    /\ spc' = "clean"
    /\ UNCHANGED <<blockVars, used, mark, context, bits, copy, frozen, threadVars, writerVars,
                   snaps, overlap, status>>

CleanEnvironment ==
    /\ Up
    /\ spc = "clean"
    /\ context' = [b \in Block |-> "null"]
    /\ spc' = "delete"
    /\ UNCHANGED <<blockVars, used, mark, bits, copy, frozen, stamped, threadVars, writerVars,
                   snaps, overlap, status>>

(* snapshot_worker deletes the instance.                                   *)
DeleteSnapshot ==
    /\ Up
    /\ spc = "delete"
    /\ spc' = "none"
    /\ UNCHANGED <<blockVars, used, mark, context, bits, copy, frozen, stamped, threadVars,
                   writerVars, snaps, overlap, status>>

-----------------------------------------------------------------------------
(* The process is killed: of a block that is being copied only a part may  *)
(* be in the file.                                                         *)
Crash ==
    /\ Up
    /\ status' = "crash"
    /\ copy' = [b \in Block |-> IF context[b] = "locked" THEN Lost ELSE copy[b]]
    /\ UNCHANGED <<blockVars, used, snapVars, context, threadVars, writerVars>>

(* load of the last snapshot, finished or not: the restore threads fill    *)
(* the blocks that have a bit set, the others are fresh memory. Without a  *)
(* snapshot no bit is set and all memory is fresh.                         *)
Load ==
    /\ status = "crash"
    /\ heap' = [b \in Block |-> IF b \in bits THEN copy[b] ELSE 0]
    /\ used' = bits
    /\ prot' = {}
    /\ status' = "restored"
    /\ UNCHANGED <<snapVars, context, copy, threadVars, writerVars>>

(* Down, or restored: nothing more is of interest.                         *)
Ended ==
    /\ ~Up
    /\ UNCHANGED vars

-----------------------------------------------------------------------------
WriterStep(w) ==
    \/ Store(w)
    \/ SignalHandler(w)
    \/ FaultClaim(w)
    \/ FaultSpin(w)
    \/ FaultCopy(w)
    \/ FaultRelease(w)
    \/ FaultPublish(w)

ThreadStep(t) ==
    \/ WorkerClaim(t)
    \/ WorkerCopy(t)
    \/ WorkerRelease(t)
    \/ WorkerPublish(t)
    \/ WorkerReturn(t)

SnapshotStep ==
    \/ PrepareSnapshot
    \/ WaitForRunningTransactions
    \/ SaveBitmap
    \/ MarkBlock
    \/ SaveModifiedPages
    \/ WaitForFaultHandlers
    \/ CleanEnvironment
    \/ DeleteSnapshot

Next ==
    \/ \E w \in Writer, b \in Block : BeginStore(w, b)
    \/ \E b \in Block : ChangeAllocation(b)
    \/ \E w \in Writer : WriterStep(w)
    \/ StartSnapshot
    \/ SnapshotStep
    \/ \E t \in Thread : ThreadStep(t)
    \/ Crash
    \/ Load
    \/ Ended

Spec == Init /\ [][Next]_vars

(* Every thread keeps running; signals, stores and crashes need not come.  *)
Fairness ==
    /\ \A w \in Writer : WF_vars(WriterStep(w))
    /\ \A t \in Thread : WF_vars(ThreadStep(t))
    /\ WF_vars(SnapshotStep)

FairSpec == Spec /\ Fairness

-----------------------------------------------------------------------------
(* A block that counts as saved holds in the snapshot what it held when it *)
(* was made read-only, whichever of the handler and the snapshot threads   *)
(* copied it and whatever has been stored to it since, unless a snapshot   *)
(* began while a handler of an earlier one still ran (snapshot.cpp).       *)
CopyIsFrozenImage ==
    ~overlap => \A b \in Block : context[b] = "saved" => copy[b] = frozen[b]

(* What is restored after a crash from a snapshot whose time was set is,   *)
(* for every used block, the frozen image: the header is never stamped     *)
(* while a handler still copies a block (waitForFaultHandlers), with the   *)
(* same exception.                                                         *)
RestoredIsFrozen ==
    status = "restored" /\ stamped /\ ~overlap => \A b \in bits : heap[b] = frozen[b]

(* Blocks are read-only only while a snapshot has still to copy them: the  *)
(* regions of markPagesReadOnly contain used blocks only, and each is made *)
(* writable again, with the same exception.                                *)
ReadOnlyOnlyUntilCopied ==
    Up /\ ~overlap => \A b \in prot : b \in bits /\ context[b] \in {"used", "locked"}

(* A snapshot that is started ends, unless the program does or a handler   *)
(* of an earlier snapshot still runs when one begins: that handler may     *)
(* wait for a block nobody copies, and the snapshot for it (create).       *)
SnapshotEnds == spc = "new" ~> (spc = "none" \/ ~Up \/ overlap)

(* A store that faulted is done in the end, unless the program goes down   *)
(* or a snapshot begins while a handler of an earlier one still runs       *)
(* (pageFaultHandler).                                                     *)
FaultingStoreCompletes ==
    \A w \in Writer : wpc[w] = "fault" ~> (wpc[w] = "idle" \/ ~Up \/ overlap)

-----------------------------------------------------------------------------
(* Not true of the code. *)

(* A fault handler that waits for another thread's copy waits for a thread *)
(* that has the block: pageFaultHandler, "Wait for the other thread who    *)
(* owns the lock". (That the context may be gone is HandlersReturned.)     *)
SpinHasOwner ==
    \A w \in Writer : wpc[w] = "spin" /\ Up =>
        context[addr[w]] \in {"null", "locked", "saved"}

(* When the snapshot is finished no fault handler is still running:        *)
(* waitForFaultHandlers, "Make sure all fault handlers have returned".     *)
HandlersReturned ==
    spc \in {"clean", "delete"} /\ Up =>
        \A w \in Writer : wpc[w] \in {"idle", "store"}
=============================================================================
