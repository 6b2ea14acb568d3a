---------------------------- MODULE LogRecovery -----------------------------
(***************************************************************************)
(* The redo log of one object over crashes (nv_log.cpp) and its replay     *)
(* (PersistentObject::Recover).                                            *)
(*                                                                         *)
(* An entry is one line of the log, and its line names the transaction; it *)
(* is written by the logger of a worker, which waits for it, so that       *)
(* worker and logger are one process. A worker's depth, which a snapshot   *)
(* waits for, is 1 from Reserve to LowerDepth. The snapshots here are ones *)
(* that were completed, by a freeze that every thread heeded (Freeze).     *)
(* An entry of several lines, which a power failure can tear, is left out. *)
(* mem is what the mapped file shows and nv what is certain to survive a   *)
(* power failure: lines and the log header are evicted from the cache at   *)
(* any time. The header line holds tail and last_commit. A killed process  *)
(* loses nothing it has stored.                                            *)
(***************************************************************************)
EXTENDS Integers, Sequences, FiniteSets, SequencesExt, FiniteSetsExt

CONSTANTS
    Worker,
    LogSize,    \* lines of the log, which bound the transactions
    Exact,      \* bound: whether entries may end exactly at a line boundary
    MaxStop     \* bound: how often the program ends

Line == 1 .. LogSize
Blank == [magic |-> FALSE, exact |-> FALSE, cid |-> 0]
None == 0

VARIABLES
    mem, nv,      \* the lines of the log
    header,       \* [tail, last_commit]
    headers,      \* the values of the header since it was last persisted
    wpc, slot, cid,   \* the workers: step, line and commit id
    commits,      \* transactions in the order of their commit ids
    acked,        \* those whose Savitar_thread_wait has returned, until a recovery loses them
    ckpt,         \* the last snapshot: head and last commit of the replay, the
                  \* committed transactions in its image, those in the image whose
                  \* commit was still under way, and whether the tables are durable
    object,       \* the transactions a recovery has replayed
    behind,       \* history: a run has begun with an old header, or without an
                  \* entry that its recovery skipped
    torn,         \* history: a power failure took a word of a snapshot's tables
    crashes, status   \* how the program has ended so far, and how it is now

vars == <<mem, nv, header, headers, wpc, slot, cid, commits, acked, ckpt, object,
          behind, torn, crashes, status>>

(* Savitar_log_create.                                                     *)
Init ==
    /\ mem = [l \in Line |-> Blank] /\ nv = mem
    /\ header = [tail |-> 1, last_commit |-> 0] /\ headers = {header}
    /\ wpc = [w \in Worker |-> "idle"]
    /\ slot = [w \in Worker |-> None] /\ cid = [w \in Worker |-> 0]
    /\ commits = <<>> /\ acked = {}
    /\ ckpt = [head |-> 1, last |-> 0, object |-> <<>>, pending |-> {}, durable |-> TRUE]
    /\ object = <<>> /\ behind = FALSE /\ torn = FALSE /\ crashes = <<>> /\ status = "up"

SetHeader(h) == header' = h /\ headers' = headers \cup {h}

-----------------------------------------------------------------------------
(* Savitar_log_append.                                                     *)

Reserve(w) ==
    /\ status = "up" /\ wpc[w] = "idle"
    /\ header.tail <= LogSize
    /\ slot' = [slot EXCEPT ![w] = header.tail]
    /\ SetHeader([header EXCEPT !.tail = @ + 1])
    /\ wpc' = [wpc EXCEPT ![w] = "write"]
    /\ UNCHANGED <<mem, nv, cid, commits, acked, ckpt, object, behind, torn, crashes, status>>

(* The entry, its commit id left blank.                                    *)
Write(w) ==
    /\ status = "up" /\ wpc[w] = "write"
    /\ \E x \in (IF Exact THEN BOOLEAN ELSE {FALSE}) :
           mem' = [mem EXCEPT ![slot[w]] = [magic |-> TRUE, exact |-> x, cid |-> 0]]
    /\ wpc' = [wpc EXCEPT ![w] = "drain"]
    /\ UNCHANGED <<nv, header, headers, slot, cid, commits, acked, ckpt, object,
                   behind, torn, crashes, status>>

Drain(w) ==
    /\ status = "up" /\ wpc[w] = "drain"
    /\ nv' = [nv EXCEPT ![slot[w]] = mem[slot[w]]]
    /\ wpc' = [wpc EXCEPT ![w] = "tail"]
    /\ UNCHANGED <<mem, header, headers, slot, cid, commits, acked, ckpt, object,
                   behind, torn, crashes, status>>

(* Mutant: the tail is left to the cache.                                  *)
PersistTailSkipped(w) ==
    /\ status = "up" /\ wpc[w] = "tail"
    /\ wpc' = [wpc EXCEPT ![w] = "logged"]
    /\ UNCHANGED <<mem, nv, header, headers, slot, cid, commits, acked, ckpt, object,
                   behind, torn, crashes, status>>

PersistTail(w) ==
    /\ status = "up" /\ wpc[w] = "tail"
    /\ headers' = {header}
    /\ wpc' = [wpc EXCEPT ![w] = "logged"]
    /\ UNCHANGED <<mem, nv, header, slot, cid, commits, acked, ckpt, object, behind,
                   torn, crashes, status>>

-----------------------------------------------------------------------------
(* Savitar_thread_wait, once the logger has answered: the depth falls      *)
(* before Savitar_log_commit is called.                                    *)

LowerDepth(w) ==
    /\ status = "up" /\ wpc[w] = "logged"
    /\ wpc' = [wpc EXCEPT ![w] = "commit"]
    /\ UNCHANGED <<mem, nv, header, headers, slot, cid, commits, acked, ckpt, object,
                   behind, torn, crashes, status>>

TakeCommitId(w) ==
    /\ status = "up" /\ wpc[w] = "commit"
    /\ SetHeader([header EXCEPT !.last_commit = @ + 1])
    /\ cid' = [cid EXCEPT ![w] = header.last_commit + 1]
    /\ commits' = Append(commits, slot[w])
    /\ wpc' = [wpc EXCEPT ![w] = "store"]
    /\ UNCHANGED <<mem, nv, slot, acked, ckpt, object, behind, torn, crashes, status>>

(* Mutant: the id is read back from the log header.                        *)
StoreCommitIdShared(w) ==
    /\ status = "up" /\ wpc[w] = "store"
    /\ mem' = [mem EXCEPT ![slot[w]].cid = header.last_commit]
    /\ wpc' = [wpc EXCEPT ![w] = "persist"]
    /\ UNCHANGED <<nv, header, headers, slot, cid, commits, acked, ckpt, object, behind,
                   torn, crashes, status>>

StoreCommitId(w) ==
    /\ status = "up" /\ wpc[w] = "store"
    /\ mem' = [mem EXCEPT ![slot[w]].cid = cid[w]]
    /\ wpc' = [wpc EXCEPT ![w] = "persist"]
    /\ UNCHANGED <<nv, header, headers, slot, cid, commits, acked, ckpt, object, behind,
                   torn, crashes, status>>

(* Savitar_thread_wait returns after this.                                 *)
PersistCommitId(w) ==
    /\ status = "up" /\ wpc[w] = "persist"
    /\ nv' = [nv EXCEPT ![slot[w]] = mem[slot[w]]]
    /\ acked' = acked \cup {slot[w]}
    /\ wpc' = [wpc EXCEPT ![w] = "idle"]
    /\ slot' = [slot EXCEPT ![w] = None] /\ cid' = [cid EXCEPT ![w] = 0]
    /\ UNCHANGED <<mem, header, headers, commits, ckpt, object, behind, torn, crashes, status>>

-----------------------------------------------------------------------------
Quiet == \A w \in Worker : wpc[w] = "idle"

(* waitForRunningTransactions has found every depth zero.                  *)
Frozen == \A w \in Worker : wpc[w] \in {"idle", "commit", "store", "persist"}

(* Entries of the workers that have left their transactions and have no    *)
(* commit id yet: their calls are in the heap.                             *)
Closing == {slot[w] : w \in {v \in Worker : wpc[v] = "commit"}}

(* Mutant: the snapshot does not keep where the log stood.                 *)
TakeSnapshotOnly ==
    /\ status = "up" /\ Frozen
    /\ ckpt' = [ckpt EXCEPT !.object = commits, !.pending = Closing, !.durable = FALSE]
    /\ <<ckpt'.object, ckpt'.pending>> # <<ckpt.object, ckpt.pending>>
    /\ UNCHANGED <<mem, nv, header, headers, wpc, slot, cid, commits, acked, object,
                   behind, torn, crashes, status>>

(* Snapshot::create, while every transaction is blocked: last_commit and   *)
(* the tail, stored and not flushed, and the object. A second snapshot of  *)
(* the same state is left out.                                             *)
TakeSnapshot ==
    /\ status = "up" /\ Frozen
    /\ ckpt' = [head |-> header.tail, last |-> header.last_commit, object |-> commits,
                pending |-> Closing, durable |-> FALSE]
    /\ <<ckpt'.object, ckpt'.pending>> # <<ckpt.object, ckpt.pending>>
    /\ UNCHANGED <<mem, nv, header, headers, wpc, slot, cid, commits, acked, object,
                   behind, torn, crashes, status>>

(* The cache is lost: of each line, of the log header and of each word of  *)
(* the snapshot's tables what is found is what was flushed or anything     *)
(* newer. Without the pointer to the object the next start fails.          *)
LoseCache ==
    /\ \E lost \in SUBSET {l \in Line : mem[l] # nv[l]} :
           mem' = [l \in Line |-> IF l \in lost THEN nv[l] ELSE mem[l]]
    /\ header' \in headers
    /\ nv' = mem' /\ headers' = {header'}
    /\ IF ckpt.durable
       THEN ckpt' = ckpt /\ status' = "down"
       ELSE /\ \E head \in {1, ckpt.head}, last \in {0, ckpt.last} :
                   ckpt' = [ckpt EXCEPT !.head = head, !.last = last, !.durable = TRUE]
            /\ status' \in {"down", "pointer"}
    /\ torn' = (torn \/ ckpt'.head # ckpt.head \/ ckpt'.last # ckpt.last)

(* The program returns, is killed, or the power fails.                     *)
Stop(kind) ==
    /\ status = "up" /\ Len(crashes) < MaxStop
    /\ kind = "clean" => Quiet
    /\ IF kind = "power" THEN LoseCache
       ELSE status' = "down" /\ UNCHANGED <<mem, nv, header, headers, ckpt, torn>>
    /\ wpc' = [w \in Worker |-> "idle"]
    /\ slot' = [w \in Worker |-> None] /\ cid' = [w \in Worker |-> 0]
    /\ crashes' = Append(crashes, kind)
    /\ UNCHANGED <<commits, acked, object, behind>>

-----------------------------------------------------------------------------
(* Recover: queue holds lines, played those replayed, in order.            *)

(* The entry at the top of the priority queue, if it is its turn.          *)
Playable(r) ==
    {l \in r.queue : mem[l].cid = r.last + 1 /\ \A k \in r.queue : mem[k].cid >= mem[l].cid}

RECURSIVE PlayQueue(_)
PlayQueue(r) ==
    IF Playable(r) = {} THEN r
    ELSE LET l == Min(Playable(r))
         IN PlayQueue([r EXCEPT !.queue = @ \ {l}, !.last = mem[l].cid,
                                !.played = Append(@, l)])

(* Where the search for the magic of the next entry ends.                  *)
NextMagic(l) == {k \in Line : k > l /\ mem[k].magic}

(* The step past an entry adds a line to one that fills its last exactly.  *)
Advance(l) == IF mem[l].exact THEN l + 2 ELSE l + 1

Enqueue(r, l, id) == IF id > r.last THEN [r EXCEPT !.queue = @ \cup {l}] ELSE r

(* One entry after the other up to the tail. After a partial entry the     *)
(* search goes on for the next magic, and the commit id read before stays. *)
RECURSIVE Scan(_, _)
Scan(r, l) ==
    IF l >= header.tail THEN [r EXCEPT !.end = IF r.queue = {} THEN "up" ELSE "queue"]
    ELSE IF mem[l].magic THEN Scan(PlayQueue(Enqueue(r, l, mem[l].cid)), Advance(l))
    ELSE IF NextMagic(l) = {} THEN [r EXCEPT !.end = "magic"]
    ELSE LET k == Min(NextMagic(l)) IN Scan(PlayQueue(Enqueue(r, k, 0)), Advance(k))

(* The line after such an entry is skipped.                                *)
Skipping == \E l \in ckpt.head .. header.tail - 2 : mem[l].exact

(* The header survived in an older state than the entries or the snapshot. *)
HeaderBehind ==
    \/ header.tail < ckpt.head \/ header.last_commit < ckpt.last
    \/ \E l \in Line : mem[l].cid > header.last_commit

(* Savitar_log_open and Recover.                                           *)
Recover ==
    LET r == Scan([queue |-> {}, last |-> ckpt.last, played |-> <<>>, end |-> "up"], ckpt.head)
    IN
    /\ status = "down"
    /\ status' = r.end
    /\ object' = ckpt.object \o SetToSeq(ckpt.pending) \o r.played
    /\ commits' = IF r.end = "up" THEN object' ELSE commits
    /\ acked' = IF r.end = "up" THEN acked \cap Range(object') ELSE acked
    /\ behind' = (behind \/ Skipping \/ HeaderBehind)
    /\ UNCHANGED <<mem, nv, header, headers, wpc, slot, cid, ckpt, torn, crashes>>

(* Nothing more to do, or an assertion of Recover has failed.              *)
Ended ==
    /\ \/ status \notin {"up", "down"}
       \/ Quiet /\ Len(crashes) = MaxStop
    /\ UNCHANGED vars

Next ==
    \/ \E w \in Worker : Reserve(w)
    \/ \E w \in Worker : Write(w)
    \/ \E w \in Worker : Drain(w)
    \/ \E w \in Worker : PersistTail(w)
    \/ \E w \in Worker : LowerDepth(w)
    \/ \E w \in Worker : TakeCommitId(w)
    \/ \E w \in Worker : StoreCommitId(w)
    \/ \E w \in Worker : PersistCommitId(w)
    \/ TakeSnapshot
    \/ \E kind \in {"clean", "kill", "power"} : Stop(kind)
    \/ Recover
    \/ Ended

Spec == Init /\ [][Next]_vars

-----------------------------------------------------------------------------
(* The log that a recovery finds has no holes, no entry that ends at a     *)
(* line boundary before the last, and its commit ids follow the snapshot's *)
(* without gap or repetition.                                              *)
Intact ==
    LET lines == ckpt.head .. header.tail - 1
        stamped == {l \in lines : mem[l].cid > 0}
    IN
    /\ \A l \in lines : mem[l].magic
    /\ ~Skipping
    /\ {mem[l].cid : l \in stamped} = ckpt.last + 1 .. ckpt.last + Cardinality(stamped)

(* A sequence of transactions without those the snapshot caught between    *)
(* the fall of their depth and their commit id.                            *)
Settled(s) == SelectSeq(s, LAMBDA l : l \notin ckpt.pending)

(* From an intact log, whatever crashes came before, recovery gets through *)
(* and has every acknowledged transaction, and the transactions it has are *)
(* a prefix of those committed, in commit order: Recover, "log entries one *)
(* by one based on the commit order". Aside from that order are calls that *)
(* were closing when the snapshot was taken: its image has them, committed *)
(* later or not. The exceptions are a log that has been reopened with an   *)
(* old header, or with an entry skipped, and a power failure that has      *)
(* taken a word of a snapshot's tables, or the pointer to the object.      *)
RecoveredIsCommittedPrefix ==
    [][Recover /\ Intact /\ ~behind /\ ~torn =>
          /\ status' = "up"
          /\ IsPrefix(Settled(object'), Settled(commits))
          /\ acked \subseteq Range(object')]_vars

(* A transaction is in the recovered object at most once, from any log,    *)
(* holes, gaps and an old header included: it is replayed or it is in the  *)
(* snapshot, also one that was closing when the snapshot was taken. The    *)
(* exceptions are a power failure that has taken a word of a snapshot's    *)
(* tables, and what a thread does that has passed the freeze.              *)
ReplayedOnce == ~torn => IsInjective(object)

(* A program that ends cleanly each time leaves an intact log, unless an   *)
(* entry ends at a line boundary, or the last snapshot was taken while a   *)
(* worker had lowered its depth and not yet taken its commit id.           *)
CleanIsIntact ==
    /\ status = "down" /\ Range(crashes) = {"clean"}
    /\ \A l \in Line : ~mem[l].exact
    /\ ckpt.pending = {}
    => Intact

-----------------------------------------------------------------------------
(* Not true of the code. *)

(* The commit queue is empty at the end of a recovery: Recover,            *)
(* assert(commit_queue.empty()).                                           *)
QueueIsEmptied == status # "queue"

(* A recovery gets past a partial entry: Recover, "partial transaction".   *)
PartialEntriesSkipped == status # "magic"
=============================================================================
