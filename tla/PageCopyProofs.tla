--------------------------- MODULE PageCopyProofs ---------------------------
(***************************************************************************)
(* The image a snapshot takes, for any number of blocks, snapshot threads, *)
(* writers, stores and snapshots: proofs about PageCopy. They are about    *)
(* runs in which no handler of an earlier snapshot is left when one begins.*)
(***************************************************************************)
EXTENDS PageCopy, TLAPS

State == {"null", "raw", "used", "free", "locked", "saved"}
Busy == {"copy", "release", "publish"}
WState == Busy \cup {"idle", "store", "fault", "claim", "spin"}
TState == Busy \cup {"scan", "done"}

Types ==
    /\ heap \in [Block -> Int]
    /\ prot \subseteq Block
    /\ context \in [Block -> State]
    /\ copy \in [Block -> Int]
    /\ frozen \in [Block -> Int]
    /\ mark \in [b : Nat, addr : Nat, size : Nat]
    /\ tpc \in [Thread -> TState]
    /\ sp \in [Thread -> Nat]
    /\ wpc \in [Writer -> WState]
    /\ addr \in [Writer -> Block]
    /\ snaps \in Nat

(* A block of the region that markPagesReadOnly is collecting.             *)
Region(b) == spc = "mark" /\ mark.addr <= b /\ b < mark.b

(* A block waits for its copy only while it is read-only, and then holds   *)
(* what it held when it was frozen.                                        *)
BlockInv(b) ==
    /\ context[b] = "used" => b \in prot \/ Region(b)
    /\ Region(b) => context[b] = "used" /\ b \notin prot
    /\ b \in prot => context[b] \in {"used", "locked", "null"} /\ frozen[b] = heap[b]

(* A thread at the given step with block b: the handler or a snapshot      *)
(* thread.                                                                 *)
Holder(step, b) ==
    /\ step \in Busy => context[b] \in {"locked", "null"}
    /\ step \in {"copy", "release"} => b \in prot
    /\ step = "publish" => b \notin prot
    /\ step \in {"release", "publish"} => copy[b] = frozen[b]

WriterInv(w) ==
    /\ Holder(wpc[w], addr[w])
    /\ wpc[w] \in {"fault", "claim", "spin"} =>
          addr[w] \in prot \/ context[addr[w]] \in {"locked", "saved", "null"}

ThreadInv(t) == tpc[t] \in Busy => sp[t] \in Block /\ Holder(tpc[t], sp[t])

(* A block has one holder.                                                 *)
Exclusive ==
    /\ \A w, v \in Writer : w # v /\ wpc[w] \in Busy /\ wpc[v] \in Busy => addr[w] # addr[v]
    /\ \A t, u \in Thread : t # u /\ tpc[t] \in Busy /\ tpc[u] \in Busy => sp[t] # sp[u]
    /\ \A w \in Writer, t \in Thread : wpc[w] \in Busy /\ tpc[t] \in Busy => addr[w] # sp[t]

(* Before the pages are marked.                                            *)
Early == spc \in {"new", "wait", "save"}

PhaseInv ==
    /\ Early => /\ prot = {}
                /\ \A b \in Block : context[b] \in {"null", "raw"}
                /\ \A w \in Writer : wpc[w] \in {"idle", "store"}
    /\ Early \/ spc = "mark" => \A t \in Thread : tpc[t] = "done"
    /\ spc \in {"wait", "save"} => \A b \in Block : context[b] = "raw"
    /\ spc = "mark" => /\ mark.addr + mark.size = mark.b
                       /\ mark.b <= BlockCount
                       /\ \A b \in Block : b >= mark.b => context[b] = "raw"

UpInv ==
    /\ \A b \in Block : BlockInv(b)
    /\ \A w \in Writer : WriterInv(w)
    /\ \A t \in Thread : ThreadInv(t)
    /\ Exclusive
    /\ PhaseInv

SavedFrozen == \A b \in Block : context[b] = "saved" => copy[b] = frozen[b]

IInv == Types /\ SavedFrozen /\ (Up => UpInv)

(* That the snapshot comes to its end only when every used block has been  *)
(* copied: a second invariant, beside the first.                           *)

RestoredFrozen == status = "restored" /\ stamped => \A b \in bits : heap[b] = frozen[b]

(* The threads are joined and no handler copies, until the next snapshot.  *)
Late == spc \in {"clean", "delete", "none", "new"}

(* Snapshot thread t has seen block b of its share.                        *)
Passed(t, b) ==
    t * shareLength <= b /\ b < (IF tpc[t] = "done" THEN (t + 1) * shareLength ELSE sp[t])

Copyable == {"used", "locked", "saved"}

(* Used blocks stay to be copied until they are, read-only blocks are used *)
(* ones, and the snapshot threads leave no block of their shares behind.   *)
ImageUpInv ==
    /\ spc = "mark" => \A b \in bits : b < mark.b => context[b] \in Copyable
    /\ spc = "join" => \A b \in bits : context[b] \in Copyable
    /\ spc = "join" => \A t \in Thread, b \in Block : Passed(t, b) => context[b] # "used"
    /\ spc \in {"mark", "join"} => \A b \in Block : context[b] # "null"
    /\ \A b \in Block : Region(b) => b \in bits
    /\ prot \subseteq bits
    /\ spc \notin {"mark", "join"} => prot = {}
    /\ Late => /\ \A b \in Block : context[b] \notin {"used", "locked"}
               /\ \A w \in Writer : wpc[w] \notin Busy
               /\ \A t \in Thread : tpc[t] = "done"
    /\ spc \in {"delete", "none"} => \A b \in Block : context[b] = "null"
    /\ stamped => Late

ImageInv ==
    /\ used \subseteq Block /\ bits \subseteq Block
    /\ stamped => \A b \in bits : copy[b] = frozen[b]
    /\ Up => ImageUpInv
    /\ RestoredFrozen

-----------------------------------------------------------------------------
(* A product of naturals is one.                                           *)
LEMMA ShareStart == ASSUME NEW t \in Thread PROVE t * shareLength \in Nat
BY ShareAssumption DEF Thread, shareLength

(* The share of a thread lies within the blocks.                           *)
LEMMA ShareEnd == ASSUME NEW t \in Thread, NEW x \in Nat, x < (t + 1) * shareLength PROVE x \in Block
<1>1. shareLength \in Nat /\ SnapshotThreads * shareLength <= BlockCount
  BY ShareAssumption DEF shareLength
<1>2. (t + 1) * shareLength <= SnapshotThreads * shareLength
  BY <1>1, ShareAssumption DEF Thread
<1> QED
  BY <1>1, <1>2, ShareAssumption DEF Block, Thread

(* What a step of one writer, of one snapshot thread or to one block's     *)
(* state changes.                                                          *)
LEMMA MoveWriter ==
    ASSUME Types, NEW w \in Writer, NEW s \in WState, wpc' = [wpc EXCEPT ![w] = s]
    PROVE  /\ wpc' \in [Writer -> WState]
           /\ wpc'[w] = s
           /\ \A v \in Writer : v # w => wpc'[v] = wpc[v]
BY DEF Types

(* A step of one snapshot thread leaves the others where they are.         *)
LEMMA MoveThread ==
    ASSUME Types, NEW t \in Thread, NEW s \in TState, tpc' = [tpc EXCEPT ![t] = s]
    PROVE  /\ tpc' \in [Thread -> TState]
           /\ tpc'[t] = s
           /\ \A u \in Thread : u # t => tpc'[u] = tpc[u]
BY DEF Types

(* A snapshot thread that goes on to the next block of its share.          *)
LEMMA NextBlock ==
    ASSUME Types, NEW t \in Thread, sp' = [sp EXCEPT ![t] = @ + 1]
    PROVE  sp' \in [Thread -> Nat] /\ \A u \in Thread : u # t => sp'[u] = sp[u]
BY DEF Types

(* A store to one block's state.                                           *)
LEMMA SetContext ==
    ASSUME Types, NEW x \in Block, NEW s \in State, context' = [context EXCEPT ![x] = s]
    PROVE  /\ context' \in [Block -> State]
           /\ context'[x] = s
           /\ \A b \in Block : b # x => context'[b] = context[b]
BY DEF Types

(* The copy of one block into the snapshot.                                *)
LEMMA SetCopy ==
    ASSUME Types, NEW x \in Block, copy' = [copy EXCEPT ![x] = heap[x]]
    PROVE  /\ copy' \in [Block -> Int]
           /\ copy'[x] = heap[x]
           /\ \A b \in Block : b # x => copy'[b] = copy[b]
BY DEF Types

(* A step that touches no block but x.                                     *)
Touches(x) ==
    /\ UNCHANGED <<heap, frozen, spc, mark, snaps>>
    /\ \A b \in Block : b # x =>
          context'[b] = context[b] /\ copy'[b] = copy[b] /\ (b \in prot' <=> b \in prot)

(* A step that touches one block keeps the others, and whoever is at them; *)
(* those that wait for the block still may.                                *)
LEMMA OtherBlocks ==
    ASSUME UpInv, NEW x \in Block, Touches(x), BlockInv(x)'
    PROVE  \A b \in Block : BlockInv(b)'
<1> SUFFICES ASSUME NEW b \in Block, b # x PROVE BlockInv(b)'
  BY Zenon
<1>1. BlockInv(b)
  BY Zenon DEF UpInv
<1>2. Region(b)' <=> Region(b)
  BY Zenon DEF Touches, Region
<1> QED
  BY Zenon, <1>1, <1>2 DEF Touches, BlockInv

(* A step to one block keeps what holds of the writers at other blocks.    *)
LEMMA OtherWriters ==
    ASSUME Types, UpInv, NEW x \in Block, Touches(x), NEW w \in Writer, 
           wpc'[w] = wpc[w], addr' = addr, wpc[w] \in Busy => addr[w] # x,
           x \in prot' \/ context'[x] \in {"locked", "saved", "null"}
    PROVE  WriterInv(w)'
<1>1. addr[w] \in Block
  BY Zenon DEF Types
<1>2. CASE addr[w] = x
  <2>1. wpc[w] \notin {"copy", "release", "publish"}
    BY Zenon, <1>2 DEF Busy
  <2> QED
    BY Zenon, <1>2, <2>1 DEF WriterInv, Holder, Busy
<1>3. CASE addr[w] # x
  BY Zenon, <1>1, <1>3 DEF UpInv, Touches, WriterInv, Holder
<1> QED
  BY Zenon, <1>2, <1>3

(* A step to one block keeps what holds of the snapshot threads at other   *)
(* blocks.                                                                 *)
LEMMA OtherThreads ==
    ASSUME UpInv, NEW x \in Block, Touches(x), NEW t \in Thread,
           tpc'[t] = tpc[t], sp'[t] = sp[t], tpc[t] \in Busy => sp[t] # x
    PROVE  ThreadInv(t)'
<1> SUFFICES ASSUME tpc[t] \in Busy PROVE sp[t] \in Block /\ Holder(tpc[t], sp[t])'
  BY Zenon DEF ThreadInv, Holder
<1>1. sp[t] \in Block /\ Holder(tpc[t], sp[t]) /\ sp[t] # x
  BY Zenon DEF UpInv, ThreadInv
<1> QED
  BY Zenon, <1>1 DEF Touches, Holder

(* No thread begins to hold a block.                                       *)
LEMMA ExclusiveKept ==
    ASSUME UpInv,
           \A w \in Writer : wpc'[w] \in Busy => wpc[w] \in Busy /\ addr'[w] = addr[w],
           \A t \in Thread : tpc'[t] \in Busy => tpc[t] \in Busy /\ sp'[t] = sp[t]
    PROVE  Exclusive'
<1>1. ASSUME NEW w \in Writer, NEW v \in Writer, w # v, wpc'[w] \in Busy, wpc'[v] \in Busy
      PROVE  addr'[w] # addr'[v]
  BY Zenon, <1>1 DEF UpInv, Exclusive
<1>2. ASSUME NEW t \in Thread, NEW u \in Thread, t # u, tpc'[t] \in Busy, tpc'[u] \in Busy
      PROVE  sp'[t] # sp'[u]
  BY Zenon, <1>2 DEF UpInv, Exclusive
<1>3. ASSUME NEW w \in Writer, NEW t \in Thread, wpc'[w] \in Busy, tpc'[t] \in Busy
      PROVE  addr'[w] # sp'[t]
  BY Zenon, <1>3 DEF UpInv, Exclusive
<1> QED
  BY Zenon, <1>1, <1>2, <1>3 DEF Exclusive

(* The phase stays, and the blocks not yet marked stay raw.                *)
LEMMA PhaseKept ==
    ASSUME UpInv, UNCHANGED <<spc, mark, snaps>>, ~Early,
           spc = "mark" => tpc' = tpc,
           \A b \in Block : context[b] = "raw" => context'[b] = "raw"
    PROVE  PhaseInv'
BY Zenon DEF UpInv, PhaseInv, Early

(* The cases that a step of a holder has in common.                        *)
LEMMA LateWriter ==
    ASSUME UpInv, NEW w \in Writer, wpc[w] \notin {"idle", "store"}
    PROVE  ~Early
BY Zenon DEF UpInv, PhaseInv

(* Snapshot threads exist only once the pages are marked.                  *)
LEMMA LateThread ==
    ASSUME UpInv, NEW t \in Thread, tpc[t] # "done"
    PROVE  ~Early /\ spc # "mark"
BY Zenon DEF UpInv, PhaseInv

-----------------------------------------------------------------------------
(* Steps of the writers.                                                   *)

(* A writer picks the block of its next store.                             *)
LEMMA BeginStoreStep ==
    ASSUME Types, SavedFrozen, UpInv, NEW w \in Writer, NEW x \in Block, BeginStore(w, x)
    PROVE  Types' /\ SavedFrozen' /\ UpInv'
<1> USE DEF blockVars, snapVars, threadVars, writerVars
<1>1. /\ wpc' \in [Writer -> WState] /\ wpc'[w] = "store"
      /\ \A v \in Writer : v # w => wpc'[v] = wpc[v]
  BY Zenon, MoveWriter DEF BeginStore, WState
<1>2. addr' \in [Writer -> Block] /\ \A v \in Writer : v # w => addr'[v] = addr[v]
  BY DEF BeginStore, Types
<1>3. Types' /\ SavedFrozen'
  BY Zenon, <1>1, <1>2 DEF BeginStore, Types, SavedFrozen
<1>4. "store" \notin Busy /\ "store" \notin {"fault", "claim", "spin"}
  BY DEF Busy
<1>5. \A b \in Block : BlockInv(b)'
  BY Zenon DEF BeginStore, UpInv, BlockInv, Region
<1>6. \A v \in Writer : WriterInv(v)'
  <2> SUFFICES ASSUME NEW v \in Writer PROVE WriterInv(v)'
    BY Zenon
  <2>1. CASE v = w
    BY Zenon, <2>1, <1>1, <1>4 DEF WriterInv, Holder, Busy
  <2>2. CASE v # w
    BY Zenon, <2>2, <1>1, <1>2 DEF BeginStore, UpInv, WriterInv, Holder
  <2> QED
    BY Zenon, <2>1, <2>2
<1>7. \A t \in Thread : ThreadInv(t)'
  BY Zenon DEF BeginStore, UpInv, ThreadInv, Holder
<1>8. Exclusive'
  BY Zenon, <1>1, <1>2, <1>4, ExclusiveKept DEF BeginStore
<1>9. PhaseInv'
  BY Zenon, <1>1 DEF BeginStore, UpInv, PhaseInv, Early
<1> QED
  BY Zenon, <1>3, <1>5, <1>6, <1>7, <1>8, <1>9 DEF UpInv

(* The store: it leaves a read-only block alone.                           *)
LEMMA StoreStep ==
    ASSUME Types, SavedFrozen, UpInv, NEW w \in Writer, Store(w)
    PROVE  Types' /\ SavedFrozen' /\ UpInv'
<1> USE DEF blockVars, snapVars, threadVars, writerVars
<1>1. PICK s \in {"idle", "fault"} : /\ wpc' = [wpc EXCEPT ![w] = s]
                                     /\ s = "fault" => addr[w] \in prot
  BY Zenon DEF Store
<1>2. /\ wpc' \in [Writer -> WState] /\ wpc'[w] = s
      /\ \A v \in Writer : v # w => wpc'[v] = wpc[v]
  BY Zenon, <1>1, MoveWriter DEF WState
<1>3. heap' \in [Block -> Int] /\ \A b \in Block : b \in prot => heap'[b] = heap[b]
  BY DEF Store, Types
<1>4. Types' /\ SavedFrozen'
  BY Zenon, <1>2, <1>3 DEF Store, Types, SavedFrozen
<1>5. s \notin Busy /\ s \notin {"claim", "spin"}
  BY <1>1 DEF Busy
<1>6. \A b \in Block : BlockInv(b)'
  BY Zenon, <1>3 DEF Store, UpInv, BlockInv, Region
<1>7. \A v \in Writer : WriterInv(v)'
  <2> SUFFICES ASSUME NEW v \in Writer PROVE WriterInv(v)'
    BY Zenon
  <2>1. CASE v = w
    BY Zenon, <2>1, <1>1, <1>2, <1>5 DEF Store, WriterInv, Holder, Busy
  <2>2. CASE v # w
    BY Zenon, <2>2, <1>2 DEF Store, UpInv, WriterInv, Holder
  <2> QED
    BY Zenon, <2>1, <2>2
<1>8. \A t \in Thread : ThreadInv(t)'
  BY Zenon DEF Store, UpInv, ThreadInv, Holder
<1>9. Exclusive'
  BY Zenon, <1>2, <1>5, ExclusiveKept DEF Store
<1>10. PhaseInv'
  <2>1. Early => s = "idle"
    BY Zenon, <1>1 DEF UpInv, PhaseInv
  <2> QED
    BY Zenon, <2>1, <1>2 DEF Store, UpInv, PhaseInv, Early
<1> QED
  BY Zenon, <1>4, <1>6, <1>7, <1>8, <1>9, <1>10 DEF UpInv

(* A writer that waits moves without touching a block.                     *)
LEMMA WaiterMoves ==
    ASSUME Types, SavedFrozen, UpInv, NEW w \in Writer, NEW s \in {"claim", "spin", "store"},
           wpc[w] \in {"fault", "claim", "spin"}, wpc' = [wpc EXCEPT ![w] = s],
           UNCHANGED <<blockVars, snapVars, context, copy, threadVars, addr>>
    PROVE  Types' /\ SavedFrozen' /\ UpInv'
<1> USE DEF blockVars, snapVars, threadVars
<1>1. /\ wpc' \in [Writer -> WState] /\ wpc'[w] = s
      /\ \A v \in Writer : v # w => wpc'[v] = wpc[v]
  BY Zenon, MoveWriter DEF WState
<1>2. Types' /\ SavedFrozen'
  BY Zenon, <1>1 DEF Types, SavedFrozen
<1>3. s \notin Busy /\ wpc[w] \notin {"idle", "store"}
  BY DEF Busy
<1>4. \A b \in Block : BlockInv(b)'
  BY Zenon DEF UpInv, BlockInv, Region
<1>5. \A v \in Writer : WriterInv(v)'
  <2> SUFFICES ASSUME NEW v \in Writer PROVE WriterInv(v)'
    BY Zenon
  <2>1. CASE v = w
    BY Zenon, <2>1, <1>1, <1>3 DEF UpInv, WriterInv, Holder, Busy
  <2>2. CASE v # w
    BY Zenon, <2>2, <1>1 DEF UpInv, WriterInv, Holder
  <2> QED
    BY Zenon, <2>1, <2>2
<1>6. \A t \in Thread : ThreadInv(t)'
  BY Zenon DEF UpInv, ThreadInv, Holder
<1>7. Exclusive'
  BY Zenon, <1>1, <1>3, ExclusiveKept
<1>8. PhaseInv'
  BY Zenon, <1>3, LateWriter, PhaseKept
<1> QED
  BY Zenon, <1>2, <1>4, <1>5, <1>6, <1>7, <1>8 DEF UpInv

(* A writer that takes, copies, releases or publishes its block.           *)
LEMMA WriterHolds ==
    ASSUME Types, SavedFrozen, UpInv, NEW w \in Writer, NEW s \in WState,
           wpc[w] \in Busy \/ (wpc[w] = "claim" /\ context[addr[w]] = "used"),
           wpc' = [wpc EXCEPT ![w] = s], s = "store" \/ s \in Busy, Touches(addr[w]),
           UNCHANGED <<threadVars, addr>>,
           prot' \subseteq prot, context' \in [Block -> State], copy' \in [Block -> Int],
           context[addr[w]] = "raw" => context'[addr[w]] = "raw",
           BlockInv(addr[w])', Holder(s, addr[w])',
           context'[addr[w]] \in {"locked", "saved", "null"},
           context'[addr[w]] = "saved" => copy'[addr[w]] = frozen'[addr[w]]
    PROVE  Types' /\ SavedFrozen' /\ UpInv'
<1> USE DEF threadVars
<1>1. /\ wpc' \in [Writer -> WState] /\ wpc'[w] = s
      /\ \A v \in Writer : v # w => wpc'[v] = wpc[v]
  BY Zenon, MoveWriter
<1>2. addr[w] \in Block
  BY Zenon DEF Types
<1>3. Types'
  BY Zenon, <1>1 DEF Types, Touches
<1>4. SavedFrozen'
  BY Zenon, <1>2 DEF SavedFrozen, Touches
<1>5. \A b \in Block : BlockInv(b)'
  BY Zenon, <1>2, OtherBlocks
<1>6. \A v \in Writer : v # w /\ wpc[v] \in Busy => addr[v] # addr[w]
  BY DEF UpInv, Exclusive, WriterInv, Holder
<1>7. \A t \in Thread : tpc[t] \in Busy => sp[t] # addr[w]
  BY DEF UpInv, Exclusive, ThreadInv, Holder
<1>8. \A v \in Writer : WriterInv(v)'
  <2> SUFFICES ASSUME NEW v \in Writer PROVE WriterInv(v)'
    BY Zenon
  <2>1. CASE v = w
    <3>1. s \notin {"fault", "claim", "spin"}
      BY DEF Busy
    <3> QED
      BY Zenon, <3>1, <2>1, <1>1 DEF WriterInv, Holder
  <2>2. CASE v # w
    BY Zenon, <2>2, <1>1, <1>2, <1>6, OtherWriters
  <2> QED
    BY Zenon, <2>1, <2>2
<1>9. \A t \in Thread : ThreadInv(t)'
  BY Zenon, <1>2, <1>7, OtherThreads
<1>10. Exclusive'
  <2>1. \A v, u \in Writer : v # u /\ wpc'[v] \in Busy /\ wpc'[u] \in Busy => addr[v] # addr[u]
    BY Zenon, <1>1, <1>6 DEF UpInv, Exclusive
  <2>2. \A v \in Writer, t \in Thread : wpc'[v] \in Busy /\ tpc[t] \in Busy => addr[v] # sp[t]
    BY Zenon, <1>1, <1>7 DEF UpInv, Exclusive
  <2> QED
    BY Zenon, <2>1, <2>2 DEF UpInv, Exclusive
<1>11. PhaseInv'
  <2>1. ~Early
    BY LateWriter DEF Busy
  <2> QED
    BY Zenon, <2>1, <1>2, PhaseKept DEF Touches
<1> QED
  BY Zenon, <1>3, <1>4, <1>5, <1>8, <1>9, <1>10, <1>11 DEF UpInv

(* The fault handler, step by step.                                        *)
LEMMA HandlerStep ==
    ASSUME Types, SavedFrozen, UpInv, NEW w \in Writer,
           \/ SignalHandler(w) \/ FaultClaim(w) \/ FaultSpin(w)
           \/ FaultCopy(w) \/ FaultRelease(w) \/ FaultPublish(w)
    PROVE  IInv'
<1> USE DEF blockVars, snapVars, threadVars, writerVars
<1>1. addr[w] \in Block /\ BlockInv(addr[w]) /\ WriterInv(w)
  BY Zenon DEF Types, UpInv
<1>2. ASSUME UNCHANGED <<blockVars, snapVars, context, copy, threadVars, wpc, addr>>, ~Up'
      PROVE  IInv'
  BY Zenon, <1>2 DEF IInv, Types, SavedFrozen
<1>3. CASE SignalHandler(w)
  BY Zenon, <1>2, <1>3, WaiterMoves DEF SignalHandler, IInv, Up
<1>4. CASE FaultClaim(w) /\ context[addr[w]] # "used"
  BY Zenon, <1>2, <1>4, WaiterMoves DEF FaultClaim, IInv, Up
<1>5. CASE FaultSpin(w)
  BY Zenon, <1>2, <1>5, WaiterMoves DEF FaultSpin, IInv, Up
<1>6. CASE FaultClaim(w) /\ context[addr[w]] = "used"
  <2>1. wpc' = [wpc EXCEPT ![w] = "copy"] /\ context' = [context EXCEPT ![addr[w]] = "locked"]
    BY <1>6 DEF FaultClaim
  <2>2. /\ context' \in [Block -> State] /\ context'[addr[w]] = "locked"
        /\ \A b \in Block : b # addr[w] => context'[b] = context[b]
    BY Zenon, <2>1, <1>1, SetContext DEF State
  <2>3. addr[w] \in prot /\ ~Region(addr[w])
    BY <1>1, <1>6 DEF FaultClaim, WriterInv, BlockInv
  <2>4. BlockInv(addr[w])'
    BY Zenon, <2>2, <2>3, <1>1, <1>6 DEF FaultClaim, BlockInv, Region
  <2>5. Holder("copy", addr[w])'
    BY <2>2, <2>3, <1>6 DEF FaultClaim, Holder
  <2>6. Touches(addr[w])
    BY Zenon, <2>2, <1>6 DEF FaultClaim, Touches
  <2> QED
    BY Zenon, <2>1, <2>2, <2>4, <2>5, <2>6, <1>6, WriterHolds
    DEF FaultClaim, IInv, WState, Busy, Types
<1>7. CASE FaultCopy(w)
  <2>1. /\ copy' \in [Block -> Int] /\ copy'[addr[w]] = heap[addr[w]]
        /\ \A b \in Block : b # addr[w] => copy'[b] = copy[b]
    BY Zenon, <1>1, <1>7, SetCopy DEF FaultCopy
  <2>2. /\ addr[w] \in prot /\ context[addr[w]] \in {"locked", "null"}
        /\ frozen[addr[w]] = heap[addr[w]]
    BY Zenon, <1>1, <1>7 DEF FaultCopy, WriterInv, Holder, BlockInv, Busy
  <2>3. BlockInv(addr[w])'
    BY Zenon, <1>1, <1>7 DEF FaultCopy, BlockInv, Region
  <2>4. Holder("release", addr[w])'
    BY <2>1, <2>2, <1>7 DEF FaultCopy, Holder
  <2>5. Touches(addr[w])
    BY Zenon, <2>1, <1>7 DEF FaultCopy, Touches
  <2> QED
    BY Zenon, <2>1, <2>2, <2>3, <2>4, <2>5, <1>7, WriterHolds
    DEF FaultCopy, IInv, WState, Busy, Types
<1>8. CASE FaultRelease(w)
  <2>1. /\ addr[w] \in prot /\ context[addr[w]] \in {"locked", "null"}
        /\ copy[addr[w]] = frozen[addr[w]]
    BY Zenon, <1>1, <1>8 DEF FaultRelease, WriterInv, Holder, Busy
  <2>2. addr[w] \notin prot' /\ prot' \subseteq prot
        /\ \A b \in Block : b # addr[w] => (b \in prot' <=> b \in prot)
    BY Zenon, <1>8 DEF FaultRelease
  <2>3. ~Region(addr[w])
    BY <2>1, <1>1 DEF BlockInv
  <2>4. BlockInv(addr[w])'
    BY <2>1, <2>2, <2>3, <1>8 DEF FaultRelease, BlockInv, Region
  <2>5. Holder("publish", addr[w])'
    BY <2>1, <2>2, <1>8 DEF FaultRelease, Holder
  <2>6. Touches(addr[w])
    BY Zenon, <2>2, <1>8 DEF FaultRelease, Touches
  <2> QED
    BY Zenon, <2>1, <2>2, <2>4, <2>5, <2>6, <1>8, WriterHolds
    DEF FaultRelease, IInv, WState, Busy, Types
<1>9. CASE FaultPublish(w)
  <2>1. /\ addr[w] \notin prot /\ context[addr[w]] \in {"locked", "null"}
        /\ copy[addr[w]] = frozen[addr[w]]
    BY Zenon, <1>1, <1>9 DEF FaultPublish, WriterInv, Holder, Busy
  <2>2. /\ context' \in [Block -> State] /\ context'[addr[w]] = "saved"
        /\ \A b \in Block : b # addr[w] => context'[b] = context[b]
    BY Zenon, <1>1, <1>9, SetContext DEF FaultPublish, State
  <2>3. ~Region(addr[w]) /\ context[addr[w]] # "raw"
    BY <2>1, <1>1 DEF BlockInv
  <2>4. BlockInv(addr[w])'
    BY <2>1, <2>2, <2>3, <1>9 DEF FaultPublish, BlockInv, Region
  <2>5. Holder("store", addr[w])'
    BY DEF Holder, Busy
  <2>6. Touches(addr[w])
    BY Zenon, <2>2, <1>9 DEF FaultPublish, Touches
  <2> QED
    BY Zenon, <2>1, <2>2, <2>3, <2>4, <2>5, <2>6, <1>9, WriterHolds
    DEF FaultPublish, IInv, WState, Busy, Types
<1> QED
  BY Zenon, <1>3, <1>4, <1>5, <1>6, <1>7, <1>8, <1>9

-----------------------------------------------------------------------------
(* Steps of the snapshot threads.                                          *)

(* A snapshot thread that takes, copies, releases or publishes its block.  *)
LEMMA ThreadHolds ==
    ASSUME Types, SavedFrozen, UpInv, NEW t \in Thread, NEW s \in TState, NEW x \in Block, sp[t] = x,
           tpc[t] \in Busy \/ (tpc[t] = "scan" /\ context[x] = "used"),
           tpc' = [tpc EXCEPT ![t] = s], Touches(x),
           UNCHANGED <<wpc, addr>>, sp' \in [Thread -> Nat],
           \A u \in Thread : u # t \/ s \in Busy => sp'[u] = sp[u],
           prot' \subseteq prot, context' \in [Block -> State], copy' \in [Block -> Int],
           context[x] # "raw",
           BlockInv(x)', s \in Busy => Holder(s, x)',
           context'[x] \in {"locked", "saved", "null"},
           context'[x] = "saved" => copy'[x] = frozen'[x]
    PROVE  Types' /\ SavedFrozen' /\ UpInv'
<1>1. /\ tpc' \in [Thread -> TState] /\ tpc'[t] = s
      /\ \A u \in Thread : u # t => tpc'[u] = tpc[u]
  BY Zenon, MoveThread
<1>3. Types'
  BY Zenon, <1>1 DEF Types, Touches
<1>4. SavedFrozen'
  BY Zenon DEF SavedFrozen, Touches
<1>5. \A b \in Block : BlockInv(b)'
  BY Zenon, OtherBlocks
<1>6. \A u \in Thread : u # t /\ tpc[u] \in Busy => sp[u] # x
  BY DEF UpInv, Exclusive, ThreadInv, Holder
<1>7. \A w \in Writer : wpc[w] \in Busy => addr[w] # x
  BY DEF UpInv, Exclusive, WriterInv, Holder
<1>8. \A u \in Thread : ThreadInv(u)'
  <2> SUFFICES ASSUME NEW u \in Thread PROVE ThreadInv(u)'
    BY Zenon
  <2>1. CASE u = t
    BY Zenon, <2>1, <1>1 DEF ThreadInv, Holder
  <2>2. CASE u # t
    BY Zenon, <2>2, <1>1, <1>6, OtherThreads
  <2> QED
    BY Zenon, <2>1, <2>2
<1>9. \A w \in Writer : WriterInv(w)'
  BY Zenon, <1>7, OtherWriters
<1>10. Exclusive'
  <2>0. tpc'[t] \in Busy => sp'[t] = x
    BY Zenon, <1>1
  <2>1. \A u, v \in Thread : u # v /\ tpc'[u] \in Busy /\ tpc'[v] \in Busy => sp'[u] # sp'[v]
    <3> SUFFICES ASSUME NEW u \in Thread, NEW v \in Thread, u # v, tpc'[u] \in Busy, tpc'[v] \in Busy
                 PROVE  sp'[u] # sp'[v]
      BY Zenon
    <3>1. CASE u # t /\ v # t
      <4>1. tpc[u] \in Busy /\ tpc[v] \in Busy /\ sp'[u] = sp[u] /\ sp'[v] = sp[v]
        BY Zenon, <3>1, <1>1
      <4> QED
        BY Zenon, <4>1 DEF UpInv, Exclusive
    <3>2. CASE u = t
      BY Zenon, <3>2, <2>0, <1>1, <1>6
    <3>3. CASE v = t
      BY Zenon, <3>3, <2>0, <1>1, <1>6
    <3> QED
      BY Zenon, <3>1, <3>2, <3>3
  <2>2. \A w \in Writer, u \in Thread : wpc[w] \in Busy /\ tpc'[u] \in Busy => addr[w] # sp'[u]
    <3> SUFFICES ASSUME NEW w \in Writer, NEW u \in Thread, wpc[w] \in Busy, tpc'[u] \in Busy
                 PROVE  addr[w] # sp'[u]
      BY Zenon
    <3>1. CASE u = t
      BY Zenon, <3>1, <2>0, <1>7
    <3>2. CASE u # t
      <4>1. tpc[u] \in Busy /\ sp'[u] = sp[u]
        BY Zenon, <3>2, <1>1
      <4> QED
        BY Zenon, <4>1 DEF UpInv, Exclusive
    <3> QED
      BY Zenon, <3>1, <3>2
  <2> QED
    BY Zenon, <2>1, <2>2 DEF UpInv, Exclusive
<1>11. PhaseInv'
  <2>1. ~Early /\ spc # "mark"
    BY LateThread DEF Busy
  <2> QED
    BY Zenon, <2>1, PhaseKept DEF Touches
<1> QED
  BY Zenon, <1>3, <1>4, <1>5, <1>8, <1>9, <1>10, <1>11 DEF UpInv

(* A snapshot thread that skips a block or ends.                           *)
LEMMA ThreadSkips ==
    ASSUME Types, SavedFrozen, UpInv, NEW t \in Thread, NEW s \in {"scan", "done"},
           tpc[t] = "scan", tpc' = [tpc EXCEPT ![t] = s],
           UNCHANGED <<blockVars, snapVars, context, copy, wpc, addr>>,
           sp' \in [Thread -> Nat], \A u \in Thread : u # t => sp'[u] = sp[u]
    PROVE  Types' /\ SavedFrozen' /\ UpInv'
<1> USE DEF blockVars, snapVars
<1>1. /\ tpc' \in [Thread -> TState] /\ tpc'[t] = s
      /\ \A u \in Thread : u # t => tpc'[u] = tpc[u]
  BY Zenon, MoveThread DEF TState
<1>2. Types' /\ SavedFrozen'
  BY Zenon, <1>1 DEF Types, SavedFrozen
<1>3. s \notin Busy
  BY DEF Busy
<1>4. \A b \in Block : BlockInv(b)'
  BY Zenon DEF UpInv, BlockInv, Region
<1>5. \A w \in Writer : WriterInv(w)'
  BY Zenon DEF UpInv, WriterInv, Holder
<1>6. ASSUME NEW u \in Thread PROVE ThreadInv(u)'
  <2>1. CASE u = t
    BY Zenon, <2>1, <1>1, <1>3 DEF ThreadInv
  <2>2. CASE u # t
    <3>1. ThreadInv(u) /\ tpc'[u] = tpc[u] /\ sp'[u] = sp[u]
      BY Zenon, <2>2, <1>1 DEF UpInv
    <3> QED
      BY Zenon, <3>1 DEF ThreadInv, Holder
  <2> QED
    BY Zenon, <2>1, <2>2
<1>7. Exclusive'
  BY Zenon, <1>1, <1>3, ExclusiveKept
<1>8. PhaseInv'
  BY LateThread, PhaseKept
<1> QED
  BY Zenon, <1>2, <1>4, <1>5, <1>6, <1>7, <1>8 DEF UpInv

(* snapshotWorker, step by step.                                           *)
LEMMA WorkerStep ==
    ASSUME Types, SavedFrozen, UpInv, NEW t \in Thread, ThreadStep(t)
    PROVE  Types' /\ SavedFrozen' /\ UpInv'
<1> USE DEF blockVars, snapVars, threadVars, writerVars
<1>0. sp \in [Thread -> Nat] /\ ThreadInv(t) /\ tpc = [tpc EXCEPT ![t] = tpc[t]]
  BY DEF Types, UpInv
<1>1. CASE WorkerReturn(t)
  BY Zenon, <1>0, <1>1, ThreadSkips DEF WorkerReturn
<1>2. CASE WorkerClaim(t) /\ context[sp[t]] # "used"
  <2>1. sp' \in [Thread -> Nat] /\ \A u \in Thread : u # t => sp'[u] = sp[u]
    BY Zenon, <1>2, NextBlock DEF WorkerClaim
  <2>2. tpc' = [tpc EXCEPT ![t] = "scan"] /\ tpc[t] = "scan"
    BY Zenon, <1>0, <1>2 DEF WorkerClaim
  <2> QED
    BY Zenon, <2>1, <2>2, <1>2, ThreadSkips DEF WorkerClaim
<1>3. CASE WorkerClaim(t) /\ context[sp[t]] = "used"
  <2>1. PICK x : x = sp[t]
    OBVIOUS
  <2>2. x \in Block /\ tpc' = [tpc EXCEPT ![t] = "copy"] /\ sp' = sp
    BY <2>1, <1>0, <1>3, ShareEnd DEF WorkerClaim
  <2>3. /\ context' \in [Block -> State] /\ context'[x] = "locked"
        /\ \A b \in Block : b # x => context'[b] = context[b]
    BY Zenon, <2>1, <2>2, <1>3, SetContext DEF WorkerClaim, State
  <2>4. x \in prot /\ ~Region(x) /\ BlockInv(x)
    <3>1. BlockInv(x) /\ spc # "mark"
      BY <2>2, <1>3, LateThread DEF WorkerClaim, UpInv
    <3> QED
      BY Zenon, <3>1, <2>1, <1>3 DEF BlockInv, Region
  <2>5. BlockInv(x)'
    BY Zenon, <2>3, <2>4, <1>3 DEF WorkerClaim, BlockInv, Region
  <2>6. Holder("copy", x)'
    BY <2>3, <2>4, <1>3 DEF WorkerClaim, Holder
  <2>7. Touches(x)
    BY Zenon, <2>3, <1>3 DEF WorkerClaim, Touches
  <2>8. context[x] = "used" /\ "used" # "raw" /\ "locked" # "saved"
    BY <2>1, <1>3
  <2> QED
    BY Zenon, <2>1, <2>2, <2>3, <2>5, <2>6, <2>7, <2>8, <1>0, <1>3, ThreadHolds
    DEF WorkerClaim, TState, Busy, Types
<1>4. CASE WorkerCopy(t)
  <2>1. PICK x : x = sp[t]
    OBVIOUS
  <2>2. x \in Block /\ Holder("copy", x) /\ BlockInv(x)
    BY Zenon, <2>1, <1>0, <1>4 DEF WorkerCopy, ThreadInv, Busy, UpInv
  <2>3. /\ copy' \in [Block -> Int] /\ copy'[x] = heap[x]
        /\ \A b \in Block : b # x => copy'[b] = copy[b]
    BY Zenon, <2>1, <2>2, <1>4, SetCopy DEF WorkerCopy
  <2>4. x \in prot /\ context[x] \in {"locked", "null"} /\ frozen[x] = heap[x]
    BY Zenon, <2>2 DEF Holder, BlockInv, Busy
  <2>5. BlockInv(x)'
    BY Zenon, <2>2, <1>4 DEF WorkerCopy, BlockInv, Region
  <2>6. Holder("release", x)'
    BY <2>3, <2>4, <1>4 DEF WorkerCopy, Holder
  <2>7. Touches(x)
    BY Zenon, <2>3, <1>4 DEF WorkerCopy, Touches
  <2> QED
    BY Zenon, <2>1, <2>2, <2>3, <2>4, <2>5, <2>6, <2>7, <1>0, <1>4, ThreadHolds
    DEF WorkerCopy, TState, Busy, Types
<1>5. CASE WorkerRelease(t)
  <2>1. PICK x : x = sp[t]
    OBVIOUS
  <2>2. x \in Block /\ Holder("release", x) /\ BlockInv(x)
    BY Zenon, <2>1, <1>0, <1>5 DEF WorkerRelease, ThreadInv, Busy, UpInv
  <2>3. /\ x \notin prot' /\ prot' \subseteq prot
        /\ \A b \in Block : b # x => (b \in prot' <=> b \in prot)
    BY Zenon, <2>1, <1>5 DEF WorkerRelease
  <2>4. x \in prot /\ context[x] \in {"locked", "null"} /\ copy[x] = frozen[x] /\ ~Region(x)
    BY <2>2 DEF Holder, BlockInv, Busy
  <2>5. BlockInv(x)'
    BY <2>3, <2>4, <1>5 DEF WorkerRelease, BlockInv, Region
  <2>6. Holder("publish", x)'
    BY <2>3, <2>4, <1>5 DEF WorkerRelease, Holder
  <2>7. Touches(x)
    BY Zenon, <2>3, <1>5 DEF WorkerRelease, Touches
  <2> QED
    BY Zenon, <2>1, <2>2, <2>3, <2>4, <2>5, <2>6, <2>7, <1>0, <1>5, ThreadHolds
    DEF WorkerRelease, TState, Busy, Types
<1>6. CASE WorkerPublish(t)
  <2>1. PICK x : x = sp[t]
    OBVIOUS
  <2>2. x \in Block /\ Holder("publish", x) /\ BlockInv(x)
    BY Zenon, <2>1, <1>0, <1>6 DEF WorkerPublish, ThreadInv, Busy, UpInv
  <2>3. /\ context' \in [Block -> State] /\ context'[x] = "saved"
        /\ \A b \in Block : b # x => context'[b] = context[b]
    BY Zenon, <2>1, <2>2, <1>6, SetContext DEF WorkerPublish, State
  <2>4. x \notin prot /\ context[x] \in {"locked", "null"} /\ copy[x] = frozen[x] /\ ~Region(x)
    BY <2>2 DEF Holder, BlockInv, Busy
  <2>5. BlockInv(x)'
    BY <2>3, <2>4, <1>6 DEF WorkerPublish, BlockInv, Region
  <2>6. sp' \in [Thread -> Nat] /\ \A u \in Thread : u # t => sp'[u] = sp[u]
    BY Zenon, <1>6, NextBlock DEF WorkerPublish
  <2>7. Touches(x) /\ "scan" \notin Busy /\ context[x] # "raw"
    BY <2>3, <2>4, <1>6 DEF WorkerPublish, Touches, Busy
  <2> QED
    BY Zenon, <2>1, <2>2, <2>3, <2>4, <2>5, <2>6, <2>7, <1>0, <1>6, ThreadHolds
    DEF WorkerPublish, TState, Busy, Types
<1> QED
  BY Zenon, <1>1, <1>2, <1>3, <1>4, <1>5, <1>6 DEF ThreadStep

-----------------------------------------------------------------------------
(* Steps of the snapshot.                                                  *)

(* Up to markPagesReadOnly no page is protected and nobody is at a block.  *)
LEMMA EarlySteps ==
    ASSUME Types, SavedFrozen, UpInv, ImageUpInv, ~overlap',
           StartSnapshot \/ PrepareSnapshot \/ WaitForRunningTransactions \/ SaveBitmap
    PROVE  Types' /\ SavedFrozen' /\ UpInv'
<1> USE DEF blockVars, snapVars, threadVars, writerVars
<1>1. /\ snaps' \in Nat
      /\ spc' \in {"new", "wait", "save", "mark"}
      /\ prot' = prot /\ heap' = heap /\ tpc' = tpc /\ wpc' = wpc /\ sp' = sp /\ addr' = addr
  BY DEF StartSnapshot, PrepareSnapshot, WaitForRunningTransactions, SaveBitmap, Types
<1>2. /\ prot = {}
      /\ \A b \in Block : context[b] \in {"null", "raw"}
      /\ \A w \in Writer : wpc[w] \in {"idle", "store"}
      /\ \A t \in Thread : tpc[t] = "done"
  <2>1. CASE StartSnapshot
    BY <2>1 DEF StartSnapshot, ImageUpInv, Late
  <2>2. CASE PrepareSnapshot \/ WaitForRunningTransactions \/ SaveBitmap
    <3>1. Early
      BY <2>2 DEF PrepareSnapshot, WaitForRunningTransactions, SaveBitmap, Early
    <3> QED
      BY Zenon, <3>1 DEF UpInv, PhaseInv
  <2> QED
    BY Zenon, <2>1, <2>2
<1>3. /\ \A b \in Block : context'[b] \in {"null", "raw"}
      /\ spc' \in {"wait", "save", "mark"} => \A b \in Block : context'[b] = "raw"
  BY Zenon, <1>2 DEF StartSnapshot, PrepareSnapshot, WaitForRunningTransactions, SaveBitmap,
                     UpInv, PhaseInv
<1>4. spc' = "mark" => mark' = [b |-> 0, addr |-> 0, size |-> 0]
  BY DEF StartSnapshot, PrepareSnapshot, WaitForRunningTransactions, SaveBitmap
<1>5. Types'
  <2>1. context' \in [Block -> State] /\ copy' \in [Block -> Int] /\ frozen' \in [Block -> Int]
    BY DEF StartSnapshot, PrepareSnapshot, WaitForRunningTransactions, SaveBitmap, Types, State,
           Lost
  <2>2. mark' \in [b : Nat, addr : Nat, size : Nat]
    BY DEF StartSnapshot, PrepareSnapshot, WaitForRunningTransactions, SaveBitmap, Types
  <2> QED
    BY Zenon, <2>1, <2>2, <1>1 DEF Types
<1>6. SavedFrozen'
  BY <1>3 DEF SavedFrozen
<1>7. \A b \in Block : ~Region(b)'
  BY <1>4 DEF Region, Block
<1>8. \A b \in Block : BlockInv(b)'
  BY <1>1, <1>2, <1>3, <1>7 DEF BlockInv
<1>9. \A w \in Writer : WriterInv(w)'
  BY <1>1, <1>2 DEF WriterInv, Holder, Busy
<1>10. (\A t \in Thread : ThreadInv(t)') /\ Exclusive'
  BY <1>1, <1>2 DEF ThreadInv, Exclusive, Busy
<1>11. PhaseInv'
  BY <1>1, <1>2, <1>3, <1>4, ShareAssumption DEF PhaseInv
<1> QED
  BY Zenon, <1>5, <1>6, <1>8, <1>9, <1>10, <1>11 DEF UpInv

(* What mprotect does to the region collected.                             *)
LEMMA Protected ==
    ASSUME Types, UpInv, spc = "mark", ProtectRegion
    PROVE  /\ prot' \subseteq Block
           /\ \A b \in Block : b \in prot' <=> (b \in prot \/ Region(b))
           /\ frozen' \in [Block -> Int]
           /\ \A b \in Block : frozen'[b] = IF Region(b) THEN heap[b] ELSE frozen[b]
<1>1. /\ mark.addr \in Nat /\ mark.size \in Nat /\ mark.b \in Nat
      /\ mark.addr + mark.size = mark.b /\ mark.b <= BlockCount
  BY DEF Types, UpInv, PhaseInv
<1>2. mark.addr .. mark.addr + mark.size - 1 \subseteq Block
  BY <1>1, ShareAssumption DEF Block
<1>3. \A b \in Block : b \in mark.addr .. mark.addr + mark.size - 1 <=> Region(b)
  BY <1>1, ShareAssumption DEF Block, Region
<1>4. prot' \subseteq Block /\ \A b \in Block : b \in prot' <=> (b \in prot \/ Region(b))
  BY Zenon, <1>2, <1>3 DEF ProtectRegion, Types
<1>5. frozen' = [b \in Block |-> IF Region(b) THEN heap[b] ELSE frozen[b]]
  BY Zenon, <1>3 DEF ProtectRegion
<1> QED
  BY Zenon, <1>4, <1>5 DEF Types

(* Protecting the region keeps the blocks' states, the images copied and   *)
(* whoever is at a block: nobody is at one of the region.                  *)
LEMMA ProtectKeeps ==
    ASSUME Types, SavedFrozen, UpInv, spc = "mark", ProtectRegion,
           \A b \in Block : context[b] # "raw" => context'[b] = context[b],
           UNCHANGED <<heap, copy, wpc, addr>>, \A b \in Block : context[b] = "raw" =>
               context'[b] \in {"raw", "free"},
           \A b \in Block : ~Region(b)'
    PROVE  /\ SavedFrozen'
           /\ \A b \in Block : BlockInv(b)'
           /\ \A w \in Writer : WriterInv(w)'
<1>1. /\ \A b \in Block : b \in prot' <=> (b \in prot \/ Region(b))
      /\ \A b \in Block : frozen'[b] = IF Region(b) THEN heap[b] ELSE frozen[b]
  BY Zenon, Protected
<1>2. \A b \in Block : BlockInv(b)
  BY Zenon DEF UpInv
<1>3. SavedFrozen'
  <2> SUFFICES ASSUME NEW b \in Block, context'[b] = "saved" PROVE copy'[b] = frozen'[b]
    BY Zenon DEF SavedFrozen
  <2>1. context[b] = "saved"
    OBVIOUS
  <2>2. ~Region(b)
    BY <2>1, <1>2 DEF BlockInv
  <2> QED
    BY Zenon, <2>1, <2>2, <1>1 DEF SavedFrozen
<1>4. \A b \in Block : BlockInv(b)'
  <2> SUFFICES ASSUME NEW b \in Block PROVE BlockInv(b)'
    BY Zenon
  <2>1. context'[b] = "used" => b \in prot'
    BY <1>1, <1>2 DEF BlockInv
  <2>2. b \in prot' => context'[b] \in {"used", "locked", "null"} /\ frozen'[b] = heap'[b]
    BY <1>1, <1>2 DEF BlockInv
  <2> QED
    BY Zenon, <2>1, <2>2 DEF BlockInv
<1>5. ASSUME NEW w \in Writer PROVE WriterInv(w)'
  <2>1. WriterInv(w) /\ BlockInv(addr[w]) /\ addr[w] \in Block
    BY Zenon, <1>2 DEF UpInv, Types
  <2>2. Holder(wpc[w], addr[w])'
    <3> SUFFICES ASSUME wpc[w] \in Busy PROVE Holder(wpc[w], addr[w])'
      BY DEF Holder, Busy
    <3>1. context[addr[w]] \in {"locked", "null"} /\ Holder(wpc[w], addr[w])
      BY Zenon, <2>1 DEF WriterInv, Holder
    <3>2. ~Region(addr[w]) /\ context'[addr[w]] = context[addr[w]]
      BY <3>1, <2>1 DEF BlockInv
    <3>3. frozen'[addr[w]] = frozen[addr[w]] /\ (addr[w] \in prot' <=> addr[w] \in prot)
      BY Zenon, <3>2, <2>1, <1>1
    <3> QED
      BY Zenon, <3>1, <3>2, <3>3 DEF Holder
  <2>3. wpc[w] \in {"fault", "claim", "spin"} =>
            addr[w] \in prot' \/ context'[addr[w]] \in {"locked", "saved", "null"}
    BY <2>1, <1>1 DEF WriterInv
  <2> QED
    BY Zenon, <2>2, <2>3 DEF WriterInv
<1> QED
  BY Zenon, <1>3, <1>4, <1>5

(* markPagesReadOnly at a used block: the region grows by it.              *)
LEMMA MarkUsed ==
    ASSUME Types, SavedFrozen, UpInv, MarkBlock, mark.b \in bits
    PROVE  Types' /\ SavedFrozen' /\ UpInv'
<1> USE DEF threadVars, writerVars
<1>1. PICK m \in Block : m = mark.b
  BY ShareAssumption DEF MarkBlock, Types, Block
<1>2. /\ context' = [context EXCEPT ![m] = "used"]
      /\ mark' = [mark EXCEPT !.b = @ + 1, !.size = @ + 1]
      /\ spc = "mark" /\ mark.b < BlockCount
      /\ UNCHANGED <<prot, frozen, heap, spc, copy, tpc, sp, wpc, addr, stores, snaps>>
  BY Zenon, <1>1 DEF MarkBlock
<1>3. /\ context' \in [Block -> State]
      /\ context'[m] = "used"
      /\ \A b \in Block : b # m => context'[b] = context[b]
  BY <1>2, SetContext DEF State
<1>4. /\ mark' \in [b : Nat, addr : Nat, size : Nat]
      /\ mark'.addr + mark'.size = mark'.b
      /\ mark'.b <= BlockCount
      /\ \A b \in Block : b >= mark'.b => b >= mark.b /\ b # m
      /\ \A b \in Block : Region(b)' <=> (Region(b) \/ b = m)
  <2>1. /\ mark.b \in Nat /\ mark.addr \in Nat /\ mark.size \in Nat /\ BlockCount \in Nat
        /\ mark.addr + mark.size = mark.b
    BY <1>2, ShareAssumption DEF Types, UpInv, PhaseInv
  <2>2. /\ mark' \in [b : Nat, addr : Nat, size : Nat]
        /\ mark'.b = mark.b + 1 /\ mark'.addr = mark.addr /\ mark'.size = mark.size + 1
    <3>1. mark \in [b : Nat, addr : Nat, size : Nat]
      BY Zenon DEF Types
    <3>2. mark' = [mark EXCEPT !.b = mark.b + 1, !.size = mark.size + 1]
      BY Zenon, <1>2
    <3>3. mark.b + 1 \in Nat /\ mark.size + 1 \in Nat
      BY <2>1
    <3> HIDE <1>2
    <3> QED
      BY <3>1, <3>2, <3>3
  <2>3. mark'.addr + mark'.size = mark'.b /\ mark'.b <= BlockCount
    BY <2>1, <2>2, <1>2
  <2>4. ASSUME NEW b \in Block
        PROVE  /\ b >= mark'.b => b >= mark.b /\ b # m
               /\ Region(b)' <=> (Region(b) \/ b = m)
    <3>1. b \in Int /\ mark.addr <= mark.b
      BY <2>1 DEF Block
    <3>2. b >= mark'.b => b >= mark.b /\ b # m
      BY <3>1, <2>1, <2>2, <1>1
    <3>3. (mark'.addr <= b /\ b < mark'.b) <=> ((mark.addr <= b /\ b < mark.b) \/ b = m)
      BY <3>1, <2>1, <2>2, <1>1
    <3> QED
      BY Zenon, <3>2, <3>3, <1>2 DEF Region
  <2> QED
    BY Zenon, <2>2, <2>3, <2>4
<1>5. context[m] = "raw" /\ m \notin prot
  <2>1. context[m] = "raw"
    BY <1>1, <1>2 DEF UpInv, PhaseInv, Block
  <2> QED
    BY <2>1 DEF UpInv, BlockInv
<1>6. Types'
  BY Zenon, <1>2, <1>3, <1>4 DEF Types
<1>7. SavedFrozen'
  BY <1>2, <1>3 DEF SavedFrozen
<1>8. \A b \in Block : BlockInv(b)'
  BY <1>2, <1>3, <1>4, <1>5 DEF UpInv, BlockInv
<1>9. ASSUME NEW w \in Writer PROVE WriterInv(w)'
  BY <1>2, <1>3, <1>5 DEF UpInv, WriterInv, Holder, Types, Busy
<1>10. \A t \in Thread : tpc'[t] = "done"
  BY Zenon, <1>2 DEF UpInv, PhaseInv
<1>11. (\A t \in Thread : ThreadInv(t)') /\ Exclusive'
  BY <1>2, <1>10 DEF UpInv, ThreadInv, Exclusive, Busy
<1>12. PhaseInv'
  BY <1>2, <1>3, <1>4, <1>10 DEF UpInv, PhaseInv, Early
<1> QED
  BY Zenon, <1>6, <1>7, <1>8, <1>9, <1>11, <1>12 DEF UpInv

(* markPagesReadOnly at a free block: the region so far is protected.      *)
LEMMA MarkFree ==
    ASSUME Types, SavedFrozen, UpInv, MarkBlock, mark.b \notin bits
    PROVE  Types' /\ SavedFrozen' /\ UpInv'
<1> USE DEF threadVars, writerVars
<1>1. PICK m \in Block : m = mark.b
  BY ShareAssumption DEF MarkBlock, Types, Block
<1>2. /\ context' = [context EXCEPT ![m] = "free"]
      /\ mark' = [b |-> m + 1, addr |-> m + 1, size |-> 0]
      /\ spc = "mark" /\ mark.b < BlockCount
      /\ ProtectRegion
      /\ UNCHANGED <<heap, spc, copy, tpc, sp, wpc, addr, stores, snaps>>
  BY Zenon, <1>1 DEF MarkBlock
<1>3. /\ context' \in [Block -> State]
      /\ context'[m] = "free"
      /\ \A b \in Block : b # m => context'[b] = context[b]
  BY <1>2, SetContext DEF State
<1>4. /\ mark' \in [b : Nat, addr : Nat, size : Nat]
      /\ mark'.addr + mark'.size = mark'.b
      /\ mark'.b <= BlockCount
      /\ \A b \in Block : b >= mark'.b => b >= mark.b /\ b # m
      /\ \A b \in Block : ~Region(b)'
  <2>1. m \in Nat /\ m < BlockCount /\ BlockCount \in Nat
    BY <1>1, ShareAssumption DEF Block
  <2>2. /\ mark' \in [b : Nat, addr : Nat, size : Nat]
        /\ mark'.b = m + 1 /\ mark'.addr = m + 1 /\ mark'.size = 0
    BY <1>2, <2>1
  <2>3. mark'.addr + mark'.size = mark'.b /\ mark'.b <= BlockCount
    BY <2>1, <2>2
  <2>4. ASSUME NEW b \in Block
        PROVE  /\ b >= mark'.b => b >= mark.b /\ b # m
               /\ ~Region(b)'
    <3>1. b \in Int
      BY DEF Block
    <3>2. b >= mark'.b => b >= mark.b /\ b # m
      BY <3>1, <2>1, <2>2, <1>1
    <3>3. ~(mark'.addr <= b /\ b < mark'.b)
      BY <3>1, <2>1, <2>2
    <3> QED
      BY Zenon, <3>2, <3>3 DEF Region
  <2> QED
    BY Zenon, <2>2, <2>3, <2>4
<1>5. context[m] = "raw"
  BY <1>1, <1>2 DEF UpInv, PhaseInv, Block
<1>6. Types'
  <2>1. prot' \subseteq Block /\ frozen' \in [Block -> Int]
    BY Zenon, Protected, <1>2
  <2> QED
    BY Zenon, <2>1, <1>2, <1>3, <1>4 DEF Types
<1>7. /\ \A b \in Block : context[b] # "raw" => context'[b] = context[b]
      /\ \A b \in Block : context[b] = "raw" => context'[b] \in {"raw", "free"}
  BY Zenon, <1>3, <1>5
<1>8. /\ SavedFrozen'
      /\ \A b \in Block : BlockInv(b)'
      /\ \A w \in Writer : WriterInv(w)'
  BY Zenon, ProtectKeeps, <1>2, <1>4, <1>7
<1>9. \A t \in Thread : tpc'[t] = "done"
  BY Zenon, <1>2 DEF UpInv, PhaseInv
<1>10. (\A t \in Thread : ThreadInv(t)') /\ Exclusive'
  BY <1>2, <1>9 DEF UpInv, ThreadInv, Exclusive, Busy
<1>11. PhaseInv'
  BY <1>2, <1>3, <1>4, <1>9 DEF UpInv, PhaseInv, Early
<1> QED
  BY Zenon, <1>6, <1>8, <1>10, <1>11 DEF UpInv

(* The end of markPagesReadOnly: the snapshot threads start at the blocks  *)
(* of their shares.                                                        *)
LEMMA SaveStep ==
    ASSUME Types, SavedFrozen, UpInv, SaveModifiedPages
    PROVE  Types' /\ SavedFrozen' /\ UpInv'
<1> USE DEF writerVars
<1>1. /\ spc = "mark" /\ spc' = "join"
      /\ ProtectRegion
      /\ tpc' = [t \in Thread |-> "scan"]
      /\ sp' = [t \in Thread |-> t * shareLength]
      /\ UNCHANGED <<heap, mark, context, copy, wpc, addr, stores, snaps>>
  BY Zenon DEF SaveModifiedPages
<1>2. \A t \in Thread : tpc'[t] = "scan"
  BY Zenon, <1>1
<1>3. Types'
  <2>1. prot' \subseteq Block /\ frozen' \in [Block -> Int]
    BY Zenon, Protected, <1>1
  <2>2. sp' \in [Thread -> Nat]
    BY Zenon, <1>1, ShareStart
  <2>3. tpc' \in [Thread -> TState]
    BY <1>1 DEF TState
  <2> QED
    BY Zenon, <2>1, <2>2, <2>3, <1>1 DEF Types
<1>4. \A b \in Block : ~Region(b)'
  BY <1>1 DEF Region
<1>5. /\ \A b \in Block : context[b] # "raw" => context'[b] = context[b]
      /\ \A b \in Block : context[b] = "raw" => context'[b] \in {"raw", "free"}
  BY <1>1
<1>6. /\ SavedFrozen'
      /\ \A b \in Block : BlockInv(b)'
      /\ \A w \in Writer : WriterInv(w)'
  BY Zenon, ProtectKeeps, <1>1, <1>4, <1>5
<1>7. (\A t \in Thread : ThreadInv(t)') /\ Exclusive'
  BY <1>1, <1>2 DEF UpInv, ThreadInv, Exclusive, Busy
<1>8. PhaseInv'
  BY <1>1 DEF UpInv, PhaseInv, Early
<1> QED
  BY Zenon, <1>3, <1>6, <1>7, <1>8 DEF UpInv

(* The end of a snapshot, which undoes nothing and protects nothing.       *)
LEMMA LateSteps ==
    ASSUME Types, SavedFrozen, UpInv,
           WaitForFaultHandlers \/ CleanEnvironment \/ DeleteSnapshot
    PROVE  Types' /\ SavedFrozen' /\ UpInv'
<1> USE DEF blockVars, threadVars, writerVars
<1>1. /\ spc' \in {"clean", "delete", "none"} /\ spc \in {"join", "clean", "delete"}
      /\ UNCHANGED <<heap, prot, copy, frozen, mark, tpc, sp, wpc, addr, stores, snaps>>
  BY DEF WaitForFaultHandlers, CleanEnvironment, DeleteSnapshot
<1>2. /\ context' \in [Block -> State]
      /\ \A b \in Block : context'[b] \in {context[b], "null"}
  BY DEF WaitForFaultHandlers, CleanEnvironment, DeleteSnapshot, Types, State
<1>3. Types'
  BY Zenon, <1>1, <1>2 DEF Types
<1>4. SavedFrozen'
  BY <1>1, <1>2 DEF SavedFrozen
<1>5. \A b \in Block : BlockInv(b)'
  BY <1>1, <1>2 DEF UpInv, BlockInv, Region
<1>6. ASSUME NEW w \in Writer PROVE WriterInv(w)'
  <2>1. addr[w] \in Block /\ WriterInv(w)
    BY Zenon DEF UpInv, Types
  <2> QED
    BY <1>1, <1>2, <2>1 DEF WriterInv, Holder
<1>7. ASSUME NEW t \in Thread PROVE ThreadInv(t)'
  <2>1. ThreadInv(t)
    BY Zenon DEF UpInv
  <2> QED
    BY <1>1, <1>2, <2>1 DEF ThreadInv, Holder
<1>8. Exclusive'
  BY Zenon, <1>1 DEF UpInv, Exclusive
<1>9. PhaseInv'
  BY <1>1 DEF PhaseInv, Early
<1> QED
  BY Zenon, <1>3, <1>4, <1>5, <1>6, <1>7, <1>8, <1>9 DEF UpInv

(* A change of allocation touches nothing the invariant speaks of, and     *)
(* once the process is down only the images that count as saved matter.    *)
LEMMA OtherSteps ==
    ASSUME IInv,
           (\E b \in Block : ChangeAllocation(b)) \/ Crash \/ Load \/ UNCHANGED vars
    PROVE  IInv'
<1> USE DEF vars, blockVars, snapVars, threadVars, writerVars
<1>1. CASE (\E b \in Block : ChangeAllocation(b)) \/ UNCHANGED vars
  <2>1. UNCHANGED <<blockVars, snapVars, context, copy, threadVars, writerVars, status>>
    BY Zenon, <1>1 DEF ChangeAllocation
  <2>2. Types' /\ SavedFrozen'
    BY Zenon, <2>1 DEF IInv, Types, SavedFrozen
  <2>3. Up' => UpInv'
    <3> SUFFICES ASSUME UpInv PROVE UpInv'
      BY Zenon, <2>1 DEF IInv, Up
    <3>1. \A b \in Block : BlockInv(b)'
      BY Zenon, <2>1 DEF UpInv, BlockInv, Region
    <3>2. \A w \in Writer : WriterInv(w)'
      BY Zenon, <2>1 DEF UpInv, WriterInv, Holder
    <3>3. \A t \in Thread : ThreadInv(t)'
      BY Zenon, <2>1 DEF UpInv, ThreadInv, Holder
    <3>4. Exclusive' /\ PhaseInv'
      BY Zenon, <2>1 DEF UpInv, Exclusive, PhaseInv, Early
    <3> QED
      BY Zenon, <3>1, <3>2, <3>3, <3>4 DEF UpInv
  <2> QED
    BY Zenon, <2>2, <2>3 DEF IInv
<1>2. CASE Crash
  <2>1. ~Up' /\ copy' \in [Block -> Int]
    BY <1>2 DEF Crash, Up, IInv, Types, Lost
  <2>2. SavedFrozen'
    BY <1>2 DEF Crash, IInv, SavedFrozen
  <2>3. Types'
    BY Zenon, <1>2, <2>1 DEF Crash, IInv, Types
  <2> QED
    BY Zenon, <2>1, <2>2, <2>3 DEF IInv
<1>3. CASE Load
  <2>1. ~Up' /\ heap' \in [Block -> Int] /\ prot' \subseteq Block
    BY <1>3 DEF Load, Up, IInv, Types
  <2>2. Types' /\ SavedFrozen'
    BY Zenon, <1>3, <2>1 DEF Load, IInv, Types, SavedFrozen
  <2> QED
    BY Zenon, <2>1, <2>2 DEF IInv
<1> QED
  BY Zenon, <1>1, <1>2, <1>3

(* The initial states.                                                     *)
LEMMA InitIInv == ASSUME Init, Block # {} PROVE IInv
<1>1. 0 \in Block
  BY ShareAssumption DEF Block
<1>2. Types
  BY <1>1 DEF Init, Types, State, TState, WState, Lost
<1>3. SavedFrozen
  BY DEF Init, SavedFrozen
<1>4. UpInv
  BY DEF Init, UpInv, BlockInv, Region, WriterInv, ThreadInv, Holder, Exclusive, PhaseInv, Early,
         Busy
<1> QED
  BY Zenon, <1>2, <1>3, <1>4 DEF IInv

(* Every step keeps the invariant.                                         *)
LEMMA NextIInv == ASSUME IInv, ImageInv, ~overlap', [Next]_vars PROVE IInv'
<1>1. CASE UNCHANGED vars
  BY Zenon, <1>1, OtherSteps
<1>2. CASE (\E b \in Block : ChangeAllocation(b)) \/ Crash \/ Load \/ Ended
  BY Zenon, <1>2, OtherSteps DEF Ended
<1>3. CASE \E w \in Writer : WriterStep(w)
  <2>1. PICK w \in Writer : WriterStep(w)
    BY Zenon, <1>3
  <2>2. Up
    BY Zenon, <2>1 DEF WriterStep, Store, SignalHandler, FaultClaim, FaultSpin, FaultCopy,
                       FaultRelease, FaultPublish
  <2>3. CASE Store(w)
    BY Zenon, <2>2, <2>3, StoreStep DEF IInv
  <2>4. CASE ~Store(w)
    BY Zenon, <2>1, <2>2, <2>4, HandlerStep DEF IInv, WriterStep
  <2> QED
    BY Zenon, <2>3, <2>4
<1>4. CASE \E w \in Writer, b \in Block : BeginStore(w, b)
  BY Zenon, <1>4, BeginStoreStep DEF IInv, BeginStore
<1>5. CASE \E t \in Thread : ThreadStep(t)
  <2>1. PICK t \in Thread : ThreadStep(t)
    BY Zenon, <1>5
  <2>2. Up
    BY Zenon, <2>1 DEF ThreadStep, WorkerClaim, WorkerCopy, WorkerRelease, WorkerPublish,
                       WorkerReturn
  <2> QED
    BY Zenon, <2>1, <2>2, WorkerStep DEF IInv
<1>6. CASE StartSnapshot \/ SnapshotStep
  <2>1. Up
    BY Zenon, <1>6 DEF StartSnapshot, SnapshotStep, PrepareSnapshot, WaitForRunningTransactions,
                       SaveBitmap, MarkBlock, SaveModifiedPages, WaitForFaultHandlers,
                       CleanEnvironment, DeleteSnapshot
  <2>2. Types /\ SavedFrozen /\ UpInv /\ ImageUpInv
    BY Zenon, <2>1 DEF IInv, ImageInv
  <2> QED
    BY Zenon, <1>6, <2>2, EarlySteps, MarkUsed, MarkFree, SaveStep, LateSteps DEF IInv,
       SnapshotStep
<1> QED
  BY Zenon, <1>1, <1>2, <1>3, <1>4, <1>5, <1>6 DEF Next

-----------------------------------------------------------------------------
(* The second invariant.                                                   *)

(* The shares of the snapshot threads cover the blocks.                    *)
LEMMA ShareCovers ==
    ASSUME NEW b \in Block
    PROVE  \E t \in Thread : t * shareLength <= b /\ b < (t + 1) * shareLength
<1>1. shareLength \in Nat /\ SnapshotThreads * shareLength = BlockCount
  BY ShareAssumption DEF shareLength
<1>2. b \in Nat /\ b < SnapshotThreads * shareLength
  BY <1>1, ShareAssumption DEF Block
<1>3. shareLength > 0
  BY <1>1, <1>2, ShareAssumption
<1>4. PICK n \in Nat : n = shareLength
  BY <1>1
<1>5. PICK t \in Nat : t * n <= b /\ b < (t + 1) * n
  <2>1. PICK t : t = b \div n
    BY Zenon
  <2>2. t \in Nat /\ n * t <= b /\ b < n * t + n
    BY <2>1, <1>2, <1>3, <1>4
  <2>3. n * t = t * n /\ n * t + n = (t + 1) * n
    BY <2>2, <1>4
  <2> QED
    BY <2>2, <2>3
<1>6. t < SnapshotThreads
  <2> SUFFICES ASSUME t >= SnapshotThreads PROVE FALSE
    BY <1>5, ShareAssumption
  <2>1. t * n >= SnapshotThreads * n
    BY <1>4, <1>5, ShareAssumption
  <2>2. t * n \in Nat /\ SnapshotThreads * n \in Nat
    BY <1>4, <1>5, ShareAssumption
  <2> QED
    BY <2>1, <2>2, <1>2, <1>4, <1>5
<1>7. t \in Thread
  BY <1>5, <1>6, ShareAssumption DEF Thread
<1> QED
  BY <1>4, <1>5, <1>7

(* A step of a writer or of a snapshot thread: blocks only become writable *)
(* and only come nearer to their copy.                                     *)
LEMMA ImageStep ==
    ASSUME ImageInv, ImageUpInv, UNCHANGED <<spc, mark, snaps, stamped, bits, frozen, status>>,
           used' \subseteq Block, prot' \subseteq prot, Up,
           \A b \in Block : context'[b] = context[b] \/ (context'[b] \in {"locked", "saved"} /\ ~Late),
           \A t \in Thread, b \in Block : Passed(t, b)' => Passed(t, b) \/ context'[b] # "used",
           Late => /\ copy' = copy
                   /\ \A w \in Writer : wpc'[w] \notin Busy
                   /\ \A t \in Thread : tpc'[t] = "done"
    PROVE  ImageInv'
<1>1. (Late' <=> Late) /\ Up' /\ \A b : Region(b)' <=> Region(b)
  BY Zenon DEF Late, Up, Region
<1>2. \A b \in Block : context[b] \in Copyable => context'[b] \in Copyable
  BY DEF Copyable
<1>3. \A b \in bits : b \in Block
  BY Zenon DEF ImageInv
<1>4. \A b \in Block : context[b] # "null" => context'[b] # "null"
  OBVIOUS
<1>5. \A b \in Block : context[b] # "used" => context'[b] # "used"
  OBVIOUS
<1>6. /\ spc \notin {"mark", "join"} => prot' = {}
      /\ Late => \A b \in Block : context'[b] \notin {"used", "locked"}
      /\ spc \in {"delete", "none"} => \A b \in Block : context'[b] = "null"
  BY DEF ImageUpInv, Late
<1>7. /\ spc = "mark" => \A b \in bits : b < mark.b => context'[b] \in Copyable
      /\ spc = "join" => \A b \in bits : context'[b] \in Copyable
  BY Zenon, <1>2, <1>3 DEF ImageUpInv
<1>8. spc = "join" => \A t \in Thread, b \in Block : Passed(t, b)' => context'[b] # "used"
  BY Zenon, <1>5 DEF ImageUpInv
<1>9. spc \in {"mark", "join"} => \A b \in Block : context'[b] # "null"
  BY Zenon, <1>4 DEF ImageUpInv
<1>10. prot' \subseteq bits'
  BY Zenon DEF ImageUpInv
<1>11. ImageUpInv'
  BY Zenon, <1>1, <1>6, <1>7, <1>8, <1>9, <1>10 DEF ImageUpInv
<1>12. stamped' => \A b \in bits' : copy'[b] = frozen'[b]
  BY Zenon DEF ImageInv, ImageUpInv
<1>13. RestoredFrozen'
  BY DEF RestoredFrozen, Up
<1> QED
  BY Zenon, <1>11, <1>12, <1>13 DEF ImageInv

(* A step of a writer.                                                     *)
LEMMA WriterImage ==
    ASSUME Types, UpInv, ImageInv, NEW w \in Writer,
           WriterStep(w) \/ \E b \in Block : BeginStore(w, b)
    PROVE  ImageInv'
<1> USE DEF blockVars, snapVars, threadVars, writerVars
<1>1. Up /\ ImageUpInv /\ used' = used /\ used \subseteq Block
  BY Zenon DEF ImageInv, BeginStore, WriterStep, Store, SignalHandler, FaultClaim, FaultSpin,
               FaultCopy, FaultRelease, FaultPublish
<1>2. UNCHANGED <<tpc, sp, spc, mark, snaps, stamped, bits, frozen>>
  BY Zenon DEF BeginStore, WriterStep, Store, SignalHandler, FaultClaim, FaultSpin, FaultCopy,
               FaultRelease, FaultPublish
<1>3. \A t \in Thread, b \in Block : Passed(t, b)' => Passed(t, b)
  BY Zenon, <1>2 DEF Passed
<1>4. addr[w] \in Block
  BY Zenon DEF Types
<1>5. Late => wpc[w] \notin Busy /\ context[addr[w]] # "used" /\ \A t \in Thread : tpc'[t] = "done"
  BY Zenon, <1>1, <1>2, <1>4 DEF ImageUpInv
<1>6. ASSUME NEW s \in WState, wpc' = [wpc EXCEPT ![w] = s], s \notin Busy
      PROVE  Late => \A v \in Writer : wpc'[v] \notin Busy
  BY Zenon, <1>1, <1>6, MoveWriter DEF ImageUpInv
<1>7. CASE \/ Store(w) \/ SignalHandler(w) \/ FaultSpin(w)
           \/ FaultClaim(w) /\ context[addr[w]] # "used"
           \/ \E b \in Block : BeginStore(w, b)
  <2>1. UNCHANGED <<prot, context, copy>>
    BY Zenon, <1>7 DEF BeginStore, Store, SignalHandler, FaultSpin, FaultClaim
  <2>2. wpc' = wpc \/ \E s \in {"idle", "store", "fault", "claim", "spin"} : wpc' = [wpc EXCEPT ![w] = s]
    BY <1>7 DEF BeginStore, Store, SignalHandler, FaultSpin, FaultClaim
  <2>3. \A s \in {"idle", "store", "fault", "claim", "spin"} : s \in WState /\ s \notin Busy
    BY DEF WState, Busy
  <2>4. Late => \A v \in Writer : wpc'[v] \notin Busy
    BY Zenon, <1>1, <1>6, <2>2, <2>3 DEF ImageUpInv
  <2>5. CASE UNCHANGED status
    BY Zenon, <1>1, <1>2, <1>3, <1>5, <2>1, <2>4, <2>5, ImageStep
  <2>6. CASE status' \in {"exit", "dead"}
    <3>1. ~Up' /\ RestoredFrozen'
      BY <2>6 DEF Up, RestoredFrozen
    <3> QED
      BY Zenon, <3>1, <1>1, <1>2, <2>1 DEF ImageInv
  <2> QED
    BY Zenon, <1>7, <2>5, <2>6 DEF BeginStore, Store, SignalHandler, FaultSpin, FaultClaim
<1>8. CASE FaultCopy(w) \/ FaultRelease(w) \/ FaultPublish(w) \/ (FaultClaim(w) /\ context[addr[w]] = "used")
  <2>1. ~Late
    BY <1>5, <1>8 DEF FaultCopy, FaultRelease, FaultPublish, Busy
  <2>2. prot' \subseteq prot /\ UNCHANGED status
    BY <1>8 DEF FaultCopy, FaultRelease, FaultPublish, FaultClaim
  <2>3. context' = context \/ \E s \in {"locked", "saved"} : context' = [context EXCEPT ![addr[w]] = s]
    BY <1>8 DEF FaultCopy, FaultRelease, FaultPublish, FaultClaim
  <2>4. \A s \in {"locked", "saved"} : s \in State
    BY DEF State
  <2>5. \A b \in Block : context'[b] = context[b] \/ (context'[b] \in {"locked", "saved"} /\ ~Late)
    BY Zenon, <1>4, <2>1, <2>3, <2>4, SetContext
  <2> QED
    BY Zenon, <1>1, <1>2, <1>3, <2>1, <2>2, <2>5, ImageStep
<1> QED
  BY Zenon, <1>7, <1>8 DEF WriterStep

(* A step of a snapshot thread, which passes a block only when it does not *)
(* wait for its copy.                                                      *)
LEMMA ThreadImage ==
    ASSUME Types, UpInv, ImageInv, NEW t \in Thread, ThreadStep(t)
    PROVE  ImageInv'
<1> USE DEF blockVars, snapVars, threadVars, writerVars
<1>1. Up /\ ImageUpInv /\ used' = used /\ used \subseteq Block
  BY Zenon DEF ImageInv, ThreadStep, WorkerClaim, WorkerCopy, WorkerRelease, WorkerPublish,
               WorkerReturn
<1>2. UNCHANGED <<wpc, spc, mark, snaps, stamped, bits, frozen, status>> /\ tpc[t] # "done"
  BY DEF ThreadStep, WorkerClaim, WorkerCopy, WorkerRelease, WorkerPublish, WorkerReturn
<1>3. ~Late
  BY Zenon, <1>1, <1>2 DEF ImageUpInv
<1>4. prot' \subseteq prot
  BY DEF ThreadStep, WorkerClaim, WorkerCopy, WorkerRelease, WorkerPublish, WorkerReturn
<1>5. sp[t] \in Nat /\ (tpc[t] \in Busy => sp[t] \in Block)
  BY Zenon DEF Types, UpInv, ThreadInv
<1>6. WorkerClaim(t) => sp[t] \in Block
  BY Zenon, <1>5, ShareEnd DEF WorkerClaim
<1>7. WorkerPublish(t) => sp[t] \in Block
  BY <1>5 DEF WorkerPublish, Busy
<1>8. \A b \in Block : context'[b] = context[b] \/ (context'[b] \in {"locked", "saved"} /\ ~Late)
  <2>1. \/ context' = context
        \/ sp[t] \in Block /\ \E s \in {"locked", "saved"} : context' = [context EXCEPT ![sp[t]] = s]
    BY <1>6, <1>7 DEF ThreadStep, WorkerClaim, WorkerCopy, WorkerRelease, WorkerPublish, WorkerReturn
  <2>2. \A s \in {"locked", "saved"} : s \in State
    BY DEF State
  <2> QED
    BY Zenon, <1>3, <2>1, <2>2, SetContext
<1>9. ASSUME NEW u \in Thread, NEW b \in Block, Passed(u, b)'
      PROVE  Passed(u, b) \/ context'[b] # "used"
  <2>1. CASE u # t
    <3>1. tpc'[u] = tpc[u] /\ sp'[u] = sp[u]
      BY <2>1 DEF ThreadStep, WorkerClaim, WorkerCopy, WorkerRelease, WorkerPublish, WorkerReturn,
                  Types
    <3> QED
      BY Zenon, <3>1, <1>9 DEF Passed
  <2>2. CASE u = t
    <3>1. CASE sp' = sp /\ tpc'[t] # "done"
      BY Zenon, <3>1, <2>2, <1>2, <1>9 DEF Passed
    <3>2. CASE WorkerReturn(t)
      <4>1. sp[t] = (t + 1) * shareLength /\ tpc'[t] = "done"
        BY Zenon, <3>2 DEF WorkerReturn, Types
      <4> QED
        BY Zenon, <4>1, <2>2, <1>2, <1>9 DEF Passed
    <3>3. CASE sp' = [sp EXCEPT ![t] = @ + 1] /\ tpc'[t] # "done" /\ context'[sp[t]] # "used"
      <4>1. sp'[t] = sp[t] + 1
        BY <3>3 DEF Types
      <4>2. b \in Nat /\ b < sp[t] + 1 /\ t * shareLength <= b
        BY <4>1, <3>3, <2>2, <1>9, ShareAssumption DEF Passed, Block
      <4>3. b < sp[t] \/ b = sp[t]
        BY <4>2, <1>5
      <4> QED
        BY Zenon, <4>2, <4>3, <3>3, <2>2, <1>2 DEF Passed
    <3>4. WorkerPublish(t) => context'[sp[t]] = "saved"
      BY <1>7 DEF WorkerPublish, Types
    <3>5. WorkerClaim(t) \/ WorkerCopy(t) \/ WorkerRelease(t) \/ WorkerPublish(t) => tpc'[t] # "done"
      BY DEF WorkerClaim, WorkerCopy, WorkerRelease, WorkerPublish, Types
    <3>6. WorkerClaim(t) \/ WorkerCopy(t) \/ WorkerRelease(t) \/ WorkerPublish(t) =>
             \/ sp' = sp
             \/ sp' = [sp EXCEPT ![t] = @ + 1] /\ context'[sp[t]] # "used"
      BY <3>4 DEF WorkerClaim, WorkerCopy, WorkerRelease, WorkerPublish
    <3> QED
      BY Zenon, <3>1, <3>2, <3>3, <3>5, <3>6 DEF ThreadStep
  <2> QED
    BY Zenon, <2>1, <2>2
<1> QED
  BY Zenon, <1>1, <1>2, <1>3, <1>4, <1>8, <1>9, ImageStep

(* The snapshot up to the saved bitmap: nothing is read-only.              *)
LEMMA EarlyImage ==
    ASSUME Types, UpInv, ImageInv, Up,
           StartSnapshot \/ PrepareSnapshot \/ WaitForRunningTransactions \/ SaveBitmap
    PROVE  ImageInv'
<1> USE DEF blockVars, threadVars, writerVars
<1>1. ImageUpInv /\ prot' = {} /\ spc' \in {"new", "wait", "save", "mark"}
  BY DEF StartSnapshot, PrepareSnapshot, WaitForRunningTransactions, SaveBitmap, ImageInv, ImageUpInv
<1>2. stamped' => Late' /\ \A b \in bits' : copy'[b] = frozen'[b]
  BY DEF StartSnapshot, PrepareSnapshot, WaitForRunningTransactions, SaveBitmap, ImageInv,
         ImageUpInv, Late
<1>3. Late' => /\ \A b \in Block : context'[b] \notin {"used", "locked"}
               /\ \A w \in Writer : wpc'[w] \notin Busy
               /\ \A t \in Thread : tpc'[t] = "done"
  BY <1>1 DEF StartSnapshot, PrepareSnapshot, WaitForRunningTransactions, SaveBitmap, ImageUpInv,
              Late
<1>4. used' \subseteq Block /\ bits' \subseteq Block /\ status' = status
  BY DEF StartSnapshot, PrepareSnapshot, WaitForRunningTransactions, SaveBitmap, ImageInv
<1>5. spc' = "mark" => /\ mark'.b = 0 /\ mark'.addr = 0
                       /\ \A b \in Block : context'[b] # "null"
  BY DEF StartSnapshot, PrepareSnapshot, WaitForRunningTransactions, SaveBitmap, UpInv, PhaseInv
<1>6. ImageUpInv'
  <2>1. spc' = "mark" => \A b \in Block : ~(b < mark'.b)
    BY <1>5 DEF Block
  <2>2. \A b \in Block : ~Region(b)'
    BY Zenon, <2>1 DEF Region
  <2>3. spc' = "mark" => \A b \in bits' : b < mark'.b => context'[b] \in Copyable
    BY Zenon, <2>1, <1>4
  <2>4. spc' \in {"mark", "join"} => \A b \in Block : context'[b] # "null"
    BY <1>1, <1>5
  <2>5. prot' \subseteq bits' /\ spc' \notin {"join", "delete", "none"} /\ spc' # "join"
    BY <1>1
  <2> QED
    BY Zenon, <2>2, <2>3, <2>4, <2>5, <1>1, <1>2, <1>3 DEF ImageUpInv
<1>7. RestoredFrozen'
  BY <1>4 DEF RestoredFrozen, Up
<1> QED
  BY Zenon, <1>2, <1>4, <1>6, <1>7 DEF ImageInv

(* markPagesReadOnly: only blocks with a bit set are made read-only, and   *)
(* each of them waits for its copy.                                        *)
LEMMA MarkImage ==
    ASSUME Types, UpInv, ImageInv, Up, MarkBlock \/ SaveModifiedPages
    PROVE  ImageInv'
<1> USE DEF writerVars
<1>1. /\ spc = "mark" /\ ~Late /\ spc' \in {"mark", "join"} /\ ~Late'
      /\ UNCHANGED <<used, bits, stamped, status>>
  BY DEF MarkBlock, SaveModifiedPages, Late
<1>2. ImageUpInv /\ ~stamped /\ used \subseteq Block /\ bits \subseteq Block
  BY Zenon, <1>1 DEF ImageInv, ImageUpInv
<1>3. RestoredFrozen'
  BY <1>1 DEF RestoredFrozen, Up
<1>4. /\ mark.b \in Nat /\ mark.addr \in Nat /\ \A b \in Block : b \in Nat
  BY ShareAssumption DEF Types, Block
<1>5. prot' \subseteq bits
  <2>1. CASE ProtectRegion
    <3>1. prot' \subseteq Block /\ \A b \in Block : b \in prot' <=> (b \in prot \/ Region(b))
      BY Zenon, <1>1, <2>1, Protected
    <3> QED
      BY Zenon, <3>1, <1>2 DEF ImageUpInv
  <2>2. CASE prot' = prot
    BY Zenon, <2>2, <1>2 DEF ImageUpInv
  <2> QED
    BY Zenon, <2>1, <2>2 DEF MarkBlock, SaveModifiedPages
<1>6. CASE MarkBlock
  <2>1. PICK m \in Block : m = mark.b
    BY <1>4, <1>6, ShareAssumption DEF MarkBlock, Block
  <2>2. PICK s \in {"used", "free"} : /\ context' = [context EXCEPT ![m] = s]
                                      /\ m \in bits => s = "used"
                                      /\ spc' = "mark"
    BY <1>1, <1>6, <2>1 DEF MarkBlock
  <2>3. s \in State
    BY DEF State
  <2>4. context'[m] = s /\ \A b \in Block : b # m => context'[b] = context[b]
    BY Zenon, <2>2, <2>3, SetContext
  <2>5. mark'.b = m + 1 /\ ((mark'.addr = mark.addr /\ m \in bits) \/ mark'.addr = m + 1)
    <3>1. mark \in [b : Nat, addr : Nat, size : Nat]
      BY Zenon DEF Types
    <3>2. CASE m \in bits
      <4>1. mark' = [mark EXCEPT !.b = @ + 1, !.size = @ + 1]
        BY Zenon, <3>2, <2>1, <1>6 DEF MarkBlock
      <4> QED
        BY <4>1, <3>1, <3>2, <2>1
    <3>3. CASE m \notin bits
      <4>1. mark' = [b |-> m + 1, addr |-> m + 1, size |-> 0]
        BY Zenon, <3>3, <2>1, <1>6 DEF MarkBlock
      <4> QED
        BY <4>1
    <3> QED
      BY Zenon, <3>2, <3>3
  <2>6. ASSUME NEW b \in bits, b < mark'.b PROVE context'[b] \in Copyable
    <3>1. b \in Block /\ (b < mark.b \/ b = m)
      BY <1>2, <1>4, <2>1, <2>5, <2>6
    <3>2. b # m => context[b] \in Copyable
      BY Zenon, <3>1, <1>1, <1>2, <2>1 DEF ImageUpInv
    <3>3. "used" \in Copyable
      BY DEF Copyable
    <3> QED
      BY Zenon, <3>1, <3>2, <3>3, <2>2, <2>4
  <2>7. ASSUME NEW b \in Block, Region(b)' PROVE b \in bits
    <3>1. mark'.addr <= b /\ b < mark'.b
      BY Zenon, <2>7 DEF Region
    <3>2. m \in bits /\ mark.addr <= b /\ (b < mark.b \/ b = m)
      BY <3>1, <2>1, <2>5, <1>4
    <3> QED
      BY Zenon, <3>2, <1>1, <1>2 DEF Region, ImageUpInv
  <2>8. \A b \in Block : context'[b] # "null"
    <3>1. \A b \in Block : context[b] # "null"
      BY Zenon, <1>1, <1>2 DEF ImageUpInv
    <3> QED
      BY <3>1, <2>2, <2>4
  <2>9. ImageUpInv'
    BY <1>1, <1>2, <1>5, <2>2, <2>6, <2>7, <2>8 DEF ImageUpInv
  <2> QED
    BY Zenon, <1>1, <1>2, <1>3, <2>9 DEF ImageInv
<1>7. CASE SaveModifiedPages
  <2>1. /\ spc' = "join" /\ mark.b = BlockCount /\ context' = context
        /\ tpc' = [t \in Thread |-> "scan"] /\ sp' = [t \in Thread |-> t * shareLength]
    BY Zenon, <1>7 DEF SaveModifiedPages
  <2>2. \A b \in bits : b < mark.b
    BY <1>2, <2>1, ShareAssumption DEF Block
  <2>3. \A b \in bits : context'[b] \in Copyable
    BY Zenon, <1>1, <1>2, <2>1, <2>2 DEF ImageUpInv
  <2>4. ASSUME NEW t \in Thread, NEW b \in Block PROVE ~Passed(t, b)'
    <3>1. tpc'[t] = "scan" /\ sp'[t] = t * shareLength
      BY Zenon, <2>1
    <3>2. ~(t * shareLength <= b /\ b < t * shareLength)
      BY ShareStart, <1>4
    <3>3. tpc'[t] # "done"
      BY <3>1
    <3> QED
      BY Zenon, <3>1, <3>2, <3>3 DEF Passed
  <2>5. \A b \in Block : ~Region(b)' /\ context'[b] # "null"
    BY <1>1, <1>2, <2>1 DEF ImageUpInv, Region
  <2>6. spc' # "mark"
    BY <2>1
  <2>7. ImageUpInv'
    BY Zenon, <1>1, <1>2, <1>5, <2>3, <2>4, <2>5, <2>6 DEF ImageUpInv
  <2> QED
    BY Zenon, <1>1, <1>2, <1>3, <2>7 DEF ImageInv
<1> QED
  BY Zenon, <1>6, <1>7

(* waitForFaultHandlers: the threads have passed every block and none is   *)
(* locked, so every used block is saved and none is read-only.             *)
LEMMA JoinImage ==
    ASSUME Types, SavedFrozen, UpInv, ImageInv, Up, WaitForFaultHandlers
    PROVE  ImageInv'
<1> USE DEF blockVars, threadVars, writerVars
<1>1. /\ spc = "join" /\ spc' = "clean" /\ status' = status
      /\ \A t \in Thread : tpc[t] = "done"
      /\ \A b \in Block : context[b] # "locked"
      /\ UNCHANGED <<heap, prot, used, mark, context, bits, copy, frozen, tpc, sp, wpc, addr, snaps>>
  BY Zenon DEF WaitForFaultHandlers
<1>2. ImageUpInv /\ used \subseteq Block /\ bits \subseteq Block
  BY Zenon DEF ImageInv
<1>3. ASSUME NEW b \in Block PROVE context[b] # "used"
  <2>1. PICK t \in Thread : t * shareLength <= b /\ b < (t + 1) * shareLength
    BY Zenon, ShareCovers
  <2>2. Passed(t, b)
    BY Zenon, <2>1, <1>1 DEF Passed
  <2> QED
    BY Zenon, <2>2, <1>1, <1>2 DEF ImageUpInv
<1>4. \A b \in bits : context[b] = "saved"
  BY <1>1, <1>2, <1>3 DEF ImageUpInv, Copyable
<1>5. \A b \in bits : copy[b] = frozen[b]
  BY Zenon, <1>2, <1>4 DEF SavedFrozen
<1>6. prot = {}
  <2>1. ASSUME NEW b \in prot PROVE FALSE
    <3>1. b \in bits /\ b \in Block
      BY Zenon, <1>2 DEF ImageUpInv
    <3>2. context[b] \in {"used", "locked", "null"} /\ context[b] = "saved"
      BY Zenon, <3>1, <1>4 DEF UpInv, BlockInv
    <3> QED
      BY <3>2
  <2> QED
    BY <2>1
<1>7. ASSUME NEW w \in Writer, wpc[w] \in Busy PROVE FALSE
  <2>1. context[addr[w]] \in {"locked", "null"} /\ addr[w] \in Block
    BY Zenon, <1>7 DEF UpInv, WriterInv, Holder, Types
  <2>2. context[addr[w]] # "null"
    BY <2>1, <1>1, <1>2 DEF ImageUpInv
  <2> QED
    BY <2>1, <2>2, <1>1
<1>8. Late' /\ \A b \in Block : ~Region(b)'
  BY <1>1 DEF Late, Region
<1>9. ImageUpInv'
  BY <1>1, <1>2, <1>3, <1>6, <1>7, <1>8 DEF ImageUpInv
<1>10. RestoredFrozen'
  BY <1>1 DEF RestoredFrozen, Up
<1> QED
  BY Zenon, <1>1, <1>2, <1>5, <1>9, <1>10 DEF ImageInv

(* The context and the instance go.                                        *)
LEMMA CleanImage ==
    ASSUME Types, UpInv, ImageInv, Up, CleanEnvironment \/ DeleteSnapshot
    PROVE  ImageInv'
<1> USE DEF blockVars, threadVars, writerVars
<1>1. /\ spc \in {"clean", "delete"} /\ spc' \in {"delete", "none"}
      /\ UNCHANGED <<prot, used, bits, copy, frozen, stamped, tpc, wpc, snaps, status>>
  BY DEF CleanEnvironment, DeleteSnapshot
<1>2. Late /\ Late' /\ \A b \in Block : ~Region(b)'
  BY <1>1 DEF Late, Region
<1>3. ImageUpInv
  BY Zenon DEF ImageInv
<1>4. \A b \in Block : context'[b] \notin {"used", "locked"} /\ context'[b] = "null"
  BY <1>2, <1>3 DEF CleanEnvironment, DeleteSnapshot, ImageUpInv
<1>5. spc' \notin {"mark", "join"} /\ spc' # "mark" /\ spc' # "join"
  BY <1>1
<1>6. ImageUpInv'
  BY Zenon, <1>1, <1>2, <1>3, <1>4, <1>5 DEF ImageUpInv
<1>7. RestoredFrozen'
  BY <1>1 DEF RestoredFrozen, Up
<1> QED
  BY Zenon, <1>1, <1>6, <1>7 DEF ImageInv

(* A crash spoils only blocks that are being copied; load copies back.     *)
LEMMA DownImage ==
    ASSUME ImageInv, (\E b \in Block : ChangeAllocation(b)) \/ Crash \/ Load \/ UNCHANGED vars
    PROVE  ImageInv'
<1> USE DEF vars, blockVars, snapVars, threadVars, writerVars
<1>1. CASE Crash
  <2>1. ~Up' /\ RestoredFrozen' /\ UNCHANGED <<used, bits, stamped, frozen>>
    BY <1>1 DEF Crash, Up, RestoredFrozen
  <2>2. stamped => \A b \in bits : copy'[b] = copy[b]
    <3> SUFFICES ASSUME stamped, NEW b \in bits PROVE copy'[b] = copy[b]
      BY Zenon
    <3>1. b \in Block /\ ImageUpInv
      BY Zenon, <1>1 DEF ImageInv, Crash
    <3>2. context[b] # "locked"
      BY <3>1 DEF ImageUpInv
    <3> QED
      BY Zenon, <3>1, <3>2, <1>1 DEF Crash
  <2> QED
    BY Zenon, <2>1, <2>2 DEF ImageInv
<1>2. CASE Load
  <2>1. ~Up' /\ UNCHANGED <<bits, stamped, copy, frozen>> /\ used' = bits
    BY <1>2 DEF Load, Up
  <2>2. \A b \in bits : heap'[b] = copy[b]
    BY <1>2 DEF Load, ImageInv
  <2>3. RestoredFrozen'
    BY Zenon, <2>1, <2>2 DEF RestoredFrozen, ImageInv
  <2> QED
    BY Zenon, <2>1, <2>3 DEF ImageInv
<1>3. CASE (\E b \in Block : ChangeAllocation(b)) \/ UNCHANGED vars
  <2>1. UNCHANGED <<heap, prot, spc, mark, bits, frozen, stamped, snaps, context, copy, tpc, sp, wpc, status>>
    BY Zenon, <1>3 DEF ChangeAllocation
  <2>2. used' \subseteq Block
    BY <1>3 DEF ChangeAllocation, ImageInv
  <2>3. Up' => ImageUpInv'
    BY Zenon, <2>1 DEF ImageInv, ImageUpInv, Up, Late, Region, Passed
  <2> QED
    BY Zenon, <2>1, <2>2, <2>3 DEF ImageInv, RestoredFrozen
<1> QED
  BY Zenon, <1>1, <1>2, <1>3

(* Every step keeps the second invariant.                                  *)
LEMMA NextImage == ASSUME IInv, ImageInv, [Next]_vars PROVE ImageInv'
<1>1. Types /\ SavedFrozen /\ (Up => UpInv)
  BY Zenon DEF IInv
<1>2. CASE (\E b \in Block : ChangeAllocation(b)) \/ Crash \/ Load \/ Ended \/ UNCHANGED vars
  BY Zenon, <1>2, DownImage DEF Ended
<1>3. CASE \E w \in Writer : WriterStep(w) \/ \E b \in Block : BeginStore(w, b)
  <2>1. PICK w \in Writer : WriterStep(w) \/ \E b \in Block : BeginStore(w, b)
    BY Zenon, <1>3
  <2>2. Up
    BY Zenon, <2>1 DEF WriterStep, Store, SignalHandler, FaultClaim, FaultSpin, FaultCopy,
                       FaultRelease, FaultPublish, BeginStore
  <2> QED
    BY Zenon, <2>1, <2>2, <1>1, WriterImage
<1>4. CASE \E t \in Thread : ThreadStep(t)
  <2>1. PICK t \in Thread : ThreadStep(t)
    BY Zenon, <1>4
  <2>2. Up
    BY Zenon, <2>1 DEF ThreadStep, WorkerClaim, WorkerCopy, WorkerRelease, WorkerPublish,
                       WorkerReturn
  <2> QED
    BY Zenon, <2>1, <2>2, <1>1, ThreadImage
<1>5. CASE StartSnapshot \/ SnapshotStep
  <2>1. Up
    BY Zenon, <1>5 DEF StartSnapshot, SnapshotStep, PrepareSnapshot, WaitForRunningTransactions,
                       SaveBitmap, MarkBlock, SaveModifiedPages, WaitForFaultHandlers,
                       CleanEnvironment, DeleteSnapshot
  <2> QED
    BY Zenon, <1>1, <1>5, <2>1, EarlyImage, MarkImage, JoinImage, CleanImage DEF SnapshotStep
<1> QED
  BY Zenon, <1>2, <1>3, <1>4, <1>5 DEF Next

(* The second invariant at the start.                                      *)
LEMMA InitImage == ASSUME Init PROVE ImageInv
BY DEF Init, ImageInv, ImageUpInv, Late, Passed, Region, RestoredFrozen, Up, Busy

-----------------------------------------------------------------------------
(* As long as no snapshot began while a handler of an earlier one ran.     *)
Sound == ~overlap => IInv /\ ImageInv

(* Once disturbed, a run stays so.                                         *)
LEMMA OverlapKept == ASSUME [Next]_vars, overlap PROVE overlap'
<1> USE DEF vars, snapVars
<1>1. CASE UNCHANGED vars \/ (\E b \in Block : ChangeAllocation(b)) \/ Crash \/ Load \/ Ended
  BY Zenon, <1>1 DEF ChangeAllocation, Crash, Load, Ended
<1>2. CASE \E w \in Writer : WriterStep(w) \/ \E b \in Block : BeginStore(w, b)
  BY Zenon, <1>2 DEF BeginStore, WriterStep, Store, SignalHandler, FaultClaim, FaultSpin,
                     FaultCopy, FaultRelease, FaultPublish
<1>3. CASE \E t \in Thread : ThreadStep(t)
  BY Zenon, <1>3 DEF ThreadStep, WorkerClaim, WorkerCopy, WorkerRelease, WorkerPublish,
                     WorkerReturn
<1>4. CASE StartSnapshot \/ SnapshotStep
  BY Zenon, <1>4 DEF StartSnapshot, SnapshotStep, PrepareSnapshot, WaitForRunningTransactions,
                     SaveBitmap, MarkBlock, SaveModifiedPages, WaitForFaultHandlers,
                     CleanEnvironment, DeleteSnapshot
<1> QED
  BY Zenon, <1>1, <1>2, <1>3, <1>4 DEF Next

LEMMA AlwaysSound == ASSUME BlockCount > 0 PROVE Spec => []Sound
<1>1. Block # {}
  BY ShareAssumption DEF Block
<1>2. Init => Sound
  BY Zenon, <1>1, InitIInv, InitImage DEF Sound
<1>3. Sound /\ [Next]_vars => Sound'
  BY Zenon, OverlapKept, NextIInv, NextImage DEF Sound
<1> QED
  BY <1>2, <1>3, PTL DEF Spec

(* A block that a snapshot counts as saved holds what it held when         *)
(* mprotect froze it, whichever of the fault handlers and the snapshot     *)
(* threads copied it, however many there are and however they interleave   *)
(* with stores, allocations and a crash, and however many snapshots are    *)
(* made one after the other, if none begins while a handler still runs.    *)
THEOREM FrozenImage == ASSUME BlockCount > 0 PROVE Spec => []CopyIsFrozenImage
<1>1. Sound => CopyIsFrozenImage
  BY Zenon DEF Sound, IInv, SavedFrozen, CopyIsFrozenImage
<1> QED
  BY <1>1, AlwaysSound, PTL

(* What load restores from a snapshot that has its time is the image that  *)
(* was frozen, for any number of blocks, threads, writers, stores and      *)
(* snapshots, if none begins while a handler of an earlier one still runs. *)
THEOREM Restored == ASSUME BlockCount > 0 PROVE Spec => []RestoredIsFrozen
<1>1. Sound => RestoredIsFrozen
  BY Zenon DEF Sound, ImageInv, RestoredFrozen, RestoredIsFrozen
<1> QED
  BY <1>1, AlwaysSound, PTL

(* A block is read-only only while the snapshot has still to copy it, if   *)
(* no snapshot begins while a handler of an earlier one still runs.        *)
THEOREM ReadOnly == ASSUME BlockCount > 0 PROVE Spec => []ReadOnlyOnlyUntilCopied
<1>1. Sound => ReadOnlyOnlyUntilCopied
  <2> SUFFICES ASSUME IInv, ImageInv, Up, NEW b \in prot
               PROVE  b \in bits /\ context[b] \in {"used", "locked"}
    BY Zenon DEF Sound, ReadOnlyOnlyUntilCopied
  <2>1. ImageUpInv /\ UpInv /\ Types
    BY Zenon DEF IInv, ImageInv
  <2>2. b \in bits /\ b \in Block
    BY Zenon, <2>1 DEF ImageUpInv, Types
  <2>3. context[b] \in {"used", "locked", "null"}
    BY Zenon, <2>1, <2>2 DEF UpInv, BlockInv
  <2>4. context[b] # "null"
    <3>1. spc \in {"mark", "join"} => context[b] # "null"
      BY Zenon, <2>1, <2>2 DEF ImageUpInv
    <3>2. spc \in {"mark", "join"}
      BY <2>1 DEF ImageUpInv
    <3> QED
      BY Zenon, <3>1, <3>2
  <2> QED
    BY <2>2, <2>3, <2>4
<1> QED
  BY <1>1, AlwaysSound, PTL
=============================================================================
