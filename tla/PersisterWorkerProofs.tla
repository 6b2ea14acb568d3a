---------------------- MODULE PersisterWorkerProofs -----------------------
(***************************************************************************)
(* Frame lemmas of the inductive invariant, and the steps of               *)
(* Savitar_thread_notify, of the spin of Savitar_thread_wait and of the    *)
(* worker's exit. Leaves without arithmetic go to Zenon, the others to     *)
(* SMT.                                                                    *)
(***************************************************************************)
EXTENDS PersisterInv, TLAPS

USE BoundsAssumption

(* Nothing of worker w or of its logger changes.                           *)
SameWorker(w) ==
    /\ wpc'[w] = wpc[w]
    /\ ntx'[w] = ntx[w]
    /\ call'[w] = call[w]
    /\ tag'[w] = tag[w]
    /\ depth'[w] = depth[w]
    /\ txo'[w] = txo[w]
    /\ wref'[w] = wref[w]
    /\ wcid'[w] = wcid[w]
    /\ lpc'[w] = lpc[w]
    /\ active'[w] = active[w]
    /\ loff'[w] = loff[w]

(* The slots of the transactions of w stay as they are; slots may be       *)
(* filled for other workers, drained, and commit ids handed out.           *)
SameSlots(w) ==
    /\ \A r \in Ref : body[r].tx # None /\ body[r].tx[1] = w =>
          /\ body'[r] = body[r]
          /\ commit'[r] = commit[r]
          /\ r \in kept' <=> r \in kept
    /\ \A r \in Ref : body'[r] # body[r] => body'[r].tx[1] # w
    /\ durable \subseteq durable'
    /\ \A o \in Object : lastCommit'[o] >= lastCommit[o]

(* Every open transaction of w stays open; a new one is.                   *)
KeepsOpen(w) ==
    /\ ntx'[w] >= ntx[w]
    /\ \A i \in Level : Live(w, i) => Live(w, i)' /\ call'[w][i] = call[w][i]
    /\ \A n \in 1 .. ntx'[w] : n \notin 1 .. ntx[w] => Open(w, <<w, n>>)'

(* w neither takes a commit id nor stores one.                             *)
KeepsId(w) ==
    /\ wpc'[w] = "store" <=> wpc[w] = "store"
    /\ wpc[w] = "store" => wref'[w] = wref[w] /\ wcid'[w] = wcid[w]

(* Before any transaction the inductive invariant holds:                   *)
(* Savitar_thread_create gives every pair zeroed buffers and every log is  *)
(* empty.                                                                  *)
LEMMA InitIInv == Init => IInv
<1> SUFFICES ASSUME Init PROVE IInv
  BY Zenon
<1>1. TypeOK
  BY NoneAssumption DEF Init, TypeOK, Level, Slot, Blank, Entry, Call
<1>2. ASSUME NEW w \in Worker PROVE WorkerInv(w)
  BY DEF Init, WorkerInv, DepthInv, TagInv, CallInv, LevelInv, CommitInv, LoggerInv,
         InNotify, SteppedBack, Committing, Appending, Published, Live, Opening, Level
<1>3. \A r \in Ref : SlotInv(r)
  BY DEF Init, SlotInv, Ref, Slot, Blank
<1>4. LoggedExactlyOnce
  BY DEF Init, LoggedExactlyOnce, Ref, Slot, Blank
<1>5. CommitIdsContiguous
  BY DEF Init, CommitIdsContiguous, Slot, Ref
<1> QED
  BY Zenon, <1>1, <1>2, <1>3, <1>4, <1>5 DEF IInv

(* The type invariant at one worker: what its buffers and registers and    *)
(* those of its logger hold.                                               *)
LEMMA WorkerTypes ==
  ASSUME TypeOK, NEW w \in Worker
  PROVE  /\ ntx[w] \in 0 .. MaxTx
         /\ call[w] \in [Level -> Call]
         /\ tag[w] \in [Level -> {"zero", "call", "term"}]
         /\ depth[w] \in 0 .. MaxNest
         /\ txo[w] \in [1 .. MAX_ACTIVE_TXS -> 0 .. LogSize]
         /\ wref[w] \in Ref \cup {None}
         /\ wcid[w] \in Nat
         /\ active[w] \in 0 .. MaxWord
         /\ loff[w] \in 0 .. LogSize
BY Zenon DEF TypeOK

(* The counters of a worker are numbers that can be compared.              *)
LEMMA WorkerNumbers ==
  ASSUME TypeOK, NEW w \in Worker
  PROVE  /\ ntx[w] \in Nat
         /\ ntx[w] >= ntx[w]
         /\ Published(w) \in Int
<1>1. ntx[w] \in 0 .. MaxTx /\ depth[w] \in 0 .. MaxNest
  BY Zenon, WorkerTypes
<1> QED
  BY <1>1 DEF Published

(* The level a logger is writing the entry of is a level of sync_buffer.   *)
LEMMA AppendingLevel ==
  ASSUME TypeOK, NEW w \in Worker, LoggerInv(w), Appending(w)
  PROVE  active[w] \in Level
<1>1. active[w] \in 0 .. MaxWord /\ depth[w] \in 0 .. MaxNest /\ active[w] < Published(w)
  BY Zenon, WorkerTypes DEF LoggerInv
<1> QED
  BY <1>1 DEF Published, Level

(* An open level holds a call of one of its worker's own transactions.     *)
LEMMA LiveTx ==
  ASSUME TypeOK, NEW w \in Worker, WorkerInv(w), NEW i \in Level, Live(w, i)
  PROVE  /\ call[w][i].obj \in Object
         /\ call[w][i].tx \in Tx
         /\ call[w][i].tx # None
         /\ call[w][i].tx[1] = w
         /\ call[w][i].tx[2] \in 1 .. ntx[w]
         /\ call[w][i].tx = <<w, call[w][i].tx[2]>>
<1>1. CallInv(w, i)
  BY Zenon DEF WorkerInv
<1>2. PICK n \in 1 .. ntx[w] : call[w][i].tx = <<w, n>>
  BY Zenon, <1>1 DEF CallInv
<1>3. ntx[w] \in 0 .. MaxTx
  BY Zenon, WorkerTypes
<1>4. <<w, n>> \in Tx
  BY <1>3 DEF Tx
<1> QED
  BY <1>1, <1>2, <1>4, NoneAssumption DEF CallInv

(* No transaction is open at two levels of sync_buffer.                    *)
LEMMA LiveDistinct ==
  ASSUME TypeOK, NEW w \in Worker, WorkerInv(w), NEW i \in Level, NEW j \in Level,
         Live(w, i), Live(w, j), call[w][i].tx = call[w][j].tx
  PROVE  i = j
<1>1. CallInv(w, i) /\ CallInv(w, j)
  BY Zenon DEF WorkerInv
<1>2. call[w][i].tx[2] \in 1 .. ntx[w]
  BY Zenon, LiveTx
<1>3. ~(call[w][i].tx[2] < call[w][j].tx[2]) /\ ~(call[w][j].tx[2] < call[w][i].tx[2])
  BY <1>2
<1>4. ~(i < j) /\ ~(j < i)
  BY Zenon, <1>1, <1>3 DEF CallInv
<1> QED
  BY <1>4 DEF Level

(* A step that leaves a worker, its logger and the entries of its          *)
(* transactions alone keeps what the invariant says of them.               *)
LEMMA OtherWorker ==
  ASSUME IInv, NEW w \in Worker, SameWorker(w), SameSlots(w), TypeOK'
  PROVE  WorkerInv(w)'
<1> USE DEF SameWorker
<1>0. WorkerInv(w) /\ TypeOK
  BY Zenon DEF IInv
<1>t. depth[w] \in 0 .. MaxNest /\ active[w] \in 0 .. MaxWord
  BY Zenon, <1>0 DEF TypeOK
<1>1. DepthInv(w)'
  BY Zenon, <1>0 DEF WorkerInv, DepthInv, InNotify, SteppedBack, Committing
<1>2. ASSUME NEW i \in Level PROVE TagInv(w, i)'
  BY Zenon, <1>0 DEF WorkerInv, TagInv, Published, InNotify
<1>3. ASSUME NEW i \in Level PROVE CallInv(w, i)'
  BY Zenon, <1>0 DEF WorkerInv, CallInv, Live, SteppedBack, Committing
<1>4. ASSUME NEW i \in Level, Live(w, i)
      PROVE  /\ call[w][i].tx # None
             /\ call[w][i].tx[1] = w
  BY Zenon, <1>0, <1>4, LiveTx
<1>5. ASSUME NEW i \in Level, Live(w, i), NEW r, Holds(w, i, r)
      PROVE  Holds(w, i, r)' /\ commit'[r] = commit[r] /\ (r \in durable => r \in durable')
  BY Zenon, <1>4, <1>5 DEF SameSlots, Holds, ParentRef
<1>6. ASSUME NEW i \in Level, Live(w, i), Unlogged(call[w][i].tx)
      PROVE  Unlogged(call[w][i].tx)'
  BY <1>4, <1>6 DEF SameSlots, Unlogged
<1>7. ASSUME NEW i \in Level PROVE LevelInv(w, i)'
  <2>1. LevelInv(w, i)
    BY Zenon, <1>0 DEF WorkerInv
  <2>2. /\ i < Published(w) \/ Opening(w, i) => Live(w, i)
        /\ Published(w)' = Published(w)
        /\ Opening(w, i)' <=> Opening(w, i)
        /\ Appending(w)' <=> Appending(w)
        /\ LevelRef(w, i)' = LevelRef(w, i)
    BY <1>0, <1>t DEF Published, InNotify, Live, Opening, SteppedBack, Appending, LevelRef,
       WorkerInv, DepthInv, Level
  <2> QED
    BY Zenon, <1>5, <1>6, <2>1, <2>2 DEF LevelInv
<1>8. CommitInv(w)'
  <2>1. CommitInv(w)
    BY Zenon, <1>0 DEF WorkerInv
  <2>2. /\ Committing(w)' <=> Committing(w)
        /\ Committing(w) => depth[w] \in Level /\ Live(w, depth[w])
    <3>1. depth[w] \in 0 .. MaxNest /\ DepthInv(w)
      BY Zenon, <1>0, WorkerTypes DEF WorkerInv
    <3>2. Committing(w)' <=> Committing(w)
      BY Zenon, <1>0 DEF Committing
    <3>3. Committing(w) => depth[w] \in Level
      BY <3>1 DEF Committing, DepthInv, Level
    <3> QED
      BY Zenon, <3>2, <3>3 DEF Live
  <2>3. Committing(w) => lastCommit'[wref[w][1]] >= lastCommit[wref[w][1]]
    BY Zenon, <2>1 DEF CommitInv, Holds, Ref, SameSlots
  <2>4. Committing(w) => lastCommit'[wref[w][1]] \in Nat /\ lastCommit[wref[w][1]] \in Nat
    BY Zenon, <1>0, <2>1 DEF CommitInv, Holds, Ref, TypeOK
  <2> QED
    BY <1>5, <2>1, <2>2, <2>3, <2>4 DEF CommitInv
<1>9. LoggerInv(w)'
  <2>1. LoggerInv(w)
    BY Zenon, <1>0 DEF WorkerInv
  <2>2. Appending(w) => active[w] \in Level /\ Live(w, active[w])
    BY <1>t, <2>1 DEF LoggerInv, Live, Level, Published
  <2>3. /\ Published(w)' = Published(w)
        /\ Appending(w)' <=> Appending(w)
    BY Zenon DEF Published, InNotify, Appending
  <2> QED
    BY Zenon, <1>5, <2>1, <2>2, <2>3 DEF LoggerInv
<1> QED
  BY Zenon, <1>1, <1>2, <1>3, <1>7, <1>8, <1>9 DEF WorkerInv

(* A step that writes no entry and closes no transaction keeps what the    *)
(* invariant says of the redo logs.                                        *)
LEMMA SlotFrame ==
  ASSUME IInv, TypeOK', UNCHANGED <<body, commit, kept, tail>>, durable \subseteq durable',
         \A w \in Worker : KeepsOpen(w)
  PROVE  (\A r \in Ref : SlotInv(r)') /\ LoggedExactlyOnce'
<1>1. ASSUME NEW r \in Ref PROVE SlotInv(r)'
  <2>1. SlotInv(r)
    BY Zenon DEF IInv
  <2>2. ASSUME NEW w \in Worker, NEW n \in 1 .. ntx[w],
               body[r].tx = <<w, n>>,
               r \notin kept => \E i \in Level : Live(w, i) /\ call[w][i].tx = body[r].tx
        PROVE  /\ n \in 1 .. ntx'[w]
               /\ r \notin kept => \E i \in Level : Live(w, i)' /\ call'[w][i].tx = body[r].tx
    <3>1. ntx[w] \in Nat /\ ntx'[w] \in Nat /\ ntx'[w] >= ntx[w]
      BY DEF KeepsOpen, IInv, TypeOK
    <3> QED
      BY <2>2, <3>1 DEF KeepsOpen
  <2> QED
    BY Zenon, <2>1, <2>2 DEF SlotInv
<1>2. LoggedExactlyOnce'
  <2>1. LoggedExactlyOnce
    BY Zenon DEF IInv
  <2>2. ASSUME NEW w \in Worker, NEW n \in 1 .. ntx'[w], ~Open(w, <<w, n>>)'
        PROVE  n \in 1 .. ntx[w] /\ ~Open(w, <<w, n>>)
    BY Zenon, <2>2 DEF KeepsOpen, Open
  <2> QED
    BY Zenon, <2>1, <2>2 DEF LoggedExactlyOnce
<1> QED
  BY Zenon, <1>1, <1>2

(* A step in which no commit id is taken or stored keeps the ids of every  *)
(* log contiguous.                                                         *)
LEMMA IdFrame ==
  ASSUME IInv, UNCHANGED <<commit, lastCommit>>, \A w \in Worker : KeepsId(w)
  PROVE  CommitIdsContiguous'
<1>1. CommitIdsContiguous
  BY Zenon DEF IInv
<1>2. ASSUME NEW o \in Object, NEW n
      PROVE  /\ StoredId(o, n)' <=> StoredId(o, n)
             /\ PendingId(o, n)' <=> PendingId(o, n)
  BY Zenon DEF StoredId, PendingId, KeepsId
<1> QED
  BY <1>1, <1>2 DEF CommitIdsContiguous, KeepsId

(* A worker that does not move keeps its transactions open and its commit  *)
(* id.                                                                     *)
LEMMA OthersKeep ==
  ASSUME IInv, NEW v \in Worker, SameWorker(v)
  PROVE  KeepsOpen(v) /\ KeepsId(v)
<1>1. ntx[v] \in Nat
  BY DEF IInv, TypeOK
<1>2. KeepsOpen(v)
  BY <1>1 DEF SameWorker, KeepsOpen, Live, SteppedBack, Committing
<1>3. KeepsId(v)
  BY Zenon DEF SameWorker, KeepsId
<1> QED
  BY Zenon, <1>2, <1>3

(* A step of one worker or logger that writes no entry keeps the           *)
(* invariant if it does so for that worker.                                *)
LEMMA LogStep ==
  ASSUME IInv, NEW w \in Worker, \A v \in Worker \ {w} : SameWorker(v),
         UNCHANGED <<body, commit, kept, tail>>, durable \subseteq durable',
         \A o \in Object : lastCommit'[o] >= lastCommit[o],
         TypeOK', WorkerInv(w)', KeepsOpen(w), CommitIdsContiguous'
  PROVE  IInv'
<1>1. ASSUME NEW v \in Worker \ {w} PROVE WorkerInv(v)' /\ KeepsOpen(v)
  <2>1. SameWorker(v)
    BY Zenon
  <2>2. SameSlots(v)
    BY Zenon DEF SameSlots
  <2> QED
    BY Zenon, <2>1, <2>2, OtherWorker, OthersKeep
<1>2. \A v \in Worker : WorkerInv(v)' /\ KeepsOpen(v)
  BY Zenon, <1>1
<1>3. (\A r \in Ref : SlotInv(r)') /\ LoggedExactlyOnce'
  BY Zenon, <1>2, SlotFrame
<1> QED
  BY Zenon, <1>2, <1>3 DEF IInv

(* The same for a step that does not touch the redo logs at all.           *)
LEMMA QuietStep ==
  ASSUME IInv, NEW w \in Worker, \A v \in Worker \ {w} : SameWorker(v),
         UNCHANGED logVars, TypeOK', WorkerInv(w)', KeepsOpen(w), KeepsId(w)
  PROVE  IInv'
<1>1. \A v \in Worker \ {w} : KeepsId(v)
  BY Zenon, OthersKeep
<1>2. UNCHANGED <<commit, lastCommit>> /\ \A v \in Worker : KeepsId(v)
  BY Zenon, <1>1 DEF logVars
<1>3. CommitIdsContiguous'
  BY Zenon, <1>2, IdFrame
<1>4. \A o \in Object : lastCommit'[o] >= lastCommit[o]
  BY <1>2 DEF IInv, TypeOK
<1> QED
  BY Zenon, <1>3, <1>4, LogStep DEF logVars

-----------------------------------------------------------------------------
(* The worker's actions.                                                   *)

(* Savitar_thread_notify up to the increment of the depth.                 *)
LEMMA NotifyStep ==
  ASSUME IInv, NEW w \in Worker, NEW o \in Object, Notify(w, o)
  PROVE  IInv'
<1>d. PICK d : d = depth[w]
  BY Zenon
<1>t. PICK t : t = <<w, ntx[w] + 1>>
  BY Zenon
<1>0. WorkerInv(w) /\ TypeOK
  BY Zenon DEF IInv
<1>1. wpc[w] = "app" /\ d < MaxNest /\ d < MAX_ACTIVE_TXS /\ ntx[w] < MaxTx
  BY Zenon, <1>d DEF Notify
<1>2. d \in 0 .. MaxNest /\ ntx[w] \in 0 .. MaxTx /\ active[w] \in 0 .. MaxWord
  BY Zenon, <1>0, <1>d, WorkerTypes
<1>3. d \in Level /\ d + 1 \in 0 .. MaxNest /\ ntx[w] + 1 \in 1 .. MaxTx
  BY <1>1, <1>2 DEF Level
<1>4. t \in Tx /\ t # None
  BY <1>3, <1>t, NoneAssumption DEF Tx
<1>5. [obj |-> o, tx |-> t] \in Call
  BY Zenon, <1>4 DEF Call
<1>6. wpc'[w] = "clear" /\ depth'[w] = d + 1 /\ ntx'[w] = ntx[w] + 1
  BY Zenon, <1>0, <1>d DEF Notify, TypeOK
<1>u. UNCHANGED <<tag, txo, wref, wcid, lpc, active, loff, logVars>>
  BY Zenon DEF Notify, loggerVars
<1>v. \A v \in Worker \ {w} : SameWorker(v)
  BY Zenon, <1>0 DEF Notify, TypeOK, SameWorker, loggerVars
<1>7. /\ call' \in [Worker -> [Level -> Call]]
      /\ call'[w] = [call[w] EXCEPT ![d] = [obj |-> o, tx |-> t]]
  BY Zenon, <1>0, <1>d, <1>t, <1>3, <1>5 DEF TypeOK, Notify
<1>8. TypeOK'
  <2>1. depth' \in [Worker -> 0 .. MaxNest]
    BY Zenon, <1>0, <1>3, <1>d DEF TypeOK, Notify
  <2>2. ntx[w] + 1 \in 0 .. MaxTx
    BY <1>1, <1>2
  <2>3. ntx' \in [Worker -> 0 .. MaxTx]
    BY Zenon, <1>0, <2>2 DEF TypeOK, Notify
  <2> QED
    BY Zenon, <1>0, <1>7, <2>1, <2>3 DEF TypeOK, Notify, loggerVars, logVars, lockVars
<1>9. /\ \A i \in Level : i # d => call'[w][i] = call[w][i]
      /\ call'[w][d].obj = o /\ call'[w][d].tx = t
  BY <1>0, <1>3, <1>7, WorkerTypes
<1>10. ASSUME NEW i \in Level
       PROVE  /\ Live(w, i) <=> i < d
              /\ Live(w, i)' <=> i <= d
              /\ Opening(w, i)' <=> i = d
              /\ ~Opening(w, i)
              /\ Published(w)' = d /\ Published(w) = d
              /\ Appending(w)' <=> Appending(w)
              /\ i # d => LevelRef(w, i)' = LevelRef(w, i)
              /\ \A r : i < d /\ Holds(w, i, r) => Holds(w, i, r)'
  <2>0. i \in Nat /\ d \in Nat
    BY <1>2 DEF Level
  <2>1. /\ Live(w, i) <=> i < d
        /\ Live(w, i)' <=> i <= d
        /\ Opening(w, i)' <=> i = d
        /\ ~Opening(w, i)
        /\ Published(w)' = d /\ Published(w) = d
    BY <1>1, <1>6, <1>d, <2>0 DEF Live, Opening, Published, SteppedBack, InNotify, Committing
  <2>2. /\ Appending(w)' <=> Appending(w)
        /\ i # d => LevelRef(w, i)' = LevelRef(w, i)
    BY Zenon, <1>u, <1>9 DEF Appending, LevelRef
  <2>3. i < d /\ i # 0 => i - 1 \in Level /\ i - 1 # d
    BY <1>2 DEF Level
  <2>4. i < d => ParentRef(w, i)' = ParentRef(w, i)
    BY Zenon, <1>u, <1>9, <2>3 DEF ParentRef
  <2>5. i < d => call'[w][i] = call[w][i]
    BY <1>9, <2>0
  <2> QED
    BY Zenon, <1>u, <2>1, <2>2, <2>4, <2>5 DEF Holds, logVars
<1>11. ASSUME NEW r \in Ref PROVE body[r].tx # t
  <2>1. SlotInv(r)
    BY Zenon DEF IInv
  <2>2. r[2] \in Int /\ tail[r[1]] \in Int
    BY <1>0 DEF TypeOK, Ref, Slot
  <2>3. CASE r[2] >= tail[r[1]]
    BY <2>1, <2>3, <1>4 DEF SlotInv, Blank
  <2>4. CASE r[2] < tail[r[1]]
    <3>1. PICK v \in Worker : \E n \in 1 .. ntx[v] : body[r].tx = <<v, n>>
      BY Zenon, <2>1, <2>4 DEF SlotInv
    <3>2. PICK n \in 1 .. ntx[v] : body[r].tx = <<v, n>>
      BY Zenon, <3>1
    <3>3. v = w => n # ntx[w] + 1
      BY <1>2
    <3> QED
      BY <3>2, <3>3, <1>t
  <2> QED
    BY <2>2, <2>3, <2>4
<1>12. DepthInv(w)'
  BY <1>2, <1>6 DEF DepthInv, InNotify, SteppedBack, Committing
<1>13. ASSUME NEW i \in Level PROVE TagInv(w, i)'
  <2>1. TagInv(w, i)
    BY Zenon, <1>0 DEF WorkerInv
  <2> QED
    BY Zenon, <1>1, <1>6, <1>u, <1>10, <2>1 DEF TagInv
<1>14. ASSUME NEW i \in Level PROVE CallInv(w, i)'
  <2>1. \A j \in Level : CallInv(w, j)
    BY Zenon, <1>0 DEF WorkerInv
  <2>2. \A j \in Level : j < d => call[w][j].tx[2] \in 1 .. ntx[w]
    BY <2>1, <1>10 DEF CallInv
  <2>3. \A j \in Level : j < i /\ i <= d => j < d
    BY <1>2 DEF Level
  <2>4. \A n \in 1 .. ntx[w] : n \in 1 .. ntx'[w] /\ n < ntx[w] + 1
    BY <1>2, <1>6
  <2>5. CASE i < d
    BY <1>6, <1>9, <1>10, <2>1, <2>3, <2>4, <2>5 DEF CallInv
  <2>6. CASE i = d
    <3>1. t = <<w, ntx'[w]>> /\ ntx'[w] \in 1 .. ntx'[w] /\ t[2] = ntx[w] + 1
      BY <1>2, <1>6, <1>t
    <3>2. \A j \in Level : j < i =>
             call'[w][j] = call[w][j] /\ call[w][j].tx[2] < ntx[w] + 1
      BY <1>2, <1>9, <2>2, <2>4, <2>6 DEF Level
    <3> QED
      BY Zenon, <1>9, <2>6, <3>1, <3>2 DEF CallInv
  <2> QED
    BY <1>2, <1>10, <2>5, <2>6 DEF CallInv, Level
<1>15. ASSUME NEW i \in Level PROVE LevelInv(w, i)'
  <2>1. LevelInv(w, i)
    BY Zenon, <1>0 DEF WorkerInv
  <2>2. CASE i = d
    BY <1>2, <1>6, <1>u, <1>9, <1>10, <1>11, <2>2 DEF LevelInv, Unlogged, logVars
  <2>3. CASE i # d
    BY Zenon, <1>6, <1>u, <1>9, <1>10, <2>1, <2>3 DEF LevelInv, Unlogged, logVars
  <2> QED
    BY Zenon, <2>2, <2>3
<1>16. CommitInv(w)'
  BY Zenon, <1>6 DEF CommitInv, Committing
<1>17. LoggerInv(w)'
  <2>1. LoggerInv(w)
    BY Zenon, <1>0 DEF WorkerInv
  <2>2. Appending(w) => active[w] \in Level /\ active[w] < d /\ active[w] # d
    BY <1>2, <1>3, <1>10, <2>1 DEF LoggerInv, Level
  <2> QED
    BY Zenon, <1>1, <1>3, <1>6, <1>u, <1>9, <1>10, <2>1, <2>2 DEF LoggerInv, Appending, logVars
<1>18. WorkerInv(w)'
  BY Zenon, <1>12, <1>13, <1>14, <1>15, <1>16, <1>17 DEF WorkerInv
<1>19. KeepsOpen(w)
  <2>1. ntx'[w] >= ntx[w] /\ \A n \in 1 .. ntx'[w] : n \in 1 .. ntx[w] \/ n = ntx[w] + 1
    BY <1>2, <1>6
  <2>2. \A i \in Level : i < d => i <= d /\ i # d
    BY <1>2 DEF Level
  <2>3. Live(w, d)'
    BY <1>2, <1>3, <1>10
  <2> QED
    BY Zenon, <1>3, <1>t, <1>9, <1>10, <2>1, <2>2, <2>3 DEF KeepsOpen, Open
<1>20. KeepsId(w)
  BY Zenon, <1>1, <1>6 DEF KeepsId
<1> QED
  BY Zenon, <1>u, <1>v, <1>8, <1>18, <1>19, <1>20, QuietStep

(* A step of Savitar_thread_notify between the increment and the tag: the  *)
(* new transaction stays the one being opened, and the levels below it     *)
(* are left alone.                                                         *)
LEMMA GateMove ==
  ASSUME IInv, NEW w \in Worker, TypeOK', DepthInv(w)',
         \A v \in Worker \ {w} : SameWorker(v),
         UNCHANGED <<call, tag, ntx, lpc, active, loff, logVars>>,
         Published(w)' = Published(w),
         \A i \in Level : (Live(w, i)' <=> Live(w, i)) /\ (Opening(w, i)' <=> Opening(w, i)),
         \A i \in Level : i < Published(w) => txo'[w][i + 1] = txo[w][i + 1],
         \A i \in Level : Opening(w, i)' => txo'[w][i + 1] = 0,
         ~Committing(w), ~Committing(w)', wpc[w] # "done", wpc'[w] # "done"
  PROVE  IInv'
<1>0. WorkerInv(w) /\ TypeOK
  BY Zenon DEF IInv
<1>1. depth[w] \in 0 .. MaxNest /\ active[w] \in 0 .. MaxWord /\ Published(w) \in Int
  BY Zenon, <1>0, WorkerTypes, WorkerNumbers
<1>2. ASSUME NEW i \in Level PROVE TagInv(w, i)' /\ CallInv(w, i)'
  BY Zenon, <1>0 DEF WorkerInv, TagInv, CallInv
<1>3. ASSUME NEW i \in Level, i < Published(w)
      PROVE  /\ LevelRef(w, i)' = LevelRef(w, i)
             /\ \A r : Holds(w, i, r)' <=> Holds(w, i, r)
  <2>1. i # 0 => i - 1 \in Level /\ i - 1 < Published(w) /\ (i - 1) + 1 = i
    BY <1>1, <1>3 DEF Level
  <2>2. ParentRef(w, i)' = ParentRef(w, i)
    BY Zenon, <2>1 DEF ParentRef
  <2> QED
    BY Zenon, <1>3, <2>2 DEF LevelRef, Holds, logVars
<1>4. Appending(w)' <=> Appending(w)
  BY Zenon DEF Appending
<1>5. ASSUME NEW i \in Level PROVE LevelInv(w, i)'
  <2>1. LevelInv(w, i)
    BY Zenon, <1>0 DEF WorkerInv
  <2> QED
    BY Zenon, <1>3, <1>4, <2>1 DEF LevelInv, Unlogged, logVars
<1>6. CommitInv(w)'
  BY Zenon DEF CommitInv
<1>7. LoggerInv(w)'
  <2>1. LoggerInv(w)
    BY Zenon, <1>0 DEF WorkerInv
  <2>2. Appending(w) => active[w] \in Level
    BY Zenon, <1>0, <2>1, AppendingLevel
  <2> QED
    BY Zenon, <1>3, <1>4, <2>1, <2>2 DEF LoggerInv, logVars
<1>8. WorkerInv(w)'
  BY Zenon, <1>2, <1>5, <1>6, <1>7 DEF WorkerInv
<1>9. ntx'[w] >= ntx[w]
  BY Zenon, <1>0, WorkerNumbers
<1>10. KeepsOpen(w) /\ KeepsId(w)
  BY Zenon, <1>9 DEF KeepsOpen, KeepsId, Committing
<1> QED
  BY Zenon, <1>8, <1>10, QuietStep

(* tx_buffer[tx_buffer[0]] = 0: no stale offset is left at the new level.  *)
LEMMA ClearOffsetStep ==
  ASSUME IInv, NEW w \in Worker, ClearOffset(w)
  PROVE  IInv'
<1>0. WorkerInv(w) /\ TypeOK
  BY Zenon DEF IInv
<1>1. depth[w] \in 1 .. MaxNest /\ depth[w] \in 1 .. MAX_ACTIVE_TXS
  BY <1>0, WorkerTypes DEF WorkerInv, DepthInv, InNotify, ClearOffset
<1>2. wpc[w] = "clear" /\ wpc'[w] = "gate"
  BY Zenon, <1>0 DEF ClearOffset, TypeOK
<1>u. UNCHANGED <<call, tag, ntx, depth, lpc, active, loff, logVars>>
  BY Zenon DEF ClearOffset, loggerVars
<1>v. \A v \in Worker \ {w} : SameWorker(v)
  BY Zenon, <1>0 DEF ClearOffset, TypeOK, SameWorker, loggerVars
<1>3. /\ txo' \in [Worker -> [1 .. MAX_ACTIVE_TXS -> 0 .. LogSize]]
      /\ txo'[w] = [txo[w] EXCEPT ![depth[w]] = 0]
  <2>1. 0 \in 0 .. LogSize
    OBVIOUS
  <2> QED
    BY Zenon, <1>0, <1>1, <2>1 DEF ClearOffset, TypeOK
<1>4. TypeOK'
  BY Zenon, <1>0, <1>3 DEF ClearOffset, TypeOK, loggerVars, logVars, lockVars
<1>5. /\ DepthInv(w)' /\ Published(w)' = Published(w) /\ Published(w) = depth[w] - 1
      /\ ~Committing(w) /\ ~Committing(w)'
  BY <1>0, <1>1, <1>2, <1>u DEF DepthInv, Published, InNotify, SteppedBack, Committing
<1>6. ASSUME NEW i \in Level
      PROVE  /\ Live(w, i)' <=> Live(w, i)
             /\ Opening(w, i)' <=> Opening(w, i)
             /\ Opening(w, i) => i + 1 = depth[w]
             /\ i < Published(w) => i + 1 # depth[w]
             /\ i + 1 \in 1 .. MAX_ACTIVE_TXS
  BY <1>1, <1>2, <1>u, <1>5 DEF Live, Opening, InNotify, SteppedBack, Committing, Level
<1>7. ASSUME NEW i \in 1 .. MAX_ACTIVE_TXS
      PROVE  txo'[w][i] = IF i = depth[w] THEN 0 ELSE txo[w][i]
  BY Zenon, <1>0, <1>1, <1>3, WorkerTypes
<1> QED
  BY Zenon, <1>2, <1>u, <1>v, <1>4, <1>5, <1>6, <1>7, GateMove

(* The snapshot_lock test, stepping back and coming back.                  *)
LEMMA GateStep ==
  ASSUME IInv, NEW w \in Worker, Gate(w) \/ Unblock(w) \/ Resume(w)
  PROVE  IInv'
<1>0. WorkerInv(w) /\ TypeOK
  BY Zenon DEF IInv
<1>1. depth[w] \in 0 .. MaxNest
  BY Zenon, <1>0, WorkerTypes
<1>2. \/ wpc[w] = "gate" /\ depth[w] = 1 /\ wpc'[w] = "blocked" /\ depth'[w] = 0
      \/ wpc[w] = "gate" /\ wpc'[w] = "tag" /\ depth'[w] = depth[w]
      \/ wpc[w] = "blocked" /\ wpc'[w] = "resume" /\ depth'[w] = depth[w]
      \/ wpc[w] = "resume" /\ wpc'[w] = "tag" /\ depth'[w] = 1
  BY Zenon, <1>0 DEF Gate, Unblock, Resume, TypeOK, bufferVars
<1>u. UNCHANGED <<call, tag, ntx, txo, lpc, active, loff, logVars>>
  BY Zenon DEF Gate, Unblock, Resume, loggerVars, bufferVars
<1>v. \A v \in Worker \ {w} : SameWorker(v)
  BY Zenon, <1>0 DEF Gate, Unblock, Resume, TypeOK, SameWorker, loggerVars, bufferVars
<1>4. TypeOK'
  <2>1. depth' \in [Worker -> 0 .. MaxNest]
    <3>1. 0 \in 0 .. MaxNest /\ 1 \in 0 .. MaxNest
      OBVIOUS
    <3>2. depth' = depth \/ \E n \in {0, 1} : depth' = [depth EXCEPT ![w] = n]
      BY Zenon DEF Gate, Unblock, Resume, bufferVars
    <3>3. depth \in [Worker -> 0 .. MaxNest]
      BY Zenon, <1>0 DEF TypeOK
    <3> QED
      BY Zenon, <3>1, <3>2, <3>3
  <2>2. wpc' \in [Worker -> {"app", "clear", "gate", "blocked", "resume", "tag",
                           "cid", "store", "persist", "done"}]
    BY Zenon, <1>0 DEF Gate, Unblock, Resume, TypeOK
  <2>3. UNCHANGED <<wref, wcid, lockVars>>
    BY Zenon DEF Gate, Unblock, Resume
  <2> QED
    BY Zenon, <1>0, <1>u, <2>1, <2>2, <2>3 DEF TypeOK, logVars, lockVars
<1>3. DepthInv(w)
  BY Zenon, <1>0 DEF WorkerInv
<1>5. /\ DepthInv(w)' /\ Published(w)' = Published(w)
      /\ ~Committing(w) /\ ~Committing(w)'
  BY <1>1, <1>2, <1>3 DEF DepthInv, Published, InNotify, SteppedBack, Committing
<1>6. ASSUME NEW i \in Level
      PROVE  /\ Live(w, i)' <=> Live(w, i)
             /\ Opening(w, i)' <=> Opening(w, i)
  BY <1>1, <1>2, <1>3 DEF Live, Opening, InNotify, SteppedBack, Committing, Level, DepthInv
<1>7. \A i \in Level : Opening(w, i) => txo[w][i + 1] = 0
  BY Zenon, <1>0, <1>2 DEF WorkerInv, LevelInv
<1>8. wpc[w] # "done" /\ wpc'[w] # "done"
  BY Zenon, <1>2
<1> QED
  BY Zenon, <1>u, <1>v, <1>4, <1>5, <1>6, <1>7, <1>8, GateMove

(* The tag hands the call to the logger.                                   *)
LEMMA SetTagStep ==
  ASSUME IInv, NEW w \in Worker, SetTag(w)
  PROVE  IInv'
<1>0. WorkerInv(w) /\ TypeOK
  BY Zenon DEF IInv
<1>d. PICK d : d = depth[w] - 1
  BY Zenon
<1>1. /\ wpc[w] = "tag" /\ wpc'[w] = "app"
      /\ d \in Level /\ d \in 0 .. MaxNest - 1 /\ depth[w] = d + 1 /\ depth'[w] = d + 1
      /\ active[w] \in 0 .. MaxWord
  <2>1. wpc[w] = "tag" /\ wpc'[w] = "app" /\ depth'[w] = depth[w]
    BY Zenon, <1>0 DEF SetTag, TypeOK
  <2>2. depth[w] \in 1 .. MaxNest /\ active[w] \in 0 .. MaxWord
    BY <1>0, <2>1, WorkerTypes DEF WorkerInv, DepthInv, InNotify
  <2> QED
    BY <1>d, <2>1, <2>2 DEF Level
<1>u. UNCHANGED <<call, ntx, depth, txo, wref, wcid, lpc, active, loff, logVars>>
  BY Zenon DEF SetTag, loggerVars
<1>v. \A v \in Worker \ {w} : SameWorker(v)
  BY Zenon, <1>0 DEF SetTag, TypeOK, SameWorker, loggerVars
<1>2. tag' \in [Worker -> [Level -> {"zero", "call", "term"}]]
  BY Zenon, <1>0, <1>1, <1>d DEF SetTag, TypeOK
<1>3. \A i \in Level : tag'[w][i] = IF i = d THEN "call" ELSE tag[w][i]
  BY Zenon, <1>0, <1>d DEF SetTag, TypeOK
<1>4. TypeOK'
  BY Zenon, <1>0, <1>2 DEF SetTag, TypeOK, loggerVars, logVars, lockVars
<1>5. /\ DepthInv(w)' /\ Published(w) = d /\ Published(w)' = d + 1
      /\ ~Committing(w) /\ ~Committing(w)'
      /\ Appending(w)' <=> Appending(w)
  BY <1>1, <1>u DEF DepthInv, Published, InNotify, SteppedBack, Committing, Appending
<1>6. ASSUME NEW i \in Level
      PROVE  /\ Live(w, i)' <=> Live(w, i)
             /\ Live(w, i) <=> i <= d
             /\ ~Opening(w, i)'
             /\ Opening(w, i) <=> i = d
             /\ LevelRef(w, i)' = LevelRef(w, i)
             /\ ParentRef(w, i)' = ParentRef(w, i)
             /\ i < d + 1 <=> i < d \/ i = d
             /\ i > 0 => i - 1 \in Level /\ (i <= d => i - 1 < d)
  BY <1>1, <1>u DEF Live, Opening, InNotify, SteppedBack, Committing, Level, LevelRef, ParentRef
<1>7. ASSUME NEW i \in Level PROVE TagInv(w, i)' /\ CallInv(w, i)'
  <2>1. TagInv(w, i) /\ CallInv(w, i)
    BY Zenon, <1>0 DEF WorkerInv
  <2>2. CallInv(w, i)'
    BY Zenon, <1>u, <1>6, <2>1 DEF CallInv
  <2>3. i >= d + 1 => i >= d /\ i # d
    BY <1>1 DEF Level
  <2>4. TagInv(w, i)'
    BY Zenon, <1>1, <1>3, <1>5, <1>6, <2>1, <2>3 DEF TagInv
  <2> QED
    BY Zenon, <2>2, <2>4
<1>8. ASSUME NEW i \in Level PROVE LevelInv(w, i)'
  <2>1. LevelInv(w, i)
    BY Zenon, <1>0 DEF WorkerInv
  <2>2. CASE i = d
    BY Zenon, <1>1, <1>3, <1>5, <1>6, <1>u, <2>1, <2>2 DEF LevelInv, Unlogged, logVars
  <2>3. CASE i # d
    <3>1. i > 0 /\ i < d => i - 1 \in Level /\ i - 1 # d
      BY <1>1 DEF Level
    <3> QED
      BY Zenon, <1>3, <1>5, <1>6, <1>u, <2>1, <2>3, <3>1 DEF LevelInv, Unlogged, Holds, logVars
  <2> QED
    BY Zenon, <2>2, <2>3
<1>9. CommitInv(w)'
  BY Zenon, <1>5 DEF CommitInv
<1>10. LoggerInv(w)'
  <2>1. LoggerInv(w)
    BY Zenon, <1>0 DEF WorkerInv
  <2>2. Appending(w) => /\ active[w] \in Level /\ active[w] # d /\ active[w] < d + 1
                        /\ active[w] > 0 => active[w] - 1 \in Level /\ active[w] - 1 # d
    BY <1>1, <1>5, <2>1 DEF LoggerInv, Level
  <2> QED
    BY Zenon, <1>1, <1>3, <1>5, <1>6, <1>u, <2>1, <2>2 DEF LoggerInv, Holds, logVars
<1>11. WorkerInv(w)'
  BY Zenon, <1>5, <1>7, <1>8, <1>9, <1>10 DEF WorkerInv
<1>12. ntx[w] \in Nat
  BY Zenon, <1>0, WorkerNumbers
<1>13. KeepsOpen(w) /\ KeepsId(w)
  BY <1>1, <1>6, <1>12, <1>u DEF KeepsOpen, KeepsId
<1> QED
  BY Zenon, <1>u, <1>v, <1>4, <1>11, <1>13, QuietStep

(* The end of the spin in Savitar_thread_wait: the level that is closed    *)
(* has its durable entry, at the offset the logger left in tx_buffer.      *)
LEMMA WaitLoggedStep ==
  ASSUME IInv, NEW w \in Worker, WaitLogged(w)
  PROVE  IInv'
<1>0. WorkerInv(w) /\ TypeOK
  BY Zenon DEF IInv
<1>d. PICK d : d = depth[w] - 1
  BY Zenon
<1>1. /\ wpc[w] = "app" /\ wpc'[w] = "cid"
      /\ d \in Level /\ d \in 0 .. MaxNest - 1 /\ depth[w] = d + 1 /\ depth'[w] = d
      /\ active[w] \in 0 .. MaxWord
      /\ tag[w][d] = "zero"
  <2>1. wpc[w] = "app" /\ wpc'[w] = "cid" /\ depth'[w] = depth[w] - 1 /\ depth[w] > 0
    BY Zenon, <1>0 DEF WaitLogged, TypeOK
  <2>2. depth[w] \in 0 .. MaxNest /\ active[w] \in 0 .. MaxWord
    BY Zenon, <1>0, WorkerTypes
  <2>3. tag[w][depth[w] - 1] = "zero"
    BY Zenon DEF WaitLogged
  <2> QED
    BY <1>d, <2>1, <2>2, <2>3 DEF Level
<1>u. UNCHANGED <<call, tag, ntx, txo, wcid, lpc, active, loff, logVars>>
  BY Zenon DEF WaitLogged, loggerVars
<1>v. \A v \in Worker \ {w} : SameWorker(v)
  BY Zenon, <1>0 DEF WaitLogged, TypeOK, SameWorker, loggerVars
<1>2. /\ Published(w) = d + 1 /\ Published(w)' = d
      /\ ~Committing(w) /\ Committing(w)'
      /\ Appending(w)' <=> Appending(w)
      /\ d < d + 1
  <2>1. ~InNotify(w) /\ ~InNotify(w)' /\ ~Committing(w) /\ Committing(w)' /\ (Appending(w)' <=> Appending(w))
    BY Zenon, <1>1, <1>u DEF InNotify, Committing, Appending
  <2>2. Published(w) = d + 1 /\ Published(w)' = d
    BY Zenon, <1>1, <2>1 DEF Published
  <2>3. d < d + 1
    BY <1>1
  <2> QED
    BY Zenon, <2>1, <2>2, <2>3
<1>3. LevelInv(w, d)
  BY Zenon, <1>0, <1>1 DEF WorkerInv
<1>4. wref'[w] = LevelRef(w, d)
  BY Zenon, <1>0, <1>1 DEF WaitLogged, TypeOK, LevelRef
<1>5. /\ Holds(w, d, wref'[w]) /\ wref'[w] \in durable /\ commit[wref'[w]] = 0
      /\ d > 0 => tag[w][d - 1] = "zero"
  BY Zenon, <1>1, <1>2, <1>3, <1>4 DEF LevelInv
<1>6. TypeOK'
  <2>1. depth' \in [Worker -> 0 .. MaxNest]
    <3>1. d \in 0 .. MaxNest
      BY <1>1
    <3> QED
      BY Zenon, <1>0, <1>1, <3>1 DEF WaitLogged, TypeOK
  <2>2. wref' \in [Worker -> Ref \cup {None}]
    BY Zenon, <1>0, <1>5 DEF WaitLogged, TypeOK, Holds
  <2> QED
    BY Zenon, <1>0, <2>1, <2>2 DEF WaitLogged, TypeOK, loggerVars, logVars, lockVars
<1>7. ASSUME NEW i \in Level
      PROVE  /\ Live(w, i)' <=> Live(w, i)
             /\ ~Opening(w, i)'
             /\ LevelRef(w, i)' = LevelRef(w, i)
             /\ ParentRef(w, i)' = ParentRef(w, i)
             /\ \A r : Holds(w, i, r)' <=> Holds(w, i, r)
             /\ i < d => i < d + 1
  <2>1. /\ Live(w, i)' <=> Live(w, i)
        /\ ~Opening(w, i)'
        /\ i < d => i < d + 1
    BY <1>1 DEF Live, Opening, InNotify, SteppedBack, Committing, Level
  <2> QED
    BY Zenon, <1>u, <2>1 DEF LevelRef, ParentRef, Holds, logVars
<1>8. DepthInv(w)'
  BY <1>1 DEF DepthInv, InNotify, SteppedBack, Committing
<1>9. ASSUME NEW i \in Level PROVE TagInv(w, i)' /\ CallInv(w, i)' /\ LevelInv(w, i)'
  <2>1. TagInv(w, i) /\ CallInv(w, i) /\ LevelInv(w, i)
    BY Zenon, <1>0 DEF WorkerInv
  <2>2. CallInv(w, i)'
    BY Zenon, <1>u, <1>7, <2>1 DEF CallInv
  <2>3. i >= d => i >= d + 1 \/ i = d
    BY <1>1 DEF Level
  <2>4. TagInv(w, i)'
    BY Zenon, <1>1, <1>2, <1>7, <1>u, <2>1, <2>3 DEF TagInv
  <2>5. LevelInv(w, i)'
    BY Zenon, <1>2, <1>7, <1>u, <2>1 DEF LevelInv, Unlogged, logVars
  <2> QED
    BY Zenon, <2>2, <2>4, <2>5
<1>10. CommitInv(w)'
  BY Zenon, <1>1, <1>5, <1>7, <1>u DEF CommitInv, logVars
<1>11. LoggerInv(w)'
  <2>1. LoggerInv(w)
    BY Zenon, <1>0 DEF WorkerInv
  <2>2. Appending(w) => active[w] # d
    BY Zenon, <1>1, <2>1 DEF LoggerInv
  <2>3. Appending(w) => active[w] < d + 1
    BY Zenon, <1>2, <2>1 DEF LoggerInv
  <2>4. Appending(w) => active[w] \in Level /\ active[w] < d
    BY <1>1, <2>2, <2>3 DEF Level
  <2> QED
    BY Zenon, <1>1, <1>2, <1>7, <1>u, <2>1, <2>4 DEF LoggerInv, logVars
<1>12. WorkerInv(w)'
  BY Zenon, <1>8, <1>9, <1>10, <1>11 DEF WorkerInv
<1>13. ntx[w] \in Nat
  BY Zenon, <1>0, WorkerNumbers
<1>14. KeepsOpen(w) /\ KeepsId(w)
  BY <1>1, <1>7, <1>13, <1>u DEF KeepsOpen, KeepsId
<1> QED
  BY Zenon, <1>u, <1>v, <1>6, <1>12, <1>14, QuietStep

(* The worker's TERM: no level is open.                                    *)
LEMMA ExitStep ==
  ASSUME IInv, NEW w \in Worker, Exit(w)
  PROVE  IInv'
<1>0. WorkerInv(w) /\ TypeOK
  BY Zenon DEF IInv
<1>1. /\ wpc[w] = "app" /\ wpc'[w] = "done" /\ depth[w] = 0 /\ depth'[w] = 0
      /\ active[w] \in 0 .. MaxWord /\ 0 \in Level
  BY <1>0, WorkerTypes DEF Exit, TypeOK, Level
<1>u. UNCHANGED <<call, ntx, depth, txo, wref, wcid, lpc, active, loff, logVars>>
  BY Zenon DEF Exit, loggerVars
<1>v. \A v \in Worker \ {w} : SameWorker(v)
  BY Zenon, <1>0 DEF Exit, TypeOK, SameWorker, loggerVars
<1>2. /\ tag' \in [Worker -> [Level -> {"zero", "call", "term"}]]
      /\ \A i \in Level : tag'[w][i] = IF i = 0 THEN "term" ELSE tag[w][i]
  BY Zenon, <1>0, <1>1 DEF Exit, TypeOK
<1>3. TypeOK'
  BY Zenon, <1>0, <1>2 DEF Exit, TypeOK, loggerVars, logVars, lockVars
<1>4. /\ Published(w) = 0 /\ Published(w)' = 0 /\ DepthInv(w)' /\ CommitInv(w)'
      /\ Appending(w)' <=> Appending(w)
  BY Zenon, <1>1, <1>u DEF Published, InNotify, SteppedBack, Committing, Appending, DepthInv, CommitInv
<1>5. \A i \in Level : /\ ~Live(w, i) /\ ~Live(w, i)' /\ ~Opening(w, i)'
                       /\ ~(i < 0) /\ i >= 0
  BY <1>1 DEF Live, Opening, InNotify, SteppedBack, Committing, Level
<1>6. ASSUME NEW i \in Level PROVE TagInv(w, i)' /\ CallInv(w, i)' /\ LevelInv(w, i)'
  <2>1. TagInv(w, i)
    BY Zenon, <1>0 DEF WorkerInv
  <2> QED
    BY Zenon, <1>1, <1>2, <1>4, <1>5, <2>1 DEF TagInv, CallInv, LevelInv
<1>7. LoggerInv(w)'
  <2>1. LoggerInv(w)
    BY Zenon, <1>0 DEF WorkerInv
  <2>2. ~Appending(w)
    BY <1>1, <1>4, <2>1 DEF LoggerInv
  <2> QED
    BY Zenon, <1>1, <1>2, <1>4, <1>u, <2>1, <2>2 DEF LoggerInv
<1>8. WorkerInv(w)'
  BY Zenon, <1>4, <1>6, <1>7 DEF WorkerInv
<1>9. ntx[w] \in Nat
  BY Zenon, <1>0, WorkerNumbers
<1>10. ntx'[w] = ntx[w] /\ ntx'[w] >= ntx[w]
  BY <1>9, <1>u
<1>11. KeepsOpen(w) /\ KeepsId(w)
  BY Zenon, <1>1, <1>5, <1>10, <1>u DEF KeepsOpen, KeepsId
<1> QED
  BY Zenon, <1>u, <1>v, <1>3, <1>8, <1>11, QuietStep

-----------------------------------------------------------------------------
(* The logger's search for the level to serve.                             *)

===========================================================================
