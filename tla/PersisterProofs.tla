------------------------- MODULE PersisterProofs --------------------------
(***************************************************************************)
(* The steps of Savitar_log_commit keep the inductive invariant, and the   *)
(* theorems that follow from it. At the end: how far past the levels in    *)
(* use the logger's index active_tx_id can run, for every number of levels *)
(* and every nesting depth.                                                *)
(***************************************************************************)
EXTENDS PersisterLoggerProofs

USE BoundsAssumption

(* The commit in progress is that of an open transaction, and the slot it  *)
(* stamps is that transaction's durable entry.                             *)
LEMMA CommittingFacts ==
  ASSUME IInv, NEW w \in Worker, Committing(w)
  PROVE  /\ depth[w] \in Level /\ Live(w, depth[w])
         /\ wref[w] \in Ref /\ wref[w][1] \in Object /\ wref[w][2] \in Slot
         /\ wref[w] = <<wref[w][1], wref[w][2]>>
         /\ body[wref[w]].tx = call[w][depth[w]].tx
         /\ body[wref[w]].tx # None /\ body[wref[w]].tx[1] = w
         /\ wref[w] \in durable /\ wref[w] \notin kept
         /\ ~Opening(w, depth[w])
         /\ Published(w) = depth[w]
<1>0. WorkerInv(w) /\ TypeOK
  BY Zenon DEF IInv
<1>1. depth[w] \in 0 .. MaxNest /\ DepthInv(w) /\ CommitInv(w)
  BY Zenon, <1>0, WorkerTypes DEF WorkerInv
<1>2. depth[w] \in Level /\ Live(w, depth[w])
  BY <1>1 DEF DepthInv, Level, Live
<1>3. Holds(w, depth[w], wref[w]) /\ wref[w] \in durable
  BY Zenon, <1>1 DEF CommitInv
<1>4. call[w][depth[w]].tx # None /\ call[w][depth[w]].tx[1] = w
  BY Zenon, <1>0, <1>2, LiveTx
<1>5. ~Opening(w, depth[w]) /\ Published(w) = depth[w]
  BY Zenon DEF Opening, Published, InNotify, SteppedBack, Committing
<1> QED
  BY <1>2, <1>3, <1>4, <1>5 DEF Holds, Ref

(* Entries of other open levels are other entries.                         *)
LEMMA CommittingAlone ==
  ASSUME IInv, NEW w \in Worker, Committing(w),
         NEW i \in Level, i # depth[w], Live(w, i), NEW r, Holds(w, i, r)
  PROVE  r # wref[w]
<1>0. WorkerInv(w) /\ TypeOK
  BY Zenon DEF IInv
<1>1. depth[w] \in Level /\ Live(w, depth[w]) /\ body[wref[w]].tx = call[w][depth[w]].tx
  BY Zenon, CommittingFacts
<1>2. call[w][i].tx # call[w][depth[w]].tx
  BY Zenon, <1>0, <1>1, LiveDistinct
<1> QED
  BY Zenon, <1>1, <1>2 DEF Holds

(* The fetch and add on last_commit: the id is new, and pending until it   *)
(* is stored.                                                              *)
LEMMA TakeCommitIdStep ==
  ASSUME IInv, NEW w \in Worker, TakeCommitId(w)
  PROVE  IInv'
<1>0. WorkerInv(w) /\ TypeOK
  BY Zenon DEF IInv
<1>o. PICK o : o = wref[w][1]
  BY Zenon
<1>m. PICK m : m = lastCommit[o] + 1
  BY Zenon
<1>1. wpc[w] = "cid" /\ wpc'[w] = "store" /\ wcid'[w] = m
  BY Zenon, <1>0, <1>o, <1>m DEF TakeCommitId, TypeOK
<1>u. UNCHANGED <<ntx, wref, bufferVars, loggerVars, body, commit, durable, kept, tail, lockVars>>
  BY Zenon DEF TakeCommitId
<1>v. \A v \in Worker \ {w} : SameWorker(v)
  BY Zenon, <1>0, <1>u DEF TakeCommitId, TypeOK, SameWorker, bufferVars, loggerVars
<1>2. Committing(w) /\ Committing(w)'
  BY Zenon, <1>1 DEF Committing
<1>3. o \in Object
  BY Zenon, <1>2, <1>o, CommittingFacts
<1>4. lastCommit[o] \in Nat /\ m \in Nat /\ m > 0
  <2>1. lastCommit[o] \in Nat
    BY Zenon, <1>0, <1>3 DEF TypeOK
  <2> QED
    BY <1>m, <2>1
<1>5. /\ lastCommit' \in [Object -> Nat]
      /\ \A x \in Object : lastCommit'[x] = IF x = o THEN m ELSE lastCommit[x]
  BY Zenon, <1>0, <1>3, <1>4, <1>o, <1>m DEF TakeCommitId, TypeOK
<1>6. TypeOK'
  <2>1. wcid' \in [Worker -> Nat]
    BY Zenon, <1>0, <1>4, <1>o, <1>m DEF TakeCommitId, TypeOK
  <2>2. wpc' \in [Worker -> {"app", "clear", "gate", "blocked", "resume", "tag",
                           "cid", "store", "persist", "done"}]
    BY Zenon, <1>0 DEF TakeCommitId, TypeOK
  <2> QED
    BY Zenon, <1>0, <1>5, <1>u, <2>1, <2>2 DEF TypeOK, bufferVars, loggerVars, lockVars
<1>7. \A x \in Object : lastCommit[x] \in Nat /\ lastCommit'[x] >= lastCommit[x]
  <2>1. \A x \in Object : lastCommit[x] \in Nat
    BY Zenon, <1>0 DEF TypeOK
  <2> QED
    BY <1>4, <1>5, <1>m, <2>1
<1>8. Published(w)' = Published(w) /\ (Appending(w)' <=> Appending(w))
  BY Zenon, <1>1, <1>u DEF Published, InNotify, Appending, bufferVars, loggerVars
<1>9. ASSUME NEW i \in Level
      PROVE  /\ Live(w, i)' <=> Live(w, i)
             /\ ~Opening(w, i)'
             /\ LevelRef(w, i)' = LevelRef(w, i)
             /\ \A r : Holds(w, i, r)' <=> Holds(w, i, r)
  BY Zenon, <1>1, <1>u DEF Live, Opening, InNotify, SteppedBack, Committing, LevelRef, Holds, ParentRef,
     bufferVars
<1>10. DepthInv(w)'
  BY Zenon, <1>0, <1>1, <1>u DEF WorkerInv, DepthInv, InNotify, SteppedBack, Committing, bufferVars
<1>11. ASSUME NEW i \in Level PROVE TagInv(w, i)' /\ CallInv(w, i)' /\ LevelInv(w, i)'
  <2>1. TagInv(w, i) /\ CallInv(w, i) /\ LevelInv(w, i)
    BY Zenon, <1>0 DEF WorkerInv
  <2>2. TagInv(w, i)' /\ CallInv(w, i)'
    BY Zenon, <1>1, <1>8, <1>9, <1>u, <2>1 DEF TagInv, CallInv, bufferVars
  <2>3. LevelInv(w, i)'
    BY Zenon, <1>8, <1>9, <1>u, <2>1 DEF LevelInv, Unlogged, bufferVars, loggerVars
  <2> QED
    BY Zenon, <2>2, <2>3
<1>12. CommitInv(w)'
  <2>1. CommitInv(w)
    BY Zenon, <1>0 DEF WorkerInv
  <2>2. depth[w] \in Level
    BY Zenon, <1>2, CommittingFacts
  <2>3. lastCommit'[wref[w][1]] = m /\ m \in 1 .. m
    BY <1>3, <1>4, <1>5, <1>o
  <2>4. Holds(w, depth[w], wref[w])'
    BY Zenon, <1>2, <1>9, <1>u, <2>1, <2>2 DEF CommitInv, bufferVars
  <2> QED
    BY Zenon, <1>1, <1>2, <1>u, <2>1, <2>3, <2>4 DEF CommitInv, bufferVars
<1>13. LoggerInv(w)'
  <2>1. LoggerInv(w)
    BY Zenon, <1>0 DEF WorkerInv
  <2>2. Appending(w) => active[w] \in Level
    <3>1. active[w] \in 0 .. MaxWord /\ Published(w) \in Level
      BY <1>0, <1>2, WorkerTypes, CommittingFacts
    <3> QED
      BY <2>1, <3>1 DEF LoggerInv, Level
  <2> QED
    BY Zenon, <1>1, <1>8, <1>9, <1>u, <2>1, <2>2 DEF LoggerInv, bufferVars, loggerVars
<1>14. WorkerInv(w)'
  BY Zenon, <1>10, <1>11, <1>12, <1>13 DEF WorkerInv
<1>15. KeepsOpen(w)
  <2>1. ntx[w] \in Nat
    BY <1>0, WorkerTypes
  <2> QED
    BY <1>9, <1>u, <2>1 DEF KeepsOpen, bufferVars
<1>16. ASSUME NEW v \in Worker, v # w, wpc[v] = "store" /\ wref[v][1] = o
       PROVE  wcid[v] # m
  <2>1. wcid[v] \in 1 .. lastCommit[o]
    BY Zenon, <1>16 DEF IInv, WorkerInv, CommitInv, Committing
  <2> QED
    BY <1>4, <1>m, <2>1
<1>17. CommitIdsContiguous'
  <2>1. CommitIdsContiguous
    BY Zenon DEF IInv
  <2>2. ASSUME NEW x \in Object, NEW n
        PROVE  /\ StoredId(x, n)' <=> StoredId(x, n)
               /\ x = o /\ n = m => PendingId(x, n)'
               /\ ~(x = o /\ n = m) => (PendingId(x, n)' <=> PendingId(x, n))
    <3>1. StoredId(x, n)' <=> StoredId(x, n)
      BY Zenon, <1>u DEF StoredId
    <3>2. \A v \in Worker : v # w =>
             wpc'[v] = wpc[v] /\ wref'[v] = wref[v] /\ wcid'[v] = wcid[v]
      BY Zenon, <1>v DEF SameWorker
    <3> QED
      BY Zenon, <1>1, <1>o, <1>u, <3>1, <3>2 DEF PendingId
  <2>3. ~StoredId(o, m)
    <3>1. \A k \in Slot : commit[<<o, k>>] \in Nat
      BY Zenon, <1>0, <1>3 DEF TypeOK, Ref
    <3>2. \A k \in Slot : commit[<<o, k>>] <= lastCommit[o]
      BY Zenon, <1>3, <2>1 DEF CommitIdsContiguous
    <3> QED
      <4>1. \A k \in Slot : commit[<<o, k>>] # m
        BY <1>4, <1>m, <3>1, <3>2
      <4> QED
        BY Zenon, <4>1 DEF StoredId
  <2>4. ASSUME NEW x \in Object, NEW n \in 1 .. lastCommit'[x]
        PROVE  (StoredId(x, n)' \/ PendingId(x, n)') /\ ~(StoredId(x, n)' /\ PendingId(x, n)')
    <3>1. (x = o /\ n = m) \/ n \in 1 .. lastCommit[x]
      BY <1>4, <1>5, <1>m, <1>7
    <3> QED
      BY Zenon, <1>4, <2>1, <2>2, <2>3, <3>1 DEF CommitIdsContiguous
  <2>5. ASSUME NEW x \in Object, NEW k \in Slot PROVE commit'[<<x, k>>] <= lastCommit'[x]
    <3>1. commit[<<x, k>>] \in Nat /\ commit[<<x, k>>] <= lastCommit[x]
      BY Zenon, <1>0, <2>1 DEF CommitIdsContiguous, TypeOK, Ref
    <3> QED
      BY <1>5, <1>7, <1>4, <1>u, <3>1
  <2>6. ASSUME NEW x \in Object, NEW w1 \in Worker, NEW w2 \in Worker,
               wpc'[w1] = "store" /\ wref'[w1][1] = x,
               wpc'[w2] = "store" /\ wref'[w2][1] = x,
               wcid'[w1] = wcid'[w2]
        PROVE  w1 = w2
    <3>1. \A v \in Worker : v # w =>
             wpc'[v] = wpc[v] /\ wref'[v] = wref[v] /\ wcid'[v] = wcid[v]
      BY Zenon, <1>v DEF SameWorker
    <3>2. CASE w1 # w /\ w2 # w
      BY <2>1, <2>6, <3>1, <3>2 DEF CommitIdsContiguous
    <3>3. CASE w1 = w \/ w2 = w
      BY Zenon, <1>1, <1>16, <1>o, <1>u, <2>6, <3>1, <3>3
    <3> QED
      BY Zenon, <3>2, <3>3
  <2> QED
    BY <1>u, <2>1, <2>4, <2>5, <2>6 DEF CommitIdsContiguous
<1> QED
  BY Zenon, <1>6, <1>7, <1>14, <1>15, <1>17, <1>u, <1>v, LogStep

(* The id moves from the worker to the entry; the entries of the           *)
(* transactions nested in it have theirs.                                  *)
LEMMA StoreCommitIdStep ==
  ASSUME IInv, NEW w \in Worker, StoreCommitId(w)
  PROVE  IInv'
<1>0. WorkerInv(w) /\ TypeOK
  BY Zenon DEF IInv
<1>r. PICK r0 : r0 = wref[w]
  BY Zenon
<1>m. PICK m : m = wcid[w]
  BY Zenon
<1>1. wpc[w] = "store" /\ wpc'[w] = "persist" /\ commit' = [commit EXCEPT ![r0] = m]
  BY Zenon, <1>0, <1>r, <1>m DEF StoreCommitId, TypeOK
<1>u. UNCHANGED <<ntx, wref, wcid, bufferVars, loggerVars, body, durable, kept, tail,
                  lastCommit, lockVars>>
  BY Zenon DEF StoreCommitId
<1>v. \A v \in Worker \ {w} : SameWorker(v)
  BY Zenon, <1>0, <1>u DEF StoreCommitId, TypeOK, SameWorker, bufferVars, loggerVars
<1>2. Committing(w) /\ Committing(w)'
  BY Zenon, <1>1 DEF Committing
<1>3. /\ depth[w] \in Level /\ Live(w, depth[w])
      /\ r0 \in Ref /\ r0[1] \in Object /\ r0[2] \in Slot /\ r0 = <<r0[1], r0[2]>>
      /\ body[r0].tx = call[w][depth[w]].tx
      /\ body[r0].tx # None /\ body[r0].tx[1] = w
      /\ r0 \in durable /\ r0 \notin kept
      /\ Published(w) = depth[w]
  BY Zenon, <1>2, <1>r, CommittingFacts
<1>4. CommitInv(w)
  BY Zenon, <1>0 DEF WorkerInv
<1>5. commit[r0] = 0 /\ m \in 1 .. lastCommit[r0[1]]
  BY Zenon, <1>1, <1>2, <1>4, <1>r, <1>m DEF CommitInv
<1>6. m \in Nat /\ m # 0
  <2>1. lastCommit[r0[1]] \in Nat
    BY Zenon, <1>0, <1>3 DEF TypeOK
  <2> QED
    BY <1>5, <2>1
<1>7. /\ commit' \in [Ref -> Nat]
      /\ \A r \in Ref : commit'[r] = IF r = r0 THEN m ELSE commit[r]
  BY Zenon, <1>0, <1>1, <1>3, <1>6 DEF TypeOK
<1>8. TypeOK'
  <2>1. wpc' \in [Worker -> {"app", "clear", "gate", "blocked", "resume", "tag",
                           "cid", "store", "persist", "done"}]
    BY Zenon, <1>0 DEF StoreCommitId, TypeOK
  <2> QED
    BY Zenon, <1>0, <1>7, <1>u, <2>1 DEF TypeOK, bufferVars, loggerVars, lockVars
<1>9. Published(w)' = Published(w) /\ (Appending(w)' <=> Appending(w))
  BY Zenon, <1>1, <1>u DEF Published, InNotify, Appending, bufferVars, loggerVars
<1>10. ASSUME NEW i \in Level
       PROVE  /\ Live(w, i)' <=> Live(w, i)
              /\ ~Opening(w, i)'
              /\ LevelRef(w, i)' = LevelRef(w, i)
              /\ \A r : Holds(w, i, r)' <=> Holds(w, i, r)
              /\ i < Published(w) => Live(w, i) /\ i # depth[w]
  <2>1. i < Published(w) => Live(w, i) /\ i # depth[w]
    BY <1>3 DEF Live, Level
  <2> QED
    BY Zenon, <1>1, <1>u, <2>1 DEF Live, Opening, InNotify, SteppedBack, Committing, LevelRef, Holds,
       ParentRef, bufferVars
<1>11. ASSUME NEW i \in Level, i < Published(w), NEW r, Holds(w, i, r)
       PROVE  commit'[r] = commit[r]
  <2>1. r # r0
    BY Zenon, <1>2, <1>10, <1>11, <1>r, CommittingAlone
  <2> QED
    BY Zenon, <1>7, <1>11, <2>1 DEF Holds
<1>12. DepthInv(w)'
  BY Zenon, <1>0, <1>1, <1>u DEF WorkerInv, DepthInv, InNotify, SteppedBack, Committing, bufferVars
<1>13. ASSUME NEW i \in Level PROVE TagInv(w, i)' /\ CallInv(w, i)' /\ LevelInv(w, i)'
  <2>1. TagInv(w, i) /\ CallInv(w, i) /\ LevelInv(w, i)
    BY Zenon, <1>0 DEF WorkerInv
  <2>2. TagInv(w, i)' /\ CallInv(w, i)'
    BY Zenon, <1>1, <1>9, <1>10, <1>u, <2>1 DEF TagInv, CallInv, bufferVars
  <2>3. LevelInv(w, i)'
    BY Zenon, <1>9, <1>10, <1>11, <1>u, <2>1 DEF LevelInv, Unlogged, bufferVars, loggerVars
  <2> QED
    BY Zenon, <2>2, <2>3
<1>14. CommitInv(w)'
  <2>1. Holds(w, depth[w], wref[w])'
    BY Zenon, <1>2, <1>3, <1>4, <1>10, <1>u DEF CommitInv, bufferVars
  <2>2. commit'[wref[w]] = wcid[w]
    BY Zenon, <1>3, <1>7, <1>r, <1>m
  <2> QED
    BY Zenon, <1>1, <1>2, <1>4, <1>u, <2>1, <2>2 DEF CommitInv, bufferVars
<1>15. LoggerInv(w)'
  <2>1. LoggerInv(w)
    BY Zenon, <1>0 DEF WorkerInv
  <2>2. Appending(w) => active[w] \in Level
    <3>1. active[w] \in 0 .. MaxWord /\ Published(w) \in Level
      BY Zenon, <1>0, <1>3, WorkerTypes
    <3> QED
      BY <2>1, <3>1 DEF LoggerInv, Level
  <2>3. PICK r : r = <<call[w][active[w]].obj, loff[w]>>
    BY Zenon
  <2>4. Appending(w) => commit'[r] = commit[r] /\ Holds(w, active[w], r)'
    BY Zenon, <1>10, <1>11, <1>u, <2>1, <2>2, <2>3 DEF LoggerInv, loggerVars
  <2> QED
    BY Zenon, <1>1, <1>9, <1>u, <2>1, <2>2, <2>3, <2>4 DEF LoggerInv, bufferVars, loggerVars
<1>16. WorkerInv(w)'
  BY Zenon, <1>12, <1>13, <1>14, <1>15 DEF WorkerInv
<1>17. ASSUME NEW v \in Worker \ {w} PROVE WorkerInv(v)'
  <2>1. SameSlots(v)
    <3>1. \A r \in Ref : body[r].tx # None /\ body[r].tx[1] = v => commit'[r] = commit[r]
      BY Zenon, <1>3, <1>7
    <3>2. \A x \in Object : lastCommit'[x] >= lastCommit[x]
      BY <1>0, <1>u DEF TypeOK
    <3> QED
      BY Zenon, <1>u, <3>1, <3>2 DEF SameSlots
  <2> QED
    BY Zenon, <1>8, <1>v, <2>1, OtherWorker
<1>18. \A v \in Worker : KeepsOpen(v)
  <2>1. ntx[w] \in Nat
    BY <1>0, WorkerTypes
  <2>2. KeepsOpen(w)
    BY <1>10, <1>u, <2>1 DEF KeepsOpen, bufferVars
  <2> QED
    BY Zenon, <1>v, <2>2, OthersKeep
<1>19. ASSUME NEW r \in Ref, r[2] < tail[r[1]], r \notin kept, body[r].parent # None
       PROVE  body[r].parent # r0
  <2> SUFFICES ASSUME body[r].parent = r0 PROVE FALSE
    BY Zenon
  <2>1. SlotInv(r)
    BY Zenon DEF IInv
  <2>2. PICK v \in Worker : /\ \E n \in 1 .. ntx[v] : body[r].tx = <<v, n>>
                            /\ \E i \in Level : Live(v, i) /\ call[v][i].tx = body[r].tx
    BY Zenon, <1>19, <2>1 DEF SlotInv
  <2>3. body[r0].tx[1] = body[r].tx[1] /\ body[r0].tx[2] < body[r].tx[2]
    BY Zenon, <1>19, <2>1 DEF SlotInv
  <2>4. v = w
    BY <1>3, <2>2, <2>3
  <2>5. PICK i \in Level : Live(w, i) /\ call[w][i].tx = body[r].tx
    BY Zenon, <2>2, <2>4
  <2>6. call[w][depth[w]].tx[2] < call[w][i].tx[2]
    BY Zenon, <1>3, <2>3, <2>5
  <2>7. i < depth[w] \/ i = depth[w]
    BY Zenon, <1>1, <2>5 DEF Live, SteppedBack, Committing
  <2>8. call[w][depth[w]].tx[2] \in 1 .. ntx[w] /\ call[w][i].tx[2] \in 1 .. ntx[w]
    BY Zenon, <1>0, <1>3, <2>5, LiveTx
  <2>9. CallInv(w, depth[w])
    BY Zenon, <1>0, <1>3 DEF WorkerInv
  <2>10. i < depth[w] => call[w][i].tx[2] < call[w][depth[w]].tx[2]
    BY Zenon, <1>3, <2>9 DEF CallInv
  <2> QED
    BY <2>6, <2>7, <2>8, <2>10
<1>20. ASSUME NEW r \in Ref PROVE SlotInv(r)'
  <2>1. SlotInv(r)
    BY Zenon DEF IInv
  <2>2. ASSUME NEW v \in Worker, NEW j \in Level, Live(v, j)
        PROVE  Live(v, j)' /\ call'[v][j] = call[v][j]
    BY Zenon, <1>18, <2>2 DEF KeepsOpen
  <2>3. r = r0 => ~(r[2] >= tail[r[1]])
    BY <1>3, <2>1 DEF SlotInv, Blank
  <2>4. r[2] < tail[r[1]] =>
           \E v \in Worker : \E n \in 1 .. ntx'[v] :
              /\ body[r].tx = <<v, n>>
              /\ r \notin kept => \E j \in Level : Live(v, j)' /\ call'[v][j].tx = body[r].tx
    BY <1>u, <2>1, <2>2 DEF SlotInv
  <2>5. r[2] < tail[r[1]] /\ body[r].parent # None /\ r \notin kept => commit'[body[r].parent] = 0
    BY Zenon, <1>7, <1>19, <2>1 DEF SlotInv
  <2>6. commit'[r] # 0 => r \in durable
    BY Zenon, <1>3, <1>7, <2>1 DEF SlotInv
  <2>7. r \in kept => commit'[r] # 0
    BY Zenon, <1>3, <1>7, <2>1 DEF SlotInv
  <2>8. r[2] >= tail[r[1]] => commit'[r] = 0
    BY Zenon, <1>7, <2>1, <2>3 DEF SlotInv
  <2> QED
    BY Zenon, <1>u, <2>1, <2>4, <2>5, <2>6, <2>7, <2>8 DEF SlotInv
<1>21. LoggedExactlyOnce'
  <2>1. LoggedExactlyOnce
    BY Zenon DEF IInv
  <2>2. ASSUME NEW v \in Worker, NEW n \in 1 .. ntx'[v], ~Open(v, <<v, n>>)'
        PROVE  n \in 1 .. ntx[v] /\ ~Open(v, <<v, n>>)
    BY Zenon, <1>18, <2>2 DEF KeepsOpen, Open
  <2> QED
    BY Zenon, <1>u, <2>1, <2>2 DEF LoggedExactlyOnce
<1>22. CommitIdsContiguous'
  <2>1. CommitIdsContiguous
    BY Zenon DEF IInv
  <2>2. \A v \in Worker : v # w =>
           wpc'[v] = wpc[v] /\ wref'[v] = wref[v] /\ wcid'[v] = wcid[v]
    BY Zenon, <1>v DEF SameWorker
  <2>3. \A x \in Object : \A k \in Slot : <<x, k>> \in Ref /\ (<<x, k>> = r0 <=> x = r0[1] /\ k = r0[2])
    BY <1>3 DEF Ref
  <2>4. PendingId(r0[1], m) /\ m \in 1 .. lastCommit[r0[1]]
    BY Zenon, <1>1, <1>5, <1>r, <1>m DEF PendingId
  <2>5. ~StoredId(r0[1], m)
    BY Zenon, <1>3, <2>1, <2>4 DEF CommitIdsContiguous
  <2>6. ASSUME NEW v \in Worker, v # w, wpc[v] = "store", wref[v][1] = r0[1] PROVE wcid[v] # m
    BY Zenon, <1>1, <1>3, <1>r, <1>m, <2>1, <2>6 DEF CommitIdsContiguous
  <2>7. ASSUME NEW x \in Object, NEW n \in Nat, n # 0
        PROVE  /\ StoredId(x, n)' <=> StoredId(x, n) \/ (x = r0[1] /\ n = m)
               /\ PendingId(x, n)' <=> PendingId(x, n) /\ ~(x = r0[1] /\ n = m)
    <3>1. StoredId(x, n)' <=> StoredId(x, n) \/ (x = r0[1] /\ n = m)
      <4>1. \A k \in Slot : commit'[<<x, k>>] = IF x = r0[1] /\ k = r0[2] THEN m ELSE commit[<<x, k>>]
        BY Zenon, <1>7, <2>3
      <4>2. x = r0[1] => commit[<<x, r0[2]>>] # n
        BY Zenon, <1>3, <1>5, <2>7
      <4> QED
        BY Zenon, <1>3, <4>1, <4>2 DEF StoredId
    <3>2. PendingId(x, n)' <=> PendingId(x, n) /\ ~(x = r0[1] /\ n = m)
      BY Zenon, <1>1, <1>r, <1>m, <2>2, <2>6 DEF PendingId
    <3> QED
      BY Zenon, <3>1, <3>2
  <2>8. ASSUME NEW x \in Object, NEW n \in 1 .. lastCommit'[x]
        PROVE  (StoredId(x, n)' \/ PendingId(x, n)') /\ ~(StoredId(x, n)' /\ PendingId(x, n)')
    <3>1. lastCommit'[x] = lastCommit[x] /\ lastCommit[x] \in Nat
      BY Zenon, <1>0, <1>u DEF TypeOK
    <3>2. n \in 1 .. lastCommit[x] /\ n \in Nat /\ n # 0
      BY <3>1
    <3>3. (StoredId(x, n) \/ PendingId(x, n)) /\ ~(StoredId(x, n) /\ PendingId(x, n))
      BY Zenon, <2>1, <3>2 DEF CommitIdsContiguous
    <3> QED
      BY Zenon, <2>7, <3>2, <3>3
  <2>9. ASSUME NEW x \in Object, NEW k \in Slot PROVE commit'[<<x, k>>] <= lastCommit'[x]
    <3>1. commit[<<x, k>>] <= lastCommit[x]
      BY Zenon, <2>1 DEF CommitIdsContiguous
    <3>2. <<x, k>> = r0 => m <= lastCommit[x]
      BY <1>0, <1>3, <1>5, <2>3 DEF TypeOK
    <3> QED
      BY Zenon, <1>7, <1>u, <2>3, <3>1, <3>2
  <2>10. ASSUME NEW x \in Object, NEW k1 \in Slot, NEW k2 \in Slot,
                commit'[<<x, k1>>] # 0, commit'[<<x, k1>>] = commit'[<<x, k2>>]
         PROVE  k1 = k2
    <3>1. \A k \in Slot : x = r0[1] => commit[<<x, k>>] # m
      BY Zenon, <2>5 DEF StoredId
    <3>2. \A k \in Slot : commit'[<<x, k>>] = IF x = r0[1] /\ k = r0[2] THEN m ELSE commit[<<x, k>>]
      BY Zenon, <1>7, <2>3
    <3>3. commit[<<x, k1>>] # 0 /\ commit[<<x, k1>>] = commit[<<x, k2>>] => k1 = k2
      BY Zenon, <2>1 DEF CommitIdsContiguous
    <3> QED
      BY Zenon, <2>10, <3>1, <3>2, <3>3
  <2>11. ASSUME NEW x \in Object, NEW w1 \in Worker, NEW w2 \in Worker,
                wpc'[w1] = "store" /\ wref'[w1][1] = x,
                wpc'[w2] = "store" /\ wref'[w2][1] = x,
                wcid'[w1] = wcid'[w2]
         PROVE  w1 = w2
    <3>1. w1 # w /\ w2 # w
      BY Zenon, <1>1, <2>11
    <3> QED
      BY <2>1, <2>2, <2>11, <3>1 DEF CommitIdsContiguous
  <2> QED
    BY <2>8, <2>9, <2>10, <2>11 DEF CommitIdsContiguous
<1> QED
  BY Zenon, <1>8, <1>16, <1>17, <1>20, <1>21, <1>22 DEF IInv

(* pmem_persist of the id: the transaction is closed.                      *)
LEMMA PersistCommitIdStep ==
  ASSUME IInv, NEW w \in Worker, PersistCommitId(w)
  PROVE  IInv'
<1>0. WorkerInv(w) /\ TypeOK
  BY Zenon DEF IInv
<1>r. PICK r0 : r0 = wref[w]
  BY Zenon
<1>1. wpc[w] = "persist" /\ wpc'[w] = "app" /\ kept' = kept \cup {r0}
  BY Zenon, <1>0, <1>r DEF PersistCommitId, TypeOK
<1>u. UNCHANGED <<ntx, wref, wcid, bufferVars, loggerVars, body, commit, durable, tail,
                  lastCommit, lockVars>>
  BY Zenon DEF PersistCommitId
<1>v. \A v \in Worker \ {w} : SameWorker(v)
  BY Zenon, <1>0, <1>u DEF PersistCommitId, TypeOK, SameWorker, bufferVars, loggerVars
<1>2. Committing(w) /\ ~Committing(w)'
  BY Zenon, <1>1 DEF Committing
<1>3. /\ depth[w] \in Level /\ Live(w, depth[w])
      /\ r0 \in Ref /\ r0[1] \in Object
      /\ body[r0].tx = call[w][depth[w]].tx
      /\ body[r0].tx # None /\ body[r0].tx[1] = w
      /\ r0 \in durable
      /\ Published(w) = depth[w]
  BY Zenon, <1>2, <1>r, CommittingFacts
<1>4. commit[r0] # 0
  <2>1. CommitInv(w)
    BY Zenon, <1>0 DEF WorkerInv
  <2>2. commit[r0] \in 1 .. lastCommit[r0[1]]
    BY Zenon, <1>1, <1>2, <1>r, <2>1 DEF CommitInv
  <2> QED
    BY <2>2
<1>5. TypeOK'
  <2>1. wpc' \in [Worker -> {"app", "clear", "gate", "blocked", "resume", "tag",
                           "cid", "store", "persist", "done"}]
    BY Zenon, <1>0 DEF PersistCommitId, TypeOK
  <2> QED
    BY Zenon, <1>0, <1>1, <1>3, <1>u, <2>1 DEF TypeOK, bufferVars, loggerVars, lockVars
<1>6. Published(w)' = Published(w) /\ (Appending(w)' <=> Appending(w))
  BY Zenon, <1>1, <1>u DEF Published, InNotify, Appending, bufferVars, loggerVars
<1>7. ASSUME NEW i \in Level
      PROVE  /\ Live(w, i) <=> Live(w, i)' \/ i = depth[w]
             /\ Live(w, i)' => i # depth[w]
             /\ ~Opening(w, i)'
             /\ LevelRef(w, i)' = LevelRef(w, i)
             /\ i < Published(w) => Live(w, i) /\ i # depth[w]
  <2>1. i < Published(w) => Live(w, i) /\ i # depth[w]
    BY <1>3 DEF Live, Level
  <2>2. i < depth[w] => i # depth[w]
    BY <1>3 DEF Level
  <2> QED
    BY Zenon, <1>1, <1>u, <2>1, <2>2 DEF Live, Opening, InNotify, SteppedBack, Committing, LevelRef,
       bufferVars
<1>8. ASSUME NEW i \in Level, i < Published(w), NEW r, Holds(w, i, r)
      PROVE  Holds(w, i, r)'
  <2>1. r # r0
    BY Zenon, <1>2, <1>7, <1>8, <1>r, CommittingAlone
  <2> QED
    BY Zenon, <1>1, <1>8, <1>u, <2>1 DEF Holds, ParentRef, bufferVars
<1>9. DepthInv(w)' /\ CommitInv(w)'
  BY Zenon, <1>1, <1>2 DEF DepthInv, CommitInv, InNotify, SteppedBack
<1>10. ASSUME NEW i \in Level PROVE TagInv(w, i)' /\ CallInv(w, i)' /\ LevelInv(w, i)'
  <2>1. TagInv(w, i) /\ CallInv(w, i) /\ LevelInv(w, i)
    BY Zenon, <1>0 DEF WorkerInv
  <2>2. TagInv(w, i)' /\ CallInv(w, i)'
    BY Zenon, <1>1, <1>6, <1>7, <1>u, <2>1 DEF TagInv, CallInv, bufferVars
  <2>3. LevelInv(w, i)'
    BY Zenon, <1>6, <1>7, <1>8, <1>u, <2>1 DEF LevelInv, Unlogged, bufferVars, loggerVars
  <2> QED
    BY Zenon, <2>2, <2>3
<1>11. LoggerInv(w)'
  <2>1. LoggerInv(w)
    BY Zenon, <1>0 DEF WorkerInv
  <2>2. Appending(w) => active[w] \in Level
    <3>1. active[w] \in 0 .. MaxWord /\ Published(w) \in Level
      BY Zenon, <1>0, <1>3, WorkerTypes
    <3> QED
      BY <2>1, <3>1 DEF LoggerInv, Level
  <2>3. PICK r : r = <<call[w][active[w]].obj, loff[w]>>
    BY Zenon
  <2>4. Appending(w) => Holds(w, active[w], r)'
    BY Zenon, <1>8, <1>u, <2>1, <2>2, <2>3 DEF LoggerInv, loggerVars
  <2> QED
    BY Zenon, <1>1, <1>6, <1>u, <2>1, <2>2, <2>3, <2>4 DEF LoggerInv, bufferVars, loggerVars
<1>12. WorkerInv(w)'
  BY Zenon, <1>9, <1>10, <1>11 DEF WorkerInv
<1>13. ASSUME NEW v \in Worker \ {w} PROVE WorkerInv(v)'
  <2>1. SameSlots(v)
    <3>1. \A r \in Ref : body[r].tx # None /\ body[r].tx[1] = v => (r \in kept' <=> r \in kept)
      BY Zenon, <1>1, <1>3
    <3>2. \A x \in Object : lastCommit'[x] >= lastCommit[x]
      BY <1>0, <1>u DEF TypeOK
    <3> QED
      BY Zenon, <1>u, <3>1, <3>2 DEF SameSlots
  <2> QED
    BY Zenon, <1>5, <1>v, <2>1, OtherWorker
<1>14. \A v \in Worker : v # w => KeepsOpen(v)
  BY Zenon, <1>v, OthersKeep
<1>15. ASSUME NEW r \in Ref PROVE SlotInv(r)'
  <2>1. SlotInv(r)
    BY Zenon DEF IInv
  <2>2. ASSUME NEW v \in Worker, NEW j \in Level, Live(v, j), r \notin kept',
               call[v][j].tx = body[r].tx, r[2] < tail[r[1]]
        PROVE  Live(v, j)' /\ call'[v][j] = call[v][j]
    <3>1. CASE v # w
      BY Zenon, <1>14, <2>2, <3>1 DEF KeepsOpen
    <3>2. CASE v = w
      <4>1. r # r0
        BY Zenon, <1>1, <2>2
      <4>2. LoggedExactlyOnce
        BY Zenon DEF IInv
      <4>3. j # depth[w]
        BY <1>3, <2>2, <3>2, <4>1, <4>2 DEF LoggedExactlyOnce
      <4> QED
        BY Zenon, <1>7, <1>u, <2>2, <3>2, <4>3 DEF bufferVars
    <3> QED
      BY Zenon, <3>1, <3>2
  <2>3. r[2] < tail[r[1]] =>
           \E v \in Worker : \E n \in 1 .. ntx'[v] :
              /\ body[r].tx = <<v, n>>
              /\ r \notin kept' => \E j \in Level : Live(v, j)' /\ call'[v][j].tx = body[r].tx
    <3> SUFFICES ASSUME r[2] < tail[r[1]]
                 PROVE  \E v \in Worker : \E n \in 1 .. ntx'[v] :
                          /\ body[r].tx = <<v, n>>
                          /\ r \notin kept' =>
                                \E j \in Level : Live(v, j)' /\ call'[v][j].tx = body[r].tx
      BY Zenon
    <3>1. PICK v \in Worker :
             /\ \E n \in 1 .. ntx[v] : body[r].tx = <<v, n>>
             /\ r \notin kept => \E j \in Level : Live(v, j) /\ call[v][j].tx = body[r].tx
      BY Zenon, <2>1 DEF SlotInv
    <3>2. r \notin kept' => \E j \in Level : Live(v, j)' /\ call'[v][j].tx = body[r].tx
      BY Zenon, <1>1, <2>2, <3>1
    <3> QED
      BY Zenon, <1>u, <3>1, <3>2
  <2>4. r \in kept' => commit[r] # 0
    BY Zenon, <1>1, <1>4, <2>1 DEF SlotInv
  <2>5. r \notin kept' => r \notin kept
    BY Zenon, <1>1
  <2> QED
    BY Zenon, <1>u, <2>1, <2>3, <2>4, <2>5 DEF SlotInv
<1>16. LoggedExactlyOnce'
  <2>1. LoggedExactlyOnce
    BY Zenon DEF IInv
  <2>2. ASSUME NEW v \in Worker, NEW n \in 1 .. ntx'[v], ~Open(v, <<v, n>>)'
        PROVE  \E r \in Ref : body'[r].tx = <<v, n>> /\ r \in durable' /\ r \in kept'
    <3>1. n \in 1 .. ntx[v]
      BY Zenon, <1>u
    <3>2. CASE ~Open(v, <<v, n>>)
      BY Zenon, <1>1, <1>u, <2>1, <3>1, <3>2 DEF LoggedExactlyOnce
    <3>3. CASE Open(v, <<v, n>>)
      <4>1. PICK i \in Level : Live(v, i) /\ call[v][i].tx = <<v, n>>
        BY Zenon, <3>3 DEF Open
      <4>2. v = w
        BY Zenon, <1>14, <2>2, <4>1 DEF KeepsOpen, Open
      <4>3. i = depth[w]
        BY Zenon, <1>7, <1>u, <2>2, <4>1, <4>2 DEF Open, bufferVars
      <4> QED
        BY Zenon, <1>1, <1>3, <1>u, <4>1, <4>2, <4>3
    <3> QED
      BY Zenon, <3>2, <3>3
  <2> QED
    BY Zenon, <1>u, <2>1, <2>2 DEF LoggedExactlyOnce
<1>17. CommitIdsContiguous'
  <2>1. KeepsId(w)
    BY Zenon, <1>1 DEF KeepsId
  <2>2. \A v \in Worker : KeepsId(v)
    BY Zenon, <1>v, <2>1, OthersKeep
  <2> QED
    BY Zenon, <1>u, <2>2, IdFrame
<1> QED
  BY Zenon, <1>5, <1>12, <1>13, <1>15, <1>16, <1>17 DEF IInv

-----------------------------------------------------------------------------
(* The snapshot thread, and stuttering.                                    *)

(* A step that changes neither threads nor logs keeps the invariant.       *)
LEMMA SameEverywhere ==
  ASSUME IInv, TypeOK', UNCHANGED <<workerVars, bufferVars, loggerVars, logVars>>
  PROVE  IInv'
<1>1. \A v \in Worker : SameWorker(v)
  BY Zenon DEF SameWorker, workerVars, bufferVars, loggerVars
<1>2. \A v \in Worker : WorkerInv(v)' /\ KeepsOpen(v) /\ KeepsId(v)
  <2>1. \A v \in Worker : SameSlots(v)
    BY DEF SameSlots, logVars, IInv, TypeOK
  <2> QED
    BY Zenon, <1>1, <2>1, OtherWorker, OthersKeep
<1>3. (\A r \in Ref : SlotInv(r)') /\ LoggedExactlyOnce'
  BY Zenon, <1>2, SlotFrame DEF logVars
<1>4. CommitIdsContiguous'
  BY Zenon, <1>2, IdFrame DEF logVars
<1> QED
  BY Zenon, <1>2, <1>3, <1>4 DEF IInv

(* Setting and clearing a snapshot_lock.                                   *)
LEMMA SnapshotStep ==
  ASSUME IInv, NEW o \in Object, SetSnapshotLock(o) \/ ClearSnapshotLock(o)
  PROVE  IInv'
<1>1. TypeOK
  BY Zenon DEF IInv
<1>u. UNCHANGED <<workerVars, bufferVars, loggerVars, logVars>>
  BY Zenon DEF SetSnapshotLock, ClearSnapshotLock
<1>2. locked' \in [Object -> BOOLEAN]
  BY Zenon, <1>1 DEF SetSnapshotLock, ClearSnapshotLock, TypeOK
<1>3. freezes' \in 0 .. MaxFreeze
  <2>1. freezes \in 0 .. MaxFreeze
    BY Zenon, <1>1 DEF TypeOK
  <2>2. freezes' = freezes \/ (freezes < MaxFreeze /\ freezes' = freezes + 1)
    BY Zenon DEF SetSnapshotLock, ClearSnapshotLock
  <2> QED
    BY <2>1, <2>2
<1>4. TypeOK'
  BY Zenon, <1>1, <1>2, <1>3, <1>u DEF TypeOK, workerVars, bufferVars, loggerVars, logVars
<1> QED
  BY Zenon, <1>4, <1>u, SameEverywhere

(* Every step of a worker, of a logger or of the snapshot thread keeps     *)
(* the inductive invariant.                                                *)
LEMMA NextIInv == IInv /\ [Next]_vars => IInv'
<1> SUFFICES ASSUME IInv, [Next]_vars PROVE IInv'
  BY Zenon
<1>1. ASSUME NEW w \in Worker, WorkerStep(w) PROVE IInv'
  BY Zenon, <1>1, NotifyStep, ClearOffsetStep, GateStep, SetTagStep, WaitLoggedStep,
     TakeCommitIdStep, StoreCommitIdStep, PersistCommitIdStep, ExitStep DEF WorkerStep
<1>2. ASSUME NEW w \in Worker, LoggerStep(w) PROVE IInv'
  BY Zenon, <1>2, SearchStep, AppendEntryStep, DrainEntryStep, PublishOffsetStep, AcknowledgeStep
     DEF LoggerStep
<1>3. ASSUME NEW o \in Object, SetSnapshotLock(o) \/ ClearSnapshotLock(o) PROVE IInv'
  BY Zenon, <1>3, SnapshotStep
<1>4. CASE UNCHANGED vars
  <2>1. TypeOK'
    BY Zenon, <1>4 DEF IInv, TypeOK, vars, workerVars, bufferVars, loggerVars, logVars, lockVars
  <2> QED
    BY Zenon, <1>4, <2>1, SameEverywhere DEF vars
<1>5. Finished => UNCHANGED vars
  BY Zenon DEF Finished
<1> QED
  BY Zenon, <1>1, <1>2, <1>3, <1>4, <1>5 DEF Next

(* The inductive invariant holds throughout, for any number of threads     *)
(* and objects, any nesting depth and any log size: worker, logger and     *)
(* redo logs stay in step, whatever the interleaving.                      *)
THEOREM Invariance == Spec => []IInv
BY InitIInv, NextIInv, PTL DEF Spec

(* The buffers, registers and logs always hold values of their types; in   *)
(* particular the offset of every level is 0 or a slot of a log.           *)
THEOREM TypeCorrect == Spec => []TypeOK
<1>1. IInv => TypeOK
  BY Zenon DEF IInv
<1> QED
  BY <1>1, Invariance, PTL

(* Every transaction is logged at most once, and one whose                 *)
(* Savitar_thread_wait has returned has a durable entry and a persistent   *)
(* commit id.                                                              *)
THEOREM ExactlyOnce == Spec => []LoggedExactlyOnce
<1>1. IInv => LoggedExactlyOnce
  BY Zenon DEF IInv
<1> QED
  BY <1>1, Invariance, PTL

(* Savitar_log_commit hands out the ids 1, 2, ..., last_commit of each     *)
(* log, each to one transaction.                                           *)
THEOREM Contiguous == Spec => []CommitIdsContiguous
<1>1. IInv => CommitIdsContiguous
  BY Zenon DEF IInv
<1> QED
  BY <1>1, Invariance, PTL

(* Savitar_thread_wait commits the entry of the transaction it closes:     *)
(* the offset it reads from tx_buffer is never stale.                      *)
THEOREM OwnEntry == Spec => []CommitOwnEntry
<1>1. IInv => CommitOwnEntry
  <2> SUFFICES ASSUME IInv, NEW w \in Worker, Committing(w)
               PROVE  /\ wref[w] \in Ref
                      /\ body[wref[w]].tx = Closing(w)
                      /\ wref[w] \in durable
                      /\ wpc[w] \in {"cid", "store"} => commit[wref[w]] = 0
    BY Zenon DEF CommitOwnEntry
  <2>1. CommitInv(w)
    BY Zenon DEF IInv, WorkerInv
  <2> QED
    BY Zenon, <2>1, CommittingFacts DEF CommitInv, Closing
<1> QED
  BY <1>1, Invariance, PTL

(* What an entry with a parent is: a written one.                          *)
LEMMA ParentFacts ==
  ASSUME IInv, NEW r \in Ref, body[r].parent # None
  PROVE  SlotInv(r) /\ r[2] < tail[r[1]]
<1>1. SlotInv(r)
  BY Zenon DEF IInv
<1>2. tail \in [Object -> 1 .. LogSize + 1] /\ r[1] \in Object /\ r[2] \in 1 .. LogSize
  BY Zenon DEF IInv, TypeOK, Ref, Slot
<1>3. tail[r[1]] \in 1 .. LogSize + 1
  BY Zenon, <1>2
<1>4. ~(r[2] >= tail[r[1]])
  BY <1>1 DEF SlotInv, Blank
<1> QED
  BY <1>1, <1>2, <1>3, <1>4

(* The logger's parent-first rule works: the entry a nested entry names    *)
(* is durable before the nested entry is written.                          *)
THEOREM ParentFirst == Spec => []ParentDurableFirst
<1>1. IInv => ParentDurableFirst
  BY Zenon, ParentFacts DEF ParentDurableFirst, SlotInv
<1> QED
  BY <1>1, Invariance, PTL

(* A transaction has a commit id only if those of all the transactions     *)
(* nested in it are persistent.                                            *)
THEOREM ChildrenFirst == Spec => []ChildrenCommitFirst
<1>1. IInv => ChildrenCommitFirst
  BY Zenon, ParentFacts DEF ChildrenCommitFirst, SlotInv
<1> QED
  BY <1>1, Invariance, PTL

(* While the logger writes, publishes and acknowledges an entry, the       *)
(* level is open and called, and the entry is that of its call.            *)
THEOREM ServesOpenLevel == Spec => []LoggerServesOpenLevel
<1>1. IInv => LoggerServesOpenLevel
  <2> SUFFICES ASSUME IInv, NEW w \in Worker, lpc[w] \in {"drain", "publish", "ack"}
               PROVE  /\ active[w] < depth[w]
                      /\ tag[w][active[w]] = "call"
                      /\ body[<<call[w][active[w]].obj, loff[w]>>].tx = call[w][active[w]].tx
    BY Zenon DEF LoggerServesOpenLevel
  <2>1. LoggerInv(w) /\ Appending(w)
    BY Zenon DEF IInv, WorkerInv, Appending
  <2>2. depth[w] \in 0 .. MaxNest /\ active[w] \in 0 .. MaxWord
    BY Zenon, WorkerTypes DEF IInv
  <2>3. active[w] < depth[w]
    BY <2>1, <2>2 DEF LoggerInv, Published
  <2> QED
    BY Zenon, <2>1, <2>3 DEF LoggerInv, Holds
<1> QED
  BY <1>1, Invariance, PTL

(* The logger frees the buffers only when its worker is done.              *)
THEOREM Freed == Spec => []FreedAfterUse
<1>1. IInv => FreedAfterUse
  BY Zenon DEF IInv, WorkerInv, LoggerInv, DepthInv, FreedAfterUse
<1> QED
  BY <1>1, Invariance, PTL

(* An unwritten slot holds no transaction.                                 *)
LEMMA BlankTx == Blank.tx = None
  BY Zenon DEF Blank

(* Entries and commit ids are written once, and what is persistent stays   *)
(* so.                                                                     *)
THEOREM Final == Spec => EntriesAreFinal
<1>1. IInv /\ [Next]_vars => [WriteOnce]_logVars
  <2> SUFFICES ASSUME IInv, [Next]_vars PROVE [WriteOnce]_logVars
    BY Zenon
  <2>0. TypeOK
    BY Zenon DEF IInv
  <2>1. ASSUME NEW w \in Worker, TakeCommitId(w) PROVE WriteOnce
    BY Zenon, <2>1 DEF TakeCommitId, WriteOnce
  <2>2. ASSUME NEW w \in Worker, StoreCommitId(w) PROVE WriteOnce
    <3>1. Committing(w) /\ wpc[w] = "store"
      BY Zenon, <2>2 DEF StoreCommitId, Committing
    <3>2. CommitInv(w) /\ wref[w] \in Ref
      BY Zenon, <3>1, CommittingFacts DEF IInv, WorkerInv
    <3>3. commit[wref[w]] = 0
      BY Zenon, <3>1, <3>2 DEF CommitInv
    <3> QED
      BY Zenon, <2>0, <2>2, <3>2, <3>3 DEF StoreCommitId, WriteOnce, TypeOK
  <2>3. ASSUME NEW w \in Worker, PersistCommitId(w) PROVE WriteOnce
    BY Zenon, <2>3 DEF PersistCommitId, WriteOnce
  <2>4. ASSUME NEW w \in Worker, AppendEntry(w) PROVE WriteOnce
    <3>1. PICK r, e : body' = [body EXCEPT ![r] = e] /\ r = <<call[w][active[w]].obj, tail[call[w][active[w]].obj]>>
      BY Zenon, <2>4 DEF AppendEntry
    <3>2. \A x \in Ref : x # r => body'[x] = body[x]
      BY Zenon, <2>0, <3>1 DEF TypeOK
    <3>3. r \in Ref => body[r] = Blank
      <4> SUFFICES ASSUME r \in Ref PROVE body[r] = Blank
        BY Zenon
      <4>1. SlotInv(r)
        BY Zenon DEF IInv
      <4>2. PICK o, n : r = <<o, n>> /\ n = tail[o]
        BY Zenon, <3>1
      <4>3. r[1] = o /\ r[2] = n
        BY Zenon, <4>2
      <4>4. n \in 1 .. LogSize
        BY Zenon, <4>2, <4>3 DEF Ref, Slot
      <4>5. r[2] >= tail[r[1]]
        BY <4>2, <4>3, <4>4
      <4> QED
        BY Zenon, <4>1, <4>5 DEF SlotInv
    <3>4. \A x \in Ref : body[x].tx # None => body'[x] = body[x]
      BY Zenon, <3>2, <3>3, BlankTx
    <3>5. UNCHANGED <<commit, durable, kept>>
      BY Zenon, <2>4 DEF AppendEntry
    <3> QED
      BY Zenon, <3>4, <3>5 DEF WriteOnce
  <2>5. ASSUME NEW w \in Worker, DrainEntry(w) PROVE WriteOnce
    BY Zenon, <2>5 DEF DrainEntry, WriteOnce
  <2>6. ASSUME NEW w \in Worker, WorkerStep(w)
        PROVE  [WriteOnce]_logVars
    BY Zenon, <2>1, <2>2, <2>3, <2>6 DEF WorkerStep, Notify, ClearOffset, Gate, Unblock, Resume, SetTag,
       WaitLogged, Exit
  <2>7. ASSUME NEW w \in Worker, LoggerStep(w)
        PROVE  [WriteOnce]_logVars
    BY Zenon, <2>4, <2>5, <2>7 DEF LoggerStep, Poll, ReadDepth, StepDown, StepUp, Terminate,
       ServeParentFirst, PublishOffset, Acknowledge
  <2>8. ASSUME NEW o \in Object, SetSnapshotLock(o) \/ ClearSnapshotLock(o)
        PROVE  UNCHANGED logVars
    BY Zenon, <2>8 DEF SetSnapshotLock, ClearSnapshotLock
  <2>9. Finished \/ UNCHANGED vars => UNCHANGED logVars
    BY Zenon DEF Finished, vars
  <2> QED
    BY Zenon, <2>6, <2>7, <2>8, <2>9 DEF Next
<1> QED
  BY <1>1, Invariance, PTL DEF Spec, EntriesAreFinal

-----------------------------------------------------------------------------
(* The logger's index.                                                     *)

(* The numbers of a worker and its logger.                                 *)
LEMMA IndexTypes ==
  ASSUME TypeOK, NEW w \in Worker
  PROVE  /\ active[w] \in Nat /\ active[w] <= MaxWord
         /\ depth[w] \in Nat /\ depth[w] <= MaxNest
         /\ 0 \in Level
<1>1. active[w] \in 0 .. MaxWord /\ depth[w] \in 0 .. MaxNest
  BY Zenon, WorkerTypes
<1> QED
  BY <1>1 DEF Level

(* A step that leaves the worker and its logger alone.                     *)
LEMMA IndexSame ==
  ASSUME NEW w \in Worker, SameWorker(w), IndexInv(w)
  PROVE  IndexInv(w)'
BY Zenon DEF SameWorker, IndexInv, InNotify, SteppedBack

(* Savitar_thread_notify and Savitar_thread_wait: the depth moves, the     *)
(* index does not.                                                         *)
LEMMA NotifyIndex ==
  ASSUME IInv, NEW w \in Worker, NEW o \in Object, Notify(w, o), IndexInv(w)
  PROVE  IndexInv(w)'
<1>0. TypeOK
  BY Zenon DEF IInv
<1>1. /\ wpc[w] = "app" /\ wpc'[w] = "clear"
      /\ depth'[w] = depth[w] + 1
      /\ tag'[w] = tag[w] /\ lpc'[w] = lpc[w] /\ active'[w] = active[w]
  BY Zenon, <1>0 DEF Notify, TypeOK, loggerVars
<1>2. active[w] \in Nat /\ depth[w] \in Nat
  BY Zenon, <1>0, IndexTypes
<1> QED
  BY <1>1, <1>2 DEF IndexInv, InNotify, SteppedBack

(* The rest of Savitar_thread_notify before the tag is set.                *)
LEMMA GateIndex ==
  ASSUME IInv, NEW w \in Worker, ClearOffset(w) \/ Gate(w) \/ Unblock(w) \/ Resume(w),
         IndexInv(w)
  PROVE  IndexInv(w)'
<1>0. TypeOK
  BY Zenon DEF IInv
<1>1. tag'[w] = tag[w] /\ lpc'[w] = lpc[w] /\ active'[w] = active[w]
  BY Zenon DEF ClearOffset, Gate, Unblock, Resume, bufferVars, loggerVars
<1>2. \/ wpc[w] = "clear" /\ wpc'[w] = "gate" /\ depth'[w] = depth[w]
      \/ wpc[w] = "gate" /\ wpc'[w] = "tag" /\ depth'[w] = depth[w]
      \/ wpc[w] = "gate" /\ wpc'[w] = "blocked" /\ depth[w] = 1 /\ depth'[w] = 0
      \/ wpc[w] = "blocked" /\ wpc'[w] = "resume" /\ depth'[w] = depth[w]
      \/ wpc[w] = "resume" /\ wpc'[w] = "tag" /\ depth'[w] = 1
  BY Zenon, <1>0 DEF ClearOffset, Gate, Unblock, Resume, TypeOK, bufferVars
<1>3. active[w] \in Nat /\ depth[w] \in Nat
  BY Zenon, <1>0, IndexTypes
<1> QED
  BY <1>1, <1>2, <1>3 DEF IndexInv, InNotify, SteppedBack

(* The tag of the outermost call hands it to the logger.                   *)
LEMMA SetTagIndex ==
  ASSUME IInv, NEW w \in Worker, SetTag(w), IndexInv(w)
  PROVE  IndexInv(w)'
<1>0. TypeOK /\ DepthInv(w)
  BY Zenon DEF IInv, WorkerInv
<1>1. /\ wpc[w] = "tag" /\ wpc'[w] = "app" /\ depth'[w] = depth[w]
      /\ lpc'[w] = lpc[w] /\ active'[w] = active[w]
  BY Zenon, <1>0 DEF SetTag, TypeOK, loggerVars
<1>2. active[w] \in Nat /\ depth[w] \in Nat /\ depth[w] <= MaxNest /\ 0 \in Level
  BY Zenon, <1>0, IndexTypes
<1>3. depth[w] > 0
  BY Zenon, <1>0, <1>1 DEF DepthInv, InNotify
<1>4. tag[w] \in [Level -> {"zero", "call", "term"}]
  BY Zenon, <1>0, WorkerTypes
<1>5. tag'[w] = [tag[w] EXCEPT ![depth[w] - 1] = "call"]
  BY Zenon, <1>0 DEF SetTag, TypeOK
<1>6. tag'[w][0] = IF depth[w] = 1 THEN "call" ELSE tag[w][0]
  BY <1>2, <1>3, <1>4, <1>5
<1> QED
  BY Zenon, <1>1, <1>2, <1>3, <1>6 DEF IndexInv, InNotify, SteppedBack

(* Savitar_thread_wait: a level is closed only when it was acknowledged.   *)
LEMMA WaitIndex ==
  ASSUME IInv, NEW w \in Worker, WaitLogged(w), IndexInv(w)
  PROVE  IndexInv(w)'
<1>0. TypeOK
  BY Zenon DEF IInv
<1>1. /\ wpc[w] = "app" /\ wpc'[w] = "cid" /\ depth[w] > 0 /\ depth'[w] = depth[w] - 1
      /\ tag[w][depth[w] - 1] = "zero"
      /\ tag'[w] = tag[w] /\ lpc'[w] = lpc[w] /\ active'[w] = active[w]
  BY Zenon, <1>0 DEF WaitLogged, TypeOK, loggerVars
<1>2. active[w] \in Nat /\ depth[w] \in Nat
  BY Zenon, <1>0, IndexTypes
<1> QED
  BY Zenon, <1>1, <1>2 DEF IndexInv, InNotify, SteppedBack

(* The commit, and the end of the thread.                                  *)
LEMMA CommitIndex ==
  ASSUME IInv, NEW w \in Worker, IndexInv(w),
         TakeCommitId(w) \/ StoreCommitId(w) \/ PersistCommitId(w) \/ Exit(w)
  PROVE  IndexInv(w)'
<1>0. TypeOK /\ DepthInv(w)
  BY Zenon DEF IInv, WorkerInv
<1>1. /\ wpc[w] \in {"cid", "store", "persist", "app"}
      /\ wpc'[w] \in {"store", "persist", "app", "done"}
      /\ depth'[w] = depth[w] /\ lpc'[w] = lpc[w] /\ active'[w] = active[w]
      /\ depth[w] = 0 \/ tag'[w] = tag[w]
  BY Zenon, <1>0 DEF TakeCommitId, StoreCommitId, PersistCommitId, Exit, TypeOK, bufferVars, loggerVars
<1>2. active[w] \in Nat /\ depth[w] \in Nat
  BY Zenon, <1>0, IndexTypes
<1> QED
  BY <1>1, <1>2 DEF IndexInv, InNotify, SteppedBack

(* The waiting loop finds a tag only at a level handed to the logger.      *)
LEMMA PollIndex ==
  ASSUME IInv, NEW w \in Worker, Poll(w), IndexInv(w)
  PROVE  IndexInv(w)'
<1>0. TypeOK /\ WorkerInv(w)
  BY Zenon DEF IInv
<1>1. /\ lpc[w] = "poll" /\ active'[w] = active[w]
      /\ wpc'[w] = wpc[w] /\ depth'[w] = depth[w] /\ tag'[w] = tag[w]
  BY Zenon DEF Poll, workerVars, bufferVars
<1>2. \/ lpc'[w] \in {"depth", "wild"}
      \/ lpc'[w] = "serve" /\ active[w] \in Level /\ tag[w][active[w]] # "zero"
  BY Zenon, <1>0 DEF Poll, TypeOK
<1>3. active[w] \in Nat /\ depth[w] \in Nat
  BY Zenon, <1>0, IndexTypes
<1>4. ASSUME active[w] \in Level, tag[w][active[w]] # "zero", depth[w] = 0
      PROVE  active[w] = 0 /\ ~SteppedBack(w)
  <2>1. TagInv(w, active[w])
    BY Zenon, <1>0, <1>4 DEF WorkerInv
  <2>2. active[w] >= Published(w) \/ InNotify(w)
    BY <1>3, <1>4 DEF Published
  <2>3. ~InNotify(w)
    BY <1>0, <1>4 DEF WorkerInv, DepthInv
  <2>4. wpc[w] = "done" /\ active[w] = 0
    BY Zenon, <1>4, <2>1, <2>2, <2>3 DEF TagInv
  <2> QED
    BY Zenon, <2>4 DEF SteppedBack
<1>5. SteppedBack(w) => depth[w] = 0
  BY Zenon, <1>0 DEF WorkerInv, DepthInv
<1> QED
  BY <1>1, <1>2, <1>3, <1>4, <1>5 DEF IndexInv, InNotify, SteppedBack

(* The three reads of the depth.                                           *)
LEMMA SearchIndex ==
  ASSUME IInv, NEW w \in Worker, ReadDepth(w) \/ StepDown(w) \/ StepUp(w), IndexInv(w)
  PROVE  IndexInv(w)'
<1>0. TypeOK /\ DepthInv(w)
  BY Zenon DEF IInv, WorkerInv
<1>1. wpc'[w] = wpc[w] /\ depth'[w] = depth[w] /\ tag'[w] = tag[w]
  BY Zenon DEF ReadDepth, StepDown, StepUp, workerVars, bufferVars
<1>2. /\ active[w] \in Nat /\ active[w] <= MaxWord
      /\ depth[w] \in Nat /\ depth[w] <= MaxNest
  BY Zenon, <1>0, IndexTypes
<1>3. CASE ReadDepth(w)
  <2>1. \/ lpc'[w] = "poll" /\ active'[w] = 0
        \/ lpc'[w] = "down" /\ active'[w] = active[w] /\ depth[w] # 0
    <3>1. CASE depth[w] = 0
      BY Zenon, <1>0, <1>3, <3>1 DEF ReadDepth, TypeOK
    <3>2. CASE depth[w] # 0
      BY Zenon, <1>0, <1>3, <3>2 DEF ReadDepth, TypeOK
    <3> QED
      BY Zenon, <3>1, <3>2
  <2> QED
    BY <1>0, <1>1, <1>2, <2>1 DEF IndexInv, DepthInv, InNotify, SteppedBack
<1>4. CASE StepDown(w)
  <2>1. /\ lpc[w] = "down"
        /\ \/ lpc'[w] = "poll" /\ active[w] > Top(depth[w]) /\ active'[w] = active[w] - 1
           \/ lpc'[w] = "up" /\ ~(active[w] > Top(depth[w])) /\ active'[w] = active[w]
    <3>1. CASE active[w] > Top(depth[w])
      BY Zenon, <1>0, <1>4, <3>1 DEF StepDown, TypeOK
    <3>2. CASE ~(active[w] > Top(depth[w]))
      BY Zenon, <1>0, <1>4, <3>2 DEF StepDown, TypeOK
    <3> QED
      BY Zenon, <3>1, <3>2
  <2> QED
    BY <1>1, <1>2, <2>1 DEF IndexInv, InNotify, SteppedBack, Top
<1>5. CASE StepUp(w)
  <2>1. /\ lpc[w] = "up" /\ lpc'[w] = "poll"
        /\ \/ active[w] < Top(depth[w]) /\ active'[w] = active[w] + 1
           \/ active'[w] = active[w]
    BY Zenon, <1>0, <1>5 DEF StepUp, TypeOK
  <2> QED
    BY SMTT(30), <1>1, <1>2, <2>1 DEF IndexInv, InNotify, SteppedBack, Top
<1> QED
  BY Zenon, <1>3, <1>4, <1>5

(* Serving a level: the index stays, or goes down to the parent.           *)
LEMMA ServeIndex ==
  ASSUME IInv, NEW w \in Worker, IndexInv(w),
         \/ Terminate(w) \/ ServeParentFirst(w) \/ AppendEntry(w)
         \/ DrainEntry(w) \/ PublishOffset(w)
  PROVE  IndexInv(w)'
<1>0. TypeOK
  BY Zenon DEF IInv
<1>1. wpc'[w] = wpc[w] /\ depth'[w] = depth[w] /\ tag'[w] = tag[w]
  <2>1. ASSUME Terminate(w) \/ ServeParentFirst(w) PROVE UNCHANGED <<wpc, depth, tag>>
    BY Zenon, <2>1 DEF Terminate, ServeParentFirst, workerVars, bufferVars
  <2>2. ASSUME AppendEntry(w) PROVE UNCHANGED <<wpc, depth, tag>>
    BY Zenon, <2>2 DEF AppendEntry, workerVars, bufferVars
  <2>3. ASSUME DrainEntry(w) \/ PublishOffset(w) PROVE UNCHANGED <<wpc, depth, tag>>
    BY Zenon, <2>3 DEF DrainEntry, PublishOffset, workerVars, bufferVars
  <2> QED
    BY Zenon, <2>1, <2>2, <2>3
<1>2. /\ lpc[w] \in {"serve", "drain", "publish"}
      /\ \/ lpc'[w] \in {"freed", "drain", "publish", "ack"} /\ active'[w] = active[w]
         \/ lpc'[w] = "poll" /\ active'[w] = active[w] - 1
  <2>0. lpc \in [Worker -> {lpc[v] : v \in Worker}] /\ active \in [Worker -> 0 .. MaxWord]
    BY Zenon, <1>0 DEF TypeOK
  <2>1. CASE Terminate(w)
    BY Zenon, <2>0, <2>1 DEF Terminate
  <2>2. CASE ServeParentFirst(w)
    BY Zenon, <2>0, <2>2 DEF ServeParentFirst
  <2>3. CASE AppendEntry(w)
    BY Zenon, <2>0, <2>3 DEF AppendEntry
  <2>4. CASE DrainEntry(w) \/ PublishOffset(w)
    BY Zenon, <2>0, <2>4 DEF DrainEntry, PublishOffset
  <2> QED
    BY Zenon, <2>1, <2>2, <2>3, <2>4
<1>3. active[w] \in Nat /\ depth[w] \in Nat
  BY Zenon, <1>0, IndexTypes
<1> QED
  BY <1>1, <1>2, <1>3 DEF IndexInv, InNotify, SteppedBack

(* The acknowledgement: the tag of level 0 is cleared by a logger at 0.    *)
LEMMA AcknowledgeIndex ==
  ASSUME IInv, NEW w \in Worker, Acknowledge(w), IndexInv(w)
  PROVE  IndexInv(w)'
<1>0. TypeOK
  BY Zenon DEF IInv
<1>1. /\ lpc[w] = "ack" /\ lpc'[w] = "poll" /\ active'[w] = active[w]
      /\ wpc'[w] = wpc[w] /\ depth'[w] = depth[w]
  BY Zenon, <1>0 DEF Acknowledge, TypeOK, workerVars
<1>2. active[w] \in Nat /\ depth[w] \in Nat /\ 0 \in Level
  BY Zenon, <1>0, IndexTypes
<1>3. tag[w] \in [Level -> {"zero", "call", "term"}]
  BY Zenon, <1>0, WorkerTypes
<1>4. tag'[w] = [tag[w] EXCEPT ![active[w]] = "zero"]
  BY Zenon, <1>0 DEF Acknowledge, TypeOK
<1>5. active[w] = 0 \/ tag'[w][0] = tag[w][0]
  BY Zenon, <1>2, <1>3, <1>4
<1> QED
  BY <1>1, <1>2, <1>5 DEF IndexInv, InNotify, SteppedBack

(* A step of one worker or of its logger is not seen by another pair.      *)
LEMMA OthersSame ==
  ASSUME TypeOK, NEW w \in Worker, WorkerStep(w) \/ LoggerStep(w), NEW v \in Worker, v # w
  PROVE  SameWorker(v)
<1>1. ASSUME NEW o \in Object, Notify(w, o) PROVE SameWorker(v)
  BY Zenon, <1>1 DEF Notify, TypeOK, SameWorker, loggerVars
<1>2. CASE ClearOffset(w) \/ SetTag(w)
  BY Zenon, <1>2 DEF ClearOffset, SetTag, TypeOK, SameWorker, loggerVars
<1>3. CASE Gate(w) \/ Unblock(w) \/ Resume(w)
  BY Zenon, <1>3 DEF Gate, Unblock, Resume, TypeOK, SameWorker, bufferVars, loggerVars
<1>4. CASE WaitLogged(w) \/ Exit(w)
  BY Zenon, <1>4 DEF WaitLogged, Exit, TypeOK, SameWorker, loggerVars
<1>5. CASE TakeCommitId(w) \/ StoreCommitId(w) \/ PersistCommitId(w)
  BY Zenon, <1>5 DEF TakeCommitId, StoreCommitId, PersistCommitId, TypeOK, SameWorker,
                     bufferVars, loggerVars
<1>6. CASE Poll(w)
  BY Zenon, <1>6 DEF Poll, TypeOK, SameWorker, workerVars, bufferVars
<1>7. CASE ReadDepth(w) \/ StepDown(w) \/ StepUp(w)
  BY Zenon, <1>7 DEF ReadDepth, StepDown, StepUp, TypeOK, SameWorker, workerVars, bufferVars
<1>8. CASE Terminate(w) \/ ServeParentFirst(w)
  BY Zenon, <1>8 DEF Terminate, ServeParentFirst, TypeOK, SameWorker, workerVars, bufferVars
<1>10. CASE AppendEntry(w) \/ DrainEntry(w)
  BY Zenon, <1>10 DEF AppendEntry, DrainEntry, TypeOK, SameWorker, workerVars, bufferVars
<1>9. CASE PublishOffset(w) \/ Acknowledge(w)
  BY Zenon, <1>9 DEF PublishOffset, Acknowledge, TypeOK, SameWorker, workerVars
<1> QED
  BY Zenon, <1>1, <1>2, <1>3, <1>4, <1>5, <1>6, <1>7, <1>8, <1>9, <1>10
     DEF WorkerStep, LoggerStep

(* Every step keeps the bound of every logger.                             *)
LEMMA NextIndex ==
  ASSUME IInv, [Next]_vars, AllIndexInv
  PROVE  AllIndexInv'
<1> USE DEF AllIndexInv
<1>0. TypeOK
  BY Zenon DEF IInv
<1>1. ASSUME NEW w \in Worker, WorkerStep(w) \/ LoggerStep(w)
      PROVE  \A v \in Worker : IndexInv(v)'
  <2>1. ASSUME WorkerStep(w) PROVE IndexInv(w)'
    BY Zenon, <2>1, NotifyIndex, GateIndex, SetTagIndex, WaitIndex, CommitIndex DEF WorkerStep
  <2>2. ASSUME LoggerStep(w) PROVE IndexInv(w)'
    BY Zenon, <2>2, PollIndex, SearchIndex, ServeIndex, AcknowledgeIndex DEF LoggerStep
  <2>3. IndexInv(w)'
    BY Zenon, <1>1, <2>1, <2>2
  <2>4. ASSUME NEW v \in Worker, v # w PROVE IndexInv(v)'
    BY Zenon, <1>0, <1>1, <2>4, OthersSame, IndexSame
  <2> QED
    BY Zenon, <2>3, <2>4
<1>2. ASSUME NEW v \in Worker, UNCHANGED <<workerVars, bufferVars, loggerVars>>
      PROVE  IndexInv(v)'
  <2>1. SameWorker(v)
    BY Zenon, <1>2 DEF SameWorker, workerVars, bufferVars, loggerVars
  <2> QED
    BY Zenon, <2>1, IndexSame
<1>3. ASSUME NEW o \in Object, SetSnapshotLock(o) \/ ClearSnapshotLock(o)
      PROVE  UNCHANGED <<workerVars, bufferVars, loggerVars>>
  BY Zenon, <1>3 DEF SetSnapshotLock, ClearSnapshotLock
<1>4. CASE UNCHANGED vars
  BY Zenon, <1>2, <1>4 DEF vars
<1> QED
  BY Zenon, <1>1, <1>2, <1>3, <1>4 DEF Next, Finished

(* How far active_tx_id is from the levels in use, in every phase of the   *)
(* worker: the overshoot in the waiting loop of Savitar_persister_worker.  *)
THEOREM IndexInvariance == Spec => []AllIndexInv
<1>1. Init => AllIndexInv
  <2> SUFFICES ASSUME Init, NEW w \in Worker PROVE IndexInv(w)
    BY Zenon DEF AllIndexInv
  <2>1. wpc[w] = "app" /\ depth[w] = 0 /\ active[w] = 0
    BY Zenon DEF Init
  <2> QED
    BY <2>1 DEF IndexInv, InNotify, SteppedBack
<1>2. IInv /\ [Next]_vars /\ AllIndexInv => AllIndexInv'
  BY Zenon, NextIndex
<1> QED
  BY <1>1, <1>2, Invariance, PTL DEF Spec

(* The three reads of the depth in the waiting loop of                     *)
(* Savitar_persister_worker never take active_tx_id more than two levels   *)
(* past the deepest the program nests.                                     *)
THEOREM IndexBound == Spec => []LoggerIndexBound
<1>1. AllIndexInv => LoggerIndexBound
  BY Zenon DEF AllIndexInv, IndexInv, LoggerIndexBound
<1> QED
  BY <1>1, IndexInvariance, PTL

(* What persister.cpp says of active_tx_id, "Possible values are 0 to      *)
(* MAX_ACTIVE_TXS - 1", holds of every program that leaves two levels of   *)
(* sync_buffer unused.                                                     *)
THEOREM IndexInRange == MaxNest + 2 <= MAX_ACTIVE_TXS => (Spec => []LoggerIndexInRange)
<1> SUFFICES ASSUME MaxNest + 2 <= MAX_ACTIVE_TXS PROVE Spec => []LoggerIndexInRange
  BY Zenon
<1>1. TypeOK /\ LoggerIndexBound => LoggerIndexInRange
  <2> SUFFICES ASSUME TypeOK, LoggerIndexBound, NEW w \in Worker PROVE active[w] \in Level
    BY Zenon DEF LoggerIndexInRange
  <2>1. active[w] \in Nat /\ active[w] <= MaxNest + 1
    BY Zenon, IndexTypes DEF LoggerIndexBound
  <2> QED
    BY <2>1 DEF Level
<1> QED
  BY <1>1, IndexBound, TypeCorrect, PTL

=============================================================================
