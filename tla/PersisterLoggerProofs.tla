---------------------- MODULE PersisterLoggerProofs -----------------------
(***************************************************************************)
(* The steps of Savitar_persister_worker and Savitar_log_append keep the   *)
(* inductive invariant.                                                    *)
(***************************************************************************)
EXTENDS PersisterWorkerProofs

USE BoundsAssumption

(* A step of the logger in its waiting loop changes only where it is.      *)
LEMMA LoggerMove ==
  ASSUME IInv, NEW w \in Worker, TypeOK',
         \A v \in Worker \ {w} : SameWorker(v),
         UNCHANGED <<workerVars, bufferVars, logVars>>,
         ~Appending(w), ~Appending(w)', LoggerInv(w)'
  PROVE  IInv'
<1>0. WorkerInv(w) /\ TypeOK
  BY Zenon DEF IInv
<1>1. DepthInv(w)'
  BY Zenon, <1>0 DEF WorkerInv, DepthInv, InNotify, SteppedBack, Committing, workerVars, bufferVars
<1>2. ASSUME NEW i \in Level PROVE TagInv(w, i)' /\ CallInv(w, i)' /\ LevelInv(w, i)'
  <2>1. TagInv(w, i) /\ CallInv(w, i) /\ LevelInv(w, i)
    BY Zenon, <1>0 DEF WorkerInv
  <2>2. TagInv(w, i)' /\ CallInv(w, i)'
    BY Zenon, <2>1 DEF TagInv, CallInv, Published, InNotify, Live, SteppedBack, Committing,
                workerVars, bufferVars
  <2>3. LevelInv(w, i)'
    BY Zenon, <2>1 DEF LevelInv, Published, InNotify, Opening, SteppedBack, Holds, LevelRef,
                ParentRef, Unlogged, workerVars, bufferVars, logVars
  <2> QED
    BY Zenon, <2>2, <2>3
<1>3. CommitInv(w)'
  BY Zenon, <1>0 DEF WorkerInv, CommitInv, Committing, Holds, ParentRef, workerVars, bufferVars, logVars
<1>4. WorkerInv(w)'
  BY Zenon, <1>1, <1>2, <1>3 DEF WorkerInv
<1>5. ntx[w] \in Nat
  BY <1>0, WorkerTypes
<1>6. KeepsOpen(w) /\ KeepsId(w)
  BY <1>5 DEF KeepsOpen, KeepsId, Live, SteppedBack, Committing, workerVars, bufferVars
<1> QED
  BY Zenon, <1>4, <1>6, QuietStep

(* The waiting loop of Savitar_persister_worker, TERM and the return to    *)
(* the parent's level.                                                     *)
LEMMA SearchStep ==
  ASSUME IInv, NEW w \in Worker,
         \/ Poll(w) \/ ReadDepth(w) \/ StepDown(w) \/ StepUp(w)
         \/ Terminate(w) \/ ServeParentFirst(w)
  PROVE  IInv'
<1>0. WorkerInv(w) /\ TypeOK
  BY Zenon DEF IInv
<1>1. depth[w] \in 0 .. MaxNest /\ active[w] \in 0 .. MaxWord
  BY Zenon, <1>0, WorkerTypes
<1>u. UNCHANGED <<workerVars, bufferVars, loff, logVars, lockVars>>
  BY Zenon DEF Poll, ReadDepth, StepDown, StepUp, Terminate, ServeParentFirst
<1>2. Top(depth[w]) \in 0 .. MaxWord
  BY <1>1 DEF Top
<1>3. PICK a \in 0 .. MaxWord, p \in {"poll", "depth", "down", "up", "serve", "freed", "wild"} :
         /\ active' = [active EXCEPT ![w] = a]
         /\ lpc' = [lpc EXCEPT ![w] = p]
         /\ p = "serve" => a \in Level /\ tag[w][a] # "zero"
         /\ p = "freed" => lpc[w] = "serve" /\ tag[w][active[w]] = "term"
  <2>0. active = [active EXCEPT ![w] = active[w]]
    BY Zenon, <1>0 DEF TypeOK
  <2>1. CASE Poll(w)
    BY Zenon, <1>1, <2>0, <2>1 DEF Poll
  <2>2. CASE ReadDepth(w)
    BY <1>1, <2>0, <2>2 DEF ReadDepth
  <2>3. CASE StepDown(w)
    <3>1. active[w] > Top(depth[w]) => active[w] - 1 \in 0 .. MaxWord
      BY <1>1, <1>2
    <3> QED
      BY Zenon, <1>1, <2>0, <2>3, <3>1 DEF StepDown
  <2>4. CASE StepUp(w)
    <3>1. active[w] < Top(depth[w]) => active[w] + 1 \in 0 .. MaxWord
      BY <1>1, <1>2
    <3> QED
      BY Zenon, <1>1, <2>0, <2>4, <3>1 DEF StepUp
  <2>5. CASE Terminate(w)
    BY Zenon, <1>1, <2>0, <2>5 DEF Terminate
  <2>6. CASE ServeParentFirst(w)
    <3>1. active[w] > 0 => active[w] - 1 \in 0 .. MaxWord
      BY <1>1
    <3> QED
      BY Zenon, <1>1, <2>0, <2>6, <3>1 DEF ServeParentFirst
  <2> QED
    BY Zenon, <2>1, <2>2, <2>3, <2>4, <2>5, <2>6
<1>4. lpc[w] \in {"poll", "depth", "down", "up", "serve"}
  BY Zenon DEF Poll, ReadDepth, StepDown, StepUp, Terminate, ServeParentFirst
<1>5. active'[w] = a /\ lpc'[w] = p
  BY Zenon, <1>0, <1>3 DEF TypeOK
<1>6. TypeOK'
  BY Zenon, <1>0, <1>3, <1>u DEF TypeOK, workerVars, bufferVars, logVars, lockVars
<1>v. \A v \in Worker \ {w} : SameWorker(v)
  BY Zenon, <1>0, <1>3, <1>u DEF TypeOK, SameWorker, workerVars, bufferVars
<1>7. ~Appending(w) /\ ~Appending(w)'
  BY Zenon, <1>4, <1>5 DEF Appending
<1>8. p = "freed" => wpc[w] = "done"
  <2> SUFFICES ASSUME p = "freed" PROVE wpc[w] = "done"
    BY Zenon
  <2>1. active[w] \in Level /\ tag[w][active[w]] = "term"
    BY Zenon, <1>0, <1>3 DEF WorkerInv, LoggerInv
  <2>2. TagInv(w, active[w])
    BY Zenon, <1>0, <2>1 DEF WorkerInv
  <2>3. active[w] \in Int /\ Published(w) \in Int
    BY <1>1 DEF Published
  <2> QED
    BY <2>1, <2>2, <2>3 DEF TagInv
<1>9. LoggerInv(w)'
  BY Zenon, <1>3, <1>5, <1>7, <1>8, <1>u DEF LoggerInv, workerVars, bufferVars
<1> QED
  BY Zenon, <1>6, <1>7, <1>9, <1>u, <1>v, LoggerMove

-----------------------------------------------------------------------------
(* The logger's steps on an entry.                                         *)

(* pmem_drain and the persistent tail: the entry becomes durable.          *)
LEMMA DrainEntryStep ==
  ASSUME IInv, NEW w \in Worker, DrainEntry(w)
  PROVE  IInv'
<1>0. WorkerInv(w) /\ TypeOK
  BY Zenon DEF IInv
<1>a. PICK r : r = <<call[w][active[w]].obj, loff[w]>>
  BY Zenon
<1>1. lpc[w] = "drain" /\ lpc'[w] = "publish" /\ durable' = durable \cup {r}
  BY Zenon, <1>0, <1>a DEF DrainEntry, TypeOK
<1>u. UNCHANGED <<workerVars, bufferVars, active, loff, body, commit, kept, tail, lastCommit, lockVars>>
  BY Zenon DEF DrainEntry
<1>v. \A v \in Worker \ {w} : SameWorker(v)
  BY Zenon, <1>0, <1>u DEF DrainEntry, TypeOK, SameWorker, workerVars, bufferVars
<1>2. LoggerInv(w) /\ Appending(w) /\ Appending(w)'
  BY Zenon, <1>0, <1>1 DEF WorkerInv, Appending
<1>3. r \in Ref
  BY Zenon, <1>2, <1>a DEF LoggerInv, Holds
<1>4. TypeOK'
  <2>1. lpc' \in [Worker -> {"poll", "depth", "down", "up", "serve", "drain",
                           "publish", "ack", "freed", "wild"}]
    BY Zenon, <1>0 DEF DrainEntry, TypeOK
  <2> QED
    BY Zenon, <1>0, <1>1, <1>3, <1>u, <2>1 DEF TypeOK, workerVars, bufferVars, lockVars
<1>5. DepthInv(w)'
  BY Zenon, <1>0, <1>u DEF WorkerInv, DepthInv, InNotify, SteppedBack, Committing, workerVars, bufferVars
<1>6. ASSUME NEW i \in Level PROVE TagInv(w, i)' /\ CallInv(w, i)' /\ LevelInv(w, i)'
  <2>1. TagInv(w, i) /\ CallInv(w, i) /\ LevelInv(w, i)
    BY Zenon, <1>0 DEF WorkerInv
  <2>2. TagInv(w, i)' /\ CallInv(w, i)'
    BY Zenon, <1>u, <2>1 DEF TagInv, CallInv, Published, InNotify, Live, SteppedBack, Committing,
                workerVars, bufferVars
  <2>3. LevelInv(w, i)'
    BY Zenon, <1>1, <1>2, <1>u, <2>1 DEF LevelInv, Published, InNotify, Opening, SteppedBack, Holds,
                LevelRef, ParentRef, Unlogged, workerVars, bufferVars
  <2> QED
    BY Zenon, <2>2, <2>3
<1>7. CommitInv(w)'
  BY Zenon, <1>0, <1>1, <1>u DEF WorkerInv, CommitInv, Committing, Holds, ParentRef, workerVars, bufferVars
<1>8. LoggerInv(w)'
  <2>1. <<call[w][active[w]].obj, loff[w]>>' = r /\ r \in durable'
    BY Zenon, <1>1, <1>a, <1>u DEF bufferVars
  <2>2. Published(w)' = Published(w) /\ Holds(w, active[w], r)' <=> Holds(w, active[w], r)
    BY Zenon, <1>u DEF Published, InNotify, Holds, ParentRef, workerVars, bufferVars
  <2> QED
    BY Zenon, <1>1, <1>2, <1>a, <1>u, <2>1, <2>2 DEF LoggerInv, workerVars, bufferVars
<1>9. WorkerInv(w)'
  BY Zenon, <1>5, <1>6, <1>7, <1>8 DEF WorkerInv
<1>10. ntx[w] \in Nat
  BY <1>0, WorkerTypes
<1>11. KeepsOpen(w) /\ KeepsId(w)
  BY <1>10, <1>u DEF KeepsOpen, KeepsId, Live, SteppedBack, Committing, workerVars, bufferVars
<1>12. \A v \in Worker : KeepsId(v)
  BY Zenon, <1>11, <1>v, OthersKeep
<1>13. CommitIdsContiguous'
  BY Zenon, <1>12, <1>u, IdFrame
<1>14. \A o \in Object : lastCommit'[o] >= lastCommit[o]
  BY <1>0, <1>u DEF TypeOK
<1>15. durable \subseteq durable'
  BY Zenon, <1>1
<1> QED
  BY Zenon, <1>4, <1>9, <1>11, <1>13, <1>14, <1>15, <1>u, <1>v, LogStep

(* The logger stores the offset of the entry for its level.                *)
LEMMA PublishOffsetStep ==
  ASSUME IInv, NEW w \in Worker, PublishOffset(w)
  PROVE  IInv'
<1>0. WorkerInv(w) /\ TypeOK
  BY Zenon DEF IInv
<1>a. PICK a : a = active[w]
  BY Zenon
<1>1. lpc[w] = "publish" /\ lpc'[w] = "ack"
  BY Zenon, <1>0 DEF PublishOffset, TypeOK
<1>u. UNCHANGED <<workerVars, call, tag, depth, active, loff, logVars, lockVars>>
  BY Zenon DEF PublishOffset
<1>2. LoggerInv(w) /\ Appending(w) /\ Appending(w)'
  BY Zenon, <1>0, <1>1 DEF WorkerInv, Appending
<1>3. depth[w] \in 0 .. MaxNest /\ a \in 0 .. MaxWord /\ a < Published(w)
  BY Zenon, <1>0, <1>2, <1>a, WorkerTypes DEF LoggerInv
<1>4. a \in Level /\ a + 1 \in 1 .. MAX_ACTIVE_TXS
  BY <1>3 DEF Published, Level
<1>5. txo' \in [Worker -> [1 .. MAX_ACTIVE_TXS -> 0 .. LogSize]]
  BY Zenon, <1>0, <1>4, <1>a DEF PublishOffset, TypeOK
<1>6. \A k \in 1 .. MAX_ACTIVE_TXS : txo'[w][k] = IF k = a + 1 THEN loff[w] ELSE txo[w][k]
  BY Zenon, <1>0, <1>4, <1>a DEF PublishOffset, TypeOK
<1>v. \A v \in Worker \ {w} : SameWorker(v)
  BY Zenon, <1>0, <1>u DEF PublishOffset, TypeOK, SameWorker, workerVars
<1>7. TypeOK'
  <2>1. lpc' \in [Worker -> {"poll", "depth", "down", "up", "serve", "drain",
                           "publish", "ack", "freed", "wild"}]
    BY Zenon, <1>0 DEF PublishOffset, TypeOK
  <2> QED
    BY Zenon, <1>0, <1>5, <1>u, <2>1 DEF TypeOK, workerVars, logVars, lockVars
<1>8. Published(w)' = Published(w)
  BY Zenon, <1>u DEF Published, InNotify, workerVars
<1>9. DepthInv(w)'
  BY Zenon, <1>0, <1>u DEF WorkerInv, DepthInv, InNotify, SteppedBack, Committing, workerVars
<1>10. ASSUME NEW i \in Level
       PROVE  /\ i # a => LevelRef(w, i)' = LevelRef(w, i)
              /\ i # a + 1 => ParentRef(w, i)' = ParentRef(w, i)
              /\ i # a + 1 => \A r : Holds(w, i, r)' <=> Holds(w, i, r)
              /\ i # a => txo'[w][i + 1] = txo[w][i + 1]
              /\ i = a + 1 => i > 0 /\ i - 1 = a
              /\ a # a + 1
  <2>1. i + 1 \in 1 .. MAX_ACTIVE_TXS /\ i + 1 # a + 1 <=> i # a
    BY <1>4 DEF Level
  <2>2. i # 0 => i \in 1 .. MAX_ACTIVE_TXS
    BY DEF Level
  <2>3. (i = a + 1 => i > 0 /\ i - 1 = a) /\ a # a + 1
    BY <1>3 DEF Level
  <2>4. i # a => txo'[w][i + 1] = txo[w][i + 1]
    BY Zenon, <1>6, <2>1
  <2>5. i # a => LevelRef(w, i)' = LevelRef(w, i)
    BY Zenon, <1>u, <2>4 DEF LevelRef
  <2>6. i # a + 1 => ParentRef(w, i)' = ParentRef(w, i)
    BY Zenon, <1>u, <1>6, <2>2 DEF ParentRef
  <2> QED
    BY Zenon, <1>u, <2>3, <2>4, <2>5, <2>6 DEF Holds, logVars
<1>11. tag[w][a] = "call"
  BY Zenon, <1>2, <1>a DEF LoggerInv
<1>12. ASSUME NEW i \in Level PROVE TagInv(w, i)' /\ CallInv(w, i)' /\ LevelInv(w, i)'
  <2>1. TagInv(w, i) /\ CallInv(w, i) /\ LevelInv(w, i)
    BY Zenon, <1>0 DEF WorkerInv
  <2>2. TagInv(w, i)' /\ CallInv(w, i)'
    BY Zenon, <1>8, <1>u, <2>1 DEF TagInv, CallInv, Live, SteppedBack, Committing, workerVars
  <2>3. Opening(w, i)' <=> Opening(w, i)
    BY Zenon, <1>u DEF Opening, InNotify, SteppedBack, workerVars
  <2>4. Opening(w, i) => i # a
    BY <1>0, <1>3 DEF Opening, InNotify, SteppedBack, Published, WorkerInv, DepthInv
  <2>5. i < Published(w) /\ tag[w][i] = "zero" => i # a /\ i # a + 1
    BY Zenon, <1>10, <1>11, <2>1 DEF LevelInv
  <2> QED
    BY Zenon, <1>2, <1>8, <1>10, <1>11, <1>a, <1>u, <2>1, <2>2, <2>3, <2>4, <2>5
       DEF LevelInv, Unlogged, workerVars, logVars
<1>13. CommitInv(w)'
  <2>1. CommitInv(w) /\ DepthInv(w)
    BY Zenon, <1>0 DEF WorkerInv
  <2>2. Committing(w)' <=> Committing(w)
    BY Zenon, <1>u DEF Committing, workerVars
  <2>3. Committing(w) => depth[w] \in Level
    BY <1>3, <2>1 DEF DepthInv, Level
  <2>4. Committing(w) => depth[w] # a + 1
    BY Zenon, <1>10, <1>11, <2>1, <2>3 DEF CommitInv
  <2>5. Committing(w) => Holds(w, depth[w], wref[w])'
    BY Zenon, <1>10, <1>u, <2>1, <2>3, <2>4 DEF CommitInv, workerVars
  <2> QED
    BY Zenon, <1>u, <2>1, <2>2, <2>5 DEF CommitInv, workerVars, logVars
<1>14. LoggerInv(w)'
  <2>1. active'[w] = a /\ loff'[w] = loff[w] /\ txo'[w][a + 1] = loff[w]
    BY Zenon, <1>4, <1>6, <1>a, <1>u
  <2>2. PICK r : r = <<call[w][a].obj, loff[w]>>
    BY Zenon
  <2>3. Holds(w, a, r)'
    BY Zenon, <1>2, <1>4, <1>10, <1>a, <2>2 DEF LoggerInv
  <2> QED
    BY Zenon, <1>1, <1>2, <1>8, <1>a, <1>u, <2>1, <2>2, <2>3 DEF LoggerInv, logVars
<1>15. WorkerInv(w)'
  BY Zenon, <1>9, <1>12, <1>13, <1>14 DEF WorkerInv
<1>16. ntx[w] \in Nat
  BY <1>0, WorkerTypes
<1>17. KeepsOpen(w) /\ KeepsId(w)
  BY <1>16, <1>u DEF KeepsOpen, KeepsId, Live, SteppedBack, Committing, workerVars
<1> QED
  BY Zenon, <1>7, <1>15, <1>17, <1>u, <1>v, QuietStep

(* method_tag = 0: the level now has its durable entry and its offset,     *)
(* and so have the levels below it.                                        *)
LEMMA AcknowledgeStep ==
  ASSUME IInv, NEW w \in Worker, Acknowledge(w)
  PROVE  IInv'
<1>0. WorkerInv(w) /\ TypeOK
  BY Zenon DEF IInv
<1>a. PICK a : a = active[w]
  BY Zenon
<1>1. lpc[w] = "ack" /\ lpc'[w] = "poll"
  BY Zenon, <1>0 DEF Acknowledge, TypeOK
<1>u. UNCHANGED <<workerVars, call, depth, txo, active, loff, logVars, lockVars>>
  BY Zenon DEF Acknowledge
<1>2. LoggerInv(w) /\ Appending(w) /\ ~Appending(w)'
  BY Zenon, <1>0, <1>1 DEF WorkerInv, Appending
<1>3. depth[w] \in 0 .. MaxNest /\ a \in 0 .. MaxWord /\ a < Published(w)
  BY Zenon, <1>0, <1>2, <1>a, WorkerTypes DEF LoggerInv
<1>4. a \in Level
  BY <1>3 DEF Published, Level
<1>5. tag' \in [Worker -> [Level -> {"zero", "call", "term"}]]
  BY Zenon, <1>0, <1>4, <1>a DEF Acknowledge, TypeOK
<1>6. \A i \in Level : tag'[w][i] = IF i = a THEN "zero" ELSE tag[w][i]
  BY Zenon, <1>0, <1>4, <1>a DEF Acknowledge, TypeOK
<1>v. \A v \in Worker \ {w} : SameWorker(v)
  BY Zenon, <1>0, <1>u DEF Acknowledge, TypeOK, SameWorker, workerVars
<1>7. TypeOK'
  <2>1. lpc' \in [Worker -> {"poll", "depth", "down", "up", "serve", "drain",
                           "publish", "ack", "freed", "wild"}]
    BY Zenon, <1>0 DEF Acknowledge, TypeOK
  <2> QED
    BY Zenon, <1>0, <1>5, <1>u, <2>1 DEF TypeOK, workerVars, logVars, lockVars
<1>8. Published(w)' = Published(w) /\ Published(w) \in Int
  BY <1>3, <1>u DEF Published, InNotify, workerVars
<1>9. DepthInv(w)'
  BY Zenon, <1>0, <1>u DEF WorkerInv, DepthInv, InNotify, SteppedBack, Committing, workerVars
<1>10. ASSUME NEW i \in Level
       PROVE  /\ LevelRef(w, i)' = LevelRef(w, i)
              /\ \A r : Holds(w, i, r)' <=> Holds(w, i, r)
              /\ Opening(w, i)' <=> Opening(w, i)
              /\ i > 0 => i - 1 \in Level
  BY <1>u DEF LevelRef, Holds, ParentRef, Opening, InNotify, SteppedBack, workerVars, logVars, Level
<1>11. ASSUME NEW i \in Level PROVE TagInv(w, i)' /\ CallInv(w, i)' /\ LevelInv(w, i)'
  <2>1. TagInv(w, i) /\ CallInv(w, i) /\ LevelInv(w, i)
    BY Zenon, <1>0 DEF WorkerInv
  <2>2. CallInv(w, i)'
    BY Zenon, <1>u, <2>1 DEF CallInv, Live, SteppedBack, Committing, workerVars
  <2>3. i >= Published(w) => i # a
    BY <1>3, <1>8 DEF Level
  <2>4. TagInv(w, i)'
    BY Zenon, <1>6, <1>8, <1>u, <2>1, <2>3 DEF TagInv, workerVars
  <2>5. CASE i = a
    <3>1. ~Opening(w, a)
      BY <1>0, <1>3 DEF Opening, InNotify, SteppedBack, Published, WorkerInv, DepthInv
    <3>2. LevelRef(w, a) = <<call[w][a].obj, loff[w]>>
      BY Zenon, <1>1, <1>2, <1>a DEF LoggerInv, LevelRef
    <3>3. /\ Holds(w, a, LevelRef(w, a)) /\ LevelRef(w, a) \in durable
          /\ commit[LevelRef(w, a)] = 0
          /\ a > 0 => tag[w][a - 1] = "zero"
      BY Zenon, <1>1, <1>2, <1>a, <3>2 DEF LoggerInv
    <3>4. a > 0 => tag'[w][a - 1] = "zero"
      BY Zenon, <1>4, <1>6, <1>10, <3>3
    <3>r. PICK r : r = LevelRef(w, a)
      BY Zenon
    <3>5. LevelRef(w, i)' = r /\ Holds(w, i, r)' /\ r \in durable' /\ commit'[r] = 0
      BY Zenon, <1>10, <1>u, <2>5, <3>3, <3>r DEF logVars
    <3>6. tag'[w][i] = "zero"
      BY Zenon, <1>6, <2>5
    <3> QED
      BY Zenon, <1>10, <2>2, <2>4, <2>5, <3>1, <3>4, <3>5, <3>6 DEF LevelInv
  <2>6. CASE i # a
    <3>1. i > 0 /\ tag[w][i - 1] = "zero" => tag'[w][i - 1] = "zero"
      BY Zenon, <1>6, <1>10
    <3>2. tag'[w][i] = tag[w][i]
      BY Zenon, <1>6, <2>6
    <3> QED
      BY Zenon, <1>2, <1>8, <1>10, <1>a, <1>u, <2>1, <2>2, <2>4, <2>6, <3>1, <3>2
         DEF LevelInv, Unlogged, workerVars, logVars
  <2> QED
    BY Zenon, <2>2, <2>4, <2>5, <2>6
<1>12. CommitInv(w)'
  <2>1. CommitInv(w) /\ DepthInv(w)
    BY Zenon, <1>0 DEF WorkerInv
  <2>2. Committing(w) => depth[w] \in Level /\ (depth[w] > 0 => depth[w] - 1 \in Level)
    BY <1>3, <2>1 DEF DepthInv, Level
  <2>3. Committing(w)' <=> Committing(w)
    BY Zenon, <1>u DEF Committing, workerVars
  <2> QED
    BY Zenon, <1>6, <1>10, <1>u, <2>1, <2>2, <2>3 DEF CommitInv, workerVars, logVars
<1>13. LoggerInv(w)'
  BY Zenon, <1>1, <1>2 DEF LoggerInv
<1>14. WorkerInv(w)'
  BY Zenon, <1>9, <1>11, <1>12, <1>13 DEF WorkerInv
<1>15. ntx[w] \in Nat
  BY <1>0, WorkerTypes
<1>16. KeepsOpen(w) /\ KeepsId(w)
  BY <1>15, <1>u DEF KeepsOpen, KeepsId, Live, SteppedBack, Committing, workerVars
<1> QED
  BY Zenon, <1>7, <1>14, <1>16, <1>u, <1>v, QuietStep

(* Savitar_log_append writes the entry of an open, unlogged call in a      *)
(* blank slot, naming the durable entry of its parent.                     *)
LEMMA AppendEntryStep ==
  ASSUME IInv, NEW w \in Worker, AppendEntry(w)
  PROVE  IInv'
<1>0. WorkerInv(w) /\ TypeOK
  BY Zenon DEF IInv
<1>a. PICK i : i = active[w]
  BY Zenon
<1>o. PICK o : o = call[w][i].obj
  BY Zenon
<1>k. PICK k : k = tail[o]
  BY Zenon
<1>r. PICK r0 : r0 = <<o, k>>
  BY Zenon
<1>e. PICK e : e = [tx |-> call[w][i].tx, parent |-> ParentRef(w, i)]
  BY Zenon
<1>1. /\ lpc[w] = "serve" /\ tag[w][i] = "call" /\ ~(i > 0 /\ txo[w][i] = 0)
      /\ k <= LogSize
      /\ body' = [body EXCEPT ![r0] = e]
      /\ tail' = [tail EXCEPT ![o] = k + 1]
      /\ loff' = [loff EXCEPT ![w] = k]
      /\ lpc' = [lpc EXCEPT ![w] = "drain"]
  BY Zenon, <1>a, <1>o, <1>k, <1>r, <1>e DEF AppendEntry
<1>u. UNCHANGED <<workerVars, bufferVars, active, commit, durable, kept, lastCommit, lockVars>>
  BY Zenon DEF AppendEntry
<1>v. \A v \in Worker \ {w} : SameWorker(v)
  BY Zenon, <1>0, <1>1, <1>u DEF TypeOK, SameWorker, workerVars, bufferVars
<1>2. lpc'[w] = "drain" /\ loff'[w] = k /\ ~Appending(w) /\ Appending(w)'
  BY Zenon, <1>0, <1>1 DEF TypeOK, Appending
<1>3. depth[w] \in 0 .. MaxNest
  BY Zenon, <1>0, WorkerTypes
<1>4. i \in Level
  BY Zenon, <1>0, <1>1, <1>a DEF WorkerInv, LoggerInv
<1>5. TagInv(w, i) /\ LevelInv(w, i)
  BY Zenon, <1>0, <1>4 DEF WorkerInv
<1>6. i < Published(w) /\ i < depth[w] /\ Live(w, i)
  BY <1>1, <1>3, <1>4, <1>5 DEF TagInv, Published, Live, Level
<1>7. /\ o \in Object /\ call[w][i].tx \in Tx /\ call[w][i].tx # None
      /\ call[w][i].tx[1] = w /\ call[w][i].tx[2] \in 1 .. ntx[w]
      /\ call[w][i].tx = <<w, call[w][i].tx[2]>>
  BY Zenon, <1>0, <1>4, <1>6, <1>o, LiveTx
<1>8. k \in Slot /\ k \in Nat /\ r0 \in Ref /\ r0[1] = o /\ r0[2] = k
  <2>1. k \in 1 .. LogSize + 1
    BY Zenon, <1>0, <1>7, <1>k DEF TypeOK
  <2>2. k \in Slot
    BY <1>1, <2>1 DEF Slot
  <2> QED
    BY <1>7, <1>r, <2>1, <2>2 DEF Ref
<1>9. body[r0] = Blank /\ commit[r0] = 0 /\ r0 \notin kept
  <2>1. SlotInv(r0)
    BY Zenon, <1>8 DEF IInv
  <2> QED
    BY <1>8, <1>k, <2>1 DEF SlotInv
<1>10. Unlogged(call[w][i].tx) /\ txo[w][i + 1] = 0
  BY Zenon, <1>1, <1>2, <1>5, <1>6 DEF LevelInv
<1>11. i > 0 => /\ i - 1 \in Level /\ i - 1 < Published(w) /\ Live(w, i - 1)
                /\ tag[w][i - 1] = "zero"
                /\ ParentRef(w, i) = LevelRef(w, i - 1)
                /\ ParentRef(w, i) \in Ref /\ ParentRef(w, i) \in durable
                /\ commit[ParentRef(w, i)] = 0
                /\ body[ParentRef(w, i)].tx = call[w][i - 1].tx
                /\ call[w][i - 1].tx # None
                /\ call[w][i - 1].tx[1] = w
                /\ call[w][i - 1].tx[2] < call[w][i].tx[2]
  <2> SUFFICES ASSUME i > 0
               PROVE  /\ i - 1 \in Level /\ i - 1 < Published(w) /\ Live(w, i - 1)
                      /\ tag[w][i - 1] = "zero"
                      /\ ParentRef(w, i) = LevelRef(w, i - 1)
                      /\ ParentRef(w, i) \in Ref /\ ParentRef(w, i) \in durable
                      /\ commit[ParentRef(w, i)] = 0
                      /\ body[ParentRef(w, i)].tx = call[w][i - 1].tx
                      /\ call[w][i - 1].tx # None
                      /\ call[w][i - 1].tx[1] = w
                      /\ call[w][i - 1].tx[2] < call[w][i].tx[2]
    BY Zenon
  <2>1. i - 1 \in Level /\ i - 1 < depth[w] /\ i - 1 < Published(w) /\ (i - 1) + 1 = i /\ i # 0
        /\ i - 1 < i
    BY <1>3, <1>4, <1>6 DEF Level, Published
  <2>2. Live(w, i - 1)
    BY Zenon, <2>1 DEF Live
  <2>3. TagInv(w, i - 1) /\ LevelInv(w, i - 1) /\ CallInv(w, i)
    BY Zenon, <1>0, <1>4, <2>1 DEF WorkerInv
  <2>4. tag[w][i - 1] = "zero"
    BY Zenon, <1>1, <1>2, <2>1, <2>3 DEF TagInv, LevelInv
  <2>5. ParentRef(w, i) = LevelRef(w, i - 1)
    BY Zenon, <2>1 DEF ParentRef, LevelRef
  <2>6. /\ Holds(w, i - 1, LevelRef(w, i - 1)) /\ LevelRef(w, i - 1) \in durable
        /\ commit[LevelRef(w, i - 1)] = 0
    BY Zenon, <2>1, <2>3, <2>4 DEF LevelInv
  <2>7. call[w][i - 1].tx # None /\ call[w][i - 1].tx[1] = w
    BY Zenon, <1>0, <2>1, <2>2, LiveTx
  <2>8. call[w][i - 1].tx[2] < call[w][i].tx[2]
    BY Zenon, <1>6, <2>1, <2>3 DEF CallInv
  <2> QED
    BY Zenon, <2>1, <2>2, <2>4, <2>5, <2>6, <2>7, <2>8 DEF Holds
<1>12. /\ e.tx = call[w][i].tx /\ e.parent = ParentRef(w, i)
       /\ e \in Entry
       /\ e.parent # None => i > 0
  <2>1. e.tx = call[w][i].tx /\ e.parent = ParentRef(w, i)
    BY Zenon, <1>e
  <2>2. i = 0 \/ i > 0
    BY <1>4 DEF Level
  <2>3. i = 0 => ParentRef(w, i) = None
    BY Zenon DEF ParentRef
  <2>4. ParentRef(w, i) \in Ref \cup {None}
    BY Zenon, <1>11, <2>2, <2>3
  <2>5. e \in Entry
    BY Zenon, <1>7, <1>e, <2>4 DEF Entry
  <2> QED
    BY Zenon, <2>1, <2>2, <2>3, <2>5
<1>13. \A r \in Ref : body'[r] = IF r = r0 THEN e ELSE body[r]
  BY Zenon, <1>0, <1>1, <1>8 DEF TypeOK
<1>14. TypeOK'
  <2>1. body' \in [Ref -> Entry]
    BY Zenon, <1>0, <1>1, <1>8, <1>12 DEF TypeOK
  <2>2. tail' \in [Object -> 1 .. LogSize + 1]
    <3>1. k + 1 \in 1 .. LogSize + 1
      BY <1>1, <1>8
    <3> QED
      BY Zenon, <1>0, <1>1, <3>1 DEF TypeOK
  <2>3. loff' \in [Worker -> 0 .. LogSize]
    <3>1. k \in 0 .. LogSize
      BY <1>1, <1>8
    <3> QED
      BY Zenon, <1>0, <1>1, <3>1 DEF TypeOK
  <2>4. lpc' \in [Worker -> {"poll", "depth", "down", "up", "serve", "drain",
                           "publish", "ack", "freed", "wild"}]
    BY Zenon, <1>0, <1>1 DEF TypeOK
  <2> QED
    BY Zenon, <1>0, <1>u, <2>1, <2>2, <2>3, <2>4 DEF TypeOK, workerVars, bufferVars, lockVars
<1>15. Published(w)' = Published(w)
  BY Zenon, <1>u DEF Published, InNotify, workerVars, bufferVars
<1>16. ASSUME NEW j \in Level
       PROVE  /\ LevelRef(w, j)' = LevelRef(w, j)
              /\ ParentRef(w, j)' = ParentRef(w, j)
              /\ Opening(w, j)' <=> Opening(w, j)
              /\ Live(w, j)' <=> Live(w, j)
              /\ j < Published(w) \/ Opening(w, j) => Live(w, j)
  <2>1. /\ LevelRef(w, j)' = LevelRef(w, j)
        /\ ParentRef(w, j)' = ParentRef(w, j)
        /\ Opening(w, j)' <=> Opening(w, j)
        /\ Live(w, j)' <=> Live(w, j)
    BY Zenon, <1>u DEF LevelRef, ParentRef, Opening, Live, InNotify, SteppedBack, Committing,
       workerVars, bufferVars
  <2>2. j < Published(w) \/ Opening(w, j) => Live(w, j)
    BY <1>3 DEF Published, Opening, Live, InNotify, SteppedBack, Level
  <2> QED
    BY Zenon, <2>1, <2>2
<1>17. ASSUME NEW j \in Level, Live(w, j), NEW r, Holds(w, j, r) PROVE Holds(w, j, r)'
  <2>1. r # r0
    BY <1>0, <1>9, <1>17, LiveTx DEF Holds, Blank
  <2>2. r \in Ref /\ body'[r] = body[r]
    BY Zenon, <1>13, <1>17, <2>1 DEF Holds
  <2> QED
    BY Zenon, <1>16, <1>17, <1>u, <2>2 DEF Holds, bufferVars
<1>18. ASSUME NEW j \in Level, j # i, Live(w, j), Unlogged(call[w][j].tx)
       PROVE  Unlogged(call[w][j].tx)'
  <2>1. call[w][j].tx # call[w][i].tx
    BY Zenon, <1>0, <1>4, <1>6, <1>18, LiveDistinct
  <2> QED
    BY Zenon, <1>12, <1>13, <1>18, <1>u, <2>1 DEF Unlogged, bufferVars
<1>19. DepthInv(w)'
  BY Zenon, <1>0, <1>u DEF WorkerInv, DepthInv, InNotify, SteppedBack, Committing, workerVars, bufferVars
<1>20. ASSUME NEW j \in Level PROVE TagInv(w, j)' /\ CallInv(w, j)' /\ LevelInv(w, j)'
  <2>1. TagInv(w, j) /\ CallInv(w, j) /\ LevelInv(w, j)
    BY Zenon, <1>0 DEF WorkerInv
  <2>2. TagInv(w, j)' /\ CallInv(w, j)'
    BY Zenon, <1>15, <1>16, <1>u, <2>1 DEF TagInv, CallInv, workerVars, bufferVars
  <2>3. j = i => ~Opening(w, j)
    BY <1>0, <1>6, <1>3 DEF Opening, InNotify, SteppedBack, Published, WorkerInv, DepthInv
  <2>4. LevelInv(w, j)'
    BY Zenon, <1>1, <1>2, <1>15, <1>16, <1>17, <1>18, <1>a, <1>u, <2>1, <2>3
       DEF LevelInv, workerVars, bufferVars
  <2> QED
    BY Zenon, <2>2, <2>4
<1>21. CommitInv(w)'
  <2>1. CommitInv(w) /\ DepthInv(w)
    BY Zenon, <1>0 DEF WorkerInv
  <2>2. Committing(w)' <=> Committing(w)
    BY Zenon, <1>u DEF Committing, workerVars
  <2>3. Committing(w) => depth[w] \in Level /\ Live(w, depth[w])
    BY <1>3, <2>1 DEF DepthInv, Level, Live
  <2>4. Committing(w) => Holds(w, depth[w], wref[w])'
    BY Zenon, <1>17, <1>u, <2>1, <2>3 DEF CommitInv, workerVars, bufferVars
  <2> QED
    BY Zenon, <1>u, <2>1, <2>2, <2>4 DEF CommitInv, workerVars, bufferVars
<1>22. LoggerInv(w)'
  <2>1. Holds(w, i, r0)'
    BY Zenon, <1>4, <1>8, <1>9, <1>12, <1>13, <1>16, <1>u DEF Holds, bufferVars
  <2>2. active'[w] = i /\ <<call'[w][i].obj, loff'[w]>> = r0
    BY Zenon, <1>2, <1>a, <1>o, <1>r, <1>u DEF bufferVars
  <2> QED
    BY <1>1, <1>2, <1>6, <1>9, <1>10, <1>11, <1>15, <1>u, <2>1, <2>2
       DEF LoggerInv, bufferVars
<1>23. WorkerInv(w)'
  BY Zenon, <1>19, <1>20, <1>21, <1>22 DEF WorkerInv
<1>24. ASSUME NEW v \in Worker \ {w} PROVE WorkerInv(v)'
  <2>1. SameSlots(v)
    <3>1. \A r \in Ref : body[r].tx # None => body'[r] = body[r]
      BY <1>9, <1>13 DEF Blank
    <3>2. \A r \in Ref : body'[r] # body[r] => body'[r].tx[1] # v
      BY Zenon, <1>7, <1>12, <1>13
    <3>3. \A x \in Object : lastCommit'[x] >= lastCommit[x]
      BY <1>0, <1>u DEF TypeOK
    <3> QED
      BY Zenon, <1>u, <3>1, <3>2, <3>3 DEF SameSlots
  <2> QED
    BY Zenon, <1>14, <1>v, <2>1, OtherWorker
<1>25. \A v \in Worker : KeepsOpen(v) /\ KeepsId(v)
  <2>1. ntx[w] \in Nat
    BY <1>0, WorkerTypes
  <2>2. KeepsOpen(w) /\ KeepsId(w)
    BY <1>16, <1>u, <2>1 DEF KeepsOpen, KeepsId, workerVars, bufferVars
  <2> QED
    BY Zenon, <1>v, <2>2, OthersKeep
<1>26. ASSUME NEW r \in Ref PROVE SlotInv(r)'
  <2>1. SlotInv(r) /\ r = <<r[1], r[2]>> /\ r[1] \in Object /\ r[2] \in Nat
    BY DEF IInv, Ref, Slot
  <2>2. CASE r = r0
    <3>0. tail \in [Object -> 1 .. LogSize + 1]
      BY Zenon, <1>0 DEF TypeOK
    <3>1. tail'[r[1]] = k + 1 /\ r[2] = k /\ ~(k >= k + 1) /\ body'[r] = e
      <4>1. tail'[r[1]] = k + 1 /\ r[2] = k /\ body'[r] = e
        BY Zenon, <1>1, <1>7, <1>8, <1>13, <2>2, <3>0
      <4> QED
        BY <1>8, <4>1
    <3>2. commit'[r] = 0 /\ r \notin kept'
      BY Zenon, <1>9, <1>u, <2>2
    <3>3. ntx'[w] = ntx[w] /\ Live(w, i)' /\ call'[w][i].tx = e.tx
      BY Zenon, <1>4, <1>6, <1>12, <1>16, <1>u DEF workerVars, bufferVars
    <3>4. PICK n \in 1 .. ntx'[w] : e.tx = <<w, n>>
      BY Zenon, <1>7, <1>12, <3>3
    <3>5. e.parent # None => e.parent # r0
      BY <1>9, <1>11, <1>12 DEF Blank
    <3>6. e.parent # None =>
             /\ e.parent \in Ref
             /\ e.parent \in durable'
             /\ body'[e.parent].tx # None
             /\ body'[e.parent].tx[1] = e.tx[1]
             /\ body'[e.parent].tx[2] < e.tx[2]
             /\ commit'[e.parent] = 0
      BY Zenon, <1>7, <1>11, <1>12, <1>13, <1>u, <3>5
    <3>7. \E v \in Worker : \E m \in 1 .. ntx'[v] :
             /\ e.tx = <<v, m>>
             /\ \E j \in Level : Live(v, j)' /\ call'[v][j].tx = e.tx
      BY Zenon, <1>4, <3>3, <3>4
    <3> QED
      BY Zenon, <3>1, <3>2, <3>6, <3>7 DEF SlotInv
  <2>3. CASE r # r0
    <3>1. body'[r] = body[r]
      BY Zenon, <1>13, <2>3
    <3>2. r[1] = o => r[2] # k
      BY Zenon, <1>r, <2>1, <2>3
    <3>3. tail'[r[1]] = IF r[1] = o THEN k + 1 ELSE tail[r[1]]
      BY Zenon, <1>0, <1>1, <2>1 DEF TypeOK
    <3>4. tail[r[1]] \in Nat
      <4>1. tail[r[1]] \in 1 .. LogSize + 1
        BY Zenon, <1>0, <2>1 DEF TypeOK
      <4> QED
        BY <4>1
    <3>5. /\ r[2] >= tail'[r[1]] => r[2] >= tail[r[1]]
          /\ r[2] < tail'[r[1]] => r[2] < tail[r[1]]
      BY <1>8, <1>k, <2>1, <3>2, <3>3, <3>4
    <3>6. ASSUME NEW v \in Worker, NEW j \in Level, Live(v, j)
          PROVE  Live(v, j)' /\ call'[v][j] = call[v][j]
      BY Zenon, <1>25, <3>6 DEF KeepsOpen
    <3>7. \A v \in Worker : ntx'[v] = ntx[v]
      BY Zenon, <1>u DEF workerVars
    <3>8. \A p \in Ref : body[p].tx # None => body'[p] = body[p]
      BY <1>9, <1>13 DEF Blank
    <3>9. r[2] < tail[r[1]] => SlotInv(r)'
      <4> SUFFICES ASSUME r[2] < tail[r[1]] PROVE SlotInv(r)'
        BY Zenon
      <4>1. \E v \in Worker : \E m \in 1 .. ntx'[v] :
               /\ body[r].tx = <<v, m>>
               /\ r \notin kept => \E j \in Level : Live(v, j)' /\ call'[v][j].tx = body[r].tx
        BY <2>1, <3>6, <3>7 DEF SlotInv
      <4>2. ~(r[2] >= tail[r[1]])
        BY <2>1, <3>4
      <4> QED
        BY <1>u, <2>1, <3>1, <3>5, <3>8, <4>1, <4>2 DEF SlotInv
    <3>10. ~(r[2] < tail[r[1]]) => SlotInv(r)'
      BY Zenon, <1>u, <2>1, <3>1, <3>4, <3>5 DEF SlotInv
    <3> QED
      BY Zenon, <3>9, <3>10
  <2> QED
    BY Zenon, <2>2, <2>3
<1>27. LoggedExactlyOnce'
  <2>1. LoggedExactlyOnce
    BY Zenon DEF IInv
  <2>2. ASSUME NEW r1 \in Ref, NEW r2 \in Ref, body'[r1].tx # None, body'[r1].tx = body'[r2].tx
        PROVE  r1 = r2
    <3>1. \A r \in Ref : body[r].tx # e.tx
      BY Zenon, <1>10, <1>12 DEF Unlogged
    <3> QED
      BY <1>13, <2>1, <2>2, <3>1 DEF LoggedExactlyOnce
  <2>3. ASSUME NEW v \in Worker, NEW n \in 1 .. ntx'[v], ~Open(v, <<v, n>>)'
        PROVE  \E r \in Ref : body'[r].tx = <<v, n>> /\ r \in durable' /\ r \in kept'
    <3>1. n \in 1 .. ntx[v] /\ ~Open(v, <<v, n>>)
      BY Zenon, <1>25, <2>3 DEF KeepsOpen, Open
    <3>2. PICK r \in Ref : body[r].tx = <<v, n>> /\ r \in durable /\ r \in kept
      BY Zenon, <2>1, <3>1 DEF LoggedExactlyOnce
    <3>3. body'[r] = body[r]
      BY Zenon, <1>9, <1>13, <3>2
    <3> QED
      BY Zenon, <1>u, <3>2, <3>3
  <2> QED
    BY Zenon, <2>2, <2>3 DEF LoggedExactlyOnce
<1>28. CommitIdsContiguous'
  BY Zenon, <1>25, <1>u, IdFrame
<1> QED
  BY Zenon, <1>14, <1>23, <1>24, <1>26, <1>27, <1>28 DEF IInv

-----------------------------------------------------------------------------
(* Savitar_log_commit.                                                     *)

(* The entry being committed and its level.                                *)

===========================================================================
