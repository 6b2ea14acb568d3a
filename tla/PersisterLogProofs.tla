------------------------ MODULE PersisterLogProofs ------------------------
(***************************************************************************)
(* Persister implements SemanticLog, for every value of the constants: the *)
(* mapping of PersisterLog takes the initial states to the initial state,  *)
(* the drain of an entry to Log, the fetch and add on last_commit to       *)
(* Commit, and every other step to a stutter.                              *)
(***************************************************************************)
EXTENDS PersisterProofs, PersisterLog

USE BoundsAssumption

(* A durable slot has been written.                                        *)
DurableInv == \A r \in durable : body[r].tx # None

(* What is logged: the transactions of the durable entries.                *)
LEMMA LoggedIs ==
  ASSUME NEW t
  PROVE  Log!Logged(t) <=> \E r \in durable : body[r].tx = t
<1>1. ASSUME NEW r \in durable, body[r].tx = t PROVE Log!Logged(t)
  <2>1. PICK e : e = [tx |-> body[r].tx, obj |-> r[1], parent |-> ParentTx(r)]
    BY Zenon
  <2>2. e \in DurableEntries
    BY Zenon, <2>1 DEF DurableEntries
  <2>3. e.tx = t
    BY <1>1, <2>1
  <2> QED
    BY Zenon, <2>2, <2>3 DEF Log!Logged
<1>2. ASSUME NEW e \in DurableEntries, e.tx = t PROVE \E r \in durable : body[r].tx = t
  <2>1. PICK r \in durable : e = [tx |-> body[r].tx, obj |-> r[1], parent |-> ParentTx(r)]
    BY Zenon DEF DurableEntries
  <2>2. e.tx = body[r].tx
    BY <2>1
  <2> QED
    BY Zenon, <1>2, <2>2
<1> QED
  BY Zenon, <1>1, <1>2 DEF Log!Logged

(* What is stamped: the transactions whose commit id is stored in their    *)
(* entry or about to be.                                                   *)
LEMMA StampedIs ==
  ASSUME NEW t
  PROVE  Log!Stamped(t) <=> \/ \E r \in Ref : commit[r] # 0 /\ body[r].tx = t
                            \/ \E v \in Worker : wpc[v] = "store" /\ body[wref[v]].tx = t
<1>1. ASSUME NEW r \in Ref, commit[r] # 0, body[r].tx = t PROVE Log!Stamped(t)
  <2>1. PICK s : s = [tx |-> body[r].tx, id |-> commit[r]]
    BY Zenon
  <2>2. s \in TakenIds
    BY <1>1, <2>1 DEF TakenIds
  <2>3. s.tx = t
    BY <1>1, <2>1
  <2> QED
    BY Zenon, <2>2, <2>3 DEF Log!Stamped
<1>2. ASSUME NEW v \in Worker, wpc[v] = "store", body[wref[v]].tx = t PROVE Log!Stamped(t)
  <2>1. PICK s : s = [tx |-> body[wref[v]].tx, id |-> wcid[v]]
    BY Zenon
  <2>2. s \in TakenIds
    BY <1>2, <2>1 DEF TakenIds
  <2>3. s.tx = t
    BY <1>2, <2>1
  <2> QED
    BY Zenon, <2>2, <2>3 DEF Log!Stamped
<1>3. ASSUME NEW s \in TakenIds, s.tx = t
      PROVE  \/ \E r \in Ref : commit[r] # 0 /\ body[r].tx = t
             \/ \E v \in Worker : wpc[v] = "store" /\ body[wref[v]].tx = t
  BY <1>3 DEF TakenIds
<1> QED
  BY Zenon, <1>1, <1>2, <1>3 DEF Log!Stamped

(* No two slots hold the same transaction.                                 *)
LEMMA OneSlot ==
  ASSUME IInv, NEW r \in Ref, NEW s \in Ref, body[r].tx # None, body[r].tx = body[s].tx
  PROVE  r = s
BY Zenon DEF IInv, LoggedExactlyOnce

(* When a transaction commits, the commit ids of those nested in it are    *)
(* persistent.                                                             *)
LEMMA NestedKept ==
  ASSUME IInv, NEW w \in Worker, Committing(w),
         NEW r \in Ref, body[r].parent = wref[w]
  PROVE  r \in kept
<1> SUFFICES ASSUME r \notin kept PROVE FALSE
  BY Zenon
<1>0. WorkerInv(w) /\ TypeOK
  BY Zenon DEF IInv
<1>1. /\ depth[w] \in Level /\ Live(w, depth[w])
      /\ wref[w] \in Ref
      /\ body[wref[w]].tx = call[w][depth[w]].tx
      /\ body[wref[w]].tx # None /\ body[wref[w]].tx[1] = w
  BY Zenon, CommittingFacts
<1>2. body[r].parent # None
  BY Zenon, <1>1, NoneAssumption
<1>3. SlotInv(r) /\ r[2] < tail[r[1]]
  BY Zenon, <1>2, ParentFacts
<1>4. PICK v \in Worker : /\ \E n \in 1 .. ntx[v] : body[r].tx = <<v, n>>
                          /\ \E i \in Level : Live(v, i) /\ call[v][i].tx = body[r].tx
  BY Zenon, <1>3 DEF SlotInv
<1>5. body[wref[w]].tx[1] = body[r].tx[1] /\ body[wref[w]].tx[2] < body[r].tx[2]
  BY Zenon, <1>2, <1>3 DEF SlotInv
<1>6. v = w
  BY <1>1, <1>4, <1>5
<1>7. PICK i \in Level : Live(w, i) /\ call[w][i].tx = body[r].tx
  BY Zenon, <1>4, <1>6
<1>8. call[w][depth[w]].tx[2] < call[w][i].tx[2]
  BY Zenon, <1>1, <1>5, <1>7
<1>9. i < depth[w] \/ i = depth[w]
  BY Zenon, <1>7 DEF Live, SteppedBack, Committing
<1>10. call[w][depth[w]].tx[2] \in 1 .. ntx[w] /\ call[w][i].tx[2] \in 1 .. ntx[w]
  BY Zenon, <1>0, <1>1, <1>7, LiveTx
<1>11. CallInv(w, depth[w])
  BY Zenon, <1>0, <1>1 DEF WorkerInv
<1>12. i < depth[w] => call[w][i].tx[2] < call[w][depth[w]].tx[2]
  BY Zenon, <1>1, <1>11 DEF CallInv
<1> QED
  BY <1>8, <1>9, <1>10, <1>12

-----------------------------------------------------------------------------
(* A step that writes no entry and takes no commit id is a stutter of the  *)
(* abstract log.                                                           *)
LEMMA LogStutter ==
  ASSUME UNCHANGED <<body, commit, durable, lastCommit>>, \A v \in Worker : KeepsId(v)
  PROVE  UNCHANGED <<DurableEntries, TakenIds, lastCommit>>
<1>1. DurableEntries' = DurableEntries
  BY Zenon DEF DurableEntries, ParentTx
<1>2. PICK A : A = {[tx |-> body[r].tx, id |-> commit[r]] : r \in {x \in Ref : commit[x] # 0}}
  BY Zenon
<1>3. A = {[tx |-> body'[r].tx, id |-> commit'[r]] : r \in {x \in Ref : commit'[x] # 0}}
  BY Zenon, <1>2
<1>4. {v \in Worker : wpc'[v] = "store"} = {v \in Worker : wpc[v] = "store"}
  BY Zenon DEF KeepsId
<1>5. \A v \in {u \in Worker : wpc[u] = "store"} : wref'[v] = wref[v] /\ wcid'[v] = wcid[v]
  BY Zenon DEF KeepsId
<1>6. {[tx |-> body[wref[w]].tx, id |-> wcid[w]] : w \in {v \in Worker : wpc[v] = "store"}}
        = {[tx |-> body'[wref'[w]].tx, id |-> wcid'[w]] : w \in {v \in Worker : wpc'[v] = "store"}}
  BY <1>4, <1>5
<1>7. TakenIds' = TakenIds
  BY Zenon, <1>2, <1>3, <1>6 DEF TakenIds
<1> QED
  BY Zenon, <1>1, <1>7

(* The logger drains an entry: the transaction is logged, after the one it *)
(* is nested in, which has not committed.                                  *)
LEMMA DrainLogs ==
  ASSUME IInv, DurableInv, NEW w \in Worker, DrainEntry(w)
  PROVE  Log!Next \/ UNCHANGED <<DurableEntries, TakenIds, lastCommit>>
<1>0. WorkerInv(w) /\ TypeOK /\ LoggerInv(w)
  BY Zenon DEF IInv, WorkerInv
<1>a. PICK i : i = active[w]
  BY Zenon
<1>r. PICK r : r = <<call[w][i].obj, loff[w]>>
  BY Zenon
<1>1. Appending(w) /\ durable' = durable \cup {r}
  BY Zenon, <1>a, <1>r DEF DrainEntry, Appending
<1>u. UNCHANGED <<workerVars, bufferVars, active, loff, body, commit, lastCommit>>
  BY Zenon DEF DrainEntry
<1>2. i \in Level
  BY Zenon, <1>0, <1>1, <1>a, AppendingLevel
<1>3. /\ i < Published(w) /\ Holds(w, i, r) /\ commit[r] = 0
      /\ i > 0 => tag[w][i - 1] = "zero"
  BY Zenon, <1>0, <1>1, <1>a, <1>r DEF LoggerInv
<1>4. depth[w] \in 0 .. MaxNest
  BY Zenon, <1>0, WorkerTypes
<1>5. Live(w, i)
  BY <1>2, <1>3, <1>4 DEF Live, Published, Level
<1>6. /\ r \in Ref /\ body[r].tx = call[w][i].tx /\ body[r].parent = ParentRef(w, i) /\ r \notin kept
      /\ body[r].tx \in Tx /\ body[r].tx # None
  <2>1. call[w][i].tx \in Tx /\ call[w][i].tx # None
    BY Zenon, <1>0, <1>2, <1>5, LiveTx
  <2>2. r \in Ref /\ body[r].tx = call[w][i].tx /\ body[r].parent = ParentRef(w, i) /\ r \notin kept
    BY Zenon, <1>3 DEF Holds
  <2> QED
    BY Zenon, <2>1, <2>2
<1>7. r[1] \in Object
  BY Zenon, <1>6 DEF Ref
<1>8. TakenIds' = TakenIds /\ lastCommit' = lastCommit
  BY Zenon, <1>u DEF TakenIds, workerVars
<1>t. PICK t : t = body[r].tx
  BY Zenon
<1>o. PICK o : o = r[1]
  BY Zenon
<1>p. PICK p : p = ParentTx(r)
  BY Zenon
<1>9. DurableEntries' = DurableEntries \cup {[tx |-> t, obj |-> o, parent |-> p]}
  <2>1. ParentTx(r)' = ParentTx(r) /\ \A s : ParentTx(s)' = ParentTx(s)
    BY Zenon, <1>u DEF ParentTx
  <2>2. DurableEntries' = {[tx |-> body[s].tx, obj |-> s[1], parent |-> ParentTx(s)] : s \in durable \cup {r}}
    BY Zenon, <1>1, <1>u, <2>1 DEF DurableEntries, ParentTx
  <2> QED
    BY <2>2, <1>t, <1>o, <1>p DEF DurableEntries
<1>10. CASE r \in durable
  <2>1. durable' = durable
    BY <1>1, <1>10
  <2>2. DurableEntries' = DurableEntries
    BY Zenon, <2>1, <1>u DEF DurableEntries, ParentTx
  <2> QED
    BY Zenon, <2>2, <1>8
<1>11. CASE r \notin durable
  <2>1. ~Log!Logged(t)
    <3>1. ASSUME NEW s \in durable, body[s].tx = t PROVE FALSE
      <4>1. s \in Ref
        BY Zenon, <1>0 DEF TypeOK
      <4>2. s = r
        BY Zenon, <4>1, <3>1, <1>6, <1>t, OneSlot
      <4> QED
        BY Zenon, <4>2, <1>11
    <3> QED
      BY Zenon, <3>1, LoggedIs
  <2>2. ASSUME p # None
        PROVE  Log!Logged(p) /\ ~Log!Stamped(p) /\ p \in Tx
    <3>p. PICK q : q = body[r].parent
      BY Zenon
    <3>1. q # None /\ p = body[q].tx
      BY Zenon, <2>2, <1>p, <3>p DEF ParentTx
    <3>2. i # 0
      BY Zenon, <3>1, <3>p, <1>6 DEF ParentRef
    <3>3. i - 1 \in Level /\ i - 1 < Published(w) /\ i - 1 < depth[w] /\ (i - 1) + 1 = i /\ i > 0
      BY <3>2, <1>2, <1>3, <1>4 DEF Level, Published
    <3>4. Live(w, i - 1) /\ LevelInv(w, i - 1) /\ tag[w][i - 1] = "zero" /\ i - 1 # depth[w]
      <4>1. i - 1 # depth[w]
        BY <3>3, <1>4, <1>2 DEF Level
      <4> QED
        BY Zenon, <3>3, <4>1, <1>0, <1>3 DEF Live, WorkerInv
    <3>5. q = LevelRef(w, i - 1)
      BY Zenon, <3>2, <3>3, <3>p, <1>6 DEF ParentRef, LevelRef
    <3>6. Holds(w, i - 1, q) /\ q \in durable /\ commit[q] = 0
      BY Zenon, <3>3, <3>4, <3>5 DEF LevelInv
    <3>7. q \in Ref /\ body[q].tx = call[w][i - 1].tx /\ body[q].tx \in Tx /\ body[q].tx # None /\ body[q].tx[1] = w
      <4>1. call[w][i - 1].tx \in Tx /\ call[w][i - 1].tx # None /\ call[w][i - 1].tx[1] = w
        BY Zenon, <3>3, <3>4, <1>0, LiveTx
      <4>2. q \in Ref /\ body[q].tx = call[w][i - 1].tx
        BY Zenon, <3>6 DEF Holds
      <4> QED
        BY Zenon, <4>1, <4>2
    <3>8. ASSUME NEW s \in Ref, commit[s] # 0, body[s].tx = p PROVE FALSE
      BY Zenon, <3>1, <3>6, <3>7, <3>8, OneSlot
    <3>9. ASSUME NEW v \in Worker, wpc[v] = "store", body[wref[v]].tx = p PROVE FALSE
      <4>1. Committing(v)
        BY Zenon, <3>9 DEF Committing
      <4>2. wref[v] \in Ref /\ body[wref[v]].tx[1] = v
        BY Zenon, <4>1, CommittingFacts
      <4>3. v = w
        BY Zenon, <4>2, <3>9, <3>1, <3>7
      <4>4. wref[w] = q
        BY Zenon, <4>2, <4>3, <3>9, <3>1, <3>7, OneSlot
      <4>5. q # wref[w]
        BY Zenon, <4>1, <4>3, <3>3, <3>4, <3>6, CommittingAlone
      <4> QED
        BY Zenon, <4>4, <4>5
    <3>10. ~Log!Stamped(p)
      BY Zenon, <3>8, <3>9, StampedIs
    <3>11. Log!Logged(p)
      BY Zenon, <3>1, <3>6, LoggedIs
    <3> QED
      BY Zenon, <3>1, <3>7, <3>10, <3>11
  <2>3. Log!Log(t, o, p)
    BY Zenon, <2>1, <2>2, <1>8, <1>9 DEF Log!Log
  <2>4. t \in Tx /\ o \in Object /\ p \in Tx \cup {None}
    BY Zenon, <2>2, <1>6, <1>7, <1>t, <1>o
  <2> QED
    BY Zenon, <2>3, <2>4 DEF Log!Next
<1> QED
  BY Zenon, <1>10, <1>11

(* The fetch and add on last_commit commits the transaction, after those   *)
(* nested in it, with the next id of its object.                           *)
LEMMA TakeCommits ==
  ASSUME IInv, DurableInv, NEW w \in Worker, TakeCommitId(w)
  PROVE  Log!Next
<1>0. TypeOK
  BY Zenon DEF IInv
<1>r. PICK r : r = wref[w]
  BY Zenon
<1>o. PICK o : o = r[1]
  BY Zenon
<1>t. PICK t : t = body[r].tx
  BY Zenon
<1>e. PICK e : e = [tx |-> body[r].tx, obj |-> r[1], parent |-> ParentTx(r)]
  BY Zenon
<1>1. /\ wpc[w] = "cid" /\ wpc' = [wpc EXCEPT ![w] = "store"]
      /\ wcid' = [wcid EXCEPT ![w] = lastCommit[o] + 1]
      /\ lastCommit' = [lastCommit EXCEPT ![o] = @ + 1]
      /\ UNCHANGED <<wref, body, commit, durable>>
  BY Zenon, <1>r, <1>o DEF TakeCommitId
<1>2. Committing(w) /\ CommitInv(w)
  BY Zenon, <1>1 DEF Committing, IInv, WorkerInv
<1>3. r \in Ref /\ t # None /\ t[1] = w /\ r \in durable
  BY Zenon, <1>2, <1>r, <1>t, CommittingFacts
<1>4. commit[r] = 0
  BY Zenon, <1>1, <1>2, <1>r DEF CommitInv
<1>5. e \in DurableEntries
  BY Zenon, <1>3, <1>e DEF DurableEntries
<1>6. e.tx = t /\ e.obj = o
  BY <1>e, <1>t, <1>o
<1>7. ~Log!Stamped(t)
  <2>1. ASSUME NEW s \in Ref, commit[s] # 0, body[s].tx = t PROVE FALSE
    BY Zenon, <2>1, <1>3, <1>4, <1>t, OneSlot
  <2>2. ASSUME NEW v \in Worker, wpc[v] = "store", body[wref[v]].tx = t PROVE FALSE
    <3>1. Committing(v)
      BY Zenon, <2>2 DEF Committing
    <3>2. body[wref[v]].tx[1] = v
      BY Zenon, <3>1, CommittingFacts
    <3>3. v = w
      BY Zenon, <3>2, <2>2, <1>3
    <3> QED
      BY Zenon, <3>3, <2>2, <1>1
  <2> QED
    BY Zenon, <2>1, <2>2, StampedIs
<1>8. ASSUME NEW c \in DurableEntries, c.parent = t PROVE Log!Stamped(c.tx)
  <2>1. PICK s \in durable : c = [tx |-> body[s].tx, obj |-> s[1], parent |-> ParentTx(s)]
    BY Zenon DEF DurableEntries
  <2>2. c.tx = body[s].tx /\ ParentTx(s) = t
    BY <2>1, <1>8
  <2>3. s \in Ref
    BY Zenon, <1>0 DEF TypeOK
  <2>4. body[s].parent # None /\ body[body[s].parent].tx = t
    BY Zenon, <2>2, <1>3 DEF ParentTx
  <2>5. body[s].parent \in Ref
    BY Zenon, <2>3, <2>4, ParentFacts DEF SlotInv
  <2>6. body[s].parent = wref[w]
    BY Zenon, <2>4, <2>5, <1>3, <1>t, <1>r, OneSlot
  <2>7. s \in kept /\ SlotInv(s)
    BY Zenon, <2>3, <2>6, <1>2, NestedKept DEF IInv
  <2>8. commit[s] # 0
    BY Zenon, <2>7 DEF SlotInv
  <2> QED
    BY Zenon, <2>2, <2>3, <2>8, StampedIs
<1>9. DurableEntries' = DurableEntries
  BY Zenon, <1>1 DEF DurableEntries, ParentTx
<1>10. TakenIds' = TakenIds \cup {[tx |-> t, id |-> lastCommit[o] + 1]}
  <2>1. PICK A : A = {[tx |-> body[s].tx, id |-> commit[s]] : s \in {x \in Ref : commit[x] # 0}}
    BY Zenon
  <2>2. A = {[tx |-> body'[s].tx, id |-> commit'[s]] : s \in {x \in Ref : commit'[x] # 0}}
    BY Zenon, <2>1, <1>1
  <2>3. PICK W : W = {v \in Worker : wpc[v] = "store"}
    BY Zenon
  <2>4. {v \in Worker : wpc'[v] = "store"} = W \cup {w} /\ w \notin W
    BY <2>3, <1>0, <1>1 DEF TypeOK
  <2>5. wcid'[w] = lastCommit[o] + 1 /\ \A v \in W : wcid'[v] = wcid[v]
    BY <2>3, <1>0, <1>1 DEF TypeOK
  <2>6. {[tx |-> body'[wref'[v]].tx, id |-> wcid'[v]] : v \in W \cup {w}}
          = {[tx |-> body[wref[v]].tx, id |-> wcid[v]] : v \in W} \cup {[tx |-> t, id |-> lastCommit[o] + 1]}
    BY <2>5, <1>1, <1>t, <1>r
  <2>7. TakenIds' = A \cup {[tx |-> body'[wref'[v]].tx, id |-> wcid'[v]] : v \in W \cup {w}}
    BY Zenon, <2>2, <2>4 DEF TakenIds
  <2>8. TakenIds = A \cup {[tx |-> body[wref[v]].tx, id |-> wcid[v]] : v \in W}
    BY Zenon, <2>1, <2>3 DEF TakenIds
  <2> QED
    BY <2>6, <2>7, <2>8
<1>11. Log!Commit(e)
  BY Zenon, <1>1, <1>6, <1>7, <1>8, <1>9, <1>10 DEF Log!Commit
<1> QED
  BY Zenon, <1>5, <1>11 DEF Log!Next

(* The logger writes a blank slot: no durable entry changes, and none that *)
(* has a commit id.                                                        *)
LEMMA AppendStutters ==
  ASSUME IInv, DurableInv, NEW w \in Worker, AppendEntry(w)
  PROVE  UNCHANGED <<DurableEntries, TakenIds, lastCommit>> /\ DurableInv'
<1>0. TypeOK
  BY Zenon DEF IInv
<1>u. UNCHANGED <<wpc, wref, wcid, commit, durable, lastCommit>>
  BY Zenon DEF AppendEntry, workerVars
<1>1. PICK r, e : /\ body' = [body EXCEPT ![r] = e]
                  /\ r = <<call[w][active[w]].obj, tail[call[w][active[w]].obj]>>
  BY Zenon DEF AppendEntry
<1>2. \A x \in Ref : x # r => body'[x] = body[x]
  BY Zenon, <1>0, <1>1 DEF TypeOK
<1>3. r \in Ref => body[r] = Blank
  <2> SUFFICES ASSUME r \in Ref PROVE body[r] = Blank
    BY Zenon
  <2>1. SlotInv(r)
    BY Zenon DEF IInv
  <2>2. r[2] >= tail[r[1]]
    BY <1>1 DEF Ref, Slot
  <2> QED
    BY Zenon, <2>1, <2>2 DEF SlotInv
<1>4. \A x \in Ref : body[x].tx # None => body'[x] = body[x]
  BY Zenon, <1>2, <1>3, BlankTx
<1>5. \A x \in durable : x \in Ref /\ body'[x] = body[x]
  BY Zenon, <1>0, <1>4 DEF DurableInv, TypeOK
<1>6. \A x \in durable : ParentTx(x)' = ParentTx(x)
  <2> SUFFICES ASSUME NEW x \in durable, body[x].parent # None
               PROVE  body'[body[x].parent].tx = body[body[x].parent].tx
    BY Zenon, <1>5 DEF ParentTx
  <2>1. SlotInv(x) /\ x[2] < tail[x[1]]
    BY Zenon, <1>5, ParentFacts
  <2>2. body[x].parent \in Ref /\ body[body[x].parent].tx # None
    BY Zenon, <2>1 DEF SlotInv
  <2> QED
    BY Zenon, <2>2, <1>4
<1>7. DurableEntries' = DurableEntries
  BY <1>5, <1>6, <1>u DEF DurableEntries
<1>8. \A x \in Ref : commit[x] # 0 => body'[x] = body[x]
  <2> SUFFICES ASSUME NEW x \in Ref, commit[x] # 0 PROVE body'[x] = body[x]
    BY Zenon
  <2>1. x \in durable
    BY Zenon DEF IInv, SlotInv
  <2> QED
    BY Zenon, <2>1, <1>5
<1>9. \A v \in Worker : wpc[v] = "store" => body'[wref[v]] = body[wref[v]]
  <2> SUFFICES ASSUME NEW v \in Worker, wpc[v] = "store" PROVE body'[wref[v]] = body[wref[v]]
    BY Zenon
  <2>1. wref[v] \in durable
    BY Zenon, CommittingFacts DEF Committing
  <2> QED
    BY Zenon, <2>1, <1>5
<1>10. TakenIds' = TakenIds
  <2>1. {[tx |-> body'[s].tx, id |-> commit'[s]] : s \in {x \in Ref : commit'[x] # 0}}
          = {[tx |-> body[s].tx, id |-> commit[s]] : s \in {x \in Ref : commit[x] # 0}}
    BY <1>8, <1>u
  <2>2. {[tx |-> body'[wref'[v]].tx, id |-> wcid'[v]] : v \in {x \in Worker : wpc'[x] = "store"}}
          = {[tx |-> body[wref[v]].tx, id |-> wcid[v]] : v \in {x \in Worker : wpc[x] = "store"}}
    BY <1>9, <1>u
  <2> QED
    BY Zenon, <2>1, <2>2 DEF TakenIds
<1>11. DurableInv'
  BY Zenon, <1>5, <1>u DEF DurableInv
<1> QED
  BY Zenon, <1>7, <1>10, <1>11, <1>u

(* The worker stores the id it has taken.                                  *)
LEMMA StoreStutters ==
  ASSUME IInv, NEW w \in Worker, StoreCommitId(w)
  PROVE  UNCHANGED <<DurableEntries, TakenIds, lastCommit>>
<1>0. TypeOK
  BY Zenon DEF IInv
<1>r. PICK r : r = wref[w]
  BY Zenon
<1>m. PICK m : m = wcid[w]
  BY Zenon
<1>1. /\ wpc[w] = "store" /\ wpc' = [wpc EXCEPT ![w] = "persist"]
      /\ commit' = [commit EXCEPT ![r] = m]
      /\ UNCHANGED <<wref, wcid, body, durable, lastCommit>>
  BY Zenon, <1>r, <1>m DEF StoreCommitId
<1>2. Committing(w) /\ CommitInv(w)
  BY Zenon, <1>1 DEF Committing, IInv, WorkerInv
<1>3. r \in Ref
  BY Zenon, <1>2, <1>r, CommittingFacts
<1>4. commit[r] = 0 /\ m # 0
  <2>1. commit[r] = 0 /\ m \in 1 .. lastCommit[r[1]]
    BY Zenon, <1>1, <1>2, <1>r, <1>m DEF CommitInv
  <2>2. lastCommit[r[1]] \in Nat
    BY Zenon, <1>0, <1>3 DEF TypeOK, Ref
  <2> QED
    BY <2>1, <2>2
<1>5. DurableEntries' = DurableEntries
  BY Zenon, <1>1 DEF DurableEntries, ParentTx
<1>6. PICK C : C = {x \in Ref : commit[x] # 0}
  BY Zenon
<1>7. {x \in Ref : commit'[x] # 0} = C \cup {r} /\ commit'[r] = m /\ \A x \in C : commit'[x] = commit[x]
  BY <1>0, <1>1, <1>3, <1>4, <1>6 DEF TypeOK
<1>8. PICK W : W = {v \in Worker : wpc'[v] = "store"}
  BY Zenon
<1>9. {v \in Worker : wpc[v] = "store"} = W \cup {w}
  BY <1>0, <1>1, <1>8 DEF TypeOK
<1>10. TakenIds = {[tx |-> body[s].tx, id |-> commit[s]] : s \in C}
                    \cup {[tx |-> body[wref[v]].tx, id |-> wcid[v]] : v \in W \cup {w}}
  BY Zenon, <1>6, <1>9 DEF TakenIds
<1>11. TakenIds' = {[tx |-> body[s].tx, id |-> commit'[s]] : s \in C \cup {r}}
                    \cup {[tx |-> body[wref[v]].tx, id |-> wcid[v]] : v \in W}
  BY Zenon, <1>1, <1>7, <1>8 DEF TakenIds
<1>12. {[tx |-> body[s].tx, id |-> commit'[s]] : s \in C \cup {r}}
         = {[tx |-> body[s].tx, id |-> commit[s]] : s \in C} \cup {[tx |-> body[r].tx, id |-> m]}
  BY <1>7
<1>13. {[tx |-> body[wref[v]].tx, id |-> wcid[v]] : v \in W \cup {w}}
         = {[tx |-> body[wref[v]].tx, id |-> wcid[v]] : v \in W} \cup {[tx |-> body[r].tx, id |-> m]}
  BY <1>r, <1>m
<1>14. TakenIds' = TakenIds
  BY Zenon, <1>10, <1>11, <1>12, <1>13
<1> QED
  BY Zenon, <1>1, <1>5, <1>14

-----------------------------------------------------------------------------
(* The steps between those two, of Savitar_thread_notify, of the spin of   *)
(* Savitar_thread_wait and of the logger's search, are not visible.        *)
LEMMA QuietKeepsIds ==
  ASSUME TypeOK, NEW w \in Worker,
         \/ \E o \in Object : Notify(w, o)
         \/ ClearOffset(w) \/ Gate(w) \/ Unblock(w) \/ Resume(w) \/ SetTag(w)
         \/ WaitLogged(w) \/ PersistCommitId(w) \/ Exit(w)
  PROVE  /\ UNCHANGED <<body, commit, durable, lastCommit>>
         /\ \A v \in Worker : KeepsId(v)
<1>1. UNCHANGED <<body, commit, durable, lastCommit>>
  BY Zenon DEF Notify, ClearOffset, Gate, Unblock, Resume, SetTag, WaitLogged, PersistCommitId,
     Exit, logVars
<1>2. wcid' = wcid
  BY Zenon DEF Notify, ClearOffset, Gate, Unblock, Resume, SetTag, WaitLogged, PersistCommitId, Exit
<1>3. wpc[w] # "store" /\ \E pc : pc # "store" /\ wpc' = [wpc EXCEPT ![w] = pc]
  BY DEF Notify, ClearOffset, Gate, Unblock, Resume, SetTag, WaitLogged, PersistCommitId, Exit
<1>4. \E r : wref' = wref \/ wref' = [wref EXCEPT ![w] = r]
  BY Zenon DEF Notify, ClearOffset, Gate, Unblock, Resume, SetTag, WaitLogged, PersistCommitId, Exit
<1>5. \A v \in Worker : v # w => wpc'[v] = wpc[v] /\ wref'[v] = wref[v]
  BY Zenon, <1>3, <1>4 DEF TypeOK
<1>6. wpc'[w] # "store"
  BY Zenon, <1>3 DEF TypeOK
<1> QED
  BY Zenon, <1>1, <1>2, <1>3, <1>5, <1>6 DEF KeepsId

(* Every step of Persister is a step of the abstract log or a stutter.     *)
LEMMA NextImplements ==
  IInv /\ DurableInv /\ [Next]_vars =>
      /\ DurableInv'
      /\ [Log!Next]_<<DurableEntries, TakenIds, lastCommit>>
<1> SUFFICES ASSUME IInv, DurableInv, [Next]_vars
             PROVE  DurableInv' /\ (Log!Next \/ UNCHANGED <<DurableEntries, TakenIds, lastCommit>>)
  BY Zenon
<1>0. TypeOK
  BY Zenon DEF IInv
<1>1. ASSUME UNCHANGED <<body, durable>> PROVE DurableInv'
  BY Zenon, <1>1 DEF DurableInv
<1>2. ASSUME UNCHANGED <<body, commit, durable, lastCommit>>, \A v \in Worker : KeepsId(v)
      PROVE  DurableInv' /\ UNCHANGED <<DurableEntries, TakenIds, lastCommit>>
  BY Zenon, <1>1, <1>2, LogStutter
<1>3. ASSUME NEW w \in Worker, WorkerStep(w)
      PROVE  DurableInv' /\ (Log!Next \/ UNCHANGED <<DurableEntries, TakenIds, lastCommit>>)
  <2>1. CASE TakeCommitId(w)
    <3>1. UNCHANGED <<body, durable>>
      BY Zenon, <2>1 DEF TakeCommitId
    <3> QED
      BY Zenon, <2>1, <3>1, <1>1, TakeCommits
  <2>2. CASE StoreCommitId(w)
    <3>1. UNCHANGED <<body, durable>>
      BY Zenon, <2>2 DEF StoreCommitId
    <3> QED
      BY Zenon, <2>2, <3>1, <1>1, StoreStutters
  <2>3. CASE \/ \E o \in Object : Notify(w, o)
             \/ ClearOffset(w) \/ Gate(w) \/ Unblock(w) \/ Resume(w) \/ SetTag(w)
             \/ WaitLogged(w) \/ PersistCommitId(w) \/ Exit(w)
    BY Zenon, <2>3, <1>0, <1>2, QuietKeepsIds
  <2> QED
    BY Zenon, <1>3, <2>1, <2>2, <2>3 DEF WorkerStep
<1>4. ASSUME NEW w \in Worker, LoggerStep(w)
      PROVE  DurableInv' /\ (Log!Next \/ UNCHANGED <<DurableEntries, TakenIds, lastCommit>>)
  <2>1. CASE AppendEntry(w)
    BY Zenon, <2>1, AppendStutters
  <2>2. CASE DrainEntry(w)
    <3>1. body' = body
      BY Zenon, <2>2 DEF DrainEntry
    <3>2. PICK r : r = <<call[w][active[w]].obj, loff[w]>>
      BY Zenon
    <3>3. durable' = durable \cup {r} /\ Appending(w) /\ LoggerInv(w) /\ WorkerInv(w)
      BY Zenon, <2>2, <3>2 DEF DrainEntry, Appending, IInv, WorkerInv
    <3>4. active[w] \in Level /\ depth[w] \in 0 .. MaxNest
      BY Zenon, <1>0, <3>3, AppendingLevel, WorkerTypes
    <3>5. active[w] < Published(w) /\ Holds(w, active[w], r)
      BY Zenon, <3>2, <3>3 DEF LoggerInv
    <3>6. Live(w, active[w])
      BY <3>4, <3>5 DEF Live, Published, Level
    <3>7. call[w][active[w]].tx # None
      BY Zenon, <1>0, <3>3, <3>4, <3>6, LiveTx
    <3>8. body[r].tx # None
      BY Zenon, <3>5, <3>7 DEF Holds
    <3>9. DurableInv'
      BY <3>1, <3>3, <3>8 DEF DurableInv
    <3> QED
      BY Zenon, <2>2, <3>9, DrainLogs
  <2>3. CASE \/ Poll(w) \/ ReadDepth(w) \/ StepDown(w) \/ StepUp(w) \/ Terminate(w)
             \/ ServeParentFirst(w) \/ PublishOffset(w) \/ Acknowledge(w)
    <3>1. UNCHANGED workerVars /\ UNCHANGED logVars
      BY Zenon, <2>3 DEF Poll, ReadDepth, StepDown, StepUp, Terminate, ServeParentFirst,
         PublishOffset, Acknowledge
    <3> QED
      BY Zenon, <3>1, <1>2 DEF KeepsId, workerVars, logVars
  <2> QED
    BY Zenon, <1>4, <2>1, <2>2, <2>3 DEF LoggerStep
<1>5. ASSUME NEW o \in Object, SetSnapshotLock(o) \/ ClearSnapshotLock(o)
      PROVE  UNCHANGED workerVars /\ UNCHANGED logVars
  BY Zenon, <1>5 DEF SetSnapshotLock, ClearSnapshotLock
<1>6. Finished \/ UNCHANGED vars => UNCHANGED workerVars /\ UNCHANGED logVars
  BY Zenon DEF Finished, vars
<1>7. ASSUME UNCHANGED workerVars, UNCHANGED logVars
      PROVE  DurableInv' /\ UNCHANGED <<DurableEntries, TakenIds, lastCommit>>
  BY Zenon, <1>2, <1>7 DEF KeepsId, workerVars, logVars
<1> QED
  BY Zenon, <1>3, <1>4, <1>5, <1>6, <1>7 DEF Next

(* The initial state of the pair of threads is that of the abstract log.   *)
LEMMA InitImplements == Init => DurableInv /\ Log!Init
<1> SUFFICES ASSUME Init PROVE DurableInv /\ Log!Init
  BY Zenon
<1>1. durable = {} /\ lastCommit = [o \in Object |-> 0]
  BY Zenon DEF Init
<1>2. {r \in Ref : commit[r] # 0} = {} /\ {v \in Worker : wpc[v] = "store"} = {}
  BY DEF Init
<1>3. DurableEntries = {}
  BY <1>1 DEF DurableEntries
<1>4. TakenIds = {}
  BY <1>2 DEF TakenIds
<1> QED
  BY Zenon, <1>1, <1>3, <1>4 DEF DurableInv, Log!Init

(* Worker and logger, through the shared buffers, implement the abstract   *)
(* semantic log: every transaction is logged atomically and once, after    *)
(* the one it is nested in, and commits atomically, after those nested in  *)
(* it, with the next id of its object.                                     *)
THEOREM Implements == Spec => ImplementsSemanticLog
BY InitImplements, NextImplements, Invariance, PTL DEF Spec, ImplementsSemanticLog, Log!Spec
=============================================================================
