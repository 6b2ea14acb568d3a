---------------------------- MODULE PersisterInv ----------------------------
(***************************************************************************)
(* The inductive invariant of Persister: how the worker's place in notify, *)
(* wait and commit, the logger's place in its loop, the shared buffers and *)
(* the redo logs fit together.                                             *)
(***************************************************************************)
EXTENDS Persister

(* The top level is being set up by Savitar_thread_notify.                 *)
InNotify(w) == wpc[w] \in {"clear", "gate", "tag"}

(* The logger has reserved a slot and not yet acknowledged.                *)
Appending(w) == lpc[w] \in {"drain", "publish", "ack"}

(* Levels handed to the logger: method_tag has been set.                   *)
Published(w) == IF InNotify(w) THEN depth[w] - 1 ELSE depth[w]

(* The level whose call is not yet handed to the logger.                   *)
Opening(w, i) ==
    \/ InNotify(w) /\ i = depth[w] - 1
    \/ SteppedBack(w) /\ i = 0

(* The slot tx_buffer gives for level i.                                   *)
LevelRef(w, i) == <<call[w][i].obj, txo[w][i + 1]>>

Unlogged(t) == \A r \in Ref : body[r].tx # t

(* An entry holding the call of level i, waiting for its commit id.        *)
Holds(w, i, r) ==
    /\ r \in Ref
    /\ body[r].tx = call[w][i].tx
    /\ body[r].parent = ParentRef(w, i)
    /\ r \notin kept

(* The worker's program counter and the depth.                             *)
DepthInv(w) ==
    /\ InNotify(w) => depth[w] > 0
    /\ SteppedBack(w) => depth[w] = 0
    /\ wpc[w] = "done" => depth[w] = 0
    /\ Committing(w) => depth[w] < MaxNest

(* Tags: zero above the published levels, TERM only at the end.            *)
TagInv(w, i) ==
    /\ i >= Published(w) =>
          tag[w][i] = IF wpc[w] = "done" /\ i = 0 THEN "term" ELSE "zero"
    /\ i < Published(w) => tag[w][i] \in {"zero", "call"}

(* Live levels hold transactions of this worker, later ones higher up.     *)
CallInv(w, i) ==
    Live(w, i) =>
        /\ call[w][i].obj \in Object
        /\ \E n \in 1 .. ntx[w] : call[w][i].tx = <<w, n>>
        /\ \A j \in Level : j < i => call[w][j].tx[2] < call[w][i].tx[2]

(* An acknowledged level has its durable entry and so have the levels      *)
(* below it; one not acknowledged has no offset and, unless the logger is  *)
(* at it, no entry.                                                        *)
LevelInv(w, i) ==
    /\ i < Published(w) /\ tag[w][i] = "zero" =>
          /\ Holds(w, i, LevelRef(w, i))
          /\ LevelRef(w, i) \in durable
          /\ commit[LevelRef(w, i)] = 0
          /\ i > 0 => tag[w][i - 1] = "zero"
    /\ i < Published(w) /\ tag[w][i] = "call" /\ ~(Appending(w) /\ i = active[w]) =>
          txo[w][i + 1] = 0 /\ Unlogged(call[w][i].tx)
    /\ Opening(w, i) =>
          /\ Unlogged(call[w][i].tx)
          /\ wpc[w] # "clear" => txo[w][i + 1] = 0

(* The commit in progress.                                                 *)
CommitInv(w) ==
    Committing(w) =>
        /\ Holds(w, depth[w], wref[w])
        /\ wref[w] \in durable
        /\ depth[w] > 0 => tag[w][depth[w] - 1] = "zero"
        /\ commit[wref[w]] = IF wpc[w] = "persist" THEN wcid[w] ELSE 0
        /\ wpc[w] # "cid" => wcid[w] \in 1 .. lastCommit[wref[w][1]]

(* The logger: it serves a level whose tag is set, after the parent's, and *)
(* ends when the worker has.                                               *)
LoggerInv(w) ==
    /\ lpc[w] = "serve" => active[w] \in Level /\ tag[w][active[w]] # "zero"
    /\ lpc[w] = "freed" => wpc[w] = "done"
    /\ Appending(w) =>
          LET i == active[w]
              r == <<call[w][i].obj, loff[w]>>
          IN
          /\ i < Published(w)
          /\ tag[w][i] = "call"
          /\ Holds(w, i, r)
          /\ commit[r] = 0
          /\ lpc[w] # "drain" => r \in durable
          /\ txo[w][i + 1] = IF lpc[w] = "ack" THEN loff[w] ELSE 0
          /\ i > 0 => tag[w][i - 1] = "zero"

(* Slots: blank from the tail on, and below it the entries of transactions *)
(* begun; an entry whose commit id is not persistent belongs to an open    *)
(* transaction.                                                            *)
SlotInv(r) ==
    LET e == body[r] IN
    /\ r[2] >= tail[r[1]] => e = Blank /\ commit[r] = 0
    /\ commit[r] # 0 => r \in durable
    /\ r \in kept => commit[r] # 0
    /\ r[2] < tail[r[1]] =>
          /\ \E w \in Worker : \E n \in 1 .. ntx[w] :
                /\ e.tx = <<w, n>>
                /\ r \notin kept => \E i \in Level : Live(w, i) /\ call[w][i].tx = e.tx
          /\ e.parent # None =>
                /\ e.parent \in Ref
                /\ e.parent \in durable
                /\ body[e.parent].tx # None
                /\ body[e.parent].tx[1] = e.tx[1]
                /\ body[e.parent].tx[2] < e.tx[2]
                /\ r \notin kept => commit[e.parent] = 0

WorkerInv(w) ==
    /\ DepthInv(w)
    /\ \A i \in Level : TagInv(w, i) /\ CallInv(w, i) /\ LevelInv(w, i)
    /\ CommitInv(w)
    /\ LoggerInv(w)

(* The inductive invariant.                                                *)
IInv ==
    /\ TypeOK
    /\ \A w \in Worker : WorkerInv(w)
    /\ \A r \in Ref : SlotInv(r)
    /\ LoggedExactlyOnce
    /\ CommitIdsContiguous

(* How far active_tx_id can be from the levels in use. It overshoots only  *)
(* when the depth falls between the logger's reads of it, and each fall    *)
(* lets it climb by one: once past a worker that has just closed its       *)
(* outermost transaction, and once more past one that stepped back.        *)
IndexInv(w) ==
    /\ active[w] <= MaxNest + 1
    /\ depth[w] > 0 /\ ~(InNotify(w) /\ depth[w] = 1) /\ tag[w][0] = "zero" =>
          active[w] <= MaxNest - 1
    /\ depth[w] = 0 /\ ~SteppedBack(w) =>
          \/ active[w] <= MaxNest - 1
          \/ active[w] <= MaxNest /\ lpc[w] \in {"poll", "depth", "wild"}
    /\ wpc[w] \in {"clear", "gate"} /\ depth[w] = 1 =>
          active[w] <= MaxNest /\ (lpc[w] = "up" => active[w] <= MaxNest - 1)
    /\ SteppedBack(w) => active[w] <= MaxNest \/ lpc[w] \in {"poll", "depth", "wild"}

AllIndexInv == \A w \in Worker : IndexInv(w)
=============================================================================
