---------------------------- MODULE PersisterLog ----------------------------
(***************************************************************************)
(* Persister implements SemanticLog. A transaction is logged when its      *)
(* entry is durable, and committed when its worker takes the commit id     *)
(* from last_commit; the id is then in the worker's register or stored.    *)
(***************************************************************************)
EXTENDS PersisterInv

ParentTx(r) == IF body[r].parent = None THEN None ELSE body[body[r].parent].tx

DurableEntries ==
    {[tx |-> body[r].tx, obj |-> r[1], parent |-> ParentTx(r)] : r \in durable}

TakenIds ==
    {[tx |-> body[r].tx, id |-> commit[r]] : r \in {x \in Ref : commit[x] # 0}}
    \cup {[tx |-> body[wref[w]].tx, id |-> wcid[w]] : w \in {v \in Worker : wpc[v] = "store"}}

Log == INSTANCE SemanticLog WITH logged <- DurableEntries, stamped <- TakenIds,
                                 last <- lastCommit

(* Worker and logger together, through the shared buffers, do what         *)
(* SemanticLog says: Savitar_thread_notify, Savitar_persister_worker,      *)
(* Savitar_thread_wait and Savitar_log_commit log every transaction        *)
(* atomically, after its parent, and commit it atomically, after its       *)
(* children, with the next id of its object.                               *)
ImplementsSemanticLog == Log!Spec
=============================================================================
