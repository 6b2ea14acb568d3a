---------------------------- MODULE NestedReplay ----------------------------
(***************************************************************************)
(* Recovery of objects whose methods call each other: the entries that     *)
(* Persister leaves in the logs, the check of the logs after an unclean    *)
(* shutdown (nvm_manager.cpp), and one recovery thread per object          *)
(* (PersistentObject::Recover) whose replay of an outermost transaction    *)
(* calls the nested ones through notify and wait.                          *)
(*                                                                         *)
(* A program is a script for each worker: the methods it calls, by object, *)
(* and Ret where a method returns; a method may call others before it      *)
(* returns. <<w, k>> is the transaction opened by step k of worker w.      *)
(***************************************************************************)
EXTENDS Integers, Sequences, FiniteSets, SequencesExt

CONSTANTS
    Object, Worker,
    Programs,     \* what the workers call: functions of Worker
    Ret

None == <<>>

VARIABLES
    script,       \* the program
    phase,        \* "run", "recover", or how the recovery has failed
    pos, stack,   \* workers: next step, open transactions
    parent,       \* the transaction each one was called from, as its entry says
    log,          \* committed entries of each object, in commit order
    rpc, at, sp,  \* recovery threads: step, step of the script, parent popped
    ctx,          \* parentObjects of RecoveryContext, by recovery thread
    wait,         \* wait_parent and wait_parent_commit_id
    played,       \* last_played_commit_id
    recovering,
    effects       \* transactions each object's methods were executed for

run == <<script, pos, stack, parent, log>>
replay == <<rpc, at, sp, ctx, wait, played, recovering, effects>>
vars == <<phase, run, replay>>

Op(tx) == script[tx[1]][tx[2]]
Tx == {tx \in UNION {{w} \X DOMAIN script[w] : w \in Worker} : Op(tx) # Ret}

Init ==
    /\ script \in Programs
    /\ phase = "run"
    /\ pos = [w \in Worker |-> 1] /\ stack = [w \in Worker |-> <<>>]
    /\ parent = [tx \in Tx |-> None]
    /\ log = [o \in Object |-> <<>>]
    /\ rpc = [o \in Object |-> "next"] /\ at = [o \in Object |-> None]
    /\ sp = [o \in Object |-> None] /\ ctx = [o \in Object |-> None]
    /\ wait = [o \in Object |-> [parent |-> None, id |-> 0]]
    /\ played = [o \in Object |-> 0]
    /\ recovering = [o \in Object |-> TRUE] /\ effects = [o \in Object |-> <<>>]

-----------------------------------------------------------------------------
(* The program, up to the commit of each transaction. The library takes no *)
(* lock from notify to commit, so methods of an object can overlap.        *)

Running(w) == phase = "run" /\ pos[w] <= Len(script[w])

Open(w) ==
    LET tx == <<w, pos[w]>>
    IN
    /\ Running(w) /\ Op(tx) # Ret
    /\ parent' = [parent EXCEPT ![tx] = IF stack[w] = <<>> THEN None ELSE Last(stack[w])]
    /\ stack' = [stack EXCEPT ![w] = Append(@, tx)]
    /\ pos' = [pos EXCEPT ![w] = @ + 1]
    /\ UNCHANGED <<script, phase, log, replay>>

Commit(w) ==
    LET tx == Last(stack[w])
        o == Op(tx)
    IN
    /\ Running(w) /\ Op(<<w, pos[w]>>) = Ret
    /\ log' = [log EXCEPT ![o] = Append(@, tx)]
    /\ stack' = [stack EXCEPT ![w] = Front(@)]
    /\ pos' = [pos EXCEPT ![w] = @ + 1]
    /\ UNCHANGED <<script, phase, parent, replay>>

(* Everything returned: the next start finds the clean flag.               *)
Shutdown ==
    /\ phase = "run" /\ \A w \in Worker : pos[w] > Len(script[w])
    /\ phase' = "recover"
    /\ UNCHANGED <<run, replay>>

Committed(tx) == \E i \in DOMAIN log[Op(tx)] : log[Op(tx)][i] = tx
CommitId(tx) == CHOOSE i \in DOMAIN log[Op(tx)] : log[Op(tx)][i] = tx

(* buildAbortChains: from a committed nested entry to its outermost one.   *)
RECURSIVE Outermost(_)
Outermost(tx) == IF parent[tx] = None THEN tx ELSE Outermost(parent[tx])

AbortChains ==
    {tx \in Tx : Committed(tx) /\ ~Committed(Outermost(tx))}

(* Killed, and found to be so: emulateRecoveryAndFixRedoLogs at the next   *)
(* start asserts that there are no abort chains. (Lifecycle has the kills  *)
(* that leave the clean flag set.)                                         *)
Kill ==
    /\ phase = "run"
    /\ phase' = IF AbortChains = {} THEN "recover" ELSE "aborted chains"
    /\ UNCHANGED <<run, replay>>

-----------------------------------------------------------------------------
(* The recovery thread of object o.                                        *)

Entry(o) == log[o][played[o] + 1]

(* The next entry in commit order: play it, or wait for its parent's, the  *)
(* first store of waitForParent.                                           *)
NextEntry(o) ==
    /\ phase = "recover" /\ rpc[o] = "next" /\ played[o] < Len(log[o])
    /\ IF parent[Entry(o)] = None
       THEN /\ at' = [at EXCEPT ![o] = Entry(o)]
            /\ rpc' = [rpc EXCEPT ![o] = "play"]
            /\ UNCHANGED wait
       ELSE /\ wait' = [wait EXCEPT ![o].parent = Op(parent[Entry(o)])]
            /\ rpc' = [rpc EXCEPT ![o] = "wait"]
            /\ UNCHANGED at
    /\ UNCHANGED <<phase, run, sp, ctx, played, recovering, effects>>

(* The commit id the parent's entry has: expected_commit_id.               *)
Expected(o) == CommitId(parent[Entry(o)])

(* The second store of waitForParent.                                      *)
StoreWaitId(o) ==
    /\ phase = "recover" /\ rpc[o] = "wait"
    /\ wait' = [wait EXCEPT ![o].id = Expected(o)]
    /\ rpc' = [rpc EXCEPT ![o] = "read"]
    /\ UNCHANGED <<phase, run, at, sp, ctx, played, recovering, effects>>

(* Savitar_thread_notify of a method the replay calls: with a recovering   *)
(* object it takes the calling object from the context. Otherwise it goes  *)
(* on as in a thread of the program, whose buffers this thread lacks.      *)
Notify(o) ==
    /\ phase = "recover" /\ rpc[o] = "play" /\ Op(at[o]) # Ret
    /\ IF recovering[Op(at[o])]
       THEN /\ sp' = [sp EXCEPT ![o] = ctx[o]] /\ ctx' = [ctx EXCEPT ![o] = None]
            /\ rpc' = [rpc EXCEPT ![o] = "spin"]
            /\ UNCHANGED phase
       ELSE phase' = "no buffers" /\ UNCHANGED <<sp, ctx, rpc>>
    /\ UNCHANGED <<run, at, wait, played, recovering, effects>>

(* The stalled method runs: notify returns.                                *)
Enter(o) ==
    LET c == Op(at[o])
    IN
    /\ ctx' = [ctx EXCEPT ![o] = <<c>>]
    /\ effects' = [effects EXCEPT ![c] = Append(@, at[o])]
    /\ at' = [at EXCEPT ![o][2] = @ + 1]
    /\ rpc' = [rpc EXCEPT ![o] = "play"]

(* Mutant: the nested call does not wait.                                  *)
SpinNever(o) ==
    /\ phase = "recover" /\ rpc[o] = "spin"
    /\ Enter(o)
    /\ UNCHANGED <<phase, run, sp, wait, played, recovering>>

(* A nested call stalls until the object called waits for this commit of   *)
(* the caller. isWaitingForParent reads which object it waits for ...      *)
Spin(o) ==
    /\ phase = "recover" /\ rpc[o] = "spin"
    /\ \/ sp[o] = None /\ Enter(o)
       \/ /\ sp[o] # None /\ wait[Op(at[o])].parent = sp[o][1]
          /\ rpc' = [rpc EXCEPT ![o] = "match"]
          /\ UNCHANGED <<at, ctx, effects>>
    /\ UNCHANGED <<phase, run, sp, wait, played, recovering>>

(* Mutant: the commit the caller has played, not the one it is playing.    *)
IdMatchesPlayed(c, p) == played[p] = wait[c].id

IdMatches(c, p) == played[p] + 1 = wait[c].id

(* ... and then for which commit.                                          *)
MatchId(o) ==
    /\ phase = "recover" /\ rpc[o] = "match"
    /\ IF IdMatches(Op(at[o]), sp[o][1])
       THEN Enter(o)
       ELSE rpc' = [rpc EXCEPT ![o] = "spin"] /\ UNCHANGED <<at, ctx, effects>>
    /\ UNCHANGED <<phase, run, sp, wait, played, recovering>>

(* How many calls of the entry are open after the step the thread is at.   *)
OpenCalls(o) ==
    LET steps == Entry(o)[2] .. at[o][2]
        calls == {k \in steps : Op(<<at[o][1], k>>) # Ret}
    IN 2 * Cardinality(calls) - Cardinality(steps)

(* Savitar_thread_wait pops the context; the entry's own return ends it.   *)
Return(o) ==
    /\ phase = "recover" /\ rpc[o] = "play" /\ Op(at[o]) = Ret
    /\ ctx' = [ctx EXCEPT ![o] = None]
    /\ IF OpenCalls(o) = 0
       THEN /\ played' = [played EXCEPT ![o] = @ + 1]
            /\ rpc' = [rpc EXCEPT ![o] = "next"]
            /\ at' = [at EXCEPT ![o] = None]
       ELSE at' = [at EXCEPT ![o][2] = @ + 1] /\ UNCHANGED <<played, rpc>>
    /\ UNCHANGED <<phase, run, sp, wait, recovering, effects>>

(* Mutant: goes on when the parent is one entry short.                     *)
ReadParentEarly(o) ==
    /\ phase = "recover" /\ rpc[o] = "read"
    /\ IF played[wait[o].parent] + 1 < Expected(o)
       THEN rpc' = [rpc EXCEPT ![o] = "assert"] /\ UNCHANGED played
       ELSE rpc' = [rpc EXCEPT ![o] = "next"] /\ played' = [played EXCEPT ![o] = @ + 1]
    /\ UNCHANGED <<phase, run, at, sp, ctx, wait, recovering, effects>>

(* A nested entry: until the parent has played its own, check again that   *)
(* the parent is recovering.                                               *)
ReadParent(o) ==
    /\ phase = "recover" /\ rpc[o] = "read"
    /\ IF played[wait[o].parent] < Expected(o)
       THEN rpc' = [rpc EXCEPT ![o] = "assert"] /\ UNCHANGED played
       ELSE rpc' = [rpc EXCEPT ![o] = "next"] /\ played' = [played EXCEPT ![o] = @ + 1]
    /\ UNCHANGED <<phase, run, at, sp, ctx, wait, recovering, effects>>

AssertRecovering(o) ==
    /\ phase = "recover" /\ rpc[o] = "assert"
    /\ IF recovering[wait[o].parent]
       THEN rpc' = [rpc EXCEPT ![o] = "read"] /\ UNCHANGED phase
       ELSE phase' = "not recovering" /\ UNCHANGED rpc
    /\ UNCHANGED <<run, at, sp, ctx, wait, played, recovering, effects>>

(* Mutant: the last entry before the tail is left out.                     *)
FinishEarly(o) ==
    /\ phase = "recover" /\ rpc[o] = "next" /\ played[o] >= Len(log[o]) - 1
    /\ recovering' = [recovering EXCEPT ![o] = FALSE]
    /\ rpc' = [rpc EXCEPT ![o] = "done"]
    /\ UNCHANGED <<phase, run, at, sp, ctx, wait, played, effects>>

(* recoveryWorker, after Recover.                                          *)
Finish(o) ==
    /\ phase = "recover" /\ rpc[o] = "next" /\ played[o] = Len(log[o])
    /\ recovering' = [recovering EXCEPT ![o] = FALSE]
    /\ rpc' = [rpc EXCEPT ![o] = "done"]
    /\ UNCHANGED <<phase, run, at, sp, ctx, wait, played, effects>>

AllDone == \A o \in Object : rpc[o] = "done"

Next ==
    \/ \E w \in Worker : Open(w)
    \/ \E w \in Worker : Commit(w)
    \/ Shutdown
    \/ Kill
    \/ \E o \in Object : NextEntry(o)
    \/ \E o \in Object : StoreWaitId(o)
    \/ \E o \in Object : Notify(o)
    \/ \E o \in Object : Spin(o)
    \/ \E o \in Object : MatchId(o)
    \/ \E o \in Object : Return(o)
    \/ \E o \in Object : ReadParent(o)
    \/ \E o \in Object : AssertRecovering(o)
    \/ \E o \in Object : Finish(o)

ThreadStep(o) ==
    \/ NextEntry(o) \/ StoreWaitId(o) \/ Notify(o) \/ Spin(o) \/ MatchId(o)
    \/ Return(o) \/ ReadParent(o) \/ AssertRecovering(o) \/ Finish(o)

Spec == Init /\ [][Next]_vars

(* Recovery threads run: they are threads of the operating system.         *)
FairSpec == Spec /\ \A o \in Object : WF_vars(ThreadStep(o))

-----------------------------------------------------------------------------
(* A nested call of a method that has made one before: the first left the  *)
(* context empty.                                                          *)
LaterCall(tx) ==
    /\ parent[tx] # None
    /\ \E t \in Tx : parent[t] = parent[tx] /\ t[2] < tx[2]

Nested(o) == {i \in DOMAIN log[o] : parent[log[o][i]] # None}
Caller(o, i) == parent[log[o][i]]

(* Two callers of an object, in different objects, have one commit id.     *)
IdsCollide(o) ==
    \E i, j \in Nested(o) :
        /\ Op(Caller(o, i)) # Op(Caller(o, j))
        /\ CommitId(Caller(o, i)) = CommitId(Caller(o, j))

(* Each object's methods are executed again in the order of its commits,   *)
(* nested calls included: Recover, "the child object will stall the calls  *)
(* until it's ready". Excepted are objects called after another call of    *)
(* the same method, which does not stall, and objects where the id of one  *)
(* caller, read after the name of another, lets a call through.            *)
ReplayedInCommitOrder ==
    \A o \in Object :
        \/ IsPrefix(effects[o], log[o])
        \/ \E tx \in ToSet(log[o]) : LaterCall(tx)
        \/ IdsCollide(o)

(* When recovery has ended, every committed transaction of every object    *)
(* has been executed again, once.                                          *)
RecoveryIsComplete ==
    AllDone => \A o \in Object :
        IsInjective(effects[o]) /\ ToSet(effects[o]) = ToSet(log[o])

(* The outermost transactions can be put in an order that the log of each  *)
(* object follows, and none of them comes to an object twice.              *)
Precedes(x, y) ==
    \E o \in Object : \E i, j \in DOMAIN log[o] :
        i < j /\ Outermost(log[o][i]) = x /\ Outermost(log[o][j]) = y

Serializable ==
    \A T \in SUBSET {tx \in Tx : parent[tx] = None} \ {{}} :
        \E y \in T : \A x \in T : ~Precedes(x, y)

(* No two threads are left waiting for each other: once started on logs    *)
(* that are serializable, recovery ends, if only with a failed assertion.  *)
(* "the synchronization between persistent objects works to ensure the     *)
(* right replay order".                                                    *)
RecoveryEnds == phase = "recover" /\ Serializable ~> AllDone \/ phase # "recover"

(* A nested call always finds its object in recovery, and                  *)
(* assert(parent->isRecovering()) fails only when it no longer matters:    *)
(* the parent of the entry has played its own and ended its recovery after *)
(* the object that waits for it has read how far it is.                    *)
StopsOnlyTooLate ==
    /\ phase # "no buffers"
    /\ \A o \in Object : rpc[o] = "assert" /\ ~recovering[wait[o].parent] =>
           played[wait[o].parent] >= Expected(o)

-----------------------------------------------------------------------------
(* Not true of the code. *)

(* The parent an object waits for is recovering: Recover,                  *)
(* assert(parent->isRecovering()).                                         *)
ParentIsRecovering == phase # "not recovering"

(* After a crash, nested transactions that committed without the outermost *)
(* one do not stop the recovery: Recover, "B must avoid waiting for A and  *)
(* should end the recovery process".                                       *)
PartialCommitsTolerated == phase # "aborted chains"
=============================================================================
