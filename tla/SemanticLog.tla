----------------------------- MODULE SemanticLog -----------------------------
(***************************************************************************)
(* What the logging protocol promises, without threads, buffers or slots.  *)
(* A transaction is logged in one step, after the transaction it is nested *)
(* in, and committed in one step, after all the transactions nested in it; *)
(* the commit ids of an object number its committed transactions.          *)
(***************************************************************************)
EXTENDS Naturals

CONSTANTS Object, Tx, None

VARIABLES
    logged,    \* log entries: transaction, object, enclosing transaction
    stamped,   \* commit ids given: transaction and id
    last       \* the last commit id of each object

Logged(t) == \E e \in logged : e.tx = t
Stamped(t) == \E s \in stamped : s.tx = t

Init ==
    /\ logged = {}
    /\ stamped = {}
    /\ last = [o \in Object |-> 0]

Log(t, o, p) ==
    /\ ~Logged(t)
    /\ p # None => Logged(p) /\ ~Stamped(p)
    /\ logged' = logged \cup {[tx |-> t, obj |-> o, parent |-> p]}
    /\ UNCHANGED <<stamped, last>>

Commit(e) ==
    /\ ~Stamped(e.tx)
    /\ \A c \in logged : c.parent = e.tx => Stamped(c.tx)
    /\ last' = [last EXCEPT ![e.obj] = @ + 1]
    /\ stamped' = stamped \cup {[tx |-> e.tx, id |-> last[e.obj] + 1]}
    /\ UNCHANGED logged

Next ==
    \/ \E t \in Tx, o \in Object, p \in Tx \cup {None} : Log(t, o, p)
    \/ \E e \in logged : Commit(e)

Spec == Init /\ [][Next]_<<logged, stamped, last>>
=============================================================================
