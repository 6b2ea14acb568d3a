--------------------------- MODULE LifecycleProofs --------------------------
(***************************************************************************)
(* The catalog through crashes: proofs about Lifecycle for any number of   *)
(* objects, slots, snapshots and runs.                                     *)
(***************************************************************************)
EXTENDS Lifecycle, FiniteSetTheorems, TLAPS

TypeOK ==
    /\ catalog \in {"none", "blank", "ready"}
    /\ entry \in [Slot -> Object \cup {None}]
    /\ count \in 0 .. MaxObjects
    /\ log \in [Object -> {"none", "blank", "ready"}]
    /\ snap \in [SnapID -> SUBSET Object]
    /\ last \in 0 .. MaxSnap
    /\ objects \subseteq Object
    /\ creating \in Object \cup {None}
    /\ step \in {"no", "header", "entry", "count", "args", "insert"}
    /\ snapping \in {"no", "prepared", "saved"}

(* The slots below object_count hold distinct objects.                     *)
Distinct ==
    /\ \A i \in 1 .. count : entry[i] \in Object
    /\ \A i, j \in 1 .. count : entry[i] = entry[j] => i = j
    /\ catalog # "ready" => count = 0

(* The manager's map while the process starts.                             *)
StartInv ==
    /\ pc \in {"down", "magic", "load", "bad magic"} => objects = {}
    /\ pc \in {"down", "magic", "load", "bad magic", "recover", "flag"} =>
          creating = None /\ step = "no" /\ snapping = "no"
    /\ pc = "magic" => catalog = "blank"
    /\ pc \in {"load", "recover", "flag", "run"} => catalog = "ready"
    /\ pc = "recover" => objects \subseteq Entries
    /\ pc = "flag" => objects = Entries

(* A creation: what is in the catalog and in the map after each step.      *)
CreateInv ==
    pc = "run" =>
        /\ creating = None <=> step = "no"
        /\ step \in {"no", "header", "entry", "count"} => objects = Entries
        /\ step \in {"header", "entry", "count"} => creating \notin objects
        /\ step \in {"entry", "count", "args", "insert"} => log[creating] = "ready"
        /\ step = "count" => count < MaxObjects /\ entry[count + 1] = creating
        /\ step \in {"args", "insert"} => Entries = objects \cup {creating}
        /\ snapping # "no" => creating = None /\ last \in SnapID

IInv == TypeOK /\ Distinct /\ StartInv /\ CreateInv /\ CatalogIsSuperset /\ EntriesHaveLogs

-----------------------------------------------------------------------------
(* The empty directory.                                                    *)
LEMMA InitIInv == Init => IInv
<1> SUFFICES ASSUME Init PROVE IInv
  OBVIOUS
<1> USE LifecycleAssumption DEF Init, Slot, SnapID
<1>1. Entries = {}
  BY DEF Entries
<1>2. TypeOK /\ Distinct
  BY DEF TypeOK, Distinct
<1>3. StartInv /\ CreateInv
  BY Zenon, <1>1 DEF StartInv, CreateInv
<1>4. CatalogIsSuperset /\ EntriesHaveLogs
  BY <1>1 DEF CatalogIsSuperset, EntriesHaveLogs
<1> QED
  BY Zenon, <1>2, <1>3, <1>4 DEF IInv

(* A step that leaves the slots and object_count alone keeps what is said  *)
(* of the catalog alone.                                                   *)
LEMMA CatalogFrame ==
    ASSUME IInv, entry' = entry, count' = count,
           catalog' # "ready" => catalog # "ready"
    PROVE  Entries' = Entries /\ Distinct'
BY Zenon DEF IInv, Distinct, Entries

(* A step that also leaves the logs and the snapshot files alone.          *)
LEMMA FileFrame ==
    ASSUME IInv, entry' = entry, count' = count, log' = log, snap' = snap,
           catalog' # "ready" => catalog # "ready"
    PROVE  Entries' = Entries /\ Distinct' /\ CatalogIsSuperset' /\ EntriesHaveLogs'
BY Zenon, CatalogFrame DEF IInv, CatalogIsSuperset, EntriesHaveLogs

(* A step of the running program that touches neither the files nor a      *)
(* creation or snapshot in progress.                                       *)
LEMMA QuietFrame ==
    ASSUME IInv, UNCHANGED <<catalogFile, log, snapFiles, objects, creating, step, snapping>>,
           pc = "run", pc' \in {"run", "not assigned"}
    PROVE  IInv'
<1> USE DEF catalogFile, snapFiles
<1>1. Entries' = Entries /\ Distinct' /\ CatalogIsSuperset' /\ EntriesHaveLogs'
  BY Zenon, FileFrame
<1>2. TypeOK'
  BY Zenon DEF IInv, TypeOK
<1>3. StartInv' /\ CreateInv'
  BY Zenon, <1>1 DEF IInv, StartInv, CreateInv
<1> QED
  BY Zenon, <1>1, <1>2, <1>3 DEF IInv

(* The slot counted by CountEntry adds the object under creation.          *)
LEMMA CountedEntry ==
    ASSUME TypeOK, count < MaxObjects, entry' = entry, count' = count + 1
    PROVE  /\ Entries' = Entries \cup {entry[count + 1]}
           /\ 1 .. count' = (1 .. count) \cup {count + 1}
<1> USE LifecycleAssumption DEF TypeOK
<1>1. 1 .. count' = (1 .. count) \cup {count + 1}
  OBVIOUS
<1>2. \A x : x \in Entries' <=> (x \in Entries \/ x = entry[count + 1])
  BY <1>1 DEF Entries
<1> QED
  BY Zenon, <1>1, <1>2

(* Storing past object_count changes no entry.                             *)
LEMMA StoredEntry ==
    ASSUME TypeOK, NEW o \in Object, count < MaxObjects, count' = count,
           entry' = [entry EXCEPT ![count + 1] = o]
    PROVE  /\ Entries' = Entries
           /\ \A i \in 1 .. count : entry'[i] = entry[i]
           /\ entry'[count + 1] = o
           /\ entry' \in [Slot -> Object \cup {None}]
<1> USE LifecycleAssumption DEF TypeOK, Slot
<1>1. \A i \in 1 .. count : entry'[i] = entry[i]
  OBVIOUS
<1>2. entry'[count + 1] = o /\ entry' \in [Slot -> Object \cup {None}]
  OBVIOUS
<1>3. \A x : x \in Entries' <=> x \in Entries
  BY <1>1 DEF Entries
<1> QED
  BY Zenon, <1>1, <1>2, <1>3

-----------------------------------------------------------------------------
(* Every step of a run, its end or a crash keeps the invariant.            *)
LEMMA NextIInv == IInv /\ [Next]_vars => IInv'
<1> SUFFICES ASSUME IInv, [Next]_vars PROVE IInv'
  OBVIOUS
<1> USE DEF catalogFile, snapFiles, memory
<1>0. TypeOK /\ Distinct /\ StartInv /\ CreateInv /\ CatalogIsSuperset /\ EntriesHaveLogs
  BY Zenon DEF IInv
<1>1. CASE CreateCatalog
  <2>1. Entries' = Entries /\ Distinct' /\ CatalogIsSuperset' /\ EntriesHaveLogs'
    BY Zenon, <1>0, <1>1, FileFrame DEF CreateCatalog
  <2>2. TypeOK'
    BY <1>0, <1>1, LifecycleAssumption DEF CreateCatalog, TypeOK, SnapID
  <2>3. StartInv' /\ CreateInv'
    BY <2>1, <1>0, <1>1, LifecycleAssumption DEF CreateCatalog, TypeOK, Distinct, StartInv, CreateInv, Entries, SnapID
  <2> QED
    BY Zenon, <2>1, <2>2, <2>3 DEF IInv
<1>2. CASE WriteMagic
  <2>1. Entries' = Entries /\ Distinct' /\ CatalogIsSuperset' /\ EntriesHaveLogs'
    BY Zenon, <1>0, <1>2, FileFrame DEF WriteMagic
  <2>2. TypeOK'
    BY <1>0, <1>2, LifecycleAssumption DEF WriteMagic, TypeOK, SnapID
  <2>3. StartInv' /\ CreateInv'
    BY <2>1, <1>0, <1>2, LifecycleAssumption DEF WriteMagic, TypeOK, Distinct, StartInv, CreateInv, Entries, SnapID
  <2> QED
    BY Zenon, <2>1, <2>2, <2>3 DEF IInv
<1>3. CASE ClearFlag
  <2>1. Entries' = Entries /\ Distinct' /\ CatalogIsSuperset' /\ EntriesHaveLogs'
    BY Zenon, <1>0, <1>3, FileFrame DEF ClearFlag
  <2>2. TypeOK'
    BY <1>0, <1>3, LifecycleAssumption DEF ClearFlag, TypeOK, SnapID
  <2>3. StartInv' /\ CreateInv'
    BY <2>1, <1>0, <1>3, LifecycleAssumption DEF ClearFlag, TypeOK, Distinct, StartInv, CreateInv, Entries, SnapID
  <2> QED
    BY Zenon, <2>1, <2>2, <2>3 DEF IInv
<1>4. CASE AddConstructorArgs
  <2>1. Entries' = Entries /\ Distinct' /\ CatalogIsSuperset' /\ EntriesHaveLogs'
    BY Zenon, <1>0, <1>4, FileFrame DEF AddConstructorArgs
  <2>2. TypeOK'
    BY <1>0, <1>4, LifecycleAssumption DEF AddConstructorArgs, TypeOK, SnapID
  <2>3. StartInv' /\ CreateInv'
    BY <2>1, <1>0, <1>4, LifecycleAssumption DEF AddConstructorArgs, TypeOK, Distinct, StartInv, CreateInv, Entries, SnapID
  <2> QED
    BY Zenon, <2>1, <2>2, <2>3 DEF IInv
<1>5. CASE FinishSnapshot
  <2>1. Entries' = Entries /\ Distinct' /\ CatalogIsSuperset' /\ EntriesHaveLogs'
    BY Zenon, <1>0, <1>5, FileFrame DEF FinishSnapshot
  <2>2. TypeOK'
    BY <1>0, <1>5, LifecycleAssumption DEF FinishSnapshot, TypeOK, SnapID
  <2>3. StartInv' /\ CreateInv'
    BY <2>1, <1>0, <1>5, LifecycleAssumption DEF FinishSnapshot, TypeOK, Distinct, StartInv, CreateInv, Entries, SnapID
  <2> QED
    BY Zenon, <2>1, <2>2, <2>3 DEF IInv
<1>6. CASE OpenCatalog
  <2>1. Entries' = Entries /\ Distinct' /\ CatalogIsSuperset' /\ EntriesHaveLogs'
    BY Zenon, <1>6, FileFrame DEF OpenCatalog
  <2>2. TypeOK'
    BY Zenon, <1>0, <1>6 DEF OpenCatalog, TypeOK
  <2>3. StartInv' /\ CreateInv'
    <3>1. /\ pc' \in {"bad magic", "run", "load"}
          /\ pc' \in {"run", "load"} => catalog = "ready"
          /\ pc' = "run" => count = 0
      BY <1>0, <1>6 DEF OpenCatalog, TypeOK
    <3>2. count = 0 => Entries = {}
      BY DEF Entries
    <3>3. objects = {} /\ creating = None /\ step = "no" /\ snapping = "no"
      BY Zenon, <1>0, <1>6 DEF OpenCatalog, StartInv
    <3> QED
      BY Zenon, <3>1, <3>2, <3>3, <2>1, <1>6 DEF OpenCatalog, StartInv, CreateInv
  <2> QED
    BY Zenon, <2>1, <2>2, <2>3 DEF IInv
<1>7. CASE LoadSnapshot
  <2>1. Entries' = Entries /\ Distinct' /\ CatalogIsSuperset' /\ EntriesHaveLogs'
    BY Zenon, <1>7, FileFrame DEF LoadSnapshot
  <2>2. TypeOK' /\ objects' \subseteq Entries
    <3>1. last > 0 => last \in SnapID
      BY <1>0, LifecycleAssumption DEF TypeOK, SnapID
    <3>2. objects' \subseteq Entries /\ objects' \subseteq Object
      BY Zenon, <3>1, <1>0, <1>7 DEF LoadSnapshot, TypeOK, CatalogIsSuperset
    <3> QED
      BY Zenon, <3>2, <1>0, <1>7 DEF LoadSnapshot, TypeOK
  <2>3. StartInv' /\ CreateInv'
    BY Zenon, <2>1, <2>2, <1>0, <1>7 DEF LoadSnapshot, StartInv, CreateInv
  <2> QED
    BY Zenon, <2>1, <2>2, <2>3 DEF IInv
<1>8. CASE InsertObject
  <2>1. Entries' = Entries /\ Distinct' /\ CatalogIsSuperset' /\ EntriesHaveLogs'
    BY Zenon, <1>8, FileFrame DEF InsertObject
  <2>2. TypeOK' /\ snapping = "no"
    <3>1. creating \in Object /\ snapping = "no"
      BY Zenon, <1>0, <1>8 DEF InsertObject, TypeOK, CreateInv
    <3> QED
      BY Zenon, <3>1, <1>0, <1>8 DEF InsertObject, TypeOK
  <2>3. StartInv' /\ CreateInv'
    BY Zenon, <2>1, <2>2, <1>0, <1>8 DEF InsertObject, StartInv, CreateInv
  <2> QED
    BY Zenon, <2>1, <2>2, <2>3 DEF IInv
<1>9. CASE PrepareSnapshot
  <2>1. Entries' = Entries /\ Distinct' /\ CatalogIsSuperset' /\ EntriesHaveLogs'
    BY Zenon, <1>9, FileFrame DEF PrepareSnapshot
  <2>2. TypeOK' /\ last' \in SnapID
    <3>1. last' \in 0 .. MaxSnap /\ last' \in SnapID
      BY <1>0, <1>9, LifecycleAssumption DEF PrepareSnapshot, TypeOK, SnapID
    <3> QED
      BY Zenon, <3>1, <1>0, <1>9 DEF PrepareSnapshot, TypeOK
  <2>3. StartInv' /\ CreateInv'
    BY Zenon, <2>1, <2>2, <1>0, <1>9 DEF PrepareSnapshot, StartInv, CreateInv, Unlocked
  <2> QED
    BY Zenon, <2>1, <2>2, <2>3 DEF IInv
<1>10. CASE RecoverObjects
  <2>1. Entries' = Entries /\ Distinct'
    BY Zenon, <1>0, <1>10, CatalogFrame DEF RecoverObjects
  <2>2. Entries \subseteq Object
    BY Zenon, <1>0 DEF Distinct, Entries
  <2>3. TypeOK'
    BY <2>2, <1>0, <1>10 DEF RecoverObjects, TypeOK
  <2>4. StartInv' /\ CreateInv'
    BY Zenon, <2>1, <1>0, <1>10 DEF RecoverObjects, StartInv, CreateInv
  <2>5. CatalogIsSuperset' /\ EntriesHaveLogs'
    BY Zenon, <2>1, <2>2, <1>0, <1>10 DEF RecoverObjects, CatalogIsSuperset, EntriesHaveLogs
  <2> QED
    BY Zenon, <2>1, <2>3, <2>4, <2>5 DEF IInv
<1>11. ASSUME NEW o \in Object, Construct(o) PROVE IInv'
  <2>1. Entries' = Entries /\ Distinct'
    BY Zenon, <1>0, <1>11, CatalogFrame DEF Construct
  <2>2. TypeOK' /\ step' # "no" /\ pc' \in {"run", "bad log"} /\ o # None
    BY <1>0, <1>11, LifecycleAssumption DEF Construct, TypeOK
  <2>3. o \notin Entries /\ objects = Entries /\ snapping = "no"
    BY Zenon, <1>0, <1>11 DEF Construct, CreateInv, Unlocked
  <2>4. \A x \in Entries : log'[x] = log[x]
    BY Zenon, <2>3, <1>0, <1>11 DEF Construct, TypeOK, Distinct, Entries
  <2>5. StartInv'
    BY Zenon, <2>1, <2>2, <1>0, <1>11 DEF Construct, StartInv
  <2>6. CreateInv'
    <3>1. pc' = "run" => step' \in {"header", "entry"} /\ (step' = "entry" => log'[o] = "ready")
      BY <1>0, <1>11 DEF Construct, TypeOK
    <3>2. "header" # "entry"
      OBVIOUS
    <3> QED
      BY Zenon, <3>1, <3>2, <2>1, <2>2, <2>3, <1>0, <1>11 DEF Construct, CreateInv
  <2>7. CatalogIsSuperset' /\ EntriesHaveLogs'
    BY Zenon, <2>1, <2>4, <1>0, <1>11 DEF Construct, CatalogIsSuperset, EntriesHaveLogs
  <2> QED
    BY Zenon, <2>1, <2>2, <2>5, <2>6, <2>7 DEF IInv
<1>12. CASE LogHeader
  <2>1. Entries' = Entries /\ Distinct'
    BY Zenon, <1>0, <1>12, CatalogFrame DEF LogHeader
  <2>2. creating \in Object /\ creating \notin Entries
    BY Zenon, <1>0, <1>12 DEF LogHeader, TypeOK, CreateInv
  <2>3. TypeOK' /\ log'[creating] = "ready"
    BY <2>2, <1>0, <1>12 DEF LogHeader, TypeOK
  <2>4. \A x \in Entries : log'[x] = log[x]
    <3>1. \A x \in Entries : x \in Object /\ x # creating
      BY Zenon, <2>2, <1>0 DEF Distinct, Entries
    <3>2. \A x \in Object : x # creating => log'[x] = log[x]
      BY Zenon, <1>0, <1>12 DEF LogHeader, TypeOK
    <3> QED
      BY Zenon, <3>1, <3>2
  <2>5. StartInv' /\ CreateInv'
    BY Zenon, <2>1, <2>3, <1>0, <1>12 DEF LogHeader, StartInv, CreateInv
  <2>6. CatalogIsSuperset' /\ EntriesHaveLogs'
    BY Zenon, <2>1, <2>4, <1>0, <1>12 DEF LogHeader, CatalogIsSuperset, EntriesHaveLogs
  <2> QED
    BY Zenon, <2>1, <2>3, <2>5, <2>6 DEF IInv
<1>13. CASE AddEntry
  <2>1. creating \in Object
    BY Zenon, <1>0, <1>13 DEF AddEntry, TypeOK, CreateInv
  <2>2. /\ Entries' = Entries
        /\ \A i \in 1 .. count : entry'[i] = entry[i]
        /\ entry'[count + 1] = creating
        /\ entry' \in [Slot -> Object \cup {None}]
    BY Zenon, <2>1, <1>0, <1>13, StoredEntry DEF AddEntry
  <2>3. TypeOK'
    BY Zenon, <2>2, <1>0, <1>13 DEF AddEntry, TypeOK
  <2>4. Distinct'
    BY Zenon, <2>2, <1>0, <1>13 DEF AddEntry, Distinct
  <2>5. StartInv' /\ CreateInv'
    BY Zenon, <2>2, <1>0, <1>13 DEF AddEntry, StartInv, CreateInv
  <2>6. CatalogIsSuperset' /\ EntriesHaveLogs'
    BY Zenon, <2>2, <1>0, <1>13 DEF AddEntry, CatalogIsSuperset, EntriesHaveLogs
  <2> QED
    BY Zenon, <2>3, <2>4, <2>5, <2>6 DEF IInv
<1>14. CASE CountEntry
  <2>1. /\ creating \in Object /\ count < MaxObjects /\ entry[count + 1] = creating
        /\ objects = Entries /\ creating \notin Entries /\ log[creating] = "ready"
    BY Zenon, <1>0, <1>14 DEF CountEntry, TypeOK, CreateInv
  <2>2. Entries' = Entries \cup {creating} /\ 1 .. count' = (1 .. count) \cup {count + 1}
    BY Zenon, <2>1, <1>0, <1>14, CountedEntry DEF CountEntry
  <2>3. TypeOK' /\ catalog = "ready"
    BY <2>1, <1>0, <1>14, LifecycleAssumption DEF CountEntry, TypeOK, StartInv
  <2>4. Distinct'
    <3>1. \A i \in 1 .. count : entry[i] \in Object /\ entry[i] # entry[count + 1]
      BY Zenon, <2>1, <1>0 DEF Distinct, Entries
    <3>2. \A i \in 1 .. count' : entry[i] \in Object
      BY Zenon, <2>1, <2>2, <3>1
    <3>3. \A i, j \in 1 .. count' : entry[i] = entry[j] => i = j
      BY Zenon, <2>2, <3>1, <1>0 DEF Distinct
    <3> QED
      BY Zenon, <3>2, <3>3, <2>3, <1>14 DEF CountEntry, Distinct
  <2>5. StartInv' /\ CreateInv'
    BY Zenon, <2>1, <2>2, <1>0, <1>14 DEF CountEntry, StartInv, CreateInv
  <2>6. CatalogIsSuperset' /\ EntriesHaveLogs'
    BY Zenon, <2>1, <2>2, <1>0, <1>14 DEF CountEntry, CatalogIsSuperset, EntriesHaveLogs
  <2> QED
    BY Zenon, <2>3, <2>4, <2>5, <2>6 DEF IInv
<1>15. CASE SaveTables
  <2>1. Entries' = Entries /\ Distinct'
    BY Zenon, <1>0, <1>15, CatalogFrame DEF SaveTables
  <2>2. last \in SnapID /\ objects = Entries
    BY Zenon, <1>0, <1>15 DEF SaveTables, CreateInv
  <2>3. TypeOK'
    BY <2>2, <1>0, <1>15 DEF SaveTables, TypeOK
  <2>4. StartInv' /\ CreateInv'
    BY Zenon, <2>1, <2>2, <1>0, <1>15 DEF SaveTables, StartInv, CreateInv
  <2>5. CatalogIsSuperset' /\ EntriesHaveLogs'
    BY <2>1, <2>2, <1>0, <1>15 DEF SaveTables, TypeOK, CatalogIsSuperset, EntriesHaveLogs
  <2> QED
    BY Zenon, <2>1, <2>3, <2>4, <2>5 DEF IInv
<1>16. CASE (\E o \in Object : FindRecovered(o) \/ Destructor(o))
          \/ OperatorDelete \/ OpenTransaction \/ CloseTransaction
  BY Zenon, <1>16, QuietFrame
  DEF FindRecovered, Destructor, OperatorDelete, OpenTransaction, CloseTransaction
<1>17. ASSUME NEW flag, End(flag) PROVE IInv'
  <2>1. Entries' = Entries /\ Distinct' /\ CatalogIsSuperset' /\ EntriesHaveLogs'
    BY Zenon, <1>17, FileFrame DEF End
  <2>2. TypeOK'
    BY <1>0, <1>17 DEF End, TypeOK
  <2>3. StartInv' /\ CreateInv'
    BY <1>17 DEF End, StartInv, CreateInv
  <2> QED
    BY Zenon, <2>1, <2>2, <2>3 DEF IInv
<1>18. CASE UNCHANGED vars
  <2>1. Entries' = Entries /\ Distinct' /\ CatalogIsSuperset' /\ EntriesHaveLogs'
    BY Zenon, <1>18, FileFrame DEF vars
  <2>2. TypeOK' /\ StartInv' /\ CreateInv'
    BY Zenon, <2>1, <1>0, <1>18 DEF vars, TypeOK, StartInv, CreateInv
  <2> QED
    BY Zenon, <2>1, <2>2 DEF IInv
<1> QED
  BY Zenon, <1>1, <1>2, <1>3, <1>4, <1>5, <1>6, <1>7, <1>8, <1>9, <1>10, <1>11, <1>12, <1>13,
     <1>14, <1>15, <1>16, <1>17, <1>18 DEF Next, Exit, FaultExit, Crash

(* The inductive invariant of the catalog, the logs and the manager's map. *)
THEOREM Invariance == Spec => []IInv
BY InitIInv, NextIInv, PTL DEF Spec

(* "The catalog contains the superset of objects in any snapshot"          *)
(* (NVManager's constructor), for any crashes between the persists of      *)
(* NVCatalog::add, of a snapshot and of the runs in between.               *)
THEOREM Superset == Spec => []CatalogIsSuperset
<1>1. IInv => CatalogIsSuperset
  BY Zenon DEF IInv
<1> QED
  BY <1>1, Invariance, PTL

(* The map of the manager and the catalog agree whenever no creation is in *)
(* progress, and an object is entered once (createNew, recoverObject).     *)
THEOREM Agreement == Spec => []ObjectsAreEntries
<1>1. IInv => ObjectsAreEntries
  BY Zenon DEF IInv, CreateInv, Distinct, ObjectsAreEntries
<1> QED
  BY <1>1, Invariance, PTL

(* Every object in the catalog has a log with a header: the constructor    *)
(* makes it before createNew enters the object.                            *)
THEOREM Logs == Spec => []EntriesHaveLogs
<1>1. IInv => EntriesHaveLogs
  BY Zenon DEF IInv
<1> QED
  BY <1>1, Invariance, PTL
-----------------------------------------------------------------------------
(* What is half made: logs without header, entries without arguments,      *)
(* snapshots that create() did not finish.                                 *)
Blanks == {o \in Object : log[o] = "blank"}
Bare == (1 .. count) \ args
Unfinished == (1 .. last) \ complete

HalfMade == Cardinality(Blanks) + Cardinality(Bare) + Cardinality(Unfinished)

(* This run has nothing half made at the moment.                           *)
Whole ==
    \/ pc \in {"magic", "load", "recover", "flag"}
    \/ pc = "run" /\ step \notin {"header", "args"} /\ snapping = "no"

HalfTypes ==
    /\ runs \in Nat
    /\ args \subseteq 1 .. count
    /\ complete \subseteq 1 .. last
    /\ IsFiniteSet(Blanks)

(* What the step in progress leaves half made if the run ends here.        *)
HalfNow ==
    pc = "run" =>
        /\ step = "header" => creating \in Blanks
        /\ step = "args" => count \in Bare
        /\ snapping # "no" => last \in Unfinished

(* A run that has nothing half made has its one thing still to leave.      *)
HalfInv == HalfTypes /\ HalfNow /\ HalfMade <= runs /\ (Whole => HalfMade + 1 <= runs)

(* The three sets are finite, so they can be counted.                      *)
LEMMA HalfCounts ==
    ASSUME TypeOK, HalfTypes
    PROVE  /\ IsFiniteSet(Bare) /\ IsFiniteSet(Unfinished)
           /\ Cardinality(Blanks) \in Nat /\ Cardinality(Bare) \in Nat
           /\ Cardinality(Unfinished) \in Nat /\ HalfMade \in Nat
<1>1. IsFiniteSet(1 .. count) /\ IsFiniteSet(1 .. last)
  <2>1. 1 \in Int /\ count \in Int /\ last \in Int
    BY LifecycleAssumption DEF TypeOK
  <2> QED
    BY Zenon, <2>1, FS_Interval
<1>2. IsFiniteSet(Bare) /\ IsFiniteSet(Unfinished)
  <2>1. Bare \subseteq 1 .. count /\ Unfinished \subseteq 1 .. last
    BY Zenon DEF Bare, Unfinished
  <2> QED
    BY Zenon, <1>1, <2>1, FS_Subset
<1>3. Cardinality(Blanks) \in Nat /\ Cardinality(Bare) \in Nat /\ Cardinality(Unfinished) \in Nat
  BY Zenon, <1>2, FS_CardinalityType DEF HalfTypes
<1>4. HalfMade \in Nat
  BY <1>3 DEF HalfMade
<1> QED
  BY Zenon, <1>2, <1>3, <1>4

(* A step that makes nothing and finishes nothing.                         *)
LEMMA QuietHalf ==
    ASSUME HalfInv, UNCHANGED <<log, count, args, last, complete, runs>>,
           Whole' => Whole,
           pc' = "run" /\ step' \in {"header", "args"} =>
               pc = "run" /\ step' = step /\ creating' = creating,
           pc' = "run" /\ snapping' # "no" => pc = "run" /\ snapping # "no"
    PROVE  HalfInv'
<1>1. Blanks' = Blanks /\ Bare' = Bare /\ Unfinished' = Unfinished
  BY Zenon DEF Blanks, Bare, Unfinished
<1>2. HalfMade' = HalfMade
  BY Zenon, <1>1 DEF HalfMade
<1>3. HalfTypes'
  BY Zenon, <1>1 DEF HalfInv, HalfTypes
<1>4. HalfNow'
  BY Zenon, <1>1 DEF HalfInv, HalfNow
<1>5. HalfMade' <= runs' /\ (Whole' => HalfMade' + 1 <= runs')
  <2>1. HalfMade <= runs /\ (Whole => HalfMade + 1 <= runs)
    BY Zenon DEF HalfInv
  <2>2. runs' = runs
    BY Zenon
  <2> QED
    BY <1>2, <2>1, <2>2
<1> QED
  BY Zenon, <1>3, <1>4, <1>5 DEF HalfInv

(* A start of the program earns it one thing to leave half made.           *)
LEMMA StartHalf ==
    ASSUME TypeOK, StartInv, HalfInv, CreateCatalog \/ OpenCatalog
    PROVE  HalfInv'
<1> USE DEF catalogFile, snapFiles, memory
<1>1. UNCHANGED <<log, count, args, last, complete, step, creating, snapping>> /\ runs' = runs + 1
  BY Zenon DEF CreateCatalog, OpenCatalog
<1>2. Blanks' = Blanks /\ Bare' = Bare /\ Unfinished' = Unfinished
  BY Zenon, <1>1 DEF Blanks, Bare, Unfinished
<1>3. HalfMade' = HalfMade
  BY Zenon, <1>2 DEF HalfMade
<1>4. HalfMade \in Nat /\ runs \in Nat /\ HalfMade <= runs
  BY Zenon, HalfCounts DEF HalfInv, HalfTypes
<1>5. HalfTypes'
  <2>1. runs' \in Nat
    BY <1>1, <1>4
  <2> QED
    BY Zenon, <1>1, <1>2, <2>1 DEF HalfInv, HalfTypes
<1>6. HalfNow'
  <2>1. step' = "no" /\ snapping' = "no"
    BY Zenon, <1>1 DEF CreateCatalog, OpenCatalog, StartInv
  <2> QED
    BY <2>1 DEF HalfNow
<1>7. HalfMade' <= runs' /\ HalfMade' + 1 <= runs'
  BY <1>1, <1>3, <1>4
<1> QED
  BY Zenon, <1>5, <1>6, <1>7 DEF HalfInv

(* A step that makes one thing, by a run that had nothing half made.       *)
LEMMA MakeHalf ==
    ASSUME HalfTypes', HalfNow', ~Whole', Whole, HalfInv, runs' = runs, HalfMade' = HalfMade + 1
    PROVE  HalfInv'
<1>1. HalfMade + 1 <= runs
  BY Zenon DEF HalfInv
<1>2. HalfMade' <= runs'
  BY <1>1
<1> QED
  BY Zenon, <1>2 DEF HalfInv

(* A step that finishes the one thing half made.                           *)
LEMMA FinishHalf ==
    ASSUME HalfTypes', HalfNow', HalfInv, runs' = runs,
           HalfMade \in Nat, HalfMade' = HalfMade - 1
    PROVE  HalfInv'
<1>1. HalfMade <= runs /\ runs \in Nat
  BY Zenon DEF HalfInv, HalfTypes
<1>2. HalfMade' <= runs' /\ HalfMade' + 1 <= runs'
  BY <1>1
<1> QED
  BY Zenon, <1>2 DEF HalfInv

(* Savitar_log_create, before and after the header.                        *)
LEMMA LogHalf ==
    ASSUME IInv, HalfInv, NEW o \in Object, Construct(o) \/ LogHeader
    PROVE  HalfInv'
<1> USE DEF catalogFile, snapFiles, memory
<1>0. TypeOK /\ CreateInv /\ HalfTypes
  BY Zenon DEF IInv, HalfInv
<1>1. /\ Cardinality(Blanks) \in Nat /\ Cardinality(Bare) \in Nat
      /\ Cardinality(Unfinished) \in Nat /\ HalfMade \in Nat /\ IsFiniteSet(Blanks)
  BY Zenon, <1>0, HalfCounts DEF HalfTypes
<1>2. CASE Construct(o) /\ log[o] # "none"
  <2>1. UNCHANGED <<log, count, args, last, complete, runs, snapping>> /\ step' = "entry"
    BY <1>0, <1>2 DEF Construct, TypeOK
  <2>2. pc = "run" /\ snapping = "no" /\ Whole
    <3>1. pc = "run" /\ snapping = "no" /\ creating = None
      BY Zenon, <1>2 DEF Construct, Unlocked
    <3>2. step = "no"
      BY Zenon, <3>1, <1>0 DEF CreateInv
    <3> QED
      BY <3>1, <3>2 DEF Whole
  <2>3. ~(step' \in {"header", "args"}) /\ snapping' = "no"
    BY <2>1, <2>2
  <2> QED
    BY Zenon, <2>1, <2>2, <2>3, QuietHalf
<1>3. CASE Construct(o) /\ log[o] = "none"
  <2>1. /\ UNCHANGED <<count, args, last, complete, runs, snapping, pc>>
        /\ step' = "header" /\ creating' = o /\ log' = [log EXCEPT ![o] = "blank"]
    BY <1>0, <1>3 DEF Construct, TypeOK
  <2>2. Blanks' = Blanks \cup {o} /\ o \notin Blanks
    BY <2>1, <1>0, <1>3 DEF Blanks, TypeOK
  <2>3. Bare' = Bare /\ Unfinished' = Unfinished
    BY Zenon, <2>1 DEF Bare, Unfinished
  <2>4. IsFiniteSet(Blanks') /\ Cardinality(Blanks') = Cardinality(Blanks) + 1
    BY <2>2, <1>1, FS_AddElement
  <2>5. HalfMade' = HalfMade + 1
    BY <2>3, <2>4, <1>1 DEF HalfMade
  <2>6. Whole /\ ~Whole' /\ snapping' = "no"
    <3>1. pc = "run" /\ snapping = "no" /\ creating = None
      BY Zenon, <1>3 DEF Construct, Unlocked
    <3>2. step = "no"
      BY Zenon, <3>1, <1>0 DEF CreateInv
    <3> QED
      BY <3>1, <3>2, <2>1 DEF Whole
  <2>7. HalfTypes'
    BY Zenon, <2>1, <2>4, <1>0 DEF HalfTypes
  <2>8. HalfNow'
    <3>1. step' # "args"
      BY <2>1
    <3>2. creating' \in Blanks'
      BY Zenon, <2>1, <2>2
    <3> QED
      BY Zenon, <3>1, <3>2, <2>6 DEF HalfNow
  <2> QED
    BY Zenon, <2>1, <2>5, <2>6, <2>7, <2>8, MakeHalf
<1>4. CASE LogHeader
  <2>1. /\ UNCHANGED <<count, args, last, complete, runs, snapping, pc>>
        /\ step' = "entry" /\ log' = [log EXCEPT ![creating] = "ready"]
        /\ pc = "run" /\ step = "header"
    BY Zenon, <1>4 DEF LogHeader
  <2>2. creating \in Blanks /\ snapping = "no"
    <3>1. step # "no"
      BY <2>1
    <3> QED
      BY Zenon, <2>1, <3>1, <1>0 DEF HalfInv, HalfNow, CreateInv
  <2>3. Blanks' = Blanks \ {creating}
    BY <2>1, <2>2, <1>0 DEF Blanks, TypeOK
  <2>4. Bare' = Bare /\ Unfinished' = Unfinished
    BY Zenon, <2>1 DEF Bare, Unfinished
  <2>5. IsFiniteSet(Blanks') /\ Cardinality(Blanks') = Cardinality(Blanks) - 1
    BY <2>2, <2>3, <1>1, FS_RemoveElement
  <2>6. HalfMade' = HalfMade - 1
    BY <2>4, <2>5, <1>1 DEF HalfMade
  <2>7. HalfTypes'
    BY Zenon, <2>1, <2>5, <1>0 DEF HalfTypes
  <2>8. HalfNow'
    <3>1. step' # "args" /\ step' # "header"
      BY <2>1
    <3> QED
      BY Zenon, <3>1, <2>1, <2>2 DEF HalfNow
  <2> QED
    BY Zenon, <2>1, <2>6, <2>7, <2>8, <1>1, FinishHalf
<1> QED
  BY Zenon, <1>2, <1>3, <1>4

(* NVCatalog::add counts the entry, addConstructorArgs completes it.       *)
LEMMA EntryHalf ==
    ASSUME IInv, HalfInv, CountEntry \/ AddConstructorArgs
    PROVE  HalfInv'
<1> USE DEF catalogFile, snapFiles, memory
<1>0. TypeOK /\ CreateInv /\ HalfTypes
  BY Zenon DEF IInv, HalfInv
<1>1. /\ Cardinality(Blanks) \in Nat /\ Cardinality(Bare) \in Nat
      /\ Cardinality(Unfinished) \in Nat /\ HalfMade \in Nat /\ IsFiniteSet(Bare)
  BY Zenon, <1>0, HalfCounts
<1>2. CASE CountEntry
  <2>1. /\ UNCHANGED <<log, args, last, complete, runs, snapping, pc>>
        /\ step' = "args" /\ count' = count + 1 /\ pc = "run" /\ step = "count"
    BY Zenon, <1>2 DEF CountEntry
  <2>2. count' \in Bare' /\ Bare' = Bare \cup {count + 1} /\ count + 1 \notin Bare
    <3>1. count \in Nat /\ args \subseteq 1 .. count
      BY <1>0, LifecycleAssumption DEF TypeOK, HalfTypes
    <3>2. count + 1 \notin args /\ count + 1 \notin 1 .. count
      BY <3>1
    <3>3. 1 .. count' = (1 .. count) \cup {count + 1}
      BY <2>1, <3>1
    <3> QED
      BY Zenon, <2>1, <3>2, <3>3 DEF Bare
  <2>3. Blanks' = Blanks /\ Unfinished' = Unfinished
    BY Zenon, <2>1 DEF Blanks, Unfinished
  <2>4. Cardinality(Bare') = Cardinality(Bare) + 1
    BY <2>2, <1>1, FS_AddElement
  <2>5. HalfMade' = HalfMade + 1
    BY <2>3, <2>4, <1>1 DEF HalfMade
  <2>6. snapping = "no" /\ Whole /\ ~Whole'
    <3>1. step # "no"
      BY <2>1
    <3>2. snapping = "no"
      BY Zenon, <2>1, <3>1, <1>0 DEF CreateInv
    <3> QED
      BY <3>2, <2>1 DEF Whole
  <2>7. HalfTypes'
    <3>1. args \subseteq 1 .. count'
      BY <2>1, <1>0, LifecycleAssumption DEF HalfTypes, TypeOK
    <3> QED
      BY Zenon, <3>1, <2>1, <2>3, <1>0 DEF HalfTypes
  <2>8. HalfNow'
    <3>1. step' # "header"
      BY <2>1
    <3> QED
      BY Zenon, <3>1, <2>1, <2>2, <2>6 DEF HalfNow
  <2> QED
    BY Zenon, <2>1, <2>5, <2>6, <2>7, <2>8, MakeHalf
<1>3. CASE AddConstructorArgs
  <2>1. /\ UNCHANGED <<log, count, last, complete, runs, snapping, pc>>
        /\ step' = "insert" /\ args' = args \cup {count} /\ pc = "run" /\ step = "args"
    BY Zenon, <1>3 DEF AddConstructorArgs
  <2>2. count \in Bare /\ snapping = "no"
    <3>1. step # "no"
      BY <2>1
    <3> QED
      BY Zenon, <2>1, <3>1, <1>0 DEF HalfInv, HalfNow, CreateInv
  <2>3. Bare' = Bare \ {count} /\ count \in 1 .. count
    BY Zenon, <2>1, <2>2 DEF Bare
  <2>4. Blanks' = Blanks /\ Unfinished' = Unfinished
    BY Zenon, <2>1 DEF Blanks, Unfinished
  <2>5. Cardinality(Bare') = Cardinality(Bare) - 1
    BY <2>2, <2>3, <1>1, FS_RemoveElement
  <2>6. HalfMade' = HalfMade - 1
    BY <2>4, <2>5, <1>1 DEF HalfMade
  <2>7. HalfTypes'
    BY Zenon, <2>1, <2>3, <2>4, <1>0 DEF HalfTypes
  <2>8. HalfNow'
    <3>1. step' # "args" /\ step' # "header"
      BY <2>1
    <3> QED
      BY Zenon, <3>1, <2>1, <2>2 DEF HalfNow
  <2> QED
    BY Zenon, <2>1, <2>6, <2>7, <2>8, <1>1, FinishHalf
<1> QED
  BY Zenon, <1>2, <1>3

(* Snapshot::create, from the new file to its end.                         *)
LEMMA SnapshotHalf ==
    ASSUME IInv, HalfInv, PrepareSnapshot \/ FinishSnapshot
    PROVE  HalfInv'
<1> USE DEF catalogFile, snapFiles, memory
<1>0. TypeOK /\ CreateInv /\ HalfTypes
  BY Zenon DEF IInv, HalfInv
<1>1. /\ Cardinality(Blanks) \in Nat /\ Cardinality(Bare) \in Nat
      /\ Cardinality(Unfinished) \in Nat /\ HalfMade \in Nat /\ IsFiniteSet(Unfinished)
  BY Zenon, <1>0, HalfCounts
<1>2. CASE PrepareSnapshot
  <2>1. /\ UNCHANGED <<log, args, count, complete, runs, step, pc>>
        /\ snapping' = "prepared" /\ last' = last + 1 /\ pc = "run" /\ snapping = "no"
        /\ creating = None
    BY Zenon, <1>2 DEF PrepareSnapshot, Unlocked
  <2>2. last' \in Unfinished' /\ Unfinished' = Unfinished \cup {last + 1} /\ last + 1 \notin Unfinished
    <3>1. last \in Nat /\ complete \subseteq 1 .. last
      BY <1>0, LifecycleAssumption DEF TypeOK, HalfTypes
    <3>2. last + 1 \notin complete /\ last + 1 \notin 1 .. last
      BY <3>1
    <3>3. 1 .. last' = (1 .. last) \cup {last + 1}
      BY <2>1, <3>1
    <3> QED
      BY Zenon, <2>1, <3>2, <3>3 DEF Unfinished
  <2>3. Blanks' = Blanks /\ Bare' = Bare
    BY Zenon, <2>1 DEF Blanks, Bare
  <2>4. Cardinality(Unfinished') = Cardinality(Unfinished) + 1
    BY <2>2, <1>1, FS_AddElement
  <2>5. HalfMade' = HalfMade + 1
    BY <2>3, <2>4, <1>1 DEF HalfMade
  <2>6. step' = "no" /\ Whole /\ ~Whole'
    <3>1. step = "no"
      BY Zenon, <2>1, <1>0 DEF CreateInv
    <3> QED
      BY <3>1, <2>1 DEF Whole
  <2>7. HalfTypes'
    <3>1. complete \subseteq 1 .. last'
      BY <2>1, <1>0, LifecycleAssumption DEF HalfTypes, TypeOK
    <3> QED
      BY Zenon, <3>1, <2>1, <2>3, <1>0 DEF HalfTypes
  <2>8. HalfNow'
    <3>1. step' # "header" /\ step' # "args"
      BY <2>6
    <3> QED
      BY Zenon, <3>1, <2>2 DEF HalfNow
  <2> QED
    BY Zenon, <2>1, <2>5, <2>6, <2>7, <2>8, MakeHalf
<1>3. CASE FinishSnapshot
  <2>1. /\ UNCHANGED <<log, count, args, last, creating, step, runs, pc>>
        /\ snapping' = "no" /\ complete' = complete \cup {last} /\ pc = "run" /\ snapping = "saved"
    BY Zenon, <1>3 DEF FinishSnapshot
  <2>2. last \in Unfinished /\ step = "no"
    <3>1. snapping # "no"
      BY <2>1
    <3> QED
      BY Zenon, <2>1, <3>1, <1>0 DEF HalfInv, HalfNow, CreateInv
  <2>3. Unfinished' = Unfinished \ {last} /\ last \in 1 .. last
    BY Zenon, <2>1, <2>2 DEF Unfinished
  <2>4. Blanks' = Blanks /\ Bare' = Bare
    BY Zenon, <2>1 DEF Blanks, Bare
  <2>5. Cardinality(Unfinished') = Cardinality(Unfinished) - 1
    BY <2>2, <2>3, <1>1, FS_RemoveElement
  <2>6. HalfMade' = HalfMade - 1
    BY <2>4, <2>5, <1>1 DEF HalfMade
  <2>7. HalfTypes'
    BY Zenon, <2>1, <2>3, <2>4, <1>0 DEF HalfTypes
  <2>8. HalfNow'
    <3>1. step' # "args" /\ step' # "header"
      BY <2>1, <2>2
    <3> QED
      BY Zenon, <3>1, <2>1 DEF HalfNow
  <2> QED
    BY Zenon, <2>1, <2>6, <2>7, <2>8, <1>1, FinishHalf
<1> QED
  BY Zenon, <1>2, <1>3

(* Recovery finds the log of every entry, so it makes none.                *)
LEMMA RecoverHalf ==
    ASSUME IInv, HalfInv, RecoverObjects
    PROVE  HalfInv'
<1> USE DEF catalogFile, snapFiles, memory
<1>1. TypeOK /\ EntriesHaveLogs /\ StartInv
  BY Zenon DEF IInv
<1>2. log' = log
  BY <1>1 DEF RecoverObjects, TypeOK, EntriesHaveLogs
<1>3. UNCHANGED <<count, args, last, complete, runs>> /\ pc = "recover" /\ pc' = "flag"
  BY Zenon DEF RecoverObjects
<1>4. Whole /\ pc' # "run"
  BY <1>3 DEF Whole
<1> QED
  BY Zenon, <1>2, <1>3, <1>4, QuietHalf

(* The steps that touch none of the three.                                 *)
LEMMA OtherHalf ==
    ASSUME IInv, HalfInv,
           \/ WriteMagic \/ LoadSnapshot \/ ClearFlag \/ AddEntry \/ InsertObject
           \/ SaveTables \/ OperatorDelete \/ OpenTransaction \/ CloseTransaction
           \/ \E o \in Object : FindRecovered(o) \/ Destructor(o)
           \/ \E flag : End(flag)
           \/ UNCHANGED vars
    PROVE  HalfInv'
<1> USE DEF catalogFile, snapFiles, memory
<1>0. TypeOK /\ StartInv /\ CreateInv
  BY Zenon DEF IInv
<1>1. UNCHANGED <<log, count, args, last, complete, runs>>
  BY Zenon DEF WriteMagic, LoadSnapshot, ClearFlag, AddEntry, InsertObject, SaveTables,
     OperatorDelete, OpenTransaction, CloseTransaction, FindRecovered, Destructor, End, vars
<1>2. CASE WriteMagic \/ LoadSnapshot \/ ClearFlag
  <2>1. Whole /\ step' = "no" /\ snapping' = "no"
    BY <1>0, <1>2 DEF WriteMagic, LoadSnapshot, ClearFlag, StartInv, Whole
  <2>2. ~(step' \in {"header", "args"})
    BY <2>1
  <2> QED
    BY Zenon, <1>1, <2>1, <2>2, QuietHalf
<1>3. CASE AddEntry \/ InsertObject
  <2>1. /\ pc = "run" /\ step \notin {"no", "header", "args"}
        /\ step' \notin {"header", "args"} /\ snapping' = snapping
    BY <1>3 DEF AddEntry, InsertObject
  <2>2. snapping = "no"
    <3>1. step # "no"
      BY Zenon, <2>1
    <3> QED
      BY Zenon, <2>1, <3>1, <1>0 DEF CreateInv
  <2>3. Whole
    BY Zenon, <2>1, <2>2 DEF Whole
  <2> QED
    BY Zenon, <1>1, <2>1, <2>2, <2>3, QuietHalf
<1>4. CASE SaveTables
  <2>1. /\ pc = "run" /\ snapping = "prepared" /\ snapping' = "saved" /\ step' = step
        /\ pc' = pc /\ creating' = creating
    BY Zenon, <1>4 DEF SaveTables
  <2>2. ~Whole' /\ snapping # "no"
    BY <2>1 DEF Whole
  <2> QED
    BY Zenon, <1>1, <2>1, <2>2, QuietHalf
<1>5. CASE \/ OperatorDelete \/ OpenTransaction \/ CloseTransaction
           \/ \E o \in Object : FindRecovered(o) \/ Destructor(o)
  <2>1. /\ pc = "run" /\ pc' \in {"run", "not assigned"}
        /\ UNCHANGED <<step, creating, snapping>>
    BY Zenon, <1>5 DEF OperatorDelete, OpenTransaction, CloseTransaction, FindRecovered, Destructor
  <2>2. Whole' => Whole
    BY <2>1 DEF Whole
  <2> QED
    BY Zenon, <1>1, <2>1, <2>2, QuietHalf
<1>6. CASE \E flag : End(flag)
  <2>1. pc' = "down"
    BY Zenon, <1>6 DEF End
  <2>2. ~Whole' /\ pc' # "run"
    BY <2>1 DEF Whole
  <2> QED
    BY Zenon, <1>1, <2>2, QuietHalf
<1>7. CASE UNCHANGED vars
  <2>1. UNCHANGED <<pc, step, creating, snapping>>
    BY Zenon, <1>7 DEF vars
  <2>2. Whole' => Whole
    BY Zenon, <2>1 DEF Whole
  <2> QED
    BY Zenon, <1>1, <2>1, <2>2, QuietHalf
<1> QED
  BY Zenon, <1>2, <1>3, <1>4, <1>5, <1>6, <1>7

(* Every step keeps the account.                                           *)
LEMMA NextHalf == IInv /\ HalfInv /\ [Next]_vars => HalfInv'
<1> SUFFICES ASSUME IInv, HalfInv, [Next]_vars PROVE HalfInv'
  OBVIOUS
<1>1. CASE CreateCatalog \/ OpenCatalog
  BY Zenon, <1>1, StartHalf DEF IInv
<1>2. CASE RecoverObjects
  BY Zenon, <1>2, RecoverHalf
<1>3. ASSUME NEW o \in Object, Construct(o) PROVE HalfInv'
  BY Zenon, <1>3, LogHalf
<1>4. CASE LogHeader
  <2>1. creating \in Object
    BY Zenon, <1>4 DEF IInv, TypeOK, CreateInv, LogHeader
  <2> QED
    BY Zenon, <2>1, <1>4, LogHalf
<1>5. CASE CountEntry \/ AddConstructorArgs
  BY Zenon, <1>5, EntryHalf
<1>6. CASE PrepareSnapshot \/ FinishSnapshot
  BY Zenon, <1>6, SnapshotHalf
<1>7. CASE \/ WriteMagic \/ LoadSnapshot \/ ClearFlag \/ AddEntry \/ InsertObject
           \/ SaveTables \/ OperatorDelete \/ OpenTransaction \/ CloseTransaction
           \/ \E o \in Object : FindRecovered(o) \/ Destructor(o)
           \/ \E flag : End(flag)
           \/ UNCHANGED vars
  BY Zenon, <1>7, OtherHalf
<1> QED
  BY Zenon, <1>1, <1>2, <1>3, <1>4, <1>5, <1>6, <1>7 DEF Next, Exit, FaultExit, Crash

(* In the empty directory nothing is half made.                            *)
LEMMA InitHalf == Init => HalfInv
<1> SUFFICES ASSUME Init PROVE HalfInv
  OBVIOUS
<1>1. Blanks = {} /\ Bare = {} /\ Unfinished = {}
  BY DEF Init, Blanks, Bare, Unfinished
<1>2. IsFiniteSet({}) /\ Cardinality({}) = 0
  BY Zenon, FS_EmptySet
<1>3. HalfMade = 0
  BY <1>1, <1>2 DEF HalfMade
<1>4. HalfTypes
  BY <1>1, <1>2 DEF HalfTypes, Init
<1>5. HalfNow /\ ~Whole
  BY DEF HalfNow, Whole, Init
<1>6. HalfMade <= runs
  BY <1>3 DEF Init
<1> QED
  BY Zenon, <1>4, <1>5, <1>6 DEF HalfInv

(* After any number of runs, however each ended, no more than one thing    *)
(* per run is half made: createNew and Snapshot::create finish what they   *)
(* begin before the manager's lock is free for the next.                   *)
THEOREM HalfMadeBound == Spec => []OneHalfMadePerRun
<1>1. HalfInv => OneHalfMadePerRun
  BY Zenon DEF HalfInv, HalfMade, Blanks, Bare, Unfinished, OneHalfMadePerRun
<1> QED
  BY <1>1, InitIInv, NextIInv, InitHalf, NextHalf, PTL DEF Spec
=============================================================================
