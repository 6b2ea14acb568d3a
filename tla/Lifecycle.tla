----------------------------- MODULE Lifecycle ------------------------------
(***************************************************************************)
(* The life of the persistent objects over runs of the program: the        *)
(* catalog (nv_catalog.cpp), creation, recovery and deletion of objects    *)
(* (nvm_manager.cpp, nv_object.cpp), the log and snapshot files and the    *)
(* flag of a clean shutdown, with a crash between any two of the steps.    *)
(*                                                                         *)
(* A step ends with the persist of what it has stored. What replay and the *)
(* fix of the redo logs do is the business of LogRecovery and NestedReplay.*)
(***************************************************************************)
EXTENDS Integers, FiniteSets

CONSTANTS
    Object, None,
    MaxObjects,  \* MaxPersistentObjects, the slots of the catalog
    MaxSnap,     \* bound: snapshot files
    MaxRun,      \* bound: runs of the program
    Segfault     \* whether a run may end in the fault handler's exit(1)

ASSUME LifecycleAssumption == None \notin Object /\ MaxObjects \in Nat /\ MaxSnap \in Nat

VARIABLES
    catalog,     \* the catalog file: "none", "blank" (no magic yet), "ready"
    entry,       \* objects[]: the object of each slot
    args,        \* slots with args_offset set
    count,       \* object_count
    clean,       \* CatalogFlagCleanShutdown
    log,         \* the log file of each object: "none", "blank", "ready"
    snap,        \* objects in the tables of each snapshot file
    saved,       \* snapshot files whose tables have been saved
    last,        \* lastSnapshotID()
    complete,    \* snapshots that create() has finished
    pc,          \* the run: "down", the steps of start up, "run", an assertion
    objects,     \* NVManager::objects
    assigned,    \* objects with the flag assigned
    creating, step,   \* the object being created, and how far
    deleting,    \* the object between its destructor and operator delete
    snapping,    \* how far Snapshot::create is
    open,        \* a transaction is open
    left,        \* the last run ended inside a transaction, not yet recovered
    runs

catalogFile == <<catalog, entry, args, count, clean>>
snapFiles == <<snap, saved, last, complete>>
memory == <<objects, assigned, creating, step, deleting, snapping, open>>
vars == <<catalogFile, log, snapFiles, pc, memory, left, runs>>

Slot == 1 .. MaxObjects
SnapID == 1 .. MaxSnap

Entries == {entry[i] : i \in 1 .. count}

(* The manager's lock is held by a creation and by a snapshot.             *)
Unlocked == creating = None /\ snapping = "no"

Init ==
    /\ catalog = "none" /\ entry = [i \in Slot |-> None] /\ args = {} /\ count = 0
    /\ clean = FALSE
    /\ log = [o \in Object |-> "none"]
    /\ snap = [i \in SnapID |-> {}] /\ saved = {} /\ last = 0 /\ complete = {}
    /\ pc = "down" /\ objects = {} /\ assigned = {} /\ creating = None /\ step = "no"
    /\ deleting = None /\ snapping = "no" /\ open = FALSE
    /\ left = FALSE /\ runs = 0

-----------------------------------------------------------------------------
(* Start: the constructors of NVCatalog and NVManager.                     *)

CreateCatalog ==
    /\ pc = "down" /\ runs < MaxRun /\ catalog = "none"
    /\ catalog' = "blank" /\ pc' = "magic" /\ runs' = runs + 1
    /\ UNCHANGED <<entry, args, count, clean, log, snapFiles, memory, left>>

WriteMagic ==
    /\ pc = "magic"
    /\ catalog' = "ready" /\ pc' = "run"
    /\ UNCHANGED <<entry, args, count, clean, log, snapFiles, memory, left, runs>>

(* With no object in the catalog the constructor returns here.             *)
OpenCatalog ==
    /\ pc = "down" /\ runs < MaxRun /\ catalog # "none"
    /\ runs' = runs + 1
    /\ pc' = IF catalog = "blank" THEN "bad magic" ELSE IF count = 0 THEN "run" ELSE "load"
    /\ UNCHANGED <<catalogFile, log, snapFiles, memory, left>>

(* A file without tables has a pool of size 0, which cannot be mapped.     *)
LoadSnapshot ==
    /\ pc = "load"
    /\ objects' = IF last > 0 THEN snap[last] ELSE {}
    /\ pc' = IF last = 0 \/ last \in saved THEN "recover" ELSE "no pool"
    /\ UNCHANGED <<catalogFile, log, snapFiles, assigned, creating, step, deleting, snapping,
                   open, left, runs>>

(* Mutant: with a snapshot, only its objects are recovered.                *)
RecoverObjectsOfSnapshot ==
    /\ pc = "recover"
    /\ objects' = IF last > 0 THEN objects ELSE Entries
    /\ log' = [o \in Object |-> IF o \in objects' \ objects THEN "ready" ELSE log[o]]
    /\ left' = FALSE /\ pc' = "flag"
    /\ UNCHANGED <<catalogFile, snapFiles, assigned, creating, step, deleting, snapping, open, runs>>

(* recoverObject for each entry (the factory's constructor opens or makes  *)
(* the log), the fix of unclean logs, and the recovery threads.            *)
RecoverObjects ==
    /\ pc = "recover"
    /\ objects' = objects \cup Entries
    /\ log' = [o \in Object |-> IF o \in Entries \ objects THEN "ready" ELSE log[o]]
    /\ left' = FALSE /\ pc' = "flag"
    /\ UNCHANGED <<catalogFile, snapFiles, assigned, creating, step, deleting, snapping, open, runs>>

ClearFlag ==
    /\ pc = "flag"
    /\ clean' = FALSE /\ pc' = "run"
    /\ UNCHANGED <<catalog, entry, args, count, log, snapFiles, memory, left, runs>>

-----------------------------------------------------------------------------
(* The program asks for an object, under the manager's lock.               *)

FindRecovered(o) ==
    /\ pc = "run" /\ Unlocked /\ o \in objects \ assigned
    /\ assigned' = assigned \cup {o}
    /\ UNCHANGED <<catalogFile, log, snapFiles, pc, objects, creating, step, deleting, snapping,
                   open, left, runs>>

(* PersistentObject::constructor opens the log that exists or makes one.   *)
Construct(o) ==
    /\ pc = "run" /\ Unlocked /\ o \notin objects
    /\ creating' = o
    /\ CASE log[o] = "ready" -> step' = "entry" /\ UNCHANGED <<log, pc>>
         [] log[o] = "blank" -> step' = "entry" /\ pc' = "bad log" /\ UNCHANGED log
         [] log[o] = "none"  -> step' = "header" /\ log' = [log EXCEPT ![o] = "blank"] /\ UNCHANGED pc
    /\ UNCHANGED <<catalogFile, snapFiles, objects, assigned, deleting, snapping, open, left, runs>>

LogHeader ==
    /\ pc = "run" /\ step = "header"
    /\ log' = [log EXCEPT ![creating] = "ready"] /\ step' = "entry"
    /\ UNCHANGED <<catalogFile, snapFiles, pc, objects, assigned, creating, deleting, snapping,
                   open, left, runs>>

(* createNew: NVCatalog::add in two steps, addConstructorArgs, the map.    *)
AddEntry ==
    /\ pc = "run" /\ step = "entry" /\ count < MaxObjects
    /\ entry' = [entry EXCEPT ![count + 1] = creating] /\ step' = "count"
    /\ UNCHANGED <<catalog, args, count, clean, log, snapFiles, pc, objects, assigned, creating,
                   deleting, snapping, open, left, runs>>

(* Mutant: the number of objects is left to the catalog's destructor.      *)
CountEntryDeferred ==
    /\ pc = "run" /\ step = "count"
    /\ step' = "args"
    /\ UNCHANGED <<catalogFile, log, snapFiles, pc, objects, assigned, creating, deleting,
                   snapping, open, left, runs>>

CountEntry ==
    /\ pc = "run" /\ step = "count"
    /\ count' = count + 1 /\ step' = "args"
    /\ UNCHANGED <<catalog, entry, args, clean, log, snapFiles, pc, objects, assigned, creating,
                   deleting, snapping, open, left, runs>>

AddConstructorArgs ==
    /\ pc = "run" /\ step = "args"
    /\ args' = args \cup {count} /\ step' = "insert"
    /\ UNCHANGED <<catalog, entry, count, clean, log, snapFiles, pc, objects, assigned, creating,
                   deleting, snapping, open, left, runs>>

InsertObject ==
    /\ pc = "run" /\ step = "insert"
    /\ objects' = objects \cup {creating} /\ assigned' = assigned \cup {creating}
    /\ creating' = None /\ step' = "no"
    /\ UNCHANGED <<catalogFile, log, snapFiles, pc, deleting, snapping, open, left, runs>>

(* delete: the destructor, then operator delete; each calls destroy.       *)
Destructor(o) ==
    /\ pc = "run" /\ Unlocked /\ deleting = None /\ o \in assigned
    /\ assigned' = assigned \ {o} /\ deleting' = o
    /\ UNCHANGED <<catalogFile, log, snapFiles, pc, objects, creating, step, snapping, open, left, runs>>

OperatorDelete ==
    /\ pc = "run" /\ Unlocked /\ deleting # None
    /\ pc' = IF deleting \in assigned THEN pc ELSE "not assigned"
    /\ assigned' = assigned \ {deleting} /\ deleting' = None
    /\ UNCHANGED <<catalogFile, log, snapFiles, objects, creating, step, snapping, open, left, runs>>

(* The outermost transaction of the program's one worker.                  *)
OpenTransaction ==
    /\ pc = "run" /\ ~open /\ assigned # {}
    /\ open' = TRUE
    /\ UNCHANGED <<catalogFile, log, snapFiles, pc, objects, assigned, creating, step, deleting,
                   snapping, left, runs>>

CloseTransaction ==
    /\ pc = "run" /\ open
    /\ open' = FALSE
    /\ UNCHANGED <<catalogFile, log, snapFiles, pc, objects, assigned, creating, step, deleting,
                   snapping, left, runs>>

-----------------------------------------------------------------------------
(* Snapshot::create, under the manager's lock.                             *)

(* Mutant: the manager's lock is taken only to save the tables.            *)
PrepareSnapshotUnlocked ==
    /\ pc = "run" /\ snapping = "no" /\ last < MaxSnap
    /\ last' = last + 1 /\ snapping' = "prepared"
    /\ UNCHANGED <<catalogFile, log, snap, saved, complete, pc, objects, assigned, creating, step,
                   deleting, open, left, runs>>

(* The file exists from here on, under the next id.                        *)
PrepareSnapshot ==
    /\ pc = "run" /\ Unlocked /\ last < MaxSnap
    /\ last' = last + 1 /\ snapping' = "prepared"
    /\ UNCHANGED <<catalogFile, log, snap, saved, complete, pc, objects, assigned, creating, step,
                   deleting, open, left, runs>>

SaveTables ==
    /\ pc = "run" /\ snapping = "prepared" /\ ~open
    /\ snap' = [snap EXCEPT ![last] = objects] /\ saved' = saved \cup {last}
    /\ snapping' = "saved"
    /\ UNCHANGED <<catalogFile, log, last, complete, pc, objects, assigned, creating, step,
                   deleting, open, left, runs>>

FinishSnapshot ==
    /\ pc = "run" /\ snapping = "saved"
    /\ complete' = complete \cup {last} /\ snapping' = "no"
    /\ UNCHANGED <<catalogFile, log, snap, saved, last, pc, objects, assigned, creating, step,
                   deleting, open, left, runs>>

-----------------------------------------------------------------------------
(* The end of a run.                                                       *)

End(flag) ==
    /\ clean' = flag
    /\ pc' = "down" /\ left' = (left \/ open)
    /\ objects' = {} /\ assigned' = {} /\ creating' = None /\ step' = "no" /\ deleting' = None
    /\ snapping' = "no" /\ open' = FALSE
    /\ UNCHANGED <<catalog, entry, args, count, log, snapFiles, runs>>

(* The program returns; ~NVManager sets the flag.                          *)
Exit == pc = "run" /\ Unlocked /\ deleting = None /\ ~open /\ End(TRUE)

(* exit(1) in the signal handler runs ~NVManager too.                      *)
FaultExit == Segfault /\ pc = "run" /\ snapping = "no" /\ End(TRUE)

(* A failed assertion is a crash as well.                                  *)
Crash == pc # "down" /\ End(clean)

Next ==
    \/ CreateCatalog \/ WriteMagic \/ OpenCatalog
    \/ LoadSnapshot \/ RecoverObjects \/ ClearFlag
    \/ \E o \in Object : FindRecovered(o)
    \/ \E o \in Object : Construct(o)
    \/ LogHeader \/ AddEntry \/ CountEntry \/ AddConstructorArgs \/ InsertObject
    \/ \E o \in Object : Destructor(o)
    \/ OperatorDelete
    \/ OpenTransaction \/ CloseTransaction
    \/ PrepareSnapshot \/ SaveTables \/ FinishSnapshot
    \/ Exit \/ FaultExit \/ Crash

Spec == Init /\ [][Next]_vars

-----------------------------------------------------------------------------
(* "The catalog contains the superset of objects in any snapshot", after   *)
(* any number of crashes: the constructor of NVManager relies on it.       *)
CatalogIsSuperset == \A i \in SnapID : snap[i] \subseteq Entries

(* Between creations, the objects of a running program are those of the    *)
(* catalog, each entered once, whichever step of a creation a crash hit.   *)
ObjectsAreEntries ==
    pc = "run" /\ creating = None =>
        /\ objects = Entries
        /\ \A i, j \in 1 .. count : entry[i] = entry[j] => i = j

(* An object in the catalog has its log: recoverObject opens the log of an *)
(* object from a snapshot without making one, and accepts NULL.            *)
EntriesHaveLogs == \A o \in Entries : log[o] = "ready"

(* However it ends, a run leaves at most one thing half made: a log        *)
(* without header, an entry without arguments or an unfinished snapshot.   *)
(* createNew and Snapshot::create hold the manager's lock throughout.      *)
OneHalfMadePerRun ==
    Cardinality({o \in Object : log[o] = "blank"}) + Cardinality((1 .. count) \ args)
        + Cardinality((1 .. last) \ complete) <= runs

-----------------------------------------------------------------------------
(* Not true of the code. *)

(* An object is recovered with its constructor arguments: PersistentObject,*)
(* "NVM Manager will pass these attributes to NVCatalog, which will then   *)
(* persist them on NVM".                                                   *)
ArgumentsPersisted ==
    pc = "recover" => \A i \in 1 .. count : entry[i] \in objects \/ i \in args

(* Recovery after a run that ended inside a transaction takes it for       *)
(* unclean: "If an unclean shutdown is detected, the NVM manager will      *)
(* initiate a process to fix the log".                                     *)
UncleanIsDetected == pc = "recover" /\ left => ~clean

(* A snapshot file can be loaded: GlobalAlloc::load,                       *)
(* assert(newBlock(&region, BaseAddress, pool_size)).                      *)
SnapshotLoads == pc # "no pool"

(* The snapshot loaded is one that was finished: "Load the latest snapshot *)
(* (if any)".                                                              *)
LoadedIsComplete == pc = "load" /\ last > 0 => last \in complete

(* A catalog that exists can be opened: NVCatalog,                         *)
(* assert(catalog->magic == CatalogMagic).                                 *)
CatalogOpens == pc # "bad magic"

(* A log that exists can be opened: Savitar_log_open,                      *)
(* assert(log == NULL || log->size == mapped_len).                         *)
LogOpens == pc # "bad log"

(* destroy is called for an assigned object: NVManager::destroy,           *)
(* assert(object->assigned).                                               *)
DestroyedIsAssigned == pc # "not assigned"
=============================================================================
