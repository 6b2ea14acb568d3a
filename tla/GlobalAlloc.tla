---------------------------- MODULE GlobalAlloc -----------------------------
(***************************************************************************)
(* The global heap (ckpt_alloc.cpp, GlobalAlloc): the list of free regions *)
(* that supplies blocks to the allocators of the objects, the regions      *)
(* mapped from the kernel, and saving and loading the list.                *)
(*                                                                         *)
(* Addresses and sizes count blocks, from BaseAddress on. The header of a  *)
(* free region lies in the region itself, so that whoever is given the     *)
(* region overwrites it. A thread that allocates reads free_list before it *)
(* takes free_list_mutex; all the rest runs under the mutex and is a step. *)
(***************************************************************************)
EXTENDS Integers, Sequences, FiniteSets, FiniteSetsExt, SequencesExt

CONSTANTS
    Thread,
    MinPool,      \* blocks of MinPoolSize
    Request,      \* bound: sizes asked for
    MaxMapped,    \* bound: blocks mapped
    MaxRestart    \* bound: snapshots followed by a restart

(* The size field has 29 bits and MinPoolSize is 2^28.                     *)
SizeField == 2 * MinPool

(* Entries of 16 bytes in the ((MinPoolSize >> 21) << 1) bytes of          *)
(* snapshotSize().                                                         *)
SaveArea == (2 * MinPool) \div 16

Addr == 0 .. MaxMapped - 1
Null == -1
Outside == -2

VARIABLES
    hdr,         \* header in each block: size, prev, next
    free_list,
    mapped,      \* mapped_regions: <<address, size>>
    owned,       \* <<address, size>> handed out and not released
    head,        \* the head each allocating thread has read, or Outside alloc
    dangling,    \* a thread has searched from a region that has left the list
    truncated,   \* history: a size was stored that its field cannot hold
    faulted,     \* load has read a table of an object as a free region
    restarts

vars == <<hdr, free_list, mapped, owned, head, dangling, truncated, faulted, restarts>>

Init ==
    /\ hdr = [a \in Addr |-> [size |-> IF a = 0 THEN MinPool ELSE 0,
                              prev |-> Null, next |-> Null]]
    /\ free_list = 0
    /\ mapped = << <<0, MinPool>> >>
    /\ owned = {}
    /\ head = [t \in Thread |-> Outside]
    /\ dangling = FALSE
    /\ truncated = FALSE
    /\ faulted = FALSE
    /\ restarts = 0

-----------------------------------------------------------------------------
(* A heap: the headers and the list head.                                  *)

Heap == [hdr |-> hdr, first |-> free_list]
SetHeap(h) == hdr' = h.hdr /\ free_list' = h.first

(* The regions from a on, along the next pointers.                         *)
RECURSIVE ListFrom(_, _)
ListFrom(h, a) == IF a = Null THEN <<>> ELSE <<a>> \o ListFrom(h, h.hdr[a].next)

SetNext(h, a, n) == IF a = Null THEN [h EXCEPT !.first = n] ELSE [h EXCEPT !.hdr[a].next = n]

(* Removes a region from the list.                                         *)
Unlink(h, a) ==
    LET n == h.hdr[a].next
        g == SetNext(h, h.hdr[a].prev, n)
    IN IF n = Null THEN g ELSE [g EXCEPT !.hdr[n].prev = h.hdr[a].prev]

(* Mutant: the region that was first keeps its prev pointer.               *)
PushForward(h, a, size) ==
    [h EXCEPT !.hdr[a] = [size |-> size % SizeField, prev |-> Null, next |-> h.first],
              !.first = a]

(* Puts a region at the head of the list.                                  *)
Push(h, a, size) ==
    LET g == IF h.first = Null THEN h ELSE [h EXCEPT !.hdr[h.first].prev = a]
    IN [g EXCEPT !.hdr[a] = [size |-> size % SizeField, prev |-> Null, next |-> h.first],
                 !.first = a]

(* tryMergingRegions: the first region of the list that touches r is       *)
(* merged with it, the lower extended over the higher, until none does.    *)
RECURSIVE tryMergingRegions(_, _)
tryMergingRegions(h, r) ==
    LET list == ListFrom(h, h.first)
        near == {i \in DOMAIN list :
                    /\ list[i] # r
                    /\ \/ list[i] = r + h.hdr[r].size
                       \/ r = list[i] + h.hdr[list[i]].size}
        c == list[Min(near)]
        low == IF r < c THEN r ELSE c
        high == IF r < c THEN c ELSE r
    IN IF near = {} THEN h
       ELSE tryMergingRegions(
                Unlink([h EXCEPT !.hdr[low].size = (@ + h.hdr[high].size) % SizeField], high),
                low)

-----------------------------------------------------------------------------
(* alloc: head is read before the mutex is taken.                          *)
ReadHead(t) ==
    /\ head[t] = Outside
    /\ head' = [head EXCEPT ![t] = free_list]
    /\ UNCHANGED <<hdr, free_list, mapped, owned, dangling, truncated, faulted, restarts>>

(* First fit, from the head read before.                                   *)
Fit(t, size) ==
    LET fits[a \in Addr \cup {Null}] ==
            IF a = Null \/ hdr[a].size >= size THEN a ELSE fits[hdr[a].next]
    IN fits[head[t]]

(* The caller writes its chunk header, with its own size, and its data.    *)
HandOut(t, h, a, size) ==
    /\ SetHeap([h EXCEPT !.hdr = [b \in Addr |->
           IF b \in a .. a + size - 1
           THEN [size |-> IF b = a THEN size ELSE 0, prev |-> Null, next |-> Null]
           ELSE @[b]]])
    /\ owned' = owned \cup {<<a, size>>}
    /\ head' = [head EXCEPT ![t] = Outside]
    /\ dangling' = (head[t] \notin Range(ListFrom(Heap, free_list)) \cup {Null})
    /\ UNCHANGED <<faulted, restarts>>

(* The end of the region found; an exhausted region leaves the list.       *)
AllocFromPool(t, size) ==
    /\ head[t] # Outside /\ Fit(t, size) # Null
    /\ LET a == Fit(t, size)
           rest == hdr[a].size - size
           h == [Heap EXCEPT !.hdr[a].size = rest]
       IN HandOut(t, IF rest = 0 THEN Unlink(h, a) ELSE h, a + rest, size)
    /\ UNCHANGED <<mapped, truncated>>

(* MinPoolSize, doubled until the request fits.                            *)
AllocSize(size) == Min({n \in {MinPool * 2 ^ k : k \in 0 .. size} : n >= size})

(* A new region after the last one; its start becomes free.                *)
AllocFromNewRegion(t, size) ==
    LET last == mapped[Len(mapped)]
        a == last[1] + last[2]
        n == AllocSize(size)
    IN
    /\ head[t] # Outside /\ Fit(t, size) = Null
    /\ a + n <= MaxMapped
    /\ mapped' = Append(mapped, <<a, n>>)
    /\ HandOut(t, IF n > size THEN Push(Heap, a, n - size) ELSE Heap, a + n - size, size)
    /\ truncated' = (truncated \/ n - size >= SizeField)

(* The sum of the sizes on the free list.                                  *)
FreeTotal(h) == FoldSeq(LAMBDA a, sum : h.hdr[a].size + sum, 0, ListFrom(h, h.first))

(* release, by any thread.                                                 *)
Release(t, o) ==
    /\ head[t] = Outside
    /\ LET h == tryMergingRegions(Push(Heap, o[1], o[2]), o[1])
       IN /\ SetHeap(h)
          /\ truncated' = (truncated \/ FreeTotal(h) # FreeTotal(Heap) + o[2])
    /\ owned' = owned \ {o}
    /\ UNCHANGED <<mapped, head, dangling, faulted, restarts>>

(* allocatedBlocks.                                                        *)
allocatedBlocks == mapped[Len(mapped)][1] + mapped[Len(mapped)][2]

(* Mutant: only the first region's size is saved.                          *)
RestartFirstRegion ==
    LET list == ListFrom(Heap, free_list)
    IN
    /\ restarts < MaxRestart
    /\ mapped' = << <<0, mapped[1][2]>> >>
    /\ UNCHANGED <<hdr, free_list, owned, dangling, truncated, faulted>>
    /\ head' = [t \in Thread |-> Outside]
    /\ restarts' = restarts + 1

(* save at a snapshot, load after a restart: one region as large as all    *)
(* that were mapped, and the free list linked again. What lies beyond the  *)
(* save area is read back only if no object's table was saved over it.     *)
Restart ==
    LET list == ListFrom(Heap, free_list)
        at(i) == IF i \in DOMAIN list THEN list[i] ELSE Null
    IN
    /\ restarts < MaxRestart
    /\ mapped' = << <<0, FoldSet(LAMBDA i, sum : mapped[i][2] + sum, 0, DOMAIN mapped)>> >>
    /\ hdr' = [a \in Addr |->
                  IF \E i \in DOMAIN list : list[i] = a
                  THEN LET i == CHOOSE k \in DOMAIN list : list[k] = a
                       IN [size |-> hdr[a].size, prev |-> at(i - 1), next |-> at(i + 1)]
                  ELSE hdr[a]]
    /\ free_list' = at(1)
    /\ head' = [t \in Thread |-> Outside]
    /\ restarts' = restarts + 1
    /\ UNCHANGED <<owned, dangling, truncated, faulted>>

(* The first word of a table, a commit id, is taken for the address of a   *)
(* region and written to: the program does not come up.                    *)
RestartFaults ==
    /\ restarts < MaxRestart
    /\ Len(ListFrom(Heap, free_list)) > SaveArea
    /\ faulted' = TRUE
    /\ restarts' = restarts + 1
    /\ UNCHANGED <<hdr, free_list, mapped, owned, head, dangling, truncated>>

(* What follows a search of memory that is not free is not modelled.       *)
Next ==
    /\ ~dangling /\ ~faulted
    /\ \/ \E t \in Thread : ReadHead(t)
       \/ \E t \in Thread, size \in Request : AllocFromPool(t, size)
       \/ \E t \in Thread, size \in Request : AllocFromNewRegion(t, size)
       \/ \E t \in Thread, o \in owned : Release(t, o)
       \/ Restart
       \/ RestartFaults

Spec == Init /\ [][Next]_vars

-----------------------------------------------------------------------------
FreeList == ListFrom(Heap, free_list)
FreeBlocks(i) == FreeList[i] .. FreeList[i] + hdr[FreeList[i]].size - 1
OwnedBlocks(o) == o[1] .. o[1] + o[2] - 1

(* The prev pointers of the free list undo its next pointers: what removes *)
(* a region from the middle of the list. Only a search from a region that  *)
(* has left the list, its head being read without the mutex, can undo it.  *)
FreeListLinked ==
    ~dangling => \A i \in DOMAIN FreeList :
        hdr[FreeList[i]].prev = IF i = 1 THEN Null ELSE FreeList[i - 1]

(* No block is given twice, and all memory up to allocatedBlocks(), which  *)
(* a snapshot saves, is free or handed out, across mapping, merging,       *)
(* snapshot and restart and with a search from a head that is no longer    *)
(* the first but still listed. A block is lost only when a size was stored *)
(* that its 29 bits cannot hold, and then too none is given twice. The one *)
(* exception is a search from a region that has left the list.             *)
MemoryPartitioned ==
    ~dangling =>
        /\ ~truncated => UNION {FreeBlocks(i) : i \in DOMAIN FreeList}
                             \cup UNION {OwnedBlocks(o) : o \in owned} = 0 .. allocatedBlocks - 1
        /\ \A i, j \in DOMAIN FreeList : i # j => FreeBlocks(i) \cap FreeBlocks(j) = {}
        /\ \A i \in DOMAIN FreeList, o \in owned : FreeBlocks(i) \cap OwnedBlocks(o) = {}
        /\ \A o, p \in owned : o # p => OwnedBlocks(o) \cap OwnedBlocks(p) = {}

-----------------------------------------------------------------------------
(* Not true of the code. *)

(* The size of a free region is what it has: chunk_header_t, "chunk size   *)
(* in bytes"; no region of the list is empty.                              *)
SizesAreSizes ==
    \A i \in DOMAIN FreeList : hdr[FreeList[i]].size > 0

(* The free list fits in the space a snapshot reserves for it:             *)
(* snapshotSize, "Max number of free pages (address and size)".            *)
FreeListFitsSaveArea == Len(FreeList) <= SaveArea
=============================================================================
