------------------------------ MODULE FreeList ------------------------------
(***************************************************************************)
(* The allocator of one persistent object (ckpt_alloc.cpp, ObjectAlloc and *)
(* FreeList): chunks that tile the blocks it got from the global           *)
(* allocator, free chunks kept in buckets by size, the allocation bitmap   *)
(* of the pages, and what a snapshot and a restart leave of all that.      *)
(*                                                                         *)
(* Addresses and sizes count cache lines; a chunk size includes the chunk  *)
(* header. Each operation runs under the lock of the free list and is one  *)
(* step. The functions of the source are operators on the whole state, a   *)
(* record.                                                                 *)
(***************************************************************************)
EXTENDS Integers, Sequences, FiniteSets, FiniteSetsExt, SequencesExt

CONSTANTS
    Block,        \* numbers of the blocks the global allocator can supply
    BlockSize,    \* lines of a block
    PageSize,     \* lines of a page, BitmapGranularity
    BucketCaps,   \* largest chunk of each bucket but the last
    Size,         \* bound: chunk sizes the program asks for
    MaxRestart    \* bound: snapshots followed by a restart

ASSUME ScaleAssumption == BlockSize % PageSize = 0 /\ \A z \in Size : z \in 1 .. BlockSize

Addr == {b * BlockSize + i : b \in Block, i \in 0 .. BlockSize - 1}
Buckets == 1 .. Len(BucketCaps) + 1
NoHeader == [prev |-> 0, last |-> FALSE, used |-> FALSE, size |-> 0]
Null == -1

VARIABLES
    fl,        \* hdr: chunk header at each line, NoHeader where no chunk starts
               \* buckets: free chunks of each size class, head first
               \* bits: pages set in the allocation bitmap
               \* total: total_allocated; blocks: blocks got from GlobalAlloc
    restarts,
    gone       \* history: blocks that were wholly free at a restart

vars == <<fl, restarts, gone>>

Init ==
    /\ fl = [hdr |-> [a \in Addr |-> NoHeader], buckets |-> [i \in Buckets |-> <<>>],
             bits |-> {}, total |-> 0, blocks |-> {}]
    /\ restarts = 0
    /\ gone = {}

-----------------------------------------------------------------------------
(* Chunks and pages.                                                       *)

chunkOffset(a) == a % BlockSize
isLastChunkOfBlock(a, size) == chunkOffset(a) + size = BlockSize
isChunk(f, a) == a \in DOMAIN f.hdr /\ f.hdr[a].size > 0
isUsed(f, a) == a # Null /\ f.hdr[a].used
isFree(f, a) == a # Null /\ ~f.hdr[a].used

(* Mutant: offset zero taken for no previous chunk.                        *)
prevChunkNotFirst(f, a) ==
    IF f.hdr[a].prev = 0 THEN Null ELSE a - chunkOffset(a) + f.hdr[a].prev

prevChunk(f, a) == IF chunkOffset(a) = 0 THEN Null ELSE a - chunkOffset(a) + f.hdr[a].prev
nextChunk(f, a) == IF f.hdr[a].last THEN Null ELSE a + f.hdr[a].size

(* The pages a region of memory meets.                                     *)
PagesOf(a, size) == a \div PageSize .. (a + size - 1) \div PageSize

setBitmap(f, a, size) == [f EXCEPT !.bits = @ \cup PagesOf(a, size)]

findBucket(size) ==
    Min({i \in Buckets : i > Len(BucketCaps) \/ size <= BucketCaps[i]})

(* Writes prev_offset of the chunk at a, if there is one.                  *)
SetPrev(f, a, p) == IF a \in DOMAIN f.hdr THEN [f EXCEPT !.hdr[a].prev = chunkOffset(p)] ELSE f

removeChunkFromBuckets(f, a) ==
    [f EXCEPT !.buckets[findBucket(f.hdr[a].size)] = SelectSeq(@, LAMBDA x : x # a)]

addFreeChunk(f, a) ==
    [f EXCEPT !.buckets[findBucket(f.hdr[a].size)] = <<a>> \o @]

-----------------------------------------------------------------------------
(* Allocation.                                                             *)

(* The first bucket, and in it the first chunk, that is large enough.      *)
Fits(f, size, i) == {k \in DOMAIN f.buckets[i] : f.hdr[f.buckets[i][k]].size >= size}
FitBuckets(f, size) == {i \in Buckets : i >= findBucket(size) /\ Fits(f, size, i) # {}}

(* A chunk that stays in its bucket gives its end away.                    *)
TakeEnd(f, fc, size) ==
    LET a == fc + f.hdr[fc].size - size
        g == SetPrev(f, nextChunk(f, fc), a)
    IN [chunk |-> a,
        fl |-> [g EXCEPT !.hdr[a].prev = chunkOffset(fc),
                         !.hdr[fc].last = FALSE,
                         !.hdr[fc].size = @ - size]]

(* Any other is removed; what remains of it becomes a free chunk. Whether  *)
(* that is the last of its block is computed from its size before the size *)
(* has been written, and may come out either way.                          *)
TakeStart(f, fc, size, last) ==
    LET rest == fc + size
        g == removeChunkFromBuckets(f, fc)
        h == [g EXCEPT !.hdr[rest] = [prev |-> chunkOffset(fc), last |-> last, used |-> FALSE,
                                      size |-> f.hdr[fc].size - size]]
    IN [chunk |-> fc,
        fl |-> IF f.hdr[fc].size = size THEN g
               ELSE addFreeChunk(SetPrev(h, nextChunk(h, rest), rest), rest)]

(* Mutant: a remainder that belongs one bucket lower keeps its place.      *)
findBestMatchOffByOne(f, size, last) ==
    LET i == Min(FitBuckets(f, size))
        fc == f.buckets[i][Min(Fits(f, size, i))]
        remainder == f.hdr[fc].size - size
    IN IF i > 1 /\ remainder >= BucketCaps[i - 1]
       THEN TakeEnd(f, fc, size)
       ELSE TakeStart(f, fc, size, last)

findBestMatch(f, size, last) ==
    LET i == Min(FitBuckets(f, size))
        fc == f.buckets[i][Min(Fits(f, size, i))]
        remainder == f.hdr[fc].size - size
    IN IF i > 1 /\ remainder > BucketCaps[i - 1]
       THEN TakeEnd(f, fc, size)
       ELSE TakeStart(f, fc, size, last)

(* A block of the global allocator: the chunk and a free rest.             *)
NewBlock(f, b, size) ==
    LET a == b * BlockSize
        g == [f EXCEPT !.blocks = @ \cup {b}]
    IN [chunk |-> a,
        fl |-> IF size = BlockSize THEN g
               ELSE addFreeChunk([g EXCEPT !.hdr[a + size] =
                        [prev |-> 0, last |-> TRUE, used |-> FALSE, size |-> BlockSize - size]],
                        a + size)]

(* FreeList::alloc.                                                        *)
alloc(f, size, last, b) ==
    LET m == IF FitBuckets(f, size) = {} THEN NewBlock(f, b, size)
                                         ELSE findBestMatch(f, size, last)
        a == m.chunk
    IN [chunk |-> a,
        fl |-> [m.fl EXCEPT !.hdr[a] = [prev |-> @.prev, last |-> isLastChunkOfBlock(a, size),
                                        used |-> TRUE, size |-> size],
                            !.total = @ + size]]

-----------------------------------------------------------------------------
(* Deallocation.                                                           *)

(* The chunk at a is extended over the free chunk that follows it.         *)
Absorb(f, a, next) ==
    LET g == removeChunkFromBuckets(f, next)
    IN [g EXCEPT !.hdr[a].size = @ + f.hdr[next].size,
                 !.hdr[a].last = f.hdr[next].last,
                 !.hdr[next] = NoHeader]

(* Mutant: the chunk after a merged pair keeps its prev_offset.            *)
freeAndCoalesceNoPrev(f, a) ==
    LET prev == prevChunk(f, a)
        next == nextChunk(f, a)
        g == [f EXCEPT !.hdr[a].used = FALSE]
        start == IF isFree(f, prev) THEN prev ELSE a
        h == IF start = a THEN g
             ELSE LET r == removeChunkFromBuckets(g, prev)
                  IN [r EXCEPT !.hdr[prev].size = @ + f.hdr[a].size,
                               !.hdr[prev].last = f.hdr[a].last,
                               !.hdr[a] = NoHeader]
    IN [chunk |-> start, fl |-> IF isFree(f, next) THEN Absorb(h, start, next) ELSE h]

(* freeAndCoalesce: the previous chunk, then the next, if they are free.   *)
freeAndCoalesce(f, a) ==
    LET prev == prevChunk(f, a)
        next == nextChunk(f, a)
        g == [f EXCEPT !.hdr[a].used = FALSE]
        start == IF isFree(f, prev) THEN prev ELSE a
        h == IF start = a THEN g
             ELSE LET r == removeChunkFromBuckets(g, prev)
                  IN [r EXCEPT !.hdr[prev].size = @ + f.hdr[a].size,
                               !.hdr[prev].last = f.hdr[a].last,
                               !.hdr[a] = NoHeader]
        i == IF isFree(f, next) THEN Absorb(h, start, next) ELSE h
    IN [chunk |-> start,
        fl |-> IF i = g THEN g ELSE SetPrev(i, nextChunk(i, start), start)]

(* Mutant: the page that holds the end of the chunk is always cleared.     *)
FreedPagesRoundedUp(a, size, fc, fcSize) ==
    IF fcSize < PageSize THEN {}
    ELSE LET lb == a \div PageSize
             ub == (a + size) \div PageSize
         IN (IF lb * PageSize < fc THEN lb + 1 ELSE lb) .. ub

(* Mutant: so is the page that holds its start.                            *)
FreedPagesRoundedDown(a, size, fc, fcSize) ==
    IF fcSize < PageSize THEN {}
    ELSE LET ub == (a + size) \div PageSize
         IN a \div PageSize .. (IF (ub + 1) * PageSize <= fc + fcSize THEN ub ELSE ub - 1)

(* The pages cleared: those of the chunk that the free chunk covers.       *)
FreedPages(a, size, fc, fcSize) ==
    IF fcSize < PageSize THEN {}
    ELSE LET lb == a \div PageSize
             ub == (a + size) \div PageSize
         IN (IF lb * PageSize < fc THEN lb + 1 ELSE lb) ..
            (IF (ub + 1) * PageSize <= fc + fcSize THEN ub ELSE ub - 1)

(* FreeList::dealloc.                                                      *)
dealloc(f, a) ==
    LET size == f.hdr[a].size
        c == freeAndCoalesce(f, a)
        g == addFreeChunk(c.fl, c.chunk)
    IN [g EXCEPT !.total = @ - size,
                 !.bits = @ \ FreedPages(a, size, c.chunk, g.hdr[c.chunk].size)]

-----------------------------------------------------------------------------
(* FreeList::realloc: in place if the next chunk is free and large enough. *)

Extend(f, a, size) ==
    LET increase == size - f.hdr[a].size
        fc == nextChunk(f, a)
        rest == fc + increase
        g == removeChunkFromBuckets(f, fc)
        split == [g EXCEPT !.hdr[rest] = [f.hdr[fc] EXCEPT !.size = @ - increase],
                           !.hdr[fc] = NoHeader]
        whole == [g EXCEPT !.hdr[a].last = f.hdr[fc].last, !.hdr[fc] = NoHeader]
        h == IF f.hdr[fc].size > increase
             THEN addFreeChunk(SetPrev(split, nextChunk(f, fc), rest), rest)
             ELSE SetPrev(whole, nextChunk(f, fc), a)
    IN setBitmap([h EXCEPT !.hdr[a].size = size], a + f.hdr[a].size, increase)

Extensible(f, a, size) ==
    LET next == nextChunk(f, a)
    IN isFree(f, next) /\ f.hdr[next].size >= size - f.hdr[a].size

Move(f, a, size, last, b) ==
    LET m == alloc(f, size, last, b)
    IN setBitmap(dealloc(m.fl, a), m.chunk, size)

-----------------------------------------------------------------------------
(* A block the global allocator would supply, needed only if nothing fits. *)
Supply(f, size) ==
    IF FitBuckets(f, size) = {} THEN Block \ f.blocks ELSE {Min(Block)}

(* ObjectAlloc::alloc.                                                     *)
Alloc(size, last) ==
    /\ \E b \in Supply(fl, size) :
           LET m == alloc(fl, size, last, b) IN fl' = setBitmap(m.fl, m.chunk, size)
    /\ UNCHANGED <<restarts, gone>>

(* ObjectAlloc::dealloc, with its assertion on total_allocated.            *)
Dealloc(a) ==
    /\ isUsed(fl, a)
    /\ fl.total >= fl.hdr[a].size
    /\ fl' = dealloc(fl, a)
    /\ UNCHANGED <<restarts, gone>>

(* ObjectAlloc::realloc to a larger size; to a smaller one it does nothing.*)
Realloc(a, size, last) ==
    /\ isUsed(fl, a) /\ size > fl.hdr[a].size
    /\ \/ /\ Extensible(fl, a, size)
          /\ fl' = Extend(fl, a, size)
       \/ /\ ~Extensible(fl, a, size)
          /\ fl.total + size >= fl.hdr[a].size
          /\ \E b \in Supply(fl, size) : fl' = Move(fl, a, size, last, b)
    /\ UNCHANGED <<restarts, gone>>

(* What a snapshot keeps: pages that are set; of the others in a block     *)
(* that has some, the first line; of a block without any, nothing.         *)
Kept(f, a) ==
    \/ a \div PageSize \in f.bits
    \/ a % PageSize = 0
       /\ \E p \in f.bits : (p * PageSize) \div BlockSize = a \div BlockSize

(* A header that was not kept reads as zero, and the list ends there.      *)
Reloaded(f, s) ==
    LET lost == {k \in DOMAIN s : ~Kept(f, s[k])}
    IN IF lost = {} THEN s ELSE SubSeq(s, 1, Min(lost))

(* Snapshot, restart, load, then releaseFreeBlocks.                        *)
Restart ==
    /\ restarts < MaxRestart
    /\ LET hdr == [a \in Addr |-> IF Kept(fl, a) THEN fl.hdr[a] ELSE NoHeader]
           buckets == [i \in Buckets |-> Reloaded(fl, fl.buckets[i])]
           big == {a \in Addr : hdr[a].size = BlockSize /\ ~hdr[a].used}
       IN fl' = [fl EXCEPT !.hdr = [a \in Addr |-> IF a \in big THEN NoHeader ELSE hdr[a]],
                           !.buckets = [buckets EXCEPT ![Len(BucketCaps) + 1] =
                                            SelectSeq(@, LAMBDA a : a \notin big)],
                           !.blocks = @ \ {a \div BlockSize : a \in big}]
    /\ gone' = {b \in fl.blocks : LET h == fl.hdr[b * BlockSize] IN ~h.used /\ h.size = BlockSize}
    /\ restarts' = restarts + 1

Chunks == {a \in Addr : isChunk(fl, a)}
LastFlagsRight == \A a \in Chunks : fl.hdr[a].last <=> isLastChunkOfBlock(a, fl.hdr[a].size)

(* What follows a wrong flag, which dealloc copies onto merged chunks and  *)
(* which leads it to memory that is no chunk, or a bucket list cut at a    *)
(* lost header, is not modelled.                                           *)
Next ==
    /\ LastFlagsRight /\ gone = {}
    /\ \/ \E size \in Size, last \in BOOLEAN : Alloc(size, last)
       \/ \E a \in Addr : Dealloc(a)
       \/ \E a \in Addr, size \in Size, last \in BOOLEAN : Realloc(a, size, last)
       \/ Restart

Spec == Init /\ [][Next]_vars

-----------------------------------------------------------------------------
Cells(a) == a .. a + fl.hdr[a].size - 1

(* The chunks of a block tile it, and prev_offset says where each one's    *)
(* neighbour is: what dealloc and realloc walk by. The exceptions are a    *)
(* block wholly free at a restart, which loses its header, and a block     *)
(* with a wrong last flag.                                                 *)
ChunksTile ==
    LastFlagsRight =>
        /\ \A b \in fl.blocks \ gone : b * BlockSize \in Chunks
        /\ \A a \in Chunks :
               /\ \A c \in Cells(a) \ {a} : c \notin Chunks
               /\ ~isLastChunkOfBlock(a, fl.hdr[a].size) =>
                      /\ a + fl.hdr[a].size \in Chunks
                      /\ prevChunk(fl, a + fl.hdr[a].size) = a

(* Two free chunks are never neighbours: dealloc and realloc leave nothing *)
(* to coalesce.                                                            *)
FreeChunksCoalesced ==
    LastFlagsRight =>
        \A a \in Chunks : isFree(fl, a) /\ nextChunk(fl, a) # Null =>
            isUsed(fl, nextChunk(fl, a))

(* Each free chunk is in the bucket of its size, once, and nothing else is *)
(* in any bucket; a wholly free block lost at a restart stays in its       *)
(* bucket and takes what follows it there out of reach.                    *)
BucketsHoldFreeChunks ==
    LET FreeIn(i) == {a \in Chunks : isFree(fl, a) /\ findBucket(fl.hdr[a].size) = i}
        Held(i) == Range(fl.buckets[i]) \ {b * BlockSize : b \in gone}
    IN
    /\ \A i \in Buckets : IsInjective(fl.buckets[i]) /\ Held(i) \subseteq FreeIn(i)
    /\ \A i \in Buckets : gone = {} \/ i \in DOMAIN BucketCaps => Held(i) = FreeIn(i)

(* A page is set in the bitmap if and only if a used chunk meets it: what  *)
(* a snapshot has to copy, and no more.                                    *)
BitmapIsExact ==
    LastFlagsRight =>
        fl.bits = UNION {PagesOf(a, fl.hdr[a].size) : a \in {c \in Chunks : isUsed(fl, c)}}

(* A snapshot keeps the header of every free chunk, though it copies only  *)
(* the first line of a page that is not set; a wholly free block aside.    *)
FreeHeadersKept ==
    \A a \in Chunks : isFree(fl, a) /\ fl.hdr[a].size < BlockSize => Kept(fl, a)

-----------------------------------------------------------------------------
(* Not true of the code. *)

(* total_allocated covers every chunk that can be freed: dealloc,          *)
(* assert(total_allocated >= chunk_size).                                  *)
TotalCoversChunks ==
    \A a \in Chunks : isUsed(fl, a) => fl.total >= fl.hdr[a].size

(* Loading a snapshot gives wholly free blocks back: Snapshot::load, "Fix  *)
(* unused huge-pages (free blocks)". The free list has no chunk without a  *)
(* header and no block without chunks.                                     *)
FreeBlocksReleased ==
    restarts > 0 =>
        /\ \A b \in fl.blocks : b * BlockSize \in Chunks
        /\ \A i \in Buckets : Range(fl.buckets[i]) \subseteq Chunks
=============================================================================
