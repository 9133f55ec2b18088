------------------------------- MODULE Malloc -------------------------------
(***************************************************************************)
(* The allocator of mm.c on the simulated heap of memlib.c, to the word:   *)
(* headers, footers, the links of the segregated lists and the payloads    *)
(* share one memory, as in the code.  Words are 8 bytes (SIZE_T_SIZE), and *)
(* sizes of blocks and payloads are counted in words; requests in bytes.   *)
(* A block is named by the address of its header, and its payload is the   *)
(* next word.  Calls come one at a time from a client that respects its    *)
(* blocks, like mdriver.c.                                                 *)
(***************************************************************************)
EXTENDS Integers, Sequences, FiniteSets

CONSTANTS
    Ids, None,      \* the client's names for its blocks
    Sizes,          \* the sizes it asks for, in bytes
    HeapWords,      \* MAX_HEAP
    PageWords,      \* mem_pagesize()
    TailWords       \* payloads larger than this are placed at the tail

(* Requests are far from the range of size_t; the heap holds what mm_init  *)
(* places in it, and a page the smallest payload.                          *)
ASSUME SizesAssumption ==
    /\ Sizes \subseteq 0 .. 2 ^ 29 /\ TailWords \in Nat
    /\ HeapWords \in Nat /\ HeapWords >= 3
    /\ PageWords \in Nat /\ PageWords >= 2 /\ None \notin [first : Nat, words : Nat]

VARIABLES
    mem,        \* the words from mem_heap_lo() to mem_heap_hi()
    roots,      \* segrelist_root_pointers
    block,      \* block[id]: the client's block, [first, words]
    fault       \* what the code did that has no meaning

vars == <<mem, roots, block, fault>>

NULL == 0
MinPayload == 2
MinBlock == 3

(* What a word holds.  Data(id, k) is what the client writes in the k-th   *)
(* word of its block.                                                      *)
Header(size, prev, alloc) ==
    [kind |-> "header", size |-> size, prev |-> prev, alloc |-> alloc]
Links(next, prev) == [kind |-> "links", next |-> next, prev |-> prev]
Data(id, k) == [kind |-> "data", id |-> id, k |-> k]
Junk == [kind |-> "junk"]

Smaller(a, b) == IF a < b THEN a ELSE b

(* ALIGN, in words.                                                        *)
Align(size) == (size + 7) \div 8

-----------------------------------------------------------------------------
(* The heap as the helpers see and change it: h.mem and h.roots.  Words    *)
(* are read as headers and links only where they are (WellFormed).         *)
HeaderAt(h, p) ==
    IF p \in DOMAIN h.mem /\ h.mem[p].kind = "header" THEN h.mem[p]
    ELSE Header(0, 1, 1)
LinksAt(h, p) ==
    IF h.mem[p + 1].kind = "links" THEN h.mem[p + 1] ELSE Links(NULL, NULL)

Size(h, p) == HeaderAt(h, p).size
Alloc(h, p) == HeaderAt(h, p).alloc
PrevAlloc(h, p) == HeaderAt(h, p).prev
Following(h, p) == p + Size(h, p)           \* NEXT_NEAR_BLKP
Preceding(h, p) == p - Size(h, p - 1)       \* PREV_NEAR_BLKP

WriteHeader(h, p, size, prev, alloc) ==
    [h EXCEPT !.mem[p] = Header(size, prev, alloc)]
ChangeSize(h, p, size) == WriteHeader(h, p, size, PrevAlloc(h, p), Alloc(h, p))
ChangeAlloc(h, p, alloc) == WriteHeader(h, p, Size(h, p), PrevAlloc(h, p), alloc)
ChangePrevAlloc(h, p, prev) == WriteHeader(h, p, Size(h, p), prev, Alloc(h, p))
WriteLinks(h, p, next, prev) == [h EXCEPT !.mem[p + 1] = Links(next, prev)]
ChangeNext(h, p, next) == WriteLinks(h, p, next, LinksAt(h, p).prev)
ChangePrev(h, p, prev) == WriteLinks(h, p, LinksAt(h, p).next, prev)

PlaceAlloc(h, p, size, prev) ==
    ChangePrevAlloc(WriteHeader(h, p, size, prev, 1), p + size, 1)

(* place_free: header, footer, and the bit in the next header, which a     *)
(* mutant forgets.                                                         *)
PlaceFreeQuiet(h, p, size, prev) ==
    WriteHeader(WriteHeader(h, p, size, prev, 0), p + size - 1, size, prev, 0)
PlaceFree(h, p, size, prev) ==
    ChangePrevAlloc(
        WriteHeader(WriteHeader(h, p, size, prev, 0), p + size - 1, size, prev, 0),
        p + size, 0)

(* The lists: payloads up to 2, 4, 8, ... words, up to a page, and larger; *)
(* get_segrelist_level_by_size counts the shifts, to the last list at most.*)
Levels == 1 + Cardinality({k \in 0 .. 29 : MinPayload * 2 ^ k <= PageWords})
Level(payload) ==
    Cardinality({k \in 0 .. Levels - 2 : 2 ^ k <= (payload - 1) \div MinPayload})

(* The nodes that a loop visits when it starts at one and goes on with next *)
(* while there is a next of what it came to, for so many rounds at most.   *)
Trail(next, start, rounds) ==
    LET from[n \in 0 .. rounds] == [p \in DOMAIN next |->
            IF n = 0 \/ next[p] \notin DOMAIN next THEN <<p>>
            ELSE <<p>> \o from[n - 1][next[p]]]
    IN  IF start \in DOMAIN next THEN from[rounds][start] ELSE << >>

(* The blocks that a loop along a list visits.                             *)
Nodes(h, l) ==
    Trail([p \in 1 .. Len(h.mem) - 1 |-> LinksAt(h, p).next], h.roots[l], Len(h.mem))

FirstIn(S) == CHOOSE i \in S : \A k \in S : i <= k

(* insert_block_to_segrelist: before the first block at a higher address,  *)
(* or at the tail.                                                         *)
Insert(h, p, l) ==
    LET list == Nodes(h, l)
        higher == {i \in DOMAIN list : list[i] > p}
        target == list[FirstIn(higher)]
        last == list[Len(list)]
        before == LinksAt(h, target).prev
        linked == ChangePrev(WriteLinks(h, p, target, before), target, p)
    IN  CASE h.roots[l] = NULL ->
                [WriteLinks(h, p, NULL, NULL) EXCEPT !.roots[l] = p]
          [] h.roots[l] # NULL /\ higher = {} ->
                ChangeNext(WriteLinks(h, p, NULL, last), last, p)
          [] h.roots[l] # NULL /\ higher # {} ->
                IF before # NULL THEN ChangeNext(linked, before, p)
                ELSE [linked EXCEPT !.roots[l] = p]

(* remove_block_from_segrelist: the block is unlinked, from both sides but *)
(* for a mutant, and marked allocated.                                     *)
LinkBackNever(h, n, b) == h
LinkBack(h, n, b) == IF n # NULL THEN ChangePrev(h, n, b) ELSE h

Remove(h, p, l) ==
    LET n == LinksAt(h, p).next
        b == LinksAt(h, p).prev
        h1 == IF h.roots[l] = p THEN [h EXCEPT !.roots[l] = n] ELSE h
        h2 == IF b # NULL THEN ChangeNext(h1, b, n) ELSE h1
        h3 == LinkBack(h2, n, b)
        h4 == ChangeAlloc(WriteLinks(h3, p, NULL, NULL), p, 1)
    IN  IF Alloc(h, p) = 1 THEN h
        ELSE ChangePrevAlloc(h4, Following(h4, p), 1)

(* coalesce: p is joined with its free neighbours, and listed.             *)
Coalesce(h, p) ==
    LET pfree == PrevAlloc(h, p) = 0
        n == Following(h, p)
        nfree == Alloc(h, n) = 0
        start == IF pfree THEN Preceding(h, p) ELSE p
        size == Size(h, p) + (IF pfree THEN Size(h, start) ELSE 0)
                           + (IF nfree THEN Size(h, n) ELSE 0)
        h1 == IF pfree THEN Remove(h, start, Level(Size(h, start) - 1)) ELSE h
        h2 == IF nfree THEN Remove(h1, n, Level(Size(h, n) - 1)) ELSE h1
        joined == PlaceFree(h2, start, size,
                            IF pfree THEN PrevAlloc(h2, start) ELSE 1)
    IN  IF ~pfree /\ ~nfree
        THEN Insert(ChangePrevAlloc(h, n, 0), p, Level(Size(h, p) - 1))
        ELSE Insert(joined, start, Level(size - 1))

(* split_block: what the payload does not need becomes a free block, when  *)
(* it is large enough for one; a result is a heap and a block.             *)
Split(h, p, payload) ==
    LET total == Size(h, p)
        need == payload + 1
        free == total - need
        tail == PlaceFree(PlaceAlloc(h, p + free, need, 0), p, free, PrevAlloc(h, p))
        front == PlaceFree(ChangeSize(h, p, need), p + need, free, 1)
    IN  IF free < MinBlock THEN [h |-> h, p |-> p]
        ELSE IF payload > TailWords
        THEN [h |-> Coalesce(tail, p), p |-> p + free]
        ELSE [h |-> Coalesce(front, p + need), p |-> p]

(* find_fit: the first block that is large enough, in the first list from  *)
(* the payload's that has one; a mutant looks in that list only.           *)
ListsToSearchOne(payload) == {Level(payload)}
ListsToSearch(payload) == Level(payload) .. Levels - 1

(* The block for a payload; a mutant forgets the header.                   *)
RequiredPayload(payload) == payload
Required(payload) == payload + 1

Fits(h, l, payload) ==
    LET list == Nodes(h, l) IN
    {i \in DOMAIN list : Size(h, list[i]) >= Required(payload)}

FindFit(h, payload) ==
    LET lists == {l \in ListsToSearch(payload) : Fits(h, l, payload) # {}}
        l == FirstIn(lists)
        p == Nodes(h, l)[FirstIn(Fits(h, l, payload))]
    IN  IF lists = {} THEN [h |-> h, p |-> NULL]
        ELSE [h |-> Remove(h, p, l), p |-> p]

(* mem_sbrk: the heap grows up to its limit, which a mutant does not test. *)
SbrkAllowsAll(h, n) == n > 0
SbrkAllows(h, n) == Len(h.mem) + n <= HeapWords

(* extend_heap: the epilogue moves to the new end, and where it was a      *)
(* block begins that is split.                                             *)
Extend(h, payload) ==
    LET words == IF Level(payload) = Levels - 1
                 THEN ((payload + PageWords - 1) \div PageWords) * PageWords + 1
                 ELSE PageWords + 1
        p == Len(h.mem)
        grown == [h EXCEPT !.mem = @ \o [i \in 1 .. words |-> Junk]]
        moved == [grown EXCEPT !.mem[p + words] = h.mem[p]]
    IN  IF ~SbrkAllows(h, words) THEN [h |-> h, p |-> NULL]
        ELSE Split(PlaceAlloc(moved, p, words, PrevAlloc(h, p)), p, payload)

(* mm_malloc, of a size that is not 0.                                     *)
MmMalloc(h, size) ==
    LET payload == IF size < 8 * MinPayload THEN MinPayload ELSE Align(size)
        fit == FindFit(h, payload)
    IN  IF fit.p # NULL THEN Split(fit.h, fit.p, payload) ELSE Extend(h, payload)

(* mm_free                                                                 *)
MmFree(h, p) == Coalesce(PlaceFree(h, p, Size(h, p), PrevAlloc(h, p)), p)

(* memmove between payloads, and the client writing its block from the     *)
(* k-th word on.                                                           *)
Move(h, to, from, n) ==
    [h EXCEPT !.mem = [a \in DOMAIN h.mem |->
        IF a \in to .. to + n - 1 THEN h.mem[from + (a - to)] ELSE h.mem[a]]]

Fill(h, id, b, k) ==
    [h EXCEPT !.mem = [a \in DOMAIN h.mem |->
        IF a \in b.first + k - 1 .. b.first + b.words - 1
        THEN Data(id, a - b.first + 1) ELSE h.mem[a]]]

-----------------------------------------------------------------------------
heap == [mem |-> mem, roots |-> roots]

(* The blocks of h from the prologue to before the epilogue.               *)
BlocksOf(h) ==
    Trail([p \in {q \in 1 .. Len(h.mem) : Size(h, q) > 0} |-> Following(h, p)],
          1, Len(h.mem))

(* The checkers of mm.c, TRUE for an error: a block of a list that is       *)
(* allocated or outside the heap, ...                                      *)
CheckTraverseFreeLists(h) ==
    \E l \in DOMAIN h.roots :
        LET list == Nodes(h, l) IN
        \E i \in DOMAIN list : Alloc(h, list[i]) = 1 \/ list[i] > Len(h.mem)

(* ... two free blocks side by side or one larger than the heap, ...       *)
CheckTraverseMemHeap(h) ==
    LET bs == BlocksOf(h) IN
    \E i \in DOMAIN bs :
        \/ Alloc(h, bs[i]) = 0 /\ Alloc(h, Following(h, bs[i])) = 0
        \/ Size(h, bs[i]) > Len(h.mem)

MmCheck(h) == CheckTraverseFreeLists(h) \/ CheckTraverseMemHeap(h)

(* ... and a free block that is not in the list of its size.               *)
CheckEveryFreeBlockInList(h) ==
    LET bs == BlocksOf(h) IN
    \E i \in DOMAIN bs :
        LET list == Nodes(h, Level(Size(h, bs[i]) - 1)) IN
        Alloc(h, bs[i]) = 0 /\ \A k \in DOMAIN list : list[k] # bs[i]

(* The call returns with heap h, and the client has the blocks bs.  What   *)
(* is left in words that are neither tags of a block, nor links or footer  *)
(* of a free one, nor the client's data is junk: the code does not clear   *)
(* it, and never reads it.                                                 *)
Read(h, bs) ==
    LET bl == BlocksOf(h)
        all == {bl[i] : i \in DOMAIN bl}
        free == {p \in all : Alloc(h, p) = 0}
    IN  all \cup {1, 2, Len(h.mem)} \cup {p + 1 : p \in free}
            \cup {Following(h, p) - 1 : p \in free}
            \cup {a \in DOMAIN h.mem :
                    \E id \in {i \in Ids : bs[i] # None} :
                        a \in bs[id].first .. bs[id].first + bs[id].words - 1}

Becomes(h, bs) ==
    LET read == Read(h, bs) IN
    /\ mem' = [a \in DOMAIN h.mem |-> IF a \in read THEN h.mem[a] ELSE Junk]
    /\ roots' = h.roots
    /\ block' = bs

(* mm_init: prologue and epilogue.                                         *)
Init ==
    /\ mem = <<Header(2, 1, 1), Header(2, 1, 1), Header(0, 1, 1)>>
    /\ roots = [l \in 0 .. Levels - 1 |-> NULL]
    /\ block = [id \in Ids |-> None]
    /\ fault = "none"

Words(p, size) == [first |-> p + 1, words |-> Align(size)]

(* mm_malloc; the client fills the block, and goes on without one when     *)
(* there is none.                                                          *)
Malloc(id, size) ==
    LET r == MmMalloc(heap, size)
        b == Words(r.p, size) IN
    /\ fault = "none" /\ block[id] = None
    /\ IF size = 0 \/ r.p = NULL THEN UNCHANGED <<mem, roots, block>>
       ELSE Becomes(Fill(r.h, id, b, 1), [block EXCEPT ![id] = b])
    /\ UNCHANGED fault

(* mm_free, and mm_realloc to 0.                                           *)
Free(id) ==
    /\ fault = "none" /\ block[id] # None
    /\ Becomes(MmFree(heap, block[id].first - 1), [block EXCEPT ![id] = None])
    /\ UNCHANGED fault

(* mm_realloc.  p is the block, Need what it must become, which is less    *)
(* than MIN_BLOCK_SIZE for the smallest requests; the client fills what it *)
(* did not have before.                                                    *)
Need(size) == Align(size) + 1

Resized(id, h, p, size) ==
    LET b == Words(p, size) IN
    Becomes(Fill(h, id, b, block[id].words + 1), [block EXCEPT ![id] = b])

(* What realloc copies: a mutant takes off a footer, too.                  *)
CopyWordsFooter(p, size) == Smaller(Align(size), Size(heap, p) - 2)
CopyWords(p, size) == Smaller(Align(size), Size(heap, p) - 1)

Reallocs(id, size) == fault = "none" /\ block[id] # None /\ size > 0

(* Shrinking: the tail is made a free block, and coalesce is given its     *)
(* payload for its header: it takes the client's data for sizes and bits.  *)
ReallocShrink(id, size) ==
    LET p == block[id].first - 1
        rest == Size(heap, p) - Need(size) IN
    /\ Reallocs(id, size) /\ rest >= 0
    /\ IF rest >= MinBlock
       THEN /\ Resized(id, PlaceFree(ChangeSize(heap, p, Need(size)),
                                     p + Need(size), rest, 1), p, size)
            /\ fault' = "data coalesced"
       ELSE Resized(id, heap, p, size) /\ UNCHANGED fault

(* Extending into a free block that follows...                             *)
Extensible(p, size) ==
    LET n == Following(heap, p) IN
    Alloc(heap, n) = 0 /\ Size(heap, p) + Size(heap, n) >= Need(size)

ReallocExtend(id, size) ==
    LET p == block[id].first - 1
        n == Following(heap, p)
        total == Size(heap, p) + Size(heap, n)
        rest == total - Need(size)
        prev == PrevAlloc(heap, p)
        h == Remove(heap, n, Level(Size(heap, n) - 1))
        tail == PlaceFree(
                    PlaceAlloc(Move(h, p + rest + 1, p + 1, CopyWords(p, size)),
                               p + rest, Need(size), 0),
                    p, rest, prev)
        front == PlaceFree(PlaceAlloc(h, p, Need(size), prev), p + Need(size), rest, 1)
    IN
    /\ Reallocs(id, size) /\ Size(heap, p) < Need(size) /\ Extensible(p, size)
    /\ IF rest < MinBlock
       THEN Resized(id, PlaceAlloc(h, p, total, prev), p, size)
       ELSE IF size > 8 * TailWords
       THEN Resized(id, Coalesce(tail, p), p + rest, size)
       ELSE Resized(id, Coalesce(front, p + Need(size)), p, size)
    /\ UNCHANGED fault

(* ... or moving; mm_malloc's NULL is written to.  A mutant forgets to     *)
(* free.                                                                   *)
FreeOldNever(h, p) == h
FreeOld(h, p) == MmFree(h, p)

ReallocMove(id, size) ==
    LET p == block[id].first - 1
        r == MmMalloc(heap, size) IN
    /\ Reallocs(id, size) /\ Size(heap, p) < Need(size) /\ ~Extensible(p, size)
    /\ IF r.p = NULL
       THEN fault' = "null written" /\ UNCHANGED <<mem, roots, block>>
       ELSE /\ Resized(id, FreeOld(Move(r.h, r.p + 1, p + 1, CopyWords(p, size)), p),
                       r.p, size)
            /\ UNCHANGED fault

Stopped == fault # "none" /\ UNCHANGED vars

Next ==
    \/ \E id \in Ids :
        \/ Free(id)
        \/ \E size \in Sizes :
            \/ Malloc(id, size)
            \/ ReallocShrink(id, size) \/ ReallocExtend(id, size)
            \/ ReallocMove(id, size)
    \/ Stopped

Spec == Init /\ [][Next]_vars

-----------------------------------------------------------------------------
Blocks == BlocksOf(heap)

FreeBlocks ==
    LET bs == Blocks IN {p \in {bs[i] : i \in DOMAIN bs} : Alloc(heap, p) = 0}

TypeOK ==
    /\ Len(mem) <= HeapWords
    /\ \A a \in DOMAIN mem : mem[a].kind \in {"header", "links", "data", "junk"}
    /\ roots \in [0 .. Levels - 1 -> 0 .. HeapWords]
    /\ \A id \in Ids : block[id] # None => block[id].words > 0
    /\ fault \in {"none", "data coalesced", "null written"}

(* The tags are right: mm_check finds nothing, and what it does not look    *)
(* at holds as well.  The blocks tile the heap up to the epilogue, each    *)
(* says whether the one before it is allocated, and no two free blocks     *)
(* touch; a free block repeats its header in its footer, where coalesce    *)
(* finds it.                                                               *)
WellFormed ==
    LET bs == Blocks IN
    fault = "none" =>
    /\ ~MmCheck(heap)
    /\ bs # << >> /\ Following(heap, bs[Len(bs)]) = Len(mem)
    /\ mem[Len(mem)].kind = "header" /\ Alloc(heap, Len(mem)) = 1
    /\ \A i \in DOMAIN bs :
        LET p == bs[i] n == Following(heap, p) IN
        /\ PrevAlloc(heap, n) = Alloc(heap, p)
        /\ Alloc(heap, p) = 0 =>
            /\ Alloc(heap, n) = 1 /\ Size(heap, p) >= MinBlock
            /\ mem[n - 1] = mem[p]

(* The segregated lists hold every free block and nothing else, each in    *)
(* the list of its size, in the order of addresses, with the links back;   *)
(* and check_every_free_block_in_list says so.                             *)
ListsExact ==
    fault = "none" =>
    /\ ~CheckEveryFreeBlockInList(heap)
    /\ LET free == FreeBlocks IN
        \A l \in DOMAIN roots :
            LET list == Nodes(heap, l) IN
            {list[i] : i \in DOMAIN list} =
                {p \in free : Level(Size(heap, p) - 1) = l}
    /\ \A l \in DOMAIN roots :
        LET list == Nodes(heap, l) IN
        \A i \in DOMAIN list :
            /\ LinksAt(heap, list[i]).prev = IF i = 1 THEN NULL ELSE list[i - 1]
            /\ i > 1 => list[i - 1] < list[i]

(* No block is lost and none is handed out twice: the allocated blocks are *)
(* exactly the client's, each large enough (mm.c:452-575).                 *)
NoLeak ==
    fault = "none" =>
    LET bs == Blocks
        live == {id \in Ids : block[id] # None} IN
    /\ {bs[i] : i \in 2 .. Len(bs)} \ FreeBlocks = {block[id].first - 1 : id \in live}
    /\ \A id, other \in live : block[id].first = block[other].first => id = other
    /\ \A id \in live : Size(heap, block[id].first - 1) > block[id].words

(* What the client wrote in its blocks stays, whatever is split, joined or *)
(* moved around them (mdriver.c:648-661).                                  *)
PayloadsIntact ==
    \A id \in Ids : block[id] # None =>
        \A k \in 1 .. block[id].words : mem[block[id].first + k - 1] = Data(id, k)

(* The heap grows only when no free block would do (find_fit, 355-374).    *)
GrowsOnlyWhenNeeded ==
    [][Len(mem') > Len(mem) =>
        \E id \in Ids :
            /\ block'[id] \notin {None, block[id]}
            /\ \A p \in FreeBlocks : Size(heap, p) <= block'[id].words]_vars

(* mm.c is an allocator.                                                   *)
A == INSTANCE Allocator WITH
        contents <- [id \in Ids |->
            IF block[id] = None THEN << >>
            ELSE SubSeq(mem, block[id].first, block[id].first + block[id].words - 1)]

AllocatorSpec == A!AllocatorSpec

(* A free block that realloc leaves is coalesced like any other            *)
(* (8_MallocLab/README.md:31: "any time when a new free block is spawned,  *)
(* coalesce should take place").                                           *)
TailsCoalesced == fault # "data coalesced"
=============================================================================
