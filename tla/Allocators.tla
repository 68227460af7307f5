----------------------------- MODULE Allocators -----------------------------
(***************************************************************************)
(* The memory allocators of malloc-code: blocks of mmapped pages, first    *)
(* fit, with the tables of chunks kept outside the pages.  alloc.h has one *)
(* page, which init_alloc maps; ealloc.h maps up to MAXPAGES of them, one  *)
(* whenever no page has room for a block.  header says which is included.  *)
(*                                                                         *)
(* Addresses are numbers.  The program may call the four functions in any  *)
(* order, with any size and any pointer.                                   *)
(***************************************************************************)
EXTENDS Integers, FiniteSets

CONSTANTS
  PAGESIZE, MINALLOC,   \* 4096, and 8 in alloc.h or 256 in ealloc.h
  MAXPAGES,             \* of ealloc.h
  Addresses             \* where mmap may put a page

ASSUME AllocatorsAssumption ==
  /\ PAGESIZE \in Nat \ {0} /\ MINALLOC \in Nat \ {0}
  /\ PAGESIZE % MINALLOC = 0
  /\ MAXPAGES \in Nat \ {0}
  /\ Addresses \subseteq {a \in Nat : a >= PAGESIZE}

VARIABLES
  header,               \* "alloc.h" or "ealloc.h"
  num_pages,            \* pages in use: 1 in alloc.h
  pages,                \* their addresses: mapped_page in alloc.h
  free_chunks,          \* for each chunk, 1 if it is free, 0 if it is used
  alloc_sizes,          \* at a block's first chunk its size in chunks, else 0
  mapped,               \* what mmap returned and munmap was not given back
  ret                   \* what the last alloc returned

tables == <<num_pages, pages, free_chunks, alloc_sizes>>
vars == <<header, tables, mapped, ret>>

NULL == 0
NUMCHUNKS == PAGESIZE \div MINALLOC
Chunks == 0 .. NUMCHUNKS - 1
InUse == 0 .. num_pages - 1

Nothing == [i \in 0 .. MAXPAGES - 1 |-> [c \in Chunks |-> 0]]

(* Before init_alloc: global variables are zero.                           *)
Init ==
  /\ header \in {"alloc.h", "ealloc.h"}
  /\ num_pages = IF header = "alloc.h" THEN 1 ELSE 0
  /\ pages = [i \in 0 .. MAXPAGES - 1 |-> NULL]
  /\ free_chunks = Nothing
  /\ alloc_sizes = Nothing
  /\ mapped = {}
  /\ ret = NULL

(* mmap: a page that overlaps none of those there are.                     *)
FreshPages ==
  {a \in Addresses : \A b \in mapped : a + PAGESIZE <= b \/ b + PAGESIZE <= a}

-----------------------------------------------------------------------------
(* init_alloc and cleanup of alloc.h.  A failing mmap ends test_alloc.c    *)
(* and is left out.                                                        *)
SizesAtStart_Kept == alloc_sizes[0]  \* faulty
SizesAtStart == [c \in Chunks |-> 0]

MapPage ==
  /\ header = "alloc.h"
  /\ \E a \in FreshPages :
       /\ pages' = [pages EXCEPT ![0] = a]
       /\ mapped' = mapped \cup {a}
  /\ free_chunks' = [free_chunks EXCEPT ![0] = [c \in Chunks |-> 1]]
  /\ alloc_sizes' = [alloc_sizes EXCEPT ![0] = SizesAtStart]
  /\ UNCHANGED <<header, num_pages, ret>>

UnmapPage ==
  /\ header = "alloc.h"
  /\ mapped' = mapped \ {pages[0]}
  /\ pages' = [pages EXCEPT ![0] = NULL]
  /\ UNCHANGED <<header, num_pages, free_chunks, alloc_sizes, ret>>

(* init_alloc and cleanup of ealloc.h: no page is unmapped.                *)
ForgetPages ==
  /\ header = "ealloc.h"
  /\ num_pages' = 0
  /\ pages' = [i \in 0 .. MAXPAGES - 1 |-> NULL]
  /\ free_chunks' = Nothing
  /\ alloc_sizes' = Nothing
  /\ UNCHANGED <<header, mapped, ret>>

-----------------------------------------------------------------------------
(* alloc                                                                   *)
BadSize(size) == size <= 0 \/ size > PAGESIZE \/ size % MINALLOC # 0

(* The chunks of page i at which the two inner loops find n free ones.     *)
Fits_LastMissed(i, n) ==  \* faulty
  {j \in 0 .. NUMCHUNKS - n - 1 : \A k \in 0 .. n - 1 : free_chunks[i][j + k] = 1}
Fits(i, n) ==
  {j \in 0 .. NUMCHUNKS - n : \A k \in 0 .. n - 1 : free_chunks[i][j + k] = 1}

HasRoom(n) == \E i \in InUse : Fits(i, n) # {}

(* The first place: no page before page i has room, no chunk before j.     *)
FirstFit(i, j, n) ==
  /\ j \in Fits(i, n)
  /\ \A p \in InUse : \A k \in Fits(p, n) : i < p \/ (i = p /\ j <= k)

Take(free, j, n) == [c \in Chunks |-> IF c \in j .. j + n - 1 THEN 0 ELSE free[c]]

UsePage(n) ==
  \E i \in InUse, j \in Chunks :
    /\ FirstFit(i, j, n)
    /\ free_chunks' = [free_chunks EXCEPT ![i] = Take(@, j, n)]
    /\ alloc_sizes' = [alloc_sizes EXCEPT ![i][j] = n]
    /\ ret' = pages[i] + j * MINALLOC
    /\ UNCHANGED <<num_pages, pages, mapped>>

MayMap == header = "ealloc.h" /\ num_pages < MAXPAGES

AddPage(n) ==
  \E a \in FreshPages :
    /\ num_pages' = num_pages + 1
    /\ pages' = [pages EXCEPT ![num_pages] = a]
    /\ free_chunks' =
         [free_chunks EXCEPT ![num_pages] = Take([c \in Chunks |-> 1], 0, n)]
    /\ alloc_sizes' =
         [alloc_sizes EXCEPT ![num_pages] = [c \in Chunks |-> IF c = 0 THEN n ELSE 0]]
    /\ mapped' = mapped \cup {a}
    /\ ret' = a

(* mmap may fail, in which case nothing has changed yet.                   *)
Refuse == ret' = NULL /\ UNCHANGED <<tables, mapped>>

alloc(size) ==
  LET n == size \div MINALLOC
  IN /\ \/ BadSize(size) /\ Refuse
        \/ ~BadSize(size) /\ UsePage(n)
        \/ ~BadSize(size) /\ ~HasRoom(n) /\ MayMap /\ AddPage(n)
        \/ ~BadSize(size) /\ ~HasRoom(n) /\ (MayMap => FreshPages = {}) /\ Refuse
     /\ UNCHANGED header

-----------------------------------------------------------------------------
(* dealloc: any address within the first chunk of a block stands for it.   *)
SizeAfterFree_Kept(i, index) == alloc_sizes[i][index]  \* faulty
SizeAfterFree(i, index) == 0

dealloc(ptr) ==
  \E i \in InUse :
    LET index == (ptr - pages[i]) \div MINALLOC
        size  == alloc_sizes[i][index]
    IN /\ ptr # NULL /\ ptr \in pages[i] .. pages[i] + PAGESIZE - 1
       /\ size > 0
       /\ free_chunks' = [free_chunks EXCEPT ![i] =
            [c \in Chunks |-> IF c \in index .. index + size - 1 THEN 1 ELSE @[c]]]
       /\ alloc_sizes' = [alloc_sizes EXCEPT ![i][index] = SizeAfterFree(i, index)]
       /\ UNCHANGED <<header, num_pages, pages, mapped, ret>>

(* A pointer that dealloc only complains about changes nothing.            *)

Sizes == -MINALLOC .. PAGESIZE + MINALLOC
Pointers == UNION {p .. p + PAGESIZE - 1 : p \in Addresses \cup {NULL}}

Next ==
  \/ MapPage
  \/ UnmapPage
  \/ ForgetPages
  \/ \E size \in Sizes : alloc(size)
  \/ \E ptr \in Pointers : dealloc(ptr)

Spec == Init /\ [][Next]_vars

-----------------------------------------------------------------------------
TypeOK ==
  /\ header \in {"alloc.h", "ealloc.h"}
  /\ num_pages \in 0 .. MAXPAGES
  /\ header = "alloc.h" => num_pages = 1
  /\ pages \in [0 .. MAXPAGES - 1 -> Addresses \cup {NULL}]
  /\ free_chunks \in [0 .. MAXPAGES - 1 -> [Chunks -> {0, 1}]]
  /\ alloc_sizes \in [0 .. MAXPAGES - 1 -> [Chunks -> 0 .. NUMCHUNKS]]
  /\ mapped \subseteq Addresses
  /\ ret \in Nat

(* The blocks the tables describe, as first chunk and number of chunks.    *)
BlocksOf(i) == {<<j, alloc_sizes[i][j]>> : j \in {c \in Chunks : alloc_sizes[i][c] > 0}}
InBlock(i, c) == \E b \in BlocksOf(i) : c \in b[1] .. b[1] + b[2] - 1

(* A page whose tables have been set up: in alloc.h, init_alloc has run.   *)
Initialised(i) == \E c \in Chunks : free_chunks[i][c] = 1 \/ alloc_sizes[i][c] > 0

(* The two tables agree: a chunk is used exactly when it is part of a      *)
(* block, so that no chunk is lost to the allocator and none is given out  *)
(* twice, whatever pointers dealloc was called with.                       *)
TablesAgree ==
  \A i \in InUse :
    Initialised(i) => \A c \in Chunks : free_chunks[i][c] = 0 <=> InBlock(i, c)

(* A block never runs over the end of its page or into another block.      *)
BlocksDisjoint ==
  \A i \in InUse : \A b \in BlocksOf(i) :
    /\ b[1] + b[2] <= NUMCHUNKS
    /\ \A c \in BlocksOf(i) : b[1] < c[1] => b[1] + b[2] <= c[1]

(* The pages in use are mapped, and no two of them overlap, whatever       *)
(* earlier init_alloc and cleanup have left mapped.                        *)
PagesDisjoint ==
  \A i \in InUse :
    /\ pages[i] # NULL => pages[i] \in mapped
    /\ \A k \in InUse :
         i # k => pages[i] + PAGESIZE <= pages[k] \/ pages[k] + PAGESIZE <= pages[i]

(* The allocators' data structure is sound: the four parts above, for any  *)
(* sequence of calls.                                                      *)
AllocInv == TypeOK /\ TablesAgree /\ BlocksDisjoint /\ PagesDisjoint

(* Somewhere among the pages in use, n chunks in a row are in no block.    *)
RoomFor(n) ==
  \E i \in InUse, first \in 0 .. NUMCHUNKS - n :
    \A c \in first .. first + n - 1 : ~InBlock(i, c)

(* A call of alloc with a legal size is refused, or makes ealloc.h map a   *)
(* page, only when no run of free chunks is long enough: neighbours that   *)
(* were freed one by one count as one run ("merge worked", as test_alloc.c *)
(* says), the end of a page is used, and "no new memory should be used"    *)
(* otherwise (test_ealloc.c).                                              *)
RoomIsUsed ==
  [][\A n \in 1 .. NUMCHUNKS :
       /\ alloc(n * MINALLOC)
       /\ ret' = NULL \/ num_pages' > num_pages
       /\ header = "alloc.h" => pages[0] # NULL
       => ~RoomFor(n)]_vars

(* The allocators implement the abstract heap.                             *)
H == INSTANCE Heap WITH
       Size <- MAXPAGES * NUMCHUNKS,
       blocks <- UNION {{<<i * NUMCHUNKS + b[1], b[2]>> : b \in BlocksOf(i)} : i \in InUse}
RefinesHeap == H!Spec
=============================================================================
