-------------------------- MODULE AllocatorsProofs --------------------------
(***************************************************************************)
(* Theorems about Allocators, for every size of pages and blocks, every    *)
(* number of pages and every place mmap puts them: the tables stay sound,  *)
(* whatever pointers dealloc is called with, no call is refused while      *)
(* there is room, and the allocators implement the abstract heap.          *)
(***************************************************************************)
EXTENDS Allocators, TLAPS

-----------------------------------------------------------------------------
(* Chunks and bytes.                                                       *)

LEMMA DivLess ==
  ASSUME NEW b \in Nat \ {0}, NEW n \in Nat, NEW a \in 0 .. n * b - 1
  PROVE  a \div b \in 0 .. n - 1
OBVIOUS

LEMMA DivMult ==
  ASSUME NEW b \in Nat \ {0}, NEW n \in Int
  PROVE  (n * b) \div b = n /\ (n * b) % b = 0
OBVIOUS

LEMMA Divided ==
  ASSUME NEW b \in Nat \ {0}, NEW a \in Int, a % b = 0
  PROVE  a \div b \in Int /\ a = (a \div b) * b
OBVIOUS

LEMMA PageIsChunks == NUMCHUNKS \in Nat \ {0} /\ PAGESIZE = NUMCHUNKS * MINALLOC
<1>1. NUMCHUNKS \in Int /\ PAGESIZE = NUMCHUNKS * MINALLOC
  BY AllocatorsAssumption, Divided DEF NUMCHUNKS
<1>2. NUMCHUNKS > 0
  BY <1>1, AllocatorsAssumption
<1>3. QED
  BY <1>1, <1>2

(* An address in a page lies in one of its chunks.                         *)
LEMMA IndexInPage ==
  ASSUME NEW offset \in 0 .. PAGESIZE - 1
  PROVE  offset \div MINALLOC \in Chunks
BY PageIsChunks, DivLess, AllocatorsAssumption DEF Chunks

(* The sizes alloc accepts are whole numbers of chunks.                    *)
LEMMA GoodSize ==
  /\ \A size \in Int : ~BadSize(size) => size \div MINALLOC \in 1 .. NUMCHUNKS
  /\ \A n \in 1 .. NUMCHUNKS :
       ~BadSize(n * MINALLOC) /\ (n * MINALLOC) \div MINALLOC = n
<1>1. ASSUME NEW size \in Int, ~BadSize(size)
      PROVE  size \div MINALLOC \in 1 .. NUMCHUNKS
  <2>1. size > 0 /\ size <= PAGESIZE /\ size % MINALLOC = 0
    BY <1>1, AllocatorsAssumption DEF BadSize
  <2> DEFINE n == size \div MINALLOC
  <2>2. n \in Int /\ size = n * MINALLOC
    BY <2>1, Divided, AllocatorsAssumption
  <2>3. n > 0
    BY <2>1, <2>2, AllocatorsAssumption
  <2>4. n <= NUMCHUNKS
    BY <2>1, <2>2, PageIsChunks, AllocatorsAssumption
  <2>5. QED
    BY <2>2, <2>3, <2>4, PageIsChunks
<1>2. ASSUME NEW n \in 1 .. NUMCHUNKS
      PROVE  ~BadSize(n * MINALLOC) /\ (n * MINALLOC) \div MINALLOC = n
  <2>1. n \in Int /\ n * MINALLOC > 0 /\ n * MINALLOC <= PAGESIZE
    BY PageIsChunks, AllocatorsAssumption
  <2>2. QED
    BY <2>1, DivMult, AllocatorsAssumption DEF BadSize
<1>3. QED
  BY <1>1, <1>2

-----------------------------------------------------------------------------
(* The tables of one page, free_chunks[i] and alloc_sizes[i].              *)

Covered(sizes, c) == \E b \in Chunks : sizes[b] > 0 /\ b <= c /\ c < b + sizes[b]

PageType(free, sizes) ==
  free \in [Chunks -> {0, 1}] /\ sizes \in [Chunks -> 0 .. NUMCHUNKS]

PageOK(free, sizes) ==
  /\ \A c \in Chunks : free[c] = 0 <=> Covered(sizes, c)
  /\ \A b \in Chunks : sizes[b] > 0 => b + sizes[b] <= NUMCHUNKS
  /\ \A b, d \in Chunks : sizes[b] > 0 /\ sizes[d] > 0 /\ b < d => b + sizes[b] <= d

(* Tables that init_alloc has not set up yet.                              *)
Blank(free, sizes) == \A c \in Chunks : free[c] = 0 /\ sizes[c] = 0

AllFree == [c \in Chunks |-> 1]
NoBlocks == [c \in Chunks |-> 0]

LEMMA FreshPageOK == PageType(AllFree, NoBlocks) /\ PageOK(AllFree, NoBlocks)
BY PageIsChunks DEF PageType, PageOK, Covered, AllFree, NoBlocks, Chunks

(* A block is put where all chunks are free.                               *)
LEMMA TakePageOK ==
  ASSUME NEW free, NEW sizes, PageType(free, sizes), PageOK(free, sizes),
         NEW j \in Chunks, NEW n \in 1 .. NUMCHUNKS, j + n <= NUMCHUNKS,
         \A c \in j .. j + n - 1 : free[c] = 1
  PROVE  /\ PageType(Take(free, j, n), [sizes EXCEPT ![j] = n])
         /\ PageOK(Take(free, j, n), [sizes EXCEPT ![j] = n])
         /\ sizes[j] = 0
<1> DEFINE free2 == Take(free, j, n)
           sizes2 == [sizes EXCEPT ![j] = n]
<1>1. /\ NUMCHUNKS \in Nat \ {0} /\ Chunks = 0 .. NUMCHUNKS - 1
      /\ \A c \in Chunks : free[c] \in {0, 1} /\ sizes[c] \in 0 .. NUMCHUNKS
  BY PageIsChunks DEF Chunks, PageType
<1>2. /\ \A c \in Chunks : sizes2[c] = IF c = j THEN n ELSE sizes[c]
      /\ \A c \in Chunks : free2[c] = IF c \in j .. j + n - 1 THEN 0 ELSE free[c]
      /\ PageType(free2, sizes2)
  BY <1>1 DEF PageType, Take
<1> HIDE DEF free2, sizes2
<1>3. \A c \in j .. j + n - 1 : c \in Chunks /\ ~Covered(sizes, c)
  BY <1>1 DEF PageOK
<1>4. sizes[j] = 0
  BY <1>1, <1>3 DEF Covered
<1>5. ASSUME NEW b \in Chunks, sizes[b] > 0
      PROVE  b + sizes[b] <= j \/ j + n <= b
  <2>1. CASE b <= j
    BY <1>1, <1>3, <1>5, <2>1 DEF Covered
  <2>2. CASE j < b /\ b < j + n
    BY <1>1, <1>3, <1>5, <2>2 DEF Covered
  <2>3. QED
    BY <1>1, <2>1, <2>2
<1>6. ASSUME NEW c \in Chunks
      PROVE  free2[c] = 0 <=> Covered(sizes2, c)
  <2>1. CASE c \in j .. j + n - 1
    BY <1>1, <1>2, <2>1 DEF Covered
  <2>2. CASE c \notin j .. j + n - 1
    <3>1. Covered(sizes2, c) <=> Covered(sizes, c)
      BY <1>1, <1>2, <1>4, <2>2 DEF Covered
    <3>2. QED
      BY <1>2, <2>2, <3>1 DEF PageOK
  <2>3. QED
    BY <2>1, <2>2
<1>7. \A b \in Chunks : sizes2[b] > 0 => b + sizes2[b] <= NUMCHUNKS
  BY <1>2 DEF PageOK
<1>8. ASSUME NEW b \in Chunks, NEW d \in Chunks, sizes2[b] > 0, sizes2[d] > 0, b < d
      PROVE  b + sizes2[b] <= d
  BY <1>1, <1>2, <1>5, <1>8 DEF PageOK
<1>9. QED
  BY <1>2, <1>4, <1>6, <1>7, <1>8 DEF PageOK, free2, sizes2

(* The block that starts at j is given back.                               *)
LEMMA FreePageOK ==
  ASSUME NEW free, NEW sizes, PageType(free, sizes), PageOK(free, sizes),
         NEW j \in Chunks, sizes[j] > 0,
         NEW free2, NEW sizes2,
         free2 = [c \in Chunks |-> IF c \in j .. j + sizes[j] - 1 THEN 1 ELSE free[c]],
         sizes2 = [sizes EXCEPT ![j] = 0]
  PROVE  PageType(free2, sizes2) /\ PageOK(free2, sizes2)
<1>1. /\ NUMCHUNKS \in Nat \ {0} /\ Chunks = 0 .. NUMCHUNKS - 1
      /\ \A c \in Chunks : free[c] \in {0, 1} /\ sizes[c] \in 0 .. NUMCHUNKS
  BY PageIsChunks DEF Chunks, PageType
<1>2. /\ \A c \in Chunks : sizes2[c] = IF c = j THEN 0 ELSE sizes[c]
      /\ \A c \in Chunks : free2[c] = IF c \in j .. j + sizes[j] - 1 THEN 1 ELSE free[c]
      /\ PageType(free2, sizes2)
  BY <1>1 DEF PageType
<1>3. \A b \in Chunks : sizes[b] > 0 /\ b # j => b + sizes[b] <= j \/ j + sizes[j] <= b
  BY <1>1 DEF PageOK
<1>4. ASSUME NEW c \in Chunks
      PROVE  free2[c] = 0 <=> Covered(sizes2, c)
  <2>1. CASE c \in j .. j + sizes[j] - 1
    BY <1>1, <1>2, <1>3, <2>1 DEF Covered
  <2>2. CASE c \notin j .. j + sizes[j] - 1
    <3>1. Covered(sizes2, c) <=> Covered(sizes, c)
      BY <1>1, <1>2, <2>2 DEF Covered
    <3>2. QED
      BY <1>2, <2>2, <3>1 DEF PageOK
  <2>3. QED
    BY <2>1, <2>2
<1>5. \A b \in Chunks : sizes2[b] > 0 => b + sizes2[b] <= NUMCHUNKS
  BY <1>2 DEF PageOK
<1>6. \A b, d \in Chunks :
        sizes2[b] > 0 /\ sizes2[d] > 0 /\ b < d => b + sizes2[b] <= d
  BY <1>1, <1>2 DEF PageOK
<1>7. QED
  BY <1>2, <1>4, <1>5, <1>6 DEF PageOK

-----------------------------------------------------------------------------
(* The inductive invariant: the tables of each page in use are sound, or   *)
(* have not been set up, and then there is no page either.                 *)

PageSound(i) ==
  \/ PageOK(free_chunks[i], alloc_sizes[i])
  \/ Blank(free_chunks[i], alloc_sizes[i]) /\ pages[i] = NULL

PagesSet == header = "ealloc.h" => \A i \in InUse : pages[i] # NULL

TablesInv ==
  /\ TypeOK /\ PagesDisjoint /\ PagesSet
  /\ \A i \in InUse : PageSound(i)

LEMMA TypeFacts ==
  ASSUME TypeOK
  PROVE  /\ num_pages \in 0 .. MAXPAGES /\ MAXPAGES \in Nat \ {0}
         /\ PAGESIZE \in Nat \ {0} /\ MINALLOC \in Nat \ {0}
         /\ \A a \in Addresses : a \in Nat /\ a >= PAGESIZE /\ a # NULL
         /\ InUse \subseteq 0 .. MAXPAGES - 1
         /\ \A i \in 0 .. MAXPAGES - 1 :
              /\ PageType(free_chunks[i], alloc_sizes[i])
              /\ pages[i] \in Addresses \cup {NULL} /\ pages[i] \in Nat
<1>1. /\ num_pages \in 0 .. MAXPAGES /\ MAXPAGES \in Nat \ {0}
      /\ PAGESIZE \in Nat \ {0} /\ MINALLOC \in Nat \ {0}
  BY AllocatorsAssumption DEF TypeOK
<1>2. \A a \in Addresses : a \in Nat /\ a >= PAGESIZE /\ a # NULL
  BY AllocatorsAssumption DEF NULL
<1>3. InUse \subseteq 0 .. MAXPAGES - 1
  BY <1>1 DEF InUse
<1>4. \A i \in 0 .. MAXPAGES - 1 : PageType(free_chunks[i], alloc_sizes[i])
  BY DEF TypeOK, PageType
<1>5. \A i \in 0 .. MAXPAGES - 1 : pages[i] \in Addresses \cup {NULL}
  BY DEF TypeOK
<1>6. \A i \in 0 .. MAXPAGES - 1 : pages[i] \in Nat
  BY <1>2, <1>5 DEF NULL
<1>7. QED
  BY <1>1, <1>2, <1>3, <1>4, <1>5, <1>6

(* The blocks of a page in terms of its table.                             *)
LEMMA InBlockCovered ==
  ASSUME NEW i, NEW c
  PROVE  InBlock(i, c) <=> \E b \in Chunks : /\ alloc_sizes[i][b] > 0
                                             /\ c \in b .. b + alloc_sizes[i][b] - 1
<1>1. \A b : b \in BlocksOf(i) <=>
        \E j \in Chunks : alloc_sizes[i][j] > 0 /\ b = <<j, alloc_sizes[i][j]>>
  BY DEF BlocksOf
<1>2. \A j : <<j, alloc_sizes[i][j]>>[1] = j /\ <<j, alloc_sizes[i][j]>>[2] = alloc_sizes[i][j]
  OBVIOUS
<1>3. ASSUME InBlock(i, c)
      PROVE  \E b \in Chunks : alloc_sizes[i][b] > 0 /\ c \in b .. b + alloc_sizes[i][b] - 1
  <2>1. PICK b \in BlocksOf(i) : c \in b[1] .. b[1] + b[2] - 1
    BY <1>3 DEF InBlock
  <2>2. PICK j \in Chunks : alloc_sizes[i][j] > 0 /\ b = <<j, alloc_sizes[i][j]>>
    BY <1>1, <2>1
  <2>3. b[1] = j /\ b[2] = alloc_sizes[i][j]
    BY <1>2, <2>2
  <2>4. QED
    BY <2>1, <2>2, <2>3
<1>4. ASSUME NEW b \in Chunks, alloc_sizes[i][b] > 0, c \in b .. b + alloc_sizes[i][b] - 1
      PROVE  InBlock(i, c)
  <2>1. <<b, alloc_sizes[i][b]>> \in BlocksOf(i)
    BY <1>1, <1>4
  <2>2. QED
    BY <1>2, <1>4, <2>1 DEF InBlock
<1>5. QED
  BY <1>3, <1>4

(* A sound page has the two parts of AllocInv that are about its tables.   *)
LEMMA SoundPage ==
  ASSUME TypeOK, NEW i \in InUse, PageSound(i)
  PROVE  /\ Initialised(i) => \A c \in Chunks : free_chunks[i][c] = 0 <=> InBlock(i, c)
         /\ \A b \in BlocksOf(i) :
              /\ b[1] + b[2] <= NUMCHUNKS
              /\ \A c \in BlocksOf(i) : b[1] < c[1] => b[1] + b[2] <= c[1]
<1> DEFINE sizes == alloc_sizes[i]
<1>1. /\ NUMCHUNKS \in Nat \ {0} /\ Chunks = 0 .. NUMCHUNKS - 1
      /\ \A c \in Chunks : sizes[c] \in 0 .. NUMCHUNKS
  BY PageIsChunks, TypeFacts DEF Chunks, PageType
<1>2. \A c \in Chunks : InBlock(i, c) <=> Covered(sizes, c)
  BY <1>1, InBlockCovered DEF Covered
<1>3. ASSUME NEW b \in BlocksOf(i)
      PROVE  b[1] \in Chunks /\ b[2] = sizes[b[1]] /\ sizes[b[1]] > 0
  <2>1. PICK j \in Chunks : sizes[j] > 0 /\ b = <<j, sizes[j]>>
    BY DEF BlocksOf
  <2>2. b[1] = j /\ b[2] = sizes[j]
    BY <2>1
  <2>3. QED
    BY <2>1, <2>2
<1>4. CASE PageOK(free_chunks[i], sizes)
  <2>1. Initialised(i) => \A c \in Chunks : free_chunks[i][c] = 0 <=> InBlock(i, c)
    BY <1>2, <1>4 DEF PageOK
  <2>2. ASSUME NEW b \in BlocksOf(i)
        PROVE  /\ b[1] + b[2] <= NUMCHUNKS
               /\ \A c \in BlocksOf(i) : b[1] < c[1] => b[1] + b[2] <= c[1]
    BY <1>3, <1>4 DEF PageOK
  <2>3. QED
    BY <2>1, <2>2
<1>5. CASE Blank(free_chunks[i], sizes)
  <2>1. ~Initialised(i)
    BY <1>1, <1>5 DEF Initialised, Blank
  <2>2. BlocksOf(i) = {}
    BY <1>1, <1>3, <1>5 DEF Blank
  <2>3. QED
    BY <2>1, <2>2
<1>6. QED
  BY <1>4, <1>5 DEF PageSound

LEMMA TablesInvImplies == TablesInv => AllocInv
<1> SUFFICES ASSUME TablesInv PROVE AllocInv
  OBVIOUS
<1>1. TablesAgree /\ BlocksDisjoint
  BY SoundPage DEF TablesInv, TablesAgree, BlocksDisjoint
<1>2. QED
  BY <1>1 DEF TablesInv, AllocInv

LEMMA TablesInvInit == Init => TablesInv
<1> SUFFICES ASSUME Init PROVE TablesInv
  OBVIOUS
<1>1. /\ NUMCHUNKS \in Nat \ {0} /\ Chunks = 0 .. NUMCHUNKS - 1 /\ MAXPAGES \in Nat \ {0}
      /\ PAGESIZE \in Nat \ {0}
  BY PageIsChunks, AllocatorsAssumption DEF Chunks
<1>2. \A i \in 0 .. MAXPAGES - 1 : Nothing[i] = NoBlocks
  BY DEF Nothing, NoBlocks
<1>3. NoBlocks \in [Chunks -> {0, 1}] /\ NoBlocks \in [Chunks -> 0 .. NUMCHUNKS]
  BY <1>1 DEF NoBlocks
<1>4. TypeOK
  BY <1>1, <1>2, <1>3 DEF Init, TypeOK, Nothing, NULL
<1>5. \A i \in InUse : i \in 0 .. MAXPAGES - 1 /\ pages[i] = NULL /\ i = 0
  BY <1>1 DEF Init, InUse
<1>6. PagesDisjoint
  BY <1>5 DEF PagesDisjoint
<1>7. PagesSet
  BY <1>1 DEF PagesSet, InUse, Init
<1>8. \A i \in InUse : PageSound(i)
  BY <1>2, <1>5 DEF PageSound, Blank, Init, NoBlocks
<1>9. QED
  BY <1>4, <1>6, <1>7, <1>8 DEF TablesInv

-----------------------------------------------------------------------------
(* Each operation keeps the tables sound.                                  *)

LEMMA MapPageStep ==
  ASSUME TablesInv, MapPage
  PROVE  TablesInv'
<1>1. PICK a \in FreshPages : /\ pages' = [pages EXCEPT ![0] = a]
                              /\ mapped' = mapped \cup {a}
  BY DEF MapPage
<1>2. /\ header = "alloc.h" /\ UNCHANGED <<header, num_pages, ret>>
      /\ free_chunks' = [free_chunks EXCEPT ![0] = AllFree]
      /\ alloc_sizes' = [alloc_sizes EXCEPT ![0] = NoBlocks]
  BY DEF MapPage, AllFree, NoBlocks, SizesAtStart
<1>3. TypeOK /\ a \in Addresses
  BY DEF TablesInv, FreshPages
<1>4. num_pages = 1 /\ InUse = {0} /\ InUse' = {0} /\ 0 \in 0 .. MAXPAGES - 1
  BY <1>2, <1>3, AllocatorsAssumption DEF TypeOK, InUse
<1>5. TypeOK'
  BY <1>1, <1>2, <1>3, FreshPageOK DEF TypeOK, PageType
<1>6. pages'[0] = a /\ free_chunks'[0] = AllFree /\ alloc_sizes'[0] = NoBlocks
  BY <1>1, <1>2, <1>3, <1>4 DEF TypeOK
<1>7. PagesDisjoint'
  BY <1>1, <1>4, <1>6 DEF PagesDisjoint
<1>8. PagesSet'
  BY <1>2 DEF PagesSet
<1>9. \A i \in InUse' : PageSound(i)'
  BY <1>4, <1>6, FreshPageOK DEF PageSound
<1>10. QED
  BY <1>5, <1>7, <1>8, <1>9 DEF TablesInv

(* The tables stay as they are: alloc goes on serving from a page that is  *)
(* not there.                                                              *)
LEMMA UnmapPageStep ==
  ASSUME TablesInv, UnmapPage
  PROVE  TablesInv'
<1>1. /\ header = "alloc.h" /\ pages' = [pages EXCEPT ![0] = NULL]
      /\ mapped' = mapped \ {pages[0]}
      /\ UNCHANGED <<header, num_pages, free_chunks, alloc_sizes, ret>>
  BY DEF UnmapPage
<1>2. TypeOK
  BY DEF TablesInv
<1>3. InUse = {0} /\ InUse' = {0} /\ 0 \in 0 .. MAXPAGES - 1
  BY <1>1, <1>2, AllocatorsAssumption DEF TypeOK, InUse
<1>4. TypeOK'
  BY <1>1, <1>2 DEF TypeOK
<1>5. pages'[0] = NULL
  BY <1>1, <1>2, <1>3 DEF TypeOK
<1>6. PagesDisjoint' /\ PagesSet'
  BY <1>1, <1>3, <1>5 DEF PagesDisjoint, PagesSet
<1>7. \A i \in InUse' : PageSound(i)'
  BY <1>1, <1>3, <1>5 DEF PageSound, TablesInv
<1>8. QED
  BY <1>4, <1>6, <1>7 DEF TablesInv

LEMMA ForgetPagesStep ==
  ASSUME TablesInv, ForgetPages
  PROVE  TablesInv' /\ InUse' = {}
<1>1. /\ header = "ealloc.h" /\ num_pages' = 0
      /\ pages' = [i \in 0 .. MAXPAGES - 1 |-> NULL]
      /\ free_chunks' = Nothing /\ alloc_sizes' = Nothing
      /\ UNCHANGED <<header, mapped, ret>>
  BY DEF ForgetPages
<1>2. InUse' = {}
  BY <1>1 DEF InUse
<1>3. NoBlocks \in [Chunks -> {0, 1}] /\ NoBlocks \in [Chunks -> 0 .. NUMCHUNKS]
  BY PageIsChunks DEF NoBlocks
<1>4. Nothing = [i \in 0 .. MAXPAGES - 1 |-> NoBlocks]
  BY DEF Nothing, NoBlocks
<1>5. TypeOK'
  BY <1>1, <1>3, <1>4, AllocatorsAssumption DEF TypeOK, TablesInv
<1>6. QED
  BY <1>2, <1>5 DEF TablesInv, PagesDisjoint, PagesSet

(* alloc finds room on page i.                                             *)
BlockTaken(i, j, n) ==
  /\ i \in InUse /\ j \in Chunks /\ j + n <= NUMCHUNKS
  /\ \A c \in j .. j + n - 1 : free_chunks[i][c] = 1
  /\ free_chunks' = [free_chunks EXCEPT ![i] = Take(free_chunks[i], j, n)]
  /\ alloc_sizes' = [alloc_sizes EXCEPT ![i] = [alloc_sizes[i] EXCEPT ![j] = n]]
  /\ ret' = pages[i] + j * MINALLOC
  /\ UNCHANGED <<header, num_pages, pages, mapped>>

LEMMA UsePageTakes ==
  ASSUME NEW n \in 1 .. NUMCHUNKS, UsePage(n), UNCHANGED header
  PROVE  \E i \in InUse, j \in Chunks : BlockTaken(i, j, n)
<1>1. PICK i \in InUse, j \in Chunks :
        /\ FirstFit(i, j, n)
        /\ free_chunks' = [free_chunks EXCEPT ![i] = Take(free_chunks[i], j, n)]
        /\ alloc_sizes' = [alloc_sizes EXCEPT ![i] = [alloc_sizes[i] EXCEPT ![j] = n]]
        /\ ret' = pages[i] + j * MINALLOC
        /\ UNCHANGED <<num_pages, pages, mapped>>
  BY DEF UsePage
<1>2. j \in 0 .. NUMCHUNKS - n /\ \A k \in 0 .. n - 1 : free_chunks[i][j + k] = 1
  BY <1>1 DEF FirstFit, Fits
<1>3. j \in Int /\ j + n <= NUMCHUNKS
  BY <1>2, PageIsChunks
<1>4. ASSUME NEW c \in j .. j + n - 1
      PROVE  free_chunks[i][c] = 1
  <2>1. c - j \in 0 .. n - 1 /\ j + (c - j) = c
    BY <1>3
  <2>2. QED
    BY <1>2, <2>1
<1>5. QED
  BY <1>1, <1>3, <1>4 DEF BlockTaken

LEMMA BlockTakenStep ==
  ASSUME TablesInv, NEW n \in 1 .. NUMCHUNKS, NEW i \in InUse, NEW j \in Chunks,
         BlockTaken(i, j, n)
  PROVE  TablesInv' /\ alloc_sizes[i][j] = 0
<1>1. TypeOK /\ PagesDisjoint /\ PagesSet /\ \A k \in InUse : PageSound(k)
  BY DEF TablesInv
<1> DEFINE free == free_chunks[i]
           sizes == alloc_sizes[i]
<1>2. i \in 0 .. MAXPAGES - 1 /\ PageType(free, sizes) /\ pages[i] \in Nat
  BY <1>1, TypeFacts
<1>3. j \in Nat /\ MINALLOC \in Nat /\ NUMCHUNKS \in Nat
  BY PageIsChunks, AllocatorsAssumption DEF Chunks
<1>4. j \in j .. j + n - 1 /\ free[j] = 1
  BY <1>3 DEF BlockTaken
<1>5. PageOK(free, sizes)
  BY <1>1, <1>4 DEF PageSound, Blank
<1>6. /\ PageType(Take(free, j, n), [sizes EXCEPT ![j] = n])
      /\ PageOK(Take(free, j, n), [sizes EXCEPT ![j] = n])
      /\ sizes[j] = 0
  BY <1>2, <1>5, TakePageOK DEF BlockTaken
<1>7. /\ free_chunks'[i] = Take(free, j, n) /\ alloc_sizes'[i] = [sizes EXCEPT ![j] = n]
      /\ \A k \in 0 .. MAXPAGES - 1 : k # i =>
           free_chunks'[k] = free_chunks[k] /\ alloc_sizes'[k] = alloc_sizes[k]
  BY <1>1, <1>2 DEF BlockTaken, TypeOK
<1>8. ret' \in Nat
  BY <1>2, <1>3 DEF BlockTaken
<1>9. TypeOK'
  BY <1>1, <1>2, <1>6, <1>8 DEF BlockTaken, TypeOK, PageType
<1>10. PagesDisjoint' /\ PagesSet' /\ InUse' = InUse
  BY <1>1 DEF BlockTaken, PagesDisjoint, PagesSet, InUse
<1>11. ASSUME NEW k \in InUse
       PROVE  PageSound(k)'
  <2>1. CASE k = i
    BY <1>6, <1>7, <2>1 DEF PageSound
  <2>2. CASE k # i
    <3>1. k \in 0 .. MAXPAGES - 1 /\ pages'[k] = pages[k]
      BY <1>1, TypeFacts DEF BlockTaken
    <3>2. QED
      BY <1>1, <1>7, <2>2, <3>1 DEF PageSound
  <2>3. QED
    BY <2>1, <2>2
<1>12. QED
  BY <1>6, <1>9, <1>10, <1>11 DEF TablesInv

(* ealloc.h maps another page.                                             *)
LEMMA AddPageStep ==
  ASSUME TablesInv, NEW n \in 1 .. NUMCHUNKS, MayMap, AddPage(n), UNCHANGED header
  PROVE  /\ TablesInv'
         /\ InUse' = InUse \cup {num_pages} /\ num_pages \notin InUse
         /\ num_pages \in 0 .. MAXPAGES - 1
         /\ alloc_sizes'[num_pages] = [c \in Chunks |-> IF c = 0 THEN n ELSE 0]
         /\ \A k \in InUse : alloc_sizes'[k] = alloc_sizes[k]
<1> DEFINE new == num_pages
           free == Take(AllFree, 0, n)
           sizes == [c \in Chunks |-> IF c = 0 THEN n ELSE 0]
<1>1. PICK a \in FreshPages :
        /\ num_pages' = new + 1 /\ pages' = [pages EXCEPT ![new] = a]
        /\ free_chunks' = [free_chunks EXCEPT ![new] = free]
        /\ alloc_sizes' = [alloc_sizes EXCEPT ![new] = sizes]
        /\ mapped' = mapped \cup {a} /\ ret' = a
  BY DEF AddPage, AllFree
<1>2. TypeOK /\ PagesDisjoint /\ PagesSet /\ \A k \in InUse : PageSound(k)
  BY DEF TablesInv
<1>3. /\ header = "ealloc.h" /\ header' = header
      /\ new \in 0 .. MAXPAGES - 1 /\ new \notin InUse /\ InUse' = InUse \cup {new}
      /\ InUse \subseteq 0 .. MAXPAGES - 1
  BY <1>1, <1>2, TypeFacts DEF MayMap, InUse
<1>4. /\ a \in Addresses /\ a \in Nat /\ a >= PAGESIZE /\ a # NULL
      /\ \A b \in mapped : a + PAGESIZE <= b \/ b + PAGESIZE <= a
  BY <1>2, TypeFacts DEF FreshPages
<1>5. PageType(free, sizes) /\ PageOK(free, sizes)
  <2>1. 0 \in Chunks /\ 0 + n <= NUMCHUNKS /\ \A c \in 0 .. 0 + n - 1 : AllFree[c] = 1
    BY PageIsChunks DEF Chunks, AllFree
  <2>2. [NoBlocks EXCEPT ![0] = n] = sizes
    BY DEF NoBlocks
  <2>3. QED
    BY <2>1, <2>2, FreshPageOK, TakePageOK
<1> HIDE DEF free, sizes
<1>6. /\ free_chunks'[new] = free /\ alloc_sizes'[new] = sizes /\ pages'[new] = a
      /\ \A k \in InUse : /\ free_chunks'[k] = free_chunks[k]
                          /\ alloc_sizes'[k] = alloc_sizes[k] /\ pages'[k] = pages[k]
  BY <1>1, <1>2, <1>3 DEF TypeOK
<1>7. TypeOK'
  BY <1>1, <1>2, <1>3, <1>4, <1>5, TypeFacts DEF TypeOK, PageType
<1>8. PagesSet'
  BY <1>2, <1>3, <1>4, <1>6 DEF PagesSet
<1>9. ASSUME NEW i \in InUse'
      PROVE  pages'[i] # NULL => pages'[i] \in mapped'
  BY <1>1, <1>2, <1>3, <1>6 DEF PagesDisjoint
<1>10. ASSUME NEW i \in InUse
       PROVE  pages[i] + PAGESIZE <= a \/ a + PAGESIZE <= pages[i]
  BY <1>2, <1>3, <1>4 DEF PagesDisjoint, PagesSet
<1>11. ASSUME NEW i \in InUse', NEW k \in InUse', i # k
       PROVE  pages'[i] + PAGESIZE <= pages'[k] \/ pages'[k] + PAGESIZE <= pages'[i]
  <2>1. CASE i \in InUse /\ k \in InUse
    BY <1>2, <1>6, <1>11, <2>1 DEF PagesDisjoint
  <2>2. CASE i = new \/ k = new
    BY <1>3, <1>6, <1>10, <1>11, <2>2
  <2>3. QED
    BY <1>3, <2>1, <2>2
<1>12. PagesDisjoint'
  BY <1>9, <1>11 DEF PagesDisjoint
<1>13. \A k \in InUse' : PageSound(k)'
  BY <1>2, <1>3, <1>5, <1>6 DEF PageSound
<1>14. QED
  BY <1>3, <1>6, <1>7, <1>8, <1>12, <1>13 DEF TablesInv, sizes

LEMMA RefuseStep ==
  ASSUME TablesInv, Refuse, UNCHANGED header
  PROVE  TablesInv'
<1>1. UNCHANGED <<header, num_pages, pages, free_chunks, alloc_sizes, mapped>> /\ ret' = 0
  BY DEF Refuse, tables, NULL
<1>2. TypeOK'
  BY <1>1 DEF TablesInv, TypeOK
<1>3. QED
  BY <1>1, <1>2 DEF TablesInv, PagesDisjoint, PagesSet, PageSound, InUse

(* dealloc finds a block on page i.                                        *)
BlockFreed(i, j) ==
  /\ i \in InUse /\ j \in Chunks /\ alloc_sizes[i][j] > 0
  /\ free_chunks' = [free_chunks EXCEPT ![i] =
       [c \in Chunks |-> IF c \in j .. j + alloc_sizes[i][j] - 1
                         THEN 1 ELSE free_chunks[i][c]]]
  /\ alloc_sizes' = [alloc_sizes EXCEPT ![i] = [alloc_sizes[i] EXCEPT ![j] = 0]]
  /\ UNCHANGED <<header, num_pages, pages, mapped, ret>>

LEMMA DeallocFrees ==
  ASSUME TablesInv, NEW ptr, dealloc(ptr)
  PROVE  \E i \in InUse, j \in Chunks : BlockFreed(i, j)
<1>1. PICK i \in InUse :
        LET index == (ptr - pages[i]) \div MINALLOC
            size  == alloc_sizes[i][index]
        IN /\ ptr # NULL /\ ptr \in pages[i] .. pages[i] + PAGESIZE - 1
           /\ size > 0
           /\ free_chunks' = [free_chunks EXCEPT ![i] =
                [c \in Chunks |-> IF c \in index .. index + size - 1
                                  THEN 1 ELSE free_chunks[i][c]]]
           /\ alloc_sizes' = [alloc_sizes EXCEPT ![i] =
                [alloc_sizes[i] EXCEPT ![index] = SizeAfterFree(i, index)]]
           /\ UNCHANGED <<header, num_pages, pages, mapped, ret>>
  BY DEF dealloc
<1> DEFINE j == (ptr - pages[i]) \div MINALLOC
<1>2. pages[i] \in Nat /\ PAGESIZE \in Nat
  BY TypeFacts DEF TablesInv
<1>3. ptr - pages[i] \in 0 .. PAGESIZE - 1
  BY <1>1, <1>2
<1>4. j \in Chunks
  BY <1>3, IndexInPage
<1>5. BlockFreed(i, j)
  BY <1>1, <1>4 DEF BlockFreed, SizeAfterFree
<1>6. QED
  BY <1>4, <1>5

LEMMA BlockFreedStep ==
  ASSUME TablesInv, NEW i \in InUse, NEW j \in Chunks, BlockFreed(i, j)
  PROVE  TablesInv'
<1>1. TypeOK /\ PagesDisjoint /\ PagesSet /\ \A k \in InUse : PageSound(k)
  BY DEF TablesInv
<1> DEFINE free == free_chunks[i]
           sizes == alloc_sizes[i]
           free2 == [c \in Chunks |-> IF c \in j .. j + sizes[j] - 1 THEN 1 ELSE free[c]]
           sizes2 == [sizes EXCEPT ![j] = 0]
<1>2. /\ i \in 0 .. MAXPAGES - 1 /\ PageType(free, sizes)
      /\ free_chunks' = [free_chunks EXCEPT ![i] = free2]
      /\ alloc_sizes' = [alloc_sizes EXCEPT ![i] = sizes2]
      /\ UNCHANGED <<header, num_pages, pages, mapped, ret>>
  BY <1>1, TypeFacts DEF BlockFreed
<1>3. PageOK(free, sizes)
  BY <1>1 DEF PageSound, Blank, BlockFreed
<1>4. PageType(free2, sizes2) /\ PageOK(free2, sizes2)
  BY <1>2, <1>3, FreePageOK DEF BlockFreed
<1> HIDE DEF free2, sizes2
<1>5. /\ free_chunks'[i] = free2 /\ alloc_sizes'[i] = sizes2
      /\ \A k \in 0 .. MAXPAGES - 1 : k # i =>
           free_chunks'[k] = free_chunks[k] /\ alloc_sizes'[k] = alloc_sizes[k]
  BY <1>1, <1>2 DEF TypeOK
<1>6. TypeOK'
  BY <1>1, <1>2, <1>4 DEF TypeOK, PageType
<1>7. PagesDisjoint' /\ PagesSet' /\ InUse' = InUse
  BY <1>1, <1>2 DEF PagesDisjoint, PagesSet, InUse
<1>8. ASSUME NEW k \in InUse
      PROVE  PageSound(k)'
  <2>1. CASE k = i
    BY <1>4, <1>5, <2>1 DEF PageSound
  <2>2. CASE k # i
    <3>1. k \in 0 .. MAXPAGES - 1 /\ pages'[k] = pages[k]
      BY <1>1, <1>2, TypeFacts
    <3>2. QED
      BY <1>1, <1>5, <2>2, <3>1 DEF PageSound
  <2>3. QED
    BY <2>1, <2>2
<1>9. QED
  BY <1>6, <1>7, <1>8 DEF TablesInv

(* What a step does to the blocks.                                         *)
StepEffect ==
  \/ MapPage \/ UnmapPage \/ ForgetPages
  \/ Refuse /\ UNCHANGED header
  \/ \E n \in 1 .. NUMCHUNKS :
       \/ \E i \in InUse, j \in Chunks : BlockTaken(i, j, n)
       \/ MayMap /\ AddPage(n) /\ UNCHANGED header
  \/ \E i \in InUse, j \in Chunks : BlockFreed(i, j)

LEMMA NextEffect ==
  ASSUME TablesInv, Next
  PROVE  StepEffect
<1>1. ASSUME NEW size \in Sizes, alloc(size)
      PROVE  StepEffect
  <2>1. size \in Int
    BY AllocatorsAssumption DEF Sizes
  <2> DEFINE n == size \div MINALLOC
  <2>2. \/ Refuse /\ UNCHANGED header
        \/ ~BadSize(size) /\ UsePage(n) /\ UNCHANGED header
        \/ ~BadSize(size) /\ MayMap /\ AddPage(n) /\ UNCHANGED header
    BY <1>1 DEF alloc
  <2>3. ~BadSize(size) => n \in 1 .. NUMCHUNKS
    BY <2>1, GoodSize
  <2> HIDE DEF n
  <2>4. QED
    BY <2>2, <2>3, UsePageTakes DEF StepEffect
<1>2. ASSUME NEW ptr \in Pointers, dealloc(ptr)
      PROVE  StepEffect
  BY <1>2, DeallocFrees DEF StepEffect
<1>3. QED
  BY <1>1, <1>2 DEF Next, StepEffect

LEMMA TablesInvStep == TablesInv /\ [Next]_vars => TablesInv'
<1> SUFFICES ASSUME TablesInv, [Next]_vars PROVE TablesInv'
  OBVIOUS
<1>1. CASE Next
  BY <1>1, NextEffect, MapPageStep, UnmapPageStep, ForgetPagesStep, RefuseStep,
     BlockTakenStep, AddPageStep, BlockFreedStep DEF StepEffect
<1>2. CASE UNCHANGED vars
  <2>1. TypeOK'
    BY <1>2 DEF vars, tables, TablesInv, TypeOK
  <2>2. QED
    BY <1>2, <2>1 DEF vars, tables, TablesInv, PagesDisjoint, PagesSet, PageSound, InUse
<1>3. QED
  BY <1>1, <1>2

THEOREM TablesInvariant == Spec => []TablesInv
BY TablesInvInit, TablesInvStep, PTL DEF Spec

(* No chunk is lost or given out twice, no block runs over its page, and   *)
(* no two pages overlap, for any calls with any sizes and pointers.        *)
THEOREM AllocatorsAreSound == Spec => []AllocInv
BY TablesInvariant, TablesInvImplies, PTL

-----------------------------------------------------------------------------
(* Room is used.                                                           *)

LEMMA PageThere ==
  ASSUME TablesInv, header = "alloc.h" => pages[0] # NULL, NEW i \in InUse
  PROVE  pages[i] # NULL /\ pages[i] \in Nat /\ PageOK(free_chunks[i], alloc_sizes[i])
<1>1. TypeOK /\ pages[i] \in Nat
  BY TypeFacts DEF TablesInv
<1>2. CASE header = "alloc.h"
  BY <1>1, <1>2 DEF TablesInv, TypeOK, InUse, PageSound
<1>3. CASE header = "ealloc.h"
  BY <1>1, <1>3 DEF TablesInv, PagesSet, PageSound
<1>4. QED
  BY <1>1, <1>2, <1>3 DEF TypeOK

LEMMA RoomIsFound ==
  ASSUME TablesInv, header = "alloc.h" => pages[0] # NULL,
         NEW n \in 1 .. NUMCHUNKS, RoomFor(n)
  PROVE  HasRoom(n)
<1>1. PICK i \in InUse, first \in 0 .. NUMCHUNKS - n :
        \A c \in first .. first + n - 1 : ~InBlock(i, c)
  BY DEF RoomFor
<1>2. PageOK(free_chunks[i], alloc_sizes[i])
  BY PageThere
<1>3. PageType(free_chunks[i], alloc_sizes[i])
  BY TypeFacts DEF TablesInv
<1>4. NUMCHUNKS \in Nat /\ Chunks = 0 .. NUMCHUNKS - 1
  BY PageIsChunks DEF Chunks
<1>5. ASSUME NEW k \in 0 .. n - 1
      PROVE  free_chunks[i][first + k] = 1
  <2>1. first + k \in Chunks /\ first + k \in first .. first + n - 1
    BY <1>4
  <2>2. ~Covered(alloc_sizes[i], first + k)
    <3> DEFINE c == first + k
    <3>1. ~InBlock(i, c)
      BY <1>1, <2>1
    <3>2. SUFFICES ASSUME NEW b \in Chunks, alloc_sizes[i][b] > 0,
                          b <= c, c < b + alloc_sizes[i][b]
                   PROVE  FALSE
      BY DEF Covered
    <3>3. alloc_sizes[i][b] \in Int /\ b \in Int /\ c \in Int
      BY <1>3, <1>4, <2>1 DEF PageType
    <3> HIDE DEF c
    <3>4. c \in b .. b + alloc_sizes[i][b] - 1
      BY <3>2, <3>3
    <3>5. QED
      BY <3>1, <3>2, <3>4, InBlockCovered
  <2>3. QED
    BY <1>2, <1>3, <2>1, <2>2 DEF PageOK, PageType
<1>6. first \in Fits(i, n)
  BY <1>5 DEF Fits
<1>7. QED
  BY <1>6 DEF HasRoom

(* A legal call is refused, or maps a page, only when no run of free       *)
(* chunks is long enough.                                                  *)
THEOREM RoomIsAlwaysUsed == Spec => RoomIsUsed
<1>1. ASSUME TablesInv, NEW n \in 1 .. NUMCHUNKS, alloc(n * MINALLOC),
             ret' = NULL \/ num_pages' > num_pages,
             header = "alloc.h" => pages[0] # NULL, RoomFor(n)
      PROVE  FALSE
  <2>1. HasRoom(n)
    BY <1>1, RoomIsFound
  <2>2. UsePage(n) /\ UNCHANGED header
    BY <1>1, <2>1, GoodSize DEF alloc
  <2>3. PICK i \in InUse, j \in Chunks : BlockTaken(i, j, n)
    BY <2>2, UsePageTakes
  <2>4. pages[i] \in Nat /\ pages[i] # NULL
    BY <1>1, PageThere
  <2>5. j \in Nat /\ MINALLOC \in Nat /\ num_pages \in Nat
    BY <1>1, TypeFacts, PageIsChunks DEF Chunks, TablesInv
  <2>6. ret' = pages[i] + j * MINALLOC /\ num_pages' = num_pages
    BY <2>3 DEF BlockTaken
  <2>7. ret' > 0
    BY <2>4, <2>5, <2>6 DEF NULL
  <2>8. QED
    BY <1>1, <2>5, <2>6, <2>7 DEF NULL
<1>2. TablesInv /\ [Next]_vars =>
        [\A n \in 1 .. NUMCHUNKS :
           /\ alloc(n * MINALLOC)
           /\ ret' = NULL \/ num_pages' > num_pages
           /\ header = "alloc.h" => pages[0] # NULL
           => ~RoomFor(n)]_vars
  BY <1>1
<1>3. QED
  BY <1>2, TablesInvariant, PTL DEF Spec, RoomIsUsed

-----------------------------------------------------------------------------
(* The abstract heap: chunk c of page i is its chunk i * NUMCHUNKS + c.    *)

Blocks == UNION {{<<i * NUMCHUNKS + b[1], b[2]>> : b \in BlocksOf(i)} : i \in InUse}

LEMMA BlocksAre ==
  \A b : b \in Blocks <=>
    \E i \in InUse, j \in Chunks :
      alloc_sizes[i][j] > 0 /\ b = <<i * NUMCHUNKS + j, alloc_sizes[i][j]>>
<1>1. ASSUME NEW b, b \in Blocks
      PROVE  \E i \in InUse, j \in Chunks :
               alloc_sizes[i][j] > 0 /\ b = <<i * NUMCHUNKS + j, alloc_sizes[i][j]>>
  <2>1. PICK i \in InUse : b \in {<<i * NUMCHUNKS + d[1], d[2]>> : d \in BlocksOf(i)}
    BY <1>1 DEF Blocks
  <2>2. PICK d \in BlocksOf(i) : b = <<i * NUMCHUNKS + d[1], d[2]>>
    BY <2>1
  <2>3. PICK j \in Chunks : alloc_sizes[i][j] > 0 /\ d = <<j, alloc_sizes[i][j]>>
    BY DEF BlocksOf
  <2>4. d[1] = j /\ d[2] = alloc_sizes[i][j]
    BY <2>3
  <2>5. QED
    BY <2>2, <2>3, <2>4
<1>2. ASSUME NEW i \in InUse, NEW j \in Chunks, alloc_sizes[i][j] > 0
      PROVE  <<i * NUMCHUNKS + j, alloc_sizes[i][j]>> \in Blocks
  <2> DEFINE d == <<j, alloc_sizes[i][j]>>
  <2>1. d \in BlocksOf(i)
    BY <1>2 DEF BlocksOf
  <2>2. d[1] = j /\ d[2] = alloc_sizes[i][j]
    OBVIOUS
  <2> HIDE DEF d
  <2>3. <<i * NUMCHUNKS + d[1], d[2]>> \in Blocks
    BY <2>1 DEF Blocks
  <2>4. QED
    BY <2>2, <2>3
<1>3. QED
  BY <1>1, <1>2

(* Chunks of different pages are different, and ordered like the pages.    *)
LEMMA PageOrder ==
  ASSUME NEW i \in Nat, NEW p \in Nat, i < p, NEW c \in Nat
  PROVE  i * c + c <= p * c
OBVIOUS

LEMMA ChunkNumbers ==
  ASSUME NEW i \in Nat, NEW p \in Nat, NEW j \in Chunks, NEW k \in Chunks,
         i * NUMCHUNKS + j = p * NUMCHUNKS + k
  PROVE  i = p /\ j = k
<1>1. NUMCHUNKS \in Nat /\ j \in 0 .. NUMCHUNKS - 1 /\ k \in 0 .. NUMCHUNKS - 1
  BY PageIsChunks DEF Chunks
<1> DEFINE ci == i * NUMCHUNKS
           cp == p * NUMCHUNKS
<1>2. ci \in Int /\ cp \in Int
  BY <1>1
<1>3. (i < p => ci + NUMCHUNKS <= cp) /\ (p < i => cp + NUMCHUNKS <= ci)
  BY <1>1, PageOrder
<1>4. ci + j = cp + k
  OBVIOUS
<1> HIDE DEF ci, cp
<1>5. ~(i < p) /\ ~(p < i)
  BY <1>1, <1>2, <1>3, <1>4
<1>6. i = p
  BY <1>5
<1>7. j = k
  BY <1>1, <1>2, <1>4, <1>6 DEF ci, cp
<1>8. QED
  BY <1>6, <1>7

(* Chunks i, j and the n - 1 after it are in no block: the heap may        *)
(* allocate them.                                                          *)
LEMMA AllocateAt ==
  ASSUME TypeOK, NEW i \in 0 .. MAXPAGES - 1, NEW j \in Chunks, NEW n \in 1 .. NUMCHUNKS,
         j + n <= NUMCHUNKS,
         \A p \in InUse : PageSound(p),
         i \in InUse => \A c \in Chunks : c \in j .. j + n - 1 => free_chunks[i][c] = 1,
         Blocks' = Blocks \cup {<<i * NUMCHUNKS + j, n>>}
  PROVE  H!Allocate
<1> DEFINE first == i * NUMCHUNKS + j
<1>1. NUMCHUNKS \in Nat \ {0} /\ Chunks = 0 .. NUMCHUNKS - 1 /\ MAXPAGES \in Nat \ {0}
  BY PageIsChunks, AllocatorsAssumption DEF Chunks
<1>2. i * NUMCHUNKS \in Nat /\ i * NUMCHUNKS + NUMCHUNKS <= MAXPAGES * NUMCHUNKS
      /\ MAXPAGES * NUMCHUNKS \in Nat
  BY <1>1, PageOrder
<1>3. /\ first \in 0 .. MAXPAGES * NUMCHUNKS - 1 /\ n \in 1 .. MAXPAGES * NUMCHUNKS
      /\ first + n <= MAXPAGES * NUMCHUNKS
  BY <1>1, <1>2
<1>4. ASSUME NEW p \in InUse, NEW k \in Chunks, alloc_sizes[p][k] > 0
      PROVE  \/ p * NUMCHUNKS + k + alloc_sizes[p][k] <= first
             \/ first + n <= p * NUMCHUNKS + k
  <2> DEFINE sizes == alloc_sizes[p]
  <2>1. PageOK(free_chunks[p], sizes) /\ PageType(free_chunks[p], sizes)
    BY <1>1, <1>4, TypeFacts DEF PageSound, Blank
  <2>2. p \in Nat /\ sizes[k] \in Nat /\ k + sizes[k] <= NUMCHUNKS /\ k \in Nat
    BY <1>1, <1>4, <2>1 DEF PageOK, PageType, InUse
  <2> DEFINE cp == p * NUMCHUNKS
             ci == i * NUMCHUNKS
  <2>3. cp \in Nat /\ ci \in Nat
    BY <1>1, <2>2
  <2>4. CASE p < i
    <3>1. cp + NUMCHUNKS <= ci
      BY <1>1, <2>2, <2>4, PageOrder
    <3> HIDE DEF cp, ci
    <3>2. cp + k + sizes[k] <= ci + j
      BY <1>1, <2>2, <2>3, <3>1
    <3>3. QED
      BY <3>2 DEF cp, ci
  <2>5. CASE i < p
    <3>1. ci + NUMCHUNKS <= cp
      BY <1>1, <2>2, <2>5, PageOrder
    <3> HIDE DEF cp, ci
    <3>2. ci + j + n <= cp + k
      BY <1>1, <2>2, <2>3, <3>1
    <3>3. QED
      BY <3>2 DEF cp, ci
  <2>6. CASE p = i
    <3>1. \A c \in Chunks : c \in j .. j + n - 1 => ~Covered(sizes, c)
      BY <2>1, <2>6 DEF PageOK
    <3>2. CASE k <= j
      <4>1. ~(j < k + sizes[k])
        BY <1>1, <1>4, <3>1, <3>2 DEF Covered
      <4>2. k + sizes[k] <= j
        BY <1>1, <2>2, <4>1
      <4>3. QED
        BY <2>2, <2>3, <2>6, <4>2, <1>1
    <3>3. CASE j < k
      <4>1. ~(k < j + n)
        BY <1>1, <1>4, <2>2, <3>1, <3>3 DEF Covered
      <4>2. QED
        BY <1>1, <2>2, <2>3, <2>6, <4>1
    <3>4. QED
      BY <1>1, <3>2, <3>3
  <2>7. QED
    BY <2>2, <2>4, <2>5, <2>6
<1>5. ASSUME NEW b \in Blocks
      PROVE  H!ChunksOf(b) \cap H!ChunksOf(<<first, n>>) = {}
  <2>1. PICK p \in InUse, k \in Chunks :
          alloc_sizes[p][k] > 0 /\ b = <<p * NUMCHUNKS + k, alloc_sizes[p][k]>>
    BY BlocksAre
  <2>2. /\ b[1] = p * NUMCHUNKS + k /\ b[2] = alloc_sizes[p][k]
        /\ <<first, n>>[1] = first /\ <<first, n>>[2] = n
    BY <2>1
  <2>3. b[1] + b[2] <= first \/ first + n <= b[1]
    BY <1>4, <2>1, <2>2
  <2>4. b[1] \in Int /\ b[2] \in Int /\ first \in Int
    BY <1>1, <1>3, <2>1, <2>2, TypeFacts DEF PageType, InUse
  <2> HIDE DEF first
  <2>5. QED
    BY <2>2, <2>3, <2>4 DEF H!ChunksOf
<1>6. QED
  BY <1>3, <1>5 DEF H!Allocate, Blocks

LEMMA BlocksAreNext ==
  \A b : b \in Blocks' <=>
    \E i \in InUse', j \in Chunks :
      alloc_sizes'[i][j] > 0 /\ b = <<i * NUMCHUNKS + j, alloc_sizes'[i][j]>>
<1>1. (\A b : b \in Blocks <=>
         \E i \in InUse, j \in Chunks :
           alloc_sizes[i][j] > 0 /\ b = <<i * NUMCHUNKS + j, alloc_sizes[i][j]>>)'
  BY BlocksAre, PTL
<1>2. QED
  BY <1>1

LEMMA SameBlocks ==
  ASSUME InUse' = InUse, \A i \in InUse : alloc_sizes'[i] = alloc_sizes[i]
  PROVE  Blocks' = Blocks
<1>1. \A b : b \in Blocks' <=> b \in Blocks
  BY BlocksAre, BlocksAreNext
<1>2. QED
  BY <1>1

(* The three ways in which the blocks change.                              *)
LEMMA BlockTakenAllocates ==
  ASSUME TablesInv, NEW n \in 1 .. NUMCHUNKS, NEW i \in InUse, NEW j \in Chunks,
         BlockTaken(i, j, n)
  PROVE  H!Allocate
<1>1. TypeOK /\ i \in 0 .. MAXPAGES - 1 /\ InUse \subseteq 0 .. MAXPAGES - 1
      /\ \A p \in InUse : PageSound(p)
  BY TypeFacts DEF TablesInv
<1>2. /\ InUse' = InUse /\ alloc_sizes[i][j] = 0
      /\ alloc_sizes'[i] = [alloc_sizes[i] EXCEPT ![j] = n]
      /\ \A p \in InUse : p # i => alloc_sizes'[p] = alloc_sizes[p]
      /\ DOMAIN alloc_sizes[i] = Chunks
  <2>1. alloc_sizes[i][j] = 0
    BY BlockTakenStep
  <2>2. InUse' = InUse
    BY DEF BlockTaken, InUse
  <2>3. DOMAIN alloc_sizes = 0 .. MAXPAGES - 1 /\ DOMAIN alloc_sizes[i] = Chunks
    BY <1>1 DEF TypeOK
  <2>4. alloc_sizes' = [alloc_sizes EXCEPT ![i] = [alloc_sizes[i] EXCEPT ![j] = n]]
    BY DEF BlockTaken
  <2>5. QED
    BY <1>1, <2>1, <2>2, <2>3, <2>4
<1>3. \A b : b \in Blocks' <=>
        \E p \in InUse', k \in Chunks :
          alloc_sizes'[p][k] > 0 /\ b = <<p * NUMCHUNKS + k, alloc_sizes'[p][k]>>
  BY BlocksAreNext
<1> DEFINE new == <<i * NUMCHUNKS + j, n>>
<1>4. ASSUME NEW p \in InUse, NEW k \in Chunks, alloc_sizes'[p][k] > 0
      PROVE  <<p * NUMCHUNKS + k, alloc_sizes'[p][k]>> \in Blocks \cup {new}
  <2>1. CASE p = i /\ k = j
    BY <1>2, <2>1
  <2>2. CASE ~(p = i /\ k = j)
    <3>1. alloc_sizes'[p][k] = alloc_sizes[p][k]
      BY <1>2, <2>2
    <3>2. QED
      BY <1>4, <3>1, BlocksAre
  <2>3. QED
    BY <2>1, <2>2
<1>5. ASSUME NEW p \in InUse, NEW k \in Chunks, alloc_sizes[p][k] > 0
      PROVE  alloc_sizes'[p][k] = alloc_sizes[p][k]
  BY <1>2, <1>5
<1>6. alloc_sizes'[i][j] = n /\ n > 0
  BY <1>2
<1>7. Blocks' \subseteq Blocks \cup {new}
  BY <1>2, <1>3, <1>4
<1>8. Blocks \subseteq Blocks'
  BY <1>2, <1>3, <1>5, BlocksAre
<1>9. new \in Blocks'
  BY <1>2, <1>3, <1>6
<1>10. Blocks' = Blocks \cup {new}
  BY <1>7, <1>8, <1>9
<1>11. \A c \in Chunks : c \in j .. j + n - 1 => free_chunks[i][c] = 1
  BY DEF BlockTaken
<1>12. QED
  BY <1>1, <1>10, <1>11, AllocateAt DEF BlockTaken

LEMMA AddPageAllocates ==
  ASSUME TablesInv, NEW n \in 1 .. NUMCHUNKS, MayMap, AddPage(n), UNCHANGED header
  PROVE  H!Allocate
<1>1. /\ InUse' = InUse \cup {num_pages} /\ num_pages \notin InUse
      /\ num_pages \in 0 .. MAXPAGES - 1
      /\ alloc_sizes'[num_pages] = [c \in Chunks |-> IF c = 0 THEN n ELSE 0]
      /\ \A k \in InUse : alloc_sizes'[k] = alloc_sizes[k]
  BY AddPageStep
<1>2. \A b : b \in Blocks' <=>
        \E p \in InUse', k \in Chunks :
          alloc_sizes'[p][k] > 0 /\ b = <<p * NUMCHUNKS + k, alloc_sizes'[p][k]>>
  BY BlocksAreNext
<1>3. 0 \in Chunks /\ 0 + n <= NUMCHUNKS
  BY PageIsChunks DEF Chunks
<1> DEFINE new == <<num_pages * NUMCHUNKS + 0, n>>
<1>4. ASSUME NEW p \in InUse', NEW k \in Chunks, alloc_sizes'[p][k] > 0
      PROVE  <<p * NUMCHUNKS + k, alloc_sizes'[p][k]>> \in Blocks \cup {new}
  <2>1. CASE p = num_pages
    BY <1>1, <1>4, <2>1
  <2>2. CASE p # num_pages
    BY <1>1, <1>4, <2>2, BlocksAre
  <2>3. QED
    BY <2>1, <2>2
<1>5. new \in Blocks'
  <2>1. num_pages \in InUse' /\ alloc_sizes'[num_pages][0] = n /\ n > 0
    BY <1>1, <1>3
  <2>2. QED
    BY <1>2, <1>3, <2>1
<1>6. Blocks' \subseteq Blocks \cup {new}
  BY <1>2, <1>4
<1>7. Blocks \subseteq Blocks'
  BY <1>1, <1>2, BlocksAre
<1>8. Blocks' = Blocks \cup {new}
  BY <1>5, <1>6, <1>7
<1>9. QED
  BY <1>1, <1>3, <1>8, AllocateAt DEF TablesInv

LEMMA BlockFreedFrees ==
  ASSUME TablesInv, NEW i \in InUse, NEW j \in Chunks, BlockFreed(i, j)
  PROVE  H!Free
<1>1. TypeOK /\ i \in 0 .. MAXPAGES - 1 /\ InUse \subseteq 0 .. MAXPAGES - 1
  BY TypeFacts DEF TablesInv
<1>2. /\ InUse' = InUse /\ alloc_sizes[i][j] > 0
      /\ alloc_sizes'[i] = [alloc_sizes[i] EXCEPT ![j] = 0]
      /\ \A p \in InUse : p # i => alloc_sizes'[p] = alloc_sizes[p]
      /\ DOMAIN alloc_sizes[i] = Chunks
  BY <1>1, TypeFacts DEF BlockFreed, InUse, TypeOK, PageType
<1>3. \A b : b \in Blocks' <=>
        \E p \in InUse', k \in Chunks :
          alloc_sizes'[p][k] > 0 /\ b = <<p * NUMCHUNKS + k, alloc_sizes'[p][k]>>
  BY BlocksAreNext
<1> DEFINE old == <<i * NUMCHUNKS + j, alloc_sizes[i][j]>>
<1>4. /\ alloc_sizes'[i][j] = 0
      /\ \A p \in InUse, k \in Chunks :
           ~(p = i /\ k = j) => alloc_sizes'[p][k] = alloc_sizes[p][k]
  BY <1>2
<1>5. ASSUME NEW p \in InUse, NEW k \in Chunks, ~(p = i /\ k = j)
      PROVE  <<p * NUMCHUNKS + k, alloc_sizes[p][k]>> # old
  <2>1. p \in Nat /\ i \in Nat
    BY DEF InUse
  <2>2. p * NUMCHUNKS + k # i * NUMCHUNKS + j
    BY <1>5, <2>1, ChunkNumbers
  <2>3. QED
    BY <2>2
<1>6. old \in Blocks
  BY <1>2, BlocksAre
<1>7. ASSUME NEW b, b \in Blocks'
      PROVE  b \in Blocks \ {old}
  <2>1. PICK p \in InUse, k \in Chunks :
          alloc_sizes'[p][k] > 0 /\ b = <<p * NUMCHUNKS + k, alloc_sizes'[p][k]>>
    BY <1>2, <1>3, <1>7
  <2>2. ~(p = i /\ k = j)
    BY <1>4, <2>1
  <2>3. b = <<p * NUMCHUNKS + k, alloc_sizes[p][k]>> /\ alloc_sizes[p][k] > 0
    BY <1>4, <2>1, <2>2
  <2>4. QED
    BY <1>5, <2>2, <2>3, BlocksAre
<1>8. ASSUME NEW b, b \in Blocks, b # old
      PROVE  b \in Blocks'
  <2>1. PICK p \in InUse, k \in Chunks :
          alloc_sizes[p][k] > 0 /\ b = <<p * NUMCHUNKS + k, alloc_sizes[p][k]>>
    BY <1>8, BlocksAre
  <2>2. ~(p = i /\ k = j)
    BY <1>8, <2>1
  <2>3. b = <<p * NUMCHUNKS + k, alloc_sizes'[p][k]>> /\ alloc_sizes'[p][k] > 0
    BY <1>4, <2>1, <2>2
  <2>4. QED
    BY <1>2, <1>3, <2>3
<1>9. Blocks' = Blocks \ {old}
  BY <1>7, <1>8
<1>10. QED
  BY <1>6, <1>9 DEF H!Free, Blocks

LEMMA BlankNoBlocks ==
  ASSUME \A i \in InUse : \A j \in Chunks : ~(alloc_sizes[i][j] > 0)
  PROVE  Blocks = {}
BY BlocksAre

(* Both allocators implement the heap: alloc allocates, dealloc frees, and *)
(* setting up the tables afresh resets.                                    *)
THEOREM AllocatorsImplementHeap == Spec => RefinesHeap
<1>1. Init => H!Init
  <2> SUFFICES ASSUME Init PROVE H!Init
    OBVIOUS
  <2>1. \A i \in InUse : \A j \in Chunks : ~(alloc_sizes[i][j] > 0)
    BY AllocatorsAssumption DEF Init, InUse, Nothing
  <2>2. QED
    BY <2>1, BlankNoBlocks DEF H!Init, Blocks
<1>2. ASSUME TablesInv, [Next]_vars
      PROVE  [H!Next]_Blocks
  <2> USE <1>2
  <2>0. ((\A i \in InUse : \A j \in Chunks : ~(alloc_sizes[i][j] > 0)) => Blocks = {})'
    BY BlankNoBlocks, PTL
  <2>1. CASE MapPage
    <3>1. InUse' = {0} /\ alloc_sizes'[0] = NoBlocks
      BY <2>1, AllocatorsAssumption DEF TablesInv, TypeOK, MapPage, InUse, NoBlocks, SizesAtStart
    <3>2. Blocks' = {}
      BY <2>0, <3>1 DEF NoBlocks
    <3>3. QED
      BY <3>2 DEF H!Next, H!Reset, Blocks
  <2>2. CASE UnmapPage
    BY <2>2, SameBlocks DEF UnmapPage, InUse
  <2>3. CASE ForgetPages
    <3>1. Blocks' = {}
      BY <2>0, <2>3, ForgetPagesStep
    <3>2. QED
      BY <3>1 DEF H!Next, H!Reset, Blocks
  <2>4. CASE Refuse /\ UNCHANGED header
    BY <2>4, SameBlocks DEF Refuse, tables, InUse
  <2>5. ASSUME NEW n \in 1 .. NUMCHUNKS, NEW i \in InUse, NEW j \in Chunks,
               BlockTaken(i, j, n)
        PROVE  H!Next
    BY <2>5, BlockTakenAllocates DEF H!Next
  <2>6. ASSUME NEW n \in 1 .. NUMCHUNKS, MayMap, AddPage(n), UNCHANGED header
        PROVE  H!Next
    BY <2>6, AddPageAllocates DEF H!Next
  <2>7. ASSUME NEW i \in InUse, NEW j \in Chunks, BlockFreed(i, j)
        PROVE  H!Next
    BY <2>7, BlockFreedFrees DEF H!Next
  <2>8. CASE UNCHANGED vars
    BY <2>8, SameBlocks DEF vars, tables, InUse
  <2>9. QED
    BY <2>1, <2>2, <2>3, <2>4, <2>5, <2>6, <2>7, <2>8, NextEffect DEF StepEffect
<1>3. QED
  BY <1>1, <1>2, TablesInvariant, PTL DEF Spec, RefinesHeap, H!Spec, Blocks
=============================================================================
