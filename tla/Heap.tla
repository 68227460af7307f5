-------------------------------- MODULE Heap --------------------------------
(***************************************************************************)
(* What a memory allocator promises: the blocks it has handed out and not  *)
(* got back never overlap and lie inside the memory it manages.  A block   *)
(* is a pair <<first chunk, number of chunks>>.                            *)
(***************************************************************************)
EXTENDS Integers

CONSTANT Size       \* chunks of memory, numbered from 0

VARIABLE blocks     \* the blocks in use

ChunksOf(b) == b[1] .. b[1] + b[2] - 1

Init == blocks = {}

(* Which free chunks are used is the allocator's choice.                   *)
Allocate ==
  \E first \in 0 .. Size - 1, n \in 1 .. Size :
    /\ first + n <= Size
    /\ \A b \in blocks : ChunksOf(b) \cap ChunksOf(<<first, n>>) = {}
    /\ blocks' = blocks \cup {<<first, n>>}

Free == \E b \in blocks : blocks' = blocks \ {b}

(* The memory is set up afresh.                                            *)
Reset == blocks' = {}

Next == Allocate \/ Free \/ Reset

Spec == Init /\ [][Next]_blocks
=============================================================================
