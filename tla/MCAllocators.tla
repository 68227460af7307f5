---------------------------- MODULE MCAllocators ----------------------------
(* Model-checking instance of Allocators.                                  *)
EXTENDS Allocators

(* Where mmap puts pages: right behind the addresses that a caller of      *)
(* alloc.h sees when there is no page, right behind that, and further up.  *)
SomeAddresses == {PAGESIZE, 2 * PAGESIZE, 4 * PAGESIZE}
=============================================================================
