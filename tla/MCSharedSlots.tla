--------------------------- MODULE MCSharedSlots ---------------------------
(* Model-checking instance of SharedSlots.                                 *)
EXTENDS SharedSlots
=============================================================================
