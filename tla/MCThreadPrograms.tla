-------------------------- MODULE MCThreadPrograms --------------------------
(* Model-checking instances of ThreadPrograms.                             *)
EXTENDS ThreadPrograms, TLC

(* zem_t zem[NUM_THREADS]                                                  *)
ThreeZems == 0 :> "zem0" @@ 1 :> "zem1" @@ 2 :> "zem2"
=============================================================================
