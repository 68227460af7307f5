--------------------------- MODULE MCMasterWorker ---------------------------
(* Model-checking instances of MasterWorker.                               *)
EXTENDS MasterWorker
=============================================================================
