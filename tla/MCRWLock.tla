------------------------------ MODULE MCRWLock ------------------------------
(* Model-checking instance of RWLock.                                      *)
EXTENDS RWLock
=============================================================================
