---------------------------- MODULE MCEchoServer ----------------------------
(* Model-checking instance of EchoServer.                                  *)
EXTENDS EchoServer

(* Kept is SelectSeq, on every list with up to four elements.              *)
ASSUME KeptIsSelectSeq ==
  \A S \in SUBSET (1 .. 4) : \A m \in 0 .. 4 : \A s \in [1 .. m -> 1 .. 4] :
    Kept(s, S) = SelectSeq(s, LAMBDA x : x \in S)
=============================================================================
