----------------------------- MODULE MCKVServer -----------------------------
(* Model-checking instance of KVServer.                                    *)
EXTENDS KVServer

CONSTANTS k1, k2, k3, v1

ThreeKeys == {k1, k2, k3}
(* A value may be the text of an error.                                    *)
ErrorText == "Error: Key not found"
TwoValues == {v1, ErrorText}

(* Every key can be created and deleted; the first one is read and updated *)
(* as well.                                                                *)
SomeCommands ==
  [op : {"create"}, key : Key, value : {v1}]
    \cup [op : {"delete"}, key : Key]
    \cup [op : {"update"}, key : {k1}, value : {ErrorText}]
    \cup [op : {"read"}, key : {k1}]
    \cup {[op |-> "invalid"]}
=============================================================================
