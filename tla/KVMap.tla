------------------------------- MODULE KVMap -------------------------------
(***************************************************************************)
(* What the key-value service promises: a map from keys to values that     *)
(* executes one command at a time, and answers each with what the map says *)
(* at that moment.  An answer can get lost with the client it is for.      *)
(***************************************************************************)
CONSTANTS Commands,          \* records with the fields op, key and value
          Key, Value,
          Room(_),           \* whether a key can be added to a set of keys
          NoAnswer

VARIABLES dict,              \* the map
          answer             \* the last answer, until its client has read it

Init == dict = [k \in {} |-> {}] /\ answer = NoAnswer

Answered(cmd, response) == answer' \in {<<cmd, response>>, NoAnswer}

Create(cmd) ==
  IF cmd.key \in DOMAIN dict
  THEN Answered(cmd, <<"Error: Key already exists">>) /\ UNCHANGED dict
  ELSE IF Room(DOMAIN dict)
  THEN /\ Answered(cmd, <<"OK">>)
       /\ dict' = [k \in DOMAIN dict \cup {cmd.key} |->
                     IF k = cmd.key THEN cmd.value ELSE dict[k]]
  ELSE Answered(cmd, <<"Error: Store full">>) /\ UNCHANGED dict

Read(cmd) ==
  /\ Answered(cmd, IF cmd.key \in DOMAIN dict THEN <<"Value: ", dict[cmd.key]>>
                                              ELSE <<"Error: Key not found">>)
  /\ UNCHANGED dict

Update(cmd) ==
  IF cmd.key \in DOMAIN dict
  THEN Answered(cmd, <<"OK">>) /\ dict' = [dict EXCEPT ![cmd.key] = cmd.value]
  ELSE Answered(cmd, <<"Error: Key not found">>) /\ UNCHANGED dict

Delete(cmd) ==
  IF cmd.key \in DOMAIN dict
  THEN Answered(cmd, <<"OK">>) /\ dict' = [k \in DOMAIN dict \ {cmd.key} |-> dict[k]]
  ELSE Answered(cmd, <<"Error: Key not found">>) /\ UNCHANGED dict

Reject(cmd) == Answered(cmd, <<"Error: Invalid command">>) /\ UNCHANGED dict

AnswerRead == answer' = NoAnswer /\ UNCHANGED dict

Next ==
  \/ \E cmd \in Commands :
       \/ cmd.op = "create" /\ Create(cmd)
       \/ cmd.op = "read" /\ Read(cmd)
       \/ cmd.op = "update" /\ Update(cmd)
       \/ cmd.op = "delete" /\ Delete(cmd)
       \/ cmd.op = "invalid" /\ Reject(cmd)
  \/ AnswerRead

Spec == Init /\ [][Next]_<<dict, answer>>
=============================================================================
