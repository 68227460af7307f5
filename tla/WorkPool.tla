------------------------------ MODULE WorkPool ------------------------------
(***************************************************************************)
(* What the master-worker program promises: numbered items are made in     *)
(* order and put in a pool of limited size, and each item is taken out of  *)
(* the pool once.  Which pooled item is taken is left open.                *)
(***************************************************************************)
EXTENDS Naturals, FiniteSets

CONSTANT Size       \* how many items the pool holds

VARIABLES made,     \* how many items have been made: 0 .. made - 1
          pool,     \* those not taken yet
          taken     \* those taken

vars == <<made, pool, taken>>

Init == made = 0 /\ pool = {} /\ taken = {}

Make ==
  /\ Cardinality(pool) < Size
  /\ pool' = pool \cup {made}
  /\ made' = made + 1
  /\ UNCHANGED taken

Take ==
  \E item \in pool :
    /\ pool' = pool \ {item}
    /\ taken' = taken \cup {item}
    /\ UNCHANGED made

Next == Make \/ Take

Spec == Init /\ [][Next]_vars
=============================================================================
