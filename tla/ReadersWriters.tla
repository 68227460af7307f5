--------------------------- MODULE ReadersWriters ---------------------------
(***************************************************************************)
(* What a reader-writer lock promises its callers, whatever its            *)
(* preference: many readers or one writer inside.  The detailed lock       *)
(* (RWLock) is shown to implement this specification.                      *)
(***************************************************************************)
EXTENDS Naturals

CONSTANTS Readers, Writers

VARIABLES reading,   \* the threads between ReaderLock and ReaderUnlock
          writing    \* the threads between WriterLock and WriterUnlock

vars == <<reading, writing>>

Init == reading = {} /\ writing = {}

StartReading(t) ==
  /\ t \in Readers \ reading
  /\ writing = {}
  /\ reading' = reading \cup {t}
  /\ UNCHANGED writing

StopReading(t) ==
  /\ t \in reading
  /\ reading' = reading \ {t}
  /\ UNCHANGED writing

StartWriting(t) ==
  /\ t \in Writers
  /\ reading = {} /\ writing = {}
  /\ writing' = {t}
  /\ UNCHANGED reading

StopWriting(t) ==
  /\ writing = {t}
  /\ writing' = {}
  /\ UNCHANGED reading

Next ==
  \/ \E t \in Readers : StartReading(t) \/ StopReading(t)
  \/ \E t \in Writers : StartWriting(t) \/ StopWriting(t)

Spec == Init /\ [][Next]_vars
=============================================================================
