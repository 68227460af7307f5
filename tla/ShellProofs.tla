---------------------------- MODULE ShellProofs ----------------------------
(***************************************************************************)
(* Theorems about Shell, for lines of any length, any number of children   *)
(* and of background slots.                                                *)
(***************************************************************************)
EXTENDS Shell, FiniteSetTheorems, SequenceTheorems, TLAPS

-----------------------------------------------------------------------------
(* The inductive invariant.                                                *)

OneByOne == line \in {"foreground", "serial"}

(* What each place in the shell says of the line that is executed there.   *)
(* fg_pid is set exactly while a command of the foreground is waited for.  *)
PlaceOfLine ==
  /\ pc = "fork" => todo > 0
  /\ pc = "check" => line \in {"serial", "parallel"}
  /\ pc \in {"fork", "forked"} => line # "cd"
  /\ pc = "wait" => line \notin {"cd", "background"}
  /\ pc = "clear" => OneByOne
  /\ pc = "wait" /\ OneByOne => awaited = <<pid>>
  /\ awaited # <<>> => pc = "wait" \/ (line = "pipe" /\ pc \in {"fork", "forked"})
  /\ fg_pid = IF pc \in {"wait", "clear"} /\ OneByOne THEN pid ELSE -1

(* Which processes the lists of pids hold.  One that runs in the           *)
(* background has left the shell's group.                                  *)
KindsOfPids ==
  /\ pc = "forked" /\ line # "pipe" => pid \in Pids
  /\ pc \in {"wait", "clear"} /\ OneByOne => pid \in Pids
  /\ /\ pc = "forked" \/ (pc \in {"wait", "clear"} /\ OneByOne)
     /\ pid \in Pids
     => children[pid].line = line
  /\ \A p \in Listed(parallel_pids) : children[p].line = "parallel"
  /\ \A p \in Listed(background_pids) : children[p].line = "background"
  /\ \A p \in Pids :
       children[p].line = "background" /\ children[p].state = "running" =>
         children[p].group = "own"

(* A process of a line that has not been reaped is known to the function   *)
(* that executes the line, which will wait for it.                         *)
Unreaped == {p \in Pids : InLine(p) /\ children[p].state # "reaped"}
Known ==
  Listed(awaited)
    \cup (IF line = "parallel" /\ pc \in {"check", "fork", "forked", "exited"}
          THEN Listed(parallel_pids) ELSE {})
    \cup (IF pc = "forked" THEN {pid} ELSE {})

(* The processes in the background are listed, each once, until the list   *)
(* is full.                                                                *)
InBackground == {p \in Pids : children[p].line = "background"}
JustForked == IF pc = "forked" THEN {pid} ELSE {}
BackgroundListed ==
  /\ \A i, k \in 1 .. Len(background_pids) :
       background_pids[i] = background_pids[k] => i = k
  /\ Listed(background_pids) \cap JustForked = {}
  /\ HasSlot => InBackground \subseteq Listed(background_pids) \cup JustForked

Child == [state : {"forked", "running", "stopped", "zombie", "reaped"},
          group : {"shell", "own"}, line : Kinds]
Flags == stop_execution \in BOOLEAN /\ struck \in BOOLEAN
Types ==
  /\ fg_pid \in Pids \cup {-1} /\ pid \in Pids \cup {-1}
  /\ parallel_pids \in Seq(Pids) /\ background_pids \in Seq(Pids)
  /\ Len(background_pids) <= MAX_BACKGROUND_PROCESSES
  /\ pc \in {"top", "prompt", "check", "fork", "forked", "wait", "clear",
             "exited", "crashed"}
  /\ line \in Kinds /\ todo \in 0 .. MaxCommands
  /\ awaited \in Seq(Pids \cup {-1})
  /\ children \in Seq(Child)

JobsInv ==
  /\ Flags /\ Types /\ PlaceOfLine /\ KindsOfPids
  /\ Unreaped \subseteq Known /\ BackgroundListed

LEMMA TypeOKParts == TypeOK <=> Flags /\ Types
BY DEF TypeOK, Flags, Types, Child

-----------------------------------------------------------------------------
(* Children that go on, end, stop or are reaped.                           *)

(* No child of before is lost, changes its line or comes back.             *)
ChildrenKept ==
  /\ children' \in Seq(Child) /\ Len(children') = Len(children)
  /\ \A p \in Pids :
       /\ children'[p].line = children[p].line
       /\ children[p].state = "reaped" => children'[p].state = "reaped"
       /\ children'[p].line = "background" /\ children'[p].state = "running" =>
            \/ children'[p].group = "own"
            \/ children[p].state = "running" /\ children'[p].group = children[p].group

LEMMA ChildFacts ==
  ASSUME children \in Seq(Child)
  PROVE  /\ Len(children) \in Nat /\ Pids = 1 .. Len(children)
         /\ \A p \in Pids : p \in Int /\ p # -1 /\ children[p] \in Child
BY DEF Pids

LEMMA ChildUpdate ==
  ASSUME NEW c \in Child, NEW s
  PROVE  /\ [c EXCEPT !.state = s].state = s
         /\ [c EXCEPT !.state = s].line = c.line
         /\ [c EXCEPT !.state = s].group = c.group
BY DEF Child

LEMMA EndedChildren ==
  ASSUME children \in Seq(Child), NEW ps
  PROVE  /\ Ended(ps) \in Seq(Child) /\ Len(Ended(ps)) = Len(children)
         /\ \A p \in Pids : Ended(ps)[p] = IF p \in ps
                                           THEN [children[p] EXCEPT !.state = "zombie"]
                                           ELSE children[p]
<1>1. Ended(ps) \in [1 .. Len(children) -> Child]
  BY ChildFacts DEF Ended, Child
<1>2. Ended(ps) \in Seq(Child)
  BY <1>1, ChildFacts
<1>3. Len(Ended(ps)) = Len(children)
  BY <1>1, <1>2, ChildFacts, LenProperties
<1>4. QED
  BY <1>2, <1>3 DEF Ended

LEMMA ReapedChildren ==
  ASSUME children \in Seq(Child), NEW ps
  PROVE  /\ Reaped(ps) \in Seq(Child) /\ Len(Reaped(ps)) = Len(children)
         /\ \A p \in Pids : Reaped(ps)[p] = IF p \in ps
                                            THEN [children[p] EXCEPT !.state = "reaped"]
                                            ELSE children[p]
<1>1. Reaped(ps) \in [1 .. Len(children) -> Child]
  BY ChildFacts DEF Reaped, Child
<1>2. Reaped(ps) \in Seq(Child)
  BY <1>1, ChildFacts
<1>3. Len(Reaped(ps)) = Len(children)
  BY <1>1, <1>2, ChildFacts, LenProperties
<1>4. QED
  BY <1>2, <1>3 DEF Reaped

(* A child that has been reaped is none of those that end.                 *)
LEMMA EndingKeeps ==
  ASSUME children \in Seq(Child), NEW ps, ps \cap InState({"reaped"}) = {},
         children' = Ended(ps)
  PROVE  ChildrenKept
<1>1. \A p \in ps \cap Pids : children[p].state # "reaped"
  BY DEF InState
<1>2. \A p \in Pids : children[p] \in Child
  BY ChildFacts
<1>3. \A p \in Pids :
        /\ Ended(ps)[p].line = children[p].line /\ Ended(ps)[p].group = children[p].group
        /\ p \in ps => Ended(ps)[p].state = "zombie"
        /\ p \notin ps => Ended(ps)[p].state = children[p].state
  <2>1. TAKE p \in Pids
  <2>2. CASE p \in ps
    <3>1. Ended(ps)[p] = [children[p] EXCEPT !.state = "zombie"] /\ children[p] \in Child
      BY <1>2, <2>2, EndedChildren
    <3>2. QED
      BY <2>2, <3>1, ChildUpdate
  <2>3. CASE p \notin ps
    BY <2>3, EndedChildren
  <2>4. QED
    BY <2>2, <2>3
<1>4. QED
  BY <1>1, <1>3, EndedChildren DEF ChildrenKept

LEMMA ReapingKeeps ==
  ASSUME children \in Seq(Child), NEW ps, children' = Reaped(ps)
  PROVE  ChildrenKept
<1>1. \A p \in Pids : children[p] \in Child
  BY ChildFacts
<1>2. \A p \in Pids :
        /\ Reaped(ps)[p].line = children[p].line /\ Reaped(ps)[p].group = children[p].group
        /\ p \in ps => Reaped(ps)[p].state = "reaped"
        /\ p \notin ps => Reaped(ps)[p].state = children[p].state
  <2>1. TAKE p \in Pids
  <2>2. CASE p \in ps
    <3>1. Reaped(ps)[p] = [children[p] EXCEPT !.state = "reaped"] /\ children[p] \in Child
      BY <1>1, <2>2, ReapedChildren
    <3>2. QED
      BY <2>2, <3>1, ChildUpdate
  <2>3. CASE p \notin ps
    BY <2>3, ReapedChildren
  <2>4. QED
    BY <2>2, <2>3
<1>3. QED
  BY <1>2, ReapedChildren DEF ChildrenKept

LEMMA ExecKeeps ==
  ASSUME children \in Seq(Child), NEW p \in Pids, Exec(p)
  PROVE  ChildrenKept
<1>1. /\ p \in 1 .. Len(children) /\ children[p] \in Child /\ children[p].state = "forked"
      /\ GroupAtExec(p) \in {"shell", "own"}
      /\ (children[p].line = "background" => GroupAtExec(p) = "own")
  BY ChildFacts DEF Exec, InState, GroupAtExec
<1> DEFINE started == [children[p] EXCEPT !.state = "running", !.group = GroupAtExec(p)]
<1>2. /\ started \in Child /\ started.state = "running" /\ started.line = children[p].line
      /\ started.group = GroupAtExec(p)
  BY <1>1 DEF Child
<1>3. children' = [children EXCEPT ![p] = started]
  BY DEF Exec
<1>4. /\ children' \in Seq(Child) /\ Len(children') = Len(children)
      /\ \A q \in 1 .. Len(children) : children'[q] = IF q = p THEN started ELSE children[q]
  BY <1>1, <1>2, <1>3, ExceptSeq
<1>5. QED
  BY <1>1, <1>2, <1>4, ChildFacts DEF ChildrenKept

LEMMA StoppingKeeps ==
  ASSUME children \in Seq(Child), NEW p \in Pids, ReadTerminal(p)
  PROVE  ChildrenKept
<1>1. p \in 1 .. Len(children) /\ children[p] \in Child /\ children[p].state = "running"
  BY ChildFacts DEF ReadTerminal, InState
<1> DEFINE stopped == [children[p] EXCEPT !.state = "stopped"]
<1>2. stopped \in Child /\ stopped.state = "stopped" /\ stopped.line = children[p].line
  BY <1>1 DEF Child
<1>3. children' = [children EXCEPT ![p] = stopped]
  BY DEF ReadTerminal
<1>4. /\ children' \in Seq(Child) /\ Len(children') = Len(children)
      /\ \A q \in 1 .. Len(children) : children'[q] = IF q = p THEN stopped ELSE children[q]
  BY <1>1, <1>2, <1>3, ExceptSeq
<1>5. QED
  BY <1>1, <1>2, <1>4, ChildFacts DEF ChildrenKept

(* What a step that keeps the children leaves as it was.                   *)
LEMMA KeptFacts ==
  ASSUME children \in Seq(Child), ChildrenKept
  PROVE  /\ Pids' = Pids /\ InBackground' = InBackground
         /\ Unreaped' \subseteq Unreaped
<1>1. Pids' = Pids
  BY DEF Pids, ChildrenKept
<1>2. QED
  BY <1>1 DEF ChildrenKept, InBackground, Unreaped, InLine

-----------------------------------------------------------------------------
(* Every action preserves the invariant, but for its flags.                *)

Jobs == Types /\ PlaceOfLine /\ KindsOfPids /\ Unreaped \subseteq Known /\ BackgroundListed

(* The pids in a list are those of children.                               *)
LEMMA ListedFacts ==
  ASSUME Types
  PROVE  /\ Listed(parallel_pids) \subseteq Pids /\ Listed(background_pids) \subseteq Pids
         /\ Listed(awaited) \subseteq Pids \cup {-1}
BY ElementOfSeq DEF Types, Listed

(* A child moves, and the shell does not.                                  *)
LEMMA ChildMoves ==
  ASSUME Jobs, ChildrenKept,
         UNCHANGED <<fg_pid, parallel_pids, background_pids, pc, line, todo, pid, awaited>>
  PROVE  Jobs'
<1> USE DEF Jobs
<1>1. Pids' = Pids /\ InBackground' = InBackground /\ Unreaped' \subseteq Unreaped
  BY KeptFacts DEF Types
<1>2. Types'
  BY <1>1 DEF Types, ChildrenKept
<1>3. PlaceOfLine'
  BY DEF PlaceOfLine, OneByOne
<1>4. KindsOfPids'
  BY <1>1, ListedFacts DEF KindsOfPids, ChildrenKept, OneByOne, Listed
<1>5. Unreaped' \subseteq Known'
  BY <1>1 DEF Known, Listed
<1>6. BackgroundListed'
  BY <1>1 DEF BackgroundListed, Listed, JustForked, HasSlot
<1>7. QED
  BY <1>2, <1>3, <1>4, <1>5, <1>6

LEMMA ReapKeepsJobs ==
  ASSUME Jobs, reap_background_processes
  PROVE  Jobs'
<1> USE DEF Jobs
<1>0. /\ pc = "top" /\ pc' = "prompt"
      /\ UNCHANGED <<fg_pid, parallel_pids, background_pids, line, todo, pid, awaited>>
  BY DEF reap_background_processes
<1>1. ChildrenKept
  BY ReapingKeeps DEF reap_background_processes, Types
<1>2. Pids' = Pids /\ InBackground' = InBackground /\ Unreaped' \subseteq Unreaped
  BY <1>1, KeptFacts DEF Types
<1>3. Types'
  BY <1>0, <1>1, <1>2 DEF Types, ChildrenKept
<1>4. PlaceOfLine'
  BY <1>0 DEF PlaceOfLine, OneByOne
<1>5. KindsOfPids'
  BY <1>0, <1>1, <1>2, ListedFacts DEF KindsOfPids, ChildrenKept, OneByOne, Listed
<1>6. Unreaped' \subseteq Known'
  BY <1>0, <1>2 DEF Known, Listed
<1>7. BackgroundListed'
  BY <1>0, <1>2 DEF BackgroundListed, Listed, JustForked, HasSlot
<1>8. QED
  BY <1>3, <1>4, <1>5, <1>6, <1>7

LEMMA ReadLineKeepsJobs ==
  ASSUME Jobs, ReadLine
  PROVE  Jobs'
<1> USE DEF Jobs
<1>0. /\ pc = "prompt" /\ awaited' = <<>> /\ line' \in Kinds
      /\ UNCHANGED <<fg_pid, parallel_pids, background_pids, pid, children>>
  BY DEF ReadLine
<1>1. /\ todo' \in 0 .. MaxCommands
      /\ \/ pc' = "top"
         \/ pc' = "check" /\ line' \in {"serial", "parallel"}
         \/ pc' = "fork" /\ todo' > 0 /\ line' # "cd"
  BY <1>0, ShellAssumption DEF ReadLine, Kinds
<1>2. Pids' = Pids /\ InBackground' = InBackground /\ Unreaped' = Unreaped
  BY <1>0 DEF Pids, InBackground, Unreaped, InLine
<1>3. awaited = <<>> /\ Unreaped = {}
  BY <1>0 DEF PlaceOfLine, Known, Listed
<1>4. Types'
  BY <1>0, <1>1, <1>2 DEF Types
<1>5. PlaceOfLine'
  BY <1>0, <1>1 DEF PlaceOfLine, OneByOne
<1>6. KindsOfPids'
  BY <1>0, <1>1, <1>2 DEF KindsOfPids, OneByOne, Listed
<1>7. BackgroundListed'
  BY <1>0, <1>1, <1>2 DEF BackgroundListed, Listed, JustForked, HasSlot
<1>8. QED
  BY <1>2, <1>3, <1>4, <1>5, <1>6, <1>7

LEMMA ReadEmptyLineKeepsJobs ==
  ASSUME Jobs, ReadEmptyLine
  PROVE  Jobs'
<1> USE DEF Jobs
<1>0. /\ pc = "prompt" /\ pc' = "crashed"
      /\ UNCHANGED <<fg_pid, parallel_pids, background_pids, line, todo, pid, awaited, children>>
  BY DEF ReadEmptyLine
<1>1. Pids' = Pids /\ InBackground' = InBackground /\ Unreaped' = Unreaped
  BY <1>0 DEF Pids, InBackground, Unreaped, InLine
<1>2. Types' /\ PlaceOfLine'
  BY <1>0, <1>1 DEF Types, PlaceOfLine, OneByOne
<1>3. KindsOfPids'
  BY <1>0, <1>1 DEF KindsOfPids, OneByOne, Listed
<1>4. Unreaped' \subseteq Known'
  BY <1>0, <1>1 DEF Known, Listed
<1>5. BackgroundListed'
  BY <1>0, <1>1 DEF BackgroundListed, Listed, JustForked, HasSlot
<1>6. QED
  BY <1>2, <1>3, <1>4, <1>5

LEMMA ExitFacts ==
  ASSUME Types, Exit
  PROVE  ChildrenKept
<1>1. children' = Ended(Terminated \ InState({"reaped"}))
  BY DEF Exit
<1>2. QED
  BY <1>1, EndingKeeps DEF Types

LEMMA ExitKeepsJobs ==
  ASSUME Jobs, Exit
  PROVE  Jobs'
<1> USE DEF Jobs
<1>0. /\ pc = "prompt" /\ pc' = "exited"
      /\ UNCHANGED <<fg_pid, parallel_pids, background_pids, line, todo, pid, awaited>>
  BY DEF Exit
<1>1. ChildrenKept
  BY ExitFacts
<1>2. Pids' = Pids /\ InBackground' = InBackground /\ Unreaped' \subseteq Unreaped
  BY <1>1, KeptFacts DEF Types
<1>3. Types'
  BY <1>0, <1>1, <1>2 DEF Types, ChildrenKept
<1>4. PlaceOfLine'
  BY <1>0 DEF PlaceOfLine, OneByOne
<1>5. KindsOfPids'
  BY <1>0, <1>1, <1>2, ListedFacts DEF KindsOfPids, ChildrenKept, OneByOne, Listed
<1>6. Unreaped' \subseteq Known'
  BY <1>0, <1>2 DEF Known, Listed
<1>7. BackgroundListed'
  BY <1>0, <1>2 DEF BackgroundListed, Listed, JustForked, HasSlot
<1>8. QED
  BY <1>3, <1>4, <1>5, <1>6, <1>7

LEMMA CheckStopKeepsJobs ==
  ASSUME Jobs, CheckStop
  PROVE  Jobs'
<1> USE DEF Jobs
<1>0. /\ pc = "check" /\ line \in {"serial", "parallel"}
      /\ UNCHANGED <<fg_pid, parallel_pids, background_pids, line, todo, pid, children>>
      /\ \/ todo > 0 /\ pc' = "fork" /\ awaited' = awaited
         \/ line = "parallel" /\ pc' = "wait" /\ awaited' = parallel_pids
         \/ line = "serial" /\ pc' = "top" /\ awaited' = awaited
  BY DEF CheckStop, PlaceOfLine, ToAwait
<1>1. Pids' = Pids /\ InBackground' = InBackground /\ Unreaped' = Unreaped
  BY <1>0 DEF Pids, InBackground, Unreaped, InLine
<1>2. awaited = <<>>
  BY <1>0 DEF PlaceOfLine
<1>3. Types'
  <2>1. parallel_pids \in Seq(Pids \cup {-1})
    BY SeqMonotonic DEF Types
  <2>2. QED
    BY <1>0, <1>1, <2>1 DEF Types
<1>4. PlaceOfLine'
  BY <1>0, <1>2 DEF PlaceOfLine, OneByOne
<1>5. KindsOfPids'
  BY <1>0, <1>1 DEF KindsOfPids, OneByOne, Listed
<1>6. Unreaped' \subseteq Known'
  BY <1>0, <1>1, <1>2 DEF Known, Listed
<1>7. BackgroundListed'
  BY <1>0, <1>1 DEF BackgroundListed, Listed, JustForked, HasSlot
<1>8. QED
  BY <1>3, <1>4, <1>5, <1>6, <1>7

LEMMA ForkKeepsJobs ==
  ASSUME Jobs, Fork
  PROVE  Jobs'
<1> USE DEF Jobs
<1> DEFINE new == Len(children) + 1
           child == [state |-> "forked", group |-> "shell", line |-> line]
<1>1. /\ pc = "fork" /\ todo > 0 /\ line # "cd" /\ todo' \in 0 .. MaxCommands
      /\ UNCHANGED <<fg_pid, parallel_pids, background_pids, line, awaited>>
  <2>1. pc = "fork" /\ todo' = todo - 1 /\ todo > 0 /\ todo \in 0 .. MaxCommands
    BY DEF Fork, PlaceOfLine, Types
  <2>2. todo' \in 0 .. MaxCommands
    BY <2>1, ShellAssumption
  <2>3. QED
    BY <2>1, <2>2 DEF Fork, PlaceOfLine
<1>2. /\ Len(children) \in Nat /\ Pids = 1 .. Len(children) /\ fg_pid = -1
      /\ Listed(parallel_pids) \subseteq Pids /\ Listed(background_pids) \subseteq Pids
      /\ (line # "pipe" => awaited = <<>>)
  BY <1>1, ChildFacts, ListedFacts DEF Types, PlaceOfLine
<1>3. CASE pid' = new /\ children' = Append(children, child) /\ pc' = "forked"
  <2>1. /\ children \in Seq(Child) /\ child \in Child /\ child.line = line
        /\ child.state = "forked"
    BY DEF Types, Child
  <2>2. /\ children' \in Seq(Child) /\ Len(children') = new /\ children'[new] = child
        /\ \A p \in Pids : children'[p] = children[p]
    BY <1>2, <1>3, <2>1, AppendProperties
  <2>3. Pids' = Pids \cup {new} /\ new \notin Pids
    BY <1>2, <2>2 DEF Pids
  <2> HIDE DEF new, child
  <2>4. Types'
    <3>1. /\ parallel_pids \in Seq(Pids') /\ background_pids \in Seq(Pids')
          /\ awaited \in Seq(Pids' \cup {-1})
      BY <2>3, SeqMonotonic DEF Types
    <3>2. fg_pid' \in Pids' \cup {-1} /\ pid' \in Pids' \cup {-1}
      BY <1>1, <1>2, <1>3, <2>3
    <3>3. QED
      BY <1>1, <1>3, <2>2, <3>1, <3>2 DEF Types
  <2>5. PlaceOfLine'
    BY <1>1, <1>2, <1>3 DEF PlaceOfLine, OneByOne
  <2>6. KindsOfPids'
    <3>1. pid' \in Pids' /\ children'[pid'].line = line
      BY <1>3, <2>1, <2>2, <2>3
    <3>2. /\ \A p \in Listed(parallel_pids) : children'[p].line = "parallel"
          /\ \A p \in Listed(background_pids) : children'[p].line = "background"
      BY <1>2, <2>2 DEF KindsOfPids
    <3>3. \A p \in Pids' :
            children'[p].line = "background" /\ children'[p].state = "running" =>
              children'[p].group = "own"
      BY <2>1, <2>2, <2>3 DEF KindsOfPids
    <3>4. /\ Listed(parallel_pids)' = Listed(parallel_pids)
          /\ Listed(background_pids)' = Listed(background_pids)
      BY <1>1 DEF Listed
    <3>5. QED
      BY <1>1, <1>3, <3>1, <3>2, <3>3, <3>4 DEF KindsOfPids
  <2>7. Unreaped' \subseteq Known'
    <3>1. Unreaped' \subseteq Unreaped \cup {new}
      BY <2>2, <2>3 DEF Unreaped, InLine
    <3>2. Known \cup {new} \subseteq Known'
      BY <1>1, <1>3 DEF Known, Listed
    <3>3. QED
      BY <3>1, <3>2
  <2>8. BackgroundListed'
    <3>1. InBackground' \subseteq InBackground \cup {new}
      BY <2>2, <2>3 DEF InBackground
    <3>2. Listed(background_pids)' = Listed(background_pids) /\ JustForked' = {new} /\ JustForked = {}
      BY <1>1, <1>3 DEF Listed, JustForked
    <3>3. QED
      BY <1>1, <1>2, <2>3, <3>1, <3>2 DEF BackgroundListed, HasSlot
  <2>9. QED
    BY <2>4, <2>5, <2>6, <2>7, <2>8
<1>4. CASE pid' = -1 /\ UNCHANGED children /\ pc' = IF line = "pipe" THEN "forked" ELSE "exited"
  <2>1. Pids' = Pids /\ InBackground' = InBackground /\ Unreaped' = Unreaped /\ -1 \notin Pids
    BY <1>2, <1>4 DEF Pids, InBackground, Unreaped, InLine
  <2>2. Types'
    BY <1>1, <1>4, <2>1 DEF Types
  <2>3. PlaceOfLine'
    BY <1>1, <1>2, <1>4 DEF PlaceOfLine, OneByOne
  <2>4. KindsOfPids'
    BY <1>1, <1>4, <2>1 DEF KindsOfPids, OneByOne, Listed
  <2>5. Unreaped' \subseteq Known'
    BY <1>1, <1>4, <2>1 DEF Known, Listed
  <2>6. BackgroundListed'
    <3>1. JustForked = {} /\ JustForked' \subseteq {-1}
      BY <1>1, <1>4 DEF JustForked
    <3>2. Listed(background_pids)' = Listed(background_pids)
      BY <1>1 DEF Listed
    <3>3. Listed(background_pids) \cap {-1} = {}
      BY <1>2, <2>1
    <3>4. QED
      BY <1>1, <2>1, <3>1, <3>2, <3>3 DEF BackgroundListed, HasSlot
  <2>7. QED
    BY <2>2, <2>3, <2>4, <2>5, <2>6
<1>5. QED
  BY <1>3, <1>4 DEF Fork

(* A pid appended to a list of pids.                                       *)
LEMMA ListedAppend ==
  ASSUME NEW S, NEW list \in Seq(S), NEW p \in S
  PROVE  /\ Append(list, p) \in Seq(S) /\ Len(Append(list, p)) = Len(list) + 1
         /\ Listed(Append(list, p)) = Listed(list) \cup {p}
         /\ /\ \A i, k \in 1 .. Len(list) : list[i] = list[k] => i = k
            /\ p \notin Listed(list)
            => \A i, k \in 1 .. Len(list) + 1 :
                 Append(list, p)[i] = Append(list, p)[k] => i = k
<1>1. /\ Append(list, p) \in Seq(S) /\ Len(Append(list, p)) = Len(list) + 1 /\ Len(list) \in Nat
      /\ \A i \in 1 .. Len(list) : Append(list, p)[i] = list[i]
      /\ Append(list, p)[Len(list) + 1] = p
  BY AppendProperties
<1>2. Listed(Append(list, p)) \subseteq Listed(list) \cup {p}
  BY <1>1 DEF Listed
<1>3. p \in Listed(Append(list, p))
  BY <1>1 DEF Listed
<1>4. Listed(list) \subseteq Listed(Append(list, p))
  BY <1>1 DEF Listed
<1>5. ASSUME \A i, k \in 1 .. Len(list) : list[i] = list[k] => i = k, p \notin Listed(list)
      PROVE  \A i, k \in 1 .. Len(list) + 1 : Append(list, p)[i] = Append(list, p)[k] => i = k
  BY <1>1, <1>5 DEF Listed
<1>6. QED
  BY <1>1, <1>2, <1>3, <1>4, <1>5

LEMMA AfterForkKeepsJobs ==
  ASSUME Jobs, AfterFork
  PROVE  Jobs'
<1> USE DEF Jobs
<1>1. /\ pc = "forked" /\ UNCHANGED <<line, todo, pid, children>> /\ line # "cd"
      /\ fg_pid = -1 /\ JustForked = {pid} /\ Unreaped \subseteq Known
      /\ (line # "pipe" => awaited = <<>>)
  BY DEF AfterFork, PlaceOfLine, JustForked
<1>2. Pids' = Pids /\ InBackground' = InBackground /\ Unreaped' = Unreaped
  BY <1>1 DEF Pids, InBackground, Unreaped, InLine
<1>3. /\ pid \in Pids \cup {-1} /\ (line # "pipe" => pid \in Pids)
      /\ (pid \in Pids => children[pid].line = line)
      /\ -1 \notin Pids
  BY <1>1, ChildFacts DEF Types, KindsOfPids
<1>4. /\ parallel_pids \in Seq(Pids) /\ background_pids \in Seq(Pids)
      /\ awaited \in Seq(Pids \cup {-1})
  BY DEF Types
<1>5. CASE /\ OneByOne /\ fg_pid' = pid /\ awaited' = <<pid>> /\ pc' = "wait"
           /\ UNCHANGED <<parallel_pids, background_pids>>
  <2>1. line # "pipe" /\ line # "parallel" /\ line # "background"
    BY <1>5 DEF OneByOne
  <2>2. Listed(awaited') = {pid} /\ awaited' \in Seq(Pids \cup {-1})
    BY <1>3, <1>5 DEF Listed
  <2>3. Types'
    BY <1>1, <1>2, <1>3, <1>5, <2>2 DEF Types
  <2>4. PlaceOfLine'
    BY <1>1, <1>5, <2>1 DEF PlaceOfLine, OneByOne
  <2>5. KindsOfPids'
    BY <1>1, <1>2, <1>3, <1>5, <2>1 DEF KindsOfPids, OneByOne, Listed
  <2>6. Unreaped' \subseteq Known'
    BY <1>1, <1>2, <1>5, <2>1, <2>2 DEF Known, Listed
  <2>7. BackgroundListed'
    BY <1>1, <1>2, <1>3, <1>5, <2>1 DEF BackgroundListed, HasSlot, JustForked, Listed, InBackground
  <2>8. QED
    BY <2>3, <2>4, <2>5, <2>6, <2>7
<1>6. CASE /\ line = "parallel" /\ parallel_pids' = Append(parallel_pids, pid) /\ pc' = "check"
           /\ UNCHANGED <<fg_pid, background_pids, awaited>>
  <2>1. /\ parallel_pids' \in Seq(Pids) /\ Listed(parallel_pids') = Listed(parallel_pids) \cup {pid}
    BY <1>3, <1>4, <1>6, ListedAppend
  <2>2. Types'
    BY <1>1, <1>2, <1>6, <2>1 DEF Types
  <2>3. PlaceOfLine'
    BY <1>1, <1>6 DEF PlaceOfLine, OneByOne
  <2>4. KindsOfPids'
    <3>1. \A p \in Listed(parallel_pids') : children[p].line = "parallel"
      BY <1>3, <1>6, <2>1 DEF KindsOfPids
    <3>2. QED
      BY <1>1, <1>2, <1>6, <3>1 DEF KindsOfPids, OneByOne, Listed
  <2>5. Unreaped' \subseteq Known'
    <3>1. Known \subseteq Listed(parallel_pids')
      BY <1>1, <1>6, <2>1 DEF Known, Listed
    <3>2. Listed(parallel_pids') \subseteq Known'
      BY <1>1, <1>6 DEF Known, Listed
    <3>3. QED
      BY <1>1, <1>2, <3>1, <3>2
  <2>6. BackgroundListed'
    BY <1>1, <1>2, <1>3, <1>6 DEF BackgroundListed, HasSlot, JustForked, Listed, InBackground
  <2>7. QED
    BY <2>2, <2>3, <2>4, <2>5, <2>6
<1>7. CASE /\ line = "background" /\ pc' = "top"
           /\ background_pids' = IF HasSlot THEN Append(background_pids, pid) ELSE background_pids
           /\ UNCHANGED <<fg_pid, parallel_pids, awaited>>
  <2>1. Unreaped' \subseteq Known'
    <3>1. pid \notin Unreaped
      BY <1>3, <1>7 DEF Unreaped, InLine
    <3>2. Known \subseteq Known' \cup {pid}
      BY <1>1, <1>7 DEF Known, Listed
    <3>3. QED
      BY <1>1, <1>2, <3>1, <3>2
  <2>2. PlaceOfLine'
    BY <1>1, <1>7 DEF PlaceOfLine, OneByOne
  <2>3. CASE HasSlot
    <3>1. /\ background_pids' \in Seq(Pids) /\ Len(background_pids') = Len(background_pids) + 1
          /\ Listed(background_pids') = Listed(background_pids) \cup {pid}
      BY <1>3, <1>4, <1>7, <2>3, ListedAppend
    <3>2. \A i, k \in 1 .. Len(background_pids') :
            background_pids'[i] = background_pids'[k] => i = k
      <4>1. /\ \A i, k \in 1 .. Len(background_pids) :
                 background_pids[i] = background_pids[k] => i = k
            /\ pid \notin Listed(background_pids)
        BY <1>1 DEF BackgroundListed
      <4>2. background_pids' = Append(background_pids, pid) /\ pid \in Pids
        BY <1>3, <1>7, <2>3
      <4>3. QED
        BY <1>4, <3>1, <4>1, <4>2, ListedAppend
    <3>3. Types'
      <4>1. Len(background_pids') <= MAX_BACKGROUND_PROCESSES
        BY <1>4, <2>3, <3>1, ShellAssumption DEF HasSlot
      <4>2. QED
        BY <1>1, <1>2, <1>7, <3>1, <4>1 DEF Types
    <3>4. KindsOfPids'
      <4>1. \A p \in Listed(background_pids') : children[p].line = "background"
        BY <1>3, <1>7, <3>1 DEF KindsOfPids
      <4>2. QED
        BY <1>1, <1>2, <1>7, <4>1 DEF KindsOfPids, OneByOne, Listed
    <3>5. BackgroundListed'
      <4>1. InBackground \subseteq Listed(background_pids')
        BY <1>1, <2>3, <3>1 DEF BackgroundListed
      <4>2. JustForked' = {} /\ Listed(background_pids)' = Listed(background_pids')
        BY <1>7 DEF JustForked, Listed
      <4>3. QED
        BY <1>2, <3>2, <4>1, <4>2 DEF BackgroundListed
    <3>6. QED
      BY <2>1, <2>2, <3>3, <3>4, <3>5
  <2>4. CASE ~HasSlot
    <3>1. background_pids' = background_pids
      BY <1>7, <2>4
    <3>2. Types'
      BY <1>1, <1>2, <1>7, <3>1 DEF Types
    <3>3. KindsOfPids'
      BY <1>1, <1>2, <1>7, <3>1 DEF KindsOfPids, OneByOne, Listed
    <3>4. BackgroundListed'
      BY <1>2, <1>7, <2>4, <3>1 DEF BackgroundListed, JustForked, Listed, HasSlot
    <3>5. QED
      BY <2>1, <2>2, <3>2, <3>3, <3>4
  <2>5. QED
    BY <2>3, <2>4
<1>8. CASE /\ line = "pipe" /\ awaited' = Append(awaited, pid)
           /\ pc' = (IF todo > 0 THEN "fork" ELSE "wait")
           /\ UNCHANGED <<fg_pid, parallel_pids, background_pids>>
  <2>1. awaited' \in Seq(Pids \cup {-1}) /\ Listed(awaited') = Listed(awaited) \cup {pid}
    BY <1>3, <1>4, <1>8, ListedAppend
  <2>2. Types'
    BY <1>1, <1>2, <1>8, <2>1 DEF Types
  <2>3. PlaceOfLine'
    BY <1>1, <1>8 DEF PlaceOfLine, OneByOne
  <2>4. KindsOfPids'
    BY <1>1, <1>2, <1>8 DEF KindsOfPids, OneByOne, Listed
  <2>5. Unreaped' \subseteq Known'
    <3>1. Known \subseteq Listed(awaited')
      BY <1>1, <1>8, <2>1 DEF Known
    <3>2. Listed(awaited') \subseteq Known'
      BY DEF Known, Listed
    <3>3. QED
      BY <1>1, <1>2, <3>1, <3>2
  <2>6. BackgroundListed'
    BY <1>1, <1>2, <1>3, <1>8 DEF BackgroundListed, HasSlot, JustForked, Listed, InBackground
  <2>7. QED
    BY <2>2, <2>3, <2>4, <2>5, <2>6
<1>9. QED
  BY <1>5, <1>6, <1>7, <1>8 DEF AfterFork, OneByOne, InForeground

LEMMA WaitKeepsJobs ==
  ASSUME Jobs, Wait
  PROVE  Jobs'
<1> USE DEF Jobs
<1>1. /\ pc = "wait" /\ pc' = AfterWait(awaited') /\ line \notin {"cd", "background"}
      /\ UNCHANGED <<fg_pid, parallel_pids, background_pids, line, todo, pid>>
      /\ (OneByOne => awaited = <<pid>> /\ fg_pid = pid)
      /\ (~OneByOne => fg_pid = -1)
  BY DEF Wait, PlaceOfLine
<1>2. /\ children \in Seq(Child) /\ awaited \in Seq(Pids \cup {-1}) /\ -1 \notin Pids
      /\ \A p \in Pids : children[p] \in Child
  BY ChildFacts DEF Types
<1>3. Unreaped \subseteq Listed(awaited)
  BY <1>1 DEF Known
<1>4. /\ ChildrenKept /\ Unreaped' \subseteq Listed(awaited')
      /\ awaited' \in Seq(Pids \cup {-1})
      /\ (awaited = <<pid>> => awaited' = <<>>)
  <2>1. CASE awaited = <<>> /\ UNCHANGED <<awaited, children>>
    <3>1. ChildrenKept
      BY <1>2, <2>1 DEF ChildrenKept
    <3>2. Unreaped' = Unreaped
      BY <2>1 DEF Unreaped, Pids, InLine
    <3>3. QED
      BY <1>2, <1>3, <2>1, <3>1, <3>2
  <2>2. CASE awaited # <<>> /\ awaited' = Tail(awaited)
    <3>1. /\ awaited' \in Seq(Pids \cup {-1}) /\ Head(awaited) \in Pids \cup {-1}
          /\ Listed(awaited) \subseteq Listed(awaited') \cup {Head(awaited)}
      <4>1. /\ Head(awaited) \in Pids \cup {-1} /\ Tail(awaited) \in Seq(Pids \cup {-1})
            /\ Len(awaited) \in Nat \ {0} /\ Len(Tail(awaited)) = Len(awaited) - 1
            /\ Head(awaited) = awaited[1]
            /\ \A i \in 1 .. Len(awaited) - 1 : Tail(awaited)[i] = awaited[i + 1]
        BY <1>2, <2>2, HeadTailProperties
      <4>2. ASSUME NEW i \in 1 .. Len(awaited)
            PROVE  awaited[i] \in Listed(Tail(awaited)) \cup {Head(awaited)}
        <5>1. CASE i = 1
          BY <4>1, <5>1
        <5>2. CASE i # 1
          <6>1. i - 1 \in 1 .. Len(Tail(awaited)) /\ (i - 1) + 1 = i
            BY <4>1, <5>2
          <6>2. QED
            BY <4>1, <6>1 DEF Listed
        <5>3. QED
          BY <5>1, <5>2
      <4>3. QED
        BY <2>2, <4>1, <4>2 DEF Listed
    <3>2. awaited = <<pid>> => awaited' = <<>>
      BY <2>2
    <3>3. CASE \E p \in WaitsFor(Head(awaited)) \cap InState({"zombie"}) : children' = Reaped({p})
      <4>1. PICK p \in WaitsFor(Head(awaited)) \cap InState({"zombie"}) : children' = Reaped({p})
        BY <3>3
      <4>2. ChildrenKept
        BY <1>2, <4>1, ReapingKeeps
      <4>3. p \in Pids /\ children'[p].state = "reaped"
        <5>1. p \in Pids /\ children[p] \in Child
          BY <1>2 DEF InState
        <5>2. children'[p] = [children[p] EXCEPT !.state = "reaped"]
          BY <1>2, <4>1, <5>1, ReapedChildren
        <5>3. QED
          BY <5>1, <5>2, ChildUpdate
      <4>4. Unreaped' \subseteq Unreaped \ {p}
        <5>1. Unreaped' \subseteq Unreaped
          BY <1>2, <4>2, KeptFacts
        <5>2. QED
          BY <4>3, <5>1 DEF Unreaped
      <4>5. Head(awaited) = p \/ Head(awaited) = -1
        BY <3>1, <4>1 DEF WaitsFor
      <4>6. Unreaped \subseteq Pids
        BY DEF Unreaped
      <4>7. QED
        BY <1>2, <1>3, <3>1, <3>2, <4>2, <4>4, <4>5, <4>6
    <3>4. CASE NoChild(Head(awaited)) /\ UNCHANGED children
      <4>1. ChildrenKept
        BY <1>2, <3>4 DEF ChildrenKept
      <4>2. Unreaped' = Unreaped /\ Unreaped \subseteq Pids
        BY <3>4 DEF Unreaped, Pids, InLine
      <4>3. Head(awaited) \notin Unreaped
        BY <1>2, <3>1, <3>4 DEF NoChild, WaitsFor, InState, Unreaped
      <4>4. QED
        BY <1>3, <3>1, <3>2, <4>1, <4>2, <4>3
    <3>5. QED
      BY <1>1, <2>2, <3>3, <3>4 DEF Wait
  <2>3. QED
    BY <2>1, <2>2 DEF Wait
<1>5. Pids' = Pids /\ InBackground' = InBackground
  BY <1>2, <1>4, KeptFacts
<1>6. /\ awaited' # <<>> => pc' = "wait"
      /\ awaited' = <<>> => pc' = IF OneByOne THEN "clear" ELSE "top"
  BY <1>1 DEF AfterWait, OneByOne
<1>7. Types'
  BY <1>1, <1>4, <1>5, <1>6 DEF Types, ChildrenKept
<1>8. PlaceOfLine'
  BY <1>1, <1>4, <1>6 DEF PlaceOfLine, OneByOne
<1>9. KindsOfPids'
  <2>1. /\ Listed(parallel_pids)' = Listed(parallel_pids)
        /\ Listed(background_pids)' = Listed(background_pids)
    BY <1>1 DEF Listed
  <2>2. /\ \A p \in Listed(parallel_pids) : children'[p].line = "parallel"
        /\ \A p \in Listed(background_pids) : children'[p].line = "background"
        /\ \A p \in Pids :
             children'[p].line = "background" /\ children'[p].state = "running" =>
               children'[p].group = "own"
    BY <1>4, ListedFacts DEF KindsOfPids, ChildrenKept
  <2>3. OneByOne => pid \in Pids /\ children'[pid].line = line
    BY <1>1, <1>4 DEF KindsOfPids, ChildrenKept
  <2>4. pc' # "forked"
    BY <1>6
  <2>5. OneByOne' <=> OneByOne
    BY <1>1 DEF OneByOne
  <2>6. QED
    BY <1>1, <1>5, <2>1, <2>2, <2>3, <2>4, <2>5 DEF KindsOfPids
<1>10. Unreaped' \subseteq Known'
  <2>1. Listed(awaited') \subseteq Known'
    BY DEF Known, Listed
  <2>2. QED
    BY <1>4, <2>1
<1>11. BackgroundListed'
  <2>1. JustForked = {} /\ JustForked' = {}
    BY <1>1, <1>6 DEF JustForked
  <2>2. QED
    BY <1>1, <1>5, <2>1 DEF BackgroundListed, HasSlot, Listed
<1>12. QED
  BY <1>7, <1>8, <1>9, <1>10, <1>11

LEMMA ClearForegroundKeepsJobs ==
  ASSUME Jobs, ClearForeground
  PROVE  Jobs'
<1> USE DEF Jobs
<1>1. /\ pc = "clear" /\ OneByOne /\ fg_pid' = -1
      /\ pc' = IF line = "serial" THEN "check" ELSE "top"
      /\ UNCHANGED <<parallel_pids, background_pids, line, todo, pid, awaited, children>>
  BY DEF ClearForeground, PlaceOfLine, FgAfterWait
<1>2. Pids' = Pids /\ InBackground' = InBackground /\ Unreaped' = Unreaped
  BY <1>1 DEF Pids, InBackground, Unreaped, InLine
<1>3. Types'
  BY <1>1, <1>2 DEF Types
<1>4. PlaceOfLine'
  BY <1>1 DEF PlaceOfLine, OneByOne
<1>5. KindsOfPids'
  BY <1>1, <1>2 DEF KindsOfPids, OneByOne, Listed
<1>6. Unreaped' \subseteq Known'
  BY <1>1, <1>2 DEF Known, Listed
<1>7. BackgroundListed'
  BY <1>1, <1>2 DEF BackgroundListed, Listed, JustForked, HasSlot
<1>8. QED
  BY <1>3, <1>4, <1>5, <1>6, <1>7

(* SIGINT, and what the children do by themselves.                         *)
LEMMA SignalKeepsJobs ==
  ASSUME Jobs, SIGINT
  PROVE  Jobs'
<1> DEFINE hit == {p \in InState({"running"}) : p \in Signalled \/ children[p].group = "shell"}
<1>1. children' = Ended(hit) /\ hit \cap InState({"reaped"}) = {}
  BY DEF SIGINT, InState
<1>2. ChildrenKept
  BY <1>1, EndingKeeps DEF Jobs, Types
<1>3. QED
  BY <1>2, ChildMoves DEF SIGINT

LEMMA ChildKeepsJobs ==
  ASSUME Jobs, NEW p \in Pids, Exec(p) \/ End(p) \/ ReadTerminal(p)
  PROVE  Jobs'
<1>1. ChildrenKept
  <2>1. CASE End(p)
    <3>1. children' = Ended({p}) /\ {p} \cap InState({"reaped"}) = {}
      BY <2>1 DEF End, InState
    <3>2. QED
      BY <3>1, EndingKeeps DEF Jobs, Types
  <2>2. QED
    BY <2>1, ExecKeeps, StoppingKeeps DEF Jobs, Types
<1>2. UNCHANGED shellVars
  BY DEF Exec, End, ReadTerminal
<1>3. QED
  BY <1>1, <1>2, ChildMoves DEF shellVars

-----------------------------------------------------------------------------
(* The invariant.                                                          *)

LEMMA JobsInit == Init => Flags /\ Jobs
<1> SUFFICES ASSUME Init
             PROVE  Flags /\ Jobs
  OBVIOUS
<1> USE DEF Init
<1>1. Flags
  BY DEF Flags
<1>2. Pids = {}
  BY DEF Pids
<1>3. Types
  BY ShellAssumption DEF Types, Kinds
<1>4. PlaceOfLine
  BY DEF PlaceOfLine, OneByOne
<1>5. KindsOfPids
  BY <1>2 DEF KindsOfPids, Listed
<1>6. Unreaped \subseteq Known
  BY <1>2 DEF Unreaped
<1>7. BackgroundListed
  BY <1>2 DEF BackgroundListed, Listed, InBackground, JustForked
<1>8. QED
  BY <1>1, <1>3, <1>4, <1>5, <1>6, <1>7 DEF Jobs

LEMMA JobsNext ==
  ASSUME Jobs, Next
  PROVE  Jobs'
BY ReapKeepsJobs, CheckStopKeepsJobs, ForkKeepsJobs, AfterForkKeepsJobs, WaitKeepsJobs,
   ClearForegroundKeepsJobs, ReadLineKeepsJobs, ReadEmptyLineKeepsJobs, ExitKeepsJobs,
   SignalKeepsJobs, ChildKeepsJobs DEF Next, Busy

LEMMA FlagsNext ==
  ASSUME Flags, Next
  PROVE  Flags'
<1>1. /\ stop_execution' \in {stop_execution, TRUE, FALSE}
      /\ \/ struck' \in {struck, FALSE} \/ struck' = (struck \/ HitsTheLine)
  BY DEF Next, Busy, reap_background_processes, CheckStop, Fork, AfterFork, Wait,
     ClearForeground, ReadLine, ReadEmptyLine, Exit, SIGINT, Exec, End, ReadTerminal, shellVars
<1>2. QED
  BY <1>1 DEF Flags

LEMMA JobsInvParts == JobsInv <=> Flags /\ Jobs
BY DEF JobsInv, Jobs

LEMMA JobsInvNext ==
  ASSUME JobsInv, [Next]_vars
  PROVE  JobsInv'
<1>1. CASE Next
  BY <1>1, JobsNext, FlagsNext DEF JobsInv, Jobs
<1>2. CASE UNCHANGED vars
  <2> USE <1>2 DEF vars, shellVars, JobsInv
  <2>1. Pids' = Pids /\ InBackground' = InBackground /\ Unreaped' = Unreaped /\ Known' = Known
    BY DEF Pids, InBackground, Unreaped, InLine, Known, Listed
  <2>2. Flags' /\ Types'
    BY <2>1 DEF Flags, Types
  <2>3. PlaceOfLine'
    BY DEF PlaceOfLine, OneByOne
  <2>4. KindsOfPids'
    BY <2>1 DEF KindsOfPids, OneByOne, Listed
  <2>5. BackgroundListed'
    BY <2>1 DEF BackgroundListed, Listed, JustForked, HasSlot
  <2>6. QED
    BY <2>1, <2>2, <2>3, <2>4, <2>5
<1>3. QED
  BY <1>1, <1>2

(* Every process of a line is known to the shell until it has been reaped, *)
(* and the lists of pids hold what they should, for lines of any length,   *)
(* any number of children, and SIGINT at any moment.                       *)
THEOREM JobsInvariant == Spec => []JobsInv
<1>1. Init => JobsInv
  BY JobsInit, JobsInvParts
<1>2. JobsInv /\ [Next]_vars => JobsInv'
  BY JobsInvNext
<1>3. QED
  BY <1>1, <1>2, PTL DEF Spec

LEMMA JobsAreShell == JobsInv => ShellInv
<1> SUFFICES ASSUME JobsInv
             PROVE  ShellInv
  OBVIOUS
<1>1. TypeOK /\ Jobs /\ Unreaped \subseteq Known
  BY TypeOKParts, JobsInvParts DEF JobsInv
<1>2. OneForegroundAtATime
  <2> SUFFICES ASSUME OneByOne
               PROVE  Cardinality(Unreaped) <= 1 /\ (fg_pid # -1 => Unreaped \subseteq {fg_pid})
    BY DEF OneForegroundAtATime, OneByOne, Unreaped
  <2>1. awaited = <<>> \/ awaited = <<pid>>
    BY DEF JobsInv, PlaceOfLine, OneByOne
  <2>2. Listed(awaited) \subseteq {pid}
    BY <2>1 DEF Listed
  <2>3. Unreaped \subseteq {pid}
    BY <1>1, <2>2 DEF Known, OneByOne
  <2>4. Cardinality(Unreaped) <= 1
    <3>1. IsFiniteSet({pid}) /\ Cardinality({pid}) = 1
      BY FS_Singleton
    <3>2. Unreaped \in SUBSET {pid}
      BY <2>3
    <3>3. QED
      BY <3>1, <3>2, FS_Subset
  <2>5. fg_pid # -1 => fg_pid = pid
    BY DEF JobsInv, PlaceOfLine
  <2>6. QED
    BY <2>3, <2>4, <2>5
<1>3. OnlyBackgroundOutlivesItsLine
  <2> SUFFICES ASSUME pc = "prompt"
               PROVE  Unreaped = {}
    BY DEF OnlyBackgroundOutlivesItsLine, Unreaped
  <2>1. awaited = <<>>
    BY DEF JobsInv, PlaceOfLine
  <2>2. QED
    BY <1>1, <2>1 DEF Known, Listed
<1>4. QED
  BY <1>1, <1>2, <1>3 DEF ShellInv

(* Of the foreground and && lines one command is alive at a time, and when *)
(* the prompt is shown, only processes of the background are.              *)
THEOREM ShellInvariant == Spec => []ShellInv
BY JobsInvariant, JobsAreShell, PTL

-----------------------------------------------------------------------------
(* What SIGINT and exit do to the background.                              *)

LEMMA SignalSparesBackground ==
  ASSUME Jobs, SIGINT, NEW p \in Pids, children[p].line = "background"
  PROVE  children'[p] = children[p]
<1> DEFINE hit == {q \in InState({"running"}) : q \in Signalled \/ children[q].group = "shell"}
<1>1. p \notin Signalled
  <2>1. CASE fg_pid # -1
    <3>1. fg_pid = pid /\ pc \in {"wait", "clear"} /\ OneByOne
      BY <2>1 DEF Jobs, PlaceOfLine
    <3>2. pid \in Pids /\ children[pid].line # "background"
      BY <3>1 DEF Jobs, KindsOfPids, OneByOne
    <3>3. QED
      BY <2>1, <3>1, <3>2 DEF Signalled
  <2>2. CASE fg_pid = -1
    BY <2>2 DEF Signalled, Jobs, KindsOfPids
  <2>3. QED
    BY <2>1, <2>2
<1>2. p \in InState({"running"}) => children[p].group = "own"
  BY DEF InState, Jobs, KindsOfPids
<1>3. p \notin hit
  BY <1>1, <1>2
<1>4. children' = Ended(hit) /\ children \in Seq(Child)
  BY DEF SIGINT, Jobs, Types
<1>5. QED
  BY <1>3, <1>4, EndedChildren

(* SIGINT never ends a background process, however many lines have been    *)
(* executed, and wherever the shell and the process are.                   *)
THEOREM BackgroundIsUndisturbed == Spec => BackgroundUndisturbed
<1>1. JobsInv /\ [Next]_vars =>
        [SIGINT => \A p \in Pids :
           children[p].line = "background" => children'[p] = children[p]]_vars
  BY JobsInvParts, SignalSparesBackground
<1>2. QED
  BY <1>1, JobsInvariant, PTL DEF Spec, BackgroundUndisturbed

(* A list of pids is as long as the set of its pids is large.              *)
LEMMA ListedOnce ==
  ASSUME NEW S, NEW list \in Seq(S),
         \A i, k \in 1 .. Len(list) : list[i] = list[k] => i = k
  PROVE  IsFiniteSet(Listed(list)) /\ Cardinality(Listed(list)) = Len(list)
<1>1. Len(list) \in Nat /\ \A i \in 1 .. Len(list) : list[i] \in Listed(list)
  BY DEF Listed
<1>2. list \in [1 .. Len(list) -> Listed(list)]
  BY <1>1
<1>3. list \in Bijection(1 .. Len(list), Listed(list))
  BY <1>1, <1>2 DEF Bijection, Injection, Surjection, IsInjective, Listed
<1>4. ExistsBijection(1 .. Len(list), Listed(list))
  BY <1>3 DEF ExistsBijection
<1>5. IsFiniteSet(1 .. Len(list)) /\ Cardinality(1 .. Len(list)) = Len(list)
  <2>1. PICK n \in Nat : n = Len(list)
    BY <1>1
  <2>2. IsFiniteSet(1 .. n) /\ Cardinality(1 .. n) = n
    BY FS_Interval
  <2>3. QED
    BY <2>1, <2>2
<1>6. QED
  BY <1>4, <1>5, FS_Bijection

LEMMA AllListed ==
  ASSUME Jobs, pc = "prompt", Cardinality(InBackground) <= MAX_BACKGROUND_PROCESSES
  PROVE  InBackground \subseteq Listed(background_pids)
<1>1. CASE HasSlot
  BY <1>1 DEF Jobs, BackgroundListed, JustForked
<1>2. CASE ~HasSlot
  <2>1. /\ background_pids \in Seq(Pids) /\ Len(background_pids) \in Nat
        /\ Len(background_pids) = MAX_BACKGROUND_PROCESSES
    BY <1>2, ShellAssumption DEF Jobs, Types, HasSlot
  <2>2. Cardinality(Listed(background_pids)) = MAX_BACKGROUND_PROCESSES
    BY <2>1, ListedOnce DEF Jobs, BackgroundListed
  <2>3. Listed(background_pids) \subseteq InBackground
    BY ListedFacts DEF Jobs, KindsOfPids, InBackground
  <2>4. IsFiniteSet(InBackground)
    <3>1. Len(children) \in Nat /\ InBackground \subseteq 1 .. Len(children)
      BY ChildFacts DEF Jobs, Types, InBackground
    <3>2. IsFiniteSet(1 .. Len(children))
      <4>1. 1 \in Int /\ Len(children) \in Int
        BY <3>1
      <4>2. QED
        BY <4>1, FS_Interval
    <3>3. QED
      BY <3>1, <3>2, FS_Subset
  <2>5. /\ Cardinality(Listed(background_pids)) <= Cardinality(InBackground)
        /\ Cardinality(InBackground) \in Nat
        /\ Cardinality(InBackground) = Cardinality(Listed(background_pids)) =>
             InBackground = Listed(background_pids)
    BY <2>3, <2>4, FS_Subset, FS_CardinalityType
  <2>6. QED
    BY <2>2, <2>5, ShellAssumption
<1>3. QED
  BY <1>1, <1>2

LEMMA ExitEndsChildren ==
  ASSUME Jobs, Exit, Cardinality(InBackground) <= MAX_BACKGROUND_PROCESSES,
         NEW p \in Pids
  PROVE  children'[p].state \in {"zombie", "reaped"}
<1> DEFINE ending == Listed(background_pids) \ InState({"reaped"})
<1>1. pc = "prompt" /\ children' = Ended(ending) /\ children \in Seq(Child) /\ children[p] \in Child
  BY ChildFacts DEF Exit, Terminated, Jobs, Types
<1>2. CASE children[p].state = "reaped"
  BY <1>1, <1>2, ExitFacts DEF ChildrenKept, Jobs
<1>3. CASE children[p].state # "reaped"
  <2>1. p \in InBackground
    <3>1. Unreaped = {}
      BY <1>1 DEF Jobs, PlaceOfLine, Known, Listed
    <3>2. QED
      BY <1>3, <3>1 DEF Unreaped, InLine, InBackground
  <2>2. p \in ending
    BY <1>1, <1>3, <2>1, AllListed DEF InState
  <2>3. children'[p] = [children[p] EXCEPT !.state = "zombie"]
    BY <1>1, <2>2, EndedChildren
  <2>4. QED
    BY <1>1, <2>3, ChildUpdate
<1>4. QED
  BY <1>2, <1>3

(* exit leaves no process behind, whatever has been started, signalled or  *)
(* reaped before, as long as there was a slot for every background process.*)
THEOREM ExitLeavesNobody == Spec => ExitTerminatesBackground
<1>1. JobsInv /\ [Next]_vars =>
        [Exit /\ Cardinality({p \in Pids : children[p].line = "background"})
                   <= MAX_BACKGROUND_PROCESSES =>
           \A p \in Pids : children'[p].state \in {"zombie", "reaped"}]_vars
  BY JobsInvParts, ExitEndsChildren DEF InBackground
<1>2. QED
  BY <1>1, JobsInvariant, PTL DEF Spec, ExitTerminatesBackground
=============================================================================
