------------------------------- MODULE Shell -------------------------------
(***************************************************************************)
(* shell-code/my_shell.c: a shell that runs a line's commands in the       *)
(* foreground, in the background (&), one after the other (&&), at the     *)
(* same time (&&&) or through a pipe (|), and passes SIGINT on to them.    *)
(*                                                                         *)
(* A child is "forked" until it has called setpgid and execvp: until then  *)
(* it has the shell's own SIGINT handler, which does it no harm.  Then it  *)
(* is "running", ends by itself or by a signal ("zombie") and is "reaped"  *)
(* by a wait.  It is "stopped" for good when it reads the terminal from a  *)
(* process group of its own: the shell never makes that group the          *)
(* terminal's.  The terminal sends SIGINT to the shell's group.            *)
(***************************************************************************)
EXTENDS Integers, Sequences, FiniteSets

CONSTANTS
  MaxCommands,        \* bounds the commands of a line; a pipe has two
  MaxChildren,        \* bounds the children in the shell's lifetime; below
                      \* MAX_NUM_TOKENS, the size of the array parallel_pids
  MAX_BACKGROUND_PROCESSES

ASSUME ShellAssumption ==
  /\ MaxCommands \in Nat \ {0, 1} /\ MaxChildren \in Nat
  /\ MAX_BACKGROUND_PROCESSES \in Nat

VARIABLES
  fg_pid,             \* the foreground process, or -1
  stop_execution,     \* set by the SIGINT handler
  parallel_pids,      \* parallel_pids[0 .. parallel_pid_count - 1]
  background_pids,    \* background_pids[0 .. bg_count - 1]
  pc,                 \* where the shell is
  line,               \* the kind of the line that is executed
  todo,               \* how many of its commands are still to be started
  pid,                \* what the last fork returned
  awaited,            \* the children that are still to be waited for
  children,           \* children[p] is the state and group of process p
  struck              \* TRUE from a SIGINT that hit the whole line, while
                      \* the shell waited for it, to the next prompt

shellVars == <<fg_pid, stop_execution, parallel_pids, background_pids, pc,
               line, todo, pid, awaited, struck>>
vars == <<shellVars, children>>

Pids == 1 .. Len(children)
InState(states) == {p \in Pids : children[p].state \in states}

Kinds == {"cd", "foreground", "background", "serial", "parallel", "pipe"}

Init ==
  /\ fg_pid = -1
  /\ stop_execution = FALSE
  /\ parallel_pids = <<>>
  /\ background_pids = <<>>
  /\ pc = "top"
  /\ line = "cd" /\ todo = 0
  /\ pid = -1
  /\ awaited = <<>>
  /\ children = <<>>
  /\ struck = FALSE

-----------------------------------------------------------------------------
(* main                                                                    *)

Ended(ps) == [p \in Pids |-> IF p \in ps THEN [children[p] EXCEPT !.state = "zombie"]
                                         ELSE children[p]]
Reaped(ps) == [p \in Pids |-> IF p \in ps THEN [children[p] EXCEPT !.state = "reaped"]
                                          ELSE children[p]]

reap_background_processes ==
  /\ pc = "top"
  /\ children' = Reaped(InState({"zombie"}))
  /\ pc' = "prompt"
  /\ struck' = FALSE
  /\ UNCHANGED <<fg_pid, stop_execution, parallel_pids, background_pids, line,
                 todo, pid, awaited>>

(* A line with at least one token.  stop_execution is reset before the     *)
(* line is looked at.  cd starts no process.                               *)
ReadLine ==
  /\ pc = "prompt"
  /\ line' \in Kinds
  /\ todo' \in CASE line' = "cd" -> {0}
                 [] line' \in {"foreground", "background"} -> {1}
                 [] line' = "pipe" -> {2}
                 [] OTHER -> 1 .. MaxCommands
  /\ Len(children) + todo' <= MaxChildren
  /\ stop_execution' = FALSE
  /\ pc' = CASE line' = "cd" -> "top"
             [] line' \in {"serial", "parallel"} -> "check"
             [] OTHER -> "fork"
  /\ awaited' = <<>>
  /\ UNCHANGED <<fg_pid, parallel_pids, background_pids, pid, children, struck>>

(* An empty line: strcmp is given the NULL of tokens[0].                   *)
ReadEmptyLine ==
  /\ pc = "prompt"
  /\ pc' = "crashed"
  /\ UNCHANGED <<fg_pid, stop_execution, parallel_pids, background_pids, line,
                 todo, pid, awaited, children, struck>>

Listed(pids) == {pids[i] : i \in 1 .. Len(pids)}

Terminated_LastMissed == Listed(SubSeq(background_pids, 1, Len(background_pids) - 1))  \* faulty
(* The processes that terminate_background_processes sends SIGTERM to.     *)
Terminated == Listed(background_pids)

Exit ==
  /\ pc = "prompt"
  /\ children' = Ended(Terminated \ InState({"reaped"}))
  /\ pc' = "exited"
  /\ UNCHANGED <<fg_pid, stop_execution, parallel_pids, background_pids, line,
                 todo, pid, awaited, struck>>

-----------------------------------------------------------------------------
(* serial_process and parallel_process: the test of the loop and of the    *)
(* last command.  Of the parallel pids, those of earlier lines are waited  *)
(* for again.                                                              *)
ToAwait_LastMissed == SubSeq(parallel_pids, 1, Len(parallel_pids) - 1)  \* faulty
ToAwait == parallel_pids

CheckStop ==
  /\ pc = "check"
  /\ IF todo > 0 /\ ~stop_execution
     THEN pc' = "fork" /\ UNCHANGED awaited
     ELSE IF line = "parallel"
     THEN pc' = "wait" /\ awaited' = ToAwait
     ELSE pc' = "top" /\ UNCHANGED awaited
  /\ UNCHANGED <<fg_pid, stop_execution, parallel_pids, background_pids, line,
                 todo, pid, children, struck>>

Fork ==
  /\ pc = "fork"
  /\ todo' = todo - 1
  /\ \/ /\ pid' = Len(children) + 1
        /\ children' = Append(children, [state |-> "forked", group |-> "shell",
                                         line |-> line])
        /\ pc' = "forked"
     \/ /\ pid' = -1
        /\ UNCHANGED children
        /\ pc' = IF line = "pipe" THEN "forked" ELSE "exited"
  /\ UNCHANGED <<fg_pid, stop_execution, parallel_pids, background_pids, line,
                 awaited, struck>>

HasSlot == Len(background_pids) < MAX_BACKGROUND_PROCESSES

InForeground == <<pid>>

(* The parent's side of fork, in the five functions that call it.          *)
AfterFork ==
  /\ pc = "forked"
  /\ \/ /\ line \in {"foreground", "serial"}
        /\ fg_pid' = pid
        /\ awaited' = InForeground
        /\ pc' = "wait"
        /\ UNCHANGED <<parallel_pids, background_pids>>
     \/ /\ line = "parallel"
        /\ parallel_pids' = Append(parallel_pids, pid)
        /\ pc' = "check"
        /\ UNCHANGED <<fg_pid, background_pids, awaited>>
     \/ /\ line = "background"
        /\ background_pids' = IF HasSlot THEN Append(background_pids, pid) ELSE background_pids
        /\ pc' = "top"
        /\ UNCHANGED <<fg_pid, parallel_pids, awaited>>
     \/ /\ line = "pipe"
        /\ awaited' = Append(awaited, pid)
        /\ pc' = IF todo > 0 THEN "fork" ELSE "wait"
        /\ UNCHANGED <<fg_pid, parallel_pids, background_pids>>
  /\ UNCHANGED <<stop_execution, line, todo, pid, children, struck>>

AfterWait(rest) ==
  IF rest # <<>> THEN "wait" ELSE IF line \in {"foreground", "serial"} THEN "clear" ELSE "top"

(* waitpid of one child; -1 (a fork of execute_pipe that failed) stands    *)
(* for any child.  A pid that was reaped before is no child: ECHILD.       *)
WaitsFor(p) == IF p = -1 THEN Pids ELSE {p}

NoChild_Retried(p) == FALSE  \* faulty
NoChild(p) == WaitsFor(p) \subseteq InState({"reaped"})

Wait ==
  /\ pc = "wait"
  /\ \/ /\ awaited # <<>>
        /\ \/ \E p \in WaitsFor(Head(awaited)) \cap InState({"zombie"}) :
                children' = Reaped({p})
           \/ /\ NoChild(Head(awaited))
              /\ UNCHANGED children
        /\ awaited' = Tail(awaited)
     \/ awaited = <<>> /\ UNCHANGED <<awaited, children>>
  /\ pc' = AfterWait(awaited')
  /\ UNCHANGED <<fg_pid, stop_execution, parallel_pids, background_pids, line,
                 todo, pid, struck>>

FgAfterWait_Kept == fg_pid  \* faulty
FgAfterWait == -1

ClearForeground ==
  /\ pc = "clear"
  /\ fg_pid' = FgAfterWait
  /\ pc' = IF line = "serial" THEN "check" ELSE "top"
  /\ UNCHANGED <<stop_execution, parallel_pids, background_pids, line, todo, pid,
                 awaited, children, struck>>

-----------------------------------------------------------------------------
(* SIGINT from the terminal, at any moment: to the shell, whose handler is *)
(* handle_sigint, and to the children that are still in its group.         *)
Signalled == IF fg_pid # -1 THEN {fg_pid} ELSE Listed(parallel_pids)

InLine(p) == children[p].line # "background"

HitsTheLine ==
  /\ pc = "wait" /\ -1 \notin Listed(awaited)
  /\ \A p \in InState({"forked", "stopped"}) : ~InLine(p)

SIGINT ==
  /\ pc \notin {"exited", "crashed"}
  /\ children' = Ended({p \in InState({"running"}) :
                          p \in Signalled \/ children[p].group = "shell"})
  /\ stop_execution' = TRUE
  /\ struck' = (struck \/ HitsTheLine)
  /\ UNCHANGED <<fg_pid, parallel_pids, background_pids, pc, line, todo, pid, awaited>>

(* The child's side of fork: setpgid, except in execute_pipe, and execvp.  *)
GroupAtExec_Shell(p) == "shell"  \* faulty
GroupAtExec(p) == IF children[p].line = "pipe" THEN "shell" ELSE "own"

Exec(p) ==
  /\ p \in InState({"forked"})
  /\ children' = [children EXCEPT ![p].state = "running", ![p].group = GroupAtExec(p)]
  /\ UNCHANGED shellVars

(* The program returns, or execvp has found none.                          *)
End(p) ==
  /\ p \in InState({"running"})
  /\ children' = Ended({p})
  /\ UNCHANGED shellVars

(* SIGTTIN.                                                                *)
ReadTerminal(p) ==
  /\ p \in InState({"running"}) /\ children[p].group = "own"
  /\ children' = [children EXCEPT ![p].state = "stopped"]
  /\ UNCHANGED shellVars

-----------------------------------------------------------------------------
(* What the shell does on its own, and what the user and the children do.  *)
Busy ==
  \/ reap_background_processes \/ CheckStop \/ Fork \/ AfterFork \/ Wait
  \/ ClearForeground

Next ==
  \/ Busy
  \/ ReadLine \/ ReadEmptyLine \/ Exit
  \/ SIGINT
  \/ \E p \in Pids : Exec(p) \/ End(p) \/ ReadTerminal(p)

Spec == Init /\ [][Next]_vars

(* The shell runs, and every child gets to its program.  Programs need not *)
(* end.                                                                    *)
FairSpec ==
  /\ Spec
  /\ WF_vars(Busy)
  /\ \A p \in 1 .. MaxChildren : WF_vars(p \in Pids /\ Exec(p))

-----------------------------------------------------------------------------
TypeOK ==
  /\ fg_pid \in Pids \cup {-1} /\ pid \in Pids \cup {-1}
  /\ stop_execution \in BOOLEAN /\ struck \in BOOLEAN
  /\ parallel_pids \in Seq(Pids) /\ background_pids \in Seq(Pids)
  /\ Len(background_pids) <= MAX_BACKGROUND_PROCESSES
  /\ pc \in {"top", "prompt", "check", "fork", "forked", "wait", "clear",
             "exited", "crashed"}
  /\ line \in Kinds /\ todo \in 0 .. MaxCommands
  /\ awaited \in Seq(Pids \cup {-1})
  /\ children \in Seq([state : {"forked", "running", "stopped", "zombie", "reaped"},
                       group : {"shell", "own"}, line : Kinds])

(* When the prompt is shown, every process the lines before have started   *)
(* has been reaped, whatever was interrupted when; only the background     *)
(* goes on.                                                                *)
OnlyBackgroundOutlivesItsLine ==
  pc = "prompt" => \A p \in Pids : InLine(p) => children[p].state = "reaped"

(* The commands of a serial line never overlap, and the one that has not   *)
(* been reaped is the one that SIGINT would be sent to.                    *)
OneForegroundAtATime ==
  line \in {"foreground", "serial"} =>
    LET alive == {p \in Pids : InLine(p) /\ children[p].state # "reaped"}
    IN  Cardinality(alive) <= 1 /\ (fg_pid # -1 => alive \subseteq {fg_pid})

(* The invariant of the shell: types and bounds, one foreground command at *)
(* a time, and only the background left when a line is over.               *)
ShellInv == TypeOK /\ OneForegroundAtATime /\ OnlyBackgroundOutlivesItsLine

(* SIGINT never ends a background process.                                 *)
BackgroundUndisturbed ==
  [][SIGINT => \A p \in Pids :
       children[p].line = "background" => children'[p] = children[p]]_vars

(* exit leaves no background process behind, unless there were more than   *)
(* MAX_BACKGROUND_PROCESSES since the shell was started.                   *)
ExitTerminatesBackground ==
  [][Exit /\ Cardinality({p \in Pids : children[p].line = "background"})
               <= MAX_BACKGROUND_PROCESSES =>
       \A p \in Pids : children'[p].state \in {"zombie", "reaped"}]_vars

(* A SIGINT that comes while the shell waits, with all the line's commands *)
(* started and none stopped, brings the prompt back though no command ends *)
(* by itself: handle_sigint reaches the processes of every kind of line.   *)
InterruptEndsTheLine == struck ~> pc \in {"prompt", "exited"}

(* The prompt comes back after every line, unless one of the line's own    *)
(* commands goes on for ever, or is stopped at the terminal; processes in  *)
(* the background, and those of earlier lines, do not keep it away.  Only  *)
(* a pipe that could not be forked waits for any child at all.             *)
PromptReturns ==
  []<>(\/ pc \in {"prompt", "exited", "crashed"}
       \/ \E p \in InState({"running", "stopped"}) :
            InLine(p) \/ -1 \in Listed(awaited))

(* "Stop all running parallel processes" (handle_sigint): at the prompt no *)
(* parallel process runs, and a SIGINT there is sent to none.              *)
SignalsOnlyRunningProcesses ==
  [][SIGINT /\ pc = "prompt" => Signalled \subseteq InState({"running"})]_vars
=============================================================================
