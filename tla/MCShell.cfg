\* Lines of up to two commands, four processes in all, one background slot.
CONSTANTS
  MaxCommands = 2
  MaxChildren = 4
  MAX_BACKGROUND_PROCESSES = 1
SPECIFICATION FairSpec
INVARIANT ShellInv
PROPERTIES BackgroundUndisturbed ExitTerminatesBackground InterruptEndsTheLine PromptReturns
\* The shell may exit, crash, or wait for ever for a process that is stopped.
CHECK_DEADLOCK FALSE
