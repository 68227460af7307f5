\* Does handle_sigint signal parallel processes of a line that is over?
CONSTANTS
  MaxCommands = 2
  MaxChildren = 3
  MAX_BACKGROUND_PROCESSES = 1
SPECIFICATION Spec
PROPERTY SignalsOnlyRunningProcesses
CHECK_DEADLOCK FALSE
