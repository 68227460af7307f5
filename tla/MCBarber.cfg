\* The sizes of barber-cv.c, with spurious wakeups.
CONSTANTS
  Customers = {c0, c1, c2, c3, c4}
  barber = barber
  chairs = 3
  SpuriousWakeups = TRUE
SPECIFICATION BarberFairSpec
INVARIANT BarberInv
PROPERTY AllCustomersJoined
\* Without a spurious wakeup the barber sleeps for ever once the customers
\* have gone; main has returned by then and has ended the process.
CHECK_DEADLOCK FALSE
