\* Clients killed between any two accesses.
CONSTANTS
  c1 = c1
  c2 = c2
  c3 = c3
  c4 = c4
  Clients <- MCClients
  Slots = 2
  PagesOf <- MCPages
SPECIFICATION CrashSpec
INVARIANTS
  OneSlotPerDeath
  PrintedOnce
\* A client killed inside the critical section stops every other process.
CHECK_DEADLOCK FALSE
