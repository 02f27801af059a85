\* One printer, started while clients arrive, and interrupted at any point.
CONSTANTS
  Clients <- MCClients
  Slots = 2
  PagesOf <- MCPages
  MaxStarts = 1
SPECIFICATION StartSpec
INVARIANTS
  AtMostOneInside
  StartConservation
  LateJobsIntact
\* Without a printer nobody moves.
CHECK_DEADLOCK FALSE
