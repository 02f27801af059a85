\* The spooler: every interleaving of four clients and the printer.
CONSTANTS
  c1 = c1
  c2 = c2
  c3 = c3
  c4 = c4
  Clients <- MCClients
  Slots = 2
  PagesOf <- MCPages
SPECIFICATION FairSpec
INVARIANTS
  TypeOK
  MutualExclusion
  TokenConservation
  RingConsistent
  StoredJobsWhole
  PrintedOnce
PROPERTIES
  SlotKeptWhilePrinting
  RefinesPrintQueue
  EveryJobPrinted
\* Once every client has exited, the printer waits for jobs forever.
CHECK_DEADLOCK FALSE
