\* A printer started again over an object left by an interrupted one.
CONSTANTS
  Clients <- MCClients
  Slots = 2
  PagesOf <- MCPages
  MaxStarts = 2
SPECIFICATION StartSpec
INVARIANT AtMostOneInside
\* Without a printer nobody moves.
CHECK_DEADLOCK FALSE
