--------------------------- MODULE MCSpoolerStart ---------------------------
(* Three clients that start at any time, two slots.  The number of pages   *)
(* of each is the ID of another: both words of a slot are small integers.  *)
EXTENDS SpoolerStart, TLC

MCClients == 1 .. 3
MCPages == (1 :> 2) @@ (2 :> 3) @@ (3 :> 1)
=============================================================================
