--------------------------- MODULE MCSpoolerCrash ---------------------------
(* Four clients, two slots, and any of the clients may be killed.          *)
EXTENDS SpoolerCrash, TLC

CONSTANTS c1, c2, c3, c4

MCClients == {c1, c2, c3, c4}
MCPages == (c1 :> 1) @@ (c2 :> 2) @@ (c3 :> 0) @@ (c4 :> 3)
=============================================================================
