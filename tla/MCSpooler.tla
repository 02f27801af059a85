----------------------------- MODULE MCSpooler -----------------------------
(* Four clients, two slots: the buffer fills up, wraps around and drains.  *)
EXTENDS Spooler, TLC

CONSTANTS c1, c2, c3, c4

MCClients == {c1, c2, c3, c4}
MCPages == (c1 :> 1) @@ (c2 :> 2) @@ (c3 :> 0) @@ (c4 :> 3)
=============================================================================
