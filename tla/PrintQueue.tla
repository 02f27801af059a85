----------------------------- MODULE PrintQueue -----------------------------
(***************************************************************************)
(* What the print spooler promises its users, without shared memory,       *)
(* semaphores or processes: a bounded first-in first-out queue of print    *)
(* jobs.  Every client submits one job; a job keeps its slot from the      *)
(* moment it is submitted until its last page is printed; the printer      *)
(* prints the oldest job, one at a time.  Spooler.tla is shown to          *)
(* implement this module.                                                  *)
(***************************************************************************)
EXTENDS Naturals, Sequences

CONSTANTS Clients,   \* the client processes, one job each
          Slots,     \* the capacity of the buffer
          PagesOf    \* the number of pages each client asks for

VARIABLES pending,   \* the clients whose job is not in the buffer yet
          queue,     \* the jobs in the buffer, oldest first
          printing,  \* whether the job at the head of the queue is on paper
          output     \* the jobs whose printing has started, in order

vars == <<pending, queue, printing, output>>

Job(c) == [id |-> c, pages |-> PagesOf[c]]

Init == /\ pending = Clients
        /\ queue = <<>>
        /\ printing = FALSE
        /\ output = <<>>

Submit(c) == /\ c \in pending
             /\ Len(queue) < Slots
             /\ pending' = pending \ {c}
             /\ queue' = Append(queue, Job(c))
             /\ UNCHANGED <<printing, output>>

StartPrinting == /\ ~printing
                 /\ queue # <<>>
                 /\ printing' = TRUE
                 /\ output' = Append(output, Head(queue))
                 /\ UNCHANGED <<pending, queue>>

FinishPrinting == /\ printing
                  /\ printing' = FALSE
                  /\ queue' = Tail(queue)
                  /\ UNCHANGED <<pending, output>>

Next == \/ \E c \in Clients : Submit(c)
        \/ StartPrinting
        \/ FinishPrinting

(* Every job is submitted and printed in the end: the buffer never stays   *)
(* full, because the printer never stops.                                  *)
Spec == /\ Init
        /\ [][Next]_vars
        /\ \A c \in Clients : WF_vars(Submit(c))
        /\ WF_vars(StartPrinting)
        /\ WF_vars(FinishPrinting)
=============================================================================
