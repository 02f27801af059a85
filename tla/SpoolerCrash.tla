---------------------------- MODULE SpoolerCrash ----------------------------
(***************************************************************************)
(* The spooler of Spooler.tla with clients that die: a signal may kill a   *)
(* client between any two of its shared-memory accesses.  Nothing in       *)
(* client.c undoes what it has done: its semaphore units are gone, and     *)
(* mutex stays taken if it held it.                                        *)
(***************************************************************************)
EXTENDS Spooler

Killed == {c \in Clients : cpc[c] = "killed"}

\* A signal handler that gives the slot and the mutex of the client back.
KillClientWithUndo(c) ==
  /\ cpc[c] \notin {"exited", "killed"}
  /\ cpc' = [cpc EXCEPT ![c] = "killed"]
  /\ empty' = empty + One(cpc[c] \in CriticalPC \cup {"wait_mutex"})
  /\ mutex' = mutex + One(cpc[c] \in CriticalPC)
  /\ UNCHANGED <<full, ring, csize, waitflag, temp, printer>>

\* A handler that gives a slot back whether the client has taken it or not.
KillClientFreesSlot(c) ==
  /\ cpc[c] \notin {"exited", "killed"}
  /\ cpc' = [cpc EXCEPT ![c] = "killed"]
  /\ empty' = empty + 1
  /\ UNCHANGED <<full, mutex, ring, csize, waitflag, temp, printer>>

(* SIGINT, SIGTERM or SIGKILL: client.c installs no handler.               *)
KillClient(c) ==
  /\ cpc[c] \notin {"exited", "killed"}
  /\ cpc' = [cpc EXCEPT ![c] = "killed"]
  /\ UNCHANGED <<semaphores, ring, csize, waitflag, temp, printer>>

CrashNext == Next \/ \E c \in Clients : KillClient(c)

CrashSpec == Init /\ [][CrashNext]_vars

-----------------------------------------------------------------------------
(* Every death costs at most one slot and none gives one away: killed      *)
(* clients can stop the spooler, but not make it overfill the ring.        *)
OneSlotPerDeath == /\ Accounted <= Slots
                   /\ Accounted >= Slots - Cardinality(Killed)

(* Besides, PrintedOnce of Spooler.tla holds.  A client that dies between  *)
(* its two stores keeps mutex, so the half-written job is not printed; one *)
(* that dies before sem_post(&full) leaves a job without a unit of full,   *)
(* so the printer lags behind, and prints no slot twice.                   *)
=============================================================================
