------------------------------- MODULE Spooler -------------------------------
(***************************************************************************)
(* The print spooler of "Print Spooler/": one printer process and any      *)
(* number of client processes that share the struct Shared of common.h in  *)
(* POSIX shared memory.  One action is one access to shared memory or one  *)
(* semaphore operation, so every interleaving of the processes is a        *)
(* behaviour.  The clients are those that attach after                     *)
(* init_shared_memory() has returned; SpoolerStart.tla has the others.     *)
(***************************************************************************)
EXTENDS Integers, Sequences, FiniteSets

CONSTANTS Clients,   \* the client processes, named by their argv[1]
          Slots,     \* MY_LEN of printer.c
          PagesOf    \* argv[2] of each client

ASSUME ClientsAssumption == IsFiniteSet(Clients)
ASSUME SlotsAssumption == Slots \in Nat \ {0}
ASSUME PagesAssumption == PagesOf \in [Clients -> Int]

VARIABLES
  (* struct Shared *)
  empty, full, mutex,           \* the values of the three semaphores
  clientindex, printerindex,    \* next slot to fill, slot to print
  size,                         \* the number of slots
  arr,                          \* IDs in words 0..size-1, pages above them
  (* locals of the clients *)
  cpc, csize, waitflag, temp,
  (* locals of the printer, and its standard output *)
  ppc, position, jobID, jobpages, printout

semaphores == <<empty, full, mutex>>
ring       == <<clientindex, printerindex, size, arr>>
clients    == <<cpc, csize, waitflag, temp>>
printer    == <<ppc, position, jobID, jobpages, printout>>
vars       == <<semaphores, ring, clients, printer>>

Words == 0 .. 2 * Slots - 1

(* main() of a client, put_a_job() one shared access at a time, exit.      *)
ClientPC == {"read_size", "get_empty", "wait_empty", "wait_mutex",
             "read_index", "advance", "store_id", "store_pages",
             "post_mutex", "post_full", "exited"}

(* The loop of the printer: take_a_job(), print_a_msg(), go_sleep().       *)
PrinterPC == {"wait_full", "wait_mutex", "read_index", "read_id",
              "read_pages", "post_mutex", "print", "advance", "post_empty"}

ClientGoto(c, from, to) == /\ cpc[c] = from
                           /\ cpc' = [cpc EXCEPT ![c] = to]

PrinterGoto(from, to) == ppc = from /\ ppc' = to

(* The shared memory as init_shared_memory() leaves it.                    *)
SharedInit == /\ clientindex = 0 /\ printerindex = 0
              /\ size = Slots
              /\ full = 0 /\ empty = Slots /\ mutex = 1
              /\ arr = [w \in Words |-> -1]

(* The globals of client.c and printer.c are zero when main() starts.      *)
LocalsInit == /\ csize = [c \in Clients |-> 0]
              /\ waitflag = [c \in Clients |-> 0]
              /\ temp = [c \in Clients |-> 0]
              /\ position = 0 /\ jobID = 0 /\ jobpages = 0
              /\ printout = <<>>

Init == /\ SharedInit
        /\ LocalsInit
        /\ cpc = [c \in Clients |-> "read_size"]
        /\ ppc = "wait_full"

-----------------------------------------------------------------------------
(* The client.                                                             *)

ReadSize(c) == /\ ClientGoto(c, "read_size", "get_empty")
               /\ csize' = [csize EXCEPT ![c] = size]
               /\ UNCHANGED <<semaphores, ring, waitflag, temp, printer>>

(* sem_getvalue() only decides which message the client prints later: the  *)
(* value may be out of date when sem_wait() runs.                          *)
GetEmpty(c) == /\ ClientGoto(c, "get_empty", "wait_empty")
               /\ waitflag' = [waitflag EXCEPT ![c] =
                                 IF empty <= 0 THEN 1 ELSE @]
               /\ UNCHANGED <<semaphores, ring, csize, temp, printer>>

\* The client of a spooler without a slot count.
WaitEmptyUncounted(c) == /\ ClientGoto(c, "wait_empty", "wait_mutex")
                         /\ UNCHANGED <<semaphores, ring, csize, waitflag,
                                        temp, printer>>

WaitEmpty(c) == /\ ClientGoto(c, "wait_empty", "wait_mutex")
                /\ empty > 0
                /\ empty' = empty - 1
                /\ UNCHANGED <<full, mutex, ring, csize, waitflag, temp,
                               printer>>

\* sem_wait(&mutex) forgotten.
WaitMutexSkipped(c) == /\ ClientGoto(c, "wait_mutex", "read_index")
                       /\ UNCHANGED <<semaphores, ring, csize, waitflag,
                                      temp, printer>>

WaitMutex(c) == /\ ClientGoto(c, "wait_mutex", "read_index")
                /\ mutex > 0
                /\ mutex' = mutex - 1
                /\ UNCHANGED <<empty, full, ring, csize, waitflag, temp,
                               printer>>

ReadClientIndex(c) == /\ ClientGoto(c, "read_index", "advance")
                      /\ temp' = [temp EXCEPT ![c] = clientindex]
                      /\ UNCHANGED <<semaphores, ring, csize, waitflag,
                                     printer>>

\* The wrap at the last slot compared with the wrong bound.
AdvanceClientIndexPastEnd(c) ==
  /\ ClientGoto(c, "advance", "store_id")
  /\ clientindex' = IF clientindex = size THEN 0 ELSE clientindex + 1
  /\ UNCHANGED <<semaphores, printerindex, size, arr, csize, waitflag, temp,
                 printer>>

AdvanceClientIndex(c) ==
  /\ ClientGoto(c, "advance", "store_id")
  /\ clientindex' = IF clientindex = size - 1 THEN 0 ELSE clientindex + 1
  /\ UNCHANGED <<semaphores, printerindex, size, arr, csize, waitflag, temp,
                 printer>>

StoreID(c) == /\ ClientGoto(c, "store_id", "store_pages")
              /\ arr' = [arr EXCEPT ![temp[c]] = c]
              /\ UNCHANGED <<semaphores, clientindex, printerindex, size,
                             csize, waitflag, temp, printer>>

\* The slot read again from clientindex, which has moved on.
StorePagesAtIndex(c) ==
  /\ ClientGoto(c, "store_pages", "post_mutex")
  /\ arr' = [arr EXCEPT ![clientindex + csize[c]] = PagesOf[c]]
  /\ UNCHANGED <<semaphores, clientindex, printerindex, size, csize,
                 waitflag, temp, printer>>

StorePages(c) == /\ ClientGoto(c, "store_pages", "post_mutex")
                 /\ arr' = [arr EXCEPT ![temp[c] + csize[c]] = PagesOf[c]]
                 /\ UNCHANGED <<semaphores, clientindex, printerindex, size,
                                csize, waitflag, temp, printer>>

PostMutex(c) == /\ ClientGoto(c, "post_mutex", "post_full")
                /\ mutex' = mutex + 1
                /\ UNCHANGED <<empty, full, ring, csize, waitflag, temp,
                               printer>>

\* sem_post(&full) forgotten.
PostFullSkipped(c) == /\ ClientGoto(c, "post_full", "exited")
                      /\ UNCHANGED <<semaphores, ring, csize, waitflag,
                                     temp, printer>>

PostFull(c) == /\ ClientGoto(c, "post_full", "exited")
               /\ full' = full + 1
               /\ UNCHANGED <<empty, mutex, ring, csize, waitflag, temp,
                              printer>>

ClientStep(c) == \/ ReadSize(c)  \/ GetEmpty(c) \/ WaitEmpty(c)
                 \/ WaitMutex(c) \/ ReadClientIndex(c)
                 \/ AdvanceClientIndex(c) \/ StoreID(c) \/ StorePages(c)
                 \/ PostMutex(c) \/ PostFull(c)

-----------------------------------------------------------------------------
(* The printer.                                                            *)

PrinterWaitFull == /\ PrinterGoto("wait_full", "wait_mutex")
                   /\ full > 0
                   /\ full' = full - 1
                   /\ UNCHANGED <<empty, mutex, ring, clients, position,
                                  jobID, jobpages, printout>>

PrinterWaitMutex == /\ PrinterGoto("wait_mutex", "read_index")
                    /\ mutex > 0
                    /\ mutex' = mutex - 1
                    /\ UNCHANGED <<empty, full, ring, clients, position,
                                   jobID, jobpages, printout>>

ReadPrinterIndex == /\ PrinterGoto("read_index", "read_id")
                    /\ position' = printerindex
                    /\ UNCHANGED <<semaphores, ring, clients, jobID,
                                   jobpages, printout>>

ReadID == /\ PrinterGoto("read_id", "read_pages")
          /\ jobID' = arr[position]
          /\ UNCHANGED <<semaphores, ring, clients, position, jobpages,
                         printout>>

ReadPages == /\ PrinterGoto("read_pages", "post_mutex")
             /\ jobpages' = arr[position + Slots]
             /\ UNCHANGED <<semaphores, ring, clients, position, jobID,
                            printout>>

\* The slot handed back as soon as it is read, by the sem_post that
\* take_a_job() has commented out.
PrinterPostMutexEarly == /\ PrinterGoto("post_mutex", "print")
                         /\ mutex' = mutex + 1
                         /\ empty' = empty + 1
                         /\ UNCHANGED <<full, ring, clients, position,
                                        jobID, jobpages, printout>>

PrinterPostMutex == /\ PrinterGoto("post_mutex", "print")
                    /\ mutex' = mutex + 1
                    /\ UNCHANGED <<empty, full, ring, clients, position,
                                   jobID, jobpages, printout>>

(* print_a_msg(); the sleep of go_sleep() is the time until the next step. *)
PrintMessage == /\ PrinterGoto("print", "advance")
                /\ printout' = Append(printout,
                                      [id |-> jobID, pages |-> jobpages])
                /\ UNCHANGED <<semaphores, ring, clients, position, jobID,
                               jobpages>>

(* go_sleep() moves printerindex without holding mutex.                    *)
AdvancePrinterIndex ==
  /\ PrinterGoto("advance", "post_empty")
  /\ printerindex' = IF printerindex = Slots - 1 THEN 0 ELSE printerindex + 1
  /\ UNCHANGED <<semaphores, clientindex, size, arr, clients, position,
                 jobID, jobpages, printout>>

\* sem_post(&empty) forgotten.
PrinterPostEmptySkipped == /\ PrinterGoto("post_empty", "wait_full")
                           /\ UNCHANGED <<semaphores, ring, clients,
                                          position, jobID, jobpages,
                                          printout>>

PrinterPostEmpty == /\ PrinterGoto("post_empty", "wait_full")
                    /\ empty' = empty + 1
                    /\ UNCHANGED <<full, mutex, ring, clients, position,
                                   jobID, jobpages, printout>>

PrinterStep == \/ PrinterWaitFull \/ PrinterWaitMutex \/ ReadPrinterIndex
               \/ ReadID \/ ReadPages \/ PrinterPostMutex \/ PrintMessage
               \/ AdvancePrinterIndex \/ PrinterPostEmpty

Next == (\E c \in Clients : ClientStep(c)) \/ PrinterStep

Spec == Init /\ [][Next]_vars

(* The operating system schedules every runnable process, and a process    *)
(* blocked in sem_wait() runs once the semaphore stays positive: weak      *)
(* fairness of each process.                                               *)
FairSpec == /\ Spec
            /\ \A c \in Clients : WF_vars(ClientStep(c))
            /\ WF_vars(PrinterStep)

-----------------------------------------------------------------------------
(* Where the processes stand.                                              *)

CriticalPC == {"read_index", "advance", "store_id", "store_pages",
               "post_mutex"}

ClientsAt(PCs)  == {c \in Clients : cpc[c] \in PCs}
NumberAt(PCs)   == Cardinality(ClientsAt(PCs))
One(b)          == IF b THEN 1 ELSE 0

PrinterInCritical == ppc \in {"read_index", "read_id", "read_pages",
                              "post_mutex"}
PrinterHasSlot    == ppc \notin {"wait_full", "post_empty"}
PrinterReadsSlot  == ppc \in {"read_id", "read_pages", "post_mutex", "print",
                              "advance"}

(* The slots whose two words are stored and that printerindex has not      *)
(* passed, and those together with the slot a client is storing.           *)
Stored    == NumberAt({"post_mutex", "post_full"}) + full
               + One(PrinterHasSlot)
Allocated == Stored + NumberAt({"store_id", "store_pages"})

(* The slots that are free, promised to a client that waits for mutex or   *)
(* is about to move clientindex, allocated, or about to be given back by   *)
(* the printer.                                                            *)
Accounted == empty + NumberAt({"wait_mutex", "read_index", "advance"})
               + Allocated + One(ppc = "post_empty")

(* The i-th slot from printerindex, for i up to Slots.                     *)
Slot(i) == IF printerindex + i < Slots THEN printerindex + i
                                       ELSE printerindex + i - Slots
JobIn(s) == [id |-> arr[s], pages |-> arr[s + Slots]]
JobOf(c) == [id |-> c, pages |-> PagesOf[c]]

-----------------------------------------------------------------------------
(* Properties.                                                             *)

(* The type invariant: the indices stay inside the ring and the clients    *)
(* only hold the slot numbers and sizes they may use as array subscripts.  *)
TypeOK == /\ empty \in Nat /\ full \in Nat /\ mutex \in {0, 1}
          /\ clientindex \in 0 .. Slots - 1
          /\ printerindex \in 0 .. Slots - 1
          /\ size = Slots
          /\ arr \in [Words -> Int \cup Clients]
          /\ cpc \in [Clients -> ClientPC]
          /\ csize \in [Clients -> {0, Slots}]
          /\ waitflag \in [Clients -> {0, 1}]
          /\ temp \in [Clients -> 0 .. Slots - 1]
          /\ ppc \in PrinterPC
          /\ position \in 0 .. Slots - 1
          /\ {jobID, jobpages} \subseteq Int \cup Clients
          /\ printout \in Seq([id : Int \cup Clients,
                               pages : Int \cup Clients])

(* At most one process is between sem_wait(&mutex) and sem_post(&mutex),   *)
(* in take_a_job() or in put_a_job(), and the semaphore says which.        *)
MutualExclusion ==
  /\ \A c, d \in ClientsAt(CriticalPC) : c = d
  /\ PrinterInCritical => ClientsAt(CriticalPC) = {}
  /\ mutex = 1 <=> (~PrinterInCritical /\ ClientsAt(CriticalPC) = {})

(* No slot is lost or invented between the two counting semaphores, the    *)
(* two indices and the steps of put_a_job(), take_a_job() and go_sleep().  *)
TokenConservation == Accounted = Slots

(* The two indices stay as far apart as the semaphores say, although       *)
(* go_sleep() moves printerindex without holding mutex.                    *)
RingConsistent == clientindex = Slot(Allocated)

(* Every stored slot holds the ID and the pages of one client, no two      *)
(* slots hold the same job, and none was printed before, except the one    *)
(* whose printing go_sleep() is about to finish: put_a_job() overwrites no *)
(* job that waits and mixes no two jobs.                                   *)
StoredJobsWhole ==
  /\ \A i \in 0 .. Stored - 1 :
       \E c \in Clients : JobIn(Slot(i)) = JobOf(c)
  /\ \A i, j \in 0 .. Stored - 1 : arr[Slot(i)] = arr[Slot(j)] => i = j
  /\ \A i \in One(ppc = "advance") .. Stored - 1, k \in DOMAIN printout :
       arr[Slot(i)] # printout[k].id

(* The printer prints what some client asked for, and no job twice.        *)
PrintedOnce ==
  /\ \A k \in DOMAIN printout : \E c \in Clients : printout[k] = JobOf(c)
  /\ \A k, l \in DOMAIN printout : printout[k].id = printout[l].id => k = l

(* While the printer reads, prints and finishes a job, no client stores    *)
(* into its slot: it is given back by the sem_post(&empty) of go_sleep()   *)
(* only.                                                                   *)
SlotKeptWhilePrinting ==
  [][PrinterReadsSlot => JobIn(position)' = JobIn(position)]_vars

(* The buffer as a user sees it.  A job is in it from the sem_post(&mutex) *)
(* of put_a_job() to the update of printerindex in go_sleep().             *)
Occupied == NumberAt({"post_full"}) + full + One(PrinterHasSlot)

Queue == INSTANCE PrintQueue
           WITH pending  <- Clients \ ClientsAt({"post_full", "exited"}),
                queue    <- [i \in 1 .. Occupied |-> JobIn(Slot(i - 1))],
                printing <- ppc = "advance",
                output   <- printout

(* The shared memory, the semaphores and the two programs implement the    *)
(* bounded FIFO queue, under fair scheduling also its liveness.            *)
RefinesPrintQueue == Queue!Spec

(* Every job is printed, though semaphores do not queue their waiters.     *)
EveryJobPrinted ==
  \A c \in Clients :
    <>(\E k \in DOMAIN printout : printout[k] = JobOf(c))
=============================================================================
