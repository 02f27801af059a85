---------------------------- MODULE SpoolerStart ----------------------------
(***************************************************************************)
(* The life of the shared memory object around Spooler.tla: the printer    *)
(* creates it, initialises it one word at a time while clients may already *)
(* have opened it, and removes its name when the handler of SIGINT runs.   *)
(* A printer interrupted before the handler is installed leaves the object *)
(* behind, and the next printer initialises it again, in use or not.       *)
(***************************************************************************)
EXTENDS Spooler

CONSTANT MaxStarts   \* bound: how often a printer is started

ASSUME MaxStartsAssumption == MaxStarts \in Nat

VARIABLES
  linked,     \* whether the name MY_SHM refers to the object
  sized,      \* whether ftruncate() has given the object its length
  word,       \* i of the loop in init_shared_memory()
  starts,     \* how many printers have been started
  attached,   \* the clients that have opened this object, and since when
  tickets     \* observed: the clients in the order they move clientindex

life      == <<linked, sized, word, starts, attached>>
startvars == <<vars, life, tickets>>

StartPC == {"truncate", "init_clientindex", "init_printerindex", "init_size",
            "init_full", "init_empty", "init_mutex", "init_arr",
            "set_handler"}

StartInit == /\ clientindex = 0 /\ printerindex = 0 /\ size = 0
             /\ full = 0 /\ empty = 0 /\ mutex = 0
             /\ arr = [w \in Words |-> 0]
             /\ LocalsInit
             /\ cpc = [c \in Clients |-> "open"]
             /\ ppc = "stopped"
             /\ linked = FALSE /\ sized = FALSE /\ word = 0 /\ starts = 0
             /\ attached = [c \in Clients |-> "no"]
             /\ tickets = <<>>

-----------------------------------------------------------------------------
(* main() of a new printer process up to its loop.                         *)

(* shm_open(O_CREAT): the object the name refers to as it is, or a new one *)
(* full of zeros.  Clients that have the old object open keep it, and      *)
(* nobody will serve them.                                                 *)
Create ==
  /\ ppc = "stopped" /\ starts < MaxStarts
  /\ ppc' = "truncate" /\ starts' = starts + 1 /\ linked' = TRUE
  /\ position' = 0 /\ jobID' = 0 /\ jobpages' = 0
  /\ \/ /\ linked
        /\ UNCHANGED <<semaphores, ring, sized, attached>>
     \/ /\ ~linked
        /\ empty' = 0 /\ full' = 0 /\ mutex' = 0
        /\ clientindex' = 0 /\ printerindex' = 0 /\ size' = 0
        /\ arr' = [w \in Words |-> 0]
        /\ sized' = FALSE
        /\ attached' = [c \in Clients |-> "no"]
  /\ UNCHANGED <<clients, printout, word>>

Truncate == /\ PrinterGoto("truncate", "init_clientindex")
            /\ sized' = TRUE
            /\ UNCHANGED <<semaphores, ring, clients, position, jobID,
                           jobpages, printout, linked, word, starts,
                           attached>>

InitClientIndex ==
  /\ PrinterGoto("init_clientindex", "init_printerindex")
  /\ clientindex' = 0
  /\ UNCHANGED <<semaphores, printerindex, size, arr, clients, position,
                 jobID, jobpages, printout, life>>

InitPrinterIndex ==
  /\ PrinterGoto("init_printerindex", "init_size")
  /\ printerindex' = 0
  /\ UNCHANGED <<semaphores, clientindex, size, arr, clients, position,
                 jobID, jobpages, printout, life>>

\* sem_init(&mutex) and sem_init(&empty) moved before the others.
InitSizeAndTwoSemaphores ==
  /\ PrinterGoto("init_size", "init_full")
  /\ size' = Slots /\ mutex' = 1 /\ empty' = Slots
  /\ UNCHANGED <<full, clientindex, printerindex, arr, clients,
                 position, jobID, jobpages, printout, life>>

InitSize ==
  /\ PrinterGoto("init_size", "init_full")
  /\ size' = Slots
  /\ UNCHANGED <<semaphores, clientindex, printerindex, arr, clients,
                 position, jobID, jobpages, printout, life>>

(* sem_init() of a semaphore somebody waits for: the value is set, and the *)
(* waiter may go on when it can or sleep forever.                          *)
InitFull == /\ PrinterGoto("init_full", "init_empty")
            /\ full' = 0
            /\ UNCHANGED <<empty, mutex, ring, clients, position, jobID,
                           jobpages, printout, life>>

InitEmpty == /\ PrinterGoto("init_empty", "init_mutex")
             /\ empty' = Slots
             /\ UNCHANGED <<full, mutex, ring, clients, position, jobID,
                            jobpages, printout, life>>

InitMutex == /\ PrinterGoto("init_mutex", "init_arr")
             /\ mutex' = 1
             /\ word' = 0
             /\ UNCHANGED <<empty, full, ring, clients, position, jobID,
                            jobpages, printout, linked, sized, starts,
                            attached>>

InitWord == /\ ppc = "init_arr" /\ word < 2 * Slots
            /\ arr' = [arr EXCEPT ![word] = -1]
            /\ word' = word + 1
            /\ UNCHANGED <<semaphores, clientindex, printerindex, size,
                           clients, printer, linked, sized, starts, attached>>

InitArrDone == /\ PrinterGoto("init_arr", "set_handler")
               /\ word = 2 * Slots
               /\ UNCHANGED <<semaphores, ring, clients, position, jobID,
                              jobpages, printout, life>>

SetHandler == /\ PrinterGoto("set_handler", "wait_full")
              /\ UNCHANGED <<semaphores, ring, clients, position, jobID,
                             jobpages, printout, life>>

Start == \/ Create \/ Truncate \/ InitClientIndex \/ InitPrinterIndex
         \/ InitSize \/ InitFull \/ InitEmpty \/ InitMutex \/ InitWord
         \/ InitArrDone \/ SetHandler

(* SIGINT: its default action until signal() is called, then detectctrl(). *)
InterruptedEarly ==
  /\ ppc \in StartPC
  /\ ppc' = "stopped"
  /\ UNCHANGED <<semaphores, ring, clients, position, jobID, jobpages,
                 printout, life>>

DetectCtrl ==
  /\ ppc \in PrinterPC
  /\ ppc' = "stopped"
  /\ linked' = FALSE
  /\ UNCHANGED <<semaphores, ring, clients, position, jobID, jobpages,
                 printout, sized, word, starts, attached>>

-----------------------------------------------------------------------------
(* A client that is started at any time.                                   *)

(* shm_open() and mmap().  "late" marks the clients that open the object   *)
(* after init_shared_memory() has returned.                                *)
Open(c) == /\ ClientGoto(c, "open", "read_size")
           /\ linked
           /\ attached' = [attached EXCEPT ![c] =
                IF ppc \in PrinterPC \cup {"set_handler"} THEN "late"
                                                         ELSE "early"]
           /\ UNCHANGED <<semaphores, ring, csize, waitflag, temp, printer,
                          linked, sized, word, starts>>

OpenFails(c) == /\ ClientGoto(c, "open", "failed")
                /\ ~linked
                /\ UNCHANGED <<semaphores, ring, csize, waitflag, temp,
                               printer, life>>

(* A mapping of an object without length: SIGBUS at the first access.      *)
BusError(c) == /\ attached[c] # "no" /\ ~sized
               /\ ClientGoto(c, "read_size", "failed")
               /\ UNCHANGED <<semaphores, ring, csize, waitflag, temp,
                              printer, life>>

Client(c) == \/ Open(c) \/ OpenFails(c) \/ BusError(c)
             \/ /\ attached[c] # "no" /\ sized
                /\ ClientStep(c)
                /\ UNCHANGED life

StartStep == \/ Start \/ InterruptedEarly \/ DetectCtrl
             \/ \E c \in Clients : Client(c)
             \/ PrinterStep /\ UNCHANGED life

(* A slot belongs to the client that moves clientindex past it.            *)
Moves(c) == cpc[c] = "advance" /\ cpc'[c] # "advance"

TakeTicket ==
  \/ \E c \in Clients : Moves(c) /\ tickets' = Append(tickets, c)
  \/ (\A c \in Clients : ~Moves(c)) /\ UNCHANGED tickets

StartNext == StartStep /\ TakeTicket

StartSpec == StartInit /\ [][StartNext]_startvars

-----------------------------------------------------------------------------
(* Properties.                                                             *)

(* sem_init(&mutex) is the last of the three: whenever the clients come,   *)
(* at most one process is inside while the printer is started.             *)
AtMostOneInside ==
  Cardinality(ClientsAt(CriticalPC)) + One(PrinterInCritical) <= 1

(* No unit of a semaphore that a client has used is lost when the printer  *)
(* initialises it: the slots add up from sem_init(&mutex) on.              *)
StartConservation ==
  /\ ppc \in {"init_mutex", "init_arr", "set_handler"} =>
       empty + NumberAt({"wait_mutex", "read_index", "advance",
                         "store_id", "store_pages", "post_mutex",
                         "post_full"}) + full = Slots
  /\ ppc \in PrinterPC => TokenConservation

TicketsOf(c) == {k \in DOMAIN tickets : tickets[k] = c}

(* How many jobs printerindex has passed.                                  *)
Passed == Len(printout) - One(ppc = "advance")

(* The job of a client that opens the object after it is initialised is    *)
(* printed once, in its turn and as it was submitted, whatever the clients *)
(* that came too early have left in the ring: the k-th job that is printed *)
(* is that of the k-th client to move clientindex, and until then it waits *)
(* between the two indices.                                                *)
LateJobsIntact ==
  /\ Len(printout) <= Len(tickets)
  /\ \A c \in Clients : attached[c] = "late" =>
       /\ \A k, l \in TicketsOf(c) : k = l
       /\ cpc[c] = "exited" => TicketsOf(c) # {}
       /\ \A k \in TicketsOf(c) :
            IF k <= Len(printout) THEN printout[k] = JobOf(c)
            ELSE ppc \in PrinterPC /\ cpc[c] = "exited" =>
                   /\ k - Passed <= Stored
                   /\ JobIn(Slot(k - Passed - 1)) = JobOf(c)
=============================================================================
