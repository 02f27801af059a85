------------------------- MODULE SpoolerStartProof -------------------------
(***************************************************************************)
(* One printer that initialises the object while any number of clients     *)
(* open it: what SpoolerStart.tla says of the semaphores and of the jobs,  *)
(* for any finite set of clients and any number of slots.  (With a second  *)
(* printer over the same object it is false, see the run SpoolerRestart.)  *)
(***************************************************************************)
EXTENDS SpoolerStart, SpoolerProof

USE ClientsAssumption, SlotsAssumption, MaxStartsAssumption

StartClientPC == ClientPC \cup {"open", "failed"}
WaitingPC     == {"open", "failed", "read_size", "get_empty", "wait_empty"}

BeforeEmpty == {"truncate", "init_clientindex", "init_printerindex",
                "init_size", "init_full", "init_empty"}
BeforeMutex == BeforeEmpty \cup {"init_mutex"}

(* A printer that is not stopped is the only one there was.                *)
Counters == /\ cpc \in [Clients -> StartClientPC]
            /\ empty \in Int /\ full \in Int /\ mutex \in Nat
            /\ ppc \in {"stopped"} \cup StartPC \cup PrinterPC
            /\ starts \in 0 .. 1
            /\ starts = 0 => ppc = "stopped"

(* Until sem_init(&empty) both counting semaphores are 0, and all clients  *)
(* stop before wait_empty.  Afterwards the slots are accounted for; a      *)
(* printer that has not reached its loop counts as one with a slot.        *)
EmptyInv ==
  /\ starts = 0 \/ ppc \in BeforeEmpty =>
       /\ empty = 0 /\ full = 0
       /\ \A c \in Clients : cpc[c] \in WaitingPC
  /\ ppc \in {"init_mutex", "init_arr", "set_handler"} =>
       Accounted = Slots + 1
  /\ ppc \in PrinterPC => Accounted = Slots

(* Until sem_init(&mutex) nobody gets in, and afterwards one at a time.    *)
Inside == NumberAt(CriticalPC) + One(PrinterInCritical)
MutexInv ==
  /\ mutex + Inside <= 1
  /\ starts = 0 \/ ppc \in BeforeMutex => mutex = 0 /\ Inside = 0

StartInv == Counters /\ EmptyInv /\ MutexInv

LEMMA StartInvInit == StartInit => StartInv
<1> SUFFICES ASSUME StartInit PROVE StartInv
  OBVIOUS
<1>1. Counters /\ EmptyInv
  BY DEF StartInit, Counters, EmptyInv, StartClientPC, WaitingPC, BeforeEmpty,
     PrinterPC
<1>2. ClientsAt(CriticalPC) = {}
  BY DEF StartInit, ClientsAt, CriticalPC
<1>3. NumberAt(CriticalPC) = 0 /\ One(PrinterInCritical) = 0
  BY <1>2, FS_EmptySet DEF StartInit, NumberAt, One, PrinterInCritical
<1>4. MutexInv
  BY <1>3 DEF StartInit, MutexInv, Inside
<1>5. QED BY <1>1, <1>4 DEF StartInv

(* What the steps before the loop of the printer do.                       *)
LEMMA CountersStep ==
  ASSUME MaxStarts <= 1, Counters, [StartStep]_<<vars, life>>
  PROVE  Counters'
<1> USE DEF Counters, StartClientPC, StartPC, PrinterPC, PrinterGoto
<1>1. ASSUME Start PROVE Counters'
  BY <1>1 DEF Start, Create, Truncate, InitClientIndex, InitPrinterIndex,
     InitSize, InitFull, InitEmpty, InitMutex, InitWord, InitArrDone,
     SetHandler, semaphores, clients, life, printer
<1>2. ASSUME InterruptedEarly \/ DetectCtrl PROVE Counters'
  BY <1>2 DEF InterruptedEarly, DetectCtrl, semaphores, clients, life
<1>3. ASSUME NEW c \in Clients, Client(c) PROVE Counters'
  <2>1. CASE Open(c) \/ OpenFails(c) \/ BusError(c)
    BY <2>1 DEF Open, OpenFails, BusError, ClientGoto, ClientPC, semaphores,
       printer, life
  <2>2. CASE ClientStep(c) /\ UNCHANGED life
    <3>1. PICK to \in ClientPC : ClientMove(c, to)
      BY <2>2, ClientStepMoves
    <3>2. mutex' \in Nat
      BY <2>2 DEF ClientStep, ReadSize, GetEmpty, WaitEmpty, WaitMutex,
         ReadClientIndex, AdvanceClientIndex, StoreID, StorePages, PostMutex,
         PostFull, semaphores
    <3>3. QED BY <2>2, <3>1, <3>2 DEF ClientMove, printer, life
  <2>3. QED BY <1>3, <2>1, <2>2 DEF Client
<1>4. ASSUME PrinterStep, UNCHANGED life PROVE Counters'
  <2>1. PrinterMove /\ mutex' \in Nat /\ ppc \in PrinterPC /\ ppc' \in PrinterPC
    BY <1>4, PrinterStepMoves
    DEF PrinterStep, PrinterWaitFull, PrinterWaitMutex, ReadPrinterIndex,
        ReadID, ReadPages, PrinterPostMutex, PrintMessage,
        AdvancePrinterIndex, PrinterPostEmpty, semaphores
  <2>2. QED BY <1>4, <2>1 DEF PrinterMove, life
<1>5. CASE UNCHANGED <<vars, life>>
  BY <1>5 DEF vars, semaphores, clients, printer, life
<1>6. QED BY <1>1, <1>2, <1>3, <1>4, <1>5 DEF StartStep

-----------------------------------------------------------------------------
(* The slots.                                                              *)

Promised == {"wait_mutex", "read_index", "advance"}
Storing  == {"store_id", "store_pages"}
Full     == {"post_mutex", "post_full"}

LEMMA CountsAreNumbers == /\ NumberAt(Promised) \in Nat
                          /\ NumberAt(Storing) \in Nat
                          /\ NumberAt(Full) \in Nat
  BY NumberAtType

LEMMA AccountedIs ==
  ASSUME Counters
  PROVE  /\ NumberAt(Promised) \in Nat /\ NumberAt(Storing) \in Nat
         /\ NumberAt(Full) \in Nat /\ empty \in Int /\ full \in Int
         /\ Accounted = empty + NumberAt(Promised) + NumberAt(Full) + full
                          + NumberAt(Storing) + One(PrinterHasSlot)
                          + One(ppc = "post_empty")
<1>1. /\ NumberAt(Promised) \in Nat /\ NumberAt(Storing) \in Nat
      /\ NumberAt(Full) \in Nat
  BY CountsAreNumbers
<1>2. One(PrinterHasSlot) \in Int /\ One(ppc = "post_empty") \in Int
  BY DEF One
<1>3. Accounted = empty + NumberAt(Promised)
                    + (NumberAt(Full) + full + One(PrinterHasSlot)
                       + NumberAt(Storing)) + One(ppc = "post_empty")
  BY DEF Accounted, Allocated, Stored, Promised, Storing, Full
<1>4. QED BY <1>1, <1>2, <1>3 DEF Counters

(* The same of the next state.                                             *)
LEMMA AccountedNext ==
  ASSUME Counters'
  PROVE  Accounted' = empty' + NumberAt(Promised)' + NumberAt(Full)' + full'
                        + NumberAt(Storing)' + One(PrinterHasSlot)'
                        + One(ppc = "post_empty")'
<1>1. (/\ NumberAt(Promised) \in Nat
       /\ NumberAt(Storing) \in Nat
       /\ NumberAt(Full) \in Nat)'
  BY CountsAreNumbers, PTL
<1>2. One(PrinterHasSlot)' \in Int /\ One(ppc = "post_empty")' \in Int
  BY DEF One
<1>3. Accounted' = empty' + NumberAt(Promised)'
                     + (NumberAt(Full)' + full' + One(PrinterHasSlot)'
                        + NumberAt(Storing)') + One(ppc = "post_empty")'
  BY DEF Accounted, Allocated, Stored, Promised, Storing, Full
<1>4. QED BY <1>1, <1>2, <1>3 DEF Counters

LEMMA WaitingCountsNothing ==
  ASSUME \A c \in Clients : cpc[c] \in WaitingPC
  PROVE  /\ NumberAt(Promised) = 0 /\ NumberAt(Storing) = 0
         /\ NumberAt(Full) = 0
<1>1. /\ ClientsAt(Promised) = {} /\ ClientsAt(Storing) = {}
      /\ ClientsAt(Full) = {}
  BY DEF ClientsAt, Promised, Storing, Full, WaitingPC
<1>2. QED BY <1>1, FS_EmptySet DEF NumberAt

(* A client that opens the object or gives up is counted nowhere.          *)
LEMMA OpeningCountsNothing ==
  ASSUME Counters, NEW c \in Clients, Open(c) \/ OpenFails(c) \/ BusError(c)
  PROVE  /\ Accounted' = Accounted
         /\ NumberAt(CriticalPC)' = NumberAt(CriticalPC)
         /\ \A d \in Clients : cpc[d] \in WaitingPC => cpc'[d] \in WaitingPC
<1>1. PICK to \in {"read_size", "failed"} :
        /\ cpc' = [cpc EXCEPT ![c] = to]
        /\ cpc[c] \in {"open", "read_size"}
        /\ UNCHANGED <<empty, full, ppc>>
  BY DEF Open, OpenFails, BusError, ClientGoto, semaphores, printer
<1>2. ASSUME NEW CONSTANT PCs, {"open", "read_size", "failed"} \cap PCs = {}
      PROVE  NumberAt(PCs)' = NumberAt(PCs)
  <2>1. ClientsAt(PCs)' = ClientsAt(PCs)
    BY <1>1, <1>2 DEF ClientsAt, Counters
  <2>2. QED BY <2>1 DEF NumberAt
<1>3. /\ NumberAt({"wait_mutex", "read_index", "advance"})'
           = NumberAt({"wait_mutex", "read_index", "advance"})
      /\ NumberAt({"post_mutex", "post_full"})'
           = NumberAt({"post_mutex", "post_full"})
      /\ NumberAt({"store_id", "store_pages"})'
           = NumberAt({"store_id", "store_pages"})
      /\ NumberAt(CriticalPC)' = NumberAt(CriticalPC)
  BY <1>2 DEF CriticalPC
<1>4. Accounted' = Accounted
  BY <1>1, <1>3 DEF Accounted, Allocated, Stored, PrinterHasSlot
<1>5. \A d \in Clients : cpc[d] \in WaitingPC => cpc'[d] \in WaitingPC
  BY <1>1 DEF WaitingPC, Counters
<1>6. QED BY <1>3, <1>4, <1>5

LEMMA EmptyInvStart ==
  ASSUME MaxStarts <= 1, StartInv, Counters', Start PROVE EmptyInv'
<1> USE DEF StartInv, Counters, EmptyInv, PrinterGoto, BeforeEmpty, PrinterPC
<1>1. UNCHANGED cpc /\ \A PCs : NumberAt(PCs)' = NumberAt(PCs)
  BY NumberAtSame
  DEF Start, Create, Truncate, InitClientIndex, InitPrinterIndex, InitSize,
      InitFull, InitEmpty, InitMutex, InitWord, InitArrDone, SetHandler,
      clients
<1>2. CASE Create
  BY <1>1, <1>2 DEF Create, semaphores
<1>3. CASE Truncate \/ InitClientIndex \/ InitPrinterIndex \/ InitSize
             \/ InitFull
  BY <1>1, <1>3 DEF Truncate, InitClientIndex, InitPrinterIndex, InitSize,
     InitFull, semaphores, life
<1>4. CASE InitEmpty
  <2>1. /\ ppc' = "init_mutex" /\ starts' = 1
        /\ empty' = Slots /\ full' = 0
    BY <1>4 DEF InitEmpty, life
  <2>2. /\ NumberAt(Promised)' = 0 /\ NumberAt(Storing)' = 0
        /\ NumberAt(Full)' = 0
    BY <1>1, <1>4, WaitingCountsNothing DEF InitEmpty
  <2>3. One(PrinterHasSlot)' = 1 /\ One(ppc = "post_empty")' = 0
    BY <2>1 DEF One, PrinterHasSlot
  <2>4. Accounted' = Slots + 1
    BY <2>1, <2>2, <2>3, AccountedNext
  <2>5. QED BY <2>1, <2>4
<1>5. CASE InitMutex \/ InitWord \/ InitArrDone \/ SetHandler
  <2>1. /\ UNCHANGED <<empty, full, starts>> /\ starts = 1
        /\ ppc \in {"init_mutex", "init_arr", "set_handler"}
        /\ ppc' \in {"init_arr", "set_handler", "wait_full"}
    BY <1>5 DEF InitMutex, InitWord, InitArrDone, SetHandler, semaphores,
       printer, life
  <2>2. /\ One(PrinterHasSlot) = 1 /\ One(ppc = "post_empty") = 0
        /\ One(PrinterHasSlot)' = IF ppc' = "wait_full" THEN 0 ELSE 1
        /\ One(ppc = "post_empty")' = 0
    BY <2>1 DEF One, PrinterHasSlot
  <2>3. Accounted = Slots + 1
    BY <2>1
  <2>4. Accounted' = IF ppc' = "wait_full" THEN Slots ELSE Slots + 1
    BY <1>1, <2>1, <2>2, <2>3, AccountedIs, AccountedNext
  <2>5. QED BY <2>1, <2>4
<1>6. QED BY <1>2, <1>3, <1>4, <1>5 DEF Start

LEMMA EmptyInvStep ==
  ASSUME MaxStarts <= 1, StartInv, Counters', [StartStep]_<<vars, life>>
  PROVE  EmptyInv'
<1> USE DEF StartInv
<1>1. CASE Start
  BY <1>1, EmptyInvStart
<1>2. CASE InterruptedEarly \/ DetectCtrl
  BY <1>2 DEF InterruptedEarly, DetectCtrl, Counters, EmptyInv, BeforeEmpty,
     StartPC, PrinterPC, life
<1>3. ASSUME NEW c \in Clients, Open(c) \/ OpenFails(c) \/ BusError(c)
      PROVE  EmptyInv'
  <2>1. UNCHANGED <<empty, full, ppc, starts>>
    BY <1>3 DEF Open, OpenFails, BusError, semaphores, printer, life
  <2>2. QED BY <1>3, <2>1, OpeningCountsNothing DEF EmptyInv
<1>4. ASSUME NEW c \in Clients, ClientStep(c), UNCHANGED life PROVE EmptyInv'
  <2>1. Accounted' = Accounted
    BY <1>4, AccountedStep DEF Counters, Next
  <2>2. PICK to \in ClientPC : ClientMove(c, to)
    BY <1>4, ClientStepMoves
  <2>3. UNCHANGED <<ppc, starts>>
    BY <1>4, <2>2 DEF ClientMove, printer, life
  <2>4. ASSUME starts = 0 \/ ppc \in BeforeEmpty
        PROVE  /\ empty' = 0 /\ full' = 0
               /\ \A d \in Clients : cpc'[d] \in WaitingPC
    BY <2>2, <2>4 DEF ClientMove, EmptyInv, WaitingPC, Counters
  <2>5. QED BY <2>1, <2>3, <2>4 DEF EmptyInv
<1>5. CASE PrinterStep /\ UNCHANGED life
  <2>1. Accounted' = Accounted
    BY <1>5, AccountedStep DEF Counters, Next
  <2>2. ppc \in PrinterPC /\ ppc' \in PrinterPC /\ starts' = starts
    BY <1>5 DEF PrinterStep, PrinterPC, PrinterGoto, PrinterWaitFull,
       PrinterWaitMutex, ReadPrinterIndex, ReadID, ReadPages,
       PrinterPostMutex, PrintMessage, AdvancePrinterIndex,
       PrinterPostEmpty, life
  <2>3. QED BY <2>1, <2>2 DEF EmptyInv, PrinterPC, BeforeEmpty, Counters
<1>6. CASE UNCHANGED <<vars, life>>
  <2>1. Accounted' = Accounted
    BY <1>6, AccountedStep DEF Counters
  <2>2. QED
    BY <1>6, <2>1 DEF EmptyInv, vars, semaphores, clients, printer, life
<1>7. QED BY <1>1, <1>2, <1>3, <1>4, <1>5, <1>6 DEF StartStep, Client

-----------------------------------------------------------------------------
(* The critical section.                                                   *)

(* A step of a client or of the printer moves one unit between mutex and   *)
(* the critical section, or none; nobody takes mutex when it is 0.         *)
LEMMA MutexMoves ==
  ASSUME Counters, [Next]_vars
  PROVE  /\ mutex' + Inside' = mutex + Inside
         /\ mutex = 0 /\ Inside = 0 => mutex' = 0 /\ Inside' = 0
<1>1. /\ mutex \in Nat /\ mutex' \in Int
      /\ NumberAt(CriticalPC) \in Nat /\ One(PrinterInCritical) \in {0, 1}
  BY NumberAtType
  DEF Counters, One, Next, vars, ClientStep, ReadSize, GetEmpty, WaitEmpty,
      WaitMutex, ReadClientIndex, AdvanceClientIndex, StoreID, StorePages,
      PostMutex, PostFull, PrinterStep, PrinterWaitFull, PrinterWaitMutex,
      ReadPrinterIndex, ReadID, ReadPages, PrinterPostMutex, PrintMessage,
      AdvancePrinterIndex, PrinterPostEmpty, semaphores
<1>2. ASSUME NEW c \in Clients, ClientStep(c)
      PROVE  /\ mutex' + Inside' = mutex + Inside
             /\ mutex = 0 /\ Inside = 0 => mutex' = 0 /\ Inside' = 0
  <2>1. PICK to \in ClientPC :
          /\ cpc' = [cpc EXCEPT ![c] = to]
          /\ UNCHANGED ppc
          /\ \/ mutex > 0 /\ mutex' = mutex - 1
                /\ cpc[c] \notin CriticalPC /\ to \in CriticalPC
             \/ mutex' = mutex + 1
                /\ cpc[c] \in CriticalPC /\ to \notin CriticalPC
             \/ mutex' = mutex /\ (cpc[c] \in CriticalPC <=> to \in CriticalPC)
    BY <1>2 DEF ClientStep, ClientGoto, ClientPC, CriticalPC, ReadSize,
       GetEmpty, WaitEmpty, WaitMutex, ReadClientIndex, AdvanceClientIndex,
       StoreID, StorePages, PostMutex, PostFull, semaphores, printer
  <2>2. /\ NumberAt(CriticalPC)' = NumberAt(CriticalPC)
                                     + Gain(cpc[c], to, CriticalPC)
        /\ NumberAt(CriticalPC)' \in Nat
    BY <2>1, NumberAtMove DEF Counters
  <2>3. One(PrinterInCritical)' = One(PrinterInCritical)
    BY <2>1 DEF One, PrinterInCritical
  <2>4. mutex' - mutex + Gain(cpc[c], to, CriticalPC) = 0
    <3>1. CASE mutex' = mutex - 1
      BY <1>1, <2>1, <3>1 DEF Gain
    <3>2. CASE mutex' = mutex + 1
      BY <1>1, <2>1, <3>2 DEF Gain
    <3>3. CASE mutex' = mutex
      BY <1>1, <2>1, <3>3 DEF Gain
    <3>4. QED BY <2>1, <3>1, <3>2, <3>3
  <2>5. Gain(cpc[c], to, CriticalPC) \in Int
    BY DEF Gain
  <2>6. /\ Inside = NumberAt(CriticalPC) + One(PrinterInCritical)
        /\ Inside' = NumberAt(CriticalPC)' + One(PrinterInCritical)
    BY <2>3 DEF Inside
  <2>7. mutex' + Inside' = mutex + Inside
    BY <1>1, <2>2, <2>4, <2>5, <2>6
  <2>8. mutex = 0 => mutex' >= 0
    BY <1>1, <2>1
  <2>9. One(PrinterInCritical) >= 0
    BY <1>1
  <2>10. mutex = 0 /\ Inside = 0 => mutex' = 0 /\ Inside' = 0
    <3> SUFFICES ASSUME mutex = 0, Inside = 0
                 PROVE  mutex' = 0 /\ Inside' = 0
      OBVIOUS
    <3>1. mutex' >= 0 /\ mutex' + Inside' = 0
      BY <2>7, <2>8
    <3>2. Inside' \in Int /\ Inside' >= 0
      BY <1>1, <2>2, <2>6, <2>9
    <3>3. \A x, y \in Int : x >= 0 /\ y >= 0 /\ x + y = 0 => x = 0 /\ y = 0
      OBVIOUS
    <3>4. mutex' \in Int
      BY <1>1
    <3>5. QED BY <3>1, <3>2, <3>3, <3>4, Zenon
  <2>11. QED BY <2>7, <2>10
<1>3. CASE PrinterStep
  <2>1. /\ UNCHANGED cpc
        /\ \/ mutex > 0 /\ mutex' = mutex - 1
              /\ ~PrinterInCritical /\ PrinterInCritical'
           \/ mutex' = mutex + 1
              /\ PrinterInCritical /\ ~PrinterInCritical'
           \/ mutex' = mutex /\ (PrinterInCritical <=> PrinterInCritical')
    BY <1>3 DEF PrinterStep, PrinterGoto, PrinterInCritical, PrinterWaitFull,
       PrinterWaitMutex, ReadPrinterIndex, ReadID, ReadPages,
       PrinterPostMutex, PrintMessage, AdvancePrinterIndex,
       PrinterPostEmpty, semaphores, clients
  <2>2. NumberAt(CriticalPC)' = NumberAt(CriticalPC)
    BY <2>1, NumberAtSame
  <2>3. mutex' + One(PrinterInCritical)' = mutex + One(PrinterInCritical)
        /\ One(PrinterInCritical)' \in {0, 1} /\ (mutex = 0 => mutex' >= 0)
    <3>1. CASE mutex' = mutex - 1
      BY <1>1, <2>1, <3>1 DEF One
    <3>2. CASE mutex' = mutex + 1
      BY <1>1, <2>1, <3>2 DEF One
    <3>3. CASE mutex' = mutex
      BY <1>1, <2>1, <3>3 DEF One
    <3>4. QED BY <2>1, <3>1, <3>2, <3>3
  <2>4. /\ Inside = NumberAt(CriticalPC) + One(PrinterInCritical)
        /\ Inside' = NumberAt(CriticalPC) + One(PrinterInCritical)'
    BY <2>2 DEF Inside
  <2>5. QED BY <1>1, <2>3, <2>4
<1>4. CASE UNCHANGED vars
  <2>1. NumberAt(CriticalPC)' = NumberAt(CriticalPC)
    BY <1>4, NumberAtSame DEF vars, clients
  <2>2. mutex' = mutex /\ Inside' = Inside
    BY <1>4, <2>1
    DEF vars, semaphores, printer, Inside, PrinterInCritical, One
  <2>3. QED BY <2>2
<1>5. QED BY <1>2, <1>3, <1>4 DEF Next

LEMMA MutexInvStep ==
  ASSUME MaxStarts <= 1, StartInv, [StartStep]_<<vars, life>>
  PROVE  MutexInv'
<1> USE DEF StartInv
<1>1. /\ mutex \in Nat /\ NumberAt(CriticalPC) \in Nat
      /\ One(PrinterInCritical) \in {0, 1}
      /\ Inside = NumberAt(CriticalPC) + One(PrinterInCritical)
      /\ Inside' = NumberAt(CriticalPC)' + One(PrinterInCritical)'
  BY NumberAtType DEF Counters, One, Inside
<1>2. CASE Start \/ InterruptedEarly
  <2>1. /\ UNCHANGED cpc
        /\ ~PrinterInCritical /\ ~PrinterInCritical'
    BY <1>2 DEF Start, Create, Truncate, InitClientIndex, InitPrinterIndex,
       InitSize, InitFull, InitEmpty, InitMutex, InitWord, InitArrDone,
       SetHandler, InterruptedEarly, StartPC, PrinterGoto, PrinterInCritical,
       clients, printer
  <2>2. NumberAt(CriticalPC)' = NumberAt(CriticalPC)
    BY <2>1, NumberAtSame
  <2>3. Inside' = Inside
    BY <1>1, <2>1, <2>2 DEF One
  <2>4. CASE InitMutex
    BY <2>3, <2>4 DEF InitMutex, MutexInv, PrinterGoto, BeforeMutex,
       BeforeEmpty, Counters, life
  <2>5. CASE Create
    BY <2>3, <2>5 DEF Create, MutexInv, Counters, semaphores
  <2>6. CASE ~InitMutex /\ ~Create
    <3>1. /\ UNCHANGED <<mutex, starts>> /\ starts # 0
          /\ ppc' \in BeforeMutex => ppc \in BeforeMutex
      BY <1>2, <2>6 DEF Start, Truncate, InitClientIndex, InitPrinterIndex,
         InitSize, InitFull, InitEmpty, InitWord, InitArrDone, SetHandler,
         InterruptedEarly, PrinterGoto, BeforeMutex, BeforeEmpty, Counters,
         StartPC, semaphores, printer, life
    <3>2. QED BY <2>3, <3>1 DEF MutexInv
  <2>7. QED BY <2>4, <2>5, <2>6
<1>3. CASE DetectCtrl
  <2>1. /\ UNCHANGED <<cpc, mutex, starts>> /\ ~PrinterInCritical'
        /\ starts # 0 /\ ppc' = "stopped"
    BY <1>3 DEF DetectCtrl, PrinterInCritical, PrinterPC, Counters, clients,
       semaphores
  <2>2. NumberAt(CriticalPC)' = NumberAt(CriticalPC)
    BY <2>1, NumberAtSame
  <2>3. Inside' <= Inside
    BY <1>1, <2>1, <2>2 DEF One
  <2>4. Inside' \in Int
    BY <1>1, <2>1, <2>2 DEF One
  <2>5. QED
    BY <1>1, <2>1, <2>3, <2>4 DEF MutexInv, BeforeMutex, BeforeEmpty
<1>4. ASSUME NEW c \in Clients, Open(c) \/ OpenFails(c) \/ BusError(c)
      PROVE  MutexInv'
  <2>1. /\ UNCHANGED <<ppc, mutex, starts>>
        /\ NumberAt(CriticalPC)' = NumberAt(CriticalPC)
    BY <1>4, OpeningCountsNothing
    DEF Open, OpenFails, BusError, semaphores, printer, life
  <2>2. Inside' = Inside
    BY <1>1, <2>1 DEF One, PrinterInCritical
  <2>3. QED BY <2>1, <2>2 DEF MutexInv
<1>5. ASSUME [Next]_vars, UNCHANGED life PROVE MutexInv'
  <2>1. /\ mutex' + Inside' = mutex + Inside
        /\ mutex = 0 /\ Inside = 0 => mutex' = 0 /\ Inside' = 0
    BY <1>5, MutexMoves
  <2>2. \/ UNCHANGED ppc
        \/ ppc \in PrinterPC /\ ppc' \in PrinterPC
    BY <1>5 DEF Next, vars, ClientStep, ReadSize, GetEmpty, WaitEmpty,
       WaitMutex, ReadClientIndex, AdvanceClientIndex, StoreID, StorePages,
       PostMutex, PostFull, PrinterStep, PrinterPC, PrinterGoto,
       PrinterWaitFull, PrinterWaitMutex, ReadPrinterIndex, ReadID,
       ReadPages, PrinterPostMutex, PrintMessage, AdvancePrinterIndex,
       PrinterPostEmpty, printer
  <2>3. QED
    BY <1>5, <2>1, <2>2
    DEF MutexInv, BeforeMutex, BeforeEmpty, PrinterPC, life
<1>6. QED
  BY <1>2, <1>3, <1>4, <1>5 DEF StartStep, Client, Next, vars

LEMMA StartInvariance ==
  ASSUME MaxStarts <= 1 PROVE StartSpec => []StartInv
<1>1. StartInv /\ [StartStep]_<<vars, life>> => StartInv'
  BY CountersStep, EmptyInvStep, MutexInvStep DEF StartInv
<1>2. [StartNext]_startvars => [StartStep]_<<vars, life>>
  BY DEF StartNext, startvars
<1>3. QED BY StartInvInit, <1>1, <1>2, PTL DEF StartSpec

(* However many clients open the object while one printer initialises it,  *)
(* and wherever it is interrupted, at most one process is in a critical    *)
(* section: sem_init(&mutex) lets nobody in beside another.                *)
THEOREM AtMostOneInsideCorrect ==
  ASSUME MaxStarts <= 1 PROVE StartSpec => []AtMostOneInside
<1>1. StartInv => AtMostOneInside
  <2> SUFFICES ASSUME StartInv PROVE AtMostOneInside
    OBVIOUS
  <2>1. /\ mutex \in Nat /\ mutex + Inside <= 1
        /\ Inside = Cardinality(ClientsAt(CriticalPC))
                      + One(PrinterInCritical)
    BY DEF StartInv, Counters, MutexInv, Inside, NumberAt
  <2>2. Inside \in Int
    BY <2>1, NumberAtType DEF NumberAt, One
  <2>3. QED BY <2>1, <2>2 DEF AtMostOneInside
<1>2. QED BY StartInvariance, <1>1, PTL

(* No unit that a client has taken from empty or given to full is lost     *)
(* when the printer initialises a semaphore, and the slots add up from     *)
(* sem_init(&mutex) on.                                                    *)
THEOREM StartConservationCorrect ==
  ASSUME MaxStarts <= 1 PROVE StartSpec => []StartConservation
<1>1. StartInv => StartConservation
  <2> SUFFICES ASSUME StartInv PROVE StartConservation
    OBVIOUS
  <2>1. ASSUME ppc \in {"init_mutex", "init_arr", "set_handler"}
        PROVE  empty + NumberAt({"wait_mutex", "read_index", "advance",
                                 "store_id", "store_pages", "post_mutex",
                                 "post_full"}) + full = Slots
    <3> DEFINE All == {"wait_mutex", "read_index", "advance", "store_id",
                       "store_pages", "post_mutex", "post_full"}
               P == ClientsAt(Promised)
               S == ClientsAt(Storing)
               F == ClientsAt(Full)
    <3>1. /\ IsFiniteSet(P) /\ IsFiniteSet(S) /\ IsFiniteSet(F)
          /\ IsFiniteSet(S \cup F)
      BY NumberAtType, FS_Union
    <3>2. /\ ClientsAt(All) = P \cup (S \cup F)
          /\ P \cap (S \cup F) = {} /\ S \cap F = {}
      BY DEF ClientsAt, Promised, Storing, Full
    <3>3. NumberAt(All) = NumberAt(Promised) + NumberAt(Storing)
                            + NumberAt(Full)
      <4>1. /\ Cardinality(S \cup F) = Cardinality(S) + Cardinality(F)
                                         - Cardinality(S \cap F)
            /\ Cardinality(P \cup (S \cup F))
                 = Cardinality(P) + Cardinality(S \cup F)
                     - Cardinality(P \cap (S \cup F))
        BY <3>1, FS_Union
      <4>2. Cardinality(S \cap F) = 0 /\ Cardinality(P \cap (S \cup F)) = 0
        BY <3>2, FS_EmptySet
      <4>3. /\ Cardinality(P) \in Nat /\ Cardinality(S) \in Nat
            /\ Cardinality(F) \in Nat
        BY <3>1, FS_CardinalityType
      <4>4. /\ NumberAt(All) = Cardinality(P \cup (S \cup F))
            /\ NumberAt(Promised) = Cardinality(P)
            /\ NumberAt(Storing) = Cardinality(S)
            /\ NumberAt(Full) = Cardinality(F)
        BY <3>2 DEF NumberAt
      <4> HIDE DEF P, S, F, All
      <4>5. QED BY <4>1, <4>2, <4>3, <4>4
    <3>4. One(PrinterHasSlot) = 1 /\ One(ppc = "post_empty") = 0
      BY <2>1 DEF One, PrinterHasSlot
    <3>5. Accounted = Slots + 1
      BY <2>1 DEF StartInv, EmptyInv
    <3> HIDE DEF All
    <3>6. empty + NumberAt(All) + full = Slots
      BY <3>3, <3>4, <3>5, AccountedIs DEF StartInv
    <3>7. QED BY <3>6 DEF All
  <2>2. ppc \in PrinterPC => TokenConservation
    BY DEF StartInv, EmptyInv, TokenConservation
  <2>3. QED BY <2>1, <2>2 DEF StartConservation
<1>2. QED BY StartInvariance, <1>1, PTL

-----------------------------------------------------------------------------
(* The jobs of the clients that did not come too early.                    *)

RingSlots == 0 .. Slots - 1

(* No printer yet, or a printer that runs: there is at most one, so before *)
(* it has stopped nothing is said of a ring that nobody serves.            *)
Alive == starts = 0 \/ ppc # "stopped"

(* The jobs between the two indices, and with the one that is being        *)
(* stored.  Stored counts a slot for a printer that has not reached its    *)
(* loop, which has none.                                                   *)
Jobs  == Stored - One(ppc \notin PrinterPC)
Taken == Allocated - One(ppc \notin PrinterPC)

LateTypes ==
  /\ empty \in Nat /\ full \in Nat
  /\ clientindex \in RingSlots /\ printerindex \in RingSlots
  /\ position \in RingSlots
  /\ size \in {0, Slots}
  /\ arr \in [Words -> Int \cup Clients]
  /\ csize \in [Clients -> {0, Slots}]
  /\ temp \in [Clients -> RingSlots]
  /\ jobID \in Int \cup Clients /\ jobpages \in Int \cup Clients
  /\ printout \in Seq([id : Int \cup Clients, pages : Int \cup Clients])
  /\ attached \in [Clients -> {"no", "early", "late"}]

(* How far a client can have come while the printer starts.  In particular *)
(* both indices are 0 until somebody can get inside, and the clients that  *)
(* arrive late find the length of the ring.                                *)
EarlyInv ==
  /\ starts = 0 => ~linked /\ \A c \in Clients : attached[c] = "no"
  /\ starts = 0 \/ ppc \in BeforeMutex =>
       /\ clientindex = 0 /\ printerindex = 0 /\ full = 0
       /\ \A c \in Clients : cpc[c] \in WaitingPC \cup {"wait_mutex"}
  /\ ppc \in {"init_mutex", "init_arr", "set_handler"} => printerindex = 0
  /\ starts = 0 \/ ppc \in BeforeMutex \cup {"init_arr"} =>
       \A c \in Clients : attached[c] # "late"
  /\ ppc \in {"init_full", "init_empty", "init_mutex", "init_arr",
              "set_handler"} \cup PrinterPC => size = Slots
  /\ \A c \in Clients : attached[c] = "no" => cpc[c] \in {"open", "failed"}
  /\ \A c \in Clients : cpc[c] = "open" => attached[c] = "no"

(* Where the indices and the locals of the clients point.                  *)
ClientPlaces ==
  /\ clientindex = Slot(Taken)
  /\ \A c \in Clients :
       attached[c] = "late" /\ cpc[c] \notin {"open", "failed", "read_size"}
         => csize[c] = Slots
  /\ \A c \in Clients : cpc[c] = "advance" => temp[c] = clientindex
  /\ \A c \in Clients : cpc[c] \in Storing => temp[c] = Slot(Jobs)

(* What the printer has read is still in the slot.                         *)
PrinterPlaces ==
  /\ ppc \in PrinterPC /\ PrinterReadsSlot => position = printerindex
  /\ ppc \in {"read_pages", "post_mutex", "print"} => jobID = arr[position]
  /\ ppc \in {"post_mutex", "print"} => jobpages = arr[position + Slots]

Places == ClientPlaces /\ PrinterPlaces

(* The clients that have moved clientindex have one ticket each.           *)
TakenPC == Storing \cup DonePC

TicketInv ==
  /\ tickets \in Seq(Clients)
  /\ \A k \in DOMAIN tickets : cpc[tickets[k]] \in TakenPC
  /\ \A k, l \in DOMAIN tickets : tickets[k] = tickets[l] => k = l
  /\ \A c \in Clients :
       cpc[c] \in TakenPC => \E k \in DOMAIN tickets : tickets[k] = c

(* The k-th ticket is that of the k-th job: printed, or in the ring behind *)
(* those that printerindex has passed, or being stored.                    *)
Late(c) == attached[c] = "late"

InTurn ==
  /\ Passed \in Nat /\ Len(tickets) = Passed + Taken
  /\ DOMAIN printout \subseteq DOMAIN tickets
  /\ \A c \in Clients : cpc[c] \in Storing => tickets[Len(tickets)] = c
  /\ \A c \in Clients :
       Late(c) /\ cpc[c] = "store_pages" => arr[temp[c]] = c
  /\ \A k \in DOMAIN printout :
       Late(tickets[k]) => printout[k] = JobOf(tickets[k])
  /\ \A i \in 0 .. Jobs - 1 :
       Late(tickets[Passed + 1 + i]) =>
         JobIn(Slot(i)) = JobOf(tickets[Passed + 1 + i])

AliveInv == LateTypes /\ EarlyInv /\ Places /\ InTurn

(* What was printed stays when the printer has stopped.                    *)
PrintedIntact ==
  /\ attached \in [Clients -> {"no", "early", "late"}]
  /\ printout \in Seq([id : Int \cup Clients, pages : Int \cup Clients])
  /\ Len(printout) <= Len(tickets)
  /\ \A k \in DOMAIN printout :
       Late(tickets[k]) => printout[k] = JobOf(tickets[k])

LateInv == StartInv /\ TicketInv /\ PrintedIntact /\ (Alive => AliveInv)

LEMMA OneInside ==
  ASSUME StartInv
  PROVE  /\ \A c, d \in ClientsAt(CriticalPC) : c = d
         /\ PrinterInCritical => ClientsAt(CriticalPC) = {}
<1> DEFINE C == ClientsAt(CriticalPC)
<1>1. /\ IsFiniteSet(C) /\ Cardinality(C) \in Nat
      /\ One(PrinterInCritical) \in {0, 1} /\ mutex \in Nat
      /\ PrinterInCritical => One(PrinterInCritical) = 1
      /\ mutex + (Cardinality(C) + One(PrinterInCritical)) <= 1
  BY NumberAtType
  DEF StartInv, Counters, MutexInv, Inside, NumberAt, One
<1>2. Cardinality(C) <= 1 /\ (PrinterInCritical => Cardinality(C) = 0)
  <2> HIDE DEF C
  <2>1. QED BY <1>1
<1>3. ASSUME NEW c \in C, NEW d \in C, c # d PROVE FALSE
  <2> DEFINE T == {c}
  <2>1. IsFiniteSet(T) /\ Cardinality(T) = 1 /\ d \notin T
    BY <1>3, FS_Singleton
  <2>2. Cardinality(T \cup {d}) = 2
    <3> HIDE DEF T
    <3>1. Cardinality(T \cup {d}) =
            IF d \in T THEN Cardinality(T) ELSE Cardinality(T) + 1
      BY <2>1, FS_AddElement
    <3>2. QED BY <2>1, <3>1
  <2>3. Cardinality(T \cup {d}) <= Cardinality(C)
    BY <1>1, FS_Subset
  <2> HIDE DEF C, T
  <2>4. QED BY <1>1, <1>2, <2>2, <2>3
<1>4. PrinterInCritical => C = {}
  BY <1>1, <1>2, FS_EmptySet
<1>5. QED BY <1>3, <1>4

(* The slots between the indices, and who may be moving clientindex.       *)
LEMMA JobsBounds ==
  ASSUME StartInv, Alive, LateTypes, EarlyInv
  PROVE  /\ Jobs \in Nat /\ Taken \in Nat /\ Jobs <= Taken /\ Taken <= Slots
         /\ ppc \in PrinterPC /\ PrinterHasSlot => Jobs >= 1
         /\ \A c \in Clients : cpc[c] = "advance" =>
              Taken = Jobs /\ Taken < Slots
         /\ \A c \in Clients : cpc[c] \in Storing => Taken = Jobs + 1
<1>1. /\ NumberAt(Promised) \in Nat /\ NumberAt(Storing) \in Nat
      /\ NumberAt(Full) \in Nat /\ empty \in Nat /\ full \in Nat
  BY CountsAreNumbers DEF LateTypes
<1>2. /\ One(PrinterHasSlot) \in {0, 1} /\ One(ppc = "post_empty") \in {0, 1}
      /\ One(ppc \notin PrinterPC) \in {0, 1}
      /\ PrinterHasSlot => One(PrinterHasSlot) = 1
      /\ ppc \in PrinterPC => One(ppc \notin PrinterPC) = 0
      /\ ppc \notin PrinterPC =>
           One(PrinterHasSlot) = 1 /\ One(ppc \notin PrinterPC) = 1
  BY DEF One, PrinterPC, PrinterHasSlot
<1>3. /\ Jobs = NumberAt(Full) + full + One(PrinterHasSlot)
                  - One(ppc \notin PrinterPC)
      /\ Taken = Jobs + NumberAt(Storing)
      /\ Jobs \in Nat /\ Taken \in Nat /\ Jobs <= Taken
      /\ ppc \in PrinterPC /\ PrinterHasSlot => Jobs >= 1
  <2>1. /\ Stored = NumberAt(Full) + full + One(PrinterHasSlot)
        /\ Allocated = Stored + NumberAt(Storing)
    BY DEF Stored, Allocated, Full, Storing
  <2>2. Stored \in Int
    BY <1>1, <1>2, <2>1
  <2>3. /\ Jobs = Stored - One(ppc \notin PrinterPC)
        /\ Taken = Jobs + NumberAt(Storing)
    BY <1>1, <1>2, <2>1, <2>2 DEF Jobs, Taken
  <2>4. QED BY <1>1, <1>2, <2>1, <2>3
<1>4. Taken + NumberAt(Promised) <= Slots
  <2>1. CASE starts = 0 \/ ppc \in BeforeEmpty
    <3>1. /\ NumberAt(Promised) = 0 /\ NumberAt(Storing) = 0
          /\ NumberAt(Full) = 0 /\ full = 0
      BY <2>1, WaitingCountsNothing DEF StartInv, EmptyInv
    <3>2. ppc \notin PrinterPC
      BY <2>1 DEF BeforeEmpty, PrinterPC, StartInv, Counters
    <3>3. QED BY <1>2, <1>3, <3>1, <3>2
  <2>2. CASE ppc \in {"init_mutex", "init_arr", "set_handler"}
    <3>1. ppc \notin PrinterPC /\ Accounted = Slots + 1
      BY <2>2 DEF StartInv, EmptyInv, PrinterPC
    <3>2. QED BY <1>1, <1>2, <1>3, <3>1, AccountedIs DEF StartInv
  <2>3. CASE ppc \in PrinterPC
    <3>1. Accounted = Slots
      BY <2>3 DEF StartInv, EmptyInv
    <3>2. QED BY <1>1, <1>2, <1>3, <2>3, <3>1, AccountedIs DEF StartInv
  <2>4. QED
    BY <2>1, <2>2, <2>3 DEF Alive, StartInv, Counters, StartPC, BeforeEmpty
<1>5. ASSUME NEW c \in Clients, cpc[c] = "advance"
      PROVE  Taken = Jobs /\ Taken < Slots
  <2>1. c \in ClientsAt(Promised) /\ c \in ClientsAt(CriticalPC)
    BY <1>5 DEF ClientsAt, Promised, CriticalPC
  <2>2. ClientsAt(Storing) = {}
    BY <1>5, <2>1, OneInside DEF ClientsAt, Storing, CriticalPC
  <2>3. NumberAt(Promised) # 0 /\ NumberAt(Storing) = 0
    BY <2>1, <2>2, NumberAtType, FS_EmptySet DEF NumberAt
  <2>4. QED BY <1>1, <1>3, <1>4, <2>3
<1>6. ASSUME NEW c \in Clients, cpc[c] \in Storing PROVE Taken = Jobs + 1
  <2>1. ClientsAt(Storing) = {c}
    BY <1>6, OneInside DEF ClientsAt, Storing, CriticalPC
  <2>2. NumberAt(Storing) = 1
    BY <2>1, FS_Singleton DEF NumberAt
  <2>3. QED BY <1>3, <2>2
<1>7. QED BY <1>1, <1>3, <1>4, <1>5, <1>6

LEMMA SlotsAreIntegers ==
  ASSUME Counters PROVE Stored \in Int /\ Allocated \in Int
<1>1. NumberAt(Full) \in Nat /\ NumberAt(Storing) \in Nat /\ full \in Int
  BY CountsAreNumbers DEF Counters
<1>2. One(PrinterHasSlot) \in Int
  BY DEF One
<1>3. Stored = NumberAt(Full) + full + One(PrinterHasSlot)
      /\ Allocated = Stored + NumberAt(Storing)
  BY DEF Stored, Allocated, Full, Storing
<1>4. QED BY <1>1, <1>2, <1>3

LEMMA RingSlotFacts ==
  ASSUME printerindex \in RingSlots
  PROVE  /\ \A i \in 0 .. Slots : Slot(i) \in RingSlots
         /\ \A i, j \in 0 .. Slots - 1 : Slot(i) = Slot(j) => i = j
         /\ Slot(0) = printerindex
  BY DEF RingSlots, Slot

(* What a step of a client or of the printer's loop does to the counts.    *)
LEMMA ClientJobs ==
  ASSUME Counters, NEW c \in Clients, ClientStep(c)
  PROVE  /\ Jobs' = Jobs + One(cpc[c] = "store_pages")
         /\ Taken' = Taken + One(cpc[c] = "advance")
<1>1. /\ Stored' = Stored + One(cpc[c] = "store_pages")
      /\ Allocated' = Allocated + One(cpc[c] = "advance")
  BY ClientMovesSlots DEF Counters
<1>2. One(ppc \notin PrinterPC)' = One(ppc \notin PrinterPC)
  BY ClientStepMoves DEF One, ClientMove, printer
<1>3. /\ Stored \in Int /\ Allocated \in Int
      /\ One(ppc \notin PrinterPC) \in Int
      /\ One(cpc[c] = "store_pages") \in Int /\ One(cpc[c] = "advance") \in Int
  BY SlotsAreIntegers DEF One
<1>4. QED BY <1>1, <1>2, <1>3 DEF Jobs, Taken

LEMMA PrinterJobs ==
  ASSUME Counters, PrinterStep
  PROVE  /\ Jobs' = Jobs - One(ppc = "advance")
         /\ Taken' = Taken - One(ppc = "advance")
<1>1. /\ Stored' = Stored - One(ppc = "advance")
      /\ Allocated' = Allocated - One(ppc = "advance")
  BY PrinterMovesSlots DEF Counters
<1>2. One(ppc \notin PrinterPC) = 0 /\ One(ppc \notin PrinterPC)' = 0
  BY DEF One, PrinterStep, PrinterPC, PrinterGoto, PrinterWaitFull,
     PrinterWaitMutex, ReadPrinterIndex, ReadID, ReadPages, PrinterPostMutex,
     PrintMessage, AdvancePrinterIndex, PrinterPostEmpty
<1>3. /\ Stored \in Int /\ Allocated \in Int /\ One(ppc = "advance") \in Int
  BY SlotsAreIntegers DEF One
<1>4. QED BY <1>1, <1>2, <1>3 DEF Jobs, Taken

-----------------------------------------------------------------------------
(* Every step keeps the types and how far the clients can have come.       *)

LEMMA AliveBefore ==
  ASSUME MaxStarts <= 1, Counters, Alive', [StartStep]_<<vars, life>>
  PROVE  /\ Alive
         /\ ~InterruptedEarly /\ ~DetectCtrl
<1>1. starts \in {0, 1} /\ (starts = 0 => ppc = "stopped")
  BY DEF Counters
<1>2. ASSUME Create PROVE Alive
  BY <1>1, <1>2 DEF Create, Alive
<1>3. ASSUME Start, ~Create PROVE Alive
  BY <1>1, <1>3 DEF Start, Truncate, InitClientIndex, InitPrinterIndex,
     InitSize, InitFull, InitEmpty, InitMutex, InitWord, InitArrDone,
     SetHandler, Alive, life, PrinterGoto, printer
<1>4. ~InterruptedEarly /\ ~DetectCtrl
  BY <1>1 DEF InterruptedEarly, DetectCtrl, Alive, StartPC, PrinterPC, life
<1>5. ASSUME PrinterStep, UNCHANGED life PROVE Alive
  BY <1>5 DEF Alive, life, PrinterStep, PrinterGoto, PrinterWaitFull,
     PrinterWaitMutex, ReadPrinterIndex, ReadID, ReadPages, PrinterPostMutex,
     PrintMessage, AdvancePrinterIndex, PrinterPostEmpty
<1>6. ASSUME NEW c \in Clients, Client(c) PROVE Alive
  <2>1. CASE Open(c) \/ OpenFails(c) \/ BusError(c)
    BY <2>1 DEF Open, OpenFails, BusError, Alive, printer, life
  <2>2. CASE ClientStep(c) /\ UNCHANGED life
    BY <2>2, ClientStepMoves DEF ClientMove, Alive, printer, life
  <2>3. QED BY <1>6, <2>1, <2>2 DEF Client
<1>7. ASSUME UNCHANGED <<vars, life>> PROVE Alive
  BY <1>7 DEF Alive, vars, printer, life
<1>8. QED BY <1>2, <1>3, <1>4, <1>5, <1>6, <1>7 DEF StartStep

LEMMA InsideIsReady ==
  ASSUME StartInv, Alive, EarlyInv, NEW c \in Clients,
         cpc[c] \notin WaitingPC \cup {"wait_mutex"}
  PROVE  /\ ppc \in {"init_arr", "set_handler"} \cup PrinterPC
         /\ starts = 1 /\ size = Slots /\ attached[c] # "no"
<1>1. ~(starts = 0 \/ ppc \in BeforeMutex)
  BY DEF EarlyInv
<1>2. QED BY <1>1 DEF EarlyInv, Alive, StartInv, Counters, StartPC,
             BeforeMutex, BeforeEmpty, WaitingPC

LEMMA LateTypesStep ==
  ASSUME MaxStarts <= 1, StartInv, Alive, LateTypes, EarlyInv,
         StartStep, ~InterruptedEarly, ~DetectCtrl
  PROVE  LateTypes'
<1> USE DEF LateTypes, RingSlots, semaphores, ring, clients, printer, life
<1>1. ASSUME Start PROVE LateTypes'
  <2>1. CASE Create BY <2>1 DEF Create, Words
  <2>2. CASE Truncate BY <2>2 DEF Truncate
  <2>3. CASE InitClientIndex BY <2>3 DEF InitClientIndex
  <2>4. CASE InitPrinterIndex BY <2>4 DEF InitPrinterIndex
  <2>5. CASE InitSize BY <2>5 DEF InitSize
  <2>6. CASE InitFull BY <2>6 DEF InitFull
  <2>7. CASE InitEmpty BY <2>7 DEF InitEmpty
  <2>8. CASE InitMutex BY <2>8 DEF InitMutex
  <2>9. CASE InitWord
    <3>1. arr \in [Words -> Int \cup Clients] /\ -1 \in Int \cup Clients
      OBVIOUS
    <3>2. \A w : [arr EXCEPT ![w] = -1] \in [Words -> Int \cup Clients]
      BY <3>1, Zenon
    <3>3. arr' \in [Words -> Int \cup Clients]
      BY <2>9, <3>2, Zenon DEF InitWord
    <3>4. QED BY <2>9, <3>3 DEF InitWord
  <2>10. CASE InitArrDone BY <2>10 DEF InitArrDone
  <2>11. CASE SetHandler BY <2>11 DEF SetHandler
  <2>12. QED BY <1>1, <2>1, <2>2, <2>3, <2>4, <2>5, <2>6, <2>7, <2>8, <2>9,
                <2>10, <2>11 DEF Start
<1>2. ASSUME NEW c \in Clients, Open(c) \/ OpenFails(c) \/ BusError(c)
      PROVE  LateTypes'
  <2>1. CASE Open(c) BY <2>1 DEF Open
  <2>2. CASE OpenFails(c) BY <2>2 DEF OpenFails
  <2>3. CASE BusError(c) BY <2>3 DEF BusError
  <2>4. QED BY <1>2, <2>1, <2>2, <2>3
<1>3. ASSUME NEW c \in Clients, ClientStep(c), UNCHANGED life
      PROVE  LateTypes'
  <2> USE <1>3
  <2>1. CASE ReadSize(c) BY <2>1 DEF ReadSize
  <2>2. CASE GetEmpty(c) BY <2>2 DEF GetEmpty
  <2>3. CASE WaitEmpty(c) BY <2>3 DEF WaitEmpty
  <2>4. CASE WaitMutex(c) BY <2>4 DEF WaitMutex
  <2>5. CASE ReadClientIndex(c) BY <2>5 DEF ReadClientIndex
  <2>6. CASE AdvanceClientIndex(c)
    <3>1. size = Slots
      BY <2>6, InsideIsReady DEF AdvanceClientIndex, ClientGoto, WaitingPC
    <3>2. clientindex' \in 0 .. Slots - 1
      BY <2>6, <3>1 DEF AdvanceClientIndex
    <3>3. QED BY <2>6, <3>2 DEF AdvanceClientIndex
  <2>7. CASE StoreID(c) BY <2>7 DEF StoreID
  <2>8. CASE StorePages(c) BY <2>8, PagesAssumption DEF StorePages
  <2>9. CASE PostMutex(c) BY <2>9 DEF PostMutex
  <2>10. CASE PostFull(c) BY <2>10 DEF PostFull
  <2>11. QED BY <2>1, <2>2, <2>3, <2>4, <2>5, <2>6, <2>7, <2>8, <2>9, <2>10
             DEF ClientStep
<1>4. ASSUME PrinterStep, UNCHANGED life PROVE LateTypes'
  <2> USE <1>4
  <2>1. CASE PrinterWaitFull BY <2>1 DEF PrinterWaitFull
  <2>2. CASE PrinterWaitMutex BY <2>2 DEF PrinterWaitMutex
  <2>3. CASE ReadPrinterIndex BY <2>3 DEF ReadPrinterIndex
  <2>4. CASE ReadID
    <3>1. position \in Words
      BY DEF Words
    <3>2. QED BY <2>4, <3>1 DEF ReadID
  <2>5. CASE ReadPages
    <3>1. position + Slots \in Words
      BY DEF Words
    <3>2. QED BY <2>5, <3>1 DEF ReadPages
  <2>6. CASE PrinterPostMutex BY <2>6 DEF PrinterPostMutex
  <2>7. CASE PrintMessage BY <2>7 DEF PrintMessage
  <2>8. CASE AdvancePrinterIndex BY <2>8 DEF AdvancePrinterIndex
  <2>9. CASE PrinterPostEmpty BY <2>9 DEF PrinterPostEmpty
  <2>10. QED BY <2>1, <2>2, <2>3, <2>4, <2>5, <2>6, <2>7, <2>8, <2>9
             DEF PrinterStep
<1>5. QED BY <1>1, <1>2, <1>3, <1>4 DEF StartStep, Client

LEMMA EarlyInvStep ==
  ASSUME MaxStarts <= 1, StartInv, Alive, LateTypes, EarlyInv,
         StartStep, ~InterruptedEarly, ~DetectCtrl
  PROVE  EarlyInv'
<1>1. ASSUME Start PROVE EarlyInv'
  <2> USE DEF StartInv, Counters, EarlyInv, PrinterGoto, BeforeMutex,
              BeforeEmpty, PrinterPC, semaphores, ring, clients, life
  <2>1. CASE Create
    BY <2>1 DEF Create, EmptyInv
  <2>2. CASE Truncate \/ InitClientIndex \/ InitPrinterIndex \/ InitSize
    BY <2>2 DEF Truncate, InitClientIndex, InitPrinterIndex, InitSize
  <2>3. CASE InitFull \/ InitEmpty \/ InitMutex
    BY <2>3 DEF InitFull, InitEmpty, InitMutex
  <2>4. CASE InitWord \/ InitArrDone \/ SetHandler
    BY <2>4 DEF InitWord, InitArrDone, SetHandler, printer
  <2>5. QED BY <1>1, <2>1, <2>2, <2>3, <2>4 DEF Start
<1>2. ASSUME NEW c \in Clients, Open(c) \/ OpenFails(c) \/ BusError(c)
      PROVE  EarlyInv'
  <2>1. CASE Open(c)
    <3>1. /\ linked /\ starts # 0 /\ cpc[c] = "open"
          /\ UNCHANGED <<starts, linked, ppc, clientindex, printerindex, full,
                         size>>
          /\ cpc' = [cpc EXCEPT ![c] = "read_size"]
          /\ attached' = [attached EXCEPT ![c] =
               IF ppc \in PrinterPC \cup {"set_handler"} THEN "late"
                                                        ELSE "early"]
      BY <2>1
      DEF Open, EarlyInv, ClientGoto, semaphores, ring, printer
    <3>2. QED BY <3>1 DEF EarlyInv, LateTypes, StartInv, Counters, WaitingPC,
                 BeforeMutex, BeforeEmpty, PrinterPC
  <2>2. CASE OpenFails(c) \/ BusError(c)
    <3>1. /\ UNCHANGED <<starts, linked, ppc, clientindex, printerindex, full,
                         size, attached>>
          /\ cpc' = [cpc EXCEPT ![c] = "failed"]
      BY <2>2 DEF OpenFails, BusError, ClientGoto, semaphores, ring, printer,
         life
    <3>2. QED BY <3>1 DEF EarlyInv, LateTypes, StartInv, Counters, WaitingPC
  <2>3. QED BY <1>2, <2>1, <2>2
<1>3. ASSUME NEW c \in Clients, ClientStep(c), attached[c] # "no",
             UNCHANGED life
      PROVE  EarlyInv'
  <2>1. PICK to \in ClientPC : ClientMove(c, to)
    BY <1>3, ClientStepMoves
  <2>2. /\ cpc' = [cpc EXCEPT ![c] = to] /\ to # "open"
        /\ UNCHANGED <<ppc, starts, linked, attached>>
        /\ cpc[c] # "open"
    BY <1>3, <2>1 DEF ClientMove, ClientPC, printer, life, EarlyInv
  <2>3. UNCHANGED <<printerindex, size>>
    BY <1>3 DEF ClientStep, ReadSize, GetEmpty, WaitEmpty, WaitMutex,
       ReadClientIndex, AdvanceClientIndex, StoreID, StorePages, PostMutex,
       PostFull, ring
  <2>4. ASSUME starts = 0 \/ ppc \in BeforeMutex
        PROVE  /\ clientindex' = 0 /\ full' = 0
               /\ \A d \in Clients : cpc'[d] \in WaitingPC \cup {"wait_mutex"}
    <3>1. /\ clientindex = 0 /\ full = 0 /\ mutex = 0
          /\ \A d \in Clients : cpc[d] \in WaitingPC \cup {"wait_mutex"}
      BY <2>4 DEF EarlyInv, StartInv, MutexInv
    <3>2. /\ UNCHANGED <<clientindex, full>>
          /\ cpc'[c] \in WaitingPC \cup {"wait_mutex"}
      BY <1>3, <3>1
      DEF ClientStep, ReadSize, GetEmpty, WaitEmpty, WaitMutex,
          ReadClientIndex, AdvanceClientIndex, StoreID, StorePages, PostMutex,
          PostFull, ring, semaphores, WaitingPC, ClientGoto, StartInv,
          Counters
    <3>3. QED BY <2>2, <3>1, <3>2 DEF StartInv, Counters
  <2>5. \A d \in Clients : /\ cpc'[d] = "open" => cpc[d] = "open"
                           /\ attached[d] = "no" => cpc'[d] = cpc[d]
    BY <1>3, <2>2 DEF StartInv, Counters
  <2>6. QED BY <2>2, <2>3, <2>4, <2>5 DEF EarlyInv
<1>4. ASSUME PrinterStep, UNCHANGED life PROVE EarlyInv'
  <2>1. /\ ppc \in PrinterPC /\ ppc' \in PrinterPC
        /\ UNCHANGED <<cpc, clientindex, size>>
    BY <1>4 DEF PrinterStep, PrinterPC, PrinterGoto, PrinterWaitFull,
       PrinterWaitMutex, ReadPrinterIndex, ReadID, ReadPages,
       PrinterPostMutex, PrintMessage, AdvancePrinterIndex,
       PrinterPostEmpty, ring, clients
  <2>2. QED BY <1>4, <2>1 DEF EarlyInv, PrinterPC, BeforeMutex, BeforeEmpty,
               StartInv, Counters, life
<1>5. QED BY <1>1, <1>2, <1>3, <1>4 DEF StartStep, Client

-----------------------------------------------------------------------------
(* What the steps do to the ring.                                          *)

LEMMA StartJobs ==
  ASSUME MaxStarts <= 1, StartInv, Alive, EarlyInv, Start
  PROVE  /\ Jobs' = Jobs /\ Taken' = Taken
         /\ UNCHANGED <<cpc, csize, temp, clientindex, printerindex, printout>>
         /\ ppc \notin PrinterPC
         /\ ppc' \in StartPC \cup {"wait_full"}
<1>1. /\ UNCHANGED <<cpc, csize, temp, printout>> /\ ppc \notin PrinterPC
      /\ ppc' \in StartPC \cup {"wait_full"}
  BY DEF Start, Create, Truncate, InitClientIndex, InitPrinterIndex, InitSize,
     InitFull, InitEmpty, InitMutex, InitWord, InitArrDone, SetHandler,
     clients, printer, PrinterGoto, PrinterPC, StartPC
<1>2. UNCHANGED <<clientindex, printerindex, full>>
  <2> USE DEF StartInv, Counters, EarlyInv, PrinterGoto, semaphores, ring
  <2>1. CASE Create \/ InitClientIndex \/ InitPrinterIndex \/ InitFull
    <3>1. starts = 0 \/ ppc \in BeforeMutex
      BY <2>1 DEF Create, InitClientIndex, InitPrinterIndex, InitFull,
         BeforeMutex, BeforeEmpty
    <3>2. /\ clientindex = 0 /\ printerindex = 0 /\ full = 0
      BY <3>1
    <3>3. QED BY <2>1, <3>2 DEF Create, InitClientIndex, InitPrinterIndex,
                 InitFull
  <2>2. CASE Truncate \/ InitSize \/ InitEmpty \/ InitMutex \/ InitWord
             \/ InitArrDone \/ SetHandler
    BY <2>2 DEF Truncate, InitSize, InitEmpty, InitMutex, InitWord,
       InitArrDone, SetHandler
  <2>3. QED BY <2>1, <2>2 DEF Start
<1>3. /\ NumberAt({"post_mutex", "post_full"})'
           = NumberAt({"post_mutex", "post_full"})
      /\ NumberAt({"store_id", "store_pages"})'
           = NumberAt({"store_id", "store_pages"})
  BY <1>1, NumberAtSame
<1>4. /\ One(PrinterHasSlot) = 1 /\ One(ppc \notin PrinterPC) = 1
      /\ One(PrinterHasSlot)' = One(ppc \notin PrinterPC)'
      /\ One(PrinterHasSlot)' \in Int
  BY <1>1 DEF One, StartPC, PrinterPC, PrinterHasSlot
<1>5. Jobs' = Jobs /\ Taken' = Taken
  <2>1. /\ NumberAt({"post_mutex", "post_full"}) \in Nat
        /\ NumberAt({"store_id", "store_pages"}) \in Nat /\ full \in Int
    BY NumberAtType DEF StartInv, Counters
  <2>2. QED BY <1>2, <1>3, <1>4, <2>1 DEF Jobs, Taken, Stored, Allocated
<1>6. QED BY <1>1, <1>2, <1>5

LEMMA OpeningJobs ==
  ASSUME Counters, NEW c \in Clients, Open(c) \/ OpenFails(c) \/ BusError(c)
  PROVE  /\ Jobs' = Jobs /\ Taken' = Taken
         /\ cpc[c] \in {"open", "read_size"}
         /\ cpc'[c] \in {"read_size", "failed"}
         /\ \A d \in Clients \ {c} : cpc'[d] = cpc[d]
         /\ UNCHANGED <<ring, csize, temp, printer>>
<1>1. PICK to \in {"read_size", "failed"} :
        /\ cpc' = [cpc EXCEPT ![c] = to]
        /\ cpc[c] \in {"open", "read_size"}
        /\ UNCHANGED <<full, ring, csize, temp, printer>>
  BY DEF Open, OpenFails, BusError, ClientGoto, semaphores
<1>2. /\ ClientsAt({"post_mutex", "post_full"})'
           = ClientsAt({"post_mutex", "post_full"})
      /\ ClientsAt({"store_id", "store_pages"})'
           = ClientsAt({"store_id", "store_pages"})
  BY <1>1 DEF ClientsAt, Counters
<1>3. Stored' = Stored /\ Allocated' = Allocated
  BY <1>1, <1>2
  DEF Stored, Allocated, NumberAt, One, PrinterHasSlot, printer
<1>4. One(ppc \notin PrinterPC)' = One(ppc \notin PrinterPC)
  BY <1>1 DEF One, printer
<1>5. Jobs' = Jobs /\ Taken' = Taken
  BY <1>3, <1>4 DEF Jobs, Taken
<1>6. QED BY <1>1, <1>5 DEF Counters

(* A client writes into the slot it has taken only, and nobody else is     *)
(* inside when it does.                                                    *)
LEMMA ClientWrites ==
  ASSUME StartInv, LateTypes, NEW c \in Clients, ClientStep(c)
  PROVE  /\ \A s \in RingSlots :
              (cpc[c] \in Storing => s # temp[c])
                => arr'[s] = arr[s] /\ arr'[s + Slots] = arr[s + Slots]
         /\ \A d \in Clients \ {c} :
              /\ cpc'[d] = cpc[d] /\ temp'[d] = temp[d] /\ csize'[d] = csize[d]
              /\ cpc[c] \in CriticalPC => cpc[d] \notin CriticalPC
         /\ UNCHANGED <<printerindex, printer>>
<1>1. PICK to \in ClientPC : ClientMove(c, to)
  BY ClientStepMoves
<1>2. \A d \in Clients \ {c} :
        /\ cpc'[d] = cpc[d] /\ temp'[d] = temp[d] /\ csize'[d] = csize[d]
        /\ cpc[c] \in CriticalPC => cpc[d] \notin CriticalPC
  <2>1. \A d \in Clients \ {c} : cpc'[d] = cpc[d]
    BY <1>1 DEF ClientMove, StartInv, Counters
  <2>2. \A d \in Clients \ {c} : temp'[d] = temp[d] /\ csize'[d] = csize[d]
    BY DEF ClientStep, ReadSize, GetEmpty, WaitEmpty, WaitMutex,
       ReadClientIndex, AdvanceClientIndex, StoreID, StorePages, PostMutex,
       PostFull, LateTypes
  <2>3. \A d \in Clients \ {c} :
          cpc[c] \in CriticalPC => cpc[d] \notin CriticalPC
    BY OneInside DEF ClientsAt
  <2>4. QED BY <2>1, <2>2, <2>3
<1>3. UNCHANGED <<printerindex, printer>>
  BY DEF ClientStep, ReadSize, GetEmpty, WaitEmpty, WaitMutex,
     ReadClientIndex, AdvanceClientIndex, StoreID, StorePages, PostMutex,
     PostFull, ring
<1>4. ASSUME NEW s \in RingSlots, cpc[c] \in Storing => s # temp[c]
      PROVE  arr'[s] = arr[s] /\ arr'[s + Slots] = arr[s + Slots]
  <2>1. /\ s \in Words /\ s + Slots \in Words
        /\ s \in Int /\ temp[c] \in RingSlots /\ csize[c] \in {0, Slots}
    BY DEF RingSlots, Words, LateTypes
  <2>2. CASE StoreID(c)
    <3>1. s # temp[c] /\ s + Slots # temp[c]
      BY <1>4, <2>1, <2>2 DEF StoreID, ClientGoto, Storing, RingSlots
    <3>2. QED BY <2>1, <2>2, <3>1 DEF StoreID, LateTypes
  <2>3. CASE StorePages(c)
    <3>1. s # temp[c]
      BY <1>4, <2>3 DEF StorePages, ClientGoto, Storing
    <3>2. s # temp[c] + csize[c] /\ s + Slots # temp[c] + csize[c]
      BY <2>1, <3>1 DEF RingSlots
    <3>3. QED BY <2>1, <2>3, <3>2 DEF StorePages, LateTypes
  <2>4. CASE ~StoreID(c) /\ ~StorePages(c)
    BY <2>4 DEF ClientStep, ReadSize, GetEmpty, WaitEmpty, WaitMutex,
       ReadClientIndex, AdvanceClientIndex, PostMutex, PostFull, ring
  <2>5. QED BY <2>2, <2>3, <2>4
<1>5. QED BY <1>2, <1>3, <1>4

LEMMA StartPlaces ==
  ASSUME MaxStarts <= 1, StartInv, Alive, LateTypes, EarlyInv, Places, Start
  PROVE  Places'
<1>1. /\ Jobs' = Jobs /\ Taken' = Taken
      /\ UNCHANGED <<cpc, csize, temp, clientindex, printerindex>>
      /\ ppc' \in StartPC \cup {"wait_full"}
  BY StartJobs
<1>2. attached' = attached \/ \A c \in Clients : attached'[c] = "no"
  BY DEF Start, Create, Truncate, InitClientIndex, InitPrinterIndex, InitSize,
     InitFull, InitEmpty, InitMutex, InitWord, InitArrDone, SetHandler, life
<1>3. ClientPlaces'
  BY <1>1, <1>2 DEF Places, ClientPlaces, Slot
<1>4. PrinterPlaces'
  BY <1>1 DEF PrinterPlaces, PrinterReadsSlot, StartPC
<1>5. QED BY <1>3, <1>4 DEF Places

LEMMA OpeningPlaces ==
  ASSUME StartInv, Alive, LateTypes, EarlyInv, Places,
         NEW c \in Clients, Open(c) \/ OpenFails(c) \/ BusError(c)
  PROVE  Places'
<1>1. /\ Jobs' = Jobs /\ Taken' = Taken
      /\ cpc'[c] \in {"read_size", "failed"}
      /\ \A d \in Clients \ {c} : cpc'[d] = cpc[d]
      /\ UNCHANGED <<clientindex, printerindex, arr, csize, temp, printer>>
  BY OpeningJobs DEF StartInv, ring
<1>2. \A d \in Clients \ {c} : attached'[d] = attached[d]
  BY DEF Open, OpenFails, BusError, life, LateTypes
<1>3. ClientPlaces'
  BY <1>1, <1>2 DEF Places, ClientPlaces, Slot, Storing
<1>4. PrinterPlaces'
  BY <1>1 DEF Places, PrinterPlaces, PrinterReadsSlot, printer
<1>5. QED BY <1>3, <1>4 DEF Places

LEMMA ClientKeepsPlaces ==
  ASSUME StartInv, Alive, LateTypes, EarlyInv, Places,
         NEW c \in Clients, ClientStep(c), UNCHANGED life
  PROVE  Places'
<1> USE DEF Places
<1>1. /\ \A s \in RingSlots :
           (cpc[c] \in Storing => s # temp[c])
             => arr'[s] = arr[s] /\ arr'[s + Slots] = arr[s + Slots]
      /\ \A d \in Clients \ {c} :
           /\ cpc'[d] = cpc[d] /\ temp'[d] = temp[d] /\ csize'[d] = csize[d]
           /\ cpc[c] \in CriticalPC => cpc[d] \notin CriticalPC
      /\ UNCHANGED <<printerindex, ppc, position, jobID, jobpages>>
  BY ClientWrites DEF printer
<1>2. /\ Jobs' = Jobs + One(cpc[c] = "store_pages")
      /\ Taken' = Taken + One(cpc[c] = "advance")
  BY ClientJobs DEF StartInv
<1>3. /\ Jobs \in Nat /\ Taken \in Nat /\ Jobs <= Taken /\ Taken <= Slots
      /\ ppc \in PrinterPC /\ PrinterHasSlot => Jobs >= 1
      /\ \A d \in Clients : cpc[d] = "advance" => Taken = Jobs /\ Taken < Slots
      /\ \A d \in Clients : cpc[d] \in Storing => Taken = Jobs + 1
  BY JobsBounds
<1>4. /\ \A i \in 0 .. Slots : Slot(i) \in RingSlots
      /\ \A i, j \in 0 .. Slots - 1 : Slot(i) = Slot(j) => i = j
      /\ Slot(0) = printerindex
  BY RingSlotFacts DEF LateTypes
<1>5. \A i : Slot(i)' = Slot(i)
  BY <1>1 DEF Slot
<1>6. UNCHANGED attached
  BY DEF life
<1>7. clientindex' = Slot(Taken)'
  <2>1. CASE AdvanceClientIndex(c)
    <3>1. /\ size = Slots /\ Taken < Slots /\ cpc[c] = "advance"
          /\ clientindex' = IF clientindex = Slots - 1 THEN 0
                                                       ELSE clientindex + 1
      BY <1>3, <2>1, InsideIsReady
      DEF AdvanceClientIndex, ClientGoto, WaitingPC
    <3>2. Taken' = Taken + 1
      BY <1>2, <3>1 DEF One
    <3>3. QED BY <1>1, <1>3, <3>1, <3>2
              DEF ClientPlaces, Slot, LateTypes, RingSlots
  <2>2. CASE ~AdvanceClientIndex(c)
    <3>1. UNCHANGED clientindex /\ cpc[c] # "advance"
      BY <2>2 DEF ClientStep, ClientGoto, ReadSize, GetEmpty, WaitEmpty,
         WaitMutex, ReadClientIndex, StoreID, StorePages, PostMutex, PostFull,
         ring
    <3>2. Taken' = Taken
      BY <1>2, <1>3, <3>1 DEF One
    <3>3. QED BY <1>1, <3>1, <3>2 DEF ClientPlaces, Slot
  <2>3. QED BY <2>1, <2>2
<1>8. \A d \in Clients :
        attached'[d] = "late" /\ cpc'[d] \notin {"open", "failed", "read_size"}
          => csize'[d] = Slots
  <2> SUFFICES ASSUME attached[c] = "late", cpc'[c] # "read_size"
               PROVE  csize'[c] = Slots
    BY <1>1, <1>6 DEF ClientPlaces
  <2>1. CASE ReadSize(c)
    <3>1. size = Slots
      BY DEF EarlyInv, Alive, StartInv, Counters, StartPC, BeforeMutex,
         BeforeEmpty
    <3>2. QED BY <2>1, <3>1 DEF ReadSize, LateTypes
  <2>2. CASE ~ReadSize(c)
    <3>1. /\ UNCHANGED csize
          /\ cpc[c] \notin {"open", "failed", "read_size"}
      BY <2>2 DEF ClientStep, ClientGoto, GetEmpty, WaitEmpty, WaitMutex,
         ReadClientIndex, AdvanceClientIndex, StoreID, StorePages, PostMutex,
         PostFull
    <3>2. QED BY <3>1 DEF ClientPlaces
  <2>3. QED BY <2>1, <2>2
<1>9. \A d \in Clients : cpc'[d] = "advance" => temp'[d] = clientindex'
  <2>1. ASSUME NEW d \in Clients \ {c}, cpc'[d] = "advance"
        PROVE  temp'[d] = clientindex'
    <3>1. cpc[d] = "advance" /\ cpc[c] \notin CriticalPC
      BY <1>1, <2>1 DEF CriticalPC
    <3>2. UNCHANGED clientindex
      BY <3>1 DEF ClientStep, ClientGoto, CriticalPC, ReadSize, GetEmpty,
         WaitEmpty, WaitMutex, ReadClientIndex, AdvanceClientIndex, StoreID,
         StorePages, PostMutex, PostFull, ring
    <3>3. QED BY <1>1, <3>1, <3>2 DEF ClientPlaces
  <2>2. ASSUME cpc'[c] = "advance" PROVE temp'[c] = clientindex'
    <3>1. ReadClientIndex(c)
      BY <2>2 DEF ClientStep, ClientGoto, ReadSize, GetEmpty, WaitEmpty,
         WaitMutex, AdvanceClientIndex, StoreID, StorePages, PostMutex,
         PostFull, StartInv, Counters
    <3>2. QED BY <3>1 DEF ReadClientIndex, ring, LateTypes
  <2>3. QED BY <2>1, <2>2
<1>10. \A d \in Clients : cpc'[d] \in Storing => temp'[d] = Slot(Jobs)'
  <2>1. ASSUME NEW d \in Clients \ {c}, cpc'[d] \in Storing
        PROVE  temp'[d] = Slot(Jobs)'
    <3>1. cpc[d] \in Storing /\ cpc[c] \notin CriticalPC
      BY <1>1, <2>1 DEF CriticalPC, Storing
    <3>2. Jobs' = Jobs
      BY <1>2, <1>3, <3>1 DEF One, CriticalPC
    <3>3. QED BY <1>1, <3>1, <3>2 DEF ClientPlaces, Slot
  <2>2. ASSUME cpc'[c] \in Storing PROVE temp'[c] = Slot(Jobs)'
    <3>1. AdvanceClientIndex(c) \/ StoreID(c)
      BY <2>2 DEF ClientStep, ClientGoto, ReadSize, GetEmpty, WaitEmpty,
         WaitMutex, ReadClientIndex, StorePages, PostMutex, PostFull,
         StartInv, Counters, Storing
    <3>2. Jobs' = Jobs /\ UNCHANGED temp
      BY <1>2, <1>3, <3>1
      DEF AdvanceClientIndex, StoreID, ClientGoto, One
    <3>3. temp[c] = Slot(Jobs)
      BY <1>3, <3>1
      DEF AdvanceClientIndex, StoreID, ClientGoto, ClientPlaces, Storing
    <3>4. QED BY <1>1, <3>2, <3>3 DEF Slot
  <2>3. QED BY <2>1, <2>2
<1>11. PrinterPlaces'
  <2>1. ASSUME ppc \in PrinterPC, PrinterReadsSlot
        PROVE  /\ position = printerindex
               /\ arr'[position] = arr[position]
               /\ arr'[position + Slots] = arr[position + Slots]
    <3>1. position = printerindex /\ Jobs >= 1
      BY <1>3, <2>1
      DEF PrinterPlaces, PrinterReadsSlot, PrinterHasSlot
    <3>2. cpc[c] \in Storing => temp[c] = Slot(Jobs) /\ Jobs < Slots
      BY <1>3 DEF ClientPlaces
    <3>3. cpc[c] \in Storing => position # temp[c]
      BY <1>3, <1>4, <3>1, <3>2
    <3>4. QED BY <1>1, <3>1, <3>3 DEF LateTypes
  <2>2. ppc \in {"read_pages", "post_mutex", "print"} =>
          ppc \in PrinterPC /\ PrinterReadsSlot
    BY DEF PrinterPC, PrinterReadsSlot
  <2>3. QED BY <1>1, <2>1, <2>2 DEF PrinterPlaces, PrinterReadsSlot
<1>12. ClientPlaces'
  BY <1>7, <1>8, <1>9, <1>10 DEF ClientPlaces
<1>13. QED BY <1>11, <1>12

LEMMA PrinterKeepsPlaces ==
  ASSUME StartInv, Alive, LateTypes, EarlyInv, Places, PrinterStep,
         UNCHANGED life
  PROVE  Places'
<1> USE DEF Places
<1>1. /\ Jobs' = Jobs - One(ppc = "advance")
      /\ Taken' = Taken - One(ppc = "advance")
  BY PrinterJobs DEF StartInv
<1>2. /\ Jobs \in Nat /\ Taken \in Nat /\ Jobs <= Taken /\ Taken <= Slots
      /\ ppc \in PrinterPC /\ PrinterHasSlot => Jobs >= 1
  BY JobsBounds
<1>3. UNCHANGED <<cpc, csize, temp, clientindex, arr, attached>>
  BY DEF PrinterStep, PrinterWaitFull, PrinterWaitMutex, ReadPrinterIndex,
     ReadID, ReadPages, PrinterPostMutex, PrintMessage, AdvancePrinterIndex,
     PrinterPostEmpty, ring, clients, life
<1>4. Slot(Taken)' = Slot(Taken) /\ Slot(Jobs)' = Slot(Jobs)
  <2>1. CASE AdvancePrinterIndex
    <3>1. /\ Jobs' = Jobs - 1 /\ Taken' = Taken - 1 /\ Jobs >= 1
      BY <1>1, <1>2, <2>1
      DEF AdvancePrinterIndex, PrinterGoto, One, PrinterPC, PrinterHasSlot
    <3>2. printerindex' = IF printerindex = Slots - 1 THEN 0
                                                      ELSE printerindex + 1
      BY <2>1 DEF AdvancePrinterIndex
    <3>3. QED BY <1>2, <3>1, <3>2 DEF Slot, LateTypes, RingSlots
  <2>2. CASE ~AdvancePrinterIndex
    <3>1. UNCHANGED printerindex /\ ppc # "advance"
      BY <2>2 DEF PrinterStep, PrinterGoto, PrinterWaitFull,
         PrinterWaitMutex, ReadPrinterIndex, ReadID, ReadPages,
         PrinterPostMutex, PrintMessage, PrinterPostEmpty, ring
    <3>2. Jobs' = Jobs /\ Taken' = Taken
      BY <1>1, <1>2, <3>1 DEF One
    <3>3. QED BY <3>1, <3>2 DEF Slot
  <2>3. QED BY <2>1, <2>2
<1>5. ClientPlaces'
  BY <1>3, <1>4 DEF ClientPlaces
<1>6. PrinterPlaces'
  BY <1>3 DEF PrinterPlaces, PrinterReadsSlot, PrinterPC, PrinterStep,
     PrinterGoto, PrinterWaitFull, PrinterWaitMutex, ReadPrinterIndex, ReadID,
     ReadPages, PrinterPostMutex, PrintMessage, AdvancePrinterIndex,
     PrinterPostEmpty, ring
<1>7. QED BY <1>5, <1>6

-----------------------------------------------------------------------------
(* The tickets.                                                            *)

LEMMA TicketAppended ==
  ASSUME TicketInv, NEW c \in Clients, tickets' = Append(tickets, c)
  PROVE  /\ tickets' \in Seq(Clients) /\ Len(tickets) \in Nat
         /\ Len(tickets') = Len(tickets) + 1
         /\ DOMAIN tickets = 1 .. Len(tickets)
         /\ DOMAIN tickets' = 1 .. Len(tickets) + 1
         /\ \A k \in DOMAIN tickets : tickets'[k] = tickets[k]
         /\ tickets'[Len(tickets) + 1] = c
  BY DEF TicketInv

(* Nobody but a client at "advance" takes a slot, and who has one does not *)
(* go back.                                                                *)
LEMMA TakenStays ==
  ASSUME Counters, [StartStep]_<<vars, life>>
  PROVE  \A c \in Clients :
           /\ cpc[c] \in TakenPC => cpc'[c] \in TakenPC
           /\ Moves(c) => cpc'[c] \in TakenPC /\ cpc[c] \notin TakenPC
           /\ ~Moves(c) /\ cpc'[c] \in TakenPC => cpc[c] \in TakenPC
           /\ Moves(c) => \A d \in Clients \ {c} : cpc'[d] = cpc[d]
<1> DEFINE Kept == \A c \in Clients :
           /\ cpc[c] \in TakenPC => cpc'[c] \in TakenPC
           /\ Moves(c) => cpc'[c] \in TakenPC /\ cpc[c] \notin TakenPC
           /\ ~Moves(c) /\ cpc'[c] \in TakenPC => cpc[c] \in TakenPC
           /\ Moves(c) => \A d \in Clients \ {c} : cpc'[d] = cpc[d]
<1> SUFFICES Kept
  OBVIOUS
<1>1. ASSUME UNCHANGED cpc PROVE Kept
  BY <1>1 DEF Moves
<1>2. ASSUME Start \/ InterruptedEarly \/ DetectCtrl \/ PrinterStep
             \/ UNCHANGED <<vars, life>>
      PROVE  UNCHANGED cpc
  BY <1>2 DEF Start, Create, Truncate, InitClientIndex, InitPrinterIndex,
     InitSize, InitFull, InitEmpty, InitMutex, InitWord, InitArrDone,
     SetHandler, InterruptedEarly, DetectCtrl, PrinterStep, PrinterWaitFull,
     PrinterWaitMutex, ReadPrinterIndex, ReadID, ReadPages, PrinterPostMutex,
     PrintMessage, AdvancePrinterIndex, PrinterPostEmpty, vars, clients
<1>3. ASSUME NEW e \in Clients, Client(e) PROVE Kept
  <2>1. /\ \A d \in Clients \ {e} : cpc'[d] = cpc[d]
        /\ cpc[e] \in TakenPC => cpc'[e] \in TakenPC
        /\ cpc[e] = "advance" => cpc'[e] \in TakenPC
        /\ cpc'[e] \in TakenPC => cpc[e] \in TakenPC \cup {"advance"}
    <3> USE DEF Counters, ClientGoto, TakenPC, Storing, DonePC
    <3>1. CASE Open(e) \/ OpenFails(e) \/ BusError(e)
      BY <3>1 DEF Open, OpenFails, BusError
    <3>2. CASE ReadSize(e) BY <3>2 DEF ReadSize
    <3>3. CASE GetEmpty(e) BY <3>3 DEF GetEmpty
    <3>4. CASE WaitEmpty(e) BY <3>4 DEF WaitEmpty
    <3>5. CASE WaitMutex(e) BY <3>5 DEF WaitMutex
    <3>6. CASE ReadClientIndex(e) BY <3>6 DEF ReadClientIndex
    <3>7. CASE AdvanceClientIndex(e) BY <3>7 DEF AdvanceClientIndex
    <3>8. CASE StoreID(e) BY <3>8 DEF StoreID
    <3>9. CASE StorePages(e) BY <3>9 DEF StorePages
    <3>10. CASE PostMutex(e) BY <3>10 DEF PostMutex
    <3>11. CASE PostFull(e) BY <3>11 DEF PostFull
    <3>12. QED BY <1>3, <3>1, <3>2, <3>3, <3>4, <3>5, <3>6, <3>7, <3>8, <3>9,
                  <3>10, <3>11 DEF Client, ClientStep
  <2>2. "advance" \notin TakenPC
    BY DEF TakenPC, Storing, DonePC
  <2>3. QED BY <2>1, <2>2 DEF Moves
<1>4. QED BY <1>1, <1>2, <1>3 DEF StartStep

LEMMA TicketInvStep ==
  ASSUME StartInv, TicketInv, [StartNext]_startvars
  PROVE  TicketInv'
<1>1. [StartStep]_<<vars, life>> /\ Counters
  BY DEF StartNext, startvars, StartInv
<1>2. \A c \in Clients :
        /\ cpc[c] \in TakenPC => cpc'[c] \in TakenPC
        /\ Moves(c) => cpc'[c] \in TakenPC /\ cpc[c] \notin TakenPC
        /\ ~Moves(c) /\ cpc'[c] \in TakenPC => cpc[c] \in TakenPC
        /\ Moves(c) => \A d \in Clients \ {c} : cpc'[d] = cpc[d]
  BY <1>1, TakenStays
<1>3. \A k \in DOMAIN tickets : tickets[k] \in Clients
  BY DEF TicketInv
<1>4. ASSUME NEW c \in Clients, Moves(c), tickets' = Append(tickets, c)
      PROVE  TicketInv'
  <2>1. /\ tickets' \in Seq(Clients) /\ Len(tickets) \in Nat
        /\ DOMAIN tickets = 1 .. Len(tickets)
        /\ DOMAIN tickets' = 1 .. Len(tickets) + 1
        /\ \A k \in DOMAIN tickets : tickets'[k] = tickets[k]
        /\ tickets'[Len(tickets) + 1] = c
    BY <1>4, TicketAppended
  <2> DEFINE new == Len(tickets) + 1
  <2>2. /\ new \in DOMAIN tickets' /\ tickets'[new] = c
        /\ \A k \in DOMAIN tickets' : k = new \/ k \in DOMAIN tickets
        /\ \A k \in DOMAIN tickets : k \in DOMAIN tickets'
    BY <2>1
  <2> HIDE DEF new
  <2>3. cpc'[c] \in TakenPC /\ \A k \in DOMAIN tickets : tickets[k] # c
    BY <1>2, <1>4 DEF TicketInv
  <2>4. \A k \in DOMAIN tickets' : cpc'[tickets'[k]] \in TakenPC
    BY <1>2, <1>3, <2>1, <2>2, <2>3 DEF TicketInv
  <2>5. \A k, l \in DOMAIN tickets' : tickets'[k] = tickets'[l] => k = l
    BY <2>1, <2>2, <2>3 DEF TicketInv
  <2>6. \A d \in Clients :
          cpc'[d] \in TakenPC => \E k \in DOMAIN tickets' : tickets'[k] = d
    BY <1>2, <1>4, <2>1, <2>2 DEF TicketInv
  <2>7. QED BY <2>1, <2>4, <2>5, <2>6 DEF TicketInv
<1>5. ASSUME \A c \in Clients : ~Moves(c), UNCHANGED tickets
      PROVE  TicketInv'
  <2>1. \A k \in DOMAIN tickets' : cpc'[tickets'[k]] \in TakenPC
    BY <1>2, <1>3, <1>5 DEF TicketInv
  <2>2. QED BY <1>2, <1>5, <2>1 DEF TicketInv
<1>6. CASE StartNext
  BY <1>4, <1>5, <1>6 DEF StartNext, TakeTicket
<1>7. CASE UNCHANGED startvars
  <2>1. UNCHANGED <<cpc, tickets>>
    BY <1>7 DEF startvars, vars, clients
  <2>2. QED BY <2>1 DEF TicketInv
<1>8. QED BY <1>6, <1>7

(* A step that moves neither index.                                        *)
LEMMA InTurnFrame ==
  ASSUME TicketInv, InTurn, Jobs \in Nat, Taken \in Nat, Jobs <= Taken,
         Jobs' = Jobs, Taken' = Taken, Passed' = Passed,
         UNCHANGED <<printerindex, printout, tickets>>,
         \A c \in Clients : cpc'[c] \in Storing => cpc[c] \in Storing,
         \A k \in DOMAIN tickets : Late(tickets[k])' => Late(tickets[k]),
         \A c \in Clients :
           Late(c)' /\ cpc'[c] = "store_pages" => arr'[temp'[c]] = c,
         (\E c \in Clients : Late(c)') =>
           \A i \in 0 .. Jobs - 1 : JobIn(Slot(i))' = JobIn(Slot(i))
  PROVE  InTurn'
<1>1. /\ Passed \in Nat /\ Len(tickets) = Passed + Taken
      /\ DOMAIN tickets = 1 .. Len(tickets)
      /\ \A k \in DOMAIN tickets : tickets[k] \in Clients
      /\ \A c : JobOf(c)' = JobOf(c)
  BY DEF InTurn, TicketInv, JobOf
<1>2. \A i \in 0 .. Jobs - 1 : Passed + 1 + i \in DOMAIN tickets
  BY <1>1
<1>3. \A i \in 0 .. Jobs' - 1 :
        Late(tickets[Passed + 1 + i])' =>
          JobIn(Slot(i))' = JobOf(tickets[Passed + 1 + i])
  BY <1>1, <1>2 DEF InTurn
<1>4. \A k \in DOMAIN printout :
        Late(tickets[k])' => printout[k] = JobOf(tickets[k])
  BY DEF InTurn, Late
<1>5. QED BY <1>1, <1>3, <1>4 DEF InTurn, Late

LEMMA StartKeepsTurn ==
  ASSUME MaxStarts <= 1, StartInv, Alive, LateTypes, EarlyInv, TicketInv,
         InTurn, Start, UNCHANGED tickets
  PROVE  InTurn'
<1>1. /\ Jobs' = Jobs /\ Taken' = Taken
      /\ UNCHANGED <<cpc, temp, printerindex, printout>>
      /\ ppc' # "advance" /\ ppc # "advance"
  BY StartJobs DEF StartPC, PrinterPC
<1>2. Jobs \in Nat /\ Taken \in Nat /\ Jobs <= Taken
  BY JobsBounds
<1>3. Passed' = Passed
  BY <1>1 DEF Passed, One
<1>4. ASSUME NEW c \in Clients, Late(c)'
      PROVE  Late(c) /\ UNCHANGED arr
  <2>1. Late(c)
    BY <1>4 DEF Late, Start, Create, Truncate, InitClientIndex,
       InitPrinterIndex, InitSize, InitFull, InitEmpty, InitMutex, InitWord,
       InitArrDone, SetHandler, life
  <2>2. ppc \notin BeforeMutex \cup {"init_arr"} /\ starts # 0
    BY <2>1 DEF Late, EarlyInv
  <2>3. SetHandler
    BY <2>2 DEF Start, Create, Truncate, InitClientIndex, InitPrinterIndex,
       InitSize, InitFull, InitEmpty, InitMutex, InitWord, InitArrDone,
       PrinterGoto, BeforeMutex, BeforeEmpty, StartInv, Counters, Alive
  <2>4. QED BY <2>1, <2>3 DEF SetHandler, ring
<1>5. \A k \in DOMAIN tickets : Late(tickets[k])' => Late(tickets[k])
  BY <1>4 DEF TicketInv, Late
<1>6. \A c \in Clients :
        Late(c)' /\ cpc'[c] = "store_pages" => arr'[temp'[c]] = c
  BY <1>1, <1>4 DEF InTurn
<1>7. (\E c \in Clients : Late(c)') =>
        \A i \in 0 .. Jobs - 1 : JobIn(Slot(i))' = JobIn(Slot(i))
  BY <1>1, <1>4 DEF JobIn, Slot
<1>8. QED BY <1>1, <1>2, <1>3, <1>5, <1>6, <1>7, InTurnFrame

LEMMA OpeningKeepsTurn ==
  ASSUME StartInv, Alive, LateTypes, EarlyInv, TicketInv, InTurn,
         NEW c \in Clients, Open(c) \/ OpenFails(c) \/ BusError(c),
         UNCHANGED tickets
  PROVE  InTurn'
<1>1. /\ Jobs' = Jobs /\ Taken' = Taken
      /\ cpc[c] \in {"open", "read_size"}
      /\ cpc'[c] \in {"read_size", "failed"}
      /\ \A d \in Clients \ {c} : cpc'[d] = cpc[d]
      /\ UNCHANGED <<printerindex, arr, temp, printout, ppc>>
  BY OpeningJobs DEF StartInv, ring, printer
<1>2. Jobs \in Nat /\ Taken \in Nat /\ Jobs <= Taken
  BY JobsBounds
<1>3. Passed' = Passed
  BY <1>1 DEF Passed, One
<1>4. \A d \in Clients \ {c} : attached'[d] = attached[d]
  BY DEF Open, OpenFails, BusError, life, LateTypes
<1>5. \A k \in DOMAIN tickets : Late(tickets[k])' => Late(tickets[k])
  <2>1. \A k \in DOMAIN tickets : tickets[k] \in Clients /\ tickets[k] # c
    BY <1>1 DEF TicketInv, TakenPC, Storing, DonePC
  <2>2. QED BY <1>4, <2>1 DEF Late
<1>6. \A d \in Clients :
        Late(d)' /\ cpc'[d] = "store_pages" => arr'[temp'[d]] = d
  BY <1>1, <1>4 DEF InTurn, Late
<1>7. \A i \in 0 .. Jobs - 1 : JobIn(Slot(i))' = JobIn(Slot(i))
  BY <1>1 DEF JobIn, Slot
<1>8. \A d \in Clients : cpc'[d] \in Storing => cpc[d] \in Storing
  BY <1>1 DEF Storing
<1>9. QED BY <1>1, <1>2, <1>3, <1>5, <1>6, <1>7, <1>8, InTurnFrame

(* The client that moves clientindex takes the slot behind the last job.   *)
LEMMA AdvanceKeepsTurn ==
  ASSUME StartInv, Alive, LateTypes, EarlyInv, TicketInv, InTurn,
         NEW d \in Clients, AdvanceClientIndex(d), UNCHANGED life,
         tickets' = Append(tickets, d)
  PROVE  InTurn'
<1>1. /\ cpc[d] = "advance" /\ cpc'[d] = "store_id"
      /\ UNCHANGED <<arr, temp, ppc, printout, printerindex, attached>>
  BY DEF AdvanceClientIndex, ClientGoto, StartInv, Counters, printer, life
<1>2. \A e \in Clients \ {d} : cpc'[e] = cpc[e] /\ cpc[e] \notin CriticalPC
  BY <1>1, ClientWrites DEF ClientStep, CriticalPC
<1>3. Jobs \in Nat /\ Taken \in Nat /\ Jobs <= Taken
  BY JobsBounds
<1>4. Jobs' = Jobs /\ Taken' = Taken + 1
  BY <1>1, <1>3, ClientJobs DEF ClientStep, One, StartInv
<1>5. /\ Len(tickets) \in Nat /\ Len(tickets') = Len(tickets) + 1
      /\ DOMAIN tickets = 1 .. Len(tickets)
      /\ DOMAIN tickets' = 1 .. Len(tickets) + 1
      /\ \A k \in DOMAIN tickets : tickets'[k] = tickets[k]
      /\ tickets'[Len(tickets) + 1] = d
  BY TicketAppended
<1>6. /\ Passed \in Nat /\ Passed' = Passed
      /\ Len(tickets) = Passed + Taken
      /\ DOMAIN printout \subseteq DOMAIN tickets
  BY <1>1 DEF InTurn, Passed, One
<1>7. Len(tickets') = Passed' + Taken' /\ DOMAIN printout' \subseteq DOMAIN tickets'
  BY <1>1, <1>3, <1>4, <1>5, <1>6
<1>8. \A c \in Clients : cpc'[c] \in Storing => tickets'[Len(tickets')] = c
  BY <1>2, <1>5 DEF Storing, CriticalPC
<1>9. \A c \in Clients :
        Late(c)' /\ cpc'[c] = "store_pages" => arr'[temp'[c]] = c
  BY <1>1, <1>2 DEF CriticalPC
<1>10. \A k \in DOMAIN tickets : Late(tickets[k])' = Late(tickets[k])
  BY <1>1 DEF Late
<1>11. \A c : Late(c)' = Late(c) /\ JobOf(c)' = JobOf(c)
  BY <1>1 DEF Late, JobOf
<1>12. \A k \in DOMAIN printout' :
         attached'[tickets'[k]] = "late" => printout'[k] = JobOf(tickets'[k])
  <2> SUFFICES ASSUME NEW k \in DOMAIN printout,
                      attached'[tickets'[k]] = "late"
               PROVE  printout[k] = JobOf(tickets'[k])
    BY <1>1
  <2>1. tickets'[k] = tickets[k]
    BY <1>5, <1>6
  <2>2. QED BY <1>1, <2>1 DEF InTurn, Late
<1>13. \A i \in 0 .. Jobs - 1 :
         attached[tickets'[Passed + 1 + i]] = "late" =>
           JobIn(Slot(i))' = JobOf(tickets'[Passed + 1 + i])
  <2> SUFFICES ASSUME NEW i \in 0 .. Jobs - 1,
                      attached[tickets'[Passed + 1 + i]] = "late"
               PROVE  JobIn(Slot(i))' = JobOf(tickets'[Passed + 1 + i])
    OBVIOUS
  <2>1. Passed + 1 + i \in DOMAIN tickets
    BY <1>3, <1>5, <1>6
  <2>2. tickets'[Passed + 1 + i] = tickets[Passed + 1 + i]
    BY <1>5, <2>1
  <2>3. JobIn(Slot(i))' = JobIn(Slot(i))
    BY <1>1 DEF JobIn, Slot
  <2>4. QED BY <2>2, <2>3 DEF InTurn, Late
<1>14. QED
  BY <1>1, <1>4, <1>6, <1>7, <1>8, <1>9, <1>12, <1>13 DEF InTurn, Late, JobOf
(* A client that stores its pages has put its whole job behind the others. *)
LEMMA StorePagesKeepsTurn ==
  ASSUME StartInv, Alive, LateTypes, EarlyInv, Places, TicketInv, InTurn,
         NEW d \in Clients, StorePages(d), UNCHANGED <<life, tickets>>
  PROVE  InTurn'
<1>1. /\ cpc[d] = "store_pages" /\ cpc[d] \in Storing
      /\ cpc'[d] = "post_mutex"
      /\ UNCHANGED <<temp, ppc, printout, printerindex, attached>>
      /\ arr' = [arr EXCEPT ![temp[d] + csize[d]] = PagesOf[d]]
  BY DEF StorePages, ClientGoto, StartInv, Counters, printer, life, Storing
<1>2. /\ \A e \in Clients \ {d} : cpc'[e] = cpc[e] /\ cpc[e] \notin CriticalPC
      /\ \A s \in RingSlots : s # temp[d] =>
           arr'[s] = arr[s] /\ arr'[s + Slots] = arr[s + Slots]
  BY <1>1, ClientWrites DEF ClientStep, CriticalPC
<1>3. /\ Jobs \in Nat /\ Taken = Jobs + 1 /\ Taken <= Slots
  BY <1>1, JobsBounds
<1>4. Jobs' = Jobs + 1 /\ Taken' = Taken
  BY <1>1, <1>3, ClientJobs DEF ClientStep, One, StartInv
<1>5. /\ Passed \in Nat /\ Passed' = Passed
      /\ Len(tickets) = Passed + Taken
      /\ DOMAIN printout \subseteq DOMAIN tickets
      /\ tickets[Len(tickets)] = d
  BY <1>1 DEF InTurn, Passed, One
<1>6. /\ temp[d] = Slot(Jobs) /\ temp[d] \in RingSlots
      /\ Late(d) => csize[d] = Slots /\ arr[temp[d]] = d
  BY <1>1 DEF Places, ClientPlaces, LateTypes, InTurn, Late
<1>7. \A i \in 0 .. Jobs - 1 : Slot(i) \in RingSlots /\ Slot(i) # temp[d]
  BY <1>3, <1>6, RingSlotFacts DEF LateTypes
<1>8. \A i \in 0 .. Jobs - 1 : JobIn(Slot(i))' = JobIn(Slot(i))
  <2>1. \A i : Slot(i)' = Slot(i)
    BY <1>1 DEF Slot
  <2>2. QED BY <1>2, <1>7, <2>1 DEF JobIn
<1>9. ASSUME Late(d), NEW i \in Nat, i = Jobs
      PROVE  JobIn(Slot(i))' = JobOf(d)
  <2>1. Slot(i)' = Slot(i) /\ Slot(i) = temp[d]
    BY <1>1, <1>6, <1>9 DEF Slot
  <2>2. /\ temp[d] \in Words /\ temp[d] + Slots \in Words
        /\ temp[d] # temp[d] + Slots
    BY <1>6 DEF RingSlots, Words
  <2>3. arr'[temp[d]] = d /\ arr'[temp[d] + Slots] = PagesOf[d]
    BY <1>1, <1>6, <1>9, <2>2 DEF LateTypes
  <2>4. QED BY <2>1, <2>3 DEF JobIn, JobOf
<1>10. \A i \in 0 .. Jobs' - 1 :
         Late(tickets[Passed + 1 + i]) =>
           JobIn(Slot(i))' = JobOf(tickets[Passed + 1 + i])
  <2> SUFFICES ASSUME NEW i \in 0 .. Jobs' - 1,
                      Late(tickets[Passed + 1 + i])
               PROVE  JobIn(Slot(i))' = JobOf(tickets[Passed + 1 + i])
    OBVIOUS
  <2>1. CASE i = Jobs
    <3>1. Passed + 1 + i = Len(tickets)
      BY <1>3, <1>5, <2>1
    <3>2. Late(d) /\ i \in Nat
      BY <1>3, <1>5, <2>1, <3>1
    <3>3. JobIn(Slot(i))' = JobOf(d)
      BY <1>9, <2>1, <3>2
    <3>4. QED BY <1>5, <3>1, <3>3
  <2>2. CASE i # Jobs
    <3>1. i \in 0 .. Jobs - 1
      BY <1>3, <1>4, <2>2
    <3>2. QED BY <1>8, <3>1 DEF InTurn
  <2>3. QED BY <2>1, <2>2
<1>11. /\ \A c \in Clients : cpc'[c] \notin Storing
  BY <1>1, <1>2 DEF Storing, CriticalPC
<1>12. \A k \in DOMAIN printout :
         Late(tickets[k]) => printout[k] = JobOf(tickets[k])
  BY DEF InTurn
<1>13. "store_pages" \in Storing
  BY DEF Storing
<1>14. Len(tickets) = Passed' + Taken'
  BY <1>4, <1>5
<1>15. QED
  BY <1>1, <1>5, <1>10, <1>11, <1>12, <1>13, <1>14 DEF InTurn, Late, JobOf

LEMMA ClientKeepsTurn ==
  ASSUME StartInv, Alive, LateTypes, EarlyInv, Places, TicketInv, InTurn,
         NEW d \in Clients, ClientStep(d), UNCHANGED life, TakeTicket
  PROVE  InTurn'
<1>1. CASE AdvanceClientIndex(d)
  <2>1. Moves(d) /\ \A c \in Clients : Moves(c) => c = d
    BY <1>1 DEF AdvanceClientIndex, ClientGoto, Moves, StartInv, Counters
  <2>2. tickets' = Append(tickets, d)
    BY <2>1 DEF TakeTicket
  <2>3. QED BY <1>1, <2>2, AdvanceKeepsTurn
<1>2. ASSUME ~AdvanceClientIndex(d) PROVE UNCHANGED tickets
  <2>1. cpc[d] # "advance"
    BY <1>2 DEF ClientStep, ClientGoto, ReadSize, GetEmpty, WaitEmpty,
       WaitMutex, ReadClientIndex, StoreID, StorePages, PostMutex, PostFull
  <2>2. \A c \in Clients : ~Moves(c)
    BY <2>1, ClientWrites DEF Moves
  <2>3. QED BY <2>2 DEF TakeTicket
<1>3. CASE StorePages(d)
  <2>1. cpc[d] = "store_pages"
    BY <1>3 DEF StorePages, ClientGoto
  <2>2. UNCHANGED tickets
    BY <1>2, <2>1 DEF AdvanceClientIndex, ClientGoto
  <2>3. QED BY <1>3, <2>2, StorePagesKeepsTurn
<1>4. CASE ~AdvanceClientIndex(d) /\ ~StorePages(d)
  <2>1. /\ \A s \in RingSlots :
             (cpc[d] \in Storing => s # temp[d])
               => arr'[s] = arr[s] /\ arr'[s + Slots] = arr[s + Slots]
        /\ \A e \in Clients \ {d} :
             /\ cpc'[e] = cpc[e] /\ temp'[e] = temp[e]
             /\ cpc[d] \in CriticalPC => cpc[e] \notin CriticalPC
        /\ UNCHANGED <<printerindex, ppc, printout>>
    BY ClientWrites DEF printer
  <2>2. cpc[d] \notin {"advance", "store_pages"}
    BY <1>4 DEF ClientStep, ClientGoto, ReadSize, GetEmpty, WaitEmpty,
       WaitMutex, ReadClientIndex, StoreID, PostMutex, PostFull
  <2>3. /\ Jobs \in Nat /\ Taken \in Nat /\ Jobs <= Taken /\ Taken <= Slots
        /\ cpc[d] \in Storing => Jobs < Slots
    BY JobsBounds
  <2>4. Jobs' = Jobs /\ Taken' = Taken
    BY <2>2, <2>3, ClientJobs DEF One, StartInv
  <2>5. Passed' = Passed
    BY <2>1 DEF Passed, One
  <2>6. /\ \A i \in 0 .. Jobs - 1 : Slot(i) \in RingSlots
        /\ cpc[d] \in Storing =>
             \A i \in 0 .. Jobs - 1 : Slot(i) # temp[d]
    BY <2>3, RingSlotFacts DEF LateTypes, Places, ClientPlaces
  <2>7. \A i \in 0 .. Jobs - 1 : JobIn(Slot(i))' = JobIn(Slot(i))
    <3>1. \A i : Slot(i)' = Slot(i)
      BY <2>1 DEF Slot
    <3>2. QED BY <2>1, <2>6, <3>1 DEF JobIn
  <2>8. /\ cpc'[d] \in Storing => cpc[d] \in Storing
        /\ cpc'[d] = "store_pages" => StoreID(d)
    BY <1>4 DEF ClientStep, ClientGoto, ReadSize, GetEmpty, WaitEmpty,
       WaitMutex, ReadClientIndex, StoreID, PostMutex, PostFull, Storing,
       StartInv, Counters
  <2>9. ASSUME NEW c \in Clients, Late(c)', cpc'[c] = "store_pages"
        PROVE  arr'[temp'[c]] = c
    <3>1. CASE c = d
      BY <2>8, <2>9, <3>1 DEF StoreID, LateTypes, RingSlots, Words
    <3>2. CASE c # d
      <4>1. cpc[c] = "store_pages" /\ cpc[d] \notin CriticalPC /\ Late(c)
        BY <2>1, <2>9, <3>2 DEF CriticalPC, Late, life
      <4>2. arr[temp[c]] = c /\ temp[c] \in RingSlots /\ temp'[c] = temp[c]
        BY <2>1, <3>2, <4>1 DEF InTurn, LateTypes
      <4>3. QED BY <2>1, <4>1, <4>2 DEF CriticalPC, Storing
    <3>3. QED BY <3>1, <3>2
  <2>10. \A c \in Clients : cpc'[c] \in Storing => cpc[c] \in Storing
    BY <2>1, <2>8
  <2>11. \A k \in DOMAIN tickets : Late(tickets[k])' => Late(tickets[k])
    BY <1>2, <1>4 DEF Late, life
  <2>12. UNCHANGED <<printerindex, printout, tickets>>
    BY <1>2, <1>4, <2>1
  <2>13. QED BY <2>3, <2>4, <2>5, <2>7, <2>9, <2>10, <2>11, <2>12, InTurnFrame
<1>5. QED BY <1>1, <1>3, <1>4

(* The job that is printed next is that of the next ticket.                *)
LEMMA PrinterKeepsTurn ==
  ASSUME StartInv, Alive, LateTypes, EarlyInv, Places, TicketInv, InTurn,
         PrinterStep, UNCHANGED <<life, tickets>>
  PROVE  InTurn'
<1>1. /\ Jobs' = Jobs - One(ppc = "advance")
      /\ Taken' = Taken - One(ppc = "advance")
  BY PrinterJobs DEF StartInv
<1>2. /\ Jobs \in Nat /\ Taken \in Nat /\ Jobs <= Taken /\ Taken <= Slots
      /\ ppc \in PrinterPC /\ PrinterHasSlot => Jobs >= 1
  BY JobsBounds
<1>3. UNCHANGED <<cpc, temp, arr, attached, tickets>>
  BY DEF PrinterStep, PrinterWaitFull, PrinterWaitMutex, ReadPrinterIndex,
     ReadID, ReadPages, PrinterPostMutex, PrintMessage, AdvancePrinterIndex,
     PrinterPostEmpty, ring, clients, life
<1>4. /\ \A c : Late(c)' = Late(c) /\ JobOf(c)' = JobOf(c)
      /\ \A c \in Clients : cpc[c] \in Storing => tickets[Len(tickets)] = c
      /\ \A c \in Clients :
           Late(c) /\ cpc[c] = "store_pages" => arr[temp[c]] = c
  BY <1>3 DEF Late, JobOf, InTurn
<1>5. /\ Passed \in Nat /\ Len(tickets) = Passed + Taken
      /\ DOMAIN tickets = 1 .. Len(tickets)
      /\ DOMAIN printout \subseteq DOMAIN tickets
      /\ DOMAIN printout = 1 .. Len(printout) /\ Len(printout) \in Nat
      /\ \A k \in DOMAIN printout :
           Late(tickets[k]) => printout[k] = JobOf(tickets[k])
      /\ \A i \in 0 .. Jobs - 1 :
           Late(tickets[Passed + 1 + i]) =>
             JobIn(Slot(i)) = JobOf(tickets[Passed + 1 + i])
  BY DEF InTurn, TicketInv, LateTypes
<1>6. CASE PrintMessage
  <2>1. /\ ppc = "print" /\ ppc' = "advance" /\ UNCHANGED printerindex
        /\ printout' = Append(printout, [id |-> jobID, pages |-> jobpages])
    BY <1>6 DEF PrintMessage, PrinterGoto, ring
  <2>2. Jobs' = Jobs /\ Taken' = Taken /\ Jobs >= 1
    BY <1>1, <1>2, <2>1 DEF One, PrinterPC, PrinterHasSlot
  <2>3. /\ DOMAIN printout' = 1 .. Len(printout) + 1
        /\ Len(printout') = Len(printout) + 1
        /\ \A k \in DOMAIN printout : printout'[k] = printout[k]
        /\ printout'[Len(printout) + 1] = [id |-> jobID, pages |-> jobpages]
    BY <2>1 DEF LateTypes
  <2>4. Passed = Len(printout) /\ Passed' = Passed
    BY <1>5, <2>1, <2>3 DEF Passed, One
  <2>5. [id |-> jobID, pages |-> jobpages] = JobIn(Slot(0))
    BY <2>1, RingSlotFacts
    DEF Places, PrinterPlaces, PrinterPC, PrinterReadsSlot, JobIn, LateTypes
  <2>6. ASSUME NEW k \in DOMAIN printout', Late(tickets[k])
        PROVE  printout'[k] = JobOf(tickets[k])
    <3>1. CASE k \in DOMAIN printout
      BY <1>5, <2>3, <2>6, <3>1
    <3>2. CASE k = Passed + 1 + 0
      <4>1. 0 \in 0 .. Jobs - 1
        BY <1>2, <2>2
      <4>2. JobIn(Slot(0)) = JobOf(tickets[k])
        BY <1>5, <2>6, <3>2, <4>1
      <4>3. k = Len(printout) + 1
        BY <1>5, <2>4, <3>2
      <4>4. QED BY <2>3, <2>5, <4>2, <4>3
    <3>3. QED BY <1>5, <2>3, <2>4, <3>1, <3>2
  <2>7. DOMAIN printout' \subseteq DOMAIN tickets
    BY <1>2, <1>5, <2>2, <2>3, <2>4
  <2>8. \A i \in 0 .. Jobs' - 1 : JobIn(Slot(i))' = JobIn(Slot(i))
    BY <1>3, <2>1 DEF JobIn, Slot
  <2>9. QED BY <1>3, <1>4, <1>5, <2>2, <2>4, <2>6, <2>7, <2>8
            DEF InTurn, Late, JobOf
<1>7. CASE AdvancePrinterIndex
  <2>1. /\ ppc = "advance" /\ ppc' = "post_empty" /\ UNCHANGED printout
        /\ printerindex' = IF printerindex = Slots - 1 THEN 0
                                                       ELSE printerindex + 1
    BY <1>7 DEF AdvancePrinterIndex, PrinterGoto
  <2>2. Jobs' = Jobs - 1 /\ Taken' = Taken - 1 /\ Jobs >= 1
    BY <1>1, <1>2, <2>1 DEF One, PrinterPC, PrinterHasSlot
  <2>3. Passed' = Passed + 1
    BY <1>5, <2>1 DEF Passed, One
  <2>4. \A i \in 0 .. Slots - 1 : Slot(i)' = Slot(i + 1)
    BY <2>1 DEF Slot, LateTypes, RingSlots
  <2>5. ASSUME NEW i \in 0 .. Jobs' - 1, Late(tickets[Passed' + 1 + i])
        PROVE  JobIn(Slot(i))' = JobOf(tickets[Passed' + 1 + i])
    <3>1. /\ i \in 0 .. Slots - 1 /\ i + 1 \in 0 .. Jobs - 1
          /\ Passed' + 1 + i = Passed + 1 + (i + 1)
      BY <1>2, <1>5, <2>2, <2>3
    <3>2. JobIn(Slot(i))' = JobIn(Slot(i + 1))
      BY <1>3, <2>4, <3>1 DEF JobIn
    <3>3. QED BY <1>5, <2>5, <3>1, <3>2
  <2>6. Len(tickets) = Passed' + Taken' /\ Passed' \in Nat
    BY <1>2, <1>5, <2>2, <2>3
  <2>7. QED BY <1>3, <1>4, <1>5, <2>1, <2>5, <2>6 DEF InTurn, Late, JobOf
<1>8. CASE ~PrintMessage /\ ~AdvancePrinterIndex
  <2>1. /\ ppc # "advance" /\ ppc' # "advance"
        /\ UNCHANGED <<printerindex, printout>>
    BY <1>8 DEF PrinterStep, PrinterGoto, PrinterWaitFull, PrinterWaitMutex,
       ReadPrinterIndex, ReadID, ReadPages, PrinterPostMutex,
       PrinterPostEmpty, ring
  <2>2. Jobs' = Jobs /\ Taken' = Taken /\ Passed' = Passed
    BY <1>1, <1>2, <2>1 DEF One, Passed
  <2>3. \A i \in 0 .. Jobs - 1 : JobIn(Slot(i))' = JobIn(Slot(i))
    BY <1>3, <2>1 DEF JobIn, Slot
  <2>4. /\ \A c \in Clients : cpc'[c] \in Storing => cpc[c] \in Storing
        /\ \A k \in DOMAIN tickets : Late(tickets[k])' => Late(tickets[k])
        /\ \A c \in Clients :
             Late(c)' /\ cpc'[c] = "store_pages" => arr'[temp'[c]] = c
    BY <1>3, <1>4 DEF Late
  <2>5. QED BY <1>2, <1>3, <2>1, <2>2, <2>3, <2>4, InTurnFrame
<1>9. QED BY <1>6, <1>7, <1>8

-----------------------------------------------------------------------------
(* The theorem.                                                            *)

LEMMA LateInvInit == StartInit => LateInv
<1> SUFFICES ASSUME StartInit PROVE LateInv
  OBVIOUS
<1> USE DEF StartInit, LocalsInit
<1>1. StartInv
  BY StartInvInit
<1>2. TicketInv
  BY DEF TicketInv, TakenPC, Storing, DonePC
<1>3. PrintedIntact
  BY DEF PrintedIntact
<1>4. LateTypes
  BY DEF LateTypes, RingSlots
<1>5. EarlyInv
  BY DEF EarlyInv, BeforeMutex, BeforeEmpty, PrinterPC, WaitingPC
<1>6. Taken = 0 /\ Jobs = 0
  <2>1. NumberAt(Full) = 0 /\ NumberAt(Storing) = 0
    BY WaitingCountsNothing DEF WaitingPC
  <2>2. One(PrinterHasSlot) = 1 /\ One(ppc \notin PrinterPC) = 1
    BY DEF One, PrinterPC, PrinterHasSlot
  <2>3. QED BY <2>1, <2>2 DEF Taken, Jobs, Allocated, Stored, Full, Storing
<1>7. Places
  BY <1>6 DEF Places, ClientPlaces, PrinterPlaces, Slot, Storing, PrinterPC
<1>8. InTurn
  <2>1. Passed = 0
    BY DEF Passed, One
  <2>2. 0 .. Jobs - 1 = {}
    BY <1>6
  <2>3. \A c \in Clients : cpc[c] \notin Storing /\ cpc[c] # "store_pages"
    BY DEF Storing
  <2>4. Len(tickets) = Passed + Taken /\ DOMAIN printout = {}
    BY <1>6, <2>1
  <2>5. QED BY <2>1, <2>2, <2>3, <2>4 DEF InTurn
<1>9. QED BY <1>1, <1>2, <1>3, <1>4, <1>5, <1>7, <1>8 DEF LateInv, AliveInv

LEMMA NoTicket ==
  ASSUME TakeTicket, UNCHANGED cpc PROVE UNCHANGED tickets
  BY DEF TakeTicket, Moves

LEMMA PrinterTakesNoTicket ==
  ASSUME TakeTicket, Start \/ InterruptedEarly \/ DetectCtrl \/ PrinterStep
  PROVE  UNCHANGED tickets
<1>1. UNCHANGED cpc
  BY DEF Start, Create, Truncate, InitClientIndex, InitPrinterIndex,
     InitSize, InitFull, InitEmpty, InitMutex, InitWord, InitArrDone,
     SetHandler, InterruptedEarly, DetectCtrl, PrinterStep, PrinterWaitFull,
     PrinterWaitMutex, ReadPrinterIndex, ReadID, ReadPages, PrinterPostMutex,
     PrintMessage, AdvancePrinterIndex, PrinterPostEmpty, clients
<1>2. QED BY <1>1, NoTicket

LEMMA AliveInvStep ==
  ASSUME MaxStarts <= 1, StartInv, TicketInv, AliveInv, Alive, StartNext,
         ~InterruptedEarly, ~DetectCtrl
  PROVE  AliveInv'
<1> USE DEF AliveInv, StartNext
<1>1. LateTypes' /\ EarlyInv'
  BY LateTypesStep, EarlyInvStep
<1>2. ASSUME Start PROVE Places' /\ InTurn'
  <2>1. UNCHANGED tickets
    BY <1>2, PrinterTakesNoTicket
  <2>2. QED BY <1>2, <2>1, StartPlaces, StartKeepsTurn
<1>3. ASSUME NEW c \in Clients, Client(c) PROVE Places' /\ InTurn'
  <2>1. CASE Open(c) \/ OpenFails(c) \/ BusError(c)
    <3>1. /\ cpc[c] \in {"open", "read_size"}
          /\ \A d \in Clients \ {c} : cpc'[d] = cpc[d]
      BY <2>1, OpeningJobs DEF StartInv
    <3>2. UNCHANGED tickets
      BY <3>1 DEF TakeTicket, Moves
    <3>3. QED BY <2>1, <3>2, OpeningPlaces, OpeningKeepsTurn
  <2>2. CASE ClientStep(c) /\ UNCHANGED life
    BY <2>2, ClientKeepsPlaces, ClientKeepsTurn
  <2>3. QED BY <1>3, <2>1, <2>2 DEF Client
<1>4. ASSUME PrinterStep, UNCHANGED life PROVE Places' /\ InTurn'
  <2>1. UNCHANGED tickets
    BY <1>4, PrinterTakesNoTicket
  <2>2. QED BY <1>4, <2>1, PrinterKeepsPlaces, PrinterKeepsTurn
<1>5. QED BY <1>1, <1>2, <1>3, <1>4 DEF StartStep

LEMMA AliveIsIntact ==
  ASSUME TicketInv, AliveInv PROVE PrintedIntact
<1>1. /\ DOMAIN printout \subseteq DOMAIN tickets
      /\ \A k \in DOMAIN printout :
           Late(tickets[k]) => printout[k] = JobOf(tickets[k])
  BY DEF AliveInv, InTurn
<1>2. /\ attached \in [Clients -> {"no", "early", "late"}]
      /\ printout \in Seq([id : Int \cup Clients, pages : Int \cup Clients])
  BY DEF AliveInv, LateTypes
<1>3. /\ Len(printout) \in Nat /\ DOMAIN printout = 1 .. Len(printout)
      /\ Len(tickets) \in Nat /\ DOMAIN tickets = 1 .. Len(tickets)
  BY <1>2 DEF TicketInv
<1>4. Len(printout) <= Len(tickets)
  BY <1>1, <1>3
<1>5. QED BY <1>1, <1>2, <1>4 DEF PrintedIntact

(* What is printed stays, whoever takes a ticket.                          *)
LEMMA IntactFrame ==
  ASSUME TicketInv, PrintedIntact, TakeTicket, UNCHANGED printout,
         attached' \in [Clients -> {"no", "early", "late"}],
         \A c \in Clients : Late(c)' => Late(c)
  PROVE  PrintedIntact'
<1>1. /\ Len(printout) \in Nat /\ DOMAIN printout = 1 .. Len(printout)
      /\ Len(tickets) \in Nat /\ DOMAIN tickets = 1 .. Len(tickets)
      /\ Len(printout) <= Len(tickets)
  BY DEF PrintedIntact, TicketInv
<1>2. /\ Len(tickets) <= Len(tickets')
      /\ \A k \in DOMAIN tickets : tickets'[k] = tickets[k]
  <2>1. ASSUME NEW c \in Clients, tickets' = Append(tickets, c)
        PROVE  /\ Len(tickets) <= Len(tickets')
               /\ \A k \in DOMAIN tickets : tickets'[k] = tickets[k]
    BY <1>1, <2>1, TicketAppended
  <2>2. QED BY <1>1, <2>1 DEF TakeTicket
<1>3. /\ Len(printout) <= Len(tickets')
      /\ \A k \in DOMAIN printout : k \in DOMAIN tickets
  <2>1. Len(tickets') \in Nat
    BY TicketAppended, <1>1 DEF TakeTicket
  <2>2. QED BY <1>1, <1>2, <2>1
<1>4. \A k \in DOMAIN tickets : tickets[k] \in Clients
  BY DEF TicketInv
<1>5. ASSUME NEW k \in DOMAIN printout, attached'[tickets'[k]] = "late"
      PROVE  printout[k] = JobOf(tickets'[k])
  <2>1. tickets'[k] = tickets[k] /\ tickets[k] \in Clients
    BY <1>2, <1>3, <1>4
  <2>2. Late(tickets[k])
    BY <1>5, <2>1 DEF Late
  <2>3. QED BY <2>1, <2>2 DEF PrintedIntact
<1>6. QED BY <1>3, <1>5 DEF PrintedIntact, Late, JobOf

(* After the printer has stopped nothing is printed and nobody is late.    *)
LEMMA StoppedStaysIntact ==
  ASSUME MaxStarts <= 1, StartInv, TicketInv, PrintedIntact, StartNext,
         ~Alive \/ InterruptedEarly \/ DetectCtrl
  PROVE  PrintedIntact'
<1>1. TakeTicket /\ attached \in [Clients -> {"no", "early", "late"}]
  BY DEF StartNext, PrintedIntact
<1>2. CASE InterruptedEarly \/ DetectCtrl
  <2>1. UNCHANGED <<printout, attached>>
    BY <1>2 DEF InterruptedEarly, DetectCtrl, life
  <2>2. QED BY <1>1, <2>1, IntactFrame DEF Late
<1>3. CASE ~Alive
  <2>1. ppc = "stopped" /\ starts = 1
    BY <1>3 DEF Alive, StartInv, Counters
  <2>2. ~Start /\ ~PrinterStep
    BY <2>1 DEF Start, Create, Truncate, InitClientIndex, InitPrinterIndex,
       InitSize, InitFull, InitEmpty, InitMutex, InitWord, InitArrDone,
       SetHandler, PrinterStep, PrinterWaitFull, PrinterWaitMutex,
       ReadPrinterIndex, ReadID, ReadPages, PrinterPostMutex, PrintMessage,
       AdvancePrinterIndex, PrinterPostEmpty, PrinterGoto
  <2>3. ASSUME NEW c \in Clients, Client(c) PROVE PrintedIntact'
    <3>1. CASE Open(c)
      <4>1. /\ UNCHANGED printout
            /\ attached' = [attached EXCEPT ![c] = "early"]
        BY <2>1, <3>1 DEF Open, PrinterPC, printer
      <4>2. /\ attached' \in [Clients -> {"no", "early", "late"}]
            /\ \A d \in Clients : Late(d)' => Late(d)
        BY <1>1, <4>1 DEF Late
      <4>3. QED BY <1>1, <4>1, <4>2, IntactFrame
    <3>2. CASE OpenFails(c) \/ BusError(c)
      <4>1. UNCHANGED <<printout, attached>>
        BY <3>2 DEF OpenFails, BusError, printer, life
      <4>2. QED BY <1>1, <4>1, IntactFrame DEF Late
    <3>3. CASE ClientStep(c) /\ UNCHANGED life
      <4>1. UNCHANGED <<printout, attached>>
        BY <3>3, ClientStepMoves DEF ClientMove, printer, life
      <4>2. QED BY <1>1, <4>1, IntactFrame DEF Late
    <3>4. QED BY <2>3, <3>1, <3>2, <3>3 DEF Client
  <2>4. QED BY <1>2, <2>2, <2>3 DEF StartNext, StartStep
<1>4. QED BY <1>2, <1>3

LEMMA LateInvStep ==
  ASSUME MaxStarts <= 1, LateInv, [StartNext]_startvars
  PROVE  LateInv'
<1> USE DEF LateInv
<1>1. [StartStep]_<<vars, life>>
  BY DEF StartNext, startvars
<1>2. StartInv'
  BY <1>1, CountersStep, EmptyInvStep, MutexInvStep DEF StartInv
<1>3. TicketInv'
  BY TicketInvStep
<1>4. CASE StartNext /\ Alive'
  <2>1. Alive /\ ~InterruptedEarly /\ ~DetectCtrl
    BY AliveBefore, <1>1, <1>4 DEF StartInv
  <2>2. AliveInv'
    BY <1>4, <2>1, AliveInvStep
  <2>3. (TicketInv /\ AliveInv => PrintedIntact)'
    BY AliveIsIntact, PTL
  <2>4. QED BY <1>2, <1>3, <2>2, <2>3
<1>5. CASE StartNext /\ ~Alive'
  <2>1. ~Alive \/ InterruptedEarly \/ DetectCtrl
    <3> SUFFICES ASSUME Alive, ~InterruptedEarly, ~DetectCtrl PROVE FALSE
      OBVIOUS
    <3>1. starts' # 0 /\ ppc' = "stopped"
      BY <1>5 DEF Alive
    <3>2. ~Start /\ ~PrinterStep
      BY <3>1 DEF Start, Create, Truncate, InitClientIndex, InitPrinterIndex,
         InitSize, InitFull, InitEmpty, InitMutex, InitWord, InitArrDone,
         SetHandler, PrinterStep, PrinterWaitFull, PrinterWaitMutex,
         ReadPrinterIndex, ReadID, ReadPages, PrinterPostMutex, PrintMessage,
         AdvancePrinterIndex, PrinterPostEmpty, PrinterGoto, printer
    <3>3. PICK c \in Clients : Client(c)
      BY <1>5, <3>2 DEF StartNext, StartStep
    <3>4. UNCHANGED <<ppc, starts>>
      <4>1. CASE Open(c) \/ OpenFails(c) \/ BusError(c)
        BY <4>1 DEF Open, OpenFails, BusError, printer, life
      <4>2. CASE ClientStep(c) /\ UNCHANGED life
        BY <4>2, ClientStepMoves DEF ClientMove, printer, life
      <4>3. QED BY <3>3, <4>1, <4>2 DEF Client
    <3>5. QED BY <3>1, <3>4 DEF Alive
  <2>2. PrintedIntact'
    BY <1>5, <2>1, StoppedStaysIntact
  <2>3. QED BY <1>2, <1>3, <1>5, <2>2
<1>6. CASE UNCHANGED startvars
  <2>1. UNCHANGED <<empty, full, mutex, clientindex, printerindex, size, arr,
                    cpc, csize, waitflag, temp, ppc, position, jobID,
                    jobpages, printout, linked, sized, word, starts,
                    attached, tickets>>
    BY <1>6 DEF startvars, vars, semaphores, ring, clients, printer, life
  <2>2. Jobs' = Jobs /\ Taken' = Taken
    BY <2>1, NumberAtSame
    DEF Jobs, Taken, Stored, Allocated, One, PrinterHasSlot
  <2>3. \A i : Slot(i)' = Slot(i)
    BY <2>1 DEF Slot
  <2>4. PrintedIntact'
    BY <2>1 DEF PrintedIntact, JobOf, Late
  <2>5. ASSUME Alive PROVE AliveInv'
    <3>1. LateTypes' /\ EarlyInv'
      BY <2>1, <2>5 DEF AliveInv, LateTypes, EarlyInv
    <3>2. Places'
      BY <2>1, <2>2, <2>3, <2>5
      DEF AliveInv, Places, ClientPlaces, PrinterPlaces, PrinterReadsSlot,
          Slot
    <3>3. InTurn'
      <4>1. Jobs \in Nat /\ Taken \in Nat /\ Jobs <= Taken /\ InTurn
        BY <2>5, JobsBounds DEF AliveInv
      <4>2. Passed' = Passed
        BY <2>1 DEF Passed, One
      <4>3. \A i \in 0 .. Jobs - 1 : JobIn(Slot(i))' = JobIn(Slot(i))
        BY <2>1 DEF JobIn, Slot
      <4>4. \A c \in Clients :
              Late(c)' /\ cpc'[c] = "store_pages" => arr'[temp'[c]] = c
        BY <2>1, <4>1 DEF InTurn, Late
      <4>5. QED BY <2>1, <2>2, <4>1, <4>2, <4>3, <4>4, InTurnFrame DEF Late
    <3>4. QED BY <3>1, <3>2, <3>3 DEF AliveInv
  <2>6. Alive' = Alive
    BY <2>1 DEF Alive
  <2>7. QED BY <1>2, <1>3, <2>4, <2>5, <2>6
<1>7. QED BY <1>4, <1>5, <1>6

LEMMA SomebodyStores ==
  ASSUME StartInv, Taken # Jobs
  PROVE  \E c \in Clients : cpc[c] \in Storing
<1> SUFFICES ASSUME \A c \in Clients : cpc[c] \notin Storing PROVE FALSE
  OBVIOUS
<1>1. NumberAt(Storing) = 0
  <2>1. ClientsAt(Storing) = {}
    BY DEF ClientsAt
  <2>2. QED BY <2>1, FS_EmptySet DEF NumberAt
<1>2. Allocated = Stored + NumberAt(Storing) /\ Stored \in Int
  BY SlotsAreIntegers DEF StartInv, Allocated, Storing
<1>3. QED BY <1>1, <1>2 DEF Jobs, Taken

(* Every job of a client that opens the object after init_shared_memory()  *)
(* has returned is printed as it was submitted, once and in its turn: the  *)
(* k-th job on paper is that of the k-th client to move clientindex, and   *)
(* until then it waits k places behind what printerindex has passed.  This *)
(* holds however many clients came too early, and whatever words they have *)
(* left in the ring; one printer is started.                               *)
THEOREM LateJobsIntactCorrect ==
  ASSUME MaxStarts <= 1 PROVE StartSpec => []LateJobsIntact
<1>1. LateInv => LateJobsIntact
  <2> SUFFICES ASSUME LateInv PROVE LateJobsIntact
    OBVIOUS
  <2>1. /\ StartInv /\ TicketInv /\ PrintedIntact
        /\ Len(printout) <= Len(tickets)
    BY DEF LateInv, PrintedIntact
  <2>2. /\ Len(printout) \in Nat /\ DOMAIN printout = 1 .. Len(printout)
        /\ Len(tickets) \in Nat /\ DOMAIN tickets = 1 .. Len(tickets)
    BY <2>1 DEF PrintedIntact, TicketInv
  <2>3. ASSUME NEW c \in Clients, cpc[c] = "exited" PROVE TicketsOf(c) # {}
    BY <2>1, <2>3 DEF TicketInv, TicketsOf, TakenPC, DonePC
  <2>4. ASSUME NEW c \in Clients, Late(c), NEW k \in TicketsOf(c),
               k <= Len(printout)
        PROVE  printout[k] = JobOf(c)
    <3>1. k \in DOMAIN printout /\ tickets[k] = c
      BY <2>2, <2>4 DEF TicketsOf
    <3>2. QED BY <2>1, <2>4, <3>1 DEF PrintedIntact
  <2>5. ASSUME NEW c \in Clients, Late(c), NEW k \in TicketsOf(c),
               ~(k <= Len(printout)), ppc \in PrinterPC, cpc[c] = "exited"
        PROVE  k - Passed <= Stored /\ JobIn(Slot(k - Passed - 1)) = JobOf(c)
    <3>1. AliveInv /\ Alive
      BY <2>5 DEF LateInv, Alive, PrinterPC
    <3>2. Stored = Jobs
      BY <2>1, <2>5, SlotsAreIntegers DEF Jobs, One, StartInv
    <3>3. /\ Jobs \in Nat /\ Taken \in Nat
          /\ \A d \in Clients : cpc[d] \in Storing => Taken = Jobs + 1
      BY <2>1, <3>1, JobsBounds DEF AliveInv
    <3>4. /\ Passed \in Nat /\ Len(tickets) = Passed + Taken
          /\ \A d \in Clients : cpc[d] \in Storing => tickets[Len(tickets)] = d
      BY <3>1 DEF AliveInv, InTurn
    <3>5. k \in 1 .. Len(tickets) /\ tickets[k] = c /\ Passed < k
      <4>1. Passed <= Len(printout)
        BY <2>2 DEF Passed, One
      <4>2. QED BY <2>2, <2>5, <3>4, <4>1 DEF TicketsOf
    <3>6. k <= Passed + Jobs
      <4>1. CASE Taken = Jobs
        BY <3>3, <3>4, <3>5, <4>1
      <4>2. CASE Taken # Jobs
        <5>1. PICK d \in Clients : cpc[d] \in Storing
          BY <2>1, <4>2, SomebodyStores
        <5>2. d # c /\ tickets[Len(tickets)] = d
          BY <2>5, <3>4, <5>1 DEF Storing
        <5>3. k # Len(tickets)
          BY <3>5, <5>2
        <5>4. Taken = Jobs + 1
          BY <3>3, <5>1
        <5>5. QED BY <2>2, <3>3, <3>4, <3>5, <5>3, <5>4
      <4>3. QED BY <4>1, <4>2
    <3>7. PICK i \in Nat : k = Passed + 1 + i /\ i = k - Passed - 1
      BY <3>4, <3>5
    <3>8. i \in 0 .. Jobs - 1
      BY <3>3, <3>4, <3>6, <3>7
    <3>9. JobIn(Slot(i)) = JobOf(tickets[Passed + 1 + i])
      BY <2>5, <3>1, <3>5, <3>7, <3>8 DEF AliveInv, InTurn
    <3>10. k - Passed <= Stored
      BY <3>2, <3>3, <3>4, <3>5, <3>6
    <3>11. QED BY <3>5, <3>7, <3>9, <3>10
  <2>6. ASSUME NEW c \in Clients
        PROVE  \A k, l \in TicketsOf(c) : k = l
    BY <2>1 DEF TicketInv, TicketsOf
  <2>7. QED BY <2>1, <2>3, <2>4, <2>5, <2>6 DEF LateJobsIntact, Late
<1>2. LateInv /\ [StartNext]_startvars => LateInv'
  BY LateInvStep
<1>3. QED BY LateInvInit, <1>1, <1>2, PTL DEF StartSpec
=============================================================================
