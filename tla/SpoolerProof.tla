--------------------------- MODULE SpoolerProof ---------------------------
(***************************************************************************)
(* Proofs about Spooler.tla for any finite set of clients, any number of   *)
(* slots and any page counts.                                              *)
(***************************************************************************)
EXTENDS Spooler, FiniteSetTheorems, TLAPS

USE ClientsAssumption, SlotsAssumption, PagesAssumption

-----------------------------------------------------------------------------
(* Types and mutual exclusion.  Neither is inductive alone: mutex stays    *)
(* below 2 because only the process in its critical section posts it, and  *)
(* that there is only one such process follows from the value of mutex.    *)

TypesAndMutex == TypeOK /\ MutualExclusion

LEMMA TypesAndMutexInit == Init => TypesAndMutex
  BY DEF Init, SharedInit, LocalsInit, TypesAndMutex, TypeOK, MutualExclusion,
         ClientsAt, CriticalPC, PrinterInCritical, ClientPC, PrinterPC, Words

LEMMA TypeOKStep == TypesAndMutex /\ [Next]_vars => TypeOK'
<1> SUFFICES ASSUME TypesAndMutex, [Next]_vars PROVE TypeOK'
  OBVIOUS
<1> USE DEF TypesAndMutex, TypeOK, ClientPC, PrinterPC, ClientGoto,
            PrinterGoto, Words, semaphores, ring, clients, printer
<1>1. ASSUME NEW c \in Clients, ClientStep(c) PROVE TypeOK'
  <2>1. CASE ReadSize(c) BY <2>1 DEF ReadSize
  <2>2. CASE GetEmpty(c) BY <2>2 DEF GetEmpty
  <2>3. CASE WaitEmpty(c) BY <2>3 DEF WaitEmpty
  <2>4. CASE WaitMutex(c) BY <2>4 DEF WaitMutex
  <2>5. CASE ReadClientIndex(c) BY <2>5 DEF ReadClientIndex
  <2>6. CASE AdvanceClientIndex(c) BY <2>6 DEF AdvanceClientIndex
  <2>7. CASE StoreID(c) BY <2>7 DEF StoreID
  <2>8. CASE StorePages(c) BY <2>8 DEF StorePages
  <2>9. CASE PostMutex(c)
    <3>1. mutex = 0
      BY <2>9 DEF PostMutex, MutualExclusion, ClientsAt, CriticalPC
    <3>2. QED BY <2>9, <3>1 DEF PostMutex
  <2>10. CASE PostFull(c) BY <2>10 DEF PostFull
  <2>11. QED
    BY <1>1, <2>1, <2>2, <2>3, <2>4, <2>5, <2>6, <2>7, <2>8, <2>9, <2>10
    DEF ClientStep
<1>2. ASSUME PrinterStep PROVE TypeOK'
  <2>1. CASE PrinterWaitFull BY <2>1 DEF PrinterWaitFull
  <2>2. CASE PrinterWaitMutex BY <2>2 DEF PrinterWaitMutex
  <2>3. CASE ReadPrinterIndex BY <2>3 DEF ReadPrinterIndex
  <2>4. CASE ReadID BY <2>4 DEF ReadID
  <2>5. CASE ReadPages BY <2>5 DEF ReadPages
  <2>6. CASE PrinterPostMutex
    <3>1. mutex = 0
      BY <2>6 DEF PrinterPostMutex, MutualExclusion, PrinterInCritical
    <3>2. QED BY <2>6, <3>1 DEF PrinterPostMutex
  <2>7. CASE PrintMessage BY <2>7 DEF PrintMessage
  <2>8. CASE AdvancePrinterIndex BY <2>8 DEF AdvancePrinterIndex
  <2>9. CASE PrinterPostEmpty BY <2>9 DEF PrinterPostEmpty
  <2>10. QED
    BY <1>2, <2>1, <2>2, <2>3, <2>4, <2>5, <2>6, <2>7, <2>8, <2>9
    DEF PrinterStep
<1>3. CASE UNCHANGED vars BY <1>3 DEF vars
<1>4. QED BY <1>1, <1>2, <1>3 DEF Next

LEMMA MutualExclusionStep ==
  TypesAndMutex /\ [Next]_vars => MutualExclusion'
<1> SUFFICES ASSUME TypesAndMutex, [Next]_vars PROVE MutualExclusion'
  OBVIOUS
<1> USE DEF TypesAndMutex, TypeOK, ClientPC, PrinterPC, ClientGoto,
            PrinterGoto, semaphores, ring, clients, printer,
            MutualExclusion, ClientsAt, CriticalPC, PrinterInCritical
<1>1. ASSUME NEW c \in Clients, ClientStep(c) PROVE MutualExclusion'
  <2>1. CASE WaitMutex(c) BY <2>1 DEF WaitMutex
  <2>2. CASE PostMutex(c) BY <2>2 DEF PostMutex
  <2>3. CASE ~WaitMutex(c) /\ ~PostMutex(c)
    <3>1. /\ UNCHANGED <<mutex, ppc>>
          /\ \E to \in ClientPC :
               /\ cpc' = [cpc EXCEPT ![c] = to]
               /\ cpc[c] \in CriticalPC <=> to \in CriticalPC
      BY <1>1, <2>3 DEF ClientStep, ReadSize, GetEmpty, WaitEmpty,
         ReadClientIndex, AdvanceClientIndex, StoreID, StorePages, PostFull
    <3>2. ClientsAt(CriticalPC)' = ClientsAt(CriticalPC)
      BY <3>1
    <3>3. QED BY <3>1, <3>2
  <2>4. QED BY <2>1, <2>2, <2>3
<1>2. ASSUME PrinterStep PROVE MutualExclusion'
  <2>1. CASE PrinterWaitMutex BY <2>1 DEF PrinterWaitMutex
  <2>2. CASE PrinterPostMutex BY <2>2 DEF PrinterPostMutex
  <2>3. CASE ~PrinterWaitMutex /\ ~PrinterPostMutex
    BY <1>2, <2>3 DEF PrinterStep, PrinterWaitFull, ReadPrinterIndex, ReadID,
       ReadPages, PrintMessage, AdvancePrinterIndex, PrinterPostEmpty
  <2>4. QED BY <2>1, <2>2, <2>3
<1>3. CASE UNCHANGED vars BY <1>3 DEF vars
<1>4. QED BY <1>1, <1>2, <1>3 DEF Next

LEMMA TypesAndMutexInvariant == Spec => []TypesAndMutex
<1>1. TypesAndMutex /\ [Next]_vars => TypesAndMutex'
  BY TypeOKStep, MutualExclusionStep DEF TypesAndMutex
<1>2. QED BY TypesAndMutexInit, <1>1, PTL DEF Spec

(* No step of any process leaves the types: in particular no array access  *)
(* of client.c or printer.c is outside the ring.                           *)
THEOREM TypeCorrect == Spec => []TypeOK
<1>1. TypesAndMutex => TypeOK
  BY DEF TypesAndMutex
<1>2. QED BY TypesAndMutexInvariant, <1>1, PTL

(* put_a_job() and take_a_job() exclude each other.                        *)
THEOREM MutexCorrect == Spec => []MutualExclusion
<1>1. TypesAndMutex => MutualExclusion
  BY DEF TypesAndMutex
<1>2. QED BY TypesAndMutexInvariant, <1>1, PTL

-----------------------------------------------------------------------------
(* Counting the processes at a set of program counters.                    *)

LEMMA NumberAtType ==
  ASSUME NEW PCs
  PROVE  IsFiniteSet(ClientsAt(PCs)) /\ NumberAt(PCs) \in Nat
<1>1. ClientsAt(PCs) \in SUBSET Clients
  BY DEF ClientsAt
<1>2. IsFiniteSet(ClientsAt(PCs))
  BY <1>1, FS_Subset
<1>3. QED BY <1>2, FS_CardinalityType DEF NumberAt

(* What a count gains when one client moves.                               *)
Gain(from, to, PCs) == IF to \in PCs
                         THEN IF from \in PCs THEN 0 ELSE 1
                         ELSE IF from \in PCs THEN -1 ELSE 0

LEMMA NumberAtMove ==
  ASSUME NEW CONSTANT PCs, NEW CONSTANT c \in Clients, NEW CONSTANT to,
         NEW CONSTANT AllPC, cpc \in [Clients -> AllPC],
         cpc' = [cpc EXCEPT ![c] = to]
  PROVE  /\ NumberAt(PCs)' = NumberAt(PCs) + Gain(cpc[c], to, PCs)
         /\ NumberAt(PCs) \in Nat /\ NumberAt(PCs)' \in Nat
<1> DEFINE S == ClientsAt(PCs)
<1>1. IsFiniteSet(S) /\ Cardinality(S) \in Nat
  BY NumberAtType DEF NumberAt
<1>2. Cardinality(S \cup {c}) =
        IF c \in S THEN Cardinality(S) ELSE Cardinality(S) + 1
  BY <1>1, FS_AddElement
<1>3. Cardinality(S \ {c}) =
        IF c \in S THEN Cardinality(S) - 1 ELSE Cardinality(S)
  BY <1>1, FS_RemoveElement
<1>4. IsFiniteSet(S \ {c}) /\ Cardinality(S \ {c}) \in Nat
  BY <1>1, FS_RemoveElement, FS_CardinalityType
<1>5. c \in S <=> cpc[c] \in PCs
  BY DEF ClientsAt
<1>6. ClientsAt(PCs)' = IF to \in PCs THEN S \cup {c} ELSE S \ {c}
  BY DEF ClientsAt
<1>7. NumberAt(PCs)' = Cardinality(IF to \in PCs THEN S \cup {c}
                                                 ELSE S \ {c})
  BY <1>6 DEF NumberAt
<1> HIDE DEF S
<1>8. NumberAt(PCs) = Cardinality(S)
  BY DEF NumberAt, S
<1>9. QED BY <1>1, <1>2, <1>3, <1>4, <1>5, <1>7, <1>8 DEF Gain

LEMMA NumberAtSame ==
  ASSUME NEW CONSTANT PCs, UNCHANGED cpc
  PROVE  NumberAt(PCs)' = NumberAt(PCs)
  BY DEF NumberAt, ClientsAt

-----------------------------------------------------------------------------
(* The counting semaphores.                                                *)

(* What a step of a client does to its program counter, the semaphores it  *)
(* counts with and the locals of the printer, and the same for a step of   *)
(* the printer.                                                            *)
ClientMove(c, to) ==
  /\ cpc' = [cpc EXCEPT ![c] = to]
  /\ \/ /\ cpc[c] \in {"read_size", "get_empty"}
        /\ to \in {"get_empty", "wait_empty"}
        /\ UNCHANGED <<empty, full>>
     \/ /\ cpc[c] = "wait_empty" /\ to = "wait_mutex"
        /\ empty > 0 /\ empty' = empty - 1 /\ full' = full
     \/ /\ cpc[c] \in {"wait_mutex", "read_index"}
        /\ to \in {"read_index", "advance"}
        /\ UNCHANGED <<empty, full>>
     \/ /\ cpc[c] = "advance" /\ to = "store_id"
        /\ UNCHANGED <<empty, full>>
     \/ /\ cpc[c] = "store_id" /\ to = "store_pages"
        /\ UNCHANGED <<empty, full>>
     \/ /\ cpc[c] = "store_pages" /\ to = "post_mutex"
        /\ UNCHANGED <<empty, full>>
     \/ /\ cpc[c] = "post_mutex" /\ to = "post_full"
        /\ UNCHANGED <<empty, full>>
     \/ /\ cpc[c] = "post_full" /\ to = "exited"
        /\ full' = full + 1 /\ empty' = empty
  /\ UNCHANGED printer

PrinterMove ==
  /\ cpc' = cpc
  /\ \/ /\ ppc = "wait_full" /\ ppc' = "wait_mutex"
        /\ full > 0 /\ full' = full - 1 /\ empty' = empty
     \/ /\ ppc \notin {"wait_full", "advance", "post_empty"}
        /\ ppc' \notin {"wait_full", "post_empty"}
        /\ UNCHANGED <<empty, full>>
     \/ /\ ppc = "advance" /\ ppc' = "post_empty"
        /\ UNCHANGED <<empty, full>>
     \/ /\ ppc = "post_empty" /\ ppc' = "wait_full"
        /\ empty' = empty + 1 /\ full' = full

LEMMA PrinterStepMoves == PrinterStep => PrinterMove
  BY DEF PrinterStep, PrinterMove, PrinterGoto, PrinterWaitFull,
     PrinterWaitMutex, ReadPrinterIndex, ReadID, ReadPages,
     PrinterPostMutex, PrintMessage, AdvancePrinterIndex, PrinterPostEmpty,
     semaphores, clients

LEMMA ClientStepMoves ==
  ASSUME NEW c \in Clients, ClientStep(c)
  PROVE  \E to \in ClientPC : ClientMove(c, to)
  BY DEF ClientStep, ClientMove, ClientGoto, ClientPC, ReadSize,
     GetEmpty, WaitEmpty, WaitMutex, ReadClientIndex, AdvanceClientIndex,
     StoreID, StorePages, PostMutex, PostFull, semaphores

(* No step of a client or of the printer changes the number of slots that  *)
(* are accounted for, whatever other values cpc may have (AllPC).          *)
LEMMA AccountedStep ==
  ASSUME NEW CONSTANT AllPC, cpc \in [Clients -> AllPC], empty \in Int,
         full \in Int, [Next]_vars
  PROVE  Accounted' = Accounted
<1> DEFINE Promised == {"wait_mutex", "read_index", "advance"}
           Storing  == {"store_id", "store_pages"}
           Full     == {"post_mutex", "post_full"}
<1>1. ASSUME NEW c \in Clients, ClientStep(c) PROVE Accounted' = Accounted
  <2>1. PICK to \in ClientPC : ClientMove(c, to)
    BY <1>1, ClientStepMoves
  <2>2. cpc' = [cpc EXCEPT ![c] = to]
    BY <2>1 DEF ClientMove
  <2>3. /\ NumberAt(Promised)' = NumberAt(Promised)
                                   + Gain(cpc[c], to, Promised)
        /\ NumberAt(Promised) \in Nat /\ NumberAt(Promised)' \in Nat
    BY <2>2, NumberAtMove
  <2>4. /\ NumberAt(Storing)' = NumberAt(Storing)
                                  + Gain(cpc[c], to, Storing)
        /\ NumberAt(Storing) \in Nat /\ NumberAt(Storing)' \in Nat
    BY <2>2, NumberAtMove
  <2>5. /\ NumberAt(Full)' = NumberAt(Full) + Gain(cpc[c], to, Full)
        /\ NumberAt(Full) \in Nat /\ NumberAt(Full)' \in Nat
    BY <2>2, NumberAtMove
  <2>6. ppc' = ppc
    BY <2>1 DEF ClientMove, printer
  <2>7. Accounted = empty + NumberAt(Promised) + Allocated
                      + One(ppc = "post_empty")
    BY DEF Accounted
  <2> HIDE DEF Promised, Storing, Full
  <2>8. Allocated = NumberAt(Full) + full + One(PrinterHasSlot)
                      + NumberAt(Storing)
    BY DEF Allocated, Stored, Full, Storing
  <2>9. Allocated' = NumberAt(Full)' + full' + One(PrinterHasSlot)
                      + NumberAt(Storing)'
    BY <2>6 DEF Allocated, Stored, Full, Storing, PrinterHasSlot
  <2>10. /\ empty \in Int /\ full \in Int
         /\ empty' \in Int /\ full' \in Int
    BY <2>1 DEF ClientMove
  <2>11. /\ One(PrinterHasSlot) \in Int
         /\ One(ppc = "post_empty") \in Int
         /\ Gain(cpc[c], to, Promised) \in Int
         /\ Gain(cpc[c], to, Storing) \in Int
         /\ Gain(cpc[c], to, Full) \in Int
    BY DEF One, Gain
  <2>12. empty' - empty + full' - full + Gain(cpc[c], to, Promised)
           + Gain(cpc[c], to, Storing) + Gain(cpc[c], to, Full) = 0
    <3> DEFINE from == cpc[c]
    <3>1. CASE from = "wait_empty"
      <4>1. /\ Gain(from, to, Promised) = 1
            /\ Gain(from, to, Storing) = 0
            /\ Gain(from, to, Full) = 0
        BY <2>1, <3>1 DEF ClientMove, Gain, Promised, Storing, Full
      <4>2. QED BY <2>1, <2>10, <3>1, <4>1 DEF ClientMove
    <3>2. CASE from = "post_full"
      <4>1. /\ Gain(from, to, Promised) = 0
            /\ Gain(from, to, Storing) = 0
            /\ Gain(from, to, Full) = -1
        BY <2>1, <3>2 DEF ClientMove, Gain, Promised, Storing, Full
      <4>2. QED BY <2>1, <2>10, <3>2, <4>1 DEF ClientMove
    <3>3. CASE from \notin {"wait_empty", "post_full"}
      <4>1. Gain(from, to, Promised) + Gain(from, to, Storing)
              + Gain(from, to, Full) = 0
        BY <2>1, <3>3 DEF ClientMove, Gain, Promised, Storing, Full
      <4>2. QED BY <2>1, <2>10, <2>11, <3>3, <4>1 DEF ClientMove
    <3>4. QED BY <3>1, <3>2, <3>3
  <2>13. Accounted = empty' + NumberAt(Promised)' + Allocated'
                       + One(ppc = "post_empty")
    BY <2>3, <2>4, <2>5, <2>7, <2>8, <2>9, <2>10, <2>11, <2>12
  <2>14. QED BY <2>6, <2>13 DEF Accounted, Promised
<1>2. ASSUME PrinterStep PROVE Accounted' = Accounted
  <2>1. PrinterMove
    BY <1>2, PrinterStepMoves
  <2>2. /\ NumberAt(Promised)' = NumberAt(Promised)
        /\ NumberAt(Storing)' = NumberAt(Storing)
        /\ NumberAt(Full)' = NumberAt(Full)
    BY <2>1, NumberAtSame DEF PrinterMove
  <2>3. /\ NumberAt(Promised) \in Nat
        /\ NumberAt(Storing) \in Nat
        /\ NumberAt(Full) \in Nat
    BY NumberAtType
  <2>4. /\ empty \in Int /\ full \in Int
        /\ empty' \in Int /\ full' \in Int
    BY <2>1 DEF PrinterMove
  <2>5. /\ One(PrinterHasSlot) \in Int /\ One(PrinterHasSlot)' \in Int
        /\ One(ppc = "post_empty") \in Int
        /\ One(ppc = "post_empty")' \in Int
    BY DEF One
  <2>6. empty' + full' + One(PrinterHasSlot)' + One(ppc = "post_empty")'
          = empty + full + One(PrinterHasSlot) + One(ppc = "post_empty")
    <3>1. CASE ppc = "wait_full"
      BY <2>1, <2>4, <3>1 DEF PrinterMove, PrinterHasSlot, One
    <3>2. CASE ppc = "advance"
      BY <2>1, <2>4, <3>2 DEF PrinterMove, PrinterHasSlot, One
    <3>3. CASE ppc = "post_empty"
      BY <2>1, <2>4, <3>3 DEF PrinterMove, PrinterHasSlot, One
    <3>4. CASE ppc \notin {"wait_full", "advance", "post_empty"}
      BY <2>1, <2>4, <3>4 DEF PrinterMove, PrinterHasSlot, One
    <3>5. QED BY <3>1, <3>2, <3>3, <3>4
  <2> HIDE DEF Promised, Storing, Full
  <2>7. /\ Allocated = NumberAt(Full) + full + One(PrinterHasSlot)
                         + NumberAt(Storing)
        /\ Allocated' = NumberAt(Full)' + full' + One(PrinterHasSlot)'
                         + NumberAt(Storing)'
    BY DEF Allocated, Stored, Storing, Full
  <2>8. Accounted = empty + NumberAt(Promised) + Allocated
                      + One(ppc = "post_empty")
    BY DEF Accounted, Promised
  <2>9. Accounted = empty' + NumberAt(Promised)' + Allocated'
                      + One(ppc = "post_empty")'
    BY <2>2, <2>3, <2>4, <2>5, <2>6, <2>7, <2>8
  <2>10. QED BY <2>9 DEF Accounted, Promised
<1>3. CASE UNCHANGED vars
  <2>1. \A PCs : NumberAt(PCs)' = NumberAt(PCs)
    BY <1>3, NumberAtSame DEF vars, clients
  <2>2. QED BY <1>3, <2>1
    DEF vars, semaphores, printer, Accounted, Allocated, Stored,
        PrinterHasSlot
<1>4. QED BY <1>1, <1>2, <1>3 DEF Next

LEMMA TokenConservationStep ==
  TypeOK /\ TokenConservation /\ [Next]_vars => TokenConservation'
<1> SUFFICES ASSUME TypeOK, TokenConservation, [Next]_vars
             PROVE  TokenConservation'
  OBVIOUS
<1>1. cpc \in [Clients -> ClientPC] /\ empty \in Int /\ full \in Int
  BY DEF TypeOK
<1>2. Accounted' = Accounted
  BY <1>1, AccountedStep
<1>3. QED BY <1>2 DEF TokenConservation

(* The semaphores never lose or invent a slot.                             *)
THEOREM TokensCorrect == Spec => []TokenConservation
<1>1. Init => TokenConservation
  <2> SUFFICES ASSUME Init PROVE TokenConservation
    OBVIOUS
  <2>1. \A c \in Clients : cpc[c] = "read_size"
    BY DEF Init
  <2>2. /\ ClientsAt({"wait_mutex", "read_index", "advance"}) = {}
        /\ ClientsAt({"post_mutex", "post_full"}) = {}
        /\ ClientsAt({"store_id", "store_pages"}) = {}
    BY <2>1 DEF ClientsAt
  <2>3. QED
    BY <2>2, FS_EmptySet
    DEF Init, SharedInit, TokenConservation, Accounted, Allocated, Stored,
        NumberAt, PrinterHasSlot, One
<1>2. TypesAndMutex => TypeOK
  BY DEF TypesAndMutex
<1>3. QED
  BY <1>1, <1>2, TokenConservationStep, TypesAndMutexInvariant, PTL DEF Spec

-----------------------------------------------------------------------------
(* The ring.                                                               *)

DonePC == {"post_mutex", "post_full", "exited"}

(* What the processes have in their locals between two accesses.           *)
LocalsInv ==
  /\ \A c \in Clients : cpc[c] # "read_size" => csize[c] = Slots
  /\ \A c \in Clients : cpc[c] = "advance" => temp[c] = clientindex
  /\ \A c \in Clients :
       cpc[c] \in {"store_id", "store_pages"} => temp[c] = Slot(Stored)
  /\ \A c \in Clients : cpc[c] = "store_pages" => arr[temp[c]] = c
  /\ PrinterReadsSlot => position = printerindex
  /\ ppc \in {"read_pages", "post_mutex", "print"} => jobID = arr[position]
  /\ ppc \in {"post_mutex", "print"} => jobpages = arr[position + Slots]

(* StoredJobsWhole and PrintedOnce, with the clients whose jobs they are:  *)
(* those that have stored both words.                                      *)
JobsInv ==
  /\ \A i \in 0 .. Stored - 1 :
       \E c \in Clients : cpc[c] \in DonePC /\ JobIn(Slot(i)) = JobOf(c)
  /\ \A i, j \in 0 .. Stored - 1 : arr[Slot(i)] = arr[Slot(j)] => i = j
  /\ \A i \in One(ppc = "advance") .. Stored - 1, k \in DOMAIN printout :
       arr[Slot(i)] # printout[k].id
  /\ \A k \in DOMAIN printout :
       \E c \in Clients : cpc[c] \in DonePC /\ printout[k] = JobOf(c)
  /\ \A k, l \in DOMAIN printout : printout[k].id = printout[l].id => k = l

RingInv == RingConsistent /\ LocalsInv /\ JobsInv

Inv == TypesAndMutex /\ TokenConservation /\ RingInv

LEMMA SlotRange ==
  ASSUME TypeOK, NEW i \in 0 .. Slots
  PROVE  Slot(i) \in 0 .. Slots - 1
  BY DEF TypeOK, Slot

LEMMA SlotInjective ==
  ASSUME TypeOK, NEW i \in 0 .. Slots - 1, NEW j \in 0 .. Slots - 1,
         Slot(i) = Slot(j)
  PROVE  i = j
  BY DEF TypeOK, Slot

(* How far the ring is filled.                                             *)
LEMMA CountTypes ==
  ASSUME TypeOK
  PROVE  /\ Stored \in Nat
         /\ NumberAt({"store_id", "store_pages"}) \in Nat
         /\ Allocated = Stored + NumberAt({"store_id", "store_pages"})
         /\ Allocated \in Nat
         /\ PrinterHasSlot => Stored >= 1
<1>1. /\ NumberAt({"store_id", "store_pages"}) \in Nat
      /\ NumberAt({"post_mutex", "post_full"}) \in Nat
  BY NumberAtType
<1>2. full \in Nat /\ One(PrinterHasSlot) \in Nat
      /\ (PrinterHasSlot => One(PrinterHasSlot) = 1)
  BY DEF TypeOK, One
<1>3. QED BY <1>1, <1>2 DEF Stored, Allocated

LEMMA AllocatedBound ==
  ASSUME TypeOK, TokenConservation
  PROVE  Allocated <= Slots
<1>1. NumberAt({"wait_mutex", "read_index", "advance"}) \in Nat
  BY NumberAtType
<1>2. empty \in Nat /\ One(ppc = "post_empty") \in Nat
  BY DEF TypeOK, One
<1>3. QED BY <1>1, <1>2, CountTypes DEF TokenConservation, Accounted

LEMMA AllocatedBelow ==
  ASSUME TypeOK, TokenConservation, NEW c \in Clients, cpc[c] = "advance"
  PROVE  Allocated < Slots
<1> DEFINE Promised == {"wait_mutex", "read_index", "advance"}
<1>1. IsFiniteSet(ClientsAt(Promised)) /\ NumberAt(Promised) \in Nat
  BY NumberAtType
<1>2. ClientsAt(Promised) # {}
  BY DEF ClientsAt
<1>3. NumberAt(Promised) # 0
  BY <1>1, <1>2, FS_EmptySet DEF NumberAt
<1>4. empty \in Nat /\ One(ppc = "post_empty") \in Nat
  BY DEF TypeOK, One
<1>5. empty + NumberAt(Promised) + Allocated + One(ppc = "post_empty") = Slots
  BY DEF TokenConservation, Accounted
<1> HIDE DEF Promised
<1>6. QED BY <1>1, <1>3, <1>4, <1>5, CountTypes

(* Only the client in the critical section can be storing a job.           *)
LEMMA StoringIsExclusive ==
  ASSUME TypesAndMutex, NEW c \in Clients
  PROVE  /\ cpc[c] \in {"store_id", "store_pages"} => Allocated = Stored + 1
         /\ cpc[c] = "advance" => Allocated = Stored
<1>1. ASSUME cpc[c] \in {"store_id", "store_pages"}
      PROVE  Allocated = Stored + 1
  <2>1. ClientsAt({"store_id", "store_pages"}) = {c}
    BY <1>1 DEF TypesAndMutex, MutualExclusion, ClientsAt, CriticalPC
  <2>2. NumberAt({"store_id", "store_pages"}) = 1
    BY <2>1, FS_Singleton DEF NumberAt
  <2>3. QED BY <2>2, CountTypes DEF TypesAndMutex
<1>2. ASSUME cpc[c] = "advance" PROVE Allocated = Stored
  <2>1. ClientsAt({"store_id", "store_pages"}) = {}
    BY <1>2 DEF TypesAndMutex, MutualExclusion, ClientsAt, CriticalPC
  <2>2. NumberAt({"store_id", "store_pages"}) = 0
    BY <2>1, FS_EmptySet DEF NumberAt
  <2>3. QED BY <2>2, CountTypes DEF TypesAndMutex
<1>3. QED BY <1>1, <1>2

(* What a step of a client and one of the printer do to the two counts,    *)
(* whatever other values cpc may have (AllPC).                             *)
LEMMA ClientMovesSlots ==
  ASSUME NEW CONSTANT AllPC, cpc \in [Clients -> AllPC], full \in Int,
         NEW c \in Clients, ClientStep(c)
  PROVE  /\ Stored' = Stored + One(cpc[c] = "store_pages")
         /\ Allocated' = Allocated + One(cpc[c] = "advance")
<1> DEFINE Storing == {"store_id", "store_pages"}
           Full    == {"post_mutex", "post_full"}
<1>1. PICK to \in ClientPC : ClientMove(c, to)
  BY ClientStepMoves
<1>2. cpc' = [cpc EXCEPT ![c] = to]
  BY <1>1 DEF ClientMove
<1>3. /\ NumberAt(Storing)' = NumberAt(Storing) + Gain(cpc[c], to, Storing)
      /\ NumberAt(Storing) \in Nat /\ NumberAt(Storing)' \in Nat
  BY <1>2, NumberAtMove
<1>4. /\ NumberAt(Full)' = NumberAt(Full) + Gain(cpc[c], to, Full)
      /\ NumberAt(Full) \in Nat /\ NumberAt(Full)' \in Nat
  BY <1>2, NumberAtMove
<1>5. ppc' = ppc
  BY <1>1 DEF ClientMove, printer
<1>6. full' \in Int
  BY <1>1 DEF ClientMove
<1>7. /\ full' - full + Gain(cpc[c], to, Full) = One(cpc[c] = "store_pages")
      /\ Gain(cpc[c], to, Storing)
           = One(cpc[c] = "advance") - One(cpc[c] = "store_pages")
  <2>1. CASE cpc[c] = "advance"
    BY <1>1, <1>6, <2>1 DEF ClientMove, Gain, Storing, Full, One
  <2>2. CASE cpc[c] = "store_pages"
    BY <1>1, <1>6, <2>2 DEF ClientMove, Gain, Storing, Full, One
  <2>3. CASE cpc[c] = "post_full"
    BY <1>1, <1>6, <2>3 DEF ClientMove, Gain, Storing, Full, One
  <2>4. CASE cpc[c] \notin {"advance", "store_pages", "post_full"}
    <3>1. full' = full
      BY <1>1, <2>4 DEF ClientMove
    <3>2. /\ Gain(cpc[c], to, Full) = 0
          /\ Gain(cpc[c], to, Storing) = 0
      BY <1>1, <2>4 DEF ClientMove, Gain, Storing, Full
    <3>3. /\ One(cpc[c] = "advance") = 0
          /\ One(cpc[c] = "store_pages") = 0
      BY <2>4 DEF One
    <3>4. QED BY <1>6, <3>1, <3>2, <3>3
  <2>5. QED BY <2>1, <2>2, <2>3, <2>4
<1>8. /\ One(PrinterHasSlot) \in Int
      /\ One(cpc[c] = "advance") \in Int
      /\ One(cpc[c] = "store_pages") \in Int
      /\ Gain(cpc[c], to, Storing) \in Int
      /\ Gain(cpc[c], to, Full) \in Int
  BY DEF One, Gain
<1> HIDE DEF Storing, Full
<1>9. /\ Stored = NumberAt(Full) + full + One(PrinterHasSlot)
      /\ Stored' = NumberAt(Full)' + full' + One(PrinterHasSlot)
      /\ Allocated = Stored + NumberAt(Storing)
      /\ Allocated' = Stored' + NumberAt(Storing)'
  BY <1>5 DEF Stored, Allocated, PrinterHasSlot, Storing, Full
<1>10. Stored' = Stored + One(cpc[c] = "store_pages")
  BY <1>4, <1>6, <1>7, <1>8, <1>9
<1>11. Allocated' = Allocated + One(cpc[c] = "advance")
  BY <1>3, <1>4, <1>6, <1>7, <1>8, <1>9, <1>10
<1>12. QED BY <1>10, <1>11

LEMMA PrinterMovesSlots ==
  ASSUME full \in Int, PrinterStep
  PROVE  /\ Stored' = Stored - One(ppc = "advance")
         /\ Allocated' = Allocated - One(ppc = "advance")
<1>1. PrinterMove
  BY PrinterStepMoves
<1>2. /\ NumberAt({"post_mutex", "post_full"})'
           = NumberAt({"post_mutex", "post_full"})
      /\ NumberAt({"store_id", "store_pages"})'
           = NumberAt({"store_id", "store_pages"})
  BY <1>1, NumberAtSame DEF PrinterMove
<1>3. /\ NumberAt({"post_mutex", "post_full"}) \in Int
      /\ NumberAt({"store_id", "store_pages"}) \in Int
  BY NumberAtType
<1>4. full' \in Int
  BY <1>1 DEF PrinterMove
<1>5. /\ One(PrinterHasSlot) \in Int /\ One(PrinterHasSlot)' \in Int
      /\ One(ppc = "advance") \in Int
  BY DEF One
<1>6. full' + One(PrinterHasSlot)' = full + One(PrinterHasSlot)
                                       - One(ppc = "advance")
  <2>1. CASE ppc = "wait_full"
    BY <1>1, <1>4, <2>1 DEF PrinterMove, PrinterHasSlot, One
  <2>2. CASE ppc = "advance"
    BY <1>1, <1>4, <2>2 DEF PrinterMove, PrinterHasSlot, One
  <2>3. CASE ppc = "post_empty"
    BY <1>1, <1>4, <2>3 DEF PrinterMove, PrinterHasSlot, One
  <2>4. CASE ppc \notin {"wait_full", "advance", "post_empty"}
    <3>1. full' = full
      BY <1>1, <2>4 DEF PrinterMove
    <3>2. PrinterHasSlot' = PrinterHasSlot
      BY <1>1, <2>4 DEF PrinterMove, PrinterHasSlot
    <3>3. QED BY <1>4, <1>5, <2>4, <3>1, <3>2 DEF One
  <2>5. QED BY <2>1, <2>2, <2>3, <2>4
<1>7. /\ Stored = NumberAt({"post_mutex", "post_full"}) + full
                    + One(PrinterHasSlot)
      /\ Stored' = NumberAt({"post_mutex", "post_full"})' + full'
                    + One(PrinterHasSlot)'
      /\ Allocated = Stored + NumberAt({"store_id", "store_pages"})
      /\ Allocated' = Stored' + NumberAt({"store_id", "store_pages"})'
  BY DEF Stored, Allocated
<1>8. Stored' = Stored - One(ppc = "advance")
  BY <1>2, <1>3, <1>4, <1>5, <1>6, <1>7
<1>9. Allocated' = Allocated - One(ppc = "advance")
  BY <1>2, <1>3, <1>5, <1>7, <1>8
<1>10. QED BY <1>8, <1>9

LEMMA ClientCounts ==
  ASSUME TypeOK, NEW c \in Clients, ClientStep(c)
  PROVE  /\ Stored' = Stored + One(cpc[c] = "store_pages")
         /\ Allocated' = Allocated + One(cpc[c] = "advance")
<1>1. cpc \in [Clients -> ClientPC] /\ full \in Int
  BY DEF TypeOK
<1>2. QED BY <1>1, ClientMovesSlots

LEMMA PrinterCounts ==
  ASSUME TypeOK, PrinterStep
  PROVE  /\ Stored' = Stored - One(ppc = "advance")
         /\ Allocated' = Allocated - One(ppc = "advance")
<1>1. full \in Int
  BY DEF TypeOK
<1>2. QED BY <1>1, PrinterMovesSlots

-----------------------------------------------------------------------------
(* Steps that leave the ring alone preserve what is said of the jobs.      *)

LEMMA JobsFrame ==
  ASSUME JobsInv, Stored' = Stored,
         UNCHANGED <<arr, printerindex, printout>>,
         (ppc = "advance")' = (ppc = "advance"),
         \A c \in Clients : cpc[c] \in DonePC => cpc[c]' \in DonePC
  PROVE  JobsInv'
<1>1. \A i : JobIn(Slot(i))' = JobIn(Slot(i)) /\ arr[Slot(i)]' = arr[Slot(i)]
  BY DEF JobIn, Slot
<1>2. One(ppc = "advance")' = One(ppc = "advance")
  BY DEF One
<1>3. QED BY <1>1, <1>2 DEF JobsInv, JobOf

LEMMA ClientsStayDone ==
  ASSUME TypeOK, NEW c \in Clients, ClientStep(c)
  PROVE  \A d \in Clients : cpc[d] \in DonePC => cpc[d]' \in DonePC
<1>1. PICK to \in ClientPC : ClientMove(c, to)
  BY ClientStepMoves
<1>2. QED BY <1>1 DEF ClientMove, DonePC, TypeOK

(* The i-th slot from printerindex, before and after go_sleep() moves it.  *)
LEMMA SlotShift ==
  ASSUME TypeOK, AdvancePrinterIndex, NEW i \in 0 .. Slots - 1
  PROVE  Slot(i)' = Slot(i + 1)
  BY DEF TypeOK, AdvancePrinterIndex, Slot

LEMMA PrinterRingStep ==
  ASSUME Inv, PrinterStep PROVE RingInv'
<1> USE DEF Inv, TypesAndMutex, RingInv
<1>1. /\ Stored' = Stored - One(ppc = "advance")
      /\ Allocated' = Allocated - One(ppc = "advance")
  BY PrinterCounts
<1>2. /\ Stored \in Nat /\ Allocated \in Nat /\ Stored <= Allocated
      /\ Allocated <= Slots /\ (PrinterHasSlot => Stored >= 1)
  BY CountTypes, AllocatedBound
<1>3. \A c \in Clients : cpc[c] \in DonePC => cpc[c]' \in DonePC
  BY PrinterStepMoves DEF PrinterMove
<1>4. ASSUME ppc # "advance", ppc # "print" PROVE RingInv'
  <2>1. /\ UNCHANGED <<ring, clients, printout>>
        /\ ppc' # "advance"
    BY <1>4 DEF PrinterStep, PrinterGoto, PrinterWaitFull, PrinterWaitMutex,
       ReadPrinterIndex, ReadID, ReadPages, PrinterPostMutex, PrintMessage,
       AdvancePrinterIndex, PrinterPostEmpty, ring
  <2>2. Stored' = Stored /\ Allocated' = Allocated
    BY <1>1, <1>2, <1>4 DEF One
  <2>3. JobsInv'
    BY <1>3, <1>4, <2>1, <2>2, JobsFrame DEF ring
  <2>4. RingConsistent'
    BY <2>1, <2>2 DEF RingConsistent, Slot, ring
  <2>5. LocalsInv'
    <3>1. /\ \A c \in Clients : cpc'[c] # "read_size" => csize'[c] = Slots
          /\ \A c \in Clients : cpc'[c] = "advance" => temp'[c] = clientindex'
          /\ \A c \in Clients : cpc'[c] \in {"store_id", "store_pages"} =>
               temp'[c] = Slot(Stored)'
          /\ \A c \in Clients : cpc'[c] = "store_pages" => arr'[temp'[c]] = c
      BY <2>1, <2>2 DEF LocalsInv, Slot, ring, clients
    <3>2. /\ PrinterReadsSlot' => position' = printerindex'
          /\ ppc' \in {"read_pages", "post_mutex", "print"} =>
               jobID' = arr'[position']
          /\ ppc' \in {"post_mutex", "print"} =>
               jobpages' = arr'[position' + Slots]
      BY <1>4, <2>1 DEF PrinterStep, PrinterGoto, PrinterWaitFull,
         PrinterWaitMutex, ReadPrinterIndex, ReadID, ReadPages,
         PrinterPostMutex, PrintMessage, AdvancePrinterIndex,
         PrinterPostEmpty, ring, LocalsInv, PrinterReadsSlot
    <3>3. QED BY <3>1, <3>2 DEF LocalsInv
  <2>6. QED BY <2>3, <2>4, <2>5
<1>5. ASSUME ppc = "print" PROVE RingInv'
  <2>1. /\ PrintMessage
        /\ UNCHANGED <<ring, clients, position, jobID, jobpages>>
        /\ ppc' = "advance"
        /\ printout' = Append(printout, [id |-> jobID, pages |-> jobpages])
    BY <1>5 DEF PrinterStep, PrinterGoto, PrinterWaitFull, PrinterWaitMutex,
       ReadPrinterIndex, ReadID, ReadPages, PrinterPostMutex, PrintMessage,
       AdvancePrinterIndex, PrinterPostEmpty
  <2>2. Stored' = Stored /\ Allocated' = Allocated /\ Stored >= 1
    BY <1>1, <1>2, <1>5 DEF One, PrinterHasSlot
  <2>3. RingConsistent'
    BY <2>1, <2>2 DEF RingConsistent, Slot, ring
  <2>4. LocalsInv'
    BY <1>5, <2>1, <2>2
    DEF LocalsInv, PrinterReadsSlot, Slot, ring, clients
  <2>5. position = Slot(0)
    BY <1>5 DEF LocalsInv, PrinterReadsSlot, Slot, TypeOK
  <2>6. [id |-> jobID, pages |-> jobpages] = JobIn(Slot(0))
    BY <1>5, <2>5 DEF LocalsInv, JobIn
  <2>7. /\ Len(printout) \in Nat
        /\ DOMAIN printout = 1 .. Len(printout)
        /\ DOMAIN printout' = 1 .. Len(printout) + 1
        /\ \A k \in DOMAIN printout : printout'[k] = printout[k]
        /\ printout'[Len(printout) + 1] = JobIn(Slot(0))
    BY <2>1, <2>6 DEF TypeOK
  <2>8. \A i : JobIn(Slot(i))' = JobIn(Slot(i))
               /\ arr[Slot(i)]' = arr[Slot(i)]
    BY <2>1 DEF JobIn, Slot, ring
  <2>9. PICK c \in Clients : cpc[c] \in DonePC /\ JobIn(Slot(0)) = JobOf(c)
    BY <1>2, <2>2 DEF JobsInv
  <2>10. JobIn(Slot(0)).id = arr[Slot(0)]
    BY DEF JobIn
  <2>11. One(ppc = "advance") = 0 /\ One(ppc = "advance")' = 1
    BY <1>5, <2>1 DEF One
  <2>12. /\ \A i \in 0 .. Stored - 1 :
              \E d \in Clients : cpc[d] \in DonePC /\ JobIn(Slot(i)) = JobOf(d)
         /\ \A i, j \in 0 .. Stored - 1 : arr[Slot(i)] = arr[Slot(j)] => i = j
         /\ \A i \in 0 .. Stored - 1, k \in DOMAIN printout :
              arr[Slot(i)] # printout[k].id
         /\ \A k \in DOMAIN printout :
              \E d \in Clients : cpc[d] \in DonePC /\ printout[k] = JobOf(d)
         /\ \A k, l \in DOMAIN printout :
              printout[k].id = printout[l].id => k = l
    BY <2>11 DEF JobsInv
  <2>13. \A i \in 1 .. Stored - 1, k \in DOMAIN printout' :
           arr[Slot(i)] # printout'[k].id
    BY <1>2, <2>2, <2>7, <2>10, <2>12
  <2>14. \A k \in DOMAIN printout' :
           \E d \in Clients : cpc[d] \in DonePC /\ printout'[k] = JobOf(d)
    BY <2>7, <2>9, <2>12
  <2>15. \A k, l \in DOMAIN printout' :
           printout'[k].id = printout'[l].id => k = l
    <3> DEFINE new == Len(printout) + 1
    <3>1. \A k \in DOMAIN printout : printout[k].id # printout'[new].id
      BY <1>2, <2>2, <2>7, <2>10, <2>12
    <3>2. DOMAIN printout' = DOMAIN printout \union {new}
      BY <2>7
    <3>3. \A k \in DOMAIN printout : printout'[k].id = printout[k].id
      BY <2>7
    <3>4. \A k, l \in DOMAIN printout :
            printout[k].id = printout[l].id => k = l
      BY <2>12
    <3> HIDE DEF new
    <3>5. QED BY <3>1, <3>2, <3>3, <3>4
  <2>16. cpc' = cpc
    BY <2>1 DEF clients
  <2>17. JobsInv'
    BY <2>2, <2>8, <2>11, <2>12, <2>13, <2>14, <2>15, <2>16
    DEF JobsInv, JobOf
  <2>18. QED BY <2>3, <2>4, <2>17
<1>6. ASSUME ppc = "advance" PROVE RingInv'
  <2>1. /\ AdvancePrinterIndex
        /\ UNCHANGED <<clientindex, arr, clients, printout>>
        /\ ppc' = "post_empty"
    BY <1>6 DEF PrinterStep, PrinterGoto, PrinterWaitFull, PrinterWaitMutex,
       ReadPrinterIndex, ReadID, ReadPages, PrinterPostMutex, PrintMessage,
       AdvancePrinterIndex, PrinterPostEmpty
  <2>2. /\ Stored' = Stored - 1 /\ Allocated' = Allocated - 1
        /\ Stored >= 1
    BY <1>1, <1>2, <1>6 DEF One, PrinterHasSlot
  <2>3. \A i \in 0 .. Slots - 1 : Slot(i)' = Slot(i + 1)
    BY <2>1, SlotShift
  <2>4. RingConsistent'
    <3>1. /\ Allocated - 1 \in 0 .. Slots - 1
          /\ (Allocated - 1) + 1 = Allocated
      BY <1>2, <2>2
    <3>2. Slot(Allocated)' = Slot(Allocated)
      BY <2>1, <2>2, <3>1 DEF Slot, AdvancePrinterIndex, TypeOK
    <3>3. QED BY <2>1, <3>2 DEF RingConsistent
  <2>5. LocalsInv'
    <3>1. /\ Stored - 1 \in 0 .. Slots - 1
          /\ (Stored - 1) + 1 = Stored
      BY <1>2, <2>2
    <3>2. Slot(Stored)' = Slot(Stored)
      BY <2>1, <2>2, <3>1 DEF Slot, AdvancePrinterIndex, TypeOK
    <3>3. QED BY <2>1, <3>2 DEF LocalsInv, PrinterReadsSlot, clients
  <2>6. \A i \in 0 .. Stored' - 1 : /\ i + 1 \in 0 .. Stored - 1
                                    /\ i + 1 \in 1 .. Stored - 1
                                    /\ i \in 0 .. Slots - 1
    BY <1>2, <2>2
  <2>7. \A i \in 0 .. Stored' - 1 :
          /\ JobIn(Slot(i))' = JobIn(Slot(i + 1))
          /\ arr[Slot(i)]' = arr[Slot(i + 1)]
    BY <2>1, <2>3, <2>6 DEF JobIn
  <2>8. One(ppc = "advance") = 1 /\ One(ppc = "advance")' = 0
    BY <1>6, <2>1 DEF One
  <2>9. \A i \in 0 .. Stored' - 1 :
          \E d \in Clients : cpc[d] \in DonePC
                             /\ JobIn(Slot(i))' = JobOf(d)
    BY <2>6, <2>7 DEF JobsInv
  <2>10. \A i, j \in 0 .. Stored' - 1 :
           arr[Slot(i)]' = arr[Slot(j)]' => i = j
    <3> SUFFICES ASSUME NEW i \in 0 .. Stored' - 1,
                        NEW j \in 0 .. Stored' - 1,
                        arr[Slot(i)]' = arr[Slot(j)]'
                 PROVE  i = j
      OBVIOUS
    <3>1. arr[Slot(i + 1)] = arr[Slot(j + 1)]
      BY <2>7
    <3>2. i + 1 = j + 1
      BY <2>6, <3>1 DEF JobsInv
    <3>3. QED BY <3>2, <2>6
  <2>11. \A i \in 0 .. Stored' - 1, k \in DOMAIN printout :
           arr[Slot(i)]' # printout[k].id
    BY <2>6, <2>7, <2>8 DEF JobsInv
  <2>12. JobsInv'
    BY <2>1, <2>8, <2>9, <2>10, <2>11 DEF JobsInv, JobOf, clients
  <2>13. QED BY <2>4, <2>5, <2>12
<1>7. QED BY <1>4, <1>5, <1>6

LEMMA ClientRingStep ==
  ASSUME Inv, NEW c \in Clients, ClientStep(c) PROVE RingInv'
<1> USE DEF Inv, TypesAndMutex, RingInv
<1>1. /\ Stored' = Stored + One(cpc[c] = "store_pages")
      /\ Allocated' = Allocated + One(cpc[c] = "advance")
  BY ClientCounts
<1>2. /\ Stored \in Nat /\ Allocated \in Nat /\ Stored <= Allocated
      /\ Allocated <= Slots /\ (PrinterHasSlot => Stored >= 1)
  BY CountTypes, AllocatedBound
<1>3. /\ cpc[c] \in {"store_id", "store_pages"} => Allocated = Stored + 1
      /\ cpc[c] = "advance" => Allocated = Stored
  BY StoringIsExclusive
<1>4. \A d \in Clients : cpc[d] \in DonePC => cpc[d]' \in DonePC
  BY ClientsStayDone
<1>5. TypeOK' /\ MutualExclusion'
  BY TypeOKStep, MutualExclusionStep DEF Next
<1>6. \A d \in Clients : cpc[c] \in CriticalPC /\ cpc[d] \in CriticalPC
                           => d = c
  BY DEF MutualExclusion, ClientsAt
<1>7. ppc' = ppc
  BY ClientStepMoves DEF ClientMove, printer
<1>8. ASSUME cpc[c] \notin {"advance", "store_id", "store_pages"}
      PROVE  RingInv'
  <2>1. /\ UNCHANGED <<ring, printer>>
        /\ \E to \in ClientPC :
             /\ cpc' = [cpc EXCEPT ![c] = to]
             /\ to \notin {"read_size", "store_id", "store_pages"}
             /\ to = "advance" => temp' = [temp EXCEPT ![c] = clientindex]
             /\ to # "advance" => temp' = temp
             /\ \/ csize' = csize /\ cpc[c] # "read_size"
                \/ csize' = [csize EXCEPT ![c] = Slots]
    BY <1>8 DEF ClientStep, ClientGoto, ClientPC, ReadSize, GetEmpty,
       WaitEmpty, WaitMutex, ReadClientIndex, AdvanceClientIndex, StoreID,
       StorePages, PostMutex, PostFull, TypeOK
  <2>2. Stored' = Stored /\ Allocated' = Allocated
    BY <1>1, <1>2, <1>8 DEF One
  <2>3. JobsInv'
    BY <1>4, <2>1, <2>2, JobsFrame DEF ring, printer
  <2>4. RingConsistent'
    BY <2>1, <2>2 DEF RingConsistent, Slot, ring
  <2>5. LocalsInv'
    BY <2>1, <2>2
    DEF LocalsInv, PrinterReadsSlot, Slot, TypeOK, ring, printer
  <2>6. QED BY <2>3, <2>4, <2>5
<1>9. ASSUME cpc[c] = "advance" PROVE RingInv'
  <2>1. /\ cpc' = [cpc EXCEPT ![c] = "store_id"]
        /\ clientindex' = IF clientindex = Slots - 1 THEN 0
                                                     ELSE clientindex + 1
        /\ UNCHANGED <<printerindex, arr, csize, temp, printer>>
    BY <1>9 DEF ClientStep, ClientGoto, ReadSize, GetEmpty, WaitEmpty,
       WaitMutex, ReadClientIndex, AdvanceClientIndex, StoreID, StorePages,
       PostMutex, PostFull, TypeOK
  <2>2. Stored' = Stored /\ Allocated' = Allocated + 1 /\ Allocated = Stored
    BY <1>1, <1>2, <1>3, <1>9 DEF One
  <2>3. Allocated + 1 <= Slots
    BY <1>2, <1>9, AllocatedBelow
  <2>4. JobsInv'
    BY <1>4, <2>1, <2>2, JobsFrame DEF printer
  <2>5. RingConsistent'
    BY <1>2, <2>1, <2>2, <2>3 DEF RingConsistent, Slot, TypeOK
  <2>6. /\ temp[c] = Slot(Stored)
        /\ Slot(Stored)' = Slot(Stored)
    BY <1>9, <2>1, <2>2 DEF LocalsInv, RingConsistent, Slot
  <2>7. \A d \in Clients : d # c =>
          cpc'[d] \notin {"advance", "store_id", "store_pages"}
    BY <1>6, <1>9, <2>1 DEF CriticalPC, TypeOK
  <2>8. cpc'[c] = "store_id"
    BY <2>1 DEF TypeOK
  <2>9. LocalsInv'
    BY <1>9, <2>1, <2>6, <2>7, <2>8
    DEF LocalsInv, PrinterReadsSlot, TypeOK, printer
  <2>10. QED BY <2>4, <2>5, <2>9
<1>10. ASSUME cpc[c] = "store_id" PROVE RingInv'
  <2>1. /\ cpc' = [cpc EXCEPT ![c] = "store_pages"]
        /\ arr' = [arr EXCEPT ![temp[c]] = c]
        /\ UNCHANGED <<clientindex, printerindex, csize, temp, printer>>
    BY <1>10 DEF ClientStep, ClientGoto, ReadSize, GetEmpty, WaitEmpty,
       WaitMutex, ReadClientIndex, AdvanceClientIndex, StoreID, StorePages,
       PostMutex, PostFull
  <2>2. /\ Stored' = Stored /\ Allocated' = Allocated
        /\ Stored + 1 <= Slots
        /\ temp[c] = Slot(Stored)
    BY <1>1, <1>2, <1>3, <1>10 DEF One, LocalsInv
  <2>3. \A i \in 0 .. Stored - 1 : /\ Slot(i) \in 0 .. Slots - 1
                                   /\ Slot(i) # temp[c]
    BY <1>2, <2>2, SlotRange, SlotInjective
  <2>4. \A i : Slot(i)' = Slot(i)
    BY <2>1 DEF Slot
  <2>5. \A s \in 0 .. Slots - 1 : s # temp[c] =>
          arr'[s] = arr[s] /\ arr'[s + Slots] = arr[s + Slots]
    BY <2>1 DEF TypeOK, Words
  <2>6. \A i \in 0 .. Stored - 1 : /\ JobIn(Slot(i))' = JobIn(Slot(i))
                                   /\ arr[Slot(i)]' = arr[Slot(i)]
    BY <2>3, <2>4, <2>5 DEF JobIn
  <2>7. JobsInv'
    BY <1>4, <1>7, <2>1, <2>2, <2>6 DEF JobsInv, JobOf, One, printer
  <2>8. RingConsistent'
    BY <2>1, <2>2, <2>4 DEF RingConsistent
  <2>9. PrinterReadsSlot => position = Slot(0) /\ Slot(0) # temp[c]
    <3>1. PrinterReadsSlot => position = Slot(0)
      BY DEF LocalsInv, Slot, TypeOK
    <3>2. PrinterReadsSlot => 0 \in 0 .. Stored - 1
      BY <1>2 DEF PrinterReadsSlot, PrinterHasSlot
    <3>3. QED BY <2>3, <3>1, <3>2
  <2>10. PrinterReadsSlot => /\ arr'[position] = arr[position]
                             /\ arr'[position + Slots] = arr[position + Slots]
    BY <2>5, <2>9 DEF TypeOK
  <2>11. /\ cpc'[c] = "store_pages" /\ arr'[temp[c]] = c
         /\ \A d \in Clients : d # c =>
              cpc'[d] \notin {"advance", "store_id", "store_pages"}
    BY <1>6, <1>10, <2>1 DEF CriticalPC, TypeOK, Words
  <2>12. LocalsInv'
    BY <1>10, <2>1, <2>2, <2>4, <2>10, <2>11
    DEF LocalsInv, PrinterReadsSlot, TypeOK, printer
  <2>13. QED BY <2>7, <2>8, <2>12
<1>11. ASSUME cpc[c] = "store_pages" PROVE RingInv'
  <2>1. /\ cpc' = [cpc EXCEPT ![c] = "post_mutex"]
        /\ arr' = [arr EXCEPT ![temp[c] + csize[c]] = PagesOf[c]]
        /\ UNCHANGED <<clientindex, printerindex, csize, temp, printer>>
    BY <1>11 DEF ClientStep, ClientGoto, ReadSize, GetEmpty, WaitEmpty,
       WaitMutex, ReadClientIndex, AdvanceClientIndex, StoreID, StorePages,
       PostMutex, PostFull
  <2>2. /\ Stored' = Stored + 1 /\ Allocated' = Allocated
        /\ Stored + 1 <= Slots
        /\ temp[c] = Slot(Stored) /\ csize[c] = Slots /\ arr[temp[c]] = c
    BY <1>1, <1>2, <1>3, <1>11 DEF One, LocalsInv
  <2>3. \A i \in 0 .. Stored - 1 : /\ Slot(i) \in 0 .. Slots - 1
                                   /\ Slot(i) # temp[c]
    BY <1>2, <2>2, SlotRange, SlotInjective
  <2>4. \A i : Slot(i)' = Slot(i)
    BY <2>1 DEF Slot
  <2>5. /\ \A s \in 0 .. Slots - 1 : arr'[s] = arr[s]
        /\ \A s \in 0 .. Slots - 1 : s # temp[c] =>
             arr'[s + Slots] = arr[s + Slots]
        /\ arr'[temp[c] + Slots] = PagesOf[c]
    BY <2>1, <2>2 DEF TypeOK, Words
  <2>6. \A i \in 0 .. Stored - 1 : /\ JobIn(Slot(i))' = JobIn(Slot(i))
                                   /\ arr[Slot(i)]' = arr[Slot(i)]
    BY <2>3, <2>4, <2>5 DEF JobIn
  <2> PICK n \in Nat : n = Stored
    BY <1>2
  <2>7. /\ JobIn(Slot(n))' = JobOf(c)
        /\ arr[Slot(n)]' = c
    <3>1. temp[c] \in 0 .. Slots - 1
      BY DEF TypeOK
    <3>2. /\ arr'[temp[c]] = c
          /\ arr'[temp[c] + Slots] = PagesOf[c]
      BY <2>2, <2>5, <3>1
    <3>3. Slot(n)' = temp[c]
      BY <2>2, <2>4
    <3>4. QED BY <3>2, <3>3 DEF JobIn, JobOf
  <2>8. cpc'[c] \in DonePC /\ cpc[c] \notin DonePC
    BY <1>11, <2>1 DEF TypeOK, DonePC
  <2>9. RingConsistent'
    BY <2>1, <2>2, <2>4 DEF RingConsistent
  <2>10. PrinterReadsSlot => position = Slot(0) /\ Slot(0) # temp[c]
    <3>1. PrinterReadsSlot => position = Slot(0)
      BY DEF LocalsInv, Slot, TypeOK
    <3>2. PrinterReadsSlot => 0 \in 0 .. Stored - 1
      BY <1>2 DEF PrinterReadsSlot, PrinterHasSlot
    <3>3. QED BY <2>3, <3>1, <3>2
  <2>11. PrinterReadsSlot => /\ arr'[position] = arr[position]
                             /\ arr'[position + Slots] = arr[position + Slots]
    BY <2>5, <2>10 DEF TypeOK
  <2>12. \A d \in Clients : cpc'[d] \notin {"advance", "store_id",
                                            "store_pages"}
    BY <1>6, <1>11, <2>1 DEF CriticalPC, TypeOK
  <2>13. LocalsInv'
    BY <1>11, <2>1, <2>11, <2>12
    DEF LocalsInv, PrinterReadsSlot, TypeOK, printer
  <2>14. JobsInv'
    <3>1. One(ppc = "advance")' = One(ppc = "advance")
      BY <1>7 DEF One
    <3>2. \A i \in 0 .. n : i = n \/ i \in 0 .. n - 1
      OBVIOUS
    <3>3. Stored' - 1 = n
      BY <1>2, <2>2
    <3>4. \A i \in 0 .. n - 1 :
            \E d \in Clients : /\ cpc[d] \in DonePC /\ d # c
                              /\ JobIn(Slot(i)) = JobOf(d)
                              /\ arr[Slot(i)] = d
      BY <2>8 DEF JobsInv, JobIn, JobOf
    <3>5. \A i \in 0 .. n :
            \E d \in Clients : cpc'[d] \in DonePC
                               /\ JobIn(Slot(i))' = JobOf(d)
      BY <1>4, <2>6, <2>7, <2>8, <3>2, <3>4
    <3>6. \A i \in 0 .. n : arr[Slot(i)]' = IF i = n THEN c ELSE arr[Slot(i)]
      BY <2>6, <2>7, <3>2
    <3>7. \A i, j \in 0 .. n : arr[Slot(i)]' = arr[Slot(j)]' => i = j
      BY <3>2, <3>4, <3>6 DEF JobsInv
    <3>8. \A k \in DOMAIN printout : printout[k].id # c
      BY <2>8 DEF JobsInv, JobOf
    <3>9. \A i \in One(ppc = "advance") .. n, k \in DOMAIN printout :
            arr[Slot(i)]' # printout[k].id
      <4> SUFFICES ASSUME NEW i \in One(ppc = "advance") .. n,
                          NEW k \in DOMAIN printout
                   PROVE  arr[Slot(i)]' # printout[k].id
        OBVIOUS
      <4>1. i \in 0 .. n /\ (i = n \/ i \in One(ppc = "advance") .. n - 1)
        BY DEF One
      <4>2. QED BY <3>6, <3>8, <4>1 DEF JobsInv
    <3>10. \A k \in DOMAIN printout :
             \E d \in Clients : cpc'[d] \in DonePC /\ printout[k] = JobOf(d)
      BY <1>4 DEF JobsInv
    <3>11. printout' = printout
      BY <2>1 DEF printer
    <3>12. /\ \A i \in 0 .. Stored' - 1 :
                \E d \in Clients : cpc'[d] \in DonePC
                                   /\ JobIn(Slot(i))' = JobOf(d)
           /\ \A i, j \in 0 .. Stored' - 1 :
                arr[Slot(i)]' = arr[Slot(j)]' => i = j
           /\ \A i \in One(ppc = "advance")' .. Stored' - 1,
                 k \in DOMAIN printout : arr[Slot(i)]' # printout[k].id
      BY <3>1, <3>3, <3>5, <3>7, <3>9
    <3>13. \A k, l \in DOMAIN printout :
             printout[k].id = printout[l].id => k = l
      BY DEF JobsInv
    <3>14. QED
      BY <3>10, <3>11, <3>12, <3>13 DEF JobsInv, JobOf
  <2>15. QED BY <2>9, <2>13, <2>14
<1>12. QED
  BY <1>8, <1>9, <1>10, <1>11

LEMMA InvInit == Init => Inv
<1> SUFFICES ASSUME Init PROVE Inv
  OBVIOUS
<1>1. TypesAndMutex
  BY TypesAndMutexInit
<1>2. /\ ClientsAt({"wait_mutex", "read_index", "advance"}) = {}
      /\ ClientsAt({"post_mutex", "post_full"}) = {}
      /\ ClientsAt({"store_id", "store_pages"}) = {}
  BY DEF Init, ClientsAt
<1>3. Stored = 0 /\ Allocated = 0 /\ TokenConservation
  <2>1. /\ NumberAt({"wait_mutex", "read_index", "advance"}) = 0
        /\ NumberAt({"post_mutex", "post_full"}) = 0
        /\ NumberAt({"store_id", "store_pages"}) = 0
    BY <1>2, FS_EmptySet DEF NumberAt
  <2>2. /\ One(PrinterHasSlot) = 0 /\ One(ppc = "post_empty") = 0
        /\ empty = Slots /\ full = 0
    BY DEF Init, SharedInit, PrinterHasSlot, One
  <2>3. QED BY <2>1, <2>2 DEF TokenConservation, Accounted, Allocated, Stored
<1>4. RingConsistent
  BY <1>3 DEF Init, SharedInit, RingConsistent, Slot
<1>5. LocalsInv
  BY DEF Init, LocalsInv, PrinterReadsSlot
<1>6. JobsInv
  BY <1>3 DEF Init, LocalsInit, JobsInv, One
<1>7. QED BY <1>1, <1>3, <1>4, <1>5, <1>6 DEF Inv, RingInv

LEMMA InvStep == Inv /\ [Next]_vars => Inv'
<1> SUFFICES ASSUME Inv, [Next]_vars PROVE Inv'
  OBVIOUS
<1>1. TypesAndMutex' /\ TokenConservation'
  BY TypeOKStep, MutualExclusionStep, TokenConservationStep
  DEF Inv, TypesAndMutex
<1>2. RingInv'
  <2>1. CASE UNCHANGED vars
    <3>1. /\ Stored' = Stored /\ Allocated' = Allocated
      BY <2>1, NumberAtSame
      DEF vars, clients, semaphores, printer, Stored, Allocated,
          PrinterHasSlot
    <3>2. \A i : Slot(i)' = Slot(i) /\ JobIn(Slot(i))' = JobIn(Slot(i))
      BY <2>1 DEF vars, ring, Slot, JobIn
    <3>3. RingConsistent' /\ LocalsInv'
      BY <2>1, <3>1, <3>2
      DEF Inv, RingInv, vars, clients, semaphores, printer, ring,
          RingConsistent, LocalsInv, PrinterReadsSlot, Slot
    <3>4. JobsInv'
      BY <2>1, <3>1, JobsFrame DEF Inv, RingInv, vars, clients, printer, ring
    <3>5. QED BY <3>3, <3>4 DEF RingInv
  <2>2. QED BY <2>1, ClientRingStep, PrinterRingStep DEF Next
<1>3. QED BY <1>1, <1>2 DEF Inv

LEMMA Invariance == Spec => []Inv
  BY InvInit, InvStep, PTL DEF Spec

(* The distance of the two indices is what the semaphores count.           *)
THEOREM RingCorrect == Spec => []RingConsistent
<1>1. Inv => RingConsistent
  BY DEF Inv, RingInv
<1>2. QED BY Invariance, <1>1, PTL

(* No job that waits in the ring is overwritten, mixed with another or     *)
(* stored twice, whatever the number of clients and slots.                 *)
THEOREM StoredJobsCorrect == Spec => []StoredJobsWhole
<1>1. Inv => StoredJobsWhole
  BY DEF Inv, RingInv, JobsInv, StoredJobsWhole
<1>2. QED BY Invariance, <1>1, PTL

(* The printer prints only what clients asked for, and no job twice.       *)
THEOREM PrintedOnceCorrect == Spec => []PrintedOnce
<1>1. Inv => PrintedOnce
  BY DEF Inv, RingInv, JobsInv, PrintedOnce
<1>2. QED BY Invariance, <1>1, PTL

(* The slot under the printer is not written by any client.                *)
THEOREM SlotKeptCorrect == Spec => SlotKeptWhilePrinting
<1>1. Inv /\ [Next]_vars
        => [PrinterReadsSlot => JobIn(position)' = JobIn(position)]_vars
  <2> SUFFICES ASSUME Inv, [Next]_vars, PrinterReadsSlot
               PROVE  JobIn(position)' = JobIn(position)
    BY DEF vars
  <2>1. CASE UNCHANGED vars
    BY <2>1 DEF vars, ring, printer, JobIn
  <2>2. CASE PrinterStep
    BY <2>2 DEF PrinterReadsSlot, PrinterStep, PrinterGoto, PrinterWaitFull,
       PrinterWaitMutex, ReadPrinterIndex, ReadID, ReadPages,
       PrinterPostMutex, PrintMessage, AdvancePrinterIndex,
       PrinterPostEmpty, ring, JobIn
  <2>3. ASSUME NEW c \in Clients, ClientStep(c)
        PROVE  JobIn(position)' = JobIn(position)
    <3>1. CASE cpc[c] \notin {"store_id", "store_pages"}
      BY <2>3, <3>1 DEF ClientStep, ClientGoto, ReadSize, GetEmpty,
         WaitEmpty, WaitMutex, ReadClientIndex, AdvanceClientIndex, StoreID,
         StorePages, PostMutex, PostFull, ring, printer, JobIn
    <3>2. CASE cpc[c] \in {"store_id", "store_pages"}
      <4>1. /\ UNCHANGED position
            /\ \/ arr' = [arr EXCEPT ![temp[c]] = c]
               \/ arr' = [arr EXCEPT ![temp[c] + Slots] = PagesOf[c]]
        BY <2>3, <3>2 DEF Inv, RingInv, LocalsInv, ClientStep, ClientGoto,
           ReadSize, GetEmpty, WaitEmpty, WaitMutex, ReadClientIndex,
           AdvanceClientIndex, StoreID, StorePages, PostMutex, PostFull,
           printer
      <4>2. /\ temp[c] = Slot(Stored) /\ Stored + 1 = Allocated
            /\ Stored \in Nat /\ Stored >= 1 /\ Allocated <= Slots
        BY <3>2, CountTypes, AllocatedBound, StoringIsExclusive
        DEF Inv, RingInv, LocalsInv, TypesAndMutex, PrinterReadsSlot,
            PrinterHasSlot
      <4>3. position = Slot(0) /\ position \in 0 .. Slots - 1
            /\ temp[c] \in 0 .. Slots - 1
        BY DEF Inv, RingInv, LocalsInv, TypesAndMutex, TypeOK, Slot
      <4>4. position # temp[c]
        BY <4>2, <4>3, SlotInjective DEF Inv, TypesAndMutex
      <4>5. /\ arr \in [Words -> Int \cup Clients]
            /\ Words = 0 .. 2 * Slots - 1
        BY DEF Inv, TypesAndMutex, TypeOK, Words
      <4>6. /\ arr'[position] = arr[position]
            /\ arr'[position + Slots] = arr[position + Slots]
        BY <4>1, <4>3, <4>4, <4>5
      <4>7. QED BY <4>1, <4>6 DEF JobIn
    <3>3. QED BY <3>1, <3>2
  <2>4. QED BY <2>1, <2>2, <2>3 DEF Next
<1>2. QED BY Invariance, <1>1, PTL DEF Spec, SlotKeptWhilePrinting
=============================================================================
