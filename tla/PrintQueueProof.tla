-------------------------- MODULE PrintQueueProof --------------------------
(***************************************************************************)
(* The spooler of Spooler.tla implements the initial states and the steps  *)
(* of PrintQueue.tla, for any finite set of clients and any number of      *)
(* slots.  The invariant is Inv of SpoolerProof.tla with one more part.    *)
(***************************************************************************)
EXTENDS SpoolerProof, SequenceTheorems

USE ClientsAssumption, SlotsAssumption, PagesAssumption

(* The job of the client that is about to post mutex is in the last of the *)
(* stored slots: it is the one that Submit adds to the queue.              *)
LastInv == \A c \in Clients :
             cpc[c] = "post_mutex" => JobIn(Slot(Stored - 1)) = JobOf(c)

QueueInv == Inv /\ LastInv

-----------------------------------------------------------------------------
(* Occupied is Stored without the job that is stored but not yet posted.   *)

LEMMA OccupiedStored ==
  ASSUME TypeOK
  PROVE  /\ Occupied \in Nat
         /\ Stored = Occupied + NumberAt({"post_mutex"})
         /\ NumberAt({"post_mutex"}) \in Nat
         /\ PrinterHasSlot => Occupied >= 1
<1> DEFINE A == ClientsAt({"post_mutex"})
           B == ClientsAt({"post_full"})
<1>1. /\ IsFiniteSet(A) /\ IsFiniteSet(B)
      /\ Cardinality(A) \in Nat /\ Cardinality(B) \in Nat
  BY NumberAtType DEF NumberAt
<1>2. ClientsAt({"post_mutex", "post_full"}) = A \cup B /\ A \cap B = {}
  BY DEF ClientsAt
<1>3. Cardinality(A \cup B) = Cardinality(A) + Cardinality(B)
                                - Cardinality(A \cap B)
  BY <1>1, FS_Union
<1>4. Cardinality(A \cap B) = 0
  BY <1>2, FS_EmptySet
<1>5. full \in Nat /\ One(PrinterHasSlot) \in Nat
      /\ (PrinterHasSlot => One(PrinterHasSlot) = 1)
  BY DEF TypeOK, One
<1>6. /\ Stored = Cardinality(A \cup B) + full + One(PrinterHasSlot)
      /\ Occupied = Cardinality(B) + full + One(PrinterHasSlot)
      /\ NumberAt({"post_mutex"}) = Cardinality(A)
  BY <1>2 DEF Stored, Occupied, NumberAt
<1> HIDE DEF A, B
<1>7. QED BY <1>1, <1>3, <1>4, <1>5, <1>6

LEMMA OccupiedAtPostMutex ==
  ASSUME TypesAndMutex, NEW c \in Clients, cpc[c] = "post_mutex"
  PROVE  Stored = Occupied + 1
<1>1. ClientsAt({"post_mutex"}) = {c}
  BY DEF TypesAndMutex, MutualExclusion, ClientsAt, CriticalPC
<1>2. NumberAt({"post_mutex"}) = 1
  BY <1>1, FS_Singleton DEF NumberAt
<1>3. QED BY <1>2, OccupiedStored DEF TypesAndMutex

LEMMA OccupiedClient ==
  ASSUME TypeOK, NEW c \in Clients, ClientStep(c)
  PROVE  Occupied' = Occupied + One(cpc[c] = "post_mutex")
<1>1. PICK to \in ClientPC : ClientMove(c, to)
  BY ClientStepMoves
<1>2. /\ cpc \in [Clients -> ClientPC]
      /\ cpc' = [cpc EXCEPT ![c] = to]
  BY <1>1 DEF ClientMove, TypeOK
<1>3. /\ NumberAt({"post_full"})' = NumberAt({"post_full"})
                                      + Gain(cpc[c], to, {"post_full"})
      /\ NumberAt({"post_full"}) \in Nat
  BY <1>2, NumberAtMove
<1>4. /\ full \in Int /\ full' \in Int
      /\ full' - full + Gain(cpc[c], to, {"post_full"})
           = One(cpc[c] = "post_mutex")
  <2>1. full \in Int /\ full' \in Int
    BY <1>1 DEF ClientMove, TypeOK
  <2>2. CASE cpc[c] = "post_mutex"
    BY <1>1, <2>1, <2>2 DEF ClientMove, Gain, One
  <2>3. CASE cpc[c] = "post_full"
    BY <1>1, <2>1, <2>3 DEF ClientMove, Gain, One
  <2>4. CASE cpc[c] \notin {"post_mutex", "post_full"}
    <3>1. full' = full /\ Gain(cpc[c], to, {"post_full"}) = 0
      BY <1>1, <2>4 DEF ClientMove, Gain
    <3>2. QED BY <2>1, <2>4, <3>1 DEF One
  <2>5. QED BY <2>1, <2>2, <2>3, <2>4
<1>5. /\ ppc' = ppc
      /\ One(PrinterHasSlot) \in Int /\ One(cpc[c] = "post_mutex") \in Int
      /\ Gain(cpc[c], to, {"post_full"}) \in Int
  BY <1>1 DEF ClientMove, printer, One, Gain
<1>6. /\ Occupied = NumberAt({"post_full"}) + full + One(PrinterHasSlot)
      /\ Occupied' = NumberAt({"post_full"})' + full' + One(PrinterHasSlot)
  BY <1>5 DEF Occupied, PrinterHasSlot
<1>7. QED BY <1>3, <1>4, <1>5, <1>6

LEMMA OccupiedPrinter ==
  ASSUME TypeOK, PrinterStep
  PROVE  Occupied' = Occupied - One(ppc = "advance")
<1>1. PrinterMove
  BY PrinterStepMoves
<1>2. UNCHANGED cpc
  BY <1>1 DEF PrinterMove
<1>3. /\ NumberAt({"post_full"})' = NumberAt({"post_full"})
      /\ NumberAt({"post_mutex"})' = NumberAt({"post_mutex"})
      /\ NumberAt({"post_full"}) \in Nat
      /\ NumberAt({"post_mutex"}) \in Nat
  BY <1>2, NumberAtSame, NumberAtType
<1>4. /\ full \in Int /\ full' \in Int
      /\ One(PrinterHasSlot) \in Int /\ One(PrinterHasSlot)' \in Int
      /\ One(ppc = "advance") \in Int
  BY <1>1 DEF PrinterMove, TypeOK, One
<1>5. /\ Occupied = NumberAt({"post_full"}) + full + One(PrinterHasSlot)
      /\ Occupied' = NumberAt({"post_full"})' + full' + One(PrinterHasSlot)'
  BY DEF Occupied
<1>6. full' + One(PrinterHasSlot)' = full + One(PrinterHasSlot)
                                       - One(ppc = "advance")
  <2>1. /\ NumberAt({"post_mutex", "post_full"})'
             = NumberAt({"post_mutex", "post_full"})
        /\ NumberAt({"post_mutex", "post_full"}) \in Nat
    BY <1>2, NumberAtSame, NumberAtType
  <2>2. /\ Stored = NumberAt({"post_mutex", "post_full"}) + full
                      + One(PrinterHasSlot)
        /\ Stored' = NumberAt({"post_mutex", "post_full"})' + full'
                       + One(PrinterHasSlot)'
        /\ Stored' = Stored - One(ppc = "advance")
    BY PrinterCounts DEF Stored
  <2>3. QED BY <1>4, <2>1, <2>2
<1>7. QED BY <1>3, <1>4, <1>5, <1>6

-----------------------------------------------------------------------------
(* What a step does to the stored jobs.                                    *)

LEMMA ClientKeepsJobs ==
  ASSUME Inv, NEW c \in Clients, ClientStep(c)
  PROVE  /\ UNCHANGED <<printerindex, printer>>
         /\ cpc[c] \notin {"store_id", "store_pages"} => arr' = arr
         /\ cpc[c] = "store_pages" => JobIn(Slot(Stored - 1))' = JobOf(c)
         /\ \A i \in 0 .. Stored - 1 : JobIn(Slot(i))' = JobIn(Slot(i))
<1> USE DEF Inv, TypesAndMutex, RingInv
<1>1. /\ UNCHANGED <<printerindex, printer>>
      /\ cpc[c] \notin {"store_id", "store_pages"} => arr' = arr
      /\ cpc[c] = "store_id" => arr' = [arr EXCEPT ![temp[c]] = c]
      /\ cpc[c] = "store_pages" =>
           arr' = [arr EXCEPT ![temp[c] + Slots] = PagesOf[c]]
  BY DEF LocalsInv, ClientStep, ClientGoto, ReadSize, GetEmpty, WaitEmpty,
     WaitMutex, ReadClientIndex, AdvanceClientIndex, StoreID, StorePages,
     PostMutex, PostFull, ring, printer
<1>2. \A i : Slot(i)' = Slot(i)
  BY <1>1 DEF Slot
<1>3. CASE cpc[c] \notin {"store_id", "store_pages"}
  BY <1>1, <1>2, <1>3 DEF JobIn
<1>4. CASE cpc[c] \in {"store_id", "store_pages"}
  <2>1. /\ temp[c] = Slot(Stored) /\ temp[c] \in 0 .. Slots - 1
        /\ Stored + 1 = Allocated /\ Allocated <= Slots /\ Stored \in Nat
    BY <1>4, CountTypes, AllocatedBound, StoringIsExclusive
    DEF LocalsInv, TypeOK
  <2>2. \A i \in 0 .. Stored - 1 : /\ Slot(i) \in 0 .. Slots - 1
                                   /\ Slot(i) # temp[c]
    BY <2>1, SlotRange, SlotInjective
  <2>3. \A s \in 0 .. Slots - 1 : s # temp[c] =>
          arr'[s] = arr[s] /\ arr'[s + Slots] = arr[s + Slots]
    <3>1. CASE cpc[c] = "store_id"
      BY <1>1, <2>1, <3>1 DEF TypeOK, Words
    <3>2. CASE cpc[c] = "store_pages"
      BY <1>1, <2>1, <3>2 DEF TypeOK, Words
    <3>3. QED BY <1>4, <3>1, <3>2
  <2>4. \A i \in 0 .. Stored - 1 : JobIn(Slot(i))' = JobIn(Slot(i))
    BY <1>2, <2>2, <2>3 DEF JobIn
  <2>5. cpc[c] = "store_pages" => JobIn(Slot(Stored - 1))' = JobOf(c)
    <3> SUFFICES ASSUME cpc[c] = "store_pages"
                 PROVE  JobIn(Slot(Stored - 1))' = JobOf(c)
      OBVIOUS
    <3>1. arr[temp[c]] = c
      BY DEF LocalsInv
    <3>2. arr'[temp[c]] = c /\ arr'[temp[c] + Slots] = PagesOf[c]
      <4>1. temp[c] \in Words /\ temp[c] + Slots \in Words
        BY <2>1 DEF Words
      <4>2. temp[c] # temp[c] + Slots
        BY <2>1
      <4>3. DOMAIN arr = Words
        BY DEF TypeOK
      <4>4. arr' = [arr EXCEPT ![temp[c] + Slots] = PagesOf[c]]
        BY <1>1
      <4>5. QED BY <3>1, <4>1, <4>2, <4>3, <4>4, Zenon
    <3>3. Stored' = Stored + 1
      BY ClientCounts DEF One
    <3>4. Stored' - 1 = Stored
      BY <2>1, <3>3
    <3>5. Slot(Stored - 1)' = temp[c]
      BY <1>1, <2>1, <3>4 DEF Slot
    <3>6. QED BY <3>2, <3>5 DEF JobIn, JobOf
  <2>6. QED BY <1>1, <1>4, <2>4, <2>5
<1>5. QED BY <1>3, <1>4, <1>1

LEMMA LastInvStep == QueueInv /\ [Next]_vars => LastInv'
<1> SUFFICES ASSUME QueueInv, [Next]_vars PROVE LastInv'
  OBVIOUS
<1> USE DEF QueueInv
<1>1. /\ TypesAndMutex /\ TypeOK /\ Stored \in Nat /\ Stored <= Slots
  BY CountTypes, AllocatedBound DEF Inv, TypesAndMutex
<1>2. ASSUME NEW c \in Clients, ClientStep(c) PROVE LastInv'
  <2> SUFFICES ASSUME NEW d \in Clients, cpc'[d] = "post_mutex"
               PROVE  JobIn(Slot(Stored - 1))' = JobOf(d)
    BY DEF LastInv, JobOf
  <2>1. PICK to \in ClientPC : ClientMove(c, to)
    BY <1>2, ClientStepMoves
  <2>2. CASE d = c
    <3>1. cpc[c] = "store_pages"
      BY <1>1, <2>1, <2>2 DEF ClientMove, TypeOK
    <3>2. QED BY <1>2, <2>2, <3>1, ClientKeepsJobs
  <2>3. CASE d # c
    <3>1. cpc[d] = "post_mutex" /\ cpc[c] \notin CriticalPC
      BY <1>1, <2>1, <2>3
      DEF ClientMove, TypeOK, TypesAndMutex, MutualExclusion, ClientsAt,
          CriticalPC
    <3>2. Stored' = Stored /\ UNCHANGED <<arr, printerindex>>
      BY <1>1, <1>2, <3>1, ClientCounts, ClientKeepsJobs
      DEF One, CriticalPC
    <3>3. JobIn(Slot(Stored - 1))' = JobIn(Slot(Stored - 1))
      BY <3>2 DEF JobIn, Slot
    <3>4. QED BY <3>1, <3>3 DEF LastInv
  <2>4. QED BY <2>2, <2>3
<1>3. ASSUME PrinterStep PROVE LastInv'
  <2> SUFFICES ASSUME NEW d \in Clients, cpc'[d] = "post_mutex"
               PROVE  JobIn(Slot(Stored - 1))' = JobOf(d)
    BY DEF LastInv, JobOf
  <2>1. cpc[d] = "post_mutex" /\ JobIn(Slot(Stored - 1)) = JobOf(d)
    BY <1>3, PrinterStepMoves DEF PrinterMove, LastInv
  <2>2. Stored' = Stored - One(ppc = "advance")
    BY <1>1, <1>3, PrinterCounts
  <2>3. CASE ppc # "advance"
    <3>1. UNCHANGED <<arr, printerindex>>
      BY <1>3, <2>3 DEF PrinterStep, PrinterGoto, PrinterWaitFull,
         PrinterWaitMutex, ReadPrinterIndex, ReadID, ReadPages,
         PrinterPostMutex, PrintMessage, AdvancePrinterIndex,
         PrinterPostEmpty, ring
    <3>2. Stored' = Stored
      BY <1>1, <2>2, <2>3 DEF One
    <3>3. JobIn(Slot(Stored - 1))' = JobIn(Slot(Stored - 1))
      BY <3>1, <3>2 DEF JobIn, Slot
    <3>4. QED BY <2>1, <3>3
  <2>4. CASE ppc = "advance"
    <3>1. AdvancePrinterIndex /\ arr' = arr
      BY <1>3, <2>4 DEF PrinterStep, PrinterGoto, PrinterWaitFull,
         PrinterWaitMutex, ReadPrinterIndex, ReadID, ReadPages,
         PrinterPostMutex, PrintMessage, AdvancePrinterIndex,
         PrinterPostEmpty
    <3>2. Stored' = Stored - 1
      BY <2>2, <2>4 DEF One
    <3>3. Stored >= 2
      BY <1>1, <2>1, <2>4, OccupiedAtPostMutex, OccupiedStored
      DEF PrinterHasSlot
    <3> DEFINE i == Stored - 2
    <3>4. /\ i \in 0 .. Slots - 1 /\ i + 1 = Stored - 1
          /\ i = Stored' - 1
      BY <1>1, <3>2, <3>3
    <3>5. Slot(Stored - 1)' = Slot(Stored - 1)
      BY <1>1, <3>1, <3>2, <3>4 DEF Slot, AdvancePrinterIndex, TypeOK
    <3>6. QED BY <2>1, <3>1, <3>5 DEF JobIn
  <2>5. QED BY <2>3, <2>4
<1>4. CASE UNCHANGED vars
  <2>1. Stored' = Stored
    BY <1>4, NumberAtSame
    DEF vars, clients, semaphores, printer, Stored, PrinterHasSlot
  <2>2. QED
    BY <1>4, <2>1
    DEF vars, clients, ring, LastInv, JobIn, Slot, JobOf
<1>5. QED BY <1>2, <1>3, <1>4 DEF Next

LEMMA QueueInvariance == Spec => []QueueInv
<1>1. Init => QueueInv
  BY InvInit DEF QueueInv, LastInv, Init
<1>2. QueueInv /\ [Next]_vars => QueueInv'
  BY InvStep, LastInvStep DEF QueueInv
<1>3. QED BY <1>1, <1>2, PTL DEF Spec

-----------------------------------------------------------------------------
(* The queue the shared memory stands for.                                 *)

Jobs == [i \in 1 .. Occupied |-> JobIn(Slot(i - 1))]

JobRecords == [id : Int \cup Clients, pages : Int \cup Clients]

JobsTyped == /\ Jobs \in Seq(JobRecords) /\ Len(Jobs) = Occupied
             /\ Occupied \in Nat /\ Stored \in Nat
             /\ Occupied <= Stored /\ Stored <= Slots
             /\ \A i \in 1 .. Occupied : Jobs[i] = JobIn(Slot(i - 1))

LEMMA JobsType == Inv => JobsTyped
<1> SUFFICES ASSUME Inv PROVE JobsTyped
  OBVIOUS
<1>1. /\ Occupied \in Nat /\ Stored \in Nat
      /\ Occupied <= Stored /\ Stored <= Slots
  BY CountTypes, AllocatedBound, OccupiedStored DEF Inv, TypesAndMutex
<1>2. \A i \in 1 .. Occupied : JobIn(Slot(i - 1)) \in JobRecords
  <2> SUFFICES ASSUME NEW i \in 1 .. Occupied
               PROVE  JobIn(Slot(i - 1)) \in JobRecords
    OBVIOUS
  <2>1. Slot(i - 1) \in 0 .. Slots - 1
    BY <1>1, SlotRange DEF Inv, TypesAndMutex
  <2>2. QED
    BY <2>1 DEF JobIn, JobRecords, Inv, TypesAndMutex, TypeOK, Words
<1>3. Jobs \in [1 .. Occupied -> JobRecords]
  BY <1>2 DEF Jobs
<1>4. QED BY <1>1, <1>3 DEF JobsTyped, Jobs

LEMMA AppendIs ==
  ASSUME NEW S, NEW s \in Seq(S), NEW t \in Seq(S), Len(t) = Len(s) + 1,
         \A i \in 1 .. Len(s) : t[i] = s[i]
  PROVE  t = Append(s, t[Len(s) + 1])
<1> DEFINE a == Append(s, t[Len(s) + 1])
<1>1. Len(s) \in Nat /\ t[Len(s) + 1] \in S
  BY ElementOfSeq, LenProperties
<1>2. a \in Seq(S) /\ Len(a) = Len(t)
      /\ \A i \in 1 .. Len(t) : a[i] = t[i]
  BY <1>1
<1> HIDE DEF a
<1>3. t = a
  BY <1>2, SeqEqual
<1>4. QED BY <1>3 DEF a

LEMMA TailIs ==
  ASSUME NEW S, NEW s \in Seq(S), NEW t \in Seq(S), s # <<>>,
         Len(t) = Len(s) - 1, \A i \in 1 .. Len(t) : t[i] = s[i + 1]
  PROVE  t = Tail(s)
<1>1. Tail(s) \in Seq(S) /\ Len(Tail(s)) = Len(t)
      /\ \A i \in 1 .. Len(t) : Tail(s)[i] = t[i]
  BY HeadTailProperties
<1>2. QED BY <1>1, SeqEqual

LEMMA QueueSame ==
  ASSUME Inv, Inv', Occupied' = Occupied,
         \A i \in 0 .. Stored - 1 : JobIn(Slot(i))' = JobIn(Slot(i))
  PROVE  Jobs' = Jobs
<1>1. \A i \in 1 .. Occupied : i - 1 \in 0 .. Stored - 1
  BY JobsType DEF JobsTyped
<1>2. QED BY <1>1 DEF Jobs

LEMMA SubmitStep ==
  ASSUME QueueInv, QueueInv', NEW c \in Clients, ClientStep(c),
         cpc[c] = "post_mutex"
  PROVE  Queue!Submit(c)
<1> USE DEF QueueInv
<1>1. PostMutex(c)
  BY DEF ClientStep, ClientGoto, ReadSize, GetEmpty, WaitEmpty, WaitMutex,
     ReadClientIndex, AdvanceClientIndex, StoreID, StorePages, PostMutex,
     PostFull
<1>2. /\ cpc' = [cpc EXCEPT ![c] = "post_full"]
      /\ UNCHANGED <<ring, printer>>
      /\ cpc \in [Clients -> ClientPC]
  BY <1>1 DEF PostMutex, ClientGoto, Inv, TypesAndMutex, TypeOK
<1>3. /\ Occupied' = Occupied + 1 /\ Stored = Occupied + 1
      /\ Stored' = Stored
  BY OccupiedClient, OccupiedAtPostMutex, ClientCounts, CountTypes
  DEF Inv, TypesAndMutex, One
<1>4. /\ Jobs \in Seq(JobRecords) /\ Jobs' \in Seq(JobRecords)
      /\ Len(Jobs) = Occupied /\ Len(Jobs') = Occupied'
      /\ Occupied \in Nat /\ Stored <= Slots
      /\ \A i \in 1 .. Occupied : Jobs[i] = JobIn(Slot(i - 1))
      /\ \A i \in 1 .. Occupied + 1 : Jobs'[i] = JobIn(Slot(i - 1))
  <2>1. \A i : JobIn(Slot(i))' = JobIn(Slot(i))
    BY <1>2 DEF JobIn, Slot, ring
  <2>2. \A i \in 1 .. Occupied' : Jobs'[i] = JobIn(Slot(i - 1))'
    BY DEF Jobs
  <2>3. JobsTyped'
    BY JobsType, PTL
  <2>4. QED BY <1>3, <2>1, <2>2, <2>3, JobsType DEF JobsTyped
<1>5. Jobs'[Occupied + 1] = JobOf(c)
  <2>1. Occupied = Stored - 1 /\ (Occupied + 1) - 1 = Occupied
    BY <1>3, <1>4
  <2>2. JobIn(Slot(Occupied)) = JobOf(c)
    BY <2>1 DEF LastInv
  <2>3. QED BY <1>4, <2>1, <2>2
<1>6. Jobs' = Append(Jobs, JobOf(c))
  BY <1>3, <1>4, <1>5, AppendIs
<1>7. /\ c \in Clients \ ClientsAt({"post_full", "exited"})
      /\ (Clients \ ClientsAt({"post_full", "exited"}))'
           = (Clients \ ClientsAt({"post_full", "exited"})) \ {c}
  BY <1>2 DEF ClientsAt
<1>8. (ppc = "advance")' = (ppc = "advance") /\ printout' = printout
  BY <1>2 DEF printer
<1>9. Len(Jobs) < Slots
  BY <1>3, <1>4
<1>10. QED BY <1>6, <1>7, <1>8, <1>9 DEF Queue!Submit, Queue!Job, JobOf, Jobs

LEMMA StartStep ==
  ASSUME QueueInv, QueueInv', PrinterStep, ppc = "print"
  PROVE  Queue!StartPrinting
<1> USE DEF QueueInv
<1>1. /\ UNCHANGED <<ring, clients>>
      /\ ppc' = "advance"
      /\ printout' = Append(printout, [id |-> jobID, pages |-> jobpages])
  BY DEF PrinterStep, PrinterGoto, PrinterWaitFull, PrinterWaitMutex,
     ReadPrinterIndex, ReadID, ReadPages, PrinterPostMutex, PrintMessage,
     AdvancePrinterIndex, PrinterPostEmpty
<1>2. Occupied' = Occupied /\ Occupied >= 1
  BY OccupiedPrinter, OccupiedStored
  DEF Inv, TypesAndMutex, One, PrinterHasSlot
<1>3. Jobs' = Jobs
  <2>1. \A i : JobIn(Slot(i))' = JobIn(Slot(i))
    BY <1>1 DEF JobIn, Slot, ring
  <2>2. QED BY <1>2, <2>1, QueueSame
<1>4. [id |-> jobID, pages |-> jobpages] = JobIn(Slot(0))
  BY DEF Inv, RingInv, LocalsInv, TypesAndMutex, TypeOK, PrinterReadsSlot,
     Slot, JobIn
<1>5. Jobs # <<>> /\ Head(Jobs) = JobIn(Slot(0))
  <2>1. Jobs[1] = JobIn(Slot(0)) /\ Len(Jobs) >= 1
    BY <1>2, JobsType DEF JobsTyped
  <2>2. QED BY <2>1, JobsType DEF JobsTyped
<1>6. (Clients \ ClientsAt({"post_full", "exited"}))'
        = Clients \ ClientsAt({"post_full", "exited"})
  BY <1>1 DEF clients, ClientsAt
<1>7. QED
  BY <1>1, <1>3, <1>4, <1>5, <1>6 DEF Queue!StartPrinting, Jobs

LEMMA FinishStep ==
  ASSUME QueueInv, QueueInv', PrinterStep, ppc = "advance"
  PROVE  Queue!FinishPrinting
<1> USE DEF QueueInv
<1>1. /\ AdvancePrinterIndex /\ ppc' = "post_empty"
      /\ UNCHANGED <<arr, clients, printout>>
  BY DEF PrinterStep, PrinterGoto, PrinterWaitFull, PrinterWaitMutex,
     ReadPrinterIndex, ReadID, ReadPages, PrinterPostMutex, PrintMessage,
     AdvancePrinterIndex, PrinterPostEmpty
<1>2. Occupied' = Occupied - 1 /\ Occupied >= 1
  BY OccupiedPrinter, OccupiedStored
  DEF Inv, TypesAndMutex, One, PrinterHasSlot
<1>3. /\ Jobs \in Seq(JobRecords) /\ Jobs' \in Seq(JobRecords)
      /\ Len(Jobs) = Occupied /\ Len(Jobs') = Len(Jobs) - 1
      /\ Occupied \in Nat /\ Occupied <= Slots /\ Jobs # <<>>
      /\ \A i \in 1 .. Occupied : Jobs[i] = JobIn(Slot(i - 1))
      /\ \A i \in 1 .. Occupied - 1 : Jobs'[i] = JobIn(Slot(i - 1))'
  <2>1. JobsTyped'
    BY JobsType, PTL
  <2>2. \A i \in 1 .. Occupied' : Jobs'[i] = JobIn(Slot(i - 1))'
    BY DEF Jobs
  <2>3. QED BY <1>2, <2>1, <2>2, JobsType DEF JobsTyped
<1>4. \A i \in 1 .. Occupied - 1 : Jobs'[i] = Jobs[i + 1]
  <2> SUFFICES ASSUME NEW i \in 1 .. Occupied - 1
               PROVE  Jobs'[i] = Jobs[i + 1]
    OBVIOUS
  <2>1. /\ i - 1 \in 0 .. Slots - 1 /\ (i - 1) + 1 = (i + 1) - 1
        /\ i + 1 \in 1 .. Occupied
    BY <1>3
  <2>2. Slot(i - 1)' = Slot((i + 1) - 1)
    BY <1>1, <2>1, SlotShift DEF Inv, TypesAndMutex
  <2>3. JobIn(Slot(i - 1))' = JobIn(Slot((i + 1) - 1))
    BY <1>1, <2>2 DEF JobIn
  <2>4. QED BY <1>3, <2>1, <2>3
<1>5. Jobs' = Tail(Jobs)
  BY <1>3, <1>4, TailIs
<1>6. (Clients \ ClientsAt({"post_full", "exited"}))'
        = Clients \ ClientsAt({"post_full", "exited"})
  BY <1>1 DEF clients, ClientsAt
<1>7. QED BY <1>1, <1>5, <1>6 DEF Queue!FinishPrinting, Jobs

LEMMA QueueInit == Init => Queue!Init
<1> SUFFICES ASSUME Init PROVE Queue!Init
  OBVIOUS
<1>1. ClientsAt({"post_full", "exited"}) = {} /\ ClientsAt({"post_full"}) = {}
  BY DEF Init, ClientsAt
<1>2. Occupied = 0
  BY <1>1, FS_EmptySet
  DEF Init, SharedInit, Occupied, NumberAt, PrinterHasSlot, One
<1>3. Jobs = <<>>
  BY <1>2 DEF Jobs
<1>4. QED
  BY <1>1, <1>3 DEF Init, LocalsInit, Queue!Init, Jobs

(* All other steps stutter: only sem_post(&mutex) of a client, the message *)
(* and the move of printerindex are seen by users of the queue.            *)
LEMMA QueueStutters ==
  ASSUME QueueInv, QueueInv', [Next]_vars,
         PrinterStep => ppc \notin {"print", "advance"},
         \A c \in Clients : ClientStep(c) => cpc[c] # "post_mutex"
  PROVE  UNCHANGED Queue!vars
<1> DEFINE Pending == Clients \ ClientsAt({"post_full", "exited"})
<1> USE DEF QueueInv
<1>1. ASSUME NEW c \in Clients, ClientStep(c) PROVE UNCHANGED Queue!vars
  <2>1. /\ Occupied' = Occupied
        /\ \A i \in 0 .. Stored - 1 : JobIn(Slot(i))' = JobIn(Slot(i))
        /\ UNCHANGED printer
    BY <1>1, OccupiedClient, OccupiedStored, ClientKeepsJobs
    DEF One, Inv, TypesAndMutex
  <2>2. Jobs' = Jobs
    BY <2>1, QueueSame
  <2>3. PICK to \in ClientPC : ClientMove(c, to)
    BY <1>1, ClientStepMoves
  <2>4. cpc[c] # "post_mutex"
    BY <1>1
  <2>5. Pending' = Pending
    BY <2>3, <2>4 DEF ClientMove, ClientsAt, Inv, TypesAndMutex, TypeOK
  <2>6. QED BY <2>1, <2>2, <2>5 DEF Queue!vars, Jobs, printer
<1>2. ASSUME PrinterStep PROVE UNCHANGED Queue!vars
  <2>1. /\ UNCHANGED <<ring, clients, printout>>
        /\ ppc # "advance" /\ ppc' # "advance"
    BY <1>2 DEF PrinterStep, PrinterGoto, PrinterWaitFull, PrinterWaitMutex,
       ReadPrinterIndex, ReadID, ReadPages, PrinterPostMutex, PrintMessage,
       AdvancePrinterIndex, PrinterPostEmpty, ring
  <2>2. Occupied' = Occupied
    BY <1>2, <2>1, OccupiedPrinter, OccupiedStored
    DEF One, Inv, TypesAndMutex
  <2>3. \A i : JobIn(Slot(i))' = JobIn(Slot(i))
    BY <2>1 DEF JobIn, Slot, ring
  <2>4. Jobs' = Jobs
    BY <2>2, <2>3, QueueSame
  <2>5. Pending' = Pending
    BY <2>1 DEF clients, ClientsAt
  <2>6. QED BY <2>1, <2>4, <2>5 DEF Queue!vars, Jobs
<1>3. CASE UNCHANGED vars
  <2>1. Occupied' = Occupied
    BY <1>3, NumberAtSame
    DEF vars, clients, semaphores, printer, Occupied, PrinterHasSlot
  <2>2. \A i : JobIn(Slot(i))' = JobIn(Slot(i))
    BY <1>3 DEF JobIn, Slot, ring, vars
  <2>3. Jobs' = Jobs
    BY <2>1, <2>2, QueueSame
  <2>4. Pending' = Pending
    BY <1>3 DEF vars, clients, ClientsAt
  <2>5. QED BY <1>3, <2>3, <2>4 DEF Queue!vars, Jobs, vars, printer
<1>4. QED BY <1>1, <1>2, <1>3 DEF Next

LEMMA QueueStep ==
  QueueInv /\ QueueInv' /\ [Next]_vars => [Queue!Next]_(Queue!vars)
<1> SUFFICES ASSUME QueueInv, QueueInv', [Next]_vars
             PROVE  [Queue!Next]_(Queue!vars)
  OBVIOUS
<1>1. CASE \E c \in Clients : ClientStep(c) /\ cpc[c] = "post_mutex"
  BY <1>1, SubmitStep DEF Queue!Next
<1>2. CASE PrinterStep /\ ppc = "print"
  BY <1>2, StartStep DEF Queue!Next
<1>3. CASE PrinterStep /\ ppc = "advance"
  BY <1>3, FinishStep DEF Queue!Next
<1>4. CASE /\ \A c \in Clients : ClientStep(c) => cpc[c] # "post_mutex"
           /\ PrinterStep => ppc \notin {"print", "advance"}
  BY <1>4, QueueStutters
<1>5. QED BY <1>1, <1>2, <1>3, <1>4

(* Whatever the number of clients and slots, users of the shared memory    *)
(* see a bounded FIFO queue: no job is lost, reordered or printed before   *)
(* an older one.  (That every job is printed in the end is the liveness    *)
(* part of RefinesPrintQueue.)                                             *)
THEOREM QueueSafetyCorrect == Spec => Queue!Init /\ [][Queue!Next]_(Queue!vars)
  BY QueueInvariance, QueueInit, QueueStep, PTL DEF Spec
=============================================================================
