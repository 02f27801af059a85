------------------------- MODULE SpoolerCrashProof -------------------------
(***************************************************************************)
(* The cost of killed clients, for any finite set of clients and any       *)
(* number of slots.                                                        *)
(***************************************************************************)
EXTENDS SpoolerCrash, SpoolerProof

USE ClientsAssumption, SlotsAssumption

CrashPC == ClientPC \cup {"killed"}

(* What the counts need: killed clients take no further step, so only the  *)
(* types of the counters and the range of cpc matter.                      *)
CountersInv == /\ cpc \in [Clients -> CrashPC]
               /\ empty \in Int
               /\ full \in Int

CrashInv == CountersInv /\ OneSlotPerDeath

LEMMA KilledCount == Cardinality(Killed) = NumberAt({"killed"})
<1>1. Killed = ClientsAt({"killed"})
  BY DEF Killed, ClientsAt
<1>2. QED BY <1>1 DEF NumberAt

LEMMA AccountedType ==
  ASSUME CountersInv
  PROVE  Accounted \in Int /\ NumberAt({"killed"}) \in Nat
<1>1. /\ NumberAt({"wait_mutex", "read_index", "advance"}) \in Nat
      /\ NumberAt({"post_mutex", "post_full"}) \in Nat
      /\ NumberAt({"store_id", "store_pages"}) \in Nat
      /\ NumberAt({"killed"}) \in Nat
  BY NumberAtType
<1>2. One(PrinterHasSlot) \in Int /\ One(ppc = "post_empty") \in Int
  BY DEF One
<1>3. QED BY <1>1, <1>2 DEF CountersInv, Accounted, Allocated, Stored

LEMMA CountersStep == CountersInv /\ [CrashNext]_vars => CountersInv'
<1> SUFFICES ASSUME CountersInv, [CrashNext]_vars PROVE CountersInv'
  OBVIOUS
<1> USE DEF CountersInv, CrashPC
<1>1. ASSUME NEW c \in Clients, ClientStep(c) PROVE CountersInv'
  <2>1. PICK to \in ClientPC : ClientMove(c, to)
    BY <1>1, ClientStepMoves
  <2>2. QED BY <2>1 DEF ClientMove
<1>2. ASSUME PrinterStep PROVE CountersInv'
  BY <1>2, PrinterStepMoves DEF PrinterMove
<1>3. ASSUME NEW c \in Clients, KillClient(c) PROVE CountersInv'
  BY <1>3 DEF KillClient, semaphores
<1>4. CASE UNCHANGED vars
  BY <1>4 DEF vars, semaphores, clients
<1>5. QED BY <1>1, <1>2, <1>3, <1>4 DEF CrashNext, Next

(* The steps of living clients and of the printer kill nobody.             *)
LEMMA NobodyDies ==
  ASSUME CountersInv, [Next]_vars
  PROVE  NumberAt({"killed"})' = NumberAt({"killed"})
<1>1. ASSUME NEW c \in Clients, ClientStep(c)
      PROVE  NumberAt({"killed"})' = NumberAt({"killed"})
  <2>1. PICK to \in ClientPC : ClientMove(c, to)
    BY <1>1, ClientStepMoves
  <2>2. /\ cpc' = [cpc EXCEPT ![c] = to]
        /\ to # "killed" /\ cpc[c] # "killed"
    BY <2>1 DEF ClientMove, ClientPC
  <2>3. ClientsAt({"killed"})' = ClientsAt({"killed"})
    BY <2>2 DEF ClientsAt, CountersInv
  <2>4. QED BY <2>3 DEF NumberAt
<1>2. CASE UNCHANGED cpc
  BY <1>2, NumberAtSame
<1>3. PrinterStep \/ UNCHANGED vars => UNCHANGED cpc
  BY PrinterStepMoves DEF PrinterMove, vars, clients
<1>4. QED BY <1>1, <1>2, <1>3 DEF Next

(* A death takes the client out of the set it is counted in, if any: every *)
(* program counter is in at most one of the three.                         *)
LEMMA DeathCosts ==
  ASSUME CountersInv, NEW c \in Clients, KillClient(c)
  PROVE  /\ NumberAt({"killed"})' = NumberAt({"killed"}) + 1
         /\ Accounted' \in {Accounted, Accounted - 1}
<1> DEFINE Promised == {"wait_mutex", "read_index", "advance"}
           Storing  == {"store_id", "store_pages"}
           Full     == {"post_mutex", "post_full"}
<1>1. /\ cpc' = [cpc EXCEPT ![c] = "killed"]
      /\ cpc[c] # "killed"
      /\ UNCHANGED <<empty, full, ppc>>
      /\ cpc \in [Clients -> CrashPC]
  BY DEF KillClient, semaphores, printer, CountersInv
<1>2. /\ NumberAt({"killed"})' = NumberAt({"killed"})
                                   + Gain(cpc[c], "killed", {"killed"})
      /\ Gain(cpc[c], "killed", {"killed"}) = 1
  BY <1>1, NumberAtMove DEF Gain
<1>3. /\ NumberAt(Promised)' = NumberAt(Promised)
                                 + Gain(cpc[c], "killed", Promised)
      /\ NumberAt(Promised) \in Nat
  BY <1>1, NumberAtMove
<1>4. /\ NumberAt(Storing)' = NumberAt(Storing)
                                + Gain(cpc[c], "killed", Storing)
      /\ NumberAt(Storing) \in Nat
  BY <1>1, NumberAtMove
<1>5. /\ NumberAt(Full)' = NumberAt(Full) + Gain(cpc[c], "killed", Full)
      /\ NumberAt(Full) \in Nat
  BY <1>1, NumberAtMove
<1>6. \E p, s, f \in {-1, 0} : /\ p + s + f \in {-1, 0}
                              /\ Gain(cpc[c], "killed", Promised) = p
                              /\ Gain(cpc[c], "killed", Storing) = s
                              /\ Gain(cpc[c], "killed", Full) = f
  <2>1. CASE cpc[c] \in Promised BY <2>1 DEF Gain
  <2>2. CASE cpc[c] \in Storing BY <2>2 DEF Gain
  <2>3. CASE cpc[c] \in Full BY <2>3 DEF Gain
  <2>4. CASE cpc[c] \notin Promised \cup Storing \cup Full
    BY <2>4 DEF Gain
  <2>5. QED BY <2>1, <2>2, <2>3, <2>4
<1>7. /\ One(PrinterHasSlot) \in Int /\ One(ppc = "post_empty") \in Int
      /\ empty \in Int /\ full \in Int
  BY DEF One, CountersInv
<1>8. Accounted = empty + NumberAt(Promised)
                    + (NumberAt(Full) + full + One(PrinterHasSlot)
                       + NumberAt(Storing)) + One(ppc = "post_empty")
  BY DEF Accounted, Allocated, Stored
<1>9. Accounted' = empty + NumberAt(Promised)'
                     + (NumberAt(Full)' + full + One(PrinterHasSlot)
                        + NumberAt(Storing)') + One(ppc = "post_empty")
  BY <1>1 DEF Accounted, Allocated, Stored, PrinterHasSlot
<1> HIDE DEF Promised, Storing, Full
<1>10. QED
  BY <1>2, <1>3, <1>4, <1>5, <1>6, <1>7, <1>8, <1>9

LEMMA OneSlotPerDeathStep == CrashInv /\ [CrashNext]_vars => OneSlotPerDeath'
<1> SUFFICES ASSUME CrashInv, [CrashNext]_vars PROVE OneSlotPerDeath'
  OBVIOUS
<1>1. /\ Accounted \in Int /\ NumberAt({"killed"}) \in Nat
      /\ Accounted <= Slots /\ Accounted >= Slots - NumberAt({"killed"})
  BY AccountedType, KilledCount DEF CrashInv, OneSlotPerDeath
<1>2. Cardinality(Killed)' = NumberAt({"killed"})'
  BY DEF Killed, NumberAt, ClientsAt
<1>3. CASE [Next]_vars
  <2>1. Accounted' = Accounted
    BY <1>3, AccountedStep DEF CrashInv, CountersInv
  <2>2. NumberAt({"killed"})' = NumberAt({"killed"})
    BY <1>3, NobodyDies DEF CrashInv
  <2>3. QED BY <1>1, <1>2, <2>1, <2>2 DEF OneSlotPerDeath
<1>4. ASSUME NEW c \in Clients, KillClient(c) PROVE OneSlotPerDeath'
  <2>1. /\ NumberAt({"killed"})' = NumberAt({"killed"}) + 1
        /\ Accounted' \in {Accounted, Accounted - 1}
    BY <1>4, DeathCosts DEF CrashInv
  <2>2. QED BY <1>1, <1>2, <2>1 DEF OneSlotPerDeath
<1>5. QED BY <1>3, <1>4 DEF CrashNext

(* However many clients are killed, and wherever: each of them costs at    *)
(* most one slot, and the semaphores never account for more slots than the *)
(* ring of printer.c has.                                                  *)
THEOREM OneSlotPerDeathCorrect == CrashSpec => []OneSlotPerDeath
<1>1. Init => CrashInv
  <2> SUFFICES ASSUME Init PROVE CrashInv
    OBVIOUS
  <2>1. CountersInv
    <3>1. TypeOK
      BY TypesAndMutexInit DEF TypesAndMutex
    <3>2. QED BY <3>1 DEF TypeOK, CountersInv, CrashPC
  <2>2. Killed = {}
    BY DEF Init, Killed
  <2>3. Accounted = Slots
    BY InvInit DEF Inv, TokenConservation
  <2>4. Cardinality(Killed) = 0
    BY <2>2, FS_EmptySet
  <2>5. QED BY <2>1, <2>3, <2>4 DEF CrashInv, OneSlotPerDeath
<1>2. CrashInv /\ [CrashNext]_vars => CrashInv'
  BY CountersStep, OneSlotPerDeathStep DEF CrashInv
<1>3. CrashInv => OneSlotPerDeath
  BY DEF CrashInv
<1>4. QED BY <1>1, <1>2, <1>3, PTL DEF CrashSpec
=============================================================================
