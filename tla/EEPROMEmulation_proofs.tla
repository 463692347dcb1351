------------------------ MODULE EEPROMEmulation_proofs ------------------------
(***************************************************************************)
(* Proofs about EEPROMEmulation for every page size, byte width, set of     *)
(* requests and kind of power cut.                                          *)
(***************************************************************************)
EXTENDS EEPROMEmulation, FiniteSetTheorems, WellFoundedInduction, TLAPS

(* A non-empty set of naturals has a least element. *)
LEMMA MinIsMember ==
  ASSUME NEW S, S \subseteq Nat, S # {}
  PROVE  Min(S) \in S /\ \A y \in S : Min(S) <= y
<1>. DEFINE R == {ss \in Nat \X Nat : ss[1] < ss[2]}
<1>1. IsWellFoundedOn(R, Nat)
  BY NatLessThanWellFounded DEF OpToRel
<1>2. \A x, y \in Nat : y < x => <<y, x>> \in R
  OBVIOUS
<1>. HIDE DEF R
<1>3. \E x \in S : \A y \in S : ~(<<y, x>> \in R)
  BY <1>1, WFMin
<1>4. PICK x \in S : \A y \in S : ~(<<y, x>> \in R)
  BY <1>3
<1>5. ASSUME NEW y \in S  PROVE x <= y
  <2>1. ~(y < x)
    BY <1>2, <1>4
  <2>. QED  BY <2>1
<1>. QED  BY <1>5 DEF Min

(* The larger of two naturals. *)
LEMMA MaxOfTwo ==
  ASSUME NEW a \in Nat, NEW b \in Nat
  PROVE  Max({a, b}) \in Nat /\ a <= Max({a, b}) /\ b <= Max({a, b})
<1>1. \E x \in {a, b} : \A y \in {a, b} : x >= y
  OBVIOUS
<1>. QED  BY <1>1 DEF Max

LEMMA LastSlotFact ==
  /\ LastSlot \in Nat
  /\ \A p \in Page : Slots[p] \in Nat /\ Slots[p] <= LastSlot
<1>1. Slots[1] \in Nat /\ Slots[2] \in Nat
  BY SlotsAssumption DEF Page
<1>. QED  BY <1>1, MaxOfTwo DEF LastSlot, Page

LEMMA AndFacts ==
  ASSUME NEW w \in {DataMax, LoMax, HiMax}, NEW x \in 0 .. w, NEW y \in 0 .. w
  PROVE  And(x, y) \in 0 .. w /\ And(x, y) <= y /\ And(w, x) = x
<1>1. w \in Nat
  BY WidthAssumption
<1>2. And(x, y) \in 0 .. y /\ And(w, x) = x
  BY AndAssumption
<1>. QED  BY <1>1, <1>2

LEMMA ProgramType ==
  ASSUME NEW c \in Record, NEW r \in Record, NEW k \in 0 .. 4
  PROVE  Program(c, r, k) \in Record
<1>1. /\ LoMax \in Nat \ {0} /\ HiMax \in Nat \ {0} /\ DataMax \in Nat
      /\ c.index \in 0 .. (LoMax + 1) * (HiMax + 1) - 1
      /\ r.index \in 0 .. (LoMax + 1) * (HiMax + 1) - 1
  BY WidthAssumption DEF Record, Index, EMPTY_INDEX, IndexCount
<1>. DEFINE L == LoMax + 1
<1>2. ASSUME NEW i \in 0 .. L * (HiMax + 1) - 1
      PROVE  i % L \in 0 .. LoMax /\ i \div L \in 0 .. HiMax
  BY <1>1
<1>3. ASSUME NEW lo \in 0 .. LoMax, NEW hi \in 0 .. HiMax
      PROVE  hi * L + lo \in Index
  BY <1>1 DEF Index, EMPTY_INDEX, IndexCount
<1>4. ProgramIndex(c.index, r.index, k) \in Index
  BY <1>1, <1>2, <1>3, AndFacts DEF ProgramIndex
<1>5. /\ c.data \in Byte /\ c.status \in Byte /\ r.data \in Byte /\ r.status \in Byte
      /\ \A x, y \in Byte : And(x, y) \in Byte
  BY AndFacts DEF Record, Byte
<1>. QED  BY <1>4, <1>5 DEF Program, Record

(* A non-empty bounded set of naturals has a greatest element. *)
LEMMA MaxIsMember ==
  ASSUME NEW n \in Nat, NEW S, S \subseteq 1 .. n, S # {}
  PROVE  Max(S) \in S /\ \A y \in S : Max(S) >= y
<1>. DEFINE T == {n - x : x \in S}
<1>0. ASSUME NEW x \in S
      PROVE  n - x \in Nat /\ n - x \in T
  <2>1. x \in 1 .. n
    OBVIOUS
  <2>2. n - x \in Nat
    BY <2>1
  <2>. QED  BY <2>2
<1>1. T \subseteq Nat /\ T # {}
  BY <1>0
<1>2. Min(T) \in T /\ \A y \in T : Min(T) <= y
  BY <1>1, MinIsMember
<1>3. PICK x \in S : Min(T) = n - x
  BY <1>2
<1>4. ASSUME NEW y \in S  PROVE x >= y
  <2>1. n - x <= n - y
    BY <1>0, <1>2, <1>3
  <2>. QED  BY <2>1
<1>. QED  BY <1>4 DEF Max

-----------------------------------------------------------------------------
(* Types of the operators.                                                  *)

LEMMA WidthFacts ==
  /\ DataMax \in Nat /\ FLASH_ERASED \in Byte /\ VALID \in Byte
  /\ IndexCount \in Nat \ {0} /\ EMPTY_INDEX \in Index
  /\ ErasedRecord \in Record
  /\ \A i \in Index, d \in Byte : RecordOf(i, d) \in Record
<1>1. DataMax \in Nat /\ FLASH_ERASED \in Byte /\ VALID \in Byte
  BY WidthAssumption DEF FLASH_ERASED, Byte, VALID
<1>2. IndexCount \in Nat \ {0}
  BY WidthAssumption DEF IndexCount
<1>3. EMPTY_INDEX \in Index
  BY <1>2 DEF EMPTY_INDEX, Index
<1>. QED  BY <1>1, <1>2, <1>3 DEF ErasedRecord, RecordOf, Record

LEMMA FirstFreeType ==
  ASSUME NEW p \in Page
  PROVE  FirstFree(p) \in 1 .. Slots[p] + 1
<1>1. Slots[p] \in Nat /\ Readable(p) \in SUBSET (1 .. Slots[p])
  BY LastSlotFact DEF Readable, Slot
<1>2. IsFiniteSet(1 .. Slots[p]) /\ Cardinality(1 .. Slots[p]) = Slots[p]
  <2>1. 1 \in Int /\ Slots[p] \in Int
    BY <1>1
  <2>2. /\ IsFiniteSet(1 .. Slots[p])
        /\ Cardinality(1 .. Slots[p]) = IF 1 > Slots[p] THEN 0 ELSE Slots[p] - 1 + 1
    BY <2>1, FS_Interval
  <2>3. (IF 1 > Slots[p] THEN 0 ELSE Slots[p] - 1 + 1) = Slots[p]
    BY <1>1
  <2>. QED  BY <2>2, <2>3
<1>3. IsFiniteSet(Readable(p)) /\ Cardinality(Readable(p)) <= Slots[p]
  BY <1>1, <1>2, FS_Subset
<1>4. Cardinality(Readable(p)) \in Nat
  BY <1>3, FS_CardinalityType
<1>. QED  BY <1>1, <1>3, <1>4 DEF FirstFree

LEMMA ChangedType ==
  ASSUME NEW r \in Requests
  PROVE  /\ Changed(r) \subseteq DOMAIN r.data
         /\ Cardinality(Changed(r)) \in Nat
<1>1. DOMAIN r.data = 1 .. Len(r.data) /\ Len(r.data) \in Nat
  BY RequestAssumption
<1>2. IsFiniteSet(1 .. Len(r.data))
  BY <1>1, FS_Interval
<1>3. Changed(r) \in SUBSET (DOMAIN r.data)
  BY DEF Changed
<1>. QED  BY <1>1, <1>2, <1>3, FS_Subset, FS_CardinalityType

LEMMA ValueType ==
  ASSUME TypeOK, NEW p \in Page, NEW i
  PROVE  Value(p, i) \in Byte
<1>1. CASE Hits(p, i) = {}
  BY <1>1, WidthFacts DEF Value
<1>2. CASE Hits(p, i) # {}
  <2>1. Slots[p] \in Nat /\ Hits(p, i) \subseteq 1 .. Slots[p]
    BY LastSlotFact DEF Hits, Readable, Slot
  <2>2. Max(Hits(p, i)) \in Slot(p)
    BY <1>2, <2>1, MaxIsMember DEF Slot
  <2>3. cell[p][Max(Hits(p, i))] \in Record
    BY <2>2 DEF TypeOK
  <2>. QED  BY <1>2, <2>3 DEF Value, Record, NoPage, Page
<1>. QED  BY <1>1, <1>2

(* What a record write writes is a record. *)
LEMMA RecordToWriteType ==
  ASSUME TypeOK, PhaseInv, pc \in {"append", "copy", "direct"}, todo # {}
  PROVE  /\ Min(todo) \in todo
         /\ RecordToWrite \in Record
         /\ WritePage \in Page
<1>1. WritePage \in Page /\ active \in Page
  BY DEF PhaseInv, WritePage, PutPCs, Page, Other
<1>2. CASE pc = "copy"
  <2>1. todo \subseteq Index /\ Index \subseteq Nat
    BY <1>2 DEF TypeOK, Index
  <2>2. Min(todo) \in todo
    BY <2>1, MinIsMember
  <2>. QED  BY <1>1, <1>2, <2>1, <2>2, ValueType, WidthFacts DEF RecordToWrite
<1>3. CASE pc # "copy"
  <2>1. todo \subseteq DOMAIN req.data
    BY <1>3 DEF TypeOK
  <2>2. req \in Requests
    BY <2>1 DEF TypeOK, NoRequest
  <2>3. DOMAIN req.data = 1 .. Len(req.data) /\ Len(req.data) \in Nat
    BY <2>2, RequestAssumption
  <2>4. Min(todo) \in todo
    BY <2>1, <2>3, MinIsMember
  <2>5. req.data[Min(todo)] \in Byte /\ req.begin \in Nat /\ Min(todo) \in Nat
    BY <2>1, <2>2, <2>3, <2>4, RequestAssumption DEF Index
  <2>6. IndexOf(req, Min(todo)) \in Index
    BY <2>1, <2>3, <2>4, <2>5, WidthFacts DEF IndexOf, Index, EMPTY_INDEX
  <2>. QED  BY <1>1, <1>3, <2>4, <2>5, <2>6, WidthFacts DEF RecordToWrite
<1>. QED  BY <1>2, <1>3

-----------------------------------------------------------------------------
(* The inductive invariant.                                                 *)

IInv == TypeOK /\ PhaseInv

LEMMA InitIInv == Init => IInv
<1>. SUFFICES ASSUME Init PROVE IInv
  OBVIOUS
<1>1. TypeOK
  BY WidthFacts, LastSlotFact
  DEF Init, TypeOK, Status, Page, NoPage, ErasedPage, NoRequest, Record
<1>2. PhaseInv
  BY DEF Init, PhaseInv, MarkFailed, PutPCs
<1>. QED  BY <1>1, <1>2 DEF IInv

(* Erasing a page keeps the types of the flash. *)
LEMMA EraseType ==
  ASSUME TypeOK, NEW p \in Page, ErasePage(p)
  PROVE  /\ status' \in [Page -> Status] /\ cell' = [q \in Page |-> cell'[q]]
         /\ \A q \in Page : cell'[q] \in [Slot(q) -> Record]
         /\ status'[p] = "ERASED" /\ \A s \in Slot(p) : cell'[p][s] = ErasedRecord
         /\ \A q \in Page \ {p} : status'[q] = status[q] /\ cell'[q] = cell[q]
BY WidthFacts DEF TypeOK, ErasePage, ErasedPage, Status

LEMMA BootIInv == IInv /\ Boot => IInv'
<1>. SUFFICES ASSUME IInv, Boot PROVE IInv'
  OBVIOUS
<1>. USE DEF IInv, Boot, flash, UpdateActivePage
<1>1. FirstActive' = FirstActive
  BY DEF FirstActive
<1>2. TypeOK'
  BY <1>1 DEF TypeOK, FirstActive, Other, Page, NoPage, ClearPCs
<1>3. PhaseInv'
  BY <1>1 DEF PhaseInv, MarkFailed, PutPCs, FirstActive, Other, Page, NoPage
<1>. QED  BY <1>2, <1>3

LEMMA ClearIInv == IInv /\ Clear => IInv'
BY DEF IInv, Clear, TypeOK, PhaseInv, MarkFailed, flash, PutPCs, ClearPCs, Slot

LEMMA ClearEraseIInv == IInv /\ ClearErase => IInv'
<1>. SUFFICES ASSUME IInv, ClearErase PROVE IInv'
  OBVIOUS
<1>. DEFINE p == IF pc = "erase1" THEN 1 ELSE 2
<1>1. p \in Page /\ ErasePage(p) /\ TypeOK
  BY DEF ClearErase, Page, IInv
<1>2. TypeOK'
  BY <1>1, EraseType DEF ClearErase, TypeOK, ClearPCs
<1>3. PhaseInv'
  BY <1>1, EraseType DEF ClearErase, PhaseInv, MarkFailed, PutPCs, IInv, Page
<1>. QED  BY <1>2, <1>3 DEF IInv

LEMMA ClearFormatIInv == IInv /\ ClearFormat => IInv'
<1>. SUFFICES ASSUME IInv, ClearFormat PROVE IInv'
  OBVIOUS
<1>. USE DEF IInv, ClearFormat, Return
<1>1. status'[1] = "ACTIVE" /\ status' \in [Page -> Status]
  BY DEF PhaseInv, MarkFailed, TypeOK, ProgramStatus, Page, Status
<1>2. FirstActive' = 1 /\ active' = 1 /\ alternate' = 2
  BY <1>1 DEF FirstActive, UpdateActivePage, NoPage, Other
<1>3. TypeOK'
  BY <1>1, <1>2, LastSlotFact DEF TypeOK, NoRequest, Page, NoPage
<1>4. PhaseInv'
  BY <1>1, <1>2 DEF PhaseInv, MarkFailed, PutPCs, Page, Other
<1>. QED  BY <1>3, <1>4

LEMMA PerformPendingEraseIInv == IInv /\ PerformPendingErase => IInv'
<1>. SUFFICES ASSUME IInv, PerformPendingErase PROVE IInv'
  OBVIOUS
<1>1. alternate \in Page /\ active \in Page \ {alternate} /\ ErasePage(alternate) /\ TypeOK
  BY DEF PerformPendingErase, IInv, PhaseInv, MarkFailed, Page, Other
<1>2. TypeOK'
  BY <1>1, EraseType DEF PerformPendingErase, TypeOK
<1>3. PhaseInv'
  BY <1>1, EraseType DEF PerformPendingErase, PhaseInv, MarkFailed, PutPCs, IInv, Page, FirstActive, NoPage
<1>. QED  BY <1>2, <1>3 DEF IInv

LEMMA PutIInv ==
  ASSUME NEW r \in Requests
  PROVE  IInv /\ Put(r) => IInv'
<1>. SUFFICES ASSUME IInv, Put(r) PROVE IInv'
  OBVIOUS
<1>1. active \in Page /\ alternate \in Page
  BY DEF Put, IInv, PhaseInv, MarkFailed, Page, Other
<1>2. FirstActive' = FirstActive /\ status' = status /\ cell' = cell
  BY DEF Put, flash, FirstActive
<1>3. CASE pc' = "append"
  <2>1. /\ CanAppend(r) /\ tries' = 0 /\ todo' = Changed(r) /\ req' = r
        /\ wa' = FirstFree(active) + Cardinality(Changed(r))
    BY <1>3 DEF Put, StartSwap
  <2>2. wa' \in 0 .. LastSlot + 1
    BY <1>1, <2>1, FirstFreeType, ChangedType, LastSlotFact DEF CanAppend
  <2>3. TypeOK'
    BY <1>2, <1>3, <2>1, <2>2, ChangedType DEF TypeOK, IInv, Put, PutPCs
  <2>4. PhaseInv'
    BY <1>2, <1>3 DEF PhaseInv, MarkFailed, IInv, Put, PutPCs
  <2>. QED  BY <2>3, <2>4 DEF IInv
<1>4. CASE pc' = "verify"
  <2>1. tries' = 0 /\ todo' = {} /\ wa' = 0 /\ req' = r
    BY <1>4 DEF Put, StartSwap
  <2>2. TypeOK'
    BY <1>2, <1>4, <2>1, LastSlotFact DEF TypeOK, IInv, Put, PutPCs
  <2>3. PhaseInv'
    BY <1>2, <1>4 DEF PhaseInv, MarkFailed, IInv, Put, PutPCs
  <2>. QED  BY <2>2, <2>3 DEF IInv
<1>. QED  BY <1>3, <1>4 DEF Put, StartSwap

(* A record write, verified or not, and a failed one only change slots of   *)
(* the page written to.                                                     *)
LEMMA RecordStepIInv ==
  ASSUME IInv, pc \in {"append", "copy", "direct"}, todo # {},
         WriteSlot \in Slot(WritePage), NEW c \in Record,
         cell' = [cell EXCEPT ![WritePage][WriteSlot] = c],
         RecordWritten \/ WriteFailed,
         UNCHANGED <<status, active, alternate>>
  PROVE  IInv'
<1>1. Min(todo) \in todo /\ WritePage \in Page
  BY RecordToWriteType DEF IInv
<1>2. /\ cell' = [q \in Page |-> cell'[q]]
      /\ \A q \in Page : cell'[q] \in [Slot(q) -> Record]
  BY <1>1 DEF IInv, TypeOK
<1>3. FirstActive' = FirstActive
  BY DEF FirstActive
<1>4. wa + 1 \in 0 .. LastSlot + 1 \/ pc = "append"
  BY <1>1, LastSlotFact DEF WriteSlot, Slot
<1>5. pc = "append" => wa - 1 \in 0 .. LastSlot + 1
  BY <1>1, LastSlotFact DEF WriteSlot, Slot, IInv, TypeOK
<1>6. 0 \in 0 .. LastSlot + 1
  BY LastSlotFact
<1>7. TypeOK'
  <2>1. CASE RecordWritten
    BY <1>2, <1>4, <1>5, <1>6, <2>1 DEF TypeOK, IInv, RecordWritten, PutPCs, NoRequest
  <2>2. CASE WriteFailed
    BY <1>2, <1>6, <2>2 DEF TypeOK, IInv, WriteFailed, SwapFailed, StartSwap, Return, PutPCs, NoRequest
  <2>. QED  BY <2>1, <2>2
<1>8. PhaseInv'
  BY <1>3 DEF PhaseInv, MarkFailed, IInv, RecordWritten, WriteFailed, SwapFailed, StartSwap, Return, PutPCs
<1>. QED  BY <1>7, <1>8 DEF IInv

LEMMA WriteNextRecordIInv == IInv /\ WriteNextRecord => IInv'
<1>. SUFFICES ASSUME IInv, WriteNextRecord PROVE IInv'
  OBVIOUS
<1>. DEFINE c == Program(cell[WritePage][WriteSlot], RecordToWrite, 4)
<1>1. RecordToWrite \in Record /\ WritePage \in Page
  BY RecordToWriteType DEF IInv, WriteNextRecord
<1>2. cell[WritePage][WriteSlot] \in Record
  BY <1>1 DEF IInv, TypeOK, WriteNextRecord
<1>3. c \in Record
  BY <1>1, <1>2, ProgramType
<1>4. /\ cell' = [cell EXCEPT ![WritePage][WriteSlot] = c]
      /\ RecordWritten \/ WriteFailed
  BY DEF WriteNextRecord
<1>. QED  BY <1>3, <1>4, RecordStepIInv DEF WriteNextRecord

LEMMA RecordFaultIInv == IInv /\ RecordFault => IInv'
<1>. SUFFICES ASSUME IInv, RecordFault PROVE IInv'
  OBVIOUS
<1>1. PICK c \in FaultCells : cell' = [cell EXCEPT ![WritePage][WriteSlot] = c]
  BY DEF RecordFault
<1>2. c \in Record
  BY FaultAssumption
<1>. QED  BY <1>1, <1>2, RecordStepIInv DEF RecordFault

LEMMA NoRoomIInv == IInv /\ NoRoom => IInv'
<1>. SUFFICES ASSUME IInv, NoRoom PROVE IInv'
  OBVIOUS
<1>. USE DEF IInv, NoRoom, SwapFailed, StartSwap, Return, flash
<1>1. FirstActive' = FirstActive
  BY DEF FirstActive
<1>2. TypeOK'
  BY LastSlotFact DEF TypeOK, PutPCs, NoRequest
<1>3. PhaseInv'
  BY <1>1 DEF PhaseInv, MarkFailed, PutPCs
<1>. QED  BY <1>2, <1>3

LEMMA VerifyDestinationIInv == IInv /\ VerifyDestination => IInv'
<1>. SUFFICES ASSUME IInv, VerifyDestination PROVE IInv'
  OBVIOUS
<1>1. alternate \in Page /\ active \in Page \ {alternate} /\ TypeOK
  BY DEF VerifyDestination, IInv, PhaseInv, MarkFailed, PutPCs, Page, Other
<1>2. CASE ErasePage(alternate)
  <2>1. TypeOK'
    BY <1>1, <1>2, EraseType DEF VerifyDestination, TypeOK, PutPCs
  <2>2. Erased(alternate)'
    BY <1>1, <1>2, EraseType DEF VerifyDestination, Erased, Empty
  <2>3. PhaseInv'
    BY <1>1, <1>2, <2>2, EraseType
    DEF VerifyDestination, PhaseInv, MarkFailed, PutPCs, IInv, Page, FirstActive, NoPage
  <2>. QED  BY <2>1, <2>3 DEF IInv
<1>3. CASE Erased(alternate) /\ UNCHANGED flash
  <2>1. TypeOK'
    BY <1>3 DEF VerifyDestination, TypeOK, PutPCs, IInv, flash
  <2>2. PhaseInv'
    BY <1>3 DEF VerifyDestination, PhaseInv, MarkFailed, PutPCs, IInv, FirstActive, Erased, flash
  <2>. QED  BY <2>1, <2>2 DEF IInv
<1>. QED  BY <1>2, <1>3 DEF VerifyDestination

LEMMA WriteHeaderIInv == IInv /\ WriteHeader => IInv'
<1>. SUFFICES ASSUME IInv, WriteHeader PROVE IInv'
  OBVIOUS
<1>1. alternate \in Page /\ active \in Page \ {alternate}
  BY DEF WriteHeader, IInv, PhaseInv, MarkFailed, PutPCs, Page, Other
<1>2. status[alternate] = "ERASED" /\ status' = [status EXCEPT ![alternate] = "COPY"]
  <2>1. status[alternate] = "ERASED"
    BY DEF WriteHeader, IInv, PhaseInv, MarkFailed, Erased
  <2>2. ProgramStatus("ERASED", "COPY", 4) = "COPY"
    BY DEF ProgramStatus
  <2>. QED  BY <1>1, <2>1, <2>2 DEF WriteHeader, IInv, TypeOK
<1>3. 1 \in 0 .. LastSlot + 1
  BY LastSlotFact
<1>4. TypeOK'
  BY <1>1, <1>2, <1>3 DEF WriteHeader, TypeOK, PutPCs, IInv, Status, CopyIndices
<1>5. PhaseInv'
  BY <1>1, <1>2 DEF WriteHeader, PhaseInv, MarkFailed, PutPCs, IInv, TypeOK, Page, FirstActive, NoPage
<1>. QED  BY <1>4, <1>5 DEF IInv

LEMMA CopyDoneIInv == IInv /\ CopyDone => IInv'
BY DEF IInv, CopyDone, TypeOK, PhaseInv, MarkFailed, PutPCs, flash, FirstActive, Slot

LEMMA DirectDoneIInv == IInv /\ DirectDone => IInv'
BY DEF IInv, DirectDone, TypeOK, PhaseInv, MarkFailed, PutPCs, flash, FirstActive, Slot

LEMMA ActivateIInv == IInv /\ Activate => IInv'
<1>. SUFFICES ASSUME IInv, Activate PROVE IInv'
  OBVIOUS
<1>1. alternate \in Page /\ active \in Page \ {alternate}
  BY DEF Activate, IInv, PhaseInv, MarkFailed, PutPCs, Page, Other
<1>2. status' = [status EXCEPT ![alternate] = "ACTIVE"]
  <2>1. status[alternate] = "COPY"
    BY DEF Activate, IInv, PhaseInv, MarkFailed
  <2>2. ProgramStatus("COPY", "ACTIVE", 4) = "ACTIVE"
    BY DEF ProgramStatus
  <2>. QED  BY <1>1, <2>1, <2>2 DEF Activate, IInv, TypeOK
<1>3. TypeOK'
  BY <1>1, <1>2 DEF Activate, TypeOK, PutPCs, IInv, Status
<1>4. PhaseInv'
  BY <1>1, <1>2 DEF Activate, PhaseInv, MarkFailed, PutPCs, IInv, TypeOK
<1>. QED  BY <1>3, <1>4 DEF IInv

LEMMA DeactivateIInv == IInv /\ Deactivate => IInv'
<1>. SUFFICES ASSUME IInv, Deactivate PROVE IInv'
  OBVIOUS
<1>1. alternate \in Page /\ active \in Page /\ alternate # active
  BY DEF Deactivate, IInv, PhaseInv, PutPCs, Page, Other
<1>2. PICK w \in {"INACTIVE", "OTHER"} :
         /\ status' = [status EXCEPT ![active] = w]
         /\ status'[active] = w /\ status'[alternate] = "ACTIVE"
         /\ w = "OTHER" => status[active] = "OTHER"
  <2>1. status[active] \in {"ACTIVE", "OTHER"} /\ status[alternate] = "ACTIVE"
    BY DEF Deactivate, IInv, PhaseInv, PutPCs
  <2>2. CASE status[active] = "ACTIVE"
    BY <1>1, <2>1, <2>2 DEF Deactivate, ProgramStatus, IInv, TypeOK
  <2>3. CASE status[active] = "OTHER"
    BY <1>1, <2>1, <2>3 DEF Deactivate, ProgramStatus, IInv, TypeOK
  <2>. QED  BY <2>1, <2>2, <2>3
<1>3. CASE UpdateActivePage /\ Return
  <2>4. FirstActive' = alternate
    BY <1>1, <1>2 DEF FirstActive, Page, NoPage
  <2>5. active' = alternate /\ alternate' = Other(alternate)
    BY <1>1, <1>3, <2>4 DEF UpdateActivePage, NoPage, Page
  <2>6. TypeOK'
    BY <1>1, <1>2, <1>3, <2>5, LastSlotFact
    DEF Deactivate, TypeOK, IInv, Status, Return, NoRequest, Other, Page, NoPage
  <2>7. PhaseInv'
    BY <1>1, <1>2, <1>3, <2>4, <2>5 DEF PhaseInv, MarkFailed, Return, PutPCs
  <2>. QED  BY <2>6, <2>7 DEF IInv
<1>4. CASE SwapFailed /\ UNCHANGED <<active, alternate>> /\ w = "OTHER"
  <2>1. TypeOK'
    BY <1>1, <1>2, <1>4, LastSlotFact
    DEF Deactivate, TypeOK, PutPCs, IInv, Status, SwapFailed, StartSwap, Return, NoRequest
  <2>2. PhaseInv'
    <3>1. pc' \in {"verify", "idle"} /\ active' = active /\ alternate' = alternate
      BY <1>4 DEF SwapFailed, StartSwap, Return
    <3>2. alternate = Other(active)
      BY DEF Deactivate, IInv, PhaseInv, PutPCs
    <3>. QED  BY <1>1, <1>2, <1>4, <3>1, <3>2 DEF PhaseInv, MarkFailed, PutPCs
  <2>. QED  BY <2>1, <2>2 DEF IInv
<1>. QED  BY <1>2, <1>3, <1>4 DEF Deactivate

LEMMA StatusFaultIInv == IInv /\ StatusFault => IInv'
<1>. SUFFICES ASSUME IInv, StatusFault PROVE IInv'
  OBVIOUS
<1>1. alternate \in Page /\ active \in Page /\ alternate = Other(active) /\ alternate # active
  BY DEF StatusFault, IInv, PhaseInv, PutPCs, Page, Other
<1>2. PICK p \in {active, alternate} :
         status' = [status EXCEPT ![p] = "OTHER"] /\ (p = active <=> pc = "deactivate")
  BY <1>1 DEF StatusFault, StatusPage
<1>3. TypeOK'
  <2>1. status' \in [Page -> Status]
    BY <1>1, <1>2 DEF IInv, TypeOK, Status
  <2>2. pc' \in {"verify", "idle"} /\ todo' = {} /\ wa' = 0 /\ req' \in {req, NoRequest} /\ tries' \in {0, 1}
    BY DEF StatusFault, SwapFailed, StartSwap, Return
  <2>. QED  BY <1>1, <2>1, <2>2, LastSlotFact DEF StatusFault, TypeOK, PutPCs, IInv
<1>4. status'[p] = "OTHER" /\ \A q \in Page \ {p} : status'[q] = status[q]
  BY <1>1, <1>2 DEF IInv, TypeOK
<1>5. pc' \in {"verify", "idle"} /\ active' = active /\ alternate' = alternate
  BY DEF StatusFault, SwapFailed, StartSwap, Return
<1>6. status'[active] \in {"ACTIVE", "OTHER"}
  BY <1>1, <1>4 DEF IInv, PhaseInv, PutPCs, StatusFault
<1>7. status'[active] = "ACTIVE" => FirstActive' = active
  <2>. SUFFICES ASSUME status'[active] = "ACTIVE" PROVE FirstActive' = active
    OBVIOUS
  <2>1. p = alternate
    BY <1>2, <1>4
  <2>. QED  BY <1>1, <1>4, <2>1 DEF FirstActive, Page, NoPage
<1>8. PhaseInv'
  BY <1>1, <1>5, <1>6, <1>7 DEF PhaseInv, MarkFailed, PutPCs
<1>. QED  BY <1>3, <1>8 DEF IInv

(* A power cut leaves flash of the right type. *)
LEMMA CrashIInv == IInv /\ Crash => IInv'
<1>. SUFFICES ASSUME IInv, Crash PROVE IInv'
  OBVIOUS
<1>1. PhaseInv'
  BY DEF Crash, PhaseInv, MarkFailed, PutPCs
<1>2. ASSUME /\ status' \in [Page -> Status] /\ cell' = [q \in Page |-> cell'[q]]
             /\ \A q \in Page : cell'[q] \in [Slot(q) -> Record]
      PROVE  IInv'
  BY <1>1, <1>2, LastSlotFact DEF IInv, TypeOK, Crash, NoRequest
<1>3. CASE UNCHANGED flash
  BY <1>2, <1>3 DEF IInv, TypeOK, flash
<1>4. CASE CutRecord
  <2>1. RecordToWrite \in Record /\ WritePage \in Page
    BY <1>4, RecordToWriteType DEF IInv, CutRecord
  <2>2. PICK k \in Cuts : cell' = [cell EXCEPT ![WritePage][WriteSlot] =
                             Program(cell[WritePage][WriteSlot], RecordToWrite, k)]
    BY <1>4 DEF CutRecord
  <2>3. cell[WritePage][WriteSlot] \in Record
    BY <1>4, <2>1 DEF IInv, TypeOK, CutRecord
  <2>4. Program(cell[WritePage][WriteSlot], RecordToWrite, k) \in Record
    BY <2>1, <2>3, ProgramType, FaultAssumption
  <2>. QED  BY <1>2, <1>4, <2>1, <2>2, <2>4 DEF IInv, TypeOK, CutRecord
<1>5. CASE CutStatus
  <2>1. PICK k \in Cuts : status' = [status EXCEPT ![StatusPage] =
                             ProgramStatus(status[StatusPage], StatusWord, k)]
    BY <1>5 DEF CutStatus
  <2>2. StatusWord \in Status
    BY DEF StatusWord, Status
  <2>3. StatusPage \in Page => ProgramStatus(status[StatusPage], StatusWord, k) \in Status
    BY <2>2 DEF ProgramStatus, IInv, TypeOK, Status
  <2>. QED  BY <1>2, <1>5, <2>1, <2>3 DEF IInv, TypeOK, CutStatus
<1>6. CASE Erasing /\ CutErase(ErasingPage)
  <2>1. PICK S \in SUBSET Slot(ErasingPage) : cell' = [cell EXCEPT ![ErasingPage] =
          [s \in Slot(ErasingPage) |-> IF s \in S THEN ErasedRecord ELSE cell[ErasingPage][s]]]
    BY <1>6 DEF CutErase
  <2>2. PICK w \in {status[ErasingPage], "ERASED"} : status' = [status EXCEPT ![ErasingPage] = w]
    BY <1>6 DEF CutErase
  <2>. QED  BY <1>2, <2>1, <2>2, WidthFacts DEF IInv, TypeOK, Status
<1>. QED  BY <1>3, <1>4, <1>5, <1>6 DEF Crash

LEMMA NextIInv ==
  IInv /\ [Next]_vars => IInv'
<1>. SUFFICES ASSUME IInv, [Next]_vars PROVE IInv'
  OBVIOUS
<1>1. CASE Step
  BY <1>1, BootIInv, ClearEraseIInv, ClearFormatIInv, WriteNextRecordIInv, NoRoomIInv,
     VerifyDestinationIInv, WriteHeaderIInv, CopyDoneIInv, DirectDoneIInv, ActivateIInv,
     DeactivateIInv DEF Step
<1>2. CASE Fault
  BY <1>2, RecordFaultIInv, StatusFaultIInv DEF Fault
<1>3. CASE Call
  BY <1>3, ClearIInv, PerformPendingEraseIInv, PutIInv DEF Call
<1>4. CASE Crash
  BY <1>4, CrashIInv
<1>5. CASE UNCHANGED vars
  <2>1. TypeOK' <=> TypeOK
    BY <1>5 DEF vars, TypeOK
  <2>2. PhaseInv' <=> PhaseInv
    BY <1>5 DEF vars, PhaseInv, MarkFailed, FirstActive, Erased
  <2>. QED  BY <2>1, <2>2 DEF IInv

<1>. QED  BY <1>1, <1>2, <1>3, <1>4, <1>5 DEF Next

(* Whatever is torn, half erased or fails to read back, every variable      *)
(* keeps its type and the write address never leaves the page.              *)
THEOREM TypeCorrect ==
  Spec => []TypeOK
<1>1. IInv => TypeOK
  BY DEF IInv
<1>. QED  BY <1>1, InitIInv, NextIInv, PTL DEF Spec

(* ... between calls the page roles in RAM are those a reset would find,    *)
(* until a word that marks an old page inactive fails to read back ...      *)
THEOREM RolesAgree ==
  Spec => []RamMatchesFlash
<1>1. IInv => RamMatchesFlash
  BY DEF IInv, PhaseInv, MarkFailed, RamMatchesFlash, Page, NoPage, PutPCs
<1>. QED  BY <1>1, InitIInv, NextIInv, PTL DEF Spec

(* Outside clear(), a step may unmark the page a reset would choose only    *)
(* when the other one is marked active already.                             *)
LEMMA KeepsAnActivePage ==
  IInv /\ Next /\ FirstActive # NoPage /\ pc \notin ClearPCs /\ ~MarkFailed => FirstActive' # NoPage
<1>. SUFFICES ASSUME IInv, Next, FirstActive # NoPage, pc \notin ClearPCs, ~MarkFailed
              PROVE  FirstActive' # NoPage
  OBVIOUS
<1>0. \/ pc = "off"
      \/ pc \in {"idle"} \cup PutPCs /\ active \in Page /\ alternate \in Page \ {active}
  BY DEF IInv, TypeOK, PhaseInv, MarkFailed, Page, Other
<1>1. ASSUME \A p \in Page : status[p] = "ACTIVE" => status'[p] = "ACTIVE"
      PROVE  FirstActive' # NoPage
  BY <1>1 DEF FirstActive, Page, NoPage
<1>2. ASSUME NEW p \in Page, status'[p] = "ACTIVE"
      PROVE  FirstActive' # NoPage
  BY <1>2 DEF FirstActive, Page, NoPage
<1>3. CASE status' = status
  BY <1>1, <1>3
<1>4. CASE pc \in {"idle"} \cup PutPCs /\ \E w : status' = [status EXCEPT ![alternate] = w]
  <2>1. status[active] = "ACTIVE" /\ status'[active] = "ACTIVE"
    BY <1>0, <1>4 DEF IInv, PhaseInv, MarkFailed, TypeOK, PutPCs
  <2>. QED  BY <1>0, <1>2, <1>4, <2>1 DEF PutPCs
<1>5. CASE pc = "deactivate" /\ \E w : status' = [status EXCEPT ![active] = w]
  <2>1. status[alternate] = "ACTIVE" /\ status'[alternate] = "ACTIVE"
    BY <1>0, <1>5 DEF IInv, PhaseInv, MarkFailed, TypeOK, PutPCs
  <2>. QED  BY <1>0, <1>2, <1>5, <2>1 DEF PutPCs
<1>6. CASE Step
  BY <1>3, <1>4, <1>5, <1>6 DEF Step, Boot, ClearErase, ClearFormat, WriteNextRecord, NoRoom,
     VerifyDestination, WriteHeader, CopyDone, DirectDone, Activate, Deactivate, flash,
     ErasePage, PutPCs, ClearPCs
<1>7. CASE Fault
  BY <1>3, <1>4, <1>5, <1>7 DEF Fault, RecordFault, StatusFault, StatusPage, PutPCs
<1>8. CASE Call
  BY <1>3, <1>4, <1>8 DEF Call, Clear, PerformPendingErase, Put, ErasePage, flash
<1>9. CASE Crash
  <2>1. CASE CutStatus
    BY <1>4, <1>5, <2>1 DEF CutStatus, StatusPC, StatusPage, PutPCs, ClearPCs
  <2>2. CASE Erasing /\ CutErase(ErasingPage)
    BY <1>4, <2>2 DEF Erasing, CutErase, ErasingPage, PutPCs, ClearPCs
  <2>. QED  BY <1>3, <1>9, <2>1, <2>2 DEF Crash, CutRecord, flash
<1>. QED  BY <1>6, <1>7, <1>8, <1>9 DEF Next

(* ... and until then only clear() can leave the EEPROM without an active   *)
(* page: no power cut during a put makes the next boot erase everything.    *)
THEOREM AlwaysFormatted ==
  Spec => StaysFormatted
<1>1. IInv /\ [Next]_vars =>
        [FirstActive # NoPage /\ pc \notin ClearPCs /\ ~MarkFailed => FirstActive' # NoPage]_vars
  BY KeepsAnActivePage
<1>. QED  BY <1>1, InitIInv, NextIInv, PTL DEF Spec, StaysFormatted

-----------------------------------------------------------------------------
(* Room in the destination of a swap.                                       *)

(* No write is cut between the two bytes of an index, a write that fails    *)
(* does not invent an index, and no put runs over the end of the indices.   *)
IndicesKept ==
  /\ Cuts \subseteq {0, 1, 2, 4}
  /\ \A c \in FaultCells : c.index \in Cells \cup {EMPTY_INDEX}
  /\ \A r \in Requests : r.begin + Len(r.data) < IndexCount

IndexInv == \A p \in Page : \A s \in Slot(p) : cell[p][s].index \in Cells \cup {EMPTY_INDEX}

(* The slots left in the destination are enough for what is to be written.  *)
RoomInv ==
  /\ pc \in PutPCs => req \in Requests /\ req.begin + Len(req.data) <= Capacity
  /\ pc = "copy" => /\ todo \subseteq Cells /\ wa >= 1
                    /\ wa + Cardinality(todo) + Len(req.data) <= Capacity + 1
  /\ pc = "direct" => wa >= 1 /\ wa + Cardinality(todo) <= Capacity + 1

SInv == IInv /\ IndexInv /\ RoomInv

LEMMA CapacityFacts ==
  /\ Capacity \in Nat
  /\ \A p \in Page : Capacity <= Slots[p]
<1>1. Slots[1] \in Nat \ {0} /\ Slots[2] \in Nat \ {0}
  BY SlotsAssumption DEF Page
<1>. DEFINE m == Min({Slots[1] + 1, Slots[2] + 1})
<1>2. m \in {Slots[1] + 1, Slots[2] + 1} /\ m <= Slots[1] + 1 /\ m <= Slots[2] + 1
  <2>1. {Slots[1] + 1, Slots[2] + 1} \subseteq Nat
    BY <1>1
  <2>. QED  BY <2>1, MinIsMember
<1>3. Capacity = m \div 2
  BY DEF Capacity
<1>. HIDE DEF m
<1>4. m \in Nat
  BY <1>1, <1>2
<1>5. Capacity \in Nat /\ Capacity <= Slots[1] /\ Capacity <= Slots[2]
  BY <1>1, <1>2, <1>3, <1>4
<1>. QED  BY <1>5 DEF Page

(* The two bytes of an index. *)
LEMMA IndexParts ==
  ASSUME NEW i \in Index
  PROVE  /\ i % (LoMax + 1) \in 0 .. LoMax /\ i \div (LoMax + 1) \in 0 .. HiMax
         /\ (i \div (LoMax + 1)) * (LoMax + 1) + (i % (LoMax + 1)) = i
<1>. DEFINE L == LoMax + 1
<1>1. LoMax \in Nat /\ HiMax \in Nat /\ L \in Nat \ {0} /\ i \in Nat /\ i < L * (HiMax + 1)
  BY WidthAssumption DEF Index, EMPTY_INDEX, IndexCount
<1>2. i % L \in 0 .. LoMax /\ i \div L \in Nat /\ i = L * (i \div L) + (i % L)
  BY <1>1
<1>. DEFINE q == i \div L
            m == i % L
<1>3. q \in Nat /\ m \in 0 .. LoMax /\ i = L * q + m
  BY <1>2
<1>. HIDE DEF L, q, m
<1>4. q * L + m = i
  BY <1>1, <1>3
<1>5. q <= HiMax
  BY <1>1, <1>3
<1>. QED  BY <1>3, <1>4, <1>5 DEF q, m, L

(* A completed index is not above what was to be written; one whose bytes   *)
(* were not reached is as it was.                                           *)
LEMMA ProgrammedIndex ==
  ASSUME NEW i \in Index, NEW j \in Index, NEW k \in {0, 1, 2, 4}
  PROVE  IF k = 4 THEN ProgramIndex(i, j, k) \in 0 .. j ELSE ProgramIndex(i, j, k) = i
<1>. DEFINE L == LoMax + 1
<1>1. LoMax \in Nat /\ HiMax \in Nat
  BY WidthAssumption
<1>2. CASE k = 4
  <2>. DEFINE lo == And(i % L, j % L)
              hi == And(i \div L, j \div L)
              jl == j % L
              jh == j \div L
  <2>1. /\ i % L \in 0 .. LoMax /\ jl \in 0 .. LoMax
        /\ i \div L \in 0 .. HiMax /\ jh \in 0 .. HiMax /\ jh * L + jl = j
    BY IndexParts
  <2>2. lo \in 0 .. LoMax /\ lo <= jl
    BY <2>1, AndFacts
  <2>3. hi \in 0 .. HiMax /\ hi <= jh
    BY <2>1, AndFacts
  <2>4. ProgramIndex(i, j, k) = hi * L + lo
    BY <1>2 DEF ProgramIndex
  <2>5. L \in Nat
    BY <1>1
  <2>. HIDE DEF L, lo, hi, jl, jh
  <2>6. hi * L <= jh * L /\ hi * L \in Nat
    BY <1>1, <2>1, <2>3, <2>5
  <2>7. hi * L + lo \in 0 .. j
    BY <1>1, <2>1, <2>2, <2>5, <2>6
  <2>. QED  BY <1>2, <2>4, <2>7
<1>3. CASE k \in {0, 1, 2}
  <2>1. ProgramIndex(i, j, k) = (i \div L) * L + (i % L)
    BY <1>3 DEF ProgramIndex
  <2>. QED  BY <1>3, <2>1, IndexParts
<1>. QED  BY <1>2, <1>3

(* A put that does not run over the end of the indices. *)
LEMMA RequestFacts ==
  ASSUME NEW r \in Requests, r.begin + Len(r.data) < IndexCount
  PROVE  /\ r.begin \in Nat /\ Len(r.data) \in Nat \ {0} /\ DOMAIN r.data = 1 .. Len(r.data)
         /\ IndexEnd(r) = r.begin + Len(r.data)
         /\ \A n \in DOMAIN r.data : IndexOf(r, n) = r.begin + n - 1
         /\ r.begin + Len(r.data) <= Capacity => \A n \in DOMAIN r.data : IndexOf(r, n) \in Cells
<1>1. r.begin \in Nat /\ Len(r.data) \in Nat \ {0} /\ DOMAIN r.data = 1 .. Len(r.data)
  <2>1. r.begin \in Index /\ r.data \in Seq(Byte) /\ r.data # <<>>
    BY RequestAssumption
  <2>. QED  BY <2>1 DEF Index
<1>2. IndexCount \in Nat \ {0}
  BY WidthFacts
<1>3. \A x \in Nat : x < IndexCount => x % IndexCount = x
  BY <1>2
<1>4. IndexEnd(r) = r.begin + Len(r.data)
  BY <1>1, <1>3 DEF IndexEnd
<1>5. \A n \in DOMAIN r.data : r.begin + n - 1 \in Nat /\ r.begin + n - 1 < r.begin + Len(r.data)
  BY <1>1
<1>6. \A n \in DOMAIN r.data : IndexOf(r, n) = r.begin + n - 1
  <2>1. ASSUME NEW n \in DOMAIN r.data PROVE r.begin + n - 1 < IndexCount
    BY <1>1, <1>2, <1>5
  <2>. QED  BY <1>3, <1>5, <2>1 DEF IndexOf
<1>7. r.begin + Len(r.data) <= Capacity => \A n \in DOMAIN r.data : IndexOf(r, n) \in Cells
  <2>. SUFFICES ASSUME r.begin + Len(r.data) <= Capacity, NEW n \in DOMAIN r.data
                PROVE  r.begin + n - 1 \in 0 .. Capacity - 1
    BY <1>6 DEF Cells
  <2>. QED  BY <1>1, <1>5, CapacityFacts
<1>. QED  BY <1>1, <1>4, <1>6, <1>7

(* Records are written with an index of a cell. *)
LEMMA WrittenIndex ==
  ASSUME IndicesKept, SInv, pc \in {"append", "copy", "direct"}, todo # {}
  PROVE  RecordToWrite.index \in Cells
<1>1. Min(todo) \in todo
  BY RecordToWriteType DEF SInv, IInv
<1>2. CASE pc = "copy"
  <2>1. Min(todo) \in Cells
    BY <1>1, <1>2 DEF SInv, RoomInv
  <2>. QED  BY <1>2, <2>1 DEF RecordToWrite, RecordOf
<1>3. CASE pc # "copy"
  <2>1. Min(todo) \in DOMAIN req.data
    BY <1>1, <1>3 DEF SInv, IInv, TypeOK
  <2>2. req \in Requests /\ req.begin + Len(req.data) <= Capacity
    BY DEF SInv, RoomInv, PutPCs
  <2>3. IndexOf(req, Min(todo)) \in Cells
    BY <2>1, <2>2, RequestFacts DEF IndicesKept
  <2>. QED  BY <1>3, <2>3 DEF RecordToWrite, RecordOf
<1>. QED  BY <1>2, <1>3

LEMMA ProgrammedCell ==
  ASSUME NEW c \in Record, NEW r \in Record, NEW k \in {0, 1, 2, 4}, r.index \in Cells,
         c.index \in Cells \cup {EMPTY_INDEX}
  PROVE  Program(c, r, k).index \in Cells \cup {EMPTY_INDEX}
<1>1. c.index \in Index /\ r.index \in Index
  BY DEF Record
<1>2. Program(c, r, k).index = ProgramIndex(c.index, r.index, k)
  BY DEF Program
<1>3. CASE k = 4
  <2>1. ProgramIndex(c.index, r.index, k) \in 0 .. r.index
    BY <1>1, <1>3, ProgrammedIndex
  <2>. QED  BY <1>2, <2>1, CapacityFacts DEF Cells
<1>4. CASE k # 4
  BY <1>1, <1>2, <1>4, ProgrammedIndex
<1>. QED  BY <1>3, <1>4

LEMMA IndexNext ==
  ASSUME IndicesKept, SInv, [Next]_vars
  PROVE  IndexInv'
<1>0. TypeOK /\ IndexInv
  BY DEF SInv, IInv
<1>1. CASE UNCHANGED cell
  BY <1>0, <1>1 DEF IndexInv
<1>2. ASSUME NEW p, NEW s, NEW c, cell' = [cell EXCEPT ![p][s] = c],
             c.index \in Cells \cup {EMPTY_INDEX}
      PROVE  IndexInv'
  BY <1>0, <1>2 DEF IndexInv, TypeOK
<1>3. ASSUME NEW p, NEW S,
             cell' = [cell EXCEPT ![p] = [s \in Slot(p) |-> IF s \in S THEN ErasedRecord ELSE cell[p][s]]]
      PROVE  IndexInv'
  <2>1. ErasedRecord.index = EMPTY_INDEX
    BY DEF ErasedRecord
  <2>. QED  BY <1>0, <1>3, <2>1 DEF IndexInv, TypeOK
<1>4. ASSUME NEW p, ErasePage(p) PROVE IndexInv'
  <2>1. cell' = [cell EXCEPT ![p] = [s \in Slot(p) |-> ErasedRecord]]
    BY <1>4 DEF ErasePage, ErasedPage
  <2>2. ErasedRecord.index = EMPTY_INDEX
    BY DEF ErasedRecord
  <2>. QED  BY <1>0, <2>1, <2>2 DEF IndexInv, TypeOK
<1>5. ASSUME pc \in {"append", "copy", "direct"}, todo # {}, WriteSlot \in Slot(WritePage)
      PROVE  \A k \in {0, 1, 2, 4} :
               Program(cell[WritePage][WriteSlot], RecordToWrite, k).index \in Cells \cup {EMPTY_INDEX}
  <2>1. RecordToWrite \in Record /\ WritePage \in Page
    BY <1>5, RecordToWriteType DEF SInv, IInv
  <2>2. cell[WritePage][WriteSlot] \in Record
    BY <1>0, <1>5, <2>1 DEF TypeOK
  <2>3. cell[WritePage][WriteSlot].index \in Cells \cup {EMPTY_INDEX}
    BY <1>0, <1>5, <2>1 DEF IndexInv
  <2>. QED  BY <1>5, <2>1, <2>2, <2>3, WrittenIndex, ProgrammedCell
<1>6. CASE WriteNextRecord
  <2>1. cell' = [cell EXCEPT ![WritePage][WriteSlot] =
                   Program(cell[WritePage][WriteSlot], RecordToWrite, 4)]
    BY <1>6 DEF WriteNextRecord
  <2>2. Program(cell[WritePage][WriteSlot], RecordToWrite, 4).index \in Cells \cup {EMPTY_INDEX}
    BY <1>5, <1>6 DEF WriteNextRecord
  <2>. QED  BY <1>2, <2>1, <2>2
<1>7. CASE RecordFault
  BY <1>2, <1>7 DEF RecordFault, IndicesKept
<1>8. CASE Crash
  <2>1. CASE CutRecord
    <3>1. PICK k \in Cuts : cell' = [cell EXCEPT ![WritePage][WriteSlot] =
                               Program(cell[WritePage][WriteSlot], RecordToWrite, k)]
      BY <2>1 DEF CutRecord
    <3>2. Program(cell[WritePage][WriteSlot], RecordToWrite, k).index \in Cells \cup {EMPTY_INDEX}
      BY <1>5, <2>1 DEF CutRecord, IndicesKept
    <3>. QED  BY <1>2, <3>1, <3>2
  <2>2. CASE CutErase(ErasingPage)
    BY <1>3, <2>2 DEF CutErase
  <2>. QED  BY <1>1, <1>8, <2>1, <2>2 DEF Crash, CutStatus, flash
<1>9. CASE Step
  BY <1>1, <1>4, <1>6, <1>9 DEF Step, Boot, ClearErase, ClearFormat, NoRoom, VerifyDestination,
     WriteHeader, CopyDone, DirectDone, Activate, Deactivate, flash
<1>10. CASE Call \/ Fault
  BY <1>1, <1>4, <1>7, <1>10 DEF Call, Clear, PerformPendingErase, Put, Fault, StatusFault, flash
<1>. QED  BY <1>1, <1>8, <1>9, <1>10 DEF Next, vars

(* The sets the loops of a swap go through are finite. *)
LEMMA TodoFacts ==
  ASSUME SInv, pc \in {"append", "copy", "direct"}, todo # {}
  PROVE  /\ IsFiniteSet(todo) /\ Cardinality(todo) \in Nat \ {0} /\ Min(todo) \in todo
         /\ Cardinality(todo \ {Min(todo)}) = Cardinality(todo) - 1
<1>1. Min(todo) \in todo
  BY RecordToWriteType DEF SInv, IInv
<1>2. IsFiniteSet(todo)
  <2>1. CASE pc = "copy"
    <3>1. todo \in SUBSET (0 .. Capacity - 1)
      BY <2>1 DEF SInv, RoomInv, Cells
    <3>2. IsFiniteSet(0 .. Capacity - 1)
      BY CapacityFacts, FS_Interval
    <3>. QED  BY <3>1, <3>2, FS_Subset
  <2>2. CASE pc # "copy"
    <3>1. todo \in SUBSET (DOMAIN req.data) /\ req \in Requests
      BY <2>2 DEF SInv, IInv, TypeOK, RoomInv, PutPCs
    <3>2. DOMAIN req.data = 1 .. Len(req.data) /\ Len(req.data) \in Nat
      BY <3>1, RequestAssumption
    <3>3. IsFiniteSet(1 .. Len(req.data))
      BY <3>2, FS_Interval
    <3>. QED  BY <3>1, <3>2, <3>3, FS_Subset
  <2>. QED  BY <2>1, <2>2
<1>3. Cardinality(todo) \in Nat /\ Cardinality(todo) # 0
  BY <1>2, FS_CardinalityType, FS_EmptySet
<1>4. Cardinality(todo \ {Min(todo)}) = Cardinality(todo) - 1
  BY <1>1, <1>2, FS_RemoveElement
<1>. QED  BY <1>1, <1>2, <1>3, <1>4

(* The records to be copied and those of the put are of different cells. *)
LEMMA CopyFits ==
  ASSUME IndicesKept, SInv, pc = "header"
  PROVE  /\ CopyIndices \subseteq Cells
         /\ Cardinality(CopyIndices) \in Nat
         /\ Cardinality(CopyIndices) + Len(req.data) <= Capacity
<1>1. /\ req \in Requests /\ req.begin + Len(req.data) <= Capacity
      /\ active \in Page /\ IndexInv /\ TypeOK
  BY DEF SInv, IInv, RoomInv, PutPCs, PhaseInv
<1>2. /\ req.begin \in Nat /\ Len(req.data) \in Nat \ {0}
      /\ IndexEnd(req) = req.begin + Len(req.data)
  BY <1>1, RequestFacts DEF IndicesKept
<1>. DEFINE X == req.begin .. req.begin + Len(req.data) - 1
<1>3. CopyIndices \subseteq Cells
  <2>. SUFFICES ASSUME NEW i \in CopyIndices PROVE i \in Cells
    OBVIOUS
  <2>1. PICK s \in Readable(active) : cell[active][s].index = i
    BY DEF CopyIndices, Hits
  <2>2. s \in Slot(active) /\ Valid(cell[active][s])
    <3>1. s \in 1 .. s
      BY <2>1, LastSlotFact, <1>1 DEF Readable, Slot
    <3>. QED  BY <3>1 DEF Readable
  <2>. QED  BY <1>1, <2>1, <2>2 DEF IndexInv, Valid
<1>4. X \subseteq Cells /\ \A i \in CopyIndices : i \notin X
  BY <1>1, <1>2, <1>3, CapacityFacts DEF Cells, CopyIndices, InRange
<1>5. IsFiniteSet(Cells) /\ Cardinality(Cells) = Capacity
  <2>1. 0 \in Int /\ Capacity - 1 \in Int
    BY CapacityFacts
  <2>2. /\ IsFiniteSet(0 .. Capacity - 1)
        /\ Cardinality(0 .. Capacity - 1) = IF 0 > Capacity - 1 THEN 0 ELSE (Capacity - 1) - 0 + 1
    BY <2>1, FS_Interval
  <2>3. (IF 0 > Capacity - 1 THEN 0 ELSE (Capacity - 1) - 0 + 1) = Capacity
    BY CapacityFacts
  <2>. QED  BY <2>2, <2>3 DEF Cells
<1>6. IsFiniteSet(X) /\ Cardinality(X) = Len(req.data)
  <2>1. req.begin \in Int /\ req.begin + Len(req.data) - 1 \in Int
    BY <1>2
  <2>2. /\ IsFiniteSet(X)
        /\ Cardinality(X) = IF req.begin > req.begin + Len(req.data) - 1 THEN 0
                            ELSE (req.begin + Len(req.data) - 1) - req.begin + 1
    BY <2>1, FS_Interval
  <2>. QED  BY <1>2, <2>2
<1>. HIDE DEF X
<1>7. IsFiniteSet(CopyIndices) /\ Cardinality(CopyIndices) \in Nat
  BY <1>3, <1>5, FS_Subset, FS_CardinalityType
<1>8. IsFiniteSet(CopyIndices \cup X) /\ Cardinality(CopyIndices \cup X) <= Capacity
  <2>1. CopyIndices \cup X \in SUBSET Cells
    BY <1>3, <1>4
  <2>. QED  BY <1>5, <2>1, FS_Subset
<1>9. Cardinality(CopyIndices \cup X) = Cardinality(CopyIndices) + Cardinality(X)
  <2>1. /\ IsFiniteSet(CopyIndices \cup X)
        /\ Cardinality(CopyIndices \cup X) =
             Cardinality(CopyIndices) + Cardinality(X) - Cardinality(CopyIndices \cap X)
    BY <1>6, <1>7, FS_Union
  <2>2. CopyIndices \cap X = {} /\ Cardinality({}) = 0
    BY <1>4, FS_EmptySet
  <2>3. Cardinality(CopyIndices \cap X) = 0
    BY <2>2
  <2>4. Cardinality(X) \in Nat
    BY <1>2, <1>6
  <2>. QED  BY <1>7, <2>1, <2>3, <2>4
<1>. QED  BY <1>3, <1>6, <1>7, <1>8, <1>9

LEMMA RoomNext ==
  ASSUME IndicesKept, SInv, [Next]_vars
  PROVE  RoomInv'
<1>0. TypeOK /\ RoomInv
  BY DEF SInv, IInv
<1>1. ASSUME pc' \notin PutPCs PROVE RoomInv'
  BY <1>1 DEF RoomInv, PutPCs
<1>2. ASSUME pc \in PutPCs, req' = req, pc' \in PutPCs \ {"copy", "direct"} PROVE RoomInv'
  BY <1>0, <1>2 DEF RoomInv, PutPCs
<1>3. SwapFailed /\ pc \in PutPCs => RoomInv'
  BY <1>1, <1>2 DEF SwapFailed, StartSwap, Return, PutPCs
<1>4. ASSUME pc \in {"append", "copy", "direct"}, todo # {}, RecordWritten
      PROVE  RoomInv'
  <2>1. CASE pc = "append"
    BY <1>1, <1>2, <1>4, <2>1 DEF RecordWritten, PutPCs
  <2>2. CASE pc \in {"copy", "direct"}
    <3>1. pc' = pc /\ req' = req /\ todo' = todo \ {Min(todo)} /\ wa' = wa + 1
      BY <1>4, <2>2 DEF RecordWritten
    <3>2. Cardinality(todo') = Cardinality(todo) - 1 /\ Cardinality(todo) \in Nat
      BY <1>4, <3>1, TodoFacts
    <3>3. wa \in Nat
      BY <1>0, LastSlotFact DEF TypeOK
    <3>4. req \in Requests /\ Len(req.data) \in Nat
      BY <1>0, <2>2, RequestAssumption DEF RoomInv, PutPCs
    <3>. QED  BY <1>0, <2>2, <3>1, <3>2, <3>3, <3>4, CapacityFacts DEF RoomInv, PutPCs
  <2>. QED  BY <1>4, <2>1, <2>2
<1>5. CASE WriteNextRecord
  <2>1. RecordWritten \/ WriteFailed
    BY <1>5 DEF WriteNextRecord
  <2>2. pc \in {"append", "copy", "direct"} /\ todo # {}
    BY <1>5 DEF WriteNextRecord
  <2>. QED  BY <1>2, <1>3, <1>4, <2>1, <2>2 DEF WriteFailed, StartSwap, PutPCs
<1>6. CASE NoRoom \/ Fault
  BY <1>2, <1>3, <1>6 DEF NoRoom, Fault, RecordFault, StatusFault, WriteFailed, StartSwap, PutPCs
<1>7. CASE WriteHeader
  <2>1. CASE pc' = "copy"
    <3>1. pc = "header" /\ req' = req /\ wa' = 1 /\ todo' = CopyIndices
      BY <1>7, <2>1 DEF WriteHeader
    <3>2. /\ CopyIndices \subseteq Cells /\ Cardinality(CopyIndices) \in Nat
          /\ Cardinality(CopyIndices) + Len(req.data) <= Capacity
      BY <3>1, CopyFits
    <3>3. req \in Requests /\ req.begin + Len(req.data) <= Capacity /\ Len(req.data) \in Nat
      BY <1>0, <3>1, RequestAssumption DEF RoomInv, PutPCs
    <3>. QED  BY <2>1, <3>1, <3>2, <3>3, CapacityFacts DEF RoomInv
  <2>2. CASE pc' # "copy"
    BY <1>2, <1>7, <2>2 DEF WriteHeader, PutPCs
  <2>. QED  BY <2>1, <2>2
<1>8. CASE CopyDone
  <2>1. /\ pc = "copy" /\ todo = {} /\ pc' = "direct" /\ req' = req /\ wa' = wa
        /\ todo' = {n \in DOMAIN req.data : req.data[n] # FLASH_ERASED}
    BY <1>8 DEF CopyDone
  <2>2. /\ req \in Requests /\ req.begin + Len(req.data) <= Capacity
        /\ wa >= 1 /\ wa + Cardinality(todo) + Len(req.data) <= Capacity + 1
    BY <1>0, <2>1 DEF RoomInv, PutPCs
  <2>3. Len(req.data) \in Nat /\ DOMAIN req.data = 1 .. Len(req.data) /\ wa \in Nat
    BY <1>0, <2>2, RequestAssumption, LastSlotFact DEF TypeOK
  <2>4. IsFiniteSet(1 .. Len(req.data)) /\ Cardinality(1 .. Len(req.data)) = Len(req.data)
    <3>1. /\ IsFiniteSet(1 .. Len(req.data))
          /\ Cardinality(1 .. Len(req.data)) = IF 1 > Len(req.data) THEN 0 ELSE Len(req.data) - 1 + 1
      <4>1. 1 \in Int /\ Len(req.data) \in Int
        BY <2>3
      <4>. QED  BY <4>1, FS_Interval
    <3>. QED  BY <2>3, <3>1
  <2>5. todo' \in SUBSET (1 .. Len(req.data))
    BY <2>1, <2>3
  <2>6. Cardinality(todo') \in Nat /\ Cardinality(todo') <= Len(req.data)
    BY <2>4, <2>5, FS_Subset, FS_CardinalityType
  <2>7. Cardinality(todo) = 0
    BY <2>1, FS_EmptySet
  <2>8. wa' + Cardinality(todo') <= Capacity + 1
    BY <2>1, <2>2, <2>3, <2>6, <2>7, CapacityFacts
  <2>. QED  BY <2>1, <2>2, <2>8 DEF RoomInv
<1>9. CASE \E r \in Requests : Put(r)
  <2>1. PICK r \in Requests : Put(r)
    BY <1>9
  <2>2. req' = r /\ IndexEnd(r) <= Capacity /\ pc' \in {"append", "verify"}
    BY <2>1 DEF Put, StartSwap
  <2>3. r.begin + Len(r.data) <= Capacity
    BY <2>2, RequestFacts DEF IndicesKept
  <2>. QED  BY <2>2, <2>3 DEF RoomInv
<1>10. CASE VerifyDestination \/ DirectDone \/ Activate \/ Deactivate
  BY <1>1, <1>2, <1>3, <1>10
  DEF VerifyDestination, DirectDone, Activate, Deactivate, Return, PutPCs
<1>11. CASE Boot \/ ClearErase \/ ClearFormat \/ Clear \/ PerformPendingErase \/ Crash
  BY <1>1, <1>11
  DEF Boot, ClearErase, ClearFormat, Return, Clear, PerformPendingErase, Crash, PutPCs
<1>12. CASE UNCHANGED vars
  BY <1>0, <1>12 DEF vars, RoomInv
<1>. QED  BY <1>5, <1>6, <1>7, <1>8, <1>9, <1>10, <1>11, <1>12 DEF Next, Step, Call

LEMMA InitSInv == Init => SInv
<1>. SUFFICES ASSUME Init PROVE SInv
  OBVIOUS
<1>1. IndexInv
  BY DEF Init, IndexInv, ErasedPage, ErasedRecord
<1>2. RoomInv
  BY DEF Init, RoomInv, PutPCs
<1>. QED  BY <1>1, <1>2, InitIInv DEF SInv

LEMMA NextSInv ==
  ASSUME IndicesKept
  PROVE  SInv /\ [Next]_vars => SInv'
BY IndexNext, RoomNext, NextIInv DEF SInv, IndicesKept

(* A swap never runs out of slots: the destination has one for every record *)
(* that is copied and every byte of the put, however often swaps were cut   *)
(* short or writes failed before.                                           *)
THEOREM SwapAlwaysFits ==
  ASSUME IndicesKept
  PROVE  Spec => []SwapFits
<1>1. SInv => SwapFits
  <2>. SUFFICES ASSUME SInv, pc \in {"copy", "direct"}, todo # {}
                PROVE  WriteSlot \in Slot(alternate)
    BY DEF SwapFits
  <2>1. Cardinality(todo) \in Nat \ {0} /\ wa \in Nat /\ alternate \in Page
    BY TodoFacts, LastSlotFact DEF SInv, IInv, TypeOK, PhaseInv, PutPCs, Page, Other
  <2>2. wa >= 1 /\ wa + Cardinality(todo) <= Capacity + 1
    <3>1. req \in Requests /\ Len(req.data) \in Nat
      BY RequestAssumption DEF SInv, RoomInv, PutPCs
    <3>. QED  BY <2>1, <3>1, CapacityFacts DEF SInv, RoomInv
  <2>3. wa \in 1 .. Slots[alternate]
    BY <2>1, <2>2, CapacityFacts, LastSlotFact
  <2>. QED  BY <2>3 DEF WriteSlot, Slot
<1>. QED  BY <1>1, InitSInv, NextSInv, PTL DEF Spec

-----------------------------------------------------------------------------
(* Reading a page, between steps.                                           *)

(* The readable records are those before the first that is not valid. *)
ReadableFact ==
  \A p \in Page :
    /\ Readable(p) = 1 .. FirstFree(p) - 1
    /\ FirstFree(p) \in 1 .. Slots[p] + 1
    /\ FirstFree(p) \in Slot(p) => ~Valid(cell[p][FirstFree(p)])

LEMMA ReadableNow == ReadableFact
<1>. SUFFICES ASSUME NEW p \in Page
              PROVE  /\ Readable(p) = 1 .. FirstFree(p) - 1
                     /\ FirstFree(p) \in Slot(p) => ~Valid(cell[p][FirstFree(p)])
  BY FirstFreeType DEF ReadableFact
<1>1. Slots[p] \in Nat \ {0} /\ Slot(p) = 1 .. Slots[p] /\ Readable(p) \subseteq 1 .. Slots[p]
  BY SlotsAssumption DEF Readable, Slot
<1>2. CASE Readable(p) = {}
  <2>1. FirstFree(p) = 1
    BY <1>2, FS_EmptySet DEF FirstFree
  <2>2. ~Valid(cell[p][1])
    <3>1. 1 \in Slot(p) /\ \A t \in 1 .. 1 : t = 1
      BY <1>1
    <3>. QED  BY <1>2, <3>1 DEF Readable
  <2>3. 1 .. FirstFree(p) - 1 = {}
    BY <2>1
  <2>. QED  BY <1>2, <2>1, <2>2, <2>3
<1>3. CASE Readable(p) # {}
  <2>. DEFINE m == Max(Readable(p))
  <2>1. m \in Readable(p) /\ \A s \in Readable(p) : m >= s
    BY <1>1, <1>3, MaxIsMember
  <2>2. m \in Nat /\ m \in 1 .. Slots[p]
    BY <1>1, <2>1
  <2>. HIDE DEF m
  <2>3. \A t \in 1 .. m : Valid(cell[p][t]) /\ t \in Slot(p)
    BY <1>1, <2>1, <2>2 DEF Readable
  <2>4. Readable(p) = 1 .. m
    <3>1. ASSUME NEW s \in 1 .. m PROVE s \in Readable(p)
      <4>1. \A t \in 1 .. s : t \in 1 .. m
        BY <2>2
      <4>. QED  BY <2>3, <4>1 DEF Readable
    <3>2. ASSUME NEW s \in Readable(p) PROVE s \in 1 .. m
      BY <1>1, <2>1, <2>2
    <3>. QED  BY <3>1, <3>2
  <2>5. FirstFree(p) = m + 1
    <3>1. 1 \in Int /\ m \in Int
      BY <2>2
    <3>2. Cardinality(1 .. m) = IF 1 > m THEN 0 ELSE m - 1 + 1
      BY <3>1, FS_Interval
    <3>. QED  BY <2>2, <2>4, <3>2 DEF FirstFree
  <2>6. ASSUME m + 1 \in Slot(p) PROVE ~Valid(cell[p][m + 1])
    <3>. SUFFICES ASSUME Valid(cell[p][m + 1]) PROVE FALSE
      OBVIOUS
    <3>1. \A t \in 1 .. m + 1 : t \in 1 .. m \/ t = m + 1
      BY <2>2
    <3>2. m + 1 \in Readable(p)
      BY <2>3, <2>6, <3>1 DEF Readable
    <3>. QED  BY <2>2, <2>4, <3>2
  <2>. QED  BY <2>2, <2>4, <2>5, <2>6
<1>. QED  BY <1>2, <1>3

LEMMA ReadableNext == ReadableFact'
BY ReadableNow, PTL

(* What ends the scan. *)
EndFact ==
  \A p \in Page : \A f \in 1 .. Slots[p] + 1 :
    /\ \A s \in 1 .. f - 1 : Valid(cell[p][s])
    /\ f \in Slot(p) => ~Valid(cell[p][f])
    => Readable(p) = 1 .. f - 1 /\ FirstFree(p) = f

LEMMA EndNow == EndFact
<1>. SUFFICES ASSUME NEW p \in Page, NEW f \in 1 .. Slots[p] + 1,
                     \A s \in 1 .. f - 1 : Valid(cell[p][s]),
                     f \in Slot(p) => ~Valid(cell[p][f])
              PROVE  Readable(p) = 1 .. f - 1 /\ FirstFree(p) = f
  BY DEF EndFact
<1>1. Slots[p] \in Nat \ {0} /\ Slot(p) = 1 .. Slots[p] /\ f \in Nat
  BY SlotsAssumption DEF Slot
<1>2. FirstFree(p) \in 1 .. Slots[p] + 1 /\ Readable(p) = 1 .. FirstFree(p) - 1
  BY ReadableNow DEF ReadableFact
<1>. DEFINE g == FirstFree(p)
<1>. HIDE DEF g
<1>3. g \in 1 .. Slots[p] + 1 /\ Readable(p) = 1 .. g - 1
  BY <1>2 DEF g
<1>4. ~(g < f)
  <2>. SUFFICES ASSUME g < f PROVE FALSE
    OBVIOUS
  <2>1. g \in 1 .. f - 1 /\ g \in Slot(p)
    BY <1>1, <1>3
  <2>. QED  BY <2>1, ReadableNow DEF ReadableFact, g
<1>5. ~(f < g)
  <2>. SUFFICES ASSUME f < g PROVE FALSE
    OBVIOUS
  <2>1. f \in Readable(p) /\ f \in Slot(p) /\ f \in 1 .. f
    BY <1>1, <1>3
  <2>. QED  BY <2>1 DEF Readable
<1>6. g = f
  BY <1>1, <1>3, <1>4, <1>5
<1>. QED  BY <1>3, <1>6 DEF g

LEMMA EndNext == EndFact'
BY EndNow, PTL

(* The record whose data a cell has. *)
HitFact ==
  \A p \in Page : \A i :
    /\ Hits(p, i) = {} => Value(p, i) = FLASH_ERASED
    /\ Hits(p, i) # {} => /\ Max(Hits(p, i)) \in Hits(p, i)
                          /\ \A s \in Hits(p, i) : Max(Hits(p, i)) >= s
                          /\ Value(p, i) = cell[p][Max(Hits(p, i))].data

LEMMA HitNow == HitFact
<1>. SUFFICES ASSUME NEW p \in Page, NEW i
              PROVE  /\ Hits(p, i) = {} => Value(p, i) = FLASH_ERASED
                     /\ Hits(p, i) # {} => /\ Max(Hits(p, i)) \in Hits(p, i)
                                           /\ \A s \in Hits(p, i) : Max(Hits(p, i)) >= s
                                           /\ Value(p, i) = cell[p][Max(Hits(p, i))].data
  BY DEF HitFact
<1>1. Slots[p] \in Nat /\ Hits(p, i) \subseteq 1 .. Slots[p] /\ p # NoPage
  BY LastSlotFact DEF Hits, Readable, Slot, Page, NoPage
<1>2. Hits(p, i) # {} =>
        Max(Hits(p, i)) \in Hits(p, i) /\ \A s \in Hits(p, i) : Max(Hits(p, i)) >= s
  BY <1>1, MaxIsMember
<1>. QED  BY <1>1, <1>2 DEF Value

LEMMA HitNext == HitFact'
BY HitNow, PTL

(* A page that does not change reads the same. *)
LEMMA SamePage ==
  ASSUME NEW p \in Page, cell'[p] = cell[p]
  PROVE  /\ Readable(p)' = Readable(p) /\ FirstFree(p)' = FirstFree(p)
         /\ \A i : Hits(p, i)' = Hits(p, i) /\ Value(p, i)' = Value(p, i)
<1>1. Readable(p)' = Readable(p)
  BY DEF Readable
<1>2. \A i : Hits(p, i)' = Hits(p, i)
  BY <1>1 DEF Hits
<1>. QED  BY <1>1, <1>2 DEF FirstFree, Value

(* So does one that changes only behind a record that is not valid. *)
LEMMA BehindTheEnd ==
  ASSUME NEW p \in Page, \A s \in 1 .. FirstFree(p) - 1 : cell'[p][s] = cell[p][s],
         FirstFree(p) \in Slot(p) => ~Valid(cell'[p][FirstFree(p)])
  PROVE  /\ Readable(p)' = Readable(p) /\ FirstFree(p)' = FirstFree(p)
         /\ \A i : Value(p, i)' = Value(p, i)
<1>1. /\ Readable(p) = 1 .. FirstFree(p) - 1 /\ FirstFree(p) \in 1 .. Slots[p] + 1
  BY ReadableNow DEF ReadableFact
<1>2. PICK f \in 1 .. Slots[p] + 1 : f = FirstFree(p)
  BY <1>1
<1>3. Slots[p] \in Nat /\ f \in Nat
  BY LastSlotFact
<1>4. \A s \in 1 .. f - 1 : Valid(cell'[p][s])
  <2>. SUFFICES ASSUME NEW s \in 1 .. f - 1 PROVE Valid(cell[p][s])
    BY <1>2
  <2>1. s \in Readable(p) /\ s \in 1 .. s
    BY <1>1, <1>2, <1>3
  <2>. QED  BY <2>1 DEF Readable
<1>5. /\ \A s \in 1 .. f - 1 : Valid(cell[p][s])'
      /\ f \in Slot(p) => ~Valid(cell[p][f])'
  BY <1>2, <1>4 DEF Valid
<1>6. Readable(p)' = 1 .. f - 1 /\ FirstFree(p)' = f
  BY <1>5, EndNext DEF EndFact, Slot
<1>7. ASSUME NEW i PROVE Value(p, i)' = Value(p, i)
  <2>1. Hits(p, i)' = Hits(p, i)
    BY <1>1, <1>2, <1>6 DEF Hits
  <2>2. CASE Hits(p, i) = {}
    BY <2>1, <2>2, HitNow, HitNext DEF HitFact
  <2>3. CASE Hits(p, i) # {}
    <3>1. Max(Hits(p, i)) \in 1 .. f - 1
      BY <1>1, <1>2, <2>3, HitNow DEF HitFact, Hits
    <3>2. cell'[p][Max(Hits(p, i))] = cell[p][Max(Hits(p, i))]
      BY <1>2, <3>1
    <3>. QED  BY <2>1, <2>3, <3>2, HitNow, HitNext DEF HitFact
  <2>. QED  BY <2>2, <2>3
<1>. QED  BY <1>1, <1>2, <1>6, <1>7

(* What reads back after a reset depends on the first active page. *)
LEMMA SameContents ==
  ASSUME FirstActive' = FirstActive,
         \A p \in Page : FirstActive = p => \A i \in Cells : Value(p, i)' = Value(p, i)
  PROVE  Contents' = Contents
<1>1. FirstActive \in Page \cup {NoPage}
  BY DEF FirstActive, Page, NoPage
<1>2. CASE FirstActive = NoPage
  BY <1>2 DEF Contents, Value, Cells, Capacity
<1>3. CASE FirstActive \in Page
  <2>1. PICK p \in Page : FirstActive = p
    BY <1>3
  <2>2. Contents = [i \in Cells |-> Value(p, i)]
    BY <2>1 DEF Contents
  <2>3. Contents' = [i \in Cells |-> Value(p, i)']
    BY <2>1 DEF Contents, Cells, Capacity
  <2>. QED  BY <2>1, <2>2, <2>3
<1>. QED  BY <1>1, <1>2, <1>3

-----------------------------------------------------------------------------
(* A put is atomic.                                                         *)

(* The store reads back what it writes, and a write that fails does not     *)
(* leave a record that can be read.                                         *)
FaultsShow == IndicesKept /\ VerifyWrites /\ \A c \in FaultCells : ~Valid(c)

(* What a cell is to be when the put is done. *)
Target(i) == IF i \in DOMAIN Update THEN Update[i] ELSE Value(active, i)

Exact(p, s) == /\ cell[p][s].index \in Index \ {EMPTY_INDEX}
               /\ cell[p][s] = RecordOf(cell[p][s].index, Target(cell[p][s].index))

(* Appending: the records go in from the last to the first, and the slot    *)
(* where the scan ends stays empty until the end.                           *)
AppendEnd == FirstFree(active) + Cardinality(Changed(req))

AppendInv ==
  pc = "append" =>
    /\ FirstFree(active) \in Slot(active) /\ Empty(cell[active][FirstFree(active)])
    /\ AppendEnd <= Slots[active] + 1
    /\ AppendEnd \in Slot(active) => Empty(cell[active][AppendEnd])
    /\ todo # {} /\ todo \subseteq Changed(req)
    /\ wa = FirstFree(active) + Cardinality(todo)
    /\ \A s \in wa .. AppendEnd - 1 :
         Exact(active, s) /\ \E n \in Changed(req) \ todo : cell[active][s].index = IndexOf(req, n)
    /\ \A n \in Changed(req) \ todo :
         \E s \in wa .. AppendEnd - 1 : cell[active][s].index = IndexOf(req, n)

(* Swapping: the destination holds nothing but what the cells are to be,    *)
(* and all of it but what is still to be written.                           *)
Pending == IF pc = "copy" THEN todo \cup DOMAIN Update ELSE {IndexOf(req, n) : n \in todo}

DestInv ==
  pc \in {"copy", "direct"} =>
    /\ wa \in 1 .. Slots[alternate] + 1
    /\ \A s \in 1 .. wa - 1 : Exact(alternate, s)
    /\ \A s \in wa .. Slots[alternate] : Empty(cell[alternate][s])
    /\ \A i \in Cells \ Pending :
         Target(i) = FLASH_ERASED \/ \E s \in 1 .. wa - 1 : cell[alternate][s].index = i
    /\ pc = "copy" => todo \subseteq CopyIndices

DoneInv == pc \in {"activate", "deactivate"} => \A i \in Cells : Value(alternate, i) = Target(i)

IdleInv == pc \notin PutPCs => req = NoRequest

AInv == SInv /\ AppendInv /\ DestInv /\ DoneInv /\ IdleInv

(* The bytes of a put by cell. *)
LEMMA UpdateFacts ==
  ASSUME FaultsShow, RoomInv, pc \in PutPCs
  PROVE  /\ DOMAIN Update = {IndexOf(req, n) : n \in DOMAIN req.data}
         /\ \A n \in DOMAIN req.data : /\ IndexOf(req, n) \in Cells
                                       /\ IndexOf(req, n) \in Index \ {EMPTY_INDEX}
                                       /\ Update[IndexOf(req, n)] = req.data[n]
         /\ \A m, n \in DOMAIN req.data : IndexOf(req, m) = IndexOf(req, n) => m = n
         /\ \A i \in Cells : i \in DOMAIN Update <=> InRange(req, i)
<1>1. req \in Requests /\ req.begin + Len(req.data) <= Capacity
  BY DEF RoomInv
<1>2. /\ req.begin \in Nat /\ Len(req.data) \in Nat \ {0} /\ DOMAIN req.data = 1 .. Len(req.data)
      /\ IndexEnd(req) = req.begin + Len(req.data)
      /\ \A n \in DOMAIN req.data : IndexOf(req, n) = req.begin + n - 1
      /\ \A n \in DOMAIN req.data : IndexOf(req, n) \in Cells
  BY <1>1, RequestFacts DEF FaultsShow, IndicesKept
<1>3. \A m, n \in DOMAIN req.data : IndexOf(req, m) = IndexOf(req, n) => m = n
  BY <1>2
<1>4. DOMAIN Update = {IndexOf(req, n) : n \in DOMAIN req.data}
  BY DEF Update
<1>5. ASSUME NEW n \in DOMAIN req.data PROVE Update[IndexOf(req, n)] = req.data[n]
  <2>1. Update[IndexOf(req, n)] =
          req.data[CHOOSE k \in DOMAIN req.data : IndexOf(req, k) = IndexOf(req, n)]
    BY DEF Update
  <2>2. (CHOOSE k \in DOMAIN req.data : IndexOf(req, k) = IndexOf(req, n)) = n
    BY <1>3
  <2>. QED  BY <2>1, <2>2
<1>6. ASSUME NEW i \in Cells PROVE i \in DOMAIN Update <=> InRange(req, i)
  <2>1. i \in Nat
    BY CapacityFacts DEF Cells
  <2>2. ASSUME InRange(req, i) PROVE i \in DOMAIN Update
    <3>1. i - req.begin + 1 \in DOMAIN req.data
      BY <1>2, <2>1, <2>2 DEF InRange
    <3>2. IndexOf(req, i - req.begin + 1) = i
      BY <1>2, <2>1, <3>1
    <3>. QED  BY <1>4, <3>1, <3>2
  <2>3. ASSUME i \in DOMAIN Update PROVE InRange(req, i)
    BY <1>2, <1>4, <2>1, <2>3 DEF InRange
  <2>. QED  BY <2>2, <2>3
<1>7. ASSUME NEW n \in DOMAIN req.data PROVE IndexOf(req, n) \in Index \ {EMPTY_INDEX}
  <2>1. req.begin + Len(req.data) < IndexCount /\ IndexCount \in Nat
    BY <1>1, WidthFacts DEF FaultsShow, IndicesKept
  <2>2. req.begin + n - 1 \in Nat /\ req.begin + n - 1 < IndexCount - 1
    BY <1>2, <2>1
  <2>. QED  BY <1>2, <2>1, <2>2 DEF Index, EMPTY_INDEX
<1>. QED  BY <1>2, <1>3, <1>4, <1>5, <1>6, <1>7

(* Writing to an empty slot. *)
LEMMA ProgramEmpty ==
  ASSUME NEW r \in Record
  PROVE  /\ Program(ErasedRecord, r, 4) = r
         /\ \A k \in {0, 1, 2} : ~Valid(Program(ErasedRecord, r, k))
<1>. DEFINE L == LoMax + 1
<1>1. LoMax \in Nat \ {0} /\ HiMax \in Nat \ {0} /\ DataMax \in Nat \ {0} /\ L \in Nat
  BY WidthAssumption
<1>2. /\ r.data \in 0 .. DataMax /\ r.status \in 0 .. DataMax /\ r.index \in Index
      /\ EMPTY_INDEX \in Index
  BY WidthFacts DEF Record, Byte
<1>3. EMPTY_INDEX % L = LoMax /\ EMPTY_INDEX \div L = HiMax
  <2>. DEFINE q == EMPTY_INDEX \div L
              m == EMPTY_INDEX % L
  <2>1. m \in 0 .. LoMax /\ q \in 0 .. HiMax /\ q * L + m = EMPTY_INDEX
    BY <1>2, IndexParts
  <2>2. EMPTY_INDEX = L * (HiMax + 1) - 1
    BY DEF EMPTY_INDEX, IndexCount
  <2>. HIDE DEF q, m
  <2>3. EMPTY_INDEX = HiMax * L + LoMax
    BY <1>1, <2>2
  <2>4. q = HiMax
    <3>. SUFFICES ASSUME q <= HiMax - 1 PROVE FALSE
      BY <1>1, <2>1
    <3>1. q * L <= (HiMax - 1) * L
      BY <1>1, <2>1
    <3>2. (HiMax - 1) * L = HiMax * L - L
      BY <1>1
    <3>. QED  BY <1>1, <2>1, <2>3, <3>1, <3>2
  <2>5. m = LoMax
    BY <1>1, <2>1, <2>3, <2>4
  <2>. QED  BY <2>4, <2>5 DEF q, m
<1>4. ProgramIndex(EMPTY_INDEX, r.index, 4) = r.index
  <2>1. r.index % L \in 0 .. LoMax /\ r.index \div L \in 0 .. HiMax
        /\ (r.index \div L) * L + (r.index % L) = r.index
    BY <1>2, IndexParts
  <2>2. And(LoMax, r.index % L) = r.index % L /\ And(HiMax, r.index \div L) = r.index \div L
    BY <2>1, AndAssumption, <1>1
  <2>. QED  BY <1>3, <2>1, <2>2 DEF ProgramIndex
<1>5. And(DataMax, r.data) = r.data /\ And(DataMax, r.status) = r.status
  BY <1>1, <1>2, AndAssumption
<1>6. Program(ErasedRecord, r, 4) = r
  <2>1. Program(ErasedRecord, r, 4) = [data |-> r.data, status |-> r.status, index |-> r.index]
    BY <1>4, <1>5 DEF Program, ErasedRecord, FLASH_ERASED
  <2>. QED  BY <2>1 DEF Record
<1>7. ASSUME NEW k \in {0, 1, 2} PROVE ~Valid(Program(ErasedRecord, r, k))
  <2>1. ProgramIndex(EMPTY_INDEX, r.index, k) = EMPTY_INDEX
    BY <1>2, <1>7, ProgrammedIndex
  <2>2. Program(ErasedRecord, r, k).index = EMPTY_INDEX
    BY <2>1 DEF Program, ErasedRecord
  <2>. QED  BY <2>2 DEF Valid
<1>. QED  BY <1>6, <1>7

LEMMA ValidFacts ==
  /\ \A c : Empty(c) => ~Valid(c)
  /\ \A i, d : i # EMPTY_INDEX => Valid(RecordOf(i, d))
  /\ \A i, d : RecordOf(i, d).index = i /\ RecordOf(i, d).data = d
BY DEF Empty, Valid, ErasedRecord, RecordOf

LEMMA PutFacts ==
  ASSUME AInv, pc \in PutPCs
  PROVE  /\ active \in Page /\ alternate \in Page /\ alternate # active
         /\ req \in Requests /\ TypeOK /\ RoomInv
BY DEF AInv, SInv, IInv, PhaseInv, RoomInv, Page, Other

(* The roles, as long as no mark has failed. *)
LEMMA Unmarked ==
  ASSUME IInv, ~MarkFailed, pc \in {"idle"} \cup PutPCs
  PROVE  /\ active \in Page /\ alternate \in Page /\ alternate # active /\ alternate = Other(active)
         /\ status[active] = "ACTIVE" /\ (pc # "deactivate" => active = FirstActive)
BY DEF IInv, PhaseInv, MarkFailed, Page, Other

-----------------------------------------------------------------------------
(* Appending.                                                               *)

(* Where the next record goes. *)
LEMMA AppendFacts ==
  ASSUME FaultsShow, AInv, pc = "append"
  PROVE  /\ Cardinality(todo) \in Nat \ {0} /\ FirstFree(active) \in Nat \ {0}
         /\ wa \in Nat /\ wa - 1 \in Slot(active) /\ FirstFree(active) <= wa - 1
         /\ wa <= AppendEnd /\ AppendEnd \in 1 .. Slots[active] + 1
         /\ (wa - 1 = FirstFree(active) => todo = {Min(todo)})
         /\ Min(todo) \in todo /\ Min(todo) \in DOMAIN req.data
         /\ RecordToWrite = RecordOf(IndexOf(req, Min(todo)), req.data[Min(todo)])
<1>1. active \in Page /\ req \in Requests /\ Slots[active] \in Nat
  BY PutFacts, LastSlotFact DEF PutPCs
<1>2. /\ FirstFree(active) \in Slot(active) /\ AppendEnd <= Slots[active] + 1
      /\ todo # {} /\ todo \subseteq Changed(req) /\ wa = FirstFree(active) + Cardinality(todo)
  BY DEF AInv, AppendInv
<1>3. /\ IsFiniteSet(todo) /\ Cardinality(todo) \in Nat \ {0} /\ Min(todo) \in todo
      /\ Cardinality(todo \ {Min(todo)}) = Cardinality(todo) - 1
  BY <1>2, TodoFacts DEF AInv
<1>4. FirstFree(active) \in Nat \ {0} /\ FirstFree(active) <= Slots[active]
  BY <1>1, <1>2 DEF Slot
<1>5. Changed(req) \subseteq DOMAIN req.data /\ Cardinality(Changed(req)) \in Nat
  BY <1>1, ChangedType
<1>6. Cardinality(todo) <= Cardinality(Changed(req))
  <2>1. IsFiniteSet(Changed(req))
    <3>1. DOMAIN req.data = 1 .. Len(req.data) /\ Len(req.data) \in Nat
      BY <1>1, RequestAssumption
    <3>2. IsFiniteSet(1 .. Len(req.data))
      BY <3>1, FS_Interval
    <3>. QED  BY <1>5, <3>1, <3>2, FS_Subset
  <2>. QED  BY <1>2, <2>1, FS_Subset
<1>7. AppendEnd = FirstFree(active) + Cardinality(Changed(req))
  BY DEF AppendEnd
<1>8. wa <= AppendEnd /\ AppendEnd \in 1 .. Slots[active] + 1 /\ wa \in Nat
  BY <1>1, <1>2, <1>3, <1>4, <1>5, <1>6, <1>7
<1>9. wa - 1 \in 1 .. Slots[active] /\ FirstFree(active) <= wa - 1
  BY <1>1, <1>2, <1>3, <1>4, <1>8
<1>10. ASSUME wa - 1 = FirstFree(active) PROVE todo = {Min(todo)}
  <2>1. Cardinality(todo) = 1
    BY <1>2, <1>3, <1>4, <1>10
  <2>2. Cardinality(todo \ {Min(todo)}) = 0 /\ IsFiniteSet(todo \ {Min(todo)})
    BY <1>3, <2>1, FS_RemoveElement
  <2>3. todo \ {Min(todo)} = {}
    BY <2>2, FS_EmptySet
  <2>. QED  BY <1>3, <2>3
<1>11. Min(todo) \in DOMAIN req.data
  BY <1>2, <1>3, <1>5
<1>12. RecordToWrite = RecordOf(IndexOf(req, Min(todo)), req.data[Min(todo)])
  BY DEF RecordToWrite
<1>. QED  BY <1>3, <1>4, <1>8, <1>9, <1>10, <1>11, <1>12 DEF Slot

(* Until the last record nothing new can be read, whatever is written. *)
LEMMA AppendHidden ==
  ASSUME FaultsShow, AInv, pc = "append", NEW c,
         cell' = [cell EXCEPT ![active][wa - 1] = c],
         wa - 1 = FirstFree(active) => ~Valid(c)
  PROVE  \A p \in Page : /\ FirstFree(p)' = FirstFree(p)
                         /\ \A i : Value(p, i)' = Value(p, i)
<1>. SUFFICES ASSUME NEW p \in Page
              PROVE  FirstFree(p)' = FirstFree(p) /\ \A i : Value(p, i)' = Value(p, i)
  OBVIOUS
<1>0. TypeOK /\ active \in Page
  BY PutFacts DEF PutPCs
<1>1. CASE p # active
  <2>1. cell'[p] = cell[p]
    BY <1>0, <1>1 DEF TypeOK
  <2>. QED  BY <2>1, SamePage
<1>2. CASE p = active
  <2>. DEFINE F == FirstFree(p)
  <2>1. F \in Nat \ {0} /\ wa \in Nat /\ F <= wa - 1 /\ wa - 1 \in Slot(p)
    BY <1>2, AppendFacts
  <2>2. F \in Slot(p) /\ ~Valid(cell[p][F])
    BY <1>2, ValidFacts DEF AInv, AppendInv
  <2>. HIDE DEF F
  <2>3. cell'[p] = [cell[p] EXCEPT ![wa - 1] = c] /\ DOMAIN cell[p] = Slot(p)
    BY <1>0, <1>2 DEF TypeOK
  <2>4. \A s \in 1 .. F - 1 : cell'[p][s] = cell[p][s]
    <3>. SUFFICES ASSUME NEW s \in 1 .. F - 1 PROVE s # wa - 1
      BY <2>3
    <3>. QED  BY <2>1
  <2>5. ~Valid(cell'[p][F])
    BY <1>2, <2>1, <2>2, <2>3 DEF F
  <2>. QED  BY <2>4, <2>5, BehindTheEnd DEF F
<1>. QED  BY <1>1, <1>2

(* The last record makes all of them readable. *)
LEMMA AppendShown ==
  ASSUME FaultsShow, AInv, pc = "append", wa - 1 = FirstFree(active),
         cell' = [cell EXCEPT ![active][wa - 1] = RecordToWrite], NEW i \in Cells
  PROVE  \A p \in Page : p = active => Value(p, i)' = Target(i)
<1>. SUFFICES ASSUME NEW p \in Page, p = active PROVE Value(p, i)' = Target(i)
  OBVIOUS
<1>. DEFINE F == FirstFree(active)
            E == AppendEnd
            n0 == Min(todo)
<1>0. TypeOK /\ active \in Page /\ req \in Requests /\ RoomInv /\ Slots[active] \in Nat
  BY PutFacts, LastSlotFact DEF PutPCs
<1>1. /\ F \in Nat \ {0} /\ wa = F + 1 /\ F \in Slot(active) /\ F < E /\ E \in 1 .. Slots[active] + 1
      /\ todo = {n0} /\ n0 \in DOMAIN req.data
      /\ RecordToWrite = RecordOf(IndexOf(req, n0), req.data[n0])
  BY AppendFacts
<1>2. /\ DOMAIN Update = {IndexOf(req, n) : n \in DOMAIN req.data}
      /\ \A n \in DOMAIN req.data : /\ IndexOf(req, n) \in Cells
                                    /\ IndexOf(req, n) \in Index \ {EMPTY_INDEX}
                                    /\ Update[IndexOf(req, n)] = req.data[n]
      /\ \A m, n \in DOMAIN req.data : IndexOf(req, m) = IndexOf(req, n) => m = n
      /\ i \in DOMAIN Update <=> InRange(req, i)
  BY <1>0, UpdateFacts DEF PutPCs
<1>3. /\ n0 \in Changed(req) /\ Changed(req) \subseteq DOMAIN req.data
      /\ E \in Slot(active) => Empty(cell[active][E])
      /\ \A s \in F + 1 .. E - 1 :
           Exact(active, s) /\ \E n \in Changed(req) \ {n0} : cell[active][s].index = IndexOf(req, n)
      /\ \A n \in Changed(req) \ {n0} :
           \E s \in F + 1 .. E - 1 : cell[active][s].index = IndexOf(req, n)
  <2>1. Changed(req) \subseteq DOMAIN req.data
    BY <1>0, ChangedType
  <2>. QED  BY <1>1, <2>1 DEF AInv, AppendInv
<1>4. cell'[p] = [cell[p] EXCEPT ![F] = RecordToWrite] /\ DOMAIN cell[p] = Slot(p)
  BY <1>0, <1>1 DEF TypeOK
<1>5. Readable(p) = 1 .. F - 1
  BY ReadableNow DEF ReadableFact
<1>6. RecordToWrite.index = IndexOf(req, n0) /\ RecordToWrite.data = Target(IndexOf(req, n0))
      /\ Valid(RecordToWrite)
  BY <1>1, <1>2, ValidFacts DEF Target
<1>. HIDE DEF F, E, n0
<1>7. \A s \in Slot(p) : cell'[p][s] = IF s = F THEN RecordToWrite ELSE cell[p][s]
  BY <1>4
<1>8. \A s \in F .. E - 1 : s \in Slot(p) /\ (s = F \/ s \in F + 1 .. E - 1)
  BY <1>0, <1>1 DEF Slot
(* Every new record is valid, holds what its cell is to be, and is changed. *)
<1>9. ASSUME NEW s \in F .. E - 1
      PROVE  /\ Valid(cell'[p][s]) /\ cell'[p][s].data = Target(cell'[p][s].index)
             /\ \E n \in Changed(req) : cell'[p][s].index = IndexOf(req, n)
  <2>1. CASE s = F
    BY <1>3, <1>6, <1>7, <1>8, <2>1
  <2>2. CASE s # F
    <3>1. cell'[p][s] = cell[active][s] /\ s \in F + 1 .. E - 1
      BY <1>7, <1>8, <2>2
    <3>2. Exact(active, s) /\ \E n \in Changed(req) : cell[active][s].index = IndexOf(req, n)
      BY <1>3, <3>1
    <3>. QED  BY <3>1, <3>2, ValidFacts DEF Exact
  <2>. QED  BY <2>1, <2>2
<1>10. ASSUME NEW n \in Changed(req)
       PROVE  \E s \in F .. E - 1 : cell'[p][s].index = IndexOf(req, n)
  <2>1. CASE n = n0
    <3>1. F \in F .. E - 1
      BY <1>1
    <3>. QED  BY <1>1, <1>6, <1>7, <2>1, <3>1
  <2>2. CASE n # n0
    <3>1. PICK s \in F + 1 .. E - 1 : cell[active][s].index = IndexOf(req, n)
      BY <1>3, <2>2
    <3>2. s \in F .. E - 1 /\ s # F
      BY <1>1, <3>1
    <3>. QED  BY <1>7, <1>8, <3>1, <3>2
  <2>. QED  BY <2>1, <2>2
<1>11. Readable(p)' = 1 .. E - 1
  <2>1. \A s \in 1 .. E - 1 : s \in 1 .. F - 1 \/ s \in F .. E - 1
    BY <1>1
  <2>2. ASSUME NEW s \in 1 .. F - 1 PROVE Valid(cell'[p][s])
    <3>1. s \in Readable(p) /\ s \in 1 .. s /\ s # F
      BY <1>1, <1>5
    <3>2. s \in Slot(p) /\ Valid(cell[p][s])
      BY <3>1 DEF Readable
    <3>. QED  BY <1>7, <3>1, <3>2
  <2>3. \A s \in 1 .. E - 1 : Valid(cell'[p][s])
    BY <1>9, <2>1, <2>2
  <2>4. E \in Slot(p) => ~Valid(cell'[p][E])
    <3>1. E # F
      BY <1>1
    <3>. QED  BY <1>3, <1>7, <3>1, ValidFacts
  <2>5. PICK f \in 1 .. Slots[p] + 1 : f = E
    BY <1>1
  <2>6. /\ \A s \in 1 .. f - 1 : Valid(cell[p][s])'
        /\ f \in Slot(p) => ~Valid(cell[p][f])'
    BY <2>3, <2>4, <2>5 DEF Valid
  <2>7. Readable(p)' = 1 .. f - 1
    BY <2>6, EndNext DEF EndFact, Slot
  <2>. QED  BY <2>5, <2>7
<1>12. \A s \in 1 .. F - 1 : s \in 1 .. E - 1 /\ cell'[p][s] = cell[p][s] /\ s \notin F .. E - 1
  <2>. SUFFICES ASSUME NEW s \in 1 .. F - 1
                PROVE  s \in 1 .. E - 1 /\ s \in Slot(p) /\ s # F /\ s \notin F .. E - 1
    BY <1>7
  <2>. QED  BY <1>0, <1>1 DEF Slot
<1>13. ASSUME ~\E s \in F .. E - 1 : cell'[p][s].index = i
       PROVE  Value(p, i)' = Value(p, i)
  <2>1. \A s \in 1 .. E - 1 : s \in 1 .. F - 1 \/ s \in F .. E - 1
    BY <1>1
  <2>2. Hits(p, i)' = Hits(p, i)
    BY <1>5, <1>11, <1>12, <1>13, <2>1 DEF Hits
  <2>3. CASE Hits(p, i) = {}
    BY <2>2, <2>3, HitNow, HitNext DEF HitFact
  <2>4. CASE Hits(p, i) # {}
    <3>1. Max(Hits(p, i)) \in 1 .. F - 1
      BY <1>5, <2>4, HitNow DEF HitFact, Hits
    <3>2. cell'[p][Max(Hits(p, i))] = cell[p][Max(Hits(p, i))]
      BY <1>12, <3>1
    <3>. QED  BY <2>2, <2>4, <3>2, HitNow, HitNext DEF HitFact
  <2>. QED  BY <2>3, <2>4
<1>14. CASE \E s \in F .. E - 1 : cell'[p][s].index = i
  <2>1. PICK s \in F .. E - 1 : cell'[p][s].index = i
    BY <1>14
  <2>2. s \in Hits(p, i)'
    <3>1. s \in 1 .. E - 1
      BY <1>1
    <3>. QED  BY <1>11, <2>1, <3>1 DEF Hits
  <2>. DEFINE m == Max(Hits(p, i)')
  <2>3. m \in Hits(p, i)' /\ m >= s /\ Value(p, i)' = cell'[p][m].data
    BY <2>2, HitNext DEF HitFact
  <2>4. m \in 1 .. E - 1 /\ cell'[p][m].index = i
    BY <1>11, <2>3 DEF Hits
  <2>. HIDE DEF m
  <2>5. m \in F .. E - 1
    BY <1>1, <2>3, <2>4
  <2>. QED  BY <1>9, <2>3, <2>4, <2>5
<1>15. CASE ~\E s \in F .. E - 1 : cell'[p][s].index = i
  <2>1. Value(p, i)' = Value(active, i)
    BY <1>13, <1>15
  <2>2. CASE i \notin DOMAIN Update
    BY <2>1, <2>2 DEF Target
  <2>3. CASE i \in DOMAIN Update
    <3>1. PICK n \in DOMAIN req.data : i = IndexOf(req, n)
      BY <1>2, <2>3
    <3>2. n \notin Changed(req)
      BY <1>10, <1>15, <3>1
    <3>3. Existing(req, n) = req.data[n] /\ InRange(req, IndexOf(req, n))
      BY <1>2, <2>3, <3>1, <3>2 DEF Changed
    <3>4. Value(active, i) = req.data[n]
      BY <3>1, <3>3 DEF Existing
    <3>. QED  BY <1>2, <2>1, <2>3, <3>1, <3>4 DEF Target
  <2>. QED  BY <2>2, <2>3
<1>. QED  BY <1>14, <1>15

-----------------------------------------------------------------------------
(* The inductive invariant of atomicity is kept.                            *)

(* What the put aims at does not move while the active page reads the same. *)
LEMMA SameTarget ==
  ASSUME NEW p \in Page, active = p, active' = p, req' = req,
         \A i : Value(p, i)' = Value(p, i)
  PROVE  /\ Update' = Update /\ Changed(req)' = Changed(req)
         /\ \A i : Target(i)' = Target(i)
<1>1. Update' = Update
  BY DEF Update, IndexOf, IndexCount
<1>2. \A i : Value(active, i)' = Value(active, i)
  OBVIOUS
<1>3. \A n : Existing(req, n)' = Existing(req, n)
  BY <1>2 DEF Existing, InRange, IndexOf, IndexEnd, IndexCount
<1>4. Changed(req)' = Changed(req)
  BY <1>3 DEF Changed
<1>5. \A i : Target(i)' = Target(i)
  BY <1>1, <1>2 DEF Target
<1>. QED  BY <1>1, <1>4, <1>5

(* A record that is appended and is not the last. *)
LEMMA AppendStep ==
  ASSUME FaultsShow, AInv, pc = "append", wa - 1 # FirstFree(active),
         cell' = [cell EXCEPT ![active][wa - 1] = RecordToWrite],
         pc' = "append", req' = req, active' = active,
         todo' = todo \ {Min(todo)}, wa' = wa - 1
  PROVE  AppendInv'
<1>. DEFINE F == FirstFree(active)
            E == AppendEnd
            n0 == Min(todo)
<1>0. TypeOK /\ active \in Page /\ req \in Requests /\ RoomInv /\ Slots[active] \in Nat
  BY PutFacts, LastSlotFact DEF PutPCs
<1>1. PICK p \in Page : p = active
  BY <1>0
<1>2. /\ Cardinality(todo) \in Nat \ {0} /\ F \in Nat \ {0} /\ wa \in Nat
      /\ wa - 1 \in Slot(p) /\ F <= wa - 1 /\ wa <= E /\ E \in 1 .. Slots[p] + 1
      /\ n0 \in todo /\ n0 \in DOMAIN req.data
      /\ RecordToWrite = RecordOf(IndexOf(req, n0), req.data[n0])
  BY <1>1, AppendFacts
<1>3. /\ FirstFree(p)' = FirstFree(p) /\ \A i : Value(p, i)' = Value(p, i)
  BY <1>1, AppendHidden
<1>4. /\ Update' = Update /\ Changed(req)' = Changed(req) /\ \A i : Target(i)' = Target(i)
  BY <1>1, <1>3, SameTarget
<1>5. FirstFree(active)' = F /\ AppendEnd' = E
  BY <1>1, <1>3, <1>4 DEF AppendEnd
<1>6. cell'[p] = [cell[p] EXCEPT ![wa - 1] = RecordToWrite] /\ DOMAIN cell[p] = Slot(p)
  BY <1>0, <1>1 DEF TypeOK
<1>7. /\ F \in Slot(p) /\ Empty(cell[p][F]) /\ E <= Slots[p] + 1
      /\ E \in Slot(p) => Empty(cell[p][E])
      /\ todo # {} /\ todo \subseteq Changed(req) /\ wa = F + Cardinality(todo)
      /\ \A s \in wa .. E - 1 :
           Exact(p, s) /\ \E n \in Changed(req) \ todo : cell[p][s].index = IndexOf(req, n)
      /\ \A n \in Changed(req) \ todo :
           \E s \in wa .. E - 1 : cell[p][s].index = IndexOf(req, n)
  BY <1>1 DEF AInv, AppendInv
<1>8. Cardinality(todo') = Cardinality(todo) - 1
  BY <1>7, TodoFacts DEF AInv
<1>9. /\ IndexOf(req, n0) \in Index \ {EMPTY_INDEX}
      /\ req.data[n0] = Target(IndexOf(req, n0))
  BY <1>0, <1>2, UpdateFacts DEF PutPCs, Target
<1>10. \A n : IndexOf(req, n)' = IndexOf(req, n)
  BY DEF IndexOf, IndexCount
<1>. HIDE DEF F, E, n0
<1>11. \A s \in Slot(p) : cell'[p][s] = IF s = wa - 1 THEN RecordToWrite ELSE cell[p][s]
  BY <1>6
<1>12. Empty(cell'[p][F])
  BY <1>1, <1>7, <1>11 DEF F
<1>13. E \in Slot(p) => Empty(cell'[p][E])
  <2>1. E # wa - 1
    BY <1>2
  <2>. QED  BY <1>7, <1>11, <2>1
<1>14. todo' # {} /\ todo' \subseteq Changed(req) /\ wa' = F + Cardinality(todo')
  <2>1. Cardinality(todo) # 1
    BY <1>2, <1>7, <1>1 DEF F
  <2>2. Cardinality(todo') # 0
    BY <1>2, <1>8, <2>1
  <2>3. todo' # {}
    BY <2>2, FS_EmptySet
  <2>. QED  BY <1>2, <1>7, <1>8, <2>3
<1>15. n0 \in Changed(req) \ todo' /\ Changed(req) \ todo \subseteq Changed(req) \ todo'
       /\ \A n \in Changed(req) \ todo' : n = n0 \/ n \in Changed(req) \ todo
  BY <1>2, <1>7 DEF n0
<1>16. wa - 1 \in wa' .. E - 1 /\ \A s \in wa .. E - 1 : s \in wa' .. E - 1 /\ s # wa - 1 /\ s \in Slot(p)
  BY <1>0, <1>1, <1>2 DEF Slot
<1>17. \A s \in wa' .. E - 1 : s = wa - 1 \/ s \in wa .. E - 1
  BY <1>2
<1>18. ASSUME NEW s \in wa .. E - 1 PROVE cell'[p][s] = cell[p][s]
  BY <1>11, <1>16
<1>19. ASSUME NEW s \in wa' .. E - 1
       PROVE  /\ cell'[p][s].index \in Index \ {EMPTY_INDEX}
              /\ cell'[p][s] = RecordOf(cell'[p][s].index, Target(cell'[p][s].index))
              /\ \E n \in Changed(req) \ todo' : cell'[p][s].index = IndexOf(req, n)
  <2>1. CASE s = wa - 1
    BY <1>2, <1>9, <1>11, <1>15, <2>1, ValidFacts
  <2>2. CASE s \in wa .. E - 1
    BY <1>7, <1>15, <1>18, <2>2 DEF Exact
  <2>. QED  BY <1>17, <2>1, <2>2
<1>20. ASSUME NEW n \in Changed(req) \ todo'
       PROVE  \E s \in wa' .. E - 1 : cell'[p][s].index = IndexOf(req, n)
  <2>1. CASE n = n0
    BY <1>2, <1>11, <1>16, <2>1, ValidFacts
  <2>2. CASE n \in Changed(req) \ todo
    <3>1. PICK s \in wa .. E - 1 : cell[p][s].index = IndexOf(req, n)
      BY <1>7, <2>2
    <3>. QED  BY <1>16, <1>18, <3>1
  <2>. QED  BY <1>15, <2>1, <2>2
<1>21. \A s \in wa' .. E - 1 : Exact(p, s)'
  BY <1>4, <1>19 DEF Exact, Index, EMPTY_INDEX, IndexCount, RecordOf, VALID
<1>22. /\ F \in Slot(p) /\ Empty(cell'[p][F]) /\ E <= Slots[p] + 1
       /\ E \in Slot(p) => Empty(cell'[p][E])
       /\ todo' # {} /\ todo' \subseteq Changed(req)' /\ wa' = F + Cardinality(todo')
       /\ \A s \in wa' .. E - 1 : /\ Exact(p, s)'
                                  /\ \E n \in Changed(req)' \ todo' : cell'[p][s].index = IndexOf(req, n)'
       /\ \A n \in Changed(req)' \ todo' :
            \E s \in wa' .. E - 1 : cell'[p][s].index = IndexOf(req, n)'
  BY <1>4, <1>7, <1>10, <1>12, <1>13, <1>14, <1>19, <1>20, <1>21
<1>. QED  BY <1>1, <1>5, <1>22 DEF AppendInv, Slot, Empty, ErasedRecord, FLASH_ERASED, EMPTY_INDEX, IndexCount

(* Cells that are copied. *)
LEMMA CopyFacts ==
  ASSUME FaultsShow, AInv, pc \in PutPCs, NEW i \in CopyIndices
  PROVE  /\ i \in Cells /\ i \in Index \ {EMPTY_INDEX}
         /\ i \notin DOMAIN Update /\ Target(i) = Value(active, i)
<1>1. active \in Page /\ RoomInv /\ IndexInv
  BY PutFacts DEF AInv, SInv
<1>2. PICK s \in Readable(active) : cell[active][s].index = i
  BY DEF CopyIndices, Hits
<1>3. s \in Slot(active) /\ Valid(cell[active][s])
  <2>1. s \in 1 .. s
    BY <1>1, <1>2, LastSlotFact DEF Readable, Slot
  <2>. QED  BY <2>1 DEF Readable
<1>4. i # EMPTY_INDEX /\ i \in Cells /\ i \in Index /\ ~InRange(req, i)
  BY <1>1, <1>2, <1>3 DEF Valid, IndexInv, CopyIndices
<1>. QED  BY <1>1, <1>4, UpdateFacts DEF Target

(* The next slot of the destination is empty, so the write reads back. *)
LEMMA DestFacts ==
  ASSUME FaultsShow, AInv, pc \in {"copy", "direct"}, todo # {}
  PROVE  /\ WritePage = alternate /\ WriteSlot = wa /\ wa \in Slot(alternate)
         /\ Program(cell[alternate][wa], RecordToWrite, 4) = RecordToWrite
         /\ Min(todo) \in todo
         /\ RecordToWrite.index \in Index \ {EMPTY_INDEX}
         /\ RecordToWrite = RecordOf(RecordToWrite.index, Target(RecordToWrite.index))
         /\ RecordToWrite.index =
              IF pc = "copy" THEN Min(todo) ELSE IndexOf(req, Min(todo))
<1>0. TypeOK /\ alternate \in Page /\ RoomInv /\ Slots[alternate] \in Nat
  BY PutFacts, LastSlotFact DEF PutPCs
<1>1. WritePage = alternate /\ WriteSlot = wa
  BY DEF WritePage, WriteSlot
<1>2. wa \in Slot(alternate)
  <2>1. Cardinality(todo) \in Nat \ {0}
    BY TodoFacts DEF AInv
  <2>2. wa \in Nat /\ req \in Requests /\ Len(req.data) \in Nat
    BY <1>0, LastSlotFact, RequestAssumption DEF TypeOK, RoomInv, PutPCs
  <2>3. wa >= 1 /\ wa + Cardinality(todo) <= Capacity + 1
    BY <1>0, <2>1, <2>2, CapacityFacts DEF RoomInv
  <2>. QED  BY <1>0, <2>1, <2>2, <2>3, CapacityFacts DEF Slot
<1>3. cell[alternate][wa] = ErasedRecord
  <2>1. wa \in wa .. Slots[alternate]
    BY <1>0, <1>2 DEF Slot
  <2>. QED  BY <2>1 DEF AInv, DestInv, Empty
<1>4. Min(todo) \in todo /\ RecordToWrite \in Record
  BY RecordToWriteType DEF AInv, SInv, IInv
<1>5. Program(cell[alternate][wa], RecordToWrite, 4) = RecordToWrite
  BY <1>3, <1>4, ProgramEmpty
<1>6. CASE pc = "copy"
  <2>1. Min(todo) \in CopyIndices
    BY <1>4, <1>6 DEF AInv, DestInv
  <2>2. /\ Min(todo) \in Index \ {EMPTY_INDEX}
        /\ Target(Min(todo)) = Value(active, Min(todo))
    BY <2>1, CopyFacts DEF PutPCs
  <2>3. RecordToWrite = RecordOf(Min(todo), Value(active, Min(todo)))
    BY <1>6 DEF RecordToWrite
  <2>. QED  BY <1>1, <1>2, <1>4, <1>5, <1>6, <2>2, <2>3, ValidFacts
<1>7. CASE pc = "direct"
  <2>1. Min(todo) \in DOMAIN req.data
    BY <1>0, <1>4, <1>7 DEF TypeOK
  <2>2. /\ IndexOf(req, Min(todo)) \in Index \ {EMPTY_INDEX}
        /\ Target(IndexOf(req, Min(todo))) = req.data[Min(todo)]
    BY <1>0, <2>1, UpdateFacts DEF Target, PutPCs
  <2>3. RecordToWrite = RecordOf(IndexOf(req, Min(todo)), req.data[Min(todo)])
    BY <1>7 DEF RecordToWrite
  <2>. QED  BY <1>1, <1>2, <1>4, <1>5, <1>7, <2>2, <2>3, ValidFacts
<1>. QED  BY <1>6, <1>7

(* One more record of the destination. *)
LEMMA DestStep ==
  ASSUME FaultsShow, AInv, pc \in {"copy", "direct"}, todo # {},
         cell' = [cell EXCEPT ![alternate][wa] = RecordToWrite],
         pc' = pc, req' = req, active' = active, alternate' = alternate,
         todo' = todo \ {Min(todo)}, wa' = wa + 1
  PROVE  DestInv'
<1>. DEFINE j == RecordToWrite.index
<1>0. /\ TypeOK /\ active \in Page /\ alternate \in Page /\ alternate # active
      /\ RoomInv /\ Slots[alternate] \in Nat
  BY PutFacts, LastSlotFact DEF PutPCs
<1>1. PICK p \in Page : p = active
  BY <1>0
<1>2. PICK q \in Page : q = alternate
  BY <1>0
<1>3. cell'[p] = cell[p]
  BY <1>0, <1>1 DEF TypeOK
<1>4. cell'[q] = [cell[q] EXCEPT ![wa] = RecordToWrite] /\ DOMAIN cell[q] = Slot(q)
  BY <1>0, <1>2 DEF TypeOK
<1>5. \A i : Hits(p, i)' = Hits(p, i) /\ Value(p, i)' = Value(p, i)
  BY <1>3, SamePage
<1>6. Update' = Update /\ \A i : Target(i)' = Target(i)
  BY <1>1, <1>5, SameTarget
<1>7. CopyIndices' = CopyIndices
  BY <1>1, <1>5 DEF CopyIndices, InRange, IndexEnd, IndexCount, Index, EMPTY_INDEX, FLASH_ERASED
<1>8. /\ wa \in Slot(q) /\ Min(todo) \in todo /\ j \in Index \ {EMPTY_INDEX}
      /\ RecordToWrite = RecordOf(j, Target(j))
      /\ j = IF pc = "copy" THEN Min(todo) ELSE IndexOf(req, Min(todo))
  BY <1>2, DestFacts
<1>9. /\ \A s \in 1 .. wa - 1 : Exact(q, s)
      /\ \A s \in wa .. Slots[q] : Empty(cell[q][s])
      /\ \A i \in Cells \ Pending :
           Target(i) = FLASH_ERASED \/ \E s \in 1 .. wa - 1 : cell[q][s].index = i
      /\ pc = "copy" => todo \subseteq CopyIndices
  BY <1>2 DEF AInv, DestInv
<1>10. \A i : i \in Pending => i \in Pending' \/ i = j
  <2>1. \A n : IndexOf(req, n)' = IndexOf(req, n)
    BY DEF IndexOf, IndexCount
  <2>2. CASE pc = "copy"
    BY <1>6, <1>8, <2>2 DEF Pending
  <2>3. CASE pc = "direct"
    BY <1>8, <2>1, <2>3 DEF Pending
  <2>. QED  BY <2>2, <2>3
<1>. HIDE DEF j
<1>11. \A s \in Slot(q) : cell'[q][s] = IF s = wa THEN RecordToWrite ELSE cell[q][s]
  BY <1>4
<1>12. wa \in Nat \ {0} /\ wa <= Slots[q] /\ Slots[q] \in Nat
  BY <1>0, <1>2, <1>8 DEF Slot
<1>13. \A s \in 1 .. wa - 1 : s \in Slot(q) /\ s # wa /\ s \in 1 .. wa' - 1
  BY <1>12 DEF Slot
<1>14. \A s \in 1 .. wa' - 1 : s = wa \/ s \in 1 .. wa - 1
  BY <1>12
<1>15. ASSUME NEW s \in 1 .. wa' - 1 PROVE Exact(q, s)'
  <2>1. /\ cell'[q][s].index \in Index \ {EMPTY_INDEX}
        /\ cell'[q][s] = RecordOf(cell'[q][s].index, Target(cell'[q][s].index))
    <3>1. CASE s = wa
      BY <1>8, <1>11, <3>1 DEF j
    <3>2. CASE s \in 1 .. wa - 1
      BY <1>9, <1>11, <1>13, <3>2 DEF Exact
    <3>. QED  BY <1>14, <3>1, <3>2
  <2>. QED  BY <1>6, <2>1 DEF Exact, Index, EMPTY_INDEX, IndexCount, RecordOf, VALID
<1>16. ASSUME NEW s \in wa' .. Slots[q] PROVE Empty(cell'[q][s])
  <2>1. s \in wa .. Slots[q] /\ s # wa /\ s \in Slot(q)
    BY <1>12 DEF Slot
  <2>. QED  BY <1>9, <1>11, <2>1
<1>17. ASSUME NEW i \in Cells \ Pending'
       PROVE  Target(i)' = FLASH_ERASED \/ \E s \in 1 .. wa' - 1 : cell'[q][s].index = i
  <2>1. CASE i = j
    <3>1. wa \in 1 .. wa' - 1
      BY <1>12
    <3>. QED  BY <1>8, <1>11, <2>1, <3>1 DEF j
  <2>2. CASE i # j
    <3>1. i \in Cells \ Pending
      BY <1>10, <2>2
    <3>2. CASE Target(i) = FLASH_ERASED
      BY <1>6, <3>2
    <3>3. CASE \E s \in 1 .. wa - 1 : cell[q][s].index = i
      BY <1>11, <1>13, <3>3
    <3>. QED  BY <1>9, <3>1, <3>2, <3>3
  <2>. QED  BY <2>1, <2>2
<1>18. wa' \in 1 .. Slots[q] + 1
  BY <1>12
<1>19. pc = "copy" => todo' \subseteq CopyIndices'
  BY <1>7, <1>9
<1>. QED
  BY <1>2, <1>15, <1>16, <1>17, <1>18, <1>19
  DEF DestInv, Empty, ErasedRecord, FLASH_ERASED, EMPTY_INDEX, IndexCount, Cells, Capacity

(* A step that leaves the records alone leaves everything read alone. *)
LEMMA SameCells ==
  ASSUME AInv, pc \in PutPCs, cell' = cell, req' = req, active' = active, alternate' = alternate
  PROVE  /\ Update' = Update /\ CopyIndices' = CopyIndices
         /\ \A i : Target(i)' = Target(i) /\ Value(alternate, i)' = Value(alternate, i)
         /\ \A s : Exact(alternate, s)' <=> Exact(alternate, s)
         /\ \A n : IndexOf(req, n)' = IndexOf(req, n)
<1>0. active \in Page /\ alternate \in Page
  BY PutFacts
<1>1. PICK p \in Page : p = active
  BY <1>0
<1>2. PICK q \in Page : q = alternate
  BY <1>0
<1>3. /\ \A i : Hits(p, i)' = Hits(p, i) /\ Value(p, i)' = Value(p, i)
      /\ \A i : Value(q, i)' = Value(q, i)
  BY SamePage
<1>4. Update' = Update /\ \A i : Target(i)' = Target(i)
  BY <1>1, <1>3, SameTarget
<1>5. CopyIndices' = CopyIndices
  BY <1>1, <1>3 DEF CopyIndices, InRange, IndexEnd, IndexCount, Index, EMPTY_INDEX, FLASH_ERASED
<1>6. \A s : Exact(alternate, s)' <=> Exact(alternate, s)
  BY <1>4 DEF Exact, Index, EMPTY_INDEX, IndexCount, RecordOf, VALID
<1>7. \A n : IndexOf(req, n)' = IndexOf(req, n)
  BY DEF IndexOf, IndexCount
<1>. QED  BY <1>2, <1>3, <1>4, <1>5, <1>6, <1>7

(* The copy starts in an empty page. *)
LEMMA HeaderStep ==
  ASSUME FaultsShow, AInv, WriteHeader, pc' = "copy"
  PROVE  DestInv'
<1>0. /\ TypeOK /\ active \in Page /\ alternate \in Page /\ RoomInv
      /\ pc = "header" /\ pc \in PutPCs /\ Slots[alternate] \in Nat
  BY PutFacts, LastSlotFact DEF PutPCs, WriteHeader
<1>1. /\ cell' = cell /\ req' = req /\ active' = active /\ alternate' = alternate
      /\ wa' = 1 /\ todo' = CopyIndices
  BY DEF WriteHeader
<1>2. /\ Update' = Update /\ CopyIndices' = CopyIndices
      /\ \A i : Target(i)' = Target(i)
  BY <1>0, <1>1, SameCells
<1>3. \A s \in 1 .. Slots[alternate] : Empty(cell[alternate][s])
  BY <1>0 DEF AInv, SInv, IInv, PhaseInv, Erased, Slot
<1>4. ASSUME NEW i \in Cells, i \notin CopyIndices, i \notin DOMAIN Update
      PROVE  Target(i) = FLASH_ERASED
  <2>1. Target(i) = Value(active, i)
    BY <1>4 DEF Target
  <2>2. CASE Hits(active, i) = {}
    BY <1>0, <2>1, <2>2, HitNow DEF HitFact
  <2>3. CASE Hits(active, i) # {}
    <3>1. PICK s \in Readable(active) : cell[active][s].index = i
      BY <2>3 DEF Hits
    <3>2. s \in Slot(active)
      BY <3>1 DEF Readable
    <3>3. i \in Index
      BY <1>0, <3>1, <3>2 DEF TypeOK, Record
    <3>4. ~InRange(req, i)
      BY <1>0, <1>4, UpdateFacts
    <3>. QED  BY <1>4, <2>1, <2>3, <3>3, <3>4 DEF CopyIndices
  <2>. QED  BY <2>2, <2>3
<1>5. Pending' = CopyIndices \cup DOMAIN Update
  BY <1>1, <1>2 DEF Pending
<1>6. /\ wa' \in 1 .. Slots[alternate] + 1 /\ 1 .. wa' - 1 = {}
  BY <1>0, <1>1
<1>7. \A s \in wa' .. Slots[alternate] : Empty(cell'[alternate][s])
  BY <1>1, <1>3
<1>8. \A i \in Cells \ Pending' : Target(i)' = FLASH_ERASED
  BY <1>2, <1>4, <1>5
<1>. QED
  BY <1>1, <1>2, <1>6, <1>7, <1>8
  DEF DestInv, Empty, ErasedRecord, FLASH_ERASED, EMPTY_INDEX, IndexCount, Cells, Capacity

(* From the copied records to the new ones. *)
LEMMA CopyDoneStep ==
  ASSUME FaultsShow, AInv, CopyDone
  PROVE  DestInv'
<1>0. /\ RoomInv /\ pc = "copy" /\ pc \in PutPCs /\ todo = {}
      /\ pc' = "direct" /\ cell' = cell /\ req' = req /\ active' = active /\ alternate' = alternate
      /\ wa' = wa /\ todo' = {n \in DOMAIN req.data : req.data[n] # FLASH_ERASED}
  BY PutFacts DEF PutPCs, CopyDone, flash
<1>1. /\ Update' = Update /\ \A i : Target(i)' = Target(i)
      /\ \A s : Exact(alternate, s)' <=> Exact(alternate, s)
      /\ \A n : IndexOf(req, n)' = IndexOf(req, n)
  BY <1>0, SameCells
<1>2. Pending = DOMAIN Update /\ Pending' = {IndexOf(req, n) : n \in todo'}
  BY <1>0, <1>1 DEF Pending
<1>3. ASSUME NEW i \in DOMAIN Update, i \notin Pending'
      PROVE  Target(i) = FLASH_ERASED
  <2>1. PICK n \in DOMAIN req.data : i = IndexOf(req, n)
    BY <1>0, UpdateFacts
  <2>2. n \notin todo'
    BY <1>2, <1>3, <2>1
  <2>3. req.data[n] = FLASH_ERASED
    BY <1>0, <2>2
  <2>4. Update[i] = req.data[n]
    BY <1>0, <2>1, UpdateFacts
  <2>. QED  BY <1>3, <2>3, <2>4 DEF Target
<1>4. /\ wa \in 1 .. Slots[alternate] + 1
      /\ \A s \in 1 .. wa - 1 : Exact(alternate, s)
      /\ \A s \in wa .. Slots[alternate] : Empty(cell[alternate][s])
      /\ \A i \in Cells \ Pending :
           Target(i) = FLASH_ERASED \/ \E s \in 1 .. wa - 1 : cell[alternate][s].index = i
  BY <1>0 DEF AInv, DestInv
<1>5. \A i \in Cells \ Pending' :
        Target(i)' = FLASH_ERASED \/ \E s \in 1 .. wa - 1 : cell[alternate][s].index = i
  BY <1>1, <1>2, <1>3, <1>4
<1>. QED
  BY <1>0, <1>1, <1>4, <1>5
  DEF DestInv, Empty, ErasedRecord, FLASH_ERASED, EMPTY_INDEX, IndexCount, Cells, Capacity

(* The destination is complete. *)
LEMMA DirectDoneStep ==
  ASSUME FaultsShow, AInv, pc = "direct", todo = {}, NEW i \in Cells
  PROVE  Value(alternate, i) = Target(i)
<1>0. alternate \in Page /\ Slots[alternate] \in Nat
  BY PutFacts, LastSlotFact DEF PutPCs
<1>1. PICK q \in Page : q = alternate
  BY <1>0
<1>2. /\ wa \in 1 .. Slots[q] + 1
      /\ \A s \in 1 .. wa - 1 : Exact(q, s)
      /\ \A s \in wa .. Slots[q] : Empty(cell[q][s])
      /\ \A k \in Cells \ Pending :
           Target(k) = FLASH_ERASED \/ \E s \in 1 .. wa - 1 : cell[q][s].index = k
  BY <1>1 DEF AInv, DestInv
<1>3. Target(i) = FLASH_ERASED \/ \E s \in 1 .. wa - 1 : cell[q][s].index = i
  BY <1>2 DEF Pending
<1>4. \A s \in 1 .. wa - 1 : Valid(cell[q][s])
  <2>. SUFFICES ASSUME NEW s \in 1 .. wa - 1 PROVE Valid(cell[q][s])
    OBVIOUS
  <2>1. Exact(q, s)
    BY <1>2
  <2>2. /\ cell[q][s].index # EMPTY_INDEX
        /\ cell[q][s] = RecordOf(cell[q][s].index, Target(cell[q][s].index))
    BY <2>1 DEF Exact
  <2>. QED  BY <2>2, ValidFacts
<1>5. wa \in Slot(q) => ~Valid(cell[q][wa])
  <2>. SUFFICES ASSUME wa \in Slot(q) PROVE Empty(cell[q][wa])
    BY ValidFacts
  <2>1. wa \in wa .. Slots[q]
    BY <1>0, <1>1 DEF Slot
  <2>. QED  BY <1>2, <2>1
<1>6. Readable(q) = 1 .. wa - 1
  BY <1>2, <1>4, <1>5, EndNow DEF EndFact
<1>7. CASE Hits(q, i) = {}
  <2>1. ~\E s \in 1 .. wa - 1 : cell[q][s].index = i
    BY <1>6, <1>7 DEF Hits
  <2>. QED  BY <1>1, <1>3, <1>7, <2>1, HitNow DEF HitFact
<1>8. CASE Hits(q, i) # {}
  <2>. DEFINE m == Max(Hits(q, i))
  <2>1. m \in Hits(q, i) /\ Value(q, i) = cell[q][m].data
    BY <1>8, HitNow DEF HitFact
  <2>. HIDE DEF m
  <2>2. m \in 1 .. wa - 1 /\ cell[q][m].index = i
    BY <1>6, <2>1 DEF Hits
  <2>3. Exact(q, m)
    BY <1>2, <2>2
  <2>4. cell[q][m] = RecordOf(i, Target(i))
    BY <2>2, <2>3 DEF Exact
  <2>. QED  BY <1>1, <2>1, <2>4, ValidFacts
<1>. QED  BY <1>7, <1>8

(* A put that begins to append. *)
LEMMA PutStep ==
  ASSUME FaultsShow, AInv, NEW r \in Requests, Put(r), pc' = "append"
  PROVE  AppendInv'
<1>0. active \in Page /\ Slots[active] \in Nat
  BY LastSlotFact DEF AInv, SInv, IInv, PhaseInv, Put
<1>1. PICK p \in Page : p = active
  BY <1>0
<1>2. /\ cell' = cell /\ active' = active /\ req' = r
      /\ CanAppend(r) /\ Changed(r) # {} /\ todo' = Changed(r)
      /\ wa' = FirstFree(p) + Cardinality(Changed(r))
  BY <1>1 DEF Put, StartSwap, flash
<1>3. FirstFree(p)' = FirstFree(p) /\ \A i : Value(p, i)' = Value(p, i)
  BY <1>2, SamePage
<1>4. Changed(req)' = Changed(r)
  <2>1. \A i : Value(active, i)' = Value(active, i)
    BY <1>1, <1>2, <1>3
  <2>2. \A n : Existing(req, n)' = Existing(r, n)
    BY <1>2, <2>1 DEF Existing, InRange, IndexOf, IndexEnd, IndexCount, FLASH_ERASED
  <2>. QED  BY <1>2, <2>2 DEF Changed
<1>. DEFINE F == FirstFree(p)
            N == Cardinality(Changed(r))
<1>5. F \in 1 .. Slots[p] + 1 /\ Changed(r) \subseteq DOMAIN r.data /\ N \in Nat
  BY FirstFreeType, ChangedType
<1>6. N # 0
  <2>1. IsFiniteSet(Changed(r))
    <3>1. DOMAIN r.data = 1 .. Len(r.data) /\ Len(r.data) \in Nat
      BY RequestAssumption
    <3>2. IsFiniteSet(1 .. Len(r.data))
      BY <3>1, FS_Interval
    <3>. QED  BY <1>5, <3>1, <3>2, FS_Subset
  <2>. QED  BY <1>2, <2>1, FS_EmptySet
<1>7. /\ F \in Slot(p) => Empty(cell[p][F])
      /\ F + N <= Slots[p] + 1 /\ (F + N <= Slots[p] => Empty(cell[p][F + N]))
  BY <1>1, <1>2 DEF CanAppend, HasInvalidRecords
<1>8. AppendEnd' = F + N /\ FirstFree(active)' = F
  BY <1>1, <1>2, <1>3, <1>4 DEF AppendEnd
<1>9. wa' = F + N /\ Cardinality(todo') = N
  BY <1>2
<1>. HIDE DEF F, N
<1>10. F \in Slot(p) /\ (F + N \in Slot(p) => F + N <= Slots[p]) /\ F + N .. F + N - 1 = {}
  BY <1>0, <1>1, <1>5, <1>6, <1>7 DEF Slot
<1>11. /\ F \in Slot(p) /\ Empty(cell'[p][F]) /\ F + N <= Slots[p] + 1
       /\ F + N \in Slot(p) => Empty(cell'[p][F + N])
       /\ todo' # {} /\ todo' = Changed(req)' /\ wa' = F + N /\ Cardinality(todo') = N
       /\ wa' .. (F + N) - 1 = {} /\ Changed(req)' \ todo' = {}
  <2>1. Empty(cell'[p][F]) /\ (F + N \in Slot(p) => Empty(cell'[p][F + N]))
    BY <1>2, <1>7, <1>10
  <2>2. wa' .. (F + N) - 1 = {}
    BY <1>9, <1>10
  <2>3. todo' # {} /\ todo' = Changed(req)' /\ Changed(req)' \ todo' = {}
    BY <1>2, <1>4
  <2>4. F + N <= Slots[p] + 1
    BY <1>7
  <2>. QED  BY <1>9, <1>10, <2>1, <2>2, <2>3, <2>4

<1>. QED
  BY <1>1, <1>2, <1>8, <1>11
  DEF AppendInv, Slot, Empty, ErasedRecord, FLASH_ERASED, EMPTY_INDEX, IndexCount

(* What a record write does to an append: the last record takes effect and  *)
(* ends the put, one that fails starts a swap, the others stay hidden.      *)
LEMMA AppendWrite ==
  ASSUME FaultsShow, AInv, WriteNextRecord, pc = "append"
  PROVE  /\ req' \in {req, NoRequest} /\ status' = status
         /\ \/ /\ wa - 1 = FirstFree(active) /\ pc' = "idle" /\ req' = NoRequest
               /\ cell' = [cell EXCEPT ![active][wa - 1] = RecordToWrite]
            \/ /\ wa - 1 # FirstFree(active) /\ req' = req
               /\ \E c : cell' = [cell EXCEPT ![active][wa - 1] = c]
               /\ pc' \in {"append", "verify"}
               /\ pc' = "append" =>
                    /\ cell' = [cell EXCEPT ![active][wa - 1] = RecordToWrite]
                    /\ todo' = todo \ {Min(todo)} /\ wa' = wa - 1
<1>. DEFINE c == Program(cell[active][wa - 1], RecordToWrite, 4)
<1>1. WritePage = active /\ WriteSlot = wa - 1
  BY DEF WritePage, WriteSlot
<1>2. /\ cell' = [cell EXCEPT ![active][wa - 1] = c] /\ status' = status
      /\ IF VerifyWrites /\ c # RecordToWrite THEN WriteFailed ELSE RecordWritten
  BY <1>1 DEF WriteNextRecord
<1>3. /\ Cardinality(todo) \in Nat \ {0} /\ FirstFree(active) \in Nat \ {0} /\ wa \in Nat
      /\ wa - 1 = FirstFree(active) => todo = {Min(todo)}
  BY AppendFacts
<1>4. RecordToWrite \in Record
  BY RecordToWriteType DEF AInv, SInv, IInv, AppendInv
<1>5. wa - 1 = FirstFree(active) => c = RecordToWrite
  <2>. SUFFICES ASSUME wa - 1 = FirstFree(active) PROVE c = RecordToWrite
    OBVIOUS
  <2>1. cell[active][wa - 1] = ErasedRecord
    BY DEF AInv, AppendInv, Empty
  <2>. QED  BY <1>4, <2>1, ProgramEmpty
<1>. HIDE DEF c
<1>6. wa - 1 # FirstFree(active) => todo \ {Min(todo)} # {}
  <2>. SUFFICES ASSUME wa - 1 # FirstFree(active), todo \ {Min(todo)} = {} PROVE FALSE
    OBVIOUS
  <2>1. Cardinality(todo \ {Min(todo)}) = Cardinality(todo) - 1
    BY TodoFacts DEF AInv, AppendInv
  <2>2. Cardinality(todo) = 1
    <3>1. Cardinality(todo \ {Min(todo)}) = 0
      BY FS_EmptySet
    <3>. QED  BY <1>3, <2>1, <3>1
  <2>3. wa = FirstFree(active) + Cardinality(todo)
    BY DEF AInv, AppendInv
  <2>. QED  BY <1>3, <2>2, <2>3
<1>7. CASE c # RecordToWrite
  <2>1. StartSwap(0) /\ req' = req
    BY <1>2, <1>7 DEF FaultsShow, WriteFailed
  <2>. QED  BY <1>2, <1>5, <1>7, <2>1 DEF StartSwap
<1>8. CASE c = RecordToWrite
  <2>1. RecordWritten
    BY <1>2, <1>8
  <2>. QED  BY <1>2, <1>3, <1>6, <1>8, <2>1 DEF RecordWritten
<1>. QED  BY <1>7, <1>8

(* Writes to the destination always succeed. *)
LEMMA DestWrite ==
  ASSUME FaultsShow, AInv, WriteNextRecord, pc \in {"copy", "direct"}
  PROVE  /\ cell' = [cell EXCEPT ![alternate][wa] = RecordToWrite]
         /\ status' = status /\ pc' = pc /\ req' = req /\ active' = active /\ alternate' = alternate
         /\ todo' = todo \ {Min(todo)} /\ wa' = wa + 1
<1>1. todo # {}
  BY DEF WriteNextRecord
<1>2. /\ WritePage = alternate /\ WriteSlot = wa
      /\ Program(cell[alternate][wa], RecordToWrite, 4) = RecordToWrite
  BY <1>1, DestFacts
<1>3. cell' = [cell EXCEPT ![alternate][wa] = RecordToWrite] /\ RecordWritten
  BY <1>2 DEF WriteNextRecord
<1>. QED  BY <1>3 DEF RecordWritten, WriteNextRecord

LEMMA NextAInv ==
  ASSUME FaultsShow
  PROVE  AInv /\ [Next]_vars => AInv'
<1>. SUFFICES ASSUME AInv, [Next]_vars PROVE AInv'
  OBVIOUS
<1>1. SInv'
  BY NextSInv DEF FaultsShow, AInv
<1>. DEFINE Busy == {"append", "copy", "direct", "activate", "deactivate"}
<1>2. ASSUME pc' \notin Busy, pc' \in PutPCs \/ req' = NoRequest PROVE AInv'
  BY <1>1, <1>2 DEF AInv, AppendInv, DestInv, DoneInv, IdleInv
<1>3. ASSUME pc' \in Busy, AppendInv', DestInv', DoneInv' PROVE AInv'
  BY <1>1, <1>3 DEF AInv, IdleInv, PutPCs
<1>4. SwapFailed => AInv'
  BY <1>2 DEF SwapFailed, StartSwap, Return, PutPCs
<1>5. StartSwap(0) => AInv'
  BY <1>2 DEF StartSwap, PutPCs
<1>6. CASE WriteNextRecord
  <2>1. CASE pc = "append"
    <3>1. CASE pc' = "append"
      <4>1. AppendInv'
        <5>1. active' = active
          BY <1>6 DEF WriteNextRecord
        <5>. QED  BY <1>6, <2>1, <3>1, <5>1, AppendWrite, AppendStep
      <4>. QED  BY <1>3, <3>1, <4>1 DEF DestInv, DoneInv
    <3>2. CASE pc' # "append"
      BY <1>2, <1>6, <2>1, <3>2, AppendWrite DEF PutPCs
    <3>. QED  BY <3>1, <3>2
  <2>2. CASE pc \in {"copy", "direct"}
    <3>1. todo # {}
      BY <1>6 DEF WriteNextRecord
    <3>2. DestInv' /\ pc' = pc
      BY <1>6, <2>2, <3>1, DestWrite, DestStep
    <3>. QED  BY <1>3, <2>2, <3>2 DEF AppendInv, DoneInv
  <2>. QED  BY <1>6, <2>1, <2>2 DEF WriteNextRecord
<1>7. CASE NoRoom \/ Fault
  BY <1>4, <1>5, <1>7 DEF NoRoom, Fault, RecordFault, StatusFault, WriteFailed
<1>8. CASE VerifyDestination
  BY <1>2, <1>8 DEF VerifyDestination, PutPCs
<1>9. CASE WriteHeader
  <2>1. CASE pc' = "copy"
    BY <1>3, <1>9, <2>1, HeaderStep DEF AppendInv, DoneInv
  <2>. QED  BY <1>2, <1>9, <2>1 DEF WriteHeader, PutPCs
<1>10. CASE CopyDone
  <2>1. pc' = "direct"
    BY <1>10 DEF CopyDone
  <2>. QED  BY <1>3, <1>10, <2>1, CopyDoneStep DEF AppendInv, DoneInv
<1>11. CASE DirectDone \/ Activate
  <2>1. /\ pc \in {"direct", "activate"} /\ pc \in PutPCs /\ pc' \in {"activate", "deactivate"}
        /\ cell' = cell /\ req' = req /\ active' = active /\ alternate' = alternate
    BY <1>11 DEF DirectDone, Activate, flash, PutPCs
  <2>2. \A i \in Cells : Value(alternate, i) = Target(i)
    BY <1>11, DirectDoneStep DEF DirectDone, Activate, AInv, DoneInv
  <2>3. \A i \in Cells : Value(alternate, i)' = Target(i)'
    BY <2>1, <2>2, SameCells
  <2>4. DoneInv'
    BY <2>3 DEF DoneInv, Cells, Capacity
  <2>. QED  BY <1>3, <2>1, <2>4 DEF AppendInv, DestInv
<1>12. CASE Deactivate
  BY <1>2, <1>4, <1>12 DEF Deactivate, Return
<1>13. CASE \E r \in Requests : Put(r)
  <2>1. PICK r \in Requests : Put(r)
    BY <1>13
  <2>2. CASE pc' = "append"
    BY <1>3, <2>1, <2>2, PutStep DEF DestInv, DoneInv
  <2>3. CASE pc' # "append"
    BY <1>2, <2>1, <2>3 DEF Put, StartSwap, PutPCs
  <2>. QED  BY <2>2, <2>3
<1>14. CASE Boot \/ ClearErase \/ Clear \/ PerformPendingErase
  <2>1. pc \notin PutPCs /\ pc' \notin PutPCs /\ req' = req
    BY <1>14 DEF Boot, ClearErase, Clear, PerformPendingErase, PutPCs
  <2>. QED  BY <1>2, <2>1 DEF AInv, IdleInv, PutPCs
<1>15. CASE ClearFormat \/ Crash
  BY <1>2, <1>15 DEF ClearFormat, Crash, Return
<1>16. CASE UNCHANGED vars
  <2>1. /\ AppendInv' <=> AppendInv
    BY <1>16 DEF vars, AppendInv, AppendEnd, Exact, Target, Update, Changed, Existing, Value,
       Hits, FirstFree, Readable
  <2>2. DestInv' <=> DestInv
    BY <1>16 DEF vars, DestInv, Pending, CopyIndices, Exact, Target, Update, Value, Hits, Readable
  <2>3. DoneInv' <=> DoneInv
    BY <1>16 DEF vars, DoneInv, Target, Update, Value, Hits, Readable
  <2>4. IdleInv' <=> IdleInv
    BY <1>16 DEF vars, IdleInv
  <2>. QED  BY <1>1, <2>1, <2>2, <2>3, <2>4 DEF AInv
<1>. QED
  BY <1>6, <1>7, <1>8, <1>9, <1>10, <1>11, <1>12, <1>13, <1>14, <1>15, <1>16 DEF Next, Step, Call

-----------------------------------------------------------------------------
(* Every step is one of the atomic store, or changes nothing it shows.      *)

(* What reads back is what the first active page holds. *)
ContentsFact ==
  \A p \in Page : FirstActive = p => \A i \in Cells : Contents[i] = Value(p, i)

LEMMA ContentsNow == ContentsFact
BY DEF ContentsFact, Contents

LEMMA ContentsNext == ContentsFact'
BY ContentsNow, PTL

LEMMA FirstActiveType == FirstActive \in Page \cup {NoPage}
BY DEF FirstActive, Page, NoPage

LEMMA ContentsType ==
  ASSUME TypeOK
  PROVE  Contents \in [Cells -> Byte]
<1>1. ASSUME NEW i \in Cells PROVE Value(FirstActive, i) \in Byte
  <2>1. CASE FirstActive = NoPage
    BY <2>1, WidthFacts DEF Value
  <2>2. CASE FirstActive \in Page
    BY <2>2, ValueType
  <2>. QED  BY <2>1, <2>2, FirstActiveType
<1>. QED  BY <1>1 DEF Contents

(* The call the abstract specification sees, as long as no mark has failed. *)
CallFact ==
  /\ pc \in ClearPCs => PromisedCall = "clear"
  /\ pc \notin ClearPCs /\ MarkFailed => PromisedCall = "exposed"
  /\ pc \in PutPCs /\ ~MarkFailed => PromisedCall = "put"
  /\ pc \in {"idle", "off"} /\ ~MarkFailed => PromisedCall = "none"

LEMMA CallNow == CallFact
BY DEF CallFact, PromisedCall, PutPCs, ClearPCs

LEMMA CallNext == CallFact'
BY CallNow, PTL

(* The kinds of steps: nothing shows, the put takes effect, clear() destroys *)
(* what it may, and so may anything once a mark has failed.                  *)
LEMMA HiddenStep ==
  ASSUME AInv, AInv', Contents' = Contents, ~MarkFailed, ~MarkFailed',
         \/ pc \in PutPCs /\ pc' \in PutPCs /\ req' = req
         \/ pc \in PutPCs /\ pc' \in {"idle", "off"}
         \/ pc \in {"idle", "off"}
  PROVE  [Atomic!Next]_Atomic!vars
<1>0. pc' \in {"off", "idle"} \cup PutPCs \cup ClearPCs
  BY DEF AInv, SInv, IInv, TypeOK, PutPCs, ClearPCs
<1>1. req' = req => Update' = Update
  BY DEF Update, IndexOf, IndexCount
<1>2. CASE pc \in PutPCs /\ pc' \in PutPCs /\ req' = req
  BY <1>1, <1>2, CallNow, CallNext DEF CallFact, Atomic!vars, PutPCs, ClearPCs
<1>3. CASE pc \in PutPCs /\ pc' \in {"idle", "off"}
  BY <1>3, CallNow, CallNext DEF CallFact, Atomic!Next, Atomic!EndPut, PutPCs, ClearPCs
<1>4. CASE pc \in {"idle", "off"}
  <2>1. CASE pc' \in PutPCs
    BY <1>4, <2>1, CallNow, CallNext DEF CallFact, Atomic!Next, Atomic!BeginPut, PutPCs, ClearPCs
  <2>2. CASE pc' \in ClearPCs
    BY <1>4, <2>2, CallNow, CallNext DEF CallFact, Atomic!Next, Atomic!BeginClear, PutPCs, ClearPCs
  <2>3. CASE pc' \in {"idle", "off"}
    <3>1. req' = req
      BY <1>4, <2>3 DEF AInv, IdleInv, PutPCs, NoRequest
    <3>. QED  BY <1>1, <1>4, <2>3, <3>1, CallNow, CallNext DEF CallFact, Atomic!vars, PutPCs, ClearPCs
  <2>. QED  BY <1>0, <2>1, <2>2, <2>3
<1>. QED  BY <1>2, <1>3, <1>4

LEMMA EffectStep ==
  ASSUME AInv, pc \in PutPCs, ~MarkFailed,
         FirstActive = active \/ (FirstActive = alternate /\ pc = "deactivate"),
         \A i \in Cells : Contents'[i] = Target(i),
         \/ pc' \in PutPCs /\ req' = req
         \/ pc' \in {"idle", "off"}
  PROVE  [Atomic!Next]_Atomic!vars
<1>1. active \in Page /\ alternate \in Page
  BY PutFacts
<1>2. \A i \in Cells \ DOMAIN Update : Contents[i] = Value(active, i)
  <2>1. CASE FirstActive = active
    BY <1>1, <2>1, ContentsNow DEF ContentsFact
  <2>2. CASE FirstActive = alternate /\ pc = "deactivate"
    BY <1>1, <2>2, ContentsNow DEF ContentsFact, AInv, DoneInv, Target
  <2>. QED  BY <2>1, <2>2
<1>3. \A i \in Cells : Contents'[i] = IF i \in DOMAIN Update THEN Update[i] ELSE Contents[i]
  BY <1>2 DEF Target
<1>4. Contents' = [i \in Cells |-> Contents'[i]]
  BY DEF Contents, Cells, Capacity
<1>5. Contents' = Atomic!Stored(Update)
  BY <1>3, <1>4 DEF Atomic!Stored
<1>6. req' = req => Update' = Update
  BY DEF Update, IndexOf, IndexCount
<1>7. PromisedCall = "put" /\ PromisedCall' \in {"put", "none", "exposed"}
  BY CallNow, CallNext DEF CallFact, PutPCs, ClearPCs
<1>8. PromisedCall' = "put" => pc' \in PutPCs
  BY CallNext DEF CallFact, PutPCs, ClearPCs
<1>9. PromisedCall' = "put" => Update' = Update
  BY <1>6, <1>8 DEF PutPCs
<1>. QED  BY <1>5, <1>7, <1>9 DEF Atomic!Next, Atomic!StorePut

LEMMA NewContents ==
  ASSUME AInv'
  PROVE  Contents' \in [Cells -> Byte]
<1>1. TypeOK'
  BY DEF AInv, SInv, IInv
<1>2. (TypeOK => Contents \in [Cells -> Byte])'
  BY ContentsType, PTL
<1>. QED  BY <1>1, <1>2 DEF Cells, Capacity, Byte

LEMMA ClearStep ==
  ASSUME AInv', pc \in ClearPCs, pc' \in ClearPCs \cup {"idle", "off"},
         pc' \in ClearPCs \/ ~MarkFailed'
  PROVE  [Atomic!Next]_Atomic!vars
<1>1. PromisedCall = "clear" /\ PromisedCall' \in {"clear", "none"}
  BY CallNow, CallNext DEF CallFact
<1>. QED  BY <1>1, NewContents DEF Atomic!Next, Atomic!Unprotected

(* Once the old page could not be marked, that stays so until a reset.      *)
LEMMA ExposedStep ==
  ASSUME FaultsShow, AInv, AInv', Next, MarkFailed, pc \notin ClearPCs
  PROVE  [Atomic!Next]_Atomic!vars
<1>1. PromisedCall = "exposed"
  BY CallNow DEF CallFact
<1>2. /\ pc \in {"idle"} \cup PutPCs /\ active \in Page /\ alternate \in Page /\ alternate # active
      /\ status[active] = "OTHER" /\ status \in [Page -> Status]
  BY DEF MarkFailed, AInv, SInv, IInv, PhaseInv, TypeOK, Page, Other, NoPage
<1>3. CASE Clear
  <2>1. FirstActive' = FirstActive /\ cell' = cell /\ pc' \in ClearPCs
    BY <1>3 DEF Clear, flash, FirstActive, ClearPCs
  <2>2. Contents' = Contents
    BY <2>1, SamePage, SameContents
  <2>3. PromisedCall' = "clear"
    BY <2>1, CallNext DEF CallFact, ClearPCs
  <2>. QED  BY <1>1, <2>2, <2>3 DEF Atomic!Next, Atomic!BeginClear
<1>4. CASE Crash
  <2>1. ~MarkFailed' /\ pc' = "off"
    BY <1>4 DEF Crash, MarkFailed, Page, NoPage
  <2>2. PromisedCall' = "none"
    BY <2>1, CallNext DEF CallFact
  <2>. QED  BY <1>1, <2>2, NewContents DEF Atomic!Next, Atomic!Unprotected
<1>5. CASE ~Clear /\ ~Crash
  <2>1. active' = active /\ status'[active] = "OTHER" /\ pc' \notin ClearPCs
    <3>1. CASE Deactivate
      <4>1. ProgramStatus("OTHER", "INACTIVE", 4) = "OTHER"
        BY DEF ProgramStatus
      <4>2. status'[active] = "OTHER"
        BY <1>2, <3>1, <4>1 DEF Deactivate
      <4>. QED  BY <1>2, <3>1, <4>2
           DEF Deactivate, FaultsShow, SwapFailed, StartSwap, Return, ClearPCs
    <3>2. CASE Call
      BY <1>2, <1>5, <3>2 DEF Call, PerformPendingErase, Put, StartSwap, ErasePage, flash, ClearPCs
    <3>3. CASE Fault
      BY <1>2, <3>3 DEF Fault, RecordFault, StatusFault, StatusPage, WriteFailed, SwapFailed, StartSwap,
         Return, ClearPCs
    <3>4. CASE Step /\ ~Deactivate
      BY <1>2, <3>4 DEF Step, Boot, ClearErase, ClearFormat, WriteNextRecord, NoRoom, VerifyDestination,
         WriteHeader, CopyDone, DirectDone, Activate, ErasePage, flash, RecordWritten, WriteFailed,
         SwapFailed, StartSwap, Return, PutPCs, ClearPCs
    <3>. QED  BY <1>5, <3>1, <3>2, <3>3, <3>4 DEF Next
  <2>2. MarkFailed'
    BY <1>2, <2>1 DEF MarkFailed
  <2>3. PromisedCall' = "exposed"
    BY <2>1, <2>2, CallNext DEF CallFact, ClearPCs
  <2>. QED  BY <1>1, <2>3, NewContents DEF Atomic!Next, Atomic!Unprotected
<1>. QED  BY <1>3, <1>4, <1>5

(* Changes of the page that a reset would not choose. *)
LEMMA OtherPage ==
  ASSUME AInv, ~MarkFailed, pc \in {"idle"} \cup PutPCs, active = FirstActive,
         cell'[active] = cell[active], status'[active] = status[active],
         status'[alternate] \in {status[alternate], "ERASED", "COPY", "OTHER"}
  PROVE  Contents' = Contents
<1>1. active \in Page /\ alternate = Other(active) /\ status[active] = "ACTIVE"
  BY Unmarked DEF AInv, SInv
<1>2. FirstActive' = FirstActive
  BY <1>1 DEF FirstActive, Page, Other, NoPage
<1>3. ASSUME NEW p \in Page, FirstActive = p PROVE \A i \in Cells : Value(p, i)' = Value(p, i)
  <2>1. cell'[p] = cell[p]
    BY <1>3
  <2>. QED  BY <2>1, SamePage
<1>. QED  BY <1>2, <1>3, SameContents

(* Marking the pages at the end of a swap. *)
LEMMA MarkStep ==
  ASSUME AInv, AInv', ~MarkFailed, pc \in {"activate", "deactivate"}, cell' = cell,
         (FirstActive' = FirstActive /\ ~MarkFailed') \/ FirstActive' = alternate,
         FirstActive' = alternate => pc = "deactivate" \/ FirstActive = active,
         \/ pc' \in PutPCs /\ req' = req
         \/ pc' \in {"idle", "off"}
  PROVE  [Atomic!Next]_Atomic!vars
<1>0. active \in Page /\ alternate \in Page /\ FirstActive \in {active, alternate}
  BY Unmarked, FirstActiveType DEF AInv, SInv, PutPCs, Page, Other, FirstActive, NoPage
<1>1. CASE FirstActive' = FirstActive /\ ~MarkFailed'
  <2>1. Contents' = Contents
    BY <1>1, SamePage, SameContents
  <2>. QED  BY <1>1, <2>1, HiddenStep DEF PutPCs
<1>2. CASE FirstActive' = alternate
  <2>1. PICK q \in Page : q = alternate
    BY <1>0
  <2>2. FirstActive' = q
    BY <1>2, <2>1
  <2>3. ASSUME NEW i \in Cells PROVE Contents'[i] = Target(i)
    <3>1. Contents'[i] = Value(q, i)'
      BY <2>2, ContentsNext DEF ContentsFact, Cells, Capacity
    <3>2. Value(q, i)' = Value(q, i)
      BY SamePage
    <3>3. Value(alternate, i) = Target(i)
      BY DEF AInv, DoneInv
    <3>. QED  BY <2>1, <3>1, <3>2, <3>3
  <2>. QED  BY <1>0, <1>2, <2>3, EffectStep DEF PutPCs
<1>. QED  BY <1>1, <1>2

(* A write of the append loop, whole, torn or failed. *)
LEMMA AppendVisible ==
  ASSUME FaultsShow, AInv, AInv', ~MarkFailed, ~MarkFailed', pc = "append", status' = status, NEW c,
         cell' = [cell EXCEPT ![active][wa - 1] = c],
         \/ wa - 1 # FirstFree(active)
         \/ ~Valid(c)
         \/ c = RecordToWrite /\ pc' \in {"idle", "off"},
         \/ pc' \in PutPCs /\ req' = req
         \/ pc' \in {"idle", "off"}
  PROVE  [Atomic!Next]_Atomic!vars
<1>0. active \in Page /\ active = FirstActive /\ FirstActive' = FirstActive
  BY Unmarked DEF AInv, SInv, PutPCs, FirstActive
<1>1. CASE wa - 1 # FirstFree(active) \/ ~Valid(c)
  <2>1. \A p \in Page : \A i : Value(p, i)' = Value(p, i)
    BY <1>1, AppendHidden
  <2>2. Contents' = Contents
    BY <1>0, <2>1, SameContents
  <2>. QED  BY <2>2, HiddenStep DEF PutPCs
<1>2. CASE wa - 1 = FirstFree(active) /\ c = RecordToWrite
  <2>1. PICK p \in Page : p = active
    BY <1>0
  <2>2. ASSUME NEW i \in Cells PROVE Contents'[i] = Target(i)
    <3>1. Contents'[i] = Value(p, i)'
      BY <1>0, <2>1, ContentsNext DEF ContentsFact, Cells, Capacity
    <3>2. Value(p, i)' = Target(i)
      BY <1>2, <2>1, AppendShown
    <3>. QED  BY <3>1, <3>2
  <2>. QED  BY <1>0, <2>2, EffectStep DEF PutPCs
<1>. QED  BY <1>1, <1>2

(* A power cut. *)
LEMMA CrashStep ==
  ASSUME FaultsShow, AInv, AInv', Crash, ~MarkFailed
  PROVE  [Atomic!Next]_Atomic!vars
<1>0. pc' = "off" /\ pc # "off" /\ TypeOK /\ ~MarkFailed'
  BY DEF Crash, AInv, SInv, IInv, MarkFailed, Page, NoPage
<1>1. CASE pc \in ClearPCs
  BY <1>0, <1>1, ClearStep
<1>2. ASSUME pc \notin ClearPCs PROVE pc \in {"idle"} \cup PutPCs
  BY <1>0, <1>2 DEF TypeOK
<1>3. ASSUME pc \notin ClearPCs, Contents' = Contents PROVE [Atomic!Next]_Atomic!vars
  BY <1>0, <1>2, <1>3, HiddenStep
<1>4. ASSUME pc \notin ClearPCs
      PROVE  /\ active \in Page /\ alternate \in Page /\ alternate # active
             /\ status[active] = "ACTIVE" /\ (pc # "deactivate" => active = FirstActive)
  BY <1>2, <1>4, Unmarked DEF AInv, SInv
<1>5. CASE UNCHANGED flash /\ pc \notin ClearPCs
  <2>1. FirstActive' = FirstActive /\ cell' = cell
    BY <1>5 DEF flash, FirstActive
  <2>2. Contents' = Contents
    BY <2>1, SamePage, SameContents
  <2>. QED  BY <1>3, <1>5, <2>2
<1>6. CASE CutRecord
  <2>1. pc \in {"append", "copy", "direct"} /\ pc \notin ClearPCs /\ status' = status /\ todo # {}
    BY <1>6 DEF CutRecord, ClearPCs
  <2>2. PICK k \in Cuts : cell' = [cell EXCEPT ![WritePage][WriteSlot] =
                             Program(cell[WritePage][WriteSlot], RecordToWrite, k)]
    BY <1>6 DEF CutRecord
  <2>3. RecordToWrite \in Record
    BY <2>1, RecordToWriteType DEF AInv, SInv, IInv
  <2>4. CASE pc = "append"
    <3>. DEFINE c == Program(cell[active][wa - 1], RecordToWrite, k)
    <3>1. cell' = [cell EXCEPT ![active][wa - 1] = c]
      BY <2>2, <2>4 DEF WritePage, WriteSlot
    <3>2. wa - 1 = FirstFree(active) => ~Valid(c) \/ c = RecordToWrite
      <4>. SUFFICES ASSUME wa - 1 = FirstFree(active) PROVE ~Valid(c) \/ c = RecordToWrite
        OBVIOUS
      <4>1. cell[active][wa - 1] = ErasedRecord
        BY <2>4 DEF AInv, AppendInv, Empty
      <4>2. k \in {0, 1, 2, 4}
        BY DEF FaultsShow, IndicesKept
      <4>. QED  BY <2>3, <4>1, <4>2, ProgramEmpty
    <3>. HIDE DEF c
    <3>. QED  BY <1>0, <2>1, <2>4, <3>1, <3>2, AppendVisible
  <2>5. CASE pc \in {"copy", "direct"}
    <3>1. active = FirstActive
      BY <1>4, <2>1, <2>5
    <3>2. cell'[active] = cell[active]
      BY <1>0, <1>4, <2>1, <2>2, <2>5 DEF WritePage, TypeOK
    <3>3. Contents' = Contents
      BY <2>1, <2>5, <3>1, <3>2, OtherPage DEF PutPCs
    <3>. QED  BY <1>3, <2>1, <3>3
  <2>. QED  BY <2>1, <2>4, <2>5
<1>7. CASE CutStatus /\ pc \notin ClearPCs
  <2>1. cell' = cell /\ pc \in {"header", "activate", "deactivate"}
    BY <1>7 DEF CutStatus, StatusPC, ClearPCs
  <2>2. PICK k \in Cuts : status' = [status EXCEPT ![StatusPage] =
                             ProgramStatus(status[StatusPage], StatusWord, k)]
    BY <1>7 DEF CutStatus
  <2>3. status \in [Page -> Status]
    BY <1>0 DEF TypeOK
  <2>4. CASE pc = "header"
    <3>1. active = FirstActive /\ status[alternate] = "ERASED"
      BY <1>4, <1>7, <2>4 DEF AInv, SInv, IInv, PhaseInv, Erased
    <3>2. status' = [status EXCEPT ![alternate] = ProgramStatus("ERASED", "COPY", k)]
      BY <2>2, <2>4, <3>1 DEF StatusPage, StatusWord
    <3>3. ProgramStatus("ERASED", "COPY", k) \in {"ERASED", "OTHER", "COPY"}
      BY DEF ProgramStatus
    <3>4. Contents' = Contents
      BY <1>4, <1>7, <2>1, <2>3, <2>4, <3>1, <3>2, <3>3, OtherPage DEF PutPCs
    <3>. QED  BY <1>3, <1>7, <3>4
  <2>5. CASE pc = "activate"
    <3>1. active = FirstActive /\ status[alternate] = "COPY"
      BY <1>4, <1>7, <2>5 DEF AInv, SInv, IInv, PhaseInv
    <3>2. StatusPage = alternate
      BY <2>5 DEF StatusPage
    <3>3. FirstActive' \in {FirstActive, alternate}
      BY <1>4, <1>7, <2>2, <2>3, <3>1, <3>2 DEF FirstActive, Page, NoPage
    <3>. QED  BY <1>0, <2>1, <2>5, <3>1, <3>3, MarkStep
  <2>6. CASE pc = "deactivate"
    <3>1. status[alternate] = "ACTIVE" /\ StatusPage = active
      BY <2>6 DEF AInv, SInv, IInv, PhaseInv, StatusPage
    <3>2. FirstActive' \in {FirstActive, alternate}
      BY <1>4, <1>7, <2>2, <2>3, <3>1 DEF FirstActive, Page, NoPage
    <3>. QED  BY <1>0, <2>1, <2>6, <3>2, MarkStep
  <2>. QED  BY <2>1, <2>4, <2>5, <2>6
<1>8. CASE Erasing /\ CutErase(ErasingPage) /\ pc \notin ClearPCs
  <2>1. pc \in {"idle", "verify"} /\ ErasingPage = alternate
    BY <1>8 DEF Erasing, ErasingPage, ClearPCs
  <2>2. /\ \E x : cell' = [cell EXCEPT ![alternate] = x]
        /\ \E w \in {status[alternate], "ERASED"} : status' = [status EXCEPT ![alternate] = w]
    BY <1>8, <2>1 DEF CutErase
  <2>3. active = FirstActive
    BY <1>4, <1>8, <2>1
  <2>4. /\ cell'[active] = cell[active] /\ status'[active] = status[active]
        /\ status'[alternate] \in {status[alternate], "ERASED"}
    BY <1>0, <1>4, <1>8, <2>2 DEF TypeOK
  <2>5. Contents' = Contents
    BY <1>2, <1>8, <2>3, <2>4, OtherPage
  <2>. QED  BY <1>3, <1>8, <2>5
<1>. QED  BY <1>1, <1>5, <1>6, <1>7, <1>8 DEF Crash

(* Steps of a swap before its end are not seen, and neither are failures. *)
LEMMA SwapStep ==
  ASSUME FaultsShow, AInv, AInv', ~MarkFailed, ~MarkFailed',
         pc \in {"verify", "header", "copy", "direct", "activate"},
         \/ \E x : cell' = [cell EXCEPT ![alternate] = x]
         \/ \E s, x : cell' = [cell EXCEPT ![alternate][s] = x]
         \/ cell' = cell,
         \/ \E w \in {"ERASED", "COPY", "OTHER"} : status' = [status EXCEPT ![alternate] = w]
         \/ status' = status,
         \/ pc' \in PutPCs /\ req' = req
         \/ pc' \in {"idle", "off"}
  PROVE  [Atomic!Next]_Atomic!vars
<1>1. /\ active \in Page /\ alternate \in Page /\ alternate # active /\ TypeOK
      /\ pc \in PutPCs /\ active = FirstActive
  BY Unmarked DEF PutPCs, AInv, SInv, IInv
<1>2. cell'[active] = cell[active]
  BY <1>1 DEF TypeOK
<1>3. /\ status'[active] = status[active]
      /\ status'[alternate] \in {status[alternate], "ERASED", "COPY", "OTHER"}
  BY <1>1 DEF TypeOK
<1>4. Contents' = Contents
  BY <1>1, <1>2, <1>3, OtherPage
<1>. QED  BY <1>1, <1>4, HiddenStep

(* Only the failing mark itself ends the time without a failed mark. *)
LEMMA StaysUnmarked ==
  ASSUME AInv, AInv', Next, ~MarkFailed, pc' \notin ClearPCs
  PROVE  ~MarkFailed' \/ (StatusFault /\ pc = "deactivate")
<1>. SUFFICES ASSUME MarkFailed' PROVE StatusFault /\ pc = "deactivate"
  OBVIOUS
<1>0. status \in [Page -> Status] /\ pc' # "off" /\ active' \in Page /\ status'[active'] = "OTHER"
  BY DEF MarkFailed, AInv, SInv, IInv, TypeOK, PhaseInv, Page, NoPage
<1>1. ASSUME UpdateActivePage PROVE FALSE
  BY <1>0, <1>1 DEF UpdateActivePage, FirstActive, Page, NoPage
<1>2. ASSUME active' = active, status'[active] = status[active] PROVE FALSE
  BY <1>0, <1>2 DEF MarkFailed
<1>3. ASSUME pc \in {"idle"} \cup PutPCs
      PROVE  active \in Page /\ alternate \in Page /\ alternate # active /\ status[active] = "ACTIVE"
  BY <1>3, Unmarked DEF AInv, SInv
<1>4. CASE Deactivate
  <2>1. ProgramStatus("ACTIVE", "INACTIVE", 4) = "INACTIVE"
    BY DEF ProgramStatus
  <2>2. UpdateActivePage
    BY <1>0, <1>3, <1>4, <2>1 DEF Deactivate, PutPCs
  <2>. QED  BY <1>1, <2>2
<1>5. CASE Boot \/ ClearFormat
  BY <1>1, <1>5 DEF Boot, ClearFormat
<1>6. CASE ClearErase \/ Clear \/ Crash
  BY <1>0, <1>6 DEF ClearErase, Clear, Crash, ClearPCs
<1>7. CASE StatusFault /\ pc # "deactivate"
  BY <1>0, <1>2, <1>3, <1>7 DEF StatusFault, StatusPage, PutPCs
<1>8. CASE PerformPendingErase \/ VerifyDestination \/ WriteHeader \/ Activate
  BY <1>0, <1>2, <1>3, <1>8 DEF PerformPendingErase, VerifyDestination, WriteHeader, Activate, ErasePage,
     flash, PutPCs
<1>9. CASE WriteNextRecord \/ NoRoom \/ CopyDone \/ DirectDone \/ RecordFault \/ \E r \in Requests : Put(r)
  BY <1>2, <1>9 DEF WriteNextRecord, NoRoom, CopyDone, DirectDone, RecordFault, Put, flash
<1>. QED  BY <1>4, <1>5, <1>6, <1>7, <1>8, <1>9 DEF Next, Step, Fault, Call, StatusFault

(* A step while no mark has failed, outside clear(). *)
LEMMA AtomicStepUnmarked ==
  ASSUME FaultsShow, AInv, AInv', Next, ~MarkFailed, pc \notin ClearPCs
  PROVE  [Atomic!Next]_Atomic!vars
<1>0. TypeOK
  BY DEF AInv, SInv, IInv
<1>1. ASSUME SwapFailed, pc \in PutPCs
      PROVE  (pc' \in PutPCs /\ req' = req) \/ pc' \in {"idle", "off"}
  BY <1>1 DEF SwapFailed, StartSwap, Return, PutPCs
<1>2. pc' \in ClearPCs \/ ~MarkFailed' \/ (StatusFault /\ pc = "deactivate")
  BY StaysUnmarked
<1>3. CASE Boot \/ Clear \/ \E r \in Requests : Put(r)
  <2>1. FirstActive' = FirstActive /\ cell' = cell /\ pc \in {"idle", "off"}
    BY <1>3 DEF Boot, Clear, Put, flash, FirstActive
  <2>2. Contents' = Contents
    BY <2>1, SamePage, SameContents
  <2>3. ~MarkFailed'
    BY <1>0, <1>3 DEF Boot, Clear, Put, UpdateActivePage, FirstActive, MarkFailed, flash, Page, NoPage
  <2>. QED  BY <2>1, <2>2, <2>3, HiddenStep
<1>4. ~ClearErase /\ ~ClearFormat
  BY DEF ClearErase, ClearFormat, ClearPCs
<1>5. CASE PerformPendingErase
  <2>1. pc = "idle" /\ active \in Page /\ alternate \in Page /\ alternate # active /\ active = FirstActive
    BY <1>5, Unmarked DEF PerformPendingErase, AInv, SInv
  <2>2. cell'[active] = cell[active] /\ status'[active] = status[active] /\ status'[alternate] = "ERASED"
    BY <1>0, <1>5, <2>1 DEF PerformPendingErase, ErasePage, TypeOK
  <2>3. Contents' = Contents
    BY <2>1, <2>2, OtherPage
  <2>. QED  BY <1>2, <1>5, <2>1, <2>3, HiddenStep DEF PerformPendingErase, ClearPCs
<1>6. CASE WriteNextRecord
  <2>0. ~MarkFailed'
    BY <1>6 DEF WriteNextRecord, MarkFailed
  <2>1. CASE pc = "append"
    <3>1. status' = status /\ pc' \in PutPCs \cup {"idle"} /\ (pc' \in PutPCs => req' = req)
      BY <1>6, <2>1, AppendWrite DEF PutPCs
    <3>2. CASE wa - 1 = FirstFree(active)
      <4>1. pc' = "idle" /\ cell' = [cell EXCEPT ![active][wa - 1] = RecordToWrite]
        BY <1>6, <2>1, <3>2, AppendWrite
      <4>. QED  BY <2>0, <2>1, <3>1, <4>1, AppendVisible
    <3>3. CASE wa - 1 # FirstFree(active)
      <4>1. PICK c : cell' = [cell EXCEPT ![active][wa - 1] = c]
        BY <1>6, <2>1, <3>3, AppendWrite
      <4>. QED  BY <2>0, <2>1, <3>1, <3>3, <4>1, AppendVisible
    <3>. QED  BY <3>2, <3>3
  <2>2. CASE pc \in {"copy", "direct"}
    <3>1. /\ cell' = [cell EXCEPT ![alternate][wa] = RecordToWrite]
          /\ status' = status /\ pc' = pc /\ req' = req
      BY <1>6, <2>2, DestWrite
    <3>. QED  BY <2>0, <2>2, <3>1, SwapStep DEF PutPCs
  <2>. QED  BY <1>6, <2>1, <2>2 DEF WriteNextRecord
<1>7. CASE NoRoom
  <2>1. cell' = cell /\ status' = status /\ pc \in {"copy", "direct"} /\ SwapFailed /\ ~MarkFailed'
    BY <1>7 DEF NoRoom, flash, MarkFailed
  <2>. QED  BY <1>0, <1>1, <2>1, SwapStep DEF PutPCs
<1>8. CASE RecordFault
  <2>1. PICK c \in FaultCells : cell' = [cell EXCEPT ![WritePage][WriteSlot] = c]
    BY <1>8 DEF RecordFault
  <2>2. /\ ~Valid(c) /\ status' = status /\ WriteFailed /\ pc \in {"append", "copy", "direct"}
        /\ ~MarkFailed'
    BY <1>8 DEF RecordFault, FaultsShow, MarkFailed
  <2>3. CASE pc = "append"
    <3>1. cell' = [cell EXCEPT ![active][wa - 1] = c]
      BY <2>1, <2>3 DEF WritePage, WriteSlot
    <3>2. pc' \in PutPCs /\ req' = req
      BY <2>2, <2>3 DEF WriteFailed, StartSwap, PutPCs
    <3>. QED  BY <1>0, <2>2, <2>3, <3>1, <3>2, AppendVisible
  <2>4. CASE pc \in {"copy", "direct"}
    <3>1. cell' = [cell EXCEPT ![alternate][wa] = c]
      BY <2>1, <2>4 DEF WritePage, WriteSlot
    <3>2. SwapFailed
      BY <2>2, <2>4 DEF WriteFailed
    <3>. QED  BY <1>0, <1>1, <2>2, <2>4, <3>1, <3>2, SwapStep DEF PutPCs
  <2>. QED  BY <2>2, <2>3, <2>4
<1>9. CASE StatusFault
  <2>1. /\ pc \in {"header", "activate", "deactivate"} /\ SwapFailed /\ cell' = cell
        /\ pc \in PutPCs /\ pc' \notin ClearPCs
    BY <1>9 DEF StatusFault, SwapFailed, StartSwap, Return, PutPCs, ClearPCs
  <2>2. CASE pc # "deactivate"
    <3>1. status' = [status EXCEPT ![alternate] = "OTHER"]
      BY <1>9, <2>1, <2>2 DEF StatusFault, StatusPage
    <3>. QED  BY <1>1, <1>2, <2>1, <2>2, <3>1, SwapStep
  <2>3. CASE pc = "deactivate"
    <3>1. status' = [status EXCEPT ![active] = "OTHER"]
      BY <1>9, <2>3 DEF StatusFault, StatusPage
    <3>2. /\ active \in Page /\ alternate \in Page /\ alternate # active
          /\ status[alternate] = "ACTIVE"
      BY <2>1, <2>3, Unmarked DEF AInv, SInv, IInv, PhaseInv
    <3>3. FirstActive' = alternate
      BY <1>0, <3>1, <3>2 DEF FirstActive, TypeOK, Page, NoPage
    <3>. QED  BY <1>1, <2>1, <2>3, <3>3, MarkStep
  <2>. QED  BY <2>2, <2>3
<1>10. CASE VerifyDestination
  <2>1. pc = "verify" /\ pc' = "header" /\ req' = req /\ ~MarkFailed'
    BY <1>2, <1>10 DEF VerifyDestination, ClearPCs
  <2>2. \/ cell' = cell /\ status' = status
        \/ /\ status' = [status EXCEPT ![alternate] = "ERASED"]
           /\ cell' = [cell EXCEPT ![alternate] = ErasedPage(alternate)]
    BY <1>10 DEF VerifyDestination, ErasePage, flash
  <2>. QED  BY <1>0, <2>1, <2>2, SwapStep DEF PutPCs
<1>11. CASE WriteHeader
  <2>1. pc = "header" /\ pc' \in PutPCs /\ req' = req /\ cell' = cell /\ ~MarkFailed'
    BY <1>2, <1>11 DEF WriteHeader, PutPCs, ClearPCs
  <2>2. status[alternate] = "ERASED"
    BY <2>1 DEF AInv, SInv, IInv, PhaseInv, Erased
  <2>3. ProgramStatus("ERASED", "COPY", 4) = "COPY"
    BY DEF ProgramStatus
  <2>4. status' = [status EXCEPT ![alternate] = "COPY"]
    BY <1>11, <2>2, <2>3 DEF WriteHeader
  <2>. QED  BY <1>0, <2>1, <2>4, SwapStep
<1>12. CASE CopyDone \/ DirectDone
  <2>1. /\ pc \in {"copy", "direct"} /\ pc' \in PutPCs /\ req' = req /\ cell' = cell /\ status' = status
        /\ ~MarkFailed'
    BY <1>12 DEF CopyDone, DirectDone, PutPCs, flash, MarkFailed
  <2>. QED  BY <1>0, <2>1, SwapStep
<1>13. CASE Activate \/ Deactivate
  <2>1. pc \in {"activate", "deactivate"} /\ cell' = cell
    BY <1>13 DEF Activate, Deactivate
  <2>2. (pc' \in PutPCs /\ req' = req) \/ pc' \in {"idle", "off"}
    BY <1>1, <1>13 DEF Activate, Deactivate, Return, PutPCs
  <2>3. /\ active \in Page /\ alternate \in Page /\ alternate # active
        /\ status[active] = "ACTIVE" /\ status \in [Page -> Status]
    BY <1>0, <2>1, Unmarked DEF AInv, SInv, PutPCs, TypeOK
  <2>4. CASE Activate
    <3>1. \E w : status' = [status EXCEPT ![alternate] = w]
      BY <2>4 DEF Activate
    <3>2. active = FirstActive /\ pc # "deactivate"
      BY <2>4, Unmarked DEF Activate, AInv, SInv, PutPCs
    <3>3. ~MarkFailed' /\ active = FirstActive
      BY <1>2, <2>4, <3>2 DEF Activate, ClearPCs
    <3>4. FirstActive' \in {FirstActive, alternate}
      BY <2>3, <3>1, <3>3 DEF FirstActive, Page, NoPage
    <3>. QED  BY <2>1, <2>2, <3>3, <3>4, MarkStep
  <2>5. CASE Deactivate
    <3>1. status[alternate] = "ACTIVE" /\ pc = "deactivate"
      BY <2>5 DEF Deactivate, AInv, SInv, IInv, PhaseInv
    <3>2. ProgramStatus("ACTIVE", "INACTIVE", 4) = "INACTIVE"
      BY DEF ProgramStatus
    <3>3. status' = [status EXCEPT ![active] = "INACTIVE"]
      BY <2>3, <2>5, <3>2 DEF Deactivate
    <3>4. FirstActive' = alternate
      BY <2>3, <3>1, <3>3 DEF FirstActive, Page, NoPage
    <3>. QED  BY <2>1, <2>2, <3>1, <3>4, MarkStep
  <2>. QED  BY <1>13, <2>4, <2>5
<1>14. CASE Crash
  BY <1>14, CrashStep
<1>. QED
  BY <1>3, <1>4, <1>5, <1>6, <1>7, <1>8, <1>9, <1>10, <1>11, <1>12, <1>13, <1>14
  DEF Next, Step, Fault, Call

LEMMA AtomicStep ==
  ASSUME FaultsShow, AInv, [Next]_vars
  PROVE  [Atomic!Next]_Atomic!vars
<1>0. AInv'
  BY NextAInv
<1>1. CASE UNCHANGED vars
  <2>1. FirstActive' = FirstActive /\ cell' = cell /\ req' = req /\ PromisedCall' = PromisedCall
    BY <1>1 DEF vars, FirstActive, PromisedCall, MarkFailed
  <2>2. Contents' = Contents
    BY <2>1, SamePage, SameContents
  <2>3. Update' = Update
    BY <2>1 DEF Update, IndexOf, IndexCount
  <2>. QED  BY <2>1, <2>2, <2>3 DEF Atomic!vars
<1>2. CASE Next /\ pc \in ClearPCs
  <2>1. pc' \in ClearPCs \cup {"idle", "off"}
    BY <1>2 DEF Next, Step, Fault, Call, Boot, ClearErase, ClearFormat, WriteNextRecord, NoRoom,
       VerifyDestination, WriteHeader, CopyDone, DirectDone, Activate, Deactivate, RecordFault, StatusFault,
       Clear, PerformPendingErase, Put, Crash, Return, ClearPCs
  <2>2. CASE pc' = "idle"
    <3>1. ClearFormat
      BY <1>2, <2>2 DEF Next, Step, Fault, Call, Boot, ClearErase, WriteNextRecord, NoRoom,
         VerifyDestination, WriteHeader, CopyDone, DirectDone, Activate, Deactivate, RecordFault,
         StatusFault, Clear, PerformPendingErase, Put, Crash, ClearPCs
    <3>2. ~MarkFailed'
      BY <3>1 DEF ClearFormat, UpdateActivePage, FirstActive, MarkFailed, Page, NoPage
    <3>. QED  BY <1>0, <1>2, <2>2, <3>2, ClearStep
  <2>3. CASE pc' = "off"
    <3>1. ~MarkFailed'
      BY <1>0, <2>3 DEF AInv, SInv, IInv, PhaseInv, MarkFailed, Page, NoPage
    <3>. QED  BY <1>0, <1>2, <2>3, <3>1, ClearStep
  <2>4. CASE pc' \in ClearPCs
    BY <1>0, <1>2, <2>4, ClearStep
  <2>. QED  BY <2>1, <2>2, <2>3, <2>4
<1>3. CASE Next /\ pc \notin ClearPCs
  BY <1>0, <1>3, ExposedStep, AtomicStepUnmarked
<1>. QED  BY <1>1, <1>2, <1>3

LEMMA InitAInv == Init => AInv /\ Atomic!Init
<1>. SUFFICES ASSUME Init PROVE AInv /\ Atomic!Init
  OBVIOUS
<1>1. AInv
  BY InitSInv DEF Init, AInv, AppendInv, DestInv, DoneInv, IdleInv
<1>2. FirstActive = NoPage
  BY DEF Init, FirstActive, Page
<1>3. Contents = [i \in Cells |-> FLASH_ERASED]
  BY <1>2 DEF Contents, Value
<1>4. Update = <<>>
  BY DEF Init, NoRequest, Update
<1>5. PromisedCall = "none"
  BY DEF Init, PromisedCall, MarkFailed, Page, NoPage, PutPCs, ClearPCs
<1>. QED  BY <1>1, <1>3, <1>4, <1>5 DEF Atomic!Init, Atomic!AllBlank

(* A put is atomic: the page emulation implements the store that changes    *)
(* all of a put's cells at once, whatever power cuts and failing writes     *)
(* fall into it, as long as no cut splits the index of a record and a       *)
(* failed write does not look like a valid record.  If the word that marks  *)
(* the old page inactive does not read back, the promise is lost until the  *)
(* next reset, and holds again from then on.                                *)
THEOREM PutsAreAtomic ==
  ASSUME FaultsShow
  PROVE  Spec => PutIsAtomic
<1>1. AInv /\ [Next]_vars => AInv' /\ [Atomic!Next]_Atomic!vars
  BY NextAInv, AtomicStep
<1>. QED  BY <1>1, InitAInv, PTL DEF Spec, PutIsAtomic, Atomic!Spec

-----------------------------------------------------------------------------
(* A put is durable.                                                        *)

(* The second attempt of swapPagesAndWrite meets no failing write. *)
SecondTryWorks == [][~(Fault /\ tries = 1)]_vars

LEMMA ReturnStores ==
  ASSUME FaultsShow, AInv, Next, ~(Fault /\ tries = 1), pc \in PutPCs, pc' = "idle",
         ~MarkFailed, NEW i \in DOMAIN Update
  PROVE  Contents'[i] = Update[i]
<1>0. /\ active \in Page /\ alternate \in Page /\ alternate # active /\ TypeOK /\ RoomInv
      /\ status[active] = "ACTIVE" /\ (pc # "deactivate" => active = FirstActive)
  BY PutFacts, Unmarked DEF AInv, SInv
<1>1. i \in Cells /\ Target(i) = Update[i]
  BY <1>0, UpdateFacts DEF Target
<1>2. PICK p \in Page : p = active
  BY <1>0
<1>3. PICK q \in Page : q = alternate
  BY <1>0
<1>4. \A x \in Page : FirstActive' = x => Contents'[i] = Value(x, i)'
  BY <1>1, ContentsNext DEF ContentsFact, Cells, Capacity
<1>5. CASE WriteNextRecord
  <2>1. pc = "append"
    BY <1>5, DestWrite DEF WriteNextRecord
  <2>2. /\ wa - 1 = FirstFree(active) /\ status' = status
        /\ cell' = [cell EXCEPT ![active][wa - 1] = RecordToWrite]
    BY <1>5, <2>1, AppendWrite
  <2>3. FirstActive' = p
    BY <1>0, <1>2, <2>1, <2>2 DEF FirstActive
  <2>4. Value(p, i)' = Target(i)
    BY <1>1, <1>2, <2>1, <2>2, AppendShown
  <2>. QED  BY <1>1, <1>4, <2>3, <2>4
<1>6. CASE Deactivate
  <2>1. pc = "deactivate" /\ cell' = cell
    BY <1>6 DEF Deactivate
  <2>2. status[alternate] = "ACTIVE"
    BY <2>1 DEF AInv, SInv, IInv, PhaseInv
  <2>3. status' = [status EXCEPT ![active] = "INACTIVE"]
    <3>1. ProgramStatus("ACTIVE", "INACTIVE", 4) = "INACTIVE"
      BY DEF ProgramStatus
    <3>. QED  BY <1>0, <1>6, <3>1 DEF Deactivate
  <2>4. FirstActive' = q
    BY <1>0, <1>3, <2>2, <2>3 DEF FirstActive, TypeOK, Page, NoPage
  <2>5. Value(q, i)' = Value(q, i)
    BY <2>1, SamePage
  <2>6. Value(alternate, i) = Target(i)
    BY <1>1, <2>1 DEF AInv, DoneInv
  <2>. QED  BY <1>1, <1>3, <1>4, <2>4, <2>5, <2>6
<1>7. ~NoRoom
  BY DestFacts DEF NoRoom
<1>8. ~Fault
  <2>1. tries \in {0, 1}
    BY <1>0 DEF TypeOK
  <2>. QED  BY <2>1 DEF Fault, RecordFault, StatusFault, WriteFailed, SwapFailed, StartSwap
<1>9. ~Crash
  BY DEF Crash
<1>10. ~Call
  BY DEF Call, Clear, PerformPendingErase, Put, PutPCs
<1>11. Step => WriteNextRecord \/ Deactivate
  BY <1>7 DEF Step, Boot, ClearErase, ClearFormat, VerifyDestination, WriteHeader, CopyDone,
     DirectDone, Activate, PutPCs
<1>. QED  BY <1>5, <1>6, <1>8, <1>9, <1>10, <1>11 DEF Next

(* A put that returns has stored its bytes, unless writes failed in both    *)
(* attempts at the swap: an append that fails is retried as a swap, a swap  *)
(* that fails is tried once more, and nothing else makes a put give up.     *)
(* Excepted are puts from a failed mark of the old page on, until a reset.  *)
THEOREM PutsAreDurable ==
  ASSUME FaultsShow
  PROVE  Spec /\ SecondTryWorks => PutIsDurable
<1>1. AInv /\ [Next]_vars /\ [~(Fault /\ tries = 1)]_vars =>
        [(pc \in PutPCs /\ pc' = "idle" /\ ~MarkFailed) =>
           \A i \in DOMAIN Update : Contents'[i] = Update[i]]_vars
  BY ReturnStores
<1>. QED  BY <1>1, InitAInv, NextAInv, PTL DEF Spec, SecondTryWorks, PutIsDurable
=============================================================================
