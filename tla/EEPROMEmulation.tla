--------------------------- MODULE EEPROMEmulation ---------------------------
(***************************************************************************)
(* The EEPROM emulation of services/inc/eeprom_emulation.h: byte cells kept *)
(* as an append-only list of records in one of two flash pages, with a page *)
(* swap when the list cannot be appended to.                                *)
(*                                                                          *)
(* Flash content (status, cell) survives a power cut; everything else is    *)
(* RAM or the program counter of the call in progress.  Every flash         *)
(* operation (one store.write, one eraseSector) is a step of its own, so a  *)
(* power cut can fall between any two of them, and inside one: Cuts says    *)
(* after how many of its four bytes a record or status write may be cut.    *)
(* Calls that change nothing (get, a put that is out of range or that       *)
(* stores what is already there) are stuttering steps.                      *)
(***************************************************************************)
EXTENDS Integers, Sequences, FiniteSets, FiniteSetsExt

CONSTANTS
  Slots,          \* records that fit in each page after its header
  DataMax,        \* the all-ones data byte (0xFF)
  LoMax, HiMax,   \* the all-ones low and high bytes of a record index
  And(_, _),      \* bitwise and: programming flash can only clear bits
  BatchSize,      \* indices per pass of forEachUniqueValidRecord (128)
  Requests,       \* the put calls the application makes
  Cuts,           \* bytes of a write that may be programmed when power fails
  PartialErase,   \* can a power cut leave a page half erased?
  VerifyWrites,   \* does store.write read back what it wrote?
  FaultSites,     \* program points whose write may fail (marginal flash)
  FaultCells      \* what a failed record write may leave in its slot

Page == {1, 2}
NoPage == 0
Other(p) == 3 - p

(* Page header status words; OTHER is any word the code does not name.      *)
Status == {"ERASED", "COPY", "ACTIVE", "INACTIVE", "OTHER"}

FLASH_ERASED == DataMax
VALID == 0
IndexCount == (LoMax + 1) * (HiMax + 1)
EMPTY_INDEX == IndexCount - 1

Index == 0 .. EMPTY_INDEX
Byte == 0 .. DataMax
Record == [data : Byte, status : Byte, index : Index]
ErasedRecord == [data |-> FLASH_ERASED, status |-> FLASH_ERASED, index |-> EMPTY_INDEX]
RecordOf(i, d) == [data |-> d, status |-> VALID, index |-> i]

Slot(p) == 1 .. Slots[p]

(* A page of n slots is n + 1 records long: its header has a record's size. *)
Capacity == Min({Slots[1] + 1, Slots[2] + 1}) \div 2

ASSUME SlotsAssumption == Slots \in [Page -> Nat \ {0}]
ASSUME WidthAssumption ==
  /\ DataMax \in Nat \ {0} /\ LoMax \in Nat \ {0} /\ HiMax \in Nat \ {0}
  /\ BatchSize \in 1 .. IndexCount
ASSUME AndAssumption ==
  \A w \in {DataMax, LoMax, HiMax} : \A x, y \in 0 .. w :
    And(x, y) \in 0 .. y /\ And(w, x) = x /\ And(x, w) = x
ASSUME RequestAssumption ==
  \A r \in Requests : r.begin \in Index /\ r.data \in Seq(Byte) /\ r.data # <<>>
ASSUME FaultAssumption ==
  /\ Cuts \subseteq 0 .. 4 /\ FaultCells \subseteq Record
  /\ PartialErase \in BOOLEAN /\ VerifyWrites \in BOOLEAN
  /\ FaultSites \subseteq {"append", "copy", "direct", "header", "activate", "deactivate"}

VARIABLES
  status,            \* flash: the status word of each page
  cell,              \* flash: the record slots of each page
  active, alternate, \* RAM: activePage and alternatePage
  pc,                \* where the call in progress is
  req,               \* the put in progress
  todo,              \* what the current loop still has to write
  wa,                \* writeAddress, as a slot number
  tries              \* swapPagesAndWrite's loop counter

flash == <<status, cell>>
vars == <<status, cell, active, alternate, pc, req, todo, wa, tries>>

PutPCs == {"append", "verify", "header", "copy", "direct", "activate", "deactivate", "hung"}
ClearPCs == {"erase1", "erase2", "format"}
NoRequest == [begin |-> 0, data |-> <<>>]

-----------------------------------------------------------------------------
(* Reading a page.                                                          *)

Empty(c) == c = ErasedRecord
Valid(c) == c.index # EMPTY_INDEX /\ c.status = VALID

(* forEachValidRecord: the records up to the first one that is not valid.   *)
Readable(p) == {s \in Slot(p) : \A t \in 1 .. s : Valid(cell[p][t])}

Hits(p, i) == {s \in Readable(p) : cell[p][s].index = i}

(* readRange for one cell: the last readable record wins, 0xFF if none.     *)
Value(p, i) == IF p = NoPage \/ Hits(p, i) = {}
               THEN FLASH_ERASED
               ELSE cell[p][Max(Hits(p, i))].data

(* The scan of readRangeAndFindEmpty stops here (one past the last slot if  *)
(* all records are valid) ...                                               *)
FirstFree(p) == Cardinality(Readable(p)) + 1

(* ... and reports whether it stopped at something other than an empty slot. *)
HasInvalidRecords(p) ==
  FirstFree(p) \in Slot(p) /\ ~Empty(cell[p][FirstFree(p)])

(* verifyPage *)
Erased(p) == status[p] = "ERASED" /\ \A s \in Slot(p) : Empty(cell[p][s])

(* updateActivePage: the first page marked active. *)
FirstActive == IF status[1] = "ACTIVE" THEN 1
               ELSE IF status[2] = "ACTIVE" THEN 2 ELSE NoPage
UpdateActivePage ==
  /\ active' = FirstActive'
  /\ alternate' = IF FirstActive' = NoPage THEN NoPage ELSE Other(FirstActive')

-----------------------------------------------------------------------------
(* The put in progress.                                                     *)

IndexEnd(r) == (r.begin + Len(r.data)) % IndexCount
InRange(r, i) == r.begin <= i /\ i < IndexEnd(r)
IndexOf(r, n) == (r.begin + n - 1) % IndexCount

(* existingData[n], read before the write starts. *)
Existing(r, n) == IF InRange(r, IndexOf(r, n)) THEN Value(active, IndexOf(r, n))
                                               ELSE FLASH_ERASED
Changed(r) == {n \in DOMAIN r.data : Existing(r, n) # r.data[n]}

(* Mutants: no separator after the last record; no check of the page's end. *)
CanAppendNoSeparator(r) ==
  /\ ~HasInvalidRecords(active)
  /\ FirstFree(active) + Cardinality(Changed(r)) <= Slots[active] + 1
CanAppendPastEnd(r) == ~HasInvalidRecords(active)

(* Room for the changed records, and an empty separator after the last one. *)
CanAppend(r) ==
  LET end == FirstFree(active) + Cardinality(Changed(r))
  IN  /\ ~HasInvalidRecords(active)
      /\ end <= Slots[active] + 1
      /\ end <= Slots[active] => Empty(cell[active][end])

(* Mutant: also copy the records that are being replaced. *)
CopyIndicesAll == {i \in Index : Hits(active, i) # {} /\ Value(active, i) # FLASH_ERASED}

(* Records that copyAllRecordsToPageExcept moves to the new page. *)
CopyIndices ==
  {i \in Index : ~InRange(req, i) /\ Hits(active, i) # {} /\ Value(active, i) # FLASH_ERASED}

(* lastIndex is a uint16_t: with an index in the last batch it wraps to 0   *)
(* and the scan never ends.                                                 *)
ScanNeverEnds == \E i \in Index : i >= IndexCount - BatchSize /\ Hits(active, i) # {}

(* Where the next record write goes, and what it writes. *)
WritePage == IF pc = "append" THEN active ELSE alternate
WriteSlot == IF pc = "append" THEN wa - 1 ELSE wa
RecordToWrite == IF pc = "copy" THEN RecordOf(Min(todo), Value(active, Min(todo)))
               ELSE RecordOf(IndexOf(req, Min(todo)), req.data[Min(todo)])

-----------------------------------------------------------------------------
(* Programming flash: k of the 4 bytes (data, status, index low, high).     *)

ProgramIndex(i, j, k) ==
  LET lo == IF k >= 3 THEN And(i % (LoMax + 1), j % (LoMax + 1)) ELSE i % (LoMax + 1)
      hi == IF k >= 4 THEN And(i \div (LoMax + 1), j \div (LoMax + 1)) ELSE i \div (LoMax + 1)
  IN  hi * (LoMax + 1) + lo

Program(c, r, k) ==
  [data   |-> IF k >= 1 THEN And(c.data, r.data) ELSE c.data,
   status |-> IF k >= 2 THEN And(c.status, r.status) ELSE c.status,
   index  |-> ProgramIndex(c.index, r.index, k)]

(* COPY and ACTIVE are told apart by the low two bytes of the word (EEEE,   *)
(* 0000), INACTIVE by the high two (CCCC).  A word that is already damaged  *)
(* stays damaged until the page is erased.                                  *)
ProgramStatus(old, new, k) ==
  IF k = 0 \/ (new = "INACTIVE" /\ k <= 2) THEN old
  ELSE IF old = "OTHER" \/ (k = 1 /\ new # "INACTIVE") \/ (k = 3 /\ new = "INACTIVE")
       THEN "OTHER" ELSE new

StatusPC == {"header", "activate", "deactivate", "format"}
StatusPage == IF pc = "deactivate" THEN active
              ELSE IF pc = "format" THEN 1 ELSE alternate
StatusWord == CASE pc = "header" -> "COPY"
                [] pc = "deactivate" -> "INACTIVE"
                [] OTHER -> "ACTIVE"

ErasedPage(p) == [s \in Slot(p) |-> ErasedRecord]
ErasePage(p) ==
  /\ status' = [status EXCEPT ![p] = "ERASED"]
  /\ cell' = [cell EXCEPT ![p] = ErasedPage(p)]

-----------------------------------------------------------------------------
(* Both sectors erased, as the chip is delivered. *)
Init ==
  /\ status = [p \in Page |-> "ERASED"]
  /\ cell = [p \in Page |-> ErasedPage(p)]
  /\ active = NoPage /\ alternate = NoPage
  /\ pc = "off" /\ req = NoRequest /\ todo = {} /\ wa = 0 /\ tries = 0

Return ==
  pc' = "idle" /\ req' = NoRequest /\ todo' = {} /\ wa' = 0 /\ tries' = 0

(* init(), called at boot. *)
Boot ==
  /\ pc = "off"
  /\ UNCHANGED flash
  /\ UpdateActivePage
  /\ pc' = IF FirstActive = NoPage THEN "erase1" ELSE "idle"
  /\ UNCHANGED <<req, todo, wa, tries>>

(* clear() *)
Clear ==
  /\ pc = "idle"
  /\ pc' = "erase1"
  /\ UNCHANGED <<flash, active, alternate, req, todo, wa, tries>>

ClearErase ==
  /\ pc \in {"erase1", "erase2"}
  /\ ErasePage(IF pc = "erase1" THEN 1 ELSE 2)
  /\ pc' = IF pc = "erase1" THEN "erase2" ELSE "format"
  /\ UNCHANGED <<active, alternate, req, todo, wa, tries>>

ClearFormat ==
  /\ pc = "format"
  /\ status' = [status EXCEPT ![1] = ProgramStatus(@, "ACTIVE", 4)]
  /\ UNCHANGED cell
  /\ UpdateActivePage
  /\ Return

(* performPendingErase() *)
PerformPendingErase ==
  /\ pc = "idle"
  /\ status[alternate] # "ERASED"
  /\ ErasePage(alternate)
  /\ UNCHANGED <<active, alternate, pc, req, todo, wa, tries>>

StartSwap(n) ==
  pc' = "verify" /\ tries' = n /\ todo' = {} /\ wa' = 0

(* writeRange(), up to its first flash write. *)
Put(r) ==
  /\ pc = "idle"
  /\ IndexEnd(r) <= Capacity
  /\ req' = r
  /\ \/ /\ CanAppend(r) /\ Changed(r) # {}
        /\ pc' = "append" /\ tries' = 0
        /\ todo' = Changed(r)
        /\ wa' = FirstFree(active) + Cardinality(Changed(r))
     \/ /\ ~CanAppend(r) /\ (Changed(r) # {} \/ HasInvalidRecords(active))
        /\ StartSwap(0)
  /\ UNCHANGED <<flash, active, alternate>>

(* Mutant: no second try. *)
SwapFailedOnce == Return

(* The swap loop's body has failed: once more, or give the put up. *)
SwapFailed == IF tries = 0 THEN StartSwap(1) /\ UNCHANGED req ELSE Return

WriteFailed ==
  IF pc = "append" THEN StartSwap(0) /\ UNCHANGED req ELSE SwapFailed

(* Mutant: the loop forgets that it has written the record. *)
RecordWrittenAgain ==
  /\ todo' = todo
  /\ wa' = IF pc = "append" THEN wa - 1 ELSE wa + 1
  /\ UNCHANGED <<pc, req, tries>>

(* writeRecord() in writeRangeChanged (backwards), copyAllRecordsToPageExcept *)
(* and writeRangeDirect (forwards).                                           *)
RecordWritten ==
  /\ todo' = todo \ {Min(todo)}
  /\ IF pc = "append" /\ todo' = {}
     THEN pc' = "idle" /\ req' = NoRequest /\ wa' = 0
     ELSE pc' = pc /\ UNCHANGED req /\ wa' = IF pc = "append" THEN wa - 1 ELSE wa + 1
  /\ UNCHANGED tries

WriteNextRecord ==
  /\ pc \in {"append", "copy", "direct"} /\ todo # {}
  /\ WriteSlot \in Slot(WritePage)
  /\ LET programmed == Program(cell[WritePage][WriteSlot], RecordToWrite, 4)
     IN  /\ cell' = [cell EXCEPT ![WritePage][WriteSlot] = programmed]
         /\ IF VerifyWrites /\ programmed # RecordToWrite THEN WriteFailed
                                                        ELSE RecordWritten
  /\ UNCHANGED <<status, active, alternate>>

(* No more room for the record. *)
NoRoom ==
  /\ pc \in {"copy", "direct"} /\ todo # {}
  /\ WriteSlot \notin Slot(WritePage)
  /\ SwapFailed
  /\ UNCHANGED <<flash, active, alternate>>

(* A record write that does not read back. *)
RecordFault ==
  /\ pc \in FaultSites \cap {"append", "copy", "direct"} /\ todo # {}
  /\ WriteSlot \in Slot(WritePage)
  /\ \E c \in FaultCells : cell' = [cell EXCEPT ![WritePage][WriteSlot] = c]
  /\ WriteFailed
  /\ UNCHANGED <<status, active, alternate>>

(* swapPagesAndWrite(): make sure the destination is erased ... *)
VerifyDestination ==
  /\ pc = "verify"
  /\ IF tries > 0 \/ ~Erased(alternate) THEN ErasePage(alternate) ELSE UNCHANGED flash
  /\ pc' = "header"
  /\ UNCHANGED <<active, alternate, req, todo, wa, tries>>

(* ... mark it as the target of the copy ... *)
WriteHeader ==
  /\ pc = "header"
  /\ status' = [status EXCEPT ![alternate] = ProgramStatus(@, "COPY", 4)]
  /\ IF ScanNeverEnds THEN pc' = "hung" /\ todo' = {} ELSE pc' = "copy" /\ todo' = CopyIndices
  /\ wa' = 1
  /\ UNCHANGED <<cell, active, alternate, req, tries>>

(* ... all old records are copied, go on with the new ones ... *)
CopyDone ==
  /\ pc = "copy" /\ todo = {}
  /\ pc' = "direct"
  /\ todo' = {n \in DOMAIN req.data : req.data[n] # FLASH_ERASED}
  /\ UNCHANGED <<flash, active, alternate, req, wa, tries>>

(* Mutant: the new page is never marked active. *)
DirectDoneNoActivate ==
  /\ pc = "direct" /\ todo = {}
  /\ pc' = "deactivate"
  /\ UNCHANGED <<flash, active, alternate, req, todo, wa, tries>>

DirectDone ==
  /\ pc = "direct" /\ todo = {}
  /\ pc' = "activate"
  /\ UNCHANGED <<flash, active, alternate, req, todo, wa, tries>>

(* ... mark the new page active, then the old one inactive. *)
Activate ==
  /\ pc = "activate"
  /\ status' = [status EXCEPT ![alternate] = ProgramStatus(@, "ACTIVE", 4)]
  /\ pc' = "deactivate"
  /\ UNCHANGED <<cell, active, alternate, req, todo, wa, tries>>

(* Mutant: the page roles in RAM are not updated after the swap. *)
DeactivateNoUpdate ==
  /\ pc = "deactivate"
  /\ status' = [status EXCEPT ![active] = ProgramStatus(@, "INACTIVE", 4)]
  /\ Return
  /\ UNCHANGED <<cell, active, alternate>>

Deactivate ==
  /\ pc = "deactivate"
  /\ status' = [status EXCEPT ![active] = ProgramStatus(@, "INACTIVE", 4)]
  /\ UNCHANGED cell
  /\ IF VerifyWrites /\ status'[active] # "INACTIVE"
     THEN SwapFailed /\ UNCHANGED <<active, alternate>>
     ELSE UpdateActivePage /\ Return

(* A status write that does not read back. *)
StatusFault ==
  /\ pc \in FaultSites \cap {"header", "activate", "deactivate"}
  /\ status' = [status EXCEPT ![StatusPage] = "OTHER"]
  /\ SwapFailed
  /\ UNCHANGED <<cell, active, alternate>>

(* A power cut: RAM is lost, and the flash operation it falls into is left  *)
(* in any of its intermediate states.                                       *)
CutRecord ==
  /\ pc \in {"append", "copy", "direct"} /\ todo # {}
  /\ WriteSlot \in Slot(WritePage)
  /\ \E k \in Cuts : cell' = [cell EXCEPT ![WritePage][WriteSlot] = Program(@, RecordToWrite, k)]
  /\ UNCHANGED status

CutStatus ==
  /\ pc \in StatusPC
  /\ \E k \in Cuts : status' = [status EXCEPT ![StatusPage] = ProgramStatus(@, StatusWord, k)]
  /\ UNCHANGED cell

CutErase(p) ==
  /\ PartialErase
  /\ \E S \in SUBSET Slot(p) :
       cell' = [cell EXCEPT ![p] = [s \in Slot(p) |-> IF s \in S THEN ErasedRecord ELSE @[s]]]
  /\ \E w \in {status[p], "ERASED"} : status' = [status EXCEPT ![p] = w]

Erasing == \/ pc \in {"erase1", "erase2", "verify"}
           \/ pc = "idle" /\ status[alternate] # "ERASED"
ErasingPage == IF pc = "erase1" THEN 1 ELSE IF pc = "erase2" THEN 2 ELSE alternate

Crash ==
  /\ pc # "off"
  /\ \/ UNCHANGED flash
     \/ CutRecord
     \/ CutStatus
     \/ Erasing /\ CutErase(ErasingPage)
  /\ active' = NoPage /\ alternate' = NoPage
  /\ pc' = "off" /\ req' = NoRequest /\ todo' = {} /\ wa' = 0 /\ tries' = 0

Step ==
  \/ Boot \/ ClearErase \/ ClearFormat
  \/ WriteNextRecord \/ NoRoom
  \/ VerifyDestination \/ WriteHeader \/ CopyDone \/ DirectDone
  \/ Activate \/ Deactivate

Fault == RecordFault \/ StatusFault

Call == Clear \/ PerformPendingErase \/ \E r \in Requests : Put(r)

Next == Step \/ Fault \/ Call \/ Crash

Spec == Init /\ [][Next]_vars

(* A call that has started runs on unless power fails: the code is          *)
(* sequential and waits for nothing.                                        *)
FairSpec == Spec /\ WF_vars(Step)

-----------------------------------------------------------------------------
(* Properties.                                                              *)

Cells == 0 .. Capacity - 1

(* What the EEPROM reads back after a reset in this state. *)
Contents == [i \in Cells |-> Value(FirstActive, i)]

(* What the put in progress stores, as a function of the cell. *)
Update == [i \in {IndexOf(req, n) : n \in DOMAIN req.data} |->
             req.data[CHOOSE n \in DOMAIN req.data : IndexOf(req, n) = i]]

(* The word that marks the old page inactive did not read back.  The swap   *)
(* then starts again by erasing the new page, and when it gives up the      *)
(* roles in RAM are those from before the swap.                             *)
MarkFailed == active \in Page /\ status[active] = "OTHER"

(* Which promise the abstract specification is held to. *)
PromisedCall == IF pc \in ClearPCs THEN "clear"
                ELSE IF MarkFailed THEN "exposed"
                ELSE IF pc \in PutPCs THEN "put" ELSE "none"

Atomic == INSTANCE AtomicEEPROM
            WITH CellValue <- Byte, Blank <- FLASH_ERASED, content <- Contents,
                 call <- PromisedCall, update <- Update

LastSlot == Max({Slots[1], Slots[2]})

(* Every variable holds a value of its kind; writeAddress stays in a page.  *)
TypeOK ==
  /\ status \in [Page -> Status]
  /\ cell = [p \in Page |-> cell[p]]
  /\ \A p \in Page : cell[p] \in [Slot(p) -> Record]
  /\ active \in Page \cup {NoPage} /\ alternate \in Page \cup {NoPage}
  /\ pc \in {"off", "idle"} \cup PutPCs \cup ClearPCs
  /\ req \in Requests \cup {NoRequest}
  /\ todo \subseteq IF pc = "copy" THEN Index ELSE DOMAIN req.data
  /\ wa \in 0 .. LastSlot + 1 /\ tries \in {0, 1}

(* A put is all or nothing: whatever power cuts and failing writes fall     *)
(* into it, what reads back after a reset changes once, from the old        *)
(* contents to the old contents overridden by all of the put's bytes        *)
(* (put: "The write will be atomic (all or nothing) even if a reset occurs"). *)
(* One failing write takes the promise away until the next reset: the one   *)
(* that marks the old page inactive (MarkFailed).                           *)
PutIsAtomic == Atomic!Spec

(* A put that returns without a reset has stored its bytes, unless the old  *)
(* page could not be marked inactive in it or before it.                    *)
PutIsDurable ==
  [][(pc \in PutPCs /\ pc' = "idle" /\ ~MarkFailed) =>
       \A i \in DOMAIN Update : Contents'[i] = Update[i]]_vars

(* Between calls the RAM copy of the page roles agrees with what a reset    *)
(* would find in flash, so get() before and after a reset read the same,    *)
(* unless the old page could not be marked inactive.                        *)
RamMatchesFlash ==
  pc = "idle" /\ ~MarkFailed => /\ active = FirstActive /\ active # NoPage
                               /\ alternate = Other(active)

(* Once the EEPROM is formatted only clear() can leave it without an active *)
(* page, which a reset would answer by erasing everything (init), unless    *)
(* the old page could not be marked inactive.                               *)
StaysFormatted ==
  [][FirstActive # NoPage /\ pc \notin ClearPCs /\ ~MarkFailed => FirstActive' # NoPage]_vars

(* The page statuses that each phase of a call relies on: the inductive     *)
(* part of RamMatchesFlash and StaysFormatted.  The source of a swap stays  *)
(* the page a reset would choose until the new page is marked active.       *)
PhaseInv ==
  /\ pc \in {"idle"} \cup PutPCs => active \in Page /\ alternate = Other(active)
  /\ pc \in {"idle"} \cup PutPCs => status[active] \in {"ACTIVE", "OTHER"}
  /\ pc \in ({"idle"} \cup PutPCs) \ {"deactivate"} /\ ~MarkFailed => active = FirstActive
  /\ pc = "off" => active = NoPage
  /\ pc = "header" => Erased(alternate)
  /\ pc \in {"copy", "direct", "activate", "hung"} => status[alternate] = "COPY"
  /\ pc = "deactivate" => status[alternate] = "ACTIVE"
  /\ pc \in {"erase2", "format"} => status[1] = "ERASED"

(* The destination of a page swap has a slot for every record it must hold: *)
(* capacity() is half of the smaller page.                                  *)
SwapFits ==
  pc \in {"copy", "direct"} /\ todo # {} => WriteSlot \in Slot(alternate)

(* Every call returns, swaps that fail and are tried again too, if the      *)
(* active page never holds an index of the last batch of the scan.          *)
CallsReturn == [](active \in Page => ~ScanNeverEnds) => []<>(pc = "idle")
=============================================================================
