--------------------------------- MODULE DCD ---------------------------------
(***************************************************************************)
(* The device configuration data of services/inc/dcd.h: one array of cells  *)
(* kept in two flash sectors.  A write copies the current sector into the   *)
(* other one with the change made, seals the copy with a CRC and a VALID    *)
(* header, and then invalidates the old sector.                             *)
(*                                                                          *)
(* Every flash operation is a step, so that power can be cut between any    *)
(* two of them or inside one.  A CRC is modelled by what it covers: it is   *)
(* valid if and only if the sector still holds what it was computed from.   *)
(* The V1 actions are the older implementation (a bootloader or a           *)
(* downgraded firmware) that dcd.h says shares the sectors with this one.   *)
(***************************************************************************)
EXTENDS Integers, Sequences, FiniteSets

CONSTANTS
  Length,            \* cells in the DCD
  CellMax,           \* the all-ones cell
  OldFormatOffset,   \* where the old layout kept the data, as a cell number
  Requests,          \* the writes callers make: [offset, data]
  InitialFlash       \* what the sectors may hold at the start

Sector == {0, 1}
Sector_Unknown == 255
alternateSectorTo(s) == 1 - s

Cell == 0 .. CellMax
Blank == CellMax
OldMark == 0   \* a first cell that reads as the old layout's "current" marker

ASSUME SizeAssumption == /\ Length \in Nat \ {0} /\ CellMax \in Nat \ {0}
                         /\ OldFormatOffset \in 1 .. Length
ASSUME RequestAssumption ==
  \A r \in Requests : r.offset \in Nat /\ r.data \in Seq(Cell)

(* OTHER is a word the code does not name: one torn by a power cut. *)
Seal == {"INIT", "VALID", "INVALID_V2", "CLEARED", "OTHER"}
Data == [1 .. Length -> Cell]
Footer == [watermark : BOOLEAN, counter : 0 .. 3]
CRC == [data : Data, footer : Footer]
SectorContent == [watermark : BOOLEAN, seal : Seal, data : Data,
                  footer : Footer, crc : CRC]

BlankData == [i \in 1 .. Length |-> Blank]
BlankFooter == [watermark |-> FALSE, counter |-> 3]
(* All ones: no sector whose footer is valid has this CRC. *)
NoCRC == [data |-> BlankData, footer |-> BlankFooter]
ErasedSector == [watermark |-> FALSE, seal |-> "INIT", data |-> BlankData,
                 footer |-> BlankFooter, crc |-> NoCRC]

ASSUME FlashAssumption == InitialFlash \subseteq [Sector -> SectorContent]

VARIABLES
  sector,   \* flash
  pc,       \* the flash operation the call in progress makes next
  op,       \* the call in progress
  req,      \* its request, if it is a write
  source,   \* _writeSector's existing sector, Sector_Unknown for none
  target,   \* _writeSector's newSector
  change,   \* what _writeSector puts at which offset
  n,        \* the cell it copies next
  result    \* what the last call returned

vars == <<sector, pc, op, req, source, target, change, n, result>>

Nothing == [offset |-> 0, data |-> <<>>]

-----------------------------------------------------------------------------
(* Which sector is current.                                                 *)

HeaderValid(s) == sector[s].watermark /\ sector[s].seal \in {"VALID", "INVALID_V2"}

computeCRC(s) == [data |-> sector[s].data, footer |-> sector[s].footer]
isCRCValid(s) == sector[s].footer.watermark /\ sector[s].crc = computeCRC(s)

findValidSector == IF HeaderValid(0) THEN 0
                   ELSE IF HeaderValid(1) THEN 1 ELSE Sector_Unknown

(* Mutant: compare the counters as numbers. *)
NewerByValue(p, s) == IF sector[s].footer.counter > sector[p].footer.counter THEN s ELSE p

(* _currentSector: the two-bit counters tell which of two valid sectors is newer. *)
Newer(p, s) == IF sector[s].footer.counter = (sector[p].footer.counter + 1) % 4 THEN s ELSE p

evaluateSectors(p) ==
  LET s == alternateSectorTo(p) IN
  CASE sector[s].seal = "VALID" ->
         (CASE isCRCValid(p) /\ isCRCValid(s)   -> Newer(p, s)
            [] isCRCValid(p) /\ ~isCRCValid(s)  -> p
            [] ~isCRCValid(p) /\ isCRCValid(s)  -> s
            [] OTHER                            -> 1)
    [] sector[s].seal = "INVALID_V2" -> IF isCRCValid(p) THEN p ELSE s
    [] OTHER -> p

currentSector == IF findValidSector = Sector_Unknown THEN Sector_Unknown
                 ELSE evaluateSectors(findValidSector)

(* read: a DCD without a valid sector reads as blank once it is initialized. *)
Content == IF currentSector = Sector_Unknown THEN BlankData
           ELSE sector[currentSector].data

isInitialized == HeaderValid(0) \/ HeaderValid(1)

-----------------------------------------------------------------------------
(* _writeSector                                                             *)

Goto(l) == pc' = l /\ UNCHANGED <<op, req, source, target, change, n, result>>

Return(r) == /\ pc' = "idle" /\ op' = "none" /\ result' = r /\ UNCHANGED req
             /\ source' = Sector_Unknown /\ target' = 0 /\ change' = Nothing /\ n' = 1

StartWriteSector(s, t, ch) == /\ pc' = "erase" /\ source' = s /\ target' = t
                              /\ change' = ch /\ n' = 1 /\ UNCHANGED result

Update(s, new) == sector' = [sector EXCEPT ![s] = new]

(* requiresErase is implied: erasing a blank sector leaves it blank. *)
EraseTarget == pc = "erase" /\ Update(target, ErasedSector) /\ Goto("cells")

NewCell(i) == IF i \in change.offset + 1 .. change.offset + Len(change.data)
              THEN change.data[i - change.offset]
              ELSE IF source = Sector_Unknown THEN Blank ELSE sector[source].data[i]

WriteCell ==
  /\ pc = "cells" /\ n <= Length
  /\ Update(target, [sector[target] EXCEPT !.data[n] = NewCell(n)])
  /\ n' = n + 1 /\ UNCHANGED <<pc, op, req, source, target, change, result>>

HasFooter == source # Sector_Unknown /\ sector[source].footer.watermark

(* Mutant: a counter that stops at its largest value. *)
NextCounterSaturating == IF ~HasFooter THEN 0
                         ELSE IF sector[source].footer.counter = 3 THEN 3
                         ELSE sector[source].footer.counter + 1

NextCounter == IF HasFooter THEN (sector[source].footer.counter + 1) % 4 ELSE 0

WriteFooter ==
  /\ pc = "cells" /\ n > Length
  /\ Update(target, [sector[target] EXCEPT
               !.footer = [watermark |-> TRUE, counter |-> NextCounter]])
  /\ Goto("crc")

WriteCRC == /\ pc = "crc"
            /\ Update(target, [sector[target] EXCEPT !.crc = computeCRC(target)])
            /\ Goto("header")

(* What follows a _writeSector that wrote everything (ok) or failed.  A     *)
(* write that first had to initialize Sector_1 ignores how that went.       *)
WriteSectorReturns(ok) ==
  IF op = "write" /\ source = Sector_Unknown
  THEN StartWriteSector(1, 0, req) /\ UNCHANGED <<op, req>>
  ELSE IF op = "write" /\ ok THEN Goto("invalidate")
  ELSE Return(IF ok THEN "success" ELSE "error")


WriteHeader ==
  /\ pc = "header"
  /\ Update(target, [sector[target] EXCEPT !.watermark = TRUE, !.seal = "VALID"])
  /\ WriteSectorReturns(TRUE)

(* Programming can only clear bits, and SEAL_INVALID_V2 is a subset of      *)
(* SEAL_VALID; the store reports a word that does not read back.            *)
Invalidated(seal) == IF seal \in {"INIT", "VALID", "INVALID_V2"} THEN "INVALID_V2" ELSE seal

Invalidate ==
  /\ pc = "invalidate"
  /\ Update(source, [sector[source] EXCEPT !.watermark = TRUE, !.seal = Invalidated(@)])
  /\ Return(IF Invalidated(sector[source].seal) = "INVALID_V2" THEN "success" ELSE "error")

-----------------------------------------------------------------------------
(* The calls.                                                               *)

(* read: currentValidSector initializes Sector_1 if there is no valid one.  *)
Read == /\ pc = "idle" /\ currentSector = Sector_Unknown
        /\ op' = "read" /\ UNCHANGED req /\ StartWriteSector(Sector_Unknown, 1, Nothing)
        /\ UNCHANGED sector

Accepted(r) == r.offset < Length /\ r.offset + Len(r.data) <= Length

Write(r) ==
  /\ pc = "idle" /\ Accepted(r) /\ r.data # <<>>
  /\ op' = "write" /\ req' = r
  /\ IF currentSector = Sector_Unknown
     THEN StartWriteSector(Sector_Unknown, 1, Nothing)
     ELSE StartWriteSector(currentSector, alternateSectorTo(currentSector), r)
  /\ UNCHANGED sector

RejectedWrite(r) ==
  /\ pc = "idle" /\ (~Accepted(r) \/ r.data = <<>>)
  /\ result' = IF r.offset >= Length THEN "invalid_offset"
               ELSE IF r.data = <<>> THEN "success" ELSE "invalid_length"
  /\ UNCHANGED <<sector, pc, op, req, source, target, change, n>>

Erase == /\ pc = "idle" /\ op' = "erase" /\ pc' = "erase0"
         /\ UNCHANGED <<sector, req, source, target, change, n, result>>

Erase0 == pc = "erase0" /\ Update(0, ErasedSector) /\ Goto("erase1")

Erase1 == pc = "erase1" /\ Update(1, ErasedSector) /\ Return("success")

(* UpdateDCD::migrate: data in the old layout moves to the other sector.    *)
isCurrent(s) == sector[s].data[1] = OldMark
OldData(s) == SubSeq(sector[s].data, OldFormatOffset + 1, Length)

(* Mutant: the new sector replaces the old one in place. *)
MigrateInPlace ==
  /\ pc = "idle" /\ ~isInitialized /\ \E s \in Sector : isCurrent(s)
  /\ LET s == IF isCurrent(0) THEN 0 ELSE 1
     IN StartWriteSector(Sector_Unknown, s, [offset |-> 0, data |-> OldData(s)])
  /\ op' = "migrate" /\ UNCHANGED <<sector, req>>

Migrate ==
  /\ pc = "idle" /\ ~isInitialized /\ \E s \in Sector : isCurrent(s)
  /\ LET s == IF isCurrent(0) THEN 0 ELSE 1
     IN StartWriteSector(Sector_Unknown, alternateSectorTo(s),
                         [offset |-> 0, data |-> OldData(s)])
  /\ op' = "migrate" /\ UNCHANGED <<sector, req>>

-----------------------------------------------------------------------------
(* The older implementation: it knows only SEAL_VALID, copies the whole     *)
(* sector with its footer and CRC as they are, and clears the old seal.     *)

V1Valid(s) == sector[s].watermark /\ sector[s].seal = "VALID"
V1Current == IF V1Valid(1) THEN 1 ELSE 0

V1Write(r) == /\ pc = "idle" /\ (V1Valid(0) \/ V1Valid(1)) /\ Accepted(r) /\ r.data # <<>>
              /\ op' = "v1" /\ pc' = "v1erase" /\ source' = V1Current
              /\ target' = alternateSectorTo(V1Current) /\ change' = r
              /\ UNCHANGED <<sector, req, n, result>>
V1Erase == pc = "v1erase" /\ Update(target, ErasedSector) /\ Goto("v1copy")
V1Copy == /\ pc = "v1copy"
          /\ Update(target, [sector[source] EXCEPT !.watermark = FALSE, !.seal = "INIT",
                               !.data = [i \in 1 .. Length |-> NewCell(i)]])
          /\ Goto("v1header")
V1Header == /\ pc = "v1header"
            /\ Update(target, [sector[target] EXCEPT !.watermark = TRUE, !.seal = "VALID"])
            /\ Goto("v1clear")
V1Clear == /\ pc = "v1clear" /\ Update(source, [sector[source] EXCEPT !.seal = "CLEARED"])
           /\ Return("success")

-----------------------------------------------------------------------------
(* Power cuts and failing flash operations.                                 *)

(* An erase cut short leaves each part of the sector erased or as it was. *)
TornErase(s) ==
  \E kept \in SUBSET {"watermark", "seal", "data", "footer", "crc"} :
    Update(s, [f \in DOMAIN ErasedSector |->
                 IF f \in kept THEN sector[s][f] ELSE ErasedSector[f]])

TornFooter == \E w \in BOOLEAN, c \in 0 .. 3 :
  Update(target, [sector[target] EXCEPT !.footer = [watermark |-> w, counter |-> c]])

TornHeader(s) == \E seal \in {sector[s].seal, "OTHER"} :
  Update(s, [sector[s] EXCEPT !.watermark = TRUE, !.seal = seal])

(* What the operation in progress may leave behind when it does not finish. *)
Torn == \/ UNCHANGED sector
        \/ pc \in {"erase", "v1erase"} /\ TornErase(target)
        \/ pc = "erase0" /\ TornErase(0)
        \/ pc = "erase1" /\ TornErase(1)
        \/ pc = "cells" /\ n > Length /\ TornFooter
        \/ pc \in {"header", "v1header"} /\ TornHeader(target)
        \/ pc \in {"invalidate", "v1clear"} /\ TornHeader(source)

Crash == pc # "idle" /\ Torn /\ Return("none")

(* The store reports an error; the rest of the call is skipped. *)
Fail == /\ pc # "idle" /\ op # "v1" /\ Torn
        /\ IF pc \in {"erase0", "erase1", "invalidate"} THEN Return("error")
                                                         ELSE WriteSectorReturns(FALSE)

Init == /\ sector \in InitialFlash
        /\ pc = "idle" /\ op = "none" /\ req = Nothing /\ result = "none"
        /\ source = Sector_Unknown /\ target = 0 /\ change = Nothing /\ n = 1

WriteSectorStep == EraseTarget \/ WriteCell \/ WriteFooter \/ WriteCRC \/ WriteHeader
Step == WriteSectorStep \/ Invalidate \/ Erase0 \/ Erase1
V1Step == V1Erase \/ V1Copy \/ V1Header \/ V1Clear

Next == \/ Step \/ Read \/ Erase \/ Migrate \/ Crash \/ Fail
        \/ \E r \in Requests : Write(r) \/ RejectedWrite(r) \/ V1Write(r)
        \/ V1Step

Spec == Init /\ [][Next]_vars

-----------------------------------------------------------------------------
(* Properties.                                                              *)

(* Every variable keeps its type. *)
TypeOK ==
  /\ sector \in [Sector -> SectorContent]
  /\ pc \in {"idle", "erase", "cells", "crc", "header", "invalidate", "erase0", "erase1",
             "v1erase", "v1copy", "v1header", "v1clear"}
  /\ op \in {"none", "read", "write", "erase", "migrate", "v1"} /\ req \in Requests \cup {Nothing}
  /\ source \in Sector \cup {Sector_Unknown} /\ target \in Sector
  /\ change.offset \in Nat /\ change.data \in Seq(Cell)
  /\ n \in 1 .. Length + 1
  /\ result \in {"none", "success", "error", "invalid_offset", "invalid_length"}

Atomic == INSTANCE AtomicDCD WITH
  Size <- Length, Cells <- Cell, Erased <- Blank, Writes <- Requests,
  content <- Content, done <- (op = "write" /\ pc = "invalidate")

(* A write is all or nothing: whatever power cut or flash error ends it, a  *)
(* read returns the old array or the new one, and from the instant          *)
(* _writeSector seals the new sector it is the new one; a write that        *)
(* returned DCD_SUCCESS has taken effect.  This holds as long as erase() is *)
(* not called; what an erase() that is cut short leaves can break it.       *)
WriteIsAtomic == Atomic!Spec

(* evaluateSectors never has to guess: when both sectors are sealed with a  *)
(* valid CRC, their counters are consecutive (or the two hold the same      *)
(* data, a copy the older implementation made).                             *)
CountersConsecutive ==
  (\A s \in Sector : HeaderValid(s) /\ isCRCValid(s)) =>
     \/ \E s \in Sector : sector[alternateSectorTo(s)].footer.counter =
                            (sector[s].footer.counter + 1) % 4
     \/ sector[0].data = sector[1].data
=============================================================================
