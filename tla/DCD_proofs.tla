------------------------------ MODULE DCD_proofs ------------------------------
(***************************************************************************)
(* Proofs about DCD: this implementation alone, while it reads and writes,  *)
(* with power cuts and failing flash operations, from a blank flash; for    *)
(* every length, cell and set of requests.                                  *)
(***************************************************************************)
EXTENDS DCD, TLAPS

ReadWriteNext == \/ WriteSectorStep \/ Invalidate \/ Read \/ Crash \/ Fail
                 \/ \E r \in Requests : Write(r) \/ RejectedWrite(r)

ReadWriteSpec == Init /\ [][ReadWriteNext]_vars

BlankFlash == [s \in Sector |-> ErasedSector]

-----------------------------------------------------------------------------
(* The inductive invariant.                                                 *)

(* Nothing was sealed yet, and Sector_1 holds nothing that a write whose    *)
(* initialize() failed could copy.                                          *)
Fresh == /\ \A s \in Sector : sector[s].seal \in {"INIT", "OTHER"}
         /\ sector[1].data = BlankData

(* Counters of successive writes, whatever else holds of the older sector.  *)
Follows(p, s) ==
  sector[s].footer.watermark => sector[p].footer.counter = (sector[s].footer.counter + 1) % 4

(* Sector p is sealed and intact, and if the other one may pass for sealed  *)
(* then it was the source of p.                                             *)
Latest(p) ==
  /\ sector[p].watermark /\ sector[p].seal = "VALID" /\ isCRCValid(p)
  /\ sector[1 - p].seal \in {"VALID", "INVALID_V2"} => Follows(p, 1 - p)

Writing == {"erase", "cells", "crc", "header"}

(* What the variables of the call in progress say. *)
CallInv ==
  /\ pc = "idle" <=> op = "none"
  /\ pc \in Writing \cup {"idle", "invalidate"} /\ op \in {"none", "read", "write"}
  /\ op = "read" => source = Sector_Unknown
  /\ op = "write" => req \in Requests /\ Accepted(req)
  /\ pc # "idle" => IF source = Sector_Unknown
                    THEN target = 1 /\ change = Nothing /\ pc # "invalidate"
                    ELSE source \in Sector /\ target = 1 - source /\ change = req

(* The array a reader is shown is in the source until the target is sealed. *)
FlashInv ==
  /\ pc = "idle" => Fresh \/ Latest(0) \/ Latest(1)
  /\ pc \in Writing => IF source = Sector_Unknown THEN Fresh
                       ELSE Latest(source) \/ (source = 1 /\ Fresh)
  /\ pc = "invalidate" => Latest(target) /\ Follows(target, source)

(* How far the target is written. *)
ProgressInv ==
  /\ pc = "erase" => n = 1
  /\ pc \in Writing \ {"erase"} => /\ sector[target].seal = "INIT"
                                   /\ \A i \in 1 .. n - 1 : sector[target].data[i] = NewCell(i)
  /\ pc \in {"crc", "header"} =>
       n = Length + 1 /\ sector[target].footer = [watermark |-> TRUE, counter |-> NextCounter]
  /\ pc = "header" => sector[target].crc = computeCRC(target)

IInv == TypeOK /\ CallInv /\ FlashInv /\ ProgressInv

-----------------------------------------------------------------------------
(* Which sector is current.                                                 *)

LEMMA SectorFacts == /\ Sector = {0, 1} /\ 0 # 1 /\ Sector_Unknown \notin Sector
                     /\ \A s \in Sector : 1 - s \in Sector /\ 1 - s # s /\ 1 - (1 - s) = s
                                          /\ alternateSectorTo(s) = 1 - s
BY DEF Sector, Sector_Unknown, alternateSectorTo

(* The parts of a sector. *)
LEMMA ContentFacts ==
  ASSUME NEW c \in SectorContent
  PROVE  /\ c.watermark \in BOOLEAN /\ c.seal \in Seal /\ c.data \in Data
         /\ c.footer \in Footer /\ c.crc \in CRC
         /\ c.footer.watermark \in BOOLEAN /\ c.footer.counter \in 0 .. 3
BY DEF SectorContent, Footer

LEMMA FreshCurrent == Fresh => currentSector = Sector_Unknown /\ Content = BlankData
<1> SUFFICES ASSUME Fresh PROVE currentSector = Sector_Unknown
  BY DEF Content
<1>1. ~HeaderValid(0) /\ ~HeaderValid(1)
  BY DEF Fresh, HeaderValid, Sector
<1> QED
  BY <1>1 DEF currentSector, findValidSector

LEMMA LatestCurrent ==
  ASSUME NEW p \in Sector
  PROVE  sector \in [Sector -> SectorContent] /\ Latest(p) =>
           currentSector = p /\ Content = sector[p].data
<1> SUFFICES ASSUME sector \in [Sector -> SectorContent], Latest(p)
             PROVE  currentSector = p
  BY SectorFacts DEF Content
<1> DEFINE s == 1 - p
<1>1. p \in Sector /\ s \in Sector /\ s # p /\ alternateSectorTo(p) = s /\ alternateSectorTo(s) = p
  BY SectorFacts
<1>2. sector[p].watermark /\ sector[p].seal = "VALID" /\ isCRCValid(p) /\ HeaderValid(p)
  BY DEF Latest, HeaderValid
<1>3. sector[s].seal \in {"VALID", "INVALID_V2"} /\ isCRCValid(s) =>
        /\ sector[p].footer.counter = (sector[s].footer.counter + 1) % 4
        /\ sector[s].footer.counter # (sector[p].footer.counter + 1) % 4
  <2>1. sector[p].footer.counter \in 0 .. 3 /\ sector[s].footer.counter \in 0 .. 3
    BY <1>1, ContentFacts
  <2>2. \A x, y \in 0 .. 3 : x = (y + 1) % 4 => y # (x + 1) % 4
    OBVIOUS
  <2> QED
    BY <2>1, <2>2 DEF Latest, Follows, isCRCValid
<1>4. evaluateSectors(p) = p
  BY <1>1, <1>2, <1>3 DEF evaluateSectors, Newer
<1>5. HeaderValid(s) => evaluateSectors(s) = p
  <2> SUFFICES ASSUME HeaderValid(s) PROVE evaluateSectors(s) = p
    OBVIOUS
  <2>1. sector[s].seal \in {"VALID", "INVALID_V2"}
    BY DEF HeaderValid
  <2>2. isCRCValid(s) => Newer(s, p) = p
    BY <1>3, <2>1 DEF Newer
  <2> QED
    BY <1>1, <1>2, <2>2 DEF evaluateSectors
<1> HIDE DEF s
<1>6. findValidSector \in {p, s} /\ (findValidSector = s => HeaderValid(s))
  <2>1. {p, s} = {0, 1}
    BY <1>1 DEF Sector, s
  <2> QED
    BY <1>2, <2>1 DEF findValidSector
<1> QED
  BY <1>1, <1>4, <1>5, <1>6, SectorFacts DEF currentSector

(* What a read returns, in both cases. *)
Shown ==
  sector \in [Sector -> SectorContent] =>
    /\ Fresh => currentSector = Sector_Unknown /\ Content = BlankData
    /\ \A p \in Sector : Latest(p) => currentSector = p /\ Content = sector[p].data

LEMMA ShownNow == Shown
BY FreshCurrent, LatestCurrent DEF Shown

LEMMA ShownNext == Shown'
BY ShownNow, PTL

-----------------------------------------------------------------------------
(* Changing one sector.                                                     *)

LEMMA UpdateFacts ==
  ASSUME sector \in [Sector -> SectorContent], NEW t \in Sector, NEW new \in SectorContent,
         Update(t, new)
  PROVE  /\ sector' \in [Sector -> SectorContent] /\ sector'[t] = new
         /\ \A s \in Sector : s # t => sector'[s] = sector[s]
BY DEF Update

(* The latest sector stays so whatever becomes of the other, unless that    *)
(* is sealed.                                                               *)
LEMMA ReplaceOther ==
  ASSUME sector \in [Sector -> SectorContent], NEW p \in Sector, Latest(p),
         NEW new \in SectorContent, Update(1 - p, new),
         new.seal \in {"VALID", "INVALID_V2"} /\ new.footer.watermark =>
           sector[p].footer.counter = (new.footer.counter + 1) % 4
  PROVE  Latest(p)'
<1>1. sector'[p] = sector[p] /\ sector'[1 - p] = new
  BY SectorFacts, UpdateFacts
<1>2. isCRCValid(p)'
  BY <1>1 DEF Latest, isCRCValid, computeCRC
<1> QED
  BY <1>1, <1>2 DEF Latest, Follows

LEMMA ReplaceFresh ==
  ASSUME sector \in [Sector -> SectorContent], Fresh, NEW t \in Sector,
         NEW new \in SectorContent, Update(t, new), new.seal \in {"INIT", "OTHER"},
         t = 1 => new.data = BlankData
  PROVE  Fresh'
<1>1. sector'[t] = new /\ \A s \in Sector : s # t => sector'[s] = sector[s]
  BY UpdateFacts
<1>2. 1 \in Sector
  BY DEF Sector
<1> QED
  BY <1>1, <1>2 DEF Fresh

(* The target may change in any way before it is sealed: it is erased or    *)
(* written, or stays as torn as an erase that was cut short leaves it.      *)
Unsealed(c) ==
  \/ c.seal \in {"INIT", "OTHER"}
  \/ c.seal = sector[target].seal /\ c.footer \in {sector[target].footer, BlankFooter}

LEMMA TargetChanges ==
  ASSUME TypeOK, CallInv, FlashInv, pc \in Writing, NEW new \in SectorContent,
         Update(target, new), Unsealed(new), source = Sector_Unknown => new.data = BlankData
  PROVE  /\ sector' \in [Sector -> SectorContent] /\ sector'[target] = new
         /\ source \in Sector => sector'[source] = sector[source]
         /\ source = Sector_Unknown => Fresh'
         /\ \A p \in Sector : source = p => Latest(p)' \/ (p = 1 /\ Fresh')
         /\ Content' = Content
<1>0. sector \in [Sector -> SectorContent] /\ target \in Sector /\ 1 \in Sector /\ pc # "idle"
  BY DEF TypeOK, Writing, Sector
<1>1. sector' \in [Sector -> SectorContent] /\ sector'[target] = new
  BY <1>0, UpdateFacts
<1>2. source \in Sector => sector'[source] = sector[source]
  <2>1. source \in Sector => source # target
    BY <1>0, SectorFacts DEF CallInv
  <2> QED
    BY <1>0, <2>1, UpdateFacts
<1>3. Fresh => Fresh'
  <2> SUFFICES ASSUME Fresh PROVE Fresh'
    OBVIOUS
  <2>1. new.seal \in {"INIT", "OTHER"}
    BY <1>0 DEF Unsealed, Fresh
  <2>2. target = 1 => source = Sector_Unknown
    <3> SUFFICES ASSUME target = 1, source # Sector_Unknown PROVE FALSE
      OBVIOUS
    <3>1. source \in Sector /\ target = 1 - source
      BY <1>0 DEF CallInv
    <3>2. source = 0 /\ ~Latest(0) => FALSE
      BY DEF FlashInv, Sector_Unknown
    <3>3. ~Latest(0)
      BY DEF Fresh, Latest, Sector
    <3> QED
      BY <3>1, <3>2, <3>3 DEF Sector
  <2> QED
    BY <1>0, <2>1, <2>2, ReplaceFresh
<1>4. ASSUME NEW p \in Sector, source = p, Latest(p)
      PROVE  Latest(p)'
  <2>1. target = 1 - p /\ 1 - p \in Sector
    BY <1>0, <1>4, SectorFacts DEF CallInv
  <2>2. new.seal \in {"VALID", "INVALID_V2"} /\ new.footer.watermark =>
          sector[p].footer.counter = (new.footer.counter + 1) % 4
    <3>1. BlankFooter.watermark = FALSE
      BY DEF BlankFooter
    <3> QED
      BY <1>4, <2>1, <3>1 DEF Unsealed, Latest, Follows
  <2> QED
    BY <1>0, <1>4, <2>1, <2>2, ReplaceOther
<1>5. source = Sector_Unknown => Fresh
  BY DEF FlashInv
<1>6. \A p \in Sector : source = p => Latest(p) \/ (p = 1 /\ Fresh)
  BY SectorFacts DEF FlashInv
<1>7. source \in Sector \cup {Sector_Unknown}
  BY DEF TypeOK
<1>8. \A p \in Sector : source = p => Latest(p)' \/ (p = 1 /\ Fresh')
  BY <1>3, <1>4, <1>6
<1>9. Content' = Content
  <2>1. CASE Fresh
    BY <1>0, <1>1, <1>3, <2>1, ShownNow, ShownNext DEF Shown
  <2>2. CASE ~Fresh
    <3>1. source \in Sector
      BY <1>5, <1>7, <2>2
    <3>2. PICK p \in Sector : source = p
      BY <3>1
    <3>3. Latest(p) /\ Latest(p)' /\ sector'[p] = sector[p]
      BY <1>2, <1>4, <1>6, <2>2, <3>2
    <3> QED
      BY <1>0, <1>1, <3>3, ShownNow, ShownNext DEF Shown
  <2> QED
    BY <2>1, <2>2
<1> QED
  BY <1>1, <1>2, <1>3, <1>5, <1>8, <1>9

-----------------------------------------------------------------------------
(* Moving between the phases of a call.                                     *)

(* A call returns. *)
LEMMA CallEnds ==
  ASSUME TypeOK, NEW r \in {"none", "success", "error"}, Return(r),
         sector' \in [Sector -> SectorContent], (Fresh \/ Latest(0) \/ Latest(1))'
  PROVE  IInv'
<1>1. /\ pc' = "idle" /\ op' = "none" /\ result' = r /\ req' = req
      /\ source' = Sector_Unknown /\ target' = 0 /\ change' = Nothing /\ n' = 1
  BY DEF Return
<1>2. Nothing.offset \in Nat /\ Nothing.data \in Seq(Cell)
  BY DEF Nothing
<1>3. 1 \in 1 .. Length + 1
  BY SizeAssumption
<1>4. TypeOK'
  BY <1>1, <1>2, <1>3 DEF TypeOK, Sector
<1>5. CallInv'
  BY <1>1 DEF CallInv
<1>6. FlashInv'
  BY <1>1 DEF FlashInv, Writing
<1>7. ProgressInv'
  BY <1>1 DEF ProgressInv, Writing
<1> QED
  BY <1>4, <1>5, <1>6, <1>7 DEF IInv

(* _writeSector initializes Sector_1. *)
LEMMA InitializeStarts ==
  ASSUME TypeOK, StartWriteSector(Sector_Unknown, 1, Nothing), UNCHANGED sector, Fresh,
         \/ op' = "read" /\ req' = req
         \/ op' = "write" /\ req' \in Requests /\ Accepted(req)'
  PROVE  IInv' /\ Content' = Content
<1>1. /\ pc' = "erase" /\ source' = Sector_Unknown /\ target' = 1 /\ change' = Nothing
      /\ n' = 1 /\ result' = result
  BY DEF StartWriteSector
<1>2. Nothing.offset \in Nat /\ Nothing.data \in Seq(Cell)
  BY DEF Nothing
<1>3. 1 \in 1 .. Length + 1
  BY SizeAssumption
<1>4. TypeOK'
  BY <1>1, <1>2, <1>3 DEF TypeOK, Sector
<1>5. CallInv'
  BY <1>1 DEF CallInv, Writing
<1>6. Fresh'
  BY DEF Fresh
<1>7. FlashInv'
  BY <1>1, <1>6 DEF FlashInv, Writing
<1>8. ProgressInv'
  BY <1>1 DEF ProgressInv, Writing
<1>9. Content' = Content
  BY <1>6, ShownNow, ShownNext DEF Shown, TypeOK
<1> QED
  BY <1>4, <1>5, <1>7, <1>8, <1>9 DEF IInv

(* _writeSector copies sector s, with the caller's change. *)
LEMMA CopyStarts ==
  ASSUME TypeOK, NEW s \in Sector, NEW r \in Requests, Accepted(r),
         StartWriteSector(s, 1 - s, r), op' = "write", req' = r,
         sector' \in [Sector -> SectorContent], Latest(s)' \/ (s = 1 /\ Fresh')
  PROVE  IInv'
<1>1. /\ pc' = "erase" /\ source' = s /\ target' = 1 - s /\ change' = r
      /\ n' = 1 /\ result' = result
  BY DEF StartWriteSector
<1>2. r.offset \in Nat /\ r.data \in Seq(Cell)
  BY RequestAssumption
<1>3. 1 \in 1 .. Length + 1 /\ s # Sector_Unknown /\ 1 - s \in Sector
  BY SizeAssumption, SectorFacts
<1>4. TypeOK'
  BY <1>1, <1>2, <1>3 DEF TypeOK
<1>5. CallInv'
  <2>1. Accepted(req')
    OBVIOUS
  <2> QED
    BY <1>1, <1>3, <2>1 DEF CallInv, Writing, Accepted
<1>7. FlashInv'
  BY <1>1, <1>3 DEF FlashInv, Writing
<1>8. ProgressInv'
  BY <1>1 DEF ProgressInv, Writing
<1> QED
  BY <1>4, <1>5, <1>7, <1>8 DEF IInv


(* A step of _writeSector before the seal leaves what a read returns, the   *)
(* source, and so what the target is to hold.                               *)
LEMMA StillWriting ==
  ASSUME IInv, pc \in Writing, NEW new \in SectorContent, Update(target, new), Unsealed(new),
         source = Sector_Unknown => new.data = BlankData,
         pc' \in Writing, UNCHANGED <<op, req, source, target, change, result>>,
         n' \in 1 .. Length + 1
  PROVE  /\ TypeOK' /\ CallInv' /\ FlashInv' /\ Content' = Content
         /\ sector'[target] = new
         /\ \A i : NewCell(i)' = NewCell(i)
         /\ NextCounter' = NextCounter
<1>1. TypeOK /\ CallInv /\ FlashInv
  BY DEF IInv
<1>2. /\ sector' \in [Sector -> SectorContent] /\ sector'[target] = new
      /\ source \in Sector => sector'[source] = sector[source]
      /\ source = Sector_Unknown => Fresh'
      /\ \A p \in Sector : source = p => Latest(p)' \/ (p = 1 /\ Fresh')
      /\ Content' = Content
  BY <1>1, TargetChanges
<1>3. pc' \in Writing /\ pc' # "idle" /\ pc' # "invalidate" /\ pc # "idle"
  BY DEF Writing
<1>4. TypeOK'
  BY <1>1, <1>2, <1>3 DEF TypeOK, Writing
<1>5. CallInv'
  <2>1. Accepted(req)' <=> Accepted(req)
    BY DEF Accepted
  <2> QED
    BY <1>1, <1>3, <2>1 DEF CallInv
<1>6. source \in Sector \cup {Sector_Unknown}
  BY <1>1 DEF TypeOK
<1>7. FlashInv'
  <2>1. CASE source = Sector_Unknown
    BY <1>2, <1>3, <2>1 DEF FlashInv
  <2>2. CASE source \in Sector
    <3>1. PICK p \in Sector : source = p
      BY <2>2
    <3>2. Latest(p)' \/ (p = 1 /\ Fresh')
      BY <1>2, <3>1
    <3>3. source' = p /\ p # Sector_Unknown
      BY <3>1, SectorFacts
    <3> QED
      BY <1>3, <3>2, <3>3 DEF FlashInv
  <2> QED
    BY <1>6, <2>1, <2>2
<1>8. \A i : NewCell(i)' = NewCell(i)
  BY <1>2, <1>6 DEF NewCell
<1>9. NextCounter' = NextCounter
  BY <1>2, <1>6 DEF NextCounter, HasFooter
<1> QED
  BY <1>2, <1>4, <1>5, <1>7, <1>8, <1>9

-----------------------------------------------------------------------------
(* The steps of _writeSector.                                               *)

LEMMA ErasedFacts ==
  /\ ErasedSector \in SectorContent /\ ErasedSector.seal = "INIT"
  /\ ErasedSector.data = BlankData /\ ErasedSector.footer = BlankFooter
<1>1. BlankData \in Data
  BY SizeAssumption DEF BlankData, Data, Blank, Cell
<1>2. BlankFooter \in Footer
  BY DEF BlankFooter, Footer
<1>3. NoCRC \in CRC
  BY <1>1, <1>2 DEF NoCRC, CRC
<1> QED
  BY <1>1, <1>2, <1>3 DEF ErasedSector, SectorContent, Seal

LEMMA EraseTargetStep == IInv /\ EraseTarget => IInv' /\ Content' = Content
<1> SUFFICES ASSUME IInv, EraseTarget PROVE IInv' /\ Content' = Content
  OBVIOUS
<1>1. /\ pc = "erase" /\ Update(target, ErasedSector) /\ pc' = "cells"
      /\ UNCHANGED <<op, req, source, target, change, n, result>>
  BY DEF EraseTarget, Goto
<1>2. pc \in Writing /\ pc' \in Writing /\ n' \in 1 .. Length + 1
  BY <1>1 DEF Writing, IInv, TypeOK
<1>3. Unsealed(ErasedSector)
  BY ErasedFacts DEF Unsealed
<1>4. TypeOK' /\ CallInv' /\ FlashInv' /\ Content' = Content /\ sector'[target] = ErasedSector
  BY <1>1, <1>2, <1>3, ErasedFacts, StillWriting
<1>5. n' = 1
  BY <1>1 DEF IInv, ProgressInv
<1> QED
  BY <1>1, <1>4, <1>5, ErasedFacts DEF IInv, ProgressInv


LEMMA NewCellFacts ==
  ASSUME IInv, pc \in Writing, NEW i \in 1 .. Length
  PROVE  NewCell(i) \in Cell /\ (source = Sector_Unknown => NewCell(i) = Blank)
<1>1. TypeOK /\ CallInv /\ pc # "idle"
  BY DEF IInv, Writing
<1>2. CASE i \in change.offset + 1 .. change.offset + Len(change.data)
  <2>1. change.offset \in Nat /\ change.data \in Seq(Cell)
    BY <1>1 DEF TypeOK
  <2>2. i - change.offset \in 1 .. Len(change.data)
    BY <1>2, <2>1
  <2>3. change.data[i - change.offset] \in Cell
    BY <2>1, <2>2
  <2>4. source # Sector_Unknown
    <3>1. Nothing.offset = 0 /\ Len(Nothing.data) = 0
      BY DEF Nothing
    <3> QED
      BY <1>1, <1>2, <3>1 DEF CallInv
  <2> QED
    BY <1>2, <2>3, <2>4 DEF NewCell
<1>3. CASE ~(i \in change.offset + 1 .. change.offset + Len(change.data))
  <2>1. CASE source = Sector_Unknown
    BY <1>3, <2>1, SizeAssumption DEF NewCell, Blank, Cell
  <2>2. CASE source \in Sector
    <3>1. sector[source].data \in Data
      BY <1>1, <2>2, ContentFacts DEF TypeOK
    <3>2. source # Sector_Unknown
      BY <2>2, SectorFacts
    <3> QED
      BY <1>3, <3>1, <3>2 DEF NewCell, Data
  <2> QED
    BY <1>1, <2>1, <2>2 DEF TypeOK
<1> QED
  BY <1>2, <1>3

LEMMA TargetBlank == IInv /\ pc \in Writing /\ source = Sector_Unknown => sector[target].data = BlankData
BY DEF IInv, CallInv, FlashInv, Fresh, Writing

LEMMA WriteCellStep == IInv /\ WriteCell => IInv' /\ Content' = Content
<1> SUFFICES ASSUME IInv, WriteCell PROVE IInv' /\ Content' = Content
  OBVIOUS
<1> DEFINE new == [sector[target] EXCEPT !.data[n] = NewCell(n)]
<1>1. /\ pc = "cells" /\ n <= Length /\ Update(target, new) /\ n' = n + 1
      /\ UNCHANGED <<pc, op, req, source, target, change, result>>
  BY DEF WriteCell
<1>2. pc \in Writing /\ pc' \in Writing /\ n \in 1 .. Length /\ n' \in 1 .. Length + 1
  BY <1>1, SizeAssumption DEF Writing, IInv, TypeOK
<1>3. sector[target] \in SectorContent /\ sector[target].data \in Data
  BY ContentFacts DEF IInv, TypeOK
<1>4. NewCell(n) \in Cell /\ (source = Sector_Unknown => NewCell(n) = Blank)
  BY <1>2, NewCellFacts
<1>5. /\ new.data = [sector[target].data EXCEPT ![n] = NewCell(n)]
      /\ new.seal = sector[target].seal /\ new.footer = sector[target].footer
  BY <1>3 DEF SectorContent
<1>6. new.data \in Data
  BY <1>2, <1>3, <1>4, <1>5 DEF Data
<1>7. new \in SectorContent
  <2>1. new = [sector[target] EXCEPT !.data = [sector[target].data EXCEPT ![n] = NewCell(n)]]
    OBVIOUS
  <2> QED
    BY <1>3, <1>5, <1>6, <2>1 DEF SectorContent
<1>8. source = Sector_Unknown => new.data = BlankData
  <2> SUFFICES ASSUME source = Sector_Unknown PROVE new.data = BlankData
    OBVIOUS
  <2>1. sector[target].data = BlankData /\ NewCell(n) = Blank
    BY <1>2, <1>4, TargetBlank
  <2> QED
    BY <1>2, <1>5, <2>1 DEF BlankData
<1>9. sector[target].seal = "INIT" /\ \A i \in 1 .. n - 1 : sector[target].data[i] = NewCell(i)
  BY <1>1, <1>2 DEF IInv, ProgressInv, Writing
<1> HIDE DEF new
<1>10. Unsealed(new)
  BY <1>5, <1>9 DEF Unsealed
<1>11. /\ TypeOK' /\ CallInv' /\ FlashInv' /\ Content' = Content /\ sector'[target] = new
       /\ \A i : NewCell(i)' = NewCell(i)
  BY <1>1, <1>2, <1>7, <1>8, <1>10, StillWriting
<1>12. \A i \in 1 .. n : new.data[i] = NewCell(i)
  <2>1. \A i \in 1 .. n : i \in 1 .. Length /\ (i # n => i \in 1 .. n - 1)
    BY <1>2, SizeAssumption
  <2>2. DOMAIN sector[target].data = 1 .. Length
    BY <1>3 DEF Data
  <2> QED
    BY <1>2, <1>5, <1>9, <2>1, <2>2
<1>13. ProgressInv'
  <2>1. pc' = "cells" /\ target' = target /\ n' - 1 = n
    BY <1>1, <1>2
  <2>2. sector'[target'].seal = "INIT"
    BY <1>5, <1>9, <1>11, <2>1
  <2>3. \A i \in 1 .. n' - 1 : sector'[target'].data[i] = NewCell(i)'
    BY <1>11, <1>12, <2>1
  <2> QED
    BY <2>1, <2>2, <2>3 DEF ProgressInv
<1> QED
  BY <1>11, <1>13 DEF IInv


LEMMA NextCounterFacts == IInv => NextCounter \in 0 .. 3
<1> SUFFICES ASSUME IInv PROVE NextCounter \in 0 .. 3
  OBVIOUS
<1>1. HasFooter => sector[source].footer.counter \in 0 .. 3
  BY ContentFacts DEF HasFooter, IInv, TypeOK
<1>2. \A x \in 0 .. 3 : (x + 1) % 4 \in 0 .. 3
  OBVIOUS
<1> QED
  BY <1>1, <1>2 DEF NextCounter

LEMMA WriteFooterStep == IInv /\ WriteFooter => IInv' /\ Content' = Content
<1> SUFFICES ASSUME IInv, WriteFooter PROVE IInv' /\ Content' = Content
  OBVIOUS
<1> DEFINE f == [watermark |-> TRUE, counter |-> NextCounter]
           new == [sector[target] EXCEPT !.footer = f]
<1>1. /\ pc = "cells" /\ n > Length /\ Update(target, new) /\ pc' = "crc"
      /\ UNCHANGED <<op, req, source, target, change, n, result>>
  BY DEF WriteFooter, Goto
<1>2. pc \in Writing /\ pc' \in Writing /\ n = Length + 1 /\ n' \in 1 .. Length + 1
  BY <1>1, SizeAssumption DEF Writing, IInv, TypeOK
<1>3. sector[target] \in SectorContent /\ f \in Footer
  BY NextCounterFacts DEF IInv, TypeOK, Footer
<1>4. /\ new \in SectorContent /\ new.data = sector[target].data
      /\ new.seal = sector[target].seal /\ new.footer = f
  BY <1>3 DEF SectorContent
<1>5. source = Sector_Unknown => new.data = BlankData
  BY <1>2, <1>4, TargetBlank
<1>6. sector[target].seal = "INIT" /\ \A i \in 1 .. n - 1 : sector[target].data[i] = NewCell(i)
  BY <1>1, <1>2 DEF IInv, ProgressInv, Writing
<1>7. Unsealed(new)
  BY <1>4, <1>6 DEF Unsealed
<1>8. f = [watermark |-> TRUE, counter |-> NextCounter]
  OBVIOUS
<1> HIDE DEF f, new
<1>9. /\ TypeOK' /\ CallInv' /\ FlashInv' /\ Content' = Content /\ sector'[target] = new
      /\ (\A i : NewCell(i)' = NewCell(i)) /\ NextCounter' = NextCounter
  BY <1>1, <1>2, <1>4, <1>5, <1>7, StillWriting
<1>10. ProgressInv'
  <2>1. pc' = "crc" /\ target' = target /\ n' = n
    BY <1>1
  <2>2. sector'[target'] = new /\ \A i \in 1 .. n' - 1 : sector'[target'].data[i] = NewCell(i)'
    BY <1>4, <1>6, <1>9, <2>1
  <2>3. f = [watermark |-> TRUE, counter |-> NextCounter']
    BY <1>8, <1>9
  <2> QED
    BY <1>2, <1>4, <1>6, <2>1, <2>2, <2>3 DEF ProgressInv
<1> QED
  BY <1>9, <1>10 DEF IInv

LEMMA WriteCRCStep == IInv /\ WriteCRC => IInv' /\ Content' = Content
<1> SUFFICES ASSUME IInv, WriteCRC PROVE IInv' /\ Content' = Content
  OBVIOUS
<1> DEFINE c == computeCRC(target)
           new == [sector[target] EXCEPT !.crc = c]
<1>1. /\ pc = "crc" /\ Update(target, new) /\ pc' = "header"
      /\ UNCHANGED <<op, req, source, target, change, n, result>>
  BY DEF WriteCRC, Goto
<1>2. pc \in Writing /\ pc' \in Writing /\ n' \in 1 .. Length + 1
  BY <1>1 DEF Writing, IInv, TypeOK
<1>3. sector[target] \in SectorContent
  BY DEF IInv, TypeOK
<1>4. c \in CRC /\ c = [data |-> sector[target].data, footer |-> sector[target].footer]
  BY <1>3, ContentFacts DEF computeCRC, CRC
<1>5. /\ new \in SectorContent /\ new.data = sector[target].data
      /\ new.seal = sector[target].seal /\ new.footer = sector[target].footer /\ new.crc = c
  BY <1>3, <1>4 DEF SectorContent
<1>6. source = Sector_Unknown => new.data = BlankData
  BY <1>2, <1>5, TargetBlank
<1>7. /\ sector[target].seal = "INIT" /\ \A i \in 1 .. n - 1 : sector[target].data[i] = NewCell(i)
      /\ n = Length + 1 /\ sector[target].footer = [watermark |-> TRUE, counter |-> NextCounter]
  BY <1>1, <1>2 DEF IInv, ProgressInv, Writing
<1>8. Unsealed(new)
  BY <1>5, <1>7 DEF Unsealed
<1> HIDE DEF c, new
<1>9. /\ TypeOK' /\ CallInv' /\ FlashInv' /\ Content' = Content /\ sector'[target] = new
      /\ (\A i : NewCell(i)' = NewCell(i)) /\ NextCounter' = NextCounter
  BY <1>1, <1>2, <1>5, <1>6, <1>8, StillWriting
<1>10. ProgressInv'
  <2>1. pc' = "header" /\ target' = target /\ n' = n
    BY <1>1
  <2>2. sector'[target'] = new /\ \A i \in 1 .. n' - 1 : sector'[target'].data[i] = NewCell(i)'
    BY <1>5, <1>7, <1>9, <2>1
  <2>3. new.footer = [watermark |-> TRUE, counter |-> NextCounter']
    BY <1>5, <1>7, <1>9
  <2>4. new.crc = computeCRC(target)'
    BY <1>4, <1>5, <2>1, <2>2 DEF computeCRC
  <2> QED
    BY <1>5, <1>7, <2>1, <2>2, <2>3, <2>4 DEF ProgressInv
<1> QED
  BY <1>9, <1>10 DEF IInv


-----------------------------------------------------------------------------
(* The seal: the instant at which a write takes effect.                     *)

LEMMA SealTarget ==
  ASSUME IInv, pc = "header",
         Update(target, [sector[target] EXCEPT !.watermark = TRUE, !.seal = "VALID"])
  PROVE  /\ sector' \in [Sector -> SectorContent]
         /\ \A t \in Sector : target = t => Latest(t)'
         /\ \A s, t \in Sector : source = s /\ target = t => Follows(t, s)'
         /\ source = Sector_Unknown => Content' = Content
         /\ source \in Sector => Content' = Atomic!Updated(Content, req)
<1> DEFINE new == [sector[target] EXCEPT !.watermark = TRUE, !.seal = "VALID"]
<1>1. /\ TypeOK /\ CallInv /\ FlashInv /\ ProgressInv /\ pc \in Writing /\ pc # "idle"
      /\ sector \in [Sector -> SectorContent] /\ target \in Sector
      /\ source \in Sector \cup {Sector_Unknown}
  BY DEF IInv, Writing, TypeOK
<1>2. /\ new \in SectorContent /\ new.watermark /\ new.seal = "VALID"
      /\ new.data = sector[target].data /\ new.footer = sector[target].footer
      /\ new.crc = sector[target].crc
  BY <1>1 DEF SectorContent, Seal
<1> HIDE DEF new
<1>3. Update(target, new)
  BY DEF new
<1>4. /\ sector' \in [Sector -> SectorContent] /\ sector'[target] = new
      /\ \A s \in Sector : s # target => sector'[s] = sector[s]
  BY <1>1, <1>2, <1>3, UpdateFacts
<1>5. /\ \A i \in 1 .. Length : sector[target].data[i] = NewCell(i)
      /\ sector[target].footer = [watermark |-> TRUE, counter |-> NextCounter]
      /\ sector[target].crc = computeCRC(target)
  <2>1. n - 1 = Length
    BY <1>1, SizeAssumption DEF ProgressInv
  <2> QED
    BY <1>1, <2>1 DEF ProgressInv, Writing
<1>6. ASSUME NEW s \in Sector, NEW t \in Sector, source = s, target = t
      PROVE  Follows(t, s)'
  <2>1. s # t /\ s # Sector_Unknown
    BY <1>1, <1>6, SectorFacts DEF CallInv
  <2>2. sector'[s] = sector[s] /\ sector'[t] = new
    BY <1>4, <1>6, <2>1
  <2>3. sector[s].footer.watermark => NextCounter = (sector[s].footer.counter + 1) % 4
    BY <1>6, <2>1 DEF NextCounter, HasFooter
  <2>4. new.footer.counter = NextCounter
    BY <1>2, <1>5
  <2> QED
    BY <2>2, <2>3, <2>4 DEF Follows
<1>7. ASSUME NEW t \in Sector, target = t
      PROVE  Latest(t)'
  <2>1. sector'[t] = new
    BY <1>4, <1>7
  <2>2. isCRCValid(t)'
    <3>1. new.crc = [data |-> new.data, footer |-> new.footer]
      BY <1>2, <1>5 DEF computeCRC
    <3>2. new.footer.watermark
      BY <1>2, <1>5
    <3> QED
      BY <2>1, <3>1, <3>2 DEF isCRCValid, computeCRC
  <2>3. sector'[1 - t].seal \in {"VALID", "INVALID_V2"} => Follows(t, 1 - t)'
    <3>1. CASE source = Sector_Unknown
      <4>1. t = 1 /\ 0 \in Sector /\ sector'[0] = sector[0] /\ Fresh
        BY <1>1, <1>4, <1>7, <3>1 DEF CallInv, FlashInv, Sector
      <4>2. sector'[1 - t].seal \in {"INIT", "OTHER"}
        BY <4>1 DEF Fresh
      <4> QED
        BY <4>2
    <3>2. CASE source \in Sector
      <4>1. source = 1 - t /\ 1 - t \in Sector
        BY <1>1, <1>7, <3>2, SectorFacts DEF CallInv
      <4>2. PICK s \in Sector : s = 1 - t
        BY <4>1
      <4>3. Follows(t, s)'
        BY <1>6, <1>7, <4>1, <4>2
      <4> QED
        BY <4>2, <4>3
    <3> QED
      BY <1>1, <3>1, <3>2
  <2> QED
    BY <1>2, <2>1, <2>2, <2>3 DEF Latest
<1>8. PICK t \in Sector : target = t
  BY <1>1
<1>9. Content' = sector[target].data
  BY <1>2, <1>4, <1>7, <1>8, ShownNext DEF Shown
<1>10. source = Sector_Unknown => Content' = Content
  BY <1>1, <1>9, TargetBlank, ShownNow DEF Shown, FlashInv
<1>11. ASSUME source \in Sector
       PROVE  Content' = Atomic!Updated(Content, req)
  <2>1. PICK s \in Sector : source = s
    BY <1>11
  <2>2. s # Sector_Unknown /\ change = req
    BY <1>1, <2>1, SectorFacts DEF CallInv
  <2>3. Latest(s) \/ (s = 1 /\ Fresh)
    BY <1>1, <2>1, <2>2 DEF FlashInv
  <2>4. Content = sector[s].data
    BY <1>1, <2>3, ShownNow DEF Shown, Fresh
  <2>5. sector[target].data = [i \in 1 .. Length |-> NewCell(i)]
    <3>1. sector[target].data \in Data
      BY <1>1, ContentFacts
    <3> QED
      BY <1>5, <3>1 DEF Data
  <2>6. \A i \in 1 .. Length : NewCell(i) =
           IF i \in req.offset + 1 .. req.offset + Len(req.data)
           THEN req.data[i - req.offset] ELSE Content[i]
    BY <2>1, <2>2, <2>4 DEF NewCell
  <2> QED
    BY <1>9, <2>5, <2>6 DEF Atomic!Updated
<1> QED
  BY <1>4, <1>6, <1>7, <1>10, <1>11


(* The three ways in which the caller of _writeSector goes on: a read that  *)
(* initialized Sector_1 returns, a write that did goes on to copy it, and a *)
(* write that sealed its copy has taken effect.                             *)
LEMMA WriteHeaderStep ==
  ASSUME IInv, WriteHeader
  PROVE  /\ IInv'
         /\ \/ /\ op = "read" /\ Return("success") /\ Content' = Content
            \/ /\ op = "write" /\ pc' = "erase" /\ Content' = Content
               /\ UNCHANGED <<op, req, result>>
            \/ /\ op = "write" /\ pc' = "invalidate" /\ Content' = Atomic!Updated(Content, req)
               /\ UNCHANGED <<op, req, result>>
<1>1. /\ pc = "header" /\ WriteSectorReturns(TRUE)
      /\ Update(target, [sector[target] EXCEPT !.watermark = TRUE, !.seal = "VALID"])
  BY DEF WriteHeader
<1>2. /\ sector' \in [Sector -> SectorContent]
      /\ \A t \in Sector : target = t => Latest(t)'
      /\ \A s, t \in Sector : source = s /\ target = t => Follows(t, s)'
      /\ source = Sector_Unknown => Content' = Content
      /\ source \in Sector => Content' = Atomic!Updated(Content, req)
  BY <1>1, SealTarget
<1>3. /\ TypeOK /\ CallInv /\ op \in {"read", "write"} /\ target \in Sector
      /\ source \in Sector \cup {Sector_Unknown}
      /\ op = "read" => source = Sector_Unknown
      /\ source = Sector_Unknown => target = 1
      /\ source \in Sector => source # Sector_Unknown /\ target = 1 - source /\ change = req
  BY <1>1, SectorFacts DEF IInv, CallInv, TypeOK
<1>4. CASE op = "read"
  <2>1. Return("success") /\ target = 1 /\ Content' = Content
    BY <1>1, <1>2, <1>3, <1>4 DEF WriteSectorReturns
  <2>2. Latest(1)'
    BY <1>2, <2>1, SectorFacts
  <2> QED
    BY <1>2, <1>3, <1>4, <2>1, <2>2, CallEnds
<1>5. CASE op = "write" /\ source = Sector_Unknown
  <2>1. StartWriteSector(1, 0, req) /\ UNCHANGED <<op, req>> /\ Content' = Content
    BY <1>1, <1>2, <1>5 DEF WriteSectorReturns
  <2>2. pc' = "erase" /\ result' = result /\ 1 - 1 = 0 /\ 1 \in Sector
    BY <2>1, SectorFacts DEF StartWriteSector
  <2>3. req \in Requests /\ Accepted(req)
    BY <1>3, <1>5 DEF CallInv
  <2>4. Latest(1)'
    BY <1>2, <1>3, <1>5, <2>2
  <2>5. StartWriteSector(1, 1 - 1, req) /\ op' = "write" /\ req' = req
    BY <1>5, <2>1, <2>2
  <2>6. IInv'
    BY <1>2, <1>3, <2>2, <2>3, <2>4, <2>5, CopyStarts
  <2> QED
    BY <1>5, <2>1, <2>2, <2>6
<1>6. CASE op = "write" /\ source \in Sector
  <2>1. Goto("invalidate")
    BY <1>1, <1>3, <1>6 DEF WriteSectorReturns
  <2>2. pc' = "invalidate" /\ UNCHANGED <<op, req, source, target, change, n, result>>
    BY <2>1 DEF Goto
  <2>3. PICK s, t \in Sector : source = s /\ target = t
    BY <1>3, <1>6
  <2>4. Latest(t)' /\ Follows(t, s)' /\ source' = s /\ target' = t
    BY <1>2, <2>2, <2>3
  <2>5. TypeOK'
    BY <1>2, <1>3, <2>2 DEF TypeOK
  <2>6. CallInv'
    BY <1>3, <1>6, <2>2 DEF CallInv, Accepted
  <2>7. FlashInv'
    BY <2>2, <2>4 DEF FlashInv, Writing
  <2>8. ProgressInv'
    BY <2>2 DEF ProgressInv, Writing
  <2> QED
    BY <1>2, <1>6, <2>2, <2>5, <2>6, <2>7, <2>8 DEF IInv
<1> QED
  BY <1>3, <1>4, <1>5, <1>6


-----------------------------------------------------------------------------
(* After the seal: the old sector is invalidated, or half of that is done.  *)

LEMMA OldChanges ==
  ASSUME IInv, pc = "invalidate", NEW new \in SectorContent, Update(source, new),
         new.footer = sector[source].footer
  PROVE  /\ sector' \in [Sector -> SectorContent] /\ Content' = Content
         /\ (Fresh \/ Latest(0) \/ Latest(1))'
<1>1. /\ sector \in [Sector -> SectorContent] /\ Latest(target) /\ Follows(target, source)
      /\ source \in Sector /\ target = 1 - source
  BY DEF IInv, TypeOK, CallInv, FlashInv
<1>2. PICK p \in Sector : target = p /\ source = 1 - p /\ p # source
  BY <1>1, SectorFacts
<1>3. Latest(p) /\ Update(1 - p, new)
  BY <1>1, <1>2
<1>4. new.footer.watermark => sector[p].footer.counter = (new.footer.counter + 1) % 4
  BY <1>1, <1>2 DEF Follows
<1>5. Latest(p)'
  BY <1>1, <1>3, <1>4, ReplaceOther
<1>6. sector' \in [Sector -> SectorContent] /\ sector'[p] = sector[p]
  BY <1>1, <1>2, UpdateFacts
<1>7. Content' = Content
  BY <1>1, <1>3, <1>5, <1>6, ShownNow, ShownNext DEF Shown
<1>8. p = 0 \/ p = 1
  BY DEF Sector
<1>9. Latest(0)' \/ Latest(1)'
  BY <1>5, <1>8
<1> QED
  BY <1>6, <1>7, <1>9

LEMMA HeaderOnly ==
  ASSUME NEW c \in SectorContent, NEW w \in BOOLEAN, NEW seal \in Seal
  PROVE  LET new == [c EXCEPT !.watermark = w, !.seal = seal]
         IN  /\ new \in SectorContent /\ new.footer = c.footer /\ new.data = c.data
             /\ new.seal = seal
BY DEF SectorContent

LEMMA InvalidateStep ==
  ASSUME IInv, Invalidate
  PROVE  /\ IInv' /\ op = "write" /\ pc = "invalidate" /\ Content' = Content
         /\ Return("success") \/ Return("error")
<1> DEFINE seal == Invalidated(sector[source].seal)
           new == [sector[source] EXCEPT !.watermark = TRUE, !.seal = seal]
<1>1. /\ pc = "invalidate" /\ Update(source, new)
      /\ Return("success") \/ Return("error")
  BY DEF Invalidate
<1>2. TypeOK /\ op = "write" /\ sector[source] \in SectorContent
  BY <1>1, SectorFacts DEF IInv, TypeOK, CallInv
<1>3. seal \in Seal
  BY <1>2, ContentFacts DEF Invalidated, Seal
<1> HIDE DEF seal
<1>4. new \in SectorContent /\ new.footer = sector[source].footer
  BY <1>2, <1>3, HeaderOnly
<1> HIDE DEF new
<1>5. /\ sector' \in [Sector -> SectorContent] /\ Content' = Content
      /\ (Fresh \/ Latest(0) \/ Latest(1))'
  BY <1>1, <1>4, OldChanges
<1>6. IInv'
  BY <1>1, <1>2, <1>5, CallEnds
<1> QED
  BY <1>1, <1>2, <1>5, <1>6

-----------------------------------------------------------------------------
(* Power cuts and failing flash operations.                                 *)

(* What is left of a sector whose erase was cut short. *)
LEMMA TornSector ==
  ASSUME NEW c \in SectorContent, NEW kept
  PROVE  LET new == [f \in DOMAIN ErasedSector |-> IF f \in kept THEN c[f] ELSE ErasedSector[f]]
         IN  /\ new \in SectorContent
             /\ new.seal \in {c.seal, "INIT"} /\ new.data \in {c.data, BlankData}
             /\ new.footer \in {c.footer, BlankFooter}
<1> DEFINE new == [f \in DOMAIN ErasedSector |-> IF f \in kept THEN c[f] ELSE ErasedSector[f]]
           Part(f) == IF f \in kept THEN c[f] ELSE ErasedSector[f]
<1>1. DOMAIN ErasedSector = {"watermark", "seal", "data", "footer", "crc"}
  BY DEF ErasedSector
<1>2. /\ Part("watermark") \in BOOLEAN /\ Part("seal") \in Seal /\ Part("data") \in Data
      /\ Part("footer") \in Footer /\ Part("crc") \in CRC
  BY ErasedFacts DEF SectorContent
<1>3. /\ Part("seal") \in {c.seal, "INIT"} /\ Part("data") \in {c.data, BlankData}
      /\ Part("footer") \in {c.footer, BlankFooter}
  BY ErasedFacts
<1>4. \A f \in {"watermark", "seal", "data", "footer", "crc"} : new[f] = Part(f)
  BY <1>1
<1>5. new = [watermark |-> Part("watermark"), seal |-> Part("seal"), data |-> Part("data"),
             footer |-> Part("footer"), crc |-> Part("crc")]
  BY <1>1
<1> HIDE DEF Part, new
<1>6. new \in SectorContent
  BY <1>2, <1>5 DEF SectorContent
<1>7. new.seal = Part("seal") /\ new.data = Part("data") /\ new.footer = Part("footer")
  BY <1>5
<1>8. /\ new \in SectorContent
      /\ new.seal \in {c.seal, "INIT"} /\ new.data \in {c.data, BlankData}
      /\ new.footer \in {c.footer, BlankFooter}
  BY <1>3, <1>6, <1>7
<1> QED
  BY <1>8 DEF new


(* Before the seal: a target that is not sealed, or not by this write. *)
LEMMA TornTarget ==
  ASSUME IInv, pc \in Writing, Torn
  PROVE  \E new \in SectorContent : /\ Update(target, new) /\ Unsealed(new)
                                    /\ source = Sector_Unknown => new.data = BlankData
<1> DEFINE old == sector[target]
<1>1. sector \in [Sector -> SectorContent] /\ target \in Sector /\ old \in SectorContent
  BY DEF IInv, TypeOK
<1>2. source = Sector_Unknown => old.data = BlankData
  BY TargetBlank
<1>3. CASE UNCHANGED sector
  <2>1. Update(target, old)
    BY <1>1, <1>3 DEF Update
  <2>2. Unsealed(old)
    BY DEF Unsealed
  <2> HIDE DEF old
  <2> QED
    BY <1>1, <1>2, <2>1, <2>2
<1>4. CASE pc = "erase" /\ TornErase(target)
  <2>1. PICK kept :
          Update(target, [f \in DOMAIN ErasedSector |-> IF f \in kept THEN old[f] ELSE ErasedSector[f]])
    BY <1>4 DEF TornErase
  <2> DEFINE new == [f \in DOMAIN ErasedSector |-> IF f \in kept THEN old[f] ELSE ErasedSector[f]]
  <2>2. /\ new \in SectorContent
        /\ new.seal \in {old.seal, "INIT"} /\ new.data \in {old.data, BlankData}
        /\ new.footer \in {old.footer, BlankFooter}
    BY <1>1, TornSector
  <2>3. Update(target, new)
    BY <2>1
  <2> HIDE DEF new
  <2>4. Unsealed(new)
    BY <2>2 DEF Unsealed
  <2>5. source = Sector_Unknown => new.data = BlankData
    BY <1>2, <2>2
  <2> QED
    BY <2>2, <2>3, <2>4, <2>5
<1>5. CASE pc = "cells" /\ TornFooter
  <2>1. PICK w \in BOOLEAN, c \in 0 .. 3 :
          Update(target, [old EXCEPT !.footer = [watermark |-> w, counter |-> c]])
    BY <1>5 DEF TornFooter
  <2> DEFINE new == [old EXCEPT !.footer = [watermark |-> w, counter |-> c]]
  <2>2. new \in SectorContent /\ new.seal = old.seal /\ new.data = old.data
    BY <1>1 DEF SectorContent, Footer
  <2>3. old.seal = "INIT"
    BY <1>5 DEF IInv, ProgressInv, Writing
  <2>4. Update(target, new)
    BY <2>1
  <2> HIDE DEF new
  <2> QED
    BY <1>2, <2>2, <2>3, <2>4 DEF Unsealed
<1>6. CASE pc = "header" /\ TornHeader(target)
  <2>1. PICK seal \in {old.seal, "OTHER"} :
          Update(target, [old EXCEPT !.watermark = TRUE, !.seal = seal])
    BY <1>6 DEF TornHeader
  <2> DEFINE new == [old EXCEPT !.watermark = TRUE, !.seal = seal]
  <2>2. old.seal = "INIT"
    BY <1>6 DEF IInv, ProgressInv, Writing
  <2>3. seal \in Seal /\ seal \in {"INIT", "OTHER"} /\ TRUE \in BOOLEAN
    BY <2>2 DEF Seal
  <2>4. new \in SectorContent /\ new.seal = seal /\ new.data = old.data
    BY <1>1, <2>3, HeaderOnly
  <2>5. Update(target, new)
    BY <2>1
  <2> HIDE DEF new
  <2> QED
    BY <1>2, <2>3, <2>4, <2>5 DEF Unsealed
<1> QED
  BY <1>3, <1>4, <1>5, <1>6 DEF Torn, Writing

(* What a read returns survives a call that did not finish. *)
LEMMA TornKeeps ==
  ASSUME IInv, pc # "idle", Torn
  PROVE  /\ sector' \in [Sector -> SectorContent] /\ Content' = Content
         /\ (Fresh \/ Latest(0) \/ Latest(1))'
         /\ pc # "invalidate" /\ source = Sector_Unknown => Fresh'
         /\ pc # "invalidate" => \A p \in Sector : source = p => Latest(p)' \/ (p = 1 /\ Fresh')
<1>1. /\ TypeOK /\ CallInv /\ FlashInv /\ source \in Sector \cup {Sector_Unknown}
      /\ pc \in Writing \/ pc = "invalidate"
  BY DEF IInv, TypeOK, CallInv
<1>2. CASE pc \in Writing
  <2>1. PICK new \in SectorContent : /\ Update(target, new) /\ Unsealed(new)
                                     /\ source = Sector_Unknown => new.data = BlankData
    BY <1>2, TornTarget
  <2>2. /\ sector' \in [Sector -> SectorContent]
        /\ source = Sector_Unknown => Fresh'
        /\ \A p \in Sector : source = p => Latest(p)' \/ (p = 1 /\ Fresh')
        /\ Content' = Content
    BY <1>1, <1>2, <2>1, TargetChanges
  <2>3. Fresh' \/ Latest(0)' \/ Latest(1)'
    BY <1>1, <2>2 DEF Sector
  <2> QED
    BY <2>2, <2>3
<1>3. CASE pc = "invalidate"
  <2>1. sector[source] \in SectorContent /\ source \in Sector
    BY <1>1, <1>3 DEF TypeOK, CallInv
  <2>2. \E new \in SectorContent : Update(source, new) /\ new.footer = sector[source].footer
    <3>1. CASE UNCHANGED sector
      <4>1. Update(source, sector[source])
        BY <1>1, <2>1, <3>1 DEF Update, TypeOK
      <4> QED
        BY <2>1, <4>1
    <3>2. CASE TornHeader(source)
      <4>1. PICK seal \in {sector[source].seal, "OTHER"} :
              Update(source, [sector[source] EXCEPT !.watermark = TRUE, !.seal = seal])
        BY <3>2 DEF TornHeader
      <4>2. seal \in Seal /\ TRUE \in BOOLEAN
        BY <2>1, ContentFacts DEF Seal
      <4> DEFINE new == [sector[source] EXCEPT !.watermark = TRUE, !.seal = seal]
      <4>3. new \in SectorContent /\ new.footer = sector[source].footer
        BY <2>1, <4>2, HeaderOnly
      <4>4. Update(source, new)
        BY <4>1
      <4> HIDE DEF new
      <4> QED
        BY <4>3, <4>4
    <3> QED
      BY <1>3, <3>1, <3>2 DEF Torn
  <2>3. PICK new \in SectorContent : Update(source, new) /\ new.footer = sector[source].footer
    BY <2>2
  <2>4. /\ sector' \in [Sector -> SectorContent] /\ Content' = Content
        /\ (Fresh \/ Latest(0) \/ Latest(1))'
    BY <1>3, <2>3, OldChanges
  <2> QED
    BY <1>3, <2>4
<1> QED
  BY <1>1, <1>2, <1>3


LEMMA CrashStep ==
  ASSUME IInv, Crash
  PROVE  IInv' /\ op # "none" /\ Content' = Content /\ Return("none")
<1>1. pc # "idle" /\ Torn /\ Return("none") /\ op # "none" /\ TypeOK
  BY DEF Crash, IInv, CallInv
<1>2. /\ sector' \in [Sector -> SectorContent] /\ Content' = Content
      /\ (Fresh \/ Latest(0) \/ Latest(1))'
  BY <1>1, TornKeeps
<1>3. IInv'
  BY <1>1, <1>2, CallEnds
<1> QED
  BY <1>1, <1>2, <1>3

(* A write whose initialize() failed goes on to copy the blank Sector_1. *)
LEMMA FailStep ==
  ASSUME IInv, Fail
  PROVE  /\ IInv' /\ op # "none" /\ Content' = Content
         /\ \/ Return("error")
            \/ op = "write" /\ pc # "invalidate" /\ pc' = "erase" /\ UNCHANGED <<op, req, result>>
<1>1. /\ pc # "idle" /\ Torn /\ op # "none" /\ TypeOK /\ CallInv
      /\ pc \in Writing \/ pc = "invalidate"
  BY DEF Fail, IInv, CallInv
<1>2. /\ sector' \in [Sector -> SectorContent] /\ Content' = Content
      /\ (Fresh \/ Latest(0) \/ Latest(1))'
      /\ pc # "invalidate" /\ source = Sector_Unknown => Fresh'
  BY <1>1, TornKeeps
<1>3. CASE Return("error")
  <2>1. IInv'
    BY <1>1, <1>2, <1>3, CallEnds
  <2> QED
    BY <1>1, <1>2, <1>3, <2>1
<1>4. CASE ~Return("error")
  <2>1. pc \in Writing /\ WriteSectorReturns(FALSE)
    BY <1>1, <1>4 DEF Fail, Writing
  <2>2. /\ op = "write" /\ source = Sector_Unknown /\ StartWriteSector(1, 0, req)
        /\ UNCHANGED <<op, req>>
    BY <1>4, <2>1 DEF WriteSectorReturns
  <2>3. pc # "invalidate" /\ pc' = "erase" /\ result' = result /\ 1 \in Sector /\ 1 - 1 = 0
    BY <2>1, <2>2, SectorFacts DEF StartWriteSector, Writing
  <2>4. req \in Requests /\ Accepted(req)
    BY <1>1, <2>2 DEF CallInv
  <2>5. Fresh'
    BY <1>2, <2>2, <2>3
  <2>6. StartWriteSector(1, 1 - 1, req) /\ op' = "write" /\ req' = req
    BY <2>2, <2>3
  <2>7. IInv'
    BY <1>1, <1>2, <2>3, <2>4, <2>5, <2>6, CopyStarts
  <2> QED
    BY <1>1, <1>2, <2>2, <2>3, <2>7
<1> QED
  BY <1>3, <1>4

-----------------------------------------------------------------------------
(* The calls.                                                               *)

(* Between calls either nothing was sealed yet or one sector is the latest. *)
LEMMA IdleFacts ==
  ASSUME IInv, pc = "idle"
  PROVE  /\ currentSector = Sector_Unknown => Fresh
         /\ currentSector # Sector_Unknown =>
              \E p \in Sector : currentSector = p /\ Latest(p)
<1>1. sector \in [Sector -> SectorContent] /\ (Fresh \/ Latest(0) \/ Latest(1))
  BY DEF IInv, TypeOK, FlashInv
<1>2. \A p \in Sector : Latest(p) => currentSector = p /\ p # Sector_Unknown
  BY <1>1, ShownNow, SectorFacts DEF Shown
<1>3. Fresh => currentSector = Sector_Unknown
  BY <1>1, ShownNow DEF Shown
<1>4. 0 \in Sector /\ 1 \in Sector
  BY DEF Sector
<1> QED
  BY <1>1, <1>2, <1>3, <1>4

LEMMA ReadStep == IInv /\ Read => IInv' /\ Content' = Content
<1> SUFFICES ASSUME IInv, Read PROVE IInv' /\ Content' = Content
  OBVIOUS
<1>1. /\ pc = "idle" /\ currentSector = Sector_Unknown /\ op' = "read" /\ req' = req
      /\ StartWriteSector(Sector_Unknown, 1, Nothing) /\ UNCHANGED sector
  BY DEF Read
<1>2. Fresh /\ TypeOK
  BY <1>1, IdleFacts DEF IInv
<1> QED
  BY <1>1, <1>2, InitializeStarts

LEMMA WriteStep ==
  ASSUME IInv, NEW r \in Requests, Write(r)
  PROVE  IInv' /\ Content' = Content
<1>1. pc = "idle" /\ Accepted(r) /\ op' = "write" /\ req' = r /\ UNCHANGED sector /\ TypeOK
  BY DEF Write, IInv
<1>2. CASE currentSector = Sector_Unknown
  <2>1. StartWriteSector(Sector_Unknown, 1, Nothing)
    BY <1>2 DEF Write
  <2>2. Fresh
    BY <1>1, <1>2, IdleFacts
  <2>3. req' \in Requests /\ Accepted(req)'
    BY <1>1 DEF Accepted
  <2> QED
    BY <1>1, <2>1, <2>2, <2>3, InitializeStarts
<1>3. CASE currentSector # Sector_Unknown
  <2>1. PICK p \in Sector : currentSector = p /\ Latest(p)
    BY <1>1, <1>3, IdleFacts
  <2>2. StartWriteSector(p, 1 - p, r)
    BY <1>3, <2>1, SectorFacts DEF Write
  <2>3. sector' \in [Sector -> SectorContent]
    BY <1>1 DEF TypeOK
  <2>4. Latest(p)'
    BY <1>1, <2>1 DEF Latest, isCRCValid, computeCRC, Follows
  <2>5. IInv'
    BY <1>1, <2>2, <2>3, <2>4, CopyStarts
  <2>6. Content' = Content
    BY <1>1, <2>1, <2>3, <2>4, ShownNow, ShownNext DEF Shown, TypeOK
  <2> QED
    BY <2>5, <2>6
<1> QED
  BY <1>2, <1>3

(* Steps that touch neither the flash nor the call in progress. *)
LEMMA SameFlash == UNCHANGED sector => Content' = Content
BY DEF Content, currentSector, findValidSector, evaluateSectors, HeaderValid, Newer,
       isCRCValid, computeCRC

LEMMA SameCall ==
  ASSUME IInv, UNCHANGED <<sector, pc, op, req, source, target, change, n>>,
         result' \in {"none", "success", "error", "invalid_offset", "invalid_length"}
  PROVE  IInv'
<1>1. TypeOK'
  BY DEF IInv, TypeOK
<1>2. CallInv'
  BY DEF IInv, CallInv, Accepted
<1>3. FlashInv'
  BY DEF IInv, FlashInv, Fresh, Latest, Follows, isCRCValid, computeCRC
<1>4. ProgressInv'
  BY DEF IInv, ProgressInv, NewCell, NextCounter, HasFooter, computeCRC
<1> QED
  BY <1>1, <1>2, <1>3, <1>4 DEF IInv


-----------------------------------------------------------------------------
(* The theorems.                                                            *)

LEMMA InitInv ==
  ASSUME InitialFlash = {BlankFlash}, Init
  PROVE  IInv /\ Content = BlankData
<1>1. sector = BlankFlash /\ sector \in [Sector -> SectorContent]
  BY ErasedFacts DEF Init, BlankFlash
<1>2. Fresh
  <2>1. \A s \in Sector : sector[s] = ErasedSector
    BY <1>1 DEF BlankFlash
  <2>2. 1 \in Sector
    BY DEF Sector
  <2> QED
    BY <2>1, <2>2, ErasedFacts DEF Fresh
<1>3. /\ pc = "idle" /\ op = "none" /\ req = Nothing /\ result = "none"
      /\ source = Sector_Unknown /\ target = 0 /\ change = Nothing /\ n = 1
  BY DEF Init
<1>4. Nothing.offset \in Nat /\ Nothing.data \in Seq(Cell) /\ 1 \in 1 .. Length + 1
  BY SizeAssumption DEF Nothing
<1>5. TypeOK
  BY <1>1, <1>3, <1>4 DEF TypeOK, Sector
<1>6. CallInv /\ FlashInv /\ ProgressInv
  BY <1>2, <1>3 DEF CallInv, FlashInv, ProgressInv, Writing
<1>7. Content = BlankData
  BY <1>1, <1>2, ShownNow DEF Shown
<1> QED
  BY <1>5, <1>6, <1>7 DEF IInv

(* Every step keeps the invariant and is a step of the atomic array, or     *)
(* none at all.                                                             *)
LEMMA StepImplements ==
  ASSUME IInv, [ReadWriteNext]_vars
  PROVE  IInv' /\ [Atomic!Next]_Atomic!avars
<1> DEFINE done == op = "write" /\ pc = "invalidate"
<1>0. /\ done \in BOOLEAN /\ done' \in BOOLEAN
      /\ pc = "idle" <=> op = "none"
      /\ pc # "invalidate" => ~done
      /\ pc' # "invalidate" => ~done'
  BY DEF IInv, CallInv
<1>1. ASSUME IInv', Content' = Content, done' = done, UNCHANGED <<op, req, result>>
      PROVE  IInv' /\ [Atomic!Next]_Atomic!avars
  BY <1>1 DEF Atomic!avars
<1>2. ASSUME NEW r \in {"none", "error"}, Return(r), op # "none", Content' = Content
      PROVE  Atomic!Abort
  <2>1. op' = "none" /\ result' # "success" /\ req' = req /\ ~done'
    BY <1>2 DEF Return
  <2>2. op # "erase"
    BY DEF IInv, CallInv
  <2> QED
    BY <1>2, <2>1, <2>2 DEF Atomic!Abort
<1>3. ASSUME Return("success"), op # "none", op = "write" => done, Content' = Content
      PROVE  Atomic!Succeed
  <2>1. op' = "none" /\ result' = "success" /\ req' = req /\ ~done'
    BY <1>3 DEF Return
  <2>2. op # "erase"
    BY DEF IInv, CallInv
  <2> QED
    BY <1>3, <2>1, <2>2 DEF Atomic!Succeed
<1>4. CASE EraseTarget
  <2>1. ~done' /\ ~done /\ UNCHANGED <<op, req, result>>
    BY <1>4 DEF EraseTarget, Goto
  <2> QED
    BY <1>1, <1>4, <2>1, EraseTargetStep
<1>5. CASE WriteCell
  <2>1. ~done' /\ ~done /\ UNCHANGED <<op, req, result>>
    BY <1>5 DEF WriteCell
  <2> QED
    BY <1>1, <1>5, <2>1, WriteCellStep
<1>6. CASE WriteFooter
  <2>1. ~done' /\ ~done /\ UNCHANGED <<op, req, result>>
    BY <1>6 DEF WriteFooter, Goto
  <2> QED
    BY <1>1, <1>6, <2>1, WriteFooterStep
<1>7. CASE WriteCRC
  <2>1. ~done' /\ ~done /\ UNCHANGED <<op, req, result>>
    BY <1>7 DEF WriteCRC, Goto
  <2> QED
    BY <1>1, <1>7, <2>1, WriteCRCStep
<1>8. CASE WriteHeader
  <2>1. IInv' /\ ~done
    BY <1>8, WriteHeaderStep DEF WriteHeader
  <2>2. CASE op = "read" /\ Return("success") /\ Content' = Content
    BY <1>3, <2>1, <2>2 DEF Atomic!Next
  <2>3. CASE /\ op = "write" /\ pc' = "erase" /\ Content' = Content
             /\ UNCHANGED <<op, req, result>>
    BY <1>1, <2>1, <2>3
  <2>4. CASE /\ op = "write" /\ pc' = "invalidate" /\ Content' = Atomic!Updated(Content, req)
             /\ UNCHANGED <<op, req, result>>
    BY <2>1, <2>4 DEF Atomic!Next, Atomic!TakeEffect
  <2> QED
    BY <1>8, <2>2, <2>3, <2>4, WriteHeaderStep
<1>9. CASE Invalidate
  <2>1. /\ IInv' /\ op = "write" /\ pc = "invalidate" /\ Content' = Content
        /\ Return("success") \/ Return("error")
    BY <1>9, InvalidateStep
  <2> QED
    BY <1>2, <1>3, <2>1 DEF Atomic!Next
<1>10. CASE Read
  <2>1. op = "none" /\ op' = "read" /\ req' = req /\ result' = result /\ ~done /\ ~done'
    BY <1>0, <1>10 DEF Read, StartWriteSector
  <2>2. IInv' /\ Content' = Content
    BY <1>10, ReadStep
  <2> QED
    BY <2>1, <2>2 DEF Atomic!Next, Atomic!CallRead
<1>11. CASE Crash
  BY <1>2, <1>11, CrashStep DEF Atomic!Next
<1>12. CASE Fail
  <2>1. /\ IInv' /\ op # "none" /\ Content' = Content
        /\ \/ Return("error")
           \/ op = "write" /\ pc # "invalidate" /\ pc' = "erase" /\ UNCHANGED <<op, req, result>>
    BY <1>12, FailStep
  <2>2. CASE Return("error")
    BY <1>2, <2>1, <2>2 DEF Atomic!Next
  <2>3. CASE op = "write" /\ pc # "invalidate" /\ pc' = "erase" /\ UNCHANGED <<op, req, result>>
    BY <1>1, <2>1, <2>3
  <2> QED
    BY <2>1, <2>2, <2>3
<1>13. ASSUME NEW r \in Requests, Write(r)
       PROVE  IInv' /\ [Atomic!Next]_Atomic!avars
  <2>1. op = "none" /\ op' = "write" /\ req' \in Requests /\ pc' = "erase" /\ result' = result
    BY <1>0, <1>13 DEF Write, StartWriteSector
  <2>2. IInv' /\ Content' = Content
    BY <1>13, WriteStep
  <2> QED
    BY <2>1, <2>2 DEF Atomic!Next, Atomic!CallWrite
<1>14. ASSUME NEW r \in Requests, RejectedWrite(r)
       PROVE  IInv' /\ [Atomic!Next]_Atomic!avars
  <2>1. /\ op = "none" /\ UNCHANGED <<sector, pc, op, req, source, target, change, n>>
        /\ result' \in {"invalid_offset", "success", "invalid_length"}
    BY <1>0, <1>14 DEF RejectedWrite
  <2>2. IInv' /\ Content' = Content /\ result' # "none"
    BY <2>1, SameCall, SameFlash
  <2> QED
    BY <2>1, <2>2 DEF Atomic!Next, Atomic!Refuse
<1>15. CASE UNCHANGED vars
  <2>1. UNCHANGED <<sector, pc, op, req, source, target, change, n, result>>
    BY <1>15 DEF vars
  <2>2. IInv'
    BY <2>1, SameCall DEF IInv, TypeOK
  <2> QED
    BY <1>1, <2>1, <2>2, SameFlash
<1> QED
  BY <1>4, <1>5, <1>6, <1>7, <1>8, <1>9, <1>10, <1>11, <1>12, <1>13, <1>14, <1>15
  DEF ReadWriteNext, WriteSectorStep

(* While this implementation alone reads and writes a DCD that started      *)
(* blank, whatever power cuts and flash errors interrupt its calls, the     *)
(* sector a reader is shown is intact, and a new sector is sealed only when *)
(* it holds the change in full, with the counter after its source's.        *)
THEOREM Invariance ==
  ASSUME InitialFlash = {BlankFlash}
  PROVE  ReadWriteSpec => []IInv
<1>1. Init => IInv
  BY InitInv
<1>2. IInv /\ [ReadWriteNext]_vars => IInv'
  BY StepImplements
<1> QED
  BY <1>1, <1>2, PTL DEF ReadWriteSpec

(* Of two sealed sectors with a valid CRC one has the counter after the     *)
(* other's, so evaluateSectors never has to guess which is newer.           *)
THEOREM CountersStayConsecutive ==
  ASSUME InitialFlash = {BlankFlash}
  PROVE  ReadWriteSpec => []CountersConsecutive
<1>1. IInv => CountersConsecutive
  <2> SUFFICES ASSUME IInv, \A s \in Sector : HeaderValid(s) /\ isCRCValid(s)
               PROVE  \E s \in Sector : sector[alternateSectorTo(s)].footer.counter =
                                          (sector[s].footer.counter + 1) % 4
    BY DEF CountersConsecutive
  <2>1. ~Fresh
    BY DEF HeaderValid, Fresh, Sector
  <2>2. \E p \in Sector : Latest(p)
    BY <2>1, SectorFacts DEF IInv, FlashInv, TypeOK, CallInv
  <2>3. PICK p \in Sector : Latest(p)
    BY <2>2
  <2>4. 1 - p \in Sector /\ alternateSectorTo(1 - p) = p
    BY SectorFacts
  <2>5. Follows(p, 1 - p) /\ sector[1 - p].footer.watermark
    BY <2>3, <2>4 DEF HeaderValid, isCRCValid, Latest
  <2> QED
    BY <2>4, <2>5 DEF Follows
<1> QED
  BY <1>1, Invariance, PTL

(* The DCD implements the atomic array: a write takes effect at the instant *)
(* WriteHeader seals its copy or not at all, and neither a power cut nor a  *)
(* failing flash operation changes what a read returns.                     *)
THEOREM WritesAreAtomic ==
  ASSUME InitialFlash = {BlankFlash}
  PROVE  ReadWriteSpec => WriteIsAtomic
<1>1. Init => IInv /\ Atomic!Init
  <2> SUFFICES ASSUME Init PROVE IInv /\ Atomic!Init
    OBVIOUS
  <2>1. IInv /\ Content = BlankData
    BY InitInv
  <2>2. BlankData \in [1 .. Length -> Cell]
    BY SizeAssumption DEF BlankData, Blank, Cell
  <2> QED
    BY <2>1, <2>2 DEF Init, Atomic!Init, Atomic!Contents
<1>2. IInv /\ [ReadWriteNext]_vars => IInv' /\ [Atomic!Next]_Atomic!avars
  BY StepImplements
<1> QED
  BY <1>1, <1>2, PTL DEF ReadWriteSpec, WriteIsAtomic, Atomic!Spec
=============================================================================
