-------------------------------- MODULE MCDCD --------------------------------
(***************************************************************************)
(* Model checking of DCD.  A budget says how many calls, power cuts and     *)
(* flash errors a behaviour may make and whether it starts from the layout  *)
(* before the DCD's (old); left is what remains of it.  promised is the set *)
(* of arrays a reader may be shown: the last one written with success and   *)
(* those of writes that have not reported success since; any array, from an *)
(* erase() until one returns success.                                       *)
(***************************************************************************)
EXTENDS DCD

CONSTANTS Budgets

VARIABLES left, promised

Budget(writes, v1, erases, migrations, crashes, errors) ==
  [writes |-> writes, v1 |-> v1, erases |-> erases, migrations |-> migrations,
   crashes |-> crashes, errors |-> errors, old |-> migrations > 0]

WriteBudgets == {Budget(4, 0, 0, 0, 1, 1), Budget(3, 0, 0, 0, 2, 1)}
LegacyBudgets == {Budget(3, 2, 0, 0, 2, 0), Budget(3, 0, 2, 0, 1, 1), Budget(0, 0, 0, 4, 2, 2)}

Blanks == {[s \in Sector |-> ErasedSector]}

(* Cells of a first sector as the old layout or an application left them. *)
Some(d) == [ErasedSector EXCEPT !.data = d]

(* The older implementation's sectors: one valid, one cleared or never used. *)
V1Sector(d) == [Some(d) EXCEPT !.watermark = TRUE, !.seal = "VALID"]
V1Flash == {[s \in Sector |-> IF s = cur THEN V1Sector([i \in 1 .. Length |-> 1]) ELSE other] :
              cur \in Sector,
              other \in {ErasedSector, [V1Sector(BlankData) EXCEPT !.seal = "CLEARED"]}}

(* The old layout in one sector, unsealed, something unsealed in the other. *)
OldArray == [i \in 1 .. Length |-> IF i = 1 THEN OldMark ELSE 1]
OldLayout == {[s \in Sector |-> IF s = cur THEN Some(OldArray) ELSE other] :
                cur \in Sector, other \in {ErasedSector, Some([i \in 1 .. Length |-> 1])}}

LegacyFlash == V1Flash \cup OldLayout \cup Blanks

RequestsOf(offsets, datas) == {[offset |-> o, data |-> d] : o \in offsets, d \in datas}
Writes2 == RequestsOf({0}, {<<0, 1>>}) \cup RequestsOf({1}, {<<0>>})
EdgeWrites == Writes2 \cup RequestsOf({1}, {<<>>, <<0, 1>>}) \cup RequestsOf({2}, {<<0>>})

allvars == <<vars, left, promised>>

MCInit == /\ left \in Budgets /\ Init /\ promised = {Content}
          /\ left.old <=> sector \in OldLayout
          /\ left.v1 > 0 => sector \in V1Flash
          /\ left.erases > 0 => sector \in Blanks

Use(what) == left[what] > 0 /\ left' = [left EXCEPT ![what] = @ - 1]

Changed(c, r) == Atomic!Updated(c, r)

(* Kept only where the older implementation writes too, or erase() is called. *)
Promises == \E b \in Budgets : b.v1 > 0 \/ b.erases > 0

(* A write under way: each array a reader may be shown, with the change too. *)
Promise(r) == promised' = IF Promises THEN promised \cup {Changed(c, r) : c \in promised}
                                      ELSE promised

(* A success settles what a reader sees: blank after an erase(), the change  *)
(* made to an array that was promised after a write.  The older              *)
(* implementation changes the array it takes for the current one.            *)
Settle ==
  promised' = IF ~(Promises /\ result' = "success" /\ pc' = "idle") THEN promised
              ELSE IF op = "erase" THEN {BlankData}
              ELSE IF promised = Data THEN Data
              ELSE IF op = "v1" THEN {Content'}
              ELSE {Content'} \cap {Changed(c, change) : c \in promised}

(* Where there is data in the old layout, migrate is the first call made. *)
Calls == \/ Read /\ ~left.old /\ UNCHANGED <<left, promised>>
         \/ \E r \in Requests : Write(r) /\ Promise(r) /\ Use("writes")
         \/ \E r \in Requests : RejectedWrite(r) /\ ~left.old /\ UNCHANGED <<left, promised>>
         \/ Erase /\ promised' = (IF Promises THEN Data ELSE promised) /\ Use("erases")
         \/ Migrate /\ UNCHANGED promised /\ Use("migrations")
         \/ \E r \in Requests : V1Write(r) /\ Promise(r) /\ Use("v1")

MCNext == \/ Calls
          \/ (Step \/ V1Step) /\ Settle /\ UNCHANGED left
          \/ Crash /\ UNCHANGED promised /\ Use("crashes")
          \/ Fail /\ UNCHANGED promised /\ Use("errors")

MCSpec == MCInit /\ [][MCNext]_allvars


(* The data of the old layout is there until the migrated copy is sealed,   *)
(* and the copy holds it: no power cut or flash error loses it.             *)
MigrationKeepsData ==
  left.old =>
    IF isInitialized
    THEN \A i \in 1 .. Length - OldFormatOffset : Content[i] = OldArray[i + OldFormatOffset]
    ELSE \E s \in Sector : sector[s].data = OldArray
=============================================================================
