------------------------------ MODULE MCEEPROM ------------------------------
(***************************************************************************)
(* Model checking of EEPROMEmulation.  The specification itself is          *)
(* unbounded in the number of calls, power cuts and failing writes; left    *)
(* counts how many of each this instance may still make.                    *)
(***************************************************************************)
EXTENDS EEPROMEmulation

CONSTANTS MaxPuts, MaxClears, MaxCrashes, MaxFaults

VARIABLE left

OnesOf(x) == {b \in 0 .. 2 : (x \div 2^b) % 2 = 1}
AndTable == [x \in 0 .. 7, y \in 0 .. 7 |->
               CHOOSE z \in 0 .. x : OnesOf(z) = OnesOf(x) \cap OnesOf(y)]
BitAnd(x, y) == AndTable[x, y]

PageSlots5 == <<5, 5>>
PageSlots65 == <<6, 5>>

PutsOf(begins, datas) == {[begin |-> b, data |-> d] : b \in begins, d \in datas}

(* One, two and three bytes; 3 is the erased value of a two-bit byte. *)
Puts3 == PutsOf({0}, {<<1, 0, 1>>, <<0, 1, 0>>}) \cup PutsOf({1}, {<<0>>, <<3, 0>>})
(* Cells 0 and 2: a torn index of cell 2 lies in the last batch of the scan. *)
Puts2 == PutsOf({0, 2}, {<<0>>, <<1>>}) \cup PutsOf({0}, {<<0, 0>>, <<1, 1, 0>>, <<0, 1>>})

(* Neither empty nor valid: the status byte was lost. *)
InvalidCell == {[data |-> 0, status |-> FLASH_ERASED, index |-> 0]}

MCInit == Init /\ left = [puts |-> MaxPuts, clears |-> MaxClears,
                          crashes |-> MaxCrashes, faults |-> MaxFaults]

Use(what) == left[what] > 0 /\ left' = [left EXCEPT ![what] = @ - 1]

MCNext ==
  \/ Step /\ UNCHANGED left
  \/ Fault /\ Use("faults")
  \/ PerformPendingErase /\ UNCHANGED left
  \/ Clear /\ Use("clears")
  \/ (\E r \in Requests : Put(r)) /\ Use("puts")
  \/ Crash /\ Use("crashes")

MCSpec == MCInit /\ [][MCNext]_<<vars, left>>
MCFairSpec == MCSpec /\ WF_vars(Step)
=============================================================================
