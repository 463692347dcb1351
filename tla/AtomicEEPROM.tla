----------------------------- MODULE AtomicEEPROM -----------------------------
(***************************************************************************)
(* What the EEPROM emulation promises its callers: an array of byte cells   *)
(* that survives resets, in which a put of several cells happens at one     *)
(* instant or not at all.  clear() makes no promise until it is done, and   *)
(* the flash may expose the data: refuse the write that ends a put's page   *)
(* swap, after which nothing is promised until a reset or a clear().        *)
(***************************************************************************)
CONSTANTS Cells, CellValue, Blank

VARIABLES content,  \* what reads back, now or after a reset
          call,     \* "none", "put", "clear" or "exposed"
          update    \* the cells the put in progress stores, and their values

vars == <<content, call, update>>

Stored(u) == [i \in Cells |-> IF i \in DOMAIN u THEN u[i] ELSE content[i]]
AllBlank == [i \in Cells |-> Blank]

Init == content = AllBlank /\ call = "none" /\ update = <<>>

BeginPut ==
  /\ call = "none" /\ call' = "put"
  /\ UNCHANGED content

(* The instant of the put, which may also be its last. *)
StorePut ==
  /\ call = "put" /\ call' \in {"put", "none", "exposed"}
  /\ content' = Stored(update)
  /\ call' = "put" => update' = update

(* The put returns, gives up, or is cut off by a reset. *)
EndPut ==
  /\ call = "put" /\ call' = "none"
  /\ UNCHANGED content

(* A clear() from any state between calls. *)
BeginClear ==
  /\ call \in {"none", "exposed"} /\ call' = "clear"
  /\ UNCHANGED content

(* A clear that is not finished may have destroyed any part of the data,    *)
(* and so may have any call while the data is exposed.                      *)
Unprotected ==
  /\ call \in {"clear", "exposed"} /\ call' \in {call, "none"}
  /\ content' \in [Cells -> CellValue]

Next == BeginPut \/ StorePut \/ EndPut \/ BeginClear \/ Unprotected

Spec == Init /\ [][Next]_vars
=============================================================================
