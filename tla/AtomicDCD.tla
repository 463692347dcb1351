------------------------------ MODULE AtomicDCD ------------------------------
(***************************************************************************)
(* What the DCD promises its callers: an array of cells in which a write    *)
(* happens at one instant or not at all.  Nothing is promised about what an *)
(* erase that is under way or was cut short leaves, until the next write.   *)
(***************************************************************************)
EXTENDS Integers, Sequences

CONSTANTS Size, Cells, Erased, Writes

VARIABLES
  content,   \* what a read returns
  op, req,   \* the call in progress, and the write it makes
  done,      \* has the write in progress taken effect?
  result     \* how the last call ended

avars == <<content, op, req, done, result>>

Contents == [1 .. Size -> Cells]
ErasedContent == [i \in 1 .. Size |-> Erased]
Updated(c, r) == [i \in 1 .. Size |-> IF i \in r.offset + 1 .. r.offset + Len(r.data)
                                      THEN r.data[i - r.offset] ELSE c[i]]

Init == content \in Contents /\ op = "none" /\ done = FALSE /\ result = "none"

CallRead == op = "none" /\ op' = "read" /\ UNCHANGED <<content, req, done, result>>

CallWrite == op = "none" /\ op' = "write" /\ req' \in Writes /\ UNCHANGED <<content, done, result>>

(* A write refused for its arguments, or one of no bytes. *)
Refuse == op = "none" /\ result' # "none" /\ UNCHANGED <<content, op, req, done>>

TakeEffect == /\ op = "write" /\ ~done
              /\ content' = Updated(content, req) /\ done' = TRUE
              /\ UNCHANGED <<op, req, result>>

CallErase == op = "none" /\ op' = "erase" /\ UNCHANGED <<content, req, done, result>>

EraseStep == op = "erase" /\ content' \in Contents /\ UNCHANGED <<op, req, done, result>>

Succeed == /\ op # "none" /\ op' = "none" /\ result' = "success" /\ done' = FALSE
           /\ UNCHANGED req
           /\ op = "write" => done
           /\ IF op = "erase" THEN content' = ErasedContent ELSE UNCHANGED content

(* The call reports an error, or power is lost.  An erase may be half done. *)
Abort == /\ op # "none" /\ op' = "none" /\ result' # "success" /\ done' = FALSE
         /\ UNCHANGED req
         /\ IF op = "erase" THEN content' \in Contents ELSE UNCHANGED content

Next == CallRead \/ CallWrite \/ Refuse \/ TakeEffect \/ CallErase \/ EraseStep
          \/ Succeed \/ Abort

Spec == Init /\ [][Next]_avars
=============================================================================
