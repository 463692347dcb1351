-------------------------- MODULE CompletionHandlers --------------------------
(***************************************************************************)
(* The completion handlers of services/inc/completion_handler.h and the     *)
(* CompletionHandlerMap that keeps them by key until they are completed,    *)
(* aborted or expire.  update(ticks) is called from time to time with the   *)
(* time since the last call; it is several steps here, because the callback *)
(* of an expired handler runs in the middle of it and may add a handler.    *)
(*                                                                          *)
(* The C++ ownership rules are part of the model: a handler that is         *)
(* destroyed or overwritten before it was completed is completed with       *)
(* SYSTEM_ERROR_INTERNAL.                                                   *)
(***************************************************************************)
EXTENDS Integers, Sequences, FiniteSets, SequencesExt, Selection

CONSTANTS
  TickMod,     \* system_tick_t counts modulo this
  Keys,        \* message ids
  Handlers     \* the handlers there are

MAX_TIMEOUT == TickMod - 1

ASSUME TickAssumption == TickMod \in Nat /\ TickMod > 1

VARIABLES
  handlers,       \* handlers_: a sequence of [key, id, ticks]
  timeoutTicks,   \* timeoutTicks_, the nearest expiration time
  ticks,          \* ticks_
  pos,            \* index of update()'s loop, 0 when it is not running
  calling,        \* update() is in the callback of an expired handler
  outcome,        \* what each handler's callback was called with, in order
  waited,         \* ticks passed to update() since each handler was added
  timeout         \* the timeout each handler was added with

hvars == <<handlers, timeoutTicks, ticks, pos, calling, outcome, waited, timeout>>

Ticks == 0 .. TickMod - 1

(* What takeHandler's loop computes. *)
Nearest(hs) == Min({hs[i].ticks : i \in DOMAIN hs} \cup {MAX_TIMEOUT})

(* The callbacks of the handlers in ids are called with an error. *)
Complete(ids, error) == [h \in Handlers |-> IF h \in ids THEN Append(outcome[h], error)
                                                         ELSE outcome[h]]

(* Mutant: the time that has passed since the last expiry is left out. *)
addHandlerAtTimeout(key, h, t) ==
  /\ handlers' = Append(handlers, [key |-> key, id |-> h, ticks |-> t])
  /\ timeoutTicks' = IF t < timeoutTicks THEN t ELSE timeoutTicks
  /\ timeout' = [timeout EXCEPT ![h] = t] /\ waited' = [waited EXCEPT ![h] = 0]
  /\ UNCHANGED <<ticks, pos, calling, outcome>>

addHandler(key, h, t) ==
  LET e == (ticks + t) % TickMod
  IN /\ handlers' = Append(handlers, [key |-> key, id |-> h, ticks |-> e])
     /\ timeoutTicks' = IF e < timeoutTicks THEN e ELSE timeoutTicks
     /\ timeout' = [timeout EXCEPT ![h] = t] /\ waited' = [waited EXCEPT ![h] = 0]
     /\ UNCHANGED <<ticks, pos, calling, outcome>>

(* Mutant: the handler is called but stays in the map. *)
takeHandlerKeep(key, error) ==
  /\ outcome' = Complete({handlers[i].id : i \in {j \in DOMAIN handlers : handlers[j].key = key}},
                         error)
  /\ UNCHANGED <<handlers, timeoutTicks, ticks, pos, calling, waited, timeout>>

(* takeHandler(key) completed with error.  If several handlers have the key *)
(* each but the last is overwritten by the next one taken.                  *)
takeHandler(key, error) ==
  LET hit == {i \in DOMAIN handlers : handlers[i].key = key}
      rest == Selected(handlers, DOMAIN handlers \ hit)
      last == IF hit = {} THEN {} ELSE {handlers[Max(hit)].id}
      overwritten == {handlers[i].id : i \in hit} \ last
  IN /\ handlers' = rest
     /\ timeoutTicks' = Nearest(rest)
     /\ ticks' = IF hit # {} /\ rest = <<>> THEN 0 ELSE ticks
     /\ outcome' = [h \in Handlers |->
                      IF h \in overwritten THEN Append(outcome[h], "INTERNAL")
                      ELSE IF h \in last THEN Append(outcome[h], error) ELSE outcome[h]]
     /\ UNCHANGED <<pos, calling, waited, timeout>>

clear ==
  /\ outcome' = Complete({handlers[i].id : i \in DOMAIN handlers}, "ABORTED")
  /\ handlers' = <<>> /\ timeoutTicks' = MAX_TIMEOUT /\ ticks' = 0
  /\ UNCHANGED <<pos, calling, waited, timeout>>

-----------------------------------------------------------------------------
(* update                                                                   *)

update(t) ==
  /\ pos = 0
  /\ IF handlers = <<>> THEN UNCHANGED hvars
     ELSE /\ ticks' = (ticks + t) % TickMod
          /\ waited' = [h \in Handlers |-> IF \E i \in DOMAIN handlers : handlers[i].id = h
                                           THEN waited[h] + t ELSE waited[h]]
          /\ IF ticks' >= timeoutTicks
             THEN timeoutTicks' = MAX_TIMEOUT /\ pos' = 1
             ELSE UNCHANGED <<timeoutTicks, pos>>
          /\ UNCHANGED <<handlers, calling, outcome, timeout>>

(* An expired handler is removed and called; the index stays. *)
UpdateExpire ==
  /\ pos \in DOMAIN handlers /\ ticks >= handlers[pos].ticks
  /\ outcome' = Complete({handlers[pos].id}, "TIMEOUT")
  /\ handlers' = RemoveAt(handlers, pos) /\ calling' = TRUE
  /\ UNCHANGED <<timeoutTicks, ticks, pos, waited, timeout>>

(* Mutant: the expiration time of a handler that is kept stays as it is. *)
UpdateKeepAsIs ==
  /\ pos \in DOMAIN handlers /\ ticks < handlers[pos].ticks
  /\ timeoutTicks' = Min({timeoutTicks, handlers[pos].ticks})
  /\ pos' = pos + 1 /\ calling' = FALSE
  /\ UNCHANGED <<handlers, ticks, outcome, waited, timeout>>

(* Another one has its expiration time made relative to now. *)
UpdateKeep ==
  /\ pos \in DOMAIN handlers /\ ticks < handlers[pos].ticks
  /\ LET e == handlers[pos].ticks - ticks
     IN /\ handlers' = [handlers EXCEPT ![pos].ticks = e]
        /\ timeoutTicks' = IF e < timeoutTicks THEN e ELSE timeoutTicks
  /\ pos' = pos + 1 /\ calling' = FALSE
  /\ UNCHANGED <<ticks, outcome, waited, timeout>>

UpdateEnd ==
  /\ pos > Len(handlers)
  /\ ticks' = 0 /\ pos' = 0 /\ calling' = FALSE
  /\ UNCHANGED <<handlers, timeoutTicks, outcome, waited, timeout>>

HandlersInit ==
  /\ handlers = <<>> /\ timeoutTicks = MAX_TIMEOUT /\ ticks = 0 /\ pos = 0
  /\ calling = FALSE
  /\ outcome = [h \in Handlers |-> <<>>]
  /\ waited = [h \in Handlers |-> 0] /\ timeout = [h \in Handlers |-> 0]

-----------------------------------------------------------------------------
(* Properties of the map.                                                   *)

HandlersTypeOK ==
  /\ handlers \in Seq([key : Keys, id : Handlers, ticks : Ticks])
  /\ timeoutTicks \in Ticks /\ ticks \in Ticks /\ pos \in Nat /\ calling \in BOOLEAN
  /\ outcome \in [Handlers -> Seq({"NONE", "TIMEOUT", "ABORTED", "INTERNAL", "BUSY", "NACK"})]
  /\ waited \in [Handlers -> Nat] /\ timeout \in [Handlers -> Nat]

Waiting == {handlers[i].id : i \in DOMAIN handlers}

(* A handler's callback is called once: never twice, and not while the      *)
(* handler is still in the map.                                             *)
CompletedOnce == \A h \in Handlers : Len(outcome[h]) <= IF h \in Waiting THEN 0 ELSE 1

(* Timeouts are kept to the tick: between updates each handler has as much  *)
(* of its timeout left as the map says, and some.  So none expires early    *)
(* and none that is due is left behind, whatever was added, taken or        *)
(* expired in between.                                                      *)
RemainingIsExact ==
  pos = 0 => \A i \in DOMAIN handlers :
    LET h == handlers[i] IN h.ticks - ticks = timeout[h.id] - waited[h.id] /\ h.ticks > ticks
=============================================================================
