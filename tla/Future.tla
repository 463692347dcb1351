-------------------------------- MODULE Future --------------------------------
(***************************************************************************)
(* One future shared by the threads that complete, cancel, read and observe *)
(* it: detail::FutureImpl of wiring/inc/spark_wiring_async.h.               *)
(*                                                                          *)
(* Every atomic operation of the class is a step; between two of them any   *)
(* other thread may run.  The stores and loads are sequentially consistent, *)
(* which is what the single Cortex-M3 core of the board gives (with the     *)
(* acquire and release orders the code asks for keeping the compiler from   *)
(* reordering them).  payload is the union { result_, error_ }.             *)
(***************************************************************************)
EXTENDS Naturals, FiniteSets, Sequences

CONSTANTS
  Thread,      \* the threads that use the future
  App,         \* the application thread
  Callback,    \* the functions passed to onSuccess and onError
  None         \* a null pointer

ASSUME ThreadAssumption == App \in Thread
ASSUME NoneAssumption == None \notin Callback

Kind == {"SUCCEEDED", "FAILED"}
State == Kind \cup {"RUNNING", "CANCELLED"}

VARIABLES
  state,      \* state_
  done,       \* done_
  payload,    \* which member of the union is constructed, "raw" if none
  slot,       \* onSuccess_ and onError_
  queue,      \* callbacks posted to the application thread, with their bound argument
  runs,       \* how often each callback was called
  fresh,      \* the callbacks not yet passed to the future
  lost,       \* the callbacks the application's queue refused, bound and never freed
  pc, kind, hand   \* of each thread: next step, the slot it is about, the callback it holds

shared == <<state, done, payload, slot, queue, runs, fresh, lost>>
vars == <<state, done, payload, slot, queue, runs, fresh, lost, pc, kind, hand>>

Move(t, l, k, c) == /\ pc' = [pc EXCEPT ![t] = l]
                    /\ kind' = [kind EXCEPT ![t] = k]
                    /\ hand' = [hand EXCEPT ![t] = c]
Finish(t) == Move(t, "idle", "SUCCEEDED", None)

-----------------------------------------------------------------------------
(* setResult, setError and cancel.                                          *)

(* Mutant: the state is stored without comparing. *)
changeStateAlways(t, k, l) ==
  state' = k /\ Move(t, l, IF k \in Kind THEN k ELSE "SUCCEEDED", None)

(* compare_exchange_strong from RUNNING: only one thread gets past it. *)
changeState(t, k, l) ==
  IF state = "RUNNING"
  THEN state' = k /\ Move(t, l, IF k \in Kind THEN k ELSE "SUCCEEDED", None)
  ELSE UNCHANGED <<state, pc, kind, hand>>

setResultOrError(t, k) ==
  /\ pc[t] = "idle" /\ changeState(t, k, "construct")
  /\ UNCHANGED <<done, payload, slot, queue, runs, fresh, lost>>

(* Mutant: done_ is set before the result is constructed. *)
ConstructAfterDone(t) ==
  /\ pc[t] = "construct" /\ done' = TRUE
  /\ Move(t, "release", kind[t], None)
  /\ UNCHANGED <<state, payload, slot, queue, runs, fresh, lost>>

Construct(t) ==
  /\ pc[t] = "construct" /\ payload' = kind[t]
  /\ Move(t, "release", kind[t], None)
  /\ UNCHANGED <<state, done, slot, queue, runs, fresh, lost>>

releaseDone(t) ==
  /\ pc[t] = "release" /\ done' = TRUE
  /\ Move(t, "take", kind[t], None)
  /\ UNCHANGED <<state, payload, slot, queue, runs, fresh, lost>>

cancel(t) ==
  /\ pc[t] = "idle" /\ changeState(t, "CANCELLED", "cancel")
  /\ UNCHANGED <<done, payload, slot, queue, runs, fresh, lost>>

(* Mutant: a cancelled future is not marked done. *)
CancelNotDone(t) ==
  /\ pc[t] = "cancel" /\ Finish(t)
  /\ UNCHANGED <<state, done, payload, slot, queue, runs, fresh, lost>>

CancelDone(t) ==
  /\ pc[t] = "cancel" /\ done' = TRUE /\ Finish(t)
  /\ UNCHANGED <<state, payload, slot, queue, runs, fresh, lost>>

-----------------------------------------------------------------------------
(* onSuccess and onError: store the callback (deleting the one it replaces),*)
(* then look whether the future is already done.                            *)

(* Mutant: the future is not looked at again. *)
setCallbackNoCheck(t, k, c) ==
  /\ pc[t] = "idle" /\ c \in fresh
  /\ slot' = [slot EXCEPT ![k] = c] /\ fresh' = fresh \ {c}
  /\ Finish(t) /\ UNCHANGED <<state, done, payload, queue, runs, lost>>

setCallback(t, k, c) ==
  /\ pc[t] = "idle" /\ c \in fresh
  /\ slot' = [slot EXCEPT ![k] = c] /\ fresh' = fresh \ {c}
  /\ Move(t, "check", k, None)
  /\ UNCHANGED <<state, done, payload, queue, runs, lost>>

acquireDone(t) ==
  /\ pc[t] = "check"
  /\ IF done /\ state = kind[t] THEN Move(t, "take", kind[t], None) ELSE Finish(t)
  /\ UNCHANGED shared

(* invokeCallback: the exchange with a null pointer. *)
Take(t) ==
  /\ pc[t] = "take"
  /\ slot' = [slot EXCEPT ![kind[t]] = None]
  /\ IF slot[kind[t]] = None THEN Finish(t) ELSE Move(t, "invoke", kind[t], slot[kind[t]])
  /\ UNCHANGED <<state, done, payload, queue, runs, fresh, lost>>

(* Mutants: a callback of another thread is not posted; a callback called   *)
(* directly is posted as well.                                              *)
InvokeAppOnly(t) ==
  /\ pc[t] = "invoke" /\ Finish(t)
  /\ runs' = IF t = App THEN [runs EXCEPT ![hand[t]] = @ + 1] ELSE runs
  /\ UNCHANGED <<state, done, payload, slot, queue, fresh, lost>>
InvokeAndPost(t) ==
  /\ pc[t] = "invoke" /\ Finish(t)
  /\ runs' = IF t = App THEN [runs EXCEPT ![hand[t]] = @ + 1] ELSE runs
  /\ queue' = Append(queue, [callback |-> hand[t], arg |-> payload])
  /\ UNCHANGED <<state, done, payload, slot, fresh, lost>>

(* Called directly in the application thread, posted to it from any other   *)
(* with a copy of the result or error.  The queue refuses it when it is     *)
(* full, of whatever messages; the answer is not looked at.                 *)
Invoke(t) ==
  /\ pc[t] = "invoke" /\ Finish(t)
  /\ \/ /\ t = App /\ runs' = [runs EXCEPT ![hand[t]] = @ + 1]
        /\ UNCHANGED <<queue, lost>>
     \/ /\ t # App /\ queue' = Append(queue, [callback |-> hand[t], arg |-> payload])
        /\ UNCHANGED <<runs, lost>>
     \/ /\ t # App /\ lost' = lost \cup {hand[t]}
        /\ UNCHANGED <<queue, runs>>
  /\ UNCHANGED <<state, done, payload, slot, fresh>>

(* futureCallbackWrapper, run by the application's event loop. *)
ProcessApplicationEvent ==
  /\ pc[App] \in {"idle", "wait"} /\ queue # <<>>
  /\ runs' = [runs EXCEPT ![Head(queue).callback] = @ + 1]
  /\ queue' = Tail(queue)
  /\ UNCHANGED <<state, done, payload, slot, fresh, lost, pc, kind, hand>>

-----------------------------------------------------------------------------
(* result and error: the application thread first waits, processing events; *)
(* any other thread does not wait.                                          *)

Get(t, k) == /\ pc[t] = "idle"
             /\ Move(t, IF t = App THEN "wait" ELSE "acquire", k, None)
             /\ UNCHANGED shared

WaitDone == /\ pc[App] = "wait" /\ done
            /\ Move(App, "acquire", kind[App], None) /\ UNCHANGED shared

Acquire(t) ==
  /\ pc[t] = "acquire"
  /\ IF done /\ state = kind[t] THEN Move(t, "read", kind[t], None) ELSE Finish(t)
  /\ UNCHANGED shared

ReadPayload(t) == pc[t] = "read" /\ Finish(t) /\ UNCHANGED shared

-----------------------------------------------------------------------------
Init == /\ state = "RUNNING" /\ done = FALSE /\ payload = "raw"
        /\ slot = [k \in Kind |-> None] /\ queue = <<>>
        /\ runs = [c \in Callback |-> 0] /\ fresh = Callback /\ lost = {}
        /\ pc = [t \in Thread |-> "idle"] /\ kind = [t \in Thread |-> "SUCCEEDED"]
        /\ hand = [t \in Thread |-> None]

(* A call in progress goes on. *)
Continue(t) == \/ Construct(t) \/ releaseDone(t) \/ CancelDone(t)
               \/ acquireDone(t) \/ Take(t) \/ Invoke(t)
               \/ Acquire(t) \/ ReadPayload(t) \/ (t = App /\ WaitDone)

Next ==
  \/ \E t \in Thread :
       \/ Continue(t)
       \/ cancel(t)
       \/ \E k \in Kind : \/ setResultOrError(t, k) \/ Get(t, k)
                          \/ \E c \in Callback : setCallback(t, k, c)
  \/ ProcessApplicationEvent

Fairness == /\ \A t \in Thread : WF_vars(Continue(t))
            /\ SF_vars(ProcessApplicationEvent)

Spec == Init /\ [][Next]_vars
FairSpec == Spec /\ Fairness

-----------------------------------------------------------------------------
(* Properties.                                                              *)

Posted == [callback : Callback, arg : Kind \cup {"raw"}]

(* Every variable keeps its type. *)
TypeOK ==
  /\ state \in State /\ done \in BOOLEAN /\ payload \in Kind \cup {"raw"}
  /\ slot \in [Kind -> Callback \cup {None}]
  /\ queue \in Seq(Posted)
  /\ runs \in [Callback -> Nat] /\ fresh \subseteq Callback /\ lost \subseteq Callback
  /\ pc \in [Thread -> {"idle", "construct", "release", "take", "invoke", "cancel",
                        "check", "wait", "acquire", "read"}]
  /\ kind \in [Thread -> Kind]
  /\ hand \in [Thread -> Callback \cup {None}]

(* A result or error is read only after it was constructed: by result() and *)
(* error(), and by whoever passes it to a callback.                         *)
ReadsConstructed ==
  /\ \A t \in Thread : pc[t] \in {"take", "invoke", "read"} => payload = kind[t]
  /\ \A i \in DOMAIN queue : queue[i].arg = state

(* A callback never runs twice, whichever of the completing and the         *)
(* registering thread finds it.                                             *)
AtMostOnce == \A c \in Callback : runs[c] <= 1

(* When no thread is in the middle of a call, a completed future has no     *)
(* callback left in the slot of its outcome: neither the completing nor     *)
(* the registering thread left it to the other.                             *)
NoCallbackLeft ==
  (\A t \in Thread : pc[t] \in {"idle", "wait"}) /\ done /\ state \in Kind
     => slot[state] = None

(* The strengthening of the three: who may be where.  Exactly one thread    *)
(* gets past changeState, and until it releases done_ nobody else looks at  *)
(* the payload; ...                                                         *)
Completing(t) == pc[t] \in {"construct", "release", "cancel"}
CompleterInv ==
  /\ state = "RUNNING" => ~done /\ payload = "raw"
  /\ \A t \in Thread :
       /\ pc[t] \in {"construct", "release"} => ~done /\ state = kind[t]
       /\ pc[t] = "cancel" => ~done /\ state = "CANCELLED"
       /\ pc[t] = "construct" => payload = "raw"
       /\ pc[t] = "release" => payload = kind[t]
       /\ pc[t] \in {"take", "invoke", "read"} => done /\ state = kind[t]
  /\ \A t, u \in Thread : Completing(t) /\ Completing(u) => t = u
  /\ done /\ state \in Kind => payload = state
  /\ \A i \in DOMAIN queue : queue[i].arg = state
  /\ queue # <<>> => done /\ state \in Kind

(* ... a callback in the slot of the outcome has a thread on its way to it; ... *)
OnItsWay == done /\ state \in Kind /\ slot[state] # None
              => \E t \in Thread : pc[t] \in {"check", "take"} /\ kind[t] = state

(* ... and a callback is in one place at a time. *)
Placed(c) == /\ c \in fresh => (\A k \in Kind : slot[k] # c) /\ (\A t \in Thread : hand[t] # c)
             /\ c \in fresh => \A i \in DOMAIN queue : queue[i].callback # c
             /\ \A k \in Kind : slot[k] = c =>
                  /\ \A t \in Thread : hand[t] # c
                  /\ \A i \in DOMAIN queue : queue[i].callback # c
                  /\ \A l \in Kind : slot[l] = c => k = l
             /\ \A t \in Thread : hand[t] = c =>
                  /\ \A i \in DOMAIN queue : queue[i].callback # c
                  /\ \A u \in Thread : hand[u] = c => t = u
             /\ \A i, j \in DOMAIN queue :
                  queue[i].callback = c /\ queue[j].callback = c => i = j
             /\ c \in fresh => runs[c] = 0
             /\ \A k \in Kind : slot[k] = c => runs[c] = 0
             /\ \A t \in Thread : hand[t] = c => runs[c] = 0
             /\ \A i \in DOMAIN queue : queue[i].callback = c => runs[c] = 0
             /\ runs[c] <= 1
PlacesInv == /\ \A c \in Callback : Placed(c)
             /\ \A t \in Thread : (hand[t] = None) <=> (pc[t] # "invoke")

IInv == TypeOK /\ CompleterInv /\ OnItsWay /\ PlacesInv

KeepsOutcome == /\ state # "RUNNING" => state' = state
                /\ payload # "raw" => payload' = payload
(* The outcome of a future never changes, and what it was constructed as    *)
(* stays what it is.                                                        *)
OutcomeIsFinal == [][KeepsOutcome]_vars

(* A callback taken out of its slot is called eventually, also when another *)
(* thread than the application's took it, unless the application's queue    *)
(* refused it.                                                              *)
TakenCallbackRuns ==
  \A c \in Callback : (\E t \in Thread : hand[t] = c) ~> (runs[c] = 1 \/ c \in lost)

(* result() returns once some thread completed or cancelled the future. *)
WaitEnds == (state # "RUNNING" /\ pc[App] = "wait") ~> (pc[App] # "wait")
=============================================================================
