------------------------------- MODULE Threads --------------------------------
(***************************************************************************)
(* The active objects together with the other ways an application runs code *)
(* concurrently: a software timer (wiring/inc/spark_wiring_timer.h), whose  *)
(* callback runs in the timer service of the operating system, and a thread *)
(* (wiring/inc/spark_wiring_thread.h).  The programs of ActiveObject may    *)
(* also hold the operations of one Timer and one Thread object.             *)
(***************************************************************************)
EXTENDS ActiveObject

CONSTANTS
  Service,     \* the thread of the operating system that calls timer callbacks
  User,        \* the thread the Thread object creates
  Callback,    \* what the timer's callback does
  OneShot,     \* whether the timer fires once only
  MaxExpiries  \* bound on how often the timer expires

TimerChange == {"start", "stop", "reset", "changePeriod"}

(* What a program may be made of, and what is done only once: a work stands *)
(* for one call, and there is one Thread object.                            *)
Item == Work \cup Object \cup TimerChange \cup {Process, "dispose", "create", "join"}
Once == Work \cup {"create"}

(* The places a program may come from, and the program. *)
Origin == ({"body"} \X Work) \cup ({"main"} \X {Boot, User})
          \cup ({"background"} \X Object) \cup {<<"callback", Service>>}
Program(a) == CASE a[1] = "body" -> Body[a[2]]
                [] a[1] = "main" -> Main[a[2]]
                [] a[1] = "background" -> Background[a[2]]
                [] OTHER -> Callback

(* The objects' threads are their own, and not the one of the Thread object *)
(* nor the operating system's.                                              *)
ASSUME ServiceAssumption ==
  /\ {Service, User} \subseteq Thread /\ Service # User
  /\ Boot \notin {Service, User} /\ \A o \in Object : Owner[o] \notin {Service, User}
  /\ OneShot \in BOOLEAN /\ MaxExpiries \in Nat
ASSUME ProgramAssumption ==
  /\ Body \in [Work -> Seq(Item)] /\ Main \in [Thread -> Seq(Item)]
  /\ Background \in [Object -> Seq(Item)] /\ Callback \in Seq(Item)
  /\ "create" \notin Work
  /\ Object \cap (Work \cup TimerChange \cup {Process, "dispose", "create", "join"}) = {}

(* Each work is called from one place, which is come to once: the callback  *)
(* of a timer that expires again makes no calls.                            *)
ASSUME OnceAssumption ==
  /\ \A a, b \in Origin : \A i \in DOMAIN Program(a), j \in DOMAIN Program(b) :
       Program(a)[i] = Program(b)[j] /\ Program(a)[i] \in Once => a = b /\ i = j
  /\ MaxExpiries > 1 => \A i \in DOMAIN Callback : Callback[i] \notin Once

(* The objects are started by the main program of the first thread. *)
ASSUME StartAssumption ==
  \A a \in Origin : a # <<"main", Boot>> =>
    \A i \in DOMAIN Program(a) : Program(a)[i] \notin Object

VARIABLES
  timer,      \* handle, whether the system will let it expire, running, and the expiries left
  thread      \* of the Thread object: handle, exited_, whether the system's thread has ended, cleaned up

vars == <<started, threadId, queue, stack, pc, mem, result, complete, background, runs, answer,
          timer, thread>>

-----------------------------------------------------------------------------
(* Timer.                                                                   *)

(* _start, _stop, _reset and _changePeriod: os_timer_change, if there is a  *)
(* handle.  The stop that _start makes first leaves nothing to be seen.     *)
timerChange(t, c) ==
  /\ AtCall(t, c)
  /\ timer' = [timer EXCEPT !.active = IF timer.handle THEN c # "stop" ELSE @]
  /\ Advance(t)
  /\ UNCHANGED <<started, threadId, queue, pc, mem, result, complete, background, runs, answer, thread>>

(* dispose(): stop(), or nothing when there is no handle. *)
timerDispose(t) ==
  /\ AtCall(t, "dispose")
  /\ IF timer.handle
     THEN timer' = [timer EXCEPT !.active = FALSE] /\ Goto(t, "disposing") /\ UNCHANGED stack
     ELSE Advance(t) /\ UNCHANGED <<timer, pc>>
  /\ UNCHANGED <<started, threadId, queue, mem, result, complete, background, runs, answer, thread>>

(* while (running) is over. *)
timerNotRunning(t) ==
  /\ pc[t] = "disposing" /\ ~timer.running
  /\ Goto(t, "destroy")
  /\ UNCHANGED <<started, threadId, queue, stack, mem, result, complete, background, runs, answer,
                 timer, thread>>

(* os_timer_destroy, and the Timer is gone. *)
timerDestroy(t) ==
  /\ pc[t] = "destroy"
  /\ timer' = [timer EXCEPT !.handle = FALSE]
  /\ Goto(t, "run") /\ Advance(t)
  /\ UNCHANGED <<started, threadId, queue, mem, result, complete, background, runs, answer, thread>>

(* The service finds the timer expired and calls invoke_timer, which gets   *)
(* the Timer from the id.  External up to the call.                         *)
invoke_timer ==
  /\ stack[Service] = <<>> /\ timer.active /\ timer.left > 0
  /\ timer' = [timer EXCEPT !.left = @ - 1, !.active = ~OneShot]
  /\ Push(Service, Frame(None, Callback, "callback"))
  /\ Goto(Service, "invoke")
  /\ UNCHANGED <<started, threadId, queue, mem, result, complete, background, runs, answer, thread>>

(* timeout() sets running and calls the callback. *)
timeout ==
  /\ pc[Service] = "invoke"
  /\ timer' = [timer EXCEPT !.running = TRUE]
  /\ Goto(Service, "run")
  /\ UNCHANGED <<started, threadId, queue, stack, mem, result, complete, background, runs, answer, thread>>

(* Mutant: running is not reset. *)
timeoutEndSticky ==
  /\ AtEnd(Service, "callback")
  /\ Pop(Service)
  /\ UNCHANGED <<started, threadId, queue, pc, mem, result, complete, background, runs, answer,
                 timer, thread>>

(* The callback returns to timeout(). *)
timeoutEnd ==
  /\ AtEnd(Service, "callback")
  /\ timer' = [timer EXCEPT !.running = FALSE]
  /\ Pop(Service)
  /\ UNCHANGED <<started, threadId, queue, pc, mem, result, complete, background, runs, answer, thread>>

-----------------------------------------------------------------------------
(* Thread.                                                                  *)

(* The constructor: os_thread_create with Thread::run. *)
threadCreate(t) ==
  /\ AtCall(t, "create")
  /\ thread' = [thread EXCEPT !.handle = TRUE]
  /\ stack' = [stack EXCEPT ![t] = Advanced(@), ![User] = <<Frame(None, Main[User], "main")>>]
  /\ UNCHANGED <<started, threadId, queue, pc, mem, result, complete, background, runs, answer, timer>>

(* Thread::run: the function has returned, exited_ is set. *)
threadExited ==
  /\ AtEnd(User, "main") /\ ~thread.exited
  /\ thread' = [thread EXCEPT !.exited = TRUE]
  /\ UNCHANGED <<started, threadId, queue, stack, pc, mem, result, complete, background, runs, answer,
                 timer>>

(* os_thread_exit(nullptr) *)
threadExit ==
  /\ thread.exited /\ ~thread.ended
  /\ thread' = [thread EXCEPT !.ended = TRUE]
  /\ stack' = [stack EXCEPT ![User] = <<>>]
  /\ UNCHANGED <<started, threadId, queue, pc, mem, result, complete, background, runs, answer, timer>>

(* ~Thread(), dispose() by another thread: whether to join is decided. *)
threadDispose(t) ==
  /\ AtCall(t, "join") /\ t # User
  /\ IF thread.handle
     THEN Goto(t, IF thread.exited THEN "cleanup" ELSE "join") /\ UNCHANGED stack
     ELSE Advance(t) /\ UNCHANGED pc
  /\ UNCHANGED <<started, threadId, queue, mem, result, complete, background, runs, answer, timer, thread>>

(* os_thread_join *)
threadJoin(t) ==
  /\ pc[t] = "join" /\ thread.ended
  /\ Goto(t, "cleanup")
  /\ UNCHANGED <<started, threadId, queue, stack, mem, result, complete, background, runs, answer,
                 timer, thread>>

(* The wrapper is deleted, os_thread_cleanup. *)
threadCleanup(t) ==
  /\ pc[t] = "cleanup"
  /\ thread' = [thread EXCEPT !.handle = FALSE, !.cleaned = TRUE]
  /\ Goto(t, "run") /\ Advance(t)
  /\ UNCHANGED <<started, threadId, queue, mem, result, complete, background, runs, answer, timer>>

-----------------------------------------------------------------------------
Init == /\ aoInit
        /\ timer = [handle |-> TRUE, active |-> FALSE, running |-> FALSE, left |-> MaxExpiries]
        /\ thread = [handle |-> FALSE, exited |-> FALSE, ended |-> FALSE, cleaned |-> FALSE]

ThreadStep(t) ==
  \/ aoStep(t) /\ UNCHANGED <<timer, thread>>
  \/ \E c \in TimerChange : timerChange(t, c)
  \/ timerDispose(t) \/ timerNotRunning(t) \/ timerDestroy(t)
  \/ threadCreate(t) \/ threadDispose(t) \/ threadJoin(t) \/ threadCleanup(t)
  \/ t = Service /\ (timeout \/ timeoutEnd)
  \/ t = User /\ (threadExited \/ threadExit)

Next == invoke_timer \/ \E t \in Thread : ThreadStep(t)

Spec == Init /\ [][Next]_vars

(* The scheduler runs every thread that can go on; whether a timer expires  *)
(* is not said.                                                             *)
FairSpec == Spec /\ \A t \in Thread : WF_vars(ThreadStep(t))

-----------------------------------------------------------------------------
(* Properties.                                                              *)

TypeOK ==
  /\ started \in [Object -> BOOLEAN]
  /\ threadId \in [Object -> Thread \cup {None}]
  /\ queue \in [Object -> Seq(Work)] /\ \A o \in Object : Len(queue[o]) <= QueueSize[o]
  /\ DOMAIN stack = Thread
  /\ \A t \in Thread : \A i \in DOMAIN stack[t] :
       stack[t][i].via \in {"main", "loop", "direct", "task", "done", "callback"}
  /\ pc \in [Thread -> {"run", "put", "wait", "get", "invoke", "disposing", "destroy", "join", "cleanup"}]
  /\ mem \in [Work -> {"none", "live", "freed"}]
  /\ complete \in [Work -> 0..1] /\ runs \in [Work -> Nat]
  /\ timer \in [handle : BOOLEAN, active : BOOLEAN, running : BOOLEAN, left : 0..MaxExpiries]
  /\ thread \in [handle : BOOLEAN, exited : BOOLEAN, ended : BOOLEAN, cleaned : BOOLEAN]

(* Not promised by this code but by the order of main() and by the          *)
(* application: calls made to an object before it is started come from the  *)
(* thread that starts it.                                                   *)
EarlyCallsFromBoot ==
  \A o \in Object : ~started[o] => Executing(o) \subseteq {Boot}

(* The functions of an active object exclude each other: two threads are    *)
(* never inside work of the same object, although calls made before it was  *)
(* started run on the thread of the caller and later ones on its own.  That *)
(* holds only when all the early calls come from the thread that starts the *)
(* objects: a call of another thread may still be running when the event    *)
(* loop begins.                                                             *)
SerialisedIfBootCallsFirst == []EarlyCallsFromBoot => []WorkIsSerialised

(* Nobody waits for ever, although the threads wait on one another through  *)
(* the queues: once the programs have made their calls, every synchronous   *)
(* call has its answer, every call has found place in a queue or given up,  *)
(* dispose() and ~Thread() have returned, and all that was accepted has run.*)
EveryWaitEnds ==
  <>[](/\ \A t \in Thread : pc[t] = "run"
       /\ \A o \in Object : queue[o] = <<>>)
=============================================================================
