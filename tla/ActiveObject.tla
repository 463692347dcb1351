----------------------------- MODULE ActiveObject -----------------------------
(***************************************************************************)
(* Active objects and the calls threads make to them:                       *)
(* system/inc/active_object.h and the macros of system_threading.h.         *)
(*                                                                          *)
(* An active object is a bounded queue of messages and the thread that runs *)
(* them.  A call that concerns it (a Work) is queued if the object has been *)
(* started and the caller is another thread, otherwise it runs on the spot. *)
(* A synchronous call leaves a promise in the queue and waits for its       *)
(* semaphore.  What a work, a thread or a background task does is a program:*)
(* a sequence of works to call, objects to start and Process, the call of   *)
(* process() from inside other code.  Each work is called once.             *)
(***************************************************************************)
EXTENDS Integers, Sequences, SequencesExt

CONSTANTS
  Thread,
  Object,       \* the active objects
  Owner,        \* the thread each of them runs on
  QueueSize,    \* configuration.queue_size
  TimesOut,     \* the objects whose put_wait is finite
  Work,         \* the calls
  On,           \* the object each call concerns
  Sync,         \* the calls made with SYSTEM_THREAD_CONTEXT_SYNC
  Body,         \* what the function called does
  Main,         \* what each thread does before it runs its event loop, if it has one
  Boot,         \* the thread that exists from the beginning
  Background,   \* what the background task of each object does
  Process,      \* the call of process() in a program
  None          \* no thread, no value

ASSUME ObjectAssumption ==
  /\ Owner \in [Object -> Thread]
  /\ QueueSize \in [Object -> Nat \ {0}]
  /\ TimesOut \subseteq Object /\ Boot \in Thread
ASSUME WorkAssumption ==
  /\ On \in [Work -> Object] /\ Sync \subseteq Work
  /\ None \notin Work \cup Thread

VARIABLES
  started,    \* started
  threadId,   \* _thread_id
  queue,      \* the messages queued, by the work they carry
  stack,      \* of each thread: what it is executing, innermost last
  pc,         \* of each thread: the step of the call it is making
  mem,        \* whether the task or promise of a work is allocated
  result,     \* SystemPromise::result
  complete,   \* the semaphore of a promise
  background, \* what is left for the background task of each object
  runs,       \* how often each work was begun
  answer      \* what the caller of a work was given

-----------------------------------------------------------------------------
(* Stacks.  A frame executes the program left; via says how it was entered: *)
(* "main" and "loop" the thread itself, "direct" a call on the spot, "task" *)
(* a queued message, "done" a promise whose result is there.                *)

Frame(w, p, v) == [work |-> w, left |-> p, via |-> v]
Top(t) == Last(stack[t])
Running(t) == pc[t] = "run" /\ stack[t] # <<>>
AtCall(t, i) == Running(t) /\ Top(t).left # <<>> /\ Head(Top(t).left) = i
AtEnd(t, v) == Running(t) /\ Top(t).left = <<>> /\ Top(t).via = v

Advanced(s) == Append(Front(s), [Last(s) EXCEPT !.left = Tail(@)])
Advance(t) == stack' = [stack EXCEPT ![t] = Advanced(@)]
Push(t, f) == stack' = [stack EXCEPT ![t] = Append(@, f)]
Pop(t) == stack' = [stack EXCEPT ![t] = Front(@)]
Goto(t, l) == pc' = [pc EXCEPT ![t] = l]

(* What SystemPromise::result holds before it is assigned. *)
Garbage == -1

(* A work begins: on the spot, or taken from the queue. *)
Begin(t, w, v, s) == /\ stack' = [stack EXCEPT ![t] = Append(s, Frame(w, Body[w], v))]
                     /\ runs' = [runs EXCEPT ![w] = @ + 1]

-----------------------------------------------------------------------------
(* Making a call.                                                           *)

(* Mutant: the negation of isCurrentThread() is missing. *)
isRemoteOnItself(t, o) == started[o] /\ threadId[o] = t

(* isStarted() && !isCurrentThread() *)
isRemote(t, o) == started[o] /\ threadId[o] # t

(* The macros _THREAD_CONTEXT_ASYNC and SYSTEM_THREAD_CONTEXT_SYNC up to    *)
(* the allocation in invoke_async or invoke_future; or the call on the spot.*)
invoke(t, w) ==
  /\ AtCall(t, w)
  /\ IF isRemote(t, On[w])
     THEN /\ mem' = [mem EXCEPT ![w] = "live"]
          /\ Goto(t, "put")
          /\ UNCHANGED <<stack, runs>>
     ELSE /\ Begin(t, w, "direct", Advanced(stack[t]))
          /\ UNCHANGED <<mem, pc>>
  /\ UNCHANGED <<started, threadId, queue, result, complete, background, answer>>

Called(t) == Head(Top(t).left)

(* os_queue_put succeeds; a synchronous caller goes on to wait. *)
put(t) ==
  /\ pc[t] = "put"
  /\ LET w == Called(t)  o == On[w] IN
     /\ Len(queue[o]) < QueueSize[o]
     /\ queue' = [queue EXCEPT ![o] = Append(@, w)]
     /\ IF w \in Sync THEN Goto(t, "wait") /\ UNCHANGED stack
                      ELSE Goto(t, "run") /\ Advance(t)
  /\ UNCHANGED <<started, threadId, mem, result, complete, background, runs, answer>>

(* Mutant: the message that was refused is not deleted. *)
putTimeoutLeak(t) ==
  /\ pc[t] = "put"
  /\ LET w == Called(t)  o == On[w] IN
     /\ o \in TimesOut /\ Len(queue[o]) >= QueueSize[o]
     /\ answer' = [answer EXCEPT ![w] = 0]
  /\ Goto(t, "run") /\ Advance(t)
  /\ UNCHANGED <<started, threadId, queue, mem, result, complete, background, runs>>

(* os_queue_put gives up on a full queue: the message is deleted, and a     *)
(* synchronous caller is given 0.                                           *)
putTimeout(t) ==
  /\ pc[t] = "put"
  /\ LET w == Called(t)  o == On[w] IN
     /\ o \in TimesOut /\ Len(queue[o]) >= QueueSize[o]
     /\ mem' = [mem EXCEPT ![w] = "freed"]
     /\ answer' = [answer EXCEPT ![w] = 0]
  /\ Goto(t, "run") /\ Advance(t)
  /\ UNCHANGED <<started, threadId, queue, result, complete, background, runs>>

(* wait_complete() *)
wait_complete(t) ==
  /\ pc[t] = "wait" /\ complete[Called(t)] = 1
  /\ complete' = [complete EXCEPT ![Called(t)] = 0]
  /\ Goto(t, "get")
  /\ UNCHANGED <<started, threadId, queue, stack, mem, result, background, runs, answer>>

(* The rest of get(), and delete future. *)
get(t) ==
  /\ pc[t] = "get"
  /\ answer' = [answer EXCEPT ![Called(t)] = result[Called(t)]]
  /\ mem' = [mem EXCEPT ![Called(t)] = "freed"]
  /\ Goto(t, "run") /\ Advance(t)
  /\ UNCHANGED <<started, threadId, queue, result, complete, background, runs>>

(* A call on the spot returns. *)
return(t) ==
  /\ AtEnd(t, "direct")
  /\ answer' = [answer EXCEPT ![Top(t).work] = Top(t).work]
  /\ Pop(t)
  /\ UNCHANGED <<started, threadId, queue, pc, mem, result, complete, background, runs>>

-----------------------------------------------------------------------------
(* The active object's side.                                                *)

(* start(): createQueue(), and then start_thread() or setCurrentThread().   *)
start(t, o) ==
  /\ AtCall(t, o) /\ threadId[o] = None
  /\ threadId' = [threadId EXCEPT ![o] = Owner[o]]
  /\ UNCHANGED <<started, queue, stack, pc, mem, result, complete, background, runs, answer>>

(* run(): the event loop begins, in a new thread or in the one that called  *)
(* start(), which does not return then.  run() and start_thread() are       *)
(* external; the mutex _start keeps the new thread from running before its  *)
(* id is set.                                                               *)
run(o) ==
  /\ ~started[o] /\ threadId[o] # None
  /\ stack[Owner[o]] = <<>> \/ AtCall(Owner[o], o)
  /\ started' = [started EXCEPT ![o] = TRUE]
  /\ stack' = [stack EXCEPT ![Owner[o]] = <<Frame(None, <<>>, "loop")>>]
  /\ UNCHANGED <<threadId, queue, pc, mem, result, complete, background, runs, answer>>

(* start_thread() returns when the new thread has set started (external). *)
start_thread(t, o) ==
  /\ AtCall(t, o) /\ started[o]
  /\ Advance(t)
  /\ UNCHANGED <<started, threadId, queue, pc, mem, result, complete, background, runs, answer>>

(* process(): take(), and the message's operator() is entered; called by    *)
(* the event loop, or from inside other code.                               *)
process(o) ==
  LET t == Owner[o] IN
  /\ started[o]
  /\ AtEnd(t, "loop") \/ AtCall(t, Process)
  /\ LET s == IF AtEnd(t, "loop") THEN stack[t] ELSE Advanced(stack[t]) IN
     IF queue[o] # <<>>
     THEN /\ Begin(t, Head(queue[o]), "task", s)
          /\ queue' = [queue EXCEPT ![o] = Tail(@)]
     ELSE /\ s # stack[t]
          /\ stack' = [stack EXCEPT ![t] = s]
          /\ UNCHANGED <<queue, runs>>
  /\ UNCHANGED <<started, threadId, pc, mem, result, complete, background, answer>>

(* The event loop finds the queue empty and runs the background task. *)
background_task(o) ==
  LET t == Owner[o] IN
  /\ started[o] /\ AtEnd(t, "loop")
  /\ queue[o] = <<>> /\ background[o] # <<>>
  /\ Push(t, Frame(None, background[o], "main"))
  /\ background' = [background EXCEPT ![o] = <<>>]
  /\ UNCHANGED <<started, threadId, queue, pc, mem, result, complete, runs, answer>>

(* A background task ends. *)
background_end(t) ==
  /\ AtEnd(t, "main") /\ Len(stack[t]) > 1
  /\ Pop(t)
  /\ UNCHANGED <<started, threadId, queue, pc, mem, result, complete, background, runs, answer>>

(* AsyncTask: invoke() is over, task_complete() deletes the task. *)
AsyncTask(t) ==
  /\ AtEnd(t, "task") /\ Top(t).work \notin Sync
  /\ mem' = [mem EXCEPT ![Top(t).work] = "freed"]
  /\ Pop(t)
  /\ UNCHANGED <<started, threadId, queue, pc, result, complete, background, runs, answer>>

(* Mutant: the caller is woken first. *)
invokeLate(t) ==
  /\ AtEnd(t, "task") /\ Top(t).work \in Sync
  /\ complete' = [complete EXCEPT ![Top(t).work] = 1]
  /\ stack' = [stack EXCEPT ![t] = Append(Front(@), [Top(t) EXCEPT !.via = "done"])]
  /\ UNCHANGED <<started, threadId, queue, pc, mem, result, background, runs, answer>>

(* SystemPromise::invoke() stores the result. *)
SystemPromise_invoke(t) ==
  /\ AtEnd(t, "task") /\ Top(t).work \in Sync
  /\ result' = [result EXCEPT ![Top(t).work] = Top(t).work]
  /\ stack' = [stack EXCEPT ![t] = Append(Front(@), [Top(t) EXCEPT !.via = "done"])]
  /\ UNCHANGED <<started, threadId, queue, pc, mem, complete, background, runs, answer>>

(* AbstractPromise::task_complete() *)
task_complete(t) ==
  /\ AtEnd(t, "done")
  /\ complete' = [complete EXCEPT ![Top(t).work] = 1]
  /\ Pop(t)
  /\ UNCHANGED <<started, threadId, queue, pc, mem, result, background, runs, answer>>

-----------------------------------------------------------------------------
aoInit ==
  /\ started = [o \in Object |-> FALSE]
  /\ threadId = [o \in Object |-> None]
  /\ queue = [o \in Object |-> <<>>]
  /\ stack = [t \in Thread |-> IF t = Boot THEN <<Frame(None, Main[t], "main")>> ELSE <<>>]
  /\ pc = [t \in Thread |-> "run"]
  /\ mem = [w \in Work |-> "none"]
  /\ result = [w \in Work |-> Garbage]
  /\ complete = [w \in Work |-> 0]
  /\ background = Background
  /\ runs = [w \in Work |-> 0]
  /\ answer = [w \in Work |-> None]

aoStep(t) ==
  \/ \E w \in Work : invoke(t, w)
  \/ put(t) \/ putTimeout(t) \/ wait_complete(t) \/ get(t) \/ return(t)
  \/ AsyncTask(t) \/ SystemPromise_invoke(t) \/ task_complete(t) \/ background_end(t)
  \/ \E o \in Object : \/ start(t, o) \/ start_thread(t, o)
                       \/ Owner[o] = t /\ (run(o) \/ process(o) \/ background_task(o))

-----------------------------------------------------------------------------
(* Properties.                                                              *)

(* The works whose task or promise some thread or queue still has a pointer *)
(* to that it will follow.                                                  *)
Referenced ==
  (UNION {Range(queue[o]) : o \in Object})
  \cup {Called(t) : t \in {u \in Thread : pc[u] \in {"put", "wait", "get"}}}
  \cup (UNION {{stack[t][i].work : i \in {j \in DOMAIN stack[t] : stack[t][j].via \in {"task", "done"}}}
               : t \in Thread})

(* A message is neither used after it was deleted nor forgotten: whoever    *)
(* holds a pointer to it that will be followed finds it allocated, and a    *)
(* message nobody points to has been deleted.  The caller of a synchronous  *)
(* call deletes the promise, an asynchronous task deletes itself, and a     *)
(* refused one is deleted by its sender.                                    *)
MessagesOwned == {w \in Work : mem[w] = "live"} = Referenced

(* What a caller is told is true: a call answered with 0 by a full queue    *)
(* has not run and will not; any other answer is the result of the very     *)
(* function called, which ran once, before the answer was given.            *)
AnswersAreTrue ==
  \A w \in Work : \/ answer[w] = None /\ runs[w] <= 1
                  \/ answer[w] = 0 /\ runs[w] = 0 /\ w \notin Referenced
                  \/ answer[w] = w /\ runs[w] = 1

(* The threads that are executing work of an object. *)
Executing(o) == {t \in Thread : \E i \in DOMAIN stack[t] : stack[t][i].work \in {w \in Work : On[w] = o}}

(* Two threads are never inside work of the same object.  It would be so if *)
(* calls were executed "on the system thread", as the comments in           *)
(* system_threading.h have it, and is not when a thread that does not start *)
(* the object calls it before it was started (SerialisedIfBootCallsFirst).  *)
WorkIsSerialised ==
  \A o \in Object : \A t, u \in Executing(o) : t = u

=============================================================================
