---------------------------- MODULE Threads_proofs ----------------------------
(***************************************************************************)
(* Proofs about the active objects, the timer and the thread of Threads, for*)
(* every set of threads, objects and programs in which each work is called  *)
(* from one place (OnceAssumption).                                         *)
(***************************************************************************)
EXTENDS Threads, TLAPS

-----------------------------------------------------------------------------
(* The inductive invariant.                                                 *)

(* Types, more closely than TypeOK. *)
Calling == {"put", "wait", "get"}
Base == {"main", "loop", "callback"}
Executes == {"direct", "task", "done"}
Frames == [work : Work \cup {None}, left : Seq(Item),
           via : {"main", "loop", "direct", "task", "done", "callback"}]

PCs == {"run", "put", "wait", "get", "invoke", "disposing", "destroy", "join", "cleanup"}
StackType == stack \in [Thread -> Seq(Frames)] /\ pc \in [Thread -> PCs]
QueueType == queue \in [Object -> Seq(Work)] /\ \A o \in Object : Len(queue[o]) <= QueueSize[o]
MessageType ==
  /\ mem \in [Work -> {"none", "live", "freed"}]
  /\ complete \in [Work -> 0 .. 1] /\ runs \in [Work -> Nat]
  /\ result \in [Work -> Work \cup {Garbage}]
  /\ answer \in [Work -> Work \cup {0, None}]
ObjectType ==
  /\ started \in [Object -> BOOLEAN] /\ threadId \in [Object -> Thread \cup {None}]
  /\ background \in [Object -> Seq(Item)]
TimerType ==
  /\ timer \in [handle : BOOLEAN, active : BOOLEAN, running : BOOLEAN, left : 0 .. MaxExpiries]
  /\ thread \in [handle : BOOLEAN, exited : BOOLEAN, ended : BOOLEAN, cleaned : BOOLEAN]
TypeInv == StackType /\ QueueType /\ MessageType /\ ObjectType /\ TimerType

(* A thread inside a call is at the item it calls; the bottom of a stack is *)
(* the thread's own code, and objects are started from there.               *)
FrameShape(t, i, f) ==
  /\ f.via \in Base <=> f.work = None
  /\ i = 1 => f.via \in Base
  /\ \A k \in DOMAIN f.left : f.left[k] \in Object => t = Boot /\ i = 1
PcShape(t) ==
  /\ pc[t] \notin {"run", "invoke"} => stack[t] # <<>> /\ Top(t).left # <<>>
  /\ pc[t] = "invoke" => t = Service /\ stack[t] # <<>>
  /\ pc[t] \in Calling => Called(t) \in Work
ShapeInv ==
  \A t \in Thread : PcShape(t) /\ \A i \in DOMAIN stack[t] : FrameShape(t, i, stack[t][i])

(* The Thread object's thread. *)
Created == thread.handle \/ thread.cleaned
UserInv ==
  /\ ~Created => stack[User] = <<>> /\ ~thread.exited
  /\ \A i \in DOMAIN stack[User] : i > 1 => stack[User][i].via \notin Base
  /\ thread.exited /\ ~thread.ended =>
       Len(stack[User]) = 1 /\ stack[User][1].via \in Base /\ stack[User][1].left = <<>>

(* Who waits for the thread waits for one that was created. *)
JoinInv == \A t \in Thread : pc[t] \in {"join", "cleanup"} => Created

(* A queue holds the works of its object, each once. *)
QueueInv ==
  \A o \in Object : \A k \in DOMAIN queue[o] :
    /\ On[queue[o][k]] = o
    /\ \A l \in DOMAIN queue[o] : queue[o][k] = queue[o][l] => k = l

(* Who has a pointer to the message of work w: the thread t calling it, a   *)
(* queue, a frame executing it (or, not a pointer, executing it directly).  *)
CallAt(t, l, w) == pc[t] = l /\ Called(t) = w
FrameAt(t, i, v, w) == i \in DOMAIN stack[t] /\ stack[t][i].via = v /\ stack[t][i].work = w
Calls(l, w) == \E t \in Thread : CallAt(t, l, w)
Queued(w) == \E o \in Object : \E k \in DOMAIN queue[o] : queue[o][k] = w
Framed(v, w) == \E t \in Thread : \E i \in Nat : FrameAt(t, i, v, w)

OneCaller(w) == \A t, u \in Thread : \A l, m \in Calling : CallAt(t, l, w) /\ CallAt(u, m, w) => t = u
OneFrame(w) ==
  \A t, u \in Thread : \A i, j \in Nat : \A a, b \in Executes :
    FrameAt(t, i, a, w) /\ FrameAt(u, j, b, w) => t = u /\ i = j

(* The life of a message, by who has it. *)
Held(w) == mem[w] = "live" /\ answer[w] = None
Putting(w) == Calls("put", w) =>
  /\ Held(w) /\ runs[w] = 0 /\ complete[w] = 0
  /\ ~Queued(w) /\ ~Framed("task", w) /\ ~Framed("done", w)
Waiting(w) == Calls("wait", w) =>
  /\ Held(w) /\ w \in Sync
  /\ Queued(w) \/ Framed("task", w) \/ Framed("done", w) \/ complete[w] = 1
Getting(w) == Calls("get", w) =>
  /\ Held(w) /\ w \in Sync /\ runs[w] = 1 /\ result[w] = w /\ complete[w] = 0
  /\ ~Queued(w) /\ ~Framed("task", w) /\ ~Framed("done", w)
InQueue(w) == Queued(w) =>
  /\ Held(w) /\ runs[w] = 0 /\ complete[w] = 0
  /\ ~Framed("task", w) /\ ~Framed("done", w)
  /\ w \in Sync <=> Calls("wait", w)
InTask(w) == Framed("task", w) =>
  /\ Held(w) /\ runs[w] = 1 /\ complete[w] = 0
  /\ w \in Sync <=> Calls("wait", w)
InDone(w) == Framed("done", w) =>
  /\ Held(w) /\ runs[w] = 1 /\ complete[w] = 0 /\ result[w] = w
  /\ Calls("wait", w)
Complete(w) == complete[w] = 1 =>
  /\ Calls("wait", w) /\ runs[w] = 1 /\ result[w] = w
  /\ ~Queued(w) /\ ~Framed("task", w) /\ ~Framed("done", w)
Direct(w) == Framed("direct", w) => runs[w] = 1 /\ mem[w] = "none" /\ answer[w] = None
Owned(w) == mem[w] = "live" =>
  \/ \E l \in Calling : Calls(l, w)
  \/ Queued(w) \/ Framed("task", w) \/ Framed("done", w)
Answered(w) == \/ answer[w] = None /\ runs[w] <= 1
               \/ answer[w] = 0 /\ runs[w] = 0 /\ mem[w] = "freed"
               \/ answer[w] = w /\ runs[w] = 1 /\ mem[w] # "live"

LifeInv(w) ==
  /\ OneCaller(w) /\ OneFrame(w)
  /\ Putting(w) /\ Waiting(w) /\ Getting(w)
  /\ InQueue(w) /\ InTask(w) /\ InDone(w) /\ Complete(w)
  /\ Direct(w) /\ Owned(w) /\ Answered(w)
MessageInv == \A w \in Work : LifeInv(w)

(* Each work is ahead at most once: in what is left of a frame, or in a     *)
(* program that has not begun; and until it is called nothing was done.     *)
LeftAt(t, i, k, x) ==
  i \in DOMAIN stack[t] /\ k \in DOMAIN stack[t][i].left /\ stack[t][i].left[k] = x
Begun(a) == CASE a[1] = "body" -> runs[a[2]] > 0
              [] a[1] = "main" -> a[2] = Boot \/ Created
              [] a[1] = "background" -> background[a[2]] = <<>>
              [] OTHER -> timer.left = 0
Ahead(a, x) == ~Begun(a) /\ \E k \in DOMAIN Program(a) : Program(a)[k] = x
Fresh(x) == IF x = "create" THEN ~Created ELSE mem[x] = "none" /\ runs[x] = 0
AtHead(t, i, k) == pc[t] \in Calling /\ i = Len(stack[t]) /\ k = 1

OnePlace == \A x \in Once : \A t, u \in Thread : \A i, j, k, l \in Nat :
              LeftAt(t, i, k, x) /\ LeftAt(u, j, l, x) => t = u /\ i = j /\ k = l
NotAhead == \A x \in Once : \A t \in Thread : \A i, k \in Nat : \A a \in Origin :
              LeftAt(t, i, k, x) => ~Ahead(a, x)
LeftFresh == \A x \in Once : \A t \in Thread : \A i, k \in Nat :
               LeftAt(t, i, k, x) /\ ~AtHead(t, i, k) => Fresh(x)
AheadFresh == \A x \in Once : \A a \in Origin : Ahead(a, x) => Fresh(x)
BackgroundInv == \A o \in Object : background[o] \in {<<>>, Background[o]}
OnceInv == OnePlace /\ NotAhead /\ LeftFresh /\ AheadFresh /\ BackgroundInv

(* An object's id is set while the first thread is starting it; its work is *)
(* on the first thread before, and on its own afterwards.                   *)
StartInv ==
  \A o \in Object :
    /\ threadId[o] \in {None, Owner[o]}
    /\ started[o] => threadId[o] = Owner[o]
    /\ threadId[o] # None /\ ~started[o] => AtCall(Boot, o)
PlaceInv ==
  \A o \in Object : Executing(o) \subseteq {IF started[o] THEN Owner[o] ELSE Boot}

IInv == TypeInv /\ ShapeInv /\ UserInv /\ JoinInv /\ QueueInv /\ MessageInv /\ OnceInv /\ StartInv

-----------------------------------------------------------------------------
(* Lemmas on stacks.                                                        *)

(* The top of a stack. *)
LEMMA TopFacts ==
  ASSUME NEW s \in Seq(Frames), s # <<>>
  PROVE  /\ Len(s) \in Nat /\ Len(s) >= 1 /\ DOMAIN s = 1 .. Len(s)
         /\ Len(s) \in DOMAIN s
         /\ Last(s) = s[Len(s)] /\ Last(s) \in Frames
  BY DEF Last

(* A frame is a record of its three fields. *)
LEMMA FrameFacts ==
  ASSUME NEW f \in Frames
  PROVE  /\ f.work \in Work \cup {None} /\ f.left \in Seq(Item)
         /\ f.via \in {"main", "loop", "direct", "task", "done", "callback"}
  BY DEF Frames

LEMMA NewFrame ==
  ASSUME NEW w \in Work \cup {None}, NEW p \in Seq(Item),
         NEW v \in {"main", "loop", "direct", "task", "done", "callback"}
  PROVE  /\ Frame(w, p, v) \in Frames
         /\ Frame(w, p, v).work = w /\ Frame(w, p, v).left = p /\ Frame(w, p, v).via = v
  BY DEF Frames, Frame

(* What is left when the top is taken away. *)
LEMMA FrontFacts ==
  ASSUME NEW s \in Seq(Frames), s # <<>>
  PROVE  /\ Front(s) \in Seq(Frames) /\ Len(Front(s)) = Len(s) - 1
         /\ DOMAIN Front(s) = 1 .. Len(s) - 1
         /\ \A i \in 1 .. Len(s) - 1 : Front(s)[i] = s[i]
<1>1. Len(s) - 1 \in Nat /\ Len(s) \in Nat
  BY TopFacts
<1>2. Front(s) \in Seq(Frames) /\ Len(Front(s)) = Len(s) - 1
  <2>1. \A i \in 1 .. Len(s) - 1 : s[i] \in Frames
    BY <1>1
  <2>2. Front(s) = [i \in 1 .. Len(s) - 1 |-> s[i]]
    BY <1>1 DEF Front
  <2> QED
    BY <1>1, <2>1, <2>2
<1>3. \A i \in 1 .. Len(s) - 1 : Front(s)[i] = s[i]
  BY <1>1 DEF Front
<1> QED
  BY <1>1, <1>2, <1>3

(* A stack with one frame more. *)
LEMMA PushFacts ==
  ASSUME NEW s \in Seq(Frames), NEW f \in Frames
  PROVE  /\ Append(s, f) \in Seq(Frames) /\ Len(Append(s, f)) = Len(s) + 1
         /\ DOMAIN Append(s, f) = 1 .. Len(s) + 1 /\ Len(s) \in Nat
         /\ \A i \in 1 .. Len(s) : Append(s, f)[i] = s[i]
         /\ Append(s, f)[Len(s) + 1] = f
  OBVIOUS

(* The top replaced. *)
LEMMA ReplaceFacts ==
  ASSUME NEW s \in Seq(Frames), s # <<>>, NEW f \in Frames
  PROVE  /\ Append(Front(s), f) \in Seq(Frames) /\ Len(Append(Front(s), f)) = Len(s)
         /\ DOMAIN Append(Front(s), f) = DOMAIN s
         /\ \A i \in DOMAIN s : Append(Front(s), f)[i] = IF i = Len(s) THEN f ELSE s[i]
<1>1. /\ Front(s) \in Seq(Frames) /\ Len(Front(s)) = Len(s) - 1
      /\ \A i \in 1 .. Len(s) - 1 : Front(s)[i] = s[i]
  BY FrontFacts
<1>2. Len(s) \in Nat /\ Len(s) >= 1 /\ DOMAIN s = 1 .. Len(s)
  BY TopFacts
<1>3. /\ Append(Front(s), f) \in Seq(Frames) /\ Len(Append(Front(s), f)) = Len(s) - 1 + 1
      /\ DOMAIN Append(Front(s), f) = 1 .. Len(s) - 1 + 1
      /\ \A i \in 1 .. Len(s) - 1 : Append(Front(s), f)[i] = Front(s)[i]
      /\ Append(Front(s), f)[Len(s) - 1 + 1] = f
  BY <1>1, PushFacts
<1> QED
  BY <1>1, <1>2, <1>3

(* The tail of a program: its items, one place earlier. *)
LEMMA TailFacts ==
  ASSUME NEW p \in Seq(Item), p # <<>>
  PROVE  /\ Tail(p) \in Seq(Item) /\ Head(p) = p[1] /\ 1 \in DOMAIN p /\ Head(p) \in Item
         /\ \A k \in DOMAIN Tail(p) : k \in Nat /\ k >= 1 /\ k + 1 \in DOMAIN p /\ Tail(p)[k] = p[k + 1]
  OBVIOUS

(* Advancing changes what is left of the top frame and nothing else. *)
LEMMA AdvancedFacts ==
  ASSUME NEW s \in Seq(Frames), s # <<>>, Last(s).left # <<>>
  PROVE  /\ Advanced(s) \in Seq(Frames) /\ Len(Advanced(s)) = Len(s)
         /\ DOMAIN Advanced(s) = DOMAIN s
         /\ \A i \in DOMAIN s :
              /\ Advanced(s)[i].work = s[i].work /\ Advanced(s)[i].via = s[i].via
              /\ Advanced(s)[i].left = IF i = Len(s) THEN Tail(s[i].left) ELSE s[i].left
<1> DEFINE f == [Last(s) EXCEPT !.left = Tail(@)]
<1>1. Last(s) \in Frames /\ Last(s) = s[Len(s)]
  BY TopFacts
<1>2. Tail(Last(s).left) \in Seq(Item)
  BY <1>1, FrameFacts, TailFacts
<1>3. /\ f \in Frames /\ f.work = Last(s).work /\ f.via = Last(s).via
      /\ f.left = Tail(Last(s).left)
  BY <1>1, <1>2 DEF Frames
<1>4. Advanced(s) = Append(Front(s), f)
  BY DEF Advanced
<1> HIDE DEF f
<1>5. /\ Advanced(s) \in Seq(Frames) /\ Len(Advanced(s)) = Len(s)
      /\ DOMAIN Advanced(s) = DOMAIN s
      /\ \A i \in DOMAIN s : Advanced(s)[i] = IF i = Len(s) THEN f ELSE s[i]
  BY <1>3, <1>4, ReplaceFacts
<1> QED
  BY <1>1, <1>3, <1>5

-----------------------------------------------------------------------------
(* What the steps do to stacks, by kind.                                    *)

InCode(t) == stack[t] # <<>> /\ Top(t).left # <<>>

Advances(t) == /\ InCode(t)
               /\ stack' = [stack EXCEPT ![t] = Advanced(@)]
               /\ pc' = [pc EXCEPT ![t] = "run"]
Moves(t, l) == InCode(t) /\ stack' = stack /\ pc' = [pc EXCEPT ![t] = l]
Pushes(t, s, f) == /\ pc[t] = "run" /\ pc' = pc
                   /\ s = stack[t] \/ (InCode(t) /\ s = Advanced(stack[t]))
                   /\ stack' = [stack EXCEPT ![t] = Append(s, f)]
Pops(t) == /\ pc[t] = "run" /\ pc' = pc
           /\ stack[t] # <<>>
           /\ stack' = [stack EXCEPT ![t] = Front(@)]

(* The top of a stack in code. *)
LEMMA InCodeFacts ==
  ASSUME StackType, NEW t \in Thread, InCode(t)
  PROVE  /\ stack[t] \in Seq(Frames) /\ stack[t] # <<>> /\ Last(stack[t]).left # <<>>
         /\ Len(stack[t]) \in DOMAIN stack[t] /\ Len(stack[t]) \in Nat /\ Len(stack[t]) >= 1
         /\ Top(t) = stack[t][Len(stack[t])] /\ Top(t).left \in Seq(Item)
         /\ Called(t) = Top(t).left[1] /\ 1 \in DOMAIN Top(t).left /\ Called(t) \in Item
<1>1. stack[t] \in Seq(Frames) /\ stack[t] # <<>> /\ Last(stack[t]).left # <<>>
  BY DEF StackType, InCode, Top
<1>2. /\ Len(stack[t]) \in DOMAIN stack[t] /\ Len(stack[t]) \in Nat /\ Len(stack[t]) >= 1
      /\ Top(t) = stack[t][Len(stack[t])] /\ Top(t) \in Frames
  BY <1>1, TopFacts DEF Top
<1>3. Top(t).left \in Seq(Item) /\ Top(t).left # <<>>
  BY <1>1, <1>2, FrameFacts DEF InCode
<1> QED
  BY <1>1, <1>2, <1>3, TailFacts DEF Called

(* Advancing: the caller t calls no more, the frames stay, and what is left *)
(* of the top moves up by one.                                              *)
LEMMA AdvancesFacts ==
  ASSUME StackType, NEW t \in Thread, Advances(t)
  PROVE  /\ StackType'
         /\ \A u \in Thread : u # t => stack'[u] = stack[u] /\ pc'[u] = pc[u]
         /\ stack'[t] = Advanced(stack[t]) /\ pc'[t] = "run"
         /\ \A u \in Thread : Len(stack'[u]) = Len(stack[u]) /\ DOMAIN stack'[u] = DOMAIN stack[u]
         /\ \A u \in Thread : \A i \in DOMAIN stack[u] :
              /\ stack'[u][i].work = stack[u][i].work /\ stack'[u][i].via = stack[u][i].via
              /\ stack'[u][i].left = IF u = t /\ i = Len(stack[t]) THEN Tail(stack[u][i].left)
                                                                   ELSE stack[u][i].left
<1>1. stack[t] \in Seq(Frames) /\ stack[t] # <<>> /\ Last(stack[t]).left # <<>>
  BY InCodeFacts DEF Advances
<1>2. /\ Advanced(stack[t]) \in Seq(Frames) /\ Len(Advanced(stack[t])) = Len(stack[t])
      /\ DOMAIN Advanced(stack[t]) = DOMAIN stack[t]
      /\ \A i \in DOMAIN stack[t] :
           /\ Advanced(stack[t])[i].work = stack[t][i].work
           /\ Advanced(stack[t])[i].via = stack[t][i].via
           /\ Advanced(stack[t])[i].left = IF i = Len(stack[t]) THEN Tail(stack[t][i].left)
                                                                ELSE stack[t][i].left
  BY <1>1, AdvancedFacts
<1>3. /\ \A u \in Thread : u # t => stack'[u] = stack[u] /\ pc'[u] = pc[u]
      /\ stack'[t] = Advanced(stack[t]) /\ pc'[t] = "run"
  BY DEF Advances, StackType
<1>4. StackType'
  BY <1>2 DEF Advances, StackType, PCs
<1> QED
  BY <1>2, <1>3, <1>4

(* Moving on within a call: only pc. *)
LEMMA MovesFacts ==
  ASSUME StackType, NEW t \in Thread, NEW l \in PCs, Moves(t, l)
  PROVE  /\ StackType' /\ stack' = stack /\ pc'[t] = l
         /\ \A u \in Thread : u # t => pc'[u] = pc[u]
  BY DEF StackType, Moves

(* Pushing a frame, perhaps after advancing. *)
LEMMA PushesFacts ==
  ASSUME StackType, NEW t \in Thread, NEW s, NEW f \in Frames, Pushes(t, s, f)
  PROVE  /\ StackType' /\ pc' = pc /\ pc[t] = "run"
         /\ \A u \in Thread : u # t => stack'[u] = stack[u]
         /\ Len(stack[t]) \in Nat /\ DOMAIN stack[t] = 1 .. Len(stack[t])
         /\ Len(stack'[t]) = Len(stack[t]) + 1 /\ DOMAIN stack'[t] = 1 .. Len(stack[t]) + 1
         /\ stack'[t][Len(stack[t]) + 1] = f
         /\ \A i \in DOMAIN stack[t] :
              /\ stack'[t][i].work = stack[t][i].work /\ stack'[t][i].via = stack[t][i].via
              /\ stack'[t][i].left = IF i = Len(stack[t]) /\ s # stack[t] THEN Tail(stack[t][i].left)
                                                                          ELSE stack[t][i].left
<1>1. stack[t] \in Seq(Frames)
  BY DEF StackType
<1>2. Len(stack[t]) \in Nat /\ DOMAIN stack[t] = 1 .. Len(stack[t])
  BY <1>1
<1>3. /\ s \in Seq(Frames) /\ Len(s) = Len(stack[t])
      /\ \A i \in DOMAIN stack[t] :
           /\ s[i].work = stack[t][i].work /\ s[i].via = stack[t][i].via
           /\ s[i].left = IF i = Len(stack[t]) /\ s # stack[t] THEN Tail(stack[t][i].left)
                                                               ELSE stack[t][i].left
  <2>1. CASE s = stack[t]
    BY <2>1, <1>1
  <2>2. CASE s # stack[t]
    <3>1. InCode(t) /\ s = Advanced(stack[t])
      BY <2>2 DEF Pushes
    <3>2. stack[t] # <<>> /\ Last(stack[t]).left # <<>>
      BY <3>1, InCodeFacts
    <3> QED
      BY <1>1, <2>2, <3>1, <3>2, AdvancedFacts
  <2> QED
    BY <2>1, <2>2
<1>4. /\ Append(s, f) \in Seq(Frames) /\ Len(Append(s, f)) = Len(stack[t]) + 1
      /\ DOMAIN Append(s, f) = 1 .. Len(stack[t]) + 1
      /\ \A i \in 1 .. Len(stack[t]) : Append(s, f)[i] = s[i]
      /\ Append(s, f)[Len(stack[t]) + 1] = f
  BY <1>3, PushFacts
<1>5. /\ stack'[t] = Append(s, f) /\ pc' = pc /\ pc[t] = "run"
      /\ \A u \in Thread : u # t => stack'[u] = stack[u]
  BY DEF Pushes, StackType
<1>6. StackType'
  BY <1>4 DEF Pushes, StackType
<1>7. \A i \in DOMAIN stack[t] : stack'[t][i] = s[i]
  BY <1>2, <1>4, <1>5
<1> QED
  BY <1>2, <1>3, <1>4, <1>5, <1>6, <1>7

(* Popping the top frame. *)
LEMMA PopsFacts ==
  ASSUME StackType, NEW t \in Thread, Pops(t)
  PROVE  /\ StackType' /\ pc' = pc /\ pc[t] = "run" /\ stack[t] # <<>>
         /\ \A u \in Thread : u # t => stack'[u] = stack[u]
         /\ Len(stack[t]) \in Nat /\ Len(stack[t]) >= 1 /\ DOMAIN stack[t] = 1 .. Len(stack[t])
         /\ Len(stack'[t]) = Len(stack[t]) - 1 /\ DOMAIN stack'[t] = 1 .. Len(stack[t]) - 1
         /\ \A i \in DOMAIN stack'[t] : i \in DOMAIN stack[t] /\ stack'[t][i] = stack[t][i]
<1>1. stack[t] \in Seq(Frames) /\ stack[t] # <<>>
  BY DEF StackType, Pops
<1>2. Len(stack[t]) \in Nat /\ Len(stack[t]) >= 1 /\ DOMAIN stack[t] = 1 .. Len(stack[t])
  BY <1>1, TopFacts
<1>3. /\ stack'[t] = Front(stack[t]) /\ pc' = pc /\ pc[t] = "run"
      /\ \A u \in Thread : u # t => stack'[u] = stack[u]
  BY DEF Pops, StackType
<1>4. /\ Front(stack[t]) \in Seq(Frames) /\ Len(Front(stack[t])) = Len(stack[t]) - 1
      /\ DOMAIN Front(stack[t]) = 1 .. Len(stack[t]) - 1
      /\ \A i \in 1 .. Len(stack[t]) - 1 : Front(stack[t])[i] = stack[t][i]
  BY <1>1, FrontFacts
<1>5. StackType'
  BY <1>4 DEF Pops, StackType
<1> QED
  BY <1>1, <1>2, <1>3, <1>4, <1>5

-----------------------------------------------------------------------------
(* The shape of stacks is kept by each kind of step.                        *)

(* Threads that do not move keep their shape. *)
LEMMA ShapeOther ==
  ASSUME ShapeInv, NEW u \in Thread, stack'[u] = stack[u], pc'[u] = pc[u]
  PROVE  PcShape(u)' /\ \A i \in DOMAIN stack'[u] : FrameShape(u, i, stack'[u][i])
<1>1. PcShape(u) /\ \A i \in DOMAIN stack[u] : FrameShape(u, i, stack[u][i])
  BY DEF ShapeInv
<1>2. PcShape(u)'
  BY <1>1 DEF PcShape, Called, Top
<1> QED
  BY <1>1, <1>2

LEMMA ShapeFrom ==
  ASSUME ShapeInv, NEW t \in Thread, PcShape(t)',
         \A i \in DOMAIN stack'[t] : FrameShape(t, i, stack'[t][i]),
         \A u \in Thread : u # t => stack'[u] = stack[u] /\ pc'[u] = pc[u]
  PROVE  ShapeInv'
<1>1. ASSUME NEW u \in Thread
      PROVE  PcShape(u)' /\ \A i \in DOMAIN stack'[u] : FrameShape(u, i, stack'[u][i])
  <2>1. CASE u = t
    BY <2>1
  <2>2. CASE u # t
    BY <2>2, ShapeOther
  <2> QED
    BY <2>1, <2>2
<1>2. (\A u \in Thread : PcShape(u) /\ \A i \in DOMAIN stack[u] : FrameShape(u, i, stack[u][i]))'
  BY <1>1 DEF FrameShape
<1> QED
  BY <1>2 DEF ShapeInv

LEMMA ShapeAdvances ==
  ASSUME StackType, ShapeInv, NEW t \in Thread, Advances(t)
  PROVE  ShapeInv'
<1>0. StackType'
  BY AdvancesFacts
<1>1. \A u \in Thread : u # t => stack'[u] = stack[u] /\ pc'[u] = pc[u]
  BY AdvancesFacts
<1>2. pc'[t] = "run"
  BY AdvancesFacts
<1>3. PcShape(t)'
  BY <1>2 DEF PcShape, Calling
<1>4. ASSUME NEW i \in DOMAIN stack'[t] PROVE FrameShape(t, i, stack'[t][i])
  <2>1. i \in DOMAIN stack[t] /\ FrameShape(t, i, stack[t][i])
    BY AdvancesFacts DEF ShapeInv
  <2>2. /\ stack'[t][i].work = stack[t][i].work /\ stack'[t][i].via = stack[t][i].via
        /\ stack'[t][i].left = IF i = Len(stack[t]) THEN Tail(stack[t][i].left)
                                                    ELSE stack[t][i].left
    BY <2>1, AdvancesFacts
  <2>3. InCode(t)
    BY DEF Advances
  <2>4. \A k \in DOMAIN stack'[t][i].left :
          \E l \in DOMAIN stack[t][i].left : stack'[t][i].left[k] = stack[t][i].left[l]
    <3>1. CASE i = Len(stack[t])
      <4>1. stack[t][i].left \in Seq(Item) /\ stack[t][i].left # <<>>
        BY <3>1, <2>3, InCodeFacts DEF InCode
      <4> QED
        BY <4>1, <3>1, <2>2, TailFacts
    <3>2. CASE i # Len(stack[t])
      BY <3>2, <2>2
    <3> QED
      BY <3>1, <3>2
  <2> QED
    BY <2>1, <2>2, <2>4 DEF FrameShape
<1> QED
  BY <1>1, <1>3, <1>4, ShapeFrom

LEMMA ShapeMoves ==
  ASSUME StackType, ShapeInv, NEW t \in Thread, NEW l \in PCs \ {"invoke"}, Moves(t, l),
         l \in Calling => Called(t) \in Work
  PROVE  ShapeInv'
<1>1. stack' = stack /\ pc'[t] = l /\ \A u \in Thread : u # t => pc'[u] = pc[u]
  BY MovesFacts
<1>2. PcShape(t)'
  BY <1>1 DEF PcShape, Called, Top, Moves, InCode
<1>3. \A i \in DOMAIN stack'[t] : FrameShape(t, i, stack'[t][i])
  BY <1>1 DEF ShapeInv
<1> QED
  BY <1>1, <1>2, <1>3, ShapeFrom

LEMMA ShapePushes ==
  ASSUME StackType, ShapeInv, NEW t \in Thread, NEW s, NEW f \in Frames, Pushes(t, s, f),
         FrameShape(t, Len(stack[t]) + 1, f)
  PROVE  ShapeInv'
<1>1. \A u \in Thread : u # t => stack'[u] = stack[u] /\ pc'[u] = pc[u]
  BY PushesFacts
<1>2. pc'[t] = "run"
  BY PushesFacts
<1>3. PcShape(t)'
  BY <1>2 DEF PcShape, Calling
<1>4. ASSUME NEW i \in DOMAIN stack'[t] PROVE FrameShape(t, i, stack'[t][i])
  <2>0. /\ DOMAIN stack'[t] = 1 .. Len(stack[t]) + 1 /\ DOMAIN stack[t] = 1 .. Len(stack[t])
        /\ Len(stack[t]) \in Nat
    BY PushesFacts
  <2>1. CASE i = Len(stack[t]) + 1
    BY <2>1, PushesFacts
  <2>2. CASE i # Len(stack[t]) + 1
    <3>1. i \in DOMAIN stack[t] /\ FrameShape(t, i, stack[t][i])
      BY <2>0, <2>2 DEF ShapeInv
    <3>2. /\ stack'[t][i].work = stack[t][i].work /\ stack'[t][i].via = stack[t][i].via
          /\ stack'[t][i].left = IF i = Len(stack[t]) /\ s # stack[t] THEN Tail(stack[t][i].left)
                                                                      ELSE stack[t][i].left
      BY <3>1, PushesFacts
    <3>3. \A k \in DOMAIN stack'[t][i].left :
            \E l \in DOMAIN stack[t][i].left : stack'[t][i].left[k] = stack[t][i].left[l]
      <4>1. CASE i = Len(stack[t]) /\ s # stack[t]
        <5>1. InCode(t)
          BY <4>1 DEF Pushes
        <5>2. stack[t][i].left \in Seq(Item) /\ stack[t][i].left # <<>>
          BY <4>1, <5>1, InCodeFacts DEF InCode
        <5> QED
          BY <4>1, <5>2, <3>2, TailFacts
      <4>2. CASE ~(i = Len(stack[t]) /\ s # stack[t])
        BY <4>2, <3>2
      <4> QED
        BY <4>1, <4>2
    <3> QED
      BY <3>1, <3>2, <3>3 DEF FrameShape
  <2> QED
    BY <2>1, <2>2
<1> QED
  BY <1>1, <1>3, <1>4, ShapeFrom

LEMMA ShapePops ==
  ASSUME StackType, ShapeInv, NEW t \in Thread, Pops(t)
  PROVE  ShapeInv'
<1>1. \A u \in Thread : u # t => stack'[u] = stack[u] /\ pc'[u] = pc[u]
  BY PopsFacts
<1>2. pc'[t] = "run"
  BY PopsFacts
<1>3. PcShape(t)'
  BY <1>2 DEF PcShape, Calling
<1>4. ASSUME NEW i \in DOMAIN stack'[t] PROVE FrameShape(t, i, stack'[t][i])
  <2>1. i \in DOMAIN stack[t] /\ stack'[t][i] = stack[t][i]
    BY PopsFacts
  <2> QED
    BY <2>1 DEF ShapeInv
<1> QED
  BY <1>1, <1>3, <1>4, ShapeFrom

(* A thread whose stack is replaced by at most one frame, of its own code. *)
LEMMA ShapeReplaced ==
  ASSUME StackType, ShapeInv, NEW t \in Thread, NEW s, pc[t] = "run", pc' = pc,
         stack' = [stack EXCEPT ![t] = s],
         s = <<>> \/ \E f \in Frames : s = <<f>> /\ FrameShape(t, 1, f)
  PROVE  ShapeInv' /\ StackType'
<1>1. stack'[t] = s /\ \A u \in Thread : u # t => stack'[u] = stack[u] /\ pc'[u] = pc[u]
  BY DEF StackType
<1>2. PcShape(t)'
  BY DEF PcShape, Calling
<1>3. \A i \in DOMAIN stack'[t] : FrameShape(t, i, stack'[t][i])
  <2>1. CASE s = <<>>
    BY <1>1, <2>1
  <2>2. CASE \E f \in Frames : s = <<f>> /\ FrameShape(t, 1, f)
    <3>1. PICK f \in Frames : s = <<f>> /\ FrameShape(t, 1, f)
      BY <2>2
    <3>2. DOMAIN s = {1} /\ s[1] = f
      BY <3>1
    <3> QED
      BY <1>1, <3>1, <3>2
  <2> QED
    BY <2>1, <2>2
<1>4. s \in Seq(Frames)
  <2>1. CASE s = <<>>
    BY <2>1
  <2>2. CASE \E f \in Frames : s = <<f>>
    BY <2>2
  <2> QED
    BY <2>1, <2>2
<1> QED
  BY <1>1, <1>2, <1>3, <1>4, ShapeFrom DEF StackType

-----------------------------------------------------------------------------
(* Who calls and who executes a work, after each kind of step.              *)

LEMMA CallsAdvances ==
  ASSUME StackType, NEW t \in Thread, Advances(t)
  PROVE  /\ \A u \in Thread : \A l \in Calling : \A w :
              CallAt(u, l, w)' <=> u # t /\ CallAt(u, l, w)
         /\ \A u \in Thread : \A i \in Nat : \A v, w : FrameAt(u, i, v, w)' <=> FrameAt(u, i, v, w)
<1>1. /\ \A u \in Thread : u # t => stack'[u] = stack[u] /\ pc'[u] = pc[u]
      /\ pc'[t] = "run"
  BY AdvancesFacts
<1>2. ASSUME NEW u \in Thread, NEW l \in Calling, NEW w
      PROVE  CallAt(u, l, w)' <=> u # t /\ CallAt(u, l, w)
  BY <1>1 DEF CallAt, Called, Top, Calling
<1>3. ASSUME NEW u \in Thread, NEW i \in Nat, NEW v, NEW w
      PROVE  FrameAt(u, i, v, w)' <=> FrameAt(u, i, v, w)
  <2>1. /\ DOMAIN stack'[u] = DOMAIN stack[u]
        /\ i \in DOMAIN stack[u] => /\ stack'[u][i].work = stack[u][i].work
                                    /\ stack'[u][i].via = stack[u][i].via
    BY AdvancesFacts
  <2> QED
    BY <2>1 DEF FrameAt
<1> QED
  BY <1>2, <1>3

LEMMA CallsMoves ==
  ASSUME StackType, NEW t \in Thread, NEW l \in PCs, Moves(t, l)
  PROVE  /\ \A u \in Thread : \A m \in Calling : \A w :
              CallAt(u, m, w)' <=> IF u = t THEN m = l /\ Called(t) = w ELSE CallAt(u, m, w)
         /\ \A u \in Thread : \A i \in Nat : \A v, w : FrameAt(u, i, v, w)' <=> FrameAt(u, i, v, w)
<1>1. stack' = stack /\ pc'[t] = l /\ \A u \in Thread : u # t => pc'[u] = pc[u]
  BY MovesFacts
<1>2. ASSUME NEW u \in Thread, NEW m \in Calling, NEW w
      PROVE  CallAt(u, m, w)' <=> IF u = t THEN m = l /\ Called(t) = w ELSE CallAt(u, m, w)
  BY <1>1 DEF CallAt, Called, Top
<1>3. ASSUME NEW u \in Thread, NEW i \in Nat, NEW v, NEW w
      PROVE  FrameAt(u, i, v, w)' <=> FrameAt(u, i, v, w)
  BY <1>1 DEF FrameAt
<1> QED
  BY <1>2, <1>3

LEMMA CallsPushes ==
  ASSUME StackType, NEW t \in Thread, NEW s, NEW f \in Frames, Pushes(t, s, f)
  PROVE  /\ \A u \in Thread : \A l \in Calling : \A w : CallAt(u, l, w)' <=> CallAt(u, l, w)
         /\ \A u \in Thread : \A i \in Nat : \A v, w :
              FrameAt(u, i, v, w)' <=> \/ FrameAt(u, i, v, w)
                                       \/ u = t /\ i = Len(stack[t]) + 1 /\ f.via = v /\ f.work = w
<1>1. /\ \A u \in Thread : u # t => stack'[u] = stack[u]
      /\ pc' = pc /\ pc[t] = "run"
  BY PushesFacts
<1>2. ASSUME NEW u \in Thread, NEW l \in Calling, NEW w
      PROVE  CallAt(u, l, w)' <=> CallAt(u, l, w)
  <2>1. CASE u = t
    BY <1>1, <2>1 DEF CallAt, Calling
  <2>2. CASE u # t
    BY <1>1, <2>2 DEF CallAt, Called, Top
  <2> QED
    BY <2>1, <2>2
<1>3. ASSUME NEW u \in Thread, NEW i \in Nat, NEW v, NEW w
      PROVE  FrameAt(u, i, v, w)' <=> \/ FrameAt(u, i, v, w)
                                      \/ u = t /\ i = Len(stack[t]) + 1 /\ f.via = v /\ f.work = w
  <2>1. CASE u = t
    <3>1. /\ DOMAIN stack'[t] = 1 .. Len(stack[t]) + 1 /\ DOMAIN stack[t] = 1 .. Len(stack[t])
          /\ Len(stack[t]) \in Nat /\ stack'[t][Len(stack[t]) + 1] = f
          /\ i \in DOMAIN stack[t] => /\ stack'[t][i].work = stack[t][i].work
                                      /\ stack'[t][i].via = stack[t][i].via
      BY PushesFacts
    <3>2. i \in DOMAIN stack'[t] <=> i \in DOMAIN stack[t] \/ i = Len(stack[t]) + 1
      BY <3>1
    <3>3. Len(stack[t]) + 1 \notin DOMAIN stack[t]
      BY <3>1
    <3> QED
      BY <2>1, <3>1, <3>2, <3>3 DEF FrameAt
  <2>2. CASE u # t
    BY <1>1, <2>2 DEF FrameAt
  <2> QED
    BY <2>1, <2>2
<1> QED
  BY <1>2, <1>3

LEMMA CallsPops ==
  ASSUME StackType, NEW t \in Thread, Pops(t)
  PROVE  /\ \A u \in Thread : \A l \in Calling : \A w : CallAt(u, l, w)' <=> CallAt(u, l, w)
         /\ \A u \in Thread : \A i \in Nat : \A v, w :
              FrameAt(u, i, v, w)' <=> FrameAt(u, i, v, w) /\ ~(u = t /\ i = Len(stack[t]))
<1>1. /\ \A u \in Thread : u # t => stack'[u] = stack[u]
      /\ pc' = pc /\ pc[t] = "run"
  BY PopsFacts
<1>2. ASSUME NEW u \in Thread, NEW l \in Calling, NEW w
      PROVE  CallAt(u, l, w)' <=> CallAt(u, l, w)
  <2>1. CASE u = t
    BY <1>1, <2>1 DEF CallAt, Calling
  <2>2. CASE u # t
    BY <1>1, <2>2 DEF CallAt, Called, Top
  <2> QED
    BY <2>1, <2>2
<1>3. ASSUME NEW u \in Thread, NEW i \in Nat, NEW v, NEW w
      PROVE  FrameAt(u, i, v, w)' <=> FrameAt(u, i, v, w) /\ ~(u = t /\ i = Len(stack[t]))
  <2>1. CASE u = t
    <3>1. /\ DOMAIN stack'[t] = 1 .. Len(stack[t]) - 1 /\ DOMAIN stack[t] = 1 .. Len(stack[t])
          /\ Len(stack[t]) \in Nat /\ Len(stack[t]) >= 1
          /\ i \in DOMAIN stack'[t] => stack'[t][i] = stack[t][i]
      BY PopsFacts
    <3>2. i \in DOMAIN stack'[t] <=> i \in DOMAIN stack[t] /\ i # Len(stack[t])
      BY <3>1
    <3> QED
      BY <2>1, <3>1, <3>2 DEF FrameAt
  <2>2. CASE u # t
    BY <1>1, <2>2 DEF FrameAt
  <2> QED
    BY <2>1, <2>2
<1> QED
  BY <1>2, <1>3

(* What is said of the life of a message depends on nothing else. *)
SameLife(w) ==
  /\ mem'[w] = mem[w] /\ result'[w] = result[w] /\ complete'[w] = complete[w]
  /\ runs'[w] = runs[w] /\ answer'[w] = answer[w]
  /\ Queued(w)' <=> Queued(w)
  /\ \A t \in Thread : \A l \in Calling : CallAt(t, l, w)' <=> CallAt(t, l, w)
  /\ \A t \in Thread : \A i \in Nat : \A v \in Executes : FrameAt(t, i, v, w)' <=> FrameAt(t, i, v, w)

LEMMA LifeSame ==
  ASSUME NEW w \in Work, LifeInv(w), SameLife(w)
  PROVE  LifeInv(w)'
<1>1. \A l \in Calling : Calls(l, w)' <=> Calls(l, w)
  BY DEF SameLife, Calls
<1>2. \A v \in Executes : Framed(v, w)' <=> Framed(v, w)
  BY DEF SameLife, Framed
<1>3. OneCaller(w)'
  BY DEF LifeInv, OneCaller, SameLife
<1>4. OneFrame(w)'
  BY DEF LifeInv, OneFrame, SameLife
<1>5. /\ Calls("put", w)' <=> Calls("put", w)
      /\ Calls("wait", w)' <=> Calls("wait", w)
      /\ Calls("get", w)' <=> Calls("get", w)
  BY <1>1 DEF Calling
<1>6. /\ Framed("task", w)' <=> Framed("task", w)
      /\ Framed("done", w)' <=> Framed("done", w)
      /\ Framed("direct", w)' <=> Framed("direct", w)
  BY <1>2 DEF Executes
<1>7. /\ mem'[w] = mem[w] /\ result'[w] = result[w] /\ complete'[w] = complete[w]
      /\ runs'[w] = runs[w] /\ answer'[w] = answer[w]
      /\ Queued(w)' <=> Queued(w)
  BY DEF SameLife
<1>8. Putting(w)' /\ Waiting(w)' /\ Getting(w)' /\ InQueue(w)'
  BY <1>5, <1>6, <1>7 DEF LifeInv, Putting, Waiting, Getting, InQueue, Held
<1>9. InTask(w)' /\ InDone(w)' /\ Complete(w)' /\ Direct(w)' /\ Answered(w)'
  BY <1>5, <1>6, <1>7 DEF LifeInv, InTask, InDone, Complete, Direct, Answered, Held
<1>10. Owned(w)'
  BY <1>1, <1>6, <1>7 DEF LifeInv, Owned
<1> QED
  BY <1>3, <1>4, <1>8, <1>9, <1>10 DEF LifeInv

-----------------------------------------------------------------------------
(* Works stay ahead at most once.                                           *)

(* A step of thread t that drops the first d items of its top frame, and    *)
(* may put the program of a into frame m of thread n.                       *)
Shift(t, d, u, i, k) == IF u = t /\ i = Len(stack[t]) THEN k + d ELSE k
Enters(n, m, a, u, i, k, x) ==
  /\ u = n /\ i = m /\ ~Begun(a)
  /\ k \in DOMAIN Program(a) /\ Program(a)[k] = x

LEMMA OnePlaceOf ==
  ASSUME OnePlace, NEW x \in Once, NEW t \in Thread, NEW u \in Thread,
         NEW i \in Nat, NEW j \in Nat, NEW k \in Nat, NEW l \in Nat,
         LeftAt(t, i, k, x), LeftAt(u, j, l, x)
  PROVE  t = u /\ i = j /\ k = l
  BY Zenon DEF OnePlace

LEMMA OnceStep ==
  ASSUME OnePlace, NotAhead, LeftFresh, AheadFresh, StackType, StackType',
         NEW t \in Thread, NEW d \in {0, 1}, NEW n \in Thread, NEW m \in Nat, NEW a \in Origin,
         \A x \in Once : \A u \in Thread : \A i, k \in Nat : LeftAt(u, i, k, x)' =>
           \/ LeftAt(u, i, Shift(t, d, u, i, k), x)
           \/ Enters(n, m, a, u, i, k, x) /\ Begun(a)',
         \A b \in Origin : Begun(b) => Begun(b)',
         \A x \in Once : Fresh(x) =>
           \/ Fresh(x)'
           \/ /\ LeftAt(t, Len(stack[t]), 1, x)
              /\ d = 1 \/ (pc'[t] \in Calling /\ Len(stack'[t]) = Len(stack[t])),
         \A u \in Thread : pc[u] \in Calling /\ ~(u = t /\ d = 1) =>
                             pc'[u] \in Calling /\ Len(stack'[u]) = Len(stack[u])
  PROVE  OnePlace' /\ NotAhead' /\ LeftFresh' /\ AheadFresh'
<1>0. \A x, b : Ahead(b, x)' <=> ~Begun(b)' /\ \E k \in DOMAIN Program(b) : Program(b)[k] = x
  BY DEF Ahead
<1>1. \A x, u, i, k : Enters(n, m, a, u, i, k, x) => Ahead(a, x)
  BY DEF Enters, Ahead
<1>2. \A u \in Thread : \A i, k \in Nat : Shift(t, d, u, i, k) \in Nat
  BY DEF Shift
<1>3. \A u \in Thread : \A i, k, l \in Nat :
        Shift(t, d, u, i, k) = Shift(t, d, u, i, l) => k = l
  BY DEF Shift
<1>4. ASSUME NEW x \in Once, NEW u \in Thread, NEW v \in Thread,
             NEW i \in Nat, NEW j \in Nat, NEW k \in Nat, NEW l \in Nat,
             LeftAt(u, i, k, x)', LeftAt(v, j, l, x)'
      PROVE  u = v /\ i = j /\ k = l
  <2>1. CASE LeftAt(u, i, Shift(t, d, u, i, k), x) /\ LeftAt(v, j, Shift(t, d, v, j, l), x)
    <3> DEFINE p == Shift(t, d, u, i, k)
               q == Shift(t, d, v, j, l)
    <3>0. p \in Nat /\ q \in Nat /\ LeftAt(u, i, p, x) /\ LeftAt(v, j, q, x)
      BY <2>1, <1>2
    <3>1. u = v /\ i = j /\ p = q
      <4> HIDE DEF p, q
      <4> QED
        BY <3>0, OnePlaceOf
    <3> QED
      BY <3>1, <1>3
  <2>2. CASE Enters(n, m, a, u, i, k, x) /\ Enters(n, m, a, v, j, l, x)
    <3>1. /\ u = v /\ i = j /\ k \in DOMAIN Program(a) /\ l \in DOMAIN Program(a)
          /\ Program(a)[k] = x /\ Program(a)[l] = x
      BY <2>2 DEF Enters
    <3>2. Program(a)[k] = Program(a)[l] /\ Program(a)[k] \in Once
      BY <3>1
    <3>3. k = l
      BY <3>1, <3>2, OnceAssumption, Zenon
    <3> QED
      BY <3>1, <3>3
  <2>3. CASE LeftAt(u, i, Shift(t, d, u, i, k), x) /\ Enters(n, m, a, v, j, l, x)
    BY <2>3, <1>1, <1>2 DEF NotAhead
  <2>4. CASE Enters(n, m, a, u, i, k, x) /\ LeftAt(v, j, Shift(t, d, v, j, l), x)
    BY <2>4, <1>1, <1>2 DEF NotAhead
  <2> QED
    BY <1>4, <2>1, <2>2, <2>3, <2>4
<1>5. ASSUME NEW x \in Once, NEW u \in Thread, NEW i \in Nat, NEW k \in Nat, NEW b \in Origin,
             LeftAt(u, i, k, x)', Ahead(b, x)'
      PROVE  FALSE
  <2>1. Ahead(b, x) /\ ~Begun(b)' /\ \E l \in DOMAIN Program(b) : Program(b)[l] = x
    BY <1>0, <1>5 DEF Ahead
  <2>2. CASE LeftAt(u, i, Shift(t, d, u, i, k), x)
    BY <2>1, <2>2, <1>2 DEF NotAhead
  <2>3. CASE Enters(n, m, a, u, i, k, x) /\ Begun(a)'
    <3>1. k \in DOMAIN Program(a) /\ Program(a)[k] = x
      BY <2>3 DEF Enters
    <3>2. a = b
      BY <3>1, <2>1, OnceAssumption
    <3> QED
      BY <3>2, <2>1, <2>3
  <2> QED
    BY <1>5, <2>2, <2>3
<1>6. ASSUME NEW x \in Once, NEW u \in Thread, NEW i \in Nat, NEW k \in Nat,
             LeftAt(u, i, k, x)', ~AtHead(u, i, k)'
      PROVE  Fresh(x)'
  <2>0. Len(stack[t]) \in Nat /\ 1 \in Nat
    BY DEF StackType
  <2>1. CASE LeftAt(u, i, Shift(t, d, u, i, k), x)
    <3>0. k >= 1
      <4>1. k \in DOMAIN stack'[u][i].left /\ i \in DOMAIN stack'[u]
        BY <1>6 DEF LeftAt
      <4>2. stack'[u] \in Seq(Frames)
        BY DEF StackType
      <4>3. stack'[u][i] \in Frames
        BY <4>1, <4>2
      <4>4. stack'[u][i].left \in Seq(Item)
        BY <4>3, FrameFacts
      <4> QED
        BY <4>1, <4>4
    <3>1. ~AtHead(u, i, Shift(t, d, u, i, k))
      <4>1. SUFFICES ASSUME AtHead(u, i, Shift(t, d, u, i, k)) PROVE FALSE
        OBVIOUS
      <4>2. pc[u] \in Calling /\ i = Len(stack[u]) /\ Shift(t, d, u, i, k) = 1
        BY <4>1 DEF AtHead
      <4>3. ~(u = t /\ d = 1)
        BY <4>2, <3>0 DEF Shift
      <4>4. pc'[u] \in Calling /\ Len(stack'[u]) = Len(stack[u])
        BY <4>2, <4>3
      <4>5. k = 1
        BY <4>2, <4>3 DEF Shift
      <4> QED
        BY <1>6, <4>2, <4>4, <4>5 DEF AtHead
    <3>2. Fresh(x)
      BY <2>1, <3>1, <1>2 DEF LeftFresh
    <3>3. CASE /\ LeftAt(t, Len(stack[t]), 1, x)
               /\ d = 1 \/ (pc'[t] \in Calling /\ Len(stack'[t]) = Len(stack[t]))
      <4> DEFINE p == Shift(t, d, u, i, k)
                 q == Len(stack[t])
      <4>0. p \in Nat /\ q \in Nat /\ 1 \in Nat /\ LeftAt(u, i, p, x) /\ LeftAt(t, q, 1, x)
        BY <2>0, <2>1, <3>3, <1>2
      <4>1. u = t /\ i = q /\ p = 1
        <5> HIDE DEF p, q
        <5> QED
          BY <4>0, OnePlaceOf
      <4>2. k + d = 1
        BY <4>1 DEF Shift
      <4>3. k = 1 /\ d = 0
        BY <4>2, <3>0
      <4> QED
        BY <4>1, <4>3, <3>3, <1>6 DEF AtHead
    <3> QED
      BY <3>2, <3>3
  <2>2. CASE Enters(n, m, a, u, i, k, x)
    <3>1. Ahead(a, x) /\ Fresh(x)
      BY <2>2, <1>1 DEF AheadFresh
    <3>2. ~LeftAt(t, Len(stack[t]), 1, x)
      BY <2>0, <3>1 DEF NotAhead
    <3> QED
      BY <3>1, <3>2
  <2> QED
    BY <1>6, <2>1, <2>2
<1>7. ASSUME NEW x \in Once, NEW b \in Origin, Ahead(b, x)'
      PROVE  Fresh(x)'
  <2>0. Len(stack[t]) \in Nat /\ 1 \in Nat
    BY DEF StackType
  <2>1. Ahead(b, x)
    BY <1>0, <1>7 DEF Ahead
  <2>2. Fresh(x) /\ ~LeftAt(t, Len(stack[t]), 1, x)
    BY <2>0, <2>1 DEF AheadFresh, NotAhead
  <2> QED
    BY <2>2
<1> QED
  BY <1>4, <1>5, <1>6, <1>7 DEF OnePlace, NotAhead, LeftFresh, AheadFresh

(* The same, for each kind of step. *)
OnceParts == OnePlace /\ NotAhead /\ LeftFresh /\ AheadFresh
KeepsBegun == \A b \in Origin : Begun(b) => Begun(b)'
KeepsFresh == \A x \in Once : Fresh(x) => Fresh(x)'

LEMMA CallbackOrigin == <<"callback", Service>> \in Origin
  BY DEF Origin

(* What is called is at the head of the top frame. *)
LEMMA CalledAt ==
  ASSUME StackType, NEW t \in Thread, InCode(t)
  PROVE  LeftAt(t, Len(stack[t]), 1, Called(t)) /\ Len(stack[t]) \in Nat
  BY InCodeFacts DEF LeftAt

LEMMA LeftInNat ==
  ASSUME StackType, NEW u \in Thread, NEW i, NEW k, NEW x, LeftAt(u, i, k, x)
  PROVE  i \in Nat /\ k \in Nat /\ i >= 1 /\ k >= 1
<1>1. stack[u] \in Seq(Frames) /\ i \in DOMAIN stack[u] /\ k \in DOMAIN stack[u][i].left
  BY DEF StackType, LeftAt
<1>2. stack[u][i] \in Frames /\ i \in Nat /\ i >= 1
  BY <1>1
<1>3. stack[u][i].left \in Seq(Item)
  BY <1>2, FrameFacts
<1> QED
  BY <1>1, <1>2, <1>3

LEMMA LeftAdvances ==
  ASSUME StackType, NEW t \in Thread, Advances(t)
  PROVE  \A x : \A u \in Thread : \A i, k \in Nat :
           LeftAt(u, i, k, x)' => LeftAt(u, i, Shift(t, 1, u, i, k), x)
<1>1. ASSUME NEW x, NEW u \in Thread, NEW i \in Nat, NEW k \in Nat, LeftAt(u, i, k, x)'
      PROVE  LeftAt(u, i, Shift(t, 1, u, i, k), x)
  <2>1. i \in DOMAIN stack'[u] /\ k \in DOMAIN stack'[u][i].left /\ stack'[u][i].left[k] = x
    BY <1>1 DEF LeftAt
  <2>2. /\ i \in DOMAIN stack[u]
        /\ stack'[u][i].left = IF u = t /\ i = Len(stack[t]) THEN Tail(stack[u][i].left)
                                                             ELSE stack[u][i].left
    BY <2>1, AdvancesFacts
  <2>3. CASE u = t /\ i = Len(stack[t])
    <3>1. InCode(t)
      BY DEF Advances
    <3>2. stack[t][i].left \in Seq(Item) /\ stack[t][i].left # <<>>
      BY <2>3, <3>1, InCodeFacts DEF InCode
    <3>3. k + 1 \in DOMAIN stack[t][i].left /\ stack[t][i].left[k + 1] = x
      BY <2>1, <2>2, <2>3, <3>2, TailFacts
    <3> QED
      BY <2>2, <2>3, <3>3 DEF LeftAt, Shift
  <2>4. CASE ~(u = t /\ i = Len(stack[t]))
    BY <2>1, <2>2, <2>4 DEF LeftAt, Shift
  <2> QED
    BY <2>3, <2>4
<1> QED
  BY <1>1

LEMMA OnceAdvances ==
  ASSUME StackType, OnceParts, NEW t \in Thread, Advances(t), KeepsBegun,
         \A x \in Once : Fresh(x) => Fresh(x)' \/ x = Called(t)
  PROVE  OnceParts'
<1> DEFINE a == <<"callback", Service>>
<1>1. a \in Origin /\ 1 \in Nat /\ 1 \in {0, 1}
  BY CallbackOrigin
<1>2. \A x \in Once : \A u \in Thread : \A i, k \in Nat : LeftAt(u, i, k, x)' =>
           \/ LeftAt(u, i, Shift(t, 1, u, i, k), x)
           \/ Enters(t, 1, a, u, i, k, x) /\ Begun(a)'
  BY LeftAdvances
<1>3. \A u \in Thread : u # t => pc'[u] = pc[u] /\ Len(stack'[u]) = Len(stack[u])
  BY AdvancesFacts
<1>4. LeftAt(t, Len(stack[t]), 1, Called(t))
  BY CalledAt DEF Advances
<1>5. \A x \in Once : Fresh(x) =>
           \/ Fresh(x)'
           \/ /\ LeftAt(t, Len(stack[t]), 1, x)
              /\ 1 = 1 \/ (pc'[t] \in Calling /\ Len(stack'[t]) = Len(stack[t]))
  BY <1>4
<1>6. StackType'
  BY AdvancesFacts
<1>7. \A u \in Thread : pc[u] \in Calling /\ ~(u = t /\ 1 = 1) =>
                             pc'[u] \in Calling /\ Len(stack'[u]) = Len(stack[u])
  BY <1>3
<1> HIDE DEF a
<1> QED
  BY <1>1, <1>2, <1>5, <1>6, <1>7, OnceStep DEF OnceParts, KeepsBegun

LEMMA OnceMoves ==
  ASSUME StackType, OnceParts, NEW t \in Thread, NEW l \in PCs, Moves(t, l), KeepsBegun,
         pc[t] \in Calling => l \in Calling,
         \A x \in Once : Fresh(x) => Fresh(x)' \/ (x = Called(t) /\ l \in Calling)
  PROVE  OnceParts'
<1> DEFINE a == <<"callback", Service>>
<1>1. a \in Origin /\ 1 \in Nat /\ 0 \in {0, 1}
  BY CallbackOrigin
<1>2. stack' = stack /\ pc'[t] = l /\ StackType' /\ \A u \in Thread : u # t => pc'[u] = pc[u]
  BY MovesFacts
<1>3. \A x \in Once : \A u \in Thread : \A i, k \in Nat : LeftAt(u, i, k, x)' =>
           \/ LeftAt(u, i, Shift(t, 0, u, i, k), x)
           \/ Enters(t, 1, a, u, i, k, x) /\ Begun(a)'
  BY <1>2 DEF LeftAt, Shift
<1>4. LeftAt(t, Len(stack[t]), 1, Called(t))
  BY CalledAt DEF Moves
<1>5. \A x \in Once : Fresh(x) =>
           \/ Fresh(x)'
           \/ /\ LeftAt(t, Len(stack[t]), 1, x)
              /\ 0 = 1 \/ (pc'[t] \in Calling /\ Len(stack'[t]) = Len(stack[t]))
  BY <1>2, <1>4
<1>6. \A u \in Thread : pc[u] \in Calling /\ ~(u = t /\ 0 = 1) =>
                             pc'[u] \in Calling /\ Len(stack'[u]) = Len(stack[u])
  BY <1>2
<1> HIDE DEF a
<1> QED
  BY <1>1, <1>2, <1>3, <1>5, <1>6, OnceStep DEF OnceParts, KeepsBegun

(* A frame entered, with the program of a that begins, or one that has *)
(* nothing that is done once.                                          *)
LEMMA OncePushes ==
  ASSUME StackType, OnceParts, NEW t \in Thread, NEW s, NEW f \in Frames, Pushes(t, s, f), KeepsBegun,
         NEW a \in Origin,
         \A k \in DOMAIN f.left : f.left[k] \in Once =>
           ~Begun(a) /\ Begun(a)' /\ k \in DOMAIN Program(a) /\ Program(a)[k] = f.left[k],
         \A x \in Once : Fresh(x) => Fresh(x)' \/ (x = Called(t) /\ s # stack[t])
  PROVE  OnceParts'
<1> DEFINE d == IF s # stack[t] THEN 1 ELSE 0
           m == Len(stack[t]) + 1
<1>1. /\ \A u \in Thread : u # t => stack'[u] = stack[u]
      /\ pc' = pc /\ pc[t] = "run" /\ StackType'
  BY PushesFacts
<1>2. /\ Len(stack[t]) \in Nat /\ DOMAIN stack[t] = 1 .. Len(stack[t])
      /\ DOMAIN stack'[t] = 1 .. Len(stack[t]) + 1
      /\ stack'[t][Len(stack[t]) + 1] = f
  BY PushesFacts
<1>3. d \in {0, 1} /\ m \in Nat
  BY <1>2
<1>4. ASSUME NEW x \in Once, NEW u \in Thread, NEW i \in Nat, NEW k \in Nat, LeftAt(u, i, k, x)'
      PROVE  \/ LeftAt(u, i, Shift(t, d, u, i, k), x)
             \/ Enters(t, m, a, u, i, k, x) /\ Begun(a)'
  <2>1. i \in DOMAIN stack'[u] /\ k \in DOMAIN stack'[u][i].left /\ stack'[u][i].left[k] = x
    BY <1>4 DEF LeftAt
  <2>2. CASE u # t
    BY <1>1, <2>1, <2>2 DEF LeftAt, Shift
  <2>3. CASE u = t /\ i = m
    <3>1. k \in DOMAIN f.left /\ f.left[k] = x
      BY <1>2, <2>1, <2>3
    <3> QED
      BY <2>3, <3>1 DEF Enters
  <2>4. CASE u = t /\ i # m
    <3>1. i \in DOMAIN stack[t]
      BY <1>2, <2>1, <2>4
    <3>2. stack'[t][i].left = IF i = Len(stack[t]) /\ s # stack[t] THEN Tail(stack[t][i].left)
                                                                   ELSE stack[t][i].left
      BY <3>1, PushesFacts
    <3>3. CASE i = Len(stack[t]) /\ s # stack[t]
      <4>1. InCode(t)
        BY <3>3 DEF Pushes
      <4>2. stack[t][i].left \in Seq(Item) /\ stack[t][i].left # <<>>
        BY <3>3, <4>1, InCodeFacts DEF InCode
      <4>3. k + 1 \in DOMAIN stack[t][i].left /\ stack[t][i].left[k + 1] = x
        BY <2>1, <2>4, <3>2, <3>3, <4>2, TailFacts
      <4> QED
        BY <2>4, <3>1, <3>3, <4>3 DEF LeftAt, Shift
    <3>4. CASE ~(i = Len(stack[t]) /\ s # stack[t])
      <4>1. Shift(t, d, u, i, k) = k
        BY <2>4, <3>4 DEF Shift
      <4> QED
        BY <2>1, <2>4, <3>1, <3>2, <3>4, <4>1 DEF LeftAt
    <3> QED
      BY <3>3, <3>4
  <2> QED
    BY <2>2, <2>3, <2>4
<1>5. ASSUME NEW x \in Once, Fresh(x)
      PROVE  \/ Fresh(x)'
             \/ /\ LeftAt(t, Len(stack[t]), 1, x)
                /\ d = 1 \/ (pc'[t] \in Calling /\ Len(stack'[t]) = Len(stack[t]))
  <2>1. SUFFICES ASSUME x = Called(t), s # stack[t]
                 PROVE  LeftAt(t, Len(stack[t]), 1, x) /\ d = 1
    BY <1>5
  <2>2. InCode(t)
    BY <2>1 DEF Pushes
  <2> QED
    BY <2>1, <2>2, CalledAt
<1>6. \A u \in Thread : pc[u] \in Calling /\ ~(u = t /\ d = 1) =>
                             pc'[u] \in Calling /\ Len(stack'[u]) = Len(stack[u])
  BY <1>1 DEF Calling
<1> HIDE DEF d, m
<1> QED
  BY <1>1, <1>3, <1>4, <1>5, <1>6, OnceStep DEF OnceParts, KeepsBegun

LEMMA OncePops ==
  ASSUME StackType, OnceParts, NEW t \in Thread, Pops(t), KeepsBegun, KeepsFresh
  PROVE  OnceParts'
<1> DEFINE a == <<"callback", Service>>
<1>1. a \in Origin /\ 1 \in Nat /\ 0 \in {0, 1}
  BY CallbackOrigin
<1>2. /\ \A u \in Thread : u # t => stack'[u] = stack[u]
      /\ pc' = pc /\ pc[t] = "run" /\ StackType'
      /\ \A i \in DOMAIN stack'[t] : i \in DOMAIN stack[t] /\ stack'[t][i] = stack[t][i]
  BY PopsFacts
<1>3. ASSUME NEW x \in Once, NEW u \in Thread, NEW i \in Nat, NEW k \in Nat, LeftAt(u, i, k, x)'
      PROVE  LeftAt(u, i, Shift(t, 0, u, i, k), x)
  <2>1. CASE u = t
    BY <1>2, <1>3, <2>1 DEF LeftAt, Shift
  <2>2. CASE u # t
    BY <1>2, <1>3, <2>2 DEF LeftAt, Shift
  <2> QED
    BY <2>1, <2>2
<1>4. \A u \in Thread : pc[u] \in Calling /\ ~(u = t /\ 0 = 1) =>
                             pc'[u] \in Calling /\ Len(stack'[u]) = Len(stack[u])
  BY <1>2 DEF Calling
<1> HIDE DEF a
<1> QED
  BY <1>1, <1>2, <1>3, <1>4, OnceStep DEF OnceParts, KeepsBegun, KeepsFresh

(* The stack replaced by one with at most one frame. *)
LEMMA OnceReplaced ==
  ASSUME StackType, StackType', OnceParts, NEW t \in Thread, NEW s, pc[t] = "run", KeepsBegun, KeepsFresh,
         stack' = [stack EXCEPT ![t] = s], \A u \in Thread : u # t => pc'[u] = pc[u],
         NEW a \in Origin,
         s = <<>> \/ \E f \in Frames :
            /\ s = <<f>>
            /\ \A k \in DOMAIN f.left : f.left[k] \in Once =>
                 ~Begun(a) /\ Begun(a)' /\ k \in DOMAIN Program(a) /\ Program(a)[k] = f.left[k]
  PROVE  OnceParts'
<1>1. stack'[t] = s /\ \A u \in Thread : u # t => stack'[u] = stack[u]
  BY DEF StackType
<1>2. ASSUME NEW x \in Once, NEW u \in Thread, NEW i \in Nat, NEW k \in Nat, LeftAt(u, i, k, x)'
      PROVE  \/ LeftAt(u, i, Shift(t, 0, u, i, k), x)
             \/ Enters(t, 1, a, u, i, k, x) /\ Begun(a)'
  <2>1. i \in DOMAIN stack'[u] /\ k \in DOMAIN stack'[u][i].left /\ stack'[u][i].left[k] = x
    BY <1>2 DEF LeftAt
  <2>2. CASE u # t
    BY <1>1, <2>1, <2>2 DEF LeftAt, Shift
  <2>3. CASE u = t
    <3>1. s # <<>>
      BY <1>1, <2>1, <2>3
    <3>2. PICK f \in Frames :
            /\ s = <<f>>
            /\ \A j \in DOMAIN f.left : f.left[j] \in Once =>
                 ~Begun(a) /\ Begun(a)' /\ j \in DOMAIN Program(a) /\ Program(a)[j] = f.left[j]
      BY <3>1
    <3>3. i = 1 /\ s[1] = f
      BY <1>1, <2>1, <2>3, <3>2
    <3>4. k \in DOMAIN f.left /\ f.left[k] = x
      BY <1>1, <2>1, <2>3, <3>3
    <3> QED
      BY <2>3, <3>2, <3>3, <3>4 DEF Enters
  <2> QED
    BY <2>2, <2>3
<1>3. \A u \in Thread : pc[u] \in Calling /\ ~(u = t /\ 0 = 1) =>
                             pc'[u] \in Calling /\ Len(stack'[u]) = Len(stack[u])
  BY <1>1 DEF Calling
<1>4. 1 \in Nat /\ 0 \in {0, 1}
  OBVIOUS
<1> QED
  BY <1>2, <1>3, <1>4, OnceStep DEF OnceParts, KeepsBegun, KeepsFresh

-----------------------------------------------------------------------------
(* The other parts of the invariant, for each kind of step.                 *)

LEMMA TypeInvTypeOK == TypeInv => TypeOK
<1> SUFFICES ASSUME TypeInv PROVE TypeOK
  OBVIOUS
<1>1. DOMAIN stack = Thread
  BY DEF TypeInv, StackType
<1>2. ASSUME NEW t \in Thread, NEW i \in DOMAIN stack[t]
      PROVE  stack[t][i].via \in {"main", "loop", "direct", "task", "done", "callback"}
  <2>1. stack[t] \in Seq(Frames)
    BY DEF TypeInv, StackType
  <2>2. stack[t][i] \in Frames
    BY <2>1
  <2> QED
    BY <2>2, FrameFacts
<1> QED
  BY <1>1, <1>2 DEF TypeInv, TypeOK, StackType, QueueType, MessageType, ObjectType, TimerType, PCs

(* Messages. *)
SameMessages == UNCHANGED <<queue, mem, result, complete, runs, answer>>

LEMMA QueueSame ==
  ASSUME queue' = queue
  PROVE  /\ QueueType' <=> QueueType
         /\ QueueInv' <=> QueueInv
         /\ \A w : Queued(w)' <=> Queued(w)
  BY DEF QueueType, QueueInv, Queued

LEMMA MessagesSame ==
  ASSUME MessageInv, SameMessages,
         \A w \in Work : \A t \in Thread : \A l \in Calling : CallAt(t, l, w)' <=> CallAt(t, l, w),
         \A w \in Work : \A t \in Thread : \A i \in Nat : \A v \in Executes :
           FrameAt(t, i, v, w)' <=> FrameAt(t, i, v, w)
  PROVE  MessageInv'
<1>1. ASSUME NEW w \in Work PROVE LifeInv(w)'
  <2>1. Queued(w)' <=> Queued(w)
    BY QueueSame DEF SameMessages
  <2>2. SameLife(w)
    BY <2>1 DEF SameLife, SameMessages
  <2>3. LifeInv(w)
    BY DEF MessageInv
  <2> QED
    BY <2>2, <2>3, LifeSame
<1> QED
  BY <1>1 DEF MessageInv

(* Objects. *)
LEMMA StartKeeps ==
  ASSUME StartInv, started' = started, threadId' = threadId, NEW t \in Thread,
         \A u \in Thread : u # t => stack'[u] = stack[u] /\ pc'[u] = pc[u],
         t = Boot => \A o \in Object : AtCall(Boot, o) => started[o]
  PROVE  StartInv'
<1>1. ASSUME NEW o \in Object
      PROVE  /\ threadId'[o] \in {None, Owner[o]}
             /\ started'[o] => threadId'[o] = Owner[o]
             /\ threadId'[o] # None /\ ~started'[o] => AtCall(Boot, o)'
  <2>1. /\ threadId[o] \in {None, Owner[o]}
        /\ started[o] => threadId[o] = Owner[o]
        /\ threadId[o] # None /\ ~started[o] => AtCall(Boot, o)
    BY DEF StartInv
  <2>2. ASSUME threadId[o] # None, ~started[o] PROVE AtCall(Boot, o)'
    <3>1. AtCall(Boot, o)
      BY <2>1, <2>2
    <3>2. Boot # t
      BY <3>1, <2>2
    <3>3. stack'[Boot] = stack[Boot] /\ pc'[Boot] = pc[Boot]
      BY <3>2, ObjectAssumption
    <3> QED
      BY <3>1, <3>3 DEF AtCall, Running, Top
  <2> QED
    BY <2>1, <2>2
<1> QED
  BY <1>1 DEF StartInv

(* The user thread. *)
SameThread ==
  /\ Created' <=> Created
  /\ thread'.exited = thread.exited /\ thread'.ended = thread.ended

LEMMA UserOther ==
  ASSUME UserInv, SameThread, stack'[User] = stack[User]
  PROVE  UserInv'
  BY DEF UserInv, SameThread

LEMMA UserInThread == User \in Thread /\ Service \in Thread /\ Boot \in Thread
  BY ServiceAssumption, ObjectAssumption

LEMMA UserInCode ==
  ASSUME StackType, UserInv, InCode(User)
  PROVE  Created /\ ~(thread.exited /\ ~thread.ended) /\ Len(stack[User]) >= 1 /\ Len(stack[User]) \in Nat
<1>1. stack[User] # <<>> /\ Top(User) = stack[User][Len(stack[User])] /\ Top(User).left # <<>>
  BY UserInThread, InCodeFacts DEF InCode
<1>2. Len(stack[User]) >= 1 /\ Len(stack[User]) \in Nat
  BY UserInThread, InCodeFacts
<1> QED
  BY <1>1, <1>2 DEF UserInv

LEMMA UserAdvances ==
  ASSUME StackType, UserInv, NEW t \in Thread, Advances(t), SameThread
  PROVE  UserInv'
<1>1. CASE t # User
  <2>1. stack'[User] = stack[User]
    BY <1>1, UserInThread, AdvancesFacts
  <2> QED
    BY <2>1, UserOther
<1>2. CASE t = User
  <2>1. Created /\ ~(thread.exited /\ ~thread.ended)
    BY <1>2, UserInCode DEF Advances
  <2>2. /\ DOMAIN stack'[User] = DOMAIN stack[User]
        /\ \A i \in DOMAIN stack[User] : stack'[User][i].via = stack[User][i].via
    BY UserInThread, AdvancesFacts
  <2> QED
    BY <2>1, <2>2 DEF UserInv, SameThread
<1> QED
  BY <1>1, <1>2

LEMMA UserPushes ==
  ASSUME StackType, UserInv, NEW t \in Thread, NEW s, NEW f \in Frames, Pushes(t, s, f), SameThread,
         t = User => InCode(User) /\ f.via \notin Base
  PROVE  UserInv'
<1>1. CASE t # User
  <2>1. stack'[User] = stack[User]
    BY <1>1, UserInThread, PushesFacts
  <2> QED
    BY <2>1, UserOther
<1>2. CASE t = User
  <2>1. Created /\ ~(thread.exited /\ ~thread.ended)
    BY <1>2, UserInCode
  <2>2. /\ DOMAIN stack'[User] = 1 .. Len(stack[User]) + 1 /\ Len(stack[User]) \in Nat
        /\ DOMAIN stack[User] = 1 .. Len(stack[User])
        /\ stack'[User][Len(stack[User]) + 1] = f
        /\ \A i \in DOMAIN stack[User] : stack'[User][i].via = stack[User][i].via
    BY <1>2, PushesFacts
  <2>3. \A i \in DOMAIN stack'[User] : i \in DOMAIN stack[User] \/ i = Len(stack[User]) + 1
    BY <2>2
  <2>4. \A i \in DOMAIN stack'[User] : i > 1 => stack'[User][i].via \notin Base
    BY <1>2, <2>2, <2>3 DEF UserInv
  <2> QED
    BY <2>1, <2>4 DEF UserInv, SameThread
<1> QED
  BY <1>1, <1>2

LEMMA UserPops ==
  ASSUME StackType, UserInv, NEW t \in Thread, Pops(t), SameThread,
         t = User => Top(User).via \notin Base
  PROVE  UserInv'
<1>1. CASE t # User
  <2>1. stack'[User] = stack[User]
    BY <1>1, UserInThread, PopsFacts
  <2> QED
    BY <2>1, UserOther
<1>2. CASE t = User
  <2>1. /\ stack[User] # <<>>
        /\ \A i \in DOMAIN stack'[User] : i \in DOMAIN stack[User] /\ stack'[User][i] = stack[User][i]
    BY <1>2, PopsFacts
  <2>2. Top(User) = stack[User][Len(stack[User])]
    BY DEF Top, Last
  <2>3. ~(thread.exited /\ ~thread.ended)
    BY <1>2, <2>2 DEF UserInv
  <2> QED
    BY <2>1, <2>3 DEF UserInv, SameThread
<1> QED
  BY <1>1, <1>2

(* What has begun and what is fresh. *)
LEMMA BegunSame ==
  ASSUME runs' = runs, background' = background, timer'.left = timer.left,
         Created => Created'
  PROVE  KeepsBegun
  BY DEF KeepsBegun, Begun

LEMMA FreshSame ==
  ASSUME runs' = runs, mem' = mem, Created' => Created
  PROVE  KeepsFresh
  BY DEF KeepsFresh, Fresh

LEMMA JoinKeeps ==
  ASSUME JoinInv, Created => Created', NEW t \in Thread,
         \A u \in Thread : u # t => pc'[u] = pc[u],
         pc'[t] \in {"join", "cleanup"} => Created
  PROVE  JoinInv'
<1>1. ASSUME NEW u \in Thread, pc'[u] \in {"join", "cleanup"} PROVE Created'
  BY <1>1 DEF JoinInv
<1> QED
  BY <1>1 DEF JoinInv

(* A thread about to call x. *)
LEMMA AtCallFacts ==
  ASSUME NEW t, NEW x, AtCall(t, x)
  PROVE  /\ pc[t] = "run" /\ InCode(t) /\ Called(t) = x
         /\ \A y : AtCall(t, y) => y = x
  BY DEF AtCall, Running, InCode, Called

(* A thread at the end of a frame, or inside a call, is not about to call. *)
LEMMA AtEndFacts ==
  ASSUME NEW t, NEW v, AtEnd(t, v)
  PROVE  /\ pc[t] = "run" /\ stack[t] # <<>> /\ Top(t).left = <<>> /\ Top(t).via = v
         /\ \A y : ~AtCall(t, y)
  BY DEF AtEnd, AtCall, Running

LEMMA NotAtCall ==
  ASSUME NEW t, pc[t] # "run"
  PROVE  \A y : ~AtCall(t, y)
  BY DEF AtCall, Running

-----------------------------------------------------------------------------
(* Steps that leave the messages alone.                                     *)

QuietAO == SameMessages /\ UNCHANGED <<started, threadId, background>>

LEMMA QuietAdvances ==
  ASSUME IInv, NEW t \in Thread, Advances(t), pc[t] \notin Calling, QuietAO, TimerType',
         SameThread, timer'.left = timer.left,
         t = Boot => \A o \in Object : AtCall(Boot, o) => started[o]
  PROVE  IInv'
<1> USE DEF IInv
<1>1. StackType' /\ ObjectType' /\ MessageType' /\ QueueType' /\ QueueInv'
  <2>1. StackType'
    BY AdvancesFacts DEF TypeInv
  <2> QED
    BY <2>1, QueueSame DEF TypeInv, QuietAO, SameMessages, ObjectType, MessageType
<1>2. ShapeInv'
  BY ShapeAdvances DEF TypeInv
<1>3. UserInv'
  BY UserAdvances DEF TypeInv
<1>4. /\ \A u \in Thread : u # t => stack'[u] = stack[u] /\ pc'[u] = pc[u]
      /\ pc'[t] = "run"
  BY AdvancesFacts DEF TypeInv
<1>5. JoinInv'
  BY <1>4, JoinKeeps DEF SameThread
<1>6. MessageInv'
  <2>1. \A w \in Work : \A u \in Thread : \A l \in Calling : CallAt(u, l, w)' <=> CallAt(u, l, w)
    <3>1. \A u \in Thread : \A l \in Calling : \A w : CallAt(u, l, w)' <=> u # t /\ CallAt(u, l, w)
      BY CallsAdvances DEF TypeInv
    <3>2. \A l \in Calling : \A w : ~CallAt(t, l, w)
      BY DEF CallAt
    <3> QED
      BY <3>1, <3>2
  <2>2. \A w \in Work : \A u \in Thread : \A i \in Nat : \A v \in Executes :
          FrameAt(u, i, v, w)' <=> FrameAt(u, i, v, w)
    BY CallsAdvances DEF TypeInv
  <2> QED
    BY <2>1, <2>2, MessagesSame DEF QuietAO
<1>7. OnceInv'
  <2>1. KeepsBegun
    BY BegunSame DEF QuietAO, SameMessages, SameThread
  <2>2. KeepsFresh
    BY FreshSame DEF QuietAO, SameMessages, SameThread
  <2>3. OnceParts
    BY DEF OnceInv, OnceParts
  <2>4. OnceParts'
    BY <2>1, <2>2, <2>3, OnceAdvances DEF TypeInv, KeepsFresh
  <2> QED
    BY <2>4 DEF OnceInv, OnceParts, BackgroundInv, QuietAO
<1>8. StartInv'
  BY <1>4, StartKeeps DEF QuietAO
<1> QED
  BY <1>1, <1>2, <1>3, <1>5, <1>6, <1>7, <1>8 DEF TypeInv

LEMMA QuietMoves ==
  ASSUME IInv, NEW t \in Thread, NEW l \in PCs \ {"invoke"}, Moves(t, l), pc[t] \notin Calling,
         l \notin Calling, QuietAO, TimerType', SameThread, timer'.left = timer.left,
         l \in {"join", "cleanup"} => Created,
         t = Boot => \A o \in Object : ~AtCall(Boot, o)
  PROVE  IInv'
<1> USE DEF IInv
<1>1. StackType' /\ ObjectType' /\ MessageType' /\ QueueType' /\ QueueInv'
  <2>1. StackType'
    BY MovesFacts DEF TypeInv
  <2> QED
    BY <2>1, QueueSame DEF TypeInv, QuietAO, SameMessages, ObjectType, MessageType
<1>2. ShapeInv'
  BY ShapeMoves DEF TypeInv
<1>3. stack' = stack /\ pc'[t] = l /\ \A u \in Thread : u # t => pc'[u] = pc[u]
  BY MovesFacts DEF TypeInv
<1>4. UserInv'
  BY <1>3, UserOther
<1>5. JoinInv'
  BY <1>3, JoinKeeps DEF SameThread
<1>6. MessageInv'
  <2>1. \A w \in Work : \A u \in Thread : \A m \in Calling : CallAt(u, m, w)' <=> CallAt(u, m, w)
    <3>1. \A u \in Thread : \A m \in Calling : \A w :
            CallAt(u, m, w)' <=> IF u = t THEN m = l /\ Called(t) = w ELSE CallAt(u, m, w)
      BY CallsMoves DEF TypeInv
    <3>2. \A m \in Calling : \A w : ~CallAt(t, m, w) /\ m # l
      BY DEF CallAt
    <3> QED
      BY <3>1, <3>2
  <2>2. \A w \in Work : \A u \in Thread : \A i \in Nat : \A v \in Executes :
          FrameAt(u, i, v, w)' <=> FrameAt(u, i, v, w)
    BY CallsMoves DEF TypeInv
  <2> QED
    BY <2>1, <2>2, MessagesSame DEF QuietAO
<1>7. OnceInv'
  <2>1. KeepsBegun
    BY BegunSame DEF QuietAO, SameMessages, SameThread
  <2>2. KeepsFresh
    BY FreshSame DEF QuietAO, SameMessages, SameThread
  <2>3. OnceParts
    BY DEF OnceInv, OnceParts
  <2>4. OnceParts'
    BY <2>1, <2>2, <2>3, OnceMoves DEF TypeInv, KeepsFresh
  <2> QED
    BY <2>4 DEF OnceInv, OnceParts, BackgroundInv, QuietAO
<1>8. StartInv'
  BY <1>3, StartKeeps DEF QuietAO
<1> QED
  BY <1>1, <1>2, <1>4, <1>5, <1>6, <1>7, <1>8 DEF TypeInv

LEMMA QuietPops ==
  ASSUME IInv, NEW t \in Thread, Pops(t), QuietAO, TimerType', SameThread, timer'.left = timer.left,
         t # User, Top(t).via \in Base, \A o \in Object : ~AtCall(t, o)
  PROVE  IInv'
<1> USE DEF IInv
<1>1. StackType' /\ ObjectType' /\ MessageType' /\ QueueType' /\ QueueInv'
  <2>1. StackType'
    BY PopsFacts DEF TypeInv
  <2> QED
    BY <2>1, QueueSame DEF TypeInv, QuietAO, SameMessages, ObjectType, MessageType
<1>2. ShapeInv'
  BY ShapePops DEF TypeInv
<1>3. UserInv'
  BY UserPops DEF TypeInv
<1>4. \A u \in Thread : u # t => stack'[u] = stack[u] /\ pc'[u] = pc[u]
  BY PopsFacts DEF TypeInv
<1>5. JoinInv'
  <2>1. pc'[t] = "run"
    BY PopsFacts DEF TypeInv
  <2> QED
    BY <2>1, <1>4, JoinKeeps DEF SameThread
<1>6. MessageInv'
  <2>1. \A w \in Work : \A u \in Thread : \A l \in Calling : CallAt(u, l, w)' <=> CallAt(u, l, w)
    BY CallsPops DEF TypeInv
  <2>2. \A u \in Thread : \A i \in Nat : \A v, w :
          FrameAt(u, i, v, w)' <=> FrameAt(u, i, v, w) /\ ~(u = t /\ i = Len(stack[t]))
    BY CallsPops DEF TypeInv
  <2>3. \A v \in Executes : \A w : ~FrameAt(t, Len(stack[t]), v, w)
    BY DEF FrameAt, Executes, Base, Top, Last
  <2>4. \A w \in Work : \A u \in Thread : \A i \in Nat : \A v \in Executes :
          FrameAt(u, i, v, w)' <=> FrameAt(u, i, v, w)
    BY <2>2, <2>3
  <2> QED
    BY <2>1, <2>4, MessagesSame DEF QuietAO
<1>7. OnceInv'
  <2>1. KeepsBegun
    BY BegunSame DEF QuietAO, SameMessages, SameThread
  <2>2. KeepsFresh
    BY FreshSame DEF QuietAO, SameMessages, SameThread
  <2>3. OnceParts
    BY DEF OnceInv, OnceParts
  <2>4. OnceParts'
    BY <2>1, <2>2, <2>3, OncePops DEF TypeInv
  <2> QED
    BY <2>4 DEF OnceInv, OnceParts, BackgroundInv, QuietAO
<1>8. StartInv'
  BY <1>4, StartKeeps DEF QuietAO
<1> QED
  BY <1>1, <1>2, <1>3, <1>5, <1>6, <1>7, <1>8 DEF TypeInv

(* The timer. *)
LEMMA ItemKinds ==
  \A x \in TimerChange \cup {Process, "dispose", "create", "join"} \cup Work : x \notin Object
  BY ProgramAssumption

LEMMA QuietVars ==
  ASSUME UNCHANGED <<started, threadId, queue, mem, result, complete, background, runs, answer>>
  PROVE  QuietAO
  BY DEF QuietAO, SameMessages

LEMMA SameThreadVar == ASSUME thread' = thread PROVE SameThread
  BY DEF SameThread, Created

LEMMA timerChangeInv ==
  ASSUME IInv, NEW t \in Thread, NEW c \in TimerChange, timerChange(t, c)
  PROVE  IInv'
<1>1. AtCall(t, c) /\ pc[t] = "run" /\ InCode(t) /\ \A o \in Object : ~AtCall(t, o)
  BY AtCallFacts, ItemKinds DEF timerChange
<1>2. Advances(t)
  BY <1>1 DEF timerChange, Advance, Advances, IInv, TypeInv, StackType
<1>3. QuietAO /\ SameThread
  BY QuietVars, SameThreadVar DEF timerChange
<1>4. TimerType' /\ timer'.left = timer.left
  BY DEF timerChange, IInv, TypeInv, TimerType
<1> QED
  BY <1>1, <1>2, <1>3, <1>4, QuietAdvances DEF Calling

LEMMA timerDisposeInv ==
  ASSUME IInv, NEW t \in Thread, timerDispose(t)
  PROVE  IInv'
<1>1. AtCall(t, "dispose") /\ pc[t] = "run" /\ InCode(t) /\ \A o \in Object : ~AtCall(t, o)
  BY AtCallFacts, ItemKinds DEF timerDispose
<1>2. QuietAO /\ SameThread
  BY QuietVars, SameThreadVar DEF timerDispose
<1>3. TimerType' /\ timer'.left = timer.left
  BY DEF timerDispose, IInv, TypeInv, TimerType
<1>4. CASE timer.handle
  <2>1. Moves(t, "disposing")
    BY <1>1, <1>4 DEF timerDispose, Moves, Goto
  <2> QED
    BY <1>1, <1>2, <1>3, <2>1, QuietMoves DEF Calling, PCs
<1>5. CASE ~timer.handle
  <2>1. Advances(t)
    BY <1>1, <1>5 DEF timerDispose, Advance, Advances, IInv, TypeInv, StackType
  <2> QED
    BY <1>1, <1>2, <1>3, <2>1, QuietAdvances DEF Calling
<1> QED
  BY <1>4, <1>5

(* A thread inside the timer's or the thread's operations. *)
LEMMA BusyFacts ==
  ASSUME IInv, NEW t \in Thread, pc[t] \in {"disposing", "destroy", "join", "cleanup"}
  PROVE  InCode(t) /\ pc[t] \notin Calling /\ \A y : ~AtCall(t, y)
<1>1. InCode(t)
  BY DEF IInv, ShapeInv, PcShape, InCode
<1> QED
  BY <1>1, NotAtCall DEF Calling

LEMMA timerNotRunningInv ==
  ASSUME IInv, NEW t \in Thread, timerNotRunning(t)
  PROVE  IInv'
<1>1. InCode(t) /\ pc[t] \notin Calling /\ \A y : ~AtCall(t, y)
  BY BusyFacts DEF timerNotRunning
<1>2. Moves(t, "destroy")
  BY <1>1 DEF timerNotRunning, Moves, Goto
<1>3. QuietAO /\ SameThread
  BY QuietVars, SameThreadVar DEF timerNotRunning
<1>4. TimerType' /\ timer'.left = timer.left
  BY DEF timerNotRunning, IInv, TypeInv, TimerType
<1> QED
  BY <1>1, <1>2, <1>3, <1>4, QuietMoves DEF Calling, PCs

LEMMA timerDestroyInv ==
  ASSUME IInv, NEW t \in Thread, timerDestroy(t)
  PROVE  IInv'
<1>1. InCode(t) /\ pc[t] \notin Calling /\ \A y : ~AtCall(t, y)
  BY BusyFacts DEF timerDestroy
<1>2. Advances(t)
  BY <1>1 DEF timerDestroy, Advances, Advance, Goto
<1>3. QuietAO /\ SameThread
  BY QuietVars, SameThreadVar DEF timerDestroy
<1>4. TimerType' /\ timer'.left = timer.left
  BY DEF timerDestroy, IInv, TypeInv, TimerType
<1> QED
  BY <1>1, <1>2, <1>3, <1>4, QuietAdvances

LEMMA timeoutEndInv ==
  ASSUME IInv, timeoutEnd
  PROVE  IInv'
<1>1. /\ AtEnd(Service, "callback") /\ pc[Service] = "run" /\ stack[Service] # <<>>
      /\ Top(Service).via = "callback" /\ \A y : ~AtCall(Service, y)
  BY AtEndFacts DEF timeoutEnd
<1>2. Pops(Service)
  BY <1>1 DEF timeoutEnd, Pop, Pops
<1>3. QuietAO /\ SameThread
  BY QuietVars, SameThreadVar DEF timeoutEnd
<1>4. TimerType' /\ timer'.left = timer.left
  BY DEF timeoutEnd, IInv, TypeInv, TimerType
<1>5. Service \in Thread /\ Service # User
  BY ServiceAssumption
<1> QED
  BY <1>1, <1>2, <1>3, <1>4, <1>5, QuietPops DEF Base

(* The thread. *)
LEMMA threadDisposeInv ==
  ASSUME IInv, NEW t \in Thread, threadDispose(t)
  PROVE  IInv'
<1>1. AtCall(t, "join") /\ pc[t] = "run" /\ InCode(t) /\ \A o \in Object : ~AtCall(t, o)
  BY AtCallFacts, ItemKinds DEF threadDispose
<1>2. QuietAO /\ SameThread
  BY QuietVars, SameThreadVar DEF threadDispose
<1>3. TimerType' /\ timer'.left = timer.left
  BY DEF threadDispose, IInv, TypeInv, TimerType
<1>4. CASE thread.handle
  <2> DEFINE l == IF thread.exited THEN "cleanup" ELSE "join"
  <2>1. Moves(t, l)
    BY <1>1, <1>4 DEF threadDispose, Moves, Goto
  <2>2. l \in PCs \ {"invoke"} /\ l \notin Calling
    BY DEF PCs, Calling
  <2>3. Created
    BY <1>4 DEF Created
  <2> HIDE DEF l
  <2> QED
    BY <1>1, <1>2, <1>3, <2>1, <2>2, <2>3, QuietMoves DEF Calling
<1>5. CASE ~thread.handle
  <2>1. Advances(t)
    BY <1>1, <1>5 DEF threadDispose, Advance, Advances, IInv, TypeInv, StackType
  <2> QED
    BY <1>1, <1>2, <1>3, <2>1, QuietAdvances DEF Calling
<1> QED
  BY <1>4, <1>5

LEMMA threadJoinInv ==
  ASSUME IInv, NEW t \in Thread, threadJoin(t)
  PROVE  IInv'
<1>1. InCode(t) /\ pc[t] \notin Calling /\ \A y : ~AtCall(t, y)
  BY BusyFacts DEF threadJoin
<1>2. Moves(t, "cleanup")
  BY <1>1 DEF threadJoin, Moves, Goto
<1>3. QuietAO /\ SameThread
  BY QuietVars, SameThreadVar DEF threadJoin
<1>4. TimerType' /\ timer'.left = timer.left
  BY DEF threadJoin, IInv, TypeInv, TimerType
<1>5. Created
  BY DEF threadJoin, IInv, JoinInv
<1> QED
  BY <1>1, <1>2, <1>3, <1>4, <1>5, QuietMoves DEF Calling, PCs

LEMMA threadCleanupInv ==
  ASSUME IInv, NEW t \in Thread, threadCleanup(t)
  PROVE  IInv'
<1>1. InCode(t) /\ pc[t] \notin Calling /\ \A y : ~AtCall(t, y)
  BY BusyFacts DEF threadCleanup
<1>2. Advances(t)
  BY <1>1 DEF threadCleanup, Advances, Advance, Goto
<1>3. QuietAO
  BY QuietVars DEF threadCleanup
<1>4. TimerType' /\ timer'.left = timer.left
  BY DEF threadCleanup, IInv, TypeInv, TimerType
<1>5. Created
  BY DEF threadCleanup, IInv, JoinInv
<1>6. SameThread
  BY <1>5 DEF threadCleanup, IInv, TypeInv, TimerType, SameThread, Created
<1> QED
  BY <1>1, <1>2, <1>3, <1>4, <1>6, QuietAdvances

(* Steps in which no stack changes. *)
LEMMA StillStep ==
  ASSUME IInv, stack' = stack, NEW t \in Thread, pc' = [pc EXCEPT ![t] = "run"], pc[t] \in {"run", "invoke"},
         SameMessages, background' = background, ObjectType', TimerType',
         timer'.left = timer.left, Created' <=> Created
  PROVE  TypeInv' /\ ShapeInv' /\ JoinInv' /\ QueueInv' /\ MessageInv' /\ OnceInv'
<1> USE DEF IInv
<1>0. pc'[t] = "run" /\ \A u \in Thread : u # t => pc'[u] = pc[u]
  BY DEF TypeInv, StackType
<1>1. TypeInv' /\ QueueInv'
  <2>1. StackType'
    BY DEF TypeInv, StackType, PCs
  <2> QED
    BY <2>1, QueueSame DEF TypeInv, SameMessages, MessageType
<1>2. ShapeInv'
  <2>1. PcShape(t)'
    BY <1>0 DEF PcShape, Calling
  <2>2. \A i \in DOMAIN stack'[t] : FrameShape(t, i, stack'[t][i])
    BY DEF ShapeInv
  <2> QED
    BY <1>0, <2>1, <2>2, ShapeFrom
<1>3. JoinInv'
  BY <1>0, JoinKeeps
<1>4. MessageInv'
  <2>1. \A w \in Work : \A u \in Thread : \A l \in Calling : CallAt(u, l, w)' <=> CallAt(u, l, w)
    BY <1>0 DEF CallAt, Called, Top, Calling
  <2>2. \A w \in Work : \A u \in Thread : \A i \in Nat : \A v \in Executes :
          FrameAt(u, i, v, w)' <=> FrameAt(u, i, v, w)
    BY DEF FrameAt
  <2> QED
    BY <2>1, <2>2, MessagesSame
<1>5. OnceInv'
  <2>1. KeepsBegun
    BY BegunSame DEF SameMessages
  <2>2. KeepsFresh
    BY FreshSame DEF SameMessages
  <2>3. /\ \A x \in Once : Fresh(x) => Fresh(x)'
        /\ \A x \in Once : \A a \in Origin : Ahead(a, x)' => Ahead(a, x)
    BY <2>1, <2>2 DEF KeepsBegun, KeepsFresh, Ahead
  <2>4. /\ \A u, i, k, x : LeftAt(u, i, k, x)' <=> LeftAt(u, i, k, x)
        /\ \A u \in Thread : \A i, k : AtHead(u, i, k)' <=> AtHead(u, i, k)
    BY <1>0 DEF LeftAt, AtHead, Calling
  <2>5. OnePlace' /\ NotAhead'
    BY <2>3, <2>4 DEF OnceInv, OnePlace, NotAhead
  <2>6. LeftFresh' /\ AheadFresh'
    BY <2>3, <2>4 DEF OnceInv, LeftFresh, AheadFresh
  <2> QED
    BY <2>5, <2>6 DEF OnceInv, BackgroundInv
<1> QED
  BY <1>1, <1>2, <1>3, <1>4, <1>5

LEMMA timeoutInv ==
  ASSUME IInv, timeout
  PROVE  IInv'
<1>1. /\ stack' = stack /\ pc' = [pc EXCEPT ![Service] = "run"] /\ pc[Service] = "invoke"
      /\ SameMessages /\ UNCHANGED <<started, threadId, background, thread>>
  BY DEF timeout, Goto, SameMessages
<1>2. TimerType' /\ timer'.left = timer.left
  BY <1>1 DEF timeout, IInv, TypeInv, TimerType
<1>3. SameThread
  BY <1>1, SameThreadVar
<1>4. ObjectType'
  BY <1>1 DEF IInv, TypeInv, ObjectType
<1>5. TypeInv' /\ ShapeInv' /\ JoinInv' /\ QueueInv' /\ MessageInv' /\ OnceInv'
  BY <1>1, <1>2, <1>3, <1>4, UserInThread, StillStep DEF SameThread
<1>6. UserInv'
  BY <1>1, <1>3, UserOther DEF IInv
<1>7. StartInv'
  <2>1. \A y : ~AtCall(Service, y)
    BY <1>1, NotAtCall
  <2>2. \A u \in Thread : u # Service => stack'[u] = stack[u] /\ pc'[u] = pc[u]
    BY <1>1 DEF IInv, TypeInv, StackType
  <2> QED
    BY <1>1, <2>1, <2>2, UserInThread, StartKeeps DEF IInv
<1> QED
  BY <1>5, <1>6, <1>7 DEF IInv

LEMMA threadExitedInv ==
  ASSUME IInv, threadExited
  PROVE  IInv'
<1>0. AtEnd(User, "main") /\ User \in Thread /\ stack[User] \in Seq(Frames)
  BY UserInThread DEF threadExited, IInv, TypeInv, StackType
<1>1. /\ stack' = stack /\ pc' = [pc EXCEPT ![User] = "run"] /\ pc[User] = "run"
      /\ SameMessages /\ UNCHANGED <<started, threadId, background, timer>>
  BY <1>0, AtEndFacts DEF threadExited, SameMessages, IInv, TypeInv, StackType
<1>2. TimerType' /\ timer'.left = timer.left
  BY <1>1 DEF threadExited, IInv, TypeInv, TimerType
<1>3. /\ Created' <=> Created
      /\ thread'.exited = TRUE /\ thread'.ended = thread.ended
  BY DEF threadExited, Created, IInv, TypeInv, TimerType
<1>4. ObjectType'
  BY <1>1 DEF IInv, TypeInv, ObjectType
<1>5. TypeInv' /\ ShapeInv' /\ JoinInv' /\ QueueInv' /\ MessageInv' /\ OnceInv'
  BY <1>0, <1>1, <1>2, <1>3, <1>4, StillStep
<1>6. UserInv'
  <2>1. stack[User] # <<>> /\ Top(User).left = <<>> /\ Top(User).via = "main"
    BY <1>0, AtEndFacts
  <2>2. /\ Len(stack[User]) \in Nat /\ Len(stack[User]) >= 1 /\ Len(stack[User]) \in DOMAIN stack[User]
        /\ Top(User) = stack[User][Len(stack[User])]
    BY <1>0, <2>1, TopFacts DEF Top
  <2>3. Created
    BY <2>1 DEF IInv, UserInv
  <2>4. Len(stack[User]) = 1
    <3>0. \A i \in DOMAIN stack[User] : i > 1 => stack[User][i].via \notin Base
      BY DEF IInv, UserInv
    <3>1. ~(Len(stack[User]) > 1)
      <4>1. Top(User).via \in Base
        BY <2>1 DEF Base
      <4> HIDE DEF Top
      <4> QED
        BY <2>2, <3>0, <4>1
    <3>2. Len(stack[User]) \in Nat /\ Len(stack[User]) >= 1
      BY <2>2
    <3> DEFINE n == Len(stack[User])
    <3>3. n \in Nat /\ n >= 1 /\ ~(n > 1)
      BY <3>1, <3>2
    <3> HIDE DEF n
    <3>4. n = 1
      BY <3>3
    <3> QED
      BY <3>4 DEF n
  <2>5. stack[User][1].via \in Base /\ stack[User][1].left = <<>>
    BY <2>1, <2>2, <2>4 DEF Base
  <2> QED
    BY <1>1, <1>3, <2>3, <2>4, <2>5 DEF IInv, UserInv
<1>7. StartInv'
  <2>1. User # Boot
    BY ServiceAssumption
  <2>2. \A u \in Thread : u # User => stack'[u] = stack[u] /\ pc'[u] = pc[u]
    BY <1>1 DEF IInv, TypeInv, StackType
  <2> QED
    BY <1>0, <1>1, <2>1, <2>2, StartKeeps DEF IInv
<1> QED
  BY <1>5, <1>6, <1>7 DEF IInv

(* Objects are started by the first thread, from the bottom of its stack. *)
LEMMA StartsFromBoot ==
  ASSUME IInv, NEW t \in Thread, NEW o \in Object, AtCall(t, o)
  PROVE  /\ t = Boot /\ pc[t] = "run" /\ InCode(t) /\ Len(stack[t]) = 1
         /\ DOMAIN stack[t] = {1} /\ stack[t][1].via \in Base
<1>1. pc[t] = "run" /\ InCode(t) /\ Called(t) = o
  BY AtCallFacts
<1>2. StackType
  BY DEF IInv, TypeInv
<1>3. /\ stack[t] \in Seq(Frames) /\ stack[t] # <<>>
      /\ Len(stack[t]) \in DOMAIN stack[t] /\ Len(stack[t]) \in Nat
      /\ Top(t) = stack[t][Len(stack[t])] /\ Called(t) = Top(t).left[1] /\ 1 \in DOMAIN Top(t).left
  BY <1>1, <1>2, InCodeFacts
<1>4. FrameShape(t, Len(stack[t]), Top(t))
  BY <1>3 DEF IInv, ShapeInv
<1>5. t = Boot /\ Len(stack[t]) = 1
  BY <1>1, <1>3, <1>4 DEF FrameShape
<1>6. DOMAIN stack[t] = {1}
  BY <1>3, <1>5
<1>7. stack[t][1].via \in Base
  BY <1>3, <1>4, <1>5 DEF FrameShape
<1> QED
  BY <1>1, <1>5, <1>6, <1>7

LEMMA startInv ==
  ASSUME IInv, NEW t \in Thread, NEW o \in Object, start(t, o), UNCHANGED <<timer, thread>>
  PROVE  IInv'
<1>0. AtCall(t, o) /\ t = Boot /\ pc[t] = "run"
  BY StartsFromBoot DEF start
<1>1. stack' = stack /\ pc' = pc /\ SameMessages /\ UNCHANGED <<started, background>>
  BY DEF start, SameMessages
<1>2. TimerType' /\ timer'.left = timer.left /\ SameThread
  BY SameThreadVar DEF IInv, TypeInv, TimerType
<1>3. ObjectType'
  BY <1>1, ObjectAssumption DEF start, IInv, TypeInv, ObjectType
<1>4. pc' = [pc EXCEPT ![t] = "run"]
  BY <1>0, <1>1 DEF IInv, TypeInv, StackType
<1>5. TypeInv' /\ ShapeInv' /\ JoinInv' /\ QueueInv' /\ MessageInv' /\ OnceInv'
  BY <1>0, <1>1, <1>2, <1>3, <1>4, StillStep DEF SameThread
<1>6. UserInv'
  BY <1>1, <1>2, UserOther DEF IInv
<1>7. StartInv'
  <2>1. threadId' = [threadId EXCEPT ![o] = Owner[o]] /\ threadId[o] = None
    BY DEF start
  <2>2. \A p \in Object : AtCall(Boot, p)' <=> AtCall(Boot, p)
    BY <1>1 DEF AtCall, Running, Top
  <2>3. \A p \in Object : threadId'[p] = IF p = o THEN Owner[o] ELSE threadId[p]
    BY <2>1 DEF IInv, TypeInv, ObjectType
  <2>4. ~started[o] /\ started' = started
    BY <1>1, <2>1, WorkAssumption, ObjectAssumption DEF IInv, StartInv
  <2> QED
    BY <1>0, <2>2, <2>3, <2>4 DEF IInv, StartInv
<1> QED
  BY <1>5, <1>6, <1>7 DEF IInv

(* A stack without calls is replaced by one without calls. *)
LEMMA MessagesReplaced ==
  ASSUME IInv, NEW t \in Thread, NEW s, pc[t] = "run", pc' = [pc EXCEPT ![t] = pc'[t]], pc'[t] \notin Calling,
         stack' = [stack EXCEPT ![t] = s], SameMessages,
         \A i \in DOMAIN stack[t] : stack[t][i].via \in Base,
         \A i \in DOMAIN s : s[i].via \in Base
  PROVE  MessageInv'
<1>0. stack'[t] = s /\ \A u \in Thread : u # t => stack'[u] = stack[u] /\ pc'[u] = pc[u]
  BY DEF IInv, TypeInv, StackType
<1>1. \A w \in Work : \A u \in Thread : \A l \in Calling : CallAt(u, l, w)' <=> CallAt(u, l, w)
  BY <1>0 DEF CallAt, Called, Top, Calling
<1>2. ASSUME NEW w \in Work, NEW u \in Thread, NEW i \in Nat, NEW v \in Executes
      PROVE  FrameAt(u, i, v, w)' <=> FrameAt(u, i, v, w)
  <2>1. CASE u = t
    BY <1>0, <2>1 DEF FrameAt, Executes, Base
  <2>2. CASE u # t
    BY <1>0, <2>2 DEF FrameAt
  <2> QED
    BY <2>1, <2>2
<1> QED
  BY <1>1, <1>2, MessagesSame DEF IInv

LEMMA EmptyIsRunning ==
  ASSUME IInv, NEW t \in Thread, stack[t] = <<>>
  PROVE  pc[t] = "run"
  BY DEF IInv, ShapeInv, PcShape

LEMMA runInv ==
  ASSUME IInv, NEW o \in Object, run(o), UNCHANGED <<timer, thread>>
  PROVE  IInv'
<1> DEFINE t == Owner[o]
           f == Frame(None, <<>>, "loop")
<1>0. t \in Thread /\ t # User
  BY ObjectAssumption, ServiceAssumption
<1>1. /\ pc' = pc /\ SameMessages /\ background' = background /\ threadId' = threadId
      /\ started' = [started EXCEPT ![o] = TRUE] /\ stack' = [stack EXCEPT ![t] = <<f>>]
      /\ ~started[o] /\ threadId[o] # None
  BY DEF run, SameMessages
<1>2. AtCall(Boot, o) /\ threadId[o] = Owner[o]
  BY <1>1 DEF IInv, StartInv
<1>3. pc[t] = "run" /\ \A i \in DOMAIN stack[t] : stack[t][i].via \in Base
  <2>1. CASE stack[t] = <<>>
    BY <1>0, <2>1, EmptyIsRunning
  <2>2. CASE AtCall(t, o)
    BY <1>0, <2>2, StartsFromBoot
  <2> QED
    BY <2>1, <2>2 DEF run
<1>4. f \in Frames /\ FrameShape(t, 1, f) /\ f.via = "loop" /\ f.left = <<>> /\ f.work = None
  <2>1. f \in Frames /\ f.via = "loop" /\ f.left = <<>> /\ f.work = None
    <3>1. <<>> \in Seq(Item) /\ None \in Work \cup {None}
      OBVIOUS
    <3> QED
      BY <3>1 DEF f, Frame, Frames
  <2> HIDE DEF f
  <2> QED
    BY <2>1 DEF FrameShape, Base
<1> HIDE DEF t, f
<1>5. ShapeInv' /\ StackType'
  BY <1>0, <1>1, <1>3, <1>4, ShapeReplaced DEF IInv, TypeInv
<1>6. TypeInv' /\ QueueInv'
  <2>1. ObjectType' /\ MessageType'
    BY <1>1 DEF SameMessages, IInv, TypeInv, ObjectType, MessageType
  <2>2. TimerType'
    BY DEF IInv, TypeInv, TimerType
  <2>3. QueueType' /\ QueueInv'
    BY <1>1, QueueSame DEF SameMessages, IInv, TypeInv
  <2> QED
    BY <1>5, <2>1, <2>2, <2>3 DEF TypeInv
<1>7. UserInv' /\ JoinInv'
  <2>1. SameThread
    BY SameThreadVar
  <2>2. stack'[User] = stack[User]
    BY <1>0, <1>1, UserInThread DEF IInv, TypeInv, StackType
  <2>3. UserInv'
    BY <2>1, <2>2, UserOther DEF IInv
  <2>4. JoinInv'
    BY <1>0, <1>1, <1>3, <2>1, JoinKeeps DEF IInv, SameThread
  <2> QED
    BY <2>3, <2>4
<1>8. MessageInv'
  <2>1. \A i \in DOMAIN <<f>> : <<f>>[i].via \in Base
    BY <1>4 DEF Base
  <2>2. pc' = [pc EXCEPT ![t] = pc'[t]] /\ pc'[t] \notin Calling
    BY <1>0, <1>1, <1>3 DEF Calling, IInv, TypeInv, StackType
  <2> QED
    BY <1>0, <1>1, <1>3, <2>1, <2>2, MessagesReplaced
<1>9. OnceInv'
  <2>1. KeepsBegun
    BY <1>1, BegunSame DEF SameMessages, Created
  <2>2. KeepsFresh
    BY <1>1, FreshSame DEF SameMessages, Created
  <2>3. OnceParts /\ StackType
    BY DEF IInv, TypeInv, OnceInv, OnceParts
  <2>4. \E g \in Frames : /\ <<f>> = <<g>>
                          /\ \A k \in DOMAIN g.left : g.left[k] \in Once =>
                               /\ ~Begun(<<"callback", Service>>) /\ Begun(<<"callback", Service>>)'
                               /\ k \in DOMAIN Program(<<"callback", Service>>)
                               /\ Program(<<"callback", Service>>)[k] = g.left[k]
    <3>1. DOMAIN f.left = {}
      BY <1>4
    <3> QED
      BY <1>4, <3>1
  <2>5. OnceParts'
    BY <1>0, <1>1, <1>3, <1>5, <2>1, <2>2, <2>3, <2>4, CallbackOrigin, OnceReplaced
  <2> QED
    BY <1>1, <2>5 DEF IInv, OnceInv, OnceParts, BackgroundInv
<1>10. StartInv'
  <2>1. \A p \in Object : AtCall(Boot, p) => p = o
    BY <1>2, AtCallFacts
  <2>2. \A p \in Object : started'[p] = IF p = o THEN TRUE ELSE started[p]
    BY <1>1 DEF IInv, TypeInv, ObjectType
  <2>3. ASSUME NEW p \in Object
        PROVE  /\ threadId'[p] \in {None, Owner[p]}
               /\ started'[p] => threadId'[p] = Owner[p]
               /\ threadId'[p] # None /\ ~started'[p] => AtCall(Boot, p)'
    <3>1. /\ threadId[p] \in {None, Owner[p]}
          /\ started[p] => threadId[p] = Owner[p]
          /\ threadId[p] # None /\ ~started[p] => AtCall(Boot, p)
      BY DEF IInv, StartInv
    <3> QED
      BY <1>1, <1>2, <2>1, <2>2, <3>1
  <2> QED
    BY <2>3 DEF StartInv
<1> QED
  BY <1>5, <1>6, <1>7, <1>8, <1>9, <1>10 DEF IInv

LEMMA threadExitInv ==
  ASSUME IInv, threadExit
  PROVE  IInv'
<1>0. User \in Thread /\ User # Boot
  BY UserInThread, ServiceAssumption
<1>1. /\ pc' = pc /\ SameMessages /\ UNCHANGED <<background, threadId, started, timer>>
      /\ stack' = [stack EXCEPT ![User] = <<>>] /\ thread.exited /\ ~thread.ended
  BY DEF threadExit, SameMessages
<1>2. /\ Created /\ Len(stack[User]) = 1
      /\ stack[User][1].via \in Base /\ stack[User][1].left = <<>>
  BY <1>1 DEF IInv, UserInv
<1>3. stack[User] \in Seq(Frames) /\ stack[User] # <<>> /\ DOMAIN stack[User] = {1}
  <2>1. stack[User] \in Seq(Frames)
    BY <1>0 DEF IInv, TypeInv, StackType
  <2> QED
    BY <1>2, <2>1
<1>4. pc[User] = "run"
  <2>1. Top(User).left = <<>>
    BY <1>2 DEF Top, Last
  <2>2. User # Service
    BY ServiceAssumption
  <2> QED
    BY <1>0, <2>1, <2>2 DEF IInv, ShapeInv, PcShape
<1>5. /\ Created' /\ thread'.exited /\ thread'.ended /\ TimerType'
  BY <1>1, <1>2 DEF threadExit, Created, IInv, TypeInv, TimerType
<1>6. ShapeInv' /\ StackType'
  BY <1>0, <1>1, <1>4, ShapeReplaced DEF IInv, TypeInv
<1>7. TypeInv' /\ QueueInv'
  <2>1. ObjectType' /\ MessageType'
    BY <1>1 DEF SameMessages, IInv, TypeInv, ObjectType, MessageType
  <2>2. QueueType' /\ QueueInv'
    BY <1>1, QueueSame DEF SameMessages, IInv, TypeInv
  <2> QED
    BY <1>5, <1>6, <2>1, <2>2 DEF TypeInv
<1>8. UserInv' /\ JoinInv'
  <2>1. stack'[User] = <<>>
    BY <1>0, <1>1 DEF IInv, TypeInv, StackType
  <2>2. UserInv'
    BY <1>5, <2>1 DEF UserInv
  <2> QED
    BY <2>2, <1>5 DEF JoinInv
<1>9. MessageInv'
  <2>1. pc' = [pc EXCEPT ![User] = pc'[User]] /\ pc'[User] \notin Calling
    BY <1>0, <1>1, <1>4 DEF Calling, IInv, TypeInv, StackType
  <2>2. \A i \in DOMAIN stack[User] : stack[User][i].via \in Base
    BY <1>2, <1>3
  <2>3. \A i \in DOMAIN <<>> : <<>>[i].via \in Base
    OBVIOUS
  <2> QED
    BY <1>0, <1>1, <1>4, <2>1, <2>2, <2>3, MessagesReplaced
<1>10. OnceInv'
  <2>1. KeepsBegun
    BY <1>1, <1>5, BegunSame DEF SameMessages
  <2>2. KeepsFresh
    BY <1>1, <1>2, FreshSame DEF SameMessages
  <2>3. OnceParts /\ StackType
    BY DEF IInv, TypeInv, OnceInv, OnceParts
  <2>4. OnceParts'
    BY <1>0, <1>1, <1>4, <1>6, <2>1, <2>2, <2>3, CallbackOrigin, OnceReplaced
  <2> QED
    BY <1>1, <2>4 DEF IInv, OnceInv, OnceParts, BackgroundInv
<1>11. StartInv'
  <2>1. \A u \in Thread : u # User => stack'[u] = stack[u] /\ pc'[u] = pc[u]
    BY <1>1 DEF IInv, TypeInv, StackType
  <2> QED
    BY <1>0, <1>1, <2>1, StartKeeps DEF IInv
<1> QED
  BY <1>6, <1>7, <1>8, <1>9, <1>10, <1>11 DEF IInv

(* The programs: typed, and only the first thread's main starts objects. *)
LEMMA ProgramFacts ==
  /\ \A w \in Work : /\ Body[w] \in Seq(Item) /\ <<"body", w>> \in Origin
                     /\ Program(<<"body", w>>) = Body[w]
                     /\ \A k \in DOMAIN Body[w] : Body[w][k] \notin Object
  /\ \A o \in Object : /\ Background[o] \in Seq(Item) /\ <<"background", o>> \in Origin
                       /\ Program(<<"background", o>>) = Background[o]
                       /\ \A k \in DOMAIN Background[o] : Background[o][k] \notin Object
  /\ Callback \in Seq(Item) /\ Program(<<"callback", Service>>) = Callback
  /\ \A k \in DOMAIN Callback : Callback[k] \notin Object
  /\ Main[User] \in Seq(Item) /\ <<"main", User>> \in Origin
  /\ Program(<<"main", User>>) = Main[User]
  /\ \A k \in DOMAIN Main[User] : Main[User][k] \notin Object
<1>1. ASSUME NEW w \in Work
      PROVE  /\ Body[w] \in Seq(Item) /\ <<"body", w>> \in Origin
             /\ Program(<<"body", w>>) = Body[w]
             /\ \A k \in DOMAIN Body[w] : Body[w][k] \notin Object
  <2>1. Body[w] \in Seq(Item) /\ <<"body", w>> \in Origin /\ <<"body", w>> # <<"main", Boot>>
    BY ProgramAssumption DEF Origin
  <2>2. Program(<<"body", w>>) = Body[w]
    BY DEF Program
  <2> QED
    BY <2>1, <2>2, StartAssumption
<1>2. ASSUME NEW o \in Object
      PROVE  /\ Background[o] \in Seq(Item) /\ <<"background", o>> \in Origin
             /\ Program(<<"background", o>>) = Background[o]
             /\ \A k \in DOMAIN Background[o] : Background[o][k] \notin Object
  <2>1. /\ Background[o] \in Seq(Item) /\ <<"background", o>> \in Origin
        /\ <<"background", o>> # <<"main", Boot>>
    BY ProgramAssumption DEF Origin
  <2>2. Program(<<"background", o>>) = Background[o]
    BY DEF Program
  <2> QED
    BY <2>1, <2>2, StartAssumption
<1>3. /\ Callback \in Seq(Item) /\ Program(<<"callback", Service>>) = Callback
      /\ \A k \in DOMAIN Callback : Callback[k] \notin Object
  <2>1. Program(<<"callback", Service>>) = Callback
    BY DEF Program
  <2>2. <<"callback", Service>> # <<"main", Boot>>
    OBVIOUS
  <2> QED
    BY <2>1, <2>2, CallbackOrigin, ProgramAssumption, StartAssumption
<1>4. /\ Main[User] \in Seq(Item) /\ <<"main", User>> \in Origin
      /\ Program(<<"main", User>>) = Main[User]
      /\ \A k \in DOMAIN Main[User] : Main[User][k] \notin Object
  <2>1. Main[User] \in Seq(Item) /\ <<"main", User>> \in Origin
    BY UserInThread, ProgramAssumption DEF Origin
  <2>2. Program(<<"main", User>>) = Main[User] /\ <<"main", User>> # <<"main", Boot>>
    BY ServiceAssumption DEF Program
  <2> QED
    BY <2>1, <2>2, StartAssumption
<1> QED
  BY <1>1, <1>2, <1>3, <1>4

LEMMA invoke_timerInv ==
  ASSUME IInv, invoke_timer
  PROVE  IInv'
<1> DEFINE f == Frame(None, Callback, "callback")
           a == <<"callback", Service>>
<1>0. Service \in Thread /\ Service # User /\ Service # Boot
  BY ServiceAssumption
<1>1. /\ stack[Service] = <<>> /\ timer.left > 0 /\ pc' = [pc EXCEPT ![Service] = "invoke"]
      /\ SameMessages /\ UNCHANGED <<background, threadId, started, thread>>
      /\ timer'.left = timer.left - 1 /\ TimerType' /\ timer.left \in 0 .. MaxExpiries
  <2>1. timer \in [handle : BOOLEAN, active : BOOLEAN, running : BOOLEAN, left : 0 .. MaxExpiries]
    BY DEF IInv, TypeInv, TimerType
  <2>2. timer' = [timer EXCEPT !.left = @ - 1, !.active = ~OneShot] /\ timer.left > 0 /\ thread' = thread
    BY DEF invoke_timer
  <2>3. timer.left \in 0 .. MaxExpiries /\ timer.left - 1 \in 0 .. MaxExpiries /\ (~OneShot) \in BOOLEAN
    <3>1. timer.left \in 0 .. MaxExpiries /\ MaxExpiries \in Nat /\ timer.left > 0
      BY <2>1, <2>2, ServiceAssumption
    <3>2. timer.left - 1 \in 0 .. MaxExpiries
      BY <3>1
    <3> QED
      BY <3>1, <3>2, ServiceAssumption
  <2>4. timer'.left = timer.left - 1 /\ TimerType'
    BY <2>1, <2>2, <2>3 DEF IInv, TypeInv, TimerType
  <2> QED
    BY <2>2, <2>3, <2>4 DEF invoke_timer, SameMessages, Goto
<1>2. pc[Service] = "run"
  BY <1>0, <1>1, EmptyIsRunning
<1>3. f \in Frames /\ f.via = "callback" /\ f.left = Callback /\ f.work = None
  <2>1. Callback \in Seq(Item)
    BY ProgramFacts
  <2> QED
    BY <2>1 DEF Frame, Frames
<1>4. FrameShape(Service, 1, f)
  BY <1>3, ProgramFacts DEF FrameShape, Base
<1>5. stack' = [stack EXCEPT ![Service] = <<f>>]
  <2>1. Append(<<>>, f) = <<f>>
    BY <1>3
  <2>2. stack' = [stack EXCEPT ![Service] = Append(@, f)]
    BY DEF invoke_timer, Push
  <2> QED
    BY <1>0, <1>1, <2>1, <2>2 DEF IInv, TypeInv, StackType
<1> HIDE DEF f, a
<1>6. /\ stack'[Service] = <<f>> /\ pc'[Service] = "invoke"
      /\ \A u \in Thread : u # Service => stack'[u] = stack[u] /\ pc'[u] = pc[u]
  BY <1>0, <1>1, <1>5 DEF IInv, TypeInv, StackType
<1>7. StackType'
  <2>1. <<f>> \in Seq(Frames)
    BY <1>3
  <2>2. stack' \in [Thread -> Seq(Frames)]
    BY <1>5, <2>1 DEF IInv, TypeInv, StackType
  <2>3. pc' \in [Thread -> PCs]
    BY <1>1 DEF IInv, TypeInv, StackType, PCs
  <2> QED
    BY <2>2, <2>3 DEF StackType
<1>8. DOMAIN <<f>> = {1} /\ <<f>>[1] = f /\ <<f>> # <<>>
  OBVIOUS
<1>9. ShapeInv'
  <2>1. PcShape(Service)'
    BY <1>6, <1>8 DEF PcShape, Calling
  <2>2. \A i \in DOMAIN stack'[Service] : FrameShape(Service, i, stack'[Service][i])
    BY <1>4, <1>6, <1>8
  <2> QED
    BY <1>0, <1>6, <2>1, <2>2, ShapeFrom DEF IInv
<1>10. TypeInv' /\ QueueInv'
  <2>1. ObjectType' /\ MessageType'
    BY <1>1 DEF SameMessages, IInv, TypeInv, ObjectType, MessageType
  <2>2. QueueType' /\ QueueInv'
    BY <1>1, QueueSame DEF SameMessages, IInv, TypeInv
  <2> QED
    BY <1>1, <1>7, <2>1, <2>2 DEF TypeInv
<1>11. UserInv' /\ JoinInv'
  <2>1. SameThread
    BY <1>1, SameThreadVar
  <2>2. UserInv'
    BY <1>0, <1>6, <2>1, UserInThread, UserOther DEF IInv
  <2>3. JoinInv'
    BY <1>0, <1>6, <2>1, JoinKeeps DEF IInv, SameThread
  <2> QED
    BY <2>2, <2>3
<1>12. MessageInv'
  <2>1. pc' = [pc EXCEPT ![Service] = pc'[Service]] /\ pc'[Service] \notin Calling
    BY <1>1, <1>6 DEF Calling
  <2>2. \A i \in DOMAIN <<f>> : <<f>>[i].via \in Base
    BY <1>3, <1>8 DEF Base
  <2>3. \A i \in DOMAIN stack[Service] : stack[Service][i].via \in Base
    BY <1>1
  <2> QED
    BY <1>0, <1>1, <1>2, <1>5, <2>1, <2>2, <2>3, MessagesReplaced
<1>13. OnceInv'
  <2>0. Begun(a) <=> timer.left = 0
    BY DEF a, Begun
  <2>00. Begun(a)' <=> timer'.left = 0
    BY DEF a, Begun
  <2>1. KeepsBegun
    <3>1. \A b \in Origin : Begun(b) => Begun(b)'
      BY <1>1 DEF Begun, SameMessages, Created
    <3> QED
      BY <3>1 DEF KeepsBegun
  <2>2. KeepsFresh
    BY <1>1, FreshSame DEF SameMessages, Created
  <2>3. OnceParts /\ StackType
    BY DEF IInv, TypeInv, OnceInv, OnceParts
  <2>4. ASSUME NEW k \in DOMAIN f.left, f.left[k] \in Once
        PROVE  ~Begun(a) /\ Begun(a)' /\ k \in DOMAIN Program(a) /\ Program(a)[k] = f.left[k]
    <3>1. ~(MaxExpiries > 1)
      BY <1>3, <2>4, OnceAssumption
    <3>2. timer.left = 1
      BY <1>1, <3>1, ServiceAssumption
    <3>3. timer'.left = 0
      BY <1>1, <3>2
    <3> QED
      BY <1>3, <2>0, <2>00, <3>2, <3>3, ProgramFacts DEF a
  <2>5. \E g \in Frames : /\ <<f>> = <<g>>
                          /\ \A k \in DOMAIN g.left : g.left[k] \in Once =>
                               ~Begun(a) /\ Begun(a)' /\ k \in DOMAIN Program(a) /\ Program(a)[k] = g.left[k]
    BY <1>3, <2>4
  <2>6. a \in Origin
    BY CallbackOrigin DEF a
  <2>7. OnceParts'
    <3> DEFINE s == <<f>>
    <3>1. /\ stack' = [stack EXCEPT ![Service] = s]
          /\ s = <<>> \/ \E g \in Frames :
               /\ s = <<g>>
               /\ \A k \in DOMAIN g.left : g.left[k] \in Once =>
                    ~Begun(a) /\ Begun(a)' /\ k \in DOMAIN Program(a) /\ Program(a)[k] = g.left[k]
      BY <1>5, <2>5
    <3>2. \A u \in Thread : u # Service => pc'[u] = pc[u]
      BY <1>6
    <3> HIDE DEF s
    <3> QED
      BY <1>0, <1>2, <1>7, <2>1, <2>2, <2>3, <2>6, <3>1, <3>2, OnceReplaced
  <2> QED
    BY <1>1, <2>7 DEF IInv, OnceInv, OnceParts, BackgroundInv
<1>14. StartInv'
  BY <1>0, <1>1, <1>6, StartKeeps DEF IInv
<1> QED
  BY <1>9, <1>10, <1>11, <1>12, <1>13, <1>14 DEF IInv

LEMMA OwnerFacts ==
  ASSUME NEW o \in Object
  PROVE  Owner[o] \in Thread /\ Owner[o] # User /\ Owner[o] # Service
  BY ObjectAssumption, ServiceAssumption

LEMMA start_threadInv ==
  ASSUME IInv, NEW t \in Thread, NEW o \in Object, start_thread(t, o), UNCHANGED <<timer, thread>>
  PROVE  IInv'
<1>1. /\ pc[t] = "run" /\ InCode(t) /\ started[o] /\ \A p \in Object : AtCall(t, p) => started[p]
  BY AtCallFacts DEF start_thread
<1>2. Advances(t)
  BY <1>1 DEF start_thread, Advance, Advances, IInv, TypeInv, StackType
<1>3. QuietAO /\ SameThread
  BY QuietVars, SameThreadVar DEF start_thread
<1>4. TimerType' /\ timer'.left = timer.left
  BY DEF IInv, TypeInv, TimerType
<1> QED
  BY <1>1, <1>2, <1>3, <1>4, QuietAdvances DEF Calling

LEMMA background_endInv ==
  ASSUME IInv, NEW t \in Thread, background_end(t), UNCHANGED <<timer, thread>>
  PROVE  IInv'
<1>1. /\ pc[t] = "run" /\ stack[t] # <<>> /\ Top(t).via = "main" /\ \A y : ~AtCall(t, y)
      /\ Len(stack[t]) > 1
  BY AtEndFacts DEF background_end
<1>2. Pops(t)
  BY <1>1 DEF background_end, Pop, Pops
<1>3. QuietAO /\ SameThread
  BY QuietVars, SameThreadVar DEF background_end
<1>4. TimerType' /\ timer'.left = timer.left
  BY DEF IInv, TypeInv, TimerType
<1>5. Top(t).via \in Base
  BY <1>1 DEF Base
<1>6. t # User
  <2>1. stack[t] \in Seq(Frames)
    BY DEF IInv, TypeInv, StackType
  <2>2. Len(stack[t]) \in DOMAIN stack[t] /\ Top(t) = stack[t][Len(stack[t])]
    BY <1>1, <2>1, TopFacts DEF Top
  <2>3. \A i \in DOMAIN stack[User] : i > 1 => stack[User][i].via \notin Base
    BY DEF IInv, UserInv
  <2> QED
    BY <1>1, <1>5, <2>2, <2>3
<1> QED
  BY <1>1, <1>2, <1>3, <1>4, <1>5, <1>6, QuietPops

LEMMA background_taskInv ==
  ASSUME IInv, NEW o \in Object, background_task(o), UNCHANGED <<timer, thread>>
  PROVE  IInv'
<1> DEFINE t == Owner[o]
           f == Frame(None, background[o], "main")
           a == <<"background", o>>
<1>0. t \in Thread /\ t # User
  BY OwnerFacts
<1>1. /\ AtEnd(t, "loop") /\ background[o] # <<>>
      /\ SameMessages /\ UNCHANGED <<threadId, started, pc>>
      /\ background' = [background EXCEPT ![o] = <<>>]
      /\ stack' = [stack EXCEPT ![t] = Append(@, f)]
  BY DEF background_task, SameMessages, Push
<1>2. pc[t] = "run" /\ stack[t] # <<>> /\ \A y : ~AtCall(t, y)
  BY <1>1, AtEndFacts
<1>3. background[o] = Background[o] /\ background[o] \in Seq(Item)
  BY <1>1 DEF IInv, OnceInv, BackgroundInv, TypeInv, ObjectType
<1>4. f \in Frames /\ f.via = "main" /\ f.left = background[o] /\ f.work = None
  BY <1>3 DEF Frame, Frames
<1> HIDE DEF f
<1>5. FrameShape(t, Len(stack[t]) + 1, f)
  <2>1. \A k \in DOMAIN f.left : f.left[k] \notin Object
    BY <1>3, <1>4, ProgramFacts
  <2> QED
    BY <1>4, <2>1 DEF FrameShape, Base
<1>6. Pushes(t, stack[t], f)
  BY <1>0, <1>1, <1>2 DEF Pushes, IInv, TypeInv, StackType
<1> HIDE DEF t
<1>7. StackType /\ StackType'
  BY <1>0, <1>4, <1>6, PushesFacts DEF IInv, TypeInv
<1>8. TypeInv' /\ QueueInv'
  <2>1. ObjectType' /\ MessageType'
    BY <1>1 DEF SameMessages, IInv, TypeInv, ObjectType, MessageType
  <2>2. QueueType' /\ QueueInv'
    BY <1>1, QueueSame DEF SameMessages, IInv, TypeInv
  <2>3. TimerType'
    BY DEF IInv, TypeInv, TimerType
  <2> QED
    BY <1>7, <2>1, <2>2, <2>3 DEF TypeInv
<1>9. ShapeInv'
  BY <1>0, <1>4, <1>5, <1>6, <1>7, ShapePushes DEF IInv
<1>10. \A u \in Thread : u # t => stack'[u] = stack[u] /\ pc'[u] = pc[u]
  BY <1>0, <1>4, <1>6, <1>7, PushesFacts
<1>11. UserInv' /\ JoinInv'
  <2>1. SameThread
    BY SameThreadVar
  <2>2. UserInv'
    BY <1>0, <1>4, <1>6, <1>7, <2>1, UserPushes DEF IInv
  <2>3. JoinInv'
    BY <1>0, <1>1, <1>2, <1>10, <2>1, JoinKeeps DEF IInv, SameThread
  <2> QED
    BY <2>2, <2>3
<1>12. MessageInv'
  <2>1. \A w \in Work : \A u \in Thread : \A l \in Calling : CallAt(u, l, w)' <=> CallAt(u, l, w)
    BY <1>0, <1>4, <1>6, <1>7, CallsPushes
  <2>2. \A u \in Thread : \A i \in Nat : \A v, w :
          FrameAt(u, i, v, w)' <=> \/ FrameAt(u, i, v, w)
                                   \/ u = t /\ i = Len(stack[t]) + 1 /\ f.via = v /\ f.work = w
    BY <1>0, <1>4, <1>6, <1>7, CallsPushes
  <2>3. \A w \in Work : \A u \in Thread : \A i \in Nat : \A v \in Executes :
          FrameAt(u, i, v, w)' <=> FrameAt(u, i, v, w)
    BY <1>4, <2>2 DEF Executes
  <2> QED
    BY <1>1, <2>1, <2>3, MessagesSame DEF IInv
<1>13. OnceInv'
  <2>0. /\ Begun(a) <=> background[o] = <<>>
        /\ Begun(a)' <=> background'[o] = <<>>
    BY DEF Begun
  <2>1. /\ \A p \in Object : background'[p] = IF p = o THEN <<>> ELSE background[p]
        /\ background'[o] = <<>>
    BY <1>1 DEF IInv, TypeInv, ObjectType
  <2>2. KeepsBegun
    <3>1. ASSUME NEW b \in Origin, Begun(b) PROVE Begun(b)'
      <4>1. CASE b[1] = "background" /\ b[2] \in Object
        BY <2>1, <3>1, <4>1 DEF Begun
      <4>2. CASE b[1] # "background"
        BY <1>1, <3>1, <4>2 DEF Begun, SameMessages, Created
      <4> QED
        BY <4>1, <4>2 DEF Origin
    <3> QED
      BY <3>1 DEF KeepsBegun
  <2>3. KeepsFresh
    BY <1>1, FreshSame DEF SameMessages, Created
  <2>4. OnceParts
    BY DEF IInv, OnceInv, OnceParts
  <2>5. a \in Origin /\ Program(a) = Background[o]
    BY ProgramFacts
  <2> HIDE DEF a
  <2>6. \A k \in DOMAIN f.left : f.left[k] \in Once =>
           ~Begun(a) /\ Begun(a)' /\ k \in DOMAIN Program(a) /\ Program(a)[k] = f.left[k]
    BY <1>1, <1>3, <1>4, <2>0, <2>1, <2>5
  <2>7. OnceParts'
    BY <1>0, <1>4, <1>6, <1>7, <2>2, <2>3, <2>4, <2>5, <2>6, OncePushes DEF KeepsFresh
  <2>8. BackgroundInv'
    BY <2>1 DEF IInv, OnceInv, BackgroundInv
  <2> QED
    BY <2>7, <2>8 DEF OnceInv, OnceParts
<1>14. StartInv'
  BY <1>0, <1>1, <1>2, <1>10, StartKeeps DEF IInv
<1> QED
  BY <1>8, <1>9, <1>11, <1>12, <1>13, <1>14 DEF IInv

LEMMA processEmptyInv ==
  ASSUME IInv, NEW o \in Object, process(o), queue[o] = <<>>, UNCHANGED <<timer, thread>>
  PROVE  IInv'
<1> DEFINE t == Owner[o]
<1>0. t \in Thread
  BY OwnerFacts
<1>1. /\ AtCall(t, Process) /\ stack' = [stack EXCEPT ![t] = Advanced(stack[t])]
      /\ UNCHANGED <<queue, runs, started, threadId, pc, mem, result, complete, background, answer>>
  BY DEF process
<1>2. pc[t] = "run" /\ InCode(t) /\ \A p \in Object : ~AtCall(t, p)
  BY <1>1, AtCallFacts, ItemKinds
<1>3. Advances(t)
  BY <1>0, <1>1, <1>2 DEF Advances, IInv, TypeInv, StackType
<1>4. QuietAO /\ SameThread
  BY <1>1, QuietVars, SameThreadVar
<1>5. TimerType' /\ timer'.left = timer.left
  BY DEF IInv, TypeInv, TimerType
<1> HIDE DEF t
<1> QED
  BY <1>0, <1>2, <1>3, <1>4, <1>5, QuietAdvances DEF Calling

-----------------------------------------------------------------------------
(* The steps of a call.                                                     *)

(* A work about to be called is fresh. *)
LEMMA AtCallFresh ==
  ASSUME IInv, NEW t \in Thread, NEW x \in Once, AtCall(t, x)
  PROVE  Fresh(x)
<1>1. pc[t] = "run" /\ InCode(t) /\ Called(t) = x
  BY AtCallFacts
<1>2. LeftAt(t, Len(stack[t]), 1, x) /\ Len(stack[t]) \in Nat /\ 1 \in Nat
  BY <1>1, CalledAt DEF IInv, TypeInv
<1>3. ~AtHead(t, Len(stack[t]), 1)
  BY <1>1 DEF AtHead, Calling
<1> DEFINE n == Len(stack[t])
<1>4. n \in Nat /\ LeftAt(t, n, 1, x) /\ ~AtHead(t, n, 1)
  BY <1>2, <1>3
<1> HIDE DEF n
<1> QED
  BY <1>2, <1>4 DEF IInv, OnceInv, LeftFresh

(* Nobody has a fresh work. *)
LEMMA FreshFacts ==
  ASSUME NEW w \in Work, LifeInv(w), Fresh(w)
  PROVE  /\ mem[w] = "none" /\ runs[w] = 0 /\ answer[w] = None /\ complete[w] # 1
         /\ ~Queued(w) /\ \A v \in Executes : ~Framed(v, w)
         /\ \A l \in Calling : ~Calls(l, w)
         /\ \A v \in Executes : \A t \in Thread : \A i \in Nat : ~FrameAt(t, i, v, w)
         /\ \A l \in Calling : \A t \in Thread : ~CallAt(t, l, w)
<1>1. mem[w] = "none" /\ runs[w] = 0
  BY ProgramAssumption DEF Fresh
<1>2. answer[w] = None /\ complete[w] # 1
  BY <1>1 DEF LifeInv, Answered, Complete
<1>3. ~Queued(w) /\ ~Calls("put", w) /\ ~Calls("wait", w) /\ ~Calls("get", w)
  BY <1>1 DEF LifeInv, Putting, Waiting, Getting, InQueue, Held
<1>4. ~Framed("task", w) /\ ~Framed("done", w) /\ ~Framed("direct", w)
  BY <1>1 DEF LifeInv, InTask, InDone, Direct, Held
<1>5. \A l \in Calling : ~Calls(l, w)
  BY <1>3 DEF Calling
<1>6. \A v \in Executes : ~Framed(v, w)
  BY <1>4 DEF Executes
<1>7. \A l \in Calling : \A t \in Thread : ~CallAt(t, l, w)
  BY <1>5 DEF Calls
<1>8. \A v \in Executes : \A t \in Thread : \A i \in Nat : ~FrameAt(t, i, v, w)
  BY <1>6 DEF Framed
<1> QED
  BY <1>1, <1>2, <1>3, <1>5, <1>6, <1>7, <1>8

(* A step that concerns the work w. *)
LEMMA MessageStep ==
  ASSUME MessageInv, NEW w \in Work, LifeInv(w)', \A v \in Work : v # w => SameLife(v)
  PROVE  MessageInv'
<1>1. ASSUME NEW v \in Work PROVE LifeInv(v)'
  <2>1. CASE v = w
    BY <2>1
  <2>2. CASE v # w
    BY <2>2, LifeSame DEF MessageInv
  <2> QED
    BY <2>1, <2>2
<1> QED
  BY <1>1 DEF MessageInv

(* Only what is said of w changes. *)
SameBut(w) ==
  \A v \in Work : v # w =>
    /\ mem'[v] = mem[v] /\ result'[v] = result[v] /\ complete'[v] = complete[v]
    /\ runs'[v] = runs[v] /\ answer'[v] = answer[v]

(* The types and the invariants that a step of a call on w leaves alone. *)
LEMMA BegunGrows ==
  ASSUME \A w \in Work : runs[w] > 0 => runs'[w] > 0, background' = background, UNCHANGED <<timer, thread>>
  PROVE  KeepsBegun
<1>1. ASSUME NEW b \in Origin, Begun(b) PROVE Begun(b)'
  <2>1. CASE b[1] = "body"
    <3>1. b[2] \in Work
      BY <2>1 DEF Origin
    <3> QED
      BY <1>1, <2>1, <3>1 DEF Begun
  <2>2. CASE b[1] # "body"
    BY <1>1, <2>2 DEF Begun, Created
  <2> QED
    BY <2>1, <2>2
<1> QED
  BY <1>1 DEF KeepsBegun

LEMMA FreshBut ==
  ASSUME NEW w \in Work, SameBut(w), thread' = thread
  PROVE  \A x \in Once : Fresh(x) => Fresh(x)' \/ x = w
  BY ProgramAssumption DEF SameBut, Fresh, Created, Once

(* Works with a message are not fresh. *)
LEMMA FreshOthers ==
  ASSUME NEW w \in Work, SameBut(w), thread' = thread, ~Fresh(w)
  PROVE  KeepsFresh
  BY FreshBut DEF KeepsFresh

(* invoke() allocates: the caller goes on to put. *)
LEMMA invokeRemoteLife ==
  ASSUME IInv, NEW t \in Thread, NEW w \in Work, invoke(t, w), isRemote(t, On[w])
  PROVE  MessageInv'
<1>1. AtCall(t, w) /\ pc[t] = "run" /\ InCode(t) /\ Called(t) = w
  BY AtCallFacts DEF invoke
<1>2. Fresh(w) /\ LifeInv(w) /\ StackType
  BY <1>1, AtCallFresh DEF IInv, MessageInv, TypeInv, Once
<1>3. Moves(t, "put") /\ "put" \in PCs
  BY <1>1 DEF invoke, Moves, Goto, PCs
<1>4. /\ mem' = [mem EXCEPT ![w] = "live"]
      /\ UNCHANGED <<queue, result, complete, runs, answer>>
  BY DEF invoke
<1>5. /\ mem[w] = "none" /\ runs[w] = 0 /\ answer[w] = None /\ complete[w] # 1
      /\ ~Queued(w)
      /\ \A v \in Executes : \A u \in Thread : \A i \in Nat : ~FrameAt(u, i, v, w)
      /\ \A l \in Calling : \A u \in Thread : ~CallAt(u, l, w)
  BY <1>2, FreshFacts
<1>6. /\ \A u \in Thread : \A m \in Calling : \A v :
           CallAt(u, m, v)' <=> IF u = t THEN m = "put" /\ w = v ELSE CallAt(u, m, v)
      /\ \A u \in Thread : \A i \in Nat : \A a, v : FrameAt(u, i, a, v)' <=> FrameAt(u, i, a, v)
      /\ \A v : Queued(v)' <=> Queued(v)
  BY <1>1, <1>2, <1>3, <1>4, CallsMoves, QueueSame
<1>7. /\ mem'[w] = "live" /\ runs'[w] = 0 /\ answer'[w] = None /\ complete'[w] = 0
      /\ \A v \in Work : v # w => mem'[v] = mem[v]
  BY <1>4, <1>5 DEF IInv, TypeInv, MessageType
<1>8. ASSUME NEW v \in Work, v # w PROVE SameLife(v)
  <2>1. \A u \in Thread : \A m \in Calling : CallAt(u, m, v)' <=> CallAt(u, m, v)
    BY <1>1, <1>6, <1>8 DEF CallAt, Calling
  <2> QED
    BY <1>4, <1>6, <1>7, <1>8, <2>1 DEF SameLife
<1>9. LifeInv(w)'
  <2>1. \A u \in Thread : \A m \in Calling : CallAt(u, m, w)' <=> u = t /\ m = "put"
    BY <1>5, <1>6
  <2>2. Calls("put", w)' /\ ~Calls("wait", w)' /\ ~Calls("get", w)'
    BY <2>1 DEF Calls, Calling
  <2>3. ~Framed("task", w)' /\ ~Framed("done", w)' /\ ~Framed("direct", w)' /\ ~Queued(w)'
    BY <1>5, <1>6 DEF Framed, Executes
  <2>4. OneCaller(w)'
    BY <2>1 DEF OneCaller
  <2>5. OneFrame(w)'
    BY <1>5, <1>6 DEF OneFrame
  <2>6. Putting(w)' /\ Waiting(w)' /\ Getting(w)' /\ InQueue(w)'
    BY <1>7, <2>2, <2>3 DEF Putting, Waiting, Getting, InQueue, Held
  <2>7. InTask(w)' /\ InDone(w)' /\ Complete(w)' /\ Direct(w)'
    BY <1>7, <2>2, <2>3 DEF InTask, InDone, Complete, Direct, Held
  <2>8. Owned(w)' /\ Answered(w)'
    BY <1>7, <2>2 DEF Owned, Answered, Calling
  <2> QED
    BY <2>4, <2>5, <2>6, <2>7, <2>8 DEF LifeInv
<1> QED
  BY <1>8, <1>9, MessageStep DEF IInv


(* The rest of the invariant, when a step of a call changes the stack of    *)
(* its thread t and the messages.                                           *)
CallOnly == UNCHANGED <<started, threadId, background, timer, thread>> /\ KeepsBegun
MessageSide == MessageType' /\ QueueType' /\ QueueInv' /\ MessageInv'

LEMMA CallRest ==
  ASSUME IInv, CallOnly, MessageSide, StackType', ShapeInv', UserInv', OnceParts', NEW t \in Thread,
         \A u \in Thread : u # t => stack'[u] = stack[u] /\ pc'[u] = pc[u],
         pc'[t] \notin {"join", "cleanup"}, \A o \in Object : ~AtCall(t, o)
  PROVE  IInv'
<1>1. TypeInv' /\ QueueInv' /\ MessageInv'
  BY DEF MessageSide, CallOnly, IInv, TypeInv, ObjectType, TimerType
<1>2. Created => Created'
  BY DEF CallOnly, Created
<1>3. JoinInv'
  BY <1>2, JoinKeeps DEF IInv
<1>4. OnceInv'
  BY DEF CallOnly, IInv, OnceInv, OnceParts, BackgroundInv
<1>5. StartInv'
  BY StartKeeps DEF IInv, CallOnly
<1> QED
  BY <1>1, <1>3, <1>4, <1>5 DEF IInv

LEMMA CallMoves ==
  ASSUME IInv, CallOnly, MessageSide, NEW t \in Thread, NEW l \in Calling, Moves(t, l), Called(t) \in Work,
         \A o \in Object : ~AtCall(t, o), \A x \in Once : Fresh(x) => Fresh(x)' \/ x = Called(t)
  PROVE  IInv'
<1>1. /\ l \in PCs \ {"invoke"} /\ l \notin {"join", "cleanup"} /\ StackType /\ ShapeInv /\ UserInv
      /\ OnceParts /\ KeepsBegun /\ SameThread
  BY SameThreadVar DEF Calling, PCs, IInv, TypeInv, OnceInv, OnceParts, CallOnly
<1>2. StackType' /\ stack' = stack /\ pc'[t] = l /\ \A u \in Thread : u # t => pc'[u] = pc[u]
  BY <1>1, MovesFacts
<1>3. ShapeInv'
  BY <1>1, ShapeMoves
<1>4. UserInv'
  BY <1>1, <1>2, UserOther
<1>5. OnceParts'
  BY <1>1, OnceMoves
<1> QED
  BY <1>1, <1>2, <1>3, <1>4, <1>5, CallRest

LEMMA CallAdvances ==
  ASSUME IInv, CallOnly, MessageSide, NEW t \in Thread, Advances(t),
         \A o \in Object : ~AtCall(t, o), KeepsFresh
  PROVE  IInv'
<1>1. StackType /\ ShapeInv /\ UserInv /\ OnceParts /\ KeepsBegun /\ SameThread
  BY SameThreadVar DEF IInv, TypeInv, OnceInv, OnceParts, CallOnly
<1>2. StackType' /\ pc'[t] = "run" /\ \A u \in Thread : u # t => stack'[u] = stack[u] /\ pc'[u] = pc[u]
  BY <1>1, AdvancesFacts
<1>3. ShapeInv' /\ UserInv'
  BY <1>1, ShapeAdvances, UserAdvances
<1>5. OnceParts'
  BY <1>1, OnceAdvances DEF KeepsFresh
<1> QED
  BY <1>2, <1>3, <1>5, CallRest

LEMMA CallPops ==
  ASSUME IInv, CallOnly, MessageSide, NEW t \in Thread, Pops(t), Top(t).via \notin Base,
         \A o \in Object : ~AtCall(t, o), KeepsFresh
  PROVE  IInv'
<1>1. StackType /\ ShapeInv /\ UserInv /\ OnceParts /\ KeepsBegun /\ SameThread
  BY SameThreadVar DEF IInv, TypeInv, OnceInv, OnceParts, CallOnly
<1>2. StackType' /\ pc'[t] = "run" /\ \A u \in Thread : u # t => stack'[u] = stack[u] /\ pc'[u] = pc[u]
  BY <1>1, PopsFacts
<1>3. ShapeInv' /\ UserInv'
  BY <1>1, ShapePops, UserPops
<1>5. OnceParts'
  BY <1>1, OncePops
<1> QED
  BY <1>2, <1>3, <1>5, CallRest

(* A work begins. *)
LEMMA CallBegins ==
  ASSUME IInv, CallOnly, MessageSide, NEW t \in Thread, NEW w \in Work, NEW v \in {"direct", "task"},
         NEW s, Pushes(t, s, Frame(w, Body[w], v)), stack[t] # <<>>, t = User => InCode(User),
         runs[w] = 0, runs'[w] = 1, \A o \in Object : ~AtCall(t, o),
         \A x \in Once : Fresh(x) => Fresh(x)' \/ (x = Called(t) /\ s # stack[t])
  PROVE  IInv'
<1> DEFINE f == Frame(w, Body[w], v)
           a == <<"body", w>>
<1>1. StackType /\ ShapeInv /\ UserInv /\ OnceParts /\ KeepsBegun /\ SameThread
  BY SameThreadVar DEF IInv, TypeInv, OnceInv, OnceParts, CallOnly
<1>2. f \in Frames /\ f.via = v /\ f.left = Body[w] /\ f.work = w
  <2>1. Body[w] \in Seq(Item)
    BY ProgramFacts
  <2> QED
    BY <2>1 DEF Frame, Frames
<1>3. a \in Origin /\ Program(a) = Body[w] /\ ~Begun(a) /\ Begun(a)'
  BY ProgramFacts DEF Begun
<1>4. \A k \in DOMAIN Body[w] : Body[w][k] \notin Object
  BY ProgramFacts
<1>5. Pushes(t, s, f)
  OBVIOUS
<1> HIDE DEF f, a
<1>6. /\ StackType' /\ pc'[t] = "run" /\ \A u \in Thread : u # t => stack'[u] = stack[u] /\ pc'[u] = pc[u]
  BY <1>1, <1>2, <1>5, PushesFacts
<1>7. FrameShape(t, Len(stack[t]) + 1, f)
  <2>1. stack[t] \in Seq(Frames)
    BY <1>1 DEF StackType
  <2>2. Len(stack[t]) \in Nat /\ Len(stack[t]) >= 1
    BY <2>1, TopFacts
  <2> QED
    BY <1>2, <1>4, <2>2, WorkAssumption DEF FrameShape, Base
<1>8. ShapeInv'
  BY <1>1, <1>2, <1>5, <1>7, ShapePushes
<1>9. UserInv'
  BY <1>1, <1>2, <1>5, UserPushes DEF Base
<1>10. \A k \in DOMAIN f.left : f.left[k] \in Once =>
         ~Begun(a) /\ Begun(a)' /\ k \in DOMAIN Program(a) /\ Program(a)[k] = f.left[k]
  BY <1>2, <1>3
<1>11. OnceParts'
  BY <1>1, <1>2, <1>3, <1>5, <1>10, OncePushes
<1> QED
  BY <1>6, <1>8, <1>9, <1>11, CallRest

(* invoke(), to another thread. *)
LEMMA invokeRemoteInv ==
  ASSUME IInv, NEW t \in Thread, NEW w \in Work, invoke(t, w), isRemote(t, On[w]),
         UNCHANGED <<timer, thread>>
  PROVE  IInv'
<1>1. AtCall(t, w) /\ InCode(t) /\ Called(t) = w /\ \A o \in Object : ~AtCall(t, o)
  BY AtCallFacts, ItemKinds DEF invoke
<1>2. Moves(t, "put") /\ "put" \in Calling
  BY <1>1 DEF invoke, Moves, Goto, Calling
<1>3. /\ mem' = [mem EXCEPT ![w] = "live"]
      /\ UNCHANGED <<queue, result, complete, runs, answer, started, threadId, background>>
  BY DEF invoke
<1>4. CallOnly
  BY <1>3, BegunGrows DEF CallOnly
<1>5. MessageSide
  <2>1. MessageType'
    BY <1>3 DEF IInv, TypeInv, MessageType
  <2>2. QueueType' /\ QueueInv'
    BY <1>3, QueueSame DEF IInv, TypeInv
  <2> QED
    BY <2>1, <2>2, invokeRemoteLife DEF MessageSide
<1>6. SameBut(w)
  BY <1>3 DEF SameBut, IInv, TypeInv, MessageType
<1>7. \A x \in Once : Fresh(x) => Fresh(x)' \/ x = Called(t)
  BY <1>1, <1>6, FreshBut
<1> QED
  BY <1>1, <1>2, <1>4, <1>5, <1>7, CallMoves


(* A stack that was advanced is another one. *)
LEMMA AdvancedDiffers ==
  ASSUME StackType, NEW t \in Thread, InCode(t)
  PROVE  Advanced(stack[t]) # stack[t]
<1> DEFINE n == Len(stack[t])
<1>1. /\ stack[t] \in Seq(Frames) /\ stack[t] # <<>> /\ Last(stack[t]).left # <<>>
      /\ n \in DOMAIN stack[t] /\ stack[t][n] = Top(t) /\ Top(t).left \in Seq(Item) /\ Top(t).left # <<>>
  BY InCodeFacts DEF InCode
<1>2. Advanced(stack[t])[n].left = Tail(stack[t][n].left)
  BY <1>1, AdvancedFacts
<1>3. Tail(stack[t][n].left) # stack[t][n].left
  <2>1. ASSUME NEW p \in Seq(Item), p # <<>> PROVE Len(Tail(p)) # Len(p)
    BY <2>1
  <2> QED
    BY <1>1, <2>1
<1> QED
  BY <1>2, <1>3

(* invoke(), on the spot. *)
LEMMA invokeDirectInv ==
  ASSUME IInv, NEW t \in Thread, NEW w \in Work, invoke(t, w), ~isRemote(t, On[w]),
         UNCHANGED <<timer, thread>>
  PROVE  IInv'
<1> DEFINE f == Frame(w, Body[w], "direct")
           s == Advanced(stack[t])
           n == Len(stack[t])
<1>1. AtCall(t, w) /\ pc[t] = "run" /\ InCode(t) /\ Called(t) = w /\ \A o \in Object : ~AtCall(t, o)
  BY AtCallFacts, ItemKinds DEF invoke
<1>2. Fresh(w) /\ LifeInv(w) /\ StackType /\ stack[t] # <<>>
  BY <1>1, AtCallFresh DEF IInv, MessageInv, TypeInv, Once, InCode
<1>3. /\ runs' = [runs EXCEPT ![w] = @ + 1] /\ stack' = [stack EXCEPT ![t] = Append(s, f)]
      /\ UNCHANGED <<mem, pc, queue, result, complete, answer, started, threadId, background>>
  BY DEF invoke, Begin
<1>4. Pushes(t, s, f) /\ s # stack[t]
  BY <1>1, <1>2, <1>3, AdvancedDiffers DEF Pushes
<1>5. /\ mem[w] = "none" /\ runs[w] = 0 /\ answer[w] = None /\ complete[w] # 1
      /\ ~Queued(w)
      /\ \A v \in Executes : \A u \in Thread : \A i \in Nat : ~FrameAt(u, i, v, w)
      /\ \A l \in Calling : \A u \in Thread : ~CallAt(u, l, w)
  BY <1>2, FreshFacts
<1>6. f \in Frames /\ f.via = "direct" /\ f.left = Body[w] /\ f.work = w
  <2>1. Body[w] \in Seq(Item)
    BY ProgramFacts
  <2> QED
    BY <2>1 DEF Frame, Frames
<1>7. runs'[w] = 1 /\ SameBut(w) /\ MessageType'
  BY <1>3, <1>5 DEF SameBut, IInv, TypeInv, MessageType
<1>8. CallOnly
  BY <1>3, <1>5, <1>7, BegunGrows DEF CallOnly, SameBut
<1> HIDE DEF f, s
<1>9. /\ \A u \in Thread : \A l \in Calling : \A v : CallAt(u, l, v)' <=> CallAt(u, l, v)
      /\ \A u \in Thread : \A i \in Nat : \A a, v :
           FrameAt(u, i, a, v)' <=> \/ FrameAt(u, i, a, v)
                                    \/ u = t /\ i = n + 1 /\ a = "direct" /\ v = w
      /\ \A v : Queued(v)' <=> Queued(v)
  <2>1. \A u \in Thread : \A l \in Calling : \A v : CallAt(u, l, v)' <=> CallAt(u, l, v)
    BY <1>2, <1>4, <1>6, CallsPushes
  <2>2. \A u \in Thread : \A i \in Nat : \A a, v :
          FrameAt(u, i, a, v)' <=> \/ FrameAt(u, i, a, v)
                                   \/ u = t /\ i = Len(stack[t]) + 1 /\ f.via = a /\ f.work = v
    BY <1>2, <1>4, <1>6, CallsPushes
  <2>3. \A u \in Thread : \A i \in Nat : \A a, v :
          FrameAt(u, i, a, v)' <=> \/ FrameAt(u, i, a, v)
                                   \/ u = t /\ i = n + 1 /\ a = "direct" /\ v = w
    BY <2>2, <1>6
  <2> QED
    BY <1>3, <2>1, <2>3, QueueSame
<1> HIDE DEF n
<1>10. ASSUME NEW v \in Work, v # w PROVE SameLife(v)
  <2>1. \A u \in Thread : \A i \in Nat : \A a \in Executes : FrameAt(u, i, a, v)' <=> FrameAt(u, i, a, v)
    BY <1>9, <1>10
  <2> QED
    BY <1>7, <1>9, <1>10, <2>1 DEF SameLife, SameBut
<1>11. LifeInv(w)'
  <2>1. \A u \in Thread : \A l \in Calling : ~CallAt(u, l, w)'
    BY <1>5, <1>9
  <2>2. ~Calls("put", w)' /\ ~Calls("wait", w)' /\ ~Calls("get", w)'
    BY <2>1 DEF Calls, Calling
  <2>3. \A u \in Thread : \A i \in Nat : \A a \in Executes :
          FrameAt(u, i, a, w)' <=> u = t /\ i = n + 1 /\ a = "direct"
    BY <1>5, <1>9
  <2>4. ~Framed("task", w)' /\ ~Framed("done", w)' /\ ~Queued(w)'
    BY <1>5, <1>9, <2>3 DEF Framed, Executes
  <2>5. OneCaller(w)'
    BY <2>1 DEF OneCaller
  <2>6. OneFrame(w)'
    BY <2>3 DEF OneFrame
  <2>7. mem'[w] = "none" /\ runs'[w] = 1 /\ answer'[w] = None /\ complete'[w] # 1
    BY <1>3, <1>5, <1>7
  <2>8. Putting(w)' /\ Waiting(w)' /\ Getting(w)' /\ InQueue(w)'
    BY <2>2, <2>4 DEF Putting, Waiting, Getting, InQueue, Held
  <2>9. InTask(w)' /\ InDone(w)' /\ Complete(w)' /\ Direct(w)' /\ Owned(w)' /\ Answered(w)'
    BY <2>4, <2>7 DEF InTask, InDone, Complete, Direct, Owned, Answered, Held
  <2> QED
    BY <2>5, <2>6, <2>8, <2>9 DEF LifeInv
<1>12. MessageInv'
  BY <1>10, <1>11, MessageStep DEF IInv
<1>13. MessageSide
  BY <1>3, <1>7, <1>12, QueueSame DEF MessageSide, IInv, TypeInv
<1>14. \A x \in Once : Fresh(x) => Fresh(x)' \/ (x = Called(t) /\ s # stack[t])
  BY <1>1, <1>4, <1>7, FreshBut
<1> QED
  <2>1. Pushes(t, s, Frame(w, Body[w], "direct"))
    BY <1>4 DEF f
  <2>2. t = User => InCode(User)
    BY <1>1
  <2> QED
    BY <1>1, <1>2, <1>5, <1>7, <1>8, <1>13, <1>14, <2>1, <2>2, CallBegins


(* A thread inside a call has the message of the work it calls, alone. *)
LEMMA CallingFacts ==
  ASSUME IInv, NEW t \in Thread, pc[t] \in Calling
  PROVE  /\ InCode(t) /\ Called(t) \in Work /\ StackType /\ LifeInv(Called(t))
         /\ \A o \in Object : ~AtCall(t, o)
         /\ Calls(pc[t], Called(t)) /\ mem[Called(t)] = "live" /\ answer[Called(t)] = None
         /\ ~Fresh(Called(t)) /\ ~Framed("direct", Called(t))
         /\ \A u \in Thread : \A l \in Calling : CallAt(u, l, Called(t)) <=> u = t /\ l = pc[t]
<1> DEFINE w == Called(t)
<1>1. InCode(t) /\ w \in Work
  BY DEF IInv, ShapeInv, PcShape, Calling, InCode
<1> HIDE DEF w
<1>2. LifeInv(w) /\ StackType
  BY <1>1 DEF IInv, MessageInv, TypeInv
<1>3. CallAt(t, pc[t], w)
  BY DEF CallAt, w
<1>4. Calls(pc[t], w)
  BY <1>3 DEF Calls
<1>5. mem[w] = "live" /\ answer[w] = None
  BY <1>2, <1>4 DEF LifeInv, Putting, Waiting, Getting, Held, Calling
<1>6. ~Fresh(w) /\ ~Framed("direct", w)
  BY <1>1, <1>2, <1>5, ProgramAssumption DEF Fresh, LifeInv, Direct
<1>7. ASSUME NEW u \in Thread, NEW l \in Calling, CallAt(u, l, w) PROVE u = t /\ l = pc[t]
  <2>1. u = t
    BY <1>2, <1>3, <1>7 DEF LifeInv, OneCaller
  <2> QED
    BY <2>1, <1>7 DEF CallAt
<1>8. \A o \in Object : ~AtCall(t, o)
  BY NotAtCall DEF Calling
<1> QED
  BY <1>1, <1>2, <1>3, <1>4, <1>5, <1>6, <1>7, <1>8 DEF w

(* os_queue_put adds at the end. *)
LEMMA QueueAppend ==
  ASSUME QueueType, QueueInv, NEW w \in Work, ~Queued(w), Len(queue[On[w]]) < QueueSize[On[w]],
         queue' = [queue EXCEPT ![On[w]] = Append(@, w)]
  PROVE  /\ QueueType' /\ QueueInv'
         /\ \A v : Queued(v)' <=> Queued(v) \/ v = w
<1> DEFINE o == On[w]
           q == queue[o]
           n == Len(q)
<1>1. o \in Object /\ q \in Seq(Work) /\ n \in Nat /\ DOMAIN q = 1 .. n
  BY WorkAssumption DEF QueueType
<1>2. /\ queue'[o] = Append(q, w) /\ \A p \in Object : p # o => queue'[p] = queue[p]
      /\ DOMAIN queue' = Object
  BY <1>1 DEF QueueType
<1>3. /\ Append(q, w) \in Seq(Work) /\ Len(Append(q, w)) = n + 1 /\ DOMAIN Append(q, w) = 1 .. n + 1
      /\ \A k \in 1 .. n : Append(q, w)[k] = q[k]
      /\ Append(q, w)[n + 1] = w
  BY <1>1
<1>4. \A k \in 1 .. n : q[k] # w
  BY <1>1 DEF Queued
<1>5. QueueSize[o] \in Nat /\ n < QueueSize[o]
  BY <1>1, ObjectAssumption
<1>6. QueueType'
  <2>1. queue' \in [Object -> Seq(Work)]
    BY <1>1, <1>3 DEF QueueType
  <2>2. \A p \in Object : Len(queue'[p]) <= QueueSize[p]
    BY <1>1, <1>2, <1>3, <1>5 DEF QueueType
  <2> QED
    BY <2>1, <2>2 DEF QueueType
<1> HIDE DEF q, n, o
<1>7. ASSUME NEW p \in Object, NEW k \in DOMAIN queue'[p]
      PROVE  /\ On[queue'[p][k]] = p
             /\ \A l \in DOMAIN queue'[p] : queue'[p][k] = queue'[p][l] => k = l
  <2>1. CASE p # o
    BY <2>1, <1>2, <1>7 DEF QueueInv
  <2>2. CASE p = o
    <3>1. \A i, j \in 1 .. n : On[q[i]] = o /\ (q[i] = q[j] => i = j)
      BY <1>1 DEF QueueInv, q
    <3>2. On[w] = o
      BY DEF o
    <3> QED
      BY <1>1, <1>2, <1>3, <1>4, <2>2, <3>1, <3>2
  <2> QED
    BY <2>1, <2>2
<1>8. QueueInv'
  BY <1>7 DEF QueueInv
<1>9. ASSUME NEW v PROVE Queued(v)' <=> Queued(v) \/ v = w
  <2>1. ASSUME NEW p \in Object, p # o PROVE queue'[p] = queue[p]
    BY <1>2, <2>1
  <2>2. (\E k \in DOMAIN queue'[o] : queue'[o][k] = v) <=> (\E k \in DOMAIN queue[o] : queue[o][k] = v) \/ v = w
    <3>1. queue[o] = q
      BY DEF q
    <3>2. n + 1 \in 1 .. n + 1 /\ \A k \in 1 .. n : k \in 1 .. n + 1
      BY <1>1
    <3>3. \A k \in 1 .. n + 1 : k \in 1 .. n \/ k = n + 1
      BY <1>1
    <3> QED
      BY <1>1, <1>2, <1>3, <3>1, <3>2, <3>3
  <2> QED
    BY <1>1, <2>1, <2>2 DEF Queued
<1> QED
  BY <1>6, <1>8, <1>9


(* put: the message goes to the queue, and a synchronous caller waits. *)
LEMMA putInv ==
  ASSUME IInv, NEW t \in Thread, put(t), UNCHANGED <<timer, thread>>
  PROVE  IInv'
<1>0. pc[t] = "put" /\ pc[t] \in Calling
  BY DEF put, Calling
<1>6. PICK w \in Work : Called(t) = w
  BY <1>0, CallingFacts
<1>1. /\ InCode(t) /\ w \in Work /\ StackType /\ LifeInv(w) /\ Calls("put", w) /\ ~Fresh(w)
      /\ \A o \in Object : ~AtCall(t, o)
      /\ \A u \in Thread : \A l \in Calling : CallAt(u, l, w) <=> u = t /\ l = "put"
      /\ ~Framed("direct", w)
  BY <1>0, <1>6, CallingFacts
<1>2. /\ Len(queue[On[w]]) < QueueSize[On[w]] /\ queue' = [queue EXCEPT ![On[w]] = Append(@, w)]
      /\ UNCHANGED <<started, threadId, mem, result, complete, background, runs, answer>>
  BY <1>6 DEF put
<1>3. /\ Held(w) /\ runs[w] = 0 /\ complete[w] = 0
      /\ ~Queued(w) /\ ~Framed("task", w) /\ ~Framed("done", w)
  BY <1>1 DEF LifeInv, Putting
<1>4. w \in Sync => Moves(t, "wait") /\ "wait" \in PCs
  BY <1>1, <1>6 DEF put, Moves, Goto, PCs
<1>5. w \notin Sync => Advances(t)
  BY <1>1, <1>6 DEF put, Advances, Advance, Goto
<1>7. QueueType' /\ QueueInv' /\ \A v : Queued(v)' <=> Queued(v) \/ v = w
  BY <1>1, <1>2, <1>3, QueueAppend DEF IInv, TypeInv
<1>8. \A u \in Thread : \A l \in Calling : \A v :
        CallAt(u, l, v)' <=> IF u = t THEN w \in Sync /\ l = "wait" /\ v = w ELSE CallAt(u, l, v)
  <2>1. CASE w \in Sync
    BY <1>1, <1>4, <1>6, <2>1, CallsMoves
  <2>2. CASE w \notin Sync
    BY <1>1, <1>5, <2>2, CallsAdvances
  <2> QED
    BY <2>1, <2>2
<1>9. \A u \in Thread : \A i \in Nat : \A a, v : FrameAt(u, i, a, v)' <=> FrameAt(u, i, a, v)
  <2>1. CASE w \in Sync
    BY <1>1, <1>4, <1>6, <2>1, CallsMoves
  <2>2. CASE w \notin Sync
    BY <1>1, <1>5, <2>2, CallsAdvances
  <2> QED
    BY <2>1, <2>2
<1>10. ASSUME NEW v \in Work, v # w PROVE SameLife(v)
  <2>1. \A l \in Calling : ~CallAt(t, l, v)
    BY <1>6, <1>10 DEF CallAt
  <2>2. \A u \in Thread : \A l \in Calling : CallAt(u, l, v)' <=> CallAt(u, l, v)
    BY <1>8, <1>10, <2>1
  <2> QED
    BY <1>2, <1>7, <1>9, <1>10, <2>2 DEF SameLife
<1>11. LifeInv(w)'
  <2>1. \A u \in Thread : \A l \in Calling : CallAt(u, l, w)' <=> u = t /\ l = "wait" /\ w \in Sync
    BY <1>1, <1>8
  <2>2. /\ ~Calls("put", w)' /\ ~Calls("get", w)'
        /\ Calls("wait", w)' <=> w \in Sync
    BY <2>1 DEF Calls, Calling
  <2>3. ~Framed("task", w)' /\ ~Framed("done", w)' /\ ~Framed("direct", w)' /\ Queued(w)'
    BY <1>1, <1>3, <1>7, <1>9 DEF Framed
  <2>4. Held(w)' /\ mem'[w] = "live" /\ runs'[w] = 0 /\ answer'[w] = None /\ complete'[w] = 0
    BY <1>2, <1>3 DEF Held
  <2>5. OneCaller(w)'
    BY <2>1 DEF OneCaller
  <2>6. OneFrame(w)'
    BY <1>1, <1>9 DEF OneFrame, LifeInv, Executes
  <2>7. Putting(w)' /\ Waiting(w)' /\ Getting(w)' /\ InQueue(w)'
    BY <2>2, <2>3, <2>4 DEF Putting, Waiting, Getting, InQueue
  <2>8. InTask(w)' /\ InDone(w)' /\ Complete(w)' /\ Direct(w)' /\ Owned(w)' /\ Answered(w)'
    BY <2>3, <2>4 DEF InTask, InDone, Complete, Direct, Owned, Answered
  <2> QED
    BY <2>5, <2>6, <2>7, <2>8 DEF LifeInv
<1>12. MessageInv'
  BY <1>1, <1>10, <1>11, MessageStep DEF IInv
<1>13. MessageSide
  BY <1>2, <1>7, <1>12 DEF MessageSide, IInv, TypeInv, MessageType
<1>14. CallOnly /\ KeepsFresh
  BY <1>2, BegunGrows, FreshSame DEF CallOnly, Created
<1>15. CASE w \in Sync
  BY <1>1, <1>4, <1>6, <1>13, <1>14, <1>15, CallMoves DEF Calling, KeepsFresh
<1>16. CASE w \notin Sync
  BY <1>1, <1>5, <1>13, <1>14, <1>16, CallAdvances
<1> QED
  BY <1>15, <1>16

(* The caller's last step: the work is answered, and its message deleted. *)
LEMMA AnswerInv ==
  ASSUME IInv, NEW t \in Thread, Advances(t), pc[t] \in Calling, NEW r,
         UNCHANGED <<started, threadId, queue, result, complete, background, runs, timer, thread>>,
         mem' = [mem EXCEPT ![Called(t)] = "freed"],
         answer' = [answer EXCEPT ![Called(t)] = r],
         ~Queued(Called(t)), ~Framed("task", Called(t)), ~Framed("done", Called(t)),
         complete[Called(t)] = 0,
         (r = 0 /\ runs[Called(t)] = 0) \/ (r = Called(t) /\ runs[Called(t)] = 1)
  PROVE  IInv'
<1>0. PICK w \in Work : Called(t) = w
  BY CallingFacts
<1>1. /\ w \in Work /\ StackType /\ LifeInv(w) /\ ~Fresh(w)
      /\ \A o \in Object : ~AtCall(t, o)
      /\ \A u \in Thread : \A l \in Calling : CallAt(u, l, w) <=> u = t /\ l = pc[t]
      /\ ~Framed("direct", w)
  BY <1>0, CallingFacts
<1>2. /\ Called(t) = w /\ mem' = [mem EXCEPT ![w] = "freed"] /\ answer' = [answer EXCEPT ![w] = r]
      /\ ~Queued(w) /\ ~Framed("task", w) /\ ~Framed("done", w) /\ complete[w] = 0
      /\ (r = 0 /\ runs[w] = 0) \/ (r = w /\ runs[w] = 1)
  BY <1>0
<1>3. SameBut(w) /\ MessageType' /\ mem'[w] = "freed" /\ answer'[w] = r
  BY <1>1, <1>2 DEF SameBut, IInv, TypeInv, MessageType
<1>4. /\ \A u \in Thread : \A l \in Calling : \A v : CallAt(u, l, v)' <=> u # t /\ CallAt(u, l, v)
      /\ \A u \in Thread : \A i \in Nat : \A a, v : FrameAt(u, i, a, v)' <=> FrameAt(u, i, a, v)
      /\ \A v : Queued(v)' <=> Queued(v)
  BY <1>1, CallsAdvances, QueueSame
<1>5. ASSUME NEW v \in Work, v # w PROVE SameLife(v)
  <2>1. \A l \in Calling : ~CallAt(t, l, v)
    BY <1>2, <1>5 DEF CallAt
  <2>2. \A u \in Thread : \A l \in Calling : CallAt(u, l, v)' <=> CallAt(u, l, v)
    BY <1>4, <2>1
  <2> QED
    BY <1>3, <1>4, <1>5, <2>2 DEF SameLife, SameBut
<1>6. LifeInv(w)'
  <2>1. \A u \in Thread : \A l \in Calling : ~CallAt(u, l, w)'
    BY <1>1, <1>4
  <2>2. ~Calls("put", w)' /\ ~Calls("get", w)' /\ ~Calls("wait", w)'
    BY <2>1 DEF Calls, Calling
  <2>3. ~Framed("task", w)' /\ ~Framed("done", w)' /\ ~Framed("direct", w)' /\ ~Queued(w)'
    BY <1>1, <1>2, <1>4 DEF Framed
  <2>4. complete'[w] = 0 /\ runs'[w] = runs[w]
    BY <1>2
  <2>5. OneCaller(w)'
    BY <2>1 DEF OneCaller
  <2>6. OneFrame(w)'
    BY <1>1, <1>4 DEF OneFrame, LifeInv, Executes
  <2>7. Putting(w)' /\ Waiting(w)' /\ Getting(w)' /\ InQueue(w)'
    BY <2>2, <2>3 DEF Putting, Waiting, Getting, InQueue
  <2>8. InTask(w)' /\ InDone(w)' /\ Complete(w)' /\ Direct(w)' /\ Owned(w)' /\ Answered(w)'
    BY <1>2, <1>3, <2>3, <2>4 DEF InTask, InDone, Complete, Direct, Owned, Answered
  <2> QED
    BY <2>5, <2>6, <2>7, <2>8 DEF LifeInv
<1>7. MessageInv'
  BY <1>1, <1>5, <1>6, MessageStep DEF IInv
<1>8. MessageSide
  BY <1>3, <1>7, QueueSame DEF MessageSide, IInv, TypeInv
<1>9. CallOnly /\ KeepsFresh
  BY <1>1, <1>3, BegunGrows, FreshOthers DEF CallOnly
<1> QED
  BY <1>1, <1>8, <1>9, CallAdvances

LEMMA putTimeoutInv ==
  ASSUME IInv, NEW t \in Thread, putTimeout(t), UNCHANGED <<timer, thread>>
  PROVE  IInv'
<1>1. pc[t] = "put" /\ pc[t] \in Calling
  BY DEF putTimeout, Calling
<1>2. InCode(t) /\ LifeInv(Called(t)) /\ Calls("put", Called(t))
  BY <1>1, CallingFacts
<1>3. Advances(t)
  BY <1>2 DEF putTimeout, Advances, Advance, Goto
<1>4. /\ runs[Called(t)] = 0 /\ complete[Called(t)] = 0
      /\ ~Queued(Called(t)) /\ ~Framed("task", Called(t)) /\ ~Framed("done", Called(t))
  BY <1>2 DEF LifeInv, Putting
<1>5. /\ UNCHANGED <<started, threadId, queue, result, complete, background, runs>>
      /\ mem' = [mem EXCEPT ![Called(t)] = "freed"] /\ answer' = [answer EXCEPT ![Called(t)] = 0]
  BY DEF putTimeout
<1> QED
  BY <1>1, <1>3, <1>4, <1>5, AnswerInv

LEMMA getInv ==
  ASSUME IInv, NEW t \in Thread, get(t), UNCHANGED <<timer, thread>>
  PROVE  IInv'
<1>1. pc[t] = "get" /\ pc[t] \in Calling
  BY DEF get, Calling
<1>2. InCode(t) /\ LifeInv(Called(t)) /\ Calls("get", Called(t))
  BY <1>1, CallingFacts
<1>3. Advances(t)
  BY <1>2 DEF get, Advances, Advance, Goto
<1>4. /\ runs[Called(t)] = 1 /\ complete[Called(t)] = 0 /\ result[Called(t)] = Called(t)
      /\ ~Queued(Called(t)) /\ ~Framed("task", Called(t)) /\ ~Framed("done", Called(t))
  BY <1>2 DEF LifeInv, Getting
<1>5. /\ UNCHANGED <<started, threadId, queue, result, complete, background, runs>>
      /\ mem' = [mem EXCEPT ![Called(t)] = "freed"]
      /\ answer' = [answer EXCEPT ![Called(t)] = result[Called(t)]]
  BY DEF get
<1> QED
  BY <1>1, <1>3, <1>4, <1>5, AnswerInv


(* wait_complete(): the semaphore is taken. *)
LEMMA wait_completeInv ==
  ASSUME IInv, NEW t \in Thread, wait_complete(t), UNCHANGED <<timer, thread>>
  PROVE  IInv'
<1>0. pc[t] = "wait" /\ pc[t] \in Calling
  BY DEF wait_complete, Calling
<1>1. PICK w \in Work : Called(t) = w
  BY <1>0, CallingFacts
<1>2. /\ InCode(t) /\ StackType /\ LifeInv(w) /\ Calls("wait", w) /\ ~Fresh(w)
      /\ \A o \in Object : ~AtCall(t, o)
      /\ \A u \in Thread : \A l \in Calling : CallAt(u, l, w) <=> u = t /\ l = "wait"
      /\ ~Framed("direct", w)
  BY <1>0, <1>1, CallingFacts
<1>3. /\ complete[w] = 1 /\ complete' = [complete EXCEPT ![w] = 0]
      /\ UNCHANGED <<started, threadId, queue, mem, result, background, runs, answer>>
  BY <1>1 DEF wait_complete
<1>4. Moves(t, "get") /\ "get" \in PCs /\ "get" \in Calling
  BY <1>2 DEF wait_complete, Moves, Goto, PCs, Calling
<1>5. /\ Held(w) /\ w \in Sync /\ runs[w] = 1 /\ result[w] = w
      /\ ~Queued(w) /\ ~Framed("task", w) /\ ~Framed("done", w)
  BY <1>2, <1>3 DEF LifeInv, Waiting, Complete
<1>6. SameBut(w) /\ MessageType' /\ complete'[w] = 0
  BY <1>3 DEF SameBut, IInv, TypeInv, MessageType
<1>7. /\ \A u \in Thread : \A l \in Calling : \A v :
           CallAt(u, l, v)' <=> IF u = t THEN l = "get" /\ w = v ELSE CallAt(u, l, v)
      /\ \A u \in Thread : \A i \in Nat : \A a, v : FrameAt(u, i, a, v)' <=> FrameAt(u, i, a, v)
      /\ \A v : Queued(v)' <=> Queued(v)
  BY <1>1, <1>2, <1>3, <1>4, CallsMoves, QueueSame
<1>8. ASSUME NEW v \in Work, v # w PROVE SameLife(v)
  <2>1. \A l \in Calling : ~CallAt(t, l, v)
    BY <1>1, <1>8 DEF CallAt
  <2>2. \A u \in Thread : \A l \in Calling : CallAt(u, l, v)' <=> CallAt(u, l, v)
    BY <1>7, <1>8, <2>1
  <2> QED
    BY <1>6, <1>7, <1>8, <2>2 DEF SameLife, SameBut
<1>9. LifeInv(w)'
  <2>1. \A u \in Thread : \A l \in Calling : CallAt(u, l, w)' <=> u = t /\ l = "get"
    BY <1>2, <1>7
  <2>2. ~Calls("put", w)' /\ Calls("get", w)' /\ ~Calls("wait", w)'
    BY <2>1 DEF Calls, Calling
  <2>3. ~Framed("task", w)' /\ ~Framed("done", w)' /\ ~Framed("direct", w)' /\ ~Queued(w)'
    BY <1>2, <1>5, <1>7 DEF Framed
  <2>4. /\ Held(w)' /\ answer'[w] = None /\ mem'[w] = "live" /\ complete'[w] = 0
        /\ runs'[w] = 1 /\ result'[w] = w
    BY <1>3, <1>5, <1>6 DEF Held
  <2>5. OneCaller(w)'
    BY <2>1 DEF OneCaller
  <2>6. OneFrame(w)'
    BY <1>2, <1>7 DEF OneFrame, LifeInv, Executes
  <2>7. Putting(w)' /\ Waiting(w)' /\ Getting(w)' /\ InQueue(w)'
    BY <1>5, <2>2, <2>3, <2>4 DEF Putting, Waiting, Getting, InQueue
  <2>8. InTask(w)' /\ InDone(w)' /\ Complete(w)' /\ Direct(w)' /\ Owned(w)' /\ Answered(w)'
    BY <2>2, <2>3, <2>4 DEF InTask, InDone, Complete, Direct, Owned, Answered, Calling
  <2> QED
    BY <2>5, <2>6, <2>7, <2>8 DEF LifeInv
<1>10. MessageInv'
  BY <1>2, <1>8, <1>9, MessageStep DEF IInv
<1>11. MessageSide
  BY <1>3, <1>6, <1>10, QueueSame DEF MessageSide, IInv, TypeInv
<1>12. CallOnly /\ KeepsFresh
  BY <1>2, <1>3, <1>6, BegunGrows, FreshOthers DEF CallOnly
<1> QED
  BY <1>1, <1>2, <1>4, <1>11, <1>12, CallMoves DEF KeepsFresh

-----------------------------------------------------------------------------
(* The steps of who executes a work.                                        *)

(* The frame that ends is the only one that executes its work. *)
LEMMA EndFacts ==
  ASSUME IInv, NEW t \in Thread, NEW v \in Executes, AtEnd(t, v)
  PROVE  /\ Top(t).work \in Work /\ LifeInv(Top(t).work) /\ Framed(v, Top(t).work)
         /\ StackType /\ Len(stack[t]) \in Nat /\ Len(stack[t]) \in DOMAIN stack[t]
         /\ Top(t) = stack[t][Len(stack[t])] /\ Top(t) \in Frames /\ Top(t).via \notin Base
         /\ \A u \in Thread : \A i \in Nat : \A a \in Executes :
              FrameAt(u, i, a, Top(t).work) <=> u = t /\ i = Len(stack[t]) /\ a = v
         /\ ~Fresh(Top(t).work) /\ \A o \in Object : ~AtCall(t, o)
<1> DEFINE w == Top(t).work
           n == Len(stack[t])
<1>1. /\ stack[t] # <<>> /\ Top(t).left = <<>> /\ Top(t).via = v /\ \A o \in Object : ~AtCall(t, o)
  BY AtEndFacts
<1>2. StackType /\ stack[t] \in Seq(Frames)
  BY DEF IInv, TypeInv, StackType
<1>3. n \in Nat /\ n \in DOMAIN stack[t] /\ Top(t) = stack[t][n] /\ Top(t) \in Frames
  BY <1>1, <1>2, TopFacts DEF Top
<1>4. v \notin Base
  BY DEF Executes, Base
<1>5. w \in Work
  <2>1. FrameShape(t, n, stack[t][n])
    BY <1>3 DEF IInv, ShapeInv
  <2>2. w # None
    BY <1>1, <1>3, <1>4, <2>1 DEF FrameShape
  <2> QED
    BY <1>3, <2>2, FrameFacts
<1>6. LifeInv(w)
  BY <1>5 DEF IInv, MessageInv
<1>7. FrameAt(t, n, v, w)
  BY <1>1, <1>3 DEF FrameAt
<1> HIDE DEF n, w
<1>8. Framed(v, w)
  BY <1>3, <1>7 DEF Framed
<1>9. ASSUME NEW u \in Thread, NEW i \in Nat, NEW a \in Executes, FrameAt(u, i, a, w)
      PROVE  u = t /\ i = n /\ a = v
  <2>1. u = t /\ i = n
    BY <1>3, <1>6, <1>7, <1>9 DEF LifeInv, OneFrame
  <2> QED
    BY <2>1, <1>7, <1>9 DEF FrameAt
<1>10. ~Fresh(w)
  <2>1. runs[w] = 1
    BY <1>6, <1>8 DEF LifeInv, InTask, InDone, Direct, Executes
  <2> QED
    BY <2>1, <1>5, ProgramAssumption DEF Fresh
<1> QED
  BY <1>1, <1>2, <1>3, <1>4, <1>5, <1>6, <1>7, <1>8, <1>9, <1>10 DEF n, w

(* The frame of a work w is left. *)
LEMMA EndPops ==
  ASSUME IInv, NEW t \in Thread, NEW v \in Executes, AtEnd(t, v), NEW w \in Work, Top(t).work = w,
         UNCHANGED <<started, threadId, queue, result, background, runs, timer, thread, pc>>,
         stack' = [stack EXCEPT ![t] = Front(@)], SameBut(w), MessageType', LifeInv(w)'
  PROVE  IInv'
<1>1. Pops(t)
  BY AtEndFacts DEF Pops
<1>2. /\ StackType /\ ~Fresh(w) /\ \A o \in Object : ~AtCall(t, o)
      /\ \A u \in Thread : \A i \in Nat : \A a \in Executes :
              FrameAt(u, i, a, w) <=> u = t /\ i = Len(stack[t]) /\ a = v
      /\ Top(t).via \notin Base /\ Len(stack[t]) \in Nat /\ Top(t) = stack[t][Len(stack[t])]
  BY EndFacts
<1>3. /\ \A u \in Thread : \A l \in Calling : \A x : CallAt(u, l, x)' <=> CallAt(u, l, x)
      /\ \A u \in Thread : \A i \in Nat : \A a, x :
           FrameAt(u, i, a, x)' <=> FrameAt(u, i, a, x) /\ ~(u = t /\ i = Len(stack[t]))
      /\ \A x : Queued(x)' <=> Queued(x)
  BY <1>1, <1>2, CallsPops, QueueSame
<1>4. ASSUME NEW x \in Work, x # w PROVE SameLife(x)
  <2>1. \A a \in Executes : ~FrameAt(t, Len(stack[t]), a, x)
    BY <1>2, <1>4 DEF FrameAt
  <2>2. \A u \in Thread : \A i \in Nat : \A a \in Executes : FrameAt(u, i, a, x)' <=> FrameAt(u, i, a, x)
    BY <1>3, <2>1
  <2> QED
    BY <1>3, <1>4, <2>2 DEF SameLife, SameBut
<1>5. MessageInv'
  BY <1>4, MessageStep DEF IInv
<1>6. MessageSide
  BY <1>5, QueueSame DEF MessageSide, IInv, TypeInv
<1>7. CallOnly /\ KeepsFresh
  BY <1>2, BegunGrows, FreshOthers DEF CallOnly
<1> QED
  BY <1>1, <1>2, <1>6, <1>7, CallPops

(* After it no frame executes w, and who calls w is as before. *)
LEMMA EndLeaves ==
  ASSUME IInv, NEW t \in Thread, NEW v \in Executes, AtEnd(t, v), NEW w \in Work, Top(t).work = w,
         UNCHANGED <<queue, pc>>, stack' = [stack EXCEPT ![t] = Front(@)]
  PROVE  /\ ~Framed("direct", w)' /\ ~Framed("task", w)' /\ ~Framed("done", w)'
         /\ OneFrame(w)' /\ OneCaller(w)'
         /\ Queued(w)' <=> Queued(w)
         /\ \A l \in Calling : Calls(l, w)' <=> Calls(l, w)
<1>1. Pops(t)
  BY AtEndFacts DEF Pops
<1>2. /\ StackType /\ LifeInv(w)
      /\ \A u \in Thread : \A i \in Nat : \A a \in Executes :
              FrameAt(u, i, a, w) <=> u = t /\ i = Len(stack[t]) /\ a = v
  BY EndFacts
<1>3. /\ \A u \in Thread : \A l \in Calling : \A x : CallAt(u, l, x)' <=> CallAt(u, l, x)
      /\ \A u \in Thread : \A i \in Nat : \A a, x :
           FrameAt(u, i, a, x)' <=> FrameAt(u, i, a, x) /\ ~(u = t /\ i = Len(stack[t]))
      /\ \A x : Queued(x)' <=> Queued(x)
  BY <1>1, <1>2, CallsPops, QueueSame
<1>4. \A u \in Thread : \A i \in Nat : \A a \in Executes : ~FrameAt(u, i, a, w)'
  BY <1>2, <1>3
<1>5. \A a \in Executes : ~Framed(a, w)'
  BY <1>4 DEF Framed
<1>6. OneFrame(w)'
  BY <1>4 DEF OneFrame
<1>7. OneCaller(w)'
  BY <1>2, <1>3 DEF OneCaller, LifeInv
<1>8. \A l \in Calling : Calls(l, w)' <=> Calls(l, w)
  BY <1>3 DEF Calls
<1> QED
  BY <1>3, <1>5, <1>6, <1>7, <1>8 DEF Executes


(* A call on the spot returns its result. *)
LEMMA returnInv ==
  ASSUME IInv, NEW t \in Thread, return(t), UNCHANGED <<timer, thread>>
  PROVE  IInv'
<1>1. AtEnd(t, "direct") /\ "direct" \in Executes
  BY DEF return, Executes
<1>2. PICK w \in Work : Top(t).work = w
  BY <1>1, EndFacts
<1>3. LifeInv(w) /\ Framed("direct", w)
  BY <1>1, <1>2, EndFacts
<1>4. /\ answer' = [answer EXCEPT ![w] = w] /\ stack' = [stack EXCEPT ![t] = Front(@)]
      /\ UNCHANGED <<started, threadId, queue, pc, mem, result, complete, background, runs>>
  BY <1>2 DEF return, Pop
<1>5. runs[w] = 1 /\ mem[w] = "none"
  BY <1>3 DEF LifeInv, Direct
<1>6. complete[w] # 1 /\ ~Queued(w) /\ ~Calls("put", w) /\ ~Calls("wait", w) /\ ~Calls("get", w)
  BY <1>3, <1>5 DEF LifeInv, Complete, InQueue, Putting, Waiting, Getting, Held
<1>7. SameBut(w) /\ MessageType' /\ answer'[w] = w
  BY <1>4 DEF SameBut, IInv, TypeInv, MessageType
<1>8. LifeInv(w)'
  <2>1. /\ ~Framed("direct", w)' /\ ~Framed("task", w)' /\ ~Framed("done", w)'
        /\ OneFrame(w)' /\ OneCaller(w)' /\ ~Queued(w)'
        /\ ~Calls("put", w)' /\ ~Calls("wait", w)' /\ ~Calls("get", w)'
    BY <1>1, <1>2, <1>4, <1>6, EndLeaves DEF Calling
  <2>2. Putting(w)' /\ Waiting(w)' /\ Getting(w)' /\ InQueue(w)'
    BY <2>1 DEF Putting, Waiting, Getting, InQueue
  <2>3. InTask(w)' /\ InDone(w)' /\ Complete(w)' /\ Direct(w)' /\ Owned(w)' /\ Answered(w)'
    BY <1>4, <1>5, <1>6, <1>7, <2>1 DEF InTask, InDone, Complete, Direct, Owned, Answered
  <2> QED
    BY <2>1, <2>2, <2>3 DEF LifeInv
<1> QED
  BY <1>1, <1>2, <1>4, <1>7, <1>8, EndPops

(* An asynchronous task deletes itself. *)
LEMMA AsyncTaskInv ==
  ASSUME IInv, NEW t \in Thread, AsyncTask(t), UNCHANGED <<timer, thread>>
  PROVE  IInv'
<1>1. AtEnd(t, "task") /\ "task" \in Executes
  BY DEF AsyncTask, Executes
<1>2. PICK w \in Work : Top(t).work = w
  BY <1>1, EndFacts
<1>3. LifeInv(w) /\ Framed("task", w) /\ w \notin Sync
  BY <1>1, <1>2, EndFacts DEF AsyncTask
<1>4. /\ mem' = [mem EXCEPT ![w] = "freed"] /\ stack' = [stack EXCEPT ![t] = Front(@)]
      /\ UNCHANGED <<started, threadId, queue, pc, result, complete, background, runs, answer>>
  BY <1>2 DEF AsyncTask, Pop
<1>5. runs[w] = 1 /\ complete[w] = 0 /\ answer[w] = None
  BY <1>3 DEF LifeInv, InTask, Held
<1>6. ~Queued(w) /\ ~Calls("put", w) /\ ~Calls("wait", w) /\ ~Calls("get", w)
  BY <1>3, <1>5 DEF LifeInv, InQueue, Putting, Waiting, Getting
<1>7. SameBut(w) /\ MessageType' /\ mem'[w] = "freed"
  BY <1>4 DEF SameBut, IInv, TypeInv, MessageType
<1>8. LifeInv(w)'
  <2>1. /\ ~Framed("direct", w)' /\ ~Framed("task", w)' /\ ~Framed("done", w)'
        /\ OneFrame(w)' /\ OneCaller(w)' /\ ~Queued(w)'
        /\ ~Calls("put", w)' /\ ~Calls("wait", w)' /\ ~Calls("get", w)'
    BY <1>1, <1>2, <1>4, <1>6, EndLeaves DEF Calling
  <2>2. Putting(w)' /\ Waiting(w)' /\ Getting(w)' /\ InQueue(w)'
    BY <2>1 DEF Putting, Waiting, Getting, InQueue
  <2>3. InTask(w)' /\ InDone(w)' /\ Complete(w)' /\ Direct(w)' /\ Owned(w)' /\ Answered(w)'
    BY <1>4, <1>5, <1>7, <2>1 DEF InTask, InDone, Complete, Direct, Owned, Answered
  <2> QED
    BY <2>1, <2>2, <2>3 DEF LifeInv
<1> QED
  BY <1>1, <1>2, <1>4, <1>7, <1>8, EndPops

(* task_complete() wakes the caller, who has the promise from then on. *)
LEMMA task_completeInv ==
  ASSUME IInv, NEW t \in Thread, task_complete(t), UNCHANGED <<timer, thread>>
  PROVE  IInv'
<1>1. AtEnd(t, "done") /\ "done" \in Executes
  BY DEF task_complete, Executes
<1>2. PICK w \in Work : Top(t).work = w
  BY <1>1, EndFacts
<1>3. LifeInv(w) /\ Framed("done", w)
  BY <1>1, <1>2, EndFacts
<1>4. /\ complete' = [complete EXCEPT ![w] = 1] /\ stack' = [stack EXCEPT ![t] = Front(@)]
      /\ UNCHANGED <<started, threadId, queue, pc, mem, result, background, runs, answer>>
  BY <1>2 DEF task_complete, Pop
<1>5. runs[w] = 1 /\ Held(w) /\ Calls("wait", w) /\ result[w] = w
  BY <1>3 DEF LifeInv, InDone
<1>6. w \in Sync /\ ~Queued(w) /\ ~Calls("put", w) /\ ~Calls("get", w)
  BY <1>3, <1>5 DEF LifeInv, InQueue, Putting, Waiting, Getting
<1>7. SameBut(w) /\ MessageType' /\ complete'[w] = 1
  BY <1>4 DEF SameBut, IInv, TypeInv, MessageType
<1>8. LifeInv(w)'
  <2>1. /\ ~Framed("direct", w)' /\ ~Framed("task", w)' /\ ~Framed("done", w)'
        /\ OneFrame(w)' /\ OneCaller(w)' /\ ~Queued(w)'
        /\ ~Calls("put", w)' /\ Calls("wait", w)' /\ ~Calls("get", w)'
    BY <1>1, <1>2, <1>4, <1>5, <1>6, EndLeaves DEF Calling
  <2>2. Held(w)' /\ runs'[w] = 1 /\ result'[w] = w /\ answer'[w] = None
    BY <1>4, <1>5 DEF Held
  <2>3. Putting(w)' /\ Waiting(w)' /\ Getting(w)' /\ InQueue(w)'
    BY <1>6, <1>7, <2>1, <2>2 DEF Putting, Waiting, Getting, InQueue
  <2>4. InTask(w)' /\ InDone(w)' /\ Complete(w)' /\ Direct(w)' /\ Owned(w)' /\ Answered(w)'
    BY <2>1, <2>2 DEF InTask, InDone, Complete, Direct, Owned, Answered, Calling
  <2> QED
    BY <2>1, <2>3, <2>4 DEF LifeInv
<1> QED
  BY <1>1, <1>2, <1>4, <1>7, <1>8, EndPops


(* SystemPromise::invoke() stores the result: the frame goes on as done. *)
LEMMA SystemPromise_invokeInv ==
  ASSUME IInv, NEW t \in Thread, SystemPromise_invoke(t), UNCHANGED <<timer, thread>>
  PROVE  IInv'
<1> DEFINE n == Len(stack[t])
           f == [Top(t) EXCEPT !.via = "done"]
<1>1. AtEnd(t, "task") /\ "task" \in Executes
  BY DEF SystemPromise_invoke, Executes
<1>2. PICK w \in Work : Top(t).work = w
  BY <1>1, EndFacts
<1>3. /\ LifeInv(w) /\ Framed("task", w) /\ StackType /\ ~Fresh(w) /\ \A o \in Object : ~AtCall(t, o)
      /\ n \in Nat /\ n \in DOMAIN stack[t] /\ Top(t) = stack[t][n] /\ Top(t) \in Frames
      /\ \A u \in Thread : \A i \in Nat : \A a \in Executes :
           FrameAt(u, i, a, w) <=> u = t /\ i = n /\ a = "task"
  BY <1>1, <1>2, EndFacts
<1>4. pc[t] = "run" /\ stack[t] # <<>> /\ Top(t).left = <<>> /\ Top(t).via = "task" /\ w \in Sync
  BY <1>1, <1>2, AtEndFacts DEF SystemPromise_invoke
<1>5. /\ result' = [result EXCEPT ![w] = w]
      /\ stack' = [stack EXCEPT ![t] = Append(Front(stack[t]), f)]
      /\ UNCHANGED <<started, threadId, queue, pc, mem, complete, background, runs, answer>>
  BY <1>2 DEF SystemPromise_invoke
<1>6. f \in Frames /\ f.work = w /\ f.left = <<>> /\ f.via = "done"
  BY <1>2, <1>3, <1>4 DEF Frames
<1> HIDE DEF f
<1>7. /\ stack[t] \in Seq(Frames)
      /\ Append(Front(stack[t]), f) \in Seq(Frames) /\ Len(Append(Front(stack[t]), f)) = Len(stack[t])
      /\ DOMAIN Append(Front(stack[t]), f) = DOMAIN stack[t]
      /\ \A i \in DOMAIN stack[t] :
           Append(Front(stack[t]), f)[i] = IF i = Len(stack[t]) THEN f ELSE stack[t][i]
  <2>1. stack[t] \in Seq(Frames)
    BY <1>3 DEF StackType
  <2> QED
    BY <1>4, <1>6, <2>1, ReplaceFacts
<1>8. /\ stack'[t] = Append(Front(stack[t]), f) /\ \A u \in Thread : u # t => stack'[u] = stack[u]
  BY <1>3, <1>5 DEF StackType
<1>9. StackType'
  BY <1>3, <1>5, <1>7 DEF StackType
<1>10. /\ Len(stack'[t]) = n /\ DOMAIN stack'[t] = DOMAIN stack[t]
       /\ \A i \in DOMAIN stack[t] : stack'[t][i] = IF i = n THEN f ELSE stack[t][i]
  BY <1>7, <1>8
<1>11. \A i \in DOMAIN stack[t] : stack'[t][i].work = stack[t][i].work /\ stack'[t][i].left = stack[t][i].left
  BY <1>2, <1>3, <1>4, <1>6, <1>10
<1>12. FrameShape(t, n, f)
  <2>1. FrameShape(t, n, stack[t][n])
    BY <1>3 DEF IInv, ShapeInv
  <2> QED
    BY <1>3, <1>4, <1>6, <2>1, WorkAssumption DEF FrameShape, Base
<1> HIDE DEF n
<1>13. ShapeInv'
  <2>1. PcShape(t)'
    BY <1>4, <1>5 DEF PcShape, Calling
  <2>2. \A i \in DOMAIN stack'[t] : FrameShape(t, i, stack'[t][i])
    BY <1>10, <1>12 DEF IInv, ShapeInv
  <2> QED
    BY <1>5, <1>8, <2>1, <2>2, ShapeFrom DEF IInv
<1>14. UserInv'
  <2>1. SameThread
    BY SameThreadVar
  <2>2. CASE t # User
    BY <1>8, <2>1, <2>2, UserInThread, UserOther DEF IInv
  <2>3. CASE t = User
    <3>1. Created /\ ~(thread.exited /\ ~thread.ended)
      <4>1. Created
        BY <1>4, <2>3 DEF IInv, UserInv
      <4>2. ASSUME thread.exited, ~thread.ended PROVE FALSE
        <5>1. Len(stack[User]) = 1 /\ stack[User][1].via \in Base
          BY <4>2 DEF IInv, UserInv
        <5>2. n = 1 /\ stack[t][n].via = "task"
          BY <1>3, <1>4, <2>3, <5>1 DEF n
        <5> QED
          BY <2>3, <5>1, <5>2 DEF Base
      <4> QED
        BY <4>1, <4>2
    <3>2. \A i \in DOMAIN stack'[User] : i > 1 => stack'[User][i].via \notin Base
      BY <1>6, <1>10, <2>3 DEF IInv, UserInv, Base
    <3>3. Created' /\ ~(thread'.exited /\ ~thread'.ended)
      BY <3>1 DEF Created
    <3> QED
      BY <3>2, <3>3 DEF UserInv, Created
  <2> QED
    BY <2>2, <2>3
<1>15. SameBut(w) /\ MessageType' /\ result'[w] = w
  BY <1>5 DEF SameBut, IInv, TypeInv, MessageType
<1>16. CallOnly /\ KeepsFresh
  BY <1>3, <1>5, <1>15, BegunGrows, FreshOthers DEF CallOnly
<1>17. OnceParts'
  <2> DEFINE a == <<"callback", Service>>
  <2>1. a \in Origin /\ 1 \in Nat /\ 0 \in {0, 1}
    BY CallbackOrigin
  <2>2. \A x \in Once : \A u \in Thread : \A i, k \in Nat : LeftAt(u, i, k, x)' => LeftAt(u, i, k, x)
    BY <1>8, <1>10, <1>11 DEF LeftAt
  <2>3. \A u \in Thread : \A i, k \in Nat : Shift(t, 0, u, i, k) = k
    BY DEF Shift
  <2>4. \A x \in Once : \A u \in Thread : \A i, k \in Nat : LeftAt(u, i, k, x)' =>
           \/ LeftAt(u, i, Shift(t, 0, u, i, k), x)
           \/ Enters(t, 1, a, u, i, k, x) /\ Begun(a)'
    BY <2>2, <2>3
  <2>5. \A u \in Thread : pc[u] \in Calling /\ ~(u = t /\ 0 = 1) =>
                             pc'[u] \in Calling /\ Len(stack'[u]) = Len(stack[u])
    BY <1>5, <1>8, <1>10 DEF n
  <2>6. \A x \in Once : Fresh(x) =>
           \/ Fresh(x)'
           \/ /\ LeftAt(t, Len(stack[t]), 1, x)
              /\ 0 = 1 \/ (pc'[t] \in Calling /\ Len(stack'[t]) = Len(stack[t]))
    BY <1>16 DEF KeepsFresh
  <2> HIDE DEF a
  <2>7. OnePlace /\ NotAhead /\ LeftFresh /\ AheadFresh
    BY DEF IInv, OnceInv
  <2> QED
    BY <1>3, <1>9, <1>16, <2>1, <2>4, <2>5, <2>6, <2>7, OnceStep DEF OnceParts, CallOnly, KeepsBegun
<1>18. \A u \in Thread : \A l \in Calling : \A x \in Work : CallAt(u, l, x)' <=> CallAt(u, l, x)
  <2>1. ASSUME NEW u \in Thread, NEW l \in Calling, NEW x \in Work PROVE CallAt(u, l, x)' <=> CallAt(u, l, x)
    <3>1. CASE u = t
      BY <1>4, <1>5, <3>1 DEF CallAt, Calling
    <3>2. CASE u # t
      BY <1>5, <1>8, <3>2 DEF CallAt, Called, Top
    <3> QED
      BY <3>1, <3>2
  <2> QED
    BY <2>1
<1>19. \A u \in Thread : \A i \in Nat : \A a, x :
         FrameAt(u, i, a, x)' <=> IF u = t /\ i = n THEN a = "done" /\ x = w ELSE FrameAt(u, i, a, x)
  BY <1>3, <1>6, <1>8, <1>10 DEF FrameAt
<1>20. ASSUME NEW x \in Work, x # w PROVE SameLife(x)
  <2>1. \A a : ~FrameAt(t, n, a, x)
    BY <1>2, <1>3, <1>20 DEF FrameAt
  <2>2. \A u \in Thread : \A i \in Nat : \A a \in Executes : FrameAt(u, i, a, x)' <=> FrameAt(u, i, a, x)
    BY <1>19, <1>20, <2>1
  <2>3. Queued(x)' <=> Queued(x)
    BY <1>5, QueueSame
  <2> QED
    BY <1>15, <1>18, <1>20, <2>2, <2>3 DEF SameLife, SameBut
<1>21. LifeInv(w)'
  <2>1. \A u \in Thread : \A i \in Nat : \A a \in Executes :
          FrameAt(u, i, a, w)' <=> u = t /\ i = n /\ a = "done"
    BY <1>3, <1>19
  <2>2. Framed("done", w)' /\ ~Framed("task", w)' /\ ~Framed("direct", w)'
    BY <1>3, <2>1 DEF Framed, Executes
  <2>3. OneFrame(w)'
    BY <2>1 DEF OneFrame
  <2>4. OneCaller(w)'
    BY <1>3, <1>18 DEF OneCaller, LifeInv
  <2>5. Held(w) /\ runs[w] = 1 /\ complete[w] = 0 /\ Calls("wait", w)
    BY <1>3, <1>4 DEF LifeInv, InTask
  <2>6. ~Queued(w) /\ ~Calls("put", w) /\ ~Calls("get", w)
    BY <1>3, <2>5 DEF LifeInv, InQueue, Putting, Getting
  <2>7. /\ Calls("wait", w)' /\ ~Queued(w)' /\ ~Calls("put", w)' /\ ~Calls("get", w)'
        /\ Held(w)' /\ runs'[w] = 1 /\ complete'[w] = 0 /\ answer'[w] = None
    <3>1. \A l \in Calling : Calls(l, w)' <=> Calls(l, w)
      BY <1>18 DEF Calls
    <3>2. Calls("wait", w)' /\ ~Calls("put", w)' /\ ~Calls("get", w)'
      BY <2>5, <2>6, <3>1 DEF Calling
    <3> QED
      BY <1>5, <2>5, <2>6, <3>2, QueueSame DEF Held
  <2>8. Putting(w)' /\ Waiting(w)' /\ Getting(w)' /\ InQueue(w)'
    BY <1>4, <2>2, <2>7 DEF Putting, Waiting, Getting, InQueue
  <2>9. InTask(w)' /\ InDone(w)' /\ Complete(w)' /\ Direct(w)' /\ Owned(w)' /\ Answered(w)'
    BY <1>15, <2>2, <2>7 DEF InTask, InDone, Complete, Direct, Owned, Answered
  <2> QED
    BY <2>3, <2>4, <2>8, <2>9 DEF LifeInv
<1>22. MessageInv'
  BY <1>20, <1>21, MessageStep DEF IInv
<1>23. MessageSide
  BY <1>5, <1>15, <1>22, QueueSame DEF MessageSide, IInv, TypeInv
<1>24. pc'[t] \notin {"join", "cleanup"} /\ \A u \in Thread : u # t => stack'[u] = stack[u] /\ pc'[u] = pc[u]
  BY <1>4, <1>5, <1>8
<1> QED
  BY <1>3, <1>9, <1>13, <1>14, <1>16, <1>17, <1>23, <1>24, CallRest


(* take(): the first message leaves the queue. *)
LEMMA QueueTail ==
  ASSUME QueueType, QueueInv, NEW o \in Object, queue[o] # <<>>, queue' = [queue EXCEPT ![o] = Tail(@)]
  PROVE  /\ Head(queue[o]) \in Work /\ Queued(Head(queue[o]))
         /\ QueueType' /\ QueueInv'
         /\ \A v : Queued(v)' <=> Queued(v) /\ v # Head(queue[o])
<1> DEFINE q == queue[o]
           n == Len(q)
           w == Head(q)
<1>1. q \in Seq(Work) /\ q # <<>> /\ n \in Nat /\ n >= 1 /\ DOMAIN q = 1 .. n /\ w = q[1] /\ w \in Work
  BY DEF QueueType
<1>2. /\ queue'[o] = Tail(q) /\ \A p \in Object : p # o => queue'[p] = queue[p]
      /\ DOMAIN queue' = Object
  BY <1>1 DEF QueueType
<1>3. /\ Tail(q) \in Seq(Work) /\ Len(Tail(q)) = n - 1 /\ DOMAIN Tail(q) = 1 .. n - 1
      /\ \A k \in 1 .. n - 1 : Tail(q)[k] = q[k + 1]
  BY <1>1
<1>4. QueueType'
  <2>1. queue' \in [Object -> Seq(Work)]
    BY <1>1, <1>3 DEF QueueType
  <2>2. \A p \in Object : Len(queue'[p]) <= QueueSize[p]
    BY <1>1, <1>2, <1>3, ObjectAssumption DEF QueueType
  <2> QED
    BY <2>1, <2>2 DEF QueueType
<1>5. /\ queue[o] = q
      /\ \A i, j \in 1 .. n : On[q[i]] = o /\ (q[i] = q[j] => i = j)
  BY <1>1 DEF QueueInv
<1>6. Queued(w)
  BY <1>1 DEF Queued
<1> HIDE DEF q, n, w
<1>7. ASSUME NEW p \in Object, NEW k \in DOMAIN queue'[p]
      PROVE  /\ On[queue'[p][k]] = p
             /\ \A l \in DOMAIN queue'[p] : queue'[p][k] = queue'[p][l] => k = l
  <2>1. CASE p # o
    BY <2>1, <1>2, <1>7 DEF QueueInv
  <2>2. CASE p = o
    BY <1>1, <1>2, <1>3, <1>5, <2>2
  <2> QED
    BY <2>1, <2>2
<1>8. QueueInv'
  BY <1>7 DEF QueueInv
<1>9. ASSUME NEW v PROVE Queued(v)' <=> Queued(v) /\ v # w
  <2>1. ASSUME NEW p \in Object, p # o
        PROVE  /\ queue'[p] = queue[p]
               /\ \A k \in DOMAIN queue[p] : queue[p][k] # w
    <3>1. On[w] = o
      BY <1>1, <1>5
    <3> QED
      BY <1>2, <2>1, <3>1 DEF QueueInv
  <2>2. (\E k \in DOMAIN queue'[o] : queue'[o][k] = v) <=> (\E k \in DOMAIN queue[o] : queue[o][k] = v) /\ v # w
    <3>1. ASSUME NEW k \in 1 .. n - 1, Tail(q)[k] = v PROVE k + 1 \in 1 .. n /\ q[k + 1] = v /\ v # w
      <4>1. k + 1 \in 1 .. n /\ q[k + 1] = v /\ k + 1 # 1 /\ 1 \in 1 .. n
        BY <1>1, <1>3, <3>1
      <4> QED
        BY <1>1, <1>5, <4>1
    <3>2. ASSUME NEW k \in 1 .. n, q[k] = v, v # w PROVE k - 1 \in 1 .. n - 1 /\ Tail(q)[k - 1] = v
      <4>1. k # 1
        BY <1>1, <3>2
      <4>2. k - 1 \in 1 .. n - 1 /\ k - 1 + 1 = k
        BY <1>1, <4>1
      <4> QED
        BY <1>3, <3>2, <4>2
    <3> QED
      BY <1>1, <1>2, <1>3, <1>5, <3>1, <3>2
  <2> QED
    BY <2>1, <2>2 DEF Queued
<1> QED
  BY <1>1, <1>4, <1>6, <1>8, <1>9 DEF q, w

(* process() takes a message and begins its work. *)
LEMMA processTakeInv ==
  ASSUME IInv, NEW o \in Object, process(o), queue[o] # <<>>, UNCHANGED <<timer, thread>>
  PROVE  IInv'
<1>0. PICK t \in Thread : t = Owner[o]
  BY OwnerFacts
<1>00. PICK w \in Work : w = Head(queue[o])
  BY QueueTail DEF process, IInv, TypeInv
<1> DEFINE s == IF AtEnd(t, "loop") THEN stack[t] ELSE Advanced(stack[t])
           f == Frame(w, Body[w], "task")
           n == Len(stack[t])
<1>1. /\ AtEnd(t, "loop") \/ AtCall(t, Process)
      /\ stack' = [stack EXCEPT ![t] = Append(s, f)] /\ runs' = [runs EXCEPT ![w] = @ + 1]
      /\ queue' = [queue EXCEPT ![o] = Tail(@)]
      /\ UNCHANGED <<started, threadId, pc, mem, result, complete, background, answer>>
  BY <1>0, <1>00 DEF process, Begin
<1>2. pc[t] = "run" /\ stack[t] # <<>> /\ \A p \in Object : ~AtCall(t, p)
  BY <1>1, AtEndFacts, AtCallFacts, ItemKinds DEF InCode
<1>3. Pushes(t, s, f) /\ StackType
  <2>1. s = stack[t] \/ (InCode(t) /\ s = Advanced(stack[t]))
    BY <1>1, AtCallFacts
  <2> QED
    BY <1>1, <1>2, <2>1 DEF Pushes, IInv, TypeInv
<1>4. QueueType' /\ QueueInv' /\ Queued(w) /\ \A v : Queued(v)' <=> Queued(v) /\ v # w
  BY <1>00, <1>1, QueueTail DEF IInv, TypeInv
<1>5. LifeInv(w)
  BY DEF IInv, MessageInv
<1>6. /\ Held(w) /\ runs[w] = 0 /\ complete[w] = 0
      /\ ~Framed("task", w) /\ ~Framed("done", w) /\ ~Framed("direct", w)
      /\ w \in Sync <=> Calls("wait", w)
  BY <1>4, <1>5 DEF LifeInv, InQueue, Direct, Held
<1>7. ~Calls("put", w) /\ ~Calls("get", w)
  BY <1>4, <1>5 DEF LifeInv, Putting, Getting
<1>8. runs'[w] = 1 /\ SameBut(w) /\ MessageType'
  BY <1>1, <1>6 DEF SameBut, IInv, TypeInv, MessageType
<1>9. CallOnly
  BY <1>1, <1>6, <1>8, BegunGrows DEF CallOnly, SameBut
<1>10. f \in Frames /\ f.via = "task" /\ f.left = Body[w] /\ f.work = w
  <2>1. Body[w] \in Seq(Item)
    BY ProgramFacts
  <2> QED
    BY <2>1 DEF Frame, Frames
<1> HIDE DEF f, s
<1>11. /\ \A u \in Thread : \A l \in Calling : \A v : CallAt(u, l, v)' <=> CallAt(u, l, v)
       /\ \A u \in Thread : \A i \in Nat : \A a, v :
            FrameAt(u, i, a, v)' <=> \/ FrameAt(u, i, a, v)
                                     \/ u = t /\ i = n + 1 /\ f.via = a /\ f.work = v
       /\ n \in Nat
  BY <1>3, <1>10, CallsPushes, PushesFacts
<1> HIDE DEF n
<1>12. ASSUME NEW v \in Work, v # w PROVE SameLife(v)
  <2>1. \A u \in Thread : \A i \in Nat : \A a \in Executes : FrameAt(u, i, a, v)' <=> FrameAt(u, i, a, v)
    BY <1>10, <1>11, <1>12
  <2> QED
    BY <1>1, <1>4, <1>8, <1>11, <1>12, <2>1 DEF SameLife, SameBut
<1>13. LifeInv(w)'
  <2>1. \A l \in Calling : Calls(l, w)' <=> Calls(l, w)
    BY <1>11 DEF Calls
  <2>2. /\ ~Calls("put", w)' /\ ~Calls("get", w)'
        /\ w \in Sync <=> Calls("wait", w)'
    BY <1>6, <1>7, <2>1 DEF Calling
  <2>3. \A u \in Thread : \A i \in Nat : \A a \in Executes : ~FrameAt(u, i, a, w)
    BY <1>6 DEF Framed, Executes
  <2>4. \A u \in Thread : \A i \in Nat : \A a \in Executes :
          FrameAt(u, i, a, w)' <=> u = t /\ i = n + 1 /\ a = "task"
    <3>1. \A u \in Thread : \A i \in Nat : \A a \in Executes :
            FrameAt(u, i, a, w)' <=> u = t /\ i = n + 1 /\ f.via = a /\ f.work = w
      BY <1>11, <2>3
    <3> QED
      BY <1>10, <3>1
  <2>5. Framed("task", w)' /\ ~Framed("done", w)' /\ ~Framed("direct", w)' /\ ~Queued(w)'
    <3>1. n + 1 \in Nat
      BY <1>11
    <3> QED
      BY <1>4, <2>4, <3>1 DEF Framed, Executes
  <2>6. OneCaller(w)'
    BY <1>5, <1>11 DEF OneCaller, LifeInv
  <2>7. OneFrame(w)'
    BY <2>4 DEF OneFrame
  <2>8. Held(w)' /\ runs'[w] = 1 /\ answer'[w] = None /\ complete'[w] = 0
    BY <1>1, <1>6, <1>8 DEF Held
  <2>9. Putting(w)' /\ Waiting(w)' /\ Getting(w)' /\ InQueue(w)'
    BY <2>2, <2>5, <2>8 DEF Putting, Waiting, Getting, InQueue
  <2>10. InTask(w)' /\ InDone(w)' /\ Complete(w)' /\ Direct(w)' /\ Owned(w)' /\ Answered(w)'
    BY <2>2, <2>5, <2>8 DEF InTask, InDone, Complete, Direct, Owned, Answered
  <2> QED
    BY <2>6, <2>7, <2>9, <2>10 DEF LifeInv
<1>14. MessageInv'
  BY <1>12, <1>13, MessageStep DEF IInv
<1>15. MessageSide
  BY <1>4, <1>8, <1>14 DEF MessageSide
<1>16. KeepsFresh
  <2>1. ~Fresh(w)
    BY <1>6, ProgramAssumption DEF Fresh, Held
  <2> QED
    BY <1>8, <2>1, FreshOthers
<1> QED
  <2>1. Pushes(t, s, Frame(w, Body[w], "task")) /\ t # User
    BY <1>0, <1>3, OwnerFacts DEF f
  <2> QED
    BY <1>2, <1>6, <1>8, <1>9, <1>15, <1>16, <2>1, CallBegins DEF KeepsFresh


-----------------------------------------------------------------------------
(* The Thread object's thread is created, once.                             *)

LEMMA threadCreateInv ==
  ASSUME IInv, NEW t \in Thread, threadCreate(t)
  PROVE  IInv'
<1> DEFINE f == Frame(None, Main[User], "main")
           a == <<"main", User>>
<1>1. AtCall(t, "create") /\ pc[t] = "run" /\ InCode(t) /\ Called(t) = "create"
      /\ \A o \in Object : ~AtCall(t, o)
  BY AtCallFacts, ItemKinds DEF threadCreate
<1>2. ~Created /\ stack[User] = <<>> /\ ~thread.exited /\ StackType
  <2>1. Fresh("create")
    BY <1>1, AtCallFresh DEF Once
  <2> QED
    BY <2>1 DEF Fresh, IInv, UserInv, TypeInv
<1>3. t # User /\ User \in Thread /\ pc[User] = "run"
  BY <1>1, <1>2, UserInThread, EmptyIsRunning DEF InCode
<1>4. /\ thread' = [thread EXCEPT !.handle = TRUE]
      /\ stack' = [stack EXCEPT ![t] = Advanced(@), ![User] = <<f>>]
      /\ SameMessages /\ UNCHANGED <<started, threadId, pc, background, timer>>
  BY DEF threadCreate, SameMessages
<1>5. f \in Frames /\ f.via = "main" /\ f.left = Main[User] /\ f.work = None
  <2>1. Main[User] \in Seq(Item)
    BY ProgramFacts
  <2> QED
    BY <2>1 DEF Frame, Frames
<1> HIDE DEF f
<1>6. /\ stack'[t] = Advanced(stack[t]) /\ stack'[User] = <<f>>
      /\ \A u \in Thread : u # t /\ u # User => stack'[u] = stack[u]
  BY <1>2, <1>3, <1>4 DEF StackType
<1>7. DOMAIN <<f>> = {1} /\ <<f>>[1] = f /\ Len(<<f>>) = 1 /\ <<f>> \in Seq(Frames)
  BY <1>5
<1>8. /\ stack[t] \in Seq(Frames) /\ stack[t] # <<>> /\ Last(stack[t]).left # <<>>
      /\ Len(stack[t]) \in DOMAIN stack[t] /\ Top(t) = stack[t][Len(stack[t])]
      /\ Top(t).left \in Seq(Item) /\ Top(t).left # <<>>
  BY <1>1, <1>2, InCodeFacts DEF InCode
<1>9. /\ Advanced(stack[t]) \in Seq(Frames) /\ Len(Advanced(stack[t])) = Len(stack[t])
      /\ DOMAIN Advanced(stack[t]) = DOMAIN stack[t]
      /\ \A i \in DOMAIN stack[t] :
           /\ Advanced(stack[t])[i].work = stack[t][i].work
           /\ Advanced(stack[t])[i].via = stack[t][i].via
           /\ Advanced(stack[t])[i].left = IF i = Len(stack[t]) THEN Tail(stack[t][i].left)
                                                                ELSE stack[t][i].left
  BY <1>8, AdvancedFacts
<1>10. StackType'
  BY <1>2, <1>4, <1>7, <1>9 DEF StackType
<1>11. Created' /\ ~thread'.exited /\ TimerType'
  <2>1. thread \in [handle : BOOLEAN, exited : BOOLEAN, ended : BOOLEAN, cleaned : BOOLEAN]
    BY DEF IInv, TypeInv, TimerType
  <2>2. thread'.handle /\ thread'.exited = thread.exited
    BY <1>4, <2>1
  <2>3. thread' \in [handle : BOOLEAN, exited : BOOLEAN, ended : BOOLEAN, cleaned : BOOLEAN]
    BY <1>4, <2>1
  <2> QED
    BY <1>2, <1>4, <2>2, <2>3 DEF Created, IInv, TypeInv, TimerType
<1>12. TypeInv' /\ QueueInv'
  <2>1. ObjectType' /\ MessageType'
    BY <1>4 DEF SameMessages, IInv, TypeInv, ObjectType, MessageType
  <2>2. QueueType' /\ QueueInv'
    BY <1>4, QueueSame DEF SameMessages, IInv, TypeInv
  <2> QED
    BY <1>10, <1>11, <2>1, <2>2 DEF TypeInv
<1>13. ShapeInv'
  <2>1. ASSUME NEW u \in Thread
        PROVE  PcShape(u)' /\ \A i \in DOMAIN stack'[u] : FrameShape(u, i, stack'[u][i])
    <3>1. CASE u = User
      <4>1. PcShape(u)'
        BY <1>3, <1>4, <3>1 DEF PcShape, Calling
      <4>2. FrameShape(User, 1, f)
        BY <1>5, ProgramFacts DEF FrameShape, Base
      <4> QED
        BY <1>6, <1>7, <3>1, <4>1, <4>2
    <3>2. CASE u = t
      <4>1. PcShape(u)'
        BY <1>1, <1>4, <3>2 DEF PcShape, Calling
      <4>2. ASSUME NEW i \in DOMAIN stack[t] PROVE FrameShape(t, i, Advanced(stack[t])[i])
        <5>1. FrameShape(t, i, stack[t][i])
          BY DEF IInv, ShapeInv
        <5>2. \A k \in DOMAIN Advanced(stack[t])[i].left :
                \E l \in DOMAIN stack[t][i].left : Advanced(stack[t])[i].left[k] = stack[t][i].left[l]
          <6>1. CASE i = Len(stack[t])
            <7>1. stack[t][i].left \in Seq(Item) /\ stack[t][i].left # <<>>
              BY <1>8, <6>1
            <7>2. Advanced(stack[t])[i].left = Tail(stack[t][i].left)
              BY <1>9, <6>1
            <7> QED
              BY <7>1, <7>2, TailFacts
          <6>2. CASE i # Len(stack[t])
            BY <1>9, <6>2
          <6> QED
            BY <6>1, <6>2
        <5> QED
          BY <1>9, <5>1, <5>2 DEF FrameShape
      <4> QED
        BY <1>6, <1>9, <3>2, <4>1, <4>2
    <3>3. CASE u # t /\ u # User
      BY <1>4, <1>6, <3>3, ShapeOther DEF IInv
    <3> QED
      BY <3>1, <3>2, <3>3
  <2>2. (\A u \in Thread : PcShape(u) /\ \A i \in DOMAIN stack[u] : FrameShape(u, i, stack[u][i]))'
    BY <2>1 DEF FrameShape
  <2> QED
    BY <2>2 DEF ShapeInv
<1>14. UserInv'
  BY <1>6, <1>7, <1>11 DEF UserInv
<1>15. JoinInv'
  BY <1>11 DEF JoinInv
<1>16. MessageInv'
  <2>1. \A w \in Work : \A u \in Thread : \A l \in Calling : CallAt(u, l, w)' <=> CallAt(u, l, w)
    <3>1. ASSUME NEW w \in Work, NEW u \in Thread, NEW l \in Calling
          PROVE  CallAt(u, l, w)' <=> CallAt(u, l, w)
      <4>1. CASE u = t \/ u = User
        BY <1>1, <1>3, <1>4, <4>1 DEF CallAt, Calling
      <4>2. CASE u # t /\ u # User
        BY <1>4, <1>6, <4>2 DEF CallAt, Called, Top
      <4> QED
        BY <4>1, <4>2
    <3> QED
      BY <3>1
  <2>2. \A w \in Work : \A u \in Thread : \A i \in Nat : \A v \in Executes :
          FrameAt(u, i, v, w)' <=> FrameAt(u, i, v, w)
    <3>1. ASSUME NEW w \in Work, NEW u \in Thread, NEW i \in Nat, NEW v \in Executes
          PROVE  FrameAt(u, i, v, w)' <=> FrameAt(u, i, v, w)
      <4>1. CASE u = t
        BY <1>6, <1>9, <4>1 DEF FrameAt
      <4>2. CASE u = User
        BY <1>2, <1>5, <1>6, <1>7, <4>2 DEF FrameAt, Executes
      <4>3. CASE u # t /\ u # User
        BY <1>6, <4>3 DEF FrameAt
      <4> QED
        BY <4>1, <4>2, <4>3
    <3> QED
      BY <3>1
  <2> QED
    BY <1>4, <2>1, <2>2, MessagesSame DEF IInv
<1>17. OnceInv'
  <2>1. a \in Origin /\ Program(a) = Main[User] /\ 1 \in Nat /\ 1 \in {0, 1}
    BY ProgramFacts
  <2>2. ~Begun(a) /\ Begun(a)'
    BY <1>2, <1>11, ServiceAssumption DEF Begun
  <2> HIDE DEF a
  <2>3. \A b \in Origin : Begun(b) => Begun(b)'
    BY <1>4, <1>11 DEF Begun, SameMessages
  <2>4. ASSUME NEW x \in Once, NEW u \in Thread, NEW i \in Nat, NEW k \in Nat, LeftAt(u, i, k, x)'
        PROVE  \/ LeftAt(u, i, Shift(t, 1, u, i, k), x)
               \/ Enters(User, 1, a, u, i, k, x) /\ Begun(a)'
    <3>1. CASE u = User
      BY <1>5, <1>6, <1>7, <2>1, <2>2, <2>4, <3>1 DEF LeftAt, Enters
    <3>2. CASE u = t
      <4>1. i \in DOMAIN stack[t] /\ k \in DOMAIN Advanced(stack[t])[i].left /\ Advanced(stack[t])[i].left[k] = x
        BY <1>6, <1>9, <2>4, <3>2 DEF LeftAt
      <4>2. CASE i = Len(stack[t])
        <5>1. k + 1 \in DOMAIN stack[t][i].left /\ stack[t][i].left[k + 1] = x
          <6>1. stack[t][i].left \in Seq(Item) /\ stack[t][i].left # <<>>
            BY <1>8, <4>2
          <6>2. Advanced(stack[t])[i].left = Tail(stack[t][i].left)
            BY <1>9, <4>1, <4>2
          <6> QED
            BY <4>1, <6>1, <6>2, TailFacts
        <5> QED
          BY <3>2, <4>1, <4>2, <5>1 DEF LeftAt, Shift
      <4>3. CASE i # Len(stack[t])
        BY <1>9, <3>2, <4>1, <4>3 DEF LeftAt, Shift
      <4> QED
        BY <4>2, <4>3
    <3>3. CASE u # t /\ u # User
      BY <1>6, <2>4, <3>3 DEF LeftAt, Shift
    <3> QED
      BY <3>1, <3>2, <3>3
  <2>5. LeftAt(t, Len(stack[t]), 1, "create")
    BY <1>1, <1>2, CalledAt
  <2>6. \A x \in Once : Fresh(x) =>
           \/ Fresh(x)'
           \/ /\ LeftAt(t, Len(stack[t]), 1, x)
              /\ 1 = 1 \/ (pc'[t] \in Calling /\ Len(stack'[t]) = Len(stack[t]))
    BY <1>4, <2>5 DEF Fresh, SameMessages
  <2>7. \A u \in Thread : pc[u] \in Calling /\ ~(u = t /\ 1 = 1) =>
                             pc'[u] \in Calling /\ Len(stack'[u]) = Len(stack[u])
    BY <1>3, <1>4, <1>6 DEF Calling
  <2>8. OnePlace /\ NotAhead /\ LeftFresh /\ AheadFresh
    BY DEF IInv, OnceInv
  <2>9. OnePlace' /\ NotAhead' /\ LeftFresh' /\ AheadFresh'
    BY <1>2, <1>3, <1>10, <2>1, <2>3, <2>4, <2>6, <2>7, <2>8, OnceStep
  <2> QED
    BY <1>4, <2>9 DEF IInv, OnceInv, BackgroundInv
<1>18. StartInv'
  <2>1. ASSUME NEW o \in Object, AtCall(Boot, o) PROVE AtCall(Boot, o)'
    <3>1. Boot # t /\ Boot # User /\ Boot \in Thread
      BY <1>1, <2>1, ServiceAssumption, ObjectAssumption
    <3> QED
      BY <1>4, <1>6, <2>1, <3>1 DEF AtCall, Running, Top
  <2> QED
    BY <1>4, <2>1 DEF IInv, StartInv
<1> QED
  BY <1>12, <1>13, <1>14, <1>15, <1>16, <1>17, <1>18 DEF IInv


-----------------------------------------------------------------------------
(* The invariant is inductive.                                              *)

LEMMA InitInv == Init => IInv
<1> SUFFICES ASSUME Init PROVE IInv
  OBVIOUS
<1> DEFINE f == Frame(None, Main[Boot], "main")
           a == <<"main", Boot>>
<1>0. Boot \in Thread /\ User \in Thread /\ Boot # User /\ Service \in Thread
  BY UserInThread, ServiceAssumption
<1>1. f \in Frames /\ f.via = "main" /\ f.left = Main[Boot] /\ f.work = None
  <2>1. Main[Boot] \in Seq(Item)
    BY <1>0, ProgramAssumption
  <2> QED
    BY <2>1 DEF Frame, Frames
<1>2. /\ stack = [t \in Thread |-> IF t = Boot THEN <<f>> ELSE <<>>] /\ pc = [t \in Thread |-> "run"]
      /\ started = [o \in Object |-> FALSE] /\ threadId = [o \in Object |-> None]
      /\ queue = [o \in Object |-> <<>>] /\ mem = [w \in Work |-> "none"]
      /\ result = [w \in Work |-> Garbage] /\ complete = [w \in Work |-> 0]
      /\ background = Background /\ runs = [w \in Work |-> 0] /\ answer = [w \in Work |-> None]
      /\ timer = [handle |-> TRUE, active |-> FALSE, running |-> FALSE, left |-> MaxExpiries]
      /\ thread = [handle |-> FALSE, exited |-> FALSE, ended |-> FALSE, cleaned |-> FALSE]
  BY DEF Init, aoInit
<1> HIDE DEF f
<1>3. /\ stack[Boot] = <<f>> /\ \A t \in Thread : t # Boot => stack[t] = <<>>
      /\ \A t \in Thread : pc[t] = "run"
  BY <1>0, <1>2
<1>4. DOMAIN <<f>> = {1} /\ <<f>>[1] = f /\ <<f>> \in Seq(Frames)
  BY <1>1
<1>5. TypeInv
  <2>1. StackType
    BY <1>2, <1>4 DEF StackType, PCs
  <2>2. QueueType
    <3>1. \A o \in Object : queue[o] = <<>> /\ QueueSize[o] \in Nat
      BY <1>2, ObjectAssumption
    <3>2. queue \in [Object -> Seq(Work)]
      BY <1>2
    <3> QED
      BY <3>1, <3>2 DEF QueueType
  <2>3. MessageType
    BY <1>2 DEF MessageType
  <2>4. ObjectType
    BY <1>2, ProgramAssumption DEF ObjectType
  <2>5. TimerType
    BY <1>2, ServiceAssumption DEF TimerType
  <2> QED
    BY <2>1, <2>2, <2>3, <2>4, <2>5 DEF TypeInv
<1>6. ShapeInv
  <2>1. ASSUME NEW t \in Thread PROVE PcShape(t)
    BY <1>3 DEF PcShape, Calling
  <2>2. ASSUME NEW t \in Thread, NEW i \in DOMAIN stack[t] PROVE FrameShape(t, i, stack[t][i])
    BY <1>1, <1>3, <1>4, <2>2 DEF FrameShape, Base
  <2> QED
    BY <2>1, <2>2 DEF ShapeInv
<1>7. ~Created /\ ~thread.exited
  BY <1>2 DEF Created
<1>8. UserInv /\ JoinInv
  BY <1>0, <1>3, <1>7 DEF UserInv, JoinInv
<1>9. QueueInv /\ \A w : ~Queued(w)
  BY <1>2 DEF QueueInv, Queued
<1>10. MessageInv
  <2>1. ASSUME NEW w \in Work PROVE LifeInv(w)
    <3>1. \A t \in Thread : \A l \in Calling : ~CallAt(t, l, w)
      BY <1>3 DEF CallAt, Calling
    <3>2. \A t \in Thread : \A i \in Nat : \A v \in Executes : ~FrameAt(t, i, v, w)
      BY <1>1, <1>3, <1>4 DEF FrameAt, Executes
    <3>3. ~Calls("put", w) /\ ~Calls("wait", w) /\ ~Calls("get", w)
      BY <3>1 DEF Calls, Calling
    <3>4. ~Framed("task", w) /\ ~Framed("done", w) /\ ~Framed("direct", w)
      BY <3>2 DEF Framed, Executes
    <3>5. OneCaller(w) /\ OneFrame(w)
      BY <3>1, <3>2 DEF OneCaller, OneFrame
    <3>6. mem[w] = "none" /\ complete[w] = 0 /\ runs[w] = 0 /\ answer[w] = None
      BY <1>2
    <3>7. Putting(w) /\ Waiting(w) /\ Getting(w) /\ InQueue(w)
      BY <1>9, <3>3 DEF Putting, Waiting, Getting, InQueue
    <3>8. InTask(w) /\ InDone(w) /\ Complete(w) /\ Direct(w) /\ Owned(w) /\ Answered(w)
      BY <3>4, <3>6 DEF InTask, InDone, Complete, Direct, Owned, Answered
    <3> QED
      BY <3>5, <3>7, <3>8 DEF LifeInv
  <2> QED
    BY <2>1 DEF MessageInv
<1>11. OnceInv
  <2>1. \A x \in Once : Fresh(x)
    BY <1>2, <1>7 DEF Fresh, Once
  <2>2. a \in Origin /\ Program(a) = Main[Boot] /\ Begun(a)
    BY DEF Origin, Program, Begun
  <2> HIDE DEF a
  <2>3. ASSUME NEW x \in Once, NEW t \in Thread, NEW i \in Nat, NEW k \in Nat, LeftAt(t, i, k, x)
        PROVE  t = Boot /\ i = 1 /\ k \in DOMAIN Program(a) /\ Program(a)[k] = x
    BY <1>1, <1>3, <1>4, <2>2, <2>3 DEF LeftAt
  <2>4. OnePlace
    <3>1. ASSUME NEW x \in Once, NEW k \in DOMAIN Program(a), NEW l \in DOMAIN Program(a),
                 Program(a)[k] = x, Program(a)[l] = x
          PROVE  k = l
      BY <2>2, <3>1, OnceAssumption
    <3> QED
      BY <2>3, <3>1 DEF OnePlace
  <2>5. NotAhead
    <3>1. ASSUME NEW x \in Once, NEW b \in Origin, Ahead(b, x), NEW k \in DOMAIN Program(a), Program(a)[k] = x
          PROVE  FALSE
      <4>1. PICK l \in DOMAIN Program(b) : Program(b)[l] = x
        BY <3>1 DEF Ahead
      <4>2. a = b
        BY <2>2, <3>1, <4>1, OnceAssumption
      <4> QED
        BY <2>2, <3>1, <4>2 DEF Ahead
    <3> QED
      BY <2>3, <3>1 DEF NotAhead
  <2>6. LeftFresh /\ AheadFresh
    BY <2>1 DEF LeftFresh, AheadFresh
  <2>7. BackgroundInv
    BY <1>2 DEF BackgroundInv
  <2> QED
    BY <2>4, <2>5, <2>6, <2>7 DEF OnceInv
<1>12. StartInv
  BY <1>2 DEF StartInv
<1> QED
  BY <1>5, <1>6, <1>8, <1>9, <1>10, <1>11, <1>12 DEF IInv

LEMMA StutterInv == IInv /\ UNCHANGED vars => IInv'
<1> SUFFICES ASSUME IInv, UNCHANGED vars PROVE IInv'
  OBVIOUS
<1> USE DEF vars
<1>1. TypeInv'
  BY DEF IInv, TypeInv, StackType, QueueType, MessageType, ObjectType, TimerType
<1>2. ShapeInv' /\ UserInv' /\ JoinInv' /\ QueueInv' /\ StartInv'
  BY DEF IInv, ShapeInv, PcShape, Called, Top, UserInv, JoinInv, Created, QueueInv, StartInv, AtCall, Running
<1>3. MessageInv'
  BY MessagesSame DEF IInv, SameMessages, CallAt, FrameAt, Called, Top
<1>4. OnceInv'
  BY DEF IInv, OnceInv, OnePlace, NotAhead, LeftFresh, AheadFresh, BackgroundInv, LeftAt, Ahead, Begun,
         Fresh, AtHead, Created
<1> QED
  BY <1>1, <1>2, <1>3, <1>4 DEF IInv

LEMMA CallStep ==
  ASSUME IInv, NEW t \in Thread, aoStep(t), UNCHANGED <<timer, thread>>
  PROVE  IInv'
<1>1. ASSUME NEW w \in Work, invoke(t, w) PROVE IInv'
  BY <1>1, invokeRemoteInv, invokeDirectInv
<1>2. CASE put(t) \/ putTimeout(t) \/ wait_complete(t) \/ get(t) \/ return(t)
  BY <1>2, putInv, putTimeoutInv, wait_completeInv, getInv, returnInv
<1>3. CASE AsyncTask(t) \/ SystemPromise_invoke(t) \/ task_complete(t) \/ background_end(t)
  BY <1>3, AsyncTaskInv, SystemPromise_invokeInv, task_completeInv, background_endInv
<1>4. ASSUME NEW o \in Object, start(t, o) \/ start_thread(t, o) PROVE IInv'
  BY <1>4, startInv, start_threadInv
<1>5. ASSUME NEW o \in Object, run(o) \/ process(o) \/ background_task(o) PROVE IInv'
  BY <1>5, runInv, processEmptyInv, processTakeInv, background_taskInv
<1> QED
  BY <1>1, <1>2, <1>3, <1>4, <1>5 DEF aoStep

LEMMA StepInv == IInv /\ [Next]_vars => IInv'
<1> SUFFICES ASSUME IInv, [Next]_vars PROVE IInv'
  OBVIOUS
<1>1. CASE invoke_timer
  BY <1>1, invoke_timerInv
<1>2. ASSUME NEW t \in Thread, ThreadStep(t) PROVE IInv'
  <2>1. CASE aoStep(t) /\ UNCHANGED <<timer, thread>>
    BY <2>1, CallStep
  <2>2. ASSUME NEW c \in TimerChange, timerChange(t, c) PROVE IInv'
    BY <2>2, timerChangeInv
  <2>3. CASE timerDispose(t) \/ timerNotRunning(t) \/ timerDestroy(t)
    BY <2>3, timerDisposeInv, timerNotRunningInv, timerDestroyInv
  <2>4. CASE threadCreate(t) \/ threadDispose(t) \/ threadJoin(t) \/ threadCleanup(t)
    BY <2>4, threadCreateInv, threadDisposeInv, threadJoinInv, threadCleanupInv
  <2>5. CASE t = Service /\ (timeout \/ timeoutEnd)
    BY <2>5, timeoutInv, timeoutEndInv
  <2>6. CASE t = User /\ (threadExited \/ threadExit)
    BY <2>6, threadExitedInv, threadExitInv
  <2> QED
    BY <1>2, <2>1, <2>2, <2>3, <2>4, <2>5, <2>6 DEF ThreadStep
<1>3. CASE UNCHANGED vars
  BY <1>3, StutterInv
<1> QED
  BY <1>1, <1>2, <1>3 DEF Next

(* IInv is an invariant of the specification: of every number of threads,   *)
(* active objects and calls, and of every program in which each call is     *)
(* made from one place.                                                     *)
THEOREM InductiveInvariant == Spec => []IInv
  BY InitInv, StepInv, PTL DEF Spec

(* Types: no queue is ever fuller than it is large, and a thread is always  *)
(* at one of the steps of the code.                                         *)
THEOREM TypeCorrect == Spec => []TypeOK
<1>1. IInv => TypeOK
  BY TypeInvTypeOK DEF IInv
<1> QED
  BY <1>1, InductiveInvariant, PTL


-----------------------------------------------------------------------------
(* Messages and answers.                                                    *)

(* Who is said to have a pointer, thread by thread. *)
LEMMA ReferencedIs ==
  ASSUME IInv
  PROVE  /\ Referenced \subseteq Work
         /\ \A w \in Work : w \in Referenced <=>
              \/ Queued(w) \/ \E l \in Calling : Calls(l, w)
              \/ Framed("task", w) \/ Framed("done", w)
<1> DEFINE Q == UNION {Range(queue[o]) : o \in Object}
           C == {Called(t) : t \in {u \in Thread : pc[u] \in {"put", "wait", "get"}}}
           F == UNION {{stack[t][i].work : i \in {j \in DOMAIN stack[t] : stack[t][j].via \in {"task", "done"}}}
                       : t \in Thread}
<1>1. \A x : x \in Referenced <=> x \in Q \/ x \in C \/ x \in F
  BY DEF Referenced
<1>2. \A x : x \in Q <=> Queued(x)
  BY DEF Queued, Range
<1>3. \A x : x \in C <=> \E l \in Calling : Calls(l, x)
  BY DEF Calls, CallAt, Calling
<1>4. \A x : x \in F <=> Framed("task", x) \/ Framed("done", x)
  <2>1. \A t \in Thread : stack[t] \in Seq(Frames)
    BY DEF IInv, TypeInv, StackType
  <2>2. \A t \in Thread : \A i \in DOMAIN stack[t] : i \in Nat
    BY <2>1
  <2>3. ASSUME NEW x PROVE x \in F <=> \E t \in Thread : \E i \in DOMAIN stack[t] :
                                         stack[t][i].via \in {"task", "done"} /\ stack[t][i].work = x
    OBVIOUS
  <2> QED
    BY <2>2, <2>3 DEF Framed, FrameAt
<1>5. Q \subseteq Work
  <2>1. \A o \in Object : queue[o] \in Seq(Work)
    BY DEF IInv, TypeInv, QueueType
  <2>2. \A o \in Object : \A k \in DOMAIN queue[o] : queue[o][k] \in Work
    BY <2>1
  <2> QED
    BY <1>2, <2>2 DEF Queued
<1>6. C \subseteq Work
  BY CallingFacts DEF Calling
<1>7. F \subseteq Work
  <2>1. ASSUME NEW t \in Thread, NEW i \in DOMAIN stack[t], stack[t][i].via \in {"task", "done"}
        PROVE  stack[t][i].work \in Work
    <3>1. stack[t] \in Seq(Frames)
      BY DEF IInv, TypeInv, StackType
    <3>2. stack[t][i] \in Frames
      BY <3>1
    <3>3. FrameShape(t, i, stack[t][i])
      BY DEF IInv, ShapeInv
    <3>4. stack[t][i].work # None
      BY <2>1, <3>3 DEF FrameShape, Base
    <3> QED
      BY <3>2, <3>4, FrameFacts
  <2> QED
    BY <2>1
<1> HIDE DEF Q, C, F
<1> QED
  BY <1>1, <1>2, <1>3, <1>4, <1>5, <1>6, <1>7

(* In every reachable state the messages allocated are those that a thread  *)
(* or a queue has a pointer to: invoke_async, the promise's wait and get,   *)
(* the task's own deletion and the refused put neither leak a message nor   *)
(* leave a pointer to a deleted one.                                        *)
THEOREM MessagesAreOwned == Spec => []MessagesOwned
<1>1. ASSUME IInv PROVE MessagesOwned
  <2>1. ASSUME NEW w \in Work PROVE mem[w] = "live" <=> w \in Referenced
    <3>1. LifeInv(w)
      BY <1>1 DEF IInv, MessageInv
    <3>2. w \in Referenced <=> \/ Queued(w) \/ \E l \in Calling : Calls(l, w)
                               \/ Framed("task", w) \/ Framed("done", w)
      BY <1>1, ReferencedIs
    <3>3. (\E l \in Calling : Calls(l, w)) <=> Calls("put", w) \/ Calls("wait", w) \/ Calls("get", w)
      BY DEF Calling
    <3>4. Queued(w) \/ Framed("task", w) \/ Framed("done", w) => mem[w] = "live"
      BY <3>1 DEF LifeInv, InQueue, InTask, InDone, Held
    <3>5. Calls("put", w) \/ Calls("wait", w) \/ Calls("get", w) => mem[w] = "live"
      BY <3>1 DEF LifeInv, Putting, Waiting, Getting, Held
    <3>6. mem[w] = "live" => \/ \E l \in Calling : Calls(l, w)
                             \/ Queued(w) \/ Framed("task", w) \/ Framed("done", w)
      BY <3>1 DEF LifeInv, Owned
    <3> QED
      BY <3>2, <3>3, <3>4, <3>5, <3>6
  <2>2. Referenced \subseteq Work
    BY <1>1, ReferencedIs
  <2> QED
    BY <2>1, <2>2 DEF MessagesOwned
<1>2. IInv => MessagesOwned
  BY <1>1
<1> QED
  BY <1>2, InductiveInvariant, PTL

(* In every reachable state what a caller was given is true: 0 from a full  *)
(* queue only for a call that has not run and that nobody will run, any     *)
(* other answer only for the function's own result, of its only run.        *)
THEOREM AnswersTrue == Spec => []AnswersAreTrue
<1>1. ASSUME IInv PROVE AnswersAreTrue
  <2>1. ASSUME NEW w \in Work
        PROVE  \/ answer[w] = None /\ runs[w] <= 1
               \/ answer[w] = 0 /\ runs[w] = 0 /\ w \notin Referenced
               \/ answer[w] = w /\ runs[w] = 1
    <3>1. LifeInv(w)
      BY <1>1 DEF IInv, MessageInv
    <3>2. ASSUME mem[w] = "freed" PROVE w \notin Referenced
      <4>1. ~Queued(w) /\ ~Framed("task", w) /\ ~Framed("done", w)
        BY <3>1, <3>2 DEF LifeInv, InQueue, InTask, InDone, Held
      <4>2. ~Calls("put", w) /\ ~Calls("wait", w) /\ ~Calls("get", w)
        BY <3>1, <3>2 DEF LifeInv, Putting, Waiting, Getting, Held
      <4>3. \A l \in Calling : ~Calls(l, w)
        BY <4>2 DEF Calling
      <4> QED
        BY <1>1, <4>1, <4>3, ReferencedIs
    <3> QED
      BY <3>1, <3>2 DEF LifeInv, Answered
  <2> QED
    BY <2>1 DEF AnswersAreTrue
<1>2. IInv => AnswersAreTrue
  BY <1>1
<1> QED
  BY <1>2, InductiveInvariant, PTL


-----------------------------------------------------------------------------
(* Exclusion of the functions of an object.                                 *)

(* The works in a stack, and steps that begin none. *)
WorkOf(s) == {s[i].work : i \in DOMAIN s}
BeginsNone == \A t \in Thread : WorkOf(stack'[t]) \subseteq WorkOf(stack[t]) \cup {None}

LEMMA WorkOfFacts ==
  /\ WorkOf(<<>>) = {}
  /\ \A f \in Frames : WorkOf(<<f>>) = {f.work}
  /\ \A s \in Seq(Frames) : s # <<>> => WorkOf(Front(s)) \subseteq WorkOf(s)
  /\ \A s \in Seq(Frames) : s # <<>> /\ Last(s).left # <<>> => WorkOf(Advanced(s)) = WorkOf(s)
  /\ \A s \in Seq(Frames) : \A f \in Frames : WorkOf(Append(s, f)) = WorkOf(s) \cup {f.work}
<1>1. WorkOf(<<>>) = {}
  BY DEF WorkOf
<1>2. ASSUME NEW f \in Frames PROVE WorkOf(<<f>>) = {f.work}
  <2>1. DOMAIN <<f>> = {1} /\ <<f>>[1] = f
    OBVIOUS
  <2> QED
    BY <2>1 DEF WorkOf
<1>3. ASSUME NEW s \in Seq(Frames), s # <<>> PROVE WorkOf(Front(s)) \subseteq WorkOf(s)
  <2>1. Len(s) \in Nat /\ DOMAIN s = 1 .. Len(s)
    BY <1>3, TopFacts
  <2>2. DOMAIN Front(s) = 1 .. Len(s) - 1 /\ \A i \in 1 .. Len(s) - 1 : Front(s)[i] = s[i]
    BY <1>3, FrontFacts
  <2>3. \A i \in DOMAIN Front(s) : i \in DOMAIN s /\ Front(s)[i] = s[i]
    BY <2>1, <2>2
  <2> QED
    BY <2>3 DEF WorkOf
<1>4. ASSUME NEW s \in Seq(Frames), s # <<>>, Last(s).left # <<>> PROVE WorkOf(Advanced(s)) = WorkOf(s)
  BY <1>4, AdvancedFacts DEF WorkOf
<1>5. ASSUME NEW s \in Seq(Frames), NEW f \in Frames PROVE WorkOf(Append(s, f)) = WorkOf(s) \cup {f.work}
  <2>1. /\ Len(s) \in Nat /\ DOMAIN s = 1 .. Len(s) /\ DOMAIN Append(s, f) = 1 .. Len(s) + 1
        /\ \A i \in 1 .. Len(s) : Append(s, f)[i] = s[i]
        /\ Append(s, f)[Len(s) + 1] = f
    BY PushFacts
  <2>2. /\ \A i \in 1 .. Len(s) : i \in 1 .. Len(s) + 1
        /\ \A i \in 1 .. Len(s) + 1 : i \in 1 .. Len(s) \/ i = Len(s) + 1
        /\ Len(s) + 1 \in 1 .. Len(s) + 1
    BY <2>1
  <2> QED
    BY <2>1, <2>2 DEF WorkOf
<1> QED
  BY <1>1, <1>2, <1>3, <1>4, <1>5

(* One stack changes. *)
LEMMA BeginsNoneOf ==
  ASSUME StackType, NEW t \in Thread, NEW s, stack' = [stack EXCEPT ![t] = s],
         WorkOf(s) \subseteq WorkOf(stack[t]) \cup {None}
  PROVE  BeginsNone
  BY DEF BeginsNone, StackType

LEMMA AdvanceBeginsNone ==
  ASSUME StackType, NEW t \in Thread, InCode(t), Advance(t)
  PROVE  BeginsNone
<1>1. stack[t] \in Seq(Frames) /\ stack[t] # <<>> /\ Last(stack[t]).left # <<>>
  BY InCodeFacts
<1>2. stack' = [stack EXCEPT ![t] = Advanced(stack[t])]
  BY DEF Advance
<1> QED
  BY <1>1, <1>2, WorkOfFacts, BeginsNoneOf

LEMMA PopBeginsNone ==
  ASSUME StackType, NEW t \in Thread, stack[t] # <<>>, Pop(t)
  PROVE  BeginsNone
<1>1. stack[t] \in Seq(Frames)
  BY DEF StackType
<1>2. stack' = [stack EXCEPT ![t] = Front(stack[t])]
  BY DEF Pop
<1> QED
  BY <1>1, <1>2, WorkOfFacts, BeginsNoneOf

LEMMA SameBeginsNone == stack' = stack => BeginsNone
  BY DEF BeginsNone

(* Where work is executed stays, if none begins. *)
LEMMA PlaceKeeps ==
  ASSUME PlaceInv, started' = started, BeginsNone
  PROVE  PlaceInv'
<1>1. ASSUME NEW o \in Object, NEW t \in Thread, NEW i \in DOMAIN stack'[t],
             stack'[t][i].work \in {w \in Work : On[w] = o}
      PROVE  t \in Executing(o)
  <2>1. stack'[t][i].work \in WorkOf(stack[t])
    <3>1. stack'[t][i].work \in WorkOf(stack'[t])
      BY DEF WorkOf
    <3>2. stack'[t][i].work # None
      BY <1>1, WorkAssumption
    <3> QED
      BY <3>1, <3>2 DEF BeginsNone
  <2> QED
    BY <1>1, <2>1 DEF WorkOf, Executing
<1>2. \A o \in Object : Executing(o)' \subseteq Executing(o)
  BY <1>1 DEF Executing
<1> QED
  BY <1>2 DEF PlaceInv

(* A work begins where its object's work is. *)
LEMMA PlaceBegins ==
  ASSUME IInv, PlaceInv, started' = started, NEW t \in Thread, NEW w \in Work, NEW s, NEW v \in Executes,
         Pushes(t, s, Frame(w, Body[w], v)),
         started[On[w]] => t = Owner[On[w]], started[On[w]] \/ EarlyCallsFromBoot'
  PROVE  PlaceInv'
<1> DEFINE f == Frame(w, Body[w], v)
<1>1. f \in Frames /\ f.work = w /\ StackType /\ Pushes(t, s, f)
  <2>1. Body[w] \in Seq(Item)
    BY ProgramFacts
  <2> QED
    BY <2>1 DEF Frame, Frames, IInv, TypeInv, Executes
<1> HIDE DEF f
<1>2. /\ \A u \in Thread : u # t => stack'[u] = stack[u]
      /\ DOMAIN stack'[t] = 1 .. Len(stack[t]) + 1 /\ DOMAIN stack[t] = 1 .. Len(stack[t])
      /\ Len(stack[t]) \in Nat
      /\ stack'[t][Len(stack[t]) + 1] = f
      /\ \A i \in DOMAIN stack[t] : stack'[t][i].work = stack[t][i].work
  <2>1. /\ \A u \in Thread : u # t => stack'[u] = stack[u]
        /\ DOMAIN stack'[t] = 1 .. Len(stack[t]) + 1 /\ DOMAIN stack[t] = 1 .. Len(stack[t])
        /\ Len(stack[t]) \in Nat
        /\ stack'[t][Len(stack[t]) + 1] = f
    BY <1>1, PushesFacts
  <2>2. \A i \in DOMAIN stack[t] : stack'[t][i].work = stack[t][i].work
    BY <1>1, PushesFacts
  <2> QED
    BY <2>1, <2>2
<1>3. ASSUME NEW o \in Object, NEW u \in Executing(o)' PROVE u \in Executing(o) \/ (u = t /\ On[w] = o)
  <2>1. PICK i \in DOMAIN stack'[u] : stack'[u][i].work \in {x \in Work : On[x] = o}
    BY <1>3 DEF Executing
  <2>2. u \in Thread
    BY DEF Executing
  <2>3. CASE u # t
    BY <1>2, <2>1, <2>2, <2>3 DEF Executing
  <2>4. CASE u = t /\ i = Len(stack[t]) + 1
    BY <1>1, <1>2, <2>1, <2>4
  <2>5. CASE u = t /\ i # Len(stack[t]) + 1
    <3>1. i \in DOMAIN stack[t]
      <4>1. \A k \in Nat : \A j \in 1 .. k + 1 : j # k + 1 => j \in 1 .. k
        OBVIOUS
      <4>2. i \in 1 .. Len(stack[t]) + 1
        BY <1>2, <2>5
      <4> QED
        BY <1>2, <2>5, <4>1, <4>2
    <3> QED
      BY <1>2, <2>1, <2>5, <3>1 DEF Executing
  <2> QED
    BY <2>3, <2>4, <2>5
<1>4. ASSUME NEW o \in Object, NEW u \in Executing(o)' PROVE u = IF started[o] THEN Owner[o] ELSE Boot
  <2>1. CASE u \in Executing(o)
    BY <2>1 DEF PlaceInv
  <2>2. CASE u = t /\ On[w] = o /\ started[o]
    BY <2>2
  <2>3. CASE On[w] = o /\ ~started[o]
    BY <1>4, <2>3 DEF EarlyCallsFromBoot
  <2> QED
    BY <1>3, <1>4, <2>1, <2>2, <2>3
<1>5. \A o \in Object : Executing(o)' \subseteq {IF started'[o] THEN Owner[o] ELSE Boot}
  BY <1>4
<1> QED
  BY <1>5 DEF PlaceInv


LEMMA invokePlace ==
  ASSUME IInv, EarlyCallsFromBoot', PlaceInv, NEW t \in Thread, NEW w \in Work, invoke(t, w)
  PROVE  PlaceInv'
<1>1. AtCall(t, w) /\ pc[t] = "run" /\ InCode(t) /\ started' = started
  BY AtCallFacts DEF invoke
<1>2. CASE isRemote(t, On[w])
  <2>1. stack' = stack
    BY <1>2 DEF invoke
  <2> QED
    BY <1>1, <2>1, SameBeginsNone, PlaceKeeps
<1>3. CASE ~isRemote(t, On[w])
  <2>1. Pushes(t, Advanced(stack[t]), Frame(w, Body[w], "direct")) /\ "direct" \in Executes
    BY <1>1, <1>3 DEF invoke, Begin, Pushes, Executes
  <2>2. started[On[w]] => t = Owner[On[w]]
    BY <1>3, WorkAssumption DEF isRemote, IInv, StartInv
  <2> QED
    BY <1>1, <2>1, <2>2, PlaceBegins
<1> QED
  BY <1>2, <1>3

LEMMA callPlace ==
  ASSUME IInv, PlaceInv, NEW t \in Thread, put(t) \/ putTimeout(t) \/ wait_complete(t) \/ get(t)
  PROVE  PlaceInv'
<1>1. InCode(t) /\ StackType /\ started' = started
  BY CallingFacts DEF put, putTimeout, wait_complete, get, Calling
<1>2. stack' = stack \/ Advance(t)
  BY DEF put, putTimeout, wait_complete, get
<1> QED
  BY <1>1, <1>2, SameBeginsNone, AdvanceBeginsNone, PlaceKeeps

LEMMA endPlace ==
  ASSUME IInv, PlaceInv, NEW t \in Thread,
         return(t) \/ AsyncTask(t) \/ SystemPromise_invoke(t) \/ task_complete(t) \/ background_end(t)
  PROVE  PlaceInv'
<1>1. stack[t] # <<>> /\ StackType /\ started' = started
  BY AtEndFacts DEF return, AsyncTask, SystemPromise_invoke, task_complete, background_end, IInv, TypeInv
<1>2. CASE ~SystemPromise_invoke(t)
  <2>1. Pop(t)
    BY <1>2 DEF return, AsyncTask, task_complete, background_end
  <2> QED
    BY <1>1, <2>1, PopBeginsNone, PlaceKeeps
<1>3. CASE SystemPromise_invoke(t)
  <2> DEFINE f == [Top(t) EXCEPT !.via = "done"]
             s == stack[t]
  <2>1. s \in Seq(Frames) /\ s # <<>>
    BY <1>1 DEF StackType
  <2>2. Top(t) \in Frames /\ Top(t) = s[Len(s)] /\ Len(s) \in DOMAIN s
    BY <2>1, TopFacts DEF Top
  <2>3. f \in Frames /\ f.work = Top(t).work
    BY <2>2 DEF Frames
  <2>4. stack' = [stack EXCEPT ![t] = Append(Front(s), f)]
    BY <1>3 DEF SystemPromise_invoke
  <2> HIDE DEF f
  <2>5. Front(s) \in Seq(Frames) /\ WorkOf(Front(s)) \subseteq WorkOf(s)
    BY <2>1, FrontFacts, WorkOfFacts
  <2>6. WorkOf(Append(Front(s), f)) = WorkOf(Front(s)) \cup {f.work}
    BY <2>3, <2>5, WorkOfFacts
  <2>7. f.work \in WorkOf(s)
    BY <2>2, <2>3 DEF WorkOf
  <2>8. BeginsNone
    BY <1>1, <2>4, <2>5, <2>6, <2>7, BeginsNoneOf
  <2> QED
    BY <1>1, <2>8, PlaceKeeps
<1> QED
  BY <1>2, <1>3

(* The first thread executes no work when the object's thread starts. *)
LEMMA runPlace ==
  ASSUME IInv, PlaceInv, NEW o \in Object, run(o)
  PROVE  PlaceInv'
<1> DEFINE t == Owner[o]
           f == Frame(None, <<>>, "loop")
<1>1. /\ ~started[o] /\ threadId[o] # None /\ started' = [started EXCEPT ![o] = TRUE]
      /\ stack' = [stack EXCEPT ![t] = <<f>>]
  BY DEF run
<1>2. AtCall(Boot, o) /\ Boot \in Thread /\ t \in Thread /\ StackType
  BY <1>1, UserInThread, OwnerFacts DEF IInv, StartInv, TypeInv
<1>3. DOMAIN stack[Boot] = {1} /\ stack[Boot][1].via \in Base
  BY <1>2, StartsFromBoot
<1>4. stack[Boot][1].work = None
  <2>1. FrameShape(Boot, 1, stack[Boot][1])
    BY <1>2, <1>3 DEF IInv, ShapeInv
  <2> QED
    BY <1>3, <2>1 DEF FrameShape
<1>5. Executing(o) = {}
  <2>1. Executing(o) \subseteq {Boot}
    BY <1>1 DEF PlaceInv
  <2>2. Boot \notin Executing(o)
    BY <1>3, <1>4, WorkAssumption DEF Executing
  <2> QED
    BY <2>1, <2>2
<1>6. BeginsNone
  <2>1. f \in Frames /\ f.work = None
    BY DEF Frame, Frames
  <2>2. WorkOf(<<f>>) = {None}
    BY <2>1, WorkOfFacts
  <2> QED
    BY <1>1, <1>2, <2>2, BeginsNoneOf
<1>7. \A p \in Object : Executing(p)' \subseteq Executing(p)
  <2>1. ASSUME NEW p \in Object, NEW u \in Thread, NEW i \in DOMAIN stack'[u],
               stack'[u][i].work \in {w \in Work : On[w] = p}
        PROVE  u \in Executing(p)
    <3>1. stack'[u][i].work \in WorkOf(stack[u])
      BY <1>6, <2>1, WorkAssumption DEF BeginsNone, WorkOf
    <3> QED
      BY <2>1, <3>1 DEF WorkOf, Executing
  <2> QED
    BY <2>1 DEF Executing
<1>8. \A p \in Object : p # o => started'[p] = started[p]
  BY <1>1 DEF IInv, TypeInv, ObjectType
<1>9. ASSUME NEW p \in Object PROVE Executing(p)' \subseteq {IF started'[p] THEN Owner[p] ELSE Boot}
  <2>1. CASE p = o
    BY <1>5, <1>7, <2>1
  <2>2. CASE p # o
    BY <1>7, <1>8, <2>2 DEF PlaceInv
  <2> QED
    BY <2>1, <2>2
<1> QED
  BY <1>9 DEF PlaceInv

LEMMA processPlace ==
  ASSUME IInv, PlaceInv, NEW o \in Object, process(o)
  PROVE  PlaceInv'
<1>0. PICK t \in Thread : t = Owner[o]
  BY OwnerFacts
<1>1. started' = started /\ started[o] /\ StackType
  BY DEF process, IInv, TypeInv
<1>2. CASE queue[o] = <<>>
  <2>1. AtCall(t, Process) /\ stack' = [stack EXCEPT ![t] = Advanced(stack[t])]
    BY <1>0, <1>2 DEF process
  <2>2. InCode(t) /\ Advance(t)
    BY <2>1, AtCallFacts DEF Advance
  <2> QED
    BY <1>1, <2>2, AdvanceBeginsNone, PlaceKeeps
<1>3. CASE queue[o] # <<>>
  <2> DEFINE s == IF AtEnd(t, "loop") THEN stack[t] ELSE Advanced(stack[t])
  <2>1. PICK w \in Work : w = Head(queue[o])
    BY <1>3, QueueTail DEF process, IInv, TypeInv
  <2>2. /\ AtEnd(t, "loop") \/ AtCall(t, Process)
        /\ stack' = [stack EXCEPT ![t] = Append(s, Frame(w, Body[w], "task"))] /\ pc' = pc
    BY <1>0, <1>3, <2>1 DEF process, Begin
  <2>3. /\ pc[t] = "run" /\ "task" \in Executes
        /\ s = stack[t] \/ (InCode(t) /\ s = Advanced(stack[t]))
    BY <2>2, AtEndFacts, AtCallFacts DEF Executes
  <2>4. Pushes(t, s, Frame(w, Body[w], "task"))
    BY <2>2, <2>3 DEF Pushes
  <2>5. On[w] = o
    <3>1. queue[o] \in Seq(Work)
      BY DEF IInv, TypeInv, QueueType
    <3>2. 1 \in DOMAIN queue[o] /\ Head(queue[o]) = queue[o][1]
      BY <1>3, <3>1
    <3> QED
      BY <2>1, <3>2 DEF IInv, QueueInv
  <2>6. started[On[w]] /\ t = Owner[On[w]]
    BY <1>0, <1>1, <2>5
  <2> HIDE DEF s
  <2> QED
    BY <1>1, <2>3, <2>4, <2>6, PlaceBegins
<1> QED
  BY <1>2, <1>3

LEMMA PushNone ==
  ASSUME StackType, NEW t \in Thread, NEW p \in Seq(Item), NEW v \in Base, Push(t, Frame(None, p, v))
  PROVE  BeginsNone
<1> DEFINE f == Frame(None, p, v)
<1>1. f \in Frames /\ f.work = None
  BY DEF Frame, Frames, Base
<1>2. stack' = [stack EXCEPT ![t] = Append(stack[t], f)] /\ stack[t] \in Seq(Frames)
  BY DEF Push, StackType
<1> HIDE DEF f
<1>3. WorkOf(Append(stack[t], f)) = WorkOf(stack[t]) \cup {None}
  BY <1>1, <1>2, WorkOfFacts
<1> QED
  BY <1>2, <1>3, BeginsNoneOf


LEMMA objectPlace ==
  ASSUME IInv, PlaceInv, NEW t \in Thread, NEW o \in Object,
         start(t, o) \/ start_thread(t, o) \/ background_task(o)
  PROVE  PlaceInv'
<1>1. StackType /\ started' = started
  BY DEF start, start_thread, background_task, IInv, TypeInv
<1>2. CASE start(t, o)
  BY <1>1, <1>2, SameBeginsNone, PlaceKeeps DEF start
<1>3. CASE start_thread(t, o)
  BY <1>1, <1>3, AtCallFacts, AdvanceBeginsNone, PlaceKeeps DEF start_thread
<1>4. CASE background_task(o)
  <2>1. background[o] \in Seq(Item) /\ Owner[o] \in Thread /\ "main" \in Base
    BY OwnerFacts DEF IInv, TypeInv, ObjectType, Base
  <2>2. Push(Owner[o], Frame(None, background[o], "main"))
    BY <1>4 DEF background_task
  <2>3. BeginsNone
    BY <1>1, <2>1, <2>2, PushNone
  <2> QED
    BY <1>1, <2>3, PlaceKeeps
<1> QED
  BY <1>2, <1>3, <1>4

LEMMA timerPlace ==
  ASSUME IInv, PlaceInv, NEW t \in Thread,
         \/ \E c \in TimerChange : timerChange(t, c)
         \/ timerDispose(t) \/ timerNotRunning(t) \/ timerDestroy(t) \/ timeout \/ timeoutEnd \/ invoke_timer
  PROVE  PlaceInv'
<1>1. StackType /\ started' = started
  BY DEF timerChange, timerDispose, timerNotRunning, timerDestroy, timeout, timeoutEnd, invoke_timer, IInv, TypeInv
<1>2. CASE (\E c \in TimerChange : timerChange(t, c)) \/ timerDispose(t) \/ timerDestroy(t)
  <2>1. InCode(t)
    BY <1>2, AtCallFacts, BusyFacts DEF timerChange, timerDispose, timerDestroy
  <2>2. stack' = stack \/ Advance(t)
    BY <1>2 DEF timerChange, timerDispose, timerDestroy
  <2> QED
    BY <1>1, <2>1, <2>2, SameBeginsNone, AdvanceBeginsNone, PlaceKeeps
<1>3. CASE timerNotRunning(t) \/ timeout
  BY <1>1, <1>3, SameBeginsNone, PlaceKeeps DEF timerNotRunning, timeout
<1>4. CASE timeoutEnd
  BY <1>1, <1>4, AtEndFacts, UserInThread, PopBeginsNone, PlaceKeeps DEF timeoutEnd
<1>5. CASE invoke_timer
  <2>1. Push(Service, Frame(None, Callback, "callback")) /\ Callback \in Seq(Item) /\ "callback" \in Base
    BY <1>5, ProgramFacts DEF invoke_timer, Base
  <2>2. BeginsNone
    BY <1>1, <2>1, UserInThread, PushNone
  <2> QED
    BY <1>1, <2>2, PlaceKeeps
<1> QED
  BY <1>2, <1>3, <1>4, <1>5

LEMMA threadPlace ==
  ASSUME IInv, PlaceInv, NEW t \in Thread,
         \/ threadCreate(t) \/ threadDispose(t) \/ threadJoin(t) \/ threadCleanup(t)
         \/ threadExited \/ threadExit
  PROVE  PlaceInv'
<1>1. StackType /\ started' = started
  BY DEF threadCreate, threadDispose, threadJoin, threadCleanup, threadExited, threadExit, IInv, TypeInv
<1>2. CASE threadDispose(t) \/ threadCleanup(t)
  <2>1. InCode(t)
    BY <1>2, AtCallFacts, BusyFacts DEF threadDispose, threadCleanup
  <2>2. stack' = stack \/ Advance(t)
    BY <1>2 DEF threadDispose, threadCleanup
  <2> QED
    BY <1>1, <2>1, <2>2, SameBeginsNone, AdvanceBeginsNone, PlaceKeeps
<1>3. CASE threadJoin(t) \/ threadExited
  BY <1>1, <1>3, SameBeginsNone, PlaceKeeps DEF threadJoin, threadExited
<1>4. CASE threadExit
  <2>1. stack' = [stack EXCEPT ![User] = <<>>]
    BY <1>4 DEF threadExit
  <2>2. BeginsNone
    BY <1>1, <2>1, UserInThread, WorkOfFacts, BeginsNoneOf
  <2> QED
    BY <1>1, <2>2, PlaceKeeps
<1>5. CASE threadCreate(t)
  <2> DEFINE f == Frame(None, Main[User], "main")
  <2>1. stack' = [stack EXCEPT ![t] = Advanced(@), ![User] = <<f>>] /\ InCode(t)
    BY <1>5, AtCallFacts DEF threadCreate
  <2>2. f \in Frames /\ f.work = None
    <3>1. Main[User] \in Seq(Item)
      BY ProgramFacts
    <3> QED
      BY <3>1 DEF Frame, Frames
  <2> HIDE DEF f
  <2>3. WorkOf(<<f>>) = {None} /\ WorkOf(Advanced(stack[t])) = WorkOf(stack[t])
    <3>1. stack[t] \in Seq(Frames) /\ stack[t] # <<>> /\ Last(stack[t]).left # <<>>
      BY <1>1, <2>1, InCodeFacts
    <3> QED
      BY <2>2, <3>1, WorkOfFacts
  <2>4. \A u \in Thread : stack'[u] = IF u = User THEN <<f>> ELSE IF u = t THEN Advanced(stack[t]) ELSE stack[u]
    BY <1>1, <2>1 DEF StackType
  <2>5. BeginsNone
    BY <2>3, <2>4 DEF BeginsNone
  <2> QED
    BY <1>1, <2>5, PlaceKeeps
<1> QED
  BY <1>2, <1>3, <1>4, <1>5

LEMMA StepPlace == IInv /\ EarlyCallsFromBoot' /\ PlaceInv /\ [Next]_vars => PlaceInv'
<1> SUFFICES ASSUME IInv, EarlyCallsFromBoot', PlaceInv, [Next]_vars PROVE PlaceInv'
  OBVIOUS
<1>1. CASE invoke_timer
  BY <1>1, UserInThread, timerPlace
<1>2. ASSUME NEW t \in Thread, aoStep(t) PROVE PlaceInv'
  <2>1. ASSUME NEW w \in Work, invoke(t, w) PROVE PlaceInv'
    BY <2>1, invokePlace
  <2>2. CASE put(t) \/ putTimeout(t) \/ wait_complete(t) \/ get(t)
    BY <2>2, callPlace
  <2>3. CASE return(t) \/ AsyncTask(t) \/ SystemPromise_invoke(t) \/ task_complete(t) \/ background_end(t)
    BY <2>3, endPlace
  <2>4. ASSUME NEW o \in Object, start(t, o) \/ start_thread(t, o) \/ background_task(o) PROVE PlaceInv'
    BY <2>4, objectPlace
  <2>5. ASSUME NEW o \in Object, run(o) \/ process(o) PROVE PlaceInv'
    BY <2>5, runPlace, processPlace
  <2> QED
    BY <1>2, <2>1, <2>2, <2>3, <2>4, <2>5 DEF aoStep
<1>3. ASSUME NEW t \in Thread, ThreadStep(t) PROVE PlaceInv'
  <2>1. CASE aoStep(t)
    BY <2>1, <1>2
  <2>2. CASE ~aoStep(t)
    BY <1>3, <2>2, timerPlace, threadPlace DEF ThreadStep
  <2> QED
    BY <2>1, <2>2
<1>4. CASE UNCHANGED vars
  BY <1>4, SameBeginsNone, PlaceKeeps DEF vars
<1> QED
  BY <1>1, <1>3, <1>4 DEF Next

(* The functions of an active object exclude each other in every reachable  *)
(* state, provided that calls made to an object before it is started come   *)
(* from the first thread: before run() its work is on the thread that       *)
(* starts it, which has none left when the event loop begins; after that it *)
(* is on the object's own thread, on the spot or from the queue.            *)
THEOREM Serialised == Spec => SerialisedIfBootCallsFirst
<1>1. Init => PlaceInv
  <2> SUFFICES ASSUME Init PROVE PlaceInv
    OBVIOUS
  <2>1. ASSUME NEW t \in Thread, NEW i \in DOMAIN stack[t] PROVE stack[t][i].work = None
    <3>1. stack[t] = IF t = Boot THEN <<Frame(None, Main[t], "main")>> ELSE <<>>
      BY DEF Init, aoInit
    <3>2. \A f : DOMAIN <<f>> = {1} /\ <<f>>[1] = f
      OBVIOUS
    <3> QED
      BY <3>1, <3>2 DEF Frame
  <2> QED
    BY <2>1, WorkAssumption DEF PlaceInv, Executing
<1>2. PlaceInv => WorkIsSerialised
  BY DEF PlaceInv, WorkIsSerialised
<1> QED
  BY <1>1, <1>2, StepPlace, InductiveInvariant, PTL DEF Spec, SerialisedIfBootCallsFirst
=============================================================================
