---------------------------- MODULE Future_proofs ----------------------------
(***************************************************************************)
(* Future for any number of threads and callbacks.  The inductive invariant *)
(* is IInv: who is past changeState, which thread is on its way to a stored *)
(* callback, and where each callback is.                                    *)
(***************************************************************************)
EXTENDS Future, TLAPS

LEMMA AppendType ==
  ASSUME NEW S, NEW q \in Seq(S), NEW e \in S
  PROVE  Append(q, e) \in Seq(S)
OBVIOUS

LEMMA InitIInv == Init => IInv
<1> SUFFICES ASSUME Init PROVE IInv
  OBVIOUS
<1> USE DEF Init, Kind, State
<1>1. TypeOK
  <2>1. queue \in Seq(Posted)
    OBVIOUS
  <2> QED
    BY <2>1 DEF TypeOK
<1>2. CompleterInv /\ OnItsWay
  BY DEF CompleterInv, Completing, OnItsWay
<1>3. PlacesInv
  BY NoneAssumption DEF PlacesInv, Placed
<1> QED
  BY <1>1, <1>2, <1>3 DEF IInv

(* What changes in a step that only moves thread t. *)
LEMMA MoveEffect ==
  ASSUME NEW t \in Thread, NEW l, NEW k, NEW c, TypeOK, Move(t, l, k, c)
  PROVE  /\ \A u \in Thread : pc'[u] = IF u = t THEN l ELSE pc[u]
         /\ \A u \in Thread : kind'[u] = IF u = t THEN k ELSE kind[u]
         /\ \A u \in Thread : hand'[u] = IF u = t THEN c ELSE hand[u]
BY DEF TypeOK, Move

LEMMA TypeStep == TypeOK /\ CompleterInv /\ PlacesInv /\ [Next]_vars => TypeOK'
<1> SUFFICES ASSUME TypeOK, CompleterInv, PlacesInv, [Next]_vars PROVE TypeOK'
  OBVIOUS
<1> USE DEF TypeOK, Kind, State, Move, Finish
<1>1. CASE UNCHANGED vars
  BY <1>1 DEF vars
<1>2. ASSUME NEW t \in Thread, NEW k \in Kind, setResultOrError(t, k) PROVE TypeOK'
  BY <1>2 DEF setResultOrError, changeState
<1>3. ASSUME NEW t \in Thread, cancel(t) PROVE TypeOK'
  BY <1>3 DEF cancel, changeState
<1>4. ASSUME NEW t \in Thread, NEW k \in Kind, NEW c \in Callback, setCallback(t, k, c)
      PROVE TypeOK'
  BY <1>4 DEF setCallback
<1>5. ASSUME NEW t \in Thread, NEW k \in Kind, Get(t, k) PROVE TypeOK'
  BY <1>5 DEF Get, shared
<1>6. ASSUME NEW t \in Thread, Construct(t) PROVE TypeOK'
  BY <1>6 DEF Construct
<1>7. ASSUME NEW t \in Thread, releaseDone(t) \/ CancelDone(t) PROVE TypeOK'
  BY <1>7 DEF releaseDone, CancelDone
<1>8. ASSUME NEW t \in Thread, acquireDone(t) PROVE TypeOK'
  BY <1>8 DEF acquireDone, shared
<1>9. ASSUME NEW t \in Thread, Take(t) PROVE TypeOK'
  BY <1>9 DEF Take
<1>10. ASSUME NEW t \in Thread, Invoke(t) PROVE TypeOK'
  <2>1. hand[t] \in Callback
    BY <1>10 DEF Invoke, PlacesInv
  <2>2. [callback |-> hand[t], arg |-> payload] \in Posted
    BY <2>1 DEF Posted
  <2>3. queue' \in Seq(Posted)
    <3>1. queue' = queue \/ queue' = Append(queue, [callback |-> hand[t], arg |-> payload])
      BY <1>10 DEF Invoke
    <3>2. queue \in Seq(Posted)
      OBVIOUS
    <3> HIDE DEF TypeOK, Move, Finish
    <3> QED
      BY <2>2, <3>1, <3>2, AppendType, Zenon
  <2>4. runs' \in [Callback -> Nat]
    <3>1. runs' = runs \/ runs' = [runs EXCEPT ![hand[t]] = @ + 1]
      BY <1>10 DEF Invoke
    <3> QED
      BY <2>1, <3>1
  <2>5. lost' \subseteq Callback
    <3>1. lost' = lost \/ lost' = lost \cup {hand[t]}
      BY <1>10 DEF Invoke
    <3> QED
      BY <2>1, <3>1
  <2>6. UNCHANGED <<state, done, payload, slot, fresh>> /\ Move(t, "idle", "SUCCEEDED", None)
    BY <1>10 DEF Invoke
  <2> QED
    BY <2>3, <2>4, <2>5, <2>6
<1>11. ASSUME NEW t \in Thread, Acquire(t) \/ ReadPayload(t) PROVE TypeOK'
  BY <1>11 DEF Acquire, ReadPayload, shared
<1>12. CASE WaitDone
  BY <1>12, ThreadAssumption DEF WaitDone, shared
<1>13. CASE ProcessApplicationEvent
  <2>1. queue # <<>> /\ queue \in Seq(Posted)
    BY <1>13 DEF ProcessApplicationEvent
  <2>2. Head(queue) \in Posted /\ Tail(queue) \in Seq(Posted)
    <3> HIDE DEF TypeOK
    <3> QED
      BY <2>1
  <2>3. Head(queue).callback \in Callback
    BY <2>2 DEF Posted
  <2>4. runs' \in [Callback -> Nat]
    BY <1>13, <2>3 DEF ProcessApplicationEvent
  <2> QED
    BY <1>13, <2>2, <2>4 DEF ProcessApplicationEvent
<1> QED
  BY <1>1, <1>2, <1>3, <1>4, <1>5, <1>6, <1>7, <1>8, <1>9, <1>10, <1>11, <1>12, <1>13
     DEF Next, Continue

(* Exactly one thread completes the future. *)
LEMMA CompleterStep == TypeOK /\ CompleterInv /\ [Next]_vars => CompleterInv'
<1> SUFFICES ASSUME TypeOK, CompleterInv, [Next]_vars PROVE CompleterInv'
  OBVIOUS
<1> USE DEF CompleterInv, Completing, Kind, State, Finish
<1>0. \A u \in Thread : kind[u] \in Kind
  BY DEF TypeOK
<1>1. CASE UNCHANGED vars
  BY <1>1 DEF vars
<1>2. ASSUME NEW t \in Thread, NEW k \in Kind, setResultOrError(t, k) PROVE CompleterInv'
  <2>1. CASE state = "RUNNING"
    <3>1. state' = k /\ Move(t, "construct", k, None)
          /\ UNCHANGED <<done, payload, slot, queue, runs, fresh>> /\ queue = <<>>
      BY <1>2, <2>1 DEF setResultOrError, changeState
    <3> QED
      BY <1>0, <2>1, <3>1, MoveEffect
  <2>2. CASE state # "RUNNING"
    BY <1>2, <2>2 DEF setResultOrError, changeState
  <2> QED
    BY <2>1, <2>2
<1>3. ASSUME NEW t \in Thread, cancel(t) PROVE CompleterInv'
  <2>1. CASE state = "RUNNING"
    <3>1. state' = "CANCELLED" /\ Move(t, "cancel", "SUCCEEDED", None)
          /\ UNCHANGED <<done, payload, slot, queue, runs, fresh>> /\ queue = <<>>
      BY <1>3, <2>1 DEF cancel, changeState
    <3> QED
      BY <1>0, <2>1, <3>1, MoveEffect
  <2>2. CASE state # "RUNNING"
    BY <1>3, <2>2 DEF cancel, changeState
  <2> QED
    BY <2>1, <2>2
<1>4. ASSUME NEW t \in Thread, NEW k \in Kind, NEW c \in Callback, setCallback(t, k, c)
      PROVE CompleterInv'
  BY <1>4, MoveEffect DEF setCallback
<1>5. ASSUME NEW t \in Thread, NEW k \in Kind, Get(t, k) PROVE CompleterInv'
  BY <1>5, MoveEffect DEF Get, shared
<1>6. ASSUME NEW t \in Thread, Construct(t) PROVE CompleterInv'
  BY <1>0, <1>6, MoveEffect DEF Construct
<1>7. ASSUME NEW t \in Thread, releaseDone(t) \/ CancelDone(t) PROVE CompleterInv'
  BY <1>7, MoveEffect DEF releaseDone, CancelDone
<1>8. ASSUME NEW t \in Thread, acquireDone(t) PROVE CompleterInv'
  BY <1>8, MoveEffect DEF acquireDone, shared
<1>9. ASSUME NEW t \in Thread, Take(t) PROVE CompleterInv'
  BY <1>9, MoveEffect DEF Take
<1>10. ASSUME NEW t \in Thread, Invoke(t) PROVE CompleterInv'
  <2>1. done /\ state = kind[t] /\ state \in Kind /\ payload = state
    BY <1>10 DEF Invoke, TypeOK
  <2>2. UNCHANGED <<state, done, payload>> /\ Move(t, "idle", "SUCCEEDED", None)
    BY <1>10 DEF Invoke
  <2>3. queue \in Seq(Posted)
    BY DEF TypeOK
  <2>4. CASE queue' = queue
    BY <2>1, <2>2, <2>4, MoveEffect
  <2>5. CASE queue' = Append(queue, [callback |-> hand[t], arg |-> payload])
    <3> DEFINE p == [callback |-> hand[t], arg |-> payload]
    <3>1. queue' = Append(queue, p) /\ p.arg = state
      BY <2>1, <2>5
    <3>2. p \in [callback : {hand[t]}, arg : {payload}]
      OBVIOUS
    <3> HIDE DEF p
    <3>3. \A i \in DOMAIN queue' : IF i <= Len(queue) THEN queue'[i] = queue[i] ELSE queue'[i] = p
      BY <2>3, <3>1
    <3>4. \A i \in DOMAIN queue' : i <= Len(queue) => i \in DOMAIN queue
      BY <2>3, <3>1
    <3> QED
      BY <2>1, <2>2, <3>1, <3>3, <3>4, MoveEffect
  <2> QED
    BY <1>10, <2>4, <2>5 DEF Invoke
<1>11. ASSUME NEW t \in Thread, Acquire(t) \/ ReadPayload(t) PROVE CompleterInv'
  BY <1>11, MoveEffect DEF Acquire, ReadPayload, shared
<1>12. CASE WaitDone
  BY <1>12, MoveEffect, ThreadAssumption DEF WaitDone, shared
<1>13. CASE ProcessApplicationEvent
  <2>1. queue # <<>> /\ \A i \in DOMAIN Tail(queue) : Tail(queue)[i].arg = state
    BY <1>13 DEF ProcessApplicationEvent, TypeOK
  <2> QED
    BY <1>13, <2>1 DEF ProcessApplicationEvent
<1> QED
  BY <1>1, <1>2, <1>3, <1>4, <1>5, <1>6, <1>7, <1>8, <1>9, <1>10, <1>11, <1>12, <1>13
     DEF Next, Continue

(* A callback in the slot of the outcome has a thread on its way to it. *)
LEMMA OnItsWayStep == TypeOK /\ CompleterInv /\ OnItsWay /\ [Next]_vars => OnItsWay'
<1> SUFFICES ASSUME TypeOK, CompleterInv, OnItsWay, [Next]_vars,
                    done', state' \in Kind, slot'[state'] # None
             PROVE  \E u \in Thread : pc'[u] \in {"check", "take"} /\ kind'[u] = state'
  BY DEF OnItsWay
<1> DEFINE Goal == \E u \in Thread : pc'[u] \in {"check", "take"} /\ kind'[u] = state'
<1>0. /\ \A u \in Thread : kind[u] \in Kind
      /\ slot \in [Kind -> Callback \cup {None}]
  BY DEF TypeOK
<1>a. done /\ state \in Kind /\ slot[state] # None
        => \E u \in Thread : pc[u] \in {"check", "take"} /\ kind[u] = state
  BY DEF OnItsWay
<1> USE DEF Kind, Finish
<1>1. CASE UNCHANGED vars
  BY <1>1, <1>a DEF vars
<1>2. ASSUME NEW t \in Thread, NEW k \in Kind, setResultOrError(t, k) PROVE Goal
  BY <1>2, <1>a DEF setResultOrError, changeState, CompleterInv
<1>3. ASSUME NEW t \in Thread, cancel(t) PROVE Goal
  BY <1>3, <1>a DEF cancel, changeState, CompleterInv
<1>4. ASSUME NEW t \in Thread, NEW k \in Kind, NEW c \in Callback, setCallback(t, k, c)
      PROVE Goal
  <2>1. CASE k = state
    BY <1>4, <2>1, MoveEffect DEF setCallback
  <2>2. CASE k # state
    <3>1. slot'[state] = slot[state] /\ state' = state /\ done' = done
      BY <1>0, <1>4, <2>2 DEF setCallback
    <3>2. PICK u \in Thread : pc[u] \in {"check", "take"} /\ kind[u] = state
      BY <1>a, <3>1
    <3>3. u # t
      BY <1>4, <3>2 DEF setCallback
    <3> QED
      BY <1>4, <3>1, <3>2, <3>3, MoveEffect DEF setCallback
  <2> QED
    BY <2>1, <2>2
<1>5. ASSUME NEW t \in Thread, NEW k \in Kind, Get(t, k) PROVE Goal
  BY <1>5, <1>a, MoveEffect DEF Get, shared
<1>6. ASSUME NEW t \in Thread, Construct(t) PROVE Goal
  BY <1>6, <1>a, MoveEffect DEF Construct
<1>7. ASSUME NEW t \in Thread, releaseDone(t) PROVE Goal
  BY <1>7, MoveEffect DEF releaseDone, CompleterInv
<1>8. ASSUME NEW t \in Thread, CancelDone(t) PROVE Goal
  BY <1>8 DEF CancelDone, CompleterInv
<1>9. ASSUME NEW t \in Thread, acquireDone(t) PROVE Goal
  <2>1. CASE kind[t] = state
    BY <1>9, <2>1, MoveEffect DEF acquireDone, shared
  <2>2. CASE kind[t] # state
    BY <1>9, <2>2, <1>a, MoveEffect DEF acquireDone, shared
  <2> QED
    BY <2>1, <2>2
<1>10. ASSUME NEW t \in Thread, Take(t) PROVE Goal
  BY <1>0, <1>10 DEF Take, CompleterInv
<1>11. ASSUME NEW t \in Thread, Invoke(t) PROVE Goal
  <2>1. UNCHANGED <<state, done, slot>> /\ Move(t, "idle", "SUCCEEDED", None) /\ pc[t] = "invoke"
    BY <1>11 DEF Invoke
  <2> QED
    BY <1>a, <2>1, MoveEffect
<1>12. ASSUME NEW t \in Thread, Acquire(t) \/ ReadPayload(t) PROVE Goal
  BY <1>12, <1>a, MoveEffect DEF Acquire, ReadPayload, shared
<1>13. CASE WaitDone
  BY <1>13, <1>a, MoveEffect, ThreadAssumption DEF WaitDone, shared
<1>14. CASE ProcessApplicationEvent
  BY <1>14, <1>a DEF ProcessApplicationEvent
<1> QED
  BY <1>1, <1>2, <1>3, <1>4, <1>5, <1>6, <1>7, <1>8, <1>9, <1>10, <1>11, <1>12, <1>13, <1>14
     DEF Next, Continue

(* A step that moves a thread without a callback leaves every callback where it is. *)
LEMMA SamePlaces ==
  ASSUME TypeOK, PlacesInv, NEW t \in Thread, NEW l, NEW k, Move(t, l, k, None),
         pc[t] # "invoke", l # "invoke", UNCHANGED <<slot, queue, runs, fresh>>
  PROVE  PlacesInv'
<1>1. \A u \in Thread : hand'[u] = hand[u]
  BY MoveEffect DEF PlacesInv
<1>2. \A u \in Thread : (hand'[u] = None) <=> (pc'[u] # "invoke")
  BY MoveEffect DEF PlacesInv
<1>3. ASSUME NEW c \in Callback PROVE Placed(c)'
  BY <1>1 DEF PlacesInv, Placed
<1> QED
  BY <1>2, <1>3 DEF PlacesInv

LEMMA PlacesStep == TypeOK /\ PlacesInv /\ [Next]_vars => PlacesInv'
<1> SUFFICES ASSUME TypeOK, PlacesInv, [Next]_vars PROVE PlacesInv'
  OBVIOUS
<1> USE NoneAssumption DEF Kind, Finish
<1>0. /\ slot \in [Kind -> Callback \cup {None}] /\ queue \in Seq(Posted)
      /\ runs \in [Callback -> Nat] /\ \A u \in Thread : kind[u] \in Kind
  BY DEF TypeOK
<1>1. CASE UNCHANGED vars
  BY <1>1 DEF vars, PlacesInv, Placed
<1>2. ASSUME NEW t \in Thread, NEW k \in Kind, setResultOrError(t, k) PROVE PlacesInv'
  <2>1. CASE state = "RUNNING"
    BY <1>2, <2>1, SamePlaces DEF setResultOrError, changeState
  <2>2. CASE state # "RUNNING"
    BY <1>2, <2>2 DEF setResultOrError, changeState, PlacesInv, Placed
  <2> QED
    BY <2>1, <2>2
<1>3. ASSUME NEW t \in Thread, cancel(t) PROVE PlacesInv'
  <2>1. CASE state = "RUNNING"
    BY <1>3, <2>1, SamePlaces DEF cancel, changeState
  <2>2. CASE state # "RUNNING"
    BY <1>3, <2>2 DEF cancel, changeState, PlacesInv, Placed
  <2> QED
    BY <2>1, <2>2
<1>4. ASSUME NEW t \in Thread, NEW k \in Kind, NEW c \in Callback, setCallback(t, k, c)
      PROVE PlacesInv'
  <2>1. /\ UNCHANGED <<queue, runs>> /\ Move(t, "check", k, None) /\ pc[t] = "idle"
        /\ c \in fresh /\ fresh' = fresh \ {c} /\ slot' = [slot EXCEPT ![k] = c]
    BY <1>4 DEF setCallback
  <2>2. \A u \in Thread : hand'[u] = hand[u]
    BY <2>1, MoveEffect DEF PlacesInv
  <2>3. \A u \in Thread : (hand'[u] = None) <=> (pc'[u] # "invoke")
    BY <2>1, MoveEffect DEF PlacesInv
  <2>4. \A j \in Kind : slot'[j] = IF j = k THEN c ELSE slot[j]
    BY <1>0, <2>1
  <2>5. ASSUME NEW d \in Callback PROVE Placed(d)'
    <3>1. Placed(d) /\ Placed(c)
      BY DEF PlacesInv
    <3>2. CASE d = c
      BY <2>1, <2>2, <2>4, <3>1, <3>2 DEF Placed
    <3>3. CASE d # c
      BY <2>1, <2>2, <2>4, <3>1, <3>3 DEF Placed
    <3> QED
      BY <3>2, <3>3
  <2> QED
    BY <2>3, <2>5 DEF PlacesInv
<1>5. ASSUME NEW t \in Thread, NEW k \in Kind, Get(t, k) PROVE PlacesInv'
  <2>1. \E l \in {"wait", "acquire"} : Move(t, l, k, None)
    BY <1>5 DEF Get
  <2> QED
    BY <1>5, <2>1, SamePlaces DEF Get, shared
<1>6. ASSUME NEW t \in Thread, Construct(t) PROVE PlacesInv'
  BY <1>6, SamePlaces DEF Construct
<1>7. ASSUME NEW t \in Thread, releaseDone(t) \/ CancelDone(t) PROVE PlacesInv'
  BY <1>7, SamePlaces DEF releaseDone, CancelDone
<1>8. ASSUME NEW t \in Thread, acquireDone(t) PROVE PlacesInv'
  BY <1>8, SamePlaces DEF acquireDone, shared
<1>9. ASSUME NEW t \in Thread, Take(t) PROVE PlacesInv'
  <2>1. CASE slot[kind[t]] = None
    <3>1. slot' = slot /\ Move(t, "idle", "SUCCEEDED", None) /\ pc[t] # "invoke"
          /\ UNCHANGED <<queue, runs, fresh>>
      BY <1>0, <1>9, <2>1 DEF Take
    <3> QED
      BY <3>1, SamePlaces
  <2>2. CASE slot[kind[t]] # None
    <3> DEFINE c == slot[kind[t]]
    <3>1. /\ UNCHANGED <<queue, runs, fresh>> /\ Move(t, "invoke", kind[t], c) /\ pc[t] = "take"
          /\ \A j \in Kind : slot'[j] = IF j = kind[t] THEN None ELSE slot[j]
      BY <1>0, <1>9, <2>2 DEF Take
    <3>2. \A u \in Thread : hand'[u] = IF u = t THEN c ELSE hand[u]
      BY <3>1, MoveEffect
    <3>3. \A u \in Thread : (hand'[u] = None) <=> (pc'[u] # "invoke")
      BY <2>2, <3>1, MoveEffect DEF PlacesInv
    <3>4. ASSUME NEW d \in Callback PROVE Placed(d)'
      <4>1. Placed(d) /\ hand[t] = None
        BY <3>1 DEF PlacesInv
      <4> QED
        BY <1>0, <3>1, <3>2, <4>1 DEF Placed
    <3> QED
      BY <3>3, <3>4 DEF PlacesInv
  <2> QED
    BY <2>1, <2>2
<1>10. ASSUME NEW t \in Thread, Invoke(t) PROVE PlacesInv'
  <2> DEFINE c == hand[t]
  <2>1. /\ UNCHANGED <<slot, fresh>> /\ Move(t, "idle", "SUCCEEDED", None) /\ pc[t] = "invoke"
        /\ c \in Callback
    BY <1>10 DEF Invoke, PlacesInv, TypeOK
  <2>2. \A u \in Thread : hand'[u] = IF u = t THEN None ELSE hand[u]
    BY <2>1, MoveEffect
  <2>3. \A u \in Thread : (hand'[u] = None) <=> (pc'[u] # "invoke")
    BY <2>1, MoveEffect DEF PlacesInv
  <2>4. ASSUME NEW d \in Callback PROVE Placed(d)'
    <3>1. Placed(d) /\ Placed(c)
      BY <2>1 DEF PlacesInv
    <3>2. CASE t = App
      <4>1. queue' = queue /\ runs'[d] = IF d = c THEN runs[d] + 1 ELSE runs[d]
        BY <1>0, <1>10, <2>1, <3>2 DEF Invoke
      <4>2. d = c => runs[d] = 0
        BY <3>1 DEF Placed
      <4> QED
        BY <1>0, <2>1, <2>2, <3>1, <4>1, <4>2 DEF Placed
    <3>3. CASE t # App /\ queue' = Append(queue, [callback |-> hand[t], arg |-> payload])
      <4> DEFINE p == [callback |-> hand[t], arg |-> payload]
      <4>1. queue' = Append(queue, p) /\ p.callback = c /\ runs' = runs
        BY <1>10, <3>3 DEF Invoke
      <4>2. p \in [callback : {c}, arg : {payload}]
        OBVIOUS
      <4> HIDE DEF p
      <4>3. /\ DOMAIN queue' = 1 .. Len(queue) + 1 /\ DOMAIN queue = 1 .. Len(queue)
            /\ Len(queue) \in Nat
            /\ \A i \in DOMAIN queue : queue'[i] = queue[i]
            /\ queue'[Len(queue) + 1] = p
        BY <1>0, <4>1
      <4>4. \A i \in DOMAIN queue' : queue'[i].callback =
                 IF i \in DOMAIN queue THEN queue[i].callback ELSE c
        BY <4>1, <4>3
      <4>5. \A i \in DOMAIN queue' : i \notin DOMAIN queue => i = Len(queue) + 1
        BY <4>3
      <4> HIDE DEF c
      <4>6. CASE d = c
        BY <2>1, <2>2, <3>1, <4>1, <4>4, <4>5, <4>6 DEF Placed, c
      <4>7. CASE d # c
        BY <2>1, <2>2, <3>1, <4>1, <4>4, <4>7 DEF Placed
      <4> QED
        BY <4>6, <4>7
    <3>4. CASE t # App /\ queue' = queue
      <4>1. runs' = runs
        BY <1>10, <3>4 DEF Invoke
      <4> QED
        BY <2>1, <2>2, <3>1, <3>4, <4>1 DEF Placed
    <3> QED
      BY <1>10, <3>2, <3>3, <3>4 DEF Invoke
  <2> QED
    BY <2>3, <2>4 DEF PlacesInv
<1>11. ASSUME NEW t \in Thread, Acquire(t) \/ ReadPayload(t) PROVE PlacesInv'
  BY <1>11, SamePlaces DEF Acquire, ReadPayload, shared
<1>12. CASE WaitDone
  BY <1>12, SamePlaces, ThreadAssumption DEF WaitDone, shared
<1>13. CASE ProcessApplicationEvent
  <2> DEFINE c == Head(queue).callback
  <2>1. /\ queue # <<>> /\ UNCHANGED <<slot, fresh, pc, hand>>
        /\ queue' = Tail(queue) /\ runs' = [runs EXCEPT ![c] = @ + 1]
    BY <1>13 DEF ProcessApplicationEvent
  <2>2. /\ Len(queue) \in Nat /\ DOMAIN queue = 1 .. Len(queue) /\ 1 \in DOMAIN queue
        /\ DOMAIN queue' = 1 .. Len(queue) - 1
        /\ queue[1].callback = c
        /\ \A i \in DOMAIN queue' : queue'[i] = queue[i + 1]
    BY <1>0, <2>1
  <2>3. \A i \in DOMAIN queue' : i + 1 \in DOMAIN queue /\ i + 1 # 1
    BY <2>2
  <2>4. \A i, j \in DOMAIN queue' : i + 1 = j + 1 => i = j
    BY <2>2
  <2>5. ASSUME NEW d \in Callback PROVE Placed(d)'
    <3>1. Placed(d) /\ (runs'[d] = IF d = c THEN runs[d] + 1 ELSE runs[d])
      BY <1>0, <2>1 DEF PlacesInv
    <3>2. d = c => runs[d] = 0
      BY <2>2, <3>1 DEF Placed
    <3> HIDE DEF c
    <3>3. CASE d = c
      <4>1. /\ \A i \in DOMAIN queue' : queue'[i].callback # d
            /\ \A k \in Kind : slot[k] # d
            /\ \A t \in Thread : hand[t] # d
            /\ d \notin fresh
        BY <2>2, <2>3, <3>1, <3>3 DEF Placed
      <4>2. runs'[d] = 1
        BY <3>1, <3>2, <3>3
      <4> QED
        BY <2>1, <4>1, <4>2 DEF Placed
    <3>4. CASE d # c
      <4>1. \A i, j \in DOMAIN queue' :
               queue'[i].callback = d /\ queue'[j].callback = d => i = j
        BY <2>2, <2>3, <2>4, <3>1 DEF Placed
      <4>2. \A i \in DOMAIN queue' : queue'[i].callback = d =>
               \E j \in DOMAIN queue : queue[j].callback = d
        BY <2>2, <2>3
      <4> QED
        BY <2>1, <3>1, <3>4, <4>1, <4>2 DEF Placed
    <3> QED
      BY <3>3, <3>4
  <2> QED
    BY <2>1, <2>5 DEF PlacesInv
<1> QED
  BY <1>1, <1>2, <1>3, <1>4, <1>5, <1>6, <1>7, <1>8, <1>9, <1>10, <1>11, <1>12, <1>13
     DEF Next, Continue

LEMMA Inductive == Spec => []IInv
<1>1. IInv /\ [Next]_vars => IInv'
  BY TypeStep, CompleterStep, OnItsWayStep, PlacesStep DEF IInv
<1> QED
  BY <1>1, InitIInv, PTL DEF Spec

(* Every variable of the future, and of every thread using it, keeps its type. *)
THEOREM TypeCorrect == Spec => []TypeOK
<1>1. IInv => TypeOK
  BY DEF IInv
<1> QED
  BY <1>1, Inductive, PTL

(* No thread reads the union before setResult or setError constructed in it *)
(* the member the outcome names.                                            *)
THEOREM PayloadIsConstructed == Spec => []ReadsConstructed
<1>1. IInv => ReadsConstructed
  <2> SUFFICES ASSUME IInv PROVE ReadsConstructed
    OBVIOUS
  <2>1. \A t \in Thread : kind[t] \in Kind
    BY DEF IInv, TypeOK
  <2> QED
    BY <2>1 DEF IInv, CompleterInv, ReadsConstructed, Kind
<1> QED
  BY <1>1, Inductive, PTL

(* However the completing and the registering thread interleave, a callback *)
(* runs at most once.                                                       *)
THEOREM CallbackAtMostOnce == Spec => []AtMostOnce
<1>1. IInv => AtMostOnce
  BY DEF IInv, PlacesInv, Placed, AtMostOnce
<1> QED
  BY <1>1, Inductive, PTL

(* However they interleave, a callback registered with a future that        *)
(* completes is not forgotten.                                              *)
THEOREM CallbackNotForgotten == Spec => []NoCallbackLeft
<1>1. IInv => NoCallbackLeft
  BY DEF IInv, OnItsWay, NoCallbackLeft
<1> QED
  BY <1>1, Inductive, PTL

(* The outcome of a future is final. *)
THEOREM FinalOutcome == Spec => OutcomeIsFinal
<1>1. IInv /\ [Next]_vars => [KeepsOutcome]_vars
  BY DEF KeepsOutcome, IInv, CompleterInv, Next, Continue, setResultOrError, changeState, cancel,
         setCallback, Get, Construct, releaseDone, CancelDone, acquireDone, Take, Invoke, Acquire,
         ReadPayload, WaitDone, ProcessApplicationEvent, shared
<1> QED
  BY <1>1, Inductive, PTL DEF Spec, OutcomeIsFinal
=============================================================================
