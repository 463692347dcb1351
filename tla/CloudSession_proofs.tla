------------------------- MODULE CloudSession_proofs --------------------------
(***************************************************************************)
(* Proofs about CloudSession and the map of completion handlers it uses,    *)
(* for every width of the clock, every rate limit, timeout and interval and *)
(* any number of events.                                                    *)
(***************************************************************************)
EXTENDS CloudSession, FiniteSetTheorems, FunctionTheorems, WellFoundedInduction, TLAPS

-----------------------------------------------------------------------------
(* What Selected returns, for every finite set of indices.  The operator is *)
(* defined by counting, so these facts follow from the theorems about       *)
(* cardinalities; no induction is needed.                                   *)

(* A set of natural numbers has a smallest element. *)
LEMMA SmallestNat ==
  ASSUME NEW S \in SUBSET Nat, S # {}
  PROVE  \E x \in S : \A y \in S : x <= y
<1>1. PICK x \in S : \A y \in S : ~(<<y, x>> \in OpToRel(<, Nat))
  BY NatLessThanWellFounded, WFMin
<1>2. \A y \in S : ~(y < x)
  BY <1>1 DEF OpToRel
<1> QED
  BY <1>2

(* A bounded one has a largest element too. *)
LEMMA LargestNat ==
  ASSUME NEW S \in SUBSET Nat, S # {}, NEW n \in Nat, \A x \in S : x <= n
  PROVE  \E x \in S : \A y \in S : x >= y
<1> DEFINE T == {n - x : x \in S}
<1>0. \A x \in S : n - x \in Nat
  OBVIOUS
<1>1. T \in SUBSET Nat /\ T # {}
  BY <1>0, Zenon
<1>2. PICK t \in T : \A u \in T : t <= u
  <2> HIDE DEF T
  <2> QED
    BY <1>1, SmallestNat
<1>3. PICK x \in S : t = n - x
  OBVIOUS
<1>4. ASSUME NEW y \in S PROVE x >= y
  <2>1. n - y \in T
    OBVIOUS
  <2>2. n - x <= n - y /\ x \in Nat /\ y \in Nat
    BY <1>2, <1>3, <2>1
  <2> QED
    BY <2>2
<1> QED
  BY <1>4

(* The rank of an index grows with it. *)
LEMMA RankFacts ==
  ASSUME NEW S \in SUBSET Nat, IsFiniteSet(S)
  PROVE  /\ Cardinality(S) \in Nat
         /\ \A i \in S : Rank(S, i) \in 1 .. Cardinality(S)
         /\ \A i, j \in S : i < j => Rank(S, i) < Rank(S, j)
<1> DEFINE Below(i) == {j \in S : j <= i}
<1>1. Cardinality(S) \in Nat
  BY FS_CardinalityType
<1>2. ASSUME NEW i \in S
      PROVE  /\ IsFiniteSet(Below(i)) /\ Cardinality(Below(i)) \in Nat
             /\ Cardinality(Below(i)) <= Cardinality(S) /\ Cardinality(Below(i)) # 0
  <2>1. Below(i) \in SUBSET S /\ i \in Below(i)
    OBVIOUS
  <2> HIDE DEF Below
  <2>2. IsFiniteSet(Below(i)) /\ Cardinality(Below(i)) <= Cardinality(S)
    BY <2>1, FS_Subset
  <2>3. Cardinality(Below(i)) \in Nat
    BY <2>2, FS_CardinalityType
  <2>4. Cardinality(Below(i)) = 0 => Below(i) = {}
    BY <2>2, FS_EmptySet
  <2>5. Cardinality(Below(i)) # 0
    BY <2>1, <2>4
  <2> QED
    BY <2>2, <2>3, <2>5
<1>3. ASSUME NEW i \in S, NEW j \in S, i < j
      PROVE  Cardinality(Below(i)) < Cardinality(Below(j))
  <2>0. i \in Nat /\ j \in Nat /\ S \subseteq Nat
    OBVIOUS
  <2>a. j <= j /\ ~(j <= i) /\ \A x \in Nat : x <= i => x <= j
    BY <1>3, <2>0
  <2>1. Below(i) \in SUBSET Below(j) /\ j \in Below(j) /\ j \notin Below(i)
    BY <2>0, <2>a, Zenon
  <2>2. IsFiniteSet(Below(j)) /\ Cardinality(Below(j)) \in Nat /\ Cardinality(Below(i)) \in Nat
    BY <1>2
  <2> HIDE DEF Below
  <2>3. /\ Cardinality(Below(i)) <= Cardinality(Below(j))
        /\ Cardinality(Below(j)) = Cardinality(Below(i)) => Below(j) = Below(i)
    BY <2>1, <2>2, FS_Subset
  <2> QED
    BY <2>1, <2>2, <2>3
<1>4. \A i \in S : Rank(S, i) = Cardinality(Below(i))
  BY DEF Rank
<1> HIDE DEF Below
<1> QED
  BY <1>1, <1>2, <1>3, <1>4

(* There is a k-th index for every k up to the number of indices, and each  *)
(* index is one of them.                                                    *)
LEMMA NthFacts ==
  ASSUME NEW S \in SUBSET Nat, IsFiniteSet(S)
  PROVE  /\ Cardinality(S) \in Nat
         /\ \A k \in 1 .. Cardinality(S) : Nth(S, k) \in S /\ Rank(S, Nth(S, k)) = k
         /\ \A k, l \in 1 .. Cardinality(S) : k < l => Nth(S, k) < Nth(S, l)
         /\ \A i \in S : Rank(S, i) \in 1 .. Cardinality(S) /\ Nth(S, Rank(S, i)) = i
<1> DEFINE N == Cardinality(S)
<1> DEFINE f == [i \in S |-> Rank(S, i)]
<1>1. /\ N \in Nat
      /\ \A i \in S : Rank(S, i) \in 1 .. N
      /\ \A i, j \in S : i < j => Rank(S, i) < Rank(S, j)
  BY RankFacts
<1>2. \A i, j \in S : Rank(S, i) = Rank(S, j) => i = j
  BY <1>1
<1> HIDE DEF N
<1>3. f \in Injection(S, 1 .. N)
  BY <1>1, <1>2 DEF Injection, IsInjective
<1>4. IsFiniteSet(1 .. N) /\ Cardinality(1 .. N) = N
  BY <1>1, FS_Interval
<1>5. f \in Surjection(S, 1 .. N)
  BY <1>3, <1>4, FS_Injection DEF N
<1>6. \A k \in 1 .. N : \E i \in S : Rank(S, i) = k
  BY <1>5 DEF Surjection
<1>7. \A k \in 1 .. N : Nth(S, k) \in S /\ Rank(S, Nth(S, k)) = k
  BY <1>6 DEF Nth
<1>8. \A i \in S : Nth(S, Rank(S, i)) = i
  BY <1>1, <1>2, <1>7
<1>9. \A k, l \in 1 .. N : k < l => Nth(S, k) < Nth(S, l)
  <2> SUFFICES ASSUME NEW k \in 1 .. N, NEW l \in 1 .. N, k < l
               PROVE  Nth(S, k) < Nth(S, l)
    OBVIOUS
  <2>1. PICK i \in S : i = Nth(S, k) /\ Rank(S, i) = k
    BY <1>7
  <2>2. PICK j \in S : j = Nth(S, l) /\ Rank(S, j) = l
    BY <1>7
  <2>3. ~(j < i) /\ i # j
    BY <1>1, <2>1, <2>2
  <2>4. i \in Nat /\ j \in Nat
    OBVIOUS
  <2>5. i < j
    BY <2>3, <2>4
  <2> QED
    BY <2>1, <2>2, <2>5
<1> QED
  BY <1>1, <1>7, <1>8, <1>9 DEF N

(* Selecting gives a sequence with one element for each index, which are    *)
(* those of the array, each in one place.                                   *)
LEMMA SelectedFacts ==
  ASSUME NEW S \in SUBSET Nat, IsFiniteSet(S), NEW X, NEW t, \A i \in S : t[i] \in X
  PROVE  /\ Selected(t, S) \in Seq(X) /\ Len(Selected(t, S)) = Cardinality(S)
         /\ Cardinality(S) \in Nat
         /\ \A k \in 1 .. Cardinality(S) : Selected(t, S)[k] = t[Nth(S, k)] /\ Nth(S, k) \in S
         /\ \A i \in S : Rank(S, i) \in 1 .. Cardinality(S) /\ Selected(t, S)[Rank(S, i)] = t[i]
<1>1. Cardinality(S) \in Nat
  BY NthFacts
<1>2. \A k \in 1 .. Cardinality(S) : Nth(S, k) \in S
  BY NthFacts
<1>3. Selected(t, S) \in [1 .. Cardinality(S) -> X]
  BY <1>1, <1>2 DEF Selected
<1>4. Selected(t, S) \in Seq(X) /\ Len(Selected(t, S)) = Cardinality(S)
  BY <1>1, <1>3
<1>5. \A k \in 1 .. Cardinality(S) : Selected(t, S)[k] = t[Nth(S, k)]
  BY DEF Selected
<1>6. \A i \in S : Rank(S, i) \in 1 .. Cardinality(S) /\ Nth(S, Rank(S, i)) = i
  BY NthFacts
<1> QED
  BY <1>1, <1>2, <1>4, <1>5, <1>6

-----------------------------------------------------------------------------
(* The inductive invariant.                                                 *)

(* A handler is in the map at most once, and was not called before. *)
OnceInv ==
  /\ \A i, j \in DOMAIN handlers : handlers[i].id = handlers[j].id => i = j
  /\ \A i \in DOMAIN handlers : outcome[handlers[i].id] = <<>>
  /\ \A h \in Handlers : Len(outcome[h]) <= 1

(* The b-th attempt back is not older than the b-th event let through.      *)
Attempt(b) == recent_event_ticks[(evt_tick_idx - b) % RingSize]

RingInv ==
  /\ \A i, j \in DOMAIN accepted : i <= j => accepted[j] <= accepted[i]
  /\ \A b \in 1 .. Len(accepted) :
       (now - Attempt(b)) % TickMod <= accepted[Len(accepted) + 1 - b]
  /\ BurstLimited

(* While an answer is expected the event loop has not come round since the  *)
(* ping; else it has found the link silent for no longer than an interval,  *)
(* or since the ping before.                                                *)
Silence == IF ping_interval < MaxLag THEN MaxLag ELSE ping_interval

PingInv ==
  connected /\ ~updating /\ ping_interval # 0 =>
    Elapsed <= lag + (IF expecting_ping_ack THEN 0 ELSE Silence)

(* update() runs in the event loop, with the time since it last did. *)
LoopInv ==
  /\ pos # 0 => connected /\ lag = 0 /\ pos <= Len(handlers) + 1
  /\ connected => (now - last_ack_handlers_update) % TickMod = lag

IInv == TypeOK /\ OnceInv /\ RingInv /\ PingInv /\ LoopInv

(* What the map says of a handler's timeout is true: relative to ticks, or, *)
(* for those update() has passed, to what ticks will be when it ends.       *)
Base(i) == IF i < pos THEN 0 ELSE ticks

EntryDue(i) ==
  LET h == handlers[i] IN
  /\ timeout[h.id] = SEND_EVENT_ACK_TIMEOUT
  /\ h.ticks - Base(i) = SEND_EVENT_ACK_TIMEOUT - waited[h.id]
  /\ pos = 0 \/ i < pos => h.ticks > Base(i) /\ timeoutTicks <= h.ticks
  /\ connected => /\ age[h.id] <= waited[h.id] + lag
                  /\ waited[h.id] + lag <= age[h.id] + MaxLag

AgeInv ==
  \A h \in Handlers :
    /\ outcome[h] = <<>> /\ h \notin Waiting => age[h] = 0
    /\ outcome[h] = <<"TIMEOUT">> => age[h] >= SEND_EVENT_ACK_TIMEOUT - MaxLag

DueInv == (\A i \in DOMAIN handlers : EntryDue(i)) /\ AgeInv

(* ticks is set back only when a handler expires or the map empties.  This  *)
(* says that neither it nor an expiration time reckoned from it has come    *)
(* round: that events which wait for an acknowledgement have not overlapped *)
(* without a break for as long as the clock takes to wrap (49 days).        *)
NoWrap == ticks + SEND_EVENT_ACK_TIMEOUT < TickMod /\ ticks + MaxLag < TickMod

-----------------------------------------------------------------------------
(* The map of completion handlers.                                          *)

Entry == [key : Keys, id : Handlers, ticks : Ticks]
Outcomes == {"NONE", "TIMEOUT", "ABORTED", "INTERNAL", "BUSY", "NACK"}
MapInv == HandlersTypeOK /\ OnceInv

(* A sequence without one of its elements. *)
LEMMA RemoveAtFacts ==
  ASSUME NEW X, NEW s \in Seq(X), NEW p \in 1 .. Len(s)
  PROVE  /\ RemoveAt(s, p) \in Seq(X) /\ Len(RemoveAt(s, p)) = Len(s) - 1
         /\ \A j \in 1 .. Len(s) - 1 : RemoveAt(s, p)[j] = IF j < p THEN s[j] ELSE s[j + 1]
<1> DEFINE a == SubSeq(s, 1, p - 1)
<1> DEFINE b == SubSeq(s, p + 1, Len(s))
<1>1. a \in Seq(X) /\ Len(a) = p - 1 /\ \A j \in 1 .. p - 1 : a[j] = s[j]
  OBVIOUS
<1>2. b \in Seq(X) /\ Len(b) = Len(s) - p /\ \A j \in 1 .. Len(s) - p : b[j] = s[p + j]
  OBVIOUS
<1>3. RemoveAt(s, p) = a \o b
  BY DEF RemoveAt
<1> HIDE DEF a, b
<1>0. Len(s) \in Nat /\ p \in Nat
  OBVIOUS
<1>a. a \o b \in Seq(X)
  BY <1>1, <1>2
<1>c. a \in Seq(X) /\ b \in Seq(X)
  BY <1>1, <1>2
<1>b. Len(a \o b) = Len(a) + Len(b)
  BY <1>c
<1>4. a \o b \in Seq(X) /\ Len(a \o b) = Len(s) - 1
  BY <1>0, <1>1, <1>2, <1>a, <1>b
<1>5. ASSUME NEW j \in 1 .. Len(s) - 1
      PROVE  (a \o b)[j] = IF j < p THEN s[j] ELSE s[j + 1]
  <2>1. CASE j < p
    BY <1>1, <1>2, <2>1
  <2>2. CASE j >= p
    <3>1. (a \o b)[j] = b[j - (p - 1)]
      BY <1>1, <1>2, <2>2
    <3>2. j - (p - 1) \in 1 .. Len(s) - p /\ p + (j - (p - 1)) = j + 1
      BY <2>2
    <3> QED
      BY <1>2, <2>2, <3>1, <3>2
  <2>3. j < p \/ j >= p
    BY <1>0
  <2> QED
    BY <2>1, <2>2, <2>3, Zenon
<1> QED
  BY <1>3, <1>4, <1>5

(* Adding on the clock. *)
LEMMA TicksSum ==
  ASSUME NEW x \in Nat, NEW y \in Nat
  PROVE  (x + y) % TickMod \in Ticks
BY TickAssumption DEF Ticks

(* What the map is made of. *)
LEMMA EntryType ==
  ASSUME HandlersTypeOK
  PROVE  /\ handlers \in Seq(Entry) /\ DOMAIN handlers = 1 .. Len(handlers) /\ Len(handlers) \in Nat
         /\ \A i \in DOMAIN handlers : /\ handlers[i] \in Entry /\ handlers[i].key \in Keys
                                       /\ handlers[i].id \in Handlers /\ handlers[i].ticks \in Ticks
<1>1. handlers \in Seq(Entry)
  BY DEF HandlersTypeOK, Entry
<1>2. DOMAIN handlers = 1 .. Len(handlers) /\ Len(handlers) \in Nat
  BY <1>1
<1>3. \A i \in DOMAIN handlers : handlers[i] \in Entry
  BY <1>1
<1> QED
  BY <1>1, <1>2, <1>3 DEF Entry

LEMMA AddMap ==
  ASSUME MapInv, NEW key \in Keys, NEW h \in Handlers, NEW t \in Nat, outcome[h] = <<>>,
         h \notin Waiting, addHandler(key, h, t)
  PROVE  MapInv'
<1> DEFINE e == (ticks + t) % TickMod
<1> DEFINE n == [key |-> key, id |-> h, ticks |-> e]
<1>1. /\ handlers' = Append(handlers, n)
      /\ timeoutTicks' = IF e < timeoutTicks THEN e ELSE timeoutTicks
      /\ timeout' = [timeout EXCEPT ![h] = t] /\ waited' = [waited EXCEPT ![h] = 0]
      /\ UNCHANGED <<ticks, pos, calling, outcome>>
  BY DEF addHandler
<1>0. ticks \in Nat
  BY TickAssumption DEF MapInv, HandlersTypeOK, Ticks
<1>2. e \in Ticks
  BY <1>0, TicksSum
<1>3. n \in Entry /\ n.id = h
  BY <1>2 DEF Entry
<1> HIDE DEF e, n
<1>4. /\ handlers \in Seq(Entry) /\ handlers' \in Seq(Entry) /\ Len(handlers') = Len(handlers) + 1
      /\ \A i \in 1 .. Len(handlers) : handlers'[i] = handlers[i]
      /\ handlers'[Len(handlers) + 1] = n
      /\ DOMAIN handlers = 1 .. Len(handlers) /\ DOMAIN handlers' = 1 .. Len(handlers) + 1
      /\ Len(handlers) \in Nat
  BY <1>1, <1>3 DEF MapInv, HandlersTypeOK, Entry
<1>5. \A i \in 1 .. Len(handlers) + 1 : i \in 1 .. Len(handlers) \/ i = Len(handlers) + 1
  BY <1>4
<1>6. \A i \in 1 .. Len(handlers) : handlers[i].id # h
  BY <1>4 DEF Waiting
<1>7. HandlersTypeOK'
  BY <1>1, <1>2, <1>4 DEF MapInv, HandlersTypeOK, Entry
<1>8. OnceInv'
  BY <1>1, <1>3, <1>4, <1>5, <1>6 DEF MapInv, OnceInv
<1> QED
  BY <1>7, <1>8 DEF MapInv

(* A handler that is not in the map is called. *)
LEMMA FinishMap ==
  ASSUME MapInv, NEW h \in Handlers, outcome[h] = <<>>, h \notin Waiting,
         NEW error \in Outcomes, Finish(h, error)
  PROVE  MapInv'
<1>1. /\ outcome' = [g \in Handlers |-> IF g = h THEN Append(outcome[g], error) ELSE outcome[g]]
      /\ UNCHANGED <<handlers, timeoutTicks, ticks, pos, calling, waited, timeout>>
  BY DEF Finish, Complete
<1>2. outcome \in [Handlers -> Seq(Outcomes)]
  BY DEF MapInv, HandlersTypeOK, Outcomes
<1>3. outcome' \in [Handlers -> Seq(Outcomes)]
  BY <1>1, <1>2
<1>4. HandlersTypeOK'
  BY <1>1, <1>3 DEF MapInv, HandlersTypeOK, Outcomes
<1>a. \A i \in DOMAIN handlers : handlers[i].id # h
  BY DEF Waiting
<1>5. \A i \in DOMAIN handlers : handlers[i].id # h /\ handlers[i].id \in Handlers
  BY <1>a, EntryType DEF MapInv
<1>6. \A g \in Handlers : Len(outcome'[g]) <= 1
  <2>1. Len(Append(<<>>, error)) = 1
    OBVIOUS
  <2> QED
    BY <1>1, <2>1 DEF MapInv, OnceInv
<1>7. OnceInv'
  BY <1>1, <1>5, <1>6 DEF MapInv, OnceInv
<1> QED
  BY <1>4, <1>7 DEF MapInv

(* The nearest expiration time of a map, and the last of the places it has. *)
LEMMA NearestFacts ==
  ASSUME NEW s \in Seq(Entry)
  PROVE  Nearest(s) \in Ticks /\ \A i \in DOMAIN s : Nearest(s) <= s[i].ticks
<1> DEFINE T == {s[i].ticks : i \in DOMAIN s} \cup {MAX_TIMEOUT}
<1>0. Ticks \in SUBSET Nat /\ MAX_TIMEOUT \in Ticks
  BY TickAssumption DEF Ticks, MAX_TIMEOUT
<1>b. \A i \in DOMAIN s : s[i] \in Entry
  OBVIOUS
<1>a. \A i \in DOMAIN s : s[i].ticks \in Ticks
  BY <1>b DEF Entry
<1>1. T \in SUBSET Ticks /\ T # {}
  BY <1>0, <1>a
<1>2. \A i \in DOMAIN s : s[i].ticks \in T
  OBVIOUS
<1>3. Nearest(s) = Min(T)
  BY DEF Nearest
<1> HIDE DEF T
<1>4. \E x \in T : \A y \in T : x <= y
  BY <1>0, <1>1, SmallestNat
<1>5. Min(T) \in T /\ \A y \in T : Min(T) <= y
  BY <1>4 DEF Min
<1> QED
  BY <1>1, <1>2, <1>3, <1>5

LEMMA LastFacts ==
  ASSUME NEW n \in Nat, NEW S \in SUBSET (1 .. n), S # {}
  PROVE  Max(S) \in S
<1>1. S \in SUBSET Nat /\ \A x \in S : x <= n
  OBVIOUS
<1>2. \E x \in S : \A y \in S : x >= y
  BY <1>1, LargestNat
<1> QED
  BY <1>2 DEF Max

(* takeHandler removes the entries with the key, and calls those handlers. *)
LEMMA TakeFacts ==
  ASSUME MapInv, NEW key \in Keys, NEW error \in Outcomes, takeHandler(key, error)
  PROVE  /\ handlers' \in Seq(Entry)
         /\ timeoutTicks' = Nearest(handlers')
         /\ \A h \in Handlers :
              outcome'[h] = outcome[h] \/ (\E e \in Outcomes : outcome'[h] = Append(outcome[h], e))
         /\ \A h \in Handlers : h \notin Waiting => outcome'[h] = outcome[h]
         /\ outcome' \in [Handlers -> Seq(Outcomes)]
         /\ ticks' \in {0, ticks} /\ (ticks' # ticks => handlers' = <<>>)
         /\ UNCHANGED <<pos, calling, waited, timeout>>
         /\ \A i \in DOMAIN handlers' : \E j \in DOMAIN handlers :
              handlers'[i] = handlers[j] /\ outcome'[handlers[j].id] = outcome[handlers[j].id]
         /\ \A i, j \in DOMAIN handlers' : handlers'[i].id = handlers'[j].id => i = j
         /\ \A h \in Handlers : h \notin Waiting' => h \notin Waiting \/ outcome'[h] # <<>>
<1> DEFINE hit == {i \in DOMAIN handlers : handlers[i].key = key}
<1> DEFINE S == DOMAIN handlers \ hit
<1> DEFINE rest == Selected(handlers, S)
<1> DEFINE last == IF hit = {} THEN {} ELSE {handlers[Max(hit)].id}
<1> DEFINE ids == {handlers[i].id : i \in hit}
<1>1. /\ handlers' = rest
      /\ timeoutTicks' = Nearest(rest)
      /\ ticks' = IF hit # {} /\ rest = <<>> THEN 0 ELSE ticks
      /\ outcome' = [h \in Handlers |->
                       IF h \in ids \ last THEN Append(outcome[h], "INTERNAL")
                       ELSE IF h \in last THEN Append(outcome[h], error) ELSE outcome[h]]
      /\ UNCHANGED <<pos, calling, waited, timeout>>
  BY DEF takeHandler
<1>2. /\ handlers \in Seq(Entry) /\ DOMAIN handlers = 1 .. Len(handlers) /\ Len(handlers) \in Nat
      /\ \A i \in DOMAIN handlers : handlers[i] \in Entry /\ handlers[i].id \in Handlers
  BY EntryType DEF MapInv
<1>3. hit \in SUBSET (1 .. Len(handlers)) /\ S \in SUBSET (1 .. Len(handlers)) /\ S \in SUBSET Nat
  BY <1>2
<1>4. IsFiniteSet(S)
  <2> HIDE DEF S
  <2>1. IsFiniteSet(1 .. Len(handlers))
    BY <1>2, FS_Interval
  <2> QED
    BY <1>3, <2>1, FS_Subset
<1>5. last \subseteq ids
  <2>1. CASE hit = {}
    BY <2>1
  <2>2. CASE hit # {}
    <3>1. Max(hit) \in hit
      <4> HIDE DEF hit
      <4> QED
        BY <1>2, <1>3, <2>2, LastFacts
    <3> QED
      BY <2>2, <3>1
  <2> QED
    BY <2>1, <2>2
<1>6. \A i \in S, j \in hit : handlers[i].id # handlers[j].id
  BY DEF MapInv, OnceInv
<1>7. \A i \in S : i \in DOMAIN handlers /\ handlers[i].id \notin ids
  BY <1>6
<1>8. \A h \in ids : h \in Waiting /\ h \in Handlers /\ outcome[h] = <<>>
  BY <1>2 DEF Waiting, MapInv, OnceInv
<1>9. \A h \in Waiting : h \in ids \/ \E i \in S : h = handlers[i].id
  BY DEF Waiting
<1> HIDE DEF S, hit, last, ids
<1>10. /\ rest \in Seq(Entry) /\ Len(rest) = Cardinality(S) /\ Cardinality(S) \in Nat
       /\ \A k \in 1 .. Cardinality(S) : rest[k] = handlers[Nth(S, k)] /\ Nth(S, k) \in S
       /\ \A i \in S : Rank(S, i) \in 1 .. Cardinality(S) /\ rest[Rank(S, i)] = handlers[i]
  <2>1. \A i \in S : handlers[i] \in Entry
    BY <1>2, <1>7
  <2>2. S \in SUBSET Nat
    BY <1>3
  <2>3. /\ Selected(handlers, S) \in Seq(Entry) /\ Len(Selected(handlers, S)) = Cardinality(S)
        /\ Cardinality(S) \in Nat
        /\ \A k \in 1 .. Cardinality(S) :
             Selected(handlers, S)[k] = handlers[Nth(S, k)] /\ Nth(S, k) \in S
        /\ \A i \in S : Rank(S, i) \in 1 .. Cardinality(S)
                        /\ Selected(handlers, S)[Rank(S, i)] = handlers[i]
    <3>1. Selected(handlers, S) \in Seq(Entry)
      BY <1>4, <2>1, <2>2, SelectedFacts
    <3>2. Len(Selected(handlers, S)) = Cardinality(S) /\ Cardinality(S) \in Nat
      BY <1>4, <2>1, <2>2, SelectedFacts
    <3>3. \A k \in 1 .. Cardinality(S) :
             Selected(handlers, S)[k] = handlers[Nth(S, k)] /\ Nth(S, k) \in S
      BY <1>4, <2>1, <2>2, SelectedFacts
    <3>4. \A i \in S : Rank(S, i) \in 1 .. Cardinality(S)
      BY <1>4, <2>1, <2>2, SelectedFacts
    <3>5. \A i \in S : Selected(handlers, S)[Rank(S, i)] = handlers[i]
      BY <1>4, <2>1, <2>2, SelectedFacts
    <3> QED
      BY <3>1, <3>2, <3>3, <3>4, <3>5
  <2> QED
    BY <2>3
<1>11. \A k, l \in 1 .. Cardinality(S) : k < l => Nth(S, k) < Nth(S, l)
  BY <1>3, <1>4, NthFacts
<1> HIDE DEF rest
<1>12. DOMAIN rest = 1 .. Cardinality(S)
  BY <1>10
<1>13. outcome \in [Handlers -> Seq(Outcomes)]
  BY DEF MapInv, HandlersTypeOK, Outcomes
<1>14. \A h \in Handlers :
         outcome'[h] = outcome[h] \/ (\E e \in Outcomes : outcome'[h] = Append(outcome[h], e))
  BY <1>1 DEF Outcomes
<1>15. \A h \in Handlers : h \notin ids => outcome'[h] = outcome[h]
  BY <1>1, <1>5
<1>16. \A h \in ids : outcome'[h] # <<>>
  <2>1. \A h \in ids : outcome'[h] = Append(<<>>, "INTERNAL") \/ outcome'[h] = Append(<<>>, error)
    BY <1>1, <1>8
  <2> QED
    BY <2>1
<1>17. outcome' \in [Handlers -> Seq(Outcomes)]
  <2>1. ASSUME NEW h \in Handlers PROVE outcome'[h] \in Seq(Outcomes)
    <3>1. outcome[h] \in Seq(Outcomes)
      BY <1>13
    <3>2. \A e \in Outcomes : Append(outcome[h], e) \in Seq(Outcomes)
      BY <3>1
    <3> QED
      BY <1>14, <3>1, <3>2

  <2> QED
    BY <1>1, <2>1
<1>18. \A i \in DOMAIN rest : \E j \in DOMAIN handlers :
         rest[i] = handlers[j] /\ outcome'[handlers[j].id] = outcome[handlers[j].id]
  BY <1>2, <1>7, <1>10, <1>12, <1>15
<1>19. \A i, j \in DOMAIN rest : rest[i].id = rest[j].id => i = j
  <2> SUFFICES ASSUME NEW i \in 1 .. Cardinality(S), NEW j \in 1 .. Cardinality(S),
                      rest[i].id = rest[j].id
               PROVE  i = j
    BY <1>12
  <2>1. Nth(S, i) \in DOMAIN handlers /\ Nth(S, j) \in DOMAIN handlers
    BY <1>7, <1>10
  <2>2. Nth(S, i) = Nth(S, j)
    BY <1>10, <2>1 DEF MapInv, OnceInv
  <2>3. Nth(S, i) \in Nat
    BY <1>3, <1>10
  <2>4. ~(i < j) /\ ~(j < i)
    BY <1>11, <2>2, <2>3
  <2>5. i \in Nat /\ j \in Nat
    BY <1>10
  <2> QED
    BY <2>4, <2>5
<1>20. \A h \in Handlers : h \notin Waiting' => h \notin Waiting \/ outcome'[h] # <<>>
  <2> SUFFICES ASSUME NEW h \in Waiting, h \notin ids
               PROVE  h \in Waiting'
    BY <1>16
  <2>1. PICK i \in S : h = handlers[i].id
    BY <1>9
  <2>2. Rank(S, i) \in DOMAIN rest /\ rest[Rank(S, i)] = handlers[i]
    BY <1>10, <1>12
  <2> QED
    BY <1>1, <2>1, <2>2 DEF Waiting
<1>21. ticks' \in {0, ticks} /\ (ticks' # ticks => rest = <<>>)
  BY <1>1
<1>22. \A h \in Handlers : h \notin Waiting => outcome'[h] = outcome[h]
  BY <1>8, <1>15
<1> QED
  BY <1>1, <1>10, <1>14, <1>17, <1>18, <1>19, <1>20, <1>21, <1>22

LEMMA TakeMap ==
  ASSUME MapInv, NEW key \in Keys, NEW error \in Outcomes, takeHandler(key, error)
  PROVE  MapInv'
<1>1. /\ handlers' \in Seq(Entry)
      /\ timeoutTicks' = Nearest(handlers')
      /\ outcome' \in [Handlers -> Seq(Outcomes)]
      /\ ticks' \in {0, ticks}
      /\ UNCHANGED <<pos, calling, waited, timeout>>
      /\ \A i \in DOMAIN handlers' : \E j \in DOMAIN handlers :
           handlers'[i] = handlers[j] /\ outcome'[handlers[j].id] = outcome[handlers[j].id]
      /\ \A i, j \in DOMAIN handlers' : handlers'[i].id = handlers'[j].id => i = j
  BY TakeFacts
<1>2. ticks' \in Ticks /\ timeoutTicks' \in Ticks
  BY <1>1, NearestFacts, TickAssumption DEF MapInv, HandlersTypeOK, Ticks
<1>3. HandlersTypeOK'
  BY <1>1, <1>2 DEF MapInv, HandlersTypeOK, Entry, Outcomes
<1>4. \A i \in DOMAIN handlers' : outcome'[handlers'[i].id] = <<>>
  BY <1>1 DEF MapInv, OnceInv
<1>5. ASSUME NEW h \in Handlers PROVE Len(outcome'[h]) <= 1
  <2>1. \/ outcome'[h] = outcome[h]
        \/ h \in Waiting /\ \E e \in Outcomes : outcome'[h] = Append(outcome[h], e)
    BY TakeFacts
  <2>2. h \in Waiting => outcome[h] = <<>>
    BY DEF Waiting, MapInv, OnceInv
  <2>3. \A e \in Outcomes : Len(Append(<<>>, e)) = 1
    OBVIOUS
  <2> QED
    BY <2>1, <2>2, <2>3 DEF MapInv, OnceInv
<1>6. OnceInv'
  BY <1>1, <1>4, <1>5 DEF OnceInv
<1> QED
  BY <1>3, <1>6 DEF MapInv

LEMMA ClearMap ==
  ASSUME MapInv, clear
  PROVE  /\ MapInv'
         /\ \A h \in Handlers :
              IF h \in Waiting THEN outcome'[h] = <<"ABORTED">> ELSE outcome'[h] = outcome[h]
<1>1. /\ outcome' = [h \in Handlers |-> IF h \in Waiting THEN Append(outcome[h], "ABORTED")
                                                         ELSE outcome[h]]
      /\ handlers' = <<>> /\ timeoutTicks' = MAX_TIMEOUT /\ ticks' = 0
      /\ UNCHANGED <<pos, calling, waited, timeout>>
  BY DEF clear, Complete, Waiting
<1>2. \A h \in Waiting : outcome[h] = <<>>
  BY DEF Waiting, MapInv, OnceInv
<1>3. outcome \in [Handlers -> Seq(Outcomes)] /\ "ABORTED" \in Outcomes
  BY DEF MapInv, HandlersTypeOK, Outcomes
<1>4. outcome' \in [Handlers -> Seq(Outcomes)]
  BY <1>1, <1>3
<1>5. 0 \in Ticks /\ MAX_TIMEOUT \in Ticks /\ <<>> \in Seq(Entry)
  BY TickAssumption DEF Ticks, MAX_TIMEOUT
<1>6. HandlersTypeOK'
  BY <1>1, <1>4, <1>5 DEF MapInv, HandlersTypeOK, Entry, Outcomes
<1>7. Append(<<>>, "ABORTED") = <<"ABORTED">> /\ Len(<<"ABORTED">>) = 1
  OBVIOUS
<1>8. \A h \in Handlers :
        IF h \in Waiting THEN outcome'[h] = <<"ABORTED">> ELSE outcome'[h] = outcome[h]
  BY <1>1, <1>2, <1>7
<1>9. ASSUME NEW h \in Handlers PROVE Len(outcome'[h]) <= 1
  <2>1. CASE h \in Waiting
    <3>1. outcome'[h] = <<"ABORTED">>
      BY <1>8, <2>1
    <3>2. Len(outcome'[h]) = 1
      BY <1>7, <3>1, Zenon
    <3> QED
      BY <3>2
  <2>2. CASE h \notin Waiting
    BY <1>8, <2>2 DEF MapInv, OnceInv
  <2> QED
    BY <2>1, <2>2
<1>10. OnceInv'
  BY <1>1, <1>9 DEF OnceInv
<1> QED
  BY <1>6, <1>8, <1>10 DEF MapInv

LEMMA UpdateMap ==
  ASSUME MapInv, NEW t \in Nat, update(t)
  PROVE  MapInv'
<1>1. CASE UNCHANGED hvars
  BY <1>1 DEF MapInv, HandlersTypeOK, OnceInv, hvars
<1>2. CASE /\ ticks' = (ticks + t) % TickMod
           /\ waited' = [h \in Handlers |-> IF \E i \in DOMAIN handlers : handlers[i].id = h
                                            THEN waited[h] + t ELSE waited[h]]
           /\ (timeoutTicks' = MAX_TIMEOUT /\ pos' = 1) \/ UNCHANGED <<timeoutTicks, pos>>
           /\ UNCHANGED <<handlers, calling, outcome, timeout>>
  <2>1. ticks \in Nat /\ MAX_TIMEOUT \in Ticks
    BY TickAssumption DEF MapInv, HandlersTypeOK, Ticks, MAX_TIMEOUT
  <2>2. ticks' \in Ticks
    BY <1>2, <2>1, TicksSum
  <2>a. \A h \in Handlers : waited[h] \in Nat /\ waited[h] + t \in Nat
    BY DEF MapInv, HandlersTypeOK
  <2>3. waited' \in [Handlers -> Nat]
    BY <1>2, <2>a, Zenon
  <2>4. timeoutTicks' \in Ticks /\ pos' \in Nat
    BY <1>2, <2>1 DEF MapInv, HandlersTypeOK
  <2>5. HandlersTypeOK'
    BY <1>2, <2>2, <2>3, <2>4 DEF MapInv, HandlersTypeOK
  <2> QED
    BY <1>2, <2>5 DEF MapInv, OnceInv
<1> QED
  BY <1>1, <1>2 DEF update

(* update() takes the handler at its index out of the map and calls it. *)
LEMMA ExpireFacts ==
  ASSUME MapInv, UpdateExpire
  PROVE  /\ pos \in 1 .. Len(handlers) /\ handlers' \in Seq(Entry)
         /\ ticks >= handlers[pos].ticks
         /\ Len(handlers') = Len(handlers) - 1
         /\ \A j \in DOMAIN handlers' : /\ j + 1 \in DOMAIN handlers /\ j \in DOMAIN handlers
                                        /\ handlers'[j] = handlers[IF j < pos THEN j ELSE j + 1]
                                        /\ handlers'[j].id # handlers[pos].id
         /\ \A i, j \in DOMAIN handlers' : handlers'[i].id = handlers'[j].id => i = j
         /\ outcome' = [h \in Handlers |-> IF h = handlers[pos].id THEN <<"TIMEOUT">> ELSE outcome[h]]
         /\ calling' = TRUE /\ UNCHANGED <<timeoutTicks, ticks, pos, waited, timeout>>
         /\ Waiting = Waiting' \cup {handlers[pos].id}
<1>1. /\ handlers \in Seq(Entry) /\ DOMAIN handlers = 1 .. Len(handlers) /\ Len(handlers) \in Nat
      /\ \A i \in DOMAIN handlers : handlers[i].id \in Handlers
  BY EntryType DEF MapInv
<1>2. /\ pos \in 1 .. Len(handlers) /\ handlers' = RemoveAt(handlers, pos)
      /\ ticks >= handlers[pos].ticks
      /\ outcome' = [h \in Handlers |-> IF h \in {handlers[pos].id} THEN Append(outcome[h], "TIMEOUT")
                                                                    ELSE outcome[h]]
      /\ calling' = TRUE /\ UNCHANGED <<timeoutTicks, ticks, pos, waited, timeout>>
  BY <1>1 DEF UpdateExpire, Complete
<1>3. /\ handlers' \in Seq(Entry) /\ Len(handlers') = Len(handlers) - 1
      /\ \A j \in 1 .. Len(handlers) - 1 :
           handlers'[j] = IF j < pos THEN handlers[j] ELSE handlers[j + 1]
  BY <1>1, <1>2, RemoveAtFacts
<1>4. DOMAIN handlers' = 1 .. Len(handlers) - 1
  BY <1>3
<1>5. \A i, j \in DOMAIN handlers : handlers[i].id = handlers[j].id => i = j
  BY DEF MapInv, OnceInv
<1>6. ASSUME NEW j \in DOMAIN handlers'
      PROVE  /\ j + 1 \in DOMAIN handlers /\ j \in DOMAIN handlers
             /\ handlers'[j] = handlers[IF j < pos THEN j ELSE j + 1]
             /\ handlers'[j].id # handlers[pos].id
  <2>1. j + 1 \in DOMAIN handlers /\ j \in DOMAIN handlers /\ j \in 1 .. Len(handlers) - 1
    BY <1>1, <1>4
  <2>2. handlers'[j] = handlers[IF j < pos THEN j ELSE j + 1]
    BY <1>3, <2>1
  <2>3. (IF j < pos THEN j ELSE j + 1) # pos /\ (IF j < pos THEN j ELSE j + 1) \in DOMAIN handlers
    BY <1>1, <1>2, <2>1
  <2>4. handlers[IF j < pos THEN j ELSE j + 1].id # handlers[pos].id
    BY <1>1, <1>2, <1>5, <2>3
  <2> QED
    BY <2>1, <2>2, <2>4
<1>7. ASSUME NEW i \in DOMAIN handlers', NEW j \in DOMAIN handlers', handlers'[i].id = handlers'[j].id
      PROVE  i = j
  <2>1. (IF i < pos THEN i ELSE i + 1) \in DOMAIN handlers /\ (IF j < pos THEN j ELSE j + 1) \in DOMAIN handlers
    BY <1>6
  <2>2. (IF i < pos THEN i ELSE i + 1) = (IF j < pos THEN j ELSE j + 1)
    BY <1>5, <1>6, <1>7, <2>1
  <2>3. i \in Nat /\ j \in Nat /\ pos \in Nat
    BY <1>1, <1>2, <1>4
  <2> QED
    BY <2>2, <2>3
<1>8. outcome[handlers[pos].id] = <<>> /\ Append(<<>>, "TIMEOUT") = <<"TIMEOUT">>
  BY <1>1, <1>2 DEF MapInv, OnceInv
<1>9. outcome' = [h \in Handlers |-> IF h = handlers[pos].id THEN <<"TIMEOUT">> ELSE outcome[h]]
  BY <1>2, <1>8
<1>10. Waiting = Waiting' \cup {handlers[pos].id}
  <2>1. \A h \in Waiting : h \in Waiting' \/ h = handlers[pos].id
    <3> SUFFICES ASSUME NEW i \in DOMAIN handlers, i # pos
                 PROVE  \E j \in DOMAIN handlers' : handlers'[j].id = handlers[i].id
      BY DEF Waiting
    <3>1. CASE i < pos
      <4>1. i \in DOMAIN handlers'
        BY <1>1, <1>2, <1>4, <3>1
      <4> QED
        BY <1>6, <3>1, <4>1
    <3>2. CASE i > pos
      <4>1. i - 1 \in DOMAIN handlers' /\ ~(i - 1 < pos) /\ (i - 1) + 1 = i
        BY <1>1, <1>2, <1>4, <3>2
      <4>2. handlers'[i - 1] = handlers[i]
        BY <1>6, <4>1
      <4> QED
        BY <4>1, <4>2
    <3> QED
      BY <1>1, <1>2, <3>1, <3>2
  <2>2. \A h \in Waiting' : h \in Waiting
    <3> SUFFICES ASSUME NEW j \in DOMAIN handlers'
                 PROVE  \E i \in DOMAIN handlers : handlers'[j].id = handlers[i].id
      BY DEF Waiting
    <3> QED
      BY <1>6
  <2>3. handlers[pos].id \in Waiting
    BY <1>1, <1>2 DEF Waiting
  <2> QED
    BY <2>1, <2>2, <2>3
<1> QED
  BY <1>2, <1>3, <1>6, <1>7, <1>9, <1>10

LEMMA ExpireMap ==
  ASSUME MapInv, UpdateExpire
  PROVE  MapInv'
<1>1. /\ pos \in 1 .. Len(handlers) /\ handlers' \in Seq(Entry)
      /\ \A j \in DOMAIN handlers' : /\ j + 1 \in DOMAIN handlers /\ j \in DOMAIN handlers
                                     /\ handlers'[j] = handlers[IF j < pos THEN j ELSE j + 1]
                                     /\ handlers'[j].id # handlers[pos].id
      /\ \A i, j \in DOMAIN handlers' : handlers'[i].id = handlers'[j].id => i = j
      /\ outcome' = [h \in Handlers |-> IF h = handlers[pos].id THEN <<"TIMEOUT">> ELSE outcome[h]]
      /\ calling' = TRUE /\ UNCHANGED <<timeoutTicks, ticks, pos, waited, timeout>>
  BY ExpireFacts
<1>2. <<"TIMEOUT">> \in Seq(Outcomes) /\ Len(<<"TIMEOUT">>) = 1
  BY DEF Outcomes
<1>3. outcome \in [Handlers -> Seq(Outcomes)]
  BY DEF MapInv, HandlersTypeOK, Outcomes
<1>4. outcome' \in [Handlers -> Seq(Outcomes)]
  BY <1>1, <1>2, <1>3
<1>5. HandlersTypeOK'
  BY <1>1, <1>4 DEF MapInv, HandlersTypeOK, Entry, Outcomes
<1>6. \A h \in Handlers : Len(outcome'[h]) <= 1
  BY <1>1, <1>2 DEF MapInv, OnceInv
<1>7. ASSUME NEW j \in DOMAIN handlers' PROVE outcome'[handlers'[j].id] = <<>>
  <2>1. PICK i \in DOMAIN handlers : handlers'[j] = handlers[i] /\ handlers[i].id # handlers[pos].id
    BY <1>1
  <2>2. outcome[handlers[i].id] = <<>> /\ handlers[i].id \in Handlers
    BY EntryType DEF MapInv, OnceInv
  <2> QED
    BY <1>1, <2>1, <2>2
<1>8. OnceInv'
  BY <1>1, <1>6, <1>7 DEF OnceInv
<1> QED
  BY <1>5, <1>8 DEF MapInv

(* update() makes the expiration time at its index relative. *)
LEMMA KeepFacts ==
  ASSUME MapInv, UpdateKeep
  PROVE  LET e == handlers[pos].ticks - ticks IN
         /\ pos \in DOMAIN handlers /\ e \in Ticks /\ e > 0
         /\ handlers' \in Seq(Entry) /\ Len(handlers') = Len(handlers)
         /\ DOMAIN handlers' = DOMAIN handlers
         /\ \A i \in DOMAIN handlers : /\ handlers'[i].id = handlers[i].id
                                       /\ handlers'[i].ticks = IF i = pos THEN e ELSE handlers[i].ticks
         /\ timeoutTicks' = IF e < timeoutTicks THEN e ELSE timeoutTicks
         /\ pos' = pos + 1 /\ calling' = FALSE
         /\ UNCHANGED <<ticks, outcome, waited, timeout>>
<1> DEFINE e == handlers[pos].ticks - ticks
<1>1. /\ pos \in DOMAIN handlers /\ ticks < handlers[pos].ticks
      /\ handlers' = [handlers EXCEPT ![pos].ticks = e]
      /\ timeoutTicks' = IF e < timeoutTicks THEN e ELSE timeoutTicks
      /\ pos' = pos + 1 /\ calling' = FALSE
      /\ UNCHANGED <<ticks, outcome, waited, timeout>>
  BY DEF UpdateKeep
<1>2. /\ handlers \in Seq(Entry) /\ DOMAIN handlers = 1 .. Len(handlers) /\ Len(handlers) \in Nat
      /\ \A i \in DOMAIN handlers : handlers[i] \in Entry /\ handlers[i].ticks \in Ticks
  BY EntryType DEF MapInv
<1>3. ticks \in Ticks
  BY DEF MapInv, HandlersTypeOK
<1>4. e \in Ticks /\ e > 0
  BY <1>1, <1>2, <1>3, TickAssumption DEF Ticks
<1> HIDE DEF e
<1>5. handlers' = [i \in DOMAIN handlers |->
                     IF i = pos THEN [handlers[pos] EXCEPT !.ticks = e] ELSE handlers[i]]
  BY <1>1, <1>2
<1>6. [handlers[pos] EXCEPT !.ticks = e] \in Entry
  BY <1>1, <1>2, <1>4 DEF Entry
<1>7. /\ [handlers[pos] EXCEPT !.ticks = e].ticks = e
      /\ [handlers[pos] EXCEPT !.ticks = e].id = handlers[pos].id
  BY <1>1, <1>2 DEF Entry
<1>8. handlers' \in [1 .. Len(handlers) -> Entry]
  BY <1>1, <1>2, <1>5, <1>6
<1>9. handlers' \in Seq(Entry) /\ Len(handlers') = Len(handlers) /\ DOMAIN handlers' = DOMAIN handlers
  BY <1>2, <1>8
<1>10. \A i \in DOMAIN handlers : /\ handlers'[i].id = handlers[i].id
                                  /\ handlers'[i].ticks = IF i = pos THEN e ELSE handlers[i].ticks
  BY <1>5, <1>7
<1> QED
  BY <1>1, <1>4, <1>9, <1>10 DEF e

LEMMA KeepMap ==
  ASSUME MapInv, UpdateKeep
  PROVE  MapInv'
<1> DEFINE e == handlers[pos].ticks - ticks
<1>1. /\ pos \in DOMAIN handlers /\ e \in Ticks
      /\ handlers' \in Seq(Entry) /\ DOMAIN handlers' = DOMAIN handlers
      /\ \A i \in DOMAIN handlers : handlers'[i].id = handlers[i].id
      /\ timeoutTicks' = IF e < timeoutTicks THEN e ELSE timeoutTicks
      /\ pos' = pos + 1 /\ calling' = FALSE
      /\ UNCHANGED <<ticks, outcome, waited, timeout>>
  BY KeepFacts
<1> HIDE DEF e
<1>b. pos \in Nat /\ timeoutTicks \in Ticks
  BY DEF MapInv, HandlersTypeOK
<1>c. pos' \in Nat
  BY <1>1, <1>b
<1>d. timeoutTicks' \in Ticks
  BY <1>1, <1>b
<1>a. pos' \in Nat /\ calling' \in BOOLEAN /\ timeoutTicks' \in Ticks
  BY <1>1, <1>c, <1>d
<1>2. HandlersTypeOK'
  BY <1>1, <1>a DEF MapInv, HandlersTypeOK, Entry
<1>3. OnceInv'
  BY <1>1 DEF MapInv, OnceInv
<1> QED
  BY <1>2, <1>3 DEF MapInv

LEMMA EndMap ==
  ASSUME MapInv, UpdateEnd
  PROVE  MapInv'
<1>1. 0 \in Ticks
  BY TickAssumption DEF Ticks
<1>2. HandlersTypeOK'
  BY <1>1 DEF MapInv, HandlersTypeOK, UpdateEnd
<1>3. OnceInv'
  BY DEF MapInv, OnceInv, UpdateEnd
<1> QED
  BY <1>2, <1>3 DEF MapInv

-----------------------------------------------------------------------------
(* The rate limit.                                                          *)

RateInv ==
  /\ now \in Ticks
  /\ recent_event_ticks \in [0 .. RingSize - 1 -> Ticks] /\ evt_tick_idx \in 0 .. RingSize - 1
  /\ lastMinute \in Nat /\ eventsThisMinute \in 0 .. MaxPerMinute
  /\ accepted \in Seq(0 .. Second - 1)
  /\ RingInv

(* Sums and differences of values on a clock or of places of a ring. *)
LEMMA ModSum ==
  ASSUME NEW M \in Nat \ {0}, NEW x \in 0 .. M - 1, NEW y \in 0 .. M
  PROVE  (x + y) % M = IF x + y < M THEN x + y ELSE x + y - M
OBVIOUS

LEMMA ModDifference ==
  ASSUME NEW M \in Nat \ {0}, NEW x \in 0 .. M - 1, NEW y \in 0 .. M
  PROVE  (x - y) % M = IF x >= y THEN x - y ELSE x - y + M
OBVIOUS

(* A step of the clock: what is n ticks ago is then n + 1 ticks ago, or,    *)
(* when the clock has come round, now.                                      *)
LEMMA TickFacts ==
  ASSUME NEW n \in Ticks, NEW t \in Ticks
  PROVE  LET m == (n + 1) % TickMod
         IN /\ m \in Ticks
            /\ (n - n) % TickMod = 0
            /\ (n - t) % TickMod \in Ticks
            /\ (m - t) % TickMod <= ((n - t) % TickMod) + 1
            /\ (n - t) % TickMod < TickMod - 1 => (m - t) % TickMod = ((n - t) % TickMod) + 1
<1> DEFINE m == (n + 1) % TickMod
<1>1. TickMod \in Nat \ {0} /\ n \in 0 .. TickMod - 1 /\ t \in 0 .. TickMod - 1 /\ TickMod > 1
  BY TickAssumption DEF Ticks
<1>2. m = IF n + 1 < TickMod THEN n + 1 ELSE n + 1 - TickMod
  BY <1>1, 1 \in 0 .. TickMod, ModSum
<1>3. m \in 0 .. TickMod - 1
  BY <1>1, <1>2
<1> HIDE DEF m
<1>4. \A a, b \in 0 .. TickMod - 1 : (a - b) % TickMod = IF a >= b THEN a - b ELSE a - b + TickMod
  BY <1>1, ModDifference
<1>5. (n - t) % TickMod = IF n >= t THEN n - t ELSE n - t + TickMod
  BY <1>1, <1>4
<1>6. (m - t) % TickMod = IF m >= t THEN m - t ELSE m - t + TickMod
  BY <1>1, <1>3, <1>4
<1>7. (n - n) % TickMod = 0
  BY <1>1, <1>4
<1>8. /\ (n - t) % TickMod \in Ticks
      /\ (m - t) % TickMod <= ((n - t) % TickMod) + 1
      /\ (n - t) % TickMod < TickMod - 1 => (m - t) % TickMod = ((n - t) % TickMod) + 1
  BY <1>1, <1>2, <1>5, <1>6 DEF Ticks
<1> QED
  BY <1>1, <1>3, <1>7, <1>8 DEF m, Ticks

(* Going round the ring of attempts. *)
LEMMA RingFacts ==
  ASSUME NEW x \in 0 .. RingSize - 1
  PROVE  LET y == (x + 1) % RingSize
         IN /\ y \in 0 .. RingSize - 1
            /\ (y - 1) % RingSize = x
            /\ \A b \in 2 .. RingSize : (y - b) % RingSize = (x - (b - 1)) % RingSize
            /\ y = (x - (RingSize - 1)) % RingSize
            /\ \A b \in 1 .. RingSize - 1 : /\ (x - b) % RingSize \in 0 .. RingSize - 1
                                            /\ (x - b) % RingSize # x
<1> DEFINE y == (x + 1) % RingSize
<1>1. RingSize \in Nat \ {0} /\ RingSize > 1
  BY RateAssumption
<1>2. y = IF x + 1 < RingSize THEN x + 1 ELSE x + 1 - RingSize
  BY <1>1, 1 \in 0 .. RingSize, ModSum
<1>3. y \in 0 .. RingSize - 1
  BY <1>1, <1>2
<1> HIDE DEF y
<1>4. \A a \in 0 .. RingSize - 1, b \in 0 .. RingSize :
        (a - b) % RingSize = IF a >= b THEN a - b ELSE a - b + RingSize
  BY <1>1, ModDifference
<1>5. (y - 1) % RingSize = x
  <2>1. (y - 1) % RingSize = IF y >= 1 THEN y - 1 ELSE y - 1 + RingSize
    BY <1>1, <1>3, <1>4
  <2> QED
    BY <1>1, <1>2, <2>1
<1>6. ASSUME NEW b \in 2 .. RingSize
      PROVE  (y - b) % RingSize = (x - (b - 1)) % RingSize
  <2>1. (y - b) % RingSize = IF y >= b THEN y - b ELSE y - b + RingSize
    BY <1>1, <1>3, <1>4
  <2>2. b - 1 \in 0 .. RingSize
    BY <1>1
  <2>3. (x - (b - 1)) % RingSize = IF x >= b - 1 THEN x - (b - 1) ELSE x - (b - 1) + RingSize
    BY <1>4, <2>2
  <2> QED
    BY <1>1, <1>2, <2>1, <2>3
<1>7. y = (x - (RingSize - 1)) % RingSize
  <2>1. RingSize - 1 \in 0 .. RingSize
    BY <1>1
  <2>2. (x - (RingSize - 1)) % RingSize =
          IF x >= RingSize - 1 THEN x - (RingSize - 1) ELSE x - (RingSize - 1) + RingSize
    BY <1>4, <2>1
  <2> QED
    BY <1>1, <1>2, <2>2
<1>8. ASSUME NEW b \in 1 .. RingSize - 1
      PROVE  (x - b) % RingSize \in 0 .. RingSize - 1 /\ (x - b) % RingSize # x
  <2>1. (x - b) % RingSize = IF x >= b THEN x - b ELSE x - b + RingSize
    BY <1>1, <1>4
  <2> QED
    BY <1>1, <2>1
<1> QED
  BY <1>3, <1>5, <1>6, <1>7, <1>8 DEF y

(* After an attempt, the attempts before it are one place further back. *)
LEMMA TakePlaceFacts ==
  ASSUME RateInv, TakePlace, UNCHANGED now
  PROVE  /\ recent_event_ticks' \in [0 .. RingSize - 1 -> Ticks]
         /\ evt_tick_idx' \in 0 .. RingSize - 1
         /\ Attempt(1)' = now
         /\ \A b \in 2 .. RingSize : Attempt(b)' = Attempt(b - 1)
<1>1. /\ recent_event_ticks' = [recent_event_ticks EXCEPT ![evt_tick_idx] = now]
      /\ evt_tick_idx' = (evt_tick_idx + 1) % RingSize
  BY DEF TakePlace
<1>2. /\ recent_event_ticks \in [0 .. RingSize - 1 -> Ticks] /\ evt_tick_idx \in 0 .. RingSize - 1
      /\ now \in Ticks
  BY DEF RateInv
<1>3. /\ evt_tick_idx' \in 0 .. RingSize - 1
      /\ (evt_tick_idx' - 1) % RingSize = evt_tick_idx
      /\ \A b \in 2 .. RingSize :
           (evt_tick_idx' - b) % RingSize = (evt_tick_idx - (b - 1)) % RingSize
      /\ \A b \in 1 .. RingSize - 1 : /\ (evt_tick_idx - b) % RingSize \in 0 .. RingSize - 1
                                      /\ (evt_tick_idx - b) % RingSize # evt_tick_idx
  BY <1>1, <1>2, RingFacts
<1>4. Attempt(1)' = now
  BY <1>1, <1>2, <1>3 DEF Attempt
<1>5. ASSUME NEW b \in 2 .. RingSize PROVE Attempt(b)' = Attempt(b - 1)
  <2>1. b - 1 \in 1 .. RingSize - 1
    BY RateAssumption
  <2> QED
    BY <1>1, <1>2, <1>3, <2>1 DEF Attempt
<1>6. recent_event_ticks' \in [0 .. RingSize - 1 -> Ticks]
  BY <1>1, <1>2
<1> QED
  BY <1>3, <1>4, <1>5, <1>6

(* Sequences as functions, and functions as sequences. *)
LEMMA SeqFacts ==
  ASSUME NEW X, NEW s \in Seq(X)
  PROVE  Len(s) \in Nat /\ DOMAIN s = 1 .. Len(s) /\ \A i \in 1 .. Len(s) : s[i] \in X
OBVIOUS

LEMMA FunctionIsSeq ==
  ASSUME NEW X, NEW n \in Nat, NEW f \in [1 .. n -> X]
  PROVE  f \in Seq(X) /\ Len(f) = n /\ DOMAIN f = 1 .. n
OBVIOUS

(* The events let through, as numbers: their ages. *)
LEMMA AcceptedType ==
  ASSUME RateInv
  PROVE  /\ Len(accepted) \in Nat /\ DOMAIN accepted = 1 .. Len(accepted)
         /\ Len(accepted) <= RingSize - 1
         /\ \A i \in 1 .. Len(accepted) : accepted[i] \in 0 .. Second - 1
<1>1. accepted \in Seq(0 .. Second - 1)
  BY DEF RateInv
<1>2. Len(accepted) \in Nat /\ DOMAIN accepted = 1 .. Len(accepted)
  BY <1>1, SeqFacts, Zenon
<1>3. \A i \in 1 .. Len(accepted) : accepted[i] \in 0 .. Second - 1
  BY <1>1, SeqFacts, Zenon
<1>4. Len(accepted) <= RingSize - 1
  BY DEF RateInv, RingInv, BurstLimited
<1> QED
  BY <1>2, <1>3, <1>4

(* An event is let through only if the attempt RingSize - 1 back is a       *)
(* second old; then so many events were not let through in this second.     *)
LEMMA AdmitRate ==
  ASSUME RateInv, Admit, UNCHANGED now
  PROVE  RateInv'
<1> DEFINE L == Len(accepted)
<1>1. /\ L \in Nat /\ DOMAIN accepted = 1 .. L /\ L <= RingSize - 1
      /\ \A i \in 1 .. L : accepted[i] \in 0 .. Second - 1
  BY AcceptedType
<1>2. /\ accepted' = Append(accepted, 0) /\ TakePlace /\ ~TooFast
      /\ UNCHANGED <<lastMinute, eventsThisMinute>>
  BY DEF Admit, TakePlace
<1>3. accepted \in Seq(0 .. Second - 1) /\ 0 \in 0 .. Second - 1
  BY RateAssumption, TickAssumption DEF RateInv
<1>4. /\ accepted' \in Seq(0 .. Second - 1) /\ Len(accepted') = L + 1
      /\ DOMAIN accepted' = 1 .. L + 1
      /\ \A i \in 1 .. L : accepted'[i] = accepted[i]
      /\ accepted'[L + 1] = 0
  BY <1>2, <1>3
<1> HIDE DEF L
<1>5. /\ recent_event_ticks' \in [0 .. RingSize - 1 -> Ticks] /\ evt_tick_idx' \in 0 .. RingSize - 1
      /\ Attempt(1)' = now
      /\ \A b \in 2 .. RingSize : Attempt(b)' = Attempt(b - 1)
  BY <1>2, TakePlaceFacts
<1>6. L # RingSize - 1
  <2> SUFFICES ASSUME L = RingSize - 1 PROVE FALSE
    OBVIOUS
  <2>1. L \in 1 .. L /\ L + 1 - L = 1 /\ 1 \in 1 .. L
    BY <1>1, RateAssumption
  <2>2. (now - Attempt(L)) % TickMod <= accepted[1]
    BY <2>1 DEF RateInv, RingInv, L
  <2>3. (evt_tick_idx + 1) % RingSize = (evt_tick_idx - L) % RingSize
    BY RingFacts DEF RateInv
  <2>4. ~((now - Attempt(L)) % TickMod < Second)
    BY <1>2, <2>3 DEF TooFast, Attempt
  <2>5. Attempt(L) \in Ticks
    <3>1. (evt_tick_idx - L) % RingSize \in 0 .. RingSize - 1
      BY <2>1, RingFacts DEF RateInv
    <3> QED
      BY <3>1 DEF RateInv, Attempt
  <2>6. (now - Attempt(L)) % TickMod \in Ticks
    BY <2>5, TickFacts DEF RateInv
  <2> QED
    BY <1>1, <2>1, <2>2, <2>4, <2>6, RateAssumption, TickAssumption DEF Ticks
<1>7. L + 1 <= RingSize - 1
  BY <1>1, <1>6, RateAssumption
<1>8. ASSUME NEW b \in 1 .. L + 1
      PROVE  (now - Attempt(b)') % TickMod <= accepted'[L + 2 - b]
  <2>1. CASE b = 1
    <3>1. (now - now) % TickMod = 0
      BY TickFacts DEF RateInv
    <3>2. accepted'[L + 2 - b] = 0
      BY <1>1, <1>4, <2>1
    <3> QED
      BY <1>5, <2>1, <3>1, <3>2
  <2>2. CASE b # 1
    <3>1. b - 1 \in 1 .. L /\ b \in 2 .. RingSize /\ L + 2 - b \in 1 .. L /\ L + 1 - (b - 1) = L + 2 - b
      BY <1>1, <1>7, <2>2, RateAssumption
    <3>2. (now - Attempt(b - 1)) % TickMod <= accepted[L + 1 - (b - 1)]
      BY <3>1 DEF RateInv, RingInv, L
    <3>3. Attempt(b)' = Attempt(b - 1) /\ accepted'[L + 2 - b] = accepted[L + 2 - b]
      BY <1>4, <1>5, <3>1
    <3> QED
      BY <3>1, <3>2, <3>3
  <2> QED
    BY <2>1, <2>2
<1>9. ASSUME NEW i \in 1 .. L + 1, NEW j \in 1 .. L + 1, i <= j
      PROVE  accepted'[j] <= accepted'[i]
  <2>1. CASE j = L + 1
    <3>1. accepted'[i] >= 0
      BY <1>1, <1>4
    <3> QED
      BY <1>4, <2>1, <3>1
  <2>2. CASE j # L + 1
    <3>1. i \in 1 .. L /\ j \in 1 .. L
      BY <1>1, <1>9, <2>2
    <3> QED
      BY <1>1, <1>4, <1>9, <3>1 DEF RateInv, RingInv
  <2> QED
    BY <2>1, <2>2
<1>10. RingInv'
  <2>1. \A b \in 1 .. L + 1 : (now - Attempt(b)') % TickMod <= accepted'[(L + 1) + 1 - b]
    BY <1>1, <1>8
  <2> QED
    BY <1>4, <1>7, <1>9, <2>1 DEF RingInv, BurstLimited
<1> QED
  BY <1>2, <1>4, <1>5, <1>10 DEF RateInv

(* A refused attempt moves the others back, which are then older still. *)
LEMMA RefuseRate ==
  ASSUME RateInv, TakePlace, UNCHANGED <<accepted, now>>
  PROVE  RateInv'
<1> DEFINE L == Len(accepted)
<1>1. /\ L \in Nat /\ DOMAIN accepted = 1 .. L /\ L <= RingSize - 1
      /\ \A i \in 1 .. L : accepted[i] \in 0 .. Second - 1
  BY AcceptedType
<1>2. /\ recent_event_ticks' \in [0 .. RingSize - 1 -> Ticks] /\ evt_tick_idx' \in 0 .. RingSize - 1
      /\ Attempt(1)' = now
      /\ \A b \in 2 .. RingSize : Attempt(b)' = Attempt(b - 1)
  BY TakePlaceFacts
<1>3. ASSUME NEW b \in 1 .. L
      PROVE  (now - Attempt(b)') % TickMod <= accepted[L + 1 - b]
  <2>0. L + 1 - b \in 1 .. L
    BY <1>1
  <2>1. CASE b = 1
    <3>1. (now - now) % TickMod = 0
      BY TickFacts DEF RateInv
    <3>2. accepted[L + 1 - b] >= 0
      BY <1>1, <2>0
    <3> QED
      BY <1>2, <2>1, <3>1, <3>2
  <2>2. CASE b # 1
    <3>1. b - 1 \in 1 .. L /\ b \in 2 .. RingSize /\ L + 1 - (b - 1) \in 1 .. L
      BY <1>1, <2>2, RateAssumption
    <3>2. (now - Attempt(b - 1)) % TickMod <= accepted[L + 1 - (b - 1)]
      BY <3>1 DEF RateInv, RingInv
    <3>3. L + 1 - b <= L + 1 - (b - 1)
      BY <1>1
    <3>4. accepted[L + 1 - (b - 1)] <= accepted[L + 1 - b]
      BY <1>1, <2>0, <3>1, <3>3 DEF RateInv, RingInv
    <3>5. Attempt(b)' = Attempt(b - 1)
      BY <1>2, <3>1
    <3>6. accepted[L + 1 - (b - 1)] \in Int /\ accepted[L + 1 - b] \in Int
      BY <1>1, <2>0, <3>1
    <3>7. (now - Attempt(b - 1)) % TickMod \in Int
      <4>0. evt_tick_idx \in 0 .. RingSize - 1 /\ b - 1 \in 1 .. RingSize - 1
        BY <1>1, <3>1, RateAssumption DEF RateInv
      <4>1. (evt_tick_idx - (b - 1)) % RingSize \in 0 .. RingSize - 1
        BY <4>0, RingFacts
      <4>2. Attempt(b - 1) \in Ticks
        BY <4>1 DEF RateInv, Attempt
      <4> QED
        BY <4>2, TickFacts DEF RateInv, Ticks
    <3> QED
      BY <3>2, <3>4, <3>5, <3>6, <3>7
  <2> QED
    BY <2>1, <2>2
<1>4. RingInv'
  BY <1>3 DEF RingInv, BurstLimited, RateInv
<1> QED
  BY <1>2, <1>4 DEF RateInv, TakePlace

(* The limit of system events is counted separately. *)
LEMMA SystemRate ==
  ASSUME RateInv, AdmitSystem, UNCHANGED now
  PROVE  RateInv'
<1>1. now \in Nat /\ Minute \in Nat \ {0} /\ MaxPerMinute \in Nat \ {0}
  BY RateAssumption, TickAssumption DEF RateInv, Ticks
<1>2. now \div Minute \in Nat
  BY <1>1
<1>3. lastMinute' \in Nat
  BY <1>2 DEF AdmitSystem, currentMinute
<1>4. eventsThisMinute' \in 0 .. MaxPerMinute
  BY <1>1 DEF AdmitSystem, SystemTooFast, RateInv
<1>5. UNCHANGED <<recent_event_ticks, evt_tick_idx, accepted>>
  BY DEF AdmitSystem
<1> QED
  BY <1>3, <1>4, <1>5 DEF RateInv, RingInv, Attempt, BurstLimited

(* A tick makes what is in the ring and what was let through older alike. *)
LEMMA TickRate ==
  ASSUME RateInv, Tick
  PROVE  RateInv'
<1> DEFINE L == Len(accepted)
<1> DEFINE gone == {i \in DOMAIN accepted : accepted[i] + 1 = Second} \cup {0}
<1> DEFINE old == Max(gone)
<1>1. /\ L \in Nat /\ DOMAIN accepted = 1 .. L /\ L <= RingSize - 1
      /\ \A i \in 1 .. L : accepted[i] \in 0 .. Second - 1
  BY AcceptedType
<1>2. /\ now' = (now + 1) % TickMod
      /\ accepted' = [i \in 1 .. L - old |-> accepted[old + i] + 1]
      /\ UNCHANGED <<recent_event_ticks, evt_tick_idx, lastMinute, eventsThisMinute>>
  BY DEF Tick
<1>3. old \in gone /\ \A i \in gone : old >= i
  <2>1. gone \in SUBSET Nat /\ gone # {} /\ \A i \in gone : i <= L
    BY <1>1
  <2> HIDE DEF gone
  <2>2. \E x \in gone : \A y \in gone : x >= y
    BY <1>1, <2>1, LargestNat
  <2> QED
    BY <2>2 DEF Max
<1>a. gone \subseteq 0 .. L /\ \A i \in 1 .. L : accepted[i] + 1 = Second => i \in gone
  BY <1>1
<1> HIDE DEF L, gone, old
<1>4. old \in 0 .. L /\ \A i \in 1 .. L : i > old => accepted[i] + 1 # Second
  BY <1>1, <1>3, <1>a
<1>5. \A i \in 1 .. L - old : old + i \in 1 .. L /\ old + i > old
  BY <1>1, <1>4
<1>6. \A i \in 1 .. L - old : accepted[old + i] + 1 \in 0 .. Second - 1
  BY <1>1, <1>4, <1>5, RateAssumption
<1>7. L - old \in Nat
  BY <1>1, <1>4
<1>8. /\ accepted' \in Seq(0 .. Second - 1) /\ Len(accepted') = L - old
      /\ DOMAIN accepted' = 1 .. L - old
      /\ \A i \in 1 .. L - old : accepted'[i] = accepted[old + i] + 1
  <2>1. accepted' \in [1 .. L - old -> 0 .. Second - 1]
    BY <1>2, <1>6
  <2>2. accepted' \in Seq(0 .. Second - 1) /\ Len(accepted') = L - old /\ DOMAIN accepted' = 1 .. L - old
    BY <1>7, <2>1, FunctionIsSeq, Zenon
  <2> QED
    BY <1>2, <2>2
<1>9. ASSUME NEW b \in 1 .. L - old
      PROVE  (now' - Attempt(b)') % TickMod <= accepted'[(L - old) + 1 - b]
  <2>1. b \in 1 .. L /\ (L - old) + 1 - b \in 1 .. L - old /\ old + ((L - old) + 1 - b) = L + 1 - b
    BY <1>1, <1>4
  <2>2. L + 1 - b \in 1 .. L /\ b \in 1 .. RingSize - 1
    BY <1>1, <2>1, RateAssumption
  <2>3. (now - Attempt(b)) % TickMod <= accepted[L + 1 - b]
    BY <2>1 DEF RateInv, RingInv, L
  <2>4. accepted'[(L - old) + 1 - b] = accepted[L + 1 - b] + 1
    BY <1>8, <2>1
  <2>5. (evt_tick_idx - b) % RingSize \in 0 .. RingSize - 1
    BY <2>2, RingFacts DEF RateInv
  <2>6. Attempt(b)' = Attempt(b) /\ Attempt(b) \in Ticks
    BY <1>2, <2>5 DEF Attempt, RateInv
  <2>7. /\ (now - Attempt(b)) % TickMod \in Ticks
        /\ (now' - Attempt(b)) % TickMod <= ((now - Attempt(b)) % TickMod) + 1
        /\ (now' - Attempt(b)) % TickMod \in Ticks
    <3>1. now \in Ticks /\ now' \in Ticks
      BY <1>2, TickFacts DEF RateInv
    <3> QED
      BY <1>2, <2>6, <3>1, TickFacts
  <2>8. accepted[L + 1 - b] \in Int
    BY <1>1, <2>2
  <2> QED
    BY <2>3, <2>4, <2>6, <2>7, <2>8, TickAssumption DEF Ticks
<1>10. ASSUME NEW i \in 1 .. L - old, NEW j \in 1 .. L - old, i <= j
       PROVE  accepted'[j] <= accepted'[i]
  <2>1. old + i \in 1 .. L /\ old + j \in 1 .. L /\ old + i <= old + j
    BY <1>1, <1>4, <1>5, <1>10
  <2>2. accepted[old + j] <= accepted[old + i]
    BY <1>1, <2>1 DEF RateInv, RingInv
  <2> QED
    BY <1>1, <1>8, <2>1, <2>2
<1>11. L - old <= RingSize - 1
  BY <1>1, <1>4, RateAssumption
<1>12. RingInv'
  BY <1>8, <1>9, <1>10, <1>11 DEF RingInv, BurstLimited
<1>13. now' \in Ticks
  BY <1>2, TickFacts DEF RateInv
<1> QED
  BY <1>2, <1>8, <1>12, <1>13 DEF RateInv

-----------------------------------------------------------------------------
(* The event loop and the link.                                             *)

LinkInv ==
  /\ now \in Ticks /\ lag \in 0 .. MaxLag /\ connected \in BOOLEAN /\ updating \in BOOLEAN
  /\ last_message_millis \in Ticks /\ expecting_ping_ack \in BOOLEAN
  /\ last_ack_handlers_update \in Ticks /\ expectingResponse \in BOOLEAN
  /\ age \in [Handlers -> Nat]
  /\ PingInv /\ LoopInv

(* The invariant in three parts, of which most actions change one or two. *)
LEMMA Parts == IInv <=> MapInv /\ RateInv /\ LinkInv
BY DEF IInv, TypeOK, MapInv, RateInv, LinkInv

(* What does not concern the link. *)
LEMMA LinkKept ==
  ASSUME LinkInv, UNCHANGED <<pvars, svars, tvars>>,
         pos' # 0 => pos # 0 /\ pos' <= Len(handlers') + 1
  PROVE  LinkInv'
<1>1. UNCHANGED <<now, lag, connected, updating, last_message_millis, expecting_ping_ack,
                  last_ack_handlers_update, expectingResponse, age>>
  BY DEF pvars, svars, tvars
<1>2. PingInv'
  BY <1>1 DEF LinkInv, PingInv, Elapsed
<1>3. LoopInv'
  BY <1>1 DEF LinkInv, LoopInv
<1> QED
  BY <1>1, <1>2, <1>3 DEF LinkInv

(* A message is heard. *)
LEMMA HeardPing ==
  ASSUME LinkInv, Heard, now' = now, lag' \in 0 .. MaxLag
  PROVE  PingInv' /\ last_message_millis' \in Ticks /\ expecting_ping_ack' \in BOOLEAN
<1>1. last_message_millis' = now /\ expecting_ping_ack' = FALSE /\ now \in Ticks
  BY DEF Heard, LinkInv
<1>2. Elapsed' = 0
  BY <1>1, TickFacts DEF Elapsed
<1>3. Silence \in Nat /\ lag' \in Nat
  BY TimeAssumption, TickAssumption DEF Silence
<1>a. \A x, y \in Nat : 0 <= x + y
  OBVIOUS
<1>4. 0 <= lag' + Silence
  BY <1>3, <1>a, Zenon
<1>5. PingInv'
  BY <1>1, <1>2, <1>4 DEF PingInv, Silence
<1> QED
  BY <1>1, <1>5

LEMMA HeardLink ==
  ASSUME LinkInv, Heard, pos' = 0, connected' = connected, updating' \in BOOLEAN,
         UNCHANGED <<tvars, last_ack_handlers_update>>, expectingResponse' \in BOOLEAN
  PROVE  LinkInv'
<1>1. UNCHANGED <<now, lag, age>>
  BY DEF tvars
<1>2. PingInv' /\ last_message_millis' \in Ticks /\ expecting_ping_ack' \in BOOLEAN
  BY <1>1, HeardPing DEF LinkInv
<1>3. LoopInv'
  BY <1>1 DEF LinkInv, LoopInv
<1> QED
  BY <1>1, <1>2, <1>3 DEF LinkInv

LEMMA ConnectLink ==
  ASSUME LinkInv, Connect
  PROVE  LinkInv'
<1>1. /\ connected' = TRUE /\ lag' = 0 /\ updating' = FALSE /\ expectingResponse' = FALSE
      /\ last_ack_handlers_update' = now /\ Heard /\ UNCHANGED <<now, age>> /\ pos' = pos
      /\ ~connected
  BY DEF Connect, clear
<1>2. 0 \in 0 .. MaxLag
  BY TimeAssumption, TickAssumption
<1>3. PingInv' /\ last_message_millis' \in Ticks /\ expecting_ping_ack' \in BOOLEAN
  BY <1>1, <1>2, HeardPing
<1>4. (now - now) % TickMod = 0
  BY TickFacts DEF LinkInv
<1>5. LoopInv'
  BY <1>1, <1>4 DEF LinkInv, LoopInv
<1> QED
  BY <1>1, <1>2, <1>3, <1>5 DEF LinkInv

(* A turn of the event loop: an answer that was expected is no longer, a    *)
(* ping is sent, or the link was not silent for long.                       *)
LEMMA EventLoopLink ==
  ASSUME HandlersTypeOK, LinkInv, EventLoop
  PROVE  LinkInv'
<1>1. /\ connected /\ pos = 0 /\ event_loop_idle /\ last_ack_handlers_update' = now /\ lag' = 0
      /\ UNCHANGED <<connected, updating, expectingResponse, now, age>>
      /\ pos' \in {0, 1} /\ handlers' = handlers
  BY DEF EventLoop, update, hvars
<1>2. /\ now \in Ticks /\ last_message_millis \in Ticks /\ lag \in 0 .. MaxLag
      /\ MaxLag \in Nat /\ ping_interval \in Nat
  BY TimeAssumption, TickAssumption DEF LinkInv
<1>3. Elapsed \in Nat /\ (now - now) % TickMod = 0
  BY <1>2, TickFacts, TickAssumption DEF Elapsed, Ticks
<1>4. last_message_millis' \in Ticks /\ expecting_ping_ack' \in BOOLEAN
  BY <1>1, <1>2 DEF event_loop_idle, pvars, LinkInv
<1>5. PingInv'
  <2> SUFFICES ASSUME ~updating, ping_interval # 0
               PROVE  Elapsed' <= IF expecting_ping_ack' THEN 0 ELSE Silence
    BY <1>1, <1>2, <1>3 DEF PingInv, Silence
  <2>1. CASE expecting_ping_ack
    <3>1. expecting_ping_ack' = FALSE /\ last_message_millis' = last_message_millis
      BY <1>1, <2>1 DEF event_loop_idle
    <3>2. Elapsed <= lag
      BY <1>1, <1>2, <2>1 DEF LinkInv, PingInv
    <3>3. Elapsed' = Elapsed
      BY <1>1, <3>1 DEF Elapsed
    <3> QED
      BY <1>2, <1>3, <3>1, <3>2, <3>3 DEF Silence
  <2>2. CASE ~expecting_ping_ack /\ ping_interval < Elapsed
    <3>1. expecting_ping_ack' = TRUE /\ last_message_millis' = now
      BY <1>1, <2>2 DEF event_loop_idle
    <3>2. Elapsed' = 0
      BY <1>1, <1>3, <3>1 DEF Elapsed
    <3> QED
      BY <3>1, <3>2
  <2>3. CASE ~expecting_ping_ack /\ ~(ping_interval < Elapsed)
    <3>1. expecting_ping_ack' = FALSE /\ last_message_millis' = last_message_millis
      BY <1>1, <2>3 DEF event_loop_idle, pvars, LinkInv
    <3>2. Elapsed' = Elapsed
      BY <1>1, <3>1 DEF Elapsed
    <3> QED
      BY <1>2, <1>3, <2>3, <3>1, <3>2 DEF Silence
  <2> QED
    BY <2>1, <2>2, <2>3
<1>6. Len(handlers) \in Nat
  BY EntryType
<1>7. LoopInv'
  BY <1>1, <1>3, <1>6 DEF LoopInv
<1>8. 0 \in 0 .. MaxLag
  BY <1>2
<1> QED
  BY <1>1, <1>4, <1>5, <1>7, <1>8 DEF LinkInv

LEMMA TickLink ==
  ASSUME LinkInv, Tick
  PROVE  LinkInv'
<1>1. /\ pos = 0 /\ lag < MaxLag /\ now' = (now + 1) % TickMod
      /\ lag' = IF connected THEN lag + 1 ELSE 0
      /\ age' = [h \in Handlers |-> IF h \in Waiting THEN age[h] + 1 ELSE age[h]]
      /\ UNCHANGED <<pos, connected, updating, last_ack_handlers_update, expectingResponse,
                     last_message_millis, expecting_ping_ack>>
  BY DEF Tick, hvars, svars
<1>2. /\ now \in Ticks /\ last_message_millis \in Ticks /\ last_ack_handlers_update \in Ticks
      /\ lag \in 0 .. MaxLag /\ MaxLag \in 1 .. TickMod - 2 /\ ping_interval \in Nat
  BY TimeAssumption DEF LinkInv
<1>3. lag' \in 0 .. MaxLag /\ now' \in Ticks
  BY <1>1, <1>2, TickFacts, TickAssumption
<1>4. age' \in [Handlers -> Nat]
  <2>1. \A h \in Handlers : age[h] \in Nat /\ age[h] + 1 \in Nat
    BY DEF LinkInv
  <2> QED
    BY <1>1, <2>1, Zenon
<1>5. PingInv'
  <2> DEFINE bound == IF expecting_ping_ack THEN 0 ELSE Silence
  <2> SUFFICES ASSUME connected, ~updating, ping_interval # 0
               PROVE  Elapsed' <= lag' + bound
    BY <1>1 DEF PingInv, Silence
  <2>1. Elapsed' <= Elapsed + 1 /\ Elapsed \in Nat /\ Elapsed' \in Nat
    <3>1. /\ (now' - last_message_millis) % TickMod <= ((now - last_message_millis) % TickMod) + 1
          /\ (now - last_message_millis) % TickMod \in Ticks
      BY <1>1, <1>2, TickFacts
    <3>2. (now' - last_message_millis) % TickMod \in Ticks
      BY <1>2, <1>3, TickFacts
    <3> QED
      BY <1>1, <3>1, <3>2, TickAssumption DEF Elapsed, Ticks
  <2>2. Elapsed <= lag + bound
    BY DEF LinkInv, PingInv
  <2>3. bound \in Nat
    BY <1>2, TickAssumption DEF Silence
  <2> HIDE DEF bound
  <2> QED
    BY <1>1, <1>2, <2>1, <2>2, <2>3
<1>6. LoopInv'
  <2> SUFFICES ASSUME connected
               PROVE  (now' - last_ack_handlers_update) % TickMod = lag + 1
    BY <1>1 DEF LoopInv
  <2>1. (now - last_ack_handlers_update) % TickMod = lag
    BY DEF LinkInv, LoopInv
  <2>2. lag < TickMod - 1
    BY <1>2, TickAssumption
  <2> QED
    BY <1>1, <1>2, <2>1, <2>2, TickFacts
<1> QED
  BY <1>1, <1>2, <1>3, <1>4, <1>5, <1>6 DEF LinkInv

-----------------------------------------------------------------------------
(* The theorems about completion, bursts and pings.                         *)

LEMMA InitIInv == Init => IInv
<1> SUFFICES ASSUME Init PROVE MapInv /\ RateInv /\ LinkInv
  BY Parts
<1>1. 0 \in Ticks /\ MAX_TIMEOUT \in Ticks /\ (-Second) % TickMod \in Ticks
  <2>1. TickMod \in Nat \ {0} /\ Second \in Nat
    BY TickAssumption, RateAssumption
  <2>2. (-Second) % TickMod \in 0 .. TickMod - 1
    BY <2>1
  <2> QED
    BY <2>2, TickAssumption DEF Ticks, MAX_TIMEOUT
<1>2. MapInv
  <2>1. /\ handlers = <<>> /\ timeoutTicks = MAX_TIMEOUT /\ ticks = 0 /\ pos = 0 /\ calling = FALSE
        /\ outcome = [h \in Handlers |-> <<>>]
        /\ waited = [h \in Handlers |-> 0] /\ timeout = [h \in Handlers |-> 0]
    BY DEF Init, HandlersInit
  <2>2. <<>> \in Seq(Entry) /\ <<>> \in Seq(Outcomes) /\ Len(<<>>) = 0
    OBVIOUS
  <2>3. HandlersTypeOK
    BY <1>1, <2>1, <2>2 DEF HandlersTypeOK, Entry, Outcomes
  <2>4. OnceInv
    BY <2>1, <2>2 DEF OnceInv
  <2> QED
    BY <2>3, <2>4 DEF MapInv
<1>3. RateInv
  <2>1. /\ accepted = <<>> /\ now \in Ticks /\ evt_tick_idx = 0 /\ lastMinute = 0 /\ eventsThisMinute = 0
        /\ recent_event_ticks = [i \in 0 .. RingSize - 1 |-> (-Second) % TickMod]
    BY DEF Init
  <2>2. accepted \in Seq(0 .. Second - 1) /\ Len(accepted) = 0
    BY <2>1
  <2>3. 0 \in 0 .. RingSize - 1 /\ 0 \in 0 .. MaxPerMinute /\ 0 <= RingSize - 1
    BY RateAssumption
  <2>4. RingInv
    BY <2>1, <2>2, <2>3 DEF RingInv, BurstLimited
  <2>5. recent_event_ticks \in [0 .. RingSize - 1 -> Ticks]
    BY <1>1, <2>1
  <2> QED
    BY <2>1, <2>2, <2>3, <2>4, <2>5 DEF RateInv
<1>4. LinkInv
  <2>1. 0 \in 0 .. MaxLag /\ 0 \in Ticks
    BY TimeAssumption, TickAssumption DEF Ticks
  <2> QED
    BY <2>1 DEF Init, HandlersInit, LinkInv, PingInv, LoopInv
<1> QED
  BY <1>2, <1>3, <1>4

(* What the map's invariant says of a handler the application may publish   *)
(* an event with.                                                           *)
LEMMA PublishStep ==
  ASSUME MapInv, RateInv, LinkInv, Publish
  PROVE  MapInv' /\ RateInv' /\ LinkInv'
<1>1. PICK h \in Handlers : \/ PublishBusy(h) \/ PublishRefused(h) \/ PublishFails(h) \/ PublishNoAck(h)
                            \/ \E key \in Keys : PublishWithAck(h, key)
  BY DEF Publish
<1>2. /\ outcome[h] = <<>> /\ h \notin Waiting
      /\ UNCHANGED <<pvars, svars, tvars>>
  BY <1>1 DEF PublishBusy, PublishRefused, PublishFails, PublishNoAck, PublishWithAck, MayPublish
<1>3. MapInv' /\ pos' = pos /\ Len(handlers') \in {Len(handlers), Len(handlers) + 1}
  <2>1. CASE \E error \in Outcomes : Finish(h, error)
    BY <1>2, <2>1, FinishMap DEF Finish
  <2>2. CASE \E key \in Keys : addHandler(key, h, SEND_EVENT_ACK_TIMEOUT)
    <3>1. PICK key \in Keys : addHandler(key, h, SEND_EVENT_ACK_TIMEOUT)
      BY <2>2
    <3>2. SEND_EVENT_ACK_TIMEOUT \in Nat
      BY TimeAssumption, TickAssumption
    <3>3. MapInv'
      BY <1>2, <3>1, <3>2, AddMap
    <3>4. handlers \in Seq(Entry)
      BY EntryType DEF MapInv
    <3>5. Len(handlers') = Len(handlers) + 1 /\ pos' = pos
      BY <3>1, <3>4 DEF addHandler
    <3> QED
      BY <3>3, <3>5
  <2> QED
    BY <1>1, <2>1, <2>2
       DEF PublishBusy, PublishRefused, PublishFails, PublishNoAck, PublishWithAck, Outcomes
<1>4. RateInv'
  <2>0. now' = now
    BY <1>2 DEF tvars
  <2>1. \/ UNCHANGED rvars
        \/ TakePlace /\ UNCHANGED accepted
        \/ Admit \/ AdmitSystem
    BY <1>1 DEF PublishBusy, PublishRefused, PublishFails, PublishNoAck, PublishWithAck, Refuse
  <2>2. CASE UNCHANGED rvars
    BY <2>0, <2>2 DEF rvars, RateInv, RingInv, Attempt, BurstLimited
  <2> QED
    BY <2>0, <2>1, <2>2, AdmitRate, SystemRate, RefuseRate
<1>5. LinkInv'
  <2>1. Len(handlers) \in Nat /\ pos \in Nat
    BY EntryType DEF MapInv, HandlersTypeOK
  <2>2. pos' # 0 => pos # 0 /\ pos' <= Len(handlers') + 1
    BY <1>3, <2>1 DEF LinkInv, LoopInv
  <2> QED
    BY <1>2, <2>2, LinkKept
<1> QED
  BY <1>3, <1>4, <1>5

LEMMA UpdateSteps ==
  ASSUME MapInv, RateInv, LinkInv, UpdateStep
  PROVE  MapInv' /\ RateInv' /\ LinkInv'
<1>1. UNCHANGED <<rvars, pvars, svars, tvars>>
  BY DEF UpdateStep
<1>2. RateInv'
  BY <1>1 DEF rvars, tvars, RateInv, RingInv, Attempt, BurstLimited
<1>0. handlers \in Seq(Entry) /\ Len(handlers) \in Nat /\ DOMAIN handlers = 1 .. Len(handlers) /\ pos \in Nat
  BY EntryType DEF MapInv, HandlersTypeOK
<1>3. MapInv' /\ (pos' # 0 => pos # 0 /\ pos' <= Len(handlers') + 1)
  <2>1. CASE UpdateExpire
    <3>1. pos \in 1 .. Len(handlers) /\ Len(handlers') = Len(handlers) - 1 /\ pos' = pos
      BY <2>1, ExpireFacts
    <3>2. pos' <= Len(handlers') + 1 /\ pos # 0
      BY <1>0, <3>1
    <3> QED
      BY <2>1, <3>2, ExpireMap
  <2>2. CASE UpdateKeep
    <3>1. pos \in DOMAIN handlers /\ Len(handlers') = Len(handlers) /\ pos' = pos + 1
      BY <2>2, KeepFacts
    <3>2. pos' <= Len(handlers') + 1 /\ pos # 0
      BY <1>0, <3>1
    <3> QED
      BY <2>2, <3>2, KeepMap
  <2>3. CASE UpdateEnd
    BY <2>3, EndMap DEF UpdateEnd
  <2> QED
    BY <2>1, <2>2, <2>3 DEF UpdateStep
<1>4. LinkInv'
  BY <1>1, <1>3, LinkKept
<1> QED
  BY <1>2, <1>3, <1>4

LEMMA StepIInv == IInv /\ [Next]_vars => IInv'
<1> SUFFICES ASSUME MapInv, RateInv, LinkInv, [Next]_vars
             PROVE  MapInv' /\ RateInv' /\ LinkInv'
  BY DEF IInv, TypeOK, MapInv, RateInv, LinkInv
<1>1. UNCHANGED <<rvars, now>> => RateInv'
  BY DEF rvars, RateInv, RingInv, Attempt, BurstLimited
<1>2. UNCHANGED hvars => MapInv'
  BY DEF hvars, MapInv, HandlersTypeOK, OnceInv
<1>3. CASE Publish
  BY <1>3, PublishStep
<1>4. CASE UpdateStep
  BY <1>4, UpdateSteps
<1>5. CASE TimeResponse
  BY <1>1, <1>2, <1>5, HeardLink DEF TimeResponse, hvars, tvars, LinkInv
<1>6. CASE FirmwareUpdate
  BY <1>1, <1>2, <1>6, HeardLink DEF FirmwareUpdate, hvars, tvars, LinkInv
<1>7. CASE send_time_request
  <2>1. /\ UNCHANGED <<hvars, rvars, pvars, tvars, connected, updating, last_ack_handlers_update>>
        /\ pos = 0 /\ expectingResponse' = TRUE
    BY <1>7 DEF send_time_request
  <2>2. PingInv' /\ LoopInv'
    BY <2>1 DEF LinkInv, PingInv, Elapsed, LoopInv, hvars, pvars, tvars
  <2>3. LinkInv'
    BY <2>1, <2>2 DEF LinkInv, pvars, tvars
  <2> QED
    BY <1>1, <1>2, <2>1, <2>3 DEF tvars
<1>8. CASE EventLoop
  <2>1. update((now - last_ack_handlers_update) % TickMod) /\ UNCHANGED <<rvars, now>>
    BY <1>8 DEF EventLoop
  <2>2. (now - last_ack_handlers_update) % TickMod \in Nat
    BY TickFacts, TickAssumption DEF LinkInv, Ticks
  <2>3. MapInv'
    BY <2>1, <2>2, UpdateMap
  <2> QED
    BY <1>1, <1>8, <2>1, <2>3, EventLoopLink DEF MapInv
<1>9. ASSUME NEW key \in Keys, NEW e \in {"NONE", "NACK"}, Acknowledge(key, e)
      PROVE  MapInv' /\ RateInv' /\ LinkInv'
  <2>1. /\ pos = 0 /\ takeHandler(key, e) /\ Heard /\ UNCHANGED <<rvars, svars, tvars>>
        /\ e \in Outcomes
    BY <1>9 DEF Acknowledge, Outcomes
  <2>2. MapInv' /\ pos' = 0
    BY <2>1, TakeMap DEF takeHandler
  <2>3. LinkInv'
    BY <2>1, <2>2, HeardLink DEF svars, LinkInv
  <2> QED
    BY <1>1, <2>1, <2>2, <2>3 DEF tvars
<1>10. ASSUME NEW broken \in BOOLEAN, Disconnect(broken)
       PROVE  MapInv' /\ RateInv' /\ LinkInv'
  <2>1. /\ pos = 0 /\ connected' = FALSE
        /\ UNCHANGED <<hvars, rvars, pvars, tvars, updating, last_ack_handlers_update, expectingResponse>>
    BY <1>10 DEF Disconnect
  <2>2. PingInv' /\ LoopInv'
    BY <2>1 DEF PingInv, LoopInv, hvars
  <2>3. LinkInv'
    BY <2>1, <2>2 DEF LinkInv, pvars, tvars
  <2> QED
    BY <1>1, <1>2, <2>1, <2>3 DEF tvars
<1>11. CASE Connect
  <2>1. clear /\ UNCHANGED <<rvars, now>>
    BY <1>11 DEF Connect
  <2> QED
    BY <1>1, <1>11, <2>1, ClearMap, ConnectLink
<1>12. CASE Tick
  <2>1. UNCHANGED hvars
    BY <1>12 DEF Tick
  <2> QED
    BY <1>2, <1>12, <2>1, TickRate, TickLink
<1>13. CASE UNCHANGED vars
  <2>1. UNCHANGED <<hvars, rvars, pvars, svars, tvars>> /\ pos' = pos /\ handlers' = handlers
    BY <1>13 DEF vars, hvars
  <2>2. pos' # 0 => pos # 0 /\ pos' <= Len(handlers') + 1
    BY <2>1 DEF LinkInv, LoopInv
  <2> QED
    BY <1>1, <1>2, <2>1, <2>2, LinkKept DEF tvars
<1> QED
  BY <1>3, <1>4, <1>5, <1>6, <1>7, <1>8, <1>9, <1>10, <1>11, <1>12, <1>13 DEF Next

(* The invariant holds in every session, however long it lasts. *)
THEOREM Invariance == Spec => []IInv
BY InitIInv, StepIInv, PTL DEF Spec

(* The callback of an event is called once, and not while it waits. *)
THEOREM CallbackCalledOnce == Spec => []CompletedOnce
<1>1. IInv => CompletedOnce
  <2> SUFFICES ASSUME IInv, NEW h \in Handlers
               PROVE  Len(outcome[h]) <= IF h \in Waiting THEN 0 ELSE 1
    BY DEF CompletedOnce
  <2>1. CASE h \in Waiting
    <3>1. outcome[h] = <<>> /\ Len(<<>>) = 0
      BY <2>1 DEF IInv, OnceInv, Waiting
    <3> QED
      BY <2>1, <3>1
  <2>2. CASE h \notin Waiting
    BY <2>2 DEF IInv, OnceInv
  <2> QED
    BY <2>1, <2>2
<1> QED
  BY <1>1, Invariance, PTL

(* No second sees more events let through than the ring allows for. *)
THEOREM BurstsLimited == Spec => []BurstLimited
<1>1. IInv => BurstLimited
  BY DEF IInv, RingInv
<1> QED
  BY <1>1, Invariance, PTL

(* A link that is silent for longer than an interval has been probed. *)
THEOREM SilenceIsNoticed == Spec => []SilentLinkIsProbed
<1>1. IInv => SilentLinkIsProbed
  <2> SUFFICES ASSUME IInv, connected, ~updating, ping_interval # 0
               PROVE  Elapsed <= ping_interval + 2 * MaxLag
    BY DEF SilentLinkIsProbed
  <2>1. Elapsed <= lag + (IF expecting_ping_ack THEN 0 ELSE Silence)
    BY DEF IInv, PingInv
  <2>2. lag \in 0 .. MaxLag /\ MaxLag \in Nat /\ ping_interval \in Nat
    BY TimeAssumption, TickAssumption DEF IInv, TypeOK
  <2>3. Elapsed \in Nat
    BY TickFacts, TickAssumption DEF IInv, TypeOK, Elapsed, Ticks
  <2> QED
    BY <2>1, <2>2, <2>3 DEF Silence
<1> QED
  BY <1>1, Invariance, PTL

-----------------------------------------------------------------------------
(* Timeouts.                                                                *)

(* The numbers an entry of the map is compared by. *)
LEMMA DueTypes ==
  ASSUME IInv
  PROVE  /\ SEND_EVENT_ACK_TIMEOUT \in Nat /\ MaxLag \in Nat /\ lag \in 0 .. MaxLag
         /\ ticks \in Nat /\ timeoutTicks \in Nat /\ pos \in Nat
         /\ \A h \in Handlers : waited[h] \in Nat /\ age[h] \in Nat
         /\ \A i \in DOMAIN handlers : /\ i \in Nat /\ handlers[i].id \in Handlers
                                       /\ handlers[i].ticks \in Nat /\ handlers[i].id \in Waiting
<1>1. SEND_EVENT_ACK_TIMEOUT \in Nat /\ MaxLag \in Nat /\ Ticks \in SUBSET Nat
  BY TimeAssumption, TickAssumption DEF Ticks
<1>2. lag \in 0 .. MaxLag /\ ticks \in Nat /\ timeoutTicks \in Nat /\ pos \in Nat
  BY <1>1 DEF IInv, TypeOK, HandlersTypeOK
<1>3. \A h \in Handlers : waited[h] \in Nat /\ age[h] \in Nat
  BY DEF IInv, TypeOK, HandlersTypeOK
<1>4. HandlersTypeOK
  BY DEF IInv, TypeOK
<1>5. \A i \in DOMAIN handlers : /\ i \in Nat /\ handlers[i].id \in Handlers
                                 /\ handlers[i].ticks \in Nat
  <2>1. DOMAIN handlers = 1 .. Len(handlers) /\ Len(handlers) \in Nat
    BY <1>4, EntryType
  <2>2. \A i \in DOMAIN handlers : handlers[i].id \in Handlers /\ handlers[i].ticks \in Ticks
    BY <1>4, EntryType
  <2>3. \A i \in DOMAIN handlers : i \in Nat
    BY <2>1
  <2>4. \A x \in Ticks : x \in Nat
    BY <1>1
  <2> QED
    BY <2>2, <2>3, <2>4
<1>6. \A i \in DOMAIN handlers : handlers[i].id \in Waiting
  BY DEF Waiting
<1> QED
  BY <1>1, <1>2, <1>3, <1>5, <1>6

(* Nothing that the timeouts depend on changes. *)
LEMMA SameDue ==
  ASSUME DueInv, UNCHANGED <<hvars, lag, age>>, connected' => connected
  PROVE  DueInv'
<1>1. UNCHANGED <<handlers, timeoutTicks, ticks, pos, outcome, waited, timeout, lag, age>>
  BY DEF hvars
<1>2. ASSUME NEW i \in DOMAIN handlers PROVE EntryDue(i)'
  <2>1. EntryDue(i)
    BY DEF DueInv
  <2>2. Base(i)' = Base(i)
    BY <1>1 DEF Base
  <2> QED
    BY <1>1, <2>1, <2>2 DEF EntryDue
<1>3. AgeInv'
  BY <1>1 DEF DueInv, AgeInv, Waiting
<1> QED
  BY <1>1, <1>2, <1>3 DEF DueInv

LEMMA FinishDue ==
  ASSUME IInv, DueInv, NEW h \in Handlers, outcome[h] = <<>>, h \notin Waiting,
         NEW error \in Outcomes \ {"TIMEOUT"}, Finish(h, error), UNCHANGED <<lag, age, connected>>
  PROVE  DueInv'
<1>1. /\ outcome' = [g \in Handlers |-> IF g = h THEN Append(outcome[g], error) ELSE outcome[g]]
      /\ UNCHANGED <<handlers, timeoutTicks, ticks, pos, calling, waited, timeout>>
  BY DEF Finish, Complete
<1>2. \A i \in DOMAIN handlers' : EntryDue(i)'
  BY <1>1 DEF DueInv, EntryDue, Base
<1>3. Append(<<>>, error) # <<>> /\ Append(<<>>, error) # <<"TIMEOUT">>
  OBVIOUS
<1>4. AgeInv'
  BY <1>1, <1>3 DEF DueInv, AgeInv, Waiting
<1> QED
  BY <1>2, <1>4 DEF DueInv

LEMMA AddDue ==
  ASSUME IInv, DueInv, NoWrap, NEW key \in Keys, NEW h \in Handlers, outcome[h] = <<>>,
         h \notin Waiting, addHandler(key, h, SEND_EVENT_ACK_TIMEOUT), UNCHANGED <<lag, age, connected>>
  PROVE  DueInv'
<1> DEFINE e == (ticks + SEND_EVENT_ACK_TIMEOUT) % TickMod
<1> DEFINE n == [key |-> key, id |-> h, ticks |-> e]
<1>1. /\ handlers' = Append(handlers, n)
      /\ timeoutTicks' = IF e < timeoutTicks THEN e ELSE timeoutTicks
      /\ timeout' = [timeout EXCEPT ![h] = SEND_EVENT_ACK_TIMEOUT] /\ waited' = [waited EXCEPT ![h] = 0]
      /\ UNCHANGED <<ticks, pos, calling, outcome>>
  BY DEF addHandler
<1>2. /\ SEND_EVENT_ACK_TIMEOUT \in Nat /\ MaxLag \in Nat /\ lag \in 0 .. MaxLag
      /\ ticks \in Nat /\ timeoutTicks \in Nat /\ pos \in Nat
      /\ \A i \in DOMAIN handlers : /\ i \in Nat /\ handlers[i].id \in Handlers
                                    /\ handlers[i].ticks \in Nat /\ handlers[i].id \in Waiting
  BY DueTypes
<1>3. e = ticks + SEND_EVENT_ACK_TIMEOUT /\ SEND_EVENT_ACK_TIMEOUT > 0
  <2>1. \A x \in Nat : x < TickMod => x % TickMod = x
    BY TickAssumption
  <2>2. ticks + SEND_EVENT_ACK_TIMEOUT \in Nat
    BY <1>2
  <2> QED
    BY <1>2, <2>1, <2>2, TimeAssumption DEF NoWrap
<1>4. n.id = h /\ n.ticks = e
  OBVIOUS
<1> HIDE DEF n, e
<1>5. /\ handlers \in Seq(Entry) /\ DOMAIN handlers = 1 .. Len(handlers) /\ Len(handlers) \in Nat
      /\ waited \in [Handlers -> Nat] /\ timeout \in [Handlers -> Nat]
  BY EntryType DEF IInv, TypeOK, HandlersTypeOK
<1>6. /\ DOMAIN handlers' = 1 .. Len(handlers) + 1 /\ handlers'[Len(handlers) + 1] = n
      /\ \A i \in DOMAIN handlers : handlers'[i] = handlers[i]
  BY <1>1, <1>5
<1>7. ASSUME NEW i \in DOMAIN handlers PROVE EntryDue(i)'
  <2>1. /\ handlers[i].id # h /\ handlers[i].id \in Handlers
        /\ waited'[handlers[i].id] = waited[handlers[i].id]
        /\ timeout'[handlers[i].id] = timeout[handlers[i].id]
    BY <1>1, <1>2, <1>5
  <2>2. timeoutTicks <= handlers[i].ticks => timeoutTicks' <= handlers[i].ticks
    <3>1. e \in Nat /\ handlers[i].ticks \in Nat
      BY <1>2, <1>3
    <3> QED
      BY <1>1, <1>2, <3>1
  <2>3. EntryDue(i)
    BY DEF DueInv
  <2> QED
    BY <1>1, <1>6, <2>1, <2>2, <2>3 DEF EntryDue, Base
<1>8. ASSUME NEW i \in DOMAIN handlers', i = Len(handlers) + 1 PROVE EntryDue(i)'
  <2>1. /\ waited'[h] = 0 /\ timeout'[h] = SEND_EVENT_ACK_TIMEOUT
    BY <1>1, <1>5
  <2>2. ~(i < pos)
    BY <1>2, <1>5, <1>8 DEF IInv, LoopInv
  <2>3. age[h] = 0
    BY DEF DueInv, AgeInv
  <2>4. timeoutTicks' <= e
    BY <1>1, <1>2, <1>3
  <2>5. /\ e - ticks = SEND_EVENT_ACK_TIMEOUT - 0 /\ e > ticks
        /\ 0 <= 0 + lag /\ 0 + lag <= 0 + MaxLag
    BY <1>2, <1>3
  <2>6. Base(i)' = ticks
    BY <1>1, <2>2 DEF Base
  <2>7. handlers'[i].id = h /\ handlers'[i].ticks = e
    BY <1>4, <1>6, <1>8
  <2> QED
    BY <2>1, <2>3, <2>4, <2>5, <2>6, <2>7 DEF EntryDue
<1>9. \A g \in Waiting : g \in Waiting'
  BY <1>5, <1>6 DEF Waiting
<1>10. AgeInv'
  <2>1. UNCHANGED <<outcome, age>>
    BY <1>1
  <2> QED
    BY <1>9, <2>1 DEF DueInv, AgeInv
<1>11. \A i
 \in DOMAIN handlers' : i \in DOMAIN handlers \/ i = Len(handlers) + 1
  BY <1>5, <1>6
<1> QED
  BY <1>7, <1>8, <1>10, <1>11 DEF DueInv

LEMMA TakeDue ==
  ASSUME IInv, DueInv, NEW key \in Keys, NEW error \in Outcomes \ {"TIMEOUT"}, pos = 0,
         takeHandler(key, error), UNCHANGED <<lag, age, connected>>
  PROVE  DueInv'
<1>0. MapInv
  BY Parts
<1>1. /\ handlers' \in Seq(Entry)
      /\ timeoutTicks' = Nearest(handlers')
      /\ ticks' # ticks => handlers' = <<>>
      /\ UNCHANGED <<pos, calling, waited, timeout>>
      /\ \A i \in DOMAIN handlers' : \E j \in DOMAIN handlers : handlers'[i] = handlers[j]
  BY <1>0, TakeFacts
<1>2. /\ \A h \in Handlers : h \notin Waiting => outcome'[h] = outcome[h]
      /\ \A h \in Handlers : h \notin Waiting' => h \notin Waiting \/ outcome'[h] # <<>>
  BY <1>0, TakeFacts
<1>3. \A i \in DOMAIN handlers' : timeoutTicks' <= handlers'[i].ticks
  BY <1>1, NearestFacts
<1>4. ASSUME NEW i \in DOMAIN handlers' PROVE EntryDue(i)'
  <2>1. PICK j \in DOMAIN handlers : handlers'[i] = handlers[j]
    BY <1>1
  <2>2. EntryDue(j)
    BY DEF DueInv
  <2>3. ticks' = ticks
    BY <1>1
  <2>4. i \in Nat /\ j \in Nat
    BY <1>1, DueTypes
  <2> QED
    BY <1>1, <1>3, <2>1, <2>2, <2>3, <2>4 DEF EntryDue, Base
<1>5. ASSUME NEW h \in Handlers PROVE outcome'[h] = <<"TIMEOUT">> => outcome[h] = <<"TIMEOUT">>
  <2>1. CASE h \notin Waiting
    BY <1>2, <2>1
  <2>2. CASE h \in Waiting
    <3>1. outcome[h] = <<>>
      BY <2>2 DEF IInv, OnceInv, Waiting
    <3>2. outcome'[h] \in {Append(outcome[h], "INTERNAL"), Append(outcome[h], error), outcome[h]}
      BY DEF takeHandler
    <3>3. Append(<<>>, error) # <<"TIMEOUT">> /\ Append(<<>>, "INTERNAL") # <<"TIMEOUT">>
      OBVIOUS
    <3> QED
      BY <3>1, <3>2, <3>3
  <2> QED
    BY <2>1, <2>2
<1>6. AgeInv'
  BY <1>2, <1>5 DEF DueInv, AgeInv
<1> QED
  BY <1>4, <1>6 DEF DueInv

LEMMA ClearDue ==
  ASSUME IInv, DueInv, clear, UNCHANGED age
  PROVE  DueInv'
<1>0. MapInv
  BY Parts
<1>1. \A h \in Handlers :
        IF h \in Waiting THEN outcome'[h] = <<"ABORTED">> ELSE outcome'[h] = outcome[h]
  BY <1>0, ClearMap
<1>2. handlers' = <<>> /\ DOMAIN handlers' = {}
  BY DEF clear
<1>3. <<"ABORTED">> # <<>> /\ <<"ABORTED">> # <<"TIMEOUT">>
  OBVIOUS
<1>4. AgeInv'
  BY <1>1, <1>3 DEF DueInv, AgeInv
<1> QED
  BY <1>2, <1>4 DEF DueInv

(* update() counts the time since the event loop last came round. *)
LEMMA UpdateDue ==
  ASSUME IInv, DueInv, NoWrap, connected, update(lag), lag' = 0, UNCHANGED <<age, connected>>
  PROVE  DueInv'
<1>1. /\ lag \in 0 .. MaxLag /\ MaxLag \in Nat /\ ticks \in Nat /\ timeoutTicks \in Nat /\ pos = 0
      /\ \A h \in Handlers : waited[h] \in Nat /\ age[h] \in Nat
      /\ \A i \in DOMAIN handlers : /\ i \in Nat /\ i # 0 /\ handlers[i].id \in Handlers
                                    /\ handlers[i].ticks \in Nat
      /\ SEND_EVENT_ACK_TIMEOUT \in Nat
  <2>1. \A i \in DOMAIN handlers : i # 0
    BY EntryType DEF IInv, TypeOK
  <2> QED
    BY <2>1, DueTypes DEF update
<1>2. CASE handlers = <<>>
  <2>1. UNCHANGED <<handlers, outcome>> /\ DOMAIN handlers' = {}
    BY <1>2 DEF update, hvars
  <2>2. AgeInv'
    BY <2>1 DEF DueInv, AgeInv, Waiting
  <2> QED
    BY <2>1, <2>2 DEF DueInv
<1>3. CASE handlers # <<>>
  <2>1. /\ ticks' = (ticks + lag) % TickMod
        /\ waited' = [h \in Handlers |-> IF \E i \in DOMAIN handlers : handlers[i].id = h
                                         THEN waited[h] + lag ELSE waited[h]]
        /\ IF ticks' >= timeoutTicks
           THEN timeoutTicks' = MAX_TIMEOUT /\ pos' = 1
           ELSE UNCHANGED <<timeoutTicks, pos>>
        /\ UNCHANGED <<handlers, calling, outcome, timeout>>
    BY <1>3 DEF update
  <2>2. ticks' = ticks + lag
    <3>1. \A x \in Nat : x < TickMod => x % TickMod = x
      BY TickAssumption
    <3>2. ticks + lag \in Nat /\ ticks + lag < TickMod
      BY <1>1, TickAssumption DEF NoWrap
    <3> QED
      BY <2>1, <3>1, <3>2
  <2>3. ASSUME NEW i \in DOMAIN handlers PROVE EntryDue(i)'
    <3> DEFINE x == handlers[i].ticks
    <3> DEFINE g == handlers[i].id
    <3>1. g \in Handlers /\ x \in Nat /\ waited[g] \in Nat /\ age[g] \in Nat /\ waited'[g] = waited[g] + lag
      BY <1>1, <2>1
    <3>2. EntryDue(i)
      BY DEF DueInv
    <3>3. Base(i) = ticks /\ Base(i)' = ticks'
      <4>1. ~(i < 0) /\ ~(i < 1)
        BY <1>1
      <4>2. pos' \in {0, 1}
        BY <1>1, <2>1
      <4> QED
        BY <1>1, <4>1, <4>2 DEF Base
    <3>4. /\ timeout[g] = SEND_EVENT_ACK_TIMEOUT /\ x - ticks = SEND_EVENT_ACK_TIMEOUT - waited[g]
          /\ timeoutTicks <= x /\ age[g] <= waited[g] + lag /\ waited[g] + lag <= age[g] + MaxLag
      BY <1>1, <3>2, <3>3 DEF EntryDue
    <3> HIDE DEF x, g
    <3>5. x - ticks' = SEND_EVENT_ACK_TIMEOUT - waited'[g]
      BY <1>1, <2>2, <3>1, <3>4
    <3>6. pos' = 0 \/ i < pos' => x > ticks' /\ timeoutTicks' <= x
      <4>1. CASE ticks' >= timeoutTicks
        <5>1. pos' = 1 /\ ~(i < 1)
          BY <1>1, <2>1, <4>1
        <5> QED
          BY <5>1
      <4>2. CASE ~(ticks' >= timeoutTicks)
        BY <1>1, <2>1, <2>2, <3>1, <3>4, <4>2
      <4> QED
        BY <4>1, <4>2
    <3>7. age[g] <= waited'[g] + 0 /\ waited'[g] + 0 <= age[g] + MaxLag
      BY <1>1, <3>1, <3>4
    <3> QED
      BY <2>1, <3>3, <3>4, <3>5, <3>6, <3>7 DEF EntryDue, x, g
  <2>4. AgeInv'
    BY <2>1 DEF DueInv, AgeInv, Waiting
  <2> QED
    BY <2>1, <2>3, <2>4 DEF DueInv
<1> QED
  BY <1>2, <1>3

(* A handler expires when its timeout has passed, up to one turn of the     *)
(* event loop early.                                                        *)
LEMMA ExpireDue ==
  ASSUME IInv, DueInv, UpdateExpire, UNCHANGED <<lag, age, connected>>
  PROVE  DueInv'
<1>0. MapInv
  BY Parts
<1>1. /\ pos \in 1 .. Len(handlers) /\ ticks >= handlers[pos].ticks
      /\ \A j \in DOMAIN handlers' : /\ j + 1 \in DOMAIN handlers /\ j \in DOMAIN handlers
                                     /\ handlers'[j] = handlers[IF j < pos THEN j ELSE j + 1]
      /\ outcome' = [h \in Handlers |-> IF h = handlers[pos].id THEN <<"TIMEOUT">> ELSE outcome[h]]
      /\ UNCHANGED <<timeoutTicks, ticks, pos, waited, timeout>>
      /\ Waiting = Waiting' \cup {handlers[pos].id}
  BY <1>0, ExpireFacts
<1>2. /\ SEND_EVENT_ACK_TIMEOUT \in Nat /\ MaxLag \in Nat /\ lag \in 0 .. MaxLag
      /\ ticks \in Nat /\ pos \in Nat /\ pos # 0 /\ pos \in DOMAIN handlers
      /\ \A h \in Handlers : waited[h] \in Nat /\ age[h] \in Nat
      /\ \A i \in DOMAIN handlers : /\ i \in Nat /\ handlers[i].id \in Handlers
                                    /\ handlers[i].ticks \in Nat
  <2>1. pos \in DOMAIN handlers /\ pos # 0
    BY <1>1 DEF UpdateExpire
  <2> QED
    BY <2>1, DueTypes
<1>3. connected /\ lag = 0
  BY <1>2 DEF IInv, LoopInv
<1>4. ASSUME NEW j \in DOMAIN handlers' PROVE EntryDue(j)'
  <2> DEFINE k == IF j < pos THEN j ELSE j + 1
  <2>1. k \in DOMAIN handlers /\ handlers'[j] = handlers[k] /\ j \in Nat /\ (k < pos <=> j < pos)
    BY <1>1, <1>2
  <2> HIDE DEF k
  <2>2. EntryDue(k)
    BY <2>1 DEF DueInv
  <2>3. Base(j)' = Base(k)
    BY <1>1, <2>1 DEF Base
  <2> QED
    BY <1>1, <2>1, <2>2, <2>3 DEF EntryDue
<1>5. age[handlers[pos].id] >= SEND_EVENT_ACK_TIMEOUT - MaxLag
  <2> DEFINE x == handlers[pos].ticks
  <2> DEFINE g == handlers[pos].id
  <2>1. g \in Handlers /\ x \in Nat /\ waited[g] \in Nat /\ age[g] \in Nat /\ x <= ticks
    BY <1>1, <1>2
  <2>2. EntryDue(pos)
    BY <1>2 DEF DueInv
  <2>3. x - ticks = SEND_EVENT_ACK_TIMEOUT - waited[g] /\ waited[g] + lag <= age[g] + MaxLag
    BY <1>2, <1>3, <2>2 DEF EntryDue, Base
  <2> HIDE DEF x, g
  <2>4. age[g] >= SEND_EVENT_ACK_TIMEOUT - MaxLag
    BY <1>2, <1>3, <2>1, <2>3
  <2> QED
    BY <2>4 DEF g
<1>6. AgeInv'
  <2> SUFFICES ASSUME NEW h \in Handlers
               PROVE  /\ outcome'[h] = <<>> /\ h \notin Waiting' => age[h] = 0
                      /\ outcome'[h] = <<"TIMEOUT">> => age[h] >= SEND_EVENT_ACK_TIMEOUT - MaxLag
    BY DEF AgeInv
  <2>1. CASE h = handlers[pos].id
    <3>1. outcome'[h] = <<"TIMEOUT">> /\ <<"TIMEOUT">> # <<>>
      BY <1>1, <2>1
    <3> QED
      BY <1>5, <2>1, <3>1
  <2>2. CASE h # handlers[pos].id
    BY <1>1, <2>2 DEF DueInv, AgeInv
  <2> QED
    BY <2>1, <2>2
<1> QED
  BY <1>4, <1>6 DEF DueInv

LEMMA KeepDue ==
  ASSUME IInv, DueInv, UpdateKeep, UNCHANGED <<lag, age, connected>>
  PROVE  DueInv'
<1> DEFINE e == handlers[pos].ticks - ticks
<1>0. MapInv
  BY Parts
<1>1. /\ pos \in DOMAIN handlers /\ e > 0 /\ e \in Ticks
      /\ DOMAIN handlers' = DOMAIN handlers
      /\ \A i \in DOMAIN handlers : /\ handlers'[i].id = handlers[i].id
                                    /\ handlers'[i].ticks = IF i = pos THEN e ELSE handlers[i].ticks
      /\ timeoutTicks' = IF e < timeoutTicks THEN e ELSE timeoutTicks
      /\ pos' = pos + 1
      /\ UNCHANGED <<ticks, outcome, waited, timeout>>
  BY <1>0, KeepFacts
<1>2. /\ SEND_EVENT_ACK_TIMEOUT \in Nat /\ ticks \in Nat /\ timeoutTicks \in Nat /\ pos \in Nat
      /\ \A h \in Handlers : waited[h] \in Nat /\ age[h] \in Nat
      /\ \A i \in DOMAIN handlers : /\ i \in Nat /\ handlers[i].id \in Handlers
                                    /\ handlers[i].ticks \in Nat
  BY DueTypes
<1>3. pos # 0 /\ pos' # 0 /\ e \in Nat
  BY <1>1, <1>2, EntryType, TickAssumption DEF IInv, TypeOK, Ticks
<1>4. EntryDue(pos) /\ ~(pos < pos)
  BY <1>1, <1>2 DEF DueInv
<1>5. e = SEND_EVENT_ACK_TIMEOUT - waited[handlers[pos].id]
  BY <1>4 DEF EntryDue, Base
<1> HIDE DEF e
<1>6. ASSUME NEW i \in DOMAIN handlers PROVE EntryDue(i)'
  <2>1. EntryDue(i)
    BY DEF DueInv
  <2>2. CASE i = pos
    <3>1. Base(i)' = 0
      BY <1>1, <1>2, <2>2 DEF Base
    <3>2. timeoutTicks' <= e /\ e - 0 = e
      BY <1>1, <1>2, <1>3
    <3>3. handlers'[i].ticks = e /\ handlers'[i].id = handlers[i].id
      BY <1>1, <2>2
    <3> QED
      BY <1>1, <1>5, <2>1, <2>2, <3>1, <3>2, <3>3 DEF EntryDue
  <2>3. CASE i # pos
    <3>1. (i < pos') <=> (i < pos)
      BY <1>1, <1>2, <2>3
    <3>2. Base(i)' = Base(i)
      BY <1>1, <3>1 DEF Base
    <3>3. handlers'[i].ticks = handlers[i].ticks /\ handlers'[i].id = handlers[i].id
      BY <1>1, <2>3
    <3>4. timeoutTicks <= handlers[i].ticks => timeoutTicks' <= handlers[i].ticks
      <4>1. handlers[i].ticks \in Nat
        BY <1>2
      <4> QED
        BY <1>1, <1>2, <1>3, <4>1
    <3> QED
      BY <1>1, <1>3, <2>1, <3>1, <3>2, <3>3, <3>4 DEF EntryDue
  <2> QED
    BY <2>2, <2>3
<1>7. \A h \in Waiting : h \in Waiting'
  BY <1>1 DEF Waiting
<1>8. AgeInv'
  <2>1. UNCHANGED <<outcome, age>>
    BY <1>1
  <2> QED
    BY <1>7, <2>1 DEF DueInv, AgeInv
<1> QED
  BY <1>1, <1>6, <1>8 DEF DueInv

LEMMA EndDue ==
  ASSUME IInv, DueInv, UpdateEnd, UNCHANGED <<lag, age, connected>>
  PROVE  DueInv'
<1>1. /\ pos > Len(handlers) /\ ticks' = 0 /\ pos' = 0
      /\ UNCHANGED <<handlers, timeoutTicks, outcome, waited, timeout>>
  BY DEF UpdateEnd
<1>2. \A i \in DOMAIN handlers : i \in Nat /\ i < pos /\ ~(i < 0)
  <2>1. pos \in Nat /\ Len(handlers) \in Nat /\ DOMAIN handlers = 1 .. Len(handlers)
    BY EntryType, DueTypes DEF IInv, TypeOK
  <2> QED
    BY <1>1, <2>1
<1>3. ASSUME NEW i \in DOMAIN handlers PROVE EntryDue(i)'
  <2>1. EntryDue(i)
    BY DEF DueInv
  <2>2. Base(i) = 0 /\ Base(i)' = 0
    BY <1>1, <1>2 DEF Base
  <2> QED
    BY <1>1, <1>2, <2>1, <2>2 DEF EntryDue
<1>4. AgeInv'
  BY <1>1 DEF DueInv, AgeInv, Waiting
<1> QED
  BY <1>1, <1>3, <1>4 DEF DueInv

LEMMA TickDue ==
  ASSUME IInv, DueInv, Tick
  PROVE  DueInv'
<1>1. /\ lag' = IF connected THEN lag + 1 ELSE 0
      /\ age' = [h \in Handlers |-> IF h \in Waiting THEN age[h] + 1 ELSE age[h]]
      /\ UNCHANGED <<handlers, timeoutTicks, ticks, pos, outcome, waited, timeout, connected>>
  BY DEF Tick, hvars, svars
<1>2. /\ SEND_EVENT_ACK_TIMEOUT \in Nat /\ MaxLag \in Nat /\ lag \in 0 .. MaxLag
      /\ \A h \in Handlers : waited[h] \in Nat /\ age[h] \in Nat
      /\ \A i \in DOMAIN handlers : handlers[i].id \in Handlers /\ handlers[i].id \in Waiting
  BY DueTypes
<1>3. ASSUME NEW i \in DOMAIN handlers PROVE EntryDue(i)'
  <2> DEFINE g == handlers[i].id
  <2>1. EntryDue(i)
    BY DEF DueInv
  <2>2. g \in Handlers /\ waited[g] \in Nat /\ age[g] \in Nat /\ age'[g] = age[g] + 1
    BY <1>1, <1>2
  <2>3. connected => age[g] <= waited[g] + lag /\ waited[g] + lag <= age[g] + MaxLag
    BY <2>1 DEF EntryDue
  <2> HIDE DEF g
  <2>4. connected => age'[g] <= waited[g] + lag' /\ waited[g] + lag' <= age'[g] + MaxLag
    BY <1>1, <1>2, <2>2, <2>3
  <2>5. Base(i)' = Base(i)
    BY <1>1 DEF Base
  <2> QED
    BY <1>1, <2>1, <2>4, <2>5 DEF EntryDue, g
<1>4. AgeInv'
  <2> SUFFICES ASSUME NEW h \in Handlers
               PROVE  /\ outcome[h] = <<>> /\ h \notin Waiting => age'[h] = 0
                      /\ outcome[h] = <<"TIMEOUT">> => age'[h] >= SEND_EVENT_ACK_TIMEOUT - MaxLag
    BY <1>1 DEF AgeInv, Waiting
  <2>1. age'[h] \in {age[h], age[h] + 1} /\ (h \notin Waiting => age'[h] = age[h])
    BY <1>1
  <2>2. age'[h] >= age[h] /\ age[h] \in Nat /\ age'[h] \in Nat
    BY <1>2, <2>1
  <2>3. outcome[h] = <<"TIMEOUT">> => age[h] >= SEND_EVENT_ACK_TIMEOUT - MaxLag
    BY DEF DueInv, AgeInv
  <2>4. outcome[h] = <<"TIMEOUT">> => age'[h] >= SEND_EVENT_ACK_TIMEOUT - MaxLag
    BY <1>2, <2>2, <2>3
  <2> QED
    BY <2>1, <2>4 DEF DueInv, AgeInv
<1> QED
  BY <1>1, <1>3, <1>4 DEF DueInv

LEMMA PublishDue ==
  ASSUME IInv, DueInv, NoWrap, Publish
  PROVE  DueInv'
<1>1. PICK h \in Handlers : \/ PublishBusy(h) \/ PublishRefused(h) \/ PublishFails(h) \/ PublishNoAck(h)
                            \/ \E key \in Keys : PublishWithAck(h, key)
  BY DEF Publish
<1>2. outcome[h] = <<>> /\ h \notin Waiting /\ UNCHANGED <<lag, age, connected>>
  BY <1>1 DEF PublishBusy, PublishRefused, PublishFails, PublishNoAck, PublishWithAck, MayPublish,
              svars, tvars
<1>3. CASE \E error \in Outcomes \ {"TIMEOUT"} : Finish(h, error)
  BY <1>2, <1>3, FinishDue
<1>4. CASE \E key \in Keys : addHandler(key, h, SEND_EVENT_ACK_TIMEOUT)
  BY <1>2, <1>4, AddDue
<1> QED
  BY <1>1, <1>3, <1>4
     DEF PublishBusy, PublishRefused, PublishFails, PublishNoAck, PublishWithAck, Outcomes

LEMMA StepDue == IInv /\ DueInv /\ NoWrap /\ [Next]_vars => DueInv'
<1> SUFFICES ASSUME IInv, DueInv, NoWrap, [Next]_vars
             PROVE  DueInv'
  OBVIOUS
<1>1. CASE Publish
  BY <1>1, PublishDue
<1>2. CASE TimeResponse \/ FirmwareUpdate \/ send_time_request \/ (\E broken \in BOOLEAN : Disconnect(broken))
  <2>1. UNCHANGED <<hvars, lag, age>> /\ (connected' => connected)
    BY <1>2 DEF TimeResponse, FirmwareUpdate, send_time_request, Disconnect, tvars
  <2> QED
    BY <2>1, SameDue
<1>3. CASE EventLoop
  <2>1. /\ connected /\ update((now - last_ack_handlers_update) % TickMod) /\ lag' = 0
        /\ UNCHANGED <<age, connected>>
    BY <1>3 DEF EventLoop
  <2>2. (now - last_ack_handlers_update) % TickMod = lag
    BY <2>1 DEF IInv, LoopInv
  <2> QED
    BY <2>1, <2>2, UpdateDue
<1>4. CASE UpdateStep
  <2>1. UNCHANGED <<lag, age, connected>> /\ (UpdateExpire \/ UpdateKeep \/ UpdateEnd)
    BY <1>4 DEF UpdateStep, svars, tvars
  <2> QED
    BY <2>1, ExpireDue, KeepDue, EndDue
<1>5. ASSUME NEW key \in Keys, NEW e \in {"NONE", "NACK"}, Acknowledge(key, e)
      PROVE  DueInv'
  <2>1. /\ pos = 0 /\ takeHandler(key, e) /\ UNCHANGED <<lag, age, connected>>
        /\ e \in Outcomes \ {"TIMEOUT"}
    BY <1>5 DEF Acknowledge, svars, tvars, Outcomes
  <2> QED
    BY <2>1, TakeDue
<1>6. CASE Connect
  BY <1>6, ClearDue DEF Connect
<1>7. CASE Tick
  BY <1>7, TickDue
<1>8. CASE UNCHANGED vars
  BY <1>8, SameDue DEF vars, svars, tvars
<1> QED
  BY <1>1, <1>2, <1>3, <1>4, <1>5, <1>6, <1>7, <1>8 DEF Next

LEMMA InitDue == Init => DueInv
<1> SUFFICES ASSUME Init PROVE DueInv
  OBVIOUS
<1>1. DOMAIN handlers = {} /\ age = [h \in Handlers |-> 0] /\ outcome = [h \in Handlers |-> <<>>]
  BY DEF Init, HandlersInit
<1>2. <<>> # <<"TIMEOUT">>
  OBVIOUS
<1>3. AgeInv
  BY <1>1, <1>2 DEF AgeInv
<1> QED
  BY <1>1, <1>3 DEF DueInv

(* While the map's clock does not wrap, what it says of every timeout is    *)
(* true, before, after and in the middle of update().                       *)
THEOREM MapIsTrue == Spec /\ []NoWrap => []DueInv
BY InitDue, StepDue, Invariance, PTL DEF Spec

(* While the map's clock does not wrap, timeouts are kept to the tick,      *)
(* whatever was added, taken or expired in between.                         *)
THEOREM TimeoutsExact == Spec /\ []NoWrap => []RemainingIsExact
<1>1. IInv /\ DueInv => RemainingIsExact
  <2> SUFFICES ASSUME IInv, DueInv, pos = 0, NEW i \in DOMAIN handlers
               PROVE  /\ handlers[i].ticks - ticks = timeout[handlers[i].id] - waited[handlers[i].id]
                      /\ handlers[i].ticks > ticks
    BY DEF RemainingIsExact
  <2>1. EntryDue(i) /\ i \in Nat /\ ~(i < 0)
    BY DueTypes DEF DueInv
  <2> QED
    BY <2>1 DEF EntryDue, Base
<1> QED
  BY <1>1, Invariance, MapIsTrue, PTL

(* While the map's clock does not wrap, an event times out                  *)
(* SEND_EVENT_ACK_TIMEOUT after it was published, within a turn of the      *)
(* event loop.                                                              *)
THEOREM EventsTimeOutInTime == Spec /\ []NoWrap => []TimesOutInTime
<1>1. IInv /\ DueInv => TimesOutInTime
  <2> SUFFICES ASSUME IInv, DueInv, NEW h \in Handlers
               PROVE  /\ connected /\ pos = 0 /\ h \in Waiting => age[h] <= SEND_EVENT_ACK_TIMEOUT + MaxLag
                      /\ outcome[h] = <<"TIMEOUT">> => age[h] >= SEND_EVENT_ACK_TIMEOUT - MaxLag
    BY DEF TimesOutInTime
  <2>1. ASSUME connected, pos = 0, h \in Waiting
        PROVE  age[h] <= SEND_EVENT_ACK_TIMEOUT + MaxLag
    <3>1. PICK i \in DOMAIN handlers : h = handlers[i].id
      BY <2>1 DEF Waiting
    <3> DEFINE x == handlers[i].ticks
    <3>2. /\ SEND_EVENT_ACK_TIMEOUT \in Nat /\ MaxLag \in Nat /\ lag \in 0 .. MaxLag /\ ticks \in Nat
          /\ waited[h] \in Nat /\ age[h] \in Nat /\ x \in Nat /\ i \in Nat
      BY DueTypes
    <3>3. EntryDue(i) /\ ~(i < 0)
      BY <3>2 DEF DueInv
    <3>4. x - ticks = SEND_EVENT_ACK_TIMEOUT - waited[h] /\ x > ticks /\ age[h] <= waited[h] + lag
      BY <2>1, <3>1, <3>3 DEF EntryDue, Base
    <3> HIDE DEF x
    <3> QED
      BY <3>2, <3>4
  <2> QED
    BY <2>1 DEF DueInv, AgeInv
<1> QED
  BY <1>1, Invariance, MapIsTrue, PTL
=============================================================================
