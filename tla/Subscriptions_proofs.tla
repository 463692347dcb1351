------------------------- MODULE Subscriptions_proofs -------------------------
(***************************************************************************)
(* Proofs about Subscriptions, for every size of the table and of its       *)
(* filters, every set of names and of handlers and every budget.            *)
(***************************************************************************)
EXTENDS Subscriptions, FiniteSetTheorems, FunctionTheorems, WellFoundedInduction, TLAPS

-----------------------------------------------------------------------------
(* What Selected returns, for every finite set of indices.  The operator is *)
(* defined by counting, so these facts follow from the theorems about       *)
(* cardinalities; no induction is needed.                                   *)

(* A set of natural numbers has a smallest element. *)
LEMMA SmallestNat ==
  ASSUME NEW S \in SUBSET Nat, S # {}
  PROVE  \E x \in S : \A y \in S : x <= y
<1>1. PICK x \in S : \A y \in S : ~(<<y, x>> \in OpToRel(<, Nat))
  BY NatLessThanWellFounded, WFMin
<1>2. \A y \in S : ~(y < x)
  BY <1>1 DEF OpToRel
<1> QED
  BY <1>2

(* The rank of an index grows with it. *)
LEMMA RankFacts ==
  ASSUME NEW S \in SUBSET Nat, IsFiniteSet(S)
  PROVE  /\ Cardinality(S) \in Nat
         /\ \A i \in S : Rank(S, i) \in 1 .. Cardinality(S)
         /\ \A i, j \in S : i < j => Rank(S, i) < Rank(S, j)
<1> DEFINE Below(i) == {j \in S : j <= i}
<1>1. Cardinality(S) \in Nat
  BY FS_CardinalityType
<1>2. ASSUME NEW i \in S
      PROVE  /\ IsFiniteSet(Below(i)) /\ Cardinality(Below(i)) \in Nat
             /\ Cardinality(Below(i)) <= Cardinality(S) /\ Cardinality(Below(i)) # 0
  <2>1. Below(i) \in SUBSET S /\ i \in Below(i)
    OBVIOUS
  <2> HIDE DEF Below
  <2>2. IsFiniteSet(Below(i)) /\ Cardinality(Below(i)) <= Cardinality(S)
    BY <2>1, FS_Subset
  <2>3. Cardinality(Below(i)) \in Nat
    BY <2>2, FS_CardinalityType
  <2>4. Cardinality(Below(i)) = 0 => Below(i) = {}
    BY <2>2, FS_EmptySet
  <2>5. Cardinality(Below(i)) # 0
    BY <2>1, <2>4
  <2> QED
    BY <2>2, <2>3, <2>5
<1>3. ASSUME NEW i \in S, NEW j \in S, i < j
      PROVE  Cardinality(Below(i)) < Cardinality(Below(j))
  <2>0. i \in Nat /\ j \in Nat /\ S \subseteq Nat
    OBVIOUS
  <2>a. j <= j /\ ~(j <= i) /\ \A x \in Nat : x <= i => x <= j
    BY <1>3, <2>0
  <2>1. Below(i) \in SUBSET Below(j) /\ j \in Below(j) /\ j \notin Below(i)
    BY <2>0, <2>a, Zenon
  <2>2. IsFiniteSet(Below(j)) /\ Cardinality(Below(j)) \in Nat /\ Cardinality(Below(i)) \in Nat
    BY <1>2
  <2> HIDE DEF Below
  <2>3. /\ Cardinality(Below(i)) <= Cardinality(Below(j))
        /\ Cardinality(Below(j)) = Cardinality(Below(i)) => Below(j) = Below(i)
    BY <2>1, <2>2, FS_Subset
  <2> QED
    BY <2>1, <2>2, <2>3
<1>4. \A i \in S : Rank(S, i) = Cardinality(Below(i))
  BY DEF Rank
<1> HIDE DEF Below
<1> QED
  BY <1>1, <1>2, <1>3, <1>4

(* There is a k-th index for every k up to the number of indices, and each  *)
(* index is one of them.                                                    *)
LEMMA NthFacts ==
  ASSUME NEW S \in SUBSET Nat, IsFiniteSet(S)
  PROVE  /\ Cardinality(S) \in Nat
         /\ \A k \in 1 .. Cardinality(S) : Nth(S, k) \in S /\ Rank(S, Nth(S, k)) = k
         /\ \A k, l \in 1 .. Cardinality(S) : k < l => Nth(S, k) < Nth(S, l)
         /\ \A i \in S : Rank(S, i) \in 1 .. Cardinality(S) /\ Nth(S, Rank(S, i)) = i
<1> DEFINE N == Cardinality(S)
<1> DEFINE f == [i \in S |-> Rank(S, i)]
<1>1. /\ N \in Nat
      /\ \A i \in S : Rank(S, i) \in 1 .. N
      /\ \A i, j \in S : i < j => Rank(S, i) < Rank(S, j)
  BY RankFacts
<1>2. \A i, j \in S : Rank(S, i) = Rank(S, j) => i = j
  BY <1>1
<1> HIDE DEF N
<1>3. f \in Injection(S, 1 .. N)
  BY <1>1, <1>2 DEF Injection, IsInjective
<1>4. IsFiniteSet(1 .. N) /\ Cardinality(1 .. N) = N
  BY <1>1, FS_Interval
<1>5. f \in Surjection(S, 1 .. N)
  BY <1>3, <1>4, FS_Injection DEF N
<1>6. \A k \in 1 .. N : \E i \in S : Rank(S, i) = k
  BY <1>5 DEF Surjection
<1>7. \A k \in 1 .. N : Nth(S, k) \in S /\ Rank(S, Nth(S, k)) = k
  BY <1>6 DEF Nth
<1>8. \A i \in S : Nth(S, Rank(S, i)) = i
  BY <1>1, <1>2, <1>7
<1>9. \A k, l \in 1 .. N : k < l => Nth(S, k) < Nth(S, l)
  <2> SUFFICES ASSUME NEW k \in 1 .. N, NEW l \in 1 .. N, k < l
               PROVE  Nth(S, k) < Nth(S, l)
    OBVIOUS
  <2>1. PICK i \in S : i = Nth(S, k) /\ Rank(S, i) = k
    BY <1>7
  <2>2. PICK j \in S : j = Nth(S, l) /\ Rank(S, j) = l
    BY <1>7
  <2>3. ~(j < i) /\ i # j
    BY <1>1, <2>1, <2>2
  <2>4. i \in Nat /\ j \in Nat
    OBVIOUS
  <2>5. i < j
    BY <2>3, <2>4
  <2> QED
    BY <2>1, <2>2, <2>5
<1> QED
  BY <1>1, <1>7, <1>8, <1>9 DEF N

(* Selecting gives a sequence with one element for each index, which are    *)
(* those of the array, each in one place.                                   *)
LEMMA SelectedFacts ==
  ASSUME NEW S \in SUBSET Nat, IsFiniteSet(S), NEW X, NEW t, \A i \in S : t[i] \in X
  PROVE  /\ Selected(t, S) \in Seq(X) /\ Len(Selected(t, S)) = Cardinality(S)
         /\ Cardinality(S) \in Nat
         /\ \A k \in 1 .. Cardinality(S) : Selected(t, S)[k] = t[Nth(S, k)] /\ Nth(S, k) \in S
         /\ \A i \in S : Rank(S, i) \in 1 .. Cardinality(S) /\ Selected(t, S)[Rank(S, i)] = t[i]
<1>1. Cardinality(S) \in Nat
  BY NthFacts
<1>2. \A k \in 1 .. Cardinality(S) : Nth(S, k) \in S
  BY NthFacts
<1>3. Selected(t, S) \in [1 .. Cardinality(S) -> X]
  BY <1>1, <1>2 DEF Selected
<1>4. Selected(t, S) \in Seq(X) /\ Len(Selected(t, S)) = Cardinality(S)
  BY <1>1, <1>3
<1>5. \A k \in 1 .. Cardinality(S) : Selected(t, S)[k] = t[Nth(S, k)]
  BY DEF Selected
<1>6. \A i \in S : Rank(S, i) \in 1 .. Cardinality(S) /\ Nth(S, Rank(S, i)) = i
  BY NthFacts
<1> QED
  BY <1>1, <1>2, <1>4, <1>5, <1>6

(* Only the elements selected matter. *)
LEMMA SelectedSame ==
  ASSUME NEW S \in SUBSET Nat, IsFiniteSet(S), NEW t, NEW u, \A i \in S : t[i] = u[i]
  PROVE  Selected(t, S) = Selected(u, S)
<1>1. \A k \in 1 .. Cardinality(S) : Nth(S, k) \in S
  BY NthFacts
<1> QED
  BY <1>1 DEF Selected

(* One more index above the others adds its element at the end. *)
LEMMA SelectedAppend ==
  ASSUME NEW S \in SUBSET Nat, IsFiniteSet(S), NEW m \in Nat, \A i \in S : i < m,
         NEW X, NEW t, t[m] \in X, \A i \in S : t[i] \in X
  PROVE  Selected(t, S \cup {m}) = Append(Selected(t, S), t[m])
<1> DEFINE T == S \cup {m}
<1>1. m \notin S /\ T \in SUBSET Nat
  OBVIOUS
<1>2. IsFiniteSet(T) /\ Cardinality(T) = Cardinality(S) + 1 /\ Cardinality(S) \in Nat
  BY <1>1, FS_AddElement, FS_CardinalityType
<1>3. ASSUME NEW i \in S PROVE Rank(T, i) = Rank(S, i)
  <2>1. i \in Nat /\ i < m
    OBVIOUS
  <2>2. ~(m <= i)
    BY <2>1
  <2>3. {j \in T : j <= i} = {j \in S : j <= i}
    BY <2>2, Zenon
  <2> QED
    BY <2>3 DEF Rank
<1>4. Rank(T, m) = Cardinality(S) + 1
  <2>0. \A j \in T : j <= m
    OBVIOUS
  <2>1. {j \in T : j <= m} = T
    BY <2>0, Zenon
  <2> QED
    BY <1>2, <2>1 DEF Rank
<1> HIDE DEF T
<1>5. m \in T /\ S \subseteq T
  BY DEF T
<1>6. ASSUME NEW k \in 1 .. Cardinality(S) PROVE Nth(T, k) = Nth(S, k) /\ Nth(S, k) \in S
  <2>1. Nth(S, k) \in S /\ Rank(S, Nth(S, k)) = k
    BY NthFacts
  <2>2. Nth(S, k) \in T /\ Rank(T, Nth(S, k)) = k
    BY <1>3, <1>5, <2>1
  <2>3. Nth(T, Rank(T, Nth(S, k))) = Nth(S, k)
    BY <1>1, <1>2, <2>2, NthFacts
  <2> QED
    BY <2>1, <2>2, <2>3
<1>7. Nth(T, Cardinality(S) + 1) = m
  BY <1>1, <1>2, <1>4, <1>5, NthFacts
<1>8. Selected(t, S) \in Seq(X) /\ Len(Selected(t, S)) = Cardinality(S)
  BY SelectedFacts
<1>9. \A k \in 1 .. Cardinality(S) : Selected(t, T)[k] = Selected(t, S)[k]
  BY <1>2, <1>6 DEF Selected
<1>10. Selected(t, T)[Cardinality(S) + 1] = t[m]
  BY <1>2, <1>7 DEF Selected
<1>11. Selected(t, T) \in Seq(X) /\ Len(Selected(t, T)) = Cardinality(S) + 1
  <2>1. \A i \in T : t[i] \in X
    BY DEF T
  <2> QED
    BY <1>1, <1>2, <2>1, SelectedFacts
<1>12. Selected(t, T) = Append(Selected(t, S), t[m])
  BY <1>2, <1>8, <1>9, <1>10, <1>11
<1> QED
  BY <1>12 DEF T

-----------------------------------------------------------------------------
(* The inductive invariant.                                                 *)

(* The handlers that match the event in the first k places, and how many    *)
(* places the loop of handle_event has looked at.                           *)
Matching(k) == {i \in 1..k : handlers[i] # None /\ Matches(handlers[i])}
Seen == IF inHandler THEN place ELSE place - 1

(* Until a handler is removed, the places the loop has looked at are in     *)
(* use, so that one that is added comes behind them, and exactly those that *)
(* match were called.                                                       *)
LoopInv ==
  /\ inHandler => event # None /\ place <= NumHandlers
  /\ event # None /\ ~removing =>
       /\ \A i \in 1..Seen : handlers[i] # None
       /\ called = Selected(handlers, Matching(Seen))

(* But for what could not be sent, the cloud knows what the saved checksum  *)
(* is of; while there is a connection it also knows what is in the table,   *)
(* but for what is to be sent next.                                         *)
Handed == cloud \cup unsent

SentInv ==
  /\ crc # None => \A k \in DOMAIN crc : crc[k] \in Handed
  /\ connected => \A i \in 1..NumHandlers :
                    handlers[i] # None => Topic(handlers[i]) \in Handed \cup {adding}

IInv == TypeOK /\ NoHoles /\ LoopInv /\ SentInv

-----------------------------------------------------------------------------
(* The operators on the table.                                              *)

Table == [1..NumHandlers -> Handler \cup {None}]

(* A set of places is a finite set of numbers. *)
LEMMA PlacesFinite ==
  ASSUME NEW S \in SUBSET (1..NumHandlers)
  PROVE  S \in SUBSET Nat /\ IsFiniteSet(S)
<1>1. IsFiniteSet(1..NumHandlers)
  BY SizeAssumption, FS_Interval
<1>2. IsFiniteSet(S)
  BY <1>1, FS_Subset
<1>3. S \in SUBSET Nat
  BY SizeAssumption
<1> QED
  BY <1>2, <1>3

(* Names are cut to names. *)
LEMMA CutType ==
  ASSUME NEW n \in Seq(Char)
  PROVE  Cut(n) \in Seq(Char)
<1> DEFINE m == Min({Len(n), MaxFilterLen})
<1>1. \E x \in {Len(n), MaxFilterLen} : \A y \in {Len(n), MaxFilterLen} : x <= y
  BY SizeAssumption
<1>2. m \in {Len(n), MaxFilterLen} /\ \A y \in {Len(n), MaxFilterLen} : m <= y
  BY <1>1 DEF Min
<1>3. m \in 0..Len(n)
  BY <1>2, SizeAssumption
<1> HIDE DEF m
<1>4. SubSeq(n, 1, m) \in Seq(Char)
  BY <1>3
<1> QED
  BY <1>4 DEF Cut, m

(* for_each visits what is in the table, and nothing else. *)
LEMMA FilledFacts ==
  ASSUME NEW t \in Table
  PROVE  /\ Filled(t) \in Seq(Handler)
         /\ \A k \in 1..Len(Filled(t)) :
              \E i \in 1..NumHandlers : t[i] # None /\ Filled(t)[k] = t[i]
         /\ \A i \in 1..NumHandlers :
              t[i] # None => \E k \in 1..Len(Filled(t)) : Filled(t)[k] = t[i]
<1> DEFINE S == {i \in 1..NumHandlers : t[i] # None}
<1>1. S \in SUBSET Nat /\ IsFiniteSet(S)
  BY PlacesFinite
<1>2. \A i \in S : t[i] \in Handler
  BY DEF Table
<1>3. Filled(t) = Selected(t, S)
  BY DEF Filled
<1>4. \A i \in 1..NumHandlers : t[i] # None <=> i \in S
  OBVIOUS
<1>5. S \subseteq 1..NumHandlers
  OBVIOUS
<1> HIDE DEF S
<1>6. /\ Selected(t, S) \in Seq(Handler) /\ Len(Selected(t, S)) = Cardinality(S)
      /\ \A k \in 1 .. Cardinality(S) : Selected(t, S)[k] = t[Nth(S, k)] /\ Nth(S, k) \in S
      /\ \A i \in S : Rank(S, i) \in 1 .. Cardinality(S) /\ Selected(t, S)[Rank(S, i)] = t[i]
  BY <1>1, <1>2, SelectedFacts
<1> QED
  BY <1>3, <1>4, <1>5, <1>6

(* What is sent of a handler. *)
LEMMA TopicType ==
  ASSUME NEW h \in Handler
  PROVE  Topic(h) \in Subscription
BY DEF Handler, Subscription, Topic

(* The checksum is computed over what is sent of each handler in the table. *)
LEMMA ChecksumFacts ==
  ASSUME NEW t \in Table
  PROVE  LET c == compute_subscriptions_checksum(t)
         IN /\ c \in Seq(Subscription)
            /\ \A k \in DOMAIN c : \E i \in 1..NumHandlers : t[i] # None /\ c[k] = Topic(t[i])
            /\ \A i \in 1..NumHandlers :
                 t[i] # None => \E k \in DOMAIN c : c[k] = Topic(t[i])
<1> DEFINE f == Filled(t)
<1> DEFINE c == compute_subscriptions_checksum(t)
<1>1. /\ f \in Seq(Handler)
      /\ \A k \in 1..Len(f) : \E i \in 1..NumHandlers : t[i] # None /\ f[k] = t[i]
      /\ \A i \in 1..NumHandlers : t[i] # None => \E k \in 1..Len(f) : f[k] = t[i]
  BY FilledFacts
<1>2. c = [i \in DOMAIN f |-> Topic(f[i])]
  BY DEF compute_subscriptions_checksum
<1> HIDE DEF f, c
<1>3. DOMAIN f = 1..Len(f) /\ Len(f) \in Nat /\ \A k \in 1..Len(f) : f[k] \in Handler
  BY <1>1
<1>4. c \in [1..Len(f) -> Subscription]
  BY <1>2, <1>3, TopicType
<1>5. c \in Seq(Subscription)
  BY <1>3, <1>4
<1>6. DOMAIN c = 1..Len(f) /\ \A k \in 1..Len(f) : c[k] = Topic(f[k])
  BY <1>2, <1>3
<1>7. \A k \in DOMAIN c : \E i \in 1..NumHandlers : t[i] # None /\ c[k] = Topic(t[i])
  BY <1>1, <1>6
<1>8. ASSUME NEW i \in 1..NumHandlers, t[i] # None
      PROVE  \E k \in DOMAIN c : c[k] = Topic(t[i])
  <2>1. PICK k \in 1..Len(f) : f[k] = t[i]
    BY <1>1, <1>8
  <2>2. k \in DOMAIN c /\ c[k] = Topic(t[i])
    BY <1>6, <2>1
  <2> QED
    BY <2>2
<1> QED
  BY <1>5, <1>7, <1>8 DEF c

(* remove_event_handlers leaves only what was in the table, without holes. *)
LEMMA RemovedFacts ==
  ASSUME NEW n, TypeOK, NoHoles
  PROVE  /\ Removed(n) \in Table
         /\ \A i \in 1..NumHandlers : Removed(n)[i] # None =>
              \E j \in 1..NumHandlers : handlers[j] = Removed(n)[i]
         /\ \A i, j \in 1..NumHandlers :
              i < j /\ Removed(n)[j] # None => Removed(n)[i] # None
<1> DEFINE S == {i \in 1..NumHandlers : ~Equal(n, handlers[i])}
<1> DEFINE X == Handler \cup {None}
<1> DEFINE kept == Selected(handlers, S)
<1>1. S \in SUBSET Nat /\ IsFiniteSet(S) /\ S \subseteq 1..NumHandlers
  BY PlacesFinite
<1>2. Removed(n) = [i \in 1..NumHandlers |-> IF i <= Len(kept) THEN kept[i] ELSE None]
  BY DEF Removed
<1>3. \A i \in 1..NumHandlers : handlers[i] \in X
  BY DEF TypeOK
<1> HIDE DEF S, X
<1>4. \A i \in S : handlers[i] \in X
  BY <1>1, <1>3
<1>5. /\ kept \in Seq(X) /\ Len(kept) = Cardinality(S)
      /\ Cardinality(S) \in Nat
      /\ \A k \in 1 .. Cardinality(S) : kept[k] = handlers[Nth(S, k)] /\ Nth(S, k) \in S
  BY <1>1, <1>4, SelectedFacts
<1>6. \A k, l \in 1 .. Cardinality(S) : k < l => Nth(S, k) < Nth(S, l)
  BY <1>1, NthFacts
<1> HIDE DEF kept
<1>7. \A i \in 1..NumHandlers :
        Removed(n)[i] # None => /\ i \in 1 .. Cardinality(S)
                                /\ Removed(n)[i] = handlers[Nth(S, i)]
                                /\ Nth(S, i) \in 1..NumHandlers
  <2> SUFFICES ASSUME NEW i \in 1..NumHandlers, Removed(n)[i] # None
               PROVE  /\ i \in 1 .. Cardinality(S)
                      /\ Removed(n)[i] = handlers[Nth(S, i)]
                      /\ Nth(S, i) \in 1..NumHandlers
    OBVIOUS
  <2>1. Removed(n)[i] = IF i <= Len(kept) THEN kept[i] ELSE None
    BY <1>2
  <2>2. i <= Cardinality(S) /\ Removed(n)[i] = kept[i]
    BY <1>5, <2>1
  <2>3. i \in 1 .. Cardinality(S)
    BY <1>5, <2>2, SizeAssumption
  <2>4. kept[i] = handlers[Nth(S, i)] /\ Nth(S, i) \in S
    BY <1>5, <2>3
  <2> QED
    BY <1>1, <2>2, <2>3, <2>4
<1>8. Removed(n) \in Table
  <2>1. \A i \in 1..NumHandlers : Removed(n)[i] \in X
    BY <1>3, <1>7 DEF X
  <2> QED
    BY <1>2, <2>1 DEF Table, X
<1>9. ASSUME NEW i \in 1..NumHandlers, NEW j \in 1..NumHandlers, i < j, Removed(n)[j] # None
      PROVE  Removed(n)[i] # None
  <2>1. i \in 1 .. Cardinality(S) /\ j \in 1 .. Cardinality(S)
    BY <1>5, <1>7, <1>9
  <2>2. Nth(S, i) < Nth(S, j) /\ Nth(S, i) \in 1..NumHandlers /\ Nth(S, j) \in 1..NumHandlers
    BY <1>1, <1>5, <1>6, <1>9, <2>1
  <2>3. handlers[Nth(S, j)] # None
    BY <1>7, <1>9
  <2>4. handlers[Nth(S, i)] # None
    BY <2>2, <2>3 DEF NoHoles
  <2>5. Removed(n)[i] = handlers[Nth(S, i)]
    BY <1>2, <1>5, <2>1
  <2> QED
    BY <2>4, <2>5
<1> QED
  BY <1>7, <1>8, <1>9

(* add_event_handler leaves the table as it is, or fills its first empty    *)
(* place.                                                                   *)
LEMMA AddedFacts ==
  ASSUME NEW n \in Name, NEW w \in Who, NEW d \in DeviceId
  PROVE  LET h == [filter |-> Cut(n), who |-> w, id |-> d] IN
         /\ h \in Handler /\ Topic(h) = [filter |-> Cut(n), id |-> d]
         /\ \/ Added(n, w, d) = handlers
            \/ /\ Accepted(n, w, d)
               /\ \E m \in 1..NumHandlers :
                    /\ handlers[m] = None /\ \A i \in 1..NumHandlers : i < m => handlers[i] # None
                    /\ Added(n, w, d) = [handlers EXCEPT ![m] = h]
<1> DEFINE h == [filter |-> Cut(n), who |-> w, id |-> d]
<1> DEFINE free == {i \in 1..NumHandlers : handlers[i] = None}
<1>1. h \in Handler /\ Topic(h) = [filter |-> Cut(n), id |-> d]
  BY NameAssumption, CutType DEF Handler, Topic
<1>2. CASE event_handler_exists(n, w, d) \/ free = {}
  BY <1>1, <1>2 DEF Added
<1>3. CASE ~event_handler_exists(n, w, d) /\ free # {}
  <2>1. \E x \in free : \A y \in free : x <= y
    <3>1. free \in SUBSET Nat
      BY SizeAssumption
    <3> HIDE DEF free
    <3> QED
      BY <1>3, <3>1, SmallestNat
  <2>2. Min(free) \in free /\ \A y \in free : Min(free) <= y
    BY <2>1 DEF Min
  <2>3. Added(n, w, d) = [handlers EXCEPT ![Min(free)] = h]
    BY <1>3 DEF Added
  <2>4. Accepted(n, w, d)
    BY <1>3 DEF Accepted
  <2>5. PICK m \in free : m = Min(free)
    BY <2>2
  <2>6. handlers[m] = None /\ m \in 1..NumHandlers
    OBVIOUS
  <2>7. \A i \in 1..NumHandlers : i < m => handlers[i] # None
    BY <2>2, <2>5, <2>6, SizeAssumption
  <2>8. Added(n, w, d) = [handlers EXCEPT ![m] = h]
    BY <2>3, <2>5
  <2> HIDE DEF h
  <2> QED
    BY <1>1, <2>4, <2>6, <2>7, <2>8 DEF h
<1> QED
  BY <1>2, <1>3

-----------------------------------------------------------------------------
(* The loop of handle_event.                                                *)

(* The loop has looked at places of the table only. *)
LEMMA SeenFacts ==
  ASSUME TypeOK, LoopInv
  PROVE  /\ Seen \in 0..NumHandlers
         /\ \A k \in 0..NumHandlers : Matching(k) \in SUBSET (1..NumHandlers)
BY SizeAssumption DEF TypeOK, LoopInv, Seen, Matching

(* What happens behind the places the loop has looked at does not matter. *)
LEMMA LoopKept ==
  ASSUME TypeOK, LoopInv, UNCHANGED <<event, place, inHandler, called, removing>>,
         event # None /\ ~removing => \A i \in 1..Seen : handlers'[i] = handlers[i]
  PROVE  LoopInv'
<1>1. Seen' = Seen /\ Seen \in 0..NumHandlers /\ Matching(Seen) \in SUBSET (1..NumHandlers)
  BY SeenFacts DEF Seen
<1>2. (inHandler => event # None /\ place <= NumHandlers)'
  BY DEF LoopInv
<1>3. ASSUME event # None, ~removing
      PROVE  (\A i \in 1..Seen : handlers[i] # None)' /\ (called = Selected(handlers, Matching(Seen)))'
  <2>1. /\ \A i \in 1..Seen : handlers[i] # None /\ handlers'[i] = handlers[i]
        /\ called = Selected(handlers, Matching(Seen))
    BY <1>3 DEF LoopInv
  <2>2. \A i \in 1..Seen : handlers'[i] # None
    BY <2>1
  <2>a. \A i \in 1..Seen : Matches(handlers[i])' <=> Matches(handlers[i])
    BY <2>1 DEF Matches
  <2>b. Matching(Seen)' = {i \in 1..Seen : handlers'[i] # None /\ Matches(handlers[i])'}
    BY <1>1 DEF Matching
  <2>3. Matching(Seen)' = Matching(Seen)
    BY <2>1, <2>a, <2>b, Zenon DEF Matching
  <2>4. \A i \in Matching(Seen) : handlers[i] = handlers'[i]
    BY <2>1 DEF Matching
  <2>5. Matching(Seen) \in SUBSET Nat /\ IsFiniteSet(Matching(Seen))
    BY <1>1, PlacesFinite, Zenon
  <2>6. Selected(handlers, Matching(Seen)) = Selected(handlers', Matching(Seen))
    BY <2>4, <2>5, SelectedSame
  <2> QED
    BY <1>1, <2>1, <2>2, <2>3, <2>6
<1> QED
  BY <1>2, <1>3 DEF LoopInv

(* The next place: a handler that matches is called behind the others. *)
LEMMA LoopNext ==
  ASSUME TypeOK, LoopInv, handle_event_next
  PROVE  LoopInv'
<1>0. /\ event # None /\ ~inHandler /\ place \in 1..NumHandlers /\ handlers[place] # None
      /\ UNCHANGED <<handlers, event, removing>>
      /\ event' # None
  BY DEF handle_event_next, AtPlace, TypeOK
<1>1. Seen = place - 1 /\ Seen \in 0..NumHandlers
  BY <1>0, SizeAssumption DEF Seen
<1>2. Seen' = place /\ (inHandler' => place' <= NumHandlers)
  BY <1>0, SizeAssumption DEF handle_event_next, Seen, TypeOK
<1>3. SUFFICES ASSUME ~removing
               PROVE  /\ \A i \in 1..place : handlers[i] # None
                      /\ called' = Selected(handlers, Matching(Seen)')
  BY <1>0, <1>2 DEF LoopInv
<1>4. /\ \A i \in 1..place - 1 : handlers[i] # None
      /\ called = Selected(handlers, Matching(place - 1))
  BY <1>0, <1>1, <1>3 DEF LoopInv
<1>5. \A i \in 1..place : handlers[i] # None
  BY <1>0, <1>4
<1>6. Matching(Seen)' = IF Matches(handlers[place]) THEN Matching(place - 1) \cup {place}
                                                    ELSE Matching(place - 1)
  <2>1. Matching(Seen)' = {i \in 1..place : handlers[i] # None /\ Matches(handlers[i])}
    BY <1>0, <1>2 DEF Matching, Matches
  <2>2. 1..place = (1..place - 1) \cup {place}
    BY <1>0
  <2> QED
    BY <1>0, <2>1, <2>2 DEF Matching
<1>7. CASE ~Matches(handlers[place])
  BY <1>4, <1>5, <1>6, <1>7 DEF handle_event_next
<1>8. CASE Matches(handlers[place])
  <2> DEFINE S == Matching(place - 1)
  <2>1. S \in SUBSET (1..NumHandlers)
    BY <1>1, SeenFacts
  <2>2. ASSUME NEW i \in S
        PROVE  i < place /\ handlers[i] \in Handler
    <3>1. i \in 1..place - 1 /\ handlers[i] # None
      BY DEF Matching
    <3>2. i < place /\ i \in 1..NumHandlers
      BY <1>0, <3>1, SizeAssumption
    <3> QED
      BY <3>1, <3>2 DEF TypeOK
  <2>3. place \in Nat /\ handlers[place] \in Handler
    BY <1>0, SizeAssumption DEF TypeOK
  <2> HIDE DEF S
  <2>4. S \in SUBSET Nat /\ IsFiniteSet(S)
    BY <2>1, PlacesFinite
  <2>5. Selected(handlers, S \cup {place}) = Append(Selected(handlers, S), handlers[place])
    BY <2>2, <2>3, <2>4, SelectedAppend
  <2>6. called' = Append(called, handlers[place])
    BY <1>8 DEF handle_event_next
  <2> QED
    BY <1>4, <1>5, <1>6, <1>8, <2>5, <2>6 DEF S
<1> QED
  BY <1>7, <1>8

-----------------------------------------------------------------------------
(* Each action preserves the invariant.                                     *)

(* An empty table has no holes, and nothing in it that the cloud must know. *)
LEMMA EmptyTable ==
  ASSUME handlers' = [i \in 1..NumHandlers |-> None]
  PROVE  /\ handlers' \in Table /\ NoHoles'
         /\ \A i \in 1..NumHandlers : handlers'[i] = None
BY DEF Table, NoHoles

LEMMA InitIInv == Init => IInv
<1> SUFFICES ASSUME Init PROVE IInv
  OBVIOUS
<1>0. <<>> \in Seq(Handler) /\ left \in [Budget -> Nat] /\ 1 \in 1..NumHandlers + 1
  BY SizeAssumption, BudgetAssumption DEF Init
<1>1. TypeOK
  BY <1>0 DEF Init, TypeOK
<1>2. NoHoles /\ LoopInv /\ SentInv
  BY DEF Init, NoHoles, LoopInv, SentInv
<1> QED
  BY <1>1, <1>2 DEF IInv

(* Taking from a budget. *)
LEMMA SpendType ==
  ASSUME TypeOK, NEW b \in Budget, Spend(b)
  PROVE  left' \in [Budget -> Nat]
<1>1. left \in [Budget -> Nat] /\ left[b] \in Nat /\ left[b] > 0
  BY DEF TypeOK, Spend
<1>2. left[b] - 1 \in Nat
  BY <1>1
<1> QED
  BY <1>1, <1>2 DEF Spend

LEMMA AddStep ==
  ASSUME IInv, NEW n \in Name, NEW w \in Who, NEW d \in DeviceId, add_event_handler(n, w, d)
  PROVE  IInv'
<1> USE DEF IInv
<1> DEFINE h == [filter |-> Cut(n), who |-> w, id |-> d]
<1>1. /\ handlers' = Added(n, w, d)
      /\ adding = None
      /\ adding' = IF Accepted(n, w, d) THEN [filter |-> Cut(n), id |-> d] ELSE None
      /\ UNCHANGED <<event, place, called, removing, inHandler, connected, crc, cloud, unsent>>
  BY DEF add_event_handler, ApplicationRuns
<1>2. /\ h \in Handler /\ Topic(h) = [filter |-> Cut(n), id |-> d]
      /\ \/ handlers' = handlers
         \/ /\ Accepted(n, w, d)
            /\ \E m \in 1..NumHandlers :
                 /\ handlers[m] = None /\ \A i \in 1..NumHandlers : i < m => handlers[i] # None
                 /\ handlers' = [handlers EXCEPT ![m] = h]
  BY <1>1, AddedFacts
<1>3. left' \in [Budget -> Nat]
  BY SpendType DEF add_event_handler, Budget
<1> HIDE DEF h
<1>4. handlers \in Table /\ adding' \in Subscription \cup {None}
  BY <1>1, <1>2, TopicType DEF TypeOK, Table
<1>5. CASE handlers' = handlers
  <2>1. TypeOK'
    BY <1>1, <1>3, <1>4, <1>5 DEF TypeOK
  <2>2. NoHoles'
    BY <1>5 DEF NoHoles
  <2>3. LoopInv'
    BY <1>1, <1>5, LoopKept
  <2>4. SentInv'
    <3>1. ASSUME connected, NEW i \in 1..NumHandlers, handlers[i] # None
          PROVE  Topic(handlers[i]) \in Handed
      <4>1. Topic(handlers[i]) \in Handed \cup {adding}
        BY <3>1 DEF SentInv
      <4>2. Topic(handlers[i]) # None
        BY <3>1, TopicType, NoneAssumption DEF TypeOK
      <4> QED
        BY <1>1, <4>1, <4>2
    <3> QED
      BY <1>1, <1>5, <3>1 DEF SentInv, Handed
  <2> QED
    BY <2>1, <2>2, <2>3, <2>4
<1>6. ASSUME Accepted(n, w, d), NEW m \in 1..NumHandlers,
             handlers[m] = None, \A i \in 1..NumHandlers : i < m => handlers[i] # None,
             handlers' = [handlers EXCEPT ![m] = h]
      PROVE  IInv'
  <2>0. /\ handlers'[m] = h
        /\ \A i \in 1..NumHandlers : i # m => handlers'[i] = handlers[i]
        /\ h # None
    BY <1>2, <1>4, <1>6, NoneAssumption DEF Table
  <2>1. TypeOK'
    <3>1. handlers' \in [1..NumHandlers -> Handler \cup {None}]
      BY <1>2, <1>4, <1>6 DEF Table
    <3> QED
      BY <1>1, <1>3, <1>4, <3>1 DEF TypeOK
  <2>2. NoHoles'
    <3> SUFFICES ASSUME NEW i \in 1..NumHandlers, NEW j \in 1..NumHandlers, i < j,
                        handlers'[j] # None
                 PROVE  handlers'[i] # None
      BY DEF NoHoles
    <3>1. CASE i = m
      BY <2>0, <3>1
    <3>2. CASE i # m /\ j = m
      BY <1>6, <2>0, <3>2
    <3>3. CASE i # m /\ j # m
      BY <2>0, <3>3 DEF NoHoles
    <3> QED
      BY <3>1, <3>2, <3>3
  <2>3. LoopInv'
    <3>1. ASSUME event # None, ~removing, NEW i \in 1..Seen
          PROVE  handlers'[i] = handlers[i]
      <4>0. Seen \in 0..NumHandlers
        BY SeenFacts
      <4>1. i \in 1..NumHandlers /\ handlers[i] # None
        BY <3>1, <4>0, SizeAssumption DEF LoopInv
      <4> QED
        BY <1>6, <2>0, <4>1
    <3> QED
      BY <1>1, <3>1, LoopKept
  <2>4. SentInv'
    <3>1. ASSUME connected, NEW i \in 1..NumHandlers, handlers'[i] # None
          PROVE  Topic(handlers'[i]) \in Handed \cup {adding'}
      <4>1. CASE i = m
        BY <1>1, <1>2, <1>6, <2>0, <4>1
      <4>2. CASE i # m
        <5>1. handlers'[i] = handlers[i] /\ handlers[i] \in Handler
          BY <2>0, <3>1, <4>2 DEF TypeOK
        <5>2. Topic(handlers[i]) \in Handed \cup {adding}
          BY <3>1, <5>1 DEF SentInv
        <5>3. Topic(handlers[i]) # None
          BY <5>1, TopicType, NoneAssumption
        <5> QED
          BY <1>1, <5>1, <5>2, <5>3
      <4> QED
        BY <4>1, <4>2
    <3>2. crc # None => \A k \in DOMAIN crc : crc[k] \in Handed
      BY DEF SentInv
    <3>3. (\A i \in 1..NumHandlers : connected /\ handlers[i] # None => Topic(handlers[i]) \in Handed \cup {adding})'
      BY <1>1, <3>1 DEF Topic, Handed
    <3> QED
      BY <1>1, <3>2, <3>3 DEF SentInv, Handed
  <2> QED
    BY <2>1, <2>2, <2>3, <2>4
<1> QED
  BY <1>2, <1>5, <1>6

(* Nothing new is in the table, and nothing else that matters changes. *)
LEMMA SentKept ==
  ASSUME SentInv, UNCHANGED <<adding, crc, cloud, unsent>>, connected' => connected,
         \A i \in 1..NumHandlers : handlers'[i] # None =>
           \E j \in 1..NumHandlers : handlers[j] = handlers'[i]
  PROVE  SentInv'
<1>1. ASSUME connected', NEW i \in 1..NumHandlers, handlers'[i] # None
      PROVE  Topic(handlers[i])' \in Handed \cup {adding}
  <2>1. PICK j \in 1..NumHandlers : handlers[j] = handlers'[i]
    BY <1>1
  <2>2. Topic(handlers[j]) \in Handed \cup {adding}
    BY <1>1, <2>1 DEF SentInv
  <2>3. Topic(handlers[i])' = Topic(handlers[j])
    BY <2>1 DEF Topic
  <2> QED
    BY <2>2, <2>3
<1> QED
  BY <1>1 DEF SentInv, Handed

LEMMA RemoveStep ==
  ASSUME IInv, NEW n \in Name, remove_event_handlers(n)
  PROVE  IInv'
<1> USE DEF IInv
<1>1. /\ handlers' = Removed(n) /\ removing' = (removing \/ (event # None /\ Removed(n) # handlers))
      /\ UNCHANGED <<adding, event, place, called, inHandler, connected, crc, cloud, unsent>>
  BY DEF remove_event_handlers
<1>2. /\ handlers' \in Table
      /\ \A i \in 1..NumHandlers : handlers'[i] # None =>
           \E j \in 1..NumHandlers : handlers[j] = handlers'[i]
      /\ \A i, j \in 1..NumHandlers : i < j /\ handlers'[j] # None => handlers'[i] # None
  BY <1>1, RemovedFacts
<1>3. left' \in [Budget -> Nat] /\ removing' \in BOOLEAN
  BY <1>1, SpendType DEF remove_event_handlers, Budget
<1>4. TypeOK'
  BY <1>1, <1>2, <1>3 DEF TypeOK, Table
<1>5. NoHoles'
  BY <1>2 DEF NoHoles
<1>6. LoopInv'
  <2>1. CASE handlers' = handlers
    <3>1. removing' = removing
      BY <1>1, <2>1 DEF TypeOK
    <3> QED
      BY <1>1, <2>1, <3>1, LoopKept
  <2>2. CASE handlers' # handlers
    <3>1. event' # None => removing'
      BY <1>1, <2>2
    <3>2. inHandler' => event' # None /\ place' <= NumHandlers
      BY <1>1 DEF LoopInv
    <3> QED
      BY <3>1, <3>2 DEF LoopInv
  <2> QED
    BY <2>1, <2>2
<1>7. SentInv'
  BY <1>1, <1>2, SentKept
<1> QED
  BY <1>4, <1>5, <1>6, <1>7

LEMMA RemoveAllStep ==
  ASSUME IInv, remove_all_event_handlers
  PROVE  IInv'
<1> USE DEF IInv
<1>1. /\ removing' = (event # None) /\ handlers' \in Table /\ NoHoles'
      /\ \A i \in 1..NumHandlers : handlers'[i] = None
      /\ UNCHANGED <<adding, event, place, called, inHandler, connected, crc, cloud, unsent>>
  BY EmptyTable DEF remove_all_event_handlers
<1>2. left' \in [Budget -> Nat] /\ removing' \in BOOLEAN
  BY <1>1, SpendType DEF remove_all_event_handlers, Budget
<1>3. TypeOK'
  BY <1>1, <1>2 DEF TypeOK, Table
<1>4. LoopInv'
  BY <1>1 DEF LoopInv
<1>5. SentInv'
  BY <1>1, SentKept
<1> QED
  BY <1>1, <1>3, <1>4, <1>5

(* The checksum of a table the cloud knows. *)
LEMMA ChecksumSent ==
  ASSUME handlers \in Table, NEW C,
         \A i \in 1..NumHandlers : handlers[i] # None => Topic(handlers[i]) \in C
  PROVE  LET c == compute_subscriptions_checksum(handlers)
         IN c \in Seq(Subscription) /\ \A k \in DOMAIN c : c[k] \in C
<1> DEFINE c == compute_subscriptions_checksum(handlers)
<1>1. /\ c \in Seq(Subscription)
      /\ \A k \in DOMAIN c : \E i \in 1..NumHandlers :
           handlers[i] # None /\ c[k] = Topic(handlers[i])
  BY ChecksumFacts
<1> HIDE DEF c
<1>2. \A k \in DOMAIN c : c[k] \in C
  BY <1>1
<1> QED
  BY <1>1, <1>2 DEF c

LEMMA SendStep ==
  ASSUME IInv, send_subscription
  PROVE  IInv'
<1> USE DEF IInv
<1>1. /\ adding \in Subscription /\ adding' = None /\ handlers \in Table
      /\ UNCHANGED <<handlers, event, place, called, removing, inHandler, connected>>
  BY DEF send_subscription, TypeOK, Table
<1>2. NoHoles' /\ LoopInv'
  BY <1>1, LoopKept DEF NoHoles
<1>3. CASE /\ connected /\ cloud' = cloud \cup {adding} /\ update_subscription_crc
           /\ unsent' = unsent \ {adding} /\ UNCHANGED left
  <2> DEFINE c == compute_subscriptions_checksum(handlers)
  <2>1. crc' = c
    BY <1>3 DEF update_subscription_crc
  <2>2. \A i \in 1..NumHandlers : handlers[i] # None => Topic(handlers[i]) \in Handed'
    BY <1>3 DEF SentInv, Handed
  <2>3. c \in Seq(Subscription) /\ \A k \in DOMAIN c : c[k] \in Handed'
    BY <1>1, <2>2, ChecksumFacts, ChecksumSent
  <2> HIDE DEF c
  <2>4. TypeOK'
    BY <1>1, <1>3, <2>1, <2>3 DEF TypeOK
  <2>5. SentInv'
    BY <1>1, <1>3, <2>1, <2>2, <2>3 DEF SentInv, Handed, Topic
  <2> QED
    BY <1>2, <2>4, <2>5
<1>4. CASE Spend("failures") /\ unsent' = unsent \cup {adding} /\ UNCHANGED <<cloud, crc>>
  <2>1. left' \in [Budget -> Nat]
    BY <1>4, SpendType DEF Budget
  <2>2. TypeOK'
    BY <1>1, <1>4, <2>1 DEF TypeOK
  <2>3. SentInv'
    BY <1>1, <1>4 DEF SentInv, Handed, Topic
  <2> QED
    BY <1>2, <2>2, <2>3
<1>5. CASE ~connected /\ UNCHANGED <<cloud, crc, unsent, left>>
  <2>1. TypeOK'
    BY <1>1, <1>5 DEF TypeOK
  <2>2. SentInv'
    BY <1>1, <1>5 DEF SentInv, Handed
  <2> QED
    BY <1>2, <2>1, <2>2
<1> QED
  BY <1>3, <1>4, <1>5 DEF send_subscription

LEMMA BeginStep ==
  ASSUME IInv, begin
  PROVE  IInv'
<1> USE DEF IInv
<1> DEFINE all == Filled(handlers)
<1> DEFINE c == compute_subscriptions_checksum(handlers)
<1>1. /\ connected' = TRUE /\ adding = None /\ handlers \in Table
      /\ UNCHANGED <<handlers, adding, event, place, called, removing, inHandler>>
  BY DEF begin, TypeOK, Table
<1>2. NoHoles' /\ LoopInv'
  BY <1>1, LoopKept DEF NoHoles
<1>3. /\ c \in Seq(Subscription) /\ c # None
      /\ \A i \in 1..NumHandlers : handlers[i] # None => \E k \in DOMAIN c : c[k] = Topic(handlers[i])
  BY <1>1, ChecksumFacts, NoneAssumption
<1>4. /\ all \in Seq(Handler)
      /\ \A i \in 1..NumHandlers : handlers[i] # None => \E k \in 1..Len(all) : all[k] = handlers[i]
  BY <1>1, FilledFacts
<1> HIDE DEF all, c
<1>5. CASE crc = c /\ Spend("sessions") /\ UNCHANGED <<cloud, crc, unsent>>
  <2>1. left' \in [Budget -> Nat]
    BY <1>5, SpendType DEF Budget
  <2>2. TypeOK'
    BY <1>1, <1>5, <2>1 DEF TypeOK
  <2>3. /\ \A k \in DOMAIN c : c[k] \in Handed
        /\ \A i \in 1..NumHandlers : handlers[i] # None => Topic(handlers[i]) \in Handed
    <3>1. \A k \in DOMAIN c : c[k] \in Handed
      BY <1>3, <1>5 DEF SentInv
    <3> QED
      BY <1>3, <3>1
  <2>4. SentInv'
    BY <1>1, <1>5, <2>3 DEF SentInv, Topic, Handed
  <2> QED
    BY <1>2, <2>2, <2>4
<1>6. CASE left["sessions"] > 0 /\ send_subscriptions
  <2>1. PICK k \in 0..Len(all) :
          /\ k < Len(all) => left["failures"] > 0
          /\ left' = [left EXCEPT !["sessions"] = @ - 1,
                                  !["failures"] = IF k < Len(all) THEN @ - 1 ELSE @]
          /\ cloud' = {Topic(all[i]) : i \in 1..k}
          /\ unsent' = {Topic(all[i]) : i \in k+1..Len(all)}
          /\ IF k = Len(all) THEN crc' = c ELSE crc' = None
    BY <1>6 DEF send_subscriptions, SendEach, update_subscription_crc, all, c
  <2>2. left' \in [Budget -> Nat]
    <3>1. left \in [Budget -> Nat] /\ "sessions" \in Budget /\ "failures" \in Budget
      BY DEF TypeOK, Budget
    <3>2. left["sessions"] - 1 \in Nat /\ (k < Len(all) => left["failures"] - 1 \in Nat)
      BY <1>6, <2>1, <3>1
    <3> QED
      BY <2>1, <3>1, <3>2
  <2>3. \A i \in 1..Len(all) : all[i] \in Handler
    BY <1>4
  <2>4. TypeOK'
    <3>0. 1..k \subseteq 1..Len(all) /\ k+1..Len(all) \subseteq 1..Len(all)
      BY <1>4
    <3>1. cloud' \subseteq Subscription /\ unsent' \subseteq Subscription
      BY <2>1, <2>3, <3>0, TopicType
    <3>2. crc' \in Seq(Subscription) \cup {None}
      BY <1>3, <2>1
    <3> QED
      BY <1>1, <2>2, <3>1, <3>2 DEF TypeOK
  <2>5. ASSUME NEW i \in 1..NumHandlers, handlers[i] # None
        PROVE  Topic(handlers[i]) \in Handed'
    <3>1. PICK j \in 1..Len(all) : all[j] = handlers[i]
      BY <1>4, <2>5
    <3>2. j \in 1..k \/ j \in k+1..Len(all)
      BY <1>4
    <3> QED
      BY <2>1, <3>1, <3>2 DEF Handed
  <2>6. \A j \in DOMAIN c : c[j] \in Handed'
    BY <1>1, <2>5, ChecksumSent DEF c
  <2>7. crc' = c \/ crc' = None
    BY <2>1
  <2>8. SentInv'
    BY <1>1, <2>5, <2>6, <2>7 DEF SentInv, Handed, Topic
  <2> QED
    BY <1>2, <2>4, <2>8
<1> QED
  BY <1>5, <1>6 DEF begin, c

LEMMA DisconnectStep ==
  ASSUME IInv, disconnect
  PROVE  IInv'
<1> USE DEF IInv
<1>1. /\ connected' = FALSE
      /\ UNCHANGED <<handlers, adding, event, place, called, removing, inHandler, crc, cloud, unsent,
                     left>>
  BY DEF disconnect
<1>2. TypeOK'
  BY <1>1 DEF TypeOK
<1>3. NoHoles' /\ LoopInv'
  BY <1>1, LoopKept DEF NoHoles
<1>4. SentInv'
  BY <1>1 DEF SentInv, Handed
<1> QED
  BY <1>2, <1>3, <1>4

LEMMA ResetStep ==
  ASSUME IInv, Reset
  PROVE  IInv'
<1> USE DEF IInv
<1>1. /\ handlers' \in Table /\ NoHoles' /\ adding' = None /\ connected' = FALSE
      /\ event' = None /\ place' = 1 /\ called' = <<>> /\ removing' = FALSE /\ inHandler' = FALSE
      /\ UNCHANGED <<crc, cloud, unsent>>
  BY EmptyTable DEF Reset
<1>2. left' \in [Budget -> Nat] /\ <<>> \in Seq(Handler) /\ 1 \in 1..NumHandlers + 1
  BY SpendType, SizeAssumption DEF Reset, Budget
<1>3. TypeOK'
  BY <1>1, <1>2 DEF TypeOK, Table
<1>4. LoopInv' /\ SentInv'
  BY <1>1 DEF LoopInv, SentInv, Handed
<1> QED
  BY <1>1, <1>3, <1>4

LEMMA EventStep ==
  ASSUME IInv, NEW e \in Name, handle_event(e)
  PROVE  IInv'
<1> USE DEF IInv
<1>1. /\ event = None /\ event' = e /\ place' = 1 /\ called' = <<>> /\ removing' = FALSE
      /\ UNCHANGED <<handlers, adding, inHandler, connected, crc, cloud, unsent>>
  BY DEF handle_event
<1>2. left' \in [Budget -> Nat] /\ <<>> \in Seq(Handler) /\ 1 \in 1..NumHandlers + 1
  BY SpendType, SizeAssumption DEF handle_event, Budget
<1>3. TypeOK'
  BY <1>1, <1>2 DEF TypeOK
<1>4. LoopInv'
  <2>1. ~inHandler'
    BY <1>1 DEF LoopInv
  <2>2. Seen' = 0
    BY <1>1, <2>1 DEF Seen
  <2>3. Matching(Seen)' = {}
    BY <2>2 DEF Matching
  <2>4. Selected(handlers', {}) = <<>>
    <3>1. Cardinality({}) = 0
      BY FS_EmptySet
    <3> QED
      BY <3>1 DEF Selected
  <2> QED
    BY <1>1, <2>1, <2>2, <2>3, <2>4 DEF LoopInv
<1>5. NoHoles' /\ SentInv'
  BY <1>1 DEF NoHoles, SentInv, Handed, Topic
<1> QED
  BY <1>3, <1>4, <1>5

LEMMA NextPlaceStep ==
  ASSUME IInv, handle_event_next
  PROVE  IInv'
<1> USE DEF IInv
<1>1. /\ event # None /\ place \in 1..NumHandlers /\ handlers[place] \in Handler
      /\ UNCHANGED <<handlers, adding, event, removing, connected, crc, cloud, unsent, left>>
  BY DEF handle_event_next, AtPlace, TypeOK
<1>a. /\ place \in 1..NumHandlers + 1 /\ place + 1 \in 1..NumHandlers + 1
      /\ called \in Seq(Handler) /\ Append(called, handlers[place]) \in Seq(Handler)
  BY <1>1, SizeAssumption DEF TypeOK
<1>2. called' \in Seq(Handler) /\ inHandler' \in BOOLEAN /\ place' \in 1..NumHandlers + 1
  BY <1>a DEF handle_event_next, TypeOK
<1>3. TypeOK'
  BY <1>1, <1>2 DEF TypeOK
<1>4. LoopInv'
  BY LoopNext
<1>5. NoHoles' /\ SentInv'
  BY <1>1 DEF NoHoles, SentInv, Handed, Topic
<1> QED
  BY <1>3, <1>4, <1>5

LEMMA ReturnStep ==
  ASSUME IInv, handler_returns
  PROVE  IInv'
<1> USE DEF IInv
<1>1. /\ inHandler /\ inHandler' = FALSE /\ place' = place + 1 /\ place \in 1..NumHandlers
      /\ UNCHANGED <<handlers, adding, event, called, removing, connected, crc, cloud, unsent, left>>
  BY SizeAssumption DEF handler_returns, LoopInv, TypeOK
<1>a. place + 1 \in 1..NumHandlers + 1
  BY <1>1, SizeAssumption
<1>2. TypeOK'
  BY <1>1, <1>a DEF TypeOK
<1>3. LoopInv'
  <2>1. Seen' = Seen
    BY <1>1 DEF Seen
  <2>2. Matching(Seen)' = Matching(Seen)
    BY <1>1, <2>1 DEF Matching, Matches
  <2> QED
    BY <1>1, <2>1, <2>2 DEF LoopInv
<1>4. NoHoles' /\ SentInv'
  BY <1>1 DEF NoHoles, SentInv, Handed, Topic
<1> QED
  BY <1>2, <1>3, <1>4

LEMMA EndStep ==
  ASSUME IInv, handle_event_end
  PROVE  IInv'
<1> USE DEF IInv
<1>1. /\ ~inHandler /\ event' = None /\ place' = 1 /\ called' = <<>> /\ removing' = FALSE
      /\ UNCHANGED <<handlers, adding, inHandler, connected, crc, cloud, unsent, left>>
  BY DEF handle_event_end, AtEnd
<1>2. <<>> \in Seq(Handler) /\ 1 \in 1..NumHandlers + 1
  BY SizeAssumption
<1>3. TypeOK'
  BY <1>1, <1>2 DEF TypeOK
<1>4. LoopInv' /\ NoHoles' /\ SentInv'
  BY <1>1 DEF LoopInv, NoHoles, SentInv, Handed, Topic
<1> QED
  BY <1>3, <1>4

-----------------------------------------------------------------------------
(* The theorems.                                                            *)

LEMMA StepIInv == IInv /\ [Next]_vars => IInv'
<1> SUFFICES ASSUME IInv, [Next]_vars PROVE IInv'
  OBVIOUS
<1>1. CASE UNCHANGED vars
  <2>1. TypeOK' /\ NoHoles' /\ SentInv'
    BY <1>1 DEF IInv, TypeOK, NoHoles, SentInv, Handed, Topic, vars
  <2>2. LoopInv'
    BY <1>1, LoopKept DEF IInv, vars
  <2> QED
    BY <2>1, <2>2 DEF IInv
<1>2. CASE \E n \in Name, w \in Who, d \in DeviceId : add_event_handler(n, w, d)
  BY <1>2, AddStep
<1>3. CASE \E n \in Name : remove_event_handlers(n)
  BY <1>3, RemoveStep
<1>4. CASE remove_all_event_handlers
  BY <1>4, RemoveAllStep
<1>5. CASE send_subscription
  BY <1>5, SendStep
<1>6. CASE begin
  BY <1>6, BeginStep
<1>7. CASE disconnect
  BY <1>7, DisconnectStep
<1>8. CASE Reset
  BY <1>8, ResetStep
<1>9. CASE \E e \in Name : handle_event(e)
  BY <1>9, EventStep
<1>10. CASE handle_event_next
  BY <1>10, NextPlaceStep
<1>11. CASE handler_returns
  BY <1>11, ReturnStep
<1>12. CASE handle_event_end
  BY <1>12, EndStep
<1> QED
  BY <1>1, <1>2, <1>3, <1>4, <1>5, <1>6, <1>7, <1>8, <1>9, <1>10, <1>11, <1>12 DEF Next

(* The invariant holds, whatever the application and the cloud do. *)
THEOREM Invariance == Spec => []IInv
BY InitIInv, StepIInv, PTL DEF Spec

(* The table has no holes that would make handle_event stop early. *)
THEOREM TableHasNoHoles == Spec => []NoHoles
<1>1. IInv => NoHoles
  BY DEF IInv
<1> QED
  BY <1>1, Invariance, PTL

(* A session is resumed without sending the subscriptions only if the cloud *)
(* knows all of them but those that could not be sent in it.                *)
THEOREM ResumedSessionIsKnown == Spec => []OnlyRefusedUnknown
<1>1. IInv => OnlyRefusedUnknown
  <2> SUFFICES ASSUME IInv, crc = compute_subscriptions_checksum(handlers),
                      NEW i \in 1..NumHandlers, handlers[i] # None
               PROVE  Topic(handlers[i]) \in Handed
    BY DEF OnlyRefusedUnknown, Resumable, Subscribed, Handed
  <2>1. handlers \in Table
    BY DEF IInv, TypeOK, Table
  <2>2. crc \in Seq(Subscription) /\ \E k \in DOMAIN crc : crc[k] = Topic(handlers[i])
    BY <2>1, ChecksumFacts
  <2>3. crc # None
    BY <2>2, NoneAssumption
  <2>4. \A k \in DOMAIN crc : crc[k] \in Handed
    BY <2>3 DEF IInv, SentInv
  <2> QED
    BY <2>2, <2>4
<1> QED
  BY <1>1, Invariance, PTL

(* The filter of a handler begins the event's name, as the code finds it. *)
LEMMA MatchesIsPrefix ==
  ASSUME NEW h \in Handler, event \in Seq(Char)
  PROVE  Matches(h) <=> IsPrefix(h.filter, event)
<1>1. h.filter \in Seq(Char)
  BY DEF Handler
<1>2. SubSeq(h.filter, 1, Len(h.filter)) = h.filter
  BY <1>1
<1>3. Len(h.filter) \in Nat /\ Len(event) \in Nat
  BY <1>1
<1> QED
  BY <1>2, <1>3 DEF Matches, IsPrefix

(* handle_event calls each handler whose filter begins the event's name     *)
(* once and in order, also those a handler adds.                            *)
THEOREM MatchesAreCalled == Spec => []EveryMatchCalled
<1>1. IInv => EveryMatchCalled
  <2> SUFFICES ASSUME IInv, AtEnd, ~removing
               PROVE  called = Selected(handlers, {i \in 1..NumHandlers :
                                  handlers[i] # None /\ IsPrefix(handlers[i].filter, event)})
    BY DEF EveryMatchCalled
  <2> USE DEF IInv
  <2>1. /\ event # None /\ event \in Seq(Char) /\ ~inHandler /\ place \in 1..NumHandlers + 1
        /\ place <= NumHandlers => handlers[place] = None
    BY NameAssumption DEF AtEnd, TypeOK
  <2>2. Seen = place - 1 /\ called = Selected(handlers, Matching(place - 1))
    BY <2>1 DEF Seen, LoopInv
  <2>3. \A i \in 1..NumHandlers : handlers[i] # None => i \in 1..place - 1
    <3> SUFFICES ASSUME NEW i \in 1..NumHandlers, handlers[i] # None, i >= place
                 PROVE  FALSE
      BY <2>1, SizeAssumption
    <3>1. place \in 1..NumHandlers /\ i # place
      BY <2>1, SizeAssumption
    <3>2. place < i
      BY <3>1
    <3> QED
      BY <2>1, <3>1, <3>2 DEF NoHoles
  <2>4. \A i \in 1..NumHandlers :
          handlers[i] # None => (Matches(handlers[i]) <=> IsPrefix(handlers[i].filter, event))
    BY <2>1, MatchesIsPrefix DEF TypeOK
  <2>5. 1..place - 1 \subseteq 1..NumHandlers
    BY <2>1, SizeAssumption
  <2>6. Matching(place - 1) = {i \in 1..NumHandlers : /\ handlers[i] # None
                                                      /\ IsPrefix(handlers[i].filter, event)}
    BY <2>3, <2>4, <2>5, Zenon DEF Matching
  <2> QED
    BY <2>2, <2>6
<1> QED
  BY <1>1, Invariance, PTL
=============================================================================
