------------------------- MODULE PoolAllocator_proofs -------------------------
(***************************************************************************)
(* Proofs about PoolAllocator, for every pool size, word and header size    *)
(* and every set of requests.                                               *)
(***************************************************************************)
EXTENDS PoolAllocator, TLAPS

-----------------------------------------------------------------------------
(* Operators.                                                               *)

(* aligned() rounds up, and always adds something. *)
LEMMA AlignedAdds ==
  ASSUME NEW n \in Nat
  PROVE  aligned(n) \in Nat /\ aligned(n) > n
BY SizesAssumption DEF aligned

(* Without removes one element. *)
LEMMA WithoutFacts ==
  ASSUME NEW S, NEW s \in Seq(S), NEW k \in 1..Len(s)
  PROVE  /\ Without(s, k) \in Seq(S)
         /\ Len(Without(s, k)) = Len(s) - 1
         /\ \A i \in 1..Len(s) - 1 : Without(s, k)[i] = IF i < k THEN s[i] ELSE s[i + 1]
BY DEF Without

-----------------------------------------------------------------------------
(* The invariant holds at the beginning. *)
LEMMA InitIInv == Init => IInv
<1> SUFFICES ASSUME Init PROVE IInv
  OBVIOUS
<1> USE SizesAssumption DEF Init, Block
<1>1. DOMAIN size = {} /\ DOMAIN lent = {} /\ Len(freeList) = 0
  OBVIOUS
<1>2. TypeOK
  <2>1. size \in [DOMAIN size -> Nat] /\ lent \in [DOMAIN lent -> Nat]
    BY <1>1
  <2> QED
    BY <1>1, <2>1 DEF TypeOK
<1>3. BlocksInv /\ PlacesInv /\ RoomInv
  BY <1>1 DEF BlocksInv, PlacesInv, RoomInv
<1>4. ListInv /\ ShrunkInv
  BY <1>1 DEF ListInv, ShrunkInv, EndIsTop
<1> QED
  BY <1>2, <1>3, <1>4 DEF IInv

(* A new block on top. *)
LEMMA AllocateTopStep ==
  ASSUME IInv, NEW n \in Request, allocateTop(n)
  PROVE  IInv'
<1> DEFINE v == aligned(Header + n)
<1>1. v \in Nat /\ v > Header + n /\ Header \in Nat /\ n \in Nat
  BY AlignedAdds, SizesAssumption
<1>2. ptr \in Nat /\ ptr' = ptr + v /\ PoolSize - ptr >= v /\ ptr \notin Block
  BY <1>1 DEF IInv, TypeOK, BlocksInv, allocateTop
<1>3. /\ DOMAIN size' = Block \cup {ptr} /\ size' \in [Block \cup {ptr} -> Nat]
      /\ size'[ptr] = v /\ \A b \in Block : size'[b] = size[b]
  BY <1>1, <1>2 DEF IInv, TypeOK, allocateTop, Block, With
<1>4. /\ DOMAIN lent' = DOMAIN lent \cup {ptr} /\ lent' \in [DOMAIN lent \cup {ptr} -> Nat]
      /\ lent'[ptr] = n /\ \A b \in DOMAIN lent : lent'[b] = lent[b]
  BY <1>1, <1>2 DEF IInv, TypeOK, PlacesInv, allocateTop, Block, With
<1> HIDE DEF v
<1>5. UNCHANGED <<freeList, freeListEnd, pc>>
  BY DEF allocateTop
<1>6. TypeOK'
  BY <1>1, <1>2, <1>3, <1>4, <1>5, SizesAssumption DEF IInv, TypeOK, Block
<1>7. BlocksInv'
  <2>1. \A b \in Block' : size'[b] > 0 /\ b + size'[b] <= ptr'
    BY <1>1, <1>2, <1>3 DEF IInv, TypeOK, BlocksInv, Block
  <2>2. \A b, c \in Block' : b < c => b + size'[b] <= c
    BY <1>1, <1>2, <1>3 DEF IInv, TypeOK, BlocksInv, Block
  <2>3. \A b \in Block' : b = 0 \/ \E c \in Block' : c + size'[c] = b
    BY <1>1, <1>2, <1>3 DEF IInv, TypeOK, BlocksInv, Block
  <2>4. \E b \in Block' : b + size'[b] = ptr'
    BY <1>1, <1>2, <1>3 DEF Block
  <2> QED
    BY <2>1, <2>2, <2>3, <2>4 DEF BlocksInv
<1>8. PlacesInv'
  BY <1>2, <1>3, <1>4, <1>5 DEF IInv, PlacesInv, Block
<1>9. ListInv'
  BY <1>5 DEF IInv, ListInv
<1>10. RoomInv'
  BY <1>1, <1>2, <1>3, <1>4 DEF IInv, RoomInv, PlacesInv
<1>11. ShrunkInv'
  <2>1. freeListEnd = Null \/ freeListEnd \in Block
    BY DEF IInv, TypeOK, ListInv, PlacesInv
  <2> QED
    BY <1>1, <1>2, <1>3, <1>5, <2>1 DEF IInv, TypeOK, BlocksInv, ShrunkInv, EndIsTop, Block
<1> QED
  BY <1>6, <1>7, <1>8, <1>9, <1>10, <1>11 DEF IInv

(* A block of the free list is lent again. *)
LEMMA AllocateFreeStep ==
  ASSUME IInv, NEW n \in Request, allocateFree(n)
  PROVE  IInv'
<1> DEFINE v == aligned(Header + n)
<1>1. v \in Nat /\ v > Header + n /\ Header \in Nat /\ n \in Nat
  BY AlignedAdds, SizesAssumption
<1>2. PICK k \in 1..Len(freeList) :
        /\ size[freeList[k]] >= v
        /\ freeList' = Without(freeList, k)
        /\ freeListEnd' = IF freeList[k] # freeListEnd THEN freeListEnd
                          ELSE IF k > 1 THEN freeList[k - 1]
                          ELSE IF Len(freeList) > 1 THEN freeList[2] ELSE Null
        /\ lent' = With(lent, freeList[k], n)
  BY DEF allocateFree, Candidate
<1> HIDE DEF v
<1>3. UNCHANGED <<ptr, size, pc>>
  BY DEF allocateFree
<1> DEFINE m == Len(freeList)  x == freeList[k]
<1>4. /\ freeList \in Seq(Nat) /\ m \in Nat /\ x \in Nat
      /\ x \in Block /\ x \notin DOMAIN lent /\ Block \subseteq Nat
      /\ freeListEnd = freeList[m] /\ freeListEnd \in Block
  BY <1>2 DEF IInv, TypeOK, ListInv, PlacesInv
<1>5. /\ freeList' \in Seq(Nat) /\ Len(freeList') = m - 1
      /\ \A i \in 1..m - 1 : freeList'[i] = IF i < k THEN freeList[i] ELSE freeList[i + 1]
  BY <1>2, <1>4, WithoutFacts
<1>6. /\ DOMAIN lent' = DOMAIN lent \cup {x} /\ lent' \in [DOMAIN lent \cup {x} -> Nat]
      /\ lent'[x] = n /\ \A b \in DOMAIN lent : lent'[b] = lent[b]
  BY <1>1, <1>2, <1>4 DEF IInv, TypeOK, With
<1>7. \A i, j \in 1..m : i < j => freeList[i] < freeList[j]
  BY DEF IInv, ListInv
<1>8. \A i, j \in 1..m - 1 : i < j => freeList'[i] < freeList'[j]
  <2> SUFFICES ASSUME NEW i \in 1..m - 1, NEW j \in 1..m - 1, i < j
               PROVE  freeList'[i] < freeList'[j]
    OBVIOUS
  <2> DEFINE p == IF i < k THEN i ELSE i + 1  q == IF j < k THEN j ELSE j + 1
  <2>1. p \in 1..m /\ q \in 1..m /\ p < q
    BY <1>2, <1>4
  <2>2. freeList'[i] = freeList[p] /\ freeList'[j] = freeList[q]
    BY <1>5
  <2> QED
    BY <1>7, <2>1, <2>2
<1>9. freeListEnd' = IF freeList' = <<>> THEN Null ELSE freeList'[Len(freeList')]
  <2>0. freeList' = <<>> <=> m = 1
    BY <1>4, <1>5
  <2>1. CASE k = m
    BY <1>2, <1>4, <1>5, <2>0, <2>1
  <2>2. CASE k < m
    <3>1. x # freeListEnd
      BY <1>2, <1>4, <1>7, <2>2
    <3>2. freeList'[m - 1] = freeList[m]
      <4>1. m - 1 \in 1..m - 1 /\ ~(m - 1 < k) /\ (m - 1) + 1 = m
        BY <1>4, <2>2
      <4> QED
        BY <1>5, <4>1
    <3> QED
      BY <1>2, <1>4, <1>5, <2>0, <2>2, <3>1, <3>2
  <2> QED
    BY <1>2, <1>4, <2>1, <2>2
<1>10. ListInv'
  BY <1>5, <1>8, <1>9 DEF ListInv
<1>11. freeListEnd' = Null \/ freeListEnd' \in Nat
  BY <1>4, <1>5, <1>9
<1>12. TypeOK'
  BY <1>3, <1>5, <1>6, <1>4, <1>11 DEF IInv, TypeOK, Block
<1>13. BlocksInv'
  BY <1>3 DEF IInv, BlocksInv, Block
<1>14. PlacesInv'
  <2>1. DOMAIN lent' \subseteq Block'
    BY <1>3, <1>4, <1>6 DEF IInv, PlacesInv, Block
  <2>2. \A i \in 1..Len(freeList') : freeList'[i] \in Block' \ DOMAIN lent'
    <3> SUFFICES ASSUME NEW i \in 1..m - 1
                 PROVE  freeList'[i] \in Block' \ DOMAIN lent'
      BY <1>5
    <3> DEFINE p == IF i < k THEN i ELSE i + 1
    <3>1. p \in 1..m /\ p # k /\ freeList'[i] = freeList[p]
      BY <1>4, <1>5
    <3>2. freeList[p] \in Block /\ freeList[p] \notin DOMAIN lent
      BY <3>1 DEF IInv, PlacesInv
    <3>3. freeList[p] # x
      BY <1>2, <1>4, <1>7, <3>1
    <3> QED
      BY <1>3, <1>6, <3>1, <3>2, <3>3 DEF Block
  <2>3. ASSUME NEW b \in Block' \ DOMAIN lent'
        PROVE  \E i \in 1..Len(freeList') : freeList'[i] = b
    <3>1. b \in Block \ DOMAIN lent /\ b # x
      BY <1>3, <1>6 DEF Block
    <3>2. PICK j \in 1..m : freeList[j] = b
      BY <3>1 DEF IInv, PlacesInv
    <3> DEFINE i == IF j < k THEN j ELSE j - 1
    <3>3. j # k
      BY <3>1, <3>2
    <3>4. i \in 1..m - 1 /\ (IF i < k THEN i ELSE i + 1) = j
      BY <1>4, <3>3
    <3>5. freeList'[i] = b
      BY <1>5, <3>2, <3>4
    <3> QED
      BY <1>5, <3>4, <3>5
  <2> QED
    BY <2>1, <2>2, <2>3 DEF PlacesInv
<1>15. RoomInv'
  <2>1. size[x] \in Nat
    BY <1>4 DEF IInv, TypeOK
  <2> QED
    BY <1>1, <1>2, <1>3, <1>4, <1>6, <2>1 DEF IInv, RoomInv
<1>16. ShrunkInv'
  <2> SUFFICES ASSUME freeListEnd' # Null, freeListEnd' + size[freeListEnd'] = ptr
               PROVE  FALSE
    BY <1>3 DEF ShrunkInv, EndIsTop
  <2>0. pc = "idle" /\ ~EndIsTop
    BY DEF allocateFree, IInv, ShrunkInv
  <2>1. freeListEnd + size[freeListEnd] # ptr
    BY <2>0, <1>4, SizesAssumption DEF EndIsTop
  <2>2. freeListEnd' # freeListEnd /\ freeListEnd = x /\ k = m
    BY <1>2, <1>4, <1>7, <2>1
  <2>3. m > 1 /\ freeListEnd' = freeList[m - 1]
    BY <1>2, <1>4, <2>2
  <2>4. freeListEnd' \in Block /\ freeListEnd' < x
    BY <1>4, <1>7, <2>2, <2>3 DEF IInv, PlacesInv
  <2>5. freeListEnd' + size[freeListEnd'] <= x /\ x + size[x] <= ptr /\ size[x] > 0
    BY <1>4, <2>4 DEF IInv, BlocksInv
  <2> QED
    BY <1>4, <2>4, <2>5 DEF IInv, TypeOK
<1> QED
  BY <1>10, <1>12, <1>13, <1>14, <1>15, <1>16 DEF IInv

(* The topmost block leaves the pool: what is left still has no gap. *)
LEMMA TopBlockLeaves ==
  ASSUME IInv, NEW b \in Block, b + size[b] = ptr,
         ptr' = ptr - size[b], size' = Less(size, b)
  PROVE  /\ BlocksInv' /\ Block' = Block \ {b} /\ size' \in [Block' -> Nat]
         /\ ptr' \in 0..PoolSize /\ \A c \in Block' : size'[c] = size[c]
<1>1. /\ Block' = Block \ {b} /\ size' \in [Block' -> Nat]
      /\ \A c \in Block' : size'[c] = size[c]
  BY DEF Less, IInv, TypeOK, Block
<1>2. /\ Block \subseteq Nat /\ b \in Nat /\ \A c \in Block : size[c] \in Nat
      /\ ptr' = b /\ ptr \in 0..PoolSize /\ PoolSize \in Nat
  BY SizesAssumption DEF IInv, TypeOK
<1>3. \A c \in Block' : size'[c] > 0 /\ c + size'[c] <= ptr'
  BY <1>1, <1>2 DEF IInv, BlocksInv
<1>4. \A c, d \in Block' : c < d => c + size'[c] <= d
  BY <1>1 DEF IInv, BlocksInv
<1>5. ASSUME NEW c \in Block, c # 0
      PROVE  \E d \in Block' : d + size'[d] = c
  <2>1. PICK d \in Block : d + size[d] = c
    BY <1>5 DEF IInv, BlocksInv
  <2>2. d # b
    BY <1>2, <2>1 DEF IInv, BlocksInv
  <2> QED
    BY <1>1, <2>1, <2>2
<1>6. ptr' = 0 \/ \E d \in Block' : d + size'[d] = ptr'
  BY <1>2, <1>5
<1>7. \A c \in Block' : c = 0 \/ \E d \in Block' : d + size'[d] = c
  BY <1>1, <1>5
<1>8. BlocksInv'
  BY <1>3, <1>4, <1>6, <1>7 DEF BlocksInv
<1>9. ptr' \in 0..PoolSize
  BY <1>2 DEF IInv, BlocksInv
<1> QED
  BY <1>1, <1>8, <1>9

(* The topmost block is returned. *)
LEMMA DeallocateTopStep ==
  ASSUME IInv, NEW b \in DOMAIN lent, deallocate(b), b + size[b] = ptr
  PROVE  IInv'
<1>1. /\ ptr' = ptr - size[b] /\ size' = Less(size, b) /\ lent' = Less(lent, b)
      /\ UNCHANGED <<freeList, freeListEnd>> /\ pc' = "shrink"
  BY DEF deallocate
<1>2. b \in Block
  BY DEF IInv, PlacesInv
<1>3. /\ BlocksInv' /\ Block' = Block \ {b} /\ size' \in [Block' -> Nat]
      /\ ptr' \in 0..PoolSize /\ \A c \in Block' : size'[c] = size[c]
  BY <1>1, <1>2, TopBlockLeaves
<1>4. /\ DOMAIN lent' = DOMAIN lent \ {b} /\ lent' \in [DOMAIN lent' -> Nat]
      /\ \A c \in DOMAIN lent' : lent'[c] = lent[c]
  BY <1>1 DEF Less, IInv, TypeOK
<1>5. TypeOK'
  BY <1>1, <1>3, <1>4 DEF IInv, TypeOK
<1>6. PlacesInv'
  BY <1>1, <1>3, <1>4 DEF IInv, PlacesInv
<1>7. ListInv' /\ ShrunkInv'
  BY <1>1 DEF IInv, ListInv, ShrunkInv
<1>8. RoomInv'
  BY <1>3, <1>4, <1>6 DEF IInv, RoomInv, PlacesInv
<1> QED
  BY <1>3, <1>5, <1>6, <1>7, <1>8 DEF IInv

(* Another block is returned and linked into the free list. *)
LEMMA DeallocateListStep ==
  ASSUME IInv, NEW b \in DOMAIN lent, deallocate(b), b + size[b] # ptr
  PROVE  IInv'
<1> DEFINE m == Len(freeList)
<1>1. insertFree(b) /\ UNCHANGED <<ptr, size>> /\ lent' = Less(lent, b) /\ pc' = "shrink"
  BY DEF deallocate
<1>2. PICK ins \in 0..Len(freeList) :
        /\ ins > 0 => freeList[ins] < b
        /\ \A i \in ins + 1..m : ~(freeList[i] < b)
        /\ freeList' = Inserted(freeList, ins, b)
        /\ freeListEnd' = IF ins = 0
                          THEN IF freeList = <<>> THEN b ELSE freeListEnd
                          ELSE IF freeList[ins] = freeListEnd THEN b ELSE freeListEnd
  BY <1>1 DEF insertFree
<1>3. /\ freeList \in Seq(Nat) /\ m \in Nat /\ b \in Nat /\ b \in Block
      /\ \A i \in 1..m : freeList[i] \in Nat /\ freeList[i] # b
  BY DEF IInv, TypeOK, PlacesInv
<1>4. /\ freeList' \in Seq(Nat) /\ Len(freeList') = m + 1
      /\ \A i \in 1..m + 1 :
           freeList'[i] = IF i <= ins THEN freeList[i] ELSE IF i = ins + 1 THEN b ELSE freeList[i - 1]
  <2>1. freeList' = Inserted(freeList, ins, b)
    BY <1>2
  <2> QED
    BY <1>3, <2>1 DEF Inserted
<1>5. /\ DOMAIN lent' = DOMAIN lent \ {b} /\ lent' \in [DOMAIN lent' -> Nat]
      /\ \A c \in DOMAIN lent' : lent'[c] = lent[c]
  BY <1>1 DEF Less, IInv, TypeOK
<1>6. \A i, j \in 1..m : i < j => freeList[i] < freeList[j]
  BY DEF IInv, ListInv
<1>7. \A i \in 1..m : IF i <= ins THEN freeList[i] < b ELSE b < freeList[i]
  BY <1>2, <1>3, <1>6
<1>8. ASSUME NEW i \in 1..m + 1, NEW j \in 1..m + 1, i < j
      PROVE  freeList'[i] < freeList'[j]
  <2>1. CASE j <= ins
    <3>1. i \in 1..m /\ j \in 1..m /\ i <= ins
      BY <1>3, <1>8, <2>1
    <3>2. freeList'[i] = freeList[i] /\ freeList'[j] = freeList[j]
      BY <1>4, <2>1, <3>1
    <3> QED
      BY <1>6, <1>8, <3>1, <3>2
  <2>2. CASE j = ins + 1
    BY <1>4, <1>7, <1>8, <2>2
  <2>3. CASE j > ins + 1 /\ i <= ins
    <3>1. j - 1 \in 1..m /\ i \in 1..m /\ i < j - 1
      BY <1>3, <2>3
    <3>2. freeList'[i] = freeList[i] /\ freeList'[j] = freeList[j - 1]
      BY <1>4, <2>3
    <3> QED
      BY <1>6, <3>1, <3>2
  <2>4. CASE j > ins + 1 /\ i = ins + 1
    <3>1. j - 1 \in 1..m /\ ~(j - 1 <= ins)
      BY <1>3, <2>4
    <3>2. freeList'[i] = b /\ freeList'[j] = freeList[j - 1]
      BY <1>4, <2>4
    <3> QED
      BY <1>7, <3>1, <3>2
  <2>5. CASE j > ins + 1 /\ i > ins + 1
    <3>1. j - 1 \in 1..m /\ i - 1 \in 1..m /\ i - 1 < j - 1
      BY <1>3, <1>8, <2>5
    <3>2. freeList'[i] = freeList[i - 1] /\ freeList'[j] = freeList[j - 1]
      BY <1>4, <2>5
    <3> QED
      BY <1>6, <3>1, <3>2
  <2> QED
    BY <1>3, <2>1, <2>2, <2>3, <2>4, <2>5
<1>9. freeListEnd' = freeList'[m + 1]
  <2>1. freeList'[m + 1] = IF ins = m THEN b ELSE freeList[m]
    <3>1. m + 1 \in 1..m + 1 /\ ~(m + 1 <= ins) /\ (m + 1) - 1 = m /\ (m + 1 = ins + 1 <=> ins = m)
      BY <1>3
    <3> QED
      BY <1>4, <3>1
  <2>2. freeList = <<>> <=> m = 0
    BY <1>3
  <2>3. m > 0 => freeListEnd = freeList[m]
    BY <2>2 DEF IInv, ListInv
  <2>4. CASE ins = 0
    BY <1>2, <1>3, <2>1, <2>2, <2>3, <2>4
  <2>5. CASE ins > 0
    <3>1. freeList[ins] = freeList[m] <=> ins = m
      BY <1>3, <1>6, <2>5
    <3> QED
      BY <1>2, <1>3, <2>1, <2>3, <2>5, <3>1
  <2> QED
    BY <1>3, <2>4, <2>5
<1>10. freeList' # <<>>
  BY <1>3, <1>4
<1>11. ListInv'
  BY <1>4, <1>8, <1>9, <1>10 DEF ListInv
<1>12. TypeOK'
  <2>1. freeListEnd' \in Nat
    BY <1>3, <1>4, <1>9
  <2> QED
    BY <1>1, <1>4, <1>5, <2>1 DEF IInv, TypeOK, Block
<1>13. BlocksInv'
  BY <1>1 DEF IInv, BlocksInv, Block
<1>14. PlacesInv'
  <2>1. DOMAIN lent' \subseteq Block'
    BY <1>1, <1>5 DEF IInv, PlacesInv, Block
  <2>2. ASSUME NEW i \in 1..m + 1 PROVE freeList'[i] \in Block' \ DOMAIN lent'
    <3>1. CASE i = ins + 1
      BY <1>1, <1>3, <1>4, <1>5, <3>1 DEF Block
    <3>2. CASE i # ins + 1
      <4> DEFINE p == IF i <= ins THEN i ELSE i - 1
      <4>1. p \in 1..m
        BY <1>3, <3>2
      <4>2. freeList'[i] = freeList[p]
        BY <1>4, <3>2
      <4> QED
        BY <1>1, <1>5, <4>1, <4>2 DEF IInv, PlacesInv, Block
    <3> QED
      BY <3>1, <3>2
  <2>3. ASSUME NEW c \in Block' \ DOMAIN lent'
        PROVE  \E i \in 1..m + 1 : freeList'[i] = c
    <3>1. CASE c = b
      <4>1. ins + 1 \in 1..m + 1 /\ ~(ins + 1 <= ins)
        BY <1>3
      <4> QED
        BY <1>4, <3>1, <4>1
    <3>2. CASE c # b
      <4>1. PICK j \in 1..m : freeList[j] = c
        BY <1>1, <1>5, <3>2 DEF IInv, PlacesInv, Block
      <4> DEFINE i == IF j <= ins THEN j ELSE j + 1
      <4>2. i \in 1..m + 1 /\ i # ins + 1 /\ (IF i <= ins THEN i ELSE i - 1) = j
        BY <1>3
      <4>3. freeList'[i] = c
        BY <1>4, <4>1, <4>2
      <4> QED
        BY <4>2, <4>3
    <3> QED
      BY <3>1, <3>2
  <2> QED
    BY <1>4, <2>1, <2>2, <2>3 DEF PlacesInv
<1>15. RoomInv' /\ ShrunkInv'
  BY <1>1, <1>5 DEF IInv, RoomInv, ShrunkInv
<1> QED
  BY <1>11, <1>12, <1>13, <1>14, <1>15 DEF IInv

(* One turn of the loop of shrink(). *)
LEMMA ShrinkStep ==
  ASSUME IInv, shrink
  PROVE  IInv'
<1> DEFINE m == Len(freeList)  x == freeListEnd
<1>1. x # Null /\ x + size[x] = ptr /\ UNCHANGED <<lent, pc>> /\ pc = "shrink"
  BY DEF shrink, EndIsTop
<1>2. /\ freeList \in Seq(Nat) /\ m \in Nat /\ m > 0 /\ x = freeList[m] /\ x \in Nat
      /\ x \in Block /\ x \notin DOMAIN lent
  BY <1>1 DEF IInv, TypeOK, ListInv, PlacesInv
<1>3. /\ BlocksInv' /\ Block' = Block \ {x} /\ size' \in [Block' -> Nat]
      /\ ptr' \in 0..PoolSize /\ \A c \in Block' : size'[c] = size[c]
  BY <1>1, <1>2, TopBlockLeaves DEF shrink
<1>4. \A i, j \in 1..m : i < j => freeList[i] < freeList[j]
  BY DEF IInv, ListInv
<1>5. /\ freeList' \in Seq(Nat) /\ Len(freeList') = m - 1
      /\ \A i \in 1..m - 1 : freeList'[i] = freeList[i]
      /\ freeListEnd' = IF m = 1 THEN Null ELSE freeList[m - 1]
  <2>1. ASSUME NEW i \in PrevPlaces PROVE i = m - 1 /\ m > 1
    BY <1>2, <1>4, <2>1 DEF PrevPlaces
  <2>2. m > 1 => m - 1 \in PrevPlaces
    BY <1>2 DEF PrevPlaces
  <2>3. CASE m = 1
    <3>1. PrevPlaces = {}
      BY <2>1, <2>3
    <3>2. freeList' = <<>> /\ freeListEnd' = Null
      BY <3>1 DEF shrink
    <3> QED
      BY <2>3, <3>2
  <2>4. CASE m > 1
    <3>1. freeListEnd' = freeList[m - 1] /\ freeList' = SubSeq(freeList, 1, m - 1)
      BY <2>1, <2>2, <2>4 DEF shrink
    <3>2. m - 1 \in 1..m
      BY <1>2, <2>4
    <3> QED
      BY <1>2, <2>4, <3>1, <3>2
  <2>5. m = 1 \/ m > 1
    <3>1. m \in Nat /\ m > 0
      BY <1>2
    <3> HIDE DEF m
    <3> QED
      BY <3>1
  <2> QED
    BY <2>3, <2>4, <2>5
<1>6. freeList' = <<>> <=> m = 1
  BY <1>2, <1>5
<1>7. ListInv'
  <2>1. ASSUME NEW i \in 1..m - 1, NEW j \in 1..m - 1, i < j
        PROVE  freeList'[i] < freeList'[j]
    <3>1. i \in 1..m /\ j \in 1..m
      BY <1>2
    <3> QED
      BY <1>4, <1>5, <2>1, <3>1
  <2>2. m # 1 => m - 1 \in 1..m - 1
    <3>1. m \in Nat /\ m > 0
      BY <1>2
    <3> HIDE DEF m
    <3> QED
      BY <3>1
  <2> QED
    BY <1>5, <1>6, <2>1, <2>2 DEF ListInv
<1>8. TypeOK'
  <2>1. freeListEnd' \in Nat \cup {Null}
    BY <1>2, <1>5
  <2> QED
    BY <1>1, <1>3, <1>5, <2>1 DEF IInv, TypeOK
<1>9. PlacesInv'
  <2>1. DOMAIN lent' \subseteq Block'
    BY <1>1, <1>2, <1>3 DEF IInv, PlacesInv
  <2>2. ASSUME NEW i \in 1..m - 1 PROVE freeList'[i] \in Block' \ DOMAIN lent'
    <3>1. i \in 1..m /\ i < m
      BY <1>2
    <3>2. freeList[i] \in Block \ DOMAIN lent /\ freeList[i] # x
      BY <1>2, <1>4, <3>1 DEF IInv, PlacesInv
    <3> QED
      BY <1>1, <1>3, <1>5, <3>2
  <2>3. ASSUME NEW c \in Block' \ DOMAIN lent'
        PROVE  \E i \in 1..m - 1 : freeList'[i] = c
    <3>1. PICK i \in 1..m : freeList[i] = c
      BY <1>1, <1>3 DEF IInv, PlacesInv
    <3>2. i # m
      BY <1>2, <1>3, <3>1
    <3> QED
      BY <1>2, <1>5, <3>1, <3>2
  <2> QED
    BY <1>5, <2>1, <2>2, <2>3 DEF PlacesInv
<1>10. RoomInv' /\ ShrunkInv'
  BY <1>1, <1>3, <1>9 DEF IInv, RoomInv, ShrunkInv, PlacesInv
<1> QED
  BY <1>3, <1>7, <1>8, <1>9, <1>10 DEF IInv

(* Every step keeps the invariant. *)
LEMMA NextIInv == IInv /\ [Next]_vars => IInv'
<1> SUFFICES ASSUME IInv, [Next]_vars PROVE IInv'
  OBVIOUS
<1>1. ASSUME NEW n \in Request, allocateTop(n) PROVE IInv'
  BY <1>1, AllocateTopStep
<1>2. ASSUME NEW n \in Request, allocateFree(n) PROVE IInv'
  BY <1>2, AllocateFreeStep
<1>3. ASSUME NEW b \in DOMAIN lent, deallocate(b) PROVE IInv'
  BY <1>3, DeallocateTopStep, DeallocateListStep
<1>4. CASE shrink
  BY <1>4, ShrinkStep
<1>5. CASE shrinkEnd
  <2>1. UNCHANGED <<ptr, size, freeList, freeListEnd, lent>> /\ pc' = "idle" /\ ~EndIsTop
    BY <1>5 DEF shrinkEnd
  <2>2. TypeOK' /\ BlocksInv' /\ PlacesInv' /\ ListInv' /\ RoomInv'
    BY <2>1 DEF IInv, TypeOK, BlocksInv, PlacesInv, ListInv, RoomInv, Block
  <2>3. ShrunkInv'
    BY <2>1 DEF ShrunkInv, EndIsTop
  <2> QED
    BY <2>2, <2>3 DEF IInv
<1>6. CASE UNCHANGED vars
  BY <1>6 DEF vars, IInv, TypeOK, BlocksInv, PlacesInv, ListInv, RoomInv, ShrunkInv, EndIsTop, Block
<1> QED
  BY <1>1, <1>2, <1>3, <1>4, <1>5, <1>6 DEF Next

(* The invariant of the pool holds always. *)
THEOREM Invariance == Spec => []IInv
BY InitIInv, NextIInv, PTL DEF Spec

-----------------------------------------------------------------------------
(* The type invariant of the pool. *)
THEOREM TypeCorrect == Spec => []TypeOK
<1>1. IInv => TypeOK
  BY DEF IInv
<1> QED
  BY <1>1, Invariance, PTL

(* Blocks that allocate() gave out never overlap, lie inside the pool and   *)
(* have the room asked for.                                                 *)
THEOREM LentDisjoint == Spec => []LentBlocksDisjoint
<1>1. ASSUME IInv PROVE LentBlocksDisjoint
  <2>1. DOMAIN lent \subseteq Block /\ Block \subseteq Nat /\ ptr \in 0..PoolSize /\ PoolSize \in Nat
    BY <1>1, SizesAssumption DEF IInv, TypeOK, PlacesInv
  <2>2. \A b \in Block : size[b] \in Nat /\ b + size[b] <= ptr
    BY <1>1 DEF IInv, TypeOK, BlocksInv
  <2>3. \A b, c \in Block : b = c \/ b + size[b] <= c \/ c + size[c] <= b
    BY <1>1, <2>1 DEF IInv, BlocksInv
  <2>4. ASSUME NEW b \in DOMAIN lent
        PROVE  b \in Block /\ b + size[b] <= PoolSize /\ Header + lent[b] <= size[b]
    <3>1. b \in Block /\ b \in Nat /\ size[b] \in Nat /\ b + size[b] <= ptr
      BY <2>1, <2>2
    <3>2. b + size[b] <= PoolSize
      BY <2>1, <3>1
    <3>3. Header + lent[b] <= size[b]
      BY <1>1 DEF IInv, RoomInv
    <3> QED
      BY <3>1, <3>2, <3>3
  <2> QED
    BY <2>1, <2>3, <2>4 DEF LentBlocksDisjoint
<1> QED
  BY <1>1, Invariance, PTL

(* A pool to which every block was returned is as empty as a new one.       *)
THEOREM ReturnsAll == Spec => []AllReturned
<1>1. ASSUME IInv PROVE AllReturned
  <2> SUFFICES ASSUME pc = "idle", DOMAIN lent = {}
               PROVE  ptr = 0 /\ freeList = <<>> /\ freeListEnd = Null
    BY DEF AllReturned
  <2>1. /\ ptr \in Nat /\ Block \subseteq Nat /\ freeList \in Seq(Nat)
        /\ \A b \in Block : size[b] \in Nat /\ size[b] > 0 /\ b + size[b] <= ptr
    BY <1>1, SizesAssumption DEF IInv, TypeOK, BlocksInv
  <2>2. ptr = 0
    <3> SUFFICES ASSUME ptr # 0 PROVE FALSE
      OBVIOUS
    <3>1. PICK b \in Block : b + size[b] = ptr
      BY <1>1 DEF IInv, BlocksInv
    <3>2. PICK i \in 1..Len(freeList) : freeList[i] = b
      BY <1>1 DEF IInv, PlacesInv
    <3> DEFINE m == Len(freeList)
    <3>3. m \in Nat /\ m \in 1..m /\ freeListEnd = freeList[m] /\ freeListEnd \in Block
      BY <1>1, <2>1, <3>2 DEF IInv, ListInv, PlacesInv
    <3>4. i = m \/ b < freeListEnd
      BY <1>1, <3>2, <3>3 DEF IInv, ListInv
    <3>5. ~(b < freeListEnd)
      <4>1. b < freeListEnd => b + size[b] <= freeListEnd
        BY <1>1, <3>3 DEF IInv, BlocksInv
      <4>2. freeListEnd \in Nat /\ size[freeListEnd] \in Nat /\ size[freeListEnd] > 0
            /\ freeListEnd + size[freeListEnd] <= ptr
        BY <2>1, <3>3
      <4> QED
        BY <2>1, <3>1, <4>1, <4>2
    <3>6. freeListEnd + size[freeListEnd] = ptr /\ freeListEnd # Null
      BY <2>1, <3>1, <3>2, <3>3, <3>4, <3>5, SizesAssumption
    <3> QED
      BY <1>1, <3>6 DEF IInv, ShrunkInv, EndIsTop
  <2>3. Block = {}
    BY <2>1, <2>2
  <2>4. Len(freeList) = 0
    BY <1>1, <2>1, <2>3 DEF IInv, PlacesInv
  <2>5. freeList = <<>>
    BY <2>1, <2>4
  <2> QED
    BY <1>1, <2>2, <2>5 DEF IInv, ListInv
<1> QED
  BY <1>1, Invariance, PTL

=============================================================================
