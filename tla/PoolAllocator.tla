---------------------------- MODULE PoolAllocator -----------------------------
(***************************************************************************)
(* The allocator for small, short-lived blocks: SimpleBasePool of           *)
(* system/inc/simple_pool_allocator.h.                                      *)
(*                                                                          *)
(* Addresses are offsets from begin_.  A block is the address of its header;*)
(* size holds the headers' size fields of the blocks below ptr_.  The free  *)
(* list is the sequence one gets by following the next pointers.  Callers   *)
(* return what they were given, once.                                       *)
(***************************************************************************)
EXTENDS Integers, Sequences, FiniteSets

CONSTANTS
  PoolSize,        \* size_
  Word,            \* sizeof(uintptr_t)
  Header,          \* sizeof(BlockHeader)
  Request,         \* the sizes callers ask for
  PreferSmaller,   \* SIMPLE_POOL_PREFER_SMALLER_BLOCK
  Null

ASSUME SizesAssumption ==
  /\ PoolSize \in Nat /\ Word \in Nat \ {0} /\ Header \in Nat
  /\ Request \subseteq Nat /\ PreferSmaller \in BOOLEAN /\ Null \notin Nat

VARIABLES
  ptr,          \* ptr_
  size,         \* block -> its size field
  freeList,     \* freeList_ and what it leads to
  freeListEnd,  \* freeListEnd_
  lent,         \* block -> the size asked for, of the blocks callers have
  pc            \* "idle", or "shrink" inside deallocate

vars == <<ptr, size, freeList, freeListEnd, lent, pc>>

(* The blocks below ptr_, lent or free. *)
Block == DOMAIN size

-----------------------------------------------------------------------------
(* Lists.                                                                   *)

Without(s, k) == [i \in 1..Len(s) - 1 |-> IF i < k THEN s[i] ELSE s[i + 1]]
Inserted(s, k, b) == [i \in 1..Len(s) + 1 |-> IF i <= k THEN s[i] ELSE IF i = k + 1 THEN b ELSE s[i - 1]]

(* A function with one more, or one fewer, element in its domain. *)
With(f, x, v) == [y \in DOMAIN f \cup {x} |-> IF y = x THEN v ELSE f[y]]
Less(f, x) == [y \in DOMAIN f \ {x} |-> f[y]]

-----------------------------------------------------------------------------
(* Always at least one byte more, at most a word. *)
aligned(n) == n + (Word - (n % Word))

(* Mutant: the header is forgotten when ptr_ is moved. *)
allocateTopNoHeader(n) ==
  /\ pc = "idle"
  /\ PoolSize - ptr >= aligned(Header + n)
  /\ size' = With(size, ptr, aligned(Header + n))
  /\ lent' = With(lent, ptr, n)
  /\ ptr' = ptr + aligned(n)
  /\ UNCHANGED <<freeList, freeListEnd, pc>>

(* The free space behind ptr_ is used first. *)
allocateTop(n) ==
  /\ pc = "idle"
  /\ PoolSize - ptr >= aligned(Header + n)
  /\ size' = With(size, ptr, aligned(Header + n))
  /\ lent' = With(lent, ptr, n)
  /\ ptr' = ptr + aligned(Header + n)
  /\ UNCHANGED <<freeList, freeListEnd, pc>>

(* The place in the free list the search ends with: the first of the        *)
(* smallest blocks that are large enough, or the last large enough one.     *)
Candidate(k, need) ==
  LET fits(i) == size[freeList[i]] >= need IN
  /\ k \in 1..Len(freeList) /\ fits(k)
  /\ \A i \in 1..Len(freeList) : fits(i) =>
       IF PreferSmaller
       THEN \/ size[freeList[k]] < size[freeList[i]]
            \/ size[freeList[k]] = size[freeList[i]] /\ k <= i
       ELSE i <= k

(* Otherwise a block of the free list is given out whole. *)
allocateFree(n) ==
  /\ pc = "idle"
  /\ PoolSize - ptr < aligned(Header + n)
  /\ \E k \in 1..Len(freeList) :
       /\ Candidate(k, aligned(Header + n))
       /\ freeList' = Without(freeList, k)
       /\ freeListEnd' = IF freeList[k] # freeListEnd THEN freeListEnd
                         ELSE IF k > 1 THEN freeList[k - 1]
                         ELSE IF Len(freeList) > 1 THEN freeList[2] ELSE Null
       /\ lent' = With(lent, freeList[k], n)
  /\ UNCHANGED <<ptr, size, pc>>

(* Mutant: the last block of the list is not remembered. *)
insertFreeEndLost(b) ==
  LET k == Cardinality({i \in 1..Len(freeList) : freeList[i] < b}) IN
  /\ freeList' = Inserted(freeList, k, b)
  /\ freeListEnd' = IF freeList = <<>> THEN b ELSE freeListEnd

(* The block is linked in behind the last one with a lower address; ins is  *)
(* the place of that one, 0 if there is none.                               *)
insertFree(b) ==
  \E ins \in 0..Len(freeList) :
    /\ ins > 0 => freeList[ins] < b
    /\ \A i \in ins + 1..Len(freeList) : ~(freeList[i] < b)
    /\ freeList' = Inserted(freeList, ins, b)
    /\ freeListEnd' = IF ins = 0
                      THEN IF freeList = <<>> THEN b ELSE freeListEnd
                      ELSE IF freeList[ins] = freeListEnd THEN b ELSE freeListEnd

(* deallocate: the topmost block goes back to the free space, another one   *)
(* to the list; then shrink().                                              *)
deallocate(b) ==
  /\ pc = "idle" /\ b \in DOMAIN lent
  /\ lent' = Less(lent, b)
  /\ IF b + size[b] = ptr
     THEN /\ ptr' = ptr - size[b] /\ size' = Less(size, b)
          /\ UNCHANGED <<freeList, freeListEnd>>
     ELSE /\ insertFree(b)
          /\ UNCHANGED <<ptr, size>>
  /\ pc' = "shrink"

(* The loop's condition in shrink(): the last free block is topmost. *)
EndIsTop == freeListEnd # Null /\ freeListEnd + size[freeListEnd] = ptr

(* The place of the block before the last one, found from the beginning:    *)
(* getPrevFree.                                                             *)
PrevPlaces == {i \in 1..Len(freeList) - 1 : freeList[i + 1] = freeListEnd}

(* One turn of the loop of shrink(). *)
shrink ==
  /\ pc = "shrink" /\ EndIsTop
  /\ ptr' = ptr - size[freeListEnd]
  /\ size' = Less(size, freeListEnd)
  /\ \/ /\ PrevPlaces = {}
        /\ freeList' = <<>> /\ freeListEnd' = Null
     \/ \E i \in PrevPlaces :
          /\ freeListEnd' = freeList[i]
          /\ freeList' = SubSeq(freeList, 1, i)
  /\ UNCHANGED <<lent, pc>>

shrinkEnd ==
  /\ pc = "shrink" /\ ~EndIsTop
  /\ pc' = "idle"
  /\ UNCHANGED <<ptr, size, freeList, freeListEnd, lent>>

-----------------------------------------------------------------------------
Init == /\ ptr = 0 /\ size = <<>> /\ freeList = <<>> /\ freeListEnd = Null
        /\ lent = <<>> /\ pc = "idle"

Next == \/ \E n \in Request : allocateTop(n) \/ allocateFree(n)
        \/ \E b \in DOMAIN lent : deallocate(b)
        \/ shrink \/ shrinkEnd

Spec == Init /\ [][Next]_vars

-----------------------------------------------------------------------------
(* Properties.                                                              *)

TypeOK ==
  /\ ptr \in 0..PoolSize
  /\ Block \subseteq Nat /\ size \in [Block -> Nat]
  /\ freeList \in Seq(Nat) /\ freeListEnd \in Nat \cup {Null}
  /\ DOMAIN lent \subseteq Nat /\ lent \in [DOMAIN lent -> Nat]
  /\ pc \in {"idle", "shrink"}

(* Blocks that callers hold do not overlap, lie inside the pool, and have   *)
(* room for what was asked for behind their header, whatever the order in   *)
(* which blocks of different sizes were returned and given out again.       *)
LentBlocksDisjoint ==
  \A b \in DOMAIN lent :
    /\ b \in Block /\ b + size[b] <= PoolSize
    /\ Header + lent[b] <= size[b]
    /\ \A c \in DOMAIN lent : b = c \/ b + size[b] <= c \/ c + size[c] <= b

(* The inductive invariant.  The blocks are not empty, end at ptr_ or below,*)
(* do not overlap, and leave no gap from the beginning of the pool to ptr_. *)
BlocksInv ==
  /\ \A b \in Block : size[b] > 0 /\ b + size[b] <= ptr
  /\ \A b, c \in Block : b < c => b + size[b] <= c
  /\ \A b \in Block : b = 0 \/ \E c \in Block : c + size[c] = b
  /\ ptr = 0 \/ \E b \in Block : b + size[b] = ptr

(* A block is lent or in the free list. *)
PlacesInv ==
  /\ DOMAIN lent \subseteq Block
  /\ \A i \in 1..Len(freeList) : freeList[i] \in Block \ DOMAIN lent
  /\ \A b \in Block \ DOMAIN lent : \E i \in 1..Len(freeList) : freeList[i] = b

(* The free list is ordered by address, and freeListEnd_ is its last block. *)
ListInv ==
  /\ \A i, j \in 1..Len(freeList) : i < j => freeList[i] < freeList[j]
  /\ freeListEnd = IF freeList = <<>> THEN Null ELSE freeList[Len(freeList)]

RoomInv == \A b \in DOMAIN lent : Header + lent[b] <= size[b]

(* When an operation is over the topmost block is not free. *)
ShrunkInv == pc = "idle" => ~EndIsTop

IInv == TypeOK /\ BlocksInv /\ PlacesInv /\ ListInv /\ RoomInv /\ ShrunkInv

(* When every block has been returned the pool is as it was at the          *)
(* beginning: no memory is lost in the free list.                           *)
AllReturned ==
  pc = "idle" /\ DOMAIN lent = {} => ptr = 0 /\ freeList = <<>> /\ freeListEnd = Null

=============================================================================
