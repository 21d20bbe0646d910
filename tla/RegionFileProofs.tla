-------------------------- MODULE RegionFileProofs --------------------------
(***************************************************************************)
(* Proofs about RegionFile: its types, for every geometry of the flash;    *)
(* and, when the region is one erase sector, that a file in memory is what *)
(* the flash says and that the region file implements StoredItem.          *)
(*                                                                         *)
(* The heart of it is the binary search of find_latest_mb().               *)
(* It is a recursive function, of which nothing is known until it is       *)
(* proved that there is such a function, by induction over the distance    *)
(* of its two ends; a second induction finds what it returns.  The         *)
(* library's induction theorem takes an operator as a parameter, so        *)
(* induction is stated here for sets, from the least element that each     *)
(* set of natural numbers has.                                             *)
(***************************************************************************)
EXTENDS RegionFile, WellFoundedInduction, TLAPS

-----------------------------------------------------------------------------
(* A set of natural numbers that is not empty has a least element.         *)
LEMMA Least ==
    ASSUME NEW S, S \subseteq Nat, S # {}
    PROVE  \E m \in S : \A k \in S : m <= k
<1> DEFINE R == OpToRel(<, Nat)
<1>1. IsWellFoundedOn(R, Nat)
  BY NatLessThanWellFounded
<1>2. \A k, m \in Nat : k < m => <<k, m>> \in R
  BY DEF OpToRel
<1> HIDE DEF R
<1>3. PICK m \in S : \A k \in S : <<k, m>> \notin R
  BY <1>1, WFMin
<1>4. ASSUME NEW k \in S PROVE m <= k
  <2>1. m \in Nat /\ k \in Nat
    OBVIOUS
  <2>2. ~(k < m)
    BY <1>2, <1>3, <2>1
  <2> QED
    BY <2>1, <2>2
<1> QED
  BY <1>4

(* Induction, for a set instead of a predicate.                            *)
LEMMA Induct ==
    ASSUME NEW S, 0 \in S, \A n \in Nat : n \in S => n + 1 \in S
    PROVE  Nat \subseteq S
<1> SUFFICES ASSUME Nat \ S # {} PROVE FALSE
  OBVIOUS
<1>1. PICK m \in Nat \ S : \A k \in Nat \ S : m <= k
  BY Least
<1>2. m # 0 /\ m - 1 \in Nat /\ m - 1 \notin Nat \ S
  BY <1>1
<1> QED
  BY <1>1, <1>2

-----------------------------------------------------------------------------
(* One step of the search, for a function that does the rest.              *)
Search(s, n) ==
    [p \in (0..n) \X (0..n) |->
        LET l == p[1]   r == p[2]   mid == (l + r) \div 2
        IN IF l + 1 >= r THEN l
           ELSE IF all_block_offsets_unallocated(mid) THEN s[<<l, mid>>]
           ELSE s[<<mid, r>>]]

(* The middle lies between the two ends.                                   *)
LEMMA Middle ==
    ASSUME NEW l \in Nat, NEW r \in Nat, l + 1 < r
    PROVE  (l + r) \div 2 \in l + 1..r - 1
OBVIOUS

LEMMA SearchStep ==
    ASSUME NEW n \in Nat, NEW s, NEW l \in 0..n, NEW r \in 0..n
    PROVE  /\ l + 1 >= r => Search(s, n)[<<l, r>>] = l
           /\ l + 1 < r /\ all_block_offsets_unallocated((l + r) \div 2)
                => Search(s, n)[<<l, r>>] = s[<<l, (l + r) \div 2>>]
           /\ l + 1 < r /\ ~all_block_offsets_unallocated((l + r) \div 2)
                => Search(s, n)[<<l, r>>] = s[<<(l + r) \div 2, r>>]
BY DEF Search

(* The search ends: it is a function.                                      *)
LEMMA SearchDefined ==
    ASSUME NEW n \in Nat
    PROVE  \E s : s = Search(s, n)
<1> DEFINE Right(s, l, r) == s[<<l, r>>] = Search(s, n)[<<l, r>>]
           Upto(s, d) == \A l, r \in 0..n : r <= l + d => Right(s, l, r)
           D == {d \in Nat : \E s : Upto(s, d)}
<1>1. 0 \in D
  <2> DEFINE s == [p \in (0..n) \X (0..n) |-> p[1]]
  <2>1. ASSUME NEW l \in 0..n, NEW r \in 0..n, r <= l PROVE Right(s, l, r)
    BY <2>1 DEF Search
  <2>2. Upto(s, 0)
    BY <2>1
  <2> HIDE DEF Upto
  <2> QED
    BY <2>2
<1>2. ASSUME NEW d \in Nat, d \in D PROVE d + 1 \in D
  <2>1. PICK s : Upto(s, d)
    BY <1>2
  <2> DEFINE t == Search(s, n)
  <2>a. t = Search(s, n)
    OBVIOUS
  <2> HIDE DEF t
  <2>2. ASSUME NEW l \in 0..n, NEW r \in 0..n, r <= l + d + 1
        PROVE  t[<<l, r>>] = Search(t, n)[<<l, r>>]
    <3> DEFINE mid == (l + r) \div 2
    <3>1. CASE l + 1 >= r
      BY <2>a, <3>1 DEF Search
    <3>2. CASE l + 1 < r
      <4>1. mid \in l + 1..r - 1
        BY <3>2, Middle
      <4> HIDE DEF mid
      <4>2. mid \in 0..n /\ mid <= l + d /\ r <= mid + d
        BY <2>2, <4>1
      <4>3. s[<<l, mid>>] = t[<<l, mid>>] /\ s[<<mid, r>>] = t[<<mid, r>>]
        BY <2>1, <2>a, <4>2
      <4> QED
        BY <2>a, <3>2, <4>1, <4>2, <4>3 DEF mid, Search
    <3> QED
      BY <3>1, <3>2
  <2>3. Upto(t, d + 1)
    BY <2>2
  <2> QED
    BY <2>3
<1>3. n \in D
  <2> HIDE DEF D
  <2> QED
    BY <1>1, <1>2, Induct
<1>4. PICK s : Upto(s, n)
  BY <1>3
<1>5. ASSUME NEW l \in 0..n, NEW r \in 0..n PROVE Right(s, l, r)
  <2>1. r <= l + n
    OBVIOUS
  <2> HIDE DEF Right
  <2> QED
    BY <1>4, <2>1
<1> DEFINE t == Search(s, n)
<1>a. t = Search(s, n)
  OBVIOUS
<1> HIDE DEF t
<1>6. ASSUME NEW l \in 0..n, NEW r \in 0..n
      PROVE  t[<<l, r>>] = Search(t, n)[<<l, r>>]
  <2>1. CASE l + 1 >= r
    BY <1>a, <2>1 DEF Search
  <2>2. CASE l + 1 < r
    <3> DEFINE mid == (l + r) \div 2
    <3>1. mid \in l + 1..r - 1
      BY <2>2, Middle
    <3> HIDE DEF mid
    <3>2. s[<<l, mid>>] = t[<<l, mid>>] /\ s[<<mid, r>>] = t[<<mid, r>>]
      BY <1>5, <1>a, <3>1
    <3> QED
      BY <1>a, <2>2, <3>1, <3>2 DEF mid, Search
  <2> QED
    BY <2>1, <2>2
<1>7. t = Search(t, n)
  <2>1. /\ t = [p \in (0..n) \X (0..n) |-> t[p]]
        /\ Search(t, n) = [p \in (0..n) \X (0..n) |-> Search(t, n)[p]]
    BY <1>a DEF Search
  <2>2. \A p \in (0..n) \X (0..n) : t[p] = Search(t, n)[p]
    BY <1>6
  <2> QED
    BY <2>1, <2>2
<1> QED
  BY <1>7

(* Over blocks of which the first ones, up to the last, are in use it ends *)
(* at the last.                                                            *)
LEMMA SearchFinds ==
    ASSUME NEW n \in Nat, NEW last \in 0..n - 1,
           \A b \in 0..n - 1 : all_block_offsets_unallocated(b) <=> b > last
    PROVE  FindLatestBlock(n) = last
<1> DEFINE s == CHOOSE s : s = Search(s, n)
<1>1. s = Search(s, n)
  BY SearchDefined
<1>2. FindLatestBlock(n) = s[<<0, n>>]
  BY DEF FindLatestBlock, Search
<1> DEFINE D == {d \in Nat : \A l, r \in 0..n :
                     r <= l + d /\ l <= last /\ last < r => s[<<l, r>>] = last}
<1> HIDE DEF s
<1>3. 0 \in D
  OBVIOUS
<1>4. ASSUME NEW d \in Nat, d \in D PROVE d + 1 \in D
  <2>1. ASSUME NEW l \in 0..n, NEW r \in 0..n, r <= l + d + 1, l <= last, last < r
        PROVE  s[<<l, r>>] = last
    <3> DEFINE mid == (l + r) \div 2
    <3>1. CASE l + 1 >= r
      <4>1. l = last
        BY <2>1, <3>1
      <4> QED
        BY <1>1, <3>1, <4>1 DEF Search
    <3>2. CASE l + 1 < r
      <4>1. mid \in l + 1..r - 1
        BY <3>2, Middle
      <4>2. s[<<l, r>>] = IF all_block_offsets_unallocated(mid) THEN s[<<l, mid>>] ELSE s[<<mid, r>>]
        BY <1>1, <3>2, SearchStep
      <4> HIDE DEF mid
      <4>3. mid \in 0..n - 1 /\ mid <= l + d /\ r <= mid + d
        BY <2>1, <4>1
      <4>4. CASE mid > last
        BY <1>4, <2>1, <4>2, <4>3, <4>4
      <4>5. CASE mid <= last
        BY <1>4, <2>1, <4>2, <4>3, <4>5
      <4> QED
        BY <4>3, <4>4, <4>5
    <3> QED
      BY <3>1, <3>2
  <2> QED
    BY <2>1
<1>5. n \in D
  <2> HIDE DEF D
  <2> QED
    BY <1>3, <1>4, Induct
<1> QED
  BY <1>2, <1>5

-----------------------------------------------------------------------------
(* What the flash may hold, when it is one erase sector: nothing; a size   *)
(* of the metadata whose programming was cut off; or a log of k updates.   *)
Blank == offsets = [s \in Slot |-> Unallocated] /\ data = [b \in Block |-> Erased]

Spoilt ==
    /\ offsets[0] \in Blocks + 1..Unallocated - 1
    /\ \A s \in Slot : s > 0 => offsets[s] = Unallocated
    /\ \A b \in Block : data[b] = Erased

Log(k) ==
    /\ offsets[0] \in 1..Blocks
    /\ k < offsets[0] * PerBlock
    /\ \A s \in Slot : offsets[s] # Unallocated <=> s <= k
    /\ \A s \in 1..k : /\ offsets[0] <= offsets[s - 1] /\ offsets[s - 1] <= Blocks
                       /\ offsets[s - 1] < offsets[s]
    /\ \A b \in Block : b < offsets[0] \/ b >= offsets[k] => data[b] = Erased

(* What is in memory after k updates.                                      *)
FileAt(k) ==
    [slot |-> k, meta |-> offsets[0],
     begin |-> IF k = 0 THEN offsets[0] ELSE offsets[k - 1], end |-> offsets[k]]

FlashTypeOK == offsets \in [Slot -> Offset]

-----------------------------------------------------------------------------
(* Slots and the blocks they are in.                                       *)
LEMMA SlotsOfBlock ==
    ASSUME NEW b \in Nat, NEW s \in b * PerBlock..b * PerBlock + PerBlock - 1
    PROVE  s \in Nat /\ s \div PerBlock = b
<1>1. PerBlock \in Nat \ {0}
  BY GeometryAssumption
<1>2. b * PerBlock \in Nat
  BY <1>1
<1> QED
  BY <1>1, <1>2

LEMMA BlockOfSlot ==
    ASSUME NEW s \in Nat
    PROVE  /\ s \div PerBlock \in Nat
           /\ s \in (s \div PerBlock) * PerBlock
                      ..(s \div PerBlock) * PerBlock + PerBlock - 1
<1>1. PerBlock \in Nat \ {0}
  BY GeometryAssumption
<1> QED
  BY <1>1

LEMMA BlockBelow ==
    ASSUME NEW s \in Nat, NEW m \in Nat, s < m * PerBlock
    PROVE  s \div PerBlock < m
<1>1. PerBlock \in Nat \ {0}
  BY GeometryAssumption
<1> QED
  BY <1>1

LEMMA BlockIsMonotone ==
    ASSUME NEW a \in Nat, NEW b \in Nat, a < b
    PROVE  a * PerBlock + PerBlock <= b * PerBlock
<1>1. PerBlock \in Nat \ {0}
  BY GeometryAssumption
<1> QED
  BY <1>1

(* The slots in metadata are slots of the region.                          *)
LEMMA MetadataSlots ==
    ASSUME NEW m \in 1..Blocks, NEW s \in Nat, s < m * PerBlock
    PROVE  s \in Slot
<1>1. PerBlock \in Nat \ {0} /\ Blocks \in Nat
  BY GeometryAssumption
<1>2. m * PerBlock <= Blocks * PerBlock
  BY <1>1
<1>3. Blocks * PerBlock \in Nat /\ m * PerBlock \in Nat
  BY <1>1
<1> QED
  BY <1>2, <1>3 DEF Slot

-----------------------------------------------------------------------------
(* The latest slot is found in a log.                                      *)
LEMMA ReadsMetadata ==
    ASSUME FlashTypeOK, NEW k \in Slot, Log(k),
           NEW s \in Nat, s < offsets[0] * PerBlock
    PROVE  OffsetAt(s) = offsets[s] /\ s \in Slot
<1>1. offsets[0] \in 1..Blocks
  BY DEF Log
<1>2. s \div PerBlock \in Nat /\ s \div PerBlock < offsets[0]
  BY <1>1, BlockOfSlot, BlockBelow
<1>3. s \div PerBlock \in Block
  BY <1>1, <1>2, GeometryAssumption DEF Block
<1>4. data[s \div PerBlock] = Erased
  BY <1>2, <1>3 DEF Log
<1> QED
  BY <1>1, <1>4, MetadataSlots DEF OffsetAt

LEMMA BlocksInUse ==
    ASSUME FlashTypeOK, NEW k \in Slot, Log(k), NEW b \in 0..offsets[0] - 1
    PROVE  all_block_offsets_unallocated(b) <=> b > k \div PerBlock
<1> DEFINE slots == b * PerBlock..b * PerBlock + PerBlock - 1
<1>1. PerBlock \in Nat \ {0} /\ Blocks \in Nat /\ offsets[0] \in 1..Blocks /\ k \in Nat
  BY GeometryAssumption DEF Log, Slot
<1>2. b * PerBlock \in Nat /\ b * PerBlock + PerBlock <= offsets[0] * PerBlock
  BY <1>1, BlockIsMonotone
<1>3. offsets[0] * PerBlock \in Nat
  BY <1>1
<1>4. \A s \in slots : s \in Nat /\ s < offsets[0] * PerBlock
  BY <1>1, <1>2, <1>3
<1>5. \A s \in slots : s \in Slot /\ (OffsetAt(s) = Unallocated <=> s > k)
  <2> SUFFICES ASSUME NEW s \in slots
               PROVE  s \in Slot /\ (OffsetAt(s) = Unallocated <=> s > k)
    OBVIOUS
  <2>1. s \in Slot /\ OffsetAt(s) = offsets[s]
    BY <1>4, ReadsMetadata
  <2> QED
    BY <1>1, <1>4, <2>1 DEF Log
<1>6. all_block_offsets_unallocated(b) <=> \A s \in slots : s > k
  BY <1>5 DEF all_block_offsets_unallocated
<1>7. k \div PerBlock \in Nat
  BY <1>1, BlockOfSlot
<1>8. ASSUME b > k \div PerBlock, NEW s \in slots PROVE s > k
  <2>1. (k \div PerBlock) * PerBlock + PerBlock <= b * PerBlock
    BY <1>1, <1>7, <1>8, BlockIsMonotone
  <2>2. k < (k \div PerBlock) * PerBlock + PerBlock
    BY <1>1, BlockOfSlot
  <2>3. (k \div PerBlock) * PerBlock \in Nat
    BY <1>1, <1>7
  <2> QED
    BY <1>1, <1>2, <1>4, <2>1, <2>2, <2>3
<1>9. CASE b > k \div PerBlock
  BY <1>6, <1>8, <1>9
<1>10. CASE b <= k \div PerBlock
  <2>1. b * PerBlock \in slots
    BY <1>1, <1>2
  <2>2. b * PerBlock <= (k \div PerBlock) * PerBlock
    BY <1>1, <1>7, <1>10
  <2>3. (k \div PerBlock) * PerBlock <= k
    BY <1>1, BlockOfSlot
  <2>4. (k \div PerBlock) * PerBlock \in Nat
    BY <1>1, <1>7
  <2>5. b * PerBlock <= k
    BY <1>1, <1>2, <2>2, <2>3, <2>4
  <2>6. ~all_block_offsets_unallocated(b)
    BY <1>1, <1>2, <1>6, <2>1, <2>5
  <2>7. ~(b > k \div PerBlock)
    BY <1>7, <1>10
  <2> QED
    BY <2>6, <2>7
<1> QED
  BY <1>1, <1>7, <1>9, <1>10

LEMMA LatestBlock ==
    ASSUME FlashTypeOK, NEW k \in Slot, Log(k)
    PROVE  FindLatestBlock(offsets[0]) = k \div PerBlock
<1>1. offsets[0] \in Nat /\ k \in Nat /\ k < offsets[0] * PerBlock
  BY GeometryAssumption DEF Log, Slot
<1>2. k \div PerBlock \in 0..offsets[0] - 1
  BY <1>1, BlockOfSlot, BlockBelow
<1>3. \A b \in 0..offsets[0] - 1 :
         all_block_offsets_unallocated(b) <=> b > k \div PerBlock
  BY BlocksInUse
<1> QED
  BY <1>1, <1>2, <1>3, SearchFinds

LEMMA LatestSlot ==
    ASSUME FlashTypeOK, NEW k \in Slot, Log(k)
    PROVE  FindLatestSlot(k \div PerBlock) = k
<1> DEFINE b == k \div PerBlock
           rest == b * PerBlock + 1..b * PerBlock + PerBlock - 1
           used == {s \in rest : OffsetAt(s) # Unallocated}
<1>1. PerBlock \in Nat \ {0} /\ offsets[0] \in 1..Blocks /\ k \in Nat /\ Blocks \in Nat
  BY GeometryAssumption DEF Log, Slot
<1>2. b \in Nat /\ k \in b * PerBlock..b * PerBlock + PerBlock - 1
  BY <1>1, BlockOfSlot
<1>3. b < offsets[0]
  BY <1>1, BlockBelow DEF Log
<1> HIDE DEF b
<1>4. b * PerBlock \in Nat
  BY <1>1, <1>2
<1>5. b * PerBlock + PerBlock <= offsets[0] * PerBlock
  BY <1>1, <1>2, <1>3, BlockIsMonotone
<1>6. offsets[0] * PerBlock \in Nat
  BY <1>1
<1>7. \A s \in rest : s \in Nat /\ (OffsetAt(s) # Unallocated <=> s <= k)
  <2> SUFFICES ASSUME NEW s \in rest
               PROVE  s \in Nat /\ (OffsetAt(s) # Unallocated <=> s <= k)
    OBVIOUS
  <2>1. s \in Nat /\ s < offsets[0] * PerBlock
    BY <1>1, <1>4, <1>5, <1>6
  <2>2. s \in Slot /\ OffsetAt(s) = offsets[s]
    BY <2>1, ReadsMetadata
  <2> QED
    BY <1>1, <2>1, <2>2 DEF Log
<1>8. used = {s \in rest : s <= k}
  BY <1>7
<1>9. FindLatestSlot(b) = IF used = {} THEN b * PerBlock
                          ELSE CHOOSE s \in used : \A u \in used : u <= s
  BY DEF FindLatestSlot
<1>10. CASE k = b * PerBlock
  <2>1. used = {}
    BY <1>1, <1>4, <1>7, <1>8, <1>10
  <2> QED
    BY <1>9, <1>10, <2>1 DEF b
<1>11. CASE k # b * PerBlock
  <2>1. k \in used
    BY <1>1, <1>2, <1>4, <1>8, <1>11
  <2>2. \A u \in used : u <= k /\ u \in Nat
    BY <1>7, <1>8
  <2>3. \A s \in used : (\A u \in used : u <= s) => s = k
    BY <1>1, <2>1, <2>2
  <2> HIDE DEF used
  <2>4. (CHOOSE s \in used : \A u \in used : u <= s) = k
    BY <2>1, <2>2, <2>3
  <2> QED
    BY <1>9, <2>1, <2>4 DEF b
<1> QED
  BY <1>10, <1>11

-----------------------------------------------------------------------------
(* What region_file_init() makes of each.                                  *)
LEMMA InitReadsLog ==
    ASSUME FlashTypeOK, NEW k \in Slot, Log(k)
    PROVE  RegionFileInit =
             IF offsets[k] <= Blocks THEN FileAt(k)
             ELSE [FileAt(k) EXCEPT !.slot = RF_NEED_TO_EMPTY]
<1>1. /\ PerBlock \in Nat \ {0} /\ offsets[0] \in 1..Blocks /\ k \in Nat
      /\ Blocks \in Nat /\ Unallocated \in Nat
  BY GeometryAssumption DEF Log, Slot
<1>2. 0 < offsets[0] * PerBlock /\ offsets[0] * PerBlock \in Nat
  BY <1>1
<1>3. OffsetAt(0) = offsets[0] /\ 0 \in Slot
  BY <1>2, ReadsMetadata
<1>4. offsets[0] # Unallocated
  BY <1>1, <1>3 DEF Log
<1>5. OffsetAt(k) = offsets[k] /\ (k > 0 => OffsetAt(k - 1) = offsets[k - 1])
  BY <1>1, <1>2, ReadsMetadata DEF Log
<1>6. FindLatestSlot(FindLatestBlock(OffsetAt(0))) = k
  BY <1>3, LatestBlock, LatestSlot
<1>7. CASE k = 0
  BY <1>1, <1>3, <1>4, <1>6, <1>7 DEF RegionFileInit, FileAt, RF_ONLY_METADATA
<1>8. CASE k > 0
  <2>1. offsets[k - 1] < offsets[k] /\ offsets[k] \in Nat /\ offsets[k - 1] \in Nat
    <3>1. k - 1 \in Slot /\ k \in 1..k
      BY <1>1, <1>8 DEF Slot
    <3> QED
      BY <1>1, <3>1 DEF Log, FlashTypeOK, Offset
  <2>2. BoundariesWrong(OffsetAt(k - 1), OffsetAt(k)) <=> ~(offsets[k] <= Blocks)
    BY <1>1, <1>5, <1>8, <2>1 DEF BoundariesWrong
  <2> QED
    BY <1>1, <1>3, <1>4, <1>5, <1>6, <1>8, <2>2
       DEF RegionFileInit, FileAt, RF_ONLY_METADATA
<1> QED
  BY <1>1, <1>7, <1>8

LEMMA FirstSlot == 0 \in Slot /\ 0 \in Block /\ 0 \div PerBlock = 0
<1>1. PerBlock \in Nat \ {0} /\ Blocks \in Nat \ {0, 1}
  BY GeometryAssumption
<1>2. Blocks * PerBlock \in Nat /\ Blocks * PerBlock > 0
  BY <1>1
<1> QED
  BY <1>1, <1>2 DEF Slot, Block

LEMMA InitReadsBlank == Blank => RegionFileInit = [NoFile EXCEPT !.slot = RF_EMPTY]
BY FirstSlot DEF Blank, RegionFileInit, OffsetAt

LEMMA InitReadsSpoilt ==
    Spoilt => RegionFileInit = [NoFile EXCEPT !.slot = RF_NEED_TO_EMPTY]
BY FirstSlot, GeometryAssumption DEF Spoilt, RegionFileInit, OffsetAt

-----------------------------------------------------------------------------
(* How many blocks of metadata there are: at least one, no more than the   *)
(* region has, and a number that is not taken for none.                    *)
LEMMA AlignedUp ==
    ASSUME NEW n \in Nat, NEW a \in Nat \ {0}
    PROVE  /\ (n + a - 1) \div a \in Nat
           /\ ((n + a - 1) \div a) * a <= n + a - 1
           /\ n <= ((n + a - 1) \div a) * a
OBVIOUS

LEMMA AlignedTwice ==
    ASSUME NEW c \in Nat, NEW a \in Nat \ {0}
    PROVE  AlignUp(c * a, a) \div a = c
<1>1. c * a \in Nat
  OBVIOUS
<1>2. (c * a + a - 1) \div a = c
  OBVIOUS
<1>3. (c * a) \div a = c
  OBVIOUS
<1> QED
  BY <1>1, <1>2, <1>3 DEF AlignUp

LEMMA MetadataFits ==
    ASSUME NEW d \in 1..Blocks - 1, Unallocated >= 3
    PROVE  MetadataBlocks(d) \in 1..Blocks /\ MetadataBlocks(d) < Unallocated
<1> DEFINE P == PerBlock
           Q == (Blocks * P) \div (d * P + 1)
           c == (Q + P - 1) \div P
<1>1. P \in Nat \ {0} /\ Blocks \in Nat \ {0, 1} /\ Unallocated \in Nat
      /\ Blocks <= Unallocated + 1
  BY GeometryAssumption
<1> HIDE DEF P
<1>2. d * P + 1 \in Nat \ {0} /\ d * P >= P /\ Blocks * P \in Nat
  BY <1>1
<1>3. Q \in Nat /\ Q * (d * P + 1) <= Blocks * P
  BY <1>1, <1>2
<1> HIDE DEF Q
<1>4. Q * (P + 1) <= Q * (d * P + 1)
  BY <1>1, <1>2, <1>3
<1>5. Q * P + Q <= Blocks * P
  BY <1>1, <1>2, <1>3, <1>4
<1>6. c \in Nat /\ c * P <= Q + P - 1
  BY <1>1, <1>3, AlignedUp
<1> HIDE DEF c
<1>7. c <= Blocks
  <2> SUFFICES ASSUME c >= Blocks + 1 PROVE FALSE
    BY <1>1, <1>6
  <2>1. (Blocks + 1) * P <= c * P
    BY <1>1, <1>6
  <2>2. Blocks * P + P <= Q + P - 1
    BY <1>1, <1>2, <1>3, <1>6, <2>1
  <2>3. Q <= Q * P + Q /\ Q * P \in Nat
    BY <1>1, <1>3
  <2> QED
    BY <1>1, <1>2, <1>3, <1>5, <2>2, <2>3
<1>8. c < Unallocated
  <2> SUFFICES ASSUME c >= Unallocated PROVE FALSE
    BY <1>1, <1>6
  <2> DEFINE U == Unallocated
  <2>1. U * P <= c * P
    BY <1>1, <1>6
  <2>2. Blocks * P <= U * P + P
    BY <1>1
  <2>3. U * P \in Nat /\ U * P >= 3 * P
    BY <1>1
  <2>4. Q >= U * P - P + 1
    BY <1>1, <1>3, <1>6, <2>1, <2>3
  <2>5. Q * P + Q >= Q + Q
    BY <1>1, <1>3
  <2>6. Q + Q <= U * P + P
    BY <1>1, <1>2, <1>3, <1>5, <2>2, <2>3, <2>5
  <2> QED
    BY <1>1, <1>3, <2>3, <2>4, <2>6
<1>9. MetadataBlocks(d) = IF c = 0 THEN 1 ELSE c
  <2>1. AlignUp(Q, P) = c * P
    BY DEF AlignUp, c
  <2>2. MetadataBlocks(d) =
          AlignUp(IF c * P = 0 THEN 1 ELSE c * P, P) \div P
    BY <2>1 DEF MetadataBlocks, Q, P
  <2>3. CASE c = 0
    <3>1. c * P = 0
      BY <1>1, <2>3
    <3>2. AlignUp(1, P) = P
      <4>1. (1 + P - 1) \div P = 1
        BY <1>1
      <4> QED
        BY <1>1, <4>1 DEF AlignUp
    <3>3. P \div P = 1
      BY <1>1
    <3> QED
      BY <2>2, <2>3, <3>1, <3>2, <3>3
  <2>4. CASE c # 0
    <3>1. c * P # 0
      BY <1>1, <1>6, <2>4
    <3> QED
      BY <1>1, <1>6, <2>2, <2>4, <3>1, AlignedTwice
  <2> QED
    BY <2>3, <2>4
<1> QED
  BY <1>1, <1>6, <1>7, <1>8, <1>9

-----------------------------------------------------------------------------
(* What programming and erasing make of the flash.                         *)
LEMMA ProgramFirst ==
    ASSUME Blank, NEW o \in 1..Unallocated, Program(0, o), UNCHANGED data
    PROVE  /\ o = Unallocated => Blank'
           /\ o # Unallocated /\ o <= Blocks =>
                 Log(0)' /\ offsets'[0] = o
           /\ o # Unallocated /\ o > Blocks => Spoilt'
<1>1. /\ PerBlock \in Nat \ {0} /\ Blocks \in Nat /\ Unallocated \in Nat
      /\ 0 \in Slot /\ \A s \in Slot : s \in Nat
  BY GeometryAssumption, FirstSlot DEF Slot
<1>2. offsets' = [s \in Slot |-> IF s = 0 THEN o ELSE Unallocated]
  BY <1>1 DEF Program, Blank
<1>3. \A b \in Block : data'[b] = Erased
  BY DEF Blank
<1>4. CASE o = Unallocated
  BY <1>2, <1>4 DEF Blank
<1>5. CASE o # Unallocated /\ o <= Blocks
  <2>1. 0 < o * PerBlock
    BY <1>1
  <2> QED
    BY <1>1, <1>2, <1>3, <1>5, <2>1 DEF Log
<1>6. CASE o # Unallocated /\ o > Blocks
  BY <1>1, <1>2, <1>3, <1>6 DEF Spoilt
<1> QED
  BY <1>1, <1>4, <1>5, <1>6

LEMMA EarlierSlot ==
    ASSUME NEW s \in Slot, NEW t \in 0..s
    PROVE  s \in Nat /\ t \in Slot
<1>1. Blocks * PerBlock \in Nat
  BY GeometryAssumption
<1> QED
  BY <1>1 DEF Slot

(* Offsets rise, and lie behind the metadata.                              *)
LEMMA LogOffsets ==
    ASSUME FlashTypeOK, NEW k \in Slot, Log(k)
    PROVE  /\ offsets[0] <= offsets[k] /\ offsets[k] \in Nat /\ offsets[k] < Unallocated
           /\ k > 0 => /\ k - 1 \in Slot /\ offsets[k - 1] \in Nat
                       /\ offsets[0] <= offsets[k - 1] /\ offsets[k - 1] <= Blocks
                       /\ offsets[k - 1] < offsets[k]
<1>1. k \in Nat /\ Unallocated \in Nat /\ Blocks \in Nat
  BY GeometryAssumption DEF Slot
<1>2. offsets[k] \in Nat /\ offsets[k] < Unallocated
  BY <1>1 DEF FlashTypeOK, Offset, Log
<1>3. CASE k = 0
  BY <1>2, <1>3
<1>4. CASE k > 0
  <2>1. k \in 1..k /\ k - 1 \in Slot
    BY <1>1, <1>4, EarlierSlot
  <2>2. offsets[k - 1] \in Nat /\ offsets[0] \in Nat
    BY <2>1, FirstSlot DEF FlashTypeOK, Offset
  <2> QED
    BY <1>1, <1>2, <1>4, <2>1, <2>2 DEF Log
<1> QED
  BY <1>1, <1>3, <1>4

LEMMA ProgramNext ==
    ASSUME FlashTypeOK, NEW k \in Slot, Log(k), offsets[k] <= Blocks,
           k + 1 < offsets[0] * PerBlock,
           NEW o \in Nat, offsets[k] < o, o <= Unallocated,
           Program(k + 1, o), UNCHANGED data
    PROVE  /\ k + 1 \in Slot
           /\ o = Unallocated => offsets' = offsets
           /\ o # Unallocated =>
                /\ Log(k + 1)' /\ offsets'[k + 1] = o
                /\ offsets'[k] = offsets[k] /\ offsets'[0] = offsets[0]
<1>1. /\ k \in Nat /\ Unallocated \in Nat /\ Blocks \in Nat
      /\ \A s \in Slot : s \in Nat
      /\ offsets[0] \in 1..Blocks /\ 0 \in Slot
  BY GeometryAssumption, FirstSlot DEF Slot, Log
<1>2. k + 1 \in Slot
  BY <1>1, MetadataSlots
<1>3. offsets[k + 1] = Unallocated
  BY <1>1, <1>2 DEF Log
<1>4. offsets' = [offsets EXCEPT ![k + 1] = o]
  BY <1>3 DEF Program
<1>5. \A s \in Slot : offsets'[s] = IF s = k + 1 THEN o ELSE offsets[s]
  BY <1>4 DEF FlashTypeOK
<1>6. CASE o = Unallocated
  BY <1>2, <1>3, <1>4, <1>6 DEF FlashTypeOK
<1>7. CASE o # Unallocated
  <2>1. offsets'[k + 1] = o /\ offsets'[k] = offsets[k] /\ offsets'[0] = offsets[0]
    BY <1>1, <1>2, <1>5
  <2>2. \A s \in Slot : offsets'[s] # Unallocated <=> s <= k + 1
    BY <1>1, <1>2, <1>5, <1>7 DEF Log
  <2>3. ASSUME NEW s \in 1..k + 1
        PROVE  /\ offsets'[0] <= offsets'[s - 1] /\ offsets'[s - 1] <= Blocks
               /\ offsets'[s - 1] < offsets'[s]
    <3>1. CASE s = k + 1
      BY <1>1, <2>1, <3>1, LogOffsets
    <3>2. CASE s \in 1..k
      <4>1. s \in Slot /\ s - 1 \in Slot /\ s # k + 1 /\ s - 1 # k + 1
        <5>1. s \in 0..k /\ s - 1 \in 0..k /\ s # k + 1 /\ s - 1 # k + 1
          BY <1>1, <3>2
        <5> QED
          BY <5>1, EarlierSlot
      <4> QED
        BY <1>5, <2>1, <3>2, <4>1 DEF Log
    <3> QED
      BY <1>1, <3>1, <3>2
  <2>4. \A b \in Block : b < offsets'[0] \/ b >= offsets'[k + 1] => data'[b] = Erased
    <3>1. \A b \in Block : b \in Nat
      BY <1>1 DEF Block
    <3> QED
      BY <1>1, <2>1, <3>1, LogOffsets DEF Log
  <2> QED
    BY <1>1, <1>2, <2>1, <2>2, <2>3, <2>4 DEF Log
<1> QED
  BY <1>2, <1>6, <1>7

(* Data are written within the latest slot.                                *)
LEMMA ProgramData ==
    ASSUME FlashTypeOK, NEW k \in Slot, Log(k), k > 0,
           NEW D, data \in [Block -> D],
           NEW b \in Block, offsets[k - 1] <= b, b < offsets[k],
           NEW p, data' = [data EXCEPT ![b] = p], UNCHANGED offsets
    PROVE  Log(k)' /\ \A c \in Block : data'[c] = IF c = b THEN p ELSE data[c]
<1>1. \A c \in Block : data'[c] = IF c = b THEN p ELSE data[c]
  OBVIOUS
<1>2. b \in Nat /\ b >= offsets[0] /\ b < offsets[k] /\ offsets[0] \in Nat
  BY GeometryAssumption, FirstSlot, LogOffsets DEF Block, FlashTypeOK, Offset
<1>3. offsets' = offsets
  OBVIOUS
<1>4. \A c \in Block : c < offsets[0] \/ c >= offsets[k] => data'[c] = Erased
  <2> SUFFICES ASSUME NEW c \in Block, c < offsets[0] \/ c >= offsets[k]
               PROVE  data'[c] = Erased
    OBVIOUS
  <2>1. data[c] = Erased
    BY DEF Log
  <2>2. c # b
    BY <1>2, LogOffsets
  <2> QED
    BY <1>1, <2>1, <2>2
<1> QED
  BY <1>1, <1>3, <1>4 DEF Log

LEMMA EraseAll ==
    ASSUME SectorBlocks = Blocks, Erase(0)
    PROVE  Blank'
<1>1. /\ PerBlock \in Nat \ {0} /\ Blocks \in Nat \ {0}
      /\ \A s \in Slot : s \in Nat /\ s < Blocks * PerBlock
  BY GeometryAssumption DEF Slot
<1>2. \A b \in Block : SectorOf(b) = 0
  <2> SUFFICES ASSUME NEW b \in 0..Blocks - 1 PROVE b \div Blocks = 0
    BY DEF Block, SectorOf
  <2> QED
    BY <1>1
<1>3. \A s \in Slot : SectorOf(s \div PerBlock) = 0
  <2> SUFFICES ASSUME NEW s \in Slot PROVE s \div PerBlock \in Block
    BY <1>2
  <2>1. s \div PerBlock \in Nat /\ s \div PerBlock < Blocks
    BY <1>1, BlockOfSlot, BlockBelow
  <2> QED
    BY <1>1, <2>1 DEF Block
<1>4. Erase(0) => /\ offsets' = [s \in Slot |-> IF SectorOf(s \div PerBlock) = 0
                                                THEN Unallocated ELSE offsets[s]]
                  /\ data' = [b \in Block |-> IF SectorOf(b) = 0 THEN Erased
                                              ELSE data[b]]
  BY DEF Erase
<1> QED
  BY <1>2, <1>3, <1>4 DEF Blank

-----------------------------------------------------------------------------
(* The inductive invariant: what the flash holds, that a file in memory is *)
(* what the flash says, and how far an update has got.                     *)
FlashInv == Blank \/ Spoilt \/ \E k \in Slot : Log(k)

MemoryInv ==
    /\ f.slot = RF_EMPTY => Blank
    /\ f.slot >= RF_ONLY_METADATA =>
         f.slot \in Slot /\ Log(f.slot) /\ f = FileAt(f.slot) /\ f.end <= Blocks

PcInv ==
    /\ value = NoValue <=> pc \in {"closed", "open"}
    /\ pc = "closed" => f = NoFile
    /\ pc = "erase" => f.slot = RF_NEED_TO_EMPTY /\ (cursor = 0 \/ Blank)
    /\ pc = "data" => /\ f.slot > RF_ONLY_METADATA
                      /\ f.end = f.begin + Size[value]
                      /\ cursor \in f.begin..f.end
                      /\ \A b \in f.begin..cursor - 1 : data[b] = <<value, b - f.begin>>
                      /\ \A b \in Block : b >= cursor => data[b] = Erased

IInv == TypeOK /\ FlashInv /\ MemoryInv /\ PcInv

Errors == RF_ONLY_METADATA = 0 /\ RF_EMPTY = -1 /\ RF_NEED_TO_EMPTY = -2 /\ RF_FATAL = -3

LEMMA Numbers ==
    /\ PerBlock \in Nat \ {0} /\ Blocks \in Nat \ {0, 1} /\ Unallocated \in Nat
    /\ Blocks <= Unallocated + 1 /\ Errors /\ Blocks * PerBlock \in Nat
    /\ \A s \in Slot : s \in Nat
    /\ \A b \in Block : b \in Nat /\ b < Blocks
<1>1. /\ PerBlock \in Nat \ {0} /\ Blocks \in Nat \ {0, 1} /\ Unallocated \in Nat
      /\ Blocks <= Unallocated + 1
  BY GeometryAssumption
<1>2. Blocks * PerBlock \in Nat
  BY <1>1
<1> QED
  BY <1>1, <1>2
     DEF Errors, RF_ONLY_METADATA, RF_EMPTY, RF_NEED_TO_EMPTY, RF_FATAL, Slot, Block

LEMMA Sizes ==
    ASSUME NEW v \in Value
    PROVE  Size[v] \in Nat \ {0} /\ Size[v] <= Unallocated - 2 /\ Unallocated >= 3
BY SizeAssumption, Numbers

(* A file in memory is within its types.                                   *)
LEMMA FileTypes ==
    ASSUME FlashTypeOK, NEW k \in Slot, Log(k), offsets[k] <= Blocks
    PROVE  /\ FileAt(k) \in FileState /\ FileAt(k).slot = k /\ FileAt(k).end = offsets[k]
           /\ k < FileAt(k).meta * PerBlock /\ FileAt(k).begin <= FileAt(k).end
<1>1. offsets[0] \in Offset /\ offsets[k] \in Offset /\ (k > 0 => offsets[k - 1] \in Offset)
  BY FirstSlot, LogOffsets DEF FlashTypeOK
<1>2. k \in RF_FATAL..Blocks * PerBlock
  BY Numbers DEF Slot, Errors
<1>3. offsets[0] \in Nat /\ offsets[k] \in Nat
  BY <1>1, Numbers DEF Offset
<1>4. FileAt(k) \in FileState
  BY <1>1, <1>2, Numbers DEF FileAt, FileState
<1>5. FileAt(k).begin <= FileAt(k).end
  BY <1>3, Numbers, LogOffsets DEF FileAt
<1> QED
  BY <1>4, <1>5 DEF FileAt, Log

(* The file that an update appends to.                                     *)
LEMMA OpenFile ==
    ASSUME IInv, f.slot >= RF_ONLY_METADATA
    PROVE  /\ f.slot \in Slot /\ Log(f.slot) /\ f = FileAt(f.slot)
           /\ f.end = offsets[f.slot] /\ f.end \in Nat /\ f.end <= Blocks
           /\ f.meta = offsets[0] /\ offsets[0] <= f.end
           /\ f.slot > 0 => /\ f.begin = offsets[f.slot - 1] /\ f.begin \in Nat
                            /\ f.begin < f.end
<1>1. f.slot \in Slot /\ Log(f.slot) /\ f = FileAt(f.slot) /\ f.end <= Blocks
  BY DEF IInv, MemoryInv
<1>2. FlashTypeOK
  BY DEF IInv, TypeOK, FlashTypeOK
<1>3. /\ f.end = offsets[f.slot] /\ f.meta = offsets[0]
      /\ f.slot > 0 => f.begin = offsets[f.slot - 1]
  BY <1>1, Numbers DEF FileAt
<1> QED
  BY <1>1, <1>2, <1>3, LogOffsets

-----------------------------------------------------------------------------
(* What the access that comes next leaves in the flash.                    *)
LEMMA SameFlash ==
    ASSUME UNCHANGED flash
    PROVE  /\ Blank' <=> Blank
           /\ FlashInv' <=> FlashInv
           /\ \A k \in Slot : (Log(k)' <=> Log(k)) /\ FileAt(k)' = FileAt(k)
<1>1. offsets' = offsets /\ data' = data
  BY DEF flash
<1>2. \A k \in Slot : (Log(k)' <=> Log(k)) /\ FileAt(k)' = FileAt(k)
  BY <1>1 DEF Log, FileAt
<1> QED
  BY <1>1, <1>2 DEF FlashInv, Blank, Spoilt

LEMMA Allocated ==
    ASSUME IInv, Allocating, NEW o \in NextOffset..Unallocated,
           Program(NextSlot, o), UNCHANGED data
    PROVE  /\ NextSlot = 0 /\ Blank
           /\ NextOffset \in 1..Blocks /\ NextOffset < Unallocated /\ o \in 1..Unallocated
           /\ o = Unallocated => Blank'
           /\ o # Unallocated /\ o <= Blocks => Log(0)' /\ offsets'[0] = o
           /\ o # Unallocated /\ o > Blocks => Spoilt'
<1>1. NextSlot = 0 /\ NextOffset = MetadataBlocks(Size[value]) /\ Blank
  BY DEF Allocating, NextSlot, NextOffset, IInv, MemoryInv
<1>2. value \in Value
  BY DEF Allocating, Updating, IInv, PcInv, TypeOK
<1>3. Size[value] \in 1..Blocks - 1
  BY <1>2, Sizes, Numbers DEF Allocating, TooLarge
<1>4. NextOffset \in 1..Blocks /\ NextOffset < Unallocated
  BY <1>1, <1>2, <1>3, Sizes, MetadataFits
<1>5. o \in 1..Unallocated
  BY <1>4, Numbers
<1> QED
  BY <1>1, <1>4, <1>5, ProgramFirst

LEMMA Committed ==
    ASSUME IInv, Committing, NEW o \in NextOffset..Unallocated,
           Program(NextSlot, o), UNCHANGED data
    PROVE  /\ NextSlot = f.slot + 1 /\ NextSlot \in Slot
           /\ NextOffset = f.end + Size[value] /\ NextOffset \in Nat
           /\ NextOffset < Unallocated /\ NextOffset <= Blocks
           /\ o \in Nat /\ f.end < o /\ o <= Unallocated
           /\ o = Unallocated => UNCHANGED flash
           /\ o # Unallocated => \A k \in Slot : k = NextSlot =>
                /\ Log(k)' /\ offsets'[k] = o
                /\ offsets'[k - 1] = f.end /\ offsets'[0] = offsets[0]
<1>1. /\ NextSlot = f.slot + 1 /\ NextOffset = f.end + Size[value]
      /\ f.slot >= RF_ONLY_METADATA /\ update_can_fit(Size[value])
  BY Numbers DEF Committing, Allocating, NextSlot, NextOffset, Errors
<1>2. value \in Value
  BY DEF Committing, Updating, IInv, PcInv, TypeOK
<1>3. Size[value] \in Nat \ {0}
  BY <1>2, Sizes
<1>4. /\ f.slot \in Slot /\ Log(f.slot) /\ f.end = offsets[f.slot] /\ f.end \in Nat
      /\ f.end <= Blocks /\ f.meta = offsets[0]
  BY <1>1, OpenFile
<1>5. NextOffset \in Nat /\ f.end < NextOffset /\ NextOffset < Unallocated /\ NextOffset <= Blocks
  BY <1>1, <1>3, <1>4, Numbers DEF update_can_fit
<1>6. o \in Nat /\ f.end < o /\ o <= Unallocated
  BY <1>4, <1>5, Numbers
<1>7. f.slot + 1 < offsets[0] * PerBlock
  BY <1>1, <1>4 DEF update_can_fit
<1>8. FlashTypeOK
  BY DEF IInv, TypeOK, FlashTypeOK
<1>9. \A j \in Slot : j = f.slot =>
        /\ j + 1 \in Slot
        /\ o = Unallocated => offsets' = offsets
        /\ o # Unallocated => /\ Log(j + 1)' /\ offsets'[j + 1] = o
                              /\ offsets'[j] = f.end /\ offsets'[0] = offsets[0]
  BY <1>1, <1>4, <1>6, <1>7, <1>8, ProgramNext
<1>10. f.slot + 1 \in Slot /\ (o = Unallocated => offsets' = offsets)
  BY <1>4, <1>9
<1>11. ASSUME o # Unallocated, NEW k \in Slot, k = NextSlot
       PROVE  /\ Log(k)' /\ offsets'[k] = o
              /\ offsets'[k - 1] = f.end /\ offsets'[0] = offsets[0]
  <2>1. f.slot \in Nat
    BY <1>4, Numbers
  <2>2. k = f.slot + 1
    BY <1>1, <1>11
  <2>3. k - 1 \in Slot /\ k - 1 = f.slot /\ k - 1 + 1 = k
    BY <1>4, <2>1, <2>2
  <2> QED
    BY <1>9, <1>11, <2>3
<1> QED
  BY <1>1, <1>5, <1>6, <1>10, <1>11 DEF flash

LEMMA Wrote ==
    ASSUME IInv, pc = "data", cursor < f.end, NEW p \in {Garbage, Written},
           data' = [data EXCEPT ![cursor] = p], UNCHANGED offsets
    PROVE  /\ f.slot \in Slot /\ f.slot > 0 /\ cursor \in Block
           /\ \A k \in Slot : k = f.slot => Log(k)'
           /\ \A c \in Block : data'[c] = IF c = cursor THEN p ELSE data[c]
           /\ Written = <<value, cursor - f.begin>>
           /\ value \in Value /\ cursor - f.begin \in 0..Blocks - 1
<1>1. f.slot > 0 /\ cursor \in f.begin..f.end /\ (cursor \in Block => data[cursor] = Erased)
  BY Numbers DEF IInv, PcInv, Errors
<1>2. /\ f.slot \in Slot /\ Log(f.slot) /\ f.end = offsets[f.slot] /\ f.end \in Nat
      /\ f.end <= Blocks /\ f.begin = offsets[f.slot - 1] /\ f.begin \in Nat
      /\ f.slot > 0 /\ cursor \in f.begin..f.end
  <2>1. f.slot >= RF_ONLY_METADATA /\ f.slot > 0
    BY <1>1, Numbers DEF Errors, IInv, TypeOK, FileState
  <2> QED
    BY <1>1, <2>1, OpenFile
<1>3. cursor \in Block /\ cursor - f.begin \in 0..Blocks - 1
  BY <1>2, Numbers DEF Block
<1>4. Written = <<value, cursor - f.begin>>
  BY <1>1, <1>3 DEF Written
<1>5. value \in Value
  BY DEF IInv, PcInv, TypeOK
<1>6. /\ FlashTypeOK
      /\ data \in [Block -> {Erased, Garbage} \cup (Value \X (0..Blocks - 1))]
  BY DEF IInv, TypeOK, FlashTypeOK
<1>7. \A k \in Slot : k = f.slot =>
        /\ Log(k)'
        /\ \A c \in Block : data'[c] = IF c = cursor THEN p ELSE data[c]
  <2> DEFINE D == {Erased, Garbage} \cup (Value \X (0..Blocks - 1))
  <2>1. data \in [Block -> D]
    BY <1>6
  <2> HIDE DEF D
  <2> SUFFICES ASSUME NEW k \in Slot, k = f.slot
               PROVE  /\ Log(k)'
                      /\ \A c \in Block : data'[c] = IF c = cursor THEN p ELSE data[c]
    OBVIOUS
  <2>2. Log(k) /\ k > 0 /\ offsets[k - 1] <= cursor /\ cursor < offsets[k]
    BY <1>2, Numbers
  <2> QED
    BY <1>3, <1>6, <2>1, <2>2, ProgramData
<1> QED
  BY <1>2, <1>3, <1>4, <1>5, <1>7

LEMMA OneSector ==
    ASSUME SectorBlocks = Blocks
    PROVE  Sectors = 1
<1>1. Blocks \div Blocks = 1
  BY Numbers
<1> QED
  BY <1>1 DEF Sectors

LEMMA Erased0 ==
    ASSUME IInv, SectorBlocks = Blocks, pc = "erase", cursor < Sectors, Erase(cursor)
    PROVE  Blank' /\ cursor = 0
<1>1. cursor = 0
  BY OneSector, Numbers DEF IInv, TypeOK
<1> QED
  BY <1>1, EraseAll

(* Whatever is cut off, what is left is nothing, a spoilt size or a log.   *)
LEMMA FlashAfter ==
    ASSUME IInv, SectorBlocks = Blocks, Interrupted
    PROVE  /\ FlashInv'
           /\ FlashTypeOK'
           /\ data' \in [Block -> {Erased, Garbage} \cup (Value \X (0..Blocks - 1))]
<1> DEFINE D == {Erased, Garbage} \cup (Value \X (0..Blocks - 1))
<1>1. FlashTypeOK /\ data \in [Block -> D] /\ FlashInv
  BY DEF IInv, TypeOK, FlashTypeOK
<1>2. CASE UNCHANGED flash
  BY <1>1, <1>2, SameFlash DEF FlashTypeOK, flash
<1>3. ASSUME NEW s, NEW o \in Nat, o <= Unallocated, Program(s, o) PROVE FlashTypeOK'
  <2>1. o \in Offset /\ 0 \in Offset
    BY <1>3, Numbers DEF Offset
  <2> QED
    BY <1>1, <1>3, <2>1 DEF Program, FlashTypeOK
<1>4. ASSUME Allocating, NEW o \in NextOffset..Unallocated, Program(NextSlot, o),
             UNCHANGED data
      PROVE  FlashInv' /\ FlashTypeOK'
  <2>1. /\ o \in 1..Unallocated
        /\ o = Unallocated => Blank'
        /\ o # Unallocated /\ o <= Blocks => Log(0)'
        /\ o # Unallocated /\ o > Blocks => Spoilt'
    BY <1>4, Allocated
  <2>2. Blank' \/ Spoilt' \/ Log(0)'
    BY <2>1, Numbers
  <2> QED
    BY <1>3, <1>4, <2>1, <2>2, FirstSlot DEF FlashInv
<1>5. ASSUME Committing, NEW o \in NextOffset..Unallocated, Program(NextSlot, o),
             UNCHANGED data
      PROVE  FlashInv' /\ FlashTypeOK'
  <2>1. /\ NextSlot \in Slot /\ o \in Nat /\ o <= Unallocated
        /\ o = Unallocated => UNCHANGED flash
        /\ o # Unallocated => \A k \in Slot : k = NextSlot => Log(k)'
    BY <1>5, Committed
  <2>2. CASE o = Unallocated
    BY <1>2, <2>1, <2>2
  <2>3. CASE o # Unallocated
    <3>1. \E k \in Slot : Log(k)'
      BY <2>1, <2>3
    <3> QED
      BY <1>3, <1>5, <2>1, <3>1 DEF FlashInv
  <2> QED
    BY <2>2, <2>3
<1>6. CASE (Allocating \/ Committing)
           /\ (\E o \in NextOffset..Unallocated : Program(NextSlot, o)) /\ UNCHANGED data
  BY <1>1, <1>4, <1>5, <1>6
<1>7. ASSUME pc = "data", cursor < f.end, NEW p \in {Garbage, Written},
             data' = [data EXCEPT ![cursor] = p], UNCHANGED offsets
      PROVE  FlashInv' /\ FlashTypeOK' /\ data' \in [Block -> D]
  <2>1. /\ f.slot \in Slot /\ (\A k \in Slot : k = f.slot => Log(k)')
        /\ Written = <<value, cursor - f.begin>>
        /\ value \in Value /\ cursor - f.begin \in 0..Blocks - 1
    BY <1>7, Wrote
  <2>2. p \in D
    BY <2>1
  <2>3. data' \in [Block -> D]
    BY <1>1, <1>7, <2>2
  <2>4. FlashTypeOK'
    BY <1>1, <1>7 DEF FlashTypeOK
  <2>5. \E k \in Slot : Log(k)'
    BY <2>1
  <2> QED
    BY <2>3, <2>4, <2>5 DEF FlashInv
<1>8. CASE pc = "erase" /\ cursor < Sectors /\ Erase(cursor)
  <2>1. Blank'
    BY <1>8, Erased0
  <2> QED
    BY <2>1, Numbers DEF FlashInv, FlashTypeOK, Blank, Offset
<1> QED
  BY <1>2, <1>6, <1>7, <1>8 DEF Interrupted

-----------------------------------------------------------------------------
(* The invariant holds at first, and every action keeps it.                *)
LEMMA FileStates ==
    /\ NoFile \in FileState /\ NoFile.slot = RF_FATAL
    /\ \A g \in FileState, e \in {RF_EMPTY, RF_NEED_TO_EMPTY, RF_FATAL} :
           /\ [g EXCEPT !.slot = e] \in FileState
           /\ [g EXCEPT !.slot = e].slot = e
           /\ [NoFile EXCEPT !.slot = e] \in FileState
BY Numbers DEF NoFile, FileState, Offset, Errors

LEMMA InitInvariant == Init => IInv
<1> SUFFICES ASSUME Init PROVE IInv
  OBVIOUS
<1>1. TypeOK
  BY FileStates, Numbers DEF Init, TypeOK, Offset, Errors
<1>2. FlashInv /\ Blank
  BY DEF Init, FlashInv, Blank
<1>3. MemoryInv
  BY FileStates, Numbers DEF Init, MemoryInv, Errors
<1>4. PcInv
  BY FileStates, Numbers DEF Init, PcInv, Errors
<1> QED
  BY <1>1, <1>2, <1>3, <1>4 DEF IInv

(* What does not touch the flash needs no more than this.                  *)
LEMMA KeepsFlash ==
    ASSUME IInv, UNCHANGED flash
    PROVE  /\ FlashInv'
           /\ offsets' \in [Slot -> Offset]
           /\ data' \in [Block -> {Erased, Garbage} \cup (Value \X (0..Blocks - 1))]
BY SameFlash DEF IInv, TypeOK, flash

LEMMA InvariantOpen == IInv /\ Open => IInv'
<1> SUFFICES ASSUME IInv, Open PROVE IInv'
  OBVIOUS
<1>1. UNCHANGED flash /\ f' = RegionFileInit /\ pc = "closed" /\ pc' = "open"
      /\ UNCHANGED <<value, cursor, result>> /\ value = NoValue
  BY DEF Open, IInv, PcInv
<1>2. FlashTypeOK /\ FlashInv
  BY DEF IInv, TypeOK, FlashTypeOK
<1>3. ASSUME f' \in FileState,
             f'.slot >= RF_ONLY_METADATA =>
                f'.slot < f'.meta * PerBlock /\ f'.begin <= f'.end /\ f'.end <= Blocks,
             MemoryInv'
      PROVE  IInv'
  <2>1. TypeOK'
    BY <1>1, <1>3, KeepsFlash DEF IInv, TypeOK
  <2>2. PcInv'
    BY <1>1 DEF PcInv
  <2> QED
    BY <1>1, <1>3, <2>1, <2>2, KeepsFlash DEF IInv
<1>4. ASSUME NEW e \in {RF_EMPTY, RF_NEED_TO_EMPTY, RF_FATAL}, NEW g \in FileState,
             f' = [g EXCEPT !.slot = e], e = RF_EMPTY => Blank
      PROVE  IInv'
  <2>1. f' \in FileState /\ f'.slot = e
    BY <1>4, FileStates
  <2>2. ~(f'.slot >= RF_ONLY_METADATA)
    BY <2>1, Numbers DEF Errors
  <2>3. MemoryInv'
    BY <1>1, <1>4, <2>1, <2>2, SameFlash DEF MemoryInv
  <2> QED
    BY <1>3, <2>1, <2>2, <2>3
<1>5. CASE Blank
  BY <1>1, <1>4, <1>5, FileStates, InitReadsBlank
<1>6. CASE Spoilt
  BY <1>1, <1>4, <1>6, FileStates, InitReadsSpoilt, Numbers DEF Errors
<1>7. ASSUME NEW k \in Slot, Log(k) PROVE IInv'
  <2>1. CASE offsets[k] <= Blocks
    <3>1. f' = FileAt(k)
      BY <1>1, <1>2, <1>7, <2>1, InitReadsLog
    <3>2. /\ f' \in FileState /\ f'.slot = k /\ f'.end = offsets[k]
          /\ k < f'.meta * PerBlock /\ f'.begin <= f'.end
      BY <1>2, <1>7, <2>1, <3>1, FileTypes
    <3>3. f'.slot # RF_EMPTY
      BY <3>2, Numbers DEF Errors
    <3>4. Log(k)' /\ f' = FileAt(k)'
      BY <1>1, <1>7, <3>1, SameFlash
    <3>5. MemoryInv'
      BY <2>1, <3>2, <3>3, <3>4 DEF MemoryInv
    <3> QED
      BY <1>3, <2>1, <3>2, <3>5
  <2>2. CASE ~(offsets[k] <= Blocks)
    <3>1. f' = [FileAt(k) EXCEPT !.slot = RF_NEED_TO_EMPTY]
      BY <1>1, <1>2, <1>7, <2>2, InitReadsLog
    <3>2. offsets[0] \in Offset /\ offsets[k] \in Offset /\ (k > 0 => offsets[k - 1] \in Offset)
      BY <1>2, <1>7, FirstSlot, LogOffsets DEF FlashTypeOK
    <3>3. FileAt(k) \in FileState
      BY <3>2, Numbers DEF FileAt, FileState, Slot, Errors
    <3> QED
      BY <1>4, <3>1, <3>3, Numbers DEF Errors
  <2> QED
    BY <2>1, <2>2
<1> QED
  BY <1>2, <1>5, <1>6, <1>7 DEF FlashInv

(* A file in error is kept, whatever else happens to memory.               *)
LEMMA InError ==
    ASSUME IInv, FlashInv', FlashTypeOK',
           data' \in [Block -> {Erased, Garbage} \cup (Value \X (0..Blocks - 1))],
           f' \in FileState, f'.slot \in {RF_NEED_TO_EMPTY, RF_FATAL},
           pc' \in {"closed", "open", "update"},
           pc' = "closed" => f' = NoFile,
           value' \in Value \cup {NoValue}, value' = NoValue <=> pc' \in {"closed", "open"},
           cursor' \in 0..Blocks, result' \in {"none", "ok", "failed"}
    PROVE  IInv'
<1>1. ~(f'.slot >= RF_ONLY_METADATA) /\ f'.slot # RF_EMPTY
  BY Numbers DEF Errors
<1>2. MemoryInv' /\ PcInv'
  BY <1>1 DEF MemoryInv, PcInv
<1>3. TypeOK'
  BY <1>1 DEF TypeOK, FlashTypeOK
<1> QED
  BY <1>2, <1>3 DEF IInv

LEMMA InvariantOpenFails == IInv /\ OpenFails => IInv'
<1> SUFFICES ASSUME IInv, OpenFails PROVE IInv'
  OBVIOUS
<1>1. UNCHANGED flash /\ FlashTypeOK'
  BY DEF OpenFails, IInv, TypeOK, FlashTypeOK, flash
<1>2. /\ f' = NoFile /\ pc' = "open" /\ value' = NoValue /\ cursor' = cursor
      /\ result' = result
  BY DEF OpenFails, IInv, PcInv
<1> QED
  BY <1>1, <1>2, KeepsFlash, FileStates, InError DEF IInv, TypeOK

LEMMA InvariantClose == IInv /\ Close => IInv'
<1> SUFFICES ASSUME IInv, Close PROVE IInv'
  OBVIOUS
<1>1. UNCHANGED flash /\ FlashTypeOK'
  BY DEF Close, IInv, TypeOK, FlashTypeOK, flash
<1>2. /\ f' = NoFile /\ pc' = "closed" /\ value' = NoValue /\ cursor' = cursor
      /\ result' = result
  BY DEF Close, IInv, PcInv
<1> QED
  BY <1>1, <1>2, KeepsFlash, FileStates, InError DEF IInv, TypeOK

LEMMA InvariantRefuse == IInv /\ Refuse => IInv'
<1> SUFFICES ASSUME IInv, Refuse PROVE IInv'
  OBVIOUS
<1>1. UNCHANGED flash /\ FlashTypeOK'
  BY DEF Refuse, IInv, TypeOK, FlashTypeOK, flash
<1>2. /\ f' = [f EXCEPT !.slot = RF_FATAL] /\ pc' = "open" /\ value' = NoValue
      /\ cursor' = 0 /\ result' = "failed"
  BY DEF Refuse, Return
<1>3. f' \in FileState /\ f'.slot = RF_FATAL
  BY <1>2, FileStates DEF IInv, TypeOK
<1> QED
  BY <1>1, <1>2, <1>3, KeepsFlash, InError, Numbers

LEMMA InvariantLogFull == IInv /\ LogFull => IInv'
<1> SUFFICES ASSUME IInv, LogFull PROVE IInv'
  OBVIOUS
<1>1. UNCHANGED flash /\ FlashTypeOK'
  BY DEF LogFull, IInv, TypeOK, FlashTypeOK, flash
<1>2. /\ f' = [f EXCEPT !.slot = RF_NEED_TO_EMPTY] /\ pc' = "update" /\ value' = value
      /\ cursor' = cursor /\ result' = result /\ value # NoValue
  BY DEF LogFull, Updating, IInv, PcInv
<1>3. f' \in FileState /\ f'.slot = RF_NEED_TO_EMPTY
  BY <1>2, FileStates DEF IInv, TypeOK
<1> QED
  BY <1>1, <1>2, <1>3, KeepsFlash, InError DEF IInv, TypeOK

LEMMA InvariantAccessFails ==
    ASSUME SectorBlocks = Blocks, IInv, AccessFails
    PROVE  IInv'
<1>1. Interrupted
  BY DEF AccessFails
<1>2. /\ f' = [f EXCEPT !.slot = RF_FATAL] /\ pc' = "open" /\ value' = NoValue
      /\ cursor' = 0 /\ result' = "failed"
  BY DEF AccessFails, Return
<1>3. f' \in FileState /\ f'.slot = RF_FATAL
  BY <1>2, FileStates DEF IInv, TypeOK
<1> QED
  BY <1>1, <1>2, <1>3, FlashAfter, InError, Numbers

LEMMA InvariantPowerCut ==
    ASSUME SectorBlocks = Blocks, IInv, PowerCut
    PROVE  IInv'
<1>1. Interrupted
  BY DEF PowerCut
<1>2. /\ f' = NoFile /\ pc' = "closed" /\ value' = NoValue /\ cursor' = 0
      /\ result' \in {"none", "ok", "failed"}
  BY DEF PowerCut, IInv, TypeOK
<1> QED
  BY <1>1, <1>2, FlashAfter, InError, FileStates, Numbers

-----------------------------------------------------------------------------
(* The actions that go on with a file that is not in error.                *)
LEMMA SameFile ==
    ASSUME IInv, UNCHANGED flash, UNCHANGED f
    PROVE  MemoryInv'
<1>1. offsets' = offsets /\ data' = data
  BY DEF flash
<1>2. MemoryInv
  BY DEF IInv
<1>3. f.slot = RF_EMPTY => Blank'
  BY <1>2, SameFlash DEF MemoryInv
<1>4. f.slot >= RF_ONLY_METADATA =>
        f.slot \in Slot /\ Log(f.slot)' /\ f = FileAt(f.slot)' /\ f.end <= Blocks
  BY <1>1, <1>2 DEF MemoryInv, Log, FileAt
<1> QED
  BY <1>3, <1>4 DEF MemoryInv

LEMMA InvariantUpdateStart ==
    ASSUME IInv, NEW v \in Value, UpdateStart(v)
    PROVE  IInv'
<1>1. /\ UNCHANGED flash /\ UNCHANGED f /\ pc' = "update" /\ value' = v
      /\ UNCHANGED <<cursor, result>>
  BY DEF UpdateStart
<1>2. TypeOK'
  BY <1>1, KeepsFlash DEF IInv, TypeOK
<1>3. PcInv'
  BY <1>1, NullAssumption DEF PcInv
<1> QED
  BY <1>1, <1>2, <1>3, KeepsFlash, SameFile DEF IInv

LEMMA InvariantUpdateDone ==
    ASSUME IInv, UpdateDone
    PROVE  IInv'
<1>1. /\ UNCHANGED flash /\ UNCHANGED f /\ pc' = "open" /\ value' = NoValue
      /\ cursor' = 0 /\ result' = "ok"
  BY DEF UpdateDone, Return
<1>2. TypeOK'
  BY <1>1, KeepsFlash, Numbers DEF IInv, TypeOK
<1>3. PcInv'
  BY <1>1 DEF PcInv
<1> QED
  BY <1>1, <1>2, <1>3, KeepsFlash, SameFile DEF IInv

LEMMA InvariantStartErase ==
    ASSUME IInv, StartErase
    PROVE  IInv'
<1>1. /\ UNCHANGED flash /\ UNCHANGED f /\ pc' = "erase" /\ cursor' = 0
      /\ UNCHANGED <<value, result>> /\ f.slot = RF_NEED_TO_EMPTY /\ pc = "update"
  BY DEF StartErase, Updating
<1>2. TypeOK'
  BY <1>1, KeepsFlash, Numbers DEF IInv, TypeOK
<1>3. PcInv'
  BY <1>1 DEF PcInv, IInv
<1> QED
  BY <1>1, <1>2, <1>3, KeepsFlash, SameFile DEF IInv

LEMMA InvariantEraseSector ==
    ASSUME SectorBlocks = Blocks, IInv, EraseSector
    PROVE  IInv'
<1>1. /\ pc = "erase" /\ cursor < Sectors /\ Erase(cursor) /\ UNCHANGED f
      /\ cursor' = cursor + 1 /\ UNCHANGED <<pc, value, result>>
      /\ f.slot = RF_NEED_TO_EMPTY
  BY DEF EraseSector, IInv, PcInv
<1>2. Interrupted
  BY <1>1 DEF Interrupted
<1>3. Blank' /\ cursor = 0 /\ cursor' = 1
  BY <1>1, Erased0
<1>4. TypeOK'
  BY <1>1, <1>2, <1>3, FlashAfter, Numbers DEF IInv, TypeOK, FlashTypeOK
<1>5. PcInv'
  BY <1>1, <1>3 DEF PcInv, IInv
<1>6. MemoryInv'
  BY <1>1, Numbers DEF MemoryInv, Errors
<1> QED
  BY <1>2, <1>4, <1>5, <1>6, FlashAfter DEF IInv

LEMMA InvariantEraseDone ==
    ASSUME SectorBlocks = Blocks, IInv, EraseDone
    PROVE  IInv'
<1>1. /\ UNCHANGED flash /\ f' = [f EXCEPT !.slot = RF_EMPTY] /\ pc' = "update"
      /\ cursor' = 0 /\ UNCHANGED <<value, result>> /\ pc = "erase" /\ cursor = 1
  BY OneSector DEF EraseDone
<1>2. f' \in FileState /\ f'.slot = RF_EMPTY /\ ~(f'.slot >= RF_ONLY_METADATA)
  <2>1. f \in FileState
    BY DEF IInv, TypeOK
  <2>2. f' \in FileState /\ f'.slot = RF_EMPTY
    BY <1>1, <2>1, FileStates
  <2> QED
    BY <2>2, Numbers DEF Errors
<1>3. TypeOK'
  BY <1>1, <1>2, KeepsFlash, Numbers DEF IInv, TypeOK
<1>4. Blank'
  BY <1>1, SameFlash DEF IInv, PcInv
<1>5. MemoryInv'
  BY <1>2, <1>4 DEF MemoryInv
<1>6. PcInv'
  BY <1>1 DEF PcInv, IInv
<1> QED
  BY <1>1, <1>3, <1>5, <1>6, KeepsFlash DEF IInv

(* An offset is programmed in full.                                        *)
LEMMA InvariantAllocateMetadata ==
    ASSUME SectorBlocks = Blocks, IInv, AllocateMetadata
    PROVE  IInv'
<1>1. /\ Allocating /\ NextSlot = 0 /\ Program(NextSlot, NextOffset) /\ UNCHANGED data
      /\ f' = [slot |-> RF_ONLY_METADATA, meta |-> NextOffset,
               begin |-> NextOffset, end |-> NextOffset]
      /\ pc = "update" /\ UNCHANGED <<pc, value, cursor, result>>
  BY DEF AllocateMetadata, Allocating, NextSlot, Updating
<1>2. NextOffset \in 1..Blocks /\ NextOffset < Unallocated
  <2>1. value \in Value /\ NextOffset = MetadataBlocks(Size[value])
    BY <1>1 DEF Allocating, NextOffset, IInv, PcInv, TypeOK
  <2>2. Size[value] \in 1..Blocks - 1
    BY <1>1, <2>1, Sizes, Numbers DEF Allocating, TooLarge
  <2> QED
    BY <2>1, <2>2, Sizes, MetadataFits
<1>3. NextOffset \in NextOffset..Unallocated /\ NextOffset # Unallocated
      /\ NextOffset <= Blocks /\ NextOffset \in Offset
  BY <1>2, Numbers DEF Offset
<1>4. Log(0)' /\ offsets'[0] = NextOffset
  BY <1>1, <1>3, Allocated
<1>5. Interrupted
  BY <1>1, <1>3 DEF Interrupted
<1>6. f' = FileAt(0)' /\ f'.slot = 0 /\ f'.end = NextOffset /\ f'.slot # RF_EMPTY
  BY <1>1, <1>4, Numbers DEF FileAt, Errors
<1>7. MemoryInv'
  BY <1>3, <1>4, <1>6, FirstSlot DEF MemoryInv
<1>8. PcInv'
  BY <1>1 DEF PcInv, IInv
<1>9. TypeOK'
  <2>1. 0 < NextOffset * PerBlock
    BY <1>2, Numbers
  <2>2. f' \in FileState
    BY <1>1, <1>3, Numbers DEF FileState, Errors
  <2> QED
    BY <1>1, <1>2, <1>3, <1>5, <2>1, <2>2, FlashAfter, Numbers
       DEF IInv, TypeOK, FlashTypeOK, Errors
<1> QED
  BY <1>5, <1>7, <1>8, <1>9, FlashAfter DEF IInv

LEMMA InvariantCommitAllocation ==
    ASSUME SectorBlocks = Blocks, IInv, CommitAllocation
    PROVE  IInv'
<1>1. /\ Committing /\ Program(NextSlot, NextOffset) /\ UNCHANGED data
      /\ f' = [f EXCEPT !.slot = NextSlot, !.begin = f.end, !.end = NextOffset]
      /\ pc' = "data" /\ cursor' = f.end /\ UNCHANGED <<value, result>>
  BY DEF CommitAllocation
<1>2. /\ f.slot >= RF_ONLY_METADATA /\ update_can_fit(Size[value])
      /\ value \in Value /\ value # NoValue
      /\ NextSlot = f.slot + 1 /\ NextOffset = f.end + Size[value]
  BY <1>1, Numbers DEF Committing, Allocating, Updating, NextSlot, NextOffset,
                       IInv, PcInv, TypeOK, Errors
<1>3. /\ f.slot \in Slot /\ f.slot \in Nat /\ Log(f.slot) /\ f.end = offsets[f.slot]
      /\ f.end \in Nat /\ f.end <= Blocks /\ f.meta = offsets[0] /\ offsets[0] <= f.end
  BY <1>2, OpenFile, Numbers
<1>4. /\ NextOffset \in Nat /\ f.end < NextOffset /\ NextOffset < Unallocated
      /\ NextOffset <= Blocks /\ NextOffset \in NextOffset..Unallocated
      /\ Size[value] \in Nat /\ NextOffset \in Offset /\ f.end \in Offset
  BY <1>2, <1>3, Numbers, Sizes DEF update_can_fit, Offset
<1>5. PICK k \in Slot : k = NextSlot
  BY <1>1, <1>4, Committed
<1>6. /\ Log(k)' /\ offsets'[k] = NextOffset
      /\ offsets'[k - 1] = f.end /\ offsets'[0] = offsets[0]
  BY <1>1, <1>4, <1>5, Committed
<1>7. k \in Nat /\ k > 0 /\ k = f.slot + 1
  BY <1>2, <1>3, <1>5
<1>8. f \in FileState /\ f.meta \in Offset
  BY DEF IInv, TypeOK, FileState
<1>9. f' = [slot |-> k, meta |-> f.meta, begin |-> f.end, end |-> NextOffset]
  BY <1>1, <1>5, <1>8 DEF FileState
<1>10. f' = FileAt(k)' /\ f'.slot = k /\ f'.end = NextOffset /\ f'.begin = f.end
  BY <1>3, <1>6, <1>7, <1>9 DEF FileAt
<1>11. Interrupted
  BY <1>1, <1>4 DEF Interrupted
<1>12. f'.slot # RF_EMPTY /\ f'.slot > RF_ONLY_METADATA
  BY <1>7, <1>10, Numbers DEF Errors
<1>13. MemoryInv'
  BY <1>4, <1>6, <1>10, <1>12 DEF MemoryInv
<1>14. PcInv'
  <2>1. \A b \in Block : b >= f.end => data'[b] = Erased
    BY <1>1, <1>3 DEF Log
  <2>2. cursor' \in f'.begin..f'.end /\ f'.begin..cursor' - 1 = {}
    BY <1>1, <1>3, <1>4, <1>10
  <2> QED
    BY <1>1, <1>2, <1>10, <1>12, <2>1, <2>2 DEF PcInv
<1>15. TypeOK'
  <2>1. f'.slot < f'.meta * PerBlock
    BY <1>2, <1>7, <1>9 DEF update_can_fit
  <2>2. f' \in FileState
    BY <1>4, <1>5, <1>8, <1>9, Numbers DEF FileState, Slot, Errors
  <2>3. f'.begin <= f'.end /\ f'.end <= Blocks /\ cursor' \in 0..Blocks
    BY <1>1, <1>3, <1>4, <1>10
  <2> QED
    BY <1>1, <1>2, <1>11, <2>1, <2>2, <2>3, FlashAfter DEF IInv, TypeOK, FlashTypeOK
<1> QED
  BY <1>11, <1>13, <1>14, <1>15, FlashAfter DEF IInv

(* A block of the data is programmed in full.                              *)
LEMMA InvariantCommitBlock ==
    ASSUME SectorBlocks = Blocks, IInv, CommitBlock
    PROVE  IInv'
<1>1. /\ pc = "data" /\ cursor < f.end /\ data' = [data EXCEPT ![cursor] = Written]
      /\ cursor' = cursor + 1 /\ UNCHANGED offsets /\ UNCHANGED f
      /\ UNCHANGED <<pc, value, result>>
  BY DEF CommitBlock
<1>2. /\ f.slot > RF_ONLY_METADATA /\ f.end = f.begin + Size[value]
      /\ cursor \in f.begin..f.end
      /\ \A b \in f.begin..cursor - 1 : data[b] = <<value, b - f.begin>>
      /\ \A b \in Block : b >= cursor => data[b] = Erased
  BY <1>1 DEF IInv, PcInv
<1>3. /\ f.slot \in Slot /\ cursor \in Block
      /\ \A k \in Slot : k = f.slot => Log(k)'
      /\ \A c \in Block : data'[c] = IF c = cursor THEN Written ELSE data[c]
      /\ Written = <<value, cursor - f.begin>>
  BY <1>1, Wrote
<1>4. f.slot > 0 /\ f.slot >= RF_ONLY_METADATA /\ f.slot # RF_EMPTY /\ f.slot \in Nat
  BY <1>2, <1>3, Numbers DEF Errors
<1>5. /\ f = FileAt(f.slot) /\ f.end \in Nat /\ f.end <= Blocks /\ f.begin \in Nat
      /\ f.begin < f.end
  BY <1>4, OpenFile
<1>6. Interrupted
  BY <1>1 DEF Interrupted
<1>7. MemoryInv'
  <2>1. f' = f /\ FileAt(f.slot)' = FileAt(f.slot)
    BY <1>1 DEF FileAt
  <2>2. \A k \in Slot : k = f'.slot => Log(k)' /\ FileAt(k)' = f'
    BY <1>1, <1>3, <1>5 DEF FileAt
  <2> QED
    BY <1>1, <1>3, <1>4, <1>5, <2>2 DEF MemoryInv
<1>8. PcInv'
  <2>1. cursor' \in f'.begin..f'.end
    BY <1>1, <1>2, <1>5, <1>3, Numbers
  <2>2. ASSUME NEW b \in f'.begin..cursor' - 1 PROVE data'[b] = <<value', b - f'.begin>>
    <3>1. b \in Block /\ f'.begin = f.begin /\ value' = value
      BY <1>1, <1>2, <1>3, <1>5, Numbers DEF Block
    <3>2. CASE b = cursor
      BY <1>3, <3>1, <3>2
    <3>3. CASE b # cursor
      <4>1. b \in f.begin..cursor - 1
        BY <1>1, <1>3, <1>5, <3>3, Numbers
      <4> QED
        BY <1>2, <1>3, <3>1, <3>3, <4>1
    <3> QED
      BY <3>2, <3>3
  <2>3. ASSUME NEW b \in Block, b >= cursor' PROVE data'[b] = Erased
    <3>1. b >= cursor /\ b # cursor
      BY <1>1, <1>3, <2>3, Numbers
    <3> QED
      BY <1>2, <1>3, <3>1
  <2>4. value # NoValue
    BY <1>1 DEF IInv, PcInv
  <2> QED
    BY <1>1, <1>2, <2>1, <2>2, <2>3, <2>4 DEF PcInv
<1>9. TypeOK'
  <2>1. cursor' \in 0..Blocks
    BY <1>1, <1>3, <1>5, Numbers
  <2> QED
    BY <1>1, <1>6, <2>1, FlashAfter DEF IInv, TypeOK, FlashTypeOK
<1> QED
  BY <1>6, <1>7, <1>8, <1>9, FlashAfter DEF IInv

LEMMA InvariantStep == SectorBlocks = Blocks /\ IInv /\ [Next]_vars => IInv'
<1> SUFFICES ASSUME SectorBlocks = Blocks, IInv, [Next]_vars PROVE IInv'
  OBVIOUS
<1>1. CASE UNCHANGED vars
  <2>1. UNCHANGED flash /\ UNCHANGED f
    BY <1>1 DEF vars, flash
  <2>2. TypeOK'
    BY <1>1 DEF vars, IInv, TypeOK
  <2>3. PcInv'
    <3>1. f' = f /\ pc' = pc /\ value' = value /\ cursor' = cursor /\ data' = data
          /\ offsets' = offsets
      BY <1>1 DEF vars
    <3>2. PcInv /\ (Blank => Blank')
      BY <3>1 DEF IInv, Blank
    <3> QED
      BY <3>1, <3>2 DEF PcInv
  <2> QED
    BY <2>1, <2>2, <2>3, SameFile, SameFlash DEF IInv
<1>2. CASE Open
  BY <1>2, InvariantOpen
<1>3. CASE OpenFails
  BY <1>3, InvariantOpenFails
<1>4. CASE Close
  BY <1>4, InvariantClose
<1>5. CASE \E v \in Value : UpdateStart(v)
  BY <1>5, InvariantUpdateStart
<1>6. CASE UpdateStep
  BY <1>6, InvariantRefuse, InvariantAllocateMetadata, InvariantLogFull,
     InvariantCommitAllocation, InvariantCommitBlock, InvariantUpdateDone,
     InvariantStartErase, InvariantEraseSector, InvariantEraseDone DEF UpdateStep
<1>7. CASE AccessFails
  BY <1>7, InvariantAccessFails
<1>8. CASE PowerCut
  BY <1>8, InvariantPowerCut
<1> QED
  BY <1>1, <1>2, <1>3, <1>4, <1>5, <1>6, <1>7, <1>8 DEF Next

(* The inductive invariant of a region in one erase sector: the blocks     *)
(* that find_latest_mb() and find_latest_slot() go by are written one      *)
(* after the other, whatever lost power has left behind them.              *)
THEOREM Invariant == SectorBlocks = Blocks => (Spec => []IInv)
<1> SUFFICES ASSUME SectorBlocks = Blocks PROVE Spec => []IInv
  OBVIOUS
<1>1. Init => IInv
  BY InitInvariant
<1>2. IInv /\ [Next]_vars => IInv'
  BY InvariantStep
<1> QED
  BY <1>1, <1>2, PTL DEF Spec

LEMMA MemoryIsFlash == IInv => MemoryMatchesFlash
<1> SUFFICES ASSUME IInv, f.slot \notin {RF_FATAL, RF_NEED_TO_EMPTY}
             PROVE  /\ f.slot = RegionFileInit.slot
                    /\ f.slot # RF_EMPTY => f = RegionFileInit
  BY DEF MemoryMatchesFlash
<1>1. f \in FileState /\ FlashTypeOK
  BY DEF IInv, TypeOK, FlashTypeOK
<1>2. f.slot = RF_EMPTY \/ f.slot >= RF_ONLY_METADATA
  BY <1>1, Numbers DEF FileState, Errors
<1>3. CASE f.slot = RF_EMPTY
  <2>1. RegionFileInit = [NoFile EXCEPT !.slot = RF_EMPTY]
    BY <1>3, InitReadsBlank DEF IInv, MemoryInv
  <2> QED
    BY <1>3, <2>1, FileStates
<1>4. CASE f.slot >= RF_ONLY_METADATA
  <2>1. /\ f.slot \in Slot /\ Log(f.slot) /\ f = FileAt(f.slot)
        /\ offsets[f.slot] <= Blocks
    BY <1>4, OpenFile
  <2> QED
    BY <1>1, <2>1, InitReadsLog
<1> QED
  BY <1>2, <1>3, <1>4

(* After any cuts, what a running user keeps of a file in memory is what a *)
(* restart would read from the flash, so the binary search of              *)
(* find_latest_slot() always ends at the update that was last.             *)
THEOREM MemoryMatches == SectorBlocks = Blocks => (Spec => []MemoryMatchesFlash)
BY Invariant, MemoryIsFlash, PTL

-----------------------------------------------------------------------------
(* What would be read back.                                                *)
Begun(k) == k > 0 /\ Log(k) /\ offsets[k] <= Blocks

LEMMA ReadsNothing ==
    FlashTypeOK /\ (Blank \/ Spoilt \/ \E k \in Slot : Log(k) /\ ~Begun(k))
        => Content = NoValue
<1> SUFFICES ASSUME FlashTypeOK, Blank \/ Spoilt \/ \E k \in Slot : Log(k) /\ ~Begun(k)
             PROVE  RegionFileInit.slot <= RF_ONLY_METADATA
  BY DEF Content
<1>1. CASE Blank
  BY <1>1, InitReadsBlank, Numbers DEF Errors, NoFile
<1>2. CASE Spoilt
  BY <1>2, InitReadsSpoilt, Numbers DEF Errors, NoFile
<1>3. ASSUME NEW k \in Slot, Log(k), ~Begun(k)
      PROVE  RegionFileInit.slot <= RF_ONLY_METADATA
  <2>1. RegionFileInit = IF offsets[k] <= Blocks THEN FileAt(k)
                         ELSE [FileAt(k) EXCEPT !.slot = RF_NEED_TO_EMPTY]
    BY <1>3, InitReadsLog
  <2>2. offsets[k] <= Blocks => k = 0
    BY <1>3, Numbers DEF Begun
  <2>5. RF_ONLY_METADATA = 0 /\ RF_NEED_TO_EMPTY = -2
    BY Numbers DEF Errors
  <2>6. RegionFileInit.slot = IF offsets[k] <= Blocks THEN k ELSE RF_NEED_TO_EMPTY
    BY <2>1 DEF FileAt
  <2>3. CASE offsets[k] <= Blocks
    BY <2>2, <2>3, <2>5, <2>6
  <2>4. CASE ~(offsets[k] <= Blocks)
    BY <2>4, <2>5, <2>6
  <2> QED
    BY <2>3, <2>4
<1> QED
  BY <1>1, <1>2, <1>3

StoredAt(k, v) ==
    /\ offsets[k] - offsets[k - 1] = Size[v]
    /\ \A i \in 0..Size[v] - 1 : data[offsets[k - 1] + i] = <<v, i>>

LEMMA ReadsLog ==
    ASSUME FlashTypeOK, NEW k \in Slot, Begun(k)
    PROVE  Content = IF \E v \in Value : StoredAt(k, v)
                     THEN CHOOSE v \in Value : StoredAt(k, v) ELSE Damaged
<1>1. RegionFileInit = FileAt(k)
  BY InitReadsLog DEF Begun
<1>2. /\ FileAt(k).slot = k /\ ~(k <= RF_ONLY_METADATA)
      /\ FileAt(k).begin = offsets[k - 1] /\ FileAt(k).end = offsets[k]
  BY Numbers DEF FileAt, Begun, Errors
<1> QED
  BY <1>1, <1>2 DEF Content, StoredAt

(* A value that has been written in full.                                  *)
LEMMA ReadsWhole ==
    \A k \in Slot, v \in Value : FlashTypeOK /\ Begun(k) /\ StoredAt(k, v) => Content = v
<1> SUFFICES ASSUME FlashTypeOK, NEW k \in Slot, Begun(k), NEW v \in Value, StoredAt(k, v)
             PROVE  Content = v
  OBVIOUS
<1>1. ASSUME NEW w \in Value, StoredAt(k, w) PROVE w = v
  <2>1. 0 \in 0..Size[v] - 1 /\ 0 \in 0..Size[w] - 1
    BY Sizes
  <2>2. data[offsets[k - 1] + 0] = <<v, 0>> /\ data[offsets[k - 1] + 0] = <<w, 0>>
    BY <1>1, <2>1 DEF StoredAt
  <2> QED
    BY <2>2
<1>2. (CHOOSE w \in Value : StoredAt(k, w)) = v
  BY <1>1
<1> QED
  BY <1>2, ReadsLog

(* One of which at most a part has been.                                   *)
LEMMA ReadsBegun ==
    \A k \in Slot, v \in Value :
        FlashTypeOK /\ Begun(k) /\ data[offsets[k - 1]] \in {Erased, Garbage, <<v, 0>>}
            => Content \in {Damaged, v}
<1> SUFFICES ASSUME FlashTypeOK, NEW k \in Slot, Begun(k), NEW v \in Value,
                    data[offsets[k - 1]] \in {Erased, Garbage, <<v, 0>>}
             PROVE  Content \in {Damaged, v}
  OBVIOUS
<1>1. ASSUME NEW w \in Value, StoredAt(k, w) PROVE w = v
  <2>1. 0 \in 0..Size[w] - 1 /\ 0 \in 0..Blocks - 1
    BY Sizes, Numbers
  <2>2. offsets[k - 1] + 0 = offsets[k - 1]
    BY LogOffsets DEF Begun
  <2>3. data[offsets[k - 1]] = <<w, 0>>
    BY <1>1, <2>1, <2>2 DEF StoredAt
  <2>4. <<w, 0>> \notin {Erased, Garbage}
    BY <2>1, PieceAssumption
  <2> QED
    BY <2>3, <2>4
<1> QED
  BY <1>1, ReadsLog

LEMMA NextReadsNothing ==
    (FlashTypeOK /\ (Blank \/ Spoilt \/ \E k \in Slot : Log(k) /\ ~Begun(k))
        => Content = NoValue)'
BY ReadsNothing, PTL

LEMMA NextReadsBegun ==
    (\A k \in Slot, v \in Value :
        FlashTypeOK /\ Begun(k) /\ data[offsets[k - 1]] \in {Erased, Garbage, <<v, 0>>}
            => Content \in {Damaged, v})'
BY ReadsBegun, PTL

LEMMA ReadsDamage ==
    \A k \in Slot : FlashTypeOK /\ Begun(k) /\ ~(\E v \in Value : StoredAt(k, v))
        => Content = Damaged
BY ReadsLog

LEMMA NextReadsWhole ==
    (\A k \in Slot, v \in Value : FlashTypeOK /\ Begun(k) /\ StoredAt(k, v) => Content = v)'
BY ReadsWhole, PTL

LEMMA NextReadsDamage ==
    (\A k \in Slot : FlashTypeOK /\ Begun(k) /\ ~(\E v \in Value : StoredAt(k, v))
        => Content = Damaged)'
BY ReadsDamage, PTL

LEMMA SameContent ==
    ASSUME FlashTypeOK, FlashInv, UNCHANGED flash
    PROVE  Content' = Content
<1>1. offsets' = offsets /\ data' = data /\ FlashTypeOK'
  BY DEF flash, FlashTypeOK
<1>2. CASE Blank \/ Spoilt \/ \E k \in Slot : Log(k) /\ ~Begun(k)
  <2>1. (Blank \/ Spoilt \/ \E k \in Slot : Log(k) /\ ~Begun(k))'
    <3>1. (Blank => Blank') /\ (Spoilt => Spoilt')
      BY <1>1 DEF Blank, Spoilt
    <3>2. \A k \in Slot : (Log(k) <=> Log(k)') /\ (Begun(k) <=> Begun(k)')
      BY <1>1 DEF Log, Begun
    <3> QED
      BY <1>2, <3>1, <3>2
  <2> QED
    BY <1>1, <1>2, <2>1, ReadsNothing, NextReadsNothing
<1>3. ASSUME NEW k \in Slot, Begun(k) PROVE Content' = Content
  <2>1. Begun(k)' /\ \A v \in Value : StoredAt(k, v)' <=> StoredAt(k, v)
    BY <1>1, <1>3 DEF Begun, Log, StoredAt
  <2>2. CASE \E v \in Value : StoredAt(k, v)
    BY <1>1, <1>3, <2>1, <2>2, ReadsWhole, NextReadsWhole
  <2>3. CASE ~(\E v \in Value : StoredAt(k, v))
    BY <1>1, <1>3, <2>1, <2>3, ReadsDamage, NextReadsDamage
  <2> QED
    BY <2>2, <2>3
<1> QED
  BY <1>2, <1>3 DEF FlashInv

(* Whatever is cut off, what is read afterwards is what was read before,   *)
(* nothing, damage or the value that is written.                           *)
LEMMA ContentAfter ==
    ASSUME IInv, SectorBlocks = Blocks, Interrupted
    PROVE  Content' \in {Content, NoValue, Damaged, value}
<1>1. FlashTypeOK'
  BY FlashAfter
<1>2. CASE UNCHANGED flash
  BY <1>2, SameContent DEF IInv, TypeOK, FlashTypeOK
<1>3. ASSUME Allocating, NEW o \in NextOffset..Unallocated, Program(NextSlot, o),
             UNCHANGED data
      PROVE  Content' = NoValue
  <2>1. /\ o \in 1..Unallocated
        /\ o = Unallocated => Blank'
        /\ o # Unallocated /\ o <= Blocks => Log(0)'
        /\ o # Unallocated /\ o > Blocks => Spoilt'
    BY <1>3, Allocated
  <2>2. Blank' \/ Spoilt' \/ Log(0)'
    BY <2>1, Numbers
  <2>3. ~Begun(0)'
    BY DEF Begun
  <2> QED
    BY <1>1, <2>2, <2>3, FirstSlot, NextReadsNothing
<1>4. ASSUME Committing, NEW o \in NextOffset..Unallocated, Program(NextSlot, o),
             UNCHANGED data
      PROVE  Content' \in {Content, NoValue, Damaged, value}
  <2>1. CASE o = Unallocated
    BY <1>2, <1>4, <2>1, Committed
  <2>2. CASE o # Unallocated
    <3>1. PICK k \in Slot : k = NextSlot
      BY <1>4, Committed
    <3>2. Log(k)' /\ offsets'[k] = o /\ offsets'[k - 1] = f.end
      BY <1>4, <2>2, <3>1, Committed
    <3>3. CASE o > Blocks
      <4>1. ~Begun(k)'
        BY <1>4, <3>2, <3>3, Committed, Numbers DEF Begun
      <4> QED
        BY <1>1, <3>2, <4>1, NextReadsNothing
    <3>4. CASE o <= Blocks
      <4>1. /\ f.slot >= RF_ONLY_METADATA /\ NextSlot = f.slot + 1 /\ o \in Nat /\ f.end < o
            /\ value \in Value
        BY <1>4, Committed, Numbers DEF Committing, Updating, IInv, PcInv, TypeOK
      <4>2. f.slot \in Slot /\ Log(f.slot) /\ f.end = offsets[f.slot] /\ f.end \in Nat
        BY <4>1, OpenFile
      <4>3. f.end \in Block
        BY <3>4, <4>1, <4>2, Numbers DEF Block
      <4>4. data'[f.end] = Erased
        BY <1>4, <4>2, <4>3 DEF Log
      <4>5. k > 0
        <5>1. f.slot \in Nat
          BY <4>2, Numbers
        <5> QED
          BY <3>1, <4>1, <5>1
      <4>6. Begun(k)'
        BY <3>2, <3>4, <4>5 DEF Begun
      <4> QED
        BY <1>1, <3>2, <4>1, <4>4, <4>6, NextReadsBegun
    <3> QED
      BY <1>4, <3>3, <3>4, Committed, Numbers
  <2> QED
    BY <2>1, <2>2
<1>5. CASE (Allocating \/ Committing)
           /\ (\E o \in NextOffset..Unallocated : Program(NextSlot, o)) /\ UNCHANGED data
  BY <1>3, <1>4, <1>5
<1>6. ASSUME pc = "data", cursor < f.end, NEW p \in {Garbage, Written},
             data' = [data EXCEPT ![cursor] = p], UNCHANGED offsets
      PROVE  Content' \in {Damaged, value}
  <2>1. /\ f.slot \in Slot /\ f.slot > 0 /\ cursor \in Block /\ value \in Value
        /\ \A k \in Slot : k = f.slot => Log(k)'
        /\ \A c \in Block : data'[c] = IF c = cursor THEN p ELSE data[c]
        /\ Written = <<value, cursor - f.begin>>
    BY <1>6, Wrote
  <2>2. f.slot >= RF_ONLY_METADATA
    BY <2>1, Numbers DEF Errors
  <2>3. /\ f.begin = offsets[f.slot - 1] /\ f.begin \in Nat /\ f.begin < f.end
        /\ f.end = offsets[f.slot] /\ f.end <= Blocks /\ f.end \in Nat
    BY <2>1, <2>2, OpenFile
  <2>4. /\ cursor \in f.begin..f.end
        /\ \A b \in f.begin..cursor - 1 : data[b] = <<value, b - f.begin>>
    BY <1>6 DEF IInv, PcInv
  <2>5. data'[f.begin] \in {Erased, Garbage, <<value, 0>>}
    <3>1. CASE cursor = f.begin
      BY <2>1, <2>3, <3>1
    <3>2. CASE cursor # f.begin
      <4>1. f.begin \in f.begin..cursor - 1 /\ f.begin \in Block /\ f.begin - f.begin = 0
        BY <2>3, <2>4, <3>2, Numbers DEF Block
      <4> QED
        BY <2>1, <2>4, <3>2, <4>1
    <3> QED
      BY <3>1, <3>2
  <2>6. PICK k \in Slot : k = f.slot
    BY <2>1
  <2>7. Begun(k)' /\ data'[offsets'[k - 1]] \in {Erased, Garbage, <<value, 0>>}
    BY <1>6, <2>1, <2>3, <2>5, <2>6 DEF Begun
  <2> QED
    BY <1>1, <2>1, <2>7, NextReadsBegun
<1>7. CASE pc = "erase" /\ cursor < Sectors /\ Erase(cursor)
  <2>1. Blank'
    BY <1>7, Erased0
  <2> QED
    BY <1>1, <2>1, NextReadsNothing
<1> QED
  BY <1>2, <1>5, <1>6, <1>7 DEF Interrupted

-----------------------------------------------------------------------------
(* For users who tell a value by its first block: what the latest slot     *)
(* begins with, and whether it holds a value in full.                      *)
StartsWith(v) == \E k \in Slot : Begun(k) /\ data[offsets[k - 1]] = <<v, 0>>
Whole(v) == \E k \in Slot : Begun(k) /\ StoredAt(k, v)

LEMMA OneLatest == \A k \in Slot, j \in Slot : Log(k) /\ Log(j) => k = j
<1> SUFFICES ASSUME NEW k \in Slot, NEW j \in Slot, Log(k), Log(j) PROVE k = j
  OBVIOUS
<1>1. k \in Nat /\ j \in Nat
  BY Numbers
<1>2. k <= j /\ j <= k
  BY <1>1 DEF Log
<1> QED
  BY <1>1, <1>2

LEMMA NextOneLatest == (\A k \in Slot, j \in Slot : Log(k) /\ Log(j) => k = j)'
BY OneLatest, PTL

LEMMA NoLatest == Blank \/ Spoilt => \A k \in Slot : ~Begun(k)
<1> SUFFICES ASSUME Blank \/ Spoilt, NEW k \in Slot, Begun(k) PROVE FALSE
  OBVIOUS
<1>1. k \in Slot \ {0} /\ k \in Nat /\ offsets[k] # Unallocated
  BY Numbers DEF Begun, Log
<1> QED
  BY <1>1 DEF Blank, Spoilt

LEMMA NextNoLatest == (Blank \/ Spoilt => \A k \in Slot : ~Begun(k))'
BY NoLatest, PTL

(* The file that region_file_init() finds is the latest slot.              *)
LEMMA InitReadsLatest ==
    ASSUME FlashTypeOK, FlashInv
    PROVE  /\ \A k \in Slot : Begun(k) => RegionFileInit = FileAt(k)
           /\ RegionFileInit.slot > RF_ONLY_METADATA =>
                \E k \in Slot : Begun(k) /\ RegionFileInit = FileAt(k)
<1>1. ASSUME NEW k \in Slot, Begun(k) PROVE RegionFileInit = FileAt(k)
  BY <1>1, InitReadsLog DEF Begun
<1>2. ASSUME RegionFileInit.slot > RF_ONLY_METADATA
      PROVE  \E k \in Slot : Begun(k) /\ RegionFileInit = FileAt(k)
  <2>1. RegionFileInit.slot > 0
    BY <1>2, Numbers DEF Errors
  <2>2. ~(RF_EMPTY > 0) /\ ~(RF_NEED_TO_EMPTY > 0)
    BY Numbers DEF Errors
  <2>3. /\ [NoFile EXCEPT !.slot = RF_EMPTY].slot = RF_EMPTY
        /\ [NoFile EXCEPT !.slot = RF_NEED_TO_EMPTY].slot = RF_NEED_TO_EMPTY
    BY DEF NoFile
  <2>4. PICK k \in Slot : Log(k)
    BY <2>1, <2>2, <2>3, InitReadsBlank, InitReadsSpoilt DEF FlashInv
  <2>5. /\ [FileAt(k) EXCEPT !.slot = RF_NEED_TO_EMPTY].slot = RF_NEED_TO_EMPTY
        /\ FileAt(k).slot = k
    BY DEF FileAt
  <2>6. offsets[k] <= Blocks /\ RegionFileInit = FileAt(k)
    BY <2>1, <2>2, <2>4, <2>5, InitReadsLog
  <2> QED
    BY <2>1, <2>4, <2>5, <2>6 DEF Begun
<1> QED
  BY <1>1, <1>2

LEMMA WholeStarts ==
    ASSUME FlashTypeOK, NEW v \in Value, NEW w \in Value, Whole(v), StartsWith(w)
    PROVE  v = w
<1>1. PICK k \in Slot : Begun(k) /\ StoredAt(k, v)
  BY DEF Whole
<1>2. PICK j \in Slot : Begun(j) /\ data[offsets[j - 1]] = <<w, 0>>
  BY DEF StartsWith
<1>3. j = k
  BY <1>1, <1>2, OneLatest DEF Begun
<1>4. offsets[k - 1] + 0 = offsets[k - 1]
  BY <1>1, LogOffsets DEF Begun
<1>5. 0 \in 0..Size[v] - 1
  BY Sizes
<1>6. data[offsets[k - 1]] = <<v, 0>>
  BY <1>1, <1>4, <1>5 DEF StoredAt
<1> QED
  BY <1>2, <1>3, <1>6

LEMMA SameLatest ==
    ASSUME UNCHANGED flash
    PROVE  \A v : (StartsWith(v)' <=> StartsWith(v)) /\ (Whole(v)' <=> Whole(v))
<1>1. offsets' = offsets /\ data' = data
  BY DEF flash
<1>2. \A k \in Slot : Begun(k)' <=> Begun(k)
  BY <1>1 DEF Begun, Log
<1>3. \A v : \A k \in Slot : StoredAt(k, v)' <=> StoredAt(k, v)
  BY <1>1 DEF StoredAt
<1> QED
  BY <1>1, <1>2, <1>3 DEF StartsWith, Whole

(* Whatever is cut off, the latest slot begins with what it began with, or *)
(* with the value that is written.                                         *)
LEMMA StartAfter ==
    ASSUME IInv, SectorBlocks = Blocks, Interrupted, NEW v \in Value, StartsWith(v)'
    PROVE  StartsWith(v) \/ v = value
<1>1. CASE UNCHANGED flash
  BY <1>1, SameLatest
<1>2. PICK k \in Slot : Begun(k)' /\ data'[offsets'[k - 1]] = <<v, 0>>
  BY DEF StartsWith
<1>3. ASSUME Allocating, NEW o \in NextOffset..Unallocated, Program(NextSlot, o),
             UNCHANGED data
      PROVE  FALSE
  <2>1. /\ o \in 1..Unallocated
        /\ o = Unallocated => Blank'
        /\ o # Unallocated /\ o <= Blocks => Log(0)'
        /\ o # Unallocated /\ o > Blocks => Spoilt'
    BY <1>3, Allocated
  <2>2. Blank' \/ Spoilt' \/ Log(0)'
    BY <2>1, Numbers
  <2>3. ~Log(0)'
    <3>1. k > 0 /\ Log(k)'
      BY <1>2 DEF Begun
    <3> QED
      BY <3>1, FirstSlot, NextOneLatest
  <2> QED
    BY <1>2, <2>2, <2>3, NextNoLatest
<1>4. ASSUME Committing, NEW o \in NextOffset..Unallocated, Program(NextSlot, o),
             UNCHANGED data
      PROVE  StartsWith(v)
  <2>1. CASE o = Unallocated
    BY <1>4, <2>1, Committed, SameLatest
  <2>2. CASE o # Unallocated
    <3>1. PICK j \in Slot : j = NextSlot
      BY <1>4, Committed
    <3>2. Log(j)' /\ offsets'[j] = o /\ offsets'[j - 1] = f.end
      BY <1>4, <2>2, <3>1, Committed
    <3>3. j = k
      BY <1>2, <3>2, NextOneLatest DEF Begun
    <3>4. o <= Blocks
      BY <1>2, <3>2, <3>3 DEF Begun
    <3>5. f.slot >= RF_ONLY_METADATA /\ o \in Nat /\ f.end < o
      BY <1>4, Committed, Numbers DEF Committing
    <3>6. f.slot \in Slot /\ Log(f.slot) /\ f.end = offsets[f.slot] /\ f.end \in Nat
      BY <3>5, OpenFile
    <3>7. f.end \in Block
      BY <3>4, <3>5, <3>6, Numbers DEF Block
    <3>8. data'[f.end] = Erased
      BY <1>4, <3>6, <3>7 DEF Log
    <3>9. 0 \in 0..Blocks - 1
      BY Numbers
    <3>10. <<v, 0>> # Erased
      BY <3>9, PieceAssumption
    <3> QED
      BY <1>2, <3>2, <3>3, <3>8, <3>10
  <2> QED
    BY <2>1, <2>2
<1>5. CASE (Allocating \/ Committing)
           /\ (\E o \in NextOffset..Unallocated : Program(NextSlot, o)) /\ UNCHANGED data
  BY <1>3, <1>4, <1>5
<1>6. ASSUME pc = "data", cursor < f.end, NEW p \in {Garbage, Written},
             data' = [data EXCEPT ![cursor] = p], UNCHANGED offsets
      PROVE  StartsWith(v) \/ v = value
  <2>1. /\ f.slot \in Slot /\ f.slot > 0 /\ cursor \in Block /\ value \in Value
        /\ \A j \in Slot : j = f.slot => Log(j)'
        /\ \A c \in Block : data'[c] = IF c = cursor THEN p ELSE data[c]
        /\ Written = <<value, cursor - f.begin>>
    BY <1>6, Wrote
  <2>2. f.slot >= RF_ONLY_METADATA
    BY <2>1, Numbers DEF Errors
  <2>3. /\ Log(f.slot) /\ f.begin = offsets[f.slot - 1] /\ f.begin \in Nat
        /\ f.begin < f.end /\ f.end = offsets[f.slot] /\ f.end <= Blocks /\ f.end \in Nat
    BY <2>1, <2>2, OpenFile
  <2>4. PICK j \in Slot : j = f.slot
    BY <2>1
  <2>5. j = k
    BY <1>2, <2>1, <2>4, NextOneLatest DEF Begun
  <2>6. data'[f.begin] = <<v, 0>> /\ f.begin \in Block
    BY <1>2, <1>6, <2>3, <2>4, <2>5, Numbers DEF Block
  <2>7. CASE cursor = f.begin
    <3>1. p = <<v, 0>>
      BY <2>1, <2>6, <2>7
    <3>2. 0 \in 0..Blocks - 1
      BY Numbers
    <3>3. <<v, 0>> # Garbage
      BY <3>2, PieceAssumption
    <3> QED
      BY <2>1, <3>1, <3>3
  <2>8. CASE cursor # f.begin
    <3>1. data[f.begin] = <<v, 0>>
      BY <2>1, <2>6, <2>8
    <3>2. Begun(f.slot)
      BY <2>1, <2>3 DEF Begun
    <3> QED
      BY <2>1, <2>3, <3>1, <3>2 DEF StartsWith
  <2> QED
    BY <2>7, <2>8
<1>7. CASE pc = "erase" /\ cursor < Sectors /\ Erase(cursor)
  <2>1. Blank'
    BY <1>7, Erased0
  <2> QED
    BY <1>2, <2>1, NextNoLatest
<1> QED
  BY <1>1, <1>5, <1>6, <1>7 DEF Interrupted

(* Every step of an update is one that may be cut off.                     *)
LEMMA StepsAreAccesses ==
    IInv /\ (UpdateStep \/ AccessFails) => Interrupted /\ value \in Value
<1> SUFFICES ASSUME IInv, UpdateStep \/ AccessFails PROVE Interrupted /\ value \in Value
  OBVIOUS
<1>1. value \in Value
  BY DEF UpdateStep, AccessFails, Accessing, Refuse, AllocateMetadata, LogFull,
         CommitAllocation, CommitBlock, UpdateDone, StartErase, EraseSector, EraseDone,
         Allocating, Committing, Updating, IInv, PcInv, TypeOK
<1>2. CASE Refuse \/ LogFull \/ UpdateDone \/ StartErase \/ EraseDone
  BY <1>1, <1>2 DEF Refuse, LogFull, UpdateDone, StartErase, EraseDone, Interrupted, flash
<1>3. CASE AllocateMetadata
  <2>1. Allocating /\ NextSlot = 0 /\ Program(NextSlot, NextOffset) /\ UNCHANGED data
    BY <1>3 DEF AllocateMetadata, Allocating, NextSlot
  <2>2. NextOffset \in NextOffset..Unallocated
    <3>1. value \in Value /\ NextOffset = MetadataBlocks(Size[value])
      BY <2>1 DEF Allocating, Updating, NextOffset, IInv, PcInv, TypeOK
    <3>2. Size[value] \in 1..Blocks - 1
      BY <2>1, <3>1, Sizes, Numbers DEF Allocating, TooLarge
    <3> QED
      BY <3>1, <3>2, Sizes, Numbers, MetadataFits
  <2> QED
    <3>1. \E o \in NextOffset..Unallocated : Program(NextSlot, o)
      BY <2>1, <2>2
    <3> QED
      BY <1>1, <2>1, <3>1 DEF Interrupted
<1>4. CASE CommitAllocation
  <2>1. Committing /\ Program(NextSlot, NextOffset) /\ UNCHANGED data
    BY <1>4 DEF CommitAllocation
  <2>2. /\ f.slot >= RF_ONLY_METADATA /\ update_can_fit(Size[value])
        /\ value \in Value /\ NextOffset = f.end + Size[value]
    BY <2>1, Numbers DEF Committing, Allocating, Updating, NextOffset,
                         IInv, PcInv, TypeOK, Errors
  <2>3. f.end \in Nat /\ Size[value] \in Nat
    BY <2>2, OpenFile, Sizes
  <2>4. NextOffset \in NextOffset..Unallocated
    BY <2>2, <2>3, Numbers DEF update_can_fit
  <2> QED
    <3>1. \E o \in NextOffset..Unallocated : Program(NextSlot, o)
      BY <2>1, <2>4
    <3> QED
      BY <1>1, <2>1, <3>1 DEF Interrupted
<1>5. CASE CommitBlock \/ EraseSector \/ AccessFails
  BY <1>1, <1>5 DEF CommitBlock, EraseSector, AccessFails, Interrupted
<1> QED
  BY <1>1, <1>2, <1>3, <1>4, <1>5 DEF UpdateStep

(* An update that returns success has written its value in full.           *)
LEMMA DoneIsWhole == IInv /\ UpdateDone => Whole(value)
<1> SUFFICES ASSUME IInv, UpdateDone PROVE Whole(value)
  OBVIOUS
<1>1. /\ pc = "data" /\ cursor = f.end /\ UNCHANGED flash /\ value' = NoValue
      /\ result' = "ok" /\ value \in Value /\ value # NoValue
  BY DEF UpdateDone, Return, IInv, PcInv, TypeOK
<1>2. /\ f.slot > RF_ONLY_METADATA /\ f.end = f.begin + Size[value]
      /\ \A b \in f.begin..cursor - 1 : data[b] = <<value, b - f.begin>>
  BY <1>1 DEF IInv, PcInv
<1>3. f.slot > 0 /\ f.slot >= RF_ONLY_METADATA
  BY <1>2, Numbers DEF Errors, IInv, TypeOK, FileState
<1>4. /\ f.slot \in Slot /\ Log(f.slot) /\ f.end = offsets[f.slot] /\ f.end <= Blocks
      /\ f.begin = offsets[f.slot - 1] /\ f.begin \in Nat /\ f.end \in Nat
  BY <1>3, OpenFile
<1>5. Size[value] \in Nat
  BY <1>1, Sizes
<1>6. StoredAt(f.slot, value)
  <2>1. offsets[f.slot] - offsets[f.slot - 1] = Size[value]
    BY <1>2, <1>4, <1>5
  <2>2. ASSUME NEW i \in 0..Size[value] - 1 PROVE data[f.begin + i] = <<value, i>>
    <3>1. f.begin + i \in f.begin..cursor - 1 /\ f.begin + i - f.begin = i
      BY <1>1, <1>2, <1>4, <1>5
    <3>2. PICK b \in f.begin..cursor - 1 : b = f.begin + i
      BY <3>1
    <3>3. data[b] = <<value, b - f.begin>>
      BY <1>2
    <3>4. b - f.begin = i
      BY <1>4, <1>5, <3>2
    <3>5. data[b] = <<value, i>>
      BY <3>3, <3>4
    <3> QED
      BY <3>2, <3>5
  <2> QED
    BY <1>4, <2>1, <2>2 DEF StoredAt
<1> QED
  BY <1>3, <1>4, <1>6 DEF Begun, Whole

-----------------------------------------------------------------------------
(* A region file of one erase sector is a stored item.                     *)
LEMMA ItemInit == Init => Item!Init
<1> SUFFICES ASSUME Init PROVE Item!Init
  OBVIOUS
<1>1. Blank /\ FlashTypeOK
  BY Numbers DEF Init, Blank, FlashTypeOK, Offset
<1> QED
  BY <1>1, ReadsNothing DEF Init, Item!Init

LEMMA ItemStep ==
    SectorBlocks = Blocks /\ IInv /\ [Next]_vars => [Item!Next]_(Item!vars)
<1> SUFFICES ASSUME SectorBlocks = Blocks, IInv, [Next]_vars
             PROVE  [Item!Next]_(Item!vars)
  OBVIOUS
<1>0. FlashTypeOK /\ FlashInv
  BY DEF IInv, TypeOK, FlashTypeOK
<1>1. ASSUME UNCHANGED flash, UNCHANGED <<value, result>> PROVE [Item!Next]_(Item!vars)
  BY <1>0, <1>1, SameContent DEF Item!vars
<1>2. ASSUME Interrupted, value # NoValue, UNCHANGED <<value, result>>
      PROVE  Item!Work
  BY <1>2, ContentAfter DEF Item!Work, Item!Advance
<1>3. ASSUME Interrupted, value # NoValue, value' = NoValue, result' = "failed"
      PROVE  Item!Cut
  BY <1>3, ContentAfter DEF Item!Cut, Item!Advance
<1>4. CASE Open \/ OpenFails \/ Close \/ UNCHANGED vars
  BY <1>1, <1>4 DEF Open, OpenFails, Close, vars, flash
<1>5. ASSUME NEW v \in Value, UpdateStart(v) PROVE Item!Begin(v)
  <2>1. value = NoValue /\ UNCHANGED flash /\ value' = v /\ result' = result
    BY <1>5 DEF UpdateStart, IInv, PcInv
  <2> QED
    BY <1>0, <2>1, SameContent DEF Item!Begin
<1>6. CASE Refuse
  <2>1. Interrupted /\ value # NoValue /\ value' = NoValue /\ result' = "failed"
    BY <1>6 DEF Refuse, Updating, Return, Interrupted, IInv, PcInv
  <2> QED
    BY <1>3, <2>1 DEF Item!Next
<1>7. CASE UpdateStep /\ ~Refuse /\ ~UpdateDone
  <2>1. Interrupted /\ value # NoValue
    BY <1>7, StepsAreAccesses, NullAssumption
  <2>2. UNCHANGED <<value, result>>
    BY <1>7 DEF UpdateStep, LogFull, StartErase, EraseDone, AllocateMetadata,
                CommitAllocation, CommitBlock, EraseSector
  <2> QED
    BY <1>2, <2>1, <2>2 DEF Item!Next
<1>8. CASE UpdateDone
  <2>1. UNCHANGED flash /\ value' = NoValue /\ result' = "ok" /\ value \in Value
    BY <1>8, StepsAreAccesses DEF UpdateDone, Return, UpdateStep
  <2>2. Content = value
    BY <1>0, <1>8, <2>1, DoneIsWhole, ReadsWhole DEF Whole
  <2> QED
    BY <1>0, <2>1, <2>2, SameContent, NullAssumption DEF Item!Next, Item!Done
<1>9. CASE AccessFails
  <2>1. Interrupted /\ value # NoValue /\ value' = NoValue /\ result' = "failed"
    BY <1>9 DEF AccessFails, Accessing, Allocating, Committing, Updating, Return,
                 IInv, PcInv
  <2> QED
    BY <1>3, <2>1 DEF Item!Next
<1>10. CASE PowerCut
  <2>1. CASE value = NoValue
    <3>1. pc = "open" /\ Interrupted
      BY <1>10, <2>1 DEF PowerCut, IInv, PcInv
    <3>2. UNCHANGED flash
      BY <3>1 DEF Interrupted, Allocating, Committing, Updating
    <3> QED
      BY <1>1, <1>10, <2>1, <3>2 DEF PowerCut
  <2>2. CASE value # NoValue
    BY <1>3, <1>10, <2>2 DEF PowerCut, Item!Next
  <2> QED
    BY <2>1, <2>2
<1> QED
  BY <1>4, <1>5, <1>6, <1>7, <1>8, <1>9, <1>10 DEF Next, Item!Next

(* An update that is reported as done is what any later restart reads,     *)
(* until the next one starts; one that is cut off leaves the old value,    *)
(* the new one, nothing or damage, never a value older than the last.      *)
THEOREM StoresItem == SectorBlocks = Blocks => (Spec => ImplementsStoredItem)
<1> SUFFICES ASSUME SectorBlocks = Blocks PROVE Spec => ImplementsStoredItem
  OBVIOUS
<1>1. Spec => []IInv
  BY Invariant
<1>2. IInv /\ [Next]_vars => [Item!Next]_(Item!vars)
  BY ItemStep
<1> QED
  BY <1>1, <1>2, ItemInit, PTL DEF Spec, ImplementsStoredItem, Item!Spec

-----------------------------------------------------------------------------
(* Of types nothing depends on the erase sectors: whatever an erase that   *)
(* was cut off left in the flash, the search stays within the metadata.    *)
LEMMA SearchInRange ==
    ASSUME NEW n \in Nat \ {0}
    PROVE  FindLatestBlock(n) \in 0..n - 1
<1> DEFINE s == CHOOSE s : s = Search(s, n)
<1>1. s = Search(s, n)
  BY SearchDefined
<1>2. FindLatestBlock(n) = s[<<0, n>>]
  BY DEF FindLatestBlock, Search
<1> DEFINE D == {d \in Nat : \A l \in 0..n - 1, r \in 0..n :
                     r <= l + d => s[<<l, r>>] \in 0..n - 1}
<1> HIDE DEF s
<1>3. 0 \in D
  BY <1>1 DEF Search
<1>4. ASSUME NEW d \in Nat, d \in D PROVE d + 1 \in D
  <2>1. ASSUME NEW l \in 0..n - 1, NEW r \in 0..n, r <= l + d + 1
        PROVE  s[<<l, r>>] \in 0..n - 1
    <3> DEFINE mid == (l + r) \div 2
    <3>1. CASE l + 1 >= r
      BY <1>1, <3>1 DEF Search
    <3>2. CASE l + 1 < r
      <4>1. mid \in l + 1..r - 1
        BY <3>2, Middle
      <4>2. s[<<l, r>>] = IF all_block_offsets_unallocated(mid) THEN s[<<l, mid>>] ELSE s[<<mid, r>>]
        BY <1>1, <3>2, SearchStep
      <4> HIDE DEF mid
      <4>3. mid \in 0..n - 1 /\ mid <= l + d /\ r <= mid + d
        BY <2>1, <4>1
      <4>4. s[<<l, mid>>] \in 0..n - 1 /\ s[<<mid, r>>] \in 0..n - 1
        BY <1>4, <4>3
      <4> QED
        BY <4>2, <4>4
    <3> QED
      BY <3>1, <3>2
  <2> QED
    BY <2>1
<1>5. n \in D
  <2> HIDE DEF D
  <2> QED
    BY <1>3, <1>4, Induct
<1> QED
  BY <1>2, <1>5

LEMMA SlotInRange ==
    ASSUME NEW b \in Nat
    PROVE  FindLatestSlot(b) \in b * PerBlock..b * PerBlock + PerBlock - 1
<1> DEFINE rest == b * PerBlock + 1..b * PerBlock + PerBlock - 1
           used == {s \in rest : OffsetAt(s) # Unallocated}
           greatest == CHOOSE s \in used : \A u \in used : u <= s
<1>1. PerBlock \in Nat \ {0} /\ b * PerBlock \in Nat
  BY Numbers
<1>2. ASSUME used # {} PROVE greatest \in rest
  <2> DEFINE N == b * PerBlock + PerBlock
             below == {N - s : s \in used}
  <2>1. N \in Nat /\ \A s \in used : s \in Nat /\ s <= N
    BY <1>1
  <2> HIDE DEF used, N
  <2>2. below \subseteq Nat /\ below # {}
    BY <1>2, <2>1
  <2>3. PICK m \in below : \A k \in below : m <= k
    BY <2>2, Least
  <2>4. PICK s \in used : m = N - s
    BY <2>3
  <2>5. ASSUME NEW u \in used PROVE u <= s
    <3>1. N - u \in below
      OBVIOUS
    <3>2. N - s <= N - u
      BY <2>3, <2>4, <3>1
    <3> QED
      BY <2>1, <3>2
  <2>6. greatest \in used
    BY <2>4, <2>5
  <2> QED
    BY <2>6 DEF used
<1>3. FindLatestSlot(b) = IF used = {} THEN b * PerBlock ELSE greatest
  BY DEF FindLatestSlot
<1>4. b * PerBlock \in b * PerBlock..b * PerBlock + PerBlock - 1
  BY <1>1
<1>5. rest \subseteq b * PerBlock..b * PerBlock + PerBlock - 1
  BY <1>1
<1> HIDE DEF rest, used, greatest
<1> QED
  BY <1>2, <1>3, <1>4, <1>5

LEMMA InitTypes ==
    ASSUME FlashTypeOK
    PROVE  /\ RegionFileInit \in FileState
           /\ RegionFileInit.slot >= RF_ONLY_METADATA =>
                /\ RegionFileInit.slot < RegionFileInit.meta * PerBlock
                /\ RegionFileInit.begin <= RegionFileInit.end /\ RegionFileInit.end <= Blocks
                /\ RegionFileInit.meta <= Blocks
<1> DEFINE meta == OffsetAt(0)
           b == FindLatestBlock(meta)
           slot == FindLatestSlot(b)
<1>1. \A s \in Slot : OffsetAt(s) \in Offset
  BY Numbers DEF FlashTypeOK, OffsetAt, Offset
<1>2. meta \in Offset
  BY <1>1, FirstSlot
<1>3. CASE meta = Unallocated
  <2>1. RegionFileInit = [NoFile EXCEPT !.slot = RF_EMPTY]
    BY <1>3 DEF RegionFileInit
  <2> QED
    BY <2>1, Numbers DEF NoFile, FileState, Offset, Errors
<1>4. CASE meta # Unallocated /\ (meta = 0 \/ meta > Blocks)
  <2>1. RegionFileInit = [NoFile EXCEPT !.slot = RF_NEED_TO_EMPTY]
    BY <1>4 DEF RegionFileInit
  <2> QED
    BY <2>1, Numbers DEF NoFile, FileState, Offset, Errors
<1>5. CASE meta # Unallocated /\ meta \in 1..Blocks
  <2>1. b \in 0..meta - 1
    BY <1>5, SearchInRange
  <2> HIDE DEF meta, b
  <2>2. slot \in b * PerBlock..b * PerBlock + PerBlock - 1
    BY <1>5, <2>1, SlotInRange
  <2> HIDE DEF slot
  <2>3. b * PerBlock \in Nat /\ meta * PerBlock \in Nat /\ b \in Nat /\ meta \in Nat
    BY <1>5, <2>1, Numbers
  <2>4. b * PerBlock + PerBlock <= meta * PerBlock
    BY <2>1, <2>3, BlockIsMonotone
  <2>5. slot \in Nat /\ slot < meta * PerBlock
    BY <2>2, <2>3, <2>4, Numbers
  <2>6. slot \in Slot
    BY <1>5, <2>5, MetadataSlots
  <2>7. slot \in RF_FATAL..Blocks * PerBlock
    BY <2>6, Numbers DEF Slot, Errors
  <2>8. CASE slot = 0
    <3>1. RegionFileInit = [slot |-> slot, meta |-> meta, begin |-> meta, end |-> meta]
      BY <1>5, <2>8, Numbers DEF RegionFileInit, Errors, meta, b, slot
    <3> QED
      BY <1>2, <1>5, <2>3, <2>5, <2>7, <3>1 DEF FileState
  <2>9. CASE slot # 0
    <3> DEFINE begin == OffsetAt(slot - 1)
               end == OffsetAt(slot)
               wrong == BoundariesWrong(begin, end)
    <3>1. begin \in Offset /\ end \in Offset
      BY <1>1, <2>5, <2>6, <2>9, EarlierSlot
    <3>2. RegionFileInit = [slot |-> IF wrong THEN RF_NEED_TO_EMPTY ELSE slot,
                            meta |-> meta, begin |-> begin, end |-> end]
      BY <1>5, <2>5, <2>9, Numbers DEF RegionFileInit, Errors, meta, b, slot
    <3>3. ~wrong => begin <= end /\ end <= Blocks
      BY <3>1, Numbers DEF BoundariesWrong, Offset
    <3> HIDE DEF wrong, begin, end
    <3>4. CASE wrong
      <4>1. RF_NEED_TO_EMPTY \in RF_FATAL..Blocks * PerBlock /\ ~(RF_NEED_TO_EMPTY >= RF_ONLY_METADATA)
        BY Numbers DEF Errors
      <4> QED
        BY <1>2, <3>1, <3>2, <3>4, <4>1 DEF FileState
    <3>5. CASE ~wrong
      BY <1>2, <1>5, <2>5, <2>7, <3>1, <3>2, <3>3, <3>5 DEF FileState
    <3> QED
      BY <3>4, <3>5
  <2> QED
    BY <2>8, <2>9
<1> QED
  BY <1>2, <1>3, <1>4, <1>5, Numbers DEF Offset

(* Types, and that an update writes within the file that it appended to.   *)
TypeInv ==
    /\ TypeOK
    /\ f.slot >= RF_ONLY_METADATA => f.meta <= Blocks
    /\ pc \notin {"closed", "open"} => value \in Value
    /\ pc = "data" => /\ f.slot >= RF_ONLY_METADATA
                      /\ cursor >= f.begin /\ cursor <= f.end

LEMMA TypeInvInit == Init => TypeInv
BY InitInvariant, FileStates, Numbers DEF IInv, Init, TypeInv, Errors

LEMMA TypesInterrupted ==
    ASSUME TypeInv, Interrupted
    PROVE  /\ offsets' \in [Slot -> Offset]
           /\ data' \in [Block -> {Erased, Garbage} \cup (Value \X (0..Blocks - 1))]
<1> DEFINE D == {Erased, Garbage} \cup (Value \X (0..Blocks - 1))
<1>1. offsets \in [Slot -> Offset] /\ data \in [Block -> D]
  BY DEF TypeInv, TypeOK
<1>2. Erased \in D /\ Garbage \in D /\ 0 \in Offset /\ Unallocated \in Offset
  BY Numbers DEF Offset
<1>3. CASE UNCHANGED flash
  BY <1>1, <1>3 DEF flash
<1>4. ASSUME NEW s, NEW o \in Offset, Program(s, o) PROVE offsets' \in [Slot -> Offset]
  BY <1>1, <1>2, <1>4 DEF Program
<1>5. CASE /\ Allocating \/ Committing
           /\ \E o \in NextOffset..Unallocated : Program(NextSlot, o)
           /\ UNCHANGED data
  <2>1. value \in Value /\ f \in FileState
    BY <1>5 DEF Allocating, Committing, Updating, TypeInv, TypeOK
  <2>2. NextOffset \in Nat
    <3>1. CASE Allocating
      <4>1. Size[value] \in 1..Blocks - 1
        BY <2>1, <3>1, Sizes, Numbers DEF Allocating, TooLarge
      <4> QED
        BY <2>1, <3>1, <4>1, Sizes, MetadataFits, Numbers DEF NextOffset
    <3>2. CASE ~Allocating
      <4>1. f.end \in Nat
        BY <2>1, Numbers DEF FileState, Offset
      <4> QED
        BY <2>1, <3>2, <4>1, Sizes DEF NextOffset
    <3> QED
      BY <3>1, <3>2
  <2>3. NextOffset..Unallocated \subseteq Offset
    BY <2>2, Numbers DEF Offset
  <2> QED
    BY <1>1, <1>4, <1>5, <2>3
<1>6. CASE /\ pc = "data" /\ cursor < f.end
           /\ \E p \in {Garbage, Written} : data' = [data EXCEPT ![cursor] = p]
           /\ UNCHANGED offsets
  <2>1. value \in Value /\ f \in FileState /\ cursor >= f.begin /\ f.end <= Blocks
    BY <1>6 DEF TypeInv, TypeOK
  <2>2. f.begin \in Nat /\ f.end \in Nat /\ cursor \in Nat
    BY <2>1, Numbers DEF FileState, Offset, TypeInv, TypeOK
  <2>3. cursor - f.begin \in 0..Blocks - 1
    BY <1>6, <2>1, <2>2, Numbers
  <2>4. Written \in D
    BY <2>1, <2>3 DEF Written
  <2> QED
    BY <1>1, <1>2, <1>6, <2>4
<1>7. CASE pc = "erase" /\ cursor < Sectors /\ Erase(cursor)
  <2> HIDE DEF D
  <2>1. offsets' \in [Slot -> Offset]
    BY <1>1, <1>2, <1>7 DEF Erase
  <2>2. data' \in [Block -> D]
    BY <1>1, <1>2, <1>7 DEF Erase
  <2> QED
    BY <2>1, <2>2 DEF D
<1> QED
  BY <1>3, <1>5, <1>6, <1>7 DEF Interrupted

LEMMA TypeStep == TypeInv /\ [Next]_vars => TypeInv'
<1> SUFFICES ASSUME TypeInv, [Next]_vars PROVE TypeInv'
  OBVIOUS
<1> DEFINE D == {Erased, Garbage} \cup (Value \X (0..Blocks - 1))
           FileOK(g) == /\ g \in FileState
                        /\ g.slot >= RF_ONLY_METADATA =>
                             /\ g.slot < g.meta * PerBlock /\ g.begin <= g.end
                             /\ g.end <= Blocks /\ g.meta <= Blocks
<1>0. /\ offsets \in [Slot -> Offset] /\ data \in [Block -> D] /\ FileOK(f)
      /\ value \in Value \cup {NoValue} /\ cursor \in 0..Blocks
      /\ result \in {"none", "ok", "failed"}
      /\ pc \in {"closed", "open", "update", "erase", "data"}
  BY DEF TypeInv, TypeOK
<1>a. ASSUME Interrupted, FileOK(f'), cursor' \in 0..Blocks,
             value' \in Value \cup {NoValue}, result' \in {"none", "ok", "failed"},
             \/ pc' \in {"closed", "open"}
             \/ /\ pc' \in {"update", "erase"} /\ value' \in Value
             \/ /\ pc' = "data" /\ value' \in Value /\ f'.slot >= RF_ONLY_METADATA
                /\ cursor' >= f'.begin /\ cursor' <= f'.end
      PROVE  TypeInv'
  <2>1. TypeOK' /\ (f'.slot >= RF_ONLY_METADATA => f'.meta <= Blocks)
    BY <1>a, TypesInterrupted DEF TypeOK
  <2> QED
    BY <1>a, <2>1 DEF TypeInv
<1>b. ASSUME NEW g \in FileState, NEW e \in {RF_EMPTY, RF_NEED_TO_EMPTY, RF_FATAL}
      PROVE  FileOK([g EXCEPT !.slot = e])
  <2>1. [g EXCEPT !.slot = e] \in FileState /\ [g EXCEPT !.slot = e].slot = e
    BY FileStates
  <2> QED
    BY <2>1, Numbers DEF Errors
<1>c. FileOK(NoFile)
  BY FileStates, Numbers DEF Errors
<1>d. UNCHANGED flash => Interrupted
  BY DEF Interrupted
<1>e. pc \notin {"closed", "open"} => value \in Value
  BY DEF TypeInv
<1> HIDE DEF FileOK
<1>1. CASE UNCHANGED vars
  <2>1. /\ UNCHANGED flash /\ f' = f /\ pc' = pc /\ value' = value /\ cursor' = cursor
        /\ result' = result
    BY <1>1 DEF vars, flash
  <2>2. pc = "data" => f.slot >= RF_ONLY_METADATA /\ cursor >= f.begin /\ cursor <= f.end
    BY DEF TypeInv
  <2> QED
    BY <1>0, <1>a, <1>d, <1>e, <2>1, <2>2
<1>2. CASE Open
  <2>1. FileOK(RegionFileInit)
    BY <1>0, InitTypes DEF FlashTypeOK, FileOK
  <2> QED
    BY <1>0, <1>2, <1>a, <1>d, <2>1 DEF Open
<1>3. CASE OpenFails \/ Close
  BY <1>0, <1>3, <1>a, <1>c, <1>d DEF OpenFails, Close
<1>5. CASE \E v \in Value : UpdateStart(v)
  BY <1>0, <1>5, <1>a, <1>d DEF UpdateStart
<1>6. CASE Refuse
  <2>1. FileOK(f') /\ UNCHANGED flash
    BY <1>0, <1>6, <1>b DEF Refuse, FileOK
  <2> QED
    BY <1>6, <1>a, <1>d, <2>1, Numbers DEF Refuse, Return
<1>7. CASE AllocateMetadata
  <2>1. /\ Allocating /\ NextSlot = 0 /\ Program(NextSlot, NextOffset) /\ UNCHANGED data
        /\ f' = [slot |-> RF_ONLY_METADATA, meta |-> NextOffset,
                 begin |-> NextOffset, end |-> NextOffset]
        /\ pc = "update" /\ UNCHANGED <<pc, value, cursor, result>>
    BY <1>7 DEF AllocateMetadata, Allocating, NextSlot, Updating
  <2>2. NextOffset \in 1..Blocks /\ NextOffset < Unallocated
    <3>1. value \in Value /\ NextOffset = MetadataBlocks(Size[value])
      BY <1>e, <2>1 DEF Allocating, NextOffset
    <3>2. Size[value] \in 1..Blocks - 1
      BY <2>1, <3>1, Sizes, Numbers DEF Allocating, TooLarge
    <3> QED
      BY <3>1, <3>2, Sizes, MetadataFits
  <2>3. Interrupted
    <3>1. NextOffset \in NextOffset..Unallocated
      BY <2>2, Numbers
    <3> QED
      BY <2>1, <3>1 DEF Interrupted
  <2>4. FileOK(f')
    <3>1. 0 < NextOffset * PerBlock /\ NextOffset \in Offset
      BY <2>2, Numbers DEF Offset
    <3>2. f' \in FileState
      BY <2>1, <3>1, Numbers DEF FileState, Errors
    <3> QED
      BY <2>1, <2>2, <3>1, <3>2, Numbers DEF FileOK, Errors
  <2> QED
    BY <1>0, <1>a, <1>e, <2>1, <2>3, <2>4
<1>8. CASE LogFull
  <2>1. FileOK(f') /\ UNCHANGED flash
    BY <1>0, <1>8, <1>b DEF LogFull, FileOK
  <2> QED
    BY <1>0, <1>8, <1>a, <1>d, <1>e, <2>1 DEF LogFull, Updating
<1>9. CASE CommitAllocation
  <2>1. /\ Committing /\ Program(NextSlot, NextOffset) /\ UNCHANGED data
        /\ f' = [f EXCEPT !.slot = NextSlot, !.begin = f.end, !.end = NextOffset]
        /\ pc' = "data" /\ cursor' = f.end /\ UNCHANGED <<value, result>>
        /\ value \in Value
    BY <1>9, <1>e DEF CommitAllocation, Committing, Updating
  <2>2. /\ f.slot >= RF_ONLY_METADATA /\ update_can_fit(Size[value])
        /\ NextSlot = f.slot + 1 /\ NextOffset = f.end + Size[value]
    BY <2>1, Numbers DEF Committing, Allocating, NextSlot, NextOffset, Errors
  <2>3. /\ f \in FileState /\ f.slot \in Nat /\ f.end \in Nat /\ f.end \in Offset
        /\ f.meta \in Offset /\ f.end <= Blocks
        /\ f.slot <= Blocks * PerBlock
    BY <1>0, <2>2, Numbers DEF FileOK, FileState, Offset, Errors
  <2>4. Size[value] \in Nat \ {0}
    BY <2>1, Sizes
  <2>5. /\ NextOffset \in Nat /\ NextOffset > f.end /\ NextOffset <= Blocks
        /\ NextOffset < Unallocated /\ NextOffset \in Offset
        /\ NextOffset \in NextOffset..Unallocated
    BY <2>2, <2>3, <2>4, Numbers DEF update_can_fit, Offset
  <2>6. Interrupted
    BY <2>1, <2>5 DEF Interrupted
  <2>7. f' = [slot |-> NextSlot, meta |-> f.meta, begin |-> f.end, end |-> NextOffset]
    BY <2>1, <2>3 DEF FileState
  <2>8. FileOK(f')
    <3>1. NextSlot \in Nat /\ NextSlot < f.meta * PerBlock
      BY <2>2, <2>3 DEF update_can_fit
    <3>2. NextSlot \in RF_FATAL..Blocks * PerBlock
      <4>1. f.meta \in Nat /\ f.meta <= Blocks
        BY <1>0, <2>2, <2>3, Numbers DEF FileOK, Offset
      <4>2. f.meta * PerBlock <= Blocks * PerBlock /\ f.meta * PerBlock \in Nat
        BY <4>1, Numbers
      <4>3. NextSlot <= Blocks * PerBlock
        BY <3>1, <4>2, Numbers
      <4> QED
        BY <3>1, <4>3, Numbers DEF Errors
    <3>3. f' \in FileState
      BY <2>3, <2>5, <2>7, <3>2 DEF FileState
    <3>4. f.meta <= Blocks
      BY <1>0, <2>2 DEF FileOK
    <3>5. f.end <= NextOffset
      BY <2>3, <2>5
    <3> QED
      BY <2>5, <2>7, <3>1, <3>3, <3>4, <3>5 DEF FileOK
  <2>9. f'.slot >= RF_ONLY_METADATA /\ cursor' >= f'.begin /\ cursor' <= f'.end
    BY <2>1, <2>2, <2>3, <2>5, <2>7, Numbers DEF Errors
  <2>10. cursor' \in 0..Blocks
    BY <2>1, <2>3, Numbers
  <2> QED
    BY <1>0, <1>a, <2>1, <2>6, <2>8, <2>9, <2>10
<1>10. CASE CommitBlock
  <2>1. /\ pc = "data" /\ cursor < f.end /\ data' = [data EXCEPT ![cursor] = Written]
        /\ cursor' = cursor + 1 /\ UNCHANGED <<offsets, f, pc, value, result>>
        /\ f.slot >= RF_ONLY_METADATA /\ cursor >= f.begin /\ value \in Value
    BY <1>10 DEF CommitBlock, TypeInv
  <2>2. f.begin \in Nat /\ f.end \in Nat /\ f.end <= Blocks
    BY <1>0, <2>1, Numbers DEF FileOK, FileState, Offset
  <2>3. cursor' \in 0..Blocks /\ cursor' >= f.begin /\ cursor' <= f.end
    BY <1>0, <2>1, <2>2, Numbers
  <2>4. Interrupted
    BY <2>1 DEF Interrupted
  <2> QED
    BY <1>0, <1>a, <2>1, <2>3, <2>4
<1>11. CASE UpdateDone
  <2>1. UNCHANGED flash /\ UNCHANGED f
    BY <1>11 DEF UpdateDone
  <2> QED
    BY <1>0, <1>11, <1>a, <1>d, <2>1, Numbers DEF UpdateDone, Return
<1>12. CASE StartErase
  BY <1>0, <1>12, <1>a, <1>d, <1>e, Numbers DEF StartErase, Updating
<1>13. CASE EraseSector
  <2>1. /\ pc = "erase" /\ cursor < Sectors /\ Erase(cursor) /\ cursor' = cursor + 1
        /\ UNCHANGED <<f, pc, value, result>>
    BY <1>13 DEF EraseSector
  <2>2. Interrupted
    BY <2>1 DEF Interrupted
  <2>3. Sectors \in Nat /\ Sectors <= Blocks
    <3>1. SectorBlocks \in Nat \ {0}
      BY GeometryAssumption
    <3>2. Blocks \div SectorBlocks \in Nat /\ (Blocks \div SectorBlocks) * SectorBlocks <= Blocks
      BY <3>1, Numbers
    <3>3. Blocks \div SectorBlocks <= (Blocks \div SectorBlocks) * SectorBlocks
      BY <3>1, <3>2
    <3> QED
      BY <3>1, <3>2, <3>3, Numbers DEF Sectors
  <2>4. cursor' \in 0..Blocks
    BY <1>0, <2>1, <2>3, Numbers
  <2> QED
    BY <1>0, <1>a, <1>e, <2>1, <2>2, <2>4
<1>14. CASE EraseDone
  <2>1. FileOK(f') /\ UNCHANGED flash
    BY <1>0, <1>14, <1>b DEF EraseDone, FileOK
  <2> QED
    BY <1>0, <1>14, <1>a, <1>d, <1>e, <2>1, Numbers DEF EraseDone
<1>15. CASE AccessFails
  <2>1. FileOK(f')
    BY <1>0, <1>15, <1>b DEF AccessFails, FileOK
  <2> QED
    BY <1>15, <1>a, <2>1, Numbers DEF AccessFails, Return
<1>16. CASE PowerCut
  BY <1>0, <1>16, <1>a, <1>c, Numbers DEF PowerCut
<1> QED
  BY <1>1, <1>2, <1>3, <1>5, <1>6, <1>7, <1>8, <1>9, <1>10, <1>11, <1>12, <1>13, <1>14,
     <1>15, <1>16 DEF Next, UpdateStep

(* TypeOK, for every geometry of the flash: an open file that is not in    *)
(* error keeps its slot within the metadata and its data within the region. *)
THEOREM TypeCorrect == Spec => []TypeOK
<1>1. TypeInv => TypeOK
  BY DEF TypeInv
<1> QED
  BY <1>1, TypeInvInit, TypeStep, PTL DEF Spec

=============================================================================
