----------------------------- MODULE MtrrProofs -----------------------------
(***************************************************************************)
(* Proofs about the memory types that the processors are given, from the   *)
(* list of ranges of src/src/lib/memrange.c to the registers.              *)
(*                                                                         *)
(* Memranges: what each operation does to the list and to the addresses it *)
(* covers, for every alignment, every supply of entries and every set of   *)
(* tags.                                                                   *)
(*                                                                         *)
(* Mtrr, src/src/cpu/x86/mtrr/mtrr.c: every page has the type that was     *)
(* asked for, for the memory maps of FlashAssumption and WidthAssumption   *)
(* and all temporary ranges, numbers of registers and of processors. From  *)
(* the bottom up: a list of ranges holds the type of the last one inserted *)
(* over each page; blocks of powers of two fill an interval; an aligned-up *)
(* end covers no other entry, and what it adds is carved out; so the       *)
(* registers give each entry its type, and the default to the rest; the    *)
(* steps keep which solution is in which processor.                        *)
(***************************************************************************)
EXTENDS Mtrr, WellFoundedInduction, FiniteSetTheorems, SequenceTheorems, TLAPS
-----------------------------------------------------------------------------
(* A set of natural numbers that is not empty has a least element.         *)
LEMMA Least ==
    ASSUME NEW S, S \subseteq Nat, S # {}
    PROVE  \E m \in S : \A k \in S : m <= k
<1> DEFINE R == OpToRel(<, Nat)
<1>1. IsWellFoundedOn(R, Nat)
  BY NatLessThanWellFounded
<1>2. \A k, m \in Nat : k < m => <<k, m>> \in R
  BY DEF OpToRel
<1> HIDE DEF R
<1>3. PICK m \in S : \A k \in S : <<k, m>> \notin R
  BY <1>1, WFMin
<1>4. ASSUME NEW k \in S PROVE m <= k
  <2>1. m \in Nat /\ k \in Nat
    OBVIOUS
  <2>2. ~(k < m)
    BY <1>2, <1>3, <2>1
  <2> QED
    BY <2>1, <2>2
<1> QED
  BY <1>4

(* Induction, for a set instead of a predicate.                            *)
LEMMA Induct ==
    ASSUME NEW S, 0 \in S, \A n \in Nat : n \in S => n + 1 \in S
    PROVE  Nat \subseteq S
<1> SUFFICES ASSUME Nat \ S # {} PROVE FALSE
  OBVIOUS
<1>1. PICK m \in Nat \ S : \A k \in Nat \ S : m <= k
  BY Least
<1>2. m # 0 /\ m - 1 \in Nat /\ m - 1 \notin Nat \ S
  BY <1>1
<1> QED
  BY <1>1, <1>2

-----------------------------------------------------------------------------
(* Alignment.                                                              *)
LEMMA Multiple ==
    ASSUME NEW n \in Nat \ {0}, NEW q \in Int
    PROVE  (n * q) % n = 0
<1>d. PICK d \in Int : d = (n * q) \div n
  OBVIOUS
<1>m. PICK m \in Int : m = (n * q) % n
  OBVIOUS
<1>1. n * q = n * d + m /\ 0 <= m /\ m < n
  BY <1>d, <1>m
<1>2. n * (q - d) = m
  BY <1>1
<1>3. CASE q - d >= 1
  <2>1. n * (q - d) >= n
    BY <1>3
  <2> QED
    BY <1>1, <1>2, <2>1
<1>4. CASE q - d <= -1
  <2>1. n * (q - d) <= -n
    BY <1>4
  <2> QED
    BY <1>1, <1>2, <2>1
<1>5. CASE q = d
  BY <1>2, <1>5, <1>m
<1> QED
  BY <1>3, <1>4, <1>5

LEMMA Quotient ==
    ASSUME NEW n \in Nat \ {0}, NEW y \in Nat, y % n = 0
    PROVE  \E p \in Nat : y = n * p
<1>p. PICK p \in Nat : p = y \div n
  OBVIOUS
<1>m. PICK m : m = y % n
  OBVIOUS
<1>1. y = (n * p) + m
  BY <1>p, <1>m
<1>2. m = 0
  BY <1>m, Zenon
<1> QED
  BY <1>1, <1>2

(* AlignDown() gives the highest multiple that is not above, AlignUp() the *)
(* lowest that is not below.                                               *)
LEMMA Down ==
    ASSUME NEW n \in Nat \ {0}, NEW a \in Nat, NEW x, x = AlignDown(a, n)
    PROVE  /\ x \in Nat /\ x % n = 0 /\ x <= a /\ a < x + n
           /\ \A y \in Nat : y % n = 0 /\ y <= a => y <= x
<1>q. PICK q : q = a \div n
  OBVIOUS
<1>m. PICK m : m = a % n
  OBVIOUS
<1>1. a = (n * q) + m /\ m \in Nat /\ m < n /\ q \in Nat
  BY <1>q, <1>m
<1>2. x = a - m
  BY <1>m DEF AlignDown
<1>3. x = n * q /\ x \in Nat
  BY <1>1, <1>2
<1>4. x % n = 0
  <2>1. (n * q) % n = 0
    BY <1>1, Multiple
  <2> QED
    BY <1>3, <2>1, Zenon
<1>5. ASSUME NEW y \in Nat, y % n = 0, y <= a PROVE y <= x
  <2>1. PICK p \in Nat : y = n * p
    BY <1>5, Quotient
  <2>2. CASE p <= q
    <3>1. n * p <= n * q
      BY <1>1, <2>2
    <3> QED
      BY <1>3, <2>1, <3>1
  <2>3. CASE p >= q + 1
    <3>1. n * p >= n * q + n
      <4>1. n * p >= n * (q + 1)
        BY <1>1, <2>3
      <4> QED
        BY <1>1, <4>1
    <3> QED
      BY <1>1, <1>5, <2>1, <3>1
  <2> QED
    BY <1>1, <2>2, <2>3
<1> QED
  BY <1>1, <1>2, <1>3, <1>4, <1>5

LEMMA Up ==
    ASSUME NEW n \in Nat \ {0}, NEW a \in Nat, NEW x, x = AlignUp(a, n)
    PROVE  /\ x \in Nat /\ x % n = 0 /\ a <= x /\ x < a + n
           /\ \A y \in Nat : y % n = 0 /\ a <= y => x <= y
<1>c. PICK c \in Nat : c = a + n - 1
  OBVIOUS
<1>1. /\ x \in Nat /\ x % n = 0 /\ x <= c /\ c < x + n
  BY <1>c, Down DEF AlignUp
<1>2. ASSUME NEW y \in Nat, y % n = 0, a <= y PROVE x <= y
  <2>1. PICK p \in Nat : y = n * p
    BY <1>2, Quotient
  <2>2. PICK q \in Nat : x = n * q
    BY <1>1, Quotient
  <2>3. CASE q <= p
    <3>1. n * q <= n * p
      BY <2>3
    <3> QED
      BY <2>1, <2>2, <3>1
  <2>4. CASE q >= p + 1
    <3>1. n * q >= n * p + n
      <4>1. n * q >= n * (p + 1)
        BY <2>4
      <4> QED
        BY <4>1
    <3>2. x >= y + n
      BY <2>1, <2>2, <3>1
    <3> QED
      BY <1>1, <1>2, <1>c, <3>2
  <2> QED
    BY <2>3, <2>4
<1> QED
  BY <1>1, <1>2, <1>c
-----------------------------------------------------------------------------
(* Entries and lists.                                                      *)

(* An entry as every operation leaves it: not empty, and aligned.          *)
Good(r) ==
    /\ r \in RangeEntry
    /\ r.begin <= r.end /\ r.begin % Align = 0 /\ (r.end + 1) % Align = 0

Sorted(es) == \A i, j \in DOMAIN es : i < j => es[i].end < es[j].begin

Proper(es) ==
    /\ es \in Seq(RangeEntry)
    /\ \A i \in DOMAIN es : Good(es[i])
    /\ Sorted(es)

(* Entries that touch have different tags.                                 *)
Apart(es) ==
    \A i, j \in DOMAIN es : es[i].end + 1 = es[j].begin => es[i].tag # es[j].tag

Before(es, x) == \A i \in DOMAIN es : es[i].end < x

(* What an entry, the first ones of a list, and a list say of an address.  *)
Holds(r, a, t) == r.begin <= a /\ a <= r.end /\ r.tag = t
CoveredBy(es, k, a, t) == \E i \in 1..k : Holds(es[i], a, t)
Covers(es, a, t) == \E i \in DOMAIN es : Holds(es[i], a, t)

LEMMA Numbers == Top \in Nat /\ Align \in Nat \ {0} /\ Top % Align = 0
BY AddressAssumption

LEMMA Fields ==
    ASSUME NEW r \in RangeEntry
    PROVE  /\ r.begin \in Nat /\ r.end \in Nat /\ r.tag \in Tag
           /\ r.begin < Top /\ r.end < Top
BY Numbers DEF RangeEntry, Address

LEMMA EntryIs ==
    ASSUME NEW b \in Nat, NEW e \in Nat, NEW t \in Tag,
           b <= e, e < Top, b % Align = 0, (e + 1) % Align = 0
    PROVE  /\ Good(Entry(b, e, t))
           /\ Entry(b, e, t).begin = b /\ Entry(b, e, t).end = e /\ Entry(b, e, t).tag = t
<1>1. b \in Address /\ e \in Address
  BY Numbers DEF Address
<1> QED
  BY <1>1 DEF Entry, Good, RangeEntry

(* Parts of an entry.                                                      *)
LEMMA TrimEnd ==
    ASSUME NEW r, Good(r), NEW x \in Nat, r.begin < x, x - 1 <= r.end, x % Align = 0,
           NEW s, s = [r EXCEPT !.end = x - 1]
    PROVE  Good(s) /\ s.begin = r.begin /\ s.end = x - 1 /\ s.tag = r.tag
<1>1. /\ r \in RangeEntry /\ r.begin \in Nat /\ r.end \in Nat /\ r.begin <= r.end
      /\ r.end < Top /\ r.begin % Align = 0
  BY Fields DEF Good
<1>2. x - 1 \in Address /\ r.begin <= x - 1 /\ x - 1 + 1 = x
  BY <1>1, Numbers DEF Address
<1>3. s \in RangeEntry /\ s.begin = r.begin /\ s.end = x - 1 /\ s.tag = r.tag
  BY <1>1, <1>2 DEF RangeEntry
<1>4. Good(s)
  BY <1>1, <1>2, <1>3 DEF Good
<1> QED
  BY <1>3, <1>4

LEMMA TrimBegin ==
    ASSUME NEW r, Good(r), NEW x \in Nat, r.begin <= x, x <= r.end, x % Align = 0,
           NEW s, s = [r EXCEPT !.begin = x]
    PROVE  Good(s) /\ s.begin = x /\ s.end = r.end /\ s.tag = r.tag
<1>1. /\ r \in RangeEntry /\ r.begin \in Nat /\ r.end \in Nat
      /\ r.end < Top /\ (r.end + 1) % Align = 0
  BY Fields DEF Good
<1>2. x \in Address
  BY <1>1, Numbers DEF Address
<1>3. s \in RangeEntry /\ s.begin = x /\ s.end = r.end /\ s.tag = r.tag
  BY <1>1, <1>2 DEF RangeEntry
<1>4. Good(s)
  BY <1>1, <1>3 DEF Good
<1> QED
  BY <1>3, <1>4

LEMMA EmptyList ==
    /\ Proper(<<>>) /\ Apart(<<>>) /\ Len(<<>>) = 0
    /\ \A x : Before(<<>>, x)
    /\ \A a, t : ~Covers(<<>>, a, t)
BY DEF Proper, Apart, Sorted, Before, Covers

(* An entry behind all others.                                             *)
LEMMA AppendIs ==
    ASSUME NEW es \in Seq(RangeEntry), NEW x \in RangeEntry
    PROVE  LET new == Append(es, x)
           IN /\ new \in Seq(RangeEntry) /\ Len(new) = Len(es) + 1
              /\ \A i \in DOMAIN new : \/ i \in DOMAIN es /\ new[i] = es[i]
                                       \/ i = Len(es) + 1 /\ new[i] = x
              /\ \A i \in DOMAIN es : i \in DOMAIN new /\ i <= Len(es) /\ new[i] = es[i]
              /\ Len(es) + 1 \in DOMAIN new /\ new[Len(es) + 1] = x
OBVIOUS

LEMMA AppendOne ==
    ASSUME NEW es, Proper(es), NEW x, Good(x), Before(es, x.begin)
    PROVE  LET new == Append(es, x)
           IN /\ Proper(new) /\ Len(new) = Len(es) + 1
              /\ \A a, t : Covers(new, a, t) <=> Covers(es, a, t) \/ Holds(x, a, t)
              /\ Apart(es) /\ (\A i \in DOMAIN es : es[i].end + 1 = x.begin => es[i].tag # x.tag)
                    => Apart(new)
              /\ \A b : Before(es, b) /\ x.end < b => Before(new, b)
<1> DEFINE new == Append(es, x)
<1>0. es \in Seq(RangeEntry) /\ x \in RangeEntry
  BY DEF Proper, Good
<1>1. /\ new \in Seq(RangeEntry) /\ Len(new) = Len(es) + 1
      /\ \A i \in DOMAIN new : \/ i \in DOMAIN es /\ new[i] = es[i]
                               \/ i = Len(es) + 1 /\ new[i] = x
      /\ \A i \in DOMAIN es : i \in DOMAIN new /\ i <= Len(es) /\ new[i] = es[i]
      /\ Len(es) + 1 \in DOMAIN new /\ new[Len(es) + 1] = x
  BY <1>0, AppendIs
<1> HIDE DEF new
<1>2. /\ \A i \in DOMAIN es : es[i] \in RangeEntry /\ i \in Nat
      /\ \A i \in DOMAIN new : i \in Nat
      /\ Len(es) \in Nat
  BY <1>0, <1>1
<1>3. Proper(new)
  <2>1. \A i \in DOMAIN new : Good(new[i])
    BY <1>1 DEF Proper
  <2>2. ASSUME NEW i \in DOMAIN new, NEW j \in DOMAIN new, i < j
        PROVE  new[i].end < new[j].begin
    <3>1. i \in DOMAIN es /\ new[i] = es[i]
      BY <1>1, <1>2, <2>2
    <3>2. CASE j \in DOMAIN es /\ new[j] = es[j]
      BY <2>2, <3>1, <3>2 DEF Proper, Sorted
    <3>3. CASE j = Len(es) + 1 /\ new[j] = x
      BY <3>1, <3>3 DEF Before
    <3> QED
      BY <1>1, <3>2, <3>3
  <2> QED
    BY <1>1, <2>1, <2>2 DEF Proper, Sorted
<1>4. ASSUME NEW a, NEW t
      PROVE  Covers(new, a, t) <=> Covers(es, a, t) \/ Holds(x, a, t)
  <2>1. Covers(new, a, t) => Covers(es, a, t) \/ Holds(x, a, t)
    BY <1>1 DEF Covers
  <2>2. Covers(es, a, t) => Covers(new, a, t)
    BY <1>1 DEF Covers
  <2>3. Holds(x, a, t) => Covers(new, a, t)
    BY <1>1 DEF Covers
  <2> QED
    BY <2>1, <2>2, <2>3
<1>5. ASSUME Apart(es), \A i \in DOMAIN es : es[i].end + 1 = x.begin => es[i].tag # x.tag
      PROVE  Apart(new)
  <2> SUFFICES ASSUME NEW i \in DOMAIN new, NEW j \in DOMAIN new,
                      new[i].end + 1 = new[j].begin
               PROVE  new[i].tag # new[j].tag
    BY DEF Apart
  <2>1. new[i].end \in Nat /\ new[i].begin \in Nat /\ new[j].begin \in Nat /\ new[j].end \in Nat
    BY <1>1, Fields
  <2>2. new[i].begin <= new[i].end /\ new[j].begin <= new[j].end
    BY <1>3 DEF Proper, Good
  <2>3. CASE i \in DOMAIN es /\ new[i] = es[i]
    <3>1. CASE j \in DOMAIN es /\ new[j] = es[j]
      BY <1>5, <2>3, <3>1 DEF Apart
    <3>2. CASE j = Len(es) + 1 /\ new[j] = x
      BY <1>5, <2>3, <3>2
    <3> QED
      BY <1>1, <3>1, <3>2
  <2>4. CASE i = Len(es) + 1 /\ new[i] = x
    <3>1. j < i \/ j = i
      BY <1>1, <1>2, <2>4
    <3>2. CASE j < i
      <4>1. new[j].end < new[i].begin
        BY <1>3, <3>2 DEF Proper, Sorted
      <4> QED
        BY <2>1, <2>2, <4>1
    <3> QED
      BY <2>1, <2>2, <3>1, <3>2
  <2> QED
    BY <1>1, <2>3, <2>4
<1>6. \A b : Before(es, b) /\ x.end < b => Before(new, b)
  BY <1>1 DEF Before
<1> QED
  BY <1>1, <1>3, <1>4, <1>5, <1>6 DEF new

-----------------------------------------------------------------------------
(* merge_neighbor_entries().                                               *)

(* The loop ends: it is a function.                                        *)
Merging(g, es, n) ==
    [k \in 0..Len(es) |->
        IF k = 0 THEN List(<<>>, n) ELSE MergeNext(g[k - 1], es[k])]

Merges(es, n) == CHOOSE g : g = Merging(g, es, n)

LEMMA MergeDefined ==
    ASSUME NEW es, NEW n, Len(es) \in Nat
    PROVE  /\ MergeNeighbors(es, n) = Merges(es, n)[Len(es)]
           /\ Merges(es, n)[0] = List(<<>>, n)
           /\ \A k \in 0..Len(es) - 1 :
                 Merges(es, n)[k + 1] = MergeNext(Merges(es, n)[k], es[k + 1])
<1> DEFINE Built(g, k) == \A i \in 0..Len(es) : i <= k => g[i] = Merging(g, es, n)[i]
           D == {k \in Nat : \E g : Built(g, k)}
<1>1. 0 \in D
  <2> DEFINE g == [i \in {0} |-> List(<<>>, n)]
  <2>1. \A i \in 0..Len(es) : i <= 0 => g[i] = Merging(g, es, n)[i]
    BY DEF Merging
  <2> HIDE DEF g
  <2> QED
    BY <2>1
<1>2. ASSUME NEW k \in Nat, k \in D PROVE k + 1 \in D
  <2>1. PICK g : Built(g, k)
    BY <1>2
  <2> DEFINE h == Merging(g, es, n)
  <2>2. ASSUME NEW i \in 0..Len(es), i <= k + 1
        PROVE  h[i] = Merging(h, es, n)[i]
    <3>1. CASE i = 0
      BY <3>1 DEF Merging
    <3>2. CASE i # 0
      <4>1. i - 1 \in 0..Len(es) /\ i - 1 <= k
        BY <2>2, <3>2
      <4>2. h[i - 1] = g[i - 1]
        BY <2>1, <4>1
      <4> QED
        BY <3>2, <4>1, <4>2 DEF Merging
    <3> QED
      BY <3>1, <3>2
  <2> HIDE DEF h
  <2>3. Built(h, k + 1)
    BY <2>2
  <2> QED
    BY <2>3
<1>3. Len(es) \in D
  <2> HIDE DEF D
  <2> QED
    BY <1>1, <1>2, Induct
<1>4. PICK g : Built(g, Len(es))
  BY <1>3
<1> DEFINE h == Merging(g, es, n)
<1>5. h = Merging(h, es, n)
  <2>1. \A i \in 0..Len(es) : g[i] = h[i]
    BY <1>4
  <2>2. ASSUME NEW i \in 0..Len(es)
        PROVE  (IF i = 0 THEN List(<<>>, n) ELSE MergeNext(g[i - 1], es[i]))
                 = IF i = 0 THEN List(<<>>, n) ELSE MergeNext(h[i - 1], es[i])
    <3>1. CASE i = 0
      BY <3>1
    <3>2. CASE i # 0
      <4>1. i - 1 \in 0..Len(es)
        BY <3>2
      <4>2. g[i - 1] = h[i - 1]
        BY <2>1, <4>1
      <4> QED
        BY <3>2, <4>2
    <3> QED
      BY <3>1, <3>2
  <2> QED
    BY <2>2 DEF Merging
<1> HIDE DEF h
<1>6. Merges(es, n) = Merging(Merges(es, n), es, n)
  BY <1>5 DEF Merges
<1>7. MergeNeighbors(es, n) = Merges(es, n)[Len(es)]
  BY DEF MergeNeighbors, Merges, Merging
<1> DEFINE m == Merges(es, n)
<1> HIDE DEF m
<1>8. m[0] = List(<<>>, n)
  BY <1>6 DEF Merging, m
<1>9. ASSUME NEW k \in 0..Len(es) - 1 PROVE m[k + 1] = MergeNext(m[k], es[k + 1])
  <2>1. k + 1 \in 0..Len(es) /\ k + 1 # 0 /\ k + 1 - 1 = k
    OBVIOUS
  <2>2. m[k + 1] = Merging(m, es, n)[k + 1]
    BY <1>6 DEF m
  <2> QED
    BY <2>1, <2>2 DEF Merging
<1> QED
  BY <1>7, <1>8, <1>9 DEF m

(* The last entry grows.                                                   *)
LEMMA ExtendLast ==
    ASSUME NEW es, Proper(es), NEW m, m = Len(es), m > 0,
           NEW x, Good(x), es[m].end + 1 = x.begin, es[m].tag = x.tag,
           NEW new, new = [es EXCEPT ![m].end = x.end]
    PROVE  /\ Proper(new) /\ Len(new) = m
           /\ \A a \in Int : \A t : Covers(new, a, t) <=> Covers(es, a, t) \/ Holds(x, a, t)
           /\ Apart(es) => Apart(new)
           /\ \A b : Before(es, x.begin) /\ b \in Nat /\ x.end < b => Before(new, b)
           /\ new[m].end = x.end /\ new[m].tag = x.tag
<1>0. es \in Seq(RangeEntry) /\ m \in DOMAIN es /\ m \in Nat /\ DOMAIN es = 1..m
  BY DEF Proper
<1>1. /\ es[m] \in RangeEntry /\ Good(es[m]) /\ x \in RangeEntry
      /\ x.begin \in Nat /\ x.end \in Nat /\ x.begin <= x.end
      /\ es[m].begin \in Nat /\ es[m].end \in Nat /\ es[m].begin <= es[m].end
  BY <1>0, Fields DEF Proper, Good
<1>2. /\ new[m].begin = es[m].begin /\ new[m].end = x.end /\ new[m].tag = x.tag
      /\ new[m] \in RangeEntry
      /\ new \in Seq(RangeEntry) /\ Len(new) = m
      /\ DOMAIN new = 1..m
      /\ \A i \in DOMAIN es : i # m => new[i] = es[i]
  <2>1. new[m] = [es[m] EXCEPT !.end = x.end]
    BY <1>0
  <2>2. /\ new[m].begin = es[m].begin /\ new[m].end = x.end /\ new[m].tag = x.tag
        /\ new[m] \in RangeEntry
    BY <1>1, <2>1 DEF RangeEntry
  <2>3. new = [i \in 1..m |-> IF i = m THEN [es[m] EXCEPT !.end = x.end] ELSE es[i]]
    BY <1>0
  <2>4. \A i \in 1..m : new[i] \in RangeEntry
    BY <1>0, <2>2, <2>3
  <2> QED
    BY <1>0, <2>2, <2>3, <2>4, SMTT(30)
<1>3. Good(new[m])
  BY <1>1, <1>2 DEF Good
<1>4. Proper(new)
  <2>1. \A i \in DOMAIN new : Good(new[i])
    BY <1>0, <1>2, <1>3 DEF Proper
  <2>2. ASSUME NEW i \in 1..m, NEW j \in 1..m, i < j
        PROVE  new[i].end < new[j].begin
    <3>1. i # m /\ new[i] = es[i]
      BY <1>0, <1>2, <2>2
    <3>2. new[j].begin = es[j].begin
      BY <1>0, <1>2
    <3> QED
      BY <1>0, <2>2, <3>1, <3>2 DEF Proper, Sorted
  <2> QED
    BY <1>2, <2>1, <2>2 DEF Proper, Sorted
<1>5. ASSUME NEW a \in Int, NEW t
      PROVE  Covers(new, a, t) <=> Covers(es, a, t) \/ Holds(x, a, t)
  <2>1. Holds(new[m], a, t) <=> Holds(es[m], a, t) \/ Holds(x, a, t)
    BY <1>1, <1>2 DEF Holds
  <2>2. Covers(new, a, t) => Covers(es, a, t) \/ Holds(x, a, t)
    BY <1>0, <1>2, <2>1 DEF Covers
  <2>3. Covers(es, a, t) => Covers(new, a, t)
    BY <1>0, <1>2, <2>1 DEF Covers
  <2>4. Holds(x, a, t) => Covers(new, a, t)
    BY <1>0, <1>2, <2>1 DEF Covers
  <2> QED
    BY <2>2, <2>3, <2>4
<1>6. ASSUME Apart(es) PROVE Apart(new)
  <2> SUFFICES ASSUME NEW i \in 1..m, NEW j \in 1..m, new[i].end + 1 = new[j].begin
               PROVE  new[i].tag # new[j].tag
    BY <1>2 DEF Apart
  <2>1. new[j].begin = es[j].begin /\ new[j].tag = es[j].tag
    BY <1>0, <1>2
  <2>2. CASE i # m
    BY <1>0, <1>2, <1>6, <2>1, <2>2 DEF Apart
  <2>3. CASE i = m
    <3>1. j = i \/ j < i
      BY <2>3
    <3>2. new[j].begin \in Nat /\ new[j].end \in Nat /\ new[j].begin <= new[j].end
      BY <1>2, <1>4, Fields DEF Proper, Good
    <3>3. j < i => new[j].end < new[i].begin
      BY <1>2, <1>4 DEF Proper, Sorted
    <3> QED
      BY <1>1, <1>2, <2>3, <3>1, <3>2, <3>3
  <2> QED
    BY <2>2, <2>3
<1>7. ASSUME NEW b \in Nat, Before(es, x.begin), x.end < b PROVE Before(new, b)
  <2>1. \A i \in DOMAIN es : es[i].end \in Nat /\ es[i].end < x.begin
    BY <1>0, <1>7, Fields DEF Before
  <2> QED
    BY <1>0, <1>1, <1>2, <1>7, <2>1 DEF Before
<1> QED
  BY <1>2, <1>4, <1>5, <1>6, <1>7

LEMMA CoveredNext ==
    ASSUME NEW es, NEW k \in Nat
    PROVE  /\ \A a, t : CoveredBy(es, k + 1, a, t) <=> CoveredBy(es, k, a, t) \/ Holds(es[k + 1], a, t)
           /\ \A a, t : ~CoveredBy(es, 0, a, t)
<1>1. 1..k + 1 = (1..k) \cup {k + 1} /\ 1..0 = {}
  OBVIOUS
<1> QED
  BY <1>1 DEF CoveredBy

LEMMA CoveredAll ==
    ASSUME NEW es \in Seq(RangeEntry)
    PROVE  \A a, t : CoveredBy(es, Len(es), a, t) <=> Covers(es, a, t)
BY DEF CoveredBy, Covers

(* After k entries.                                                        *)
MergeInv(es, n, k, d) ==
    /\ Proper(d.es) /\ Apart(d.es)
    /\ d.free \in Nat /\ Len(d.es) + d.free = n + k /\ d.free >= n
    /\ \A a \in Int : \A t : Covers(d.es, a, t) <=> CoveredBy(es, k, a, t)
    /\ k > 0 => /\ Len(d.es) > 0
                /\ d.es[Len(d.es)].end = es[k].end /\ d.es[Len(d.es)].tag = es[k].tag
    /\ k < Len(es) => Before(d.es, es[k + 1].begin)

LEMMA MergeStart ==
    ASSUME NEW es, NEW n \in Nat
    PROVE  MergeInv(es, n, 0, List(<<>>, n))
<1>1. List(<<>>, n).es = <<>> /\ List(<<>>, n).free = n
  BY DEF List
<1>2. \A a \in Int : \A t : Covers(<<>>, a, t) <=> CoveredBy(es, 0, a, t)
  <2>1. \A a, t : ~CoveredBy(es, 0, a, t)
    BY DEF CoveredBy
  <2> QED
    BY <2>1, EmptyList
<1>3. \A x : Before(<<>>, x)
  BY EmptyList
<1>4. Proper(<<>>) /\ Apart(<<>>) /\ Len(<<>>) + n = n + 0
  BY EmptyList
<1> QED
  BY <1>1, <1>2, <1>3, <1>4 DEF MergeInv

LEMMA MergeStep ==
    ASSUME NEW es, Proper(es), NEW n \in Nat, NEW k \in 0..Len(es) - 1, NEW d, MergeInv(es, n, k, d)
    PROVE  MergeInv(es, n, k + 1, MergeNext(d, es[k + 1]))
<1> DEFINE r == es[k + 1]
           e == MergeNext(d, r)
           m == Len(d.es)
<1>0. /\ es \in Seq(RangeEntry) /\ k \in Nat /\ k + 1 \in DOMAIN es
      /\ k + 1 < Len(es) => k + 2 \in DOMAIN es /\ k + 1 + 1 = k + 2
      /\ Len(es) \in Nat
  BY DEF Proper
<1>1. Good(r) /\ r \in RangeEntry /\ r.begin \in Nat /\ r.end \in Nat /\ r.begin <= r.end
  BY <1>0, Fields DEF Proper, Good
<1>2. k + 1 < Len(es) => es[k + 2].begin \in Nat /\ r.end < es[k + 2].begin
  BY <1>0, Fields DEF Proper, Sorted
<1>3. Before(d.es, r.begin)
  BY <1>0 DEF MergeInv
<1>4. /\ Proper(d.es) /\ Apart(d.es) /\ d.es \in Seq(RangeEntry)
      /\ m = Len(d.es) /\ m \in Nat /\ DOMAIN d.es = 1..m
  BY DEF MergeInv, Proper
<1>a. d.free \in Nat /\ m \in Nat /\ m + d.free = n + k /\ d.free >= n
  BY <1>4 DEF MergeInv
<1>b. \A i \in DOMAIN d.es : /\ d.es[i].end \in Nat /\ d.es[i].begin \in Nat
                             /\ d.es[i].begin <= d.es[i].end /\ d.es[i].end < r.begin
  BY <1>3, Fields DEF MergeInv, Proper, Good, Before
<1>5. \A a \in Int : \A t : Covers(d.es, a, t) <=> CoveredBy(es, k, a, t)
  BY DEF MergeInv
<1>6. \A a, t : CoveredBy(es, k + 1, a, t) <=> CoveredBy(es, k, a, t) \/ Holds(r, a, t)
  BY <1>0, CoveredNext
<1> HIDE DEF r, e, m
<1>7. CASE m > 0 /\ Touches(d.es[m], r)
  <2> DEFINE new == [d.es EXCEPT ![m].end = r.end]
  <2>1. e.es = new /\ e.free = d.free + 1
    BY <1>7 DEF e, m, MergeNext, List
  <2>2. m \in DOMAIN d.es
    BY <1>4, <1>7
  <2>3. d.es[m].end + 1 = r.begin /\ d.es[m].tag = r.tag
    BY <1>1, <1>b, <1>7, <2>2 DEF Touches
  <2>4. /\ Proper(new) /\ Len(new) = m
        /\ \A a \in Int : \A t : Covers(new, a, t) <=> Covers(d.es, a, t) \/ Holds(r, a, t)
        /\ Apart(new)
        /\ \A b : Before(d.es, r.begin) /\ b \in Nat /\ r.end < b => Before(new, b)
        /\ new[m].end = r.end /\ new[m].tag = r.tag
    <3>1. Proper(d.es) /\ Apart(d.es) /\ m = Len(d.es) /\ m > 0 /\ Good(r)
      BY <1>1, <1>4, <1>7
    <3> HIDE DEF new
    <3>2. new = [d.es EXCEPT ![m].end = r.end]
      BY DEF new
    <3> QED
      BY <2>3, <3>1, <3>2, ExtendLast, SMTT(30)
  <2> HIDE DEF new
  <2>5. \A a \in Int : \A t : Covers(e.es, a, t) <=> CoveredBy(es, k + 1, a, t)
    BY <1>5, <1>6, <2>1, <2>4
  <2>6. k + 1 < Len(es) => Before(e.es, es[k + 1 + 1].begin)
    BY <1>0, <1>2, <1>3, <2>1, <2>4
  <2>7. e.free \in Nat /\ Len(e.es) + e.free = n + (k + 1) /\ e.free >= n
    <3>1. Len(e.es) = m /\ e.free = d.free + 1
      BY <2>1, <2>4
    <3> QED
      BY <1>0, <1>a, <3>1, SMTT(30)
  <2>8. /\ Len(e.es) > 0
        /\ e.es[Len(e.es)].end = es[k + 1].end /\ e.es[Len(e.es)].tag = es[k + 1].tag
    BY <1>7, <2>1, <2>4 DEF r
  <2>9. MergeInv(es, n, k + 1, e)
    BY <2>1, <2>4, <2>5, <2>6, <2>7, <2>8 DEF MergeInv
  <2> QED
    BY <2>9 DEF e, r
<1>8. CASE ~(m > 0 /\ Touches(d.es[m], r))
  <2> DEFINE new == Append(d.es, r)
  <2>1. e.es = new /\ e.free = d.free
    BY <1>8 DEF e, m, MergeNext, List
  <2>2. ASSUME NEW i \in DOMAIN d.es, d.es[i].end + 1 = r.begin
        PROVE  d.es[i].tag # r.tag
    <3>1. i \in 1..m /\ m \in DOMAIN d.es /\ m > 0
      BY <1>4
    <3>2. CASE i = m
      <4>1. d.es[m].end + 1 = r.begin
        BY <2>2, <3>2
      <4>2. d.es[m].end + 1 >= r.begin
        BY <1>1, <4>1
      <4> QED
        BY <1>8, <3>1, <3>2, <4>2 DEF Touches
    <3>3. CASE i < m
      <4>1. d.es[i].end < d.es[m].begin
        BY <1>4, <3>1, <3>3 DEF Proper, Sorted
      <4>2. d.es[m].end < r.begin
        BY <1>3, <3>1 DEF Before
      <4> QED
        BY <1>1, <1>b, <2>2, <3>1, <4>1, <4>2
    <3> QED
      BY <1>a, <3>1, <3>2, <3>3
  <2>3. /\ Proper(new) /\ Len(new) = m + 1
        /\ \A a, t : Covers(new, a, t) <=> Covers(d.es, a, t) \/ Holds(r, a, t)
        /\ Apart(new)
        /\ \A b : Before(d.es, b) /\ r.end < b => Before(new, b)
    BY <1>1, <1>3, <1>4, <2>2, AppendOne DEF m
  <2>4. new[m + 1] = r
    BY <1>1, <1>4, AppendIs DEF m
  <2> HIDE DEF new
  <2>5. \A a \in Int : \A t : Covers(e.es, a, t) <=> CoveredBy(es, k + 1, a, t)
    BY <1>5, <1>6, <2>1, <2>3
  <2>6. k + 1 < Len(es) => Before(e.es, es[k + 1 + 1].begin)
    <3> SUFFICES ASSUME k + 1 < Len(es) PROVE Before(e.es, es[k + 2].begin)
      BY <1>0
    <3>1. Before(d.es, es[k + 2].begin)
      BY <1>0, <1>1, <1>2, <1>b DEF Before
    <3> QED
      BY <1>2, <2>1, <2>3, <3>1
  <2>7. e.free \in Nat /\ Len(e.es) + e.free = n + (k + 1) /\ e.free >= n
    <3>1. Len(e.es) = m + 1 /\ e.free = d.free
      BY <2>1, <2>3
    <3> QED
      BY <1>0, <1>a, <3>1, SMTT(30)
  <2>8. /\ Len(e.es) > 0
        /\ e.es[Len(e.es)].end = es[k + 1].end /\ e.es[Len(e.es)].tag = es[k + 1].tag
    BY <1>4, <2>1, <2>3, <2>4 DEF r
  <2>9. MergeInv(es, n, k + 1, e)
    BY <2>1, <2>3, <2>5, <2>6, <2>7, <2>8 DEF MergeInv
  <2> QED
    BY <2>9 DEF e, r
<1> QED
  BY <1>7, <1>8

LEMMA MergesTo ==
    ASSUME NEW es, Proper(es), NEW n \in Nat
    PROVE  \A k \in 0..Len(es) : MergeInv(es, n, k, Merges(es, n)[k])
<1> DEFINE m == Merges(es, n)
           D == {k \in Nat : k <= Len(es) => MergeInv(es, n, k, m[k])}
<1>0. es \in Seq(RangeEntry) /\ Len(es) \in Nat
  BY DEF Proper
<1>1. /\ m[0] = List(<<>>, n)
      /\ \A k \in 0..Len(es) - 1 : m[k + 1] = MergeNext(m[k], es[k + 1])
  BY <1>0, MergeDefined
<1> HIDE DEF m
<1>2. 0 \in D
  BY <1>1, MergeStart
<1>3. ASSUME NEW k \in Nat, k \in D PROVE k + 1 \in D
  <2> SUFFICES ASSUME k + 1 <= Len(es) PROVE MergeInv(es, n, k + 1, m[k + 1])
    OBVIOUS
  <2>1. k \in 0..Len(es) - 1 /\ MergeInv(es, n, k, m[k])
    BY <1>0, <1>3
  <2> QED
    BY <1>1, <2>1, MergeStep
<1>4. \A k \in 0..Len(es) : k \in D
  <2> HIDE DEF D
  <2>1. Nat \subseteq D
    BY <1>2, <1>3, Induct
  <2> QED
    BY <1>0, <2>1
<1> QED
  BY <1>0, <1>4 DEF m

(* Neighbours of one tag that touch become one entry; nothing changes for  *)
(* any address.                                                            *)
LEMMA Merged ==
    ASSUME NEW es, Proper(es), NEW n \in Nat
    PROVE  LET list == MergeNeighbors(es, n)
           IN /\ Proper(list.es) /\ Apart(list.es)
              /\ list.free \in Nat /\ Len(list.es) + list.free = n + Len(es)
              /\ list.free >= n
              /\ \A a \in Int : \A t : Covers(list.es, a, t) <=> Covers(es, a, t)
<1>0. es \in Seq(RangeEntry) /\ Len(es) \in Nat /\ Len(es) \in 0..Len(es)
  BY DEF Proper
<1>1. MergeInv(es, n, Len(es), MergeNeighbors(es, n))
  BY <1>0, MergeDefined, MergesTo
<1>2. \A a, t : CoveredBy(es, Len(es), a, t) <=> Covers(es, a, t)
  BY <1>0, CoveredAll
<1> QED
  BY <1>1, <1>2 DEF MergeInv

(* The longer list has one entry more, which touches the one in front of   *)
(* it, has its tag, and ends before it begins.                             *)
SwallowedAt(big, small, p) ==
    /\ big.es \in Seq(RangeEntry) /\ Len(big.es) = Len(small.es) + 1
    /\ \A i \in 1..p : big.es[i] = small.es[i]
    /\ big.es[p + 1].begin = small.es[p].end + 1
    /\ big.es[p + 1].end = small.es[p].end /\ big.es[p + 1].tag = small.es[p].tag
    /\ \A i \in p + 1..Len(small.es) : big.es[i + 1] = small.es[i]
    /\ big.free \in Nat /\ small.free = big.free + 1

Swallowed(big, small) == \E p \in 1..Len(small.es) : SwallowedAt(big, small, p)

(* Merging leaves nothing of it.                                           *)
LEMMA Swallows ==
    ASSUME NEW big, NEW small, Proper(small.es), Swallowed(big, small)
    PROVE  MergeNeighbors(big.es, big.free) = MergeNeighbors(small.es, small.free)
<1>p. PICK p \in 1..Len(small.es) : SwallowedAt(big, small, p)
  BY DEF Swallowed
<1>x. PICK xs, ys, n, f, len :
         xs = small.es /\ ys = big.es /\ n = small.free /\ f = big.free /\ len = Len(xs)
  OBVIOUS
<1>0. /\ xs \in Seq(RangeEntry) /\ len \in Nat /\ Len(ys) = len + 1 /\ p \in 1..len
      /\ f \in Nat /\ n = f + 1 /\ n \in Nat /\ Len(ys) \in Nat /\ Proper(xs)
  BY <1>p, <1>x DEF Proper, SwallowedAt
<1>1. /\ \A i \in 1..p : ys[i] = xs[i]
      /\ ys[p + 1].begin = xs[p].end + 1 /\ ys[p + 1].end = xs[p].end
      /\ ys[p + 1].tag = xs[p].tag
      /\ \A i \in p + 1..len : ys[i + 1] = xs[i]
  BY <1>p, <1>x DEF SwallowedAt
<1>s. PICK S : S = Merges(xs, n)
  OBVIOUS
<1>b. PICK B : B = Merges(ys, f)
  OBVIOUS
<1>2. /\ MergeNeighbors(xs, n) = S[len] /\ S[0] = List(<<>>, n)
      /\ \A k \in 0..len - 1 : S[k + 1] = MergeNext(S[k], xs[k + 1])
      /\ \A k \in 0..len : MergeInv(xs, n, k, S[k])
  BY <1>0, <1>x, <1>s, MergeDefined, MergesTo
<1>3. /\ MergeNeighbors(ys, f) = B[len + 1] /\ B[0] = List(<<>>, f)
      /\ \A k \in 0..len : B[k + 1] = MergeNext(B[k], ys[k + 1])
  <2>1. Len(ys) - 1 = len
    BY <1>0
  <2> QED
    BY <1>0, <1>b, <2>1, MergeDefined
<1>4. \A k \in 0..len : S[k].free \in Nat
  BY <1>2 DEF MergeInv
<1> DEFINE Less(k) == S[k] = List(S[k].es, S[k].free) /\ B[k] = List(S[k].es, S[k].free - 1)
<1>5. Less(p)
  <2> DEFINE D == {k \in Nat : k <= p => Less(k)}
  <2>1. 0 \in D
    <3>1. S[0] = List(<<>>, n) /\ B[0] = List(<<>>, n - 1)
      BY <1>0, <1>2, <1>3
    <3>2. List(<<>>, n).es = <<>> /\ List(<<>>, n).free = n
      BY DEF List
    <3> QED
      BY <3>1, <3>2
  <2>2. ASSUME NEW k \in Nat, k \in D PROVE k + 1 \in D
    <3> SUFFICES ASSUME k + 1 <= p PROVE Less(k + 1)
      OBVIOUS
    <3>1. k \in 0..len - 1 /\ k \in 0..len /\ k + 1 \in 1..p /\ k <= p
      BY <1>0
    <3>2. Less(k)
      BY <2>2, <3>1
    <3>g. PICK g \in Nat : g = S[k].free
      BY <1>4, <3>1
    <3>3. PICK e : e = S[k].es
      OBVIOUS
    <3>r. PICK r : r = xs[k + 1]
      OBVIOUS
    <3>4. S[k] = List(e, g) /\ B[k] = List(e, g - 1)
      BY <3>2, <3>3, <3>g
    <3>5. S[k + 1] = MergeNext(List(e, g), r) /\ B[k + 1] = MergeNext(List(e, g - 1), r)
      BY <1>1, <1>2, <1>3, <3>1, <3>4, <3>r
    <3>6. /\ List(e, g).es = e /\ List(e, g).free = g
          /\ List(e, g - 1).es = e /\ List(e, g - 1).free = g - 1
      BY DEF List
    <3>7. g - 1 + 1 = g + 1 - 1
      OBVIOUS
    <3>m. PICK m : m = Len(e)
      OBVIOUS
    <3>8. CASE m > 0 /\ Touches(e[m], r)
      <4>1. PICK c : c = [e EXCEPT ![m].end = r.end]
        OBVIOUS
      <4>2. S[k + 1] = List(c, g + 1) /\ B[k + 1] = List(c, g + 1 - 1)
        BY <3>5, <3>6, <3>7, <3>8, <3>m, <4>1 DEF MergeNext
      <4>3. List(c, g + 1).es = c /\ List(c, g + 1).free = g + 1
        BY DEF List
      <4> QED
        BY <4>2, <4>3
    <3>9. CASE ~(m > 0 /\ Touches(e[m], r))
      <4>1. PICK c : c = Append(e, r)
        OBVIOUS
      <4>2. S[k + 1] = List(c, g) /\ B[k + 1] = List(c, g - 1)
        BY <3>5, <3>6, <3>9, <3>m, <4>1 DEF MergeNext
      <4>3. List(c, g).es = c /\ List(c, g).free = g
        BY DEF List
      <4> QED
        BY <4>2, <4>3
    <3> QED
      BY <3>8, <3>9
  <2> HIDE DEF D
  <2>3. p \in D
    BY <1>0, <2>1, <2>2, Induct
  <2> USE DEF D
  <2>4. p <= p
    BY <1>0
  <2> QED
    BY <2>3, <2>4
<1>6. B[p + 1] = S[p]
  <2>g. PICK g \in Nat : g = S[p].free
    BY <1>0, <1>4
  <2>1. PICK e, m : e = S[p].es /\ m = Len(e)
    OBVIOUS
  <2>h. PICK h : h = ys[p + 1]
    OBVIOUS
  <2>2. /\ B[p + 1] = MergeNext(List(e, g - 1), h) /\ S[p] = List(e, g)
    BY <1>0, <1>3, <1>5, <2>1, <2>g, <2>h
  <2>3. MergeInv(xs, n, p, S[p])
    BY <1>0, <1>2
  <2>4. /\ e \in Seq(RangeEntry) /\ m > 0 /\ m \in Nat
        /\ e[m].end = xs[p].end /\ e[m].tag = xs[p].tag
    BY <1>0, <2>1, <2>3 DEF MergeInv, Proper
  <2>5. m \in DOMAIN e /\ e[m] \in RangeEntry /\ e[m].end \in Nat
    BY <2>1, <2>4, Fields
  <2>6. h.end = e[m].end /\ h.begin = e[m].end + 1 /\ h.tag = e[m].tag
    BY <1>1, <2>4, <2>h
  <2>7. Touches(e[m], h)
    BY <2>5, <2>6 DEF Touches
  <2>8. [e EXCEPT ![m].end = h.end] = e
    <3>1. [e[m] EXCEPT !.end = h.end] = e[m]
      BY <2>5, <2>6 DEF RangeEntry
    <3>2. [e EXCEPT ![m].end = h.end]
             = [i \in DOMAIN e |-> IF i = m THEN [e[m] EXCEPT !.end = h.end] ELSE e[i]]
      OBVIOUS
    <3>3. e = [i \in DOMAIN e |-> e[i]]
      BY <2>4
    <3> QED
      BY <3>1, <3>2, <3>3
  <2>9. /\ List(e, g - 1).es = e /\ List(e, g - 1).free = g - 1 /\ g - 1 + 1 = g
    BY DEF List
  <2> QED
    BY <2>2, <2>1, <2>4, <2>7, <2>8, <2>9 DEF MergeNext
<1>7. B[len + 1] = S[len]
  <2> DEFINE D == {k \in Nat : p <= k /\ k <= len => B[k + 1] = S[k]}
  <2>1. 0 \in D
    BY <1>0
  <2>2. ASSUME NEW k \in Nat, k \in D PROVE k + 1 \in D
    <3> SUFFICES ASSUME p <= k + 1, k + 1 <= len PROVE B[k + 1 + 1] = S[k + 1]
      OBVIOUS
    <3>1. CASE k + 1 = p
      BY <1>6, <3>1
    <3>2. CASE k + 1 # p
      <4>1. k + 1 \in p + 1..len /\ k \in 0..len - 1 /\ k + 1 \in 0..len /\ p <= k /\ k <= len
        BY <1>0, <3>2
      <4>2. B[k + 1] = S[k] /\ ys[k + 1 + 1] = xs[k + 1]
        BY <1>1, <2>2, <4>1
      <4> QED
        BY <1>2, <1>3, <4>1, <4>2
    <3> QED
      BY <3>1, <3>2
  <2> HIDE DEF D
  <2>3. len \in D
    BY <1>0, <2>1, <2>2, Induct
  <2> USE DEF D
  <2>4. p <= len /\ len <= len
    BY <1>0
  <2> QED
    BY <2>3, <2>4
<1> QED
  BY <1>2, <1>3, <1>7, <1>x

-----------------------------------------------------------------------------
(* remove_memranges().                                                     *)

(* The loop ends: it is a function.                                        *)
Removing(g, es, n, first, end) ==
    [k \in 0..Len(es) |->
        IF k = 0 THEN Loop(<<>>, n, first, FALSE)
        ELSE RemoveFrom(g[k - 1], es[k], end)]

Removes(es, n, first, end) == CHOOSE g : g = Removing(g, es, n, first, end)

RunOf(m, es, n, first, end) ==
    /\ Remove(es, n, first, end) = List(m[Len(es)].es, m[Len(es)].free)
    /\ m[0] = Loop(<<>>, n, first, FALSE)
    /\ \A k \in 0..Len(es) - 1 : m[k + 1] = RemoveFrom(m[k], es[k + 1], end)

LEMMA RemoveDefined ==
    ASSUME NEW es, NEW n, NEW first, NEW end, Len(es) \in Nat
    PROVE  \E m : RunOf(m, es, n, first, end)
<1> DEFINE F(g) == Removing(g, es, n, first, end)
           Built(g, k) == \A i \in 0..Len(es) : i <= k => g[i] = F(g)[i]
           D == {k \in Nat : \E g : Built(g, k)}
<1>1. 0 \in D
  <2> DEFINE g == [i \in {0} |-> Loop(<<>>, n, first, FALSE)]
  <2>1. 0 \in 0..Len(es) /\ \A i \in 0..Len(es) : i <= 0 => i = 0
    OBVIOUS
  <2>2. g[0] = Loop(<<>>, n, first, FALSE)
    OBVIOUS
  <2>3. F(g)[0] = Loop(<<>>, n, first, FALSE)
    BY <2>1 DEF Removing
  <2>4. \A i \in 0..Len(es) : i <= 0 => g[i] = F(g)[i]
    BY <2>1, <2>2, <2>3
  <2> HIDE DEF g
  <2> QED
    BY <2>4
<1>2. ASSUME NEW k \in Nat, k \in D PROVE k + 1 \in D
  <2>1. PICK g : Built(g, k)
    BY <1>2
  <2> DEFINE h == F(g)
  <2>2. ASSUME NEW i \in 0..Len(es), i <= k + 1
        PROVE  h[i] = F(h)[i]
    <3>1. CASE i = 0
      BY <3>1 DEF Removing
    <3>2. CASE i # 0
      <4>1. i - 1 \in 0..Len(es) /\ i - 1 <= k
        BY <2>2, <3>2
      <4>2. h[i - 1] = g[i - 1]
        BY <2>1, <4>1
      <4> QED
        BY <3>2, <4>1, <4>2 DEF Removing
    <3> QED
      BY <3>1, <3>2
  <2> HIDE DEF h
  <2>3. Built(h, k + 1)
    BY <2>2
  <2> QED
    BY <2>3
<1>3. Len(es) \in D
  <2> HIDE DEF D
  <2> QED
    BY <1>1, <1>2, Induct
<1>4. PICK g : Built(g, Len(es))
  BY <1>3
<1> DEFINE h == F(g)
<1>5. h = F(h)
  <2>1. \A i \in 0..Len(es) : g[i] = h[i]
    BY <1>4
  <2>2. ASSUME NEW i \in 0..Len(es)
        PROVE  (IF i = 0 THEN Loop(<<>>, n, first, FALSE) ELSE RemoveFrom(g[i - 1], es[i], end))
                 = IF i = 0 THEN Loop(<<>>, n, first, FALSE) ELSE RemoveFrom(h[i - 1], es[i], end)
    <3>1. CASE i = 0
      BY <3>1
    <3>2. CASE i # 0
      <4>1. i - 1 \in 0..Len(es)
        BY <3>2
      <4>2. g[i - 1] = h[i - 1]
        BY <2>1, <4>1
      <4> QED
        BY <3>2, <4>2
    <3> QED
      BY <3>1, <3>2
  <2> QED
    BY <2>2 DEF Removing
<1> HIDE DEF h
<1> DEFINE m == Removes(es, n, first, end)
<1>6. m = Removing(m, es, n, first, end)
  BY <1>5 DEF Removes
<1>7. Remove(es, n, first, end) = List(m[Len(es)].es, m[Len(es)].free)
  BY DEF Remove, Removes, Removing
<1> HIDE DEF m
<1>8. m[0] = Loop(<<>>, n, first, FALSE)
  BY <1>6 DEF Removing
<1>9. ASSUME NEW k \in 0..Len(es) - 1 PROVE m[k + 1] = RemoveFrom(m[k], es[k + 1], end)
  <2>1. k + 1 \in 0..Len(es) /\ k + 1 # 0 /\ k + 1 - 1 = k
    OBVIOUS
  <2>2. m[k + 1] = Removing(m, es, n, first, end)[k + 1]
    BY <1>6
  <2> QED
    BY <2>1, <2>2 DEF Removing
<1> QED
  BY <1>7, <1>8, <1>9 DEF RunOf

(* What is left is made of parts of entries, none of them in the hole; of  *)
(* entries apart the parts are too.                                        *)
Part(x, r) == r.begin <= x.begin /\ x.end <= r.end /\ x.tag = r.tag
Outside(x, first, end) == x.end < first \/ x.begin > end

PartsInv(es, first, end, k, ds) ==
    /\ Proper(ds)
    /\ \A i \in DOMAIN ds : \E j \in 1..k : Part(ds[i], es[j])
    /\ \A i \in DOMAIN ds : Outside(ds[i], first, end)
    /\ Apart(es) => Apart(ds)

LEMMA PartsBefore ==
    ASSUME NEW es, Proper(es), NEW first, NEW end, NEW k \in Nat, NEW ds,
           PartsInv(es, first, end, k, ds), NEW l \in DOMAIN es, l > k
    PROVE  Before(ds, es[l].begin)
<1> SUFFICES ASSUME NEW i \in DOMAIN ds PROVE ds[i].end < es[l].begin
  BY DEF Before
<1>1. es \in Seq(RangeEntry) /\ l \in 1..Len(es) /\ Len(es) \in Nat /\ DOMAIN es = 1..Len(es)
  BY DEF Proper
<1>2. PICK j \in 1..k : Part(ds[i], es[j])
  BY DEF PartsInv
<1>3. j \in DOMAIN es /\ j < l
  BY <1>1, <1>2
<1>4. es[j].end < es[l].begin
  BY <1>3 DEF Proper, Sorted
<1>5. ds[i].end \in Nat /\ es[j].end \in Nat /\ es[l].begin \in Nat
  BY <1>1, <1>3, Fields DEF PartsInv, Proper
<1> QED
  BY <1>2, <1>4, <1>5 DEF Part

LEMMA PartsGrow ==
    ASSUME NEW es, NEW first, NEW end, NEW k \in Nat, NEW ds, PartsInv(es, first, end, k, ds)
    PROVE  PartsInv(es, first, end, k + 1, ds)
<1>1. 1..k \subseteq 1..k + 1
  OBVIOUS
<1> QED
  BY <1>1 DEF PartsInv

(* Only parts of earlier entries touch x from below.                       *)
TouchedByEarlier(es, k, ds, x) ==
    \A i \in DOMAIN ds : ds[i].end + 1 = x.begin => \E j \in 1..k - 1 : Part(ds[i], es[j])

LEMMA AddPart ==
    ASSUME NEW es, Proper(es), NEW first, NEW end, NEW k \in DOMAIN es, NEW ds,
           PartsInv(es, first, end, k, ds),
           NEW x, Good(x), NEW r, r = es[k], Part(x, r),
           Outside(x, first, end), Before(ds, x.begin),
           TouchedByEarlier(es, k, ds, x),
           NEW new, new = Append(ds, x)
    PROVE  /\ PartsInv(es, first, end, k, new) /\ Len(new) = Len(ds) + 1
           /\ \A a, t : Covers(new, a, t) <=> Covers(ds, a, t) \/ Holds(x, a, t)
           /\ \A b : Before(ds, b) /\ x.end < b => Before(new, b)
<1>0. es \in Seq(RangeEntry) /\ k \in 1..Len(es) /\ DOMAIN es = 1..Len(es) /\ Len(es) \in Nat
  BY DEF Proper
<1>1. ds \in Seq(RangeEntry) /\ x \in RangeEntry /\ Proper(ds)
  BY DEF PartsInv, Proper, Good
<1>2. ASSUME Apart(es), NEW i \in DOMAIN ds, ds[i].end + 1 = x.begin
      PROVE  ds[i].tag # x.tag
  <2>1. PICK j \in 1..k - 1 : Part(ds[i], es[j])
    BY <1>2 DEF TouchedByEarlier
  <2>2. j \in DOMAIN es /\ j < k
    BY <1>0
  <2>3. es[j].end < es[k].begin
    BY <2>2 DEF Proper, Sorted
  <2>4. /\ es[j].end \in Nat /\ es[k].begin \in Nat /\ x.begin \in Nat /\ ds[i].end \in Nat
    BY <1>0, <1>1, <2>2, Fields
  <2>5. es[j].end + 1 = es[k].begin
    BY <1>2, <2>1, <2>3, <2>4 DEF Part
  <2> QED
    BY <1>2, <2>1, <2>2, <2>5 DEF Part, Apart
<1>3. /\ Proper(new) /\ Len(new) = Len(ds) + 1
      /\ \A a, t : Covers(new, a, t) <=> Covers(ds, a, t) \/ Holds(x, a, t)
      /\ Apart(ds) /\ (\A i \in DOMAIN ds : ds[i].end + 1 = x.begin => ds[i].tag # x.tag)
            => Apart(new)
      /\ \A b : Before(ds, b) /\ x.end < b => Before(new, b)
  BY <1>1, AppendOne
<1>4. Apart(es) => Apart(new)
  BY <1>2, <1>3 DEF PartsInv
<1>5. \A i \in DOMAIN new : \/ i \in DOMAIN ds /\ new[i] = ds[i]
                            \/ new[i] = x
  BY <1>1, AppendIs
<1>6. \A i \in DOMAIN new : \E j \in 1..k : Part(new[i], es[j])
  <2>1. k \in 1..k
    BY <1>0
  <2> QED
    BY <1>5, <2>1 DEF PartsInv
<1>7. \A i \in DOMAIN new : Outside(new[i], first, end)
  BY <1>5 DEF PartsInv
<1> QED
  BY <1>3, <1>4, <1>6, <1>7 DEF PartsInv

LEMMA MaxMin ==
    ASSUME NEW a \in Nat, NEW b \in Nat
    PROVE  /\ Max({a, b}) = IF a >= b THEN a ELSE b
           /\ Min({a, b}) = IF a <= b THEN a ELSE b
<1>1. \A S : Max(S) = CHOOSE x \in S : \A y \in S : x >= y
  BY DEF Max
<1>2. \A S : Min(S) = CHOOSE x \in S : \A y \in S : x <= y
  BY DEF Min
<1>3. \E x \in {a, b} : \A y \in {a, b} : x >= y
  <2>1. CASE a >= b
    BY <2>1
  <2>2. CASE b >= a
    BY <2>2
  <2> QED
    BY <2>1, <2>2
<1>4. \E x \in {a, b} : \A y \in {a, b} : x <= y
  <2>1. CASE a >= b
    BY <2>1
  <2>2. CASE b >= a
    BY <2>2
  <2> QED
    BY <2>1, <2>2
<1>5. Max({a, b}) \in {a, b} /\ \A y \in {a, b} : Max({a, b}) >= y
  BY <1>1, <1>3
<1>6. Min({a, b}) \in {a, b} /\ \A y \in {a, b} : Min({a, b}) <= y
  BY <1>2, <1>4
<1> QED
  BY <1>5, <1>6

(* The rest of what holds after k entries: of the free entries, of begin,  *)
(* and, when one entry was free at the start, of the addresses that keep   *)
(* their tag.                                                              *)
CountInv(n, k, d) ==
    /\ d.free \in Nat /\ Len(d.es) + d.free = n + k /\ d.free + 1 >= n
    /\ ~d.over => d.free >= n

PlaceInv(es, first, end, k, d) ==
    /\ d.begin \in Nat /\ d.begin >= first /\ d.over \in BOOLEAN
    /\ d.over => \A j \in k + 1..Len(es) : end < es[j].begin
    /\ ~d.over => d.begin = first \/ \A j \in k + 1..Len(es) : d.begin <= es[j].begin

Hole(a, first, end) == first <= a /\ a <= end

KeptInv(es, n, first, end, k, d) ==
    n > 0 => \A a \in Int : \A t :
                 CoveredBy(es, k, a, t) /\ ~Hole(a, first, end) => Covers(d.es, a, t)

RemoveInv(es, n, first, end, k, d) ==
    /\ d = Loop(d.es, d.free, d.begin, d.over)
    /\ PartsInv(es, first, end, k, d.es)
    /\ CountInv(n, k, d)
    /\ PlaceInv(es, first, end, k, d)
    /\ KeptInv(es, n, first, end, k, d)

(* The hole of a call.                                                     *)
Aligned(first, end) ==
    /\ first \in Nat /\ end \in Nat /\ first <= end
    /\ first % Align = 0 /\ (end + 1) % Align = 0

LEMMA RemoveBegins ==
    ASSUME NEW es, NEW n \in Nat, NEW first, NEW end, Aligned(first, end)
    PROVE  RemoveInv(es, n, first, end, 0, Loop(<<>>, n, first, FALSE))
<1> DEFINE d == Loop(<<>>, n, first, FALSE)
<1>1. /\ d.es = <<>> /\ d.free = n /\ d.begin = first /\ d.over = FALSE
      /\ d = Loop(d.es, d.free, d.begin, d.over)
  BY DEF Loop
<1> HIDE DEF d
<1>2. PartsInv(es, first, end, 0, <<>>)
  BY EmptyList DEF PartsInv
<1>3. CountInv(n, 0, d)
  <2>1. Len(<<>>) + n = n + 0
    BY EmptyList
  <2> QED
    BY <1>1, <2>1 DEF CountInv
<1>4. PlaceInv(es, first, end, 0, d)
  <2>1. first \in Nat /\ first >= first
    BY DEF Aligned
  <2>2. d.over \in BOOLEAN
    BY <1>1, Zenon
  <2> QED
    BY <1>1, <2>1, <2>2, Zenon DEF PlaceInv
<1>5. KeptInv(es, n, first, end, 0, d)
  BY CoveredNext DEF KeptInv
<1> QED
  BY <1>1, <1>2, <1>3, <1>4, <1>5 DEF RemoveInv, d

(* A step that leaves one part x of the entry.                             *)
LEMMA OnePart ==
    ASSUME NEW es, Proper(es), NEW n \in Nat, NEW first, NEW end, Aligned(first, end),
           NEW k \in Nat, k < Len(es), NEW d, RemoveInv(es, n, first, end, k, d),
           NEW r, r = es[k + 1],
           NEW x, Good(x), Part(x, r), Outside(x, first, end),
           \A a \in Int : \A t : Holds(r, a, t) /\ ~Hole(a, first, end) => Holds(x, a, t),
           NEW e, e = Loop(e.es, e.free, e.begin, e.over),
           e.es = Append(d.es, x), e.free = d.free, d.over => e.over,
           PlaceInv(es, first, end, k + 1, e)
    PROVE  RemoveInv(es, n, first, end, k + 1, e)
<1>1. /\ es \in Seq(RangeEntry) /\ Len(es) \in Nat /\ k + 1 \in DOMAIN es /\ k + 1 - 1 = k
      /\ k + 1 \in Nat /\ k + 1 > k
  BY DEF Proper
<1>a. PartsInv(es, first, end, k, d.es)
  BY DEF RemoveInv
<1>2. PartsInv(es, first, end, k + 1, d.es)
  BY <1>a, PartsGrow
<1>3. Before(d.es, r.begin)
  BY <1>1, <1>a, PartsBefore
<1>4. r.begin \in Nat /\ x.begin \in Nat /\ r.begin <= x.begin
  BY <1>1, Fields DEF Proper, Good, Part
<1>5. Before(d.es, x.begin)
  <2>1. \A i \in DOMAIN d.es : d.es[i].end \in Nat
    BY Fields DEF RemoveInv, PartsInv, Proper
  <2> QED
    BY <1>3, <1>4, <2>1 DEF Before
<1>6. \A i \in DOMAIN d.es : \E j \in 1..k : Part(d.es[i], es[j])
  BY <1>a DEF PartsInv
<1>7. /\ PartsInv(es, first, end, k + 1, e.es) /\ Len(e.es) = Len(d.es) + 1
      /\ \A a, t : Covers(e.es, a, t) <=> Covers(d.es, a, t) \/ Holds(x, a, t)
  <2> DEFINE l == k + 1
  <2>1. l \in DOMAIN es /\ PartsInv(es, first, end, l, d.es) /\ Part(x, es[l])
    BY <1>1, <1>2
  <2>2. TouchedByEarlier(es, l, d.es, x)
    BY <1>1, <1>6 DEF TouchedByEarlier
  <2> HIDE DEF l
  <2>3. PartsInv(es, first, end, l, e.es)
    BY <1>5, <2>1, <2>2, AddPart, Zenon
  <2>5. Len(e.es) = Len(d.es) + 1
    <3>1. d.es \in Seq(RangeEntry) /\ x \in RangeEntry
      BY <1>a DEF PartsInv, Proper, Good
    <3> QED
      BY <3>1, AppendIs
  <2>4. \A a, t : Covers(e.es, a, t) <=> Covers(d.es, a, t) \/ Holds(x, a, t)
    BY <1>5, <2>1, <2>2, AddPart, Zenon
  <2> QED
    BY <2>3, <2>4, <2>5 DEF l
<1>8. CountInv(n, k + 1, e)
  <2>1. d.free \in Nat /\ Len(d.es) + d.free = n + k /\ d.free + 1 >= n /\ Len(d.es) \in Nat
    BY DEF RemoveInv, CountInv, PartsInv, Proper
  <2>2. ~d.over => d.free >= n
    BY DEF RemoveInv, CountInv
  <2>3. Len(e.es) + e.free = n + (k + 1)
    <3>1. Len(e.es) = Len(d.es) + 1
      BY <1>7
    <3>2. e.free = d.free
      OBVIOUS
    <3> QED
      BY <2>1, <3>1, <3>2
  <2> QED
    BY <2>1, <2>2, <2>3 DEF CountInv
<1>9. KeptInv(es, n, first, end, k + 1, e)
  <2> SUFFICES ASSUME n > 0, NEW a \in Int, NEW t, CoveredBy(es, k + 1, a, t),
                      ~Hole(a, first, end)
               PROVE  Covers(e.es, a, t)
    BY DEF KeptInv
  <2>1. CoveredBy(es, k, a, t) \/ Holds(r, a, t)
    BY CoveredNext
  <2>2. CASE CoveredBy(es, k, a, t)
    BY <1>7, <2>2 DEF RemoveInv, KeptInv
  <2>3. CASE Holds(r, a, t)
    BY <1>7, <2>3
  <2> QED
    BY <2>1, <2>2, <2>3
<1> QED
  BY <1>7, <1>8, <1>9 DEF RemoveInv

(* What a step does, case by case.                                         *)
Outcome(d, r, end, low, high, e) ==
    /\ d.over \/ end < r.begin => e = Loop(Append(d.es, r), d.free, d.begin, TRUE)
    /\ ~d.over /\ r.begin <= end =>
          /\ d.begin > r.end => e = Loop(Append(d.es, r), d.free, d.begin, FALSE)
          /\ d.begin <= r.begin /\ r.end <= end =>
                e = Loop(d.es, d.free + 1, r.end + 1, FALSE)
          /\ d.begin <= r.begin /\ end < r.end =>
                e = Loop(Append(d.es, high), d.free, r.begin, FALSE)
          /\ r.begin < d.begin /\ d.begin <= r.end /\ r.end <= end =>
                e = Loop(Append(d.es, low), d.free, d.begin, FALSE)
          /\ r.begin < d.begin /\ d.begin <= r.end /\ end < r.end =>
                e = IF d.free = 0 THEN Loop(Append(d.es, low), 0, d.begin, TRUE)
                    ELSE Loop(Append(Append(d.es, low), high), d.free - 1, d.begin, TRUE)

LEMMA RemoveFromIs ==
    ASSUME NEW d, d.free \in Nat, d.begin \in Nat,
           NEW r, r.begin \in Nat, r.end \in Nat, r.begin <= r.end, NEW end \in Nat,
           NEW e, e = RemoveFrom(d, r, end),
           NEW low, low = [r EXCEPT !.end = d.begin - 1],
           NEW high, high = [r EXCEPT !.begin = end + 1]
    PROVE  Outcome(d, r, end, low, high, e)
<1> DEFINE top == Max({d.begin, r.begin})
           bottom == Min({end, r.end})
<1>1. /\ top = (IF d.begin >= r.begin THEN d.begin ELSE r.begin)
      /\ bottom = (IF end <= r.end THEN end ELSE r.end)
  BY MaxMin
<1> HIDE DEF top, bottom
<1>2. e = IF d.over \/ end < r.begin THEN Loop(Append(d.es, r), d.free, d.begin, TRUE)
          ELSE IF d.begin > r.end THEN Loop(Append(d.es, r), d.free, d.begin, FALSE)
          ELSE IF d.begin <= r.begin /\ end >= r.end
          THEN Loop(d.es, d.free + 1, r.end + 1, FALSE)
          ELSE IF top > r.begin /\ bottom < r.end THEN Split(d, r, top, end)
          ELSE Loop(Append(d.es, Clip(r, top, bottom)), d.free, top, FALSE)
  BY DEF RemoveFrom, top, bottom
<1>3. d.over \/ end < r.begin => e = Loop(Append(d.es, r), d.free, d.begin, TRUE)
  BY <1>2
<1>4. ASSUME ~d.over, r.begin <= end
      PROVE  ~(d.over \/ end < r.begin)
  BY <1>4
<1>5. ASSUME ~(d.over \/ end < r.begin), d.begin > r.end
      PROVE  e = Loop(Append(d.es, r), d.free, d.begin, FALSE)
  BY <1>2, <1>5
<1>6. ASSUME ~(d.over \/ end < r.begin), d.begin <= r.begin, r.end <= end
      PROVE  e = Loop(d.es, d.free + 1, r.end + 1, FALSE)
  <2>1. ~(d.begin > r.end) /\ d.begin <= r.begin /\ end >= r.end
    BY <1>6
  <2> QED
    BY <1>2, <1>6, <2>1
<1>7. ASSUME ~(d.over \/ end < r.begin), d.begin <= r.begin, end < r.end
      PROVE  e = Loop(Append(d.es, high), d.free, r.begin, FALSE)
  <2>1. top = r.begin /\ bottom = end
    BY <1>1, <1>7
  <2>2. ~(d.begin > r.end) /\ ~(end >= r.end) /\ ~(top > r.begin)
    BY <1>7, <2>1
  <2>3. e = Loop(Append(d.es, Clip(r, top, bottom)), d.free, top, FALSE)
    BY <1>2, <1>7, <2>2
  <2>4. Clip(r, top, bottom) = high
    BY <2>1 DEF Clip
  <2> QED
    BY <2>1, <2>3, <2>4
<1>8. ASSUME ~(d.over \/ end < r.begin), r.begin < d.begin, d.begin <= r.end, r.end <= end
      PROVE  e = Loop(Append(d.es, low), d.free, d.begin, FALSE)
  <2>1. top = d.begin /\ bottom = r.end
    BY <1>1, <1>8
  <2>2. ~(d.begin > r.end) /\ ~(d.begin <= r.begin) /\ ~(bottom < r.end) /\ d.begin # r.begin
    BY <1>8, <2>1
  <2>3. e = Loop(Append(d.es, Clip(r, top, bottom)), d.free, top, FALSE)
    BY <1>2, <1>8, <2>2
  <2>4. Clip(r, top, bottom) = low
    BY <2>1, <2>2 DEF Clip
  <2> QED
    BY <2>1, <2>3, <2>4
<1>9. ASSUME ~(d.over \/ end < r.begin), r.begin < d.begin, d.begin <= r.end, end < r.end
      PROVE  e = IF d.free = 0 THEN Loop(Append(d.es, low), 0, d.begin, TRUE)
                 ELSE Loop(Append(Append(d.es, low), high), d.free - 1, d.begin, TRUE)
  <2>1. top = d.begin /\ bottom = end
    BY <1>1, <1>9
  <2>2. ~(d.begin > r.end) /\ ~(d.begin <= r.begin) /\ top > r.begin /\ bottom < r.end
    BY <1>9, <2>1
  <2>3. e = Split(d, r, d.begin, end)
    BY <1>2, <1>9, <2>1, <2>2
  <2> QED
    BY <2>3 DEF Split
<1> QED
  BY <1>3, <1>4, <1>5, <1>6, <1>7, <1>8, <1>9 DEF Outcome

LEMMA RemoveStep ==
    ASSUME NEW es, Proper(es), NEW n \in Nat, NEW first, NEW end, Aligned(first, end),
           NEW k \in Nat, k < Len(es), NEW d, RemoveInv(es, n, first, end, k, d),
           NEW r, r = es[k + 1], NEW e, e = RemoveFrom(d, r, end)
    PROVE  RemoveInv(es, n, first, end, k + 1, e)
<1>l. PICK low : low = [r EXCEPT !.end = d.begin - 1]
  OBVIOUS
<1>h. PICK high : high = [r EXCEPT !.begin = end + 1]
  OBVIOUS
<1>1. /\ es \in Seq(RangeEntry) /\ Len(es) \in Nat /\ k + 1 \in DOMAIN es
      /\ k + 1 \in k + 1..Len(es) /\ k + 1 - 1 = k /\ k + 1 > k /\ k + 1 \in Nat
  BY DEF Proper
<1>2. /\ Good(r) /\ r \in RangeEntry /\ r.begin \in Nat /\ r.end \in Nat /\ r.begin <= r.end
      /\ (r.end + 1) % Align = 0
  BY <1>1, Fields DEF Proper, Good
<1>3. \A j \in k + 2..Len(es) : /\ j \in k + 1..Len(es) /\ es[j].begin \in Nat
                                /\ r.end < es[j].begin
  <2> SUFFICES ASSUME NEW j \in k + 2..Len(es)
               PROVE  /\ j \in k + 1..Len(es) /\ es[j].begin \in Nat /\ r.end < es[j].begin
    OBVIOUS
  <2>1. j \in DOMAIN es /\ k + 1 < j /\ j \in k + 1..Len(es)
    BY <1>1
  <2> QED
    BY <1>1, <2>1, Fields DEF Proper, Sorted
<1>4. k + 1 + 1..Len(es) = k + 2..Len(es)
  OBVIOUS
<1>5. /\ d.free \in Nat /\ d.begin \in Nat /\ d.begin >= first
      /\ Len(d.es) + d.free = n + k /\ d.free + 1 >= n /\ Len(d.es) \in Nat
  BY DEF RemoveInv, CountInv, PlaceInv, PartsInv, Proper
<1>6. d.over => end < r.begin
  BY <1>1 DEF RemoveInv, PlaceInv
<1>7. ~d.over => d.free >= n
  BY DEF RemoveInv, CountInv
<1>8. ~d.over => d.begin = first \/ d.begin <= r.begin
  BY <1>1 DEF RemoveInv, PlaceInv
<1>9. first \in Nat /\ end \in Nat /\ first <= end /\ first % Align = 0 /\ (end + 1) % Align = 0
  BY DEF Aligned
<1>10. Outcome(d, r, end, low, high, e)
  BY <1>l, <1>h, <1>2, <1>5, <1>9, RemoveFromIs
<1>11. r.begin < d.begin /\ d.begin <= r.end /\ d.begin % Align = 0 =>
          /\ Good(low) /\ low.begin = r.begin /\ low.end = d.begin - 1 /\ low.tag = r.tag
  <2>1. r.begin < d.begin /\ d.begin <= r.end => d.begin - 1 <= r.end
    BY <1>2, <1>5
  <2> QED
    BY <1>2, <1>5, <2>1, <1>l, TrimEnd
<1>12. r.begin <= end /\ end < r.end =>
          /\ Good(high) /\ high.begin = end + 1 /\ high.end = r.end /\ high.tag = r.tag
  <2>1. r.begin <= end /\ end < r.end => r.begin <= end + 1 /\ end + 1 <= r.end /\ end + 1 \in Nat
    BY <1>2, <1>9
  <2> QED
    BY <1>2, <1>9, <2>1, <1>h, TrimBegin
<1>13. CASE d.over \/ end < r.begin
  <2>1. e = Loop(Append(d.es, r), d.free, d.begin, TRUE)
    BY <1>10, <1>13 DEF Outcome
  <2>2. end < r.begin
    BY <1>6, <1>13
  <2>3. /\ e.es = Append(d.es, r) /\ e.free = d.free /\ e.begin = d.begin /\ e.over = TRUE
        /\ e = Loop(e.es, e.free, e.begin, e.over)
    BY <2>1 DEF Loop
  <2>4. Part(r, r) /\ Outside(r, first, end)
    BY <1>2, <2>2 DEF Part, Outside
  <2>5. \A j \in k + 2..Len(es) : end < es[j].begin
    BY <1>2, <1>3, <1>9, <2>2
  <2>6. PlaceInv(es, first, end, k + 1, e)
    BY <1>4, <1>5, <2>3, <2>5 DEF PlaceInv
  <2> QED
    BY <1>2, <2>3, <2>4, <2>6, OnePart
<1>14. CASE ~d.over /\ r.begin <= end /\ d.begin > r.end
  <2>1. e = Loop(Append(d.es, r), d.free, d.begin, FALSE)
    BY <1>10, <1>14 DEF Outcome
  <2>2. d.begin = first /\ r.end < first
    BY <1>2, <1>5, <1>8, <1>14
  <2>3. /\ e.es = Append(d.es, r) /\ e.free = d.free /\ e.begin = d.begin /\ ~e.over
        /\ e = Loop(e.es, e.free, e.begin, e.over) /\ e.over \in BOOLEAN
    BY <2>1 DEF Loop
  <2>4. Part(r, r) /\ Outside(r, first, end)
    BY <1>2, <2>2 DEF Part, Outside
  <2>6. PlaceInv(es, first, end, k + 1, e)
    BY <1>5, <2>2, <2>3 DEF PlaceInv
  <2>7. d.over => e.over
    BY <1>14
  <2> QED
    BY <1>2, <2>3, <2>4, <2>6, <2>7, OnePart
<1>15. CASE ~d.over /\ r.begin <= end /\ d.begin <= r.begin /\ r.end <= end
  <2>1. e = Loop(d.es, d.free + 1, r.end + 1, FALSE)
    BY <1>10, <1>15 DEF Outcome
  <2>3. /\ e.es = d.es /\ e.free = d.free + 1 /\ e.begin = r.end + 1 /\ ~e.over
        /\ e = Loop(e.es, e.free, e.begin, e.over) /\ e.over \in BOOLEAN
    BY <2>1 DEF Loop
  <2>4. PartsInv(es, first, end, k + 1, e.es)
    BY <2>3, PartsGrow DEF RemoveInv
  <2>5. CountInv(n, k + 1, e)
    <3>1. /\ e.free \in Nat /\ Len(e.es) + e.free = n + (k + 1) /\ e.free >= n
          /\ e.free + 1 >= n
      <4>1. d.free >= n
        BY <1>7, <1>15
      <4>2. e.free = d.free + 1 /\ Len(e.es) = Len(d.es)
        BY <2>3
      <4>3. /\ d.free \in Nat /\ Len(d.es) \in Nat /\ Len(d.es) + d.free = n + k
        BY <1>5
      <4> QED
        BY <4>1, <4>2, <4>3, SMTT(30)
    <3> QED
      BY <3>1 DEF CountInv
  <2>6. PlaceInv(es, first, end, k + 1, e)
    <3>1. \A j \in k + 2..Len(es) : e.begin <= es[j].begin
      BY <1>2, <1>3, <2>3
    <3>2. e.begin \in Nat /\ e.begin >= first
      <4>1. e.begin = r.end + 1
        BY <2>3
      <4>2. r.end \in Nat /\ r.end >= first
        BY <1>2, <1>5, <1>9, <1>15
      <4> QED
        BY <1>9, <4>1, <4>2
    <3> QED
      BY <1>4, <2>3, <3>1, <3>2 DEF PlaceInv
  <2>7. KeptInv(es, n, first, end, k + 1, e)
    <3> SUFFICES ASSUME n > 0, NEW a \in Int, NEW t, CoveredBy(es, k + 1, a, t),
                        ~Hole(a, first, end)
                 PROVE  Covers(e.es, a, t)
      BY DEF KeptInv
    <3>0. first <= r.begin /\ r.end <= end
      BY <1>2, <1>5, <1>9, <1>15
    <3>1. ~Holds(r, a, t)
      BY <1>2, <1>9, <3>0 DEF Holds, Hole
    <3>2. CoveredBy(es, k, a, t)
      BY <3>1, CoveredNext
    <3> QED
      BY <2>3, <3>2 DEF RemoveInv, KeptInv
  <2> QED
    BY <2>3, <2>4, <2>5, <2>6, <2>7 DEF RemoveInv
<1>16. CASE ~d.over /\ r.begin <= end /\ d.begin <= r.begin /\ end < r.end
  <2>1. e = Loop(Append(d.es, high), d.free, r.begin, FALSE)
    BY <1>10, <1>16 DEF Outcome
  <2>2. Good(high) /\ high.begin = end + 1 /\ high.end = r.end /\ high.tag = r.tag
    BY <1>12, <1>16
  <2>3. /\ e.es = Append(d.es, high) /\ e.free = d.free /\ e.begin = r.begin /\ ~e.over
        /\ e = Loop(e.es, e.free, e.begin, e.over) /\ e.over \in BOOLEAN
    BY <2>1 DEF Loop
  <2>4. Part(high, r) /\ Outside(high, first, end)
    BY <1>2, <1>9, <1>16, <2>2 DEF Part, Outside
  <2>5. \A a \in Int : \A t : Holds(r, a, t) /\ ~Hole(a, first, end) => Holds(high, a, t)
    BY <1>2, <1>5, <1>9, <1>16, <2>2 DEF Holds, Hole
  <2>6. PlaceInv(es, first, end, k + 1, e)
    <3>1. \A j \in k + 2..Len(es) : e.begin <= es[j].begin
      BY <1>2, <1>3, <2>3, SMTT(30)
    <3>2. e.begin \in Nat /\ e.begin >= first
      BY <1>2, <1>5, <1>9, <1>16, <2>3
    <3> QED
      BY <1>4, <2>3, <3>1, <3>2 DEF PlaceInv
  <2>7. d.over => e.over
    BY <1>16
  <2> QED
    BY <2>2, <2>3, <2>4, <2>5, <2>6, <2>7, OnePart
<1>17. CASE ~d.over /\ r.begin <= end /\ r.begin < d.begin /\ d.begin <= r.end /\ r.end <= end
  <2>1. e = Loop(Append(d.es, low), d.free, d.begin, FALSE)
    BY <1>10, <1>17 DEF Outcome
  <2>a. d.begin = first
    BY <1>2, <1>5, <1>8, <1>17
  <2>2. Good(low) /\ low.begin = r.begin /\ low.end = first - 1 /\ low.tag = r.tag
    BY <1>9, <1>11, <1>17, <2>a
  <2>3. /\ e.es = Append(d.es, low) /\ e.free = d.free /\ e.begin = d.begin /\ ~e.over
        /\ e = Loop(e.es, e.free, e.begin, e.over) /\ e.over \in BOOLEAN
    BY <2>1 DEF Loop
  <2>4. Part(low, r) /\ Outside(low, first, end)
    BY <1>2, <1>9, <1>17, <2>a, <2>2 DEF Part, Outside
  <2>5. \A a \in Int : \A t : Holds(r, a, t) /\ ~Hole(a, first, end) => Holds(low, a, t)
    BY <1>2, <1>9, <1>17, <2>2 DEF Holds, Hole
  <2>6. PlaceInv(es, first, end, k + 1, e)
    BY <1>5, <2>a, <2>3 DEF PlaceInv
  <2>7. d.over => e.over
    BY <1>17
  <2> QED
    BY <2>2, <2>3, <2>4, <2>5, <2>6, <2>7, OnePart
<1>18. CASE ~d.over /\ r.begin <= end /\ r.begin < d.begin /\ d.begin <= r.end /\ end < r.end
  <2>a. d.begin = first
    BY <1>2, <1>5, <1>8, <1>18
  <2>2. Good(low) /\ low.begin = r.begin /\ low.end = first - 1 /\ low.tag = r.tag
    BY <1>9, <1>11, <1>18, <2>a
  <2>3. Good(high) /\ high.begin = end + 1 /\ high.end = r.end /\ high.tag = r.tag
    BY <1>12, <1>18
  <2>4. Part(low, r) /\ Outside(low, first, end)
    BY <1>2, <1>9, <1>18, <2>a, <2>2 DEF Part, Outside
  <2>5. Part(high, r) /\ Outside(high, first, end)
    BY <1>2, <1>9, <1>18, <2>3 DEF Part, Outside
  <2>6. d.free >= n
    BY <1>7, <1>18
  <2>7. \A j \in k + 2..Len(es) : end < es[j].begin
    BY <1>2, <1>3, <1>9, <1>18
  <2>l. PICK lows : lows = Append(d.es, low)
    OBVIOUS
  <2>8. Before(d.es, r.begin)
    BY <1>1, PartsBefore DEF RemoveInv
  <2>9. /\ PartsInv(es, first, end, k + 1, lows)
        /\ \A a, t : Covers(lows, a, t) <=> Covers(d.es, a, t) \/ Holds(low, a, t)
        /\ \A b : Before(d.es, b) /\ low.end < b => Before(lows, b)
    <3>l. PICK l : l = k + 1
      OBVIOUS
    <3>d. PICK ds : ds = d.es
      OBVIOUS
    <3>1. PartsInv(es, first, end, l, ds)
      BY <3>l, <3>d, PartsGrow DEF RemoveInv
    <3>2. TouchedByEarlier(es, l, ds, low)
      BY <3>l, <3>d, <1>1 DEF TouchedByEarlier, RemoveInv, PartsInv
    <3>3. Before(ds, low.begin)
      BY <2>2, <2>8, <3>d
    <3>4. l \in DOMAIN es /\ r = es[l] /\ lows = Append(ds, low)
      BY <2>l, <3>l, <3>d, <1>1
    <3>5. PartsInv(es, first, end, l, lows)
      BY <2>2, <2>4, <3>1, <3>2, <3>3, <3>4, AddPart, Zenon
    <3>6. \A a, t : Covers(lows, a, t) <=> Covers(ds, a, t) \/ Holds(low, a, t)
      BY <2>2, <2>4, <3>1, <3>2, <3>3, <3>4, AddPart, Zenon
    <3>7. \A b : Before(ds, b) /\ low.end < b => Before(lows, b)
      BY <2>2, <2>4, <3>1, <3>2, <3>3, <3>4, AddPart, Zenon
    <3> QED
      BY <3>l, <3>d, <3>5, <3>6, <3>7
  <2>10. Len(lows) = Len(d.es) + 1 /\ \A i \in DOMAIN lows : \/ i \in DOMAIN d.es /\ lows[i] = d.es[i]
                                                             \/ lows[i] = low
    <3>1. d.es \in Seq(RangeEntry) /\ low \in RangeEntry
      BY <2>2 DEF RemoveInv, PartsInv, Proper, Good
    <3> QED
      BY <2>l, <3>1, AppendIs
  <2>11. CASE d.free = 0
    <3>1. e = Loop(lows, 0, first, TRUE)
      BY <1>10, <1>18, <2>l, <2>a, <2>11 DEF Outcome
    <3>2. /\ e.es = lows /\ e.free = 0 /\ e.begin = first /\ e.over
          /\ e = Loop(e.es, e.free, e.begin, e.over) /\ e.over \in BOOLEAN
      BY <3>1 DEF Loop
    <3>3. n = 0
      BY <2>6, <2>11
    <3>4. CountInv(n, k + 1, e)
      BY <1>5, <2>10, <2>11, <3>2, <3>3 DEF CountInv
    <3>5. PlaceInv(es, first, end, k + 1, e)
      BY <1>4, <1>9, <2>7, <3>2 DEF PlaceInv
    <3>6. KeptInv(es, n, first, end, k + 1, e)
      BY <3>3 DEF KeptInv
    <3> QED
      BY <2>9, <3>2, <3>4, <3>5, <3>6 DEF RemoveInv
  <2>12. CASE d.free # 0
    <3>b. PICK both : both = Append(lows, high)
      OBVIOUS
    <3>1. e = Loop(both, d.free - 1, first, TRUE)
      BY <1>10, <1>18, <2>l, <3>b, <2>a, <2>12 DEF Outcome
    <3>2. /\ e.es = both /\ e.free = d.free - 1 /\ e.begin = first /\ e.over
          /\ e = Loop(e.es, e.free, e.begin, e.over) /\ e.over \in BOOLEAN
      BY <3>1 DEF Loop
    <3>3. \A i \in DOMAIN lows : lows[i].end \in Nat /\ lows[i].end + 1 < high.begin
      <4>1. low.end \in Nat /\ low.end + 1 < high.begin
        <5>1. low.end \in Nat
          BY <2>2, Fields DEF Good
        <5> QED
          BY <1>9, <2>2, <2>3, <5>1
      <4>2. \A i \in DOMAIN d.es : d.es[i].end \in Nat /\ d.es[i].end + 1 < high.begin
        <5>1. \A i \in DOMAIN d.es : d.es[i].end \in Nat /\ d.es[i].end < r.begin
          BY <2>8, Fields DEF Before, RemoveInv, PartsInv, Proper
        <5> QED
          BY <1>2, <1>9, <1>18, <2>3, <5>1
      <4> QED
        BY <2>10, <4>1, <4>2
    <3>4. TouchedByEarlier(es, k + 1, lows, high)
      BY <2>3, <1>9, <3>3 DEF TouchedByEarlier
    <3>5. Before(lows, high.begin)
      BY <2>3, <1>9, <3>3 DEF Before
    <3>6. /\ PartsInv(es, first, end, k + 1, both) /\ Len(both) = Len(lows) + 1
          /\ \A a, t : Covers(both, a, t) <=> Covers(lows, a, t) \/ Holds(high, a, t)
      <4>l. PICK l : l = k + 1
        OBVIOUS
      <4>1. PartsInv(es, first, end, l, lows) /\ TouchedByEarlier(es, l, lows, high)
        BY <4>l, <2>9, <3>4
      <4>2. l \in DOMAIN es /\ r = es[l]
        BY <4>l, <1>1
      <4>3. PartsInv(es, first, end, l, both)
        BY <3>b, <2>3, <2>5, <3>5, <4>1, <4>2, AddPart, Zenon
      <4>4. \A a, t : Covers(both, a, t) <=> Covers(lows, a, t) \/ Holds(high, a, t)
        BY <3>b, <2>3, <2>5, <3>5, <4>1, <4>2, AddPart, Zenon
      <4>5. lows \in Seq(RangeEntry) /\ high \in RangeEntry
        BY <2>3, <2>9 DEF PartsInv, Proper, Good
      <4>6. Len(both) = Len(lows) + 1
        BY <3>b, <4>5, AppendIs
      <4> QED
        BY <4>l, <4>3, <4>4, <4>6
    <3>7. CountInv(n, k + 1, e)
      <4>1. Len(e.es) = Len(d.es) + 2 /\ e.free = d.free - 1
        BY <1>5, <2>10, <3>2, <3>6
      <4>2. e.free \in Nat /\ Len(e.es) + e.free = n + (k + 1) /\ e.free + 1 >= n
        <5>p. PICK f : f = d.free
          OBVIOUS
        <5>q. PICK m : m = Len(d.es)
          OBVIOUS
        <5>1. f \in Nat /\ m \in Nat /\ m + f = n + k /\ f >= n /\ f # 0
          BY <1>5, <2>6, <2>12, <5>p, <5>q
        <5>2. f - 1 \in Nat /\ m + 2 + (f - 1) = n + (k + 1) /\ f - 1 + 1 >= n
          BY <5>1
        <5> QED
          BY <4>1, <5>2, <5>p, <5>q
      <4> QED
        BY <3>2, <4>2 DEF CountInv
    <3>8. PlaceInv(es, first, end, k + 1, e)
      BY <1>4, <1>9, <2>7, <3>2 DEF PlaceInv
    <3>9. KeptInv(es, n, first, end, k + 1, e)
      <4> SUFFICES ASSUME n > 0, NEW a \in Int, NEW t, CoveredBy(es, k + 1, a, t),
                          ~Hole(a, first, end)
                   PROVE  Covers(both, a, t)
        BY <3>2 DEF KeptInv
      <4>1. CoveredBy(es, k, a, t) \/ Holds(r, a, t)
        BY CoveredNext
      <4>2. CASE CoveredBy(es, k, a, t)
        BY <2>9, <3>6, <4>2 DEF RemoveInv, KeptInv
      <4>3. CASE Holds(r, a, t)
        <5>1. Holds(low, a, t) \/ Holds(high, a, t)
          BY <1>2, <1>9, <2>2, <2>3, <4>3 DEF Holds, Hole
        <5> QED
          BY <2>9, <3>6, <5>1
      <4> QED
        BY <4>1, <4>2, <4>3
    <3> QED
      BY <3>2, <3>6, <3>7, <3>8, <3>9 DEF RemoveInv
  <2> QED
    BY <2>11, <2>12
<1>19. \/ d.over \/ end < r.begin
       \/ ~d.over /\ r.begin <= end /\ d.begin > r.end
       \/ ~d.over /\ r.begin <= end /\ d.begin <= r.begin /\ r.end <= end
       \/ ~d.over /\ r.begin <= end /\ d.begin <= r.begin /\ end < r.end
       \/ ~d.over /\ r.begin <= end /\ r.begin < d.begin /\ d.begin <= r.end /\ r.end <= end
       \/ ~d.over /\ r.begin <= end /\ r.begin < d.begin /\ d.begin <= r.end /\ end < r.end
  <2>b. PICK b \in Nat : b = d.begin
    BY <1>5
  <2>1. \/ end < r.begin
        \/ r.begin <= end /\ b > r.end
        \/ r.begin <= end /\ b <= r.begin /\ r.end <= end
        \/ r.begin <= end /\ b <= r.begin /\ end < r.end
        \/ r.begin <= end /\ r.begin < b /\ b <= r.end /\ r.end <= end
        \/ r.begin <= end /\ r.begin < b /\ b <= r.end /\ end < r.end
    BY <1>2, <1>9
  <2> QED
    BY <2>b, <2>1, Zenon
<1> QED
  BY <1>13, <1>14, <1>15, <1>16, <1>17, <1>18, <1>19

(* No more than what was outside of the hole is left, and all of that when *)
(* one entry was free.                                                     *)
LEMMA Removed ==
    ASSUME NEW es, Proper(es), NEW n \in Nat, NEW first, NEW end, Aligned(first, end),
           NEW list, list = Remove(es, n, first, end)
    PROVE  /\ Proper(list.es) /\ (Apart(es) => Apart(list.es))
           /\ \A i \in DOMAIN list.es : Outside(list.es[i], first, end)
           /\ list.free \in Nat /\ Len(list.es) + list.free = n + Len(es) /\ list.free + 1 >= n
           /\ \A a \in Int : \A t : Covers(list.es, a, t) => Covers(es, a, t) /\ ~Hole(a, first, end)
           /\ n > 0 => \A a \in Int : \A t : Covers(es, a, t) /\ ~Hole(a, first, end)
                                        => Covers(list.es, a, t)
<1>0. es \in Seq(RangeEntry) /\ Len(es) \in Nat /\ DOMAIN es = 1..Len(es)
  BY DEF Proper
<1>m. PICK m : RunOf(m, es, n, first, end)
  BY <1>0, RemoveDefined
<1> DEFINE D == {k \in Nat : k <= Len(es) => RemoveInv(es, n, first, end, k, m[k])}
<1>1. /\ list = List(m[Len(es)].es, m[Len(es)].free)
      /\ m[0] = Loop(<<>>, n, first, FALSE)
      /\ \A k \in 0..Len(es) - 1 : m[k + 1] = RemoveFrom(m[k], es[k + 1], end)
  BY <1>m DEF RunOf
<1>2. 0 \in D
  BY <1>1, RemoveBegins
<1>3. ASSUME NEW k \in Nat, k \in D PROVE k + 1 \in D
  <2> SUFFICES ASSUME k + 1 <= Len(es) PROVE RemoveInv(es, n, first, end, k + 1, m[k + 1])
    OBVIOUS
  <2>1. k \in 0..Len(es) - 1 /\ k < Len(es) /\ RemoveInv(es, n, first, end, k, m[k])
    BY <1>0, <1>3
  <2> QED
    BY <1>1, <2>1, RemoveStep
<1>4. Len(es) \in D
  <2> HIDE DEF D
  <2> QED
    BY <1>0, <1>2, <1>3, Induct
<1>d. PICK d : d = m[Len(es)]
  OBVIOUS
<1>5. RemoveInv(es, n, first, end, Len(es), d)
  BY <1>0, <1>4, <1>d
<1>6. list.es = d.es /\ list.free = d.free
  BY <1>1, <1>d DEF List
<1>7. \A a, t : CoveredBy(es, Len(es), a, t) <=> Covers(es, a, t)
  BY <1>0, CoveredAll
<1>8. /\ Proper(list.es) /\ (Apart(es) => Apart(list.es))
      /\ \A i \in DOMAIN list.es : Outside(list.es[i], first, end)
  BY <1>5, <1>6 DEF RemoveInv, PartsInv
<1>9. list.free \in Nat /\ Len(list.es) + list.free = n + Len(es) /\ list.free + 1 >= n
  BY <1>5, <1>6 DEF RemoveInv, CountInv
<1>10. ASSUME NEW a \in Int, NEW t, Covers(list.es, a, t)
       PROVE  Covers(es, a, t) /\ ~Hole(a, first, end)
  <2>1. PICK i \in DOMAIN list.es : Holds(list.es[i], a, t)
    BY <1>10 DEF Covers
  <2>2. PICK j \in 1..Len(es) : Part(list.es[i], es[j])
    BY <1>5, <1>6 DEF RemoveInv, PartsInv
  <2>x. PICK x : x = list.es[i]
    OBVIOUS
  <2>r. PICK r : r = es[j]
    OBVIOUS
  <2>3. x \in RangeEntry /\ r \in RangeEntry
    BY <1>0, <1>8, <2>x, <2>r DEF Proper
  <2>4. Outside(x, first, end) /\ Part(x, r) /\ Holds(x, a, t)
    BY <1>8, <2>1, <2>2, <2>x, <2>r
  <2>5. /\ x.begin \in Nat /\ x.end \in Nat /\ r.begin \in Nat /\ r.end \in Nat
        /\ first \in Nat /\ end \in Nat
    BY <2>3, Fields DEF Aligned
  <2>6. Holds(r, a, t) /\ ~Hole(a, first, end)
    BY <2>4, <2>5 DEF Outside, Part, Holds, Hole
  <2> QED
    BY <1>0, <2>6, <2>r DEF Covers
<1>11. ASSUME n > 0, NEW a \in Int, NEW t, Covers(es, a, t), ~Hole(a, first, end)
       PROVE  Covers(list.es, a, t)
  BY <1>5, <1>6, <1>7, <1>11 DEF RemoveInv, KeptInv
<1> QED
  BY <1>8, <1>9, <1>10, <1>11

-----------------------------------------------------------------------------
(* merge_add_memranges().                                                  *)

(* One more entry between the first p and the others.                      *)
Spliced(new, es, r, p) == new = SubSeq(es, 1, p) \o <<r>> \o From(es, p + 1)

(* merge_add_memranges() puts the new entry where it belongs, provided that *)
(* no entry overlaps it.                                                    *)
GoesAt(es, r, p) ==
    /\ p \in 0..Len(es)
    /\ \A i \in 1..p : es[i].end < r.begin
    /\ \A i \in p + 1..Len(es) : r.end < es[i].begin

LEMMA Place ==
    ASSUME NEW es, Proper(es), NEW r, Good(r),
           \A i \in DOMAIN es : Outside(es[i], r.begin, r.end)
    PROVE  \E p : /\ Cardinality({k \in DOMAIN es : es[k].begin <= r.end}) = p
                  /\ GoesAt(es, r, p)
<1> DEFINE before == {k \in DOMAIN es : es[k].begin <= r.end}
<1>0. es \in Seq(RangeEntry) /\ Len(es) \in Nat /\ DOMAIN es = 1..Len(es)
  BY DEF Proper
<1>1. r.begin \in Nat /\ r.end \in Nat /\ r.begin <= r.end
  BY Fields DEF Good
<1>2. \A i \in 1..Len(es) : /\ es[i].begin \in Nat /\ es[i].end \in Nat
                            /\ es[i].begin <= es[i].end
                            /\ es[i].end < r.begin \/ es[i].begin > r.end
  BY <1>0, Fields DEF Proper, Good, Outside
<1>3. \A i, j \in 1..Len(es) : i < j => es[i].end < es[j].begin
  BY <1>0 DEF Proper, Sorted
<1>4. ASSUME NEW p \in 0..Len(es), \A i \in 1..p : es[i].begin <= r.end,
             \A i \in p + 1..Len(es) : es[i].begin > r.end
      PROVE  /\ Cardinality(before) = p
             /\ \A i \in 1..p : es[i].end < r.begin
             /\ \A i \in p + 1..Len(es) : r.end < es[i].begin
  <2>1. before = 1..p
    <3>1. ASSUME NEW i \in 1..Len(es) PROVE i \in 1..p <=> es[i].begin <= r.end
      <4>1. i \in 1..p \/ i \in p + 1..Len(es)
        BY <1>0
      <4>2. i \in 1..p => es[i].begin <= r.end
        BY <1>4
      <4>3. i \in p + 1..Len(es) => ~(es[i].begin <= r.end)
        BY <1>1, <1>2, <1>4
      <4> QED
        BY <4>1, <4>2, <4>3
    <3>2. 1..p \subseteq 1..Len(es)
      BY <1>0
    <3> QED
      BY <1>0, <3>1, <3>2
  <2>2. Cardinality(1..p) = p
    <3>1. 1 \in Int /\ p \in Int
      BY <1>0
    <3>2. Cardinality(1..p) = IF 1 > p THEN 0 ELSE p - 1 + 1
      BY <3>1, FS_Interval
    <3> QED
      BY <1>0, <3>2
  <2>3. ASSUME NEW i \in 1..p PROVE es[i].end < r.begin
    <3>1. i \in 1..Len(es) /\ es[i].begin <= r.end
      BY <1>0, <1>4
    <3> QED
      BY <1>1, <1>2, <3>1
  <2>4. ASSUME NEW i \in p + 1..Len(es) PROVE r.end < es[i].begin
    <3>1. i \in 1..Len(es) /\ es[i].begin > r.end
      BY <1>0, <1>4
    <3> QED
      BY <1>1, <1>2, <3>1
  <2> HIDE DEF before
  <2> QED
    BY <2>1, <2>2, <2>3, <2>4
<1> DEFINE behind == {k \in 1..Len(es) : es[k].begin > r.end}
<1>5. \E p \in 0..Len(es) : /\ \A i \in 1..p : es[i].begin <= r.end
                            /\ \A i \in p + 1..Len(es) : es[i].begin > r.end
  <2>1. CASE behind = {}
    <3>1. \A i \in 1..Len(es) : es[i].begin <= r.end
      BY <1>1, <1>2, <2>1
    <3>2. Len(es) \in 0..Len(es) /\ Len(es) + 1..Len(es) = {}
      BY <1>0
    <3> QED
      BY <3>1, <3>2
  <2>2. CASE behind # {}
    <3>1. behind \subseteq Nat
      BY <1>0
    <3>2. PICK m \in behind : \A k \in behind : m <= k
      BY <2>2, <3>1, Least
    <3>3. m \in 1..Len(es) /\ es[m].begin > r.end
      OBVIOUS
    <3>4. ASSUME NEW i \in 1..m - 1 PROVE es[i].begin <= r.end
      <4>1. i \in 1..Len(es) /\ ~(m <= i)
        BY <1>0, <3>3
      <4>2. i \notin behind
        BY <3>2, <4>1
      <4> QED
        BY <1>1, <1>2, <4>1, <4>2
    <3>5. ASSUME NEW i \in m - 1 + 1..Len(es) PROVE es[i].begin > r.end
      <4>1. i \in 1..Len(es) /\ (i = m \/ m < i)
        BY <1>0, <3>3
      <4>2. CASE i = m
        BY <3>3, <4>2
      <4>3. CASE m < i
        <5>1. es[m].end < es[i].begin
          BY <1>3, <3>3, <4>1, <4>3
        <5> QED
          BY <1>1, <1>2, <3>3, <4>1, <5>1
      <4> QED
        BY <4>1, <4>2, <4>3
    <3>6. m - 1 \in 0..Len(es)
      BY <1>0, <3>3
    <3> QED
      BY <3>4, <3>5, <3>6
  <2> QED
    BY <2>1, <2>2
<1>6. PICK p \in 0..Len(es) : /\ \A i \in 1..p : es[i].begin <= r.end
                             /\ \A i \in p + 1..Len(es) : es[i].begin > r.end
  BY <1>5
<1> QED
  BY <1>4, <1>6 DEF GoesAt

(* The entries go up one place behind the new one: a list apart from it    *)
(* stays in order.                                                         *)
LEMMA Inserting ==
    ASSUME NEW es, Proper(es), NEW r, Good(r), NEW p, GoesAt(es, r, p), NEW new, Spliced(new, es, r, p)
    PROVE  /\ Proper(new) /\ Len(new) = Len(es) + 1
           /\ \A a, t : Covers(new, a, t) <=> Covers(es, a, t) \/ Holds(r, a, t)
<1>0. /\ es \in Seq(RangeEntry) /\ Len(es) \in Nat /\ DOMAIN es = 1..Len(es) /\ p \in Nat
      /\ r \in RangeEntry /\ p \in 0..Len(es)
  BY DEF Proper, Good, GoesAt
<1>f. /\ \A i \in 1..p : es[i].end < r.begin
      /\ \A i \in p + 1..Len(es) : r.end < es[i].begin
  BY DEF GoesAt
<1>1. /\ new \in Seq(RangeEntry) /\ Len(new) = Len(es) + 1
      /\ \A i \in 1..p : new[i] = es[i]
      /\ new[p + 1] = r
      /\ \A i \in p + 2..Len(es) + 1 : new[i] = es[i - 1]
  <2>a. PICK low : low = SubSeq(es, 1, p)
    OBVIOUS
  <2>b. PICK high : high = SubSeq(es, p + 1, Len(es))
    OBVIOUS
  <2>c. PICK mid : mid = low \o <<r>>
    OBVIOUS
  <2>1. low \in Seq(RangeEntry) /\ Len(low) = p /\ \A i \in 1..p : low[i] = es[i]
    BY <1>0, <2>a
  <2>2. /\ high \in Seq(RangeEntry) /\ Len(high) = Len(es) - p
        /\ \A i \in 1..Len(es) - p : high[i] = es[i + p]
    <3>q. PICK q \in 1..Len(es) + 1 : q = p + 1
      BY <1>0
    <3>1. /\ high \in Seq(RangeEntry) /\ Len(high) = IF q <= Len(es) THEN Len(es) - q + 1 ELSE 0
          /\ \A i \in 1..Len(es) - q + 1 : high[i] = es[q + i - 1]
      <4>1. /\ es \in Seq(RangeEntry) /\ Len(es) \in Nat /\ q \in 1..Len(es) + 1
            /\ high = SubSeq(es, q, Len(es))
        BY <1>0, <2>b, <3>q
      <4>2. \A i \in q..Len(es) : es[i] \in RangeEntry
        BY <4>1
      <4> QED
        BY <4>1, <4>2, SubSeqProperties
    <3>2. Len(es) - q + 1 = Len(es) - p
      BY <1>0, <3>q
    <3>3. Len(high) = Len(es) - p
      <4>1. Len(high) = IF q <= Len(es) THEN Len(es) - q + 1 ELSE 0
        BY <3>1
      <4>2. PICK len \in Nat : len = Len(es)
        BY <1>0
      <4>3. p \in Nat /\ p <= len /\ q = p + 1
        BY <1>0, <4>2, <3>q
      <4>4. (IF q <= len THEN len - q + 1 ELSE 0) = len - p
        BY <4>3
      <4> QED
        BY <4>1, <4>2, <4>4
    <3>4. ASSUME NEW i \in 1..Len(es) - p PROVE high[i] = es[i + p]
      <4>1. i \in 1..Len(es) - q + 1 /\ q + i - 1 = i + p
        BY <1>0, <3>q
      <4> QED
        BY <3>1, <4>1
    <3> QED
      BY <3>1, <3>3, <3>4
  <2>3. /\ mid \in Seq(RangeEntry) /\ Len(mid) = p + 1
        /\ \A i \in 1..p : mid[i] = low[i]
        /\ mid[p + 1] = r
    BY <1>0, <2>1, <2>c
  <2>4. new = mid \o high
    BY <2>a, <2>b, <2>c DEF From, Spliced
  <2>5. /\ new \in Seq(RangeEntry) /\ Len(new) = Len(es) + 1
        /\ \A i \in 1..p + 1 : new[i] = mid[i]
        /\ \A i \in p + 2..Len(es) + 1 : new[i] = high[i - (p + 1)]
    <3>1. new \in Seq(RangeEntry) /\ Len(new) = Len(mid) + Len(high)
      BY <2>2, <2>3, <2>4, ConcatProperties
    <3>2. \A i \in 1..Len(mid) + Len(high) :
              new[i] = IF i <= Len(mid) THEN mid[i] ELSE high[i - Len(mid)]
      BY <2>2, <2>3, <2>4, ConcatProperties
    <3>3. Len(mid) + Len(high) = Len(es) + 1
      BY <1>0, <2>2, <2>3
    <3>4. \A i \in 1..p + 1 : i \in 1..Len(mid) + Len(high) /\ i <= Len(mid)
      BY <1>0, <2>3, <3>3
    <3>5. \A i \in p + 2..Len(es) + 1 : i \in 1..Len(mid) + Len(high) /\ ~(i <= Len(mid))
      BY <1>0, <2>3, <3>3
    <3>6. \A i \in p + 2..Len(es) + 1 : new[i] = high[i - (p + 1)]
      BY <2>3, <3>2, <3>5
    <3> QED
      BY <3>1, <3>2, <3>3, <3>4, <3>6
  <2>6. \A i \in 1..p : new[i] = es[i]
    BY <2>1, <2>3, <2>5
  <2>7. new[p + 1] = r
    <3>1. p + 1 \in 1..p + 1
      BY <1>0
    <3> QED
      BY <2>3, <2>5, <3>1
  <2>8. ASSUME NEW i \in p + 2..Len(es) + 1 PROVE new[i] = es[i - 1]
    <3>1. i - (p + 1) \in 1..Len(es) - p /\ i - (p + 1) + p = i - 1
      BY <1>0
    <3> QED
      BY <2>2, <2>5, <3>1
  <2> QED
    BY <2>5, <2>6, <2>7, <2>8
<1>2. DOMAIN new = 1..Len(es) + 1
  BY <1>1
<1>3. \A i \in DOMAIN new : \/ i \in 1..p /\ i \in 1..Len(es) /\ new[i] = es[i]
                            \/ i = p + 1 /\ new[i] = r
                            \/ i \in p + 2..Len(es) + 1 /\ i - 1 \in p + 1..Len(es)
                               /\ i - 1 \in 1..Len(es) /\ new[i] = es[i - 1]
  <2> SUFFICES ASSUME NEW i \in 1..Len(es) + 1
               PROVE  \/ i \in 1..p /\ i \in 1..Len(es) /\ new[i] = es[i]
                      \/ i = p + 1 /\ new[i] = r
                      \/ i \in p + 2..Len(es) + 1 /\ i - 1 \in p + 1..Len(es)
                         /\ i - 1 \in 1..Len(es) /\ new[i] = es[i - 1]
    BY <1>2
  <2>1. CASE i <= p
    <3>1. i \in 1..p /\ i \in 1..Len(es)
      BY <1>0, <2>1
    <3> QED
      BY <1>1, <3>1
  <2>2. CASE i = p + 1
    BY <1>1, <2>2
  <2>3. CASE i > p + 1
    <3>1. i \in p + 2..Len(es) + 1 /\ i - 1 \in p + 1..Len(es) /\ i - 1 \in 1..Len(es)
      BY <1>0, <2>3
    <3> QED
      BY <1>1, <3>1
  <2>4. i <= p \/ i = p + 1 \/ i > p + 1
    BY <1>0
  <2> QED
    BY <2>1, <2>2, <2>3, <2>4, Zenon
<1>4. \A i \in DOMAIN new : Good(new[i])
  BY <1>0, <1>3 DEF Proper
<1>5. \A i, j \in 1..Len(es) : i < j => es[i].end < es[j].begin
  BY <1>0 DEF Proper, Sorted
<1>6. Sorted(new)
  <2> SUFFICES ASSUME NEW i \in DOMAIN new, NEW j \in DOMAIN new, i < j
               PROVE  new[i].end < new[j].begin
    BY DEF Sorted
  <2>0. i \in Nat /\ j \in Nat
    BY <1>0, <1>2
  <2>1. CASE i \in 1..p /\ i \in 1..Len(es) /\ new[i] = es[i]
    <3>1. CASE j \in 1..p /\ j \in 1..Len(es) /\ new[j] = es[j]
      BY <1>5, <2>1, <3>1
    <3>2. CASE new[j] = r
      BY <1>f, <2>1, <3>2
    <3>3. CASE j - 1 \in p + 1..Len(es) /\ j - 1 \in 1..Len(es) /\ new[j] = es[j - 1]
      <4>1. i < j - 1
        BY <1>0, <2>0, <2>1, <3>3
      <4> QED
        BY <1>5, <2>1, <3>3, <4>1
    <3> QED
      BY <1>3, <3>1, <3>2, <3>3
  <2>2. CASE i = p + 1 /\ new[i] = r
    <3>1. j - 1 \in p + 1..Len(es) /\ new[j] = es[j - 1]
      <4>1. j \notin 1..p /\ j # p + 1
        BY <1>0, <2>0, <2>2
      <4> QED
        BY <1>3, <4>1, Zenon
    <3> QED
      BY <1>f, <2>2, <3>1
  <2>3. CASE i \in p + 2..Len(es) + 1 /\ i - 1 \in 1..Len(es) /\ new[i] = es[i - 1]
    <3>1. j - 1 \in 1..Len(es) /\ new[j] = es[j - 1] /\ i - 1 < j - 1
      BY <1>0, <1>3, <2>0, <2>3
    <3> QED
      BY <1>5, <2>3, <3>1
  <2> QED
    BY <1>3, <2>1, <2>2, <2>3
<1>7. ASSUME NEW a, NEW t
      PROVE  Covers(new, a, t) <=> Covers(es, a, t) \/ Holds(r, a, t)
  <2>1. ASSUME Covers(new, a, t) PROVE Covers(es, a, t) \/ Holds(r, a, t)
    <3>1. PICK i \in DOMAIN new : Holds(new[i], a, t)
      BY <2>1 DEF Covers
    <3> QED
      BY <1>0, <1>3, <3>1 DEF Covers
  <2>2. ASSUME Covers(es, a, t) PROVE Covers(new, a, t)
    <3>1. PICK i \in 1..Len(es) : Holds(es[i], a, t)
      BY <1>0, <2>2 DEF Covers
    <3>2. CASE i <= p
      <4>1. i \in 1..p /\ i \in DOMAIN new
        BY <1>0, <1>2, <3>2
      <4> QED
        BY <1>1, <3>1, <4>1 DEF Covers
    <3>3. CASE i > p
      <4>1. i + 1 \in p + 2..Len(es) + 1 /\ i + 1 \in DOMAIN new /\ i + 1 - 1 = i
        BY <1>0, <1>2, <3>3
      <4>2. new[i + 1] = es[i]
        BY <1>1, <4>1
      <4> QED
        BY <3>1, <4>1, <4>2 DEF Covers
    <3> QED
      BY <1>0, <3>2, <3>3
  <2>3. ASSUME Holds(r, a, t) PROVE Covers(new, a, t)
    <3>1. p + 1 \in DOMAIN new
      BY <1>0, <1>2
    <3> QED
      BY <1>1, <2>3, <3>1 DEF Covers
  <2> QED
    BY <2>1, <2>2, <2>3
<1> QED
  BY <1>1, <1>4, <1>6, <1>7 DEF Proper

LEMMA Added ==
    ASSUME NEW es, Proper(es), NEW n \in Nat, NEW r, Good(r),
           \A i \in DOMAIN es : Outside(es[i], r.begin, r.end),
           NEW list, list = Add(es, n, r)
    PROVE  /\ Proper(list.es)
           /\ list.free \in Nat /\ Len(list.es) + list.free = n + Len(es) /\ list.free + 1 >= n
           /\ \A a, t : Covers(list.es, a, t) => Covers(es, a, t) \/ Holds(r, a, t)
           /\ n > 0 => \A a, t : Covers(es, a, t) \/ Holds(r, a, t) => Covers(list.es, a, t)
<1>0. Len(es) \in Nat
  BY DEF Proper
<1>p. PICK p : /\ Cardinality({k \in DOMAIN es : es[k].begin <= r.end}) = p
               /\ GoesAt(es, r, p)
  BY Place
<1>1. CASE n = 0
  <2>1. list = List(es, 0)
    BY <1>1 DEF Add
  <2>2. list.es = es /\ list.free = 0
    BY <2>1 DEF List
  <2> QED
    BY <1>0, <1>1, <2>2
<1>2. CASE n # 0
  <2>n. PICK new : Spliced(new, es, r, p)
    BY DEF Spliced
  <2>1. list = List(new, n - 1)
    BY <1>2, <1>p, <2>n DEF Add, Spliced
  <2>2. list.es = new /\ list.free = n - 1
    BY <2>1 DEF List
  <2>3. /\ Proper(new) /\ Len(new) = Len(es) + 1
        /\ \A a, t : Covers(new, a, t) <=> Covers(es, a, t) \/ Holds(r, a, t)
    <3>1. Proper(new)
      BY <1>p, <2>n, Inserting, Zenon
    <3>2. Len(new) = Len(es) + 1
      BY <1>p, <2>n, Inserting, Zenon
    <3>3. \A a, t : Covers(new, a, t) <=> Covers(es, a, t) \/ Holds(r, a, t)
      BY <1>p, <2>n, Inserting, Zenon
    <3> QED
      BY <3>1, <3>2, <3>3
  <2>4. list.free \in Nat /\ Len(list.es) + list.free = n + Len(es) /\ list.free + 1 >= n
    BY <1>0, <1>2, <2>2, <2>3
  <2> QED
    BY <2>2, <2>3, <2>4
<1> QED
  BY <1>1, <1>2

(* An address has no more than one tag.                                    *)
LEMMA OneTag ==
    ASSUME NEW es, Proper(es), NEW a \in Int, NEW t, NEW u, Covers(es, a, t), Covers(es, a, u)
    PROVE  t = u
<1>1. PICK i \in DOMAIN es : Holds(es[i], a, t)
  BY DEF Covers
<1>2. PICK j \in DOMAIN es : Holds(es[j], a, u)
  BY DEF Covers
<1>3. /\ i \in Nat /\ j \in Nat
      /\ es[i].begin \in Nat /\ es[i].end \in Nat /\ es[j].begin \in Nat /\ es[j].end \in Nat
  BY Fields DEF Proper
<1>4. i < j => es[i].end < es[j].begin
  BY DEF Proper, Sorted
<1>5. j < i => es[j].end < es[i].begin
  BY DEF Proper, Sorted
<1>6. i = j
  BY <1>1, <1>2, <1>3, <1>4, <1>5 DEF Holds
<1> QED
  BY <1>1, <1>2, <1>6 DEF Holds

(* The range gets the tag, and the others keep theirs if two entries were  *)
(* free.                                                                   *)
Lists(list, total) ==
    /\ Proper(list.es) /\ Apart(list.es)
    /\ list.free \in Nat /\ Len(list.es) + list.free = total

LEMMA MergeAdded ==
    ASSUME NEW es, Proper(es), NEW n \in Nat, NEW r, Good(r),
           NEW list, list = MergeAdd(es, n, r)
    PROVE  /\ Lists(list, n + Len(es))
           /\ \A a \in Int : \A t : Covers(list.es, a, t) =>
                  \/ Covers(es, a, t) /\ ~Hole(a, r.begin, r.end)
                  \/ Holds(r, a, t)
           /\ n >= 2 => \A a \in Int : \A t :
                  \/ Covers(es, a, t) /\ ~Hole(a, r.begin, r.end)
                  \/ Holds(r, a, t)
                  => Covers(list.es, a, t)
<1>f. PICK first : first = r.begin
  OBVIOUS
<1>e. PICK end : end = r.end
  OBVIOUS
<1>1. Aligned(first, end) /\ Len(es) \in Nat
  BY <1>f, <1>e, Fields DEF Good, Aligned, Proper
<1>r. PICK removed : removed = Remove(es, n, first, end)
  OBVIOUS
<1>s. PICK es2 : es2 = removed.es
  OBVIOUS
<1>n. PICK n2 : n2 = removed.free
  OBVIOUS
<1>a. PICK added : added = Add(es2, n2, r)
  OBVIOUS
<1>2. list = MergeNeighbors(added.es, added.free)
  BY <1>f, <1>e, <1>r, <1>s, <1>n, <1>a DEF MergeAdd
<1>3. /\ Proper(es2)
      /\ \A i \in DOMAIN es2 : Outside(es2[i], first, end)
      /\ n2 \in Nat /\ Len(es2) + n2 = n + Len(es) /\ n2 + 1 >= n
      /\ \A a \in Int : \A t : Covers(es2, a, t) => Covers(es, a, t) /\ ~Hole(a, first, end)
      /\ n > 0 => \A a \in Int : \A t : Covers(es, a, t) /\ ~Hole(a, first, end)
                                   => Covers(es2, a, t)
  <2>1. /\ Proper(removed.es)
        /\ \A i \in DOMAIN removed.es : Outside(removed.es[i], first, end)
        /\ removed.free \in Nat /\ Len(removed.es) + removed.free = n + Len(es)
        /\ removed.free + 1 >= n
        /\ \A a \in Int : \A t :
              Covers(removed.es, a, t) => Covers(es, a, t) /\ ~Hole(a, first, end)
        /\ n > 0 => \A a \in Int : \A t : Covers(es, a, t) /\ ~Hole(a, first, end)
                                     => Covers(removed.es, a, t)
    BY <1>1, <1>r, Removed
  <2> QED
    BY <1>s, <1>n, <2>1
<1>4. \A i \in DOMAIN es2 : Outside(es2[i], r.begin, r.end)
  BY <1>3, <1>f, <1>e
<1>5. /\ Proper(added.es)
      /\ added.free \in Nat /\ Len(added.es) + added.free = n2 + Len(es2)
      /\ \A a, t : Covers(added.es, a, t) => Covers(es2, a, t) \/ Holds(r, a, t)
      /\ n2 > 0 => \A a, t : Covers(es2, a, t) \/ Holds(r, a, t) => Covers(added.es, a, t)
  BY <1>3, <1>4, <1>a, Added
<1>6. /\ Proper(list.es) /\ Apart(list.es)
      /\ list.free \in Nat /\ Len(list.es) + list.free = added.free + Len(added.es)
      /\ \A a \in Int : \A t : Covers(list.es, a, t) <=> Covers(added.es, a, t)
  BY <1>2, <1>5, Merged
<1>7. Lists(list, n + Len(es))
  <2>1. Len(list.es) + list.free = n + Len(es)
    <3>1. Len(es2) \in Nat /\ Len(added.es) \in Nat
      BY <1>3, <1>5 DEF Proper
    <3> QED
      BY <1>3, <1>5, <1>6, <3>1
  <2> QED
    BY <1>6, <2>1 DEF Lists
<1>8. ASSUME NEW a \in Int, NEW t, Covers(list.es, a, t)
      PROVE  (Covers(es, a, t) /\ ~Hole(a, first, end)) \/ Holds(r, a, t)
  BY <1>3, <1>5, <1>6, <1>8
<1>9. ASSUME n >= 2, NEW a \in Int, NEW t,
             (Covers(es, a, t) /\ ~Hole(a, first, end)) \/ Holds(r, a, t)
      PROVE  Covers(list.es, a, t)
  <2>1. n > 0 /\ n2 > 0
    BY <1>3, <1>9
  <2>2. Covers(es2, a, t) \/ Holds(r, a, t)
    BY <1>3, <1>9, <2>1
  <2>3. Covers(added.es, a, t)
    BY <1>5, <2>1, <2>2
  <2> QED
    BY <1>6, <2>3
<1> QED
  BY <1>7, <1>8, <1>9, <1>f, <1>e

-----------------------------------------------------------------------------
(* memranges_update_tag().                                                 *)
LEMMA Updated ==
    ASSUME NEW es, Proper(es), NEW n \in Nat, NEW old \in Tag, NEW new \in Tag,
           NEW list, list = Retagged(es, n, old, new)
    PROVE  /\ Lists(list, n + Len(es))
           /\ \A a \in Int : \A t : Covers(list.es, a, t) <=>
                  \/ Covers(es, a, old) /\ t = new
                  \/ Covers(es, a, t) /\ t # old
<1>s. PICK s : s = [k \in DOMAIN es |-> IF es[k].tag = old THEN [es[k] EXCEPT !.tag = new]
                                        ELSE es[k]]
  OBVIOUS
<1>0. es \in Seq(RangeEntry) /\ Len(es) \in Nat /\ DOMAIN es = 1..Len(es)
  BY DEF Proper
<1>1. ASSUME NEW k \in DOMAIN es
      PROVE  /\ s[k] \in RangeEntry /\ s[k].begin = es[k].begin /\ s[k].end = es[k].end
             /\ s[k].tag = IF es[k].tag = old THEN new ELSE es[k].tag
  <2>1. es[k] \in RangeEntry
    BY <1>0
  <2>2. s[k] = IF es[k].tag = old THEN [es[k] EXCEPT !.tag = new] ELSE es[k]
    BY <1>s
  <2> QED
    BY <2>1, <2>2 DEF RangeEntry
<1>2. DOMAIN s = 1..Len(es) /\ s \in Seq(RangeEntry) /\ Len(s) = Len(es)
  <2>1. s \in [1..Len(es) -> RangeEntry]
    BY <1>0, <1>1, <1>s
  <2> QED
    BY <1>0, <2>1
<1>3. Proper(s)
  <2>1. ASSUME NEW k \in DOMAIN s PROVE Good(s[k])
    BY <1>0, <1>1, <1>2 DEF Good, Proper
  <2>2. Sorted(s)
    BY <1>0, <1>1, <1>2 DEF Sorted, Proper
  <2> QED
    BY <1>2, <2>1, <2>2 DEF Proper
<1>4. list = MergeNeighbors(s, n)
  BY <1>s DEF Retagged
<1>5. /\ Lists(list, n + Len(es))
      /\ \A a \in Int : \A t : Covers(list.es, a, t) <=> Covers(s, a, t)
  BY <1>2, <1>3, <1>4, Merged DEF Lists
<1>6. ASSUME NEW a \in Int, NEW t
      PROVE  Covers(s, a, t) <=>
                (Covers(es, a, old) /\ t = new) \/ (Covers(es, a, t) /\ t # old)
  <2>1. \A k \in DOMAIN es :
            Holds(s[k], a, t) <=>
               (Holds(es[k], a, old) /\ t = new) \/ (Holds(es[k], a, t) /\ t # old)
    BY <1>1 DEF Holds
  <2>2. DOMAIN s = DOMAIN es
    BY <1>0, <1>2
  <2> QED
    BY <2>1, <2>2 DEF Covers
<1> QED
  BY <1>5, <1>6

-----------------------------------------------------------------------------
(* memranges_fill_holes_up_to().                                           *)

(* The loop ends, and what is done behind it.                              *)
Filling(g, es, n, limit, tag) ==
    [k \in 0..Len(es) |->
        IF k = 0 THEN List(<<>>, n) ELSE FillNext(g[k - 1], es, k, limit, tag)]

FillsFor(es, n, limit, tag) == CHOOSE g : g = Filling(g, es, n, limit, tag)

Rest(done, es, limit, tag) ==
    LET reached == es = <<>> \/ es[Len(es)].end + 1 >= limit
    IN IF reached \/ done.free = 0 THEN MergeNeighbors(done.es, done.free)
       ELSE MergeNeighbors(Append(done.es, Entry(es[Len(es)].end + 1, limit - 1, tag)),
                           done.free - 1)

Fills(m, es, n, limit, tag) ==
    /\ Filled(es, n, limit, tag) = Rest(m[Len(es)], es, limit, tag)
    /\ m[0] = List(<<>>, n)
    /\ \A k \in 0..Len(es) - 1 : m[k + 1] = FillNext(m[k], es, k + 1, limit, tag)

LEMMA FillDefined ==
    ASSUME NEW es, NEW n, NEW limit, NEW tag, Len(es) \in Nat
    PROVE  \E m : Fills(m, es, n, limit, tag)
<1> DEFINE F(g) == Filling(g, es, n, limit, tag)
           Built(g, k) == \A i \in 0..Len(es) : i <= k => g[i] = F(g)[i]
           D == {k \in Nat : \E g : Built(g, k)}
<1>1. 0 \in D
  <2> DEFINE g == [i \in {0} |-> List(<<>>, n)]
  <2>1. 0 \in 0..Len(es) /\ \A i \in 0..Len(es) : i <= 0 => i = 0
    OBVIOUS
  <2>2. g[0] = List(<<>>, n)
    OBVIOUS
  <2>3. F(g)[0] = List(<<>>, n)
    BY <2>1 DEF Filling
  <2>4. \A i \in 0..Len(es) : i <= 0 => g[i] = F(g)[i]
    BY <2>1, <2>2, <2>3
  <2> HIDE DEF g
  <2> QED
    BY <2>4
<1>2. ASSUME NEW k \in Nat, k \in D PROVE k + 1 \in D
  <2>1. PICK g : Built(g, k)
    BY <1>2
  <2> DEFINE h == F(g)
  <2>2. ASSUME NEW i \in 0..Len(es), i <= k + 1
        PROVE  h[i] = F(h)[i]
    <3>1. CASE i = 0
      BY <3>1 DEF Filling
    <3>2. CASE i # 0
      <4>1. i - 1 \in 0..Len(es) /\ i - 1 <= k
        BY <2>2, <3>2
      <4>2. h[i - 1] = g[i - 1]
        BY <2>1, <4>1
      <4> QED
        BY <3>2, <4>1, <4>2 DEF Filling
    <3> QED
      BY <3>1, <3>2
  <2> HIDE DEF h
  <2>3. Built(h, k + 1)
    BY <2>2
  <2> QED
    BY <2>3
<1>3. Len(es) \in D
  <2> HIDE DEF D
  <2> QED
    BY <1>1, <1>2, Induct
<1>4. PICK g : Built(g, Len(es))
  BY <1>3
<1> DEFINE h == F(g)
<1>5. h = F(h)
  <2>1. \A i \in 0..Len(es) : g[i] = h[i]
    BY <1>4
  <2>2. ASSUME NEW i \in 0..Len(es)
        PROVE  (IF i = 0 THEN List(<<>>, n) ELSE FillNext(g[i - 1], es, i, limit, tag))
                 = IF i = 0 THEN List(<<>>, n) ELSE FillNext(h[i - 1], es, i, limit, tag)
    <3>1. CASE i = 0
      BY <3>1
    <3>2. CASE i # 0
      <4>1. i - 1 \in 0..Len(es)
        BY <3>2
      <4>2. g[i - 1] = h[i - 1]
        BY <2>1, <4>1
      <4> QED
        BY <3>2, <4>2
    <3> QED
      BY <3>1, <3>2
  <2> QED
    BY <2>2 DEF Filling
<1> HIDE DEF h
<1> DEFINE m == FillsFor(es, n, limit, tag)
<1>6. m = Filling(m, es, n, limit, tag)
  BY <1>5 DEF FillsFor
<1>7. Filled(es, n, limit, tag) = Rest(m[Len(es)], es, limit, tag)
  BY DEF Filled, Rest, FillsFor, Filling
<1> HIDE DEF m
<1>8. m[0] = List(<<>>, n)
  BY <1>6 DEF Filling
<1>9. ASSUME NEW k \in 0..Len(es) - 1 PROVE m[k + 1] = FillNext(m[k], es, k + 1, limit, tag)
  <2>1. k + 1 \in 0..Len(es) /\ k + 1 # 0 /\ k + 1 - 1 = k
    OBVIOUS
  <2>2. m[k + 1] = Filling(m, es, n, limit, tag)[k + 1]
    BY <1>6
  <2> QED
    BY <2>1, <2>2 DEF Filling
<1> QED
  BY <1>7, <1>8, <1>9 DEF Fills

(* The addresses between the first k entries, below the limit.             *)
Gap(es, k, limit, a) ==
    a < limit /\ \E j \in 2..k : es[j - 1].end < a /\ a < es[j].begin

(* After k entries.                                                        *)
FillInv(es, n, limit, tag, k, d) ==
    /\ Proper(d.es) /\ d.free \in Nat /\ Len(d.es) + d.free = n + k
    /\ d.free + k >= n /\ (k > 0 => d.free + k > n)
    /\ k > 0 => \A i \in DOMAIN d.es : d.es[i].end <= es[k].end
    /\ k = 0 => d.es = <<>>
    /\ \A a \in Int : \A t : Covers(d.es, a, t) =>
            CoveredBy(es, k, a, t) \/ (t = tag /\ Gap(es, k, limit, a))
    /\ \A a \in Int : \A t : CoveredBy(es, k, a, t) => Covers(d.es, a, t)
    /\ n >= Len(es) => \A a \in Int : Gap(es, k, limit, a) => Covers(d.es, a, tag)

LEMMA FillBegins ==
    ASSUME NEW es, NEW n \in Nat, NEW limit, NEW tag, NEW d, d = List(<<>>, n)
    PROVE  FillInv(es, n, limit, tag, 0, d)
<1>1. d.es = <<>> /\ d.free = n
  BY DEF List
<1>2. \A a : ~Gap(es, 0, limit, a)
  BY 2..0 = {} DEF Gap
<1>3. Len(d.es) + d.free = n + 0 /\ d.free + 0 >= n
  BY <1>1, EmptyList
<1>4. \A a, t : ~Covers(d.es, a, t) /\ ~CoveredBy(es, 0, a, t)
  BY <1>1, EmptyList, CoveredNext
<1>5. Proper(d.es)
  BY <1>1, EmptyList
<1> QED
  BY <1>1, <1>2, <1>3, <1>4, <1>5 DEF FillInv

(* The addresses between an entry and the next.                            *)
InBetween(s, r, limit, a) == a < limit /\ s.end < a /\ a < r.begin

LEMMA GapNext ==
    ASSUME NEW es, NEW k \in Nat, NEW limit, NEW s, s = es[k], NEW r, r = es[k + 1]
    PROVE  \A a : Gap(es, k + 1, limit, a) <=>
                      Gap(es, k, limit, a) \/ (k > 0 /\ InBetween(s, r, limit, a))
<1>1. CASE k = 0
  <2>1. 2..k = {} /\ 2..k + 1 = {}
    BY <1>1
  <2> QED
    BY <1>1, <2>1 DEF Gap
<1>2. CASE k > 0
  <2>1. 2..k + 1 = (2..k) \cup {k + 1} /\ k + 1 - 1 = k
    BY <1>2
  <2> QED
    BY <1>2, <2>1 DEF Gap, InBetween
<1> QED
  BY <1>1, <1>2

IsHole(h, tag, s, r, limit) ==
    \A a \in Int : \A t : Holds(h, a, t) <=> t = tag /\ InBetween(s, r, limit, a)

(* The range that is put into a hole.                                      *)
LEMMA HoleIs ==
    ASSUME NEW limit \in Nat, limit <= Top, limit % Align = 0, NEW tag \in Tag,
           NEW s, Good(s), NEW r, Good(r), s.end < r.begin,
           s.end + 1 # r.begin, s.end < limit - 1,
           NEW h, h = Entry(s.end + 1, Min({r.begin, limit}) - 1, tag)
    PROVE  /\ Good(h) /\ h.begin = s.end + 1 /\ h.end < r.begin
           /\ IsHole(h, tag, s, r, limit)
<1>1. /\ s.end \in Nat /\ r.begin \in Nat /\ (s.end + 1) % Align = 0 /\ r.begin % Align = 0
      /\ r.begin < Top
  BY Fields DEF Good
<1>m. PICK m : m = Min({r.begin, limit})
  OBVIOUS
<1>2. m = (IF r.begin <= limit THEN r.begin ELSE limit)
  BY <1>1, <1>m, MaxMin
<1>3. m \in Nat /\ m % Align = 0 /\ m <= Top /\ m <= r.begin /\ m <= limit /\ s.end + 1 < m
  BY <1>1, <1>2, Numbers
<1>b. PICK b : b = s.end + 1
  OBVIOUS
<1>e. PICK e : e = m - 1
  OBVIOUS
<1>4. /\ b \in Nat /\ e \in Nat /\ b <= e /\ e < Top /\ b % Align = 0 /\ e + 1 = m
  BY <1>1, <1>3, <1>b, <1>e, Numbers
<1>5. h = Entry(b, e, tag)
  BY <1>b, <1>e, <1>m
<1>6. Good(h) /\ h.begin = b /\ h.end = e /\ h.tag = tag
  BY <1>3, <1>4, <1>5, EntryIs
<1>7. ASSUME NEW a \in Int, NEW t
      PROVE  Holds(h, a, t) <=> t = tag /\ InBetween(s, r, limit, a)
  <2>1. b <= a /\ a <= e <=> a < limit /\ s.end < a /\ a < r.begin
    BY <1>1, <1>2, <1>3, <1>4, <1>b, <1>e
  <2> QED
    BY <1>6, <2>1 DEF Holds, InBetween
<1>8. h.end < r.begin
  BY <1>1, <1>3, <1>4, <1>6
<1> QED
  BY <1>6, <1>7, <1>8, <1>b DEF IsHole

Widens(d, ds, gap, tag, s, r, limit) ==
    \A a \in Int : \A t : Covers(ds, a, t) <=>
        Covers(d.es, a, t) \/ (gap /\ t = tag /\ InBetween(s, r, limit, a))

Enough(es, n, gap, k, s, r, limit) ==
    n >= Len(es) /\ ~gap => \A a \in Int : k = 0 \/ ~InBetween(s, r, limit, a)

Counted(n, k, ds, e) ==
    /\ e.free \in Nat /\ Len(ds) + e.free = n + k
    /\ k = 0 => e.free = n
    /\ k > 0 => e.free + k >= n

(* Behind the last entry and what was put in front of it.                  *)
LEMMA FillGrows ==
    ASSUME NEW es, Proper(es), NEW n \in Nat, NEW limit \in Nat, NEW tag,
           NEW k \in Nat, k < Len(es), NEW d, FillInv(es, n, limit, tag, k, d),
           NEW s, s = es[k], NEW r, r = es[k + 1],
           NEW ds, Proper(ds), Before(ds, r.begin),
           NEW gap \in BOOLEAN, gap => k > 0, Widens(d, ds, gap, tag, s, r, limit),
           Enough(es, n, gap, k, s, r, limit),
           NEW e, e.es = Append(ds, r), Counted(n, k, ds, e)
    PROVE  FillInv(es, n, limit, tag, k + 1, e)
<1>0. es \in Seq(RangeEntry) /\ Len(es) \in Nat /\ k + 1 \in DOMAIN es
  BY DEF Proper
<1>1. Good(r) /\ r \in RangeEntry /\ r.begin \in Nat /\ r.end \in Nat /\ r.begin <= r.end
  BY <1>0, Fields DEF Proper, Good
<1>2. /\ Proper(e.es) /\ Len(e.es) = Len(ds) + 1
      /\ \A a, t : Covers(e.es, a, t) <=> Covers(ds, a, t) \/ Holds(r, a, t)
  BY <1>1, AppendOne
<1>3. e.free \in Nat /\ Len(e.es) + e.free = n + (k + 1)
  <2>1. Len(ds) \in Nat
    BY DEF Proper
  <2>f. PICK f \in Nat : f = e.free
    BY DEF Counted
  <2>m. PICK m \in Nat : m = Len(ds)
    BY <2>1
  <2>2. Len(e.es) = m + 1 /\ m + f = n + k
    BY <1>2, <2>f, <2>m DEF Counted
  <2>3. m + 1 + f = n + (k + 1)
    BY <2>2
  <2> QED
    BY <2>2, <2>3, <2>f
<1>4. e.free + (k + 1) >= n /\ e.free + (k + 1) > n
  BY <1>3 DEF Counted
<1>5. \A i \in DOMAIN e.es : e.es[i].end <= r.end
  <2>1. ds \in Seq(RangeEntry)
    BY DEF Proper
  <2>2. \A i \in DOMAIN e.es : \/ i \in DOMAIN ds /\ e.es[i] = ds[i]
                               \/ e.es[i] = r
    BY <1>1, <2>1, AppendIs
  <2>3. \A i \in DOMAIN ds : ds[i].end \in Nat /\ ds[i].end < r.begin
    BY <2>1, Fields DEF Before
  <2>4. \A i \in DOMAIN ds : ds[i].end <= r.end
    BY <1>1, <2>3
  <2>5. r.end <= r.end
    BY <1>1
  <2> QED
    BY <2>2, <2>4, <2>5, Zenon
<1>g. \A a : Gap(es, k + 1, limit, a) <=>
                Gap(es, k, limit, a) \/ (k > 0 /\ InBetween(s, r, limit, a))
  BY GapNext
<1>c. \A a, t : CoveredBy(es, k + 1, a, t) <=> CoveredBy(es, k, a, t) \/ Holds(r, a, t)
  BY CoveredNext
<1>d. /\ \A a \in Int : \A t : Covers(d.es, a, t) =>
             CoveredBy(es, k, a, t) \/ (t = tag /\ Gap(es, k, limit, a))
      /\ \A a \in Int : \A t : CoveredBy(es, k, a, t) => Covers(d.es, a, t)
      /\ n >= Len(es) => \A a \in Int : Gap(es, k, limit, a) => Covers(d.es, a, tag)
  BY DEF FillInv
<1>6. ASSUME NEW a \in Int, NEW t, Covers(e.es, a, t)
      PROVE  CoveredBy(es, k + 1, a, t) \/ (t = tag /\ Gap(es, k + 1, limit, a))
  <2>1. Covers(ds, a, t) \/ Holds(r, a, t)
    BY <1>2, <1>6
  <2>2. CASE Covers(ds, a, t)
    <3>1. Covers(d.es, a, t) \/ (gap /\ t = tag /\ InBetween(s, r, limit, a))
      BY <2>2 DEF Widens
    <3> QED
      BY <1>g, <1>c, <1>d, <3>1
  <2>3. CASE Holds(r, a, t)
    BY <1>c, <2>3
  <2> QED
    BY <2>1, <2>2, <2>3
<1>7. ASSUME NEW a \in Int, NEW t, CoveredBy(es, k + 1, a, t)
      PROVE  Covers(e.es, a, t)
  <2>1. CoveredBy(es, k, a, t) \/ Holds(r, a, t)
    BY <1>c, <1>7
  <2>2. CoveredBy(es, k, a, t) => Covers(ds, a, t)
    BY <1>d DEF Widens
  <2> QED
    BY <1>2, <2>1, <2>2
<1>8. ASSUME n >= Len(es), NEW a \in Int, Gap(es, k + 1, limit, a)
      PROVE  Covers(e.es, a, tag)
  <2>1. Gap(es, k, limit, a) \/ (k > 0 /\ InBetween(s, r, limit, a))
    BY <1>g, <1>8
  <2>2. CASE Gap(es, k, limit, a)
    BY <1>2, <1>d, <1>8, <2>2 DEF Widens
  <2>3. CASE k > 0 /\ InBetween(s, r, limit, a)
    <3>1. gap
      BY <1>8, <2>3 DEF Enough
    <3>2. Covers(ds, a, tag)
      BY <2>3, <3>1 DEF Widens
    <3> QED
      BY <1>2, <3>2
  <2> QED
    BY <2>1, <2>2, <2>3
<1> QED
  <2>1. k + 1 # 0
    OBVIOUS
  <2> QED
    BY <1>2, <1>3, <1>4, <1>5, <1>6, <1>7, <1>8, <2>1 DEF FillInv

LEMMA FillStep ==
    ASSUME NEW es, Proper(es), NEW n \in Nat,
           NEW limit \in Nat, limit <= Top, limit % Align = 0, NEW tag \in Tag,
           NEW k \in Nat, k < Len(es), FillsBefore(es, k + 1, limit) => es[k].end < limit - 1,
           NEW d, FillInv(es, n, limit, tag, k, d),
           NEW e, e = FillNext(d, es, k + 1, limit, tag)
    PROVE  FillInv(es, n, limit, tag, k + 1, e)
<1>s. PICK s : s = es[k]
  OBVIOUS
<1>r. PICK r : r = es[k + 1]
  OBVIOUS
<1>f. PICK f : f = d.free
  OBVIOUS
<1>m. PICK m : m = Len(d.es)
  OBVIOUS
<1>0. /\ es \in Seq(RangeEntry) /\ Len(es) \in Nat /\ k + 1 \in DOMAIN es /\ k + 1 - 1 = k
      /\ DOMAIN es = 1..Len(es)
  BY DEF Proper
<1>1. Good(r) /\ r.begin \in Nat /\ r.end \in Nat /\ r.begin <= r.end
  BY <1>0, <1>r, Fields DEF Proper, Good
<1>2. k > 0 => Good(s) /\ s.begin \in Nat /\ s.end \in Nat /\ s.begin <= s.end /\ s.end < r.begin
  <2>1. k > 0 => k \in DOMAIN es /\ k < k + 1
    BY <1>0
  <2>2. k > 0 => Good(s) /\ s \in RangeEntry
    BY <1>s, <2>1 DEF Proper, Good
  <2>3. k > 0 => s.end < r.begin
    BY <1>0, <1>s, <1>r, <2>1 DEF Proper, Sorted
  <2> QED
    BY <2>2, <2>3, Fields DEF Good
<1>3. /\ f \in Nat /\ m \in Nat /\ m + f = n + k /\ f + k >= n /\ (k > 0 => f + k > n)
      /\ (k = 0 => m = 0)
  <2>1. /\ Proper(d.es) /\ d.free \in Nat /\ Len(d.es) + d.free = n + k
        /\ d.free + k >= n /\ (k > 0 => d.free + k > n) /\ (k = 0 => d.es = <<>>)
    BY DEF FillInv
  <2>2. Len(d.es) \in Nat
    BY <2>1 DEF Proper
  <2> QED
    BY <1>f, <1>m, <2>1, <2>2, EmptyList
<1>4. Proper(d.es) /\ Before(d.es, r.begin)
  <2>1. Proper(d.es) /\ (k = 0 => d.es = <<>>) /\ (k > 0 => \A i \in DOMAIN d.es : d.es[i].end <= s.end)
    BY <1>s DEF FillInv
  <2>2. \A i \in DOMAIN d.es : d.es[i].end \in Nat
    BY <2>1, Fields DEF Proper
  <2>3. k = 0 => Before(d.es, r.begin)
    BY <2>1, EmptyList
  <2>4. k > 0 => Before(d.es, r.begin)
    BY <1>1, <1>2, <2>1, <2>2 DEF Before
  <2> QED
    BY <2>1, <2>3, <2>4
<1> DEFINE before == FillsBefore(es, k + 1, limit)
<1>5. before <=> k + 1 > 1 /\ s.end + 1 # r.begin /\ (k + 1 = 2 \/ s.begin < limit)
  BY <1>0, <1>s, <1>r DEF FillsBefore, HoleBefore
<1>6. ASSUME k > 0, before
      PROVE  s.end < limit - 1
  <2>1. es[k].end < limit - 1
    BY <1>6
  <2> QED
    BY <1>s, <2>1
<1> HIDE DEF before
<1>7. ASSUME ~before, k > 0, NEW a \in Int PROVE ~InBetween(s, r, limit, a)
  BY <1>1, <1>2, <1>5, <1>7 DEF InBetween
<1>8. CASE ~(before /\ f > 0)
  <2>1. e = List(Append(d.es, r), f)
    BY <1>8, <1>r, <1>f DEF FillNext, before
  <2>2. e.es = Append(d.es, r) /\ e.free = f
    BY <2>1 DEF List
  <2>3. ASSUME n >= Len(es), k > 0 PROVE ~before
    BY <1>0, <1>3, <1>8, <2>3
  <2>4. Enough(es, n, FALSE, k, s, r, limit)
    BY <1>7, <2>3 DEF Enough
  <2>5. k = 0 => f = n
    BY <1>3
  <2>6. k > 0 => f + k >= n
    BY <1>3
  <2>7. Counted(n, k, d.es, e)
    BY <1>3, <1>m, <2>2, <2>5, <2>6 DEF Counted
  <2>8. Widens(d, d.es, FALSE, tag, s, r, limit)
    BY DEF Widens
  <2>9. FALSE \in BOOLEAN /\ (FALSE => k > 0)
    OBVIOUS
  <2> QED
    BY <1>4, <1>s, <1>r, <2>2, <2>4, <2>7, <2>8, <2>9, FillGrows
<1>9. CASE before /\ f > 0
  <2>0. k > 0
    BY <1>5, <1>9
  <2>h. PICK h : h = Entry(s.end + 1, HoleEnd(es, k + 1, limit), tag)
    OBVIOUS
  <2>d. PICK ds : ds = Append(d.es, h)
    OBVIOUS
  <2>1. e = List(Append(ds, r), f - 1)
    BY <1>0, <1>9, <1>s, <1>r, <1>f, <2>h, <2>d DEF FillNext, before
  <2>2. e.es = Append(ds, r) /\ e.free = f - 1
    BY <2>1 DEF List
  <2>3. s.end + 1 # r.begin /\ s.end < limit - 1
    BY <1>5, <1>6, <1>9, <2>0
  <2>4. /\ Good(h) /\ h.begin = s.end + 1 /\ h.end < r.begin
        /\ \A a \in Int : \A t : Holds(h, a, t) <=> t = tag /\ InBetween(s, r, limit, a)
    <3>1. h = Entry(s.end + 1, Min({r.begin, limit}) - 1, tag)
      BY <1>r, <2>h DEF HoleEnd
    <3>2. Good(s) /\ Good(r) /\ s.end < r.begin
      BY <1>1, <1>2, <2>0
    <3>3. Good(h) /\ h.begin = s.end + 1 /\ h.end < r.begin
      BY <2>3, <3>1, <3>2, HoleIs
    <3>4. IsHole(h, tag, s, r, limit)
      BY <2>3, <3>1, <3>2, HoleIs
    <3> QED
      BY <3>3, <3>4 DEF IsHole
  <2>5. Before(d.es, h.begin)
    <3>1. \A i \in DOMAIN d.es : d.es[i].end <= s.end /\ d.es[i].end \in Nat
      BY <1>4, <1>s, <2>0, Fields DEF FillInv, Proper
    <3> QED
      BY <1>2, <2>0, <2>4, <3>1 DEF Before
  <2>6. /\ Proper(ds) /\ Len(ds) = m + 1
        /\ \A a, t : Covers(ds, a, t) <=> Covers(d.es, a, t) \/ Holds(h, a, t)
        /\ Before(ds, r.begin)
    BY <1>4, <1>m, <2>4, <2>5, <2>d, AppendOne
  <2>7. Widens(d, ds, TRUE, tag, s, r, limit)
    BY <2>4, <2>6 DEF Widens
  <2>8. Counted(n, k, ds, e)
    <3>1. e.free \in Nat /\ Len(ds) + e.free = n + k /\ e.free + k >= n
      BY <1>3, <1>9, <2>0, <2>2, <2>6, SMTT(30)
    <3> QED
      BY <2>0, <3>1 DEF Counted
  <2>9. Enough(es, n, TRUE, k, s, r, limit)
    BY DEF Enough
  <2> QED
    BY <1>s, <1>r, <2>0, <2>2, <2>6, <2>7, <2>8, <2>9, FillGrows
<1> QED
  BY <1>8, <1>9

(* Behind an entry of the tag that ends at the limit an empty range is     *)
(* added; without it the invariant goes on.                                *)
LEMMA FillStepAtLimit ==
    ASSUME NEW es, Proper(es), NEW n \in Nat, NEW limit \in Nat, NEW tag \in Tag,
           NEW k \in Nat, k < Len(es), k > 0, NEW d, FillInv(es, n, limit, tag, k, d),
           FillsBefore(es, k + 1, limit), d.free > 0,
           NEW s, s = es[k], s.end = limit - 1, s.tag = tag, NEW r, r = es[k + 1],
           NEW e, e = FillNext(d, es, k + 1, limit, tag),
           NEW small, small = List(Append(d.es, r), d.free)
    PROVE  /\ FillInv(es, n, limit, tag, k + 1, small)
           /\ Swallowed(e, small) /\ r.begin >= limit
<1>f. PICK f : f = d.free
  OBVIOUS
<1>x. PICK xs, m : xs = d.es /\ m = Len(xs)
  OBVIOUS
<1>0. /\ es \in Seq(RangeEntry) /\ Len(es) \in Nat /\ k \in DOMAIN es /\ k + 1 \in DOMAIN es
      /\ k + 1 - 1 = k /\ k < k + 1
  BY DEF Proper
<1>1. /\ Good(r) /\ r.begin \in Nat /\ r.begin < Top
      /\ s.begin \in Nat /\ s.end \in Nat /\ s.begin <= s.end /\ s.end < r.begin
  <2>1. Good(r) /\ Good(s) /\ s.end < r.begin
    BY <1>0 DEF Proper, Sorted
  <2> QED
    BY <2>1, Fields DEF Good
<1>2. r.begin >= limit /\ limit < Top
  BY <1>1, Numbers
<1>3. /\ Proper(xs) /\ xs \in Seq(RangeEntry) /\ m \in Nat /\ DOMAIN xs = 1..m
      /\ f \in Nat /\ f > 0 /\ m + f = n + k /\ f + k >= n
      /\ \A i \in 1..m : xs[i].end <= s.end
      /\ \A i \in 1..m : xs[i].begin \in Nat /\ xs[i].end \in Nat /\ xs[i].begin <= xs[i].end
  <2>1. /\ Proper(xs) /\ f \in Nat /\ m + f = n + k /\ f + k >= n
        /\ \A i \in DOMAIN xs : xs[i].end <= s.end
    BY <1>f, <1>x DEF FillInv
  <2>2. xs \in Seq(RangeEntry) /\ m \in Nat /\ DOMAIN xs = 1..m
    BY <1>x, <2>1 DEF Proper
  <2>3. \A i \in 1..m : xs[i].begin \in Nat /\ xs[i].end \in Nat /\ xs[i].begin <= xs[i].end
    BY <2>1, <2>2, Fields DEF Proper, Good
  <2> QED
    BY <1>f, <2>1, <2>2, <2>3
<1>4. small.es = Append(xs, r) /\ small.free = f
  BY <1>f, <1>x DEF List
<1>5. FillInv(es, n, limit, tag, k + 1, small)
  <2>1. Before(xs, r.begin)
    <3>1. ASSUME NEW i \in 1..m PROVE xs[i].end < r.begin
      <4>1. PICK x, y, z \in Nat : x = xs[i].end /\ y = s.end /\ z = r.begin
        BY <1>1, <1>3
      <4>2. x <= y /\ y < z
        BY <1>1, <1>3, <4>1
      <4>3. x < z
        BY <4>2
      <4> QED
        BY <4>1, <4>3
    <3> QED
      BY <1>3, <3>1 DEF Before
  <2>2. Widens(d, xs, FALSE, tag, s, r, limit)
    BY <1>x DEF Widens
  <2>3. Enough(es, n, FALSE, k, s, r, limit)
    <3>1. ASSUME NEW a \in Int PROVE ~InBetween(s, r, limit, a)
      BY <1>1 DEF InBetween
    <3> QED
      BY <3>1 DEF Enough
  <2>4. Counted(n, k, xs, small)
    BY <1>3, <1>4, <1>x DEF Counted
  <2>5. FALSE \in BOOLEAN /\ (FALSE => k > 0)
    OBVIOUS
  <2> QED
    BY <1>3, <1>4, <2>1, <2>2, <2>3, <2>4, <2>5, FillGrows
<1>6. m > 0 /\ xs[m].end = s.end /\ xs[m].tag = tag
  <2>1. Holds(es[k], s.end, tag) /\ k \in 1..k
    BY <1>1 DEF Holds
  <2>2. CoveredBy(es, k, s.end, tag) /\ s.end \in Int
    BY <1>1, <2>1 DEF CoveredBy
  <2>3. Covers(xs, s.end, tag)
    BY <1>x, <2>2 DEF FillInv
  <2>4. PICK i \in 1..m : xs[i].begin <= s.end /\ s.end <= xs[i].end /\ xs[i].tag = tag
    BY <1>3, <2>3 DEF Covers, Holds
  <2>5. i = m
    <3>1. m \in 1..m /\ m \in DOMAIN xs /\ i \in DOMAIN xs /\ (i = m \/ i < m)
      BY <1>3
    <3>2. i < m => xs[i].end < xs[m].begin
      BY <1>3, <3>1 DEF Proper, Sorted
    <3>n. PICK x, y, z, u \in Nat : x = xs[i].end /\ y = xs[m].begin /\ z = xs[m].end /\ u = s.end
      BY <1>1, <1>3, <3>1
    <3>3. y <= z /\ z <= u /\ u <= x
      BY <1>3, <2>4, <3>1, <3>n
    <3>4. ~(i < m)
      <4>1. y <= x
        BY <3>3
      <4>2. i < m => x < y
        BY <3>2, <3>n
      <4> QED
        BY <4>1, <4>2
    <3> QED
      BY <3>1, <3>4
  <2>6. m > 0 /\ m \in 1..m
    BY <1>3, <2>5
  <2>7. xs[m].end <= s.end /\ s.end <= xs[m].end /\ xs[m].tag = tag
    BY <1>3, <2>4, <2>5, <2>6
  <2>8. xs[m].end = s.end
    <3>1. PICK x \in Nat : x = xs[m].end
      BY <1>3, <2>6
    <3>2. PICK y \in Nat : y = s.end
      BY <1>1
    <3>3. x <= y /\ y <= x
      BY <2>7, <3>1, <3>2
    <3>4. x = y
      BY <3>3
    <3> QED
      BY <3>1, <3>2, <3>4
  <2> QED
    BY <2>6, <2>7, <2>8
<1>h. PICK h : h = Entry(limit, limit - 1, tag)
  OBVIOUS
<1>7. h \in RangeEntry /\ h.begin = xs[m].end + 1 /\ h.end = xs[m].end /\ h.tag = xs[m].tag
  <2>1. limit \in Address /\ limit - 1 \in Address
    BY <1>1, <1>2, Numbers DEF Address
  <2>2. h \in RangeEntry /\ h.begin = limit /\ h.end = limit - 1 /\ h.tag = tag
    BY <1>h, <2>1 DEF Entry, RangeEntry
  <2> QED
    BY <1>1, <1>6, <2>2
<1>y. PICK ys, zs : ys = Append(xs, h) /\ zs = Append(ys, r)
  OBVIOUS
<1>8. e.es = zs /\ e.free = f - 1
  <2>b. PICK b \in Nat : b = r.begin
    BY <1>1
  <2>m. PICK c : c = Min({b, limit})
    OBVIOUS
  <2>0. c = (IF b <= limit THEN b ELSE limit)
    BY <2>m, MaxMin
  <2>n. c = limit
    <3>1. b >= limit
      BY <1>2, <2>b
    <3> QED
      BY <2>0, <3>1
  <2>1. Min({r.begin, limit}) = limit
    BY <2>b, <2>m, <2>n
  <2>2. Entry(es[k].end + 1, HoleEnd(es, k + 1, limit), tag) = h
    <3>1. es[k].end + 1 = limit
      BY <1>1
    <3>2. HoleEnd(es, k + 1, limit) = limit - 1
      BY <2>1 DEF HoleEnd
    <3> QED
      BY <1>h, <3>1, <3>2
  <2>3. e = List(zs, f - 1)
    BY <1>0, <1>f, <1>x, <1>y, <2>2 DEF FillNext
  <2> QED
    BY <2>3 DEF List
<1>9. /\ zs \in Seq(RangeEntry) /\ Len(zs) = m + 1 + 1 /\ zs[m + 1 + 1] = r /\ zs[m + 1] = h
      /\ \A i \in 1..m : zs[i] = xs[i]
  <2>1. ys \in Seq(RangeEntry) /\ Len(ys) = m + 1 /\ ys[m + 1] = h /\ \A i \in 1..m : ys[i] = xs[i]
    BY <1>3, <1>7, <1>x, <1>y
  <2>2. r \in RangeEntry
    BY <1>1 DEF Good
  <2>3. zs \in Seq(RangeEntry) /\ Len(zs) = m + 1 + 1 /\ zs[m + 1 + 1] = r
    <3>1. zs \in Seq(RangeEntry) /\ Len(zs) = Len(ys) + 1 /\ zs[Len(ys) + 1] = r
      BY <1>y, <2>1, <2>2
    <3> QED
      BY <2>1, <3>1
  <2>4. \A i \in 1..m + 1 : zs[i] = ys[i]
    BY <1>3, <1>y, <2>1, <2>2
  <2>5. zs[m + 1] = h
    BY <1>3, <2>1, <2>4
  <2>6. ASSUME NEW i \in 1..m PROVE zs[i] = xs[i]
    <3>1. i \in 1..m + 1
      BY <1>3
    <3> QED
      BY <2>1, <2>4, <3>1
  <2> QED
    BY <2>3, <2>5, <2>6
<1>10. /\ Len(small.es) = m + 1 /\ small.es[m + 1] = r
       /\ \A i \in 1..m : small.es[i] = xs[i]
  <2>1. r \in RangeEntry
    BY <1>1 DEF Good
  <2> QED
    BY <1>3, <1>4, <1>x, <2>1
<1>11. SwallowedAt(e, small, m)
  <2>1. \A i \in m + 1..m + 1 : zs[i + 1] = small.es[i]
    BY <1>3, <1>9, <1>10
  <2>2. f - 1 \in Nat /\ f = f - 1 + 1
    BY <1>3
  <2>3. small.es[m] = xs[m]
    BY <1>3, <1>6, <1>10
  <2> QED
    BY <1>4, <1>7, <1>8, <1>9, <1>10, <2>1, <2>2, <2>3 DEF SwallowedAt
<1> QED
  <2>1. m \in 1..m + 1
    BY <1>3, <1>6
  <2> QED
    BY <1>2, <1>5, <1>10, <1>11, <2>1 DEF Swallowed

(* Entries behind an empty range that is to be merged away.                *)
LEMMA SwallowedGrows ==
    ASSUME NEW big, NEW small, Proper(small.es), Swallowed(big, small), NEW r \in RangeEntry,
           NEW new, new = List(Append(big.es, r), big.free),
           NEW less, less = List(Append(small.es, r), small.free)
    PROVE  Swallowed(new, less)
<1>p. PICK p \in 1..Len(small.es) : SwallowedAt(big, small, p)
  BY DEF Swallowed
<1>x. PICK xs, ys, m : xs = small.es /\ ys = big.es /\ m = Len(xs)
  OBVIOUS
<1>0. /\ xs \in Seq(RangeEntry) /\ ys \in Seq(RangeEntry) /\ m \in Nat /\ Len(ys) = m + 1
      /\ p \in 1..m
  BY <1>p, <1>x DEF Proper, SwallowedAt
<1>1. /\ \A i \in 1..p : ys[i] = xs[i]
      /\ ys[p + 1].begin = xs[p].end + 1 /\ ys[p + 1].end = xs[p].end
      /\ ys[p + 1].tag = xs[p].tag
      /\ \A i \in p + 1..m : ys[i + 1] = xs[i]
      /\ big.free \in Nat /\ small.free = big.free + 1
  BY <1>p, <1>x DEF SwallowedAt
<1>y. PICK vs, ws : vs = Append(xs, r) /\ ws = Append(ys, r)
  OBVIOUS
<1>2. /\ Len(vs) = m + 1 /\ vs[m + 1] = r /\ \A i \in 1..m : vs[i] = xs[i]
      /\ ws \in Seq(RangeEntry) /\ Len(ws) = m + 1 + 1 /\ ws[m + 1 + 1] = r
      /\ \A i \in 1..m + 1 : ws[i] = ys[i]
  BY <1>0, <1>x, <1>y
<1>3. new.es = ws /\ new.free = big.free /\ less.es = vs /\ less.free = small.free
  BY <1>x, <1>y DEF List
<1>4. \A i \in 1..p : ws[i] = vs[i]
  BY <1>0, <1>1, <1>2
<1>5. ws[p + 1] = ys[p + 1] /\ vs[p] = xs[p]
  BY <1>0, <1>2
<1>6. ASSUME NEW i \in p + 1..m + 1 PROVE ws[i + 1] = vs[i]
  <2>1. CASE i = m + 1
    BY <1>2, <2>1
  <2>2. CASE i # m + 1
    <3>1. i \in p + 1..m /\ i \in 1..m /\ i + 1 \in 1..m + 1
      BY <1>0, <2>2
    <3> QED
      BY <1>1, <1>2, <3>1
  <2> QED
    BY <2>1, <2>2
<1>7. SwallowedAt(new, less, p)
  BY <1>1, <1>2, <1>3, <1>4, <1>5, <1>6 DEF SwallowedAt
<1>8. p \in 1..Len(less.es)
  BY <1>0, <1>2, <1>3
<1> QED
  BY <1>7, <1>8 DEF Swallowed

(* After k entries there may be an empty range more.                       *)
FillsTo(es, n, limit, tag, k, d) ==
    \E small :
        /\ FillInv(es, n, limit, tag, k, small)
        /\ d = small \/ (Swallowed(d, small) /\ k > 1 /\ es[k].begin >= limit)

LEMMA FillGoesOn ==
    ASSUME NEW es, Proper(es), NEW n \in Nat,
           NEW limit \in Nat, limit <= Top, limit % Align = 0, NEW tag \in Tag,
           Fillable(es, limit, tag),
           NEW k \in Nat, k < Len(es), NEW d, FillsTo(es, n, limit, tag, k, d),
           NEW e, e = FillNext(d, es, k + 1, limit, tag)
    PROVE  FillsTo(es, n, limit, tag, k + 1, e)
<1>s. PICK s, r : s = es[k] /\ r = es[k + 1]
  OBVIOUS
<1>0. /\ es \in Seq(RangeEntry) /\ Len(es) \in Nat /\ k + 1 \in DOMAIN es /\ k + 1 - 1 = k
      /\ DOMAIN es = 1..Len(es)
  BY DEF Proper
<1>d. PICK small :
         /\ FillInv(es, n, limit, tag, k, small)
         /\ d = small \/ (Swallowed(d, small) /\ k > 1 /\ s.begin >= limit)
  BY <1>s DEF FillsTo
<1>1. FillsBefore(es, k + 1, limit) => s.end < limit - 1 \/ (s.end = limit - 1 /\ s.tag = tag)
  BY <1>0, <1>s DEF Fillable
<1>2. FillsBefore(es, k + 1, limit) <=>
          k + 1 > 1 /\ s.end + 1 # r.begin /\ (k + 1 = 2 \/ s.begin < limit)
  BY <1>0, <1>s DEF FillsBefore, HoleBefore
<1>f. PICK next : next = FillNext(small, es, k + 1, limit, tag)
  OBVIOUS
<1>3. CASE d = small /\ (FillsBefore(es, k + 1, limit) => s.end < limit - 1)
  <2>1. FillInv(es, n, limit, tag, k + 1, e)
    BY <1>d, <1>s, <1>3, FillStep
  <2> QED
    BY <2>1 DEF FillsTo
<1>4. CASE d = small /\ ~(FillsBefore(es, k + 1, limit) => s.end < limit - 1)
  <2>1. k > 0 /\ FillsBefore(es, k + 1, limit) /\ s.end = limit - 1 /\ s.tag = tag
    BY <1>1, <1>2, <1>4
  <2>l. PICK less : less = List(Append(d.es, r), d.free)
    OBVIOUS
  <2>2. CASE d.free > 0
    <3>1. /\ FillInv(es, n, limit, tag, k + 1, less)
          /\ Swallowed(e, less) /\ r.begin >= limit
      BY <1>d, <1>s, <1>4, <2>1, <2>2, <2>l, FillStepAtLimit
    <3>2. k + 1 > 1
      BY <2>1
    <3> QED
      BY <1>s, <3>1, <3>2 DEF FillsTo
  <2>3. CASE ~(d.free > 0)
    <3>1. d.free = 0 /\ n + k = Len(d.es) + d.free /\ d.free + k > n /\ Proper(d.es)
      <4>1. d.free \in Nat /\ Len(d.es) + d.free = n + k /\ d.free + k > n /\ Proper(d.es)
        BY <1>d, <1>4, <2>1 DEF FillInv
      <4> QED
        BY <2>3, <4>1
    <3>2. e = less
      BY <1>s, <2>3, <2>l DEF FillNext
    <3>3. e.es = Append(d.es, r) /\ e.free = d.free
      BY <2>l, <3>2 DEF List
    <3>4. Good(r) /\ r.begin \in Nat /\ s.end \in Nat /\ s.end < r.begin
      <4>1. k \in DOMAIN es /\ k < k + 1
        BY <1>0, <2>1
      <4>2. Good(r) /\ Good(s) /\ s.end < r.begin
        BY <1>0, <1>s, <4>1 DEF Proper, Sorted
      <4> QED
        BY <4>2, Fields DEF Good
    <3>5. Before(d.es, r.begin)
      <4>1. \A i \in DOMAIN d.es : d.es[i].end <= s.end /\ d.es[i].end \in Nat
        BY <1>d, <1>s, <1>4, <2>1, Fields DEF FillInv, Proper
      <4> QED
        BY <3>4, <4>1 DEF Before
    <3>6. Widens(d, d.es, FALSE, tag, s, r, limit) /\ FALSE \in BOOLEAN
      BY DEF Widens
    <3>7. Enough(es, n, FALSE, k, s, r, limit)
      <4>1. ASSUME NEW a \in Int PROVE ~InBetween(s, r, limit, a)
        BY <2>1, <3>4 DEF InBetween
      <4> QED
        BY <4>1 DEF Enough
    <3>8. Counted(n, k, d.es, e)
      BY <2>1, <3>1, <3>3 DEF Counted
    <3>9. FillInv(es, n, limit, tag, k + 1, e)
      BY <1>d, <1>s, <1>4, <3>1, <3>3, <3>5, <3>6, <3>7, <3>8, FillGrows
    <3> QED
      BY <3>9 DEF FillsTo
  <2> QED
    BY <2>2, <2>3
<1>5. CASE Swallowed(d, small) /\ k > 1 /\ s.begin >= limit
  <2>1. k \in DOMAIN es /\ k < k + 1
    BY <1>0, <1>5
  <2>2. /\ r \in RangeEntry /\ r.begin \in Nat /\ s.begin \in Nat /\ s.end \in Nat
        /\ s.begin <= s.end /\ s.end < r.begin
    <3>1. Good(r) /\ Good(s) /\ s.end < r.begin
      BY <1>0, <1>s, <2>1 DEF Proper, Sorted
    <3> QED
      BY <3>1, Fields DEF Good
  <2>3. ~FillsBefore(es, k + 1, limit)
    BY <1>2, <1>5, <2>2
  <2>4. FillInv(es, n, limit, tag, k + 1, next)
    BY <1>d, <1>f, <2>3, FillStep
  <2>5. next = List(Append(small.es, r), small.free) /\ e = List(Append(d.es, r), d.free)
    BY <1>f, <1>s, <2>3 DEF FillNext
  <2>6. Swallowed(e, next)
    <3>1. Proper(small.es)
      BY <1>d DEF FillInv
    <3> QED
      BY <1>5, <2>2, <2>5, <3>1, SwallowedGrows
  <2>7. k + 1 > 1 /\ r.begin >= limit
    BY <1>5, <2>2
  <2> QED
    BY <1>s, <2>4, <2>6, <2>7 DEF FillsTo
<1> QED
  BY <1>d, <1>3, <1>4, <1>5

(* What is to be filled: addresses behind the first entry and below the    *)
(* limit that no entry covers.                                             *)
Unfilled(es, limit, a) ==
    /\ Len(es) > 0 /\ a < limit /\ es[1].end < a
    /\ \A t : ~Covers(es, a, t)

LEMMA GapsAreUnfilled ==
    ASSUME NEW es, Proper(es), Len(es) > 0, NEW limit \in Nat, NEW a \in Int, a < limit
    PROVE  Unfilled(es, limit, a) <=> Gap(es, Len(es), limit, a) \/ es[Len(es)].end < a
<1>n. PICK n : n = Len(es)
  OBVIOUS
<1>0. /\ es \in Seq(RangeEntry) /\ n \in Nat /\ n > 0 /\ DOMAIN es = 1..n
  BY <1>n DEF Proper
<1>1. \A i \in 1..n : /\ es[i].begin \in Nat /\ es[i].end \in Nat
                      /\ es[i].begin <= es[i].end
  BY <1>0, Fields DEF Proper, Good
<1>2. \A i, j \in 1..n : i < j => es[i].end < es[j].begin
  BY <1>0 DEF Proper, Sorted
<1>3. Unfilled(es, limit, a) <=>
         es[1].end < a /\ \A i \in 1..n : ~(es[i].begin <= a /\ a <= es[i].end)
  BY <1>0, <1>n DEF Unfilled, Covers, Holds
<1>4. Gap(es, n, limit, a) <=> \E j \in 2..n : es[j - 1].end < a /\ a < es[j].begin
  BY DEF Gap
<1>5. ASSUME NEW j \in 2..n, es[j - 1].end < a, a < es[j].begin
      PROVE  es[1].end < a /\ \A i \in 1..n : ~(es[i].begin <= a /\ a <= es[i].end)
  <2>1. j - 1 \in 1..n /\ j \in 1..n /\ 1 \in 1..n
    BY <1>0
  <2>2. ASSUME NEW i \in 1..n PROVE ~(es[i].begin <= a /\ a <= es[i].end)
    <3>1. i < j - 1 \/ i = j - 1 \/ i = j \/ j < i
      BY <1>0
    <3>2. CASE i < j - 1
      BY <1>1, <1>2, <1>5, <2>1, <3>2, SMTT(30)
    <3>3. CASE i = j - 1
      BY <1>1, <1>5, <2>1, <3>3
    <3>4. CASE i = j
      BY <1>1, <1>5, <2>1, <3>4
    <3>5. CASE j < i
      BY <1>1, <1>2, <1>5, <2>1, <3>5
    <3> QED
      BY <3>1, <3>2, <3>3, <3>4, <3>5
  <2>3. es[1].end < a
    <3>1. j - 1 = 1 \/ 1 < j - 1
      BY <1>0
    <3>2. CASE j - 1 = 1
      BY <1>5, <3>2
    <3>3. CASE 1 < j - 1
      BY <1>1, <1>2, <1>5, <2>1, <3>3, SMTT(30)
    <3> QED
      BY <3>1, <3>2, <3>3
  <2> QED
    BY <2>2, <2>3
<1>6. ASSUME es[n].end < a
      PROVE  es[1].end < a /\ \A i \in 1..n : ~(es[i].begin <= a /\ a <= es[i].end)
  <2>1. ASSUME NEW i \in 1..n PROVE es[i].end < a
    <3>1. n \in 1..n /\ (i = n \/ i < n)
      BY <1>0
    <3>2. CASE i = n
      BY <1>6, <3>2
    <3>3. CASE i < n
      BY <1>1, <1>2, <1>6, <3>1, <3>3, SMTT(30)
    <3> QED
      BY <3>1, <3>2, <3>3
  <2>2. 1 \in 1..n
    BY <1>0
  <2> QED
    BY <1>1, <2>1, <2>2
<1>7. ASSUME es[1].end < a, \A i \in 1..n : ~(es[i].begin <= a /\ a <= es[i].end),
             ~(es[n].end < a)
      PROVE  \E j \in 2..n : es[j - 1].end < a /\ a < es[j].begin
  <2> DEFINE above == {i \in 1..n : ~(es[i].end < a)}
  <2>1. n \in above /\ above \subseteq Nat
    BY <1>0, <1>7
  <2>2. PICK j \in above : \A i \in above : j <= i
    BY <2>1, Least
  <2>3. j \in 1..n /\ ~(es[j].end < a)
    OBVIOUS
  <2>4. j # 1
    BY <1>7, <2>3
  <2>5. j \in 2..n /\ j - 1 \in 1..n /\ ~(j <= j - 1)
    BY <1>0, <2>3, <2>4
  <2>6. es[j - 1].end < a
    BY <2>2, <2>5
  <2>7. a < es[j].begin
    BY <1>1, <1>7, <2>3
  <2> QED
    BY <2>5, <2>6, <2>7
<1> QED
  BY <1>3, <1>4, <1>5, <1>6, <1>7, <1>n

(* Fills what is unfilled with the tag, if it has enough entries.          *)
Fitted(es, n, limit, tag, ds) ==
    /\ \A a \in Int : \A t : Covers(ds, a, t) =>
            Covers(es, a, t) \/ (t = tag /\ Unfilled(es, limit, a))
    /\ \A a \in Int : \A t : Covers(es, a, t) => Covers(ds, a, t)
    /\ n >= Len(es) => \A a \in Int : Unfilled(es, limit, a) => Covers(ds, a, tag)

LEMMA RestIs ==
    ASSUME NEW es, Proper(es), NEW n \in Nat,
           NEW limit \in Nat, limit <= Top, limit % Align = 0, NEW tag \in Tag,
           NEW d, FillInv(es, n, limit, tag, Len(es), d),
           NEW list, list = Rest(d, es, limit, tag)
    PROVE  Lists(list, n + Len(es)) /\ Fitted(es, n, limit, tag, list.es)
<1>n. PICK k : k = Len(es)
  OBVIOUS
<1>f. PICK f : f = d.free
  OBVIOUS
<1>l. PICK r : r = es[k]
  OBVIOUS
<1>0. es \in Seq(RangeEntry) /\ k \in Nat /\ DOMAIN es = 1..k /\ (k > 0 <=> es # <<>>)
  BY <1>n, EmptySeq DEF Proper
<1>1. /\ Proper(d.es) /\ f \in Nat /\ Len(d.es) + f = n + k
      /\ f + k >= n /\ (k > 0 => f + k > n)
      /\ k > 0 => \A i \in DOMAIN d.es : d.es[i].end <= r.end
      /\ k = 0 => d.es = <<>>
  BY <1>n, <1>f, <1>l DEF FillInv
<1>2. \A a, t : CoveredBy(es, k, a, t) <=> Covers(es, a, t)
  BY <1>0, <1>n, CoveredAll
<1>3. /\ \A a \in Int : \A t : Covers(d.es, a, t) =>
            Covers(es, a, t) \/ (t = tag /\ Gap(es, k, limit, a))
      /\ \A a \in Int : \A t : Covers(es, a, t) => Covers(d.es, a, t)
      /\ n >= k => \A a \in Int : Gap(es, k, limit, a) => Covers(d.es, a, tag)
  BY <1>2, <1>n DEF FillInv
<1>4. k > 0 => Good(r) /\ r.end \in Nat /\ (r.end + 1) % Align = 0
  <2>1. k > 0 => k \in DOMAIN es
    BY <1>0
  <2> QED
    BY <1>l, <2>1, Fields DEF Proper, Good
<1>5. \A a \in Int : k = 0 => ~Unfilled(es, limit, a)
  BY <1>n DEF Unfilled
<1>6. ASSUME NEW a \in Int, k > 0
      PROVE  Unfilled(es, limit, a) <=> a < limit /\ (Gap(es, k, limit, a) \/ r.end < a)
  <2>1. a < limit => (Unfilled(es, limit, a) <=> Gap(es, k, limit, a) \/ r.end < a)
    BY <1>6, <1>n, <1>l, GapsAreUnfilled
  <2>2. Unfilled(es, limit, a) => a < limit
    BY DEF Unfilled
  <2> QED
    BY <2>1, <2>2
<1>7. \A a \in Int : k = 0 => ~Gap(es, k, limit, a)
  <2>1. k = 0 => 2..k = {}
    BY <1>0
  <2> QED
    BY <2>1 DEF Gap
<1>8. \A a : Gap(es, k, limit, a) => a < limit
  BY DEF Gap
<1> DEFINE reached == es = <<>> \/ r.end + 1 >= limit
<1>9. CASE reached \/ f = 0
  <2>1. list = MergeNeighbors(d.es, f)
    BY <1>9, <1>n, <1>f, <1>l DEF Rest
  <2>2. /\ Proper(list.es) /\ Apart(list.es)
        /\ list.free \in Nat /\ Len(list.es) + list.free = f + Len(d.es)
        /\ \A a \in Int : \A t : Covers(list.es, a, t) <=> Covers(d.es, a, t)
    BY <1>1, <2>1, Merged, ZenonT(60)
  <2>3. Lists(list, n + k)
    <3>1. Len(d.es) \in Nat
      BY <1>1 DEF Proper
    <3> QED
      BY <1>1, <2>2, <3>1 DEF Lists
  <2>4. ASSUME NEW a \in Int, NEW t, Covers(list.es, a, t)
        PROVE  Covers(es, a, t) \/ (t = tag /\ Unfilled(es, limit, a))
    <3>1. Covers(es, a, t) \/ (t = tag /\ Gap(es, k, limit, a))
      BY <1>3, <2>2, <2>4
    <3>2. Gap(es, k, limit, a) => Unfilled(es, limit, a)
      BY <1>0, <1>6, <1>7, <1>8
    <3> QED
      BY <3>1, <3>2
  <2>5. ASSUME NEW a \in Int, NEW t, Covers(es, a, t) PROVE Covers(list.es, a, t)
    BY <1>3, <2>2, <2>5
  <2>6. ASSUME n >= k, NEW a \in Int, Unfilled(es, limit, a) PROVE Covers(list.es, a, tag)
    <3>1. k > 0
      BY <1>0, <1>5, <2>6
    <3>2. f # 0
      BY <1>0, <1>1, <2>6, <3>1
    <3>3. r.end + 1 >= limit
      BY <1>0, <1>9, <3>1, <3>2
    <3>4. a < limit /\ (Gap(es, k, limit, a) \/ r.end < a)
      BY <1>6, <2>6, <3>1
    <3>5. Gap(es, k, limit, a)
      BY <1>4, <3>1, <3>3, <3>4
    <3> QED
      BY <1>3, <2>2, <2>6, <3>5
  <2> QED
    BY <1>n, <2>3, <2>4, <2>5, <2>6 DEF Fitted
<1>10. CASE ~(reached \/ f = 0)
  <2>h. PICK h : h = Entry(r.end + 1, limit - 1, tag)
    OBVIOUS
  <2>d. PICK ds : ds = Append(d.es, h)
    OBVIOUS
  <2>g. PICK g : g = f - 1
    OBVIOUS
  <2>1. list = MergeNeighbors(ds, g)
    BY <1>10, <1>n, <1>f, <1>l, <2>h, <2>d, <2>g DEF Rest
  <2>2. k > 0 /\ f > 0 /\ f - 1 \in Nat /\ r.end \in Nat /\ r.end + 1 < limit
    BY <1>0, <1>1, <1>4, <1>10
  <2>3. Good(h) /\ h.begin = r.end + 1 /\ h.end = limit - 1 /\ h.tag = tag
    <3>b. PICK b \in Nat : b = r.end + 1
      BY <2>2
    <3>e. PICK e \in Nat : e = limit - 1
      BY <2>2
    <3>1. b <= e /\ e < Top /\ b % Align = 0 /\ e + 1 = limit
      BY <1>4, <2>2, <3>b, <3>e, Numbers
    <3> QED
      BY <2>h, <3>b, <3>e, <3>1, EntryIs
  <2>4. Before(d.es, h.begin)
    <3>1. \A i \in DOMAIN d.es : d.es[i].end \in Nat
      BY <1>1, Fields DEF Proper
    <3> QED
      BY <1>1, <2>2, <2>3, <3>1 DEF Before
  <2>5. /\ Proper(ds) /\ Len(ds) = Len(d.es) + 1
        /\ \A a, t : Covers(ds, a, t) <=> Covers(d.es, a, t) \/ Holds(h, a, t)
    BY <1>1, <2>3, <2>4, <2>d, AppendOne
  <2>6. /\ Proper(list.es) /\ Apart(list.es)
        /\ list.free \in Nat /\ Len(list.es) + list.free = g + Len(ds)
        /\ \A a \in Int : \A t : Covers(list.es, a, t) <=> Covers(ds, a, t)
    <3>1. g \in Nat
      BY <2>2, <2>g
    <3> QED
      BY <2>1, <2>5, <3>1, Merged
  <2>7. Lists(list, n + k)
    <3>1. Len(d.es) \in Nat
      BY <1>1 DEF Proper
    <3>2. Len(list.es) + list.free = n + k
      BY <1>1, <2>2, <2>5, <2>6, <2>g, <3>1
    <3> QED
      BY <2>6, <3>2 DEF Lists
  <2>8. \A a \in Int : \A t : Holds(h, a, t) <=> t = tag /\ r.end < a /\ a < limit
    BY <2>2, <2>3 DEF Holds
  <2>9. ASSUME NEW a \in Int, NEW t, Covers(list.es, a, t)
        PROVE  Covers(es, a, t) \/ (t = tag /\ Unfilled(es, limit, a))
    <3>1. Covers(d.es, a, t) \/ Holds(h, a, t)
      BY <2>5, <2>6, <2>9
    <3>2. Covers(es, a, t) \/ (t = tag /\ (Gap(es, k, limit, a) \/ (r.end < a /\ a < limit)))
      BY <1>3, <2>8, <3>1
    <3> QED
      BY <1>6, <1>8, <2>2, <3>2
  <2>10. ASSUME NEW a \in Int, NEW t, Covers(es, a, t) PROVE Covers(list.es, a, t)
    BY <1>3, <2>5, <2>6, <2>10
  <2>11. ASSUME n >= k, NEW a \in Int, Unfilled(es, limit, a) PROVE Covers(list.es, a, tag)
    <3>1. a < limit /\ (Gap(es, k, limit, a) \/ r.end < a)
      BY <1>6, <2>2, <2>11
    <3>2. Covers(d.es, a, tag) \/ Holds(h, a, tag)
      BY <1>3, <2>8, <2>11, <3>1
    <3> QED
      BY <2>5, <2>6, <3>2
  <2> QED
    BY <1>n, <2>7, <2>9, <2>10, <2>11 DEF Fitted
<1> QED
  BY <1>9, <1>10

LEMMA FilledIs ==
    ASSUME NEW es, Proper(es), NEW n \in Nat,
           NEW limit \in Nat, limit <= Top, limit % Align = 0, NEW tag \in Tag,
           Fillable(es, limit, tag), NEW list, list = Filled(es, n, limit, tag)
    PROVE  Lists(list, n + Len(es)) /\ Fitted(es, n, limit, tag, list.es)
<1>k. PICK k : k = Len(es)
  OBVIOUS
<1>0. es \in Seq(RangeEntry) /\ k \in Nat /\ DOMAIN es = 1..k /\ Len(es) \in Nat
  BY <1>k DEF Proper
<1>m. PICK m : Fills(m, es, n, limit, tag)
  BY <1>0, FillDefined
<1> DEFINE D == {i \in Nat : i <= k => FillsTo(es, n, limit, tag, i, m[i])}
<1>1. /\ list = Rest(m[k], es, limit, tag) /\ m[0] = List(<<>>, n)
      /\ \A i \in 0..k - 1 : m[i + 1] = FillNext(m[i], es, i + 1, limit, tag)
  BY <1>k, <1>m DEF Fills
<1>2. 0 \in D
  <2>1. FillInv(es, n, limit, tag, 0, m[0])
    BY <1>1, FillBegins
  <2> QED
    BY <2>1 DEF FillsTo
<1>3. ASSUME NEW i \in Nat, i \in D PROVE i + 1 \in D
  <2> SUFFICES ASSUME i + 1 <= k PROVE FillsTo(es, n, limit, tag, i + 1, m[i + 1])
    OBVIOUS
  <2>1. i \in 0..k - 1 /\ i < Len(es) /\ FillsTo(es, n, limit, tag, i, m[i])
    BY <1>0, <1>k, <1>3
  <2>2. PICK d, e : d = m[i] /\ e = m[i + 1]
    OBVIOUS
  <2>3. e = FillNext(d, es, i + 1, limit, tag) /\ FillsTo(es, n, limit, tag, i, d)
    BY <1>1, <2>1, <2>2
  <2>4. FillsTo(es, n, limit, tag, i + 1, e)
    BY <2>1, <2>3, FillGoesOn
  <2> QED
    BY <2>2, <2>4
<1>4. FillsTo(es, n, limit, tag, k, m[k])
  <2> HIDE DEF D
  <2>1. k \in D
    BY <1>0, <1>2, <1>3, Induct
  <2> USE DEF D
  <2> QED
    BY <1>0, <2>1
<1>d. PICK d : d = m[k]
  OBVIOUS
<1>5. PICK small :
         /\ FillInv(es, n, limit, tag, k, small)
         /\ d = small \/ (Swallowed(d, small) /\ k > 1 /\ es[k].begin >= limit)
  BY <1>4, <1>d DEF FillsTo
<1>6. list = Rest(small, es, limit, tag)
  <2>1. CASE d = small
    BY <1>1, <1>d, <2>1
  <2>2. CASE Swallowed(d, small) /\ k > 1 /\ es[k].begin >= limit
    <3>1. es[k].end + 1 >= limit
      <4>1. k \in DOMAIN es
        BY <1>0, <2>2
      <4>2. Good(es[k]) /\ es[k].begin \in Nat /\ es[k].end \in Nat
        BY <4>1, Fields DEF Proper, Good
      <4> QED
        BY <2>2, <4>2 DEF Good
    <3>2. list = MergeNeighbors(d.es, d.free)
      BY <1>1, <1>d, <1>k, <3>1 DEF Rest
    <3>3. Rest(small, es, limit, tag) = MergeNeighbors(small.es, small.free)
      BY <1>k, <3>1 DEF Rest
    <3>4. Proper(small.es)
      BY <1>5 DEF FillInv
    <3> QED
      BY <2>2, <3>2, <3>3, <3>4, Swallows
  <2> QED
    BY <1>5, <2>1, <2>2
<1> QED
  BY <1>5, <1>6, <1>k, RestIs

-----------------------------------------------------------------------------
(* The tags of addresses.                                                  *)
LEMMA TagIs ==
    ASSUME NEW es, Proper(es), NEW a \in Int
    PROVE  /\ TagAt(es, a) = NoTag \/ Covers(es, a, TagAt(es, a))
           /\ \A t : Covers(es, a, t) => TagAt(es, a) = t
           /\ \A t : Covers(es, a, t) => t # NoTag
<1> DEFINE cover == {k \in DOMAIN es : a \in es[k].begin..es[k].end}
<1>1. \A k \in DOMAIN es : /\ es[k].begin \in Nat /\ es[k].end \in Nat /\ es[k].tag \in Tag
  BY Fields DEF Proper
<1>2. \A k \in DOMAIN es : k \in cover <=> Holds(es[k], a, es[k].tag)
  BY <1>1 DEF Holds
<1>3. TagAt(es, a) = IF cover = {} THEN NoTag ELSE es[CHOOSE k \in cover : TRUE].tag
  BY DEF TagAt
<1>4. TagAt(es, a) = NoTag \/ Covers(es, a, TagAt(es, a))
  <2>1. CASE cover = {}
    BY <1>3, <2>1
  <2>2. CASE cover # {}
    <3>1. PICK k : k = CHOOSE i \in cover : TRUE
      OBVIOUS
    <3>2. k \in cover
      BY <2>2, <3>1
    <3>3. TagAt(es, a) = es[k].tag
      BY <1>3, <2>2, <3>1
    <3> QED
      BY <1>2, <3>2, <3>3 DEF Covers
  <2> QED
    BY <2>1, <2>2
<1>5. ASSUME NEW t, Covers(es, a, t) PROVE TagAt(es, a) = t /\ t # NoTag
  <2>1. PICK k \in DOMAIN es : Holds(es[k], a, t)
    BY <1>5 DEF Covers
  <2>2. k \in cover /\ es[k].tag = t
    BY <1>2, <2>1 DEF Holds
  <2>3. PICK m : m = CHOOSE i \in cover : TRUE
    OBVIOUS
  <2>4. m \in cover
    BY <2>2, <2>3
  <2>5. TagAt(es, a) = es[m].tag
    BY <1>3, <2>2, <2>3
  <2>6. Covers(es, a, es[m].tag)
    BY <1>2, <2>4 DEF Covers
  <2>7. es[m].tag = t
    BY <1>5, <2>6, OneTag
  <2>8. t \in Tag
    BY <1>1, <2>2
  <2> QED
    BY <2>5, <2>7, <2>8, TagAssumption
<1> QED
  BY <1>4, <1>5

(* Two lists that say the same of an address give it the same tag.         *)
LEMMA SameTag ==
    ASSUME NEW es, Proper(es), NEW new, Proper(new), NEW a \in Int,
           \A t : Covers(new, a, t) => Covers(es, a, t)
    PROVE  /\ TagAt(new, a) = TagAt(es, a) \/ TagAt(new, a) = NoTag
           /\ (\A t : Covers(es, a, t) => Covers(new, a, t)) => TagAt(new, a) = TagAt(es, a)
BY TagIs

LEMMA ThisTag ==
    ASSUME NEW new, Proper(new), NEW a \in Int, NEW u, \A t : Covers(new, a, t) => t = u
    PROVE  /\ TagAt(new, a) = u \/ TagAt(new, a) = NoTag
           /\ Covers(new, a, u) => TagAt(new, a) = u
BY TagIs

LEMMA NoneOfThem ==
    ASSUME NEW new, Proper(new), NEW a \in Int, \A t : ~Covers(new, a, t)
    PROVE  TagAt(new, a) = NoTag
BY TagIs

-----------------------------------------------------------------------------
(* What every operation keeps true: the entries in order, aligned and      *)
(* apart, and the number of entries.                                       *)
RangesInv ==
    /\ Proper(entries) /\ Apart(entries)
    /\ free \in Nat /\ Len(entries) + free <= NumFree

(* The range of a call.                                                    *)
LEMMA WidenedIs ==
    ASSUME NEW base \in Nat, NEW size \in Nat, size # 0,
           NEW first, first = BeginOf(base), NEW end, end = End(base, size)
    PROVE  /\ Aligned(first, end)
           /\ base + size <= Top => end < Top
<1>1. first \in Nat /\ first % Align = 0 /\ first <= base
  BY Numbers, Down DEF BeginOf
<1>u. PICK up : up = AlignUp(base + size, Align)
  OBVIOUS
<1>2. /\ up \in Nat /\ up % Align = 0 /\ base + size <= up
      /\ \A y \in Nat : y % Align = 0 /\ base + size <= y => up <= y
  <2>c. PICK c \in Nat : c = base + size
    OBVIOUS
  <2> QED
    BY <1>u, <2>c, Numbers, Up
<1>3. end = up - 1 /\ end + 1 = up
  BY <1>2, <1>u DEF End
<1>4. Aligned(first, end)
  BY <1>1, <1>2, <1>3 DEF Aligned
<1>5. ASSUME base + size <= Top PROVE end < Top
  <2>1. up <= Top
    BY <1>2, <1>5, Numbers
  <2> QED
    BY <1>2, <1>3, <2>1, Numbers
<1> QED
  BY <1>4, <1>5

InsertedTags(es, n, first, end, tag, ds) ==
    /\ \A a \in Int : \A t : Covers(ds, a, t) =>
            (Covers(es, a, t) /\ ~Hole(a, first, end)) \/ (t = tag /\ Hole(a, first, end))
    /\ n >= 2 => \A a \in Int : \A t :
            (Covers(es, a, t) /\ ~Hole(a, first, end)) \/ (t = tag /\ Hole(a, first, end))
            => Covers(ds, a, t)

LEMMA InsertedIs ==
    ASSUME NEW es, Proper(es), NEW n \in Nat, NEW base \in Nat, NEW size \in Nat, size # 0,
           base + size <= Top, NEW tag \in Tag,
           NEW first, first = BeginOf(base), NEW end, end = End(base, size),
           NEW list, list = Inserted(es, n, base, size, tag)
    PROVE  Lists(list, n + Len(es)) /\ InsertedTags(es, n, first, end, tag, list.es)
<1>r. PICK r : r = Entry(first, end, tag)
  OBVIOUS
<1>1. first \in Nat /\ end \in Nat /\ first <= end /\ end < Top /\ first % Align = 0 /\ (end + 1) % Align = 0
  BY WidenedIs DEF Aligned
<1>2. Good(r) /\ r.begin = first /\ r.end = end /\ r.tag = tag
  BY <1>1, <1>r, EntryIs
<1>3. list = MergeAdd(es, n, r)
  BY <1>r DEF Inserted
<1>4. \A a \in Int : \A t : Holds(r, a, t) <=> t = tag /\ Hole(a, first, end)
  BY <1>2 DEF Holds, Hole
<1>5. /\ Lists(list, n + Len(es))
      /\ \A a \in Int : \A t : Covers(list.es, a, t) =>
             \/ Covers(es, a, t) /\ ~Hole(a, first, end)
             \/ Holds(r, a, t)
      /\ n >= 2 => \A a \in Int : \A t :
             \/ Covers(es, a, t) /\ ~Hole(a, first, end)
             \/ Holds(r, a, t)
             => Covers(list.es, a, t)
  BY <1>2, <1>3, MergeAdded
<1> QED
  BY <1>4, <1>5 DEF InsertedTags

(* The least and the greatest member of a set of positions.                *)
LEMMA Extremes ==
    ASSUME NEW n \in Nat, NEW S, S \subseteq 1..n, S # {}
    PROVE  /\ Min(S) \in S /\ \A x \in S : Min(S) <= x
           /\ Max(S) \in S /\ \A x \in S : x <= Max(S)
<1>1. \E m \in S : \A x \in S : m <= x
  <2>1. S \subseteq Nat
    OBVIOUS
  <2> QED
    BY <2>1, Least
<1>2. \E m \in S : \A x \in S : m >= x
  <2> DEFINE R == {n - x : x \in S}
  <2>1. R \subseteq Nat /\ R # {}
    <3>1. \A x \in S : n - x \in Nat
      OBVIOUS
    <3> QED
      BY <3>1
  <2>2. PICK m \in R : \A x \in R : m <= x
    BY <2>1, Least
  <2>3. PICK y \in S : m = n - y
    OBVIOUS
  <2>4. ASSUME NEW x \in S PROVE y >= x
    <3>1. n - y <= n - x
      BY <2>2, <2>3
    <3> QED
      BY <3>1
  <2> QED
    BY <2>4
<1>3. Min(S) \in S /\ \A x \in S : Min(S) <= x
  BY <1>1 DEF Min
<1>4. Max(S) \in S /\ \A x \in S : Max(S) >= x
  BY <1>2 DEF Max
<1> QED
  BY <1>3, <1>4

(* What memranges_steal() takes.                                           *)
LEMMA StolenIs ==
    ASSUME Proper(entries), NEW limit \in Nat, NEW size \in Nat, size # 0,
           NEW align \in Nat \ {0}, NEW tag, NEW from_top,
           NEW fits, fits = Candidates(limit, size, align, tag), fits # {},
           NEW base, base = IF from_top THEN Highest(entries[Max(fits)], limit, size, align)
                            ELSE AlignUp(entries[Min(fits)].begin, align)
    PROVE  base \in Nat
<1>0. /\ entries \in Seq(RangeEntry) /\ DOMAIN entries = 1..Len(entries) /\ Len(entries) \in Nat
  BY DEF Proper
<1>1. fits \subseteq 1..Len(entries)
  BY <1>0 DEF Candidates
<1>2. Min(fits) \in fits /\ Max(fits) \in fits
  BY <1>0, <1>1, Extremes
<1>3. ASSUME NEW k \in fits
      PROVE  /\ entries[k].begin \in Nat /\ entries[k].end \in Nat
             /\ AlignUp(entries[k].begin, align) \in Nat
             /\ AlignUp(entries[k].begin, align) + size - 1 <= entries[k].end
             /\ AlignUp(entries[k].begin, align) + size - 1 <= limit
  <2>1. k \in DOMAIN entries /\ entries[k] \in RangeEntry
    BY <1>0, <1>1
  <2>2. entries[k].begin \in Nat /\ entries[k].end \in Nat
    BY <2>1, Fields
  <2>b. PICK b \in Nat : b = entries[k].begin
    BY <2>2
  <2>3. AlignUp(b, align) \in Nat
    BY Up
  <2> QED
    BY <2>2, <2>3, <2>b DEF Candidates
<1>4. CASE from_top
  <2>r. PICK r : r = entries[Max(fits)]
    OBVIOUS
  <2>m. PICK m : m = Min({limit, r.end})
    OBVIOUS
  <2>u. PICK u : u = AlignUp(r.begin, align)
    OBVIOUS
  <2>1. r.end \in Nat /\ u \in Nat /\ u + size - 1 <= r.end /\ u + size - 1 <= limit
    BY <1>2, <1>3, <2>r, <2>u
  <2>2. m = IF limit <= r.end THEN limit ELSE r.end
    BY <2>1, <2>m, MaxMin
  <2>3. m - size + 1 \in Nat
    BY <2>1, <2>2
  <2>4. base = AlignDown(m - size + 1, align)
    BY <1>4, <2>r, <2>m DEF Highest
  <2> QED
    BY <2>3, <2>4, Down
<1>5. CASE ~from_top
  BY <1>2, <1>3, <1>5
<1> QED
  BY <1>4, <1>5

(* Every operation with arguments callers pass.                            *)
LEMMA Operations ==
    ASSUME RangesNext
    PROVE  \/ \E base \in Nat, size \in Nat, tag \in Tag :
                  base + size <= Top /\ Insert(base, size, tag)
           \/ \E base \in Nat, size \in Nat : CreateHole(base, size)
           \/ \E t, u \in Tag : UpdateTag(t, u)
           \/ \E limit \in Nat, tag \in Tag :
                  /\ limit <= Top /\ limit % Align = 0 /\ Fillable(entries, limit, tag)
                  /\ FillHoles(limit, tag)
           \/ \E limit \in Nat, size \in Nat, align \in Nat \ {0}, tag \in Tag, from_top \in BOOLEAN :
                  Steal(limit, size, align, tag, from_top)
           \/ Teardown
<1>1. Reach \in Nat /\ Reach <= Top /\ CallerTag \subseteq Tag
  BY Numbers, CallerAssumption
<1>2. /\ 0..Reach - 1 \subseteq Nat /\ 0..Reach \subseteq Nat /\ 1..Reach \subseteq Nat
      /\ {1, Align, 2 * Align} \subseteq Nat \ {0}
  BY <1>1, Numbers
<1>3. \A limit \in 1..Reach : limit <= Top
  BY <1>1, Numbers
<1>4. \A base \in Nat, size \in Nat : base + size <= Reach => base + size <= Top
  BY <1>1, Numbers
<1>5. CASE \E base \in 0..Reach - 1, size \in 0..Reach :
              /\ base + size <= Reach
              /\ \/ \E tag \in CallerTag : Insert(base, size, tag)
                 \/ CreateHole(base, size)
  <2>1. PICK base \in Nat, size \in Nat :
              /\ base + size <= Reach
              /\ \/ \E tag \in CallerTag : Insert(base, size, tag)
                 \/ CreateHole(base, size)
    BY <1>2, <1>5
  <2>2. base + size <= Top
    BY <1>4, <2>1
  <2> QED
    BY <1>1, <2>1, <2>2
<1>6. CASE \E t, u \in CallerTag : UpdateTag(t, u)
  BY <1>1, <1>6
<1>7. CASE \E limit \in {a \in 1..Reach : a % Align = 0}, tag \in CallerTag :
              Fillable(entries, limit, tag) /\ FillHoles(limit, tag)
  BY <1>1, <1>2, <1>3, <1>7
<1>8. CASE \E limit \in 0..Reach - 1, size \in 0..Reach, align \in {1, Align, 2 * Align},
              tag \in CallerTag, from_top \in BOOLEAN :
              Steal(limit, size, align, tag, from_top)
  <2>1. PICK limit \in Nat, size \in Nat, align \in Nat \ {0}, tag \in Tag, from_top \in BOOLEAN :
              Steal(limit, size, align, tag, from_top)
    BY <1>1, <1>2, <1>8
  <2> QED
    BY <2>1
<1> QED
  BY <1>5, <1>6, <1>7, <1>8 DEF RangesNext

LEMMA RangesBegin == RangesInit => RangesInv
<1> SUFFICES ASSUME RangesInit PROVE RangesInv
  OBVIOUS
<1>1. entries = <<>> /\ free \in Nat /\ free <= NumFree
  BY FreeAssumption DEF RangesInit
<1> QED
  BY <1>1, EmptyList DEF RangesInv

(* A list that an operation leaves, of as many entries as before.          *)
LEMMA Leaves ==
    ASSUME RangesInv, NEW list, Becomes(list), Lists(list, free + Len(entries))
    PROVE  RangesInv'
<1>1. entries' = list.es /\ free' = list.free
  BY DEF Becomes
<1>2. /\ Proper(entries') /\ Apart(entries')
      /\ free' \in Nat /\ Len(entries') + free' = free + Len(entries)
  BY <1>1 DEF Lists
<1>3. Len(entries) \in Nat /\ free \in Nat /\ Len(entries) + free <= NumFree
  BY DEF RangesInv, Proper
<1>4. Len(entries') + free' <= NumFree
  BY <1>2, <1>3
<1> QED
  BY <1>2, <1>4 DEF RangesInv, Proper, Apart, Sorted

LEMMA RemovedLists ==
    ASSUME RangesInv, NEW first, NEW end, Aligned(first, end),
           NEW list, list = Remove(entries, free, first, end)
    PROVE  Lists(list, free + Len(entries))
BY Removed DEF RangesInv, Lists

LEMMA RangesStep == RangesInv /\ [RangesNext]_range_vars => RangesInv'
<1> SUFFICES ASSUME RangesInv, [RangesNext]_range_vars PROVE RangesInv'
  OBVIOUS
<1>0. /\ Proper(entries) /\ free \in Nat
  BY DEF RangesInv
<1>same. ASSUME UNCHANGED <<entries, free>> PROVE RangesInv'
  BY <1>same DEF RangesInv, Proper, Apart, Sorted
<1>1. ASSUME NEW base \in Nat, NEW size \in Nat, NEW tag \in Tag, base + size <= Top,
             Insert(base, size, tag)
      PROVE  RangesInv'
  <2>l. PICK list : list = Inserted(entries, free, base, size, tag)
    OBVIOUS
  <2>1. Becomes(list)
    BY <1>1, <2>l DEF Insert
  <2>2. CASE size = 0
    <3>1. UNCHANGED <<entries, free>>
      BY <2>1, <2>2, <2>l DEF Becomes, Inserted, List
    <3> QED
      BY <1>same, <3>1
  <2>3. CASE size # 0
    <3>1. Lists(list, free + Len(entries))
      BY <1>0, <1>1, <2>3, <2>l, InsertedIs
    <3> QED
      BY <2>1, <3>1, Leaves
  <2> QED
    BY <2>2, <2>3
<1>2. ASSUME NEW base \in Nat, NEW size \in Nat, CreateHole(base, size)
      PROVE  RangesInv'
  <2>1. CASE size = 0
    BY <1>2, <1>same, <2>1 DEF CreateHole
  <2>2. CASE size # 0
    <3>l. PICK list : list = Remove(entries, free, BeginOf(base), End(base, size))
      OBVIOUS
    <3>1. Becomes(list)
      BY <1>2, <2>2, <3>l DEF CreateHole
    <3>2. Aligned(BeginOf(base), End(base, size))
      BY <1>2, <2>2, WidenedIs
    <3> QED
      BY <3>l, <3>1, <3>2, RemovedLists, Leaves
  <2> QED
    BY <2>1, <2>2
<1>3. ASSUME NEW t \in Tag, NEW u \in Tag, UpdateTag(t, u)
      PROVE  RangesInv'
  <2>l. PICK list : list = Retagged(entries, free, t, u)
    OBVIOUS
  <2>1. Becomes(list)
    BY <1>3, <2>l DEF UpdateTag
  <2>2. Lists(list, free + Len(entries))
    BY <1>0, <1>3, <2>l, Updated
  <2> QED
    BY <2>1, <2>2, Leaves
<1>4. ASSUME NEW limit \in Nat, NEW tag \in Tag, limit <= Top, limit % Align = 0,
             Fillable(entries, limit, tag), FillHoles(limit, tag)
      PROVE  RangesInv'
  <2>l. PICK list : list = Filled(entries, free, limit, tag)
    OBVIOUS
  <2>1. Becomes(list)
    BY <1>4, <2>l DEF FillHoles
  <2>2. Lists(list, free + Len(entries))
    BY <1>0, <1>4, <2>l, FilledIs
  <2> QED
    BY <2>1, <2>2, Leaves
<1>5. ASSUME NEW limit \in Nat, NEW size \in Nat, NEW align \in Nat \ {0}, NEW tag \in Tag,
             NEW from_top \in BOOLEAN, Steal(limit, size, align, tag, from_top)
      PROVE  RangesInv'
  <2>f. PICK fits : fits = Candidates(limit, size, align, tag)
    OBVIOUS
  <2>b. PICK base : base = IF from_top THEN Highest(entries[Max(fits)], limit, size, align)
                           ELSE AlignUp(entries[Min(fits)].begin, align)
    OBVIOUS
  <2>1. CASE size # 0 /\ fits # {}
    <3>l. PICK list : list = Remove(entries, free, BeginOf(base), End(base, size))
      OBVIOUS
    <3>1. Becomes(list)
      BY <1>5, <2>f, <2>b, <2>1, <3>l DEF Steal
    <3>2. base \in Nat
      BY <1>0, <1>5, <2>f, <2>b, <2>1, StolenIs
    <3>3. Aligned(BeginOf(base), End(base, size))
      BY <1>5, <2>1, <3>2, WidenedIs
    <3> QED
      BY <3>l, <3>1, <3>3, RemovedLists, Leaves
  <2>2. CASE ~(size # 0 /\ fits # {})
    BY <1>5, <1>same, <2>f, <2>2 DEF Steal
  <2> QED
    BY <2>1, <2>2
<1>6. CASE Teardown
  <2>1. entries' = <<>> /\ free' = free + Len(entries)
    BY <1>6 DEF Teardown
  <2>2. Len(entries) \in Nat /\ Len(entries) + free <= NumFree
    BY DEF RangesInv, Proper
  <2>3. Proper(entries') /\ Apart(entries') /\ Len(entries') = 0
    BY <2>1, EmptyList
  <2> QED
    BY <1>0, <2>1, <2>2, <2>3 DEF RangesInv
<1>7. CASE UNCHANGED range_vars
  BY <1>7, <1>same DEF range_vars
<1> QED
  BY <1>1, <1>2, <1>3, <1>4, <1>5, <1>6, <1>7, Operations

(* The list is what its types say.                                         *)
THEOREM RangesTypeCorrect == RangesSpec => []RangesTypeOK
<1>1. RangesInv => RangesTypeOK
  BY DEF RangesInv, RangesTypeOK, Proper
<1> QED
  BY <1>1, RangesBegin, RangesStep, PTL DEF RangesSpec

(* The inductive invariant of the list: memranges_insert(),                *)
(* memranges_create_hole(), merge_neighbor_entries() and the other loops.  *)
THEOREM RangesInvariant == RangesSpec => []RangesInv
BY RangesBegin, RangesStep, PTL DEF RangesSpec

LEMMA ApartIsOrdered == Proper(entries) /\ Apart(entries) => Ordered
<1> SUFFICES ASSUME Proper(entries), Apart(entries), NEW k \in DOMAIN entries
             PROVE  /\ entries[k].begin <= entries[k].end
                    /\ entries[k].begin % Align = 0 /\ (entries[k].end + 1) % Align = 0
                    /\ k > 1 => /\ entries[k - 1].end < entries[k].begin
                                /\ \/ entries[k - 1].end + 1 < entries[k].begin
                                   \/ entries[k - 1].tag # entries[k].tag
  BY DEF Ordered
<1>0. entries \in Seq(RangeEntry) /\ DOMAIN entries = 1..Len(entries) /\ Len(entries) \in Nat
  BY DEF Proper
<1>1. Good(entries[k])
  BY DEF Proper
<1>2. ASSUME k > 1
      PROVE  /\ entries[k - 1].end < entries[k].begin
             /\ \/ entries[k - 1].end + 1 < entries[k].begin
                \/ entries[k - 1].tag # entries[k].tag
  <2>1. k - 1 \in DOMAIN entries /\ k - 1 < k
    BY <1>0, <1>2
  <2>2. entries[k - 1].end \in Nat /\ entries[k].begin \in Nat
    BY <1>0, <2>1, Fields
  <2>3. entries[k - 1].end < entries[k].begin
    BY <2>1 DEF Proper, Sorted
  <2>4. entries[k - 1].end + 1 = entries[k].begin => entries[k - 1].tag # entries[k].tag
    BY <2>1 DEF Apart
  <2> QED
    BY <2>2, <2>3, <2>4
<1> QED
  BY <1>1, <1>2 DEF Good

(* Whatever is inserted, cut out, retagged, filled or stolen, entries stay *)
(* in order, aligned, not empty and apart, and those that touch have       *)
(* different tags.                                                         *)
THEOREM RangesOrdered == RangesSpec => []Ordered
<1>1. RangesInv => Ordered
  BY ApartIsOrdered DEF RangesInv
<1> QED
  BY <1>1, RangesInvariant, PTL

-----------------------------------------------------------------------------
(* Each operation changes the tags that it is asked to.                    *)
Asked(a) ==
    \/ TagAt(entries', a) = Wanted(entries, last', a)
    \/ free < Needed(last') /\ TagAt(entries', a) = NoTag

LEMMA NeededIs ==
    ASSUME NEW op
    PROVE  /\ op.op = "insert" => Needed(op) = 2
           /\ op.op = "fill" => Needed(op) = Len(entries)
           /\ Taken(op) => Needed(op) = 1
           /\ op.op = "update" => Needed(op) = 0
           /\ op.op = "hole" => Taken(op)
           /\ op.op = "steal" /\ ~op.stolen => Needed(op) = 0 /\ ~Taken(op)
<1>t. DEFINE t == op.op
<1>1. Taken(op) => t = "hole" \/ t = "steal"
  BY DEF Taken
<1>2. Needed(op) = CASE t = "insert" -> 2 [] t = "fill" -> Len(entries) [] Taken(op) -> 1
                     [] OTHER -> 0
  BY DEF Needed
<1>3. op.op = "hole" => Taken(op)
  BY DEF Taken
<1>4. op.op = "steal" /\ ~op.stolen => ~Taken(op)
  BY DEF Taken
<1> HIDE DEF t
<1>5. /\ t = "insert" => Needed(op) = 2
      /\ t = "fill" => Needed(op) = Len(entries)
      /\ Taken(op) => Needed(op) = 1
      /\ t \in {"update", "steal"} /\ ~Taken(op) => Needed(op) = 0
  BY <1>1, <1>2
<1>6. t = op.op
  BY DEF t
<1>7. op.op = "update" => ~Taken(op)
  BY DEF Taken
<1> QED
  BY <1>3, <1>4, <1>5, <1>6, <1>7

LEMMA InsertAsAsked ==
    ASSUME RangesInv, RangesInv', NEW base \in Nat, NEW size \in Nat, NEW tag \in Tag,
           base + size <= Top, Insert(base, size, tag), NEW a \in Address
    PROVE  Asked(a)
<1>0. Proper(entries) /\ free \in Nat /\ Proper(entries') /\ a \in Int
  BY DEF RangesInv, Proper, Sorted, Address
<1>l. PICK list : list = Inserted(entries, free, base, size, tag)
  OBVIOUS
<1>o. PICK op : op = last'
  OBVIOUS
<1>1. op.op = "insert" /\ op.base = base /\ op.size = size /\ op.tag = tag
  BY <1>o DEF Insert
<1>2. entries' = list.es
  BY <1>l DEF Insert, Becomes
<1>3. Needed(op) = 2
  BY <1>1, NeededIs
<1>4. CASE size = 0
  <2>1. entries' = entries
    BY <1>2, <1>4, <1>l DEF Inserted, List
  <2>2. Wanted(entries, op, a) = TagAt(entries, a)
    BY <1>1, <1>4 DEF Wanted, Widened, Taken
  <2> QED
    BY <1>o, <2>1, <2>2 DEF Asked
<1>5. CASE size # 0
  <2>f. PICK first : first = BeginOf(base)
    OBVIOUS
  <2>e. PICK end : end = End(base, size)
    OBVIOUS
  <2>0. first \in Nat /\ end \in Nat
    BY <1>5, <2>f, <2>e, WidenedIs DEF Aligned
  <2>1. /\ \A t : Covers(list.es, a, t) =>
               (Covers(entries, a, t) /\ ~Hole(a, first, end)) \/ (t = tag /\ Hole(a, first, end))
        /\ free >= 2 => \A t :
               (Covers(entries, a, t) /\ ~Hole(a, first, end)) \/ (t = tag /\ Hole(a, first, end))
               => Covers(list.es, a, t)
    <3>1. InsertedTags(entries, free, first, end, tag, list.es)
      BY <1>0, <1>5, <1>l, <2>f, <2>e, InsertedIs
    <3> QED
      BY <1>0, <3>1 DEF InsertedTags
  <2>2. a \in Widened(op) <=> Hole(a, first, end)
    BY <1>0, <1>1, <1>5, <2>0, <2>f, <2>e DEF Widened, Hole
  <2>3. CASE Hole(a, first, end)
    <3>1. Wanted(entries, op, a) = tag
      BY <1>1, <2>2, <2>3 DEF Wanted
    <3>2. TagAt(entries', a) = tag \/ TagAt(entries', a) = NoTag
      BY <1>0, <1>2, <2>1, <2>3, ThisTag
    <3>3. free >= 2 => TagAt(entries', a) = tag
      BY <1>0, <1>2, <2>1, <2>3, ThisTag
    <3> QED
      BY <1>0, <1>3, <1>o, <3>1, <3>2, <3>3 DEF Asked
  <2>4. CASE ~Hole(a, first, end)
    <3>1. Wanted(entries, op, a) = TagAt(entries, a)
      BY <1>1, <2>2, <2>4 DEF Wanted, Taken
    <3>2. TagAt(entries', a) = TagAt(entries, a) \/ TagAt(entries', a) = NoTag
      BY <1>0, <1>2, <2>1, <2>4, SameTag
    <3>3. free >= 2 => TagAt(entries', a) = TagAt(entries, a)
      BY <1>0, <1>2, <2>1, <2>4, SameTag
    <3> QED
      BY <1>0, <1>3, <1>o, <3>1, <3>2, <3>3 DEF Asked
  <2> QED
    BY <2>3, <2>4
<1> QED
  BY <1>4, <1>5

(* Of memranges_create_hole() and memranges_steal().                       *)
LEMMA TakenAsAsked ==
    ASSUME RangesInv, RangesInv', NEW base \in Nat, NEW size \in Nat, size # 0,
           NEW list, list = Remove(entries, free, BeginOf(base), End(base, size)), Becomes(list),
           NEW op, op = last', Taken(op), op.base = base, op.size = size, NEW a \in Address
    PROVE  Asked(a)
<1>0. Proper(entries) /\ free \in Nat /\ Proper(entries') /\ a \in Int
  BY DEF RangesInv, Proper, Sorted, Address
<1>2. entries' = list.es
  BY DEF Becomes
<1>3. Needed(op) = 1
  BY NeededIs
<1>f. PICK first : first = BeginOf(base)
  OBVIOUS
<1>e. PICK end : end = End(base, size)
  OBVIOUS
<1>4. Aligned(first, end)
  BY <1>f, <1>e, WidenedIs
<1>5. first \in Nat /\ end \in Nat
  BY <1>4 DEF Aligned
<1>6. /\ \A t : Covers(list.es, a, t) => Covers(entries, a, t) /\ ~Hole(a, first, end)
      /\ free > 0 => \A t : Covers(entries, a, t) /\ ~Hole(a, first, end) => Covers(list.es, a, t)
  <2>1. list = Remove(entries, free, first, end)
    BY <1>f, <1>e
  <2>2. /\ \A b \in Int : \A t :
              Covers(list.es, b, t) => Covers(entries, b, t) /\ ~Hole(b, first, end)
        /\ free > 0 => \A b \in Int : \A t : Covers(entries, b, t) /\ ~Hole(b, first, end)
                                        => Covers(list.es, b, t)
    BY <1>0, <1>4, <2>1, Removed
  <2> QED
    BY <1>0, <2>2
<1>7. a \in Widened(op) <=> Hole(a, first, end)
  BY <1>0, <1>5, <1>f, <1>e DEF Widened, Hole
<1>8. CASE Hole(a, first, end)
  <2>1. Wanted(entries, op, a) = NoTag
    BY <1>7, <1>8 DEF Wanted, Taken
  <2>2. TagAt(entries', a) = NoTag
    BY <1>0, <1>2, <1>6, <1>8, NoneOfThem
  <2> QED
    BY <2>1, <2>2 DEF Asked
<1>9. CASE ~Hole(a, first, end)
  <2>1. Wanted(entries, op, a) = TagAt(entries, a)
    BY <1>7, <1>9 DEF Wanted, Taken
  <2>2. TagAt(entries', a) = TagAt(entries, a) \/ TagAt(entries', a) = NoTag
    BY <1>0, <1>2, <1>6, <1>9, SameTag
  <2>3. free > 0 => TagAt(entries', a) = TagAt(entries, a)
    BY <1>0, <1>2, <1>6, <1>9, SameTag
  <2> QED
    BY <1>0, <1>3, <2>1, <2>2, <2>3 DEF Asked
<1> QED
  BY <1>8, <1>9

(* Nothing happens to the list.                                            *)
LEMMA KeptAsAsked ==
    ASSUME entries' = entries, NEW a,
           Wanted(entries, last', a) = TagAt(entries, a)
    PROVE  Asked(a)
BY DEF Asked

LEMMA HoleAsAsked ==
    ASSUME RangesInv, RangesInv', NEW base \in Nat, NEW size \in Nat,
           CreateHole(base, size), NEW a \in Address
    PROVE  Asked(a)
<1>o. PICK op : op = last'
  OBVIOUS
<1>1. op.op = "hole" /\ op.base = base /\ op.size = size
  BY <1>o DEF CreateHole
<1>2. Taken(op)
  BY <1>1 DEF Taken
<1>3. CASE size = 0
  <2>1. entries' = entries
    BY <1>3 DEF CreateHole
  <2>2. Wanted(entries, op, a) = TagAt(entries, a)
    BY <1>1, <1>3 DEF Wanted, Widened, Taken
  <2> QED
    BY <1>o, <2>1, <2>2, KeptAsAsked
<1>4. CASE size # 0
  <2>l. PICK list : list = Remove(entries, free, BeginOf(base), End(base, size))
    OBVIOUS
  <2>1. Becomes(list)
    BY <1>4, <2>l DEF CreateHole
  <2> QED
    BY <1>o, <1>1, <1>2, <1>4, <2>l, <2>1, TakenAsAsked
<1> QED
  BY <1>3, <1>4

LEMMA StealAsAsked ==
    ASSUME RangesInv, RangesInv', NEW limit \in Nat, NEW size \in Nat,
           NEW align \in Nat \ {0}, NEW tag \in Tag, NEW from_top \in BOOLEAN,
           Steal(limit, size, align, tag, from_top), NEW a \in Address
    PROVE  Asked(a)
<1>f. PICK fits : fits = Candidates(limit, size, align, tag)
  OBVIOUS
<1>b. PICK base : base = IF from_top THEN Highest(entries[Max(fits)], limit, size, align)
                         ELSE AlignUp(entries[Min(fits)].begin, align)
  OBVIOUS
<1>o. PICK op : op = last'
  OBVIOUS
<1>1. CASE size # 0 /\ fits # {}
  <2>l. PICK list : list = Remove(entries, free, BeginOf(base), End(base, size))
    OBVIOUS
  <2>1. Becomes(list)
    BY <1>f, <1>b, <1>1, <2>l DEF Steal
  <2>2. base \in Nat
    BY <1>f, <1>b, <1>1, StolenIs DEF RangesInv
  <2>3. op.op = "steal" /\ op.stolen /\ op.base = base /\ op.size = size
    BY <1>f, <1>b, <1>o, <1>1 DEF Steal
  <2>4. Taken(op)
    BY <2>3 DEF Taken
  <2> QED
    BY <1>o, <1>1, <2>l, <2>1, <2>2, <2>3, <2>4, TakenAsAsked
<1>2. CASE ~(size # 0 /\ fits # {})
  <2>1. entries' = entries
    BY <1>f, <1>2 DEF Steal
  <2>2. op.op = "steal" /\ ~op.stolen
    BY <1>f, <1>o, <1>2 DEF Steal
  <2>3. Wanted(entries, op, a) = TagAt(entries, a)
    BY <2>2 DEF Wanted, Taken
  <2> QED
    BY <1>o, <2>1, <2>3, KeptAsAsked
<1> QED
  BY <1>1, <1>2

LEMMA UpdateAsAsked ==
    ASSUME RangesInv, RangesInv', NEW old \in Tag, NEW new \in Tag, UpdateTag(old, new),
           NEW a \in Address
    PROVE  Asked(a)
<1>0. Proper(entries) /\ free \in Nat /\ Proper(entries') /\ a \in Int
  BY DEF RangesInv, Proper, Sorted, Address
<1>l. PICK list : list = Retagged(entries, free, old, new)
  OBVIOUS
<1>o. PICK op : op = last'
  OBVIOUS
<1>1. op.op = "update" /\ op.old = old /\ op.new = new
  BY <1>o DEF UpdateTag
<1>2. entries' = list.es
  BY <1>l DEF UpdateTag, Becomes
<1>3. \A t : Covers(list.es, a, t) <=>
          \/ Covers(entries, a, old) /\ t = new
          \/ Covers(entries, a, t) /\ t # old
  BY <1>0, <1>l, Updated
<1>4. Wanted(entries, op, a) = IF TagAt(entries, a) = old THEN new ELSE TagAt(entries, a)
  BY <1>1 DEF Wanted, Taken
<1>5. CASE TagAt(entries, a) = old
  <2>1. Covers(entries, a, old)
    BY <1>0, <1>5, TagIs, TagAssumption
  <2>2. \A t : Covers(entries, a, t) => t = old
    BY <1>0, <1>5, TagIs
  <2>3. Covers(entries', a, new) /\ \A t : Covers(entries', a, t) => t = new
    BY <1>2, <1>3, <2>1, <2>2
  <2>4. TagAt(entries', a) = new
    BY <1>0, <2>3, ThisTag
  <2> QED
    BY <1>o, <1>4, <1>5, <2>4 DEF Asked
<1>6. CASE TagAt(entries, a) # old
  <2>1. ~Covers(entries, a, old)
    BY <1>0, <1>6, TagIs
  <2>2. \A t : Covers(entries', a, t) <=> Covers(entries, a, t)
    BY <1>2, <1>3, <2>1
  <2>3. TagAt(entries', a) = TagAt(entries, a)
    BY <1>0, <2>2, SameTag
  <2> QED
    BY <1>o, <1>4, <1>6, <2>3 DEF Asked
<1> QED
  BY <1>5, <1>6

LEMMA FillAsAsked ==
    ASSUME RangesInv, RangesInv', NEW limit \in Nat, NEW tag \in Tag,
           limit <= Top, limit % Align = 0, Fillable(entries, limit, tag),
           FillHoles(limit, tag), NEW a \in Address
    PROVE  Asked(a)
<1>0. Proper(entries) /\ free \in Nat /\ Proper(entries') /\ a \in Int /\ Len(entries) \in Nat
  BY DEF RangesInv, Proper, Sorted, Address
<1>l. PICK list : list = Filled(entries, free, limit, tag)
  OBVIOUS
<1>o. PICK op : op = last'
  OBVIOUS
<1>1. op.op = "fill" /\ op.limit = limit /\ op.tag = tag
  BY <1>o DEF FillHoles
<1>2. entries' = list.es
  BY <1>l DEF FillHoles, Becomes
<1>3. Needed(op) = Len(entries)
  BY <1>1, NeededIs
<1>4. Fitted(entries, free, limit, tag, list.es)
  BY <1>0, <1>l, FilledIs
<1>5. /\ \A t : Covers(entries', a, t) =>
             Covers(entries, a, t) \/ (t = tag /\ Unfilled(entries, limit, a))
      /\ \A t : Covers(entries, a, t) => Covers(entries', a, t)
      /\ free >= Len(entries) /\ Unfilled(entries, limit, a) => Covers(entries', a, tag)
  BY <1>0, <1>2, <1>4 DEF Fitted
<1>6. a \in ToFill(entries, op) <=> Unfilled(entries, limit, a)
  <2>1. TagAt(entries, a) = NoTag <=> \A t : ~Covers(entries, a, t)
    BY <1>0, TagIs
  <2>2. entries # <<>> <=> Len(entries) > 0
    BY <1>0, EmptySeq DEF Proper
  <2>3. Len(entries) > 0 => entries[1].end \in Nat
    BY <1>0, Fields DEF Proper
  <2>4. a \in ToFill(entries, op) <=>
            /\ entries # <<>> /\ a < limit
            /\ a > entries[1].end /\ TagAt(entries, a) = NoTag
    BY <1>1 DEF ToFill
  <2>5. Len(entries) > 0 => (a > entries[1].end <=> entries[1].end < a)
    BY <1>0, <2>3
  <2> QED
    BY <2>1, <2>2, <2>4, <2>5 DEF Unfilled
<1>7. CASE Unfilled(entries, limit, a)
  <2>1. Wanted(entries, op, a) = tag
    BY <1>1, <1>6, <1>7 DEF Wanted, Taken
  <2>2. \A t : Covers(entries', a, t) => t = tag
    BY <1>5, <1>7 DEF Unfilled
  <2>3. TagAt(entries', a) = tag \/ TagAt(entries', a) = NoTag
    BY <1>0, <2>2, ThisTag
  <2>4. free >= Len(entries) => TagAt(entries', a) = tag
    BY <1>0, <1>5, <1>7, <2>2, ThisTag
  <2> QED
    BY <1>0, <1>3, <1>o, <2>1, <2>3, <2>4 DEF Asked
<1>8. CASE ~Unfilled(entries, limit, a)
  <2>1. Wanted(entries, op, a) = TagAt(entries, a)
    BY <1>1, <1>6, <1>8 DEF Wanted, Taken
  <2>2. \A t : Covers(entries', a, t) <=> Covers(entries, a, t)
    BY <1>5, <1>8
  <2>3. TagAt(entries', a) = TagAt(entries, a)
    BY <1>0, <2>2, SameTag
  <2> QED
    BY <1>o, <2>1, <2>3 DEF Asked
<1> QED
  BY <1>7, <1>8

TagsStep == last'.op # "none" => \A a \in Address : Asked(a)

LEMMA StepsAsAsked == RangesInv /\ RangesInv' /\ [RangesNext]_range_vars => [TagsStep]_range_vars
<1> SUFFICES ASSUME RangesInv, RangesInv', RangesNext, last'.op # "none", NEW a \in Address
             PROVE  Asked(a)
  BY DEF TagsStep
<1>1. ASSUME Teardown PROVE FALSE
  BY <1>1 DEF Teardown, None
<1> QED
  BY <1>1, Operations, InsertAsAsked, HoleAsAsked, UpdateAsAsked, FillAsAsked, StealAsAsked

LEMMA TagsSteps == TagsAsAsked <=> [][TagsStep]_range_vars
BY DEF TagsAsAsked, TagsStep, Asked

(* Each operation gives the addresses the tags it was asked to give them,  *)
(* and no others; if entries ran out an address may be left without a tag, *)
(* and never with a wrong one.                                             *)
THEOREM TagsChange == RangesSpec => TagsAsAsked
BY StepsAsAsked, TagsSteps, RangesInvariant, PTL DEF RangesSpec

-----------------------------------------------------------------------------
(* The base that memranges_steal() returns.                                *)
LEMMA LeastIs ==
    ASSUME NEW S, S \subseteq Nat, NEW b \in S, \A x \in S : b <= x
    PROVE  Min(S) = b
<1>1. Min(S) \in S /\ \A x \in S : Min(S) <= x
  BY DEF Min
<1>2. Min(S) \in Nat /\ b \in Nat /\ Min(S) <= b /\ b <= Min(S)
  BY <1>1
<1> QED
  BY <1>2

LEMMA GreatestIs ==
    ASSUME NEW S, S \subseteq Nat, NEW b \in S, \A x \in S : x <= b
    PROVE  Max(S) = b
<1>0. \A x \in S : b >= x
  OBVIOUS
<1>1. Max(S) \in S /\ \A x \in S : Max(S) >= x
  BY <1>0 DEF Max
<1>2. Max(S) \in Nat /\ b \in Nat /\ Max(S) >= b /\ Max(S) <= b
  BY <1>1
<1> QED
  BY <1>2

(* A base that fits in an entry.                                           *)
FitsIn(b, k, limit, size, align, tag) ==
    /\ b % align = 0 /\ b + size - 1 <= limit
    /\ entries[k].tag = tag
    /\ entries[k].begin <= b /\ b + size - 1 <= entries[k].end

LEMMA CandidateIs ==
    ASSUME Proper(entries), NEW limit \in Nat, NEW size \in Nat, size # 0,
           NEW align \in Nat \ {0}, NEW tag, NEW k \in DOMAIN entries,
           NEW u, u = AlignUp(entries[k].begin, align)
    PROVE  /\ u \in Nat /\ u % align = 0
           /\ \A b \in Nat : FitsIn(b, k, limit, size, align, tag) =>
                  u <= b /\ k \in Candidates(limit, size, align, tag)
           /\ k \in Candidates(limit, size, align, tag) =>
                  FitsIn(u, k, limit, size, align, tag)
<1>b. PICK begin \in Nat : begin = entries[k].begin
  BY Fields DEF Proper
<1>e. PICK end \in Nat : end = entries[k].end
  BY Fields DEF Proper
<1>1. /\ u \in Nat /\ u % align = 0 /\ begin <= u
      /\ \A y \in Nat : y % align = 0 /\ begin <= y => u <= y
  <2>1. u = AlignUp(begin, align)
    BY <1>b
  <2> QED
    BY <2>1, Up, Zenon
<1>2. k \in Candidates(limit, size, align, tag) <=>
          entries[k].tag = tag /\ u + size - 1 <= end /\ u + size - 1 <= limit
  BY <1>b, <1>e DEF Candidates
<1>3. ASSUME NEW b \in Nat, FitsIn(b, k, limit, size, align, tag)
      PROVE  u <= b /\ k \in Candidates(limit, size, align, tag)
  <2>1. /\ b % align = 0 /\ begin <= b /\ b + size - 1 <= end /\ b + size - 1 <= limit
        /\ entries[k].tag = tag
    BY <1>3, <1>b, <1>e DEF FitsIn
  <2>2. u <= b
    BY <1>1, <2>1, Zenon
  <2>3. u + size - 1 <= end /\ u + size - 1 <= limit
    BY <1>1, <2>1, <2>2
  <2> QED
    BY <1>2, <2>1, <2>2, <2>3
<1>4. ASSUME k \in Candidates(limit, size, align, tag)
      PROVE  FitsIn(u, k, limit, size, align, tag)
  BY <1>1, <1>2, <1>4, <1>b, <1>e DEF FitsIn
<1> QED
  BY <1>1, <1>3, <1>4

LEMMA FittingIs ==
    ASSUME Proper(entries), NEW limit \in Nat, NEW size \in Nat, size # 0,
           NEW align \in Nat \ {0}, NEW tag,
           NEW op, op.limit = limit, op.size = size, op.align = align, op.tag = tag
    PROVE  /\ Fitting(op) \subseteq Nat
           /\ \A b \in Nat : b \in Fitting(op) <=>
                  \E k \in DOMAIN entries : FitsIn(b, k, limit, size, align, tag)
<1>1. \A b \in Address : b \in Nat
  BY Numbers DEF Address
<1>2. ASSUME NEW b \in Nat, NEW k \in DOMAIN entries, FitsIn(b, k, limit, size, align, tag)
      PROVE  b \in Address
  <2>1. entries[k].end \in Nat /\ entries[k].end < Top
    BY Fields DEF Proper
  <2>2. b + size - 1 <= entries[k].end
    BY <1>2 DEF FitsIn
  <2> QED
    BY <2>1, <2>2, Numbers DEF Address
<1>3. \A b : b \in Fitting(op) <=>
          b \in Address /\ \E k \in DOMAIN entries : FitsIn(b, k, limit, size, align, tag)
  BY DEF Fitting, FitsIn
<1> QED
  BY <1>1, <1>2, <1>3

LEMMA LowestIs ==
    ASSUME Proper(entries), NEW limit \in Nat, NEW size \in Nat, size # 0,
           NEW align \in Nat \ {0}, NEW tag,
           NEW op, op.limit = limit, op.size = size, op.align = align, op.tag = tag,
           NEW fits, fits = Candidates(limit, size, align, tag), fits # {},
           NEW base, base = AlignUp(entries[Min(fits)].begin, align)
    PROVE  base = Min(Fitting(op))
<1>0. DOMAIN entries = 1..Len(entries) /\ Len(entries) \in Nat
  BY DEF Proper
<1>1. fits \subseteq DOMAIN entries
  BY DEF Candidates
<1>m. PICK m : m = Min(fits)
  OBVIOUS
<1>2. m \in fits /\ m \in DOMAIN entries /\ \A k \in fits : m <= k
  BY <1>0, <1>1, <1>m, Extremes
<1>3. base \in Nat /\ FitsIn(base, m, limit, size, align, tag)
  BY <1>2, <1>m, CandidateIs
<1>4. base \in Fitting(op)
  BY <1>2, <1>3, FittingIs
<1>5. ASSUME NEW b \in Fitting(op) PROVE base <= b
  <2>1. b \in Nat
    BY FittingIs
  <2>2. PICK k \in DOMAIN entries : FitsIn(b, k, limit, size, align, tag)
    BY <2>1, FittingIs
  <2>u. PICK u : u = AlignUp(entries[k].begin, align)
    OBVIOUS
  <2>3. u <= b /\ k \in fits
    BY <2>1, <2>2, <2>u, CandidateIs
  <2>4. CASE k = m
    BY <1>m, <2>3, <2>4, <2>u
  <2>5. CASE k # m
    <3>1. m < k
      BY <1>0, <1>2, <2>3, <2>5
    <3>2. entries[m].end < entries[k].begin
      BY <1>2, <3>1 DEF Proper, Sorted
    <3>3. entries[m].end \in Nat /\ entries[k].begin \in Nat
      BY <1>2, Fields DEF Proper
    <3>4. base + size - 1 <= entries[m].end /\ entries[k].begin <= b
      BY <1>3, <2>2 DEF FitsIn
    <3> QED
      BY <1>3, <2>1, <3>2, <3>3, <3>4
  <2> QED
    BY <2>4, <2>5
<1>6. Fitting(op) \subseteq Nat
  BY FittingIs
<1> QED
  BY <1>4, <1>5, <1>6, LeastIs

LEMMA HighestIs ==
    ASSUME Proper(entries), NEW limit \in Nat, NEW size \in Nat, size # 0,
           NEW align \in Nat \ {0}, NEW tag,
           NEW op, op.limit = limit, op.size = size, op.align = align, op.tag = tag,
           NEW fits, fits = Candidates(limit, size, align, tag), fits # {},
           NEW base, base = Highest(entries[Max(fits)], limit, size, align)
    PROVE  base = Max(Fitting(op))
<1>0. DOMAIN entries = 1..Len(entries) /\ Len(entries) \in Nat
  BY DEF Proper
<1>1. fits \subseteq DOMAIN entries
  BY DEF Candidates
<1>m. PICK m : m = Max(fits)
  OBVIOUS
<1>2. m \in fits /\ m \in DOMAIN entries /\ \A k \in fits : k <= m
  BY <1>0, <1>1, <1>m, Extremes
<1>b. PICK begin \in Nat : begin = entries[m].begin
  BY <1>2, Fields DEF Proper
<1>e. PICK end \in Nat : end = entries[m].end
  BY <1>2, Fields DEF Proper
<1>u. PICK u : u = AlignUp(entries[m].begin, align)
  OBVIOUS
<1>3. u \in Nat /\ u % align = 0 /\ FitsIn(u, m, limit, size, align, tag)
  BY <1>2, <1>u, CandidateIs
<1>4. begin <= u /\ u + size - 1 <= end /\ u + size - 1 <= limit /\ entries[m].tag = tag
  BY <1>3, <1>b, <1>e DEF FitsIn
<1>l. PICK last_end : last_end = Min({limit, end})
  OBVIOUS
<1>5. last_end = IF limit <= end THEN limit ELSE end
  BY <1>l, MaxMin
<1>c. PICK c \in Nat : c = last_end - size + 1
  BY <1>3, <1>4, <1>5
<1>6. base = AlignDown(c, align)
  BY <1>m, <1>e, <1>l, <1>c DEF Highest
<1>7. /\ base \in Nat /\ base % align = 0 /\ base <= c
      /\ \A y \in Nat : y % align = 0 /\ y <= c => y <= base
  BY <1>6, Down
<1>8. u <= base
  <2>1. u <= c
    BY <1>3, <1>4, <1>5, <1>c
  <2> QED
    BY <1>3, <1>7, <2>1, Zenon
<1>9. FitsIn(base, m, limit, size, align, tag)
  <2>1. begin <= base /\ base + size - 1 <= end /\ base + size - 1 <= limit
    <3>1. c + size - 1 <= end /\ c + size - 1 <= limit
      BY <1>5, <1>c
    <3>2. base \in Nat /\ base <= c
      BY <1>7
    <3> QED
      BY <1>3, <1>4, <1>8, <3>1, <3>2
  <2> QED
    BY <1>4, <1>7, <1>b, <1>e, <2>1 DEF FitsIn
<1>10. base \in Fitting(op)
  BY <1>2, <1>7, <1>9, FittingIs
<1>11. ASSUME NEW b \in Fitting(op) PROVE b <= base
  <2>1. b \in Nat
    BY FittingIs
  <2>2. PICK k \in DOMAIN entries : FitsIn(b, k, limit, size, align, tag)
    BY <2>1, FittingIs
  <2>v. PICK v : v = AlignUp(entries[k].begin, align)
    OBVIOUS
  <2>3. k \in fits
    BY <2>1, <2>2, <2>v, CandidateIs
  <2>4. CASE k = m
    <3>1. b % align = 0 /\ b + size - 1 <= limit /\ b + size - 1 <= end
      BY <1>e, <2>2, <2>4 DEF FitsIn
    <3>2. b <= c
      BY <1>5, <1>c, <2>1, <3>1
    <3> QED
      BY <1>7, <2>1, <3>1, <3>2, Zenon
  <2>5. CASE k # m
    <3>1. k < m
      BY <1>0, <1>2, <2>3, <2>5
    <3>2. entries[k].end < entries[m].begin
      BY <1>2, <3>1 DEF Proper, Sorted
    <3>3. entries[k].end \in Nat
      BY Fields DEF Proper
    <3>4. b + size - 1 <= entries[k].end
      BY <2>2 DEF FitsIn
    <3>5. b < begin
      BY <1>b, <2>1, <3>2, <3>3, <3>4
    <3>6. base \in Nat
      BY <1>7
    <3> QED
      BY <1>3, <1>4, <1>8, <2>1, <3>5, <3>6
  <2> QED
    BY <2>4, <2>5
<1>12. Fitting(op) \subseteq Nat
  BY FittingIs
<1> QED
  BY <1>10, <1>11, <1>12, GreatestIs

(* memranges_steal() finds a range whenever there is one, and the lowest   *)
(* or the highest of them: although it looks at one place of each entry,   *)
(* and stops at the first or takes the last.                               *)
Best(op) ==
    op.op = "steal" /\ op.size > 0 =>
        /\ op.stolen <=> Fitting(op) # {}
        /\ op.stolen =>
              op.base = IF op.top THEN Max(Fitting(op)) ELSE Min(Fitting(op))

LEMMA StealsBest ==
    ASSUME RangesInv, NEW limit \in Nat, NEW size \in Nat, NEW align \in Nat \ {0},
           NEW tag \in Tag, NEW from_top \in BOOLEAN,
           Steal(limit, size, align, tag, from_top)
    PROVE  Best(last')
<1>0. Proper(entries)
  BY DEF RangesInv
<1>f. PICK fits : fits = Candidates(limit, size, align, tag)
  OBVIOUS
<1>b. PICK base : base = IF from_top THEN Highest(entries[Max(fits)], limit, size, align)
                         ELSE AlignUp(entries[Min(fits)].begin, align)
  OBVIOUS
<1>o. PICK op : op = last'
  OBVIOUS
<1>1. /\ op.limit = limit /\ op.size = size /\ op.align = align /\ op.tag = tag
      /\ op.top = from_top
      /\ op.stolen <=> size # 0 /\ fits # {}
      /\ size # 0 /\ fits # {} => op.base = base
  BY <1>f, <1>b, <1>o DEF Steal
<1>2. CASE size = 0
  BY <1>o, <1>1, <1>2 DEF Best
<1>3. CASE size # 0
  <2>1. ASSUME fits # {} PROVE Fitting(op) # {}
    <3>1. PICK k \in DOMAIN entries : k \in fits
      BY <1>f, <2>1 DEF Candidates
    <3>u. PICK u : u = AlignUp(entries[k].begin, align)
      OBVIOUS
    <3>2. u \in Nat /\ FitsIn(u, k, limit, size, align, tag)
      BY <1>0, <1>3, <1>f, <3>1, <3>u, CandidateIs
    <3>3. u \in Fitting(op)
      BY <1>0, <1>1, <1>3, <3>2, FittingIs
    <3> QED
      BY <3>3
  <2>2. ASSUME NEW b \in Fitting(op) PROVE fits # {}
    <3>1. b \in Nat
      BY <1>0, <1>1, <1>3, FittingIs
    <3>2. PICK k \in DOMAIN entries : FitsIn(b, k, limit, size, align, tag)
      BY <1>0, <1>1, <1>3, <3>1, FittingIs
    <3>u. PICK u : u = AlignUp(entries[k].begin, align)
      OBVIOUS
    <3>3. k \in fits
      BY <1>0, <1>3, <1>f, <3>1, <3>2, <3>u, CandidateIs
    <3> QED
      BY <3>3
  <2>3. op.stolen <=> Fitting(op) # {}
    BY <1>1, <1>3, <2>1, <2>2
  <2>4. ASSUME fits # {}, from_top PROVE op.base = Max(Fitting(op))
    <3>1. base = Highest(entries[Max(fits)], limit, size, align)
      BY <1>b, <2>4
    <3> QED
      BY <1>0, <1>1, <1>3, <1>f, <2>4, <3>1, HighestIs
  <2>5. ASSUME fits # {}, ~from_top PROVE op.base = Min(Fitting(op))
    <3>1. base = AlignUp(entries[Min(fits)].begin, align)
      BY <1>b, <2>5
    <3> QED
      BY <1>0, <1>1, <1>3, <1>f, <2>5, <3>1, LowestIs
  <2> QED
    BY <1>o, <1>1, <1>3, <2>3, <2>4, <2>5 DEF Best
<1> QED
  BY <1>2, <1>3

BestStep == Best(last')

LEMMA StepsBest == RangesInv /\ [RangesNext]_range_vars => [BestStep]_range_vars
<1> SUFFICES ASSUME RangesInv, RangesNext, last'.op = "steal" PROVE Best(last')
  BY DEF Best, BestStep
<1>1. \E limit \in Nat, size \in Nat, align \in Nat \ {0}, tag \in Tag, from_top \in BOOLEAN :
          Steal(limit, size, align, tag, from_top)
  <2>1. ASSUME NEW base, NEW size, NEW tag, Insert(base, size, tag) PROVE FALSE
    BY <2>1 DEF Insert
  <2>2. ASSUME NEW base, NEW size, CreateHole(base, size) PROVE FALSE
    BY <2>2 DEF CreateHole
  <2>3. ASSUME NEW t, NEW u, UpdateTag(t, u) PROVE FALSE
    BY <2>3 DEF UpdateTag
  <2>4. ASSUME NEW limit, NEW tag, FillHoles(limit, tag) PROVE FALSE
    BY <2>4 DEF FillHoles
  <2>5. ASSUME Teardown PROVE FALSE
    BY <2>5 DEF Teardown, None
  <2> QED
    BY <2>1, <2>2, <2>3, <2>4, <2>5, Operations
<1> QED
  BY <1>1, StealsBest

LEMMA BestSteps == BestBase <=> [][BestStep]_range_vars
BY DEF BestBase, Best, BestStep

(* Where memranges_steal() finds a range it is the lowest of its alignment *)
(* that fits, or the highest.                                              *)
THEOREM StealsTheBest == RangesSpec => BestBase
BY StepsBest, BestSteps, RangesInvariant, PTL DEF RangesSpec

-----------------------------------------------------------------------------
(* The numbers that a bit stands for.                                      *)
LEMMA PagesIs ==
    /\ Pages \in Nat /\ Top = Pages * Align /\ Pages <= Top
    /\ AddressBits \in Nat /\ Low \in Nat /\ FourG \in Nat /\ Low < FourG /\ FourG <= Pages
<1>1. PICK q \in Nat : Top = Align * q
  BY Numbers, Quotient
<1>2. Pages \in Nat
  BY Numbers DEF Pages
<1>3. Top = (Align * Pages) + (Top % Align)
  BY Numbers DEF Pages
<1>4. Top = Align * Pages
  BY <1>2, <1>3, Numbers
<1>5. Pages <= Align * Pages
  BY <1>2, Numbers
<1> QED
  BY <1>2, <1>4, <1>5, Numbers, PageAssumption

LEMMA PowerIs == Power \subseteq Nat \ {0} /\ 1 \in Power
<1>1. \A k \in Nat : 2^k \in Int
  OBVIOUS
<1>2. AddressBits \in Nat /\ Pages <= 2^AddressBits /\ Pages \in Nat /\ Pages >= 1
  BY PagesIs, PageAssumption
<1>3. 2^AddressBits \in Int
  BY <1>1, <1>2
<1>4. 1 \in 1..2^AddressBits
  BY <1>2, <1>3
<1>5. 1 = 2^0 /\ 0 \in 0..AddressBits
  BY <1>2
<1>6. 1 \in Power
  BY <1>4, <1>5 DEF Power
<1>7. Power \subseteq 1..2^AddressBits
  BY DEF Power
<1> QED
  BY <1>3, <1>6, <1>7

LEMMA HighBitIs ==
    ASSUME NEW n \in Nat \ {0}
    PROVE  HighBit(n) \in 1..n
<1> DEFINE S == {p \in Power : p <= n}
<1>1. S \subseteq 1..n /\ 1 \in S
  <2>1. ASSUME NEW p \in Power, p <= n PROVE p \in 1..n
    BY <2>1, PowerIs
  <2>2. 1 \in Power /\ 1 <= n
    BY PowerIs
  <2> QED
    BY <2>1, <2>2
<1>2. Max(S) \in S
  BY <1>1, Extremes
<1> QED
  BY <1>1, <1>2 DEF HighBit

LEMMA LowBitIs ==
    ASSUME NEW n \in Nat \ {0}
    PROVE  LowBit(n) \in 1..n
<1> DEFINE S == {p \in Power : n % p = 0}
<1>1. ASSUME NEW p \in Power, n % p = 0 PROVE p \in 1..n
  <2>1. p \in Nat \ {0}
    BY PowerIs
  <2>2. PICK q \in Nat : n = p * q
    BY <1>1, <2>1, Quotient
  <2>3. q # 0
    BY <2>1, <2>2
  <2>4. p <= p * q
    BY <2>1, <2>3
  <2> QED
    BY <2>1, <2>2, <2>4
<1>2. 1 \in S
  BY PowerIs
<1>3. S \subseteq 1..n
  BY <1>1
<1>4. Max(S) \in S
  BY <1>2, <1>3, Extremes
<1> QED
  BY <1>3, <1>4 DEF LowBit

(* A block is not empty, and no larger than what is left.                  *)
LEMMA BlockIs ==
    ASSUME NEW base \in Nat, NEW size \in Nat \ {0}
    PROVE  Block(base, size) \in 1..size
<1>1. HighBit(size) \in 1..size
  BY HighBitIs
<1>2. CASE base = 0 \/ LowBit(base) > HighBit(size)
  BY <1>1, <1>2 DEF Block
<1>3. CASE ~(base = 0 \/ LowBit(base) > HighBit(size))
  <2>1. LowBit(base) \in 1..base
    BY <1>3, LowBitIs
  <2>2. Block(base, size) = LowBit(base)
    BY <1>3 DEF Block
  <2> QED
    BY <1>1, <1>3, <2>1, <2>2
<1> QED
  BY <1>2, <1>3

-----------------------------------------------------------------------------
(* calc_var_mtrr_range().                                                  *)

(* The loop ends: it is a function of what is left.                        *)
Piece(first, length, size, type) ==
    [base |-> first + length - size, size |-> Block(first + length - size, size),
     type |-> type]
Left(first, length, size) == size - Block(first + length - size, size)

Cutting(g, first, length, type) ==
    [size \in 0..length |->
        IF size = 0 THEN <<>>
        ELSE <<Piece(first, length, size, type)>> \o g[Left(first, length, size)]]

Cuts(m, first, length, type) ==
    /\ Blocks(first, length, type) = m[length]
    /\ m[0] = <<>>
    /\ \A size \in 1..length :
          m[size] = <<Piece(first, length, size, type)>> \o m[Left(first, length, size)]

LEMMA LeftIs ==
    ASSUME NEW first \in Nat, NEW length \in Nat, NEW size \in 1..length
    PROVE  /\ Left(first, length, size) \in 0..size - 1
           /\ first + length - size \in Nat
           /\ Block(first + length - size, size) \in 1..size
<1>b. PICK b : b = first + length - size
  OBVIOUS
<1>1. b \in Nat /\ size \in Nat \ {0}
  BY <1>b
<1>2. Block(b, size) \in 1..size
  BY <1>1, BlockIs
<1> QED
  BY <1>b, <1>1, <1>2 DEF Left

LEMMA BlocksDefined ==
    ASSUME NEW first \in Nat, NEW length \in Nat, NEW type
    PROVE  \E m : Cuts(m, first, length, type)
<1> DEFINE C(g) == Cutting(g, first, length, type)
           Built(g, k) == \A i \in 0..length : i <= k => g[i] = C(g)[i]
           D == {k \in Nat : \E g : Built(g, k)}
<1>1. 0 \in D
  <2> DEFINE g == [i \in {0} |-> <<>>]
  <2>1. \A i \in 0..length : i <= 0 => g[i] = C(g)[i]
    BY DEF Cutting
  <2> HIDE DEF g
  <2> QED
    BY <2>1
<1>2. ASSUME NEW k \in Nat, k \in D PROVE k + 1 \in D
  <2>1. PICK g : Built(g, k)
    BY <1>2
  <2> DEFINE h == C(g)
  <2>2. ASSUME NEW i \in 0..length, i <= k + 1
        PROVE  h[i] = C(h)[i]
    <3>1. CASE i = 0
      BY <3>1 DEF Cutting
    <3>2. CASE i # 0
      <4>l. PICK l : l = Left(first, length, i)
        OBVIOUS
      <4>0. i \in 1..length
        BY <3>2
      <4>1. l \in 0..i - 1
        BY <4>0, <4>l, LeftIs
      <4>5. l \in 0..length /\ l <= k
        BY <2>2, <4>0, <4>1
      <4>2. h[l] = g[l]
        BY <2>1, <4>5
      <4>3. h[i] = <<Piece(first, length, i, type)>> \o g[l]
        BY <3>2, <4>l DEF Cutting
      <4> HIDE DEF h
      <4>4. C(h)[i] = <<Piece(first, length, i, type)>> \o h[l]
        BY <3>2, <4>l DEF Cutting
      <4> QED
        BY <4>2, <4>3, <4>4
    <3> QED
      BY <3>1, <3>2
  <2> HIDE DEF h
  <2>3. Built(h, k + 1)
    BY <2>2
  <2> QED
    BY <2>3
<1>3. length \in D
  <2> HIDE DEF D
  <2> QED
    BY <1>1, <1>2, Induct
<1>4. PICK g : Built(g, length)
  BY <1>3
<1> DEFINE h == C(g)
<1>5. h = C(h)
  <2>1. \A i \in 0..length : g[i] = h[i]
    BY <1>4
  <2>2. ASSUME NEW i \in 0..length
        PROVE  (IF i = 0 THEN <<>> ELSE <<Piece(first, length, i, type)>> \o g[Left(first, length, i)])
                 = IF i = 0 THEN <<>>
                   ELSE <<Piece(first, length, i, type)>> \o h[Left(first, length, i)]
    <3>1. CASE i = 0
      BY <3>1
    <3>2. CASE i # 0
      <4>1. Left(first, length, i) \in 0..length
        BY <3>2, LeftIs
      <4>2. g[Left(first, length, i)] = h[Left(first, length, i)]
        BY <2>1, <4>1
      <4> QED
        BY <3>2, <4>2
    <3> QED
      BY <3>1, <3>2
  <2> QED
    BY <2>2 DEF Cutting
<1> HIDE DEF h
<1>m. PICK m : m = CHOOSE f : f = C(f)
  OBVIOUS
<1>6. m = C(m)
  BY <1>5, <1>m
<1>7. Blocks(first, length, type) = m[length]
  BY <1>m DEF Blocks, Cutting, Piece, Left
<1>8. m[0] = <<>>
  BY <1>6 DEF Cutting
<1>9. ASSUME NEW size \in 1..length
      PROVE  m[size] = <<Piece(first, length, size, type)>> \o m[Left(first, length, size)]
  <2>1. m[size] = C(m)[size]
    BY <1>6
  <2> QED
    BY <2>1 DEF Cutting
<1> QED
  BY <1>7, <1>8, <1>9 DEF Cuts

(* What registers say of a page.                                           *)
Register == [base: Nat, size: Nat, type: Tag]
Reaches(regs, p, t) == \E k \in DOMAIN regs : In(p, regs[k]) /\ regs[k].type = t
HasType(regs, t) == \E k \in DOMAIN regs : regs[k].type = t

LEMMA NoRegisters ==
    /\ <<>> \in Seq(Register)
    /\ \A p, t : ~Reaches(<<>>, p, t)
    /\ \A t : ~HasType(<<>>, t)
BY DEF Reaches, HasType

Joins(regs, r, s) ==
    /\ regs \in Seq(Register)
    /\ \A p, t : Reaches(regs, p, t) <=> Reaches(r, p, t) \/ Reaches(s, p, t)
    /\ \A t : HasType(regs, t) <=> HasType(r, t) \/ HasType(s, t)

LEMMA Joined ==
    ASSUME NEW r \in Seq(Register), NEW s \in Seq(Register), NEW regs, regs = r \o s
    PROVE  Joins(regs, r, s)
<1>1. /\ regs \in Seq(Register) /\ Len(regs) = Len(r) + Len(s)
      /\ Len(r) \in Nat /\ Len(s) \in Nat
      /\ DOMAIN regs = 1..Len(regs) /\ DOMAIN r = 1..Len(r) /\ DOMAIN s = 1..Len(s)
  OBVIOUS
<1>2. \A k \in DOMAIN r : k \in DOMAIN regs /\ regs[k] = r[k]
  OBVIOUS
<1>3. \A k \in DOMAIN s : Len(r) + k \in DOMAIN regs /\ regs[Len(r) + k] = s[k]
  OBVIOUS
<1>4. \A k \in DOMAIN regs : \/ k \in DOMAIN r /\ regs[k] = r[k]
                             \/ k - Len(r) \in DOMAIN s /\ regs[k] = s[k - Len(r)]
  BY <1>1
<1>5. ASSUME NEW p, NEW t
      PROVE  Reaches(regs, p, t) <=> Reaches(r, p, t) \/ Reaches(s, p, t)
  <2>1. Reaches(r, p, t) => Reaches(regs, p, t)
    BY <1>2 DEF Reaches
  <2>2. Reaches(s, p, t) => Reaches(regs, p, t)
    BY <1>3 DEF Reaches
  <2>3. Reaches(regs, p, t) => Reaches(r, p, t) \/ Reaches(s, p, t)
    BY <1>4 DEF Reaches
  <2> QED
    BY <2>1, <2>2, <2>3
<1>6. ASSUME NEW t
      PROVE  HasType(regs, t) <=> HasType(r, t) \/ HasType(s, t)
  <2>1. HasType(r, t) => HasType(regs, t)
    BY <1>2 DEF HasType
  <2>2. HasType(s, t) => HasType(regs, t)
    BY <1>3 DEF HasType
  <2>3. HasType(regs, t) => HasType(r, t) \/ HasType(s, t)
    BY <1>4 DEF HasType
  <2> QED
    BY <2>1, <2>2, <2>3
<1> QED
  BY <1>1, <1>5, <1>6 DEF Joins

(* The blocks are of the type, and what they describe is the range.        *)
Describes(regs, low, high, type) ==
    /\ regs \in Seq(Register)
    /\ \A p \in Nat : \A t : Reaches(regs, p, t) <=> t = type /\ low <= p /\ p < high
    /\ \A t : HasType(regs, t) => t = type

LEMMA OneBlock ==
    ASSUME NEW base \in Nat, NEW size \in Nat, NEW type \in Tag,
           NEW b, b = [base |-> base, size |-> size, type |-> type]
    PROVE  Describes(<<b>>, base, base + size, type)
<1>r. PICK regs : regs = <<b>>
  OBVIOUS
<1>1. regs \in Seq(Register) /\ DOMAIN regs = {1} /\ regs[1] = b
  BY <1>r DEF Register
<1>2. b.base = base /\ b.size = size /\ b.type = type
  OBVIOUS
<1>3. \A p \in Nat : In(p, b) <=> base <= p /\ p < base + size
  BY <1>2 DEF In
<1>4. \A p \in Nat : \A t : Reaches(regs, p, t) <=> t = type /\ base <= p /\ p < base + size
  BY <1>1, <1>2, <1>3 DEF Reaches
<1>5. \A t : HasType(regs, t) => t = type
  BY <1>1, <1>2 DEF HasType
<1> QED
  BY <1>r, <1>1, <1>4, <1>5 DEF Describes

LEMMA BlocksAre ==
    ASSUME NEW first \in Nat, NEW length \in Nat, NEW type \in Tag
    PROVE  Describes(Blocks(first, length, type), first, first + length, type)
<1>m. PICK m : Cuts(m, first, length, type)
  BY BlocksDefined
<1> DEFINE Done(size) == Describes(m[size], first + length - size, first + length, type)
           D == {n \in Nat : \A size \in 0..length : size <= n => Done(size)}
<1>1. Done(0)
  <2>1. m[0] = <<>>
    BY <1>m DEF Cuts
  <2> QED
    BY <2>1, NoRegisters DEF Describes
<1>2. 0 \in D
  BY <1>1
<1>3. ASSUME NEW n \in Nat, n \in D PROVE n + 1 \in D
  <2>1. ASSUME NEW size \in 1..length, size = n + 1 PROVE Done(size)
    <3>l. PICK l : l = Left(first, length, size)
      OBVIOUS
    <3>b. PICK base : base = first + length - size
      OBVIOUS
    <3>s. PICK s : s = Block(base, size)
      OBVIOUS
    <3>0. base \in Nat /\ s \in 1..size /\ l = size - s
      BY <3>l, <3>b, <3>s, LeftIs DEF Left
    <3>1. base \in Nat /\ s \in 1..size /\ l = size - s /\ l \in 0..length /\ l <= n
      BY <2>1, <3>0
    <3>p. PICK b : b = Piece(first, length, size, type)
      OBVIOUS
    <3>2. b = [base |-> base, size |-> s, type |-> type]
      BY <3>p, <3>b, <3>s DEF Piece
    <3>3. Describes(<<b>>, base, base + s, type)
      BY <3>1, <3>2, OneBlock
    <3>4. Describes(m[l], base + s, first + length, type)
      <4>1. Done(l)
        BY <1>3, <3>1
      <4>2. first + length - l = base + s
        BY <3>1, <3>b
      <4> QED
        BY <4>1, <4>2
    <3>5. m[size] = <<b>> \o m[l]
      BY <1>m, <3>l, <3>p DEF Cuts
    <3>6. Describes(m[size], base, first + length, type)
      <4>1. /\ m[size] \in Seq(Register)
            /\ \A p, t : Reaches(m[size], p, t) <=> Reaches(<<b>>, p, t) \/ Reaches(m[l], p, t)
            /\ \A t : HasType(m[size], t) <=> HasType(<<b>>, t) \/ HasType(m[l], t)
        BY <3>3, <3>4, <3>5, Joined DEF Describes, Joins
      <4>2. base + s <= first + length
        BY <3>1, <3>b
      <4>3. ASSUME NEW p \in Nat, NEW t
            PROVE  Reaches(m[size], p, t) <=> t = type /\ base <= p /\ p < first + length
        <5>1. Reaches(<<b>>, p, t) <=> t = type /\ base <= p /\ p < base + s
          BY <3>3 DEF Describes
        <5>2. Reaches(m[l], p, t) <=> t = type /\ base + s <= p /\ p < first + length
          BY <3>4 DEF Describes
        <5> QED
          BY <3>1, <4>1, <4>2, <5>1, <5>2
      <4>4. \A t : HasType(m[size], t) => t = type
        BY <3>3, <3>4, <4>1 DEF Describes
      <4> QED
        BY <4>1, <4>3, <4>4 DEF Describes
    <3> QED
      BY <3>6, <3>b
  <2>2. ASSUME NEW size \in 0..length, size <= n + 1 PROVE Done(size)
    <3>1. CASE size <= n
      BY <1>3, <3>1
    <3>2. CASE size = n + 1
      BY <2>1, <3>2
    <3> QED
      BY <2>2, <3>1, <3>2
  <2> QED
    BY <2>2
<1>4. length \in D
  <2> HIDE DEF D
  <2> QED
    BY <1>2, <1>3, Induct
<1>5. Done(length)
  BY <1>4
<1>6. first + length - length = first
  OBVIOUS
<1> QED
  BY <1>5, <1>6, <1>m DEF Cuts

-----------------------------------------------------------------------------
(* optimize_var_mtrr_hole(): the end of the write-back range, or one above *)
(* that is within the limit.                                               *)
LEMMA LeastMember ==
    ASSUME NEW S, S \subseteq Nat, S # {}
    PROVE  Min(S) \in S
<1>1. \E m \in S : \A x \in S : m <= x
  BY Least
<1> QED
  BY <1>1 DEF Min

LEMMA OptimalEndIs ==
    ASSUME NEW base \in Nat, NEW hole \in Nat, base <= hole, NEW limit \in Nat,
           NEW carve \in BOOLEAN, NEW end, end = OptimalEnd(base, hole, limit, carve)
    PROVE  end \in Nat /\ hole <= end /\ (end = hole \/ end <= limit)
<1>e. PICK ends : ends = HoleEnds(hole, limit)
  OBVIOUS
<1> DEFINE cost(e) == Len(Blocks(base, e - base, "WB"))
                      + IF carve THEN Len(Blocks(hole, e - hole, "UC")) ELSE 0
<1>1. ASSUME NEW e \in ends
      PROVE  e \in Nat /\ hole <= e /\ (e = hole \/ e <= limit)
  <2>1. CASE e = hole
    BY <2>1
  <2>2. CASE e # hole
    <3>1. PICK p \in Power : e = AlignUp(hole, p) /\ e <= limit
      BY <1>e, <2>2 DEF HoleEnds
    <3>2. p \in Nat \ {0}
      BY PowerIs
    <3> QED
      BY <3>1, <3>2, Up
  <2> QED
    BY <2>1, <2>2
<1>2. hole \in ends
  BY <1>e DEF HoleEnds
<1>3. ASSUME NEW e \in ends PROVE cost(e) \in Nat
  <2>l. PICK l : l = e - base
    OBVIOUS
  <2>h. PICK h : h = e - hole
    OBVIOUS
  <2>1. l \in Nat /\ h \in Nat
    BY <1>1, <2>l, <2>h
  <2>2. "WB" \in Tag /\ "UC" \in Tag
    BY TempAssumption
  <2>3. Blocks(base, l, "WB") \in Seq(Register) /\ Blocks(hole, h, "UC") \in Seq(Register)
    BY <2>1, <2>2, BlocksAre DEF Describes
  <2>4. Len(Blocks(base, l, "WB")) \in Nat /\ Len(Blocks(hole, h, "UC")) \in Nat
    BY <2>3
  <2>x. PICK x : x = Len(Blocks(base, l, "WB"))
    OBVIOUS
  <2>y. PICK y : y = Len(Blocks(hole, h, "UC"))
    OBVIOUS
  <2>5. cost(e) = x + IF carve THEN y ELSE 0
    BY <2>l, <2>h, <2>x, <2>y, Zenon
  <2>6. x \in Nat /\ y \in Nat
    BY <2>4, <2>x, <2>y
  <2> HIDE DEF cost
  <2> QED
    BY <2>5, <2>6
<1> HIDE DEF cost
<1>c. PICK costs : costs = {cost(e) : e \in ends}
  OBVIOUS
<1>4. costs \subseteq Nat /\ costs # {}
  BY <1>2, <1>3, <1>c
<1>5. Min(costs) \in costs
  BY <1>4, LeastMember
<1>b. PICK best : best = {e \in ends : cost(e) = Min(costs)}
  OBVIOUS
<1>6. best \subseteq Nat /\ best # {} /\ best \subseteq ends
  BY <1>1, <1>5, <1>b, <1>c
<1>7. Min(best) \in best
  BY <1>6, LeastMember
<1>8. end = Min(best)
  BY <1>e, <1>b, <1>c DEF OptimalEnd, cost
<1> QED
  BY <1>1, <1>6, <1>7, <1>8

-----------------------------------------------------------------------------
(* The pages of an entry.                                                  *)
PageIn(r, p) == FirstPage(r) <= p /\ p < EndPage(r)

LEMMA Product ==
    ASSUME NEW n \in Nat \ {0}, NEW p \in Nat, NEW q \in Nat
    PROVE  /\ p * n \in Nat
           /\ (p * n <= q * n) <=> p <= q
           /\ (p * n < q * n) <=> p < q
           /\ (p * n) \div n = p
<1>0. p * n \in Nat /\ q * n \in Nat
  OBVIOUS
<1>1. ASSUME NEW i \in Nat, NEW j \in Nat, i <= j PROVE i * n <= j * n
  <2>1. PICK d \in Nat : j = i + d
    <3>1. j - i \in Nat /\ j = i + (j - i)
      BY <1>1
    <3> QED
      BY <3>1
  <2>2. d * n \in Nat /\ j * n = i * n + d * n
    BY <2>1
  <2> QED
    BY <2>2
<1>2. ASSUME NEW i \in Nat, NEW j \in Nat, i < j PROVE i * n < j * n
  <2>1. (i + 1) * n <= j * n
    <3>1. i + 1 \in Nat /\ i + 1 <= j
      BY <1>2
    <3> QED
      BY <1>1, <3>1
  <2>2. (i + 1) * n = i * n + n
    OBVIOUS
  <2> QED
    BY <2>1, <2>2
<1>3. p < q \/ p = q \/ q < p
  OBVIOUS
<1>4. p < q => p * n < q * n
  BY <1>2
<1>5. q < p => q * n < p * n
  BY <1>2
<1>6. (p * n) \div n = p
  <2>m. PICK a : a = p * n
    OBVIOUS
  <2>d. PICK d : d = a \div n
    OBVIOUS
  <2>r. PICK r : r = a % n
    OBVIOUS
  <2>1. a = (n * d) + r /\ r \in Nat /\ r < n /\ d \in Int /\ a \in Nat
    BY <1>0, <2>m, <2>d, <2>r
  <2>2. r = 0
    <3>1. n * p = a
      BY <2>m
    <3> QED
      BY <2>r, <3>1, Multiple
  <2>3. n * d = n * p
    BY <2>1, <2>2, <2>m
  <2>4. n * (d - p) = 0
    BY <2>1, <2>3
  <2>5. d = p
    BY <2>1, <2>4
  <2> QED
    BY <2>5, <2>d, <2>m
<1> QED
  BY <1>0, <1>3, <1>4, <1>5, <1>6

LEMMA EntryPages ==
    ASSUME NEW r, Good(r)
    PROVE  /\ FirstPage(r) \in Nat /\ EndPage(r) \in Nat /\ r.tag \in Tag
           /\ r.begin = FirstPage(r) * Align /\ r.end + 1 = EndPage(r) * Align
           /\ FirstPage(r) < EndPage(r) /\ EndPage(r) <= Pages
           /\ \A p \in Nat : r.begin <= p * Align /\ p * Align <= r.end <=> PageIn(r, p)
<1>0. /\ r.begin \in Nat /\ r.end \in Nat /\ r.tag \in Tag /\ r.end < Top
      /\ r.begin <= r.end /\ r.begin % Align = 0 /\ (r.end + 1) % Align = 0
      /\ Align \in Nat \ {0}
  BY Fields, Numbers DEF Good
<1>1. PICK f \in Nat : r.begin = Align * f
  BY <1>0, Quotient
<1>2. PICK e \in Nat : r.end + 1 = Align * e
  <2>1. r.end + 1 \in Nat
    BY <1>0
  <2> QED
    BY <1>0, <2>1, Quotient
<1>3. r.begin = f * Align /\ r.end + 1 = e * Align
  BY <1>0, <1>1, <1>2
<1>4. FirstPage(r) = f /\ EndPage(r) = e
  BY <1>0, <1>3, Product DEF FirstPage, EndPage
<1>5. f < e
  <2>1. f * Align < e * Align
    BY <1>0, <1>3
  <2> QED
    BY <1>0, <2>1, Product
<1>6. e <= Pages
  <2>1. e * Align <= Pages * Align /\ Pages \in Nat
    BY <1>0, <1>3, PagesIs
  <2> QED
    BY <1>0, <2>1, Product
<1>7. ASSUME NEW p \in Nat
      PROVE  r.begin <= p * Align /\ p * Align <= r.end <=> PageIn(r, p)
  <2>a. PICK a : a = p * Align
    OBVIOUS
  <2>1. (f * Align <= a) <=> f <= p
    BY <1>0, <2>a, Product
  <2>2. (a < e * Align) <=> p < e
    BY <1>0, <2>a, Product
  <2>3. a \in Nat
    BY <1>0, <2>a, Product
  <2>4. (a <= r.end) <=> a < e * Align
    BY <1>0, <1>3, <2>3
  <2> QED
    BY <1>3, <1>4, <2>a, <2>1, <2>2, <2>4 DEF PageIn
<1> QED
  BY <1>0, <1>3, <1>4, <1>5, <1>6, <1>7

LEMMA CoveredPage ==
    ASSUME NEW es, Proper(es), NEW p \in Nat
    PROVE  \A t : Covers(es, p * Align, t) <=> \E k \in DOMAIN es : PageIn(es[k], p) /\ es[k].tag = t
<1>1. \A k \in DOMAIN es : (es[k].begin <= p * Align /\ p * Align <= es[k].end) <=> PageIn(es[k], p)
  BY EntryPages DEF Proper
<1> QED
  BY <1>1 DEF Covers, Holds

(* Entries in order have pages in order.                                   *)
LEMMA PagesInOrder ==
    ASSUME NEW es, Proper(es), NEW i \in DOMAIN es, NEW j \in DOMAIN es, i < j
    PROVE  EndPage(es[i]) <= FirstPage(es[j])
<1>1. Good(es[i]) /\ Good(es[j]) /\ es[i].end < es[j].begin
  BY DEF Proper, Sorted
<1>e. PICK e : e = EndPage(es[i])
  OBVIOUS
<1>f. PICK f : f = FirstPage(es[j])
  OBVIOUS
<1>2. /\ e \in Nat /\ es[i].end + 1 = e * Align
      /\ f \in Nat /\ es[j].begin = f * Align
  BY <1>1, <1>e, <1>f, EntryPages
<1>3. e * Align <= f * Align
  <2>1. es[i].end \in Nat /\ es[j].begin \in Nat
    BY <1>1, Fields DEF Good
  <2> QED
    BY <1>1, <1>2, <2>1
<1>4. e <= f
  BY <1>2, <1>3, Numbers, Product
<1> QED
  BY <1>4, <1>e, <1>f

-----------------------------------------------------------------------------
(* calc_var_mtrrs_with_hole(): where the MTRRs decide, the pages of the    *)
(* entry get its type, and others are reached only in a hole behind it, up *)
(* to the next entry or the end of an uncacheable one, which is carved out *)
(* when there is a next entry.                                             *)
Decided(p, above) == p \in Nat /\ Low <= p /\ (p < FourG \/ above)

Beyond(es, k, p) ==
    /\ EndPage(es[k]) <= p
    /\ k < Len(es) => p < IF es[k + 1].tag = "UC" THEN EndPage(es[k + 1])
                          ELSE FirstPage(es[k + 1])

Gives(regs, es, k, p) ==
    /\ PageIn(es[k], p) => Reaches(regs, p, es[k].tag)
    /\ \A t : Reaches(regs, p, t) =>
          \/ t = es[k].tag /\ PageIn(es[k], p)
          \/ Beyond(es, k, p) /\ (k < Len(es) => Reaches(regs, p, "UC"))

Programs(regs, es, k, above) ==
    /\ regs \in Seq(Register)
    /\ \A p : Decided(p, above) => Gives(regs, es, k, p)
    /\ \A t : HasType(regs, t) => t = es[k].tag \/ t = "UC"

LEMMA LimitIs ==
    ASSUME NEW es, Proper(es), NEW k \in DOMAIN es, NEW end \in Nat \ {0},
           NEW limit, limit = Limit(es, k, end)
    PROVE  /\ limit \in Nat
           /\ k < Len(es) => limit = IF es[k + 1].tag = "UC" THEN EndPage(es[k + 1])
                                     ELSE FirstPage(es[k + 1])
<1>0. k \in 1..Len(es) /\ Len(es) \in Nat
  BY DEF Proper
<1>1. CASE k = Len(es)
  <2>b. PICK b : b = HighBit(end)
    OBVIOUS
  <2>1. b \in Nat \ {0}
    BY <2>b, HighBitIs
  <2>2. limit = AlignUp(end, b)
    BY <1>1, <2>b DEF Limit
  <2> QED
    BY <1>0, <1>1, <2>1, <2>2, Up
<1>2. CASE k # Len(es)
  <2>1. k + 1 \in DOMAIN es /\ k < Len(es)
    BY <1>0, <1>2 DEF Proper
  <2>2. EndPage(es[k + 1]) \in Nat /\ FirstPage(es[k + 1]) \in Nat
    BY <2>1, EntryPages DEF Proper
  <2> QED
    BY <1>2, <2>1, <2>2 DEF Limit
<1> QED
  BY <1>1, <1>2

(* Where the pages that are decided lie, to the bounds of the code.        *)
LEMMA Bounds ==
    ASSUME NEW r, Good(r), NEW above \in BOOLEAN, ~Ignored(r, above),
           NEW a1, a1 = IF FirstPage(r) <= Low THEN 0 ELSE FirstPage(r),
           NEW a2, a2 = IF above THEN EndPage(r) ELSE Min({EndPage(r), FourG})
    PROVE  /\ a1 \in Nat /\ a2 \in Nat \ {0} /\ a1 <= a2
           /\ \A p : Decided(p, above) =>
                 /\ (a1 <= p) <=> FirstPage(r) <= p
                 /\ (p < a2) <=> p < EndPage(r)
<1>f. PICK f : f = FirstPage(r)
  OBVIOUS
<1>e. PICK e : e = EndPage(r)
  OBVIOUS
<1>0. f \in Nat /\ e \in Nat /\ f < e /\ Low \in Nat /\ FourG \in Nat /\ Low < FourG
  BY <1>f, <1>e, EntryPages, PagesIs
<1>1. e > Low /\ (above \/ f < FourG)
  BY <1>0, <1>f, <1>e DEF Ignored
<1>2. a1 = IF f <= Low THEN 0 ELSE f
  BY <1>f
<1>3. a2 = IF above THEN e ELSE IF e <= FourG THEN e ELSE FourG
  <2>1. Min({e, FourG}) = IF e <= FourG THEN e ELSE FourG
    BY <1>0, MaxMin
  <2> QED
    BY <1>e, <2>1
<1>4. a1 \in Nat /\ a2 \in Nat \ {0} /\ a1 <= a2
  BY <1>0, <1>1, <1>2, <1>3
<1>5. ASSUME NEW p, Decided(p, above)
      PROVE  ((a1 <= p) <=> f <= p) /\ ((p < a2) <=> p < e)
  <2>1. p \in Nat /\ Low <= p /\ (p < FourG \/ above)
    BY <1>5 DEF Decided
  <2>2. (a1 <= p) <=> f <= p
    BY <1>0, <1>2, <2>1
  <2>3. (p < a2) <=> p < e
    BY <1>0, <1>3, <2>1
  <2> QED
    BY <2>2, <2>3
<1> QED
  BY <1>4, <1>5, <1>f, <1>e

LEMMA ForIgnored ==
    ASSUME NEW es, Proper(es), NEW k \in DOMAIN es, NEW above \in BOOLEAN,
           Ignored(es[k], above)
    PROVE  Programs(<<>>, es, k, above)
<1>1. FirstPage(es[k]) \in Nat /\ EndPage(es[k]) \in Nat /\ Low \in Nat /\ FourG \in Nat
  BY EntryPages, PagesIs DEF Proper
<1>2. ASSUME NEW p, Decided(p, above) PROVE ~PageIn(es[k], p)
  BY <1>1, <1>2 DEF Decided, Ignored, PageIn
<1> QED
  BY <1>2, NoRegisters DEF Programs, Gives

LEMMA ForOther ==
    ASSUME NEW es, Proper(es), NEW k \in DOMAIN es, NEW above \in BOOLEAN,
           NEW a1 \in Nat, NEW a2 \in Nat, a1 <= a2,
           \A p : Decided(p, above) =>
              ((a1 <= p) <=> FirstPage(es[k]) <= p) /\ ((p < a2) <=> p < EndPage(es[k]))
    PROVE  Programs(Blocks(a1, a2 - a1, es[k].tag), es, k, above)
<1>l. PICK l : l = a2 - a1
  OBVIOUS
<1>r. PICK regs : regs = Blocks(a1, l, es[k].tag)
  OBVIOUS
<1>1. l \in Nat /\ a1 + l = a2 /\ es[k].tag \in Tag
  BY <1>l, EntryPages DEF Proper
<1>2. Describes(regs, a1, a2, es[k].tag)
  BY <1>1, <1>r, BlocksAre
<1>3. ASSUME NEW p, Decided(p, above) PROVE Gives(regs, es, k, p)
  <2>1. p \in Nat /\ (PageIn(es[k], p) <=> a1 <= p /\ p < a2)
    BY <1>3 DEF Decided, PageIn
  <2>2. \A t : Reaches(regs, p, t) <=> t = es[k].tag /\ PageIn(es[k], p)
    BY <1>2, <2>1 DEF Describes
  <2> QED
    BY <2>2 DEF Gives
<1> QED
  BY <1>2, <1>3, <1>r, <1>l, Zenon DEF Programs, Describes

LEMMA ForWriteBack ==
    ASSUME NEW es, Proper(es), NEW k \in DOMAIN es, NEW above \in BOOLEAN, es[k].tag = "WB",
           NEW a1 \in Nat, NEW a2 \in Nat, a1 <= a2,
           \A p : Decided(p, above) =>
              ((a1 <= p) <=> FirstPage(es[k]) <= p) /\ ((p < a2) <=> p < EndPage(es[k])),
           NEW limit, k < Len(es) => limit = IF es[k + 1].tag = "UC" THEN EndPage(es[k + 1])
                                             ELSE FirstPage(es[k + 1]),
           NEW b2 \in Nat, a2 <= b2, b2 = a2 \/ b2 <= limit, limit \in Nat,
           NEW carve \in BOOLEAN, k < Len(es) => carve,
           NEW x, x = Blocks(a1, b2 - a1, "WB"),
           NEW y, y = IF carve THEN Blocks(a2, b2 - a2, "UC") ELSE <<>>,
           NEW regs, regs = x \o y
    PROVE  Programs(regs, es, k, above)
<1>1. "WB" \in Tag /\ "UC" \in Tag
  BY TempAssumption
<1>2. Describes(x, a1, b2, "WB")
  <2>l. PICK l : l = b2 - a1
    OBVIOUS
  <2>1. l \in Nat /\ a1 + l = b2
    BY <2>l
  <2>2. Describes(Blocks(a1, l, "WB"), a1, a1 + l, "WB")
    BY <1>1, <2>1, BlocksAre
  <2> QED
    BY <2>1, <2>2, <2>l
<1>3. /\ y \in Seq(Register)
      /\ \A p \in Nat : \A t : Reaches(y, p, t) <=> carve /\ t = "UC" /\ a2 <= p /\ p < b2
      /\ \A t : HasType(y, t) => t = "UC"
  <2>1. CASE carve
    <3>l. PICK l : l = b2 - a2
      OBVIOUS
    <3>1. l \in Nat /\ a2 + l = b2
      BY <3>l
    <3>2. Describes(Blocks(a2, l, "UC"), a2, a2 + l, "UC")
      BY <1>1, <3>1, BlocksAre
    <3>3. Describes(y, a2, b2, "UC")
      BY <2>1, <3>1, <3>2, <3>l
    <3> QED
      BY <2>1, <3>3 DEF Describes
  <2>2. CASE ~carve
    BY <2>2, NoRegisters
  <2> QED
    BY <2>1, <2>2
<1>4. /\ regs \in Seq(Register)
      /\ \A p, t : Reaches(regs, p, t) <=> Reaches(x, p, t) \/ Reaches(y, p, t)
      /\ \A t : HasType(regs, t) <=> HasType(x, t) \/ HasType(y, t)
  <2>1. x \in Seq(Register) /\ y \in Seq(Register)
    BY <1>2, <1>3 DEF Describes
  <2>2. Joins(regs, x, y)
    BY <2>1, Joined, Zenon
  <2> QED
    BY <2>2, Zenon DEF Joins
<1>5. ASSUME NEW p, Decided(p, above) PROVE Gives(regs, es, k, p)
  <2>1. p \in Nat /\ (PageIn(es[k], p) <=> a1 <= p /\ p < a2)
    BY <1>5 DEF Decided, PageIn
  <2>2. \A t : Reaches(regs, p, t) <=> \/ t = "WB" /\ a1 <= p /\ p < b2
                                       \/ carve /\ t = "UC" /\ a2 <= p /\ p < b2
    BY <1>2, <1>3, <1>4, <2>1 DEF Describes
  <2>3. PageIn(es[k], p) => Reaches(regs, p, es[k].tag)
    BY <2>1, <2>2
  <2>4. ASSUME a2 <= p, p < b2 PROVE Beyond(es, k, p)
    <3>1. p < limit
      BY <2>1, <2>4
    <3>2. EndPage(es[k]) <= p
      <4>1. ~(p < EndPage(es[k]))
        BY <1>5, <2>1, <2>4
      <4>2. EndPage(es[k]) \in Nat
        BY EntryPages DEF Proper
      <4> QED
        BY <2>1, <4>1, <4>2
    <3> QED
      BY <3>1, <3>2 DEF Beyond
  <2>5. ASSUME NEW t, Reaches(regs, p, t)
        PROVE  \/ t = es[k].tag /\ PageIn(es[k], p)
               \/ Beyond(es, k, p) /\ (k < Len(es) => Reaches(regs, p, "UC"))
    <3>1. CASE p < a2
      BY <2>1, <2>2, <2>5, <3>1
    <3>2. CASE ~(p < a2)
      <4>1. a2 <= p /\ p < b2
        BY <2>1, <2>2, <2>5, <3>2
      <4>2. k < Len(es) => Reaches(regs, p, "UC")
        BY <2>2, <4>1
      <4> QED
        BY <2>4, <4>1, <4>2
    <3> QED
      BY <3>1, <3>2
  <2> QED
    BY <2>3, <2>5 DEF Gives
<1>6. \A t : HasType(regs, t) => t = es[k].tag \/ t = "UC"
  BY <1>2, <1>3, <1>4 DEF Describes
<1> QED
  BY <1>4, <1>5, <1>6 DEF Programs

LEMMA ForEntryIs ==
    ASSUME NEW es, Proper(es), NEW k \in DOMAIN es, NEW above \in BOOLEAN
    PROVE  Programs(ForEntry(es, k, above), es, k, above)
<1>r. PICK r : r = es[k]
  OBVIOUS
<1>a. PICK a1 : a1 = IF FirstPage(r) <= Low THEN 0 ELSE FirstPage(r)
  OBVIOUS
<1>b. PICK a2 : a2 = IF above THEN EndPage(r) ELSE Min({EndPage(r), FourG})
  OBVIOUS
<1>c. PICK carve : carve = (k < Len(es) \/ a1 < FourG)
  OBVIOUS
<1>l. PICK limit : limit = Limit(es, k, a2)
  OBVIOUS
<1>d. PICK b2 : b2 = OptimalEnd(a1, a2, limit, carve)
  OBVIOUS
<1>x. PICK x : x = Blocks(a1, b2 - a1, "WB")
  OBVIOUS
<1>y. PICK y : y = IF carve THEN Blocks(a2, b2 - a2, "UC") ELSE <<>>
  OBVIOUS
<1>e. ForEntry(es, k, above) =
          IF Ignored(r, above) THEN <<>>
          ELSE IF r.tag # "WB" THEN Blocks(a1, a2 - a1, r.tag)
          ELSE x \o y
  BY <1>r, <1>a, <1>b, <1>c, <1>l, <1>d, <1>x, <1>y, Zenon DEF ForEntry
<1>1. CASE Ignored(r, above)
  BY <1>e, <1>r, <1>1, ForIgnored
<1>2. CASE ~Ignored(r, above)
  <2>0. Good(r)
    BY <1>r DEF Proper
  <2>1. /\ a1 \in Nat /\ a2 \in Nat \ {0} /\ a1 <= a2
        /\ \A p : Decided(p, above) =>
              ((a1 <= p) <=> FirstPage(r) <= p) /\ ((p < a2) <=> p < EndPage(r))
    <3>1. ~Ignored(r, above)
      BY <1>2
    <3> QED
      BY <1>a, <1>b, <2>0, <3>1, Bounds
  <2>2. CASE r.tag # "WB"
    <3>1. Programs(Blocks(a1, a2 - a1, es[k].tag), es, k, above)
      BY <2>1, <1>r, ForOther
    <3> QED
      BY <1>e, <1>r, <1>2, <2>2, <3>1
  <2>3. CASE r.tag = "WB"
    <3>1. /\ limit \in Nat
          /\ k < Len(es) => limit = IF es[k + 1].tag = "UC" THEN EndPage(es[k + 1])
                                    ELSE FirstPage(es[k + 1])
      BY <1>l, <2>1, LimitIs
    <3>2. carve \in BOOLEAN /\ (k < Len(es) => carve)
      BY <1>c
    <3>3. b2 \in Nat /\ a2 <= b2 /\ (b2 = a2 \/ b2 <= limit)
      BY <1>d, <2>1, <3>1, <3>2, OptimalEndIs
    <3>4. Programs(x \o y, es, k, above)
      BY <1>r, <1>x, <1>y, <2>1, <2>3, <3>1, <3>2, <3>3, ForWriteBack
    <3> QED
      BY <1>e, <1>2, <2>3, <3>4
  <2> QED
    BY <2>2, <2>3
<1> QED
  BY <1>1, <1>2

-----------------------------------------------------------------------------
(* prepare_var_mtrrs(): the registers of the entries that have not the     *)
(* default type, one after the other.                                      *)
OfEntry(es, k, def, above) == IF es[k].tag = def THEN <<>> ELSE ForEntry(es, k, above)

Preparing(g, es, def, above) ==
    [k \in 0..Len(es) |-> IF k = 0 THEN <<>> ELSE g[k - 1] \o OfEntry(es, k, def, above)]

Prepares(m, es, def, above) ==
    /\ Registers(es, def, above) = m[Len(es)]
    /\ m[0] = <<>>
    /\ \A k \in 0..Len(es) - 1 : m[k + 1] = m[k] \o OfEntry(es, k + 1, def, above)

LEMMA PrepareDefined ==
    ASSUME NEW es, NEW def, NEW above, Len(es) \in Nat
    PROVE  \E m : Prepares(m, es, def, above)
<1> DEFINE C(g) == Preparing(g, es, def, above)
           Built(g, k) == \A i \in 0..Len(es) : i <= k => g[i] = C(g)[i]
           D == {k \in Nat : \E g : Built(g, k)}
<1>1. 0 \in D
  <2> DEFINE g == [i \in {0} |-> <<>>]
  <2>1. \A i \in 0..Len(es) : i <= 0 => g[i] = C(g)[i]
    BY DEF Preparing
  <2> HIDE DEF g
  <2> QED
    BY <2>1
<1>2. ASSUME NEW k \in Nat, k \in D PROVE k + 1 \in D
  <2>1. PICK g : Built(g, k)
    BY <1>2
  <2> DEFINE h == C(g)
  <2>2. ASSUME NEW i \in 0..Len(es), i <= k + 1
        PROVE  h[i] = C(h)[i]
    <3>1. CASE i = 0
      BY <3>1 DEF Preparing
    <3>2. CASE i # 0
      <4>1. i - 1 \in 0..Len(es) /\ i - 1 <= k
        BY <2>2, <3>2
      <4>2. h[i - 1] = g[i - 1]
        BY <2>1, <4>1
      <4> QED
        BY <3>2, <4>1, <4>2 DEF Preparing
    <3> QED
      BY <3>1, <3>2
  <2> HIDE DEF h
  <2>3. Built(h, k + 1)
    BY <2>2
  <2> QED
    BY <2>3
<1>3. Len(es) \in D
  <2> HIDE DEF D
  <2> QED
    BY <1>1, <1>2, Induct
<1>4. PICK g : Built(g, Len(es))
  BY <1>3
<1> DEFINE h == C(g)
<1>5. h = C(h)
  <2>1. \A i \in 0..Len(es) : g[i] = h[i]
    BY <1>4
  <2>2. ASSUME NEW i \in 0..Len(es)
        PROVE  (IF i = 0 THEN <<>> ELSE g[i - 1] \o OfEntry(es, i, def, above))
                 = IF i = 0 THEN <<>> ELSE h[i - 1] \o OfEntry(es, i, def, above)
    <3>1. CASE i = 0
      BY <3>1
    <3>2. CASE i # 0
      <4>1. i - 1 \in 0..Len(es)
        BY <3>2
      <4>2. g[i - 1] = h[i - 1]
        BY <2>1, <4>1
      <4> QED
        BY <3>2, <4>2
    <3> QED
      BY <3>1, <3>2
  <2> QED
    BY <2>2 DEF Preparing
<1> HIDE DEF h
<1>m. PICK m : m = CHOOSE f : f = C(f)
  OBVIOUS
<1>6. m = C(m)
  BY <1>5, <1>m
<1>7. Registers(es, def, above) = m[Len(es)]
  BY <1>m DEF Registers, Preparing, OfEntry
<1>8. m[0] = <<>>
  BY <1>6 DEF Preparing
<1>9. ASSUME NEW k \in 0..Len(es) - 1
      PROVE  m[k + 1] = m[k] \o OfEntry(es, k + 1, def, above)
  <2>1. k + 1 \in 0..Len(es) /\ k + 1 # 0 /\ k + 1 - 1 = k
    OBVIOUS
  <2>2. m[k + 1] = C(m)[k + 1]
    BY <1>6
  <2>i. PICK i : i = k + 1
    OBVIOUS
  <2>3. i \in 0..Len(es) /\ i # 0 /\ i - 1 = k
    BY <2>1, <2>i
  <2>4. m[i] = m[i - 1] \o OfEntry(es, i, def, above)
    BY <2>2, <2>3, <2>i DEF Preparing
  <2> QED
    BY <2>3, <2>4, <2>i, Zenon
<1> QED
  BY <1>7, <1>8, <1>9 DEF Prepares

(* Some entry, of the first k, says so.                                    *)
EntryReaches(es, i, def, above, p, t) ==
    es[i].tag # def /\ Reaches(ForEntry(es, i, above), p, t)

RegistersOf(regs, es, k, def, above) ==
    /\ regs \in Seq(Register)
    /\ \A p, t : Reaches(regs, p, t) <=> \E i \in 1..k : EntryReaches(es, i, def, above, p, t)
    /\ \A t : HasType(regs, t) =>
          \E i \in 1..k : es[i].tag # def /\ HasType(ForEntry(es, i, above), t)

LEMMA RegistersGrow ==
    ASSUME NEW es, Proper(es), NEW def, NEW above \in BOOLEAN,
           NEW k \in Nat, k + 1 \in DOMAIN es,
           NEW regs, RegistersOf(regs, es, k, def, above),
           NEW more, more = OfEntry(es, k + 1, def, above)
    PROVE  RegistersOf(regs \o more, es, k + 1, def, above)
<1>s. PICK all : all = regs \o more
  OBVIOUS
<1>f. PICK new : new = ForEntry(es, k + 1, above)
  OBVIOUS
<1>1. new \in Seq(Register)
  BY <1>f, ForEntryIs DEF Programs
<1>2. /\ more \in Seq(Register)
      /\ \A p, t : Reaches(more, p, t) <=> es[k + 1].tag # def /\ Reaches(new, p, t)
      /\ \A t : HasType(more, t) => es[k + 1].tag # def /\ HasType(new, t)
  <2>1. CASE es[k + 1].tag = def
    <3>1. more = <<>>
      BY <2>1 DEF OfEntry
    <3> QED
      BY <2>1, <3>1, NoRegisters
  <2>2. CASE es[k + 1].tag # def
    <3>1. more = new
      BY <1>f, <2>2 DEF OfEntry
    <3> QED
      BY <1>1, <2>2, <3>1
  <2> QED
    BY <2>1, <2>2
<1>3. regs \in Seq(Register)
  BY DEF RegistersOf
<1>4. /\ all \in Seq(Register)
      /\ \A p, t : Reaches(all, p, t) <=> Reaches(regs, p, t) \/ Reaches(more, p, t)
      /\ \A t : HasType(all, t) <=> HasType(regs, t) \/ HasType(more, t)
  <2>1. more \in Seq(Register)
    BY <1>2
  <2>2. Joins(all, regs, more)
    BY <1>s, <1>3, <2>1, Joined, Zenon
  <2> QED
    BY <2>2, Zenon DEF Joins
<1>5. 1..k + 1 = (1..k) \cup {k + 1}
  OBVIOUS
<1>6. ASSUME NEW p, NEW t
      PROVE  Reaches(all, p, t) <=> \E i \in 1..k + 1 : EntryReaches(es, i, def, above, p, t)
  <2>1. Reaches(regs, p, t) <=> \E i \in 1..k : EntryReaches(es, i, def, above, p, t)
    BY DEF RegistersOf
  <2>2. Reaches(more, p, t) <=> EntryReaches(es, k + 1, def, above, p, t)
    BY <1>f, <1>2 DEF EntryReaches
  <2> QED
    BY <1>4, <1>5, <2>1, <2>2
<1>7. ASSUME NEW t, HasType(all, t)
      PROVE  \E i \in 1..k + 1 : es[i].tag # def /\ HasType(ForEntry(es, i, above), t)
  <2>1. CASE HasType(regs, t)
    <3>1. \E i \in 1..k : es[i].tag # def /\ HasType(ForEntry(es, i, above), t)
      BY <2>1 DEF RegistersOf
    <3> QED
      BY <1>5, <3>1
  <2>2. CASE HasType(more, t)
    BY <1>2, <1>5, <1>f, <2>2
  <2> QED
    BY <1>4, <1>7, <2>1, <2>2
<1>8. RegistersOf(all, es, k + 1, def, above)
  BY <1>4, <1>6, <1>7 DEF RegistersOf
<1> QED
  BY <1>8, <1>s

LEMMA RegistersAre ==
    ASSUME NEW es, Proper(es), NEW def, NEW above \in BOOLEAN
    PROVE  RegistersOf(Registers(es, def, above), es, Len(es), def, above)
<1>0. Len(es) \in Nat /\ DOMAIN es = 1..Len(es)
  BY DEF Proper
<1>m. PICK m : Prepares(m, es, def, above)
  BY <1>0, PrepareDefined
<1> DEFINE D == {k \in Nat : k <= Len(es) => RegistersOf(m[k], es, k, def, above)}
<1>1. 0 \in D
  <2>1. m[0] = <<>>
    BY <1>m DEF Prepares
  <2>2. 1..0 = {}
    OBVIOUS
  <2>3. RegistersOf(<<>>, es, 0, def, above)
    BY <2>2, NoRegisters DEF RegistersOf
  <2> QED
    BY <2>1, <2>3
<1>2. ASSUME NEW k \in Nat, k \in D PROVE k + 1 \in D
  <2> SUFFICES ASSUME k + 1 <= Len(es) PROVE RegistersOf(m[k + 1], es, k + 1, def, above)
    OBVIOUS
  <2>1. k \in 0..Len(es) - 1 /\ k + 1 \in DOMAIN es /\ k <= Len(es)
    BY <1>0
  <2>r. PICK regs : regs = m[k]
    OBVIOUS
  <2>n. PICK more : more = OfEntry(es, k + 1, def, above)
    OBVIOUS
  <2>2. RegistersOf(regs, es, k, def, above)
    BY <1>2, <2>1, <2>r
  <2>3. m[k + 1] = regs \o more
    BY <1>m, <2>1, <2>r, <2>n DEF Prepares
  <2> QED
    BY <2>1, <2>2, <2>3, <2>n, RegistersGrow
<1>3. Len(es) \in D
  <2> HIDE DEF D
  <2> QED
    BY <1>0, <1>1, <1>2, Induct
<1> QED
  BY <1>0, <1>3, <1>m DEF Prepares

-----------------------------------------------------------------------------
(* What the registers come to: the type of an entry on each of its pages.  *)
LEMMA TypesReach ==
    ASSUME NEW sol, NEW p, NEW t
    PROVE  t \in TypesAt(sol, p) <=> Reaches(sol.regs, p, t)
BY DEF TypesAt, Reaches

LEMMA EffectiveIs ==
    ASSUME NEW sol, NEW p, NEW t
    PROVE  /\ Reaches(sol.regs, p, "UC") => Effective(sol, p) = "UC"
           /\ (\A u : ~Reaches(sol.regs, p, u)) => Effective(sol, p) = sol.def
           /\ t # "UC" /\ (\A u : Reaches(sol.regs, p, u) <=> u = t) => Effective(sol, p) = t
<1>t. PICK types : types = TypesAt(sol, p)
  OBVIOUS
<1>1. \A u : u \in types <=> Reaches(sol.regs, p, u)
  BY <1>t, TypesReach
<1>2. Effective(sol, p) =
         IF types = {} THEN sol.def
         ELSE IF "UC" \in types THEN "UC"
         ELSE IF Cardinality(types) = 1 THEN CHOOSE u \in types : TRUE
         ELSE "undefined"
  BY <1>t DEF Effective
<1>3. ASSUME t # "UC", \A u : Reaches(sol.regs, p, u) <=> u = t PROVE Effective(sol, p) = t
  <2>1. types = {t}
    BY <1>1, <1>3
  <2>2. Cardinality(types) = 1
    BY <2>1, FS_Singleton
  <2>3. (CHOOSE u \in types : TRUE) = t
    BY <2>1
  <2> QED
    BY <1>2, <1>3, <2>1, <2>2, <2>3
<1>4. Reaches(sol.regs, p, "UC") => Effective(sol, p) = "UC"
  BY <1>1, <1>2
<1>5. (\A u : ~Reaches(sol.regs, p, u)) => Effective(sol, p) = sol.def
  BY <1>1, <1>2
<1> QED
  BY <1>3, <1>4, <1>5

(* Another entry reaches a page of this one only where the page is         *)
(* uncacheable, and the hole carved out there.                             *)
LEMMA OthersReach ==
    ASSUME NEW es, Proper(es), NEW above \in BOOLEAN, NEW p, Decided(p, above),
           NEW k \in DOMAIN es, PageIn(es[k], p), NEW i \in DOMAIN es, i # k,
           NEW t, Reaches(ForEntry(es, i, above), p, t)
    PROVE  es[k].tag = "UC" /\ Reaches(ForEntry(es, i, above), p, "UC")
<1>0. Len(es) \in Nat /\ i \in 1..Len(es) /\ k \in 1..Len(es) /\ p \in Nat
  BY DEF Proper, Decided
<1>f. \A j \in DOMAIN es : /\ FirstPage(es[j]) \in Nat /\ EndPage(es[j]) \in Nat
                           /\ FirstPage(es[j]) < EndPage(es[j])
  BY EntryPages DEF Proper
<1>o. \A m, n \in DOMAIN es : m < n => EndPage(es[m]) <= FirstPage(es[n])
  BY PagesInOrder
<1>p. FirstPage(es[k]) <= p /\ p < EndPage(es[k])
  BY DEF PageIn
<1>1. Gives(ForEntry(es, i, above), es, i, p)
  BY ForEntryIs DEF Programs
<1>2. CASE PageIn(es[i], p)
  <2>1. FirstPage(es[i]) <= p /\ p < EndPage(es[i])
    BY <1>2 DEF PageIn
  <2>2. i < k \/ k < i
    BY <1>0
  <2>3. EndPage(es[i]) <= FirstPage(es[k]) \/ EndPage(es[k]) <= FirstPage(es[i])
    BY <1>o, <2>2
  <2> QED
    BY <1>0, <1>f, <1>p, <2>1, <2>3
<1>3. CASE ~PageIn(es[i], p)
  <2>1. Beyond(es, i, p) /\ (i < Len(es) => Reaches(ForEntry(es, i, above), p, "UC"))
    BY <1>1, <1>3 DEF Gives
  <2>2. i < k
    <3>1. CASE k < i
      <4>1. EndPage(es[k]) <= FirstPage(es[i])
        BY <1>o, <3>1
      <4>2. EndPage(es[i]) <= p
        BY <2>1 DEF Beyond
      <4> QED
        BY <1>0, <1>f, <1>p, <4>1, <4>2
    <3> QED
      BY <1>0, <3>1
  <2>n. PICK n : n = i + 1
    OBVIOUS
  <2>3. n \in DOMAIN es /\ i < Len(es) /\ (n = k \/ n < k)
    BY <1>0, <2>2, <2>n DEF Proper
  <2>4. p < IF es[n].tag = "UC" THEN EndPage(es[n]) ELSE FirstPage(es[n])
    BY <2>1, <2>3, <2>n DEF Beyond
  <2>5. n = k
    <3>1. CASE n < k
      <4>1. EndPage(es[n]) <= FirstPage(es[k])
        BY <1>o, <2>3, <3>1
      <4>2. FirstPage(es[n]) < EndPage(es[n])
        BY <1>f, <2>3
      <4> QED
        BY <1>0, <1>f, <1>p, <2>3, <2>4, <4>1, <4>2
    <3> QED
      BY <2>3, <3>1
  <2>6. es[k].tag = "UC"
    BY <1>0, <1>f, <1>p, <2>4, <2>5
  <2> QED
    BY <2>1, <2>3, <2>6
<1> QED
  BY <1>2, <1>3

LEMMA SolutionGives ==
    ASSUME NEW es, Proper(es), NEW above \in BOOLEAN, NEW p, Decided(p, above),
           NEW k \in DOMAIN es, PageIn(es[k], p), NEW t, t = es[k].tag,
           NEW sol, sol.regs = Registers(es, sol.def, above)
    PROVE  /\ Effective(sol, p) = t
           /\ t # sol.def => HasType(sol.regs, t)
<1>r. PICK regs : regs = sol.regs
  OBVIOUS
<1>d. PICK def : def = sol.def
  OBVIOUS
<1>0. DOMAIN es = 1..Len(es)
  BY DEF Proper
<1>1. \A u : Reaches(regs, p, u) <=> \E i \in DOMAIN es : EntryReaches(es, i, def, above, p, u)
  BY <1>0, <1>r, <1>d, RegistersAre DEF RegistersOf
<1>2. ASSUME NEW i \in DOMAIN es, i # k, NEW u, EntryReaches(es, i, def, above, p, u)
      PROVE  t = "UC" /\ Reaches(regs, p, "UC")
  <2>1. es[i].tag # def /\ Reaches(ForEntry(es, i, above), p, u)
    BY <1>2 DEF EntryReaches
  <2>2. t = "UC" /\ Reaches(ForEntry(es, i, above), p, "UC")
    BY <1>2, <2>1, OthersReach
  <2>3. EntryReaches(es, i, def, above, p, "UC")
    BY <2>1, <2>2 DEF EntryReaches
  <2> QED
    BY <1>1, <2>2, <2>3
<1>g. Gives(ForEntry(es, k, above), es, k, p)
  BY ForEntryIs DEF Programs
<1>3. ASSUME NEW u, EntryReaches(es, k, def, above, p, u)
      PROVE  u = t /\ t # def
  <2>1. es[k].tag # def /\ Reaches(ForEntry(es, k, above), p, u)
    BY <1>3 DEF EntryReaches
  <2>2. ~Beyond(es, k, p)
    <3>1. EndPage(es[k]) \in Nat /\ p < EndPage(es[k]) /\ p \in Nat
      BY EntryPages DEF Proper, PageIn, Decided
    <3> QED
      BY <3>1 DEF Beyond
  <2> QED
    BY <1>g, <2>1, <2>2 DEF Gives
<1>4. ASSUME t # def PROVE Reaches(regs, p, t)
  <2>1. EntryReaches(es, k, def, above, p, t)
    BY <1>4, <1>g DEF Gives, EntryReaches
  <2> QED
    BY <1>1, <2>1
<1>5. ASSUME t = "UC" PROVE Effective(sol, p) = t
  <2>1. CASE Reaches(regs, p, "UC")
    BY <1>5, <1>r, <2>1, EffectiveIs
  <2>2. CASE ~Reaches(regs, p, "UC")
    <3>1. \A u : ~Reaches(regs, p, u)
      BY <1>1, <1>2, <1>3, <1>5, <2>2
    <3>2. def = "UC"
      BY <1>4, <1>5, <2>2
    <3> QED
      BY <1>5, <1>r, <1>d, <3>1, <3>2, EffectiveIs
  <2> QED
    BY <2>1, <2>2
<1>6. ASSUME t # "UC" PROVE Effective(sol, p) = t
  <2>1. \A u : Reaches(regs, p, u) => u = t /\ t # def
    BY <1>1, <1>2, <1>3, <1>6
  <2>2. CASE t = def
    <3>1. \A u : ~Reaches(regs, p, u)
      BY <2>1, <2>2
    <3> QED
      BY <1>r, <1>d, <2>2, <3>1, EffectiveIs
  <2>3. CASE t # def
    <3>1. \A u : Reaches(regs, p, u) <=> u = t
      BY <1>4, <2>1, <2>3
    <3> QED
      BY <1>6, <1>r, <3>1, EffectiveIs
  <2> QED
    BY <2>2, <2>3
<1>7. t # def => HasType(regs, t)
  BY <1>4 DEF Reaches, HasType
<1> QED
  BY <1>5, <1>6, <1>7, <1>r, <1>d

LEMMA CombiningEntry ==
    ASSUME NEW es, Proper(es), NEW above \in BOOLEAN,
           NEW sol, sol.regs = Registers(es, sol.def, above), Combines(sol)
    PROVE  \E p \in Nat : Covers(es, p * Align, "WC")
<1>1. HasType(sol.regs, "WC")
  BY DEF Combines, HasType
<1>2. DOMAIN es = 1..Len(es)
  BY DEF Proper
<1>3. PICK i \in DOMAIN es : HasType(ForEntry(es, i, above), "WC")
  BY <1>1, <1>2, RegistersAre DEF RegistersOf
<1>4. es[i].tag = "WC"
  BY <1>3, ForEntryIs DEF Programs
<1>p. PICK p : p = FirstPage(es[i])
  OBVIOUS
<1>5. p \in Nat /\ PageIn(es[i], p)
  BY <1>p, EntryPages DEF Proper, PageIn
<1>6. Covers(es, p * Align, "WC")
  BY <1>4, <1>5, CoveredPage
<1> QED
  BY <1>5, <1>6

(* What a solution comes to, of a list that covers a page as it was asked, *)
(* or, if it is plain, with uncacheable for write-combining.               *)
Plain(es) == \A p \in Nat : ~Covers(es, p * Align, "WC")

Listed(es, p, asked) ==
    Covers(es, p * Align, IF Plain(es) /\ asked = "WC" THEN "UC" ELSE asked)

LEMMA ListedIsEffective ==
    ASSUME NEW es, Proper(es), NEW above \in BOOLEAN, NEW p, Decided(p, above),
           NEW asked, Listed(es, p, asked),
           NEW sol, sol.regs = Registers(es, sol.def, above), sol.def # "WC"
    PROVE  Effective(sol, p) = IF asked = "WC" /\ ~Combines(sol) THEN "UC" ELSE asked
<1>t. PICK t : t = IF Plain(es) /\ asked = "WC" THEN "UC" ELSE asked
  OBVIOUS
<1>1. p \in Nat
  BY DEF Decided
<1>2. PICK k \in DOMAIN es : PageIn(es[k], p) /\ es[k].tag = t
  <2>1. Covers(es, p * Align, t)
    BY <1>t DEF Listed
  <2> QED
    BY <1>1, <2>1, CoveredPage
<1>3. Effective(sol, p) = t /\ (t # sol.def => HasType(sol.regs, t))
  BY <1>2, SolutionGives
<1>4. CASE Plain(es)
  <2>1. ~Combines(sol)
    BY <1>4, CombiningEntry DEF Plain
  <2> QED
    BY <1>3, <1>4, <1>t, <2>1
<1>5. CASE ~Plain(es)
  <2>1. CASE asked = "WC"
    <3>1. Combines(sol)
      BY <1>3, <1>5, <1>t, <2>1 DEF Combines, HasType
    <3> QED
      BY <1>3, <1>5, <1>t, <2>1, <3>1
  <2>2. CASE asked # "WC"
    BY <1>3, <1>t, <2>2
  <2> QED
    BY <2>1, <2>2
<1> QED
  BY <1>4, <1>5

-----------------------------------------------------------------------------
(* Lists of the code.                                                      *)

(* Entries are apart: there are no more of them than addresses.            *)
LEMMA ShortList ==
    ASSUME NEW es, Proper(es)
    PROVE  Len(es) \in Nat /\ Len(es) <= Top
<1>0. Len(es) \in Nat /\ DOMAIN es = 1..Len(es)
  BY DEF Proper
<1>1. \A i \in DOMAIN es : /\ es[i].begin \in Nat /\ es[i].end \in Nat
                           /\ es[i].begin <= es[i].end /\ es[i].begin < Top
  BY Fields DEF Proper, Good
<1> DEFINE D == {k \in Nat : k + 1 <= Len(es) => k <= es[k + 1].begin}
<1>2. 0 \in D
  BY <1>0, <1>1
<1>3. ASSUME NEW k \in Nat, k \in D PROVE k + 1 \in D
  <2> SUFFICES ASSUME k + 1 + 1 <= Len(es) PROVE k + 1 <= es[k + 1 + 1].begin
    OBVIOUS
  <2>i. PICK i : i = k + 1
    OBVIOUS
  <2>j. PICK j : j = i + 1
    OBVIOUS
  <2>1. i \in DOMAIN es /\ j \in DOMAIN es /\ i < j /\ k + 1 <= Len(es)
    BY <1>0, <2>i, <2>j
  <2>2. k <= es[i].begin
    BY <1>3, <2>1, <2>i
  <2>3. es[i].end < es[j].begin
    BY <2>1 DEF Proper, Sorted
  <2>4. k + 1 <= es[j].begin
    BY <1>1, <2>1, <2>2, <2>3
  <2> QED
    BY <2>4, <2>i, <2>j
<1>4. Nat \subseteq D
  <2> HIDE DEF D
  <2> QED
    BY <1>2, <1>3, Induct
<1>5. CASE Len(es) = 0
  BY <1>0, <1>5, Numbers
<1>6. CASE Len(es) # 0
  <2>k. PICK k \in Nat : Len(es) = k + 1
    <3>1. Len(es) - 1 \in Nat /\ Len(es) = (Len(es) - 1) + 1
      BY <1>0, <1>6
    <3> QED
      BY <3>1
  <2>1. k \in D
    BY <1>4
  <2>2. k <= es[k + 1].begin /\ k + 1 \in DOMAIN es
    BY <1>0, <2>k, <2>1
  <2> QED
    BY <1>0, <1>1, <2>k, <2>2, Numbers
<1> QED
  BY <1>0, <1>5, <1>6

(* A list that always has entries to spare.                                *)
Supplied(list) ==
    /\ Proper(list.es) /\ list.free \in Nat
    /\ Len(list.es) \in Nat /\ Len(list.es) + list.free >= Plenty

LEMMA SupplyIs ==
    ASSUME NEW list, Supplied(list)
    PROVE  list.free >= 2 /\ list.free \in Nat
<1>1. Len(list.es) \in Nat /\ Len(list.es) <= Top
  BY ShortList DEF Supplied
<1>2. Top \in Nat /\ Top >= 1
  BY PagesIs
<1>3. Plenty \in Nat /\ Plenty >= 4 * Top
  BY <1>2, FreeAssumption DEF Plenty
<1> QED
  BY <1>1, <1>2, <1>3 DEF Supplied

LEMMA PlentyIs == Plenty \in Nat
BY Numbers, FreeAssumption DEF Plenty

(* Write-combining becomes uncacheable.                                    *)
LEMMA RetaggedIs ==
    ASSUME NEW es, Proper(es), NEW list, list = Retagged(es, Plenty, "WC", "UC")
    PROVE  /\ Proper(list.es) /\ Apart(list.es) /\ Plain(list.es) /\ Supplied(list)
           /\ \A p \in Nat : \A asked : Listed(es, p, asked) => Listed(list.es, p, asked)
<1>0. "WC" \in Tag /\ "UC" \in Tag
  BY TempAssumption
<1>1. /\ Lists(list, Plenty + Len(es))
      /\ \A a \in Int : \A t : Covers(list.es, a, t) <=>
             \/ Covers(es, a, "WC") /\ t = "UC"
             \/ Covers(es, a, t) /\ t # "WC"
  BY <1>0, PlentyIs, Updated
<1>2. \A p \in Nat : p * Align \in Int
  BY Numbers
<1>3. Plain(list.es)
  BY <1>1, <1>2 DEF Plain
<1>4. ASSUME NEW p \in Nat, NEW asked, Listed(es, p, asked) PROVE Listed(list.es, p, asked)
  <2>a. PICK a : a = p * Align
    OBVIOUS
  <2>1. a \in Int
    BY <1>2, <2>a
  <2>2. Covers(es, a, IF Plain(es) /\ asked = "WC" THEN "UC" ELSE asked)
    BY <1>4, <2>a DEF Listed
  <2>3. Covers(list.es, a, IF asked = "WC" THEN "UC" ELSE asked)
    BY <1>1, <2>1, <2>2
  <2> QED
    BY <1>3, <2>a, <2>3 DEF Listed
<1>5. Supplied(list)
  <2>1. Len(list.es) \in Nat /\ Len(es) \in Nat
    BY <1>1, ShortList DEF Lists
  <2> QED
    BY <1>1, <2>1, PlentyIs DEF Lists, Supplied
<1> QED
  BY <1>1, <1>3, <1>4, <1>5 DEF Lists

LEMMA SimplifiedIs ==
    ASSUME NEW es, Proper(es), NEW above, NEW new, new = Simplified(es, above)
    PROVE  /\ Proper(new) /\ (Apart(es) => Apart(new))
           /\ \A p \in Nat : \A asked : Listed(es, p, asked) => Listed(new, p, asked)
BY RetaggedIs DEF Simplified

-----------------------------------------------------------------------------
(* One range is inserted: its pages have its type then.                    *)
InRange(r) == r \in Register /\ r.base + r.size <= Pages

LEMMA WholePages ==
    ASSUME NEW base \in Nat, NEW size \in Nat,
           NEW b, b = base * Align, NEW s, s = size * Align,
           NEW first, first = BeginOf(b), NEW end, end = End(b, s)
    PROVE  /\ first = b /\ end = b + s - 1 /\ b \in Nat /\ s \in Nat
           /\ b + s = (base + size) * Align
<1>1. /\ b \in Nat /\ s \in Nat /\ b + s = (base + size) * Align
      /\ b = Align * base /\ b + s = Align * (base + size)
  BY Numbers
<1>2. b % Align = 0 /\ (b + s) % Align = 0
  BY <1>1, Numbers, Multiple
<1>3. first = b
  <2>1. first \in Nat /\ first <= b /\ \A y \in Nat : y % Align = 0 /\ y <= b => y <= first
    BY <1>1, Numbers, Down DEF BeginOf
  <2> QED
    BY <1>1, <1>2, <2>1
<1>4. end = b + s - 1
  <2>c. PICK c : c = b + s
    OBVIOUS
  <2>u. PICK u : u = AlignUp(c, Align)
    OBVIOUS
  <2>1. c \in Nat /\ c % Align = 0
    BY <1>1, <1>2, <2>c
  <2>2. u \in Nat /\ c <= u /\ \A y \in Nat : y % Align = 0 /\ c <= y => u <= y
    BY <2>1, <2>u, Numbers, Up
  <2>3. u = c
    BY <2>1, <2>2
  <2> QED
    BY <2>c, <2>u, <2>3 DEF End
<1> QED
  BY <1>1, <1>3, <1>4

LEMMA RangeInserted ==
    ASSUME NEW list, Supplied(list), NEW r, InRange(r),
           NEW new, new = InsertRange(list, r)
    PROVE  /\ Supplied(new)
           /\ \A p \in Nat : \A t : Covers(new.es, p * Align, t) <=>
                  IF In(p, r) THEN t = r.type ELSE Covers(list.es, p * Align, t)
<1>0. /\ r.base \in Nat /\ r.size \in Nat /\ r.type \in Tag /\ r.base + r.size <= Pages
      /\ Proper(list.es) /\ list.free \in Nat /\ list.free >= 2
      /\ Len(list.es) + list.free >= Plenty /\ Len(list.es) \in Nat
  BY SupplyIs DEF InRange, Register, Supplied
<1>b. PICK b : b = r.base * Align
  OBVIOUS
<1>s. PICK s : s = r.size * Align
  OBVIOUS
<1>f. PICK first : first = BeginOf(b)
  OBVIOUS
<1>e. PICK end : end = End(b, s)
  OBVIOUS
<1>1. /\ first = b /\ end = b + s - 1 /\ b \in Nat /\ s \in Nat
      /\ b + s = (r.base + r.size) * Align
  <2>x. PICK x : x = r.base
    OBVIOUS
  <2>y. PICK y : y = r.size
    OBVIOUS
  <2>1. x \in Nat /\ y \in Nat /\ b = x * Align /\ s = y * Align
    BY <1>0, <1>b, <1>s, <2>x, <2>y
  <2>2. /\ first = b /\ end = b + s - 1 /\ b \in Nat /\ s \in Nat
        /\ b + s = (x + y) * Align
    BY <1>f, <1>e, <2>1, WholePages
  <2> QED
    BY <2>2, <2>x, <2>y
<1>2. new = Inserted(list.es, list.free, b, s, r.type)
  BY <1>b, <1>s DEF InsertRange
<1>3. CASE r.size = 0
  <2>1. s = 0
    BY <1>3, <1>s, Numbers
  <2>2. new = List(list.es, list.free)
    BY <1>2, <2>1 DEF Inserted
  <2>3. new.es = list.es /\ new.free = list.free
    BY <2>2 DEF List
  <2>4. \A p \in Nat : ~In(p, r)
    BY <1>0, <1>3 DEF In
  <2> QED
    BY <2>3, <2>4 DEF Supplied
<1>4. CASE r.size # 0
  <2>1. s # 0
    BY <1>0, <1>4, <1>s, Numbers
  <2>2. b + s <= Top
    <3>1. r.base + r.size \in Nat /\ Pages \in Nat /\ Top = Pages * Align
      BY <1>0, PagesIs
    <3>2. (r.base + r.size) * Align <= Pages * Align
      BY <1>0, <3>1, Numbers, Product
    <3> QED
      BY <1>1, <3>1, <3>2
  <2>3. Lists(new, list.free + Len(list.es))
        /\ InsertedTags(list.es, list.free, first, end, r.type, new.es)
    BY <1>0, <1>1, <1>2, <1>f, <1>e, <2>1, <2>2, InsertedIs
  <2>4. Supplied(new)
    <3>1. Len(new.es) \in Nat
      BY <2>3 DEF Lists, Proper
    <3> QED
      BY <1>0, <2>3, <3>1 DEF Lists, Supplied
  <2>5. ASSUME NEW p \in Nat
        PROVE  p * Align \in Int /\ (Hole(p * Align, first, end) <=> In(p, r))
    <3>a. PICK a : a = p * Align
      OBVIOUS
    <3>1. a \in Nat /\ ((b <= a) <=> r.base <= p)
      BY <1>0, <1>b, <3>a, Numbers, Product
    <3>2. (a < b + s) <=> p < r.base + r.size
      <4>1. r.base + r.size \in Nat
        BY <1>0
      <4> QED
        BY <1>1, <3>a, <4>1, Numbers, Product
    <3>3. Hole(a, first, end) <=> b <= a /\ a < b + s
      BY <1>1, <3>1 DEF Hole
    <3>4. In(p, r) <=> r.base <= p /\ p < r.base + r.size
      BY <1>0 DEF In
    <3> QED
      BY <3>1, <3>2, <3>3, <3>4, <3>a
  <2>6. ASSUME NEW p \in Nat, NEW t
        PROVE  Covers(new.es, p * Align, t) <=>
                   IF In(p, r) THEN t = r.type ELSE Covers(list.es, p * Align, t)
    <3>a. PICK a : a = p * Align
      OBVIOUS
    <3>1. a \in Int /\ (Hole(a, first, end) <=> In(p, r))
      BY <2>5, <3>a
    <3>2. Covers(new.es, a, t) <=> \/ Covers(list.es, a, t) /\ ~Hole(a, first, end)
                                   \/ t = r.type /\ Hole(a, first, end)
      BY <1>0, <2>3, <3>1 DEF InsertedTags
    <3> QED
      BY <3>1, <3>2, <3>a
  <2> QED
    BY <2>4, <2>6
<1> QED
  BY <1>3, <1>4

-----------------------------------------------------------------------------
(* Ranges are inserted one after the other.                                *)
InsertingAll(g, list, ranges) ==
    [k \in 0..Len(ranges) |-> IF k = 0 THEN list ELSE InsertRange(g[k - 1], ranges[k])]

Insertions(m, list, ranges) ==
    /\ InsertAll(list, ranges) = m[Len(ranges)]
    /\ m[0] = list
    /\ \A k \in 0..Len(ranges) - 1 : m[k + 1] = InsertRange(m[k], ranges[k + 1])

LEMMA InsertAllDefined ==
    ASSUME NEW list, NEW ranges, Len(ranges) \in Nat
    PROVE  \E m : Insertions(m, list, ranges)
<1> DEFINE C(g) == InsertingAll(g, list, ranges)
           Built(g, k) == \A i \in 0..Len(ranges) : i <= k => g[i] = C(g)[i]
           D == {k \in Nat : \E g : Built(g, k)}
<1>1. 0 \in D
  <2> DEFINE g == [i \in {0} |-> list]
  <2>1. \A i \in 0..Len(ranges) : i <= 0 => g[i] = C(g)[i]
    BY DEF InsertingAll
  <2> HIDE DEF g
  <2> QED
    BY <2>1
<1>2. ASSUME NEW k \in Nat, k \in D PROVE k + 1 \in D
  <2>1. PICK g : Built(g, k)
    BY <1>2
  <2> DEFINE h == C(g)
  <2>2. ASSUME NEW i \in 0..Len(ranges), i <= k + 1
        PROVE  h[i] = C(h)[i]
    <3>1. CASE i = 0
      BY <3>1 DEF InsertingAll
    <3>2. CASE i # 0
      <4>1. i - 1 \in 0..Len(ranges) /\ i - 1 <= k
        BY <2>2, <3>2
      <4>2. h[i - 1] = g[i - 1]
        BY <2>1, <4>1
      <4> QED
        BY <3>2, <4>1, <4>2 DEF InsertingAll
    <3> QED
      BY <3>1, <3>2
  <2> HIDE DEF h
  <2>3. Built(h, k + 1)
    BY <2>2
  <2> QED
    BY <2>3
<1>3. Len(ranges) \in D
  <2> HIDE DEF D
  <2> QED
    BY <1>1, <1>2, Induct
<1>4. PICK g : Built(g, Len(ranges))
  BY <1>3
<1> DEFINE h == C(g)
<1>5. h = C(h)
  <2>1. \A i \in 0..Len(ranges) : g[i] = h[i]
    BY <1>4
  <2>2. ASSUME NEW i \in 0..Len(ranges)
        PROVE  (IF i = 0 THEN list ELSE InsertRange(g[i - 1], ranges[i]))
                 = IF i = 0 THEN list ELSE InsertRange(h[i - 1], ranges[i])
    <3>1. CASE i = 0
      BY <3>1
    <3>2. CASE i # 0
      <4>1. i - 1 \in 0..Len(ranges)
        BY <3>2
      <4>2. g[i - 1] = h[i - 1]
        BY <2>1, <4>1
      <4> QED
        BY <3>2, <4>2
    <3> QED
      BY <3>1, <3>2
  <2> QED
    BY <2>2 DEF InsertingAll
<1> HIDE DEF h
<1>m. PICK m : m = CHOOSE f : f = C(f)
  OBVIOUS
<1>6. m = C(m)
  BY <1>5, <1>m
<1>7. InsertAll(list, ranges) = m[Len(ranges)]
  BY <1>m DEF InsertAll, InsertingAll
<1>8. m[0] = list
  BY <1>6 DEF InsertingAll
<1>9. ASSUME NEW k \in 0..Len(ranges) - 1
      PROVE  m[k + 1] = InsertRange(m[k], ranges[k + 1])
  <2>1. k + 1 \in 0..Len(ranges) /\ k + 1 # 0 /\ k + 1 - 1 = k
    OBVIOUS
  <2>2. m[k + 1] = C(m)[k + 1]
    BY <1>6
  <2> QED
    BY <2>1, <2>2 DEF InsertingAll
<1> QED
  BY <1>7, <1>8, <1>9 DEF Insertions

(* Of the ranges that have a page the last decides.                        *)
Over(ranges, k, p) == {i \in 1..k : In(p, ranges[i])}

UpTo(ds, es, ranges, k) ==
    \A p \in Nat : \A t :
        Covers(ds, p * Align, t) <=>
            IF Over(ranges, k, p) = {} THEN Covers(es, p * Align, t)
            ELSE t = ranges[Max(Over(ranges, k, p))].type

LEMMA OverNext ==
    ASSUME NEW ranges, NEW k \in Nat, NEW p
    PROVE  /\ Over(ranges, 0, p) = {}
           /\ In(p, ranges[k + 1]) => /\ Over(ranges, k + 1, p) # {}
                                      /\ Max(Over(ranges, k + 1, p)) = k + 1
           /\ ~In(p, ranges[k + 1]) => Over(ranges, k + 1, p) = Over(ranges, k, p)
<1>1. 1..k + 1 = (1..k) \cup {k + 1} /\ 1..0 = {}
  OBVIOUS
<1>2. ASSUME In(p, ranges[k + 1])
      PROVE  Over(ranges, k + 1, p) # {} /\ Max(Over(ranges, k + 1, p)) = k + 1
  <2>o. PICK over : over = Over(ranges, k + 1, p)
    OBVIOUS
  <2>1. over \subseteq Nat /\ k + 1 \in over /\ \A x \in over : x <= k + 1
    BY <1>2, <2>o DEF Over
  <2>2. Max(over) = k + 1
    BY <2>1, GreatestIs
  <2> QED
    BY <2>1, <2>2, <2>o
<1>3. ~In(p, ranges[k + 1]) => Over(ranges, k + 1, p) = Over(ranges, k, p)
  BY <1>1 DEF Over
<1> QED
  BY <1>1, <1>2, <1>3 DEF Over

LEMMA NextInserted ==
    ASSUME NEW es, NEW ranges, NEW k \in Nat, NEW list, UpTo(list.es, es, ranges, k),
           NEW new, \A p \in Nat : \A t : Covers(new.es, p * Align, t) <=>
                        IF In(p, ranges[k + 1]) THEN t = ranges[k + 1].type
                        ELSE Covers(list.es, p * Align, t)
    PROVE  UpTo(new.es, es, ranges, k + 1)
<1> SUFFICES ASSUME NEW p \in Nat, NEW t
             PROVE  Covers(new.es, p * Align, t) <=>
                        IF Over(ranges, k + 1, p) = {} THEN Covers(es, p * Align, t)
                        ELSE t = ranges[Max(Over(ranges, k + 1, p))].type
  BY DEF UpTo
<1>a. PICK a : a = p * Align
  OBVIOUS
<1>1. Covers(new.es, a, t) <=> IF In(p, ranges[k + 1]) THEN t = ranges[k + 1].type
                               ELSE Covers(list.es, a, t)
  BY <1>a
<1>2. CASE In(p, ranges[k + 1])
  BY <1>1, <1>2, <1>a, OverNext
<1>3. CASE ~In(p, ranges[k + 1])
  <2>1. Covers(list.es, a, t) <=> IF Over(ranges, k, p) = {} THEN Covers(es, a, t)
                                  ELSE t = ranges[Max(Over(ranges, k, p))].type
    BY <1>a DEF UpTo
  <2>2. Over(ranges, k + 1, p) = Over(ranges, k, p)
    BY <1>3, OverNext
  <2> QED
    BY <1>1, <1>3, <1>a, <2>1, <2>2
<1> QED
  BY <1>2, <1>3

AllInRange(ranges) == ranges \in Seq(Register) /\ \A k \in DOMAIN ranges : InRange(ranges[k])

LEMMA AllInserted ==
    ASSUME NEW list, Supplied(list), NEW ranges, AllInRange(ranges),
           NEW new, new = InsertAll(list, ranges)
    PROVE  Supplied(new) /\ UpTo(new.es, list.es, ranges, Len(ranges))
<1>0. Len(ranges) \in Nat /\ DOMAIN ranges = 1..Len(ranges)
  BY DEF AllInRange
<1>m. PICK m : Insertions(m, list, ranges)
  BY <1>0, InsertAllDefined
<1> DEFINE Done(k) == Supplied(m[k]) /\ UpTo(m[k].es, list.es, ranges, k)
           D == {k \in Nat : k <= Len(ranges) => Done(k)}
<1>1. 0 \in D
  <2>1. m[0] = list
    BY <1>m DEF Insertions
  <2>2. \A p : Over(ranges, 0, p) = {}
    BY DEF Over
  <2>3. UpTo(list.es, list.es, ranges, 0)
    BY <2>2 DEF UpTo
  <2> QED
    BY <2>1, <2>3
<1>2. ASSUME NEW k \in Nat, k \in D PROVE k + 1 \in D
  <2> SUFFICES ASSUME k + 1 <= Len(ranges) PROVE Done(k + 1)
    OBVIOUS
  <2>1. k \in 0..Len(ranges) - 1 /\ k + 1 \in DOMAIN ranges /\ k <= Len(ranges)
    BY <1>0
  <2>b. PICK before : before = m[k]
    OBVIOUS
  <2>a. PICK after : after = m[k + 1]
    OBVIOUS
  <2>r. PICK r : r = ranges[k + 1]
    OBVIOUS
  <2>2. Supplied(before) /\ UpTo(before.es, list.es, ranges, k)
    BY <1>2, <2>1, <2>b
  <2>3. after = InsertRange(before, r)
    BY <1>m, <2>1, <2>b, <2>a, <2>r DEF Insertions
  <2>4. InRange(r)
    BY <2>1, <2>r DEF AllInRange
  <2>5. /\ Supplied(after)
        /\ \A p \in Nat : \A t : Covers(after.es, p * Align, t) <=>
               IF In(p, r) THEN t = r.type ELSE Covers(before.es, p * Align, t)
    BY <2>2, <2>3, <2>4, RangeInserted
  <2>6. UpTo(after.es, list.es, ranges, k + 1)
    BY <2>2, <2>5, <2>r, NextInserted
  <2> QED
    BY <2>5, <2>6, <2>a
<1>3. Len(ranges) \in D
  <2> HIDE DEF D
  <2> QED
    BY <1>0, <1>1, <1>2, Induct
<1>4. Done(Len(ranges))
  BY <1>0, <1>3
<1> QED
  BY <1>4, <1>m DEF Insertions

(* A function on 1..n is a sequence.                                       *)
LEMMA IsSequence ==
    ASSUME NEW S, NEW n \in Nat, NEW f, f = [k \in 1..n |-> f[k]], \A k \in 1..n : f[k] \in S
    PROVE  f \in Seq(S) /\ Len(f) = n
<1>1. f \in [1..n -> S] /\ DOMAIN f = 1..n
  OBVIOUS
<1>2. f \in Seq(S)
  BY <1>1
<1> QED
  BY <1>1, <1>2

(* Ranges of one type.                                                     *)
AllBlocks(blocks) ==
    /\ blocks \in Seq([base: Nat, size: Nat])
    /\ \A k \in DOMAIN blocks : blocks[k].base + blocks[k].size <= Pages

Overlaid(ds, es, blocks, type) ==
    \A p \in Nat : \A t : Covers(ds, p * Align, t) <=>
        IF InSome(p, blocks) THEN t = type ELSE Covers(es, p * Align, t)

LEMMA AllOfType ==
    ASSUME NEW list, Supplied(list), NEW type \in Tag, NEW blocks, AllBlocks(blocks),
           NEW new, new = InsertAll(list, Of(blocks, type))
    PROVE  Supplied(new) /\ Overlaid(new.es, list.es, blocks, type)
<1>r. PICK ranges : ranges = Of(blocks, type)
  OBVIOUS
<1>0. /\ Len(blocks) \in Nat /\ DOMAIN blocks = 1..Len(blocks)
      /\ blocks \in Seq([base: Nat, size: Nat])
      /\ \A k \in DOMAIN blocks : blocks[k].base + blocks[k].size <= Pages
  BY DEF AllBlocks
<1>1. /\ DOMAIN ranges = 1..Len(blocks)
      /\ \A k \in DOMAIN blocks :
            ranges[k] = [base |-> blocks[k].base, size |-> blocks[k].size, type |-> type]
  BY <1>0, <1>r DEF Of
<1>2. ASSUME NEW k \in DOMAIN blocks
      PROVE  /\ ranges[k] \in Register /\ InRange(ranges[k]) /\ ranges[k].type = type
             /\ \A p : In(p, ranges[k]) <=> In(p, blocks[k])
  <2>s. PICK S : S = [base: Nat, size: Nat]
    OBVIOUS
  <2>0. blocks[k] \in S
    <3>1. blocks \in Seq(S)
      BY <1>0, <2>s
    <3> QED
      BY <3>1
  <2>b. PICK b \in [base: Nat, size: Nat] : b = blocks[k]
    BY <2>s, <2>0
  <2>1. ranges[k] = [base |-> b.base, size |-> b.size, type |-> type]
    BY <1>1, <2>b
  <2>2. b.base \in Nat /\ b.size \in Nat /\ b.base + b.size <= Pages
    BY <1>0, <2>b
  <2>3. ranges[k] \in Register /\ InRange(ranges[k]) /\ ranges[k].type = type
    BY <2>1, <2>2 DEF Register, InRange
  <2>4. \A p : In(p, ranges[k]) <=> In(p, b)
    BY <2>1 DEF In
  <2> QED
    BY <2>3, <2>4, <2>b
<1>3. ranges \in Seq(Register) /\ Len(ranges) = Len(blocks)
  <2>1. ranges = [k \in 1..Len(blocks) |-> ranges[k]]
    BY <1>0, <1>r DEF Of
  <2>n. PICK n \in Nat : n = Len(blocks)
    BY <1>0
  <2>2. ranges = [k \in 1..n |-> ranges[k]] /\ \A k \in 1..n : ranges[k] \in Register
    BY <1>0, <1>2, <2>1, <2>n
  <2>3. ranges \in Seq(Register) /\ Len(ranges) = n
    BY <2>2, IsSequence
  <2> QED
    BY <2>3, <2>n
<1>4. AllInRange(ranges)
  BY <1>0, <1>1, <1>2, <1>3 DEF AllInRange
<1>5. Supplied(new) /\ UpTo(new.es, list.es, ranges, Len(ranges))
  BY <1>4, <1>r, AllInserted
<1>6. ASSUME NEW p \in Nat, NEW t
      PROVE  Covers(new.es, p * Align, t) <=>
                 IF InSome(p, blocks) THEN t = type ELSE Covers(list.es, p * Align, t)
  <2>o. PICK over : over = Over(ranges, Len(ranges), p)
    OBVIOUS
  <2>1. Covers(new.es, p * Align, t) <=>
            IF over = {} THEN Covers(list.es, p * Align, t) ELSE t = ranges[Max(over)].type
    BY <1>5, <2>o DEF UpTo
  <2>2. over # {} <=> InSome(p, blocks)
    BY <1>0, <1>2, <1>3, <2>o DEF Over, InSome
  <2>3. over # {} => ranges[Max(over)].type = type
    <3>1. over \subseteq 1..Len(blocks)
      BY <1>3, <2>o DEF Over
    <3>2. over # {} => Max(over) \in over
      BY <1>0, <3>1, Extremes
    <3> QED
      BY <1>0, <1>2, <3>1, <3>2
  <2> QED
    BY <2>1, <2>2, <2>3
<1> QED
  BY <1>5, <1>6 DEF Overlaid

-----------------------------------------------------------------------------
(* get_physical_address_space().                                           *)
ResourceType(b, p) ==
    IF InSome(p, b.wc) THEN "WC" ELSE IF InSome(p, b.uc) THEN "UC"
    ELSE IF InSome(p, b.wb) THEN "WB" ELSE IF p < FourG THEN "UC" ELSE NoTag

IsBoard(b) ==
    /\ b.above \in BOOLEAN /\ b.late \in BOOLEAN /\ InSome(0, b.wb)
    /\ AllBlocks(b.wb) /\ AllBlocks(b.uc) /\ AllBlocks(b.wc)

LEMMA BoardIs == \A b \in Board : IsBoard(b)
BY BoardAssumption DEF IsBoard, AllBlocks

LEMMA TypesAre == "WB" \in Tag /\ "UC" \in Tag /\ "WC" \in Tag
BY TempAssumption

LEMMA ResourcesAre ==
    ASSUME NEW b, IsBoard(b), NEW es, es = Resources(b)
    PROVE  /\ Proper(es) /\ Len(es) <= Plenty
           /\ \A p \in Nat : \A t : Covers(es, p * Align, t) <=>
                  IF InSome(p, b.wc) THEN t = "WC" ELSE IF InSome(p, b.uc) THEN t = "UC"
                  ELSE InSome(p, b.wb) /\ t = "WB"
<1>n. PICK none : none = List(<<>>, Plenty)
  OBVIOUS
<1>w. PICK wb : wb = InsertAll(none, Of(b.wb, "WB"))
  OBVIOUS
<1>u. PICK uc : uc = InsertAll(wb, Of(b.uc, "UC"))
  OBVIOUS
<1>c. PICK wc : wc = InsertAll(uc, Of(b.wc, "WC"))
  OBVIOUS
<1>e. es = wc.es
  BY <1>n, <1>w, <1>u, <1>c DEF Resources
<1>0. AllBlocks(b.wb) /\ AllBlocks(b.uc) /\ AllBlocks(b.wc)
  BY DEF IsBoard
<1>1. Supplied(none) /\ \A a : \A t : ~Covers(none.es, a, t)
  <2>1. none.es = <<>> /\ none.free = Plenty
    BY <1>n DEF List
  <2>2. Proper(<<>>) /\ Len(<<>>) = 0
    BY DEF Proper, Sorted
  <2>3. \A a : \A t : ~Covers(<<>>, a, t)
    BY DEF Covers
  <2> QED
    BY <2>1, <2>2, <2>3, PlentyIs DEF Supplied
<1>2. Supplied(wb) /\ Overlaid(wb.es, none.es, b.wb, "WB")
  BY <1>0, <1>1, <1>w, TypesAre, AllOfType
<1>3. Supplied(uc) /\ Overlaid(uc.es, wb.es, b.uc, "UC")
  BY <1>0, <1>2, <1>u, TypesAre, AllOfType
<1>4. Supplied(wc) /\ Overlaid(wc.es, uc.es, b.wc, "WC")
  BY <1>0, <1>3, <1>c, TypesAre, AllOfType
<1>5. ASSUME NEW p \in Nat, NEW t
      PROVE  Covers(es, p * Align, t) <=>
                 IF InSome(p, b.wc) THEN t = "WC" ELSE IF InSome(p, b.uc) THEN t = "UC"
                 ELSE InSome(p, b.wb) /\ t = "WB"
  <2>a. PICK a : a = p * Align
    OBVIOUS
  <2>1. Covers(wc.es, a, t) <=> IF InSome(p, b.wc) THEN t = "WC" ELSE Covers(uc.es, a, t)
    BY <1>4, <2>a DEF Overlaid
  <2>2. Covers(uc.es, a, t) <=> IF InSome(p, b.uc) THEN t = "UC" ELSE Covers(wb.es, a, t)
    BY <1>3, <2>a DEF Overlaid
  <2>3. Covers(wb.es, a, t) <=> IF InSome(p, b.wb) THEN t = "WB" ELSE Covers(none.es, a, t)
    BY <1>2, <2>a DEF Overlaid
  <2> QED
    BY <1>e, <1>1, <2>1, <2>2, <2>3, <2>a
<1>6. Len(es) <= Plenty
  <2>1. Proper(wc.es) /\ Len(wc.es) \in Nat /\ Len(wc.es) <= Top
    BY <1>4, ShortList DEF Supplied
  <2> QED
    BY <1>e, <2>1, Numbers, FreeAssumption DEF Plenty
<1> QED
  BY <1>e, <1>4, <1>5, <1>6 DEF Supplied

(* There is an entry from 0 on: what is not covered below the limit is     *)
(* filled.                                                                 *)
LEMMA FillsFromZero ==
    ASSUME NEW es, Proper(es), NEW t, Covers(es, 0, t), NEW limit \in Nat,
           NEW a \in Nat, a < limit, \A u : ~Covers(es, a, u)
    PROVE  Unfilled(es, limit, a)
<1>0. /\ Len(es) \in Nat /\ DOMAIN es = 1..Len(es)
      /\ \A i \in DOMAIN es : es[i].begin \in Nat /\ es[i].end \in Nat
  BY Fields DEF Proper
<1>1. PICK k \in DOMAIN es : es[k].begin <= 0 /\ 0 <= es[k].end
  BY DEF Covers, Holds
<1>2. Len(es) > 0 /\ 1 \in DOMAIN es
  BY <1>0, <1>1
<1>3. k = 1
  <2>1. 1 < k => es[1].end < es[k].begin
    BY <1>1, <1>2 DEF Proper, Sorted
  <2> QED
    BY <1>0, <1>1, <1>2, <2>1
<1>4. es[1].begin = 0
  BY <1>0, <1>1, <1>3
<1>5. es[1].end < a
  <2>1. ~Holds(es[1], a, es[1].tag)
    BY <1>2 DEF Covers
  <2> QED
    BY <1>0, <1>2, <1>4, <2>1 DEF Holds
<1> QED
  BY <1>2, <1>5 DEF Unfilled

LEMMA AddressSpaceIs ==
    ASSUME NEW b \in Board, NEW es, es = AddressSpace(b)
    PROVE  /\ Proper(es) /\ Apart(es)
           /\ \A p \in Nat : ResourceType(b, p) # NoTag => Listed(es, p, ResourceType(b, p))
<1>r. PICK rs : rs = Resources(b)
  OBVIOUS
<1>l. PICK limit : limit = FourG * Align
  OBVIOUS
<1>0. IsBoard(b)
  BY BoardIs
<1>1. /\ Proper(rs) /\ Len(rs) <= Plenty
      /\ \A p \in Nat : \A t : Covers(rs, p * Align, t) <=>
             IF InSome(p, b.wc) THEN t = "WC" ELSE IF InSome(p, b.uc) THEN t = "UC"
             ELSE InSome(p, b.wb) /\ t = "WB"
  BY <1>0, <1>r, ResourcesAre
<1>2. limit \in Nat /\ limit <= Top /\ limit % Align = 0
  <2>1. FourG \in Nat /\ Pages \in Nat /\ FourG <= Pages /\ Top = Pages * Align
    BY PagesIs
  <2>2. limit \in Nat
    BY <1>l, <2>1, Numbers, Product
  <2>3. FourG * Align <= Pages * Align
    BY <2>1, Numbers, Product
  <2>4. limit = Align * FourG
    BY <1>l, <2>1, Numbers
  <2>5. limit % Align = 0
    BY <2>1, <2>2, <2>4, Numbers, Multiple
  <2> QED
    BY <1>l, <2>1, <2>2, <2>3, <2>5
<1>f. PICK list : list = Filled(rs, Plenty, limit, "UC")
  OBVIOUS
<1>3. es = list.es
  BY <1>r, <1>l, <1>f DEF AddressSpace
<1>4. Lists(list, Plenty + Len(rs)) /\ Fitted(rs, Plenty, limit, "UC", list.es)
  <2>1. Fillable(rs, limit, "UC")
    BY <1>r, <1>l, FlashAssumption
  <2> QED
    BY <1>1, <1>2, <1>f, <2>1, PlentyIs, TypesAre, FilledIs
<1>5. Plenty >= Len(rs)
  BY <1>1, PlentyIs DEF Proper
<1>6. ASSUME NEW p \in Nat, NEW t, t = ResourceType(b, p), t # NoTag
      PROVE  Covers(es, p * Align, t)
  <2>a. PICK a : a = p * Align
    OBVIOUS
  <2>0. a \in Nat /\ a \in Int
    BY <2>a, Numbers, Product
  <2>1. CASE InSome(p, b.wc) \/ InSome(p, b.uc) \/ InSome(p, b.wb)
    <3>1. Covers(rs, a, t)
      BY <1>1, <1>6, <2>a, <2>1 DEF ResourceType
    <3> QED
      BY <1>3, <1>4, <2>0, <2>a, <3>1 DEF Fitted
  <2>2. CASE ~(InSome(p, b.wc) \/ InSome(p, b.uc) \/ InSome(p, b.wb))
    <3>1. t = "UC" /\ p < FourG
      BY <1>6, <2>2 DEF ResourceType
    <3>2. \A u : ~Covers(rs, a, u)
      BY <1>1, <2>a, <2>2
    <3>3. a < limit
      <4>1. FourG \in Nat
        BY PagesIs
      <4> QED
        BY <1>l, <2>a, <3>1, <4>1, Numbers, Product
    <3>4. \E u : Covers(rs, 0, u)
      <4>1. 0 * Align = 0 /\ 0 \in Nat
        BY Numbers
      <4>2. InSome(0, b.wb)
        BY <1>0 DEF IsBoard
      <4>3. \E u : Covers(rs, 0 * Align, u)
        <5>1. \A u : Covers(rs, 0 * Align, u) <=>
                 IF InSome(0, b.wc) THEN u = "WC" ELSE IF InSome(0, b.uc) THEN u = "UC"
                 ELSE InSome(0, b.wb) /\ u = "WB"
          BY <1>1
        <5> QED
          BY <4>2, <5>1
      <4> QED
        BY <4>1, <4>3
    <3>5. Unfilled(rs, limit, a)
      BY <1>1, <1>2, <2>0, <3>2, <3>3, <3>4, FillsFromZero
    <3>6. Covers(es, a, "UC")
      BY <1>3, <1>4, <1>5, <2>0, <3>5 DEF Fitted
    <3> QED
      BY <2>a, <3>1, <3>6
  <2> QED
    BY <2>1, <2>2
<1>7. ASSUME NEW p \in Nat, NEW t, t = ResourceType(b, p), t # NoTag
      PROVE  Listed(es, p, t)
  <2>1. Covers(es, p * Align, t)
    BY <1>6, <1>7
  <2>2. ~(Plain(es) /\ t = "WC")
    BY <2>1 DEF Plain
  <2> QED
    BY <2>1, <2>2 DEF Listed
<1> QED
  BY <1>3, <1>4, <1>7 DEF Lists

-----------------------------------------------------------------------------
(* mtrr_use_temp_range(): the temporary ranges lie over the resources, the *)
(* latest last.                                                            *)
TypeOver(b, ts, n, p) ==
    IF Over(ts, n, p) = {} THEN ResourceType(b, p) ELSE ts[Max(Over(ts, n, p))].type

LEMMA TempsInRange ==
    ASSUME NEW ts \in Seq(TempRange)
    PROVE  /\ AllInRange(ts)
           /\ \A k \in DOMAIN ts : ts[k].type # "WC"
<1>1. \A r \in TempRange : r \in Register /\ InRange(r) /\ r.type # "WC"
  <2>1. /\ TempRange \subseteq [base: Nat, size: Nat \ {0}, type: Tag \ {"WC"}]
        /\ \A r \in TempRange : r.base + r.size <= Pages
    BY TempAssumption
  <2>2. ASSUME NEW r \in TempRange PROVE r \in Register /\ r.type # "WC"
    <3>1. r \in [base: Nat, size: Nat \ {0}, type: Tag \ {"WC"}]
      BY <2>1
    <3> QED
      BY <3>1 DEF Register
  <2> QED
    BY <2>1, <2>2 DEF InRange
<1>2. TempRange \subseteq Register
  BY <1>1
<1>3. ts \in Seq(Register)
  BY <1>2
<1>4. \A k \in DOMAIN ts : ts[k] \in TempRange
  OBVIOUS
<1> QED
  BY <1>1, <1>3, <1>4 DEF AllInRange

(* A list says of every page what the resources asked for.                 *)
ListsResources(es, b) ==
    /\ Proper(es)
    /\ \A p \in Nat : ResourceType(b, p) # NoTag => Listed(es, p, ResourceType(b, p))

ListsAll(es, b, ts, n) ==
    /\ Proper(es)
    /\ \A p \in Nat : TypeOver(b, ts, n, p) # NoTag => Listed(es, p, TypeOver(b, ts, n, p))

LEMMA NoTemps ==
    ASSUME NEW es, NEW b, NEW ts
    PROVE  /\ \A p : TypeOver(b, ts, 0, p) = ResourceType(b, p)
           /\ ListsAll(es, b, ts, 0) <=> ListsResources(es, b)
<1>1. \A p : Over(ts, 0, p) = {}
  BY DEF Over
<1>2. \A p : TypeOver(b, ts, 0, p) = ResourceType(b, p)
  BY <1>1 DEF TypeOver
<1> QED
  BY <1>2 DEF ListsAll, ListsResources

LEMMA TempSpaceIs ==
    ASSUME NEW b, ListsResources(entries, b), NEW ts \in Seq(TempRange),
           NEW es, es = TempSpace(ts)
    PROVE  ListsAll(es, b, ts, Len(ts))
<1>p. PICK plain : plain = Retagged(entries, Plenty, "WC", "UC")
  OBVIOUS
<1>n. PICK new : new = InsertAll(plain, ts)
  OBVIOUS
<1>0. es = new.es /\ Len(ts) \in Nat /\ DOMAIN ts = 1..Len(ts)
  BY <1>p, <1>n DEF TempSpace
<1>1. /\ Proper(plain.es) /\ Plain(plain.es) /\ Supplied(plain)
      /\ \A p \in Nat : \A asked : Listed(entries, p, asked) => Listed(plain.es, p, asked)
  BY <1>p, RetaggedIs DEF ListsResources
<1>2. AllInRange(ts) /\ \A k \in DOMAIN ts : ts[k].type # "WC"
  BY TempsInRange
<1>3. Supplied(new) /\ UpTo(new.es, plain.es, ts, Len(ts))
  BY <1>1, <1>2, <1>n, AllInserted
<1>4. ASSUME NEW p \in Nat, NEW over, over = Over(ts, Len(ts), p), over # {}
      PROVE  ts[Max(over)].type # "WC"
  <2>1. over \subseteq 1..Len(ts)
    BY <1>4 DEF Over
  <2>2. Max(over) \in over
    BY <1>0, <1>4, <2>1, Extremes
  <2> QED
    BY <1>0, <1>2, <2>1, <2>2
<1>5. ASSUME NEW p \in Nat, NEW t
      PROVE  Covers(es, p * Align, t) <=>
                 IF Over(ts, Len(ts), p) = {} THEN Covers(plain.es, p * Align, t)
                 ELSE t = ts[Max(Over(ts, Len(ts), p))].type
  BY <1>0, <1>3 DEF UpTo
<1>6. Plain(es)
  BY <1>1, <1>4, <1>5 DEF Plain
<1>7. ASSUME NEW p \in Nat, NEW t, t = TypeOver(b, ts, Len(ts), p), t # NoTag
      PROVE  Listed(es, p, t)
  <2>a. PICK a : a = p * Align
    OBVIOUS
  <2>1. CASE Over(ts, Len(ts), p) = {}
    <3>1. t = ResourceType(b, p)
      BY <1>7, <2>1 DEF TypeOver
    <3>2. Listed(plain.es, p, t)
      BY <1>1, <1>7, <3>1 DEF ListsResources
    <3>3. Covers(plain.es, a, IF t = "WC" THEN "UC" ELSE t)
      BY <1>1, <2>a, <3>2 DEF Listed
    <3>4. Covers(es, a, IF t = "WC" THEN "UC" ELSE t)
      BY <1>5, <2>1, <2>a, <3>3
    <3> QED
      BY <1>6, <2>a, <3>4 DEF Listed
  <2>2. CASE Over(ts, Len(ts), p) # {}
    <3>1. t = ts[Max(Over(ts, Len(ts), p))].type
      BY <1>7, <2>2 DEF TypeOver
    <3>2. t # "WC"
      BY <1>4, <2>2, <3>1
    <3>3. Covers(es, a, t)
      BY <1>5, <2>2, <2>a, <3>1
    <3> QED
      BY <2>a, <3>2, <3>3 DEF Listed
  <2> QED
    BY <2>1, <2>2
<1> QED
  BY <1>0, <1>3, <1>7 DEF ListsAll, Supplied

-----------------------------------------------------------------------------
(* A solution of such a list gives every page its type.                    *)
Given(sol, asked) == IF asked = "WC" /\ ~Combines(sol) THEN "UC" ELSE asked

RightFor(b, ts, n, sol) ==
    /\ sol.above \in BOOLEAN
    /\ \A p \in Nat : Decided(p, sol.above) /\ TypeOver(b, ts, n, p) # NoTag =>
          Effective(sol, p) = Given(sol, TypeOver(b, ts, n, p))

LEMMA SolutionRight ==
    ASSUME NEW es, NEW b, NEW ts, NEW n, ListsAll(es, b, ts, n), NEW above \in BOOLEAN,
           NEW m, NEW new, new = Simplified(es, above),
           NEW sol, sol = Solution(new, above, m)
    PROVE  /\ ListsAll(new, b, ts, n)
           /\ RightFor(b, ts, n, sol) /\ sol.temps = m /\ sol # NoSolution
<1>1. /\ sol.def = DefaultType(new, above) /\ sol.above = above /\ sol.temps = m
      /\ sol.regs = Registers(new, sol.def, above)
  BY DEF Solution
<1>2. sol.def # "WC" /\ sol # NoSolution
  <2>1. sol.def \in {"WB", "UC"}
    BY <1>1 DEF DefaultType
  <2>2. NoSolution.def = "none"
    BY DEF NoSolution
  <2> QED
    BY <2>1, <2>2
<1>3. ListsAll(new, b, ts, n)
  BY SimplifiedIs DEF ListsAll
<1>4. ASSUME NEW p \in Nat, Decided(p, above), NEW t, t = TypeOver(b, ts, n, p), t # NoTag
      PROVE  Effective(sol, p) = Given(sol, t)
  <2>1. Listed(new, p, t) /\ Proper(new)
    BY <1>3, <1>4 DEF ListsAll, Decided
  <2>2. Effective(sol, p) = IF t = "WC" /\ ~Combines(sol) THEN "UC" ELSE t
    BY <1>1, <1>2, <1>4, <2>1, ListedIsEffective
  <2> QED
    BY <2>2 DEF Given
<1> QED
  BY <1>1, <1>2, <1>3, <1>4 DEF RightFor

-----------------------------------------------------------------------------
(* The solution that is kept is that of the resources; the registers of a  *)
(* processor are those of the temporary ranges they were computed for, of  *)
(* which only the boot processor has any, and remembers it.                *)
Orig ==
    /\ global # NoSolution =>
          /\ ListsResources(entries, board)
          /\ RightFor(board, temps, 0, global) /\ global.temps = 0
    /\ put_back => global # NoSolution

Programmed(c) ==
    msr[c] # Reset =>
        /\ global # NoSolution
        /\ msr[c].temps \in 0..Len(temps)
        /\ RightFor(board, temps, msr[c].temps, msr[c])
        /\ msr[c].temps # 0 => c = Bsp /\ put_back

Restored ==
    HandedOver /\ global # NoSolution /\ Fits(global) =>
        \A c \in Cpu : msr[c] # Reset => msr[c].temps = 0

MtrrsRight ==
    /\ board \in Board /\ temps \in Seq(TempRange)
    /\ put_back \in BOOLEAN /\ msr = [c \in Cpu |-> msr[c]]
    /\ last = None /\ Proper(entries) /\ Apart(entries)
    /\ Orig /\ Restored
    /\ \A c \in Cpu : Programmed(c)
    /\ stage = "late" => board.late

MtrrInv ==
    /\ user \in {"anybody", "mtrr"}
    /\ user = "anybody" => RangesInv /\ \A c \in Cpu : msr[c] = Reset
    /\ user = "mtrr" => MtrrsRight

LEMMA MtrrBegins == MtrrInit => MtrrInv
<1> SUFFICES ASSUME MtrrInit PROVE MtrrInv
  OBVIOUS
<1>1. /\ user \in {"anybody", "mtrr"} /\ stage = "boot" /\ global = NoSolution
      /\ temps = <<>> /\ put_back = FALSE /\ msr = [c \in Cpu |-> Reset]
      /\ user = "mtrr" => board \in Board /\ entries = <<>> /\ last = None
      /\ user = "anybody" => RangesInv
  BY RangesBegin DEF MtrrInit
<1>2. msr = [c \in Cpu |-> msr[c]] /\ \A c \in Cpu : msr[c] = Reset
  BY <1>1
<1>3. temps \in Seq(TempRange)
  BY <1>1
<1> QED
  BY <1>1, <1>2, <1>3, EmptyList DEF MtrrInv, MtrrsRight, Orig, Programmed, Restored

LEMMA MtrrsAsAsked == MtrrInv => TypesAsAsked
<1> SUFFICES ASSUME MtrrInv, NEW c \in Cpu, msr[c] # Reset, NEW p \in Low..Pages - 1,
                    NEW asked, asked = OfTemps(p, TempsIn(c)),
                    p < FourG \/ msr[c].above, asked # NoTag
             PROVE  Effective(msr[c], p) = Given(msr[c], asked)
  BY Zenon DEF TypesAsAsked, Given
<1>1. MtrrsRight /\ Programmed(c)
  BY DEF MtrrInv, MtrrsRight
<1>2. p \in Nat /\ Decided(p, msr[c].above)
  BY PagesIs DEF Decided
<1>3. TempsIn(c) = msr[c].temps
  BY <1>1 DEF MtrrsRight, Programmed, Restored, TempsIn
<1>4. asked = TypeOver(board, temps, msr[c].temps, p)
  <2>1. Over(temps, msr[c].temps, p) = {k \in 1..msr[c].temps : In(p, temps[k])}
    BY DEF Over
  <2>2. OfResources(p) = ResourceType(board, p)
    BY DEF OfResources, ResourceType
  <2> QED
    BY <1>3, <2>1, <2>2 DEF OfTemps, TypeOver
<1>5. RightFor(board, temps, msr[c].temps, msr[c])
  BY <1>1 DEF Programmed
<1> QED
  BY <1>2, <1>4, <1>5 DEF RightFor

(* Nothing of this changes but the registers of one processor.             *)
LEMMA CommitIs ==
    ASSUME msr = [c \in Cpu |-> msr[c]], NEW c \in Cpu, NEW sol, NEW new,
           new = Committed(c, sol)
    PROVE  /\ new = [d \in Cpu |-> new[d]]
           /\ \A d \in Cpu : new[d] = IF d = c /\ Fits(sol) THEN sol ELSE msr[d]
<1>1. CASE Fits(sol)
  <2>1. new = [msr EXCEPT ![c] = sol]
    BY <1>1 DEF Committed
  <2>2. new = [d \in Cpu |-> IF d = c THEN sol ELSE msr[d]]
    BY <2>1
  <2> QED
    BY <1>1, <2>2
<1>2. CASE ~Fits(sol)
  BY <1>2 DEF Committed
<1> QED
  BY <1>1, <1>2

LEMMA FirstSetupRight ==
    ASSUME MtrrsRight, FirstSetup, UNCHANGED <<board, free, last>>, stage \in {"boot", "late"}
    PROVE  MtrrsRight'
<1>a. PICK above : above = board.above
  OBVIOUS
<1>s. PICK space : space = AddressSpace(board)
  OBVIOUS
<1>e. PICK es : es = Simplified(space, above)
  OBVIOUS
<1>o. PICK sol : sol = Solution(es, above, 0)
  OBVIOUS
<1>0. /\ board \in Board /\ above \in BOOLEAN /\ temps \in Seq(TempRange)
      /\ msr = [c \in Cpu |-> msr[c]] /\ Bsp \in Cpu
  BY <1>a, BoardAssumption, BspAssumption DEF MtrrsRight
<1>l. last' = None /\ Proper(es) /\ Apart(es)
  <2>1. Proper(space) /\ Apart(space)
    BY <1>s, AddressSpaceIs DEF FirstSetup, MtrrsRight
  <2> QED
    BY <1>e, <2>1, SimplifiedIs DEF MtrrsRight
<1>1. /\ global = NoSolution
      /\ entries' = es /\ global' = sol /\ msr' = Committed(Bsp, sol)
      /\ UNCHANGED <<temps, put_back, stage, board>>
  BY <1>a, <1>s, <1>e, <1>o DEF FirstSetup
<1>2. ListsAll(space, board, temps, 0)
  <2>1. ListsResources(space, board)
    BY <1>0, <1>1, <1>s, AddressSpaceIs DEF ListsResources
  <2> QED
    BY <2>1, NoTemps
<1>3. /\ ListsAll(es, board, temps, 0)
      /\ RightFor(board, temps, 0, sol) /\ sol.temps = 0 /\ sol # NoSolution
  BY <1>0, <1>2, <1>e, <1>o, SolutionRight
<1>4. Orig'
  <2>1. ListsResources(es, board)
    BY <1>3, NoTemps
  <2> QED
    BY <1>1, <1>3, <2>1 DEF Orig
<1>5. ASSUME NEW c \in Cpu PROVE Programmed(c)'
  <2>1. msr[c] = Reset
    BY <1>1 DEF MtrrsRight, Programmed
  <2>2. msr'[c] = IF c = Bsp /\ Fits(sol) THEN sol ELSE msr[c]
    BY <1>0, <1>1, CommitIs
  <2>3. CASE c = Bsp /\ Fits(sol)
    <3>1. Len(temps) \in Nat
      BY <1>0
    <3> QED
      BY <1>1, <1>3, <2>2, <2>3, <3>1 DEF Programmed
  <2>4. CASE ~(c = Bsp /\ Fits(sol))
    BY <2>1, <2>2, <2>4 DEF Programmed
  <2> QED
    BY <2>3, <2>4
<1>6. Restored'
  BY <1>1 DEF Restored, HandedOver
<1>7. msr' = [c \in Cpu |-> msr'[c]]
  BY <1>0, <1>1, CommitIs
<1> QED
  BY <1>0, <1>1, <1>l, <1>4, <1>5, <1>6, <1>7 DEF MtrrsRight

LEMMA SetupRight ==
    ASSUME MtrrsRight, NEW c \in Cpu, Setup(c), UNCHANGED <<board, free, last>>,
           stage \in {"boot", "late"}
    PROVE  MtrrsRight'
<1>0. /\ board \in Board /\ temps \in Seq(TempRange) /\ msr = [d \in Cpu |-> msr[d]]
      /\ Len(temps) \in Nat
  BY DEF MtrrsRight
<1>1. /\ global # NoSolution /\ msr' = Committed(c, global)
      /\ UNCHANGED <<entries, global, temps, put_back, stage, board>>
  BY DEF Setup
<1>2. RightFor(board, temps, 0, global) /\ global.temps = 0
  BY <1>1 DEF MtrrsRight, Orig
<1>3. ASSUME NEW d \in Cpu PROVE Programmed(d)'
  <2>1. msr'[d] = IF d = c /\ Fits(global) THEN global ELSE msr[d]
    BY <1>0, <1>1, CommitIs
  <2>2. CASE d = c /\ Fits(global)
    BY <1>0, <1>1, <1>2, <2>1, <2>2 DEF Programmed
  <2>3. CASE ~(d = c /\ Fits(global))
    BY <1>1, <2>1, <2>3 DEF MtrrsRight, Programmed
  <2> QED
    BY <2>2, <2>3
<1>4. Restored'
  BY <1>1 DEF Restored, HandedOver
<1>5. msr' = [d \in Cpu |-> msr'[d]]
  BY <1>0, <1>1, CommitIs
<1>6. Orig'
  BY <1>1 DEF MtrrsRight, Orig
<1> QED
  BY <1>0, <1>1, <1>3, <1>4, <1>5, <1>6 DEF MtrrsRight

(* One more temporary range, behind the others.                            *)
LEMMA OneMoreTemp ==
    ASSUME NEW b, NEW ts \in Seq(TempRange), NEW r \in TempRange,
           NEW new, new = Append(ts, r), NEW n \in 0..Len(ts)
    PROVE  /\ new \in Seq(TempRange) /\ Len(new) = Len(ts) + 1
           /\ \A sol : RightFor(b, ts, n, sol) => RightFor(b, new, n, sol)
<1>0. n \in Nat /\ Len(ts) \in Nat
  OBVIOUS
<1>1. /\ new \in Seq(TempRange) /\ Len(new) = Len(ts) + 1
      /\ \A k \in 1..n : new[k] = ts[k]
  OBVIOUS
<1>2. \A p : Over(new, n, p) = Over(ts, n, p)
  BY <1>1 DEF Over
<1>3. ASSUME NEW p PROVE TypeOver(b, new, n, p) = TypeOver(b, ts, n, p)
  <2>o. PICK over : over = Over(ts, n, p)
    OBVIOUS
  <2>1. over \subseteq 1..n
    BY <2>o DEF Over
  <2>2. over # {} => Max(over) \in over
    BY <1>0, <2>1, Extremes
  <2>3. over # {} => new[Max(over)] = ts[Max(over)]
    BY <1>1, <2>1, <2>2
  <2> QED
    BY <1>2, <2>o, <2>3 DEF TypeOver
<1> QED
  BY <1>1, <1>3 DEF RightFor

LEMMA UseTempRangeRight ==
    ASSUME MtrrsRight, NEW r \in TempRange, UseTempRange(r),
           UNCHANGED <<board, free, last>>, stage \in {"boot", "late"}
    PROVE  MtrrsRight'
<1>t. PICK ts : ts = Append(temps, r)
  OBVIOUS
<1>s. PICK space : space = TempSpace(ts)
  OBVIOUS
<1>a. PICK above : above = TRUE
  OBVIOUS
<1>n. PICK n : n = Len(ts)
  OBVIOUS
<1>e. PICK es : es = Simplified(space, above)
  OBVIOUS
<1>o. PICK sol : sol = Solution(es, above, n)
  OBVIOUS
<1>0. /\ board \in Board /\ temps \in Seq(TempRange) /\ msr = [c \in Cpu |-> msr[c]]
      /\ Bsp \in Cpu /\ Len(temps) \in Nat /\ put_back \in BOOLEAN
  BY BspAssumption DEF MtrrsRight
<1>1. /\ global # NoSolution /\ temps' = ts /\ msr' = Committed(Bsp, sol)
      /\ put_back' = (put_back \/ Fits(sol))
      /\ UNCHANGED <<entries, global, stage, board>>
  BY <1>t, <1>s, <1>a, <1>n, <1>e, <1>o DEF UseTempRange, TempSolution, PutBack
<1>2. /\ ts \in Seq(TempRange) /\ Len(ts) = Len(temps) + 1
      /\ \A i \in 0..Len(temps) : \A any :
            RightFor(board, temps, i, any) => RightFor(board, ts, i, any)
  <2>1. ASSUME NEW i \in 0..Len(temps)
        PROVE  /\ ts \in Seq(TempRange) /\ Len(ts) = Len(temps) + 1
               /\ \A any : RightFor(board, temps, i, any) => RightFor(board, ts, i, any)
    <3>b. PICK b : b = board
      OBVIOUS
    <3>w. PICK was : was = temps
      OBVIOUS
    <3>1. was \in Seq(TempRange) /\ ts = Append(was, r) /\ i \in 0..Len(was)
      BY <1>0, <1>t, <3>w
    <3>2. /\ ts \in Seq(TempRange) /\ Len(ts) = Len(was) + 1
          /\ \A any : RightFor(b, was, i, any) => RightFor(b, ts, i, any)
      BY <3>1, OneMoreTemp
    <3> QED
      BY <3>2, <3>b, <3>w
  <2>2. 0 \in 0..Len(temps)
    BY <1>0
  <2> QED
    BY <2>1, <2>2
<1>3. RightFor(board, ts, n, sol) /\ sol.temps = n /\ sol # NoSolution
  <2>1. ListsResources(entries, board)
    BY <1>1 DEF MtrrsRight, Orig
  <2>2. ListsAll(space, board, ts, n)
    BY <1>2, <1>s, <1>n, <2>1, TempSpaceIs
  <2>3. above \in BOOLEAN
    BY <1>a
  <2>b. PICK b : b = board
    OBVIOUS
  <2>m. PICK m : m = n
    OBVIOUS
  <2>4. ListsAll(space, b, ts, n) /\ sol = Solution(es, above, m)
    BY <1>o, <2>2, <2>b, <2>m
  <2>5. RightFor(b, ts, n, sol) /\ sol.temps = m /\ sol # NoSolution
    BY <1>e, <2>3, <2>4, SolutionRight
  <2> QED
    BY <2>5, <2>b, <2>m
<1>4. ASSUME NEW c \in Cpu PROVE Programmed(c)'
  <2>1. msr'[c] = IF c = Bsp /\ Fits(sol) THEN sol ELSE msr[c]
    BY <1>0, <1>1, CommitIs
  <2>2. CASE c = Bsp /\ Fits(sol)
    <3>1. msr'[c] = sol /\ n \in 0..Len(ts)
      BY <1>0, <1>2, <1>n, <2>1, <2>2
    <3>2. put_back'
      BY <1>1, <2>2
    <3> QED
      BY <1>1, <1>3, <2>2, <3>1, <3>2 DEF Programmed
  <2>3. CASE ~(c = Bsp /\ Fits(sol))
    <3>1. msr'[c] = msr[c]
      BY <2>1, <2>3
    <3>2. msr[c] # Reset => /\ msr[c].temps \in 0..Len(temps)
                            /\ RightFor(board, temps, msr[c].temps, msr[c])
                            /\ msr[c].temps # 0 => c = Bsp /\ put_back
      BY DEF MtrrsRight, Programmed
    <3> QED
      BY <1>0, <1>1, <1>2, <3>1, <3>2 DEF Programmed
  <2> QED
    BY <2>2, <2>3
<1>5. Orig'
  <2>1. RightFor(board, ts, 0, global)
    BY <1>0, <1>1, <1>2 DEF MtrrsRight, Orig
  <2> QED
    BY <1>1, <2>1 DEF MtrrsRight, Orig
<1>6. Restored'
  BY <1>1 DEF Restored, HandedOver
<1>7. msr' = [c \in Cpu |-> msr'[c]]
  BY <1>0, <1>1, CommitIs
<1> QED
  BY <1>0, <1>1, <1>2, <1>4, <1>5, <1>6, <1>7 DEF MtrrsRight

(* The end of the temporary ranges: whoever had one has the solution that  *)
(* was kept, if it fits.                                                   *)
LEMMA Removal ==
    ASSUME MtrrsRight, RemoveTempSolution, UNCHANGED <<board, free, last>>,
           stage' = "late" => board.late
    PROVE  MtrrsRight'
<1>0. /\ board \in Board /\ temps \in Seq(TempRange) /\ msr = [c \in Cpu |-> msr[c]]
      /\ Bsp \in Cpu /\ Len(temps) \in Nat /\ put_back \in BOOLEAN
  BY BspAssumption DEF MtrrsRight
<1>1. /\ msr' = IF put_back THEN Committed(Bsp, global) ELSE msr
      /\ UNCHANGED <<entries, global, temps, put_back, board>>
  BY DEF RemoveTempSolution
<1>2. ASSUME NEW c \in Cpu
      PROVE  msr'[c] = IF put_back /\ c = Bsp /\ Fits(global) THEN global ELSE msr[c]
  <2>1. CASE put_back
    BY <1>0, <1>1, <2>1, CommitIs
  <2>2. CASE ~put_back
    BY <1>1, <2>2
  <2> QED
    BY <2>1, <2>2
<1>3. msr' = [c \in Cpu |-> msr'[c]]
  <2>1. CASE put_back
    BY <1>0, <1>1, <2>1, CommitIs
  <2>2. CASE ~put_back
    BY <1>0, <1>1, <2>2
  <2> QED
    BY <2>1, <2>2
<1>4. put_back => /\ global # NoSolution
                  /\ RightFor(board, temps, 0, global) /\ global.temps = 0
  BY DEF MtrrsRight, Orig
<1>5. ASSUME NEW c \in Cpu PROVE Programmed(c)'
  <2>1. CASE put_back /\ c = Bsp /\ Fits(global)
    BY <1>0, <1>1, <1>2, <1>4, <2>1 DEF Programmed
  <2>2. CASE ~(put_back /\ c = Bsp /\ Fits(global))
    <3>1. msr'[c] = msr[c]
      BY <1>2, <2>2
    <3> QED
      BY <1>1, <3>1 DEF MtrrsRight, Programmed
  <2> QED
    BY <2>1, <2>2
<1>6. ASSUME Fits(global), NEW c \in Cpu, msr'[c] # Reset PROVE msr'[c].temps = 0
  <2>1. CASE put_back /\ c = Bsp
    BY <1>2, <1>4, <1>6, <2>1
  <2>2. CASE ~(put_back /\ c = Bsp)
    <3>1. msr'[c] = msr[c]
      BY <1>2, <2>2
    <3> QED
      BY <1>6, <2>2, <3>1 DEF MtrrsRight, Programmed
  <2> QED
    BY <2>1, <2>2
<1>7. Restored'
  BY <1>1, <1>6 DEF Restored
<1>8. Orig'
  BY <1>1 DEF MtrrsRight, Orig
<1> QED
  BY <1>0, <1>1, <1>3, <1>5, <1>7, <1>8 DEF MtrrsRight

LEMMA ResumeLateRight ==
    ASSUME MtrrsRight, ResumeLate, stage = "late", UNCHANGED <<board, free, last>>
    PROVE  MtrrsRight'
<1>1. /\ stage' = "resume" /\ board.late /\ board' = board
      /\ UNCHANGED <<entries, global, temps, put_back, msr>>
  BY DEF ResumeLate, MtrrsRight
<1>2. Orig' /\ Restored' /\ \A c \in Cpu : Programmed(c)'
  BY <1>1 DEF MtrrsRight, Orig, Restored, Programmed, HandedOver
<1> QED
  BY <1>1, <1>2 DEF MtrrsRight

LEMMA MtrrStep == MtrrInv /\ [MtrrNext]_<<range_vars, mtrr_vars>> => MtrrInv'
<1> SUFFICES ASSUME MtrrInv, [MtrrNext]_<<range_vars, mtrr_vars>> PROVE MtrrInv'
  OBVIOUS
<1>1. CASE user = "anybody" /\ RangesNext /\ UNCHANGED mtrr_vars
  BY <1>1, RangesStep DEF MtrrInv, mtrr_vars
<1>2. ASSUME user = "mtrr", UNCHANGED <<user, board, free, last>>, MtrrsRight'
      PROVE  MtrrInv'
  BY <1>2 DEF MtrrInv
<1>3. ASSUME user = "mtrr", UNCHANGED <<user, board, free, last>>,
             stage \in {"boot", "late"}, FirstSetup
      PROVE  MtrrInv'
  BY <1>2, <1>3, FirstSetupRight DEF MtrrInv
<1>4. ASSUME user = "mtrr", UNCHANGED <<user, board, free, last>>,
             stage \in {"boot", "late"}, NEW c \in Cpu, Setup(c)
      PROVE  MtrrInv'
  BY <1>2, <1>4, SetupRight DEF MtrrInv
<1>5. ASSUME user = "mtrr", UNCHANGED <<user, board, free, last>>,
             stage \in {"boot", "late"}, NEW r \in TempRange, UseTempRange(r)
      PROVE  MtrrInv'
  BY <1>2, <1>5, UseTempRangeRight DEF MtrrInv
<1>6. ASSUME user = "mtrr", UNCHANGED <<user, board, free, last>>, BootPayload
      PROVE  MtrrInv'
  BY <1>2, <1>6, Removal DEF MtrrInv, BootPayload
<1>7. ASSUME user = "mtrr", UNCHANGED <<user, board, free, last>>, Resume
      PROVE  MtrrInv'
  BY <1>2, <1>7, Removal DEF MtrrInv, Resume
<1>8. ASSUME user = "mtrr", UNCHANGED <<user, board, free, last>>, stage = "late",
             ResumeLate
      PROVE  MtrrInv'
  BY <1>2, <1>8, ResumeLateRight DEF MtrrInv
<1>9. CASE UNCHANGED <<range_vars, mtrr_vars>>
  <2>1. UNCHANGED <<entries, last, user, stage, board, global, temps, put_back, msr>>
    BY <1>9 DEF range_vars, mtrr_vars
  <2>2. user = "anybody" => RangesInv'
    BY <1>9, RangesStep DEF MtrrInv, range_vars
  <2> QED
    BY <2>1, <2>2 DEF MtrrInv, MtrrsRight, Orig, Programmed, Restored, HandedOver
<1> QED
  BY <1>1, <1>3, <1>4, <1>5, <1>6, <1>7, <1>8, <1>9 DEF MtrrNext

(* The inductive invariant of the MTRRs: the solution that is kept is      *)
(* right for the resources, what a processor has is right for the          *)
(* temporary ranges it was computed with, only the boot processor has any, *)
(* and put_back_original_solution says so.  The boards are those of        *)
(* FlashAssumption; with WidthAssumption the numbers the code has do not   *)
(* overflow, beyond it the theorem is about the model only.                *)
THEOREM MtrrInvariant == MtrrSpec => []MtrrInv
<1>1. MtrrInit => MtrrInv
  BY MtrrBegins
<1>2. MtrrInv /\ [MtrrNext]_<<range_vars, mtrr_vars>> => MtrrInv'
  BY MtrrStep
<1> QED
  BY <1>1, <1>2, PTL DEF MtrrSpec

(* Whatever registers the code finds, on every processor every page has    *)
(* the type that was asked for, with temporary ranges and, where coreboot  *)
(* hands over to a payload or resumes on a board without post_cpus_init(), *)
(* after them.  Of which boards, see MtrrInvariant.                        *)
THEOREM MemoryTypes == MtrrSpec => []TypesAsAsked
<1>1. MtrrInv => TypesAsAsked
  BY MtrrsAsAsked
<1> QED
  BY <1>1, MtrrInvariant, PTL

(* The list is in order whoever uses it.                                   *)
THEOREM MtrrOrdered == MtrrSpec => []Ordered
<1>1. MtrrInv => Ordered
  BY ApartIsOrdered DEF MtrrInv, MtrrsRight, RangesInv
<1> QED
  BY <1>1, MtrrInvariant, PTL

(* The steps on the list are those of any caller; the operations of this   *)
(* code are parts of its own steps, and not noted.                         *)
LEMMA ListSteps ==
    MtrrInv /\ MtrrInv' /\ [MtrrNext]_<<range_vars, mtrr_vars>> =>
        [TagsStep]_range_vars /\ [BestStep]_range_vars
<1> SUFFICES ASSUME MtrrInv, MtrrInv', [MtrrNext]_<<range_vars, mtrr_vars>>
             PROVE  [TagsStep]_range_vars /\ [BestStep]_range_vars
  OBVIOUS
<1>1. CASE user = "anybody" /\ RangesNext /\ UNCHANGED mtrr_vars
  <2>1. RangesInv /\ RangesInv'
    BY <1>1 DEF MtrrInv, mtrr_vars
  <2> QED
    BY <1>1, <2>1, StepsAsAsked, StepsBest
<1>2. CASE user = "mtrr" /\ UNCHANGED <<user, last>>
  <2>1. last'.op = "none"
    BY <1>2 DEF MtrrInv, MtrrsRight, None
  <2>2. TagsStep /\ BestStep
    BY <2>1 DEF TagsStep, BestStep, Best
  <2> QED
    BY <2>2
<1>3. CASE UNCHANGED <<range_vars, mtrr_vars>>
  BY <1>3
<1> QED
  BY <1>1, <1>2, <1>3 DEF MtrrNext

(* Where this code or any other caller has the list, each operation on it  *)
(* does what it was asked to, and the range stolen is the best.            *)
THEOREM MtrrListAsAsked == MtrrSpec => TagsAsAsked /\ BestBase
BY ListSteps, TagsSteps, BestSteps, MtrrInvariant, PTL DEF MtrrSpec
=============================================================================
