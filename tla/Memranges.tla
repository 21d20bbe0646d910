----------------------------- MODULE Memranges ------------------------------
(***************************************************************************)
(* The list of tagged address ranges, src/src/lib/memrange.c: the memory   *)
(* map, the MTRR solution and the resource allocator are computed with it. *)
(*                                                                         *)
(* A list promises a function from addresses to tags.  The loops of the    *)
(* code, which trim, split, drop and merge entries in place, are recursive *)
(* functions here; the second definition of each operation, on that        *)
(* function, is under "Meaning".                                           *)
(*                                                                         *)
(* Addresses are small and do not wrap.  Entries come from the free list,  *)
(* and an operation that finds it empty prints an error and goes on.  In   *)
(* the payload loader's stage the list is refilled for ever: a list with   *)
(* Plenty in supply.                                                       *)
(*                                                                         *)
(* A definition whose name starts with Mutant is the one below it with a   *)
(* mistake, for testing the properties.                                    *)
(***************************************************************************)
EXTENDS Integers, Sequences, FiniteSets, FiniteSetsExt

CONSTANTS Top,       \* addresses are below it
          Align,     \* POWER_OF_2(align) of the list
          Tag,
          NumFree,   \* bound on the entries there are, unless they are Plenty
          Reach,     \* bound on the addresses callers pass
          CallerTag  \* bound on the tags callers pass

ASSUME AddressAssumption == /\ Top \in Nat /\ Align \in Nat \ {0}
                            /\ Top % Align = 0
ASSUME FreeAssumption == NumFree \in Nat
ASSUME CallerAssumption == Reach \in 0..Top /\ CallerTag \subseteq Tag

NoTag == "no tag"
ASSUME TagAssumption == NoTag \notin Tag

Address == 0..Top - 1
Plenty == NumFree + 4 * Top
RangeEntry == [begin: Address, end: Address, tag: Tag]

VARIABLES entries,    \* ranges->entries
          free,       \* how many more entries there are
          last        \* the last operation, and of memranges_steal() what it returned

range_vars == <<entries, free, last>>

RangesTypeOK ==
    /\ entries \in Seq(RangeEntry) /\ free \in Nat
    /\ free = Plenty \/ Len(entries) + free <= NumFree

None == [op |-> "none"]
RangesInit == entries = <<>> /\ free \in 0..NumFree /\ last = None

-----------------------------------------------------------------------------
(* Both results of a loop over the list: the list, and the free entries.   *)
List(es, n) == [es |-> es, free |-> n]
Entry(b, e, t) == [begin |-> b, end |-> e, tag |-> t]
From(es, i) == SubSeq(es, i, Len(es))

AlignDown(a, n) == a - (a % n)
AlignUp(a, n) == AlignDown(a + n - 1, n)

(* merge_neighbor_entries()                                                *)
MutantTouches(r, s) == r.end >= s.begin /\ r.tag = s.tag
Touches(r, s) == r.end + 1 >= s.begin /\ r.tag = s.tag

MergeNext(done, r) ==
    LET m == Len(done.es)
    IN IF m > 0 /\ Touches(done.es[m], r)
       THEN List([done.es EXCEPT ![m].end = r.end], done.free + 1)
       ELSE List(Append(done.es, r), done.free)

MergeNeighbors(es, n) ==
    LET merge[k \in 0..Len(es)] ==
            IF k = 0 THEN List(<<>>, n) ELSE MergeNext(merge[k - 1], es[k])
    IN merge[Len(es)]

(* remove_memranges(): begin moves up as entries are passed, and behind a  *)
(* break nothing changes.  The upper part of an entry that is split needs  *)
(* a new entry.                                                            *)
Clip(r, begin, tmp_end) ==
    IF begin = r.begin THEN [r EXCEPT !.begin = tmp_end + 1]
    ELSE [r EXCEPT !.end = begin - 1]

Loop(es, n, begin, over) == [es |-> es, free |-> n, begin |-> begin, over |-> over]

Split(done, r, begin, end) ==
    LET low == Append(done.es, [r EXCEPT !.end = begin - 1])
    IN IF done.free = 0 THEN Loop(low, 0, begin, TRUE)
       ELSE Loop(Append(low, [r EXCEPT !.begin = end + 1]), done.free - 1, begin, TRUE)

RemoveFrom(done, r, end) ==
    LET b == Max({done.begin, r.begin})
        tmp_end == Min({end, r.end})
    IN IF done.over \/ end < r.begin
       THEN Loop(Append(done.es, r), done.free, done.begin, TRUE)
       ELSE IF done.begin > r.end THEN Loop(Append(done.es, r), done.free, done.begin, FALSE)
       ELSE IF done.begin <= r.begin /\ end >= r.end
       THEN Loop(done.es, done.free + 1, r.end + 1, FALSE)
       ELSE IF b > r.begin /\ tmp_end < r.end THEN Split(done, r, b, end)
       ELSE Loop(Append(done.es, Clip(r, b, tmp_end)), done.free, b, FALSE)

Remove(es, n, first, end) ==
    LET remove[k \in 0..Len(es)] ==
            IF k = 0 THEN Loop(<<>>, n, first, FALSE) ELSE RemoveFrom(remove[k - 1], es[k], end)
    IN List(remove[Len(es)].es, remove[Len(es)].free)

(* merge_add_memranges(): the new entry goes behind those that end before  *)
(* it; all others begin after it.                                          *)
Add(es, n, r) ==
    LET before == {k \in DOMAIN es : es[k].begin <= r.end}
        p == Cardinality(before)
    IN IF n = 0 THEN List(es, 0)
       ELSE List(SubSeq(es, 1, p) \o <<r>> \o From(es, p + 1), n - 1)

MergeAdd(es, n, r) ==
    LET removed == Remove(es, n, r.begin, r.end)
        added == Add(removed.es, removed.free, r)
    IN MergeNeighbors(added.es, added.free)

(* do_action(): a range is widened to the alignment of the list.           *)
BeginOf(base) == AlignDown(base, Align)
End(base, size) == AlignUp(base + size, Align) - 1

Becomes(list) == entries' = list.es /\ free' = list.free

-----------------------------------------------------------------------------
Inserted(es, n, base, size, tag) ==
    IF size = 0 THEN List(es, n)
    ELSE MergeAdd(es, n, Entry(BeginOf(base), End(base, size), tag))

Insert(base, size, tag) ==
    /\ Becomes(Inserted(entries, free, base, size, tag))
    /\ last' = [op |-> "insert", base |-> base, size |-> size, tag |-> tag]

CreateHole(base, size) ==
    /\ IF size = 0 THEN UNCHANGED <<entries, free>>
       ELSE Becomes(Remove(entries, free, BeginOf(base), End(base, size)))
    /\ last' = [op |-> "hole", base |-> base, size |-> size]

Retagged(es, n, old_tag, new_tag) ==
    MergeNeighbors([k \in DOMAIN es |->
                        IF es[k].tag = old_tag THEN [es[k] EXCEPT !.tag = new_tag]
                        ELSE es[k]], n)

UpdateTag(old_tag, new_tag) ==
    /\ Becomes(Retagged(entries, free, old_tag, new_tag))
    /\ last' = [op |-> "update", old |-> old_tag, new |-> new_tag]

(* memranges_fill_holes_up_to(): the hole in front of the first entry is   *)
(* left.                                                                   *)
MutantHoleEnd(es, k, limit) == es[k].begin - 1
HoleEnd(es, k, limit) == Min({es[k].begin, limit}) - 1

HoleBefore(es, k) == k > 1 /\ es[k - 1].end + 1 # es[k].begin
FillsBefore(es, k, limit) == HoleBefore(es, k) /\ (k = 2 \/ es[k - 1].begin < limit)

FillNext(done, es, k, limit, tag) ==
    LET hole == Entry(es[k - 1].end + 1, HoleEnd(es, k, limit), tag)
    IN IF FillsBefore(es, k, limit) /\ done.free > 0
       THEN List(Append(Append(done.es, hole), es[k]), done.free - 1)
       ELSE List(Append(done.es, es[k]), done.free)

Filled(es, n, limit, tag) ==
    LET fill[k \in 0..Len(es)] ==
            IF k = 0 THEN List(<<>>, n) ELSE FillNext(fill[k - 1], es, k, limit, tag)
        filled == fill[Len(es)]
        reached == es = <<>> \/ es[Len(es)].end + 1 >= limit
    IN IF reached \/ filled.free = 0 THEN MergeNeighbors(filled.es, filled.free)
       ELSE MergeNeighbors(Append(filled.es, Entry(es[Len(es)].end + 1, limit - 1, tag)),
                           filled.free - 1)

FillHoles(limit, tag) ==
    /\ Becomes(Filled(entries, free, limit, tag))
    /\ last' = [op |-> "fill", limit |-> limit, tag |-> tag]

(* memranges_find_entry() gives the first or the last entry that fits.     *)
Candidates(limit, size, align, tag) ==
    {k \in DOMAIN entries :
        /\ entries[k].tag = tag
        /\ LET end == AlignUp(entries[k].begin, align) + size - 1
           IN end <= entries[k].end /\ end <= limit}

MutantHighest(r, limit, size, align) == AlignDown(r.end - size + 1, align)
Highest(r, limit, size, align) ==
    AlignDown(Min({limit, r.end}) - size + 1, align)

Steal(limit, size, align, tag, from_top) ==
    LET fits == Candidates(limit, size, align, tag)
        base == IF from_top THEN Highest(entries[Max(fits)], limit, size, align)
                ELSE AlignUp(entries[Min(fits)].begin, align)
        stolen == size # 0 /\ fits # {}
    IN /\ IF stolen
          THEN Becomes(Remove(entries, free, BeginOf(base), End(base, size)))
          ELSE UNCHANGED <<entries, free>>
       /\ last' = [op |-> "steal", limit |-> limit, size |-> size, align |-> align,
                   tag |-> tag, top |-> from_top, stolen |-> stolen,
                   base |-> IF stolen THEN base ELSE 0]

Teardown ==
    /\ entries' = <<>> /\ free' = free + Len(entries)
    /\ last' = None

(* Behind an entry that reaches the limit, and has a hole behind it,       *)
(* memranges_fill_holes_up_to() adds a range that ends before it begins.   *)
(* If it touches the entry and has its tag the two are merged and nothing  *)
(* of it is left.  The code does not test for anything else; callers are   *)
(* taken to avoid it, and to pass a limit that is aligned as the list is.  *)
Fillable(es, limit, tag) ==
    \A k \in DOMAIN es : FillsBefore(es, k, limit) =>
        \/ es[k - 1].end < limit - 1
        \/ es[k - 1].end = limit - 1 /\ es[k - 1].tag = tag

RangesNext ==
    \/ \E base \in 0..Reach - 1, size \in 0..Reach :
           /\ base + size <= Reach
           /\ \/ \E tag \in CallerTag : Insert(base, size, tag)
              \/ CreateHole(base, size)
    \/ \E t, u \in CallerTag : UpdateTag(t, u)
    \/ \E limit \in {a \in 1..Reach : a % Align = 0}, tag \in CallerTag :
           Fillable(entries, limit, tag) /\ FillHoles(limit, tag)
    \/ \E limit \in 0..Reach - 1, size \in 0..Reach, align \in {1, Align, 2 * Align},
          tag \in CallerTag, from_top \in BOOLEAN : Steal(limit, size, align, tag, from_top)
    \/ Teardown

RangesSpec == RangesInit /\ [][RangesNext]_range_vars

-----------------------------------------------------------------------------
(* Entries are in order, apart, not empty and aligned as the list is, and  *)
(* neighbours that touch have different tags: what memranges_find_entry()  *)
(* and every loop with a break rely on.                                    *)
Ordered ==
    \A k \in DOMAIN entries :
        /\ entries[k].begin <= entries[k].end
        /\ entries[k].begin % Align = 0 /\ (entries[k].end + 1) % Align = 0
        /\ k > 1 => /\ entries[k - 1].end < entries[k].begin
                    /\ \/ entries[k - 1].end + 1 < entries[k].begin
                       \/ entries[k - 1].tag # entries[k].tag

(* Meaning: the tag of each address.                                       *)
TagAt(es, a) ==
    LET cover == {k \in DOMAIN es : a \in es[k].begin..es[k].end}
    IN IF cover = {} THEN NoTag ELSE es[CHOOSE k \in cover : TRUE].tag

Widened(op) == IF op.size = 0 THEN {} ELSE BeginOf(op.base)..End(op.base, op.size)
Taken(op) == op.op = "hole" \/ (op.op = "steal" /\ op.stolen)
ToFill(es, op) ==
    {a \in Address : /\ es # <<>> /\ a < op.limit
                     /\ a > es[1].end /\ TagAt(es, a) = NoTag}

Wanted(es, op, a) ==
    IF op.op = "insert" /\ a \in Widened(op) THEN op.tag
    ELSE IF Taken(op) /\ a \in Widened(op) THEN NoTag
    ELSE IF op.op = "update" /\ TagAt(es, a) = op.old THEN op.new
    ELSE IF op.op = "fill" /\ a \in ToFill(es, op) THEN op.tag
    ELSE TagAt(es, a)

Needed(op) ==
    CASE op.op = "insert" -> 2 [] op.op = "fill" -> Len(entries) [] Taken(op) -> 1
      [] OTHER -> 0

(* With enough free entries an operation changes the tags of the addresses *)
(* as it promises, and no others.  With too few of them addresses may lose *)
(* their tag or not get one: none gets a tag nobody asked for, and none    *)
(* keeps one that was to be taken away.                                    *)
TagsAsAsked ==
    [][last'.op # "none" =>
           \A a \in Address :
               \/ TagAt(entries', a) = Wanted(entries, last', a)
               \/ free < Needed(last') /\ TagAt(entries', a) = NoTag]_range_vars

(* memranges_steal() returns a base of that alignment, whose range lay in  *)
(* one entry of that tag and does not pass the limit; the lowest there is, *)
(* or the highest when it takes from the top; and it fails only when there *)
(* is none.                                                                *)
Fitting(op) ==
    {b \in Address :
        /\ b % op.align = 0 /\ b + op.size - 1 <= op.limit
        /\ \E k \in DOMAIN entries :
              /\ entries[k].tag = op.tag
              /\ entries[k].begin <= b /\ b + op.size - 1 <= entries[k].end}
BestBase ==
    [][last'.op = "steal" /\ last'.size > 0 =>
           /\ last'.stolen <=> Fitting(last') # {}
           /\ last'.stolen =>
                 last'.base = IF last'.top THEN Max(Fitting(last'))
                              ELSE Min(Fitting(last'))]_range_vars

=============================================================================
