-------------------------------- MODULE Mtrr --------------------------------
(***************************************************************************)
(* Memory types of the processors, src/src/cpu/x86/mtrr/mtrr.c: from the   *)
(* resources to a list of ranges, from it to a default type and as few     *)
(* variable MTRRs as the code finds, and those into the registers of each  *)
(* processor; temporary ranges of the boot processor, and their end.       *)
(*                                                                         *)
(* The list is that of Memranges, used by this code instead of any caller. *)
(* The unit of addresses is a page: PHYS_TO_RANGE_ADDR().  Below Low the   *)
(* fixed MTRRs decide, which are not modelled.  A pair of registers is the *)
(* block of addresses that its base and mask describe.                     *)
(***************************************************************************)
EXTENDS Memranges

CONSTANTS AddressBits,   \* page numbers have fewer bits
          Low,           \* RANGE_1MB
          FourG,         \* RANGE_4GB
          TotalMtrrs,    \* total_mtrrs, at most NUM_MTRR_STATIC_STORAGE
          Reserved,      \* get_os_reserved_mtrrs()
          Cpu, Bsp,
          Board,         \* the resources there may be, above4gb, and late: Intel's
                         \* post_cpus_init() runs when the system is resumed
          TempRange,     \* what mtrr_use_temp_range() is called with
          NumTemps       \* ARRAY_SIZE(temp_ranges)

Pages == Top \div Align
ASSUME PageAssumption == /\ AddressBits \in Nat /\ Pages <= 2^AddressBits
                         /\ Low \in Nat /\ FourG \in Nat /\ Low < FourG /\ FourG <= Pages
ASSUME MtrrAssumption == TotalMtrrs \in Nat /\ Reserved \in 0..TotalMtrrs
ASSUME BspAssumption == Bsp \in Cpu

(* There is memory at 0: the addresses in front of the first resource are  *)
(* not filled, and would have the default type.  No caller asks for a      *)
(* write-combining temporary range.                                        *)
In(p, b) == p \in b.base..b.base + b.size - 1
InSome(p, blocks) == \E k \in DOMAIN blocks : In(p, blocks[k])

ASSUME BoardAssumption ==
    \A b \in Board :
        /\ b.above \in BOOLEAN /\ b.late \in BOOLEAN /\ InSome(0, b.wb)
        /\ \A blocks \in {b.wb, b.uc, b.wc} :
              /\ blocks \in Seq([base: Nat, size: Nat])
              /\ \A k \in DOMAIN blocks : blocks[k].base + blocks[k].size <= Pages
ASSUME TempAssumption ==
    /\ {"WB", "UC", "WC"} \subseteq Tag
    /\ TempRange \subseteq [base: Nat, size: Nat \ {0}, type: Tag \ {"WC"}]
    /\ \A r \in TempRange : r.base + r.size <= Pages

(* For the end of a write-back range optimize_var_mtrr_hole() has a        *)
(* uint32_t, and like its caller takes __ffs() and __fls() of a u32 and    *)
(* shifts an int.  This is exact as long as memory ends below 8 TiB; the   *)
(* numbers of its pages are taken to be half of that.                      *)
ASSUME WidthAssumption ==
    /\ FourG <= 2^30
    /\ \A b \in Board : \A k \in DOMAIN b.wb : b.wb[k].base + b.wb[k].size <= 2^30
    /\ \A r \in TempRange : r.type = "WB" => r.base + r.size <= 2^30

VARIABLES user,       \* whose list it is: "anybody" (Memranges) or "mtrr"
          stage,      \* "boot", "late" (post_cpus_init() on resume), or how
                      \* coreboot was left: "payload", "resume"
          board,      \* of Board
          global,     \* mtrr_global_solution, or NoSolution
          temps,      \* temp_ranges[], the entries in use
          put_back,   \* put_back_original_solution
          msr         \* the MTRRs of each processor, Reset before the first commit

mtrr_vars == <<user, stage, board, global, temps, put_back, msr>>

NoSolution == [def |-> "none"]
Reset == NoSolution

MtrrInit ==
    /\ user \in {"anybody", "mtrr"} /\ stage = "boot"
    /\ IF user = "anybody" THEN RangesInit /\ board = CHOOSE b \in Board : TRUE
       ELSE entries = <<>> /\ free = Plenty /\ last = None /\ board \in Board
    /\ global = NoSolution /\ temps = <<>> /\ put_back = FALSE
    /\ msr = [c \in Cpu |-> Reset]

-----------------------------------------------------------------------------
(* get_physical_address_space(): write-back, then uncacheable, then write- *)
(* combining resources are inserted, and the rest up to 4 GiB is filled.   *)
InsertRange(list, r) ==
    Inserted(list.es, list.free, r.base * Align, r.size * Align, r.type)

InsertAll(list, ranges) ==
    LET insert[k \in 0..Len(ranges)] ==
            IF k = 0 THEN list ELSE InsertRange(insert[k - 1], ranges[k])
    IN insert[Len(ranges)]

Of(blocks, type) ==
    [k \in DOMAIN blocks |->
        [base |-> blocks[k].base, size |-> blocks[k].size, type |-> type]]

Resources(b) ==
    LET wb == InsertAll(List(<<>>, Plenty), Of(b.wb, "WB"))
        uc == InsertAll(wb, Of(b.uc, "UC"))
    IN InsertAll(uc, Of(b.wc, "WC")).es

(* Below 4 GiB is the flash that the processor starts from, uncacheable.   *)
(* No resource goes on over 4 GiB that ends in front of a gap.             *)
ASSUME FlashAssumption ==
    \A b \in Board : Fillable(Resources(b), FourG * Align, "UC")

AddressSpace(b) == Filled(Resources(b), Plenty, FourG * Align, "UC").es

FirstPage(r) == r.begin \div Align
EndPage(r) == (r.end + 1) \div Align

(* calc_var_mtrr_range(): the lowest bit of the base and the highest of    *)
(* the size say how large a block may be; the base may be 0.               *)
Power == {p \in 1..2^AddressBits : \E k \in 0..AddressBits : p = 2^k}
LowBit(n) == Max({p \in Power : n % p = 0})
HighBit(n) == Max({p \in Power : p <= n})

Block(base, size) ==
    IF base = 0 \/ LowBit(base) > HighBit(size) THEN HighBit(size) ELSE LowBit(base)

Blocks(first, length, type) ==
    LET blocks[size \in 0..length] ==
            IF size = 0 THEN <<>>
            ELSE LET base == first + length - size
                     s == Block(base, size)
                 IN <<[base |-> base, size |-> s, type |-> type]>> \o blocks[size - s]
    IN blocks[length]

(* optimize_var_mtrr_hole(): the upper end of a write-back range may be    *)
(* aligned up and what was added carved out again.                         *)
HoleEnds(hole, limit) ==
    {hole} \cup
    {e \in {AlignUp(hole, p) : p \in {q \in Power : LowBit(hole) < q /\ q <= HighBit(hole)}} :
        e <= limit}

OptimalEnd(base, hole, limit, carve_hole) ==
    LET cost(e) == Len(Blocks(base, e - base, "WB"))
                   + IF carve_hole THEN Len(Blocks(hole, e - hole, "UC")) ELSE 0
        ends == HoleEnds(hole, limit)
        least == Min({cost(e) : e \in ends})
    IN Min({e \in ends : cost(e) = least})

(* calc_var_mtrrs_with_hole(): the registers for one entry.                *)
Limit(es, k, end) ==
    IF k = Len(es) THEN AlignUp(end, HighBit(end))
    ELSE IF es[k + 1].tag = "UC" THEN EndPage(es[k + 1])
    ELSE FirstPage(es[k + 1])

Ignored(r, above) == EndPage(r) <= Low \/ (~above /\ FirstPage(r) >= FourG)

ForEntry(es, k, above) ==
    LET r == es[k]
        a1 == IF FirstPage(r) <= Low THEN 0 ELSE FirstPage(r)
        a2 == IF above THEN EndPage(r) ELSE Min({EndPage(r), FourG})
        carve_hole == k < Len(es) \/ a1 < FourG
        b2 == OptimalEnd(a1, a2, Limit(es, k, a2), carve_hole)
    IN IF Ignored(r, above) THEN <<>>
       ELSE IF r.tag # "WB" THEN Blocks(a1, a2 - a1, r.tag)
       ELSE Blocks(a1, b2 - a1, "WB")
            \o IF carve_hole THEN Blocks(a2, b2 - a2, "UC") ELSE <<>>

Registers(es, def, above) ==
    LET regs[k \in 0..Len(es)] ==
            IF k = 0 THEN <<>>
            ELSE regs[k - 1] \o IF es[k].tag = def THEN <<>> ELSE ForEntry(es, k, above)
    IN regs[Len(es)]

(* calc_var_mtrrs(): write-combining is given up if there are too few      *)
(* MTRRs with it.                                                          *)
Needs(es, def, above) == Len(Registers(es, def, above))

TooMany(es, above) ==
    \A def \in {"WB", "UC"} : Needs(es, def, above) > TotalMtrrs - Reserved

Simplified(es, above) ==
    IF TooMany(es, above) THEN Retagged(es, Plenty, "WC", "UC").es ELSE es

DefaultType(es, above) ==
    IF Needs(es, "WB", above) < Needs(es, "UC", above) THEN "WB" ELSE "UC"

(* The number of temporary ranges and above4gb are noted for the           *)
(* properties.                                                             *)
Solution(es, above, n) ==
    LET def == DefaultType(es, above)
    IN [def |-> def, regs |-> Registers(es, def, above), above |-> above, temps |-> n]

(* commit_var_mtrrs()                                                      *)
Fits(sol) == Len(sol.regs) <= TotalMtrrs
Committed(c, sol) == IF Fits(sol) THEN [msr EXCEPT ![c] = sol] ELSE msr

-----------------------------------------------------------------------------
(* x86_setup_mtrrs() and its variants, first on the boot processor         *)
(* (mp_run_on_all_cpus(), pre_mp_init()), which computes the solution.     *)
FirstSetup ==
    /\ global = NoSolution
    /\ LET es == Simplified(AddressSpace(board), board.above)
           sol == Solution(es, board.above, 0)
       IN entries' = es /\ global' = sol /\ msr' = Committed(Bsp, sol)
    /\ UNCHANGED <<temps, put_back, stage>>

Setup(c) ==
    /\ global # NoSolution
    /\ msr' = Committed(c, global)
    /\ UNCHANGED <<entries, global, temps, put_back, stage>>

(* mtrr_use_temp_range(), on the boot processor.  If the solution does not *)
(* fit the range stays in the table.                                       *)
TempSpace(ranges) == InsertAll(Retagged(entries, Plenty, "WC", "UC"), ranges).es

TempSolution(ranges) ==
    Solution(Simplified(TempSpace(ranges), TRUE), TRUE, Len(ranges))

MutantPutBack(sol) == Fits(sol)
PutBack(sol) == put_back \/ Fits(sol)

UseTempRange(r) ==
    /\ global # NoSolution
    /\ Len(temps) < NumTemps
    /\ temps' = Append(temps, r)
    /\ LET sol == TempSolution(temps')
       IN /\ msr' = Committed(Bsp, sol)
          /\ put_back' = PutBack(sol)
    /\ UNCHANGED <<entries, global, stage>>

(* remove_temp_solution() is called on entry of BS_PAYLOAD_BOOT and        *)
(* BS_OS_RESUME, in the latter before post_cpus_init(), if there is one:   *)
(* the archives of ramstage are linked in the reverse order of their       *)
(* directories, and the last callback of a phase is called first.          *)
RemoveTempSolution ==
    /\ msr' = IF put_back THEN Committed(Bsp, global) ELSE msr
    /\ UNCHANGED <<entries, global, temps, put_back>>

BootPayload == stage' = "payload" /\ RemoveTempSolution
Resume == stage' = (IF board.late THEN "late" ELSE "resume") /\ RemoveTempSolution
ResumeLate == stage' = "resume" /\ UNCHANGED <<entries, global, temps, put_back, msr>>

MtrrNext ==
    \/ user = "anybody" /\ RangesNext /\ UNCHANGED mtrr_vars
    \/ /\ user = "mtrr"
       /\ \/ /\ stage \in {"boot", "late"}
             /\ \/ FirstSetup
                \/ \E c \in Cpu : Setup(c)
                \/ \E r \in TempRange : UseTempRange(r)
          \/ stage = "boot" /\ (BootPayload \/ Resume)
          \/ stage = "late" /\ ResumeLate
       /\ UNCHANGED <<user, board, free, last>>

MtrrSpec == MtrrInit /\ [][MtrrNext]_<<range_vars, mtrr_vars>>

-----------------------------------------------------------------------------
(* What a processor makes of its MTRRs: uncacheable wins, other types must *)
(* not overlap.                                                            *)
TypesAt(sol, p) == {sol.regs[k].type : k \in {j \in DOMAIN sol.regs : In(p, sol.regs[j])}}

Effective(sol, p) ==
    LET types == TypesAt(sol, p)
    IN IF types = {} THEN sol.def
       ELSE IF "UC" \in types THEN "UC"
       ELSE IF Cardinality(types) = 1 THEN CHOOSE t \in types : TRUE
       ELSE "undefined"

(* What the resources ask for, and the temporary ranges over them, the     *)
(* latest last.                                                            *)
OfResources(p) ==
    IF InSome(p, board.wc) THEN "WC" ELSE IF InSome(p, board.uc) THEN "UC"
    ELSE IF InSome(p, board.wb) THEN "WB" ELSE IF p < FourG THEN "UC" ELSE NoTag

OfTemps(p, n) ==
    LET over == {k \in 1..n : In(p, temps[k])}
    IN IF over = {} THEN OfResources(p) ELSE temps[Max(over)].type

(* When coreboot hands over, no temporary range is left, if the solution   *)
(* without them fits, as mtrr.h promises with "for the duration of         *)
(* coreboot's runtime".  Where post_cpus_init() runs on resume the code    *)
(* breaks this: it makes a temporary range after remove_temp_solution().   *)
HandedOver == stage = "payload" \/ (stage = "resume" /\ ~board.late)
TempsIn(c) == IF HandedOver /\ Fits(global) THEN 0 ELSE msr[c].temps

(* Whatever registers the code found, with a default, holes and overlaps,  *)
(* every page above the fixed MTRRs that is a resource, a temporary range  *)
(* or below 4 GiB has the type that was asked for; write-combining may     *)
(* have been given up for uncacheable, everywhere or nowhere.  If only     *)
(* 4 GiB were asked for, nothing is said beyond.  At the end the temporary *)
(* ranges are gone, but for a resume with post_cpus_init(), after which    *)
(* the types are those of the ranges that are left.                        *)
Combines(sol) == \E k \in DOMAIN sol.regs : sol.regs[k].type = "WC"

TypesAsAsked ==
    \A c \in Cpu : msr[c] # Reset =>
        \A p \in Low..Pages - 1 :
            LET asked == OfTemps(p, TempsIn(c))
                given == IF asked = "WC" /\ ~Combines(msr[c]) THEN "UC" ELSE asked
            IN (p < FourG \/ msr[c].above) /\ asked # NoTag =>
                  Effective(msr[c], p) = given
=============================================================================
