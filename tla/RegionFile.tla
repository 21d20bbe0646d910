----------------------------- MODULE RegionFile -----------------------------
(***************************************************************************)
(* A region file, src/src/lib/region_file.c: a log of the updates of one   *)
(* item in a region of NOR flash.  The first blocks hold the metadata, one *)
(* 16-bit offset per update, which says at which block its data ends; the  *)
(* data follow.  When the log is full the region is erased.                *)
(*                                                                         *)
(* Offsets and data are what is in the flash; pc, value and cursor say how *)
(* far region_file_update_data_arr() has got, with one step per write and  *)
(* per erased sector, since each may be the last: the power may be cut at  *)
(* any time, and any access of the flash may fail.                         *)
(*                                                                         *)
(* The flash is modelled as the driver uses it.  Erasing works on sectors, *)
(* one after the other (src/src/drivers/spi/spi_flash.c, lines 273-300),   *)
(* and a sector is erased or is not; programming only clears bits, so an   *)
(* offset whose programming is cut off reads as a number between the one   *)
(* meant and the erased one, a data block as garbage, and programming data *)
(* over other data leaves garbage.                                         *)
(*                                                                         *)
(* A definition whose name starts with Mutant is the definition below it   *)
(* with a bug, which the properties are shown to catch; nothing uses it.   *)
(***************************************************************************)
EXTENDS Integers, FiniteSets

CONSTANTS Blocks,        \* size of the region in blocks of 16 bytes
          SectorBlocks,  \* size of an erase sector of the flash
          PerBlock,      \* REGF_UPDATES_PER_METADATA_BLOCK, 8 in the code
          Unallocated,   \* REGF_UNALLOCATED_BLOCK, 0xffff in the code
          Value,         \* what may be written
          Size,          \* the blocks each value takes
          NoValue, Erased, Garbage

ASSUME GeometryAssumption ==
    /\ PerBlock \in Nat \ {0}
    /\ SectorBlocks \in Nat \ {0}
    /\ Unallocated \in Nat
    /\ Blocks \in 2..Unallocated + 1
    /\ Blocks % SectorBlocks = 0

(* region_file.h, line 17: at most 1 MiB - 48 bytes.                       *)
ASSUME SizeAssumption == Size \in [Value -> 1..Unallocated - 2]
ASSUME NullAssumption ==
    NoValue \notin Value /\ Garbage \notin Value /\ NoValue # Garbage

(* Neither an erased block nor garbage is a piece of a value.              *)
ASSUME PieceAssumption == {Erased, Garbage} \cap (Value \X (0..Blocks - 1)) = {}

VARIABLES offsets,       \* the 16-bit offsets, where the metadata is
          data,          \* the data blocks: the i-th block of a value
          f,             \* struct region_file
          pc,            \* "closed", "open", or where the update is
          value,         \* what the update writes
          cursor,        \* the next sector to erase or block to write
          result         \* how the last update ended

flash == <<offsets, data>>
vars == <<offsets, data, f, pc, value, cursor, result>>

RF_ONLY_METADATA == 0
RF_EMPTY == -1
RF_NEED_TO_EMPTY == -2
RF_FATAL == -3

Block == 0..Blocks - 1
Slot == 0..Blocks * PerBlock - 1
Offset == 0..Unallocated
FileState == [slot : RF_FATAL..Blocks * PerBlock, meta : Offset, begin : Offset, end : Offset]

NoFile == [slot |-> RF_FATAL, meta |-> 0, begin |-> 0, end |-> 0]

(* What is in flash and memory; an open file that is not in error keeps    *)
(* its slot within the metadata and its data within the region.            *)
TypeOK ==
    /\ offsets \in [Slot -> Offset]
    /\ data \in [Block -> {Erased, Garbage} \cup (Value \X (0..Blocks - 1))]
    /\ f \in FileState
    /\ f.slot >= RF_ONLY_METADATA =>
         f.slot < f.meta * PerBlock /\ f.begin <= f.end /\ f.end <= Blocks
    /\ pc \in {"closed", "open", "update", "erase", "data"}
    /\ value \in Value \cup {NoValue}
    /\ cursor \in 0..Blocks
    /\ result \in {"none", "ok", "failed"}

(* A region that was never used is erased.                                 *)
Init ==
    /\ offsets = [s \in Slot |-> Unallocated]
    /\ data = [b \in Block |-> Erased]
    /\ f = NoFile
    /\ pc = "closed"
    /\ value = NoValue
    /\ cursor = 0
    /\ result = "none"

-----------------------------------------------------------------------------
(* An offset as it is read; a block of data is no offset, and reads as 0.  *)
OffsetAt(s) == IF data[s \div PerBlock] = Erased THEN offsets[s] ELSE 0

all_block_offsets_unallocated(b) ==
    \A s \in b * PerBlock..b * PerBlock + PerBlock - 1 : OffsetAt(s) = Unallocated

MutantFindLatestBlock(n) ==
    LET search[p \in (0..n) \X (0..n)] ==
            LET l == p[1]   r == p[2]   mid == (l + r) \div 2
            IN IF l + 2 >= r THEN l
               ELSE IF all_block_offsets_unallocated(mid) THEN search[<<l, mid>>]
               ELSE search[<<mid, r>>]
    IN search[<<0, n>>]

(* The binary search for the last metadata block that is in use.           *)
FindLatestBlock(n) ==
    LET search[p \in (0..n) \X (0..n)] ==
            LET l == p[1]   r == p[2]   mid == (l + r) \div 2
            IN IF l + 1 >= r THEN l
               ELSE IF all_block_offsets_unallocated(mid) THEN search[<<l, mid>>]
               ELSE search[<<mid, r>>]
    IN search[<<0, n>>]

(* The last offset in that block that is in use, or else the first.        *)
FindLatestSlot(b) ==
    LET used == {s \in b * PerBlock + 1..b * PerBlock + PerBlock - 1 :
                    OffsetAt(s) # Unallocated}
    IN IF used = {} THEN b * PerBlock ELSE CHOOSE s \in used : \A u \in used : u <= s

BoundariesWrong(begin, end) == begin >= end \/ end > Blocks

(* region_file_init(), when all reads succeed.                             *)
RegionFileInit ==
    LET meta == OffsetAt(0)
        slot == FindLatestSlot(FindLatestBlock(meta))
        begin == OffsetAt(slot - 1)
        end == OffsetAt(slot)
    IN  IF meta = Unallocated THEN [NoFile EXCEPT !.slot = RF_EMPTY]
        ELSE IF meta = 0 \/ meta > Blocks THEN [NoFile EXCEPT !.slot = RF_NEED_TO_EMPTY]
        ELSE IF slot = RF_ONLY_METADATA
        THEN [slot |-> slot, meta |-> meta, begin |-> meta, end |-> meta]
        ELSE [slot |-> IF BoundariesWrong(begin, end) THEN RF_NEED_TO_EMPTY ELSE slot,
              meta |-> meta, begin |-> begin, end |-> end]

Open ==
    /\ pc = "closed"
    /\ pc' = "open"
    /\ f' = RegionFileInit
    /\ UNCHANGED <<flash, value, cursor, result>>

(* A read fails: the file stays as it was set at first.                    *)
OpenFails ==
    /\ pc = "closed"
    /\ pc' = "open"
    /\ f' = NoFile
    /\ UNCHANGED <<flash, value, cursor, result>>

(* The user is done with the file.                                         *)
Close ==
    /\ pc = "open"
    /\ pc' = "closed"
    /\ f' = NoFile
    /\ UNCHANGED <<flash, value, cursor, result>>

-----------------------------------------------------------------------------
(* allocate_metadata(): how many blocks of metadata suffice if all updates *)
(* have d blocks of data.                                                  *)
AlignUp(n, a) == ((n + a - 1) \div a) * a
MetadataBlocks(d) ==
    LET x == AlignUp((Blocks * PerBlock) \div (d * PerBlock + 1), PerBlock)
    IN  AlignUp(IF x = 0 THEN 1 ELSE x, PerBlock) \div PerBlock

update_can_fit(d) ==
    /\ f.slot + 1 < f.meta * PerBlock
    /\ f.end + d < Unallocated
    /\ f.end + d <= Blocks

Updating == pc = "update"

MutantTooLarge(d) == d > Blocks
TooLarge(d) == d > Blocks - 1

(* region_file_update_data_arr()                                           *)
UpdateStart(v) ==
    /\ pc = "open"
    /\ pc' = "update" /\ value' = v
    /\ UNCHANGED <<flash, f, cursor, result>>

Return(r) == pc' = "open" /\ value' = NoValue /\ cursor' = 0 /\ result' = r

(* The value is larger than the region, or an earlier error was fatal.     *)
Refuse ==
    /\ Updating
    /\ f.slot = RF_FATAL \/ (f.slot = RF_EMPTY /\ TooLarge(Size[value]))
    /\ Return("failed")
    /\ f' = [f EXCEPT !.slot = RF_FATAL]
    /\ UNCHANGED flash

(* The offset that is about to be programmed, if any.                      *)
Allocating == Updating /\ f.slot = RF_EMPTY /\ ~TooLarge(Size[value])
Committing == Updating /\ f.slot >= RF_ONLY_METADATA /\ update_can_fit(Size[value])
NextSlot == IF Allocating THEN 0 ELSE f.slot + 1
NextOffset == IF Allocating THEN MetadataBlocks(Size[value]) ELSE f.end + Size[value]

Program(s, o) == offsets' = [offsets EXCEPT ![s] = IF @ = Unallocated THEN o ELSE 0]

(* handle_empty()                                                          *)
AllocateMetadata ==
    /\ Allocating
    /\ Program(0, NextOffset)
    /\ f' = [slot |-> RF_ONLY_METADATA, meta |-> NextOffset,
             begin |-> NextOffset, end |-> NextOffset]
    /\ UNCHANGED <<data, pc, value, cursor, result>>

(* handle_update(): the update does not fit.                               *)
LogFull ==
    /\ Updating
    /\ f.slot >= RF_ONLY_METADATA /\ ~update_can_fit(Size[value])
    /\ f' = [f EXCEPT !.slot = RF_NEED_TO_EMPTY]
    /\ UNCHANGED <<flash, pc, value, cursor, result>>

CommitAllocation ==
    /\ Committing
    /\ Program(NextSlot, NextOffset)
    /\ f' = [f EXCEPT !.slot = NextSlot, !.begin = f.end, !.end = NextOffset]
    /\ pc' = "data" /\ cursor' = f.end
    /\ UNCHANGED <<data, value, result>>

(* commit_data(), one block at a time.                                     *)
Written ==
    LET piece == <<value, cursor - f.begin>>
    IN  IF data[cursor] \in {Erased, piece} THEN piece ELSE Garbage

CommitBlock ==
    /\ pc = "data" /\ cursor < f.end
    /\ data' = [data EXCEPT ![cursor] = Written]
    /\ cursor' = cursor + 1
    /\ UNCHANGED <<offsets, f, pc, value, result>>

UpdateDone ==
    /\ pc = "data" /\ cursor = f.end
    /\ Return("ok")
    /\ UNCHANGED <<flash, f>>

(* handle_need_to_empty(), one sector at a time.                           *)
StartErase ==
    /\ Updating /\ f.slot = RF_NEED_TO_EMPTY
    /\ pc' = "erase" /\ cursor' = 0
    /\ UNCHANGED <<flash, f, value, result>>

SectorOf(b) == b \div SectorBlocks

MutantEraseOffsets(n) ==
    /\ offsets' = [s \in Slot |-> IF SectorOf(s \div PerBlock) = n THEN Unallocated
                                  ELSE offsets[s]]
    /\ data' = data
Erase(n) ==
    /\ offsets' = [s \in Slot |-> IF SectorOf(s \div PerBlock) = n THEN Unallocated
                                  ELSE offsets[s]]
    /\ data' = [b \in Block |-> IF SectorOf(b) = n THEN Erased ELSE data[b]]

Sectors == Blocks \div SectorBlocks

EraseSector ==
    /\ pc = "erase" /\ cursor < Sectors
    /\ Erase(cursor)
    /\ cursor' = cursor + 1
    /\ UNCHANGED <<f, pc, value, result>>

EraseDone ==
    /\ pc = "erase" /\ cursor = Sectors
    /\ f' = [f EXCEPT !.slot = RF_EMPTY]
    /\ pc' = "update" /\ cursor' = 0
    /\ UNCHANGED <<flash, value, result>>

-----------------------------------------------------------------------------
(* What the access of the flash that comes next leaves if it is cut off or *)
(* fails: nothing, a part or all of its effect.                            *)
Interrupted ==
    \/ UNCHANGED flash
    \/ /\ Allocating \/ Committing
       /\ \E o \in NextOffset..Unallocated : Program(NextSlot, o)
       /\ UNCHANGED data
    \/ /\ pc = "data" /\ cursor < f.end
       /\ \E p \in {Garbage, Written} : data' = [data EXCEPT ![cursor] = p]
       /\ UNCHANGED offsets
    \/ /\ pc = "erase" /\ cursor < Sectors
       /\ Erase(cursor)

Accessing == \/ Allocating \/ Committing
             \/ pc = "data" /\ cursor < f.end
             \/ pc = "erase" /\ cursor < Sectors

AccessFails ==
    /\ Accessing
    /\ Interrupted
    /\ Return("failed")
    /\ f' = [f EXCEPT !.slot = RF_FATAL]

(* The power is cut, or the system is reset.                               *)
PowerCut ==
    /\ pc # "closed"
    /\ Interrupted
    /\ pc' = "closed" /\ f' = NoFile /\ value' = NoValue /\ cursor' = 0
    /\ result' = IF value = NoValue THEN result ELSE "failed"

UpdateStep == \/ Refuse \/ AllocateMetadata \/ LogFull
              \/ CommitAllocation \/ CommitBlock \/ UpdateDone
              \/ StartErase \/ EraseSector \/ EraseDone

Next == \/ Open \/ OpenFails \/ Close
        \/ \E v \in Value : UpdateStart(v)
        \/ UpdateStep
        \/ AccessFails \/ PowerCut

Spec == Init /\ [][Next]_vars

(* The loop of region_file_update_data_arr() runs on.                      *)
FairSpec == Spec /\ WF_vars(UpdateStep)

-----------------------------------------------------------------------------
(* What region_file_data() and its user, who knows how many blocks each    *)
(* value has and recognises damage, would read after a restart.            *)
Damaged == Garbage
Content ==
    LET g == RegionFileInit
        Stored(v) == /\ g.end - g.begin = Size[v]
                     /\ \A i \in 0..Size[v] - 1 : data[g.begin + i] = <<v, i>>
    IN  IF g.slot <= RF_ONLY_METADATA THEN NoValue
        ELSE IF \E v \in Value : Stored(v) THEN CHOOSE v \in Value : Stored(v)
        ELSE Damaged

(* After any cuts, a file that is opened again is found as it was left:    *)
(* the binary search ends at the latest update, and what the running       *)
(* update keeps in memory is what a restart would find.                    *)
MemoryMatchesFlash ==
    pc \in {"open", "update", "data"} /\ f.slot \notin {RF_FATAL, RF_NEED_TO_EMPTY} =>
        /\ f.slot = RegionFileInit.slot
        /\ f.slot # RF_EMPTY => f = RegionFileInit

(* With one erase sector, a region file is a stored item: an update that   *)
(* is reported as done is what any later restart reads, until the next     *)
(* update starts.                                                          *)
Item == INSTANCE StoredItem WITH content <- Content, writing <- value
ImplementsStoredItem == Item!Spec

(* An update ends: the loop empties the region at most once before the     *)
(* value fits, or finds that it never will.                                *)
UpdateEnds == pc = "update" ~> pc \in {"open", "closed"}
=============================================================================
