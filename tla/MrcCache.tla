------------------------------ MODULE MrcCache ------------------------------
(***************************************************************************)
(* The cache of memory training data in flash,                             *)
(* src/src/drivers/mrc_cache/mrc_cache.c, over many boots: romstage loads  *)
(* the training data if what is in the flash is valid, and otherwise       *)
(* trains; it stashes the data in CBMEM (MRC_STASH_TO_CBMEM), from where   *)
(* ramstage writes them to the region file if they are new.  A boot in     *)
(* recovery mode uses no cache and invalidates it (the case of             *)
(* VBOOT_STARTS_IN_BOOTBLOCK without HAS_RECOVERY_MRC_CACHE and without    *)
(* MRC_SAVE_HASH_IN_TPM).                                                  *)
(*                                                                         *)
(* The region file is RegionFile, with each of its steps and cuts.  Block  *)
(* 0 of a value is its metadata (struct mrc_metadata: signature, size,     *)
(* version, hash of the data, hash of itself), the others are its data.    *)
(*                                                                         *)
(* A definition whose name starts with Mutant is the definition below it   *)
(* with a bug, which the properties are shown to catch; nothing uses it.   *)
(***************************************************************************)
EXTENDS Integers, FiniteSets

CONSTANTS Blocks, SectorBlocks, PerBlock, Unallocated, Size, Erased, Garbage,
          Data,          \* what memory training may result in
          Version,       \* versions of the memory initialisation code
          VersionOf,     \* the version that each of the data is of
          InvalidSig,    \* the 4 bytes of mrc_invalid_sig
          None

(* What is stored: metadata with the data behind them, or the signature.   *)
Stored == Data \cup {InvalidSig}

ASSUME DataAssumption ==
    /\ VersionOf \in [Data -> Version]
    /\ \A d \in Data : Size[d] >= 2
    /\ InvalidSig \notin Data

(* What RegionFile assumes of the flash and of the values.                 *)
ASSUME FlashAssumption ==
    /\ PerBlock \in Nat \ {0} /\ SectorBlocks \in Nat \ {0} /\ Unallocated \in Nat
    /\ Blocks \in 2..Unallocated + 1 /\ Blocks % SectorBlocks = 0
ASSUME StoredAssumption ==
    /\ Size \in [Stored -> 1..Unallocated - 2]
    /\ None \notin Stored /\ Garbage \notin Stored /\ None # Garbage
    /\ {Erased, Garbage} \cap (Stored \X (0..Blocks - 1)) = {}

VARIABLES offsets, data, f, pc, value, cursor, result,   \* the region file
          stage,         \* how far the boot has got
          recovery,      \* vboot_recovery_mode_enabled()
          version,       \* of the firmware that boots
          used,          \* the pieces that memory was initialised from, or None
          cbmem,         \* the entry CBMEM_ID_MRCDATA, or None
          outcome,       \* enum result of update_mrc_cache_by_type()
          candidates     \* the data that updates may have left in the cache
                         \* since it was last replaced or invalidated

file == <<offsets, data, f, pc, value, cursor, result>>
boot == <<recovery, version>>
vars == <<file, stage, boot, used, cbmem, outcome, candidates>>

R == INSTANCE RegionFile WITH Value <- Stored, NoValue <- None

Pieces(d) == [i \in 0..Size[d] - 1 |-> <<d, i>>]

(* The variables of the region file are as RegionFile says; it is open for *)
(* the update of the stashed data or for the invalidation, and in recovery *)
(* mode nothing is stashed.                                                *)
TypeOK ==
    /\ R!TypeOK
    /\ stage \in {"off", "load", "train", "update", "updating",
                  "invalidate", "invalidating", "done"}
    /\ recovery \in BOOLEAN /\ version \in Version
    /\ cbmem \in Data \cup {None} /\ (recovery => cbmem = None)
    /\ outcome \in {"none", "success", "failure", "uptodate"}
    /\ candidates \subseteq Data
    /\ pc # "closed" => stage \in {"update", "updating", "invalidate", "invalidating"}
    /\ pc \notin {"closed", "open"} => stage \in {"updating", "invalidating"}
    /\ value \in {None, IF stage = "updating" THEN cbmem ELSE InvalidSig}

Init ==
    /\ R!Init
    /\ stage = "off" /\ recovery = FALSE /\ version \in Version
    /\ used = None /\ cbmem = None /\ outcome = "none"
    /\ candidates = {}

-----------------------------------------------------------------------------
(* The system starts, with whatever firmware is in it now.                 *)
Boot ==
    /\ stage = "off"
    /\ stage' = "load"
    /\ recovery' \in BOOLEAN /\ version' \in Version
    /\ used' = None /\ cbmem' = None /\ outcome' = "none"
    /\ UNCHANGED <<file, candidates>>

(* lookup_region_type() finds no region to use in recovery mode.           *)
HasRegion == ~recovery

(* mrc_header_valid() of the latest slot: the metadata are whole, and the  *)
(* slot has room for the data they speak of.                               *)
HeaderValid(g, d) ==
    /\ g.slot > R!RF_ONLY_METADATA
    /\ data[g.begin] = <<d, 0>>
    /\ Size[d] <= g.end - g.begin

(* mrc_data_valid(): the hash in the metadata is that of the data.         *)
DataValid(g, d) == \A i \in 1..Size[d] - 1 : data[g.begin + i] = <<d, i>>

MutantUsable(d) ==
    /\ HasRegion
    /\ HeaderValid(R!RegionFileInit, d)
    /\ VersionOf[d] = version
(* What mrc_cache_load_current() accepts.                                  *)
Usable(d) ==
    /\ HasRegion
    /\ HeaderValid(R!RegionFileInit, d)
    /\ VersionOf[d] = version
    /\ DataValid(R!RegionFileInit, d)

Load ==
    /\ stage = "load"
    /\ stage' = "train"
    /\ \E d \in Data :
          /\ Usable(d)
          /\ used' = [i \in 0..Size[d] - 1 |-> data[R!RegionFileInit.begin + i]]
    /\ UNCHANGED <<file, boot, cbmem, outcome, candidates>>

(* No valid data, or the flash could not be read.                          *)
LoadNothing ==
    /\ stage = "load"
    /\ stage' = "train"
    /\ UNCHANGED <<file, boot, used, cbmem, outcome, candidates>>

(* Memory is initialised, from the data or by training, and results in     *)
(* data of the firmware's version; mrc_cache_stash_data() keeps them,      *)
(* unless there is no region or no room in CBMEM.                          *)
Stash ==
    /\ stage = "train"
    /\ stage' = "update"
    /\ cbmem' \in {None} \cup {d \in Data : HasRegion /\ VersionOf[d] = version}
    /\ UNCHANGED <<file, boot, used, outcome, candidates>>

-----------------------------------------------------------------------------
(* finalize_mrc_cache(), in ramstage: update_mrc_cache_by_type() first.    *)
NothingToUpdate ==
    /\ stage = "update" /\ pc = "closed"
    /\ cbmem = None
    /\ stage' = "invalidate"
    /\ UNCHANGED <<file, boot, used, cbmem, outcome, candidates>>

MutantInvalidationDue == TRUE
InvalidationDue == recovery

Wanted == \/ stage = "update" /\ cbmem # None
          \/ stage = "invalidate" /\ InvalidationDue

OpenFile ==
    /\ Wanted
    /\ R!Open
    /\ UNCHANGED <<stage, boot, used, cbmem, outcome, candidates>>

(* region_file_init() fails, and nothing is written.                       *)
OpenFileFails ==
    /\ Wanted /\ pc = "closed"
    /\ stage' = IF stage = "update" THEN "invalidate" ELSE "done"
    /\ UNCHANGED <<file, boot, used, cbmem, outcome, candidates>>

(* mrc_cache_needs_update(): sizes and metadata are compared, not the data.*)
NeedsUpdate == ~HeaderValid(f, cbmem)

AlreadyUptodate ==
    /\ stage = "update" /\ pc = "open"
    /\ ~NeedsUpdate
    /\ R!Close
    /\ stage' = "invalidate" /\ outcome' = "uptodate"
    /\ UNCHANGED <<boot, used, cbmem, candidates>>

StartUpdate ==
    /\ stage = "update" /\ pc = "open"
    /\ NeedsUpdate
    /\ R!UpdateStart(cbmem)
    /\ stage' = "updating"
    /\ candidates' = candidates \cup {cbmem}
    /\ UNCHANGED <<boot, used, cbmem, outcome>>

Write ==
    /\ stage \in {"updating", "invalidating"}
    /\ R!UpdateStep \/ R!AccessFails
    /\ UNCHANGED <<stage, boot, used, cbmem, outcome, candidates>>

UpdateReturns ==
    /\ stage = "updating"
    /\ R!Close
    /\ stage' = "invalidate"
    /\ outcome' = IF result = "ok" THEN "success" ELSE "failure"
    /\ candidates' = IF result = "ok" THEN {cbmem} ELSE candidates
    /\ UNCHANGED <<boot, used, cbmem>>

(* invalidate_normal_cache(): a short value with an invalid signature.     *)
NothingToInvalidate ==
    /\ stage = "invalidate" /\ pc = "closed"
    /\ ~InvalidationDue
    /\ stage' = "done"
    /\ UNCHANGED <<file, boot, used, cbmem, outcome, candidates>>

StartInvalidation ==
    /\ stage = "invalidate"
    /\ R!UpdateStart(InvalidSig)
    /\ stage' = "invalidating"
    /\ UNCHANGED <<boot, used, cbmem, outcome, candidates>>

InvalidationReturns ==
    /\ stage = "invalidating"
    /\ R!Close
    /\ stage' = "done"
    /\ candidates' = IF result = "ok" THEN {} ELSE candidates
    /\ UNCHANGED <<boot, used, cbmem, outcome>>

(* The power is cut or the system is reset, at any time.                   *)
PowerOff ==
    /\ stage # "off"
    /\ stage' = "off"
    /\ R!PowerCut \/ (pc = "closed" /\ UNCHANGED file)
    /\ used' = None /\ cbmem' = None /\ outcome' = "none"
    /\ UNCHANGED <<boot, candidates>>

Next == \/ Boot \/ Load \/ LoadNothing \/ Stash
        \/ NothingToUpdate \/ OpenFile \/ OpenFileFails
        \/ AlreadyUptodate \/ StartUpdate \/ Write \/ UpdateReturns
        \/ NothingToInvalidate \/ StartInvalidation \/ InvalidationReturns
        \/ PowerOff

Spec == Init /\ [][Next]_vars

-----------------------------------------------------------------------------
(* Memory is only initialised from data that are whole, of the version     *)
(* that runs, and neither invalidated since nor older than the last update *)
(* that was reported as done; whatever cuts, failures and changes of the   *)
(* firmware came between (mrc_cache.c, lines 171-327; region_file.h, lines *)
(* 11-14, for the age of the data).                                        *)
UsedIsGood ==
    stage = "train" /\ used # None =>
        \E d \in candidates : used = Pieces(d) /\ VersionOf[d] = version

Loadable == \E d \in Data : Usable(d)

(* After a boot that logged the update as a success, the next boot of the  *)
(* same firmware can use the data; invalidation does not come after it.    *)
SuccessIsLoadable == stage = "done" /\ outcome = "success" => Loadable

(* mrc_cache.c, lines 472-475: if the slot is invalid, it is overwritten   *)
(* when the cache is updated; so that the data are there when nothing      *)
(* needed updating.                                                        *)
UptodateIsLoadable == stage = "done" /\ outcome = "uptodate" => Loadable
=============================================================================
