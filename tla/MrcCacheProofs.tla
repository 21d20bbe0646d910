--------------------------- MODULE MrcCacheProofs ---------------------------
(***************************************************************************)
(* Proofs about MrcCache: its types, for every geometry of the flash; and, *)
(* when the cache is one erase sector, that only good training data is     *)
(* used and that what was updated can be loaded.                           *)
(*                                                                         *)
(* The region file is that of P, which extends the module that MrcCache    *)
(* calls R; the first lemmas say that they define the same.                *)
(***************************************************************************)
EXTENDS MrcCache, TLAPS

P == INSTANCE RegionFileProofs WITH Value <- Stored, NoValue <- None

-----------------------------------------------------------------------------
(* R and P are the same region file.                                       *)
LEMMA SameFound == R!RegionFileInit = P!RegionFileInit
BY DEF R!RegionFileInit, P!RegionFileInit, R!OffsetAt, P!OffsetAt, R!NoFile, P!NoFile,
       R!FindLatestSlot, P!FindLatestSlot, R!FindLatestBlock, P!FindLatestBlock,
       R!all_block_offsets_unallocated, P!all_block_offsets_unallocated,
       R!BoundariesWrong, P!BoundariesWrong, R!RF_EMPTY, P!RF_EMPTY, R!RF_FATAL, P!RF_FATAL,
       R!RF_NEED_TO_EMPTY, P!RF_NEED_TO_EMPTY, R!RF_ONLY_METADATA, P!RF_ONLY_METADATA

LEMMA SameTypes ==
    /\ R!TypeOK <=> P!TypeOK
    /\ R!Init <=> P!Init
    /\ R!RF_ONLY_METADATA = P!RF_ONLY_METADATA
BY DEF R!TypeOK, P!TypeOK, R!Init, P!Init, R!Slot, P!Slot, R!Block, P!Block,
       R!Offset, P!Offset, R!FileState, P!FileState, R!NoFile, P!NoFile,
       R!RF_FATAL, P!RF_FATAL, R!RF_ONLY_METADATA, P!RF_ONLY_METADATA

LEMMA SameCalls ==
    /\ R!Open <=> P!Open
    /\ R!Close <=> P!Close
    /\ \A v : R!UpdateStart(v) <=> P!UpdateStart(v)
BY SameFound
DEF R!Open, P!Open, R!Close, P!Close, R!UpdateStart, P!UpdateStart,
    R!flash, P!flash, R!NoFile, P!NoFile, R!RF_FATAL, P!RF_FATAL

LEMMA SameConditions ==
    /\ R!Allocating <=> P!Allocating
    /\ R!Committing <=> P!Committing
    /\ R!NextSlot = P!NextSlot
    /\ R!NextOffset = P!NextOffset
BY DEF R!Allocating, P!Allocating, R!Committing, P!Committing, R!NextSlot, P!NextSlot,
       R!NextOffset, P!NextOffset, R!Updating, P!Updating, R!TooLarge, P!TooLarge,
       R!update_can_fit, P!update_can_fit, R!MetadataBlocks, P!MetadataBlocks,
       R!AlignUp, P!AlignUp, R!RF_EMPTY, P!RF_EMPTY,
       R!RF_ONLY_METADATA, P!RF_ONLY_METADATA

LEMMA SameEffects ==
    /\ \A s, o : R!Program(s, o) <=> P!Program(s, o)
    /\ \A n : R!Erase(n) <=> P!Erase(n)
    /\ R!Written = P!Written
    /\ R!Sectors = P!Sectors
    /\ \A r : R!Return(r) <=> P!Return(r)
BY DEF R!Program, P!Program, R!Erase, P!Erase, R!Written, P!Written, R!Sectors, P!Sectors,
       R!Return, P!Return, R!Slot, P!Slot, R!Block, P!Block, R!SectorOf, P!SectorOf

LEMMA SameInterruptions ==
    /\ R!Interrupted <=> P!Interrupted
    /\ R!PowerCut <=> P!PowerCut
    /\ R!AccessFails <=> P!AccessFails
<1>1. R!Interrupted <=> P!Interrupted
  BY SameConditions, SameEffects DEF R!Interrupted, P!Interrupted, R!flash, P!flash
<1>2. R!Accessing <=> P!Accessing
  BY SameConditions, SameEffects DEF R!Accessing, P!Accessing
<1> QED
  BY <1>1, <1>2, SameEffects
  DEF R!PowerCut, P!PowerCut, R!AccessFails, P!AccessFails, R!NoFile, P!NoFile,
      R!RF_FATAL, P!RF_FATAL

LEMMA SameSteps == R!UpdateStep <=> P!UpdateStep
<1>1. /\ R!Refuse <=> P!Refuse
      /\ R!LogFull <=> P!LogFull
  BY SameEffects
  DEF R!Refuse, P!Refuse, R!LogFull, P!LogFull, R!Updating, P!Updating,
      R!TooLarge, P!TooLarge, R!update_can_fit, P!update_can_fit, R!flash, P!flash,
      R!RF_EMPTY, P!RF_EMPTY, R!RF_FATAL, P!RF_FATAL,
      R!RF_NEED_TO_EMPTY, P!RF_NEED_TO_EMPTY, R!RF_ONLY_METADATA, P!RF_ONLY_METADATA
<1>2. /\ R!AllocateMetadata <=> P!AllocateMetadata
      /\ R!CommitAllocation <=> P!CommitAllocation
  BY SameConditions, SameEffects
  DEF R!AllocateMetadata, P!AllocateMetadata, R!CommitAllocation, P!CommitAllocation,
      R!RF_ONLY_METADATA, P!RF_ONLY_METADATA
<1>3. /\ R!CommitBlock <=> P!CommitBlock
      /\ R!UpdateDone <=> P!UpdateDone
  BY SameEffects
  DEF R!CommitBlock, P!CommitBlock, R!UpdateDone, P!UpdateDone, R!flash, P!flash
<1>4. /\ R!StartErase <=> P!StartErase
      /\ R!EraseSector <=> P!EraseSector
      /\ R!EraseDone <=> P!EraseDone
  BY SameEffects
  DEF R!StartErase, P!StartErase, R!EraseSector, P!EraseSector, R!EraseDone, P!EraseDone,
      R!Updating, P!Updating, R!flash, P!flash, R!RF_EMPTY, P!RF_EMPTY,
      R!RF_NEED_TO_EMPTY, P!RF_NEED_TO_EMPTY
<1> QED
  BY <1>1, <1>2, <1>3, <1>4 DEF R!UpdateStep, P!UpdateStep

-----------------------------------------------------------------------------
(* What is known of the region file, whose assumptions are met.            *)
LEMMA FileKeeps ==
    /\ P!Init => P!IInv /\ P!TypeInv
    /\ SectorBlocks = Blocks /\ P!IInv /\ [P!Next]_(P!vars) => P!IInv'
    /\ P!TypeInv /\ [P!Next]_(P!vars) => P!TypeInv'
BY FlashAssumption, StoredAssumption,
   P!InitInvariant, P!InvariantStep, P!TypeInvInit, P!TypeStep

(* Types, and that a value is there to be written whenever one is.         *)
TypeInv ==
    /\ TypeOK /\ P!TypeInv
    /\ pc \in {"closed", "open"} => value = None
    /\ stage \in {"update", "updating"} /\ pc # "closed" => cbmem # None

(* Each step of the cache is at most one of the region file.               *)
LEMMA FileNext == TypeInv /\ [Next]_vars => [P!Next]_(P!vars)
<1> SUFFICES ASSUME TypeInv, [Next]_vars PROVE [P!Next]_(P!vars)
  OBVIOUS
<1>1. CASE UNCHANGED file
  BY <1>1 DEF file, P!vars
<1>2. CASE OpenFile \/ AlreadyUptodate \/ UpdateReturns \/ InvalidationReturns
  BY <1>2, SameCalls
  DEF OpenFile, AlreadyUptodate, UpdateReturns, InvalidationReturns, P!Next
<1>3. CASE StartUpdate
  <2>1. cbmem \in Stored
    BY <1>3 DEF StartUpdate, TypeInv, TypeOK, Stored
  <2> QED
    BY <1>3, <2>1, SameCalls DEF StartUpdate, P!Next
<1>4. CASE StartInvalidation
  BY <1>4, SameCalls DEF StartInvalidation, Stored, P!Next
<1>5. CASE Write \/ PowerOff
  BY <1>1, <1>5, SameSteps, SameInterruptions DEF Write, PowerOff, P!Next
<1> QED
  BY <1>1, <1>2, <1>3, <1>4, <1>5
  DEF Next, vars, Boot, Load, LoadNothing, Stash, NothingToUpdate, OpenFileFails,
      NothingToInvalidate

LEMMA TypeInvInit == Init => TypeInv
BY FileKeeps, SameTypes DEF Init, TypeInv, TypeOK, R!Init, P!TypeInv

LEMMA NextSameTypes == (R!TypeOK <=> P!TypeOK)'
BY SameTypes, PTL

(* How far an update is, and what it writes.                               *)
LEMMA WritePlaces ==
    R!UpdateStep \/ R!AccessFails =>
        /\ pc \notin {"closed", "open"}
        /\ \/ pc' \notin {"closed", "open"} /\ value' = value
           \/ pc' = "open" /\ value' = None
BY DEF R!UpdateStep, R!AccessFails, R!Accessing, R!Refuse, R!AllocateMetadata, R!LogFull,
       R!CommitAllocation, R!CommitBlock, R!UpdateDone, R!StartErase, R!EraseSector,
       R!EraseDone, R!Allocating, R!Committing, R!Updating, R!Return

LEMMA TypeInvNext == TypeInv /\ [Next]_vars => TypeInv'
<1> SUFFICES ASSUME TypeInv, [Next]_vars PROVE TypeInv'
  OBVIOUS
<1>1. P!TypeInv' /\ R!TypeOK'
  <2>1. P!TypeInv'
    BY FileKeeps, FileNext DEF TypeInv
  <2> QED
    BY <2>1, NextSameTypes DEF P!TypeInv
<1>2. CASE UNCHANGED vars
  BY <1>1, <1>2 DEF TypeInv, TypeOK, vars, file, boot
<1>3. CASE Boot
  BY <1>1, <1>3 DEF Boot, TypeInv, TypeOK, file
<1>4. CASE Load \/ LoadNothing
  BY <1>1, <1>4 DEF Load, LoadNothing, TypeInv, TypeOK, file, boot
<1>5. CASE Stash
  BY <1>1, <1>5 DEF Stash, HasRegion, TypeInv, TypeOK, file, boot
<1>6. CASE NothingToUpdate \/ NothingToInvalidate \/ OpenFileFails
  BY <1>1, <1>6
  DEF NothingToUpdate, NothingToInvalidate, OpenFileFails, TypeInv, TypeOK, file, boot
<1>7. CASE OpenFile
  BY <1>1, <1>7 DEF OpenFile, Wanted, R!Open, TypeInv, TypeOK, boot
<1>8. CASE AlreadyUptodate
  BY <1>1, <1>8 DEF AlreadyUptodate, R!Close, TypeInv, TypeOK, boot
<1>9. CASE StartUpdate
  BY <1>1, <1>9 DEF StartUpdate, R!UpdateStart, TypeInv, TypeOK, boot
<1>10. CASE StartInvalidation
  BY <1>1, <1>10 DEF StartInvalidation, R!UpdateStart, TypeInv, TypeOK, boot
<1>11. CASE Write
  BY <1>1, <1>11, WritePlaces DEF Write, TypeInv, TypeOK, boot
<1>12. CASE UpdateReturns
  BY <1>1, <1>12 DEF UpdateReturns, R!Close, TypeInv, TypeOK, boot
<1>13. CASE InvalidationReturns
  BY <1>1, <1>13 DEF InvalidationReturns, R!Close, TypeInv, TypeOK, boot
<1>14. CASE PowerOff
  BY <1>1, <1>14 DEF PowerOff, R!PowerCut, TypeInv, TypeOK, boot, file
<1> QED
  BY <1>2, <1>3, <1>4, <1>5, <1>6, <1>7, <1>8, <1>9, <1>10, <1>11, <1>12, <1>13, <1>14
  DEF Next

(* TypeOK, for every geometry of the flash: the file is open only for the  *)
(* two writes of finalize_mrc_cache(), each with the value that is its     *)
(* own, and nothing is stashed in recovery mode.                           *)
THEOREM TypeCorrect == Spec => []TypeOK
<1>1. TypeInv => TypeOK
  BY DEF TypeInv
<1> QED
  BY <1>1, TypeInvInit, TypeInvNext, PTL DEF Spec

-----------------------------------------------------------------------------
(* The candidates are what the latest slot may begin with.                 *)
CandidatesInv == \A d \in Data : P!StartsWith(d) => d \in candidates

(* What is stashed is of the version that runs, and is a candidate as soon *)
(* as it is written; it is in recovery mode that the cache is invalidated. *)
BootInv ==
    /\ cbmem # None => VersionOf[cbmem] = version
    /\ stage = "load" => used = None
    /\ stage = "updating" => cbmem \in candidates
    /\ stage = "invalidate" /\ pc # "closed" => recovery
    /\ stage = "invalidating" => recovery
    /\ outcome # "none" => stage \in {"invalidate", "invalidating", "done"}

(* What is reported as done is in the flash, in full.                      *)
ResultInv ==
    /\ pc = "open" /\ result = "ok" =>
         /\ stage = "updating" => P!Whole(cbmem)
         /\ stage = "invalidating" => P!Whole(InvalidSig)
    /\ outcome = "success" => cbmem # None /\ P!Whole(cbmem)

CacheInv == CandidatesInv /\ BootInv /\ ResultInv /\ UsedIsGood

IInv == TypeInv /\ P!IInv /\ CacheInv

-----------------------------------------------------------------------------
(* What the actions do to the latest slot.                                 *)
SameLatest == \A v : (P!StartsWith(v)' <=> P!StartsWith(v)) /\ (P!Whole(v)' <=> P!Whole(v))

LEMMA FlashStays ==
    /\ UNCHANGED file => SameLatest
    /\ P!Open \/ P!Close \/ (\E v : P!UpdateStart(v)) => SameLatest
<1>1. P!flash' = P!flash => SameLatest
  BY FlashAssumption, StoredAssumption, P!SameLatest DEF SameLatest
<1> QED
  BY <1>1 DEF file, P!flash, P!Open, P!Close, P!UpdateStart

(* Only an update that returns success does so with the value in place.    *)
LEMMA Writes ==
    ASSUME P!IInv, SectorBlocks = Blocks, P!UpdateStep \/ P!AccessFails
    PROVE  /\ value \in Stored
           /\ \A v \in Stored : P!StartsWith(v)' => P!StartsWith(v) \/ v = value
           /\ pc' = "open" /\ result' = "ok" => P!Whole(value) /\ SameLatest
<1>1. P!Interrupted /\ value \in Stored
  BY FlashAssumption, StoredAssumption, P!StepsAreAccesses
<1>2. \A v \in Stored : P!StartsWith(v)' => P!StartsWith(v) \/ v = value
  BY <1>1, FlashAssumption, StoredAssumption, P!StartAfter
<1>3. ASSUME pc' = "open", result' = "ok" PROVE P!Whole(value) /\ SameLatest
  <2>1. P!UpdateDone
    BY <1>3
    DEF P!UpdateStep, P!AccessFails, P!Accessing, P!Refuse, P!AllocateMetadata, P!LogFull,
        P!CommitAllocation, P!CommitBlock, P!UpdateDone, P!StartErase, P!EraseSector,
        P!EraseDone, P!Allocating, P!Committing, P!Updating, P!Return
  <2>2. P!Whole(value)
    BY <2>1, FlashAssumption, StoredAssumption, P!DoneIsWhole
  <2>3. UNCHANGED P!flash
    BY <2>1 DEF P!UpdateDone
  <2> QED
    BY <2>2, <2>3, FlashAssumption, StoredAssumption, P!SameLatest DEF SameLatest
<1> QED
  BY <1>1, <1>2, <1>3

LEMMA CutOff ==
    ASSUME P!IInv, SectorBlocks = Blocks, P!PowerCut
    PROVE  \A v \in Stored : P!StartsWith(v)' => P!StartsWith(v) \/ v = value
<1>1. P!Interrupted
  BY DEF P!PowerCut
<1> QED
  BY <1>1, FlashAssumption, StoredAssumption, P!StartAfter

(* Data that are accepted are whole, and the latest slot begins with them. *)
LEMMA Accepted ==
    ASSUME P!IInv, NEW d \in Data, Usable(d)
    PROVE  /\ P!StartsWith(d) /\ VersionOf[d] = version
           /\ [i \in 0..Size[d] - 1 |-> data[R!RegionFileInit.begin + i]] = Pieces(d)
<1>1. /\ R!RegionFileInit.slot > P!RF_ONLY_METADATA
      /\ data[R!RegionFileInit.begin] = <<d, 0>>
      /\ \A i \in 1..Size[d] - 1 : data[R!RegionFileInit.begin + i] = <<d, i>>
  BY SameTypes DEF Usable, HeaderValid, DataValid
<1>2. PICK k \in P!Slot : P!Begun(k) /\ R!RegionFileInit = P!FileAt(k)
  BY <1>1, SameFound, FlashAssumption, StoredAssumption, P!InitReadsLatest
  DEF P!IInv, P!TypeOK, P!FlashTypeOK
<1>3. R!RegionFileInit.begin = offsets[k - 1] /\ offsets[k - 1] \in Nat
  <2>1. k > 0 /\ P!Log(k)
    BY <1>2 DEF P!Begun
  <2>2. offsets[k - 1] \in Nat
    BY <2>1, FlashAssumption, StoredAssumption, P!LogOffsets DEF P!IInv, P!TypeOK, P!FlashTypeOK
  <2> QED
    BY <1>2, <2>1, <2>2 DEF P!FileAt
<1>4. P!StartsWith(d)
  BY <1>1, <1>2, <1>3 DEF P!StartsWith
<1>5. Size[d] \in Nat
  BY StoredAssumption, FlashAssumption DEF Stored
<1>6. ASSUME NEW i \in 0..Size[d] - 1
      PROVE  data[R!RegionFileInit.begin + i] = <<d, i>>
  <2>1. CASE i = 0
    <3>1. R!RegionFileInit.begin + i = R!RegionFileInit.begin
      BY <1>3, <2>1
    <3> QED
      BY <1>1, <2>1, <3>1
  <2>2. CASE i # 0
    <3>1. i \in 1..Size[d] - 1
      BY <1>5, <2>2
    <3> QED
      BY <1>1, <3>1
  <2> QED
    BY <2>1, <2>2
<1> QED
  BY <1>4, <1>6 DEF Usable, Pieces

(* A slot that holds data in full is accepted.                             *)
LEMMA WholeIsUsable ==
    ASSUME P!IInv, NEW d \in Data, P!Whole(d), VersionOf[d] = version, ~recovery
    PROVE  Usable(d)
<1>1. PICK k \in P!Slot : P!Begun(k) /\ P!StoredAt(k, d)
  BY DEF P!Whole
<1>2. R!RegionFileInit = P!FileAt(k)
  BY <1>1, SameFound, FlashAssumption, StoredAssumption, P!InitReadsLatest
  DEF P!IInv, P!TypeOK, P!FlashTypeOK
<1>3. k > 0 /\ P!Log(k)
  BY <1>1 DEF P!Begun
<1>4. offsets[k] \in Nat /\ offsets[k - 1] \in Nat
  BY <1>3, FlashAssumption, StoredAssumption, P!LogOffsets DEF P!IInv, P!TypeOK, P!FlashTypeOK
<1>5. /\ R!RegionFileInit.slot = k /\ R!RegionFileInit.begin = offsets[k - 1]
      /\ R!RegionFileInit.end = offsets[k]
  BY <1>2, <1>3 DEF P!FileAt
<1>6. Size[d] \in Nat \ {0}
  BY StoredAssumption, FlashAssumption DEF Stored
<1>7. /\ offsets[k] - offsets[k - 1] = Size[d]
      /\ \A i \in 0..Size[d] - 1 : data[offsets[k - 1] + i] = <<d, i>>
  BY <1>1 DEF P!StoredAt
<1>8. R!RegionFileInit.slot > R!RF_ONLY_METADATA
  BY <1>3, <1>5 DEF R!RF_ONLY_METADATA
<1>9. data[offsets[k - 1]] = <<d, 0>>
  <2>1. 0 \in 0..Size[d] - 1 /\ offsets[k - 1] + 0 = offsets[k - 1]
    BY <1>4, <1>6
  <2> QED
    BY <1>7, <2>1
<1>10. Size[d] <= offsets[k] - offsets[k - 1]
  BY <1>6, <1>7
<1>11. \A i \in 1..Size[d] - 1 : data[offsets[k - 1] + i] = <<d, i>>
  BY <1>6, <1>7
<1> QED
  BY <1>5, <1>8, <1>9, <1>10, <1>11 DEF Usable, HasRegion, HeaderValid, DataValid

-----------------------------------------------------------------------------
(* The invariant, part by part.                                            *)
LEMMA CandidatesKept ==
    ASSUME IInv, SectorBlocks = Blocks, Next
    PROVE  CandidatesInv'
<1> SUFFICES ASSUME NEW d \in Data, P!StartsWith(d)' PROVE d \in candidates'
  BY DEF CandidatesInv
<1>1. P!StartsWith(d) => d \in candidates
  BY DEF IInv, CacheInv, CandidatesInv
<1>2. d \in Stored /\ d # None /\ d # InvalidSig
  BY DataAssumption, StoredAssumption DEF Stored
<1>3. CASE UNCHANGED file /\ candidates' = candidates
  BY <1>1, <1>3, FlashStays DEF SameLatest
<1>4. CASE OpenFile \/ AlreadyUptodate \/ StartUpdate \/ StartInvalidation
  <2>1. SameLatest
    BY <1>4, FlashStays, SameCalls
    DEF OpenFile, AlreadyUptodate, StartUpdate, StartInvalidation
  <2> QED
    BY <1>1, <1>4, <2>1
    DEF OpenFile, AlreadyUptodate, StartUpdate, StartInvalidation, SameLatest
(* What a write or a cut-off write leaves is of the value that is written. *)
<1>5. ASSUME d = value PROVE d \in candidates
  BY <1>2, <1>5 DEF IInv, TypeInv, TypeOK, CacheInv, BootInv
<1>6. CASE Write
  <2>1. P!StartsWith(d)' => P!StartsWith(d) \/ d = value
    BY <1>2, <1>6, SameSteps, SameInterruptions, Writes DEF Write, IInv
  <2> QED
    BY <1>1, <1>5, <1>6, <2>1 DEF Write
<1>7. CASE PowerOff
  <2>1. P!StartsWith(d)' => P!StartsWith(d) \/ d = value
    BY <1>2, <1>7, SameInterruptions, CutOff, FlashStays DEF PowerOff, IInv, SameLatest
  <2> QED
    BY <1>1, <1>5, <1>7, <2>1 DEF PowerOff
<1>8. CASE UpdateReturns
  <2>1. SameLatest /\ pc = "open" /\ stage = "updating"
    BY <1>8, FlashStays, SameCalls DEF UpdateReturns, R!Close
  <2>2. CASE result = "ok"
    <3>1. P!Whole(cbmem) /\ cbmem \in Stored
      BY <2>1, <2>2 DEF IInv, TypeInv, TypeOK, CacheInv, ResultInv, Stored
    <3>2. P!StartsWith(d) /\ P!FlashTypeOK
      BY <2>1 DEF SameLatest, IInv, P!IInv, P!TypeOK, P!FlashTypeOK
    <3>3. d = cbmem
      BY <1>2, <3>1, <3>2, FlashAssumption, StoredAssumption, P!WholeStarts
    <3> QED
      BY <1>8, <2>2, <3>3 DEF UpdateReturns
  <2>3. CASE result # "ok"
    BY <1>1, <1>8, <2>1, <2>3 DEF UpdateReturns, SameLatest
  <2> QED
    BY <2>2, <2>3
<1>9. CASE InvalidationReturns
  <2>1. SameLatest /\ pc = "open" /\ stage = "invalidating"
    BY <1>9, FlashStays, SameCalls DEF InvalidationReturns, R!Close
  <2>2. CASE result = "ok"
    <3>1. P!Whole(InvalidSig) /\ InvalidSig \in Stored
      BY <2>1, <2>2 DEF IInv, CacheInv, ResultInv, Stored
    <3>2. P!StartsWith(d) /\ P!FlashTypeOK
      BY <2>1 DEF SameLatest, IInv, P!IInv, P!TypeOK, P!FlashTypeOK
    <3>3. d = InvalidSig
      BY <1>2, <3>1, <3>2, FlashAssumption, StoredAssumption, P!WholeStarts
    <3> QED
      BY <1>2, <3>3
  <2>3. CASE result # "ok"
    BY <1>1, <1>9, <2>1, <2>3 DEF InvalidationReturns, SameLatest
  <2> QED
    BY <2>2, <2>3
<1> QED
  BY <1>3, <1>4, <1>6, <1>7, <1>8, <1>9
  DEF Next, Boot, Load, LoadNothing, Stash, NothingToUpdate, OpenFileFails,
      NothingToInvalidate

LEMMA BootKept ==
    ASSUME IInv, Next
    PROVE  BootInv'
<1>1. CASE Boot \/ Load \/ LoadNothing \/ Stash
  BY <1>1 DEF Boot, Load, LoadNothing, Stash, IInv, TypeInv, TypeOK, CacheInv, BootInv,
              boot, file
<1>2. CASE NothingToUpdate \/ OpenFileFails \/ NothingToInvalidate
  BY <1>2 DEF NothingToUpdate, OpenFileFails, NothingToInvalidate, IInv, CacheInv, BootInv,
              boot, file
<1>3. CASE OpenFile
  BY <1>3 DEF OpenFile, Wanted, InvalidationDue, R!Open, IInv, CacheInv, BootInv, boot
<1>4. CASE AlreadyUptodate \/ UpdateReturns \/ InvalidationReturns
  BY <1>4 DEF AlreadyUptodate, UpdateReturns, InvalidationReturns, R!Close,
              IInv, CacheInv, BootInv, boot
<1>5. CASE StartUpdate \/ StartInvalidation
  BY <1>5 DEF StartUpdate, StartInvalidation, R!UpdateStart, IInv, CacheInv, BootInv, boot
<1>6. CASE Write \/ PowerOff
  BY <1>6 DEF Write, PowerOff, IInv, CacheInv, BootInv, boot
<1> QED
  BY <1>1, <1>2, <1>3, <1>4, <1>5, <1>6 DEF Next

LEMMA ResultKept ==
    ASSUME IInv, SectorBlocks = Blocks, Next
    PROVE  ResultInv'
<1>1. CASE UNCHANGED file /\ stage' \notin {"updating", "invalidating"}
           /\ (outcome' = "none" \/ UNCHANGED <<cbmem, outcome>>)
  BY <1>1, FlashStays DEF SameLatest, IInv, CacheInv, ResultInv
<1>2. CASE Stash
  BY <1>1, <1>2 DEF Stash, IInv, CacheInv, BootInv
<1>3. CASE OpenFile
  <2>1. SameLatest
    BY <1>3, FlashStays, SameCalls DEF OpenFile
  <2> QED
    BY <1>3, <2>1 DEF OpenFile, Wanted, SameLatest, IInv, CacheInv, ResultInv
<1>4. CASE AlreadyUptodate \/ StartUpdate \/ StartInvalidation
  <2>1. SameLatest /\ pc' # "open"
    BY <1>4, FlashStays, SameCalls
    DEF AlreadyUptodate, StartUpdate, StartInvalidation, R!Close, R!UpdateStart
  <2>2. outcome' = "uptodate" \/ UNCHANGED <<cbmem, outcome>>
    BY <1>4 DEF AlreadyUptodate, StartUpdate, StartInvalidation
  <2> QED
    BY <2>1, <2>2 DEF SameLatest, IInv, CacheInv, ResultInv
(* While something is written nothing has been reported as a success.      *)
<1>5. CASE Write
  <2>1. /\ value \in Stored
        /\ pc' = "open" /\ result' = "ok" => P!Whole(value) /\ SameLatest
    BY <1>5, SameSteps, SameInterruptions, Writes DEF Write, IInv
  <2>2. /\ stage = "updating" => value = cbmem
        /\ stage = "invalidating" => value = InvalidSig
    BY <2>1, StoredAssumption DEF IInv, TypeInv, TypeOK
  <2>3. outcome # "success"
    BY <1>5 DEF Write, IInv, TypeInv, TypeOK, CacheInv, BootInv, ResultInv
  <2> QED
    BY <1>5, <2>1, <2>2, <2>3 DEF Write, SameLatest, ResultInv
<1>6. CASE UpdateReturns
  <2>1. SameLatest /\ pc = "open" /\ pc' = "closed" /\ stage = "updating"
    BY <1>6, FlashStays, SameCalls DEF UpdateReturns, R!Close
  <2>2. cbmem # None
    BY <2>1 DEF IInv, TypeInv
  <2> QED
    BY <1>6, <2>1, <2>2 DEF UpdateReturns, SameLatest, IInv, CacheInv, ResultInv
<1>7. CASE InvalidationReturns
  <2>1. SameLatest /\ pc' = "closed"
    BY <1>7, FlashStays, SameCalls DEF InvalidationReturns, R!Close
  <2> QED
    BY <1>7, <2>1 DEF InvalidationReturns, SameLatest, IInv, CacheInv, ResultInv
<1>8. CASE PowerOff
  BY <1>8 DEF PowerOff, ResultInv
<1> QED
  BY <1>1, <1>2, <1>3, <1>4, <1>5, <1>6, <1>7, <1>8
  DEF Next, Boot, Load, LoadNothing, NothingToUpdate, OpenFileFails, NothingToInvalidate

LEMMA UsedKept ==
    ASSUME IInv, Next
    PROVE  UsedIsGood'
<1>1. CASE Load
  <2>1. PICK d \in Data :
           Usable(d) /\ used' = [i \in 0..Size[d] - 1 |-> data[R!RegionFileInit.begin + i]]
    BY <1>1 DEF Load
  <2>2. P!StartsWith(d) /\ VersionOf[d] = version /\ used' = Pieces(d)
    BY <2>1, Accepted DEF IInv
  <2>3. d \in candidates'
    BY <1>1, <2>2 DEF Load, IInv, CacheInv, CandidatesInv
  <2>4. version' = version /\ Pieces(d)' = Pieces(d)
    BY <1>1 DEF Load, boot, Pieces
  <2> QED
    BY <2>2, <2>3, <2>4 DEF UsedIsGood
<1>2. CASE LoadNothing
  BY <1>2 DEF LoadNothing, IInv, CacheInv, BootInv, UsedIsGood
<1>3. CASE stage' # "train"
  BY <1>3 DEF UsedIsGood
<1> QED
  BY <1>1, <1>2, <1>3
  DEF Next, Boot, Stash, NothingToUpdate, OpenFile, Wanted, OpenFileFails, AlreadyUptodate,
      StartUpdate, Write, UpdateReturns, NothingToInvalidate, StartInvalidation,
      InvalidationReturns, PowerOff

LEMMA InitInvariant == Init => IInv
<1> SUFFICES ASSUME Init PROVE IInv
  OBVIOUS
<1>1. TypeInv /\ P!IInv
  BY TypeInvInit, FileKeeps, SameTypes DEF Init
<1>2. CandidatesInv
  <2>1. P!Blank
    BY DEF Init, R!Init, P!Blank, R!Slot, P!Slot, R!Block, P!Block
  <2>2. \A k \in P!Slot : ~P!Begun(k)
    BY <2>1, FlashAssumption, StoredAssumption, P!NoLatest
  <2> QED
    BY <2>2 DEF CandidatesInv, P!StartsWith
<1> QED
  BY <1>1, <1>2 DEF IInv, CacheInv, BootInv, ResultInv, UsedIsGood, Init, R!Init

LEMMA InvariantStep == SectorBlocks = Blocks /\ IInv /\ [Next]_vars => IInv'
<1> SUFFICES ASSUME SectorBlocks = Blocks, IInv, [Next]_vars PROVE IInv'
  OBVIOUS
<1>1. TypeInv' /\ P!IInv'
  BY TypeInvNext, FileNext, FileKeeps DEF IInv
<1>2. CASE Next
  BY <1>1, <1>2, CandidatesKept, BootKept, ResultKept, UsedKept DEF IInv, CacheInv
<1>3. CASE UNCHANGED vars
  <2>1. SameLatest
    BY <1>3, FlashStays DEF vars
  <2> QED
    BY <1>1, <1>3, <2>1
    DEF vars, file, boot, SameLatest, IInv, CacheInv, CandidatesInv, BootInv, ResultInv,
        UsedIsGood, Pieces
<1> QED
  BY <1>2, <1>3

(* The inductive invariant, for a cache in one erase sector: what the      *)
(* latest slot begins with is a candidate, and what was reported as        *)
(* written is in it, whatever lost power and failures have left.           *)
THEOREM Invariant == SectorBlocks = Blocks => (Spec => []IInv)
<1> SUFFICES ASSUME SectorBlocks = Blocks PROVE Spec => []IInv
  OBVIOUS
<1>1. IInv /\ [Next]_vars => IInv'
  BY InvariantStep
<1> QED
  BY <1>1, InitInvariant, PTL DEF Spec

(* Memory is only initialised from data that are whole, of the version     *)
(* that runs, and neither invalidated since nor older than the last update *)
(* that was reported as done.                                              *)
THEOREM OnlyGoodIsUsed == SectorBlocks = Blocks => (Spec => []UsedIsGood)
<1>1. IInv => UsedIsGood
  BY DEF IInv, CacheInv
<1> QED
  BY <1>1, Invariant, PTL

(* After an update that was logged as a success the data can be loaded by  *)
(* the same firmware.                                                      *)
THEOREM SuccessIsKept == SectorBlocks = Blocks => (Spec => []SuccessIsLoadable)
<1>1. IInv => SuccessIsLoadable
  <2> SUFFICES ASSUME IInv, outcome = "success" PROVE Loadable
    BY DEF SuccessIsLoadable
  <2>1. cbmem \in Data /\ ~recovery /\ P!Whole(cbmem) /\ VersionOf[cbmem] = version
    BY DEF IInv, TypeInv, TypeOK, CacheInv, BootInv, ResultInv
  <2> QED
    BY <2>1, WholeIsUsable DEF Loadable, IInv
<1> QED
  BY <1>1, Invariant, PTL
=============================================================================
