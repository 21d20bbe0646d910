------------------------------ MODULE SmmStore ------------------------------
(***************************************************************************)
(* The variable store in flash that the SMM handler keeps for the payload, *)
(* version 1, src/src/drivers/smmstore/: entries are appended to the       *)
(* region until it is cleared.  Power may be lost, and an access to the    *)
(* flash may fail, between any two words.                                  *)
(*                                                                         *)
(* The region is made of words of four bytes, sizes count words.  A word   *)
(* is erased, a number (a size, or the data of an entry), or garbage: some *)
(* but not all of its bits have been programmed.  Garbage, like erased, is *)
(* far beyond the size of the region when it is taken for a size.  The     *)
(* byte "active" takes a word because of the alignment behind it.          *)
(*                                                                         *)
(* A definition whose name starts with Mutant is the one below it with a   *)
(* mistake, for testing the properties.                                    *)
(***************************************************************************)
EXTENDS Integers, Sequences

CONSTANTS Size,        \* words in the region
          SectorSize,  \* words that are erased together
          Value,       \* the data of an entry, each of its words
          MaxBody,     \* bound on key_sz + value_sz
          MaxFaults    \* bound on lost power and failed accesses

ASSUME SizeAssumption == /\ Size \in Nat /\ SectorSize \in Nat \ {0}
                         /\ MaxBody \in Nat /\ Size % SectorSize = 0
ASSUME ValueAssumption == Value \subseteq Nat /\ Value # {}
ASSUME FaultAssumption == MaxFaults \in Nat

Erased == -1
Garbage == -2
Address == 0..Size - 1
Word == Value \cup 0..Size \cup {Erased, Garbage}
Entry == [k_sz: 0..MaxBody, v_sz: 0..MaxBody, value: Value]

NoEntry == [k_sz |-> 0, v_sz |-> 0, value |-> 0]

VARIABLES flash,       \* the region
          op,          \* "none", "append" or "clear": what is being done
          entry,       \* the entry that smmstore_append_data() is to write
          start,       \* where it goes
          offset,      \* how much has been written, or the next sector
          result,      \* what the last call returned
          stored,      \* history: the entries marked active since the last clear
          unerased,    \* history: a clear was cut off or failed
          faults

storeVars == <<flash, op, entry, start, offset, result, stored, unerased,
               faults>>

StoreTypeOK ==
    /\ flash \in [Address -> Word]
    /\ op \in {"none", "append", "clear"}
    /\ entry \in Entry \cup {NoEntry}
    /\ start \in 0..Size /\ offset \in 0..Size
    /\ result \in {"none", "success", "failure"}
    /\ stored \in Seq(Entry)
    /\ unerased \in BOOLEAN /\ faults \in 0..MaxFaults

StoreInit ==
    /\ flash = [a \in Address |-> Erased]
    /\ op = "none" /\ entry = NoEntry /\ start = 0 /\ offset = 0
    /\ result = "none"
    /\ stored = <<>> /\ unerased = FALSE /\ faults = 0

-----------------------------------------------------------------------------
(* scan_end(): where the first free word is, or -1 for CB_ERR.             *)
SizeOK(w) == w \in 0..Size
MutantNextEntry(end, k_sz, v_sz) == end + 2 + k_sz + v_sz
NextEntry(end, k_sz, v_sz) == end + 2 + k_sz + v_sz + 1

ScanEnd ==
    LET scan[end \in 0..Size] ==
            IF end = Size THEN -1
            ELSE IF flash[end] = Erased THEN end
            ELSE IF \/ ~SizeOK(flash[end]) \/ end + 1 = Size
                    \/ ~SizeOK(flash[end + 1])
                 THEN -1
            ELSE LET next == NextEntry(end, flash[end], flash[end + 1])
                 IN IF next > Size THEN -1 ELSE scan[next]
    IN scan[0]

(* smmstore_append_data() writes the sizes, the key, the value and zero.   *)
EntryWords(e) ==
    <<e.k_sz, e.v_sz>> \o [i \in 1..e.k_sz + e.v_sz |-> e.value] \o <<0>>

Fits(end, e) == end # -1 /\ end + Len(EntryWords(e)) <= Size

AppendData(e) ==
    /\ op = "none"
    /\ IF Fits(ScanEnd, e)
       THEN /\ op' = "append" /\ entry' = e /\ start' = ScanEnd
            /\ UNCHANGED result
       ELSE result' = "failure" /\ UNCHANGED <<op, entry, start>>
    /\ UNCHANGED <<flash, offset, stored, unerased, faults>>

EndCommand(res) ==
    op' = "none" /\ entry' = NoEntry /\ start' = 0 /\ offset' = 0 /\ result' = res

(* Flash is programmed by clearing bits.                                   *)
Program(old, new) == IF old \in {Erased, new} THEN new ELSE Garbage

WordWritten ==
    [flash EXCEPT ![start + offset] = Program(@, EntryWords(entry)[offset + 1])]

(* The last word, zero, marks the entry as active.                         *)
LastWord == offset + 1 = Len(EntryWords(entry))
MarkedActive == IF LastWord THEN Append(stored, entry) ELSE stored

WriteWord ==
    /\ op = "append"
    /\ flash' = WordWritten /\ stored' = MarkedActive
    /\ IF LastWord
       THEN EndCommand("success")
       ELSE offset' = offset + 1 /\ UNCHANGED <<op, entry, start, result>>
    /\ UNCHANGED <<unerased, faults>>

(* smmstore_clear_region(), and the erasing of one sector after another.   *)
ClearRegion ==
    /\ op = "none"
    /\ op' = "clear" /\ stored' = <<>>
    /\ UNCHANGED <<flash, entry, start, offset, result, unerased, faults>>

Sector(a) == a..a + SectorSize - 1
SectorBecomes(w) ==
    [a \in Address |-> IF a \in Sector(offset) THEN w ELSE flash[a]]

EraseSector ==
    /\ op = "clear"
    /\ flash' = SectorBecomes(Erased)
    /\ IF offset + SectorSize < Size
       THEN offset' = offset + SectorSize
            /\ UNCHANGED <<op, entry, start, result, unerased>>
       ELSE EndCommand("success") /\ unerased' = FALSE
    /\ UNCHANGED <<stored, faults>>

(* What an access leaves behind that is cut off or fails: nothing or half  *)
(* of it has been done, or all of it, when what fails is the wait for the  *)
(* flash to be ready again, or power is lost right behind it.              *)
Torn ==
    IF op = "append"
    THEN {[flash EXCEPT ![start + offset] = w] : w \in {flash[start + offset], Garbage}}
    ELSE {flash, SectorBecomes(Garbage)}

AccessDone ==
    \/ op = "append" /\ flash' = WordWritten /\ stored' = MarkedActive
    \/ op = "clear" /\ flash' = SectorBecomes(Erased) /\ UNCHANGED stored

StoreFault ==
    /\ op # "none" /\ faults < MaxFaults
    /\ (flash' \in Torn /\ UNCHANGED stored) \/ AccessDone
    /\ unerased' = (unerased \/ op = "clear")
    /\ faults' = faults + 1

AccessFails == StoreFault /\ EndCommand("failure")

(* The next boot knows only what is in flash.                              *)
PowerLost == StoreFault /\ EndCommand("none")

StoreCommand == (\E e \in Entry : e.k_sz + e.v_sz <= MaxBody /\ AppendData(e))
                \/ ClearRegion
StoreStep == WriteWord \/ EraseSector \/ AccessFails

-----------------------------------------------------------------------------
(* What the payload finds: the entries that are marked active.             *)
ActiveEntries ==
    LET from[end \in 0..Size] ==
            IF \/ end + 1 >= Size \/ ~SizeOK(flash[end]) \/ ~SizeOK(flash[end + 1])
               \/ NextEntry(end, flash[end], flash[end + 1]) > Size
            THEN <<>>
            ELSE LET k_sz == flash[end]   v_sz == flash[end + 1]
                     next == NextEntry(end, k_sz, v_sz)
                     body == {flash[a] : a \in end + 2..next - 2}
                 IN IF flash[next - 1] # 0 THEN from[next]
                    ELSE <<[k_sz |-> k_sz, v_sz |-> v_sz, words |-> body]>>
                         \o from[next]
    IN from[0]

AsFound(e) == [k_sz |-> e.k_sz, v_sz |-> e.v_sz,
               words |-> IF e.k_sz + e.v_sz = 0 THEN {} ELSE {e.value}]

(* smmstore_append_data(): whatever power losses and failures there were,  *)
(* the payload finds the entries whose last write, the one that marks them *)
(* active, has taken effect since the store was cleared, in this order and *)
(* nothing else.  These are all that were appended with success, and those *)
(* whose last write was done and then reported as failed, or followed by   *)
(* the loss of power; whatever else was written of an entry stays hidden.  *)
(* A clear that was cut off has to be done again before this is so.        *)
Durable ==
    op # "clear" /\ ~unerased
        => ActiveEntries = [i \in DOMAIN stored |-> AsFound(stored[i])]

=============================================================================
