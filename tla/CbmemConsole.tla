---------------------------- MODULE CbmemConsole ----------------------------
(***************************************************************************)
(* The log of a boot in memory, src/src/lib/cbmem_console.c.               *)
(*                                                                         *)
(* Each stage prints to the ring buffer it has: the one of the stages      *)
(* before memory works, which may survive a reset, the static one of later *)
(* stages, and from the moment cbmem is there the one in cbmem, to which   *)
(* what the stage has printed so far is copied.  That one survives a reset *)
(* and the next boot goes on in it.                                        *)
(*                                                                         *)
(* A system management interrupt that prints comes between any two steps   *)
(* of a stage, and a reset too.                                            *)
(*                                                                         *)
(* The bytes a stage prints are numbered, the overflow warning is one      *)
(* symbol.  History: the bytes that went with a buffer, or were never in   *)
(* one, and whether a reset came in the middle of a copy.                  *)
(*                                                                         *)
(* A definition whose name starts with Mutant is the one below it with a   *)
(* mistake, for testing the properties.                                    *)
(***************************************************************************)
EXTENDS Integers, Sequences

CONSTANTS PreSize, StaticSize, CbmemSize,   \* the sizes of the bodies
          Nothing,       \* what an unwritten byte holds
          Smi,           \* a byte printed in SMM
          Warning,       \* "console overflowed, log truncated!"
          MaxBytes,      \* bound on the bytes the stages print
          MaxSmi,        \* bound on the bytes printed by the SMI handler
          MaxResets      \* bound on the resets

ASSUME SizeAssumption == {PreSize, StaticSize, CbmemSize} \subseteq Nat \ {0}
ASSUME BoundAssumption == {MaxBytes, MaxSmi, MaxResets} \subseteq Nat
ASSUME SymbolAssumption == /\ {Nothing, Smi, Warning} \cap Nat = {} /\ Smi # Warning
                           /\ Nothing \notin [cursor : Nat, overflow : BOOLEAN]

Buffer == {"pre", "static", "cbmem"}
Space == [pre |-> PreSize, static |-> StaticSize, cbmem |-> CbmemSize]
Nowhere == "no console"
Stage == {"bootblock", "romstage", "ramstage"}
Byte == 1..MaxBytes
Symbol == Byte \cup {Nothing, Smi, Warning}

VARIABLES survives,   \* whether a reset leaves the pre-memory buffer: never changes
          buf,        \* the buffers: struct cbmem_console
          stage,
          current,    \* current_console
          pending,    \* what the stage is about to put in it
          loaded,     \* the cursor and flag cbmemc_tx_byte() has read, if it runs
          source,     \* the console being copied from
          printed,    \* bytes printed by stages
          smis, resets,
          lost, cut   \* history

console_vars == <<survives, buf, stage, current, pending, loaded, source, printed,
                  smis, resets, lost, cut>>

Empty(b) == [size |-> Space[b], cursor |-> 0, overflow |-> FALSE,
             body |-> [i \in 0..Space[b] - 1 |-> Nothing]]
Invalid(b) == [Empty(b) EXCEPT !.size = 0]

ConsoleTypeOK ==
    /\ DOMAIN buf = Buffer
    /\ \A b \in Buffer :
          buf[b] \in [size : {0, Space[b]}, cursor : 0..Space[b] - 1, overflow : BOOLEAN,
                     body : [0..Space[b] - 1 -> Symbol]]
    /\ survives \in BOOLEAN /\ stage \in Stage /\ current \in Buffer \cup {Nowhere}
    /\ current # Nowhere => buf[current].size = Space[current]
    /\ pending \in Seq(Symbol) /\ source \in Buffer \cup {Nowhere}
    /\ loaded \in {Nothing} \cup [cursor: Nat, overflow: BOOLEAN]
    /\ printed \in 0..MaxBytes /\ smis \in 0..MaxSmi /\ resets \in 0..MaxResets
    /\ lost \subseteq Byte /\ cut \in BOOLEAN

(* buffer_valid(), init_console_ptr()                                      *)
Valid(b) == buf[b].cursor < buf[b].size /\ buf[b].size = Space[b]

Ready(b) == IF Valid(b) THEN buf[b]
            ELSE [buf[b] EXCEPT !.size = Space[b], !.cursor = 0, !.overflow = FALSE]

(* The second half of cbmemc_tx_byte(): the byte, and the cursor and flags *)
(* after it.                                                               *)
MutantAdvanced(at, size) ==
    IF at.cursor + 1 >= size THEN [at EXCEPT !.cursor = 0]
    ELSE [at EXCEPT !.cursor = @ + 1]
Advanced(at, size) ==
    IF at.cursor + 1 >= size THEN [cursor |-> 0, overflow |-> TRUE]
    ELSE [at EXCEPT !.cursor = @ + 1]

Put(r, at, symbol) ==
    LET next == Advanced(at, r.size)
    IN [r EXCEPT !.body[at.cursor] = symbol, !.cursor = next.cursor,
                 !.overflow = next.overflow]

Position(r) == [cursor |-> r.cursor, overflow |-> r.overflow]

(* The parts of the body, as copy_console_buffer() and every reader of the *)
(* console take them.                                                      *)
Piece(r, low, high) == [i \in 1..high - low + 1 |-> r.body[low + i - 1]]
Upper(r) == Piece(r, r.cursor, r.size - 1)
Lower(r) == Piece(r, 0, r.cursor - 1)
Contents(r) == IF r.overflow THEN Upper(r) \o Lower(r) ELSE Lower(r)
Log(b) == IF buf[b].size = 0 THEN <<>> ELSE Contents(buf[b])
Copied(r) == IF r.overflow THEN <<Warning>> \o Contents(r) ELSE Contents(r)

BytesOf(seq) == {n \in Byte : \E i \in DOMAIN seq : seq[i] = n}

-----------------------------------------------------------------------------
ConsoleInit ==
    /\ survives \in BOOLEAN
    /\ buf = [[b \in Buffer |-> Invalid(b)] EXCEPT !["pre"] = Empty("pre")]
    /\ stage = "bootblock" /\ current = "pre" /\ pending = <<>> /\ loaded = Nothing
    /\ source = Nowhere /\ printed = 0 /\ smis = 0 /\ resets = 0
    /\ lost = {} /\ cut = FALSE

Idle == pending = <<>> /\ source = Nowhere

(* A stage prints a byte; cbmemc_tx_byte() ignores it without a console.   *)
PrintByte ==
    /\ Idle /\ printed < MaxBytes
    /\ printed' = printed + 1
    /\ IF current = Nowhere
       THEN lost' = lost \cup {printed + 1} /\ UNCHANGED pending
       ELSE pending' = <<printed + 1>> /\ UNCHANGED lost
    /\ UNCHANGED <<survives, buf, stage, current, loaded, source, smis, resets, cut>>

(* cbmemc_tx_byte() reads the cursor, and later writes the byte and the    *)
(* cursor.                                                                 *)
TxLoad ==
    /\ pending # <<>> /\ loaded = Nothing
    /\ loaded' = Position(buf[current])
    /\ UNCHANGED <<survives, buf, stage, current, pending, source, printed, smis, resets,
                   lost, cut>>

TxStore ==
    /\ loaded # Nothing
    /\ buf' = [buf EXCEPT ![current] = Put(@, loaded, Head(pending))]
    /\ pending' = Tail(pending) /\ loaded' = Nothing
    /\ UNCHANGED <<survives, stage, current, source, printed, smis, resets, lost, cut>>

(* cbmemc_reinit(), run when cbmem is there: the copy begins.              *)
CbmemReady ==
    /\ Idle /\ stage # "bootblock" /\ current \in {"pre", "static"}
    /\ buf' = [buf EXCEPT !["cbmem"] = Ready("cbmem")]
    /\ pending' = Copied(buf[current]) /\ source' = current /\ current' = "cbmem"
    /\ UNCHANGED <<survives, stage, loaded, printed, smis, resets, lost, cut>>

(* cbmem_add() finds no room: what is copied goes nowhere, and nothing has *)
(* reached cbmem before.                                                   *)
CbmemFull ==
    /\ Idle /\ stage = "romstage" /\ current = "pre" /\ ~Valid("cbmem")
    /\ lost' = 1..printed
    /\ buf' = [buf EXCEPT ![current].size = 0] /\ current' = Nowhere
    /\ UNCHANGED <<survives, stage, pending, loaded, source, printed, smis, resets, cut>>

(* The end of copy_console_buffer(): the source is not valid any more.     *)
MutantSourceSize == Space[source]
SourceSize == 0
CopyDone ==
    /\ source # Nowhere /\ pending = <<>>
    /\ buf' = [buf EXCEPT ![source].size = SourceSize]
    /\ source' = Nowhere
    /\ UNCHANGED <<survives, stage, current, pending, loaded, printed, smis, resets, lost,
                   cut>>

(* The next stage starts, cbmemc_init(): the early stages go on in their   *)
(* buffer, ramstage finds its static one zeroed.                           *)
StartRomstage ==
    /\ Idle /\ stage = "bootblock"
    /\ stage' = "romstage" /\ buf' = [buf EXCEPT !["pre"] = Ready("pre")]
    /\ UNCHANGED <<survives, current, pending, loaded, source, printed, smis, resets, lost,
                   cut>>

StartRamstage ==
    /\ Idle /\ stage = "romstage" /\ current \in {"cbmem", Nowhere}
    /\ stage' = "ramstage" /\ current' = "static"
    /\ buf' = [buf EXCEPT !["static"] = Empty("static")]
    /\ UNCHANGED <<survives, pending, loaded, source, printed, smis, resets, lost, cut>>

(* The handler of a system management interrupt prints a byte to the       *)
(* console in cbmem; the stage stands still meanwhile.                     *)
PrintInSmm ==
    /\ stage = "ramstage" /\ current = "cbmem" /\ smis < MaxSmi
    /\ smis' = smis + 1
    /\ LET r == Ready("cbmem")
       IN buf' = [buf EXCEPT !["cbmem"] = Put(r, Position(r), Smi)]
    /\ UNCHANGED <<survives, stage, current, pending, loaded, source, printed, resets, lost,
                   cut>>

(* A reset.  What the buffers that do not survive it held, and what was on *)
(* the way, is lost.                                                       *)
Reset ==
    /\ resets < MaxResets /\ resets' = resets + 1
    /\ LET kept == IF survives THEN {"pre", "cbmem"} ELSE {"cbmem"}
           after == [b \in Buffer |-> IF b \in kept THEN buf[b] ELSE Invalid(b)]
           gone == {b \in Buffer \ kept : buf[b].size > 0 /\ Log(b) # <<>>}
           readable == UNION {BytesOf(Log(b)) : b \in kept}
           reached == {n \in Byte : \E m \in BytesOf(Log("cbmem")) : n <= m}
       IN /\ buf' = [after EXCEPT !["pre"] =
                        IF survives THEN Ready("pre") ELSE Empty("pre")]
          /\ lost' = lost \cup (BytesOf(pending) \ readable)
                          \cup (IF gone = {} THEN {}
                                ELSE 1..printed \ (reached \cup readable))
    /\ cut' = (cut \/ (source = "pre" /\ survives))
    /\ stage' = "bootblock" /\ current' = "pre"
    /\ pending' = <<>> /\ loaded' = Nothing /\ source' = Nowhere
    /\ UNCHANGED <<survives, printed, smis>>

ConsoleNext ==
    \/ PrintByte \/ TxLoad \/ TxStore \/ CbmemReady \/ CbmemFull \/ CopyDone
    \/ StartRomstage \/ StartRamstage \/ PrintInSmm \/ Reset

ConsoleSpec == ConsoleInit /\ [][ConsoleNext]_console_vars

-----------------------------------------------------------------------------
(* The log in cbmem has the bytes of the stages in the order they were     *)
(* printed, none of them twice, and where some are missing between two     *)
(* that are there, a reset took them or the warning is there instead.  An  *)
(* SMI in the middle of a byte does not change that.  The one exception is *)
(* a reset before copy_console_buffer() has made its source invalid.       *)
InOrder ==
    cut \/ LET log == Log("cbmem")
               there == BytesOf(log)
           IN \A i, j \in DOMAIN log :
                 i < j /\ {log[i], log[j]} \subseteq Byte =>
                    /\ log[i] < log[j]
                    /\ \/ (log[i]..log[j]) \subseteq lost \cup there
                       \/ \E k \in i..j : log[k] = Warning

(* A log without the overflow flag lacks nothing that was printed, but for *)
(* what the resets took and what a warning stands for; the last byte in it *)
(* is the last one printed.  Bytes printed in SMM between the two halves   *)
(* of cbmemc_tx_byte() can take the flag away.                             *)
WholeUnlessFlagged ==
    Idle /\ current = "cbmem" /\ smis = 0 /\ printed \notin lost =>
        LET log == Log("cbmem")
            there == BytesOf(log)
        IN /\ printed > 0 => printed \in there
           /\ ~buf["cbmem"].overflow /\ (\A i \in DOMAIN log : log[i] # Warning) =>
                 1..printed \subseteq there \cup lost

=============================================================================
