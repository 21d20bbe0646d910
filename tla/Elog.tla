-------------------------------- MODULE Elog --------------------------------
(***************************************************************************)
(* The event log in flash and its mirror in memory,                        *)
(* src/src/drivers/elog/elog.c, as the SMM handler uses it: events are     *)
(* added behind the others, and when little room is left the oldest are    *)
(* dropped by erasing the flash and writing it again.  Power may be lost   *)
(* in any access to the flash, an erase or a write may fail, and the       *)
(* system may be started again at any time.                                *)
(*                                                                         *)
(* An event has a type and a length; checksums and times are left out: a   *)
(* part of an event is told from an event.  Flash that is not valid as a   *)
(* whole, header, events and nothing behind them, is "junk", because the   *)
(* scan then drops all of it.  The region is taken to be found and its     *)
(* reads to succeed.  The boot count that ramstage adds in elog_init() is  *)
(* not added in SMM.                                                       *)
(*                                                                         *)
(* A definition whose name starts with Mutant is the one below it with a   *)
(* mistake, for testing the properties.                                    *)
(***************************************************************************)
EXTENDS Integers, Sequences, SequencesExt, FiniteSets

CONSTANTS Event,        \* events that are added: [type, len]
          Header,       \* length of the header
          MaxEvent,     \* ELOG_MAX_EVENT_SIZE
          LogSize,      \* total_size
          ShrinkSize,   \* a part of it
          LogClear,     \* the event ELOG_TYPE_LOG_CLEAR
          MaxFailures   \* bound on lost power and failed accesses

Reserved == 2 * MaxEvent      \* ELOG_MIN_AVAILABLE_ENTRIES
MutantThreshold == LogSize
Threshold == LogSize - Reserved

(* The test at the end of elog_find_flash().  A quarter of the log is to   *)
(* be dropped, so what stays behind is three times that, and far more than *)
(* three events.                                                           *)
ASSUME ShrinkAssumption == /\ LogSize \in Nat /\ ShrinkSize \in Nat
                           /\ Reserved <= ShrinkSize
                           /\ ShrinkSize + 3 * MaxEvent < LogSize
(* Lengths in their limits; the header and the mark, of 8 and 11 bytes,    *)
(* are together smaller than the largest event, of 127.                    *)
ASSUME EventAssumption == /\ LogClear \notin Event
                          /\ MaxEvent \in Nat
                          /\ \A e \in Event \cup {LogClear} : e.len \in 1..MaxEvent
                          /\ Header \in Nat \ {0}
                          /\ Header + LogClear.len <= MaxEvent
ASSUME FailureAssumption == MaxFailures \in Nat

Clear == [type |-> "clear request", len |-> 0]
NoRequest == [type |-> "none", len |-> 0]
Request == Event \cup {Clear}
NeedsErase == -1

Log(es) == [state |-> "log", events |-> es]
Blank == [state |-> "blank", events |-> <<>>]
Junk == [state |-> "junk", events |-> <<>>]

VARIABLES nv,            \* the flash
          mirror,        \* the events in elog_mirror_buf
          nv_last_write,
          elog_initialized,
          sync,          \* "none", "erase", "rewrite" or "append"
          request,       \* what is being done for the caller
          waiting,       \* it waits for elog_init() to prepare the flash
          returned,
          found,         \* history: what was in flash as the request came
          failed,        \* history: an access has failed since the start
          failures

logVars == <<nv, mirror, nv_last_write, elog_initialized, sync, request,
             waiting, returned, found, failed, failures>>

LogTypeOK ==
    /\ nv.state \in {"log", "blank", "junk"}
    /\ nv.events \in Seq(Event \cup {LogClear})
    /\ mirror \in Seq(Event \cup {LogClear})
    /\ nv_last_write \in 0..LogSize \cup {NeedsErase}
    /\ elog_initialized \in {"uninitialized", "initialized", "broken"}
    /\ sync \in {"none", "erase", "rewrite", "append"}
    /\ request \in Request \cup {NoRequest} /\ waiting \in BOOLEAN
    /\ returned \in {"none", "success", "failure"}
    /\ found \in Seq(Event \cup {LogClear})
    /\ failed \in BOOLEAN /\ failures \in 0..MaxFailures

LogInit ==
    /\ nv = Blank
    /\ mirror = <<>> /\ nv_last_write = 0 /\ elog_initialized = "uninitialized"
    /\ sync = "none" /\ request = NoRequest /\ waiting = FALSE
    /\ returned = "none" /\ found = <<>> /\ failed = FALSE /\ failures = 0

-----------------------------------------------------------------------------
(* mirror_last_write, the end of the events.                               *)
End(es) == FoldLeft(LAMBDA n, e : n + e.len, Header, es)

Begin(es, i) == End(SubSeq(es, 1, i - 1))

(* elog_do_shrink(): every event that begins within the size asked for is  *)
(* dropped.                                                                *)
MutantShrunk(es) == <<>>
Shrunk(es) ==
    LET dropped == {i \in DOMAIN es : Begin(es, i) <= ShrinkSize}
    IN SubSeq(es, Cardinality(dropped) + 1, Len(es))

(* elog_nv_needs_possible_erase(): nothing written means erased before.    *)
MutantPossibleErase(last) == last
PossibleErase(last) == IF last = 0 THEN 0 ELSE NeedsErase

(* The mirror and nv_last_write get new contents, and elog_sync_to_nv()    *)
(* begins.  An event that fills the log shrinks it, which adds LOG_CLEAR;  *)
(* elog_prepare_empty() leaves this event alone.                           *)
SyncFrom(es, last) ==
    /\ mirror' = es /\ nv_last_write' = last
    /\ sync' = IF last = NeedsErase THEN "erase" ELSE "append"

Add(es, e, last) ==
    LET with == Append(es, e)
    IN IF End(with) >= Threshold
       THEN SyncFrom(Append(Shrunk(with), LogClear), PossibleErase(last))
       ELSE SyncFrom(with, last)

PrepareEmpty(last) == SyncFrom(<<LogClear>>, PossibleErase(last))

Perform(r, es, last) ==
    IF r = Clear THEN PrepareEmpty(last) ELSE Add(es, r, last)

Idle == sync = "none" /\ request = NoRequest

Begins(r, known) ==
    /\ Idle
    /\ request' = r /\ found' = known
    /\ UNCHANGED <<nv, returned, failed, failures>>

(* elog_add_event_raw() and elog_clear()                                   *)
DoesNotFit(r) == r # Clear /\ End(mirror) + r.len > LogSize

Refuse(r) ==
    /\ Idle
    /\ \/ elog_initialized = "broken"
       \/ elog_initialized = "initialized" /\ DoesNotFit(r)
    /\ returned' = "failure"
    /\ UNCHANGED <<nv, mirror, nv_last_write, elog_initialized, sync, request,
                   waiting, found, failed, failures>>

Call(r) ==
    /\ elog_initialized = "initialized" /\ ~DoesNotFit(r)
    /\ Begins(r, nv.events)
    /\ Perform(r, mirror, nv_last_write)
    /\ UNCHANGED <<elog_initialized, waiting>>

(* elog_init(), which they call first, scans the flash, and makes it empty *)
(* when it is blank or invalid.  What has been scanned counts as written.  *)
Scanned == IF nv.state = "blank" THEN 0 ELSE End(nv.events)

CallAndInit(r) ==
    /\ elog_initialized = "uninitialized"
    /\ elog_initialized' = "initialized"
    /\ IF nv.state = "log"
       THEN Begins(r, nv.events) /\ Perform(r, nv.events, Scanned) /\ UNCHANGED waiting
       ELSE Begins(r, <<LogClear>>) /\ PrepareEmpty(Scanned) /\ waiting' = TRUE

(* The request that elog_init() was called for.                            *)
Continue ==
    /\ sync = "none" /\ waiting
    /\ waiting' = FALSE
    /\ Perform(request, mirror, nv_last_write)
    /\ UNCHANGED <<nv, elog_initialized, request, returned, found, failed,
                   failures>>

-----------------------------------------------------------------------------
(* elog_sync_to_nv()                                                       *)

(* elog_nv_write(): the mirror from the offset on, or the part of it up to *)
(* its nth event, reaches the flash.  Behind a gap, or over something,     *)
(* this makes no log.                                                      *)
Written(n) ==
    LET new == {i \in DOMAIN mirror : Begin(mirror, i) >= nv_last_write}
        upto == {i \in new : i <= n}
        at == IF nv.state = "blank" THEN 0 ELSE End(nv.events)
    IN IF nv.state = "junk" \/ at # nv_last_write THEN Junk
       ELSE Log(nv.events \o SubSeq(mirror, Len(mirror) - Cardinality(new) + 1,
                    Len(mirror) - Cardinality(new) + Cardinality(upto)))

(* What an access that is cut off or fails may leave: all of it is done    *)
(* when power is lost right behind it, or the wait for it fails.           *)
Partly ==
    IF sync = "erase" THEN {nv, Junk, Blank}
    ELSE {nv, Junk} \cup {Written(n) : n \in 0..Len(mirror)}

Fault(outcomes) ==
    /\ failures < MaxFailures
    /\ nv' \in outcomes /\ failed' = TRUE /\ failures' = failures + 1

MutantAfterErase == NeedsErase
AfterErase == 0

Erase ==
    /\ sync = "erase"
    /\ \/ nv' = Blank /\ UNCHANGED <<failed, failures>>
       \/ Fault(Partly)
    /\ nv_last_write' = AfterErase
    /\ sync' = "rewrite"
    /\ UNCHANGED <<mirror, elog_initialized, request, waiting, returned, found>>

(* An append is taken to have been successful.                             *)
EndSync(result) ==
    /\ sync' = "none"
    /\ IF waiting /\ result = "success"
       THEN UNCHANGED <<request, returned, waiting, found>>
       ELSE /\ request' = NoRequest /\ returned' = result
            /\ waiting' = FALSE /\ found' = <<>>

AppendToNv ==
    /\ sync = "append"
    /\ \/ nv' = Written(Len(mirror)) /\ UNCHANGED <<failed, failures>>
       \/ Fault(Partly)
    /\ nv_last_write' = End(mirror)
    /\ EndSync("success")
    /\ UNCHANGED <<mirror, elog_initialized>>

(* After an erase the flash is scanned again.                              *)
RewriteNv ==
    /\ sync = "rewrite"
    /\ \/ nv' = Written(Len(mirror)) /\ UNCHANGED <<failed, failures>>
       \/ Fault(Partly)
    /\ nv_last_write' = IF nv'.state = "blank" THEN 0 ELSE End(nv'.events)
    /\ mirror' = nv'.events
    /\ IF nv'.state = "log"
       THEN EndSync("success") /\ UNCHANGED elog_initialized
       ELSE EndSync("failure") /\ elog_initialized' = "broken"

LogSync == Erase \/ AppendToNv \/ RewriteNv

(* The memory is gone; an access to the flash may have been cut off.       *)
Forget ==
    /\ mirror' = <<>> /\ nv_last_write' = 0
    /\ elog_initialized' = "uninitialized"
    /\ sync' = "none" /\ request' = NoRequest /\ waiting' = FALSE
    /\ returned' = "none" /\ found' = <<>> /\ failed' = FALSE

LogPowerLost ==
    /\ sync # "none" /\ failures < MaxFailures
    /\ nv' \in Partly /\ failures' = failures + 1
    /\ Forget

Restart == sync = "none" /\ Forget /\ UNCHANGED <<nv, failures>>

LogCommand == \E r \in Request : Refuse(r) \/ Call(r) \/ CallAndInit(r)
LogStep == Continue \/ LogSync

-----------------------------------------------------------------------------
(* elog_sync_to_nv(): between requests the flash holds what the mirror     *)
(* holds, up to the last write, unless an access has failed, for a failed  *)
(* append is not noticed.                                                  *)
MirrorMatchesFlash ==
    Idle /\ elog_initialized = "initialized" /\ ~failed
        => nv = Log(mirror) /\ nv_last_write = End(mirror)

(* elog_add_event_raw(): a success without a failed access means that the  *)
(* event is in flash behind those that were there, or behind the newest of *)
(* them and in front of the mark that some were dropped; events are not    *)
(* reordered, and shrinking never drops the event that made it necessary.  *)
AddedIsFound ==
    [][(request \in Event /\ request' = NoRequest /\ returned' = "success"
            /\ ~failed')
       => LET all == Append(found, request)
          IN \/ nv' = Log(all)
             \/ \E n \in 1..Len(found) :
                    nv' = Log(SubSeq(all, n + 1, Len(all)) \o <<LogClear>>)]_logVars

(* elog_find_flash(), elog_shrink(): the threshold leaves room for the     *)
(* largest event and the mark, so no event is refused for want of space.   *)
RoomForEvent ==
    Idle /\ elog_initialized = "initialized"
        => End(mirror) + MaxEvent + LogClear.len <= LogSize

(* elog_init(): whatever lost power has left in flash, the log works       *)
(* again after the next start, unless an access fails.                     *)
BrokenOnlyByFailure == elog_initialized = "broken" => failed

=============================================================================
