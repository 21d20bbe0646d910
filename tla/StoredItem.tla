----------------------------- MODULE StoredItem -----------------------------
(***************************************************************************)
(* What a region file promises to its users: one item, of which the most   *)
(* recently written value is read back (src/src/include/region_file.h,     *)
(* lines 11-18).  While an update runs, and when it is cut off, the item   *)
(* may be missing or damaged, which users have to notice themselves        *)
(* (src/src/lib/region_file.c, lines 25-29); but it is never an older      *)
(* value, and an update that is reported as done is there.                 *)
(***************************************************************************)
CONSTANTS Value, NoValue, Damaged

VARIABLES content,      \* what a user would read now
          writing,      \* the value of the update that runs, or NoValue
          result        \* how the last update ended

vars == <<writing, result, content>>

Init == content = NoValue /\ writing = NoValue /\ result = "none"

Begin(v) == /\ writing = NoValue
            /\ writing' = v
            /\ UNCHANGED <<result, content>>

Advance == content' \in {content, NoValue, Damaged, writing}

Work == /\ writing # NoValue
        /\ UNCHANGED <<writing, result>>
        /\ Advance

Done == /\ writing # NoValue
        /\ writing' = NoValue /\ result' = "ok"
        /\ content = writing
        /\ UNCHANGED content

(* The power is cut, or the flash reports an error.                        *)
Cut == /\ writing # NoValue
       /\ writing' = NoValue /\ result' = "failed"
       /\ Advance

Next == Work \/ Done \/ Cut \/ \E v \in Value : Begin(v)

Spec == Init /\ [][Next]_vars
=============================================================================
