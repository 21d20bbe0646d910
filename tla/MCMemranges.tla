---------------------------- MODULE MCMemranges -----------------------------
(***************************************************************************)
(* Five aligned blocks for any caller, 24 pages for the MTRRs.  The record *)
(* of the last operation is no part of the view: no action reads it, and   *)
(* the action properties are checked of every step.                        *)
(*                                                                         *)
(* The boards: memory from 0 and from 4 GiB, ending at various pages, with *)
(* uncacheable pieces inside, one across 4 GiB and one, the flash, right   *)
(* below it, and frame buffers, one above 4 GiB with a gap in front of it. *)
(* Left out are those that FlashAssumption excludes.                       *)
(***************************************************************************)
EXTENDS Mtrr

Blk(b, e) == IF b = e THEN <<>> ELSE <<[base |-> b, size |-> e - b]>>

Uncacheable == {<<>>, Blk(5, 7), Blk(12, 18), Blk(15, 16), Blk(3, 7) \o Blk(9, 11) \o Blk(17, 18)}
FrameBuffers == {<<>>, Blk(13, 14), Blk(7, 8) \o Blk(13, 14), Blk(21, 22)}

Maps ==
    {[wb |-> Blk(0, low) \o Blk(FourG, high), uc |-> uc, wc |-> wc,
      above |-> kind # "below", late |-> kind = "late"] :
        low \in {6, 7, 11, 12, 15, 16}, high \in {16, 17, 20, 23, 24},
        uc \in Uncacheable, wc \in FrameBuffers, kind \in {"below", "above", "late"}}
Boards == {b \in Maps : Fillable(Resources(b), FourG * Align, "UC")}

Temps == {[base |-> 15, size |-> 1, type |-> "WP"], [base |-> 12, size |-> 4, type |-> "WP"],
          [base |-> 9, size |-> 1, type |-> "WP"]}

View == <<entries, free, mtrr_vars>>
=============================================================================
