--------------------------- MODULE MCCbmemConsole ---------------------------
(***************************************************************************)
(* Buffers of two, two and five symbols: each of them wraps, the one in    *)
(* cbmem also over the warning and in the second boot.                     *)
(***************************************************************************)
EXTENDS CbmemConsole
=============================================================================
