--------------------------- MODULE MCBinderObjects ---------------------------
(***************************************************************************)
(* A small instance of BinderObjects.  Cells of two bytes; an extra area   *)
(* of three pointers and one that is not a multiple of a u64; parents with *)
(* two places for a pointer and with none, which is rounded up; offsets    *)
(* that overlap and that are not aligned.  Two buffers at a time share     *)
(* three objects.                                                          *)
(***************************************************************************)
EXTENDS BinderObjects

MCExtraSizes == {3, 12}
MCLengths    == {3, 8}
MCOffsets    == {0, 1, 4}
MCCounts     == {0, 1, 2}
=============================================================================
