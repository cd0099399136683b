---------------------------- MODULE MCBinderAlloc ----------------------------
(***************************************************************************)
(* A small area: five pages of eight bytes, a word of two, a header of six *)
(* (it often lies across two pages) and a size_t of six bits.              *)
(***************************************************************************)
EXTENDS BinderAlloc

\* Empty, odd, half of the area, and three that overflow: in the first sum, in
\* the second, and by rounding up.
MCRequests == {<<0, 0, 0>>, <<1, 2, 2>>, <<12, 0, 0>>,
               <<32, 34, 0>>, <<32, 0, 34>>, <<63, 0, 0>>, <<2, 0, 63>>}
=============================================================================
