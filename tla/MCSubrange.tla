----------------------------- MODULE MCSubrange -----------------------------
(***************************************************************************)
(* Checks subrange_length() against what a DW_TAG_subrange_type means in   *)
(* DWARF, over every subrange whose attributes are Width-bit words.        *)
(***************************************************************************)
EXTENDS DwarfDecode

VARIABLE sub            \* the DW_TAG_subrange_type being decoded

\* The value of an sdata word as the signed integer it encodes.
Signed(w) == IF w >= 2^(Width - 1) THEN w - 2^Width ELSE w

\* The number of elements DWARF gives the subrange: upper bound + 1 (the
\* upper bound read as signed for DW_FORM_sdata), else the count; a length
\* that does not fit in a word is an overflow.
Meaning(s) ==
    IF s.upper = NoVal /\ s.count = NoVal THEN Dimension(FALSE, 0)
    ELSE IF s.upper # NoVal
         THEN LET n == IF s.upperForm = "sdata" THEN Signed(s.upper) + 1
                                                ELSE s.upper + 1
              IN  IF n > WordMax THEN DimensionError("overflow")
                                 ELSE Dimension(TRUE, n)
         ELSE Dimension(TRUE, s.count)

\* A subrange a producer can emit: a signed upper bound is at least -1.
WellFormed(s) ==
    s.upper = NoVal \/ s.upperForm = "udata" \/ Signed(s.upper) >= -1

Init == sub \in Subrange
Next == UNCHANGED sub
Spec == Init /\ [][Next]_sub


(***************************************************************************)
(* subrange_length() gives every well-formed subrange its DWARF length:    *)
(* GCC's sdata -1 bound is an empty array, an upper bound of UINT64_MAX    *)
(* overflows rather than wrapping to 0, and DW_AT_count is taken as is.    *)
(***************************************************************************)
SubrangeMeaning == WellFormed(sub) => SubrangeLength(sub) = Meaning(sub)
=============================================================================
