---------------------------- MODULE DwarfDecode ----------------------------
(***************************************************************************)
(* The pure attribute decoders of libdrgn/dwarf_info_cache.c:              *)
(*                                                                         *)
(*   SubrangeLength     subrange_length()      (the Dimension Decoder)     *)
(*   ParseMemberOffset  parse_member_offset()  (the Member-Offset Decoder) *)
(*   DieIsLittleEndian  dwarf_die_is_little_endian()                       *)
(*                                                                         *)
(* DWARF attribute values are Dwarf_Word, i.e. unsigned integers of Width  *)
(* bits (64 in the code); every arithmetic step is taken modulo 2^Width as *)
(* the C code's uint64_t arithmetic is.                                    *)
(***************************************************************************)
EXTENDS Integers

CONSTANT Width          \* bits of a Dwarf_Word / uint64_t (64 in the code)

ASSUME Width \in Nat \ {0}

WordMax == 2^Width - 1          \* UINT64_MAX
Word    == 0..WordMax
Wrap(n) == n % 2^Width          \* uint64_t arithmetic

NoVal == -1                     \* the attribute is absent

(***************************************************************************)
(* A DW_TAG_subrange_type DIE: upper is DW_AT_upper_bound, count is        *)
(* DW_AT_count (each a Word or NoVal); upperForm is the form of            *)
(* DW_AT_upper_bound ("sdata" or "udata"). The sdata value -1 is the word  *)
(* WordMax, as dwarf_formudata() returns it.                               *)
(***************************************************************************)
Subrange == [upper : Word \cup {NoVal}, upperForm : {"sdata", "udata"},
             count : Word \cup {NoVal}]

\* The array_dimension a subrange decodes to, or an error.
Dimension(complete, len) == [err |-> "none", complete |-> complete, len |-> len]
DimensionError(e)        == [err |-> e, complete |-> FALSE, len |-> 0]

\* Seeded slip: the overflow check misses UINT64_MAX itself.
SubrangeLengthLateOverflow(s) ==
    IF s.upper = NoVal /\ s.count = NoVal THEN Dimension(FALSE, 0)
    ELSE IF s.upper # NoVal
         THEN IF s.upperForm = "sdata" /\ s.upper = WordMax
                 THEN Dimension(TRUE, 0)
              ELSE IF s.upper > WordMax
                 THEN DimensionError("overflow")
              ELSE Dimension(TRUE, Wrap(s.upper + 1))
         ELSE Dimension(TRUE, s.count)

(***************************************************************************)
(* subrange_length(): DW_AT_upper_bound wins over DW_AT_count; neither     *)
(* means an incomplete dimension; GCC's sdata -1 upper bound is length 0;  *)
(* an upper bound of UINT64_MAX would overflow n + 1.                      *)
(***************************************************************************)
SubrangeLength(s) ==
    IF s.upper = NoVal /\ s.count = NoVal THEN Dimension(FALSE, 0)
    ELSE IF s.upper # NoVal
         THEN IF s.upperForm = "sdata" /\ s.upper = WordMax
                 THEN Dimension(TRUE, 0)
              ELSE IF s.upper >= WordMax
                 THEN DimensionError("overflow")
              ELSE Dimension(TRUE, Wrap(s.upper + 1))
         ELSE Dimension(TRUE, s.count)    \* word > UINT64_MAX never holds

(***************************************************************************)
(* A DW_TAG_member DIE as parse_member_offset() reads it: dataBitOffset is *)
(* DW_AT_data_bit_offset, location DW_AT_data_member_location, bitOffset   *)
(* the legacy DW_AT_bit_offset, byteSize DW_AT_byte_size (each a Word or   *)
(* NoVal), and bitSize the DW_AT_bit_size read by parse_member() (0 when   *)
(* absent).                                                                *)
(***************************************************************************)
Member == [dataBitOffset : Word \cup {NoVal}, location : Word \cup {NoVal},
           bitOffset : Word \cup {NoVal}, byteSize : Word \cup {NoVal},
           bitSize : Word]

\* Whether the little-endian legacy bit-field path must evaluate the member's
\* lazy type to learn its size (parse_member_offset(), lines 445-475).
NeedsTypeSize(m, littleEndian) ==
    /\ m.dataBitOffset = NoVal
    /\ m.bitOffset # NoVal
    /\ littleEndian
    /\ m.byteSize = NoVal

\* Seeded slip: the little-endian formula forgets the width of the field.
ParseMemberOffsetNoBitSize(m, littleEndian, typeSize) ==
    LET base == IF m.location = NoVal THEN 0 ELSE Wrap(8 * m.location)
        byteSize == IF m.byteSize # NoVal THEN m.byteSize ELSE typeSize
    IN  IF m.dataBitOffset # NoVal
           THEN [err |-> "none", off |-> m.dataBitOffset]
        ELSE IF m.bitOffset = NoVal
           THEN [err |-> "none", off |-> base]
        ELSE IF ~littleEndian
           THEN [err |-> "none", off |-> Wrap(base + m.bitOffset)]
        ELSE IF byteSize = NoVal
           THEN [err |-> "other", off |-> 0]
        ELSE [err |-> "none",
              off |-> Wrap(base + Wrap(Wrap(8 * byteSize) - m.bitOffset))]

(***************************************************************************)
(* parse_member_offset(); typeSize is the size of the member's type when   *)
(* NeedsTypeSize holds, or NoVal when that type has no size.               *)
(***************************************************************************)
ParseMemberOffset(m, littleEndian, typeSize) ==
    LET base == IF m.location = NoVal THEN 0 ELSE Wrap(8 * m.location)
        byteSize == IF m.byteSize # NoVal THEN m.byteSize ELSE typeSize
    IN  IF m.dataBitOffset # NoVal
           THEN [err |-> "none", off |-> m.dataBitOffset]
        ELSE IF m.bitOffset = NoVal
           THEN [err |-> "none", off |-> base]
        ELSE IF ~littleEndian
           THEN [err |-> "none", off |-> Wrap(base + m.bitOffset)]
        ELSE IF byteSize = NoVal
           THEN [err |-> "other", off |-> 0]   \* bit field type has no size
        ELSE [err |-> "none",
              off |-> Wrap(base + Wrap(Wrap(8 * byteSize) - m.bitOffset
                                       - m.bitSize))]

(***************************************************************************)
(* dwarf_die_is_little_endian(): endianity is DW_AT_endianity (NoVal when  *)
(* absent), consulted only when checkAttr; elfLittle is the ELF header's   *)
(* EI_DATA. DW_END_default = 0, DW_END_big = 1, DW_END_little = 2.         *)
(***************************************************************************)
DieIsLittleEndian(endianity, checkAttr, elfLittle) ==
    LET e == IF checkAttr /\ endianity # NoVal THEN endianity ELSE 0
    IN  CASE e = 0 -> [err |-> "none", little |-> elfLittle]
          [] e = 2 -> [err |-> "none", little |-> TRUE]
          [] e = 1 -> [err |-> "none", little |-> FALSE]
          [] OTHER -> [err |-> "other", little |-> FALSE]

=============================================================================
