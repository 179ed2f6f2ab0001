--------------------------- MODULE MCMemberOffset ---------------------------
(***************************************************************************)
(* Checks parse_member_offset(): a bit field at bit pos of a size-byte     *)
(* storage unit at byte loc must decode to bit offset 8 * loc + pos        *)
(* whichever of the three encodings a producer used, on either byte order. *)
(***************************************************************************)
EXTENDS DwarfDecode

VARIABLE field          \* the bit field and how the producer encoded it

Encodings == {"data_bit_offset", "bit_offset", "bit_offset_type_size"}

Fields ==
    UNION {[loc : {l}, size : {sz}, bitSize : {b}, pos : 0..(8 * sz - b),
            enc : Encodings, little : BOOLEAN]
           : l \in 0..3, sz \in {1, 2, 4}, b \in 1..8}

\* The DW_TAG_member a producer emits for field f. The legacy DW_AT_bit_offset
\* counts from the most significant bit of the storage unit: on little-endian
\* targets that is 8 * size - pos - bitSize, on big-endian ones pos.
Encode(f) ==
    [dataBitOffset |-> IF f.enc = "data_bit_offset" THEN 8 * f.loc + f.pos
                                                    ELSE NoVal,
     location |-> IF f.enc = "data_bit_offset" \/ f.loc = 0 THEN NoVal
                                                          ELSE f.loc,
     bitOffset |-> CASE f.enc = "data_bit_offset" -> NoVal
                     [] f.little -> 8 * f.size - f.pos - f.bitSize
                     [] OTHER    -> f.pos,
     byteSize |-> IF f.enc = "bit_offset" THEN f.size ELSE NoVal,
     bitSize |-> f.bitSize]

Init == field \in Fields
Next == UNCHANGED field
Spec == Init /\ [][Next]_field


(***************************************************************************)
(* The three encodings of one bit field agree: parse_member_offset() turns *)
(* DW_AT_data_bit_offset, and DW_AT_data_member_location plus the legacy   *)
(* DW_AT_bit_offset (sized by DW_AT_byte_size or by the member's type),    *)
(* into the same offset from the start of the containing object.           *)
(***************************************************************************)
BitFieldEncodingsAgree ==
    ParseMemberOffset(Encode(field), field.little, field.size)
        = [err |-> "none", off |-> 8 * field.loc + field.pos]
=============================================================================
