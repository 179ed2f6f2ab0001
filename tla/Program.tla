------------------------------- MODULE Program -------------------------------
(***************************************************************************)
(* The platform state of struct drgn_program (libdrgn/program.h) that the  *)
(* DWARF type cache reads: whether a platform is known (has_platform) and  *)
(* its flags. drgn_program_init() is given a platform or none; a platform  *)
(* is set at most once, later, by drgn_program_set_platform(). The word    *)
(* size a pointer type takes when DW_AT_byte_size is absent comes from the *)
(* flags through drgn_program_is_64_bit().                                 *)
(***************************************************************************)
EXTENDS Integers, Bitwise

CONSTANTS
    Platforms,         \* the platform flags the program may be given
    PlatformGiven,     \* whether drgn_program_init() is given a platform
    IS_64_BIT          \* the bit DRGN_PLATFORM_IS_64_BIT

ASSUME Platforms \subseteq Nat /\ PlatformGiven \in BOOLEAN

VARIABLE platform   \* [known |-> prog->has_platform, flags |-> prog->platform.flags]

NoPlatform    == [known |-> FALSE, flags |-> 0]
KnownPlatform(fl) == [known |-> TRUE, flags |-> fl]

\* drgn_program_init(prog, platform), declared at lines 141-143 (its body is in
\* program.c): with a platform or NULL.
Init ==
    IF PlatformGiven THEN platform \in {KnownPlatform(fl) : fl \in Platforms}
                     ELSE platform = NoPlatform

\* drgn_program_set_platform(), declared at lines 148-153 (body in program.c),
\* as its comment there says: sets the platform "if it
\* hasn't been set yet"; a later call changes nothing.
SetPlatform(fl) ==
    /\ ~platform.known
    /\ platform' = KnownPlatform(fl)

\* Seeded slip: the flags are read whether or not a platform is known.
ProgramIs64BitUnchecked ==
    [err |-> "none", val |-> (platform.flags & IS_64_BIT) # 0]

\* drgn_program_is_64_bit(), lines 200-209: an error without a platform,
\* else the flag converted to bool.
ProgramIs64Bit ==
    IF ~platform.known
       THEN [err |-> "invalid_argument", val |-> FALSE]
       ELSE [err |-> "none", val |-> (platform.flags & IS_64_BIT) # 0]

\* drgn_program_word_size() (program.c): 8 bytes on a 64-bit platform, else 4.
ProgramWordSize ==
    [err |-> ProgramIs64Bit.err, val |-> IF ProgramIs64Bit.val THEN 8 ELSE 4]

=============================================================================
