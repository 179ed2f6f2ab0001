--------------------------- MODULE DwarfTypeCache ---------------------------
(***************************************************************************)
(* The DWARF type materializer of libdrgn/dwarf_info_cache.c: the          *)
(* memoization core drgn_type_from_dwarf_internal() with its two maps and  *)
(* depth guard, the kind dispatchers it calls, the lazy member/parameter   *)
(* thunks, the declaration resolver drgn_dwarf_info_cache_find_complete()  *)
(* and the type finder drgn_dwarf_type_find().                             *)
(*                                                                         *)
(* The C code is recursive. The model keeps its call stack explicitly:     *)
(* each activation of drgn_type_from_dwarf_internal() is a "resolve"      *)
(* frame whose pc names the point of the handler it has reached; a call    *)
(* pushes a frame, a return pops it and leaves its result in the caller's *)
(* res field. The bottom frame is the API call the client made.            *)
(*                                                                         *)
(* Type descriptors are values. The type factory interns void, int, bool,  *)
(* float, complex, typedef, pointer and array types, so two creations with *)
(* equal fields give the same descriptor (equal records); compound, enum   *)
(* and function types come from builders and are distinct objects (a      *)
(* fresh id each).                                                         *)
(***************************************************************************)
EXTENDS Integers, SequencesExt, FiniteSets

CONSTANTS
    Images,            \* the DWARF images the program may have loaded
    FindRequests,      \* the <<kind, name, filename>> drgn_dwarf_type_find() is asked
    ObjectRequests,    \* the <<flags, name, filename>> drgn_dwarf_object_find() is asked
    MaxDepth,          \* the recursion budget (1000 in the code)
    MaxRequests,       \* bound on API calls made by the client
    MaxAllocFailures,  \* bound on allocations that fail
    Width,             \* bits of a Dwarf_Word (64 in the code)
    Platforms,         \* the platform flags the program may be given
    PlatformGiven,     \* whether the program was created with its platform
    IS_64_BIT          \* the bit DRGN_PLATFORM_IS_64_BIT

ASSUME MaxDepth \in Nat \ {0} /\ MaxRequests \in Nat /\ MaxAllocFailures \in Nat

LOCAL Decode == INSTANCE DwarfDecode

VARIABLES
    dwarf,       \* the loaded image: dwarf.die[d] is DIE d, dwarf.little the ELF byte order
    stack,       \* the call stack, bottom first
    depth,       \* dicache->depth
    map,         \* dicache->map: DIE -> [qt, inc]
    rmap,        \* dicache->cant_be_incomplete_array_map
    thunks,      \* the lazy types held by created compound and function types
    nextId,      \* identity of the next builder-made type descriptor
    requests,    \* API calls made so far
    allocFails,  \* allocations that have failed so far
    answers,     \* history: every [die, can, qt] drgn_type_from_dwarf_internal returned
    results,     \* history: every [req, out] an API call returned
    platform     \* the platform state of the program that owns the cache

vars == <<dwarf, stack, depth, map, rmap, thunks, nextId, requests,
          allocFails, answers, results, platform>>

\* The program (program.h), which shares the variable platform.
Prog == INSTANCE Program

-----------------------------------------------------------------------------
(***************************************************************************)
(* DIEs. A DIE is a record; the fields a tag does not use keep the values  *)
(* of DefaultDie. DIE addresses are 1..N and the name index yields DIEs in *)
(* address order. file is the name of the DIE's compilation unit; the     *)
(* fields of a DW_TAG_variable or DW_TAG_subprogram are locOp, the one     *)
(* DW_AT_location operation ("none" without the attribute, "addr" for      *)
(* DW_OP_addr addr, "other" for anything else), lowPc, endianity (the      *)
(* DW_AT_endianity value), varConst, the form class of DW_AT_const_value   *)
(* ("none", "block" or "data"), and blockShort, whether a block is shorter *)
(* than the value of the variable's type. size is a pointer type's        *)
(* DW_AT_byte_size. type is NoDie without DW_AT_type and BadRef when the *)
(* attribute's form is not a reference; declInvalid says DW_AT_declaration *)
(* has a form that is not a flag.                                          *)
(***************************************************************************)
NoDie  == 0
BadRef == -1
NoName == ""
NoFile == ""        \* no filename given: every DIE matches

DefaultDie ==
    [tag |-> "base_type", name |-> NoName, type |-> NoDie, decl |-> FALSE,
     hasSize |-> TRUE, enc |-> "signed", children |-> <<>>,
     member |-> [dataBitOffset |-> Decode!NoVal, location |-> Decode!NoVal,
                 bitOffset |-> Decode!NoVal, byteSize |-> Decode!NoVal,
                 bitSize |-> 0],
     sub |-> [upper |-> Decode!NoVal, upperForm |-> "udata",
              count |-> Decode!NoVal],
     constForm |-> "sdata", negative |-> FALSE,
     file |-> "a.c", locOp |-> "none", addr |-> 0, lowPc |-> Decode!NoVal,
     endianity |-> Decode!NoVal, varConst |-> "none", blockShort |-> FALSE,
     size |-> Decode!NoVal, declInvalid |-> FALSE]

Die(d)   == dwarf.die[d]
Dies     == DOMAIN dwarf.die
Children(d, tag) == SelectSeq(Die(d).children, LAMBDA c : Die(c).tag = tag)

\* Seeded slip: a DW_AT_type of another form is taken for a missing one.
DwarfTypeBadFormAbsent(d) == IF Die(d).type \in {NoDie, BadRef} THEN 1 ELSE 0

\* dwarf_type(), lines 85-93: 1 without DW_AT_type, -1 when
\* dwarf_formref_die() fails on its form, 0 when it names a DIE.
DwarfType(d) ==
    CASE Die(d).type = NoDie  -> 1
      [] Die(d).type = BadRef -> -1
      [] OTHER                -> 0

\* dwarf_flag(d, DW_AT_declaration), lines 96-105: false without the
\* attribute, else dwarf_formflag(), which fails on a form that is no flag.
DwarfFlagDeclaration(d) == [err |-> Die(d).declInvalid, val |-> Die(d).decl]

QualifierOf == [const_type |-> "const", restrict_type |-> "restrict",
                volatile_type |-> "volatile", atomic_type |-> "atomic"]
CompoundKindOf == [structure_type |-> "struct", union_type |-> "union",
                   class_type |-> "class"]

\* The DWARF tag drgn_dwarf_type_find() looks up for a type kind.
FindTag == [int |-> "base_type", bool |-> "base_type", float |-> "base_type",
            struct |-> "structure_type", union |-> "union_type",
            class |-> "class_type", enum |-> "enumeration_type",
            typedef |-> "typedef"]

\* The name index: the DIEs with a tag and name, declarations excluded.
IndexEntries(tag, name) ==
    SelectSeq([j \in 1..Cardinality(Dies) |-> j],
              LAMBDA d : Die(d).tag = tag /\ Die(d).name = name /\ ~Die(d).decl)

\* Seeded slip: the filename is ignored.
FileMatchesIgnored(d, file) == TRUE

\* die_matches_filename(): a filename, when given, names the DIE's CU.
FileMatches(d, file) == file = NoFile \/ Die(d).file = file

\* The tags drgn_dwarf_object_find() asks the index for (lines 1441-1447).
ObjectTags(flags) ==
    {[constant |-> "enumerator", function |-> "subprogram",
      variable |-> "variable"][fl] : fl \in flags}

\* The object index: a DW_TAG_enumerator name yields its enumeration type;
\* subprograms and variables are indexed by their own name; no declarations.
ObjectIndexEntries(flags, name) ==
    LET Yields(d) ==
          \/ /\ "enumerator" \in ObjectTags(flags)
             /\ Die(d).tag = "enumeration_type"
             /\ \E c \in Range(Die(d).children) :
                   Die(c).tag = "enumerator" /\ Die(c).name = name
          \/ Die(d).tag \in ObjectTags(flags) \ {"enumerator"} /\ Die(d).name = name
    IN  SelectSeq([j \in 1..Cardinality(Dies) |-> j],
                  LAMBDA d : Yields(d) /\ ~Die(d).decl)

-----------------------------------------------------------------------------
(***************************************************************************)
(* Type descriptors and results.                                           *)
(***************************************************************************)
Qt(t, q)  == [type |-> t, quals |-> q]          \* drgn_qualified_type
VoidType  == [kind |-> "void"]
Garbage   == [kind |-> "indeterminate"]          \* an unassigned ret->type

Ok(qt, inc) == [err |-> "none", qt |-> qt, inc |-> inc]
Err(e)      == [err |-> e, qt |-> Qt(VoidType, {}), inc |-> FALSE]

\* drgn_type_has_size() (type.h): the kinds whose descriptors carry a size.
HasSize(t) == t.kind \in {"int", "bool", "float", "complex", "struct",
                          "union", "class", "enum", "pointer"}

-----------------------------------------------------------------------------
(***************************************************************************)
(* Frames.                                                                 *)
(***************************************************************************)
Frame(fn, d, can) ==
    [fn |-> fn, die |-> d, can |-> can, pc |-> "entry", res |-> Err("none"),
     i |-> 1, th |-> <<>>, dims |-> <<>>, variadic |-> FALSE,
     signed |-> FALSE, t |-> 0, kind |-> "", name |-> NoName, cands |-> <<>>,
     file |-> NoFile, req |-> <<>>]

Top       == stack[Len(stack)]
SetTop(f) == [stack EXCEPT ![Len(stack)] = f]

\* Top calls drgn_type_from_dwarf_internal(d, can) and resumes at cont.
Call(f, cont, d, can) ==
    stack' = SetTop([f EXCEPT !.pc = cont]) \o <<Frame("resolve", d, can)>>

\* drgn_type_from_dwarf_child() (lines 223-263) with DW_AT_type present, or
\* absent and can_be_void (void without a call); a DW_AT_type that is not a
\* reference is an error the caller receives without a call.
CallChild(f, cont, can) ==
    CASE Die(f.die).type = NoDie
           -> stack' = SetTop([f EXCEPT !.pc = cont,
                                        !.res = Ok(Qt(VoidType, {}), FALSE)])
      [] Die(f.die).type = BadRef
           -> stack' = SetTop([f EXCEPT !.pc = cont, !.res = Err("other")])
      [] OTHER -> Call(f, cont, Die(f.die).type, can)

\* The top frame returns r to its caller.
Return(r) ==
    LET s == SubSeq(stack, 1, Len(stack) - 1)
    IN  stack' = [s EXCEPT ![Len(s)] = [@ EXCEPT !.res = r]]

-----------------------------------------------------------------------------
(***************************************************************************)
(* The memoization core, drgn_type_from_dwarf_internal().                  *)
(***************************************************************************)

\* Seeded slip: the guard admits one activation too many.
DepthExceededLate == depth > MaxDepth

\* Lines 1101-1104: the depth guard, taken before the cache is searched.
DepthExceeded == depth >= MaxDepth

\* Seeded slip: a primary hit is used whatever can_be_incomplete_array says.
MemoLookupPrimaryOnly(d, can) == IF d \in DOMAIN map THEN {map[d]} ELSE {}

\* Lines 1106-1123: the cached value for (d, can), as a set of 0 or 1 entries.
\* A primary hit stands unless the caller forbids incomplete arrays and the
\* hit is one; then only the restricted map may answer.
MemoLookup(d, can) ==
    IF d \notin DOMAIN map THEN {}
    ELSE IF ~can /\ map[d].inc
         THEN IF d \in DOMAIN rmap THEN {rmap[d]} ELSE {}
         ELSE {map[d]}

\* Lines 1133-1209: the handler dispatched on for a DIE's tag.
Handler(d) ==
    LET tag == Die(d).tag
    IN  CASE tag \in DOMAIN QualifierOf    -> "qualifier"
          [] tag = "base_type"             -> "base"
          [] tag \in DOMAIN CompoundKindOf -> "compound"
          [] tag = "enumeration_type"      -> "enum"
          [] tag = "typedef"               -> "typedef"
          [] tag = "pointer_type"          -> "pointer"
          [] tag = "array_type"            -> "array"
          [] tag \in {"subroutine_type", "subprogram"} -> "function"
          [] OTHER                         -> "unknown"

\* Lines 1216-1220: the map a fresh result is inserted into.
InRestrictedMap(can, inc) == ~can /\ inc

\* Seeded slip: the result is never stored.
InsertDropped(m, d, e) == m

\* Lines 1221-1222: dwarf_type_map_insert_searched(); the map was searched
\* for d before the handler ran, so d is expected absent and an entry
\* already present is the one a later search finds.
Insert(m, d, e) == [k \in DOMAIN m \cup {d} |-> IF k \in DOMAIN m THEN m[k] ELSE e]

\* Seeded slip: an error returns before dicache->depth is restored.
FinishAfterEarlyReturn(f, r, fails) ==
    /\ depth' = IF r.err # "none" THEN depth ELSE depth - 1
    /\ \/ /\ r.err # "none"
          /\ Return(r)
          /\ allocFails' = fails
          /\ UNCHANGED <<map, rmap, answers>>
       \/ /\ r.err = "none"
          /\ fails < MaxAllocFailures
          /\ allocFails' = fails + 1
          /\ Return(Err("nomem"))
          /\ UNCHANGED <<map, rmap, answers>>
       \/ /\ r.err = "none"
          /\ LET e == [qt |-> r.qt, inc |-> r.inc]
             IN  IF InRestrictedMap(f.can, r.inc)
                    THEN rmap' = Insert(rmap, f.die, e) /\ UNCHANGED map
                    ELSE map' = Insert(map, f.die, e) /\ UNCHANGED rmap
          /\ answers' = answers \cup {[die |-> f.die, can |-> f.can, qt |-> r.qt]}
          /\ Return(r)
          /\ allocFails' = fails

(***************************************************************************)
(* Lines 1210-1226: the handler of the top frame f finished with r, after  *)
(* fails allocations have failed in all: the depth is restored; an error   *)
(* is returned as is; a result is inserted into its map (the insertion may *)
(* fail for lack of memory) and returned with the is_incomplete_array the  *)
(* handler computed.                                                       *)
(***************************************************************************)
FinishAfter(f, r, fails) ==
    /\ depth' = depth - 1
    /\ \/ /\ r.err # "none"
          /\ Return(r)
          /\ allocFails' = fails
          /\ UNCHANGED <<map, rmap, answers>>
       \/ /\ r.err = "none"
          /\ fails < MaxAllocFailures
          /\ allocFails' = fails + 1
          /\ Return(Err("nomem"))
          /\ UNCHANGED <<map, rmap, answers>>
       \/ /\ r.err = "none"
          /\ LET e == [qt |-> r.qt, inc |-> r.inc]
             IN  IF InRestrictedMap(f.can, r.inc)
                    THEN rmap' = Insert(rmap, f.die, e) /\ UNCHANGED map
                    ELSE map' = Insert(map, f.die, e) /\ UNCHANGED rmap
          /\ answers' = answers \cup {[die |-> f.die, can |-> f.can, qt |-> r.qt]}
          /\ Return(r)
          /\ allocFails' = fails

Finish(f, r) == FinishAfter(f, r, allocFails)

(***************************************************************************)
(* Lines 1100-1133: entry of drgn_type_from_dwarf_internal(). A cache hit  *)
(* returns without writing *is_incomplete_array_ret, so the caller's flag  *)
(* keeps its initial false.                                                *)
(***************************************************************************)
ResolveEntry ==
    LET f == Top IN
    /\ stack # <<>> /\ f.fn = "resolve" /\ f.pc = "entry"
    /\ \/ /\ DepthExceeded
          /\ Return(Err("recursion"))
          /\ UNCHANGED <<depth, answers>>
       \/ /\ ~DepthExceeded
          /\ \E e \in MemoLookup(f.die, f.can) :
                /\ Return(Ok(e.qt, FALSE))
                /\ answers' = answers \cup {[die |-> f.die, can |-> f.can, qt |-> e.qt]}
          /\ UNCHANGED depth
       \/ /\ ~DepthExceeded
          /\ MemoLookup(f.die, f.can) = {}
          /\ depth' = depth + 1
          /\ stack' = SetTop([f EXCEPT !.pc = Handler(f.die)])
          /\ UNCHANGED answers
    /\ UNCHANGED <<dwarf, platform, map, rmap, thunks, nextId, requests, allocFails, results>>

-----------------------------------------------------------------------------
(***************************************************************************)
(* The kind dispatchers. Each action runs a handler of the top frame f     *)
(* from one call (or its start) to the next call or to its end.           *)
(***************************************************************************)
Running(pc) == stack # <<>> /\ Top.fn = "resolve" /\ Top.pc = pc

\* What a step that only moves the call stack leaves alone.
CallVars == <<dwarf, platform, depth, map, rmap, thunks, nextId, requests, allocFails,
              answers, results>>

\* Lines 1134-1161: DW_TAG_{const,restrict,volatile,atomic}_type resolve their
\* DW_AT_type (void when absent) with can_be_incomplete_array true and no
\* is_incomplete_array_ret, and add their qualifier.
Qualifier ==
    /\ Running("qualifier")
    /\ CallChild(Top, "qualifier_ret", TRUE)
    /\ UNCHANGED CallVars

QualifierRet ==
    LET f == Top
        q == QualifierOf[Die(f.die).tag]
    IN  /\ Running("qualifier_ret")
        /\ Finish(f, IF f.res.err # "none" THEN f.res
                     ELSE Ok(Qt(f.res.qt.type, f.res.qt.quals \cup {q}), FALSE))
        /\ UNCHANGED <<dwarf, platform, thunks, nextId, requests, results>>

\* drgn_base_type_from_dwarf(), lines 289-303: the encodings that need no
\* further DIE.
SimpleEncodings == {"boolean", "float", "signed", "signed_char", "unsigned",
                    "unsigned_char"}

BaseTypeOf(d) ==
    CASE d.enc = "boolean" -> [kind |-> "bool", name |-> d.name]
      [] d.enc = "float"   -> [kind |-> "float", name |-> d.name]
      [] OTHER -> [kind |-> "int", name |-> d.name,
                   signed |-> d.enc \in {"signed", "signed_char"}]

\* drgn_base_type_from_dwarf(), lines 265-333: DW_AT_name, DW_AT_encoding and
\* DW_AT_byte_size are required; DW_ATE_complex_float resolves its DW_AT_type.
BaseType ==
    LET f == Top
        d == Die(f.die)
    IN  /\ Running("base")
        /\ \/ /\ \/ d.name = NoName \/ ~d.hasSize
                 \/ d.enc \notin SimpleEncodings \cup {"complex_float"}
                 \/ d.enc = "complex_float" /\ DwarfType(f.die) # 0
              /\ Finish(f, Err("other"))
              /\ UNCHANGED <<dwarf, platform, thunks, nextId, requests, results>>
           \/ /\ d.name # NoName /\ d.hasSize /\ d.enc \in SimpleEncodings
              /\ Finish(f, Ok(Qt(BaseTypeOf(d), {}), FALSE))
              /\ UNCHANGED <<dwarf, platform, thunks, nextId, requests, results>>
           \/ /\ d.name # NoName /\ d.hasSize /\ d.enc = "complex_float"
              /\ DwarfType(f.die) = 0
              /\ Call(f, "complex_ret", d.type, TRUE)
              /\ UNCHANGED CallVars

\* Lines 316-327: the real type of a complex type must be float or int.
ComplexRet ==
    LET f == Top
        real == f.res.qt.type
    IN  /\ Running("complex_ret")
        /\ Finish(f, CASE f.res.err # "none" -> f.res
                       [] real.kind \notin {"float", "int"} -> Err("other")
                       [] OTHER -> Ok(Qt([kind |-> "complex",
                                          name |-> Die(f.die).name,
                                          real |-> real], {}), FALSE))
        /\ UNCHANGED <<dwarf, platform, thunks, nextId, requests, results>>

\* Seeded slip: the first definition is taken even when there are several.
DefinitiveMatchFirst(tag, name) ==
    LET e == IndexEntries(tag, name)
    IN  IF Len(e) >= 1 THEN {e[1]} ELSE {}

(***************************************************************************)
(* drgn_dwarf_info_cache_find_complete(), lines 343-377: the complete      *)
(* definition of a declared type, as a set of 0 or 1 DIEs. The index holds *)
(* no declarations; a second match makes the type ambiguous, and both no   *)
(* match and ambiguity are DRGN_ERROR_STOP.                                *)
(***************************************************************************)
DefinitiveMatch(tag, name) ==
    LET e == IndexEntries(tag, name)
    IN  IF Len(e) = 1 THEN {e[1]} ELSE {}

\* The declaration handling shared by drgn_compound_type_from_dwarf() (lines
\* 580-596) and drgn_enum_type_from_dwarf() (lines 735-751): a named
\* declaration with a definitive match becomes that definition, any other
\* declaration an incomplete type made from incomplete.
Declaration(f, incomplete) ==
    LET d == Die(f.die)
    IN  /\ ~DwarfFlagDeclaration(f.die).err /\ DwarfFlagDeclaration(f.die).val
        /\ \/ \E def \in DefinitiveMatch(d.tag, d.name) :
                 /\ d.name # NoName
                 /\ Call(f, "complete_ret", def, TRUE)
                 /\ UNCHANGED CallVars
           \/ /\ d.name = NoName \/ DefinitiveMatch(d.tag, d.name) = {}
              /\ nextId' = nextId + 1
              /\ Finish(f, Ok(Qt(incomplete, {}), FALSE))
              /\ UNCHANGED <<dwarf, platform, thunks, requests, results>>

\* Lines 372-375: the definition's type, without qualifiers.
CompleteRet ==
    LET f == Top
    IN  /\ Running("complete_ret")
        /\ Finish(f, IF f.res.err # "none" THEN f.res
                     ELSE Ok(Qt(f.res.qt.type, {}), FALSE))
        /\ UNCHANGED <<dwarf, platform, thunks, nextId, requests, results>>

\* drgn_compound_type_from_dwarf(), lines 539-604: declarations, then the
\* required DW_AT_byte_size, then the members.
Compound ==
    LET f == Top
        d == Die(f.die)
    IN  /\ Running("compound")
        /\ \/ Declaration(f, [kind |-> CompoundKindOf[d.tag], id |-> nextId,
                              tag |-> d.name, complete |-> FALSE,
                              members |-> <<>>])
           \/ /\ \/ DwarfFlagDeclaration(f.die).err
                 \/ ~DwarfFlagDeclaration(f.die).val /\ ~d.hasSize
              /\ Finish(f, Err("other"))
              /\ UNCHANGED <<dwarf, platform, thunks, nextId, requests, results>>
           \/ /\ DwarfFlagDeclaration(f.die) = [err |-> FALSE, val |-> FALSE]
              /\ d.hasSize
              /\ stack' = SetTop([f EXCEPT !.pc = "member", !.i = 1])
              /\ UNCHANGED CallVars

\* Seeded slip: a struct's only member may be a flexible array.
MemberCanBeIncompleteNoCount(kind, i, n) == i = n /\ kind # "union"

\* Seeded slip: the union exception is forgotten.
MemberCanBeIncompleteAnyKind(kind, i, n) == i = n /\ n > 1

\* Lines 629-637: only the last member of a struct or class with another
\* member may be a flexible array; every other member is parsed with
\* can_be_incomplete_array false.
MemberCanBeIncomplete(kind, i, n) == i = n /\ kind # "union" /\ n > 1

\* A lazy type drgn_lazy_type_from_dwarf() makes (lines 174-203).
Thunk(d, can) == [die |-> d, can |-> can, evaluated |-> FALSE,
                  val |-> Qt(VoidType, {})]

\* Lines 605-623: the loop over the DIE's children keeps the DW_TAG_member
\* ones, in order; the last is held back to be parsed after the loop.
Members(d) == Children(d, "member")

\* Lines 638-650: drgn_compound_type_create() makes the complete type, which
\* takes over the member thunks of the builder.
CompoundCreate(f) ==
    LET d == Die(f.die)
    IN  /\ thunks' = thunks \o f.th
        /\ nextId' = nextId + 1
        /\ Finish(f, Ok(Qt([kind |-> CompoundKindOf[d.tag], id |-> nextId,
                            tag |-> d.name, complete |-> TRUE,
                            members |-> [j \in 1..Len(f.th) |-> Len(thunks) + j]],
                           {}), FALSE))

(***************************************************************************)
(* The member loop of drgn_compound_type_from_dwarf() (lines 605-645) with *)
(* parse_member() (lines 485-537): each member gets a thunk for its        *)
(* DW_AT_type; a legacy little-endian bit field without DW_AT_byte_size    *)
(* evaluates it at once for the type's size (parse_member_offset(), lines  *)
(* 464-475). After the last member the compound type is created and takes *)
(* over the thunks. The malloc of a thunk (line 195) may fail; the builder *)
(* and the thunks made so far are then freed and nothing is memoized.      *)
(***************************************************************************)
Member ==
    LET f == Top
        d == Die(f.die)
        kind == CompoundKindOf[d.tag]
        ms == Members(f.die)
        n == Len(ms)
        m == Die(ms[f.i])
        th == Thunk(m.type, MemberCanBeIncomplete(kind, f.i, n))
    IN  /\ Running("member")
        /\ \/ /\ f.i > n
              /\ CompoundCreate(f)
              /\ UNCHANGED <<dwarf, platform, requests, results>>
           \/ /\ f.i <= n /\ m.type \in {NoDie, BadRef}
              /\ Finish(f, Err("other"))
              /\ UNCHANGED <<dwarf, platform, thunks, nextId, requests, results>>
           \/ /\ f.i <= n /\ m.type \notin {NoDie, BadRef}
              /\ Decode!NeedsTypeSize(m.member, dwarf.little)
              /\ Call([f EXCEPT !.th = Append(f.th, th)], "member_eval_ret",
                      th.die, th.can)
              /\ UNCHANGED CallVars
           \/ /\ f.i <= n /\ m.type \notin {NoDie, BadRef}
              /\ ~Decode!NeedsTypeSize(m.member, dwarf.little)
              /\ stack' = SetTop([f EXCEPT !.th = Append(f.th, th), !.i = f.i + 1])
              /\ UNCHANGED CallVars
           \/ /\ f.i <= n /\ m.type \notin {NoDie, BadRef}
              /\ allocFails < MaxAllocFailures      \* malloc of the thunk, line 195
              /\ FinishAfter(f, Err("nomem"), allocFails + 1)
              /\ UNCHANGED <<dwarf, platform, thunks, nextId, requests, results>>

\* Lines 466-476: the evaluated thunk keeps its type, which must have a size.
MemberEvalRet ==
    LET f == Top
        k == Len(f.th)
    IN  /\ Running("member_eval_ret")
        /\ \/ /\ f.res.err # "none" \/ ~HasSize(f.res.qt.type)
              /\ Finish(f, IF f.res.err # "none" THEN f.res ELSE Err("other"))
              /\ UNCHANGED <<dwarf, platform, thunks, nextId, requests, results>>
           \/ /\ f.res.err = "none" /\ HasSize(f.res.qt.type)
              /\ stack' = SetTop([f EXCEPT !.pc = "member", !.i = f.i + 1,
                                  !.th[k] = [@ EXCEPT !.evaluated = TRUE,
                                                      !.val = f.res.qt]])
              /\ UNCHANGED CallVars

(***************************************************************************)
(* drgn_enum_type_from_dwarf(), lines 715-805, with parse_enumerator()     *)
(* (lines 652-694) and enum_compatible_type_fallback() (lines 700-713):    *)
(* every enumerator needs a name and DW_AT_const_value; a negative signed  *)
(* one makes a fabricated compatible type signed; DW_AT_type, when        *)
(* present, must be an integer type.                                       *)
(***************************************************************************)
EnumSigned(d) ==
    \E j \in 1..Len(Children(d, "enumerator")) :
        LET e == Die(Children(d, "enumerator")[j])
        IN  e.constForm \in {"sdata", "implicit_const"} /\ e.negative

\* parse_enumerator(), lines 656-666: DW_AT_name and DW_AT_const_value.
EnumeratorOK(e) == e.name # NoName /\ e.constForm # "none"

EnumType(d, compat) ==
    [kind |-> "enum", id |-> nextId, tag |-> Die(d).name, complete |-> TRUE,
     compat |-> compat]

Enum ==
    LET f == Top
        d == Die(f.die)
        es == Children(f.die, "enumerator")
    IN  /\ Running("enum")
        /\ \/ Declaration(f, [kind |-> "enum", id |-> nextId, tag |-> d.name,
                              complete |-> FALSE, compat |-> VoidType])
           \/ /\ DwarfFlagDeclaration(f.die).err
              /\ Finish(f, Err("other"))
              /\ UNCHANGED <<dwarf, platform, thunks, nextId, requests, results>>
           \/ /\ DwarfFlagDeclaration(f.die) = [err |-> FALSE, val |-> FALSE]
              /\ \/ \E j \in 1..Len(es) : ~EnumeratorOK(Die(es[j]))
                 \/ DwarfType(f.die) = -1
                 \/ DwarfType(f.die) = 1 /\ ~d.hasSize
              /\ Finish(f, Err("other"))
              /\ UNCHANGED <<dwarf, platform, thunks, nextId, requests, results>>
           \/ /\ DwarfFlagDeclaration(f.die) = [err |-> FALSE, val |-> FALSE]
              /\ \A j \in 1..Len(es) : EnumeratorOK(Die(es[j]))
              /\ \/ /\ DwarfType(f.die) = 0
                    /\ Call(f, "enum_compat_ret", d.type, TRUE)
                    /\ UNCHANGED CallVars
                 \/ /\ DwarfType(f.die) = 1 /\ d.hasSize
                    /\ nextId' = nextId + 1
                    /\ Finish(f, Ok(Qt(EnumType(f.die,
                                         [kind |-> "int", name |-> "<unknown>",
                                          signed |-> EnumSigned(f.die)]),
                                       {}), FALSE))
                    /\ UNCHANGED <<dwarf, platform, thunks, requests, results>>

EnumCompatRet ==
    LET f == Top
    IN  /\ Running("enum_compat_ret")
        /\ \/ /\ f.res.err # "none" \/ f.res.qt.type.kind # "int"
              /\ Finish(f, IF f.res.err # "none" THEN f.res ELSE Err("other"))
              /\ UNCHANGED <<dwarf, platform, thunks, nextId, requests, results>>
           \/ /\ f.res.err = "none" /\ f.res.qt.type.kind = "int"
              /\ nextId' = nextId + 1
              /\ Finish(f, Ok(Qt(EnumType(f.die, f.res.qt.type), {}), FALSE))
              /\ UNCHANGED <<dwarf, platform, thunks, requests, results>>

\* drgn_typedef_type_from_dwarf(), lines 807-834: a typedef needs a name and
\* resolves DW_AT_type with the caller's can_be_incomplete_array, passing on
\* is_incomplete_array_ret.
Typedef ==
    LET f == Top
    IN  /\ Running("typedef")
        /\ \/ /\ Die(f.die).name = NoName
              /\ Finish(f, Err("other"))
              /\ UNCHANGED <<dwarf, platform, thunks, nextId, requests, results>>
           \/ /\ Die(f.die).name # NoName
              /\ CallChild(f, "typedef_ret", f.can)
              /\ UNCHANGED CallVars

TypedefRet ==
    LET f == Top
    IN  /\ Running("typedef_ret")
        /\ Finish(f, IF f.res.err # "none" THEN f.res
                     ELSE Ok(Qt([kind |-> "typedef", name |-> Die(f.die).name,
                                 aliased |-> f.res.qt], {}), f.res.inc))
        /\ UNCHANGED <<dwarf, platform, thunks, nextId, requests, results>>

\* drgn_pointer_type_from_dwarf(), lines 836-869 (the size, DW_AT_byte_size or
\* the word size, is left out of the descriptor).
Pointer ==
    /\ Running("pointer")
    /\ CallChild(Top, "pointer_ret", TRUE)
    /\ UNCHANGED CallVars

\* Lines 851-865: DW_AT_byte_size, else the program's word size, which
\* needs a known platform.
PointerSize(d) ==
    IF Die(d).size # Decode!NoVal THEN [err |-> "none", val |-> Die(d).size]
                                  ELSE Prog!ProgramWordSize

\* Lines 847-868: the referenced type first, then the size.
PointerRet ==
    LET f == Top
        size == PointerSize(f.die)
    IN  /\ Running("pointer_ret")
        /\ Finish(f, CASE f.res.err # "none" -> f.res
                       [] size.err # "none" -> Err(size.err)
                       [] OTHER -> Ok(Qt([kind |-> "pointer", size |-> size.val,
                                         ref |-> f.res.qt], {}), FALSE))
        /\ UNCHANGED <<dwarf, platform, thunks, nextId, requests, results>>

(***************************************************************************)
(* drgn_array_type_from_dwarf(), lines 923-996. The dimensions are read    *)
(* first, outermost first, stopping at the first bad subrange; no subrange *)
(* gives one incomplete dimension. Each dimension is appended to a vector  *)
(* before it is read, and an append that fails jumps to "out" without      *)
(* setting err: after a subrange has been read err is NULL (the last       *)
(* subrange_length() result), before that it is uninitialized, which the  *)
(* build turns into NULL or a stale pointer. On a NULL err the caller      *)
(* memoizes a type *ret was never given.                                   *)
(***************************************************************************)
Dimensions(d) == [j \in 1..Len(Children(d, "subrange_type")) |->
                     Decode!SubrangeLength(Die(Children(d, "subrange_type")[j]).sub)]

\* The first subrange that fails to decode, as a set of 0 or 1 indices.
BadDimension(d) ==
    LET ds == Dimensions(d)
    IN  {j \in 1..Len(ds) : ds[j].err # "none" /\ \A k \in 1..(j - 1) : ds[k].err = "none"}

\* The vector appends drgn_array_type_from_dwarf() makes before it stops.
Appends(d) ==
    IF BadDimension(d) # {} THEN CHOOSE j \in BadDimension(d) : TRUE
    ELSE IF Len(Dimensions(d)) = 0 THEN 1 ELSE Len(Dimensions(d))

\* The err a failed k-th append leaves.
AppendFailureErr(k) == IF k >= 2 THEN {"none"} ELSE {"none", "stale"}

(***************************************************************************)
(* Lines 966-989: fold the dimensions from the innermost out; only an      *)
(* incomplete outermost dimension of an array that may be incomplete stays *)
(* incomplete, every other incomplete dimension gets length 0.             *)
(***************************************************************************)
ArrayOf(dims, elem, can) ==
    LET RECURSIVE Fold(_, _)
        Fold(j, qt) ==
            IF j = 0 THEN qt
            ELSE Fold(j - 1, Qt(IF dims[j].complete
                                   THEN [kind |-> "array", complete |-> TRUE,
                                         len |-> dims[j].len, elem |-> qt]
                                ELSE IF j > 1 \/ ~can
                                   THEN [kind |-> "array", complete |-> TRUE,
                                         len |-> 0, elem |-> qt]
                                ELSE [kind |-> "array", complete |-> FALSE,
                                      len |-> 0, elem |-> qt], {}))
    IN  Fold(Len(dims), elem).type

Array ==
    LET f == Top
        d == Die(f.die)
        ds == Dimensions(f.die)
        dims == IF ds = <<>> THEN <<[err |-> "none", complete |-> FALSE, len |-> 0]>>
                ELSE ds
    IN  /\ Running("array")
        /\ \/ /\ \E j \in BadDimension(f.die) : Finish(f, Err(ds[j].err))
              /\ UNCHANGED <<dwarf, platform, thunks, nextId, requests, results>>
           \/ /\ BadDimension(f.die) = {} /\ d.type \in {NoDie, BadRef}
              /\ Finish(f, Err("other"))
              /\ UNCHANGED <<dwarf, platform, thunks, nextId, requests, results>>
           \/ /\ BadDimension(f.die) = {} /\ d.type \notin {NoDie, BadRef}
              /\ Call([f EXCEPT !.dims = dims], "array_ret", d.type, FALSE)
              /\ UNCHANGED CallVars
           \/ /\ allocFails < MaxAllocFailures
              /\ \E k \in 1..Appends(f.die) : \E e \in AppendFailureErr(k) :
                    FinishAfter(f, IF e = "none" THEN Ok(Qt(Garbage, {}), FALSE)
                                   ELSE Err(e), allocFails + 1)
              /\ UNCHANGED <<dwarf, platform, thunks, nextId, requests, results>>

ArrayRet ==
    LET f == Top
    IN  /\ Running("array_ret")
        /\ Finish(f, IF f.res.err # "none" THEN f.res
                     ELSE Ok(Qt(ArrayOf(f.dims, f.res.qt, f.can), {}),
                             ~f.dims[1].complete))
        /\ UNCHANGED <<dwarf, platform, thunks, nextId, requests, results>>

(***************************************************************************)
(* The child loop of drgn_function_type_from_dwarf() (lines 1040-1074)     *)
(* with parse_formal_parameter() (lines 998-1026): a thunk per parameter,  *)
(* DW_TAG_unspecified_parameters once and last. Any parameter's thunk      *)
(* malloc may fail before the loop's end.                                  *)
(***************************************************************************)
ParameterList(d) ==
    LET cs == Die(d).children
        RECURSIVE Scan(_, _)
        Scan(j, acc) ==
            IF j > Len(cs) \/ acc.err # "none" THEN acc
            ELSE LET c == Die(cs[j]) IN
                 Scan(j + 1,
                      CASE c.tag = "formal_parameter" /\ acc.variadic
                             -> [acc EXCEPT !.err = "other"]
                        [] c.tag = "formal_parameter" /\ c.type \in {NoDie, BadRef}
                             -> [acc EXCEPT !.err = "other"]
                        [] c.tag = "formal_parameter"
                             -> [acc EXCEPT !.th = Append(@, Thunk(c.type, TRUE))]
                        [] c.tag = "unspecified_parameters" /\ acc.variadic
                             -> [acc EXCEPT !.err = "other"]
                        [] c.tag = "unspecified_parameters"
                             -> [acc EXCEPT !.variadic = TRUE]
                        [] OTHER -> acc)
    IN  Scan(1, [err |-> "none", th |-> <<>>, variadic |-> FALSE])

Function ==
    LET f == Top
        p == ParameterList(f.die)
    IN  /\ Running("function")
        /\ \/ /\ p.err # "none"
              /\ Finish(f, Err(p.err))
              /\ UNCHANGED <<dwarf, platform, thunks, nextId, requests, results>>
           \/ /\ p.err = "none"
              /\ CallChild([f EXCEPT !.th = p.th, !.variadic = p.variadic],
                           "function_ret", TRUE)
              /\ UNCHANGED CallVars
           \/ /\ Len(p.th) > 0 /\ allocFails < MaxAllocFailures  \* a parameter's thunk
              /\ FinishAfter(f, Err("nomem"), allocFails + 1)
              /\ UNCHANGED <<dwarf, platform, thunks, nextId, requests, results>>

\* Lines 1076-1088: the return type, then the function type takes the thunks.
FunctionRet ==
    LET f == Top
    IN  /\ Running("function_ret")
        /\ \/ /\ f.res.err # "none"
              /\ Finish(f, f.res)
              /\ UNCHANGED <<dwarf, platform, thunks, nextId, requests, results>>
           \/ /\ f.res.err = "none"
              /\ thunks' = thunks \o f.th
              /\ nextId' = nextId + 1
              /\ Finish(f, Ok(Qt([kind |-> "function", id |-> nextId,
                                  ret |-> f.res.qt, variadic |-> f.variadic,
                                  params |-> [j \in 1..Len(f.th) |-> Len(thunks) + j]],
                                 {}), FALSE))
              /\ UNCHANGED <<dwarf, platform, requests, results>>

\* Lines 1204-1208: any other tag.
UnknownTag ==
    /\ Running("unknown")
    /\ Finish(Top, Err("other"))
    /\ UNCHANGED <<dwarf, platform, thunks, nextId, requests, results>>

-----------------------------------------------------------------------------
(***************************************************************************)
(* The API: drgn_dwarf_type_find() and the evaluation of a member or       *)
(* parameter type by drgn_lazy_type_evaluate(). The client calls one at a  *)
(* time (the cache is single-threaded) whenever no call is running.        *)
(***************************************************************************)

\* What a step of an API call's own frame leaves alone besides results.
ApiVars == <<dwarf, platform, depth, map, rmap, thunks, nextId, requests, allocFails,
             answers>>

\* The call of the bottom frame f returns out to the client.
Respond(f, out) ==
    /\ stack' = <<>>
    /\ results' = results \cup {[req |-> f.req, out |-> out]}

\* What drgn_dwarf_type_find() hands back: the error and *ret; it resolves
\* through drgn_type_from_dwarf(), which passes no is_incomplete_array_ret
\* (line 155).
TypeOutcome(r) == [err |-> r.err, qt |-> r.qt]

\* drgn_dwarf_type_find(), lines 1229-1266: look up the tag of the kind.
FindType(kind, name, file) ==
    /\ stack = <<>> /\ requests < MaxRequests
    /\ stack' = <<[Frame("find_type", NoDie, TRUE) EXCEPT
                     !.pc = "next", !.kind = kind, !.name = name, !.file = file,
                     !.req = <<"type", kind, name, file>>,
                     !.cands = IndexEntries(FindTag[kind], name)]>>
    /\ requests' = requests + 1
    /\ UNCHANGED <<dwarf, platform, depth, map, rmap, thunks, nextId, allocFails, answers,
                   results>>

\* Lines 1267-1269, 1280-1282: resolve the next DIE of the file, skip one of
\* another file, or report not found when the index is exhausted.
FindTypeNext ==
    LET f == Top
    IN  /\ stack # <<>> /\ f.fn = "find_type" /\ f.pc = "next"
        /\ \/ /\ f.i <= Len(f.cands) /\ FileMatches(f.cands[f.i], f.file)
              /\ Call(f, "ret", f.cands[f.i], TRUE)
              /\ UNCHANGED results
           \/ /\ f.i <= Len(f.cands) /\ ~FileMatches(f.cands[f.i], f.file)
              /\ stack' = SetTop([f EXCEPT !.i = f.i + 1])
              /\ UNCHANGED results
           \/ /\ f.i > Len(f.cands)
              /\ Respond(f, TypeOutcome(Err("not_found")))
        /\ UNCHANGED ApiVars

\* Seeded slip: the index iterator is not advanced.
FindTypeAdvanceStuck(f) == [f EXCEPT !.pc = "next"]

\* Lines 1276-1278: a DW_TAG_base_type may be of another kind; try the next.
FindTypeAdvance(f) == [f EXCEPT !.pc = "next", !.i = f.i + 1]

\* Lines 1276-1278: the resolved type is of the kind asked for.
KindAccepted(f) == f.res.qt.type.kind = f.kind

\* Lines 1270-1278: an error or a type of the kind ends the call.
FindTypeRet ==
    LET f == Top
    IN  /\ stack # <<>> /\ f.fn = "find_type" /\ f.pc = "ret"
        /\ IF f.res.err # "none" \/ KindAccepted(f)
              THEN Respond(f, TypeOutcome(f.res))
              ELSE stack' = SetTop(FindTypeAdvance(f)) /\ UNCHANGED results
        /\ UNCHANGED ApiVars

(***************************************************************************)
(* drgn_dwarf_object_find(), lines 1428-1472: the first DIE of the file    *)
(* the index yields for the flags is the answer, whatever it resolves to.  *)
(***************************************************************************)
FindObject(flags, name, file) ==
    /\ stack = <<>> /\ requests < MaxRequests
    /\ stack' = <<[Frame("find_object", NoDie, TRUE) EXCEPT
                     !.pc = "next", !.name = name, !.file = file,
                     !.req = <<"object", flags, name, file>>,
                     !.cands = ObjectIndexEntries(flags, name)]>>
    /\ requests' = requests + 1
    /\ UNCHANGED <<dwarf, platform, depth, map, rmap, thunks, nextId, allocFails, answers,
                   results>>

\* Lines 1451-1468: dispatch on the tag of the DIE; drgn_object_from_dwarf_
\* enumerator() and _subprogram() resolve it with drgn_type_from_dwarf(),
\* _variable() its DW_AT_type with drgn_type_from_dwarf_child().
FindObjectNext ==
    LET f == Top
        d == f.cands[f.i]
    IN  /\ stack # <<>> /\ f.fn = "find_object" /\ f.pc = "next"
        /\ \/ /\ f.i <= Len(f.cands) /\ FileMatches(d, f.file)
              /\ CASE Die(d).tag = "enumeration_type" -> Call(f, "enumerator_ret", d, TRUE)
                   [] Die(d).tag = "subprogram" -> Call(f, "subprogram_ret", d, TRUE)
                   [] OTHER -> CallChild([f EXCEPT !.die = d], "variable_ret", TRUE)
              /\ UNCHANGED results
           \/ /\ f.i <= Len(f.cands) /\ ~FileMatches(d, f.file)
              /\ stack' = SetTop([f EXCEPT !.i = f.i + 1])
              /\ UNCHANGED results
           \/ /\ f.i > Len(f.cands)
              /\ Respond(f, Err("not_found"))
        /\ UNCHANGED ApiVars

\* An object that refers to memory (drgn_object_set_reference()).
Reference(f, d, addr, little) ==
    [err |-> "none", kind |-> "reference", die |-> d, qt |-> f.res.qt,
     addr |-> Decode!Wrap(addr + dwarf.bias), little |-> little]

\* An object with a value (drgn_object_set_{signed,unsigned,buffer}...()).
Value(f, d, enc, little) ==
    [err |-> "none", kind |-> "value", die |-> d, qt |-> f.res.qt, enc |-> enc,
     little |-> little]

\* Lines 1285-1314: the enumeration type's signedness decides the value's.
EnumeratorRet ==
    LET f == Top
        d == f.cands[f.i]
    IN  /\ stack # <<>> /\ f.fn = "find_object" /\ f.pc = "enumerator_ret"
        /\ Respond(f, IF f.res.err # "none" THEN f.res
                      ELSE Value(f, d, IF f.res.qt.type.compat.signed
                                       THEN "signed" ELSE "unsigned", FALSE))
        /\ UNCHANGED ApiVars

\* Seeded slip: a function's DW_AT_endianity is consulted.
SubprogramByteOrderChecked(d) == Decode!DieIsLittleEndian(Die(d).endianity, TRUE, dwarf.little)

\* Lines 1332-1333: dwarf_die_byte_order(die, false, ...), the ELF file's
\* byte order (DW_AT_endianity is not consulted, so it cannot fail).
SubprogramByteOrder(d) == Decode!DieIsLittleEndian(Die(d).endianity, FALSE, dwarf.little)

\* Lines 1316-1336: a function needs DW_AT_low_pc; its address is low_pc
\* plus the bias.
SubprogramRet ==
    LET f == Top
        d == f.cands[f.i]
    IN  /\ stack # <<>> /\ f.fn = "find_object" /\ f.pc = "subprogram_ret"
        /\ Respond(f, CASE f.res.err # "none" -> f.res
                        [] Die(d).lowPc = Decode!NoVal -> Err("lookup")
                        [] OTHER -> Reference(f, d, Die(d).lowPc,
                                              SubprogramByteOrder(d).little))
        /\ UNCHANGED ApiVars

\* drgn_object_set_common() (object.c): the storage a value of type t has,
\* "none" for a type no object can have.
RECURSIVE ObjectKindOf(_)
ObjectKindOf(t) ==
    CASE t.kind = "typedef" -> ObjectKindOf(t.aliased.type)
      [] t.kind = "int" -> IF t.signed THEN "signed" ELSE "unsigned"
      [] t.kind = "enum" /\ t.complete -> IF t.compat.signed THEN "signed" ELSE "unsigned"
      [] t.kind \in {"bool", "pointer"} -> "unsigned"
      [] t.kind = "float" -> "float"
      [] t.kind \in {"struct", "union", "class", "array"} /\ t.complete -> "buffer"
      [] OTHER -> "none"

(***************************************************************************)
(* drgn_object_from_dwarf_variable() (lines 1387-1426) and _constant()     *)
(* (lines 1338-1385): a DW_OP_addr location is a reference in the byte     *)
(* order DW_AT_endianity or the ELF file gives; else DW_AT_const_value is  *)
(* decoded, a block in that byte order and large enough for the type,      *)
(* data as the type's signed or unsigned storage.                          *)
(***************************************************************************)
VariableRet ==
    LET f == Top
        d == Die(f.die)
        order == Decode!DieIsLittleEndian(d.endianity, TRUE, dwarf.little)
        kind == ObjectKindOf(f.res.qt.type)
    IN  /\ stack # <<>> /\ f.fn = "find_object" /\ f.pc = "variable_ret"
        /\ Respond(f,
             CASE f.res.err # "none" -> f.res
               [] d.locOp = "other" -> Err("other")
               [] d.locOp = "addr" /\ order.err # "none" -> Err(order.err)
               [] d.locOp = "addr" -> Reference(f, f.die, d.addr, order.little)
               [] d.varConst = "none" -> Err("lookup")
               [] kind = "none" -> Err("type")
               [] d.varConst = "block" /\ order.err # "none" -> Err(order.err)
               [] d.varConst = "block" /\ d.blockShort -> Err("other")
               [] d.varConst = "block" -> Value(f, f.die, "buffer", order.little)
               [] kind \in {"signed", "unsigned"} -> Value(f, f.die, kind, FALSE)
               [] OTHER -> Err("other"))
        /\ UNCHANGED ApiVars

\* drgn_lazy_type_evaluate() on a thunk: drgn_type_from_dwarf_thunk_evaluate_fn()
\* (lines 158-167) resolves its DIE with its can_be_incomplete_array.
EvaluateThunk(t) ==
    /\ stack = <<>> /\ requests < MaxRequests
    /\ ~thunks[t].evaluated
    /\ stack' = <<[Frame("thunk", NoDie, TRUE) EXCEPT !.pc = "ret", !.t = t],
                  Frame("resolve", thunks[t].die, thunks[t].can)>>
    /\ requests' = requests + 1
    /\ UNCHANGED <<dwarf, platform, depth, map, rmap, thunks, nextId, allocFails, answers,
                   results>>

\* A thunk that evaluated keeps its type; one that failed can be retried.
ThunkRet ==
    LET f == Top
    IN  /\ stack # <<>> /\ f.fn = "thunk" /\ f.pc = "ret"
        /\ IF f.res.err = "none"
              THEN thunks' = [thunks EXCEPT ![f.t] = [@ EXCEPT !.evaluated = TRUE,
                                                              !.val = f.res.qt]]
              ELSE UNCHANGED thunks
        /\ stack' = <<>>
        /\ UNCHANGED <<dwarf, platform, depth, map, rmap, nextId, requests, allocFails, answers,
                       results>>

\* The program learns its platform (drgn_program_set_platform()), between
\* two calls into the cache.
PlatformSet(fl) ==
    /\ stack = <<>>
    /\ Prog!SetPlatform(fl)
    /\ UNCHANGED <<dwarf, stack, depth, map, rmap, thunks, nextId, requests,
                   allocFails, answers, results>>

\* The client has made all the calls the bound allows.
Done ==
    /\ stack = <<>> /\ requests = MaxRequests
    /\ UNCHANGED vars

-----------------------------------------------------------------------------
Init ==
    /\ dwarf \in Images
    /\ stack = <<>>
    /\ depth = 0
    /\ map = [d \in {} |-> [qt |-> Qt(VoidType, {}), inc |-> FALSE]]
    /\ rmap = map
    /\ thunks = <<>>
    /\ nextId = 1
    /\ requests = 0
    /\ allocFails = 0
    /\ answers = {}
    /\ results = {}
    /\ Prog!Init

\* A step of the running call.
Execute ==
    \/ ResolveEntry
    \/ Qualifier \/ QualifierRet
    \/ BaseType \/ ComplexRet
    \/ Compound \/ CompleteRet \/ Member \/ MemberEvalRet
    \/ Enum \/ EnumCompatRet
    \/ Typedef \/ TypedefRet
    \/ Pointer \/ PointerRet
    \/ Array \/ ArrayRet
    \/ Function \/ FunctionRet
    \/ UnknownTag
    \/ FindTypeNext \/ FindTypeRet \/ ThunkRet
    \/ FindObjectNext \/ EnumeratorRet \/ SubprogramRet \/ VariableRet

\* A call the client makes.
Client ==
    \/ \E r \in FindRequests : FindType(r[1], r[2], r[3])
    \/ \E r \in ObjectRequests : FindObject(r[1], r[2], r[3])
    \/ \E t \in DOMAIN thunks : EvaluateThunk(t)
    \/ \E fl \in Platforms : PlatformSet(fl)

Next == Execute \/ Client \/ Done

\* The running call is never preempted and never blocks, so it keeps
\* executing; the client is under no obligation to call.
Spec == Init /\ [][Next]_vars /\ WF_vars(Execute)

-----------------------------------------------------------------------------
(***************************************************************************)
(* Properties.                                                             *)
(***************************************************************************)
\* The type invariant.
TypeOK ==
    /\ depth \in 0..MaxDepth
    /\ \A j \in 1..Len(stack) : stack[j].fn \in {"resolve", "find_type", "find_object", "thunk"}
    /\ DOMAIN map \subseteq Dies /\ DOMAIN rmap \subseteq Dies
    /\ \A t \in 1..Len(thunks) : thunks[t].die \in Dies /\ thunks[t].can \in BOOLEAN
    /\ nextId \in Nat /\ requests \in 0..MaxRequests
    /\ allocFails \in 0..MaxAllocFailures

\* Whether t is an incomplete array type or a typedef of one (I4 treats a
\* typedef of an incomplete array as one).
RECURSIVE IsIncompleteArray(_)
IsIncompleteArray(t) ==
    \/ t.kind = "array" /\ ~t.complete
    \/ t.kind = "typedef" /\ IsIncompleteArray(t.aliased.type)

(***************************************************************************)
(* I1, memo consistency: within the cache's lifetime a DIE resolves to the *)
(* same qualified type every time it is resolved with the same             *)
(* can_be_incomplete_array, whatever was resolved in between; it is what   *)
(* the two maps and the order of their search and insertion in             *)
(* drgn_type_from_dwarf_internal() are for.                                *)
(***************************************************************************)
MemoConsistent ==
    \A a, b \in answers : a.die = b.die /\ a.can = b.can => a.qt = b.qt

(***************************************************************************)
(* I4, incomplete-array placement: an incomplete array is never the type  *)
(* of a union member, of a struct or class member other than the last of  *)
(* several, nor the element type of an array: whichever path               *)
(* (member thunk, typedef, array element) led to it, the zero-length      *)
(* workaround of drgn_type_from_dwarf_internal() must have given it        *)
(* length 0.                                                               *)
(***************************************************************************)
IncompleteArrayPlacement ==
    \A a \in answers :
        LET t == a.qt.type IN
        /\ t.kind \in {"struct", "union", "class"} /\ t.complete =>
              \A j \in 1..Len(t.members) :
                  LET th == thunks[t.members[j]] IN
                  (th.evaluated /\ ~(t.kind # "union" /\ j = Len(t.members) /\ j > 1))
                      => ~IsIncompleteArray(th.val.type)
        /\ t.kind = "array" => ~IsIncompleteArray(t.elem.type)

(***************************************************************************)
(* C7, declarations: a named declaration of a struct, union, class or enum *)
(* resolves to the very descriptor of its definition when the index holds *)
(* exactly one, and to an incomplete type when it holds none or several   *)
(* (drgn_dwarf_info_cache_find_complete() must not guess).                *)
(***************************************************************************)
Definitions(d) ==
    {e \in Dies : Die(e).tag = Die(d).tag /\ Die(e).name = Die(d).name
                  /\ ~Die(e).decl}

DeclarationsResolved ==
    \A a \in answers :
        LET d == Die(a.die) IN
        d.decl /\ d.name # NoName
          /\ d.tag \in DOMAIN CompoundKindOf \cup {"enumeration_type"} =>
            IF Cardinality(Definitions(a.die)) = 1
               THEN \E b \in answers : b.die \in Definitions(a.die) /\ b.qt.type = a.qt.type
               ELSE a.qt.type.kind # "indeterminate" => ~a.qt.type.complete

(***************************************************************************)
(* I2, depth bound: however the DIEs nest or cycle, no more than MaxDepth  *)
(* resolutions are in progress at once, and dicache->depth counts exactly *)
(* the ones in progress, on every return path.                            *)
(***************************************************************************)
DepthBound ==
    LET active == {j \in 1..Len(stack) : stack[j].fn = "resolve" /\ stack[j].pc # "entry"}
    IN  depth = Cardinality(active) /\ depth <= MaxDepth

(***************************************************************************)
(* A resolution that succeeds returns a type the factory made: never an   *)
(* indeterminate *ret that no handler assigned.                           *)
(***************************************************************************)
NoIndeterminateType ==
    \A a \in answers : a.qt.type.kind # "indeterminate"

(***************************************************************************)
(* Every API call returns: drgn_dwarf_type_find() and a thunk evaluation   *)
(* finish, cycles in the DWARF included.                                  *)
(***************************************************************************)
RequestsComplete == stack # <<>> ~> stack = <<>>


(***************************************************************************)
(* C9, first match: drgn_dwarf_type_find(kind, name, file) answers with    *)
(* the type of the first DIE, in index order, that has the kind's tag and  *)
(* the name, is not a declaration, is of the file when one is given, and   *)
(* resolves to the kind asked for (one tag serves int, bool and float);    *)
(* it reports not found only when every such DIE resolved to another kind. *)
(* The candidates are computed from the image, not from the index model.   *)
(***************************************************************************)
TypeCandidates(kind, name, file) ==
    {d \in Dies : Die(d).tag = FindTag[kind] /\ Die(d).name = name
                  /\ ~Die(d).decl /\ (file = NoFile \/ Die(d).file = file)}

ResolvedToOtherKind(d, kind) == \E a \in answers : a.die = d /\ a.qt.type.kind # kind

TypeLookupFirstMatch ==
    \A r \in results : r.req[1] = "type" =>
        LET kind == r.req[2]
            C == TypeCandidates(kind, r.req[3], r.req[4])
        IN  /\ r.out.err = "not_found" => \A d \in C : ResolvedToOtherKind(d, kind)
            /\ r.out.err = "none" =>
                  \E d \in C : /\ r.out.qt.type.kind = kind
                               /\ \E a \in answers : a.die = d /\ a.qt = r.out.qt
                               /\ \A e \in C : e < d => ResolvedToOtherKind(e, kind)

(***************************************************************************)
(* C10, object lookup: drgn_dwarf_object_find(flags, name, file) answers   *)
(* from the first DIE, in index order, of a tag the flags select (an       *)
(* enumeration holding an enumerator of the name for a constant), with the *)
(* name, not a declaration and of the file, and reports not found only    *)
(* when there is none. A reference lies at the DIE's DW_OP_addr operand    *)
(* or DW_AT_low_pc plus the load bias, in uint64_t arithmetic, and has the *)
(* byte order DW_AT_endianity gives a variable and the ELF file a          *)
(* function.                                                               *)
(***************************************************************************)
ObjectCandidates(flags, name, file) ==
    {d \in Dies :
        /\ ~Die(d).decl /\ (file = NoFile \/ Die(d).file = file)
        /\ \/ /\ "constant" \in flags /\ Die(d).tag = "enumeration_type"
              /\ \E j \in DOMAIN Die(d).children :
                    Die(Die(d).children[j]).tag = "enumerator"
                    /\ Die(Die(d).children[j]).name = name
           \/ "function" \in flags /\ Die(d).tag = "subprogram" /\ Die(d).name = name
           \/ "variable" \in flags /\ Die(d).tag = "variable" /\ Die(d).name = name}

\* DW_END_big = 1 and DW_END_little = 2 of DW_AT_endianity.
ExpectedLittle(d) ==
    IF Die(d).tag = "variable" /\ Die(d).endianity \in {1, 2}
       THEN Die(d).endianity = 2 ELSE dwarf.little

ExpectedAddress(d) ==
    ((IF Die(d).tag = "subprogram" THEN Die(d).lowPc ELSE Die(d).addr) + dwarf.bias)
        % 2^Width

ObjectLookupCorrect ==
    \A r \in results : r.req[1] = "object" =>
        LET C == ObjectCandidates(r.req[2], r.req[3], r.req[4])
        IN  /\ (r.out.err = "not_found") = (C = {})
            /\ r.out.err = "none" =>
                  /\ r.out.die = Min(C)
                  /\ r.out.kind = "reference" =>
                        /\ r.out.addr = ExpectedAddress(r.out.die)
                        /\ r.out.little = ExpectedLittle(r.out.die)


(***************************************************************************)
(* Refinement: the cache implements TypeMemo, its answers and results      *)
(* being TypeMemo's and an API call running while the stack is not empty.  *)
(* Besides memo consistency this says that answers and results are only    *)
(* added while a call runs, that a call which succeeds again returns what  *)
(* it returned before (the maps must keep every descriptor they handed    *)
(* out), and that a running call returns.                                  *)
(***************************************************************************)
Memo == INSTANCE TypeMemo WITH answered <- answers, responses <- results,
                               busy <- stack # <<>>

MemoSpec == Memo!Spec

\* The same without the obligation to return, for the larger state spaces.
MemoSafety == Memo!SafetySpec


(***************************************************************************)
(* Pointer size: a pointer type without DW_AT_byte_size has the word size  *)
(* of the program's platform, 8 bytes when DRGN_PLATFORM_IS_64_BIT is set  *)
(* and 4 otherwise, also when a call made before the program knew its     *)
(* platform resolved it: drgn_pointer_type_from_dwarf() reads              *)
(* drgn_program_word_size() when it runs, and what it returns is memoized. *)
(***************************************************************************)
PointerSizeAgrees ==
    \A a \in answers :
        a.qt.type.kind = "pointer" /\ Die(a.die).size = Decode!NoVal =>
            /\ platform.known
            /\ a.qt.type.size = IF (platform.flags \div IS_64_BIT) % 2 = 1 THEN 8 ELSE 4


(***************************************************************************)
(* C1, malformed attributes are reported: a DIE whose handler reads a      *)
(* DW_AT_type that is not a reference (of its own, of a member or of a    *)
(* parameter) or a DW_AT_declaration that is not a flag never resolves,   *)
(* nor does a DIE whose handler resolves such a DIE through DW_AT_type,   *)
(* and no object is made of one. dwarf_type(), dwarf_flag() and            *)
(* drgn_type_from_dwarf_child() must keep an invalid form apart from a    *)
(* missing attribute, which has a meaning of its own (void, false, a      *)
(* fabricated compatible type), and every handler must pass the error on. *)
(***************************************************************************)
ResolvesTypeEagerly(d) ==
    LET x == Die(d) IN
    \/ x.tag \in DOMAIN QualifierOf
           \cup {"typedef", "pointer_type", "array_type", "subroutine_type", "subprogram"}
    \/ x.tag = "enumeration_type" /\ ~x.decl
    \/ x.tag = "base_type" /\ x.enc = "complex_float"

HasBadChild(d, tag) == \E j \in DOMAIN Die(d).children :
                          Die(Die(d).children[j]).tag = tag
                          /\ Die(Die(d).children[j]).type = BadRef

Malformed(d) ==
    LET x == Die(d) IN
    \/ ResolvesTypeEagerly(d) /\ x.type = BadRef
    \/ x.tag \in DOMAIN CompoundKindOf \cup {"enumeration_type"} /\ x.declInvalid
    \/ x.tag \in DOMAIN CompoundKindOf /\ ~x.decl /\ HasBadChild(d, "member")
    \/ x.tag \in {"subroutine_type", "subprogram"} /\ HasBadChild(d, "formal_parameter")

RECURSIVE BuiltOnMalformed(_, _)
BuiltOnMalformed(d, n) ==
    /\ n > 0
    /\ \/ Malformed(d)
       \/ /\ ResolvesTypeEagerly(d) /\ Die(d).type \in Dies
          /\ BuiltOnMalformed(Die(d).type, n - 1)

MalformedRejected ==
    LET N == Cardinality(Dies) IN
    /\ \A a \in answers : ~BuiltOnMalformed(a.die, N)
    /\ \A r \in results :
          r.req[1] = "object" /\ r.out.err = "none"
          /\ Die(r.out.die).tag \in {"variable", "subprogram"} =>
              LET x == Die(r.out.die) IN
              /\ x.type # BadRef
              /\ x.type \in Dies => ~BuiltOnMalformed(x.type, N)
              /\ x.tag = "subprogram" => ~BuiltOnMalformed(r.out.die, N)

=============================================================================
