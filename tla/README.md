# TLA+ models of drgn's DWARF type materializer

These modules model `src/libdrgn/dwarf_info_cache.c`, the code that turns
DWARF debugging information entries (DIEs) into drgn type descriptors and
memoizes them, and the two lookups built on it: types by name and objects
(enumerators, functions, variables) by name. `src/libdrgn/program.h` only
declares the program object that owns the cache, and is not modelled (see
below).

## 1. Inventory

### Components (numbering of spec.md §2)

| # | Component | Code | Module | Status |
|---|---|---|---|---|
| C1 | DIE attribute facade | `dwarf_type`, `dwarf_flag` (85-105), the `DW_AT_type` checks of `drgn_type_from_dwarf_child` and `drgn_lazy_type_from_dwarf` | `DwarfTypeCache` | partly: missing versus invalid `DW_AT_type` and `DW_AT_declaration`; `dwarf_attr_integrate` is libdw |
| C2 | Endianness resolver | `dwarf_die_is_little_endian`, `dwarf_die_byte_order` (35-83) | `DwarfDecode`, `DwarfTypeCache` | modelled |
| C3 | Dimension decoder | `subrange_length` (878-921) | `DwarfDecode`, `MCSubrange` | modelled |
| C4 | Member-offset decoder | `parse_member_offset` (379-483) | `DwarfDecode`, `MCMemberOffset` | modelled |
| C5 | Lazy type thunk | `drgn_lazy_type_from_dwarf`, `..._thunk_evaluate_fn` (158-203), its `malloc` failure | `DwarfTypeCache` | modelled |
| C6 | Kind dispatchers | `drgn_*_type_from_dwarf` (265-1093) | `DwarfTypeCache` | modelled |
| C7 | Incomplete-type resolver | `drgn_dwarf_info_cache_find_complete` (343-377) | `DwarfTypeCache` | modelled |
| C8 | Memoization core | `drgn_type_from_dwarf_internal` (1095-1227) | `DwarfTypeCache` | modelled |
| C9 | Type finder | `drgn_dwarf_type_find` (1229-1283) | `DwarfTypeCache` | modelled |
| C10 | Object finder | `drgn_dwarf_object_find` and its paths (1285-1472) | `DwarfTypeCache` | modelled |
| — | Program platform | `drgn_program_init`, `_set_platform`, `_is_64_bit` (program.h 141-209) | `Program`, `DwarfTypeCache` | partly: the platform flags and word size |
| — | Abstract memo | what the cache promises its clients | `TypeMemo` | abstract spec, refined by `DwarfTypeCache` |

### State
- The cache (`struct drgn_dwarf_info_cache`) has:
  - `map`, the primary map from a DIE to `{type, qualifiers, is_incomplete_array}`;
  - `cant_be_incomplete_array_map`, the restricted map with the same entries;
  - `depth`, the recursion depth.
- The created type descriptors.
- The lazy member and parameter types (thunks) held by compound and function types.

### Operations
- The client calls `drgn_dwarf_type_find(kind, name, filename)`, `drgn_dwarf_object_find(name, filename, flags)` or `drgn_lazy_type_evaluate` on a thunk.
- Both enter `drgn_type_from_dwarf_internal(die, can_be_incomplete_array, is_incomplete_array_ret)`.
- That function recurses through the dispatchers.
- Compound and function types do not resolve their members or parameters. They store thunks, and each thunk re-enters the core when it is evaluated.

### The hard behaviours
1. **Two maps keyed by one flag.** The flag is `can_be_incomplete_array`, and the result goes into the map that `(can, is_incomplete_array)` selects. A DIE can be resolved with either flag, in any order, through thunks evaluated whenever the client likes.
2. **The flag is not always propagated.**
   - Typedefs pass it through.
   - Qualifiers reset it.
   - Array elements and non-last members clear it.
   - A cache hit returns without reporting `is_incomplete_array`.
3. **Cycles and depth.** Cycles such as `struct s { struct s *next; }` or `typedef loop *loop` are broken only by thunks and by the depth guard.
4. **Ambiguous declarations.** A declaration is resolved through the name index, and it must not guess when the index holds more than one definition.
5. **Allocation failures.** Map insertion, dimension appends and thunk `malloc` can fail in the middle of a resolution.
6. **Width-64 arithmetic.** Subrange lengths, legacy bit offsets and relocated addresses are computed in 64-bit unsigned arithmetic.
7. **First match.** Both finders walk the name index in order, skip DIEs of other files, and answer from the first DIE left. The type finder also skips base types of another kind, after resolving them. The object finder answers with whatever the first DIE resolves to, an error included.
8. **Byte order.** A variable's byte order honours `DW_AT_endianity`, and an unknown value is an error. A function's ignores it.

### Properties per component
- **C3:** `SubrangeMeaning`.
- **C4:** `BitFieldEncodingsAgree`.
- **C5, C6, C8:**
  - `MemoSpec`/`MemoSafety`, the refinement of `TypeMemo` (spec I1 and more);
  - `IncompleteArrayPlacement` (spec I4);
  - `DepthBound` (spec I2);
  - `NoIndeterminateType`.
- **C7:** `DeclarationsResolved`.
- **C9:** `TypeLookupFirstMatch`, `RequestsComplete`.
- **C2, C10:** `ObjectLookupCorrect`.

I3 (qualifiers only add bits) and I5 (an enum's compatible type is an integer) hold because of the shape of the handlers, so no run checks them.

## 2. Plan
1. First sitting: `DwarfDecode` (the pure decoders), `DwarfTypeCache` (C5-C9 over an explicit call stack), `MCDwarfTypeCache` (the DWARF images), and the runs of the cache.
2. Second sitting:
   - thunk `malloc` failures;
   - the filename filter of C9, and the object finder C10 with C2;
   - the abstract specification `TypeMemo`, and the refinement check.
3. Third sitting: the compound member loop and `drgn_compound_type_create` as their own definitions (`Members`, `CompoundCreate`); two allocation failures in `fault`.
4. Also in the third sitting: the program's platform (`Program`), composed with the cache through the word size that pointer types without `DW_AT_byte_size` take.
5. Fourth sitting: the attribute facade C1 (missing versus invalid attribute forms) and the `malformed` run.
6. Next: more calls in `fault` (four calls with two failures take over five minutes), and pointer types in the object image.

## 3. Modules

### `DwarfDecode`
Pure operators over `Width`-bit words, with `Wrap` for `uint64_t` arithmetic:
- `SubrangeLength` is `subrange_length`.
- `ParseMemberOffset` and `NeedsTypeSize` are `parse_member_offset`.
- `DieIsLittleEndian` is `dwarf_die_is_little_endian`.

### `MCSubrange`, `MCMemberOffset`
Each draws one input from a finite set and checks the decoder against an independent reference:
- `Meaning` is the DWARF meaning of a subrange.
- `Encode` is how a producer encodes a bit field.

### `DwarfTypeCache`
The C code is recursive, so the model keeps the call stack explicitly.

- **Frames.** A `resolve` frame is one activation of `drgn_type_from_dwarf_internal`, and its `pc` names the point in the handler it has reached. `Call` pushes a frame. `Return` pops it and leaves the result in the caller's `res`.
- **Actions.** Each action runs a handler from one call to the next:

  | Actions | Code |
  |---|---|
  | `ResolveEntry` | depth guard, lookup, `depth++` |
  | `Qualifier`/`QualifierRet` | qualifier tags |
  | `BaseType`/`ComplexRet` | base types |
  | `Compound`, `Member`, `MemberEvalRet`, `CompleteRet` | compound types |
  | `Enum`/`EnumCompatRet` | enums |
  | `Typedef`/`TypedefRet` | typedefs |
  | `Pointer`/`PointerRet` | pointers |
  | `Array`/`ArrayRet` | arrays |
  | `Function`/`FunctionRet` | functions |
  | `UnknownTag` | any other tag |
  | `FindType`, `FindTypeNext`, `FindTypeRet` | `drgn_dwarf_type_find` |
  | `FindObject`, `FindObjectNext` | `drgn_dwarf_object_find` |
  | `EnumeratorRet` | `drgn_object_from_dwarf_enumerator` |
  | `SubprogramRet` | `drgn_object_from_dwarf_subprogram` |
  | `VariableRet` | `drgn_object_from_dwarf_variable` and `_constant` |
  | `EvaluateThunk`/`ThunkRet` | thunk evaluation |

- **`FinishAfter`.** Every handler ends in `FinishAfter`, which is lines 1210-1226: `depth--`, the error return, the choice of map, the insertion (which can fail), and the return.
- **Type descriptors are values.** The factory interns void, int, bool, float, complex, typedef, pointer and array types, so these are records compared by value. Compound, enum and function types come from builders and get a fresh `id`.
- **History.** `answers` records every (die, can, type) the core returned. `results` records every (request, outcome) an API call returned to the client; a type outcome is the error and the type, without `is_incomplete_array`, which `drgn_type_from_dwarf` does not ask for.
- **Thunk allocation.** The member and parameter loops each have a disjunct in which the thunk's `malloc` fails (line 195). The handler then returns `ENOMEM` through `FinishAfter`.
- **Attribute forms (C1).** A DIE's `type` is `NoDie` (no `DW_AT_type`), `BadRef` (a form `dwarf_formref_die` rejects) or a DIE. `declInvalid` marks a `DW_AT_declaration` that is not a flag.
  - `DwarfType` is `dwarf_type`, with its results 1, -1 and 0.
  - `DwarfFlagDeclaration` is `dwarf_flag`.
  - `CallChild` returns the error of an invalid `DW_AT_type` to its caller without a call. The member, parameter and array steps reject it as `drgn_lazy_type_from_dwarf` and `drgn_type_from_dwarf_child` do.
- **Objects.** A found object is a record: the DIE it came from, its qualified type, and either a reference (address, byte order) or a value (storage class). The object layer (`object.c`) is not under `src/`. `ObjectKindOf` takes the storage class of a type from the spec's description of `drgn_object_set_common`: signed, unsigned, float, buffer, or none for void and incomplete types.
- **Filename filter and index.** `FileMatches` is `die_matches_filename`: a DIE matches when no filename is given or its CU has that name. `ObjectIndexEntries` is the index queried with the tags the flags select; an enumerator name yields its enumeration type. Both are modelled from the spec.
- **Refinement.** `Memo == INSTANCE TypeMemo WITH answered <- answers, responses <- results, busy <- stack # <<>>`. `MemoSpec` is `Memo!Spec` and `MemoSafety` is `Memo!SafetySpec`.

### `Program`
The platform state of `struct drgn_program` (program.h), and the only part of it the cache reads. The variable `platform` is `[known, flags]`: `has_platform` and `platform.flags`.
- `Init` is `drgn_program_init` with a platform or with NULL (`PlatformGiven`). Its body is in `program.c`, not under `src/`, so it is modelled from the declaration.
- `SetPlatform` is `drgn_program_set_platform`, which sets the platform only if it has not been set. Its body is also in `program.c`, so it is modelled from the doc comment at program.h 148-153.
- `ProgramIs64Bit` is `drgn_program_is_64_bit`: `INVALID_ARGUMENT` without a platform, else `flags & IS_64_BIT` as a bool.
- `ProgramWordSize` is `drgn_program_word_size` (program.c, modelled from the spec): 8 or 4.

`DwarfTypeCache` composes it with `Prog == INSTANCE Program`, sharing `platform`. The client action `PlatformSet` may set the platform between API calls. `PointerSize` (lines 851-865) takes `DW_AT_byte_size`, or the word size, whose error `PointerRet` returns.

### `TypeMemo`
The abstract cache. It has three variables: the answers produced so far, the responses returned so far, and whether a call is running. It has three actions:
- `Begin` starts a call.
- `Resolve` adds answers. No DIE gets two answers for the same `can_be_incomplete_array`.
- `Reply` ends the call. A successful response equals every earlier successful response to the same request.

`Liveness` says that a running call returns.

### `MCDwarfTypeCache`
The DWARF images, written as the DIEs GCC emits. The C declarations they stand for are in the module's comments. `ObjectImage` has two translation units, a load bias of 2, and one variable whose address wraps at `Width` 4.

## 4. Runs

| Run | Image, bounds | Checks | Result |
|---|---|---|---|
| subrange | all subranges, Width 4 | `SubrangeMeaning` | pass |
| member_offset | bit fields with loc ≤ 3, size 1/2/4, ≤ 8 bits, 3 encodings, both byte orders, Width 8 | `BitFieldEncodingsAgree` | pass |
| flex | `FlexImage` (with a single-member `struct one { int z[]; }`), 6 calls | `IncompleteArrayPlacement`, `MemoSpec` | pass |
| decl | `DeclImage`, 5 calls, 1 allocation failure | `DeclarationsResolved`, `MemoSafety` | pass |
| fault | `FaultImage`, MaxDepth 3, 3 calls, 2 allocation failures | `TypeOK`, `DepthBound`, `RequestsComplete` | pass |
| object | `ObjectImage`, 3 calls out of 4 type and 19 object requests | `TypeLookupFirstMatch`, `ObjectLookupCorrect`, `MemoSpec` | pass |
| platform | `PlatformImages`, no platform at start, then 32- or 64-bit; 6 calls, 1 allocation failure | `PointerSizeAgrees`, `MemoSpec` | pass |
| malformed | `MalformedImage`: `DW_AT_type` of the wrong form on an enum, pointer, complex type, member, parameter and variable, and a non-flag `DW_AT_declaration`; 4 calls | `MalformedRejected`, `MemoSpec` | pass |
| shared_array | struct with `int d[]` sharing its array DIE with `typedef int flex_t[]` | `MemoConsistent` | **violated** |
| qualified_array | `struct q { const int a[0]; int n; }` | `IncompleteArrayPlacement` | **violated** |
| matrix_alloc | `int [2][2]`, 1 allocation failure | `NoIndeterminateType` | **violated** |

### Findings
1. **A cache hit loses `is_incomplete_array`** (line 1119).
   - A typedef over an array DIE that a flexible member has already memoized is stored as "not an incomplete array".
   - Two non-last members of that typedef then resolve to `typedef(int[])` and `typedef(int[0])`, depending on the order of evaluation.
2. **Qualifiers reset `can_be_incomplete_array`** (lines 1134-1161). `const int a[0]` as a non-last member stays incomplete, against spec I4.
3. **A failed dimension append reports success** (line 937). After a subrange has been read, `err` is NULL, so the array handler returns success without setting `*ret`, and the core memoizes that garbage.

The passing images avoid the shapes of findings 1 and 2, so that the runs can check everything else.

### What the object run shows
- Both finders answer from the first DIE of the file in index order.
  - The type finder's answer is the one its first filtered DIE of the right kind resolved to.
  - Every earlier filtered DIE resolved to another kind.
- The flags select tags as the code does. An enumerator's enumeration shadows a variable of the same name that comes later in the index.
- Addresses are `low_pc` or the `DW_OP_addr` operand plus the bias, modulo 2^64.
- A variable's byte order follows `DW_AT_endianity`. A function's follows the ELF file.
- An optimized-out `gone` in `a.c` makes the unfiltered lookup fail with LOOKUP. `b.c`'s addressed `gone` is not tried. The code does this on purpose (line 1462), and `ObjectLookupCorrect` pins it down.

### What the platform run shows
- Pointer lookups made before the platform is set fail with `INVALID_ARGUMENT` and memoize nothing. This covers a bare `int *`, the same pointer as a typedef, and the same pointer as a struct member.
- After `drgn_program_set_platform`, every pointer without `DW_AT_byte_size` has the platform's word size. A pointer with `DW_AT_byte_size` 8 keeps 8 on a 32-bit platform.
- A second `set_platform` changes nothing. A size memoized under one platform therefore never disagrees with the platform that is current later.

### What the malformed run shows
- Every DIE whose handler reads an attribute of the wrong form fails. So does every DIE built eagerly on one, through typedefs and qualifiers (`te`, `ct`), and a variable of such a type.
- The legal meanings of a missing attribute still apply:
  - `enum e3` gets a fabricated compatible type;
  - `void *` resolves;
  - an enum declaration with a bad `DW_AT_type` is still an incomplete enum, because the declaration never reads the attribute.
- `struct u`, whose member's type is malformed, resolves. Its member type is lazy, and only the thunk's evaluation fails.
- The mutants were also checked against two slips that are not kept in the project. `drgn_type_from_dwarf_child` treating a bad form as void breaks `MalformedRejected`, and so does ignoring `dwarf_flag`'s error.

### What the memo runs do not show
`MemoSpec` and `MemoSafety` compare a call's results only with each other.
- A wrong value memoized once and then repeated is consistent, so these properties miss it. Examples are a pointer size taken before the platform was set, or a type made from malformed DWARF.
- The properties of the `platform` and `malformed` runs (`PointerSizeAgrees`, `MalformedRejected`) catch those cases. The hazard list names only those properties for them.
- A partial result memoized on an error path is caught only if it conflicts with another answer.

### Why the bounds are enough
- **Depth.** MaxDepth 3 and 4 are enough for the chain `a→b→c→int` to hit the guard, for the cycle to hit it, and for every image to resolve without hitting it.
- **Calls.** Enough calls are allowed for a find, the thunks of the members it made, and a second find that hits the cache.
- **Allocation failures.** One is enough to fail any single insertion, append or thunk `malloc`. The runs explore every point at which it can happen. `fault` allows two, so that a call can fail twice at different points and a retry can hit the second failure. With four calls instead of three, that run takes over five minutes.
- **Width.** 3 to 5 bits is enough to reach the overflow bound.
- **Coverage.** Each passing run explores every order of the client's calls. Together, the runs fire every action and every disjunct.

### Mutants
Each property of a passing run is shown to fail under a plausible slip in the code it concerns. The mutant operators are defined next to their originals:

| Property | Slip |
|---|---|
| `SubrangeMeaning` | `>` for `>=` in the overflow check |
| `BitFieldEncodingsAgree` | the bit size is dropped |
| `MemoSpec` (flex) | primary-only lookup |
| `MemoSafety`, `MemoSpec` (object) | dropped insert |
| `TypeLookupFirstMatch` | filename ignored |
| `ObjectLookupCorrect` | a function's byte order read with the attribute check |
| `IncompleteArrayPlacement` | union exception forgotten; also, separately, the `members.size > 0` test dropped |
| `DeclarationsResolved` | first definition taken |
| `TypeOK` | `>` in the depth guard |
| `DepthBound` | error returned before `depth--` |
| `RequestsComplete` | index iterator not advanced |
| `PointerSizeAgrees` | `drgn_program_is_64_bit` reads the flags without checking `has_platform` |
| `MemoSpec` (platform) | dropped insert |
| `MalformedRejected` | `dwarf_type` returns 1, "missing", for an invalid form as well |
| `MemoSpec` (malformed) | dropped insert |

## 5. Fairness
`Spec` assumes `WF_vars(Execute)`: a running API call keeps executing. The cache is single-threaded and a call never blocks, so this is justified. The client has no obligation to make a call. `Done` lets a behaviour stop once the call bound is used up. `TypeMemo` states its liveness as `busy ~> ~busy`, not as fairness on `Reply`, because TLC cannot evaluate `ENABLED Reply` through the refinement mapping. The `decl` run checks only the safety part, because checking the liveness part over its 642,000 states takes minutes.

## 6. Not modelled
- **Language lookup** (`drgn_language_from_die`). It only adds error returns that sit before `depth++`, or inside handlers that are already modelled as errors.
- **Allocation failures** in factory creation and builders. Like the modelled ones, they return `ENOMEM` through the same paths.
- **The rest of the attribute facade (C1).**
  - `dwarf_attr_integrate` follows `DW_AT_abstract_origin` and `DW_AT_specification`. It is libdw, not under `src/`, so a DIE is the record of its integrated attributes.
  - Invalid forms of `DW_AT_name`, `DW_AT_byte_size` and `DW_AT_encoding` are left out. Each is one more early error next to the missing-attribute error that is modelled, and none of these attributes has a default that an invalid form could fall into.
- **The name index.** `IndexEntries` and `ObjectIndexEntries` give its contents in address order, without declarations. They are modelled from the spec, as is `die_matches_filename`.
- **`drgn_type_has_size`** (`HasSize`, in type.h) and the object layer's storage classes (`ObjectKindOf`). Both are modelled from the spec.
- **The values of constants and the contents of blocks.** An object records its storage class and byte order, not the bytes. No property tells two values apart, and `blockShort` stands for a block shorter than the type.
- **The rest of `program.h`.**
  - `drgn_program_is_little_endian` and `drgn_program_bswap` are left out because the cache never calls them. It takes byte order from the ELF file and `DW_AT_endianity` instead; the ELF byte order and load bias are the image's `little` and `bias` fields.
  - The memory reader, the page-table fields and the `init_core_dump`/`kernel`/`pid` constructors are left out because their code is not under `src/` and the cache does not read them.
