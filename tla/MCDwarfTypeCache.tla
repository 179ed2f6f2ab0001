------------------------- MODULE MCDwarfTypeCache --------------------------
(***************************************************************************)
(* Small DWARF images for DwarfTypeCache. Each image is the debugging      *)
(* information of a few C declarations, written as the DIEs GCC emits for *)
(* them; DIE d of an image is its d-th entry.                              *)
(***************************************************************************)
EXTENDS DwarfTypeCache

\* A DIE with the given tag, name and DW_AT_type, and no other attribute set.
D(tag, name, type) == [DefaultDie EXCEPT !.tag = tag, !.name = name, !.type = type]

\* A DIE with children.
P(tag, name, type, cs) == [D(tag, name, type) EXCEPT !.children = cs]

Sub(upper, count) ==
    [D("subrange_type", NoName, NoDie) EXCEPT !.sub = [upper |-> upper,
                                                       upperForm |-> "udata",
                                                       count |-> count]]
NoBound == Sub(-1, -1)

\* A declaration DIE (DW_AT_declaration set, no DW_AT_byte_size).
Decl(tag, name) == [D(tag, name, NoDie) EXCEPT !.decl = TRUE, !.hasSize = FALSE]

\* A DW_TAG_enumerator; form is the form of its DW_AT_const_value.
Enumerator(name, form, negative) ==
    [D("enumerator", name, NoDie) EXCEPT !.constForm = form, !.negative = negative]

\* A base type with a DW_AT_encoding.
Base(name, enc, type) == [D("base_type", name, type) EXCEPT !.enc = enc]

\* An image loaded little-endian with no relocation bias.
Img(dies) == [die |-> [d \in 1..Len(dies) |-> dies[d]], little |-> TRUE, bias |-> 0]

\* Type requests without a filename.
AnyFile(reqs) == {<<r[1], r[2], NoFile>> : r \in reqs}

(***************************************************************************)
(* Flexible and zero-length arrays:                                        *)
(*   struct s { int n; struct s *next; int d[]; };                         *)
(*   union u { int i; int m[2][]; int z[]; };   (GCC < 9 zero lengths)     *)
(*   typedef int vec_t[];  struct t { volatile int v; vec_t a, b; int c; }; *)
(*   struct one { int z[]; };   (its only member: GCC < 9 zero length)     *)
(***************************************************************************)
FlexImage == Img(<<
    D("base_type", "int", NoDie),                        \* 1
    P("structure_type", "s", NoDie, <<3, 4, 5>>),        \* 2
    D("member", NoName, 1),                              \* 3  n
    D("member", NoName, 6),                              \* 4  next
    D("member", NoName, 7),                              \* 5  d
    D("pointer_type", NoName, 2),                        \* 6
    P("array_type", NoName, 1, <<8>>),                   \* 7  int []
    NoBound,                                             \* 8
    P("union_type", "u", NoDie, <<11, 12, 10>>),         \* 9
    D("member", NoName, 13),                             \* 10 z
    D("member", NoName, 1),                              \* 11 i
    D("member", NoName, 14),                             \* 12 m
    P("array_type", NoName, 1, <<>>),                    \* 13 int [] (no subrange)
    P("array_type", NoName, 1, <<15, 16>>),              \* 14 int [2][]
    Sub(-1, 2),                                          \* 15
    NoBound,                                             \* 16
    D("typedef", "vec_t", 18),                           \* 17
    P("array_type", NoName, 1, <<19>>),                  \* 18 int []
    NoBound,                                             \* 19
    P("structure_type", "t", NoDie, <<23, 21, 22, 25>>), \* 20
    D("member", NoName, 17),                             \* 21 a
    D("member", NoName, 17),                             \* 22 b
    D("member", NoName, 24),                             \* 23 v
    D("volatile_type", NoName, 1),                       \* 24
    D("member", NoName, 1),                              \* 25 c
    P("structure_type", "one", NoDie, <<27>>),           \* 26
    D("member", NoName, 28),                             \* 27 z
    P("array_type", NoName, 1, <<29>>),                  \* 28 int []
    NoBound                                              \* 29
    >>)

FlexRequests == AnyFile({<<"struct", "s">>, <<"union", "u">>, <<"struct", "t">>,
                 <<"typedef", "vec_t">>, <<"struct", "one">>})

FlexImages == {FlexImage}

(***************************************************************************)
(* One array type DIE shared by a flexible array member and a typedef, as *)
(* GCC emits it when both are spelled int []:                             *)
(*   struct s { int n; int d[]; };  typedef int flex_t[];                  *)
(*   struct t { flex_t a; flex_t b; int c; };                              *)
(***************************************************************************)
SharedArrayImage == Img(<<
    D("base_type", "int", NoDie),                        \* 1
    P("structure_type", "s", NoDie, <<3, 4>>),           \* 2
    D("member", NoName, 1),                              \* 3  n
    D("member", NoName, 5),                              \* 4  d
    P("array_type", NoName, 1, <<6>>),                   \* 5  int []
    NoBound,                                             \* 6
    D("typedef", "flex_t", 5),                           \* 7
    P("structure_type", "t", NoDie, <<9, 10, 11>>),      \* 8
    D("member", NoName, 7),                              \* 9  a
    D("member", NoName, 7),                              \* 10 b
    D("member", NoName, 1)                               \* 11 c
    >>)

SharedArrayImages   == {SharedArrayImage}
SharedArrayRequests == AnyFile({<<"struct", "s">>, <<"struct", "t">>, <<"typedef", "flex_t">>})

(***************************************************************************)
(* A qualified zero-length array that is not the last member (GCC < 9     *)
(* emits it like an incomplete array):                                    *)
(*   struct q { const int a[0]; int n; };                                  *)
(***************************************************************************)
QualifiedArrayImages == {Img(<<
    D("base_type", "int", NoDie),                        \* 1
    P("structure_type", "q", NoDie, <<3, 4>>),           \* 2
    D("member", NoName, 5),                              \* 3  a
    D("member", NoName, 1),                              \* 4  n
    D("const_type", NoName, 6),                          \* 5
    P("array_type", NoName, 1, <<7>>),                   \* 6  int []
    NoBound                                              \* 7
    >>)}

QualifiedArrayRequests == AnyFile({<<"struct", "q">>})

(***************************************************************************)
(* A two-dimensional array:  typedef int m2_t[2][2];                       *)
(***************************************************************************)
MatrixImages == {Img(<<
    D("base_type", "int", NoDie),                        \* 1
    D("typedef", "m2_t", 3),                             \* 2
    P("array_type", NoName, 1, <<4, 5>>),                \* 3
    Sub(-1, 2),                                          \* 4
    Sub(-1, 2)                                           \* 5
    >>)}

MatrixRequests == AnyFile({<<"typedef", "m2_t">>})

(***************************************************************************)
(* Declarations, enums, complex, bit fields and function types:           *)
(*   struct node; struct node { int v; };                                  *)
(*   struct list; struct list { int v; };  struct list { int w; };  (two  *)
(*     translation units)                                                 *)
(*   enum e; enum e { E0 = -1, E1 = 1 };    (no DW_AT_type, old GCC)      *)
(*   enum f : int { F0 };   double _Complex cf;                             *)
(*   struct bits { int x : 3; int y; };  (legacy DW_AT_bit_offset only)    *)
(*   typedef int ( *fp)(int, ...);                                         *)
(*   enum g;  struct user { struct node *n; struct list *l; enum e e;     *)
(*                 enum g g; };                                          *)
(***************************************************************************)
DeclImage == Img(<<
    D("base_type", "int", NoDie),                        \* 1
    Decl("structure_type", "node"),                      \* 2
    P("structure_type", "node", NoDie, <<4>>),           \* 3
    D("member", NoName, 1),                              \* 4
    Decl("structure_type", "list"),                      \* 5
    P("structure_type", "list", NoDie, <<7>>),           \* 6
    D("member", NoName, 1),                              \* 7
    P("structure_type", "list", NoDie, <<9>>),           \* 8
    D("member", NoName, 1),                              \* 9
    Decl("enumeration_type", "e"),                       \* 10
    P("enumeration_type", "e", NoDie, <<12, 13>>),       \* 11
    Enumerator("E0", "sdata", TRUE),                     \* 12
    Enumerator("E1", "udata", FALSE),                    \* 13
    P("enumeration_type", "f", 1, <<15>>),               \* 14
    Enumerator("F0", "udata", FALSE),                    \* 15
    Base("cf", "complex_float", 17),                     \* 16
    Base("double", "float", NoDie),                      \* 17
    P("structure_type", "bits", NoDie, <<19, 20>>),      \* 18
    [D("member", NoName, 1) EXCEPT !.member.location = 0,
                                   !.member.bitOffset = 29,
                                   !.member.bitSize = 3],    \* 19 x
    D("member", NoName, 1),                              \* 20 y
    D("pointer_type", NoName, 22),                       \* 21
    P("subroutine_type", NoName, 1, <<23, 24>>),         \* 22
    D("formal_parameter", NoName, 1),                    \* 23
    D("unspecified_parameters", NoName, NoDie),          \* 24
    D("typedef", "fp", 21),                              \* 25
    P("structure_type", "user", NoDie, <<27, 28, 29, 33>>), \* 26
    D("member", NoName, 30),                             \* 27 n
    D("member", NoName, 31),                             \* 28 l
    D("member", NoName, 10),                             \* 29 e
    D("pointer_type", NoName, 2),                        \* 30
    D("pointer_type", NoName, 5),                        \* 31
    Decl("enumeration_type", "g"),                       \* 32 never defined
    D("member", NoName, 32)                              \* 33 g
    >>)

DeclImages   == {DeclImage}
DeclRequests == AnyFile({<<"struct", "user">>, <<"struct", "bits">>, <<"enum", "e">>,
                 <<"enum", "f">>, <<"float", "cf">>, <<"typedef", "fp">>})

(***************************************************************************)
(* Deep nesting, cycles and malformed DWARF:                               *)
(*   typedef int c; typedef c b; typedef b a;   typedef loop *loop;      *)
(*   and one DIE for each error a handler reports.                        *)
(***************************************************************************)
FaultImage == Img(<<
    D("base_type", "int", NoDie),                        \* 1
    D("typedef", "a", 3),                                \* 2
    D("typedef", "b", 4),                                \* 3
    D("typedef", "c", 1),                                \* 4
    D("typedef", "loop", 6),                             \* 5
    D("pointer_type", NoName, 5),                        \* 6
    D("typedef", "unk", 8),                              \* 7
    D("variable", "v", 1),                               \* 8  not a type
    [D("base_type", "nosize", NoDie) EXCEPT !.hasSize = FALSE], \* 9
    D("typedef", "big", 11),                             \* 10
    P("array_type", NoName, 1, <<12>>),                  \* 11 int [8]: upper 7
    Sub(7, -1),                                          \* 12
    D("typedef", "badfn", 14),                           \* 13
    P("subroutine_type", NoName, 1, <<15, 16>>),         \* 14
    D("unspecified_parameters", NoName, NoDie),          \* 15
    D("formal_parameter", NoName, 1),                    \* 16 after ...
    [D("structure_type", "nosz", NoDie) EXCEPT !.hasSize = FALSE], \* 17
    P("enumeration_type", "noval", 1, <<19>>),           \* 18
    Enumerator("NV", "none", FALSE),                     \* 19
    [D("enumeration_type", "nosz", NoDie) EXCEPT !.hasSize = FALSE], \* 20
    D("pointer_type", NoName, 22),                       \* 21
    D("typedef", NoName, 1),                             \* 22 unnamed
    D("typedef", "pt", 21),                              \* 23
    P("enumeration_type", "fe", 25, <<37>>),             \* 24
    Base("fl", "float", NoDie),                          \* 25
    Base("cb", "complex_float", 27),                     \* 26
    Base("b", "boolean", NoDie),                         \* 27
    Base("cx", "complex_float", NoDie),                  \* 28 no DW_AT_type
    D("typedef", "notype", 30),                          \* 29
    D("array_type", NoName, NoDie),                      \* 30
    P("structure_type", "badm", NoDie, <<32>>),          \* 31
    D("member", NoName, NoDie),                          \* 32
    D("typedef", "fnret", 34),                           \* 33
    D("subroutine_type", NoName, 9),                     \* 34
    P("structure_type", "bf", NoDie, <<36>>),            \* 35
    [D("member", NoName, 23) EXCEPT !.member.bitOffset = 0,
                                    !.member.bitSize = 1],   \* 36
    Enumerator("FE0", "udata", FALSE),                   \* 37
    P("structure_type", "holder", NoDie, <<39, 40>>),    \* 38
    D("member", NoName, 2),                              \* 39 a x
    D("member", NoName, 1)                               \* 40 int y
    >>)

FaultImages   == {FaultImage}
FaultRequests == AnyFile({<<"typedef", "a">>, <<"typedef", "loop">>, <<"typedef", "unk">>,
                  <<"int", "nosize">>, <<"typedef", "big">>, <<"typedef", "badfn">>,
                  <<"struct", "nosz">>, <<"enum", "noval">>, <<"enum", "nosz">>,
                  <<"typedef", "pt">>, <<"enum", "fe">>, <<"float", "cb">>,
                  <<"float", "cx">>, <<"typedef", "notype">>, <<"struct", "badm">>,
                  <<"typedef", "fnret">>, <<"struct", "bf">>, <<"struct", "holder">>,
                  <<"int", "fl">>})

(***************************************************************************)
(* Objects in two translation units, loaded with relocation bias 2:        *)
(*   a.c: enum color { RED = -1, x = 1 };  enum mask : unsigned { BIT };   *)
(*        int main(void) { ... }  (DW_AT_endianity big, ignored)           *)
(*        int x;  extern void ext(void);  (no DW_AT_low_pc)                *)
(*        __thread int tls;  (a TLS location)                              *)
(*        static const int k = 3, kb = ...;  (DW_AT_const_value data,      *)
(*        block, a too short block, a double given as data)                *)
(*        void *vp;  (no DW_AT_type)   extern int arr[];                   *)
(*        struct pt { int a; };   int word;  (a base type named word)      *)
(*   b.c: unsigned int x __attribute__((scalar_storage_order big));        *)
(*        int be;  (an invalid DW_AT_endianity)  int main;  (a variable)   *)
(*        struct pt { unsigned b; };  double word;  int gone;  (which a.c *)
(*        also has, optimized out: no location, no constant)               *)
(***************************************************************************)
\* A DW_TAG_variable of the given file, with DW_AT_type type.
Var(name, type, file) == [D("variable", name, type) EXCEPT !.file = file]

\* One with DW_AT_location DW_OP_addr addr.
At(v, addr) == [v EXCEPT !.locOp = "addr", !.addr = addr]

\* One with DW_AT_const_value of the form class c.
Const(v, c) == [v EXCEPT !.varConst = c]

ObjectImage == [Img(<<
    D("base_type", "int", NoDie),                        \* 1
    Base("unsigned int", "unsigned", NoDie),             \* 2
    P("enumeration_type", "color", 1, <<4, 5>>),         \* 3
    Enumerator("RED", "sdata", TRUE),                    \* 4
    Enumerator("x", "udata", FALSE),                     \* 5
    P("enumeration_type", "mask", 2, <<7>>),             \* 6
    Enumerator("BIT", "udata", FALSE),                   \* 7
    [D("subprogram", "main", 1) EXCEPT !.lowPc = 5, !.endianity = 1], \* 8
    At(Var("x", 1, "a.c"), 15),                          \* 9  wraps with the bias
    D("subprogram", "ext", NoDie),                       \* 10 no DW_AT_low_pc
    [Var("tls", 1, "a.c") EXCEPT !.locOp = "other"],     \* 11
    Const(Var("k", 1, "a.c"), "data"),                   \* 12
    Const(Var("kb", 2, "a.c"), "block"),                 \* 13
    [Const(Var("ks", 2, "a.c"), "block") EXCEPT !.blockShort = TRUE], \* 14
    Base("double", "float", NoDie),                      \* 15
    Const(Var("kf", 15, "a.c"), "data"),                 \* 16
    At(Var("vp", NoDie, "a.c"), 3),                      \* 17
    At(Var("arr", 19, "a.c"), 4),                        \* 18
    P("array_type", NoName, 1, <<20>>),                  \* 19 int []
    NoBound,                                             \* 20
    P("structure_type", "pt", NoDie, <<22>>),            \* 21
    D("member", NoName, 1),                              \* 22
    Base("word", "signed", NoDie),                       \* 23
    [At(Var("x", 2, "b.c"), 1) EXCEPT !.endianity = 1],  \* 24
    [At(Var("be", 1, "b.c"), 6) EXCEPT !.endianity = 7], \* 25
    At(Var("main", 1, "b.c"), 2),                        \* 26
    [P("structure_type", "pt", NoDie, <<28>>) EXCEPT !.file = "b.c"], \* 27
    D("member", NoName, 2),                              \* 28
    [Base("word", "float", NoDie) EXCEPT !.file = "b.c"],   \* 29
    Const(Var("kv", NoDie, "a.c"), "data"),              \* 30
    Var("gone", 1, "a.c"),                               \* 31 optimized out
    At(Var("gone", 1, "b.c"), 7)                         \* 32
    >>) EXCEPT !.bias = 2]

ObjectImages == {ObjectImage}

ObjectTypeRequests ==
    {<<"struct", "pt", "b.c">>, <<"float", "word", NoFile>>,
     <<"int", "word", "b.c">>, <<"enum", "color", "b.c">>}

ObjectFindRequests ==
    {<<{"constant"}, "x", NoFile>>, <<{"constant", "variable"}, "x", NoFile>>,
     <<{"variable"}, "x", "b.c">>, <<{"constant"}, "BIT", NoFile>>,
     <<{"function"}, "main", NoFile>>, <<{"function", "variable"}, "main", "b.c">>,
     <<{"function"}, "ext", NoFile>>, <<{"variable"}, "tls", NoFile>>,
     <<{"variable"}, "k", NoFile>>, <<{"variable"}, "kb", NoFile>>,
     <<{"variable"}, "ks", NoFile>>, <<{"variable"}, "kf", NoFile>>,
     <<{"variable"}, "vp", NoFile>>, <<{"variable"}, "arr", NoFile>>,
     <<{"variable"}, "be", NoFile>>, <<{"variable"}, "kv", NoFile>>,
     <<{"variable"}, "gone", NoFile>>, <<{"variable"}, "gone", "b.c">>,
     <<{"function"}, "x", NoFile>>}


(***************************************************************************)
(* Pointers, with and without DW_AT_byte_size, for a program that learns   *)
(* its platform (32- or 64-bit) only after some calls:                     *)
(*   typedef int *ip;  typedef void *vp;                                   *)
(*   struct s { int *p; int * __attribute__((mode(DI))) q; };             *)
(***************************************************************************)
PlatformImages == {Img(<<
    D("base_type", "int", NoDie),                        \* 1
    D("pointer_type", NoName, 1),                        \* 2 int *
    [D("pointer_type", NoName, 1) EXCEPT !.size = 8],    \* 3 int *, 8 bytes
    D("typedef", "ip", 2),                               \* 4
    P("structure_type", "s", NoDie, <<6, 7>>),           \* 5
    D("member", NoName, 2),                              \* 6 p
    D("member", NoName, 3),                              \* 7 q
    D("typedef", "vp", 9),                               \* 8
    D("pointer_type", NoName, NoDie)                     \* 9 void *
    >>)}

PlatformRequests == AnyFile({<<"typedef", "ip">>, <<"struct", "s">>, <<"typedef", "vp">>})


(***************************************************************************)
(* Attributes of the wrong form, as a broken producer or a corrupted file *)
(* gives them: a DW_AT_type that is a constant instead of a reference      *)
(* (BadRef) and a DW_AT_declaration that is a string instead of a flag,   *)
(* next to the well-formed uses of a missing attribute:                   *)
(*   enum e1 : <bad> { A };  typedef <bad> *tp;  typedef enum e1 te;       *)
(*   typedef const tp ct;  struct s <bad declaration> { int i; };          *)
(*   typedef _Complex <bad> cf;  struct t { <bad> m; };                    *)
(*   typedef void fn(<bad>);  struct u { tp p; };  tp v;                   *)
(*   enum e2 : <bad>;  (a declaration)   enum e3 { B };  (no DW_AT_type)   *)
(*   typedef void *vp;  typedef enum e2 te2;                               *)
(***************************************************************************)
BadDecl(d) == [d EXCEPT !.declInvalid = TRUE]

MalformedImage == Img(<<
    D("base_type", "int", NoDie),                                   \* 1
    P("enumeration_type", "e1", BadRef, <<3>>),                     \* 2
    Enumerator("A", "sdata", FALSE),                                \* 3
    D("typedef", "tp", 5),                                          \* 4
    D("pointer_type", NoName, BadRef),                              \* 5
    BadDecl(P("structure_type", "s", NoDie, <<7>>)),                \* 6
    D("member", NoName, 1),                                         \* 7
    D("typedef", "te", 2),                                          \* 8
    D("const_type", NoName, 4),                                     \* 9
    D("typedef", "ct", 9),                                          \* 10
    Base("cf", "complex_float", BadRef),                            \* 11
    P("structure_type", "t", NoDie, <<13>>),                        \* 12
    D("member", NoName, BadRef),                                    \* 13
    P("subroutine_type", NoName, NoDie, <<15>>),                    \* 14
    D("formal_parameter", NoName, BadRef),                          \* 15
    D("typedef", "fn", 14),                                         \* 16
    P("structure_type", "u", NoDie, <<18>>),                        \* 17
    D("member", NoName, 4),                                         \* 18
    At(Var("v", 4, "a.c"), 1),                                      \* 19
    [Decl("enumeration_type", "e2") EXCEPT !.type = BadRef],        \* 20
    P("enumeration_type", "e3", NoDie, <<22>>),                     \* 21
    Enumerator("B", "udata", FALSE),                                \* 22
    D("typedef", "vp", 24),                                         \* 23
    D("pointer_type", NoName, NoDie),                               \* 24
    D("typedef", "te2", 20)                                         \* 25
    >>)

MalformedImages == {MalformedImage}
MalformedTypeRequests ==
    AnyFile({<<"enum", "e1">>, <<"typedef", "tp">>, <<"struct", "s">>,
             <<"typedef", "te">>, <<"typedef", "ct">>, <<"float", "cf">>,
             <<"struct", "t">>, <<"typedef", "fn">>, <<"struct", "u">>,
             <<"enum", "e2">>, <<"enum", "e3">>, <<"typedef", "vp">>,
             <<"typedef", "te2">>})
MalformedObjectRequests == {<<{"variable"}, "v", NoFile>>}

=============================================================================
