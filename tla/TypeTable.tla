------------------------------ MODULE TypeTable -----------------------------
(***************************************************************************)
(* From the struct declarations of a MIR text to the runtime's type table: *)
(* the type half of parse_mir_program (human_format.rs), the interner      *)
(* Types and struct layout (dag_program/mod.rs), and the registration of   *)
(* every type by compile_program (cf_build.rs).  Also what the compiler    *)
(* makes of a place: the address its projections compute, and the width of *)
(* the load or store at its end.                                           *)
(*                                                                         *)
(* GcHeap takes from here that a registered type lists the offsets of its  *)
(* own gc pointers and none of those inside an embedded struct.            *)
(***************************************************************************)
EXTENDS Naturals, Sequences, SequencesExt, FiniteSets

CONSTANTS
  Name,      \* names of structs
  Programs   \* texts to parse: sequences of [name, fields : Seq(Path)]

Prim == {"i32", "i64", "f32", "bool"}

(* A type path: the references around a name, outermost first. *)
ParsedTypePath == [refs : Seq({"Ref", "GcRef"}), name : Name \cup Prim]

ParsedStruct == [name : Name, fields : Seq(ParsedTypePath)]

(* Structs may share a name; a path to an unknown name panics the parser   *)
(* and such texts are left out.                                            *)
Declared(items) == Prim \cup {items[i].name : i \in DOMAIN items}

ASSUME TypeTableAssumption ==
  /\ Programs \subseteq Seq(ParsedStruct)
  /\ \A items \in Programs : \A i \in DOMAIN items : \A f \in DOMAIN items[i].fields :
       items[i].fields[f].name \in Declared(items)

VARIABLES
  items,            \* the parsed struct items, in the order of the text
  interner,         \* id2info and info2id of TypesInternal; ids count from 1
  type_name_to_id,  \* the parser's name table
  rt_types,         \* type id -> RtTypeData registered for it
  phase,            \* the loop that runs
  pos               \* its next item, or type id

vars == <<items, interner, type_name_to_id, rt_types, phase, pos>>

-----------------------------------------------------------------------------
(* The interner. *)

PrimInfo(k)      == [kind |-> k, of |-> 0, fields |-> << >>]
RefInfo(k, id)   == [kind |-> k, of |-> id, fields |-> << >>]
StructInfo(ids)  == [kind |-> "Struct", of |-> 0, fields |-> ids]

id2info == interner.id2info
info2id == interner.info2id

get_id(tab, info) ==
  IF info \in DOMAIN tab.info2id THEN tab
  ELSE LET id == Len(tab.id2info) + 1
       IN  [id2info |-> Append(tab.id2info, info),
            info2id |-> [i \in DOMAIN tab.info2id \cup {info} |->
                           IF i = info THEN id ELSE tab.info2id[i]]]

(* Mutant: a placeholder that is the interned bool. *)
declare_interned(tab) == get_id(tab, PrimInfo("bool"))

(* The id is new, and PrimBool stands in until define_type. *)
declare_type(tab) == [tab EXCEPT !.id2info = Append(@, PrimInfo("bool"))]

(* Mutant: the info's id is not recorded. *)
define_one_way(tab, id, info) == [tab EXCEPT !.id2info[id] = info]

define_type(tab, id, info) ==
  [id2info |-> [tab.id2info EXCEPT ![id] = info],
   info2id |-> [i \in DOMAIN tab.info2id \cup {info} |->
                  IF i = info THEN id ELSE tab.info2id[i]]]

(* Mutant: only the innermost reference of a path is defined. *)
translate_innermost(tab, names, path) ==
  LET k    == Len(path.refs)
      base == Len(tab.id2info)
      decl == FoldLeft(LAMBDA t, i : declare_type(t), tab, path.refs)
  IN  IF k = 0 THEN [tab |-> tab, id |-> names[path.name]]
      ELSE [tab |-> define_type(decl, base + k,
                                RefInfo(path.refs[k], names[path.name])),
            id  |-> Len(tab.id2info) + 1]

(* A path `&..gc..T` gets a new id for each reference in it, declared from *)
(* the outside in and defined from the inside out.                         *)
declare_ref(tab, ref) == declare_type(tab)

define_ref(tab, ref) == define_type(tab, ref.id, ref.info)

translate_type(tab, names, path) ==
  LET k         == Len(path.refs)
      id(i)     == Len(tab.id2info) + i
      target(i) == IF i = k THEN names[path.name] ELSE id(i + 1)
      ref(i)    == [id |-> id(i), info |-> RefInfo(path.refs[i], target(i))]
      declared  == FoldLeft(declare_ref, tab, path.refs)
  IN  [id  |-> IF k = 0 THEN names[path.name] ELSE Len(tab.id2info) + 1,
       tab |-> FoldLeft(define_ref, declared, [i \in 1..k |-> ref(k + 1 - i)])]

(* The type of one more field, with the names of the text.                 *)
translate_field(acc, path) ==
  LET t == translate_type(acc.tab, type_name_to_id, path)
  IN  [tab |-> t.tab, ids |-> Append(acc.ids, t.id)]

-----------------------------------------------------------------------------
(* Layout. *)

RoundUp(n, align) == ((n + align - 1) \div align) * align

Larger(m, n) == IF m > n THEN m ELSE n

(* Mutant: fields are packed. *)
extend_packed(acc, l) ==
  [field_offsets |-> Append(acc.field_offsets, acc.size),
   size  |-> acc.size + l.size,
   align |-> Larger(acc.align, l.align)]

(* Layout::extend, and the offset pushed to field_offsets. *)
extend(acc, l) ==
  LET offset == RoundUp(acc.size, l.align)
  IN  [field_offsets |-> Append(acc.field_offsets, offset),
       size  |-> offset + l.size,
       align |-> Larger(acc.align, l.align)]

PrimSize == [k \in Prim \cup {"Ref", "GcRef"} |->
               CASE k = "bool" -> 1
                 [] k \in {"i32", "f32"} -> 4
                 [] OTHER -> 8]

NoFields == [field_offsets |-> << >>, size |-> 0, align |-> 1]

(* TypeInfo::layout, given the layouts of a struct's fields.               *)
LayoutOf(info, inner) ==
  IF info.kind = "Struct"
  THEN FoldLeft(extend, NoFields, [f \in DOMAIN info.fields |-> inner[info.fields[f]]])
  ELSE [field_offsets |-> << >>, size |-> PrimSize[info.kind], align |-> PrimSize[info.kind]]

(* The layouts that need no others than those of inner.                    *)
LayoutsOver(types, inner) ==
  [id \in {i \in DOMAIN types : Range(types[i].fields) \subseteq DOMAIN inner} |->
     LayoutOf(types[id], inner)]

(* TypeInfo::layout and StructInfo::layout, for every type on which their  *)
(* recursion ends: level n has those that embed fewer than n levels of     *)
(* others, and a struct that embeds itself is in none.  A struct is not    *)
(* padded at its end.                                                      *)
Layouts(types) ==
  LET level[n \in 0..Len(types)] ==
        IF n = 0 THEN << >> ELSE LayoutsOver(types, level[n - 1])
  IN  level[Len(types)]

(* Mutant: plain references are taken for gc pointers. *)
gc_or_ref_fields(types, layout, id) ==
  LET info == types[id]
  IN  IF info.kind = "GcRef" THEN {0}
      ELSE {layout[id].field_offsets[f] :
              f \in {g \in DOMAIN info.fields :
                       types[info.fields[g]].kind \in {"Ref", "GcRef"}}}

(* The match over ty_info in compile_program. *)
gc_ptr_fields(types, layout, id) ==
  LET info == types[id]
  IN  IF info.kind = "GcRef" THEN {0}
      ELSE {layout[id].field_offsets[f] :
              f \in {g \in DOMAIN info.fields : types[info.fields[g]].kind = "GcRef"}}

-----------------------------------------------------------------------------
(* Places.  A walk along the projections of a PlaceExpr, or a prefix of    *)
(* them: the object it is in, the offset there and the type of the place.  *)

(* Mutant: the offset is that of the following field. *)
StepsToNext(types, layout, w) ==
  LET info == types[w.ty]
  IN  CASE info.kind \in {"Ref", "GcRef"} -> {[object |-> info.of, offset |-> 0, ty |-> info.of]}
        [] OTHER ->
             {[w EXCEPT !.offset = @ + layout[w.ty].field_offsets[f] + layout[info.fields[f]].size,
                        !.ty = info.fields[f]] : f \in DOMAIN info.fields}

(* One more projection: Deref loads the pointer and enters its object,     *)
(* Field adds the field's offset; anything else panics the compiler.       *)
Steps(types, layout, w) ==
  LET info == types[w.ty]
  IN  CASE info.kind \in {"Ref", "GcRef"} -> {[object |-> info.of, offset |-> 0, ty |-> info.of]}
        [] OTHER ->
             {[w EXCEPT !.offset = @ + layout[w.ty].field_offsets[f],
                        !.ty = info.fields[f]] : f \in DOMAIN info.fields}

(* Places of up to n projections on a local of type id. *)
OneMore(types, layout, shorter) ==
  shorter \cup UNION {Steps(types, layout, w) : w \in shorter}

Places(types, layout, id, n) ==
  LET walk[i \in 0..n] ==
        IF i = 0 THEN {[object |-> id, offset |-> 0, ty |-> id]}
        ELSE OneMore(types, layout, walk[i - 1])
  IN  walk[n]

(* The bytes that a load or store of a place of this type moves, as        *)
(* translate_ssa_type chooses them; 0 when it finds no such type and the   *)
(* compiler panics.  A struct's size goes through u16, and Cranelift has   *)
(* integers of 1, 2, 4, 8 and 16 bytes.                                    *)
AccessBytes(types, layout, id) ==
  LET bytes == layout[id].size % 65536
  IN  IF types[id].kind # "Struct" THEN layout[id].size
      ELSE IF bytes \in {1, 2, 4, 8, 16} THEN bytes ELSE 0

-----------------------------------------------------------------------------
EmptyInterner == [id2info |-> << >>, info2id |-> << >>]

(* parse_mir_program interns the primitive types before anything else. *)
Init ==
  /\ items \in Programs
  /\ interner = FoldLeft(get_id, EmptyInterner,
                         <<PrimInfo("i32"), PrimInfo("i64"), PrimInfo("f32"), PrimInfo("bool")>>)
  /\ type_name_to_id = [k \in Prim |-> info2id[PrimInfo(k)]]
  /\ rt_types = << >>
  /\ phase = "declare"
  /\ pos = 1

(* The first pass over the items: `struct name` gets an id; a second one   *)
(* of the same name takes the name over.                                   *)
Declare ==
  /\ phase = "declare" /\ pos <= Len(items)
  /\ interner' = declare_type(interner)
  /\ type_name_to_id' = [n \in DOMAIN type_name_to_id \cup {items[pos].name} |->
                           IF n = items[pos].name THEN Len(interner'.id2info)
                           ELSE type_name_to_id[n]]
  /\ pos' = pos + 1
  /\ UNCHANGED <<items, rt_types, phase>>

(* The second pass: field types are translated in order, then the struct   *)
(* is defined.                                                             *)
Define ==
  /\ phase = "define" /\ pos <= Len(items)
  /\ LET translated == FoldLeft(translate_field, [tab |-> interner, ids |-> << >>],
                                items[pos].fields)
     IN  interner' = define_type(translated.tab, type_name_to_id[items[pos].name],
                                 StructInfo(translated.ids))
  /\ pos' = pos + 1
  /\ UNCHANGED <<items, type_name_to_id, rt_types, phase>>

(* compile_program registers every type of all_types. *)
Register ==
  LET layout == Layouts(id2info)
  IN  /\ phase = "register" /\ pos <= Len(id2info) /\ pos \in DOMAIN layout
      /\ rt_types' = Append(rt_types, [size          |-> layout[pos].size,
                                       align         |-> layout[pos].align,
                                       gc_ptr_fields |-> gc_ptr_fields(id2info, layout, pos)])
      /\ pos' = pos + 1
      /\ UNCHANGED <<items, interner, type_name_to_id, phase>>

(* The layout of a struct that embeds itself recurses until the native     *)
(* stack is used up, which aborts the process.                             *)
Overflow ==
  /\ phase = "register" /\ pos <= Len(id2info) /\ pos \notin DOMAIN Layouts(id2info)
  /\ phase' = "aborted"
  /\ UNCHANGED <<items, interner, type_name_to_id, rt_types, pos>>

NextLoop(from, to, last) ==
  /\ phase = from /\ pos > last
  /\ phase' = to
  /\ pos' = 1
  /\ UNCHANGED <<items, interner, type_name_to_id, rt_types>>

StartDefining    == NextLoop("declare", "define", Len(items))
StartRegistering == NextLoop("define", "register", Len(items))
Finish           == NextLoop("register", "done", Len(id2info))

Next ==
  \/ Declare
  \/ StartDefining
  \/ Define
  \/ StartRegistering
  \/ Register
  \/ Overflow
  \/ Finish

Spec == Init /\ [][Next]_vars

-----------------------------------------------------------------------------
Ids == DOMAIN id2info

IsInfo(info) ==
  /\ info.kind \in Prim \cup {"Ref", "GcRef", "Struct"}
  /\ info.of \in Ids \cup {0}
  /\ info.fields \in Seq(Ids)

(* The interner's maps lead to each other.  Where two structs share a name *)
(* the second definition replaces the info of the id, and the first info   *)
(* still leads to it.                                                      *)
MapsAgree ==
  /\ \A id \in Ids : id2info[id] \in DOMAIN info2id
  /\ \A info \in DOMAIN info2id :
       LET found == id2info[info2id[info]]
       IN  found = info \/ (info.kind = "Struct" /\ found.kind = "Struct")

RtTypeData == [size : Nat, align : {1, 4, 8}, gc_ptr_fields : SUBSET Nat]

(* As many types are registered as the last loop has been through.         *)
RtTypesInStep ==
  /\ rt_types \in Seq(RtTypeData)
  /\ phase \in {"declare", "define"} => rt_types = << >>
  /\ phase = "register" => Len(rt_types) = pos - 1
  /\ phase = "done" => Len(rt_types) = Len(id2info)

(* The interner's entries refer to its own ids, its maps agree, names lead *)
(* to ids, and the runtime's table is in step with the interner.           *)
TypeOK ==
  /\ \A id \in Ids : IsInfo(id2info[id])
  /\ \A info \in DOMAIN info2id : IsInfo(info) /\ info2id[info] \in Ids
  /\ MapsAgree
  /\ DOMAIN type_name_to_id \subseteq Declared(items)
  /\ \A n \in DOMAIN type_name_to_id : type_name_to_id[n] \in Ids
  /\ phase \in {"declare", "define", "register", "done", "aborted"}
  /\ pos \in Nat \ {0}
  /\ RtTypesInStep

(* Types::i32(), f32() and bool(), which give constants their type, answer *)
(* the primitive types whatever the program declares, although declare_type    *)
(* hands out ids that hold bool until they are defined.                    *)
PrimitivesStay ==
  \A k \in Prim : /\ PrimInfo(k) \in DOMAIN info2id
                  /\ id2info[info2id[PrimInfo(k)]] = PrimInfo(k)

(* No definition refers to a placeholder: when the compiler looks at the   *)
(* types, each id some type mentions has been defined, also by structs     *)
(* further down in the text and by structs that share a name.              *)
NoPlaceholderUsed ==
  phase = "register" =>
    \A id \in Ids : \A used \in {id2info[id].of} \cup Range(id2info[id].fields) :
      used # 0 /\ id2info[used] = PrimInfo("bool") => used = info2id[PrimInfo("bool")]

(* The bytes of a struct's fields are aligned, inside it and shared by no  *)
(* two of them.                                                            *)
FieldsDisjoint ==
  phase = "done" =>
    LET layout == Layouts(id2info)
    IN  \A id \in Ids :
          LET fields == id2info[id].fields
              first(f) == layout[id].field_offsets[f]
              end(f)   == first(f) + layout[fields[f]].size
          IN  \A f \in DOMAIN fields :
                /\ first(f) % layout[fields[f]].align = 0
                /\ end(f) <= layout[id].size
                /\ \A g \in DOMAIN fields : f < g => end(f) <= first(g)

(* Where a value of the type holds gc pointers, embedded structs included: *)
(* the places inside it whose type is GcRef.                               *)
PointerOffsets(types, layout, id) ==
  {w.offset : w \in {v \in Places(types, layout, id, Len(types)) :
                       v.object = id /\ types[v.ty].kind = "GcRef"}}

(* Bytes of the structs embedded in a type. *)
Embedded(types, layout, id) ==
  LET fields   == types[id].fields
      first(f) == layout[id].field_offsets[f]
  IN  UNION {first(f)..(first(f) + layout[fields[f]].size - 1) :
               f \in {g \in DOMAIN fields : types[fields[g]].kind = "Struct"}}

(* The offsets handed to sweep are those of the gc pointers among a type's *)
(* own fields.  That the ones inside an embedded struct are not among them *)
(* is what the code does, and a finding of Runtime's; this property says   *)
(* that nothing else is missing and nothing is listed that is no pointer.  *)
RegisteredPointers ==
  phase = "done" =>
    LET layout == Layouts(id2info)
    IN  \A id \in Ids : rt_types[id].gc_ptr_fields =
                            PointerOffsets(id2info, layout, id)
                            \ Embedded(id2info, layout, id)

(* A place of up to n projections lies inside the local or block they lead *)
(* to, aligned for its type.                                               *)
PlacesFit(n) ==
  phase = "done" =>
    LET layout == Layouts(id2info)
    IN  \A id \in Ids : \A w \in Places(id2info, layout, id, n) :
          /\ w.offset + layout[w.ty].size <= layout[w.object].size
          /\ w.offset % layout[w.ty].align = 0

(* The places that TLC looks at: of up to three projections.               *)
PlacesInBounds == PlacesFit(3)

(* Assigning a struct copies all of it ("We perform a copy").              *)
CopiesWhole ==
  phase = "done" =>
    LET layout == Layouts(id2info)
    IN  \A id \in Ids : AccessBytes(id2info, layout, id) \in {0, layout[id].size}

=============================================================================
