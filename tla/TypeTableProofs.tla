--------------------------- MODULE TypeTableProofs --------------------------
(***************************************************************************)
(* Theorems about module TypeTable, for every text: any number of structs, *)
(* of fields, of references in a path, and any sharing of names.  Two      *)
(* parts: the interner while the parser fills it, and the layouts computed *)
(* from it.                                                                *)
(***************************************************************************)
EXTENDS TypeTable, SequenceTheorems, TLAPS

Interning    == INSTANCE Folding WITH Op <- get_id
Declaring    == INSTANCE Folding WITH Op <- declare_ref
Defining     == INSTANCE Folding WITH Op <- define_ref
Translating  == INSTANCE Folding WITH Op <- translate_field
Extending    == INSTANCE Folding WITH Op <- extend

-----------------------------------------------------------------------------
(* The interner's tables.                                                  *)

Pointer == {"Ref", "GcRef"}

Info(n) == [kind : Prim \cup Pointer \cup {"Struct"}, of : 0..n, fields : Seq(1..n)]

Shaped(info) ==
  /\ info.kind \in Prim => info = PrimInfo(info.kind)
  /\ info.kind \in Pointer => info.of # 0 /\ info.fields = << >>
  /\ info.kind = "Struct" => info.of = 0

(* Each id has an info that mentions ids, and each info an id.             *)
IsTable(tab) ==
  LET n == Len(tab.id2info)
  IN  /\ tab = [id2info |-> tab.id2info, info2id |-> tab.info2id]
      /\ tab.id2info \in Seq(Info(n))
      /\ \A id \in 1..n : Shaped(tab.id2info[id])
      /\ \A info \in DOMAIN tab.info2id : info \in Info(n) /\ tab.info2id[info] \in 1..n

(* The primitive types are the first four, and found.                      *)
HasPrims(tab) ==
  /\ Len(tab.id2info) >= 4
  /\ \A k \in Prim : /\ PrimInfo(k) \in DOMAIN tab.info2id
                     /\ tab.info2id[PrimInfo(k)] \in 1..4
                     /\ tab.id2info[tab.info2id[PrimInfo(k)]] = PrimInfo(k)

(* The maps lead to each other, as MapsAgree says of the interner's.       *)
Agrees(tab) ==
  /\ \A id \in 1..Len(tab.id2info) : tab.id2info[id] \in DOMAIN tab.info2id
  /\ \A info \in DOMAIN tab.info2id :
       LET found == tab.id2info[tab.info2id[info]]
       IN  found = info \/ (info.kind = "Struct" /\ found.kind = "Struct")

(* new has what old has, and more ids.  Its maps agree if old's do: a      *)
(* placeholder is led to by no info, but bool must have been interned.     *)
Grows(old, new) ==
  /\ IsTable(new)
  /\ HasPrims(old) /\ Agrees(old) => Agrees(new)
  /\ Len(new.id2info) >= Len(old.id2info)
  /\ \A id \in 1..Len(old.id2info) : new.id2info[id] = old.id2info[id]
  /\ \A k \in Prim : PrimInfo(k) \in DOMAIN old.info2id =>
       /\ PrimInfo(k) \in DOMAIN new.info2id
       /\ new.info2id[PrimInfo(k)] = old.info2id[PrimInfo(k)]

(* An id that no later definition changes into something else than a       *)
(* struct: one of those named, or a pointer.                               *)
Settled(tab, named, id) == id \in named \/ tab.id2info[id].kind \in Pointer

UsesSettled(tab, named) ==
  \A id \in 1..Len(tab.id2info) :
    \A used \in {tab.id2info[id].of} \cup Range(tab.id2info[id].fields) :
      used # 0 => Settled(tab, named, used)

-----------------------------------------------------------------------------
(* What holds between two steps of the loops.                              *)

StructNames(k) == {items[i].name : i \in 1..k}

NamedIds == {type_name_to_id[n] : n \in DOMAIN type_name_to_id}

(* The structs declared so far, and those whose definition has been read.  *)
DeclaredStructs == StructNames(IF phase = "declare" THEN pos - 1 ELSE Len(items))

DefinedStructs ==
  CASE phase = "declare" -> {}
    [] phase = "define"  -> StructNames(pos - 1)
    [] OTHER             -> StructNames(Len(items))

InText ==
  /\ items \in Programs
  /\ phase \in {"declare", "define", "register", "done", "aborted"}
  /\ pos \in Nat \ {0}
  /\ phase \in {"declare", "define"} => pos <= Len(items) + 1
  /\ phase = "register" => pos <= Len(id2info) + 1

(* A name is that of a primitive type, with its id, or of a struct, with   *)
(* an id beyond those of the primitive types.                              *)
NamesKept ==
  /\ DOMAIN type_name_to_id = Prim \cup DeclaredStructs
  /\ \A n \in DOMAIN type_name_to_id : type_name_to_id[n] \in 1..Len(id2info)
  /\ \A n \in DeclaredStructs : type_name_to_id[n] > 4
  /\ \A n \in Prim \ DeclaredStructs : type_name_to_id[n] = info2id[PrimInfo(n)]

(* What has been read is defined.                                          *)
Defined ==
  /\ \A n \in DefinedStructs : id2info[type_name_to_id[n]].kind = "Struct"
  /\ \A n \in DeclaredStructs : id2info[type_name_to_id[n]].kind \notin Pointer
  /\ phase = "declare" => \A id \in Ids : id2info[id].kind \in Prim
  /\ UsesSettled(interner, NamedIds)

(* The runtime's table is that of the layouts of the types.                *)
Registered ==
  LET layout == Layouts(id2info)
  IN  /\ RtTypesInStep
      /\ \A id \in 1..Len(rt_types) :
           /\ id \in DOMAIN layout
           /\ rt_types[id].gc_ptr_fields = gc_ptr_fields(id2info, layout, id)

IInv ==
  InText /\ IsTable(interner) /\ Agrees(interner) /\ HasPrims(interner) /\ NamesKept /\ Defined /\ Registered

-----------------------------------------------------------------------------
(* The interner's operations.                                              *)

LEMMA InfoMonotone ==
  ASSUME NEW n \in Nat, NEW m \in Nat, n <= m
  PROVE  Info(n) \subseteq Info(m)
<1> SUFFICES ASSUME NEW info \in Info(n) PROVE info \in Info(m)
  OBVIOUS
<1>1. info = [kind |-> info.kind, of |-> info.of, fields |-> info.fields]
  BY DEF Info
<1>2. info.kind \in Prim \cup Pointer \cup {"Struct"} /\ info.of \in 0..m
  BY DEF Info
<1>3. info.fields \in Seq(1..m)
  <2>1. info.fields \in Seq(1..n)
    BY DEF Info
  <2>2. Len(info.fields) \in Nat /\ DOMAIN info.fields = 1..Len(info.fields)
    BY <2>1
  <2>3. info.fields \in [1..Len(info.fields) -> 1..m]
    BY <2>1, <2>2
  <2> QED  BY <2>2, <2>3
<1> QED  BY <1>1, <1>2, <1>3 DEF Info

(* The infos of primitive types, references and structs.                   *)
LEMMA InfosAre ==
  ASSUME NEW n \in Nat
  PROVE  /\ \A k \in Prim : PrimInfo(k) \in Info(n) /\ Shaped(PrimInfo(k))
         /\ \A k \in Pointer, id \in 1..n : RefInfo(k, id) \in Info(n) /\ Shaped(RefInfo(k, id))
         /\ \A ids \in Seq(1..n) : StructInfo(ids) \in Info(n) /\ Shaped(StructInfo(ids))
<1>1. << >> \in Seq(1..n)
  OBVIOUS
<1>2. \A k \in Prim : k \notin Pointer /\ k # "Struct"
  BY DEF Prim, Pointer
<1>3. "Struct" \notin Prim /\ "Struct" \notin Pointer
  BY DEF Prim, Pointer
<1>4. ASSUME NEW k \in Prim
      PROVE  PrimInfo(k) \in Info(n) /\ Shaped(PrimInfo(k))
  BY <1>1, <1>2 DEF PrimInfo, Info, Shaped
<1>5. ASSUME NEW k \in Pointer, NEW id \in 1..n
      PROVE  RefInfo(k, id) \in Info(n) /\ Shaped(RefInfo(k, id))
  <2>1. k \notin Prim /\ k # "Struct"
    BY <1>2, <1>3
  <2> QED  BY <1>1, <2>1 DEF RefInfo, Info, Shaped
<1>6. ASSUME NEW ids \in Seq(1..n)
      PROVE  StructInfo(ids) \in Info(n) /\ Shaped(StructInfo(ids))
  BY <1>3 DEF StructInfo, Info, Shaped
<1> QED  BY <1>4, <1>5, <1>6

(* Infos that differ in kind differ.                                       *)
LEMMA InfosDiffer ==
  /\ \A k, l : PrimInfo(k) = PrimInfo(l) => k = l
  /\ \A k \in Prim, l \in Pointer : \A id : PrimInfo(k) # RefInfo(l, id)
  /\ \A k \in Prim : \A ids : PrimInfo(k) # StructInfo(ids)
<1>1. \A k : PrimInfo(k).kind = k
  BY DEF PrimInfo
<1>2. \A k, id : RefInfo(k, id).kind = k
  BY DEF RefInfo
<1>3. \A ids : StructInfo(ids).kind = "Struct"
  BY DEF StructInfo
<1>4. \A k \in Prim : k \notin Pointer /\ k # "Struct"
  BY DEF Prim, Pointer
<1> QED  BY <1>1, <1>2, <1>3, <1>4

LEMMA TableParts ==
  ASSUME NEW tab, IsTable(tab)
  PROVE  /\ Len(tab.id2info) \in Nat
         /\ tab.id2info \in Seq(Info(Len(tab.id2info)))
         /\ DOMAIN tab.id2info = 1..Len(tab.id2info)
         /\ \A id \in 1..Len(tab.id2info) : /\ tab.id2info[id] \in Info(Len(tab.id2info))
                                            /\ Shaped(tab.id2info[id])
         /\ \A info \in DOMAIN tab.info2id : /\ info \in Info(Len(tab.id2info))
                                             /\ tab.info2id[info] \in 1..Len(tab.id2info)
BY DEF IsTable

(* A table is one if its entries are infos over its length.                *)
LEMMA TableFrom ==
  ASSUME NEW ids, NEW infos, NEW n \in Nat, NEW tab,
         tab = [id2info |-> ids, info2id |-> infos],
         ids \in Seq(Info(n)), Len(ids) = n,
         \A id \in 1..n : Shaped(ids[id]),
         \A info \in DOMAIN infos : info \in Info(n) /\ infos[info] \in 1..n
  PROVE  IsTable(tab)
BY DEF IsTable

LEMMA DeclareTable ==
  ASSUME NEW tab, IsTable(tab), NEW new, new = declare_type(tab)
  PROVE  /\ Grows(tab, new)
         /\ Len(new.id2info) = Len(tab.id2info) + 1
         /\ new.id2info[Len(tab.id2info) + 1] = PrimInfo("bool")
         /\ new.info2id = tab.info2id
<1> DEFINE n == Len(tab.id2info)
           ids == Append(tab.id2info, PrimInfo("bool"))
<1>1. n \in Nat /\ tab.id2info \in Seq(Info(n))
  BY TableParts
<1>2. tab = [id2info |-> tab.id2info, info2id |-> tab.info2id]
  BY DEF IsTable
<1>3. new = [id2info |-> ids, info2id |-> tab.info2id]
  BY <1>2 DEF declare_type
<1>4. "bool" \in Prim
  BY DEF Prim
<1>5. PrimInfo("bool") \in Info(n + 1) /\ Shaped(PrimInfo("bool"))
  BY <1>1, <1>4, InfosAre
<1>6. Info(n) \subseteq Info(n + 1)
  BY <1>1, InfoMonotone
<1>7. tab.id2info \in Seq(Info(n + 1))
  BY <1>1, <1>6
<1>8. /\ ids \in Seq(Info(n + 1)) /\ Len(ids) = n + 1
      /\ \A id \in 1..n : ids[id] = tab.id2info[id]
      /\ ids[n + 1] = PrimInfo("bool")
  BY <1>1, <1>5, <1>7
<1>9. \A id \in 1..(n + 1) : Shaped(ids[id])
  <2> SUFFICES ASSUME NEW id \in 1..(n + 1) PROVE Shaped(ids[id])
    OBVIOUS
  <2>1. CASE id = n + 1
    BY <1>5, <1>8, <2>1
  <2>2. CASE id \in 1..n
    BY <1>8, <2>2, TableParts
  <2> QED  BY <1>1, <2>1, <2>2
<1>10. \A info \in DOMAIN tab.info2id : info \in Info(n + 1) /\ tab.info2id[info] \in 1..(n + 1)
  BY <1>1, <1>6, TableParts
<1> HIDE DEF ids
<1>11. IsTable(new)
  <2>1. PICK m \in Nat : m = n + 1
    BY <1>1
  <2>2. /\ ids \in Seq(Info(m)) /\ Len(ids) = m /\ \A id \in 1..m : Shaped(ids[id])
        /\ \A info \in DOMAIN tab.info2id : info \in Info(m) /\ tab.info2id[info] \in 1..m
    BY <1>8, <1>9, <1>10, <2>1
  <2> QED  BY ONLY m \in Nat, <1>3, <2>2, TableFrom
<1>12. new.id2info = ids /\ new.info2id = tab.info2id
  BY <1>3
<1>13. ASSUME HasPrims(tab), Agrees(tab) PROVE Agrees(new)
  <2>1. ASSUME NEW id \in 1..(n + 1) PROVE ids[id] \in DOMAIN tab.info2id
    <3>1. CASE id = n + 1
      BY <1>4, <1>8, <1>13, <3>1 DEF HasPrims
    <3>2. CASE id \in 1..n
      BY <1>8, <1>13, <3>2 DEF Agrees
    <3> QED  BY <1>1, <3>1, <3>2
  <2>2. \A info \in DOMAIN tab.info2id : ids[tab.info2id[info]] = tab.id2info[tab.info2id[info]]
    BY <1>8, TableParts
  <2> QED  BY <1>8, <1>12, <1>13, <2>1, <2>2 DEF Agrees
<1> QED  BY <1>1, <1>8, <1>11, <1>12, <1>13 DEF Grows

(* A definition replaces the info of its id and touches nothing else, but  *)
(* for the way from the info to the id.                                    *)
LEMMA DefineTable ==
  ASSUME NEW tab, IsTable(tab), NEW id \in 1..Len(tab.id2info),
         NEW info \in Info(Len(tab.id2info)), Shaped(info),
         NEW new, new = define_type(tab, id, info)
  PROVE  /\ IsTable(new)
         /\ Len(new.id2info) = Len(tab.id2info)
         /\ new.id2info[id] = info
         /\ \A i \in 1..Len(tab.id2info) : i # id => new.id2info[i] = tab.id2info[i]
         /\ \A i \in DOMAIN tab.info2id : /\ i \in DOMAIN new.info2id
                                          /\ i # info => new.info2id[i] = tab.info2id[i]
         /\ \A i \in DOMAIN new.info2id : \/ i = info /\ new.info2id[i] = id
                                          \/ i \in DOMAIN tab.info2id
                                             /\ new.info2id[i] = tab.info2id[i]
         /\ info \in DOMAIN new.info2id
<1> DEFINE n == Len(tab.id2info)
           ids == [tab.id2info EXCEPT ![id] = info]
           infos == [i \in DOMAIN tab.info2id \cup {info} |->
                       IF i = info THEN id ELSE tab.info2id[i]]
<1>1. /\ n \in Nat /\ tab.id2info \in Seq(Info(n)) /\ DOMAIN tab.id2info = 1..n
      /\ id \in 1..n /\ info \in Info(n)
  BY TableParts
<1>2. new = [id2info |-> ids, info2id |-> infos]
  BY DEF define_type
<1>3. /\ ids \in Seq(Info(n)) /\ Len(ids) = n /\ ids[id] = info
      /\ \A i \in 1..n : i # id => ids[i] = tab.id2info[i]
  BY <1>1
<1>4. \A i \in 1..n : Shaped(ids[i])
  BY <1>3, TableParts
<1>5. \A i \in DOMAIN infos : i \in Info(n) /\ infos[i] \in 1..n
  BY <1>1, TableParts
<1>6. /\ \A i \in DOMAIN tab.info2id : i \in DOMAIN infos /\ (i # info => infos[i] = tab.info2id[i])
      /\ \A i \in DOMAIN infos : \/ i = info /\ infos[i] = id
                                 \/ i \in DOMAIN tab.info2id /\ infos[i] = tab.info2id[i]
      /\ info \in DOMAIN infos
  OBVIOUS
<1> HIDE DEF ids, infos
<1>7. IsTable(new)
  BY <1>1, <1>2, <1>3, <1>4, <1>5, TableFrom
<1>8. new.id2info = ids /\ new.info2id = infos
  BY <1>2
<1> QED  BY <1>3, <1>6, <1>7, <1>8

(* Maps that agree do so after a definition, if no info led to the id, or  *)
(* only a struct's to what is a struct again.                              *)
LEMMA DefineAgrees ==
  ASSUME NEW tab, IsTable(tab), Agrees(tab), NEW id \in 1..Len(tab.id2info),
         NEW info \in Info(Len(tab.id2info)), Shaped(info),
         \A i \in DOMAIN tab.info2id :
           tab.info2id[i] = id => i.kind = "Struct" /\ info.kind = "Struct",
         NEW new, new = define_type(tab, id, info)
  PROVE  Agrees(new)
<1>1. PICK n \in Nat : n = Len(tab.id2info)
  BY TableParts
<1>2. /\ Len(new.id2info) = n /\ new.id2info[id] = info /\ info \in DOMAIN new.info2id
      /\ \A i \in 1..n : i # id => new.id2info[i] = tab.id2info[i]
      /\ \A i \in DOMAIN tab.info2id : i \in DOMAIN new.info2id
      /\ \A i \in DOMAIN new.info2id : \/ i = info /\ new.info2id[i] = id
                                       \/ i \in DOMAIN tab.info2id
                                          /\ new.info2id[i] = tab.info2id[i]
  BY <1>1, DefineTable
<1>3. \A i \in 1..n : new.id2info[i] \in DOMAIN new.info2id
  BY <1>1, <1>2 DEF Agrees
<1>4. ASSUME NEW i \in DOMAIN new.info2id, NEW found, found = new.id2info[new.info2id[i]]
      PROVE  found = i \/ (i.kind = "Struct" /\ found.kind = "Struct")
  <2>1. CASE i = info /\ new.info2id[i] = id
    BY <1>2, <1>4, <2>1
  <2>2. CASE i \in DOMAIN tab.info2id /\ new.info2id[i] = tab.info2id[i]
    <3>1. PICK j \in 1..n : j = tab.info2id[i]
      BY <1>1, <2>2, TableParts
    <3>2. CASE j = id
      BY <1>2, <1>4, <2>2, <3>1, <3>2
    <3>3. CASE j # id
      BY <1>2, <1>4, <2>2, <3>1, <3>3 DEF Agrees
    <3> QED  BY <3>2, <3>3
  <2> QED  BY <1>2, <1>4, <2>1, <2>2
<1> QED  BY <1>2, <1>3, <1>4 DEF Agrees

-----------------------------------------------------------------------------
(* The folds of TypeTable by name, each with the run that leads to it.     *)

InternAll(base, infos)      == FoldLeft(get_id, base, infos)
DeclareRefs(base, refs)     == FoldLeft(declare_ref, base, refs)
DefineRefs(base, refs)      == FoldLeft(define_ref, base, refs)
TranslateFields(base, paths) == FoldLeft(translate_field, base, paths)
ExtendAll(base, layouts)    == FoldLeft(extend, base, layouts)

LEMMA InternAllRun ==
  ASSUME NEW base, NEW n \in Nat, NEW seq, DOMAIN seq = 1..n
  PROVE  \E run : /\ run[0] = base
                  /\ \A i \in 1..n : run[i] = get_id(run[i - 1], seq[i])
                  /\ run[n] = InternAll(base, seq)
<1>1. Interning!FoldLeft(get_id, base, seq) = FoldLeft(get_id, base, seq)
  BY DEF FoldLeft, Interning!FoldLeft, MapThenFoldSet, Interning!MapThenFoldSet,
         Max, Interning!Max
<1>2. \E run : Interning!IsRun(run, base, seq, n)
               /\ run[n] = Interning!FoldLeft(get_id, base, seq)
  BY Interning!FoldLeftRun
<1> QED  BY <1>1, <1>2 DEF Interning!IsRun, InternAll

LEMMA DeclareRefsRun ==
  ASSUME NEW base, NEW n \in Nat, NEW seq, DOMAIN seq = 1..n
  PROVE  \E run : /\ run[0] = base
                  /\ \A i \in 1..n : run[i] = declare_ref(run[i - 1], seq[i])
                  /\ run[n] = DeclareRefs(base, seq)
<1>1. Declaring!FoldLeft(declare_ref, base, seq) = FoldLeft(declare_ref, base, seq)
  BY DEF FoldLeft, Declaring!FoldLeft, MapThenFoldSet, Declaring!MapThenFoldSet,
         Max, Declaring!Max
<1>2. \E run : Declaring!IsRun(run, base, seq, n)
               /\ run[n] = Declaring!FoldLeft(declare_ref, base, seq)
  BY Declaring!FoldLeftRun
<1> QED  BY <1>1, <1>2 DEF Declaring!IsRun, DeclareRefs

LEMMA DefineRefsRun ==
  ASSUME NEW base, NEW n \in Nat, NEW seq, DOMAIN seq = 1..n
  PROVE  \E run : /\ run[0] = base
                  /\ \A i \in 1..n : run[i] = define_ref(run[i - 1], seq[i])
                  /\ run[n] = DefineRefs(base, seq)
<1>1. Defining!FoldLeft(define_ref, base, seq) = FoldLeft(define_ref, base, seq)
  BY DEF FoldLeft, Defining!FoldLeft, MapThenFoldSet, Defining!MapThenFoldSet,
         Max, Defining!Max
<1>2. \E run : Defining!IsRun(run, base, seq, n)
               /\ run[n] = Defining!FoldLeft(define_ref, base, seq)
  BY Defining!FoldLeftRun
<1> QED  BY <1>1, <1>2 DEF Defining!IsRun, DefineRefs

LEMMA TranslateFieldsRun ==
  ASSUME NEW base, NEW n \in Nat, NEW seq, DOMAIN seq = 1..n
  PROVE  \E run : /\ run[0] = base
                  /\ \A i \in 1..n : run[i] = translate_field(run[i - 1], seq[i])
                  /\ run[n] = TranslateFields(base, seq)
<1>1. Translating!FoldLeft(translate_field, base, seq) = FoldLeft(translate_field, base, seq)
  BY DEF FoldLeft, Translating!FoldLeft, MapThenFoldSet, Translating!MapThenFoldSet,
         Max, Translating!Max
<1>2. \E run : Translating!IsRun(run, base, seq, n)
               /\ run[n] = Translating!FoldLeft(translate_field, base, seq)
  BY Translating!FoldLeftRun
<1> QED  BY <1>1, <1>2 DEF Translating!IsRun, TranslateFields

LEMMA ExtendAllRun ==
  ASSUME NEW base, NEW n \in Nat, NEW seq, DOMAIN seq = 1..n
  PROVE  \E run : /\ run[0] = base
                  /\ \A i \in 1..n : run[i] = extend(run[i - 1], seq[i])
                  /\ run[n] = ExtendAll(base, seq)
<1>1. Extending!FoldLeft(extend, base, seq) = FoldLeft(extend, base, seq)
  BY DEF FoldLeft, Extending!FoldLeft, MapThenFoldSet, Extending!MapThenFoldSet,
         Max, Extending!Max
<1>2. \E run : Extending!IsRun(run, base, seq, n)
               /\ run[n] = Extending!FoldLeft(extend, base, seq)
  BY Extending!FoldLeftRun
<1> QED  BY <1>1, <1>2 DEF Extending!IsRun, ExtendAll

-----------------------------------------------------------------------------
(* Translating a type path.                                                *)

LEMMA GrowsHasPrims ==
  ASSUME NEW old, IsTable(old), HasPrims(old), NEW new, Grows(old, new)
  PROVE  HasPrims(new)
<1>1. Len(old.id2info) \in Nat /\ Len(new.id2info) \in Nat
  BY TableParts DEF Grows
<1>2. Len(new.id2info) >= 4
  BY <1>1 DEF Grows, HasPrims
<1>3. ASSUME NEW k \in Prim
      PROVE  /\ PrimInfo(k) \in DOMAIN new.info2id
             /\ new.info2id[PrimInfo(k)] \in 1..4
             /\ new.id2info[new.info2id[PrimInfo(k)]] = PrimInfo(k)
  <2>1. PICK id \in 1..4 : /\ id = old.info2id[PrimInfo(k)]
                           /\ old.id2info[id] = PrimInfo(k)
                           /\ PrimInfo(k) \in DOMAIN old.info2id
    BY DEF HasPrims
  <2>2. id \in 1..Len(old.id2info)
    BY <1>1 DEF HasPrims
  <2>3. new.id2info[id] = old.id2info[id]
    BY <2>2 DEF Grows
  <2>4. PrimInfo(k) \in DOMAIN new.info2id /\ new.info2id[PrimInfo(k)] = id
    BY <2>1 DEF Grows
  <2> QED  BY <2>1, <2>3, <2>4
<1> QED  BY <1>2, <1>3 DEF HasPrims

LEMMA GrowsTransitive ==
  ASSUME NEW a, NEW b, NEW c, IsTable(a), Grows(a, b), Grows(b, c)
  PROVE  Grows(a, c)
<1>1. Len(a.id2info) \in Nat /\ Len(b.id2info) \in Nat /\ Len(c.id2info) \in Nat
  BY TableParts DEF Grows
<1>2. HasPrims(a) => HasPrims(b)
  BY GrowsHasPrims
<1> QED  BY <1>1, <1>2 DEF Grows

LEMMA DeclareRefsEffect ==
  ASSUME NEW tab, IsTable(tab), NEW n \in Nat, NEW refs, DOMAIN refs = 1..n,
         NEW new, new = DeclareRefs(tab, refs)
  PROVE  /\ Grows(tab, new) /\ Len(new.id2info) = Len(tab.id2info) + n
         /\ new.info2id = tab.info2id
<1>1. PICK run : /\ run[0] = tab
                 /\ \A i \in 1..n : run[i] = declare_ref(run[i - 1], refs[i])
                 /\ run[n] = new
  BY DeclareRefsRun
<1> DEFINE P(i) == /\ Grows(tab, run[i]) /\ Len(run[i].id2info) = Len(tab.id2info) + i
                   /\ run[i].info2id = tab.info2id
           S == {i \in 0..n : P(i)}
<1>2. 0 \in S
  BY <1>1, TableParts DEF Grows
<1>3. ASSUME NEW i \in 0..(n - 1), i \in S
      PROVE  i + 1 \in S
  <2>1. i + 1 \in 1..n /\ (i + 1) - 1 = i
    OBVIOUS
  <2>2. run[i + 1] = declare_type(run[i])
    BY <1>1, <2>1 DEF declare_ref
  <2>3. P(i)
    BY <1>3
  <2>4. IsTable(run[i])
    BY <2>3 DEF Grows
  <2>5. /\ Grows(run[i], run[i + 1]) /\ Len(run[i + 1].id2info) = Len(run[i].id2info) + 1
        /\ run[i + 1].info2id = run[i].info2id
    BY <2>2, <2>4, DeclareTable
  <2>6. Grows(tab, run[i + 1])
    BY <2>3, <2>5, GrowsTransitive
  <2>7. Len(tab.id2info) \in Nat
    BY TableParts
  <2> QED  BY <2>1, <2>3, <2>5, <2>6, <2>7
<1>4. 0..n \subseteq S
  <2> HIDE DEF S
  <2> QED  BY <1>2, <1>3, Declaring!UpTo
<1> QED  BY <1>1, <1>4

(* The references of a path are defined from the last id down: the first i *)
(* of the list are, and nothing leads to the ids of the others.            *)
RefsDefined(tab, top, refs, i, new) ==
  /\ Grows(tab, new)
  /\ Len(new.id2info) = top
  /\ \A j \in 1..i : new.id2info[top + 1 - j] = refs[j].info
  /\ \A info \in DOMAIN new.info2id : \/ new.info2id[info] \in 1..Len(tab.id2info)
                                       \/ new.info2id[info] > top - i

LEMMA DefineOneRef ==
  ASSUME NEW tab, IsTable(tab), NEW m \in Nat, m = Len(tab.id2info), NEW top \in Nat,
         NEW refs, NEW i \in Nat, i >= 1, m + i <= top, NEW old,
         RefsDefined(tab, top, refs, i - 1, old),
         NEW k \in Pointer, NEW target \in 1..top, NEW info, info = refs[i].info,
         info = RefInfo(k, target),
         NEW at, at = top + 1 - i,
         NEW new, new = define_type(old, at, info)
  PROVE  RefsDefined(tab, top, refs, i, new)
<1>1. at \in Int /\ m < at /\ at <= top /\ 1 <= at
  OBVIOUS
<1>2. at \in 1..top /\ \A j \in 1..m : j # at /\ j \in 1..top
  BY <1>1
<1>3. Grows(tab, old) /\ IsTable(old) /\ Len(old.id2info) = top
  BY DEF RefsDefined, Grows
<1>4. info \in Info(top) /\ Shaped(info) /\ \A p \in Prim : PrimInfo(p) # info
  BY InfosAre, InfosDiffer
<1>5. /\ IsTable(new)
      /\ Len(new.id2info) = top
      /\ new.id2info[at] = info
      /\ \A j \in 1..top : j # at => new.id2info[j] = old.id2info[j]
      /\ \A j \in DOMAIN old.info2id : /\ j \in DOMAIN new.info2id
                                       /\ j # info => new.info2id[j] = old.info2id[j]
      /\ \A j \in DOMAIN new.info2id : \/ j = info /\ new.info2id[j] = at
                                       \/ j \in DOMAIN old.info2id
                                          /\ new.info2id[j] = old.info2id[j]
  <2>1. at \in 1..Len(old.id2info) /\ info \in Info(Len(old.id2info))
    BY <1>2, <1>3, <1>4
  <2> QED  BY ONLY <1>3, <1>4, <2>1, new = define_type(old, at, info), DefineTable
<1>6. \A j \in 1..m : new.id2info[j] = old.id2info[j]
  BY <1>2, <1>5
<1>7. Grows(tab, new)
  <2>1. \A j \in DOMAIN old.info2id : /\ old.info2id[j] \in 1..top
                                      /\ old.info2id[j] \in 1..m \/ old.info2id[j] > top - (i - 1)
    BY <1>3, TableParts DEF RefsDefined
  <2>2. \A j \in DOMAIN old.info2id : old.info2id[j] # at
    BY <1>1, <2>1
  <2>3. ASSUME HasPrims(tab), Agrees(tab) PROVE Agrees(new)
    <3>1. Agrees(old)
      BY <1>3, <2>3 DEF Grows
    <3>2. at \in 1..Len(old.id2info) /\ info \in Info(Len(old.id2info))
      BY <1>2, <1>3, <1>4
    <3> QED  BY ONLY <1>3, <1>4, <2>2, <3>1, <3>2, new = define_type(old, at, info), DefineAgrees
  <2> QED  BY <1>3, <1>4, <1>5, <1>6, <2>3 DEF Grows
<1>9. ASSUME NEW j \in DOMAIN new.info2id
      PROVE  new.info2id[j] \in 1..m \/ new.info2id[j] > top - i
  <2>1. CASE new.info2id[j] = at
    BY <1>1, <2>1
  <2>2. CASE j \in DOMAIN old.info2id /\ new.info2id[j] = old.info2id[j]
    <3>1. old.info2id[j] \in 1..top
      BY <1>3, <2>2, TableParts
    <3>2. old.info2id[j] \in 1..m \/ old.info2id[j] > top - (i - 1)
      BY <2>2 DEF RefsDefined
    <3> QED  BY <2>2, <3>1, <3>2
  <2> QED  BY <1>5, <2>1, <2>2
<1>8. ASSUME NEW j \in 1..i
      PROVE  new.id2info[top + 1 - j] = refs[j].info
  <2>1. CASE j = i
    BY <1>5, <2>1
  <2>2. CASE j # i
    <3>1. j \in 1..(i - 1) /\ top + 1 - j \in 1..top /\ top + 1 - j # at
      BY <2>2
    <3>2. old.id2info[top + 1 - j] = refs[j].info
      BY <3>1 DEF RefsDefined
    <3> QED  BY <1>5, <3>1, <3>2
  <2> QED  BY <2>1, <2>2
<1> QED  BY <1>5, <1>7, <1>8, <1>9 DEF RefsDefined

LEMMA DefineRefsEffect ==
  ASSUME NEW tab, IsTable(tab), NEW m \in Nat, m = Len(tab.id2info), NEW n \in Nat,
         NEW top, top = m + n,
         NEW dec, Grows(tab, dec), Len(dec.id2info) = top, dec.info2id = tab.info2id,
         NEW refs, DOMAIN refs = 1..n,
         \A i \in 1..n : /\ refs[i].id = top + 1 - i
                         /\ \E k \in Pointer, target \in 1..top : refs[i].info = RefInfo(k, target),
         NEW new, new = DefineRefs(dec, refs)
  PROVE  RefsDefined(tab, top, refs, n, new)
<1>1. PICK run : /\ run[0] = dec
                 /\ \A i \in 1..n : run[i] = define_ref(run[i - 1], refs[i])
                 /\ run[n] = new
  BY ONLY n \in Nat, DOMAIN refs = 1..n, new = DefineRefs(dec, refs), DefineRefsRun
<1> DEFINE S == {i \in 0..n : RefsDefined(tab, top, refs, i, run[i])}
<1>2. 0 \in S
  <2>1. 1..0 = {} /\ 0 \in 0..n
    OBVIOUS
  <2>2. RefsDefined(tab, top, refs, 0, dec)
    BY <2>1, TableParts DEF RefsDefined
  <2> QED  BY <1>1, <2>1, <2>2
<1>3. ASSUME NEW i \in 0..(n - 1), i \in S
      PROVE  i + 1 \in S
  <2>1. PICK j \in Nat : j = i + 1
    OBVIOUS
  <2>2. j \in 1..n /\ j \in 0..n /\ j - 1 = i /\ j >= 1 /\ m + j <= top /\ top \in Nat
    BY <2>1
  <2>3. run[j] = define_type(run[i], refs[j].id, refs[j].info)
    BY <1>1, <2>2 DEF define_ref
  <2>4. RefsDefined(tab, top, refs, j - 1, run[i])
    BY <1>3, <2>2
  <2>5. PICK k \in Pointer, target \in 1..top : refs[j].info = RefInfo(k, target)
    BY <2>2
  <2>6. refs[j].id = top + 1 - j
    BY <2>2
  <2>7. RefsDefined(tab, top, refs, j, run[j])
    BY ONLY IsTable(tab), m \in Nat, m = Len(tab.id2info), <2>2, <2>3, <2>4, <2>5, <2>6,
            DefineOneRef
  <2> QED  BY <2>1, <2>2, <2>7
<1>4. 0..n \subseteq S
  <2> HIDE DEF S
  <2> QED  BY <1>2, <1>3, Defining!UpTo
<1>5. n \in 0..n
  OBVIOUS
<1> QED  BY <1>1, <1>4, <1>5

(* A path adds the pointers it consists of, each to the next, and the last *)
(* to the type named at its end.                                           *)
LEMMA TranslateTypeEffect ==
  ASSUME NEW tab, IsTable(tab), NEW names, NEW path \in ParsedTypePath,
         NEW end \in 1..Len(tab.id2info), end = names[path.name],
         NEW t, t = translate_type(tab, names, path)
  PROVE  /\ Grows(tab, t.tab)
         /\ t.id \in 1..Len(t.tab.id2info)
         /\ t.id = end \/ t.tab.id2info[t.id].kind \in Pointer
         /\ \A id \in 1..Len(t.tab.id2info) : id > Len(tab.id2info) =>
              /\ t.tab.id2info[id].kind \in Pointer
              /\ t.tab.id2info[id].of = end \/ t.tab.id2info[id].of > Len(tab.id2info)
<1>1. PICK m \in Nat : m = Len(tab.id2info)
  BY TableParts
<1>2. path.refs \in Seq(Pointer)
  BY DEF ParsedTypePath, Pointer
<1>3. PICK n \in Nat : n = Len(path.refs) /\ DOMAIN path.refs = 1..n
  BY <1>2
<1>4. \A i \in 1..n : path.refs[i] \in Pointer
  BY <1>2, <1>3
<1> DEFINE target(i) == IF i = n THEN names[path.name] ELSE m + (i + 1)
           ref(i) == [id |-> m + i, info |-> RefInfo(path.refs[i], target(i))]
           refs == [i \in 1..n |-> ref(n + 1 - i)]
           dec == DeclareRefs(tab, path.refs)
<1>5. /\ t.id = (IF n = 0 THEN names[path.name] ELSE m + 1)
      /\ t.tab = DefineRefs(dec, refs)
  BY <1>1, <1>3 DEF translate_type, DeclareRefs, DefineRefs
<1>6. Grows(tab, dec) /\ Len(dec.id2info) = m + n /\ dec.info2id = tab.info2id
  BY ONLY <1>1, <1>3, IsTable(tab), DeclareRefsEffect
<1>7. ASSUME NEW i \in 1..n
      PROVE  target(i) \in 1..(m + n) /\ (target(i) = end \/ target(i) > m)
  <2>1. CASE i = n
    <3>1. target(i) = end /\ end \in 1..m
      BY <1>1, <2>1
    <3> QED  BY <3>1
  <2>2. CASE i # n
    <3>1. target(i) = m + (i + 1) /\ i + 1 \in 1..n
      BY <2>2
    <3> QED  BY <3>1
  <2> QED  BY <2>1, <2>2
<1>8. PICK top \in Nat : top = m + n
  OBVIOUS
<1>9. DOMAIN refs = 1..n
  OBVIOUS
<1>10. ASSUME NEW i \in 1..n
       PROVE  /\ refs[i].id = top + 1 - i
              /\ \E k \in Pointer, l \in 1..top : refs[i].info = RefInfo(k, l)
  <2>1. PICK j \in 1..n : j = n + 1 - i
    OBVIOUS
  <2>2. refs[i] = [id |-> m + j, info |-> RefInfo(path.refs[j], target(j))]
    BY <2>1
  <2>3. m + j = top + 1 - i
    BY <1>8, <2>1
  <2>4. path.refs[j] \in Pointer /\ target(j) \in 1..top
    BY <1>4, <1>7, <1>8
  <2> HIDE DEF refs, target
  <2> QED  BY <2>2, <2>3, <2>4
<1>11. ASSUME NEW j \in 1..n
       PROVE  refs[n + 1 - j].info = RefInfo(path.refs[j], target(j))
  <2>1. n + 1 - j \in 1..n /\ n + 1 - (n + 1 - j) = j
    OBVIOUS
  <2> QED  BY <2>1
<1> HIDE DEF refs, dec, target
<1>12. RefsDefined(tab, top, refs, n, t.tab)
  <2>1. PICK new : new = t.tab
    OBVIOUS
  <2>2. PICK d : d = dec
    OBVIOUS
  <2>3. PICK r : r = refs
    OBVIOUS
  <2>4. /\ new = DefineRefs(d, r) /\ Grows(tab, d) /\ Len(d.id2info) = top
        /\ d.info2id = tab.info2id /\ DOMAIN r = 1..n
    BY <1>5, <1>6, <1>8, <1>9, <2>1, <2>2, <2>3
  <2>5. \A i \in 1..n : /\ r[i].id = top + 1 - i
                        /\ \E k \in Pointer, l \in 1..top : r[i].info = RefInfo(k, l)
    BY <1>10, <2>3
  <2>6. RefsDefined(tab, top, r, n, new)
    BY ONLY <1>1, IsTable(tab), m \in Nat, n \in Nat, <1>8, <2>4, <2>5, DefineRefsEffect
  <2> QED  BY <2>1, <2>3, <2>6
<1>13. Grows(tab, t.tab) /\ Len(t.tab.id2info) = top
  BY <1>12 DEF RefsDefined
<1>14. ASSUME NEW j \in 1..n
       PROVE  t.tab.id2info[m + j] = RefInfo(path.refs[j], target(j))
  <2>1. PICK i \in 1..n : i = n + 1 - j
    OBVIOUS
  <2>2. top + 1 - i = m + j
    BY <1>8, <2>1
  <2>3. t.tab.id2info[top + 1 - i] = refs[i].info
    BY <1>12 DEF RefsDefined
  <2> QED  BY <1>11, <2>1, <2>2, <2>3
<1>15. ASSUME NEW id \in 1..top, id > m
       PROVE  /\ t.tab.id2info[id].kind \in Pointer
              /\ t.tab.id2info[id].of = end \/ t.tab.id2info[id].of > m
  <2>1. PICK j \in 1..n : id = m + j
    <3>1. id - m \in 1..n /\ id = m + (id - m)
      BY <1>8, <1>15
    <3> QED  BY <3>1
  <2>2. t.tab.id2info[id] = RefInfo(path.refs[j], target(j))
    BY <1>14, <2>1
  <2> QED  BY <1>4, <1>7, <2>2 DEF RefInfo
<1>16. /\ t.id \in 1..top
       /\ t.id = end \/ t.tab.id2info[t.id].kind \in Pointer
  <2>1. CASE n = 0
    BY <1>1, <1>5, <1>8, <2>1
  <2>2. CASE n # 0
    <3>1. t.id = m + 1 /\ m + 1 \in 1..top /\ m + 1 > m
      BY <1>5, <1>8, <2>2
    <3> QED  BY <1>15, <3>1
  <2> QED  BY <2>1, <2>2
<1> QED  BY <1>1, <1>13, <1>15, <1>16

(* What later definitions cannot change stays, and a path mentions only    *)
(* that.                                                                   *)
LEMMA SettledGrows ==
  ASSUME NEW tab, NEW new, Grows(tab, new), NEW named,
         NEW id \in 1..Len(tab.id2info), Settled(tab, named, id)
  PROVE  Settled(new, named, id)
BY DEF Grows, Settled

LEMMA TranslateTypeSettled ==
  ASSUME NEW tab, IsTable(tab), NEW names, NEW path \in ParsedTypePath,
         NEW end \in 1..Len(tab.id2info), end = names[path.name],
         NEW t, t = translate_type(tab, names, path),
         NEW named, end \in named, UsesSettled(tab, named)
  PROVE  UsesSettled(t.tab, named) /\ Settled(t.tab, named, t.id)
<1>1. PICK new : new = t.tab
  OBVIOUS
<1>2. PICK m \in Nat : m = Len(tab.id2info)
  BY TableParts
<1>3. /\ Grows(tab, new) /\ IsTable(new)
      /\ t.id = end \/ new.id2info[t.id].kind \in Pointer
      /\ \A id \in 1..Len(new.id2info) : id > m =>
           /\ new.id2info[id].kind \in Pointer
           /\ new.id2info[id].of = end \/ new.id2info[id].of > m
  BY <1>1, <1>2, TranslateTypeEffect DEF Grows
<1>4. PICK n \in Nat : n = Len(new.id2info) /\ m <= n
  BY <1>2, <1>3, TableParts DEF Grows
<1>5. ASSUME NEW id \in 1..n,
             NEW used \in {new.id2info[id].of} \cup Range(new.id2info[id].fields), used # 0
      PROVE  Settled(new, named, used)
  <2>1. CASE id <= m
    <3>1. id \in 1..m /\ new.id2info[id] = tab.id2info[id]
      BY <1>2, <1>3, <2>1 DEF Grows
    <3>2. Settled(tab, named, used)
      BY <1>2, <1>5, <3>1 DEF UsesSettled
    <3>3. tab.id2info[id] \in Info(m)
      BY <1>2, <3>1, TableParts
    <3>4. used \in 1..m
      <4>1. tab.id2info[id].of \in 0..m /\ tab.id2info[id].fields \in Seq(1..m)
        BY <3>3 DEF Info
      <4>2. Range(tab.id2info[id].fields) \subseteq 1..m
        BY <4>1, RangeOfSeq
      <4> QED  BY <1>5, <3>1, <4>1, <4>2
    <3> QED  BY <1>2, <1>3, <3>2, <3>4, SettledGrows
  <2>2. CASE id > m
    <3>1. new.id2info[id].kind \in Pointer /\ Shaped(new.id2info[id])
          /\ new.id2info[id] \in Info(n)
      BY <1>3, <1>4, <2>2, TableParts
    <3>2. new.id2info[id].fields = << >>
      BY <3>1 DEF Shaped
    <3>3. Range(new.id2info[id].fields) = {}
      BY <3>2 DEF Range
    <3>4. used = new.id2info[id].of /\ used \in 0..n
      BY <1>5, <3>1, <3>3 DEF Info
    <3>5. used = end \/ (used \in 1..n /\ used > m)
      BY <1>3, <1>4, <2>2, <3>4
    <3> QED  BY <1>3, <1>4, <3>5 DEF Settled
  <2> QED  BY <2>1, <2>2
<1> QED  BY <1>1, <1>3, <1>4, <1>5 DEF UsesSettled, Settled

-----------------------------------------------------------------------------
(* Translating the fields of a struct and defining it.                     *)

FieldsTranslated(tab, named, acc) ==
  /\ Grows(tab, acc.tab)
  /\ UsesSettled(acc.tab, named)
  /\ acc.ids \in Seq(1..Len(acc.tab.id2info))
  /\ \A f \in DOMAIN acc.ids : Settled(acc.tab, named, acc.ids[f])

LEMMA TranslateOneField ==
  ASSUME NEW tab, IsTable(tab), NEW named, NEW old, FieldsTranslated(tab, named, old),
         NEW path \in ParsedTypePath, NEW end \in 1..Len(tab.id2info), end \in named,
         end = type_name_to_id[path.name],
         NEW new, new = translate_field(old, path)
  PROVE  FieldsTranslated(tab, named, new)
<1>1. PICK t : t = translate_type(old.tab, type_name_to_id, path)
  OBVIOUS
<1>2. new = [tab |-> t.tab, ids |-> Append(old.ids, t.id)]
  BY <1>1 DEF translate_field
<1>3. IsTable(old.tab) /\ UsesSettled(old.tab, named) /\ Grows(tab, old.tab)
  BY DEF FieldsTranslated, Grows
<1>4. PICK m \in Nat : m = Len(old.tab.id2info)
  BY <1>3, TableParts
<1>5. end \in 1..m
  BY <1>4, TableParts DEF FieldsTranslated, Grows
<1>6. PICK names : names = type_name_to_id
  OBVIOUS
<1>7. PICK o : o = old.tab
  OBVIOUS
<1>8. /\ IsTable(o) /\ end \in 1..Len(o.id2info) /\ end = names[path.name]
      /\ t = translate_type(o, names, path) /\ UsesSettled(o, named)
  BY <1>1, <1>3, <1>4, <1>5, <1>6, <1>7
<1>9. Grows(o, t.tab) /\ t.id \in 1..Len(t.tab.id2info)
  BY ONLY <1>8, path \in ParsedTypePath, TranslateTypeEffect
<1>10. UsesSettled(t.tab, named) /\ Settled(t.tab, named, t.id)
  BY ONLY <1>8, path \in ParsedTypePath, end \in named, TranslateTypeSettled
<1>11. Grows(tab, t.tab)
  BY <1>3, <1>7, <1>9, GrowsTransitive
<1>12. PICK n \in Nat : n = Len(t.tab.id2info) /\ m <= n
  BY <1>4, <1>7, <1>9, TableParts DEF Grows
<1>13. PICK ids : ids = old.ids
  OBVIOUS
<1>14. ids \in Seq(1..m) /\ \A f \in DOMAIN ids : Settled(o, named, ids[f])
  BY <1>4, <1>7, <1>13 DEF FieldsTranslated
<1>15. ids \in Seq(1..n)
  <2>1. Len(ids) \in Nat /\ ids \in [1..Len(ids) -> 1..n]
    BY <1>12, <1>14
  <2> QED  BY <2>1
<1>16. \A f \in DOMAIN ids : Settled(t.tab, named, ids[f])
  <2> SUFFICES ASSUME NEW f \in DOMAIN ids PROVE Settled(t.tab, named, ids[f])
    OBVIOUS
  <2>1. ids[f] \in 1..Len(o.id2info) /\ Settled(o, named, ids[f])
    BY <1>4, <1>7, <1>14
  <2> QED  BY <1>9, <2>1, SettledGrows
<1>17. /\ Append(ids, t.id) \in Seq(1..n)
       /\ \A f \in DOMAIN Append(ids, t.id) :
            \/ Append(ids, t.id)[f] = t.id
            \/ f \in DOMAIN ids /\ Append(ids, t.id)[f] = ids[f]
  BY <1>9, <1>12, <1>15
<1>18. new.tab = t.tab /\ new.ids = Append(ids, t.id)
  BY <1>2, <1>13
<1> QED  BY <1>10, <1>11, <1>12, <1>16, <1>17, <1>18 DEF FieldsTranslated

LEMMA TranslateFieldsEffect ==
  ASSUME NEW tab, IsTable(tab), NEW named, UsesSettled(tab, named),
         NEW n \in Nat, NEW paths, DOMAIN paths = 1..n,
         \A f \in 1..n : /\ paths[f] \in ParsedTypePath
                         /\ type_name_to_id[paths[f].name] \in named \cap 1..Len(tab.id2info),
         NEW new, new = TranslateFields([tab |-> tab, ids |-> << >>], paths)
  PROVE  FieldsTranslated(tab, named, new)
<1>1. PICK base : base = [tab |-> tab, ids |-> << >>]
  OBVIOUS
<1>2. PICK run : /\ run[0] = base
                 /\ \A f \in 1..n : run[f] = translate_field(run[f - 1], paths[f])
                 /\ run[n] = new
  BY ONLY n \in Nat, DOMAIN paths = 1..n, <1>1,
          new = TranslateFields([tab |-> tab, ids |-> << >>], paths), TranslateFieldsRun
<1> DEFINE S == {f \in 0..n : FieldsTranslated(tab, named, run[f])}
<1>3. 0 \in S
  <2>1. Grows(tab, tab)
    BY TableParts DEF Grows
  <2>2. base.tab = tab /\ base.ids = << >>
    BY <1>1
  <2>3. FieldsTranslated(tab, named, base)
    BY <2>1, <2>2 DEF FieldsTranslated
  <2> QED  BY <1>2, <2>3
<1>4. ASSUME NEW f \in 0..(n - 1), f \in S
      PROVE  f + 1 \in S
  <2>1. PICK g \in 1..n : g = f + 1 /\ g \in 0..n /\ g - 1 = f
    OBVIOUS
  <2>2. run[g] = translate_field(run[f], paths[g])
    BY <1>2, <2>1
  <2>3. FieldsTranslated(tab, named, run[f])
    BY <1>4
  <2>4. PICK end : end = type_name_to_id[paths[g].name]
    OBVIOUS
  <2>5. PICK path : path = paths[g]
    OBVIOUS
  <2>6. /\ path \in ParsedTypePath /\ end \in 1..Len(tab.id2info) /\ end \in named
        /\ end = type_name_to_id[path.name] /\ run[g] = translate_field(run[f], path)
    BY <2>2, <2>4, <2>5
  <2>7. FieldsTranslated(tab, named, run[g])
    BY ONLY IsTable(tab), <2>3, <2>6, TranslateOneField
  <2> QED  BY <2>1, <2>7
<1>5. 0..n \subseteq S
  <2> HIDE DEF S
  <2> QED  BY <1>3, <1>4, Translating!UpTo
<1>6. n \in 0..n
  OBVIOUS
<1> QED  BY <1>2, <1>5, <1>6

(* After its fields a struct is defined: its id has the fields, other ids  *)
(* what they had, and the new ones are pointers.                           *)
LEMMA DefineStruct ==
  ASSUME NEW tab, IsTable(tab), HasPrims(tab), NEW named, UsesSettled(tab, named),
         NEW acc, FieldsTranslated(tab, named, acc),
         NEW id \in 1..Len(tab.id2info), id \in named, id > 4,
         NEW new, new = define_type(acc.tab, id, StructInfo(acc.ids))
  PROVE  /\ IsTable(new) /\ HasPrims(new) /\ UsesSettled(new, named)
         /\ Len(new.id2info) >= Len(tab.id2info)
         /\ new.id2info[id].kind = "Struct"
         /\ \A i \in 1..Len(tab.id2info) : i # id => new.id2info[i] = tab.id2info[i]
         /\ \A k \in Prim : new.info2id[PrimInfo(k)] = tab.info2id[PrimInfo(k)]
         /\ Agrees(tab) /\ tab.id2info[id].kind \notin Pointer => Agrees(new)
<1>1. PICK old : old = acc.tab
  OBVIOUS
<1>2. PICK ids : ids = acc.ids
  OBVIOUS
<1>3. PICK m \in Nat : m = Len(tab.id2info)
  BY TableParts
<1>4. /\ Grows(tab, old) /\ IsTable(old) /\ UsesSettled(old, named)
      /\ ids \in Seq(1..Len(old.id2info))
      /\ \A f \in DOMAIN ids : Settled(old, named, ids[f])
  BY <1>1, <1>2 DEF FieldsTranslated, Grows
<1>5. PICK n \in Nat : n = Len(old.id2info) /\ m <= n
  BY <1>3, <1>4, TableParts DEF Grows
<1>6. PICK info : info = StructInfo(ids)
  OBVIOUS
<1>7. id \in 1..n /\ info \in Info(n) /\ Shaped(info) /\ \A p \in Prim : PrimInfo(p) # info
  BY <1>3, <1>4, <1>5, <1>6, InfosAre, InfosDiffer
<1>8. new = define_type(old, id, info)
  BY <1>1, <1>2, <1>6
<1>9. /\ IsTable(new)
      /\ Len(new.id2info) = n
      /\ new.id2info[id] = info
      /\ \A i \in 1..n : i # id => new.id2info[i] = old.id2info[i]
      /\ \A i \in DOMAIN old.info2id : /\ i \in DOMAIN new.info2id
                                       /\ i # info => new.info2id[i] = old.info2id[i]
  BY ONLY <1>4, <1>5, <1>7, <1>8, DefineTable
<1>10. \A i \in 1..m : i # id => new.id2info[i] = tab.id2info[i]
  <2>1. \A i \in 1..m : old.id2info[i] = tab.id2info[i]
    BY <1>3, <1>4 DEF Grows
  <2> QED  BY <1>5, <1>9, <2>1
<1>11. \A k \in Prim : /\ PrimInfo(k) \in DOMAIN new.info2id
                       /\ new.info2id[PrimInfo(k)] = tab.info2id[PrimInfo(k)]
  BY <1>4, <1>7, <1>9 DEF Grows, HasPrims
<1>12. HasPrims(new)
  <2>1. n >= 4
    BY <1>3, <1>5 DEF HasPrims
  <2>2. ASSUME NEW k \in Prim
        PROVE  /\ new.info2id[PrimInfo(k)] \in 1..4
               /\ new.id2info[new.info2id[PrimInfo(k)]] = PrimInfo(k)
    <3>1. PICK i \in 1..4 : i = tab.info2id[PrimInfo(k)] /\ tab.id2info[i] = PrimInfo(k)
      BY DEF HasPrims
    <3>2. i \in 1..m /\ i # id
      BY <1>3, <3>1 DEF HasPrims
    <3> QED  BY <1>10, <1>11, <3>1, <3>2
  <2> QED  BY <1>9, <1>11, <2>1, <2>2 DEF HasPrims
<1>13. ASSUME NEW u \in 1..n, Settled(old, named, u)
       PROVE  Settled(new, named, u)
  BY <1>9, <1>13 DEF Settled
<1>14. ASSUME NEW i \in 1..n,
              NEW used \in {new.id2info[i].of} \cup Range(new.id2info[i].fields), used # 0
       PROVE  Settled(new, named, used)
  <2>1. CASE i = id
    <3>1. new.id2info[i].of = 0 /\ new.id2info[i].fields = ids
      BY <1>6, <1>9, <2>1 DEF StructInfo
    <3>2. PICK f \in DOMAIN ids : used = ids[f]
      BY <1>14, <3>1 DEF Range
    <3>3. used \in 1..n
      BY <1>4, <1>5, <3>2
    <3> QED  BY <1>4, <1>13, <3>2, <3>3
  <2>2. CASE i # id
    <3>1. new.id2info[i] = old.id2info[i] /\ old.id2info[i] \in Info(n)
      BY <1>4, <1>5, <1>9, <2>2, TableParts
    <3>2. old.id2info[i].of \in 0..n /\ old.id2info[i].fields \in Seq(1..n)
      BY <3>1 DEF Info
    <3>3. Range(old.id2info[i].fields) \subseteq 1..n
      BY <3>2, RangeOfSeq
    <3>4. used \in 1..n
      BY <1>14, <3>1, <3>2, <3>3
    <3>5. Settled(old, named, used)
      BY <1>4, <1>5, <1>14, <3>1 DEF UsesSettled
    <3> QED  BY <1>13, <3>4, <3>5
  <2> QED  BY <2>1, <2>2
<1>15. UsesSettled(new, named)
  BY <1>9, <1>14 DEF UsesSettled
<1>16. ASSUME Agrees(tab), tab.id2info[id].kind \notin Pointer PROVE Agrees(new)
  <2>1. Agrees(old)
    BY <1>4, <1>16 DEF FieldsTranslated, Grows
  <2>2. old.id2info[id] = tab.id2info[id] /\ Shaped(old.id2info[id])
    BY <1>3, <1>4, <1>5, <1>7, TableParts DEF Grows
  <2>3. ASSUME NEW i \in DOMAIN old.info2id, old.info2id[i] = id PROVE i.kind = "Struct"
    <3> SUFFICES ASSUME i.kind # "Struct" PROVE FALSE
      OBVIOUS
    <3>1. i = old.id2info[id]
      BY <2>1, <2>3 DEF Agrees
    <3>2. PICK n1 \in Nat : i \in Info(n1)
      BY <1>4, <1>5, <2>3, TableParts
    <3>3. i.kind \in Prim
      BY <1>16, <2>2, <3>1, <3>2 DEF Info
    <3>4. i = PrimInfo(i.kind)
      BY <2>2, <3>1, <3>3 DEF Shaped
    <3>5. old.info2id[i] = tab.info2id[i]
      BY <1>4, <3>3, <3>4 DEF HasPrims, Grows
    <3>6. tab.info2id[i] \in 1..4
      BY <3>3, <3>4 DEF HasPrims
    <3> QED  BY <2>3, <3>5, <3>6
  <2>4. info.kind = "Struct"
    BY <1>6 DEF StructInfo
  <2>5. id \in 1..Len(old.id2info) /\ info \in Info(Len(old.id2info)) /\ Shaped(info)
    BY <1>5, <1>7
  <2>6. \A i \in DOMAIN old.info2id : old.info2id[i] = id => i.kind = "Struct" /\ info.kind = "Struct"
    BY <2>3, <2>4
  <2> QED  BY ONLY <1>4, <1>8, <2>1, <2>5, <2>6, DefineAgrees
<1> QED  BY <1>3, <1>5, <1>6, <1>9, <1>10, <1>11, <1>12, <1>15, <1>16 DEF StructInfo

-----------------------------------------------------------------------------
(* The parser's passes.                                                    *)

ParseInv ==
  InText /\ IsTable(interner) /\ Agrees(interner) /\ HasPrims(interner) /\ NamesKept /\ Defined

PrimInfos == <<PrimInfo("i32"), PrimInfo("i64"), PrimInfo("f32"), PrimInfo("bool")>>

(* The table that has the first i primitive types and nothing else.        *)
PrimsOnly(i, tab) ==
  /\ IsTable(tab) /\ Len(tab.id2info) = i
  /\ DOMAIN tab.info2id = {PrimInfos[j] : j \in 1..i}
  /\ \A j \in 1..i : tab.id2info[j] = PrimInfos[j] /\ tab.info2id[PrimInfos[j]] = j

LEMMA PrimInfosAre ==
  /\ DOMAIN PrimInfos = 1..4
  /\ \A i \in 1..4 : \E k \in Prim : PrimInfos[i] = PrimInfo(k)
  /\ \A k \in Prim : \E i \in 1..4 : PrimInfos[i] = PrimInfo(k)
  /\ \A i, j \in 1..4 : PrimInfos[i] = PrimInfos[j] => i = j
<1>1. /\ PrimInfos[1] = PrimInfo("i32") /\ PrimInfos[2] = PrimInfo("i64")
      /\ PrimInfos[3] = PrimInfo("f32") /\ PrimInfos[4] = PrimInfo("bool")
      /\ DOMAIN PrimInfos = 1..4
  BY DEF PrimInfos
<1>2. \A k, l : PrimInfo(k) = PrimInfo(l) => k = l
  BY InfosDiffer
<1>3. 1..4 = {1, 2, 3, 4} /\ Prim = {"i32", "i64", "f32", "bool"}
  BY DEF Prim
<1>4. \A i \in 1..4 : \E k \in Prim : PrimInfos[i] = PrimInfo(k)
  BY <1>1, <1>3
<1>5. \A k \in Prim : \E i \in 1..4 : PrimInfos[i] = PrimInfo(k)
  BY <1>1, <1>3
<1>6. /\ PrimInfo("i32") # PrimInfo("i64") /\ PrimInfo("i32") # PrimInfo("f32")
      /\ PrimInfo("i32") # PrimInfo("bool") /\ PrimInfo("i64") # PrimInfo("f32")
      /\ PrimInfo("i64") # PrimInfo("bool") /\ PrimInfo("f32") # PrimInfo("bool")
  BY <1>2
<1>7. \A i, j \in 1..4 : PrimInfos[i] = PrimInfos[j] => i = j
  BY <1>1, <1>3, <1>6
<1> QED  BY <1>1, <1>4, <1>5, <1>7

LEMMA InternPrim ==
  ASSUME NEW i \in 0..3, NEW tab, PrimsOnly(i, tab),
         NEW new, new = get_id(tab, PrimInfos[i + 1])
  PROVE  PrimsOnly(i + 1, new)
<1>1. PICK info : info = PrimInfos[i + 1]
  OBVIOUS
<1>2. i + 1 \in 1..4 /\ i \in Nat
  OBVIOUS
<1>3. PICK k \in Prim : info = PrimInfo(k)
  BY <1>1, <1>2, PrimInfosAre
<1>4. info \notin DOMAIN tab.info2id
  <2>1. \A j \in 1..i : j \in 1..4 /\ j # i + 1
    OBVIOUS
  <2> QED  BY <1>1, <1>2, <2>1, PrimInfosAre DEF PrimsOnly
<1>5. IsTable(tab) /\ Len(tab.id2info) = i
  BY DEF PrimsOnly
<1> DEFINE ids == Append(tab.id2info, info)
           infos == [j \in DOMAIN tab.info2id \cup {info} |->
                       IF j = info THEN i + 1 ELSE tab.info2id[j]]
<1>6. new = [id2info |-> ids, info2id |-> infos]
  BY <1>1, <1>4, <1>5 DEF get_id
<1>7. tab.id2info \in Seq(Info(i)) /\ Info(i) \subseteq Info(i + 1)
  BY <1>2, <1>5, TableParts, InfoMonotone
<1>8. info \in Info(i + 1) /\ Shaped(info)
  BY <1>2, <1>3, InfosAre
<1>9. /\ ids \in Seq(Info(i + 1)) /\ Len(ids) = i + 1
      /\ \A j \in 1..i : ids[j] = tab.id2info[j]
      /\ ids[i + 1] = info
  <2>1. tab.id2info \in Seq(Info(i + 1))
    BY <1>7
  <2> QED  BY <1>2, <1>5, <1>8, <2>1
<1>10. \A j \in 1..(i + 1) : j \in 1..i \/ j = i + 1
  OBVIOUS
<1>11. \A j \in 1..(i + 1) : Shaped(ids[j])
  BY <1>5, <1>8, <1>9, <1>10, TableParts
<1>12. \A j \in DOMAIN infos : j \in Info(i + 1) /\ infos[j] \in 1..(i + 1)
  BY <1>2, <1>5, <1>7, <1>8, TableParts
<1>13. IsTable(new)
  <2> HIDE DEF ids, infos
  <2> QED  BY <1>2, <1>6, <1>9, <1>11, <1>12, TableFrom
<1>14. {PrimInfos[j] : j \in 1..(i + 1)} = {PrimInfos[j] : j \in 1..i} \cup {info}
  BY <1>1, <1>10
<1>15. DOMAIN infos = {PrimInfos[j] : j \in 1..(i + 1)}
  BY <1>14 DEF PrimsOnly
<1>16. \A j \in 1..(i + 1) : ids[j] = PrimInfos[j] /\ infos[PrimInfos[j]] = j
  <2>1. CASE TRUE
    <3>1. \A j \in 1..i : PrimInfos[j] # info /\ PrimInfos[j] \in DOMAIN tab.info2id
      BY <1>4 DEF PrimsOnly
    <3>2. \A j \in 1..i : ids[j] = PrimInfos[j] /\ infos[PrimInfos[j]] = j
      BY <1>9, <3>1 DEF PrimsOnly
    <3>3. ids[i + 1] = PrimInfos[i + 1] /\ infos[PrimInfos[i + 1]] = i + 1
      BY <1>1, <1>9
    <3> QED  BY <1>10, <3>2, <3>3
  <2> QED  BY <2>1
<1>17. new.id2info = ids /\ new.info2id = infos
  BY <1>6
<1> HIDE DEF ids, infos
<1> QED  BY <1>9, <1>13, <1>15, <1>16, <1>17 DEF PrimsOnly

LEMMA InternPrims ==
  ASSUME NEW tab, tab = InternAll(EmptyInterner, PrimInfos)
  PROVE  PrimsOnly(4, tab)
<1>1. PICK run : /\ run[0] = EmptyInterner
                 /\ \A i \in 1..4 : run[i] = get_id(run[i - 1], PrimInfos[i])
                 /\ run[4] = tab
  <2>1. PICK n \in Nat : n = 4 /\ DOMAIN PrimInfos = 1..n
    BY PrimInfosAre
  <2>2. \E run : /\ run[0] = EmptyInterner
                 /\ \A i \in 1..n : run[i] = get_id(run[i - 1], PrimInfos[i])
                 /\ run[n] = InternAll(EmptyInterner, PrimInfos)
    BY ONLY n \in Nat, <2>1, InternAllRun
  <2> QED  BY <2>1, <2>2
<1>2. PrimsOnly(0, run[0])
  <2>1. EmptyInterner.id2info = << >> /\ EmptyInterner.info2id = << >>
        /\ EmptyInterner = [id2info |-> << >>, info2id |-> << >>]
    BY DEF EmptyInterner
  <2>2. 1..0 = {} /\ Len(<< >>) = 0 /\ DOMAIN << >> = {}
    OBVIOUS
  <2>3. IsTable(EmptyInterner)
    BY <2>1, <2>2 DEF IsTable
  <2> QED  BY <1>1, <2>1, <2>2, <2>3 DEF PrimsOnly
<1>3. \A i \in 0..3 : run[i + 1] = get_id(run[i], PrimInfos[i + 1])
  <2> SUFFICES ASSUME NEW i \in 0..3 PROVE run[i + 1] = get_id(run[i], PrimInfos[i + 1])
    OBVIOUS
  <2>1. i + 1 \in 1..4 /\ (i + 1) - 1 = i
    OBVIOUS
  <2> QED  BY <1>1, <2>1
<1>4. \A i \in 0..3 : PrimsOnly(i, run[i]) => PrimsOnly(i + 1, run[i + 1])
  BY <1>3, InternPrim
<1>5. PrimsOnly(1, run[1])
  BY <1>2, <1>4
<1>6. PrimsOnly(2, run[2])
  BY <1>4, <1>5
<1>7. PrimsOnly(3, run[3])
  BY <1>4, <1>6
<1>8. PrimsOnly(4, run[4])
  BY <1>4, <1>7
<1> QED  BY <1>1, <1>8

(* Infos of primitive types mention nothing.                               *)
LEMMA PrimsUseNothing ==
  ASSUME NEW tab, IsTable(tab), NEW named,
         \A id \in 1..Len(tab.id2info) : tab.id2info[id].kind \in Prim
  PROVE  UsesSettled(tab, named)
<1> SUFFICES ASSUME NEW id \in 1..Len(tab.id2info),
                    NEW used \in {tab.id2info[id].of} \cup Range(tab.id2info[id].fields)
             PROVE  used = 0
  BY DEF UsesSettled
<1>1. PICK info : info = tab.id2info[id]
  OBVIOUS
<1>2. Shaped(info) /\ info.kind \in Prim
  BY <1>1, TableParts
<1>3. info = PrimInfo(info.kind)
  BY <1>2 DEF Shaped
<1>4. info.of = 0 /\ info.fields = << >>
  BY <1>3 DEF PrimInfo
<1> QED  BY <1>1, <1>4 DEF Range

LEMMA InitParse == Init => ParseInv
<1> SUFFICES ASSUME Init PROVE ParseInv
  OBVIOUS
<1>1. interner = InternAll(EmptyInterner, PrimInfos)
  BY DEF Init, InternAll, PrimInfos
<1>2. PrimsOnly(4, interner)
  BY <1>1, InternPrims
<1>3. IsTable(interner) /\ Len(id2info) = 4
  BY <1>2 DEF PrimsOnly, id2info
<1>4. \A k \in Prim : /\ PrimInfo(k) \in DOMAIN info2id
                      /\ info2id[PrimInfo(k)] \in 1..4
                      /\ id2info[info2id[PrimInfo(k)]] = PrimInfo(k)
  BY <1>2, PrimInfosAre DEF PrimsOnly, id2info, info2id
<1>5. HasPrims(interner)
  BY <1>3, <1>4 DEF HasPrims, id2info, info2id
<1>6. phase = "declare" /\ pos = 1 /\ items \in Programs
      /\ type_name_to_id = [k \in Prim |-> info2id[PrimInfo(k)]]
  BY DEF Init
<1>7. InText
  <2>1. items \in Seq(ParsedStruct)
    BY <1>6, TypeTableAssumption
  <2> QED  BY <1>6, <2>1 DEF InText
<1>8. DeclaredStructs = {}
  BY <1>6 DEF DeclaredStructs, StructNames
<1>9. NamesKept
  BY <1>3, <1>4, <1>6, <1>8 DEF NamesKept
<1>10. \A id \in 1..4 : id2info[id].kind \in Prim
  BY <1>2, PrimInfosAre DEF PrimsOnly, id2info, PrimInfo
<1>11. UsesSettled(interner, NamedIds)
  BY <1>3, <1>10, PrimsUseNothing DEF id2info
<1>15. Agrees(interner)
  BY <1>2 DEF PrimsOnly, Agrees
<1>12. DefinedStructs = {}
  BY <1>6 DEF DefinedStructs
<1>13. DOMAIN id2info = 1..4
  BY <1>3, TableParts DEF id2info
<1>14. Defined
  BY <1>8, <1>10, <1>11, <1>12, <1>13 DEF Defined, Ids
<1> QED  BY <1>3, <1>5, <1>7, <1>9, <1>14, <1>15 DEF ParseInv

LEMMA StructNamesNext ==
  ASSUME NEW k \in Nat, k >= 1
  PROVE  StructNames(k) = StructNames(k - 1) \cup {items[k].name}
<1>1. \A i \in 1..k : i \in 1..(k - 1) \/ i = k
  OBVIOUS
<1>2. 1..(k - 1) \subseteq 1..k /\ k \in 1..k
  OBVIOUS
<1> QED  BY <1>1, <1>2 DEF StructNames

LEMMA TextParts ==
  ASSUME InText
  PROVE  /\ Len(items) \in Nat /\ DOMAIN items = 1..Len(items)
         /\ \A i \in 1..Len(items) :
              /\ items[i] \in ParsedStruct
              /\ \A f \in DOMAIN items[i].fields : items[i].fields[f].name \in Declared(items)
         /\ Declared(items) = Prim \cup StructNames(Len(items))
<1>1. items \in Seq(ParsedStruct) /\ items \in Programs
  BY TypeTableAssumption DEF InText
<1>2. Len(items) \in Nat /\ DOMAIN items = 1..Len(items)
  BY <1>1
<1>3. \A i \in 1..Len(items) : items[i] \in ParsedStruct
  BY <1>1, <1>2
<1>4. \A i \in 1..Len(items) : \A f \in DOMAIN items[i].fields :
        items[i].fields[f].name \in Declared(items)
  BY <1>1, <1>2, TypeTableAssumption
<1>5. Declared(items) = Prim \cup StructNames(Len(items))
  BY <1>2 DEF Declared, StructNames
<1> QED  BY <1>2, <1>3, <1>4, <1>5

LEMMA DeclareParse ==
  ASSUME ParseInv, Declare
  PROVE  ParseInv'
<1>1. /\ IsTable(interner) /\ Agrees(interner) /\ HasPrims(interner) /\ InText /\ NamesKept /\ Defined
      /\ phase = "declare" /\ phase' = "declare" /\ items' = items
      /\ pos <= Len(items) /\ pos' = pos + 1
  BY DEF ParseInv, Declare
<1>2. pos \in Nat /\ pos >= 1 /\ Len(items) \in Nat
  BY <1>1, TextParts DEF InText
<1>3. PICK new : new = interner'
  OBVIOUS
<1>4. PICK old : old = interner
  OBVIOUS
<1>5. PICK m \in Nat : m = Len(old.id2info)
  BY <1>1, <1>4, TableParts
<1>6. /\ Grows(old, new) /\ Len(new.id2info) = m + 1
      /\ new.id2info[m + 1] = PrimInfo("bool") /\ new.info2id = old.info2id
  BY <1>1, <1>3, <1>4, <1>5, DeclareTable DEF Declare
<1>7. IsTable(new) /\ Agrees(new) /\ \A id \in 1..m : new.id2info[id] = old.id2info[id]
  BY <1>1, <1>4, <1>5, <1>6 DEF Grows
<1>8. HasPrims(new)
  BY <1>1, <1>4, <1>6, GrowsHasPrims
<1>9. InText'
  BY <1>1, <1>2 DEF InText
<1>10. PICK name : name = items[pos].name
  OBVIOUS
<1>11. DeclaredStructs = StructNames(pos - 1)
  BY <1>1 DEF DeclaredStructs
<1>12. DeclaredStructs' = DeclaredStructs \cup {name}
  <2>1. pos' - 1 = pos
    BY <1>1, <1>2
  <2>2. DeclaredStructs' = StructNames(pos)
    BY <1>1, <2>1 DEF DeclaredStructs, StructNames
  <2> QED  BY <1>2, <1>10, <1>11, <2>2, StructNamesNext
<1>13. type_name_to_id' = [n \in DOMAIN type_name_to_id \cup {name} |->
                             IF n = name THEN m + 1 ELSE type_name_to_id[n]]
  BY <1>3, <1>6, <1>10 DEF Declare, id2info
<1>14. NamesKept'
  <2>1. DOMAIN type_name_to_id' = Prim \cup DeclaredStructs'
    BY <1>1, <1>12, <1>13 DEF NamesKept
  <2>2. \A n \in DOMAIN type_name_to_id' : type_name_to_id'[n] \in 1..(m + 1)
    BY <1>1, <1>4, <1>5, <1>13 DEF NamesKept, id2info
  <2>3. \A n \in DeclaredStructs' : type_name_to_id'[n] > 4
    BY <1>1, <1>4, <1>5, <1>12, <1>13 DEF NamesKept, HasPrims
  <2>4. \A n \in Prim \ DeclaredStructs' : type_name_to_id'[n] = new.info2id[PrimInfo(n)]
    BY <1>1, <1>4, <1>6, <1>12, <1>13 DEF NamesKept, info2id
  <2> QED  BY <1>3, <1>6, <2>1, <2>2, <2>3, <2>4 DEF NamesKept, id2info, info2id
<1>15. \A id \in 1..(m + 1) : new.id2info[id].kind \in Prim
  <2>1. \A id \in 1..m : old.id2info[id].kind \in Prim
    BY <1>1, <1>4, <1>5, TableParts DEF Defined, Ids, id2info
  <2>2. PrimInfo("bool").kind \in Prim
    BY DEF PrimInfo, Prim
  <2>3. \A id \in 1..(m + 1) : id \in 1..m \/ id = m + 1
    OBVIOUS
  <2> QED  BY <1>6, <1>7, <2>1, <2>2, <2>3
<1>16. Defined'
  <2>1. DefinedStructs' = {}
    BY <1>1 DEF DefinedStructs
  <2>2. UsesSettled(interner, NamedIds)'
    BY <1>3, <1>6, <1>7, <1>15, PrimsUseNothing
  <2>3. Ids' = 1..(m + 1)
    BY <1>3, <1>6, <1>7, TableParts DEF Ids, id2info
  <2>4. \A n \in DeclaredStructs' : new.id2info[type_name_to_id'[n]].kind \notin Pointer
    <3>1. Prim \cap Pointer = {}
      BY DEF Prim, Pointer
    <3> QED  BY <1>3, <1>6, <1>14, <1>15, <3>1 DEF NamesKept, id2info
  <2> QED  BY <1>3, <1>15, <2>1, <2>2, <2>3, <2>4 DEF Defined, id2info
<1> QED  BY <1>3, <1>7, <1>8, <1>9, <1>14, <1>16 DEF ParseInv

LEMMA StartDefiningParse ==
  ASSUME ParseInv, StartDefining
  PROVE  ParseInv'
<1>1. /\ InText /\ NamesKept /\ Defined /\ phase = "declare" /\ phase' = "define"
      /\ pos > Len(items) /\ pos' = 1
      /\ UNCHANGED <<items, interner, type_name_to_id>>
  BY DEF ParseInv, StartDefining, NextLoop
<1>2. Len(items) \in Nat /\ pos \in Nat /\ pos - 1 = Len(items)
  BY <1>1, TextParts DEF InText
<1>3. DeclaredStructs' = DeclaredStructs
  BY <1>1, <1>2 DEF DeclaredStructs, StructNames
<1>4. DefinedStructs' = {}
  BY <1>1 DEF DefinedStructs, StructNames
<1>5. InText'
  BY <1>1, <1>2 DEF InText
<1>6. NamesKept'
  BY <1>1, <1>3 DEF NamesKept, id2info, info2id
<1>7. Defined'
  BY <1>1, <1>3, <1>4 DEF Defined, id2info, NamedIds, UsesSettled, Settled
<1> QED  BY <1>1, <1>5, <1>6, <1>7 DEF ParseInv, IsTable, Agrees, HasPrims

LEMMA StartRegisteringParse ==
  ASSUME ParseInv, StartRegistering
  PROVE  ParseInv'
<1>1. /\ InText /\ NamesKept /\ Defined /\ phase = "define" /\ phase' = "register"
      /\ pos > Len(items) /\ pos' = 1
      /\ UNCHANGED <<items, interner, type_name_to_id>>
  BY DEF ParseInv, StartRegistering, NextLoop
<1>2. Len(items) \in Nat /\ pos \in Nat /\ pos - 1 = Len(items)
  BY <1>1, TextParts DEF InText
<1>3. DeclaredStructs' = DeclaredStructs
  BY <1>1, <1>2 DEF DeclaredStructs, StructNames
<1>4. DefinedStructs' = DefinedStructs
  BY <1>1, <1>2 DEF DefinedStructs, StructNames
<1>5. InText'
  <2>1. Len(id2info) \in Nat
    BY TableParts DEF ParseInv, id2info
  <2> QED  BY <1>1, <2>1 DEF InText, id2info
<1>6. NamesKept'
  BY <1>1, <1>3 DEF NamesKept, id2info, info2id
<1>7. Defined'
  BY <1>1, <1>3, <1>4 DEF Defined, id2info, NamedIds, UsesSettled, Settled
<1> QED  BY <1>1, <1>5, <1>6, <1>7 DEF ParseInv, IsTable, Agrees, HasPrims

(* Registration reads the types only.                                      *)
LEMMA ReadingParse ==
  ASSUME ParseInv, phase = "register", phase' \in {"register", "done", "aborted"},
         UNCHANGED <<items, interner, type_name_to_id>>,
         pos' \in Nat \ {0}, phase' = "register" => pos' <= Len(id2info) + 1
  PROVE  ParseInv'
<1>1. InText'
  BY DEF ParseInv, InText, id2info
<1>2. DeclaredStructs' = DeclaredStructs
  BY DEF DeclaredStructs, StructNames
<1>3. DefinedStructs' = DefinedStructs
  BY DEF DefinedStructs, StructNames
<1>4. NamesKept'
  BY <1>2 DEF ParseInv, NamesKept, id2info, info2id
<1>5. Defined'
  BY <1>2, <1>3 DEF ParseInv, Defined, id2info, NamedIds, UsesSettled, Settled
<1> QED  BY <1>1, <1>4, <1>5 DEF ParseInv, IsTable, Agrees, HasPrims

LEMMA DefineParse ==
  ASSUME ParseInv, Define
  PROVE  ParseInv'
<1>1. /\ IsTable(interner) /\ Agrees(interner) /\ HasPrims(interner) /\ InText /\ NamesKept /\ Defined
      /\ phase = "define" /\ phase' = "define" /\ items' = items
      /\ pos <= Len(items) /\ pos' = pos + 1 /\ type_name_to_id' = type_name_to_id
  BY DEF ParseInv, Define
<1>2. pos \in Nat /\ pos >= 1 /\ pos \in 1..Len(items) /\ Len(items) \in Nat
  BY <1>1, TextParts DEF InText
<1>3. PICK new : new = interner'
  OBVIOUS
<1>4. PICK old : old = interner
  OBVIOUS
<1>5. PICK m \in Nat : m = Len(old.id2info)
  BY <1>1, <1>4, TableParts
<1>6. PICK names : names = type_name_to_id
  OBVIOUS
<1>7. PICK item \in ParsedStruct :
        /\ item = items[pos]
        /\ \A f \in DOMAIN item.fields : item.fields[f].name \in Declared(items)
  BY <1>1, <1>2, TextParts
<1>8. DeclaredStructs = StructNames(Len(items))
  BY <1>1 DEF DeclaredStructs
<1>9. Declared(items) = DOMAIN names
  BY <1>1, <1>6, <1>8, TextParts DEF NamesKept
<1>10. PICK named : named = NamedIds
  OBVIOUS
<1>11. \A n \in DOMAIN names : names[n] \in named /\ names[n] \in 1..m
  BY <1>1, <1>4, <1>5, <1>6, <1>10 DEF NamesKept, NamedIds, id2info
<1>12. PICK paths : paths = item.fields
  OBVIOUS
<1>13. PICK k \in Nat : k = Len(paths) /\ DOMAIN paths = 1..k
  BY <1>7, <1>12 DEF ParsedStruct
<1>14. \A f \in 1..k : /\ paths[f] \in ParsedTypePath
                       /\ type_name_to_id[paths[f].name] \in named \cap 1..Len(old.id2info)
  BY <1>5, <1>6, <1>7, <1>9, <1>11, <1>12, <1>13 DEF ParsedStruct
<1>15. PICK acc : acc = TranslateFields([tab |-> old, ids |-> << >>], paths)
  OBVIOUS
<1>16. IsTable(old) /\ HasPrims(old) /\ UsesSettled(old, named)
  BY <1>1, <1>4, <1>10 DEF Defined
<1>17. FieldsTranslated(old, named, acc)
  BY ONLY <1>13, <1>14, <1>15, <1>16, TranslateFieldsEffect
<1>18. PICK id : id = names[item.name]
  OBVIOUS
<1>19. item.name \in DeclaredStructs /\ id \in named /\ id \in 1..m /\ id > 4
  <2>1. item.name \in StructNames(Len(items))
    BY <1>2, <1>7 DEF StructNames
  <2> QED  BY <1>1, <1>6, <1>8, <1>11, <1>18, <2>1 DEF NamesKept
<1>20. new = define_type(acc.tab, id, StructInfo(acc.ids))
  BY <1>3, <1>4, <1>6, <1>7, <1>12, <1>15, <1>18 DEF Define, TranslateFields
<1>21. /\ IsTable(new) /\ HasPrims(new) /\ UsesSettled(new, named)
       /\ Len(new.id2info) >= m
       /\ new.id2info[id].kind = "Struct"
       /\ \A i \in 1..m : i # id => new.id2info[i] = old.id2info[i]
       /\ \A p \in Prim : new.info2id[PrimInfo(p)] = old.info2id[PrimInfo(p)]
       /\ Agrees(old) /\ old.id2info[id].kind \notin Pointer => Agrees(new)
  <2>1. id \in 1..Len(old.id2info)
    BY <1>5, <1>19
  <2> QED  BY ONLY <1>5, <1>16, <1>17, <1>19, <1>20, <2>1, DefineStruct
<1>22. InText'
  BY <1>1, <1>2 DEF InText
<1>23. DeclaredStructs' = DeclaredStructs
  BY <1>1 DEF DeclaredStructs, StructNames
<1>24. NamesKept'
  <2>1. Len(new.id2info) \in Nat
    BY <1>21, TableParts
  <2>2. \A n \in DOMAIN names : names[n] \in 1..Len(new.id2info)
    BY <1>11, <1>21, <2>1
  <2>3. \A n \in Prim \ DeclaredStructs : names[n] = new.info2id[PrimInfo(n)]
    BY <1>1, <1>4, <1>6, <1>21 DEF NamesKept, info2id
  <2> QED  BY <1>1, <1>3, <1>6, <1>23, <2>2, <2>3 DEF NamesKept, id2info, info2id
<1>25. Defined'
  <2>1. DefinedStructs = StructNames(pos - 1)
    BY <1>1 DEF DefinedStructs
  <2>2. DefinedStructs' = StructNames(pos)
    <3>1. pos' - 1 = pos
      BY <1>1, <1>2
    <3> QED  BY <1>1, <3>1 DEF DefinedStructs, StructNames
  <2>3. DefinedStructs' = DefinedStructs \cup {item.name}
    BY <1>2, <1>7, <2>1, <2>2, StructNamesNext
  <2>4. ASSUME NEW n \in DefinedStructs'
        PROVE  new.id2info[names[n]].kind = "Struct"
    <3>1. CASE names[n] = id
      BY <1>21, <3>1
    <3>2. CASE names[n] # id
      <4>1. n \in DefinedStructs
        BY <1>18, <2>3, <3>2
      <4>2. StructNames(pos - 1) \subseteq StructNames(Len(items))
        <5>1. 1..(pos - 1) \subseteq 1..Len(items)
          BY <1>2
        <5> QED  BY <5>1 DEF StructNames
      <4>3. n \in DOMAIN names
        BY <1>1, <1>6, <1>8, <2>1, <4>1, <4>2 DEF NamesKept
      <4>4. old.id2info[names[n]].kind = "Struct"
        BY <1>1, <1>4, <1>6, <4>1 DEF Defined, id2info
      <4> QED  BY <1>11, <1>21, <3>2, <4>3, <4>4
    <3> QED  BY <3>1, <3>2
  <2>5. UsesSettled(interner, NamedIds)'
    <3>1. NamedIds' = named
      BY <1>1, <1>10 DEF NamedIds
    <3>2. UsesSettled(interner, NamedIds)' <=> UsesSettled(interner', NamedIds')
      BY DEF UsesSettled, Settled
    <3> QED  BY <1>3, <1>21, <3>1, <3>2
  <2>6. ASSUME NEW n \in DeclaredStructs'
        PROVE  new.id2info[names[n]].kind \notin Pointer
    <3>1. n \in DeclaredStructs /\ n \in DOMAIN names
      BY <1>1, <1>6, <1>23 DEF NamesKept
    <3>2. old.id2info[names[n]].kind \notin Pointer
      BY <1>1, <1>4, <1>6, <3>1 DEF Defined, id2info
    <3>3. "Struct" \notin Pointer
      BY DEF Pointer
    <3> QED  BY <1>11, <1>21, <3>1, <3>2, <3>3
  <2> QED  BY <1>1, <1>3, <1>6, <2>4, <2>5, <2>6 DEF Defined, id2info
<1>26. Agrees(new)
  <2>1. old.id2info[id].kind \notin Pointer
    BY <1>1, <1>4, <1>6, <1>18, <1>19 DEF Defined, id2info
  <2> QED  BY <1>1, <1>4, <1>21, <2>1
<1> QED  BY <1>3, <1>21, <1>22, <1>24, <1>25, <1>26 DEF ParseInv

LEMMA StepParse ==
  ASSUME ParseInv, [Next]_vars
  PROVE  ParseInv'
<1>1. CASE Declare
  BY <1>1, DeclareParse
<1>2. CASE StartDefining
  BY <1>2, StartDefiningParse
<1>3. CASE Define
  BY <1>3, DefineParse
<1>4. CASE StartRegistering
  BY <1>4, StartRegisteringParse
<1>5. Len(id2info) \in Nat /\ pos \in Nat \ {0}
  BY TableParts DEF ParseInv, InText, id2info
<1>6. CASE Register
  <2>1. /\ phase = "register" /\ phase' = "register" /\ pos <= Len(id2info) /\ pos' = pos + 1
        /\ UNCHANGED <<items, interner, type_name_to_id>>
    BY <1>6 DEF Register
  <2>2. pos' \in Nat \ {0} /\ pos' <= Len(id2info) + 1
    BY <1>5, <2>1
  <2> QED  BY <2>1, <2>2, ReadingParse
<1>7. CASE Overflow
  <2>1. /\ phase = "register" /\ phase' = "aborted" /\ pos' = pos
        /\ UNCHANGED <<items, interner, type_name_to_id>>
    BY <1>7 DEF Overflow
  <2> QED  BY <1>5, <2>1, ReadingParse
<1>8. CASE Finish
  <2>1. /\ phase = "register" /\ phase' = "done" /\ pos' = 1
        /\ UNCHANGED <<items, interner, type_name_to_id>>
    BY <1>8 DEF Finish, NextLoop
  <2> QED  BY <2>1, ReadingParse
<1>9. CASE UNCHANGED vars
  <2>1. UNCHANGED <<items, interner, type_name_to_id, phase, pos>>
    BY <1>9 DEF vars
  <2>2. DeclaredStructs' = DeclaredStructs /\ DefinedStructs' = DefinedStructs
    BY <2>1 DEF DeclaredStructs, DefinedStructs, StructNames
  <2>3. InText' /\ NamesKept'
    BY <2>1, <2>2 DEF ParseInv, InText, NamesKept, id2info, info2id
  <2>4. Defined'
    BY <2>1, <2>2 DEF ParseInv, Defined, NamedIds, UsesSettled, Settled, id2info, Ids
  <2> QED  BY <2>1, <2>3, <2>4 DEF ParseInv, IsTable, Agrees, HasPrims
<1> QED  BY <1>1, <1>2, <1>3, <1>4, <1>6, <1>7, <1>8, <1>9 DEF Next

LEMMA AlwaysParse == Spec => []ParseInv
<1>1. Init => ParseInv
  BY InitParse
<1>2. ParseInv /\ [Next]_vars => ParseInv'
  BY StepParse
<1> QED  BY <1>1, <1>2, PTL DEF Spec

(* Types::i32(), f32() and bool() answer the primitive types, whatever     *)
(* number of ids the declarations of a text give out and define.           *)
THEOREM PrimitivesKept == Spec => []PrimitivesStay
<1>1. ASSUME ParseInv PROVE PrimitivesStay
  BY <1>1 DEF ParseInv, HasPrims, PrimitivesStay, id2info, info2id
<1> QED  BY <1>1, AlwaysParse, PTL

(* The parser leaves no placeholder in the types the compiler looks at:    *)
(* every declared struct has been defined by the end of the second pass,   *)
(* whichever of those that share a name the name stands for.               *)
THEOREM PlaceholdersGone == Spec => []NoPlaceholderUsed
<1>1. ASSUME ParseInv PROVE NoPlaceholderUsed
  <2> SUFFICES ASSUME phase = "register", NEW id \in Ids,
                      NEW used \in {id2info[id].of} \cup Range(id2info[id].fields),
                      used # 0, id2info[used] = PrimInfo("bool")
               PROVE  used = info2id[PrimInfo("bool")]
    BY DEF NoPlaceholderUsed
  <2>1. /\ InText /\ NamesKept /\ Defined /\ IsTable(interner) /\ HasPrims(interner)
    BY <1>1 DEF ParseInv
  <2>2. Settled(interner, NamedIds, used)
    <3>1. id \in 1..Len(interner.id2info)
      BY <2>1, TableParts DEF Ids, id2info
    <3> QED  BY <2>1, <3>1 DEF Defined, UsesSettled, id2info
  <2>3. id2info[used].kind = "bool"
    BY DEF PrimInfo
  <2>4. used \in NamedIds
    BY <2>2, <2>3 DEF Settled, Pointer, id2info
  <2>5. PICK n \in DOMAIN type_name_to_id : used = type_name_to_id[n]
    BY <2>4 DEF NamedIds
  <2>6. DeclaredStructs = DefinedStructs
    BY DEF DeclaredStructs, DefinedStructs
  <2>7. n \notin DeclaredStructs
    BY <2>1, <2>3, <2>5, <2>6 DEF Defined
  <2>8. n \in Prim /\ used = info2id[PrimInfo(n)]
    BY <2>1, <2>5, <2>7 DEF NamesKept
  <2>9. id2info[used] = PrimInfo(n)
    BY <2>1, <2>8 DEF HasPrims, id2info, info2id
  <2>10. n = "bool"
    BY <2>9, InfosDiffer
  <2> QED  BY <2>8, <2>10
<1> QED  BY <1>1, AlwaysParse, PTL

-----------------------------------------------------------------------------
(* One struct's layout.                                                    *)

IsLayout(l) == l.size \in Nat /\ l.align \in {1, 4, 8}

(* The first n of these layouts are fields of l: aligned, inside it and in *)
(* order, with no byte shared.                                             *)
HasFields(l, inner, n) ==
  /\ l = [field_offsets |-> l.field_offsets, size |-> l.size, align |-> l.align]
  /\ IsLayout(l)
  /\ l.field_offsets \in Seq(Nat) /\ Len(l.field_offsets) = n
  /\ \A f \in 1..n :
       /\ IsLayout(inner[f])
       /\ l.field_offsets[f] % inner[f].align = 0
       /\ inner[f].align <= l.align
       /\ l.field_offsets[f] + inner[f].size <= l.size
       /\ \A g \in 1..n : f < g => l.field_offsets[f] + inner[f].size <= l.field_offsets[g]

LEMMA RoundsUp ==
  ASSUME NEW n \in Nat, NEW align \in {1, 4, 8}
  PROVE  RoundUp(n, align) \in Nat /\ RoundUp(n, align) >= n /\ RoundUp(n, align) % align = 0
<1>1. CASE align = 1
  BY <1>1 DEF RoundUp
<1>2. CASE align = 4
  BY <1>2 DEF RoundUp
<1>3. CASE align = 8
  BY <1>3 DEF RoundUp
<1> QED  BY <1>1, <1>2, <1>3

LEMMA ExtendOne ==
  ASSUME NEW acc, NEW inner, NEW n \in Nat, HasFields(acc, inner, n),
         IsLayout(inner[n + 1]), NEW new, new = extend(acc, inner[n + 1])
  PROVE  HasFields(new, inner, n + 1)
<1>1. PICK l : l = inner[n + 1]
  OBVIOUS
<1>2. l.size \in Nat /\ l.align \in {1, 4, 8}
  BY <1>1 DEF IsLayout
<1>3. /\ acc.size \in Nat /\ acc.align \in {1, 4, 8}
      /\ acc.field_offsets \in Seq(Nat) /\ Len(acc.field_offsets) = n
  BY DEF HasFields, IsLayout
<1>4. PICK offset \in Nat : /\ offset = RoundUp(acc.size, l.align)
                            /\ offset >= acc.size /\ offset % l.align = 0
  BY <1>2, <1>3, RoundsUp
<1>5. PICK offsets : offsets = Append(acc.field_offsets, offset)
  OBVIOUS
<1>6. new = [field_offsets |-> offsets, size |-> offset + l.size,
             align |-> Larger(acc.align, l.align)]
  BY <1>1, <1>4, <1>5 DEF extend
<1>7. /\ new.field_offsets = offsets /\ new.size = offset + l.size
      /\ new = [field_offsets |-> new.field_offsets, size |-> new.size, align |-> new.align]
  BY <1>6
<1>8. new.align \in {1, 4, 8} /\ new.align >= acc.align /\ new.align >= l.align
  BY <1>2, <1>3, <1>6 DEF Larger
<1>9. /\ offsets \in Seq(Nat) /\ Len(offsets) = n + 1 /\ offsets[n + 1] = offset
      /\ \A f \in 1..n : offsets[f] = acc.field_offsets[f] /\ offsets[f] \in Nat
  BY <1>3, <1>4, <1>5
<1>10. \A f \in 1..n :
         /\ inner[f].size \in Nat /\ inner[f].align \in {1, 4, 8}
         /\ offsets[f] % inner[f].align = 0
         /\ inner[f].align <= acc.align
         /\ offsets[f] + inner[f].size <= acc.size
         /\ \A g \in 1..n : f < g => offsets[f] + inner[f].size <= offsets[g]
  BY <1>9 DEF HasFields, IsLayout
<1>11. ASSUME NEW f \in 1..(n + 1)
       PROVE  /\ IsLayout(inner[f])
              /\ offsets[f] % inner[f].align = 0
              /\ inner[f].align <= new.align
              /\ offsets[f] + inner[f].size <= new.size
              /\ \A g \in 1..(n + 1) : f < g => offsets[f] + inner[f].size <= offsets[g]
  <2>1. CASE f = n + 1
    BY <1>1, <1>2, <1>4, <1>7, <1>8, <1>9, <2>1 DEF IsLayout
  <2>2. CASE f \in 1..n
    <3>1. inner[f].size \in Nat /\ inner[f].align \in {1, 4, 8} /\ offsets[f] \in Nat
      BY <1>9, <1>10, <2>2
    <3>2. offsets[f] + inner[f].size <= acc.size /\ inner[f].align <= acc.align
      BY <1>10, <2>2
    <3>3. offsets[f] + inner[f].size <= new.size /\ inner[f].align <= new.align
      <4>1. PICK o, size, a, b \in Nat : /\ o = offsets[f] /\ size = inner[f].size
                                         /\ a = inner[f].align /\ b = acc.align
        BY <1>3, <3>1
      <4>2. o + size <= acc.size /\ a <= b /\ b <= new.align /\ new.align \in Nat
        BY <1>8, <3>2, <4>1
      <4>3. acc.size <= offset + l.size /\ acc.size \in Nat /\ l.size \in Nat
        BY <1>2, <1>3, <1>4
      <4>4. o + size <= offset + l.size /\ a <= new.align
        BY <4>2, <4>3
      <4> QED  BY <1>7, <4>1, <4>4
    <3>4. offsets[f] + inner[f].size <= offsets[n + 1]
      BY <1>3, <1>4, <1>9, <3>1, <3>2
    <3>5. \A g \in 1..(n + 1) : g \in 1..n \/ g = n + 1
      OBVIOUS
    <3> QED  BY <1>10, <2>2, <3>1, <3>3, <3>4, <3>5 DEF IsLayout
  <2> QED  BY <2>1, <2>2
<1> QED  BY <1>2, <1>4, <1>7, <1>8, <1>9, <1>11 DEF HasFields, IsLayout

LEMMA ExtendAllFields ==
  ASSUME NEW n \in Nat, NEW inner, DOMAIN inner = 1..n, \A f \in 1..n : IsLayout(inner[f]),
         NEW l, l = ExtendAll(NoFields, inner)
  PROVE  HasFields(l, inner, n)
<1>1. PICK run : /\ run[0] = NoFields
                 /\ \A i \in 1..n : run[i] = extend(run[i - 1], inner[i])
                 /\ run[n] = l
  BY ExtendAllRun
<1> DEFINE S == {i \in 0..n : HasFields(run[i], inner, i)}
<1>2. 0 \in S
  <2>1. HasFields(NoFields, inner, 0)
    BY DEF HasFields, NoFields, IsLayout
  <2> QED  BY <1>1, <2>1
<1>3. ASSUME NEW i \in 0..(n - 1), i \in S  PROVE i + 1 \in S
  <2>1. i \in Nat /\ i + 1 \in 1..n /\ (i + 1) - 1 = i
    OBVIOUS
  <2>2. run[i + 1] = extend(run[i], inner[i + 1])
    BY <1>1, <2>1
  <2>3. HasFields(run[i + 1], inner, i + 1)
    BY <1>3, <2>1, <2>2, ExtendOne
  <2> QED  BY <2>1, <2>3
<1>4. 0..n \subseteq S
  <2> HIDE DEF S
  <2> QED  BY <1>2, <1>3, Extending!UpTo
<1> QED  BY <1>1, <1>4

-----------------------------------------------------------------------------
(* The layouts of all types.                                               *)

next_level(inner, types) == LayoutsOver(types, inner)

Levelling == INSTANCE Folding WITH Op <- next_level

IsTypes(types) ==
  /\ types \in Seq(Info(Len(types)))
  /\ \A id \in 1..Len(types) : Shaped(types[id])

LEMMA TypesParts ==
  ASSUME NEW types, IsTypes(types)
  PROVE  /\ Len(types) \in Nat /\ DOMAIN types = 1..Len(types)
         /\ \A id \in 1..Len(types) :
              /\ types[id].kind \in Prim \cup Pointer \cup {"Struct"}
              /\ types[id].of \in 0..Len(types)
              /\ types[id].fields \in Seq(1..Len(types))
              /\ types[id].kind # "Struct" => types[id].fields = << >>
              /\ types[id].kind \in Pointer => types[id].of # 0
<1>1. Len(types) \in Nat /\ DOMAIN types = 1..Len(types)
  BY DEF IsTypes
<1>2. ASSUME NEW id \in 1..Len(types)
      PROVE  /\ types[id].kind \in Prim \cup Pointer \cup {"Struct"}
             /\ types[id].of \in 0..Len(types)
             /\ types[id].fields \in Seq(1..Len(types))
             /\ types[id].kind # "Struct" => types[id].fields = << >>
             /\ types[id].kind \in Pointer => types[id].of # 0
  <2>1. PICK info : info = types[id]
    OBVIOUS
  <2>2. info \in Info(Len(types)) /\ Shaped(info)
    BY <2>1 DEF IsTypes
  <2>3. /\ info.kind \in Prim \cup Pointer \cup {"Struct"}
        /\ info.of \in 0..Len(types) /\ info.fields \in Seq(1..Len(types))
    BY <2>2 DEF Info
  <2>4. info.kind \in Prim => info.fields = << >>
    <3> SUFFICES ASSUME info.kind \in Prim PROVE info.fields = << >>
      OBVIOUS
    <3>1. info = PrimInfo(info.kind)
      BY <2>2 DEF Shaped
    <3>2. PrimInfo(info.kind).fields = << >>
      BY DEF PrimInfo
    <3> QED  BY <3>1, <3>2
  <2> QED  BY <2>1, <2>2, <2>3, <2>4 DEF Shaped
<1> QED  BY <1>1, <1>2

(* The layouts of a type's fields, in their order.                         *)
Inner(info, layout) == [f \in DOMAIN info.fields |-> layout[info.fields[f]]]

(* The type has this layout, made of those of its fields.                  *)
Laid(types, layout, id) ==
  /\ id \in 1..Len(types)
  /\ Range(types[id].fields) \subseteq DOMAIN layout
  /\ layout[id] = LayoutOf(types[id], layout)

IsLevels(types, level, n) ==
  level[0] = << >> /\ \A i \in 1..n : level[i] = LayoutsOver(types, level[i - 1])

(* The recursion of Layouts has a solution.                                *)
LEMMA Levels ==
  ASSUME NEW types, NEW n \in Nat, n = Len(types)
  PROVE  \E level : IsLevels(types, level, n) /\ level[n] = Layouts(types)
<1> DEFINE Solves(level) ==
             level = [i \in 0..n |-> IF i = 0 THEN << >> ELSE LayoutsOver(types, level[i - 1])]
           all == [i \in 1..n |-> types]
           found == CHOOSE level : Solves(level)
<1>1. \E level : Solves(level)
  <2>1. PICK level : level = [i \in 0..n |-> IF i = 0 THEN << >>
                                             ELSE next_level(level[i - 1], all[i])]
    <3>1. DOMAIN all = 1..n
      OBVIOUS
    <3> HIDE DEF all
    <3>2. \E level : Levelling!Recurs(level, << >>, all, n)
      BY <3>1, Levelling!RecursionExists
    <3> QED  BY <3>2 DEF Levelling!Recurs
  <2>2. ASSUME NEW i \in 0..n
        PROVE  level[i] = IF i = 0 THEN << >> ELSE LayoutsOver(types, level[i - 1])
    <3>1. CASE i = 0
      BY <2>1, <3>1
    <3>2. CASE i # 0
      <4>1. all[i] = types
        BY <3>2
      <4> HIDE DEF all
      <4> QED  BY <2>1, <3>2, <4>1 DEF next_level
    <3> QED  BY <3>1, <3>2
  <2>3. level = [i \in 0..n |-> level[i]]
    BY <2>1
  <2> QED  BY <2>2, <2>3
<1>2. Solves(found)
  <2> HIDE DEF Solves
  <2> QED  BY <1>1
<1>3. Layouts(types) = found[n]
  BY DEF Layouts
<1> HIDE DEF found
<1>4. found[0] = << >> /\ \A i \in 1..n : found[i] = LayoutsOver(types, found[i - 1])
  BY <1>2
<1> QED  BY <1>3, <1>4 DEF IsLevels

LEMMA LayoutsOverAre ==
  ASSUME NEW types, IsTypes(types), NEW inner, NEW layout, layout = LayoutsOver(types, inner)
  PROVE  /\ \A id : id \in DOMAIN layout <=> /\ id \in 1..Len(types)
                                             /\ Range(types[id].fields) \subseteq DOMAIN inner
         /\ \A id \in DOMAIN layout : layout[id] = LayoutOf(types[id], inner)
<1>1. DOMAIN types = 1..Len(types)
  BY TypesParts
<1> QED  BY <1>1 DEF LayoutsOver

Agree(a, b, ids) == \A id \in ids : a[id] = b[id]

(* A layout depends on those of the fields only.                           *)
LEMMA LayoutOfSame ==
  ASSUME NEW types, IsTypes(types), NEW id \in 1..Len(types),
         NEW a, NEW b, Agree(a, b, Range(types[id].fields))
  PROVE  LayoutOf(types[id], a) = LayoutOf(types[id], b)
<1>1. \A f \in DOMAIN types[id].fields : types[id].fields[f] \in Range(types[id].fields)
  BY DEF Range
<1>2. Inner(types[id], a) = Inner(types[id], b)
  BY <1>1 DEF Inner, Agree
<1>3. \A l : LayoutOf(types[id], l) =
        IF types[id].kind = "Struct" THEN ExtendAll(NoFields, Inner(types[id], l))
        ELSE [field_offsets |-> << >>, size |-> PrimSize[types[id].kind],
              align |-> PrimSize[types[id].kind]]
  BY DEF LayoutOf, ExtendAll, Inner
<1> QED  BY <1>2, <1>3

LEMMA LevelsGrow ==
  ASSUME NEW types, IsTypes(types), NEW n \in Nat, NEW level, IsLevels(types, level, n)
  PROVE  \A i \in 1..n : /\ DOMAIN level[i - 1] \subseteq DOMAIN level[i]
                         /\ \A id \in DOMAIN level[i - 1] : level[i][id] = level[i - 1][id]
<1> DEFINE Above(i) == /\ DOMAIN level[i - 1] \subseteq DOMAIN level[i]
                       /\ \A id \in DOMAIN level[i - 1] : level[i][id] = level[i - 1][id]
           S == {i \in 0..n : i # 0 => Above(i)}
<1>1. 0 \in S
  OBVIOUS
<1>2. ASSUME NEW i \in 0..(n - 1), i \in S  PROVE i + 1 \in S
  <2>1. i \in Nat /\ i + 1 \in 1..n /\ (i + 1) - 1 = i
    OBVIOUS
  <2>2. level[0] = << >> /\ level[i + 1] = LayoutsOver(types, level[i])
    BY <2>1 DEF IsLevels
  <2>3. CASE i = 0
    <3>1. DOMAIN level[0] = {}
      BY <2>2
    <3> QED  BY <2>1, <2>3, <3>1
  <2>4. CASE i # 0
    <3>1. i \in 1..n /\ Above(i) /\ level[i] = LayoutsOver(types, level[i - 1])
      BY <1>2, <2>4 DEF IsLevels
    <3>2. ASSUME NEW id \in DOMAIN level[i]
          PROVE  id \in DOMAIN level[i + 1] /\ level[i + 1][id] = level[i][id]
      <4>1. /\ id \in 1..Len(types) /\ Range(types[id].fields) \subseteq DOMAIN level[i - 1]
            /\ level[i][id] = LayoutOf(types[id], level[i - 1])
        BY <3>1, LayoutsOverAre
      <4>2. Range(types[id].fields) \subseteq DOMAIN level[i]
        BY <3>1, <4>1
      <4>3. id \in DOMAIN level[i + 1] /\ level[i + 1][id] = LayoutOf(types[id], level[i])
        BY <2>2, <4>1, <4>2, LayoutsOverAre
      <4>4. Agree(level[i], level[i - 1], Range(types[id].fields))
        BY <3>1, <4>1 DEF Agree
      <4>5. LayoutOf(types[id], level[i]) = LayoutOf(types[id], level[i - 1])
        BY <4>1, <4>4, LayoutOfSame
      <4> QED  BY <4>1, <4>3, <4>5
    <3>3. Above(i + 1)
      BY <2>1, <3>2
    <3> QED  BY <2>1, <3>3
  <2> QED  BY <2>3, <2>4
<1>3. 0..n \subseteq S
  <2> HIDE DEF S
  <2> QED  BY <1>1, <1>2, Levelling!UpTo
<1> QED  BY <1>3

(* The layouts that Layouts computes are made of one another.              *)
LEMMA LayoutsLaid ==
  ASSUME NEW types, IsTypes(types), NEW layout, layout = Layouts(types)
  PROVE  \A id \in DOMAIN layout : Laid(types, layout, id)
<1>1. PICK n \in Nat : n = Len(types)
  BY TypesParts
<1>2. PICK level : IsLevels(types, level, n) /\ level[n] = layout
  BY <1>1, Levels
<1>3. \A i \in 1..n : /\ DOMAIN level[i - 1] \subseteq DOMAIN level[i]
                      /\ \A id \in DOMAIN level[i - 1] : level[i][id] = level[i - 1][id]
  BY <1>2, LevelsGrow
<1> SUFFICES ASSUME NEW id \in DOMAIN layout PROVE Laid(types, layout, id)
  OBVIOUS
<1>4. n # 0
  BY <1>2 DEF IsLevels
<1>5. n \in 1..n
  BY <1>4
<1>6. PICK inner : /\ inner = level[n - 1] /\ layout = LayoutsOver(types, inner)
                   /\ DOMAIN inner \subseteq DOMAIN layout
                   /\ \A k \in DOMAIN inner : layout[k] = inner[k]
  BY <1>2, <1>3, <1>5 DEF IsLevels
<1>7. /\ id \in 1..Len(types) /\ Range(types[id].fields) \subseteq DOMAIN inner
      /\ layout[id] = LayoutOf(types[id], inner)
  BY <1>6, LayoutsOverAre
<1>8. LayoutOf(types[id], inner) = LayoutOf(types[id], layout)
  <2>1. Agree(inner, layout, Range(types[id].fields))
    BY <1>6, <1>7 DEF Agree
  <2> QED  BY <1>7, <2>1, LayoutOfSame
<1> QED  BY <1>6, <1>7, <1>8 DEF Laid

LEMMA LayoutOfFields ==
  ASSUME NEW types, IsTypes(types), NEW id \in 1..Len(types), NEW inner,
         \A i \in Range(types[id].fields) : IsLayout(inner[i])
  PROVE  /\ HasFields(LayoutOf(types[id], inner), Inner(types[id], inner), Len(types[id].fields))
         /\ types[id].kind = "GcRef" => LayoutOf(types[id], inner).size = 8
<1>1. PICK info : info = types[id]
  OBVIOUS
<1>2. PICK n \in Nat : n = Len(info.fields) /\ DOMAIN info.fields = 1..n
  BY <1>1, TypesParts
<1>3. PICK l : l = LayoutOf(info, inner)
  OBVIOUS
<1>4. CASE info.kind = "Struct"
  <2>1. l = ExtendAll(NoFields, Inner(info, inner))
    BY <1>3, <1>4 DEF LayoutOf, ExtendAll, Inner
  <2>2. DOMAIN Inner(info, inner) = 1..n /\ \A f \in 1..n : IsLayout(Inner(info, inner)[f])
    BY <1>1, <1>2 DEF Inner, Range
  <2>3. HasFields(l, Inner(info, inner), n)
    BY ONLY n \in Nat, <2>1, <2>2, ExtendAllFields
  <2> QED  BY <1>1, <1>2, <1>3, <1>4, <2>3
<1>5. CASE info.kind # "Struct"
  <2>1. info.kind \in Prim \cup Pointer /\ info.fields = << >>
    BY <1>1, <1>5, TypesParts
  <2>2. l = [field_offsets |-> << >>, size |-> PrimSize[info.kind], align |-> PrimSize[info.kind]]
    BY <1>3, <1>5 DEF LayoutOf
  <2>3. PrimSize[info.kind] \in {1, 4, 8} /\ (info.kind = "GcRef" => PrimSize[info.kind] = 8)
    BY <2>1 DEF PrimSize, Prim, Pointer
  <2>4. n = 0
    BY <1>2, <2>1
  <2>5. HasFields(l, Inner(info, inner), 0)
    BY <2>2, <2>3 DEF HasFields, IsLayout
  <2> QED  BY <1>1, <1>2, <1>3, <2>2, <2>3, <2>4, <2>5
<1> QED  BY <1>4, <1>5

(* Every type with a layout: what Layouts promises of it.                  *)
Fits(types, layout, id) ==
  /\ Laid(types, layout, id)
  /\ HasFields(layout[id], Inner(types[id], layout), Len(types[id].fields))
  /\ types[id].kind = "GcRef" => layout[id].size = 8

LEMMA LayoutsFit ==
  ASSUME NEW types, IsTypes(types), NEW layout, layout = Layouts(types)
  PROVE  \A id \in DOMAIN layout : Fits(types, layout, id)
<1>1. PICK n \in Nat : n = Len(types)
  BY TypesParts
<1>2. PICK level : IsLevels(types, level, n) /\ level[n] = layout
  BY <1>1, Levels
<1> DEFINE S == {i \in 0..n : \A id \in DOMAIN level[i] : IsLayout(level[i][id])}
<1>3. 0 \in S
  <2>1. DOMAIN level[0] = {}
    BY <1>2 DEF IsLevels
  <2> QED  BY <2>1
<1>4. ASSUME NEW i \in 0..(n - 1), i \in S  PROVE i + 1 \in S
  <2>1. i \in Nat /\ i + 1 \in 1..n /\ i + 1 \in 0..n /\ (i + 1) - 1 = i
    OBVIOUS
  <2>2. PICK new, inner : /\ new = level[i + 1] /\ inner = level[i]
                          /\ new = LayoutsOver(types, inner)
    BY <1>2, <2>1 DEF IsLevels
  <2>3. ASSUME NEW id \in DOMAIN new PROVE IsLayout(new[id])
    <3>1. /\ id \in 1..Len(types) /\ Range(types[id].fields) \subseteq DOMAIN inner
          /\ new[id] = LayoutOf(types[id], inner)
      BY <2>2, LayoutsOverAre
    <3>2. \A k \in Range(types[id].fields) : IsLayout(inner[k])
      BY <1>4, <2>2, <3>1
    <3>3. HasFields(new[id], Inner(types[id], inner), Len(types[id].fields))
      BY <3>1, <3>2, LayoutOfFields
    <3> QED  BY <3>3 DEF HasFields
  <2> QED  BY <2>1, <2>2, <2>3
<1>5. 0..n \subseteq S
  <2> HIDE DEF S
  <2> QED  BY <1>3, <1>4, Levelling!UpTo
<1>6. n \in 0..n
  OBVIOUS
<1>7. \A id \in DOMAIN layout : IsLayout(layout[id])
  BY <1>2, <1>5, <1>6
<1> SUFFICES ASSUME NEW id \in DOMAIN layout PROVE Fits(types, layout, id)
  OBVIOUS
<1>8. Laid(types, layout, id)
  BY LayoutsLaid
<1>9. \A k \in Range(types[id].fields) : IsLayout(layout[k])
  BY <1>7, <1>8 DEF Laid
<1>10. /\ HasFields(LayoutOf(types[id], layout), Inner(types[id], layout), Len(types[id].fields))
       /\ types[id].kind = "GcRef" => LayoutOf(types[id], layout).size = 8
  BY <1>8, <1>9, LayoutOfFields DEF Laid
<1> QED  BY <1>8, <1>10 DEF Fits, Laid

-----------------------------------------------------------------------------
(* Registration.                                                           *)

LEMMA TableTypes ==
  ASSUME ParseInv
  PROVE  IsTypes(id2info) /\ Ids = 1..Len(id2info)
<1>1. IsTable(interner)
  BY DEF ParseInv
<1> QED  BY <1>1, TableParts DEF IsTypes, Ids, id2info

LEMMA GcPtrFieldsAre ==
  ASSUME NEW types, IsTypes(types), NEW layout, NEW id \in DOMAIN layout, Fits(types, layout, id)
  PROVE  gc_ptr_fields(types, layout, id) \in SUBSET Nat
<1>1. /\ id \in 1..Len(types) /\ layout[id].field_offsets \in Seq(Nat)
      /\ Len(layout[id].field_offsets) = Len(types[id].fields)
  BY DEF Fits, Laid, HasFields
<1>2. DOMAIN types[id].fields = 1..Len(types[id].fields)
  BY <1>1, TypesParts
<1>3. \A f \in DOMAIN types[id].fields : layout[id].field_offsets[f] \in Nat
  BY <1>1, <1>2
<1> QED  BY <1>3 DEF gc_ptr_fields

LEMMA NothingRegistered ==
  ASSUME rt_types = << >>,
         \/ phase \in {"declare", "define"}
         \/ phase = "register" /\ pos = 1
  PROVE  Registered
<1>1. rt_types \in Seq(RtTypeData) /\ Len(rt_types) = 0 /\ 1..Len(rt_types) = {}
  OBVIOUS
<1> QED  BY <1>1 DEF Registered, RtTypesInStep

LEMMA RegisterRegistered ==
  ASSUME ParseInv, Registered, Register
  PROVE  Registered'
<1>1. PICK types, layout : types = id2info /\ layout = Layouts(id2info)
  OBVIOUS
<1>2. PICK n \in Nat : n = Len(types) /\ IsTypes(types)
  BY <1>1, TableTypes, TypesParts
<1>3. /\ phase = "register" /\ phase' = "register" /\ pos <= n /\ pos \in DOMAIN layout
      /\ pos' = pos + 1 /\ interner' = interner
  BY <1>1, <1>2 DEF Register
<1>4. id2info' = types /\ Layouts(id2info)' = layout
  BY <1>1, <1>3 DEF id2info
<1>5. PICK data : data = [size          |-> layout[pos].size,
                          align         |-> layout[pos].align,
                          gc_ptr_fields |-> gc_ptr_fields(types, layout, pos)]
  OBVIOUS
<1>6. rt_types' = Append(rt_types, data)
  BY <1>1, <1>5 DEF Register
<1>7. data \in RtTypeData /\ data.gc_ptr_fields = gc_ptr_fields(types, layout, pos)
  <2>1. Fits(types, layout, pos)
    BY <1>1, <1>2, <1>3, LayoutsFit
  <2>2. layout[pos].size \in Nat /\ layout[pos].align \in {1, 4, 8}
    BY <2>1 DEF Fits, HasFields, IsLayout
  <2>3. gc_ptr_fields(types, layout, pos) \in SUBSET Nat
    BY <1>2, <1>3, <2>1, GcPtrFieldsAre
  <2> QED  BY <1>5, <2>2, <2>3 DEF RtTypeData
<1>8. pos \in Nat \ {0}
  BY DEF ParseInv, InText
<1>9. /\ rt_types \in Seq(RtTypeData) /\ Len(rt_types) = pos - 1
      /\ \A id \in 1..Len(rt_types) :
           /\ id \in DOMAIN layout
           /\ rt_types[id].gc_ptr_fields = gc_ptr_fields(types, layout, id)
  BY <1>1, <1>3 DEF Registered, RtTypesInStep
<1>10. rt_types' \in Seq(RtTypeData) /\ Len(rt_types') = pos
  BY <1>6, <1>7, <1>8, <1>9
<1>11. ASSUME NEW id \in 1..pos
       PROVE  /\ id \in DOMAIN layout
              /\ rt_types'[id].gc_ptr_fields = gc_ptr_fields(types, layout, id)
  <2>1. CASE id = pos
    BY <1>3, <1>6, <1>7, <1>8, <1>9, <2>1
  <2>2. CASE id # pos
    <3>1. id \in 1..(pos - 1) /\ rt_types'[id] = rt_types[id]
      BY <1>6, <1>8, <1>9, <2>2
    <3> QED  BY <1>9, <3>1
  <2> QED  BY <2>1, <2>2
<1>12. \A id \in 1..Len(rt_types') :
         /\ id \in DOMAIN layout
         /\ rt_types'[id].gc_ptr_fields = gc_ptr_fields(types, layout, id)
  BY <1>10, <1>11
<1> QED  BY <1>3, <1>4, <1>8, <1>10, <1>12 DEF Registered, RtTypesInStep

(* The table stays as it is when neither it nor the types change.          *)
LEMMA KeepsRegistered ==
  ASSUME Registered, UNCHANGED <<interner, rt_types>>,
         phase' \in {"declare", "define"} => rt_types = << >>,
         phase' = "register" => Len(rt_types) = pos' - 1,
         phase' = "done" => Len(rt_types) = Len(id2info)
  PROVE  Registered'
<1>1. PICK types, layout : types = id2info /\ layout = Layouts(id2info)
  OBVIOUS
<1>2. id2info' = types /\ Layouts(id2info)' = layout
  BY <1>1 DEF id2info
<1>3. /\ rt_types \in Seq(RtTypeData)
      /\ \A id \in 1..Len(rt_types) :
           /\ id \in DOMAIN layout
           /\ rt_types[id].gc_ptr_fields = gc_ptr_fields(types, layout, id)
  BY <1>1 DEF Registered, RtTypesInStep
<1> QED  BY <1>1, <1>2, <1>3 DEF Registered, RtTypesInStep

LEMMA StepRegistered ==
  ASSUME ParseInv, Registered, [Next]_vars
  PROVE  Registered'
<1>1. /\ pos \in Nat \ {0} /\ phase \in {"declare", "define", "register", "done", "aborted"}
      /\ phase = "register" => pos <= Len(id2info) + 1
  BY DEF ParseInv, InText
<1>2. /\ phase \in {"declare", "define"} => rt_types = << >>
      /\ phase = "register" => Len(rt_types) = pos - 1
      /\ phase = "done" => Len(rt_types) = Len(id2info)
  BY DEF Registered, RtTypesInStep
<1>3. CASE Declare \/ Define \/ StartDefining \/ StartRegistering
  <2>1. /\ phase \in {"declare", "define"} /\ rt_types' = rt_types
        /\ phase' \in {"declare", "define"} \/ (phase' = "register" /\ pos' = 1)
    BY <1>3 DEF Declare, Define, StartDefining, StartRegistering, NextLoop
  <2>2. rt_types' = << >>
    BY <1>2, <2>1
  <2>3. rt_types' \in Seq(RtTypeData) /\ Len(rt_types') = 0 /\ 1..Len(rt_types') = {}
    BY <2>2
  <2> QED  BY <2>1, <2>2, <2>3 DEF Registered, RtTypesInStep
<1>4. CASE Register
  BY <1>4, RegisterRegistered
<1>5. CASE Overflow
  <2>1. phase' = "aborted" /\ UNCHANGED <<interner, rt_types>>
    BY <1>5 DEF Overflow
  <2> QED  BY <2>1, KeepsRegistered
<1>6. CASE Finish
  <2>1. /\ phase = "register" /\ phase' = "done" /\ pos > Len(id2info)
        /\ UNCHANGED <<interner, rt_types>>
    BY <1>6 DEF Finish, NextLoop
  <2>2. Len(id2info) \in Nat
    BY TableTypes, TypesParts
  <2>3. Len(rt_types) = Len(id2info)
    BY <1>1, <1>2, <2>1, <2>2
  <2> QED  BY <2>1, <2>3, KeepsRegistered
<1>7. CASE UNCHANGED vars
  <2>1. phase' = phase /\ pos' = pos /\ UNCHANGED <<interner, rt_types>>
    BY <1>7 DEF vars
  <2> QED  BY <1>2, <2>1, KeepsRegistered
<1> QED  BY <1>3, <1>4, <1>5, <1>6, <1>7 DEF Next

LEMMA Invariant == Spec => []IInv
<1>1. Init => IInv
  <2>1. Init => Registered
    <3> SUFFICES ASSUME Init PROVE Registered
      OBVIOUS
    <3>1. rt_types = << >> /\ phase = "declare"
      BY DEF Init
    <3> QED  BY <3>1, NothingRegistered
  <2> QED  BY <2>1, InitParse DEF IInv, ParseInv
<1>2. IInv /\ [Next]_vars => IInv'
  <2>1. IInv <=> ParseInv /\ Registered
    BY DEF IInv, ParseInv
  <2>2. IInv' <=> ParseInv' /\ Registered'
    BY DEF IInv, ParseInv
  <2> QED  BY <2>1, <2>2, StepParse, StepRegistered
<1> QED  BY <1>1, <1>2, PTL DEF Spec

(* Type correctness.  The interner's entries mention ids it has given out, *)
(* each id leads to its info and back although infos are replaced while a  *)
(* text is parsed, names lead to ids, and as many types are registered     *)
(* with the runtime as compile_program's loop has been through, with       *)
(* sizes, alignments and offsets a type can have.                          *)
THEOREM TypeCorrect == Spec => []TypeOK
<1>1. ASSUME ParseInv, Registered PROVE TypeOK
  <2>1. PICK n \in Nat : n = Len(id2info) /\ Ids = 1..n
    BY <1>1, TableParts DEF ParseInv, Ids, id2info
  <2>2. ASSUME NEW info \in Info(n) PROVE IsInfo(info)
    <3>1. /\ info.kind \in Prim \cup {"Ref", "GcRef", "Struct"}
          /\ info.of \in 0..n /\ info.fields \in Seq(1..n)
      BY DEF Info, Pointer
    <3> QED  BY <2>1, <3>1 DEF IsInfo
  <2>3. \A id \in Ids : IsInfo(id2info[id])
    BY <1>1, <2>1, <2>2, TableParts DEF ParseInv, id2info
  <2>4. \A info \in DOMAIN info2id : IsInfo(info) /\ info2id[info] \in Ids
    BY <1>1, <2>1, <2>2, TableParts DEF ParseInv, id2info, info2id
  <2>5. DOMAIN type_name_to_id \subseteq Declared(items)
    <3>1. DeclaredStructs \subseteq StructNames(Len(items))
      <4>1. InText
        BY <1>1 DEF ParseInv
      <4>2. Len(items) \in Nat
        BY <4>1, TextParts
      <4>3. CASE phase = "declare"
        <5>1. pos \in Nat /\ pos <= Len(items) + 1
          BY <4>1, <4>3 DEF InText
        <5>2. 1..(pos - 1) \subseteq 1..Len(items)
          BY <4>2, <5>1
        <5> QED  BY <4>3, <5>2 DEF DeclaredStructs, StructNames
      <4>4. CASE phase # "declare"
        BY <4>4 DEF DeclaredStructs
      <4> QED  BY <4>3, <4>4
    <3>2. Declared(items) = Prim \cup StructNames(Len(items))
      BY <1>1, TextParts DEF ParseInv
    <3> QED  BY <1>1, <3>1, <3>2 DEF ParseInv, NamesKept
  <2>6. \A n1 \in DOMAIN type_name_to_id : type_name_to_id[n1] \in Ids
    BY <1>1, <2>1 DEF ParseInv, NamesKept
  <2>7. phase \in {"declare", "define", "register", "done", "aborted"} /\ pos \in Nat \ {0}
    BY <1>1 DEF ParseInv, InText
  <2>8. MapsAgree
    BY <1>1, <2>1 DEF ParseInv, Agrees, MapsAgree, id2info, info2id
  <2>9. RtTypesInStep
    BY <1>1 DEF Registered
  <2> QED  BY <2>3, <2>4, <2>5, <2>6, <2>7, <2>8, <2>9 DEF TypeOK
<1>2. IInv => ParseInv /\ Registered
  BY DEF IInv, ParseInv
<1> QED  BY <1>1, <1>2, Invariant, PTL

(* When the table is done, every type has a layout.                        *)
LEMMA AllLaid ==
  ASSUME IInv, phase = "done", NEW types, types = id2info, NEW layout, layout = Layouts(types)
  PROVE  /\ IsTypes(types) /\ Ids = 1..Len(types)
         /\ \A id \in 1..Len(types) : /\ id \in DOMAIN layout
                                      /\ Fits(types, layout, id)
                                      /\ rt_types[id].gc_ptr_fields
                                           = gc_ptr_fields(types, layout, id)
<1>1. ParseInv /\ Registered
  BY DEF IInv, ParseInv
<1>2. IsTypes(types) /\ Ids = 1..Len(types)
  BY <1>1, TableTypes
<1>3. \A id \in 1..Len(types) : /\ id \in DOMAIN layout
                                /\ rt_types[id].gc_ptr_fields = gc_ptr_fields(types, layout, id)
  BY <1>1 DEF Registered, RtTypesInStep
<1> QED  BY <1>2, <1>3, LayoutsFit

(* The bytes of a struct's fields are aligned for them, inside the struct, *)
(* and shared by no two of them: what StructInfo::layout makes of          *)
(* Layout::extend, for every struct that the parser and the interner can   *)
(* have made of a text.                                                    *)
THEOREM StructsLaidOut == Spec => []FieldsDisjoint
<1>1. ASSUME IInv PROVE FieldsDisjoint
  <2> SUFFICES ASSUME phase = "done" PROVE FieldsDisjoint
    BY DEF FieldsDisjoint
  <2>1. PICK types, layout : types = id2info /\ layout = Layouts(types)
    OBVIOUS
  <2>2. /\ IsTypes(types) /\ Ids = 1..Len(types)
        /\ \A id \in 1..Len(types) : Fits(types, layout, id)
    BY <1>1, <2>1, AllLaid
  <2>3. ASSUME NEW id \in 1..Len(types), NEW f \in DOMAIN types[id].fields
        PROVE  LET fields == types[id].fields
                   first(h) == layout[id].field_offsets[h]
                   end(h)   == first(h) + layout[fields[h]].size
               IN  /\ first(f) % layout[fields[f]].align = 0
                   /\ end(f) <= layout[id].size
                   /\ \A g \in DOMAIN fields : f < g => end(f) <= first(g)
    <3>1. DOMAIN types[id].fields = 1..Len(types[id].fields)
      BY <2>2, TypesParts
    <3>2. Inner(types[id], layout)[f] = layout[types[id].fields[f]]
      BY DEF Inner
    <3>3. HasFields(layout[id], Inner(types[id], layout), Len(types[id].fields))
      BY <2>2 DEF Fits
    <3> QED  BY <3>1, <3>2, <3>3 DEF HasFields
  <2> QED  BY <2>1, <2>2, <2>3 DEF FieldsDisjoint
<1> QED  BY <1>1, Invariant, PTL
-----------------------------------------------------------------------------
(* Places.                                                                 *)

one_more(shorter, table) == OneMore(table.types, table.layout, shorter)

Walking == INSTANCE Folding WITH Op <- one_more

(* Types of which each has a layout.                                       *)
AllFit(types, layout) ==
  /\ IsTypes(types)
  /\ \A id \in 1..Len(types) : Fits(types, layout, id)

First(types, layout, id, f) == layout[id].field_offsets[f]
End(types, layout, id, f) == layout[id].field_offsets[f] + layout[types[id].fields[f]].size

(* Where a place can be in its object: all of it, one of its fields, or in *)
(* a struct that is one of its fields.                                     *)
Located(types, layout, w) ==
  \/ w.offset = 0 /\ w.ty = w.object
  \/ \E f \in DOMAIN types[w.object].fields :
       /\ w.offset = First(types, layout, w.object, f)
       /\ w.ty = types[w.object].fields[f]
  \/ \E f \in DOMAIN types[w.object].fields :
       /\ types[types[w.object].fields[f]].kind = "Struct"
       /\ First(types, layout, w.object, f) <= w.offset
       /\ w.offset + layout[w.ty].size <= End(types, layout, w.object, f)

(* A place lies in its object, aligned, and where Located says.            *)
IsPlace(types, layout, w) ==
  /\ w \in [object : 1..Len(types), offset : Nat, ty : 1..Len(types)]
  /\ w.offset + layout[w.ty].size <= layout[w.object].size
  /\ w.offset % layout[w.ty].align = 0
  /\ Located(types, layout, w)

LEMMA FieldFits ==
  ASSUME NEW types, NEW layout, AllFit(types, layout), NEW id \in 1..Len(types)
  PROVE  /\ layout[id].size \in Nat /\ layout[id].align \in {1, 4, 8}
         /\ \A f \in DOMAIN types[id].fields :
              LET ty == types[id].fields[f]
              IN  /\ ty \in 1..Len(types) /\ types[id].kind = "Struct"
                  /\ First(types, layout, id, f) \in Nat
                  /\ First(types, layout, id, f) % layout[ty].align = 0
                  /\ layout[ty].align <= layout[id].align
                  /\ End(types, layout, id, f) <= layout[id].size
                  /\ \A g \in DOMAIN types[id].fields :
                       f < g => End(types, layout, id, f) <= First(types, layout, id, g)
<1>1. IsTypes(types) /\ Fits(types, layout, id)
  BY DEF AllFit
<1>2. PICK info : info = types[id]
  OBVIOUS
<1>3. PICK n \in Nat : /\ n = Len(info.fields) /\ DOMAIN info.fields = 1..n
                       /\ info.fields \in Seq(1..Len(types))
                       /\ info.kind # "Struct" => info.fields = << >>
  <2>1. /\ types[id].fields \in Seq(1..Len(types))
        /\ types[id].kind # "Struct" => types[id].fields = << >>
    BY <1>1, TypesParts
  <2>2. Len(info.fields) \in Nat /\ DOMAIN info.fields = 1..Len(info.fields)
    BY <1>2, <2>1
  <2> QED  BY <1>2, <2>1, <2>2
<1>4. HasFields(layout[id], Inner(info, layout), n)
  BY <1>1, <1>2, <1>3 DEF Fits
<1>5. layout[id].size \in Nat /\ layout[id].align \in {1, 4, 8}
  BY <1>4 DEF HasFields, IsLayout
<1>6. ASSUME NEW f \in DOMAIN info.fields
      PROVE  LET ty == info.fields[f]
             IN  /\ ty \in 1..Len(types) /\ info.kind = "Struct"
                 /\ First(types, layout, id, f) \in Nat
                 /\ First(types, layout, id, f) % layout[ty].align = 0
                 /\ layout[ty].align <= layout[id].align
                 /\ End(types, layout, id, f) <= layout[id].size
                 /\ \A g \in DOMAIN info.fields :
                      f < g => End(types, layout, id, f) <= First(types, layout, id, g)
  <2>1. f \in 1..n /\ info.fields[f] \in 1..Len(types) /\ info.kind = "Struct"
    BY <1>3
  <2>2. Inner(info, layout)[f] = layout[info.fields[f]]
    BY DEF Inner
  <2>3. layout[id].field_offsets[f] \in Nat
    BY <1>4, <2>1 DEF HasFields
  <2> QED  BY <1>2, <1>3, <1>4, <2>1, <2>2, <2>3 DEF HasFields, First, End
<1> QED  BY <1>2, <1>5, <1>6

LEMMA StepIsPlace ==
  ASSUME NEW types, NEW layout, AllFit(types, layout),
         NEW w, IsPlace(types, layout, w), NEW v \in Steps(types, layout, w)
  PROVE  IsPlace(types, layout, v)
<1>1. PICK o, t \in 1..Len(types), offset \in Nat :
        /\ w = [object |-> o, offset |-> offset, ty |-> t]
        /\ w.object = o /\ w.ty = t /\ w.offset = offset
  BY DEF IsPlace
<1>2. CASE types[t].kind \in Pointer
  <2>1. PICK of : of = types[t].of
    OBVIOUS
  <2>2. v = [object |-> of, offset |-> 0, ty |-> of]
    BY <1>1, <1>2, <2>1 DEF Steps, Pointer
  <2>3. of \in 1..Len(types)
    <3>1. IsTypes(types)
      BY DEF AllFit
    <3> QED  BY <1>1, <1>2, <2>1, <3>1, TypesParts
  <2>4. layout[of].size \in Nat /\ layout[of].align \in {1, 4, 8}
    BY <2>3, FieldFits
  <2>5. 0 % layout[of].align = 0
    BY <2>4
  <2> QED  BY <2>2, <2>3, <2>4, <2>5 DEF IsPlace, Located
<1>3. CASE types[t].kind \notin Pointer
  <2>1. PICK f \in DOMAIN types[t].fields :
          v = [w EXCEPT !.offset = @ + First(types, layout, t, f), !.ty = types[t].fields[f]]
    BY <1>1, <1>3 DEF Steps, Pointer, First
  <2>2. PICK first, u : first = First(types, layout, t, f) /\ u = types[t].fields[f]
    OBVIOUS
  <2>3. v = [object |-> o, offset |-> offset + first, ty |-> u]
    BY <1>1, <2>1, <2>2
  <2>4. /\ u \in 1..Len(types) /\ types[t].kind = "Struct" /\ first \in Nat
        /\ first % layout[u].align = 0 /\ layout[u].align <= layout[t].align
        /\ first + layout[u].size <= layout[t].size
    BY <1>1, <2>2, FieldFits DEF First, End
  <2>5. /\ layout[u].size \in Nat /\ layout[u].align \in {1, 4, 8}
        /\ layout[t].size \in Nat /\ layout[t].align \in {1, 4, 8}
        /\ layout[o].size \in Nat
    BY <1>1, <2>4, FieldFits
  <2>6. /\ offset + layout[t].size <= layout[o].size /\ offset % layout[t].align = 0
        /\ Located(types, layout, w)
    BY <1>1 DEF IsPlace
  <2>10. PICK su, st, so \in Nat :
           su = layout[u].size /\ st = layout[t].size /\ so = layout[o].size
    BY <2>5
  <2>11. first \in Nat /\ first + su <= st /\ offset + st <= so
    BY <2>4, <2>6, <2>10
  <2>7. (offset + first) + layout[u].size <= layout[o].size
    <3>1. (offset + first) + su <= so
      BY <2>11
    <3> QED  BY <2>10, <3>1
  <2>8. (offset + first) % layout[u].align = 0
    <3>1. PICK a, b : a = layout[u].align /\ b = layout[t].align
      OBVIOUS
    <3>2. CASE a = 1
      BY <1>1, <2>4, <3>1, <3>2
    <3>3. CASE a = 4
      <4>1. b \in {4, 8}
        BY <2>4, <2>5, <3>1, <3>3
      <4>2. offset % 4 = 0
        BY <1>1, <2>6, <3>1, <4>1
      <4> QED  BY <1>1, <2>4, <3>1, <3>3, <4>2
    <3>4. CASE a = 8
      <4>1. b = 8
        BY <2>4, <2>5, <3>1, <3>4
      <4> QED  BY <1>1, <2>4, <2>6, <3>1, <3>4, <4>1
    <3> QED  BY <2>5, <3>1, <3>2, <3>3, <3>4
  <2>9. Located(types, layout, v)
    <3>1. /\ v.object = o /\ v.offset = offset + first /\ v.ty = u
      BY <2>3
    <3>2. CASE offset = 0 /\ t = o
      <4>1. f \in DOMAIN types[o].fields /\ u = types[o].fields[f]
        BY <2>1, <2>2, <3>2
      <4>2. v.offset = First(types, layout, o, f)
        BY <2>2, <2>4, <3>1, <3>2
      <4> QED  BY <3>1, <4>1, <4>2 DEF Located
    <3>3. ASSUME NEW g \in DOMAIN types[o].fields,
                 offset = First(types, layout, o, g), t = types[o].fields[g]
          PROVE  Located(types, layout, v)
      <4>1. End(types, layout, o, g) = offset + layout[t].size
        BY <3>3 DEF First, End
      <4>2. (offset + first) + su <= offset + st /\ offset <= offset + first
        BY <2>11
      <4>3. /\ First(types, layout, o, g) <= v.offset
            /\ v.offset + layout[v.ty].size <= End(types, layout, o, g)
        BY <2>10, <3>1, <3>3, <4>1, <4>2
      <4> QED  BY <2>4, <3>1, <3>3, <4>3 DEF Located
    <3>4. ASSUME NEW g \in DOMAIN types[o].fields,
                 types[types[o].fields[g]].kind = "Struct",
                 First(types, layout, o, g) <= offset,
                 offset + layout[t].size <= End(types, layout, o, g)
          PROVE  Located(types, layout, v)
      <4>1. /\ First(types, layout, o, g) \in Nat
            /\ types[o].fields[g] \in 1..Len(types)
        BY ONLY AllFit(types, layout), o \in 1..Len(types), g \in DOMAIN types[o].fields,
                FieldFits
      <4>2. layout[types[o].fields[g]].size \in Nat
        BY ONLY AllFit(types, layout), <4>1, FieldFits
      <4>3. End(types, layout, o, g) \in Nat
        <5>1. PICK a, b \in Nat :
                a = First(types, layout, o, g) /\ b = layout[types[o].fields[g]].size
          BY <4>1, <4>2
        <5>2. End(types, layout, o, g) = a + b
          BY <5>1 DEF First, End
        <5> QED  BY <5>2
      <4>4. PICK low, high \in Nat :
              low = First(types, layout, o, g) /\ high = End(types, layout, o, g)
        BY <4>1, <4>3
      <4>5. low <= offset /\ offset + st <= high
        BY <2>10, <3>4, <4>4
      <4>6. low <= offset + first /\ (offset + first) + su <= high
        BY <2>11, <4>5
      <4>7. /\ First(types, layout, o, g) <= v.offset
            /\ v.offset + layout[v.ty].size <= End(types, layout, o, g)
        BY <2>10, <3>1, <4>4, <4>6
      <4> QED  BY <3>1, <3>4, <4>7 DEF Located
    <3> QED  BY <1>1, <2>6, <3>2, <3>3, <3>4 DEF Located
  <2> QED  BY <1>1, <2>3, <2>4, <2>7, <2>8, <2>9 DEF IsPlace
<1> QED  BY <1>2, <1>3

(* The sets of places that the recursion of Places goes through.           *)
IsWalk(types, layout, id, walk, n) ==
  /\ walk[0] = {[object |-> id, offset |-> 0, ty |-> id]}
  /\ \A i \in 1..n : walk[i] = OneMore(types, layout, walk[i - 1])

LEMMA Walks ==
  ASSUME NEW types, NEW layout, NEW id, NEW n \in Nat
  PROVE  \E walk : IsWalk(types, layout, id, walk, n) /\ walk[n] = Places(types, layout, id, n)
<1> DEFINE start == {[object |-> id, offset |-> 0, ty |-> id]}
           Solves(walk) ==
             walk = [i \in 0..n |-> IF i = 0 THEN start
                                    ELSE OneMore(types, layout, walk[i - 1])]
           table == [types |-> types, layout |-> layout]
           all == [i \in 1..n |-> table]
           found == CHOOSE walk : Solves(walk)
<1>1. \E walk : Solves(walk)
  <2>1. PICK walk : walk = [i \in 0..n |-> IF i = 0 THEN start
                                           ELSE one_more(walk[i - 1], all[i])]
    <3>1. DOMAIN all = 1..n
      OBVIOUS
    <3> HIDE DEF all, start
    <3>2. \E walk : Walking!Recurs(walk, start, all, n)
      BY <3>1, Walking!RecursionExists
    <3> QED  BY <3>2 DEF Walking!Recurs
  <2>2. ASSUME NEW i \in 0..n
        PROVE  walk[i] = IF i = 0 THEN start ELSE OneMore(types, layout, walk[i - 1])
    <3>1. CASE i = 0
      BY <2>1, <3>1
    <3>2. CASE i # 0
      <4>1. all[i] = table /\ table.types = types /\ table.layout = layout
        BY <3>2
      <4> HIDE DEF all, table, start
      <4> QED  BY <2>1, <3>2, <4>1 DEF one_more
    <3> QED  BY <3>1, <3>2
  <2>3. walk = [i \in 0..n |-> walk[i]]
    BY <2>1
  <2> QED  BY <2>2, <2>3
<1>2. Solves(found)
  <2> HIDE DEF Solves
  <2> QED  BY <1>1
<1>3. Places(types, layout, id, n) = found[n]
  BY DEF Places
<1> HIDE DEF found, start
<1>4. found[0] = start /\ \A i \in 1..n : found[i] = OneMore(types, layout, found[i - 1])
  BY <1>2
<1> QED  BY <1>3, <1>4 DEF IsWalk, start

LEMMA PlacesArePlaces ==
  ASSUME NEW types, NEW layout, AllFit(types, layout), NEW id \in 1..Len(types), NEW n \in Nat
  PROVE  \A w \in Places(types, layout, id, n) : IsPlace(types, layout, w)
<1>1. PICK walk : /\ IsWalk(types, layout, id, walk, n)
                  /\ walk[n] = Places(types, layout, id, n)
  BY Walks
<1> DEFINE S == {i \in 0..n : \A w \in walk[i] : IsPlace(types, layout, w)}
<1>2. 0 \in S
  <2>1. layout[id].size \in Nat /\ 0 % layout[id].align = 0
    BY FieldFits
  <2>2. IsPlace(types, layout, [object |-> id, offset |-> 0, ty |-> id])
    BY <2>1 DEF IsPlace, Located
  <2> QED  BY <1>1, <2>2 DEF IsWalk
<1>3. ASSUME NEW i \in 0..(n - 1), i \in S  PROVE i + 1 \in S
  <2>1. i + 1 \in 1..n /\ i + 1 \in 0..n /\ (i + 1) - 1 = i
    OBVIOUS
  <2>2. walk[i + 1] = OneMore(types, layout, walk[i])
    BY <1>1, <2>1 DEF IsWalk
  <2>3. ASSUME NEW v \in walk[i + 1] PROVE IsPlace(types, layout, v)
    <3>1. CASE v \in walk[i]
      BY <1>3, <3>1
    <3>2. ASSUME NEW w \in walk[i], v \in Steps(types, layout, w)
          PROVE  IsPlace(types, layout, v)
      BY <1>3, <3>2, StepIsPlace
    <3> QED  BY <2>2, <3>1, <3>2 DEF OneMore
  <2> QED  BY <2>1, <2>3
<1>4. 0..n \subseteq S
  <2> HIDE DEF S
  <2> QED  BY <1>2, <1>3, Walking!UpTo
<1>5. n \in 0..n
  OBVIOUS
<1> QED  BY <1>1, <1>4, <1>5

(* A local and its fields are among its places.                            *)
HasFieldPlaces(types, layout, id, places) ==
  /\ [object |-> id, offset |-> 0, ty |-> id] \in places
  /\ types[id].kind \notin Pointer =>
       \A f \in DOMAIN types[id].fields :
         \E w \in places : /\ w.object = id /\ w.offset = 0 + First(types, layout, id, f)
                          /\ w.ty = types[id].fields[f]

LEMMA ShortPlaces ==
  ASSUME NEW types, NEW layout, NEW id, NEW n \in Nat \ {0}
  PROVE  HasFieldPlaces(types, layout, id, Places(types, layout, id, n))
<1>1. PICK walk : /\ IsWalk(types, layout, id, walk, n)
                  /\ walk[n] = Places(types, layout, id, n)
  BY Walks
<1>2. PICK w : w = [object |-> id, offset |-> 0, ty |-> id]
  OBVIOUS
<1> DEFINE T == {w} \cup Steps(types, layout, w)
           S == {i \in 0..(n - 1) : T \subseteq walk[i + 1]}
<1>3. \A i \in 1..n : walk[i] = OneMore(types, layout, walk[i - 1])
  BY <1>1 DEF IsWalk
<1>4. 0 \in S
  <2>1. 0 + 1 \in 1..n /\ (0 + 1) - 1 = 0
    OBVIOUS
  <2>2. walk[0 + 1] = OneMore(types, layout, {w})
    BY <1>1, <1>2, <1>3, <2>1 DEF IsWalk
  <2> QED  BY <2>2 DEF OneMore
<1>5. ASSUME NEW i \in 0..((n - 1) - 1), i \in S  PROVE i + 1 \in S
  <2>1. (i + 1) + 1 \in 1..n /\ ((i + 1) + 1) - 1 = i + 1 /\ i + 1 \in 0..(n - 1)
    OBVIOUS
  <2>2. walk[(i + 1) + 1] = OneMore(types, layout, walk[i + 1])
    BY <1>3, <2>1
  <2>3. walk[i + 1] \subseteq walk[(i + 1) + 1]
    BY <2>2 DEF OneMore
  <2> QED  BY <1>5, <2>1, <2>3
<1>6. 0..(n - 1) \subseteq S
  <2>1. n - 1 \in Nat
    OBVIOUS
  <2> HIDE DEF S
  <2> QED  BY <1>4, <1>5, <2>1, Walking!UpTo
<1>7. n - 1 \in 0..(n - 1) /\ (n - 1) + 1 = n
  OBVIOUS
<1>8. T \subseteq Places(types, layout, id, n)
  BY <1>1, <1>6, <1>7
<1>9. ASSUME types[id].kind \notin Pointer, NEW f \in DOMAIN types[id].fields
      PROVE  \E v \in T : /\ v.object = id /\ v.offset = 0 + First(types, layout, id, f)
                          /\ v.ty = types[id].fields[f]
  <2>1. PICK v : v = [w EXCEPT !.offset = @ + First(types, layout, id, f), !.ty = types[id].fields[f]]
    OBVIOUS
  <2>2. v = [object |-> id, offset |-> 0 + First(types, layout, id, f), ty |-> types[id].fields[f]]
    BY <1>2, <2>1
  <2>3. v \in Steps(types, layout, w)
    BY <1>2, <1>9, <2>1 DEF Steps, Pointer, First
  <2> QED  BY <2>2, <2>3
<1> HIDE DEF T
<1>10. w \in T
  BY DEF T
<1> QED  BY <1>2, <1>8, <1>9, <1>10 DEF HasFieldPlaces

(* A place of any number of projections lies inside the local or block     *)
(* they lead to, aligned for its type, so that no load or store that the   *)
(* compiler derives from a PlaceExpr leaves its object.                    *)
THEOREM PlacesInside == Spec => [](PlacesInBounds /\ \A n \in Nat : PlacesFit(n))
<1>1. ASSUME IInv, NEW n \in Nat PROVE PlacesFit(n)
  <2> SUFFICES ASSUME phase = "done" PROVE PlacesFit(n)
    BY DEF PlacesFit
  <2>1. PICK types, layout : types = id2info /\ layout = Layouts(types)
    OBVIOUS
  <2>2. AllFit(types, layout) /\ Ids = 1..Len(types)
    BY <1>1, <2>1, AllLaid DEF AllFit
  <2>3. ASSUME NEW id \in 1..Len(types), NEW w \in Places(types, layout, id, n)
        PROVE  /\ w.offset + layout[w.ty].size <= layout[w.object].size
               /\ w.offset % layout[w.ty].align = 0
    BY <2>2, PlacesArePlaces DEF IsPlace
  <2> QED  BY <2>1, <2>2, <2>3 DEF PlacesFit
<1>2. IInv => PlacesInBounds /\ \A n \in Nat : PlacesFit(n)
  BY <1>1 DEF PlacesInBounds
<1> QED  BY <1>2, Invariant, PTL

(* What RegisteredPointers says, of any types that are laid out.           *)
LEMMA PointersOfType ==
  ASSUME NEW types, NEW layout, AllFit(types, layout), NEW id \in 1..Len(types)
  PROVE  gc_ptr_fields(types, layout, id)
           = PointerOffsets(types, layout, id) \ Embedded(types, layout, id)
<1>1. PICK n \in Nat \ {0} : n = Len(types)
  <2>1. IsTypes(types)
    BY DEF AllFit
  <2> QED  BY <2>1, TypesParts
<1>2. PICK places : places = Places(types, layout, id, n)
  OBVIOUS
<1>3. \A w \in places : IsPlace(types, layout, w)
  BY <1>1, <1>2, PlacesArePlaces
<1>4. PointerOffsets(types, layout, id)
        = {w.offset : w \in {v \in places : v.object = id /\ types[v.ty].kind = "GcRef"}}
  BY <1>1, <1>2 DEF PointerOffsets
<1>5. /\ types[id].kind \in Prim \cup Pointer \cup {"Struct"}
      /\ types[id].kind # "Struct" => types[id].fields = << >>
  <2>1. IsTypes(types)
    BY DEF AllFit
  <2> QED  BY <2>1, TypesParts
<1>6. \A w \in places : /\ w.object = id => Located(types, layout, w)
                        /\ w.offset \in Nat /\ w.ty \in 1..Len(types)
  BY <1>3 DEF IsPlace
<1>7. HasFieldPlaces(types, layout, id, places)
  BY <1>1, <1>2, ShortPlaces
<1>8. CASE types[id].kind # "Struct"
  <2>1. DOMAIN types[id].fields = {}
    BY <1>5, <1>8
  <2>2. Embedded(types, layout, id) = {}
    BY <2>1 DEF Embedded
  <2>3. \A w \in places : w.object = id => w.offset = 0 /\ w.ty = id
    BY <1>6, <2>1 DEF Located
  <2>4. CASE types[id].kind = "GcRef"
    <3>1. gc_ptr_fields(types, layout, id) = {0}
      BY <2>4 DEF gc_ptr_fields
    <3>2. PointerOffsets(types, layout, id) = {0}
      BY <1>4, <1>7, <2>3, <2>4 DEF HasFieldPlaces
    <3> QED  BY <2>2, <3>1, <3>2
  <2>5. CASE types[id].kind # "GcRef"
    <3>1. gc_ptr_fields(types, layout, id) = {}
      BY <2>1, <2>5 DEF gc_ptr_fields
    <3>2. PointerOffsets(types, layout, id) = {}
      BY <1>4, <2>3, <2>5
    <3> QED  BY <3>1, <3>2
  <2> QED  BY <2>4, <2>5
<1>9. CASE types[id].kind = "Struct"
  <2> DEFINE fields == types[id].fields
             first(f) == First(types, layout, id, f)
             end(f) == End(types, layout, id, f)
  <2>1. gc_ptr_fields(types, layout, id)
          = {first(f) : f \in {g \in DOMAIN fields : types[fields[g]].kind = "GcRef"}}
    BY <1>9 DEF gc_ptr_fields, First
  <2>2. ASSUME NEW f \in DOMAIN fields
        PROVE  /\ first(f) \in Nat /\ fields[f] \in 1..Len(types)
               /\ layout[fields[f]].size \in Nat
               /\ end(f) \in Nat /\ end(f) = first(f) + layout[fields[f]].size
               /\ \A g \in DOMAIN fields : f < g => end(f) <= first(g)
    <3>1. /\ first(f) \in Nat /\ fields[f] \in 1..Len(types)
          /\ \A g \in DOMAIN fields : f < g => end(f) <= first(g)
      BY FieldFits
    <3>2. layout[fields[f]].size \in Nat
      BY <3>1, FieldFits
    <3>3. end(f) = first(f) + layout[fields[f]].size
      BY DEF First, End
    <3> HIDE DEF first, end, fields
    <3> QED  BY <3>1, <3>2, <3>3
  <2>3. ASSUME NEW x
        PROVE  x \in Embedded(types, layout, id)
                 <=> \E f \in DOMAIN fields : /\ types[fields[f]].kind = "Struct"
                                              /\ x \in first(f)..(end(f) - 1)
    <3> DEFINE bytes(f) == layout[id].field_offsets[f]
                             ..(layout[id].field_offsets[f] + layout[types[id].fields[f]].size - 1)
    <3>1. ASSUME NEW f \in DOMAIN fields PROVE first(f)..(end(f) - 1) = bytes(f)
      <4>1. PICK a, size \in Nat : a = first(f) /\ size = layout[fields[f]].size
        BY <2>2
      <4>2. end(f) = a + size
        BY <2>2, <4>1
      <4>3. (a + size) - 1 = a + size - 1
        OBVIOUS
      <4> QED  BY <4>1, <4>2, <4>3 DEF First
    <3>2. Embedded(types, layout, id)
            = UNION {bytes(f) : f \in {g \in DOMAIN fields : types[fields[g]].kind = "Struct"}}
      BY DEF Embedded
    <3> HIDE DEF first, end, fields, bytes
    <3> QED  BY <3>1, <3>2
  <2>4. \A k \in 1..Len(types) : types[k].kind = "GcRef" => layout[k].size = 8
    BY DEF AllFit, Fits
  <2>5. DOMAIN fields \subseteq Nat
    <3>1. IsTypes(types)
      BY DEF AllFit
    <3> QED  BY <3>1, TypesParts
  <2> HIDE DEF first, end, fields
  <2>6. ASSUME NEW x \in gc_ptr_fields(types, layout, id)
        PROVE  x \in PointerOffsets(types, layout, id) \ Embedded(types, layout, id)
    <3>1. PICK f \in DOMAIN fields : x = first(f) /\ types[fields[f]].kind = "GcRef"
      BY <2>1
    <3>2. PICK w \in places : w.object = id /\ w.offset = 0 + first(f) /\ w.ty = fields[f]
      <4>1. types[id].kind \notin Pointer
        BY <1>9 DEF Pointer
      <4> QED  BY <1>7, <4>1 DEF HasFieldPlaces, first, fields
    <3>3. w.offset = x
      BY <2>2, <3>1, <3>2
    <3>4. x \in PointerOffsets(types, layout, id)
      BY <1>4, <3>1, <3>2, <3>3
    <3>5. ASSUME NEW g \in DOMAIN fields, types[fields[g]].kind = "Struct"
          PROVE  x \notin first(g)..(end(g) - 1)
      <4>1. g # f
        BY <3>1, <3>5
      <4>2. CASE f < g
        <5>1. end(f) <= first(g) /\ end(f) = first(f) + 8
          BY <2>2, <2>4, <3>1, <4>2
        <5> QED  BY <2>2, <3>1, <5>1
      <4>3. CASE g < f
        <5>1. end(g) <= first(f)
          BY <2>2, <4>3
        <5> QED  BY <2>2, <3>1, <5>1
      <4> QED  BY <2>5, <4>1, <4>2, <4>3
    <3>6. x \notin Embedded(types, layout, id)
      BY <2>3, <3>5
    <3> QED  BY <3>4, <3>6
  <2>7. ASSUME NEW x \in PointerOffsets(types, layout, id),
               x \notin Embedded(types, layout, id)
        PROVE  x \in gc_ptr_fields(types, layout, id)
    <3>1. PICK w \in places : w.object = id /\ types[w.ty].kind = "GcRef" /\ x = w.offset
      BY <1>4
    <3>2. w.ty # id
      BY <1>9, <3>1
    <3>3. layout[w.ty].size = 8 /\ x \in Nat
      BY <1>6, <2>4, <3>1
    <3>4. \/ \E f \in DOMAIN fields : x = first(f) /\ w.ty = fields[f]
          \/ \E f \in DOMAIN fields : /\ types[fields[f]].kind = "Struct"
                                       /\ first(f) <= x /\ x + layout[w.ty].size <= end(f)
      BY <1>6, <3>1, <3>2 DEF Located, first, end, fields
    <3>5. ASSUME NEW f \in DOMAIN fields, types[fields[f]].kind = "Struct",
                 first(f) <= x, x + layout[w.ty].size <= end(f)
          PROVE  FALSE
      <4>1. x \in first(f)..(end(f) - 1)
        BY <2>2, <3>3, <3>5
      <4> QED  BY <2>3, <2>7, <3>5, <4>1
    <3> QED  BY <2>1, <3>1, <3>4, <3>5
  <2> QED  BY <2>6, <2>7
<1> QED  BY <1>8, <1>9

(* The runtime's table hands sweep exactly the offsets of the gc pointers  *)
(* among a type's own fields: what the match over ty_info in               *)
(* compile_program makes of any declared type.  Pointers inside embedded   *)
(* structs are not among them.                                             *)
THEOREM PointersRegistered == Spec => []RegisteredPointers
<1>1. ASSUME IInv PROVE RegisteredPointers
  <2> SUFFICES ASSUME phase = "done" PROVE RegisteredPointers
    BY DEF RegisteredPointers
  <2>1. PICK types, layout : types = id2info /\ layout = Layouts(types)
    OBVIOUS
  <2>2. /\ AllFit(types, layout) /\ Ids = 1..Len(types)
        /\ \A id \in 1..Len(types) :
             rt_types[id].gc_ptr_fields = gc_ptr_fields(types, layout, id)
    BY <1>1, <2>1, AllLaid DEF AllFit
  <2>3. \A id \in 1..Len(types) :
          rt_types[id].gc_ptr_fields
            = PointerOffsets(types, layout, id) \ Embedded(types, layout, id)
    BY <2>2, PointersOfType
  <2> QED  BY <2>1, <2>2, <2>3 DEF RegisteredPointers
<1> QED  BY <1>1, Invariant, PTL

=============================================================================
