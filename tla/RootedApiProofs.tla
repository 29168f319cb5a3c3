--------------------------- MODULE RootedApiProofs --------------------------
(***************************************************************************)
(* The prototype interface, used the way test_runtime_gc uses it, is       *)
(* sound for any number of Rooted variables and objects.  (Moving a Rooted *)
(* into an object is not: see the run rooted_move.)                        *)
(***************************************************************************)
EXTENDS RootedApi, GcHeapProofs

Owners(u, p) == Holders(Var, u, p)

Rooteds == [Var -> Addr \cup {Null, None}]

(* Every pointer in the heap leads to an object, and has been written. *)
HeapSound(r) ==
  /\ IsRuntime(r) /\ ~r.panicked /\ HeapClosed(r)
  /\ \A a \in DOMAIN r.heap : r.mem[a][next] # Wild

(* r counts the Rooted of u, and one more Rooted on q. *)
CountsWith(r, u, q) ==
  /\ \A a \in Addr :
        Refcount(r, a) = Cardinality(Owners(u, a)) + (IF a = q THEN 1 ELSE 0)
  /\ Refcount(r, Null) <= Cardinality(Owners(u, Null)) + (IF Null = q THEN 1 ELSE 0)

(* r is the runtime of a program whose variables are u. *)
Sound(r, u) ==
  /\ HeapSound(r)
  /\ u \in Rooteds
  /\ Range(u) \cap Addr \subseteq DOMAIN r.heap
  /\ CountsWith(r, u, None)

Inv == TypeOK /\ Sound(rt, rooted)

-----------------------------------------------------------------------------
LEMMA Constants ==
  /\ Null \notin Addr /\ Wild \notin Addr /\ Null # Wild
  /\ None \notin Addr /\ None # Null /\ None # Wild
  /\ IsFiniteSet(Var)
  /\ RtType = {List} /\ PtrFields(List) = {next}
  /\ \A ty \in RtType : NestedFields[ty] = {}
  BY GcHeapAssumption, RootedAssumption DEF Ptr, PtrFields

LEMMA OwnersCount ==
  ASSUME NEW u, NEW p
  PROVE  /\ Cardinality(Owners(u, p)) \in Nat
         /\ Cardinality(Owners(u, p)) = 0 <=> \A v \in Var : u[v] # p
  BY HoldersCount, Constants DEF Owners

(* Every object has one pointer field. *)
LEMMA ListBlocks ==
  ASSUME NEW r, IsRuntime(r), NEW a \in DOMAIN r.heap
  PROVE  /\ a \in Addr /\ r.heap[a] = List
         /\ r.mem[a] \in [{next} -> Ptr]
         /\ Range(r.mem[a]) = {r.mem[a][next]}
<1>1. /\ a \in Addr /\ r.heap[a] \in RtType
      /\ r.mem[a] \in [PtrFields(r.heap[a]) -> Ptr]
  BY DEF IsRuntime
<1>2. r.heap[a] = List /\ PtrFields(r.heap[a]) = {next}
  BY <1>1, Constants
<1>3. r.mem[a] \in [{next} -> Ptr]
  BY <1>1, <1>2
<1>4. Range(r.mem[a]) = {r.mem[a][next]}
  BY <1>3 DEF Range
<1> QED  BY <1>1, <1>2, <1>3, <1>4

LEMMA NotWild ==
  ASSUME NEW r, HeapSound(r)
  PROVE  ~ReadsWild(r, {} \cup DOMAIN r.extern_refcount)
<1>1. Wild \notin DOMAIN r.extern_refcount
  BY Constants DEF HeapSound, IsRuntime
<1>2. \A a \in DOMAIN r.heap : Wild \notin TracedWords(r, a)
  BY TracedInRange, ListBlocks DEF HeapSound
<1> QED  BY <1>1, <1>2 DEF ReadsWild

LEMMA RefcountNat ==
  ASSUME NEW r, IsRuntime(r), NEW p
  PROVE  Refcount(r, p) \in Nat
  BY RefcountType

(* What is counted is what the variables hold, and the extra pointer. *)
LEMMA CountedAddresses ==
  ASSUME NEW r, IsRuntime(r), NEW u \in Rooteds, NEW q, CountsWith(r, u, q)
  PROVE  DOMAIN r.extern_refcount \cap Addr = (Range(u) \cup {q}) \cap Addr
<1> SUFFICES ASSUME NEW a \in Addr
             PROVE  a \in DOMAIN r.extern_refcount <=> a \in Range(u) \cup {q}
  OBVIOUS
<1>1. a \in DOMAIN r.extern_refcount <=> Refcount(r, a) # 0
  BY RefcountType
<1>2. /\ Refcount(r, a) = Cardinality(Owners(u, a)) + (IF a = q THEN 1 ELSE 0)
      /\ Cardinality(Owners(u, a)) \in Nat
  BY OwnersCount DEF CountsWith
<1>3. Refcount(r, a) # 0 <=> Cardinality(Owners(u, a)) # 0 \/ a = q
  BY <1>2
<1>4. a \in Range(u) <=> ~ \A v \in Var : u[v] # a
  BY DEF Rooteds, Range
<1> QED  BY <1>1, <1>3, <1>4, OwnersCount

-----------------------------------------------------------------------------
(* Counting, and variables that change.                                    *)

LEMMA Counted ==
  ASSUME NEW r, IsRuntime(r), NEW u, NEW p \in Addr \cup {Null}, CountsWith(r, u, None)
  PROVE  CountsWith(RefcountIncrement(r, p), u, p)
<1> DEFINE s == RefcountIncrement(r, p)
<1>1. \A a : Refcount(s, a) = IF a = p THEN Refcount(r, a) + 1 ELSE Refcount(r, a)
  BY RefcountIncrementExact
<1> HIDE DEF s
<1>2. \A a : Refcount(r, a) \in Nat /\ Cardinality(Owners(u, a)) \in Nat
  BY RefcountNat, OwnersCount
<1>3. /\ \A a \in Addr : Refcount(r, a) = Cardinality(Owners(u, a))
      /\ Refcount(r, Null) <= Cardinality(Owners(u, Null))
  BY <1>2, Constants DEF CountsWith
<1>4. CountsWith(s, u, p)
  BY <1>1, <1>2, <1>3 DEF CountsWith
<1> QED  BY <1>4 DEF s

(* v, which held nothing, receives the extra pointer. *)
LEMMA Assigned ==
  ASSUME NEW r, NEW u \in Rooteds, NEW v \in Var, u[v] = None,
         NEW p \in Addr \cup {Null}, CountsWith(r, u, p),
         NEW w, \A g \in Var : w[g] = IF g = v THEN p ELSE u[g]
  PROVE  CountsWith(r, w, None)
<1>1. \A a \in Addr \cup {Null} :
         Cardinality(Owners(w, a)) = Cardinality(Owners(u, a)) + (IF a = p THEN 1 ELSE 0)
  <2> SUFFICES ASSUME NEW a \in Addr \cup {Null}
               PROVE  Cardinality(Owners(w, a)) =
                        Cardinality(Owners(u, a)) + (IF a = p THEN 1 ELSE 0)
    OBVIOUS
  <2>1. /\ a # u[v] /\ u[v] # w[v] /\ w[v] = p /\ \A g \in Var \ {v} : w[g] = u[g]
        /\ IsFiniteSet(Var) /\ Cardinality(Owners(u, a)) \in Nat
    BY Constants, OwnersCount
  <2> QED  BY <2>1, HoldersMove DEF Owners
<1>2. \A a : Cardinality(Owners(w, a)) \in Nat
  BY OwnersCount
<1> QED  BY <1>1, <1>2, Constants DEF CountsWith

(* v gives up its pointer. *)
LEMMA Cleared ==
  ASSUME NEW r, NEW u \in Rooteds, NEW v \in Var, u[v] # None, CountsWith(r, u, None),
         NEW w, \A g \in Var : w[g] = IF g = v THEN None ELSE u[g]
  PROVE  CountsWith(r, w, u[v])
<1>1. \A a \in Addr \cup {Null} :
         Cardinality(Owners(w, a)) = Cardinality(Owners(u, a)) - (IF a = u[v] THEN 1 ELSE 0)
  <2> SUFFICES ASSUME NEW a \in Addr \cup {Null}
               PROVE  Cardinality(Owners(w, a)) =
                        Cardinality(Owners(u, a)) - (IF a = u[v] THEN 1 ELSE 0)
    OBVIOUS
  <2>1. /\ a # None /\ u[v] # w[v] /\ w[v] = None /\ \A g \in Var \ {v} : w[g] = u[g]
        /\ IsFiniteSet(Var) /\ Cardinality(Owners(u, a)) \in Nat
    BY Constants, OwnersCount
  <2> QED  BY <2>1, HoldersMove DEF Owners
<1>2. \A a : Cardinality(Owners(u, a)) \in Nat /\ Cardinality(Owners(w, a)) \in Nat
  BY OwnersCount
<1>3. /\ \A a \in Addr : Refcount(r, a) = Cardinality(Owners(u, a))
      /\ Refcount(r, Null) <= Cardinality(Owners(u, Null))
  BY <1>2, Constants DEF CountsWith
<1>4. \A a \in Addr :
         Refcount(r, a) = Cardinality(Owners(w, a)) + (IF a = u[v] THEN 1 ELSE 0)
  BY <1>1, <1>2, <1>3
<1>5. Refcount(r, Null) <= Cardinality(Owners(w, Null)) + (IF Null = u[v] THEN 1 ELSE 0)
  BY <1>1, <1>2, <1>3
<1> QED  BY <1>4, <1>5 DEF CountsWith

(* The extra pointer is uncounted, which may sweep. *)
LEMMA Uncounted ==
  ASSUME NEW r, HeapSound(r), NEW u \in Rooteds, NEW q \in Addr \cup {Null},
         CountsWith(r, u, q), (Range(u) \cup {q}) \cap Addr \subseteq DOMAIN r.heap,
         NEW s \in RefcountDecrement(r, q, {})
  PROVE  /\ Sound(s, u)
         /\ DOMAIN s.heap = DOMAIN r.heap \/ DOMAIN s.heap = ReachableFrom(s, Range(u))
<1> DEFINE frames == {}
<1>1. /\ IsRuntime(r) /\ HeapClosed(r) /\ ~r.panicked
      /\ (frames \cup DOMAIN r.extern_refcount) \cap Addr \subseteq DOMAIN r.heap
      /\ ~ReadsWild(r, frames \cup DOMAIN r.extern_refcount)
      /\ s \in RefcountDecrement(r, q, frames)
  BY CountedAddresses, NotWild DEF HeapSound
<1>7. \A x : frames \cup x = x
  OBVIOUS
<1>8. \A ty \in RtType : NestedFields[ty] = {}
  BY Constants
<1> HIDE DEF frames
<1>2. IsRuntime(s)
  BY <1>1, RefcountDecrementType
<1>3. \A a \in DOMAIN s.heap : s.mem[a][next] # Wild
  BY <1>1, DecrementKeeps DEF HeapSound
<1>4. \A a : Refcount(r, a) \in Nat /\ Cardinality(Owners(u, a)) \in Nat
  BY <1>1, RefcountNat, OwnersCount
<1>5. CASE Refcount(r, q) = 0
  <2>1. s = r
    BY <1>5 DEF RefcountDecrement
  <2>2. q = Null
    BY <1>4, <1>5 DEF CountsWith
  <2>3. CountsWith(s, u, None)
    BY <1>4, <1>5, <2>1, <2>2, Constants DEF CountsWith
  <2> QED  BY <2>1, <2>3 DEF Sound
<1>6. CASE Refcount(r, q) # 0
  <2>1. /\ s.panicked = r.panicked /\ HeapClosed(s)
        /\ \A a : Refcount(s, a) = IF a = q THEN Refcount(r, a) - 1 ELSE Refcount(r, a)
        /\ (frames \cup DOMAIN s.extern_refcount) \cap Addr \subseteq DOMAIN s.heap
    BY <1>1, <1>8, <1>6, RefcountDecrementSafe
  <2>2. CountsWith(s, u, None)
    BY <1>4, <1>6, <2>1, Constants DEF CountsWith
  <2>3. DOMAIN s.extern_refcount \cap Addr = Range(u) \cap Addr
    BY <1>2, <2>2, CountedAddresses, Constants
  <2>4. Sound(s, u)
    BY <1>1, <1>7, <1>2, <1>3, <2>1, <2>2, <2>3 DEF Sound, HeapSound
  <2>5. \/ s.heap = r.heap
        \/ DOMAIN s.heap = ReachableFrom(s, frames \cup DOMAIN s.extern_refcount)
    BY <1>1, <1>8, DecrementExact
  <2>6. ReachableFrom(s, frames \cup DOMAIN s.extern_refcount) = ReachableFrom(s, Range(u))
    BY <1>7, <2>3 DEF ReachableFrom
  <2> QED  BY <2>4, <2>5, <2>6
<1> QED  BY <1>5, <1>6

-----------------------------------------------------------------------------
(* What an operation frees.                                                *)

Exact ==
  \/ DOMAIN rt.heap \subseteq DOMAIN rt'.heap
  \/ DOMAIN rt'.heap = ReachableFrom(rt', Range(rooted'))

(* A Rooted on p is counted and put into v. *)
LEMMA CountSound ==
  ASSUME NEW r, NEW u, Sound(r, u), NEW v \in Var, u[v] = None,
         NEW p \in Addr \cup {Null}, p \in Addr => p \in DOMAIN r.heap,
         NEW w \in Rooteds, \A g \in Var : w[g] = IF g = v THEN p ELSE u[g]
  PROVE  /\ Sound(RefcountIncrement(r, p), w)
         /\ RefcountIncrement(r, p).heap = r.heap
         /\ RefcountIncrement(r, p).mem = r.mem
<1> DEFINE s == RefcountIncrement(r, p)
<1>1. IsRuntime(r) /\ u \in Rooteds /\ CountsWith(r, u, None)
  BY DEF Sound, HeapSound
<1>2. /\ IsRuntime(s) /\ CountsWith(s, u, p)
      /\ s.heap = r.heap /\ s.mem = r.mem /\ s.panicked = r.panicked
  BY <1>1, RefcountIncrementType, Counted, RefcountIncrementExact
<1> HIDE DEF s
<1>3. CountsWith(s, w, None)
  BY <1>1, <1>2, Assigned
<1>4. Range(w) \subseteq Range(u) \cup {p}
  BY <1>1 DEF Range, Rooteds
<1>5. HeapSound(s)
  BY <1>2 DEF Sound, HeapSound, HeapClosed
<1>6. Range(w) \cap Addr \subseteq DOMAIN s.heap
  BY <1>2, <1>4 DEF Sound
<1>7. Sound(s, w)
  BY <1>3, <1>5, <1>6 DEF Sound
<1> QED  BY <1>2, <1>7 DEF s

LEMMA SoundInv ==
  ASSUME NEW r, NEW w, Sound(r, w), rt' = r, rooted' = w
  PROVE  Inv'
  BY DEF Inv, TypeOK, Sound, HeapSound, Rooteds, CountsWith, Owners, Holders

LEMMA VarType ==
  ASSUME Inv
  PROVE  /\ rooted \in Rooteds /\ Sound(rt, rooted)
         /\ \A v \in Var : rooted[v] # None =>
              /\ rooted[v] \in Addr \cup {Null}
              /\ rooted[v] \in Addr => rooted[v] \in DOMAIN rt.heap
  BY DEF Inv, Sound, Rooteds, Range

(* An uncounted null is put into v. *)
LEMMA NullSound ==
  ASSUME NEW r, NEW u, Sound(r, u), NEW v \in Var, u[v] = None,
         NEW w \in Rooteds, w[v] = Null, \A g \in Var \ {v} : w[g] = u[g]
  PROVE  Sound(r, w)
<1>1. \A a \in Addr \cup {Null} :
         Cardinality(Owners(w, a)) = Cardinality(Owners(u, a)) + (IF a = Null THEN 1 ELSE 0)
  <2> SUFFICES ASSUME NEW a \in Addr \cup {Null}
               PROVE  Cardinality(Owners(w, a)) =
                        Cardinality(Owners(u, a)) + (IF a = Null THEN 1 ELSE 0)
    OBVIOUS
  <2>1. /\ a # u[v] /\ u[v] # w[v] /\ w[v] = Null /\ \A g \in Var \ {v} : w[g] = u[g]
        /\ IsFiniteSet(Var) /\ Cardinality(Owners(u, a)) \in Nat
    BY Constants, OwnersCount
  <2> QED  BY <2>1, HoldersMove DEF Owners
<1>2. \A a : /\ Cardinality(Owners(u, a)) \in Nat /\ Cardinality(Owners(w, a)) \in Nat
             /\ Refcount(r, a) \in Nat
  BY RefcountNat, OwnersCount DEF Sound, HeapSound
<1>3. /\ \A a \in Addr : Refcount(r, a) = Cardinality(Owners(u, a))
      /\ Refcount(r, Null) <= Cardinality(Owners(u, Null))
  BY <1>2, Constants DEF Sound, CountsWith
<1>4. CountsWith(r, w, None)
  BY <1>1, <1>2, <1>3, Constants DEF CountsWith
<1>5. Range(w) \subseteq Range(u) \cup {Null}
  BY DEF Sound, Rooteds, Range
<1> QED  BY <1>4, <1>5, Constants DEF Sound

LEMMA MakeNullSound ==
  ASSUME Inv, NEW v \in Var, MakeNull(v)
  PROVE  Inv' /\ Exact
<1> DEFINE w == [rooted EXCEPT ![v] = Null]
<1>1. rooted' = w /\ rt' = rt /\ rooted[v] = None /\ Sound(rt, rooted)
  BY VarType DEF MakeNull, Free
<1>2. w \in Rooteds /\ w[v] = Null /\ \A g \in Var \ {v} : w[g] = rooted[g]
  BY VarType DEF Rooteds
<1> HIDE DEF w
<1>3. Sound(rt, w)
  BY <1>1, <1>2, NullSound
<1> QED  BY <1>1, <1>3, SoundInv DEF Exact

LEMMA CountStep ==
  ASSUME Inv, NEW v \in Var, rooted[v] = None, NEW p \in Addr \cup {Null},
         p \in Addr => p \in DOMAIN rt.heap,
         rooted' = [rooted EXCEPT ![v] = p], rt' = RefcountIncrement(rt, p)
  PROVE  Inv' /\ Exact
<1> DEFINE w == [rooted EXCEPT ![v] = p]
           s == RefcountIncrement(rt, p)
<1>1. w \in Rooteds /\ \A g \in Var : w[g] = IF g = v THEN p ELSE rooted[g]
  BY VarType DEF Rooteds
<1>2. rooted' = w /\ rt' = s
  OBVIOUS
<1> HIDE DEF w
<1>3. Sound(s, w) /\ s.heap = rt.heap
  BY <1>1, VarType, CountSound
<1> HIDE DEF s
<1> QED  BY <1>2, <1>3, SoundInv DEF Exact

LEMMA CloneSound ==
  ASSUME Inv, NEW v \in Var, NEW w \in Var, Clone(v, w)
  PROVE  Inv' /\ Exact
  BY VarType, CountStep DEF Clone, Free, Owned

LEMMA AsRootedSound ==
  ASSUME Inv, NEW v \in Var, NEW w \in Var, AsRooted(v, w)
  PROVE  Inv' /\ Exact
<1> DEFINE p == rt.mem[rooted[w]][next]
<1>1. rooted[w] \in DOMAIN rt.heap /\ HeapSound(rt)
  BY VarType DEF AsRooted, Sound
<1>2. p \in Ptr /\ p # Wild /\ p \in Range(rt.mem[rooted[w]])
  BY <1>1, ListBlocks DEF HeapSound
<1>3. p \in Addr \cup {Null} /\ (p \in Addr => p \in DOMAIN rt.heap)
  BY <1>1, <1>2 DEF Ptr, HeapSound, HeapClosed
<1> HIDE DEF p
<1> QED  BY <1>3, CountStep DEF AsRooted, Free, p

LEMMA DropSound ==
  ASSUME Inv, NEW v \in Var, Drop(v)
  PROVE  Inv' /\ Exact
<1> DEFINE q == rooted[v]
           w == [rooted EXCEPT ![v] = None]
<1>1. /\ q # None /\ q \in Addr \cup {Null} /\ (q \in Addr => q \in DOMAIN rt.heap)
      /\ rooted' = w
      /\ rt' \in RefcountDecrement(rt, q, {})
      /\ Sound(rt, rooted) /\ rooted \in Rooteds
  BY VarType DEF Drop, Owned
<1>2. /\ w \in Rooteds
      /\ \A g \in Var : w[g] = IF g = v THEN None ELSE rooted[g]
      /\ Range(w) \subseteq Range(rooted) \cup {None}
  BY <1>1 DEF Rooteds, Range
<1>3. CountsWith(rt, w, q)
  BY <1>1, <1>2, Cleared DEF Sound
<1>4. (Range(w) \cup {q}) \cap Addr \subseteq DOMAIN rt.heap /\ HeapSound(rt)
  BY <1>1, <1>2, Constants DEF Sound
<1> HIDE DEF q, w
<1>5. PICK s \in RefcountDecrement(rt, q, {}) : s = rt'
  BY <1>1
<1>6. /\ Sound(s, w)
      /\ \/ DOMAIN s.heap = DOMAIN rt.heap
         \/ DOMAIN s.heap = ReachableFrom(s, Range(w))
  BY <1>1, <1>2, <1>3, <1>4, Uncounted
<1> QED  BY <1>1, <1>5, <1>6, SoundInv DEF Exact

LEMMA SetNextSound ==
  ASSUME Inv, NEW v \in Var, NEW w \in Var, SetNext(w, v)
  PROVE  Inv' /\ Exact
<1> DEFINE a == rooted[w]
           p == rooted[v]
           r == [rt EXCEPT !.mem[a][next] = p]
<1>1. /\ a \in DOMAIN rt.heap /\ rt' = r /\ rooted' = rooted
      /\ Sound(rt, rooted) /\ HeapSound(rt) /\ IsRuntime(rt) /\ HeapClosed(rt)
      /\ p \in Addr \cup {Null} /\ (p \in Addr => p \in DOMAIN rt.heap)
  BY VarType DEF SetNext, Owned, Sound, HeapSound
<1>2. next \in PtrFields(rt.heap[a]) /\ p \in Ptr /\ p # Wild
  BY <1>1, ListBlocks, Constants DEF Ptr
<1>3. /\ IsRuntime(r) /\ HeapClosed(r) /\ r.heap = rt.heap
      /\ r.extern_refcount = rt.extern_refcount /\ r.panicked = rt.panicked
  BY <1>1, <1>2, StoreFieldType, StoreFieldSafe
<1>4. \A b \in DOMAIN rt.heap : r.mem[b][next] = IF b = a THEN p ELSE rt.mem[b][next]
  BY <1>1, <1>2 DEF IsRuntime
<1> HIDE DEF r, a, p
<1>5. HeapSound(r)
  BY <1>1, <1>2, <1>3, <1>4 DEF HeapSound
<1>6. CountsWith(r, rooted, None)
  BY <1>1, <1>3 DEF Sound, CountsWith, Refcount
<1>7. Sound(r, rooted)
  BY <1>1, <1>3, <1>5, <1>6 DEF Sound
<1> QED  BY <1>1, <1>3, <1>7, SoundInv DEF Exact

-----------------------------------------------------------------------------
(* What was reachable stays so when objects and roots are added.           *)
LEMMA ReachGrows ==
  ASSUME NEW s, NEW d, NEW few, NEW many, few \cap Addr \subseteq many,
         \A a \in DOMAIN s.heap : a \in DOMAIN d.heap /\ d.mem[a] = s.mem[a]
  PROVE  ReachableFrom(s, few) \subseteq ReachableFrom(d, many)
<1> DEFINE S == ReachableFrom(d, many)
<1>1. /\ S \in SUBSET Addr /\ many \cap Addr \subseteq S /\ ClosedUnder(S, Linked(d))
  BY ReachAddr, ReachStart, ReachClosed, LinkedType DEF ReachableFrom
<1>2. \A a \in Addr : Linked(s)[a] \subseteq Linked(d)[a]
  BY DEF Linked
<1> HIDE DEF S
<1>3. ClosedUnder(S, Linked(s)) /\ few \cap Addr \subseteq S
  BY <1>1, <1>2 DEF ClosedUnder
<1>4. Reach(few \cap Addr, Linked(s)) \subseteq S
  BY <1>1, <1>3, ReachLeast
<1> QED  BY <1>4 DEF ReachableFrom, S

(* s after an object was made from a tail, before its Rooted is counted.   *)
ListAt(s, p, tail) == [AllocGc(s, p, List) EXCEPT !.mem[p][next] = tail]

LEMMA Made ==
  ASSUME NEW s, NEW u, Sound(s, u), NEW p \in Addr, p \notin DOMAIN s.heap,
         NEW tail \in Addr \cup {Null}, tail \in Addr => tail \in DOMAIN s.heap
  PROVE  /\ Sound(ListAt(s, p, tail), u)
         /\ DOMAIN ListAt(s, p, tail).heap = DOMAIN s.heap \cup {p}
         /\ \A a \in DOMAIN s.heap : ListAt(s, p, tail).mem[a] = s.mem[a]
<1> DEFINE b == AllocGc(s, p, List)
           c == [b EXCEPT !.mem[p][next] = tail]
<1>1. HeapSound(s) /\ IsRuntime(s) /\ HeapClosed(s)
  BY DEF Sound, HeapSound
<1>2. /\ IsRuntime(b) /\ HeapClosed(b)
      /\ DOMAIN b.heap = DOMAIN s.heap \cup {p}
      /\ \A a \in DOMAIN s.heap : b.mem[a] = s.mem[a]
      /\ b.extern_refcount = s.extern_refcount /\ b.panicked = s.panicked
  BY <1>1, Constants, GcHeapAssumption, AllocGcType, AllocGcSafe
<1> HIDE DEF b
<1>3. c = [b EXCEPT !.mem[p][next] = tail]
  OBVIOUS
<1> HIDE DEF c
<1>4. p \in DOMAIN b.heap /\ next \in PtrFields(b.heap[p]) /\ tail \in Ptr /\ tail # Wild
      /\ (tail \in Addr => tail \in DOMAIN b.heap)
  BY <1>2, ListBlocks, Constants DEF Ptr
<1>5. /\ IsRuntime(c) /\ HeapClosed(c) /\ c.heap = b.heap
      /\ c.extern_refcount = b.extern_refcount /\ c.panicked = b.panicked
  <2> DEFINE e == [b EXCEPT !.mem[p][next] = tail]
  <2>1. IsRuntime(e)
    BY <1>2, <1>4, StoreFieldType
  <2>2. /\ HeapClosed(e) /\ e.heap = b.heap
        /\ e.extern_refcount = b.extern_refcount /\ e.panicked = b.panicked
    BY <1>2, <1>4, StoreFieldSafe
  <2> QED  BY <1>3, <2>1, <2>2
<1>6. /\ \A a \in DOMAIN s.heap : c.mem[a] = b.mem[a]
      /\ c.mem[p][next] = tail
  <2>1. b.mem = [a \in DOMAIN b.heap |-> b.mem[a]] /\ b.mem[p] \in [{next} -> Ptr]
    BY <1>2, <1>4, ListBlocks DEF IsRuntime
  <2>2. c.mem = [b.mem EXCEPT ![p][next] = tail]
    BY <1>2, <1>3 DEF IsRuntime
  <2> QED  BY <1>2, <2>1, <2>2
<1>7. HeapSound(c)
  BY <1>1, <1>2, <1>4, <1>5, <1>6 DEF HeapSound
<1>8. CountsWith(c, u, None)
  BY <1>2, <1>5 DEF Sound, CountsWith, Refcount
<1>9. /\ Sound(c, u)
      /\ DOMAIN c.heap = DOMAIN s.heap \cup {p}
      /\ \A a \in DOMAIN s.heap : c.mem[a] = s.mem[a]
  BY <1>2, <1>5, <1>6, <1>7, <1>8 DEF Sound
<1> QED  BY <1>9 DEF b, c, ListAt

(* Rooted::new, of a tail that stays rooted by another variable.           *)
LEMMA NewSound ==
  ASSUME Inv, NEW v \in Var, rooted[v] = None,
         NEW tail \in Addr \cup {Null}, tail \in Addr => tail \in Range(rooted),
         NEW r, HeapSound(r), r.heap = rt.heap, CountsWith(r, rooted, tail),
         New(r, v, tail, rooted)
  PROVE  Inv' /\ Exact
<1>1. rooted \in Rooteds /\ Sound(rt, rooted)
  BY VarType
<1>2. PICK s \in RefcountDecrement(r, tail, {}) :
         IF s.panicked
         THEN rt' = s /\ rooted' = rooted
         ELSE \E p \in Addr \ DOMAIN s.heap :
                LET allocated == AllocGc(s, p, List)
                IN  /\ rt' = RefcountIncrement(
                               [allocated EXCEPT !.mem[p][next] = tail], p)
                    /\ rooted' = [rooted EXCEPT ![v] = p]
  BY DEF New
<1>3. (Range(rooted) \cup {tail}) \cap Addr \subseteq DOMAIN r.heap
  BY <1>1 DEF Sound
<1>4. /\ Sound(s, rooted)
      /\ DOMAIN s.heap = DOMAIN rt.heap \/ DOMAIN s.heap = ReachableFrom(s, Range(rooted))
  BY <1>1, <1>2, <1>3, Uncounted
<1>5. ~s.panicked /\ (tail \in Addr => tail \in DOMAIN s.heap)
  BY <1>4 DEF Sound, HeapSound
<1>6. PICK p \in Addr \ DOMAIN s.heap :
         LET allocated == AllocGc(s, p, List)
         IN  /\ rt' = RefcountIncrement(
                        [allocated EXCEPT !.mem[p][next] = tail], p)
             /\ rooted' = [rooted EXCEPT ![v] = p]
  BY <1>2, <1>5
<1> DEFINE c == ListAt(s, p, tail)
           d == RefcountIncrement(c, p)
           w == [rooted EXCEPT ![v] = p]
<1>7. /\ rt' = d /\ rooted' = w
      /\ w \in Rooteds /\ \A g \in Var : w[g] = IF g = v THEN p ELSE rooted[g]
  BY <1>1, <1>6 DEF Rooteds, ListAt
<1>8. Range(rooted) \cap Addr \subseteq Range(w) /\ p \in Range(w)
  BY <1>1, <1>7, Constants DEF Range, Rooteds
<1>9. /\ Sound(c, rooted)
       /\ DOMAIN c.heap = DOMAIN s.heap \cup {p}
       /\ \A a \in DOMAIN s.heap : c.mem[a] = s.mem[a]
  BY <1>4, <1>5, Made
<1> HIDE DEF c, w
<1>10. Sound(d, w) /\ d.heap = c.heap /\ d.mem = c.mem
  <2>1. /\ w \in Rooteds /\ \A g \in Var : w[g] = IF g = v THEN p ELSE rooted[g]
        /\ p \in Addr /\ p \in DOMAIN c.heap /\ rooted[v] = None /\ Sound(c, rooted)
    BY <1>7, <1>9
  <2> QED  BY <2>1, CountSound
<1> HIDE DEF d
<1>11. ReachableFrom(s, Range(rooted)) \subseteq ReachableFrom(d, Range(w))
  BY <1>8, <1>9, <1>10, ReachGrows
<1>12. p \in ReachableFrom(d, Range(w))
  BY <1>8, ReachStart DEF ReachableFrom
<1>13. ReachableFrom(d, Range(w)) \subseteq DOMAIN d.heap
  BY <1>10, ReachableLive DEF Sound, HeapSound
<1>14. \/ DOMAIN rt.heap \subseteq DOMAIN d.heap
       \/ DOMAIN d.heap = ReachableFrom(d, Range(w))
  BY <1>4, <1>9, <1>10, <1>11, <1>12, <1>13
<1> QED  BY <1>7, <1>10, <1>14, SoundInv DEF Exact

LEMMA NewLastSound ==
  ASSUME Inv, NEW v \in Var, NewLast(v)
  PROVE  Inv' /\ Exact
<1>1. Sound(rt, rooted) /\ rooted[v] = None /\ New(rt, v, Null, rooted)
  BY VarType DEF NewLast, Free
<1>2. \A a : Refcount(rt, a) \in Nat /\ Cardinality(Owners(rooted, a)) \in Nat
  BY <1>1, RefcountNat, OwnersCount DEF Sound, HeapSound
<1>3. CountsWith(rt, rooted, Null)
  BY <1>1, <1>2, Constants DEF Sound, CountsWith
<1> QED  BY <1>1, <1>3, Constants, NewSound DEF Sound

LEMMA NewCloneSound ==
  ASSUME Inv, NEW v \in Var, NEW w \in Var, NewClone(v, w)
  PROVE  Inv' /\ Exact
<1> DEFINE q == rooted[w]
           r == RefcountIncrement(rt, q)
<1>1. /\ Sound(rt, rooted) /\ rooted[v] = None /\ New(r, v, q, rooted)
      /\ q \in Addr \cup {Null} /\ (q \in Addr => q \in Range(rooted))
  BY VarType DEF NewClone, Free, Owned, Range, Rooteds
<1> HIDE DEF q
<1>2. CountsWith(r, rooted, q)
  BY <1>1, Counted DEF Sound, HeapSound
<1>3. IsRuntime(r) /\ r.heap = rt.heap /\ r.mem = rt.mem /\ r.panicked = rt.panicked
  BY <1>1, RefcountIncrementType, RefcountIncrementExact DEF Sound, HeapSound
<1> HIDE DEF r
<1>4. HeapSound(r)
  BY <1>1, <1>3 DEF Sound, HeapSound, HeapClosed
<1> QED  BY <1>1, <1>2, <1>3, <1>4, NewSound

-----------------------------------------------------------------------------
LEMMA Initially ==
  ASSUME Init
  PROVE  Inv
<1>1. /\ IsRuntime(rt) /\ DOMAIN rt.heap = {} /\ ~rt.panicked
      /\ \A a : Refcount(rt, a) = 0
  BY DEF Init, EmptyRuntime, IsRuntime, Refcount
<1>2. rooted \in Rooteds /\ Range(rooted) \cap Addr = {}
  BY Constants DEF Init, Rooteds, Range
<1>3. \A a \in Addr \cup {Null} : Cardinality(Owners(rooted, a)) = 0
  BY OwnersCount, Constants DEF Init
<1>4. CountsWith(rt, rooted, None)
  BY <1>1, <1>3, Constants DEF CountsWith
<1>5. Sound(rt, rooted)
  BY <1>1, <1>2, <1>4 DEF Sound, HeapSound, HeapClosed
<1> QED  BY <1>5 DEF Inv, TypeOK, Sound, HeapSound, Rooteds

LEMMA Step ==
  ASSUME Inv, [NextCloning]_vars
  PROVE  Inv' /\ Exact
<1>1. CASE UNCHANGED vars
  <2>1. rt' = rt /\ rooted' = rooted /\ Sound(rt, rooted)
    BY <1>1, VarType DEF vars
  <2> QED  BY <2>1, SoundInv DEF Exact
<1>2. ASSUME NEW v \in Var, MakeNull(v) \/ NewLast(v) \/ Drop(v)
      PROVE  Inv' /\ Exact
  BY <1>2, MakeNullSound, NewLastSound, DropSound
<1>3. ASSUME NEW v \in Var, NEW w \in Var,
             NewClone(v, w) \/ Clone(v, w) \/ AsRooted(v, w) \/ SetNext(w, v)
      PROVE  Inv' /\ Exact
  BY <1>3, NewCloneSound, CloneSound, AsRootedSound, SetNextSound
<1> QED  BY <1>1, <1>2, <1>3 DEF NextCloning

(* Inv, the inductive invariant: the heap is closed, its pointers written, *)
(* every Rooted finds an object, and counts are the numbers of Rooted.     *)
THEOREM Invariance == CloningSpec => []Inv
<1>1. Init => Inv
  BY Initially
<1>2. Inv /\ [NextCloning]_vars => Inv'
  BY Step
<1> QED  BY <1>1, <1>2, PTL DEF CloningSpec

(* The runtime and the variables of the embedder have their types.         *)
THEOREM TypeCorrect == CloningSpec => []TypeOK
<1>1. Inv => TypeOK
  BY DEF Inv
<1> QED  BY <1>1, Invariance, PTL

(* Without a move into a new object, dereferencing a Rooted, or any        *)
(* NonRooted read through it, finds an allocated object: Rooted::new,      *)
(* clone, as_rooted, set and drop keep the heap well formed.               *)
THEOREM WellFormed == CloningSpec => []HeapWellFormed
<1>1. Inv => HeapWellFormed
  BY ReachableLive DEF Inv, Sound, HeapSound, HeapWellFormed, Usable
<1> QED  BY <1>1, Invariance, PTL

(* Unrooting, cloning, promoting and dropping keep the count of an object  *)
(* in extern_refcount equal to the number of Rooted on it.                 *)
THEOREM CountsExact == CloningSpec => []RootedCounted
<1>1. Inv => RootedCounted
  <2> SUFFICES ASSUME Inv PROVE RootedCounted
    OBVIOUS
  <2>1. Sound(rt, rooted) /\ IsRuntime(rt)
    BY DEF Inv, Sound, HeapSound
  <2>2. \A a : Refcount(rt, a) \in Nat /\ Cardinality(Owners(rooted, a)) \in Nat
    BY <2>1, RefcountNat, OwnersCount
  <2>3. /\ \A a \in Addr : Refcount(rt, a) = Cardinality(Owners(rooted, a))
        /\ Refcount(rt, Null) <= Cardinality(Owners(rooted, Null))
    BY <2>1, <2>2, Constants DEF Sound, CountsWith
  <2> QED  BY <2>3 DEF RootedCounted, Owners, Holders
<1> QED  BY <1>1, Invariance, PTL

(* An operation that frees objects frees all garbage, cycles of NonRooted  *)
(* included, and nothing that a Rooted leads to.                           *)
THEOREM FreesGarbage == CloningSpec => FreesExactlyGarbage
<1>1. Inv /\ [NextCloning]_vars =>
        [DOMAIN rt.heap \subseteq DOMAIN rt'.heap \/ DOMAIN rt'.heap = Usable']_vars
  BY Step DEF Exact, Usable
<1> QED  BY <1>1, Invariance, PTL DEF CloningSpec, FreesExactlyGarbage

=============================================================================
