--------------------------- MODULE SlyDictProofs ---------------------------
(***************************************************************************)
(* Proofs about SlyDict, for every set of keys, hash function, number of   *)
(* dictionaries and initial capacity of at least 4.                        *)
(***************************************************************************)
EXTENDS SlyDict, FiniteSetTheorems, TLAPS

-----------------------------------------------------------------------------
(* The scan.                                                               *)

\* The home slot of a key is a slot of the table.
LEMMA HomeIsSlot ==
    ASSUME NEW t, IsTable(t), NEW k \in Key
    PROVE  Home(t, k) \in 0 .. t.cap - 1
<1>1. t.cap \in Nat /\ t.cap > 0 /\ Hash[k] \in Nat
  BY ConstantsAssumption DEF IsTable
<1>2. QED
  BY <1>1 DEF Home

\* The scan visits the slots in a total order: two slots at the same distance
\* from the home slot are the same slot.
LEMMA ScanOrder ==
    ASSUME NEW t, IsTable(t), NEW k \in Key, NEW i \in Slots(t), NEW j \in Slots(t)
    PROVE  Before(t, k, i, j) \/ Before(t, k, j, i) \/ i = j
<1>1. t.cap \in Nat /\ Home(t, k) \in 0 .. t.cap - 1
  BY HomeIsSlot DEF IsTable
<1>2. QED
  BY <1>1 DEF Before, Dist, Slots

\* When dict_get_slot returns a free slot there is no entry for the key: an
\* entry would lie before the null slot that ended the scan.
LEMMA FreeMeansAbsent ==
    ASSUME NEW t, IsTable(t), WellProbed(t), NEW k \in Key, NEW i \in Slots(t),
           Returns(t, k, i), Free(t.elems[i]),
           NEW j \in Live(t), t.elems[j].key = k
    PROVE  FALSE
<1>1. j \in Slots(t) /\ Holds(t, j, k)
  BY DEF Live, Holds
<1>2. PICK n \in Slots(t) : t.elems[n] = NULL /\ Arrives(t, k, n)
  BY DEF Returns, Holds
<1>3. ~Before(t, k, n, j)
  BY <1>1, <1>2 DEF WellProbed, Chained
<1>4. ~Before(t, k, j, n)
  BY <1>1, <1>2 DEF Arrives, Passes
<1>5. n # j
  BY <1>1, <1>2 DEF Holds, Free
<1>6. QED
  BY <1>1, <1>3, <1>4, <1>5, ScanOrder

\* When dict_get_slot returns an occupied slot it is the entry for the key.
LEMMA OccupiedMeansFound ==
    ASSUME NEW t, NEW k, NEW i, Returns(t, k, i), ~Free(t.elems[i])
    PROVE  t.elems[i].key = k
BY DEF Returns, Holds

-----------------------------------------------------------------------------
(* Storing an entry.                                                       *)

LEMMA EmptyIsGood ==
    ASSUME NEW cap \in Nat, cap >= InitCap
    PROVE  IsTable(Empty(cap)) /\ WellProbed(Empty(cap)) /\ Live(Empty(cap)) = {}
<1>1. IsTable(Empty(cap))
  BY DEF IsTable, Empty, Slot
<1>2. Live(Empty(cap)) = {}
  BY DEF Live, Empty, Slots, Free
<1>3. QED
  BY <1>1, <1>2 DEF WellProbed, KeysUnique, Chained

NoTombstone(t) == \A i \in Slots(t) : t.elems[i] # NULL => ~Free(t.elems[i])

LEMMA EntryNotFree ==
    ASSUME NEW k \in Key, NEW v \in Value
    PROVE  ~Free([key |-> k, val |-> v])
BY NullAssumption DEF Free

\* What Put does to the slots.
LEMMA PutSlots ==
    ASSUME NEW t, IsTable(t), NEW k \in Key, NEW v \in Value, NEW i \in Slots(t),
           NEW new, new = Put(t, i, k, v)
    PROVE  /\ IsTable(new)
           /\ new.cap = t.cap
           /\ Slots(new) = Slots(t)
           /\ new.elems[i] = [key |-> k, val |-> v]
           /\ \A j \in Slots(t) \ {i} : new.elems[j] = t.elems[j]
           /\ Live(new) = Live(t) \cup {i}
<1> DEFINE e == [key |-> k, val |-> v]
<1>1. e \in Slot /\ e # NULL /\ ~Free(e)
  BY NullAssumption DEF Slot, Free
<1>2. new.cap = t.cap /\ Slots(new) = Slots(t) /\ new.elems = [t.elems EXCEPT ![i] = e]
  BY DEF Put, Slots
<1>3. /\ new.elems \in [0 .. t.cap - 1 -> Slot]
      /\ new.elems[i] = e
      /\ \A j \in Slots(t) \ {i} : new.elems[j] = t.elems[j]
  BY <1>1, <1>2 DEF IsTable, Slots
<1>4. new.len \in Nat
  BY DEF Put, IsTable
<1>5. IsTable(new)
  BY <1>2, <1>3, <1>4 DEF IsTable, Put
<1>6. Live(new) = Live(t) \cup {i}
  BY <1>1, <1>2, <1>3 DEF Live
<1>7. QED
  BY <1>2, <1>3, <1>5, <1>6

LEMMA PutNoTombstone ==
    ASSUME NEW t, IsTable(t), NEW k \in Key, NEW v \in Value, NEW i \in Slots(t),
           NoTombstone(t)
    PROVE  NoTombstone(Put(t, i, k, v))
<1> DEFINE new == Put(t, i, k, v)
<1>1. /\ Slots(new) = Slots(t)
      /\ new.elems[i] = [key |-> k, val |-> v]
      /\ \A j \in Slots(t) \ {i} : new.elems[j] = t.elems[j]
  BY PutSlots
<1>2. ~Free(new.elems[i])
  BY <1>1, EntryNotFree
<1>3. QED
  BY <1>1, <1>2 DEF NoTombstone

\* Storing through the slot that dict_get_slot returned keeps a table probed
\* well.
LEMMA PutWellProbed ==
    ASSUME NEW t, IsTable(t), WellProbed(t), NEW k \in Key, NEW v \in Value,
           NEW i \in Slots(t), Returns(t, k, i)
    PROVE  WellProbed(Put(t, i, k, v))
<1> DEFINE new == Put(t, i, k, v)
<1>1. /\ new.cap = t.cap
      /\ Slots(new) = Slots(t)
      /\ new.elems[i] = [key |-> k, val |-> v]
      /\ \A j \in Slots(t) \ {i} : new.elems[j] = t.elems[j]
      /\ Live(new) = Live(t) \cup {i}
  BY PutSlots
<1>2. \A j \in Live(t) : t.elems[j].key = k => j = i
  <2>1. SUFFICES ASSUME NEW j \in Live(t), t.elems[j].key = k, j # i
                 PROVE  FALSE
    OBVIOUS
  <2>2. CASE Free(t.elems[i])
    BY <2>1, <2>2, FreeMeansAbsent
  <2>3. CASE ~Free(t.elems[i])
    BY <2>1, <2>3, OccupiedMeansFound DEF WellProbed, KeysUnique, Live
  <2>4. QED
    BY <2>2, <2>3
<1>3. KeysUnique(new)
  <2>1. SUFFICES ASSUME NEW a \in Live(new), NEW b \in Live(new),
                        new.elems[a].key = new.elems[b].key
                 PROVE  a = b
    BY DEF KeysUnique
  <2>2. Live(t) \subseteq Slots(t)
    BY DEF Live
  <2>3. CASE a = i /\ b # i
    BY <1>1, <1>2, <2>1, <2>2, <2>3
  <2>4. CASE a # i /\ b = i
    BY <1>1, <1>2, <2>1, <2>2, <2>4
  <2>5. CASE a # i /\ b # i
    BY <1>1, <2>1, <2>2, <2>5 DEF WellProbed, KeysUnique
  <2>6. QED
    BY <2>3, <2>4, <2>5
<1>4. Chained(new)
  <2>1. SUFFICES ASSUME NEW a \in Live(new), NEW j \in Slots(new),
                        Before(new, new.elems[a].key, j, a)
                 PROVE  new.elems[j] # NULL
    BY DEF Chained
  <2>2. \A key : Before(new, key, j, a) <=> Before(t, key, j, a)
    BY <1>1 DEF Before, Dist, Home
  <2>3. new.elems[i] # NULL
    BY <1>1, NullAssumption
  <2>4. CASE j = i
    BY <2>3, <2>4
  <2>5. CASE j # i /\ a = i
    <3>1. Before(t, k, j, i)
      BY <1>1, <2>1, <2>2, <2>5
    <3>2. t.elems[j] # NULL
      BY <1>1, <3>1 DEF Returns, Arrives, Passes, Free
    <3>3. QED
      BY <1>1, <2>5, <3>2
  <2>6. CASE j # i /\ a # i
    <3>1. a \in Live(t) /\ a \in Slots(t) /\ new.elems[a] = t.elems[a]
      BY <1>1, <2>6 DEF Live
    <3>2. t.elems[j] # NULL
      BY <1>1, <2>1, <2>2, <3>1 DEF WellProbed, Chained
    <3>3. QED
      BY <1>1, <2>6, <3>2
  <2>7. QED
    BY <2>4, <2>5, <2>6
<1>5. QED
  BY <1>3, <1>4 DEF WellProbed

-----------------------------------------------------------------------------
(* Well-formed tables: typed, probed well, and with the right length.      *)

Good(t) == IsTable(t) /\ WellProbed(t) /\ t.len = Cardinality(Live(t))

LEMMA LiveFinite ==
    ASSUME NEW t, IsTable(t)
    PROVE  IsFiniteSet(Live(t)) /\ Cardinality(Live(t)) \in Nat
<1>1. IsFiniteSet(Slots(t))
  <2>1. 0 \in Int /\ t.cap - 1 \in Int
    BY DEF IsTable
  <2>2. IsFiniteSet(0 .. t.cap - 1)
    BY <2>1, FS_Interval
  <2>3. QED
    BY <2>2 DEF Slots
<1>2. Live(t) \subseteq Slots(t)
  BY DEF Live
<1>3. QED
  BY <1>1, <1>2, FS_Subset, FS_CardinalityType

LEMMA EmptyGood ==
    ASSUME NEW cap \in Nat, cap >= InitCap
    PROVE  Good(Empty(cap))
<1>1. Cardinality(Live(Empty(cap))) = 0
  BY EmptyIsGood, FS_EmptySet
<1>2. QED
  BY <1>1, EmptyIsGood DEF Good, Empty

LEMMA PutGood ==
    ASSUME NEW t, Good(t), NEW k \in Key, NEW v \in Value,
           NEW i \in Slots(t), Returns(t, k, i)
    PROVE  Good(Put(t, i, k, v))
<1> DEFINE new == Put(t, i, k, v)
<1>1. IsTable(new) /\ WellProbed(new) /\ Live(new) = Live(t) \cup {i}
  <2>1. IsTable(t) /\ WellProbed(t)
    BY DEF Good
  <2>2. /\ IsTable(new)
        /\ Slots(new) = Slots(t)
        /\ new.elems[i] = [key |-> k, val |-> v]
        /\ \A j \in Slots(t) \ {i} : new.elems[j] = t.elems[j]
        /\ Live(new) = Live(t) \cup {i}
    BY <2>1, PutSlots
  <2>3. WellProbed(new)
    BY <2>1, PutWellProbed
  <2>4. QED
    BY <2>2, <2>3
<1>2. IsFiniteSet(Live(t))
  BY LiveFinite DEF Good
<1>3. CASE Free(t.elems[i])
  <2>1. i \notin Live(t) /\ new.len = t.len + 1
    BY <1>3 DEF Live, Put
  <2>2. Cardinality(Live(new)) = Cardinality(Live(t)) + 1
    BY <1>1, <1>2, <2>1, FS_AddElement
  <2>3. QED
    BY <1>1, <2>1, <2>2 DEF Good
<1>4. CASE ~Free(t.elems[i])
  <2>1. Live(t) \cup {i} = Live(t) /\ new.len = t.len
    BY <1>4 DEF Live, Put
  <2>2. QED
    BY <1>1, <2>1 DEF Good
<1>5. QED
  BY <1>3, <1>4

\* Removing an entry leaves a tombstone, which no scan stops at.
LEMMA TombstoneWellProbed ==
    ASSUME NEW t, IsTable(t), WellProbed(t), NEW i \in Slots(t), ~Free(t.elems[i]),
           t.len > 0,
           NEW new, new = [cap |-> t.cap, len |-> t.len - 1,
                           elems |-> [t.elems EXCEPT ![i] = Tombstone]]
    PROVE  IsTable(new) /\ WellProbed(new) /\ Live(new) = Live(t) \ {i}
<1>1. /\ new.cap = t.cap /\ new.len = t.len - 1
      /\ Slots(new) = Slots(t)
      /\ new.elems \in [0 .. t.cap - 1 -> Slot]
      /\ new.elems[i] = Tombstone
      /\ \A j \in Slots(t) \ {i} : new.elems[j] = t.elems[j]
  BY DEF IsTable, Slots, Slot
<1>2. IsTable(new)
  BY <1>1 DEF IsTable
<1>3. Tombstone # NULL /\ Free(Tombstone)
  BY NullAssumption DEF Tombstone, Free
<1>4. Live(new) = Live(t) \ {i}
  BY <1>1, <1>3 DEF Live
<1>5. KeysUnique(new)
  BY <1>1, <1>4 DEF WellProbed, KeysUnique, Live
<1>6. Chained(new)
  <2>1. \A key, j, a : Before(new, key, j, a) <=> Before(t, key, j, a)
    BY <1>1 DEF Before, Dist, Home
  <2>2. \A a \in Live(new) : a \in Live(t) /\ new.elems[a] = t.elems[a]
    BY <1>1, <1>4 DEF Live
  <2>3. \A j \in Slots(new) : t.elems[j] # NULL => new.elems[j] # NULL
    BY <1>1, <1>3
  <2>4. QED
    BY <1>1, <2>1, <2>2, <2>3 DEF WellProbed, Chained
<1>7. QED
  BY <1>2, <1>4, <1>5, <1>6 DEF WellProbed

\* dictionary_remove never takes the length below zero, although size_t would
\* wrap around: the slot it frees is one of the entries that len counts.
LEMMA TombstoneGood ==
    ASSUME NEW t, Good(t), NEW i \in Slots(t), ~Free(t.elems[i]),
           NEW new, new = [cap |-> t.cap, len |-> t.len - 1,
                           elems |-> [t.elems EXCEPT ![i] = Tombstone]]
    PROVE  Good(new) /\ Live(new) = Live(t) \ {i} /\ t.len > 0
<1>1. IsFiniteSet(Live(t)) /\ i \in Live(t)
  BY LiveFinite DEF Good, Live
<1>2. Cardinality(Live(t) \ {i}) = Cardinality(Live(t)) - 1
  BY <1>1, FS_RemoveElement
<1>3. Cardinality(Live(t) \ {i}) \in Nat /\ t.len = Cardinality(Live(t))
  BY <1>1, FS_RemoveElement, FS_CardinalityType DEF Good
<1>4. t.len \in Nat /\ t.len > 0
  BY <1>2, <1>3 DEF Good, IsTable
<1>5. IsTable(new) /\ WellProbed(new) /\ Live(new) = Live(t) \ {i}
  BY <1>4, TombstoneWellProbed DEF Good
<1>6. QED
  BY <1>2, <1>3, <1>4, <1>5 DEF Good

-----------------------------------------------------------------------------
(* The invariant of every table the program holds.                         *)

GoodResize ==
    /\ resize.dict \in Dict
    /\ Good(resize.new)
    /\ resize.i \in 0 .. table[resize.dict].cap
    /\ resize = [dict |-> resize.dict, new |-> resize.new, i |-> resize.i]

GoodTables ==
    /\ DOMAIN table = Dict
    /\ \A d \in Dict : Good(table[d])
    /\ resize = NoResize \/ GoodResize

GoodOther ==
    /\ \/ import = NoImport
       \/ import \in [dst : Dict, src : Dict, i : Nat, next : Dict \cup {NULL},
                      base : SUBSET (Key \X Value)]
    /\ fault \in {"none", "scan", "remove"}
    /\ reply \in {NULL} \cup [dict : Dict, key : Key, val : Value \cup {NULL}]

DictInv == GoodTables /\ GoodOther

LEMMA DictInvImplies == DictInv => TypeOK /\ ProbeInv /\ LenInv
<1>1. ASSUME DictInv, resize # NoResize PROVE GoodResize
  BY <1>1 DEF DictInv, GoodTables
<1>2. QED
  BY <1>1 DEF DictInv, GoodTables, GoodResize, GoodOther, Good, TypeOK, ProbeInv, LenInv

LEMMA NoResizeIsNot ==
    ASSUME NEW d \in Dict, NEW n, NEW i
    PROVE  [dict |-> d, new |-> n, i |-> i] # NoResize
BY NullAssumption DEF NoResize

\* dictionary_set, whoever calls it, keeps the tables well-formed.
LEMMA StoreKeepsTables ==
    ASSUME GoodTables, resize = NoResize,
           NEW d \in Dict, NEW k \in Key, NEW v \in Value, Store(d, k, v)
    PROVE  GoodTables' /\ fault' \in {fault, "scan"}
<1> DEFINE t == table[d]
<1>1. DOMAIN table = Dict /\ \A e \in Dict : Good(table[e])
  BY DEF GoodTables
<1>2. CASE ScanFails(t, k) /\ fault' = "scan" /\ UNCHANGED <<table, resize>>
  BY <1>1, <1>2 DEF GoodTables
<1>3. ASSUME NEW i \in Slots(t), Returns(t, k, i),
             table' = [table EXCEPT ![d] = Put(t, i, k, v)],
             \/ resize' = NoResize
             \/ resize' = [dict |-> d, new |-> Empty(2 * t.cap), i |-> 0],
             UNCHANGED fault
      PROVE  GoodTables'
  <2>1. Good(Put(t, i, k, v))
    BY <1>1, <1>3, PutGood
  <2>2. DOMAIN table' = Dict /\ table'[d] = Put(t, i, k, v) /\ \A e \in Dict : Good(table'[e])
    BY <1>1, <1>3, <2>1
  <2>3. CASE resize' = NoResize
    BY <2>2, <2>3 DEF GoodTables
  <2>4. CASE resize' = [dict |-> d, new |-> Empty(2 * t.cap), i |-> 0]
    <3>1. 2 * t.cap \in Nat /\ 2 * t.cap >= InitCap
      BY <1>1, ConstantsAssumption DEF Good, IsTable
    <3>2. Good(resize'.new)
      BY <2>4, <3>1, EmptyGood
    <3>3. table'[d].cap \in Nat
      BY <2>2 DEF Good, IsTable
    <3>4. GoodResize'
      BY <2>4, <3>2, <3>3 DEF GoodResize
    <3>5. QED
      BY <2>2, <3>4 DEF GoodTables
  <2>5. QED
    BY <1>3, <2>3, <2>4
<1>4. QED
  BY <1>2, <1>3 DEF Store

\* An entry's key and value are a key and a value.
LEMMA LiveEntry ==
    ASSUME NEW t, IsTable(t), NEW i \in Slots(t), ~Free(t.elems[i])
    PROVE  /\ t.elems[i].key \in Key /\ t.elems[i].val \in Value
           /\ <<t.elems[i].key, t.elems[i].val>> \in Key \X Value
<1>1. t.elems[i] \in Slot
  BY DEF IsTable, Slots
<1>2. t.elems[i] \in [key : Key, val : Value]
  BY <1>1 DEF Slot, Free, Tombstone
<1>3. QED
  BY <1>2

LEMMA ContentsType ==
    ASSUME NEW t, IsTable(t)
    PROVE  Contents(t) \in SUBSET (Key \X Value)
BY LiveEntry DEF Contents, Live

LEMMA DictInit == Init => DictInv
<1>1. SUFFICES ASSUME Init PROVE DictInv
  OBVIOUS
<1>2. Good(Empty(InitCap))
  BY EmptyGood, ConstantsAssumption
<1>3. QED
  BY <1>1, <1>2 DEF Init, DictInv, GoodTables, GoodOther

LEMMA DictStep == DictInv /\ [Next]_vars => DictInv'
<1> SUFFICES ASSUME DictInv, [Next]_vars PROVE DictInv'
  OBVIOUS
<1> USE DEF DictInv
<1>0. DOMAIN table = Dict /\ \A e \in Dict : Good(table[e])
  BY DEF GoodTables
<1>1. ASSUME NEW d \in Dict, NEW k \in Key, NEW v \in Value, DictionarySet(d, k, v)
      PROVE  DictInv'
  <2>1. GoodTables' /\ fault' \in {fault, "scan"}
    BY <1>1, StoreKeepsTables DEF DictionarySet, Idle
  <2>2. QED
    BY <1>1, <2>1 DEF DictionarySet, GoodOther
<1>2. ASSUME NEW d \in Dict, NEW k \in Key, DictionaryRef(d, k)
      PROVE  DictInv'
  <2>1. \A i \in Slots(table[d]) : ~Free(table[d].elems[i]) => table[d].elems[i].val \in Value
    BY <1>0, LiveEntry DEF Good
  <2>2. reply' \in {NULL} \cup [dict : Dict, key : Key, val : Value \cup {NULL}]
    BY <1>2, <2>1 DEF DictionaryRef
  <2>3. fault' \in {"none", "scan", "remove"} /\ UNCHANGED <<table, resize, import>>
    BY <1>2 DEF DictionaryRef, GoodOther
  <2>4. QED
    BY <2>2, <2>3 DEF GoodOther, GoodTables, GoodResize
<1>3. ASSUME NEW d \in Dict, NEW k \in Key, DictionaryRemove(d, k)
      PROVE  DictInv'
  <2>1. /\ resize = NoResize /\ UNCHANGED <<resize, import>> /\ reply' = NULL
        /\ fault' \in {"none", "scan", "remove"}
    BY <1>3 DEF DictionaryRemove, Idle, GoodOther
  <2>2. CASE UNCHANGED table
    BY <2>1, <2>2 DEF GoodTables, GoodOther
  <2>3. ASSUME NEW i \in Slots(table[d]), ~Free(table[d].elems[i]),
               table' = [table EXCEPT ![d] =
                           [cap |-> table[d].cap, len |-> table[d].len - 1,
                            elems |-> [table[d].elems EXCEPT ![i] = Tombstone]]]
        PROVE  DictInv'
    <3>1. Good(table'[d])
      BY <1>0, <2>3, TombstoneGood
    <3>2. DOMAIN table' = Dict /\ \A e \in Dict : Good(table'[e])
      BY <1>0, <2>3, <3>1
    <3>3. QED
      BY <2>1, <3>2 DEF GoodTables, GoodOther
  <2>4. QED
    BY <1>3, <2>2, <2>3 DEF DictionaryRemove
<1>4. ASSUME NEW d \in Dict, NEW s \in Dict, DictionaryImport(d, s)
      PROVE  DictInv'
  <2>1. Contents(table[d]) \in SUBSET (Key \X Value)
    BY <1>0, ContentsType DEF Good
  <2>2. QED
    BY <1>4, <2>1 DEF DictionaryImport, GoodTables, GoodResize, GoodOther
<1>5. ASSUME NEW d \in Dict, NEW s \in Dict, NEW n \in Dict \cup {NULL}, StartCopy(d, s, n)
      PROVE  DictInv'
  <2>1. Good(Empty(InitCap))
    BY EmptyGood, ConstantsAssumption
  <2>2. DOMAIN table' = Dict /\ \A e \in Dict : Good(table'[e])
    BY <1>0, <1>5, <2>1 DEF StartCopy
  <2>3. QED
    BY <1>5, <2>2 DEF StartCopy, Idle, GoodTables, GoodOther
<1>6. ASSUME ResizeSlot PROVE DictInv'
  <2>1. GoodResize
    BY <1>6 DEF ResizeSlot, GoodTables
  <2> DEFINE old == table[resize.dict]
             entry == old.elems[resize.i]
  <2>2. IsTable(old) /\ resize.i \in Slots(old) /\ resize.i + 1 \in 0 .. old.cap
    BY <1>0, <1>6, <2>1 DEF ResizeSlot, GoodResize, Good, IsTable, Slots
  <2>3. UNCHANGED <<table, import>> /\ reply' = NULL /\ fault' \in {"none", "scan"}
    BY <1>6 DEF ResizeSlot
  <2>4. GoodResize'
    <3>1. CASE resize' = [dict |-> resize.dict, new |-> resize.new, i |-> resize.i + 1]
      BY <2>1, <2>2, <2>3, <3>1 DEF GoodResize
    <3>2. ASSUME NEW j \in Slots(resize.new), ~Free(entry), Returns(resize.new, entry.key, j),
                 resize' = [dict |-> resize.dict, i |-> resize.i + 1,
                            new |-> Put(resize.new, j, entry.key, entry.val)]
          PROVE  GoodResize'
      <4>1. entry.key \in Key /\ entry.val \in Value
        BY <2>2, <3>2, LiveEntry
      <4>2. Good(Put(resize.new, j, entry.key, entry.val))
        BY <2>1, <3>2, <4>1, PutGood DEF GoodResize
      <4>3. QED
        BY <2>1, <2>2, <2>3, <3>2, <4>2 DEF GoodResize
    <3>3. CASE UNCHANGED resize
      BY <2>1, <2>3, <3>3 DEF GoodResize
    <3>4. QED
      BY <1>6, <3>1, <3>2, <3>3 DEF ResizeSlot
  <2>5. QED
    BY <1>0, <2>3, <2>4 DEF GoodTables, GoodOther
<1>7. ASSUME ResizeDone PROVE DictInv'
  <2>1. GoodResize
    BY <1>7 DEF ResizeDone, GoodTables
  <2>2. DOMAIN table' = Dict /\ \A e \in Dict : Good(table'[e])
    BY <1>0, <1>7, <2>1 DEF ResizeDone, GoodResize
  <2>3. QED
    BY <1>7, <2>2 DEF ResizeDone, GoodTables, GoodOther
<1>8. ASSUME ImportSlot PROVE DictInv'
  <2>1. /\ import \in [dst : Dict, src : Dict, i : Nat, next : Dict \cup {NULL},
                       base : SUBSET (Key \X Value)]
        /\ import.i \in Slots(table[import.src])
        /\ IsTable(table[import.src])
        /\ resize = NoResize
    BY <1>0, <1>8 DEF ImportSlot, GoodOther, Good, IsTable, Slots
  <2> DEFINE entry == table[import.src].elems[import.i]
  <2>2. GoodTables' /\ fault' \in {"none", "scan"}
    <3>1. CASE UNCHANGED <<table, resize, fault>>
      BY <1>8, <3>1 DEF ImportSlot, GoodTables, GoodResize
    <3>2. CASE ~Free(entry) /\ Store(import.dst, entry.key, entry.val)
      <4>1. entry.key \in Key /\ entry.val \in Value /\ import.dst \in Dict
        BY <2>1, <3>2, LiveEntry
      <4>2. QED
        BY <1>8, <2>1, <3>2, <4>1, StoreKeepsTables DEF ImportSlot
    <3>3. QED
      BY <1>8, <3>1, <3>2 DEF ImportSlot
  <2>3. GoodOther'
    BY <1>8, <2>1, <2>2 DEF ImportSlot, GoodOther
  <2>4. QED
    BY <2>2, <2>3
<1>9. ASSUME ImportDone PROVE DictInv'
  <2>1. import \in [dst : Dict, src : Dict, i : Nat, next : Dict \cup {NULL},
                    base : SUBSET (Key \X Value)]
    BY <1>9 DEF ImportDone, GoodOther
  <2>2. Contents(table[import.dst]) \in SUBSET (Key \X Value)
    BY <1>0, <2>1, ContentsType DEF Good
  <2>3. QED
    BY <1>9, <2>1, <2>2 DEF ImportDone, GoodTables, GoodResize, GoodOther
<1>10. CASE UNCHANGED vars
  BY <1>10 DEF vars, GoodTables, GoodResize, GoodOther
<1>11. QED
  BY <1>1, <1>2, <1>3, <1>4, <1>5, <1>6, <1>7, <1>8, <1>9, <1>10
     DEF Next, Loop, CopyDictionary, DictionaryUnion

\* Every dictionary of every run is typed, and the cursors of the loops stay
\* inside the vectors.
THEOREM TypeCorrect == Spec => []TypeOK
BY DictInit, DictStep, DictInvImplies, PTL DEF Spec

\* dict_get_slot can find every entry, and there is one entry per key, at every
\* point of every sequence of sets, removals, resizes, copies and imports.
THEOREM Probing == Spec => []ProbeInv
BY DictInit, DictStep, DictInvImplies, PTL DEF Spec

\* dictionary_len never drifts from the number of entries.
THEOREM Counting == Spec => []LenInv
BY DictInit, DictStep, DictInvImplies, PTL DEF Spec

-----------------------------------------------------------------------------
(* What the operations do to the contents of a table.                      *)

\* An entry's pair is in the contents, and every pair of the contents is that
\* of an entry.
LEMMA ContentsOf ==
    ASSUME NEW t, NEW p
    PROVE  p \in Contents(t) <=>
             \E j \in Live(t) : p = <<t.elems[j].key, t.elems[j].val>>
BY DEF Contents

Updated(m, k, v) == {p \in m : p[1] # k} \cup {<<k, v>>}

LEMMA PutContents ==
    ASSUME NEW t, Good(t), NEW k \in Key, NEW v \in Value, NEW i \in Slots(t),
           Returns(t, k, i), NEW new, new = Put(t, i, k, v)
    PROVE  /\ Contents(new) = Updated(Contents(t), k, v)
           /\ Free(t.elems[i]) => \A p \in Contents(t) : p[1] # k
           /\ ~Free(t.elems[i]) => <<k, t.elems[i].val>> \in Contents(t)
<1>1. IsTable(t) /\ WellProbed(t)
  BY DEF Good
<1>2. /\ IsTable(new)
      /\ Slots(new) = Slots(t)
      /\ new.elems[i] = [key |-> k, val |-> v]
      /\ \A j \in Slots(t) \ {i} : new.elems[j] = t.elems[j]
      /\ Live(new) = Live(t) \cup {i}
  BY <1>1, PutSlots
<1>3. Live(t) \subseteq Slots(t)
  BY DEF Live
<1>4. \A j \in Live(t) : t.elems[j].key = k => j = i
  <2>1. SUFFICES ASSUME NEW j \in Live(t), t.elems[j].key = k, j # i
                 PROVE  FALSE
    OBVIOUS
  <2>2. CASE Free(t.elems[i])
    BY <1>1, <2>1, <2>2, FreeMeansAbsent
  <2>3. CASE ~Free(t.elems[i])
    BY <1>1, <2>1, <2>3, OccupiedMeansFound DEF WellProbed, KeysUnique, Live
  <2>4. QED
    BY <2>2, <2>3
<1>5. ASSUME NEW p \in Contents(new)
      PROVE  p \in {q \in Contents(t) : q[1] # k} \cup {<<k, v>>}
  <2>1. PICK j \in Live(new) : p = <<new.elems[j].key, new.elems[j].val>>
    BY <1>5, ContentsOf
  <2>2. CASE j = i
    BY <1>2, <2>1, <2>2
  <2>3. CASE j # i
    <3>1. j \in Live(t) /\ new.elems[j] = t.elems[j]
      BY <1>2, <1>3, <2>3
    <3>2. p \in Contents(t) /\ p[1] # k
      BY <1>4, <2>1, <2>3, <3>1, ContentsOf
    <3>3. QED
      BY <3>2
  <2>4. QED
    BY <2>2, <2>3
<1>6. ASSUME NEW p \in Contents(t), p[1] # k
      PROVE  p \in Contents(new)
  <2>1. PICK j \in Live(t) : p = <<t.elems[j].key, t.elems[j].val>>
    BY <1>6, ContentsOf
  <2>2. j # i
    <3>1. SUFFICES ASSUME j = i PROVE FALSE
      OBVIOUS
    <3>2. ~Free(t.elems[i])
      BY <2>1, <3>1 DEF Live
    <3>3. QED
      BY <1>6, <2>1, <3>1, <3>2, OccupiedMeansFound
  <2>3. j \in Live(new) /\ new.elems[j] = t.elems[j]
    BY <1>2, <1>3, <2>1, <2>2
  <2>4. QED
    BY <2>1, <2>3, ContentsOf
<1>7. <<k, v>> \in Contents(new)
  <2>1. i \in Live(new) /\ <<k, v>> = <<new.elems[i].key, new.elems[i].val>>
    BY <1>2
  <2>2. QED
    BY <2>1, ContentsOf
<1>8. Contents(new) = Updated(Contents(t), k, v)
  BY <1>5, <1>6, <1>7 DEF Updated
<1>9. ASSUME Free(t.elems[i]), NEW p \in Contents(t)
      PROVE  p[1] # k
  <2>1. PICK j \in Live(t) : p = <<t.elems[j].key, t.elems[j].val>>
    BY <1>9, ContentsOf
  <2>2. QED
    BY <1>1, <1>9, <2>1, FreeMeansAbsent
<1>10. ASSUME ~Free(t.elems[i]) PROVE <<k, t.elems[i].val>> \in Contents(t)
  <2>1. i \in Live(t) /\ t.elems[i].key = k
    BY <1>10, OccupiedMeansFound DEF Live
  <2>2. QED
    BY <2>1, ContentsOf
<1>11. QED
  BY <1>8, <1>9, <1>10

LEMMA PutUpdates ==
    ASSUME NEW t, Good(t), NEW k \in Key, NEW v \in Value, NEW i \in Slots(t),
           Returns(t, k, i)
    PROVE  Contents(Put(t, i, k, v)) = Updated(Contents(t), k, v)
<1> DEFINE new == Put(t, i, k, v)
<1>1. /\ Contents(new) = Updated(Contents(t), k, v)
      /\ Free(t.elems[i]) => \A p \in Contents(t) : p[1] # k
      /\ ~Free(t.elems[i]) => <<k, t.elems[i].val>> \in Contents(t)
  BY PutContents
<1>2. QED
  BY <1>1

\* Removing the entry in slot i removes its key from the contents.
LEMMA TombstoneContents ==
    ASSUME NEW t, Good(t), NEW i \in Slots(t), ~Free(t.elems[i]),
           NEW new, new = [cap |-> t.cap, len |-> t.len - 1,
                           elems |-> [t.elems EXCEPT ![i] = Tombstone]]
    PROVE  Contents(new) = {p \in Contents(t) : p[1] # t.elems[i].key}
<1>1. Live(new) = Live(t) \ {i}
  BY TombstoneGood
<1>2. \A j \in Live(new) : j \in Live(t) /\ j # i /\ new.elems[j] = t.elems[j]
  BY <1>1 DEF Good, IsTable, Live, Slots
<1>3. \A j \in Live(t) : t.elems[j].key = t.elems[i].key => j = i
  BY DEF Good, WellProbed, KeysUnique, Live
<1>4. ASSUME NEW p \in Contents(new)
      PROVE  p \in Contents(t) /\ p[1] # t.elems[i].key
  <2>1. PICK j \in Live(new) : p = <<new.elems[j].key, new.elems[j].val>>
    BY <1>4 DEF Contents
  <2>2. p = <<t.elems[j].key, t.elems[j].val>> /\ j \in Live(t) /\ j # i
    BY <1>2, <2>1
  <2>3. QED
    BY <1>3, <2>2, ContentsOf
<1>5. ASSUME NEW p \in Contents(t), p[1] # t.elems[i].key
      PROVE  p \in Contents(new)
  <2>1. PICK j \in Live(t) : p = <<t.elems[j].key, t.elems[j].val>>
    BY <1>5, ContentsOf
  <2>2. j \in Live(new)
    BY <1>1, <1>5, <2>1
  <2>3. QED
    BY <1>2, <2>1, <2>2, ContentsOf
<1>6. QED
  BY <1>4, <1>5

\* What walking one more slot adds.
LEMMA WalkedStep ==
    ASSUME NEW t, Good(t), NEW n \in Slots(t)
    PROVE  /\ Free(t.elems[n]) => Walked(t, n + 1) = Walked(t, n)
           /\ ~Free(t.elems[n]) =>
                /\ Walked(t, n + 1) =
                     Walked(t, n) \cup {<<t.elems[n].key, t.elems[n].val>>}
                /\ \A p \in Walked(t, n) : p[1] # t.elems[n].key
<1>1. Live(t) \subseteq Slots(t) /\ Slots(t) \subseteq Int /\ n \in Int
  BY DEF Live, Slots, Good, IsTable
<1>2. ASSUME Free(t.elems[n]) PROVE Walked(t, n + 1) = Walked(t, n)
  <2>1. n \notin Live(t)
    BY <1>2 DEF Live
  <2>2. {j \in Live(t) : j < n + 1} = {j \in Live(t) : j < n}
    BY <1>1, <2>1
  <2>3. QED
    BY <2>2 DEF Walked
<1>3. ASSUME ~Free(t.elems[n])
      PROVE  /\ Walked(t, n + 1) =
                     Walked(t, n) \cup {<<t.elems[n].key, t.elems[n].val>>}
             /\ \A p \in Walked(t, n) : p[1] # t.elems[n].key
  <2>1. n \in Live(t)
    BY <1>3 DEF Live
  <2>2. {j \in Live(t) : j < n + 1} = {j \in Live(t) : j < n} \cup {n}
    BY <1>1, <2>1
  <2>3. Walked(t, n + 1) = Walked(t, n) \cup {<<t.elems[n].key, t.elems[n].val>>}
    BY <2>2 DEF Walked
  <2>4. \A j \in Live(t) : j < n => t.elems[j].key # t.elems[n].key
    BY <1>1, <2>1 DEF Good, WellProbed, KeysUnique
  <2>5. \A p \in Walked(t, n) : p[1] # t.elems[n].key
    BY <2>4 DEF Walked
  <2>6. QED
    BY <2>3, <2>5
<1>4. QED
  BY <1>2, <1>3

LEMMA WalkedAll ==
    ASSUME NEW t, IsTable(t)
    PROVE  Walked(t, t.cap) = Contents(t) /\ Walked(t, 0) = {}
<1>1. \A j \in Live(t) : j < t.cap /\ ~(j < 0)
  BY DEF Live, Slots, IsTable
<1>2. {j \in Live(t) : j < t.cap} = Live(t) /\ {j \in Live(t) : j < 0} = {}
  BY <1>1
<1>3. QED
  BY <1>2 DEF Walked, Contents

-----------------------------------------------------------------------------
(* Resizing: the doubled table has room for every entry of the old one.    *)

WalkedSlots(t, n) == {j \in Live(t) : j < n}

RoomInResize ==
    /\ resize.new.cap = 2 * table[resize.dict].cap
    /\ 10 * table[resize.dict].len <= 7 * table[resize.dict].cap + 10
    /\ resize.new.len = Cardinality(WalkedSlots(table[resize.dict], resize.i))
    /\ NoTombstone(resize.new)
    /\ Contents(resize.new) = Walked(table[resize.dict], resize.i)
    /\ fault = "none"
    /\ import # NoImport => resize.dict = import.dst

RoomInv == LoadInv /\ (resize # NoResize => RoomInResize)

\* The entries moved so far are some of the old table's, of which there are at
\* most one more than 70% of its capacity: half of that in the new table.
LEMMA NewNotOverloaded ==
    ASSUME DictInv, resize # NoResize, RoomInResize
    PROVE  ~Overloaded(resize.new)
<1> DEFINE old == table[resize.dict]
<1>1. Good(old) /\ Good(resize.new)
  BY DEF DictInv, GoodTables, GoodResize
<1>2. IsFiniteSet(Live(old)) /\ Cardinality(Live(old)) \in Nat
  BY <1>1, LiveFinite DEF Good
<1>3. WalkedSlots(old, resize.i) \subseteq Live(old)
  BY DEF WalkedSlots
<1>4. /\ Cardinality(WalkedSlots(old, resize.i)) \in Nat
      /\ Cardinality(WalkedSlots(old, resize.i)) <= Cardinality(Live(old))
  BY <1>2, <1>3, FS_Subset, FS_CardinalityType
<1>5. old.cap \in Nat /\ old.cap >= 4 /\ old.len = Cardinality(Live(old)) /\ old.len \in Nat
  BY <1>1, ConstantsAssumption DEF Good, IsTable
<1>6. resize.new.len <= old.len /\ resize.new.len \in Nat
  BY <1>4, <1>5 DEF RoomInResize
<1>7. QED
  BY <1>5, <1>6 DEF RoomInResize, Overloaded

\* A table without tombstones that is not overloaded ends every scan.
LEMMA RoomEndsScan ==
    ASSUME NEW t, Good(t), ~Overloaded(t), NEW k, NoTombstone(t)
    PROVE  ~ScanFails(t, k)
<1>1. SUFFICES ASSUME ScanFails(t, k) PROVE FALSE
  OBVIOUS
<1>2. Live(t) = 0 .. t.cap - 1
  BY <1>1 DEF ScanFails, Passes, Live, Slots, NoTombstone
<1>3. t.cap \in Nat /\ t.cap > 0 /\ t.len \in Nat
  BY ConstantsAssumption DEF Good, IsTable
<1>4. Cardinality(0 .. t.cap - 1) = t.cap
  <2>1. 0 \in Int /\ t.cap - 1 \in Int /\ ~(0 > t.cap - 1) /\ t.cap - 1 - 0 + 1 = t.cap
    BY <1>3
  <2>2. QED
    BY <2>1, FS_Interval
<1>5. t.len = t.cap
  BY <1>2, <1>4 DEF Good
<1>6. QED
  BY <1>3, <1>5 DEF Overloaded

LEMMA NotNone ==
    ASSUME NEW d \in Dict PROVE d # NoResize.dict
BY NullAssumption DEF NoResize

LEMMA StoreKeepsRoom ==
    ASSUME DictInv, RoomInv, resize = NoResize, fault = "none",
           NEW d \in Dict, NEW k \in Key, NEW v \in Value, Store(d, k, v),
           import' # NoImport => d = import'.dst
    PROVE  RoomInv'
<1> DEFINE t == table[d]
<1>1. DOMAIN table = Dict /\ Good(t) /\ \A e \in Dict : ~Overloaded(table[e])
  BY NotNone DEF DictInv, GoodTables, RoomInv, LoadInv
<1>2. CASE UNCHANGED <<table, resize>>
  BY <1>2 DEF RoomInv, LoadInv
<1>3. ASSUME NEW i \in Slots(t), Returns(t, k, i),
             table' = [table EXCEPT ![d] = Put(t, i, k, v)],
             resize' = IF Free(t.elems[i]) /\ Overloaded(Put(t, i, k, v))
                       THEN [dict |-> d, new |-> Empty(2 * t.cap), i |-> 0]
                       ELSE NoResize,
             UNCHANGED fault
      PROVE  RoomInv'
  <2> DEFINE new == Put(t, i, k, v)
  <2>1. table'[d] = new /\ \A e \in Dict \ {d} : table'[e] = table[e]
    BY <1>1, <1>3
  <2>2. /\ new.cap = t.cap
        /\ new.len = IF Free(t.elems[i]) THEN t.len + 1 ELSE t.len
    BY DEF Put
  <2>3. t.cap \in Nat /\ t.len \in Nat
    BY <1>1 DEF Good, IsTable
  <2>4. CASE Free(t.elems[i]) /\ Overloaded(new)
    <3>1. resize' = [dict |-> d, new |-> Empty(2 * t.cap), i |-> 0]
      BY <1>3, <2>4
    <3>2. resize'.dict = d /\ resize'.i = 0 /\ resize'.new = Empty(2 * t.cap)
      BY <3>1
    <3>3. LoadInv'
      BY <1>1, <2>1, <3>2 DEF LoadInv
    <3>4. Good(new) /\ Good(Empty(2 * t.cap)) /\ Live(Empty(2 * t.cap)) = {}
      <4>1. 2 * t.cap \in Nat /\ 2 * t.cap >= InitCap
        BY <1>1, ConstantsAssumption DEF Good, IsTable
      <4>2. QED
        BY <1>1, <1>3, <4>1, PutGood, EmptyGood, EmptyIsGood
    <3>5. 10 * new.len <= 7 * new.cap + 10
      BY <1>1, <2>2, <2>3, <2>4 DEF Overloaded
    <3>6. Walked(new, 0) = {} /\ WalkedSlots(new, 0) = {}
      <4>1. \A j \in Live(new) : ~(j < 0)
        BY <3>4 DEF Good, IsTable, Live, Slots
      <4>2. QED
        BY <3>4, <4>1, WalkedAll DEF Good, WalkedSlots
    <3>7. Contents(Empty(2 * t.cap)) = {}
      BY <3>4 DEF Contents
    <3>8. Empty(2 * t.cap).cap = 2 * t.cap /\ Empty(2 * t.cap).len = 0
          /\ \A j \in Slots(Empty(2 * t.cap)) : Empty(2 * t.cap).elems[j] = NULL
      BY DEF Empty, Slots
    <3>9. Cardinality(WalkedSlots(new, 0)) = 0
      BY <3>6, FS_EmptySet
    <3>10. RoomInResize'
      BY <1>3, <2>1, <2>2, <3>2, <3>5, <3>6, <3>7, <3>8, <3>9 DEF RoomInResize, NoTombstone
    <3>11. QED
      BY <3>3, <3>10 DEF RoomInv
  <2>5. CASE ~(Free(t.elems[i]) /\ Overloaded(new))
    <3>1. resize' = NoResize
      BY <1>3, <2>5
    <3>2. ~Overloaded(new)
      BY <1>1, <2>2, <2>3, <2>5 DEF Overloaded
    <3>3. QED
      BY <1>1, <2>1, <3>1, <3>2 DEF RoomInv, LoadInv
  <2>6. QED
    BY <2>4, <2>5
<1>4. QED
  BY <1>2, <1>3 DEF Store

LEMMA RoomInit == Init => RoomInv
<1>1. ASSUME Init PROVE RoomInv
  <2>1. InitCap \in Nat /\ InitCap >= 4
    BY ConstantsAssumption
  <2>2. ~Overloaded(Empty(InitCap))
    BY <2>1 DEF Overloaded, Empty
  <2>3. QED
    BY <1>1, <2>2 DEF Init, RoomInv, LoadInv
<1>2. QED
  BY <1>1

LEMMA RoomStep == DictInv /\ RoomInv /\ [Next]_vars => RoomInv'
<1> SUFFICES ASSUME DictInv, RoomInv, [Next]_vars PROVE RoomInv'
  OBVIOUS
<1>0. DOMAIN table = Dict /\ \A e \in Dict : Good(table[e])
  BY DEF DictInv, GoodTables
<1>1. ASSUME NEW d \in Dict, NEW k \in Key, NEW v \in Value, DictionarySet(d, k, v)
      PROVE  RoomInv'
  BY <1>1, StoreKeepsRoom DEF DictionarySet, Idle
<1>2. CASE UNCHANGED <<table, resize>> /\ resize = NoResize
  BY <1>2 DEF RoomInv, LoadInv
<1>3. ASSUME NEW d \in Dict, NEW k \in Key, DictionaryRemove(d, k)
      PROVE  RoomInv'
  <2>1. resize = NoResize /\ UNCHANGED resize
    BY <1>3 DEF DictionaryRemove, Idle
  <2>2. CASE UNCHANGED table
    BY <1>2, <2>1, <2>2
  <2>3. ASSUME NEW i \in Slots(table[d]),
               table' = [table EXCEPT ![d] =
                           [cap |-> table[d].cap, len |-> table[d].len - 1,
                            elems |-> [table[d].elems EXCEPT ![i] = Tombstone]]]
        PROVE  RoomInv'
    <3>1. ~Overloaded(table[d]) /\ \A e \in Dict : ~Overloaded(table[e])
      BY <2>1, NotNone DEF RoomInv, LoadInv
    <3>2. table[d].cap \in Nat /\ table[d].len \in Nat
      BY <1>0 DEF Good, IsTable
    <3>3. ~Overloaded(table'[d])
      BY <1>0, <2>3, <3>1, <3>2 DEF Overloaded
    <3>4. QED
      BY <1>0, <2>1, <2>3, <3>1, <3>3 DEF RoomInv, LoadInv
  <2>4. QED
    BY <1>3, <2>2, <2>3 DEF DictionaryRemove
<1>4. ASSUME NEW d \in Dict, NEW s \in Dict, NEW n, StartCopy(d, s, n)
      PROVE  RoomInv'
  <2>1. ~Overloaded(Empty(InitCap))
    BY ConstantsAssumption DEF Overloaded, Empty
  <2>2. QED
    BY <1>0, <1>4, <2>1 DEF StartCopy, Idle, RoomInv, LoadInv
<1>5. ASSUME ResizeSlot PROVE RoomInv'
  <2> DEFINE old == table[resize.dict]
             entry == old.elems[resize.i]
  <2>1. GoodResize /\ RoomInResize /\ resize # NoResize
    BY <1>5 DEF ResizeSlot, DictInv, GoodTables, RoomInv
  <2>2. /\ Good(old) /\ Good(resize.new) /\ resize.i \in Slots(old)
        /\ ~Overloaded(resize.new)
    BY <1>0, <1>5, <2>1, NewNotOverloaded DEF ResizeSlot, GoodResize, Slots, Good, IsTable
  <2>3. UNCHANGED <<table, import>>
    BY <1>5 DEF ResizeSlot
  <2>4. /\ Live(old) \subseteq Slots(old) /\ Slots(old) \subseteq Int /\ resize.i \in Int
        /\ IsFiniteSet(WalkedSlots(old, resize.i))
    <3>1. IsFiniteSet(Live(old)) /\ WalkedSlots(old, resize.i) \subseteq Live(old)
      BY <2>2, LiveFinite DEF Good, WalkedSlots
    <3>2. IsFiniteSet(WalkedSlots(old, resize.i))
      BY <3>1, FS_Subset
    <3>3. QED
      BY <2>2, <3>2 DEF Live, Slots, Good, IsTable
  <2>5. CASE /\ Free(entry) /\ UNCHANGED fault
             /\ resize' = [dict |-> resize.dict, new |-> resize.new, i |-> resize.i + 1]
    <3>1. WalkedSlots(old, resize.i + 1) = WalkedSlots(old, resize.i)
      <4>1. resize.i \notin Live(old)
        BY <2>5 DEF Live
      <4>2. QED
        BY <2>4, <4>1 DEF WalkedSlots
    <3>2. Walked(old, resize.i + 1) = Walked(old, resize.i)
      BY <2>2, <2>5, WalkedStep
    <3>3. resize'.dict = resize.dict /\ resize'.new = resize.new /\ resize'.i = resize.i + 1
      BY <2>5
    <3>4. RoomInResize'
      BY <2>1, <2>3, <2>5, <3>1, <3>2, <3>3 DEF RoomInResize
    <3>5. QED
      BY <2>3, <3>3, <3>4 DEF RoomInv, LoadInv
  <2>6. ASSUME NEW j \in Slots(resize.new), ~Free(entry), Returns(resize.new, entry.key, j),
               UNCHANGED fault,
               resize' = [dict |-> resize.dict, i |-> resize.i + 1,
                          new |-> Put(resize.new, j, entry.key, entry.val)]
        PROVE  RoomInv'
    <3> DEFINE new == Put(resize.new, j, entry.key, entry.val)
    <3>1. entry.key \in Key /\ entry.val \in Value
      BY <2>2, <2>6, LiveEntry DEF Good
    <3>2. /\ Walked(old, resize.i + 1) = Walked(old, resize.i) \cup {<<entry.key, entry.val>>}
          /\ \A p \in Walked(old, resize.i) : p[1] # entry.key
      BY <2>2, <2>6, WalkedStep
    <3>3. /\ Contents(new) = Updated(Contents(resize.new), entry.key, entry.val)
          /\ ~Free(resize.new.elems[j]) =>
                <<entry.key, resize.new.elems[j].val>> \in Contents(resize.new)
      BY <2>2, <2>6, <3>1, PutContents
    <3>4. Contents(resize.new) = Walked(old, resize.i)
      BY <2>1 DEF RoomInResize
    <3>5. Contents(new) = Walked(old, resize.i + 1)
      BY <3>2, <3>3, <3>4 DEF Updated
    <3>6. Free(resize.new.elems[j])
      BY <3>2, <3>3, <3>4
    <3>7. new.cap = resize.new.cap /\ new.len = resize.new.len + 1
      BY <3>6 DEF Put
    <3>8. Cardinality(WalkedSlots(old, resize.i + 1)) =
            Cardinality(WalkedSlots(old, resize.i)) + 1
      <4>0. resize.i \in Live(old)
        BY <2>2, <2>6 DEF Live
      <4>1. WalkedSlots(old, resize.i + 1) = WalkedSlots(old, resize.i) \cup {resize.i}
        BY <2>4, <4>0 DEF WalkedSlots
      <4>2. resize.i \notin WalkedSlots(old, resize.i)
        BY <2>4 DEF WalkedSlots
      <4>3. QED
        BY <2>4, <4>1, <4>2, FS_AddElement
    <3>9. NoTombstone(new)
      BY <2>1, <2>2, <2>6, <3>1, PutNoTombstone DEF RoomInResize, Good
    <3>10. resize'.dict = resize.dict /\ resize'.new = new /\ resize'.i = resize.i + 1
      BY <2>6
    <3>11. RoomInResize'
      BY <2>1, <2>3, <2>6, <3>5, <3>7, <3>8, <3>9, <3>10 DEF RoomInResize
    <3>12. QED
      BY <2>3, <3>10, <3>11 DEF RoomInv, LoadInv
  <2>7. ~ScanFails(resize.new, entry.key)
    BY <2>1, <2>2, RoomEndsScan DEF RoomInResize
  <2>8. QED
    BY <1>5, <2>5, <2>6, <2>7 DEF ResizeSlot
<1>6. ASSUME ResizeDone PROVE RoomInv'
  <2>1. GoodResize /\ RoomInResize /\ resize # NoResize
    BY <1>6 DEF ResizeDone, DictInv, GoodTables, RoomInv
  <2>2. ~Overloaded(resize.new)
    BY <2>1, NewNotOverloaded
  <2>3. \A e \in Dict : ~Overloaded(table'[e])
    BY <1>0, <1>6, <2>1, <2>2 DEF ResizeDone, GoodResize, RoomInv, LoadInv
  <2>4. QED
    BY <1>6, <2>3 DEF ResizeDone, RoomInv, LoadInv
<1>7. ASSUME ImportSlot PROVE RoomInv'
  <2>1. /\ import \in [dst : Dict, src : Dict, i : Nat, next : Dict \cup {NULL},
                       base : SUBSET (Key \X Value)]
        /\ resize = NoResize /\ fault = "none"
        /\ import' = [import EXCEPT !.i = @ + 1]
    BY <1>7 DEF ImportSlot, DictInv, GoodOther
  <2> DEFINE entry == table[import.src].elems[import.i]
  <2>2. CASE UNCHANGED <<table, resize, fault>>
    BY <1>2, <2>1, <2>2
  <2>3. CASE ~Free(entry) /\ Store(import.dst, entry.key, entry.val)
    <3>1. import.i \in Slots(table[import.src]) /\ IsTable(table[import.src])
      BY <1>0, <1>7, <2>1 DEF ImportSlot, Good, IsTable, Slots
    <3>2. entry.key \in Key /\ entry.val \in Value /\ import.dst \in Dict
      BY <2>1, <2>3, <3>1, LiveEntry
    <3>3. import'.dst = import.dst
      BY <2>1
    <3>4. QED
      BY <2>1, <2>3, <3>2, <3>3, StoreKeepsRoom
  <2>4. QED
    BY <1>7, <2>2, <2>3 DEF ImportSlot
<1>8. CASE UNCHANGED vars
  BY <1>8 DEF vars, RoomInv, LoadInv, RoomInResize
<1>9. QED
  <2>1. ASSUME NEW d \in Dict, NEW k \in Key, DictionaryRef(d, k) PROVE RoomInv'
    BY <1>2, <2>1 DEF DictionaryRef, Idle
  <2>2. ASSUME NEW d \in Dict, NEW s \in Dict, DictionaryImport(d, s) PROVE RoomInv'
    BY <1>2, <2>2 DEF DictionaryImport, Idle
  <2>3. ASSUME ImportDone PROVE RoomInv'
    BY <1>2, <2>3 DEF ImportDone
  <2>4. QED
    BY <1>1, <1>3, <1>4, <1>5, <1>6, <1>7, <1>8, <2>1, <2>2, <2>3
       DEF Next, Loop, CopyDictionary, DictionaryUnion

\* Resizing always succeeds: it neither recurses nor fails, moves exactly the
\* entries of the old table, and leaves every table at most 70% full.
THEOREM Resizing == Spec => [](NewTableHasRoom /\ LoadInv)
<1>1. DictInv /\ RoomInv => NewTableHasRoom /\ LoadInv
  BY NewNotOverloaded DEF RoomInv, RoomInResize, NewTableHasRoom
<1>2. QED
  BY <1>1, DictInit, DictStep, RoomInit, RoomStep, PTL DEF Spec

\* A scan that fails has met no null slot; a table with room for entries then
\* holds tombstones in the slots that entries do not use.
Exhausted(t) ==
    /\ \A i \in Slots(t) : t.elems[i] # NULL
    /\ \E i \in Slots(t) : Free(t.elems[i])

LEMMA ScanFailsOnExhausted ==
    ASSUME NEW t, Good(t), ~Overloaded(t), NEW k, ScanFails(t, k)
    PROVE  Exhausted(t)
<1>1. \A i \in Slots(t) : t.elems[i] # NULL
  BY DEF ScanFails, Passes
<1>2. ~NoTombstone(t)
  BY RoomEndsScan
<1>3. QED
  BY <1>1, <1>2 DEF Exhausted, NoTombstone

\* Only a step that finds an exhausted table reports the failed scan, and it
\* leaves that table as it is.
LEMMA FaultStep ==
    DictInv /\ RoomInv /\ FaultNeedsTombstones /\ [Next]_vars => FaultNeedsTombstones'
<1> SUFFICES ASSUME DictInv, RoomInv, FaultNeedsTombstones, [Next]_vars
             PROVE  FaultNeedsTombstones'
  OBVIOUS
<1>0. \A e \in Dict : Good(table[e])
  BY DEF DictInv, GoodTables
<1>1. CASE fault' # "scan"
  BY <1>1 DEF FaultNeedsTombstones
<1>2. CASE UNCHANGED vars
  BY <1>2 DEF vars, FaultNeedsTombstones
<1>3. ASSUME NEW d \in Dict, NEW k, resize = NoResize,
             ScanFails(table[d], k), UNCHANGED table
      PROVE  FaultNeedsTombstones'
  <2>1. ~Overloaded(table[d])
    BY <1>3, NotNone DEF RoomInv, LoadInv
  <2>2. Exhausted(table[d])
    BY <1>0, <1>3, <2>1, ScanFailsOnExhausted
  <2>3. QED
    BY <1>3, <2>2 DEF Exhausted, FaultNeedsTombstones
<1>4. ASSUME NEW d \in Dict, NEW k, NEW v, resize = NoResize, fault = "none", Store(d, k, v)
      PROVE  FaultNeedsTombstones'
  <2>1. CASE UNCHANGED fault
    BY <1>1, <1>4, <2>1
  <2>2. CASE ScanFails(table[d], k) /\ UNCHANGED table
    BY <1>3, <1>4, <2>2
  <2>3. QED
    BY <1>4, <2>1, <2>2 DEF Store
<1>5. ASSUME NEW d \in Dict, NEW k \in Key, NEW v \in Value, DictionarySet(d, k, v)
      PROVE  FaultNeedsTombstones'
  BY <1>4, <1>5 DEF DictionarySet, Idle
<1>6. ASSUME NEW d \in Dict, NEW k \in Key, DictionaryRef(d, k)
      PROVE  FaultNeedsTombstones'
  BY <1>1, <1>3, <1>6 DEF DictionaryRef, Idle
<1>7. ASSUME NEW d \in Dict, NEW k \in Key, DictionaryRemove(d, k)
      PROVE  FaultNeedsTombstones'
  <2>1. CASE fault' \in {"remove", fault}
    BY <1>1, <1>7, <2>1 DEF DictionaryRemove, Idle
  <2>2. CASE ScanFails(table[d], k) /\ UNCHANGED table
    BY <1>3, <1>7, <2>2 DEF DictionaryRemove, Idle
  <2>3. QED
    BY <1>7, <2>1, <2>2 DEF DictionaryRemove
<1>8. ASSUME ResizeSlot PROVE FaultNeedsTombstones'
  <2>1. GoodResize /\ RoomInResize /\ resize # NoResize
    BY <1>8 DEF ResizeSlot, DictInv, GoodTables, RoomInv
  <2>2. \A k : ~ScanFails(resize.new, k)
    BY <2>1, NewNotOverloaded, RoomEndsScan DEF RoomInResize, GoodResize
  <2>3. UNCHANGED fault /\ fault = "none"
    BY <1>8, <2>2 DEF ResizeSlot
  <2>4. QED
    BY <1>1, <2>3
<1>9. ASSUME ImportSlot PROVE FaultNeedsTombstones'
  <2>1. import.dst \in Dict /\ resize = NoResize /\ fault = "none"
    BY <1>9 DEF ImportSlot, DictInv, GoodOther
  <2>2. CASE UNCHANGED fault
    BY <1>1, <2>1, <2>2
  <2>3. CASE Store(import.dst, table[import.src].elems[import.i].key,
                               table[import.src].elems[import.i].val)
    BY <1>4, <2>1, <2>3
  <2>4. QED
    BY <1>9, <2>2, <2>3 DEF ImportSlot
<1>10. QED
  <2>1. ASSUME NEW d \in Dict, NEW s \in Dict, DictionaryImport(d, s)
        PROVE  FaultNeedsTombstones'
    BY <1>1, <2>1 DEF DictionaryImport, Idle
  <2>2. ASSUME NEW d \in Dict, NEW s \in Dict, NEW n, StartCopy(d, s, n)
        PROVE  FaultNeedsTombstones'
    BY <1>1, <2>2 DEF StartCopy, Idle
  <2>3. ASSUME ImportDone \/ ResizeDone PROVE FaultNeedsTombstones'
    BY <1>1, <2>3 DEF ImportDone, ResizeDone
  <2>4. QED
    BY <1>2, <1>5, <1>6, <1>7, <1>8, <1>9, <2>1, <2>2, <2>3
       DEF Next, Loop, CopyDictionary, DictionaryUnion

\* The assertion of dict_get_slot fires only on a table whose last null slot
\* was used up by removed entries, never on one that is full of entries and
\* never while dict_resize fills its new table.
THEOREM Failing == Spec => []FaultNeedsTombstones
<1>1. Init => FaultNeedsTombstones
  BY DEF Init, FaultNeedsTombstones
<1>2. QED
  BY <1>1, DictInit, DictStep, RoomInit, RoomStep, FaultStep, PTL DEF Spec

-----------------------------------------------------------------------------
(* The dictionary implements the map.                                      *)

\* dictionary_set is the map's Set, or leaves the map alone when it fails.
LEMMA StoreIsSet ==
    ASSUME DictInv, NEW d \in Dict, NEW k \in Key, NEW v \in Value, Store(d, k, v),
           reply' = NULL
    PROVE  Map!Next
<1> DEFINE t == table[d]
<1>1. DOMAIN table = Dict /\ Good(t)
  BY DEF DictInv, GoodTables
<1>2. CASE UNCHANGED table
  BY <1>2 DEF Map!Next, Map!Quiet, contents
<1>3. ASSUME NEW i \in Slots(t), Returns(t, k, i),
             table' = [table EXCEPT ![d] = Put(t, i, k, v)]
      PROVE  Map!Next
  <2>1. Contents(table'[d]) = Map!Without(contents[d], k) \cup {<<k, v>>}
    <3>1. Contents(Put(t, i, k, v)) = Updated(Contents(t), k, v)
      BY <1>1, <1>3, PutUpdates
    <3>2. table'[d] = Put(t, i, k, v) /\ contents[d] = Contents(t)
      BY <1>1, <1>3 DEF contents
    <3>3. QED
      BY <3>1, <3>2 DEF Map!Without, Updated
  <2>2. \A e \in Dict \ {d} : table'[e] = table[e]
    BY <1>1, <1>3
  <2>3. contents' = [contents EXCEPT ![d] = Map!Without(@, k) \cup {<<k, v>>}]
    BY <2>1, <2>2 DEF contents
  <2>4. Map!Set(d, k, v)
    BY <2>3 DEF Map!Set
  <2>5. QED
    BY <2>4 DEF Map!Next
<1>4. QED
  BY <1>2, <1>3 DEF Store

\* Every step of the dictionaries is a step of the maps, or changes nothing
\* that the maps show.
LEMMA RefinementStep ==
    ASSUME DictInv, RoomInv, [Next]_vars
    PROVE  [Map!Next]_(Map!vars)
<1>0. DOMAIN table = Dict /\ \A e \in Dict : Good(table[e])
  BY DEF DictInv, GoodTables
<1>1. ASSUME NEW d \in Dict, NEW k \in Key, NEW v \in Value, DictionarySet(d, k, v)
      PROVE  Map!Next
  BY <1>1, StoreIsSet DEF DictionarySet
<1>2. ASSUME NEW d \in Dict, NEW k \in Key, DictionaryRef(d, k)
      PROVE  Map!Next
  <2>1. UNCHANGED contents
    BY <1>2 DEF DictionaryRef, contents
  <2>2. CASE reply' = NULL
    BY <2>1, <2>2 DEF Map!Next, Map!Quiet
  <2>3. ASSUME NEW i \in Slots(table[d]), Returns(table[d], k, i),
               reply' = [dict |-> d, key |-> k,
                         val |-> IF Free(table[d].elems[i]) THEN NULL
                                 ELSE table[d].elems[i].val]
        PROVE  Map!Next
    <3>1. contents[d] = Contents(table[d]) /\ Good(table[d])
      BY <1>0 DEF contents
    <3>2. CASE Free(table[d].elems[i])
      <4>1. \A v \in Value : \A p \in Contents(table[d]) : p[1] # k
        BY <2>3, <3>1, <3>2, PutContents
      <4>2. \A p \in Contents(table[d]) : p[1] # k
        BY <1>0, <4>1, ContentsType DEF Good
      <4>3. Map!Ref(d, k)
        BY <2>1, <2>3, <3>1, <3>2, <4>2 DEF Map!Ref
      <4>4. QED
        BY <4>3 DEF Map!Next
    <3>3. CASE ~Free(table[d].elems[i])
      <4>1. table[d].elems[i].val \in Value
        BY <2>3, <3>1, <3>3, LiveEntry DEF Good
      <4>2. <<k, table[d].elems[i].val>> \in Contents(table[d])
        BY <2>3, <3>1, <3>3, <4>1, PutContents
      <4>3. Map!Ref(d, k)
        BY <2>1, <2>3, <3>1, <3>3, <4>1, <4>2, NullAssumption DEF Map!Ref
      <4>4. QED
        BY <4>3 DEF Map!Next
    <3>4. QED
      BY <3>2, <3>3
  <2>4. QED
    BY <1>2, <2>2, <2>3 DEF DictionaryRef
<1>3. ASSUME NEW d \in Dict, NEW k \in Key, DictionaryRemove(d, k)
      PROVE  Map!Next
  <2>1. reply' = NULL
    BY <1>3 DEF DictionaryRemove
  <2>2. CASE UNCHANGED table
    BY <2>1, <2>2 DEF Map!Next, Map!Quiet, contents
  <2>3. ASSUME NEW i \in Slots(table[d]), Returns(table[d], k, i), ~Free(table[d].elems[i]),
               table' = [table EXCEPT ![d] =
                           [cap |-> table[d].cap, len |-> table[d].len - 1,
                            elems |-> [table[d].elems EXCEPT ![i] = Tombstone]]]
        PROVE  Map!Next
    <3>1. table[d].elems[i].key = k
      BY <2>3, OccupiedMeansFound
    <3>2. Contents(table'[d]) = Map!Without(contents[d], k)
      <4>1. Contents(table'[d]) = {p \in Contents(table[d]) : p[1] # table[d].elems[i].key}
        BY <1>0, <2>3, TombstoneContents
      <4>2. QED
        BY <3>1, <4>1 DEF Map!Without, contents
    <3>3. \A e \in Dict \ {d} : table'[e] = table[e]
      BY <1>0, <2>3
    <3>4. contents' = [contents EXCEPT ![d] = Map!Without(@, k)]
      BY <3>2, <3>3 DEF contents
    <3>5. QED
      BY <2>1, <3>4 DEF Map!Remove, Map!Next
  <2>4. QED
    BY <1>3, <2>2, <2>3 DEF DictionaryRemove
<1>4. ASSUME NEW d \in Dict, NEW s \in Dict, NEW n, StartCopy(d, s, n)
      PROVE  Map!Next
  <2>1. Contents(Empty(InitCap)) = {}
    <3>1. Live(Empty(InitCap)) = {}
      BY EmptyIsGood, ConstantsAssumption
    <3>2. QED
      BY <3>1 DEF Contents
  <2>2. contents' = [contents EXCEPT ![d] = {}]
    BY <1>0, <1>4, <2>1 DEF StartCopy, contents
  <2>3. QED
    BY <1>4, <2>2 DEF StartCopy, Map!Fresh, Map!Next
<1>5. ASSUME ResizeDone PROVE Map!Next
  <2>1. GoodResize /\ RoomInResize
    BY <1>5 DEF ResizeDone, DictInv, GoodTables, RoomInv
  <2>2. Contents(resize.new) = Contents(table[resize.dict])
    <3>1. IsTable(table[resize.dict])
      BY <1>0, <2>1 DEF GoodResize, Good
    <3>2. resize.i = table[resize.dict].cap
      BY <1>5 DEF ResizeDone
    <3>3. QED
      BY <2>1, <3>1, <3>2, WalkedAll DEF RoomInResize
  <2>3. UNCHANGED contents
    BY <1>0, <1>5, <2>1, <2>2 DEF ResizeDone, GoodResize, contents
  <2>4. QED
    BY <1>5, <2>3 DEF ResizeDone, Map!Quiet, Map!Next
<1>6. ASSUME ImportSlot PROVE Map!Next
  <2> DEFINE entry == table[import.src].elems[import.i]
  <2>1. reply' = NULL
    BY <1>6 DEF ImportSlot
  <2>2. CASE UNCHANGED table
    BY <2>1, <2>2 DEF Map!Next, Map!Quiet, contents
  <2>3. CASE ~Free(entry) /\ Store(import.dst, entry.key, entry.val)
    <3>1. import \in [dst : Dict, src : Dict, i : Nat, next : Dict \cup {NULL},
                      base : SUBSET (Key \X Value)]
      BY <1>6 DEF ImportSlot, DictInv, GoodOther
    <3>2. import.i \in Slots(table[import.src]) /\ IsTable(table[import.src])
      BY <1>0, <1>6, <3>1 DEF ImportSlot, Good, IsTable, Slots
    <3>3. entry.key \in Key /\ entry.val \in Value /\ import.dst \in Dict
      BY <2>3, <3>1, <3>2, LiveEntry
    <3>4. QED
      BY <2>1, <2>3, <3>3, StoreIsSet
  <2>4. QED
    BY <1>6, <2>2, <2>3 DEF ImportSlot
<1>7. ASSUME UNCHANGED table, reply' = NULL PROVE Map!Next
  BY <1>7 DEF Map!Next, Map!Quiet, contents
<1>8. CASE UNCHANGED vars
  BY <1>8 DEF vars, Map!vars, contents
<1>9. QED
  <2>1. ASSUME NEW d \in Dict, NEW s \in Dict, DictionaryImport(d, s) PROVE Map!Next
    BY <1>7, <2>1 DEF DictionaryImport
  <2>2. ASSUME ResizeSlot \/ ImportDone PROVE Map!Next
    BY <1>7, <2>2 DEF ResizeSlot, ImportDone
  <2>3. QED
    BY <1>1, <1>2, <1>3, <1>4, <1>5, <1>6, <1>8, <2>1, <2>2
       DEF Next, Loop, CopyDictionary, DictionaryUnion

\* The hash table implements the map: whatever the hash function, lookups,
\* removals, copies and unions answer as those of a finite map would.
THEOREM Refinement == Spec => MapSpec
<1>1. Init => Map!Init
  <2>1. Live(Empty(InitCap)) = {}
    BY EmptyIsGood, ConstantsAssumption
  <2>2. Contents(Empty(InitCap)) = {}
    BY <2>1 DEF Contents
  <2>3. QED
    BY <2>2 DEF Init, Map!Init, contents
<1>2. DictInv /\ RoomInv /\ [Next]_vars => [Map!Next]_(Map!vars)
  BY RefinementStep
<1>3. QED
  BY <1>1, <1>2, DictInit, DictStep, RoomInit, RoomStep, PTL DEF Spec, MapSpec, Map!Spec

-----------------------------------------------------------------------------
(* Copies, imports and unions.                                             *)

LEMMA OverrideFacts ==
    ASSUME NEW m, NEW n, NEW k, NEW v, \A p \in n : p[1] # k
    PROVE  Updated(Override(m, n), k, v) = Override(m, n \cup {<<k, v>>})
<1> DEFINE l == Updated(Override(m, n), k, v)
           r == Override(m, n \cup {<<k, v>>})
<1>1. \A p : p \in l <=>
        \/ p = <<k, v>>
        \/ p[1] # k /\ p \in n
        \/ p[1] # k /\ p \in m /\ \A q \in n : q[1] # p[1]
  BY DEF Override, Updated
<1>2. <<k, v>>[1] = k
  OBVIOUS
<1>3. \A p : p \in r <=>
        \/ p = <<k, v>>
        \/ p \in n
        \/ p \in m /\ p[1] # k /\ \A q \in n : q[1] # p[1]
  BY <1>2 DEF Override
<1>4. \A p : p \in l <=> p \in r
  BY <1>1, <1>3
<1>5. QED
  BY <1>4

LEMMA OverrideNothing == \A m : Override(m, {}) = m
BY DEF Override

\* A loop that begins has walked nothing.
LEMMA ImportBegins ==
    ASSUME DictInv', import' # NoImport, import'.i = 0, import'.dst \in Dict,
           import'.src \in Dict, import'.base = Contents(table'[import'.dst])
    PROVE  ImportSoFar'
<1>1. IsTable(table'[import'.src])
  BY DEF DictInv, GoodTables, Good
<1>2. Walked(table'[import'.src], 0) = {}
  BY <1>1, WalkedAll
<1>3. QED
  BY <1>2, OverrideNothing DEF ImportSoFar

LEMMA ImportStep ==
    ASSUME DictInv, RoomInv, ImportSoFar, [Next]_vars
    PROVE  ImportSoFar'
<1>0. DOMAIN table = Dict /\ \A e \in Dict : Good(table[e])
  BY DEF DictInv, GoodTables
<1>1. DictInv'
  BY DictStep
<1>2. CASE import = NoImport /\ UNCHANGED import
  BY <1>2 DEF ImportSoFar
<1>3. ASSUME NEW d \in Dict, NEW s \in Dict, DictionaryImport(d, s) PROVE ImportSoFar'
  <2>1. CASE import' = NoImport
    BY <2>1 DEF ImportSoFar
  <2>2. CASE import' # NoImport
    BY <1>1, <1>3, <2>2, ImportBegins DEF DictionaryImport
  <2>3. QED
    BY <2>1, <2>2
<1>4. ASSUME NEW d \in Dict, NEW s \in Dict, NEW n, StartCopy(d, s, n) PROVE ImportSoFar'
  <2>1. Live(Empty(InitCap)) = {}
    BY EmptyIsGood, ConstantsAssumption
  <2>2. Contents(Empty(InitCap)) = {}
    BY <2>1 DEF Contents
  <2>3. table'[d] = Empty(InitCap)
    BY <1>0, <1>4 DEF StartCopy
  <2>4. CASE import' = NoImport
    BY <2>4 DEF ImportSoFar
  <2>5. CASE import' # NoImport
    BY <1>1, <1>4, <2>2, <2>3, <2>5, ImportBegins DEF StartCopy
  <2>6. QED
    BY <2>4, <2>5
<1>5. ASSUME ResizeDone PROVE ImportSoFar'
  <2>1. GoodResize /\ RoomInResize /\ UNCHANGED <<import, fault>>
    BY <1>5 DEF ResizeDone, DictInv, GoodTables, RoomInv
  <2>2. SUFFICES ASSUME import # NoImport, import.src # import.dst PROVE ImportSoFar'
    BY <2>1 DEF ImportSoFar
  <2>3. import.src \in Dict /\ import.dst \in Dict /\ resize.dict = import.dst
    BY <2>1, <2>2 DEF RoomInResize, DictInv, GoodOther
  <2>4. Contents(resize.new) = Contents(table[resize.dict])
    <3>1. IsTable(table[resize.dict])
      BY <1>0, <2>3 DEF Good
    <3>2. resize.i = table[resize.dict].cap
      BY <1>5 DEF ResizeDone
    <3>3. QED
      BY <2>1, <3>1, <3>2, WalkedAll DEF RoomInResize
  <2>5. table'[import.src] = table[import.src] /\ table'[import.dst] = resize.new
    BY <1>0, <1>5, <2>2, <2>3 DEF ResizeDone
  <2>6. QED
    BY <2>1, <2>2, <2>3, <2>4, <2>5 DEF ImportSoFar
<1>6. ASSUME ImportSlot PROVE ImportSoFar'
  <2> DEFINE src == table[import.src]
             entry == src.elems[import.i]
  <2>1. /\ import \in [dst : Dict, src : Dict, i : Nat, next : Dict \cup {NULL},
                       base : SUBSET (Key \X Value)]
        /\ import # NoImport
    BY <1>6 DEF ImportSlot, DictInv, GoodOther
  <2>2. /\ import'.dst = import.dst /\ import'.src = import.src
        /\ import'.base = import.base /\ import'.i = import.i + 1
    BY <1>6, <2>1 DEF ImportSlot
  <2>3. SUFFICES ASSUME import.src # import.dst, fault' = "none"
                 PROVE  Contents(table'[import.dst]) =
                          Override(import.base, Walked(table'[import.src], import.i + 1))
    BY <2>2 DEF ImportSoFar
  <2>4. import.i \in Slots(src) /\ Good(src) /\ Good(table[import.dst])
    BY <1>0, <1>6, <2>1 DEF ImportSlot, Good, IsTable, Slots
  <2>5. Contents(table[import.dst]) = Override(import.base, Walked(src, import.i))
    BY <1>6, <2>1, <2>3 DEF ImportSoFar, ImportSlot
  <2>6. CASE Free(entry) /\ UNCHANGED table
    BY <2>4, <2>5, <2>6, WalkedStep
  <2>7. CASE ~Free(entry) /\ Store(import.dst, entry.key, entry.val)
    <3>1. /\ Walked(src, import.i + 1) = Walked(src, import.i) \cup {<<entry.key, entry.val>>}
          /\ \A p \in Walked(src, import.i) : p[1] # entry.key
      BY <2>4, <2>7, WalkedStep
    <3>2. entry.key \in Key /\ entry.val \in Value
      BY <2>4, <2>7, LiveEntry DEF Good
    <3>3. ASSUME NEW i \in Slots(table[import.dst]),
                 Returns(table[import.dst], entry.key, i),
                 table' = [table EXCEPT ![import.dst] =
                             Put(table[import.dst], i, entry.key, entry.val)]
          PROVE  Contents(table'[import.dst]) =
                   Override(import.base, Walked(table'[import.src], import.i + 1))
      <4>1. Contents(Put(table[import.dst], i, entry.key, entry.val)) =
              Updated(Contents(table[import.dst]), entry.key, entry.val)
        BY <2>4, <3>2, <3>3, PutUpdates
      <4>2. /\ table'[import.dst] = Put(table[import.dst], i, entry.key, entry.val)
            /\ table'[import.src] = src
        BY <1>0, <2>1, <2>3, <3>3
      <4>3. Updated(Override(import.base, Walked(src, import.i)), entry.key, entry.val) =
              Override(import.base, Walked(src, import.i) \cup {<<entry.key, entry.val>>})
        BY <3>1, OverrideFacts
      <4>4. QED
        BY <2>5, <3>1, <4>1, <4>2, <4>3
    <3>4. QED
      BY <2>3, <2>7, <3>3 DEF Store
  <2>8. QED
    BY <1>6, <2>6, <2>7 DEF ImportSlot
<1>7. ASSUME ImportDone PROVE ImportSoFar'
  <2>1. import \in [dst : Dict, src : Dict, i : Nat, next : Dict \cup {NULL},
                    base : SUBSET (Key \X Value)]
    BY <1>7 DEF ImportDone, DictInv, GoodOther
  <2>2. CASE import' = NoImport
    BY <2>2 DEF ImportSoFar
  <2>3. CASE import' # NoImport
    BY <1>1, <1>7, <2>1, <2>3, ImportBegins DEF ImportDone
  <2>4. QED
    BY <2>2, <2>3
<1>8. CASE UNCHANGED <<table, import, fault>>
  BY <1>8 DEF ImportSoFar
<1>9. ASSUME ResizeSlot PROVE ImportSoFar'
  BY <1>9 DEF ResizeSlot, ImportSoFar
<1>10. QED
  <2>1. ASSUME NEW d \in Dict, NEW k \in Key,
               \/ DictionaryRef(d, k)
               \/ DictionaryRemove(d, k)
               \/ \E v \in Value : DictionarySet(d, k, v)
        PROVE  ImportSoFar'
    BY <1>2, <2>1 DEF DictionaryRef, DictionaryRemove, DictionarySet, Idle
  <2>2. QED
    BY <1>3, <1>4, <1>5, <1>6, <1>7, <1>8, <1>9, <2>1
       DEF Next, Loop, CopyDictionary, DictionaryUnion, vars

\* Copies are complete and unions favour their second argument, also when the
\* destination has to be resized on the way.
THEOREM Importing == Spec => []ImportSoFar
<1>1. Init => ImportSoFar
  BY DEF Init, ImportSoFar
<1>2. DictInv /\ RoomInv /\ ImportSoFar /\ [Next]_vars => ImportSoFar'
  BY ImportStep
<1>3. QED
  BY <1>1, <1>2, DictInit, DictStep, RoomInit, RoomStep, PTL DEF Spec
=============================================================================
