----------------------------- MODULE KVArrayProofs -----------------------------
(***************************************************************************)
(* Proofs about the array engine, for every set of keys, values and        *)
(* timestamps and every table size.                                        *)
(***************************************************************************)
EXTENDS KVArray, TLAPS

\* A value is lost only when an allocation fails.
ValuesPresent == ~degraded => \A i \in Used : table[i].value # Null

\* The inductive invariant.  UniqueKeys needs ValuesPresent, because SET takes
\* a key whose value is NULL for an absent one, and NoHoles, because SET
\* increments total even when it fills a hole.
Inv ==
    /\ TypeOK
    /\ NoHoles
    /\ ValuesPresent
    /\ UniqueKeys

USE SizeAssumption, TimeAssumption, KeyAssumption, ValueAssumption

-------------------------------------------------------------------------------
\* The tables of the initial state and after any command have the table's type.
LEMMA InitInv == Init => Inv
<1> SUFFICES ASSUME Init PROVE Inv
  OBVIOUS
<1>1. up \in BOOLEAN /\ degraded \in BOOLEAN
  BY Zenon DEF Init
<1>2. Empty \in Item /\ table = [i \in 0 .. Size - 1 |-> Empty] /\ total \in 0 .. Size
  BY DEF Init, Item, Empty
<1>3. Used = {}
  BY DEF Init, Used
<1>4. TypeOK
  BY <1>1, <1>2 DEF TypeOK
<1> QED BY <1>3, <1>4 DEF Inv, NoHoles, ValuesPresent, UniqueKeys

\* With no holes, SET appends.
LEMMA FreeSlotIsTotal ==
  ASSUME TypeOK, NoHoles, NEW i, FreeSlot(i)
  PROVE  i = total
  BY DEF TypeOK, NoHoles, FreeSlot, Used

LEMMA SetInv ==
  ASSUME Inv, NEW k \in Key, NEW v \in Value, NEW t \in Time, Set(k, v, t)
  PROVE  Inv'
<1> DEFINE item == [key |-> k, value |-> v, timestamp |-> t]
<1>1. CASE UNCHANGED <<table, total>>
  BY <1>1 DEF Inv, TypeOK, NoHoles, ValuesPresent, UniqueKeys, Used, Set
<1>2. CASE /\ total < Size
           /\ GetIsNull(k)
           /\ \E i \in 0 .. total : FreeSlot(i) /\ table' = [table EXCEPT ![i] = item]
           /\ total' = total + 1
           /\ UNCHANGED <<up, degraded>>
  <2>1. table' = [table EXCEPT ![total] = item]
    BY <1>2, FreeSlotIsTotal DEF Inv
  <2>2. total \in 0 .. Size - 1 /\ total' = total + 1
    BY <1>2 DEF Inv, TypeOK
  <2>3. item \in Item /\ item.key # Null /\ item.value # Null
    BY DEF Item
  <2>4. TypeOK'
    BY <1>2, <2>1, <2>2, <2>3 DEF Inv, TypeOK
  <2>5. table'[total] = item /\ \A i \in Used : table'[i] = table[i]
    BY <2>1, <2>2 DEF Inv, TypeOK, Used
  <2>6. Used' = Used \cup {total} /\ total \notin Used
    BY <2>2 DEF Used
  <2>7. NoHoles' /\ ValuesPresent'
    BY <1>2, <2>3, <2>5, <2>6 DEF Inv, NoHoles, ValuesPresent
  <2>8. ASSUME ~degraded PROVE UniqueKeys'
    <3>1. \A i \in Used : table[i].value # Null
      BY <2>8 DEF Inv, ValuesPresent
    <3>2. Absent(k)
      BY <1>2, <3>1 DEF GetIsNull
    <3>3. \A i \in Used : table'[i].key = table[i].key /\ table[i].key # k
      BY <2>5, <3>2 DEF Absent
    <3>4. SUFFICES ASSUME NEW i \in Used', NEW j \in Used', table'[i].key = table'[j].key
                   PROVE  i = j
      BY DEF UniqueKeys
    <3>5. CASE i \in Used /\ j \in Used
      BY <2>8, <3>3, <3>4, <3>5 DEF Inv, UniqueKeys
    <3>6. CASE i = total \/ j = total
      BY <2>5, <2>6, <3>3, <3>4, <3>6
    <3> QED BY <2>6, <3>5, <3>6
  <2>9. UniqueKeys'
    BY <1>2, <2>8 DEF UniqueKeys
  <2> QED BY <2>4, <2>7, <2>9 DEF Inv
<1> QED BY <1>1, <1>2 DEF Set

LEMMA DelInv ==
  ASSUME Inv, NEW k \in Key, Del(k)
  PROVE  Inv'
<1>1. CASE UNCHANGED <<table, total>>
  BY <1>1 DEF Inv, TypeOK, NoHoles, ValuesPresent, UniqueKeys, Used, Del
<1>2. ASSUME NEW d \in Used,
             table' = [table EXCEPT ![d] = table[total - 1], ![total - 1] = Empty],
             total' = total - 1,
             UNCHANGED <<up, degraded>>
      PROVE  Inv'
  <2>1. total \in 1 .. Size /\ d \in 0 .. total - 1
    BY <1>2 DEF Inv, TypeOK, Used
  <2>2. TypeOK'
    BY <1>2, <2>1 DEF Inv, TypeOK, Item, Empty, Del
  <2>3. Used' = 0 .. total - 2 /\ Used' \subseteq Used /\ total - 1 \in Used
    BY <1>2, <2>1 DEF Used
  <2> DEFINE old(i) == IF i = d THEN total - 1 ELSE i
  <2>4. \A i \in Used' : old(i) \in Used /\ table'[i] = table[old(i)]
    BY <1>2, <2>1, <2>3 DEF Inv, TypeOK, Used
  <2>5. \A i, j \in Used' : old(i) = old(j) => i = j
    BY <2>1, <2>3
  <2>6. NoHoles' /\ ValuesPresent'
    BY <1>2, <2>4 DEF Inv, NoHoles, ValuesPresent
  <2>7. UniqueKeys'
    <3>1. SUFFICES ASSUME ~degraded, NEW i \in Used', NEW j \in Used', table'[i].key = table'[j].key
                   PROVE  i = j
      BY <1>2 DEF UniqueKeys
    <3>2. old(i) = old(j)
      BY <2>4, <3>1 DEF Inv, UniqueKeys
    <3> QED BY <2>5, <3>2
  <2> QED BY <2>2, <2>6, <2>7 DEF Inv
<1> QED BY <1>1, <1>2 DEF Del

LEMMA ModInv ==
  ASSUME Inv, NEW k \in Key, NEW v \in Value, NEW t \in Time, Mod(k, v, t)
  PROVE  Inv'
<1>1. CASE UNCHANGED table
  BY <1>1 DEF Inv, TypeOK, NoHoles, ValuesPresent, UniqueKeys, Used, Mod
<1>2. ASSUME NEW i \in Used, NEW w \in Value \cup {Null}, NEW s \in Time,
             degraded' \in BOOLEAN, degraded => degraded', ~degraded' => w # Null,
             table[i].key = k,
             table' = [table EXCEPT ![i] = [key |-> k, value |-> w, timestamp |-> s]]
      PROVE  Inv'
  <2>1. total' = total /\ up' = up /\ Used' = Used
    BY DEF Mod, Used
  <2>2. i \in 0 .. Size - 1 /\ Used \subseteq 0 .. Size - 1
    BY <1>2 DEF Inv, TypeOK, Used
  <2>3. [key |-> k, value |-> w, timestamp |-> s] \in Item
    BY DEF Item
  <2>4. TypeOK'
    BY <1>2, <2>1, <2>2, <2>3 DEF Inv, TypeOK
  <2>5. \A j \in Used : /\ table'[j].key = table[j].key
                        /\ table'[j].value = (IF j = i THEN w ELSE table[j].value)
    BY <1>2, <2>2 DEF Inv, TypeOK
  <2>6. NoHoles' /\ UniqueKeys'
    BY <1>2, <2>1, <2>5 DEF Inv, NoHoles, UniqueKeys
  <2>7. ValuesPresent'
    BY <1>2, <2>1, <2>5 DEF Inv, ValuesPresent
  <2> QED BY <2>4, <2>6, <2>7 DEF Inv
<1>3. \A i \in Used : table[i].timestamp \in Time
  BY DEF Inv, TypeOK, Item, Used
<1>4. ASSUME NEW i \in Used, table[i].key = k, UNCHANGED degraded,
             table' = [table EXCEPT ![i] = [key |-> k, value |-> v, timestamp |-> t]]
      PROVE  Inv'
  <2>1. degraded' \in BOOLEAN /\ (degraded => degraded')
    BY <1>4, Zenon DEF Inv, TypeOK
  <2> QED BY <1>2, <1>4, <2>1
<1>5. ASSUME NEW i \in Used, table[i].key = k, degraded' = TRUE,
             table' = [table EXCEPT ![i] =
                         [key |-> k, value |-> Null, timestamp |-> table[i].timestamp]]
      PROVE  Inv'
  <2>1. degraded' \in BOOLEAN /\ degraded'
    BY <1>5, Zenon
  <2> QED BY <1>2, <1>3, <1>5, <2>1
<1> QED BY <1>1, <1>4, <1>5 DEF Mod, FindIndex

LEMMA NextInv == Inv /\ [Next]_vars => Inv'
<1> SUFFICES ASSUME Inv, [Next]_vars PROVE Inv'
  OBVIOUS
<1>1. ASSUME NEW k \in Key, NEW v \in Value, NEW t \in Time, Set(k, v, t) \/ Mod(k, v, t)
      PROVE  Inv'
  BY <1>1, SetInv, ModInv
<1>2. ASSUME NEW k \in Key, Del(k) PROVE Inv'
  BY <1>2, DelInv
<1>3. CASE /\ UNCHANGED <<table, total>>
           /\ up' \in BOOLEAN /\ degraded' \in BOOLEAN
           /\ degraded => degraded'
  BY <1>3 DEF Inv, TypeOK, NoHoles, ValuesPresent, UniqueKeys, Used
<1>4. ASSUME NEW k \in Key, Get(k) \/ Exist(k) PROVE Inv'
  BY <1>3, <1>4 DEF Get, Exist, Inv, TypeOK
<1>5. ASSUME NEW a \in Key, NEW b \in Key, RangeQuery(a, b) PROVE Inv'
  BY <1>3, <1>5 DEF RangeQuery, Inv, TypeOK
<1>6. CASE GetAll
  BY <1>3, <1>6 DEF GetAll, Inv, TypeOK
<1>7. CASE UNCHANGED vars
  BY <1>3, <1>7 DEF vars, Inv, TypeOK
<1> QED BY <1>1, <1>2, <1>4, <1>5, <1>6, <1>7 DEF Next

THEOREM Invariance == Spec => []Inv
  BY InitInv, NextInv, PTL DEF Spec

\* No command writes a slot outside the table, whatever its size.
THEOREM TypeCorrect == Spec => []TypeOK
<1>1. Inv => TypeOK BY DEF Inv
<1> QED BY <1>1, Invariance, PTL

\* The slots in use stay contiguous under every sequence of commands, failed
\* allocations included.
THEOREM Contiguous == Spec => []NoHoles
<1>1. Inv => NoHoles BY DEF Inv
<1> QED BY <1>1, Invariance, PTL

\* Until an allocation fails, no key is ever stored twice.
THEOREM KeysAreUnique == Spec => []UniqueKeys
<1>1. Inv => UniqueKeys BY DEF Inv
<1> QED BY <1>1, Invariance, PTL

-------------------------------------------------------------------------------
\* What KeyLossOnlyByDel says of one step and one key.
Kept(k) ==
    ~Absent(k) /\ Absent(k)' =>
        reply'.op = "DEL" /\ reply'.arg = k /\ reply'.result = "SUCCESS"

\* A step that leaves the keys of the slots in use where they are loses none.
LEMMA SameSlots ==
  ASSUME NEW k, Used \subseteq Used', \A i \in Used : table'[i].key = table[i].key
  PROVE  Kept(k)
  BY DEF Kept, Absent

LEMMA SetKeeps ==
  ASSUME Inv, NEW x \in Key, NEW v \in Value, NEW t \in Time, Set(x, v, t), NEW k \in Key
  PROVE  Kept(k)
<1>1. CASE UNCHANGED <<table, total>>
  BY <1>1, SameSlots DEF Used
<1>2. CASE /\ total < Size
           /\ \E i \in 0 .. total :
                 /\ FreeSlot(i)
                 /\ table' = [table EXCEPT ![i] = [key |-> x, value |-> v, timestamp |-> t]]
           /\ total' = total + 1
  <2>1. PICK i \in 0 .. total :
           /\ FreeSlot(i)
           /\ table' = [table EXCEPT ![i] = [key |-> x, value |-> v, timestamp |-> t]]
    BY <1>2
  <2>2. i = total /\ total' = total + 1 /\ total \in 0 .. Size - 1
    BY <1>2, <2>1, FreeSlotIsTotal DEF Inv, TypeOK
  <2>3. Used \subseteq Used' /\ total \notin Used
    BY <2>2 DEF Used
  <2>4. \A j \in Used : table'[j].key = table[j].key
    BY <2>1, <2>2, <2>3 DEF Inv, TypeOK, Used
  <2> QED BY <2>3, <2>4, SameSlots
<1> QED BY <1>1, <1>2 DEF Set

LEMMA ModKeeps ==
  ASSUME Inv, NEW x \in Key, NEW v \in Value, NEW t \in Time, Mod(x, v, t), NEW k \in Key
  PROVE  Kept(k)
<1>1. Used' = Used
  BY DEF Mod, Used
<1>2. \A w, s : \A i \in Used :
         /\ FindIndex(i, x)
         /\ table' = [table EXCEPT ![i] = [key |-> x, value |-> w, timestamp |-> s]]
         => \A j \in Used : table'[j].key = table[j].key
  BY DEF FindIndex, Inv, TypeOK, Used
<1>3. \A i \in Used : table'[i].key = table[i].key
  BY <1>2 DEF Mod
<1> QED BY <1>1, <1>3, SameSlots

\* DEL of x: the item of another key keeps its slot or moves to the freed one.
LEMMA DelKeeps ==
  ASSUME Inv, NEW x \in Key, Del(x), NEW k \in Key
  PROVE  Kept(k)
<1>1. CASE UNCHANGED <<table, total>>
  BY <1>1, SameSlots DEF Used
<1>2. ASSUME NEW d \in Used, FindIndex(d, x),
             table' = [table EXCEPT ![d] = table[total - 1], ![total - 1] = Empty],
             total' = total - 1,
             Answer("DEL", x, DelResponse(0))
      PROVE  Kept(k)
  <2>1. total \in 1 .. Size /\ d \in 0 .. total - 1 /\ table[d].key = x
    BY <1>2 DEF Inv, TypeOK, Used, FindIndex
  <2>2. CASE k = x
    <3>1. reply' = [op |-> "DEL", arg |-> x, result |-> "SUCCESS"]
      BY <1>2 DEF Answer, DelResponse
    <3> QED BY <2>2, <3>1 DEF Kept
  <2>3. CASE k # x
    <3>1. SUFFICES ASSUME NEW i \in Used, table[i].key = k
                   PROVE  \E j \in Used' : table'[j].key = k
      BY DEF Kept, Absent
    <3>2. i # d
      BY <2>1, <2>3, <3>1
    <3>3. CASE i = total - 1
      <4>1. d \in Used' /\ table'[d] = table[total - 1]
        BY <1>2, <2>1, <3>2, <3>3 DEF Inv, TypeOK, Used
      <4> QED BY <3>1, <3>3, <4>1
    <3>4. CASE i # total - 1
      <4>1. i \in Used' /\ table'[i] = table[i]
        BY <1>2, <2>1, <3>2, <3>4 DEF Inv, TypeOK, Used
      <4> QED BY <3>1, <4>1
    <3> QED BY <3>3, <3>4
  <2> QED BY <2>2, <2>3
<1> QED BY <1>1, <1>2 DEF Del

LEMMA NextKeeps ==
  ASSUME Inv, [Next]_vars, NEW k \in Key
  PROVE  Kept(k)
<1>1. ASSUME NEW x \in Key, NEW v \in Value, NEW t \in Time, Set(x, v, t) \/ Mod(x, v, t)
      PROVE  Kept(k)
  BY <1>1, SetKeeps, ModKeeps
<1>2. ASSUME NEW x \in Key, Del(x) PROVE Kept(k)
  BY <1>2, DelKeeps
<1>3. CASE UNCHANGED <<table, total>>
  BY <1>3, SameSlots DEF Used
<1>4. ASSUME NEW x \in Key, Get(x) \/ Exist(x) PROVE Kept(k)
  BY <1>3, <1>4 DEF Get, Exist
<1>5. ASSUME NEW a \in Key, NEW b \in Key, RangeQuery(a, b) PROVE Kept(k)
  BY <1>3, <1>5 DEF RangeQuery
<1>6. CASE GetAll
  BY <1>3, <1>6 DEF GetAll
<1>7. CASE UNCHANGED vars
  BY <1>3, <1>7 DEF vars
<1> QED BY <1>1, <1>2, <1>4, <1>5, <1>6, <1>7 DEF Next

\* A stored key is lost to a DEL of that key only, whatever the table size and
\* whichever allocations fail: DEL's move of the last item drops no other key.
THEOREM KeysAreKept == Spec => KeyLossOnlyByDel
<1>1. Inv /\ [Next]_vars => [\A k \in Key : Kept(k)]_vars
  BY NextKeeps
<1> QED BY <1>1, Invariance, PTL DEF Spec, KeyLossOnlyByDel, Kept

-------------------------------------------------------------------------------
(***************************************************************************)
(* The array engine implements the abstract store.                         *)
(***************************************************************************)

\* The map that the first n slots of a table stand for.
Stamped(item) == [value |-> item.value, timestamp |-> item.timestamp]
KeysOf(t, n) == {t[i].key : i \in 0 .. n - 1}
MapOf(t, n) == [k \in KeysOf(t, n) |-> Stamped(t[CHOOSE i \in 0 .. n - 1 : t[i].key = k])]
Distinct(t, n) == \A i, j \in 0 .. n - 1 : t[i].key = t[j].key => i = j

LEMMA StoreIs ==
    /\ StoreMap = MapOf(table, total)
    /\ StoreMap' = MapOf(table', total')
BY DEF StoreMap, MapOf, KeysOf, Stamped, Used

\* An item that is stored is what the map has for its key.
LEMMA MapAt ==
    ASSUME NEW t, NEW n, Distinct(t, n), NEW i \in 0 .. n - 1
    PROVE  t[i].key \in KeysOf(t, n) /\ MapOf(t, n)[t[i].key] = Stamped(t[i])
<1>1. t[i].key \in KeysOf(t, n)
  BY DEF KeysOf
<1> DEFINE j == CHOOSE j \in 0 .. n - 1 : t[j].key = t[i].key
<1>2. j \in 0 .. n - 1 /\ t[j].key = t[i].key
  OBVIOUS
<1>3. j = i
  BY <1>2 DEF Distinct
<1>4. MapOf(t, n)[t[i].key] = Stamped(t[j])
  BY <1>1 DEF MapOf
<1> QED
  BY <1>1, <1>3, <1>4

\* A function with the keys and the items of a table is its map.
LEMMA MapIs ==
    ASSUME NEW u, NEW m, Distinct(u, m), NEW S, NEW f, S = KeysOf(u, m),
           \A i \in 0 .. m - 1 : f[u[i].key] = Stamped(u[i])
    PROVE  MapOf(u, m) = [x \in S |-> f[x]]
<1>1. ASSUME NEW x \in KeysOf(u, m)
      PROVE  MapOf(u, m)[x] = f[x]
  <2>1. PICK i \in 0 .. m - 1 : x = u[i].key
    BY DEF KeysOf
  <2>2. MapOf(u, m)[x] = Stamped(u[i])
    BY <2>1, MapAt
  <2> QED
    BY <2>1, <2>2
<1> QED
  BY <1>1 DEF MapOf

\* SET: one more slot in use.
LEMMA MapWithOneMore ==
    ASSUME NEW t, NEW n \in Nat, Distinct(t, n), NEW u, NEW k, k \notin KeysOf(t, n),
           u[n].key = k, \A i \in 0 .. n - 1 : u[i] = t[i]
    PROVE  MapOf(u, n + 1) =
             [x \in KeysOf(t, n) \cup {k} |-> IF x = k THEN Stamped(u[n]) ELSE MapOf(t, n)[x]]
<1> DEFINE f == [x \in KeysOf(t, n) \cup {k} |-> IF x = k THEN Stamped(u[n]) ELSE MapOf(t, n)[x]]
<1>1. 0 .. (n + 1) - 1 = (0 .. n - 1) \cup {n}
  OBVIOUS
<1>2. \A i \in 0 .. n - 1 : u[i].key \in KeysOf(t, n) /\ u[i].key # k
  BY DEF KeysOf
<1>3. KeysOf(u, n + 1) = KeysOf(t, n) \cup {k}
  BY <1>1 DEF KeysOf
<1>4. Distinct(u, n + 1)
  BY <1>1, <1>2 DEF Distinct
<1>5. ASSUME NEW i \in 0 .. (n + 1) - 1
      PROVE  f[u[i].key] = Stamped(u[i])
  <2>1. CASE i = n
    BY <2>1
  <2>2. CASE i \in 0 .. n - 1
    <3>1. f[u[i].key] = MapOf(t, n)[t[i].key]
      BY <1>2, <2>2
    <3> QED
      BY <2>2, <3>1, MapAt
  <2> QED
    BY <1>1, <2>1, <2>2
<1> HIDE DEF f
<1>6. MapOf(u, n + 1) = [x \in KeysOf(t, n) \cup {k} |-> f[x]]
  BY <1>3, <1>4, <1>5, MapIs
<1> QED
  BY <1>6 DEF f

\* MOD: another item in a slot in use, with the same key.
LEMMA MapWithAnother ==
    ASSUME NEW t, NEW n \in Nat, Distinct(t, n), NEW u, NEW i \in 0 .. n - 1,
           u[i].key = t[i].key, \A j \in 0 .. n - 1 : j = i \/ u[j] = t[j]
    PROVE  MapOf(u, n) =
             [x \in KeysOf(t, n) |-> IF x = t[i].key THEN Stamped(u[i]) ELSE MapOf(t, n)[x]]
<1> DEFINE f == [x \in KeysOf(t, n) |-> IF x = t[i].key THEN Stamped(u[i]) ELSE MapOf(t, n)[x]]
<1>1. \A j \in 0 .. n - 1 : u[j].key = t[j].key
  OBVIOUS
<1>2. KeysOf(u, n) = KeysOf(t, n)
  BY <1>1 DEF KeysOf
<1>3. Distinct(u, n)
  BY <1>1 DEF Distinct
<1>4. ASSUME NEW j \in 0 .. n - 1
      PROVE  f[u[j].key] = Stamped(u[j])
  <2>1. u[j].key \in KeysOf(t, n)
    BY <1>1 DEF KeysOf
  <2>2. CASE j = i
    BY <2>1, <2>2
  <2>3. CASE j # i
    <3>1. t[j].key # t[i].key
      BY <2>3 DEF Distinct
    <3>2. f[u[j].key] = MapOf(t, n)[t[j].key] /\ u[j] = t[j]
      BY <1>1, <2>1, <2>3, <3>1
    <3> QED
      BY <3>2, MapAt
  <2> QED
    BY <2>2, <2>3
<1> HIDE DEF f
<1>5. MapOf(u, n) = [x \in KeysOf(t, n) |-> f[x]]
  BY <1>2, <1>3, <1>4, MapIs
<1> QED
  BY <1>5 DEF f

\* DEL: the last item moves to the place of the deleted one.
LEMMA MapWithout ==
    ASSUME NEW t, NEW n \in Nat, NEW m \in Nat, n = m + 1, Distinct(t, n),
           NEW u, NEW d \in 0 .. m, d # m => u[d] = t[m],
           \A i \in 0 .. m - 1 : i = d \/ u[i] = t[i]
    PROVE  MapOf(u, m) = [x \in KeysOf(t, n) \ {t[d].key} |-> MapOf(t, n)[x]]
<1> DEFINE k == t[d].key
<1> DEFINE old(i) == IF i = d THEN m ELSE i
<1> DEFINE f == MapOf(t, n)
<1>0. n - 1 = m
  OBVIOUS
<1>1. \A i \in 0 .. m - 1 : old(i) \in 0 .. m /\ old(i) # d /\ u[i] = t[old(i)]
  OBVIOUS
<1>2. \A i, j \in 0 .. m - 1 : old(i) = old(j) => i = j
  OBVIOUS
<1>3. \A j \in 0 .. m : j # d => \E i \in 0 .. m - 1 : old(i) = j
  <2>1. ASSUME NEW j \in 0 .. m, j # d
        PROVE  \E i \in 0 .. m - 1 : old(i) = j
    <3>1. CASE j = m
      BY <2>1, <3>1
    <3>2. CASE j # m
      BY <2>1, <3>2
    <3> QED
      BY <3>1, <3>2
  <2> QED
    BY <2>1
<1> HIDE DEF old
<1>4. KeysOf(u, m) = KeysOf(t, n) \ {k}
  <2>1. ASSUME NEW x \in KeysOf(u, m)
        PROVE  x \in KeysOf(t, n) \ {k}
    <3>1. PICK i \in 0 .. m - 1 : x = u[i].key
      BY DEF KeysOf
    <3>2. x = t[old(i)].key /\ old(i) \in 0 .. m /\ old(i) # d
      BY <1>1, <3>1
    <3> QED
      BY <1>0, <3>2 DEF KeysOf, Distinct
  <2>2. ASSUME NEW x \in KeysOf(t, n) \ {k}
        PROVE  x \in KeysOf(u, m)
    <3>1. PICK j \in 0 .. m : x = t[j].key /\ j # d
      BY <1>0 DEF KeysOf
    <3>2. PICK i \in 0 .. m - 1 : old(i) = j
      BY <1>3, <3>1
    <3>3. x = u[i].key
      BY <1>1, <3>1, <3>2
    <3> QED
      BY <3>3 DEF KeysOf
  <2> QED
    BY <2>1, <2>2
<1>5. Distinct(u, m)
  <2>1. SUFFICES ASSUME NEW i \in 0 .. m - 1, NEW j \in 0 .. m - 1, u[i].key = u[j].key
                 PROVE  i = j
    BY DEF Distinct
  <2>2. old(i) = old(j)
    BY <1>0, <1>1, <2>1 DEF Distinct
  <2> QED
    BY <1>2, <2>2
<1>6. ASSUME NEW i \in 0 .. m - 1
      PROVE  f[u[i].key] = Stamped(u[i])
  <2>1. PICK j \in 0 .. n - 1 : u[i] = t[j]
    BY <1>0, <1>1
  <2>2. MapOf(t, n)[t[j].key] = Stamped(t[j])
    BY MapAt
  <2> QED
    BY <2>1, <2>2
<1> DEFINE S == KeysOf(t, n) \ {k}
<1>7. S = KeysOf(u, m)
  BY <1>4
<1> HIDE DEF f, k, S
<1>8. MapOf(u, m) = [x \in S |-> f[x]]
  BY <1>5, <1>6, <1>7, MapIs
<1> QED
  BY <1>8 DEF f, k, S

-------------------------------------------------------------------------------
\* As long as no allocation has failed, a slot in use holds its key's item.
LEMMA StoreHolds ==
    ASSUME Inv, ~degraded
    PROVE  /\ Distinct(table, total) /\ total \in Nat
           /\ DOMAIN StoreMap = KeysOf(table, total)
           /\ \A i \in Used : /\ table[i].key \in DOMAIN StoreMap
                              /\ StoreMap[table[i].key].value = table[i].value
                              /\ StoreMap[table[i].key].timestamp = table[i].timestamp
           /\ \A k \in DOMAIN StoreMap : \E i \in Used : table[i].key = k
           /\ \A i \in Used : table[i].value # Null /\ table[i].key # Null
<1>1. Distinct(table, total) /\ total \in Nat
  BY DEF Inv, UniqueKeys, Distinct, Used, TypeOK
<1>2. DOMAIN StoreMap = KeysOf(table, total)
  BY StoreIs DEF MapOf
<1>3. ASSUME NEW i \in Used
      PROVE  /\ table[i].key \in DOMAIN StoreMap
             /\ StoreMap[table[i].key].value = table[i].value
             /\ StoreMap[table[i].key].timestamp = table[i].timestamp
  <2>1. StoreMap[table[i].key] = Stamped(table[i]) /\ table[i].key \in DOMAIN StoreMap
    BY <1>1, <1>2, StoreIs, MapAt DEF Used
  <2> QED
    BY <2>1 DEF Stamped
<1>4. \A k \in DOMAIN StoreMap : \E i \in Used : table[i].key = k
  BY <1>2 DEF KeysOf, Used
<1>5. \A i \in Used : table[i].value # Null /\ table[i].key # Null
  BY DEF Inv, ValuesPresent, NoHoles
<1> QED
  BY <1>1, <1>2, <1>3, <1>4, <1>5

\* Whether a key is found tells whether the map has it.
LEMMA PresentIsFound ==
    ASSUME Inv, ~degraded, NEW k
    PROVE  /\ Absent(k) <=> k \notin DOMAIN StoreMap
           /\ GetIsNull(k) <=> k \notin DOMAIN StoreMap
<1>1. Absent(k) <=> k \notin DOMAIN StoreMap
  BY StoreHolds DEF Absent
<1>2. \A i \in Used : table[i].value # Null
  BY StoreHolds
<1> QED
  BY <1>1, <1>2 DEF GetIsNull

LEMMA SetImplements ==
    ASSUME Inv, ~degraded, NEW k \in Key, NEW v \in Value, NEW t \in Time, Set(k, v, t)
    PROVE  Abs!Set(k, v, t)
<1>1. CASE UNCHANGED <<table, total>> /\ Answer("SET", <<k, v, t>>, "ERROR")
  <2>1. StoreMap' = StoreMap
    BY <1>1, StoreIs
  <2> QED
    BY <1>1, <2>1 DEF Abs!Set, Abs!Answer, Answer
<1>2. CASE UNCHANGED <<table, total>> /\ ~GetIsNull(k) /\ Answer("SET", <<k, v, t>>, "EXIST")
  <2>1. StoreMap' = StoreMap
    BY <1>2, StoreIs
  <2>2. k \in DOMAIN StoreMap
    BY <1>2, PresentIsFound
  <2> QED
    BY <1>2, <2>1, <2>2 DEF Abs!Set, Abs!Answer, Abs!Present, Answer
<1>3. CASE /\ total < Size /\ GetIsNull(k)
           /\ \E i \in 0 .. total :
                 /\ FreeSlot(i)
                 /\ table' = [table EXCEPT ![i] = [key |-> k, value |-> v, timestamp |-> t]]
           /\ total' = total + 1
           /\ Answer("SET", <<k, v, t>>, "SUCCESS")
  <2> DEFINE new == table'
  <2> DEFINE item == [key |-> k, value |-> v, timestamp |-> t]
  <2>1. new = [table EXCEPT ![total] = item]
    BY <1>3, FreeSlotIsTotal DEF Inv
  <2>2. total \in 0 .. Size - 1 /\ table \in [0 .. Size - 1 -> Item]
    <3>1. total \in 0 .. Size /\ total < Size /\ table \in [0 .. Size - 1 -> Item]
      BY <1>3 DEF Inv, TypeOK
    <3> QED
      BY <3>1
  <2>3. new[total] = item /\ \A i \in 0 .. total - 1 : new[i] = table[i]
    BY <2>1, <2>2
  <2>4. k \notin DOMAIN StoreMap
    BY <1>3, PresentIsFound
  <2>5. item.key = k /\ Stamped(item) = [value |-> v, timestamp |-> t]
    BY DEF Stamped
  <2> HIDE DEF new, item
  <2>6. MapOf(new, total + 1) =
          [x \in KeysOf(table, total) \cup {k} |->
              IF x = k THEN Stamped(new[total]) ELSE MapOf(table, total)[x]]
    BY <2>3, <2>4, <2>5, StoreHolds, MapWithOneMore
  <2>7. StoreMap' = MapOf(new, total + 1)
    BY <1>3, StoreIs DEF new
  <2>8. StoreMap' = [x \in DOMAIN StoreMap \cup {k} |->
                        IF x = k THEN [value |-> v, timestamp |-> t] ELSE StoreMap[x]]
    BY <2>3, <2>5, <2>6, <2>7, StoreHolds, StoreIs
  <2> QED
    BY <1>3, <2>4, <2>8 DEF Abs!Set, Abs!Put, Abs!Present, Abs!Answer, Answer
<1>4. SetResponse(-2) = "ERROR" /\ SetResponse(-3) = "ERROR" /\ SetResponse(1) = "EXIST"
      /\ SetResponse(0) = "SUCCESS"
  BY DEF SetResponse
<1> QED
  BY <1>1, <1>2, <1>3, <1>4 DEF Set

LEMMA ModImplements ==
    ASSUME Inv, ~degraded, ~degraded', NEW k \in Key, NEW v \in Value, NEW t \in Time, Mod(k, v, t)
    PROVE  Abs!Mod(k, v, t)
<1>1. CASE UNCHANGED <<table, total>> /\ Absent(k) /\ Answer("MOD", <<k, v, t>>, "ERROR")
  <2>1. StoreMap' = StoreMap
    BY <1>1, StoreIs
  <2>2. k \notin DOMAIN StoreMap
    BY <1>1, PresentIsFound
  <2> QED
    BY <1>1, <2>1, <2>2 DEF Abs!Mod, Abs!Answer, Abs!Present, Answer
<1>2. ASSUME NEW i \in Used, FindIndex(i, k), total' = total,
             table' = [table EXCEPT ![i] = [key |-> k, value |-> v, timestamp |-> t]],
             Answer("MOD", <<k, v, t>>, "SUCCESS")
      PROVE  Abs!Mod(k, v, t)
  <2> DEFINE new == table'
  <2> DEFINE item == [key |-> k, value |-> v, timestamp |-> t]
  <2>1. total \in 0 .. Size /\ table \in [0 .. Size - 1 -> Item] /\ i \in 0 .. total - 1
    BY <1>2 DEF Inv, TypeOK, Used
  <2>0. 0 .. total - 1 \subseteq DOMAIN table
    BY <2>1
  <2>2. new[i] = item /\ \A j \in 0 .. total - 1 : j = i \/ new[j] = table[j]
    BY <1>2, <2>0, <2>1
  <2>3. table[i].key = k
    BY <1>2 DEF FindIndex
  <2>4. k \in DOMAIN StoreMap
    BY <1>2, <2>3, StoreHolds
  <2>5. item.key = k /\ Stamped(item) = [value |-> v, timestamp |-> t]
    BY DEF Stamped
  <2> HIDE DEF new, item
  <2>6. MapOf(new, total) =
          [x \in KeysOf(table, total) |->
              IF x = table[i].key THEN Stamped(new[i]) ELSE MapOf(table, total)[x]]
    <3>1. Distinct(table, total) /\ total \in Nat
      BY StoreHolds
    <3>2. new[i].key = table[i].key
      BY <2>2, <2>3, <2>5
    <3> QED
      BY <2>1, <2>2, <3>1, <3>2, MapWithAnother
  <2>7. StoreMap' = MapOf(new, total)
    BY <1>2, StoreIs DEF new
  <2>8. DOMAIN StoreMap = DOMAIN StoreMap \cup {k}
    BY <2>4
  <2>9. StoreMap' = [x \in DOMAIN StoreMap \cup {k} |->
                        IF x = k THEN [value |-> v, timestamp |-> t] ELSE StoreMap[x]]
    BY <2>2, <2>3, <2>5, <2>6, <2>7, <2>8, StoreHolds, StoreIs
  <2> QED
    BY <1>2, <2>4, <2>9 DEF Abs!Mod, Abs!Put, Abs!Present, Abs!Answer, Answer
<1>3. ModResponse(-2) = "ERROR" /\ ModResponse(-4) = "ERROR" /\ ModResponse(0) = "SUCCESS"
  BY DEF ModResponse
<1> QED
  BY <1>1, <1>2, <1>3 DEF Mod

LEMMA DelImplements ==
    ASSUME Inv, ~degraded, NEW k \in Key, Del(k)
    PROVE  Abs!Del(k)
<1>1. CASE UNCHANGED <<table, total>> /\ Absent(k) /\ Answer("DEL", k, "NO EXIST")
  <2>1. StoreMap' = StoreMap
    BY <1>1, StoreIs
  <2>2. k \notin DOMAIN StoreMap
    BY <1>1, PresentIsFound
  <2> QED
    BY <1>1, <2>1, <2>2 DEF Abs!Del, Abs!Answer, Abs!Present, Answer
<1>2. ASSUME NEW d \in Used, FindIndex(d, k), total' = total - 1,
             table' = [table EXCEPT ![d] = table[total - 1], ![total - 1] = Empty],
             Answer("DEL", k, "SUCCESS")
      PROVE  Abs!Del(k)
  <2> DEFINE new == table'
  <2>1. total \in 1 .. Size /\ table \in [0 .. Size - 1 -> Item] /\ d \in 0 .. total - 1
    BY <1>2 DEF Inv, TypeOK, Used
  <2>2. /\ d # total - 1 => new[d] = table[total - 1]
        /\ \A i \in 0 .. total - 2 : i = d \/ new[i] = table[i]
    <3> DEFINE last == total - 1
    <3>1. 0 .. total - 1 \subseteq DOMAIN table /\ last \in DOMAIN table /\ d \in DOMAIN table
      BY <2>1
    <3>2. 0 .. total - 2 \subseteq DOMAIN table /\ last \notin 0 .. total - 2
      BY <2>1
    <3>3. new = [table EXCEPT ![d] = table[last], ![last] = Empty]
      BY <1>2
    <3> HIDE DEF last, new
    <3>4. d # last => new[d] = table[last]
      BY <3>1, <3>3
    <3>5. \A i \in 0 .. total - 2 : i = d \/ new[i] = table[i]
      BY <3>2, <3>3
    <3> QED
      BY <3>4, <3>5 DEF last
  <2>3. table[d].key = k
    BY <1>2 DEF FindIndex
  <2>4. k \in DOMAIN StoreMap
    BY <1>2, <2>3, StoreHolds
  <2> HIDE DEF new
  <2>5. MapOf(new, total - 1) = [x \in KeysOf(table, total) \ {table[d].key} |-> MapOf(table, total)[x]]
    <3> DEFINE last == total - 1
    <3>1. Distinct(table, total) /\ total \in Nat
      BY <2>1, StoreHolds
    <3>2. last \in Nat /\ total = last + 1 /\ d \in 0 .. last
      BY <2>1
    <3>3. d # last => new[d] = table[last]
      BY <2>2
    <3>4. \A i \in 0 .. last - 1 : i = d \/ new[i] = table[i]
      BY <2>1, <2>2
    <3> HIDE DEF last
    <3>5. MapOf(new, last) = [x \in KeysOf(table, total) \ {table[d].key} |-> MapOf(table, total)[x]]
      BY <3>1, <3>2, <3>3, <3>4, MapWithout
    <3> QED
      BY <3>5 DEF last
  <2>6. StoreMap' = MapOf(new, total - 1)
    BY <1>2, StoreIs DEF new
  <2>7. StoreMap' = [x \in DOMAIN StoreMap \ {k} |-> StoreMap[x]]
    BY <2>3, <2>5, <2>6, StoreHolds, StoreIs
  <2> QED
    BY <1>2, <2>4, <2>7 DEF Abs!Del, Abs!Without, Abs!Present, Abs!Answer, Answer
<1>3. DelResponse(1) = "NO EXIST" /\ DelResponse(0) = "SUCCESS"
  BY DEF DelResponse
<1> QED
  BY <1>1, <1>2, <1>3 DEF Del

\* A key of the map is found, once.
LEMMA Found ==
    ASSUME Inv, ~degraded, NEW k \in DOMAIN StoreMap
    PROVE  \E i \in Used : FindIndex(i, k)
<1>1. PICK i \in Used : table[i].key = k
  BY StoreHolds
<1>2. \A j \in 0 .. i - 1 : j \in Used /\ j # i
  BY DEF Inv, TypeOK, Used
<1>3. \A j \in 0 .. i - 1 : table[j].key # k
  BY <1>1, <1>2 DEF Inv, UniqueKeys
<1> QED
  BY <1>1, <1>3 DEF FindIndex

LEMMA GetImplements ==
    ASSUME Inv, ~degraded, NEW k \in Key, Get(k)
    PROVE  Abs!Get(k)
<1>1. StoreMap' = StoreMap
  BY StoreIs DEF Get
<1>2. CASE k \notin DOMAIN StoreMap
  <2>1. GetIsNull(k)
    BY <1>2, PresentIsFound
  <2> QED
    BY <1>1, <1>2, <2>1 DEF Get, Abs!Get, Abs!Answer, Abs!Present, Answer
<1>3. CASE k \in DOMAIN StoreMap
  <2>1. ~GetIsNull(k)
    BY <1>3, PresentIsFound
  <2> DEFINE i == CHOOSE i \in Used : FindIndex(i, k)
  <2>2. i \in Used /\ FindIndex(i, k)
    BY <1>3, Found
  <2>3. table[i].value = StoreMap[k].value
    BY <2>2, StoreHolds DEF FindIndex
  <2> QED
    BY <1>1, <1>3, <2>1, <2>3 DEF Get, Abs!Get, Abs!Answer, Abs!Present, Answer
<1> QED
  BY <1>2, <1>3

LEMMA ExistImplements ==
    ASSUME Inv, ~degraded, NEW k \in Key, Exist(k)
    PROVE  Abs!Exist(k)
<1>1. StoreMap' = StoreMap
  BY StoreIs DEF Exist
<1>2. GetIsNull(k) <=> k \notin DOMAIN StoreMap
  BY PresentIsFound
<1>3. ExistResponse(-1) = "NO EXIST" /\ ExistResponse(0) = "EXIST"
  BY DEF ExistResponse
<1> QED
  BY <1>1, <1>2, <1>3 DEF Exist, Abs!Exist, Abs!Answer, Abs!Present, Answer

\* The items RANGE copies are those the map has between the two keys.
LEMMA RangeIsBetween ==
    ASSUME Inv, ~degraded, NEW a \in Key, NEW b \in Key
    PROVE  {<<table[i].key, table[i].value>> : i \in InRange(a, b)} = Abs!Between(a, b)
<1> DEFINE copied == {<<table[i].key, table[i].value>> : i \in InRange(a, b)}
<1>1. ASSUME NEW p \in copied
      PROVE  p \in Abs!Between(a, b)
  <2>1. PICK i \in InRange(a, b) : p = <<table[i].key, table[i].value>>
    OBVIOUS
  <2>2. i \in Used /\ a <= table[i].key /\ table[i].key <= b
    BY DEF InRange
  <2>3. table[i].key \in DOMAIN StoreMap /\ StoreMap[table[i].key].value = table[i].value
    BY <2>2, StoreHolds
  <2> QED
    BY <2>1, <2>2, <2>3 DEF Abs!Between, Abs!Present
<1>2. ASSUME NEW p \in Abs!Between(a, b)
      PROVE  p \in copied
  <2>1. PICK k \in DOMAIN StoreMap : a <= k /\ k <= b /\ p = <<k, StoreMap[k].value>>
    BY DEF Abs!Between, Abs!Present
  <2>2. PICK i \in Used : table[i].key = k
    BY StoreHolds
  <2>3. StoreMap[k].value = table[i].value /\ table[i].key # Null
    BY <2>2, StoreHolds
  <2>4. i \in InRange(a, b)
    BY <2>1, <2>2, <2>3 DEF InRange
  <2> QED
    BY <2>1, <2>2, <2>3, <2>4
<1> QED
  BY <1>1, <1>2

LEMMA SortedAlike ==
    ASSUME NEW S
    PROVE  SortByKey(S) = Abs!SortByKey(S)
BY DEF SortByKey, Abs!SortByKey, Cardinality, Abs!Cardinality

LEMMA RangeImplements ==
    ASSUME Inv, ~degraded, ~degraded', NEW a \in Key, NEW b \in Key, RangeQuery(a, b)
    PROVE  Abs!RangeQuery(a, b)
<1>1. StoreMap' = StoreMap
  BY StoreIs DEF RangeQuery
<1> DEFINE copied == {<<table[i].key, table[i].value>> : i \in InRange(a, b)}
<1>2. copied = Abs!Between(a, b)
  BY RangeIsBetween
<1>3. copied = {} <=> InRange(a, b) = {}
  OBVIOUS
<1>4. a \in Int /\ b \in Int /\ (a > b <=> ~(a <= b))
  OBVIOUS
<1>5. ~\E i \in InRange(a, b) : table[i].value = Null
  BY StoreHolds DEF InRange
<1>6. RangeResponse(-2) = "ERROR" /\ RangeResponse(1) = "EMPTY"
  BY DEF RangeResponse
<1>7. CASE a > b /\ Answer("RANGE", <<a, b>>, "ERROR")
  BY <1>1, <1>7 DEF Abs!RangeQuery, Abs!Answer, Answer
<1>8. CASE a <= b /\ copied = {} /\ Answer("RANGE", <<a, b>>, "EMPTY")
  BY <1>1, <1>2, <1>4, <1>8 DEF Abs!RangeQuery, Abs!Answer, Answer
<1>9. CASE a <= b /\ copied # {} /\ Answer("RANGE", <<a, b>>, SortByKey(copied))
  <2>1. SortByKey(copied) = Abs!SortByKey(Abs!Between(a, b))
    BY <1>2, SortedAlike
  <2> HIDE DEF copied
  <2> QED
    BY <1>1, <1>2, <1>4, <1>9, <2>1 DEF Abs!RangeQuery, Abs!Answer, Answer
<1> QED
  BY <1>3, <1>5, <1>6, <1>7, <1>8, <1>9 DEF RangeQuery

\* With no holes, the dump holds the items of the map.
LEMMA DumpIsMap ==
    ASSUME Inv, ~degraded
    PROVE  {<<table[i].key, table[i].value, table[i].timestamp>> : i \in Dumped} =
           {<<k, StoreMap[k].value, StoreMap[k].timestamp>> : k \in DOMAIN StoreMap}
<1>1. Dumped = Used
  BY DEF Dumped, Inv, NoHoles
<1>2. \A i \in Used : /\ table[i].key \in DOMAIN StoreMap
                      /\ StoreMap[table[i].key].value = table[i].value
                      /\ StoreMap[table[i].key].timestamp = table[i].timestamp
  BY StoreHolds
<1>3. \A k \in DOMAIN StoreMap : \E i \in Used : table[i].key = k
  BY StoreHolds
<1> QED
  BY <1>1, <1>2, <1>3

LEMMA GetAllImplements ==
    ASSUME Inv, ~degraded, ~degraded', GetAll
    PROVE  Abs!GetAll
<1>1. StoreMap' = StoreMap
  BY StoreIs DEF GetAll
<1>2. ~\E i \in Dumped : table[i].value = Null
  BY StoreHolds DEF Dumped
<1>3. total \in Nat
  BY DEF Inv, TypeOK
<1>4. CASE Answer("GETALL", 0, "EMPTY") /\ ~(total > 0)
  <2>1. Used = {}
    BY <1>3, <1>4 DEF Used
  <2>2. DOMAIN StoreMap = {}
    BY <2>1, StoreHolds
  <2> QED
    BY <1>1, <1>4, <2>2 DEF Abs!GetAll, Abs!Answer, Abs!Present, Answer
<1>5. CASE /\ total > 0
           /\ Answer("GETALL", 0,
                     {<<table[i].key, table[i].value, table[i].timestamp>> : i \in Dumped})
  <2>1. 0 \in Used
    BY <1>3, <1>5 DEF Used
  <2>2. DOMAIN StoreMap # {}
    BY <2>1, StoreHolds
  <2>3. Answer("GETALL", 0,
               {<<k, StoreMap[k].value, StoreMap[k].timestamp>> : k \in DOMAIN StoreMap})
    BY <1>5, DumpIsMap
  <2> QED
    BY <1>1, <2>2, <2>3 DEF Abs!GetAll, Abs!Answer, Abs!Present, Answer
<1> QED
  BY <1>2, <1>4, <1>5 DEF GetAll

-------------------------------------------------------------------------------
LEMMA InitImplements == Init => Abs!Init
<1> SUFFICES ASSUME Init PROVE Abs!Init
  OBVIOUS
<1>1. KeysOf(table, total) = {}
  BY DEF Init, KeysOf
<1>2. StoreMap = [x \in {} |-> 0]
  BY <1>1, StoreIs DEF MapOf
<1> QED
  BY <1>2 DEF Init, Abs!Init

\* A promise once broken stays broken.
LEMMA BrokenStays ==
    ASSUME [Next]_vars, degraded
    PROVE  degraded'
BY DEF Next, vars, Set, Mod, Get, Del, Exist, RangeQuery, GetAll

LEMMA NextImplements ==
    ASSUME Inv, Inv', [Next]_vars
    PROVE  [Abs!Next]_(Abs!vars)
<1>1. CASE degraded'
  BY <1>1 DEF Abs!Next
<1>2. CASE ~degraded'
  <2>1. ~degraded
    BY <1>2, BrokenStays
  <2>2. degraded' = degraded
    BY <1>2, <2>1, Zenon DEF Inv, TypeOK
  <2>3. ASSUME NEW k \in Key, NEW v \in Value, NEW t \in Time, Set(k, v, t) \/ Mod(k, v, t)
        PROVE  Abs!Command
    BY <1>2, <2>1, <2>3, SetImplements, ModImplements DEF Abs!Command
  <2>4. ASSUME NEW k \in Key, Get(k) \/ Del(k) \/ Exist(k)
        PROVE  Abs!Command
    BY <2>1, <2>4, GetImplements, DelImplements, ExistImplements DEF Abs!Command
  <2>5. ASSUME NEW a \in Key, NEW b \in Key, RangeQuery(a, b)
        PROVE  Abs!Command
    <3>1. Abs!RangeQuery(a, b)
      BY <1>2, <2>1, <2>5, RangeImplements
    <3> QED
      BY <3>1, Zenon DEF Abs!Command
  <2>6. ASSUME GetAll
        PROVE  Abs!Command
    <3>1. Abs!GetAll
      BY <1>2, <2>1, <2>6, GetAllImplements
    <3> QED
      BY <3>1, Zenon DEF Abs!Command
  <2>7. CASE UNCHANGED vars
    <3>1. StoreMap' = StoreMap
      BY <2>7, StoreIs DEF vars
    <3> QED
      BY <2>7, <3>1 DEF vars, Abs!vars
  <2>8. Abs!Command => Abs!Next
    BY <2>1, <2>2 DEF Abs!Next
  <2> QED
    BY <2>3, <2>4, <2>5, <2>6, <2>7, <2>8 DEF Next
<1> QED
  BY <1>1, <1>2

\* The answers and the contents of the array engine are those of a map from
\* keys to timestamped values, whatever the table size, until an allocation
\* fails in MOD, RANGE or GETARRAY (kv_store_array.c).
THEOREM ArrayImplementsStore == Spec => ImplementsStore
<1>1. Init => Abs!Init
  BY InitImplements
<1>2. Inv /\ Inv' /\ [Next]_vars => [Abs!Next]_(Abs!vars)
  BY NextImplements
<1> QED
  BY <1>1, <1>2, Invariance, PTL DEF Spec, ImplementsStore, Abs!Spec
===============================================================================
