------------------------------ MODULE KVSaveProofs ------------------------------
(***************************************************************************)
(* Proofs about snapshots, for every set of keys and values, every engine  *)
(* and size, and a kill or a failing write at any point.                   *)
(***************************************************************************)
EXTENDS KVSave, FiniteSetTheorems, NaturalsInduction, SequenceTheorems,
        WellFoundedInduction, TLAPS

\* The next string is on its way in a pair that was saved.
Pair(i) == [key |-> stream[2 * i - 1].text, value |-> stream[2 * i].text]

\* What a SAVE sets out to write is the items it found, each key once, and loses
\* strings only when a write fails; torn apart, it is no longer made of items.
HasCut == \E c \in 1 .. Len(stream) : stream[c].kind = "cut"
Stream ==
    /\ Len(stream) <= 2 * Len(image)
    /\ \A i, j \in DOMAIN image : image[i].key = image[j].key => i = j
    /\ Len(stream) = 2 * Len(image) => stream = Strings(image) \/ HasCut
    /\ saving /\ "disk" \notin trouble => Len(stream) = 2 * Len(image)
    /\ \A i \in DOMAIN stream :
          /\ stream[i].kind = "key" => stream[i].text \in AnyKey
          /\ stream[i].kind = "value" => stream[i].text \in AnyValue
    /\ "headless" \in trouble => "torn" \in trouble
    /\ "torn" \notin trouble =>
          /\ ~HasCut
          /\ \E h \in Nat : Len(stream) = 2 * h
          /\ \A i \in Nat \ {0} :
                2 * i <= Len(stream) =>
                    /\ stream[2 * i - 1].kind = "key" /\ stream[2 * i].kind = "value"
                    /\ Pair(i) \in Range(image)

\* An acknowledged snapshot is in the file, whole, unless a write failed.
Whole ==
    acked /\ "disk" \notin trouble => disk = End /\ Len(stream) = 2 * Len(image)

\* The SAVE that is running has not answered.
Unanswered == saving => ~acked /\ reply.op = "SAVE"

Inv == TypeOK /\ IsFiniteSet(DOMAIN store) /\ Stream /\ Whole /\ Unanswered

-------------------------------------------------------------------------------
LEMMA Smallest ==
    ASSUME NEW S, S \subseteq Nat, S # {}
    PROVE  \E n \in S : \A m \in Nat : m < n => m \notin S
<1> DEFINE R == OpToRel(<, Nat)
<1>1. IsWellFoundedOn(R, Nat)
  BY NatLessThanWellFounded
<1>2. \A x, y \in Nat : y < x => <<y, x>> \in R
  BY DEF OpToRel
<1> HIDE DEF R
<1>3. PICK n \in S : \A y \in S : ~(<<y, n>> \in R)
  BY <1>1, WFMin
<1>4. n \in Nat
  OBVIOUS
<1>5. ASSUME NEW m \in Nat, m < n
      PROVE  m \notin S
  BY <1>2, <1>3, <1>4, <1>5
<1> QED
  BY <1>5

-------------------------------------------------------------------------------
\* The engine after i of the items that a LOAD reads.
After(f, i, items, lost) ==
    IF i = 0 THEN store
    ELSE IF i \in lost THEN f[i - 1] ELSE Set(f[i - 1], items[i])
Loading(f, n, items, lost) == f = [i \in 0 .. n |-> After(f, i, items, lost)]

LEMMA LoadingExists ==
    ASSUME NEW items, NEW lost, NEW n \in Nat
    PROVE  \E f : Loading(f, n, items, lost)
<1> DEFINE S == {m \in Nat : ~\E f : Loading(f, m, items, lost)}
<1> SUFFICES ASSUME S # {}
             PROVE  FALSE
  OBVIOUS
<1>1. PICK m \in S : \A l \in Nat : l < m => l \notin S
  <2>1. S \subseteq Nat
    OBVIOUS
  <2> HIDE DEF S
  <2> QED
    BY <2>1, Smallest
<1>2. m \in Nat /\ ~\E f : Loading(f, m, items, lost)
  OBVIOUS
<1>3. CASE m = 0
  <2> DEFINE f == [i \in 0 .. 0 |-> store]
  <2>1. \A i \in 0 .. 0 : i = 0
    OBVIOUS
  <2>2. f = [i \in 0 .. 0 |-> After(f, i, items, lost)]
    BY <2>1 DEF After
  <2>3. Loading(f, m, items, lost)
    BY <1>3, <2>2 DEF Loading
  <2> QED
    BY <1>2, <2>3
<1>4. CASE m # 0
  <2>1. m - 1 \in Nat /\ m - 1 < m
    BY <1>2, <1>4
  <2>2. PICK f : Loading(f, m - 1, items, lost)
    BY <1>1, <2>1
  <2> DEFINE g == [i \in 0 .. m |-> IF i = m THEN After(f, m, items, lost) ELSE f[i]]
  <2>3. ASSUME NEW i \in 0 .. m
        PROVE  g[i] = After(g, i, items, lost)
    <3>1. CASE i = 0
      <4>1. i # m /\ 0 \in 0 .. m - 1
        BY <1>2, <1>4, <3>1
      <4>2. f[0] = After(f, 0, items, lost)
        BY <2>2, <4>1 DEF Loading
      <4> QED
        BY <3>1, <4>1, <4>2 DEF After
    <3>2. CASE i # 0
      <4>1. i - 1 \in 0 .. m /\ i - 1 # m
        BY <1>2, <3>2
      <4>2. g[i - 1] = f[i - 1]
        BY <4>1
      <4>3. After(g, i, items, lost) = After(f, i, items, lost)
        BY <3>2, <4>2 DEF After
      <4>4. CASE i = m
        BY <4>3, <4>4
      <4>5. CASE i # m
        <5>1. i \in 0 .. m - 1
          BY <1>2, <4>5
        <5>2. f[i] = After(f, i, items, lost)
          BY <2>2, <5>1 DEF Loading
        <5> QED
          BY <4>3, <4>5, <5>2
      <4> QED
        BY <4>4, <4>5
    <3> QED
      BY <3>1, <3>2
  <2>4. g = [i \in 0 .. m |-> g[i]]
    OBVIOUS
  <2> HIDE DEF g
  <2>5. Loading(g, m, items, lost)
    BY <2>3, <2>4 DEF Loading
  <2> QED
    BY <1>2, <2>5
<1> QED
  BY <1>3, <1>4

LEMMA RestoredIs ==
    ASSUME NEW items, NEW lost, Len(items) \in Nat
    PROVE  \E f : Loading(f, Len(items), items, lost) /\ Restored(items, lost) = f[Len(items)]
<1> DEFINE f == CHOOSE f : Loading(f, Len(items), items, lost)
<1>1. Loading(f, Len(items), items, lost)
  BY LoadingExists
<1>2. Restored(items, lost) = f[Len(items)]
  BY DEF Restored, Loading, After
<1> QED
  BY <1>1, <1>2

-------------------------------------------------------------------------------
\* The engine never has more items than it has room for.
Fits(s) ==
    /\ IsFiniteSet(DOMAIN s)
    /\ engine = "array" => Cardinality(DOMAIN s) <= Capacity

LEMMA SetIs ==
    ASSUME NEW s, NEW item, Fits(s)
    PROVE  /\ Fits(Set(s, item))
           /\ \/ Set(s, item) = s /\ (Full(s) \/ item.key \in DOMAIN s)
              \/ /\ item.key \notin DOMAIN s
                 /\ DOMAIN Set(s, item) = DOMAIN s \cup {item.key}
                 /\ Set(s, item)[item.key] = item.value
                 /\ \A k \in DOMAIN s : Set(s, item)[k] = s[k]
<1>1. CASE Full(s) \/ item.key \in DOMAIN s
  <2>1. Set(s, item) = s
    BY <1>1 DEF Set
  <2> QED
    BY <1>1, <2>1
<1>2. CASE ~(Full(s) \/ item.key \in DOMAIN s)
  <2> DEFINE t == [k \in DOMAIN s \cup {item.key} |-> IF k = item.key THEN item.value ELSE s[k]]
  <2>1. Set(s, item) = t
    BY <1>2 DEF Set
  <2>2. DOMAIN t = DOMAIN s \cup {item.key} /\ t[item.key] = item.value
        /\ \A k \in DOMAIN s : t[k] = s[k]
    BY <1>2
  <2> HIDE DEF t
  <2>3. IsFiniteSet(DOMAIN s) /\ item.key \notin DOMAIN s
    BY <1>2 DEF Fits
  <2>4. /\ IsFiniteSet(DOMAIN t)
        /\ Cardinality(DOMAIN t) = Cardinality(DOMAIN s) + 1
        /\ Cardinality(DOMAIN s) \in Nat
    <3>1. IsFiniteSet(DOMAIN s \cup {item.key})
          /\ Cardinality(DOMAIN s \cup {item.key}) = Cardinality(DOMAIN s) + 1
      BY <2>3, FS_AddElement
    <3> QED
      BY <2>2, <2>3, <3>1, FS_CardinalityType
  <2>5. engine = "array" => Cardinality(DOMAIN t) <= Capacity
    <3>1. engine = "array" => ~(Cardinality(DOMAIN s) >= Capacity)
      BY <1>2 DEF Full
    <3> QED
      BY <2>4, <3>1, CapacityAssumption
  <2> QED
    BY <1>2, <2>1, <2>2, <2>4, <2>5 DEF Fits
<1> QED
  BY <1>1, <1>2

\* What the items read have made of the engine: nothing that was there has
\* changed, and what is new is among them.
Grown(s, i, items) ==
    /\ Fits(s)
    /\ DOMAIN store \subseteq DOMAIN s
    /\ \A k \in DOMAIN store : s[k] = store[k]
    /\ \A k \in DOMAIN s \ DOMAIN store : \E j \in 1 .. i : items[j].key = k /\ items[j].value = s[k]

\* If no memory was lacking, they are all there but those that had no place.
Covered(s, i, items) ==
    \A j \in 1 .. i :
        \/ items[j].key \in DOMAIN store
        \/ items[j].key \in DOMAIN s /\ s[items[j].key] = items[j].value
        \/ Full(s)

LEMMA GrownMore ==
    ASSUME NEW s, NEW i \in Nat, NEW items, NEW t, Grown(s, i, items),
           t = s \/ t = Set(s, items[i + 1])
    PROVE  Grown(t, i + 1, items)
<1>1. \A j \in 1 .. i : j \in 1 .. i + 1
  OBVIOUS
<1>2. i + 1 \in 1 .. i + 1
  OBVIOUS
<1>3. CASE t = s
  BY <1>1, <1>3 DEF Grown
<1>4. CASE t = Set(s, items[i + 1]) /\ t # s
  <2> DEFINE item == items[i + 1]
  <2>1. Fits(s)
    BY DEF Grown
  <2>2. /\ Fits(t) /\ DOMAIN t = DOMAIN s \cup {item.key} /\ t[item.key] = item.value
        /\ \A k \in DOMAIN s : t[k] = s[k]
    <3>1. t = Set(s, item)
      BY <1>4
    <3> HIDE DEF item
    <3>2. /\ Fits(Set(s, item))
          /\ \/ Set(s, item) = s /\ (Full(s) \/ item.key \in DOMAIN s)
             \/ /\ item.key \notin DOMAIN s
                /\ DOMAIN Set(s, item) = DOMAIN s \cup {item.key}
                /\ Set(s, item)[item.key] = item.value
                /\ \A k \in DOMAIN s : Set(s, item)[k] = s[k]
      BY <2>1, SetIs
    <3> QED
      BY <1>4, <3>1, <3>2
  <2>3. DOMAIN store \subseteq DOMAIN t /\ \A k \in DOMAIN store : t[k] = store[k]
    BY <2>2 DEF Grown
  <2>4. ASSUME NEW k \in DOMAIN t \ DOMAIN store
        PROVE  \E j \in 1 .. i + 1 : items[j].key = k /\ items[j].value = t[k]
    <3>1. CASE k = item.key
      BY <1>2, <2>2, <3>1
    <3>2. CASE k # item.key
      <4>1. k \in DOMAIN s \ DOMAIN store /\ t[k] = s[k]
        BY <2>2, <3>2
      <4> QED
        BY <1>1, <4>1 DEF Grown
    <3> QED
      BY <3>1, <3>2
  <2> QED
    BY <2>2, <2>3, <2>4 DEF Grown
<1> QED
  BY <1>3, <1>4

LEMMA CoveredMore ==
    ASSUME NEW s, NEW i \in Nat, NEW items, Grown(s, i, items), Covered(s, i, items),
           \A j \in 1 .. i : items[j].key # items[i + 1].key
    PROVE  Covered(Set(s, items[i + 1]), i + 1, items)
<1> DEFINE item == items[i + 1]
<1> DEFINE t == Set(s, item)
<1>1. Fits(s)
  BY DEF Grown
<1>2. \/ t = s /\ (Full(s) \/ item.key \in DOMAIN s)
      \/ /\ DOMAIN t = DOMAIN s \cup {item.key}
         /\ t[item.key] = item.value /\ item.key \notin DOMAIN s
         /\ \A k \in DOMAIN s : t[k] = s[k]
  BY <1>1, SetIs
<1>3. item.key \in DOMAIN s => item.key \in DOMAIN store
  BY DEF Grown
<1> HIDE DEF t
<1>4. \A j \in 1 .. i + 1 : j \in 1 .. i \/ j = i + 1
  OBVIOUS
<1>5. CASE Full(t)
  BY <1>5 DEF Covered, t
<1>6. CASE ~Full(t)
  <2>1. ASSUME NEW j \in 1 .. i
        PROVE  \/ items[j].key \in DOMAIN store
               \/ items[j].key \in DOMAIN t /\ t[items[j].key] = items[j].value
    <3>1. \/ items[j].key \in DOMAIN store
          \/ items[j].key \in DOMAIN s /\ s[items[j].key] = items[j].value
          \/ Full(s)
      BY DEF Covered
    <3>2. CASE Full(s)
      <4>1. t = s
        BY <3>2 DEF t, Set
      <4> QED
        BY <1>6, <3>2, <4>1
    <3>3. CASE ~Full(s)
      BY <1>2, <3>1, <3>3
    <3> QED
      BY <3>2, <3>3
  <2>2. \/ item.key \in DOMAIN store
        \/ item.key \in DOMAIN t /\ t[item.key] = item.value
    <3>1. CASE item.key \in DOMAIN s
      BY <1>3, <3>1
    <3>2. CASE item.key \notin DOMAIN s
      <4>1. t = s => ~Full(s)
        BY <1>6
      <4> HIDE DEF item
      <4> QED
        BY <1>2, <3>2, <4>1
    <3> QED
      BY <3>1, <3>2
  <2>3. Covered(t, i + 1, items)
    BY <1>4, <2>1, <2>2 DEF Covered
  <2> QED
    BY <2>3 DEF t
<1> QED
  BY <1>5, <1>6

\* A LOAD of any items leaves what was there and adds items it read.
LEMMA RestoredGrows ==
    ASSUME NEW items, NEW lost, Len(items) \in Nat, Fits(store)
    PROVE  Grown(Restored(items, lost), Len(items), items)
<1> DEFINE n == Len(items)
<1>1. PICK f : Loading(f, n, items, lost) /\ Restored(items, lost) = f[n]
  BY RestoredIs
<1> DEFINE S == {i \in Nat : i <= n /\ ~Grown(f[i], i, items)}
<1>2. CASE S = {}
  <2>1. n \notin S
    BY <1>2
  <2>2. n \in Nat /\ n <= n
    OBVIOUS
  <2>3. Grown(f[n], n, items)
    BY <2>1, <2>2
  <2> QED
    BY <1>1, <2>3
<1>3. CASE S # {}
  <2>1. PICK m \in S : \A l \in Nat : l < m => l \notin S
    <3>1. S \subseteq Nat
      OBVIOUS
    <3> HIDE DEF S
    <3> QED
      BY <1>3, <3>1, Smallest
  <2>2. m \in Nat /\ m <= n /\ ~Grown(f[m], m, items)
    OBVIOUS
  <2>3. m \in 0 .. n
    BY <2>2
  <2>4. f[m] = After(f, m, items, lost)
    BY <1>1, <2>3 DEF Loading
  <2>5. CASE m = 0
    <3>1. f[m] = store
      BY <2>4, <2>5 DEF After
    <3>2. Grown(store, 0, items)
      BY DEF Grown
    <3> QED
      BY <2>2, <2>5, <3>1, <3>2
  <2>6. CASE m # 0
    <3>1. m - 1 \in Nat /\ m - 1 < m /\ m - 1 <= n /\ (m - 1) + 1 = m
      BY <2>2, <2>6
    <3>2. Grown(f[m - 1], m - 1, items)
      BY <2>1, <3>1
    <3>3. f[m] = f[m - 1] \/ f[m] = Set(f[m - 1], items[(m - 1) + 1])
      BY <2>4, <2>6, <3>1 DEF After
    <3>4. Grown(f[m], (m - 1) + 1, items)
      BY <3>1, <3>2, <3>3, GrownMore
    <3> QED
      BY <2>2, <3>1, <3>4
  <2> QED
    BY <2>5, <2>6
<1> QED
  BY <1>2, <1>3

\* With memory, a LOAD of items with different keys stores each, if it has a place.
LEMMA RestoredCovers ==
    ASSUME NEW items, Len(items) \in Nat, Fits(store),
           \A i, j \in 1 .. Len(items) : items[i].key = items[j].key => i = j
    PROVE  Covered(Restored(items, {}), Len(items), items)
<1> DEFINE n == Len(items)
<1>1. PICK f : Loading(f, n, items, {}) /\ Restored(items, {}) = f[n]
  BY RestoredIs
<1> DEFINE Good(i) == Grown(f[i], i, items) /\ Covered(f[i], i, items)
<1> DEFINE S == {i \in Nat : i <= n /\ ~Good(i)}
<1>2. CASE S = {}
  <2>1. n \notin S
    BY <1>2
  <2>2. n \in Nat /\ n <= n
    OBVIOUS
  <2>3. Covered(f[n], n, items)
    BY <2>1, <2>2
  <2> QED
    BY <1>1, <2>3
<1>3. CASE S # {}
  <2>1. PICK m \in S : \A l \in Nat : l < m => l \notin S
    <3>1. S \subseteq Nat
      OBVIOUS
    <3> HIDE DEF S
    <3> QED
      BY <1>3, <3>1, Smallest
  <2>2. m \in Nat /\ m <= n /\ ~Good(m)
    OBVIOUS
  <2>3. m \in 0 .. n
    BY <2>2
  <2>4. f[m] = After(f, m, items, {})
    BY <1>1, <2>3 DEF Loading
  <2>5. CASE m = 0
    <3>1. f[m] = store
      BY <2>4, <2>5 DEF After
    <3>2. Grown(store, 0, items) /\ Covered(store, 0, items)
      BY DEF Grown, Covered
    <3> QED
      BY <2>2, <2>5, <3>1, <3>2
  <2>6. CASE m # 0
    <3>1. m - 1 \in Nat /\ m - 1 < m /\ m - 1 <= n /\ (m - 1) + 1 = m
      BY <2>2, <2>6
    <3>2. Good(m - 1)
      BY <2>1, <3>1
    <3>3. f[m] = Set(f[m - 1], items[(m - 1) + 1])
      BY <2>4, <2>6, <3>1 DEF After
    <3>4. Grown(f[m], (m - 1) + 1, items)
      BY <3>1, <3>2, <3>3, GrownMore
    <3>5. \A j \in 1 .. m - 1 : items[j].key # items[(m - 1) + 1].key
      <4> TAKE j \in 1 .. m - 1
      <4>1. j \in 1 .. n /\ m \in 1 .. n /\ j # m
        BY <2>2, <2>6
      <4> QED
        BY <3>1, <4>1
    <3>6. Covered(f[m], (m - 1) + 1, items)
      BY <3>1, <3>2, <3>3, <3>5, CoveredMore
    <3> QED
      BY <2>2, <3>1, <3>4, <3>6
  <2> QED
    BY <2>5, <2>6
<1> QED
  BY <1>2, <1>3
-------------------------------------------------------------------------------
\* What a LOAD finds in a whole file.
String == [kind : {"key", "value", "cut"}, text : AnyKey \cup AnyValue]

LEMMA StringsAre ==
    ASSUME NEW items \in Seq(Item)
    PROVE  /\ Strings(items) \in Seq(String)
           /\ Len(Strings(items)) = 2 * Len(items)
           /\ \A i \in 1 .. Len(items) :
                 /\ Strings(items)[2 * i - 1] = [kind |-> "key", text |-> items[i].key]
                 /\ Strings(items)[2 * i] = [kind |-> "value", text |-> items[i].value]
           /\ \A i \in 1 .. 2 * Len(items) :
                 /\ Strings(items)[i].kind = "key" => Strings(items)[i].text \in AnyKey
                 /\ Strings(items)[i].kind = "value" => Strings(items)[i].text \in AnyValue
                 /\ Strings(items)[i].kind # "cut"
<1> DEFINE n == Len(items)
<1> DEFINE s == Strings(items)
<1>1. n \in Nat /\ 2 * n \in Nat
  OBVIOUS
<1>2. s = [i \in 1 .. 2 * n |->
              IF i % 2 = 1 THEN [kind |-> "key", text |-> items[(i + 1) \div 2].key]
              ELSE [kind |-> "value", text |-> items[i \div 2].value]]
  BY DEF Strings
<1>3. ASSUME NEW i \in 1 .. n
      PROVE  items[i].key \in AnyKey /\ items[i].value \in AnyValue
  <2>1. items[i] \in Item
    OBVIOUS
  <2> QED
    BY <2>1 DEF Item
<1> HIDE DEF s, n
<1>4. ASSUME NEW i \in 1 .. n
      PROVE  /\ s[2 * i - 1] = [kind |-> "key", text |-> items[i].key]
             /\ s[2 * i] = [kind |-> "value", text |-> items[i].value]
  <2>1. /\ 2 * i - 1 \in 1 .. 2 * n /\ (2 * i - 1) % 2 = 1 /\ ((2 * i - 1) + 1) \div 2 = i
        /\ 2 * i \in 1 .. 2 * n /\ (2 * i) % 2 # 1 /\ (2 * i) \div 2 = i
    BY <1>1
  <2> QED
    BY <1>2, <2>1
<1>5. ASSUME NEW i \in 1 .. 2 * n
      PROVE  \E j \in 1 .. n : i = 2 * j - 1 \/ i = 2 * j
  <2>1. CASE i % 2 = 1
    <3>1. (i + 1) \div 2 \in 1 .. n /\ i = 2 * ((i + 1) \div 2) - 1
      BY <1>1, <2>1
    <3> QED
      BY <3>1
  <2>2. CASE i % 2 # 1
    <3>1. i \div 2 \in 1 .. n /\ i = 2 * (i \div 2)
      BY <1>1, <2>2
    <3> QED
      BY <3>1
  <2> QED
    BY <2>1, <2>2
<1>6. ASSUME NEW i \in 1 .. 2 * n
      PROVE  /\ s[i] \in String
             /\ s[i].kind = "key" => s[i].text \in AnyKey
             /\ s[i].kind = "value" => s[i].text \in AnyValue
             /\ s[i].kind # "cut"
  <2>1. PICK j \in 1 .. n : i = 2 * j - 1 \/ i = 2 * j
    BY <1>5
  <2>2. CASE i = 2 * j - 1
    <3>1. s[i] = [kind |-> "key", text |-> items[j].key]
      BY <1>4, <2>2
    <3> QED
      BY <1>3, <3>1 DEF String
  <2>3. CASE i = 2 * j
    <3>1. s[i] = [kind |-> "value", text |-> items[j].value]
      BY <1>4, <2>3
    <3> QED
      BY <1>3, <3>1 DEF String
  <2> QED
    BY <2>1, <2>2, <2>3
<1>7. s \in Seq(String) /\ Len(s) = 2 * n
  <2>1. s = [i \in 1 .. 2 * n |-> s[i]]
    BY <1>2
  <2>2. s \in [1 .. 2 * n -> String]
    BY <1>6, <2>1
  <2> QED
    BY <1>1, <2>2
<1> QED
  BY <1>4, <1>6, <1>7 DEF s, n

-------------------------------------------------------------------------------
\* Most actions leave what was written alone.
LEMMA SameStream ==
    ASSUME Stream, UNCHANGED <<image, stream>>, saving' => saving,
           trouble \subseteq trouble', "headless" \in trouble' => "headless" \in trouble
    PROVE  Stream'
<1>1. "disk" \notin trouble' => "disk" \notin trouble
  OBVIOUS
<1>2. "torn" \notin trouble' => "torn" \notin trouble
  OBVIOUS
<1> QED
  BY <1>1, <1>2 DEF Stream, Pair, HasCut

\* A set of items in some order, each once.
LEMMA InSomeOrder ==
    ASSUME NEW s, IsFiniteSet(DOMAIN s), DOMAIN s \subseteq AnyKey, Range(s) \subseteq AnyValue,
           NEW items \in SetToSeqs({[key |-> k, value |-> s[k]] : k \in DOMAIN s})
    PROVE  /\ items \in Seq(Item)
           /\ \A i, j \in DOMAIN items : items[i].key = items[j].key => i = j
<1> DEFINE S == {[key |-> k, value |-> s[k]] : k \in DOMAIN s}
<1> DEFINE f == [k \in DOMAIN s |-> [key |-> k, value |-> s[k]]]
<1>1. IsFiniteSet(S)
  <2>1. f \in [DOMAIN s -> S] /\ \A t \in S : \E k \in DOMAIN s : f[k] = t
    OBVIOUS
  <2>2. f \in Surjection(DOMAIN s, S)
    BY <2>1 DEF Surjection
  <2> QED
    BY <2>2, FS_Surjection
<1>2. Cardinality(S) \in Nat
  BY <1>1, FS_CardinalityType
<1>3. S \subseteq Item
  BY DEF Item, Range
<1>4. \A x, y \in S : x.key = y.key => x = y
  OBVIOUS
<1> HIDE DEF S
<1>5. items \in [1 .. Cardinality(S) -> S]
      /\ \A i, j \in 1 .. Cardinality(S) : i # j => items[i] # items[j]
  BY DEF SetToSeqs, S
<1>6. items \in Seq(Item)
  BY <1>2, <1>3, <1>5
<1>7. ASSUME NEW i \in DOMAIN items, NEW j \in DOMAIN items, items[i].key = items[j].key
      PROVE  i = j
  <2>1. items[i] \in S /\ items[j] \in S
    BY <1>5
  <2>2. items[i] = items[j]
    BY <1>4, <1>7, <2>1
  <2> QED
    BY <1>5, <2>2
<1> QED
  BY <1>6, <1>7
\* SAVE sets out to write the items it finds, each key once.
LEMMA OpenedStream ==
    ASSUME TypeOK, IsFiniteSet(DOMAIN store),
           image' \in SetToSeqs({[key |-> k, value |-> store[k]] : k \in DOMAIN store}),
           stream' = Strings(image'), trouble' = {}
    PROVE  /\ Stream' /\ image' \in Seq(Item) /\ stream' \in Seq(String)
           /\ Len(stream') = 2 * Len(image')
<1>1. DOMAIN store \subseteq AnyKey /\ Range(store) \subseteq AnyValue
  BY DEF TypeOK
<1>2. /\ image' \in Seq(Item)
      /\ \A i, j \in DOMAIN image' : image'[i].key = image'[j].key => i = j
  BY <1>1, InSomeOrder
<1>3. /\ stream' \in Seq(String)
      /\ Len(stream') = 2 * Len(image')
      /\ \A i \in 1 .. Len(image') :
            /\ stream'[2 * i - 1] = [kind |-> "key", text |-> image'[i].key]
            /\ stream'[2 * i] = [kind |-> "value", text |-> image'[i].value]
      /\ \A i \in 1 .. 2 * Len(image') :
            /\ stream'[i].kind = "key" => stream'[i].text \in AnyKey
            /\ stream'[i].kind = "value" => stream'[i].text \in AnyValue
            /\ stream'[i].kind # "cut"
  BY <1>2, StringsAre
<1>4. Len(image') \in Nat /\ DOMAIN image' = 1 .. Len(image')
      /\ DOMAIN stream' = 1 .. 2 * Len(image')
  BY <1>2, <1>3
<1>5. ASSUME NEW i \in Nat \ {0}, 2 * i <= Len(stream')
      PROVE  /\ stream'[2 * i - 1].kind = "key" /\ stream'[2 * i].kind = "value"
             /\ Pair(i)' \in Range(image')
  <2>1. i \in 1 .. Len(image')
    BY <1>3, <1>4, <1>5
  <2>2. /\ stream'[2 * i - 1] = [kind |-> "key", text |-> image'[i].key]
        /\ stream'[2 * i] = [kind |-> "value", text |-> image'[i].value]
    BY <1>3, <2>1
  <2>3. image'[i] \in Item
    BY <1>2, <2>1
  <2>4. Pair(i)' = image'[i]
    BY <2>2, <2>3 DEF Pair, Item
  <2> QED
    BY <1>4, <2>1, <2>2, <2>4 DEF Range
<1>6. \E h \in Nat : Len(stream') = 2 * h
  BY <1>3, <1>4
<1>7. Len(stream') <= 2 * Len(image')
  BY <1>3, <1>4
<1>8. ~HasCut'
  BY <1>3, <1>4 DEF HasCut
<1> QED
  BY <1>2, <1>3, <1>4, <1>5, <1>6, <1>7, <1>8 DEF Stream

\* The sequence t that is left when the strings from p to l are left out of s.
Without(t, s, p, l) ==
    /\ Len(t) = (p - 1) + (Len(s) - l)
    /\ \A i \in 1 .. p - 1 : t[i] = s[i]
    /\ \A i \in p .. Len(t) : t[i] = s[i - (p - 1) + l]

LEMMA LeftOut ==
    ASSUME NEW S, NEW s \in Seq(S), NEW p \in Nat, NEW l \in Nat,
           1 <= p, p <= l, l < Len(s),
           NEW t, t = SubSeq(s, 1, p - 1) \o <<>> \o SubSeq(s, l + 1, Len(s))
    PROVE  Without(t, s, p, l)
<1> DEFINE a == SubSeq(s, 1, p - 1)
<1> DEFINE b == SubSeq(s, l + 1, Len(s))
<1>1. Len(s) \in Nat
  OBVIOUS
<1>2. a \in Seq(S) /\ Len(a) = p - 1 /\ \A i \in 1 .. p - 1 : a[i] = s[i]
  BY <1>1
<1>3. b \in Seq(S) /\ Len(b) = Len(s) - l /\ \A i \in 1 .. Len(s) - l : b[i] = s[l + i]
  BY <1>1
<1>4. t = a \o b
  <2>1. t = (a \o <<>>) \o b
    OBVIOUS
  <2> HIDE DEF a, b
  <2>2. a \o <<>> = a
    BY <1>2
  <2> QED
    BY <2>1, <2>2
<1> HIDE DEF a, b
<1>5. /\ t \in Seq(S)
      /\ Len(t) = (p - 1) + (Len(s) - l)
      /\ \A i \in 1 .. p - 1 : t[i] = a[i]
      /\ \A i \in p .. (p - 1) + (Len(s) - l) : t[i] = b[i - (p - 1)]
  <2>0. a \in Seq(S) /\ b \in Seq(S)
    BY <1>2, <1>3
  <2>1. /\ t \in Seq(S) /\ Len(t) = Len(a) + Len(b)
        /\ \A i \in 1 .. Len(a) + Len(b) :
              t[i] = IF i <= Len(a) THEN a[i] ELSE b[i - Len(a)]
    <3>1. /\ a \o b \in Seq(S) /\ Len(a \o b) = Len(a) + Len(b)
          /\ \A i \in 1 .. Len(a) + Len(b) :
                (a \o b)[i] = IF i <= Len(a) THEN a[i] ELSE b[i - Len(a)]
      BY ONLY <2>0, ConcatProperties
    <3> QED
      BY ONLY <1>4, <3>1, Zenon
  <2>2. Len(a) \in Nat /\ Len(b) \in Nat
    BY <1>2, <1>3
  <2>4. \A i \in 1 .. p - 1 : i \in 1 .. Len(a) + Len(b) /\ i <= Len(a)
    BY <1>1, <1>2, <1>3
  <2>5. \A i \in p .. (p - 1) + (Len(s) - l) : i \in 1 .. Len(a) + Len(b) /\ ~(i <= Len(a))
    BY <1>1, <1>2, <1>3
  <2> QED
    BY <1>1, <1>2, <1>3, <2>1, <2>4, <2>5
<1>6. ASSUME NEW i \in p .. Len(t)
      PROVE  t[i] = s[i - (p - 1) + l]
  <2>1. i \in p .. (p - 1) + (Len(s) - l)
    BY <1>5, <1>6
  <2>2. i - (p - 1) \in 1 .. Len(s) - l /\ l + (i - (p - 1)) = i - (p - 1) + l
    BY <1>1, <2>1
  <2>3. t[i] = b[i - (p - 1)]
    BY <1>5, <2>1
  <2> QED
    BY <1>3, <2>2, <2>3
<1> QED
  BY <1>1, <1>2, <1>3, <1>5, <1>6 DEF Without

\* What was kept before a hole, a string cut short or none, and what follows.
SplicedFrom(t, before, s, kept, l, cut) ==
    /\ Len(t) = Len(before) + (Len(s) - l)
    /\ Len(before) \in Nat
    /\ Len(before) = (IF kept = 0 THEN 0 ELSE kept - 1) + Len(cut)
    /\ \A i \in 1 .. Len(t) :
          \/ \E j \in 1 .. Len(s) : t[i] = s[j]
          \/ \E j \in 1 .. Len(cut) : t[i] = cut[j]
    /\ \A j \in 1 .. Len(cut) : \E i \in 1 .. Len(t) : t[i] = cut[j]

LEMMA Spliced ==
    ASSUME NEW S, NEW s \in Seq(S), NEW kept \in Nat, NEW l \in Nat \ {0},
           kept <= l, l < Len(s), NEW cut \in Seq(S), Len(cut) <= 1,
           NEW before, before = SubSeq(s, 1, kept - 1) \o cut,
           NEW t, t = SubSeq(s, 1, kept - 1) \o cut \o SubSeq(s, l + 1, Len(s))
    PROVE  t \in Seq(S) /\ SplicedFrom(t, before, s, kept, l, cut)
<1> DEFINE a == SubSeq(s, 1, kept - 1)
<1> DEFINE b == SubSeq(s, l + 1, Len(s))
<1>1. Len(s) \in Nat /\ Len(cut) \in Nat
  OBVIOUS
<1>2. /\ a \in Seq(S) /\ Len(a) = (IF kept = 0 THEN 0 ELSE kept - 1)
      /\ \A i \in 1 .. Len(a) : i \in 1 .. Len(s) /\ a[i] = s[i]
  BY <1>1
<1>3. b \in Seq(S) /\ Len(b) = Len(s) - l
      /\ \A i \in 1 .. Len(b) : l + i \in 1 .. Len(s) /\ b[i] = s[l + i]
  BY ONLY <1>1, s \in Seq(S), l \in Nat \ {0}, l < Len(s)
<1>4. before = a \o cut /\ t = before \o b
  OBVIOUS
<1> HIDE DEF a, b
<1>5. /\ before \in Seq(S) /\ Len(before) = Len(a) + Len(cut) /\ Len(before) \in Nat
      /\ \A i \in 1 .. Len(before) :
            before[i] = IF i <= Len(a) THEN a[i] ELSE cut[i - Len(a)]
  <2>1. a \in Seq(S) /\ cut \in Seq(S) /\ Len(a) \in Nat /\ Len(cut) \in Nat
    BY <1>1, <1>2
  <2>2. /\ a \o cut \in Seq(S) /\ Len(a \o cut) = Len(a) + Len(cut)
        /\ \A i \in 1 .. Len(a) + Len(cut) :
              (a \o cut)[i] = IF i <= Len(a) THEN a[i] ELSE cut[i - Len(a)]
    BY ONLY <2>1, ConcatProperties
  <2>3. Len(a) + Len(cut) \in Nat
    BY ONLY <2>1
  <2> QED
    BY ONLY <1>4, <2>2, <2>3, Zenon
<1>6. /\ t \in Seq(S) /\ Len(t) = Len(before) + Len(b)
      /\ \A i \in 1 .. Len(t) :
            t[i] = IF i <= Len(before) THEN before[i] ELSE b[i - Len(before)]
  <2>1. /\ before \o b \in Seq(S) /\ Len(before \o b) = Len(before) + Len(b)
        /\ \A i \in 1 .. Len(before) + Len(b) :
              (before \o b)[i] = IF i <= Len(before) THEN before[i] ELSE b[i - Len(before)]
    <3>1. before \in Seq(S) /\ b \in Seq(S)
      BY ONLY <1>3, <1>5
    <3> QED
      BY ONLY <3>1, ConcatProperties
  <2> QED
    BY ONLY <1>4, <2>1, Zenon
<1>7. Len(a) \in Nat /\ Len(b) \in Nat
  BY <1>1, <1>2, <1>3
<1>8. ASSUME NEW i \in 1 .. Len(t)
      PROVE  \/ \E j \in 1 .. Len(s) : t[i] = s[j]
             \/ \E j \in 1 .. Len(cut) : t[i] = cut[j]
  <2>1. CASE i <= Len(a)
    <3>1. i \in 1 .. Len(a) /\ i \in 1 .. Len(before) /\ i <= Len(before)
      BY <1>1, <1>5, <1>7, <2>1
    <3>2. t[i] = s[i] /\ i \in 1 .. Len(s)
      BY <1>2, <1>5, <1>6, <2>1, <3>1
    <3> QED
      BY <3>2
  <2>2. CASE ~(i <= Len(a)) /\ i <= Len(before)
    <3>1. i - Len(a) \in 1 .. Len(cut) /\ i \in 1 .. Len(before)
      BY <1>1, <1>5, <1>7, <2>2
    <3>2. t[i] = cut[i - Len(a)]
      BY <1>5, <1>6, <2>2, <3>1
    <3> QED
      BY <3>1, <3>2
  <2>3. CASE ~(i <= Len(before))
    <3>1. i - Len(before) \in 1 .. Len(b)
      BY ONLY <1>5, <1>6, <1>7, <2>3, i \in 1 .. Len(t)
    <3>2. t[i] = b[i - Len(before)]
      BY <1>6, <2>3
    <3> QED
      BY <1>3, <3>1, <3>2
  <2> QED
    BY <2>1, <2>2, <2>3
<1>9. ASSUME NEW j \in 1 .. Len(cut)
      PROVE  \E i \in 1 .. Len(t) : t[i] = cut[j]
  <2> DEFINE i == Len(a) + j
  <2>1. i \in 1 .. Len(before) /\ i \in 1 .. Len(t) /\ i <= Len(before)
        /\ ~(i <= Len(a)) /\ i - Len(a) = j
    BY ONLY <1>1, <1>5, <1>6, <1>7, j \in 1 .. Len(cut)
  <2> HIDE DEF i
  <2>2. t[i] = cut[j]
    BY <1>5, <1>6, <2>1
  <2> QED
    BY <2>1, <2>2
<1> QED
  BY <1>1, <1>2, <1>3, <1>5, <1>6, <1>7, <1>8, <1>9 DEF SplicedFrom

\* A write that fails in a left subtree: unless it tears an item, the pairs that
\* are left are still items that were saved.
LEMMA TornStream ==
    ASSUME TypeOK, Stream, LeftSubtreeFails
    PROVE  /\ Stream' /\ stream' \in Seq(String)
           /\ Len(stream') <= 2 * Len(image) /\ put' \in 1 .. Len(stream')
<1> DEFINE n == Len(stream)
<1>1. stream \in Seq(String) /\ image \in Seq(Item) /\ n \in Nat /\ put \in Nat
      /\ Len(image) \in Nat /\ n <= 2 * Len(image)
  BY DEF TypeOK, String, End
<1>2. PICK p \in 0 .. put, l \in put .. n - 1, cut \in {<<>>, <<CutShort>>} :
          /\ l > 0 /\ stream[l].kind = "value"
          /\ stream' = SubSeq(stream, 1, p - 1) \o cut \o SubSeq(stream, l + 1, n)
          /\ put' = Len(SubSeq(stream, 1, p - 1) \o cut) + 1
          /\ trouble' = trouble \cup {"disk"}
                 \cup (IF p = 0 THEN {"headless"} ELSE {})
                 \cup (IF p = 0 \/ cut # <<>> \/ stream[p].kind # "key" THEN {"torn"} ELSE {})
  BY DEF LeftSubtreeFails
<1>3. image' = image /\ p \in Nat /\ l \in Nat \ {0} /\ p <= l /\ l < n
  BY <1>1, <1>2 DEF LeftSubtreeFails
<1> DEFINE m == Len(stream')
<1> DEFINE before == SubSeq(stream, 1, p - 1) \o cut
<1>4. CutShort \in String
  BY DEF CutShort, String, AnyKey
<1>5. cut \in Seq(String) /\ Len(cut) \in 0 .. 1 /\ (cut = <<>> <=> Len(cut) = 0)
      /\ \A j \in 1 .. Len(cut) : cut[j].kind = "cut"
  <2>1. CASE cut = <<>>
    BY <2>1
  <2>2. CASE cut = <<CutShort>>
    <3>1. cut \in Seq(String) /\ Len(cut) = 1 /\ cut[1] = CutShort
      BY <1>4, <2>2
    <3>2. cut # <<>> /\ \A j \in 1 .. Len(cut) : j = 1
      BY <2>2, <3>1
    <3> QED
      BY <3>1, <3>2 DEF CutShort
  <2> QED
    BY <1>2, <2>1, <2>2
<1>6. /\ stream' \in Seq(String)
      /\ m = Len(before) + (n - l)
      /\ Len(before) \in Nat
      /\ Len(before) = (IF p = 0 THEN 0 ELSE p - 1) + Len(cut)
      /\ \A i \in 1 .. m :
            \/ \E j \in 1 .. n : stream'[i] = stream[j]
            \/ \E j \in 1 .. Len(cut) : stream'[i] = cut[j]
      /\ \A j \in 1 .. Len(cut) : \E i \in 1 .. m : stream'[i] = cut[j]
  <2>1. Len(cut) <= 1
    BY <1>5
  <2>2. stream' = SubSeq(stream, 1, p - 1) \o cut \o SubSeq(stream, l + 1, Len(stream))
    BY <1>2
  <2>3. stream \in Seq(String) /\ p \in Nat /\ l \in Nat \ {0} /\ p <= l /\ l < Len(stream)
        /\ cut \in Seq(String) /\ before = SubSeq(stream, 1, p - 1) \o cut
    BY <1>1, <1>3, <1>5
  <2> HIDE DEF before
  <2>4. stream' \in Seq(String) /\ SplicedFrom(stream', before, stream, p, l, cut)
    BY ONLY <2>1, <2>2, <2>3, Spliced
  <2> QED
    BY <2>4 DEF SplicedFrom
<1> HIDE DEF before
<1>7. m <= n /\ m <= 2 * Len(image) /\ put' \in 1 .. m /\ m \in Nat
      /\ (cut = <<>> => m < n)
  <2>1. put' = Len(before) + 1
    BY <1>2 DEF before
  <2>2. m \in Nat
    BY <1>6
  <2>3. m = Len(before) + (n - l) /\ Len(before) \in Nat
        /\ Len(before) = (IF p = 0 THEN 0 ELSE p - 1) + Len(cut)
        /\ Len(cut) \in 0 .. 1 /\ (cut = <<>> => Len(cut) = 0)
    BY <1>5, <1>6
  <2> HIDE DEF m, n
  <2>4. n \in Nat /\ n <= 2 * Len(image) /\ Len(image) \in Nat
        /\ p \in Nat /\ l \in Nat \ {0} /\ p <= l /\ l < n
    BY <1>1, <1>3
  <2> DEFINE b == Len(before)
  <2> DEFINE c == Len(cut)
  <2>5. b \in Nat /\ c \in 0 .. 1 /\ b = (IF p = 0 THEN 0 ELSE p - 1) + c /\ m = b + (n - l)
    BY ONLY <2>3
  <2> HIDE DEF b, c
  <2>51. b <= l /\ (c = 0 => b < l)
    <3>1. CASE p = 0
      BY ONLY <2>4, <2>5, <3>1
    <3>2. CASE p # 0
      BY ONLY <2>4, <2>5, <3>2
    <3> QED
      BY ONLY <3>1, <3>2
  <2>6. m <= n /\ Len(before) + 1 <= m
    BY ONLY <2>4, <2>5, <2>51 DEF b
  <2>7. Len(cut) = 0 => m < n
    BY ONLY <2>4, <2>5, <2>51 DEF c
  <2> QED
    BY ONLY <2>1, <2>2, <2>3, <2>4, <2>6, <2>7
<1>8. \A i \in DOMAIN stream' :
          /\ stream'[i].kind = "key" => stream'[i].text \in AnyKey
          /\ stream'[i].kind = "value" => stream'[i].text \in AnyValue
  <2> SUFFICES ASSUME NEW i \in 1 .. m
               PROVE  /\ stream'[i].kind = "key" => stream'[i].text \in AnyKey
                      /\ stream'[i].kind = "value" => stream'[i].text \in AnyValue
    BY <1>6
  <2>1. CASE \E j \in 1 .. n : stream'[i] = stream[j]
    <3>1. DOMAIN stream = 1 .. n
      BY <1>1
    <3> QED
      BY <2>1, <3>1 DEF Stream
  <2>2. CASE \E j \in 1 .. Len(cut) : stream'[i] = cut[j]
    BY <1>5, <2>2
  <2> QED
    BY <1>6, <2>1, <2>2
<1>9. cut # <<>> => HasCut'
  <2> SUFFICES ASSUME cut # <<>>
               PROVE  HasCut'
    OBVIOUS
  <2>1. 1 \in 1 .. Len(cut)
    BY <1>5
  <2>2. \E i \in 1 .. m : stream'[i] = cut[1]
    BY <1>6, <2>1
  <2> QED
    BY <1>5, <2>1, <2>2 DEF HasCut
<1>10. ASSUME "torn" \notin trouble'
      PROVE  /\ ~HasCut'
             /\ \E h \in Nat : m = 2 * h
             /\ \A i \in Nat \ {0} :
                   2 * i <= m =>
                       /\ stream'[2 * i - 1].kind = "key" /\ stream'[2 * i].kind = "value"
                       /\ Pair(i)' \in Range(image')
  <2>1. "torn" \notin trouble /\ stream[p].kind = "key" /\ p # 0 /\ cut = <<>>
    BY <1>2, <1>10
  <2>0. /\ m = (p - 1) + (n - l)
        /\ \A i \in 1 .. p - 1 : stream'[i] = stream[i]
        /\ \A i \in p .. m : stream'[i] = stream[i - (p - 1) + l]
    <3>1. 1 <= p /\ p <= l /\ l < Len(stream)
      BY <1>3, <2>1
    <3>2. stream' = SubSeq(stream, 1, p - 1) \o <<>> \o SubSeq(stream, l + 1, Len(stream))
      BY <1>2, <2>1
    <3>3. stream \in Seq(String) /\ p \in Nat /\ l \in Nat
      BY <1>1, <1>3
    <3>4. Without(stream', stream, p, l)
      BY ONLY <3>1, <3>2, <3>3, LeftOut
    <3> QED
      BY <3>4 DEF Without
  <2>01. ~HasCut'
    <3>1. ~HasCut
      BY <2>1 DEF Stream
    <3>2. 1 .. Len(cut) = {}
      BY <2>1, <1>5
    <3>3. \A i \in 1 .. m : \E j \in 1 .. n : stream'[i] = stream[j]
      BY <1>6, <3>2
    <3> QED
      BY <3>1, <3>3 DEF HasCut
  <2>2. PICK h \in Nat : n = 2 * h
    BY <2>1 DEF Stream
  <2>3. \A i \in Nat \ {0} :
            2 * i <= n =>
                /\ stream[2 * i - 1].kind = "key" /\ stream[2 * i].kind = "value"
                /\ Pair(i) \in Range(image)
    BY <2>1 DEF Stream
  <2>4. PICK a \in Nat : p = 2 * a + 1
    <3>1. CASE p % 2 = 0
      <4>1. p \div 2 \in Nat \ {0} /\ p = 2 * (p \div 2) /\ 2 * (p \div 2) <= n
        BY <1>1, <1>3, <2>1, <3>1
      <4>2. stream[2 * (p \div 2)].kind = "value"
        BY <2>3, <4>1
      <4>3. stream[p].kind = "value"
        BY <4>1, <4>2
      <4> QED
        BY <2>1, <4>3
    <3>2. CASE p % 2 # 0
      <4>1. (p - 1) \div 2 \in Nat /\ p = 2 * ((p - 1) \div 2) + 1
        BY <1>1, <1>3, <2>1, <3>2
      <4> QED
        BY <4>1
    <3> QED
      BY <3>1, <3>2
  <2>5. PICK b \in Nat : l = 2 * b
    <3>1. CASE l % 2 = 0
      <4>1. l \div 2 \in Nat /\ l = 2 * (l \div 2)
        BY <1>3, <3>1
      <4> QED
        BY <4>1
    <3>2. CASE l % 2 # 0
      <4> DEFINE c == (l + 1) \div 2
      <4>1. c \in Nat \ {0} /\ l = 2 * c - 1
        BY <1>3, <3>2
      <4>2. 2 * c <= n
        BY <1>3, <2>2, <4>1
      <4> HIDE DEF c
      <4>3. stream[l].kind = "key"
        BY <2>3, <4>1, <4>2
      <4> QED
        BY <1>2, <4>3
    <3> QED
      BY <3>1, <3>2
  <2> HIDE DEF m, n
  <2>6. a <= b /\ b <= h
    BY <1>1, <1>3, <2>2, <2>4, <2>5
  <2>7. m = 2 * (a + h - b) /\ a + h - b \in Nat
    BY <2>0, <2>2, <2>4, <2>5, <2>6
  <2>8. ASSUME NEW i \in Nat \ {0}, 2 * i <= m
        PROVE  /\ stream'[2 * i - 1].kind = "key" /\ stream'[2 * i].kind = "value"
               /\ Pair(i)' \in Range(image')
    <3>1. PICK j \in Nat \ {0} :
              /\ 2 * j <= n
              /\ stream'[2 * i - 1] = stream[2 * j - 1]
              /\ stream'[2 * i] = stream[2 * j]
      <4>1. CASE i <= a
        <5>1. 2 * i - 1 \in 1 .. p - 1 /\ 2 * i \in 1 .. p - 1 /\ 2 * i <= n
          BY <2>2, <2>4, <2>6, <4>1
        <5> QED
          BY <2>0, <5>1 DEF m, n
      <4>2. CASE i > a
        <5> DEFINE j == i - a + b
        <5>1. 2 * i - 1 \in p .. m /\ 2 * i \in p .. m
          BY <2>4, <2>7, <2>8, <4>2
        <5>2. /\ (2 * i - 1) - (p - 1) + l = 2 * j - 1
              /\ 2 * i - (p - 1) + l = 2 * j
              /\ j \in Nat \ {0} /\ 2 * j <= n
          BY <2>2, <2>4, <2>5, <2>6, <2>7, <2>8, <4>2
        <5> HIDE DEF j
        <5>3. stream'[2 * i - 1] = stream[2 * j - 1] /\ stream'[2 * i] = stream[2 * j]
          BY <2>0, <5>1, <5>2
        <5> QED
          BY <5>2, <5>3
      <4> QED
        BY <4>1, <4>2
    <3>2. /\ stream[2 * j - 1].kind = "key" /\ stream[2 * j].kind = "value"
          /\ Pair(j) \in Range(image)
      BY <2>3, <3>1 DEF n
    <3>3. Pair(i)' = Pair(j)
      BY <3>1 DEF Pair
    <3> QED
      BY <1>3, <3>1, <3>2, <3>3
  <2> QED
    BY <2>01, <2>7, <2>8
<1>11. Stream'
  <2>1. \A i, j \in DOMAIN image' : image'[i].key = image'[j].key => i = j
    BY <1>3 DEF Stream
  <2>2. Len(stream') <= 2 * Len(image')
        /\ (Len(stream') = 2 * Len(image') => HasCut')
    BY <1>1, <1>3, <1>7, <1>9
  <2>3. "disk" \in trouble' /\ ("headless" \in trouble' => "torn" \in trouble')
    BY <1>2 DEF Stream
  <2> QED
    BY <1>8, <1>10, <2>1, <2>2, <2>3 DEF Stream
<1> QED
  BY <1>6, <1>7, <1>11
-------------------------------------------------------------------------------
LEMMA StoreFits ==
    ASSUME Inv
    PROVE  Fits(store) /\ IsFiniteSet(DOMAIN store)
  BY DEF Inv, TypeOK, Fits

\* How far LOAD gets in the file.
LEMMA Reach ==
    ASSUME Inv, NEW n \in 0 .. Len(image), Within(n)
    PROVE  /\ n \in Nat /\ Len(stream) \in Nat /\ 2 * n <= Len(stream)
           /\ DOMAIN stream = 1 .. Len(stream)
           /\ n # 0 /\ Garbled(2 * n) => 2 * n < Len(stream)
<1>1. Len(stream) \in Nat /\ Len(image) \in Nat /\ disk \in 0 .. Len(stream) + 1
      /\ DOMAIN stream = 1 .. Len(stream)
  BY DEF Inv, TypeOK, End
<1>2. CASE n = 0
  BY <1>1, <1>2
<1>3. CASE n # 0
  <2>1. n > 0 /\ n \in Nat
    BY <1>1, <1>3
  <2>2. 2 * n < disk /\ (Garbled(2 * n) => 2 * n < Len(stream))
    BY <2>1 DEF Within
  <2> QED
    BY <1>1, <2>1, <2>2
<1> QED
  BY <1>2, <1>3

\* A string that is not out of step and does not go on past its end is what the
\* file has there.
LEMMA TextIs ==
    ASSUME NEW kind, NEW i, Terminated, ~Garbled(i), NEW text \in Texts(kind, i),
           stream[i].kind = kind
    PROVE  text = stream[i].text
  BY DEF Texts

LEMMA NothingGarbled ==
    ASSUME NEW m \in Nat, ~Garbled(m), NEW i \in 1 .. m
    PROVE  ~Garbled(i)
<1>1. \A c \in 1 .. i : c \in 1 .. m
  OBVIOUS
<1> QED
  BY <1>1 DEF Garbled

LEMMA ReadingIs ==
    ASSUME NEW n \in Nat, NEW items \in Readings(n)
    PROVE  /\ items \in [1 .. n -> Item]
           /\ \A i \in 1 .. n : /\ items[i].key \in Texts("key", 2 * i - 1)
                               /\ items[i].value \in Texts("value", 2 * i)
<1> DEFINE Said(i) == [key : Texts("key", 2 * i - 1), value : Texts("value", 2 * i)]
<1> DEFINE All == UNION {Said(i) : i \in 1 .. n}
<1>1. items \in [1 .. n -> Item \cap All] /\ \A i \in 1 .. n : items[i] \in Said(i)
  BY DEF Readings
<1>2. items \in [1 .. n -> Item]
  <2> HIDE DEF All, Said
  <2> QED
    BY <1>1
<1>3. ASSUME NEW i \in 1 .. n
      PROVE  /\ items[i].key \in Texts("key", 2 * i - 1)
             /\ items[i].value \in Texts("value", 2 * i)
  BY <1>1
<1> QED
  BY <1>2, <1>3

\* What LOAD reads are items; if nothing was torn or goes on past its end, they
\* are items that were saved.
LEMMA ReadingsAre ==
    ASSUME Inv, NEW n \in 0 .. Len(image), Within(n), NEW items \in Readings(n)
    PROVE  /\ n \in Nat /\ Len(items) = n
           /\ \A i \in 1 .. n : items[i].key \in AnyKey /\ items[i].value \in AnyValue
           /\ Terminated /\ "torn" \notin trouble =>
                 \A i \in 1 .. n : /\ Pair(i) \in Range(image)
                                  /\ items[i].key = Pair(i).key /\ items[i].value = Pair(i).value
<1>1. n \in Nat /\ 2 * n <= Len(stream) /\ Len(stream) \in Nat
  BY Reach
<1>2. /\ items \in [1 .. n -> Item]
      /\ \A i \in 1 .. n : /\ items[i].key \in Texts("key", 2 * i - 1)
                          /\ items[i].value \in Texts("value", 2 * i)
  BY <1>1, ReadingIs
<1>3. Len(items) = n
  BY <1>1, <1>2
<1>4. ASSUME NEW i \in 1 .. n
      PROVE  items[i].key \in AnyKey /\ items[i].value \in AnyValue
  <2>1. items[i] \in Item
    BY <1>2
  <2> QED
    BY <2>1 DEF Item
<1>5. ASSUME Terminated, "torn" \notin trouble, NEW i \in 1 .. n
      PROVE  /\ Pair(i) \in Range(image)
             /\ items[i].key = Pair(i).key /\ items[i].value = Pair(i).value
  <2>1. /\ i \in Nat \ {0} /\ 2 * i <= Len(stream)
        /\ \A c \in 1 .. 2 * i - 1 : c \in 1 .. Len(stream)
        /\ \A c \in 1 .. 2 * i : c \in 1 .. Len(stream)
    BY <1>1
  <2>2. "headless" \notin trouble /\ ~HasCut
        /\ stream[2 * i - 1].kind = "key" /\ stream[2 * i].kind = "value"
        /\ Pair(i) \in Range(image)
    BY <1>5, <2>1 DEF Inv, Stream
  <2>3. ~Garbled(2 * i - 1) /\ ~Garbled(2 * i)
    BY <2>1, <2>2 DEF Garbled, HasCut
  <2>4. items[i].key = stream[2 * i - 1].text
    BY <1>2, <1>5, <2>2, <2>3, TextIs
  <2>5. items[i].value = stream[2 * i].text
    BY <1>2, <1>5, <2>2, <2>3, TextIs
  <2> QED
    BY <2>2, <2>4, <2>5 DEF Pair
<1> QED
  BY <1>1, <1>3, <1>4, <1>5

\* The engine after a LOAD.
LEMMA LoadedStore ==
    ASSUME Inv, NEW n \in 0 .. Len(image), Within(n), NEW items \in Readings(n),
           NEW lost
    PROVE  /\ Grown(Restored(items, lost), n, items)
           /\ DOMAIN Restored(items, lost) \subseteq AnyKey
           /\ Range(Restored(items, lost)) \subseteq AnyValue
<1> DEFINE s == Restored(items, lost)
<1>1. n \in Nat /\ Len(items) = n
      /\ \A i \in 1 .. n : items[i].key \in AnyKey /\ items[i].value \in AnyValue
  BY ReadingsAre
<1>2. Grown(s, n, items)
  <2>1. Fits(store) /\ Len(items) \in Nat
    BY <1>1, StoreFits
  <2>2. Grown(s, Len(items), items)
    BY <2>1, RestoredGrows
  <2> HIDE DEF s
  <2> QED
    BY <1>1, <2>2
<1> HIDE DEF s
<1>3. DOMAIN store \subseteq AnyKey /\ \A k \in DOMAIN store : store[k] \in AnyValue
  BY DEF Inv, TypeOK, Range
<1>4. ASSUME NEW k \in DOMAIN s
      PROVE  k \in AnyKey /\ s[k] \in AnyValue
  <2>1. CASE k \in DOMAIN store
    BY <1>2, <1>3, <2>1 DEF Grown
  <2>2. CASE k \notin DOMAIN store
    <3>1. PICK j \in 1 .. n : items[j].key = k /\ items[j].value = s[k]
      BY <1>2, <2>2 DEF Grown
    <3> QED
      BY <1>1, <3>1
  <2> QED
    BY <2>1, <2>2
<1>5. DOMAIN s \subseteq AnyKey /\ Range(s) \subseteq AnyValue
  BY <1>4 DEF Range
<1> QED
  BY <1>2, <1>5 DEF s
-------------------------------------------------------------------------------
\* A step that leaves the items and the strings of the last SAVE alone.
LEMMA StepAside ==
    ASSUME Inv, UNCHANGED <<engine, image, stream>>,
           IsFiniteSet(DOMAIN store'), DOMAIN store' \subseteq AnyKey,
           Range(store') \subseteq AnyValue,
           engine = "array" => Cardinality(DOMAIN store') <= Capacity,
           disk' \in 0 .. End, put' \in 0 .. End, saving' => disk' = 0,
           saving' \in BOOLEAN, acked' \in BOOLEAN,
           trouble' = trouble \/ trouble' = trouble \cup {"disk"},
           saving' => saving,
           Whole', Unanswered'
    PROVE  Inv'
<1>1. TypeOK'
  BY DEF Inv, TypeOK, End
<1>2. Stream'
  <2>1. Stream
    BY DEF Inv
  <2>2. trouble \subseteq trouble' /\ ("headless" \in trouble' => "headless" \in trouble)
    OBVIOUS
  <2> QED
    BY <2>1, <2>2, SameStream
<1> QED
  BY <1>1, <1>2 DEF Inv

LEMMA StoreIs ==
    ASSUME Inv
    PROVE  /\ IsFiniteSet(DOMAIN store) /\ DOMAIN store \subseteq AnyKey
           /\ Range(store) \subseteq AnyValue
           /\ engine = "array" => Cardinality(DOMAIN store) <= Capacity
  BY DEF Inv, TypeOK

LEMMA RestIs ==
    ASSUME Inv
    PROVE  /\ disk \in 0 .. End /\ put \in 0 .. End /\ (saving => disk = 0)
           /\ acked \in BOOLEAN /\ saving \in BOOLEAN
           /\ trouble \subseteq {"disk", "torn", "headless"}
           /\ Whole /\ Unanswered /\ End \in Nat \ {0}
<1>1. Len(stream) \in Nat
  BY DEF Inv, TypeOK
<1> QED
  BY <1>1 DEF Inv, TypeOK, End

LEMMA WriteInv ==
    ASSUME Inv, NEW k \in Key, NEW v \in Value \cup {Blank}, Write(k, v)
    PROVE  Inv'
<1>1. /\ IsFiniteSet(DOMAIN store') /\ DOMAIN store' \subseteq AnyKey
      /\ Range(store') \subseteq AnyValue
      /\ engine = "array" => Cardinality(DOMAIN store') <= Capacity
  <2>1. k \in AnyKey /\ v \in AnyValue
    BY DEF AnyKey, AnyValue
  <2>2. CASE k \in DOMAIN store
    <3>1. store' = [store EXCEPT ![k] = v]
      BY <2>2 DEF Write
    <3>2. DOMAIN store' = DOMAIN store
          /\ \A x \in DOMAIN store : store'[x] = IF x = k THEN v ELSE store[x]
      BY <3>1
    <3>3. \A x \in DOMAIN store : store[x] \in AnyValue
      BY StoreIs DEF Range
    <3> QED
      BY <2>1, <3>2, <3>3, StoreIs DEF Range
  <2>3. CASE k \notin DOMAIN store
    <3> DEFINE item == [key |-> k, value |-> v]
    <3>1. store' = Set(store, item)
      BY <2>3 DEF Write
    <3>2. Fits(store)
      BY StoreFits
    <3>3. item.key = k /\ item.value = v
      OBVIOUS
    <3> HIDE DEF item
    <3>4. /\ Fits(store')
          /\ \/ store' = store
             \/ /\ DOMAIN store' = DOMAIN store \cup {k}
                /\ store'[k] = v
                /\ \A x \in DOMAIN store : store'[x] = store[x]
      <4>1. /\ Fits(Set(store, item))
            /\ \/ Set(store, item) = store /\ (Full(store) \/ item.key \in DOMAIN store)
               \/ /\ item.key \notin DOMAIN store
                  /\ DOMAIN Set(store, item) = DOMAIN store \cup {item.key}
                  /\ Set(store, item)[item.key] = item.value
                  /\ \A x \in DOMAIN store : Set(store, item)[x] = store[x]
        BY <3>2, SetIs
      <4> QED
        BY <3>1, <3>3, <4>1
    <3>5. \A x \in DOMAIN store : store[x] \in AnyValue
      BY StoreIs DEF Range
    <3>6. DOMAIN store' \subseteq AnyKey /\ \A x \in DOMAIN store' : store'[x] \in AnyValue
      BY <2>1, <3>4, <3>5, StoreIs
    <3> QED
      BY <3>4, <3>6 DEF Fits, Range
  <2> QED
    BY <2>2, <2>3
<1>2. UNCHANGED <<engine, image, stream, disk, put, acked, saving, trouble>> /\ ~saving
  BY DEF Write, file
<1>3. Whole' /\ Unanswered'
  BY <1>2, RestIs DEF Whole, Unanswered, End
<1> QED
  BY <1>1, <1>2, <1>3, RestIs, StepAside

LEMMA DelInv ==
    ASSUME Inv, NEW k, Del(k)
    PROVE  Inv'
<1>1. /\ IsFiniteSet(DOMAIN store') /\ DOMAIN store' \subseteq AnyKey
      /\ Range(store') \subseteq AnyValue
      /\ engine = "array" => Cardinality(DOMAIN store') <= Capacity
  <2>1. store' = [x \in DOMAIN store \ {k} |-> store[x]]
    BY DEF Del
  <2>2. DOMAIN store' = DOMAIN store \ {k} /\ \A x \in DOMAIN store' : store'[x] = store[x]
    BY <2>1
  <2>3. IsFiniteSet(DOMAIN store') /\ Cardinality(DOMAIN store') <= Cardinality(DOMAIN store)
    BY <2>2, StoreIs, FS_Subset
  <2>4. Cardinality(DOMAIN store) \in Nat /\ Cardinality(DOMAIN store') \in Nat
    BY <2>3, StoreIs, FS_CardinalityType
  <2>5. Range(store') \subseteq AnyValue
    BY <2>2, StoreIs DEF Range
  <2>6. engine = "array" => Cardinality(DOMAIN store') <= Capacity
    BY <2>3, <2>4, StoreIs, CapacityAssumption
  <2> QED
    BY <2>2, <2>3, <2>5, <2>6, StoreIs
<1>2. UNCHANGED <<engine, image, stream, disk, put, acked, saving, trouble>> /\ ~saving
  BY DEF Del, file
<1>3. Whole' /\ Unanswered'
  BY <1>2, RestIs DEF Whole, Unanswered, End
<1> QED
  BY <1>1, <1>2, <1>3, RestIs, StepAside

LEMMA OpenInv ==
    ASSUME Inv, Open
    PROVE  Inv'
<1>1. CASE UNCHANGED <<file, put, saving, trouble>>
  <2>1. UNCHANGED <<engine, store, image, stream, disk, put, acked, saving, trouble>> /\ ~saving
    BY <1>1 DEF Open, file
  <2>2. Whole' /\ Unanswered'
    BY <2>1, RestIs DEF Whole, Unanswered, End
  <2> QED
    BY <2>1, <2>2, RestIs, StoreIs, StepAside
<1>2. CASE ~UNCHANGED <<file, put, saving, trouble>>
  <2>1. /\ image' \in SetToSeqs({[key |-> k, value |-> store[k]] : k \in DOMAIN store})
        /\ stream' = Strings(image')
        /\ put' = 0 /\ disk' = 0 /\ saving' = TRUE /\ acked' = FALSE
        /\ trouble' = {}
        /\ reply' = [op |-> "SAVE", result |-> "NONE", lacked |-> {}]
        /\ UNCHANGED <<engine, store>>
    BY <1>2 DEF Open, Answer, AnswerLacking
  <2>2. TypeOK /\ IsFiniteSet(DOMAIN store)
    BY DEF Inv
  <2>3. /\ Stream' /\ image' \in Seq(Item) /\ stream' \in Seq(String)
        /\ Len(stream') = 2 * Len(image')
    BY <2>1, <2>2, OpenedStream
  <2>4. Len(image') \in Nat /\ Len(stream') \in Nat
    BY <2>3
  <2>5. TypeOK'
    <3>1. Len(stream') <= 2 * Len(image')
      BY <2>3, <2>4
    <3>2. disk' \in 0 .. End' /\ put' \in 0 .. End'
      BY <2>1, <2>4 DEF End
    <3> QED
      BY <2>1, <2>2, <2>3, <3>1, <3>2 DEF TypeOK, String
  <2>6. Whole' /\ Unanswered'
    BY <2>1 DEF Whole, Unanswered
  <2> QED
    BY <2>1, <2>2, <2>3, <2>5, <2>6 DEF Inv
<1> QED
  BY <1>1, <1>2

LEMMA PutInv ==
    ASSUME Inv, Put
    PROVE  Inv'
<1>1. /\ UNCHANGED <<engine, store, image, stream, disk, acked, saving, trouble, reply>>
      /\ put' = put + 1 /\ put < End
  BY DEF Put, file
<1>2. put' \in 0 .. End
  BY <1>1, RestIs
<1>3. Whole' /\ Unanswered'
  BY <1>1, RestIs DEF Whole, Unanswered, End
<1> QED
  BY <1>1, <1>2, <1>3, RestIs, StoreIs, StepAside

LEMMA PutFailsInv ==
    ASSUME Inv, PutFails
    PROVE  Inv'
<1>1. /\ UNCHANGED <<engine, store, image, stream, acked>>
      /\ trouble' = trouble \/ trouble' = trouble \cup {"disk"}
      /\ disk' \in 0 .. put /\ saving' = FALSE /\ put' = 0 /\ saving
  BY DEF PutFails
<1>2. disk' \in 0 .. End /\ put' \in 0 .. End
  BY <1>1, RestIs
<1>3. ~acked
  BY <1>1, RestIs DEF Unanswered
<1>4. Whole' /\ Unanswered'
  BY <1>1, <1>3 DEF Whole, Unanswered
<1> QED
  BY <1>1, <1>2, <1>4, RestIs, StoreIs, StepAside

LEMMA LeftSubtreeFailsInv ==
    ASSUME Inv, LeftSubtreeFails
    PROVE  Inv'
<1>1. /\ UNCHANGED <<engine, store, image, disk, saving, acked, reply>> /\ saving
      /\ trouble' \subseteq trouble \cup {"disk", "torn", "headless"}
  BY DEF LeftSubtreeFails
<1>2. TypeOK /\ Stream /\ IsFiniteSet(DOMAIN store)
  BY DEF Inv
<1>3. /\ Stream' /\ stream' \in Seq(String)
      /\ Len(stream') <= 2 * Len(image) /\ put' \in 1 .. Len(stream')
  BY <1>2, TornStream
<1>4. Len(stream') \in Nat /\ disk' = 0
  BY <1>1, <1>2, <1>3 DEF TypeOK
<1>5. TypeOK'
  <2>1. Len(stream') <= 2 * Len(image')
    BY <1>1, <1>3, <1>4
  <2>2. disk' \in 0 .. End' /\ put' \in 0 .. End'
    BY <1>3, <1>4 DEF End
  <2> QED
    BY <1>1, <1>2, <1>3, <2>1, <2>2 DEF TypeOK, String
<1>6. ~acked
  BY <1>1, RestIs DEF Unanswered
<1>7. Whole' /\ Unanswered'
  BY <1>1, <1>6, RestIs DEF Whole, Unanswered
<1> QED
  BY <1>1, <1>2, <1>3, <1>5, <1>7 DEF Inv

LEMMA CloseInv ==
    ASSUME Inv, Close
    PROVE  Inv'
<1>1. /\ UNCHANGED <<engine, store, image, stream>> /\ saving
      /\ saving' = FALSE /\ put' = 0 /\ acked' = TRUE
      /\ \/ disk' = End /\ trouble' = trouble
         \/ disk' \in 0 .. End - 1 /\ trouble' = trouble \cup {"disk"}
  BY DEF Close
<1>2. disk' \in 0 .. End /\ put' \in 0 .. End
  BY <1>1, RestIs
<1>3. "disk" \notin trouble' => disk' = End /\ Len(stream) = 2 * Len(image)
  BY <1>1 DEF Inv, Stream
<1>4. Whole' /\ Unanswered'
  BY <1>1, <1>3 DEF Whole, Unanswered, End
<1> QED
  BY <1>1, <1>2, <1>4, RestIs, StoreIs, StepAside

LEMMA LoadInv ==
    ASSUME Inv, Load
    PROVE  Inv'
<1>1. UNCHANGED <<engine, image, stream, disk, acked, put, saving, trouble>> /\ ~saving
  BY DEF Load, file
<1>2. Whole' /\ Unanswered'
  BY <1>1, RestIs DEF Whole, Unanswered, End
<1>3. CASE LoadNothing
  <2>1. store' = store
    BY <1>3 DEF LoadNothing
  <2> QED
    BY <1>1, <1>2, <2>1, RestIs, StoreIs, StepAside
<1>4. CASE ~LoadNothing
  <2>1. PICK n \in 0 .. Len(image) : Within(n) /\ LoadItems(n)
    BY <1>4 DEF Load
  <2>2. PICK items \in Readings(n), lost \in SUBSET (1 .. n) : store' = Restored(items, lost)
    BY <2>1 DEF LoadItems
  <2>3. /\ Grown(store', n, items)
        /\ DOMAIN store' \subseteq AnyKey
        /\ Range(store') \subseteq AnyValue
    BY <2>1, <2>2, LoadedStore
  <2> QED
    BY <1>1, <1>2, <2>3, RestIs, StepAside DEF Grown, Fits
<1> QED
  BY <1>3, <1>4

LEMMA KillInv ==
    ASSUME Inv, Kill
    PROVE  Inv'
<1>1. /\ UNCHANGED <<engine, image, stream, acked>>
      /\ store' = [k \in {} |-> Blank]
      /\ IF saving THEN disk' \in 0 .. put ELSE disk' = disk
      /\ saving' = FALSE /\ put' = 0
      /\ trouble' = trouble
  BY DEF Kill
<1>2. disk' \in 0 .. End /\ put' \in 0 .. End
  BY <1>1, RestIs
<1>3. Whole' /\ Unanswered'
  <2>1. saving => ~acked
    BY RestIs DEF Unanswered
  <2> QED
    BY <1>1, <2>1, RestIs DEF Whole, Unanswered, End
<1>4. /\ IsFiniteSet(DOMAIN store') /\ DOMAIN store' \subseteq AnyKey
      /\ Range(store') \subseteq AnyValue
      /\ Cardinality(DOMAIN store') <= Capacity
  <2>1. DOMAIN store' = {}
    BY <1>1
  <2> QED
    BY <2>1, FS_EmptySet, CapacityAssumption DEF Range
<1> QED
  BY <1>1, <1>2, <1>3, <1>4, RestIs, StepAside

LEMMA InitInv ==
    ASSUME Init
    PROVE  Inv
<1>1. /\ IsFiniteSet(DOMAIN store) /\ DOMAIN store \subseteq AnyKey
      /\ Range(store) \subseteq AnyValue
      /\ Cardinality(DOMAIN store) <= Capacity
  <2>1. DOMAIN store = {}
    BY DEF Init
  <2> QED
    BY <2>1, FS_EmptySet, CapacityAssumption DEF Range
<1>2. image = <<>> /\ stream = <<>> /\ Len(image) = 0 /\ Len(stream) = 0
      /\ DOMAIN image = {} /\ DOMAIN stream = {}
  BY DEF Init
<1>3. TypeOK
  <2>1. image \in Seq(Item)
        /\ stream \in Seq([kind : {"key", "value", "cut"}, text : AnyKey \cup AnyValue])
    BY <1>2
  <2>2. Len(stream) <= 2 * Len(image) /\ 0 \in 0 .. End
    BY <1>2 DEF End
  <2>3. put = 0 /\ disk = 0 /\ saving = FALSE /\ acked = FALSE /\ trouble = {}
        /\ engine \in {"array", "rbtree", "hash", "skiptable"}
    BY DEF Init
  <2> QED
    BY <1>1, <2>1, <2>2, <2>3 DEF TypeOK
<1>4. Stream
  <2>1. Strings(image) = <<>>
    <3>1. 1 .. 2 * Len(image) = {}
      BY <1>2
    <3> QED
      BY <3>1 DEF Strings
  <2>2. \A i \in Nat \ {0} : ~(2 * i <= Len(stream))
    BY <1>2
  <2>3. \E h \in Nat : Len(stream) = 2 * h
    BY <1>2
  <2>4. Len(stream) = 2 * Len(image) /\ Len(stream) <= 2 * Len(image)
    BY <1>2
  <2>5. ~HasCut /\ trouble = {}
    BY <1>2 DEF HasCut, Init
  <2> QED
    BY <1>2, <2>1, <2>2, <2>3, <2>4, <2>5 DEF Stream
<1>5. Whole /\ Unanswered
  BY DEF Whole, Unanswered, Init
<1> QED
  BY <1>1, <1>3, <1>4, <1>5 DEF Inv

LEMMA StepInv ==
    ASSUME Inv, [Next]_vars
    PROVE  Inv'
<1>1. CASE UNCHANGED vars
  <2>1. UNCHANGED <<engine, store, image, stream, disk, acked, put, saving, trouble, reply>>
    BY <1>1 DEF vars, file
  <2>2. Whole' /\ Unanswered'
    BY <2>1, RestIs DEF Whole, Unanswered, End
  <2> QED
    BY <2>1, <2>2, RestIs, StoreIs, StepAside
<1>2. CASE \E k \in Key, v \in Value \cup {Blank} : Write(k, v)
  BY <1>2, WriteInv
<1>3. CASE \E k \in AnyKey : Del(k)
  BY <1>3, DelInv
<1> QED
  BY <1>1, <1>2, <1>3, OpenInv, PutInv, PutFailsInv, LeftSubtreeFailsInv, CloseInv,
     LoadInv, KillInv DEF Next

LEMMA Invariance == Spec => []Inv
<1>1. Init => Inv
  BY InitInv
<1>2. Inv /\ [Next]_vars => Inv'
  BY StepInv
<1> QED
  BY <1>1, <1>2, PTL DEF Spec

-------------------------------------------------------------------------------
\* Whatever is saved, loaded, killed or cut short, the types are right, and the
\* array holds no more than it has room for (kv_save.c).
THEOREM TypeCorrect == Spec => []TypeOK
<1>1. Inv => TypeOK
  BY DEF Inv
<1> QED
  BY <1>1, Invariance, PTL

\* No step but a LOAD answers one.
LEMMA OnlyLoadAnswers ==
    ASSUME Inv, [Next]_vars, Loaded, ~UNCHANGED vars
    PROVE  Load
<1>1. reply'.op = "LOAD"
  BY DEF Loaded
<1>2. CASE Put \/ LeftSubtreeFails
  <2>1. saving /\ reply' = reply
    BY <1>2 DEF Put, LeftSubtreeFails
  <2>2. reply.op = "SAVE"
    BY <2>1, RestIs DEF Unanswered
  <2> QED
    BY <1>1, <2>1, <2>2
<1>3. ASSUME NEW k, NEW v, Write(k, v)
      PROVE  FALSE
  BY <1>1, <1>3 DEF Write, Answer, AnswerLacking
<1>4. ASSUME NEW k, Del(k)
      PROVE  FALSE
  BY <1>1, <1>4 DEF Del, Answer, AnswerLacking
<1>5. ~Open
  BY <1>1 DEF Open, Answer, AnswerLacking
<1>6. ~PutFails /\ ~Close /\ ~Kill
  BY <1>1 DEF PutFails, Close, Kill, Answer, AnswerLacking
<1> QED
  BY <1>2, <1>3, <1>4, <1>5, <1>6 DEF Next

\* What a LOAD answers, and why.
LEMMA LoadAnswers ==
    ASSUME NEW n \in 0 .. Len(image), LoadItems(n)
    PROVE  \E items \in Readings(n), lost \in SUBSET (1 .. n) :
              /\ store' = Restored(items, lost)
              /\ lost # {} => "memory" \in reply'.lacked
              /\ 2 * n + 2 < disk => "reading" \in reply'.lacked
              /\ n = Len(image) /\ disk > 0 /\ "headless" \notin trouble =>
                    reply'.result = "SUCCESS"
              /\ reply'.result = "SUCCESS" /\ "headless" \notin trouble => n = Len(image)
<1>1. PICK items \in Readings(n), lost \in SUBSET (1 .. n) :
          /\ store' = Restored(items, lost)
          /\ \E result \in IF "headless" \in trouble /\ disk > 0 THEN {"SUCCESS", "ERROR"}
                           ELSE IF n = Len(image) /\ disk > 0 THEN {"SUCCESS"} ELSE {"ERROR"} :
                reply' = [op |-> "LOAD", result |-> result,
                          lacked |-> (IF lost # {} THEN {"memory"} ELSE {})
                              \cup (IF 2 * n + 2 < disk THEN {"reading"} ELSE {})]
  BY DEF LoadItems, AnswerLacking
<1>2. reply'.lacked = (IF lost # {} THEN {"memory"} ELSE {})
          \cup (IF 2 * n + 2 < disk THEN {"reading"} ELSE {})
  BY <1>1
<1>3. "headless" \notin trouble =>
          reply'.result = IF n = Len(image) /\ disk > 0 THEN "SUCCESS" ELSE "ERROR"
  BY <1>1
<1> QED
  BY <1>1, <1>2, <1>3

\* A snapshot whose SAVE answered SUCCESS and met no failing write can be loaded
\* until the next SAVE, whatever is written, deleted, loaded or killed in between,
\* unless that very LOAD cannot open the file, fails to read it or finds no
\* memory (kv_save.c:47-147).
THEOREM SnapshotsLoad == Spec => AckedSaveLoads
<1>1. ASSUME Inv, [Next]_vars, ~UNCHANGED vars, Loaded, acked, trouble = {}, reply'.lacked = {}
      PROVE  reply'.result = "SUCCESS"
  <2>1. Load
    BY <1>1, OnlyLoadAnswers
  <2>2. ~LoadNothing
    BY <1>1 DEF LoadNothing, AnswerLacking
  <2>3. PICK n \in 0 .. Len(image) : Within(n) /\ LoadItems(n)
    BY <2>1, <2>2 DEF Load
  <2>4. /\ ~(2 * n + 2 < disk)
        /\ n = Len(image) /\ disk > 0 => reply'.result = "SUCCESS"
    BY <1>1, <2>3, LoadAnswers
  <2>5. disk = Len(stream) + 1 /\ Len(stream) = 2 * Len(image)
    BY <1>1 DEF Inv, Whole, End
  <2>6. Len(image) \in Nat
    BY <1>1 DEF Inv, TypeOK
  <2>7. n = Len(image) /\ disk > 0
    BY <2>4, <2>5, <2>6
  <2> QED
    BY <2>4, <2>7
<1>2. Inv /\ [Next]_vars =>
          [Loaded /\ acked /\ trouble = {} /\ reply'.lacked = {} => reply'.result = "SUCCESS"]_vars
  BY <1>1
<1> QED
  BY <1>2, Invariance, PTL DEF Spec, AckedSaveLoads

\* A LOAD changes nothing that was there, and adds only items that were saved,
\* unless the file was torn within an item or a string, or a string went on past
\* its end, as the skip list's do (kv_save.c:134).
THEOREM LoadsOnlyAdd == Spec => LoadOnlyAdds
<1> DEFINE Adds ==
      Loaded =>
          /\ \A k \in DOMAIN store : k \in DOMAIN store' /\ store'[k] = store[k]
          /\ Terminated /\ "torn" \notin trouble =>
                \A k \in DOMAIN store' \ DOMAIN store :
                    [key |-> k, value |-> store'[k]] \in Range(image)
<1>1. ASSUME Inv, [Next]_vars, ~UNCHANGED vars, Loaded
      PROVE  Adds
  <2>1. Load
    BY <1>1, OnlyLoadAnswers
  <2>2. CASE LoadNothing
    <3>1. store' = store
      BY <2>2 DEF LoadNothing
    <3> QED
      BY <3>1
  <2>3. CASE ~LoadNothing
    <3>1. PICK n \in 0 .. Len(image) : Within(n) /\ LoadItems(n)
      BY <2>1, <2>3 DEF Load
    <3>2. PICK items \in Readings(n), lost \in SUBSET (1 .. n) : store' = Restored(items, lost)
      BY <3>1, LoadAnswers
    <3>3. Grown(store', n, items)
      BY <1>1, <3>1, <3>2, LoadedStore
    <3>4. Terminated /\ "torn" \notin trouble =>
              \A i \in 1 .. n : /\ Pair(i) \in Range(image)
                               /\ items[i].key = Pair(i).key /\ items[i].value = Pair(i).value
      BY <1>1, <3>1, ReadingsAre
    <3>5. ASSUME Terminated, "torn" \notin trouble, NEW k \in DOMAIN store' \ DOMAIN store
          PROVE  [key |-> k, value |-> store'[k]] \in Range(image)
      <4>1. PICK j \in 1 .. n : items[j].key = k /\ items[j].value = store'[k]
        BY <3>3 DEF Grown
      <4>2. /\ Pair(j) \in Range(image)
            /\ items[j].key = Pair(j).key /\ items[j].value = Pair(j).value
        BY <3>4, <3>5
      <4>3. Pair(j) = [key |-> Pair(j).key, value |-> Pair(j).value]
        BY DEF Pair
      <4> QED
        BY <4>1, <4>2, <4>3
    <3> QED
      BY <3>3, <3>5 DEF Grown
  <2> QED
    BY <2>2, <2>3
<1>2. Inv /\ [Next]_vars => [Adds]_vars
  BY <1>1
<1>3. Spec => [][Adds]_vars
  BY <1>2, Invariance, PTL DEF Spec
<1> QED
  BY <1>3 DEF LoadOnlyAdds

\* A LOAD that answers SUCCESS has brought back every item of the snapshot that
\* had a place and memory: no file that was cut short or has a hole is taken for
\* a whole one (kv_save.c:84-89, 180-186).  Excepted are the skip list and a file
\* that has lost its number of items.
THEOREM LoadsAreWhole == Spec => LoadIsWhole
<1> DEFINE Brings ==
      Loaded /\ reply'.result = "SUCCESS" /\ Terminated
            /\ "headless" \notin trouble /\ "memory" \notin reply'.lacked =>
          \A item \in Range(image) :
              \/ item.key \in DOMAIN store
              \/ item.key \in DOMAIN store' /\ store'[item.key] = item.value
              \/ Full(store)'
<1>1. ASSUME Inv, [Next]_vars, ~UNCHANGED vars, Loaded, reply'.result = "SUCCESS", Terminated,
             "headless" \notin trouble, "memory" \notin reply'.lacked, NEW item \in Range(image)
      PROVE  \/ item.key \in DOMAIN store
             \/ item.key \in DOMAIN store' /\ store'[item.key] = item.value
             \/ Full(store)'
  <2>1. Load
    BY <1>1, OnlyLoadAnswers
  <2>2. ~LoadNothing
    BY <1>1 DEF LoadNothing, AnswerLacking
  <2>3. PICK n \in 0 .. Len(image) : Within(n) /\ LoadItems(n)
    BY <2>1, <2>2 DEF Load
  <2>4. /\ n = Len(image)
        /\ \E items \in Readings(n), lost \in SUBSET (1 .. n) :
              store' = Restored(items, lost) /\ lost = {}
    BY <1>1, <2>3, LoadAnswers
  <2>5. PICK items \in Readings(n) : store' = Restored(items, {})
    BY <2>4
  <2>6. image \in Seq(Item) /\ Stream
    BY <1>1 DEF Inv, TypeOK
  <2>7. PICK i \in 1 .. n : item = image[i]
    BY <2>4, <2>6 DEF Range
  <2>8. /\ n \in Nat /\ Len(stream) = 2 * n /\ ~Garbled(2 * n)
    <3>1. /\ n \in Nat /\ Len(stream) \in Nat /\ 2 * n <= Len(stream)
          /\ Garbled(2 * n) => 2 * n < Len(stream)
      <4>1. n # 0
        BY <2>7
      <4> QED
        BY <1>1, <2>3, <4>1, Reach
    <3>2. Len(stream) <= 2 * n
      BY <2>4, <2>6 DEF Stream
    <3> QED
      BY <3>1, <3>2
  <2>9. stream = Strings(image)
    <3>1. ~HasCut
      BY <2>8 DEF Garbled, HasCut
    <3> QED
      BY <2>4, <2>6, <2>8, <3>1 DEF Stream
  <2>10. \A j \in 1 .. n :
            /\ stream[2 * j - 1] = [kind |-> "key", text |-> image[j].key]
            /\ stream[2 * j] = [kind |-> "value", text |-> image[j].value]
    BY <2>4, <2>6, <2>9, StringsAre
  <2>11. /\ Len(items) = n
         /\ \A j \in 1 .. n : /\ items[j].key \in Texts("key", 2 * j - 1)
                             /\ items[j].value \in Texts("value", 2 * j)
    <3>1. n \in Nat
      BY <2>8
    <3> QED
      BY <3>1, ReadingIs
  <2>12. ASSUME NEW j \in 1 .. n
         PROVE  items[j].key = image[j].key /\ items[j].value = image[j].value
    <3>1. 2 * j - 1 \in 1 .. 2 * n /\ 2 * j \in 1 .. 2 * n /\ 2 * n \in Nat
      BY <2>8
    <3>2. ~Garbled(2 * j - 1) /\ ~Garbled(2 * j)
      BY <2>8, <3>1, NothingGarbled
    <3>3. stream[2 * j - 1].kind = "key" /\ stream[2 * j - 1].text = image[j].key
      <4>1. stream[2 * j - 1] = [kind |-> "key", text |-> image[j].key]
        BY <2>10
      <4> QED
        BY <4>1
    <3>4. stream[2 * j].kind = "value" /\ stream[2 * j].text = image[j].value
      <4>1. stream[2 * j] = [kind |-> "value", text |-> image[j].value]
        BY <2>10
      <4> QED
        BY <4>1
    <3>5. items[j].key = stream[2 * j - 1].text
      BY <1>1, <2>11, <3>2, <3>3, TextIs
    <3>6. items[j].value = stream[2 * j].text
      BY <1>1, <2>11, <3>2, <3>4, TextIs
    <3> QED
      BY <3>3, <3>4, <3>5, <3>6
  <2>13. \A j, l \in 1 .. Len(items) : items[j].key = items[l].key => j = l
    <3>1. \A j, l \in DOMAIN image : image[j].key = image[l].key => j = l
      BY <2>6 DEF Stream
    <3>2. DOMAIN image = 1 .. n
      BY <2>4, <2>6
    <3> QED
      BY <2>11, <2>12, <3>1, <3>2
  <2>14. Covered(store', n, items)
    <3>1. Fits(store) /\ Len(items) \in Nat
      BY <1>1, <2>8, <2>11, StoreFits
    <3>2. Covered(Restored(items, {}), Len(items), items)
      BY <2>13, <3>1, RestoredCovers
    <3> QED
      BY <2>5, <2>11, <3>2
  <2>15. \/ items[i].key \in DOMAIN store
         \/ items[i].key \in DOMAIN store' /\ store'[items[i].key] = items[i].value
         \/ Full(store')
    BY <2>14 DEF Covered
  <2>16. Full(store') => Full(store)'
    BY <2>1 DEF Full, Load
  <2> QED
    BY <2>7, <2>12, <2>15, <2>16
<1>2. Inv /\ [Next]_vars => [Brings]_vars
  BY <1>1
<1>3. Spec => [][Brings]_vars
  BY <1>2, Invariance, PTL DEF Spec
<1> QED
  BY <1>3 DEF LoadIsWhole
===============================================================================
