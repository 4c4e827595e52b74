--------------------------- MODULE KVSkiptableProofs ---------------------------
(***************************************************************************)
(* Proofs about the skip list, for every set of keys, values and           *)
(* timestamps, every copy that strncpy can make of a key, every number of  *)
(* levels and of nodes.                                                    *)
(***************************************************************************)
EXTENDS KVSkiptable, FiniteSetTheorems, TLAPS

USE LevelAssumption, BoundAssumption, NilAssumption DEF Header

\* The shape of one node and of all of them.
Heights == UNION {[0 .. top -> Nat \cup {Nil}] : top \in 1 .. MaxLevel}
Record ==
    [key : StoredKey \cup {Nil}, value : Value \cup {Nil}, timestamp : Time \cup {Nil},
     forward : Heights]
Alive(n) == DOMAIN n \ {Header}
Shaped(n) ==
    /\ Header \in DOMAIN n /\ DOMAIN n \subseteq 0 .. MaxNodes
    /\ n \in [DOMAIN n -> Record]
    /\ DOMAIN n[Header].forward = 0 .. MaxLevel
    /\ \A x \in Alive(n) : n[x].key \in StoredKey /\ n[x].value \in Value /\ n[x].timestamp \in Time

\* The list gives every node a place pos[x].  On each level a pointer leads to
\* the node that comes next among those that reach the level.
Span(n, i) == {x \in DOMAIN n : i \in DOMAIN n[x].forward}
Follows(n, pos, i, x, y) ==
    \/ y = Nil /\ \A z \in Span(n, i) : pos[z] <= pos[x]
    \/ /\ y \in Span(n, i) /\ pos[x] < pos[y]
       /\ \A z \in Span(n, i) : pos[z] <= pos[x] \/ pos[y] <= pos[z]
Placed(n, pos, last) ==
    /\ pos \in [DOMAIN n -> 0 .. last]
    /\ \A x, y \in DOMAIN n : pos[x] = pos[y] => x = y
    /\ \A x \in Alive(n) : pos[Header] < pos[x]
Sorted(n, pos) == \A x, y \in Alive(n) : pos[x] < pos[y] => n[x].key <= n[y].key
Linear(n, pos) ==
    \A i \in 0 .. MaxLevel : \A x \in Span(n, i) : Follows(n, pos, i, x, n[x].forward[i])
Ordered(n, pos, last) ==
    last \in Nat /\ Placed(n, pos, last) /\ Sorted(n, pos) /\ Linear(n, pos)

\* level is the highest level that has nodes.
Tight(n, l) ==
    /\ l \in 0 .. MaxLevel
    /\ l > 0 => n[Header].forward[l] # Nil
    /\ \A i \in l + 1 .. MaxLevel : n[Header].forward[i] = Nil

\* As long as every key was stored whole, no two nodes have the same one.
KeysDiffer == degraded \/ \A x, y \in Live : node[x].key = node[y].key => x = y

\* The inductive invariant.  What the runs check of the pointers follows from
\* the order: a search needs to know that every node stands in the same order
\* on each of its levels, which no level says by itself.
Inv ==
    /\ Shaped(node)
    /\ \E pos, last : Ordered(node, pos, last)
    /\ Tight(node, level)
    /\ size = Cardinality(Live)
    /\ degraded \in BOOLEAN
    /\ KeysDiffer

-------------------------------------------------------------------------------
\* Least and greatest elements.
LEMMA Smallest ==
    ASSUME NEW S, S \subseteq Nat, S # {}
    PROVE  \E n \in S : \A m \in S : n <= m
<1> DEFINE R == OpToRel(<, Nat)
<1>1. IsWellFoundedOn(R, Nat)
  BY NatLessThanWellFounded
<1>2. \A x, y \in Nat : y < x => <<y, x>> \in R
  BY DEF OpToRel
<1> HIDE DEF R
<1>3. PICK n \in S : \A y \in S : ~(<<y, n>> \in R)
  BY <1>1, WFMin
<1>4. ASSUME NEW m \in S
      PROVE  n <= m
  <2>1. n \in Nat /\ m \in Nat
    OBVIOUS
  <2>2. ~(m < n)
    BY <1>2, <1>3, <2>1
  <2> QED
    BY <2>1, <2>2
<1> QED
  BY <1>4

LEMMA Greatest ==
    ASSUME NEW top \in Nat, NEW S, S \subseteq 0 .. top, S # {}
    PROVE  \E n \in S : \A m \in S : m <= n
<1> DEFINE T == {top - m : m \in S}
<1>1. T \subseteq Nat
  <2>1. \A m \in S : m \in 0 .. top
    OBVIOUS
  <2> QED
    BY <2>1
<1>2. T # {}
  OBVIOUS
<1> HIDE DEF T
<1>3. PICK t \in T : \A u \in T : t <= u
  BY <1>1, <1>2, Smallest
<1>4. PICK n \in S : t = top - n
  BY DEF T
<1>5. ASSUME NEW m \in S
      PROVE  m <= n
  <2>1. top - m \in T
    BY DEF T
  <2>2. top - n <= top - m
    BY <1>3, <1>4, <2>1
  <2>3. m \in Int /\ n \in Int
    OBVIOUS
  <2> QED
    BY <2>2, <2>3
<1> QED
  BY <1>5

\* Among some nodes there is a last one.
LEMMA LastOf ==
    ASSUME NEW last \in Nat, NEW D, NEW pos \in [D -> 0 .. last], NEW S, S \subseteq D, S # {}
    PROVE  \E x \in S : \A y \in S : pos[y] <= pos[x]
<1> DEFINE P == {pos[x] : x \in S}
<1>1. P \subseteq 0 .. last /\ P # {}
  OBVIOUS
<1> HIDE DEF P
<1>2. PICK p \in P : \A q \in P : q <= p
  BY <1>1, Greatest
<1>3. PICK x \in S : p = pos[x]
  BY DEF P
<1>4. \A y \in S : pos[y] \in P
  BY DEF P
<1> QED
  BY <1>2, <1>3, <1>4

-------------------------------------------------------------------------------
\* What Shaped says of a node.
LEMMA ShapeOfNode ==
    ASSUME NEW n, Shaped(n), NEW x \in DOMAIN n
    PROVE  /\ x \in Nat
           /\ n[x] \in Record
           /\ 0 \in DOMAIN n[x].forward /\ DOMAIN n[x].forward \subseteq 0 .. MaxLevel
           /\ \A i \in DOMAIN n[x].forward : \A j \in 0 .. i : j \in DOMAIN n[x].forward
           /\ \A i \in DOMAIN n[x].forward : n[x].forward[i] \in Nat \cup {Nil}
           /\ x # Header => n[x].key \in Int
<1>1. n[x] \in Record /\ x \in Nat
  BY DEF Shaped
<1>2. n[x].forward \in Heights
  BY <1>1 DEF Record
<1>3. PICK top \in 1 .. MaxLevel : n[x].forward \in [0 .. top -> Nat \cup {Nil}]
  BY <1>2 DEF Heights
<1>4. DOMAIN n[x].forward = 0 .. top
  BY <1>3
<1>5. x # Header => n[x].key \in Int
  BY KeptAssumption DEF Shaped, StoredKey, Alive
<1> QED
  BY <1>1, <1>3, <1>4, <1>5

LEMMA LevelZero ==
    ASSUME NEW n, Shaped(n)
    PROVE  Span(n, 0) = DOMAIN n
BY ShapeOfNode DEF Span

LEMMA HeaderSpans ==
    ASSUME NEW n, Shaped(n), NEW i \in 0 .. MaxLevel
    PROVE  Header \in Span(n, i)
BY DEF Shaped, Span

LEMMA OnLevelIsSpan == \A i : OnLevel(i) = Span(node, i)
BY DEF OnLevel, Span

-------------------------------------------------------------------------------
\* Where a search on level i stops: the last node of the level before k.
Before(k) == {x \in DOMAIN node : x = Header \/ node[x].key < k}
Stop(pos, w, i, k) ==
    w \in OnLevel(i) /\ \A z \in OnLevel(i) : z \in Before(k) <=> pos[z] <= pos[w]

LEMMA StopExists ==
    ASSUME NEW pos, NEW last, Shaped(node), Ordered(node, pos, last),
           NEW k \in Int, NEW i \in 0 .. MaxLevel
    PROVE  \E w : Stop(pos, w, i, k)
<1> DEFINE S == OnLevel(i) \cap Before(k)
<1>1. S \subseteq DOMAIN node /\ Header \in S
  BY HeaderSpans, OnLevelIsSpan DEF Before, Shaped
<1>2. last \in Nat /\ pos \in [DOMAIN node -> 0 .. last]
  BY DEF Ordered, Placed
<1> HIDE DEF S
<1>3. PICK w \in S : \A z \in S : pos[z] <= pos[w]
  BY <1>1, <1>2, LastOf
<1>4. w \in OnLevel(i) /\ w \in Before(k) /\ w \in DOMAIN node
  BY <1>1 DEF S
<1>5. ASSUME NEW z \in OnLevel(i), pos[z] <= pos[w]
      PROVE  z \in Before(k)
  <2>1. z \in DOMAIN node
    BY DEF OnLevel
  <2>2. CASE z = Header
    BY <2>1, <2>2 DEF Before
  <2>3. CASE z = w
    BY <1>4, <2>3
  <2>4. CASE z # Header /\ z # w
    <3>1. pos[Header] < pos[z] /\ pos[z] # pos[w] /\ pos[z] \in Int /\ pos[w] \in Int /\ pos[Header] \in Int
      BY <1>1, <1>2, <1>4, <2>1, <2>4 DEF Ordered, Placed, Alive, Shaped
    <3>2. pos[z] < pos[w] /\ w # Header
      BY <1>5, <3>1
    <3>3. node[z].key <= node[w].key
      BY <1>4, <2>1, <2>4, <3>2 DEF Ordered, Sorted, Alive
    <3>4. node[w].key < k
      BY <1>4, <3>2 DEF Before
    <3>5. node[z].key \in Int /\ node[w].key \in Int
      BY <1>4, <2>1, <2>4, <3>2, ShapeOfNode
    <3> QED
      BY <2>1, <3>3, <3>4, <3>5 DEF Before
  <2> QED
    BY <2>2, <2>3, <2>4
<1>6. ASSUME NEW z \in OnLevel(i), z \in Before(k)
      PROVE  pos[z] <= pos[w]
  BY <1>3, <1>6 DEF S
<1> QED
  BY <1>4, <1>5, <1>6 DEF Stop

\* One step of a walk on level i: on to the next node, or the end of the walk.
NextOf(i, x) == node[x].forward[i]
Onward(k, i, x) == NextOf(i, x) # Nil /\ node[NextOf(i, x)].key < k
Walking(f, k, i) ==
    f = [x \in OnLevel(i) |-> IF Onward(k, i, x) THEN f[NextOf(i, x)] ELSE x]

LEMMA WalkIsWalking == \A k, i : Walk(k, i) = CHOOSE f : Walking(f, k, i)
BY DEF Walk, Walking, Onward, NextOf

LEMMA NextFollows ==
    ASSUME NEW pos, NEW last, Ordered(node, pos, last), NEW i \in 0 .. MaxLevel, NEW x \in OnLevel(i)
    PROVE  Follows(node, pos, i, x, NextOf(i, x))
BY OnLevelIsSpan DEF Ordered, Linear, NextOf

\* A walk goes on exactly from the nodes before k that are not the last.
LEMMA GoesOn ==
    ASSUME NEW pos, NEW last, Shaped(node), Ordered(node, pos, last),
           NEW k \in Int, NEW i \in 0 .. MaxLevel, NEW w, Stop(pos, w, i, k), NEW x \in OnLevel(i)
    PROVE  /\ Onward(k, i, x) => /\ NextOf(i, x) \in OnLevel(i) /\ NextOf(i, x) \in Before(k)
                                 /\ pos[x] < pos[NextOf(i, x)]
           /\ (x \in Before(k) /\ ~Onward(k, i, x)) => x = w
<1> DEFINE y == NextOf(i, x)
<1>1. Follows(node, pos, i, x, y)
  BY NextFollows
<1>2. y # Nil => /\ y \in OnLevel(i) /\ pos[x] < pos[y]
                 /\ \A z \in OnLevel(i) : pos[z] <= pos[x] \/ pos[y] <= pos[z]
  BY <1>1, OnLevelIsSpan DEF Follows
<1>3. y = Nil => \A z \in OnLevel(i) : pos[z] <= pos[x]
  BY <1>1, OnLevelIsSpan, ShapeOfNode DEF Follows, Span
<1>4. Onward(k, i, x) <=> y # Nil /\ node[y].key < k
  BY DEF Onward
<1>5. \A z \in OnLevel(i) : z \in DOMAIN node /\ pos[z] \in Int
  BY DEF OnLevel, Ordered, Placed
<1>6. \A z, u \in OnLevel(i) : pos[z] = pos[u] => z = u
  BY <1>5 DEF Ordered, Placed
<1> HIDE DEF y
<1>7. ASSUME Onward(k, i, x)
      PROVE  y \in OnLevel(i) /\ y \in Before(k) /\ pos[x] < pos[y]
  BY <1>2, <1>4, <1>5, <1>7 DEF Before
<1>8. ASSUME x \in Before(k), ~Onward(k, i, x)
      PROVE  x = w
  <2>1. w \in OnLevel(i) /\ pos[x] <= pos[w] /\ w \in Before(k)
    BY <1>5, <1>8 DEF Stop
  <2>2. CASE y = Nil
    BY <1>3, <1>5, <1>6, <2>1, <2>2
  <2>3. CASE y # Nil
    <3>1. pos[y] <= pos[w] => y \in Before(k)
      BY <1>2, <2>3 DEF Stop
    <3>2. y # Header
      <4>1. pos[Header] <= pos[x]
        <5>1. x \in DOMAIN node
          BY <1>5
        <5>2. Header \in DOMAIN node
          BY DEF Shaped
        <5> QED
          BY <1>5, <5>1, <5>2 DEF Ordered, Placed, Alive
      <4>2. Header \in OnLevel(i)
        BY HeaderSpans, OnLevelIsSpan
      <4> QED
        BY <1>2, <1>5, <2>3, <4>1, <4>2
    <3>3. y \notin Before(k)
      BY <1>4, <1>8, <2>3, <3>2 DEF Before
    <3> QED
      BY <1>2, <1>5, <1>6, <2>1, <2>3, <3>1, <3>3
  <2> QED
    BY <2>2, <2>3
<1> QED
  BY <1>7, <1>8 DEF y

LEMMA WalkingExists ==
    ASSUME NEW pos, NEW last, Shaped(node), Ordered(node, pos, last),
           NEW k \in Int, NEW i \in 0 .. MaxLevel
    PROVE  \E f : Walking(f, k, i)
<1>1. PICK w : Stop(pos, w, i, k)
  BY StopExists
<1> DEFINE f == [x \in OnLevel(i) |-> IF x \in Before(k) THEN w ELSE x]
<1>2. ASSUME NEW x \in OnLevel(i)
      PROVE  f[x] = IF Onward(k, i, x) THEN f[NextOf(i, x)] ELSE x
  <2>1. CASE Onward(k, i, x)
    <3>1. /\ NextOf(i, x) \in OnLevel(i) /\ NextOf(i, x) \in Before(k)
          /\ pos[x] < pos[NextOf(i, x)]
      BY <1>1, <2>1, GoesOn
    <3>2. x \in Before(k)
      <4>1. pos[NextOf(i, x)] <= pos[w] /\ w \in OnLevel(i)
        BY <1>1, <3>1 DEF Stop
      <4>2. \A z \in OnLevel(i) : pos[z] \in Int
        BY DEF OnLevel, Ordered, Placed
      <4>3. pos[x] <= pos[w]
        BY <3>1, <4>1, <4>2
      <4> QED
        BY <1>1, <4>3 DEF Stop
    <3> QED
      BY <2>1, <3>1, <3>2
  <2>2. CASE ~Onward(k, i, x)
    <3>1. x \in Before(k) => x = w
      BY <1>1, <2>2, GoesOn
    <3> QED
      BY <2>2, <3>1
  <2> QED
    BY <2>1, <2>2
<1> HIDE DEF f
<1>3. f = [x \in OnLevel(i) |-> IF Onward(k, i, x) THEN f[NextOf(i, x)] ELSE x]
  <2>1. f = [x \in OnLevel(i) |-> f[x]]
    BY DEF f
  <2> QED
    BY <1>2, <2>1
<1> QED
  BY <1>3 DEF Walking

\* From the header, and from any node before k, a walk ends at the last node
\* before k.
LEMMA WalkStops ==
    ASSUME NEW pos, NEW last, Shaped(node), Ordered(node, pos, last),
           NEW k \in Int, NEW i \in 0 .. MaxLevel, NEW x \in OnLevel(i), x \in Before(k)
    PROVE  Stop(pos, Walk(k, i)[x], i, k)
<1> DEFINE f == Walk(k, i)
<1>1. Walking(f, k, i)
  BY WalkingExists, WalkIsWalking
<1>2. PICK w : Stop(pos, w, i, k)
  BY StopExists
<1> DEFINE S == {y \in OnLevel(i) \cap Before(k) : f[y] # w}
<1>3. S = {}
  <2> SUFFICES ASSUME S # {} PROVE FALSE
    OBVIOUS
  <2>1. S \subseteq DOMAIN node
    BY DEF OnLevel
  <2>2. last \in Nat /\ pos \in [DOMAIN node -> 0 .. last]
    BY DEF Ordered, Placed
  <2> HIDE DEF S
  <2>3. PICK y \in S : \A z \in S : pos[z] <= pos[y]
    BY <2>1, <2>2, LastOf
  <2>4. y \in OnLevel(i) /\ y \in Before(k) /\ f[y] # w
    BY DEF S
  <2>5. CASE Onward(k, i, y)
    <3> DEFINE z == NextOf(i, y)
    <3>1. z \in OnLevel(i) /\ z \in Before(k) /\ pos[y] < pos[z]
      BY <1>2, <2>4, <2>5, GoesOn
    <3>2. f[y] = f[z]
      BY <1>1, <2>4, <2>5 DEF Walking
    <3>3. z \notin S
      <4>1. \A u \in OnLevel(i) : pos[u] \in Int
        BY <2>2 DEF OnLevel
      <4> QED
        BY <2>3, <2>4, <3>1, <4>1
    <3> HIDE DEF z
    <3> QED
      BY <2>4, <3>1, <3>2, <3>3 DEF S
  <2>6. CASE ~Onward(k, i, y)
    <3>1. f[y] = y
      BY <1>1, <2>4, <2>6 DEF Walking
    <3>2. y = w
      BY <1>2, <2>4, <2>6, GoesOn
    <3> QED
      BY <2>4, <3>1, <3>2
  <2> QED
    BY <2>5, <2>6
<1>4. f[x] = w
  BY <1>3
<1> QED
  BY <1>2, <1>4

-------------------------------------------------------------------------------
\* A level above level has nobody but the header.
LEMMA AboveLevel ==
    ASSUME NEW pos, NEW last, Shaped(node), Ordered(node, pos, last), Tight(node, level),
           NEW i \in 0 .. MaxLevel, i > level
    PROVE  OnLevel(i) = {Header}
<1>1. level \in 0 .. MaxLevel
  BY DEF Tight
<1>2. i \in level + 1 .. MaxLevel
  BY <1>1
<1>3. node[Header].forward[i] = Nil
  BY <1>2 DEF Tight
<1>4. Header \in OnLevel(i)
  BY HeaderSpans, OnLevelIsSpan
<1>5. Follows(node, pos, i, Header, Nil)
  BY <1>3, <1>4, NextFollows DEF NextOf
<1>6. Nil \notin OnLevel(i)
  BY ShapeOfNode DEF OnLevel
<1>7. \A z \in OnLevel(i) : pos[z] <= pos[Header]
  BY <1>5, <1>6, OnLevelIsSpan DEF Follows
<1>8. ASSUME NEW z \in OnLevel(i)
      PROVE  z = Header
  <2>1. z \in DOMAIN node
    BY DEF OnLevel
  <2>2. pos[z] \in Int /\ pos[Header] \in Int
    BY <2>1 DEF Ordered, Placed, Shaped
  <2> QED
    BY <1>7, <2>1, <2>2 DEF Ordered, Placed, Alive
<1> QED
  BY <1>4, <1>8

\* update[]
Updating(f, k) ==
    f = [i \in 0 .. MaxLevel |->
            IF i > level THEN Header ELSE Walk(k, i)[IF i = level THEN Header ELSE f[i + 1]]]

LEMMA UpdateIsUpdating == \A k : Update(k) = CHOOSE f : Updating(f, k)
BY DEF Update, Updating

\* Every level is left at its last node before k, and the level below is
\* entered there: what one level holds, the next one does.
LEMMA Enters ==
    ASSUME NEW pos, NEW last, Shaped(node), Ordered(node, pos, last), Tight(node, level),
           NEW k \in Int, NEW i \in 0 .. MaxLevel, i < level, NEW w, Stop(pos, w, i + 1, k)
    PROVE  w \in OnLevel(i) /\ w \in Before(k)
<1>1. level \in 0 .. MaxLevel /\ i + 1 \in 0 .. MaxLevel /\ i \in 0 .. i + 1
  BY DEF Tight
<1>2. w \in OnLevel(i + 1)
  BY DEF Stop
<1>3. w \in OnLevel(i)
  BY <1>1, <1>2, ShapeOfNode DEF OnLevel
<1>4. pos[w] <= pos[w]
  BY <1>2 DEF OnLevel, Ordered, Placed
<1> QED
  BY <1>2, <1>3, <1>4 DEF Stop

LEMMA HeaderEnters ==
    ASSUME Shaped(node), NEW k \in Int, NEW i \in 0 .. MaxLevel
    PROVE  Header \in OnLevel(i) /\ Header \in Before(k)
BY HeaderSpans, OnLevelIsSpan DEF Before, Shaped

LEMMA HeaderStops ==
    ASSUME NEW pos, NEW last, Shaped(node), Ordered(node, pos, last), Tight(node, level),
           NEW k \in Int, NEW i \in 0 .. MaxLevel, i > level
    PROVE  Stop(pos, Header, i, k)
<1>1. OnLevel(i) = {Header}
  BY AboveLevel
<1>2. pos[Header] \in Int
  BY DEF Ordered, Placed, Shaped
<1> QED
  BY <1>1, <1>2, HeaderEnters DEF Stop

LEMMA StopIsOne ==
    ASSUME NEW pos, NEW last, Ordered(node, pos, last), NEW k, NEW i,
           NEW v, Stop(pos, v, i, k), NEW w, Stop(pos, w, i, k)
    PROVE  v = w
<1>1. v \in OnLevel(i) /\ w \in OnLevel(i) /\ v \in DOMAIN node /\ w \in DOMAIN node
  BY DEF Stop, OnLevel
<1>2. pos[v] \in Int /\ pos[w] \in Int
  BY <1>1 DEF Ordered, Placed
<1>3. pos[v] <= pos[w] /\ pos[w] <= pos[v]
  BY <1>1, <1>2 DEF Stop
<1> QED
  BY <1>1, <1>2, <1>3 DEF Ordered, Placed

LEMMA UpdatingExists ==
    ASSUME NEW pos, NEW last, Shaped(node), Ordered(node, pos, last), Tight(node, level),
           NEW k \in Int
    PROVE  \E f : Updating(f, k)
<1> DEFINE f == [i \in 0 .. MaxLevel |-> CHOOSE w : Stop(pos, w, i, k)]
<1>1. \A i \in 0 .. MaxLevel : Stop(pos, f[i], i, k)
  BY StopExists
<1>2. f = [i \in 0 .. MaxLevel |-> f[i]]
  OBVIOUS
<1> HIDE DEF f
<1>3. level \in 0 .. MaxLevel
  BY DEF Tight
<1>4. ASSUME NEW i \in 0 .. MaxLevel
      PROVE  f[i] = IF i > level THEN Header
                    ELSE Walk(k, i)[IF i = level THEN Header ELSE f[i + 1]]
  <2>1. CASE i > level
    BY <1>1, <2>1, HeaderStops, StopIsOne
  <2>2. CASE i = level
    <3>1. Stop(pos, Walk(k, i)[Header], i, k)
      BY HeaderEnters, WalkStops
    <3>2. f[i] = Walk(k, i)[Header]
      BY <1>1, <3>1, StopIsOne
    <3> QED
      BY <1>3, <2>2, <3>2
  <2>3. CASE i < level
    <3>1. i + 1 \in 0 .. MaxLevel
      BY <1>3, <2>3
    <3>2. f[i + 1] \in OnLevel(i) /\ f[i + 1] \in Before(k)
      BY <1>1, <2>3, <3>1, Enters
    <3>3. Stop(pos, Walk(k, i)[f[i + 1]], i, k)
      BY <3>2, WalkStops
    <3>4. f[i] = Walk(k, i)[f[i + 1]]
      BY <1>1, <3>3, StopIsOne
    <3> QED
      BY <1>3, <2>3, <3>4
  <2> QED
    BY <1>3, <2>1, <2>2, <2>3
<1>5. Updating(f, k)
  BY <1>2, <1>4 DEF Updating
<1> QED
  BY <1>5

LEMMA UpdateStops ==
    ASSUME NEW pos, NEW last, Shaped(node), Ordered(node, pos, last), Tight(node, level),
           NEW k \in Int
    PROVE  /\ DOMAIN Update(k) = 0 .. MaxLevel
           /\ \A i \in 0 .. MaxLevel : Stop(pos, Update(k)[i], i, k)
<1> DEFINE f == Update(k)
<1>1. Updating(f, k)
  BY UpdatingExists, UpdateIsUpdating
<1> HIDE DEF f
<1>2. level \in 0 .. MaxLevel
  BY DEF Tight
<1>3. \A i \in 0 .. MaxLevel : f[i] = IF i > level THEN Header
                                       ELSE Walk(k, i)[IF i = level THEN Header ELSE f[i + 1]]
  BY <1>1 DEF Updating
<1> DEFINE S == {i \in 0 .. MaxLevel : ~Stop(pos, f[i], i, k)}
<1>4. S = {}
  <2> SUFFICES ASSUME S # {} PROVE FALSE
    OBVIOUS
  <2>1. S \subseteq 0 .. MaxLevel /\ MaxLevel \in Nat
    OBVIOUS
  <2> HIDE DEF S
  <2>2. PICK i \in S : \A j \in S : j <= i
    BY <2>1, Greatest
  <2>3. i \in 0 .. MaxLevel /\ ~Stop(pos, f[i], i, k)
    BY DEF S
  <2>4. CASE i > level
    BY <1>3, <2>3, <2>4, HeaderStops
  <2>5. CASE i = level
    <3>1. f[i] = Walk(k, i)[Header]
      BY <1>2, <1>3, <2>3, <2>5
    <3> QED
      BY <2>3, <3>1, HeaderEnters, WalkStops
  <2>6. CASE i < level
    <3>1. i + 1 \in 0 .. MaxLevel /\ ~(i + 1 <= i)
      BY <1>2, <2>3, <2>6
    <3>2. Stop(pos, f[i + 1], i + 1, k)
      BY <2>2, <3>1 DEF S
    <3>3. f[i + 1] \in OnLevel(i) /\ f[i + 1] \in Before(k)
      BY <2>3, <2>6, <3>2, Enters
    <3>4. f[i] = Walk(k, i)[f[i + 1]]
      BY <1>2, <1>3, <2>3, <2>6
    <3> QED
      BY <2>3, <3>3, <3>4, WalkStops
  <2> QED
    BY <1>2, <2>3, <2>4, <2>5, <2>6
<1>5. DOMAIN f = 0 .. MaxLevel
  BY <1>1 DEF Updating
<1> QED
  BY <1>4, <1>5 DEF f

-------------------------------------------------------------------------------
\* The node a search ends at is the first that is not before k.
LEMMA CurrentIsFirst ==
    ASSUME NEW pos, NEW last, Shaped(node), Ordered(node, pos, last), Tight(node, level),
           NEW k \in Int
    PROVE  \/ Current(k) = Nil /\ DOMAIN node \subseteq Before(k)
           \/ /\ Current(k) \in Live /\ Current(k) \notin Before(k)
              /\ \A z \in DOMAIN node : z \in Before(k) \/ pos[Current(k)] <= pos[z]
<1> DEFINE w == Update(k)[0]
<1> DEFINE c == Current(k)
<1>1. 0 \in 0 .. MaxLevel
  OBVIOUS
<1>2. Stop(pos, w, 0, k)
  BY <1>1, UpdateStops
<1>3. OnLevel(0) = DOMAIN node
  BY LevelZero, OnLevelIsSpan
<1>4. c = NextOf(0, w)
  BY DEF Current, NextOf
<1>5. Follows(node, pos, 0, w, c)
  BY <1>1, <1>2, <1>4, NextFollows DEF Stop
<1> HIDE DEF w, c
<1>6. w \in DOMAIN node /\ \A z \in DOMAIN node : z \in Before(k) <=> pos[z] <= pos[w]
  BY <1>2, <1>3 DEF Stop
<1>7. \A z \in DOMAIN node : pos[z] \in Int
  BY DEF Ordered, Placed
<1>8. CASE c = Nil
  <2>1. Nil \notin Span(node, 0)
    BY ShapeOfNode DEF Span
  <2> QED
    BY <1>3, <1>5, <1>6, <1>8, <2>1, OnLevelIsSpan DEF Follows, c
<1>9. CASE c # Nil
  <2>1. c \in DOMAIN node /\ pos[w] < pos[c] /\ \A z \in DOMAIN node : pos[z] <= pos[w] \/ pos[c] <= pos[z]
    BY <1>3, <1>5, <1>9, OnLevelIsSpan DEF Follows
  <2>2. c \notin Before(k)
    BY <1>6, <1>7, <2>1
  <2>3. c \in Live
    BY <2>1, <2>2 DEF Before, Live
  <2> QED
    BY <1>6, <2>1, <2>2, <2>3 DEF c
<1> QED
  BY <1>8, <1>9

\* It has the key, if any node has.
LEMMA FoundIsThere ==
    ASSUME NEW pos, NEW last, Shaped(node), Ordered(node, pos, last), Tight(node, level),
           NEW k \in Int
    PROVE  /\ Found(k) => Current(k) \in Live /\ node[Current(k)].key = k
           /\ ~Found(k) => \A x \in Live : node[x].key # k
<1>1. Found(k) => Current(k) \in Live /\ node[Current(k)].key = k
  BY CurrentIsFirst DEF Found
<1>2. ASSUME NEW x \in Live, node[x].key = k
      PROVE  Found(k)
  <2> DEFINE c == Current(k)
  <2>1. x \in DOMAIN node /\ x \notin Before(k)
    BY <1>2 DEF Before, Live
  <2>2. c \in Live /\ c \notin Before(k) /\ pos[c] <= pos[x]
    BY <2>1, CurrentIsFirst
  <2>3. c # Nil
    BY <2>2, ShapeOfNode DEF Live
  <2>4. Found(k) <=> c # Nil /\ node[c].key = k
    BY DEF Found
  <2> HIDE DEF c
  <2>5. c \in DOMAIN node /\ c # Header /\ x # Header
    BY <2>2 DEF Live
  <2>6. node[c].key \in Int /\ node[c].key >= k
    BY <2>2, <2>5, ShapeOfNode DEF Before
  <2>7. c = x \/ pos[c] < pos[x]
    BY <2>1, <2>2, <2>5 DEF Ordered, Placed
  <2>8. node[c].key <= node[x].key
    BY <1>2, <2>1, <2>5, <2>6, <2>7 DEF Ordered, Sorted, Alive
  <2> QED
    BY <1>2, <2>3, <2>4, <2>6, <2>8
<1> QED
  BY <1>1, <1>2

-------------------------------------------------------------------------------
\* What Linked makes of each node.
Grown(n, new, u, top) ==
    /\ DOMAIN n = DOMAIN node \cup {new}
    /\ DOMAIN n[new].forward = 0 .. top
    /\ \A i \in 0 .. top : n[new].forward[i] = NextOf(i, u[i])
    /\ \A x \in DOMAIN node :
          /\ n[x].key = node[x].key /\ n[x].value = node[x].value
          /\ n[x].timestamp = node[x].timestamp
          /\ DOMAIN n[x].forward = DOMAIN node[x].forward
          /\ \A i \in DOMAIN node[x].forward :
                n[x].forward[i] = IF i <= top /\ u[i] = x THEN new ELSE NextOf(i, x)
    /\ n \in [DOMAIN n -> Record]

LEMMA LinkedNodes ==
    ASSUME Shaped(node), NEW new \in 1 .. MaxNodes, new \notin DOMAIN node,
           NEW item, item.key \in StoredKey, item.value \in Value, item.timestamp \in Time,
           NEW u, NEW top \in 1 .. MaxLevel,
           \A i \in 0 .. MaxLevel : u[i] \in OnLevel(i),
           NEW n, n = Linked(new, item, u, top)
    PROVE  /\ Grown(n, new, u, top)
           /\ n[new].key = item.key /\ n[new].value = item.value /\ n[new].timestamp = item.timestamp
<1>1. DOMAIN n = DOMAIN node \cup {new}
  BY DEF Linked
<1>2. n[new] = [key |-> item.key, value |-> item.value, timestamp |-> item.timestamp,
                forward |-> [i \in 0 .. top |-> node[u[i]].forward[i]]]
  BY DEF Linked
<1>3. ASSUME NEW x \in DOMAIN node
      PROVE  n[x] = [node[x] EXCEPT !.forward =
                        [i \in DOMAIN @ |-> IF i <= top /\ u[i] = x THEN new ELSE @[i]]]
  BY DEF Linked
<1>4. ASSUME NEW i \in 0 .. top
      PROVE  node[u[i]].forward[i] = NextOf(i, u[i]) /\ NextOf(i, u[i]) \in Nat \cup {Nil}
  <2>1. i \in 0 .. MaxLevel
    OBVIOUS
  <2>2. u[i] \in DOMAIN node /\ i \in DOMAIN node[u[i]].forward
    BY <2>1 DEF OnLevel
  <2> QED
    BY <2>2, ShapeOfNode DEF NextOf
<1> DEFINE fwd == [i \in 0 .. top |-> node[u[i]].forward[i]]
<1>5. fwd \in Heights
  <2>1. fwd \in [0 .. top -> Nat \cup {Nil}]
    BY <1>4
  <2> QED
    BY <2>1 DEF Heights
<1>6. n[new] = [key |-> item.key, value |-> item.value, timestamp |-> item.timestamp,
                forward |-> fwd]
  BY <1>2
<1>7. DOMAIN fwd = 0 .. top /\ \A i \in 0 .. top : fwd[i] = NextOf(i, u[i])
  BY <1>4
<1> HIDE DEF fwd
<1>8. n[new] \in Record
  BY <1>5, <1>6 DEF Record
<1>9. ASSUME NEW x \in DOMAIN node
      PROVE  /\ n[x] \in Record
             /\ n[x].key = node[x].key /\ n[x].value = node[x].value
             /\ n[x].timestamp = node[x].timestamp
             /\ DOMAIN n[x].forward = DOMAIN node[x].forward
             /\ \A i \in DOMAIN node[x].forward :
                   n[x].forward[i] = IF i <= top /\ u[i] = x THEN new ELSE NextOf(i, x)
  <2> DEFINE g == node[x].forward
  <2> DEFINE h == [i \in DOMAIN g |-> IF i <= top /\ u[i] = x THEN new ELSE g[i]]
  <2>1. node[x] \in Record
    BY DEF Shaped
  <2>2. n[x] = [node[x] EXCEPT !.forward = h]
    BY <1>3
  <2>3. g \in Heights
    BY <2>1 DEF Record
  <2>4. PICK t \in 1 .. MaxLevel : g \in [0 .. t -> Nat \cup {Nil}]
    BY <2>3 DEF Heights
  <2>5. h \in [0 .. t -> Nat \cup {Nil}]
    BY <2>4
  <2>6. h \in Heights
    BY <2>5 DEF Heights
  <2>7. DOMAIN h = DOMAIN g /\ \A i \in DOMAIN g : h[i] = IF i <= top /\ u[i] = x THEN new ELSE g[i]
    OBVIOUS
  <2>8. \A i : g[i] = NextOf(i, x)
    BY DEF NextOf
  <2> HIDE DEF h
  <2>9. /\ n[x] \in Record /\ n[x].forward = h
        /\ n[x].key = node[x].key /\ n[x].value = node[x].value /\ n[x].timestamp = node[x].timestamp
    BY <2>1, <2>2, <2>6 DEF Record
  <2> QED
    BY <2>7, <2>8, <2>9
<1>10. n = [x \in DOMAIN n |-> n[x]]
  BY DEF Linked
<1>11. n \in [DOMAIN n -> Record]
  BY <1>1, <1>8, <1>9, <1>10
<1> QED
  BY <1>1, <1>6, <1>7, <1>9, <1>11 DEF Grown

\* The places with a node more, behind place p.
Shifted(pos, p, new) ==
    [x \in DOMAIN pos \cup {new} |->
        IF x = new THEN p + 1 ELSE IF pos[x] <= p THEN pos[x] ELSE pos[x] + 1]

\* n is the list with a node for k linked in: what the next lemmas assume.
Inserted(n, pos, k, new, u, top) ==
    /\ new \in 1 .. MaxNodes /\ new \notin DOMAIN node /\ top \in 1 .. MaxLevel
    /\ \A i \in 0 .. MaxLevel : Stop(pos, u[i], i, k)
    /\ n[new].key = Kept[k] /\ n[new].value \in Value /\ n[new].timestamp \in Time
    /\ Grown(n, new, u, top)

LEMMA InsertedIsShaped ==
    ASSUME NEW k \in Key, Shaped(node), NEW n, NEW pos, NEW new, NEW u, NEW top,
           Inserted(n, pos, k, new, u, top)
    PROVE  Shaped(n) /\ Alive(n) = Live \cup {new}
<1>1. new \in 1 .. MaxNodes /\ new # Header /\ new \in 0 .. MaxNodes
  BY DEF Inserted, Grown
<1>2. DOMAIN n = DOMAIN node \cup {new} /\ n \in [DOMAIN n -> Record]
  BY DEF Inserted, Grown
<1>3. Alive(n) = Live \cup {new}
  BY <1>1, <1>2 DEF Alive, Live
<1>4. Header \in DOMAIN n /\ DOMAIN n \subseteq 0 .. MaxNodes
  BY <1>1, <1>2 DEF Shaped
<1>5. DOMAIN n[Header].forward = 0 .. MaxLevel
  BY DEF Shaped, Inserted, Grown
<1>6. n[new].key \in StoredKey /\ n[new].value \in Value /\ n[new].timestamp \in Time
  BY DEF Inserted, Grown, StoredKey
<1>7. \A x \in Live : n[x].key \in StoredKey /\ n[x].value \in Value /\ n[x].timestamp \in Time
  BY DEF Inserted, Grown, Shaped, Alive, Live
<1> QED
  BY <1>2, <1>3, <1>4, <1>5, <1>6, <1>7 DEF Shaped

LEMMA InsertedSpans ==
    ASSUME Shaped(node), NEW n, NEW pos, NEW k, NEW new, NEW u, NEW top,
           Inserted(n, pos, k, new, u, top), NEW i \in 0 .. MaxLevel
    PROVE  Span(n, i) = IF i <= top THEN OnLevel(i) \cup {new} ELSE OnLevel(i)
<1>1. DOMAIN n = DOMAIN node \cup {new} /\ new \notin DOMAIN node
  BY DEF Inserted, Grown
<1>2. \A x \in DOMAIN node : DOMAIN n[x].forward = DOMAIN node[x].forward
  BY DEF Inserted, Grown
<1>3. i \in DOMAIN n[new].forward <=> i <= top
  BY DEF Inserted, Grown
<1> QED
  BY <1>1, <1>2, <1>3 DEF Span, OnLevel

\* Each node keeps its place before or behind the others, and the new one comes
\* between those before k and the rest.
LEMMA ShiftedPlaces ==
    ASSUME Shaped(node), NEW pos, NEW last, Ordered(node, pos, last), NEW k \in Int,
           NEW n, NEW new, NEW u, NEW top, Inserted(n, pos, k, new, u, top),
           NEW q, q = Shifted(pos, pos[u[0]], new)
    PROVE  /\ Placed(n, q, last + 1)
           /\ \A x, y \in DOMAIN node : q[x] <= q[y] <=> pos[x] <= pos[y]
           /\ \A x \in DOMAIN node : IF x \in Before(k) THEN q[x] < q[new] ELSE q[new] < q[x]
           /\ q[new] \in Int /\ \A x \in DOMAIN node : q[x] \in Int
<1> DEFINE p == pos[u[0]]
<1>1. new \notin DOMAIN node /\ new # Header /\ DOMAIN n = DOMAIN node \cup {new}
  BY DEF Inserted, Grown
<1>2. last \in Nat /\ pos \in [DOMAIN node -> 0 .. last] /\ DOMAIN pos = DOMAIN node
  BY DEF Ordered, Placed
<1>3. Stop(pos, u[0], 0, k)
  BY DEF Inserted, Grown
<1>4. OnLevel(0) = DOMAIN node
  BY LevelZero, OnLevelIsSpan
<1>5. u[0] \in DOMAIN node /\ \A z \in DOMAIN node : z \in Before(k) <=> pos[z] <= p
  BY <1>3, <1>4 DEF Stop
<1>6. p \in 0 .. last
  BY <1>2, <1>5
<1>7. \A x \in DOMAIN node : pos[x] \in 0 .. last
  BY <1>2
<1>8. /\ q[new] = p + 1
      /\ \A x \in DOMAIN node : q[x] = IF pos[x] <= p THEN pos[x] ELSE pos[x] + 1
      /\ q = [x \in DOMAIN n |-> q[x]]
  BY <1>1, <1>2 DEF Shifted
<1> HIDE DEF p
<1>9. \A x, y \in DOMAIN node : q[x] <= q[y] <=> pos[x] <= pos[y]
  BY <1>6, <1>7, <1>8
<1>10. \A x \in DOMAIN node : IF x \in Before(k) THEN q[x] < q[new] ELSE q[new] < q[x]
  BY <1>5, <1>6, <1>7, <1>8
<1>11. q[new] \in 0 .. last + 1 /\ \A x \in DOMAIN node : q[x] \in 0 .. last + 1
  BY <1>6, <1>7, <1>8, <1>2
<1>12. q \in [DOMAIN n -> 0 .. last + 1]
  BY <1>1, <1>8, <1>11
<1>13. \A x \in DOMAIN node : q[x] # q[new]
  BY <1>6, <1>7, <1>8
<1>14. \A x, y \in DOMAIN node : q[x] = q[y] => x = y
  <2>1. ASSUME NEW x \in DOMAIN node, NEW y \in DOMAIN node, q[x] = q[y]
        PROVE  x = y
    <3>1. q[x] \in Int /\ q[y] \in Int /\ pos[x] \in Int /\ pos[y] \in Int
      BY <1>7, <1>11
    <3>2. q[x] <= q[y] /\ q[y] <= q[x]
      BY <2>1, <3>1
    <3>3. pos[x] <= pos[y] /\ pos[y] <= pos[x]
      BY <1>9, <3>2
    <3> QED
      BY <3>1, <3>3 DEF Ordered, Placed
  <2> QED
    BY <2>1
<1>15. \A x \in Alive(n) : q[Header] < q[x]
  <2>1. Header \in DOMAIN node /\ Header \in Before(k)
    BY DEF Shaped, Before
  <2>2. \A x \in DOMAIN node : x # Header => pos[Header] < pos[x]
    BY DEF Ordered, Placed, Alive
  <2>3. \A x \in DOMAIN node : x # Header => q[Header] < q[x]
    BY <1>6, <1>7, <1>8, <2>1, <2>2
  <2> QED
    BY <1>1, <1>10, <2>1, <2>3 DEF Alive
<1> QED
  BY <1>1, <1>9, <1>10, <1>11, <1>12, <1>13, <1>14, <1>15 DEF Placed

\* What strncpy keeps of k sorts where k does.
LEMMA KeptSortsAlike ==
    ASSUME Shaped(node), NEW k \in Key, NEW x \in Live, node[x].key # k
    PROVE  IF x \in Before(k) THEN node[x].key <= Kept[k] ELSE Kept[k] <= node[x].key
<1>1. node[x].key \in StoredKey
  BY DEF Shaped, Alive, Live
<1>2. PICK j \in Key : node[x].key = Kept[j]
  BY <1>1 DEF StoredKey
<1>3. Kept[j] \in Int /\ Kept[k] \in Int /\ k \in Int /\ Kept[k] <= k /\ (Kept[j] < k => Kept[j] <= Kept[k])
  BY KeptAssumption, KeyAssumption
<1>4. x \in Before(k) <=> Kept[j] < k
  BY <1>2 DEF Before, Live
<1> QED
  BY <1>2, <1>3, <1>4

LEMMA InsertedIsSorted ==
    ASSUME Shaped(node), NEW pos, NEW last, Ordered(node, pos, last), NEW k \in Key,
           \A x \in Live : node[x].key # k,
           NEW n, NEW new, NEW u, NEW top, Inserted(n, pos, k, new, u, top),
           NEW q, q = Shifted(pos, pos[u[0]], new)
    PROVE  Sorted(n, q)
<1>1. k \in Int
  BY KeyAssumption
<1>2. Alive(n) = Live \cup {new} /\ new \notin DOMAIN node /\ n[new].key = Kept[k]
  <2>1. Alive(n) = Live \cup {new}
    BY InsertedIsShaped
  <2> QED
    BY <2>1 DEF Inserted, Grown
<1>3. \A x \in Live : x \in DOMAIN node /\ n[x].key = node[x].key
  BY DEF Inserted, Grown, Live
<1>4. /\ \A x, y \in DOMAIN node : q[x] <= q[y] <=> pos[x] <= pos[y]
      /\ \A x \in DOMAIN node : IF x \in Before(k) THEN q[x] < q[new] ELSE q[new] < q[x]
      /\ q[new] \in Int /\ \A x \in DOMAIN node : q[x] \in Int
  BY <1>1, ShiftedPlaces
<1>5. \A x \in Live : IF x \in Before(k) THEN node[x].key <= Kept[k] ELSE Kept[k] <= node[x].key
  BY KeptSortsAlike
<1>6. \A x, y \in Live : q[x] < q[y] => node[x].key <= node[y].key
  <2>1. \A x, y \in Live : pos[x] < pos[y] => node[x].key <= node[y].key
    BY DEF Ordered, Sorted, Alive, Live
  <2>2. \A x \in DOMAIN node : pos[x] \in Int
    BY DEF Ordered, Placed
  <2>3. \A x, y \in DOMAIN node : q[x] < q[y] => pos[x] < pos[y]
    BY <1>4, <2>2
  <2> QED
    BY <1>3, <2>1, <2>3
<1>7. \A x \in Live : /\ q[x] < q[new] => node[x].key <= Kept[k]
                      /\ q[new] < q[x] => Kept[k] <= node[x].key
  BY <1>3, <1>4, <1>5
<1>8. ~(q[new] < q[new])
  BY <1>4
<1> QED
  BY <1>2, <1>3, <1>6, <1>7, <1>8 DEF Sorted

LEMMA InsertedIsLinear ==
    ASSUME Shaped(node), NEW pos, NEW last, Ordered(node, pos, last), NEW k \in Int,
           NEW n, NEW new, NEW u, NEW top, Inserted(n, pos, k, new, u, top),
           NEW q, q = Shifted(pos, pos[u[0]], new)
    PROVE  Linear(n, q)
<1> SUFFICES ASSUME NEW i \in 0 .. MaxLevel, NEW x \in Span(n, i)
             PROVE  Follows(n, q, i, x, n[x].forward[i])
  BY DEF Linear
<1> DEFINE w == u[i]
<1> DEFINE S == OnLevel(i)
<1>1. new \notin S /\ S \subseteq DOMAIN node /\ Nil \notin S /\ new # Nil
  BY ShapeOfNode DEF Inserted, Grown, OnLevel
<1>2. w \in S /\ \A z \in S : z \in Before(k) <=> pos[z] <= pos[w]
  BY DEF Inserted, Grown, Stop
<1>3. Span(n, i) = IF i <= top THEN S \cup {new} ELSE S
  BY InsertedSpans
<1>4. /\ \A y, z \in S : q[y] <= q[z] <=> pos[y] <= pos[z]
      /\ \A y \in S : IF y \in Before(k) THEN q[y] < q[new] ELSE q[new] < q[y]
      /\ q[new] \in Int /\ \A y \in S : q[y] \in Int /\ pos[y] \in Int
  <2>1. \A y \in DOMAIN node : pos[y] \in Int
    BY DEF Ordered, Placed
  <2> QED
    BY <1>1, <2>1, ShiftedPlaces
<1>5. \A y \in S : LET z == NextOf(i, y)
                   IN  \/ z = Nil /\ \A v \in S : q[v] <= q[y]
                       \/ /\ z \in S /\ q[y] < q[z]
                          /\ \A v \in S : q[v] <= q[y] \/ q[z] <= q[v]
  <2> SUFFICES ASSUME NEW y \in S
               PROVE  LET z == NextOf(i, y)
                      IN  \/ z = Nil /\ \A v \in S : q[v] <= q[y]
                          \/ /\ z \in S /\ q[y] < q[z]
                             /\ \A v \in S : q[v] <= q[y] \/ q[z] <= q[v]
    OBVIOUS
  <2> DEFINE z == NextOf(i, y)
  <2>1. Follows(node, pos, i, y, z)
    BY NextFollows
  <2>2. S = Span(node, i)
    BY OnLevelIsSpan
  <2> HIDE DEF z, S
  <2>3. \/ z = Nil /\ \A v \in S : pos[v] <= pos[y]
        \/ /\ z \in S /\ pos[y] < pos[z]
           /\ \A v \in S : pos[v] <= pos[y] \/ pos[z] <= pos[v]
    BY <2>1, <2>2 DEF Follows
  <2>4. z \in S /\ pos[y] < pos[z] => q[y] < q[z]
    BY <1>4
  <2>5. \/ z = Nil /\ \A v \in S : q[v] <= q[y]
        \/ /\ z \in S /\ q[y] < q[z]
           /\ \A v \in S : q[v] <= q[y] \/ q[z] <= q[v]
    BY <1>4, <2>3, <2>4
  <2> QED
    BY <2>5 DEF z
<1> HIDE DEF w, S
<1>6. CASE x = new
  <2>1. i \in 0 .. top /\ Span(n, i) = S \cup {new}
    BY <1>1, <1>3, <1>6 DEF Inserted, Grown
  <2>2. n[x].forward[i] = NextOf(i, w)
    BY <1>6, <2>1 DEF Inserted, Grown, w
  <2> DEFINE y == NextOf(i, w)
  <2>3. \/ y = Nil /\ \A v \in S : q[v] <= q[w]
        \/ /\ y \in S /\ q[w] < q[y]
           /\ \A v \in S : q[v] <= q[w] \/ q[y] <= q[v]
    BY <1>2, <1>5
  <2> HIDE DEF y
  <2>4. q[w] < q[new]
    BY <1>2, <1>4
  <2>5. y \in S /\ q[w] < q[y] => q[new] < q[y]
    BY <1>2, <1>4
  <2>6. \/ y = Nil /\ \A v \in Span(n, i) : q[v] <= q[new]
        \/ /\ y \in Span(n, i) /\ q[new] < q[y]
           /\ \A v \in Span(n, i) : q[v] <= q[new] \/ q[y] <= q[v]
    BY <1>2, <1>4, <2>1, <2>3, <2>4, <2>5
  <2> QED
    BY <1>6, <2>2, <2>6 DEF Follows, y
<1>7. CASE x # new /\ i <= top /\ w = x
  <2>1. Span(n, i) = S \cup {new} /\ x \in DOMAIN node /\ i \in DOMAIN node[x].forward
    BY <1>1, <1>3, <1>7 DEF S, OnLevel
  <2>2. n[x].forward[i] = new
    BY <1>7, <2>1 DEF Inserted, Grown, w
  <2>3. q[x] < q[new] /\ \A v \in S : q[v] <= q[x] \/ q[new] <= q[v]
    BY <1>2, <1>4, <1>7
  <2>4. q[new] <= q[new]
    BY <1>4
  <2> QED
    BY <2>1, <2>2, <2>3, <2>4 DEF Follows
<1>8. CASE x # new /\ ~(i <= top /\ w = x)
  <2>1. x \in S /\ x \in DOMAIN node /\ i \in DOMAIN node[x].forward
    BY <1>1, <1>3, <1>8 DEF S, OnLevel
  <2>2. n[x].forward[i] = NextOf(i, x)
    BY <1>8, <2>1 DEF Inserted, Grown, w
  <2> DEFINE y == NextOf(i, x)
  <2>3. \/ y = Nil /\ \A v \in S : q[v] <= q[x]
        \/ /\ y \in S /\ q[x] < q[y]
           /\ \A v \in S : q[v] <= q[x] \/ q[y] <= q[v]
    BY <1>5, <2>1
  <2> HIDE DEF y
  <2>4. CASE i <= top
    <3>1. Span(n, i) = S \cup {new} /\ x # w
      BY <1>3, <1>8, <2>4
    <3>2. CASE x \in Before(k)
      <4>1. q[x] <= q[w] /\ q[x] # q[w]
        <5>1. pos[x] # pos[w]
          <6>1. x \in DOMAIN node /\ w \in DOMAIN node
            BY <1>1, <1>2, <2>1
          <6> QED
            BY <3>1, <6>1 DEF Ordered, Placed
        <5> QED
          BY <1>2, <1>4, <2>1, <3>2, <5>1
      <4>2. y # Nil
        BY <1>1, <1>2, <1>4, <2>1, <2>3, <4>1
      <4>3. y \in S /\ q[y] <= q[w]
        BY <1>2, <1>4, <2>1, <2>3, <4>1, <4>2
      <4>4. q[y] < q[new]
        BY <1>2, <1>4, <4>3
      <4>5. q[new] <= q[x] \/ q[y] <= q[new]
        BY <1>4, <4>3, <4>4
      <4> QED
        BY <2>2, <2>3, <3>1, <4>2, <4>5 DEF Follows, y
    <3>3. CASE x \notin Before(k)
      <4>1. q[new] <= q[x]
        BY <1>4, <2>1, <3>3
      <4> QED
        BY <2>2, <2>3, <3>1, <4>1 DEF Follows, y
    <3> QED
      BY <3>2, <3>3
  <2>5. CASE ~(i <= top)
    <3>1. Span(n, i) = S
      BY <1>3, <2>5
    <3> QED
      BY <2>2, <2>3, <3>1 DEF Follows, y
  <2> QED
    BY <2>4, <2>5
<1> QED
  BY <1>6, <1>7, <1>8

LEMMA InsertedIsTight ==
    ASSUME Shaped(node), NEW pos, NEW last, Ordered(node, pos, last), Tight(node, level),
           NEW k \in Int, NEW n, NEW new, NEW u, NEW top, Inserted(n, pos, k, new, u, top)
    PROVE  Tight(n, IF top > level THEN top ELSE level)
<1> DEFINE l == IF top > level THEN top ELSE level
<1>1. level \in 0 .. MaxLevel /\ top \in 1 .. MaxLevel /\ new # Nil
  BY DEF Tight, Inserted, Grown
<1>2. l \in 0 .. MaxLevel /\ l >= level /\ l >= top
  BY <1>1
<1>3. Header \in DOMAIN node /\ DOMAIN node[Header].forward = 0 .. MaxLevel
  BY DEF Shaped
<1>4. \A i \in 0 .. MaxLevel :
         n[Header].forward[i] = IF i <= top /\ u[i] = Header THEN new ELSE node[Header].forward[i]
  BY <1>3 DEF Inserted, Grown, NextOf
<1>5. CASE top > level
  <2>1. l = top /\ top \in 0 .. MaxLevel
    BY <1>1, <1>5
  <2>2. Stop(pos, u[top], top, k) /\ Stop(pos, Header, top, k)
    BY <1>5, <2>1, HeaderStops DEF Inserted, Grown
  <2>3. u[top] = Header
    BY <2>2, StopIsOne
  <2>4. n[Header].forward[top] = new
    BY <1>1, <1>4, <2>1, <2>3
  <2> QED
    BY <1>1, <1>4, <1>5, <2>1, <2>4 DEF Tight
<1>6. CASE ~(top > level)
  <2>1. l = level
    BY <1>6
  <2>2. level > 0 => n[Header].forward[level] # Nil
    BY <1>1, <1>4 DEF Tight
  <2>3. \A i \in level + 1 .. MaxLevel : n[Header].forward[i] = Nil
    BY <1>1, <1>4, <1>6 DEF Tight
  <2> QED
    BY <1>1, <2>1, <2>2, <2>3 DEF Tight
<1> QED
  BY <1>5, <1>6

-------------------------------------------------------------------------------
\* c is the first node that is not before k.
First(pos, c, k) ==
    /\ c \in Live /\ c \notin Before(k)
    /\ \A z \in DOMAIN node : z \in Before(k) \/ pos[c] <= pos[z]

\* On each of its levels, update[] points to the node that is deleted, and
\* nobody else does.
LEMMA PointsToFirst ==
    ASSUME NEW pos, NEW last, Shaped(node), Ordered(node, pos, last), NEW k \in Int,
           NEW c, First(pos, c, k), NEW i \in 0 .. MaxLevel, NEW w, Stop(pos, w, i, k),
           NEW x \in OnLevel(i)
    PROVE  NextOf(i, x) = c <=> c \in OnLevel(i) /\ x = w
<1> DEFINE y == NextOf(i, x)
<1>1. c # Nil
  BY ShapeOfNode DEF First, Live
<1>2. \/ y = Nil /\ \A z \in OnLevel(i) : pos[z] <= pos[x]
      \/ /\ y \in OnLevel(i) /\ pos[x] < pos[y]
         /\ \A z \in OnLevel(i) : pos[z] <= pos[x] \/ pos[y] <= pos[z]
  BY NextFollows, OnLevelIsSpan DEF Follows
<1> HIDE DEF y
<1>3. \A z \in OnLevel(i) : z \in DOMAIN node /\ pos[z] \in Int
  BY DEF OnLevel, Ordered, Placed
<1>4. \A z, v \in OnLevel(i) : pos[z] = pos[v] => z = v
  BY <1>3 DEF Ordered, Placed
<1>5. w \in OnLevel(i) /\ \A z \in OnLevel(i) : z \in Before(k) <=> pos[z] <= pos[w]
  BY DEF Stop
<1>6. c \notin Before(k) /\ \A z \in OnLevel(i) : z \in Before(k) \/ pos[c] <= pos[z]
  BY <1>3 DEF First
<1>7. ASSUME y = c
      PROVE  c \in OnLevel(i) /\ x = w
  <2>1. c \in OnLevel(i) /\ pos[x] < pos[c] /\ \A z \in OnLevel(i) : pos[z] <= pos[x] \/ pos[c] <= pos[z]
    BY <1>1, <1>2, <1>7
  <2>2. x \in Before(k)
    BY <1>3, <1>6, <2>1
  <2>3. pos[x] <= pos[w] /\ pos[w] < pos[c]
    BY <1>3, <1>5, <1>6, <2>1, <2>2
  <2>4. pos[w] <= pos[x]
    BY <1>3, <1>5, <2>1, <2>3
  <2> QED
    BY <1>3, <1>4, <1>5, <2>1, <2>3, <2>4
<1>8. ASSUME c \in OnLevel(i), x = w
      PROVE  y = c
  <2>1. pos[w] < pos[c]
    BY <1>3, <1>5, <1>6, <1>8
  <2>2. y \in OnLevel(i) /\ pos[w] < pos[y] /\ pos[y] <= pos[c]
    BY <1>2, <1>3, <1>8, <2>1
  <2>3. y \notin Before(k)
    BY <1>3, <1>5, <2>2
  <2>4. pos[c] <= pos[y]
    BY <1>6, <2>2, <2>3
  <2> QED
    BY <1>3, <1>4, <1>8, <2>2, <2>4
<1> QED
  BY <1>7, <1>8 DEF y

\* n is the list without c: what the next lemmas assume.
Removed(n, c) ==
    /\ c \in Live
    /\ DOMAIN n = DOMAIN node \ {c}
    /\ \A x \in DOMAIN n :
          /\ n[x].key = node[x].key /\ n[x].value = node[x].value
          /\ n[x].timestamp = node[x].timestamp
          /\ DOMAIN n[x].forward = DOMAIN node[x].forward
          /\ \A i \in DOMAIN node[x].forward :
                n[x].forward[i] = IF NextOf(i, x) = c THEN NextOf(i, c) ELSE NextOf(i, x)
    /\ n \in [DOMAIN n -> Record]

LEMMA UnlinkedIsRemoved ==
    ASSUME NEW pos, NEW last, Shaped(node), Ordered(node, pos, last), Tight(node, level),
           NEW k \in Int, NEW c, First(pos, c, k),
           NEW u, \A i \in 0 .. MaxLevel : Stop(pos, u[i], i, k),
           NEW n, n = Unlinked(c, u)
    PROVE  Removed(n, c)
<1> DEFINE on(i) == \A j \in 0 .. i : node[u[j]].forward[j] = c
<1>1. level \in 0 .. MaxLevel /\ c \in DOMAIN node /\ c # Header /\ c \in Live
  BY DEF Tight, First, Live
<1>2. \A i \in 0 .. MaxLevel : u[i] \in OnLevel(i)
  BY DEF Stop
<1>3. \A i \in 0 .. MaxLevel : node[u[i]].forward[i] = c <=> c \in OnLevel(i)
  BY <1>2, PointsToFirst DEF NextOf
<1>4. \A i \in 0 .. MaxLevel : on(i) <=> c \in OnLevel(i)
  <2>1. ASSUME NEW i \in 0 .. MaxLevel, on(i)
        PROVE  c \in OnLevel(i)
    <3>1. i \in 0 .. i
      OBVIOUS
    <3> QED
      BY <1>3, <2>1, <3>1
  <2>2. ASSUME NEW i \in 0 .. MaxLevel, c \in OnLevel(i)
        PROVE  on(i)
    <3>1. \A j \in 0 .. i : j \in 0 .. MaxLevel /\ c \in OnLevel(j)
      BY <1>1, <2>2, ShapeOfNode DEF OnLevel
    <3> QED
      BY <1>3, <3>1
  <2> QED
    BY <2>1, <2>2
<1>5. \A i \in 0 .. MaxLevel : c \in OnLevel(i) => i <= level
  BY <1>1, AboveLevel
<1>6. n = [y \in DOMAIN node \ {c} |->
            [node[y] EXCEPT !.forward =
                [i \in DOMAIN @ |->
                    IF i <= level /\ u[i] = y /\ on(i) THEN node[c].forward[i] ELSE @[i]]]]
  BY DEF Unlinked
<1>7. DOMAIN n = DOMAIN node \ {c}
  BY <1>6
<1>8. ASSUME NEW x \in DOMAIN n
      PROVE  /\ n[x] \in Record
             /\ n[x].key = node[x].key /\ n[x].value = node[x].value
             /\ n[x].timestamp = node[x].timestamp
             /\ DOMAIN n[x].forward = DOMAIN node[x].forward
             /\ \A i \in DOMAIN node[x].forward :
                   n[x].forward[i] = IF NextOf(i, x) = c THEN NextOf(i, c) ELSE NextOf(i, x)
  <2> DEFINE g == node[x].forward
  <2> DEFINE h == [i \in DOMAIN g |->
                      IF i <= level /\ u[i] = x /\ on(i) THEN node[c].forward[i] ELSE g[i]]
  <2>1. n[x] = [node[x] EXCEPT !.forward = h]
    BY <1>6, <1>7
  <2>2. x \in DOMAIN node /\ node[x] \in Record
    BY <1>7 DEF Shaped
  <2>3. g \in Heights
    BY <2>2 DEF Record
  <2>4. PICK t \in 1 .. MaxLevel : g \in [0 .. t -> Nat \cup {Nil}]
    BY <2>3 DEF Heights
  <2>5. DOMAIN g \subseteq 0 .. MaxLevel /\ \A i \in DOMAIN g : g[i] = NextOf(i, x)
    BY <2>2, ShapeOfNode DEF NextOf
  <2>6. ASSUME NEW i \in DOMAIN g
        PROVE  /\ h[i] = IF NextOf(i, x) = c THEN NextOf(i, c) ELSE NextOf(i, x)
               /\ h[i] \in Nat \cup {Nil}
    <3>1. i \in 0 .. MaxLevel /\ x \in OnLevel(i)
      BY <2>2, <2>5 DEF OnLevel
    <3>2. NextOf(i, x) = c <=> c \in OnLevel(i) /\ x = u[i]
      BY <3>1, PointsToFirst
    <3>3. (i <= level /\ u[i] = x /\ on(i)) <=> NextOf(i, x) = c
      BY <1>4, <1>5, <3>1, <3>2
    <3>4. h[i] = IF NextOf(i, x) = c THEN node[c].forward[i] ELSE g[i]
      BY <3>3
    <3>5. NextOf(i, x) = c => NextOf(i, c) \in Nat \cup {Nil}
      BY <1>1, <3>2, ShapeOfNode DEF NextOf, OnLevel
    <3>6. NextOf(i, x) \in Nat \cup {Nil}
      BY <2>4, <2>5
    <3> HIDE DEF h, g
    <3> QED
      BY <2>5, <3>4, <3>5, <3>6 DEF NextOf
  <2>7. h \in Heights
    <3>1. DOMAIN g = 0 .. t
      BY <2>4
    <3>2. h \in [0 .. t -> Nat \cup {Nil}]
      BY <2>6, <3>1
    <3> QED
      BY <3>2 DEF Heights
  <2>8. DOMAIN h = DOMAIN g
    OBVIOUS
  <2> HIDE DEF h
  <2>9. /\ n[x] \in Record /\ n[x].forward = h
        /\ n[x].key = node[x].key /\ n[x].value = node[x].value /\ n[x].timestamp = node[x].timestamp
    BY <2>1, <2>2, <2>7 DEF Record
  <2> QED
    BY <2>6, <2>8, <2>9
<1>9. n = [x \in DOMAIN n |-> n[x]]
  BY <1>6
<1>10. n \in [DOMAIN n -> Record]
  BY <1>8, <1>9
<1> QED
  BY <1>1, <1>7, <1>8, <1>10 DEF Removed

LEMMA RemovedIsShaped ==
    ASSUME Shaped(node), NEW c, NEW n, Removed(n, c)
    PROVE  /\ Shaped(n) /\ Alive(n) = Live \ {c}
           /\ \A i \in 0 .. MaxLevel : Span(n, i) = OnLevel(i) \ {c}
<1>1. c # Header /\ DOMAIN n = DOMAIN node \ {c} /\ n \in [DOMAIN n -> Record]
  BY DEF Removed, Live
<1>2. Alive(n) = Live \ {c}
  BY <1>1 DEF Alive, Live
<1>3. Header \in DOMAIN n /\ DOMAIN n \subseteq 0 .. MaxNodes
  BY <1>1 DEF Shaped
<1>4. DOMAIN n[Header].forward = 0 .. MaxLevel
  BY <1>3 DEF Shaped, Removed
<1>5. \A x \in Alive(n) : n[x].key \in StoredKey /\ n[x].value \in Value /\ n[x].timestamp \in Time
  BY DEF Removed, Shaped, Alive
<1>6. \A i \in 0 .. MaxLevel : Span(n, i) = OnLevel(i) \ {c}
  BY DEF Removed, Span, OnLevel
<1> QED
  BY <1>1, <1>2, <1>3, <1>4, <1>5, <1>6 DEF Shaped

LEMMA RemovedIsOrdered ==
    ASSUME Shaped(node), NEW pos, NEW last, Ordered(node, pos, last), NEW c, NEW n, Removed(n, c)
    PROVE  \E q : Ordered(n, q, last)
<1> DEFINE q == [x \in DOMAIN n |-> pos[x]]
<1>1. DOMAIN n = DOMAIN node \ {c} /\ c # Header /\ c \in DOMAIN node
  BY DEF Removed, Live
<1>2. last \in Nat /\ pos \in [DOMAIN node -> 0 .. last]
  BY DEF Ordered, Placed
<1>3. q \in [DOMAIN n -> 0 .. last] /\ \A x \in DOMAIN n : q[x] = pos[x]
  BY <1>1, <1>2
<1> HIDE DEF q
<1>4. Placed(n, q, last)
  <2>1. Header \in DOMAIN n
    BY <1>1 DEF Shaped
  <2> QED
    BY <1>1, <1>3, <2>1 DEF Ordered, Placed, Alive
<1>5. Sorted(n, q)
  BY <1>1, <1>3 DEF Ordered, Sorted, Alive, Removed
<1>6. ASSUME NEW i \in 0 .. MaxLevel, NEW x \in Span(n, i)
      PROVE  Follows(n, q, i, x, n[x].forward[i])
  <2> DEFINE y == NextOf(i, x)
  <2> DEFINE S == OnLevel(i)
  <2>1. Span(n, i) = S \ {c}
    BY RemovedIsShaped
  <2>2. x \in S /\ x # c /\ x \in DOMAIN n
    BY <2>1 DEF Span
  <2>3. n[x].forward[i] = IF y = c THEN NextOf(i, c) ELSE y
    BY <2>2 DEF Removed, OnLevel
  <2>4. S \subseteq DOMAIN node /\ Nil \notin S
    BY ShapeOfNode DEF OnLevel
  <2>5. \A z \in S : pos[z] \in Int
    BY <1>2, <2>4
  <2>6. \A z \in S \ {c} : q[z] = pos[z]
    BY <1>1, <1>3, <2>4
  <2>7. \/ y = Nil /\ \A z \in S : pos[z] <= pos[x]
        \/ /\ y \in S /\ pos[x] < pos[y]
           /\ \A z \in S : pos[z] <= pos[x] \/ pos[y] <= pos[z]
    BY <2>2, NextFollows, OnLevelIsSpan DEF Follows
  <2> HIDE DEF y
  <2>8. CASE y = c
    <3> DEFINE d == NextOf(i, c)
    <3>1. c \in S /\ pos[x] < pos[c] /\ \A z \in S : pos[z] <= pos[x] \/ pos[c] <= pos[z]
      BY <1>1, <2>7, <2>8, ShapeOfNode
    <3>2. \/ d = Nil /\ \A z \in S : pos[z] <= pos[c]
          \/ /\ d \in S /\ pos[c] < pos[d]
             /\ \A z \in S : pos[z] <= pos[c] \/ pos[d] <= pos[z]
      BY <3>1, NextFollows, OnLevelIsSpan DEF Follows
    <3> HIDE DEF d, S
    <3>3. \A z \in S \ {c} : pos[z] <= pos[c] => pos[z] <= pos[x]
      <4>1. \A z \in S \ {c} : pos[z] # pos[c]
        BY <2>4, <3>1 DEF Ordered, Placed
      <4> QED
        BY <2>5, <3>1, <4>1
    <3>4. CASE d = Nil
      BY <2>1, <2>2, <2>3, <2>4, <2>6, <2>8, <3>2, <3>3, <3>4 DEF Follows, d
    <3>5. CASE d # Nil
      <4>1. d \in S \ {c} /\ pos[x] < pos[d]
        BY <2>2, <2>5, <3>1, <3>2, <3>5
      <4>2. \A z \in S \ {c} : pos[z] <= pos[x] \/ pos[d] <= pos[z]
        BY <3>2, <3>3, <3>5
      <4> QED
        BY <2>1, <2>2, <2>3, <2>6, <2>8, <4>1, <4>2 DEF Follows, d
    <3> QED
      BY <3>4, <3>5
  <2>9. CASE y # c
    <3> HIDE DEF S
    <3> QED
      BY <2>1, <2>2, <2>3, <2>6, <2>7, <2>9 DEF Follows, y
  <2> QED
    BY <2>8, <2>9
<1>7. Ordered(n, q, last)
  BY <1>2, <1>4, <1>5, <1>6 DEF Ordered, Linear
<1> QED
  BY <1>7

LEMMA RemovedIsTight ==
    ASSUME Shaped(node), Tight(node, level), NEW c, NEW n, Removed(n, c),
           NEW pos, NEW last, Ordered(node, pos, last)
    PROVE  Tight(n, Lowered(n))
<1> DEFINE S == {i \in 0 .. level : i = 0 \/ n[Header].forward[i] # Nil}
<1>1. level \in 0 .. MaxLevel
  BY DEF Tight
<1>2. S \subseteq 0 .. level /\ S # {} /\ level \in Nat
  <2>1. 0 \in S
    BY <1>1
  <2> QED
    BY <1>1, <2>1
<1> HIDE DEF S
<1>3. PICK t \in S : \A i \in S : i <= t
  BY <1>2, Greatest
<1>4. t \in 0 .. level /\ (t = 0 \/ n[Header].forward[t] # Nil)
  BY <1>2 DEF S
<1>5. \A j \in t + 1 .. level : n[Header].forward[j] = Nil
  <2>1. ASSUME NEW j \in t + 1 .. level, n[Header].forward[j] # Nil
        PROVE  FALSE
    <3>1. j \in 0 .. level /\ ~(j <= t)
      BY <1>1, <1>4
    <3> QED
      BY <1>3, <2>1, <3>1 DEF S
  <2> QED
    BY <2>1
<1> DEFINE l == Lowered(n)
<1>6. /\ l \in 0 .. level /\ (l = 0 \/ n[Header].forward[l] # Nil)
      /\ \A j \in l + 1 .. level : n[Header].forward[j] = Nil
  BY <1>4, <1>5 DEF Lowered
<1> HIDE DEF l
<1>7. ASSUME NEW i \in level + 1 .. MaxLevel
      PROVE  n[Header].forward[i] = Nil
  <2>1. i \in 0 .. MaxLevel /\ Header \in DOMAIN n /\ i \in DOMAIN node[Header].forward
    BY <1>1 DEF Shaped, Removed, Live
  <2>2. NextOf(i, Header) = Nil
    BY DEF Tight, NextOf
  <2>3. c # Nil
    BY ShapeOfNode DEF Removed, Live
  <2> QED
    BY <2>1, <2>2, <2>3 DEF Removed
<1>8. \A i \in l + 1 .. MaxLevel : i \in l + 1 .. level \/ i \in level + 1 .. MaxLevel
  BY <1>1, <1>6
<1> QED
  BY <1>1, <1>6, <1>7, <1>8 DEF Tight, l

-------------------------------------------------------------------------------
\* What MOD makes of the list: the same pointers and keys.
Rewritten(n, c, v, t) ==
    /\ DOMAIN n = DOMAIN node
    /\ \A x \in DOMAIN node :
          /\ n[x].key = node[x].key /\ n[x].forward = node[x].forward
          /\ x # c => n[x] = node[x]
    /\ n[c].value = v /\ n[c].timestamp = t
    /\ n \in [DOMAIN n -> Record]
    /\ c \in Live /\ v \in Value /\ t \in Time

LEMMA ModRewrites ==
    ASSUME Shaped(node), NEW c \in Live, NEW v \in Value, NEW t \in Time,
           NEW n, n = [node EXCEPT ![c] = [@ EXCEPT !.value = v, !.timestamp = t]]
    PROVE  Rewritten(n, c, v, t)
<1> DEFINE r == [node[c] EXCEPT !.value = v, !.timestamp = t]
<1>1. c \in DOMAIN node /\ node \in [DOMAIN node -> Record]
  BY DEF Live, Shaped
<1>2. node[c] \in Record
  BY <1>1
<1>3. /\ r \in Record /\ r.value = v /\ r.timestamp = t
      /\ r.key = node[c].key /\ r.forward = node[c].forward
  BY <1>2 DEF Record
<1>4. n = [node EXCEPT ![c] = r]
  OBVIOUS
<1> HIDE DEF r
<1>5. n[c] = r /\ DOMAIN n = DOMAIN node /\ \A x \in DOMAIN node : x # c => n[x] = node[x]
  BY <1>1, <1>4
<1>6. n \in [DOMAIN n -> Record]
  BY <1>1, <1>3, <1>4
<1> QED
  BY <1>3, <1>5, <1>6 DEF Rewritten

LEMMA RewrittenKeeps ==
    ASSUME Shaped(node), NEW pos, NEW last, Ordered(node, pos, last), Tight(node, level),
           NEW n, NEW c, NEW v, NEW t, Rewritten(n, c, v, t)
    PROVE  Shaped(n) /\ Ordered(n, pos, last) /\ Tight(n, level) /\ Alive(n) = Live
<1>1. DOMAIN n = DOMAIN node /\ n \in [DOMAIN n -> Record] /\ Header \in DOMAIN node
  BY DEF Rewritten, Shaped
<1>2. \A x \in DOMAIN node : n[x].key = node[x].key /\ n[x].forward = node[x].forward
  BY DEF Rewritten
<1>3. Alive(n) = Live /\ Alive(node) = Live
  BY <1>1 DEF Alive, Live
<1>4. \A x \in Live : n[x].key \in StoredKey /\ n[x].value \in Value /\ n[x].timestamp \in Time
  BY <1>1, <1>3 DEF Rewritten, Shaped, Live
<1>5. \A i : Span(n, i) = Span(node, i)
  BY <1>1, <1>2 DEF Span
<1>6. Shaped(n)
  BY <1>1, <1>2, <1>3, <1>4 DEF Shaped
<1>7. Placed(n, pos, last)
  BY <1>1, <1>3 DEF Ordered, Placed
<1>8. Sorted(n, pos)
  BY <1>2, <1>3 DEF Ordered, Sorted, Live
<1>9. Linear(n, pos)
  <2>1. SUFFICES ASSUME NEW i \in 0 .. MaxLevel, NEW x \in Span(node, i)
                 PROVE  Follows(n, pos, i, x, n[x].forward[i])
    BY <1>5 DEF Linear
  <2>2. n[x].forward = node[x].forward
    BY <1>2 DEF Span
  <2>3. Follows(node, pos, i, x, node[x].forward[i])
    BY DEF Ordered, Linear
  <2> QED
    BY <1>5, <2>2, <2>3 DEF Follows
<1>10. Tight(n, level)
  BY <1>1, <1>2 DEF Tight
<1> QED
  BY <1>3, <1>6, <1>7, <1>8, <1>9, <1>10 DEF Ordered

-------------------------------------------------------------------------------
LEMMA LiveIsFinite ==
    ASSUME NEW n, Shaped(n)
    PROVE  IsFiniteSet(Alive(n)) /\ IsFiniteSet(DOMAIN n)
<1>1. IsFiniteSet(0 .. MaxNodes)
  BY FS_Interval
<1>2. DOMAIN n \in SUBSET (0 .. MaxNodes) /\ Alive(n) \in SUBSET (0 .. MaxNodes)
  BY DEF Shaped, Alive
<1> QED
  BY <1>1, <1>2, FS_Subset

LEMMA InitInv == Init => Inv
<1> SUFFICES ASSUME Init PROVE Inv
  OBVIOUS
<1>1. /\ DOMAIN node = {Header} /\ level = 0 /\ size = 0 /\ degraded = FALSE
      /\ node[Header] = [key |-> Nil, value |-> Nil, timestamp |-> Nil,
                         forward |-> [i \in 0 .. MaxLevel |-> Nil]]
      /\ node = [x \in DOMAIN node |-> node[x]]
  BY DEF Init
<1>2. /\ DOMAIN node[Header].forward = 0 .. MaxLevel
      /\ \A i \in 0 .. MaxLevel : node[Header].forward[i] = Nil
  BY <1>1
<1>3. Live = {}
  BY <1>1 DEF Live
<1>4. node[Header] \in Record
  <2> DEFINE f == [i \in 0 .. MaxLevel |-> Nil]
  <2>1. f \in [0 .. MaxLevel -> Nat \cup {Nil}] /\ MaxLevel \in 1 .. MaxLevel
    OBVIOUS
  <2>2. f \in Heights
    BY <2>1 DEF Heights
  <2>3. node[Header] = [key |-> Nil, value |-> Nil, timestamp |-> Nil, forward |-> f]
    BY <1>1
  <2> HIDE DEF f
  <2> QED
    BY <2>2, <2>3 DEF Record
<1>5. Shaped(node)
  BY <1>1, <1>2, <1>3, <1>4 DEF Shaped, Alive, Live
<1> DEFINE pos == [x \in {Header} |-> 0]
<1>6. Ordered(node, pos, 0)
  <2>1. Placed(node, pos, 0)
    BY <1>1 DEF Placed, Alive
  <2>2. Sorted(node, pos)
    BY <1>1 DEF Sorted, Alive
  <2>3. Linear(node, pos)
    BY <1>1, <1>2 DEF Linear, Follows, Span
  <2> QED
    BY <2>1, <2>2, <2>3 DEF Ordered
<1>7. Tight(node, level)
  BY <1>1, <1>2 DEF Tight
<1>8. size = Cardinality(Live)
  BY <1>1, <1>3, FS_EmptySet
<1> QED
  BY <1>1, <1>3, <1>5, <1>6, <1>7, <1>8, Zenon DEF Inv, KeysDiffer

\* What SET and DEL make of the nodes, whatever the pointers.
Added(n, new, k, v, t) ==
    /\ new \notin Live /\ Alive(n) = Live \cup {new}
    /\ n[new].key = Kept[k] /\ n[new].value = v /\ n[new].timestamp = t
    /\ \A x \in Live : /\ n[x].key = node[x].key /\ n[x].value = node[x].value
                       /\ n[x].timestamp = node[x].timestamp
Taken(n, c) ==
    /\ c \in Live /\ Alive(n) = Live \ {c}
    /\ \A x \in Live \ {c} : /\ n[x].key = node[x].key /\ n[x].value = node[x].value
                             /\ n[x].timestamp = node[x].timestamp

LEMMA LinkedIsInserted ==
    ASSUME Shaped(node), NEW pos, NEW k \in Key, NEW new \in 1 .. MaxNodes, new \notin DOMAIN node,
           NEW item, item.key = Kept[k], item.value \in Value, item.timestamp \in Time,
           NEW u, NEW top \in 1 .. MaxLevel, \A i \in 0 .. MaxLevel : Stop(pos, u[i], i, k),
           NEW n, n = Linked(new, item, u, top)
    PROVE  /\ Inserted(n, pos, k, new, u, top)
           /\ n[new].value = item.value /\ n[new].timestamp = item.timestamp
<1>1. item.key \in StoredKey
  BY DEF StoredKey
<1>2. \A i \in 0 .. MaxLevel : u[i] \in OnLevel(i)
  BY DEF Stop
<1>3. /\ Grown(n, new, u, top)
      /\ n[new].key = item.key /\ n[new].value = item.value /\ n[new].timestamp = item.timestamp
  BY <1>1, <1>2, LinkedNodes
<1> QED
  BY <1>3 DEF Inserted

LEMMA InsertedKeeps ==
    ASSUME Shaped(node), NEW pos, NEW last, Ordered(node, pos, last), Tight(node, level),
           NEW k \in Key, \A x \in Live : node[x].key # k,
           NEW n, NEW new, NEW u, NEW top, Inserted(n, pos, k, new, u, top),
           NEW v, n[new].value = v, NEW t, n[new].timestamp = t
    PROVE  /\ Shaped(n) /\ \E q, l : Ordered(n, q, l)
           /\ Tight(n, IF top > level THEN top ELSE level)
           /\ Added(n, new, k, v, t)
<1>1. k \in Int
  BY KeyAssumption
<1>2. Shaped(n) /\ Alive(n) = Live \cup {new}
  BY InsertedIsShaped
<1>3. Ordered(n, Shifted(pos, pos[u[0]], new), last + 1)
  <2> DEFINE q == Shifted(pos, pos[u[0]], new)
  <2>1. Sorted(n, q)
    BY InsertedIsSorted
  <2>2. Linear(n, q)
    BY <1>1, InsertedIsLinear
  <2>3. Placed(n, q, last + 1)
    BY <1>1, ShiftedPlaces
  <2>4. last + 1 \in Nat
    BY DEF Ordered
  <2> QED
    BY <2>1, <2>2, <2>3, <2>4 DEF Ordered
<1>4. Tight(n, IF top > level THEN top ELSE level)
  BY <1>1, InsertedIsTight
<1>5. Added(n, new, k, v, t)
  BY <1>2 DEF Added, Inserted, Grown, Live
<1> QED
  BY <1>2, <1>3, <1>4, <1>5

\* The address malloc gives.
LEMMA FreshIsFree ==
    ASSUME Fresh # {}, NEW new, new = CHOOSE x \in Fresh : \A y \in Fresh : x <= y
    PROVE  new \in 1 .. MaxNodes /\ new \notin DOMAIN node
<1>1. Fresh \subseteq Nat
  BY DEF Fresh
<1>2. \E x \in Fresh : \A y \in Fresh : x <= y
  BY <1>1, Smallest
<1>3. new \in Fresh
  BY <1>2
<1> QED
  BY <1>3 DEF Fresh

LEMMA SetLinks ==
    ASSUME Inv, NEW k \in Key, ~Found(k), NEW v \in Value, NEW t \in Time, NEW top \in RandomLevel,
           NEW new \in 1 .. MaxNodes, new \notin DOMAIN node, NEW item, item.key = Kept[k],
           item.value = v, item.timestamp = t, NEW n, n = Linked(new, item, Update(k), top)
    PROVE  /\ Shaped(n) /\ \E pos, last : Ordered(n, pos, last)
           /\ Tight(n, IF top > level THEN top ELSE level)
           /\ Added(n, new, k, v, t)
           /\ \A x \in Live : node[x].key # k
<1> DEFINE u == Update(k)
<1>1. PICK pos, last : Ordered(node, pos, last)
  BY DEF Inv
<1>2. k \in Int /\ Shaped(node) /\ Tight(node, level)
  BY KeyAssumption DEF Inv
<1>3. \A x \in Live : node[x].key # k
  BY <1>1, <1>2, FoundIsThere
<1>4. \A i \in 0 .. MaxLevel : Stop(pos, u[i], i, k)
  BY <1>1, <1>2, UpdateStops
<1> HIDE DEF u
<1>5. n = Linked(new, item, u, top) /\ top \in 1 .. MaxLevel
  BY DEF u, RandomLevel
<1>6. /\ Inserted(n, pos, k, new, u, top)
      /\ n[new].value = v /\ n[new].timestamp = t
  BY <1>2, <1>4, <1>5, LinkedIsInserted
<1> QED
  BY <1>1, <1>2, <1>3, <1>6, InsertedKeeps

LEMMA DelUnlinks ==
    ASSUME Inv, NEW k \in Key, Found(k), NEW n, n = Unlinked(Current(k), Update(k))
    PROVE  /\ Shaped(n) /\ \E pos, last : Ordered(n, pos, last)
           /\ Tight(n, Lowered(n))
           /\ Taken(n, Current(k)) /\ node[Current(k)].key = k
<1> DEFINE c == Current(k)
<1> DEFINE u == Update(k)
<1>1. PICK pos, last : Ordered(node, pos, last)
  BY DEF Inv
<1>2. k \in Int /\ Shaped(node) /\ Tight(node, level)
  BY KeyAssumption DEF Inv
<1>3. c \in Live /\ node[c].key = k
  BY <1>1, <1>2, FoundIsThere
<1>4. First(pos, c, k)
  <2>1. c # Nil
    BY DEF Found
  <2> QED
    BY <1>1, <1>2, <2>1, CurrentIsFirst DEF First
<1>5. \A i \in 0 .. MaxLevel : Stop(pos, u[i], i, k)
  BY <1>1, <1>2, UpdateStops
<1> HIDE DEF c, u
<1>6. n = Unlinked(c, u)
  BY DEF c, u
<1>7. Removed(n, c)
  BY <1>1, <1>2, <1>4, <1>5, <1>6, UnlinkedIsRemoved
<1>8. Shaped(n) /\ Alive(n) = Live \ {c}
  BY <1>2, <1>7, RemovedIsShaped
<1>9. \E q : Ordered(n, q, last)
  BY <1>1, <1>2, <1>7, RemovedIsOrdered
<1>10. Tight(n, Lowered(n))
  BY <1>1, <1>2, <1>7, RemovedIsTight
<1>11. Taken(n, c)
  BY <1>3, <1>7, <1>8 DEF Taken, Removed, Live
<1> QED
  BY <1>3, <1>8, <1>9, <1>10, <1>11 DEF c

-------------------------------------------------------------------------------
LEMMA LiveThen == Live' = Alive(node') /\ Live = Alive(node)
BY DEF Live, Alive

\* A step that leaves the list alone.
LEMMA SameList ==
    ASSUME Inv, UNCHANGED <<node, level, size>>, degraded' \in BOOLEAN, degraded => degraded'
    PROVE  Inv'
<1>1. Live' = Live
  BY DEF Live
<1>2. Shaped(node') /\ (\E pos, last : Ordered(node', pos, last)) /\ Tight(node', level')
  BY DEF Inv
<1>3. size' = Cardinality(Live')
  BY <1>1 DEF Inv
<1>4. KeysDiffer'
  <2>1. node' = node
    OBVIOUS
  <2>2. degraded \/ \A x, y \in Live : node[x].key = node[y].key => x = y
    BY DEF Inv, KeysDiffer
  <2>3. degraded' \/ \A x, y \in Live' : node'[x].key = node'[y].key => x = y
    BY <1>1, <2>1, <2>2
  <2> QED
    BY <2>3, Zenon DEF KeysDiffer
<1> QED
  BY <1>2, <1>3, <1>4 DEF Inv

LEMMA SetInv ==
    ASSUME Inv, NEW k \in Key, NEW v \in Value, NEW t \in Time, Set(k, v, t)
    PROVE  Inv'
<1>1. CASE UNCHANGED <<node, level, size, degraded>>
  BY <1>1, SameList DEF Inv
<1>2. CASE ~UNCHANGED <<node, level, size, degraded>>
  <2> DEFINE new == CHOOSE x \in Fresh : \A y \in Fresh : x <= y
  <2> DEFINE item == [key |-> Kept[k], value |-> v, timestamp |-> t]
  <2>1. /\ ~Found(k) /\ Fresh # {} /\ size' = size + 1
        /\ degraded' = (degraded \/ Kept[k] # k)
        /\ \E top \in RandomLevel : /\ node' = Linked(new, item, Update(k), top)
                                    /\ level' = IF top > level THEN top ELSE level
    BY <1>2, Zenon DEF Set
  <2>2. PICK top \in RandomLevel : /\ node' = Linked(new, item, Update(k), top)
                                   /\ level' = IF top > level THEN top ELSE level
    BY <2>1
  <2>3. item.key = Kept[k] /\ item.value = v /\ item.timestamp = t
    OBVIOUS
  <2>4. new \in 1 .. MaxNodes /\ new \notin DOMAIN node
    BY <2>1, FreshIsFree
  <2> HIDE DEF new, item
  <2>5. /\ Shaped(node') /\ \E pos, last : Ordered(node', pos, last)
        /\ Tight(node', IF top > level THEN top ELSE level)
        /\ Added(node', new, k, v, t)
        /\ \A x \in Live : node[x].key # k
    BY <2>1, <2>2, <2>3, <2>4, SetLinks
  <2>6. Tight(node', level')
    BY <2>2, <2>5
  <2>7. Live' = Live \cup {new} /\ new \notin Live
    BY <2>5, LiveThen DEF Added
  <2>8. size' = Cardinality(Live')
    <3>1. IsFiniteSet(Live) /\ size = Cardinality(Live)
      BY LiveIsFinite, LiveThen DEF Inv
    <3> QED
      BY <2>1, <2>7, <3>1, FS_AddElement
  <2>9. degraded' \in BOOLEAN
    BY <2>1, Zenon
  <2>10. KeysDiffer'
    <3>1. CASE degraded \/ Kept[k] # k
      BY <2>1, <3>1, Zenon DEF KeysDiffer
    <3>2. CASE ~degraded /\ Kept[k] = k
      <4>1. \A x, y \in Live : node[x].key = node[y].key => x = y
        BY <3>2 DEF Inv, KeysDiffer
      <4>2. \A x, y \in Live' : node'[x].key = node'[y].key => x = y
        BY <2>5, <2>7, <3>2, <4>1 DEF Added
      <4> QED
        BY <4>2, Zenon DEF KeysDiffer
    <3> QED
      BY <3>1, <3>2
  <2> QED
    BY <2>5, <2>6, <2>8, <2>9, <2>10 DEF Inv
<1> QED
  BY <1>1, <1>2

LEMMA ModInv ==
    ASSUME Inv, NEW k \in Key, NEW v \in Value, NEW t \in Time, Mod(k, v, t)
    PROVE  Inv'
<1>1. CASE ~Found(k)
  BY <1>1, SameList DEF Mod, Inv
<1>2. CASE Found(k)
  <2>1. PICK pos, last : Ordered(node, pos, last)
    BY DEF Inv
  <2>2. Shaped(node) /\ Tight(node, level) /\ k \in Int
    BY KeyAssumption DEF Inv
  <2>3. Current(k) \in Live
    BY <1>2, <2>1, <2>2, FoundIsThere
  <2>4. /\ node' = [node EXCEPT ![Current(k)] = [@ EXCEPT !.value = v, !.timestamp = t]]
        /\ UNCHANGED <<level, size, degraded>>
    BY <1>2 DEF Mod
  <2>5. Rewritten(node', Current(k), v, t)
    BY <2>2, <2>3, <2>4, ModRewrites
  <2>6. Shaped(node') /\ Ordered(node', pos, last) /\ Tight(node', level) /\ Alive(node') = Live
    BY <2>1, <2>2, <2>5, RewrittenKeeps
  <2>7. Live' = Live
    BY <2>6, LiveThen
  <2>8. \A x \in Live : node'[x].key = node[x].key
    BY <2>5 DEF Rewritten, Live
  <2>9. KeysDiffer'
    <3>1. degraded \/ \A x, y \in Live : node[x].key = node[y].key => x = y
      BY DEF Inv, KeysDiffer
    <3>2. degraded \/ \A x, y \in Live' : node'[x].key = node'[y].key => x = y
      BY <2>7, <2>8, <3>1
    <3>3. degraded' = degraded
      BY <2>4
    <3> QED
      BY <3>2, <3>3, Zenon DEF KeysDiffer
  <2>10. Tight(node', level') /\ size' = Cardinality(Live') /\ degraded' \in BOOLEAN
    BY <2>4, <2>6, <2>7 DEF Inv
  <2> QED
    BY <2>6, <2>9, <2>10 DEF Inv
<1> QED
  BY <1>1, <1>2

LEMMA DelInv ==
    ASSUME Inv, NEW k \in Key, Del(k)
    PROVE  Inv'
<1>1. CASE ~Found(k)
  BY <1>1, SameList DEF Del, Inv
<1>2. CASE Found(k)
  <2> DEFINE c == Current(k)
  <2>1. /\ node' = Unlinked(Current(k), Update(k)) /\ level' = Lowered(node')
        /\ size' = size - 1 /\ degraded' = degraded
    BY <1>2 DEF Del
  <2>2. /\ Shaped(node') /\ \E pos, last : Ordered(node', pos, last)
        /\ Tight(node', Lowered(node')) /\ Taken(node', c)
    BY <1>2, <2>1, DelUnlinks
  <2> HIDE DEF c
  <2>3. Tight(node', level')
    BY <2>1, <2>2
  <2>4. Live' = Live \ {c} /\ c \in Live
    BY <2>2, LiveThen DEF Taken
  <2>5. size' = Cardinality(Live')
    <3>1. IsFiniteSet(Live) /\ size = Cardinality(Live)
      BY LiveIsFinite, LiveThen DEF Inv
    <3> QED
      BY <2>1, <2>4, <3>1, FS_RemoveElement
  <2>6. KeysDiffer'
    <3>1. degraded \/ \A x, y \in Live : node[x].key = node[y].key => x = y
      BY DEF Inv, KeysDiffer
    <3>2. degraded \/ \A x, y \in Live' : node'[x].key = node'[y].key => x = y
      BY <2>2, <2>4, <3>1 DEF Taken
    <3> QED
      BY <2>1, <3>2, Zenon DEF KeysDiffer
  <2>7. degraded' \in BOOLEAN
    BY <2>1 DEF Inv
  <2> QED
    BY <2>2, <2>3, <2>5, <2>6, <2>7 DEF Inv
<1> QED
  BY <1>1, <1>2

LEMMA ReadInv ==
    ASSUME Inv
    PROVE  /\ \A k \in Key : Get(k) \/ Exist(k) => Inv'
           /\ \A a, b \in Key : RangeQuery(a, b) => Inv'
           /\ GetAll => Inv'
<1>1. ASSUME NEW k \in Key, Get(k) \/ Exist(k)
      PROVE  Inv'
  BY <1>1, SameList DEF Get, Exist, Inv
<1>2. ASSUME NEW a \in Key, NEW b \in Key, RangeQuery(a, b)
      PROVE  Inv'
  <2>1. UNCHANGED <<node, level, size>> /\ (degraded' = TRUE \/ degraded' = degraded)
    BY <1>2, Zenon DEF RangeQuery
  <2>2. degraded' \in BOOLEAN /\ (degraded => degraded')
    BY <2>1, Zenon DEF Inv
  <2> QED
    BY <2>1, <2>2, SameList
<1>3. ASSUME GetAll
      PROVE  Inv'
  <2>1. UNCHANGED <<node, level, size>> /\ (degraded' = (degraded \/ size > 0) \/ degraded' = degraded)
    BY <1>3, Zenon DEF GetAll
  <2>2. degraded' \in BOOLEAN /\ (degraded => degraded')
    BY <2>1, Zenon DEF Inv
  <2> QED
    BY <2>1, <2>2, SameList
<1> QED
  BY <1>1, <1>2, <1>3

LEMMA NextInv == Inv /\ [Next]_vars => Inv'
<1> SUFFICES ASSUME Inv, [Next]_vars PROVE Inv'
  OBVIOUS
<1>1. CASE UNCHANGED vars
  BY <1>1, SameList DEF vars, Inv
<1> QED
  BY <1>1, SetInv, ModInv, DelInv, ReadInv DEF Next

LEMMA Invariance == Spec => []Inv
BY InitInv, NextInv, PTL DEF Spec

\* Whatever levels the coin gives and whichever allocations fail, no pointer
\* leads to a freed node or to one that is too low, and size counts the nodes.
THEOREM TypeCorrect == Spec => []TypeOK
<1>1. ASSUME Inv
      PROVE  TypeOK
  <2>1. PICK pos, last : Ordered(node, pos, last)
    BY <1>1 DEF Inv
  <2>2. Shaped(node) /\ level \in 0 .. MaxLevel /\ size = Cardinality(Live) /\ degraded \in BOOLEAN
    BY <1>1 DEF Inv, Tight
  <2>3. Header \in DOMAIN node /\ DOMAIN node \subseteq Nat
    BY <2>2 DEF Shaped
  <2>4. \A x \in Live : node[x].key \in StoredKey /\ node[x].value \in Value
    BY <2>2 DEF Shaped, Live, Alive
  <2>5. ASSUME NEW x \in DOMAIN node, NEW i \in DOMAIN node[x].forward
        PROVE  \/ node[x].forward[i] = Nil
               \/ /\ node[x].forward[i] \in Live
                  /\ i \in DOMAIN node[node[x].forward[i]].forward
    <3> DEFINE y == NextOf(i, x)
    <3>1. i \in 0 .. MaxLevel /\ x \in OnLevel(i)
      BY <2>2, ShapeOfNode DEF OnLevel
    <3>2. y = Nil \/ (y \in Span(node, i) /\ pos[x] < pos[y])
      BY <2>1, <3>1, NextFollows DEF Follows
    <3> HIDE DEF y
    <3>3. CASE y # Nil
      <4>1. y \in DOMAIN node /\ i \in DOMAIN node[y].forward /\ pos[x] < pos[y]
        BY <3>2, <3>3 DEF Span
      <4>2. y # Header
        <5>1. pos[x] \in Int /\ pos[Header] \in Int /\ (x # Header => pos[Header] < pos[x])
          BY <2>1, <2>3 DEF Ordered, Placed, Alive
        <5> QED
          BY <4>1, <5>1
      <4> QED
        BY <4>1, <4>2 DEF Live, y, NextOf
    <3> QED
      BY <3>3 DEF y, NextOf
  <2> QED
    BY <2>2, <2>3, <2>4, <2>5 DEF TypeOK
<1> QED
  BY <1>1, Invariance, PTL

\* level is the highest level in use after every SET and every DEL: SET never
\* links a node to the header over others, and no search starts too low.
THEOREM LevelStaysTight == Spec => []LevelIsTight
<1>1. Inv => LevelIsTight
  BY DEF Inv, Tight, LevelIsTight
<1> QED
  BY <1>1, Invariance, PTL

-------------------------------------------------------------------------------
\* s holds the members of T, each once, in the order of their places.
InOrder(s, T, pos) ==
    /\ s \in Seq(T)
    /\ \A z \in T : \E m \in 1 .. Len(s) : s[m] = z
    /\ \A m, n \in 1 .. Len(s) : m < n => pos[s[m]] < pos[s[n]]

LEMMA Prepending ==
    ASSUME NEW s, NEW T, NEW pos, InOrder(s, T, pos), NEW x, \A z \in T : pos[x] < pos[z]
    PROVE  InOrder(<<x>> \o s, T \cup {x}, pos)
<1> DEFINE r == <<x>> \o s
<1> DEFINE R == T \cup {x}
<1>1. s \in Seq(T) /\ Len(s) \in Nat
  BY DEF InOrder
<1>2. \A m \in 1 .. Len(s) : s[m] \in T
  BY <1>1
<1>3. s \in Seq(R) /\ <<x>> \in Seq(R)
  BY <1>1
<1>4. r \in Seq(R) /\ Len(r) = Len(s) + 1
  BY <1>3
<1>5. r[1] = x /\ \A m \in 1 .. Len(s) : r[m + 1] = s[m]
  BY <1>3
<1> HIDE DEF r
<1>6. \A m \in 1 .. Len(r) : m = 1 \/ (m - 1 \in 1 .. Len(s) /\ r[m] = s[m - 1])
  <2>1. ASSUME NEW m \in 1 .. Len(r), m # 1
        PROVE  m - 1 \in 1 .. Len(s) /\ r[m] = s[m - 1]
    <3>1. m - 1 \in 1 .. Len(s) /\ (m - 1) + 1 = m
      BY <1>1, <1>4, <2>1
    <3> QED
      BY <1>5, <3>1
  <2> QED
    BY <2>1
<1>7. ASSUME NEW z \in R
      PROVE  \E m \in 1 .. Len(r) : r[m] = z
  <2>1. CASE z = x
    BY <1>1, <1>4, <1>5, <2>1
  <2>2. CASE z # x
    <3>1. PICK m \in 1 .. Len(s) : s[m] = z
      BY <2>2 DEF InOrder
    <3>2. m + 1 \in 1 .. Len(r)
      BY <1>1, <1>4
    <3> QED
      BY <1>5, <3>1, <3>2
  <2> QED
    BY <2>1, <2>2
<1>8. ASSUME NEW m \in 1 .. Len(r), NEW n \in 1 .. Len(r), m < n
      PROVE  pos[r[m]] < pos[r[n]]
  <2>1. n # 1
    BY <1>8
  <2>2. n - 1 \in 1 .. Len(s) /\ r[n] = s[n - 1]
    BY <1>6, <2>1
  <2>3. CASE m = 1
    BY <1>2, <1>5, <2>2, <2>3
  <2>4. CASE m # 1
    <3>1. m - 1 \in 1 .. Len(s) /\ r[m] = s[m - 1] /\ m - 1 < n - 1
      BY <1>6, <1>8, <2>4
    <3> QED
      BY <2>2, <3>1 DEF InOrder
  <2> QED
    BY <2>3, <2>4
<1> QED
  BY <1>4, <1>7, <1>8 DEF InOrder, r

\* The list of a level, from x on.
Here(S, x) == IF x \in S THEN <<x>> ELSE <<>>
ListFrom(f, i, S, x) == IF x = Nil THEN <<>> ELSE Here(S, x) \o f[NextOf(i, x)]
Listing(f, i, S, D) == f = [x \in D |-> ListFrom(f, i, S, x)]

LEMMA ListedIsListing ==
    \A i, S : Listed(i, S) =
        (CHOOSE f : Listing(f, i, S, OnLevel(i) \cup {Nil}))[NextOf(i, Header)]
BY DEF Listed, Listing, ListFrom, Here, NextOf

\* The nodes of a level from x on, and NULL.
Rest(pos, i, x) == {z \in OnLevel(i) : pos[x] <= pos[z]} \cup {Nil}

\* From a node, a level goes on at the next one.
LEMMA RestGoesOn ==
    ASSUME NEW pos, NEW last, Shaped(node), Ordered(node, pos, last),
           NEW i \in 0 .. MaxLevel, NEW x \in OnLevel(i)
    PROVE  /\ x # Nil /\ Nil \notin OnLevel(i) /\ x \in Rest(pos, i, x)
           /\ NextOf(i, x) # Nil =>
                 /\ NextOf(i, x) \in OnLevel(i) /\ pos[x] < pos[NextOf(i, x)]
                 /\ Rest(pos, i, x) = Rest(pos, i, NextOf(i, x)) \cup {x}
                 /\ x \notin Rest(pos, i, NextOf(i, x))
           /\ NextOf(i, x) = Nil => Rest(pos, i, x) = {x, Nil}
<1> DEFINE y == NextOf(i, x)
<1>1. \/ y = Nil /\ \A z \in OnLevel(i) : pos[z] <= pos[x]
      \/ /\ y \in OnLevel(i) /\ pos[x] < pos[y]
         /\ \A z \in OnLevel(i) : pos[z] <= pos[x] \/ pos[y] <= pos[z]
  BY NextFollows, OnLevelIsSpan DEF Follows
<1>2. \A z \in OnLevel(i) : z \in DOMAIN node /\ pos[z] \in Int /\ z # Nil
  BY ShapeOfNode DEF OnLevel, Ordered, Placed
<1>3. \A z \in OnLevel(i) : pos[z] = pos[x] => z = x
  BY <1>2 DEF Ordered, Placed
<1> HIDE DEF y
<1>4. x \in Rest(pos, i, x)
  BY <1>2 DEF Rest
<1>5. ASSUME y # Nil
      PROVE  /\ y \in OnLevel(i) /\ pos[x] < pos[y]
             /\ Rest(pos, i, x) = Rest(pos, i, y) \cup {x}
             /\ x \notin Rest(pos, i, y)
  <2>1. /\ y \in OnLevel(i) /\ pos[x] < pos[y]
        /\ \A z \in OnLevel(i) : pos[z] <= pos[x] \/ pos[y] <= pos[z]
    BY <1>1, <1>5
  <2>2. \A z \in OnLevel(i) : pos[x] <= pos[z] <=> z = x \/ pos[y] <= pos[z]
    BY <1>2, <1>3, <2>1
  <2>3. x \notin Rest(pos, i, y)
    BY <1>2, <2>1 DEF Rest
  <2> QED
    BY <2>1, <2>2, <2>3 DEF Rest
<1>6. ASSUME y = Nil
      PROVE  Rest(pos, i, x) = {x, Nil}
  <2>1. \A z \in OnLevel(i) : pos[x] <= pos[z] <=> z = x
    BY <1>1, <1>2, <1>3, <1>6
  <2> QED
    BY <2>1 DEF Rest
<1> QED
  BY <1>2, <1>4, <1>5, <1>6 DEF y

LEMMA ListingExists ==
    ASSUME NEW pos, NEW last, Shaped(node), Ordered(node, pos, last),
           NEW i \in 0 .. MaxLevel, NEW S, NEW x \in OnLevel(i)
    PROVE  \E f : Listing(f, i, S, Rest(pos, i, x))
<1> DEFINE B == {z \in OnLevel(i) : ~\E f : Listing(f, i, S, Rest(pos, i, z))}
<1> SUFFICES ASSUME B # {} PROVE FALSE
  OBVIOUS
<1>1. B \subseteq DOMAIN node
  BY DEF OnLevel
<1>2. last \in Nat /\ pos \in [DOMAIN node -> 0 .. last]
  BY DEF Ordered, Placed
<1> HIDE DEF B
<1>3. PICK z \in B : \A v \in B : pos[v] <= pos[z]
  BY <1>1, <1>2, LastOf
<1>4. z \in OnLevel(i) /\ ~\E f : Listing(f, i, S, Rest(pos, i, z))
  BY DEF B
<1> DEFINE y == NextOf(i, z)
<1> DEFINE D == IF y = Nil THEN {Nil} ELSE Rest(pos, i, y)
<1>5. \E g : Listing(g, i, S, D)
  <2>1. CASE y = Nil
    <3> DEFINE g == [v \in {Nil} |-> <<>>]
    <3>1. Listing(g, i, S, {Nil})
      BY DEF Listing, ListFrom
    <3> QED
      BY <2>1, <3>1
  <2>2. CASE y # Nil
    <3>1. y \in OnLevel(i) /\ pos[z] < pos[y]
      BY <1>4, <2>2, RestGoesOn
    <3>2. y \notin B
      <4>1. pos[z] \in Int /\ pos[y] \in Int
        BY <1>2, <1>4, <3>1 DEF OnLevel
      <4> QED
        BY <1>3, <3>1, <4>1
    <3> QED
      BY <2>2, <3>1, <3>2 DEF B
  <2> QED
    BY <2>1, <2>2
<1>6. PICK g : Listing(g, i, S, D)
  BY <1>5
<1>7. Rest(pos, i, z) = D \cup {z} /\ z \notin D /\ z # Nil /\ y \in D
  <2>1. CASE y = Nil
    BY <1>4, <2>1, RestGoesOn
  <2>2. CASE y # Nil
    <3>1. y \in OnLevel(i)
      BY <1>4, <2>2, RestGoesOn
    <3> QED
      BY <1>4, <2>2, <3>1, RestGoesOn
  <2> QED
    BY <2>1, <2>2
<1>8. \A v \in D : v # Nil => NextOf(i, v) \in D
  <2>1. ASSUME NEW v \in D, v # Nil
        PROVE  NextOf(i, v) \in D
    <3>1. y # Nil /\ v \in OnLevel(i) /\ pos[y] <= pos[v]
      BY <2>1 DEF Rest
    <3>2. CASE NextOf(i, v) = Nil
      BY <3>1, <3>2 DEF Rest
    <3>3. CASE NextOf(i, v) # Nil
      <4>1. NextOf(i, v) \in OnLevel(i) /\ pos[v] < pos[NextOf(i, v)]
        BY <3>1, <3>3, RestGoesOn
      <4>2. y \in OnLevel(i)
        BY <1>4, <3>1, RestGoesOn
      <4>3. pos[y] \in Int /\ pos[v] \in Int /\ pos[NextOf(i, v)] \in Int
        BY <1>2, <3>1, <4>1, <4>2 DEF OnLevel
      <4>4. pos[y] <= pos[NextOf(i, v)]
        BY <3>1, <4>1, <4>3
      <4> QED
        BY <3>1, <4>1, <4>4 DEF Rest
    <3> QED
      BY <3>2, <3>3
  <2> QED
    BY <2>1
<1> HIDE DEF D
<1> DEFINE f == [v \in D \cup {z} |-> IF v = z THEN Here(S, z) \o g[y] ELSE g[v]]
<1>9. \A v \in D : f[v] = g[v]
  BY <1>7
<1>10. f[z] = Here(S, z) \o f[y]
  BY <1>7, <1>9
<1>11. f = [v \in D \cup {z} |-> f[v]]
  OBVIOUS
<1> HIDE DEF f
<1>12. ASSUME NEW v \in D
       PROVE  f[v] = ListFrom(f, i, S, v)
  <2>1. f[v] = ListFrom(g, i, S, v)
    BY <1>6, <1>9 DEF Listing
  <2>2. v # Nil => g[NextOf(i, v)] = f[NextOf(i, v)]
    BY <1>8, <1>9
  <2> QED
    BY <2>1, <2>2 DEF ListFrom
<1>13. f[z] = ListFrom(f, i, S, z)
  BY <1>7, <1>10 DEF ListFrom
<1>14. Listing(f, i, S, D \cup {z})
  BY <1>11, <1>12, <1>13 DEF Listing
<1> QED
  BY <1>4, <1>7, <1>14

\* The addresses Listed gives are those on the level that are asked for, each
\* once, in the order of the list.
LEMMA ListedInOrder ==
    ASSUME NEW pos, NEW last, Shaped(node), Ordered(node, pos, last),
           NEW i \in 0 .. MaxLevel, NEW S, S \subseteq Live
    PROVE  InOrder(Listed(i, S), OnLevel(i) \cap S, pos)
<1> DEFINE f == CHOOSE f : Listing(f, i, S, OnLevel(i) \cup {Nil})
<1>1. Header \in OnLevel(i) /\ Header \in DOMAIN node
  BY HeaderSpans, OnLevelIsSpan DEF Shaped
<1>2. last \in Nat /\ pos \in [DOMAIN node -> 0 .. last]
  BY DEF Ordered, Placed
<1>3. Listing(f, i, S, OnLevel(i) \cup {Nil})
  <2>1. \A z \in OnLevel(i) : pos[Header] <= pos[z]
    BY <1>1, <1>2 DEF OnLevel, Ordered, Placed, Alive
  <2>2. Rest(pos, i, Header) = OnLevel(i) \cup {Nil}
    BY <2>1 DEF Rest
  <2>3. \E g : Listing(g, i, S, OnLevel(i) \cup {Nil})
    BY <1>1, <2>2, ListingExists
  <2> QED
    BY <2>3
<1>4. Listed(i, S) = f[NextOf(i, Header)]
  BY ListedIsListing
<1> HIDE DEF f
<1>5. f[Nil] = <<>>
  BY <1>3 DEF Listing, ListFrom
<1>6. \A x \in OnLevel(i) : x # Nil /\ f[x] = Here(S, x) \o f[NextOf(i, x)]
  BY <1>3, RestGoesOn DEF Listing, ListFrom
<1> DEFINE T(x) == Rest(pos, i, x) \cap S
<1> DEFINE B == {x \in OnLevel(i) : ~InOrder(f[x], T(x), pos)}
<1>7. B = {}
  <2> SUFFICES ASSUME B # {} PROVE FALSE
    OBVIOUS
  <2>1. B \subseteq DOMAIN node
    BY DEF OnLevel
  <2> HIDE DEF B
  <2>2. PICK x \in B : \A v \in B : pos[v] <= pos[x]
    BY <1>2, <2>1, LastOf
  <2>3. x \in OnLevel(i) /\ ~InOrder(f[x], T(x), pos)
    BY DEF B
  <2> DEFINE y == NextOf(i, x)
  <2> DEFINE R == T(x) \ {x}
  <2>4. Nil \notin S
    BY ShapeOfNode DEF Live
  <2>5. InOrder(f[y], R, pos) /\ \A z \in R : pos[x] < pos[z]
    <3>1. CASE y = Nil
      <4>1. R = {}
        BY <2>3, <2>4, <3>1, RestGoesOn
      <4>2. InOrder(<<>>, {}, pos)
        BY DEF InOrder
      <4> QED
        BY <1>5, <3>1, <4>1, <4>2
    <3>2. CASE y # Nil
      <4>1. /\ y \in OnLevel(i) /\ pos[x] < pos[y]
            /\ Rest(pos, i, x) = Rest(pos, i, y) \cup {x} /\ x \notin Rest(pos, i, y)
        BY <2>3, <3>2, RestGoesOn
      <4>2. pos[x] \in Int /\ \A z \in OnLevel(i) : pos[z] \in Int
        BY <1>2, <2>3 DEF OnLevel
      <4>3. y \notin B
        BY <2>2, <4>1, <4>2
      <4>4. InOrder(f[y], T(y), pos)
        BY <4>1, <4>3 DEF B
      <4>5. R = T(y)
        BY <4>1
      <4>6. \A z \in R : z \in OnLevel(i) /\ pos[y] <= pos[z]
        BY <2>4, <4>5 DEF Rest
      <4> QED
        BY <4>1, <4>2, <4>4, <4>5, <4>6
    <3> QED
      BY <3>1, <3>2
  <2>6. f[x] = Here(S, x) \o f[y]
    BY <1>6, <2>3
  <2>7. x \in Rest(pos, i, x)
    BY <2>3, RestGoesOn
  <2>8. CASE x \in S
    <3>1. T(x) = R \cup {x}
      BY <2>7, <2>8
    <3> HIDE DEF R
    <3>2. InOrder(<<x>> \o f[y], R \cup {x}, pos)
      BY <2>5, Prepending
    <3> QED
      BY <2>3, <2>6, <2>8, <3>1, <3>2 DEF Here
  <2>9. CASE x \notin S
    <3>1. T(x) = R
      BY <2>9
    <3> HIDE DEF R
    <3>2. f[y] \in Seq(R)
      BY <2>5 DEF InOrder
    <3>3. <<>> \o f[y] = f[y]
      BY <3>2
    <3> QED
      BY <2>3, <2>5, <2>6, <2>9, <3>1, <3>3 DEF Here
  <2> QED
    BY <2>8, <2>9
<1> DEFINE y == NextOf(i, Header)
<1>8. Header \notin S /\ Nil \notin S
  BY ShapeOfNode DEF Live
<1>9. CASE y = Nil
  <2>1. OnLevel(i) \cap S = {}
    <3>1. Rest(pos, i, Header) = {Header, Nil}
      BY <1>1, <1>9, RestGoesOn
    <3>2. \A z \in OnLevel(i) : pos[Header] <= pos[z]
      BY <1>1, <1>2 DEF OnLevel, Ordered, Placed, Alive
    <3> QED
      BY <1>8, <3>1, <3>2 DEF Rest
  <2>2. InOrder(<<>>, {}, pos)
    BY DEF InOrder
  <2> QED
    BY <1>4, <1>5, <1>9, <2>1, <2>2
<1>10. CASE y # Nil
  <2>1. y \in OnLevel(i) /\ Rest(pos, i, Header) = Rest(pos, i, y) \cup {Header}
    BY <1>1, <1>10, RestGoesOn
  <2>2. \A z \in OnLevel(i) : pos[Header] <= pos[z]
    BY <1>1, <1>2 DEF OnLevel, Ordered, Placed, Alive
  <2>3. T(y) = OnLevel(i) \cap S
    BY <1>8, <2>1, <2>2 DEF Rest
  <2>4. InOrder(f[y], T(y), pos)
    BY <1>7, <2>1
  <2> QED
    BY <1>4, <2>3, <2>4
<1> QED
  BY <1>9, <1>10

\* The list on each level is the nodes that reach the level, in key order, for
\* every number of levels and every history: a search that goes down loses no
\* node.
THEOREM LanesStayNested == Spec => []LanesNest
<1>1. ASSUME Inv
      PROVE  LanesNest
  <2>1. PICK pos, last : Ordered(node, pos, last)
    BY <1>1 DEF Inv
  <2>2. Shaped(node)
    BY <1>1 DEF Inv
  <2>3. SUFFICES ASSUME NEW i \in 0 .. MaxLevel
                 PROVE  /\ Addresses(i) = {x \in Live : i \in DOMAIN node[x].forward}
                        /\ \A n \in 1 .. Len(Chain(i)) - 1 :
                              node[Chain(i)[n]].key <= node[Chain(i)[n + 1]].key
    BY DEF LanesNest
  <2> DEFINE s == Chain(i)
  <2> DEFINE T == OnLevel(i) \cap Live
  <2>4. InOrder(s, T, pos)
    BY <2>1, <2>2, ListedInOrder DEF Chain
  <2>5. T = {x \in Live : i \in DOMAIN node[x].forward}
    BY DEF OnLevel, Live
  <2>6. Addresses(i) = {s[n] : n \in DOMAIN s}
    BY DEF Addresses
  <2> HIDE DEF s, T
  <2>7. s \in Seq(T) /\ DOMAIN s = 1 .. Len(s) /\ Len(s) \in Nat
    BY <2>4 DEF InOrder
  <2>8. \A n \in 1 .. Len(s) : s[n] \in T
    BY <2>7
  <2>9. Addresses(i) = T
    BY <2>4, <2>6, <2>7, <2>8 DEF InOrder
  <2>10. ASSUME NEW n \in 1 .. Len(s) - 1
         PROVE  node[s[n]].key <= node[s[n + 1]].key
    <3>1. n \in 1 .. Len(s) /\ n + 1 \in 1 .. Len(s) /\ n < n + 1
      BY <2>7
    <3>2. pos[s[n]] < pos[s[n + 1]]
      BY <2>4, <3>1 DEF InOrder
    <3>3. s[n] \in Live /\ s[n + 1] \in Live
      BY <2>8, <3>1 DEF T
    <3> QED
      BY <2>1, <3>2, <3>3 DEF Ordered, Sorted, Alive, Live
  <2> QED
    BY <2>5, <2>9, <2>10 DEF s
<1> QED
  BY <1>1, Invariance, PTL

-------------------------------------------------------------------------------
(***************************************************************************)
(* The skip list implements the abstract store.                            *)
(***************************************************************************)

\* The map that the nodes at some addresses stand for.
Stamped(r) == [value |-> r.value, timestamp |-> r.timestamp]
KeysAt(n, S) == {n[x].key : x \in S}
MapAt(n, S) == [k \in KeysAt(n, S) |-> Stamped(n[CHOOSE x \in S : n[x].key = k])]
Distinct(n, S) == \A x, y \in S : n[x].key = n[y].key => x = y

LEMMA StoreIs == StoreMap = MapAt(node, Live) /\ StoreMap' = MapAt(node', Live')
BY DEF StoreMap, MapAt, KeysAt, Stamped

\* A node is what the map has for its key.
LEMMA MapHas ==
    ASSUME NEW n, NEW S, Distinct(n, S), NEW x \in S
    PROVE  n[x].key \in KeysAt(n, S) /\ MapAt(n, S)[n[x].key] = Stamped(n[x])
<1>1. n[x].key \in KeysAt(n, S)
  BY DEF KeysAt
<1> DEFINE y == CHOOSE y \in S : n[y].key = n[x].key
<1>2. y \in S /\ n[y].key = n[x].key
  OBVIOUS
<1>3. y = x
  BY <1>2 DEF Distinct
<1>4. MapAt(n, S)[n[x].key] = Stamped(n[y])
  BY <1>1 DEF MapAt
<1> QED
  BY <1>1, <1>3, <1>4

\* A function that has the keys of the nodes, and for each key what its node
\* holds, is their map.
LEMMA MapIs ==
    ASSUME NEW n, NEW S, Distinct(n, S), NEW K, NEW f, K = KeysAt(n, S),
           \A x \in S : f[n[x].key] = Stamped(n[x])
    PROVE  MapAt(n, S) = [k \in K |-> f[k]]
<1>1. ASSUME NEW k \in KeysAt(n, S)
      PROVE  MapAt(n, S)[k] = f[k]
  <2>1. PICK x \in S : k = n[x].key
    BY DEF KeysAt
  <2>2. MapAt(n, S)[k] = Stamped(n[x])
    BY <2>1, MapHas
  <2> QED
    BY <2>1, <2>2
<1> QED
  BY <1>1 DEF MapAt

\* As long as no key was cut, every node is in the map.
LEMMA Store ==
    ASSUME Inv, ~degraded
    PROVE  /\ Distinct(node, Live)
           /\ DOMAIN StoreMap = KeysAt(node, Live)
           /\ \A x \in Live : /\ node[x].key \in DOMAIN StoreMap
                              /\ StoreMap[node[x].key] = Stamped(node[x])
                              /\ StoreMap[node[x].key].value = node[x].value
                              /\ StoreMap[node[x].key].timestamp = node[x].timestamp
           /\ \A k \in DOMAIN StoreMap : \E x \in Live : node[x].key = k
<1>1. Distinct(node, Live)
  BY DEF Inv, KeysDiffer, Distinct
<1>2. DOMAIN StoreMap = KeysAt(node, Live)
  BY StoreIs DEF MapAt
<1>3. \A x \in Live : node[x].key \in DOMAIN StoreMap /\ StoreMap[node[x].key] = Stamped(node[x])
  BY <1>1, <1>2, StoreIs, MapHas
<1>4. \A x : Stamped(node[x]).value = node[x].value /\ Stamped(node[x]).timestamp = node[x].timestamp
  BY DEF Stamped
<1>5. \A k \in DOMAIN StoreMap : \E x \in Live : node[x].key = k
  BY <1>2 DEF KeysAt
<1> QED
  BY <1>1, <1>2, <1>3, <1>4, <1>5

\* A search finds exactly the keys of the map, and the node that has the key.
LEMMA FoundIsPresent ==
    ASSUME Inv, ~degraded, NEW k \in Key
    PROVE  /\ Found(k) <=> k \in DOMAIN StoreMap
           /\ Found(k) => /\ Current(k) \in Live /\ node[Current(k)].key = k
                          /\ StoreMap[k].value = node[Current(k)].value
<1>1. PICK pos, last : Ordered(node, pos, last)
  BY DEF Inv
<1>2. Shaped(node) /\ Tight(node, level) /\ k \in Int
  BY KeyAssumption DEF Inv
<1>3. /\ Found(k) => Current(k) \in Live /\ node[Current(k)].key = k
      /\ ~Found(k) => \A x \in Live : node[x].key # k
  BY <1>1, <1>2, FoundIsThere
<1> QED
  BY <1>3, Store

\* The step gives k the value v and the time t.
Putting(k, v, t) ==
    StoreMap' = [x \in DOMAIN StoreMap \cup {k} |->
                    IF x = k THEN [value |-> v, timestamp |-> t] ELSE StoreMap[x]]

LEMMA LinkPuts ==
    ASSUME Inv, ~degraded, NEW k \in Key, NEW v \in Value, NEW t \in Time, Kept[k] = k,
           \A x \in Live : node[x].key # k, NEW new, Added(node', new, k, v, t)
    PROVE  Putting(k, v, t)
<1> DEFINE n == node'
<1> DEFINE L == Live'
<1> DEFINE K == DOMAIN StoreMap \cup {k}
<1> DEFINE f == [x \in K |-> IF x = k THEN [value |-> v, timestamp |-> t] ELSE StoreMap[x]]
<1>1. StoreMap' = MapAt(n, L) /\ L = Alive(n)
  BY StoreIs, LiveThen
<1> HIDE DEF n, L
<1>2. Added(n, new, k, v, t)
  BY DEF n
<1>3. L = Live \cup {new} /\ new \notin Live
  BY <1>1, <1>2 DEF Added
<1>4. /\ n[new].key = k /\ Stamped(n[new]) = [value |-> v, timestamp |-> t]
      /\ \A x \in Live : n[x].key = node[x].key /\ Stamped(n[x]) = Stamped(node[x])
  BY <1>2 DEF Added, Stamped
<1>5. Distinct(n, L)
  BY <1>3, <1>4, Store DEF Distinct
<1>6. K = KeysAt(n, L)
  <2>1. KeysAt(n, L) = KeysAt(node, Live) \cup {k}
    BY <1>3, <1>4 DEF KeysAt
  <2> QED
    BY <2>1, Store
<1>7. \A x \in L : f[n[x].key] = Stamped(n[x])
  BY <1>3, <1>4, Store
<1> HIDE DEF f, K
<1>8. MapAt(n, L) = [x \in K |-> f[x]]
  BY <1>5, <1>6, <1>7, MapIs
<1>9. f = [x \in K |-> f[x]]
  BY DEF f
<1>10. StoreMap' = f
  BY <1>1, <1>8, <1>9
<1> QED
  BY <1>10 DEF f, K, Putting

LEMMA RewritePuts ==
    ASSUME Inv, ~degraded, NEW k \in Key, NEW v \in Value, NEW t \in Time,
           NEW c, node[c].key = k, Rewritten(node', c, v, t), Live' = Live
    PROVE  Putting(k, v, t)
<1> DEFINE n == node'
<1> DEFINE K == DOMAIN StoreMap \cup {k}
<1> DEFINE f == [x \in K |-> IF x = k THEN [value |-> v, timestamp |-> t] ELSE StoreMap[x]]
<1>1. StoreMap' = MapAt(n, Live)
  BY StoreIs
<1> HIDE DEF n
<1>2. Rewritten(n, c, v, t) /\ c \in Live
  BY DEF n, Rewritten
<1>3. /\ Stamped(n[c]) = [value |-> v, timestamp |-> t]
      /\ \A x \in Live : n[x].key = node[x].key /\ (x # c => Stamped(n[x]) = Stamped(node[x]))
  BY <1>2 DEF Rewritten, Stamped, Live
<1>4. Distinct(n, Live) /\ \A x \in Live : node[x].key = k => x = c
  BY <1>2, <1>3, Store DEF Distinct
<1>5. K = KeysAt(n, Live)
  <2>1. KeysAt(n, Live) = KeysAt(node, Live) /\ k \in KeysAt(node, Live)
    BY <1>2, <1>3 DEF KeysAt
  <2> QED
    BY <2>1, Store
<1>6. \A x \in Live : f[n[x].key] = Stamped(n[x])
  BY <1>3, <1>4, Store
<1> HIDE DEF f, K
<1>7. MapAt(n, Live) = [x \in K |-> f[x]]
  BY <1>4, <1>5, <1>6, MapIs
<1>8. f = [x \in K |-> f[x]]
  BY DEF f
<1>9. StoreMap' = f
  BY <1>1, <1>7, <1>8
<1> QED
  BY <1>9 DEF f, K, Putting

LEMMA TakeRemoves ==
    ASSUME Inv, ~degraded, NEW k \in Key, NEW c, node[c].key = k, Taken(node', c)
    PROVE  StoreMap' = [x \in DOMAIN StoreMap \ {k} |-> StoreMap[x]]
<1> DEFINE n == node'
<1> DEFINE L == Live'
<1> DEFINE K == DOMAIN StoreMap \ {k}
<1>1. StoreMap' = MapAt(n, L) /\ L = Alive(n)
  BY StoreIs, LiveThen
<1> HIDE DEF n, L
<1>2. Taken(n, c)
  BY DEF n
<1>3. L = Live \ {c} /\ c \in Live
  BY <1>1, <1>2 DEF Taken
<1>4. \A x \in L : n[x].key = node[x].key /\ Stamped(n[x]) = Stamped(node[x])
  BY <1>2, <1>3 DEF Taken, Stamped
<1>5. Distinct(n, L) /\ \A x \in Live : node[x].key = k => x = c
  BY <1>3, <1>4, Store DEF Distinct
<1>6. K = KeysAt(n, L)
  <2>1. KeysAt(n, L) = KeysAt(node, Live) \ {k}
    BY <1>3, <1>4, <1>5 DEF KeysAt
  <2> QED
    BY <2>1, Store
<1>7. \A x \in L : StoreMap[n[x].key] = Stamped(n[x])
  BY <1>3, <1>4, Store
<1> HIDE DEF K
<1>8. MapAt(n, L) = [x \in K |-> StoreMap[x]]
  BY <1>5, <1>6, <1>7, MapIs
<1> QED
  BY <1>1, <1>8 DEF K

-------------------------------------------------------------------------------
\* The first m of some items with ascending keys are m.
LEMMA FirstCount ==
    ASSUME NEW N \in Nat, NEW r, \A m \in 1 .. N : r[m][1] \in Int,
           \A m, n \in 1 .. N : m < n => r[m][1] < r[n][1], NEW m \in 0 .. N
    PROVE  Cardinality({r[j] : j \in 1 .. m}) = m
<1> DEFINE T == {r[j] : j \in 1 .. m}
<1> DEFINE f == [j \in 1 .. m |-> r[j]]
<1>1. \A j \in 1 .. m : j \in 1 .. N
  OBVIOUS
<1>2. f \in [1 .. m -> T] /\ \A j \in 1 .. m : f[j] = r[j]
  OBVIOUS
<1>3. \A i, j \in 1 .. m : r[i] = r[j] => i = j
  <2>1. ASSUME NEW i \in 1 .. m, NEW j \in 1 .. m, i < j
        PROVE  r[i] # r[j]
    <3>1. r[i][1] < r[j][1] /\ r[i][1] \in Int /\ r[j][1] \in Int
      BY <1>1, <2>1
    <3> QED
      BY <3>1
  <2>2. \A i, j \in 1 .. m : i < j \/ j < i \/ i = j
    OBVIOUS
  <2> QED
    BY <2>1, <2>2
<1>4. \A t \in T : \E j \in 1 .. m : f[j] = t
  BY <1>2
<1> HIDE DEF f, T
<1>5. f \in Bijection(1 .. m, T)
  BY <1>2, <1>3, <1>4 DEF Bijection, Injection, Surjection, IsInjective
<1>6. ExistsBijection(1 .. m, T)
  BY <1>5 DEF ExistsBijection
<1> QED
  BY <1>6, FS_CountingElements DEF T

\* Items that come with ascending keys come sorted.
LEMMA AscendingIsSorted ==
    ASSUME NEW N \in Nat, NEW r, r = [m \in 1 .. N |-> r[m]], \A m \in 1 .. N : r[m][1] \in Int,
           \A m, n \in 1 .. N : m < n => r[m][1] < r[n][1],
           NEW items, items = {r[m] : m \in 1 .. N}
    PROVE  SortByKey(items) = r
<1> DEFINE Smaller(x) == {y \in items : y[1] < x[1]}
<1> DEFINE NotGreater(x) == {y \in items : y[1] <= x[1]}
<1> DEFINE Fits(x, m) == Cardinality(Smaller(x)) < m /\ m <= Cardinality(NotGreater(x))
<1>0. \A l \in 0 .. N : Cardinality({r[j] : j \in 1 .. l}) = l
  BY FirstCount
<1>1. Cardinality(items) = N
  BY FirstCount
<1>2. ASSUME NEW m \in 1 .. N
      PROVE  Cardinality(Smaller(r[m])) = m - 1 /\ Cardinality(NotGreater(r[m])) = m
  <2>1. \A j \in 1 .. N : (r[j][1] < r[m][1] <=> j < m) /\ (r[j][1] <= r[m][1] <=> j <= m)
    <3>1. ASSUME NEW j \in 1 .. N
          PROVE  (r[j][1] < r[m][1] <=> j < m) /\ (r[j][1] <= r[m][1] <=> j <= m)
      <4>1. r[j][1] \in Int /\ r[m][1] \in Int
        OBVIOUS
      <4>2. (j < m => r[j][1] < r[m][1]) /\ (m < j => r[m][1] < r[j][1])
        OBVIOUS
      <4>3. j < m \/ j = m \/ m < j
        OBVIOUS
      <4> QED
        BY <4>1, <4>2, <4>3
    <3> QED
      BY <3>1
  <2>2. Smaller(r[m]) = {r[j] : j \in 1 .. m - 1}
    BY <2>1
  <2>3. NotGreater(r[m]) = {r[j] : j \in 1 .. m}
    BY <2>1
  <2>4. m - 1 \in 0 .. N /\ m \in 0 .. N
    OBVIOUS
  <2>5. Cardinality({r[j] : j \in 1 .. m - 1}) = m - 1
    BY <1>0, <2>4, Zenon
  <2>6. Cardinality({r[j] : j \in 1 .. m}) = m
    BY <1>0, <2>4, Zenon
  <2> HIDE DEF Smaller, NotGreater
  <2> QED
    BY <2>2, <2>3, <2>5, <2>6
<1>3. ASSUME NEW m \in 1 .. N
      PROVE  (CHOOSE x \in items : Fits(x, m)) = r[m]
  <2>1. ASSUME NEW x \in items
        PROVE  Fits(x, m) <=> x = r[m]
    <3>1. PICK j \in 1 .. N : x = r[j]
      OBVIOUS
    <3>2. Cardinality(Smaller(x)) = j - 1 /\ Cardinality(NotGreater(x)) = j
      BY <1>2, <3>1
    <3> HIDE DEF Smaller, NotGreater
    <3>3. Fits(x, m) <=> j - 1 < m /\ m <= j
      BY <3>2
    <3>4. Fits(x, m) <=> j = m
      BY <3>3
    <3>5. r[j] = r[m] => j = m
      <4>1. j < m => r[j][1] < r[m][1]
        OBVIOUS
      <4>2. m < j => r[m][1] < r[j][1]
        OBVIOUS
      <4>3. r[j][1] \in Int /\ r[m][1] \in Int
        OBVIOUS
      <4>4. r[j] = r[m] => r[j][1] = r[m][1]
        OBVIOUS
      <4> QED
        BY <4>1, <4>2, <4>3, <4>4
    <3> HIDE DEF Fits
    <3> QED
      BY <3>1, <3>4, <3>5
  <2>2. r[m] \in items
    OBVIOUS
  <2> HIDE DEF Fits
  <2> QED
    BY <2>1, <2>2
<1>4. SortByKey(items) = [m \in 1 .. N |-> CHOOSE x \in items : Fits(x, m)]
  BY <1>1 DEF SortByKey
<1> HIDE DEF Fits
<1> QED
  BY <1>3, <1>4

\* The items RANGE collects are those of the map between the two keys, in key
\* order: the walk of level 0 has nothing to sort.
LEMMA WalkIsSorted ==
    ASSUME Inv, ~degraded, NEW a \in Key, NEW b \in Key,
           NEW s, s = Listed(0, {x \in Live : a <= node[x].key /\ node[x].key <= b})
    PROVE  /\ [n \in DOMAIN s |-> <<node[s[n]].key, node[s[n]].value>>] =
                 Abs!SortByKey(Abs!Between(a, b))
           /\ s = <<>> <=> Abs!Between(a, b) = {}
<1> DEFINE S == {x \in Live : a <= node[x].key /\ node[x].key <= b}
<1> DEFINE r == [n \in DOMAIN s |-> <<node[s[n]].key, node[s[n]].value>>]
<1> DEFINE N == Len(s)
<1> DEFINE items == {r[m] : m \in 1 .. N}
<1>1. PICK pos, last : Ordered(node, pos, last)
  BY DEF Inv
<1>2. Shaped(node) /\ S \subseteq Live /\ 0 \in 0 .. MaxLevel
  BY DEF Inv
<1>3. OnLevel(0) \cap S = S
  BY <1>2, LevelZero, OnLevelIsSpan DEF Live
<1>4. InOrder(s, S, pos)
  BY <1>1, <1>2, <1>3, ListedInOrder
<1>5. \A x \in S : x \in Live /\ a <= node[x].key /\ node[x].key <= b
  OBVIOUS
<1>6. \A x \in Live : a <= node[x].key /\ node[x].key <= b => x \in S
  OBVIOUS
<1> HIDE DEF S
<1>7. s \in Seq(S) /\ N \in Nat /\ DOMAIN s = 1 .. N
  BY <1>4 DEF InOrder
<1>8. \A m \in 1 .. N : s[m] \in S
  BY <1>7
<1>9. \A z \in S : \E m \in 1 .. N : s[m] = z
  BY <1>4 DEF InOrder
<1>10. \A m, n \in 1 .. N : m < n => pos[s[m]] < pos[s[n]]
  BY <1>4 DEF InOrder
<1>11. s = <<>> <=> N = 0
  BY <1>7
<1>12. r = [m \in 1 .. N |-> r[m]] /\ \A m \in 1 .. N : r[m] = <<node[s[m]].key, node[s[m]].value>>
  BY <1>7
<1> HIDE DEF r, N
<1>13. \A m \in 1 .. N : r[m][1] = node[s[m]].key /\ s[m] \in Live /\ r[m][1] \in Int
  <2>1. \A x \in Live : node[x].key \in Int
    BY <1>2, ShapeOfNode DEF Live
  <2> QED
    BY <1>5, <1>8, <1>12, <2>1
<1>14. ASSUME NEW m \in 1 .. N, NEW n \in 1 .. N, m < n
       PROVE  r[m][1] < r[n][1]
  <2>1. pos[s[m]] < pos[s[n]] /\ s[m] \in Live /\ s[n] \in Live
    BY <1>10, <1>13, <1>14
  <2>2. node[s[m]].key <= node[s[n]].key
    BY <1>1, <2>1 DEF Ordered, Sorted, Alive, Live
  <2>3. s[m] # s[n]
    <3>1. pos[s[m]] \in Int /\ pos[s[n]] \in Int
      BY <1>1, <2>1 DEF Ordered, Placed, Live
    <3> QED
      BY <2>1, <3>1
  <2>4. node[s[m]].key # node[s[n]].key
    BY <2>1, <2>3, Store DEF Distinct
  <2>5. r[m][1] \in Int /\ r[n][1] \in Int
    BY <1>13
  <2>6. r[m][1] <= r[n][1] /\ r[m][1] # r[n][1]
    <3>1. r[m][1] = node[s[m]].key /\ r[n][1] = node[s[n]].key
      BY <1>13
    <3> QED
      BY <2>2, <2>4, <3>1, Zenon
  <2> QED
    BY <2>5, <2>6
<1>15. items = Abs!Between(a, b)
  <2>1. ASSUME NEW i \in items
        PROVE  i \in Abs!Between(a, b)
    <3>1. PICK m \in 1 .. N : i = r[m]
      OBVIOUS
    <3>2. i = <<node[s[m]].key, node[s[m]].value>> /\ s[m] \in Live
          /\ a <= node[s[m]].key /\ node[s[m]].key <= b
      BY <1>5, <1>8, <1>12, <3>1
    <3>3. node[s[m]].key \in DOMAIN StoreMap /\ StoreMap[node[s[m]].key].value = node[s[m]].value
      BY <3>2, Store
    <3> QED
      BY <3>2, <3>3, Zenon DEF Abs!Between, Abs!Present
  <2>2. ASSUME NEW i \in Abs!Between(a, b)
        PROVE  i \in items
    <3>1. PICK k \in DOMAIN StoreMap : a <= k /\ k <= b /\ i = <<k, StoreMap[k].value>>
      BY DEF Abs!Between, Abs!Present
    <3>2. PICK x \in Live : node[x].key = k
      BY Store
    <3>3. StoreMap[k].value = node[x].value
      BY <3>2, Store
    <3>4. PICK m \in 1 .. N : s[m] = x
      BY <1>6, <1>9, <3>1, <3>2
    <3>5. r[m] = i
      BY <1>12, <3>1, <3>2, <3>3, <3>4
    <3> QED
      BY <3>5
  <2> QED
    BY <2>1, <2>2
<1>16. items = {} <=> N = 0
  <2>1. N # 0 => 1 \in 1 .. N
    BY <1>7
  <2>2. N = 0 => 1 .. N = {}
    BY <1>7
  <2> QED
    BY <2>1, <2>2
<1>17. SortByKey(items) = r
  BY <1>7, <1>12, <1>13, <1>14, AscendingIsSorted
<1>18. SortByKey(items) = Abs!SortByKey(items)
  BY DEF SortByKey, Abs!SortByKey, Cardinality, Abs!Cardinality
<1> HIDE DEF items
<1> QED
  BY <1>11, <1>15, <1>16, <1>17, <1>18 DEF r

-------------------------------------------------------------------------------
LEMMA SetImplements ==
    ASSUME Inv, ~degraded, ~degraded', NEW k \in Key, NEW v \in Value, NEW t \in Time, Set(k, v, t)
    PROVE  Abs!Set(k, v, t)
<1>1. SetResponse(1) = "EXIST" /\ SetResponse(-1) = "ERROR" /\ SetResponse(0) = "SUCCESS"
  BY DEF SetResponse
<1>2. UNCHANGED node => StoreMap' = StoreMap
  BY DEF StoreMap, Live
<1>3. CASE Found(k) /\ UNCHANGED node /\ Answer("SET", <<k, v, t>>, "EXIST")
  BY <1>2, <1>3, FoundIsPresent DEF Abs!Set, Abs!Answer, Abs!Present, Answer
<1>4. CASE UNCHANGED node /\ Answer("SET", <<k, v, t>>, "ERROR")
  BY <1>2, <1>4 DEF Abs!Set, Abs!Answer, Answer
<1> DEFINE new == CHOOSE x \in Fresh : \A y \in Fresh : x <= y
<1> DEFINE item == [key |-> Kept[k], value |-> v, timestamp |-> t]
<1>5. item.key = Kept[k] /\ item.value = v /\ item.timestamp = t
  OBVIOUS
<1>6. Fresh # {} => new \in 1 .. MaxNodes /\ new \notin DOMAIN node
  BY FreshIsFree
<1>7. ASSUME ~Found(k), Fresh # {}, degraded' = (degraded \/ Kept[k] # k),
             NEW top \in RandomLevel, node' = Linked(new, item, Update(k), top),
             Answer("SET", <<k, v, t>>, "SUCCESS")
      PROVE  Abs!Set(k, v, t)
  <2> HIDE DEF new, item
  <2>1. Added(node', new, k, v, t) /\ \A x \in Live : node[x].key # k
    BY <1>5, <1>6, <1>7, SetLinks
  <2>2. Kept[k] = k
    BY <1>7, Zenon
  <2>3. StoreMap' = [x \in DOMAIN StoreMap \cup {k} |->
                        IF x = k THEN [value |-> v, timestamp |-> t] ELSE StoreMap[x]]
    <3>1. Putting(k, v, t)
      BY <2>1, <2>2, LinkPuts
    <3> QED
      BY <3>1, Zenon DEF Putting
  <2>4. k \notin DOMAIN StoreMap
    BY <1>7, FoundIsPresent
  <2> QED
    BY <1>7, <2>3, <2>4 DEF Abs!Set, Abs!Put, Abs!Present, Abs!Answer, Answer
<1> QED
  BY <1>1, <1>3, <1>4, <1>7, Zenon DEF Set

LEMMA ModImplements ==
    ASSUME Inv, ~degraded, NEW k \in Key, NEW v \in Value, NEW t \in Time, Mod(k, v, t)
    PROVE  Abs!Mod(k, v, t)
<1>1. ModResponse(-1) = "ERROR" /\ ModResponse(0) = "SUCCESS"
  BY DEF ModResponse
<1>2. CASE ~Found(k)
  <2>1. UNCHANGED node /\ Answer("MOD", <<k, v, t>>, "ERROR")
    BY <1>1, <1>2 DEF Mod
  <2>2. StoreMap' = StoreMap
    BY <2>1 DEF StoreMap, Live
  <2> QED
    BY <1>2, <2>1, <2>2, FoundIsPresent DEF Abs!Mod, Abs!Answer, Abs!Present, Answer
<1>3. CASE Found(k)
  <2> DEFINE c == Current(k)
  <2>1. /\ node' = [node EXCEPT ![c] = [@ EXCEPT !.value = v, !.timestamp = t]]
        /\ Answer("MOD", <<k, v, t>>, "SUCCESS")
    BY <1>1, <1>3 DEF Mod
  <2>2. c \in Live /\ node[c].key = k /\ k \in DOMAIN StoreMap
    BY <1>3, FoundIsPresent
  <2> HIDE DEF c
  <2>3. Rewritten(node', c, v, t)
    BY <2>1, <2>2, ModRewrites DEF Inv
  <2>4. Live' = Live
    BY <2>3 DEF Rewritten, Live
  <2>5. StoreMap' = [x \in DOMAIN StoreMap \cup {k} |->
                        IF x = k THEN [value |-> v, timestamp |-> t] ELSE StoreMap[x]]
    <3>1. Putting(k, v, t)
      BY <2>2, <2>3, <2>4, RewritePuts
    <3> QED
      BY <3>1, Zenon DEF Putting
  <2>6. Answer("MOD", <<k, v, t>>, "SUCCESS")
    BY <2>1
  <2> QED
    BY <2>2, <2>5, <2>6 DEF Abs!Mod, Abs!Put, Abs!Present, Abs!Answer, Answer
<1> QED
  BY <1>2, <1>3

LEMMA DelImplements ==
    ASSUME Inv, ~degraded, NEW k \in Key, Del(k)
    PROVE  Abs!Del(k)
<1>1. DelResponse(-1) = "ERROR" /\ DelResponse(0) = "SUCCESS"
  BY DEF DelResponse
<1>2. CASE ~Found(k)
  <2>1. UNCHANGED node /\ Answer("DEL", k, "ERROR")
    BY <1>1, <1>2 DEF Del
  <2>2. StoreMap' = StoreMap
    BY <2>1 DEF StoreMap, Live
  <2> QED
    BY <1>2, <2>1, <2>2, FoundIsPresent DEF Abs!Del, Abs!Answer, Abs!Present, Answer
<1>3. CASE Found(k)
  <2>1. node' = Unlinked(Current(k), Update(k)) /\ Answer("DEL", k, "SUCCESS")
    BY <1>1, <1>3 DEF Del
  <2>2. Taken(node', Current(k)) /\ node[Current(k)].key = k
    BY <1>3, <2>1, DelUnlinks
  <2>3. StoreMap' = [x \in DOMAIN StoreMap \ {k} |-> StoreMap[x]]
    BY <2>2, TakeRemoves
  <2>4. k \in DOMAIN StoreMap
    BY <1>3, FoundIsPresent
  <2>5. Answer("DEL", k, "SUCCESS")
    BY <2>1
  <2> QED
    BY <2>3, <2>4, <2>5 DEF Abs!Del, Abs!Without, Abs!Present, Abs!Answer, Answer
<1> QED
  BY <1>2, <1>3

LEMMA GetImplements ==
    ASSUME Inv, ~degraded, NEW k \in Key, Get(k)
    PROVE  Abs!Get(k)
<1>1. StoreMap' = StoreMap
  BY DEF Get, StoreMap, Live
<1>2. Answer("GET", k, IF k \in DOMAIN StoreMap THEN StoreMap[k].value ELSE "NO EXIST")
  BY FoundIsPresent DEF Get
<1> QED
  BY <1>1, <1>2 DEF Abs!Get, Abs!Answer, Abs!Present, Answer

LEMMA ExistImplements ==
    ASSUME Inv, ~degraded, NEW k \in Key, Exist(k)
    PROVE  Abs!Exist(k)
<1>1. StoreMap' = StoreMap
  BY DEF Exist, StoreMap, Live
<1>2. ExistResponse(0) = "EXIST" /\ ExistResponse(-1) = "NO EXIST"
  BY DEF ExistResponse
<1>3. Answer("EXIST", k, IF k \in DOMAIN StoreMap THEN "EXIST" ELSE "NO EXIST")
  BY <1>2, FoundIsPresent DEF Exist
<1> QED
  BY <1>1, <1>3 DEF Abs!Exist, Abs!Answer, Abs!Present, Answer

LEMMA RangeImplements ==
    ASSUME Inv, ~degraded, ~degraded', NEW a \in Key, NEW b \in Key, RangeQuery(a, b)
    PROVE  Abs!RangeQuery(a, b)
<1> DEFINE s == Listed(0, {x \in Live : a <= node[x].key /\ node[x].key <= b})
<1> DEFINE r == [n \in DOMAIN s |-> <<node[s[n]].key, node[s[n]].value>>]
<1>1. UNCHANGED node
  BY Zenon DEF RangeQuery
<1>2. StoreMap' = StoreMap
  BY <1>1 DEF StoreMap, Live
<1>3. r = Abs!SortByKey(Abs!Between(a, b)) /\ (s = <<>> <=> Abs!Between(a, b) = {})
  BY WalkIsSorted
<1>4. a \in Int /\ b \in Int /\ (a > b <=> ~(a <= b))
  BY KeyAssumption
<1>5. RangeResponse(-2) = "ERROR" /\ RangeResponse(1) = "EMPTY"
  BY DEF RangeResponse
<1>6. \/ a > b /\ Answer("RANGE", <<a, b>>, "ERROR")
      \/ a <= b /\ s = <<>> /\ Answer("RANGE", <<a, b>>, "EMPTY")
      \/ a <= b /\ s # <<>> /\ Answer("RANGE", <<a, b>>, r)
  BY <1>5, Zenon DEF RangeQuery
<1> HIDE DEF s, r
<1>7. CASE a > b /\ Answer("RANGE", <<a, b>>, "ERROR")
  BY <1>2, <1>4, <1>7 DEF Abs!RangeQuery, Abs!Answer, Answer
<1>8. CASE a <= b /\ s = <<>> /\ Answer("RANGE", <<a, b>>, "EMPTY")
  BY <1>2, <1>3, <1>4, <1>8 DEF Abs!RangeQuery, Abs!Answer, Answer
<1>9. CASE a <= b /\ s # <<>> /\ Answer("RANGE", <<a, b>>, r)
  BY <1>2, <1>3, <1>4, <1>9 DEF Abs!RangeQuery, Abs!Answer, Answer
<1> QED
  BY <1>6, <1>7, <1>8, <1>9

LEMMA GetAllImplements ==
    ASSUME Inv, ~degraded, ~degraded', GetAll
    PROVE  Abs!GetAll
<1> DEFINE items == {<<node[x].key, node[x].value, node[x].timestamp>> : x \in Addresses(0)}
<1>1. UNCHANGED node
  BY Zenon DEF GetAll
<1>2. StoreMap' = StoreMap
  BY <1>1 DEF StoreMap, Live
<1>3. size > 0 <=> DOMAIN StoreMap # {}
  <2>1. IsFiniteSet(Live) /\ size = Cardinality(Live)
    BY LiveIsFinite, LiveThen DEF Inv
  <2>2. size \in Nat /\ (size = 0 <=> Live = {})
    BY <2>1, FS_CardinalityType, FS_EmptySet
  <2>3. Live = {} <=> DOMAIN StoreMap = {}
    BY DEF StoreMap
  <2>4. size > 0 <=> size # 0
    BY <2>2
  <2> QED
    BY <2>2, <2>3, <2>4, Zenon
<1>4. Addresses(0) = Live
  <2>1. PICK pos, last : Ordered(node, pos, last)
    BY DEF Inv
  <2>2. Shaped(node) /\ 0 \in 0 .. MaxLevel
    BY DEF Inv
  <2> DEFINE s == Chain(0)
  <2>3. OnLevel(0) \cap Live = Live
    BY <2>2, LevelZero, OnLevelIsSpan DEF Live
  <2>4. InOrder(s, Live, pos)
    BY <2>1, <2>2, <2>3, ListedInOrder DEF Chain
  <2>5. Addresses(0) = {s[n] : n \in DOMAIN s}
    BY DEF Addresses
  <2> HIDE DEF s
  <2>6. s \in Seq(Live) /\ DOMAIN s = 1 .. Len(s)
    BY <2>4 DEF InOrder
  <2>7. \A n \in 1 .. Len(s) : s[n] \in Live
    BY <2>6
  <2> QED
    BY <2>4, <2>5, <2>6, <2>7 DEF InOrder
<1>5. items = {<<k, StoreMap[k].value, StoreMap[k].timestamp>> : k \in DOMAIN StoreMap}
  <2>1. \A x \in Live : /\ node[x].key \in DOMAIN StoreMap
                        /\ StoreMap[node[x].key].value = node[x].value
                        /\ StoreMap[node[x].key].timestamp = node[x].timestamp
    BY Store
  <2>2. \A k \in DOMAIN StoreMap : \E x \in Live : node[x].key = k
    BY Store
  <2> QED
    BY <1>4, <2>1, <2>2
<1>6. \/ Answer("GETALL", 0, "EMPTY") /\ ~(size > 0)
      \/ size > 0 /\ Answer("GETALL", 0, items)
  BY Zenon DEF GetAll
<1> HIDE DEF items
<1>7. CASE Answer("GETALL", 0, "EMPTY") /\ ~(size > 0)
  <2>1. DOMAIN StoreMap = {}
    BY <1>3, <1>7
  <2> QED
    BY <1>2, <1>7, <2>1 DEF Abs!GetAll, Abs!Answer, Abs!Present, Answer
<1>8. CASE size > 0 /\ Answer("GETALL", 0, items)
  <2>1. DOMAIN StoreMap # {}
    BY <1>3, <1>8
  <2> QED
    BY <1>2, <1>5, <1>8, <2>1 DEF Abs!GetAll, Abs!Answer, Abs!Present, Answer
<1> QED
  BY <1>6, <1>7, <1>8

LEMMA InitImplements == Init => Abs!Init
<1> SUFFICES ASSUME Init PROVE Abs!Init
  OBVIOUS
<1>1. Live = {}
  BY DEF Init, Live
<1>2. StoreMap = [x \in {} |-> 0]
  BY <1>1 DEF StoreMap
<1> QED
  BY <1>2 DEF Init, Abs!Init

\* A promise once broken stays broken.
LEMMA BrokenStays ==
    ASSUME [Next]_vars, degraded
    PROVE  degraded'
<1>1. ASSUME NEW k \in Key, NEW v \in Value, NEW t \in Time, Set(k, v, t)
      PROVE  degraded'
  BY <1>1, Zenon DEF Set
<1>2. ASSUME NEW k \in Key, NEW v \in Value, NEW t \in Time, Mod(k, v, t)
      PROVE  degraded'
  BY <1>2, Zenon DEF Mod
<1>3. ASSUME NEW k \in Key, Get(k) \/ Exist(k)
      PROVE  degraded'
  BY <1>3, Zenon DEF Get, Exist
<1>4. ASSUME NEW k \in Key, Del(k)
      PROVE  degraded'
  BY <1>4, Zenon DEF Del
<1>5. ASSUME NEW a \in Key, NEW b \in Key, RangeQuery(a, b)
      PROVE  degraded'
  BY <1>5, Zenon DEF RangeQuery
<1>6. ASSUME GetAll
      PROVE  degraded'
  BY <1>6, Zenon DEF GetAll
<1>7. CASE UNCHANGED vars
  BY <1>7 DEF vars
<1> QED
  BY <1>1, <1>2, <1>3, <1>4, <1>5, <1>6, <1>7 DEF Next

LEMMA NextImplements ==
    ASSUME Inv, Inv', [Next]_vars
    PROVE  [Abs!Next]_(Abs!vars)
<1>1. CASE degraded'
  BY <1>1 DEF Abs!Next
<1>2. CASE ~degraded'
  <2>1. ~degraded
    BY <1>2, BrokenStays
  <2>2. degraded' = degraded
    <3>1. degraded \in BOOLEAN /\ degraded' \in BOOLEAN
      BY DEF Inv
    <3> QED
      BY <1>2, <2>1, <3>1, Zenon
  <2>3. ASSUME NEW k \in Key, NEW v \in Value, NEW t \in Time, Set(k, v, t) \/ Mod(k, v, t)
        PROVE  Abs!Command
    BY <1>2, <2>1, <2>3, SetImplements, ModImplements DEF Abs!Command
  <2>4. ASSUME NEW k \in Key, Get(k) \/ Del(k) \/ Exist(k)
        PROVE  Abs!Command
    BY <2>1, <2>4, GetImplements, DelImplements, ExistImplements DEF Abs!Command
  <2>5. ASSUME NEW a \in Key, NEW b \in Key, RangeQuery(a, b)
        PROVE  Abs!Command
    <3>1. Abs!RangeQuery(a, b)
      BY <1>2, <2>1, <2>5, RangeImplements
    <3> QED
      BY <3>1, Zenon DEF Abs!Command
  <2>6. ASSUME GetAll
        PROVE  Abs!Command
    <3>1. Abs!GetAll
      BY <1>2, <2>1, <2>6, GetAllImplements
    <3> QED
      BY <3>1, Zenon DEF Abs!Command
  <2>7. CASE UNCHANGED vars
    <3>1. StoreMap' = StoreMap
      BY <2>7 DEF vars, StoreMap, Live
    <3> QED
      BY <2>7, <3>1 DEF vars, Abs!vars
  <2>8. Abs!Command => Abs!Next
    BY <2>1, <2>2 DEF Abs!Next
  <2> QED
    BY <2>3, <2>4, <2>5, <2>6, <2>7, <2>8 DEF Next
<1> QED
  BY <1>1, <1>2

\* The answers and the contents of the skip list are those of a map from keys
\* to timestamped values, whatever levels the coin gives and however many, until
\* a key is cut or an allocation fails in SRANGE or GETSKIPTABLE
\* (kv_store_skiptable.c).
THEOREM SkiptableImplementsStore == Spec => ImplementsStore
<1>1. Init => Abs!Init
  BY InitImplements
<1>2. Inv /\ Inv' /\ [Next]_vars => [Abs!Next]_(Abs!vars)
  BY NextImplements
<1> QED
  BY <1>1, <1>2, Invariance, PTL DEF Spec, ImplementsStore, Abs!Spec
===============================================================================
