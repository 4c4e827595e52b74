---------------------------- MODULE KVRbtreeProofs ----------------------------
(***************************************************************************)
(* Proofs about the red-black tree, for every set of keys, values and      *)
(* timestamps and every number of nodes.                                   *)
(***************************************************************************)
EXTENDS KVRbtree, FiniteSetTheorems, TLAPS

Cell == Address \cup {nil}
Color == {"red", "black"}
Trees ==
    [root : Cell, child : [Side -> [Cell -> Cell]], parent : [Cell -> Cell],
     color : [Cell -> Color]]

Before(s, a, b) == IF s = "left" THEN a < b ELSE b < a

\* t is a search tree of the nodes L with the given keys, and under[x] is the
\* set of nodes of the subtree at x.  Colours are left aside.
Shape(t, L, key, under) ==
    /\ t \in Trees /\ L \subseteq Address /\ key \in [L -> Int]
    /\ under \in [L \cup {nil} -> SUBSET L] /\ under[nil] = {}
    /\ t.root \in L \cup {nil} /\ under[t.root] = L
    /\ \A x \in L, s \in Side :
          /\ t.child[s][x] \in L \cup {nil}
          /\ under[x] = {x} \cup under[t.child[s][x]] \cup under[t.child[Other(s)][x]]
          /\ \A w \in under[t.child[s][x]] : Before(s, key[w], key[x])
          /\ t.child[s][x] # nil => t.parent[t.child[s][x]] = x
    /\ \A x \in L :
          /\ t.parent[x] = nil <=> x = t.root
          /\ x # t.root => t.parent[x] \in L /\ \E s \in Side : t.child[s][t.parent[x]] = x

\* No field of a cell in C leads anywhere, nor does a child of nil.
Clean(t, C) ==
    /\ \A c \in C : t.parent[c] = nil
    /\ \A c \in C \cup {nil}, s \in Side : t.child[s][c] = nil

-------------------------------------------------------------------------------
LEMMA Sides ==
    ASSUME NEW s \in Side
    PROVE  /\ Other(s) \in Side /\ Other(Other(s)) = s /\ Other(s) # s
           /\ \A r \in Side : r = s \/ r = Other(s)
BY DEF Side, Other

LEMMA Cells == nil \notin Address /\ nil \in Cell /\ Address \subseteq Cell
BY BoundAssumption DEF nil, Address, Cell

\* Keys on one side of another.
LEMMA Betweenness ==
    ASSUME NEW s \in Side, NEW a \in Int, NEW b \in Int, NEW c \in Int
    PROVE  /\ ~Before(s, a, a)
           /\ Before(s, a, b) <=> Before(Other(s), b, a)
           /\ Before(s, a, b) /\ Before(s, b, c) => Before(s, a, c)
           /\ ~(Before(s, a, b) /\ Before(s, b, a))
           /\ a # b => Before(s, a, b) \/ Before(s, b, a)
BY DEF Before, Other, Side

LEMMA Smallest ==
    ASSUME NEW S, S \subseteq Nat, S # {}
    PROVE  \E n \in S : \A m \in S : n <= m
<1> DEFINE R == OpToRel(<, Nat)
<1>1. IsWellFoundedOn(R, Nat)
  BY NatLessThanWellFounded
<1>2. \A x, y \in Nat : y < x => <<y, x>> \in R
  BY DEF OpToRel
<1> HIDE DEF R
<1>3. PICK n \in S : \A y \in S : ~(<<y, n>> \in R)
  BY <1>1, WFMin
<1>4. ASSUME NEW m \in S
      PROVE  n <= m
  <2>1. n \in Nat /\ m \in Nat
    OBVIOUS
  <2>2. ~(m < n)
    BY <1>2, <1>3, <2>1
  <2> QED
    BY <2>1, <2>2
<1> QED
  BY <1>4

LEMMA Greatest ==
    ASSUME NEW top \in Nat, NEW S, S \subseteq 0 .. top, S # {}
    PROVE  \E n \in S : \A m \in S : m <= n
<1> DEFINE R == {top - m : m \in S}
<1>1. R \subseteq Nat
  <2>1. \A m \in S : m \in 0 .. top
    OBVIOUS
  <2> QED
    BY <2>1
<1>2. R # {}
  OBVIOUS
<1> HIDE DEF R
<1>3. PICK t \in R : \A u \in R : t <= u
  BY <1>1, <1>2, Smallest
<1>4. PICK n \in S : t = top - n
  BY DEF R
<1>5. ASSUME NEW m \in S
      PROVE  m <= n
  <2>1. top - m \in R
    BY DEF R
  <2>2. top - n <= top - m
    BY <1>3, <1>4, <2>1
  <2>3. m \in Int /\ n \in Int
    OBVIOUS
  <2> QED
    BY <2>2, <2>3
<1> QED
  BY <1>5

LEMMA SomeAreFinite ==
    ASSUME NEW L, L \subseteq Address
    PROVE  /\ IsFiniteSet(L) /\ Cardinality(L) \in 0 .. MaxNodes
           /\ L # Address => Cardinality(L) < MaxNodes
<1>1. IsFiniteSet(Address) /\ Cardinality(Address) = MaxNodes
  BY BoundAssumption, FS_Interval DEF Address
<1>2. IsFiniteSet(L) /\ Cardinality(L) <= MaxNodes /\ (Cardinality(L) = MaxNodes => L = Address)
  BY <1>1, FS_Subset
<1>3. Cardinality(L) \in Nat
  BY <1>2, FS_CardinalityType
<1> QED
  BY <1>2, <1>3, BoundAssumption

-------------------------------------------------------------------------------
\* What Shape says of one node.
LEMMA Node ==
    ASSUME NEW t, NEW L, NEW key, NEW under, Shape(t, L, key, under), NEW x \in L, NEW s \in Side
    PROVE  /\ x \in Address /\ x # nil /\ key[x] \in Int
           /\ t.child[s][x] \in L \cup {nil}
           /\ under[x] = {x} \cup under[t.child[s][x]] \cup under[t.child[Other(s)][x]]
           /\ x \in under[x] /\ under[x] \subseteq L /\ under[t.child[s][x]] \subseteq under[x]
           /\ x \notin under[t.child[s][x]]
           /\ \A w \in under[t.child[s][x]] : w \in L /\ key[w] \in Int /\ Before(s, key[w], key[x])
           /\ t.child[s][x] # nil => t.parent[t.child[s][x]] = x
           /\ t.child[s][x] # x
<1>1. x \in Address /\ x # nil /\ key[x] \in Int
  BY Cells DEF Shape
<1>2. t.child[s][x] \in L \cup {nil}
  BY DEF Shape
<1>3. under[x] = {x} \cup under[t.child[s][x]] \cup under[t.child[Other(s)][x]]
  BY DEF Shape
<1>4. under[x] \subseteq L /\ under[t.child[s][x]] \subseteq L
  BY <1>2 DEF Shape
<1>5. \A w \in under[t.child[s][x]] : Before(s, key[w], key[x])
  BY DEF Shape
<1>6. \A w \in L : key[w] \in Int
  BY DEF Shape
<1>7. x \notin under[t.child[s][x]]
  BY <1>1, <1>5, Betweenness
<1>8. t.child[s][x] # nil => t.parent[t.child[s][x]] = x
  BY DEF Shape
<1>9. t.child[s][x] # x
  BY <1>3, <1>7
<1> QED
  BY <1>1, <1>2, <1>3, <1>4, <1>5, <1>6, <1>7, <1>8, <1>9

\* The two subtrees of a node have nothing in common.
LEMMA Disjoint ==
    ASSUME NEW t, NEW L, NEW key, NEW under, Shape(t, L, key, under), NEW x \in L, NEW s \in Side
    PROVE  under[t.child[s][x]] \cap under[t.child[Other(s)][x]] = {}
<1> SUFFICES ASSUME NEW w, w \in under[t.child[s][x]], w \in under[t.child[Other(s)][x]]
             PROVE  FALSE
  OBVIOUS
<1>1. key[w] \in Int /\ key[x] \in Int /\ Before(s, key[w], key[x])
  BY Node
<1>2. Before(Other(s), key[w], key[x])
  BY Sides, Node
<1> QED
  BY <1>1, <1>2, Betweenness

\* Among some nodes there is one whose children are not among them.
LEMMA Lowest ==
    ASSUME NEW t, NEW L, NEW key, NEW under, Shape(t, L, key, under), NEW S, S \subseteq L, S # {}
    PROVE  \E x \in S : \A s \in Side : t.child[s][x] \notin S
<1> DEFINE Size(x) == Cardinality(under[x])
<1> DEFINE N == {Size(x) : x \in S}
<1>1. \A x \in S : IsFiniteSet(under[x]) /\ Size(x) \in Nat
  <2> TAKE x \in S
  <2>1. under[x] \in SUBSET L /\ IsFiniteSet(L)
    BY SomeAreFinite DEF Shape
  <2> QED
    BY <2>1, FS_Subset, FS_CardinalityType
<1>2. N \subseteq Nat /\ N # {}
  BY <1>1
<1>3. PICK n \in N : \A m \in N : n <= m
  BY <1>2, Smallest
<1>4. PICK x \in S : n = Size(x)
  OBVIOUS
<1>5. ASSUME NEW s \in Side, t.child[s][x] \in S
      PROVE  FALSE
  <2> DEFINE c == t.child[s][x]
  <2>1. Size(x) <= Size(c)
    BY <1>3, <1>4, <1>5
  <2>2. under[c] \in SUBSET under[x] /\ under[c] # under[x]
    BY <1>5, Node
  <2>3. Size(c) <= Size(x) /\ (Size(x) = Size(c) => under[x] = under[c])
    BY <1>1, <2>2, FS_Subset
  <2>4. Size(x) \in Nat /\ Size(c) \in Nat
    BY <1>1, <1>5
  <2> HIDE DEF c, Size
  <2> QED
    BY <2>1, <2>2, <2>3, <2>4
<1> QED
  BY <1>5

\* A subtree of a subtree.
LEMMA Within ==
    ASSUME NEW t, NEW L, NEW key, NEW under, Shape(t, L, key, under),
           NEW x \in L, NEW w \in under[x]
    PROVE  w \in L /\ under[w] \subseteq under[x]
<1> DEFINE S == {d \in L : \E c \in under[d] : ~(under[c] \subseteq under[d])}
<1>1. S = {}
  <2> SUFFICES ASSUME S # {}
               PROVE  FALSE
    OBVIOUS
  <2>1. PICK d \in S : \A s \in Side : t.child[s][d] \notin S
    BY Lowest
  <2>2. PICK c \in under[d] : ~(under[c] \subseteq under[d])
    OBVIOUS
  <2>3. \A s \in Side : c \in under[t.child[s][d]] => under[c] \subseteq under[d]
    <3> TAKE s \in Side
    <3> HAVE c \in under[t.child[s][d]]
    <3>1. t.child[s][d] \in L /\ under[t.child[s][d]] \subseteq under[d]
      BY Node DEF Shape
    <3>2. under[c] \subseteq under[t.child[s][d]]
      BY <2>1, <3>1
    <3> QED
      BY <3>1, <3>2
  <2>4. c # d
    BY <2>2
  <2>5. \E s \in Side : c \in under[t.child[s][d]]
    BY <2>4, Node DEF Side, Other
  <2> QED
    BY <2>2, <2>3, <2>5
<1>2. w \in L
  BY Node DEF Side
<1> QED
  BY <1>1, <1>2

\* Going up from inside a subtree does not leave it at once.
LEMMA UpWithin ==
    ASSUME NEW t, NEW L, NEW key, NEW under, Shape(t, L, key, under),
           NEW x \in L, NEW w \in under[x], w # x
    PROVE  t.parent[w] \in under[x]
<1> DEFINE S == {d \in L : \E c \in under[d] : c # d /\ t.parent[c] \notin under[d]}
<1>1. S = {}
  <2> SUFFICES ASSUME S # {}
               PROVE  FALSE
    OBVIOUS
  <2>1. PICK d \in S : \A s \in Side : t.child[s][d] \notin S
    BY Lowest
  <2>2. PICK c \in under[d] : c # d /\ t.parent[c] \notin under[d]
    OBVIOUS
  <2>3. \A s \in Side : c \notin under[t.child[s][d]]
    <3> SUFFICES ASSUME NEW s \in Side, c \in under[t.child[s][d]]
                 PROVE  FALSE
      OBVIOUS
    <3>1. t.child[s][d] \in L /\ under[t.child[s][d]] \subseteq under[d]
          /\ t.parent[t.child[s][d]] = d /\ d \in under[d]
      BY Node DEF Shape
    <3>2. c # t.child[s][d]
      BY <2>2, <3>1
    <3>3. t.parent[c] \in under[t.child[s][d]]
      BY <2>1, <3>1, <3>2
    <3> QED
      BY <2>2, <3>1, <3>3
  <2>4. \E s \in Side : c \in under[t.child[s][d]]
    BY <2>2, Node DEF Side, Other
  <2> QED
    BY <2>3, <2>4
<1> QED
  BY <1>1

-------------------------------------------------------------------------------
\* What a rotation does to each field.
SideOf(t, x) == IF t.child["left"][t.parent[x]] = x THEN "left" ELSE "right"
Turned(t, n, x, s) ==
    LET y == t.child[Other(s)][x]
        inner == t.child[s][y]
        p == t.parent[x]
    IN  /\ n \in Trees /\ n.color = t.color
        /\ n.root = IF p = nil THEN y ELSE t.root
        /\ \A c \in Cell :
              n.parent[c] = IF c = x THEN y ELSE IF c = y THEN p
                            ELSE IF c = inner /\ inner # nil THEN x ELSE t.parent[c]
        /\ \A c \in Cell, r \in Side :
              n.child[r][c] = IF c = x /\ r = Other(s) THEN inner ELSE IF c = y /\ r = s THEN x
                              ELSE IF c = p /\ p # nil /\ r = SideOf(t, x) THEN y
                              ELSE t.child[r][c]

LEMMA TreeFields ==
    ASSUME NEW t \in Trees
    PROVE  /\ t.root \in Cell /\ t.parent \in [Cell -> Cell] /\ t.color \in [Cell -> Color]
           /\ t.child \in [Side -> [Cell -> Cell]]
           /\ \A s \in Side, c \in Cell : t.child[s][c] \in Cell
           /\ \A c \in Cell : t.parent[c] \in Cell /\ t.color[c] \in Color
BY DEF Trees

LEMMA ReplacedIs ==
    ASSUME NEW t \in Trees, NEW x \in Cell, NEW y \in Cell
    PROVE  LET n == Replaced(t, x, y)
               p == t.parent[x]
           IN  /\ n \in Trees /\ n.color = t.color /\ n.parent = t.parent
               /\ n.root = IF p = nil THEN y ELSE t.root
               /\ \A c \in Cell, r \in Side :
                     n.child[r][c] = IF c = p /\ p # nil /\ r = SideOf(t, x) THEN y
                                     ELSE t.child[r][c]
<1> DEFINE n == Replaced(t, x, y)
<1> DEFINE p == t.parent[x]
<1>1. p \in Cell /\ SideOf(t, x) \in Side
  BY DEF SideOf, Side, Trees
<1>2. CASE p = nil
  <2>1. n = [t EXCEPT !.root = y]
    BY <1>2 DEF Replaced
  <2> QED
    BY <1>1, <1>2, <2>1 DEF Trees
<1>3. CASE p # nil
  <2>1. n = [t EXCEPT !.child[SideOf(t, x)][p] = y]
    BY <1>3 DEF Replaced, SideOf
  <2> DEFINE r == SideOf(t, x)
  <2>2. r \in Side
    BY <1>1
  <2> HIDE DEF r
  <2>3. n = [t EXCEPT !.child = [t.child EXCEPT ![r] = [t.child[r] EXCEPT ![p] = y]]]
    BY <2>1, <2>2 DEF Trees, r
  <2>4. [t.child EXCEPT ![r] = [t.child[r] EXCEPT ![p] = y]] \in [Side -> [Cell -> Cell]]
    BY <1>1, <2>2 DEF Trees
  <2>5. n \in Trees /\ n.color = t.color /\ n.parent = t.parent /\ n.root = t.root
        /\ n.child = [t.child EXCEPT ![r] = [t.child[r] EXCEPT ![p] = y]]
    BY <2>3, <2>4 DEF Trees
  <2>6. \A c \in Cell, q \in Side : n.child[q][c] = IF c = p /\ q = r THEN y ELSE t.child[q][c]
    BY <1>1, <2>2, <2>5 DEF Trees
  <2> QED
    BY <1>3, <2>5, <2>6 DEF r
<1> QED
  BY <1>2, <1>3

\* The records n that a rotation's assignments make of m.
Swings(m, n, x, y, inner, top, s) ==
    /\ n \in Trees /\ n.color = m.color /\ n.root = m.root
    /\ \A c \in Cell, r \in Side :
          n.child[r][c] = IF c = x /\ r = Other(s) THEN inner
                          ELSE IF c = y /\ r = s THEN x ELSE m.child[r][c]
    /\ \A c \in Cell : n.parent[c] = IF c = x THEN y ELSE IF c = y THEN top
                                     ELSE IF c = inner /\ inner # nil THEN x
                                     ELSE m.parent[c]

LEMMA SwungIs ==
    ASSUME NEW m \in Trees, NEW x \in Cell, NEW y \in Cell, NEW inner \in Cell, NEW top \in Cell,
           NEW s \in Side
    PROVE  Swings(m, Swung(m, x, y, inner, top, s), x, y, inner, top, s)
<1> DEFINE n == Swung(m, x, y, inner, top, s)
<1> DEFINE o == Other(s)
<1> DEFINE freed == IF inner = nil THEN m.parent ELSE [m.parent EXCEPT ![inner] = x]
<1> DEFINE par == [freed EXCEPT ![y] = top, ![x] = y]
<1> DEFINE kids == [m.child EXCEPT ![o] = [m.child[o] EXCEPT ![x] = inner],
                                   ![s] = [m.child[s] EXCEPT ![y] = x]]
<1>1. o \in Side /\ o # s
  BY Sides
<1>2. /\ m = [root |-> m.root, child |-> m.child, parent |-> m.parent, color |-> m.color]
      /\ m.root \in Cell /\ m.child \in [Side -> [Cell -> Cell]]
      /\ m.parent \in [Cell -> Cell] /\ m.color \in [Cell -> Color]
  BY DEF Trees
<1>3. n = [m EXCEPT !.child[o][x] = inner, !.child[s][y] = x, !.parent = par]
  BY DEF Swung
<1> HIDE DEF o, n
<1>4. freed \in [Cell -> Cell]
      /\ \A c \in Cell : freed[c] = IF c = inner /\ inner # nil THEN x ELSE m.parent[c]
  BY <1>2
<1> HIDE DEF freed
<1>5. \A c \in Cell : par[c] = IF c = x THEN y ELSE IF c = y THEN top
                                ELSE IF c = inner /\ inner # nil THEN x ELSE m.parent[c]
  BY <1>4
<1>6. par \in [Cell -> Cell]
  BY <1>4
<1> HIDE DEF par
<1>7. /\ kids \in [Side -> [Cell -> Cell]]
      /\ \A c \in Cell, r \in Side :
            kids[r][c] = IF c = x /\ r = o THEN inner ELSE IF c = y /\ r = s THEN x ELSE m.child[r][c]
  BY <1>1, <1>2
<1>8. n = [m EXCEPT !.child = kids, !.parent = par]
  BY <1>1, <1>2, <1>3
<1> HIDE DEF kids
<1>9. n = [root |-> m.root, child |-> kids, parent |-> par, color |-> m.color]
  BY <1>2, <1>8
<1>10. n \in Trees /\ n.color = m.color /\ n.root = m.root /\ n.child = kids /\ n.parent = par
  BY <1>2, <1>6, <1>7, <1>9 DEF Trees
<1>11. Swings(m, n, x, y, inner, top, s)
  BY <1>5, <1>7, <1>10 DEF o, Swings
<1> QED
  BY <1>11 DEF n

LEMMA RotatedTurns ==
    ASSUME NEW t \in Trees, NEW x \in Cell, NEW s \in Side
    PROVE  Turned(t, Rotated(t, x, s), x, s)
<1> DEFINE y == t.child[Other(s)][x]
<1> DEFINE inner == t.child[s][y]
<1> DEFINE m == Replaced(t, x, y)
<1> DEFINE n == Rotated(t, x, s)
<1>1. n = Swung(m, x, y, inner, t.parent[x], s)
  BY Zenon DEF Rotated
<1> HIDE DEF n, m, inner
<1>2. Other(s) \in Side /\ Other(s) # s /\ y \in Cell
  BY Sides, TreeFields
<1> HIDE DEF y
<1>3. inner \in Cell /\ t.parent[x] \in Cell
  BY <1>2, TreeFields DEF inner
<1>4. /\ m \in Trees /\ m.color = t.color /\ m.parent = t.parent
      /\ m.root = IF t.parent[x] = nil THEN y ELSE t.root
      /\ \A c \in Cell, r \in Side :
            m.child[r][c] = IF c = t.parent[x] /\ t.parent[x] # nil /\ r = SideOf(t, x) THEN y
                            ELSE t.child[r][c]
  BY <1>2, ReplacedIs DEF m
<1>5. Swings(m, n, x, y, inner, t.parent[x], s)
  BY <1>1, <1>2, <1>3, <1>4, SwungIs
<1>6. n \in Trees /\ n.color = t.color /\ n.root = IF t.parent[x] = nil THEN y ELSE t.root
  BY <1>4, <1>5 DEF Swings
<1>7. \A c \in Cell : n.parent[c] = IF c = x THEN y ELSE IF c = y THEN t.parent[x]
                                    ELSE IF c = inner /\ inner # nil THEN x ELSE t.parent[c]
  BY <1>4, <1>5 DEF Swings
<1>8. \A c \in Cell, r \in Side :
         n.child[r][c] = IF c = x /\ r = Other(s) THEN inner ELSE IF c = y /\ r = s THEN x
                         ELSE IF c = t.parent[x] /\ t.parent[x] # nil /\ r = SideOf(t, x) THEN y
                         ELSE t.child[r][c]
  BY <1>4, <1>5 DEF Swings
<1>9. Turned(t, n, x, s)
  BY <1>6, <1>7, <1>8 DEF Turned, y, inner
<1> QED
  BY <1>9 DEF n

-------------------------------------------------------------------------------
\* The subtrees after a rotation.
Spun(t, under, x, s) ==
    LET y == t.child[Other(s)][x]
    IN  [under EXCEPT ![y] = under[x], ![x] = {x} \cup under[t.child[s][x]] \cup under[t.child[s][y]]]

\* The cells of a rotation and what is where afterwards.
LEMMA TurnedCells ==
    ASSUME NEW t, NEW L, NEW key, NEW under, Shape(t, L, key, under), NEW x \in L, NEW s \in Side,
           t.child[Other(s)][x] # nil
    PROVE  LET y == t.child[Other(s)][x]
               inner == t.child[s][y]
               p == t.parent[x]
           IN  /\ y \in L /\ inner \in L \cup {nil} /\ p \in L \cup {nil} /\ L \subseteq Cell
               /\ x # y /\ inner # x /\ inner # y /\ p # x /\ p # y
               /\ inner # nil => p # inner
               /\ t.parent[y] = x /\ (inner # nil => t.parent[inner] = y)
               /\ y \in under[x] /\ under[inner] \subseteq under[y] /\ under[y] \subseteq under[x]
               /\ t.child[s][x] # y
               /\ y # t.root
               /\ p = nil <=> x = t.root
               /\ p # nil => t.child[SideOf(t, x)][p] = x /\ t.child[Other(SideOf(t, x))][p] # x
               /\ SideOf(t, x) \in Side
<1> DEFINE o == Other(s)
<1> DEFINE y == t.child[o][x]
<1> DEFINE inner == t.child[s][y]
<1> DEFINE p == t.parent[x]
<1>1. o \in Side /\ Other(o) = s
  BY Sides
<1>2. y \in L
  BY <1>1, Node
<1>3. inner \in L \cup {nil} /\ L \subseteq Cell
  BY <1>2, Node, Cells DEF Shape
<1>4. p \in L \cup {nil}
  BY DEF Shape
<1>5. y # x /\ t.parent[y] = x /\ y \in under[x] /\ under[y] \subseteq under[x] /\ y \in under[y]
  BY <1>1, <1>2, Node
<1>6. inner # y /\ (inner # nil => t.parent[inner] = y) /\ under[inner] \subseteq under[y]
  BY <1>2, Node
<1>7. inner # x
  <2>1. x \notin under[y]
    BY <1>1, Node
  <2>2. x \in under[x]
    BY Node
  <2> QED
    BY <1>6, <2>1, <2>2
<1>8. ASSUME p # nil
      PROVE  /\ p \in L /\ t.child[SideOf(t, x)][p] = x /\ t.child[Other(SideOf(t, x))][p] # x
             /\ p \notin under[x]
  <2>1. p \in L /\ x # t.root
    BY <1>4, <1>8 DEF Shape
  <2>2. PICK r \in Side : t.child[r][p] = x
    BY <2>1 DEF Shape
  <2>3. t.child[Other(r)][p] # x
    <3>1. under[t.child[r][p]] \cap under[t.child[Other(r)][p]] = {}
      BY <2>1, <2>2, Disjoint
    <3>2. x \in under[x]
      BY Node
    <3> QED
      BY <2>2, <3>1, <3>2
  <2>4. SideOf(t, x) = r
    BY <2>2, <2>3 DEF SideOf, Side, Other
  <2>5. p \notin under[x]
    BY <2>1, <2>2, Node
  <2> QED
    BY <2>1, <2>2, <2>3, <2>4, <2>5
<1>9. p # x /\ p # y /\ (inner # nil => p # inner)
  <2>1. x # nil /\ y # nil
    BY <1>2, Node
  <2>2. inner # nil => inner \in under[x]
    BY <1>3, <1>5, <1>6, Node
  <2>3. x \in under[x] /\ y \in under[x]
    BY <1>5, Node
  <2> QED
    BY <1>8, <2>1, <2>2, <2>3
<1>10. t.child[s][x] # y
  <2>1. under[t.child[s][x]] \cap under[y] = {}
    BY Disjoint
  <2> QED
    BY <1>5, <2>1
<1>11. y # t.root
  <2>1. x # nil
    BY Node
  <2> QED
    BY <1>2, <1>5, <2>1 DEF Shape
<1>12. p = nil <=> x = t.root
  BY DEF Shape
<1>13. SideOf(t, x) \in Side
  BY DEF SideOf, Side
<1> QED
  BY <1>2, <1>3, <1>4, <1>5, <1>6, <1>7, <1>8, <1>9, <1>10, <1>11, <1>12, <1>13

\* A rotation keeps the tree a search tree of the same nodes.
LEMMA TurnedShape ==
    ASSUME NEW t, NEW L, NEW key, NEW under, Shape(t, L, key, under), NEW x \in L, NEW s \in Side,
           t.child[Other(s)][x] # nil, NEW n, Turned(t, n, x, s)
    PROVE  Shape(n, L, key, Spun(t, under, x, s))
<1> DEFINE o == Other(s)
<1> DEFINE y == t.child[o][x]
<1> DEFINE inner == t.child[s][y]
<1> DEFINE p == t.parent[x]
<1> DEFINE low == t.child[s][x]
<1> DEFINE high == t.child[o][y]
<1> DEFINE u == Spun(t, under, x, s)
<1>1. o \in Side /\ Other(o) = s /\ o # s /\ \A r \in Side : r = s \/ r = o
  BY Sides
<1>2. /\ y \in L /\ inner \in L \cup {nil} /\ p \in L \cup {nil} /\ L \subseteq Cell
      /\ x # y /\ inner # x /\ inner # y /\ p # x /\ p # y
      /\ inner # nil => p # inner
      /\ t.parent[y] = x /\ (inner # nil => t.parent[inner] = y)
      /\ y \in under[x] /\ under[inner] \subseteq under[y] /\ under[y] \subseteq under[x]
      /\ low # y /\ y # t.root
      /\ p = nil <=> x = t.root
      /\ p # nil => t.child[SideOf(t, x)][p] = x /\ t.child[Other(SideOf(t, x))][p] # x
      /\ SideOf(t, x) \in Side
  BY TurnedCells
<1>3. /\ n \in Trees /\ n.root = IF p = nil THEN y ELSE t.root
      /\ \A c \in Cell :
            n.parent[c] = IF c = x THEN y ELSE IF c = y THEN p
                          ELSE IF c = inner /\ inner # nil THEN x ELSE t.parent[c]
      /\ \A c \in Cell, r \in Side :
            n.child[r][c] = IF c = x /\ r = o THEN inner ELSE IF c = y /\ r = s THEN x
                            ELSE IF c = p /\ p # nil /\ r = SideOf(t, x) THEN y
                            ELSE t.child[r][c]
  BY DEF Turned
<1>4. /\ L \subseteq Address /\ key \in [L -> Int] /\ under \in [L \cup {nil} -> SUBSET L]
      /\ under[nil] = {} /\ t.root \in L \cup {nil} /\ under[t.root] = L /\ nil \notin L
  BY Cells DEF Shape
<1>5. /\ u \in [L \cup {nil} -> SUBSET L]
      /\ u[y] = under[x] /\ u[x] = {x} \cup under[low] \cup under[inner]
      /\ \A d \in L \cup {nil} : d # x /\ d # y => u[d] = under[d]
  <2>1. under[low] \in SUBSET L /\ under[inner] \in SUBSET L /\ under[x] \in SUBSET L
    <3>1. low \in L \cup {nil}
      BY Node
    <3> HIDE DEF y, inner, low
    <3> QED
      BY <1>2, <1>4, <3>1
  <2> HIDE DEF y, inner, low
  <2>2. u = [under EXCEPT ![y] = under[x], ![x] = {x} \cup under[low] \cup under[inner]]
    BY DEF u, Spun, y, inner, low
  <2> QED
    BY <1>2, <1>4, <2>1, <2>2
<1>6. /\ \A r \in Side : low \in L \cup {nil} /\ high \in L \cup {nil}
      /\ under[x] = {x} \cup under[low] \cup under[y]
      /\ under[y] = {y} \cup under[inner] \cup under[high]
      /\ key[x] \in Int /\ key[y] \in Int /\ x # nil /\ y # nil
      /\ low # x /\ high # x /\ high # y
      /\ low # nil => t.parent[low] = x
      /\ high # nil => t.parent[high] = y
      /\ \A w \in under[low] : w \in L /\ key[w] \in Int /\ Before(s, key[w], key[x])
      /\ \A w \in under[y] : w \in L /\ key[w] \in Int /\ Before(o, key[w], key[x])
      /\ \A w \in under[inner] : w \in L /\ key[w] \in Int /\ Before(s, key[w], key[y])
      /\ \A w \in under[high] : w \in L /\ key[w] \in Int /\ Before(o, key[w], key[y])
  <2>1. /\ low \in L \cup {nil} /\ under[x] = {x} \cup under[low] \cup under[y]
        /\ key[x] \in Int /\ x # nil /\ low # x /\ (low # nil => t.parent[low] = x)
    BY <1>1, Node
  <2>2. /\ high \in L \cup {nil} /\ under[y] = {y} \cup under[inner] \cup under[high]
        /\ key[y] \in Int /\ y # nil /\ high # y /\ (high # nil => t.parent[high] = y)
    <3>1. /\ t.child[o][y] \in L \cup {nil}
          /\ under[y] = {y} \cup under[t.child[o][y]] \cup under[t.child[Other(o)][y]]
          /\ key[y] \in Int /\ y # nil /\ t.child[o][y] # y
          /\ t.child[o][y] # nil => t.parent[t.child[o][y]] = y
      BY <1>1, <1>2, Node
    <3>2. t.child[o][y] = high /\ t.child[Other(o)][y] = inner
      BY <1>1
    <3> HIDE DEF y, inner, high, o
    <3> QED
      BY <3>1, <3>2
  <2>3. /\ \A w \in under[low] : w \in L /\ key[w] \in Int /\ Before(s, key[w], key[x])
        /\ \A w \in under[y] : w \in L /\ key[w] \in Int /\ Before(o, key[w], key[x])
    BY <1>1, Node
  <2>4. /\ \A w \in under[inner] : w \in L /\ key[w] \in Int /\ Before(s, key[w], key[y])
        /\ \A w \in under[high] : w \in L /\ key[w] \in Int /\ Before(o, key[w], key[y])
    BY <1>1, <1>2, Node
  <2>5. high # x
    <3>1. x \in under[x] /\ x \notin under[y] /\ under[high] \subseteq under[y]
      BY <1>1, <1>2, Node
    <3> QED
      BY <3>1
  <2> QED
    BY <2>1, <2>2, <2>3, <2>4, <2>5
<1>7. \A d \in L, r \in Side :
         /\ t.child[r][d] \in L \cup {nil}
         /\ under[d] = {d} \cup under[t.child[r][d]] \cup under[t.child[Other(r)][d]]
         /\ \A w \in under[t.child[r][d]] : Before(r, key[w], key[d])
         /\ t.child[r][d] # nil => t.parent[t.child[r][d]] = d
  BY DEF Shape
<1>8. \A d \in L :
         /\ t.parent[d] = nil <=> d = t.root
         /\ d # t.root => t.parent[d] \in L /\ \E r \in Side : t.child[r][t.parent[d]] = d
  BY DEF Shape
<1> HIDE DEF y, inner, p, low, high, u, o
\* the new children
<1>9. n.child[s][x] = low /\ n.child[o][x] = inner /\ n.child[s][y] = x /\ n.child[o][y] = high
  BY <1>1, <1>2, <1>3 DEF low, high
<1>10. u[nil] = {} /\ u[low] = under[low] /\ u[inner] = under[inner] /\ u[high] = under[high]
  BY <1>2, <1>4, <1>5, <1>6
<1>11. n.root \in L \cup {nil} /\ u[n.root] = L
  BY <1>2, <1>3, <1>4, <1>5
<1>12. ASSUME NEW d \in L, NEW r \in Side
       PROVE  /\ n.child[r][d] \in L \cup {nil}
              /\ u[d] = {d} \cup u[n.child[r][d]] \cup u[n.child[Other(r)][d]]
              /\ \A w \in u[n.child[r][d]] : Before(r, key[w], key[d])
              /\ n.child[r][d] # nil => n.parent[n.child[r][d]] = d
  <2>1. Other(r) \in Side /\ (r = s => Other(r) = o) /\ (r = o => Other(r) = s)
    BY <1>1, Sides DEF o
  <2>2. CASE d = x
    <3>1. n.child[r][d] \in L \cup {nil}
      BY <1>1, <1>2, <1>6, <1>9, <2>2
    <3>2. u[d] = {d} \cup u[n.child[r][d]] \cup u[n.child[Other(r)][d]]
      BY <1>1, <1>5, <1>9, <1>10, <2>1, <2>2
    <3>3. \A w \in under[inner] : Before(o, key[w], key[x])
      BY <1>2, <1>6
    <3>4. \A w \in u[n.child[r][d]] : Before(r, key[w], key[d])
      BY <1>1, <1>6, <1>9, <1>10, <2>2, <3>3
    <3>5. low # nil => n.parent[low] = x
      <4> SUFFICES ASSUME low # nil PROVE n.parent[low] = x
        OBVIOUS
      <4>1. low # inner
        BY <1>2, <1>6
      <4> QED
        BY <1>2, <1>3, <1>6, <4>1
    <3>6. inner # nil => n.parent[inner] = x
      BY <1>2, <1>3
    <3> QED
      BY <1>1, <1>9, <2>2, <3>1, <3>2, <3>4, <3>5, <3>6
  <2>3. CASE d = y
    <3>1. n.child[r][d] \in L \cup {nil}
      BY <1>1, <1>6, <1>9, <2>3
    <3>2. u[d] = {d} \cup u[n.child[r][d]] \cup u[n.child[Other(r)][d]]
      <4>1. under[x] = {y} \cup ({x} \cup under[low] \cup under[inner]) \cup under[high]
        BY <1>6
      <4>2. u[y] = {y} \cup u[x] \cup u[high]
        BY <1>5, <1>10, <4>1
      <4> QED
        BY <1>1, <1>9, <2>1, <2>3, <4>2
    <3>3. \A w \in u[x] : Before(s, key[w], key[y])
      <4>1. Before(s, key[x], key[y])
        <5>1. Before(o, key[y], key[x])
          BY <1>2, <1>6
        <5> QED
          BY <1>6, <5>1, Betweenness DEF o
      <4>2. \A w \in under[low] : Before(s, key[w], key[y])
        BY <1>6, <4>1, Betweenness
      <4> QED
        BY <1>5, <1>6, <4>1, <4>2
    <3>4. \A w \in u[n.child[r][d]] : Before(r, key[w], key[d])
      BY <1>1, <1>6, <1>9, <1>10, <2>3, <3>3
    <3>5. high # nil => n.parent[high] = y
      <4> SUFFICES ASSUME high # nil PROVE n.parent[high] = y
        OBVIOUS
      <4>1. high # inner
        <5>1. under[inner] \cap under[high] = {}
          BY <1>1, <1>2, Disjoint DEF inner, high
        <5>2. high \in under[high]
          BY <1>6, Node
        <5> QED
          BY <5>1, <5>2
      <4> QED
        BY <1>2, <1>3, <1>6, <4>1
    <3>6. n.parent[x] = y
      BY <1>2, <1>3
    <3> QED
      BY <1>1, <1>9, <2>3, <3>1, <3>2, <3>4, <3>5, <3>6
  <2>4. CASE d # x /\ d # y
    <3>1. u[d] = under[d] /\ d \in Cell
      BY <1>2, <1>5, <2>4
    <3>2. \A q \in Side : \/ n.child[q][d] = t.child[q][d] /\ t.child[q][d] # x
                          \/ n.child[q][d] = y /\ t.child[q][d] = x
      <4> TAKE q \in Side
      <4>1. n.child[q][d] = IF d = p /\ p # nil /\ q = SideOf(t, x) THEN y ELSE t.child[q][d]
        BY <1>3, <2>4, <3>1
      <4>2. t.child[q][d] = x => d = p /\ p # nil /\ q = SideOf(t, x)
        <5> SUFFICES ASSUME t.child[q][d] = x
                     PROVE  d = p /\ p # nil /\ q = SideOf(t, x)
          OBVIOUS
        <5>1. d = p
          BY <1>6, <1>7 DEF p
        <5>2. p # nil
          BY <1>4, <5>1
        <5>3. q = SideOf(t, x)
          BY <1>2, <5>1, <5>2, Sides
        <5> QED
          BY <5>1, <5>2, <5>3
      <4> QED
        BY <1>2, <4>1, <4>2
    <3>3. \A q \in Side : t.child[q][d] # y
      BY <1>2, <1>6, <1>7, <2>4
    <3>4. \A q \in Side : u[n.child[q][d]] = under[t.child[q][d]]
      BY <1>5, <1>7, <3>2, <3>3
    <3>5. n.child[r][d] \in L \cup {nil}
      BY <1>2, <1>7, <3>2
    <3>6. n.child[r][d] # nil => n.parent[n.child[r][d]] = d
      <4> SUFFICES ASSUME n.child[r][d] # nil
                   PROVE  n.parent[n.child[r][d]] = d
        OBVIOUS
      <4>1. CASE n.child[r][d] = y /\ t.child[r][d] = x
        <5>1. n.parent[y] = p
          BY <1>2, <1>3
        <5>2. p = d
          BY <1>6, <1>7, <4>1 DEF p
        <5> QED
          BY <4>1, <5>1, <5>2
      <4>2. CASE n.child[r][d] = t.child[r][d] /\ t.child[r][d] # x
        <5> DEFINE c == t.child[r][d]
        <5>1. c \in L /\ t.parent[c] = d /\ c # y /\ c # x
          BY <1>7, <3>3, <4>2
        <5>2. c # inner
          BY <1>2, <1>4, <2>4, <5>1
        <5>3. n.parent[c] = t.parent[c]
          BY <1>2, <1>3, <5>1, <5>2
        <5> QED
          BY <4>2, <5>1, <5>3
      <4> QED
        BY <3>2, <4>1, <4>2
    <3>7. u[d] = {d} \cup u[n.child[r][d]] \cup u[n.child[Other(r)][d]]
      BY <1>7, <2>1, <3>1, <3>4
    <3>8. \A w \in u[n.child[r][d]] : Before(r, key[w], key[d])
      BY <1>7, <3>4
    <3> QED
      BY <3>5, <3>6, <3>7, <3>8
  <2> QED
    BY <2>2, <2>3, <2>4
<1>13. ASSUME NEW d \in L
       PROVE  /\ n.parent[d] = nil <=> d = n.root
              /\ d # n.root => n.parent[d] \in L /\ \E r \in Side : n.child[r][n.parent[d]] = d
  <2>1. CASE d = x
    <3>1. n.parent[d] = y /\ n.root # x
      BY <1>2, <1>3, <2>1
    <3> QED
      BY <1>2, <1>4, <1>9, <2>1, <3>1
  <2>2. CASE d = y
    <3>1. n.parent[d] = p
      BY <1>2, <1>3, <2>2
    <3>2. p # nil => n.child[SideOf(t, x)][p] = y
      BY <1>2, <1>3
    <3> QED
      BY <1>2, <1>3, <2>2, <3>1, <3>2
  <2>3. CASE d = inner
    <3>1. n.parent[d] = x /\ inner # n.root
      BY <1>2, <1>3, <1>4, <1>6, <1>8, <2>3
    <3> QED
      BY <1>1, <1>4, <1>9, <2>3, <3>1
  <2>4. CASE d # x /\ d # y /\ d # inner
    <3>1. n.parent[d] = t.parent[d]
      BY <1>2, <1>3, <2>4
    <3>2. d = n.root <=> d = t.root
      BY <1>2, <1>3, <2>4
    <3>3. ASSUME d # t.root
          PROVE  t.parent[d] \in L /\ \E r \in Side : n.child[r][t.parent[d]] = d
      <4>1. t.parent[d] \in L
        BY <1>8, <3>3
      <4>2. PICK r \in Side : t.child[r][t.parent[d]] = d
        BY <1>8, <3>3
      <4> DEFINE e == t.parent[d]
      <4>3. e \in Cell
        BY <1>2, <4>1
      <4>4. ~(e = x /\ r = o)
        BY <2>4, <4>2 DEF y
      <4>5. ~(e = y /\ r = s)
        BY <2>4, <4>2 DEF inner
      <4>6. ~(e = p /\ p # nil /\ r = SideOf(t, x))
        BY <1>2, <2>4, <4>2
      <4>7. n.child[r][e] = t.child[r][e]
        BY <1>3, <4>3, <4>4, <4>5, <4>6
      <4> QED
        BY <4>1, <4>2, <4>7
    <3> QED
      BY <1>8, <3>1, <3>2, <3>3
  <2> QED
    BY <2>1, <2>2, <2>3, <2>4
<1> QED
  BY <1>3, <1>4, <1>5, <1>10, <1>11, <1>12, <1>13 DEF Shape, u

\* The children after a rotation: y takes x's place, and the rest of the tree
\* is as it was.
KidsTurned(t, n, x, s, L) ==
    LET y == t.child[Other(s)][x]
        low == t.child[s][x]
        inner == t.child[s][y]
        high == t.child[Other(s)][y]
    IN  /\ x \in L /\ y \in L /\ x # y
        /\ {low, inner, high} \subseteq L \cup {nil} /\ {low, inner, high} \cap {x, y} = {}
        /\ n.child[s][x] = low /\ n.child[Other(s)][x] = inner
        /\ n.child[s][y] = x /\ n.child[Other(s)][y] = high
        /\ \A d \in L \ {x, y}, r \in Side :
              \/ n.child[r][d] = t.child[r][d] /\ t.child[r][d] \notin {x, y}
              \/ n.child[r][d] = y /\ t.child[r][d] = x

LEMMA TurnedChildren ==
    ASSUME NEW t, NEW L, NEW key, NEW under, Shape(t, L, key, under), NEW x \in L, NEW s \in Side,
           t.child[Other(s)][x] # nil, NEW n, Turned(t, n, x, s)
    PROVE  KidsTurned(t, n, x, s, L)
<1> DEFINE o == Other(s)
<1> DEFINE y == t.child[o][x]
<1> DEFINE low == t.child[s][x]
<1> DEFINE inner == t.child[s][y]
<1> DEFINE high == t.child[o][y]
<1> DEFINE p == t.parent[x]
<1>1. o \in Side /\ Other(o) = s /\ o # s
  BY Sides
<1>2. /\ y \in L /\ inner \in L \cup {nil} /\ p \in L \cup {nil} /\ L \subseteq Cell
      /\ x # y /\ inner # x /\ inner # y /\ p # x /\ p # y
      /\ t.parent[y] = x /\ low # y
      /\ p # nil => t.child[SideOf(t, x)][p] = x /\ t.child[Other(SideOf(t, x))][p] # x
      /\ SideOf(t, x) \in Side
  BY TurnedCells
<1>3. \A c \in Cell, r \in Side :
            n.child[r][c] = IF c = x /\ r = o THEN inner ELSE IF c = y /\ r = s THEN x
                            ELSE IF c = p /\ p # nil /\ r = SideOf(t, x) THEN y
                            ELSE t.child[r][c]
  BY DEF Turned
<1>4. low \in L \cup {nil} /\ low # x /\ x # nil /\ y # nil /\ nil \notin L
  BY <1>2, Node, Cells DEF Shape
<1>5. high \in L \cup {nil} /\ high # y
  BY <1>1, <1>2, Node
<1>6. high # x
  <2>1. x \in under[x] /\ x \notin under[y]
    BY <1>1, Node
  <2>2. under[high] \subseteq under[y]
    BY <1>1, <1>2, Node
  <2> QED
    BY <2>1, <2>2
<1>7. \A d \in L, r \in Side : t.child[r][d] # nil => t.parent[t.child[r][d]] = d
  BY DEF Shape
<1> HIDE DEF o, y, low, inner, high, p
<1>8. n.child[s][x] = low /\ n.child[o][x] = inner /\ n.child[s][y] = x /\ n.child[o][y] = high
  BY <1>1, <1>2, <1>3 DEF low, high
<1>9. ASSUME NEW d \in L \ {x, y}, NEW r \in Side
      PROVE  \/ n.child[r][d] = t.child[r][d] /\ t.child[r][d] \notin {x, y}
             \/ n.child[r][d] = y /\ t.child[r][d] = x
  <2>1. n.child[r][d] = IF d = p /\ p # nil /\ r = SideOf(t, x) THEN y ELSE t.child[r][d]
    BY <1>2, <1>3
  <2>2. t.child[r][d] # y
    BY <1>2, <1>4, <1>7
  <2>3. CASE t.child[r][d] = x
    <3>1. d = p /\ p # nil
      BY <1>4, <1>7, <2>3 DEF p
    <3>2. r = SideOf(t, x)
      BY <1>2, <2>3, <3>1, Sides
    <3> QED
      BY <2>1, <2>3, <3>1, <3>2
  <2>4. CASE t.child[r][d] # x
    <3>1. ~(d = p /\ p # nil /\ r = SideOf(t, x))
      BY <1>2, <2>4
    <3> QED
      BY <2>1, <2>2, <2>4, <3>1
  <2> QED
    BY <2>3, <2>4
<1> QED
  BY <1>2, <1>4, <1>5, <1>6, <1>8, <1>9 DEF KidsTurned, o, y, low, inner, high

\* A rotation touches only nodes of the tree.
LEMMA TurnedClean ==
    ASSUME NEW t, NEW L, NEW key, NEW under, Shape(t, L, key, under), NEW x \in L, NEW s \in Side,
           t.child[Other(s)][x] # nil, NEW n, Turned(t, n, x, s),
           NEW C \in SUBSET Cell, C \cap L = {}, Clean(t, C)
    PROVE  Clean(n, C)
<1> DEFINE y == t.child[Other(s)][x]
<1> DEFINE inner == t.child[s][y]
<1> DEFINE p == t.parent[x]
<1>1. y \in L /\ inner \in L \cup {nil} /\ p \in L \cup {nil}
  BY TurnedCells
<1>2. nil \notin L /\ nil \in Cell
  BY Cells DEF Shape
<1>3. /\ \A c \in Cell :
            n.parent[c] = IF c = x THEN y ELSE IF c = y THEN p
                          ELSE IF c = inner /\ inner # nil THEN x ELSE t.parent[c]
      /\ \A c \in Cell, r \in Side :
            n.child[r][c] = IF c = x /\ r = Other(s) THEN inner ELSE IF c = y /\ r = s THEN x
                            ELSE IF c = p /\ p # nil /\ r = SideOf(t, x) THEN y
                            ELSE t.child[r][c]
  BY DEF Turned
<1> HIDE DEF y, inner, p
<1>4. \A c \in C : n.parent[c] = t.parent[c]
  BY <1>1, <1>3
<1>5. \A c \in C \cup {nil}, r \in Side : n.child[r][c] = t.child[r][c]
  BY <1>1, <1>2, <1>3
<1> QED
  BY <1>4, <1>5 DEF Clean

-------------------------------------------------------------------------------
\* Colours.
Recolored(t, n) == n \in Trees /\ n.root = t.root /\ n.child = t.child /\ n.parent = t.parent

LEMMA RecoloredShape ==
    ASSUME NEW t, NEW L, NEW key, NEW under, Shape(t, L, key, under), NEW n, Recolored(t, n)
    PROVE  Shape(n, L, key, under)
BY DEF Shape, Recolored

LEMMA RecoloredClean ==
    ASSUME NEW t, NEW n, Recolored(t, n), NEW C, Clean(t, C)
    PROVE  Clean(n, C)
BY DEF Clean, Recolored

LEMMA ColoredIs ==
    ASSUME NEW t \in Trees, NEW x \in Cell, NEW c \in Color
    PROVE  /\ Recolored(t, Colored(t, x, c)) /\ Colored(t, x, c) \in Trees
           /\ \A d \in Cell : Colored(t, x, c).color[d] = IF d = x THEN c ELSE t.color[d]
BY DEF Trees, Colored, Recolored

\* The black nodes on the way down from a node to nil, when the child of q on
\* side e counts one too few.
Bit(t, x) == IF t.color[x] = "black" THEN 1 ELSE 0
Short(x, s, q, e) == IF x = q /\ s = e THEN 1 ELSE 0
Counts(t, x, h, q, e) ==
    \A s \in Side : h[x] = h[t.child[s][x]] + Bit(t, x) + Short(x, s, q, e)
Balanced(t, L, h, q, e) ==
    h \in [L \cup {nil} -> Nat] /\ h[nil] = 0 /\ \A x \in L : Counts(t, x, h, q, e)

\* Heights for a rotation that follows some recolouring: right for every node
\* but x and the child y that takes its place, with low for x afterwards.
Fits(t, L, x, s, h, low, q, e) ==
    LET y == t.child[Other(s)][x]
    IN  /\ h \in [L \cup {nil} -> Nat] /\ h[nil] = 0 /\ low \in Nat
        /\ \A d \in L : d \notin {x, y} => Counts(t, d, h, q, e)
        /\ low = h[t.child[s][x]] + Bit(t, x) + Short(x, s, q, e)
        /\ low = h[t.child[s][y]] + Bit(t, x) + Short(x, Other(s), q, e)
        /\ h[x] = low + Bit(t, y) + Short(y, s, q, e)
        /\ h[x] = h[t.child[Other(s)][y]] + Bit(t, y) + Short(y, Other(s), q, e)
Weighed(t, h, x, s, low) == [h EXCEPT ![t.child[Other(s)][x]] = h[x], ![x] = low]

LEMMA TurnedBalanced ==
    ASSUME NEW t, NEW L, NEW key, NEW under, Shape(t, L, key, under), NEW x \in L, NEW s \in Side,
           t.child[Other(s)][x] # nil, NEW n, Turned(t, n, x, s),
           NEW h, NEW low, NEW q, NEW e, Fits(t, L, x, s, h, low, q, e)
    PROVE  Balanced(n, L, Weighed(t, h, x, s, low), q, e)
<1> DEFINE o == Other(s)
<1> DEFINE y == t.child[o][x]
<1> DEFINE down == t.child[s][x]
<1> DEFINE inner == t.child[s][y]
<1> DEFINE high == t.child[o][y]
<1> DEFINE g == Weighed(t, h, x, s, low)
<1>1. /\ x \in L /\ y \in L /\ x # y
      /\ {down, inner, high} \subseteq L \cup {nil} /\ {down, inner, high} \cap {x, y} = {}
      /\ n.child[s][x] = down /\ n.child[o][x] = inner
      /\ n.child[s][y] = x /\ n.child[o][y] = high
      /\ \A d \in L \ {x, y}, r \in Side :
            \/ n.child[r][d] = t.child[r][d] /\ t.child[r][d] \notin {x, y}
            \/ n.child[r][d] = y /\ t.child[r][d] = x
  BY TurnedChildren DEF KidsTurned
<1>2. o \in Side /\ \A r \in Side : r = s \/ r = o
  BY Sides
<1>3. nil \notin L
  BY Cells DEF Shape
<1>4. \A d \in L, r \in Side : t.child[r][d] \in L \cup {nil}
  BY DEF Shape
<1>5. \A d : Bit(n, d) = Bit(t, d)
  BY DEF Bit, Turned
<1>6. /\ h \in [L \cup {nil} -> Nat] /\ h[nil] = 0 /\ low \in Nat
      /\ \A d \in L : d \notin {x, y} => Counts(t, d, h, q, e)
  BY DEF Fits
<1>7. /\ low = h[down] + Bit(t, x) + Short(x, s, q, e)
      /\ low = h[inner] + Bit(t, x) + Short(x, o, q, e)
      /\ h[x] = low + Bit(t, y) + Short(y, s, q, e)
      /\ h[x] = h[high] + Bit(t, y) + Short(y, o, q, e)
  BY Zenon DEF Fits
<1>8. g = [h EXCEPT ![y] = h[x], ![x] = low]
  BY DEF Weighed
<1> HIDE DEF o, y, down, inner, high, g
<1>9. /\ g \in [L \cup {nil} -> Nat] /\ g[x] = low /\ g[y] = h[x]
      /\ \A d \in L \cup {nil} : d \notin {x, y} => g[d] = h[d]
  BY <1>1, <1>6, <1>8
<1>10. g[nil] = 0
  BY <1>1, <1>3, <1>6, <1>9
<1>11. g[down] = h[down] /\ g[inner] = h[inner] /\ g[high] = h[high]
  BY <1>1, <1>9
<1>12. \A r \in Side : g[x] = g[n.child[r][x]] + Bit(n, x) + Short(x, r, q, e)
  <2>1. g[x] = g[n.child[s][x]] + Bit(n, x) + Short(x, s, q, e)
    BY <1>1, <1>5, <1>7, <1>9, <1>11
  <2>2. g[x] = g[n.child[o][x]] + Bit(n, x) + Short(x, o, q, e)
    BY <1>1, <1>5, <1>7, <1>9, <1>11
  <2> QED
    BY <1>2, <2>1, <2>2
<1>13. \A r \in Side : g[y] = g[n.child[r][y]] + Bit(n, y) + Short(y, r, q, e)
  <2>1. g[y] = g[n.child[s][y]] + Bit(n, y) + Short(y, s, q, e)
    BY <1>1, <1>5, <1>7, <1>9, <1>11
  <2>2. g[y] = g[n.child[o][y]] + Bit(n, y) + Short(y, o, q, e)
    BY <1>1, <1>5, <1>7, <1>9, <1>11
  <2> QED
    BY <1>2, <2>1, <2>2
<1>14. ASSUME NEW d \in L, d \notin {x, y}, NEW r \in Side
       PROVE  g[d] = g[n.child[r][d]] + Bit(n, d) + Short(d, r, q, e)
  <2>1. h[d] = h[t.child[r][d]] + Bit(t, d) + Short(d, r, q, e)
    BY <1>6, <1>14 DEF Counts
  <2>2. g[d] = h[d]
    BY <1>9, <1>14
  <2>3. CASE n.child[r][d] = t.child[r][d] /\ t.child[r][d] \notin {x, y}
    <3>1. g[n.child[r][d]] = h[t.child[r][d]]
      BY <1>4, <1>9, <2>3
    <3> QED
      BY <1>5, <2>1, <2>2, <3>1
  <2>4. CASE n.child[r][d] = y /\ t.child[r][d] = x
    <3>1. g[n.child[r][d]] = h[t.child[r][d]]
      BY <1>9, <2>4
    <3> QED
      BY <1>5, <2>1, <2>2, <3>1
  <2> QED
    BY <1>1, <1>14, <2>3, <2>4
<1>15. \A d \in L : Counts(n, d, g, q, e)
  BY <1>12, <1>13, <1>14 DEF Counts
<1> QED
  BY <1>9, <1>10, <1>15 DEF Balanced, g

\* The parents after a rotation.
ParentsTurned(t, n, x, s, L) ==
    LET y == t.child[Other(s)][x]
        inner == t.child[s][y]
    IN  /\ n.parent[y] = t.parent[x] /\ n.parent[x] = y
        /\ inner # nil => n.parent[inner] = x
        /\ \A c \in L : c \notin {x, y, inner} => n.parent[c] = t.parent[c]
        /\ n.parent[nil] = t.parent[nil]
        /\ n.root = IF x = t.root THEN y ELSE t.root
        /\ n.color = t.color

LEMMA TurnedParents ==
    ASSUME NEW t, NEW L, NEW key, NEW under, Shape(t, L, key, under), NEW x \in L, NEW s \in Side,
           t.child[Other(s)][x] # nil, NEW n, Turned(t, n, x, s)
    PROVE  ParentsTurned(t, n, x, s, L)
<1> DEFINE y == t.child[Other(s)][x]
<1> DEFINE inner == t.child[s][y]
<1>1. y \in L /\ L \subseteq Cell /\ x # y /\ inner # x /\ inner # y /\ inner \in L \cup {nil}
      /\ (t.parent[x] = nil <=> x = t.root)
  BY TurnedCells
<1>2. nil \notin L /\ nil \in Cell
  BY Cells DEF Shape
<1> QED
  BY <1>1, <1>2 DEF Turned, ParentsTurned

\* The state of the loop of rbtree_insert_fixup: only z may break the rule that
\* a red node has a black parent.
Growing(t, z, L, key, under, h) ==
    /\ Shape(t, L, key, under) /\ Balanced(t, L, h, nil, "left") /\ t.color[nil] = "black"
    /\ z \in L /\ t.color[z] = "red"
    /\ z = t.root \/ t.color[t.root] = "black"
    /\ \A x \in L : x # z /\ t.color[x] = "red" => t.color[t.parent[x]] = "black"

\* Before the last rotation: bottom and its parent top are red and lean the same
\* way below g, which is black as is top's sibling.
Leaning(t, g, top, bottom, s, L, key, under, h) ==
    /\ Shape(t, L, key, under) /\ Balanced(t, L, h, nil, "left") /\ t.color[nil] = "black"
    /\ g \in L /\ top \in L /\ bottom \in L /\ t.color[t.root] = "black"
    /\ t.child[s][g] = top /\ t.child[s][top] = bottom
    /\ t.color[g] = "black" /\ t.color[top] = "red" /\ t.color[bottom] = "red"
    /\ t.color[t.child[Other(s)][g]] = "black"
    /\ \A x \in L : x # bottom /\ t.color[x] = "red" => t.color[t.parent[x]] = "black"

LEMMA PlainCounts ==
    ASSUME NEW t, NEW L, L \subseteq Address, NEW h, NEW e, NEW x \in L
    PROVE  /\ \A s \in Side : Short(x, s, nil, e) = 0
           /\ Counts(t, x, h, nil, e) <=> \A s \in Side : h[x] = h[t.child[s][x]] + Bit(t, x) + 0
<1>1. x # nil
  BY Cells
<1> QED
  BY <1>1 DEF Short, Counts

\* The heights of a red and of a black node, and of its children.
HeightStep(t, h, x, s) ==
    /\ h[x] \in Nat /\ h[t.child[s][x]] \in Nat
    /\ t.color[x] = "red" => h[x] = h[t.child[s][x]]
    /\ t.color[x] = "black" => h[x] = h[t.child[s][x]] + 1

LEMMA Heights ==
    ASSUME NEW t, NEW L, NEW key, NEW under, Shape(t, L, key, under), NEW h,
           Balanced(t, L, h, nil, "left"), NEW x \in L, NEW s \in Side
    PROVE  HeightStep(t, h, x, s)
<1>1. x # nil /\ t.child[s][x] \in L \cup {nil}
  BY Node
<1>2. h \in [L \cup {nil} -> Nat] /\ Counts(t, x, h, nil, "left")
  BY DEF Balanced
<1>3. h[x] = h[t.child[s][x]] + Bit(t, x) + 0
  BY <1>1, <1>2 DEF Counts, Short
<1>4. h[x] \in Nat /\ h[t.child[s][x]] \in Nat
  BY <1>1, <1>2
<1> QED
  BY <1>3, <1>4 DEF Bit, HeightStep

\* The other child of top is black, and the last rotation puts things right.
LEMMA LastRound ==
    ASSUME NEW t, NEW g, NEW top, NEW bottom, NEW s \in Side, NEW L, NEW key, NEW under, NEW h,
           Leaning(t, g, top, bottom, s, L, key, under, h),
           NEW C \in SUBSET Cell, C \cap L = {}, Clean(t, C)
    PROVE  LET n == Rotated(Colored(Colored(t, top, "black"), g, "red"), g, Other(s))
           IN  /\ \E u, k : Growing(n, bottom, L, key, u, k)
               /\ Clean(n, C) /\ n.color[n.parent[bottom]] = "black"
<1> DEFINE o == Other(s)
<1> DEFINE mid == t.child[o][top]
<1> DEFINE uncle == t.child[o][g]
<1> DEFINE t2 == Colored(Colored(t, top, "black"), g, "red")
<1> DEFINE n == Rotated(t2, g, o)
<1>0. Shape(t, L, key, under) /\ Balanced(t, L, h, nil, "left")
  BY DEF Leaning
<1>1. o \in Side /\ Other(o) = s /\ o # s
  BY Sides
<1>2. /\ g \in L /\ top \in L /\ bottom \in L /\ t.color[nil] = "black"
      /\ t.color[t.root] = "black" /\ t.child[s][g] = top /\ t.child[s][top] = bottom
      /\ t.color[g] = "black" /\ t.color[top] = "red" /\ t.color[bottom] = "red"
      /\ t.color[uncle] = "black"
      /\ \A x \in L : x # bottom /\ t.color[x] = "red" => t.color[t.parent[x]] = "black"
  BY DEF Leaning
<1>3. t \in Trees /\ L \subseteq Address /\ nil \notin L /\ L \subseteq Cell
  BY <1>0, Cells DEF Shape
<1>4. "red" \in Color /\ "black" \in Color /\ "red" # "black"
  BY DEF Color
<1>5. g # top /\ top # bottom /\ t.parent[top] = g /\ t.parent[bottom] = top /\ g # bottom
  BY <1>0, <1>2, <1>3, Node
<1>6. /\ Recolored(t, t2) /\ t2 \in Trees
      /\ \A d \in Cell : t2.color[d] = IF d = g THEN "red" ELSE IF d = top THEN "black" ELSE t.color[d]
  <2> DEFINE t1 == Colored(t, top, "black")
  <2>1. Recolored(t, t1) /\ t1 \in Trees
        /\ \A d \in Cell : t1.color[d] = IF d = top THEN "black" ELSE t.color[d]
    BY <1>2, <1>3, <1>4, ColoredIs
  <2>2. Recolored(t1, t2) /\ t2 \in Trees
        /\ \A d \in Cell : t2.color[d] = IF d = g THEN "red" ELSE t1.color[d]
    BY <1>2, <1>3, <1>4, <2>1, ColoredIs
  <2> HIDE DEF t1, t2
  <2> QED
    BY <2>1, <2>2 DEF Recolored
<1>7. Shape(t2, L, key, under) /\ Clean(t2, C)
  BY <1>0, <1>6, RecoloredShape, RecoloredClean
<1>8. /\ t2.root = t.root /\ t2.child = t.child /\ t2.parent = t.parent
  BY <1>6 DEF Recolored
<1> HIDE DEF t2
<1>9. Turned(t2, n, g, o)
  BY <1>1, <1>2, <1>3, <1>6, RotatedTurns
<1>10. t2.child[Other(o)][g] = top /\ t2.child[Other(o)][g] # nil /\ t2.child[o][top] = mid
  BY <1>1, <1>2, <1>3, <1>8
<1> HIDE DEF n
\* mid
<1>11. mid # bottom /\ mid \in L \cup {nil} /\ (mid # nil => t.parent[mid] = top)
  <2>1. under[mid] \cap under[bottom] = {}
    BY <1>0, <1>1, <1>2, Disjoint
  <2>2. bottom \in under[bottom]
    BY <1>0, <1>1, <1>2, Node
  <2>3. mid \in L \cup {nil} /\ (mid # nil => t.parent[mid] = top)
    BY <1>0, <1>1, <1>2, Node
  <2> QED
    BY <2>1, <2>2, <2>3
<1>12. t.color[mid] = "black"
  <2>1. mid \in L => t.color[mid] \in Color
    BY <1>3, TreeFields
  <2> QED
    BY <1>2, <1>4, <1>11, <2>1 DEF Color
\* the heights
<1>13. Fits(t2, L, g, o, h, h[top], nil, "left")
  <2>1. h \in [L \cup {nil} -> Nat] /\ h[nil] = 0 /\ h[top] \in Nat /\ h[g] \in Nat
    BY <1>0, <1>2 DEF Balanced
  <2> HIDE DEF mid, uncle
  <2>2. \A x \in L, r \in Side : HeightStep(t, h, x, r)
    BY <1>0, Heights
  <2>3. /\ h[g] = h[top] + 1 /\ h[g] = h[uncle] + 1 /\ h[uncle] \in Nat
        /\ h[top] = h[bottom] /\ h[top] = h[mid]
    <3>1. h[g] = h[t.child[s][g]] + 1 /\ h[top] = h[t.child[s][top]]
      BY <1>2, <2>2 DEF HeightStep
    <3>2. h[g] = h[t.child[o][g]] + 1 /\ h[t.child[o][g]] \in Nat
      BY <1>1, <1>2, <2>2 DEF HeightStep
    <3>3. h[top] = h[t.child[o][top]]
      BY <1>1, <1>2, <2>2 DEF HeightStep
    <3> QED
      BY <1>2, <3>1, <3>2, <3>3 DEF uncle, mid
  <2>4. Bit(t2, g) = 0 /\ Bit(t2, top) = 1
    BY <1>2, <1>3, <1>4, <1>5, <1>6 DEF Bit
  <2>5. \A d \in L, r \in Side : Short(d, r, nil, "left") = 0
    BY <1>3, PlainCounts
  <2>6. ASSUME NEW d \in L, d \notin {g, top}
        PROVE  Counts(t2, d, h, nil, "left")
    <3>1. Counts(t, d, h, nil, "left")
      BY <1>0 DEF Balanced
    <3>2. Bit(t2, d) = Bit(t, d)
      BY <1>3, <1>6, <2>6 DEF Bit
    <3> QED
      BY <1>8, <3>1, <3>2 DEF Counts
  <2> DEFINE y == t2.child[Other(o)][g]
  <2>7. y = top /\ t2.child[o][g] = uncle /\ t2.child[o][y] = mid /\ t2.child[Other(o)][y] = bottom
    BY <1>1, <1>2, <1>8, <1>10 DEF mid, uncle
  <2> HIDE DEF y
  <2>8. h[top] = h[t2.child[o][g]] + Bit(t2, g) + Short(g, o, nil, "left")
    BY <1>1, <1>2, <2>1, <2>3, <2>4, <2>5, <2>7
  <2>9. h[top] = h[t2.child[o][y]] + Bit(t2, g) + Short(g, Other(o), nil, "left")
    BY <1>1, <1>2, <2>1, <2>3, <2>4, <2>5, <2>7
  <2>10. h[g] = h[top] + Bit(t2, y) + Short(y, o, nil, "left")
    BY <1>1, <1>2, <2>1, <2>3, <2>4, <2>5, <2>7
  <2>11. h[g] = h[t2.child[Other(o)][y]] + Bit(t2, y) + Short(y, Other(o), nil, "left")
    <3>1. Bit(t2, y) = 1 /\ Short(y, Other(o), nil, "left") = 0
      BY <1>1, <1>2, <2>4, <2>5, <2>7
    <3>2. h[t2.child[Other(o)][y]] = h[top]
      BY <2>3, <2>7
    <3> QED
      BY <2>1, <2>3, <3>1, <3>2
  <2>12. \A d \in L : d \notin {g, y} => Counts(t2, d, h, nil, "left")
    BY <2>6, <2>7
  <2> QED
    BY <2>1, <2>8, <2>9, <2>10, <2>11, <2>12 DEF Fits, y
<1> DEFINE u == Spun(t2, under, g, o)
<1> DEFINE k == Weighed(t2, h, g, o, h[top])
<1>14. Shape(n, L, key, u)
  BY <1>1, <1>2, <1>7, <1>9, <1>10, TurnedShape
<1>15. Balanced(n, L, k, nil, "left")
  BY <1>1, <1>2, <1>7, <1>9, <1>10, <1>13, TurnedBalanced
<1>16. Clean(n, C)
  BY <1>1, <1>2, <1>7, <1>9, <1>10, TurnedClean
<1> HIDE DEF u, k
<1>17. /\ n.parent[top] = t.parent[g] /\ n.parent[g] = top /\ (mid # nil => n.parent[mid] = g)
       /\ \A c \in L : c \notin {g, top, mid} => n.parent[c] = t.parent[c]
       /\ n.root = (IF g = t.root THEN top ELSE t.root) /\ n.color = t2.color
  <2>1. ParentsTurned(t2, n, g, o, L)
    BY <1>1, <1>2, <1>7, <1>9, <1>10, TurnedParents
  <2> QED
    BY <1>8, <1>10, <2>1 DEF ParentsTurned
<1> HIDE DEF mid, uncle
<1>18. \A d \in Cell : n.color[d] = IF d = g THEN "red" ELSE IF d = top THEN "black" ELSE t.color[d]
  BY <1>6, <1>17
<1>19. nil \in Cell /\ t.root \in L \cup {nil} /\ \A x \in L : t.parent[x] \in L \cup {nil}
  BY <1>0, Cells DEF Shape
<1>20. n.color[nil] = "black" /\ n.color[bottom] = "red" /\ n.color[n.root] = "black"
  BY <1>2, <1>3, <1>5, <1>17, <1>18, <1>19
<1>21. n.parent[bottom] = top /\ n.color[top] = "black"
  BY <1>2, <1>3, <1>5, <1>11, <1>17, <1>18
<1>22. ASSUME NEW x \in L, x # bottom, n.color[x] = "red"
       PROVE  n.color[n.parent[x]] = "black"
  <2>1. CASE x = g
    BY <1>17, <1>21, <2>1
  <2>2. CASE x # g
    <3>1. x # top /\ t.color[x] = "red" /\ x # mid
      BY <1>3, <1>4, <1>12, <1>18, <1>22, <2>2
    <3>2. n.parent[x] = t.parent[x] /\ t.color[t.parent[x]] = "black"
      BY <1>2, <1>17, <1>22, <2>2, <3>1
    <3>3. t.parent[x] # g
      <4> SUFFICES ASSUME t.parent[x] = g
                   PROVE  FALSE
        OBVIOUS
      <4>1. x # t.root
        BY <1>0, <1>2, <1>3 DEF Shape
      <4>2. PICK r \in Side : t.child[r][g] = x
        BY <1>0, <4>1 DEF Shape
      <4>3. r = s \/ r = o
        BY Sides
      <4> QED
        BY <1>2, <1>4, <3>1, <4>2, <4>3 DEF uncle
    <3>4. t.parent[x] \in Cell
      BY <1>3, <1>19
    <3> QED
      BY <1>18, <3>2, <3>3, <3>4
  <2> QED
    BY <2>1, <2>2
<1>23. Growing(n, bottom, L, key, u, k)
  BY <1>2, <1>14, <1>15, <1>20, <1>22 DEF Growing
<1> QED
  BY <1>16, <1>21, <1>23 DEF n, t2

\* Where z stands when its parent is red.
LEMMA RedParent ==
    ASSUME NEW t, NEW z, NEW L, NEW key, NEW under, NEW h, Growing(t, z, L, key, under, h),
           t.color[t.parent[z]] = "red"
    PROVE  LET p == t.parent[z]
               g == t.parent[p]
               s == SideOf(t, p)
           IN  /\ p \in L /\ g \in L /\ t.color[g] = "black" /\ t.color[t.root] = "black"
               /\ s \in Side /\ t.child[s][g] = p /\ t.child[Other(s)][g] # p
               /\ t.child[Other(s)][g] \in L \cup {nil} /\ t.child[Other(s)][g] # g
               /\ p # g /\ z # p /\ z # g /\ t.child[Other(s)][g] # z
               /\ \E r \in Side : t.child[r][p] = z
<1> DEFINE p == t.parent[z]
<1> DEFINE g == t.parent[p]
<1> DEFINE s == SideOf(t, p)
<1>0. Shape(t, L, key, under)
  BY DEF Growing
<1>1. /\ z \in L /\ t.color[z] = "red" /\ t.color[nil] = "black"
      /\ z = t.root \/ t.color[t.root] = "black"
      /\ \A x \in L : x # z /\ t.color[x] = "red" => t.color[t.parent[x]] = "black"
      /\ t.color[p] = "red"
  BY DEF Growing
<1>2. \A x \in L : /\ t.parent[x] = nil <=> x = t.root
                   /\ x # t.root => t.parent[x] \in L /\ \E r \in Side : t.child[r][t.parent[x]] = x
  BY <1>0 DEF Shape
<1> HIDE DEF p, g
<1>3. z # t.root
  BY <1>1, <1>2 DEF p
<1>4. p \in L /\ \E r \in Side : t.child[r][p] = z
  BY <1>1, <1>2, <1>3 DEF p
<1>5. t.color[t.root] = "black" /\ p # t.root
  BY <1>1, <1>3
<1>6. g \in L /\ \E r \in Side : t.child[r][g] = p
  BY <1>2, <1>4, <1>5 DEF g
<1>7. p # z
  BY <1>0, <1>4, Node
<1>8. t.color[g] = "black"
  BY <1>1, <1>4, <1>7 DEF g
<1>9. PICK r \in Side : t.child[r][g] = p
  BY <1>6
<1>10. p \in under[p] /\ p # nil
  <2>1. PICK q \in Side : t.child[q][p] = z
    BY <1>4
  <2> QED
    BY <1>0, <1>4, <2>1, Node
<1>11. t.child[Other(r)][g] # p
  <2>1. under[t.child[r][g]] \cap under[t.child[Other(r)][g]] = {}
    BY <1>0, <1>6, Disjoint
  <2> QED
    BY <1>9, <1>10, <2>1
<1>12. s = r
  BY <1>9, <1>11 DEF SideOf, Side, Other, g
<1>13. Other(r) \in Side
  BY Sides
<1>14. t.child[Other(r)][g] \in L \cup {nil} /\ t.child[Other(r)][g] # g
  BY <1>0, <1>6, <1>13, Node
<1>15. \A x \in L, q \in Side : t.child[q][x] # nil => t.parent[t.child[q][x]] = x
  BY <1>0 DEF Shape
<1>16. t.child[Other(r)][g] # z
  <2>1. z # nil
    BY <1>0, <1>1, Cells DEF Shape
  <2>2. p # g
    BY <1>1, <1>8
  <2> QED
    BY <1>6, <1>13, <1>15, <2>1, <2>2 DEF p
<1> HIDE DEF s
<1> QED
  BY <1>1, <1>4, <1>5, <1>6, <1>7, <1>8, <1>9, <1>11, <1>12, <1>14, <1>16 DEF p, g, s

\* A round at a red uncle: the red moves up by two.
LEMMA RedUncle ==
    ASSUME NEW t, NEW z, NEW L, NEW key, NEW under, NEW h, Growing(t, z, L, key, under, h),
           t.color[t.parent[z]] = "red",
           t.color[t.child[Other(SideOf(t, t.parent[z]))][t.parent[t.parent[z]]]] = "red",
           NEW C \in SUBSET Cell, C \cap L = {}, Clean(t, C)
    PROVE  LET p == t.parent[z]
               g == t.parent[p]
               uncle == t.child[Other(SideOf(t, p))][g]
               n == Colored(Colored(Colored(t, p, "black"), uncle, "black"), g, "red")
           IN  /\ \E k : Growing(n, g, L, key, under, k)
               /\ Clean(n, C) /\ under[z] \subseteq under[g] /\ g \notin under[z]
<1> DEFINE p == t.parent[z]
<1> DEFINE g == t.parent[p]
<1> DEFINE s == SideOf(t, p)
<1> DEFINE o == Other(s)
<1> DEFINE uncle == t.child[o][g]
<1> DEFINE n == Colored(Colored(Colored(t, p, "black"), uncle, "black"), g, "red")
<1> DEFINE k == [h EXCEPT ![p] = h[p] + 1, ![uncle] = h[uncle] + 1]
<1>0. Shape(t, L, key, under) /\ Balanced(t, L, h, nil, "left")
  BY DEF Growing
<1>1. /\ z \in L /\ t.color[z] = "red" /\ t.color[nil] = "black" /\ t.color[p] = "red"
      /\ \A x \in L : x # z /\ t.color[x] = "red" => t.color[t.parent[x]] = "black"
      /\ t.color[uncle] = "red"
  BY DEF Growing
<1>2. /\ p \in L /\ g \in L /\ t.color[g] = "black" /\ t.color[t.root] = "black"
      /\ s \in Side /\ t.child[s][g] = p /\ uncle # p
      /\ uncle \in L \cup {nil} /\ uncle # g
      /\ p # g /\ z # p /\ z # g /\ uncle # z
      /\ \E r \in Side : t.child[r][p] = z
  BY RedParent
<1>3. uncle \in L
  BY <1>1, <1>2
<1>4. t \in Trees /\ L \subseteq Cell /\ nil \notin L /\ nil \in Cell /\ t.root \in L \cup {nil}
  BY <1>0, Cells DEF Shape
<1>5. "red" \in Color /\ "black" \in Color /\ "red" # "black"
  BY DEF Color
<1>6. o \in Side /\ \A r \in Side : r = s \/ r = o
  BY <1>2, Sides
<1>7. /\ \A x \in L : t.parent[x] \in L \cup {nil} /\ (t.parent[x] \in L => \E r \in Side : t.child[r][t.parent[x]] = x)
      /\ \A x \in L, r \in Side : /\ t.child[r][x] \in L \cup {nil}
                                  /\ t.child[r][x] # nil => t.parent[t.child[r][x]] = x
  BY <1>0, <1>4 DEF Shape
<1>8. t.parent[p] = g /\ t.parent[uncle] = g /\ t.parent[z] = p
  BY <1>2, <1>3, <1>4, <1>6, <1>7, Zenon
<1> HIDE DEF p, g, s, o, uncle
<1>9. /\ Recolored(t, n) /\ n \in Trees
      /\ \A d \in Cell : n.color[d] = IF d = g THEN "red" ELSE IF d \in {p, uncle} THEN "black"
                                      ELSE t.color[d]
  <2> DEFINE t1 == Colored(t, p, "black")
  <2> DEFINE t2 == Colored(t1, uncle, "black")
  <2>1. /\ Recolored(t, t1) /\ t1 \in Trees
        /\ \A d \in Cell : t1.color[d] = IF d = p THEN "black" ELSE t.color[d]
    BY <1>2, <1>4, <1>5, ColoredIs
  <2> HIDE DEF t1
  <2>2. /\ Recolored(t1, t2) /\ t2 \in Trees
        /\ \A d \in Cell : t2.color[d] = IF d = uncle THEN "black" ELSE t1.color[d]
    BY <1>3, <1>4, <1>5, <2>1, ColoredIs
  <2> HIDE DEF t2
  <2> DEFINE t3 == Colored(t2, g, "red")
  <2>3. /\ Recolored(t2, t3) /\ t3 \in Trees
        /\ \A d \in Cell : t3.color[d] = IF d = g THEN "red" ELSE t2.color[d]
    BY <1>2, <1>4, <1>5, <2>2, ColoredIs
  <2>4. n = t3
    BY DEF t1, t2
  <2> HIDE DEF t3, n
  <2>5. /\ Recolored(t, t3) /\ t3 \in Trees
        /\ \A d \in Cell : t3.color[d] = IF d = g THEN "red" ELSE IF d \in {p, uncle} THEN "black"
                                         ELSE t.color[d]
    BY <2>1, <2>2, <2>3 DEF Recolored
  <2> QED
    BY <2>4, <2>5
<1> HIDE DEF n
<1>10. Shape(n, L, key, under) /\ Clean(n, C) /\ n.root = t.root /\ n.child = t.child /\ n.parent = t.parent
  BY <1>0, <1>9, RecoloredShape, RecoloredClean DEF Recolored
<1>11. /\ h \in [L \cup {nil} -> Nat] /\ h[nil] = 0 /\ h[p] \in Nat /\ h[uncle] \in Nat
       /\ \A x \in L, r \in Side : HeightStep(t, h, x, r)
  BY <1>0, <1>2, <1>3, Heights DEF Balanced
<1>12. /\ k \in [L \cup {nil} -> Nat] /\ k[p] = h[p] + 1 /\ k[uncle] = h[uncle] + 1
       /\ \A x \in L \cup {nil} : x \notin {p, uncle} => k[x] = h[x]
  BY <1>2, <1>3, <1>11
<1> HIDE DEF k
<1>13. ASSUME NEW x \in L, NEW r \in Side
       PROVE  k[x] = k[n.child[r][x]] + Bit(n, x) + 0
  <2>1. HeightStep(t, h, x, r) /\ t.color[x] \in Color
    BY <1>4, <1>11, TreeFields
  <2>2. n.color[x] = IF x = g THEN "red" ELSE IF x \in {p, uncle} THEN "black" ELSE t.color[x]
    BY <1>4, <1>9
  <2>3. CASE x = g
    <3>1. Bit(n, x) = 0
      BY <1>5, <2>2, <2>3 DEF Bit
    <3>2. t.child[r][x] \in {p, uncle}
      BY <1>2, <1>6, <2>3 DEF uncle
    <3>3. h[x] = h[t.child[r][x]] + 1 /\ h[t.child[r][x]] \in Nat
      BY <1>2, <2>1, <2>3 DEF HeightStep
    <3>4. k[t.child[r][x]] = h[t.child[r][x]] + 1 /\ k[x] = h[x]
      BY <1>2, <1>12, <2>3, <3>2
    <3> QED
      BY <1>10, <3>1, <3>3, <3>4
  <2>4. CASE x # g
    <3>1. t.child[r][x] \notin {p, uncle}
      BY <1>2, <1>3, <1>4, <1>7, <1>8, <2>4
    <3>2. k[n.child[r][x]] = h[t.child[r][x]] /\ h[t.child[r][x]] \in Nat /\ h[x] \in Nat
      BY <1>7, <1>10, <1>12, <2>1, <3>1 DEF HeightStep
    <3>3. CASE x \in {p, uncle}
      <4>1. h[x] = h[t.child[r][x]] /\ k[x] = h[x] + 1
        BY <1>1, <1>12, <2>1, <3>3 DEF HeightStep
      <4>2. Bit(n, x) = 1
        BY <2>2, <2>4, <3>3 DEF Bit
      <4> QED
        BY <3>2, <4>1, <4>2
    <3>4. CASE x \notin {p, uncle}
      <4>1. k[x] = h[x] /\ n.color[x] = t.color[x]
        BY <1>12, <2>2, <2>4, <3>4
      <4>2. h[x] = h[t.child[r][x]] + Bit(n, x)
        BY <1>5, <2>1, <3>2, <4>1 DEF HeightStep, Bit, Color
      <4> QED
        BY <3>2, <4>1, <4>2
    <3> QED
      BY <3>3, <3>4
  <2> QED
    BY <2>3, <2>4
<1>14. Balanced(n, L, k, nil, "left")
  <2>1. k[nil] = 0
    BY <1>2, <1>3, <1>4, <1>11, <1>12
  <2>2. \A x \in L : Counts(n, x, k, nil, "left")
    <3>1. L \subseteq Address
      BY <1>0 DEF Shape
    <3> QED
      BY <1>13, <3>1, PlainCounts
  <2> QED
    BY <1>12, <2>1, <2>2 DEF Balanced
<1>15. ASSUME NEW x \in L, x # g, n.color[x] = "red"
       PROVE  n.color[n.parent[x]] = "black"
  <2>1. x \notin {p, uncle} /\ t.color[x] = "red"
    BY <1>4, <1>5, <1>9, <1>15
  <2>2. t.parent[x] # g
    BY <1>2, <1>6, <1>7, <2>1 DEF uncle
  <2>3. t.parent[x] \in Cell
    BY <1>4, <1>7
  <2>4. x = z => t.parent[x] = p
    BY <1>8
  <2> QED
    BY <1>1, <1>9, <1>10, <2>1, <2>2, <2>3, <2>4
<1>16. /\ n.color[nil] = "black" /\ n.color[g] = "red"
       /\ g = n.root \/ n.color[n.root] = "black"
  BY <1>1, <1>2, <1>3, <1>4, <1>9, <1>10
<1>17. Growing(n, g, L, key, under, k)
  BY <1>2, <1>10, <1>14, <1>15, <1>16 DEF Growing
<1>18. under[z] \subseteq under[g] /\ g \notin under[z]
  <2>1. PICK r \in Side : t.child[r][p] = z
    BY <1>2
  <2>2. under[z] \subseteq under[p]
    BY <1>0, <1>2, <2>1, Node
  <2>3. under[p] \subseteq under[g] /\ g \notin under[p]
    BY <1>0, <1>2, Node
  <2> QED
    BY <2>2, <2>3
<1> QED
  BY <1>10, <1>17, <1>18, Zenon DEF p, g, s, o, uncle, n

\* At a black uncle, the rotation at p, if there is one, makes z and p lean the
\* same way.
Inner(t, z) == z = t.child[Other(SideOf(t, t.parent[z]))][t.parent[z]]
Straight(t, z) ==
    IF Inner(t, z) THEN Rotated(t, t.parent[z], SideOf(t, t.parent[z])) ELSE t
Top(t, z) == IF Inner(t, z) THEN z ELSE t.parent[z]
Bottom(t, z) == IF Inner(t, z) THEN t.parent[z] ELSE z

LEMMA Straightened ==
    ASSUME NEW t, NEW z, NEW L, NEW key, NEW under, NEW h, Growing(t, z, L, key, under, h),
           t.color[t.parent[z]] = "red",
           t.color[t.child[Other(SideOf(t, t.parent[z]))][t.parent[t.parent[z]]]] # "red",
           NEW C \in SUBSET Cell, C \cap L = {}, Clean(t, C)
    PROVE  LET p == t.parent[z]
               g == t.parent[p]
               s == SideOf(t, p)
           IN  /\ \E u, k : Leaning(Straight(t, z), g, Top(t, z), Bottom(t, z), s, L, key, u, k)
               /\ Clean(Straight(t, z), C)
<1> DEFINE p == t.parent[z]
<1> DEFINE g == t.parent[p]
<1> DEFINE s == SideOf(t, p)
<1> DEFINE o == Other(s)
<1> DEFINE uncle == t.child[o][g]
<1>0. Shape(t, L, key, under) /\ Balanced(t, L, h, nil, "left")
  BY DEF Growing
<1>1. /\ z \in L /\ t.color[z] = "red" /\ t.color[nil] = "black" /\ t.color[p] = "red"
      /\ \A x \in L : x # z /\ t.color[x] = "red" => t.color[t.parent[x]] = "black"
      /\ t.color[uncle] # "red"
  BY DEF Growing
<1>2. /\ p \in L /\ g \in L /\ t.color[g] = "black" /\ t.color[t.root] = "black"
      /\ s \in Side /\ t.child[s][g] = p /\ uncle # p
      /\ uncle \in L \cup {nil} /\ uncle # g
      /\ p # g /\ z # p /\ z # g /\ uncle # z
      /\ \E r \in Side : t.child[r][p] = z
  BY RedParent, Zenon
<1>3. t \in Trees /\ L \subseteq Cell /\ L \subseteq Address /\ nil \notin L /\ nil \in Cell
  BY <1>0, Cells DEF Shape
<1>4. t.color[uncle] = "black"
  <2>1. t.color[uncle] \in Color
    BY <1>2, <1>3, TreeFields
  <2> QED
    BY <1>1, <2>1 DEF Color
<1>5. o \in Side /\ o # s /\ (\A r \in Side : r = s \/ r = o) /\ Other(s) = o
  BY <1>2, Sides
<1>6. t.parent[z] = p /\ t.parent[p] = g
  OBVIOUS
<1> HIDE DEF p, g, s, o, uncle
<1>7. CASE z # t.child[o][p]
  <2>1. t.child[s][p] = z
    BY <1>2, <1>5, <1>7
  <2>2. Leaning(t, g, p, z, s, L, key, under, h)
    BY <1>0, <1>1, <1>2, <1>4, <1>5, <2>1 DEF Leaning, uncle
  <2>3. Straight(t, z) = t /\ Top(t, z) = p /\ Bottom(t, z) = z
    BY <1>7 DEF Inner, Straight, Top, Bottom, p, s, o
  <2> QED
    BY <2>2, <2>3 DEF p, g, s
<1>8. CASE z = t.child[o][p]
  <2> DEFINE n == Rotated(t, p, s)
  <2> DEFINE mid == t.child[s][z]
  <2> DEFINE u == Spun(t, under, p, s)
  <2> DEFINE k == Weighed(t, h, p, s, h[p])
  <2>1. Turned(t, n, p, s)
    BY <1>2, <1>3, RotatedTurns
  <2>0. t.child[Other(s)][p] = z
    BY <1>5, <1>8, Zenon
  <2>2. Shape(t, L, key, under) /\ p \in L /\ s \in Side /\ t.child[Other(s)][p] # nil
    BY <1>0, <1>1, <1>2, <1>3, <2>0
  <2> HIDE DEF n, u, k
  <2>3. Fits(t, L, p, s, h, h[p], nil, "left")
    <3>1. h \in [L \cup {nil} -> Nat] /\ h[nil] = 0 /\ h[p] \in Nat
      BY <1>0, <1>2 DEF Balanced
    <3>2. HeightStep(t, h, p, s) /\ HeightStep(t, h, p, o) /\ HeightStep(t, h, z, s) /\ HeightStep(t, h, z, o)
      <4>1. \A x \in L, r \in Side : HeightStep(t, h, x, r)
        BY <1>0, Heights
      <4> QED
        BY <1>1, <1>2, <1>5, <4>1
    <3>3. Bit(t, p) = 0 /\ Bit(t, z) = 0
      BY <1>1 DEF Bit
    <3>4. \A d \in L, r \in Side : Short(d, r, nil, "left") = 0
      BY <1>3, PlainCounts
    <3>5. h[p] = h[t.child[s][p]] /\ h[p] = h[z] /\ h[z] = h[t.child[s][z]] /\ h[z] = h[t.child[o][z]]
      BY <1>1, <1>8, <3>2, Zenon DEF HeightStep
    <3>6. \A d \in L : Counts(t, d, h, nil, "left")
      BY <1>0 DEF Balanced
    <3> DEFINE y == t.child[Other(s)][p]
    <3>7. y = z
      BY <2>0
    <3>8. t.child[Other(s)][y] = t.child[o][y]
      BY <1>5
    <3> HIDE DEF y
    <3>9. h[p] = h[t.child[s][p]] + Bit(t, p) + Short(p, s, nil, "left")
      BY <1>2, <3>1, <3>3, <3>4, <3>5
    <3>10. h[p] = h[t.child[s][y]] + Bit(t, p) + Short(p, Other(s), nil, "left")
      <4>1. h[t.child[s][y]] = h[p]
        BY <3>5, <3>7
      <4>2. Bit(t, p) = 0 /\ Short(p, Other(s), nil, "left") = 0
        BY <1>2, <1>5, <3>3, <3>4
      <4> QED
        BY <3>1, <4>1, <4>2
    <3>11. h[p] = h[p] + Bit(t, y) + Short(y, s, nil, "left")
      BY <1>1, <1>2, <3>1, <3>3, <3>4, <3>7
    <3>12. h[p] = h[t.child[Other(s)][y]] + Bit(t, y) + Short(y, Other(s), nil, "left")
      BY <1>1, <1>5, <3>1, <3>3, <3>4, <3>5, <3>7, <3>8
    <3> QED
      BY <3>1, <3>6, <3>9, <3>10, <3>11, <3>12 DEF Fits, y
  <2>4. Shape(n, L, key, u)
    BY <1>0, <1>2, <2>1, <2>2, TurnedShape DEF u
  <2>5. Balanced(n, L, k, nil, "left")
    BY <1>0, <1>2, <2>1, <2>2, <2>3, TurnedBalanced DEF k
  <2>6. Clean(n, C)
    BY <1>0, <1>2, <2>1, <2>2, TurnedClean
  <2>7. /\ n.child[s][z] = p
        /\ \A d \in L \ {p, z}, r \in Side :
              \/ n.child[r][d] = t.child[r][d] /\ t.child[r][d] \notin {p, z}
              \/ n.child[r][d] = z /\ t.child[r][d] = p
    <3>1. KidsTurned(t, n, p, s, L)
      BY <2>1, <2>2, TurnedChildren
    <3> QED
      BY <2>0, <3>1 DEF KidsTurned
  <2>8. /\ n.parent[z] = g /\ n.parent[p] = z
        /\ \A c \in L : c \notin {p, z, mid} => n.parent[c] = t.parent[c]
        /\ n.root = (IF p = t.root THEN z ELSE t.root) /\ n.color = t.color
    <3>1. ParentsTurned(t, n, p, s, L)
      BY <2>1, <2>2, TurnedParents
    <3> QED
      BY <1>6, <2>0, <3>1 DEF mid, ParentsTurned
  <2>9. n.child[s][g] = z /\ n.child[o][g] = uncle
    BY <1>2, <1>5, <2>7 DEF uncle
  <2>10. n.root = t.root
    BY <1>1, <1>2, <2>8
  <2>11. t.color[mid] # "red"
    <3>1. mid \in L \cup {nil} /\ (mid # nil => t.parent[mid] = z) /\ mid # z
      <4>1. z \in L /\ s \in Side
        BY <1>1, <1>2
      <4> QED
        BY ONLY <1>0, <4>1, Node DEF mid
    <3> HIDE DEF mid
    <3> QED
      BY <1>1, <3>1
  <2> HIDE DEF mid
  <2>12. \A x \in L : x # p /\ n.color[x] = "red" => n.color[n.parent[x]] = "black"
    BY <1>1, <1>2, <2>8, <2>11
  <2>13. Leaning(n, g, z, p, s, L, key, u, k)
    BY <1>1, <1>2, <1>4, <1>5, <2>4, <2>5, <2>7, <2>8, <2>9, <2>10, <2>12 DEF Leaning
  <2>14. Straight(t, z) = n /\ Top(t, z) = z /\ Bottom(t, z) = p
    BY <1>8 DEF Inner, Straight, Top, Bottom, n, p, s, o
  <2> QED
    BY <2>6, <2>13, <2>14 DEF p, g, s
<1> QED
  BY <1>7, <1>8

\* A round of the loop: what it keeps, and that it climbs or is the last one.
LEMMA InsertRoundStep ==
    ASSUME NEW t, NEW z, NEW L, NEW key, NEW under, NEW h, Growing(t, z, L, key, under, h),
           t.color[t.parent[z]] = "red",
           NEW C \in SUBSET Cell, C \cap L = {}, Clean(t, C)
    PROVE  LET l == InsertRound(t, z)
           IN  /\ Clean(l.tree, C)
               /\ \E u, k : /\ Growing(l.tree, l.at, L, key, u, k)
                            /\ \/ l.tree.color[l.tree.parent[l.at]] = "black"
                               \/ under[z] \subseteq u[l.at] /\ l.at \notin under[z]
<1> DEFINE p == t.parent[z]
<1> DEFINE g == t.parent[p]
<1> DEFINE s == SideOf(t, p)
<1> DEFINE uncle == t.child[Other(s)][g]
<1> DEFINE straight == Straight(t, z)
<1> DEFINE top == Top(t, z)
<1> DEFINE bottom == Bottom(t, z)
<1> DEFINE l == InsertRound(t, z)
<1>1. l = IF t.color[uncle] = "red"
          THEN [tree |-> Colored(Colored(Colored(t, p, "black"), uncle, "black"), g, "red"),
                at |-> g]
          ELSE [tree |-> Rotated(Colored(Colored(straight, top, "black"), g, "red"), g, Other(s)),
                at |-> bottom]
  <2>1. s = IF p = t.child["left"][g] THEN "left" ELSE "right"
    BY DEF SideOf
  <2> QED
    BY <2>1 DEF InsertRound, Straight, Top, Bottom, Inner
<1> HIDE DEF l
<1>2. CASE t.color[uncle] = "red"
  <2> DEFINE n == Colored(Colored(Colored(t, p, "black"), uncle, "black"), g, "red")
  <2>1. /\ \E k : Growing(n, g, L, key, under, k)
        /\ Clean(n, C) /\ under[z] \subseteq under[g] /\ g \notin under[z]
    BY <1>2, RedUncle
  <2>2. l.tree = n /\ l.at = g
    BY <1>1, <1>2
  <2> HIDE DEF n, g
  <2> QED
    BY <2>1, <2>2 DEF l
<1>3. CASE t.color[uncle] # "red"
  <2> DEFINE n == Rotated(Colored(Colored(straight, top, "black"), g, "red"), g, Other(s))
  <2>1. /\ \E u, k : Leaning(straight, g, top, bottom, s, L, key, u, k)
        /\ Clean(straight, C)
    BY <1>3, Straightened, Zenon
  <2>2. l.tree = n /\ l.at = bottom
    BY <1>1, <1>3
  <2>3. s \in Side
    BY DEF SideOf, Side
  <2> HIDE DEF straight, top, bottom, g, s
  <2>4. /\ \E u, k : Growing(n, bottom, L, key, u, k)
        /\ Clean(n, C) /\ n.color[n.parent[bottom]] = "black"
    BY <2>1, <2>3, LastRound
  <2> HIDE DEF n
  <2> QED
    BY <2>2, <2>4 DEF l
<1> QED
  BY <1>2, <1>3

-------------------------------------------------------------------------------
\* The loops, which run for at most MaxNodes rounds.
LEMMA Rounds ==
    ASSUME NEW S, 0 \in S, \A n \in 1 .. MaxNodes : n - 1 \in S => n \in S
    PROVE  \A n \in 0 .. MaxNodes : n \in S
<1> DEFINE B == {n \in 0 .. MaxNodes : n \notin S}
<1>1. B = {}
  <2> SUFFICES ASSUME B # {}
               PROVE  FALSE
    OBVIOUS
  <2>1. B \subseteq Nat
    BY BoundAssumption
  <2>2. PICK n \in B : \A m \in B : n <= m
    BY <2>1, Smallest
  <2>3. n \in 1 .. MaxNodes /\ n - 1 \in 0 .. MaxNodes /\ ~(n <= n - 1)
    BY BoundAssumption
  <2>4. n - 1 \in S
    BY <2>2, <2>3
  <2> QED
    BY <2>3, <2>4
<1> QED
  BY <1>1

LEMMA Iteration ==
    ASSUME NEW X, NEW F \in [X -> X], NEW start \in X
    PROVE  \E f \in [0 .. MaxNodes -> X] :
              f[0] = start /\ \A n \in 1 .. MaxNodes : f[n] = F[f[n - 1]]
<1> DEFINE Runs(m) == {f \in [0 .. m -> X] : f[0] = start /\ \A n \in 1 .. m : f[n] = F[f[n - 1]]}
<1> DEFINE S == {m \in Nat : Runs(m) # {}}
<1>1. 0 \in S
  <2>1. [n \in 0 .. 0 |-> start] \in Runs(0)
    OBVIOUS
  <2> QED
    BY <2>1
<1>2. ASSUME NEW m \in 1 .. MaxNodes, m - 1 \in S
      PROVE  m \in S
  <2>1. m \in Nat /\ m - 1 \in 0 .. m /\ m \in 0 .. m /\ m # 0
    BY BoundAssumption
  <2>2. PICK f \in [0 .. m - 1 -> X] : f[0] = start /\ \A n \in 1 .. m - 1 : f[n] = F[f[n - 1]]
    BY <1>2
  <2> DEFINE g == [n \in 0 .. m |-> IF n = m THEN F[f[m - 1]] ELSE f[n]]
  <2>3. f[m - 1] \in X
    BY <2>1
  <2>4. \A n \in 0 .. m : n # m => n \in 0 .. m - 1
    BY <2>1
  <2>5. g \in [0 .. m -> X]
    BY <2>3, <2>4
  <2>6. g[0] = start
    BY <2>1, <2>2
  <2>7. ASSUME NEW n \in 1 .. m
        PROVE  g[n] = F[g[n - 1]]
    <3>1. n \in 0 .. m /\ n - 1 \in 0 .. m /\ n - 1 # m
      BY <2>1
    <3>2. g[n - 1] = f[n - 1]
      BY <3>1
    <3>3. CASE n = m
      BY <3>1, <3>2, <3>3
    <3>4. CASE n # m
      <4>1. n \in 1 .. m - 1
        BY <2>1, <3>4
      <4> QED
        BY <2>2, <3>1, <3>2, <3>4, <4>1
    <3> QED
      BY <3>3, <3>4
  <2> HIDE DEF g
  <2>8. g \in Runs(m)
    BY <2>5, <2>6, <2>7
  <2> QED
    BY <2>1, <2>8
<1> HIDE DEF S
<1>3. \A n \in 0 .. MaxNodes : n \in S
  BY <1>1, <1>2, Rounds
<1>4. MaxNodes \in S
  BY <1>3, BoundAssumption
<1> QED
  BY <1>4 DEF S

\* The tree at rest.
Settled(t, L, key, under, h) ==
    /\ Shape(t, L, key, under) /\ Balanced(t, L, h, nil, "left")
    /\ t.color[nil] = "black" /\ t.color[t.root] = "black"
    /\ \A x \in L : t.color[x] = "red" => t.color[t.parent[x]] = "black"

\* The state of the loop of rbtree_delete_fixup: below x there is one black node
\* too few, unless x is the root; x may be red, and so may its parent.
Shrinking(t, x, L, key, under, h, q, e) ==
    /\ Shape(t, L, key, under) /\ Balanced(t, L, h, q, e) /\ t.color[nil] = "black"
    /\ x \in L \cup {nil} /\ e \in Side
    /\ x = t.root => q = nil
    /\ x # t.root => q \in L /\ t.parent[x] = q /\ t.child[e][q] = x
    /\ x = t.root \/ t.color[t.root] = "black"
    /\ \A d \in L : t.color[d] = "red" => t.color[t.parent[d]] = "black" \/ d = x \/ t.parent[d] = x

\* The last step of either fix-up.
LEMMA Blackened ==
    ASSUME NEW t, NEW x, NEW L, NEW key, NEW under, NEW h, NEW q, NEW e,
           Shrinking(t, x, L, key, under, h, q, e), x = t.root \/ t.color[x] = "red",
           NEW C \in SUBSET Cell, C \cap L = {}, Clean(t, C)
    PROVE  /\ Clean(Colored(t, x, "black"), C)
           /\ \E k : Settled(Colored(t, x, "black"), L, key, under, k)
<1> DEFINE n == Colored(t, x, "black")
<1> DEFINE k == IF t.color[x] = "red" THEN [h EXCEPT ![x] = h[x] + 1] ELSE h
<1>1. /\ Shape(t, L, key, under) /\ Balanced(t, L, h, q, e) /\ t.color[nil] = "black"
      /\ x \in L \cup {nil} /\ e \in Side
      /\ x = t.root => q = nil
      /\ x # t.root => q \in L /\ t.parent[x] = q /\ t.child[e][q] = x
      /\ x = t.root \/ t.color[t.root] = "black"
      /\ \A d \in L : t.color[d] = "red" => t.color[t.parent[d]] = "black" \/ d = x \/ t.parent[d] = x
  BY DEF Shrinking
<1>2. t \in Trees /\ L \subseteq Cell /\ L \subseteq Address /\ nil \notin L /\ nil \in Cell
      /\ t.root \in L \cup {nil}
  BY <1>1, Cells DEF Shape
<1>3. "black" \in Color /\ "black" # "red"
  BY DEF Color
<1>4. /\ Recolored(t, n) /\ n \in Trees
      /\ \A d \in Cell : n.color[d] = IF d = x THEN "black" ELSE t.color[d]
  BY <1>1, <1>2, <1>3, ColoredIs
<1> HIDE DEF n
<1>5. Shape(n, L, key, under) /\ Clean(n, C) /\ n.root = t.root /\ n.child = t.child /\ n.parent = t.parent
  BY <1>1, <1>4, RecoloredShape, RecoloredClean DEF Recolored
<1>6. \A d \in L : t.parent[d] \in Cell /\ (t.parent[d] = nil <=> d = t.root)
  BY <1>1, <1>2 DEF Shape
<1>7. n.color[nil] = "black" /\ n.color[n.root] = "black"
  BY <1>1, <1>2, <1>4, <1>5
<1>8. \A d \in L : n.color[d] = "red" => n.color[n.parent[d]] = "black"
  BY <1>1, <1>2, <1>3, <1>4, <1>5, <1>6
<1>9. h \in [L \cup {nil} -> Nat] /\ h[nil] = 0
      /\ \A d \in L, r \in Side : h[d] = h[t.child[r][d]] + Bit(t, d) + Short(d, r, q, e)
  BY <1>1 DEF Balanced, Counts
<1>10. \A d \in L, r \in Side : t.child[r][d] \in L \cup {nil} /\ (t.child[r][d] # nil => t.parent[t.child[r][d]] = d)
  BY <1>1 DEF Shape
<1>11. CASE t.color[x] = "red"
  <2>1. x \in L
    BY <1>1, <1>3, <1>11
  <2>2. /\ k \in [L \cup {nil} -> Nat] /\ k[x] = h[x] + 1 /\ h[x] \in Nat
        /\ \A d \in L \cup {nil} : d # x => k[d] = h[d]
    BY <1>9, <1>11, <2>1
  <2> HIDE DEF k
  <2>3. ASSUME NEW d \in L, NEW r \in Side
        PROVE  k[d] = k[n.child[r][d]] + Bit(n, d) + 0
    <3>1. h[d] = h[t.child[r][d]] + Bit(t, d) + Short(d, r, q, e) /\ h[d] \in Nat /\ h[t.child[r][d]] \in Nat
      BY <1>9, <1>10
    <3>2. d # x => k[d] = h[d] /\ Bit(n, d) = Bit(t, d)
      BY <1>2, <1>4, <2>2 DEF Bit
    <3>3. d = x => k[d] = h[d] + 1 /\ Bit(n, d) = 1 /\ Bit(t, d) = 0
      BY <1>2, <1>3, <1>4, <1>11, <2>2 DEF Bit
    <3>4. Bit(t, d) \in Nat
      BY DEF Bit
    <3>5. CASE t.child[r][d] = x
      <4>1. t.parent[x] = d /\ d # x /\ d # nil
        BY <1>1, <1>2, <1>10, <2>1, <3>5, Node
      <4>2. x # t.root /\ d = q /\ t.child[e][d] = x
        BY <1>1, <1>6, <2>1, <4>1
      <4>3. r = e
        <5>1. under[t.child[e][d]] \cap under[t.child[Other(e)][d]] = {}
          BY <1>1, Disjoint
        <5>2. x \in under[x]
          BY <1>1, <2>1, Node
        <5>3. r = e \/ r = Other(e)
          BY <1>1, Sides
        <5> QED
          BY <3>5, <4>2, <5>1, <5>2, <5>3
      <4>4. Short(d, r, q, e) = 1
        BY <4>2, <4>3 DEF Short
      <4>5. k[n.child[r][d]] = h[t.child[r][d]] + 1
        BY <1>5, <2>2, <3>5
      <4> QED
        BY <3>1, <3>2, <3>4, <4>1, <4>4, <4>5
    <3>6. CASE t.child[r][d] # x
      <4>1. ~(d = q /\ r = e)
        BY <1>1, <1>2, <3>6
      <4>2. Short(d, r, q, e) = 0
        BY <4>1 DEF Short
      <4>3. k[n.child[r][d]] = h[t.child[r][d]]
        BY <1>5, <1>10, <2>2, <3>6
      <4> QED
        BY <3>1, <3>2, <3>3, <3>4, <4>2, <4>3
    <3> QED
      BY <3>5, <3>6
  <2>4. k[nil] = 0
    BY <1>2, <1>9, <2>1, <2>2
  <2>5. \A d \in L : Counts(n, d, k, nil, "left")
    BY <1>2, <2>3, PlainCounts
  <2>6. Balanced(n, L, k, nil, "left")
    BY <2>2, <2>4, <2>5 DEF Balanced
  <2>7. Settled(n, L, key, under, k)
    BY <1>5, <1>7, <1>8, <2>6 DEF Settled
  <2> QED
    BY <1>5, <2>7 DEF n
<1>12. CASE t.color[x] # "red"
  <2>1. q = nil
    BY <1>1, <1>12
  <2>2. \A d \in L : Bit(n, d) = Bit(t, d)
    <3>1. t.color[x] = "black"
      BY <1>1, <1>2, <1>12, TreeFields DEF Color
    <3> QED
      BY <1>2, <1>4, <3>1 DEF Bit
  <2>3. \A d \in L, r \in Side : h[d] = h[n.child[r][d]] + Bit(n, d) + 0
    <3> TAKE d \in L, r \in Side
    <3>1. h[d] = h[t.child[r][d]] + Bit(t, d) + Short(d, r, q, e)
      BY <1>9
    <3>2. Short(d, r, q, e) = 0
      BY <1>2, <2>1 DEF Short
    <3> QED
      BY <1>5, <2>2, <3>1, <3>2
  <2>4. \A d \in L : Counts(n, d, h, nil, "left")
    BY <1>2, <2>3, PlainCounts
  <2>5. Balanced(n, L, h, nil, "left")
    BY <1>9, <2>4 DEF Balanced
  <2>6. Settled(n, L, key, under, h)
    BY <1>5, <1>7, <1>8, <2>5 DEF Settled
  <2> QED
    BY <1>5, <2>6 DEF n
<1> QED
  BY <1>11, <1>12

\* The states of a loop.
State == [tree : Trees, at : Cell]

LEMMA ColoredType ==
    ASSUME NEW t \in Trees, NEW x \in Cell, NEW c \in Color
    PROVE  Colored(t, x, c) \in Trees
BY ColoredIs

LEMMA RotatedType ==
    ASSUME NEW t \in Trees, NEW x \in Cell, NEW s \in Side
    PROVE  Rotated(t, x, s) \in Trees
<1>1. Turned(t, Rotated(t, x, s), x, s)
  BY RotatedTurns
<1> QED
  BY <1>1 DEF Turned

LEMMA InsertRoundType ==
    ASSUME NEW t \in Trees, NEW z \in Cell
    PROVE  InsertRound(t, z) \in State
<1> DEFINE p == t.parent[z]
<1> DEFINE g == t.parent[p]
<1> DEFINE s == IF p = t.child["left"][g] THEN "left" ELSE "right"
<1> DEFINE uncle == t.child[Other(s)][g]
<1> DEFINE inner == z = t.child[Other(s)][p]
<1> DEFINE straight == IF inner THEN Rotated(t, p, s) ELSE t
<1> DEFINE top == IF inner THEN z ELSE p
<1> DEFINE t1 == Colored(Colored(Colored(t, p, "black"), uncle, "black"), g, "red")
<1> DEFINE t2 == Rotated(Colored(Colored(straight, top, "black"), g, "red"), g, Other(s))
<1>1. p \in Cell /\ g \in Cell
  BY TreeFields
<1>2. s \in Side /\ Other(s) \in Side
  BY Sides DEF Side
<1>3. uncle \in Cell /\ "red" \in Color /\ "black" \in Color
  BY <1>1, <1>2, TreeFields DEF Color
<1> HIDE DEF p, g, s, uncle
<1>4. straight \in Trees /\ top \in Cell
  BY <1>1, <1>2, RotatedType
<1> HIDE DEF straight, top
<1>5. t1 \in Trees
  BY <1>1, <1>3, ColoredType
<1>6. t2 \in Trees
  BY <1>1, <1>2, <1>3, <1>4, ColoredType, RotatedType
<1> HIDE DEF t1, t2
<1>7. InsertRound(t, z) = IF t.color[uncle] = "red" THEN [tree |-> t1, at |-> g]
                          ELSE [tree |-> t2, at |-> IF inner THEN p ELSE z]
  BY DEF InsertRound, p, g, s, uncle, straight, top, t1, t2
<1> HIDE DEF inner
<1> QED
  BY <1>1, <1>5, <1>6, <1>7 DEF State

\* rbtree_insert_fixup makes a tree with only z out of order a tree at rest.
LEMMA InsertFixupSettles ==
    ASSUME NEW t, NEW z, NEW L, NEW key, NEW under, NEW h, Growing(t, z, L, key, under, h),
           NEW C \in SUBSET Cell, C \cap L = {}, Clean(t, C)
    PROVE  /\ Clean(InsertFixup(t, z), C)
           /\ \E u, k : Settled(InsertFixup(t, z), L, key, u, k)
<1> DEFINE Step(l) == IF l.tree.color[l.tree.parent[l.at]] = "red"
                      THEN InsertRound(l.tree, l.at) ELSE l
<1> DEFINE start == [tree |-> t, at |-> z]
<1> DEFINE Loop(f) == f = [n \in 0 .. MaxNodes |-> IF n = 0 THEN start ELSE Step(f[n - 1])]
<1> DEFINE after == CHOOSE f : Loop(f)
<1> DEFINE end == after[MaxNodes].tree
<1>1. t \in Trees /\ z \in Cell /\ L \subseteq Address /\ L \subseteq Cell /\ nil \notin L
  BY Cells DEF Growing, Shape
<1>2. InsertFixup(t, z) = Colored(end, end.root, "black")
  BY DEF InsertFixup
<1>3. start \in State
  BY <1>1 DEF State
<1> DEFINE F == [l \in State |-> Step(l)]
<1>4. F \in [State -> State]
  <2> SUFFICES ASSUME NEW l \in State
               PROVE  Step(l) \in State
    OBVIOUS
  <2>1. l.tree \in Trees /\ l.at \in Cell
    BY DEF State
  <2> QED
    BY <2>1, InsertRoundType
<1> HIDE DEF start
<1>5. \E f : Loop(f)
  <2> HIDE DEF F
  <2>1. PICK f \in [0 .. MaxNodes -> State] :
             f[0] = start /\ \A n \in 1 .. MaxNodes : f[n] = F[f[n - 1]]
    BY <1>3, <1>4, Iteration
  <2>2. ASSUME NEW n \in 0 .. MaxNodes
        PROVE  f[n] = IF n = 0 THEN start ELSE Step(f[n - 1])
    <3>1. CASE n = 0
      BY <2>1, <3>1
    <3>2. CASE n # 0
      <4>1. n \in 1 .. MaxNodes /\ n - 1 \in 0 .. MaxNodes
        BY <3>2, BoundAssumption
      <4>2. f[n - 1] \in State
        BY <4>1
      <4> HIDE DEF Step
      <4>3. F[f[n - 1]] = Step(f[n - 1])
        BY <4>2 DEF F
      <4> QED
        BY <2>1, <3>2, <4>1, <4>3
    <3> QED
      BY <3>1, <3>2
  <2> HIDE DEF Step
  <2>3. Loop(f)
    BY <2>2
  <2> QED
    BY <2>3
<1>6. Loop(after)
  <2> HIDE DEF Loop
  <2> QED
    BY <1>5
<1> HIDE DEF after, F
<1>7. after[0] = start
  <2> HIDE DEF Step
  <2> QED
    BY <1>6, BoundAssumption
<1>8. \A n \in 1 .. MaxNodes : after[n] = Step(after[n - 1])
  <2> HIDE DEF Step
  <2> QED
    BY <1>6, BoundAssumption
<1> DEFINE Good(l, n) ==
       /\ Clean(l.tree, C)
       /\ \E u, k : /\ Growing(l.tree, l.at, L, key, u, k)
                    /\ l.tree.color[l.tree.parent[l.at]] = "red" => n < Cardinality(u[l.at])
<1>9. \A n \in 0 .. MaxNodes : n \in {m \in 0 .. MaxNodes : Good(after[m], m)}
  <2> DEFINE S == {m \in 0 .. MaxNodes : Good(after[m], m)}
  <2>1. 0 \in S
    <3>1. under[z] \in SUBSET L /\ z \in under[z]
      <4>1. Shape(t, L, key, under) /\ z \in L
        BY DEF Growing
      <4>2. "left" \in Side
        BY DEF Side
      <4> QED
        BY <4>1, <4>2, Node
    <3>2. IsFiniteSet(under[z]) /\ Cardinality(under[z]) \in Nat
      BY <1>1, <3>1, SomeAreFinite
    <3>3. Cardinality(under[z]) # 0
      BY <3>1, <3>2, FS_EmptySet
    <3>4. 0 < Cardinality(under[z])
      BY <3>2, <3>3
    <3>5. start.tree = t /\ start.at = z
      BY DEF start
    <3>6. Good(start, 0)
      BY <3>4, <3>5
    <3> HIDE DEF Good
    <3> QED
      BY <1>7, <3>6, BoundAssumption
  <2>2. ASSUME NEW n \in 1 .. MaxNodes, n - 1 \in S
        PROVE  n \in S
    <3> DEFINE l == after[n - 1]
    <3>1. Good(l, n - 1) /\ n \in Nat /\ n - 1 \in Nat
      BY <2>2, BoundAssumption
    <3>2. after[n] = Step(l)
      BY <1>8
    <3> HIDE DEF l
    <3>3. PICK u, k : /\ Growing(l.tree, l.at, L, key, u, k)
                      /\ l.tree.color[l.tree.parent[l.at]] = "red" => n - 1 < Cardinality(u[l.at])
      BY <3>1
    <3>4. Clean(l.tree, C)
      BY <3>1
    <3>5. CASE l.tree.color[l.tree.parent[l.at]] # "red"
      <4>1. Good(l, n)
        BY <3>3, <3>4, <3>5
      <4> HIDE DEF Good
      <4> QED
        BY <3>2, <3>5, <4>1
    <3>6. CASE l.tree.color[l.tree.parent[l.at]] = "red"
      <4> DEFINE r == InsertRound(l.tree, l.at)
      <4>1. /\ Clean(r.tree, C)
            /\ \E v, j : /\ Growing(r.tree, r.at, L, key, v, j)
                         /\ \/ r.tree.color[r.tree.parent[r.at]] = "black"
                            \/ u[l.at] \subseteq v[r.at] /\ r.at \notin u[l.at]
        BY <3>3, <3>4, <3>6, InsertRoundStep
      <4>2. after[n] = r
        BY <3>2, <3>6
      <4> HIDE DEF r
      <4>3. PICK v, j : /\ Growing(r.tree, r.at, L, key, v, j)
                        /\ \/ r.tree.color[r.tree.parent[r.at]] = "black"
                           \/ u[l.at] \subseteq v[r.at] /\ r.at \notin u[l.at]
        BY <4>1
      <4>4. ASSUME r.tree.color[r.tree.parent[r.at]] = "red"
            PROVE  n < Cardinality(v[r.at])
        <5>1. u[l.at] \subseteq v[r.at] /\ r.at \notin u[l.at]
          BY <4>3, <4>4
        <5>2. v[r.at] \in SUBSET L /\ r.at \in v[r.at]
          <6>1. Shape(r.tree, L, key, v) /\ r.at \in L
            BY <4>3 DEF Growing
          <6>2. "left" \in Side
            BY DEF Side
          <6> QED
            BY <6>1, <6>2, Node
        <5>3. IsFiniteSet(v[r.at])
          BY <1>1, <5>2, SomeAreFinite
        <5>4. /\ Cardinality(u[l.at]) <= Cardinality(v[r.at])
              /\ Cardinality(u[l.at]) = Cardinality(v[r.at]) => v[r.at] = u[l.at]
              /\ IsFiniteSet(u[l.at])
          BY <5>1, <5>3, FS_Subset
        <5>5. Cardinality(u[l.at]) \in Nat /\ Cardinality(v[r.at]) \in Nat
          BY <5>3, <5>4, FS_CardinalityType
        <5>6. Cardinality(u[l.at]) # Cardinality(v[r.at])
          BY <5>1, <5>2, <5>4
        <5>7. n - 1 < Cardinality(u[l.at])
          BY <3>3, <3>6
        <5> QED
          BY <3>1, <5>4, <5>5, <5>6, <5>7
      <4>5. Good(r, n)
        BY <4>1, <4>3, <4>4
      <4> HIDE DEF Good
      <4> QED
        BY <4>2, <4>5
    <3> QED
      BY <3>5, <3>6
  <2> HIDE DEF S, Good
  <2>3. \A n \in 0 .. MaxNodes : n \in S
    BY <2>1, <2>2, Rounds
  <2> QED
    BY <2>3 DEF S
<1> DEFINE last == after[MaxNodes]
<1>10. Good(last, MaxNodes)
  <2> HIDE DEF Good
  <2>1. MaxNodes \in 0 .. MaxNodes
    BY BoundAssumption
  <2> QED
    BY <1>9, <2>1
<1>11. PICK u, k : /\ Growing(last.tree, last.at, L, key, u, k)
                   /\ last.tree.color[last.tree.parent[last.at]] = "red" =>
                         MaxNodes < Cardinality(u[last.at])
  BY <1>10
<1>12. Clean(end, C)
  BY <1>10
<1>13. end = last.tree
  OBVIOUS
<1> HIDE DEF last, end, Good
<1> DEFINE at == last.at
<1>14. Growing(end, at, L, key, u, k) /\ (end.color[end.parent[at]] = "red" => MaxNodes < Cardinality(u[at]))
  BY <1>11, <1>13
<1> HIDE DEF at
<1>15. /\ Shape(end, L, key, u) /\ Balanced(end, L, k, nil, "left") /\ end.color[nil] = "black"
       /\ at \in L /\ end.color[at] = "red"
       /\ \A x \in L : x # at /\ end.color[x] = "red" => end.color[end.parent[x]] = "black"
  BY <1>14 DEF Growing
<1>16. end.color[end.parent[at]] # "red"
  <2>1. u[at] \in SUBSET L
    BY <1>15 DEF Shape
  <2>2. Cardinality(u[at]) <= MaxNodes
    BY <1>1, <2>1, SomeAreFinite
  <2>3. Cardinality(u[at]) \in Nat
    BY <1>1, <2>1, SomeAreFinite
  <2> QED
    BY <1>14, <2>2, <2>3, BoundAssumption
<1>17. end.color[end.parent[at]] = "black"
  <2>1. end \in Trees /\ end.parent[at] \in Cell
    BY <1>1, <1>15, TreeFields DEF Shape
  <2> QED
    BY <1>16, <2>1, TreeFields DEF Color
<1>18. Shrinking(end, end.root, L, key, u, k, nil, "left")
  <2>1. end.root \in L \cup {nil} /\ "left" \in Side
    BY <1>15 DEF Shape, Side
  <2> QED
    BY <1>15, <1>17, <2>1 DEF Shrinking
<1>19. /\ Clean(Colored(end, end.root, "black"), C)
       /\ \E j : Settled(Colored(end, end.root, "black"), L, key, u, j)
  BY <1>12, <1>18, Blackened
<1> QED
  BY <1>2, <1>19

-------------------------------------------------------------------------------
\* rbtree_delete_fixup.
LEMMA ColoredTwice ==
    ASSUME NEW t \in Trees, NEW a \in Cell, NEW b \in Cell, NEW c \in Color, NEW d \in Color
    PROVE  LET n == Colored(Colored(t, a, c), b, d)
           IN  /\ Recolored(t, n) /\ n \in Trees
               /\ \A x \in Cell : n.color[x] = IF x = b THEN d ELSE IF x = a THEN c ELSE t.color[x]
<1> DEFINE m == Colored(t, a, c)
<1> DEFINE n == Colored(m, b, d)
<1>1. Recolored(t, m) /\ m \in Trees /\ \A x \in Cell : m.color[x] = IF x = a THEN c ELSE t.color[x]
  BY ColoredIs
<1> HIDE DEF m
<1>2. Recolored(m, n) /\ n \in Trees /\ \A x \in Cell : n.color[x] = IF x = b THEN d ELSE m.color[x]
  BY <1>1, ColoredIs
<1> HIDE DEF n
<1>3. /\ Recolored(t, n) /\ n \in Trees
      /\ \A x \in Cell : n.color[x] = IF x = b THEN d ELSE IF x = a THEN c ELSE t.color[x]
  BY <1>1, <1>2 DEF Recolored
<1> QED
  BY <1>3 DEF m, n

\* A round begins and its rotations keep: below x, the child of p on side s,
\* there is one black node too few.
Lacking(t, x, L, key, under, h, p, s) ==
    /\ Shape(t, L, key, under) /\ Balanced(t, L, h, p, s)
    /\ t.color[nil] = "black" /\ t.color[t.root] = "black" /\ t.color[x] = "black"
    /\ p \in L /\ s \in Side /\ t.child[s][p] = x /\ t.parent[x] = p
    /\ \A d \in L : t.color[d] = "red" => t.color[t.parent[d]] = "black"

\* Heights where the child of q on side e counts one too few.
LackStep(t, h, x, s, q, e) ==
    /\ h[x] \in Nat /\ h[t.child[s][x]] \in Nat
    /\ x # q \/ s # e =>
          /\ t.color[x] = "red" => h[x] = h[t.child[s][x]]
          /\ t.color[x] = "black" => h[x] = h[t.child[s][x]] + 1
    /\ x = q /\ s = e =>
          /\ t.color[x] = "red" => h[x] = h[t.child[s][x]] + 1
          /\ t.color[x] = "black" => h[x] = h[t.child[s][x]] + 2

LEMMA LackSteps ==
    ASSUME NEW t, NEW L, NEW key, NEW under, Shape(t, L, key, under), NEW h, NEW q, NEW e,
           Balanced(t, L, h, q, e), NEW x \in L, NEW s \in Side
    PROVE  LackStep(t, h, x, s, q, e)
<1>1. t.child[s][x] \in L \cup {nil}
  BY Node
<1>2. h \in [L \cup {nil} -> Nat] /\ Counts(t, x, h, q, e)
  BY DEF Balanced
<1>3. h[x] = h[t.child[s][x]] + Bit(t, x) + Short(x, s, q, e)
  BY <1>2 DEF Counts
<1>4. h[x] \in Nat /\ h[t.child[s][x]] \in Nat
  BY <1>1, <1>2
<1>5. x # q \/ s # e => Short(x, s, q, e) = 0
  BY DEF Short
<1>6. x = q /\ s = e => Short(x, s, q, e) = 1
  BY DEF Short
<1>7. t.color[x] = "red" => Bit(t, x) = 0
  BY DEF Bit
<1>8. t.color[x] = "black" => Bit(t, x) = 1
  BY DEF Bit
<1>9. x # q \/ s # e =>
          /\ t.color[x] = "red" => h[x] = h[t.child[s][x]]
          /\ t.color[x] = "black" => h[x] = h[t.child[s][x]] + 1
  BY <1>3, <1>4, <1>5, <1>7, <1>8
<1>10. x = q /\ s = e =>
          /\ t.color[x] = "red" => h[x] = h[t.child[s][x]] + 1
          /\ t.color[x] = "black" => h[x] = h[t.child[s][x]] + 2
  BY <1>3, <1>4, <1>6, <1>7, <1>8
<1> QED
  BY <1>4, <1>9, <1>10 DEF LackStep

\* The sibling w of x, and its children.
Sibling(t, h, x, L, p, s) ==
    LET w == t.child[Other(s)][p]
    IN  /\ w \in L /\ w # x /\ w # p /\ x # p /\ t.parent[w] = p /\ x # t.root /\ w # t.root
        /\ h[x] \in Nat /\ h[w] = h[x] + 1 /\ h[p] = h[w] + Bit(t, p)
        /\ t.color[w] = "black" => \A r \in Side : h[t.child[r][w]] = h[x]
        /\ t.color[w] = "red" =>
              /\ t.color[p] = "black"
              /\ \A r \in Side : /\ h[t.child[r][w]] = h[w] /\ t.child[r][w] \in L
                                 /\ t.color[t.child[r][w]] = "black"

LEMMA SiblingIs ==
    ASSUME NEW t, NEW x, NEW L, NEW key, NEW under, NEW h, NEW p, NEW s,
           Lacking(t, x, L, key, under, h, p, s)
    PROVE  Sibling(t, h, x, L, p, s)
<1> DEFINE o == Other(s)
<1> DEFINE w == t.child[o][p]
<1>1. /\ Shape(t, L, key, under) /\ Balanced(t, L, h, p, s)
      /\ t.color[nil] = "black" /\ t.color[t.root] = "black" /\ t.color[x] = "black"
      /\ p \in L /\ s \in Side /\ t.child[s][p] = x /\ t.parent[x] = p
      /\ \A d \in L : t.color[d] = "red" => t.color[t.parent[d]] = "black"
  BY DEF Lacking
<1>2. o \in Side /\ o # s
  BY <1>1, Sides
<1>3. t \in Trees /\ L \subseteq Cell /\ nil \notin L /\ t.root \in L \cup {nil} /\ under[nil] = {}
      /\ under[t.root] = L
  BY <1>1, Cells DEF Shape
<1>4. h[nil] = 0
  BY <1>1 DEF Balanced
<1>5. LackStep(t, h, p, s, p, s) /\ LackStep(t, h, p, o, p, s)
  BY <1>1, <1>2, LackSteps
<1>6. t.color[p] = "red" \/ t.color[p] = "black"
  BY <1>1, <1>3, TreeFields DEF Color
<1>7. h[x] \in Nat /\ h[w] \in Nat /\ h[w] = h[x] + 1 /\ h[p] = h[w] + Bit(t, p)
  <2>1. h[x] \in Nat /\ h[w] \in Nat /\ h[p] \in Nat
    BY <1>1, <1>5 DEF LackStep
  <2>2. CASE t.color[p] = "red"
    <3>1. h[p] = h[x] + 1 /\ h[p] = h[w]
      BY <1>1, <1>2, <1>5, <2>2 DEF LackStep
    <3>2. Bit(t, p) = 0
      BY <2>2 DEF Bit
    <3> QED
      BY <2>1, <3>1, <3>2
  <2>3. CASE t.color[p] = "black"
    <3>1. h[p] = h[x] + 2 /\ h[p] = h[w] + 1
      BY <1>1, <1>2, <1>5, <2>3 DEF LackStep
    <3>2. Bit(t, p) = 1
      BY <2>3 DEF Bit
    <3> QED
      BY <2>1, <3>1, <3>2
  <2> QED
    BY <1>6, <2>2, <2>3
<1>8. w \in L \cup {nil} /\ w # p /\ (w # nil => t.parent[w] = p)
  BY <1>1, <1>2, Node
<1>9. x # p
  BY <1>1, Node
<1> HIDE DEF w, o
<1>10. w # nil /\ w # x
  BY <1>4, <1>7
<1>11. w \in L /\ t.parent[w] = p
  BY <1>8, <1>10
<1>12. x # t.root /\ w # t.root
  <2>1. \A d \in L : t.parent[d] = nil <=> d = t.root
    BY <1>1 DEF Shape
  <2>2. t.root # nil
    BY <1>1, <1>3
  <2> QED
    BY <1>1, <1>3, <1>11, <2>1, <2>2
<1>13. \A r \in Side : /\ LackStep(t, h, w, r, p, s) /\ t.child[r][w] \in L \cup {nil}
                       /\ t.child[r][w] # nil => t.parent[t.child[r][w]] = w
  BY <1>1, <1>11, LackSteps, Node
<1>14. ASSUME t.color[w] = "black", NEW r \in Side
       PROVE  h[t.child[r][w]] = h[x]
  <2>1. h[w] = h[t.child[r][w]] + 1 /\ h[t.child[r][w]] \in Nat
    BY <1>8, <1>13, <1>14 DEF LackStep
  <2> QED
    BY <1>7, <2>1
<1>15. ASSUME t.color[w] = "red"
       PROVE  /\ t.color[p] = "black"
              /\ \A r \in Side : /\ h[t.child[r][w]] = h[w] /\ t.child[r][w] \in L
                                 /\ t.color[t.child[r][w]] = "black"
  <2>1. t.color[p] = "black"
    BY <1>1, <1>11, <1>15
  <2>2. ASSUME NEW r \in Side
        PROVE  /\ h[t.child[r][w]] = h[w] /\ t.child[r][w] \in L
               /\ t.color[t.child[r][w]] = "black"
    <3> DEFINE c == t.child[r][w]
    <3>1. h[w] = h[c]
      BY <1>8, <1>13, <1>15 DEF LackStep
    <3>2. c \in L \cup {nil} /\ (c # nil => t.parent[c] = w)
      BY <1>13
    <3> HIDE DEF c
    <3>3. c # nil
      BY <1>4, <1>7, <3>1
    <3>4. t.color[c] # "red"
      BY <1>1, <1>15, <3>2, <3>3
    <3>5. t.color[c] \in Color
      BY <1>3, <3>2, <3>3, TreeFields
    <3>6. h[c] = h[w] /\ c \in L /\ t.color[c] = "black"
      BY <3>1, <3>2, <3>3, <3>4, <3>5 DEF Color
    <3> QED
      BY <3>6 DEF c
  <2> QED
    BY <2>1, <2>2
<1> QED
  BY <1>7, <1>8, <1>9, <1>10, <1>11, <1>12, <1>14, <1>15 DEF Sibling, w, o

\* A red sibling: after the rotation the new one is black.
LEMMA RedSibling ==
    ASSUME NEW t, NEW x, NEW L, NEW key, NEW under, NEW h, NEW p, NEW s,
           Lacking(t, x, L, key, under, h, p, s), t.color[t.child[Other(s)][p]] = "red",
           NEW C \in SUBSET Cell, C \cap L = {}, Clean(t, C)
    PROVE  LET n == Rotated(Colored(Colored(t, t.child[Other(s)][p], "black"), p, "red"), p, s)
           IN  /\ Clean(n, C) /\ n.color[n.child[Other(s)][p]] = "black"
               /\ \E u, k : Lacking(n, x, L, key, u, k, p, s) /\ u[x] = under[x]
<1> DEFINE o == Other(s)
<1> DEFINE w == t.child[o][p]
<1> DEFINE inner == t.child[s][w]
<1> DEFINE high == t.child[o][w]
<1> DEFINE t2 == Colored(Colored(t, w, "black"), p, "red")
<1> DEFINE n == Rotated(t2, p, s)
<1>1. /\ Shape(t, L, key, under) /\ Balanced(t, L, h, p, s)
      /\ t.color[nil] = "black" /\ t.color[t.root] = "black" /\ t.color[x] = "black"
      /\ p \in L /\ s \in Side /\ t.child[s][p] = x /\ t.parent[x] = p
      /\ \A d \in L : t.color[d] = "red" => t.color[t.parent[d]] = "black"
  BY DEF Lacking
<1>2. o \in Side /\ o # s /\ \A r \in Side : r = s \/ r = o
  BY <1>1, Sides
<1>3. /\ w \in L /\ w # x /\ w # p /\ x # p /\ t.parent[w] = p /\ x # t.root /\ w # t.root
      /\ h[x] \in Nat /\ h[w] = h[x] + 1 /\ h[p] = h[w] + Bit(t, p)
      /\ t.color[p] = "black"
      /\ h[inner] = h[w] /\ h[high] = h[w] /\ inner \in L /\ t.color[inner] = "black"
  <2>1. Sibling(t, h, x, L, p, s)
    BY SiblingIs
  <2> QED
    BY <1>1, <1>2, <2>1 DEF Sibling
<1>4. t \in Trees /\ L \subseteq Cell /\ nil \notin L /\ nil \in Cell /\ t.root \in L \cup {nil}
      /\ "red" \in Color /\ "black" \in Color /\ "red" # "black"
  BY <1>1, Cells DEF Shape, Color
<1>5. x \in L \cup {nil}
  BY <1>1, Node
<1> HIDE DEF o, w, inner, high
<1>6. /\ Recolored(t, t2) /\ t2 \in Trees
      /\ \A d \in Cell : t2.color[d] = IF d = p THEN "red" ELSE IF d = w THEN "black" ELSE t.color[d]
  BY <1>1, <1>3, <1>4, ColoredTwice
<1> HIDE DEF t2
<1>7. Shape(t2, L, key, under) /\ Clean(t2, C)
  BY <1>1, <1>6, RecoloredShape, RecoloredClean
<1>8. t2.root = t.root /\ t2.child = t.child /\ t2.parent = t.parent
  BY <1>6 DEF Recolored
<1>9. Turned(t2, n, p, s)
  BY <1>1, <1>4, <1>6, RotatedTurns
<1> HIDE DEF n
<1>10. t2.child[Other(s)][p] = w
  BY <1>8 DEF w, o
<1>11. Shape(t2, L, key, under) /\ p \in L /\ s \in Side /\ t2.child[Other(s)][p] # nil
  BY <1>1, <1>3, <1>4, <1>7, <1>10
<1> DEFINE u == Spun(t2, under, p, s)
<1> DEFINE k == Weighed(t2, h, p, s, h[w])
<1>12. Fits(t2, L, p, s, h, h[w], p, s)
  <2>1. h \in [L \cup {nil} -> Nat] /\ h[nil] = 0 /\ h[w] \in Nat
        /\ \A d \in L : Counts(t, d, h, p, s)
    BY <1>1, <1>3 DEF Balanced
  <2>2. Bit(t2, p) = 0 /\ Bit(t2, w) = 1 /\ Bit(t, p) = 1
    BY <1>1, <1>3, <1>4, <1>6 DEF Bit
  <2>3. Short(p, s, p, s) = 1 /\ Short(p, o, p, s) = 0 /\ \A r \in Side : Short(w, r, p, s) = 0
    BY <1>2, <1>3 DEF Short
  <2>4. ASSUME NEW d \in L, d \notin {p, w}
        PROVE  Counts(t2, d, h, p, s)
    <3>1. Bit(t2, d) = Bit(t, d)
      BY <1>4, <1>6, <2>4 DEF Bit
    <3> QED
      BY <1>8, <2>1, <3>1 DEF Counts
  <2> DEFINE y == t2.child[Other(s)][p]
  <2>5. y = w
    BY <1>10
  <2>6. t2.child[s][p] = x /\ t2.child[s][y] = inner /\ t2.child[Other(s)][y] = high
    BY <1>1, <1>8, <2>5 DEF inner, high, o
  <2> HIDE DEF y
  <2>7. h[w] = h[t2.child[s][p]] + Bit(t2, p) + Short(p, s, p, s)
    BY <1>3, <2>2, <2>3, <2>6
  <2>8. h[w] = h[t2.child[s][y]] + Bit(t2, p) + Short(p, Other(s), p, s)
    <3>1. Short(p, Other(s), p, s) = 0
      BY <2>3 DEF o
    <3> QED
      BY <1>3, <2>1, <2>2, <2>6, <3>1
  <2>9. h[p] = h[w] + Bit(t2, y) + Short(y, s, p, s)
    BY <1>1, <1>3, <2>1, <2>2, <2>3, <2>5
  <2>10. h[p] = h[t2.child[Other(s)][y]] + Bit(t2, y) + Short(y, Other(s), p, s)
    <3>1. Short(y, Other(s), p, s) = 0 /\ Bit(t2, y) = 1
      BY <1>2, <2>2, <2>3, <2>5 DEF o
    <3>2. h[t2.child[Other(s)][y]] = h[w]
      BY <1>3, <2>6
    <3> QED
      BY <1>3, <2>1, <2>2, <3>1, <3>2
  <2>11. \A d \in L : d \notin {p, y} => Counts(t2, d, h, p, s)
    BY <2>4, <2>5
  <2> QED
    BY <2>1, <2>7, <2>8, <2>9, <2>10, <2>11 DEF Fits, y
<1>13. Shape(n, L, key, u)
  BY <1>9, <1>11, TurnedShape
<1>14. Balanced(n, L, k, p, s)
  BY <1>9, <1>11, <1>12, TurnedBalanced
<1>15. Clean(n, C)
  BY <1>7, <1>9, <1>11, TurnedClean
<1>16. u[x] = under[x]
  <2>1. under \in [L \cup {nil} -> SUBSET L]
    BY <1>1 DEF Shape
  <2> QED
    BY <1>3, <1>5, <1>10, <2>1 DEF Spun
<1> HIDE DEF u, k
<1>17. n.child[s][p] = x /\ n.child[o][p] = inner
  <2>1. KidsTurned(t2, n, p, s, L)
    BY <1>9, <1>11, TurnedChildren
  <2> QED
    BY <1>1, <1>8, <1>10, <2>1 DEF KidsTurned, inner, o
<1>18. /\ n.parent[w] = t.parent[p] /\ n.parent[p] = w /\ n.parent[nil] = t.parent[nil]
       /\ \A c \in L : c \notin {p, w, inner} => n.parent[c] = t.parent[c]
       /\ n.root = (IF p = t.root THEN w ELSE t.root) /\ n.color = t2.color
  <2>1. ParentsTurned(t2, n, p, s, L)
    BY <1>9, <1>11, TurnedParents
  <2> QED
    BY <1>8, <1>10, <2>1 DEF ParentsTurned, inner
<1>19. n.parent[x] = p
  <2>1. CASE x = nil
    BY <1>1, <1>18, <2>1
  <2>2. CASE x \in L
    BY <1>4, <1>13, <1>17, <1>1, <2>2, Node
  <2> QED
    BY <1>5, <2>1, <2>2
<1>20. \A d \in Cell : n.color[d] = IF d = p THEN "red" ELSE IF d = w THEN "black" ELSE t.color[d]
  BY <1>6, <1>18
<1>21. inner # p
  <2>1. \A d \in L, r \in Side : t.child[r][d] # nil => t.parent[t.child[r][d]] = d
    BY <1>1 DEF Shape
  <2>2. t.parent[inner] = w
    BY <1>1, <1>3, <1>4, <2>1 DEF inner
  <2>3. ASSUME inner = p
        PROVE  FALSE
    <3>1. under[inner] \subseteq under[w] /\ w \notin under[inner]
      BY <1>1, <1>3, Node DEF inner
    <3>2. w \in under[p]
      BY <1>1, <1>2, <1>3, Node DEF w
    <3> QED
      BY <2>3, <3>1, <3>2
  <2> QED
    BY <2>3
<1>22. n.color[inner] = "black"
  BY <1>3, <1>4, <1>20, <1>21
<1>23. /\ n.color[nil] = "black" /\ n.color[n.root] = "black" /\ n.color[x] = "black"
  BY <1>1, <1>3, <1>4, <1>5, <1>18, <1>20
<1>24. ASSUME NEW d \in L, n.color[d] = "red"
       PROVE  n.color[n.parent[d]] = "black"
  <2>1. CASE d = p
    BY <1>3, <1>4, <1>18, <1>20, <2>1
  <2>2. CASE d # p
    <3>1. d # w /\ d # inner /\ t.color[d] = "red"
      BY <1>3, <1>4, <1>20, <1>22, <1>24, <2>2
    <3>2. n.parent[d] = t.parent[d] /\ t.color[t.parent[d]] = "black"
      BY <1>1, <1>18, <2>2, <3>1
    <3>3. t.parent[d] # p
      <4> SUFFICES ASSUME t.parent[d] = p
                   PROVE  FALSE
        OBVIOUS
      <4>1. d # t.root
        BY <1>1, <1>4, <3>1
      <4>2. PICK r \in Side : t.child[r][p] = d
        BY <1>1, <4>1 DEF Shape
      <4> QED
        BY <1>1, <1>2, <1>4, <3>1, <4>2 DEF w
    <3>4. t.parent[d] \in Cell
      BY <1>4, TreeFields
    <3> QED
      BY <1>20, <3>2, <3>3, <3>4
  <2> QED
    BY <2>1, <2>2
<1>25. Lacking(n, x, L, key, u, k, p, s)
  BY <1>1, <1>13, <1>14, <1>17, <1>19, <1>23, <1>24 DEF Lacking
<1> QED
  BY <1>15, <1>16, <1>17, <1>22, <1>25 DEF n, t2, w, o

\* A black sibling with black children turns red, and the lack moves up to p.
LEMMA BlackNephews ==
    ASSUME NEW t, NEW x, NEW L, NEW key, NEW under, NEW h, NEW p, NEW s,
           Lacking(t, x, L, key, under, h, p, s), t.color[t.child[Other(s)][p]] = "black",
           \A r \in Side : t.color[t.child[r][t.child[Other(s)][p]]] = "black",
           NEW C \in SUBSET Cell, C \cap L = {}, Clean(t, C)
    PROVE  LET n == Colored(t, t.child[Other(s)][p], "red")
           IN  /\ Clean(n, C) /\ under[x] \subseteq under[p] /\ p \in under[p] /\ p \notin under[x]
               /\ \E k, q, e : Shrinking(n, p, L, key, under, k, q, e)
<1> DEFINE o == Other(s)
<1> DEFINE w == t.child[o][p]
<1> DEFINE n == Colored(t, w, "red")
<1> DEFINE q == t.parent[p]
<1> DEFINE e == SideOf(t, p)
<1> DEFINE k == [h EXCEPT ![w] = h[w] - 1, ![p] = h[p] - 1]
<1>1. /\ Shape(t, L, key, under) /\ Balanced(t, L, h, p, s)
      /\ t.color[nil] = "black" /\ t.color[t.root] = "black" /\ t.color[x] = "black"
      /\ p \in L /\ s \in Side /\ t.child[s][p] = x /\ t.parent[x] = p
      /\ \A d \in L : t.color[d] = "red" => t.color[t.parent[d]] = "black"
  BY DEF Lacking
<1>2. o \in Side /\ o # s /\ \A r \in Side : r = s \/ r = o
  BY <1>1, Sides
<1>3. /\ w \in L /\ w # x /\ w # p /\ x # p /\ t.parent[w] = p /\ x # t.root /\ w # t.root
      /\ h[x] \in Nat /\ h[w] = h[x] + 1 /\ h[p] = h[w] + Bit(t, p)
      /\ \A r \in Side : h[t.child[r][w]] = h[x]
  <2>1. Sibling(t, h, x, L, p, s)
    BY SiblingIs
  <2> QED
    BY <1>1, <1>2, <2>1 DEF Sibling
<1>4. t \in Trees /\ L \subseteq Cell /\ nil \notin L /\ nil \in Cell /\ t.root \in L \cup {nil}
      /\ "red" \in Color /\ "black" \in Color /\ "red" # "black"
  BY <1>1, Cells DEF Shape, Color
<1>5. /\ t.color[w] = "black"
      /\ \A r \in Side : t.color[t.child[r][w]] = "black"
  OBVIOUS
<1> HIDE DEF w, o
<1>6. /\ Recolored(t, n) /\ n \in Trees
      /\ \A d \in Cell : n.color[d] = IF d = w THEN "red" ELSE t.color[d]
  BY <1>3, <1>4, ColoredIs
<1> HIDE DEF n
<1>7. Shape(n, L, key, under) /\ Clean(n, C) /\ n.root = t.root /\ n.child = t.child /\ n.parent = t.parent
  BY <1>1, <1>6, RecoloredShape, RecoloredClean DEF Recolored
<1>8. /\ \A d \in L, r \in Side : t.child[r][d] \in L \cup {nil} /\ (t.child[r][d] # nil => t.parent[t.child[r][d]] = d)
      /\ \A d \in L : /\ t.parent[d] = nil <=> d = t.root
                      /\ d # t.root => t.parent[d] \in L /\ \E r \in Side : t.child[r][t.parent[d]] = d
  BY <1>1 DEF Shape
<1>9. h \in [L \cup {nil} -> Nat] /\ h[nil] = 0
      /\ \A d \in L, r \in Side : h[d] = h[t.child[r][d]] + Bit(t, d) + Short(d, r, p, s)
  BY <1>1 DEF Balanced, Counts
<1>10. h[w] - 1 \in Nat /\ h[p] - 1 \in Nat
  BY <1>3 DEF Bit
<1>11. /\ k \in [L \cup {nil} -> Nat] /\ k[w] = h[w] - 1 /\ k[p] = h[p] - 1
       /\ \A d \in L \cup {nil} : d \notin {w, p} => k[d] = h[d]
  BY <1>1, <1>3, <1>9, <1>10
<1> HIDE DEF k
\* where p hangs
<1>12. p # t.root => q \in L /\ e \in Side /\ t.child[e][q] = p /\ t.child[Other(e)][q] # p
  <2> SUFFICES ASSUME p # t.root
               PROVE  q \in L /\ e \in Side /\ t.child[e][q] = p /\ t.child[Other(e)][q] # p
    OBVIOUS
  <2>1. q \in L
    BY <1>1, <1>8
  <2>2. PICK r \in Side : t.child[r][q] = p
    BY <1>1, <1>8
  <2>3. t.child[Other(r)][q] # p
    <3>1. under[t.child[r][q]] \cap under[t.child[Other(r)][q]] = {}
      BY <1>1, <2>1, <2>2, Disjoint
    <3>2. p \in under[p]
      BY <1>1, Node
    <3> QED
      BY <2>2, <3>1, <3>2
  <2>4. e = r
    BY <2>2, <2>3 DEF SideOf, Side, Other
  <2> QED
    BY <2>1, <2>2, <2>3, <2>4
<1> HIDE DEF q, e
<1> DEFINE qq == IF p = t.root THEN nil ELSE q
<1> DEFINE ee == IF p = t.root THEN "left" ELSE e
<1>13. ASSUME NEW d \in L, NEW r \in Side
       PROVE  k[d] = k[n.child[r][d]] + Bit(n, d) + Short(d, r, qq, ee)
  <2>1. h[d] = h[t.child[r][d]] + Bit(t, d) + Short(d, r, p, s) /\ h[d] \in Nat /\ h[t.child[r][d]] \in Nat
    BY <1>8, <1>9
  <2>2. t.child[r][d] \in L \cup {nil} /\ (t.child[r][d] # nil => t.parent[t.child[r][d]] = d)
    BY <1>8
  <2>3. CASE d = w
    <3>1. t.child[r][d] # w
      BY <1>1, <2>3, Node
    <3>2. t.child[r][d] # p
      <4>1. under[t.child[r][w]] \subseteq under[w] /\ w \notin under[t.child[r][w]]
        BY <1>1, <1>3, Node
      <4>2. w \in under[p]
        <5>1. under[t.child[o][p]] \subseteq under[p] /\ w \in under[w]
          BY <1>1, <1>2, <1>3, Node
        <5> QED
          BY <5>1 DEF w
      <4> QED
        BY <2>3, <4>1, <4>2
    <3>3. k[n.child[r][d]] = h[x]
      BY <1>3, <1>7, <1>11, <2>2, <2>3, <3>1, <3>2
    <3>4. Bit(n, d) = 0
      BY <1>3, <1>4, <1>6, <2>3 DEF Bit
    <3>5. Short(d, r, qq, ee) = 0
      <4>1. d # nil /\ (d # q \/ p = t.root)
        <5> SUFFICES ASSUME p # t.root, d = q
                     PROVE  FALSE
          BY <1>4
        <5>1. t.child[e][w] = p
          BY <1>12, <2>3
        <5>2. e \in Side
          BY <1>12, <5>1
        <5>3. under[t.child[e][w]] \subseteq under[w] /\ w \notin under[t.child[e][w]]
          BY <1>1, <1>3, <5>2, Node
        <5>4. under[t.child[o][p]] \subseteq under[p] /\ w \in under[w]
          BY <1>1, <1>2, <1>3, Node
        <5> QED
          BY <5>1, <5>3, <5>4 DEF w
      <4>2. d # nil
        BY <1>4
      <4> QED
        BY <4>1, <4>2 DEF Short
    <3> QED
      BY <1>3, <1>11, <2>3, <3>3, <3>4, <3>5
  <2>4. CASE d = p
    <3>1. Short(d, r, qq, ee) = 0
      <4>1. p # t.root => q # p
        <5> SUFFICES ASSUME p # t.root
                     PROVE  q # p
          OBVIOUS
        <5>1. q \in L /\ e \in Side /\ t.child[e][q] = p
          BY <1>12
        <5> QED
          BY <1>1, <5>1, Node
      <4>2. p # nil
        BY <1>1, <1>4
      <4> QED
        BY <2>4, <4>1, <4>2 DEF Short
    <3>2. Bit(n, d) = Bit(t, d) /\ Bit(t, d) \in Nat
      BY <1>3, <1>4, <1>6, <2>4 DEF Bit
    <3>3. CASE r = s
      <4>1. k[n.child[r][d]] = h[x]
        <5>1. x \in L \cup {nil}
          BY <1>1, <2>2, <2>4, <3>3
        <5> QED
          BY <1>1, <1>3, <1>7, <1>11, <2>4, <3>3, <5>1
      <4> QED
        BY <1>3, <1>11, <2>4, <3>1, <3>2, <4>1
    <3>4. CASE r = o
      <4>1. k[n.child[r][d]] = h[w] - 1
        BY <1>7, <1>11, <2>4, <3>4 DEF w
      <4> QED
        BY <1>3, <1>11, <2>4, <3>1, <3>2, <4>1
    <3> QED
      BY <1>2, <3>3, <3>4
  <2>5. CASE d # w /\ d # p
    <3>1. k[d] = h[d] /\ Bit(n, d) = Bit(t, d) /\ Bit(t, d) \in Nat
      BY <1>4, <1>6, <1>11, <2>5 DEF Bit
    <3>2. Short(d, r, p, s) = 0
      BY <2>5 DEF Short
    <3>3. t.child[r][d] # w
      BY <1>3, <1>4, <2>2, <2>5
    <3>4. CASE t.child[r][d] = p
      <4>1. d = q /\ p # t.root
        BY <1>1, <1>4, <1>8, <2>2, <3>4 DEF q
      <4>2. r = e
        BY <1>12, <3>4, <4>1, Sides
      <4>3. Short(d, r, qq, ee) = 1
        BY <4>1, <4>2 DEF Short
      <4>4. k[n.child[r][d]] = h[t.child[r][d]] - 1
        BY <1>7, <1>11, <3>4
      <4> QED
        BY <1>10, <2>1, <3>1, <3>2, <3>4, <4>3, <4>4
    <3>5. CASE t.child[r][d] # p
      <4>1. Short(d, r, qq, ee) = 0
        <5>1. ~(d = qq /\ r = ee)
          BY <1>4, <1>12, <3>5
        <5> QED
          BY <5>1 DEF Short
      <4>2. k[n.child[r][d]] = h[t.child[r][d]]
        BY <1>7, <1>11, <2>2, <3>3, <3>5
      <4> QED
        BY <2>1, <3>1, <3>2, <4>1, <4>2
    <3> QED
      BY <3>4, <3>5
  <2> QED
    BY <2>3, <2>4, <2>5
<1> HIDE DEF qq, ee
<1>14. Balanced(n, L, k, qq, ee)
  <2>1. k[nil] = 0
    BY <1>1, <1>3, <1>4, <1>9, <1>11
  <2>2. \A d \in L : Counts(n, d, k, qq, ee)
    BY <1>13 DEF Counts
  <2> QED
    BY <1>11, <2>1, <2>2 DEF Balanced
<1>15. ASSUME NEW d \in L, n.color[d] = "red"
       PROVE  n.color[n.parent[d]] = "black" \/ d = p \/ n.parent[d] = p
  <2>1. CASE d = w
    BY <1>3, <1>7, <2>1
  <2>2. CASE d # w
    <3>1. t.color[d] = "red" /\ t.color[t.parent[d]] = "black"
      BY <1>1, <1>4, <1>6, <1>15, <2>2
    <3>2. t.parent[d] # w
      <4> SUFFICES ASSUME t.parent[d] = w
                   PROVE  FALSE
        OBVIOUS
      <4>1. PICK r \in Side : t.child[r][w] = d
        BY <1>3, <1>4, <1>8
      <4> QED
        BY <1>4, <1>5, <3>1, <4>1
    <3>3. t.parent[d] \in Cell
      BY <1>4, TreeFields
    <3> QED
      BY <1>6, <1>7, <3>1, <3>2, <3>3
  <2> QED
    BY <2>1, <2>2
<1>16. n.color[nil] = "black" /\ n.color[n.root] = "black"
  BY <1>1, <1>3, <1>4, <1>6, <1>7
<1>17. /\ ee \in Side
       /\ p = n.root => qq = nil
       /\ p # n.root => qq \in L /\ n.parent[p] = qq /\ n.child[ee][qq] = p
  BY <1>7, <1>12 DEF qq, ee, Side, q
<1>18. Shrinking(n, p, L, key, under, k, qq, ee)
  BY <1>1, <1>7, <1>14, <1>15, <1>16, <1>17 DEF Shrinking
<1>19. under[x] \subseteq under[p] /\ p \in under[p] /\ p \notin under[x]
  BY <1>1, Node
<1> QED
  BY <1>7, <1>18, <1>19 DEF n, w, o

\* A black sibling whose outer child is black and whose inner one is red: after
\* the rotation, the outer child of the new sibling is red.
LEMMA RedInnerNephew ==
    ASSUME NEW t, NEW x, NEW L, NEW key, NEW under, NEW h, NEW p, NEW s,
           Lacking(t, x, L, key, under, h, p, s), t.color[t.child[Other(s)][p]] = "black",
           t.color[t.child[Other(s)][t.child[Other(s)][p]]] = "black",
           t.color[t.child[s][t.child[Other(s)][p]]] = "red",
           NEW C \in SUBSET Cell, C \cap L = {}, Clean(t, C)
    PROVE  LET w == t.child[Other(s)][p]
               n == Rotated(Colored(Colored(t, t.child[s][w], "black"), w, "red"), w, Other(s))
           IN  /\ Clean(n, C) /\ n.color[n.child[Other(s)][p]] = "black"
               /\ n.color[n.child[Other(s)][n.child[Other(s)][p]]] = "red"
               /\ \E u, k : Lacking(n, x, L, key, u, k, p, s)
<1> DEFINE o == Other(s)
<1> DEFINE w == t.child[o][p]
<1> DEFINE v == t.child[s][w]
<1> DEFINE far == t.child[o][w]
<1> DEFINE inner == t.child[o][v]
<1> DEFINE high == t.child[s][v]
<1> DEFINE t2 == Colored(Colored(t, v, "black"), w, "red")
<1> DEFINE n == Rotated(t2, w, o)
<1>1. /\ Shape(t, L, key, under) /\ Balanced(t, L, h, p, s)
      /\ t.color[nil] = "black" /\ t.color[t.root] = "black" /\ t.color[x] = "black"
      /\ p \in L /\ s \in Side /\ t.child[s][p] = x /\ t.parent[x] = p
      /\ \A d \in L : t.color[d] = "red" => t.color[t.parent[d]] = "black"
  BY DEF Lacking
<1>2. o \in Side /\ o # s /\ (\A r \in Side : r = s \/ r = o) /\ Other(o) = s
  BY <1>1, Sides
<1>3. t \in Trees /\ L \subseteq Cell /\ nil \notin L /\ nil \in Cell /\ t.root \in L \cup {nil}
      /\ "red" \in Color /\ "black" \in Color /\ "red" # "black"
  BY <1>1, Cells DEF Shape, Color
<1>4. t.color[w] = "black" /\ t.color[far] = "black" /\ t.color[v] = "red"
  OBVIOUS
<1>5. /\ w \in L /\ w # x /\ w # p /\ x # p /\ t.parent[w] = p /\ x # t.root /\ w # t.root
      /\ h[x] \in Nat /\ h[w] = h[x] + 1
      /\ h[v] = h[x] /\ h[far] = h[x]
  <2>1. Sibling(t, h, x, L, p, s)
    BY SiblingIs
  <2> QED
    BY <1>1, <1>2, <1>4, <2>1 DEF Sibling
<1> HIDE DEF o, w, v, far, inner, high
<1>6. v \in L /\ v # w /\ t.parent[v] = w /\ v # p
  <2>1. v \in L \cup {nil} /\ v # w /\ (v # nil => t.parent[v] = w)
    BY <1>1, <1>5, Node DEF v
  <2>2. v # nil
    BY <1>1, <1>3, <1>4
  <2>3. under[v] \subseteq under[w] /\ w \notin under[v]
    BY <1>1, <1>5, Node DEF v
  <2>4. under[t.child[o][p]] \subseteq under[p] /\ w \in under[w]
    BY <1>1, <1>2, <1>5, Node
  <2>5. w \in under[p]
    BY <2>4 DEF w
  <2>6. v # p
    BY <2>3, <2>5
  <2> QED
    BY <2>1, <2>2, <2>6
<1>7. h[inner] = h[v] /\ h[high] = h[v]
  <2>1. LackStep(t, h, v, s, p, s) /\ LackStep(t, h, v, o, p, s)
    BY <1>1, <1>2, <1>6, LackSteps
  <2> QED
    BY <1>4, <1>6, <2>1 DEF LackStep, inner, high
<1>8. x \in L \cup {nil}
  BY <1>1, Node
<1>9. t.color[inner] # "red"
  <2>1. inner \in L \cup {nil} /\ (inner # nil => t.parent[inner] = v)
    BY <1>1, <1>2, <1>6, Node DEF inner
  <2> QED
    BY <1>1, <1>3, <1>4, <2>1
<1>10. /\ Recolored(t, t2) /\ t2 \in Trees
       /\ \A d \in Cell : t2.color[d] = IF d = w THEN "red" ELSE IF d = v THEN "black" ELSE t.color[d]
  BY <1>3, <1>5, <1>6, ColoredTwice
<1> HIDE DEF t2
<1>11. Shape(t2, L, key, under) /\ Clean(t2, C)
  BY <1>1, <1>10, RecoloredShape, RecoloredClean
<1>12. t2.root = t.root /\ t2.child = t.child /\ t2.parent = t.parent
  BY <1>10 DEF Recolored
<1>13. Turned(t2, n, w, o)
  BY <1>2, <1>3, <1>5, <1>10, RotatedTurns
<1> HIDE DEF n
<1>14. t2.child[Other(o)][w] = v
  BY <1>2, <1>12 DEF v
<1>15. Shape(t2, L, key, under) /\ w \in L /\ o \in Side /\ t2.child[Other(o)][w] # nil
  BY <1>2, <1>3, <1>5, <1>6, <1>11, <1>14
<1> DEFINE u == Spun(t2, under, w, o)
<1> DEFINE k == Weighed(t2, h, w, o, h[x])
<1>16. Fits(t2, L, w, o, h, h[x], p, s)
  <2>1. h \in [L \cup {nil} -> Nat] /\ h[nil] = 0 /\ h[w] \in Nat
        /\ \A d \in L : Counts(t, d, h, p, s)
    BY <1>1, <1>5 DEF Balanced
  <2>2. Bit(t2, w) = 0 /\ Bit(t2, v) = 1
    BY <1>3, <1>5, <1>6, <1>10 DEF Bit
  <2>3. \A r \in Side : Short(w, r, p, s) = 0 /\ Short(v, r, p, s) = 0
    BY <1>5, <1>6 DEF Short
  <2>4. ASSUME NEW d \in L, d \notin {w, v}
        PROVE  Counts(t2, d, h, p, s)
    <3>1. Bit(t2, d) = Bit(t, d)
      BY <1>3, <1>10, <2>4 DEF Bit
    <3> QED
      BY <1>12, <2>1, <3>1 DEF Counts
  <2> DEFINE y == t2.child[Other(o)][w]
  <2>5. y = v
    BY <1>14
  <2>6. t2.child[o][w] = far /\ t2.child[o][y] = inner /\ t2.child[Other(o)][y] = high
    BY <1>2, <1>12, <2>5 DEF inner, high, far
  <2> HIDE DEF y
  <2>7. h[x] = h[t2.child[o][w]] + Bit(t2, w) + Short(w, o, p, s)
    BY <1>2, <1>5, <2>2, <2>3, <2>6
  <2>8. h[x] = h[t2.child[o][y]] + Bit(t2, w) + Short(w, Other(o), p, s)
    BY <1>1, <1>2, <1>5, <1>7, <2>2, <2>3, <2>6
  <2>9. h[w] = h[x] + Bit(t2, y) + Short(y, o, p, s)
    BY <1>2, <1>5, <2>2, <2>3, <2>5
  <2>10. h[w] = h[t2.child[Other(o)][y]] + Bit(t2, y) + Short(y, Other(o), p, s)
    <3>1. Short(y, Other(o), p, s) = 0 /\ Bit(t2, y) = 1
      BY <1>1, <1>2, <2>2, <2>3, <2>5
    <3>2. h[t2.child[Other(o)][y]] = h[x]
      BY <1>5, <1>7, <2>6
    <3> QED
      BY <1>5, <3>1, <3>2
  <2>11. \A d \in L : d \notin {w, y} => Counts(t2, d, h, p, s)
    BY <2>4, <2>5
  <2> QED
    BY <1>5, <2>1, <2>7, <2>8, <2>9, <2>10, <2>11, Zenon DEF Fits, y
<1>17. Shape(n, L, key, u)
  BY <1>13, <1>15, TurnedShape
<1>18. Balanced(n, L, k, p, s)
  BY <1>13, <1>15, <1>16, TurnedBalanced
<1>19. Clean(n, C)
  BY <1>11, <1>13, <1>15, TurnedClean
<1> HIDE DEF u, k
<1>20. n.child[o][v] = w /\ n.child[o][p] = v /\ n.child[s][p] = x
  <2>1. KidsTurned(t2, n, w, o, L)
    BY <1>13, <1>15, TurnedChildren
  <2>2. /\ n.child[o][v] = w
        /\ \A d \in L \ {w, v}, r \in Side :
              \/ n.child[r][d] = t.child[r][d] /\ t.child[r][d] \notin {w, v}
              \/ n.child[r][d] = v /\ t.child[r][d] = w
    BY <1>12, <1>14, <2>1 DEF KidsTurned
  <2>3. t.child[o][p] = w
    BY DEF w
  <2> QED
    BY <1>1, <1>2, <1>5, <1>6, <2>2, <2>3
<1>21. /\ n.parent[v] = t.parent[w] /\ n.parent[w] = v /\ n.parent[nil] = t.parent[nil]
       /\ \A c \in L : c \notin {w, v, inner} => n.parent[c] = t.parent[c]
       /\ n.root = (IF w = t.root THEN v ELSE t.root) /\ n.color = t2.color
  <2>1. ParentsTurned(t2, n, w, o, L)
    BY <1>13, <1>15, TurnedParents
  <2> QED
    BY <1>12, <1>14, <2>1 DEF ParentsTurned, inner
<1>22. n.parent[x] = p
  <2>1. CASE x = nil
    BY <1>1, <1>21, <2>1
  <2>2. CASE x \in L
    BY <1>3, <1>17, <1>20, <1>1, <2>2, Node
  <2> QED
    BY <1>8, <2>1, <2>2
<1>23. \A d \in Cell : n.color[d] = IF d = w THEN "red" ELSE IF d = v THEN "black" ELSE t.color[d]
  BY <1>10, <1>21
<1>24. /\ n.color[nil] = "black" /\ n.color[n.root] = "black" /\ n.color[x] = "black"
       /\ n.color[v] = "black" /\ n.color[w] = "red"
  BY <1>1, <1>3, <1>5, <1>6, <1>8, <1>21, <1>23
<1>25. ASSUME NEW d \in L, n.color[d] = "red"
       PROVE  n.color[n.parent[d]] = "black"
  <2>1. CASE d = w
    BY <1>21, <1>24, <2>1
  <2>2. CASE d # w
    <3>1. d # v /\ d # inner /\ t.color[d] = "red"
      BY <1>3, <1>9, <1>23, <1>24, <1>25, <2>2
    <3>2. n.parent[d] = t.parent[d] /\ t.color[t.parent[d]] = "black"
      BY <1>1, <1>21, <2>2, <3>1
    <3>3. t.parent[d] # w
      <4> SUFFICES ASSUME t.parent[d] = w
                   PROVE  FALSE
        OBVIOUS
      <4>1. d # t.root
        BY <1>1, <1>3, <3>1
      <4>2. PICK r \in Side : t.child[r][w] = d
        BY <1>1, <4>1 DEF Shape
      <4> QED
        BY <1>2, <1>3, <1>4, <3>1, <4>2 DEF v, far
    <3>4. t.parent[d] \in Cell
      BY <1>3, TreeFields
    <3> QED
      BY <1>23, <3>2, <3>3, <3>4
  <2> QED
    BY <2>1, <2>2
<1>26. Lacking(n, x, L, key, u, k, p, s)
  BY <1>1, <1>17, <1>18, <1>20, <1>22, <1>24, <1>25 DEF Lacking
<1> QED
  BY <1>19, <1>20, <1>24, <1>26, Zenon DEF n, t2, w, o, v

\* A black sibling whose outer child is red: the rotation at p makes up for the
\* lack.
LEMMA RedOuterNephew ==
    ASSUME NEW t, NEW x, NEW L, NEW key, NEW under, NEW h, NEW p, NEW s,
           Lacking(t, x, L, key, under, h, p, s), t.color[t.child[Other(s)][p]] = "black",
           t.color[t.child[Other(s)][t.child[Other(s)][p]]] = "red",
           NEW C \in SUBSET Cell, C \cap L = {}, Clean(t, C)
    PROVE  LET w == t.child[Other(s)][p]
               n == Rotated(Colored(Colored(Colored(t, w, t.color[p]), p, "black"),
                                    t.child[Other(s)][w], "black"), p, s)
           IN  /\ Clean(n, C)
               /\ \E u, k : Shrinking(n, n.root, L, key, u, k, nil, "left")
<1> DEFINE o == Other(s)
<1> DEFINE w == t.child[o][p]
<1> DEFINE far == t.child[o][w]
<1> DEFINE inner == t.child[s][w]
<1> DEFINE t2 == Colored(Colored(Colored(t, w, t.color[p]), p, "black"), far, "black")
<1> DEFINE n == Rotated(t2, p, s)
<1>1. /\ Shape(t, L, key, under) /\ Balanced(t, L, h, p, s)
      /\ t.color[nil] = "black" /\ t.color[t.root] = "black" /\ t.color[x] = "black"
      /\ p \in L /\ s \in Side /\ t.child[s][p] = x /\ t.parent[x] = p
      /\ \A d \in L : t.color[d] = "red" => t.color[t.parent[d]] = "black"
  BY DEF Lacking
<1>2. o \in Side /\ o # s /\ (\A r \in Side : r = s \/ r = o) /\ Other(o) = s
  BY <1>1, Sides
<1>3. t \in Trees /\ L \subseteq Cell /\ nil \notin L /\ nil \in Cell /\ t.root \in L \cup {nil}
      /\ L \subseteq Address /\ "red" \in Color /\ "black" \in Color /\ "red" # "black"
  BY <1>1, Cells DEF Shape, Color
<1>4. t.color[w] = "black" /\ t.color[far] = "red"
  OBVIOUS
<1>5. /\ w \in L /\ w # x /\ w # p /\ x # p /\ t.parent[w] = p /\ x # t.root /\ w # t.root
      /\ h[x] \in Nat /\ h[w] = h[x] + 1 /\ h[p] = h[w] + Bit(t, p)
      /\ h[inner] = h[x] /\ h[far] = h[x]
  <2>1. Sibling(t, h, x, L, p, s)
    BY SiblingIs
  <2> QED
    BY <1>1, <1>2, <1>4, <2>1 DEF Sibling
<1> HIDE DEF o, w, far, inner
<1>6. far \in L /\ far # w /\ t.parent[far] = w /\ far # p /\ far # inner /\ far # x
  <2>1. far \in L \cup {nil} /\ far # w /\ (far # nil => t.parent[far] = w)
    BY <1>1, <1>2, <1>5, Node DEF far
  <2>2. far # nil
    BY <1>1, <1>3, <1>4
  <2>3. under[far] \subseteq under[w] /\ w \notin under[far]
    BY <1>1, <1>2, <1>5, Node DEF far
  <2>4. under[t.child[o][p]] \subseteq under[p] /\ w \in under[w]
    BY <1>1, <1>2, <1>5, Node
  <2>5. w \in under[p]
    BY <2>4 DEF w
  <2>6. far # p
    BY <2>3, <2>5
  <2>7. under[far] \cap under[inner] = {}
    BY <1>1, <1>2, <1>5, Disjoint DEF far, inner
  <2>8. far \in under[far]
    BY <1>1, <2>1, <2>2, Node
  <2> QED
    BY <1>1, <1>3, <1>4, <2>1, <2>2, <2>6, <2>7, <2>8
<1>7. x \in L \cup {nil} /\ inner \in L \cup {nil} /\ (inner # nil => t.parent[inner] = w)
  BY <1>1, <1>5, Node DEF inner
<1>8. t.color[p] \in Color
  BY <1>1, <1>3, TreeFields
<1>9. /\ Recolored(t, t2) /\ t2 \in Trees
      /\ \A d \in Cell : t2.color[d] = IF d \in {far, p} THEN "black" ELSE IF d = w THEN t.color[p]
                                       ELSE t.color[d]
  <2> DEFINE c == t.color[p]
  <2> DEFINE m == Colored(Colored(t, w, c), p, "black")
  <2> DEFINE m2 == Colored(m, far, "black")
  <2>1. t2 = m2 /\ c = t.color[p]
    OBVIOUS
  <2>2. c \in Color
    BY <1>8
  <2> HIDE DEF c, t2
  <2>3. /\ Recolored(t, m) /\ m \in Trees
        /\ \A d \in Cell : m.color[d] = IF d = p THEN "black" ELSE IF d = w THEN c ELSE t.color[d]
    BY <1>1, <1>3, <1>5, <2>2, ColoredTwice
  <2> HIDE DEF m
  <2>4. /\ Recolored(m, m2) /\ m2 \in Trees
        /\ \A d \in Cell : m2.color[d] = IF d = far THEN "black" ELSE m.color[d]
    BY <1>3, <1>6, <2>3, ColoredIs
  <2> HIDE DEF m2
  <2>5. /\ Recolored(t, m2) /\ m2 \in Trees
        /\ \A d \in Cell : m2.color[d] = IF d \in {far, p} THEN "black" ELSE IF d = w THEN c
                                         ELSE t.color[d]
    BY <2>3, <2>4 DEF Recolored
  <2> QED
    BY <2>1, <2>5
<1> HIDE DEF t2
<1>10. Shape(t2, L, key, under) /\ Clean(t2, C)
  BY <1>1, <1>9, RecoloredShape, RecoloredClean
<1>11. t2.root = t.root /\ t2.child = t.child /\ t2.parent = t.parent
  BY <1>9 DEF Recolored
<1>12. Turned(t2, n, p, s)
  BY <1>1, <1>3, <1>9, RotatedTurns
<1> HIDE DEF n
<1>13. t2.child[Other(s)][p] = w
  BY <1>11 DEF w, o
<1>14. Shape(t2, L, key, under) /\ p \in L /\ s \in Side /\ t2.child[Other(s)][p] # nil
  BY <1>1, <1>3, <1>5, <1>10, <1>13
<1> DEFINE g == [h EXCEPT ![far] = h[far] + 1]
<1> DEFINE u == Spun(t2, under, p, s)
<1> DEFINE k == Weighed(t2, g, p, s, h[w])
<1>15. /\ h \in [L \cup {nil} -> Nat] /\ h[nil] = 0
       /\ \A d \in L, r \in Side : /\ LackStep(t, h, d, r, p, s)
                                   /\ t.child[r][d] \in L \cup {nil}
                                   /\ t.child[r][d] # nil => t.parent[t.child[r][d]] = d
  <2>1. h \in [L \cup {nil} -> Nat] /\ h[nil] = 0
    BY <1>1 DEF Balanced
  <2>2. \A d \in L, r \in Side : LackStep(t, h, d, r, p, s)
    BY <1>1, LackSteps
  <2>3. \A d \in L, r \in Side : /\ t.child[r][d] \in L \cup {nil}
                                 /\ t.child[r][d] # nil => t.parent[t.child[r][d]] = d
    BY <1>1 DEF Shape
  <2> QED
    BY <2>1, <2>2, <2>3
<1>16. /\ g \in [L \cup {nil} -> Nat] /\ g[far] = h[far] + 1
       /\ \A d \in L \cup {nil} : d # far => g[d] = h[d]
  BY <1>5, <1>6, <1>15
<1> HIDE DEF g
<1>17. Fits(t2, L, p, s, g, h[w], nil, "left")
  <2>1. g[nil] = 0 /\ h[w] \in Nat
    BY <1>3, <1>5, <1>6, <1>15, <1>16
  <2>2. Bit(t2, p) = 1 /\ Bit(t2, w) = Bit(t, p) /\ Bit(t, p) \in Nat
    BY <1>1, <1>3, <1>5, <1>6, <1>9 DEF Bit
  <2>3. \A d \in L, r \in Side : Short(d, r, nil, "left") = 0
    BY <1>3, PlainCounts
  <2>4. ASSUME NEW d \in L, d \notin {p, w}, NEW r \in Side
        PROVE  g[d] = g[t2.child[r][d]] + Bit(t2, d) + 0
    <3>1. LackStep(t, h, d, r, p, s)
      BY <1>15
    <3>2. t.child[r][d] # far
      BY <1>3, <1>6, <1>15, <2>4
    <3>3. g[t2.child[r][d]] = h[t.child[r][d]]
      BY <1>11, <1>15, <1>16, <3>2
    <3>4. CASE d = far
      <4>1. h[d] = h[t.child[r][d]] /\ h[d] \in Nat
        BY <1>4, <1>6, <3>1, <3>4 DEF LackStep
      <4>2. Bit(t2, d) = 1
        BY <1>3, <1>6, <1>9, <3>4 DEF Bit
      <4> QED
        BY <1>16, <3>3, <3>4, <4>1, <4>2
    <3>5. CASE d # far
      <4>1. t2.color[d] = t.color[d] /\ t.color[d] \in Color
        BY <1>3, <1>9, <2>4, <3>5, TreeFields
      <4>2. h[d] = h[t.child[r][d]] + Bit(t2, d) /\ h[d] \in Nat /\ h[t.child[r][d]] \in Nat
        BY <1>3, <2>4, <3>1, <4>1 DEF LackStep, Bit, Color
      <4> QED
        BY <1>16, <3>3, <3>5, <4>2
    <3> QED
      BY <3>4, <3>5
  <2> DEFINE y == t2.child[Other(s)][p]
  <2>5. y = w
    BY <1>13
  <2>6. t2.child[s][p] = x /\ t2.child[s][y] = inner /\ t2.child[Other(s)][y] = far
    BY <1>1, <1>11, <2>5 DEF inner, far, o
  <2>7. g[x] = h[x] /\ g[inner] = h[x] /\ g[p] = h[p] /\ g[far] = h[x] + 1
    BY <1>1, <1>5, <1>6, <1>7, <1>16
  <2> HIDE DEF y
  <2>8. h[w] = g[t2.child[s][p]] + Bit(t2, p) + Short(p, s, nil, "left")
    BY <1>1, <1>5, <2>2, <2>3, <2>6, <2>7
  <2>9. h[w] = g[t2.child[s][y]] + Bit(t2, p) + Short(p, Other(s), nil, "left")
    <3>1. Short(p, Other(s), nil, "left") = 0
      BY <1>1, <1>2, <2>3 DEF o
    <3> QED
      BY <1>5, <2>2, <2>6, <2>7, <3>1
  <2>10. g[p] = h[w] + Bit(t2, y) + Short(y, s, nil, "left")
    BY <1>1, <1>5, <2>1, <2>2, <2>3, <2>5, <2>7
  <2>11. g[p] = g[t2.child[Other(s)][y]] + Bit(t2, y) + Short(y, Other(s), nil, "left")
    <3>1. Short(y, Other(s), nil, "left") = 0
      BY <1>2, <1>5, <2>3, <2>5 DEF o
    <3>2. g[t2.child[Other(s)][y]] = h[w] /\ Bit(t2, y) = Bit(t, p)
      BY <1>5, <2>2, <2>5, <2>6, <2>7
    <3> QED
      BY <1>5, <2>1, <2>2, <2>7, <3>1, <3>2
  <2>12. \A d \in L : d \notin {p, y} => Counts(t2, d, g, nil, "left")
    BY <1>3, <2>4, <2>5, PlainCounts
  <2> QED
    BY <1>16, <2>1, <2>8, <2>9, <2>10, <2>11, <2>12 DEF Fits, y
<1>18. Shape(n, L, key, u)
  BY <1>12, <1>14, TurnedShape
<1>19. Balanced(n, L, k, nil, "left")
  BY <1>12, <1>14, <1>17, TurnedBalanced
<1>20. Clean(n, C)
  BY <1>10, <1>12, <1>14, TurnedClean
<1> HIDE DEF u, k
<1>21. /\ n.parent[w] = t.parent[p] /\ n.parent[p] = w /\ (inner # nil => n.parent[inner] = p)
       /\ \A c \in L : c \notin {p, w, inner} => n.parent[c] = t.parent[c]
       /\ n.root = (IF p = t.root THEN w ELSE t.root) /\ n.color = t2.color
  <2>1. ParentsTurned(t2, n, p, s, L)
    BY <1>12, <1>14, TurnedParents
  <2> QED
    BY <1>11, <1>13, <2>1 DEF ParentsTurned, inner
<1>22. \A d \in Cell : n.color[d] = IF d \in {far, p} THEN "black" ELSE IF d = w THEN t.color[p]
                                     ELSE t.color[d]
  BY <1>9, <1>21
<1>23. t.parent[p] # w /\ t.parent[p] \in Cell
  <2>1. ASSUME t.parent[p] = w
        PROVE  FALSE
    <3>1. p # t.root
      BY <1>1, <1>3, <1>5, <2>1 DEF Shape
    <3>2. PICK r \in Side : t.child[r][w] = p
      BY <1>1, <2>1, <3>1 DEF Shape
    <3>3. under[p] \subseteq under[w] /\ w \notin under[p]
      BY <1>1, <1>5, <3>2, Node
    <3>4. under[t.child[o][p]] \subseteq under[p] /\ w \in under[w]
      BY <1>1, <1>2, <1>5, Node
    <3> QED
      BY <3>3, <3>4 DEF w
  <2> QED
    BY <1>1, <1>3, <2>1, TreeFields
<1>24. ASSUME NEW d \in L, n.color[d] = "red"
       PROVE  n.color[n.parent[d]] = "black"
  <2>1. d # p /\ d # far
    BY <1>3, <1>22, <1>24
  <2>2. CASE d = w
    <3>1. t.color[p] = "red"
      BY <1>3, <1>22, <1>24, <2>1, <2>2
    <3>2. t.color[t.parent[p]] = "black"
      BY <1>1, <3>1
    <3> QED
      BY <1>21, <1>22, <1>23, <2>2, <3>2
  <2>3. CASE d = inner
    <3>1. n.parent[d] = p
      BY <1>3, <1>21, <2>3
    <3> QED
      BY <1>1, <1>3, <1>22, <3>1
  <2>4. CASE d # w /\ d # inner
    <3>1. t.color[d] = "red" /\ n.parent[d] = t.parent[d] /\ t.color[t.parent[d]] = "black"
      BY <1>1, <1>3, <1>21, <1>22, <1>24, <2>1, <2>4
    <3>2. t.parent[d] # w
      <4> SUFFICES ASSUME t.parent[d] = w
                   PROVE  FALSE
        OBVIOUS
      <4>1. d # t.root
        BY <1>1, <1>3, <3>1
      <4>2. PICK r \in Side : t.child[r][w] = d
        BY <1>1, <4>1 DEF Shape
      <4> QED
        BY <1>2, <2>1, <2>4, <4>2 DEF far, inner
    <3>3. t.parent[d] \in Cell
      BY <1>3, TreeFields
    <3> QED
      BY <1>22, <3>1, <3>2, <3>3
  <2> QED
    BY <2>2, <2>3, <2>4
<1>25. n.color[nil] = "black"
  BY <1>1, <1>3, <1>5, <1>6, <1>22
<1>26. n.root \in L \cup {nil} /\ "left" \in Side
  BY <1>18 DEF Shape, Side
<1>27. Shrinking(n, n.root, L, key, u, k, nil, "left")
  BY <1>18, <1>19, <1>24, <1>25, <1>26 DEF Shrinking
<1> QED
  BY <1>20, <1>27 DEF n, t2, w, o, far

\* A black x that is not the root lacks a black node.
LEMMA RoundBegins ==
    ASSUME NEW t, NEW x, NEW L, NEW key, NEW under, NEW h, NEW q, NEW e,
           Shrinking(t, x, L, key, under, h, q, e), x # t.root, t.color[x] = "black"
    PROVE  /\ Lacking(t, x, L, key, under, h, q, e) /\ t.parent[x] = q
           /\ e = IF x = t.child["left"][q] THEN "left" ELSE "right"
<1>1. /\ Shape(t, L, key, under) /\ Balanced(t, L, h, q, e) /\ t.color[nil] = "black"
      /\ x \in L \cup {nil} /\ e \in Side
      /\ q \in L /\ t.parent[x] = q /\ t.child[e][q] = x
      /\ t.color[t.root] = "black"
      /\ \A d \in L : t.color[d] = "red" => t.color[t.parent[d]] = "black" \/ d = x \/ t.parent[d] = x
  BY DEF Shrinking
<1>2. \A d \in L : t.color[d] = "red" => t.color[t.parent[d]] = "black"
  BY <1>1
<1>3. Lacking(t, x, L, key, under, h, q, e)
  BY <1>1, <1>2 DEF Lacking
<1>4. t.child[Other(e)][q] # x
  <2>1. Sibling(t, h, x, L, q, e)
    BY <1>3, SiblingIs
  <2> QED
    BY <2>1 DEF Sibling
<1>5. e = IF x = t.child["left"][q] THEN "left" ELSE "right"
  BY <1>1, <1>4 DEF Side, Other
<1> QED
  BY <1>1, <1>3, <1>5

\* A round: what it keeps, and that it climbs or is the last one.
LEMMA DeleteRoundStep ==
    ASSUME NEW t, NEW x, NEW L, NEW key, NEW under, NEW h, NEW q, NEW e,
           Shrinking(t, x, L, key, under, h, q, e), x # t.root, t.color[x] = "black",
           NEW C \in SUBSET Cell, C \cap L = {}, Clean(t, C)
    PROVE  LET r == DeleteRound(t, x)
           IN  /\ Clean(r.tree, C)
               /\ \E u, k, a, b :
                     /\ Shrinking(r.tree, r.at, L, key, u, k, a, b)
                     /\ \/ r.at = r.tree.root
                        \/ under[x] \subseteq u[r.at] /\ r.at \in u[r.at] /\ r.at \notin under[x]
<1> DEFINE p == t.parent[x]
<1> DEFINE s == IF x = t.child["left"][p] THEN "left" ELSE "right"
<1> DEFINE o == Other(s)
<1> DEFINE w0 == t.child[o][p]
<1> DEFINE turned == Rotated(Colored(Colored(t, w0, "black"), p, "red"), p, s)
<1> DEFINE t1 == IF t.color[w0] = "red" THEN turned ELSE t
<1> DEFINE w1 == t1.child[o][p]
<1> DEFINE t2 == IF t1.color[t1.child[o][w1]] = "black"
                 THEN Rotated(Colored(Colored(t1, t1.child[s][w1], "black"), w1, "red"), w1, o)
                 ELSE t1
<1> DEFINE w2 == t2.child[o][p]
<1> DEFINE t3 == Colored(Colored(Colored(t2, w2, t2.color[p]), p, "black"), t2.child[o][w2], "black")
<1> DEFINE t4 == Rotated(t3, p, s)
<1> DEFINE r == DeleteRound(t, x)
<1>1. r = IF \A c \in Side : t1.color[t1.child[c][w1]] = "black"
          THEN [tree |-> Colored(t1, w1, "red"), at |-> p]
          ELSE [tree |-> t4, at |-> t4.root]
  BY Zenon DEF DeleteRound
<1>2. Lacking(t, x, L, key, under, h, p, s)
  BY RoundBegins
<1> HIDE DEF r, p, s
<1>3. /\ Clean(t1, C) /\ t1.color[w1] = "black"
      /\ \E u, k : Lacking(t1, x, L, key, u, k, p, s) /\ u[x] = under[x]
  <2>1. CASE t.color[w0] = "red"
    <3>1. /\ Clean(turned, C) /\ turned.color[turned.child[o][p]] = "black"
          /\ \E u, k : Lacking(turned, x, L, key, u, k, p, s) /\ u[x] = under[x]
      BY <1>2, <2>1, RedSibling
    <3>2. t1 = turned
      BY <2>1
    <3> HIDE DEF turned, t1
    <3> QED
      BY <3>1, <3>2
  <2>2. CASE t.color[w0] # "red"
    <3>1. t1 = t
      BY <2>2
    <3>2. t.color[w0] = "black"
      <4>1. Sibling(t, h, x, L, p, s)
        BY <1>2, SiblingIs
      <4>2. w0 \in L
        BY <4>1 DEF Sibling
      <4>3. t \in Trees /\ L \subseteq Cell
        BY <1>2, Cells DEF Lacking, Shape
      <4> QED
        BY <2>2, <4>2, <4>3, TreeFields DEF Color
    <3> HIDE DEF t1
    <3> QED
      BY <1>2, <3>1, <3>2
  <2> QED
    BY <2>1, <2>2, Zenon
<1> HIDE DEF t1
<1>4. PICK u, k : Lacking(t1, x, L, key, u, k, p, s) /\ u[x] = under[x]
  BY <1>3
<1>5. CASE \A c \in Side : t1.color[t1.child[c][w1]] = "black"
  <2> DEFINE n == Colored(t1, w1, "red")
  <2>1. /\ Clean(n, C) /\ u[x] \subseteq u[p] /\ p \in u[p] /\ p \notin u[x]
        /\ \E j, a, b : Shrinking(n, p, L, key, u, j, a, b)
    BY <1>3, <1>4, <1>5, BlackNephews
  <2>2. r.tree = n /\ r.at = p
    BY <1>1, <1>5, Zenon
  <2> HIDE DEF n
  <2> QED
    BY <1>4, <2>1, <2>2 DEF r
<1>6. CASE ~ \A c \in Side : t1.color[t1.child[c][w1]] = "black"
  <2>1. s \in Side /\ o \in Side /\ \A c \in Side : c = s \/ c = o
    BY <1>2, Sides DEF Lacking
  <2>2. \A c \in Side : t1.color[t1.child[c][w1]] = "red" \/ t1.color[t1.child[c][w1]] = "black"
    <3>1. Sibling(t1, k, x, L, p, s)
      BY <1>4, SiblingIs
    <3>2. w1 \in L
      BY <3>1 DEF Sibling
    <3>3. Shape(t1, L, key, u) /\ t1 \in Trees /\ L \subseteq Cell /\ nil \in Cell
      BY <1>4, Cells DEF Lacking, Shape
    <3> HIDE DEF w1
    <3>4. \A c \in Side : t1.child[c][w1] \in Cell
      BY <3>2, <3>3, TreeFields
    <3> QED
      BY <3>3, <3>4, TreeFields DEF Color
  <2>3. /\ Clean(t2, C) /\ t2.color[w2] = "black" /\ t2.color[t2.child[o][w2]] = "red"
        /\ \E v, j : Lacking(t2, x, L, key, v, j, p, s)
    <3>1. CASE t1.color[t1.child[o][w1]] = "black"
      <4> DEFINE n == Rotated(Colored(Colored(t1, t1.child[s][w1], "black"), w1, "red"), w1, o)
      <4>1. t1.color[t1.child[s][w1]] = "red"
        BY <1>6, <2>1, <2>2, <3>1, Zenon
      <4>2. /\ Clean(n, C) /\ n.color[n.child[o][p]] = "black"
            /\ n.color[n.child[o][n.child[o][p]]] = "red"
            /\ \E v, j : Lacking(n, x, L, key, v, j, p, s)
        <5>1. Lacking(t1, x, L, key, u, k, p, s) /\ t1.color[w1] = "black" /\ Clean(t1, C)
          BY <1>3, <1>4
        <5> QED
          BY <3>1, <4>1, <5>1, RedInnerNephew, Zenon DEF w1, o
      <4>3. t2 = n
        BY <3>1
      <4> HIDE DEF t2, n
      <4> QED
        BY <4>2, <4>3
    <3>2. CASE t1.color[t1.child[o][w1]] # "black"
      <4>1. t2 = t1 /\ t1.color[t1.child[o][w1]] = "red"
        BY <2>1, <2>2, <3>2
      <4> HIDE DEF t2
      <4> QED
        BY <1>3, <1>4, <4>1
    <3> QED
      BY <3>1, <3>2, Zenon
  <2> HIDE DEF t2
  <2>4. PICK v, j : Lacking(t2, x, L, key, v, j, p, s)
    BY <2>3
  <2>5. /\ Clean(t4, C)
        /\ \E a, b : Shrinking(t4, t4.root, L, key, a, b, nil, "left")
    BY <2>3, <2>4, RedOuterNephew
  <2>6. r.tree = t4 /\ r.at = t4.root
    BY <1>1, <1>6
  <2> HIDE DEF t4
  <2> QED
    BY <2>5, <2>6 DEF r
<1> QED
  BY <1>5, <1>6

LEMMA DeleteRoundType ==
    ASSUME NEW t \in Trees, NEW x \in Cell
    PROVE  DeleteRound(t, x) \in State
<1> DEFINE p == t.parent[x]
<1> DEFINE s == IF x = t.child["left"][p] THEN "left" ELSE "right"
<1> DEFINE o == Other(s)
<1> DEFINE w0 == t.child[o][p]
<1> DEFINE t1 == IF t.color[w0] = "red"
                 THEN Rotated(Colored(Colored(t, w0, "black"), p, "red"), p, s) ELSE t
<1> DEFINE w1 == t1.child[o][p]
<1> DEFINE t2 == IF t1.color[t1.child[o][w1]] = "black"
                 THEN Rotated(Colored(Colored(t1, t1.child[s][w1], "black"), w1, "red"), w1, o)
                 ELSE t1
<1> DEFINE w2 == t2.child[o][p]
<1> DEFINE t3 == Colored(Colored(Colored(t2, w2, t2.color[p]), p, "black"), t2.child[o][w2], "black")
<1> DEFINE t4 == Rotated(t3, p, s)
<1> DEFINE t5 == Colored(t1, w1, "red")
<1> DEFINE r == DeleteRound(t, x)
<1>1. r = IF \A c \in Side : t1.color[t1.child[c][w1]] = "black"
          THEN [tree |-> t5, at |-> p] ELSE [tree |-> t4, at |-> t4.root]
  BY Zenon DEF DeleteRound
<1>2. p \in Cell /\ "red" \in Color /\ "black" \in Color
  BY TreeFields DEF Color
<1>3. s \in Side /\ o \in Side
  BY Sides DEF Side
<1> HIDE DEF r, p, s, o
<1>4. w0 \in Cell
  BY <1>2, <1>3, TreeFields
<1> HIDE DEF w0
<1>5. t1 \in Trees
  BY <1>2, <1>3, <1>4, ColoredType, RotatedType
<1> HIDE DEF t1
<1>6. w1 \in Cell
  BY <1>2, <1>3, <1>5, TreeFields
<1> HIDE DEF w1
<1>7. t1.child[s][w1] \in Cell
  BY <1>3, <1>5, <1>6, TreeFields
<1>8. t2 \in Trees
  BY <1>2, <1>3, <1>5, <1>6, <1>7, ColoredType, RotatedType
<1> HIDE DEF t2
<1>9. w2 \in Cell /\ t2.color[p] \in Color
  BY <1>2, <1>3, <1>8, TreeFields
<1> HIDE DEF w2
<1>10. t2.child[o][w2] \in Cell
  BY <1>3, <1>8, <1>9, TreeFields
<1>11. t3 \in Trees
  BY <1>2, <1>8, <1>9, <1>10, ColoredType
<1> HIDE DEF t3
<1>12. t4 \in Trees /\ t4.root \in Cell
  <2>1. t4 \in Trees
    BY <1>2, <1>3, <1>11, RotatedType
  <2> HIDE DEF t4
  <2> QED
    BY <2>1, TreeFields
<1> HIDE DEF t4
<1>13. t5 \in Trees
  BY <1>2, <1>5, <1>6, ColoredType
<1> HIDE DEF t5
<1>14. r \in State
  BY <1>1, <1>2, <1>12, <1>13 DEF State
<1> QED
  BY <1>14 DEF r

\* rbtree_delete_fixup makes a tree with one black node too few below x a tree
\* at rest.
LEMMA DeleteFixupSettles ==
    ASSUME NEW t, NEW x, NEW L, NEW key, NEW under, NEW h, NEW q, NEW e,
           Shrinking(t, x, L, key, under, h, q, e), L # Address,
           NEW C \in SUBSET Cell, C \cap L = {}, Clean(t, C)
    PROVE  /\ Clean(DeleteFixup(t, x), C)
           /\ \E u, k : Settled(DeleteFixup(t, x), L, key, u, k)
<1> DEFINE Busy(l) == l.at # l.tree.root /\ l.tree.color[l.at] = "black"
<1> DEFINE Step(l) == IF Busy(l) THEN DeleteRound(l.tree, l.at) ELSE l
<1> DEFINE start == [tree |-> t, at |-> x]
<1> DEFINE Loop(f) == f = [n \in 0 .. MaxNodes |-> IF n = 0 THEN start ELSE Step(f[n - 1])]
<1> DEFINE after == CHOOSE f : Loop(f)
<1> DEFINE end == after[MaxNodes]
<1>1. t \in Trees /\ x \in Cell /\ L \subseteq Address /\ L \subseteq Cell /\ nil \notin L
  BY Cells DEF Shrinking, Shape
<1>2. DeleteFixup(t, x) = Colored(end.tree, end.at, "black")
  BY DEF DeleteFixup
<1>3. start \in State
  BY <1>1 DEF State
<1> DEFINE F == [l \in State |-> Step(l)]
<1>4. F \in [State -> State]
  <2> SUFFICES ASSUME NEW l \in State
               PROVE  Step(l) \in State
    OBVIOUS
  <2>1. l.tree \in Trees /\ l.at \in Cell
    BY DEF State
  <2> QED
    BY <2>1, DeleteRoundType
<1> HIDE DEF start, Busy
<1>5. \E f : Loop(f)
  <2> HIDE DEF F
  <2>1. PICK f \in [0 .. MaxNodes -> State] :
             f[0] = start /\ \A n \in 1 .. MaxNodes : f[n] = F[f[n - 1]]
    BY <1>3, <1>4, Iteration
  <2>2. ASSUME NEW n \in 0 .. MaxNodes
        PROVE  f[n] = IF n = 0 THEN start ELSE Step(f[n - 1])
    <3>1. CASE n = 0
      BY <2>1, <3>1
    <3>2. CASE n # 0
      <4>1. n \in 1 .. MaxNodes /\ n - 1 \in 0 .. MaxNodes
        BY <3>2, BoundAssumption
      <4>2. f[n - 1] \in State
        BY <4>1
      <4> HIDE DEF Step
      <4>3. F[f[n - 1]] = Step(f[n - 1])
        BY <4>2 DEF F
      <4> QED
        BY <2>1, <3>2, <4>1, <4>3
    <3> QED
      BY <3>1, <3>2
  <2> HIDE DEF Step
  <2>3. Loop(f)
    BY <2>2
  <2> QED
    BY <2>3
<1>6. Loop(after)
  <2> HIDE DEF Loop
  <2> QED
    BY <1>5
<1> HIDE DEF after, F
<1>7. after[0] = start
  <2> HIDE DEF Step
  <2> QED
    BY <1>6, BoundAssumption
<1>8. \A n \in 1 .. MaxNodes : after[n] = Step(after[n - 1])
  <2> HIDE DEF Step
  <2> QED
    BY <1>6, BoundAssumption
<1> DEFINE Good(l, n) ==
       /\ Clean(l.tree, C)
       /\ \E u, k, a, b : /\ Shrinking(l.tree, l.at, L, key, u, k, a, b)
                          /\ Busy(l) => n <= Cardinality(u[l.at])
<1>9. \A n \in 0 .. MaxNodes : n \in {m \in 0 .. MaxNodes : Good(after[m], m)}
  <2> DEFINE S == {m \in 0 .. MaxNodes : Good(after[m], m)}
  <2>1. 0 \in S
    <3>1. under[x] \in SUBSET L
      BY DEF Shrinking, Shape
    <3>2. IsFiniteSet(under[x]) /\ Cardinality(under[x]) \in Nat
      BY <1>1, <3>1, SomeAreFinite
    <3>3. 0 <= Cardinality(under[x])
      BY <3>2
    <3>4. start.tree = t /\ start.at = x
      BY DEF start
    <3>5. Good(start, 0)
      BY <3>3, <3>4
    <3> HIDE DEF Good
    <3> QED
      BY <1>7, <3>5, BoundAssumption
  <2>2. ASSUME NEW n \in 1 .. MaxNodes, n - 1 \in S
        PROVE  n \in S
    <3> DEFINE l == after[n - 1]
    <3>1. Good(l, n - 1) /\ n \in Nat /\ n - 1 \in Nat
      BY <2>2, BoundAssumption
    <3>2. after[n] = Step(l)
      BY <1>8
    <3> HIDE DEF l
    <3>3. PICK u, k, a, b : /\ Shrinking(l.tree, l.at, L, key, u, k, a, b)
                            /\ Busy(l) => n - 1 <= Cardinality(u[l.at])
      BY <3>1
    <3>4. Clean(l.tree, C)
      BY <3>1
    <3>5. CASE ~Busy(l)
      <4>1. Good(l, n)
        BY <3>3, <3>4, <3>5
      <4> HIDE DEF Good
      <4> QED
        BY <3>2, <3>5, <4>1
    <3>6. CASE Busy(l)
      <4> DEFINE r == DeleteRound(l.tree, l.at)
      <4> DEFINE Climbs(v) == /\ u[l.at] \subseteq v[r.at]
                              /\ r.at \in v[r.at] /\ r.at \notin u[l.at]
      <4>1. /\ Clean(r.tree, C)
            /\ \E v, j, c, d : /\ Shrinking(r.tree, r.at, L, key, v, j, c, d)
                               /\ r.at = r.tree.root \/ Climbs(v)
        BY <3>3, <3>4, <3>6, DeleteRoundStep DEF Busy
      <4>2. after[n] = r
        BY <3>2, <3>6
      <4> HIDE DEF r
      <4>3. PICK v, j, c, d : /\ Shrinking(r.tree, r.at, L, key, v, j, c, d)
                              /\ r.at = r.tree.root \/ Climbs(v)
        BY <4>1
      <4>4. ASSUME Busy(r)
            PROVE  n <= Cardinality(v[r.at])
        <5>1. u[l.at] \subseteq v[r.at] /\ r.at \in v[r.at] /\ r.at \notin u[l.at]
          BY <4>3, <4>4 DEF Busy
        <5>2. v[r.at] \in SUBSET L
          BY <4>3 DEF Shrinking, Shape
        <5>3. IsFiniteSet(v[r.at])
          BY <1>1, <5>2, SomeAreFinite
        <5>4. /\ Cardinality(u[l.at]) <= Cardinality(v[r.at])
              /\ Cardinality(u[l.at]) = Cardinality(v[r.at]) => v[r.at] = u[l.at]
              /\ IsFiniteSet(u[l.at])
          BY <5>1, <5>3, FS_Subset
        <5>5. Cardinality(u[l.at]) \in Nat /\ Cardinality(v[r.at]) \in Nat
          BY <5>3, <5>4, FS_CardinalityType
        <5>6. Cardinality(u[l.at]) # Cardinality(v[r.at])
          BY <5>1, <5>4
        <5>7. n - 1 <= Cardinality(u[l.at])
          BY <3>3, <3>6
        <5> QED
          BY <3>1, <5>4, <5>5, <5>6, <5>7
      <4>5. Good(r, n)
        BY <4>1, <4>3, <4>4
      <4> HIDE DEF Good
      <4> QED
        BY <4>2, <4>5
    <3> QED
      BY <3>5, <3>6
  <2> HIDE DEF S, Good
  <2>3. \A n \in 0 .. MaxNodes : n \in S
    BY <2>1, <2>2, Rounds
  <2> QED
    BY <2>3 DEF S
<1>10. Good(end, MaxNodes)
  <2> HIDE DEF Good
  <2>1. MaxNodes \in 0 .. MaxNodes
    BY BoundAssumption
  <2> QED
    BY <1>9, <2>1
<1> HIDE DEF end
<1>11. PICK u, k, a, b : /\ Shrinking(end.tree, end.at, L, key, u, k, a, b)
                         /\ Busy(end) => MaxNodes <= Cardinality(u[end.at])
  BY <1>10
<1>12. Clean(end.tree, C)
  BY <1>10
<1> HIDE DEF Good
<1>13. ~Busy(end)
  <2>1. u[end.at] \in SUBSET L
    BY <1>11 DEF Shrinking, Shape
  <2>2. IsFiniteSet(L) /\ Cardinality(L) < MaxNodes
    BY <1>1, SomeAreFinite
  <2>3. Cardinality(u[end.at]) <= Cardinality(L) /\ Cardinality(L) \in Nat
        /\ Cardinality(u[end.at]) \in Nat
    BY <2>1, <2>2, FS_Subset, FS_CardinalityType
  <2> QED
    BY <1>11, <2>2, <2>3, BoundAssumption
<1>14. end.at = end.tree.root \/ end.tree.color[end.at] = "red"
  <2>1. end.tree \in Trees /\ end.at \in Cell
    BY <1>11, Cells DEF Shrinking, Shape
  <2> QED
    BY <1>13, <2>1, TreeFields DEF Busy, Color
<1>15. /\ Clean(Colored(end.tree, end.at, "black"), C)
       /\ \E j : Settled(Colored(end.tree, end.at, "black"), L, key, u, j)
  BY <1>11, <1>12, <1>14, Blackened
<1> QED
  BY <1>2, <1>15

-------------------------------------------------------------------------------
\* The recursive functions of the code go from node to node until they stop.
\* There is such a function when some rank falls with every move.
Follows(f, D, stop, base, next, step) ==
    f = [x \in D |-> IF x \in stop THEN base[x] ELSE step[<<x, f[next[x]]>>]]

LEMMA Recursion ==
    ASSUME NEW D, NEW X, NEW stop \in SUBSET D, NEW base \in [D -> X],
           NEW next \in [D \ stop -> D], NEW step \in [D \X X -> X],
           NEW rank \in [D -> 0 .. MaxNodes], \A x \in D \ stop : rank[next[x]] < rank[x]
    PROVE  \E f \in [D -> X] : Follows(f, D, stop, base, next, step)
<1> DEFINE Low(m) == {x \in D : rank[x] <= m}
<1> DEFINE Right(f, x) == f[x] = IF x \in stop THEN base[x] ELSE step[<<x, f[next[x]]>>]
<1> DEFINE S == {m \in 0 .. MaxNodes : \E f \in [Low(m) -> X] : \A x \in Low(m) : Right(f, x)}
<1>1. \A x \in D : rank[x] \in 0 .. MaxNodes /\ rank[x] \in Nat
  <2>1. \A n \in 0 .. MaxNodes : n \in Nat
    BY BoundAssumption
  <2> QED
    BY <2>1
<1>2. 0 \in S
  <2> DEFINE f == [x \in Low(0) |-> base[x]]
  <2>1. \A x \in Low(0) : x \in stop
    <3> SUFFICES ASSUME NEW x \in Low(0), x \notin stop
                 PROVE  FALSE
      OBVIOUS
    <3>1. next[x] \in D /\ rank[next[x]] < rank[x] /\ rank[x] <= 0
      OBVIOUS
    <3>2. rank[next[x]] \in Nat /\ rank[x] \in Nat
      BY <1>1, <3>1
    <3> QED
      BY <3>1, <3>2
  <2>2. f \in [Low(0) -> X] /\ \A x \in Low(0) : Right(f, x)
    BY <2>1
  <2>3. 0 \in 0 .. MaxNodes
    BY BoundAssumption
  <2> QED
    BY <2>2, <2>3
<1>3. ASSUME NEW m \in 1 .. MaxNodes, m - 1 \in S
      PROVE  m \in S
  <2>1. m \in Nat /\ m - 1 \in Nat /\ m \in 0 .. MaxNodes
    BY BoundAssumption
  <2>2. PICK g \in [Low(m - 1) -> X] : \A x \in Low(m - 1) : Right(g, x)
    BY <1>3
  <2> DEFINE f == [x \in Low(m) |-> IF x \in Low(m - 1) THEN g[x]
                                    ELSE IF x \in stop THEN base[x] ELSE step[<<x, g[next[x]]>>]]
  <2>3. \A x \in Low(m) : x \notin stop => next[x] \in Low(m - 1)
    <3> TAKE x \in Low(m)
    <3> HAVE x \notin stop
    <3>1. next[x] \in D /\ rank[next[x]] < rank[x] /\ rank[x] <= m
      OBVIOUS
    <3>2. rank[next[x]] \in Nat /\ rank[x] \in Nat
      BY <1>1, <3>1
    <3>3. rank[next[x]] <= m - 1
      BY <2>1, <3>1, <3>2
    <3> QED
      BY <3>1, <3>3
  <2>4. \A x \in Low(m - 1) : x \in Low(m) /\ f[x] = g[x]
    <3> TAKE x \in Low(m - 1)
    <3>1. rank[x] <= m - 1 /\ rank[x] \in Nat
      BY <1>1
    <3>2. rank[x] <= m
      BY <2>1, <3>1
    <3> QED
      BY <3>2
  <2>5. f \in [Low(m) -> X]
    <3> SUFFICES ASSUME NEW x \in Low(m)
                 PROVE  f[x] \in X
      OBVIOUS
    <3>1. x \in Low(m - 1) => g[x] \in X
      OBVIOUS
    <3>2. x \notin stop => g[next[x]] \in X
      BY <2>3
    <3>3. x \in D
      OBVIOUS
    <3> HIDE DEF Low
    <3> QED
      BY <3>1, <3>2, <3>3
  <2>6. ASSUME NEW x \in Low(m)
        PROVE  Right(f, x)
    <3>1. x \notin stop => f[next[x]] = g[next[x]]
      BY <2>3, <2>4
    <3>2. x \in Low(m - 1) => Right(g, x)
      BY <2>2
    <3>3. f[x] = IF x \in Low(m - 1) THEN g[x]
                 ELSE IF x \in stop THEN base[x] ELSE step[<<x, g[next[x]]>>]
      OBVIOUS
    <3> HIDE DEF f, Low
    <3> QED
      BY <3>1, <3>2, <3>3
  <2> HIDE DEF f, Right, Low
  <2>7. \E j \in [Low(m) -> X] : \A x \in Low(m) : Right(j, x)
    BY <2>5, <2>6
  <2> QED
    BY <2>1, <2>7
<1> HIDE DEF S
<1>4. \A m \in 0 .. MaxNodes : m \in S
  BY <1>2, <1>3, Rounds
<1>5. MaxNodes \in S
  BY <1>4, BoundAssumption
<1>6. Low(MaxNodes) = D
  <2>1. \A n \in 0 .. MaxNodes : n <= MaxNodes
    BY BoundAssumption
  <2> QED
    BY <1>1, <2>1
<1> HIDE DEF Low
<1>7. PICK f \in [D -> X] : \A x \in D : Right(f, x)
  BY <1>5, <1>6 DEF S
<1>8. f = [x \in D |-> f[x]]
  OBVIOUS
<1>9. f = [x \in D |-> IF x \in stop THEN base[x] ELSE step[<<x, f[next[x]]>>]]
  BY <1>7, <1>8
<1> QED
  BY <1>7, <1>9 DEF Follows

\* Among some points there is one of the least rank.
LEMMA LeastRank ==
    ASSUME NEW D, NEW rank \in [D -> 0 .. MaxNodes], NEW S \in SUBSET D, S # {}
    PROVE  \E x \in S : \A y \in D : rank[y] < rank[x] => y \notin S
<1> DEFINE N == {rank[x] : x \in S}
<1>1. \A x \in D : rank[x] \in Nat
  <2>1. \A n \in 0 .. MaxNodes : n \in Nat
    BY BoundAssumption
  <2> QED
    BY <2>1
<1>2. N \subseteq Nat /\ N # {}
  BY <1>1
<1>3. PICK n \in N : \A m \in N : n <= m
  BY <1>2, Smallest
<1>4. PICK x \in S : n = rank[x]
  OBVIOUS
<1>5. ASSUME NEW y \in D, rank[y] < rank[x], y \in S
      PROVE  FALSE
  <2>1. rank[x] <= rank[y] /\ rank[x] \in Nat /\ rank[y] \in Nat
    BY <1>1, <1>3, <1>4, <1>5
  <2> QED
    BY <1>5, <2>1
<1> QED
  BY <1>5

-------------------------------------------------------------------------------
\* The number of nodes in a subtree falls on the way down.
DownRank(L, under) == [x \in L \cup {nil} |-> Cardinality(under[x])]

LEMMA Deeper ==
    ASSUME NEW t, NEW L, NEW key, NEW under, Shape(t, L, key, under)
    PROVE  /\ DownRank(L, under) \in [L \cup {nil} -> 0 .. MaxNodes]
           /\ \A x \in L, s \in Side : DownRank(L, under)[t.child[s][x]] < DownRank(L, under)[x]
<1>1. \A x \in L \cup {nil} : IsFiniteSet(under[x]) /\ Cardinality(under[x]) \in 0 .. MaxNodes
  <2> TAKE x \in L \cup {nil}
  <2>1. under[x] \in SUBSET L /\ L \subseteq Address
    BY DEF Shape
  <2> QED
    BY <2>1, SomeAreFinite
<1>2. ASSUME NEW x \in L, NEW s \in Side
      PROVE  Cardinality(under[t.child[s][x]]) < Cardinality(under[x])
  <2> DEFINE c == t.child[s][x]
  <2>1. c \in L \cup {nil} /\ under[c] \subseteq under[x] /\ x \in under[x] /\ x \notin under[c]
    BY Node
  <2>2. IsFiniteSet(under[x])
    BY <1>1
  <2>3. \A n \in 0 .. MaxNodes : n \in Nat
    BY BoundAssumption
  <2>4. Cardinality(under[x]) \in Nat /\ Cardinality(under[c]) \in Nat
    BY <1>1, <2>1, <2>3
  <2> HIDE DEF c
  <2>5. /\ Cardinality(under[c]) <= Cardinality(under[x])
        /\ Cardinality(under[c]) = Cardinality(under[x]) => under[x] = under[c]
    BY <2>1, <2>2, FS_Subset
  <2>6. Cardinality(under[c]) # Cardinality(under[x])
    BY <2>1, <2>5
  <2>7. Cardinality(under[c]) < Cardinality(under[x])
    BY <2>4, <2>5, <2>6
  <2> QED
    BY <2>7 DEF c
<1>3. \A x \in L, s \in Side : t.child[s][x] \in L \cup {nil}
  BY DEF Shape
<1> QED
  BY <1>1, <1>2, <1>3 DEF DownRank

Keys == [x \in Live |-> item[x].key]

LEMMA TowardIs ==
    ASSUME NEW k \in Int, NEW x \in Live, Keys[x] \in Int, k # Keys[x]
    PROVE  Toward(k, x) \in Side /\ Before(Toward(k, x), k, Keys[x])
BY DEF Toward, Keys, Before, Side

LEMMA SearchFinds ==
    ASSUME NEW under, Shape(T, Live, Keys, under), NEW k \in Int
    PROVE  /\ Search(k) \in Live \cup {nil}
           /\ Search(k) = nil => \A x \in Live : Keys[x] # k
           /\ Search(k) # nil => Keys[Search(k)] = k
<1> DEFINE D == Live \cup {nil}
<1> DEFINE stop == {x \in D : x = nil \/ k = item[x].key}
<1> DEFINE base == [x \in D |-> x]
<1> DEFINE next == [x \in D \ stop |-> T.child[Toward(k, x)][x]]
<1> DEFINE step == [p \in D \X D |-> p[2]]
<1> DEFINE rank == DownRank(Live, under)
<1> DEFINE Loop(f) == f = [x \in D |-> IF x = nil THEN nil ELSE IF k = item[x].key THEN x
                                       ELSE f[T.child[Toward(k, x)][x]]]
<1> DEFINE down == CHOOSE f : Loop(f)
<1>1. Search(k) = down[T.root]
  BY DEF Search
<1>2. Live \subseteq Address /\ nil \notin Live /\ T.root \in D /\ under[T.root] = Live /\ under[nil] = {}
  BY Cells DEF Shape
<1>3. \A x \in Live : Keys[x] = item[x].key /\ Keys[x] \in Int
  BY DEF Shape, Keys
<1>4. \A x \in Live : k # Keys[x] =>
          Toward(k, x) \in Side /\ T.child[Toward(k, x)][x] \in D
          /\ Before(Toward(k, x), k, Keys[x])
  BY <1>3, TowardIs DEF Shape
<1>5. \E f \in [D -> D] : Loop(f)
  <2>1. rank \in [D -> 0 .. MaxNodes] /\ \A x \in D \ stop : rank[next[x]] < rank[x]
    <3>1. \A x \in Live, s \in Side : rank[T.child[s][x]] < rank[x]
      BY Deeper
    <3>2. \A x \in D \ stop : x \in Live /\ k # Keys[x] /\ next[x] = T.child[Toward(k, x)][x]
      BY <1>3
    <3>3. rank \in [D -> 0 .. MaxNodes]
      BY Deeper
    <3> QED
      BY <1>4, <3>1, <3>2, <3>3
  <2>2. next \in [D \ stop -> D]
    BY <1>3, <1>4
  <2>3. base \in [D -> D] /\ step \in [D \X D -> D] /\ stop \in SUBSET D
    OBVIOUS
  <2> HIDE DEF rank, stop, base, next, step, D
  <2>4. PICK f \in [D -> D] : Follows(f, D, stop, base, next, step)
    BY <2>1, <2>2, <2>3, Recursion
  <2>5. ASSUME NEW x \in D
        PROVE  f[x] = IF x = nil THEN nil ELSE IF k = item[x].key THEN x
                      ELSE f[T.child[Toward(k, x)][x]]
    <3>1. f[x] = IF x \in stop THEN base[x] ELSE step[<<x, f[next[x]]>>]
      BY <2>4 DEF Follows
    <3>2. CASE x \in stop
      BY <3>1, <3>2 DEF stop, base
    <3>3. CASE x \notin stop
      <4>1. x # nil /\ k # item[x].key /\ next[x] = T.child[Toward(k, x)][x] /\ next[x] \in D
        BY <2>2, <3>3 DEF stop, next
      <4>2. f[next[x]] \in D
        BY <4>1
      <4>3. step[<<x, f[next[x]]>>] = f[next[x]]
        BY <4>2 DEF step
      <4> QED
        BY <3>1, <3>3, <4>1, <4>3
    <3> QED
      BY <3>2, <3>3
  <2>6. f = [x \in D |-> f[x]]
    OBVIOUS
  <2>7. Loop(f)
    BY <2>5, <2>6
  <2> HIDE DEF Loop
  <2> QED
    BY <2>7
<1>6. Loop(down)
  <2> HIDE DEF Loop
  <2> QED
    BY <1>5
<1> HIDE DEF down
<1>7. down[nil] = nil /\ \A x \in Live : down[x] = IF k = Keys[x] THEN x
                                                    ELSE down[T.child[Toward(k, x)][x]]
  BY <1>2, <1>3, <1>6
<1> HIDE DEF Loop, stop, base, next, step, rank
<1> DEFINE Found(x) == /\ down[x] \in under[x] \cup {nil}
                       /\ down[x] = nil => \A w \in under[x] : Keys[w] # k
                       /\ down[x] # nil => Keys[down[x]] = k
<1> DEFINE S == {x \in Live : ~Found(x)}
<1>8. S = {}
  <2> SUFFICES ASSUME S # {}
               PROVE  FALSE
    OBVIOUS
  <2>1. PICK x \in S : \A s \in Side : T.child[s][x] \notin S
    BY Lowest
  <2>2. x \in Live /\ ~Found(x) /\ x # nil /\ x \in under[x]
    BY <1>2, Sides, Node DEF Side
  <2>3. CASE k = Keys[x]
    BY <1>7, <2>2, <2>3
  <2>4. CASE k # Keys[x]
    <3> DEFINE s == Toward(k, x)
    <3> DEFINE c == T.child[s][x]
    <3>1. s \in Side /\ c \in D /\ Before(s, k, Keys[x])
      BY <1>4, <2>2, <2>4
    <3>2. under[x] = {x} \cup under[c] \cup under[T.child[Other(s)][x]] /\ Keys[x] \in Int
      BY <2>2, <3>1, Node
    <3>3. \A w \in under[T.child[Other(s)][x]] : Keys[w] \in Int /\ Before(Other(s), Keys[w], Keys[x])
      BY <2>2, <3>1, Sides, Node
    <3>4. \A w \in under[T.child[Other(s)][x]] : Keys[w] # k
      BY <3>1, <3>2, <3>3, Betweenness
    <3>5. down[x] = down[c]
      BY <1>7, <2>2, <2>4
    <3>6. Found(c)
      <4>1. c \in Live => Found(c)
        BY <2>1, <3>1
      <4>2. Found(nil)
        BY <1>2, <1>7
      <4> QED
        BY <3>1, <4>1, <4>2
    <3> HIDE DEF s, c
    <3> QED
      BY <2>2, <2>4, <3>2, <3>4, <3>5, <3>6
  <2> QED
    BY <2>3, <2>4
<1>9. Found(T.root)
  BY <1>2, <1>7, <1>8
<1> QED
  BY <1>1, <1>2, <1>9

\* A subtree does not hold a node and one above it.
LEMMA NotAbove ==
    ASSUME NEW t, NEW L, NEW key, NEW under, Shape(t, L, key, under),
           NEW x \in L, NEW a \in under[x], NEW s \in Side
    PROVE  a \in L /\ x \notin under[t.child[s][a]]
<1>1. a \in L /\ under[a] \subseteq under[x]
  BY Within
<1> SUFFICES ASSUME x \in under[t.child[s][a]]
             PROVE  FALSE
  BY <1>1
<1> DEFINE c == t.child[s][a]
<1> HIDE DEF c
<1>2. c \in L \cup {nil} /\ a \notin under[c] /\ x \in under[c]
  BY <1>1, Node DEF c
<1>3. c \in L
  BY <1>2 DEF Shape
<1>4. under[x] \subseteq under[c]
  BY <1>2, <1>3, Within
<1> QED
  BY <1>1, <1>2, <1>4

\* Where a new key belongs: below y, on the side where y has no child.
Slot(t, L, key, under, k, y, s) ==
    /\ y \in L /\ s \in Side /\ t.child[s][y] = nil /\ Before(s, k, key[y])
    /\ \A a \in L, r \in Side : y \in under[t.child[r][a]] => Before(r, k, key[a])

LEMMA EdgeIs ==
    ASSUME NEW under, Shape(T, Live, Keys, under), NEW k \in Int, \A x \in Live : Keys[x] # k
    PROVE  /\ Edge(k) = nil <=> T.root = nil
           /\ Edge(k) # nil => Slot(T, Live, Keys, under, k, Edge(k), Toward(k, Edge(k)))
<1> DEFINE D == Live
<1> DEFINE Stops(x) == T.child[Toward(k, x)][x] = nil
<1> DEFINE stop == {x \in D : Stops(x)}
<1> DEFINE base == [x \in D |-> x]
<1> DEFINE next == [x \in D \ stop |-> T.child[Toward(k, x)][x]]
<1> DEFINE step == [p \in D \X D |-> p[2]]
<1> DEFINE rank == [x \in D |-> DownRank(Live, under)[x]]
<1> DEFINE Loop(f) == f = [x \in D |-> LET c == T.child[Toward(k, x)][x]
                                       IN  IF c = nil THEN x ELSE f[c]]
<1> DEFINE last == CHOOSE f : Loop(f)
<1>1. Edge(k) = IF T.root = nil THEN nil ELSE last[T.root]
  BY DEF Edge
<1>2. nil \notin Live /\ T.root \in D \cup {nil} /\ under[T.root] = Live /\ under[nil] = {}
  BY Cells DEF Shape
<1>3. \A x \in Live : /\ Toward(k, x) \in Side /\ T.child[Toward(k, x)][x] \in D \cup {nil}
                      /\ Before(Toward(k, x), k, Keys[x]) /\ Keys[x] \in Int
  <2>1. \A x \in Live : Keys[x] \in Int
    BY DEF Shape, Keys
  <2>2. \A x \in Live : Toward(k, x) \in Side /\ Before(Toward(k, x), k, Keys[x])
    BY <2>1, TowardIs
  <2> QED
    BY <2>1, <2>2 DEF Shape
<1>4. \E f \in [D -> D] : Loop(f)
  <2>1. next \in [D \ stop -> D]
    BY <1>3
  <2>2. rank \in [D -> 0 .. MaxNodes] /\ \A x \in D \ stop : rank[next[x]] < rank[x]
    <3>1. \A x \in Live, s \in Side : DownRank(Live, under)[T.child[s][x]] < DownRank(Live, under)[x]
      BY Deeper
    <3>2. DownRank(Live, under) \in [Live \cup {nil} -> 0 .. MaxNodes]
      BY Deeper
    <3>3. \A x \in D \ stop : x \in Live /\ next[x] = T.child[Toward(k, x)][x]
      OBVIOUS
    <3>4. \A x \in D \ stop : rank[next[x]] = DownRank(Live, under)[T.child[Toward(k, x)][x]]
      BY <2>1, <3>3
    <3> QED
      BY <1>3, <3>1, <3>2, <3>3, <3>4
  <2>3. base \in [D -> D] /\ step \in [D \X D -> D] /\ stop \in SUBSET D
    OBVIOUS
  <2> HIDE DEF rank, stop, base, next, step, D
  <2>4. PICK f \in [D -> D] : Follows(f, D, stop, base, next, step)
    BY <2>1, <2>2, <2>3, Recursion
  <2>5. ASSUME NEW x \in D
        PROVE  f[x] = LET c == T.child[Toward(k, x)][x] IN IF c = nil THEN x ELSE f[c]
    <3>1. f[x] = IF x \in stop THEN base[x] ELSE step[<<x, f[next[x]]>>]
      BY <2>4 DEF Follows
    <3>2. CASE x \in stop
      BY <3>1, <3>2 DEF stop, base
    <3>3. CASE x \notin stop
      <4>1. ~Stops(x) /\ next[x] = T.child[Toward(k, x)][x] /\ next[x] \in D
        BY <2>1, <3>3 DEF stop, next
      <4>2. f[next[x]] \in D
        BY <4>1
      <4>3. step[<<x, f[next[x]]>>] = f[next[x]]
        BY <4>2 DEF step
      <4> QED
        BY <3>1, <3>3, <4>1, <4>3
    <3> QED
      BY <3>2, <3>3
  <2>6. f = [x \in D |-> f[x]]
    OBVIOUS
  <2>7. Loop(f)
    BY <2>5, <2>6
  <2> HIDE DEF Loop
  <2> QED
    BY <2>7
<1>5. Loop(last)
  <2> HIDE DEF Loop
  <2> QED
    BY <1>4
<1> HIDE DEF last
<1>6. \A x \in Live : last[x] = IF T.child[Toward(k, x)][x] = nil THEN x
                                ELSE last[T.child[Toward(k, x)][x]]
  BY <1>5
<1> HIDE DEF Loop, stop, base, next, step, rank
<1> DEFINE Good(x) ==
       /\ last[x] \in under[x] /\ last[x] \in Live
       /\ T.child[Toward(k, last[x])][last[x]] = nil
       /\ \A a \in under[x], r \in Side : last[x] \in under[T.child[r][a]] => Before(r, k, Keys[a])
<1> DEFINE S == {x \in Live : ~Good(x)}
<1>7. S = {}
  <2> SUFFICES ASSUME S # {}
               PROVE  FALSE
    OBVIOUS
  <2>1. PICK x \in S : \A s \in Side : T.child[s][x] \notin S
    BY Lowest
  <2>2. x \in Live /\ ~Good(x) /\ x \in under[x]
    BY <1>2, Sides, Node DEF Side
  <2> DEFINE s == Toward(k, x)
  <2> DEFINE c == T.child[s][x]
  <2>3. CASE c = nil
    <3>1. last[x] = x
      BY <1>6, <2>2, <2>3
    <3>2. \A a \in under[x], r \in Side : x \notin under[T.child[r][a]]
      BY <2>2, NotAbove
    <3> QED
      BY <2>2, <2>3, <3>1, <3>2
  <2>4. CASE c # nil
    <3>1. s \in Side /\ c \in Live /\ Before(s, k, Keys[x])
      BY <1>3, <2>2, <2>4
    <3>2. Good(c) /\ last[x] = last[c]
      BY <1>6, <2>1, <2>2, <2>4, <3>1
    <3> DEFINE d == T.child[Other(s)][x]
    <3>3. under[x] = {x} \cup under[c] \cup under[d] /\ under[c] \cap under[d] = {}
          /\ d \in Live \cup {nil}
      <4>1. Other(s) \in Side /\ Other(Other(s)) = s
        BY <3>1, Sides
      <4> HIDE DEF s, c, d
      <4>2. under[x] = {x} \cup under[c] \cup under[d]
        BY <2>2, <3>1, Node DEF c, d
      <4>3. d \in Live \cup {nil}
        BY <2>2, <4>1, Node DEF d
      <4>4. under[c] \cap under[d] = {}
        BY <2>2, <3>1, Disjoint DEF c, d
      <4> QED
        BY <4>2, <4>3, <4>4
    <3>4. ASSUME NEW a \in under[x], NEW r \in Side, last[x] \in under[T.child[r][a]]
          PROVE  Before(r, k, Keys[a])
      <4>1. CASE a = x
        <5>1. r = s
          BY <3>1, <3>2, <3>3, <3>4, <4>1, Sides
        <5> QED
          BY <3>1, <4>1, <5>1
      <4>2. CASE a \in under[c]
        BY <3>2, <3>4, <4>2
      <4>3. CASE a \in under[d]
        <5>1. d \in Live
          BY <1>2, <3>3, <4>3
        <5>2. a \in Live /\ under[a] \subseteq under[d]
          BY <4>3, <5>1, Within
        <5>3. under[T.child[r][a]] \subseteq under[a]
          BY <5>2, Node
        <5> QED
          BY <3>2, <3>3, <3>4, <5>2, <5>3
      <4> QED
        BY <3>3, <4>1, <4>2, <4>3
    <3>5. under[c] \subseteq under[x]
      BY <3>3
    <3> HIDE DEF s, c, d
    <3>6. Good(x)
      BY <3>2, <3>4, <3>5
    <3> QED
      BY <2>2, <3>6
  <2> QED
    BY <2>3, <2>4
<1>8. CASE T.root # nil
  <2>1. Good(T.root) /\ Edge(k) = last[T.root]
    BY <1>1, <1>2, <1>7, <1>8
  <2>2. Edge(k) \in Live /\ Edge(k) # nil
    BY <1>2, <2>1
  <2>3. \A a \in Live, r \in Side : Edge(k) \in under[T.child[r][a]] => Before(r, k, Keys[a])
    BY <1>2, <2>1
  <2>4. T.child[Toward(k, Edge(k))][Edge(k)] = nil
    BY <2>1
  <2> QED
    BY <1>3, <1>8, <2>2, <2>3, <2>4 DEF Slot
<1> QED
  BY <1>1, <1>8

-------------------------------------------------------------------------------
\* rbtree_insert.
LinkedFields(t, n, new, y, s) ==
    /\ n \in Trees /\ n.root = IF y = nil THEN new ELSE t.root
    /\ \A c \in Cell : /\ n.parent[c] = IF c = new THEN y ELSE t.parent[c]
                       /\ n.color[c] = IF c = new THEN "red" ELSE t.color[c]
    /\ \A c \in Cell, r \in Side :
          n.child[r][c] = IF c = new THEN nil ELSE IF c = y /\ y # nil /\ r = s THEN new
                          ELSE t.child[r][c]

LEMMA LinkedIs ==
    ASSUME NEW t \in Trees, NEW new \in Cell, NEW y \in Cell, NEW s \in Side
    PROVE  LinkedFields(t, Linked(t, new, y, s), new, y, s)
<1> DEFINE m == IF y = nil THEN [t EXCEPT !.root = new] ELSE [t EXCEPT !.child[s][y] = new]
<1> DEFINE n == Linked(t, new, y, s)
<1>1. /\ m \in Trees /\ m.parent = t.parent /\ m.color = t.color
      /\ m.root = IF y = nil THEN new ELSE t.root
      /\ \A c \in Cell, r \in Side :
            m.child[r][c] = IF c = y /\ y # nil /\ r = s THEN new ELSE t.child[r][c]
  <2>1. CASE y = nil
    BY <2>1 DEF Trees
  <2>2. CASE y # nil
    <3>1. m = [t EXCEPT !.child = [t.child EXCEPT ![s] = [t.child[s] EXCEPT ![y] = new]]]
      BY <2>2 DEF Trees
    <3>2. [t.child EXCEPT ![s] = [t.child[s] EXCEPT ![y] = new]] \in [Side -> [Cell -> Cell]]
      BY DEF Trees
    <3>3. m \in Trees /\ m.parent = t.parent /\ m.color = t.color /\ m.root = t.root
          /\ m.child = [t.child EXCEPT ![s] = [t.child[s] EXCEPT ![y] = new]]
      BY <3>1, <3>2 DEF Trees
    <3> HIDE DEF m
    <3>4. \A c \in Cell, r \in Side :
             m.child[r][c] = IF c = y /\ r = s THEN new ELSE t.child[r][c]
      BY <3>3 DEF Trees
    <3> QED
      BY <2>2, <3>3, <3>4
  <2> QED
    BY <2>1, <2>2
<1>2. n = [m EXCEPT !.parent[new] = y, !.color[new] = "red",
                    !.child["left"][new] = nil, !.child["right"][new] = nil]
  BY DEF Linked
<1> HIDE DEF n, m
<1>3. "left" \in Side /\ "right" \in Side /\ "left" # "right" /\ nil \in Cell /\ "red" \in Color
      /\ \A r \in Side : r = "left" \/ r = "right"
  BY Cells DEF Side, Color
<1> DEFINE kids == [m.child EXCEPT !["left"] = [m.child["left"] EXCEPT ![new] = nil],
                                   !["right"] = [m.child["right"] EXCEPT ![new] = nil]]
<1> DEFINE par == [m.parent EXCEPT ![new] = y]
<1> DEFINE hue == [m.color EXCEPT ![new] = "red"]
<1>4. kids \in [Side -> [Cell -> Cell]] /\ par \in [Cell -> Cell] /\ hue \in [Cell -> Color]
  BY <1>1, <1>3 DEF Trees
<1>5. n = [m EXCEPT !.parent = par, !.color = hue, !.child = kids]
  BY <1>1, <1>2, <1>3 DEF Trees
<1>6. \A c \in Cell : /\ par[c] = IF c = new THEN y ELSE m.parent[c]
                      /\ hue[c] = IF c = new THEN "red" ELSE m.color[c]
  BY <1>1 DEF Trees
<1>7. \A c \in Cell, r \in Side : kids[r][c] = IF c = new THEN nil ELSE m.child[r][c]
  BY <1>1, <1>3 DEF Trees
<1> HIDE DEF kids, par, hue
<1>8. n \in Trees /\ n.root = m.root /\ n.parent = par /\ n.color = hue /\ n.child = kids
  BY <1>1, <1>4, <1>5 DEF Trees
<1> QED
  BY <1>1, <1>6, <1>7, <1>8 DEF LinkedFields, n

With(L, new) == L \cup {new}
WithKey(L, key, new, k) == [x \in With(L, new) |-> IF x = new THEN k ELSE key[x]]
Below(L, under, new, y) ==
    [x \in With(L, new) \cup {nil} |->
        IF x = new THEN {new} ELSE IF y \in under[x] THEN under[x] \cup {new} ELSE under[x]]

LEMMA LinkedShape ==
    ASSUME NEW t, NEW L, NEW key, NEW under, Shape(t, L, key, under),
           NEW new \in Address, new \notin L, NEW k \in Int, NEW y, NEW s \in Side,
           y = nil <=> t.root = nil, y # nil => Slot(t, L, key, under, k, y, s),
           NEW n, LinkedFields(t, n, new, y, s)
    PROVE  Shape(n, With(L, new), WithKey(L, key, new, k), Below(L, under, new, y))
<1> DEFINE M == With(L, new)
<1> DEFINE key2 == WithKey(L, key, new, k)
<1> DEFINE u == Below(L, under, new, y)
<1>1. /\ t \in Trees /\ L \subseteq Address /\ key \in [L -> Int] /\ nil \notin L /\ L \subseteq Cell
      /\ under \in [L \cup {nil} -> SUBSET L] /\ under[nil] = {} /\ new # nil /\ nil \in Cell /\ new \in Cell
      /\ t.root \in L \cup {nil} /\ under[t.root] = L
  BY Cells DEF Shape
<1>2. /\ n \in Trees /\ n.root = IF y = nil THEN new ELSE t.root
      /\ \A c \in Cell : n.parent[c] = IF c = new THEN y ELSE t.parent[c]
      /\ \A c \in Cell, r \in Side :
            n.child[r][c] = IF c = new THEN nil ELSE IF c = y /\ y # nil /\ r = s THEN new
                            ELSE t.child[r][c]
  BY DEF LinkedFields
<1>3. y = nil => L = {}
  BY <1>1
<1>4. y # nil => /\ y \in L /\ t.child[s][y] = nil /\ Before(s, k, key[y])
                 /\ \A a \in L, r \in Side : y \in under[t.child[r][a]] => Before(r, k, key[a])
  BY DEF Slot
<1>5. M \subseteq Address /\ key2 \in [M -> Int] /\ key2[new] = k /\ (\A x \in L : key2[x] = key[x] /\ x # new)
  BY <1>1 DEF With, WithKey
<1>6. /\ u \in [M \cup {nil} -> SUBSET M] /\ u[nil] = {} /\ u[new] = {new}
      /\ \A x \in L \cup {nil} : u[x] = IF y \in under[x] THEN under[x] \cup {new} ELSE under[x]
  BY <1>1 DEF With, Below
<1>7. n.root \in M \cup {nil} /\ u[n.root] = M
  BY <1>1, <1>2, <1>3, <1>4, <1>6 DEF With
<1>8. \A x \in M : x = new \/ x \in L
  BY DEF With
<1>9. L \subseteq M /\ new \in M
  BY DEF With
<1> HIDE DEF M, key2, u
<1>10. ASSUME NEW x \in M, NEW r \in Side
       PROVE  /\ n.child[r][x] \in M \cup {nil}
              /\ u[x] = {x} \cup u[n.child[r][x]] \cup u[n.child[Other(r)][x]]
              /\ \A w \in u[n.child[r][x]] : Before(r, key2[w], key2[x])
              /\ n.child[r][x] # nil => n.parent[n.child[r][x]] = x
  <2>1. Other(r) \in Side /\ Other(Other(r)) = r /\ Other(r) # r /\ (s = r \/ s = Other(r))
    BY Sides
  <2>2. CASE x = new
    <3>1. n.child[r][x] = nil /\ n.child[Other(r)][x] = nil
      BY <1>1, <1>2, <2>1, <2>2
    <3> QED
      BY <1>6, <2>2, <3>1
  <2>3. CASE x \in L
    <3> DEFINE c == t.child[r][x]
    <3> DEFINE d == t.child[Other(r)][x]
    <3>1. y # nil /\ x # nil /\ x # new /\ x \in Cell
      BY <1>1, <1>3, <2>3
    <3> HIDE DEF c, d
    <3>2. /\ c \in L \cup {nil} /\ under[x] = {x} \cup under[c] \cup under[d] /\ x \notin under[c]
          /\ \A w \in under[c] : w \in L /\ Before(r, key[w], key[x])
          /\ c # nil => t.parent[c] = x
      BY <2>3, Node DEF c, d
    <3>3. d \in L \cup {nil} /\ x \notin under[d]
      BY <2>1, <2>3, Node DEF d
    <3>4. n.child[r][x] = IF x = y /\ r = s THEN new ELSE c
      BY <1>2, <3>1 DEF c
    <3>5. n.child[Other(r)][x] = IF x = y /\ Other(r) = s THEN new ELSE d
      BY <1>2, <2>1, <3>1 DEF d
    <3>6. x = y /\ r = s => c = nil
      BY <1>4, <3>1 DEF c
    <3>7. x = y /\ Other(r) = s => d = nil
      BY <1>4, <3>1 DEF d
    <3>8. y \in under[x] <=> (y = x \/ y \in under[c] \/ y \in under[d])
      BY <3>2
    <3>9. y \in under[c] => Before(r, k, key[x])
      BY <1>4, <2>3, <3>1 DEF c
    <3>10. x = y /\ r = s => Before(r, k, key[x])
      BY <1>4, <3>1
    <3>11. n.child[r][x] \in M \cup {nil}
      BY <1>9, <3>2, <3>4
    <3>12. u[x] = {x} \cup u[n.child[r][x]] \cup u[n.child[Other(r)][x]]
      <4>1. u[x] = IF y \in under[x] THEN under[x] \cup {new} ELSE under[x]
        BY <1>6, <2>3
      <4>2. /\ u[c] = IF y \in under[c] THEN under[c] \cup {new} ELSE under[c]
            /\ u[d] = IF y \in under[d] THEN under[d] \cup {new} ELSE under[d]
        BY <1>6, <3>2, <3>3
      <4>3. CASE x # y
        BY <3>2, <3>4, <3>5, <3>8, <4>1, <4>2, <4>3
      <4>4. CASE x = y
        <5>1. u[x] = under[x] \cup {new} /\ u[c] = under[c] /\ u[d] = under[d]
          BY <3>2, <3>3, <3>8, <4>1, <4>2, <4>4
        <5>2. CASE r = s
          <6>1. n.child[r][x] = new /\ n.child[Other(r)][x] = d /\ under[c] = {}
            BY <1>1, <2>1, <3>4, <3>5, <3>6, <4>4, <5>2
          <6> QED
            BY <1>6, <3>2, <5>1, <6>1
        <5>3. CASE r # s
          <6>1. n.child[r][x] = c /\ n.child[Other(r)][x] = new /\ under[d] = {}
            BY <1>1, <2>1, <3>4, <3>5, <3>7, <4>4, <5>3
          <6> QED
            BY <1>6, <3>2, <5>1, <6>1
        <5> QED
          BY <5>2, <5>3
      <4> QED
        BY <4>3, <4>4
    <3>13. \A w \in u[n.child[r][x]] : Before(r, key2[w], key2[x])
      <4> TAKE w \in u[n.child[r][x]]
      <4>1. key2[x] = key[x]
        BY <1>5, <2>3
      <4>2. CASE x = y /\ r = s
        <5>1. w = new
          BY <1>6, <3>4, <4>2
        <5> QED
          BY <1>5, <3>10, <4>1, <4>2, <5>1
      <4>3. CASE ~(x = y /\ r = s)
        <5>1. w \in u[c]
          BY <3>4, <4>3
        <5>2. w \in under[c] \/ (w = new /\ y \in under[c])
          BY <1>6, <3>2, <5>1
        <5> QED
          BY <1>5, <3>2, <3>9, <4>1, <5>2
      <4> QED
        BY <4>2, <4>3
    <3>14. n.child[r][x] # nil => n.parent[n.child[r][x]] = x
      <4>1. c # nil => c # new /\ c \in Cell
        BY <1>1, <3>2
      <4> QED
        BY <1>1, <1>2, <3>2, <3>4, <4>1
    <3> QED
      BY <3>11, <3>12, <3>13, <3>14
  <2> QED
    BY <1>8, <2>2, <2>3
<1>11. ASSUME NEW x \in M
       PROVE  /\ n.parent[x] = nil <=> x = n.root
              /\ x # n.root => n.parent[x] \in M /\ \E r \in Side : n.child[r][n.parent[x]] = x
  <2>1. CASE x = new
    <3>1. n.parent[x] = y /\ (y = nil <=> x = n.root)
      BY <1>1, <1>2, <2>1
    <3>2. y # nil => y \in M /\ n.child[s][y] = new
      BY <1>1, <1>2, <1>4, <1>9
    <3> QED
      BY <2>1, <3>1, <3>2
  <2>2. CASE x \in L
    <3>1. n.root = t.root /\ n.parent[x] = t.parent[x] /\ x # nil
      BY <1>1, <1>2, <1>3, <2>2
    <3>2. /\ t.parent[x] = nil <=> x = t.root
          /\ x # t.root => t.parent[x] \in L /\ \E r \in Side : t.child[r][t.parent[x]] = x
      BY <2>2 DEF Shape
    <3>3. ASSUME x # t.root
          PROVE  \E r \in Side : n.child[r][t.parent[x]] = x
      <4>1. PICK r \in Side : t.child[r][t.parent[x]] = x
        BY <3>2, <3>3
      <4>2. t.parent[x] \in L /\ t.parent[x] # new /\ t.parent[x] \in Cell
        BY <1>1, <3>2, <3>3
      <4>3. ~(t.parent[x] = y /\ r = s)
        BY <1>1, <1>4, <3>1, <4>1, <4>2
      <4>4. n.child[r][t.parent[x]] = x
        BY <1>2, <4>1, <4>2, <4>3
      <4> QED
        BY <4>4
    <3> QED
      BY <1>9, <3>1, <3>2, <3>3
  <2> QED
    BY <1>8, <2>1, <2>2
<1> QED
  BY <1>2, <1>5, <1>6, <1>7, <1>10, <1>11 DEF Shape, M, key2, u

LEMMA LinkedGrows ==
    ASSUME NEW t, NEW L, NEW key, NEW under, NEW h, Settled(t, L, key, under, h), Clean(t, Cell \ L),
           NEW new \in Address, new \notin L, NEW k \in Int, NEW y, NEW s \in Side,
           y = nil <=> t.root = nil, y # nil => Slot(t, L, key, under, k, y, s)
    PROVE  LET n == Linked(t, new, y, s)
           IN  /\ Clean(n, Cell \ With(L, new))
               /\ \E u, j : Growing(n, new, With(L, new), WithKey(L, key, new, k), u, j)
<1> DEFINE n == Linked(t, new, y, s)
<1> DEFINE M == With(L, new)
<1> DEFINE j == [x \in M \cup {nil} |-> IF x = new THEN 0 ELSE h[x]]
<1>1. /\ Shape(t, L, key, under) /\ Balanced(t, L, h, nil, "left")
      /\ t.color[nil] = "black" /\ t.color[t.root] = "black"
      /\ \A x \in L : t.color[x] = "red" => t.color[t.parent[x]] = "black"
  BY DEF Settled
<1>2. /\ t \in Trees /\ L \subseteq Address /\ nil \notin L /\ L \subseteq Cell /\ new # nil
      /\ nil \in Cell /\ new \in Cell /\ t.root \in L \cup {nil} /\ under[t.root] = L /\ under[nil] = {}
      /\ \A x \in L : t.parent[x] \in L \cup {nil}
  BY <1>1, Cells DEF Shape
<1>3. y \in L \cup {nil} /\ (y # nil => t.child[s][y] = nil)
  BY DEF Slot
<1>4. LinkedFields(t, n, new, y, s)
  BY <1>2, <1>3, LinkedIs
<1>5. /\ n \in Trees /\ n.root = IF y = nil THEN new ELSE t.root
      /\ \A c \in Cell : n.parent[c] = IF c = new THEN y ELSE t.parent[c]
      /\ \A c \in Cell : n.color[c] = IF c = new THEN "red" ELSE t.color[c]
      /\ \A c \in Cell, r \in Side :
            n.child[r][c] = IF c = new THEN nil ELSE IF c = y /\ y # nil /\ r = s THEN new
                            ELSE t.child[r][c]
  BY <1>4 DEF LinkedFields
<1>6. Shape(n, M, WithKey(L, key, new, k), Below(L, under, new, y))
  BY <1>1, <1>4, LinkedShape
<1>7. M = L \cup {new}
  BY DEF With
<1> HIDE DEF n
<1>8. Clean(n, Cell \ M)
  <2>1. \A c \in Cell \ M : c \in Cell \ L /\ c # new
    BY <1>7
  <2>2. \A c \in Cell \ L : t.parent[c] = nil
    BY DEF Clean
  <2>3. \A c \in (Cell \ L) \cup {nil}, r \in Side : t.child[r][c] = nil
    BY DEF Clean
  <2>4. \A c \in Cell \ M : n.parent[c] = nil
    BY <1>5, <2>1, <2>2
  <2>5. \A c \in (Cell \ M) \cup {nil}, r \in Side : n.child[r][c] = nil
    <3> TAKE c \in (Cell \ M) \cup {nil}, r \in Side
    <3>1. c \in Cell \ L /\ c # new /\ c \in Cell
      BY <1>2, <2>1
    <3>2. ~(c = y /\ y # nil /\ r = s)
      BY <1>2, <1>3, <3>1
    <3>3. t.child[r][c] = nil
      BY <2>3, <3>1
    <3> QED
      BY <1>5, <3>1, <3>2, <3>3
  <2> QED
    BY <2>4, <2>5 DEF Clean
<1>9. Balanced(n, M, j, nil, "left")
  <2>1. h \in [L \cup {nil} -> Nat] /\ h[nil] = 0 /\ \A x \in L : Counts(t, x, h, nil, "left")
    BY <1>1 DEF Balanced
  <2>2. j \in [M \cup {nil} -> Nat] /\ j[nil] = 0 /\ j[new] = 0 /\ \A x \in L \cup {nil} : j[x] = h[x]
    BY <1>2, <1>7, <2>1
  <2> HIDE DEF j, M
  <2>3. M \subseteq Address
    BY <1>2, <1>7
  <2>4. ASSUME NEW x \in M, NEW r \in Side
        PROVE  j[x] = j[n.child[r][x]] + Bit(n, x) + 0
    <3>1. CASE x = new
      <4>1. n.child[r][x] = nil /\ Bit(n, x) = 0
        BY <1>2, <1>5, <3>1 DEF Bit
      <4> QED
        BY <2>2, <3>1, <4>1
    <3>2. CASE x # new
      <4>1. x \in L /\ x \in Cell
        BY <1>2, <1>7, <3>2
      <4>2. h[x] = h[t.child[r][x]] + Bit(t, x) + 0
        <5>1. Counts(t, x, h, nil, "left") /\ x # nil
          BY <1>2, <2>1, <4>1
        <5> QED
          BY <5>1 DEF Counts, Short
      <4>3. Bit(n, x) = Bit(t, x)
        BY <1>5, <3>2, <4>1 DEF Bit
      <4>4. j[n.child[r][x]] = h[t.child[r][x]]
        <5>1. CASE x = y /\ r = s
          <6>1. n.child[r][x] = new /\ t.child[r][x] = nil
            BY <1>2, <1>3, <1>5, <3>2, <4>1, <5>1
          <6> QED
            BY <2>1, <2>2, <6>1
        <5>2. CASE ~(x = y /\ r = s)
          <6>1. n.child[r][x] = t.child[r][x]
            BY <1>5, <3>2, <4>1, <5>2
          <6>2. t.child[r][x] \in L \cup {nil}
            BY <1>1, <4>1, Node
          <6> QED
            BY <2>2, <6>1, <6>2
        <5> QED
          BY <5>1, <5>2
      <4> QED
        BY <2>2, <4>1, <4>2, <4>3, <4>4
    <3> QED
      BY <3>1, <3>2
  <2>5. \A x \in M : Counts(n, x, j, nil, "left")
    BY <2>3, <2>4, PlainCounts
  <2> QED
    BY <2>2, <2>5 DEF Balanced
<1>10. n.color[nil] = "black" /\ n.color[new] = "red" /\ new \in M
  BY <1>1, <1>2, <1>5, <1>7
<1>11. new = n.root \/ n.color[n.root] = "black"
  BY <1>1, <1>2, <1>5
<1>12. \A x \in M : x # new /\ n.color[x] = "red" => n.color[n.parent[x]] = "black"
  <2> TAKE x \in M
  <2> HAVE x # new /\ n.color[x] = "red"
  <2>1. x \in L /\ x \in Cell /\ t.parent[x] \in Cell /\ t.parent[x] # new
    BY <1>2, <1>7
  <2> QED
    BY <1>1, <1>5, <2>1
<1>13. Growing(n, new, M, WithKey(L, key, new, k), Below(L, under, new, y), j)
  BY <1>6, <1>9, <1>10, <1>11, <1>12 DEF Growing
<1> HIDE DEF j
<1> QED
  BY <1>8, <1>13 DEF n

LEMMA InsertedSettles ==
    ASSUME NEW under, NEW h, Settled(T, Live, Keys, under, h), Clean(T, Cell \ Live),
           NEW new \in Address, new \notin Live, NEW k \in Int, Search(k) = nil
    PROVE  /\ Clean(Inserted(new, k), Cell \ With(Live, new))
           /\ \E u, j : Settled(Inserted(new, k), With(Live, new), WithKey(Live, Keys, new, k), u, j)
<1> DEFINE y == Edge(k)
<1> DEFINE s == IF y = nil THEN "left" ELSE Toward(k, y)
<1> DEFINE n == Linked(T, new, y, s)
<1> DEFINE C == Cell \ With(Live, new)
<1>1. Shape(T, Live, Keys, under)
  BY DEF Settled
<1>2. \A x \in Live : Keys[x] # k
  BY <1>1, SearchFinds
<1>3. /\ y = nil <=> T.root = nil
      /\ y # nil => Slot(T, Live, Keys, under, k, y, Toward(k, y))
  BY <1>1, <1>2, EdgeIs
<1>4. Inserted(new, k) = InsertFixup(n, new)
  BY DEF Inserted
<1> HIDE DEF y
<1>5. s \in Side /\ (y # nil => Slot(T, Live, Keys, under, k, y, s))
  BY <1>3 DEF Side, Slot
<1> HIDE DEF s
<1>6. Clean(n, C) /\ \E u, j : Growing(n, new, With(Live, new), WithKey(Live, Keys, new, k), u, j)
  BY <1>3, <1>5, LinkedGrows
<1> HIDE DEF n
<1>7. PICK u, j : Growing(n, new, With(Live, new), WithKey(Live, Keys, new, k), u, j)
  BY <1>6
<1>8. C \in SUBSET Cell /\ C \cap With(Live, new) = {}
  OBVIOUS
<1> HIDE DEF C
<1>9. /\ Clean(InsertFixup(n, new), C)
      /\ \E v, i : Settled(InsertFixup(n, new), With(Live, new), WithKey(Live, Keys, new, k), v, i)
  BY <1>6, <1>7, <1>8, InsertFixupSettles
<1> QED
  BY <1>4, <1>9 DEF C

-------------------------------------------------------------------------------
\* rbtree_delete takes a node with at most one child out of the tree.
Without(L, y) == L \ {y}
SplicedFields(t, n, y, x) ==
    LET p == t.parent[y]
    IN  /\ n \in Trees /\ n.color = t.color
        /\ n.root = IF p = nil THEN x ELSE t.root
        /\ \A c \in Cell : n.parent[c] = IF c = x THEN p ELSE t.parent[c]
        /\ \A c \in Cell, r \in Side :
              n.child[r][c] = IF c = p /\ p # nil /\ r = SideOf(t, y) THEN x ELSE t.child[r][c]

LEMMA SplicedIs ==
    ASSUME NEW t \in Trees, NEW y \in Cell, NEW x \in Cell
    PROVE  SplicedFields(t, [Replaced(t, y, x) EXCEPT !.parent[x] = t.parent[y]], y, x)
<1> DEFINE m == Replaced(t, y, x)
<1> DEFINE p == t.parent[y]
<1> DEFINE n == [m EXCEPT !.parent[x] = p]
<1> DEFINE par == [m.parent EXCEPT ![x] = p]
<1>1. /\ m \in Trees /\ m.color = t.color /\ m.parent = t.parent
      /\ m.root = IF p = nil THEN x ELSE t.root
      /\ \A c \in Cell, r \in Side :
            m.child[r][c] = IF c = p /\ p # nil /\ r = SideOf(t, y) THEN x ELSE t.child[r][c]
  BY ReplacedIs
<1>2. p \in Cell
  BY TreeFields
<1> HIDE DEF m, p
<1>3. par \in [Cell -> Cell] /\ \A c \in Cell : par[c] = IF c = x THEN p ELSE t.parent[c]
  BY <1>1, <1>2 DEF Trees
<1>4. n = [m EXCEPT !.parent = par]
  BY <1>1 DEF Trees
<1> HIDE DEF par
<1>5. n \in Trees /\ n.color = m.color /\ n.root = m.root /\ n.child = m.child /\ n.parent = par
  BY <1>1, <1>3, <1>4 DEF Trees
<1> HIDE DEF n
<1>6. SplicedFields(t, n, y, x)
  BY <1>1, <1>3, <1>5 DEF SplicedFields, p
<1> QED
  BY <1>6 DEF n, m, p

\* y has no child on side Other(s), and x is the one on side s, or nil.
Hanging(t, L, y, x, s) ==
    /\ y \in L /\ s \in Side /\ t.child[s][y] = x /\ t.child[Other(s)][y] = nil

KeysWithout(L, key, y) == [x \in Without(L, y) |-> key[x]]
UnderWithout(L, under, y) == [x \in Without(L, y) \cup {nil} |-> under[x] \ {y}]

\* The children of the others: x in the place of y.
LEMMA SplicedKids ==
    ASSUME NEW t, NEW L, NEW key, NEW under, Shape(t, L, key, under),
           NEW y, NEW x, NEW s, Hanging(t, L, y, x, s),
           NEW n, SplicedFields(t, n, y, x), NEW d \in L, d # y, NEW r \in Side
    PROVE  /\ n.child[r][d] = IF t.child[r][d] = y THEN x ELSE t.child[r][d]
           /\ t.child[r][d] \in L \cup {nil}
           /\ t.child[r][d] = y <=> d = t.parent[y] /\ r = SideOf(t, y)
<1> DEFINE p == t.parent[y]
<1>1. y \in L
  BY DEF Hanging
<1>2. L \subseteq Cell /\ d # nil /\ y # nil
  BY <1>1, Cells DEF Shape
<1>3. /\ p = nil <=> y = t.root
      /\ y # t.root => p \in L /\ \E i \in Side : t.child[i][p] = y
  BY <1>1 DEF Shape
<1>4. n.child[r][d] = IF d = p /\ p # nil /\ r = SideOf(t, y) THEN x ELSE t.child[r][d]
  BY <1>2 DEF SplicedFields
<1>5. t.child[r][d] \in L \cup {nil} /\ (t.child[r][d] # nil => t.parent[t.child[r][d]] = d)
  BY Node
<1>6. CASE t.child[r][d] = y
  <2>1. p = d
    BY <1>2, <1>5, <1>6
  <2>2. r = SideOf(t, y)
    <3>1. CASE r = "left"
      BY <1>6, <2>1, <3>1 DEF SideOf
    <3>2. CASE r = "right"
      <4>1. under[t.child["right"][d]] \cap under[t.child[Other("right")][d]] = {} /\ Other("right") = "left"
        BY Disjoint DEF Side, Other
      <4>2. y \in under[y]
        BY <1>1, Node
      <4>3. t.child["left"][d] # y
        BY <1>6, <3>2, <4>1, <4>2
      <4> QED
        BY <2>1, <3>2, <4>3 DEF SideOf
    <3> QED
      BY <3>1, <3>2 DEF Side
  <2> QED
    BY <1>2, <1>4, <1>5, <1>6, <2>1, <2>2
<1>7. CASE t.child[r][d] # y
  <2>1. ~(d = p /\ r = SideOf(t, y))
    <3> SUFFICES ASSUME d = p, r = SideOf(t, y)
                 PROVE  FALSE
      OBVIOUS
    <3>1. PICK i \in Side : t.child[i][p] = y
      BY <1>2, <1>3
    <3>2. i = "left" => SideOf(t, y) = "left"
      BY <3>1 DEF SideOf
    <3>3. i = "right"
      BY <1>7, <3>1, <3>2 DEF Side
    <3>4. SideOf(t, y) = "left" => t.child["left"][p] = y
      BY DEF SideOf
    <3> QED
      BY <1>7, <3>1, <3>3, <3>4 DEF Side
  <2> QED
    BY <1>4, <1>5, <1>7, <2>1
<1> QED
  BY <1>6, <1>7

LEMMA SplicedShape ==
    ASSUME NEW t, NEW L, NEW key, NEW under, Shape(t, L, key, under),
           NEW y, NEW x, NEW s, Hanging(t, L, y, x, s),
           NEW n, SplicedFields(t, n, y, x)
    PROVE  Shape(n, Without(L, y), KeysWithout(L, key, y), UnderWithout(L, under, y))
<1> DEFINE M == Without(L, y)
<1> DEFINE k == KeysWithout(L, key, y)
<1> DEFINE u == UnderWithout(L, under, y)
<1> DEFINE p == t.parent[y]
<1>1. /\ t \in Trees /\ L \subseteq Address /\ key \in [L -> Int] /\ nil \notin L /\ L \subseteq Cell
      /\ under \in [L \cup {nil} -> SUBSET L] /\ under[nil] = {} /\ nil \in Cell
      /\ t.root \in L \cup {nil} /\ under[t.root] = L
  BY Cells DEF Shape
<1>2. y \in L /\ s \in Side /\ t.child[s][y] = x /\ t.child[Other(s)][y] = nil
  BY DEF Hanging
<1>3. /\ x \in L \cup {nil} /\ under[y] = {y} \cup under[x] /\ y \notin under[x] /\ x # y
      /\ y \in under[y] /\ (x # nil => t.parent[x] = y) /\ y # nil
  <2> DEFINE c == t.child[s][y]
  <2> DEFINE d == t.child[Other(s)][y]
  <2> HIDE DEF c, d
  <2>1. /\ c \in L \cup {nil} /\ under[y] = {y} \cup under[c] \cup under[d] /\ y \notin under[c]
        /\ c # y /\ y \in under[y] /\ (c # nil => t.parent[c] = y) /\ y # nil
    BY <1>2, Node DEF c, d
  <2>2. c = x /\ d = nil
    BY <1>2 DEF c, d
  <2> QED
    BY <1>1, <2>1, <2>2
<1>4. /\ p = nil <=> y = t.root
      /\ y # t.root => p \in L /\ \E r \in Side : t.child[r][p] = y
  BY <1>2 DEF Shape
<1>5. /\ n \in Trees /\ n.root = IF p = nil THEN x ELSE t.root
      /\ \A c \in Cell : n.parent[c] = IF c = x THEN p ELSE t.parent[c]
      /\ \A c \in Cell, r \in Side :
            n.child[r][c] = IF c = p /\ p # nil /\ r = SideOf(t, y) THEN x ELSE t.child[r][c]
  BY DEF SplicedFields
<1>6. p # y
  <2>1. CASE y = t.root
    BY <1>3, <1>4, <2>1
  <2>2. CASE y # t.root
    BY <1>4, <2>2, Node
  <2> QED
    BY <2>1, <2>2
<1> HIDE DEF p
<1>7. M = L \ {y}
  BY DEF Without
<1>8. k \in [M -> Int] /\ \A w \in M : k[w] = key[w]
  BY <1>1 DEF KeysWithout, Without
<1>9. u \in [M \cup {nil} -> SUBSET M] /\ \A w \in M \cup {nil} : u[w] = under[w] \ {y}
  BY <1>1 DEF UnderWithout, Without
<1> HIDE DEF M, k, u
<1>10. x \in M \cup {nil} /\ u[x] = under[x] /\ u[nil] = {}
  <2>1. x \in M \cup {nil} /\ nil \in M \cup {nil}
    BY <1>3, <1>7
  <2>2. u[x] = under[x] \ {y} /\ u[nil] = under[nil] \ {y}
    BY <1>9, <2>1
  <2>3. under[x] \ {y} = under[x]
    BY <1>3
  <2> QED
    BY <1>1, <2>1, <2>2, <2>3
<1>11. n.root \in M \cup {nil} /\ u[n.root] = M
  <2>1. CASE p = nil
    BY <1>1, <1>3, <1>4, <1>5, <1>7, <1>10, <2>1
  <2>2. CASE p # nil
    BY <1>1, <1>3, <1>4, <1>5, <1>7, <1>9, <2>2
  <2> QED
    BY <2>1, <2>2
<1>12. ASSUME NEW d \in M, NEW r \in Side
       PROVE  /\ n.child[r][d] = IF t.child[r][d] = y THEN x ELSE t.child[r][d]
              /\ t.child[r][d] \in L \cup {nil}
              /\ t.child[r][d] = y => p = d /\ d # nil
  <2>1. d \in L /\ d # y /\ d # nil
    BY <1>1, <1>7
  <2> QED
    BY <2>1, SplicedKids DEF p
<1>13. ASSUME NEW d \in M, NEW r \in Side
       PROVE  /\ n.child[r][d] \in M \cup {nil}
              /\ u[n.child[r][d]] = under[t.child[r][d]] \ {y}
              /\ n.child[r][d] # nil => n.parent[n.child[r][d]] = d
  <2> DEFINE c == t.child[r][d]
  <2>1. /\ n.child[r][d] = IF c = y THEN x ELSE c
        /\ c \in L \cup {nil} /\ (c = y => p = d /\ d # nil)
    BY <1>12
  <2>2. d \in L /\ (c # nil => t.parent[c] = d) /\ d # y
    BY <1>7, Node
  <2> HIDE DEF c
  <2>3. CASE c = y
    <3>1. n.child[r][d] = x
      BY <2>1, <2>3
    <3>2. u[x] = under[y] \ {y}
      BY <1>3, <1>10
    <3>3. x # nil => n.parent[x] = d
      BY <1>1, <1>3, <1>5, <2>1, <2>3
    <3> QED
      BY <1>10, <2>3, <3>1, <3>2, <3>3 DEF c
  <2>4. CASE c # y
    <3>1. n.child[r][d] = c /\ c \in M \cup {nil}
      BY <1>7, <2>1, <2>4
    <3>2. u[c] = under[c] \ {y}
      BY <1>9, <3>1
    <3>3. c # nil => n.parent[c] = d
      <4>1. c = x /\ c # nil => t.parent[c] = y
        BY <1>3
      <4>2. c # nil => c # x
        BY <2>2, <4>1
      <4>3. c \in Cell
        BY <1>1, <2>1
      <4> QED
        BY <1>5, <2>2, <4>2, <4>3
    <3> QED
      BY <3>1, <3>2, <3>3 DEF c
  <2> QED
    BY <2>3, <2>4
<1>14. ASSUME NEW d \in M, NEW r \in Side
       PROVE  /\ u[d] = {d} \cup u[n.child[r][d]] \cup u[n.child[Other(r)][d]]
              /\ \A w \in u[n.child[r][d]] : Before(r, k[w], k[d])
  <2>1. d \in L /\ d # y /\ Other(r) \in Side
    BY <1>7, Sides
  <2>2. /\ under[d] = {d} \cup under[t.child[r][d]] \cup under[t.child[Other(r)][d]]
        /\ \A w \in under[t.child[r][d]] : w \in L /\ Before(r, key[w], key[d])
    BY <2>1, Node
  <2>3. u[n.child[r][d]] = under[t.child[r][d]] \ {y}
    BY <1>13
  <2>4. u[n.child[Other(r)][d]] = under[t.child[Other(r)][d]] \ {y}
    BY <1>13, <2>1
  <2>5. u[d] = under[d] \ {y}
    BY <1>9
  <2>6. \A w \in u[n.child[r][d]] : Before(r, k[w], k[d])
    BY <1>7, <1>8, <2>2, <2>3
  <2> QED
    BY <2>1, <2>2, <2>3, <2>4, <2>5, <2>6
<1>15. ASSUME NEW d \in M
       PROVE  /\ n.parent[d] = nil <=> d = n.root
              /\ d # n.root => n.parent[d] \in M /\ \E r \in Side : n.child[r][n.parent[d]] = d
  <2>1. d \in L /\ d # y /\ d \in Cell /\ d # nil
    BY <1>1, <1>7
  <2>2. /\ t.parent[d] = nil <=> d = t.root
        /\ d # t.root => t.parent[d] \in L /\ \E r \in Side : t.child[r][t.parent[d]] = d
    BY <2>1 DEF Shape
  <2>3. CASE d = x
    <3>1. n.parent[d] = p /\ t.parent[d] = y /\ d # t.root
      BY <1>3, <1>5, <2>1, <2>2, <2>3
    <3>2. p = nil => d = n.root
      BY <1>5, <2>3
    <3>3. p # nil => d # n.root /\ p \in M
      BY <1>4, <1>5, <1>6, <1>7, <3>1
    <3>4. ASSUME p # nil
          PROVE  \E r \in Side : n.child[r][p] = d
      <4>1. PICK r \in Side : t.child[r][p] = y
        BY <1>4, <3>4
      <4>2. n.child[r][p] = x
        BY <1>12, <3>3, <3>4, <4>1
      <4> QED
        BY <2>3, <4>2
    <3> QED
      BY <3>1, <3>2, <3>3, <3>4
  <2>4. CASE d # x
    <3>1. n.parent[d] = t.parent[d]
      BY <1>5, <2>1, <2>4
    <3>2. d = n.root <=> d = t.root
      BY <1>4, <1>5, <2>1, <2>4
    <3>3. ASSUME d # t.root
          PROVE  t.parent[d] \in M /\ \E r \in Side : n.child[r][t.parent[d]] = d
      <4>1. PICK r \in Side : t.child[r][t.parent[d]] = d
        BY <2>2, <3>3
      <4>2. t.parent[d] # y
        <5>1. t.child[r][y] \in {x, nil}
          BY <1>2, Sides
        <5> QED
          BY <2>1, <2>4, <4>1, <5>1
      <4>3. t.parent[d] \in M
        BY <1>7, <2>2, <3>3, <4>2
      <4>4. n.child[r][t.parent[d]] = d
        BY <1>12, <2>1, <4>1, <4>3
      <4> QED
        BY <4>3, <4>4
    <3> QED
      BY <2>2, <3>1, <3>2, <3>3
  <2> QED
    BY <2>3, <2>4
<1>16. M \subseteq Address
  BY <1>1, <1>7
<1> QED
  BY <1>5, <1>8, <1>9, <1>10, <1>11, <1>13, <1>14, <1>15, <1>16 DEF Shape, M, k, u

LEMMA SplicedSettles ==
    ASSUME NEW t, NEW L, NEW key, NEW under, NEW h, Settled(t, L, key, under, h),
           NEW y, NEW x, NEW s, Hanging(t, L, y, x, s), Clean(t, Cell \ L),
           NEW n, SplicedFields(t, n, y, x)
    PROVE  /\ Clean(n, Address \ L) /\ n.color = t.color
           /\ t.color[y] = "red" =>
                 \E j : Settled(n, Without(L, y), KeysWithout(L, key, y), UnderWithout(L, under, y), j)
           /\ t.color[y] = "black" =>
                 \E j : Shrinking(n, x, Without(L, y), KeysWithout(L, key, y),
                                  UnderWithout(L, under, y), j, t.parent[y], SideOf(t, y))
<1> DEFINE M == Without(L, y)
<1> DEFINE k == KeysWithout(L, key, y)
<1> DEFINE u == UnderWithout(L, under, y)
<1> DEFINE p == t.parent[y]
<1> DEFINE e == SideOf(t, y)
<1> DEFINE j == [d \in M \cup {nil} |-> h[d]]
<1>1. /\ Shape(t, L, key, under) /\ Balanced(t, L, h, nil, "left")
      /\ t.color[nil] = "black" /\ t.color[t.root] = "black"
      /\ \A d \in L : t.color[d] = "red" => t.color[t.parent[d]] = "black"
  BY DEF Settled
<1>2. /\ t \in Trees /\ L \subseteq Address /\ nil \notin L /\ L \subseteq Cell
      /\ nil \in Cell /\ t.root \in L \cup {nil} /\ under[t.root] = L /\ under[nil] = {}
      /\ \A d \in L : t.parent[d] = nil <=> d = t.root
      /\ \A d \in L : t.parent[d] \in L \cup {nil}
  BY <1>1, Cells DEF Shape
<1>3. y \in L /\ s \in Side /\ t.child[s][y] = x /\ t.child[Other(s)][y] = nil /\ y # nil
  BY <1>2 DEF Hanging
<1>4. x \in L \cup {nil} /\ x # y /\ (x # nil => t.parent[x] = y)
  BY <1>1, <1>3, Node
<1>5. /\ n \in Trees /\ n.color = t.color /\ n.root = IF p = nil THEN x ELSE t.root
      /\ \A c \in Cell : n.parent[c] = IF c = x THEN p ELSE t.parent[c]
      /\ \A c \in Cell, r \in Side :
            n.child[r][c] = IF c = p /\ p # nil /\ r = e THEN x ELSE t.child[r][c]
  BY DEF SplicedFields
<1>6. e \in Side
  BY DEF SideOf, Side
<1>7. p \in L \cup {nil} /\ (p = nil <=> y = t.root)
  BY <1>2, <1>3
<1>8. p # y
  <2>1. y # t.root => \E r \in Side : t.child[r][p] = y
    BY <1>1, <1>3 DEF Shape
  <2>2. \A r \in Side : t.child[r][y] # y
    BY <1>1, <1>3, Node
  <2> QED
    BY <1>3, <1>7, <2>1, <2>2
<1>9. \A d \in L, r \in Side : d # y =>
          /\ n.child[r][d] = IF t.child[r][d] = y THEN x ELSE t.child[r][d]
          /\ t.child[r][d] \in L \cup {nil}
          /\ t.child[r][d] = y <=> d = p /\ r = e
  BY <1>1, SplicedKids
<1>10. Shape(n, M, k, u)
  BY <1>1, SplicedShape
<1>11. M = L \ {y}
  BY DEF Without
<1> HIDE DEF p, e, M
<1>12. Clean(n, Address \ L)
  <2>1. \A c \in Address \ L : c \in Cell \ L /\ c \in Cell /\ c # nil
    BY Cells
  <2>2. /\ \A c \in Cell \ L : t.parent[c] = nil
        /\ \A c \in (Cell \ L) \cup {nil}, r \in Side : t.child[r][c] = nil
    BY DEF Clean
  <2>3. \A c \in Address \ L : n.parent[c] = nil
    BY <1>4, <1>5, <2>1, <2>2
  <2>4. \A c \in (Address \ L) \cup {nil}, r \in Side : n.child[r][c] = nil
    <3> TAKE c \in (Address \ L) \cup {nil}, r \in Side
    <3>1. c \in Cell \ L /\ c \in Cell
      BY <1>2, <2>1
    <3>2. ~(c = p /\ p # nil /\ r = e)
      BY <1>7, <3>1
    <3> QED
      BY <1>5, <2>2, <3>1, <3>2
  <2> QED
    BY <2>3, <2>4 DEF Clean
<1>13. j \in [M \cup {nil} -> Nat] /\ j[nil] = 0 /\ \A d \in M \cup {nil} : j[d] = h[d]
  <2>1. h \in [L \cup {nil} -> Nat] /\ h[nil] = 0
    BY <1>1 DEF Balanced
  <2> QED
    BY <1>11, <2>1
<1> HIDE DEF j
<1>14. \A d \in L, r \in Side : h[d] = h[t.child[r][d]] + Bit(t, d) + 0
  <2> TAKE d \in L, r \in Side
  <2>1. Counts(t, d, h, nil, "left") /\ d # nil
    BY <1>1, <1>2 DEF Balanced
  <2> QED
    BY <2>1 DEF Counts, Short
<1>15. \A d \in M : Bit(n, d) = Bit(t, d) /\ Bit(t, d) \in Nat
  BY <1>5 DEF Bit
<1>16. ASSUME NEW d \in M, NEW r \in Side
       PROVE  /\ t.child[r][d] = y => j[d] = j[n.child[r][d]] + Bit(n, d) + Bit(t, y)
              /\ t.child[r][d] # y => j[d] = j[n.child[r][d]] + Bit(n, d) + 0
              /\ t.child[r][d] = y <=> d = p /\ r = e
  <2>1. d \in L /\ d # y
    BY <1>11
  <2>2. /\ n.child[r][d] = IF t.child[r][d] = y THEN x ELSE t.child[r][d]
        /\ t.child[r][d] \in L \cup {nil} /\ (t.child[r][d] = y <=> d = p /\ r = e)
    BY <1>9, <2>1
  <2>3. j[d] = h[d]
    BY <1>13
  <2>4. CASE t.child[r][d] = y
    <3>1. h[d] = h[y] + Bit(t, d) + 0
      BY <1>14, <2>1, <2>4
    <3>2. h[y] = h[x] + Bit(t, y) + 0
      BY <1>3, <1>14
    <3>3. x \in M \cup {nil}
      BY <1>4, <1>11
    <3>4. j[n.child[r][d]] = h[x] /\ h[x] \in Nat
      BY <1>13, <2>2, <2>4, <3>3
    <3>5. Bit(t, y) \in Nat
      BY DEF Bit
    <3> QED
      BY <1>15, <2>2, <2>3, <2>4, <3>1, <3>2, <3>4, <3>5
  <2>5. CASE t.child[r][d] # y
    <3>1. t.child[r][d] \in M \cup {nil}
      BY <1>11, <2>2, <2>5
    <3>2. j[n.child[r][d]] = h[t.child[r][d]]
      BY <1>13, <2>2, <2>5, <3>1
    <3>3. h[d] = h[t.child[r][d]] + Bit(t, d) + 0
      BY <1>14, <2>1
    <3> QED
      BY <1>15, <2>2, <2>3, <2>5, <3>2, <3>3
  <2> QED
    BY <2>4, <2>5
<1>17. M \subseteq Address /\ nil \notin M /\ M \subseteq Cell /\ \A d \in M : d \in L /\ d # y
  BY <1>2, <1>11
<1>18. n.color[nil] = "black"
  BY <1>1, <1>5
<1>19. \A d \in M : d # x => n.parent[d] = t.parent[d]
  BY <1>5, <1>17
<1>20. ASSUME t.color[y] = "red"
       PROVE  Settled(n, M, k, u, j)
  <2>1. Bit(t, y) = 0
    BY <1>20 DEF Bit
  <2>2. \A d \in M, r \in Side : j[d] = j[n.child[r][d]] + Bit(n, d) + 0
    BY <1>16, <2>1
  <2>3. \A d \in M : Counts(n, d, j, nil, "left")
    BY <1>17, <2>2, PlainCounts
  <2>4. Balanced(n, M, j, nil, "left")
    BY <1>13, <2>3 DEF Balanced
  <2>5. n.root = t.root
    BY <1>1, <1>5, <1>7, <1>20
  <2>6. \A d \in M : n.color[d] = "red" => n.color[n.parent[d]] = "black"
    <3> TAKE d \in M
    <3> HAVE n.color[d] = "red"
    <3>1. d # x
      BY <1>1, <1>4, <1>5, <1>17, <1>20
    <3> QED
      BY <1>1, <1>5, <1>17, <1>19, <3>1
  <2> QED
    BY <1>1, <1>5, <1>10, <1>18, <2>4, <2>5, <2>6 DEF Settled
<1>21. ASSUME t.color[y] = "black"
       PROVE  Shrinking(n, x, M, k, u, j, p, e)
  <2>1. Bit(t, y) = 1
    BY <1>21 DEF Bit
  <2>2. \A d \in M, r \in Side : j[d] = j[n.child[r][d]] + Bit(n, d) + Short(d, r, p, e)
    BY <1>16, <2>1 DEF Short
  <2>3. \A d \in M : Counts(n, d, j, p, e)
    BY <2>2 DEF Counts
  <2>4. Balanced(n, M, j, p, e)
    BY <1>13, <2>3 DEF Balanced
  <2>5. x \in M \cup {nil}
    BY <1>4, <1>11
  <2>6. x # t.root
    BY <1>2, <1>3, <1>4
  <2>7. x = n.root => p = nil
    BY <1>5, <2>6
  <2>8. x # n.root => p \in M /\ n.parent[x] = p /\ n.child[e][p] = x
    <3> HAVE x # n.root
    <3>1. p # nil
      BY <1>5
    <3>2. p \in M
      BY <1>7, <1>8, <1>11, <3>1
    <3> QED
      BY <1>2, <1>5, <1>6, <1>17, <2>5, <3>1, <3>2
  <2>9. x = n.root \/ n.color[n.root] = "black"
    BY <1>1, <1>5
  <2>10. \A d \in M : n.color[d] = "red" =>
             n.color[n.parent[d]] = "black" \/ d = x \/ n.parent[d] = x
    BY <1>1, <1>5, <1>17, <1>19
  <2> QED
    BY <1>6, <1>10, <1>18, <2>4, <2>5, <2>7, <2>8, <2>9, <2>10 DEF Shrinking
<1>22. t.color[y] = "red" => \E i : Settled(n, M, k, u, i)
  BY <1>20
<1>23. t.color[y] = "black" => \E i : Shrinking(n, x, M, k, u, i, p, e)
  BY <1>21
<1> QED
  BY <1>5, <1>12, <1>22, <1>23 DEF M, p, e

\* A key from outside a subtree is on one side of all of it.
LEMMA Outside ==
    ASSUME NEW t, NEW L, NEW key, NEW under, Shape(t, L, key, under),
           NEW x \in L, NEW w \in L, w \notin under[x], NEW a \in under[x], NEW b \in under[x]
    PROVE  key[a] < key[w] <=> key[b] < key[w]
<1> DEFINE S == {d \in L : x \in under[d] /\ w \in under[d]}
<1>1. under[t.root] = L /\ t.root \in L \cup {nil} /\ under[nil] = {}
  BY DEF Shape
<1>2. t.root \in S
  BY <1>1
<1>3. PICK d \in S : \A s \in Side : t.child[s][d] \notin S
  BY <1>2, Lowest
<1>4. d \in L /\ x \in under[d] /\ w \in under[d] /\ key[d] \in Int
  BY Sides, Node DEF Side
<1>5. key[a] \in Int /\ key[b] \in Int /\ key[w] \in Int
  <2>1. a \in L /\ b \in L
    BY Within
  <2> QED
    BY <2>1 DEF Shape
<1>6. x # d
  BY <1>4
<1>7. PICK s \in Side : x \in under[t.child[s][d]]
  <2>1. "left" \in Side /\ "right" \in Side /\ Other("left") = "right"
    BY DEF Side, Other
  <2>2. under[d] = {d} \cup under[t.child["left"][d]] \cup under[t.child[Other("left")][d]]
    BY <1>4, <2>1, Node
  <2> QED
    BY <1>4, <1>6, <2>1, <2>2
<1> DEFINE c == t.child[s][d]
<1> DEFINE o == t.child[Other(s)][d]
<1> HIDE DEF c, o
<1>8. /\ c \in L \cup {nil} /\ under[d] = {d} \cup under[c] \cup under[o]
      /\ \A v \in under[c] : Before(s, key[v], key[d])
  BY <1>4, Node DEF c, o
<1>9. c \in L /\ under[x] \subseteq under[c]
  <2>1. c \in L
    BY <1>1, <1>7, <1>8 DEF c
  <2> QED
    BY <1>7, <2>1, Within DEF c
<1>10. w \notin under[c]
  BY <1>3, <1>7, <1>9 DEF c
<1>11. Other(s) \in Side /\ \A v \in under[o] : Before(Other(s), key[v], key[d])
  <2>1. Other(s) \in Side
    BY Sides
  <2> QED
    BY <1>4, <2>1, Node DEF o
<1>12. Before(s, key[a], key[d]) /\ Before(s, key[b], key[d])
  BY <1>8, <1>9
<1>13. w = d \/ Before(Other(s), key[w], key[d])
  BY <1>4, <1>8, <1>10, <1>11
<1>14. CASE s = "left"
  <2>1. key[a] < key[d] /\ key[b] < key[d] /\ (w = d \/ key[d] < key[w])
    BY <1>12, <1>13, <1>14 DEF Before, Other
  <2> QED
    BY <1>4, <1>5, <2>1
<1>15. CASE s = "right"
  <2>1. key[d] < key[a] /\ key[d] < key[b] /\ (w = d \/ key[w] < key[d])
    BY <1>12, <1>13, <1>15 DEF Before, Other
  <2> QED
    BY <1>4, <1>5, <2>1
<1> QED
  BY <1>14, <1>15 DEF Side

\* No two nodes have the same key.
LEMMA Distinct ==
    ASSUME NEW t, NEW L, NEW key, NEW under, Shape(t, L, key, under), NEW a \in L, NEW b \in L, a # b
    PROVE  key[a] # key[b]
<1> DEFINE S == {d \in L : a \in under[d] /\ b \in under[d]}
<1>1. under[t.root] = L /\ t.root \in L \cup {nil} /\ under[nil] = {}
  BY DEF Shape
<1>2. t.root \in S
  BY <1>1
<1>3. PICK d \in S : \A s \in Side : t.child[s][d] \notin S
  BY <1>2, Lowest
<1> DEFINE c == t.child["left"][d]
<1> DEFINE o == t.child["right"][d]
<1> HIDE DEF c, o
<1>4. "left" \in Side /\ "right" \in Side /\ Other("left") = "right" /\ Other("right") = "left"
  BY DEF Side, Other
<1>5. d \in L /\ a \in under[d] /\ b \in under[d] /\ c \notin S /\ o \notin S
  BY <1>3, <1>4 DEF c, o
<1>6. /\ c \in L \cup {nil} /\ under[d] = {d} \cup under[c] \cup under[o] /\ key[d] \in Int
      /\ \A v \in under[c] : key[v] \in Int /\ Before("left", key[v], key[d])
  BY <1>4, <1>5, Node DEF c, o
<1>7. o \in L \cup {nil} /\ \A v \in under[o] : key[v] \in Int /\ Before("right", key[v], key[d])
  BY <1>4, <1>5, Node DEF o
<1>8. ~(a \in under[c] /\ b \in under[c]) /\ ~(a \in under[o] /\ b \in under[o])
  BY <1>1, <1>5, <1>6, <1>7
<1>9. \A v \in under[c] : key[v] < key[d] /\ key[v] \in Int
  BY <1>6 DEF Before
<1>10. \A v \in under[o] : key[d] < key[v] /\ key[v] \in Int
  BY <1>7 DEF Before
<1> QED
  BY <1>5, <1>6, <1>8, <1>9, <1>10

LEMMA Rekeyed ==
    ASSUME NEW t, NEW L, NEW key, NEW under, Shape(t, L, key, under),
           NEW new \in [L -> Int], \A a, b \in L : key[a] < key[b] => new[a] < new[b]
    PROVE  Shape(t, L, new, under)
<1>1. ASSUME NEW x \in L, NEW s \in Side
      PROVE  \A w \in under[t.child[s][x]] : Before(s, new[w], new[x])
  <2> TAKE w \in under[t.child[s][x]]
  <2>1. w \in L /\ Before(s, key[w], key[x])
    BY Node
  <2> QED
    BY <2>1 DEF Before
<1> QED
  BY <1>1 DEF Shape

\* rbtree_mini
LEMMA MiniIs ==
    ASSUME NEW under, Shape(T, Live, Keys, under), NEW r \in Live
    PROVE  /\ Mini(r) \in under[r] /\ T.child["left"][Mini(r)] = nil
           /\ \A w \in under[r] : Keys[Mini(r)] <= Keys[w]
<1> DEFINE D == Live
<1> DEFINE stop == {x \in D : T.child["left"][x] = nil}
<1> DEFINE base == [x \in D |-> x]
<1> DEFINE next == [x \in D \ stop |-> T.child["left"][x]]
<1> DEFINE step == [p \in D \X D |-> p[2]]
<1> DEFINE rank == [x \in D |-> DownRank(Live, under)[x]]
<1> DEFINE Loop(f) == f = [x \in D |-> IF T.child["left"][x] = nil THEN x
                                       ELSE f[T.child["left"][x]]]
<1> DEFINE mini == CHOOSE f : Loop(f)
<1>1. Mini(r) = mini[r]
  BY DEF Mini
<1>2. nil \notin Live /\ under[nil] = {} /\ "left" \in Side /\ Other("left") = "right"
      /\ "right" \in Side
  BY Cells DEF Shape, Side, Other
<1>3. \A x \in Live : T.child["left"][x] \in D \cup {nil} /\ Keys[x] \in Int
  BY <1>2 DEF Shape
<1>4. \E f \in [D -> D] : Loop(f)
  <2>1. next \in [D \ stop -> D]
    BY <1>3
  <2>2. rank \in [D -> 0 .. MaxNodes] /\ \A x \in D \ stop : rank[next[x]] < rank[x]
    <3>1. \A x \in Live : DownRank(Live, under)[T.child["left"][x]] < DownRank(Live, under)[x]
      BY <1>2, Deeper
    <3>2. DownRank(Live, under) \in [Live \cup {nil} -> 0 .. MaxNodes]
      BY Deeper
    <3>3. \A x \in D \ stop : x \in Live /\ next[x] = T.child["left"][x]
      OBVIOUS
    <3>4. \A x \in D \ stop : rank[next[x]] = DownRank(Live, under)[T.child["left"][x]]
      BY <2>1, <3>3
    <3> QED
      BY <3>1, <3>2, <3>3, <3>4
  <2>3. base \in [D -> D] /\ step \in [D \X D -> D] /\ stop \in SUBSET D
    OBVIOUS
  <2> HIDE DEF rank, stop, base, next, step, D
  <2>4. PICK f \in [D -> D] : Follows(f, D, stop, base, next, step)
    BY <2>1, <2>2, <2>3, Recursion
  <2>5. ASSUME NEW x \in D
        PROVE  f[x] = IF T.child["left"][x] = nil THEN x ELSE f[T.child["left"][x]]
    <3>1. f[x] = IF x \in stop THEN base[x] ELSE step[<<x, f[next[x]]>>]
      BY <2>4 DEF Follows
    <3>2. CASE x \in stop
      BY <3>1, <3>2 DEF stop, base
    <3>3. CASE x \notin stop
      <4>1. T.child["left"][x] # nil /\ next[x] = T.child["left"][x] /\ next[x] \in D
        BY <2>1, <3>3 DEF stop, next
      <4>2. f[next[x]] \in D
        BY <4>1
      <4>3. step[<<x, f[next[x]]>>] = f[next[x]]
        BY <4>2 DEF step
      <4> QED
        BY <3>1, <3>3, <4>1, <4>3
    <3> QED
      BY <3>2, <3>3
  <2>6. f = [x \in D |-> f[x]]
    OBVIOUS
  <2>7. Loop(f)
    BY <2>5, <2>6
  <2> HIDE DEF Loop
  <2> QED
    BY <2>7
<1>5. Loop(mini)
  <2> HIDE DEF Loop
  <2> QED
    BY <1>4
<1> HIDE DEF mini
<1>6. \A x \in Live : mini[x] = IF T.child["left"][x] = nil THEN x ELSE mini[T.child["left"][x]]
  BY <1>5
<1> HIDE DEF Loop, stop, base, next, step, rank
<1> DEFINE Good(x) == /\ mini[x] \in under[x] /\ T.child["left"][mini[x]] = nil
                      /\ \A w \in under[x] : Keys[mini[x]] <= Keys[w]
<1> DEFINE S == {x \in Live : ~Good(x)}
<1>7. S = {}
  <2> SUFFICES ASSUME S # {}
               PROVE  FALSE
    OBVIOUS
  <2>1. PICK x \in S : \A s \in Side : T.child[s][x] \notin S
    BY Lowest
  <2> DEFINE c == T.child["left"][x]
  <2> DEFINE o == T.child["right"][x]
  <2> HIDE DEF c, o
  <2>2. x \in Live /\ ~Good(x) /\ c \notin S
    BY <1>2, <2>1 DEF c
  <2>3. /\ c \in Live \cup {nil} /\ under[x] = {x} \cup under[c] \cup under[o] /\ Keys[x] \in Int
        /\ \A v \in under[c] : Keys[v] \in Int /\ Before("left", Keys[v], Keys[x])
    BY <1>2, <2>2, Node DEF c, o
  <2>4. \A v \in under[o] : Keys[v] \in Int /\ Before("right", Keys[v], Keys[x])
    BY <1>2, <2>2, Node DEF o
  <2>5. \A v \in under[o] : Keys[x] < Keys[v] /\ Keys[v] \in Int
    BY <2>4 DEF Before
  <2>6. \A v \in under[c] : Keys[v] < Keys[x] /\ Keys[v] \in Int
    BY <2>3 DEF Before
  <2>7. mini[x] = IF c = nil THEN x ELSE mini[c]
    BY <1>6, <2>2 DEF c
  <2>8. CASE c = nil
    <3>1. mini[x] = x /\ T.child["left"][x] = nil
      BY <2>7, <2>8 DEF c
    <3>2. \A w \in under[x] : Keys[x] <= Keys[w]
      BY <1>2, <2>3, <2>5, <2>8
    <3> QED
      BY <2>2, <2>3, <3>1, <3>2
  <2>9. CASE c # nil
    <3>1. Good(c) /\ mini[x] = mini[c]
      BY <2>2, <2>3, <2>7, <2>9
    <3>2. Keys[mini[c]] < Keys[x] /\ Keys[mini[c]] \in Int
      BY <2>6, <3>1
    <3>3. \A w \in under[x] : Keys[mini[c]] <= Keys[w]
      BY <2>3, <2>5, <3>1, <3>2
    <3> QED
      BY <2>2, <2>3, <3>1, <3>3
  <2> QED
    BY <2>8, <2>9
<1>8. Good(r)
  BY <1>7
<1> QED
  BY <1>1, <1>8

\* n has the next key after x's, or is nil when there is none.
NextIs(x, n) ==
    /\ n \in Live \cup {nil}
    /\ n = nil => \A w \in Live : Keys[w] <= Keys[x]
    /\ n # nil => Keys[x] < Keys[n] /\ \A w \in Live : Keys[x] < Keys[w] => Keys[n] <= Keys[w]

LEMMA MiniIsNext ==
    ASSUME NEW under, Shape(T, Live, Keys, under), NEW z \in Live, T.child["right"][z] # nil
    PROVE  /\ NextIs(z, Mini(T.child["right"][z])) /\ Mini(T.child["right"][z]) \in Live
           /\ T.child["left"][Mini(T.child["right"][z])] = nil
<1> DEFINE c == T.child["right"][z]
<1> DEFINE o == T.child["left"][z]
<1> DEFINE y == Mini(c)
<1>1. "left" \in Side /\ "right" \in Side /\ Other("right") = "left" /\ Other("left") = "right"
  BY DEF Side, Other
<1> HIDE DEF c, o
<1>2. /\ c \in Live /\ under[z] = {z} \cup under[c] \cup under[o] /\ Keys[z] \in Int
      /\ \A v \in under[c] : v \in Live /\ Keys[v] \in Int /\ Before("right", Keys[v], Keys[z])
  <2>1. c # nil
    BY DEF c
  <2>2. /\ c \in Live \cup {nil} /\ under[z] = {z} \cup under[c] \cup under[o] /\ Keys[z] \in Int
        /\ \A v \in under[c] : v \in Live /\ Keys[v] \in Int /\ Before("right", Keys[v], Keys[z])
    BY <1>1, Node DEF c, o
  <2> QED
    BY <2>1, <2>2
<1>3. \A v \in under[o] : Keys[v] \in Int /\ Before("left", Keys[v], Keys[z])
  BY <1>1, Node DEF o
<1>4. /\ y \in under[c] /\ T.child["left"][y] = nil
      /\ \A w \in under[c] : Keys[y] <= Keys[w]
  BY <1>2, MiniIs
<1> HIDE DEF y
<1>5. y \in Live /\ Keys[y] \in Int /\ Keys[z] < Keys[y]
  BY <1>2, <1>4 DEF Before
<1>6. ASSUME NEW w \in Live, Keys[z] < Keys[w]
      PROVE  Keys[y] <= Keys[w]
  <2>0. Keys[w] \in Int
    BY DEF Shape
  <2>1. CASE w \in under[c]
    BY <1>4, <2>1
  <2>2. CASE w \in under[o]
    <3>1. Keys[w] < Keys[z]
      BY <1>3, <2>2 DEF Before
    <3> QED
      BY <1>2, <1>6, <2>0, <3>1
  <2>3. CASE w = z
    BY <1>2, <1>6, <2>3
  <2>4. CASE w \notin under[z]
    <3>1. z \in under[z] /\ y \in under[z]
      BY <1>2, <1>4
    <3>2. Keys[z] < Keys[w] <=> Keys[y] < Keys[w]
      BY <2>4, <3>1, Outside
    <3> QED
      BY <1>5, <1>6, <2>0, <3>2
  <2> QED
    BY <1>2, <2>1, <2>2, <2>3, <2>4
<1>7. nil \notin Live
  BY Cells DEF Shape
<1>8. NextIs(z, y)
  BY <1>5, <1>6, <1>7 DEF NextIs
<1> QED
  BY <1>4, <1>5, <1>8 DEF y, c

\* The node that is taken out: z itself, or the one with the next key.
LEMMA RemovedIs ==
    ASSUME NEW under, Shape(T, Live, Keys, under), NEW z \in Live
    PROVE  /\ Removed(z) \in Live /\ \E s \in Side : T.child[s][Removed(z)] = nil
           /\ Removed(z) # z => NextIs(z, Removed(z))
<1>1. CASE \E s \in Side : T.child[s][z] = nil
  <2>1. Removed(z) = z
    BY <1>1 DEF Removed
  <2> QED
    BY <1>1, <2>1
<1>2. CASE ~ \E s \in Side : T.child[s][z] = nil
  <2>1. "left" \in Side /\ T.child["right"][z] # nil
    BY <1>2 DEF Side
  <2>2. Removed(z) = Mini(T.child["right"][z])
    BY <1>2, <2>1 DEF Removed, Successor
  <2>3. /\ NextIs(z, Removed(z)) /\ Removed(z) \in Live
        /\ T.child["left"][Removed(z)] = nil
    BY <2>1, <2>2, MiniIsNext
  <2> QED
    BY <2>1, <2>3
<1> QED
  BY <1>1, <1>2

\* The last assignments of rbtree_delete: the node and nil forget their links.
Dropped(t, y) ==
    [t EXCEPT !.parent[nil] = nil, !.parent[y] = nil, !.color[y] = "black",
              !.child["left"][y] = nil, !.child["right"][y] = nil]

LEMMA DroppedIs ==
    ASSUME NEW t \in Trees, NEW y \in Cell
    PROVE  LET n == Dropped(t, y)
           IN  /\ n \in Trees /\ n.root = t.root
               /\ \A c \in Cell : /\ n.parent[c] = IF c = nil \/ c = y THEN nil ELSE t.parent[c]
                                  /\ n.color[c] = IF c = y THEN "black" ELSE t.color[c]
               /\ \A c \in Cell, r \in Side : n.child[r][c] = IF c = y THEN nil ELSE t.child[r][c]
<1> DEFINE n == Dropped(t, y)
<1> DEFINE par == [t.parent EXCEPT ![nil] = nil, ![y] = nil]
<1> DEFINE hue == [t.color EXCEPT ![y] = "black"]
<1> DEFINE kids == [t.child EXCEPT !["left"] = [t.child["left"] EXCEPT ![y] = nil],
                                   !["right"] = [t.child["right"] EXCEPT ![y] = nil]]
<1>1. "left" \in Side /\ "right" \in Side /\ "left" # "right" /\ nil \in Cell /\ "black" \in Color
      /\ \A r \in Side : r = "left" \/ r = "right"
  BY Cells DEF Side, Color
<1>2. kids \in [Side -> [Cell -> Cell]] /\ par \in [Cell -> Cell] /\ hue \in [Cell -> Color]
  BY <1>1 DEF Trees
<1>3. n = [t EXCEPT !.parent = par, !.color = hue, !.child = kids]
  BY <1>1 DEF Trees, Dropped
<1>4. \A c \in Cell : /\ par[c] = IF c = nil \/ c = y THEN nil ELSE t.parent[c]
                      /\ hue[c] = IF c = y THEN "black" ELSE t.color[c]
  BY <1>1 DEF Trees
<1>5. \A c \in Cell, r \in Side : kids[r][c] = IF c = y THEN nil ELSE t.child[r][c]
  BY <1>1 DEF Trees
<1> HIDE DEF kids, par, hue, n
<1>6. n \in Trees /\ n.root = t.root /\ n.parent = par /\ n.color = hue /\ n.child = kids
  BY <1>2, <1>3 DEF Trees
<1> QED
  BY <1>4, <1>5, <1>6 DEF n

LEMMA DroppedSettles ==
    ASSUME NEW t, NEW L, NEW key, NEW under, NEW h, Settled(t, L, key, under, h),
           NEW y \in Address, y \notin L, Clean(t, Address \ With(L, y))
    PROVE  Settled(Dropped(t, y), L, key, under, h) /\ Clean(Dropped(t, y), Cell \ L)
<1> DEFINE n == Dropped(t, y)
<1>1. /\ Shape(t, L, key, under) /\ Balanced(t, L, h, nil, "left")
      /\ t.color[nil] = "black" /\ t.color[t.root] = "black"
      /\ \A x \in L : t.color[x] = "red" => t.color[t.parent[x]] = "black"
  BY DEF Settled
<1>2. /\ t \in Trees /\ L \subseteq Cell /\ nil \notin L /\ nil \in Cell /\ y \in Cell /\ y # nil
      /\ t.root \in L \cup {nil}
      /\ \A x \in L : t.parent[x] \in L \cup {nil}
      /\ \A x \in L, r \in Side : t.child[r][x] \in L \cup {nil}
  BY <1>1, Cells DEF Shape
<1>3. /\ n \in Trees /\ n.root = t.root
      /\ \A c \in Cell : /\ n.parent[c] = IF c = nil \/ c = y THEN nil ELSE t.parent[c]
                         /\ n.color[c] = IF c = y THEN "black" ELSE t.color[c]
      /\ \A c \in Cell, r \in Side : n.child[r][c] = IF c = y THEN nil ELSE t.child[r][c]
  BY <1>2, DroppedIs
<1> HIDE DEF n
<1>4. /\ \A x \in L : n.parent[x] = t.parent[x]
      /\ \A x \in L \cup {nil} : n.color[x] = t.color[x]
      /\ \A x \in L, r \in Side : n.child[r][x] = t.child[r][x]
  BY <1>2, <1>3
<1>5. Shape(n, L, key, under)
  <2>1. /\ L \subseteq Address /\ key \in [L -> Int]
        /\ under \in [L \cup {nil} -> SUBSET L] /\ under[nil] = {} /\ under[t.root] = L
    BY <1>1 DEF Shape
  <2>2. \A x \in L, s \in Side :
          /\ t.child[s][x] \in L \cup {nil}
          /\ under[x] = {x} \cup under[t.child[s][x]] \cup under[t.child[Other(s)][x]]
          /\ \A w \in under[t.child[s][x]] : Before(s, key[w], key[x])
          /\ t.child[s][x] # nil => t.parent[t.child[s][x]] = x
    BY <1>1 DEF Shape
  <2>3. ASSUME NEW x \in L, NEW s \in Side
        PROVE  /\ n.child[s][x] \in L \cup {nil}
               /\ under[x] = {x} \cup under[n.child[s][x]] \cup under[n.child[Other(s)][x]]
               /\ \A w \in under[n.child[s][x]] : Before(s, key[w], key[x])
               /\ n.child[s][x] # nil => n.parent[n.child[s][x]] = x
    <3>1. Other(s) \in Side
      BY Sides
    <3>2. n.child[s][x] = t.child[s][x] /\ n.child[Other(s)][x] = t.child[Other(s)][x]
      BY <1>4, <3>1
    <3>3. n.child[s][x] # nil => n.parent[n.child[s][x]] = t.parent[t.child[s][x]]
      BY <1>2, <1>4, <3>2
    <3> QED
      BY <2>2, <3>2, <3>3
  <2>4. ASSUME NEW x \in L
        PROVE  /\ n.parent[x] = nil <=> x = n.root
               /\ x # n.root => n.parent[x] \in L /\ \E s \in Side : n.child[s][n.parent[x]] = x
    <3>1. /\ t.parent[x] = nil <=> x = t.root
          /\ x # t.root => t.parent[x] \in L /\ \E s \in Side : t.child[s][t.parent[x]] = x
      BY <1>1 DEF Shape
    <3>2. n.parent[x] = t.parent[x] /\ n.root = t.root
      BY <1>3, <1>4
    <3> QED
      BY <1>4, <3>1, <3>2
  <2> QED
    BY <1>2, <1>3, <2>1, <2>3, <2>4 DEF Shape
<1>6. Balanced(n, L, h, nil, "left")
  <2>1. h \in [L \cup {nil} -> Nat] /\ h[nil] = 0 /\ \A x \in L : Counts(t, x, h, nil, "left")
    BY <1>1 DEF Balanced
  <2>2. \A x \in L : Bit(n, x) = Bit(t, x)
    BY <1>4 DEF Bit
  <2>3. \A x \in L : Counts(n, x, h, nil, "left")
    BY <1>4, <2>1, <2>2 DEF Counts
  <2> QED
    BY <2>1, <2>3 DEF Balanced
<1>7. \A x \in L : n.color[x] = "red" => n.color[n.parent[x]] = "black"
  BY <1>1, <1>2, <1>4
<1>8. n.color[nil] = "black" /\ n.color[n.root] = "black"
  BY <1>1, <1>2, <1>3, <1>4
<1>9. Settled(n, L, key, under, h)
  BY <1>5, <1>6, <1>7, <1>8 DEF Settled
<1>10. Clean(n, Cell \ L)
  <2>1. \A c \in Cell \ L : c = nil \/ c = y \/ c \in Address \ With(L, y)
    BY DEF Cell, With
  <2>2. /\ \A c \in Address \ With(L, y) : t.parent[c] = nil
        /\ \A c \in (Address \ With(L, y)) \cup {nil}, r \in Side : t.child[r][c] = nil
    BY DEF Clean
  <2>3. \A c \in Cell \ L : n.parent[c] = nil
    BY <1>3, <2>1, <2>2
  <2>4. \A c \in (Cell \ L) \cup {nil}, r \in Side : n.child[r][c] = nil
    BY <1>2, <1>3, <2>1, <2>2
  <2> QED
    BY <2>3, <2>4 DEF Clean
<1> QED
  BY <1>9, <1>10 DEF n

\* The keys after a deletion: z has that of the node taken out.
DeletedKeys(z) ==
    [x \in Without(Live, Removed(z)) |-> IF x = z THEN Keys[Removed(z)] ELSE Keys[x]]

LEMMA DeletedSettles ==
    ASSUME NEW under, NEW h, Settled(T, Live, Keys, under, h), Clean(T, Cell \ Live), NEW z \in Live
    PROVE  /\ Clean(Deleted(z), Cell \ Without(Live, Removed(z)))
           /\ \E u, j : Settled(Deleted(z), Without(Live, Removed(z)), DeletedKeys(z), u, j)
<1> DEFINE y == Removed(z)
<1> DEFINE M == Without(Live, y)
<1> DEFINE x == IF T.child["left"][y] # nil THEN T.child["left"][y] ELSE T.child["right"][y]
<1> DEFINE spliced == [Replaced(T, y, x) EXCEPT !.parent[x] = T.parent[y]]
<1> DEFINE fixed == IF T.color[y] = "black" THEN DeleteFixup(spliced, x) ELSE spliced
<1> DEFINE k == KeysWithout(Live, Keys, y)
<1>1. Shape(T, Live, Keys, under)
  BY DEF Settled
<1>2. /\ y \in Live /\ \E s \in Side : T.child[s][y] = nil
      /\ y # z => Keys[z] < Keys[y] /\ \A w \in Live : Keys[z] < Keys[w] => Keys[y] <= Keys[w]
  <2>1. nil \notin Live
    BY <1>1, Cells DEF Shape
  <2>2. /\ y \in Live /\ \E s \in Side : T.child[s][y] = nil
        /\ y # z => NextIs(z, y)
    BY <1>1, RemovedIs
  <2> HIDE DEF y
  <2> QED
    BY <2>1, <2>2 DEF NextIs
<1>3. Deleted(z) = Dropped(fixed, y)
  BY DEF Deleted, Dropped
<1>4. /\ T \in Trees /\ Live \subseteq Address /\ Live \subseteq Cell /\ nil \notin Live /\ Keys \in [Live -> Int]
      /\ \A s \in Side : T.child[s][y] \in Live \cup {nil}
  BY <1>1, <1>2, Cells DEF Shape
<1> HIDE DEF y
<1>5. x \in Cell /\ y \in Cell /\ y \in Address
  BY <1>2, <1>4, Cells DEF Side
<1>6. PICK s \in Side : Hanging(T, Live, y, x, s)
  <2>1. "left" \in Side /\ "right" \in Side /\ Other("left") = "right" /\ Other("right") = "left"
        /\ \A s \in Side : s = "left" \/ s = "right"
    BY DEF Side, Other
  <2>2. CASE T.child["left"][y] # nil
    <3>1. T.child["right"][y] = nil
      BY <1>2, <2>1, <2>2
    <3>2. Hanging(T, Live, y, x, "left")
      BY <1>2, <2>1, <2>2, <3>1 DEF Hanging
    <3> QED
      BY <2>1, <3>2
  <2>3. CASE T.child["left"][y] = nil
    <3>1. Hanging(T, Live, y, x, "right")
      BY <1>2, <2>1, <2>3 DEF Hanging
    <3> QED
      BY <2>1, <3>1
  <2> QED
    BY <2>2, <2>3
<1> HIDE DEF x
<1>7. SplicedFields(T, spliced, y, x)
  BY <1>4, <1>5, SplicedIs
<1> HIDE DEF spliced
<1>8. /\ Clean(spliced, Address \ Live)
      /\ T.color[y] = "red" =>
            \E j : Settled(spliced, M, k, UnderWithout(Live, under, y), j)
      /\ T.color[y] = "black" =>
            \E j : Shrinking(spliced, x, M, k, UnderWithout(Live, under, y), j,
                             T.parent[y], SideOf(T, y))
  BY <1>6, <1>7, SplicedSettles
<1>9. T.color[y] = "red" \/ T.color[y] = "black"
  BY <1>4, <1>5, TreeFields DEF Color
<1>10. M = Live \ {y}
  BY DEF Without
<1> HIDE DEF M, k
<1>11. Clean(fixed, Address \ Live) /\ \E u, j : Settled(fixed, M, k, u, j)
  <2>1. CASE T.color[y] = "red"
    <3>1. fixed = spliced
      BY <2>1
    <3> HIDE DEF fixed
    <3> QED
      BY <1>8, <2>1, <3>1
  <2>2. CASE T.color[y] = "black"
    <3>1. fixed = DeleteFixup(spliced, x)
      BY <2>2
    <3> HIDE DEF fixed
    <3>2. PICK j : Shrinking(spliced, x, M, k, UnderWithout(Live, under, y), j,
                             T.parent[y], SideOf(T, y))
      BY <1>8, <2>2
    <3>3. M # Address /\ Address \ Live \in SUBSET Cell /\ (Address \ Live) \cap M = {}
      BY <1>5, <1>10, Cells
    <3>4. /\ Clean(DeleteFixup(spliced, x), Address \ Live)
          /\ \E u, i : Settled(DeleteFixup(spliced, x), M, k, u, i)
      BY <1>8, <3>2, <3>3, DeleteFixupSettles
    <3> QED
      BY <3>1, <3>4
  <2> QED
    BY <1>9, <2>1, <2>2
<1> HIDE DEF fixed
<1>12. PICK u, j : Settled(fixed, M, k, u, j)
  BY <1>11
<1>13. y \notin M /\ Address \ With(M, y) = Address \ Live
  BY <1>2, <1>10 DEF With
<1>14. Settled(Dropped(fixed, y), M, k, u, j) /\ Clean(Dropped(fixed, y), Cell \ M)
  BY <1>5, <1>11, <1>12, <1>13, DroppedSettles
<1>15. Settled(Dropped(fixed, y), M, DeletedKeys(z), u, j)
  <2> DEFINE new == DeletedKeys(z)
  <2> DEFINE n == Dropped(fixed, y)
  <2>1. \A a \in M : new[a] = IF a = z THEN Keys[y] ELSE Keys[a]
    BY DEF DeletedKeys, M, y
  <2>2. \A a \in M : k[a] = Keys[a] /\ a \in Live /\ a # y
    BY <1>10 DEF k, KeysWithout, M
  <2>3. DOMAIN new = M /\ new = [a \in M |-> new[a]]
    BY DEF DeletedKeys, M, y
  <2> HIDE DEF new, n
  <2>4. \A a \in Live : Keys[a] \in Int
    BY <1>4
  <2>5. new \in [M -> Int]
    BY <1>2, <2>1, <2>2, <2>3, <2>4
  <2>6. ASSUME NEW a \in M, NEW b \in M, k[a] < k[b]
        PROVE  new[a] < new[b]
    <3>1. a \in Live /\ b \in Live /\ Keys[a] \in Int /\ Keys[b] \in Int /\ Keys[y] \in Int
          /\ Keys[a] < Keys[b] /\ a # y /\ b # y
      BY <1>2, <2>2, <2>4, <2>6
    <3>2. CASE a = z
      <4>1. Keys[y] <= Keys[b] /\ new[a] = Keys[y] /\ new[b] = Keys[b]
        BY <1>2, <2>1, <3>1, <3>2
      <4>2. Keys[y] # Keys[b]
        BY <1>1, <1>2, <3>1, Distinct
      <4> QED
        BY <3>1, <4>1, <4>2
    <3>3. CASE b = z
      <4>1. Keys[z] < Keys[y] /\ new[b] = Keys[y] /\ new[a] = Keys[a]
        BY <1>2, <2>1, <3>1, <3>3
      <4> QED
        BY <3>1, <3>3, <4>1
    <3>4. CASE a # z /\ b # z
      BY <2>1, <3>1, <3>4
    <3> QED
      BY <3>2, <3>3, <3>4
  <2>7. Shape(n, M, k, u)
    BY <1>14 DEF Settled, n
  <2>8. Shape(n, M, new, u)
    BY <2>5, <2>6, <2>7, Rekeyed
  <2>9. Settled(n, M, new, u, j)
    BY <1>14, <2>8 DEF Settled, n
  <2> QED
    BY <2>9 DEF n, new
<1> QED
  BY <1>3, <1>14, <1>15 DEF M, y

-------------------------------------------------------------------------------
\* The inductive invariant: a tree at rest over the nodes in use, and nothing
\* anywhere else.
Item == [key : Key, value : Value \cup {Null}, timestamp : Time]
Rests(t, L, key) == Clean(t, Cell \ L) /\ \E under, h : Settled(t, L, key, under, h)
Invariant ==
    /\ item \in [Live -> Item] /\ up \in BOOLEAN /\ degraded \in BOOLEAN
    /\ Rests(T, Live, Keys)

LEMMA KeysAre ==
    ASSUME item \in [Live -> Item]
    PROVE  /\ \A x \in Live : /\ item[x].key \in Key /\ Keys[x] = item[x].key
                              /\ item[x].value \in Value \cup {Null} /\ item[x].timestamp \in Time
           /\ Keys \in [Live -> Int]
BY KeyAssumption DEF Item, Keys

LEMMA Initially == Init => Invariant
<1> SUFFICES ASSUME Init
             PROVE  Invariant
  OBVIOUS
<1> DEFINE none == [x \in Cell |-> nil]
<1>1. /\ T = [root |-> nil, child |-> [s \in Side |-> none], parent |-> none,
              color |-> [x \in Cell |-> "black"]]
      /\ item = [x \in {} |-> 0] /\ up = TRUE /\ degraded = FALSE
  BY DEF Init, Cell
<1>2. Live = {}
  BY <1>1 DEF Live
<1>3. item \in [Live -> Item]
  BY <1>1, <1>2
<1>4. none \in [Cell -> Cell] /\ "black" \in Color
  BY Cells DEF Color
<1>5. T \in Trees
  BY <1>1, <1>4, Cells DEF Trees
<1>6. T.root = nil /\ T.color[nil] = "black"
      /\ \A c \in Cell : T.parent[c] = nil /\ \A s \in Side : T.child[s][c] = nil
  BY <1>1, Cells
<1>7. Clean(T, Cell \ Live)
  BY <1>6, Cells DEF Clean
<1> DEFINE under == [x \in {nil} |-> {}]
<1> DEFINE h == [x \in {nil} |-> 0]
<1>8. Shape(T, {}, Keys, under)
  <2>1. Keys \in [{} -> Int]
    BY <1>2 DEF Keys
  <2>2. under \in [{} \cup {nil} -> SUBSET {}] /\ under[nil] = {}
    OBVIOUS
  <2> HIDE DEF under
  <2> QED
    BY <1>5, <1>6, <2>1, <2>2 DEF Shape
<1>9. Balanced(T, {}, h, nil, "left")
  BY DEF Balanced
<1>10. Settled(T, {}, Keys, under, h)
  BY <1>6, <1>8, <1>9 DEF Settled
<1> HIDE DEF under, h
<1>11. Rests(T, Live, Keys)
  BY <1>2, <1>7, <1>10 DEF Rests
<1> QED
  BY <1>1, <1>3, <1>11 DEF Invariant

\* A SET that links a new node in.
LEMMA SetRests ==
    ASSUME Invariant, NEW k \in Key, NEW v \in Value, NEW t \in Time, Search(k) = nil,
           NEW new \in Address, new \notin Live,
           T' = Inserted(new, k),
           item' = [x \in Live \cup {new} |->
                       IF x = new THEN [key |-> k, value |-> v, timestamp |-> t] ELSE item[x]]
    PROVE  item' \in [Live' -> Item] /\ Rests(T, Live, Keys)' /\ Live' = With(Live, new)
<1>1. item \in [Live -> Item] /\ k \in Int
  BY KeyAssumption DEF Invariant
<1>2. PICK under, h : Settled(T, Live, Keys, under, h) /\ Clean(T, Cell \ Live)
  BY DEF Invariant, Rests
<1>3. Live' = With(Live, new)
  BY DEF Live, With
<1>4. item' \in [Live' -> Item]
  BY <1>1, <1>3 DEF With, Item
<1>5. Keys' = WithKey(Live, Keys, new, k)
  <2>1. Keys' = [x \in With(Live, new) |-> item'[x].key]
    BY <1>3 DEF Keys
  <2>2. \A x \in With(Live, new) : item'[x].key = IF x = new THEN k ELSE Keys[x]
    BY DEF With, Keys
  <2> QED
    BY <2>1, <2>2 DEF WithKey
<1>6. /\ Clean(Inserted(new, k), Cell \ With(Live, new))
      /\ \E u, j : Settled(Inserted(new, k), With(Live, new), WithKey(Live, Keys, new, k), u, j)
  BY <1>1, <1>2, InsertedSettles
<1>7. Rests(T, Live, Keys)'
  BY <1>3, <1>5, <1>6 DEF Rests
<1> QED
  BY <1>3, <1>4, <1>7

\* A DEL that takes a node out.
LEMMA DelRests ==
    ASSUME Invariant, NEW z \in Live, T' = Deleted(z), item' = DeletedItems(z)
    PROVE  item' \in [Live' -> Item] /\ Rests(T, Live, Keys)' /\ Live' = Without(Live, Removed(z))
<1> DEFINE y == Removed(z)
<1>1. item \in [Live -> Item]
  BY DEF Invariant
<1>2. PICK under, h : Settled(T, Live, Keys, under, h) /\ Clean(T, Cell \ Live)
  BY DEF Invariant, Rests
<1>3. y \in Live
  BY <1>2, RemovedIs DEF Settled
<1>4. /\ Clean(Deleted(z), Cell \ Without(Live, y))
      /\ \E u, j : Settled(Deleted(z), Without(Live, y), DeletedKeys(z), u, j)
  BY <1>2, DeletedSettles
<1>5. item' = [x \in Without(Live, y) |->
                  IF x = z THEN [item[z] EXCEPT !.key = item[y].key, !.value = item[y].value]
                  ELSE item[x]]
  BY DEF DeletedItems, Without
<1>6. DeletedKeys(z) = [x \in Without(Live, y) |-> IF x = z THEN Keys[y] ELSE Keys[x]]
  BY DEF DeletedKeys
<1> HIDE DEF y
<1>7. Live' = Without(Live, y) /\ Without(Live, y) \subseteq Live
  BY <1>5 DEF Live, Without
<1>8. [item[z] EXCEPT !.key = item[y].key, !.value = item[y].value] \in Item
  BY <1>1, <1>3 DEF Item
<1>9. item' \in [Live' -> Item]
  BY <1>1, <1>5, <1>7, <1>8
<1>10. Keys' = DeletedKeys(z)
  <2>1. Keys' = [x \in Without(Live, y) |-> item'[x].key]
    BY <1>7 DEF Keys
  <2>2. \A x \in Without(Live, y) : item'[x].key = IF x = z THEN Keys[y] ELSE Keys[x]
    <3> TAKE x \in Without(Live, y)
    <3>1. Keys[x] = item[x].key /\ Keys[y] = item[y].key
      BY <1>3, <1>7 DEF Keys
    <3>2. [item[z] EXCEPT !.key = item[y].key, !.value = item[y].value].key = item[y].key
      BY <1>1 DEF Item
    <3> QED
      BY <1>5, <3>1, <3>2
  <2> QED
    BY <1>6, <2>1, <2>2
<1>11. Rests(T, Live, Keys)'
  BY <1>4, <1>7, <1>10 DEF Rests
<1> QED
  BY <1>7, <1>9, <1>11 DEF y

\* A MOD leaves the tree and the keys as they are.
LEMMA ModRests ==
    ASSUME Invariant, NEW x \in Live, NEW i \in Item, i.key = item[x].key,
           T' = T, item' = [item EXCEPT ![x] = i]
    PROVE  item' \in [Live' -> Item] /\ Rests(T, Live, Keys)' /\ Live' = Live
<1>1. item \in [Live -> Item] /\ Rests(T, Live, Keys)
  BY DEF Invariant
<1>2. Live' = Live
  BY DEF Live
<1>3. item' \in [Live' -> Item]
  BY <1>1, <1>2
<1>4. Keys' = Keys
  <2>1. Keys' = [w \in Live |-> item'[w].key]
    BY <1>2 DEF Keys
  <2>2. \A w \in Live : item'[w].key = item[w].key
    BY <1>1
  <2> QED
    BY <2>1, <2>2 DEF Keys
<1> QED
  BY <1>1, <1>2, <1>3, <1>4 DEF Rests

LEMMA Found ==
    ASSUME Invariant, NEW k \in Key
    PROVE  /\ k \in Int /\ Search(k) \in Live \cup {nil} /\ nil \notin Live
           /\ Search(k) = nil => \A x \in Live : item[x].key # k
           /\ Search(k) # nil => Search(k) \in Live /\ item[Search(k)].key = k
<1>1. item \in [Live -> Item] /\ k \in Int
  BY KeyAssumption DEF Invariant
<1>2. PICK under, h : Settled(T, Live, Keys, under, h) /\ Clean(T, Cell \ Live)
  BY DEF Invariant, Rests
<1>3. Shape(T, Live, Keys, under)
  BY <1>2 DEF Settled
<1>4. nil \notin Live
  BY <1>3, Cells DEF Shape
<1>5. /\ Search(k) \in Live \cup {nil}
      /\ Search(k) = nil => \A x \in Live : Keys[x] # k
      /\ Search(k) # nil => Keys[Search(k)] = k
  BY <1>1, <1>3, SearchFinds
<1> QED
  BY <1>1, <1>4, <1>5, KeysAre

LEMMA NothingChanges ==
    ASSUME Invariant, T' = T, item' = item, up' \in BOOLEAN, degraded' \in BOOLEAN
    PROVE  Invariant'
<1>1. Live' = Live /\ Keys' = Keys
  BY DEF Live, Keys
<1> QED
  BY <1>1 DEF Invariant, Rests

LEMMA SetStep ==
    ASSUME Invariant, NEW k \in Key, NEW v \in Value, NEW t \in Time, Set(k, v, t)
    PROVE  Invariant'
<1>1. up \in BOOLEAN /\ degraded \in BOOLEAN
  BY DEF Invariant
<1>2. CASE T' = T /\ item' = item /\ up' \in BOOLEAN /\ degraded' = degraded
  BY <1>1, <1>2, NothingChanges
<1>3. CASE /\ Search(k) = nil /\ Address \ Live # {}
           /\ LET new == CHOOSE x \in Address \ Live : \A y \in Address \ Live : x <= y
              IN  /\ T' = Inserted(new, k)
                  /\ item' = [x \in Live \cup {new} |->
                                 IF x = new THEN [key |-> k, value |-> v, timestamp |-> t]
                                 ELSE item[x]]
           /\ UNCHANGED <<up, degraded>>
  <2> DEFINE new == CHOOSE x \in Address \ Live : \A y \in Address \ Live : x <= y
  <2>1. new \in Address \ Live
    <3>1. Address \ Live \subseteq Nat
      BY BoundAssumption DEF Address
    <3>2. \E x \in Address \ Live : \A y \in Address \ Live : x <= y
      BY <1>3, <3>1, Smallest
    <3> QED
      BY <3>2
  <2>2. /\ T' = Inserted(new, k)
        /\ item' = [x \in Live \cup {new} |->
                       IF x = new THEN [key |-> k, value |-> v, timestamp |-> t] ELSE item[x]]
    BY <1>3
  <2> HIDE DEF new
  <2>3. item' \in [Live' -> Item] /\ Rests(T, Live, Keys)'
    BY <1>3, <2>1, <2>2, SetRests
  <2> QED
    BY <1>1, <1>3, <2>3 DEF Invariant
<1> QED
  BY <1>1, <1>2, <1>3 DEF Set, Undefined

LEMMA DelStep ==
    ASSUME Invariant, NEW k \in Key, Del(k)
    PROVE  Invariant'
<1>1. up \in BOOLEAN /\ degraded \in BOOLEAN /\ up' = up /\ degraded' = degraded
  BY DEF Invariant, Del
<1>2. CASE T' = T /\ item' = item
  BY <1>1, <1>2, NothingChanges
<1>3. CASE Search(k) # nil /\ T' = Deleted(Search(k)) /\ item' = DeletedItems(Search(k))
  <2>1. Search(k) \in Live
    BY <1>3, Found
  <2>2. item' \in [Live' -> Item] /\ Rests(T, Live, Keys)'
    BY <1>3, <2>1, DelRests
  <2> QED
    BY <1>1, <2>2 DEF Invariant
<1> QED
  BY <1>2, <1>3 DEF Del

LEMMA ModStep ==
    ASSUME Invariant, NEW k \in Key, NEW v \in Value, NEW t \in Time, Mod(k, v, t)
    PROVE  Invariant'
<1>1. up \in BOOLEAN /\ degraded \in BOOLEAN /\ up' = up /\ degraded' \in BOOLEAN /\ T' = T
      /\ item \in [Live -> Item]
  BY DEF Invariant, Mod
<1>2. CASE item' = item
  BY <1>1, <1>2, NothingChanges
<1>3. CASE item' = [item EXCEPT ![Search(k)] = [@ EXCEPT !.value = Null]] /\ Search(k) # nil
  <2> DEFINE i == [item[Search(k)] EXCEPT !.value = Null]
  <2>1. Search(k) \in Live /\ item[Search(k)] \in Item
    BY <1>1, <1>3, Found
  <2>2. i \in Item /\ i.key = item[Search(k)].key
    BY <2>1 DEF Item
  <2>3. item' = [item EXCEPT ![Search(k)] = i]
    BY <1>3
  <2> HIDE DEF i
  <2>4. item' \in [Live' -> Item] /\ Rests(T, Live, Keys)'
    BY <1>1, <2>1, <2>2, <2>3, ModRests
  <2> QED
    BY <1>1, <2>4 DEF Invariant
<1>4. CASE item' = [item EXCEPT ![Search(k)] = [key |-> k, value |-> v, timestamp |-> t]]
           /\ Search(k) # nil
  <2> DEFINE i == [key |-> k, value |-> v, timestamp |-> t]
  <2>1. Search(k) \in Live /\ item[Search(k)].key = k
    BY <1>4, Found
  <2>2. i \in Item /\ i.key = item[Search(k)].key
    BY <2>1 DEF Item
  <2>3. item' = [item EXCEPT ![Search(k)] = i]
    BY <1>4
  <2> HIDE DEF i
  <2>4. item' \in [Live' -> Item] /\ Rests(T, Live, Keys)'
    BY <1>1, <2>1, <2>2, <2>3, ModRests
  <2> QED
    BY <1>1, <2>4 DEF Invariant
<1> QED
  BY <1>2, <1>3, <1>4 DEF Mod

LEMMA Inductive == Invariant /\ [Next]_vars => Invariant'
<1> SUFFICES ASSUME Invariant, [Next]_vars
             PROVE  Invariant'
  OBVIOUS
<1>1. up \in BOOLEAN /\ degraded \in BOOLEAN
  BY DEF Invariant
<1>2. CASE UNCHANGED vars
  BY <1>1, <1>2, NothingChanges DEF vars
<1>3. ASSUME NEW k \in Key, NEW v \in Value, NEW t \in Time, Set(k, v, t)
      PROVE  Invariant'
  BY <1>3, SetStep
<1>4. ASSUME NEW k \in Key, NEW v \in Value, NEW t \in Time, Mod(k, v, t)
      PROVE  Invariant'
  BY <1>4, ModStep
<1>5. ASSUME NEW k \in Key, Get(k)
      PROVE  Invariant'
  BY <1>1, <1>5, NothingChanges DEF Get
<1>6. ASSUME NEW k \in Key, Del(k)
      PROVE  Invariant'
  BY <1>6, DelStep
<1>7. ASSUME NEW k \in Key, Exist(k)
      PROVE  Invariant'
  BY <1>1, <1>7, NothingChanges DEF Exist
<1>8. ASSUME NEW a \in Key, NEW b \in Key, RangeQuery(a, b)
      PROVE  Invariant'
  <2>1. T' = T /\ item' = item /\ up' \in BOOLEAN /\ degraded' \in BOOLEAN
    BY <1>1, <1>8 DEF RangeQuery, Undefined
  <2> QED
    BY <2>1, NothingChanges
<1>9. ASSUME GetAll
      PROVE  Invariant'
  <2>1. T' = T /\ item' = item /\ up' \in BOOLEAN /\ degraded' \in BOOLEAN
    BY <1>1, <1>9 DEF GetAll, Undefined
  <2> QED
    BY <2>1, NothingChanges
<1> QED
  BY <1>2, <1>3, <1>4, <1>5, <1>6, <1>7, <1>8, <1>9 DEF Next

LEMMA Always == Spec => []Invariant
<1> QED
  BY Initially, Inductive, PTL DEF Spec

LEMMA InvariantIsTyped == Invariant => TypeOK
<1> SUFFICES ASSUME Invariant
             PROVE  TypeOK
  OBVIOUS
<1>1. item \in [Live -> Item] /\ up \in BOOLEAN /\ degraded \in BOOLEAN
  BY DEF Invariant
<1>2. PICK under, h : Settled(T, Live, Keys, under, h) /\ Clean(T, Cell \ Live)
  BY DEF Invariant, Rests
<1>3. /\ Shape(T, Live, Keys, under) /\ T.color[nil] = "black"
  BY <1>2 DEF Settled
<1>4. /\ T \in Trees /\ Live \subseteq Address /\ T.root \in Live \cup {nil}
      /\ \A x \in Live, s \in Side : T.child[s][x] \in Live \cup {nil}
      /\ \A x \in Live : T.parent[x] \in Live \cup {nil}
  BY <1>3 DEF Shape
<1>5. \A x \in Cell : T.parent[x] \in Live \cup {nil}
                      /\ \A s \in Side : T.child[s][x] \in Live \cup {nil}
  BY <1>2, <1>4 DEF Clean
<1>6. \A x \in Cell : T.color[x] \in {"red", "black"}
  BY <1>4, TreeFields DEF Color
<1>7. \A x \in Live : /\ item[x].key \in Key
                      /\ item[x].value \in Value \cup {Null}
                      /\ item[x].timestamp \in Time
  BY <1>1, KeysAre
<1> QED
  BY <1>1, <1>3, <1>4, <1>5, <1>6, <1>7 DEF TypeOK, Cell

\* Colours, links and items have their types in every reachable state: no pointer
\* of the tree leads to a freed node, and freed nodes lead nowhere.
THEOREM TypeCorrect == Spec => []TypeOK
<1> QED
  BY Always, InvariantIsTyped, PTL

-------------------------------------------------------------------------------
\* The number of nodes that are not below a node falls on the way up.
UpRank(L, under) ==
    [x \in L \cup {nil} |-> IF x = nil THEN 0 ELSE (MaxNodes - Cardinality(under[x])) + 1]

LEMMA Higher ==
    ASSUME NEW t, NEW L, NEW key, NEW under, Shape(t, L, key, under)
    PROVE  /\ UpRank(L, under) \in [L \cup {nil} -> 0 .. MaxNodes]
           /\ \A x \in L : /\ t.parent[x] \in L \cup {nil}
                           /\ UpRank(L, under)[t.parent[x]] < UpRank(L, under)[x]
<1> DEFINE Size(x) == Cardinality(under[x])
<1>1. nil \notin L /\ \A x \in L : x \in under[x] /\ IsFiniteSet(under[x]) /\ Size(x) \in 1 .. MaxNodes
  <2>1. nil \notin L /\ "left" \in Side
    BY Cells DEF Shape, Side
  <2>2. ASSUME NEW x \in L
        PROVE  x \in under[x] /\ IsFiniteSet(under[x]) /\ Size(x) \in 1 .. MaxNodes
    <3>1. x \in under[x] /\ under[x] \in SUBSET L /\ L \subseteq Address
      BY <2>1, Node DEF Shape
    <3>2. IsFiniteSet(under[x]) /\ Size(x) \in 0 .. MaxNodes
      BY <3>1, SomeAreFinite
    <3>3. Size(x) # 0
      BY <3>1, <3>2, FS_EmptySet
    <3> HIDE DEF Size
    <3>4. Size(x) \in 1 .. MaxNodes
      BY <3>2, <3>3, BoundAssumption
    <3> QED
      BY <3>1, <3>2, <3>4
  <2> QED
    BY <2>1, <2>2
<1>2. ASSUME NEW x \in L, x # t.root
      PROVE  t.parent[x] \in L /\ Size(x) < Size(t.parent[x])
  <2>1. t.parent[x] \in L /\ \E s \in Side : t.child[s][t.parent[x]] = x
    BY <1>2 DEF Shape
  <2> DEFINE p == t.parent[x]
  <2>2. PICK s \in Side : t.child[s][p] = x
    BY <2>1
  <2> HIDE DEF p
  <2>3. p \in L /\ under[x] \subseteq under[p] /\ p \in under[p] /\ p \notin under[x]
    BY <2>1, <2>2, Node DEF p
  <2>4. /\ Cardinality(under[x]) <= Cardinality(under[p])
        /\ Cardinality(under[x]) = Cardinality(under[p]) => under[p] = under[x]
    BY <1>1, <2>3, FS_Subset
  <2>5. Size(x) <= Size(p) /\ Size(x) # Size(p)
    BY <2>3, <2>4
  <2>6. Size(x) \in 1 .. MaxNodes /\ Size(p) \in 1 .. MaxNodes
    BY <1>1, <2>3
  <2> HIDE DEF Size
  <2>7. Size(x) < Size(p)
    BY <2>5, <2>6, BoundAssumption
  <2> QED
    BY <2>1, <2>7 DEF p
<1> HIDE DEF Size
<1>3. \A x \in L : /\ UpRank(L, under)[x] = (MaxNodes - Size(x)) + 1
                   /\ UpRank(L, under)[x] \in 1 .. MaxNodes
  <2> TAKE x \in L
  <2>1. UpRank(L, under)[x] = (MaxNodes - Size(x)) + 1
    BY <1>1 DEF UpRank, Size
  <2>2. Size(x) \in 1 .. MaxNodes
    BY <1>1
  <2> QED
    BY <2>1, <2>2, BoundAssumption
<1>4. UpRank(L, under)[nil] = 0
  BY DEF UpRank
<1>5. UpRank(L, under) \in [L \cup {nil} -> 0 .. MaxNodes]
  <2> DEFINE f == UpRank(L, under)
  <2>1. \A x \in L \cup {nil} : f[x] \in 0 .. MaxNodes
    BY <1>3, <1>4, BoundAssumption
  <2>2. f = [x \in L \cup {nil} |-> f[x]]
    BY DEF UpRank
  <2> HIDE DEF f
  <2>3. f \in [L \cup {nil} -> 0 .. MaxNodes]
    BY <2>1, <2>2
  <2> QED
    BY <2>3 DEF f
<1>6. ASSUME NEW x \in L
      PROVE  /\ t.parent[x] \in L \cup {nil}
             /\ UpRank(L, under)[t.parent[x]] < UpRank(L, under)[x]
  <2>1. CASE x = t.root
    <3>1. t.parent[x] = nil
      BY <2>1 DEF Shape
    <3>2. UpRank(L, under)[x] \in 1 .. MaxNodes
      BY <1>3
    <3>3. 0 < UpRank(L, under)[x]
      BY <3>2, BoundAssumption
    <3> QED
      BY <1>4, <3>1, <3>3
  <2>2. CASE x # t.root
    <3> DEFINE p == t.parent[x]
    <3>1. p \in L /\ Size(x) < Size(p)
      BY <1>2, <2>2
    <3> HIDE DEF p
    <3>2. Size(x) \in 1 .. MaxNodes /\ Size(p) \in 1 .. MaxNodes
      BY <1>1, <3>1
    <3>3. (MaxNodes - Size(p)) + 1 < (MaxNodes - Size(x)) + 1
      BY <3>1, <3>2, BoundAssumption
    <3>4. UpRank(L, under)[p] < UpRank(L, under)[x]
      BY <1>3, <3>1, <3>3
    <3> QED
      BY <3>1, <3>4 DEF p
  <2> QED
    BY <2>1, <2>2
<1> QED
  BY <1>5, <1>6

\* The black nodes above a node and those below it add up to the same.
LEMMA BlacksAre ==
    ASSUME NEW under, NEW h, Settled(T, Live, Keys, under, h), NEW x \in Live
    PROVE  Blacks(x) + h[x] = h[T.root] + Bit(T, x) /\ Blacks(x) \in Int
<1> DEFINE D == Live \cup {nil}
<1> DEFINE Adds(y) == IF T.color[y] = "black" THEN 1 ELSE 0
<1> DEFINE stop == {nil}
<1> DEFINE base == [y \in D |-> 0]
<1> DEFINE next == [y \in D \ stop |-> T.parent[y]]
<1> DEFINE step == [p \in D \X Nat |-> p[2] + Adds(p[1])]
<1> DEFINE rank == UpRank(Live, under)
<1> DEFINE Loop(f) == f = [y \in D |-> IF y = nil THEN 0 ELSE f[T.parent[y]] + Adds(y)]
<1> DEFINE blacks == CHOOSE f : Loop(f)
<1>1. Blacks(x) = blacks[x]
  BY DEF Blacks
<1>2. Shape(T, Live, Keys, under) /\ Balanced(T, Live, h, nil, "left")
  BY DEF Settled
<1>3. nil \notin Live /\ \A y \in Live : T.parent[y] \in D
  BY <1>2, Cells DEF Shape
<1>4. \E f \in [D -> Nat] : Loop(f)
  <2>1. rank \in [D -> 0 .. MaxNodes] /\ \A y \in D \ stop : rank[next[y]] < rank[y]
    <3>1. /\ rank \in [D -> 0 .. MaxNodes]
          /\ \A y \in Live : rank[T.parent[y]] < rank[y]
      BY <1>2, Higher
    <3>2. \A y \in D \ stop : y \in Live /\ next[y] = T.parent[y]
      OBVIOUS
    <3> QED
      BY <3>1, <3>2
  <2>2. next \in [D \ stop -> D]
    BY <1>3
  <2>3. base \in [D -> Nat] /\ step \in [D \X Nat -> Nat] /\ stop \in SUBSET D
    OBVIOUS
  <2> HIDE DEF rank, stop, base, next, step, D
  <2>4. PICK f \in [D -> Nat] : Follows(f, D, stop, base, next, step)
    BY <2>1, <2>2, <2>3, Recursion
  <2>5. ASSUME NEW y \in D
        PROVE  f[y] = IF y = nil THEN 0 ELSE f[T.parent[y]] + Adds(y)
    <3>1. f[y] = IF y \in stop THEN base[y] ELSE step[<<y, f[next[y]]>>]
      BY <2>4 DEF Follows
    <3>2. CASE y = nil
      BY <3>1, <3>2 DEF stop, base
    <3>3. CASE y # nil
      <4>1. y \notin stop /\ next[y] = T.parent[y] /\ next[y] \in D
        BY <2>2, <3>3 DEF stop, next
      <4>2. f[next[y]] \in Nat
        BY <4>1
      <4>3. step[<<y, f[next[y]]>>] = f[next[y]] + Adds(y)
        BY <4>2 DEF step
      <4> QED
        BY <3>1, <3>3, <4>1, <4>3
    <3> QED
      BY <3>2, <3>3
  <2>6. f = [y \in D |-> f[y]]
    OBVIOUS
  <2> HIDE DEF Adds
  <2>7. Loop(f)
    BY <2>5, <2>6
  <2> HIDE DEF Loop
  <2> QED
    BY <2>7
<1>5. Loop(blacks)
  <2> HIDE DEF Loop
  <2> QED
    BY <1>4
<1> HIDE DEF blacks
<1>6. blacks[nil] = 0 /\ \A y \in Live : blacks[y] = blacks[T.parent[y]] + Bit(T, y)
  BY <1>3, <1>5 DEF Bit
<1> HIDE DEF Loop, stop, base, next, step
<1>7. h \in [D -> Nat] /\ \A y \in Live, s \in Side : h[y] = h[T.child[s][y]] + Bit(T, y) + 0
  <2>1. h \in [D -> Nat] /\ \A y \in Live : Counts(T, y, h, nil, "left")
    BY <1>2 DEF Balanced
  <2>2. ASSUME NEW y \in Live, NEW s \in Side
        PROVE  h[y] = h[T.child[s][y]] + Bit(T, y) + 0
    BY <1>3, <2>1 DEF Counts, Short
  <2> QED
    BY <2>1, <2>2
<1>8. T.root \in D /\ h[T.root] \in Nat /\ \A y \in D : h[y] \in Nat /\ Bit(T, y) \in Nat
  BY <1>2, <1>7 DEF Shape, Bit
<1> DEFINE Right(y) == blacks[y] + h[y] = h[T.root] + Bit(T, y) /\ blacks[y] \in Int
<1> DEFINE S == {y \in Live : ~Right(y)}
<1>9. S = {}
  <2> SUFFICES ASSUME S # {}
               PROVE  FALSE
    OBVIOUS
  <2>1. /\ rank \in [D -> 0 .. MaxNodes]
        /\ \A y \in Live : rank[T.parent[y]] < rank[y]
    BY <1>2, Higher
  <2> HIDE DEF rank
  <2>2. S \in SUBSET D
    OBVIOUS
  <2>3. PICK y \in S : \A d \in D : rank[d] < rank[y] => d \notin S
    <3> HIDE DEF S, D
    <3> QED
      BY <2>1, <2>2, LeastRank
  <2> DEFINE p == T.parent[y]
  <2>4. y \in Live /\ ~Right(y) /\ p \in D /\ p \notin S
    BY <1>3, <2>1, <2>3
  <2>5. blacks[y] = blacks[p] + Bit(T, y)
    BY <1>6, <2>4
  <2>6. CASE p = nil
    <3>1. y = T.root
      BY <1>2, <2>4, <2>6 DEF Shape
    <3> QED
      BY <1>6, <1>8, <2>4, <2>5, <2>6, <3>1
  <2>7. CASE p # nil
    <3>1. p \in Live /\ Right(p)
      BY <2>4, <2>7
    <3>2. PICK s \in Side : T.child[s][p] = y
      BY <1>2, <2>4, <2>7 DEF Shape
    <3>3. h[p] = h[y] + Bit(T, p) + 0
      BY <1>7, <3>1, <3>2
    <3> HIDE DEF p
    <3>4. h[p] \in Nat /\ h[y] \in Nat /\ Bit(T, p) \in Nat /\ Bit(T, y) \in Nat /\ h[T.root] \in Nat
      BY <1>8, <2>4
    <3> QED
      BY <2>4, <2>5, <3>1, <3>3, <3>4
  <2> QED
    BY <2>6, <2>7
<1> QED
  BY <1>1, <1>9

LEMMA InvariantIsBalanced == Invariant => RedBlack
<1> SUFFICES ASSUME Invariant
             PROVE  RedBlack
  OBVIOUS
<1>1. PICK under, h : Settled(T, Live, Keys, under, h)
  BY DEF Invariant, Rests
<1>2. T.color[T.root] = "black" /\ \A x \in Live : T.color[x] = "red" => T.color[T.parent[x]] = "black"
  BY <1>1 DEF Settled
<1>3. /\ h \in [Live \cup {nil} -> Nat] /\ h[nil] = 0 /\ T.root \in Live \cup {nil} /\ nil \notin Live
      /\ \A x \in Live : Counts(T, x, h, nil, "left")
  BY <1>1, Cells DEF Settled, Balanced, Shape
<1>4. ASSUME NEW x \in Live, NEW s \in Side, T.child[s][x] = nil
      PROVE  Blacks(x) = h[T.root]
  <2>1. h[x] = h[T.child[s][x]] + Bit(T, x) + 0
    BY <1>3 DEF Counts, Short
  <2>2. Blacks(x) + h[x] = h[T.root] + Bit(T, x) /\ Blacks(x) \in Int
    BY <1>1, BlacksAre
  <2>3. h[x] = Bit(T, x) /\ Bit(T, x) \in Int
    BY <1>3, <1>4, <2>1 DEF Bit
  <2>4. h[T.root] \in Int
    BY <1>3
  <2>5. \A a, b, c \in Int : a + b = c + b => a = c
    OBVIOUS
  <2>6. Blacks(x) + Bit(T, x) = h[T.root] + Bit(T, x)
    BY <2>2, <2>3
  <2> QED
    BY <2>2, <2>3, <2>4, <2>5, <2>6
<1> QED
  BY <1>2, <1>4 DEF RedBlack

\* The red-black rules hold after every command: the fix-up loops of an insertion
\* and of a deletion, however many rounds they take, put the balance right.
THEOREM StaysBalanced == Spec => []RedBlack
<1> QED
  BY Always, InvariantIsBalanced, PTL

-------------------------------------------------------------------------------
\* Going up from the greatest node of a subtree as rbtree_successor does.
LEMMA ClimbIs ==
    ASSUME NEW under, Shape(T, Live, Keys, under), NEW x \in Live, T.child["right"][x] = nil
    PROVE  NextIs(x, Successor(x))
<1> DEFINE D == Live
<1> DEFINE X == Live \cup {nil}
<1> DEFINE Goes(y) == T.parent[y] # nil /\ y = T.child["right"][T.parent[y]]
<1> DEFINE stop == {y \in D : ~Goes(y)}
<1> DEFINE base == [y \in D |-> T.parent[y]]
<1> DEFINE next == [y \in D \ stop |-> T.parent[y]]
<1> DEFINE step == [p \in D \X X |-> p[2]]
<1> DEFINE rank == [y \in D |-> UpRank(Live, under)[y]]
<1> DEFINE Loop(f) == f = [y \in D |-> LET p == T.parent[y]
                                       IN  IF p # nil /\ y = T.child["right"][p] THEN f[p] ELSE p]
<1> DEFINE climb == CHOOSE f : Loop(f)
<1>1. Successor(x) = climb[x]
  BY DEF Successor
<1>2. /\ nil \notin Live /\ under[nil] = {} /\ "left" \in Side /\ "right" \in Side
      /\ Other("left") = "right" /\ Other("right") = "left"
      /\ \A y \in Live : T.parent[y] \in X /\ Keys[y] \in Int
  BY Cells DEF Shape, Side, Other
<1>3. \E f \in [D -> X] : Loop(f)
  <2>1. next \in [D \ stop -> D] /\ base \in [D -> X]
    BY <1>2
  <2>2. rank \in [D -> 0 .. MaxNodes] /\ \A y \in D \ stop : rank[next[y]] < rank[y]
    <3>1. /\ UpRank(Live, under) \in [X -> 0 .. MaxNodes]
          /\ \A y \in Live : UpRank(Live, under)[T.parent[y]] < UpRank(Live, under)[y]
      BY Higher
    <3>2. \A y \in D \ stop : y \in Live /\ next[y] = T.parent[y]
      OBVIOUS
    <3>3. \A y \in D \ stop : rank[next[y]] = UpRank(Live, under)[T.parent[y]]
      BY <2>1, <3>2
    <3> QED
      BY <3>1, <3>2, <3>3
  <2>3. step \in [D \X X -> X] /\ stop \in SUBSET D
    OBVIOUS
  <2> HIDE DEF rank, stop, base, next, step, D, X
  <2>4. PICK f \in [D -> X] : Follows(f, D, stop, base, next, step)
    BY <2>1, <2>2, <2>3, Recursion
  <2>5. ASSUME NEW y \in D
        PROVE  f[y] = LET p == T.parent[y]
                      IN  IF p # nil /\ y = T.child["right"][p] THEN f[p] ELSE p
    <3>1. f[y] = IF y \in stop THEN base[y] ELSE step[<<y, f[next[y]]>>]
      BY <2>4 DEF Follows
    <3>2. CASE y \in stop
      BY <3>1, <3>2 DEF stop, base
    <3>3. CASE y \notin stop
      <4>1. Goes(y) /\ next[y] = T.parent[y] /\ next[y] \in D
        BY <2>1, <3>3 DEF stop, next
      <4>2. f[next[y]] \in X
        BY <4>1
      <4>3. step[<<y, f[next[y]]>>] = f[next[y]]
        BY <4>2 DEF step
      <4> QED
        BY <3>1, <3>3, <4>1, <4>3
    <3> QED
      BY <3>2, <3>3
  <2>6. f = [y \in D |-> f[y]]
    OBVIOUS
  <2>7. Loop(f)
    BY <2>5, <2>6
  <2> HIDE DEF Loop
  <2> QED
    BY <2>7
<1>4. Loop(climb)
  <2> HIDE DEF Loop
  <2> QED
    BY <1>3
<1> HIDE DEF climb
<1>5. \A y \in Live : climb[y] = IF Goes(y) THEN climb[T.parent[y]] ELSE T.parent[y]
  BY <1>4
<1> HIDE DEF Loop, stop, base, next, step, rank
<1> DEFINE Greatest1(y, w) == w \in under[y] /\ \A v \in under[y] : Keys[v] <= Keys[w]
<1> DEFINE Good(y) == \A w : Greatest1(y, w) => NextIs(w, climb[y])
<1> DEFINE S == {y \in Live : ~Good(y)}
<1>6. S = {}
  <2> SUFFICES ASSUME S # {}
               PROVE  FALSE
    OBVIOUS
  <2> DEFINE up1 == UpRank(Live, under)
  <2>1. /\ up1 \in [X -> 0 .. MaxNodes]
        /\ \A y \in Live : up1[T.parent[y]] < up1[y]
    BY Higher
  <2> HIDE DEF up1
  <2>2. S \in SUBSET X
    OBVIOUS
  <2>3. PICK y \in S : \A d \in X : up1[d] < up1[y] => d \notin S
    <3> HIDE DEF S, X
    <3> QED
      BY <2>1, <2>2, LeastRank
  <2> DEFINE p == T.parent[y]
  <2>4. y \in Live /\ ~Good(y) /\ p \in X /\ p \notin S
    BY <1>2, <2>1, <2>3
  <2>5. PICK w : Greatest1(y, w) /\ ~NextIs(w, climb[y])
    BY <2>4
  <2>6. climb[y] = IF Goes(y) THEN climb[p] ELSE p
    BY <1>5, <2>4
  <2>7. w \in Live /\ Keys[w] \in Int
    BY <1>2, <2>4, <2>5, Within
  <2> HIDE DEF S
  <2>8. CASE p = nil
    <3>1. under[y] = Live
      BY <2>4, <2>8 DEF Shape
    <3>2. climb[y] = nil /\ \A v \in Live : Keys[v] <= Keys[w]
      BY <2>5, <2>6, <2>8, <3>1
    <3> QED
      BY <2>5, <3>2 DEF NextIs
  <2>9. CASE p # nil
    <3> DEFINE left == T.child["left"][p]
    <3> DEFINE right == T.child["right"][p]
    <3>0. p \in Live
      BY <2>4, <2>9
    <3>1. y = left \/ y = right
      <4>1. y # T.root
        BY <2>4, <2>9 DEF Shape
      <4>2. \E r \in Side : T.child[r][p] = y
        BY <2>4, <4>1 DEF Shape
      <4> QED
        BY <4>2 DEF Side
    <3>2. Goes(y) <=> y = right
      BY <2>9
    <3> HIDE DEF left, right, p, Goes
    <3>3. /\ under[p] = {p} \cup under[left] \cup under[right]
          /\ \A v \in under[left] : Keys[v] \in Int /\ Before("left", Keys[v], Keys[p])
          /\ p \in under[p] /\ Keys[p] \in Int
      BY <1>2, <3>0, Node DEF left, right
    <3>4. \A v \in under[right] : Keys[v] \in Int /\ Before("right", Keys[v], Keys[p])
      BY <1>2, <3>0, Node DEF right
    <3>5. /\ \A v \in under[left] : Keys[v] < Keys[p] /\ Keys[v] \in Int
          /\ \A v \in under[right] : Keys[p] < Keys[v] /\ Keys[v] \in Int
      BY <3>3, <3>4 DEF Before
    <3>6. CASE Goes(y)
      <4>1. y = right /\ climb[y] = climb[p]
        BY <2>6, <3>2, <3>6
      <4>2. Greatest1(p, w)
        BY <2>5, <2>7, <3>3, <3>5, <4>1
      <4>3. Good(p)
        BY <2>4, <3>0 DEF S
      <4> HIDE DEF Greatest1
      <4> QED
        BY <2>5, <4>1, <4>2, <4>3
    <3>7. CASE ~Goes(y)
      <4>1. y = left /\ climb[y] = p /\ w \in under[left]
        BY <2>5, <2>6, <3>1, <3>2, <3>7
      <4>2. Keys[w] < Keys[p]
        BY <3>5, <4>1
      <4>3. ASSUME NEW v \in Live, Keys[w] < Keys[v]
            PROVE  Keys[p] <= Keys[v]
        <5>1. Keys[v] \in Int
          BY <1>2
        <5>2. CASE v \in under[p]
          <6>1. v \notin under[left]
            BY <2>5, <2>7, <4>1, <4>3, <5>1
          <6> QED
            BY <3>3, <3>5, <5>2, <6>1
        <5>3. CASE v \notin under[p]
          <6>1. w \in under[p]
            BY <3>3, <4>1
          <6>2. Keys[w] < Keys[v] <=> Keys[p] < Keys[v]
            BY <3>0, <3>3, <5>3, <6>1, Outside
          <6> QED
            BY <3>3, <4>3, <5>1, <6>2
        <5> QED
          BY <5>2, <5>3
      <4>4. NextIs(w, p)
        BY <1>2, <3>0, <4>2, <4>3 DEF NextIs
      <4> QED
        BY <2>5, <4>1, <4>4
    <3> QED
      BY <3>6, <3>7
  <2> QED
    BY <2>8, <2>9
<1>7. Good(x)
  BY <1>6
<1>8. Greatest1(x, x)
  <2> DEFINE left == T.child["left"][x]
  <2> HIDE DEF left
  <2>1. /\ under[x] = {x} \cup under[left] \cup under[nil] /\ x \in under[x] /\ Keys[x] \in Int
        /\ \A v \in under[left] : Keys[v] \in Int /\ Before("left", Keys[v], Keys[x])
    BY <1>2, Node DEF left
  <2>2. \A v \in under[left] : Keys[v] <= Keys[x]
    BY <2>1 DEF Before
  <2> QED
    BY <1>2, <2>1, <2>2
<1> QED
  BY <1>1, <1>7, <1>8

LEMMA SuccessorIs ==
    ASSUME NEW under, Shape(T, Live, Keys, under), NEW x \in Live
    PROVE  NextIs(x, Successor(x))
<1>1. CASE T.child["right"][x] # nil
  <2>1. Successor(x) = Mini(T.child["right"][x])
    BY <1>1 DEF Successor
  <2> QED
    BY <1>1, <2>1, MiniIsNext
<1>2. CASE T.child["right"][x] = nil
  BY <1>2, ClimbIs
<1> QED
  BY <1>1, <1>2

-------------------------------------------------------------------------------
\* q lists the nodes of Q in the order of their keys.
Lists(q, Q) ==
    /\ q \in Seq(Live)
    /\ \A n \in 1 .. Len(q) : q[n] \in Q
    /\ \A w \in Q : \E n \in 1 .. Len(q) : q[n] = w
    /\ \A m, n \in 1 .. Len(q) : m < n => Keys[q[m]] < Keys[q[n]]

LEMMA Prepended ==
    ASSUME NEW a \in Live, NEW s, NEW Q, Lists(s, Q), \A w \in Q : Keys[a] < Keys[w]
    PROVE  Lists(<<a>> \o s, {a} \cup Q)
<1> DEFINE q == <<a>> \o s
<1>1. /\ s \in Seq(Live)
      /\ \A n \in 1 .. Len(s) : s[n] \in Q
      /\ \A w \in Q : \E n \in 1 .. Len(s) : s[n] = w
      /\ \A m, n \in 1 .. Len(s) : m < n => Keys[s[m]] < Keys[s[n]]
  BY DEF Lists
<1>2. q \in Seq(Live) /\ Len(q) = Len(s) + 1 /\ q[1] = a /\ Len(s) \in Nat
      /\ \A n \in 1 .. Len(s) : q[n + 1] = s[n]
  BY <1>1
<1> HIDE DEF q
<1>3. \A n \in 1 .. Len(q) : n = 1 \/ (n - 1 \in 1 .. Len(s) /\ q[n] = s[n - 1])
  <2> TAKE n \in 1 .. Len(q)
  <2>1. n # 1 => n - 1 \in 1 .. Len(s) /\ (n - 1) + 1 = n
    BY <1>2
  <2> QED
    BY <1>2, <2>1
<1>4. \A n \in 1 .. Len(q) : q[n] \in {a} \cup Q
  BY <1>1, <1>2, <1>3
<1>5. \A w \in {a} \cup Q : \E n \in 1 .. Len(q) : q[n] = w
  <2> TAKE w \in {a} \cup Q
  <2>1. CASE w = a
    <3>1. 1 \in 1 .. Len(q)
      BY <1>2
    <3> QED
      BY <1>2, <2>1, <3>1
  <2>2. CASE w \in Q
    <3>1. PICK n \in 1 .. Len(s) : s[n] = w
      BY <1>1, <2>2
    <3>2. n + 1 \in 1 .. Len(q)
      BY <1>2
    <3> QED
      BY <1>2, <3>1, <3>2
  <2> QED
    BY <2>1, <2>2
<1>6. ASSUME NEW m \in 1 .. Len(q), NEW n \in 1 .. Len(q), m < n
      PROVE  Keys[q[m]] < Keys[q[n]]
  <2>1. n # 1 /\ n - 1 \in 1 .. Len(s) /\ q[n] = s[n - 1]
    BY <1>2, <1>3, <1>6
  <2>2. CASE m = 1
    BY <1>1, <1>2, <2>1, <2>2
  <2>3. CASE m # 1
    <3>1. m - 1 \in 1 .. Len(s) /\ q[m] = s[m - 1] /\ m - 1 < n - 1
      BY <1>2, <1>3, <1>6, <2>3
    <3> QED
      BY <1>1, <2>1, <3>1
  <2> QED
    BY <2>2, <2>3
<1>7. Lists(q, {a} \cup Q)
  BY <1>2, <1>4, <1>5, <1>6 DEF Lists
<1> QED
  BY <1>7 DEF q

\* The nodes from x on.
Upward(x) == IF x = nil THEN {} ELSE {w \in Live : Keys[x] <= Keys[w]}
OrderRank == [x \in Live \cup {nil} |-> Cardinality(Upward(x))]

LEMMA Onward ==
    ASSUME NEW under, Shape(T, Live, Keys, under), NEW x \in Live, NEW n, NextIs(x, n)
    PROVE  Upward(x) = {x} \cup Upward(n) /\ (\A w \in Upward(n) : Keys[x] < Keys[w])
           /\ n \in Live \cup {nil} /\ Upward(x) \subseteq Live /\ Upward(n) \subseteq Live
<1>1. nil \notin Live /\ \A w \in Live : Keys[w] \in Int
  BY Cells DEF Shape
<1>2. \A w \in Live : w # x => Keys[w] # Keys[x]
  BY Distinct
<1>3. x # nil
  BY <1>1
<1>4. CASE n = nil
  <2>1. \A w \in Live : Keys[w] <= Keys[x]
    BY <1>4 DEF NextIs
  <2>2. Upward(n) = {}
    BY <1>4 DEF Upward
  <2>3. Upward(x) = {x}
    BY <1>1, <1>2, <1>3, <2>1 DEF Upward
  <2> QED
    BY <1>4, <2>2, <2>3
<1>5. CASE n # nil
  <2>1. n \in Live /\ Keys[x] < Keys[n] /\ \A w \in Live : Keys[x] < Keys[w] => Keys[n] <= Keys[w]
    BY <1>5 DEF NextIs
  <2>2. \A w \in Live : w \in Upward(n) <=> Keys[n] <= Keys[w]
    BY <1>5 DEF Upward
  <2>3. \A w \in Live : w \in Upward(x) <=> Keys[x] <= Keys[w]
    BY <1>3 DEF Upward
  <2>4. Upward(n) \subseteq Live /\ Upward(x) \subseteq Live
    BY DEF Upward
  <2>5. \A w \in Live : w \in Upward(x) <=> (w = x \/ w \in Upward(n))
    BY <1>1, <1>2, <2>1, <2>2, <2>3
  <2>6. \A w \in Upward(n) : Keys[x] < Keys[w]
    BY <1>1, <2>1, <2>2, <2>4
  <2> QED
    BY <2>1, <2>4, <2>5, <2>6
<1> QED
  BY <1>4, <1>5

LEMMA Later ==
    ASSUME NEW under, Shape(T, Live, Keys, under)
    PROVE  /\ OrderRank \in [Live \cup {nil} -> 0 .. MaxNodes]
           /\ \A x \in Live : /\ Successor(x) \in Live \cup {nil}
                              /\ OrderRank[Successor(x)] < OrderRank[x]
<1>1. Live \subseteq Address
  BY DEF Shape
<1>2. \A x \in Live \cup {nil} : IsFiniteSet(Upward(x)) /\ Cardinality(Upward(x)) \in 0 .. MaxNodes
  <2> TAKE x \in Live \cup {nil}
  <2>1. Upward(x) \subseteq Address
    BY <1>1 DEF Upward
  <2> QED
    BY <2>1, SomeAreFinite
<1>3. ASSUME NEW x \in Live
      PROVE  /\ Successor(x) \in Live \cup {nil}
             /\ Cardinality(Upward(Successor(x))) < Cardinality(Upward(x))
  <2> DEFINE n == Successor(x)
  <2>1. NextIs(x, n)
    BY SuccessorIs
  <2> HIDE DEF n
  <2>2. Upward(x) = {x} \cup Upward(n) /\ (\A w \in Upward(n) : Keys[x] < Keys[w])
        /\ n \in Live \cup {nil}
    BY <2>1, Onward
  <2>3. Keys[x] \in Int
    BY DEF Shape
  <2>4. x \notin Upward(n)
    BY <2>2, <2>3
  <2>5. /\ Cardinality(Upward(n)) <= Cardinality(Upward(x))
        /\ Cardinality(Upward(n)) = Cardinality(Upward(x)) => Upward(x) = Upward(n)
    BY <1>2, <2>2, FS_Subset
  <2>6. \A i \in 0 .. MaxNodes : i \in Nat
    BY BoundAssumption
  <2>7. Cardinality(Upward(n)) \in Nat /\ Cardinality(Upward(x)) \in Nat
    BY <1>2, <2>2, <2>6
  <2>8. Cardinality(Upward(n)) # Cardinality(Upward(x))
    BY <2>2, <2>4, <2>5
  <2>9. Cardinality(Upward(n)) < Cardinality(Upward(x))
    BY <2>5, <2>7, <2>8
  <2> QED
    BY <2>2, <2>9 DEF n
<1> QED
  BY <1>2, <1>3 DEF OrderRank

\* Going on by successor, from x, as long as the keys are low enough for S.
LEMMA FromIs ==
    ASSUME NEW under, Shape(T, Live, Keys, under), NEW x \in Live \cup {nil},
           NEW S \in SUBSET Live, \A a \in S, b \in Live : Keys[b] < Keys[a] => b \in S
    PROVE  Lists(From(x, S), Upward(x) \cap S)
<1> DEFINE D == Live \cup {nil}
<1> DEFINE X == Seq(Live)
<1> DEFINE stop == {y \in D : y \notin S}
<1> DEFINE base == [y \in D |-> <<>>]
<1> DEFINE next == [y \in D \ stop |-> Successor(y)]
<1> DEFINE step == [p \in D \X X |-> IF p[1] \in Live THEN <<p[1]>> \o p[2] ELSE <<>>]
<1> DEFINE Loop(f) == f = [y \in D |-> IF y \notin S THEN <<>> ELSE <<y>> \o f[Successor(y)]]
<1> DEFINE from == CHOOSE f : Loop(f)
<1>1. From(x, S) = from[x]
  BY DEF From
<1>2. /\ nil \notin Live /\ \A y \in Live : Keys[y] \in Int
  BY Cells DEF Shape
<1>3. /\ OrderRank \in [D -> 0 .. MaxNodes]
      /\ \A y \in Live : Successor(y) \in D /\ OrderRank[Successor(y)] < OrderRank[y]
  BY Later
<1>4. \E f \in [D -> X] : Loop(f)
  <2>1. \A y \in D \ stop : y \in Live /\ y \in S /\ next[y] = Successor(y)
    OBVIOUS
  <2>2. next \in [D \ stop -> D] /\ base \in [D -> X]
    BY <1>3
  <2>3. \A y \in D \ stop : OrderRank[next[y]] < OrderRank[y]
    BY <1>3, <2>1
  <2>4. step \in [D \X X -> X] /\ stop \in SUBSET D
    OBVIOUS
  <2> HIDE DEF stop, base, next, step, D, X
  <2>5. PICK f \in [D -> X] : Follows(f, D, stop, base, next, step)
    BY <1>3, <2>2, <2>3, <2>4, Recursion
  <2>6. ASSUME NEW y \in D
        PROVE  f[y] = IF y \notin S THEN <<>> ELSE <<y>> \o f[Successor(y)]
    <3>1. f[y] = IF y \in stop THEN base[y] ELSE step[<<y, f[next[y]]>>]
      BY <2>5 DEF Follows
    <3>2. CASE y \notin S
      BY <3>1, <3>2 DEF stop, base
    <3>3. CASE y \in S
      <4>1. y \notin stop /\ y \in Live
        BY <3>3 DEF stop
      <4>2. next[y] = Successor(y) /\ next[y] \in D
        BY <2>1, <2>2, <4>1
      <4>3. f[next[y]] \in X
        BY <4>2
      <4>4. step[<<y, f[next[y]]>>] = <<y>> \o f[next[y]]
        BY <4>1, <4>3 DEF step
      <4> QED
        BY <3>1, <3>3, <4>1, <4>2, <4>4
    <3> QED
      BY <3>2, <3>3
  <2>7. f = [y \in D |-> f[y]]
    OBVIOUS
  <2>8. Loop(f)
    BY <2>6, <2>7
  <2> HIDE DEF Loop
  <2> QED
    BY <2>8
<1>5. Loop(from)
  <2> HIDE DEF Loop
  <2> QED
    BY <1>4
<1> HIDE DEF from
<1>6. \A y \in D : from[y] = IF y \notin S THEN <<>> ELSE <<y>> \o from[Successor(y)]
  BY <1>5
<1> HIDE DEF Loop, stop, base, next, step, X
<1> DEFINE Good(y) == Lists(from[y], Upward(y) \cap S)
<1> DEFINE B == {y \in D : ~Good(y)}
<1>7. B = {}
  <2> SUFFICES ASSUME B # {}
               PROVE  FALSE
    OBVIOUS
  <2>1. PICK y \in B : \A d \in D : OrderRank[d] < OrderRank[y] => d \notin B
    <3>1. B \in SUBSET D
      OBVIOUS
    <3> HIDE DEF B, D
    <3> QED
      BY <1>3, <3>1, LeastRank
  <2>2. y \in D /\ ~Good(y)
    OBVIOUS
  <2>3. CASE y \notin S
    <3>1. from[y] = <<>>
      BY <1>6, <2>2, <2>3
    <3>2. Upward(y) \cap S = {}
      <4>1. CASE y = nil
        BY <4>1 DEF Upward
      <4>2. CASE y # nil
        <5>1. y \in Live
          BY <2>2, <4>2
        <5>2. \A w \in S : ~(Keys[y] <= Keys[w])
          <6> TAKE w \in S
          <6>1. w # y /\ w \in Live
            BY <2>3
          <6>2. Keys[w] # Keys[y]
            BY <5>1, <6>1, Distinct
          <6>3. ~(Keys[y] < Keys[w])
            BY <2>3, <5>1
          <6> QED
            BY <1>2, <5>1, <6>1, <6>2, <6>3
        <5> QED
          BY <4>2, <5>2 DEF Upward
      <4> QED
        BY <4>1, <4>2
    <3>3. Lists(<<>>, {})
      BY DEF Lists
    <3> QED
      BY <2>2, <3>1, <3>2, <3>3
  <2>4. CASE y \in S
    <3> DEFINE n == Successor(y)
    <3>1. y \in Live /\ from[y] = <<y>> \o from[n]
      BY <1>6, <2>2, <2>4
    <3>2. n \in D /\ n \notin B
      BY <1>3, <2>1, <3>1
    <3>3. NextIs(y, n)
      BY <3>1, SuccessorIs
    <3> HIDE DEF n
    <3>4. Upward(y) = {y} \cup Upward(n) /\ (\A w \in Upward(n) : Keys[y] < Keys[w])
      BY <3>1, <3>3, Onward
    <3>5. Good(n)
      BY <3>2
    <3>6. Lists(<<y>> \o from[n], {y} \cup (Upward(n) \cap S))
      BY <3>1, <3>4, <3>5, Prepended
    <3>7. {y} \cup (Upward(n) \cap S) = Upward(y) \cap S
      BY <2>4, <3>4
    <3> QED
      BY <2>2, <3>1, <3>6, <3>7
  <2> QED
    BY <2>3, <2>4
<1>8. Good(x)
  BY <1>7
<1> QED
  BY <1>1, <1>8

LEMMA InOrderIs ==
    ASSUME NEW under, Shape(T, Live, Keys, under)
    PROVE  Lists(InOrder, Live)
<1>1. nil \notin Live /\ T.root \in Live \cup {nil} /\ under[T.root] = Live /\ under[nil] = {}
  BY Cells DEF Shape
<1>2. CASE T.root = nil
  <2>1. InOrder = <<>> /\ Live = {}
    BY <1>1, <1>2 DEF InOrder
  <2>2. Lists(<<>>, {})
    BY DEF Lists
  <2> QED
    BY <2>1, <2>2
<1>3. CASE T.root # nil
  <2> DEFINE m == Mini(T.root)
  <2>1. InOrder = From(m, Live)
    BY <1>3 DEF InOrder
  <2>2. m \in Live /\ \A w \in Live : Keys[m] <= Keys[w]
    BY <1>1, <1>3, MiniIs
  <2> HIDE DEF m
  <2>3. Upward(m) \cap Live = Live
    BY <1>1, <2>2 DEF Upward
  <2>4. Lists(From(m, Live), Upward(m) \cap Live)
    BY <2>2, FromIs
  <2> QED
    BY <2>1, <2>3, <2>4
<1> QED
  BY <1>2, <1>3

LEMMA InvariantIsAgreed == Invariant => LinksAgree
<1> SUFFICES ASSUME Invariant
             PROVE  LinksAgree
  OBVIOUS
<1>1. PICK under, h : Settled(T, Live, Keys, under, h)
  BY DEF Invariant, Rests
<1>2. Shape(T, Live, Keys, under)
  BY <1>1 DEF Settled
<1>3. T.root # nil => T.parent[T.root] = nil
  BY <1>2 DEF Shape
<1>4. \A x \in Live, s \in Side : T.child[s][x] # nil => T.parent[T.child[s][x]] = x
  BY <1>2 DEF Shape
<1>5. Lists(InOrder, Live)
  BY <1>2, InOrderIs
<1>6. DOMAIN InOrder = 1 .. Len(InOrder)
  BY <1>5 DEF Lists
<1>7. {InOrder[n] : n \in DOMAIN InOrder} = Live
  BY <1>5, <1>6 DEF Lists
<1>8. \A w \in Live : Keys[w] = item[w].key
  BY DEF Keys
<1>9. \A m, n \in DOMAIN InOrder : m < n => item[InOrder[m]].key < item[InOrder[n]].key
  BY <1>5, <1>6, <1>8 DEF Lists
<1> QED
  BY <1>3, <1>4, <1>7, <1>9 DEF LinksAgree

\* Every child leads back to its parent, and the walk from the smallest key by
\* successor, which RANGE and the dump rest on, meets every node once and in order.
THEOREM LinksStayAgreed == Spec => []LinksAgree
<1> QED
  BY Always, InvariantIsAgreed, PTL

\* Where kvs_rbtree_range begins: at the first node whose key is not below a.
LEMMA LowerBoundIs ==
    ASSUME NEW under, Shape(T, Live, Keys, under), NEW a \in Int
    PROVE  /\ LowerBound(a) \in Live \cup {nil}
           /\ Upward(LowerBound(a)) = {w \in Live : a <= Keys[w]}
<1> DEFINE D == Live \cup {nil}
<1> DEFINE Way(x) == IF item[x].key < a THEN "right" ELSE "left"
<1> DEFINE stop == {nil}
<1> DEFINE base == [x \in D |-> x]
<1> DEFINE next == [x \in D \ stop |-> T.child[Way(x)][x]]
<1> DEFINE step == [p \in D \X D |-> IF Way(p[1]) = "right" THEN p[2]
                                     ELSE IF p[2] = nil THEN p[1] ELSE p[2]]
<1> DEFINE rank == DownRank(Live, under)
<1> DEFINE Loop(f) == f = [x \in D |->
               IF x = nil THEN nil
               ELSE IF item[x].key < a THEN f[T.child["right"][x]]
               ELSE LET better == f[T.child["left"][x]] IN IF better = nil THEN x ELSE better]
<1> DEFINE lower == CHOOSE f : Loop(f)
<1>1. LowerBound(a) = lower[T.root]
  BY DEF LowerBound
<1>2. /\ nil \notin Live /\ T.root \in D /\ under[T.root] = Live /\ under[nil] = {}
      /\ "left" \in Side /\ "right" \in Side /\ Other("left") = "right" /\ Other("right") = "left"
      /\ \A x \in Live : Keys[x] \in Int /\ Keys[x] = item[x].key
      /\ \A x \in Live, s \in Side : T.child[s][x] \in D
  BY Cells DEF Shape, Side, Other, Keys
<1>3. \A x : Way(x) \in Side /\ (Way(x) = "right" <=> item[x].key < a)
  BY <1>2
<1> HIDE DEF Way
<1>4. \E f \in [D -> D] : Loop(f)
  <2>1. rank \in [D -> 0 .. MaxNodes] /\ \A x \in D \ stop : rank[next[x]] < rank[x]
    <3>1. \A x \in Live, s \in Side : rank[T.child[s][x]] < rank[x]
      BY Deeper
    <3>2. \A x \in D \ stop : x \in Live /\ next[x] = T.child[Way(x)][x]
      OBVIOUS
    <3>3. rank \in [D -> 0 .. MaxNodes]
      BY Deeper
    <3> QED
      BY <1>3, <3>1, <3>2, <3>3
  <2>2. next \in [D \ stop -> D]
    BY <1>2, <1>3
  <2>3. base \in [D -> D] /\ step \in [D \X D -> D] /\ stop \in SUBSET D
    OBVIOUS
  <2> HIDE DEF rank, stop, base, next, step, D
  <2>4. PICK f \in [D -> D] : Follows(f, D, stop, base, next, step)
    BY <2>1, <2>2, <2>3, Recursion
  <2>5. ASSUME NEW x \in D
        PROVE  f[x] = IF x = nil THEN nil
                      ELSE IF item[x].key < a THEN f[T.child["right"][x]]
                      ELSE IF f[T.child["left"][x]] = nil THEN x ELSE f[T.child["left"][x]]
    <3>1. f[x] = IF x \in stop THEN base[x] ELSE step[<<x, f[next[x]]>>]
      BY <2>4 DEF Follows
    <3>2. CASE x = nil
      BY <3>1, <3>2 DEF stop, base
    <3>3. CASE x # nil
      <4>1. x \notin stop /\ next[x] = T.child[Way(x)][x] /\ next[x] \in D
        BY <2>2, <3>3 DEF stop, next
      <4>2. f[next[x]] \in D
        BY <4>1
      <4>3. step[<<x, f[next[x]]>>] =
               IF Way(x) = "right" THEN f[next[x]] ELSE IF f[next[x]] = nil THEN x ELSE f[next[x]]
        BY <4>2 DEF step
      <4>4. Way(x) # "right" => Way(x) = "left"
        BY DEF Way
      <4> QED
        BY <1>3, <3>1, <3>3, <4>1, <4>3, <4>4
    <3> QED
      BY <3>2, <3>3
  <2>6. f = [x \in D |-> f[x]]
    OBVIOUS
  <2>7. Loop(f)
    BY <2>5, <2>6
  <2> HIDE DEF Loop
  <2> QED
    BY <2>7
<1>5. Loop(lower)
  <2> HIDE DEF Loop
  <2> QED
    BY <1>4
<1> HIDE DEF lower
<1>6. /\ lower[nil] = nil
      /\ \A x \in Live : /\ Keys[x] < a => lower[x] = lower[T.child["right"][x]]
                         /\ ~(Keys[x] < a) =>
                               lower[x] = IF lower[T.child["left"][x]] = nil THEN x
                                          ELSE lower[T.child["left"][x]]
  BY <1>2, <1>5, Zenon
<1> HIDE DEF Loop, stop, base, next, step, rank
<1> DEFINE Good(x) ==
       /\ lower[x] = nil => \A w \in under[x] : Keys[w] < a
       /\ lower[x] # nil => /\ lower[x] \in under[x] /\ lower[x] \in Live /\ a <= Keys[lower[x]]
                            /\ \A w \in under[x] : a <= Keys[w] => Keys[lower[x]] <= Keys[w]
<1> DEFINE S == {x \in Live : ~Good(x)}
<1>7. S = {}
  <2> SUFFICES ASSUME S # {}
               PROVE  FALSE
    OBVIOUS
  <2>1. PICK x \in S : \A s \in Side : T.child[s][x] \notin S
    BY Lowest
  <2> DEFINE c == T.child["left"][x]
  <2> DEFINE o == T.child["right"][x]
  <2>2. x \in Live /\ ~Good(x) /\ c \notin S /\ o \notin S /\ c \in D /\ o \in D
    BY <1>2, <2>1
  <2>3. Good(nil)
    BY <1>2, <1>6
  <2>4. Good(c) /\ Good(o)
    BY <2>2, <2>3
  <2>5. /\ Keys[x] < a => lower[x] = lower[o]
        /\ ~(Keys[x] < a) => lower[x] = IF lower[c] = nil THEN x ELSE lower[c]
    BY <1>6, <2>2
  <2> HIDE DEF c, o
  <2>6. /\ under[x] = {x} \cup under[c] \cup under[o] /\ Keys[x] \in Int
        /\ \A v \in under[c] : Keys[v] \in Int /\ Before("left", Keys[v], Keys[x])
    <3>1. x \in Live /\ Shape(T, Live, Keys, under) /\ "left" \in Side /\ Other("left") = "right"
      BY <1>2, <2>2
    <3> QED
      BY ONLY <3>1, Node DEF c, o
  <2>7. \A v \in under[o] : Keys[v] \in Int /\ Before("right", Keys[v], Keys[x])
    <3>1. x \in Live /\ Shape(T, Live, Keys, under) /\ "right" \in Side
      BY <1>2, <2>2
    <3> QED
      BY ONLY <3>1, Node DEF o
  <2>8. /\ \A v \in under[c] : Keys[v] < Keys[x] /\ Keys[v] \in Int
        /\ \A v \in under[o] : Keys[x] < Keys[v] /\ Keys[v] \in Int
    BY <2>6, <2>7 DEF Before
  <2>9. CASE Keys[x] < a
    <3>1. lower[x] = lower[o] /\ \A v \in under[c] : Keys[v] < a
      BY <2>5, <2>6, <2>8, <2>9
    <3>2. \A w \in under[x] : ~(a <= Keys[w]) \/ w \in under[o]
      BY <2>6, <2>8, <2>9, <3>1
    <3>3. CASE lower[o] = nil
      <4>1. \A w \in under[x] : Keys[w] < a
        BY <2>4, <2>6, <2>9, <3>1, <3>3
      <4> QED
        BY <2>2, <3>1, <3>3, <4>1
    <3>4. CASE lower[o] # nil
      <4>1. lower[o] \in under[o] /\ lower[o] \in Live /\ a <= Keys[lower[o]]
            /\ \A w \in under[o] : a <= Keys[w] => Keys[lower[o]] <= Keys[w]
        BY <2>4, <3>4
      <4>2. \A w \in under[x] : a <= Keys[w] => Keys[lower[o]] <= Keys[w]
        BY <3>2, <4>1
      <4> QED
        BY <2>2, <2>6, <3>1, <3>4, <4>1, <4>2
    <3> QED
      BY <3>3, <3>4
  <2>10. CASE ~(Keys[x] < a)
    <3>1. a <= Keys[x] /\ \A v \in under[o] : Keys[x] <= Keys[v]
      BY <2>6, <2>8, <2>10
    <3>2. CASE lower[c] = nil
      <4>1. lower[x] = x /\ \A v \in under[c] : Keys[v] < a
        BY <2>4, <2>5, <2>10, <3>2
      <4>2. \A w \in under[x] : a <= Keys[w] => Keys[x] <= Keys[w]
        BY <2>6, <2>8, <3>1, <4>1
      <4> QED
        BY <1>2, <2>2, <2>6, <3>1, <4>1, <4>2
    <3>3. CASE lower[c] # nil
      <4>1. /\ lower[x] = lower[c] /\ lower[c] \in under[c] /\ lower[c] \in Live
            /\ a <= Keys[lower[c]]
            /\ \A w \in under[c] : a <= Keys[w] => Keys[lower[c]] <= Keys[w]
        BY <2>4, <2>5, <2>10, <3>3
      <4>2. Keys[lower[c]] < Keys[x] /\ Keys[lower[c]] \in Int
        BY <2>8, <4>1
      <4>3. \A w \in under[x] : a <= Keys[w] => Keys[lower[c]] <= Keys[w]
        BY <2>6, <2>8, <3>1, <4>1, <4>2
      <4> QED
        BY <2>2, <2>6, <3>3, <4>1, <4>3
    <3> QED
      BY <3>2, <3>3
  <2> QED
    BY <2>9, <2>10
<1> DEFINE l == lower[T.root]
<1>8. /\ l = nil => \A w \in Live : Keys[w] < a
      /\ l # nil => /\ l \in Live /\ a <= Keys[l]
                    /\ \A w \in Live : a <= Keys[w] => Keys[l] <= Keys[w]
  <2>1. Good(T.root)
    BY <1>2, <1>6, <1>7
  <2> QED
    BY <1>2, <2>1
<1> HIDE DEF l
<1>9. l \in D /\ Upward(l) = {w \in Live : a <= Keys[w]}
  <2>1. CASE l = nil
    <3>1. \A w \in Live : ~(a <= Keys[w])
      BY <1>2, <1>8, <2>1
    <3> QED
      BY <2>1, <3>1 DEF Upward
  <2>2. CASE l # nil
    <3>1. \A w \in Live : Keys[l] <= Keys[w] <=> a <= Keys[w]
      BY <1>2, <1>8, <2>2
    <3> QED
      BY <1>8, <2>2, <3>1 DEF Upward
  <2> QED
    BY <2>1, <2>2
<1> QED
  BY <1>1, <1>9 DEF l

-------------------------------------------------------------------------------
(***************************************************************************)
(* The tree implements the abstract store.                                 *)
(***************************************************************************)

\* The map that the items at some addresses stand for.
Stamped(r) == [value |-> r.value, timestamp |-> r.timestamp]
KeysAt(n, S) == {n[x].key : x \in S}
MapAt(n, S) == [k \in KeysAt(n, S) |-> Stamped(n[CHOOSE x \in S : n[x].key = k])]
KeysDiffer(n, S) == \A x, y \in S : n[x].key = n[y].key => x = y

LEMMA StoreIs == StoreMap = MapAt(item, Live) /\ StoreMap' = MapAt(item', Live')
BY DEF StoreMap, MapAt, KeysAt, Stamped

\* An item is what the map has for its key.
LEMMA MapHas ==
    ASSUME NEW n, NEW S, KeysDiffer(n, S), NEW x \in S
    PROVE  n[x].key \in KeysAt(n, S) /\ MapAt(n, S)[n[x].key] = Stamped(n[x])
<1>1. n[x].key \in KeysAt(n, S)
  BY DEF KeysAt
<1> DEFINE y == CHOOSE y \in S : n[y].key = n[x].key
<1>2. y \in S /\ n[y].key = n[x].key
  OBVIOUS
<1>3. y = x
  BY <1>2 DEF KeysDiffer
<1>4. MapAt(n, S)[n[x].key] = Stamped(n[y])
  BY <1>1 DEF MapAt
<1> QED
  BY <1>1, <1>3, <1>4

\* A function that has the keys of the items, and for each key what its item
\* holds, is their map.
LEMMA MapIs ==
    ASSUME NEW n, NEW S, KeysDiffer(n, S), NEW K, NEW f, K = KeysAt(n, S),
           \A x \in S : f[n[x].key] = Stamped(n[x])
    PROVE  MapAt(n, S) = [k \in K |-> f[k]]
<1>1. ASSUME NEW k \in KeysAt(n, S)
      PROVE  MapAt(n, S)[k] = f[k]
  <2>1. PICK x \in S : k = n[x].key
    BY DEF KeysAt
  <2>2. MapAt(n, S)[k] = Stamped(n[x])
    BY <2>1, MapHas
  <2> QED
    BY <2>1, <2>2
<1> QED
  BY <1>1 DEF MapAt

\* Until a MOD finds no memory, no item is without a value.
Intact == degraded \/ \A x \in Live : item[x].value # Null

\* Every node is in the map, under its key.
LEMMA Store ==
    ASSUME Invariant
    PROVE  /\ KeysDiffer(item, Live)
           /\ DOMAIN StoreMap = KeysAt(item, Live)
           /\ \A x \in Live : /\ item[x].key \in DOMAIN StoreMap
                              /\ StoreMap[item[x].key] = Stamped(item[x])
                              /\ StoreMap[item[x].key].value = item[x].value
                              /\ StoreMap[item[x].key].timestamp = item[x].timestamp
           /\ \A k \in DOMAIN StoreMap : \E x \in Live : item[x].key = k
<1>1. KeysDiffer(item, Live)
  <2>1. PICK under, h : Settled(T, Live, Keys, under, h)
    BY DEF Invariant, Rests
  <2>2. Shape(T, Live, Keys, under)
    BY <2>1 DEF Settled
  <2>3. \A x \in Live : Keys[x] = item[x].key
    BY DEF Keys
  <2>4. \A x, y \in Live : x # y => Keys[x] # Keys[y]
    BY <2>2, Distinct
  <2> QED
    BY <2>3, <2>4 DEF KeysDiffer
<1>2. DOMAIN StoreMap = KeysAt(item, Live)
  BY StoreIs DEF MapAt
<1>3. \A x \in Live : item[x].key \in DOMAIN StoreMap /\ StoreMap[item[x].key] = Stamped(item[x])
  BY <1>1, <1>2, StoreIs, MapHas
<1>4. \A x : Stamped(item[x]).value = item[x].value /\ Stamped(item[x]).timestamp = item[x].timestamp
  BY DEF Stamped
<1>5. \A k \in DOMAIN StoreMap : \E x \in Live : item[x].key = k
  BY <1>2 DEF KeysAt
<1> QED
  BY <1>1, <1>2, <1>3, <1>4, <1>5

\* A search finds exactly the keys of the map, and the node that has the key.
LEMMA FoundIsPresent ==
    ASSUME Invariant, NEW k \in Key
    PROVE  /\ Search(k) # nil <=> k \in DOMAIN StoreMap
           /\ Search(k) # nil => /\ Search(k) \in Live /\ item[Search(k)].key = k
                                 /\ StoreMap[k].value = item[Search(k)].value
<1>1. /\ Search(k) = nil => \A x \in Live : item[x].key # k
      /\ Search(k) # nil => Search(k) \in Live /\ item[Search(k)].key = k
  BY Found
<1> QED
  BY <1>1, Store

\* The step gives k the value v and the time t.
Putting(k, v, t) ==
    StoreMap' = [x \in DOMAIN StoreMap \cup {k} |->
                    IF x = k THEN [value |-> v, timestamp |-> t] ELSE StoreMap[x]]

LEMMA LinkPuts ==
    ASSUME Invariant, NEW k \in Key, NEW v \in Value, NEW t \in Time, Search(k) = nil,
           NEW new \in Address, new \notin Live, Live' = With(Live, new),
           item' = [x \in Live \cup {new} |->
                       IF x = new THEN [key |-> k, value |-> v, timestamp |-> t] ELSE item[x]]
    PROVE  Putting(k, v, t)
<1> DEFINE n == item'
<1> DEFINE L == Live'
<1> DEFINE K == DOMAIN StoreMap \cup {k}
<1> DEFINE f == [x \in K |-> IF x = k THEN [value |-> v, timestamp |-> t] ELSE StoreMap[x]]
<1>1. StoreMap' = MapAt(n, L)
  BY StoreIs
<1>2. L = Live \cup {new} /\ \A x \in Live : item[x].key # k
  BY Found DEF With
<1>3. /\ n[new].key = k /\ Stamped(n[new]) = [value |-> v, timestamp |-> t]
      /\ \A x \in Live : n[x].key = item[x].key /\ Stamped(n[x]) = Stamped(item[x])
  BY DEF Stamped
<1> HIDE DEF n, L
<1>4. KeysDiffer(n, L)
  BY <1>2, <1>3, Store DEF KeysDiffer
<1>5. K = KeysAt(n, L)
  <2>1. KeysAt(n, L) = KeysAt(item, Live) \cup {k}
    BY <1>2, <1>3 DEF KeysAt
  <2> QED
    BY <2>1, Store
<1>6. \A x \in L : f[n[x].key] = Stamped(n[x])
  BY <1>2, <1>3, Store
<1> HIDE DEF f, K
<1>7. MapAt(n, L) = [x \in K |-> f[x]]
  BY <1>4, <1>5, <1>6, MapIs
<1>8. f = [x \in K |-> f[x]]
  BY DEF f
<1>9. StoreMap' = f
  BY <1>1, <1>7, <1>8
<1> QED
  BY <1>9 DEF f, K, Putting

LEMMA RewritePuts ==
    ASSUME Invariant, NEW k \in Key, NEW v \in Value, NEW t \in Time, NEW c \in Live,
           item[c].key = k, item' = [item EXCEPT ![c] = [key |-> k, value |-> v, timestamp |-> t]]
    PROVE  Putting(k, v, t)
<1> DEFINE n == item'
<1> DEFINE K == DOMAIN StoreMap \cup {k}
<1> DEFINE f == [x \in K |-> IF x = k THEN [value |-> v, timestamp |-> t] ELSE StoreMap[x]]
<1>1. StoreMap' = MapAt(n, Live)
  <2>1. Live' = Live
    BY DEF Live
  <2> QED
    BY <2>1, StoreIs
<1>2. /\ n[c].key = k /\ Stamped(n[c]) = [value |-> v, timestamp |-> t]
      /\ \A x \in Live : n[x].key = item[x].key /\ (x # c => Stamped(n[x]) = Stamped(item[x]))
  BY DEF Stamped, Live, Invariant
<1> HIDE DEF n
<1>3. KeysDiffer(n, Live) /\ \A x \in Live : item[x].key = k => x = c
  BY <1>2, Store DEF KeysDiffer
<1>4. K = KeysAt(n, Live)
  <2>1. KeysAt(n, Live) = KeysAt(item, Live) /\ k \in KeysAt(item, Live)
    BY <1>2 DEF KeysAt
  <2> QED
    BY <2>1, Store
<1>5. \A x \in Live : f[n[x].key] = Stamped(n[x])
  BY <1>2, <1>3, Store
<1> HIDE DEF f, K
<1>6. MapAt(n, Live) = [x \in K |-> f[x]]
  BY <1>3, <1>4, <1>5, MapIs
<1>7. f = [x \in K |-> f[x]]
  BY DEF f
<1>8. StoreMap' = f
  BY <1>1, <1>6, <1>7
<1> QED
  BY <1>8 DEF f, K, Putting

\* Where the timestamps are all the same, it does not matter that the node asked
\* for keeps its own when it takes over the item of the one that is taken out.
LEMMA TakeRemoves ==
    ASSUME Invariant, \A s, t \in Time : s = t, NEW k \in Key, NEW z \in Live,
           item[z].key = k, Live' = Without(Live, Removed(z)), item' = DeletedItems(z)
    PROVE  StoreMap' = [x \in DOMAIN StoreMap \ {k} |-> StoreMap[x]]
<1> DEFINE n == item'
<1> DEFINE L == Live'
<1> DEFINE K == DOMAIN StoreMap \ {k}
<1> DEFINE y == Removed(z)
<1> DEFINE held == [x \in L |-> IF x = z THEN y ELSE x]
<1>1. StoreMap' = MapAt(n, L)
  BY StoreIs
<1>2. y \in Live
  <2>1. PICK under, h : Settled(T, Live, Keys, under, h)
    BY DEF Invariant, Rests
  <2> QED
    BY <2>1, RemovedIs DEF Settled
<1>3. L = Live \ {y}
  BY DEF Without
<1>4. n = [x \in Live \ {y} |->
              IF x = z THEN [item[z] EXCEPT !.key = item[y].key, !.value = item[y].value]
              ELSE item[x]]
  BY DEF DeletedItems
<1>5. \A x \in Live : item[x] \in Item /\ item[x].timestamp \in Time
  BY DEF Invariant, Item
<1> HIDE DEF n, L, y
<1>6. \A x \in L : held[x] \in Live \ {z}
  BY <1>2, <1>3
<1>7. \A w \in Live \ {z} : \E x \in L : held[x] = w
  <2> TAKE w \in Live \ {z}
  <2>1. CASE w = y
    BY <1>3, <2>1
  <2>2. CASE w # y
    BY <1>3, <2>2
  <2> QED
    BY <2>1, <2>2
<1>8. \A w, x \in L : held[w] = held[x] => w = x
  BY <1>3
<1>9. ASSUME NEW x \in L
      PROVE  n[x].key = item[held[x]].key /\ Stamped(n[x]) = Stamped(item[held[x]])
  <2>1. CASE x # z
    BY <1>3, <1>4, <2>1
  <2>2. CASE x = z
    <3>1. n[x] = [item[z] EXCEPT !.key = item[y].key, !.value = item[y].value]
      BY <1>3, <1>4, <2>2
    <3>2. n[x].key = item[y].key /\ n[x].value = item[y].value /\ n[x].timestamp = item[z].timestamp
      BY <1>5, <3>1 DEF Item
    <3>3. item[z].timestamp = item[y].timestamp
      BY <1>2, <1>5
    <3> QED
      BY <2>2, <3>2, <3>3 DEF Stamped
  <2> QED
    BY <2>1, <2>2
<1> HIDE DEF held
<1>10. KeysDiffer(n, L)
  BY <1>6, <1>8, <1>9, Store DEF KeysDiffer
<1>11. K = KeysAt(n, L)
  <2>1. \A x \in Live : item[x].key = k => x = z
    BY Store DEF KeysDiffer
  <2>2. KeysAt(n, L) = {item[w].key : w \in Live \ {z}}
    BY <1>6, <1>7, <1>9 DEF KeysAt
  <2>3. {item[w].key : w \in Live \ {z}} = KeysAt(item, Live) \ {k}
    BY <2>1 DEF KeysAt
  <2> QED
    BY <2>2, <2>3, Store
<1>12. \A x \in L : StoreMap[n[x].key] = Stamped(n[x])
  BY <1>6, <1>9, Store
<1> HIDE DEF K
<1>13. MapAt(n, L) = [x \in K |-> StoreMap[x]]
  BY <1>10, <1>11, <1>12, MapIs
<1> QED
  BY <1>1, <1>13 DEF K

-------------------------------------------------------------------------------
\* The first m of some items with ascending keys are m.
LEMMA FirstCount ==
    ASSUME NEW N \in Nat, NEW r, \A m \in 1 .. N : r[m][1] \in Int,
           \A m, n \in 1 .. N : m < n => r[m][1] < r[n][1], NEW m \in 0 .. N
    PROVE  Cardinality({r[j] : j \in 1 .. m}) = m
<1> DEFINE first == {r[j] : j \in 1 .. m}
<1> DEFINE f == [j \in 1 .. m |-> r[j]]
<1>1. \A j \in 1 .. m : j \in 1 .. N
  OBVIOUS
<1>2. f \in [1 .. m -> first] /\ \A j \in 1 .. m : f[j] = r[j]
  OBVIOUS
<1>3. \A i, j \in 1 .. m : r[i] = r[j] => i = j
  <2>1. ASSUME NEW i \in 1 .. m, NEW j \in 1 .. m, i < j
        PROVE  r[i] # r[j]
    <3>1. r[i][1] < r[j][1] /\ r[i][1] \in Int /\ r[j][1] \in Int
      BY <1>1, <2>1
    <3> QED
      BY <3>1
  <2>2. \A i, j \in 1 .. m : i < j \/ j < i \/ i = j
    OBVIOUS
  <2> QED
    BY <2>1, <2>2
<1>4. \A t \in first : \E j \in 1 .. m : f[j] = t
  BY <1>2
<1> HIDE DEF f, first
<1>5. f \in Bijection(1 .. m, first)
  BY <1>2, <1>3, <1>4 DEF Bijection, Injection, Surjection, IsInjective
<1>6. ExistsBijection(1 .. m, first)
  BY <1>5 DEF ExistsBijection
<1> QED
  BY <1>6, FS_CountingElements DEF first

\* Items that come with ascending keys come sorted.
LEMMA AscendingIsSorted ==
    ASSUME NEW N \in Nat, NEW r, r = [m \in 1 .. N |-> r[m]], \A m \in 1 .. N : r[m][1] \in Int,
           \A m, n \in 1 .. N : m < n => r[m][1] < r[n][1],
           NEW items, items = {r[m] : m \in 1 .. N}
    PROVE  SortByKey(items) = r
<1> DEFINE Smaller(x) == {y \in items : y[1] < x[1]}
<1> DEFINE NotGreater(x) == {y \in items : y[1] <= x[1]}
<1> DEFINE Ranked(x, m) == Cardinality(Smaller(x)) < m /\ m <= Cardinality(NotGreater(x))
<1>0. \A l \in 0 .. N : Cardinality({r[j] : j \in 1 .. l}) = l
  BY FirstCount
<1>1. Cardinality(items) = N
  BY FirstCount
<1>2. ASSUME NEW m \in 1 .. N
      PROVE  Cardinality(Smaller(r[m])) = m - 1 /\ Cardinality(NotGreater(r[m])) = m
  <2>1. \A j \in 1 .. N : (r[j][1] < r[m][1] <=> j < m) /\ (r[j][1] <= r[m][1] <=> j <= m)
    <3>1. ASSUME NEW j \in 1 .. N
          PROVE  (r[j][1] < r[m][1] <=> j < m) /\ (r[j][1] <= r[m][1] <=> j <= m)
      <4>1. r[j][1] \in Int /\ r[m][1] \in Int
        OBVIOUS
      <4>2. (j < m => r[j][1] < r[m][1]) /\ (m < j => r[m][1] < r[j][1])
        OBVIOUS
      <4>3. j < m \/ j = m \/ m < j
        OBVIOUS
      <4> QED
        BY <4>1, <4>2, <4>3
    <3> QED
      BY <3>1
  <2>2. Smaller(r[m]) = {r[j] : j \in 1 .. m - 1}
    BY <2>1
  <2>3. NotGreater(r[m]) = {r[j] : j \in 1 .. m}
    BY <2>1
  <2>4. m - 1 \in 0 .. N /\ m \in 0 .. N
    OBVIOUS
  <2>5. Cardinality({r[j] : j \in 1 .. m - 1}) = m - 1
    BY <1>0, <2>4, Zenon
  <2>6. Cardinality({r[j] : j \in 1 .. m}) = m
    BY <1>0, <2>4, Zenon
  <2> HIDE DEF Smaller, NotGreater
  <2> QED
    BY <2>2, <2>3, <2>5, <2>6
<1>3. ASSUME NEW m \in 1 .. N
      PROVE  (CHOOSE x \in items : Ranked(x, m)) = r[m]
  <2>1. ASSUME NEW x \in items
        PROVE  Ranked(x, m) <=> x = r[m]
    <3>1. PICK j \in 1 .. N : x = r[j]
      OBVIOUS
    <3>2. Cardinality(Smaller(x)) = j - 1 /\ Cardinality(NotGreater(x)) = j
      BY <1>2, <3>1
    <3> HIDE DEF Smaller, NotGreater
    <3>3. Ranked(x, m) <=> j - 1 < m /\ m <= j
      BY <3>2
    <3>4. Ranked(x, m) <=> j = m
      BY <3>3
    <3>5. r[j] = r[m] => j = m
      <4>1. j < m => r[j][1] < r[m][1]
        OBVIOUS
      <4>2. m < j => r[m][1] < r[j][1]
        OBVIOUS
      <4>3. r[j][1] \in Int /\ r[m][1] \in Int
        OBVIOUS
      <4>4. r[j] = r[m] => r[j][1] = r[m][1]
        OBVIOUS
      <4> QED
        BY <4>1, <4>2, <4>3, <4>4
    <3> HIDE DEF Ranked
    <3> QED
      BY <3>1, <3>4, <3>5
  <2>2. r[m] \in items
    OBVIOUS
  <2> HIDE DEF Ranked
  <2> QED
    BY <2>1, <2>2
<1>4. SortByKey(items) = [m \in 1 .. N |-> CHOOSE x \in items : Ranked(x, m)]
  BY <1>1 DEF SortByKey
<1> HIDE DEF Ranked
<1> QED
  BY <1>3, <1>4


\* The items of the nodes in q.
Collected(q) == [n \in DOMAIN q |-> <<item[q[n]].key, item[q[n]].value>>]

\* The items RANGE collects are those of the map between the two keys, in key
\* order: the walk by successor has nothing to sort.
LEMMA WalkIsSorted ==
    ASSUME Invariant, NEW a \in Key, NEW b \in Key,
           NEW s, s = From(LowerBound(a), {x \in Live : item[x].key <= b})
    PROVE  Collected(s) = Abs!SortByKey(Abs!Between(a, b)) /\ (s = <<>> <=> Abs!Between(a, b) = {})
<1> DEFINE B == {x \in Live : item[x].key <= b}
<1> DEFINE S == {x \in Live : a <= item[x].key /\ item[x].key <= b}
<1> DEFINE r == [n \in DOMAIN s |-> <<item[s[n]].key, item[s[n]].value>>]
<1> DEFINE N == Len(s)
<1> DEFINE items == {r[m] : m \in 1 .. N}
<1>1. PICK under, h : Settled(T, Live, Keys, under, h)
  BY DEF Invariant, Rests
<1>2. Shape(T, Live, Keys, under) /\ a \in Int /\ b \in Int
  BY <1>1, KeyAssumption DEF Settled
<1>3. \A x \in Live : Keys[x] = item[x].key /\ Keys[x] \in Int
  BY <1>2, KeysAre DEF Invariant
<1>4. Lists(s, S)
  <2> DEFINE l == LowerBound(a)
  <2>1. l \in Live \cup {nil} /\ Upward(l) = {w \in Live : a <= Keys[w]}
    BY <1>2, LowerBoundIs
  <2>2. s = From(l, B)
    OBVIOUS
  <2> HIDE DEF l
  <2>3. B \in SUBSET Live /\ \A c \in B, w \in Live : Keys[w] < Keys[c] => w \in B
    BY <1>2, <1>3
  <2>4. Upward(l) \cap B = S
    BY <1>3, <2>1
  <2> HIDE DEF B, S
  <2>5. Lists(From(l, B), Upward(l) \cap B)
    BY <1>2, <2>1, <2>3, FromIs
  <2> QED
    BY <2>2, <2>4, <2>5
<1>5. \A x \in S : x \in Live /\ a <= item[x].key /\ item[x].key <= b
  OBVIOUS
<1>6. \A x \in Live : a <= item[x].key /\ item[x].key <= b => x \in S
  OBVIOUS
<1> HIDE DEF S, B
<1>7. s \in Seq(Live) /\ N \in Nat /\ DOMAIN s = 1 .. N
  BY <1>4 DEF Lists
<1>8. \A m \in 1 .. N : s[m] \in S /\ s[m] \in Live
  BY <1>4, <1>5 DEF Lists
<1>9. \A z \in S : \E m \in 1 .. N : s[m] = z
  BY <1>4 DEF Lists
<1>10. \A m, n \in 1 .. N : m < n => Keys[s[m]] < Keys[s[n]]
  BY <1>4 DEF Lists
<1>11. s = <<>> <=> N = 0
  BY <1>7
<1>12. r = [m \in 1 .. N |-> r[m]] /\ \A m \in 1 .. N : r[m] = <<item[s[m]].key, item[s[m]].value>>
  BY <1>7
<1> HIDE DEF r, N
<1>13. \A m \in 1 .. N : r[m][1] = Keys[s[m]] /\ r[m][1] \in Int
  BY <1>3, <1>8, <1>12
<1>14. \A m, n \in 1 .. N : m < n => r[m][1] < r[n][1]
  BY <1>10, <1>13
<1>15. items = Abs!Between(a, b)
  <2>1. ASSUME NEW i \in items
        PROVE  i \in Abs!Between(a, b)
    <3>1. PICK m \in 1 .. N : i = r[m]
      OBVIOUS
    <3>2. i = <<item[s[m]].key, item[s[m]].value>> /\ s[m] \in Live
          /\ a <= item[s[m]].key /\ item[s[m]].key <= b
      BY <1>5, <1>8, <1>12, <3>1
    <3>3. item[s[m]].key \in DOMAIN StoreMap /\ StoreMap[item[s[m]].key].value = item[s[m]].value
      BY <3>2, Store
    <3> QED
      BY <3>2, <3>3 DEF Abs!Between, Abs!Present
  <2>2. ASSUME NEW i \in Abs!Between(a, b)
        PROVE  i \in items
    <3>1. PICK k \in DOMAIN StoreMap : a <= k /\ k <= b /\ i = <<k, StoreMap[k].value>>
      BY DEF Abs!Between, Abs!Present
    <3>2. PICK x \in Live : item[x].key = k
      BY Store
    <3>3. StoreMap[k].value = item[x].value
      BY <3>2, Store
    <3>4. PICK m \in 1 .. N : s[m] = x
      BY <1>6, <1>9, <3>1, <3>2
    <3>5. r[m] = i
      BY <1>12, <3>1, <3>2, <3>3, <3>4
    <3> QED
      BY <3>5
  <2> QED
    BY <2>1, <2>2
<1>16. items = {} <=> N = 0
  <2>1. N # 0 => 1 \in 1 .. N
    BY <1>7
  <2>2. N = 0 => 1 .. N = {}
    BY <1>7
  <2> QED
    BY <2>1, <2>2
<1>17. SortByKey(items) = r
  BY <1>7, <1>12, <1>13, <1>14, AscendingIsSorted
<1>18. SortByKey(items) = Abs!SortByKey(items)
  BY DEF SortByKey, Abs!SortByKey, Cardinality, Abs!Cardinality
<1> HIDE DEF items
<1>19. Collected(s) = r
  BY DEF Collected, r
<1> QED
  BY <1>11, <1>15, <1>16, <1>17, <1>18, <1>19

-------------------------------------------------------------------------------
LEMMA IntactInitially == Init => Intact
BY DEF Init, Intact, Live

\* A value is lost only in a MOD that says so.
LEMMA StaysIntact ==
    ASSUME Invariant, Intact, [Next]_vars
    PROVE  Intact'
<1>1. CASE item' = item /\ (degraded => degraded')
  BY <1>1 DEF Intact, Live
<1>2. \A x \in Live : item[x] \in Item
  BY DEF Invariant
<1>3. ASSUME NEW k \in Key, NEW v \in Value, NEW t \in Time, Set(k, v, t)
      PROVE  Intact'
  <2>1. CASE \E new : /\ item' = [x \in Live \cup {new} |->
                             IF x = new THEN [key |-> k, value |-> v, timestamp |-> t]
                             ELSE item[x]]
                      /\ degraded' = degraded
    <3>1. PICK new : /\ item' = [x \in Live \cup {new} |->
                             IF x = new THEN [key |-> k, value |-> v, timestamp |-> t]
                             ELSE item[x]]
                      /\ degraded' = degraded
      BY <2>1
    <3>2. Live' = Live \cup {new}
      BY <3>1 DEF Live
    <3>3. \A x \in Live' : item'[x].value = IF x = new THEN v ELSE item[x].value
      BY <3>1, <3>2
    <3> QED
      BY <3>1, <3>2, <3>3, NullAssumption DEF Intact
  <2>2. CASE item' = item /\ degraded' = degraded
    BY <1>1, <2>2
  <2> QED
    BY <1>3, <2>1, <2>2 DEF Set, Undefined
<1>4. ASSUME NEW k \in Key, NEW v \in Value, NEW t \in Time, Mod(k, v, t)
      PROVE  Intact'
  <2>1. CASE item' = item /\ degraded' = degraded
    BY <1>1, <2>1
  <2>2. CASE degraded' = TRUE
    BY <2>2 DEF Intact
  <2>3. CASE /\ item' = [item EXCEPT ![Search(k)] = [key |-> k, value |-> v, timestamp |-> t]]
             /\ degraded' = degraded
    <3> DEFINE i == [key |-> k, value |-> v, timestamp |-> t]
    <3>1. i.value = v /\ item' = [item EXCEPT ![Search(k)] = i]
      BY <2>3
    <3> HIDE DEF i
    <3>2. Live' = Live /\ \A x \in Live : item'[x] = item[x] \/ item'[x] = i
      BY <3>1 DEF Live
    <3> QED
      BY <2>3, <3>1, <3>2, NullAssumption DEF Intact
  <2> QED
    BY <1>4, <2>1, <2>2, <2>3 DEF Mod
<1>5. ASSUME NEW k \in Key, Get(k) \/ Exist(k)
      PROVE  Intact'
  BY <1>1, <1>5 DEF Get, Exist
<1>6. ASSUME NEW k \in Key, Del(k)
      PROVE  Intact'
  <2>1. CASE item' = item /\ degraded' = degraded
    BY <1>1, <2>1
  <2>2. CASE Search(k) # nil /\ item' = DeletedItems(Search(k)) /\ degraded' = degraded
    <3> DEFINE z == Search(k)
    <3> DEFINE y == Removed(z)
    <3>1. z \in Live
      BY <1>6, <2>2, Found
    <3>2. y \in Live
      <4>1. PICK under, h : Settled(T, Live, Keys, under, h)
        BY DEF Invariant, Rests
      <4> HIDE DEF z
      <4> QED
        BY <3>1, <4>1, RemovedIs DEF Settled
    <3>3. item' = [x \in Live \ {y} |->
                      IF x = z THEN [item[z] EXCEPT !.key = item[y].key, !.value = item[y].value]
                      ELSE item[x]]
      BY <2>2 DEF DeletedItems
    <3> HIDE DEF y, z
    <3>4. [item[z] EXCEPT !.key = item[y].key, !.value = item[y].value].value = item[y].value
      BY <1>2, <3>1 DEF Item
    <3>5. Live' = Live \ {y} /\ \A x \in Live' : item'[x].value = item[x].value
                                                \/ item'[x].value = item[y].value
      BY <3>3, <3>4 DEF Live
    <3> QED
      BY <2>2, <3>2, <3>5 DEF Intact
  <2> QED
    BY <1>6, <2>1, <2>2 DEF Del
<1>7. ASSUME NEW a \in Key, NEW b \in Key, RangeQuery(a, b)
      PROVE  Intact'
  <2>1. item' = item /\ (degraded' = degraded \/ degraded' = TRUE)
    BY <1>7 DEF RangeQuery, Undefined
  <2> QED
    BY <1>1, <2>1
<1>8. ASSUME GetAll
      PROVE  Intact'
  <2>1. item' = item /\ (degraded' = (degraded \/ T.root # nil) \/ degraded' = degraded)
    BY <1>8 DEF GetAll, Undefined
  <2>2. degraded => degraded'
    BY <2>1, Zenon
  <2> QED
    BY <1>1, <2>1, <2>2
<1>9. CASE UNCHANGED vars
  BY <1>1, <1>9 DEF vars
<1> QED
  BY <1>3, <1>4, <1>5, <1>6, <1>7, <1>8, <1>9 DEF Next

-------------------------------------------------------------------------------
\* As long as no value was lost, rbtree_get tells apart the keys that are there
\* from those that are not.
LEMMA NullIsAbsent ==
    ASSUME Invariant, Intact, ~degraded, NEW k \in Key
    PROVE  GetIsNull(k) <=> Search(k) = nil
<1>1. Search(k) # nil => item[Search(k)].value # Null
  BY FoundIsPresent DEF Intact
<1> QED
  BY <1>1 DEF GetIsNull

\* A step that leaves the items alone leaves the map alone.
LEMMA SameMap ==
    ASSUME item' = item
    PROVE  StoreMap' = StoreMap
BY DEF StoreMap, Live

LEMMA SetImplements ==
    ASSUME Invariant, Intact, ~degraded, NEW k \in Key, NEW v \in Value, NEW t \in Time,
           Set(k, v, t)
    PROVE  [Abs!Set(k, v, t)]_(Abs!vars)
<1>1. SetResponse(1) = "EXIST" /\ SetResponse(-2) = "ERROR" /\ SetResponse(0) = "SUCCESS"
  BY DEF SetResponse
<1>2. (Search(k) = nil <=> k \notin DOMAIN StoreMap) /\ (GetIsNull(k) <=> Search(k) = nil)
  BY FoundIsPresent, NullIsAbsent
<1>3. CASE k \in DOMAIN StoreMap /\ Answer("SET", <<k, v, t>>, "EXIST") /\ item' = item
  BY <1>3, SameMap DEF Abs!Set, Abs!Answer, Abs!Present, Answer
<1>4. CASE Undefined
  BY <1>4, SameMap DEF Undefined, Abs!vars
<1>5. CASE Answer("SET", <<k, v, t>>, "ERROR") /\ item' = item
  BY <1>5, SameMap DEF Abs!Set, Abs!Answer, Answer
<1> DEFINE new == CHOOSE x \in Address \ Live : \A y \in Address \ Live : x <= y
<1>6. ASSUME Search(k) = nil, Address \ Live # {}, T' = Inserted(new, k),
             item' = [x \in Live \cup {new} |->
                         IF x = new THEN [key |-> k, value |-> v, timestamp |-> t] ELSE item[x]],
             Answer("SET", <<k, v, t>>, "SUCCESS")
      PROVE  Abs!Set(k, v, t)
  <2>1. new \in Address /\ new \notin Live
    <3>1. Address \ Live \subseteq Nat
      BY BoundAssumption DEF Address
    <3>2. \E x \in Address \ Live : \A y \in Address \ Live : x <= y
      BY <1>6, <3>1, Smallest
    <3> QED
      BY <3>2
  <2> HIDE DEF new
  <2>2. Live' = With(Live, new)
    BY <1>6, <2>1, SetRests
  <2>3. StoreMap' = [x \in DOMAIN StoreMap \cup {k} |->
                        IF x = k THEN [value |-> v, timestamp |-> t] ELSE StoreMap[x]]
    <3>1. Putting(k, v, t)
      BY <1>6, <2>1, <2>2, LinkPuts
    <3> QED
      BY <3>1, Zenon DEF Putting
  <2>4. k \notin DOMAIN StoreMap
    BY <1>2, <1>6
  <2> QED
    BY <1>6, <2>3, <2>4 DEF Abs!Set, Abs!Put, Abs!Present, Abs!Answer, Answer
<1>7. \/ ~GetIsNull(k) /\ Answer("SET", <<k, v, t>>, "EXIST") /\ item' = item
      \/ Undefined
      \/ Answer("SET", <<k, v, t>>, "ERROR") /\ item' = item
      \/ GetIsNull(k) /\ Search(k) # nil
      \/ /\ Search(k) = nil /\ Address \ Live # {}
         /\ T' = Inserted(new, k)
         /\ item' = [x \in Live \cup {new} |->
                        IF x = new THEN [key |-> k, value |-> v, timestamp |-> t] ELSE item[x]]
         /\ Answer("SET", <<k, v, t>>, "SUCCESS")
  BY <1>1, Zenon DEF Set
<1> HIDE DEF new
<1> QED
  BY <1>2, <1>3, <1>4, <1>5, <1>6, <1>7, Zenon

LEMMA ModImplements ==
    ASSUME Invariant, ~degraded, ~degraded', NEW k \in Key, NEW v \in Value, NEW t \in Time,
           Mod(k, v, t)
    PROVE  Abs!Mod(k, v, t)
<1>1. ModResponse(-2) = "ERROR" /\ ModResponse(0) = "SUCCESS"
  BY DEF ModResponse
<1>2. CASE Search(k) = nil
  <2>1. item' = item /\ Answer("MOD", <<k, v, t>>, "ERROR")
    BY <1>1, <1>2, Zenon DEF Mod
  <2>2. StoreMap' = StoreMap /\ k \notin DOMAIN StoreMap
    BY <1>2, <2>1, SameMap, FoundIsPresent
  <2> QED
    BY <2>1, <2>2 DEF Abs!Mod, Abs!Answer, Abs!Present, Answer
<1>3. CASE Search(k) # nil
  <2> DEFINE c == Search(k)
  <2>1. /\ item' = [item EXCEPT ![c] = [key |-> k, value |-> v, timestamp |-> t]]
        /\ Answer("MOD", <<k, v, t>>, "SUCCESS")
    BY <1>1, <1>3, Zenon DEF Mod
  <2>2. c \in Live /\ item[c].key = k /\ k \in DOMAIN StoreMap
    BY <1>3, FoundIsPresent
  <2> HIDE DEF c
  <2>3. Putting(k, v, t)
    BY <2>1, <2>2, RewritePuts
  <2>4. StoreMap' = [x \in DOMAIN StoreMap \cup {k} |->
                        IF x = k THEN [value |-> v, timestamp |-> t] ELSE StoreMap[x]]
    BY <2>3, Zenon DEF Putting
  <2> QED
    BY <2>1, <2>2, <2>4, Zenon DEF Abs!Mod, Abs!Put, Abs!Present, Abs!Answer, Answer
<1> QED
  BY <1>2, <1>3

LEMMA DelImplements ==
    ASSUME Invariant, \A s, t \in Time : s = t, NEW k \in Key, Del(k)
    PROVE  Abs!Del(k)
<1>1. DelResponse(-2) = "ERROR" /\ DelResponse(0) = "SUCCESS"
  BY DEF DelResponse
<1>2. CASE Search(k) = nil
  <2>1. item' = item /\ Answer("DEL", k, "ERROR")
    BY <1>1, <1>2 DEF Del
  <2>2. StoreMap' = StoreMap /\ k \notin DOMAIN StoreMap
    BY <1>2, <2>1, SameMap, FoundIsPresent
  <2> QED
    BY <2>1, <2>2 DEF Abs!Del, Abs!Answer, Abs!Present, Answer
<1>3. CASE Search(k) # nil
  <2> DEFINE z == Search(k)
  <2>1. T' = Deleted(z) /\ item' = DeletedItems(z) /\ Answer("DEL", k, "SUCCESS")
    BY <1>1, <1>3 DEF Del
  <2>2. z \in Live /\ item[z].key = k /\ k \in DOMAIN StoreMap
    BY <1>3, FoundIsPresent
  <2> HIDE DEF z
  <2>3. Live' = Without(Live, Removed(z))
    BY <2>1, <2>2, DelRests
  <2>4. StoreMap' = [x \in DOMAIN StoreMap \ {k} |-> StoreMap[x]]
    BY <2>1, <2>2, <2>3, TakeRemoves
  <2>5. Answer("DEL", k, "SUCCESS")
    BY <2>1
  <2> QED
    BY <2>2, <2>4, <2>5 DEF Abs!Del, Abs!Without, Abs!Present, Abs!Answer, Answer
<1> QED
  BY <1>2, <1>3

LEMMA GetImplements ==
    ASSUME Invariant, Intact, ~degraded, NEW k \in Key, Get(k)
    PROVE  Abs!Get(k)
<1>1. StoreMap' = StoreMap
  BY SameMap DEF Get
<1>2. Answer("GET", k, IF GetIsNull(k) THEN "NO EXIST" ELSE item[Search(k)].value)
  BY DEF Get
<1>3. Answer("GET", k, IF k \in DOMAIN StoreMap THEN StoreMap[k].value ELSE "NO EXIST")
  <2>1. CASE Search(k) = nil
    BY <1>2, <2>1, FoundIsPresent, NullIsAbsent
  <2>2. CASE Search(k) # nil
    BY <1>2, <2>2, FoundIsPresent, NullIsAbsent
  <2> QED
    BY <2>1, <2>2
<1> QED
  BY <1>1, <1>3 DEF Abs!Get, Abs!Answer, Abs!Present, Answer

LEMMA ExistImplements ==
    ASSUME Invariant, NEW k \in Key, Exist(k)
    PROVE  Abs!Exist(k)
<1>1. StoreMap' = StoreMap
  BY SameMap DEF Exist
<1>2. ExistResponse(0) = "EXIST" /\ ExistResponse(-2) = "NO EXIST"
  BY DEF ExistResponse
<1>3. Answer("EXIST", k, IF k \in DOMAIN StoreMap THEN "EXIST" ELSE "NO EXIST")
  BY <1>2, FoundIsPresent DEF Exist
<1> QED
  BY <1>1, <1>3 DEF Abs!Exist, Abs!Answer, Abs!Present, Answer

LEMMA RangeImplements ==
    ASSUME Invariant, ~degraded', NEW a \in Key, NEW b \in Key, RangeQuery(a, b)
    PROVE  [Abs!RangeQuery(a, b)]_(Abs!vars)
<1> DEFINE s == From(LowerBound(a), {x \in Live : item[x].key <= b})
<1> DEFINE r == [n \in DOMAIN s |-> <<item[s[n]].key, item[s[n]].value>>]
<1>1. RangeResponse(-2) = "ERROR" /\ RangeResponse(1) = "EMPTY"
  BY DEF RangeResponse
<1>2. \/ Undefined
      \/ a > b /\ Answer("RANGE", <<a, b>>, "ERROR") /\ item' = item
      \/ a <= b /\ s = <<>> /\ Answer("RANGE", <<a, b>>, "EMPTY") /\ item' = item
      \/ a <= b /\ s # <<>> /\ Answer("RANGE", <<a, b>>, r) /\ item' = item
  BY <1>1, Zenon DEF RangeQuery
<1>3. r = Abs!SortByKey(Abs!Between(a, b)) /\ (s = <<>> <=> Abs!Between(a, b) = {})
  <2>1. s = From(LowerBound(a), {x \in Live : item[x].key <= b})
    OBVIOUS
  <2> HIDE DEF s
  <2>2. Collected(s) = Abs!SortByKey(Abs!Between(a, b)) /\ (s = <<>> <=> Abs!Between(a, b) = {})
    BY <2>1, WalkIsSorted
  <2> QED
    BY <2>2 DEF Collected
<1>4. a \in Int /\ b \in Int /\ (a > b <=> ~(a <= b))
  BY KeyAssumption
<1> HIDE DEF s, r
<1>5. CASE Undefined
  BY <1>5, SameMap DEF Undefined, Abs!vars
<1>6. CASE a > b /\ Answer("RANGE", <<a, b>>, "ERROR") /\ item' = item
  BY <1>4, <1>6, SameMap DEF Abs!RangeQuery, Abs!Answer, Answer
<1>7. CASE a <= b /\ s = <<>> /\ Answer("RANGE", <<a, b>>, "EMPTY") /\ item' = item
  BY <1>3, <1>4, <1>7, SameMap DEF Abs!RangeQuery, Abs!Answer, Answer
<1>8. CASE a <= b /\ s # <<>> /\ Answer("RANGE", <<a, b>>, r) /\ item' = item
  BY <1>3, <1>4, <1>8, SameMap DEF Abs!RangeQuery, Abs!Answer, Answer
<1> QED
  BY <1>2, <1>5, <1>6, <1>7, <1>8

LEMMA GetAllImplements ==
    ASSUME Invariant, ~degraded', GetAll
    PROVE  [Abs!GetAll]_(Abs!vars)
<1> DEFINE items == {<<item[InOrder[n]].key, item[InOrder[n]].value, item[InOrder[n]].timestamp>> :
                        n \in DOMAIN InOrder}
<1>1. PICK under, h : Settled(T, Live, Keys, under, h)
  BY DEF Invariant, Rests
<1>2. Shape(T, Live, Keys, under)
  BY <1>1 DEF Settled
<1>3. T.root = nil <=> Live = {}
  <2>1. nil \notin Live /\ T.root \in Live \cup {nil} /\ under[T.root] = Live /\ under[nil] = {}
    BY <1>2, Cells DEF Shape
  <2> QED
    BY <2>1
<1>4. Live = {} <=> DOMAIN StoreMap = {}
  BY DEF StoreMap
<1>5. items = {<<k, StoreMap[k].value, StoreMap[k].timestamp>> : k \in DOMAIN StoreMap}
  <2>1. {InOrder[n] : n \in DOMAIN InOrder} = Live
    BY InvariantIsAgreed DEF LinksAgree
  <2> DEFINE q == InOrder
  <2> HIDE DEF q
  <2>2. {q[n] : n \in DOMAIN q} = Live
    BY <2>1 DEF q
  <2>3. items = {<<item[q[n]].key, item[q[n]].value, item[q[n]].timestamp>> : n \in DOMAIN q}
    BY DEF q
  <2>4. items = {<<item[x].key, item[x].value, item[x].timestamp>> : x \in Live}
    BY <2>2, <2>3
  <2>5. \A x \in Live : /\ item[x].key \in DOMAIN StoreMap
                        /\ StoreMap[item[x].key].value = item[x].value
                        /\ StoreMap[item[x].key].timestamp = item[x].timestamp
    BY Store
  <2>6. \A k \in DOMAIN StoreMap : \E x \in Live : item[x].key = k
    BY Store
  <2> QED
    BY <2>4, <2>5, <2>6
<1>6. \/ Undefined
      \/ Answer("GETALL", 0, "EMPTY") /\ item' = item /\ T.root = nil
      \/ T.root # nil /\ Answer("GETALL", 0, items) /\ item' = item
  BY Zenon DEF GetAll
<1> HIDE DEF items
<1>7. CASE Undefined
  BY <1>7, SameMap DEF Undefined, Abs!vars
<1>8. CASE Answer("GETALL", 0, "EMPTY") /\ item' = item /\ T.root = nil
  <2>1. DOMAIN StoreMap = {} /\ StoreMap' = StoreMap
    BY <1>3, <1>4, <1>8, SameMap
  <2> QED
    BY <1>8, <2>1 DEF Abs!GetAll, Abs!Answer, Abs!Present, Answer
<1>9. CASE T.root # nil /\ Answer("GETALL", 0, items) /\ item' = item
  <2>1. DOMAIN StoreMap # {} /\ StoreMap' = StoreMap
    BY <1>3, <1>4, <1>9, SameMap
  <2> QED
    BY <1>5, <1>9, <2>1 DEF Abs!GetAll, Abs!Answer, Abs!Present, Answer
<1> QED
  BY <1>6, <1>7, <1>8, <1>9

LEMMA InitImplements == Init => Abs!Init
<1> SUFFICES ASSUME Init
             PROVE  Abs!Init
  OBVIOUS
<1>1. Live = {} /\ degraded = FALSE /\ reply = [op |-> "NONE", arg |-> 0, result |-> "NONE"]
  BY DEF Init, Live
<1>2. StoreMap = [x \in {} |-> 0]
  BY <1>1 DEF StoreMap
<1> QED
  BY <1>1, <1>2 DEF Abs!Init

\* A promise once broken stays broken.
LEMMA BrokenStays ==
    ASSUME [Next]_vars, degraded
    PROVE  degraded'
<1>1. ASSUME NEW k \in Key, NEW v \in Value, NEW t \in Time, Set(k, v, t)
      PROVE  degraded'
  BY <1>1, Zenon DEF Set, Undefined
<1>2. ASSUME NEW k \in Key, NEW v \in Value, NEW t \in Time, Mod(k, v, t)
      PROVE  degraded'
  BY <1>2, Zenon DEF Mod
<1>3. ASSUME NEW k \in Key, Get(k) \/ Exist(k)
      PROVE  degraded'
  BY <1>3, Zenon DEF Get, Exist
<1>4. ASSUME NEW k \in Key, Del(k)
      PROVE  degraded'
  BY <1>4, Zenon DEF Del
<1>5. ASSUME NEW a \in Key, NEW b \in Key, RangeQuery(a, b)
      PROVE  degraded'
  BY <1>5, Zenon DEF RangeQuery, Undefined
<1>6. ASSUME GetAll
      PROVE  degraded'
  BY <1>6, Zenon DEF GetAll, Undefined
<1>7. CASE UNCHANGED vars
  BY <1>7 DEF vars
<1> QED
  BY <1>1, <1>2, <1>3, <1>4, <1>5, <1>6, <1>7 DEF Next

LEMMA NextImplements ==
    ASSUME Invariant, Invariant', Intact, [Next]_vars, \A s, t \in Time : s = t
    PROVE  [Abs!Next]_(Abs!vars)
<1>1. CASE degraded'
  BY <1>1 DEF Abs!Next
<1>2. CASE ~degraded'
  <2>1. ~degraded
    BY <1>2, BrokenStays
  <2>2. degraded' = degraded
    <3>1. degraded \in BOOLEAN /\ degraded' \in BOOLEAN
      BY DEF Invariant
    <3> QED
      BY <1>2, <2>1, <3>1, Zenon
  <2>3. ASSUME NEW k \in Key, NEW v \in Value, NEW t \in Time, Set(k, v, t)
        PROVE  Abs!Command \/ UNCHANGED Abs!vars
    <3>1. Abs!Set(k, v, t) \/ UNCHANGED Abs!vars
      BY <2>1, <2>3, SetImplements
    <3> QED
      BY <3>1, Zenon DEF Abs!Command
  <2>4. ASSUME NEW k \in Key, NEW v \in Value, NEW t \in Time, Mod(k, v, t)
        PROVE  Abs!Command
    <3>1. Abs!Mod(k, v, t)
      BY <1>2, <2>1, <2>4, ModImplements
    <3> QED
      BY <3>1, Zenon DEF Abs!Command
  <2>5. ASSUME NEW k \in Key, Get(k) \/ Del(k) \/ Exist(k)
        PROVE  Abs!Command
    <3>1. Abs!Get(k) \/ Abs!Del(k) \/ Abs!Exist(k)
      BY <2>1, <2>5, GetImplements, DelImplements, ExistImplements
    <3> QED
      BY <3>1, Zenon DEF Abs!Command
  <2>6. ASSUME NEW a \in Key, NEW b \in Key, RangeQuery(a, b)
        PROVE  Abs!Command \/ UNCHANGED Abs!vars
    <3>1. Abs!RangeQuery(a, b) \/ UNCHANGED Abs!vars
      BY <1>2, <2>6, RangeImplements
    <3> QED
      BY <3>1, Zenon DEF Abs!Command
  <2>7. ASSUME GetAll
        PROVE  Abs!Command \/ UNCHANGED Abs!vars
    <3>1. Abs!GetAll \/ UNCHANGED Abs!vars
      BY <1>2, <2>7, GetAllImplements
    <3> QED
      BY <3>1, Zenon DEF Abs!Command
  <2>8. CASE UNCHANGED vars
    <3>1. StoreMap' = StoreMap
      BY <2>8, SameMap DEF vars
    <3> QED
      BY <2>8, <3>1 DEF vars, Abs!vars
  <2>9. Abs!Command => Abs!Next
    BY <2>1, <2>2 DEF Abs!Next
  <2> QED
    BY <2>3, <2>4, <2>5, <2>6, <2>7, <2>8, <2>9 DEF Next
<1> QED
  BY <1>1, <1>2

\* Where no two timestamps differ, the answers and the contents of the tree are
\* those of a map from keys to values, through every rotation and fix-up, until
\* an allocation fails in RMOD, RRANGE or GETRBTREE (kv_store_rbtree.c).  With
\* two timestamps this is false: a node that takes over its successor's item
\* keeps its own.
THEOREM RbtreeImplementsStore ==
    ASSUME \A s, t \in Time : s = t
    PROVE  Spec => ImplementsStore
<1>1. Init => Abs!Init
  BY InitImplements
<1>2. Invariant /\ Invariant' /\ Intact /\ [Next]_vars => [Abs!Next]_(Abs!vars)
  BY NextImplements
<1>3. Invariant /\ Intact /\ [Next]_vars => Intact'
  BY StaysIntact
<1> QED
  BY <1>1, <1>2, <1>3, Always, IntactInitially, PTL DEF Spec, ImplementsStore, Abs!Spec
===============================================================================
