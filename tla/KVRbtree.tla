-------------------------------- MODULE KVRbtree --------------------------------
(***************************************************************************)
(* The red-black tree engine (kv_store_rbtree.c), pointer by pointer: the  *)
(* nodes with their colours, children and parents, the rotations, the two  *)
(* fix-up loops, and the traversals by successor.  A mirrored pair of code *)
(* paths (left/right) is one definition with a side.  malloc may return    *)
(* NULL in any call.                                                       *)
(***************************************************************************)
EXTENDS Protocol

CONSTANTS
    Key, Value, Time,   \* as in KVStore
    MaxNodes,           \* bound: nodes alive at a time
    Null                \* the NULL pointer of a value

ASSUME KeyAssumption == Key \subseteq Int
ASSUME TimeAssumption == Time \subseteq Int
ASSUME BoundAssumption == MaxNodes \in Nat
ASSUME NullAssumption == Null \notin Value

VARIABLES
    T,          \* the tree: [root, child, parent, color]
    item,       \* address -> [key, value, timestamp], for the nodes in use
    up,         \* FALSE once NULL was dereferenced
    degraded,   \* history: TRUE once a MOD, RANGE or GETRBTREE found no memory
    reply       \* the last command and its answer
vars == <<T, item, up, degraded, reply>>

nil == 0
Address == 1 .. MaxNodes
Live == DOMAIN item
Side == {"left", "right"}
Other(s) == IF s = "left" THEN "right" ELSE "left"

Answer(op, arg, result) == reply' = [op |-> op, arg |-> arg, result |-> result]
Undefined == up' = FALSE /\ UNCHANGED <<T, item, degraded, reply>>

Colored(t, x, c) == [t EXCEPT !.color[x] = c]

\* y takes the place of x below x's parent.
Replaced(t, x, y) ==
    LET p == t.parent[x]
    IN  IF p = nil THEN [t EXCEPT !.root = y]
        ELSE [t EXCEPT !.child[IF t.child["left"][p] = x THEN "left" ELSE "right"][p] = y]

-------------------------------------------------------------------------------
\* Mutant: the subtree that changes sides keeps its old parent.
RotatedForgettingParent(t, x, s) ==
    LET y == t.child[Other(s)][x]
        inner == t.child[s][y]
    IN  [Replaced(t, x, y) EXCEPT
            !.child[Other(s)][x] = inner,
            !.child[s][y] = x,
            !.parent[y] = t.parent[x],
            !.parent[x] = y]

\* x goes below y, to side s, and inner from y to x; top is x's old parent.
Swung(t, x, y, inner, top, s) ==
    LET freed == IF inner = nil THEN t.parent ELSE [t.parent EXCEPT ![inner] = x]
    IN  [t EXCEPT
            !.child[Other(s)][x] = inner,
            !.child[s][y] = x,
            !.parent = [freed EXCEPT ![y] = top, ![x] = y]]

\* rbtree_left_rotate (s = "left") and rbtree_right_rotate: x goes down on side
\* s, its other child comes up.
Rotated(t, x, s) ==
    LET y == t.child[Other(s)][x]
    IN  Swung(Replaced(t, x, y), x, y, t.child[s][y], t.parent[x], s)

\* What a round of rbtree_insert_fixup makes of the tree and of z.
InsertRound(t, z) ==
    LET p == t.parent[z]
        g == t.parent[p]
        s == IF p = t.child["left"][g] THEN "left" ELSE "right"
        uncle == t.child[Other(s)][g]
        inner == z = t.child[Other(s)][p]
        straight == IF inner THEN Rotated(t, p, s) ELSE t
        top == IF inner THEN z ELSE p
    IN  IF t.color[uncle] = "red"
        THEN [tree |-> Colored(Colored(Colored(t, p, "black"), uncle, "black"), g, "red"),
              at |-> g]
        ELSE [tree |-> Rotated(Colored(Colored(straight, top, "black"), g, "red"), g, Other(s)),
              at |-> IF inner THEN p ELSE z]

\* rbtree_insert_fixup.  A round climbs or is the last one, so there are no more
\* than MaxNodes of them.
InsertFixup(t, z) ==
    LET after[n \in 0 .. MaxNodes] ==
            IF n = 0 THEN [tree |-> t, at |-> z]
            ELSE LET l == after[n - 1]
                 IN  IF l.tree.color[l.tree.parent[l.at]] = "red"
                     THEN InsertRound(l.tree, l.at) ELSE l
        end == after[MaxNodes].tree
    IN  Colored(end, end.root, "black")

\* Where a search for k goes on from x.
Toward(k, x) == IF k < item[x].key THEN "left" ELSE "right"

\* rbtree_search: the node with key k, or nil.
Search(k) ==
    LET down[x \in Live \cup {nil}] ==
            IF x = nil THEN nil
            ELSE IF k = item[x].key THEN x
            ELSE down[T.child[Toward(k, x)][x]]
    IN  down[T.root]

\* The node at which the walk of rbtree_insert for a new key falls off the tree.
Edge(k) ==
    LET last[x \in Live] ==
            LET c == T.child[Toward(k, x)][x] IN IF c = nil THEN x ELSE last[c]
    IN  IF T.root = nil THEN nil ELSE last[T.root]

\* What linking a new node in below y makes of the tree.
Linked(t, new, y, s) ==
    LET hung == IF y = nil THEN [t EXCEPT !.root = new] ELSE [t EXCEPT !.child[s][y] = new]
    IN  [hung EXCEPT !.parent[new] = y, !.color[new] = "red",
                     !.child["left"][new] = nil, !.child["right"][new] = nil]

\* rbtree_insert of an address that is not in the tree.
Inserted(new, k) ==
    LET y == Edge(k)
    IN  InsertFixup(Linked(T, new, y, IF y = nil THEN "left" ELSE Toward(k, y)), new)

\* Mutant: case 4 leaves the sibling's outer child as it is.
DeleteRoundLosingBlack(t, x) ==
    LET p == t.parent[x]
        s == IF x = t.child["left"][p] THEN "left" ELSE "right"
        o == Other(s)
        w0 == t.child[o][p]
        t1 == IF t.color[w0] = "red"
              THEN Rotated(Colored(Colored(t, w0, "black"), p, "red"), p, s) ELSE t
        w1 == t1.child[o][p]
        t2 == IF t1.color[t1.child[o][w1]] = "black"
              THEN Rotated(Colored(Colored(t1, t1.child[s][w1], "black"), w1, "red"), w1, o)
              ELSE t1
        w2 == t2.child[o][p]
        t3 == Colored(Colored(t2, w2, t2.color[p]), p, "black")
        t4 == Rotated(t3, p, s)
    IN  IF \A c \in Side : t1.color[t1.child[c][w1]] = "black"
        THEN [tree |-> Colored(t1, w1, "red"), at |-> p]
        ELSE [tree |-> t4, at |-> t4.root]

\* What a round of rbtree_delete_fixup makes of the tree and of x: w is x's
\* sibling, p their parent.
DeleteRound(t, x) ==
    LET p == t.parent[x]
        s == IF x = t.child["left"][p] THEN "left" ELSE "right"
        o == Other(s)
        w0 == t.child[o][p]
        t1 == IF t.color[w0] = "red"
              THEN Rotated(Colored(Colored(t, w0, "black"), p, "red"), p, s) ELSE t
        w1 == t1.child[o][p]
        t2 == IF t1.color[t1.child[o][w1]] = "black"
              THEN Rotated(Colored(Colored(t1, t1.child[s][w1], "black"), w1, "red"), w1, o)
              ELSE t1
        w2 == t2.child[o][p]
        t3 == Colored(Colored(Colored(t2, w2, t2.color[p]), p, "black"),
                      t2.child[o][w2], "black")
        t4 == Rotated(t3, p, s)
    IN  IF \A c \in Side : t1.color[t1.child[c][w1]] = "black"
        THEN [tree |-> Colored(t1, w1, "red"), at |-> p]
        ELSE [tree |-> t4, at |-> t4.root]

\* rbtree_delete_fixup, whose rounds climb likewise.
DeleteFixup(t, x) ==
    LET after[n \in 0 .. MaxNodes] ==
            IF n = 0 THEN [tree |-> t, at |-> x]
            ELSE LET l == after[n - 1]
                 IN  IF l.at # l.tree.root /\ l.tree.color[l.at] = "black"
                     THEN DeleteRound(l.tree, l.at) ELSE l
        end == after[MaxNodes]
    IN  Colored(end.tree, end.at, "black")

\* rbtree_mini
Mini(x) ==
    LET mini[y \in Live] == IF T.child["left"][y] = nil THEN y ELSE mini[T.child["left"][y]]
    IN  mini[x]

\* rbtree_successor
Successor(x) ==
    LET climb[y \in Live] ==
            LET p == T.parent[y]
            IN  IF p # nil /\ y = T.child["right"][p] THEN climb[p] ELSE p
    IN  IF T.child["right"][x] # nil THEN Mini(T.child["right"][x]) ELSE climb[x]

\* The node rbtree_delete takes out of the tree when asked for z.
Removed(z) ==
    IF \E s \in Side : T.child[s][z] = nil THEN z ELSE Successor(z)

\* rbtree_delete, the tree.  nil->parent is scratch: it is written before each
\* use, and forgotten here.
Deleted(z) ==
    LET y == Removed(z)
        x == IF T.child["left"][y] # nil THEN T.child["left"][y] ELSE T.child["right"][y]
        spliced == [Replaced(T, y, x) EXCEPT !.parent[x] = T.parent[y]]
        fixed == IF T.color[y] = "black" THEN DeleteFixup(spliced, x) ELSE spliced
    IN  [fixed EXCEPT !.parent[nil] = nil, !.parent[y] = nil, !.color[y] = "black",
                      !.child["left"][y] = nil, !.child["right"][y] = nil]

\* Mutant: the node asked for is freed instead of the one taken out.
DeletedItemsOfTheOther(z) == [x \in Live \ {z} |-> item[x]]

\* Mutant: the key moves without its value.
DeletedItemsMixed(z) ==
    [x \in Live \ {Removed(z)} |->
        IF x = z THEN [item[z] EXCEPT !.key = item[Removed(z)].key] ELSE item[x]]

\* rbtree_delete, the items: when another node is taken out in z's place, z
\* gets its key and value; its timestamp is lost with it, and z keeps its own.
DeletedItems(z) ==
    LET y == Removed(z)
    IN  [x \in Live \ {y} |->
            IF x = z THEN [item[z] EXCEPT !.key = item[y].key, !.value = item[y].value]
            ELSE item[x]]

\* The nodes from x on, by successor, as long as they are in S.
From(x, S) ==
    LET from[y \in Live \cup {nil}] ==
            IF y \notin S THEN <<>> ELSE <<y>> \o from[Successor(y)]
    IN  from[x]

InOrder == IF T.root = nil THEN <<>> ELSE From(Mini(T.root), Live)

-------------------------------------------------------------------------------
\* kvs_rbtree_create
Init ==
    /\ LET none == [x \in Address \cup {nil} |-> nil]
       IN  T = [root |-> nil, child |-> [s \in Side |-> none], parent |-> none,
                color |-> [x \in Address \cup {nil} |-> "black"]]
    /\ item = [x \in {} |-> 0]
    /\ up = TRUE /\ degraded = FALSE
    /\ reply = [op |-> "NONE", arg |-> 0, result |-> "NONE"]

\* kvs_rbtree_get
GetIsNull(k) == Search(k) # nil => item[Search(k)].value = Null

\* kvs_rbtree_set_with_timestamp.  The node itself is not checked for NULL.
\* rbtree_insert gives up when the key is there, as it is after a failed MOD.
Set(k, v, t) ==
    \/ /\ ~GetIsNull(k)
       /\ Answer("SET", <<k, v, t>>, SetResponse(1))
       /\ UNCHANGED <<T, item, up, degraded>>
    \/ GetIsNull(k) /\ Undefined
    \/ /\ GetIsNull(k)
       /\ Answer("SET", <<k, v, t>>, SetResponse(-2))     \* no memory
       /\ UNCHANGED <<T, item, up, degraded>>
    \/ /\ GetIsNull(k) /\ Search(k) # nil
       /\ Answer("SET", <<k, v, t>>, SetResponse(0))
       /\ UNCHANGED <<T, item, up, degraded>>
    \/ /\ Search(k) = nil /\ Address \ Live # {}
       /\ LET new == CHOOSE x \in Address \ Live : \A y \in Address \ Live : x <= y
          IN  /\ T' = Inserted(new, k)
              /\ item' = [x \in Live \cup {new} |->
                             IF x = new THEN [key |-> k, value |-> v, timestamp |-> t]
                             ELSE item[x]]
       /\ Answer("SET", <<k, v, t>>, SetResponse(0))
       /\ UNCHANGED <<up, degraded>>

\* kvs_rbtree_get, as the command layer answers with it.
Get(k) ==
    /\ Answer("GET", k, IF GetIsNull(k) THEN "NO EXIST" ELSE item[Search(k)].value)
    /\ UNCHANGED <<T, item, up, degraded>>

\* kvs_rbtree_delete
Del(k) ==
    /\ UNCHANGED <<up, degraded>>
    /\ \/ /\ Search(k) = nil
          /\ Answer("DEL", k, DelResponse(-2))
          /\ UNCHANGED <<T, item>>
       \/ /\ Search(k) # nil
          /\ T' = Deleted(Search(k))
          /\ item' = DeletedItems(Search(k))
          /\ Answer("DEL", k, DelResponse(0))

\* kvs_rbtree_modify_with_timestamp.  The old value is freed first.
Mod(k, v, t) ==
    /\ UNCHANGED <<T, up>>
    /\ \/ /\ Search(k) = nil
          /\ Answer("MOD", <<k, v, t>>, ModResponse(-2))
          /\ UNCHANGED <<item, degraded>>
       \/ /\ Search(k) # nil
          /\ item' = [item EXCEPT ![Search(k)] = [@ EXCEPT !.value = Null]]
          /\ Answer("MOD", <<k, v, t>>, ModResponse(-3))     \* no memory
          /\ degraded' = TRUE
       \/ /\ Search(k) # nil
          /\ item' = [item EXCEPT ![Search(k)] = [key |-> k, value |-> v, timestamp |-> t]]
          /\ Answer("MOD", <<k, v, t>>, ModResponse(0))
          /\ UNCHANGED degraded

\* kvs_rbtree_exist
Exist(k) ==
    /\ Answer("EXIST", k, ExistResponse(IF Search(k) = nil THEN -2 ELSE 0))
    /\ UNCHANGED <<T, item, up, degraded>>

\* The first node kvs_rbtree_range counts: the last at which it went left.
LowerBound(a) ==
    LET lower[x \in Live \cup {nil}] ==
            IF x = nil THEN nil
            ELSE IF item[x].key < a THEN lower[T.child["right"][x]]
            ELSE LET better == lower[T.child["left"][x]] IN IF better = nil THEN x ELSE better
    IN  lower[T.root]

\* kvs_rbtree_range; strlen(NULL) is where a failed MOD shows.
RangeQuery(a, b) ==
    LET matched == From(LowerBound(a), {x \in Live : item[x].key <= b})
        Reply(result) == Answer("RANGE", <<a, b>>, result) /\ UNCHANGED <<T, item, up>>
    IN  \/ a > b /\ Reply(RangeResponse(-2)) /\ UNCHANGED degraded
        \/ a <= b /\ matched = <<>> /\ Reply(RangeResponse(1)) /\ UNCHANGED degraded
        \/ a <= b /\ matched # <<>> /\ Reply(RangeResponse(-1)) /\ degraded' = TRUE
        \/ /\ a <= b /\ \E n \in DOMAIN matched : item[matched[n]].value = Null
           /\ Undefined
        \/ /\ a <= b /\ matched # <<>>
           /\ \A n \in DOMAIN matched : item[matched[n]].value # Null
           /\ Reply([n \in DOMAIN matched |-> <<item[matched[n]].key, item[matched[n]].value>>])
           /\ UNCHANGED degraded

\* kvs_rbtree_get_all.  A failure is reported as an empty tree.
GetAll ==
    LET Reply(result) == Answer("GETALL", 0, result) /\ UNCHANGED <<T, item, up>>
    IN  \/ Reply("EMPTY") /\ degraded' = (degraded \/ T.root # nil)
        \/ /\ \E x \in Live : item[x].value = Null
           /\ Undefined
        \/ /\ T.root # nil /\ \A x \in Live : item[x].value # Null
           /\ Reply({<<item[InOrder[n]].key, item[InOrder[n]].value, item[InOrder[n]].timestamp>> :
                       n \in DOMAIN InOrder})
           /\ UNCHANGED degraded

Next ==
    /\ up
    /\ \/ \E k \in Key, v \in Value, t \in Time : Set(k, v, t) \/ Mod(k, v, t)
       \/ \E k \in Key : Get(k) \/ Del(k) \/ Exist(k)
       \/ \E a, b \in Key : RangeQuery(a, b)
       \/ GetAll

Spec == Init /\ [][Next]_vars

-------------------------------------------------------------------------------
\* The type invariant.
TypeOK ==
    /\ Live \subseteq Address
    /\ \A x \in Live : /\ item[x].key \in Key
                       /\ item[x].value \in Value \cup {Null}
                       /\ item[x].timestamp \in Time
    /\ T.root \in Live \cup {nil}
    /\ \A x \in Address \cup {nil} :
          /\ T.color[x] \in {"red", "black"} /\ T.parent[x] \in Live \cup {nil}
          /\ \A s \in Side : T.child[s][x] \in Live \cup {nil}
    /\ T.color[nil] = "black"
    /\ {up, degraded} \subseteq BOOLEAN

\* Children and parents agree, so that the successor walk of RANGE and the dump
\* climbs the way the search came down, and reaches every node once, in order.
LinksAgree ==
    /\ T.root # nil => T.parent[T.root] = nil
    /\ \A x \in Live, s \in Side :
          T.child[s][x] # nil => T.parent[T.child[s][x]] = x
    /\ {InOrder[n] : n \in DOMAIN InOrder} = Live
    /\ \A m, n \in DOMAIN InOrder : m < n => item[InOrder[m]].key < item[InOrder[n]].key

\* The black nodes on the path from x up to the root.
Blacks(x) ==
    LET blacks[y \in Live \cup {nil}] ==
            IF y = nil THEN 0 ELSE blacks[T.parent[y]] + (IF T.color[y] = "black" THEN 1 ELSE 0)
    IN  blacks[x]

\* The red-black rules, which keep the tree balanced through every fix-up: the
\* root is black, no red node has a red child, and every path down to nil
\* passes the same number of black nodes.
RedBlack ==
    /\ T.color[T.root] = "black"
    /\ \A x \in Live : T.color[x] = "red" => T.color[T.parent[x]] = "black"
    /\ LET ends == {x \in Live : \E s \in Side : T.child[s][x] = nil}
       IN  \A x, y \in ends : Blacks(x) = Blacks(y)

StoreMap ==
    [k \in {item[x].key : x \in Live} |->
        LET x == CHOOSE x \in Live : item[x].key = k
        IN  [value |-> item[x].value, timestamp |-> item[x].timestamp]]

Abs == INSTANCE KVStore WITH store <- StoreMap, Phantom <- FALSE, broken <- degraded

\* Timestamps aside, and until an allocation fails, the tree implements the
\* store.
ImplementsStore == Abs!Spec

\* A DEL leaves every other item as it was: the value and the timestamp, by
\* which a later SYNC decides whether the remote item is newer.
DelTouchesNoOther ==
    [][\A k \in DOMAIN StoreMap :
          reply'.op = "DEL" /\ reply'.arg # k =>
              k \in DOMAIN StoreMap' /\ StoreMap'[k] = StoreMap[k]]_vars
===============================================================================
