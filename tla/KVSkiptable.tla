------------------------------- MODULE KVSkiptable -------------------------------
(***************************************************************************)
(* The skip list engine (kv_store_skiptable.c): nodes with forward         *)
(* pointers on levels 0 .. height, a header on every level, and searches   *)
(* that go down from the highest level in use.  A node copies its key into *)
(* 256 bytes, and is compared with keys that were not copied.  Values are  *)
(* taken to be shorter than that.  malloc may return NULL in any call.     *)
(***************************************************************************)
EXTENDS Protocol

CONSTANTS
    Key, Value, Time,   \* as in KVStore
    Kept,               \* key -> what strncpy keeps of it: the key itself if short
    MaxLevel,           \* MAX_LEVEL
    MaxNodes,           \* bound: nodes alive at a time
    Nil                 \* NULL

ASSUME KeyAssumption == Key \subseteq Int
\* A copy that lost its tail sorts before the key, and, beside another copy, as
\* the key did.
ASSUME KeptAssumption ==
    /\ Kept \in [Key -> Int]
    /\ \A k \in Key : Kept[k] <= k
    /\ \A j, k \in Key : Kept[j] < k => Kept[j] <= Kept[k]
ASSUME TimeAssumption == Time \subseteq Int
ASSUME LevelAssumption == MaxLevel \in Nat \ {0}
ASSUME BoundAssumption == MaxNodes \in Nat
ASSUME NilAssumption == Nil \notin Nat

VARIABLES
    node,       \* address -> [key, value, timestamp, forward]; 0 is the header
    level,      \* table->level
    size,       \* table->size
    degraded,   \* history: TRUE once a key was cut, or RANGE or the dump
                \* found no memory
    reply       \* the last command and its answer
vars == <<node, level, size, degraded, reply>>

Header == 0
Live == DOMAIN node \ {Header}
StoredKey == {Kept[k] : k \in Key}
Item == [key : StoredKey, value : Value, timestamp : Time]

Answer(op, arg, result) == reply' = [op |-> op, arg |-> arg, result |-> result]

\* The nodes that reach level i.
OnLevel(i) == {x \in DOMAIN node : i \in DOMAIN node[x].forward}

\* Where the search for k stops on level i, started at x.
Walk(k, i) ==
    LET walk[x \in OnLevel(i)] ==
            LET y == node[x].forward[i]
            IN  IF y # Nil /\ node[y].key < k THEN walk[y] ELSE x
    IN  walk

\* update[]: the last node before k on each level, the header above level.
Update(k) ==
    LET update[i \in 0 .. MaxLevel] ==
            IF i > level THEN Header ELSE Walk(k, i)[IF i = level THEN Header ELSE update[i + 1]]
    IN  update

\* The node every search ends at: the first on level 0 that is not before k.
Current(k) == node[Update(k)[0]].forward[0]
Found(k) == Current(k) # Nil /\ node[Current(k)].key = k

\* The addresses on level i that are in S, in list order.
Listed(i, S) ==
    LET from[x \in OnLevel(i) \cup {Nil}] ==
            IF x = Nil THEN <<>>
            ELSE (IF x \in S THEN <<x>> ELSE <<>>) \o from[node[x].forward[i]]
    IN  from[node[Header].forward[i]]

Chain(i) == Listed(i, Live)
Addresses(i) == {Chain(i)[n] : n \in DOMAIN Chain(i)}

-------------------------------------------------------------------------------
\* kvs_skiptable_create
Init ==
    /\ node = [x \in {Header} |->
                  [key |-> Nil, value |-> Nil, timestamp |-> Nil,
                   forward |-> [i \in 0 .. MaxLevel |-> Nil]]]
    /\ level = 0
    /\ size = 0
    /\ degraded = FALSE
    /\ reply = [op |-> "NONE", arg |-> 0, result |-> "NONE"]

\* random_level
RandomLevel == 1 .. MaxLevel

Fresh == (1 .. MaxNodes) \ DOMAIN node

\* Mutant: the node is not linked in on its top level.
LinkedBelowTop(new, item, update, top) ==
    [x \in DOMAIN node \cup {new} |->
        IF x = new
        THEN [key |-> item.key, value |-> item.value, timestamp |-> item.timestamp,
              forward |-> [i \in 0 .. top |-> node[update[i]].forward[i]]]
        ELSE [node[x] EXCEPT !.forward =
                 [i \in DOMAIN @ |-> IF i < top /\ update[i] = x THEN new ELSE @[i]]]]

\* The list with a new node linked in behind update[] on levels 0 .. top.
Linked(new, item, update, top) ==
    [x \in DOMAIN node \cup {new} |->
        IF x = new
        THEN [key |-> item.key, value |-> item.value, timestamp |-> item.timestamp,
              forward |-> [i \in 0 .. top |-> node[update[i]].forward[i]]]
        ELSE [node[x] EXCEPT !.forward =
                 [i \in DOMAIN @ |-> IF i <= top /\ update[i] = x THEN new ELSE @[i]]]]

\* kvs_skiptable_set_with_timestamp
Set(k, v, t) ==
    \/ /\ Found(k)
       /\ Answer("SET", <<k, v, t>>, SetResponse(1))
       /\ UNCHANGED <<node, level, size, degraded>>
    \/ /\ ~Found(k)
       /\ Answer("SET", <<k, v, t>>, SetResponse(-1))     \* no memory
       /\ UNCHANGED <<node, level, size, degraded>>
    \/ /\ ~Found(k) /\ Fresh # {}
       /\ \E top \in RandomLevel :
             LET new == CHOOSE x \in Fresh : \A y \in Fresh : x <= y
                 item == [key |-> Kept[k], value |-> v, timestamp |-> t]
             IN  /\ node' = Linked(new, item, Update(k), top)
                 /\ level' = IF top > level THEN top ELSE level
       /\ size' = size + 1
       /\ degraded' = (degraded \/ Kept[k] # k)
       /\ Answer("SET", <<k, v, t>>, SetResponse(0))

\* kvs_skiptable_get
Get(k) ==
    /\ Answer("GET", k, IF Found(k) THEN node[Current(k)].value ELSE "NO EXIST")
    /\ UNCHANGED <<node, level, size, degraded>>

\* Mutant: the node's timestamp is left as it was.
ModKeepingTimestamp(k, v, t) ==
    /\ Found(k)
    /\ node' = [node EXCEPT ![Current(k)] = [@ EXCEPT !.value = v]]
    /\ Answer("MOD", <<k, v, t>>, ModResponse(0))
    /\ UNCHANGED <<level, size, degraded>>

\* kvs_skiptable_modify_with_timestamp
Mod(k, v, t) ==
    /\ \/ /\ ~Found(k)
          /\ Answer("MOD", <<k, v, t>>, ModResponse(-1))
          /\ UNCHANGED node
       \/ /\ Found(k)
          /\ node' = [node EXCEPT ![Current(k)] = [@ EXCEPT !.value = v, !.timestamp = t]]
          /\ Answer("MOD", <<k, v, t>>, ModResponse(0))
    /\ UNCHANGED <<level, size, degraded>>

\* The list without x: unlinked level by level until one that x is not on.
Unlinked(x, update) ==
    LET on(i) == \A j \in 0 .. i : node[update[j]].forward[j] = x
    IN  [y \in DOMAIN node \ {x} |->
            [node[y] EXCEPT !.forward =
                [i \in DOMAIN @ |->
                    IF i <= level /\ update[i] = y /\ on(i) THEN node[x].forward[i] ELSE @[i]]]]

\* The highest level in use: the while loop that cleans up empty levels.
Lowered(n) ==
    CHOOSE i \in 0 .. level :
        /\ i = 0 \/ n[Header].forward[i] # Nil
        /\ \A j \in i + 1 .. level : n[Header].forward[j] = Nil

\* Mutant: the node is unlinked from level 0 only, and freed.
DelBottomOnly(k) ==
    /\ Found(k)
    /\ node' = [y \in DOMAIN node \ {Current(k)} |->
                   IF y = Update(k)[0]
                   THEN [node[y] EXCEPT !.forward[0] = node[Current(k)].forward[0]]
                   ELSE node[y]]
    /\ level' = Lowered(node')
    /\ size' = size - 1
    /\ Answer("DEL", k, DelResponse(0))
    /\ UNCHANGED degraded

\* Mutant: one level is given up at most.
DelLoweringOnce(k) ==
    /\ Found(k)
    /\ node' = Unlinked(Current(k), Update(k))
    /\ level' = IF level > 0 /\ node'[Header].forward[level] = Nil THEN level - 1 ELSE level
    /\ size' = size - 1
    /\ Answer("DEL", k, DelResponse(0))
    /\ UNCHANGED degraded

\* kvs_skiptable_delete
Del(k) ==
    /\ UNCHANGED degraded
    /\ \/ /\ ~Found(k)
          /\ Answer("DEL", k, DelResponse(-1))
          /\ UNCHANGED <<node, level, size>>
       \/ /\ Found(k)
          /\ node' = Unlinked(Current(k), Update(k))
          /\ level' = Lowered(node')
          /\ size' = size - 1
          /\ Answer("DEL", k, DelResponse(0))

\* kvs_skiptable_exist
Exist(k) ==
    /\ Answer("EXIST", k, ExistResponse(IF Found(k) THEN 0 ELSE -1))
    /\ UNCHANGED <<node, level, size, degraded>>

\* kvs_skiptable_range walks level 0 and fills a buffer of size items, which is
\* large enough as long as size is exact (TypeOK).
RangeQuery(a, b) ==
    LET found == Listed(0, {x \in Live : a <= node[x].key /\ node[x].key <= b})
        Reply(result) == Answer("RANGE", <<a, b>>, result) /\ UNCHANGED <<node, level, size>>
    IN  \/ a > b /\ Reply(RangeResponse(-2)) /\ UNCHANGED degraded
        \/ a <= b /\ Reply(RangeResponse(-3)) /\ degraded' = TRUE     \* no memory
        \/ a <= b /\ found = <<>> /\ Reply(RangeResponse(1)) /\ UNCHANGED degraded
        \/ /\ a <= b /\ found # <<>>
           /\ Reply([n \in DOMAIN found |-> <<node[found[n]].key, node[found[n]].value>>])
           /\ UNCHANGED degraded

\* kvs_skiptable_get_all, likewise.  A failure is reported as an empty table.
GetAll ==
    LET Reply(result) == Answer("GETALL", 0, result) /\ UNCHANGED <<node, level, size>>
    IN  \/ Reply("EMPTY") /\ degraded' = (degraded \/ size > 0)
        \/ /\ size > 0
           /\ Reply({<<node[x].key, node[x].value, node[x].timestamp>> : x \in Addresses(0)})
           /\ UNCHANGED degraded

Next ==
    \/ \E k \in Key, v \in Value, t \in Time : Set(k, v, t) \/ Mod(k, v, t)
    \/ \E k \in Key : Get(k) \/ Del(k) \/ Exist(k)
    \/ \E a, b \in Key : RangeQuery(a, b)
    \/ GetAll

Spec == Init /\ [][Next]_vars

-------------------------------------------------------------------------------
\* The type invariant.  No pointer leads to a node that was freed or that does
\* not reach the pointer's level, and size is the number of nodes: RANGE and the
\* dump size their buffers with it.
TypeOK ==
    /\ Header \in DOMAIN node /\ DOMAIN node \subseteq Nat
    /\ level \in 0 .. MaxLevel
    /\ size = Cardinality(Live)
    /\ degraded \in BOOLEAN
    /\ \A x \in Live : node[x].key \in StoredKey /\ node[x].value \in Value
    /\ \A x \in DOMAIN node : \A i \in DOMAIN node[x].forward :
          \/ node[x].forward[i] = Nil
          \/ /\ node[x].forward[i] \in Live
             /\ i \in DOMAIN node[node[x].forward[i]].forward

\* The list on level i is exactly the nodes that reach level i, in key order:
\* a search that goes down loses no node (kv_store_skiptable.c:212, 317-323).
LanesNest ==
    \A i \in 0 .. MaxLevel :
        /\ Addresses(i) = {x \in Live : i \in DOMAIN node[x].forward}
        /\ \A n \in 1 .. Len(Chain(i)) - 1 :
              node[Chain(i)[n]].key <= node[Chain(i)[n + 1]].key

\* level is the highest level in use.  SET links new levels to the header from
\* level + 1 on and takes for granted that nothing is there (line 204).
LevelIsTight ==
    /\ level > 0 => node[Header].forward[level] # Nil
    /\ \A i \in level + 1 .. MaxLevel : node[Header].forward[i] = Nil

StoreMap ==
    [k \in {node[x].key : x \in Live} |->
        LET x == CHOOSE x \in Live : node[x].key = k
        IN  [value |-> node[x].value, timestamp |-> node[x].timestamp]]

Abs == INSTANCE KVStore WITH store <- StoreMap, Phantom <- FALSE, broken <- degraded

\* Until a key does not fit in 255 bytes, or an allocation fails, the skip list
\* implements the store, whatever levels the coin gives.
ImplementsStore == Abs!Spec
===============================================================================
