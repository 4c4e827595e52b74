--------------------------------- MODULE KVHash ---------------------------------
(***************************************************************************)
(* The hash engine (kv_store_hash.c): a table of chains.  A chain is the   *)
(* sequence of the nodes linked from its slot; SET links a new node at the *)
(* head.  count is kept by SET and DEL, and it is what RANGE and the dump  *)
(* size their buffers with.  malloc may return NULL in any call.           *)
(***************************************************************************)
EXTENDS Protocol, SequencesExt

CONSTANTS
    Key, Value, Time,   \* as in KVStore
    MaxSlots,           \* MAX_TABLE_SIZE
    Hash,               \* _hash: slot of each key
    Freed               \* a value pointer whose memory was given back

ASSUME KeyAssumption == Key \subseteq Int
ASSUME TimeAssumption == Time \subseteq Int
ASSUME SlotAssumption == MaxSlots \in Nat \ {0}
\* Keys are ASCII: a byte above 127 is a negative char, and so may be the slot.
ASSUME HashAssumption == Hash \in [Key -> 0 .. MaxSlots - 1]
ASSUME FreedAssumption == Freed \notin Value

VARIABLES
    table,      \* slot -> chain of [key, value, timestamp]
    count,      \* hash->count
    up,         \* FALSE once freed memory was used
    degraded,   \* history: TRUE once a MOD, RANGE or GETHASH found no memory
    reply       \* the last command and its answer
vars == <<table, count, up, degraded, reply>>

Node == [key : Key, value : Value \cup {Freed}, timestamp : Time]

Slots == 0 .. MaxSlots - 1

\* The node the search loops of set, get, modify and get_timestamp stop at.
Found(k, i) ==
    LET chain == table[Hash[k]]
    IN  /\ i \in DOMAIN chain
        /\ chain[i].key = k
        /\ \A j \in 1 .. i - 1 : chain[j].key # k

Missing(k) == \A i \in DOMAIN table[Hash[k]] : table[Hash[k]][i].key # k

Nodes == UNION {{<<s, i>> : i \in DOMAIN table[s]} : s \in Slots}

NodeAt(n) == table[n[1]][n[2]]

Answer(op, arg, result) == reply' = [op |-> op, arg |-> arg, result |-> result]

\* Undefined behaviour: nothing is said of the process from here on.
Undefined == up' = FALSE /\ UNCHANGED <<table, count, degraded, reply>>

-------------------------------------------------------------------------------
\* kvs_hash_create
Init ==
    /\ table = [s \in Slots |-> <<>>]
    /\ count = 0
    /\ up = TRUE /\ degraded = FALSE
    /\ reply = [op |-> "NONE", arg |-> 0, result |-> "NONE"]

\* _create_node_with_timestamp
NewNode(k, v, t) == [key |-> k, value |-> v, timestamp |-> t]

\* Mutant: only the head of the chain is compared with the key.
SetComparingHead(k, v, t) ==
    /\ UNCHANGED <<up, degraded>>
    /\ IF table[Hash[k]] # <<>> /\ table[Hash[k]][1].key = k
       THEN Answer("SET", <<k, v, t>>, SetResponse(1)) /\ UNCHANGED <<table, count>>
       ELSE /\ table' = [table EXCEPT ![Hash[k]] = <<NewNode(k, v, t)>> \o @]
            /\ count' = count + 1
            /\ Answer("SET", <<k, v, t>>, SetResponse(0))

\* kvs_hash_set_with_timestamp
Set(k, v, t) ==
    /\ UNCHANGED <<up, degraded>>
    /\ \/ /\ ~Missing(k)
          /\ Answer("SET", <<k, v, t>>, SetResponse(1))
          /\ UNCHANGED <<table, count>>
       \/ /\ Missing(k)
          /\ Answer("SET", <<k, v, t>>, SetResponse(-3))     \* no memory
          /\ UNCHANGED <<table, count>>
       \/ /\ Missing(k)
          /\ table' = [table EXCEPT ![Hash[k]] = <<NewNode(k, v, t)>> \o @]
          /\ count' = count + 1
          /\ Answer("SET", <<k, v, t>>, SetResponse(0))

\* kvs_hash_get
Get(k) ==
    \/ /\ Missing(k)
       /\ Answer("GET", k, "NO EXIST")
       /\ UNCHANGED <<table, count, up, degraded>>
    \/ \E i \in DOMAIN table[Hash[k]] :
          /\ Found(k, i)
          /\ LET value == table[Hash[k]][i].value
             IN  IF value = Freed THEN Undefined
                 ELSE Answer("GET", k, value) /\ UNCHANGED <<table, count, up, degraded>>

\* Mutant: the inner branch forgets count--.
DelForgettingCount(k) ==
    /\ UNCHANGED <<up, degraded>>
    /\ \E i \in DOMAIN table[Hash[k]] :
          /\ Found(k, i)
          /\ table' = [table EXCEPT ![Hash[k]] = RemoveAt(@, i)]
          /\ count' = IF i = 1 THEN count - 1 ELSE count
          /\ Answer("DEL", k, DelResponse(0))

\* Mutant: the inner branch unlinks the rest of the chain with the node.
DelCuttingChain(k) ==
    /\ UNCHANGED <<up, degraded>>
    /\ \E i \in DOMAIN table[Hash[k]] :
          /\ Found(k, i)
          /\ table' = [table EXCEPT ![Hash[k]] =
                          IF i = 1 THEN Tail(@) ELSE SubSeq(@, 1, i - 1)]
          /\ count' = count - 1
          /\ Answer("DEL", k, DelResponse(0))

\* Mutant: count-- runs whether or not the search loop found the key.
DelAlwaysCounting(k) ==
    /\ UNCHANGED <<up, degraded>>
    /\ count' = count - 1
    /\ table' = [table EXCEPT ![Hash[k]] = SelectSeq(@, LAMBDA n : n.key # k)]
    /\ Answer("DEL", k, DelResponse(0))

\* kvs_hash_delete.  A key that is missing from a chain with other nodes falls
\* out of the search loop into "return 0".
Del(k) ==
    \/ /\ Missing(k)
       /\ Answer("DEL", k, DelResponse(IF table[Hash[k]] = <<>> THEN -2 ELSE 0))
       /\ UNCHANGED <<table, count, up, degraded>>
    \/ \E i \in DOMAIN table[Hash[k]] :
          /\ Found(k, i)
          /\ IF table[Hash[k]][i].value = Freed      \* freed a second time
             THEN Undefined
             ELSE /\ table' = [table EXCEPT ![Hash[k]] = RemoveAt(@, i)]
                  /\ count' = count - 1
                  /\ Answer("DEL", k, DelResponse(0))
                  /\ UNCHANGED <<up, degraded>>

\* kvs_hash_modify_with_timestamp.  The old value is freed first; when there
\* is no memory for the new one, the node keeps the freed pointer.
Mod(k, v, t) ==
    \/ /\ Missing(k)
       /\ Answer("MOD", <<k, v, t>>, ModResponse(-2))
       /\ UNCHANGED <<table, count, up, degraded>>
    \/ \E i \in DOMAIN table[Hash[k]] :
          /\ Found(k, i)
          /\ LET node == table[Hash[k]][i]
             IN  IF node.value = Freed
                 THEN Undefined
                 ELSE /\ \/ /\ table' = [table EXCEPT ![Hash[k]][i] = NewNode(k, v, t)]
                            /\ Answer("MOD", <<k, v, t>>, ModResponse(0))
                            /\ UNCHANGED degraded
                         \/ /\ table' = [table EXCEPT ![Hash[k]][i] =
                                            NewNode(k, Freed, node.timestamp)]
                            /\ Answer("MOD", <<k, v, t>>, ModResponse(-3))
                            /\ degraded' = TRUE
                      /\ UNCHANGED <<count, up>>

\* kvs_hash_exist tests the pointer only: a freed value still "exists".
Exist(k) ==
    /\ Answer("EXIST", k, ExistResponse(IF Missing(k) THEN -1 ELSE 0))
    /\ UNCHANGED <<table, count, up, degraded>>

InRange(a, b) == {n \in Nodes : a <= NodeAt(n).key /\ NodeAt(n).key <= b}

\* kvs_hash_range collects node pointers into a buffer of count entries.  When
\* an item cannot be copied, the clean-up frees the entries never filled in;
\* a freed value in the range is read.
RangeQuery(a, b) ==
    LET matched == InRange(a, b)
        items == {<<NodeAt(n).key, NodeAt(n).value>> : n \in matched}
        Reply(result) == Answer("RANGE", <<a, b>>, result) /\ UNCHANGED <<table, count, up>>
    IN  \/ a > b /\ Reply(RangeResponse(-2)) /\ UNCHANGED degraded
        \/ a <= b /\ count > 0 /\ Reply(RangeResponse(-3)) /\ degraded' = TRUE
        \/ a <= b /\ matched = {} /\ Reply(RangeResponse(1)) /\ UNCHANGED degraded
        \/ a <= b /\ matched # {} /\ Undefined
        \/ /\ a <= b /\ matched # {} /\ Freed \notin {i[2] : i \in items}
           /\ Reply(SortByKey(items)) /\ UNCHANGED degraded

\* kvs_hash_get_all copies every node into a buffer of count items, which is
\* large enough as long as CountIsExact holds.
GetAll ==
    LET Reply(result) == Answer("GETALL", 0, result) /\ UNCHANGED <<table, count, up>>
    IN  \/ Reply("EMPTY") /\ degraded' = (degraded \/ count > 0)
        \/ /\ \E n \in Nodes : NodeAt(n).value = Freed
           /\ Undefined
        \/ /\ count > 0 /\ \A n \in Nodes : NodeAt(n).value # Freed
           /\ Reply({<<NodeAt(n).key, NodeAt(n).value, NodeAt(n).timestamp>> : n \in Nodes})
           /\ UNCHANGED degraded

Next ==
    /\ up
    /\ \/ \E k \in Key, v \in Value, t \in Time : Set(k, v, t) \/ Mod(k, v, t)
       \/ \E k \in Key : Get(k) \/ Del(k) \/ Exist(k)
       \/ \E a, b \in Key : RangeQuery(a, b)
       \/ GetAll

Spec == Init /\ [][Next]_vars

-------------------------------------------------------------------------------
\* The type invariant; count goes below zero when more nodes are counted out
\* than were counted in.
TypeOK ==
    /\ table \in [Slots -> Seq(Node)]
    /\ count \in Nat
    /\ {up, degraded} \subseteq BOOLEAN

\* count is the number of linked nodes (kv_store_hash.c:170, 312, 328): RANGE
\* and the dump size their buffers with it and fill them from the chains, so
\* one missed count-- or one lost node is a heap overrun or a short dump.
CountIsExact == count = Cardinality(Nodes)

\* A key is linked at most once, and in the chain its hash names: a node
\* anywhere else is never found again.
ChainsAreSound ==
    /\ \A m, n \in Nodes : NodeAt(m).key = NodeAt(n).key => m = n
    /\ \A n \in Nodes : Hash[NodeAt(n).key] = n[1]

StoreMap ==
    [k \in {NodeAt(n).key : n \in Nodes} |->
        LET n == CHOOSE n \in Nodes : NodeAt(n).key = k
        IN  [value |-> NodeAt(n).value, timestamp |-> NodeAt(n).timestamp]]

Abs == INSTANCE KVStore WITH store <- StoreMap, Phantom <- TRUE, broken <- degraded

\* Until an allocation fails, the hash engine implements the store, except that
\* DEL may claim to have deleted a key that was not there.
ImplementsStore == Abs!Spec
===============================================================================
