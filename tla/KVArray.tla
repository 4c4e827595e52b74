-------------------------------- MODULE KVArray --------------------------------
(***************************************************************************)
(* The array engine (kv_store_array.c): an unsorted table of slots, the    *)
(* first "total" of them in use, searched linearly.  One action per        *)
(* operation, answered as parse_protocol_to_string answers the command.    *)
(*                                                                         *)
(* Timestamps are arguments: SET and MOD pass the wall clock, which can    *)
(* step in either direction, and synchronisation passes a remote server's. *)
(* malloc may return NULL in any call.                                     *)
(***************************************************************************)
EXTENDS Protocol

CONSTANTS
    Key,            \* key strings, as their rank in strcmp order
    Value,          \* value strings
    Time,           \* millisecond timestamps
    Size,           \* KVS_ARRAY_SIZE
    Null            \* the NULL pointer

ASSUME KeyAssumption == Key \subseteq Int /\ Null \notin Key
ASSUME ValueAssumption == Null \notin Value
ASSUME TimeAssumption == Time \subseteq Int /\ 0 \in Time
ASSUME SizeAssumption == Size \in Nat \ {0}

VARIABLES
    table,      \* slot index -> [key, value, timestamp]
    total,      \* number of slots in use
    up,         \* FALSE once the process has dereferenced a NULL value
    degraded,   \* history: TRUE once a MOD, RANGE or GETARRAY found no memory
    reply       \* the last command and its answer
vars == <<table, total, up, degraded, reply>>

Item == [key : Key \cup {Null}, value : Value \cup {Null}, timestamp : Time]

Empty == [key |-> Null, value |-> Null, timestamp |-> 0]

Used == 0 .. total - 1

\* kvs_array_find_index: i is the first slot in use that holds key k.
FindIndex(i, k) ==
    /\ i \in Used
    /\ table[i].key = k
    /\ \A j \in 0 .. i - 1 : table[j].key # k

Absent(k) == \A i \in Used : table[i].key # k

\* kvs_array_get returns NULL: no slot, or a slot whose value was lost.
GetIsNull(k) ==
    \/ Absent(k)
    \/ \E i \in Used : FindIndex(i, k) /\ table[i].value = Null

Answer(op, arg, result) == reply' = [op |-> op, arg |-> arg, result |-> result]

-------------------------------------------------------------------------------
\* kvs_array_create.  Slots at and above total are never read before they
\* are written, so the malloc'd table may as well start empty.
Init ==
    /\ table = [i \in 0 .. Size - 1 |-> Empty]
    /\ total = 0
    /\ up = TRUE /\ degraded = FALSE
    /\ reply = [op |-> "NONE", arg |-> 0, result |-> "NONE"]

\* The slot SET fills: the first hole below total, else slot total.
FreeSlot(i) ==
    /\ i \in 0 .. total
    /\ i < total => table[i].key = Null
    /\ \A j \in 0 .. i - 1 : table[j].key # Null

\* Mutant: the key is not looked up before it is stored.
SetWithoutLookup(k, v, t) ==
    /\ total < Size
    /\ \E i \in 0 .. total :
          /\ FreeSlot(i)
          /\ table' = [table EXCEPT ![i] = [key |-> k, value |-> v, timestamp |-> t]]
    /\ total' = total + 1
    /\ Answer("SET", <<k, v, t>>, SetResponse(0))
    /\ UNCHANGED <<up, degraded>>

\* Mutant: capacity is checked with > instead of >=.
SetPastTheEnd(k, v, t) ==
    /\ total <= Size /\ Absent(k)
    /\ \E i \in 0 .. total :
          /\ FreeSlot(i)
          /\ table' = [j \in DOMAIN table \cup {i} |->
                         IF j = i THEN [key |-> k, value |-> v, timestamp |-> t]
                         ELSE table[j]]
    /\ total' = total + 1
    /\ Answer("SET", <<k, v, t>>, SetResponse(0))
    /\ UNCHANGED <<up, degraded>>

\* kvs_array_set_with_timestamp.  The capacity test comes before the lookup.
Set(k, v, t) ==
    /\ UNCHANGED <<up, degraded>>
    /\ \/ /\ total >= Size
          /\ Answer("SET", <<k, v, t>>, SetResponse(-2))
          /\ UNCHANGED <<table, total>>
       \/ /\ total < Size
          /\ ~GetIsNull(k)
          /\ Answer("SET", <<k, v, t>>, SetResponse(1))
          /\ UNCHANGED <<table, total>>
       \/ /\ total < Size
          /\ GetIsNull(k)
          /\ Answer("SET", <<k, v, t>>, SetResponse(-3))     \* no memory
          /\ UNCHANGED <<table, total>>
       \/ /\ total < Size
          /\ GetIsNull(k)
          /\ \E i \in 0 .. total :
                /\ FreeSlot(i)
                /\ table' = [table EXCEPT ![i] =
                                [key |-> k, value |-> v, timestamp |-> t]]
          /\ total' = total + 1
          /\ Answer("SET", <<k, v, t>>, SetResponse(0))

\* kvs_array_get
Get(k) ==
    /\ Answer("GET", k,
              IF GetIsNull(k) THEN "NO EXIST"
              ELSE table[CHOOSE i \in Used : FindIndex(i, k)].value)
    /\ UNCHANGED <<table, total, up, degraded>>

\* Mutant: the freed slot is left behind instead of being refilled.
DelLeavingHole(k) ==
    \E i \in Used :
        /\ FindIndex(i, k)
        /\ table' = [table EXCEPT ![i] = Empty]
        /\ total' = IF i = total - 1 THEN total - 1 ELSE total
        /\ Answer("DEL", k, DelResponse(0))
        /\ UNCHANGED <<up, degraded>>

\* Mutant: the last item is moved without its timestamp.
DelLosingTimestamp(k) ==
    \E i \in Used :
        /\ FindIndex(i, k)
        /\ table' = [table EXCEPT ![i] = [table[total - 1] EXCEPT !.timestamp = @ * 0],
                                  ![total - 1] = Empty]
        /\ total' = total - 1
        /\ Answer("DEL", k, DelResponse(0))
        /\ UNCHANGED <<up, degraded>>

\* Mutant: total is decremented but the last item is not moved.
DelDroppingLast(k) ==
    \E i \in Used :
        /\ FindIndex(i, k)
        /\ table' = [table EXCEPT ![total - 1] = Empty]
        /\ total' = total - 1
        /\ Answer("DEL", k, DelResponse(0))
        /\ UNCHANGED <<up, degraded>>

\* kvs_array_delete: the last item takes the place of the deleted one; when
\* the deleted item is the last one, its slot is just cleared.
Del(k) ==
    /\ UNCHANGED <<up, degraded>>
    /\ \/ /\ Absent(k)
          /\ Answer("DEL", k, DelResponse(1))
          /\ UNCHANGED <<table, total>>
       \/ \E i \in Used :
             /\ FindIndex(i, k)
             /\ table' = [table EXCEPT ![i] = table[total - 1],
                                       ![total - 1] = Empty]
             /\ total' = total - 1
             /\ Answer("DEL", k, DelResponse(0))

\* kvs_array_modify_with_timestamp.  The old value is freed before the new
\* one is allocated: when that fails, the key stays with a NULL value.
Mod(k, v, t) ==
    /\ UNCHANGED <<total, up>>
    /\ \/ /\ Absent(k)
          /\ Answer("MOD", <<k, v, t>>, ModResponse(IF total = 0 THEN -2 ELSE -4))
          /\ UNCHANGED <<table, degraded>>
       \/ \E i \in Used :
             /\ FindIndex(i, k)
             /\ table' = [table EXCEPT ![i] =
                            [key |-> k, value |-> v, timestamp |-> t]]
             /\ Answer("MOD", <<k, v, t>>, ModResponse(0))
             /\ UNCHANGED degraded
       \/ \E i \in Used :
             /\ FindIndex(i, k)
             /\ table' = [table EXCEPT ![i] =
                            [key |-> k, value |-> Null, timestamp |-> table[i].timestamp]]
             /\ Answer("MOD", <<k, v, t>>, ModResponse(-3))
             /\ degraded' = TRUE

\* kvs_array_exist
Exist(k) ==
    /\ Answer("EXIST", k, ExistResponse(IF GetIsNull(k) THEN -1 ELSE 0))
    /\ UNCHANGED <<table, total, up, degraded>>

InRange(a, b) == {i \in Used : table[i].key # Null /\ a <= table[i].key /\ table[i].key <= b}

\* kvs_array_range: copies the matching items, then sorts the copy.  A NULL
\* value in the range is passed to strlen.
RangeQuery(a, b) ==
    /\ UNCHANGED <<table, total>>
    /\ \/ /\ a > b
          /\ Answer("RANGE", <<a, b>>, RangeResponse(-2))
          /\ UNCHANGED <<up, degraded>>
       \/ /\ a <= b /\ InRange(a, b) = {}
          /\ Answer("RANGE", <<a, b>>, RangeResponse(1))
          /\ UNCHANGED <<up, degraded>>
       \/ /\ a <= b /\ InRange(a, b) # {}
          /\ Answer("RANGE", <<a, b>>, RangeResponse(-3))
          /\ degraded' = TRUE
          /\ UNCHANGED up
       \/ /\ a <= b /\ InRange(a, b) # {}
          /\ \A i \in InRange(a, b) : table[i].value # Null
          /\ Answer("RANGE", <<a, b>>,
                    SortByKey({<<table[i].key, table[i].value>> : i \in InRange(a, b)}))
          /\ UNCHANGED <<up, degraded>>
       \/ /\ a <= b
          /\ \E i \in InRange(a, b) : table[i].value = Null
          /\ up' = FALSE
          /\ UNCHANGED <<degraded, reply>>

Dumped == {i \in Used : table[i].key # Null}

\* kvs_array_get_all: a failure is reported as an empty table.
GetAll ==
    /\ UNCHANGED <<table, total>>
    /\ \/ /\ Answer("GETALL", 0, "EMPTY")
          /\ degraded' = (degraded \/ total > 0)
          /\ UNCHANGED up
       \/ /\ total > 0
          /\ \A i \in Dumped : table[i].value # Null
          /\ Answer("GETALL", 0,
                    {<<table[i].key, table[i].value, table[i].timestamp>> : i \in Dumped})
          /\ UNCHANGED <<up, degraded>>
       \/ /\ \E i \in Dumped : table[i].value = Null
          /\ up' = FALSE
          /\ UNCHANGED <<degraded, reply>>

Next ==
    /\ up
    /\ \/ \E k \in Key, v \in Value, t \in Time : Set(k, v, t) \/ Mod(k, v, t)
       \/ \E k \in Key : Get(k) \/ Del(k) \/ Exist(k)
       \/ \E a, b \in Key : RangeQuery(a, b)
       \/ GetAll

Spec == Init /\ [][Next]_vars

-------------------------------------------------------------------------------
\* Every variable stays in its type; in particular no slot is written past
\* the end of the table (kv_store_array.c:164).
TypeOK ==
    /\ table \in [0 .. Size - 1 -> Item]
    /\ total \in 0 .. Size
    /\ up \in BOOLEAN /\ degraded \in BOOLEAN

\* The slots in use are contiguous: DEL refills the slot it frees
\* (kv_store_array.c:219-235), so that the lookups and the dumps, which stop
\* at total, see every item.
NoHoles == \A i \in Used : table[i].key # Null

\* Until an allocation fails, no key is stored in two slots: SET refuses a key
\* it finds (kv_store_array.c:129-133) and DEL moves an item rather than
\* copying it.
UniqueKeys == ~degraded => \A i, j \in Used : table[i].key = table[j].key => i = j

\* A key a command has stored is lost to a DEL of that very key and to
\* nothing else: not to a DEL of another key, whose hole the last item fills,
\* nor to a SET or a MOD that runs out of memory half way.
KeyLossOnlyByDel ==
    [][\A k \in Key : ~Absent(k) /\ Absent(k)' =>
          reply'.op = "DEL" /\ reply'.arg = k /\ reply'.result = "SUCCESS"]_vars

\* The map the table stands for.
StoreMap ==
    [k \in {table[i].key : i \in Used} |->
        LET i == CHOOSE i \in Used : table[i].key = k
        IN  [value |-> table[i].value, timestamp |-> table[i].timestamp]]

Abs == INSTANCE KVStore WITH store <- StoreMap, Phantom <- FALSE, broken <- degraded

\* Until an allocation fails, the array engine answers and changes as a map
\* from keys to timestamped values would: every answer is the one the map
\* gives, and no item loses its value or its timestamp to another item's move.
ImplementsStore == Abs!Spec
===============================================================================
