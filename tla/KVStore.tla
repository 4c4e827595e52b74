-------------------------------- MODULE KVStore --------------------------------
(***************************************************************************)
(* What a storage engine promises the command layer: a finite map from     *)
(* keys to timestamped values, changed only by the commands that succeed,  *)
(* and answers that tell the truth about that map.  The engines (KVArray,  *)
(* KVHash, KVSkiptable, KVRbtree) are shown to implement it.               *)
(*                                                                         *)
(* reply is what a client observes.  An engine that ran out of memory in   *)
(* the middle of a command breaks its promise, and owes nothing from then  *)
(* on.                                                                     *)
(***************************************************************************)
EXTENDS Protocol

CONSTANTS
    Key,      \* key strings; an integer stands for a key's rank in strcmp order
    Value,    \* value strings
    Time,     \* millisecond timestamps
    Phantom   \* TRUE if DEL of an absent key may be answered SUCCESS

VARIABLES
    store,    \* key -> [value, timestamp]
    reply,    \* the last command and its answer
    broken    \* TRUE once the engine has given up its promise
vars == <<store, reply, broken>>

Present == DOMAIN store

Put(k, v, t) ==
    [x \in Present \cup {k} |->
        IF x = k THEN [value |-> v, timestamp |-> t] ELSE store[x]]

Without(k) == [x \in Present \ {k} |-> store[x]]

Answer(op, arg, result) == reply' = [op |-> op, arg |-> arg, result |-> result]

\* The items with a key between a and b, as pairs, in ascending key order.
Between(a, b) == {<<k, store[k].value>> : k \in {x \in Present : a <= x /\ x <= b}}

-------------------------------------------------------------------------------
Init ==
    /\ store = [x \in {} |-> 0]
    /\ reply = [op |-> "NONE", arg |-> 0, result |-> "NONE"]
    /\ broken = FALSE

\* A refused SET (table full, no memory) changes nothing.
Set(k, v, t) ==
    \/ /\ k \notin Present
       /\ store' = Put(k, v, t)
       /\ Answer("SET", <<k, v, t>>, "SUCCESS")
    \/ /\ k \in Present
       /\ Answer("SET", <<k, v, t>>, "EXIST")
       /\ UNCHANGED store
    \/ /\ Answer("SET", <<k, v, t>>, "ERROR")
       /\ UNCHANGED store

Get(k) ==
    /\ Answer("GET", k, IF k \in Present THEN store[k].value ELSE "NO EXIST")
    /\ UNCHANGED store

Del(k) ==
    \/ /\ k \in Present
       /\ store' = Without(k)
       /\ Answer("DEL", k, "SUCCESS")
    \/ /\ k \notin Present
       /\ \E r \in {"ERROR", "NO EXIST"} \cup (IF Phantom THEN {"SUCCESS"} ELSE {}) :
             Answer("DEL", k, r)
       /\ UNCHANGED store

Mod(k, v, t) ==
    \/ /\ k \in Present
       /\ store' = Put(k, v, t)
       /\ Answer("MOD", <<k, v, t>>, "SUCCESS")
    \/ /\ k \notin Present
       /\ \E r \in {"ERROR", "NO EXIST"} : Answer("MOD", <<k, v, t>>, r)
       /\ UNCHANGED store

Exist(k) ==
    /\ Answer("EXIST", k, IF k \in Present THEN "EXIST" ELSE "NO EXIST")
    /\ UNCHANGED store

RangeQuery(a, b) ==
    /\ Answer("RANGE", <<a, b>>,
              CASE a > b -> "ERROR"
                [] a <= b /\ Between(a, b) = {} -> "EMPTY"
                [] a <= b /\ Between(a, b) # {} -> SortByKey(Between(a, b)))
    /\ UNCHANGED store

\* GETARRAY, GETHASH, ...: every item with its timestamp, in no promised order.
GetAll ==
    /\ Answer("GETALL", 0,
              IF Present = {} THEN "EMPTY"
              ELSE {<<k, store[k].value, store[k].timestamp>> : k \in Present})
    /\ UNCHANGED store

Command ==
    \/ \E k \in Key, v \in Value, t \in Time : Set(k, v, t) \/ Mod(k, v, t)
    \/ \E k \in Key : Get(k) \/ Del(k) \/ Exist(k)
    \/ \E a, b \in Key : RangeQuery(a, b)
    \/ GetAll

Next == broken' \/ (~broken /\ Command /\ UNCHANGED broken)

Spec == Init /\ [][Next]_vars
===============================================================================
