--------------------------------- MODULE KVSave ---------------------------------
(***************************************************************************)
(* Snapshots (kv_save.c): SAVE writes the number of items and then the     *)
(* items of an engine to a file through a stdio buffer, LOAD reads such a  *)
(* file back.  The process may be killed at any point, also in the middle  *)
(* of a SAVE, and starts again with an empty engine.                       *)
(*                                                                         *)
(* The engine is a finite map; timestamps are left out: a snapshot has     *)
(* none.  The file is a sequence of strings, keys and values in turn, after*)
(* the number of items; each string has its length before it.  A string    *)
(* that is cut short at the end of the file is missing.  One cut short in  *)
(* the middle of it puts LOAD out of step: it takes for lengths and strings*)
(* what are not.                                                           *)
(***************************************************************************)
EXTENDS Integers, FiniteSets, SequencesExt

CONSTANTS
    Key, Value,
    Capacity,   \* KVS_ARRAY_SIZE
    Blank,      \* the empty value, which only a merge of a dump can store
    Junk,       \* a string that is none of these: one that went on past the end
                \* of its buffer, or a key taken for a value or a value for a key
    Garbage,    \* what a string can be that LOAD reads where none begins
    MaxItems    \* bound: how many items are stored and saved, for each engine

ASSUME CapacityAssumption == Capacity \in Nat \ {0}
ASSUME BoundAssumption == MaxItems \in [{"array", "rbtree", "hash", "skiptable"} -> Nat]
ASSUME StringsAssumption ==
    Junk \notin Key \cup Value /\ Blank \notin Value
ASSUME GarbageAssumption == Garbage \subseteq Key \cup Value \cup {Blank, Junk}

VARIABLES
    engine,     \* whose commands these are
    store,      \* key -> value
    image,      \* the items the last SAVE set out to write, in its order
    stream,     \* the strings it writes for them
    put,        \* how much of that the running SAVE has handed to fwrite
    disk,       \* how much is in the file: the number of items, and strings.
                \* Nobody reads it during a SAVE, so that what stdio has passed on
                \* of its buffer by then is settled when the SAVE ends
    saving,     \* TRUE during a SAVE
    acked,      \* TRUE if the last SAVE answered SUCCESS
    trouble,    \* history: what went wrong with the file when it was written
    reply       \* the last command, its answer and what it lacked
file == <<image, stream, disk, acked>>
vars == <<engine, store, file, put, saving, trouble, reply>>

AnyKey == Key \cup {Junk}
AnyValue == Value \cup {Blank, Junk}
Item == [key : AnyKey, value : AnyValue]

\* The strings of a snapshot, and where it ends.
Strings(items) ==
    [i \in 1 .. 2 * Len(items) |->
        IF i % 2 = 1 THEN [kind |-> "key", text |-> items[(i + 1) \div 2].key]
        ELSE [kind |-> "value", text |-> items[i \div 2].value]]
End == Len(stream) + 1

\* kvs_array_set refuses every SET of a full array; the other engines grow.
Full(s) == engine = "array" /\ Cardinality(DOMAIN s) >= Capacity

\* The skip list writes strings without their terminating NUL.
Terminated == engine # "skiptable"

AnswerLacking(op, result, lacked) ==
    reply' = [op |-> op, result |-> result, lacked |-> lacked]
Answer(op, result) == AnswerLacking(op, result, {})

-------------------------------------------------------------------------------
\* Nothing is loaded when the server starts.
Init ==
    /\ engine \in {"array", "rbtree", "hash", "skiptable"}
    /\ store = [k \in {} |-> Blank]
    /\ image = <<>> /\ stream = <<>> /\ put = 0 /\ disk = 0 /\ saving = FALSE /\ acked = FALSE
    /\ trouble = {}
    /\ reply = [op |-> "NONE", result |-> "NONE", lacked |-> {}]

\* Mutant: the capacity test is left out.
SetPastCapacity(s, item) ==
    IF item.key \in DOMAIN s THEN s
    ELSE [k \in DOMAIN s \cup {item.key} |-> IF k = item.key THEN item.value ELSE s[k]]

\* Mutant: a key that is present takes the value from the file.
SetOverwriting(s, item) ==
    IF Full(s) THEN s
    ELSE [k \in DOMAIN s \cup {item.key} |-> IF k = item.key THEN item.value ELSE s[k]]

\* kvs_array_set and its siblings, when there is memory.
Set(s, item) ==
    IF Full(s) \/ item.key \in DOMAIN s THEN s
    ELSE [k \in DOMAIN s \cup {item.key} |-> IF k = item.key THEN item.value ELSE s[k]]

\* SET, MOD or the merge of an item, between two snapshot commands.
Write(k, v) ==
    /\ ~saving
    /\ k \in DOMAIN store \/ Cardinality(DOMAIN store) < MaxItems[engine]
    /\ store' = IF k \in DOMAIN store THEN [store EXCEPT ![k] = v]
                ELSE Set(store, [key |-> k, value |-> v])
    /\ Answer("WRITE", "DONE")
    /\ UNCHANGED <<engine, file, put, saving, trouble>>

Del(k) ==
    /\ ~saving
    /\ k \in DOMAIN store
    /\ store' = [x \in DOMAIN store \ {k} |-> store[x]]
    /\ Answer("DEL", "DONE")
    /\ UNCHANGED <<engine, file, put, saving, trouble>>

\* SAVE: fopen(filename, "wb") empties the file.
Open ==
    /\ ~saving /\ Cardinality(DOMAIN store) <= MaxItems[engine]
    /\ \/ /\ Answer("SAVE", "ERROR")
          /\ UNCHANGED <<file, put, saving, trouble>>
       \/ /\ image' \in SetToSeqs({[key |-> k, value |-> store[k]] : k \in DOMAIN store})
          /\ stream' = Strings(image')
          /\ put' = 0 /\ disk' = 0 /\ saving' = TRUE /\ acked' = FALSE
          /\ trouble' = {}
          /\ Answer("SAVE", "NONE")
    /\ UNCHANGED <<engine, store>>

\* fwrite of zero bytes does not return 1: an empty value is taken for a failure.
Stuck == ~Terminated /\ put \in DOMAIN stream /\ stream[put].text = Blank

\* fwrite of the number of items or of the next string.
Put ==
    /\ saving /\ put < End /\ ~Stuck
    /\ put' = put + 1
    /\ UNCHANGED <<engine, store, file, saving, trouble, reply>>

\* A write fails and SAVE gives up; fclose still writes what it can.
PutFails ==
    /\ saving /\ put < End
    /\ \/ Stuck /\ UNCHANGED trouble
       \/ trouble' = trouble \cup {"disk"}
    /\ disk' \in 0 .. put
    /\ saving' = FALSE /\ put' = 0
    /\ Answer("SAVE", "ERROR")
    /\ UNCHANGED <<engine, store, image, stream, acked>>

\* What there is of a string whose beginning alone got into the file: its
\* length, a part of that, or some of its bytes.
CutShort == [kind |-> "cut", text |-> Junk]

\* kvs_rbtree_save_node_recursive: a write fails for a node that is in the left
\* subtree of one with a right subtree.  The rest of the node and of its own
\* subtree is left out, and the result of the right subtree hides the failure.
\* The flush that failed may have lost what was in the buffer: of what was
\* handed over, only a part is kept, and the last string of it may be cut short.
LeftSubtreeFails ==
    /\ engine = "rbtree" /\ saving
    /\ put >= 3 \/ "disk" \in trouble
    /\ \E kept \in 0 .. put, last \in put .. Len(stream) - 1, cut \in {<<>>, <<CutShort>>} :
          /\ last > 0 /\ stream[last].kind = "value"
          /\ stream' = SubSeq(stream, 1, kept - 1) \o cut \o SubSeq(stream, last + 1, Len(stream))
          /\ put' = Len(SubSeq(stream, 1, kept - 1) \o cut) + 1
          /\ trouble' = trouble \cup {"disk"}
                 \cup (IF kept = 0 THEN {"headless"} ELSE {})
                 \cup (IF kept = 0 \/ cut # <<>> \/ stream[kept].kind # "key" THEN {"torn"} ELSE {})
    /\ UNCHANGED <<engine, store, image, disk, saving, acked, reply>>

\* Mutant: the file is not closed.
CloseLeakingFile ==
    /\ saving /\ put = End
    /\ saving' = FALSE /\ put' = 0 /\ acked' = TRUE
    /\ Answer("SAVE", "SUCCESS")
    /\ UNCHANGED <<engine, store, image, stream, disk, trouble>>

\* Everything is in the buffer; fclose flushes it, and nobody looks whether it
\* could.
Close ==
    /\ saving /\ put = End
    /\ \/ disk' = End /\ UNCHANGED trouble
       \/ disk' \in 0 .. End - 1 /\ trouble' = trouble \cup {"disk"}
    /\ saving' = FALSE /\ put' = 0 /\ acked' = TRUE
    /\ Answer("SAVE", "SUCCESS")
    /\ UNCHANGED <<engine, store, image, stream>>

\* Where LOAD is out of step: after a string that is cut short, and everywhere
\* if the file does not begin with the number of items.
Garbled(i) == "headless" \in trouble \/ \E c \in 1 .. i : stream[c].kind = "cut"

\* What LOAD can take the i-th string for: a string of the skip list goes on past
\* the end of its buffer.
Texts(kind, i) ==
    IF Garbled(i) THEN Garbage \cap (IF kind = "key" THEN AnyKey ELSE AnyValue)
    ELSE {IF stream[i].kind = kind THEN stream[i].text ELSE Junk}
            \cup (IF Terminated THEN {} ELSE {Junk})

Readings(n) ==
    LET Said(i) == [key : Texts("key", 2 * i - 1), value : Texts("value", 2 * i)]
    IN  {items \in [1 .. n -> Item \cap UNION {Said(i) : i \in 1 .. n}] :
            \A i \in 1 .. n : items[i] \in Said(i)}

\* LOAD can find n items in the file.  A string read out of step takes up the
\* next one's beginning at least, or is an error: a length that begins inside a
\* string or inside a length is negative, 0 or longer than what is left there.
Within(n) == n > 0 => 2 * n < disk /\ (Garbled(2 * n) => 2 * n < Len(stream))

\* The items read, but those that find no memory, are set one by one.
Restored(items, lost) ==
    LET after[i \in 0 .. Len(items)] ==
            IF i = 0 THEN store
            ELSE IF i \in lost THEN after[i - 1] ELSE Set(after[i - 1], items[i])
    IN  after[Len(items)]

\* Mutant: the end of the file ends the LOAD, whatever the count says.
LoadToEnd ==
    /\ ~saving /\ disk > 0
    /\ \E items \in Readings((disk - 1) \div 2) : store' = Restored(items, {})
    /\ Answer("LOAD", "SUCCESS")
    /\ UNCHANGED <<engine, file, put, saving, trouble>>

\* fopen fails, or the read of the number of items.
LoadNothing ==
    /\ AnswerLacking("LOAD", "ERROR", {"reading"})
    /\ UNCHANGED store

\* LOAD reads n items.  It fails when the file ends early, when a read fails and
\* when there is no memory for a key or a value; that a set finds no memory goes
\* unnoticed.
LoadItems(n) ==
    \E items \in Readings(n), lost \in SUBSET (1 .. n) :
        /\ store' = Restored(items, lost)
        /\ \E result \in IF "headless" \in trouble /\ disk > 0 THEN {"SUCCESS", "ERROR"}
                         ELSE IF n = Len(image) /\ disk > 0 THEN {"SUCCESS"} ELSE {"ERROR"} :
              AnswerLacking("LOAD", result,
                  (IF lost # {} THEN {"memory"} ELSE {})
                      \cup (IF 2 * n + 2 < disk THEN {"reading"} ELSE {}))

Load ==
    /\ ~saving
    /\ LoadNothing \/ \E n \in 0 .. Len(image) : Within(n) /\ LoadItems(n)
    /\ UNCHANGED <<engine, file, put, saving, trouble>>

\* The process is killed and started again: what is in stdio's buffer is lost,
\* the file is not.
Kill ==
    /\ store' = [k \in {} |-> Blank]
    /\ IF saving THEN disk' \in 0 .. put ELSE UNCHANGED disk
    /\ saving' = FALSE /\ put' = 0
    /\ Answer("NONE", "NONE")
    /\ UNCHANGED <<engine, image, stream, acked, trouble>>

Next ==
    \/ \E k \in Key, v \in Value \cup {Blank} : Write(k, v)
    \/ \E k \in AnyKey : Del(k)
    \/ Open \/ Put \/ PutFails \/ LeftSubtreeFails \/ Close
    \/ Load
    \/ Kill

Spec == Init /\ [][Next]_vars

-------------------------------------------------------------------------------
\* The type invariant; the file never holds more than was written to it, and
\* the array never holds more than it has room for.
TypeOK ==
    /\ engine \in {"array", "rbtree", "hash", "skiptable"}
    /\ DOMAIN store \subseteq AnyKey /\ Range(store) \subseteq AnyValue
    /\ engine = "array" => Cardinality(DOMAIN store) <= Capacity
    /\ image \in Seq(Item)
    /\ stream \in Seq([kind : {"key", "value", "cut"}, text : AnyKey \cup AnyValue])
    /\ Len(stream) <= 2 * Len(image)
    /\ disk \in 0 .. End /\ put \in 0 .. End
    /\ saving => disk = 0
    /\ saving \in BOOLEAN /\ acked \in BOOLEAN
    /\ trouble \subseteq {"disk", "torn", "headless"}

Loaded == reply'.op = "LOAD"

\* A LOAD that answers SUCCESS has brought back every item of the snapshot but
\* those whose key was there already, the array full or memory short: a file
\* that a kill, a full disk or a failed write cut short, or the red-black tree
\* wrote with a hole and a SUCCESS, is never taken for a whole one
\* (kv_save.c:84-89, 180-186).  Excepted are the skip list, whose strings come
\* back garbled even from a whole file, and a file whose hole has swallowed the
\* number of items.
LoadIsWhole ==
    [][Loaded /\ reply'.result = "SUCCESS" /\ Terminated
            /\ "headless" \notin trouble /\ "memory" \notin reply'.lacked =>
          \A item \in Range(image) :
              \/ item.key \in DOMAIN store
              \/ item.key \in DOMAIN store' /\ store'[item.key] = item.value
              \/ Full(store)']_vars

\* A LOAD, whatever it answers, changes no item that was there and adds only
\* items that were saved (kv_save.c:134: kvs_array_set refuses a present key).
\* A snapshot torn within an item or a string, and the skip list's, may add
\* others.
LoadOnlyAdds ==
    [][Loaded =>
          /\ \A k \in DOMAIN store : k \in DOMAIN store' /\ store'[k] = store[k]
          /\ Terminated /\ "torn" \notin trouble =>
                \A k \in DOMAIN store' \ DOMAIN store :
                    [key |-> k, value |-> store'[k]] \in Range(image)]_vars

\* A snapshot whose SAVE answered SUCCESS and met no failing write answers every
\* LOAD with SUCCESS until the next SAVE, whatever is written, deleted, loaded or
\* killed in between, unless that very LOAD cannot open the file, fails to read
\* it or finds no memory.
AckedSaveLoads ==
    [][Loaded /\ acked /\ trouble = {} /\ reply'.lacked = {} =>
          reply'.result = "SUCCESS"]_vars
===============================================================================
