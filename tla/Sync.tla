---------------------------------- MODULE Sync ----------------------------------
(***************************************************************************)
(* Replication between servers (kv_store_sync_client.hpp and the SYNC and  *)
(* GETARRAY branches of kv_store_epoll.hpp; RSYNC, HSYNC and SSYNC do the  *)
(* same with their engines).  SYNC m makes a server fetch the dump of m    *)
(* and keep, for each key, the item with the later timestamp.  Every       *)
(* server runs one thread: while it waits for a dump it serves nobody, not *)
(* even another server's GETARRAY.                                         *)
(*                                                                         *)
(* An engine is the finite map of KVStore, with room for Capacity items.   *)
(***************************************************************************)
EXTENDS Integers, FiniteSets

CONSTANTS
    Node, Key,
    Value,         \* values of SETs and MODs that have their three words
    Time,          \* timestamps; clocks of different servers need not agree
    Capacity,      \* KVS_ARRAY_SIZE
    Junk,          \* a key no client writes: "EMPTY", or what is left of a key
    Blank,         \* the empty value; no client writes it
    Shard,         \* a value no client writes: what is left of one, or a number
                   \* that was taken for one
    Pieces,        \* key -> the keys its first bytes can be taken for
    MaxWrites,     \* bound: client writes
    Syncs,         \* the SYNCs an operator may order: <<server, source>>
    SourcesIdle,   \* TRUE if no SYNC is ordered from a server that waits for one
    MayCut,        \* TRUE if a dump may arrive incomplete
    MaxFaults      \* bound: restarts and DELs

\* A command has at most 1023 bytes, so there are finitely many keys.
ASSUME KeyAssumption == IsFiniteSet(Key)
ASSUME TimeAssumption == Time \subseteq Nat
ASSUME CapacityAssumption == Capacity \in Nat
ASSUME JunkAssumption ==
    Junk \notin Key /\ Blank \notin Value /\ Shard \notin Value /\ Blank # Shard
ASSUME PiecesAssumption == Pieces \in [Key -> SUBSET (Key \cup {Junk})]
ASSUME SyncsAssumption == Syncs \subseteq Node \X Node

VARIABLES
    store,     \* each server's engine: key -> [value, timestamp]
    sync,      \* what each server's event loop is doing
    written,   \* history: the items clients have written
    faults     \* history: how many restarts and DELs there were
vars == <<store, sync, written, faults>>

AnyKey == Key \cup {Junk}
AnyValue == Value \cup {Blank, Shard}
Entry == [key : AnyKey, value : AnyValue, timestamp : Time]
Item == [value : AnyValue, timestamp : Time]

Keys(entries) == {e.key : e \in entries}

\* kvs_array_get_all, as GETARRAY sends it.
Dump(n) ==
    {[key |-> k, value |-> store[n][k].value, timestamp |-> store[n][k].timestamp] :
        k \in DOMAIN store[n]}

Idle(result) == [phase |-> "idle", from |-> "nobody", dump |-> {}, result |-> result]

-------------------------------------------------------------------------------
\* init_kv_engine: a server starts empty; nothing is loaded.
Init ==
    /\ store = [n \in Node |-> [k \in {} |-> 0]]
    /\ sync = [n \in Node |-> Idle("NONE")]
    /\ written = {}
    /\ faults = 0

\* SET of an absent key, MOD of a present one.
Write(n, k, v, t) ==
    /\ sync[n].phase = "idle"
    /\ Cardinality(written) < MaxWrites
    /\ k \in DOMAIN store[n] \/ Cardinality(DOMAIN store[n]) < Capacity
    /\ store' = [store EXCEPT ![n] =
                    [x \in DOMAIN @ \cup {k} |->
                        IF x = k THEN [value |-> v, timestamp |-> t] ELSE @[x]]]
    /\ written' = written \cup {[key |-> k, value |-> v, timestamp |-> t]}
    /\ UNCHANGED <<sync, faults>>

Del(n, k) ==
    /\ faults < MaxFaults /\ faults' = faults + 1
    /\ sync[n].phase = "idle" /\ k \in DOMAIN store[n]
    /\ store' = [store EXCEPT ![n] = [x \in DOMAIN @ \ {k} |-> @[x]]]
    /\ UNCHANGED <<sync, written>>

\* The SYNC branch up to receive_response: connect, send "GETARRAY\n", wait.
\* connect() succeeds as soon as the kernel of the source has queued it.
StartSync(n, m) ==
    /\ <<n, m>> \in Syncs
    /\ sync[n].phase = "idle"
    /\ SourcesIdle => sync[m].phase = "idle"
    /\ sync' = [sync EXCEPT ![n] =
                    [phase |-> "asked", from |-> m, dump |-> {}, result |-> "NONE"]]
    /\ UNCHANGED <<store, written, faults>>

\* The source's loop gets to the request.
Serve(m, n) ==
    /\ sync[m].phase = "idle"
    /\ sync[n].phase = "asked" /\ sync[n].from = m
    /\ sync' = [sync EXCEPT ![n].phase = "answered", ![n].dump = Dump(m)]
    /\ UNCHANGED <<store, written, faults>>

\* parse_remote_data_str of a line cut short.  A number that is not there
\* leaves timestamp uninitialized; one cut short is smaller.
Cut(e) ==
    [key : Pieces[e.key] \cup {e.key}, value : {Blank}, timestamp : Time]
        \cup [key : {e.key}, value : {Shard, e.value}, timestamp : Time]

\* parse_remote_data_str of whole lines.  A line without a value is
\* "key  timestamp", with two spaces: the timestamp is taken for the value, and
\* timestamp is left uninitialized.
Parsed(lines) ==
    LET blank == {e \in lines : e.value = Blank}
    IN  {(lines \ blank) \cup
            {[e EXCEPT !.value = Shard, !.timestamp = stamp[e]] : e \in blank} :
                stamp \in [blank -> Time]}

ParsedSome(dump) == UNION {Parsed(lines) : lines \in SUBSET dump}

\* The items made of what receive_response returned, as <<those of whole lines,
\* that of the last line cut short>>.  "EMPTY" is parsed like any line.
Received(dump) ==
    IF dump = {}
    THEN {{}} \X {{[key |-> Junk, value |-> Blank, timestamp |-> t]} : t \in Time}
    ELSE (Parsed(dump) \X {{}}) \cup
         (IF ~MayCut THEN {}
          ELSE ((ParsedSome(dump) \ {{}}) \X {{}}) \cup
               UNION {ParsedSome(dump \ {e}) \X {{c} : c \in Cut(e)} :
                          e \in {d \in dump : d.key \in Key}})

\* Mutant: present keys are left alone.
JoinAddingOnly(s, entries) ==
    [k \in DOMAIN s \cup Keys(entries) |->
        IF k \in DOMAIN s THEN s[k]
        ELSE LET e == CHOOSE e \in entries : e.key = k
             IN  [value |-> e.value, timestamp |-> e.timestamp]]

\* Mutant: the source's item always wins.
JoinOverwriting(s, entries) ==
    [k \in DOMAIN s \cup Keys(entries) |->
        IF k \notin Keys(entries) THEN s[k]
        ELSE LET e == CHOOSE e \in entries : e.key = k
             IN  [value |-> e.value, timestamp |-> e.timestamp]]

\* Mutant: kvs_array_set, which stamps the item with the time of the merge.
JoinStampingNow(s, entries) ==
    [k \in DOMAIN s \cup Keys(entries) |->
        IF k \in DOMAIN s THEN s[k]
        ELSE LET e == CHOOSE e \in entries : e.key = k
             IN  [value |-> e.value,
                  timestamp |-> CHOOSE t \in Time : \A u \in Time : u <= t]]

\* sync_data_to_local_array_engine over entries of different keys: a key that
\* is absent is set, a present one is modified if the remote item is newer.
Join(s, entries) ==
    [k \in DOMAIN s \cup Keys(entries) |->
        IF k \in DOMAIN s /\ \A e \in entries : e.key = k => e.timestamp <= s[k].timestamp
        THEN s[k]
        ELSE LET e == CHOOSE e \in entries : e.key = k
             IN  [value |-> e.value, timestamp |-> e.timestamp]]

Fits(s) == Cardinality(DOMAIN s) <= Capacity

\* Mutant: a merge that finds no room goes on.
MergedAnyway(s, lines, last) == {<<Join(Join(s, lines), last), "SUCCESS">>}

\* The stores a merge can leave and the answer it gives: when there is no room
\* for an item, what came before it stays.
Merged(s, lines, last) ==
    LET whole == Join(Join(s, lines), last)
    IN  IF Fits(whole) THEN {<<whole, "SUCCESS">>}
        ELSE {<<Join(s, some), "FAILED">> :
                some \in {e \in SUBSET lines : Cardinality(DOMAIN Join(s, e)) = Capacity}}

\* The rest of the SYNC branch, from receive_response's return.
Merge(n) ==
    /\ sync[n].phase = "answered"
    /\ \E r \in Received(sync[n].dump) :
          \E m \in Merged(store[n], r[1], r[2]) :
             /\ store' = [store EXCEPT ![n] = m[1]]
             /\ sync' = [sync EXCEPT ![n] = Idle(m[2])]
    /\ UNCHANGED <<written, faults>>

\* Mutant: the end of the connection is taken for a timeout, and waited out.
SourceGoneIgnored(n) ==
    /\ sync[n].phase = "closed"
    /\ UNCHANGED vars

\* receive_response, recv() == 0 with nothing received: SYNC answers FAILED.
SourceGone(n) ==
    /\ sync[n].phase = "closed"
    /\ sync' = [sync EXCEPT ![n] = Idle("FAILED")]
    /\ UNCHANGED <<store, written, faults>>

\* A server is killed and started again.  Its connections are closed; a dump
\* it had already sent is still delivered.
Restart(m) ==
    /\ faults < MaxFaults /\ faults' = faults + 1
    /\ store' = [store EXCEPT ![m] = [k \in {} |-> 0]]
    /\ sync' = [n \in Node |->
                    IF n = m THEN Idle("NONE")
                    ELSE IF sync[n].from = m /\ sync[n].phase = "asked"
                    THEN [sync[n] EXCEPT !.phase = "closed"]
                    ELSE sync[n]]
    /\ UNCHANGED written

Next ==
    \/ \E n \in Node, k \in Key, v \in Value, t \in Time : Write(n, k, v, t)
    \/ \E n \in Node, k \in Key : Del(n, k)
    \/ \E n, m \in Node : StartSync(n, m) \/ Serve(m, n)
    \/ \E n \in Node : Merge(n) \/ SourceGone(n) \/ Restart(n)

Spec == Init /\ [][Next]_vars

\* Every event loop that can go on does.  epoll's ready list is a queue: a
\* request that waits in it is served before a server takes up a later SYNC
\* again and again, hence the strong fairness of Serve.
Fairness ==
    /\ \A s \in Syncs : SF_vars(Serve(s[2], s[1]))
    /\ \A n \in Node : WF_vars(Merge(n)) /\ WF_vars(SourceGone(n))
FairSpec == Spec /\ Fairness

\* An operator who orders every SYNC again and again.
DiligentSpec == FairSpec /\ \A s \in Syncs : SF_vars(StartSync(s[1], s[2]))

-------------------------------------------------------------------------------
\* The type invariant, and no engine holds more than it has room for.
TypeOK ==
    /\ DOMAIN store = Node /\ DOMAIN sync = Node
    /\ \A n \in Node :
          /\ DOMAIN store[n] \subseteq AnyKey
          /\ \A k \in DOMAIN store[n] : store[n][k] \in Item
          /\ Fits(store[n])
          /\ sync[n] \in [phase : {"idle", "asked", "answered", "closed"},
                          from : Node \cup {"nobody"}, dump : SUBSET Entry,
                          result : {"NONE", "SUCCESS", "FAILED"}]
    /\ written \subseteq Entry

\* What a server answers for a key was written by some client, value and
\* timestamp together: merges mix no items and restamp none
\* (kv_store_sync_client.hpp:273, 287).  Only the item made of the answer of an
\* empty source comes from nowhere.
NothingInvented ==
    \A n \in Node : \A e \in Dump(n) : e.key # Junk => e \in written

Finished(n) == sync[n].phase = "answered" /\ sync[n]'.phase = "idle" /\ sync[n]'.result # "NONE"

\* What server n holds, after a step, for the key of an item it was sent: that
\* very item, a strictly newer one, or the one it had, if the two tie.
Has(n, e) ==
    /\ e.key \in DOMAIN store'[n]
    /\ \/ store'[n][e.key] = [value |-> e.value, timestamp |-> e.timestamp]
       \/ store'[n][e.key].timestamp > e.timestamp
       \/ /\ e.key \in DOMAIN store[n]
          /\ store'[n][e.key] = store[n][e.key]
          /\ store'[n][e.key].timestamp = e.timestamp

\* A SYNC that answers SUCCESS has brought over the whole dump: for every item
\* of it the server now holds that item, value and timestamp, or a strictly
\* newer one, or has kept its own of the same timestamp.  The item made of the
\* answer of an empty source is excepted: it is not read as it was sent.
SyncIsComplete ==
    [][\A n \in Node :
          Finished(n) /\ sync[n]'.result = "SUCCESS" =>
              \A e \in sync[n].dump : e.key # Junk => Has(n, e)]_vars

\* A merge, even one that fails half-way, never takes a key away, never
\* replaces an item by an older one, and changes no value without a newer stamp.
MergeNeverRollsBack ==
    [][\A n \in Node :
          Finished(n) =>
              \A k \in DOMAIN store[n] :
                  /\ k \in DOMAIN store'[n]
                  /\ \/ store'[n][k] = store[n][k]
                     \/ store'[n][k].timestamp > store[n][k].timestamp]_vars

\* Every SYNC comes to an end: its client gets an answer, and the server serves
\* its other clients again.
SyncEnds == \A n \in Node : sync[n].phase # "idle" ~> sync[n].phase = "idle"

\* No two writes of a key have the same timestamp.
NoTies == \A e, f \in written : e.key = f.key /\ e.timestamp = f.timestamp => e = f

\* Servers that keep synchronizing with each other end up with the same items,
\* unless two writes of a key tie (neither item is then the newer one,
\* kv_store_sync_client.hpp:270) or an engine has no room for all the keys.
Converge ==
    <>[]\/ ~NoTies
        \/ Cardinality(UNION {DOMAIN store[n] : n \in Node}) > Capacity
        \/ \A n, m \in Node : \A k \in Key :
              /\ k \in DOMAIN store[n] <=> k \in DOMAIN store[m]
              /\ k \in DOMAIN store[n] => store[n][k] = store[m][k]
===============================================================================
