------------------------------- MODULE SyncProofs -------------------------------
(***************************************************************************)
(* Proofs about replication, for any number of servers, keys and values,   *)
(* whatever the servers' clocks say.                                       *)
(***************************************************************************)
EXTENDS Sync, FiniteSetTheorems, TLAPS

USE KeyAssumption, TimeAssumption, CapacityAssumption, JunkAssumption,
    PiecesAssumption, SyncsAssumption

-------------------------------------------------------------------------------
\* Lemmas about Join, over one engine and one set of entries.

IsStore(s) == DOMAIN s \subseteq AnyKey /\ \A k \in DOMAIN s : s[k] \in Item

OneEntryPerKey(entries) == \A e, f \in entries : e.key = f.key => e = f

\* Joining entries to an engine gives an engine.
LEMMA JoinIsStore ==
  ASSUME NEW s, IsStore(s), NEW entries, entries \subseteq Entry
  PROVE  /\ IsStore(Join(s, entries))
         /\ DOMAIN Join(s, entries) = DOMAIN s \cup Keys(entries)
<1> DEFINE j == Join(s, entries)
<1>1. DOMAIN j = DOMAIN s \cup Keys(entries)
  BY DEF Join
<1>2. Keys(entries) \subseteq AnyKey
  BY DEF Keys, Entry
<1>3. ASSUME NEW k \in DOMAIN j PROVE j[k] \in Item
  <2>1. CASE k \in DOMAIN s /\ \A e \in entries : e.key = k => e.timestamp <= s[k].timestamp
    BY <1>3, <2>1 DEF Join, IsStore
  <2>2. CASE ~(k \in DOMAIN s /\ \A e \in entries : e.key = k => e.timestamp <= s[k].timestamp)
    <3> DEFINE f == CHOOSE e \in entries : e.key = k
    <3>1. \E e \in entries : e.key = k
      BY <1>1, <1>3, <2>2 DEF Keys
    <3>2. f \in Entry
      BY <3>1
    <3>3. j[k] = [value |-> f.value, timestamp |-> f.timestamp]
      BY <1>1, <1>3, <2>2 DEF Join
    <3> QED BY <3>2, <3>3 DEF Entry, Item
  <2> QED BY <2>1, <2>2
<1> QED BY <1>1, <1>2, <1>3 DEF IsStore

\* What Join makes of a key: the item it had, if no entry is newer, else the entry.
LEMMA JoinAt ==
  ASSUME NEW s, IsStore(s), NEW entries, entries \subseteq Entry,
         NEW k \in DOMAIN Join(s, entries)
  PROVE  \/ k \in DOMAIN s /\ Join(s, entries)[k] = s[k]
            /\ \A e \in entries : e.key = k => e.timestamp <= s[k].timestamp
         \/ \E f \in entries :
               /\ f.key = k
               /\ Join(s, entries)[k] = [value |-> f.value, timestamp |-> f.timestamp]
               /\ ~(k \in DOMAIN s
                    /\ \A e \in entries : e.key = k => e.timestamp <= s[k].timestamp)
<1> DEFINE old == k \in DOMAIN s /\ \A e \in entries : e.key = k => e.timestamp <= s[k].timestamp
           f == CHOOSE e \in entries : e.key = k
<1>1. k \in DOMAIN s \cup Keys(entries)
  BY JoinIsStore
<1>2. CASE old
  BY <1>1, <1>2 DEF Join
<1>3. CASE ~old
  <2>1. \E e \in entries : e.key = k
    BY <1>1, <1>3 DEF Keys
  <2>2. f \in entries /\ f.key = k
    BY <2>1
  <2>3. Join(s, entries)[k] = [value |-> f.value, timestamp |-> f.timestamp]
    BY <1>1, <1>3 DEF Join
  <2> QED BY <1>3, <2>2, <2>3
<1> QED BY <1>2, <1>3

\* Join takes no key away and replaces an item by a newer one only.
LEMMA JoinKeepsOrAdvances ==
  ASSUME NEW s, IsStore(s), NEW entries, entries \subseteq Entry, OneEntryPerKey(entries),
         NEW k \in DOMAIN s
  PROVE  /\ k \in DOMAIN Join(s, entries)
         /\ \/ Join(s, entries)[k] = s[k]
            \/ Join(s, entries)[k].timestamp > s[k].timestamp
<1>1. k \in DOMAIN Join(s, entries)
  BY JoinIsStore
<1>2. ASSUME NEW f \in entries, f.key = k, NEW e \in entries, e.key = k,
             ~(e.timestamp <= s[k].timestamp)
      PROVE  f.timestamp > s[k].timestamp
  <2>1. e = f
    BY <1>2 DEF OneEntryPerKey
  <2>2. f.timestamp \in Nat /\ s[k].timestamp \in Nat
    BY DEF IsStore, Item, Entry
  <2> QED BY <1>2, <2>1, <2>2
<1> QED BY <1>1, <1>2, JoinAt

\* After Join every entry is there, or a newer item of its key, or the item of
\* the same timestamp that was there before.
LEMMA JoinCovers ==
  ASSUME NEW s, IsStore(s), NEW entries, entries \subseteq Entry, OneEntryPerKey(entries),
         NEW e \in entries
  PROVE  /\ e.key \in DOMAIN Join(s, entries)
         /\ \/ Join(s, entries)[e.key] = [value |-> e.value, timestamp |-> e.timestamp]
            \/ Join(s, entries)[e.key].timestamp > e.timestamp
            \/ /\ e.key \in DOMAIN s
               /\ Join(s, entries)[e.key] = s[e.key]
               /\ Join(s, entries)[e.key].timestamp = e.timestamp
<1>0. e.key \in Keys(entries)
  BY DEF Keys
<1>1. e.key \in DOMAIN Join(s, entries)
  BY <1>0, JoinIsStore
<1>2. e.timestamp \in Nat
  BY DEF Entry
<1>3. CASE /\ e.key \in DOMAIN s /\ Join(s, entries)[e.key] = s[e.key]
           /\ \A f \in entries : f.key = e.key => f.timestamp <= s[e.key].timestamp
  <2>1. s[e.key].timestamp \in Nat
    BY <1>3 DEF IsStore, Item
  <2>2. e.timestamp <= s[e.key].timestamp
    BY <1>3
  <2> QED BY <1>1, <1>2, <1>3, <2>1, <2>2
<1>4. ASSUME NEW f \in entries, f.key = e.key,
             Join(s, entries)[e.key] = [value |-> f.value, timestamp |-> f.timestamp]
      PROVE  Join(s, entries)[e.key] = [value |-> e.value, timestamp |-> e.timestamp]
  BY <1>4 DEF OneEntryPerKey
<1> QED BY <1>1, <1>3, <1>4, JoinAt

-------------------------------------------------------------------------------
\* Lemmas about what a merge is given and what it leaves.

\* A dump is one entry for each key of the engine.
LEMMA DumpIsSound ==
  ASSUME NEW n, IsStore(store[n])
  PROVE  Dump(n) \subseteq Entry /\ OneEntryPerKey(Dump(n))
  BY DEF Dump, IsStore, Entry, Item, OneEntryPerKey

\* The two sets of entries a merge is given.
SoundPair(r) ==
    /\ r[1] \subseteq Entry /\ OneEntryPerKey(r[1])
    /\ r[2] \subseteq Entry /\ OneEntryPerKey(r[2])

\* What is read of whole lines: entries, one for each key, among them every line
\* that had a value; and an item that was not a line is one without a value.
LEMMA ParsedIsSound ==
  ASSUME NEW lines, lines \subseteq Entry, OneEntryPerKey(lines), NEW read \in Parsed(lines)
  PROVE  /\ read \subseteq Entry
         /\ OneEntryPerKey(read)
         /\ \A e \in lines : e.value # Blank => e \in read
         /\ \A e \in read \ lines : \E f \in lines : f.key = e.key /\ f.value = Blank
<1> DEFINE blank == {e \in lines : e.value = Blank}
           As(stamp, e) == [e EXCEPT !.value = Shard, !.timestamp = stamp[e]]
<1>1. PICK stamp \in [blank -> Time] : read = (lines \ blank) \cup {As(stamp, e) : e \in blank}
  BY DEF Parsed
<1>2. ASSUME NEW e \in blank
      PROVE  As(stamp, e) \in Entry /\ As(stamp, e).key = e.key
  <2>1. stamp[e] \in Time /\ e \in Entry
    OBVIOUS
  <2> QED BY <2>1 DEF Entry, AnyValue
<1> HIDE DEF As
<1>3. read \subseteq Entry
  BY <1>1, <1>2
<1>4. ASSUME NEW e \in read
      PROVE  \E f \in lines : f.key = e.key /\ e = IF f \in blank THEN As(stamp, f) ELSE f
  <2>1. CASE e \in lines /\ e \notin blank
    BY <2>1
  <2>2. CASE ~(e \in lines /\ e \notin blank)
    <3>1. PICK f \in blank : e = As(stamp, f)
      BY <1>1, <2>2
    <3>2. f.key = e.key
      BY <1>2, <3>1
    <3> QED BY <3>1, <3>2
  <2> QED BY <2>1, <2>2
<1>5. OneEntryPerKey(read)
  BY <1>4 DEF OneEntryPerKey
<1> QED BY <1>1, <1>3, <1>4, <1>5

\* What is received of a dump, whole or cut, is sound.
LEMMA ReceivedIsSound ==
  ASSUME NEW dump, dump \subseteq Entry, OneEntryPerKey(dump), NEW r \in Received(dump)
  PROVE  SoundPair(r)
<1>1. ASSUME NEW t \in Time, r = <<{}, {[key |-> Junk, value |-> Blank, timestamp |-> t]}>>
      PROVE  SoundPair(r)
  BY <1>1 DEF SoundPair, OneEntryPerKey, Entry, AnyKey, AnyValue
<1>2. ASSUME NEW lines \in SUBSET dump, NEW read \in Parsed(lines)
      PROVE  read \subseteq Entry /\ OneEntryPerKey(read)
  <2>1. lines \subseteq Entry /\ OneEntryPerKey(lines)
    BY DEF OneEntryPerKey
  <2> QED BY <2>1, ParsedIsSound
<1>3. ASSUME NEW lines \in SUBSET dump, NEW read \in Parsed(lines), r = <<read, {}>>
      PROVE  SoundPair(r)
  BY <1>2, <1>3 DEF SoundPair, OneEntryPerKey
<1>4. ASSUME NEW e \in dump, e.key \in Key, NEW c \in Cut(e),
             NEW lines \in SUBSET dump, NEW read \in Parsed(lines), r = <<read, {c}>>
      PROVE  SoundPair(r)
  <2>1. c \in Entry
    BY <1>4 DEF Cut, Entry, AnyKey, AnyValue
  <2> QED BY <1>2, <1>4, <2>1 DEF SoundPair, OneEntryPerKey
<1>5. CASE dump = {}
  BY <1>1, <1>5 DEF Received
<1>6. CASE dump # {}
  <2>1. r \in (Parsed(dump) \X {{}}) \cup ((ParsedSome(dump) \ {{}}) \X {{}})
        \/ \E e \in dump : e.key \in Key /\ r \in ParsedSome(dump \ {e}) \X {{c} : c \in Cut(e)}
    BY <1>6, Zenon DEF Received
  <2>2. CASE r \in (Parsed(dump) \X {{}}) \cup ((ParsedSome(dump) \ {{}}) \X {{}})
    <3>1. \E lines \in SUBSET dump : \E read \in Parsed(lines) : r = <<read, {}>>
      BY <2>2 DEF ParsedSome
    <3> QED BY <1>3, <3>1
  <2>3. ASSUME NEW e \in dump, e.key \in Key, r \in ParsedSome(dump \ {e}) \X {{c} : c \in Cut(e)}
        PROVE  SoundPair(r)
    <3>1. PICK read \in ParsedSome(dump \ {e}), c \in Cut(e) : r = <<read, {c}>>
      BY <2>3
    <3>2. \E lines \in SUBSET dump : read \in Parsed(lines)
      BY <3>1 DEF ParsedSome
    <3> QED BY <1>4, <2>3, <3>1, <3>2
  <2> QED BY <2>1, <2>2, <2>3
<1> QED BY <1>5, <1>6

\* A merge keeps the engine's room, and each key or something newer.
LEMMA MergedIsSound ==
  ASSUME NEW s, IsStore(s), NEW r, SoundPair(r), NEW m \in Merged(s, r[1], r[2])
  PROVE  /\ IsStore(m[1]) /\ Fits(m[1])
         /\ m[2] \in {"SUCCESS", "FAILED"}
         /\ m[2] = "SUCCESS" => m[1] = Join(Join(s, r[1]), r[2])
         /\ \A k \in DOMAIN s :
               /\ k \in DOMAIN m[1]
               /\ m[1][k] = s[k] \/ m[1][k].timestamp > s[k].timestamp
<1> DEFINE first == Join(s, r[1])
           whole == Join(first, r[2])
<1>1. IsStore(first) /\ IsStore(whole)
  BY JoinIsStore DEF SoundPair
<1>2. CASE Fits(whole) /\ m = <<whole, "SUCCESS">>
  <2>1. ASSUME NEW k \in DOMAIN s
        PROVE  /\ k \in DOMAIN whole
               /\ whole[k] = s[k] \/ whole[k].timestamp > s[k].timestamp
    <3>1. k \in DOMAIN first /\ (first[k] = s[k] \/ first[k].timestamp > s[k].timestamp)
      BY JoinKeepsOrAdvances DEF SoundPair
    <3>2. k \in DOMAIN whole /\ (whole[k] = first[k] \/ whole[k].timestamp > first[k].timestamp)
      BY <1>1, <3>1, JoinKeepsOrAdvances DEF SoundPair
    <3>3. s[k].timestamp \in Nat /\ first[k].timestamp \in Nat /\ whole[k].timestamp \in Nat
      BY <1>1, <3>1, <3>2 DEF IsStore, Item
    <3> QED BY <3>1, <3>2, <3>3
  <2> QED BY <1>1, <1>2, <2>1
<1>3. ASSUME NEW some \in SUBSET r[1], Cardinality(DOMAIN Join(s, some)) = Capacity,
             m = <<Join(s, some), "FAILED">>
      PROVE  /\ IsStore(m[1]) /\ Fits(m[1])
             /\ m[2] = "FAILED"
             /\ \A k \in DOMAIN s :
                   /\ k \in DOMAIN m[1]
                   /\ m[1][k] = s[k] \/ m[1][k].timestamp > s[k].timestamp
  <2>1. some \subseteq Entry /\ OneEntryPerKey(some)
    BY <1>3 DEF SoundPair, OneEntryPerKey
  <2>2. IsStore(m[1])
    BY <1>3, <2>1, JoinIsStore
  <2>3. \A k \in DOMAIN s :
           /\ k \in DOMAIN m[1]
           /\ m[1][k] = s[k] \/ m[1][k].timestamp > s[k].timestamp
    BY <1>3, <2>1, JoinKeepsOrAdvances
  <2>4. Fits(m[1])
    BY <1>3 DEF Fits
  <2> QED BY <1>3, <2>2, <2>3, <2>4
<1>4. \/ Fits(whole) /\ m = <<whole, "SUCCESS">>
      \/ \E some \in SUBSET r[1] :
            Cardinality(DOMAIN Join(s, some)) = Capacity /\ m = <<Join(s, some), "FAILED">>
  BY DEF Merged
<1> QED BY <1>2, <1>3, <1>4

-------------------------------------------------------------------------------
\* Where items come from: each is among those clients have written.

Genuine(entries, items) == \A e \in entries : e.key # Junk => e \in items

Written(s, items) ==
    \A k \in DOMAIN s :
        k # Junk => [key |-> k, value |-> s[k].value, timestamp |-> s[k].timestamp] \in items

\* Joining entries that were written to an engine of items that were written.
LEMMA JoinIsWritten ==
  ASSUME NEW items, NEW s, IsStore(s), Written(s, items),
         NEW entries, entries \subseteq Entry, Genuine(entries, items)
  PROVE  Written(Join(s, entries), items)
<1> DEFINE j == Join(s, entries)
<1>1. SUFFICES ASSUME NEW k \in DOMAIN j, k # Junk
               PROVE  [key |-> k, value |-> j[k].value, timestamp |-> j[k].timestamp] \in items
  BY DEF Written
<1>2. CASE k \in DOMAIN s /\ j[k] = s[k]
  BY <1>1, <1>2 DEF Written
<1>3. ASSUME NEW f \in entries, f.key = k, j[k] = [value |-> f.value, timestamp |-> f.timestamp]
      PROVE  [key |-> k, value |-> j[k].value, timestamp |-> j[k].timestamp] \in items
  <2>1. f = [key |-> f.key, value |-> f.value, timestamp |-> f.timestamp]
    BY DEF Entry
  <2>2. f \in items
    BY <1>1, <1>3 DEF Genuine
  <2> QED BY <1>3, <2>1, <2>2
<1> QED BY <1>2, <1>3, JoinAt

\* Items that clients may write.
ClientItem == [key : Key, value : Value, timestamp : Time]

\* A dump of such an engine.
LEMMA DumpIsGenuine ==
  ASSUME NEW n, NEW items, Written(store[n], items)
  PROVE  Genuine(Dump(n), items)
  BY DEF Dump, Written, Genuine

\* Reading whole lines invents nothing either: what clients wrote has a value.
LEMMA ParsedIsGenuine ==
  ASSUME NEW items \in SUBSET ClientItem,
         NEW lines, lines \subseteq Entry, OneEntryPerKey(lines), Genuine(lines, items),
         NEW read \in Parsed(lines)
  PROVE  Genuine(read, items)
<1> SUFFICES ASSUME NEW e \in read, e.key # Junk PROVE e \in items
  BY DEF Genuine
<1>1. CASE e \in lines
  BY <1>1 DEF Genuine
<1>2. CASE e \notin lines
  <2>1. PICK f \in lines : f.key = e.key /\ f.value = Blank
    BY <1>2, ParsedIsSound
  <2>2. f \in items
    BY <2>1 DEF Genuine
  <2> QED BY <2>1, <2>2 DEF ClientItem
<1> QED BY <1>1, <1>2

\* A merge of what is received of such a dump, when nothing is cut.
LEMMA MergedIsWritten ==
  ASSUME ~MayCut, NEW items \in SUBSET ClientItem, NEW s, IsStore(s), Written(s, items),
         NEW dump, dump \subseteq Entry, OneEntryPerKey(dump), Genuine(dump, items),
         NEW r \in Received(dump), NEW m \in Merged(s, r[1], r[2])
  PROVE  Written(m[1], items)
<1>1. SoundPair(r)
  BY ReceivedIsSound
<1>2. Genuine(r[1], items) /\ Genuine(r[2], items)
  <2>1. CASE dump = {}
    BY <2>1 DEF Received, Genuine
  <2>2. CASE dump # {}
    <3>1. PICK read \in Parsed(dump) : r = <<read, {}>>
      BY <2>2 DEF Received
    <3> QED BY <3>1, ParsedIsGenuine DEF Genuine
  <2> QED BY <2>1, <2>2
<1>3. IsStore(Join(s, r[1])) /\ Written(Join(s, r[1]), items)
  BY <1>1, <1>2, JoinIsStore, JoinIsWritten DEF SoundPair
<1>4. Written(Join(Join(s, r[1]), r[2]), items)
  BY <1>1, <1>2, <1>3, JoinIsWritten DEF SoundPair
<1>5. ASSUME NEW some \in SUBSET r[1] PROVE Written(Join(s, some), items)
  BY <1>1, <1>2, JoinIsWritten DEF SoundPair, Genuine
<1> QED BY <1>4, <1>5 DEF Merged

-------------------------------------------------------------------------------
\* The inductive invariant, server by server.  A merge trusts the dump it was
\* given, so the invariant has to speak of the dumps on their way too.
Loop == [phase : {"idle", "asked", "answered", "closed"},
         from : Node \cup {"nobody"}, dump : SUBSET Entry,
         result : {"NONE", "SUCCESS", "FAILED"}]

GoodStore(s, items) == IsStore(s) /\ Fits(s) /\ (~MayCut => Written(s, items))

GoodLoop(l, items) ==
    /\ l \in Loop
    /\ OneEntryPerKey(l.dump)
    /\ ~MayCut => Genuine(l.dump, items)

Inv ==
    /\ DOMAIN store = Node /\ DOMAIN sync = Node
    /\ written \subseteq ClientItem
    /\ \A n \in Node : GoodStore(store[n], written)
    /\ \A n \in Node : GoodLoop(sync[n], written)

\* Inv is stronger than the type invariant.
LEMMA InvTypeOK == Inv => TypeOK
<1>1. ClientItem \subseteq Entry
  BY DEF ClientItem, Entry, AnyKey, AnyValue
<1> QED BY <1>1 DEF Inv, TypeOK, GoodStore, GoodLoop, Loop, IsStore

\* An empty engine is good.
LEMMA EmptyIsGood ==
  ASSUME NEW items
  PROVE  GoodStore([k \in {} |-> 0], items)
<1>1. Cardinality({}) = 0
  BY FS_EmptySet
<1> QED BY <1>1 DEF GoodStore, IsStore, Fits, Written

\* So is a loop that waits for no dump.
LEMMA NoDumpIsGood ==
  ASSUME NEW items, NEW l \in Loop, l.dump = {}
  PROVE  GoodLoop(l, items)
  BY DEF GoodLoop, OneEntryPerKey, Genuine

LEMMA IdleIsGood ==
  ASSUME NEW items, NEW result \in {"NONE", "SUCCESS", "FAILED"}
  PROVE  GoodLoop(Idle(result), items)
<1>1. Idle(result) \in Loop /\ Idle(result).dump = {}
  BY DEF Idle, Loop
<1> QED BY <1>1, NoDumpIsGood

\* What is good stays good when more is written.
LEMMA MoreWritten ==
  ASSUME NEW items, NEW more, items \subseteq more
  PROVE  /\ \A s : GoodStore(s, items) => GoodStore(s, more)
         /\ \A l : GoodLoop(l, items) => GoodLoop(l, more)
  BY DEF GoodStore, GoodLoop, Written, Genuine

\* Any set of a server's keys is finite.
LEMMA KeysAreFinite ==
  ASSUME NEW s, IsStore(s)
  PROVE  IsFiniteSet(DOMAIN s)
<1>1. IsFiniteSet(AnyKey)
  BY FS_Union, FS_Singleton DEF AnyKey
<1> QED BY <1>1, FS_Subset DEF IsStore

-------------------------------------------------------------------------------
\* The invariant holds at first, and each action keeps it.

LEMMA InitInv == Init => Inv
<1> SUFFICES ASSUME Init PROVE Inv
  OBVIOUS
<1>1. \A n \in Node : GoodStore(store[n], written)
  BY EmptyIsGood DEF Init
<1>2. \A n \in Node : GoodLoop(sync[n], written)
  BY IdleIsGood DEF Init
<1> QED BY <1>1, <1>2 DEF Init, Inv

LEMMA WriteInv ==
  ASSUME Inv, NEW n \in Node, NEW k \in Key, NEW v \in Value, NEW t \in Time, Write(n, k, v, t)
  PROVE  Inv'
<1> DEFINE s == store[n]
           e == [key |-> k, value |-> v, timestamp |-> t]
           new == [x \in DOMAIN s \cup {k} |->
                      IF x = k THEN [value |-> v, timestamp |-> t] ELSE s[x]]
<1>1. store' = [store EXCEPT ![n] = new] /\ written' = written \cup {e} /\ sync' = sync
  BY DEF Write
<1>2. IsStore(s) /\ Fits(s)
  BY DEF Inv, GoodStore
<1>3. e \in ClientItem /\ [value |-> v, timestamp |-> t] \in Item
  BY DEF ClientItem, Item, AnyValue
<1>4. IsStore(new)
  BY <1>2, <1>3 DEF IsStore, AnyKey
<1>5. Fits(new)
  <2>1. CASE k \in DOMAIN s
    <3>1. DOMAIN new = DOMAIN s
      BY <2>1
    <3> QED BY <1>2, <3>1 DEF Fits
  <2>2. CASE k \notin DOMAIN s /\ Cardinality(DOMAIN s) < Capacity
    <3>1. IsFiniteSet(DOMAIN s)
      BY <1>2, KeysAreFinite
    <3>2. Cardinality(DOMAIN s \cup {k}) = Cardinality(DOMAIN s) + 1
      BY <2>2, <3>1, FS_AddElement
    <3>3. Cardinality(DOMAIN s) \in Nat
      BY <3>1, FS_CardinalityType
    <3>4. DOMAIN new = DOMAIN s \cup {k}
      OBVIOUS
    <3>5. Cardinality(DOMAIN new) <= Capacity
      BY <2>2, <3>2, <3>3, <3>4
    <3> QED BY <3>5 DEF Fits
  <2> QED BY <2>1, <2>2 DEF Write
<1>6. ASSUME ~MayCut PROVE Written(new, written')
  <2>1. Written(s, written)
    BY <1>6 DEF Inv, GoodStore
  <2> QED BY <1>1, <2>1 DEF Written
<1>7. GoodStore(new, written')
  BY <1>4, <1>5, <1>6 DEF GoodStore
<1>8. \A o \in Node : GoodStore(store'[o], written')
  BY <1>1, <1>7, MoreWritten DEF Inv
<1>9. \A o \in Node : GoodLoop(sync'[o], written')
  BY <1>1, MoreWritten DEF Inv
<1> QED BY <1>1, <1>3, <1>8, <1>9 DEF Inv

LEMMA DelInv ==
  ASSUME Inv, NEW n \in Node, NEW k \in Key, Del(n, k)
  PROVE  Inv'
<1> DEFINE s == store[n]
           new == [x \in DOMAIN s \ {k} |-> s[x]]
<1>1. store' = [store EXCEPT ![n] = new] /\ written' = written /\ sync' = sync
  BY DEF Del
<1>2. IsStore(s) /\ Fits(s) /\ (~MayCut => Written(s, written))
  BY DEF Inv, GoodStore
<1>3. IsStore(new) /\ (~MayCut => Written(new, written))
  BY <1>2 DEF IsStore, Written
<1>4. Fits(new)
  <2>1. IsFiniteSet(DOMAIN s)
    BY <1>2, KeysAreFinite
  <2>2. Cardinality(DOMAIN s \ {k}) <= Cardinality(DOMAIN s) /\ IsFiniteSet(DOMAIN s \ {k})
    BY <2>1, FS_Subset
  <2>3. Cardinality(DOMAIN s) \in Nat /\ Cardinality(DOMAIN s \ {k}) \in Nat
    BY <2>1, <2>2, FS_CardinalityType
  <2>4. DOMAIN new = DOMAIN s \ {k}
    OBVIOUS
  <2> QED BY <1>2, <2>2, <2>3, <2>4 DEF Fits
<1>5. GoodStore(new, written)
  BY <1>3, <1>4 DEF GoodStore
<1>6. \A o \in Node : GoodStore(store'[o], written')
  BY <1>1, <1>5 DEF Inv
<1> QED BY <1>1, <1>6 DEF Inv

LEMMA StartSyncInv ==
  ASSUME Inv, NEW n \in Node, NEW m \in Node, StartSync(n, m)
  PROVE  Inv'
<1> DEFINE asked == [phase |-> "asked", from |-> m, dump |-> {}, result |-> "NONE"]
<1>1. sync' = [sync EXCEPT ![n] = asked] /\ store' = store /\ written' = written
  BY DEF StartSync
<1>2. asked \in Loop
  BY DEF Loop
<1>3. GoodLoop(asked, written)
  BY <1>2, NoDumpIsGood
<1>4. \A o \in Node : GoodLoop(sync'[o], written')
  BY <1>1, <1>3 DEF Inv
<1> QED BY <1>1, <1>4 DEF Inv

LEMMA ServeInv ==
  ASSUME Inv, NEW n \in Node, NEW m \in Node, Serve(m, n)
  PROVE  Inv'
<1> DEFINE answered == [sync[n] EXCEPT !.phase = "answered", !.dump = Dump(m)]
<1>1. sync' = [sync EXCEPT ![n] = answered] /\ store' = store /\ written' = written
  BY DEF Serve
<1>2. Dump(m) \subseteq Entry /\ OneEntryPerKey(Dump(m))
      /\ (~MayCut => Genuine(Dump(m), written))
  BY DumpIsSound, DumpIsGenuine DEF Inv, GoodStore
<1>3. answered \in Loop /\ answered.dump = Dump(m)
  <2>1. sync[n] \in Loop
    BY Zenon DEF Inv, GoodLoop
  <2> QED
    BY <1>2, <2>1 DEF Loop
<1>4. GoodLoop(answered, written)
  BY <1>2, <1>3 DEF GoodLoop
<1>5. \A o \in Node : GoodLoop(sync'[o], written')
  BY <1>1, <1>4 DEF Inv
<1> QED BY <1>1, <1>5 DEF Inv

LEMMA MergeInv ==
  ASSUME Inv, NEW n \in Node, Merge(n)
  PROVE  Inv'
<1>0. PICK r \in Received(sync[n].dump) :
         \E m \in Merged(store[n], r[1], r[2]) :
            /\ store' = [store EXCEPT ![n] = m[1]]
            /\ sync' = [sync EXCEPT ![n] = Idle(m[2])]
            /\ written' = written
  BY DEF Merge
<1>1. PICK m \in Merged(store[n], r[1], r[2]) :
         /\ store' = [store EXCEPT ![n] = m[1]]
         /\ sync' = [sync EXCEPT ![n] = Idle(m[2])]
         /\ written' = written
  BY <1>0
<1>2. GoodStore(store[n], written) /\ GoodLoop(sync[n], written)
  BY DEF Inv
<1>3. /\ sync[n].dump \subseteq Entry /\ OneEntryPerKey(sync[n].dump)
      /\ ~MayCut => Genuine(sync[n].dump, written)
  BY <1>2 DEF GoodLoop, Loop
<1>4. SoundPair(r)
  BY <1>3, ReceivedIsSound
<1>5. IsStore(m[1]) /\ Fits(m[1]) /\ m[2] \in {"SUCCESS", "FAILED"}
  BY <1>2, <1>4, MergedIsSound DEF GoodStore
<1>6. ~MayCut => Written(m[1], written)
  <2> SUFFICES ASSUME ~MayCut PROVE Written(m[1], written)
    OBVIOUS
  <2>1. written \in SUBSET ClientItem
    BY DEF Inv
  <2>2. IsStore(store[n]) /\ Written(store[n], written)
    BY <1>2 DEF GoodStore
  <2> QED BY ONLY ~MayCut, <1>3, <2>1, <2>2, r \in Received(sync[n].dump),
              m \in Merged(store[n], r[1], r[2]), MergedIsWritten
<1>7. \A o \in Node : GoodStore(store'[o], written')
  BY <1>1, <1>5, <1>6 DEF Inv, GoodStore
<1>8. GoodLoop(Idle(m[2]), written)
  BY <1>5, IdleIsGood
<1>9. \A o \in Node : GoodLoop(sync'[o], written')
  BY <1>1, <1>8 DEF Inv
<1> QED BY <1>1, <1>7, <1>9 DEF Inv

LEMMA SourceGoneInv ==
  ASSUME Inv, NEW n \in Node, SourceGone(n)
  PROVE  Inv'
<1>1. sync' = [sync EXCEPT ![n] = Idle("FAILED")] /\ store' = store /\ written' = written
  BY DEF SourceGone
<1>2. GoodLoop(Idle("FAILED"), written)
  BY IdleIsGood
<1>3. \A o \in Node : GoodLoop(sync'[o], written')
  BY <1>1, <1>2 DEF Inv
<1> QED BY <1>1, <1>3 DEF Inv

LEMMA RestartInv ==
  ASSUME Inv, NEW m \in Node, Restart(m)
  PROVE  Inv'
<1> DEFINE closed(n) == [sync[n] EXCEPT !.phase = "closed"]
<1>1. /\ store' = [store EXCEPT ![m] = [k \in {} |-> 0]]
      /\ sync' = [n \in Node |->
                     IF n = m THEN Idle("NONE")
                     ELSE IF sync[n].from = m /\ sync[n].phase = "asked" THEN closed(n)
                     ELSE sync[n]]
      /\ written' = written
  BY DEF Restart
<1>2. \A o \in Node : GoodStore(store'[o], written')
  BY <1>1, EmptyIsGood DEF Inv
<1>3. GoodLoop(Idle("NONE"), written)
  BY IdleIsGood
<1>4. ASSUME NEW o \in Node PROVE GoodLoop(closed(o), written)
  BY DEF Inv, GoodLoop, Loop
<1>5. \A o \in Node : GoodLoop(sync'[o], written')
  BY <1>1, <1>3, <1>4 DEF Inv
<1> QED BY <1>1, <1>2, <1>5 DEF Inv

LEMMA NextInv == Inv /\ [Next]_vars => Inv'
<1> SUFFICES ASSUME Inv, [Next]_vars PROVE Inv'
  OBVIOUS
<1>1. ASSUME NEW n \in Node, NEW k \in Key, NEW v \in Value, NEW t \in Time, Write(n, k, v, t)
      PROVE  Inv'
  BY <1>1, WriteInv
<1>2. ASSUME NEW n \in Node, NEW k \in Key, Del(n, k) PROVE Inv'
  BY <1>2, DelInv
<1>3. ASSUME NEW n \in Node, NEW m \in Node, StartSync(n, m) PROVE Inv'
  BY <1>3, StartSyncInv
<1>4. ASSUME NEW n \in Node, NEW m \in Node, Serve(m, n) PROVE Inv'
  BY <1>4, ServeInv
<1>5. ASSUME NEW n \in Node, Merge(n) PROVE Inv'
  BY <1>5, MergeInv
<1>6. ASSUME NEW n \in Node, SourceGone(n) PROVE Inv'
  BY <1>6, SourceGoneInv
<1>7. ASSUME NEW n \in Node, Restart(n) PROVE Inv'
  BY <1>7, RestartInv
<1>8. CASE UNCHANGED vars
  BY <1>8 DEF vars, Inv
<1> QED BY <1>1, <1>2, <1>3, <1>4, <1>5, <1>6, <1>7, <1>8 DEF Next

\* The invariant holds in every reachable state.
THEOREM Invariance == Spec => []Inv
<1>1. Init => Inv
  BY InitInv
<1>2. Inv /\ [Next]_vars => Inv'
  BY NextInv
<1> QED BY <1>1, <1>2, PTL DEF Spec

\* TypeOK: engines hold items and no more than they have room for, and dumps on
\* their way are sets of entries, whatever the clients, operators and restarts do.
THEOREM TypeCorrect == Spec => []TypeOK
<1>1. Inv => TypeOK
  BY InvTypeOK
<1> QED BY <1>1, Invariance, PTL

\* NothingInvented: as long as dumps arrive whole, what a server holds for a key
\* was written by a client, value and timestamp together, however many merges
\* it came through (kv_store_sync_client.hpp:268-288).
THEOREM NothingIsInvented ==
  ASSUME ~MayCut
  PROVE  Spec => []NothingInvented
<1>1. Inv => NothingInvented
  <2> SUFFICES ASSUME Inv, NEW n \in Node PROVE Genuine(Dump(n), written)
    BY DEF NothingInvented, Genuine
  <2>1. Written(store[n], written)
    BY DEF Inv, GoodStore
  <2> QED BY <2>1, DumpIsGenuine
<1> QED BY <1>1, Invariance, PTL

-------------------------------------------------------------------------------
\* What a merge may do to the engine, for the two action properties.

\* Only the end of the SYNC branch answers SUCCESS or FAILED to a server that
\* has its dump.
LEMMA OnlyMergeFinishes ==
  ASSUME Inv, [Next]_vars, NEW n \in Node, Finished(n)
  PROVE  Merge(n)
<1> USE DEF Finished
<1>1. ASSUME NEW o \in Node, NEW k \in Key, NEW v \in Value, NEW t \in Time, Write(o, k, v, t)
      PROVE  FALSE
  BY <1>1 DEF Write
<1>2. ASSUME NEW o \in Node, NEW k \in Key, Del(o, k) PROVE FALSE
  BY <1>2 DEF Del
<1>3. ASSUME NEW o \in Node, NEW m \in Node, StartSync(o, m) PROVE FALSE
  BY <1>3 DEF StartSync, Inv
<1>4. ASSUME NEW o \in Node, NEW m \in Node, Serve(m, o) PROVE FALSE
  BY <1>4 DEF Serve, Inv, GoodLoop, Loop
<1>5. ASSUME NEW o \in Node, Merge(o) PROVE Merge(n)
  <2>1. CASE o = n
    BY <1>5, <2>1
  <2>2. CASE o # n
    BY <1>5, <2>2 DEF Merge, Inv
  <2> QED BY <2>1, <2>2
<1>6. ASSUME NEW o \in Node, SourceGone(o) PROVE FALSE
  BY <1>6 DEF SourceGone, Inv
<1>7. ASSUME NEW o \in Node, Restart(o) PROVE FALSE
  BY <1>7 DEF Restart, Idle
<1>8. CASE UNCHANGED vars
  BY <1>8 DEF vars
<1> QED BY <1>1, <1>2, <1>3, <1>4, <1>5, <1>6, <1>7, <1>8 DEF Next

\* What such a step does, in the terms of Merged.
LEMMA FinishIsMerge ==
  ASSUME Inv, [Next]_vars, NEW n \in Node, Finished(n)
  PROVE  \E r \in Received(sync[n].dump) :
            /\ SoundPair(r)
            /\ \E m \in Merged(store[n], r[1], r[2]) :
                  store'[n] = m[1] /\ sync'[n].result = m[2]
<1>1. Merge(n)
  BY OnlyMergeFinishes
<1>2. PICK r \in Received(sync[n].dump) :
         \E m \in Merged(store[n], r[1], r[2]) :
            store' = [store EXCEPT ![n] = m[1]] /\ sync' = [sync EXCEPT ![n] = Idle(m[2])]
  BY <1>1 DEF Merge
<1>3. SoundPair(r)
  BY ReceivedIsSound DEF Inv, GoodLoop, Loop
<1>4. \E m \in Merged(store[n], r[1], r[2]) :
         store'[n] = m[1] /\ sync'[n].result = m[2]
  BY <1>2 DEF Inv, Idle
<1> QED BY <1>3, <1>4

\* MergeNeverRollsBack: a merge of any dump, even one cut short and even one that
\* finds no room, keeps every key, replaces an item only by a newer one and
\* changes no value under the same stamp (kv_store_sync_client.hpp:260-295).
THEOREM MergesNeverRollBack == Spec => MergeNeverRollsBack
<1> DEFINE Keeps(n) ==
              \A k \in DOMAIN store[n] :
                  /\ k \in DOMAIN store'[n]
                  /\ \/ store'[n][k] = store[n][k]
                     \/ store'[n][k].timestamp > store[n][k].timestamp
<1>1. ASSUME Inv, [Next]_vars, NEW n \in Node, Finished(n) PROVE Keeps(n)
  <2>1. PICK r \in Received(sync[n].dump) :
           /\ SoundPair(r)
           /\ \E m \in Merged(store[n], r[1], r[2]) :
                 store'[n] = m[1] /\ sync'[n].result = m[2]
    BY <1>1, FinishIsMerge
  <2>2. IsStore(store[n])
    BY <1>1 DEF Inv, GoodStore
  <2> QED BY <2>1, <2>2, MergedIsSound
<1>2. Inv /\ [Next]_vars => [\A n \in Node : Finished(n) => Keeps(n)]_vars
  BY <1>1
<1> QED BY <1>2, Invariance, PTL DEF Spec, MergeNeverRollsBack

\* SyncIsComplete: a SYNC that answers SUCCESS to a dump that arrived whole has
\* missed nothing a client wrote: each item of the dump is there now with its
\* value and timestamp, or a strictly newer one of its key is, or the server
\* has kept its own item of the same timestamp (kv_store_sync_client.hpp:251-310).
THEOREM SyncsAreComplete ==
  ASSUME ~MayCut
  PROVE  Spec => SyncIsComplete
<1> DEFINE Complete(n) == \A e \in sync[n].dump : e.key # Junk => Has(n, e)
<1>1. ASSUME Inv, [Next]_vars, NEW n \in Node, Finished(n), sync[n]'.result = "SUCCESS"
      PROVE  Complete(n)
  <2> DEFINE s == store[n]
             dump == sync[n].dump
  <2>1. PICK r \in Received(dump) :
           /\ SoundPair(r)
           /\ \E m \in Merged(s, r[1], r[2]) : store'[n] = m[1] /\ sync'[n].result = m[2]
    BY <1>1, FinishIsMerge
  <2>2. /\ IsStore(s) /\ dump \subseteq Entry /\ OneEntryPerKey(dump)
        /\ Genuine(dump, written) /\ written \subseteq ClientItem
    BY <1>1 DEF Inv, GoodStore, GoodLoop, Loop
  <2>3. store'[n] = Join(Join(s, r[1]), r[2])
    BY <1>1, <2>1, <2>2, MergedIsSound
  <2> SUFFICES ASSUME NEW e \in dump, e.key # Junk PROVE Has(n, e)
    OBVIOUS
  <2>4. PICK read \in Parsed(dump) : r = <<read, {}>>
    BY DEF Received
  <2>5. e \in read
    <3>1. e.value # Blank
      BY <2>2 DEF Genuine, ClientItem
    <3> QED BY <2>2, <2>4, <3>1, ParsedIsSound
  <2> DEFINE j == Join(s, read)
  <2>6. read \subseteq Entry /\ OneEntryPerKey(read)
    BY <2>1, <2>4 DEF SoundPair
  <2>7. /\ e.key \in DOMAIN j
        /\ \/ j[e.key] = [value |-> e.value, timestamp |-> e.timestamp]
           \/ j[e.key].timestamp > e.timestamp
           \/ e.key \in DOMAIN s /\ j[e.key] = s[e.key] /\ j[e.key].timestamp = e.timestamp
    BY <2>2, <2>5, <2>6, JoinCovers
  <2>8. e.key \in DOMAIN store'[n] /\ store'[n][e.key] = j[e.key]
    <3>1. store'[n] = Join(j, {})
      BY <2>3, <2>4
    <3>2. IsStore(j)
      BY <2>2, <2>6, JoinIsStore
    <3>3. e.key \in DOMAIN Join(j, {})
      BY <2>7, <3>2, JoinIsStore
    <3>4. Join(j, {})[e.key] = j[e.key]
      BY <3>2, <3>3, JoinAt
    <3> QED BY <3>1, <3>3, <3>4
  <2> QED BY <2>7, <2>8 DEF Has
<1>2. Inv /\ [Next]_vars =>
         [\A n \in Node : Finished(n) /\ sync[n]'.result = "SUCCESS" => Complete(n)]_vars
  BY <1>1
<1> QED BY <1>2, Invariance, PTL DEF Spec, SyncIsComplete
===============================================================================
