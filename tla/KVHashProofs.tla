----------------------------- MODULE KVHashProofs -----------------------------
(***************************************************************************)
(* Proofs about the hash engine, for every hash function, every set of     *)
(* keys, values and timestamps and every number of chains.                 *)
(***************************************************************************)
EXTENDS KVHash, FiniteSetTheorems, TLAPS

\* The inductive invariant: the invariants themselves, and that there are
\* finitely many nodes.  The positions behind a linked or an unlinked node
\* shift, so the proofs count the places that are taken, not the nodes: a link
\* takes one place more at the end of its chain, an unlink gives that one back.
Inv ==
    /\ TypeOK
    /\ IsFiniteSet(Nodes) /\ CountIsExact
    /\ ChainsAreSound

USE SlotAssumption, HashAssumption

\* A node is known by its chain and its place in it.
Places(t) == UNION {{<<s, i>> : i \in DOMAIN t[s]} : s \in Slots}

\* What ChainsAreSound says of a table: a key is where its hash says, and no
\* other place of that chain has it.
SoundChain(chain, s) ==
    /\ \A i \in DOMAIN chain : Hash[chain[i].key] = s
    /\ \A i, j \in DOMAIN chain : chain[i].key = chain[j].key => i = j
SoundTable(t) == \A s \in Slots : SoundChain(t[s], s)

\* T is S and one more.
OneMore(S, T) == \E p : p \notin S /\ T = S \cup {p}

\* What SET, DEL and MOD make of a table.
Linked(t, h, node) == [t EXCEPT ![h] = <<node>> \o @]
Unlinked(t, h, i) == [t EXCEPT ![h] = RemoveAt(@, i)]
Changed(t, h, i, node) == [t EXCEPT ![h][i] = node]

LEMMA PlacesOf ==
    ASSUME NEW t, NEW s, NEW i
    PROVE  <<s, i>> \in Places(t) <=> s \in Slots /\ i \in DOMAIN t[s]
BY DEF Places

LEMMA SoundIsSound == ChainsAreSound <=> SoundTable(table)
<1>1. ASSUME ChainsAreSound
      PROVE  SoundTable(table)
  <2>1. ASSUME NEW s \in Slots, NEW i \in DOMAIN table[s]
        PROVE  Hash[table[s][i].key] = s
    <3>1. <<s, i>> \in Nodes
      BY DEF Nodes
    <3> QED
      BY <1>1, <3>1 DEF ChainsAreSound, NodeAt
  <2>2. ASSUME NEW s \in Slots, NEW i \in DOMAIN table[s], NEW j \in DOMAIN table[s],
               table[s][i].key = table[s][j].key
        PROVE  i = j
    <3>1. <<s, i>> \in Nodes /\ <<s, j>> \in Nodes
      BY DEF Nodes
    <3> QED
      BY <1>1, <2>2, <3>1 DEF ChainsAreSound, NodeAt
  <2> QED
    BY <2>1, <2>2 DEF SoundTable, SoundChain
<1>2. ASSUME SoundTable(table)
      PROVE  ChainsAreSound
  <2>1. ASSUME NEW m \in Nodes
        PROVE  \E s \in Slots : \E i \in DOMAIN table[s] : m = <<s, i>>
    BY DEF Nodes
  <2>2. \A n \in Nodes : Hash[NodeAt(n).key] = n[1]
    BY <1>2, <2>1 DEF SoundTable, SoundChain, NodeAt
  <2>3. ASSUME NEW m \in Nodes, NEW n \in Nodes, NodeAt(m).key = NodeAt(n).key
        PROVE  m = n
    <3>1. m[1] = n[1]
      BY <2>2, <2>3
    <3> QED
      BY <1>2, <2>1, <2>3, <3>1 DEF SoundTable, SoundChain, NodeAt
  <2> QED
    BY <2>2, <2>3 DEF ChainsAreSound
<1> QED
  BY <1>1, <1>2

-------------------------------------------------------------------------------
\* A node linked at the head: every other node moves one place, and the places
\* taken are one more.
LEMMA Linking ==
    ASSUME NEW t \in [Slots -> Seq(Node)], NEW h \in Slots, NEW node \in Node
    PROVE  LET u == Linked(t, h, node)
           IN  /\ u \in [Slots -> Seq(Node)]
               /\ OneMore(Places(t), Places(u))
               /\ (SoundTable(t) /\ Hash[node.key] = h /\ \A i \in DOMAIN t[h] : t[h][i].key # node.key)
                     => SoundTable(u)
<1> DEFINE chain == <<node>> \o t[h]
<1> DEFINE u == Linked(t, h, node)
<1>1. chain \in Seq(Node) /\ Len(chain) = Len(t[h]) + 1 /\ DOMAIN chain = 1 .. Len(t[h]) + 1
  OBVIOUS
<1>2. chain[1] = node /\ \A i \in 2 .. Len(t[h]) + 1 : chain[i] = t[h][i - 1]
  OBVIOUS
<1>3. t[h] \in Seq(Node) /\ Len(t[h]) \in Nat /\ DOMAIN t[h] = 1 .. Len(t[h])
  OBVIOUS
<1>4. u = [t EXCEPT ![h] = chain]
  BY DEF Linked
<1> HIDE DEF chain, u
<1>5. u \in [Slots -> Seq(Node)] /\ u[h] = chain /\ \A s \in Slots : s = h \/ u[s] = t[s]
  BY <1>1, <1>4
<1>6. OneMore(Places(t), Places(u))
  <2>1. <<h, Len(t[h]) + 1>> \notin Places(t)
    BY <1>3, PlacesOf
  <2>2. DOMAIN u[h] = DOMAIN t[h] \cup {Len(t[h]) + 1}
    BY <1>1, <1>3, <1>5
  <2>3. Places(u) = Places(t) \cup {<<h, Len(t[h]) + 1>>}
    BY <1>5, <2>2 DEF Places
  <2> QED
    BY <2>1, <2>3 DEF OneMore
<1>7. ASSUME SoundTable(t), Hash[node.key] = h, \A i \in DOMAIN t[h] : t[h][i].key # node.key
      PROVE  SoundTable(u)
  <2>1. \A i \in DOMAIN chain : i = 1 \/ (i - 1 \in DOMAIN t[h] /\ chain[i] = t[h][i - 1])
    BY <1>1, <1>2, <1>3
  <2>2. SoundChain(t[h], h)
    BY <1>7 DEF SoundTable
  <2>3. \A i \in DOMAIN chain : Hash[chain[i].key] = h
    BY <1>2, <1>7, <2>1, <2>2 DEF SoundChain
  <2>4. ASSUME NEW i \in DOMAIN chain, NEW j \in DOMAIN chain, chain[i].key = chain[j].key
        PROVE  i = j
    <3>1. i \in Nat /\ j \in Nat
      BY <1>1, <1>3
    <3>2. CASE i = 1 /\ j # 1
      BY <1>2, <1>7, <2>1, <2>4, <3>2
    <3>3. CASE j = 1 /\ i # 1
      BY <1>2, <1>7, <2>1, <2>4, <3>3
    <3>4. CASE i # 1 /\ j # 1
      <4>1. i - 1 \in DOMAIN t[h] /\ j - 1 \in DOMAIN t[h] /\ t[h][i - 1].key = t[h][j - 1].key
        BY <2>1, <2>4, <3>4
      <4>2. i - 1 = j - 1
        BY <2>2, <4>1 DEF SoundChain
      <4> QED
        BY <3>1, <4>2
    <3> QED
      BY <3>2, <3>3, <3>4
  <2>5. SoundChain(chain, h)
    BY <2>3, <2>4 DEF SoundChain
  <2> QED
    BY <1>5, <1>7, <2>5 DEF SoundTable
<1> QED
  BY <1>5, <1>6, <1>7 DEF u

LEMMA Removal ==
    ASSUME NEW S, NEW s \in Seq(S), NEW i \in 1 .. Len(s)
    PROVE  /\ RemoveAt(s, i) \in Seq(S) /\ Len(RemoveAt(s, i)) = Len(s) - 1
           /\ DOMAIN RemoveAt(s, i) = 1 .. Len(s) - 1
           /\ \A j \in 1 .. Len(s) - 1 : RemoveAt(s, i)[j] = IF j < i THEN s[j] ELSE s[j + 1]
<1> DEFINE a == SubSeq(s, 1, i - 1)
<1> DEFINE b == SubSeq(s, i + 1, Len(s))
<1>1. a \in Seq(S) /\ Len(a) = i - 1 /\ \A j \in 1 .. i - 1 : a[j] = s[j]
  OBVIOUS
<1>2. b \in Seq(S) /\ Len(b) = Len(s) - i /\ \A j \in 1 .. Len(s) - i : b[j] = s[j + i]
  OBVIOUS
<1>3. RemoveAt(s, i) = a \o b
  BY DEF RemoveAt
<1> HIDE DEF a, b
<1>4. a \o b \in Seq(S) /\ Len(a \o b) = Len(s) - 1 /\ DOMAIN (a \o b) = 1 .. Len(s) - 1
  <2>0. a \in Seq(S) /\ b \in Seq(S)
    BY <1>1, <1>2
  <2>1. a \o b \in Seq(S) /\ Len(a \o b) = Len(a) + Len(b)
    BY <2>0
  <2>3. DOMAIN (a \o b) = 1 .. Len(a \o b)
    BY <2>1
  <2>2. Len(a) + Len(b) = Len(s) - 1
    BY <1>1, <1>2
  <2> QED
    BY <2>1, <2>2, <2>3
<1>5. \A j \in 1 .. Len(s) - 1 : (a \o b)[j] = IF j < i THEN a[j] ELSE b[j - (i - 1)]
  BY <1>1, <1>2
<1>6. ASSUME NEW j \in 1 .. Len(s) - 1
      PROVE  (a \o b)[j] = IF j < i THEN s[j] ELSE s[j + 1]
  <2>1. CASE j < i
    BY <1>1, <1>5, <2>1
  <2>2. CASE ~(j < i)
    <3>1. j - (i - 1) \in 1 .. Len(s) - i /\ j - (i - 1) + i = j + 1
      BY <2>2
    <3> QED
      BY <1>2, <1>5, <2>2, <3>1, Zenon
  <2> QED
    BY <2>1, <2>2
<1> QED
  BY <1>3, <1>4, <1>6

\* A node unlinked: the nodes behind it move up, and the last place is free.
LEMMA Unlinking ==
    ASSUME NEW t \in [Slots -> Seq(Node)], NEW h \in Slots, NEW i \in DOMAIN t[h]
    PROVE  LET u == Unlinked(t, h, i)
           IN  /\ u \in [Slots -> Seq(Node)]
               /\ OneMore(Places(u), Places(t))
               /\ SoundTable(t) => SoundTable(u)
<1> DEFINE chain == RemoveAt(t[h], i)
<1> DEFINE u == Unlinked(t, h, i)
<1>1. t[h] \in Seq(Node) /\ Len(t[h]) \in Nat /\ DOMAIN t[h] = 1 .. Len(t[h]) /\ i \in 1 .. Len(t[h])
  OBVIOUS
<1>2. /\ chain \in Seq(Node) /\ Len(chain) = Len(t[h]) - 1 /\ DOMAIN chain = 1 .. Len(t[h]) - 1
      /\ \A j \in 1 .. Len(t[h]) - 1 : chain[j] = IF j < i THEN t[h][j] ELSE t[h][j + 1]
  BY <1>1, Removal, Zenon
<1>3. u = [t EXCEPT ![h] = chain]
  BY DEF Unlinked
<1> HIDE DEF chain, u
<1>4. u \in [Slots -> Seq(Node)] /\ u[h] = chain /\ \A s \in Slots : s = h \/ u[s] = t[s]
  BY <1>2, <1>3
<1>5. OneMore(Places(u), Places(t))
  <2>1. DOMAIN t[h] = DOMAIN u[h] \cup {Len(t[h])} /\ Len(t[h]) \notin DOMAIN u[h]
    BY <1>1, <1>2, <1>4
  <2>2. <<h, Len(t[h])>> \notin Places(u)
    BY <2>1, PlacesOf
  <2>3. Places(t) = Places(u) \cup {<<h, Len(t[h])>>}
    BY <1>4, <2>1 DEF Places
  <2> QED
    BY <2>2, <2>3 DEF OneMore
<1>6. ASSUME SoundTable(t)
      PROVE  SoundTable(u)
  <2> DEFINE old(j) == IF j < i THEN j ELSE j + 1
  <2>1. \A j \in DOMAIN chain : old(j) \in DOMAIN t[h] /\ chain[j] = t[h][old(j)]
    BY <1>1, <1>2
  <2>2. \A j, k \in DOMAIN chain : old(j) = old(k) => j = k
    BY <1>1, <1>2
  <2> HIDE DEF old
  <2>3. SoundChain(t[h], h)
    BY <1>6 DEF SoundTable
  <2>4. SoundChain(chain, h)
    BY <2>1, <2>2, <2>3 DEF SoundChain
  <2> QED
    BY <1>4, <1>6, <2>4 DEF SoundTable
<1> QED
  BY <1>4, <1>5, <1>6 DEF u

\* A value replaced in its place.
LEMMA Replacing ==
    ASSUME NEW t \in [Slots -> Seq(Node)], NEW h \in Slots, NEW i \in DOMAIN t[h],
           NEW node \in Node, node.key = t[h][i].key
    PROVE  LET u == Changed(t, h, i, node)
           IN  /\ u \in [Slots -> Seq(Node)]
               /\ Places(u) = Places(t)
               /\ SoundTable(t) => SoundTable(u)
<1> DEFINE chain == [t[h] EXCEPT ![i] = node]
<1> DEFINE u == Changed(t, h, i, node)
<1>1. t[h] \in Seq(Node) /\ DOMAIN t[h] = 1 .. Len(t[h]) /\ Len(t[h]) \in Nat
  OBVIOUS
<1>2. /\ chain \in Seq(Node) /\ DOMAIN chain = DOMAIN t[h]
      /\ \A j \in DOMAIN chain : chain[j].key = t[h][j].key
  BY <1>1
<1>3. u = [t EXCEPT ![h] = chain]
  BY DEF Changed
<1> HIDE DEF chain, u
<1>4. u \in [Slots -> Seq(Node)] /\ u[h] = chain /\ \A s \in Slots : s = h \/ u[s] = t[s]
  BY <1>2, <1>3
<1>5. Places(u) = Places(t)
  <2>1. \A s \in Slots : DOMAIN u[s] = DOMAIN t[s]
    BY <1>2, <1>4
  <2> QED
    BY <2>1 DEF Places
<1>6. ASSUME SoundTable(t)
      PROVE  SoundTable(u)
  <2>1. SoundChain(t[h], h)
    BY <1>6 DEF SoundTable
  <2>2. SoundChain(chain, h)
    BY <1>2, <2>1 DEF SoundChain
  <2> QED
    BY <1>4, <1>6, <2>2 DEF SoundTable
<1> QED
  BY <1>4, <1>5, <1>6 DEF u

-------------------------------------------------------------------------------
LEMMA InitInv == Init => Inv
<1> SUFFICES ASSUME Init PROVE Inv
  OBVIOUS
<1>1. up \in BOOLEAN /\ degraded \in BOOLEAN
  BY Zenon DEF Init
<1>2. {up, degraded} \subseteq BOOLEAN
  BY <1>1, Zenon
<1>3. table = [s \in Slots |-> <<>>] /\ count = 0
  BY DEF Init
<1>4. <<>> \in Seq(Node) /\ DOMAIN <<>> = {}
  OBVIOUS
<1>5. table \in [Slots -> Seq(Node)] /\ \A s \in Slots : DOMAIN table[s] = {}
  BY <1>3, <1>4
<1>6. Nodes = {}
  BY <1>5 DEF Nodes
<1>7. IsFiniteSet(Nodes) /\ Cardinality(Nodes) = 0
  BY <1>6, FS_EmptySet
<1>8. ChainsAreSound
  BY <1>6 DEF ChainsAreSound
<1> QED
  BY <1>2, <1>3, <1>5, <1>7, <1>8 DEF Inv, TypeOK, CountIsExact

\* A command that links, unlinks or replaces one node keeps the invariant.
LEMMA StepInv ==
    ASSUME Inv, up' \in BOOLEAN, degraded' \in BOOLEAN,
           table' \in [Slots -> Seq(Node)],
           \/ OneMore(Places(table), Places(table')) /\ count' = count + 1
           \/ OneMore(Places(table'), Places(table)) /\ count' = count - 1
           \/ Places(table') = Places(table) /\ count' = count,
           SoundTable(table')
    PROVE  Inv'
<1>1. Nodes = Places(table) /\ Nodes' = Places(table')
  BY DEF Nodes, Places
<1>2. IsFiniteSet(Nodes) /\ count = Cardinality(Nodes) /\ count \in Nat
  BY DEF Inv, CountIsExact, TypeOK
<1>3. IsFiniteSet(Nodes') /\ count' = Cardinality(Nodes') /\ count' \in Nat
  <2>1. CASE OneMore(Nodes, Nodes') /\ count' = count + 1
    <3>1. PICK p : Nodes' = Nodes \cup {p} /\ p \notin Nodes
      BY <2>1 DEF OneMore
    <3>2. IsFiniteSet(Nodes') /\ Cardinality(Nodes') = Cardinality(Nodes) + 1
      BY <1>2, <3>1, FS_AddElement
    <3> QED
      BY <1>2, <2>1, <3>2
  <2>2. CASE OneMore(Nodes', Nodes) /\ count' = count - 1
    <3>1. PICK p : p \in Nodes /\ Nodes' = Nodes \ {p}
      BY <2>2 DEF OneMore
    <3>2. IsFiniteSet(Nodes') /\ Cardinality(Nodes') = Cardinality(Nodes) - 1
      BY <1>2, <3>1, FS_RemoveElement
    <3>3. Cardinality(Nodes') \in Nat
      BY <3>2, FS_CardinalityType
    <3> QED
      BY <1>2, <2>2, <3>2, <3>3
  <2>3. CASE Nodes' = Nodes /\ count' = count
    BY <1>2, <2>3
  <2> QED
    BY <1>1, <2>1, <2>2, <2>3
<1>4. {up', degraded'} \subseteq BOOLEAN
  BY Zenon
<1>5. ChainsAreSound'
  <2>1. ASSUME NEW m \in Nodes'
        PROVE  \E s \in Slots : \E i \in DOMAIN table'[s] : m = <<s, i>>
    BY <1>1 DEF Places
  <2>2. \A n \in Nodes' : Hash[table'[n[1]][n[2]].key] = n[1]
    BY <2>1 DEF SoundTable, SoundChain
  <2>3. ASSUME NEW m \in Nodes', NEW n \in Nodes',
               table'[m[1]][m[2]].key = table'[n[1]][n[2]].key
        PROVE  m = n
    <3>1. Hash[table'[m[1]][m[2]].key] = m[1] /\ Hash[table'[n[1]][n[2]].key] = n[1]
      BY <2>2
    <3>2. m[1] = n[1]
      BY <2>3, <3>1
    <3>3. PICK s \in Slots : \E i \in DOMAIN table'[s] : m = <<s, i>>
      BY <2>1
    <3>4. PICK i \in DOMAIN table'[s] : m = <<s, i>>
      BY <3>3
    <3>5. PICK j \in DOMAIN table'[s] : n = <<s, j>>
      BY <2>1, <3>2, <3>4
    <3> QED
      BY <2>3, <3>4, <3>5 DEF SoundTable, SoundChain
  <2> QED
    BY <2>2, <2>3 DEF ChainsAreSound, NodeAt
<1> QED
  BY <1>3, <1>4, <1>5 DEF Inv, TypeOK, CountIsExact

\* A command that leaves the table alone.
LEMMA QueryInv ==
    ASSUME Inv, UNCHANGED <<table, count>>, up' \in BOOLEAN, degraded' \in BOOLEAN
    PROVE  Inv'
BY SoundIsSound, StepInv DEF Inv, TypeOK

LEMMA BooleansOf ==
    ASSUME Inv
    PROVE  up \in BOOLEAN /\ degraded \in BOOLEAN
BY Zenon DEF Inv, TypeOK

LEMMA UndefinedInv ==
    ASSUME Inv, Undefined
    PROVE  Inv'
<1>1. up' \in BOOLEAN /\ degraded' \in BOOLEAN
  BY BooleansOf, Zenon DEF Undefined
<1> QED
  BY <1>1, QueryInv DEF Undefined

LEMMA SetInv ==
    ASSUME Inv, NEW k \in Key, NEW v \in Value, NEW t \in Time, Set(k, v, t)
    PROVE  Inv'
<1>1. up' \in BOOLEAN /\ degraded' \in BOOLEAN
  BY BooleansOf DEF Set
<1>2. CASE UNCHANGED <<table, count>>
  BY <1>1, <1>2, QueryInv
<1>3. CASE /\ Missing(k) /\ count' = count + 1
           /\ table' = [table EXCEPT ![Hash[k]] = <<NewNode(k, v, t)>> \o @]
  <2> DEFINE h == Hash[k]
  <2> DEFINE node == NewNode(k, v, t)
  <2> DEFINE new == table'
  <2>1. node \in Node /\ node.key = k /\ h \in Slots
    BY DEF NewNode, Node, Slots
  <2>2. table \in [Slots -> Seq(Node)] /\ SoundTable(table)
    BY SoundIsSound DEF Inv, TypeOK
  <2>3. \A i \in DOMAIN table[h] : table[h][i].key # node.key
    BY <1>3, <2>1 DEF Missing
  <2>4. Hash[node.key] = h
    BY <2>1
  <2>5. new = Linked(table, h, node)
    BY <1>3 DEF Linked
  <2> HIDE DEF node, h, new
  <2>6. /\ new \in [Slots -> Seq(Node)] /\ SoundTable(new)
        /\ OneMore(Places(table), Places(new))
    BY <2>1, <2>2, <2>3, <2>4, <2>5, Linking
  <2> QED
    BY <1>1, <1>3, <2>6, StepInv DEF new
<1> QED
  BY <1>2, <1>3 DEF Set

LEMMA DelInv ==
    ASSUME Inv, NEW k \in Key, Del(k)
    PROVE  Inv'
<1>1. CASE UNCHANGED <<table, count, up, degraded>>
  BY <1>1, BooleansOf, QueryInv
<1>2. CASE Undefined
  BY <1>2, UndefinedInv
<1>3. ASSUME NEW i \in DOMAIN table[Hash[k]],
             table' = [table EXCEPT ![Hash[k]] = RemoveAt(@, i)],
             count' = count - 1, UNCHANGED <<up, degraded>>
      PROVE  Inv'
  <2> DEFINE h == Hash[k]
  <2> DEFINE new == table'
  <2>1. h \in Slots /\ table \in [Slots -> Seq(Node)] /\ SoundTable(table)
    BY SoundIsSound DEF Inv, TypeOK, Slots
  <2>2. i \in DOMAIN table[h] /\ new = Unlinked(table, h, i)
    BY <1>3 DEF Unlinked
  <2> HIDE DEF h, new
  <2>3. /\ new \in [Slots -> Seq(Node)] /\ SoundTable(new)
        /\ OneMore(Places(new), Places(table))
    BY <2>1, <2>2, Unlinking
  <2>4. up' \in BOOLEAN /\ degraded' \in BOOLEAN
    BY <1>3, BooleansOf
  <2> QED
    BY <1>3, <2>3, <2>4, StepInv DEF new
<1> QED
  BY <1>1, <1>2, <1>3 DEF Del

LEMMA ModInv ==
    ASSUME Inv, NEW k \in Key, NEW v \in Value, NEW t \in Time, Mod(k, v, t)
    PROVE  Inv'
<1>1. CASE UNCHANGED <<table, count, up, degraded>>
  BY <1>1, BooleansOf, QueryInv
<1>2. CASE Undefined
  BY <1>2, UndefinedInv
<1>3. ASSUME NEW i \in DOMAIN table[Hash[k]], Found(k, i),
             \/ table' = [table EXCEPT ![Hash[k]][i] = NewNode(k, v, t)] /\ UNCHANGED degraded
             \/ /\ table' = [table EXCEPT ![Hash[k]][i] =
                                NewNode(k, Freed, table[Hash[k]][i].timestamp)]
                /\ degraded' = TRUE,
             UNCHANGED <<count, up>>
      PROVE  Inv'
  <2> DEFINE h == Hash[k]
  <2> DEFINE new == table'
  <2>1. h \in Slots /\ table \in [Slots -> Seq(Node)] /\ SoundTable(table)
    BY SoundIsSound DEF Inv, TypeOK, Slots
  <2>2. i \in DOMAIN table[h] /\ table[h][i].key = k
    BY <1>3 DEF Found
  <2>3. table[h][i] \in Node
    BY <2>1, <2>2
  <2>4. table[h][i].timestamp \in Time
    BY <2>3 DEF Node
  <2>5. /\ NewNode(k, v, t) \in Node /\ NewNode(k, v, t).key = k
        /\ NewNode(k, Freed, table[h][i].timestamp) \in Node
        /\ NewNode(k, Freed, table[h][i].timestamp).key = k
    BY <2>4 DEF NewNode, Node
  <2>6. \/ new = Changed(table, h, i, NewNode(k, v, t))
        \/ new = Changed(table, h, i, NewNode(k, Freed, table[h][i].timestamp))
    BY <1>3 DEF Changed
  <2> HIDE DEF h, new
  <2>7. PICK node \in Node : node.key = table[h][i].key /\ new = Changed(table, h, i, node)
    BY <2>2, <2>5, <2>6
  <2>8. /\ new \in [Slots -> Seq(Node)] /\ SoundTable(new)
        /\ Places(new) = Places(table)
    BY <2>1, <2>2, <2>7, Replacing
  <2>9. up' \in BOOLEAN /\ degraded' \in BOOLEAN
    BY <1>3, BooleansOf, Zenon
  <2> QED
    BY <1>3, <2>8, <2>9, StepInv DEF new
<1> QED
  BY <1>1, <1>2, <1>3 DEF Mod

LEMMA NextInv == Inv /\ [Next]_vars => Inv'
<1> SUFFICES ASSUME Inv, [Next]_vars PROVE Inv'
  OBVIOUS
<1>1. CASE UNCHANGED vars
  BY <1>1, BooleansOf, QueryInv DEF vars
<1>2. ASSUME NEW k \in Key, NEW v \in Value, NEW t \in Time, Set(k, v, t) \/ Mod(k, v, t)
      PROVE  Inv'
  BY <1>2, SetInv, ModInv
<1>3. ASSUME NEW k \in Key, Get(k) \/ Exist(k)
      PROVE  Inv'
  <2>1. CASE UNCHANGED <<table, count, up, degraded>>
    BY <2>1, BooleansOf, QueryInv
  <2> QED
    BY <1>3, <2>1, UndefinedInv DEF Get, Exist
<1>4. ASSUME NEW k \in Key, Del(k)
      PROVE  Inv'
  BY <1>4, DelInv
<1>5. ASSUME NEW a \in Key, NEW b \in Key, RangeQuery(a, b)
      PROVE  Inv'
  <2>1. CASE UNCHANGED <<table, count, up>> /\ (degraded' = TRUE \/ degraded' = degraded)
    <3>1. up' \in BOOLEAN /\ degraded' \in BOOLEAN
      BY <2>1, BooleansOf, Zenon
    <3> QED
      BY <2>1, <3>1, QueryInv
  <2> QED
    BY <1>5, <2>1, UndefinedInv DEF RangeQuery
<1>6. ASSUME GetAll
      PROVE  Inv'
  <2>1. CASE UNCHANGED <<table, count, up>> /\ (degraded' = (degraded \/ count > 0) \/ degraded' = degraded)
    <3>1. up' \in BOOLEAN /\ degraded' \in BOOLEAN
      BY <2>1, BooleansOf, Zenon
    <3> QED
      BY <2>1, <3>1, QueryInv
  <2> QED
    BY <1>6, <2>1, UndefinedInv DEF GetAll
<1> QED
  BY <1>1, <1>2, <1>3, <1>4, <1>5, <1>6 DEF Next

LEMMA Invariance == Spec => []Inv
BY InitInv, NextInv, PTL DEF Spec

\* Whatever the keys hash to and whichever allocations fail, the chains hold
\* nodes only and the counter never goes below zero.
THEOREM TypeCorrect == Spec => []TypeOK
<1>1. Inv => TypeOK
  BY DEF Inv
<1> QED
  BY <1>1, Invariance, PTL

\* count is the number of linked nodes after every history of commands: RANGE
\* and the dump, which size their buffers with it, never write past them.
THEOREM CountsAreExact == Spec => []CountIsExact
<1>1. Inv => CountIsExact
  BY DEF Inv
<1> QED
  BY <1>1, Invariance, PTL

\* A key is linked at most once, in the chain its hash names, failed
\* allocations included.
THEOREM ChainsStaySound == Spec => []ChainsAreSound
<1>1. Inv => ChainsAreSound
  BY DEF Inv
<1> QED
  BY <1>1, Invariance, PTL

-------------------------------------------------------------------------------
(***************************************************************************)
(* The hash engine implements the abstract store.  Where a node is linked  *)
(* does not matter to the map, so the proof goes through the set of the    *)
(* nodes that are linked.                                                  *)
(***************************************************************************)
USE KeyAssumption, FreedAssumption

\* The nodes of a chain, and of a table.
NodesOf(chain) == {chain[i] : i \in DOMAIN chain}
NodesIn(t) == UNION {NodesOf(t[s]) : s \in Slots}

\* The map that a set of nodes with different keys stands for.
Stamped(node) == [value |-> node.value, timestamp |-> node.timestamp]
KeysIn(S) == {node.key : node \in S}
Distinct(S) == \A m, n \in S : m.key = n.key => m = n
MapOf(S) == [k \in KeysIn(S) |-> Stamped(CHOOSE n \in S : n.key = k)]

\* The same map, looked up by place: StoreMap of a table.
MapIn(t) ==
    [k \in {t[p[1]][p[2]].key : p \in Places(t)} |->
        Stamped(t[(CHOOSE p \in Places(t) : t[p[1]][p[2]].key = k)[1]]
                 [(CHOOSE p \in Places(t) : t[p[1]][p[2]].key = k)[2]])]

LEMMA StoreIs == StoreMap = MapIn(table) /\ StoreMap' = MapIn(table')
BY DEF StoreMap, MapIn, Places, Nodes, NodeAt, Stamped

LEMMA NodeIn ==
    ASSUME NEW t, NEW x
    PROVE  x \in NodesIn(t) <=> \E s \in Slots : \E i \in DOMAIN t[s] : x = t[s][i]
BY DEF NodesIn, NodesOf

\* Each place holds a node, and each node has a place.
LEMMA PlaceHolds ==
    ASSUME NEW t
    PROVE  /\ \A p \in Places(t) : t[p[1]][p[2]] \in NodesIn(t)
           /\ \A x \in NodesIn(t) : \E p \in Places(t) : x = t[p[1]][p[2]]
<1>1. ASSUME NEW p \in Places(t)
      PROVE  t[p[1]][p[2]] \in NodesIn(t)
  <2>1. PICK s \in Slots : \E i \in DOMAIN t[s] : p = <<s, i>>
    BY DEF Places
  <2> QED
    BY <2>1, NodeIn
<1>2. ASSUME NEW x \in NodesIn(t)
      PROVE  \E p \in Places(t) : x = t[p[1]][p[2]]
  <2>1. PICK s \in Slots : \E i \in DOMAIN t[s] : x = t[s][i]
    BY NodeIn
  <2>2. PICK i \in DOMAIN t[s] : x = t[s][i]
    BY <2>1
  <2>3. <<s, i>> \in Places(t)
    BY PlacesOf
  <2> QED
    BY <2>2, <2>3
<1> QED
  BY <1>1, <1>2

\* Looking up by place or by node is the same.
LEMMA MapInIsMapOf ==
    ASSUME NEW t, Distinct(NodesIn(t))
    PROVE  MapIn(t) = MapOf(NodesIn(t))
<1>1. {t[p[1]][p[2]].key : p \in Places(t)} = KeysIn(NodesIn(t))
  BY PlaceHolds DEF KeysIn
<1>2. ASSUME NEW k \in KeysIn(NodesIn(t))
      PROVE  MapIn(t)[k] = MapOf(NodesIn(t))[k]
  <2> DEFINE p == CHOOSE p \in Places(t) : t[p[1]][p[2]].key = k
  <2> DEFINE n == CHOOSE n \in NodesIn(t) : n.key = k
  <2>1. \E q \in Places(t) : t[q[1]][q[2]].key = k
    BY <1>1
  <2>2. p \in Places(t) /\ t[p[1]][p[2]].key = k
    BY <2>1, Zenon
  <2>3. \E m \in NodesIn(t) : m.key = k
    BY DEF KeysIn
  <2>4. n \in NodesIn(t) /\ n.key = k
    BY <2>3
  <2>5. MapIn(t)[k] = Stamped(t[p[1]][p[2]])
    BY <1>1, Zenon DEF MapIn
  <2>6. MapOf(NodesIn(t))[k] = Stamped(n)
    BY DEF MapOf
  <2> HIDE DEF p, n
  <2>7. t[p[1]][p[2]] = n
    BY <2>2, <2>4, PlaceHolds DEF Distinct
  <2> QED
    BY <2>5, <2>6, <2>7
<1> QED
  BY <1>1, <1>2, Zenon DEF MapIn, MapOf

\* A node that is linked is what the map has for its key.
LEMMA MapAt ==
    ASSUME NEW S, Distinct(S), NEW n \in S
    PROVE  n.key \in KeysIn(S) /\ MapOf(S)[n.key] = Stamped(n)
<1>1. n.key \in KeysIn(S)
  BY DEF KeysIn
<1> DEFINE m == CHOOSE m \in S : m.key = n.key
<1>2. m \in S /\ m.key = n.key
  OBVIOUS
<1>3. m = n
  BY <1>2 DEF Distinct
<1>4. MapOf(S)[n.key] = Stamped(m)
  BY <1>1 DEF MapOf
<1> QED
  BY <1>1, <1>3, <1>4

\* A function with the keys and the items of a set of nodes is its map.
LEMMA MapIs ==
    ASSUME NEW S, Distinct(S), NEW K, NEW f, K = KeysIn(S), \A n \in S : f[n.key] = Stamped(n)
    PROVE  MapOf(S) = [x \in K |-> f[x]]
<1>1. ASSUME NEW x \in KeysIn(S)
      PROVE  MapOf(S)[x] = f[x]
  <2>1. PICK n \in S : x = n.key
    BY DEF KeysIn
  <2>2. MapOf(S)[x] = Stamped(n)
    BY <2>1, MapAt
  <2> QED
    BY <2>1, <2>2
<1> QED
  BY <1>1 DEF MapOf

LEMMA MapIsFunction ==
    ASSUME NEW S
    PROVE  MapOf(S) = [x \in KeysIn(S) |-> MapOf(S)[x]]
BY DEF MapOf

\* One node more, with a key of its own.
LEMMA MapWith ==
    ASSUME NEW S, Distinct(S), NEW node, NEW k, k = node.key, k \notin KeysIn(S),
           NEW T, T = S \cup {node}
    PROVE  /\ Distinct(T)
           /\ KeysIn(T) = KeysIn(S) \cup {k}
           /\ MapOf(T)[k] = Stamped(node)
           /\ \A x \in KeysIn(S) : x = k \/ MapOf(T)[x] = MapOf(S)[x]
<1> DEFINE U == S \cup {node}
<1> DEFINE f == [x \in KeysIn(S) \cup {k} |-> IF x = k THEN Stamped(node) ELSE MapOf(S)[x]]
<1> DEFINE K == KeysIn(S) \cup {k}
<1>1. \A n \in S : n.key \in KeysIn(S) /\ n.key # k
  BY DEF KeysIn
<1>2. Distinct(U)
  BY <1>1 DEF Distinct
<1>3. K = KeysIn(U)
  BY DEF KeysIn
<1>4. \A n \in U : f[n.key] = Stamped(n)
  BY <1>1, MapAt
<1> HIDE DEF f, K, U
<1>5. MapOf(U) = [x \in K |-> f[x]]
  BY <1>2, <1>3, <1>4, MapIs
<1> QED
  BY <1>2, <1>3, <1>5 DEF f, K, U

\* One node less.
LEMMA MapWithout ==
    ASSUME NEW S, Distinct(S), NEW node \in S, NEW k, k = node.key, NEW T, T = S \ {node}
    PROVE  /\ Distinct(T)
           /\ KeysIn(T) = KeysIn(S) \ {k}
           /\ MapOf(T) = [x \in KeysIn(S) \ {k} |-> MapOf(S)[x]]
<1> DEFINE U == S \ {node}
<1> DEFINE K == KeysIn(S) \ {k}
<1> DEFINE f == MapOf(S)
<1>1. Distinct(U)
  BY DEF Distinct
<1>2. K = KeysIn(U)
  BY DEF KeysIn, Distinct
<1>3. \A n \in U : f[n.key] = Stamped(n)
  BY MapAt
<1> HIDE DEF f, K, U
<1>4. MapOf(U) = [x \in K |-> f[x]]
  BY <1>1, <1>2, <1>3, MapIs
<1> QED
  BY <1>1, <1>2, <1>4 DEF f, K, U

\* Another node for the same key.
LEMMA MapWithAnother ==
    ASSUME NEW S, Distinct(S), NEW old \in S, NEW node, NEW k, old.key = k, node.key = k,
           NEW T, T = (S \ {old}) \cup {node}
    PROVE  /\ Distinct(T)
           /\ KeysIn(T) = KeysIn(S) \cup {k}
           /\ MapOf(T)[k] = Stamped(node)
           /\ \A x \in KeysIn(S) : x = k \/ MapOf(T)[x] = MapOf(S)[x]
<1> DEFINE U == (S \ {old}) \cup {node}
<1> DEFINE f == [x \in KeysIn(S) \cup {k} |-> IF x = k THEN Stamped(node) ELSE MapOf(S)[x]]
<1> DEFINE K == KeysIn(S) \cup {k}
<1>1. \A n \in S : n.key \in KeysIn(S) /\ (n # old => n.key # k)
  BY DEF KeysIn, Distinct
<1>2. Distinct(U)
  BY <1>1 DEF Distinct
<1>3. K = KeysIn(U)
  <2>1. \A n \in U : n.key \in K
    BY <1>1
  <2>2. \A x \in K : \E n \in U : x = n.key
    BY DEF KeysIn
  <2> HIDE DEF K
  <2> QED
    BY <2>1, <2>2 DEF KeysIn
<1>4. \A n \in U : f[n.key] = Stamped(n)
  BY <1>1, MapAt
<1> HIDE DEF f, K, U
<1>5. MapOf(U) = [x \in K |-> f[x]]
  BY <1>2, <1>3, <1>4, MapIs
<1> QED
  BY <1>2, <1>3, <1>5 DEF f, K, U

-------------------------------------------------------------------------------
\* What SET, DEL and MOD make of the set of nodes.
LEMMA LinkedNodes ==
    ASSUME NEW t \in [Slots -> Seq(Node)], NEW h \in Slots, NEW node \in Node
    PROVE  NodesIn(Linked(t, h, node)) = NodesIn(t) \cup {node}
<1> DEFINE chain == <<node>> \o t[h]
<1> DEFINE u == Linked(t, h, node)
<1>1. t[h] \in Seq(Node) /\ Len(t[h]) \in Nat /\ DOMAIN t[h] = 1 .. Len(t[h])
  OBVIOUS
<1>2. /\ DOMAIN chain = 1 .. Len(t[h]) + 1 /\ chain[1] = node
      /\ \A i \in 1 .. Len(t[h]) : chain[i + 1] = t[h][i]
  OBVIOUS
<1>3. u = [t EXCEPT ![h] = chain]
  BY DEF Linked
<1> HIDE DEF chain, u
<1>4. u[h] = chain /\ \A s \in Slots : s = h \/ u[s] = t[s]
  BY <1>3
<1>5. \A i \in DOMAIN chain : i = 1 \/ \E j \in 1 .. Len(t[h]) : i = j + 1
  <2>1. ASSUME NEW i \in DOMAIN chain, i # 1
        PROVE  i - 1 \in 1 .. Len(t[h]) /\ i = (i - 1) + 1
    BY <1>1, <1>2, <2>1
  <2> QED
    BY <2>1
<1>6. 1 \in DOMAIN chain /\ \A j \in 1 .. Len(t[h]) : j + 1 \in DOMAIN chain
  BY <1>1, <1>2
<1>7. NodesOf(chain) = NodesOf(t[h]) \cup {node}
  <2>1. \A i \in DOMAIN chain : chain[i] = node \/ \E j \in DOMAIN t[h] : chain[i] = t[h][j]
    BY <1>1, <1>2, <1>5
  <2>2. \A j \in DOMAIN t[h] : \E i \in DOMAIN chain : chain[i] = t[h][j]
    BY <1>1, <1>2, <1>6
  <2>3. \E i \in DOMAIN chain : chain[i] = node
    BY <1>2, <1>6
  <2> QED
    BY <2>1, <2>2, <2>3 DEF NodesOf
<1>8. NodesIn(u) = NodesIn(t) \cup {node}
  BY <1>4, <1>7 DEF NodesIn
<1> QED
  BY <1>8 DEF u

LEMMA UnlinkedNodes ==
    ASSUME NEW t \in [Slots -> Seq(Node)], SoundTable(t), NEW h \in Slots, NEW i \in DOMAIN t[h]
    PROVE  NodesIn(Unlinked(t, h, i)) = NodesIn(t) \ {t[h][i]}
<1> DEFINE chain == RemoveAt(t[h], i)
<1> DEFINE u == Unlinked(t, h, i)
<1> DEFINE node == t[h][i]
<1>1. t[h] \in Seq(Node) /\ Len(t[h]) \in Nat /\ DOMAIN t[h] = 1 .. Len(t[h]) /\ i \in 1 .. Len(t[h])
  OBVIOUS
<1>2. /\ DOMAIN chain = 1 .. Len(t[h]) - 1
      /\ \A j \in 1 .. Len(t[h]) - 1 : chain[j] = IF j < i THEN t[h][j] ELSE t[h][j + 1]
  BY <1>1, Removal
<1>3. u = [t EXCEPT ![h] = chain]
  BY DEF Unlinked
<1> HIDE DEF chain, u
<1>4. u[h] = chain /\ \A s \in Slots : s = h \/ u[s] = t[s]
  BY <1>3
<1>5. \A j \in DOMAIN chain : \E k \in DOMAIN t[h] : k # i /\ chain[j] = t[h][k]
  <2>1. ASSUME NEW j \in DOMAIN chain, j < i
        PROVE  j \in DOMAIN t[h] /\ j # i /\ chain[j] = t[h][j]
    BY <1>1, <1>2, <2>1
  <2>2. ASSUME NEW j \in DOMAIN chain, ~(j < i)
        PROVE  j + 1 \in DOMAIN t[h] /\ j + 1 # i /\ chain[j] = t[h][j + 1]
    BY <1>1, <1>2, <2>2
  <2> QED
    BY <2>1, <2>2
<1>6. \A k \in DOMAIN t[h] : k # i => \E j \in DOMAIN chain : chain[j] = t[h][k]
  <2>1. ASSUME NEW k \in DOMAIN t[h], k < i
        PROVE  k \in DOMAIN chain /\ chain[k] = t[h][k]
    BY <1>1, <1>2, <2>1
  <2>2. ASSUME NEW k \in DOMAIN t[h], k > i
        PROVE  k - 1 \in DOMAIN chain /\ chain[k - 1] = t[h][k]
    <3>1. k - 1 \in 1 .. Len(t[h]) - 1 /\ ~(k - 1 < i) /\ (k - 1) + 1 = k
      BY <1>1, <2>2
    <3> QED
      BY <1>2, <3>1
  <2>3. \A k \in DOMAIN t[h] : k < i \/ k = i \/ k > i
    BY <1>1
  <2> QED
    BY <2>1, <2>2, <2>3
<1>7. \A k \in DOMAIN t[h] : t[h][k] = node => k = i
  BY DEF SoundTable, SoundChain
<1>8. NodesOf(chain) = NodesOf(t[h]) \ {node}
  BY <1>5, <1>6, <1>7 DEF NodesOf
<1>9. \A s \in Slots : s # h => node \notin NodesOf(t[s])
  BY DEF NodesOf, SoundTable, SoundChain
<1> HIDE DEF node
<1>10. NodesIn(u) = NodesIn(t) \ {node}
  BY <1>4, <1>8, <1>9 DEF NodesIn
<1> QED
  BY <1>10 DEF u, node

LEMMA ChangedNodes ==
    ASSUME NEW t \in [Slots -> Seq(Node)], SoundTable(t), NEW h \in Slots, NEW i \in DOMAIN t[h],
           NEW node
    PROVE  NodesIn(Changed(t, h, i, node)) = (NodesIn(t) \ {t[h][i]}) \cup {node}
<1> DEFINE chain == [t[h] EXCEPT ![i] = node]
<1> DEFINE u == Changed(t, h, i, node)
<1> DEFINE old == t[h][i]
<1>1. /\ DOMAIN chain = DOMAIN t[h] /\ chain[i] = node
      /\ \A j \in DOMAIN t[h] : j = i \/ chain[j] = t[h][j]
  OBVIOUS
<1>2. u = [t EXCEPT ![h] = chain]
  BY DEF Changed
<1> HIDE DEF chain, u
<1>3. u[h] = chain /\ \A s \in Slots : s = h \/ u[s] = t[s]
  BY <1>2
<1>4. \A k \in DOMAIN t[h] : t[h][k] = old => k = i
  BY DEF SoundTable, SoundChain
<1>5. NodesOf(chain) = (NodesOf(t[h]) \ {old}) \cup {node}
  BY <1>1, <1>4 DEF NodesOf
<1>6. \A s \in Slots : s # h => old \notin NodesOf(t[s])
  BY DEF NodesOf, SoundTable, SoundChain
<1> HIDE DEF old
<1>7. NodesIn(u) = (NodesIn(t) \ {old}) \cup {node}
  BY <1>3, <1>5, <1>6 DEF NodesIn
<1> QED
  BY <1>7 DEF u, old

-------------------------------------------------------------------------------
\* No value is a freed pointer until a MOD has found no memory.
Healthy == degraded \/ \A n \in NodesIn(table) : n.value # Freed

LEMMA StoreHolds ==
    ASSUME Inv
    PROVE  /\ StoreMap = MapOf(NodesIn(table))
           /\ Distinct(NodesIn(table))
           /\ DOMAIN StoreMap = KeysIn(NodesIn(table))
           /\ \A n \in NodesIn(table) : /\ n.key \in DOMAIN StoreMap
                                        /\ StoreMap[n.key] = Stamped(n)
           /\ \A k \in DOMAIN StoreMap : \E n \in NodesIn(table) : n.key = k
<1>1. Distinct(NodesIn(table))
  <2>1. SoundTable(table)
    BY SoundIsSound DEF Inv
  <2>2. SUFFICES ASSUME NEW m \in NodesIn(table), NEW n \in NodesIn(table), m.key = n.key
                 PROVE  m = n
    BY DEF Distinct
  <2>3. PICK s \in Slots : \E i \in DOMAIN table[s] : m = table[s][i]
    BY NodeIn
  <2>4. PICK r \in Slots : \E j \in DOMAIN table[r] : n = table[r][j]
    BY NodeIn
  <2>5. s = r
    BY <2>1, <2>2, <2>3, <2>4 DEF SoundTable, SoundChain
  <2> QED
    BY <2>1, <2>2, <2>3, <2>4, <2>5 DEF SoundTable, SoundChain
<1>2. StoreMap = MapOf(NodesIn(table))
  BY <1>1, StoreIs, MapInIsMapOf
<1>3. DOMAIN StoreMap = KeysIn(NodesIn(table))
  BY <1>2 DEF MapOf
<1>4. \A n \in NodesIn(table) : n.key \in DOMAIN StoreMap /\ StoreMap[n.key] = Stamped(n)
  BY <1>1, <1>2, <1>3, MapAt
<1>5. \A k \in DOMAIN StoreMap : \E n \in NodesIn(table) : n.key = k
  BY <1>3 DEF KeysIn
<1> QED
  BY <1>1, <1>2, <1>3, <1>4, <1>5

LEMMA ShapeOf ==
    ASSUME Inv, NEW k \in Key
    PROVE  table \in [Slots -> Seq(Node)] /\ SoundTable(table) /\ Hash[k] \in Slots
BY SoundIsSound, SlotAssumption, HashAssumption DEF Inv, TypeOK, Slots

\* A search of the chain the hash names finds every key of the map.
LEMMA PresentIsFound ==
    ASSUME Inv, NEW k \in Key
    PROVE  Missing(k) <=> k \notin DOMAIN StoreMap
<1>1. SoundTable(table) /\ Hash[k] \in Slots
  BY ShapeOf
<1>2. ASSUME NEW n \in NodesIn(table), n.key = k
      PROVE  ~Missing(k)
  <2>1. PICK s \in Slots : \E i \in DOMAIN table[s] : n = table[s][i]
    BY NodeIn
  <2>2. s = Hash[k]
    BY <1>1, <1>2, <2>1 DEF SoundTable, SoundChain
  <2> QED
    BY <1>2, <2>1, <2>2 DEF Missing
<1>3. ASSUME ~Missing(k)
      PROVE  k \in DOMAIN StoreMap
  <2>1. PICK i \in DOMAIN table[Hash[k]] : table[Hash[k]][i].key = k
    BY <1>3 DEF Missing
  <2>2. table[Hash[k]][i] \in NodesIn(table)
    BY <1>1, NodeIn
  <2> QED
    BY <2>1, <2>2, StoreHolds
<1> QED
  BY <1>2, <1>3, StoreHolds

\* The node a search stops at is the one the map has for the key.
LEMMA FoundIsPresent ==
    ASSUME Inv, NEW k \in Key, NEW i \in DOMAIN table[Hash[k]], Found(k, i)
    PROVE  /\ k \in DOMAIN StoreMap
           /\ table[Hash[k]][i] \in NodesIn(table) /\ table[Hash[k]][i].key = k
           /\ StoreMap[k] = Stamped(table[Hash[k]][i])
<1>1. Hash[k] \in Slots
  BY ShapeOf
<1>2. table[Hash[k]][i] \in NodesIn(table) /\ table[Hash[k]][i].key = k
  BY <1>1, NodeIn DEF Found
<1> QED
  BY <1>2, StoreHolds

\* The map after a step is that of the nodes after it.
LEMMA StoreBecomes ==
    ASSUME NEW T, T = NodesIn(table'), Distinct(T)
    PROVE  StoreMap' = MapOf(T)
BY StoreIs, MapInIsMapOf

\* The step gives k the value v and the time t.
Putting(k, v, t) ==
    StoreMap' = [x \in DOMAIN StoreMap \cup {k} |->
                    IF x = k THEN [value |-> v, timestamp |-> t] ELSE StoreMap[x]]

LEMMA LinkPuts ==
    ASSUME Inv, NEW k \in Key, NEW v \in Value, NEW t \in Time, Missing(k),
           table' = [table EXCEPT ![Hash[k]] = <<NewNode(k, v, t)>> \o @]
    PROVE  /\ Putting(k, v, t)
           /\ NodesIn(table') = NodesIn(table) \cup {NewNode(k, v, t)}
<1> DEFINE S == NodesIn(table)
<1> DEFINE new == table'
<1> DEFINE h == Hash[k]
<1> DEFINE T == NodesIn(new)
<1> DEFINE node == NewNode(k, v, t)
<1>1. node \in Node /\ node.key = k
  BY DEF NewNode, Node
<1>0. Stamped(node) = [value |-> v, timestamp |-> t]
  BY DEF NewNode, Stamped
<1>2. T = S \cup {node}
  <2>1. table \in [Slots -> Seq(Node)] /\ h \in Slots
    BY ShapeOf
  <2>2. new = Linked(table, h, node)
    BY DEF Linked
  <2> HIDE DEF h, new, node
  <2> QED
    BY <1>1, <2>1, <2>2, LinkedNodes
<1>3. Distinct(S) /\ StoreMap = MapOf(S) /\ DOMAIN StoreMap = KeysIn(S) /\ k \notin KeysIn(S)
  BY StoreHolds, PresentIsFound
<1> HIDE DEF S, T, new, h, node
<1>4. /\ Distinct(T) /\ KeysIn(T) = KeysIn(S) \cup {k} /\ MapOf(T)[k] = Stamped(node)
      /\ \A x \in KeysIn(S) : x = k \/ MapOf(T)[x] = MapOf(S)[x]
  BY <1>1, <1>2, <1>3, MapWith
<1>5. StoreMap' = MapOf(T)
  BY <1>4, StoreBecomes DEF T, new
<1>6. StoreMap' = [x \in DOMAIN StoreMap \cup {k} |->
                      IF x = k THEN [value |-> v, timestamp |-> t] ELSE StoreMap[x]]
  <2> DEFINE M == MapOf(S)
  <2> DEFINE N == MapOf(T)
  <2>1. N = [x \in KeysIn(T) |-> N[x]]
    BY MapIsFunction
  <2> HIDE DEF M, N
  <2> QED
    BY <1>0, <1>3, <1>4, <1>5, <2>1 DEF M, N
<1>7. Putting(k, v, t)
  BY <1>6, Zenon DEF Putting
<1> QED
  BY <1>2, <1>7 DEF S, T, new, node

LEMMA UnlinkRemoves ==
    ASSUME Inv, NEW k \in Key, NEW i \in DOMAIN table[Hash[k]], Found(k, i),
           table' = [table EXCEPT ![Hash[k]] = RemoveAt(@, i)]
    PROVE  /\ StoreMap' = [x \in DOMAIN StoreMap \ {k} |-> StoreMap[x]]
           /\ NodesIn(table') \subseteq NodesIn(table)
<1> DEFINE S == NodesIn(table)
<1> DEFINE new == table'
<1> DEFINE h == Hash[k]
<1> DEFINE T == NodesIn(new)
<1> DEFINE node == table[Hash[k]][i]
<1>1. node \in S /\ node.key = k
  BY FoundIsPresent
<1>2. T = S \ {node}
  <2>1. table \in [Slots -> Seq(Node)] /\ SoundTable(table) /\ h \in Slots
    BY ShapeOf
  <2>2. i \in DOMAIN table[h] /\ node = table[h][i] /\ new = Unlinked(table, h, i)
    BY DEF Unlinked
  <2> HIDE DEF h, new, node
  <2> QED
    BY <2>1, <2>2, UnlinkedNodes
<1>3. Distinct(S) /\ StoreMap = MapOf(S) /\ DOMAIN StoreMap = KeysIn(S)
  BY StoreHolds
<1> HIDE DEF S, T, new, h, node
<1>4. Distinct(T) /\ MapOf(T) = [x \in KeysIn(S) \ {k} |-> MapOf(S)[x]]
  BY <1>1, <1>2, <1>3, MapWithout
<1>5. StoreMap' = MapOf(T)
  BY <1>4, StoreBecomes DEF T, new
<1>6. T \subseteq S
  BY <1>2
<1> QED
  BY <1>3, <1>4, <1>5, <1>6 DEF S, T, new

LEMMA ChangePuts ==
    ASSUME Inv, NEW k \in Key, NEW v \in Value, NEW t \in Time,
           NEW i \in DOMAIN table[Hash[k]], Found(k, i),
           table' = Changed(table, Hash[k], i, NewNode(k, v, t))
    PROVE  /\ Putting(k, v, t)
           /\ NodesIn(table') \subseteq NodesIn(table) \cup {NewNode(k, v, t)}
<1> DEFINE S == NodesIn(table)
<1> DEFINE new == table'
<1> DEFINE h == Hash[k]
<1> DEFINE T == NodesIn(new)
<1> DEFINE old == table[Hash[k]][i]
<1> DEFINE node == NewNode(k, v, t)
<1>1. old \in S /\ old.key = k
  BY FoundIsPresent
<1>2. node.key = k
  BY DEF NewNode
<1>0. Stamped(node) = [value |-> v, timestamp |-> t]
  BY DEF NewNode, Stamped
<1>3. T = (S \ {old}) \cup {node}
  <2>1. table \in [Slots -> Seq(Node)] /\ SoundTable(table) /\ h \in Slots
    BY ShapeOf
  <2>2. i \in DOMAIN table[h] /\ old = table[h][i] /\ new = Changed(table, h, i, node)
    OBVIOUS
  <2> HIDE DEF h, new, node, old
  <2> QED
    BY <2>1, <2>2, ChangedNodes
<1>4. Distinct(S) /\ StoreMap = MapOf(S) /\ DOMAIN StoreMap = KeysIn(S)
  BY StoreHolds
<1> HIDE DEF S, T, new, h, old, node
<1>5. /\ Distinct(T) /\ KeysIn(T) = KeysIn(S) \cup {k} /\ MapOf(T)[k] = Stamped(node)
      /\ \A x \in KeysIn(S) : x = k \/ MapOf(T)[x] = MapOf(S)[x]
  <2>1. Distinct(S) /\ old \in S
    BY <1>1, <1>4
  <2> QED
    BY <1>1, <1>2, <1>3, <2>1, MapWithAnother
<1>6. StoreMap' = MapOf(T)
  BY <1>5, StoreBecomes DEF T, new
<1>7. StoreMap' = [x \in DOMAIN StoreMap \cup {k} |->
                      IF x = k THEN [value |-> v, timestamp |-> t] ELSE StoreMap[x]]
  <2> DEFINE M == MapOf(S)
  <2> DEFINE N == MapOf(T)
  <2>1. N = [x \in KeysIn(T) |-> N[x]]
    BY MapIsFunction
  <2> HIDE DEF M, N
  <2> QED
    BY <1>0, <1>4, <1>5, <1>6, <2>1 DEF M, N
<1>8. T \subseteq S \cup {node}
  BY <1>3
<1>9. Putting(k, v, t)
  BY <1>7, Zenon DEF Putting
<1> QED
  BY <1>8, <1>9 DEF S, T, new, node

-------------------------------------------------------------------------------
\* The ways a MOD can end.
LEMMA ModDoes ==
    ASSUME NEW k \in Key, NEW v \in Value, NEW t \in Time, Mod(k, v, t)
    PROVE  \/ UNCHANGED <<table, degraded>> /\ Missing(k) /\ Answer("MOD", <<k, v, t>>, "ERROR")
           \/ \E i \in DOMAIN table[Hash[k]] :
                 /\ Found(k, i)
                 /\ \/ table[Hash[k]][i].value = Freed /\ UNCHANGED <<table, degraded>>
                    \/ degraded'
                    \/ /\ table' = Changed(table, Hash[k], i, NewNode(k, v, t))
                       /\ degraded' = degraded
                       /\ Answer("MOD", <<k, v, t>>, "SUCCESS")
<1>1. ModResponse(-2) = "ERROR" /\ ModResponse(0) = "SUCCESS"
  BY DEF ModResponse
<1> QED
  BY <1>1, Zenon DEF Mod, Undefined, Changed

\* A command that succeeds stores a value, never a freed pointer; one that
\* leaves a freed pointer behind breaks the promise.
LEMMA HealthyStays ==
    ASSUME Inv, Healthy, [Next]_vars
    PROVE  Healthy'
<1>1. ASSUME degraded'
      PROVE  Healthy'
  BY <1>1 DEF Healthy
<1>2. ASSUME ~degraded, \A n \in NodesIn(table') : n \in NodesIn(table) \/ n.value # Freed
      PROVE  Healthy'
  BY <1>2 DEF Healthy
<1>3. ASSUME UNCHANGED table, degraded => degraded'
      PROVE  Healthy'
  BY <1>1, <1>2, <1>3
<1>4. ASSUME NEW k \in Key, NEW v \in Value, NEW t \in Time, Set(k, v, t)
      PROVE  Healthy'
  <2>1. CASE UNCHANGED table
    BY <1>3, <1>4, <2>1 DEF Set
  <2>2. CASE /\ Missing(k) /\ ~degraded
             /\ table' = [table EXCEPT ![Hash[k]] = <<NewNode(k, v, t)>> \o @]
    <3>1. NodesIn(table') = NodesIn(table) \cup {NewNode(k, v, t)}
      BY <2>2, LinkPuts
    <3>2. NewNode(k, v, t).value # Freed
      BY DEF NewNode
    <3> QED
      BY <1>2, <2>2, <3>1, <3>2
  <2>3. CASE degraded
    BY <1>1, <1>4, <2>3 DEF Set
  <2> QED
    BY <1>4, <2>1, <2>2, <2>3 DEF Set
<1>5. ASSUME NEW k \in Key, NEW v \in Value, NEW t \in Time, Mod(k, v, t)
      PROVE  Healthy'
  <2>1. CASE UNCHANGED <<table, degraded>>
    BY <1>3, <2>1
  <2>2. ASSUME NEW i \in DOMAIN table[Hash[k]], Found(k, i), ~degraded,
               table' = Changed(table, Hash[k], i, NewNode(k, v, t))
        PROVE  Healthy'
    <3>1. NodesIn(table') \subseteq NodesIn(table) \cup {NewNode(k, v, t)}
      BY <2>2, ChangePuts
    <3>2. NewNode(k, v, t).value # Freed
      BY DEF NewNode
    <3> QED
      BY <1>2, <2>2, <3>1, <3>2
  <2>3. CASE degraded /\ UNCHANGED degraded
    BY <1>1, <2>3
  <2> QED
    BY <1>1, <1>5, <2>1, <2>2, <2>3, ModDoes, Zenon
<1>6. ASSUME NEW k \in Key, Del(k)
      PROVE  Healthy'
  <2>1. CASE UNCHANGED <<table, degraded>>
    BY <1>3, <2>1
  <2>2. ASSUME NEW i \in DOMAIN table[Hash[k]], Found(k, i), ~degraded,
               table' = [table EXCEPT ![Hash[k]] = RemoveAt(@, i)]
        PROVE  Healthy'
    <3>1. NodesIn(table') \subseteq NodesIn(table)
      BY <2>2, UnlinkRemoves
    <3> QED
      BY <1>2, <2>2, <3>1
  <2> QED
    BY <1>1, <1>6, <2>1, <2>2 DEF Del, Undefined
<1>7. ASSUME NEW k \in Key, Get(k) \/ Exist(k)
      PROVE  Healthy'
  BY <1>3, <1>7 DEF Get, Exist, Undefined
<1>8. ASSUME NEW a \in Key, NEW b \in Key, RangeQuery(a, b)
      PROVE  Healthy'
  BY <1>3, <1>8 DEF RangeQuery, Undefined
<1>9. ASSUME GetAll
      PROVE  Healthy'
  BY <1>3, <1>9 DEF GetAll, Undefined
<1>10. CASE UNCHANGED vars
  BY <1>3, <1>10 DEF vars
<1> QED
  BY <1>4, <1>5, <1>6, <1>7, <1>8, <1>9, <1>10 DEF Next

\* With no freed pointer, what is read is what is stored.
LEMMA NothingFreed ==
    ASSUME Inv, Healthy, ~degraded
    PROVE  /\ \A n \in NodesIn(table) : n.value # Freed
           /\ \A p \in Nodes : NodeAt(p).value # Freed
<1>1. \A p \in Places(table) : table[p[1]][p[2]] \in NodesIn(table)
  BY PlaceHolds
<1>2. Nodes = Places(table)
  BY DEF Nodes, Places
<1> QED
  BY <1>1, <1>2 DEF Healthy, NodeAt

LEMMA SetImplements ==
    ASSUME Inv, NEW k \in Key, NEW v \in Value, NEW t \in Time, Set(k, v, t)
    PROVE  Abs!Set(k, v, t)
<1>1. CASE UNCHANGED table /\ Answer("SET", <<k, v, t>>, "ERROR")
  <2>1. StoreMap' = StoreMap
    BY <1>1, StoreIs
  <2> QED
    BY <1>1, <2>1 DEF Abs!Set, Abs!Answer, Answer
<1>2. CASE UNCHANGED table /\ ~Missing(k) /\ Answer("SET", <<k, v, t>>, "EXIST")
  <2>1. StoreMap' = StoreMap
    BY <1>2, StoreIs
  <2>2. k \in DOMAIN StoreMap
    BY <1>2, PresentIsFound
  <2> QED
    BY <1>2, <2>1, <2>2 DEF Abs!Set, Abs!Answer, Abs!Present, Answer
<1>3. CASE /\ Missing(k) /\ Answer("SET", <<k, v, t>>, "SUCCESS")
           /\ table' = [table EXCEPT ![Hash[k]] = <<NewNode(k, v, t)>> \o @]
  <2>1. StoreMap' = [x \in DOMAIN StoreMap \cup {k} |->
                        IF x = k THEN [value |-> v, timestamp |-> t] ELSE StoreMap[x]]
    <3>1. Putting(k, v, t)
      BY <1>3, LinkPuts
    <3> QED
      BY <3>1, Zenon DEF Putting
  <2>2. k \notin DOMAIN StoreMap
    BY <1>3, PresentIsFound
  <2> QED
    BY <1>3, <2>1, <2>2 DEF Abs!Set, Abs!Put, Abs!Present, Abs!Answer, Answer
<1>4. SetResponse(-3) = "ERROR" /\ SetResponse(1) = "EXIST" /\ SetResponse(0) = "SUCCESS"
  BY DEF SetResponse
<1> QED
  BY <1>1, <1>2, <1>3, <1>4 DEF Set

LEMMA ModImplements ==
    ASSUME Inv, Healthy, ~degraded, ~degraded',
           NEW k \in Key, NEW v \in Value, NEW t \in Time, Mod(k, v, t)
    PROVE  Abs!Mod(k, v, t)
<1>1. CASE UNCHANGED table /\ Missing(k) /\ Answer("MOD", <<k, v, t>>, "ERROR")
  <2>1. StoreMap' = StoreMap
    BY <1>1, StoreIs
  <2>2. k \notin DOMAIN StoreMap
    BY <1>1, PresentIsFound
  <2> QED
    BY <1>1, <2>1, <2>2 DEF Abs!Mod, Abs!Answer, Abs!Present, Answer
<1>2. ASSUME NEW i \in DOMAIN table[Hash[k]], Found(k, i), Answer("MOD", <<k, v, t>>, "SUCCESS"),
             table' = Changed(table, Hash[k], i, NewNode(k, v, t))
      PROVE  Abs!Mod(k, v, t)
  <2>1. StoreMap' = [x \in DOMAIN StoreMap \cup {k} |->
                        IF x = k THEN [value |-> v, timestamp |-> t] ELSE StoreMap[x]]
    <3>1. Putting(k, v, t)
      BY <1>2, ChangePuts
    <3> QED
      BY <3>1, Zenon DEF Putting
  <2>2. k \in DOMAIN StoreMap
    BY <1>2, FoundIsPresent
  <2> QED
    BY <1>2, <2>1, <2>2 DEF Abs!Mod, Abs!Put, Abs!Present, Abs!Answer, Answer
<1>3. \A i \in DOMAIN table[Hash[k]] : Found(k, i) => table[Hash[k]][i].value # Freed
  BY FoundIsPresent, NothingFreed
<1> QED
  BY <1>1, <1>2, <1>3, ModDoes

LEMMA DelImplements ==
    ASSUME Inv, Healthy, ~degraded, NEW k \in Key, Del(k)
    PROVE  Abs!Del(k)
<1>1. CASE UNCHANGED table /\ Missing(k) /\ \E r \in {"ERROR", "SUCCESS"} : Answer("DEL", k, r)
  <2>1. StoreMap' = StoreMap
    BY <1>1, StoreIs
  <2>2. k \notin DOMAIN StoreMap
    BY <1>1, PresentIsFound
  <2> QED
    BY <1>1, <2>1, <2>2 DEF Abs!Del, Abs!Answer, Abs!Present, Answer
<1>2. ASSUME NEW i \in DOMAIN table[Hash[k]], Found(k, i), Answer("DEL", k, "SUCCESS"),
             table' = [table EXCEPT ![Hash[k]] = RemoveAt(@, i)]
      PROVE  Abs!Del(k)
  <2>1. StoreMap' = [x \in DOMAIN StoreMap \ {k} |-> StoreMap[x]]
    BY <1>2, UnlinkRemoves
  <2>2. k \in DOMAIN StoreMap
    BY <1>2, FoundIsPresent
  <2> QED
    BY <1>2, <2>1, <2>2 DEF Abs!Del, Abs!Without, Abs!Present, Abs!Answer, Answer
<1>3. \A i \in DOMAIN table[Hash[k]] : Found(k, i) => table[Hash[k]][i].value # Freed
  BY FoundIsPresent, NothingFreed
<1>4. DelResponse(-2) = "ERROR" /\ DelResponse(0) = "SUCCESS"
  BY DEF DelResponse
<1> QED
  BY <1>1, <1>2, <1>3, <1>4 DEF Del

LEMMA GetImplements ==
    ASSUME Inv, Healthy, ~degraded, NEW k \in Key, Get(k)
    PROVE  Abs!Get(k)
<1>1. \A i \in DOMAIN table[Hash[k]] : Found(k, i) => table[Hash[k]][i].value # Freed
  BY FoundIsPresent, NothingFreed
<1>2. StoreMap' = StoreMap
  BY <1>1, StoreIs DEF Get
<1>3. CASE Missing(k) /\ Answer("GET", k, "NO EXIST")
  <2>1. k \notin DOMAIN StoreMap
    BY <1>3, PresentIsFound
  <2> QED
    BY <1>2, <1>3, <2>1 DEF Abs!Get, Abs!Answer, Abs!Present, Answer
<1>4. ASSUME NEW i \in DOMAIN table[Hash[k]], Found(k, i),
             Answer("GET", k, table[Hash[k]][i].value)
      PROVE  Abs!Get(k)
  <2>1. k \in DOMAIN StoreMap /\ StoreMap[k].value = table[Hash[k]][i].value
    <3>1. k \in DOMAIN StoreMap /\ StoreMap[k] = Stamped(table[Hash[k]][i])
      BY <1>4, FoundIsPresent
    <3>2. Stamped(table[Hash[k]][i]).value = table[Hash[k]][i].value
      BY DEF Stamped
    <3> QED
      BY <3>1, <3>2
  <2> QED
    BY <1>2, <1>4, <2>1 DEF Abs!Get, Abs!Answer, Abs!Present, Answer
<1> QED
  BY <1>1, <1>3, <1>4 DEF Get

LEMMA ExistImplements ==
    ASSUME Inv, NEW k \in Key, Exist(k)
    PROVE  Abs!Exist(k)
<1>1. StoreMap' = StoreMap
  BY StoreIs DEF Exist
<1>2. Missing(k) <=> k \notin DOMAIN StoreMap
  BY PresentIsFound
<1>3. ExistResponse(-1) = "NO EXIST" /\ ExistResponse(0) = "EXIST"
  BY DEF ExistResponse
<1> QED
  BY <1>1, <1>2, <1>3 DEF Exist, Abs!Exist, Abs!Answer, Abs!Present, Answer

\* What is read from a node is what the map has for its key.
LEMMA ReadsMap ==
    ASSUME Inv, NEW n \in NodesIn(table)
    PROVE  /\ n.key \in DOMAIN StoreMap
           /\ StoreMap[n.key].value = n.value /\ StoreMap[n.key].timestamp = n.timestamp
<1>1. n.key \in DOMAIN StoreMap /\ StoreMap[n.key] = Stamped(n)
  BY StoreHolds
<1>2. Stamped(n).value = n.value /\ Stamped(n).timestamp = n.timestamp
  BY DEF Stamped
<1> QED
  BY <1>1, <1>2

\* The items RANGE collects are those the map has between the two keys.
LEMMA RangeIsBetween ==
    ASSUME Inv, NEW a \in Key, NEW b \in Key
    PROVE  {<<NodeAt(p).key, NodeAt(p).value>> : p \in InRange(a, b)} = Abs!Between(a, b)
<1> DEFINE items == {<<NodeAt(p).key, NodeAt(p).value>> : p \in InRange(a, b)}
<1>1. Nodes = Places(table)
  BY DEF Nodes, Places
<1>2. \A n \in NodesIn(table) : n.key \in DOMAIN StoreMap /\ StoreMap[n.key].value = n.value
  BY ReadsMap
<1>3. ASSUME NEW i \in items
      PROVE  i \in Abs!Between(a, b)
  <2>1. PICK p \in InRange(a, b) : i = <<NodeAt(p).key, NodeAt(p).value>>
    OBVIOUS
  <2>2. p \in Nodes /\ a <= NodeAt(p).key /\ NodeAt(p).key <= b
    BY DEF InRange
  <2>3. NodeAt(p) \in NodesIn(table)
    BY <1>1, <2>2, PlaceHolds DEF NodeAt
  <2> QED
    BY <1>2, <2>1, <2>2, <2>3 DEF Abs!Between, Abs!Present
<1>4. ASSUME NEW i \in Abs!Between(a, b)
      PROVE  i \in items
  <2>1. PICK k \in DOMAIN StoreMap : a <= k /\ k <= b /\ i = <<k, StoreMap[k].value>>
    BY DEF Abs!Between, Abs!Present
  <2>2. PICK n \in NodesIn(table) : n.key = k
    BY StoreHolds
  <2>3. PICK p \in Nodes : n = NodeAt(p)
    BY <1>1, <2>2, PlaceHolds DEF NodeAt
  <2>4. p \in InRange(a, b)
    BY <2>1, <2>2, <2>3 DEF InRange
  <2> QED
    BY <1>2, <2>1, <2>2, <2>3, <2>4
<1> QED
  BY <1>3, <1>4

LEMMA SortedAlike ==
    ASSUME NEW S
    PROVE  SortByKey(S) = Abs!SortByKey(S)
BY DEF SortByKey, Abs!SortByKey, Cardinality, Abs!Cardinality

\* A RANGE that reads freed memory says nothing, and the map stays as it was.
LEMMA RangeImplements ==
    ASSUME Inv, ~degraded', NEW a \in Key, NEW b \in Key, RangeQuery(a, b)
    PROVE  Abs!RangeQuery(a, b) \/ Undefined
<1> DEFINE items == {<<NodeAt(p).key, NodeAt(p).value>> : p \in InRange(a, b)}
<1>1. items = Abs!Between(a, b)
  BY RangeIsBetween
<1>2. items = {} <=> InRange(a, b) = {}
  OBVIOUS
<1>3. a \in Int /\ b \in Int /\ (a > b <=> ~(a <= b))
  OBVIOUS
<1>4. RangeResponse(-2) = "ERROR" /\ RangeResponse(1) = "EMPTY"
  BY DEF RangeResponse
<1>5. UNCHANGED table => StoreMap' = StoreMap
  BY StoreIs
<1>6. CASE UNCHANGED table /\ a > b /\ Answer("RANGE", <<a, b>>, "ERROR")
  BY <1>3, <1>5, <1>6 DEF Abs!RangeQuery, Abs!Answer, Answer
<1>7. CASE UNCHANGED table /\ a <= b /\ items = {} /\ Answer("RANGE", <<a, b>>, "EMPTY")
  BY <1>1, <1>3, <1>5, <1>7 DEF Abs!RangeQuery, Abs!Answer, Answer
<1>8. CASE UNCHANGED table /\ a <= b /\ items # {} /\ Answer("RANGE", <<a, b>>, SortByKey(items))
  <2>1. SortByKey(items) = Abs!SortByKey(Abs!Between(a, b))
    BY <1>1, SortedAlike
  <2> HIDE DEF items
  <2> QED
    BY <1>1, <1>3, <1>5, <1>8, <2>1 DEF Abs!RangeQuery, Abs!Answer, Answer
<1> QED
  BY <1>2, <1>4, <1>6, <1>7, <1>8 DEF RangeQuery

\* The dump holds the items of the map.
LEMMA DumpIsMap ==
    ASSUME Inv
    PROVE  {<<NodeAt(p).key, NodeAt(p).value, NodeAt(p).timestamp>> : p \in Nodes} =
           {<<k, StoreMap[k].value, StoreMap[k].timestamp>> : k \in DOMAIN StoreMap}
<1>1. Nodes = Places(table)
  BY DEF Nodes, Places
<1>2. \A p \in Nodes : NodeAt(p) \in NodesIn(table)
  BY <1>1, PlaceHolds DEF NodeAt
<1>3. \A p \in Nodes : /\ NodeAt(p).key \in DOMAIN StoreMap
                       /\ StoreMap[NodeAt(p).key].value = NodeAt(p).value
                       /\ StoreMap[NodeAt(p).key].timestamp = NodeAt(p).timestamp
  BY <1>2, ReadsMap
<1>4. \A k \in DOMAIN StoreMap : \E p \in Nodes : NodeAt(p).key = k
  <2>1. ASSUME NEW k \in DOMAIN StoreMap
        PROVE  \E p \in Nodes : NodeAt(p).key = k
    <3>1. PICK n \in NodesIn(table) : n.key = k
      BY StoreHolds
    <3> QED
      BY <1>1, <3>1, PlaceHolds DEF NodeAt
  <2> QED
    BY <2>1
<1> QED
  BY <1>3, <1>4

\* count, the number of nodes, is zero exactly when the map is empty.
LEMMA CountTells ==
    ASSUME Inv
    PROVE  count > 0 <=> DOMAIN StoreMap # {}
<1>1. count \in Nat
  BY DEF Inv, TypeOK
<1>2. count = 0 <=> Nodes = {}
  <2>1. count = Cardinality(Nodes) /\ IsFiniteSet(Nodes)
    BY DEF Inv, CountIsExact
  <2> QED
    BY <2>1, FS_EmptySet
<1>3. Nodes = {} <=> DOMAIN StoreMap = {}
  BY DEF StoreMap
<1>4. count > 0 <=> count # 0
  BY <1>1
<1> QED
  BY <1>2, <1>3, <1>4, Zenon

LEMMA GetAllImplements ==
    ASSUME Inv, Healthy, ~degraded, ~degraded', GetAll
    PROVE  Abs!GetAll
<1>1. \A p \in Nodes : NodeAt(p).value # Freed
  BY NothingFreed
<1>2. StoreMap' = StoreMap
  BY <1>1, StoreIs DEF GetAll
<1>3. CASE Answer("GETALL", 0, "EMPTY") /\ ~(count > 0)
  <2>1. DOMAIN StoreMap = {}
    BY <1>3, CountTells
  <2> QED
    BY <1>2, <1>3, <2>1 DEF Abs!GetAll, Abs!Answer, Abs!Present, Answer
<1>4. CASE /\ count > 0
           /\ Answer("GETALL", 0,
                     {<<NodeAt(p).key, NodeAt(p).value, NodeAt(p).timestamp>> : p \in Nodes})
  <2>1. DOMAIN StoreMap # {}
    BY <1>4, CountTells
  <2>2. Answer("GETALL", 0,
               {<<k, StoreMap[k].value, StoreMap[k].timestamp>> : k \in DOMAIN StoreMap})
    BY <1>4, DumpIsMap
  <2> QED
    BY <1>2, <2>1, <2>2 DEF Abs!GetAll, Abs!Answer, Abs!Present, Answer
<1> QED
  BY <1>1, <1>3, <1>4 DEF GetAll

-------------------------------------------------------------------------------
LEMMA InitImplements == Init => Abs!Init /\ Healthy
<1> SUFFICES ASSUME Init PROVE Abs!Init /\ Healthy
  OBVIOUS
<1>1. \A s \in Slots : DOMAIN table[s] = {}
  BY DEF Init
<1>2. Places(table) = {} /\ NodesIn(table) = {}
  BY <1>1 DEF Places, NodesIn, NodesOf
<1>3. MapIn(table) = [x \in {} |-> 0]
  BY <1>2 DEF MapIn
<1>4. StoreMap = [x \in {} |-> 0]
  BY <1>3, StoreIs
<1>5. Abs!Init
  BY <1>4 DEF Init, Abs!Init
<1> QED
  BY <1>2, <1>5 DEF Healthy

\* A promise once broken stays broken.
LEMMA BrokenStays ==
    ASSUME [Next]_vars, degraded
    PROVE  degraded'
<1>1. ASSUME NEW k \in Key, NEW v \in Value, NEW t \in Time, Set(k, v, t)
      PROVE  degraded'
  BY <1>1 DEF Set
<1>2. ASSUME NEW k \in Key, NEW v \in Value, NEW t \in Time, Mod(k, v, t)
      PROVE  degraded'
  BY <1>2, ModDoes, Zenon
<1>3. ASSUME NEW k \in Key, Get(k) \/ Exist(k)
      PROVE  degraded'
  BY <1>3 DEF Get, Exist, Undefined
<1>4. ASSUME NEW k \in Key, Del(k)
      PROVE  degraded'
  BY <1>4, Zenon DEF Del, Undefined
<1>5. ASSUME NEW a \in Key, NEW b \in Key, RangeQuery(a, b)
      PROVE  degraded'
  BY <1>5, Zenon DEF RangeQuery, Undefined
<1>6. ASSUME GetAll
      PROVE  degraded'
  BY <1>6, Zenon DEF GetAll, Undefined
<1>7. CASE UNCHANGED vars
  BY <1>7 DEF vars
<1> QED
  BY <1>1, <1>2, <1>3, <1>4, <1>5, <1>6, <1>7 DEF Next

LEMMA NextImplements ==
    ASSUME Inv, Inv', Healthy, [Next]_vars
    PROVE  [Abs!Next]_(Abs!vars)
<1>1. CASE degraded'
  BY <1>1 DEF Abs!Next
<1>2. CASE ~degraded'
  <2>1. ~degraded
    BY <1>2, BrokenStays
  <2>2. degraded' = degraded
    BY <1>2, <2>1, BooleansOf, Zenon DEF Inv, TypeOK
  <2>3. ASSUME NEW k \in Key, NEW v \in Value, NEW t \in Time, Set(k, v, t) \/ Mod(k, v, t)
        PROVE  Abs!Command
    BY <1>2, <2>1, <2>3, SetImplements, ModImplements DEF Abs!Command
  <2>4. ASSUME NEW k \in Key, Get(k) \/ Del(k) \/ Exist(k)
        PROVE  Abs!Command
    BY <2>1, <2>4, GetImplements, DelImplements, ExistImplements DEF Abs!Command
  <2>5. ASSUME NEW a \in Key, NEW b \in Key, RangeQuery(a, b)
        PROVE  Abs!Command \/ UNCHANGED Abs!vars
    <3>1. CASE Abs!RangeQuery(a, b)
      BY <3>1, Zenon DEF Abs!Command
    <3>2. CASE Undefined
      <4>1. StoreMap' = StoreMap
        BY <3>2, StoreIs DEF Undefined
      <4> QED
        BY <3>2, <4>1 DEF Undefined, Abs!vars
    <3> QED
      BY <1>2, <2>5, <3>1, <3>2, RangeImplements
  <2>6. ASSUME GetAll
        PROVE  Abs!Command
    <3>1. Abs!GetAll
      BY <1>2, <2>1, <2>6, GetAllImplements
    <3> QED
      BY <3>1, Zenon DEF Abs!Command
  <2>7. CASE UNCHANGED vars
    <3>1. StoreMap' = StoreMap
      BY <2>7, StoreIs DEF vars
    <3> QED
      BY <2>7, <3>1 DEF vars, Abs!vars
  <2>8. Abs!Command => Abs!Next
    BY <2>1, <2>2 DEF Abs!Next
  <2> QED
    BY <2>3, <2>4, <2>5, <2>6, <2>7, <2>8 DEF Next
<1> QED
  BY <1>1, <1>2

\* The answers and the contents of the hash engine are those of a map from keys
\* to timestamped values, whatever the keys hash to, until an allocation fails
\* in MOD, RANGE or GETHASH (kv_store_hash.c); only DEL may claim to have
\* deleted a key that was not there.
THEOREM HashImplementsStore == Spec => ImplementsStore
<1>1. Init => Abs!Init /\ Healthy
  BY InitImplements
<1>2. Inv /\ Healthy /\ [Next]_vars => Healthy'
  BY HealthyStays
<1>3. Inv /\ Inv' /\ Healthy /\ [Next]_vars => [Abs!Next]_(Abs!vars)
  BY NextImplements
<1> QED
  BY <1>1, <1>2, <1>3, Invariance, PTL DEF Spec, ImplementsStore, Abs!Spec
===============================================================================
