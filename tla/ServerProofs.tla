------------------------------ MODULE ServerProofs ------------------------------
(***************************************************************************)
(* Theorems about module Server, for any clients, lines, words and         *)
(* descriptors.                                                            *)
(***************************************************************************)
EXTENDS Server, FiniteSetTheorems, TLAPS

Opened == {c \in Client : conn[c] = "open"}

\* What is known of connections beside their types: descriptors are counted
\* right, and only open connections have events or answers waiting.
Counted ==
    /\ fds = Cardinality(Opened)
    /\ (ready \cup batch \cup {serving}) \cap Client \subseteq Opened
    /\ armed \subseteq Opened /\ outs \subseteq armed
    /\ serving \notin batch

\* What command op of engine e may do with key k and value v.
Effect(buf, e, k, v) ==
    \E new \in SUBSET (stores[e] \cup {<<k, v>>} \cup Elsewhere) :
        /\ stores' = [stores EXCEPT ![e] = new]
        /\ \/ /\ Asks(buf, e, "SET") /\ Len(buf) >= 3 /\ reply' = "SUCCESS"
              /\ new = stores[e] \cup {<<k, v>>}
           \/ /\ Asks(buf, e, "DEL") /\ reply' = "SUCCESS"
              /\ new = {item \in stores[e] : item[1] # k}
           \/ /\ Asks(buf, e, "MOD") /\ reply' = "SUCCESS"
              /\ new = Overlaid(stores[e], {<<k, v>>})
           \/ /\ Asks(buf, e, "LOAD") \/ Asks(buf, e, "SYNC")
              /\ new \subseteq stores[e] \cup Elsewhere

-------------------------------------------------------------------------------
LEMMA SubsetOfInterval ==
    ASSUME NEW n \in Nat, NEW S \in SUBSET (1 .. n)
    PROVE  Cardinality(S) \in 0 .. n
<1>1. IsFiniteSet(1 .. n) /\ Cardinality(1 .. n) = n
  BY FS_Interval
<1>2. Cardinality(S) \in Nat /\ Cardinality(S) <= n
  BY <1>1, FS_Subset, FS_CardinalityType
<1> QED
  BY <1>2

\* What is kept of a line is a sequence of words.
LEMMA KeptIsWords ==
    ASSUME NEW c \in Client, NEW line \in Line[c]
    PROVE  Kept[line] \in Seq(Word)
<1> DEFINE End[i \in 0 .. Len(line)] == IF i = 0 THEN -1 ELSE End[i - 1] + 1 + Size(line[i])
<1> DEFINE ended == {i \in 1 .. Len(line) : End[i] <= LineMax}
<1> DEFINE whole == Cardinality(ended)
<1> DEFINE room == LineMax - End[whole] - 1
<1>1. line \in Seq(Word)
  BY LineAssumption
<1>2. line \in UNION {Line[d] : d \in Client}
  OBVIOUS
<1>3. Kept[line] = IF whole < Len(line) /\ room \in 1 .. LineMax
                   THEN Append(SubSeq(line, 1, whole), Front(line[whole + 1], room))
                   ELSE SubSeq(line, 1, whole)
  BY <1>2 DEF Kept
<1>4. whole \in 0 .. Len(line)
  <2>1. ended \in SUBSET (1 .. Len(line)) /\ Len(line) \in Nat
    BY <1>1
  <2> HIDE DEF ended
  <2> QED
    BY <2>1, SubsetOfInterval
<1> HIDE DEF whole, room
<1>5. SubSeq(line, 1, whole) \in Seq(Word)
  BY <1>1, <1>4
<1>6. ASSUME whole < Len(line), room \in 1 .. LineMax
      PROVE  Front(line[whole + 1], room) \in Word
  <2>1. line[whole + 1] \in Word
    BY <1>1, <1>4, <1>6
  <2> QED
    BY <2>1, <1>6, WordAssumption
<1> QED
  BY <1>3, <1>5, <1>6

\* A token, whether it is of this line or left over, is a word.
LEMMA TokensAreWords ==
    ASSUME NEW c \in Client, NEW buf \in Seq(Word), NEW i \in 1 .. 3
    PROVE  /\ Leftovers(buf) \subseteq Word
           /\ Token(c, buf, Len(buf), i) \subseteq Word
<1>0. \A j \in DOMAIN buf : buf[j] \in Word
  OBVIOUS
<1>1. \A j \in DOMAIN buf : Suffixes(buf[j]) \subseteq Word
  BY <1>0, WordAssumption
<1>2. Leftovers(buf) \subseteq Word
  BY <1>1, WordAssumption DEF Leftovers
<1>3. i <= Len(buf) => buf[i] \in Word
  BY <1>0
<1> QED
  BY <1>2, <1>3, SourcesAssumption DEF Token

\* A command that reads no token it should not reads text of its own line.
LEMMA TokensAreGiven ==
    ASSUME NEW c \in Client, NEW buf \in Seq(Word), NEW i \in 1 .. 3,
           words[c] \in 0 .. 3,
           NEW e \in Engine, NEW op \in Op, Asks(buf, e, op), i <= Reads(op, Len(buf)),
           Reads(op, Len(buf)) \in Nat, ~Undefined(c, buf)
    PROVE  Token(c, buf, Len(buf), i) = Given(buf, i)
<1>1. ~(Reads(op, Len(buf)) > Known(c, Len(buf)))
  BY DEF Undefined
<1>2. Known(c, Len(buf)) \in Nat
  BY DEF Known, Larger, Smaller
<1>3. i <= Known(c, Len(buf))
  BY <1>1, <1>2
<1>4. i <= words[c] \/ i <= Len(buf)
  BY <1>3 DEF Known, Larger, Smaller
<1> QED
  BY <1>4 DEF Token, Given

\* DEL reads a key; SET and MOD read a key and a value, SET if it is complete.
LEMMA TokensRead ==
    ASSUME NEW n \in Nat
    PROVE  /\ Reads("DEL", n) = 2 /\ Reads("MOD", n) = 3
           /\ n >= 3 => Reads("SET", n) = 3
BY DEF Reads

\* One command, of whichever engine.
LEMMA CaseEffect ==
    ASSUME NEW e \in Engine, NEW op \in Op, NEW buf, NEW k, NEW v, NEW short,
           stores \in [Engine -> SUBSET (Word \X Word)],
           Asks(buf, e, op),
           \/ Cases(e, op, Len(buf), k, v, short)
           \/ op = "SYNC" /\ Synchronize(e, Len(buf))
           \/ op = "DUMP" /\ Dump(e)
    PROVE  stores' = stores \/ Effect(buf, e, k, v)
<1>1. CASE op = "SET" /\ Set(e, Len(buf), k, v, short)
  <2>1. CASE stores' = stores
    BY <2>1
  <2>2. CASE /\ Len(buf) >= 3 /\ reply' = "SUCCESS"
             /\ stores' = [stores EXCEPT ![e] = @ \cup {<<k, v>>}]
    <3> DEFINE new == stores[e] \cup {<<k, v>>}
    <3>1. new \in SUBSET (stores[e] \cup {<<k, v>>} \cup Elsewhere)
      OBVIOUS
    <3> QED
      BY <1>1, <2>2, <3>1 DEF Effect
  <2> QED
    BY <1>1, <2>1, <2>2 DEF Set, Refuse, Answer
<1>2. CASE op = "DEL" /\ Del(e, k)
  <2>1. CASE stores' = stores
    BY <2>1
  <2>2. CASE /\ reply' = "SUCCESS"
             /\ stores' = [stores EXCEPT ![e] = {item \in @ : item[1] # k}]
    <3> DEFINE new == {item \in stores[e] : item[1] # k}
    <3>1. new \in SUBSET (stores[e] \cup {<<k, v>>} \cup Elsewhere)
      OBVIOUS
    <3> QED
      BY <1>2, <2>2, <3>1 DEF Effect
  <2> QED
    BY <1>2, <2>1, <2>2 DEF Del, Refuse, Answer
<1>3. CASE op = "MOD" /\ Mod(e, k, v)
  <2>1. CASE stores' = stores
    BY <2>1
  <2>2. CASE /\ reply' = "SUCCESS"
             /\ stores' = [stores EXCEPT ![e] = Overlaid(@, {<<k, v>>})]
    <3> DEFINE new == Overlaid(stores[e], {<<k, v>>})
    <3>1. new \in SUBSET (stores[e] \cup {<<k, v>>} \cup Elsewhere)
      BY DEF Overlaid
    <3> HIDE DEF new
    <3>2. stores' = [stores EXCEPT ![e] = new]
      BY <2>2 DEF new
    <3> QED
      BY <1>3, <2>2, <3>1, <3>2 DEF Effect, new
  <2> QED
    BY <1>3, <2>1, <2>2 DEF Mod, Refuse, Answer
<1>4. CASE op = "LOAD" /\ Load(e)
  <2>1. CASE stores' = stores
    BY <2>1
  <2>2. CASE \E S \in SUBSET Elsewhere : stores' = [stores EXCEPT ![e] = @ \cup S]
    <3>1. PICK S \in SUBSET Elsewhere : stores' = [stores EXCEPT ![e] = @ \cup S]
      BY <2>2
    <3> DEFINE new == stores[e] \cup S
    <3>2. new \in SUBSET (stores[e] \cup {<<k, v>>} \cup Elsewhere)
      OBVIOUS
    <3> QED
      BY <1>4, <3>1, <3>2 DEF Effect
  <2> QED
    BY <1>4, <2>1, <2>2 DEF Load, Refuse, Answer
<1>5. CASE op = "SYNC" /\ Synchronize(e, Len(buf))
  <2>1. CASE stores' = stores
    BY <2>1
  <2>2. CASE \E S \in SUBSET Elsewhere : stores' = [stores EXCEPT ![e] = Overlaid(@, S)]
    <3>1. PICK S \in SUBSET Elsewhere : stores' = [stores EXCEPT ![e] = Overlaid(@, S)]
      BY <2>2
    <3> DEFINE new == Overlaid(stores[e], S)
    <3>2. new \in SUBSET (stores[e] \cup {<<k, v>>} \cup Elsewhere)
          /\ new \subseteq stores[e] \cup Elsewhere
      BY DEF Overlaid
    <3> HIDE DEF new
    <3>3. stores' = [stores EXCEPT ![e] = new]
      BY <3>1 DEF new
    <3> QED
      BY <1>5, <3>2, <3>3 DEF Effect
  <2> QED
    BY <1>5, <2>1, <2>2 DEF Synchronize, Refuse, Answer
<1>6. CASE \/ op = "GET" /\ Get(e, k)
           \/ op = "EXIST" /\ Exist(e, k)
           \/ op = "SAVE" /\ Save
           \/ op = "RANGE" /\ RangeQuery(e)
           \/ op = "DUMP" /\ Dump(e)
  BY <1>6 DEF Get, Exist, Save, RangeQuery, Dump, Refuse
<1> QED
  BY <1>1, <1>2, <1>3, <1>4, <1>5, <1>6 DEF Cases

\* Whatever the switch does is done by one command of one engine.
LEMMA CommandEffect ==
    ASSUME NEW buf, NEW k, NEW v,
           stores \in [Engine -> SUBSET (Word \X Word)],
           Command(buf, Len(buf), k, v)
    PROVE  stores' = stores \/ \E e \in Engine : Effect(buf, e, k, v)
<1> DEFINE n == Len(buf)
<1>1. PICK op \in Op :
        \/ /\ Asks(buf, "array", op)
           /\ ArrayCases(op, n, k, v) \/ ArraySync(op, n) \/ ArrayDump(op)
        \/ /\ Asks(buf, "rbtree", op)
           /\ RbtreeCases(op, n, k, v) \/ RbtreeSync(op, n) \/ RbtreeDump(op)
        \/ /\ Asks(buf, "hash", op)
           /\ HashCases(op, n, k, v) \/ HashSync(op, n) \/ HashDump(op)
        \/ /\ Asks(buf, "skiptable", op)
           /\ SkiptableCases(op, n, k, v) \/ SkiptableSync(op, n) \/ SkiptableDump(op)
  BY DEF Command
<1>2. {"array", "rbtree", "hash", "skiptable"} = Engine
  BY DEF Engine
<1>3. CASE Asks(buf, "array", op) /\ (ArrayCases(op, n, k, v) \/ ArraySync(op, n) \/ ArrayDump(op))
  BY <1>2, <1>3, CaseEffect DEF ArrayCases, ArraySync, ArrayDump
<1>4. CASE Asks(buf, "rbtree", op) /\ (RbtreeCases(op, n, k, v) \/ RbtreeSync(op, n) \/ RbtreeDump(op))
  BY <1>2, <1>4, CaseEffect DEF RbtreeCases, RbtreeSync, RbtreeDump
<1>5. CASE Asks(buf, "hash", op) /\ (HashCases(op, n, k, v) \/ HashSync(op, n) \/ HashDump(op))
  BY <1>2, <1>5, CaseEffect DEF HashCases, HashSync, HashDump
<1>6. CASE Asks(buf, "skiptable", op) /\ (SkiptableCases(op, n, k, v) \/ SkiptableSync(op, n) \/ SkiptableDump(op))
  BY <1>2, <1>6, CaseEffect DEF SkiptableCases, SkiptableSync, SkiptableDump
<1> QED
  BY <1>1, <1>3, <1>4, <1>5, <1>6

\* One line of a turn, as the engines see it.
LEMMA ExecuteEffect ==
    ASSUME NEW c \in Client, TypeOK, Execute(c)
    PROVE  LET buf == Kept[Head(lines[c])]
           IN  /\ serving = c /\ buf \in Seq(Word)
               /\ \/ stores' = stores
                  \/ \E e \in Engine, k \in Token(c, buf, Len(buf), 2), v \in Token(c, buf, Len(buf), 3) :
                        Effect(buf, e, k, v)
<1> DEFINE buf == Kept[Head(lines[c])]
<1>1. lines[c] \in Seq(Line[c]) /\ lines[c] # <<>>
  BY DEF TypeOK, Execute
<1>2. Head(lines[c]) \in Line[c]
  BY <1>1
<1>3. buf \in Seq(Word)
  BY <1>2, KeptIsWords
<1>4. Parsed(c, buf) /\ serving = c
  BY DEF Execute
<1>5. stores \in [Engine -> SUBSET (Word \X Word)]
  BY DEF TypeOK
<1> HIDE DEF buf
<1>6. CASE stores' = stores
  BY <1>3, <1>4, <1>6 DEF buf
<1>7. CASE \E k \in Token(c, buf, Len(buf), 2), v \in Token(c, buf, Len(buf), 3) :
              Command(buf, Len(buf), k, v)
  <2>1. PICK k \in Token(c, buf, Len(buf), 2), v \in Token(c, buf, Len(buf), 3) :
               Command(buf, Len(buf), k, v)
    BY <1>7
  <2>2. stores' = stores \/ \E e \in Engine : Effect(buf, e, k, v)
    BY <1>5, <2>1, CommandEffect
  <2> QED
    BY <1>3, <1>4, <2>1, <2>2 DEF buf
<1> QED
  BY <1>4, <1>6, <1>7 DEF Parsed, Refuse

\* The engines hold words.
LEMMA EffectIsTyped ==
    ASSUME NEW e \in Engine, NEW k \in Word, NEW v \in Word, NEW buf,
           stores \in [Engine -> SUBSET (Word \X Word)],
           Effect(buf, e, k, v)
    PROVE  stores' \in [Engine -> SUBSET (Word \X Word)]
<1>1. PICK new \in SUBSET (stores[e] \cup {<<k, v>>} \cup Elsewhere) : stores' = [stores EXCEPT ![e] = new]
  BY DEF Effect
<1>2. <<k, v>> \in Word \X Word /\ Elsewhere \subseteq Word \X Word
  BY SourcesAssumption
<1>3. stores[e] \subseteq Word \X Word
  OBVIOUS
<1>4. new \subseteq Word \X Word
  BY <1>1, <1>2, <1>3
<1> QED
  BY <1>1, <1>4

\* A connection knows three tokens at most.
LEMMA KnownIsSmall ==
    ASSUME NEW c, NEW n \in Nat, words[c] \in 0 .. 3
    PROVE  Known(c, n) \in 0 .. 3
<1>1. Smaller(n, 3) \in 0 .. 3
  BY DEF Smaller
<1> QED
  BY <1>1 DEF Known, Larger

\* Lines that arrive and lines that are executed leave a sequence of lines.
LEMMA Queueing ==
    ASSUME NEW S, NEW q \in Seq(S)
    PROVE  /\ \A x \in S : Append(q, x) \in Seq(S)
           /\ q # <<>> => Tail(q) \in Seq(S)
OBVIOUS

LEMMA ExecuteKeepsTypes ==
    ASSUME NEW c \in Client, TypeOK, Execute(c)
    PROVE  /\ stores' \in [Engine -> SUBSET (Word \X Word)]
           /\ words' \in [Client -> 0 .. 3]
           /\ end' \in {"", "accept", "sync", "engine", "wild", "dangling", "signal"}
<1> DEFINE buf == Kept[Head(lines[c])]
<1>1. buf \in Seq(Word)
  BY ExecuteEffect
<1>2. ASSUME NEW e \in Engine, NEW k \in Token(c, buf, Len(buf), 2),
             NEW v \in Token(c, buf, Len(buf), 3), Effect(buf, e, k, v)
      PROVE  stores' \in [Engine -> SUBSET (Word \X Word)]
  <2>1. k \in Word /\ v \in Word
    BY <1>1, <1>2, TokensAreWords
  <2>2. stores \in [Engine -> SUBSET (Word \X Word)]
    BY DEF TypeOK
  <2> QED
    BY <1>2, <2>1, <2>2, EffectIsTyped
<1>3. stores' \in [Engine -> SUBSET (Word \X Word)]
  <2>1. CASE stores' = stores
    BY <2>1 DEF TypeOK
  <2> QED
    BY <1>2, <2>1, ExecuteEffect
<1>4. words' \in [Client -> 0 .. 3]
  <2>1. words' = [words EXCEPT ![c] = Known(c, Len(buf))] /\ words \in [Client -> 0 .. 3]
    BY DEF Execute, TypeOK
  <2>2. Len(buf) \in Nat /\ words[c] \in 0 .. 3
    BY <1>1, <2>1
  <2>3. Known(c, Len(buf)) \in 0 .. 3
    BY <2>2, KnownIsSmall
  <2> HIDE DEF buf
  <2> QED
    BY <2>1, <2>3
<1>5. end' \in {"", "accept", "sync", "engine", "wild", "dangling", "signal"}
  <2>1. end \in {"", "accept", "sync", "engine", "wild", "dangling", "signal"} /\ Parsed(c, buf)
    BY DEF TypeOK, Execute
  <2> QED
    BY <2>1 DEF Parsed
<1> QED
  BY <1>3, <1>4, <1>5

-------------------------------------------------------------------------------
\* What the invariants say of the lines of a client and of the set of open
\* connections is finite.
LEMMA OpenedIsFinite ==
    IsFiniteSet(Opened) /\ Cardinality(Opened) \in Nat
<1>1. Opened \subseteq Client
  BY DEF Opened
<1> QED
  BY <1>1, ClientAssumption, FS_Subset, FS_CardinalityType

LEMMA InitIsTyped ==
    ASSUME Init
    PROVE  TypeOK /\ Counted
<1>1. TypeOK
  <2>1. limit \in Limits /\ Limits \subseteq Nat /\ fds = 0
    BY BoundsAssumption DEF Init
  <2>2. fds \in 0 .. limit
    BY <2>1
  <2>3. lines \in [Client -> Seq(Seq(Word))] /\ \A c \in Client : lines[c] \in Seq(Line[c])
    <3>1. lines = [c \in Client |-> <<>>]
      BY DEF Init
    <3>2. \A S : <<>> \in Seq(S)
      OBVIOUS
    <3> QED
      BY <3>1, <3>2
  <2>4. /\ stores \in [Engine -> SUBSET (Word \X Word)] /\ words \in [Client -> 0 .. 3]
        /\ conn \in [Client -> {"away", "backlog", "open"}] /\ written \in [Client -> Nat]
    <3>1. stores \in [Engine -> SUBSET (Word \X Word)]
      BY DEF Init
    <3>2. words \in [Client -> 0 .. 3]
      <4>1. words = [c \in Client |-> 0]
        BY DEF Init
      <4>2. 0 \in 0 .. 3
        OBVIOUS
      <4> QED
        BY <4>1, <4>2
    <3>4. written \in [Client -> Nat]
      BY DEF Init
    <3>3. conn \in [Client -> {"away", "backlog", "open"}]
      BY DEF Init
    <3> QED
      BY <3>1, <3>2, <3>3, <3>4
  <2>5. /\ end = "" /\ gone = {} /\ aborted = {} /\ queued = {} /\ armed = {} /\ full = {}
        /\ ready = {} /\ batch = {} /\ ins = {} /\ outs = {} /\ errs = {} /\ serving = Nobody
    BY DEF Init
  <2>6. rude \in BOOLEAN
    BY Zenon DEF Init
  <2>7. faults \in Nat
    BY DEF Init
  <2> QED
    BY <2>1, <2>2, <2>3, <2>4, <2>5, <2>6, <2>7 DEF TypeOK
<1>2. Opened = {}
  BY DEF Init, Opened
<1>3. Cardinality(Opened) = 0
  BY <1>2, FS_EmptySet
<1> QED
  BY <1>1, <1>3, ClientAssumption DEF Init, Counted

\* A step of a client.
LEMMA ClientsKeepTypes ==
    ASSUME TypeOK, Counted, Clients
    PROVE  TypeOK' /\ Counted'
<1> USE DEF engines, clients, answers, events, descriptors
<1>1. ASSUME NEW c \in Client, Connect(c)
      PROVE  TypeOK' /\ Counted'
  <2>1. TypeOK'
    BY <1>1 DEF Connect, TypeOK
  <2>2. Opened' = Opened
    BY <1>1 DEF Connect, TypeOK, Opened
  <2>3. Counted'
    BY <1>1, <2>2, ClientAssumption DEF Connect, Counted
  <2> QED
    BY <2>1, <2>3
<1>2. ASSUME NEW c \in Client, Leave(c)
      PROVE  TypeOK' /\ Counted'
  <2>1. rude' \in BOOLEAN
    BY <1>2, Zenon DEF Leave, TypeOK
  <2>2. TypeOK'
    BY <1>2, <2>1 DEF Leave, TypeOK, Notify
  <2>3. Opened' = Opened
    BY <1>2 DEF Leave, Opened
  <2>4. ready' \cap Client \subseteq Opened
    BY <1>2 DEF Leave, Notify, Counted, Opened
  <2>5. Counted'
    BY <1>2, <2>3, <2>4 DEF Leave, Counted
  <2> QED
    BY <2>2, <2>5
<1>3. ASSUME NEW c \in Client, NEW line \in Line[c], Write(c, line)
      PROVE  TypeOK' /\ Counted'
  <2>1. lines' \in [Client -> Seq(Seq(Word))] /\ \A d \in Client : lines'[d] \in Seq(Line[d])
    <3>1. lines[c] \in Seq(Line[c]) /\ lines[c] \in Seq(Seq(Word)) /\ line \in Seq(Word)
      BY LineAssumption DEF TypeOK
    <3>3. Append(lines[c], line) \in Seq(Line[c]) /\ Append(lines[c], line) \in Seq(Seq(Word))
      BY <3>1, Queueing
    <3>2. lines' = [lines EXCEPT ![c] = Append(lines[c], line)]
      BY <1>3 DEF Write
    <3> QED
      BY <3>2, <3>3 DEF TypeOK
  <2>2. TypeOK'
    <3>1. written' \in [Client -> Nat]
      <4>1. written \in [Client -> Nat] /\ written' = [written EXCEPT ![c] = written[c] + 1]
        BY <1>3 DEF Write, TypeOK
      <4> QED
        BY <4>1
    <3>2. ready' \subseteq Client \cup {Acceptor}
      BY <1>3 DEF Write, TypeOK, Notify
    <3> QED
      BY <1>3, <2>1, <3>1, <3>2 DEF Write, TypeOK
  <2>3. Opened' = Opened
    BY <1>3 DEF Write, Opened
  <2>4. ready' \cap Client \subseteq Opened
    BY <1>3 DEF Write, Notify, Counted, Opened
  <2>5. Counted'
    BY <1>3, <2>3, <2>4 DEF Write, Counted
  <2> QED
    BY <2>2, <2>5
<1>4. ASSUME NEW c \in Client, Read(c)
      PROVE  TypeOK' /\ Counted'
  <2>1. TypeOK'
    BY <1>4 DEF Read, TypeOK
  <2>2. Opened' = Opened
    BY <1>4 DEF Read, Opened
  <2>3. ready' \cap Client \subseteq Opened
    BY <1>4 DEF Read, Counted
  <2>4. Counted'
    BY <1>4, <2>2, <2>3 DEF Read, Counted
  <2> QED
    BY <2>1, <2>4
<1>5. ASSUME NEW c \in Client, Abort(c)
      PROVE  TypeOK' /\ Counted'
  <2>1. rude' \in BOOLEAN /\ faults' \in Nat
    <3>1. rude' = TRUE /\ faults' = faults + 1 /\ faults \in Nat
      BY <1>5 DEF Abort, TypeOK
    <3> QED
      BY <3>1
  <2>2. TypeOK'
    BY <1>5, <2>1 DEF Abort, TypeOK, Notify
  <2>3. Opened' = Opened
    BY <1>5 DEF Abort, Opened
  <2>4. ready' \cap Client \subseteq Opened
    BY <1>5 DEF Abort, Notify, Counted, Opened
  <2>5. Counted'
    BY <1>5, <2>3, <2>4 DEF Abort, Counted
  <2> QED
    BY <2>2, <2>5
<1> QED
  BY <1>1, <1>2, <1>3, <1>4, <1>5 DEF Clients

\* A connection that is destroyed leaves the set of open ones, and the
\* descriptors are counted right.
LEMMA DestroyedIsCounted ==
    ASSUME NEW c \in Client, TypeOK, Counted, Destroyed(c), serving = c, serving' = Nobody,
           batch' = batch, limit' = limit
    PROVE  /\ fds' \in 0 .. limit' /\ limit' \in Limits /\ Counted'
           /\ conn' \in [Client -> {"away", "backlog", "open"}]
           /\ lines' \in [Client -> Seq(Seq(Word))] /\ \A d \in Client : lines'[d] \in Seq(Line[d])
<1>1. IsFiniteSet(Opened) /\ Cardinality(Opened) \in Nat
  BY OpenedIsFinite
<1>2. c \in Opened
  BY DEF Counted
<1>3. Opened' = Opened \ {c}
  BY DEF Destroyed, Opened, TypeOK
<1>4. Cardinality(Opened') = Cardinality(Opened) - 1
  BY <1>1, <1>2, <1>3, FS_RemoveElement
<1>5. Cardinality(Opened') \in Nat
  BY <1>1, <1>3, FS_RemoveElement, FS_CardinalityType
<1>6. fds' = Cardinality(Opened')
  BY <1>4 DEF Destroyed, Counted
<1>7. fds' \in 0 .. limit' /\ limit' \in Limits
  <2>1. limit \in Nat /\ fds \in 0 .. limit
    BY BoundsAssumption DEF TypeOK
  <2>2. fds' \in Nat /\ fds' = fds - 1
    BY <1>5, <1>6 DEF Destroyed
  <2>3. limit \in Limits
    BY DEF TypeOK
  <2> QED
    BY <2>1, <2>2, <2>3
<1>8. Nobody \notin batch /\ c # Nobody
  BY ClientAssumption DEF TypeOK
<1>9. Counted'
  BY <1>3, <1>6, <1>8, ClientAssumption DEF Destroyed, Counted
<1>10. conn' \in [Client -> {"away", "backlog", "open"}]
  BY DEF Destroyed, TypeOK
<1>11. lines' \in [Client -> Seq(Seq(Word))] /\ \A d \in Client : lines'[d] \in Seq(Line[d])
  <2>1. /\ lines \in [Client -> Seq(Seq(Word))] /\ lines' = [lines EXCEPT ![c] = <<>>]
        /\ \A d \in Client : lines[d] \in Seq(Line[d])
    BY DEF Destroyed, TypeOK
  <2>2. \A S : <<>> \in Seq(S)
    OBVIOUS
  <2> QED
    BY <2>1, <2>2
<1> QED
  BY <1>7, <1>9, <1>10, <1>11

\* A step of the event loop.
LEMMA LoopKeepsTypes ==
    ASSUME TypeOK, Counted, Loop
    PROVE  TypeOK' /\ Counted'
<1> USE DEF engines, clients, answers
<1>0. IsFiniteSet(Opened) /\ Cardinality(Opened) \in Nat
  BY OpenedIsFinite
<1>1. ASSUME NEW x \in Client \cup {Acceptor}, HandleEvent(x)
      PROVE  TypeOK' /\ Counted'
  <2> DEFINE Rep == Reported
  <2>0. Rep \subseteq ready
    BY DEF Reported
  <2>1. \/ /\ x \in Rep /\ batch' = Rep \ {x} /\ ready' = {}
           /\ ins' \subseteq Client /\ outs' \subseteq armed /\ errs' \subseteq Client
        \/ x \in batch /\ batch' = batch \ {x} /\ UNCHANGED <<ins, outs, errs, ready>>
    BY <1>1 DEF HandleEvent, events, TypeOK
  <2>2. /\ UNCHANGED <<stores, words, end, conn, gone, aborted, written, rude, lines, queued, armed>>
        /\ UNCHANGED <<full, faults, fds, limit>> /\ serving' = x
    BY <1>1 DEF HandleEvent, descriptors
  <2> HIDE DEF Rep
  <2>3. TypeOK'
    BY <2>0, <2>1, <2>2 DEF TypeOK
  <2>4. Opened' = Opened
    BY <2>2 DEF Opened
  <2>5. Counted'
    BY <2>0, <2>1, <2>2, <2>4 DEF Counted, TypeOK
  <2> QED
    BY <2>3, <2>5
<1>2. ASSUME AcceptFails
      PROVE  TypeOK' /\ Counted'
  <2>1. TypeOK'
    BY <1>2 DEF AcceptFails, TypeOK, descriptors, loop, events
  <2>2. Opened' = Opened
    BY <1>2 DEF AcceptFails, Opened
  <2>3. Counted'
    BY <1>2, <2>2 DEF AcceptFails, Counted, descriptors, loop, events
  <2> QED
    BY <2>1, <2>3
<1>3. ASSUME AcceptAgain
      PROVE  TypeOK' /\ Counted'
  <2>1. TypeOK'
    BY <1>3 DEF AcceptAgain, TypeOK, descriptors, events
  <2>2. Opened' = Opened
    BY <1>3 DEF AcceptAgain, Opened
  <2>3. Nobody \notin batch
    BY ClientAssumption DEF TypeOK
  <2>4. Counted'
    BY <1>3, <2>2, <2>3, ClientAssumption DEF AcceptAgain, Counted, descriptors, events
  <2> QED
    BY <2>1, <2>4
<1>4. ASSUME NEW c \in Client, Accept(c)
      PROVE  TypeOK' /\ Counted'
  <2>1. fds' \in 0 .. limit' /\ limit' \in Limits
    <3>1. limit \in Nat /\ fds \in 0 .. limit
      BY BoundsAssumption DEF TypeOK
    <3>2. fds < limit /\ fds' = fds + 1 /\ limit' = limit
      BY <1>4 DEF Accept
    <3>3. limit \in Limits
      BY DEF TypeOK
    <3> QED
      BY <3>1, <3>2, <3>3
  <2>2. TypeOK'
    <3>1. words' \in [Client -> 0 .. 3]
      <4>1. words \in [Client -> 0 .. 3] /\ words' = [words EXCEPT ![c] = 0]
        BY <1>4 DEF Accept, TypeOK
      <4>2. 0 \in 0 .. 3
        OBVIOUS
      <4> QED
        BY <4>1, <4>2
    <3>2. ready' \subseteq Client \cup {Acceptor}
      BY <1>4 DEF Accept, TypeOK
    <3>3. conn' \in [Client -> {"away", "backlog", "open"}]
      BY <1>4 DEF Accept, TypeOK
    <3> QED
      BY <1>4, <2>1, <3>1, <3>2, <3>3 DEF Accept, TypeOK, events
  <2>3. Opened' = Opened \cup {c} /\ c \notin Opened
    BY <1>4 DEF Accept, Opened, TypeOK
  <2>4. Cardinality(Opened') = Cardinality(Opened) + 1
    BY <1>0, <2>3, FS_AddElement
  <2>5. fds' = Cardinality(Opened')
    BY <1>4, <2>4 DEF Accept, Counted
  <2>6. Counted'
    BY <1>4, <2>3, <2>5 DEF Accept, Counted, events
  <2> QED
    BY <2>2, <2>6
<1>5. ASSUME NEW c \in Client, Execute(c)
      PROVE  TypeOK' /\ Counted'
  <2>1. lines' \in [Client -> Seq(Seq(Word))] /\ \A d \in Client : lines'[d] \in Seq(Line[d])
    <3>1. lines[c] # <<>> /\ lines' = [lines EXCEPT ![c] = Tail(lines[c])]
      BY <1>5 DEF Execute
    <3>2. lines[c] \in Seq(Line[c]) /\ lines[c] \in Seq(Seq(Word))
      BY DEF TypeOK
    <3>3. Tail(lines[c]) \in Seq(Line[c]) /\ Tail(lines[c]) \in Seq(Seq(Word))
      BY <3>1, <3>2, Queueing
    <3> QED
      BY <3>1, <3>3 DEF TypeOK
  <2>2. /\ UNCHANGED <<conn, gone, aborted, written, rude, batch, ins, outs, errs, serving>>
        /\ UNCHANGED <<fds, limit, full, faults>>
        /\ armed' = armed \cup {c} /\ queued' = queued \cup {c}
        /\ ready' \subseteq ready \cup {c} /\ serving = c
    BY <1>5 DEF Execute, descriptors, events
  <2>3. TypeOK'
    BY <1>5, <2>1, <2>2, ExecuteKeepsTypes DEF TypeOK
  <2>4. Opened' = Opened
    BY <2>2 DEF Opened
  <2>5. Counted'
    BY <2>2, <2>4 DEF Counted
  <2> QED
    BY <2>3, <2>5
<1>6. ASSUME NEW c \in Client, ReadAll(c)
      PROVE  TypeOK' /\ Counted'
  <2>1. TypeOK'
    BY <1>6 DEF ReadAll, TypeOK, descriptors
  <2>2. Opened' = Opened
    BY <1>6 DEF ReadAll, Opened
  <2>3. c \notin batch /\ Nobody \notin batch /\ c # Nobody
    BY <1>6, ClientAssumption DEF ReadAll, TypeOK, Counted
  <2>4. Counted'
    BY <1>6, <2>2, <2>3, ClientAssumption DEF ReadAll, Counted, descriptors
  <2> QED
    BY <2>1, <2>4
<1>7. ASSUME NEW c \in Client, Forget(c)
      PROVE  TypeOK' /\ Counted'
  <2>1. /\ Destroyed(c) /\ serving = c /\ serving' = Nobody
        /\ UNCHANGED <<stores, words, written, rude, faults, batch, limit>>
        /\ end' \in {"", "accept", "sync", "engine", "wild", "dangling", "signal"}
    BY <1>7 DEF Forget, TypeOK
  <2>2. /\ fds' \in 0 .. limit' /\ limit' \in Limits /\ Counted'
        /\ conn' \in [Client -> {"away", "backlog", "open"}]
        /\ lines' \in [Client -> Seq(Seq(Word))] /\ \A d \in Client : lines'[d] \in Seq(Line[d])
    BY <2>1, DestroyedIsCounted
  <2>3. TypeOK'
    BY <2>1, <2>2 DEF Destroyed, TypeOK
  <2> QED
    BY <2>2, <2>3
<1>8. ASSUME NEW c \in Client, Send(c)
      PROVE  TypeOK' /\ Counted'
  <2>1. TypeOK'
    BY <1>8 DEF Send, TypeOK, descriptors
  <2>2. Opened' = Opened
    BY <1>8 DEF Send, Opened
  <2>3. c \notin batch /\ Nobody \notin batch /\ c # Nobody
    BY <1>8, ClientAssumption DEF Send, TypeOK, Counted
  <2>4. Counted'
    BY <1>8, <2>2, <2>3, ClientAssumption DEF Send, Counted, descriptors
  <2> QED
    BY <2>1, <2>4
<1>9. ASSUME NEW c \in Client, SendRefused(c)
      PROVE  TypeOK' /\ Counted'
  <2>0. faults' \in Nat
    <3>1. faults \in Nat /\ faults' = faults + 1
      BY <1>9 DEF SendRefused, TypeOK
    <3> QED
      BY <3>1
  <2>1. TypeOK'
    BY <1>9, <2>0 DEF SendRefused, TypeOK, descriptors
  <2>2. Opened' = Opened
    BY <1>9 DEF SendRefused, Opened
  <2>3. c \notin batch /\ Nobody \notin batch /\ c # Nobody
    BY <1>9, ClientAssumption DEF SendRefused, TypeOK, Counted
  <2>4. Counted'
    BY <1>9, <2>2, <2>3, ClientAssumption DEF SendRefused, Counted, descriptors
  <2> QED
    BY <2>1, <2>4
<1>10. ASSUME NEW c \in Client, SendFails(c)
      PROVE  TypeOK' /\ Counted'
  <2>1. /\ Destroyed(c) /\ serving = c /\ serving' = Nobody
        /\ UNCHANGED <<stores, words, written, rude, faults, batch, limit>>
        /\ end' \in {"", "accept", "sync", "engine", "wild", "dangling", "signal"}
    BY <1>10 DEF SendFails, TypeOK
  <2>2. /\ fds' \in 0 .. limit' /\ limit' \in Limits /\ Counted'
        /\ conn' \in [Client -> {"away", "backlog", "open"}]
        /\ lines' \in [Client -> Seq(Seq(Word))] /\ \A d \in Client : lines'[d] \in Seq(Line[d])
    BY <2>1, DestroyedIsCounted
  <2>3. TypeOK'
    BY <2>1, <2>2 DEF Destroyed, TypeOK
  <2> QED
    BY <2>2, <2>3
<1> QED
  BY <1>1, <1>2, <1>3, <1>4, <1>5, <1>6, <1>7, <1>8, <1>9, <1>10 DEF Loop

\* For any number of clients, coming and going: the state has its types, and a
\* descriptor is in use exactly for each open connection.
THEOREM TypeCorrect == Spec => [](TypeOK /\ Counted)
<1>1. Init => TypeOK /\ Counted
  BY InitIsTyped
<1>2. TypeOK /\ Counted /\ [Next]_vars => (TypeOK /\ Counted)'
  <2> SUFFICES ASSUME TypeOK, Counted, [Next]_vars
               PROVE  TypeOK' /\ Counted'
    OBVIOUS
  <2>1. CASE Clients
    BY <2>1, ClientsKeepTypes
  <2>2. CASE Loop
    BY <2>2, LoopKeepsTypes
  <2>3. CASE UNCHANGED vars
    <3>1. Opened' = Opened
      BY <2>3 DEF vars, Opened
    <3> QED
      BY <2>3, <3>1 DEF vars, engines, clients, answers, events, loop, descriptors, TypeOK, Counted
  <2> QED
    BY <2>1, <2>2, <2>3 DEF Next
<1> QED
  BY <1>1, <1>2, PTL DEF Spec

-------------------------------------------------------------------------------
\* An event is never lost, with any number of clients, in whatever order they
\* connect, write, read and leave: the invariant is inductive, given the types.
LEMMA LoopLosesNoEvent ==
    ASSUME TypeOK, NoEventIsLost, Loop
    PROVE  NoEventIsLost'
<1> USE ClientAssumption DEF Readable, Writable
<1>1. ASSUME NEW x \in Client \cup {Acceptor}, HandleEvent(x)
      PROVE  NoEventIsLost'
  <2>1. /\ UNCHANGED <<conn, gone, aborted, lines, armed, full>>
        /\ serving = Nobody /\ serving' = x
    BY <1>1 DEF HandleEvent, clients, answers
  <2>2. CASE batch = {}
    <3>1. /\ batch' = Reported \ {x}
          /\ ins' = {c \in Reported \cap Client : Readable(c)}
          /\ outs' = {c \in Reported \cap armed : Writable(c)}
      BY <1>1, <2>2 DEF HandleEvent
    <3>2. ASSUME NEW c \in Client, conn[c] = "backlog"
          PROVE  Acceptor \in batch' \/ Acceptor = serving'
      BY <2>1, <2>2, <3>1, <3>2 DEF NoEventIsLost, Reported
    <3>3. ASSUME NEW c \in Client, conn[c] = "open", Readable(c)
          PROVE  c \in ins' /\ (c \in batch' \/ c = serving')
      <4>1. c \in ready /\ c # Acceptor
        BY <2>1, <2>2, <3>3 DEF NoEventIsLost
      <4>2. c \in Reported
        BY <3>3, <4>1 DEF Reported
      <4> QED
        BY <2>1, <3>1, <3>3, <4>2
    <3>4. ASSUME NEW c \in Client, c \in armed, Writable(c)
          PROVE  c \in outs' /\ (c \in batch' \/ c = serving')
      <4>1. c \in ready /\ c # Acceptor
        BY <2>1, <2>2, <3>4 DEF NoEventIsLost
      <4>2. c \in Reported
        BY <3>4, <4>1 DEF Reported
      <4> QED
        BY <2>1, <3>1, <3>4, <4>2
    <3> QED
      BY <2>1, <3>2, <3>3, <3>4 DEF NoEventIsLost
  <2>3. CASE batch # {}
    <3>1. batch' = batch \ {x} /\ UNCHANGED <<ready, ins, outs>>
      BY <1>1, <2>3 DEF HandleEvent, events
    <3> QED
      BY <2>1, <3>1 DEF NoEventIsLost
  <2> QED
    BY <2>2, <2>3
<1>2. ASSUME AcceptFails
      PROVE  NoEventIsLost'
  BY <1>2 DEF AcceptFails, NoEventIsLost, loop, events, clients, answers
<1>3. ASSUME AcceptAgain
      PROVE  NoEventIsLost'
  BY <1>3 DEF AcceptAgain, NoEventIsLost, events, clients, answers
<1>4. ASSUME NEW c \in Client, Accept(c)
      PROVE  NoEventIsLost'
  BY <1>4 DEF Accept, NoEventIsLost, events, clients, answers, TypeOK
<1>5. ASSUME NEW c \in Client, Execute(c)
      PROVE  NoEventIsLost'
  <2>1. /\ armed' = armed \cup {c} /\ ready' = IF Writable(c) THEN ready \cup {c} ELSE ready
        /\ UNCHANGED <<conn, gone, aborted, full, batch, ins, outs, serving>>
        /\ serving = c /\ c \in ins /\ lines' = [lines EXCEPT ![c] = Tail(@)]
    BY <1>5 DEF Execute, clients, events
  <2>2. \A d \in Client : d = c \/ lines'[d] = lines[d]
    BY <2>1 DEF TypeOK
  <2> QED
    BY <2>1, <2>2 DEF NoEventIsLost
<1>6. ASSUME NEW c \in Client, ReadAll(c)
      PROVE  NoEventIsLost'
  BY <1>6 DEF ReadAll, NoEventIsLost, clients, answers
<1>7. ASSUME NEW c \in Client, serving = c, serving' = Nobody, Destroyed(c), batch' = batch
      PROVE  NoEventIsLost'
  BY <1>7 DEF Destroyed, NoEventIsLost, TypeOK
<1>8. ASSUME NEW c \in Client, Send(c)
      PROVE  NoEventIsLost'
  <2>1. /\ armed' = armed \ {c} /\ full \subseteq full' /\ serving = c /\ serving' = Nobody
        /\ c \notin ins /\ outs' = outs \ {c}
        /\ UNCHANGED <<conn, gone, aborted, lines, ready, batch, ins>>
    BY <1>8 DEF Send, clients
  <2> QED
    BY <2>1 DEF NoEventIsLost
<1>9. ASSUME NEW c \in Client, SendRefused(c)
      PROVE  NoEventIsLost'
  BY <1>9 DEF SendRefused, NoEventIsLost, clients
<1>10. ASSUME NEW c \in Client, Forget(c) \/ SendFails(c)
       PROVE  NoEventIsLost'
  <2>1. serving = c /\ serving' = Nobody /\ Destroyed(c) /\ batch' = batch
    BY <1>10 DEF Forget, SendFails
  <2> QED
    BY <1>7, <2>1
<1> QED
  BY <1>1, <1>2, <1>3, <1>4, <1>5, <1>6, <1>8, <1>9, <1>10 DEF Loop

\* What a client does comes with its event.
LEMMA ClientsLoseNoEvent ==
    ASSUME TypeOK, Counted, NoEventIsLost, Clients
    PROVE  NoEventIsLost'
<1> USE DEF Readable, Writable, answers, events
<1>1. ASSUME NEW c \in Client, Connect(c)
      PROVE  NoEventIsLost'
  BY <1>1 DEF Connect, NoEventIsLost, TypeOK
<1>2. ASSUME NEW c \in Client, Leave(c)
      PROVE  NoEventIsLost'
  BY <1>2 DEF Leave, NoEventIsLost, Notify
<1>3. ASSUME NEW c \in Client, NEW line \in Line[c], Write(c, line)
      PROVE  NoEventIsLost'
  <2>1. \A d \in Client : d = c \/ lines'[d] = lines[d]
    BY <1>3 DEF Write, TypeOK
  <2> QED
    BY <1>3, <2>1 DEF Write, NoEventIsLost, Notify
<1>4. ASSUME NEW c \in Client, Read(c)
      PROVE  NoEventIsLost'
  BY <1>4 DEF Read, NoEventIsLost, clients
<1>5. ASSUME NEW c \in Client, Abort(c)
      PROVE  NoEventIsLost'
  <2>1. \A d \in armed : conn[d] = "open"
    BY DEF Counted, Opened
  <2> QED
    BY <1>5, <2>1 DEF Abort, NoEventIsLost, Notify
<1> QED
  BY <1>1, <1>2, <1>3, <1>4, <1>5 DEF Clients

\* However many clients there are and whatever their order: what waits to be
\* accepted, read or sent always has its event coming.
THEOREM NoEventIsEverLost == Spec => []NoEventIsLost
<1>1. Init => NoEventIsLost
  BY DEF Init, NoEventIsLost
<1>2. TypeOK /\ Counted /\ NoEventIsLost /\ [Next]_vars => NoEventIsLost'
  <2> SUFFICES ASSUME TypeOK, Counted, NoEventIsLost, [Next]_vars
               PROVE  NoEventIsLost'
    OBVIOUS
  <2>1. CASE UNCHANGED vars
    BY <2>1 DEF vars, clients, answers, loop, events, Readable, Writable, NoEventIsLost
  <2> QED
    BY <2>1, ClientsLoseNoEvent, LoopLosesNoEvent DEF Next
<1> QED
  BY <1>1, <1>2, TypeCorrect, PTL DEF Spec

-------------------------------------------------------------------------------
\* A client that has left while something of its own waited was rude, and so was
\* one whose connection was reset; a connection waits for EPOLLOUT with nothing to
\* send only because send() found no memory.
Polite ==
    /\ \A c \in gone : c \in queued \/ lines[c] # <<>> => rude
    /\ aborted # {} => rude
    /\ errs \subseteq aborted
    /\ armed \ queued # {} => faults > 0

\* A step of the clients, or of the acceptor, disturbs none of this.
LEMMA StepsKeepPolite ==
    ASSUME TypeOK, Counted, Polite, Next
    PROVE  Polite'
<1> USE DEF engines, clients, answers, loop, events
<1>1. ASSUME NEW c \in Client, Connect(c)
      PROVE  Polite'
  BY <1>1 DEF Connect, Polite
<1>2. ASSUME NEW c \in Client, Leave(c)
      PROVE  Polite'
  BY <1>2 DEF Leave, Polite
<1>3. ASSUME NEW c \in Client, NEW line \in Line[c], Write(c, line)
      PROVE  Polite'
  <2>1. \A d \in gone : lines'[d] = lines[d]
    BY <1>3 DEF Write, TypeOK
  <2> QED
    BY <1>3, <2>1 DEF Write, Polite
<1>4. ASSUME NEW c \in Client, Read(c)
      PROVE  Polite'
  BY <1>4 DEF Read, Polite
<1>5. ASSUME NEW c \in Client, Abort(c)
      PROVE  Polite'
  <2>1. faults \in Nat /\ faults' = faults + 1 /\ rude' = TRUE
    BY <1>5 DEF Abort, TypeOK
  <2>2. aborted' = aborted \cup {c} /\ UNCHANGED <<gone, lines, queued, armed, errs>>
    BY <1>5 DEF Abort
  <2>3. faults' > 0
    BY <2>1
  <2> QED
    BY <2>1, <2>2, <2>3 DEF Polite
<1>6. ASSUME NEW x \in Client \cup {Acceptor}, HandleEvent(x)
      PROVE  Polite'
  <2>1. UNCHANGED <<gone, aborted, lines, queued, armed, faults, rude>>
    BY <1>6 DEF HandleEvent
  <2>2. errs' \subseteq aborted
    BY <1>6 DEF HandleEvent, Polite
  <2> QED
    BY <2>1, <2>2 DEF Polite
<1>7. ASSUME AcceptFails \/ AcceptAgain
      PROVE  Polite'
  BY <1>7 DEF AcceptFails, AcceptAgain, Polite
<1>8. ASSUME NEW c \in Client, Accept(c)
      PROVE  Polite'
  BY <1>8 DEF Accept, Polite
<1>9. ASSUME NEW c \in Client, Execute(c)
      PROVE  Polite'
  <2>1. /\ queued' = queued \cup {c} /\ armed' = armed \cup {c}
        /\ lines' = [lines EXCEPT ![c] = Tail(@)] /\ lines[c] # <<>>
        /\ UNCHANGED <<gone, aborted, errs, rude, faults>>
    BY <1>9 DEF Execute
  <2>2. \A d \in Client : d = c \/ lines'[d] = lines[d]
    BY <2>1 DEF TypeOK
  <2> QED
    BY <2>1, <2>2 DEF Polite, TypeOK
<1>10. ASSUME NEW c \in Client, ReadAll(c)
       PROVE  Polite'
  BY <1>10 DEF ReadAll, Polite
<1>11. ASSUME NEW c \in Client, Forget(c) \/ SendFails(c)
       PROVE  Polite'
  <2>1. Destroyed(c) /\ rude' = rude /\ faults' = faults
    BY <1>11 DEF Forget, SendFails
  <2>2. \A d \in Client : d = c \/ lines'[d] = lines[d]
    BY <2>1 DEF Destroyed, TypeOK
  <2>3. /\ gone' = gone \ {c} /\ aborted' = aborted \ {c} /\ errs' = errs \ {c}
        /\ queued' = queued \ {c} /\ armed' = armed \ {c}
    BY <2>1 DEF Destroyed
  <2> QED
    BY <2>1, <2>2, <2>3 DEF Polite, TypeOK
<1>12. ASSUME NEW c \in Client, Send(c)
       PROVE  Polite'
  BY <1>12 DEF Send, Polite
<1>13. ASSUME NEW c \in Client, SendRefused(c)
       PROVE  Polite'
  <2>1. faults \in Nat /\ faults' = faults + 1
    BY <1>13 DEF SendRefused, TypeOK
  <2>2. queued' = queued \ {c} /\ UNCHANGED <<gone, aborted, lines, armed, errs, rude>>
    BY <1>13 DEF SendRefused
  <2>3. faults' > 0
    BY <2>1
  <2> QED
    BY <2>2, <2>3 DEF Polite
<1> QED
  BY <1>1, <1>2, <1>3, <1>4, <1>5, <1>6, <1>7, <1>8, <1>9, <1>10, <1>11, <1>12, <1>13
     DEF Next, Clients, Loop

\* The step that ends the process has its cause.
LEMMA StepsEndForCause ==
    ASSUME TypeOK, Counted, Polite, EndsForCause, Next
    PROVE  EndsForCause'
<1> USE DEF engines, clients, answers
<1>0. end = ""
  BY DEF Next, Clients, Loop, Running, Connect, Read, Leave, Abort, Write, HandleEvent, AcceptFails,
         AcceptAgain, Accept, Execute, ReadAll, Forget, Send, SendRefused, SendFails
<1>1. CASE end' = ""
  BY <1>1 DEF EndsForCause
<1>2. CASE AcceptFails
  <2>1. end' = "accept" /\ conn' = conn /\ aborted' = aborted /\ limit' = limit
    BY <1>2 DEF AcceptFails, descriptors
  <2>2. CASE fds >= limit
    <3>1. limit \in Nat /\ fds \in 0 .. limit
      BY BoundsAssumption DEF TypeOK
    <3>2. fds = limit
      BY <2>2, <3>1
    <3>3. Cardinality({c \in Client : conn[c] = "open"}) = limit
      BY <3>2 DEF Counted, Opened
    <3> QED
      BY <2>1, <3>3 DEF EndsForCause
  <2>3. CASE \E c \in aborted : conn[c] = "backlog"
    BY <2>1, <2>3 DEF EndsForCause
  <2> QED
    BY <1>2, <2>2, <2>3 DEF AcceptFails
<1>3. ASSUME NEW c \in Client, Execute(c)
      PROVE  EndsForCause'
  <2> DEFINE buf == Kept[Head(lines[c])]
  <2> DEFINE odd == Undefined(c, buf) \/ Unknown(buf)
  <2> DEFINE r == [line |-> buf, success |-> reply' = "SUCCESS", undefined |-> odd]
  <2>1. executed' = executed \cup {r} /\ Parsed(c, buf)
    BY <1>3 DEF Execute
  <2>2. r \in executed' /\ r.line = buf
    BY <2>1
  <2>3. odd => r.undefined
    OBVIOUS
  <2>4. \/ end' = "sync" /\ NoNumber(buf)
        \/ end' = "engine" /\ IsCommand(buf)
        \/ end' = "wild" /\ odd
        \/ end' = ""
    BY <1>0, <2>1 DEF Parsed
  <2> HIDE DEF buf, odd, r
  <2> QED
    BY <2>2, <2>3, <2>4 DEF EndsForCause
<1>4. ASSUME NEW c \in Client, Forget(c)
      PROVE  EndsForCause'
  <2>1. rude' = rude /\ faults' = faults /\ c \in gone \cup aborted
        /\ (end' = end \/ (c \in outs \cup errs /\ end' = "dangling"))
    BY <1>4 DEF Forget
  <2>2. c \in errs \/ c \in aborted => rude
    BY Zenon DEF Polite
  <2>3. c \in outs /\ c \in gone => rude \/ faults > 0
    <3>1. outs \subseteq armed
      BY DEF Counted
    <3>2. c \in gone /\ c \in queued => rude
      BY DEF Polite
    <3>3. c \in armed /\ c \notin queued => faults > 0
      BY DEF Polite
    <3> QED
      BY <3>1, <3>2, <3>3
  <2> QED
    BY <1>0, <2>1, <2>2, <2>3 DEF EndsForCause
<1>5. ASSUME NEW c \in Client, SendFails(c)
      PROVE  EndsForCause'
  <2>1. /\ rude' = rude /\ faults' = faults /\ c \in outs /\ (c \in aborted \/ c \notin queued)
        /\ end' = end \/ end' = "dangling" \/ (c \in aborted /\ end' = "signal")
    BY <1>5 DEF SendFails
  <2>2. c \in aborted => rude
    BY Zenon DEF Polite
  <2>3. c \notin queued => faults > 0
    BY <2>1 DEF Counted, Polite
  <2> QED
    BY <1>0, <2>1, <2>2, <2>3 DEF EndsForCause
<1>6. \/ end' = end \/ AcceptFails
      \/ \E c \in Client : Execute(c) \/ Forget(c) \/ SendFails(c)
  BY DEF Next, Clients, Loop, Connect, Read, Leave, Abort, Write, HandleEvent,
         AcceptAgain, Accept, ReadAll, Send, SendRefused
<1> QED
  BY <1>0, <1>1, <1>2, <1>3, <1>4, <1>5, <1>6

\* For any number of clients and descriptors: the process ends only when all its
\* descriptors are in use by clients or a client was reset before it was accepted,
\* when a SYNC names no number, when a line reads what was never set, on a command
\* whose engine lacks memory or a slot, or in the handler of a connection after a
\* client left before its last answer or was reset, or send() found no memory.
THEOREM ProcessEndsForCause == Spec => []EndsForCause
<1>1. Init => Polite /\ EndsForCause
  BY DEF Init, Polite, EndsForCause
<1>2. TypeOK /\ Counted /\ Polite /\ EndsForCause /\ [Next]_vars => (Polite /\ EndsForCause)'
  <2> SUFFICES ASSUME TypeOK, Counted, Polite, EndsForCause, [Next]_vars
               PROVE  Polite' /\ EndsForCause'
    OBVIOUS
  <2>1. CASE UNCHANGED vars
    BY <2>1 DEF vars, clients, answers, loop, events, descriptors, Polite, EndsForCause
  <2> QED
    BY <2>1, StepsKeepPolite, StepsEndForCause
<1> QED
  BY <1>1, <1>2, TypeCorrect, PTL DEF Spec

-------------------------------------------------------------------------------
\* A token that is one of the first words of the line is that word.
LEMMA TokenOfTheLine ==
    ASSUME NEW c, NEW buf, NEW i \in 1 .. 3, i <= Len(buf)
    PROVE  Token(c, buf, Len(buf), i) = {buf[i]} /\ Given(buf, i) = {buf[i]}
BY DEF Token, Given

\* Only the execution of a line touches the engines.
LEMMA OthersKeepItems ==
    ASSUME [Next]_vars
    PROVE  \/ \E c \in Client : Execute(c)
           \/ stores' = stores /\ executed' = executed
BY DEF Next, Clients, Loop, Connect, Read, Leave, Abort, Write, HandleEvent, AcceptFails,
       AcceptAgain, Accept, ReadAll, Forget, Send, SendRefused, SendFails, engines, vars

\* What a line brings into an engine is what was sent: the key and the value of
\* this one line, or items from elsewhere.
LEMMA ExecuteStoresWhatWasSent ==
    ASSUME NEW c \in Client, TypeOK, ItemsWereSent, Execute(c)
    PROVE  ItemsWereSent'
<1> DEFINE buf == Kept[Head(lines[c])]
<1> DEFINE odd == Undefined(c, buf) \/ Unknown(buf)
<1> DEFINE r == [line |-> buf, success |-> reply' = "SUCCESS", undefined |-> odd]
<1>1. executed' = executed \cup {r}
  BY DEF Execute
<1>2. r.line = buf /\ r \in executed'
  BY <1>1
<1>3. (reply' = "SUCCESS" => r.success) /\ (odd => r.undefined)
  OBVIOUS
<1>4. buf \in Seq(Word) /\ words[c] \in 0 .. 3 /\ stores \in [Engine -> SUBSET (Word \X Word)]
  BY ExecuteEffect DEF TypeOK
<1>5. \/ stores' = stores
      \/ \E e \in Engine, k \in Token(c, buf, Len(buf), 2), v \in Token(c, buf, Len(buf), 3) :
            Effect(buf, e, k, v)
  BY ExecuteEffect
<1>6. Undefined(c, buf) => odd
  OBVIOUS
<1> HIDE DEF buf, odd, r
<1>7. \A e \in Engine : \A item \in stores[e] :
         item \in Elsewhere \/ \E q \in executed' : Gave(q, e, item)
  BY <1>1 DEF ItemsWereSent
<1>8. CASE stores' = stores
  BY <1>7, <1>8 DEF ItemsWereSent, Gave
<1>9. ASSUME NEW e \in Engine, NEW k \in Token(c, buf, Len(buf), 2),
             NEW v \in Token(c, buf, Len(buf), 3), Effect(buf, e, k, v)
      PROVE  ItemsWereSent'
  <2>1. PICK new \in SUBSET (stores[e] \cup {<<k, v>>} \cup Elsewhere) :
          /\ stores' = [stores EXCEPT ![e] = new]
          /\ \/ /\ Asks(buf, e, "SET") /\ Len(buf) >= 3 /\ reply' = "SUCCESS"
                /\ new = stores[e] \cup {<<k, v>>}
             \/ /\ Asks(buf, e, "DEL") /\ reply' = "SUCCESS"
                /\ new = {item \in stores[e] : item[1] # k}
             \/ /\ Asks(buf, e, "MOD") /\ reply' = "SUCCESS"
                /\ new = Overlaid(stores[e], {<<k, v>>})
             \/ /\ Asks(buf, e, "LOAD") \/ Asks(buf, e, "SYNC")
                /\ new \subseteq stores[e] \cup Elsewhere
    BY <1>9 DEF Effect
  <2>2. \A f \in Engine : f = e \/ stores'[f] = stores[f]
    BY <1>4, <2>1
  <2>3. stores'[e] = new
    BY <1>4, <2>1
  <2>4. SUFFICES ASSUME <<k, v>> \in new, <<k, v>> \notin stores[e], <<k, v>> \notin Elsewhere
                 PROVE  Gave(r, e, <<k, v>>)
    <3>1. \A item \in new : item \in Elsewhere \/ \E q \in executed' : Gave(q, e, item)
      BY <1>2, <1>7, <2>4
    <3>2. \A f \in Engine : \A item \in stores'[f] :
             item \in Elsewhere \/ \E q \in executed' : Gave(q, f, item)
      BY <1>7, <2>2, <2>3, <3>1
    <3> QED
      BY <3>2 DEF ItemsWereSent, Gave
  <2>5. CASE Asks(buf, e, "SET") /\ Len(buf) >= 3 /\ reply' = "SUCCESS"
    <3>1. 2 <= Len(buf) /\ 3 <= Len(buf)
      BY <1>4, <2>5
    <3>2. k = buf[2] /\ v = buf[3]
      BY <3>1, TokenOfTheLine
    <3> QED
      BY <1>2, <1>3, <2>5, <3>2 DEF Gave
  <2>6. CASE Asks(buf, e, "MOD") /\ reply' = "SUCCESS"
    <3>1. CASE Undefined(c, buf)
      BY <1>2, <1>3, <1>6, <2>6, <3>1 DEF Gave
    <3>2. CASE ~Undefined(c, buf)
      <4>1. Len(buf) \in Nat /\ "MOD" \in Op
        BY <1>4 DEF Op
      <4>2. Reads("MOD", Len(buf)) = 3
        BY <4>1, TokensRead
      <4>3. k \in Given(buf, 2) /\ v \in Given(buf, 3)
        BY <1>4, <2>6, <3>2, <4>1, <4>2, TokensAreGiven
      <4> QED
        BY <1>2, <1>3, <2>6, <4>3 DEF Gave
    <3> QED
      BY <3>1, <3>2
  <2> QED
    BY <2>1, <2>4, <2>5, <2>6
<1> QED
  BY <1>5, <1>8, <1>9

\* For any clients, lines and engines: every item was given, key and value
\* together, by one line that a client sent to that engine, or came from a
\* snapshot or another server.
THEOREM ItemsAreSent == Spec => []ItemsWereSent
<1>1. Init => ItemsWereSent
  BY DEF Init, ItemsWereSent
<1>2. TypeOK /\ ItemsWereSent /\ [Next]_vars => ItemsWereSent'
  <2> SUFFICES ASSUME TypeOK, ItemsWereSent, [Next]_vars
               PROVE  ItemsWereSent'
    OBVIOUS
  <2>1. CASE stores' = stores /\ executed' = executed
    BY <2>1 DEF ItemsWereSent
  <2> QED
    BY <2>1, OthersKeepItems, ExecuteStoresWhatWasSent
<1> QED
  BY <1>1, <1>2, TypeCorrect, PTL DEF Spec

-------------------------------------------------------------------------------
\* A step changes an item only if it executes a line of that engine that
\* contains the key of the item, with success.
LEMMA ExecuteKeepsToItsItem ==
    ASSUME NEW c \in Client, TypeOK, Execute(c),
           NEW f \in Engine,
           NEW item \in (stores'[f] \ stores[f]) \cup (stores[f] \ stores'[f])
    PROVE  LET buf == Kept[Head(lines[serving])]
               Is(ops) == \E op \in ops : Asks(buf, f, op)
           IN  \/ Is({"LOAD", "SYNC"}) \/ Undefined(serving, buf)
               \/ /\ Is({"SET", "DEL", "MOD"})
                  /\ item[1] \in Given(buf, 2)
                  /\ reply' = "SUCCESS"
<1> DEFINE buf == Kept[Head(lines[c])]
<1>1. serving = c
  BY DEF Execute
<1>2. buf \in Seq(Word) /\ words[c] \in 0 .. 3 /\ stores \in [Engine -> SUBSET (Word \X Word)]
  BY ExecuteEffect DEF TypeOK
<1>3. stores' # stores
  OBVIOUS
<1>4. PICK e \in Engine : \E k \in Token(c, buf, Len(buf), 2), v \in Token(c, buf, Len(buf), 3) :
        Effect(buf, e, k, v)
  BY <1>3, ExecuteEffect
<1>5. PICK k \in Token(c, buf, Len(buf), 2), v \in Token(c, buf, Len(buf), 3) :
        Effect(buf, e, k, v)
  BY <1>4
<1> HIDE DEF buf
<1>6. PICK new \in SUBSET (stores[e] \cup {<<k, v>>} \cup Elsewhere) :
        /\ stores' = [stores EXCEPT ![e] = new]
        /\ \/ /\ Asks(buf, e, "SET") /\ Len(buf) >= 3 /\ reply' = "SUCCESS"
              /\ new = stores[e] \cup {<<k, v>>}
           \/ /\ Asks(buf, e, "DEL") /\ reply' = "SUCCESS"
              /\ new = {i \in stores[e] : i[1] # k}
           \/ /\ Asks(buf, e, "MOD") /\ reply' = "SUCCESS"
              /\ new = Overlaid(stores[e], {<<k, v>>})
           \/ /\ Asks(buf, e, "LOAD") \/ Asks(buf, e, "SYNC")
              /\ new \subseteq stores[e] \cup Elsewhere
  BY <1>5 DEF Effect
<1>7. e = f /\ stores'[f] = new
  BY <1>2, <1>6
<1>8. Len(buf) \in Nat /\ {"SET", "DEL", "MOD"} \subseteq Op
  BY <1>2 DEF Op
<1>9. SUFFICES ASSUME ~Undefined(c, buf)
               PROVE  \/ Asks(buf, f, "LOAD") \/ Asks(buf, f, "SYNC")
                      \/ /\ Asks(buf, f, "SET") \/ Asks(buf, f, "DEL") \/ Asks(buf, f, "MOD")
                         /\ item[1] \in Given(buf, 2)
                         /\ reply' = "SUCCESS"
  BY <1>1 DEF buf
<1>10. CASE /\ Asks(buf, e, "SET") /\ Len(buf) >= 3 /\ reply' = "SUCCESS"
            /\ new = stores[e] \cup {<<k, v>>}
  <2>1. item = <<k, v>>
    BY <1>7, <1>10
  <2>2. 2 <= Len(buf)
    BY <1>8, <1>10
  <2>3. k \in Given(buf, 2)
    BY <2>2, TokenOfTheLine
  <2> QED
    BY <1>7, <1>10, <2>1, <2>3
<1>11. CASE /\ Asks(buf, e, "DEL") /\ reply' = "SUCCESS"
            /\ new = {i \in stores[e] : i[1] # k}
  <2>1. item[1] = k
    BY <1>7, <1>11
  <2>2. k \in Given(buf, 2)
    BY <1>2, <1>8, <1>9, <1>11, TokensRead, TokensAreGiven
  <2> QED
    BY <1>7, <1>11, <2>1, <2>2
<1>12. CASE /\ Asks(buf, e, "MOD") /\ reply' = "SUCCESS"
            /\ new = Overlaid(stores[e], {<<k, v>>})
  <2>1. item[1] = k
    BY <1>7, <1>12 DEF Overlaid
  <2>2. k \in Given(buf, 2)
    BY <1>2, <1>8, <1>9, <1>12, TokensRead, TokensAreGiven
  <2> QED
    BY <1>7, <1>12, <2>1, <2>2
<1> QED
  BY <1>6, <1>7, <1>10, <1>11, <1>12

\* Whoever sends what, an item changes or goes only by a line that is a command
\* of its engine, contains its key and is answered SUCCESS; or by LOAD or SYNC,
\* or by a line that reads what was never set.
THEOREM CommandsKeepToTheirItem == Spec => OnlyItsOwnItem
<1>1. TypeOK /\ [Next]_vars =>
        [\A e \in Engine : \A item \in (stores'[e] \ stores[e]) \cup (stores[e] \ stores'[e]) :
            LET buf == Kept[Head(lines[serving])]
                Is(ops) == \E op \in ops : Asks(buf, e, op)
            IN  \/ Is({"LOAD", "SYNC"}) \/ Undefined(serving, buf)
                \/ /\ Is({"SET", "DEL", "MOD"})
                   /\ item[1] \in Given(buf, 2)
                   /\ reply' = "SUCCESS"]_vars
  <2> SUFFICES ASSUME TypeOK, [Next]_vars,
                      NEW e \in Engine,
                      NEW item \in (stores'[e] \ stores[e]) \cup (stores[e] \ stores'[e])
               PROVE  LET buf == Kept[Head(lines[serving])]
                          Is(ops) == \E op \in ops : Asks(buf, e, op)
                      IN  \/ Is({"LOAD", "SYNC"}) \/ Undefined(serving, buf)
                          \/ /\ Is({"SET", "DEL", "MOD"})
                             /\ item[1] \in Given(buf, 2)
                             /\ reply' = "SUCCESS"
    OBVIOUS
  <2>1. stores' # stores
    OBVIOUS
  <2>2. \E c \in Client : Execute(c)
    BY <2>1, OthersKeepItems
  <2> QED
    BY <2>2, ExecuteKeepsToItsItem
<1> QED
  BY <1>1, TypeCorrect, PTL DEF Spec, OnlyItsOwnItem

===============================================================================
