------------------------------ MODULE EpollProofs ------------------------------
(***************************************************************************)
(* Proofs about one connection, for every number of commands, read-buffer  *)
(* size, send-buffer size, client and kernel.                              *)
(***************************************************************************)
EXTENDS EpollConn, SequenceTheorems, FiniteSetTheorems, TLAPS

\* Byte p of all that the client writes, and of all the answers; the bytes
\* after the first a up to b; the commands after a up to b.
Nth(p) == <<(p + 1) \div 2, IF p % 2 = 1 THEN 1 ELSE 2>>
Bytes(a, b) == [i \in 1 .. b - a |-> Nth(a + i)]
Cmds(a, b) == [n \in 1 .. b - a |-> a + n]

-------------------------------------------------------------------------------
LEMMA Halves ==
    ASSUME NEW p \in Nat
    PROVE  /\ p \div 2 \in Nat
           /\ p = 2 * (p \div 2) \/ p = 2 * (p \div 2) + 1
           /\ p % 2 = p - 2 * (p \div 2)
OBVIOUS

LEMMA NthIs ==
    ASSUME NEW p \in Nat \ {0}
    PROVE  \E c \in Nat : \/ p = 2 * c + 1 /\ Nth(p) = <<c + 1, 1>>
                          \/ p = 2 * c + 2 /\ Nth(p) = <<c + 1, 2>>
<1>1. PICK c \in Nat : p = 2 * c + 1 \/ p = 2 * c + 2
  <2>1. (p - 1) \div 2 \in Nat /\ (p - 1 = 2 * ((p - 1) \div 2) \/ p - 1 = 2 * ((p - 1) \div 2) + 1)
    BY Halves
  <2> QED
    BY <2>1
<1>2. CASE p = 2 * c + 1
  <2>1. (p + 1) \div 2 = c + 1 /\ p % 2 = 1
    BY <1>2
  <2> QED
    BY <1>2, <2>1 DEF Nth
<1>3. CASE p = 2 * c + 2
  <2>1. (p + 1) \div 2 = c + 1 /\ p % 2 = 0
    BY <1>3
  <2> QED
    BY <1>3, <2>1 DEF Nth
<1> QED
  BY <1>1, <1>2, <1>3

LEMMA BytesAre ==
    ASSUME NEW a \in Nat, NEW b \in Nat, a <= b
    PROVE  /\ Len(Bytes(a, b)) = b - a
           /\ DOMAIN Bytes(a, b) = 1 .. b - a
           /\ \A i \in 1 .. b - a : Bytes(a, b)[i] = Nth(a + i)
           /\ Bytes(a, b) \in Seq({Nth(p) : p \in Nat})
           /\ Bytes(a, b) = <<>> <=> a = b
<1> DEFINE n == b - a
<1> DEFINE S == {Nth(p) : p \in Nat}
<1>1. n \in Nat /\ (n = 0 <=> a = b)
  OBVIOUS
<1>2. \A i \in 1 .. n : Nth(a + i) \in S
  OBVIOUS
<1>3. Bytes(a, b) = [i \in 1 .. n |-> Nth(a + i)]
  BY DEF Bytes
<1> HIDE DEF n, S
<1>4. Bytes(a, b) \in [1 .. n -> S]
  BY <1>2, <1>3
<1>5. Bytes(a, b) \in Seq(S) /\ Len(Bytes(a, b)) = n
  BY <1>1, <1>4
<1>6. Bytes(a, b) = <<>> <=> n = 0
  BY <1>1, <1>5
<1> QED
  BY <1>1, <1>3, <1>5, <1>6 DEF n, S

LEMMA BytesTyped ==
    ASSUME NEW a \in Nat, NEW b \in Nat, a <= b, b <= 2 * Commands
    PROVE  Bytes(a, b) \in Seq(Byte)
<1>1. \A p \in 1 .. 2 * Commands : Nth(p) \in Byte
  <2> TAKE p \in 1 .. 2 * Commands
  <2>1. p \in Nat \ {0} /\ Commands \in Nat
    BY CommandsAssumption
  <2>2. PICK c \in Nat : \/ p = 2 * c + 1 /\ Nth(p) = <<c + 1, 1>>
                         \/ p = 2 * c + 2 /\ Nth(p) = <<c + 1, 2>>
    BY <2>1, NthIs
  <2>3. c + 1 \in 0 .. Commands
    BY <2>1, <2>2
  <2> QED
    BY <2>2, <2>3 DEF Byte
<1>2. \A i \in 1 .. b - a : a + i \in 1 .. 2 * Commands
  BY CommandsAssumption
<1> QED
  BY <1>1, <1>2 DEF Bytes

LEMMA BytesJoin ==
    ASSUME NEW a \in Nat, NEW b \in Nat, NEW c \in Nat, a <= b, b <= c
    PROVE  Bytes(a, b) \o Bytes(b, c) = Bytes(a, c)
<1> DEFINE s == Bytes(a, b)
<1> DEFINE t == Bytes(b, c)
<1> DEFINE u == Bytes(a, c)
<1> DEFINE S == {Nth(p) : p \in Nat}
<1>0. a <= c
  OBVIOUS
<1>1. s \in Seq(S) /\ t \in Seq(S) /\ u \in Seq(S)
  BY <1>0, BytesAre
<1>2. Len(s) = b - a /\ Len(t) = c - b /\ Len(u) = c - a
  BY <1>0, BytesAre
<1>3. \A i \in 1 .. c - a : u[i] = Nth(a + i)
  BY <1>0, BytesAre
<1>4. (\A i \in 1 .. b - a : s[i] = Nth(a + i)) /\ (\A i \in 1 .. c - b : t[i] = Nth(b + i))
  BY BytesAre
<1> HIDE DEF s, t, u, S
<1>5. /\ s \o t \in Seq(S)
      /\ Len(s \o t) = Len(s) + Len(t)
      /\ \A i \in 1 .. Len(s) + Len(t) :
            (s \o t)[i] = IF i <= Len(s) THEN s[i] ELSE t[i - Len(s)]
  BY <1>1, ConcatProperties
<1>6. Len(s \o t) = Len(u)
  BY <1>2, <1>5
<1>7. ASSUME NEW i \in 1 .. Len(s \o t)
      PROVE  (s \o t)[i] = u[i]
  <2>1. i \in 1 .. c - a
    BY <1>2, <1>6
  <2>2. CASE i <= b - a
    BY <1>2, <1>3, <1>4, <1>5, <2>1, <2>2
  <2>3. CASE i > b - a
    <3>1. i - (b - a) \in 1 .. c - b /\ b + (i - (b - a)) = a + i
      BY <2>1, <2>3
    <3>2. (s \o t)[i] = t[i - (b - a)]
      BY <1>2, <1>5, <2>1, <2>3
    <3> QED
      BY <1>3, <1>4, <2>1, <3>1, <3>2
  <2> QED
    BY <2>1, <2>2, <2>3
<1>8. s \o t = u
  BY <1>1, <1>5, <1>6, <1>7, SeqEqual
<1> QED
  BY <1>8 DEF s, t, u

LEMMA BytesCut ==
    ASSUME NEW a \in Nat, NEW b \in Nat, a <= b,
           NEW i \in 0 .. b - a, NEW j \in i .. b - a
    PROVE  SubSeq(Bytes(a, b), i + 1, j) = Bytes(a + i, a + j)
<1> DEFINE s == Bytes(a, b)
<1> DEFINE u == Bytes(a + i, a + j)
<1> DEFINE t == SubSeq(s, i + 1, j)
<1> DEFINE S == {Nth(p) : p \in Nat}
<1>1. s \in Seq(S) /\ Len(s) = b - a /\ \A m \in 1 .. b - a : s[m] = Nth(a + m)
  BY BytesAre
<1>2. u \in Seq(S) /\ Len(u) = j - i /\ \A m \in 1 .. j - i : u[m] = Nth((a + i) + m)
  <2> DEFINE p == a + i
  <2> DEFINE q == a + j
  <2>1. p \in Nat /\ q \in Nat /\ p <= q /\ q - p = j - i
    OBVIOUS
  <2> HIDE DEF p, q, u, S
  <2>2. /\ Len(Bytes(p, q)) = q - p /\ \A m \in 1 .. q - p : Bytes(p, q)[m] = Nth(p + m)
        /\ Bytes(p, q) \in Seq({Nth(x) : x \in Nat})
    BY ONLY <2>1, BytesAre
  <2> QED
    BY <2>1, <2>2 DEF p, q, u, S
<1> HIDE DEF s, u, S
<1>3. \A m \in i + 1 .. j : s[m] \in S
  BY <1>1
<1>4. /\ t \in Seq(S)
      /\ Len(t) = IF i + 1 <= j THEN j - (i + 1) + 1 ELSE 0
      /\ \A m \in 1 .. j - (i + 1) + 1 : t[m] = s[(i + 1) + m - 1]
  <2>1. i + 1 \in Int /\ j \in Int
    OBVIOUS
  <2> QED
    BY <1>3, <2>1, SubSeqProperties
<1>5. Len(t) = j - i
  BY <1>4
<1>6. ASSUME NEW m \in 1 .. j - i
      PROVE  t[m] = u[m]
  <2>1. m \in 1 .. j - (i + 1) + 1 /\ (i + 1) + m - 1 = i + m /\ i + m \in 1 .. b - a /\ a + (i + m) = (a + i) + m
    OBVIOUS
  <2>2. t[m] = s[i + m]
    BY <1>4, <2>1
  <2> QED
    BY <1>1, <1>2, <2>1, <2>2
<1> HIDE DEF t
<1>7. t = u
  BY <1>2, <1>4, <1>5, <1>6, SeqEqual
<1> QED
  BY <1>7 DEF t, u, s

LEMMA NthOf ==
    ASSUME NEW c \in Nat
    PROVE  Nth(2 * c + 1) = <<c + 1, 1>> /\ Nth(2 * c + 2) = <<c + 1, 2>>
<1>1. ((2 * c + 1) + 1) \div 2 = c + 1 /\ (2 * c + 1) % 2 = 1
  OBVIOUS
<1>2. ((2 * c + 2) + 1) \div 2 = c + 1 /\ (2 * c + 2) % 2 = 0
  OBVIOUS
<1> QED
  BY <1>1, <1>2 DEF Nth

\* The byte the client writes next.
LEMMA NextByte ==
    ASSUME NEW w \in Nat
    PROVE  Line(w \div 2 + 1)[(w % 2) + 1] = Nth(w + 1)
<1>1. w \div 2 \in Nat /\ (w = 2 * (w \div 2) \/ w = 2 * (w \div 2) + 1)
      /\ w % 2 = w - 2 * (w \div 2)
  BY Halves
<1>2. PICK c \in Nat : c = w \div 2
  BY <1>1
<1>3. Line(c + 1)[1] = <<c + 1, 1>> /\ Line(c + 1)[2] = <<c + 1, 2>>
  BY DEF Line
<1>4. CASE w = 2 * c /\ w % 2 = 0
  BY <1>2, <1>3, <1>4, NthOf
<1>5. CASE w = 2 * c + 1 /\ w % 2 = 1
  BY <1>2, <1>3, <1>5, NthOf
<1> QED
  BY <1>1, <1>2, <1>4, <1>5

LEMMA CmdsAre ==
    ASSUME NEW a \in Nat, NEW b \in Nat, a <= b
    PROVE  /\ Len(Cmds(a, b)) = b - a
           /\ DOMAIN Cmds(a, b) = 1 .. b - a
           /\ \A i \in 1 .. b - a : Cmds(a, b)[i] = a + i
           /\ Cmds(a, b) \in Seq(Nat)
           /\ Cmds(a, b) = <<>> <=> a = b
<1> DEFINE n == b - a
<1>1. n \in Nat /\ (n = 0 <=> a = b)
  OBVIOUS
<1>2. \A i \in 1 .. n : a + i \in Nat
  OBVIOUS
<1>3. Cmds(a, b) = [i \in 1 .. n |-> a + i]
  BY DEF Cmds
<1> HIDE DEF n
<1>4. Cmds(a, b) \in [1 .. n -> Nat]
  BY <1>2, <1>3
<1>5. Cmds(a, b) \in Seq(Nat) /\ Len(Cmds(a, b)) = n
  BY <1>1, <1>4
<1>6. Cmds(a, b) = <<>> <=> n = 0
  BY <1>1, <1>5
<1> QED
  BY <1>1, <1>3, <1>5, <1>6 DEF n

LEMMA CmdsTyped ==
    ASSUME NEW a \in Nat, NEW b \in Nat, a <= b, b <= Commands
    PROVE  Cmds(a, b) \in Seq(0 .. Commands)
<1>1. \A i \in 1 .. b - a : a + i \in 0 .. Commands
  BY CommandsAssumption
<1> QED
  BY <1>1 DEF Cmds

LEMMA CmdsJoin ==
    ASSUME NEW a \in Nat, NEW b \in Nat, NEW c \in Nat, a <= b, b <= c
    PROVE  Cmds(a, b) \o Cmds(b, c) = Cmds(a, c)
<1> DEFINE s == Cmds(a, b)
<1> DEFINE t == Cmds(b, c)
<1> DEFINE u == Cmds(a, c)
<1>0. a <= c
  OBVIOUS
<1>1. s \in Seq(Nat) /\ t \in Seq(Nat) /\ u \in Seq(Nat)
  BY <1>0, CmdsAre
<1>2. Len(s) = b - a /\ Len(t) = c - b /\ Len(u) = c - a
  BY <1>0, CmdsAre
<1>3. \A i \in 1 .. c - a : u[i] = a + i
  BY <1>0, CmdsAre
<1>4. (\A i \in 1 .. b - a : s[i] = a + i) /\ (\A i \in 1 .. c - b : t[i] = b + i)
  BY CmdsAre
<1> HIDE DEF s, t, u
<1>5. /\ s \o t \in Seq(Nat)
      /\ Len(s \o t) = Len(s) + Len(t)
      /\ \A i \in 1 .. Len(s) + Len(t) :
            (s \o t)[i] = IF i <= Len(s) THEN s[i] ELSE t[i - Len(s)]
  BY <1>1, ConcatProperties
<1>6. Len(s \o t) = Len(u)
  BY <1>2, <1>5
<1>7. ASSUME NEW i \in 1 .. Len(s \o t)
      PROVE  (s \o t)[i] = u[i]
  <2>1. i \in 1 .. c - a
    BY <1>2, <1>6
  <2>2. CASE i <= b - a
    BY <1>2, <1>3, <1>4, <1>5, <2>1, <2>2
  <2>3. CASE i > b - a
    <3>1. i - (b - a) \in 1 .. c - b /\ b + (i - (b - a)) = a + i
      BY <2>1, <2>3
    <3>2. (s \o t)[i] = t[i - (b - a)]
      BY <1>2, <1>5, <2>1, <2>3
    <3> QED
      BY <1>3, <1>4, <2>1, <3>1, <3>2
  <2> QED
    BY <2>1, <2>2, <2>3
<1>8. s \o t = u
  BY <1>1, <1>5, <1>6, <1>7, SeqEqual
<1> QED
  BY <1>8 DEF s, t, u

\* The answers to commands are the bytes with their numbers.
LEMMA StreamOfCmds ==
    ASSUME NEW a \in Nat, NEW b \in Nat, a <= b
    PROVE  Stream(Cmds(a, b)) = Bytes(2 * a, 2 * b)
<1> DEFINE cs == Cmds(a, b)
<1>1. Len(cs) = b - a /\ \A i \in 1 .. b - a : cs[i] = a + i
  BY CmdsAre
<1> HIDE DEF cs
<1>2. 2 * Len(cs) = 2 * b - 2 * a
  BY <1>1
<1>3. ASSUME NEW i \in 1 .. 2 * b - 2 * a
      PROVE  Line(cs[(i + 1) \div 2])[IF i % 2 = 1 THEN 1 ELSE 2] = Nth(2 * a + i)
  <2>1. PICK m \in Nat : i = 2 * m + 1 \/ i = 2 * m + 2
    <3>1. (i - 1) \div 2 \in Nat /\ (i - 1 = 2 * ((i - 1) \div 2) \/ i - 1 = 2 * ((i - 1) \div 2) + 1)
      BY Halves
    <3> QED
      BY <3>1
  <2>2. m + 1 \in 1 .. b - a
    BY <2>1
  <2>3. cs[m + 1] = (a + m) + 1
    BY <1>1, <2>2
  <2>4. Line((a + m) + 1)[1] = <<(a + m) + 1, 1>> /\ Line((a + m) + 1)[2] = <<(a + m) + 1, 2>>
    BY DEF Line
  <2>5. /\ Nth(2 * (a + m) + 1) = <<(a + m) + 1, 1>>
        /\ Nth(2 * (a + m) + 2) = <<(a + m) + 1, 2>>
    <3>1. a + m \in Nat
      OBVIOUS
    <3> QED
      BY <3>1, NthOf
  <2>6. CASE i = 2 * m + 1
    <3>1. (i + 1) \div 2 = m + 1 /\ i % 2 = 1 /\ 2 * a + i = 2 * (a + m) + 1
      BY <2>6
    <3> QED
      BY <2>3, <2>4, <2>5, <3>1
  <2>7. CASE i = 2 * m + 2
    <3>1. (i + 1) \div 2 = m + 1 /\ i % 2 = 0 /\ 2 * a + i = 2 * (a + m) + 2
      BY <2>7
    <3> QED
      BY <2>3, <2>4, <2>5, <3>1
  <2> QED
    BY <2>1, <2>6, <2>7
<1>4. Stream(cs) = [i \in 1 .. 2 * b - 2 * a |-> Nth(2 * a + i)]
  BY <1>2, <1>3 DEF Stream
<1> QED
  BY <1>4 DEF cs, Bytes

\* Every second byte is a newline.
LEMMA NewlineAt ==
    ASSUME NEW a \in Nat, NEW i \in Nat \ {0}
    PROVE  Newline(Nth(2 * a + i)) <=> \E m \in Nat \ {0} : i = 2 * m
<1>1. PICK c \in Nat : \/ i = 2 * c + 1
                       \/ i = 2 * c + 2
  BY NthIs
<1>2. /\ Nth(2 * (a + c) + 1) = <<(a + c) + 1, 1>>
      /\ Nth(2 * (a + c) + 2) = <<(a + c) + 1, 2>>
  <2>1. a + c \in Nat
    OBVIOUS
  <2> QED
    BY <2>1, NthOf
<1>3. CASE i = 2 * c + 1
  <2>1. 2 * a + i = 2 * (a + c) + 1
    BY <1>3
  <2>2. ~Newline(Nth(2 * a + i))
    BY <1>2, <2>1 DEF Newline
  <2> QED
    BY <1>3, <2>2
<1>4. CASE i = 2 * c + 2
  <2>1. 2 * a + i = 2 * (a + c) + 2 /\ i = 2 * (c + 1) /\ c + 1 \in Nat \ {0}
    BY <1>4
  <2>2. Newline(Nth(2 * a + i))
    BY <1>2, <2>1 DEF Newline
  <2> QED
    BY <2>1, <2>2
<1> QED
  BY <1>1, <1>3, <1>4

\* The last newline of bytes that start with a whole line.
LEMMA LastNewlineIs ==
    ASSUME NEW k \in Nat, NEW m \in Nat, k <= m, NEW r \in {2 * m, 2 * m + 1}
    PROVE  LastNewline(Bytes(2 * k, r)) = 2 * m - 2 * k
<1> DEFINE s == Bytes(2 * k, r)
<1> DEFINE Last(i) == /\ i = 0 \/ Newline(s[i])
                      /\ \A j \in i + 1 .. Len(s) : ~Newline(s[j])
<1> DEFINE l == 2 * m - 2 * k
<1>1. Len(s) = r - 2 * k /\ \A i \in 1 .. r - 2 * k : s[i] = Nth(2 * k + i)
  <2>1. 2 * k \in Nat /\ r \in Nat /\ 2 * k <= r
    OBVIOUS
  <2> QED
    BY <2>1, BytesAre
<1> HIDE DEF s
<1>2. ASSUME NEW i \in 1 .. Len(s)
      PROVE  Newline(s[i]) <=> \E n \in Nat \ {0} : i = 2 * n
  <2>1. i \in Nat \ {0} /\ s[i] = Nth(2 * k + i)
    BY <1>1
  <2> QED
    BY ONLY <2>1, NewlineAt
<1>3. l \in 0 .. Len(s)
  BY <1>1
<1>4. Last(l)
  <2>1. l = 0 \/ Newline(s[l])
    <3>1. l = 2 * (m - k) /\ (l = 0 \/ (m - k \in Nat \ {0} /\ l \in 1 .. Len(s)))
      BY <1>1
    <3> QED
      BY <1>2, <3>1
  <2>2. \A j \in l + 1 .. Len(s) : ~Newline(s[j])
    <3> TAKE j \in l + 1 .. Len(s)
    <3>1. j = 2 * (m - k) + 1 /\ j \in 1 .. Len(s)
      BY <1>1
    <3>2. ~\E n \in Nat \ {0} : j = 2 * n
      BY <3>1
    <3> QED
      BY <1>2, <3>1, <3>2
  <2> QED
    BY <2>1, <2>2
<1>5. ASSUME NEW i \in 0 .. Len(s), Last(i)
      PROVE  i = l
  <2>1. CASE i < l
    <3>1. l \in i + 1 .. Len(s) /\ l # 0
      BY <1>3, <2>1
    <3> QED
      BY <1>4, <1>5, <3>1
  <2>2. CASE l < i
    <3>1. i \in l + 1 .. Len(s) /\ i # 0
      BY <1>3, <2>2
    <3> QED
      BY <1>4, <1>5, <3>1
  <2> QED
    BY <1>3, <2>1, <2>2
<1>6. LastNewline(s) = CHOOSE i \in 0 .. Len(s) : Last(i)
  BY DEF LastNewline
<1> HIDE DEF Last, l
<1>7. LastNewline(s) = l
  BY <1>3, <1>4, <1>5, <1>6
<1> QED
  BY <1>7 DEF s, l

\* As many as m even numbers are positive and not above 2 * m.
LEMMA Evens ==
    ASSUME NEW m \in Nat, NEW S, S = {2 * n : n \in 1 .. m}
    PROVE  Cardinality(S) = m
<1> DEFINE f == [n \in 1 .. m |-> 2 * n]
<1>1. f \in Bijection(1 .. m, S)
  <2>1. f \in [1 .. m -> S] /\ \A x, y \in 1 .. m : f[x] = f[y] => x = y
    OBVIOUS
  <2>2. \A y \in S : \E x \in 1 .. m : f[x] = y
    OBVIOUS
  <2> HIDE DEF f
  <2> QED
    BY <2>1, <2>2 DEF Bijection, Injection, Surjection, IsInjective
<1>2. IsFiniteSet(1 .. m) /\ Cardinality(1 .. m) = m
  <2>1. 1 \in Int /\ m \in Int
    OBVIOUS
  <2>2. IsFiniteSet(1 .. m) /\ Cardinality(1 .. m) = IF 1 > m THEN 0 ELSE m - 1 + 1
    BY <2>1, FS_Interval
  <2> QED
    BY <2>2
<1>3. ExistsBijection(1 .. m, S)
  BY <1>1 DEF ExistsBijection
<1> QED
  BY <1>2, <1>3, FS_Bijection

\* Whole lines are parsed into the commands the client wrote.
LEMMA ParseIs ==
    ASSUME NEW a \in Nat, NEW b \in Nat, a <= b
    PROVE  Parse(Bytes(2 * a, 2 * b)) = Cmds(a, b)
<1> DEFINE s == Bytes(2 * a, 2 * b)
<1> DEFINE ends == {i \in DOMAIN s : Newline(s[i])}
<1> DEFINE EndOf(n) == CHOOSE i \in ends : Cardinality({j \in ends : j <= i}) = n
<1> DEFINE Start(n) == IF n = 1 THEN 1 ELSE EndOf(n - 1) + 1
<1>1. Parse(s) = [n \in 1 .. Cardinality(ends) |->
                    IF SubSeq(s, Start(n), EndOf(n)) = Line(s[EndOf(n)][1])
                    THEN s[EndOf(n)][1] ELSE 0]
  BY DEF Parse
<1>2. DOMAIN s = 1 .. 2 * b - 2 * a /\ \A i \in 1 .. 2 * b - 2 * a : s[i] = Nth(2 * a + i)
  <2>1. 2 * a \in Nat /\ 2 * b \in Nat /\ 2 * a <= 2 * b
    OBVIOUS
  <2> QED
    BY <2>1, BytesAre
<1> HIDE DEF s
<1>3. ends = {2 * n : n \in 1 .. b - a}
  <2>1. \A i \in DOMAIN s : Newline(s[i]) <=> \E m \in Nat \ {0} : i = 2 * m
    <3> TAKE i \in DOMAIN s
    <3>1. i \in Nat \ {0} /\ s[i] = Nth(2 * a + i)
      BY <1>2
    <3> QED
      BY ONLY <3>1, NewlineAt
  <2>2. \A n \in 1 .. b - a : 2 * n \in DOMAIN s /\ n \in Nat \ {0}
    BY <1>2
  <2>3. \A i \in DOMAIN s, m \in Nat \ {0} : i = 2 * m => m \in 1 .. b - a
    BY <1>2
  <2> QED
    BY <2>1, <2>2, <2>3
<1>4. Cardinality(ends) = b - a
  <2>1. b - a \in Nat
    OBVIOUS
  <2> QED
    BY <1>3, <2>1, Evens
<1>5. ASSUME NEW m \in 1 .. b - a
      PROVE  Cardinality({j \in ends : j <= 2 * m}) = m
  <2>1. {j \in ends : j <= 2 * m} = {2 * n : n \in 1 .. m}
    BY <1>3
  <2> QED
    BY <2>1, Evens
<1> HIDE DEF ends
<1>6. ASSUME NEW m \in 1 .. b - a
      PROVE  EndOf(m) = 2 * m
  <2>1. 2 * m \in ends /\ Cardinality({j \in ends : j <= 2 * m}) = m
    BY <1>3, <1>5
  <2>2. \A i \in ends : Cardinality({j \in ends : j <= i}) = m => i = 2 * m
    <3> TAKE i \in ends
    <3>1. PICK n \in 1 .. b - a : i = 2 * n
      BY <1>3
    <3> QED
      BY <1>5, <3>1
  <2> QED
    BY <2>1, <2>2
<1> HIDE DEF EndOf
<1>7. ASSUME NEW m \in 1 .. b - a
      PROVE  Start(m) = 2 * m - 1
  <2>1. CASE m = 1
    BY <2>1
  <2>2. CASE m # 1
    <3>1. m - 1 \in 1 .. b - a
      BY <2>2
    <3>2. EndOf(m - 1) = 2 * (m - 1) /\ 2 * (m - 1) + 1 = 2 * m - 1
      BY <1>6, <3>1
    <3> QED
      BY <2>2, <3>2
  <2> QED
    BY <2>1, <2>2
<1> HIDE DEF Start
<1>8. ASSUME NEW m \in 1 .. b - a
      PROVE  /\ SubSeq(s, Start(m), EndOf(m)) = Line(s[EndOf(m)][1])
             /\ s[EndOf(m)][1] = a + m
  <2>1. s[2 * m] = Nth(2 * a + 2 * m)
    BY <1>2
  <2>2. PICK c \in Nat : c = a + m - 1
    OBVIOUS
  <2>3. Nth(2 * c + 1) = <<c + 1, 1>> /\ Nth(2 * c + 2) = <<c + 1, 2>>
    BY NthOf
  <2>4. 2 * c + 2 = 2 * a + 2 * m /\ c + 1 = a + m
    BY <2>2
  <2>5. s[EndOf(m)][1] = c + 1
    BY <1>6, <2>1, <2>3, <2>4
  <2>6. SubSeq(s, 2 * m - 1, 2 * m) = Bytes(2 * c, 2 * c + 2)
    <3>1. /\ 2 * a \in Nat /\ 2 * b \in Nat /\ 2 * a <= 2 * b
          /\ 2 * m - 2 \in 0 .. 2 * b - 2 * a
          /\ 2 * m \in 2 * m - 2 .. 2 * b - 2 * a
          /\ (2 * m - 2) + 1 = 2 * m - 1
          /\ 2 * a + (2 * m - 2) = 2 * c
          /\ 2 * a + 2 * m = 2 * c + 2
      BY <2>2
    <3>2. SubSeq(s, (2 * m - 2) + 1, 2 * m) = Bytes(2 * a + (2 * m - 2), 2 * a + 2 * m)
      BY <3>1, BytesCut DEF s
    <3> QED
      BY <3>1, <3>2
  <2>7. Bytes(2 * c, 2 * c + 2) = Line(c + 1)
    <3>1. Bytes(2 * c, 2 * c + 2) = [i \in 1 .. 2 |-> Nth(2 * c + i)]
      BY DEF Bytes
    <3>2. [i \in 1 .. 2 |-> Nth(2 * c + i)] = <<Nth(2 * c + 1), Nth(2 * c + 2)>>
      OBVIOUS
    <3> QED
      BY <2>3, <3>1, <3>2 DEF Line
  <2> QED
    BY <1>6, <1>7, <2>4, <2>5, <2>6, <2>7
<1>9. Parse(s) = [n \in 1 .. b - a |-> a + n]
  BY <1>1, <1>4, <1>8
<1> QED
  BY <1>9 DEF s, Cmds

-------------------------------------------------------------------------------
\* The number of a byte, and bytes whose numbers ascend up to h.
Rank(b) == 2 * b[1] + b[2] - 2
Ascends(s, h) ==
    \A i \in 1 .. Len(s) :
        /\ \E p \in 1 .. h : s[i] = Nth(p)
        /\ i > 1 => Rank(s[i - 1]) < Rank(s[i])

\* How much has been received: all but a part of a line is executed, in order.
Received == 2 * Len(executed) + Len(r_buf)
Input ==
    /\ Len(r_buf) \in {0, 1} /\ Received <= written
    /\ executed = Cmds(0, Len(executed))
    /\ r_buf = Bytes(2 * Len(executed), Received)
    /\ rx = Bytes(Received, written)

\* No answer has been dropped.
Whole == Roomy /\ ~setting.refusing /\ registered /\ up /\ peer # "rst"

\* The answers in the queue are those of the last commands, the string holds
\* some before them, and what was sent is of those before; all of them if none
\* was dropped.
Sent(p, q) ==
    /\ p <= q /\ q <= Len(executed)
    /\ send_queue = Cmds(q, Len(executed))
    /\ response = Bytes(2 * p, 2 * q)
    /\ pc # "send" => p = q
    /\ pc = "send" => q = Len(executed)
    /\ Ascends(delivered \o tx, 2 * p)
    /\ Whole => delivered \o tx = Bytes(0, 2 * p)
Output == \E p, q \in 0 .. Commands : Sent(p, q)

\* The loop has been told of, or will look at, what waits.
Events ==
    /\ ready => registered
    /\ up /\ pc \in {"read", "send"} => registered
    /\ registered /\ up /\ pc # "read" /\ (rx # <<>> \/ peer # "open") => ready
    /\ registered /\ up /\ send_queue # <<>> =>
          /\ "OUT" \in mask
          /\ Len(tx) < SndBuf => ready \/ (pc \in {"read", "write"} /\ "OUT" \in revents)

\* With a client that waits for its answers and room for them, EPOLLOUT is
\* asked for and reported only while answers are queued.
Careful ==
    Roomy /\ ~setting.refusing /\ setting.polite =>
        /\ up /\ peer # "rst" /\ "ERR" \notin revents /\ pc # "error"
        /\ peer = "open" => registered
        /\ peer = "fin" => Len(delivered) = 2 * Commands /\ tx = <<>>
        /\ registered /\ "OUT" \in mask => send_queue # <<>>
        /\ pc \in {"read", "write"} /\ "OUT" \in revents => send_queue # <<>>
        /\ pc # "wait" => registered
        /\ pc = "write" => "OUT" \in revents
        /\ pc = "send" => response # <<>>

Inv == TypeOK /\ Input /\ Output /\ Events /\ Careful

-------------------------------------------------------------------------------
LEMMA SettingIs ==
    ASSUME TypeOK
    PROVE  /\ SndBuf \in Nat \ {0} /\ setting.refusing \in BOOLEAN /\ setting.polite \in BOOLEAN
           /\ Commands \in Nat /\ ReadMax \in Nat \ {0}
<1>1. setting \in [room : Nat \ {0}, refusing : BOOLEAN, polite : BOOLEAN]
  BY SettingsAssumption DEF TypeOK
<1>2. setting.refusing \in BOOLEAN /\ setting.polite \in BOOLEAN
  BY <1>1, Zenon
<1> QED
  BY <1>1, <1>2, CommandsAssumption, ReadMaxAssumption DEF SndBuf

\* The numbers in Input are naturals in their order.
LEMMA InputIs ==
    ASSUME TypeOK, Input
    PROVE  /\ Len(executed) \in 0 .. Commands
           /\ Received \in {2 * Len(executed), 2 * Len(executed) + 1}
           /\ Received <= written /\ written <= 2 * Commands
           /\ Received \in Nat /\ written \in Nat
           /\ Len(rx) = written - Received
<1>1. Len(executed) \in Nat /\ written \in 0 .. 2 * Commands /\ Commands \in Nat
  <2>1. executed \in Seq(0 .. Commands) /\ written \in 0 .. 2 * Commands
    BY DEF TypeOK
  <2> QED
    BY <2>1, SettingIs
<1>2. Received \in {2 * Len(executed), 2 * Len(executed) + 1} /\ Received <= written
  <2>1. Len(r_buf) \in {0, 1} /\ Received <= written
    BY DEF Input
  <2>2. Received = 2 * Len(executed) + Len(r_buf)
    BY DEF Received
  <2>3. \A x \in Nat, y \in {0, 1} : 2 * x + y \in {2 * x, 2 * x + 1}
    OBVIOUS
  <2> QED
    BY <1>1, <2>1, <2>2, <2>3
<1>3. Received \in Nat /\ written \in Nat
  BY <1>1, <1>2
<1>4. Len(rx) = written - Received
  BY <1>2, <1>3, BytesAre DEF Input
<1> QED
  BY <1>1, <1>2, <1>3, <1>4

\* What recv() and the lines it completes make of the input.
Got(m, r) ==
    /\ m \in Len(executed) .. Commands /\ r \in {2 * m, 2 * m + 1} /\ r <= written
    /\ executed' = Cmds(0, m)
    /\ send_queue' = send_queue \o Cmds(Len(executed), m)
    /\ r_buf' = Bytes(2 * m, r)
    /\ rx' = Bytes(r, written)
    /\ IF m = Len(executed) THEN UNCHANGED epoll ELSE Modify({"IN", "OUT"}, rx', tx)

LEMMA RecvGets ==
    ASSUME TypeOK, Input, Recv
    PROVE  \E m \in Nat, r \in Nat : Got(m, r)
<1> DEFINE k == Len(executed)
<1> DEFINE n == Smaller(ReadMax, Len(rx))
<1> DEFINE r == Received + n
<1> DEFINE m == r \div 2
<1>1. /\ k \in 0 .. Commands /\ Received \in {2 * k, 2 * k + 1} /\ Received \in Nat
      /\ Received <= written /\ written <= 2 * Commands /\ written \in Nat
      /\ Len(rx) = written - Received /\ Commands \in Nat
  BY InputIs, SettingIs
<1>2. n \in Nat /\ n <= written - Received
  BY <1>1, SettingIs DEF Smaller
<1>3. r \in Nat /\ Received <= r /\ r <= written
  BY <1>1, <1>2
<1>4. m \in Nat /\ r \in {2 * m, 2 * m + 1}
  BY <1>3, Halves
<1> HIDE DEF m
<1>5. k <= m /\ m <= Commands /\ k \in Nat
  BY <1>1, <1>3, <1>4
<1> DEFINE rest == SubSeq(rx, n + 1, Len(rx))
<1> DEFINE buf == r_buf \o SubSeq(rx, 1, n)
<1>6. rest = Bytes(r, written)
  <2>1. n \in 0 .. written - Received /\ written - Received \in n .. written - Received
    BY <1>1, <1>2
  <2>2. SubSeq(Bytes(Received, written), n + 1, written - Received)
          = Bytes(Received + n, Received + (written - Received))
    BY <1>1, <2>1, BytesCut
  <2>3. Received + (written - Received) = written
    BY <1>1
  <2> QED
    BY <1>1, <2>2, <2>3 DEF Input
<1>7. buf = Bytes(2 * k, r)
  <2>1. 0 \in 0 .. written - Received /\ n \in 0 .. written - Received
    BY <1>1, <1>2
  <2>2. SubSeq(Bytes(Received, written), 0 + 1, n) = Bytes(Received + 0, Received + n)
    BY <1>1, <2>1, BytesCut
  <2>3. SubSeq(rx, 1, n) = Bytes(Received, r)
    BY <1>1, <2>2 DEF Input
  <2>4. 2 * k \in Nat /\ 2 * k <= Received
    BY <1>1
  <2> HIDE DEF r, k
  <2>5. Bytes(2 * k, Received) \o Bytes(Received, r) = Bytes(2 * k, r)
    BY <1>1, <1>3, <2>4, BytesJoin
  <2> QED
    BY <2>3, <2>5 DEF Input, k
<1> HIDE DEF r, n
<1> DEFINE last == LastNewline(buf)
<1>8. last = 2 * m - 2 * k
  BY <1>1, <1>4, <1>5, <1>7, LastNewlineIs
<1>9. /\ SubSeq(buf, 1, last) = Bytes(2 * k, 2 * m)
      /\ SubSeq(buf, last + 1, Len(buf)) = Bytes(2 * m, r)
  <2>1. 2 * k \in Nat /\ r \in Nat /\ 2 * k <= r /\ last \in 0 .. r - 2 * k
    BY <1>1, <1>3, <1>4, <1>5, <1>8
  <2>2. 0 \in 0 .. r - 2 * k /\ r - 2 * k \in last .. r - 2 * k /\ last \in 0 .. r - 2 * k
    BY <2>1
  <2>3. SubSeq(Bytes(2 * k, r), 0 + 1, last) = Bytes(2 * k + 0, 2 * k + last)
    BY <2>1, <2>2, BytesCut
  <2>4. SubSeq(Bytes(2 * k, r), last + 1, r - 2 * k) = Bytes(2 * k + last, 2 * k + (r - 2 * k))
    BY <2>1, <2>2, BytesCut
  <2>5. Len(buf) = r - 2 * k
    BY <1>7, <2>1, BytesAre
  <2>6. 2 * k + 0 = 2 * k /\ 2 * k + last = 2 * m /\ 2 * k + (r - 2 * k) = r /\ 0 + 1 = 1
    BY <1>1, <1>3, <1>4, <1>8
  <2> HIDE DEF last, buf
  <2> QED
    BY <1>7, <2>3, <2>4, <2>5, <2>6
<1>10. Parse(SubSeq(buf, 1, last)) = Cmds(k, m)
  BY <1>1, <1>4, <1>5, <1>9, ParseIs
<1>11. executed \o Cmds(k, m) = Cmds(0, m)
  <2>1. 0 \in Nat /\ k \in Nat /\ 0 <= k
    BY <1>1
  <2>2. executed = Cmds(0, k)
    BY DEF Input
  <2> QED
    <3>1. m \in Nat /\ k <= m
      BY <1>4, <1>5
    <3>2. Cmds(0, k) \o Cmds(k, m) = Cmds(0, m)
      BY ONLY <2>1, <3>1, CmdsJoin
    <3> QED
      BY <2>2, <3>2, Zenon
<1>12. last = 0 <=> m = k
  BY <1>1, <1>4, <1>8
<1>13. rx' = rest /\ Process(buf, rest)
  BY DEF Recv, n
<1> HIDE DEF buf, rest
<1>14. /\ r_buf' = SubSeq(buf, last + 1, Len(buf))
       /\ executed' = executed \o Parse(SubSeq(buf, 1, last))
       /\ send_queue' = send_queue \o Parse(SubSeq(buf, 1, last))
       /\ IF last = 0 THEN UNCHANGED epoll ELSE Modify({"IN", "OUT"}, rest, tx)
  BY <1>13 DEF Process
<1> HIDE DEF last
<1>15. /\ m \in k .. Commands /\ r \in {2 * m, 2 * m + 1} /\ r <= written
       /\ executed' = Cmds(0, m)
       /\ send_queue' = send_queue \o Cmds(k, m)
  <2>1. m \in k .. Commands /\ r \in {2 * m, 2 * m + 1} /\ r <= written
    BY <1>1, <1>3, <1>4, <1>5
  <2> QED
    BY <2>1, <1>10, <1>11, <1>14
<1>16. r_buf' = Bytes(2 * m, r) /\ rx' = Bytes(r, written)
  BY <1>6, <1>9, <1>13, <1>14
<1>17. IF m = k THEN UNCHANGED epoll ELSE Modify({"IN", "OUT"}, rx', tx)
  BY <1>12, <1>13, <1>14
<1>18. Got(m, r)
  BY <1>15, <1>16, <1>17 DEF Got
<1> QED
  BY <1>3, <1>4, <1>18

LEMMA SameInput ==
    ASSUME Input, UNCHANGED <<rx, r_buf, executed, written>>
    PROVE  Input'
BY DEF Input, Received

LEMMA WriteInput ==
    ASSUME TypeOK, Input, ClientWrite
    PROVE  Input' /\ rx' \in Seq(Byte) /\ written' \in 0 .. 2 * Commands
<1>1. /\ Received \in Nat /\ written \in Nat /\ Received <= written /\ written < 2 * Commands
      /\ written' = written + 1
  BY InputIs DEF ClientWrite
<1>2. rx' = Append(rx, Nth(written + 1))
  BY <1>1, NextByte DEF ClientWrite
<1>3. Bytes(written, written + 1) = <<Nth(written + 1)>>
  <2>1. (written + 1) - written = 1
    BY <1>1
  <2> QED
    BY <2>1 DEF Bytes
<1>4. rx' = rx \o Bytes(written, written + 1)
  <2>1. rx \in Seq(Byte) /\ Nth(written + 1) \in Byte
    <3>1. written + 1 \in Nat \ {0}
      BY <1>1
    <3>2. PICK c \in Nat : \/ written + 1 = 2 * c + 1 /\ Nth(written + 1) = <<c + 1, 1>>
                           \/ written + 1 = 2 * c + 2 /\ Nth(written + 1) = <<c + 1, 2>>
      BY <3>1, NthIs
    <3>3. c + 1 \in 0 .. Commands
      BY <1>1, <3>2, SettingIs
    <3> QED
      BY <3>2, <3>3 DEF Byte, TypeOK
  <2> QED
    BY <1>2, <1>3, <2>1, AppendIsConcat
<1>5. rx' = Bytes(Received, written + 1)
  <2>1. written + 1 \in Nat /\ written <= written + 1
    BY <1>1
  <2> QED
    BY <1>1, <1>4, <2>1, BytesJoin DEF Input
<1>6. UNCHANGED <<r_buf, executed>>
  BY DEF ClientWrite, object
<1>7. rx' \in Seq(Byte)
  <2>1. written + 1 \in Nat /\ Received <= written + 1 /\ written + 1 <= 2 * Commands
    BY <1>1, SettingIs
  <2> QED
    BY <1>1, <1>5, <2>1, BytesTyped
<1>8. written' \in 0 .. 2 * Commands
  BY <1>1, SettingIs
<1>9. Received' = Received
  BY <1>6 DEF Received
<1> QED
  BY <1>1, <1>5, <1>6, <1>7, <1>8, <1>9 DEF Input

LEMMA RecvInput ==
    ASSUME TypeOK, Input, Recv
    PROVE  /\ Input'
           /\ rx' \in Seq(Byte) /\ r_buf' \in Seq(Byte) /\ executed' \in Seq(0 .. Commands)
<1>1. PICK m \in Nat, r \in Nat : Got(m, r)
  BY RecvGets
<1>2. /\ Commands \in Nat /\ written \in Nat /\ written <= 2 * Commands
      /\ Len(executed) \in Nat
  BY SettingIs, InputIs
<1>3. m <= Commands /\ 2 * m <= r /\ r <= written /\ r \in {2 * m, 2 * m + 1}
  BY <1>1, <1>2 DEF Got
<1>4. Len(executed') = m /\ executed' = Cmds(0, Len(executed'))
  <2>1. 0 \in Nat /\ 0 <= m /\ m - 0 = m
    OBVIOUS
  <2>2. Len(Cmds(0, m)) = m
    BY <2>1, CmdsAre
  <2> QED
    BY <1>1, <2>2 DEF Got
<1>5. Len(r_buf') = r - 2 * m
  <2>1. 2 * m \in Nat
    OBVIOUS
  <2>2. Len(Bytes(2 * m, r)) = r - 2 * m
    BY <1>3, <2>1, BytesAre
  <2> QED
    BY <1>1, <2>2 DEF Got
<1>6. Received' = r
  BY <1>3, <1>4, <1>5 DEF Received
<1>7. written' = written
  BY DEF Recv, client
<1>8. Input'
  <2>1. Len(r_buf') \in {0, 1} /\ Received' <= written'
    BY <1>3, <1>5, <1>6, <1>7
  <2>2. r_buf' = Bytes(2 * Len(executed'), Received') /\ rx' = Bytes(Received', written')
    BY <1>1, <1>4, <1>6, <1>7 DEF Got
  <2> QED
    BY <1>4, <2>1, <2>2 DEF Input
<1>9. rx' \in Seq(Byte)
  BY <1>1, <1>2, <1>3, BytesTyped DEF Got
<1>10. r_buf' \in Seq(Byte)
  <2>1. 2 * m \in Nat /\ r <= 2 * Commands
    BY <1>2, <1>3
  <2> QED
    BY <1>1, <1>3, <2>1, BytesTyped DEF Got
<1>11. executed' \in Seq(0 .. Commands)
  <2>1. 0 \in Nat /\ 0 <= m
    OBVIOUS
  <2> QED
    BY <1>1, <1>3, <2>1, CmdsTyped DEF Got
<1> QED
  BY <1>8, <1>9, <1>10, <1>11

-------------------------------------------------------------------------------
LEMMA RankOf ==
    ASSUME NEW p \in Nat \ {0}
    PROVE  Rank(Nth(p)) = p
<1>1. PICK c \in Nat : \/ p = 2 * c + 1 /\ Nth(p) = <<c + 1, 1>>
                       \/ p = 2 * c + 2 /\ Nth(p) = <<c + 1, 2>>
  BY NthIs
<1> QED
  BY <1>1 DEF Rank

LEMMA AscendsMore ==
    ASSUME NEW s \in Seq(Byte), NEW a \in Nat, NEW b \in Nat, a <= b, b <= 2 * Commands,
           Ascends(s, a)
    PROVE  Ascends(s \o Bytes(a, b), b)
<1> DEFINE t == Bytes(a, b)
<1> DEFINE u == s \o t
<1>1. t \in Seq(Byte) /\ Len(t) = b - a /\ \A i \in 1 .. b - a : t[i] = Nth(a + i)
  BY BytesAre, BytesTyped
<1> HIDE DEF t
<1>2. /\ Len(u) = Len(s) + Len(t)
      /\ \A i \in 1 .. Len(s) + Len(t) : u[i] = IF i <= Len(s) THEN s[i] ELSE t[i - Len(s)]
  BY <1>1, ConcatProperties
<1> HIDE DEF u
<1>3. Len(s) \in Nat
  OBVIOUS
<1>4. ASSUME NEW i \in 1 .. Len(u), i <= Len(s)
      PROVE  /\ \E p \in 1 .. b : u[i] = Nth(p)
             /\ i > 1 => Rank(u[i - 1]) < Rank(u[i])
  <2>0. i \in 1 .. Len(s) /\ i \in 1 .. Len(s) + Len(t)
    BY <1>2, <1>3, <1>4
  <2>a. u[i] = s[i]
    BY <1>2, <1>4, <2>0
  <2>b. ASSUME i > 1 PROVE u[i - 1] = s[i - 1]
    <3>1. i - 1 \in 1 .. Len(s) + Len(t) /\ i - 1 <= Len(s)
      BY <2>0, <2>b, <1>3
    <3> QED
      BY <1>2, <3>1
  <2>1. i \in 1 .. Len(s) /\ u[i] = s[i] /\ (i > 1 => u[i - 1] = s[i - 1])
    BY <2>0, <2>a, <2>b
  <2>2. PICK p \in 1 .. a : s[i] = Nth(p)
    BY <2>1 DEF Ascends
  <2>3. p \in 1 .. b
    OBVIOUS
  <2>4. i > 1 => Rank(s[i - 1]) < Rank(s[i])
    BY <2>1 DEF Ascends
  <2> QED
    BY <2>1, <2>2, <2>3, <2>4
<1>5. ASSUME NEW i \in 1 .. Len(u), i > Len(s)
      PROVE  /\ \E p \in 1 .. b : u[i] = Nth(p)
             /\ i > 1 => Rank(u[i - 1]) < Rank(u[i])
  <2> DEFINE p == a + (i - Len(s))
  <2>1. u[i] = Nth(p) /\ p \in 1 .. b
    BY <1>1, <1>2, <1>3, <1>5
  <2>2. Rank(u[i]) = p
    BY <2>1, RankOf
  <2>3. ASSUME i > 1 PROVE Rank(u[i - 1]) < p
    <3>1. CASE i = Len(s) + 1
      <4>1. i - 1 \in 1 .. Len(s) /\ u[i - 1] = s[i - 1]
        BY <1>2, <1>3, <2>3, <3>1
      <4>2. PICK o \in 1 .. a : s[i - 1] = Nth(o)
        BY <4>1 DEF Ascends
      <4>3. Rank(u[i - 1]) = o
        BY <4>1, <4>2, RankOf
      <4>4. o < p
        BY <1>3, <1>5
      <4> QED
        BY <4>3, <4>4
    <3>2. CASE i # Len(s) + 1
      <4>0. i \in 1 .. Len(s) + Len(t) /\ Len(t) = b - a
        BY <1>1, <1>2
      <4>1. (i - 1) - Len(s) \in 1 .. b - a /\ i - 1 \in 1 .. Len(s) + Len(t) /\ ~(i - 1 <= Len(s))
        BY <4>0, <1>3, <1>5, <3>2
      <4>2. u[i - 1] = t[(i - 1) - Len(s)]
        BY <1>2, <4>1
      <4>3. a + ((i - 1) - Len(s)) = p - 1 /\ p - 1 \in Nat \ {0}
        BY <1>3, <4>1
      <4>4. u[i - 1] = Nth(p - 1)
        BY <1>1, <4>1, <4>2, <4>3
      <4> HIDE DEF p
      <4>5. Rank(u[i - 1]) = p - 1
        BY <4>3, <4>4, RankOf
      <4>6. p - 1 < p
        BY <2>1
      <4> QED
        BY <4>5, <4>6
    <3> QED
      BY <3>1, <3>2
  <2> HIDE DEF p
  <2> QED
    BY <2>1, <2>2, <2>3
<1>6. \A i \in 1 .. Len(u) : i <= Len(s) \/ i > Len(s)
  BY <1>3
<1>7. Ascends(u, b)
  BY <1>4, <1>5, <1>6 DEF Ascends
<1> QED
  BY <1>7 DEF u, t

LEMMA AscendsUpTo ==
    ASSUME NEW s, NEW a \in Nat, NEW b \in Nat, a <= b, Ascends(s, a)
    PROVE  Ascends(s, b)
<1>1. \A p \in 1 .. a : p \in 1 .. b
  OBVIOUS
<1> QED
  BY <1>1 DEF Ascends

LEMMA AscendsLess ==
    ASSUME NEW s \in Seq(Byte), NEW t \in Seq(Byte), NEW h, Ascends(s \o t, h)
    PROVE  Ascends(s, h)
<1> DEFINE u == s \o t
<1>1. /\ Len(u) = Len(s) + Len(t)
      /\ \A i \in 1 .. Len(s) + Len(t) : u[i] = IF i <= Len(s) THEN s[i] ELSE t[i - Len(s)]
  BY ConcatProperties
<1> HIDE DEF u
<1>2. Len(s) \in Nat /\ Len(t) \in Nat
  OBVIOUS
<1>3. ASSUME NEW i \in 1 .. Len(s)
      PROVE  i \in 1 .. Len(u) /\ u[i] = s[i] /\ (i > 1 => u[i - 1] = s[i - 1])
  BY <1>1, <1>2
<1>4. Ascends(u, h)
  BY DEF u
<1> QED
  BY <1>3, <1>4 DEF Ascends

\* Ascending bytes are in order.
LEMMA AscendingInOrder ==
    ASSUME NEW s, Len(s) \in Nat, NEW h \in Nat, Ascends(s, h)
    PROVE  \A i \in 1 .. Len(s) - 1 :
              \/ s[i][1] < s[i + 1][1]
              \/ s[i][1] = s[i + 1][1] /\ s[i][2] < s[i + 1][2]
<1> TAKE i \in 1 .. Len(s) - 1
<1>1. i \in 1 .. Len(s) /\ i + 1 \in 1 .. Len(s) /\ i + 1 > 1 /\ (i + 1) - 1 = i
  OBVIOUS
<1>2. PICK p \in 1 .. h, o \in 1 .. h : s[i] = Nth(p) /\ s[i + 1] = Nth(o)
  BY <1>1 DEF Ascends
<1>3. Rank(s[i]) < Rank(s[i + 1])
  BY <1>1 DEF Ascends
<1>4. p \in Nat \ {0} /\ o \in Nat \ {0}
  OBVIOUS
<1>5. p < o
  BY <1>2, <1>3, <1>4, RankOf
<1>6. PICK c \in Nat : \/ p = 2 * c + 1 /\ Nth(p) = <<c + 1, 1>>
                       \/ p = 2 * c + 2 /\ Nth(p) = <<c + 1, 2>>
  BY <1>4, NthIs
<1>7. PICK d \in Nat : \/ o = 2 * d + 1 /\ Nth(o) = <<d + 1, 1>>
                       \/ o = 2 * d + 2 /\ Nth(o) = <<d + 1, 2>>
  BY <1>4, NthIs
<1> QED
  BY <1>2, <1>5, <1>6, <1>7

-------------------------------------------------------------------------------
\* What is known of p and q.
LEMMA SentIs ==
    ASSUME TypeOK, Input, NEW p \in 0 .. Commands, NEW q \in 0 .. Commands, Sent(p, q)
    PROVE  /\ p \in Nat /\ q \in Nat /\ p <= q /\ q <= Len(executed) /\ Len(executed) <= Commands
           /\ Len(executed) \in Nat /\ Commands \in Nat
           /\ Len(send_queue) = Len(executed) - q
           /\ Len(response) = 2 * q - 2 * p
           /\ delivered \o tx \in Seq(Byte) /\ Len(delivered \o tx) = Len(delivered) + Len(tx)
           /\ Len(delivered) \in Nat /\ Len(tx) \in Nat
<1>1. p <= q /\ q <= Len(executed) /\ send_queue = Cmds(q, Len(executed))
      /\ response = Bytes(2 * p, 2 * q)
  BY DEF Sent
<1>2. Len(executed) \in Nat /\ Len(executed) <= Commands /\ Commands \in Nat
  BY InputIs, SettingIs
<1>3. p \in Nat /\ q \in Nat /\ 2 * p \in Nat /\ 2 * q \in Nat /\ 2 * p <= 2 * q
  BY <1>1, <1>2
<1>4. Len(send_queue) = Len(executed) - q
  BY <1>1, <1>2, <1>3, CmdsAre
<1>5. Len(response) = 2 * q - 2 * p
  BY <1>1, <1>3, BytesAre
<1>6. delivered \in Seq(Byte) /\ tx \in Seq(Byte)
  BY DEF TypeOK
<1>7. delivered \o tx \in Seq(Byte) /\ Len(delivered \o tx) = Len(delivered) + Len(tx)
  BY <1>6, ConcatProperties
<1> QED
  BY <1>1, <1>2, <1>3, <1>4, <1>5, <1>6, <1>7

\* A step that leaves the answers where they are.
LEMMA SameOutput ==
    ASSUME Output, UNCHANGED <<executed, send_queue, response>>,
           delivered' \o tx' = delivered \o tx,
           pc' = "send" <=> pc = "send", Whole' => Whole
    PROVE  Output'
<1>1. PICK p, q \in 0 .. Commands : Sent(p, q)
  BY DEF Output
<1>2. Sent(p, q)'
  BY <1>1 DEF Sent
<1> QED
  BY <1>2 DEF Output

LEMMA Regrouped ==
    ASSUME NEW s \in Seq(Byte), NEW t \in Seq(Byte), NEW u \in Seq(Byte)
    PROVE  (s \o t) \o u = s \o (t \o u)
BY ConcatAssociative

LEMMA ReadKeepsStream ==
    ASSUME TypeOK, ClientRead
    PROVE  delivered' \o tx' = delivered \o tx
<1>1. delivered \in Seq(Byte) /\ tx \in Seq(Byte)
  BY DEF TypeOK
<1>2. PICK n \in 1 .. Len(tx) : delivered' = delivered \o SubSeq(tx, 1, n) /\ tx' = SubSeq(tx, n + 1, Len(tx))
  BY DEF ClientRead
<1>3. n \in Nat /\ Len(tx) \in Nat /\ n <= Len(tx)
  BY <1>1
<1>4. SubSeq(tx, 1, n) \o SubSeq(tx, n + 1, Len(tx)) = tx
  <2>1. 1 \in 1 .. Len(tx) + 1 /\ n \in 1 - 1 .. Len(tx)
    BY <1>3
  <2>2. SubSeq(tx, 1, n) \o SubSeq(tx, n + 1, Len(tx)) = SubSeq(tx, 1, Len(tx))
    BY <1>1, <1>3, <2>1, ConcatAdjacentSubSeq
  <2> QED
    BY <1>1, <2>2, SubSeqFull
<1>5. SubSeq(tx, 1, n) \in Seq(Byte) /\ SubSeq(tx, n + 1, Len(tx)) \in Seq(Byte)
  <2>1. \A i \in 1 .. n : tx[i] \in Byte
    BY <1>1, <1>3
  <2>2. \A i \in n + 1 .. Len(tx) : tx[i] \in Byte
    BY <1>1, <1>3
  <2>3. 1 \in Int /\ n \in Int /\ n + 1 \in Int /\ Len(tx) \in Int
    BY <1>3
  <2> QED
    BY <2>1, <2>2, <2>3, SubSeqProperties
<1> DEFINE now == SubSeq(tx, 1, n)
<1> DEFINE later == SubSeq(tx, n + 1, Len(tx))
<1>6. now \in Seq(Byte) /\ later \in Seq(Byte) /\ now \o later = tx
      /\ delivered' = delivered \o now /\ tx' = later
  BY <1>2, <1>4, <1>5
<1> HIDE DEF now, later
<1>7. (delivered \o now) \o later = delivered \o (now \o later)
  <2>1. delivered \in Seq(Byte) /\ now \in Seq(Byte) /\ later \in Seq(Byte)
    BY <1>1, <1>6
  <2> QED
    BY ONLY <2>1, Regrouped
<1> QED
  BY <1>6, <1>7

LEMMA OthersKeepOutput ==
    ASSUME TypeOK, Output, UNCHANGED setting,
           ClientWrite \/ ClientRead \/ ClientClose \/ EpollWait \/ RecvAgain \/ RecvEnd
             \/ DanglingCall \/ SendEnd
    PROVE  Output'
<1>1. UNCHANGED <<executed, send_queue>>
  BY DEF ClientWrite, ClientRead, ClientClose, EpollWait, RecvAgain, RecvEnd, DanglingCall, SendEnd, object
<1>2. UNCHANGED response
  BY DEF ClientWrite, ClientRead, ClientClose, EpollWait, RecvAgain, RecvEnd, DanglingCall, SendEnd
<1>3. delivered' \o tx' = delivered \o tx
  <2>1. CASE ClientRead
    BY <2>1, ReadKeepsStream
  <2>2. CASE ~ClientRead
    <3>1. UNCHANGED <<delivered, tx>>
      BY <2>2 DEF ClientWrite, ClientClose, EpollWait, RecvAgain, RecvEnd, DanglingCall, SendEnd, client
    <3> QED
      BY <3>1
  <2> QED
    BY <2>1, <2>2
<1>4. pc' = "send" <=> pc = "send"
  BY DEF ClientWrite, ClientRead, ClientClose, EpollWait, RecvAgain, RecvEnd, DanglingCall, SendEnd,
         AfterRead, AfterWrite
<1>5. Whole' => Whole
  <2>1. /\ registered' => registered
        /\ up' => up
        /\ peer' # "rst" => peer # "rst"
    BY DEF ClientWrite, ClientRead, ClientClose, EpollWait, RecvAgain, RecvEnd, DanglingCall, SendEnd,
           client, epoll, Unregister
  <2>2. (Roomy /\ ~setting.refusing)' <=> (Roomy /\ ~setting.refusing)
    BY DEF Roomy, SndBuf
  <2> QED
    BY <2>1, <2>2 DEF Whole
<1> QED
  BY <1>1, <1>2, <1>3, <1>4, <1>5, SameOutput

LEMMA AbortOutput ==
    ASSUME TypeOK, Output, ClientAbort
    PROVE  Output'
<1>1. PICK p, q \in 0 .. Commands : Sent(p, q)
  BY DEF Output
<1>2. delivered \in Seq(Byte) /\ tx \in Seq(Byte)
  BY DEF TypeOK
<1>3. delivered' = delivered /\ tx' = <<>> /\ UNCHANGED <<object, response, pc>> /\ peer' = "rst"
  BY DEF ClientAbort
<1>4. delivered' \o tx' = delivered
  BY <1>2, <1>3, ConcatEmptySeq
<1>5. Ascends(delivered, 2 * p)
  BY <1>1, <1>2, AscendsLess DEF Sent
<1>6. ~Whole'
  BY <1>3 DEF Whole
<1>7. Sent(p, q)'
  BY <1>1, <1>3, <1>4, <1>5, <1>6 DEF Sent, object
<1> QED
  BY <1>7 DEF Output

LEMMA RecvOutput ==
    ASSUME TypeOK, Input, Output, Recv, UNCHANGED setting
    PROVE  Output' /\ send_queue' \in Seq(0 .. Commands)
<1>1. PICK p, q \in 0 .. Commands : Sent(p, q)
  BY DEF Output
<1> DEFINE k == Len(executed)
<1>2. /\ p \in Nat /\ q \in Nat /\ p <= q /\ q <= k /\ k <= Commands /\ k \in Nat /\ Commands \in Nat
  BY <1>1, SentIs
<1>3. PICK m \in Nat, r \in Nat : Got(m, r)
  BY RecvGets
<1>4. m \in k .. Commands /\ executed' = Cmds(0, m) /\ send_queue' = send_queue \o Cmds(k, m)
  BY <1>3 DEF Got
<1>5. k <= m /\ m <= Commands /\ q <= m
  BY <1>2, <1>4
<1>6. Len(executed') = m
  <2>1. 0 \in Nat /\ 0 <= m /\ m - 0 = m
    OBVIOUS
  <2> QED
    BY <1>4, <2>1, CmdsAre
<1>7. send_queue' = Cmds(q, m)
  <2>1. send_queue = Cmds(q, k)
    BY <1>1 DEF Sent
  <2> HIDE DEF k
  <2> QED
    BY <1>2, <1>4, <1>5, <2>1, CmdsJoin
<1>8. UNCHANGED <<delivered, tx, peer, pc, response, up>> /\ pc = "read"
  BY DEF Recv, client
<1>9. Whole' => Whole
  <2>1. registered' = registered
    BY <1>3, Zenon DEF Got, Modify, epoll
  <2> QED
    BY <1>8, <2>1 DEF Whole, Roomy, SndBuf
<1>10. Sent(p, q)'
  BY <1>1, <1>2, <1>5, <1>6, <1>7, <1>8, <1>9 DEF Sent
<1>11. send_queue' \in Seq(0 .. Commands)
  BY <1>2, <1>5, <1>7, CmdsTyped
<1> QED
  BY <1>10, <1>11 DEF Output

LEMMA TakeOutput ==
    ASSUME TypeOK, Input, Output, Take, UNCHANGED setting
    PROVE  /\ Output' /\ response' \in Seq(Byte)
           /\ send_queue # <<>> => response' # <<>>
<1>1. PICK p, q \in 0 .. Commands : Sent(p, q)
  BY DEF Output
<1>0. PICK k : k = Len(executed)
  OBVIOUS
<1>2. /\ p \in Nat /\ q \in Nat /\ p <= q /\ q <= k /\ k <= Commands /\ k \in Nat /\ Commands \in Nat
  BY <1>0, <1>1, SentIs
<1>3. pc = "write" /\ pc' = "send" /\ send_queue' = <<>> /\ response' = Stream(send_queue)
      /\ UNCHANGED <<executed, delivered, tx, peer, up>> /\ registered' = registered
  BY DEF Take, client, Modify
<1>4. p = q /\ send_queue = Cmds(q, k)
  BY <1>0, <1>1, <1>3 DEF Sent
<1>5. response' = Bytes(2 * q, 2 * k)
  BY <1>2, <1>3, <1>4, StreamOfCmds
<1>6. send_queue' = Cmds(k, k)
  BY <1>2, <1>3, CmdsAre
<1>7. Whole' => Whole
  BY <1>3 DEF Whole, Roomy, SndBuf
<1>8. k \in 0 .. Commands /\ executed' = executed /\ Len(executed') = k
  BY <1>0, <1>2, <1>3
<1>9. Sent(q, k)'
  <2>1. delivered' \o tx' = delivered \o tx
    BY <1>3
  <2>2. Ascends(delivered \o tx, 2 * q) /\ (Whole => delivered \o tx = Bytes(0, 2 * q))
    BY <1>1, <1>4 DEF Sent
  <2>3. q <= k /\ k <= Len(executed') /\ send_queue' = Cmds(k, Len(executed')) /\ pc' = "send"
        /\ k = Len(executed')
    BY <1>2, <1>3, <1>6, <1>8
  <2>4. Ascends(delivered' \o tx', 2 * q) /\ (Whole' => delivered' \o tx' = Bytes(0, 2 * q))
    BY <1>7, <2>1, <2>2
  <2> QED
    BY <1>5, <2>3, <2>4 DEF Sent
<1>10. response' \in Seq(Byte)
  <2>1. 2 * q \in Nat /\ 2 * k \in Nat /\ 2 * q <= 2 * k /\ 2 * k <= 2 * Commands
    BY <1>2
  <2> QED
    BY <1>5, <2>1, BytesTyped
<1>11. send_queue # <<>> => response' # <<>>
  <2>1. send_queue # <<>> => q # k
    BY <1>2, <1>4, CmdsAre
  <2>2. 2 * q \in Nat /\ 2 * k \in Nat /\ 2 * q <= 2 * k /\ (q # k => 2 * q # 2 * k)
    BY <1>2
  <2> QED
    BY <1>5, <2>1, <2>2, BytesAre
<1>12. q \in 0 .. Commands
  BY <1>1
<1>13. Output'
  BY <1>8, <1>9, <1>12 DEF Output
<1> QED
  BY <1>10, <1>11, <1>13

\* What send() takes of the string follows what was sent.
LEMMA SendOutput ==
    ASSUME TypeOK, Input, Output, Send, UNCHANGED setting
    PROVE  Output' /\ tx' \in Seq(Byte) /\ Len(tx') <= SndBuf
<1>1. PICK p, q \in 0 .. Commands : Sent(p, q)
  BY DEF Output
<1> DEFINE k == Len(executed)
<1> DEFINE n == Smaller(Len(response), Free)
<1>2. /\ p \in Nat /\ q \in Nat /\ p <= q /\ q <= k /\ k <= Commands /\ k \in Nat /\ Commands \in Nat
      /\ Len(response) = 2 * q - 2 * p
      /\ delivered \o tx \in Seq(Byte) /\ Len(delivered \o tx) = Len(delivered) + Len(tx)
      /\ Len(delivered) \in Nat /\ Len(tx) \in Nat
  BY <1>1, SentIs
<1>3. pc = "send" /\ pc' # "send" /\ response' = <<>> /\ Free > 0
      /\ UNCHANGED <<executed, send_queue, delivered, peer, up, registered>>
      /\ tx' = tx \o SubSeq(response, 1, n)
  BY DEF Send, client, epoll, object, AfterWrite
<1>4. q = k /\ send_queue = Cmds(q, k) /\ response = Bytes(2 * p, 2 * q)
      /\ Ascends(delivered \o tx, 2 * p)
  BY <1>1, <1>3 DEF Sent
<1>5. n \in 0 .. 2 * q - 2 * p /\ n <= SndBuf - Len(tx) /\ SndBuf \in Nat
      /\ (SndBuf - Len(tx) >= 2 * q - 2 * p => n = 2 * q - 2 * p)
  <2>1. SndBuf \in Nat /\ Free = SndBuf - Len(tx) /\ SndBuf - Len(tx) > 0
    BY <1>3, SettingIs DEF Free
  <2>2. n = IF 2 * q - 2 * p < SndBuf - Len(tx) THEN 2 * q - 2 * p ELSE SndBuf - Len(tx)
    BY <1>2, <2>1 DEF Smaller
  <2> HIDE DEF n
  <2>3. 2 * q - 2 * p \in Nat /\ SndBuf - Len(tx) \in Nat
    BY <1>2, <2>1
  <2> DEFINE x == 2 * q - 2 * p
  <2> DEFINE y == SndBuf - Len(tx)
  <2>4. x \in Nat /\ y \in Nat /\ n = IF x < y THEN x ELSE y
    BY <2>2, <2>3
  <2> HIDE DEF x, y
  <2>5. n \in 0 .. x /\ n <= y /\ (y >= x => n = x)
    BY <2>4
  <2> QED
    BY <2>1, <2>5 DEF x, y
<1> HIDE DEF k, n
<1> DEFINE sent == Bytes(2 * p, 2 * p + n)
<1>6. SubSeq(response, 1, n) = sent
  <2>1. 2 * p \in Nat /\ 2 * q \in Nat /\ 2 * p <= 2 * q /\ 0 \in 0 .. 2 * q - 2 * p
        /\ n \in 0 .. 2 * q - 2 * p
    BY <1>2, <1>5
  <2>2. SubSeq(Bytes(2 * p, 2 * q), 0 + 1, n) = Bytes(2 * p + 0, 2 * p + n)
    BY <2>1, BytesCut
  <2>3. 2 * p + 0 = 2 * p /\ 0 + 1 = 1
    BY <1>2
  <2> QED
    BY <1>4, <2>2, <2>3
<1>7. 2 * p \in Nat /\ 2 * p + n \in Nat /\ 2 * p <= 2 * p + n /\ 2 * p + n <= 2 * Commands
      /\ 2 * p + n <= 2 * q /\ 2 * q \in Nat
  BY <1>2, <1>5
<1>8. sent \in Seq(Byte) /\ Len(sent) = n
  <2>1. (2 * p + n) - 2 * p = n
    BY <1>2, <1>5
  <2> QED
    BY <1>7, <2>1, BytesAre, BytesTyped
<1> HIDE DEF sent
<1>9. delivered \in Seq(Byte) /\ tx \in Seq(Byte)
  BY DEF TypeOK
<1>10. delivered' \o tx' = (delivered \o tx) \o sent
  <2>1. delivered' = delivered /\ tx' = tx \o sent
    BY <1>3, <1>6
  <2>2. (delivered \o tx) \o sent = delivered \o (tx \o sent)
    BY <1>8, <1>9, Regrouped
  <2> QED
    BY <2>1, <2>2
<1>11. tx' \in Seq(Byte) /\ Len(tx') = Len(tx) + n
  BY <1>3, <1>6, <1>8, <1>9, ConcatProperties
<1>12. Ascends(delivered' \o tx', 2 * q)
  <2>1. Ascends((delivered \o tx) \o sent, 2 * p + n)
    BY <1>2, <1>4, <1>7, AscendsMore DEF sent
  <2> QED
    BY <1>7, <1>10, <2>1, AscendsUpTo
<1>13. Whole' => delivered' \o tx' = Bytes(0, 2 * q)
  <2> SUFFICES ASSUME Whole'
               PROVE  delivered' \o tx' = Bytes(0, 2 * q)
    OBVIOUS
  <2>1. Whole
    BY <1>3 DEF Whole, Roomy, SndBuf
  <2>2. delivered \o tx = Bytes(0, 2 * p)
    BY <1>1, <2>1 DEF Sent
  <2>3. Len(tx) <= 2 * p
    <3>1. 0 \in Nat /\ 0 <= 2 * p /\ 2 * p - 0 = 2 * p
      BY <1>7
    <3>2. Len(delivered \o tx) = 2 * p
      BY <1>7, <2>2, <3>1, BytesAre
    <3> QED
      BY <1>2, <3>2
  <2>4. SndBuf >= 2 * Commands
    BY <2>1 DEF Whole, Roomy
  <2>5. n = 2 * q - 2 * p
    BY <1>2, <1>5, <2>3, <2>4
  <2>6. 2 * p + n = 2 * q
    BY <1>2, <2>5
  <2>7. 0 \in Nat /\ 0 <= 2 * p /\ 2 * p <= 2 * q
    BY <1>2
  <2>8. Bytes(0, 2 * p) \o Bytes(2 * p, 2 * q) = Bytes(0, 2 * q)
    BY <1>7, <2>7, BytesJoin
  <2> QED
    BY <1>10, <2>2, <2>6, <2>8 DEF sent
<1>14. response' = Bytes(2 * q, 2 * q)
  <2>1. 2 * q <= 2 * q
    BY <1>7
  <2>2. Bytes(2 * q, 2 * q) = <<>>
    BY <1>7, <2>1, BytesAre
  <2> QED
    BY <1>3, <2>2
<1>15. Sent(q, q)'
  BY <1>2, <1>3, <1>4, <1>12, <1>13, <1>14 DEF Sent, k
<1>16. Len(tx') <= SndBuf
  BY <1>2, <1>5, <1>11
<1> QED
  BY <1>11, <1>15, <1>16 DEF Output

LEMMA SendAgainOutput ==
    ASSUME TypeOK, Input, Output, SendAgain, UNCHANGED setting
    PROVE  Output' /\ ~Whole'
<1>1. PICK p, q \in 0 .. Commands : Sent(p, q)
  BY DEF Output
<1> DEFINE k == Len(executed)
<1>2. /\ p \in Nat /\ q \in Nat /\ p <= q /\ q <= k /\ k <= Commands /\ k \in Nat /\ Commands \in Nat
      /\ Len(response) = 2 * q - 2 * p
      /\ delivered \o tx \in Seq(Byte) /\ Len(delivered \o tx) = Len(delivered) + Len(tx)
      /\ Len(delivered) \in Nat /\ Len(tx) \in Nat
  BY <1>1, SentIs
<1>3. pc = "send" /\ pc' # "send" /\ response # <<>> /\ response' = <<>>
      /\ (Free = 0 \/ setting.refusing)
      /\ UNCHANGED <<executed, send_queue, delivered, peer, up, registered, tx>>
  BY DEF SendAgain, Modify, client, object, AfterWrite
<1>4. q = k /\ send_queue = Cmds(q, k) /\ response = Bytes(2 * p, 2 * q)
      /\ Ascends(delivered \o tx, 2 * p)
  BY <1>1, <1>3 DEF Sent
<1> HIDE DEF k
<1>5. 2 * p \in Nat /\ 2 * q \in Nat /\ 2 * p <= 2 * q
  BY <1>2
<1>6. 2 * p # 2 * q
  BY <1>3, <1>4, <1>5, BytesAre
<1>7. ~Whole
  <2> SUFFICES ASSUME Whole
               PROVE  FALSE
    OBVIOUS
  <2>1. delivered \o tx = Bytes(0, 2 * p)
    BY <1>1 DEF Sent
  <2>2. Len(tx) <= 2 * p
    <3>1. 0 \in Nat /\ 0 <= 2 * p /\ 2 * p - 0 = 2 * p
      BY <1>5
    <3>2. Len(delivered \o tx) = 2 * p
      BY <1>5, <2>1, <3>1, BytesAre
    <3> QED
      BY <1>2, <3>2
  <2>3. SndBuf >= 2 * Commands /\ ~setting.refusing /\ SndBuf \in Nat
    BY SettingIs DEF Whole, Roomy
  <2>4. SndBuf - Len(tx) = 0
    BY <1>3, <2>3 DEF Free
  <2> QED
    BY <1>2, <1>6, <2>2, <2>3, <2>4
<1>8. ~Whole'
  BY <1>3, <1>7 DEF Whole, Roomy, SndBuf
<1>9. Ascends(delivered' \o tx', 2 * q)
  <2>1. Ascends(delivered \o tx, 2 * q)
    BY <1>4, <1>5, AscendsUpTo
  <2>2. delivered' \o tx' = delivered \o tx
    BY <1>3
  <2> QED
    BY <2>1, <2>2
<1>10. response' = Bytes(2 * q, 2 * q)
  <2>1. 2 * q <= 2 * q
    BY <1>5
  <2>2. Bytes(2 * q, 2 * q) = <<>>
    BY <1>5, <2>1, BytesAre
  <2> QED
    BY <1>3, <2>2
<1>11. Sent(q, q)'
  BY <1>2, <1>3, <1>4, <1>8, <1>9, <1>10 DEF Sent, k
<1> QED
  BY <1>8, <1>11 DEF Output

-------------------------------------------------------------------------------
\* While a string is being sent the queue is empty.
LEMMA QueueEmptyInSend ==
    ASSUME TypeOK, Input, Output, pc = "send"
    PROVE  send_queue = <<>>
<1>1. PICK p, q \in 0 .. Commands : Sent(p, q)
  BY DEF Output
<1>2. q \in Nat /\ q <= Len(executed) /\ Len(executed) \in Nat /\ Len(send_queue) = Len(executed) - q
  BY <1>1, SentIs
<1>3. Len(send_queue) = 0
  BY <1>1, <1>2 DEF Sent
<1> QED
  BY <1>3 DEF TypeOK

\* What recv() does to the queue.
LEMMA RecvQueue ==
    ASSUME TypeOK, Input, Recv
    PROVE  \/ send_queue' = send_queue /\ UNCHANGED epoll
           \/ send_queue' # <<>> /\ Modify({"IN", "OUT"}, rx', tx)
<1>1. PICK m \in Nat, r \in Nat : Got(m, r)
  BY RecvGets
<1> DEFINE k == Len(executed)
<1>2. k \in Nat /\ m \in Nat /\ k <= m /\ m <= Commands /\ Commands \in Nat
  BY <1>1, InputIs, SettingIs DEF Got
<1>3. send_queue' = send_queue \o Cmds(k, m) /\ send_queue \in Seq(0 .. Commands)
      /\ IF m = k THEN UNCHANGED epoll ELSE Modify({"IN", "OUT"}, rx', tx)
  BY <1>1 DEF Got, TypeOK
<1> HIDE DEF k
<1> DEFINE new == Cmds(k, m)
<1>4. new \in Seq(0 .. Commands) /\ Len(new) = m - k
  BY <1>2, CmdsTyped, CmdsAre
<1> HIDE DEF new
<1>5. Len(send_queue') = Len(send_queue) + Len(new) /\ Len(send_queue) \in Nat
  BY <1>3, <1>4, ConcatProperties DEF new
<1>6. CASE m = k
  <2>1. new = <<>>
    BY <1>2, <1>4, <1>6
  <2> QED
    BY <1>3, <1>6, <2>1, ConcatEmptySeq DEF new
<1>7. CASE m # k
  <2>1. Len(send_queue') > 0
    BY <1>2, <1>4, <1>5, <1>7
  <2>2. send_queue' # <<>>
    BY <2>1
  <2> QED
    BY <1>3, <1>7, <2>2
<1> QED
  BY <1>6, <1>7

LEMMA ReadTypes ==
    ASSUME TypeOK, ClientRead
    PROVE  /\ delivered' \in Seq(Byte) /\ tx' \in Seq(Byte)
           /\ Len(tx') <= Len(tx) /\ Len(tx) \in Nat /\ Len(tx') \in Nat /\ Len(tx) # 0
<1>1. delivered \in Seq(Byte) /\ tx \in Seq(Byte) /\ tx # <<>>
  BY DEF TypeOK, ClientRead
<1>2. PICK n \in 1 .. Len(tx) : delivered' = delivered \o SubSeq(tx, 1, n) /\ tx' = SubSeq(tx, n + 1, Len(tx))
  BY DEF ClientRead
<1>3. n \in Nat /\ Len(tx) \in Nat /\ n <= Len(tx)
  BY <1>1
<1> DEFINE now == SubSeq(tx, 1, n)
<1>4. now \in Seq(Byte) /\ tx' \in Seq(Byte)
      /\ Len(tx') = IF n + 1 <= Len(tx) THEN Len(tx) - (n + 1) + 1 ELSE 0
  <2>1. \A i \in 1 .. n : tx[i] \in Byte
    BY <1>1, <1>3
  <2>2. \A i \in n + 1 .. Len(tx) : tx[i] \in Byte
    BY <1>1, <1>3
  <2>3. 1 \in Int /\ n \in Int /\ n + 1 \in Int /\ Len(tx) \in Int
    BY <1>3
  <2> QED
    BY <1>2, <2>1, <2>2, <2>3, SubSeqProperties
<1> HIDE DEF now
<1>5. delivered' \in Seq(Byte)
  BY <1>1, <1>2, <1>4, ConcatProperties DEF now
<1>6. Len(tx') <= Len(tx) /\ Len(tx') \in Nat
  BY <1>3, <1>4
<1> QED
  BY <1>1, <1>3, <1>4, <1>5, <1>6

\* An edge for an event that is asked for.
LEMMA EdgeIn ==
    ASSUME TypeOK, NEW e, "IN" \in e, Edge(e)
    PROVE  ready' = (ready \/ registered)
<1>1. "IN" \in e \cap Wanted(mask)
  BY DEF TypeOK, Wanted
<1> QED
  BY <1>1 DEF Edge

LEMMA ModifyReady ==
    ASSUME NEW m, NEW received, Modify(m, received, tx), TypeOK
    PROVE  /\ ready => ready'
           /\ mask' = m /\ registered' = registered
           /\ "OUT" \in m /\ Len(tx) < SndBuf => ready'
<1>1. ready' = (ready \/ Polled(received, tx, peer) \cap Wanted(m) # {})
  BY DEF Modify
<1>2. ASSUME "OUT" \in m, Len(tx) < SndBuf
      PROVE  Polled(received, tx, peer) \cap Wanted(m) # {}
  <2>1. "OUT" \in Polled(received, tx, peer)
    BY <1>2 DEF Polled
  <2>2. "OUT" \in Wanted(m)
    BY <1>2 DEF Wanted
  <2> QED
    BY <2>1, <2>2
<1> QED
  BY <1>1, <1>2 DEF Modify

-------------------------------------------------------------------------------
LEMMA ClientEvents ==
    ASSUME TypeOK, Events, Client, up, UNCHANGED setting
    PROVE  Events'
<1>1. UNCHANGED <<mask, registered, pc, revents, send_queue, up>>
  BY DEF Client, ClientWrite, ClientRead, ClientClose, ClientAbort, object
<1>2. CASE ClientWrite \/ ClientClose \/ ClientAbort
  <2>1. ready' = (ready \/ registered)
    BY <1>2, EdgeIn DEF ClientWrite, ClientClose, ClientAbort
  <2> QED
    BY <1>1, <2>1 DEF Events
<1>3. CASE ClientRead
  <2>1. UNCHANGED <<rx, peer>>
    BY <1>3 DEF ClientRead
  <2>2. Len(tx) <= SndBuf /\ SndBuf \in Nat /\ Len(tx) \in Nat
    BY <1>3, ReadTypes, SettingIs DEF TypeOK
  <2>3. CASE Free = 0
    <3>1. Edge({"OUT"})
      BY <1>3, <2>3 DEF ClientRead
    <3>2. (ready => ready') /\ (ready' => ready \/ registered)
      BY <3>1 DEF Edge
    <3>3. registered /\ "OUT" \in mask => ready'
      <4>1. "OUT" \in mask => "OUT" \in {"OUT"} \cap Wanted(mask)
        BY DEF Wanted
      <4> QED
        BY <3>1, <4>1 DEF Edge
    <3> QED
      BY <1>1, <2>1, <3>2, <3>3 DEF Events
  <2>4. CASE Free # 0
    <3>1. UNCHANGED ready
      BY <1>3, <2>4 DEF ClientRead
    <3>2. Len(tx) < SndBuf
      BY <2>2, <2>4 DEF Free
    <3> QED
      BY <1>1, <2>1, <3>1, <3>2 DEF Events
  <2> QED
    BY <2>3, <2>4
<1> QED
  BY <1>2, <1>3 DEF Client

LEMMA WaitEvents ==
    ASSUME TypeOK, Events, EpollWait, up, UNCHANGED setting
    PROVE  Events'
<1> DEFINE found == Polled(rx, tx, peer) \cap Wanted(mask)
<1>1. /\ ready /\ pc = "wait" /\ ready' = FALSE /\ revents' = found
      /\ pc' = IF "IN" \in found THEN "read" ELSE IF "OUT" \in found THEN "write" ELSE "wait"
      /\ UNCHANGED <<rx, tx, peer, mask, registered, send_queue, up>>
  BY DEF EpollWait, client, object
<1>2. rx # <<>> \/ peer # "open" => "IN" \in found
  BY DEF Polled, Wanted, TypeOK
<1>3. "OUT" \in mask /\ Len(tx) < SndBuf => "OUT" \in found
  BY DEF Polled, Wanted
<1> HIDE DEF found
<1>4. SndBuf' = SndBuf
  BY DEF SndBuf
<1>5. registered
  BY <1>1 DEF Events
<1>6. registered' /\ up' /\ pc' # "read" /\ (rx' # <<>> \/ peer' # "open") => ready'
  BY <1>1, <1>2
<1>7. registered' /\ up' /\ send_queue' # <<>> =>
        /\ "OUT" \in mask'
        /\ Len(tx') < SndBuf' => ready' \/ (pc' \in {"read", "write"} /\ "OUT" \in revents')
  BY <1>1, <1>3, <1>4 DEF Events
<1> QED
  BY <1>1, <1>5, <1>6, <1>7 DEF Events

LEMMA ReadEvents ==
    ASSUME TypeOK, Input, Events, Recv \/ RecvAgain \/ RecvEnd \/ DanglingCall, up, UNCHANGED setting
    PROVE  Events'
<1>0. SndBuf' = SndBuf
  BY DEF SndBuf
<1>1. CASE Recv
  <2>1. pc = "read" /\ UNCHANGED <<tx, pc, revents, up>>
    BY <1>1 DEF Recv
  <2>2. registered
    BY <2>1 DEF Events
  <2>3. CASE send_queue' = send_queue /\ UNCHANGED epoll
    BY <1>0, <2>1, <2>2, <2>3 DEF Events, epoll
  <2>4. CASE Modify({"IN", "OUT"}, rx', tx)
    <3>1. mask' = {"IN", "OUT"} /\ registered' = registered /\ (Len(tx) < SndBuf => ready')
      BY <2>4, ModifyReady
    <3>2. ready' => registered'
      BY <2>2, <3>1
    <3> QED
      BY <1>0, <2>1, <2>2, <3>1, <3>2 DEF Events
  <2> QED
    BY <1>1, <2>3, <2>4, RecvQueue
<1>2. CASE RecvAgain
  <2>1. /\ pc = "read" /\ rx' = <<>> /\ peer' = "open"
        /\ UNCHANGED <<tx, mask, ready, registered, revents, send_queue, up>>
        /\ pc' = IF "OUT" \in revents THEN "write" ELSE IF "ERR" \in revents THEN "error" ELSE "wait"
    BY <1>2 DEF RecvAgain, AfterRead, AfterWrite, client, epoll, object
  <2> QED
    BY <1>0, <2>1 DEF Events
<1>3. CASE RecvEnd
  <2>1. registered' = FALSE /\ ready' = FALSE /\ pc' \notin {"read", "send"}
    BY <1>3 DEF RecvEnd, Unregister, AfterRead, AfterWrite
  <2> QED
    BY <2>1 DEF Events
<1>4. CASE DanglingCall
  <2>1. up' = FALSE /\ UNCHANGED <<ready, registered>>
    BY <1>4 DEF DanglingCall, epoll
  <2> QED
    BY <2>1 DEF Events
<1> QED
  BY <1>1, <1>2, <1>3, <1>4

LEMMA SendEvents ==
    ASSUME TypeOK, Input, Output, Events, Take \/ Send \/ SendAgain \/ SendEnd, up, UNCHANGED setting
    PROVE  Events'
<1>0. SndBuf' = SndBuf
  BY DEF SndBuf
<1>1. CASE Take
  <2>1. pc = "write" /\ registered /\ send_queue' = <<>> /\ UNCHANGED <<rx, tx, peer, up>> /\ pc' = "send"
    BY <1>1 DEF Take, client
  <2>2. registered' = registered /\ (ready => ready')
    BY <1>1, ModifyReady DEF Take
  <2> QED
    BY <2>1, <2>2 DEF Events
<1>2. CASE Send
  <2>1. pc = "send" /\ UNCHANGED <<rx, peer, ready, registered, send_queue, up>> /\ pc' \in {"wait", "error"}
    BY <1>2 DEF Send, AfterWrite, client, epoll, object
  <2>2. send_queue' = <<>>
    BY <2>1, QueueEmptyInSend
  <2> QED
    BY <2>1, <2>2 DEF Events
<1>3. CASE SendAgain
  <2>1. pc = "send" /\ UNCHANGED <<rx, peer, send_queue, up>> /\ pc' \in {"wait", "error"}
    BY <1>3 DEF SendAgain, AfterWrite, client, object
  <2>2. registered' = registered /\ (ready => ready')
    BY <1>3, ModifyReady DEF SendAgain
  <2>3. send_queue' = <<>> /\ registered
    BY <2>1, QueueEmptyInSend DEF Events
  <2> QED
    BY <2>1, <2>2, <2>3 DEF Events
<1>4. CASE SendEnd
  <2>1. up' = FALSE /\ registered' = FALSE /\ ready' = FALSE
    BY <1>4 DEF SendEnd, Unregister
  <2> QED
    BY <2>1 DEF Events
<1> QED
  BY <1>1, <1>2, <1>3, <1>4

-------------------------------------------------------------------------------
\* The client and the kernel of NoDanglingCall.
Gentle == Roomy /\ ~setting.refusing /\ setting.polite

\* When the client has every answer, none is left on the way.
LEMMA AllHeard ==
    ASSUME TypeOK, Input, Output, Whole, Len(delivered) = 2 * Commands
    PROVE  tx = <<>> /\ response = <<>> /\ send_queue = <<>>
<1>1. PICK p, q \in 0 .. Commands : Sent(p, q)
  BY DEF Output
<1> DEFINE k == Len(executed)
<1>2. /\ p \in Nat /\ q \in Nat /\ p <= q /\ q <= k /\ k <= Commands /\ k \in Nat /\ Commands \in Nat
      /\ Len(send_queue) = k - q
      /\ Len(response) = 2 * q - 2 * p
      /\ Len(delivered \o tx) = Len(delivered) + Len(tx)
      /\ Len(delivered) \in Nat /\ Len(tx) \in Nat
  BY <1>1, SentIs
<1> HIDE DEF k
<1>3. Len(delivered \o tx) = 2 * p
  <2>1. 0 \in Nat /\ 2 * p \in Nat /\ 0 <= 2 * p /\ 2 * p - 0 = 2 * p
    BY <1>2
  <2>2. delivered \o tx = Bytes(0, 2 * p)
    BY <1>1 DEF Sent
  <2> QED
    BY <2>1, <2>2, BytesAre
<1>4. Len(tx) = 0 /\ Len(response) = 0 /\ Len(send_queue) = 0
  BY <1>2, <1>3
<1> QED
  BY <1>4 DEF TypeOK

LEMMA GentleIsWhole ==
    ASSUME TypeOK, Gentle, Careful, registered
    PROVE  Whole
BY DEF Gentle, Careful, Whole

LEMMA ClientCareful ==
    ASSUME TypeOK, Input, Output, Careful, Client, UNCHANGED setting
    PROVE  Careful'
<1> SUFFICES ASSUME Gentle'
             PROVE  Careful'
  BY DEF Careful, Gentle
<1>0. Gentle
  BY DEF Gentle, Roomy, SndBuf
<1>1. UNCHANGED <<mask, registered, pc, revents, send_queue, response, up>>
  BY DEF Client, ClientWrite, ClientRead, ClientClose, ClientAbort, object
<1>2. CASE ClientWrite
  <2>1. UNCHANGED <<peer, delivered, tx>>
    BY <1>2 DEF ClientWrite
  <2> QED
    BY <1>0, <1>1, <2>1 DEF Careful, Gentle
<1>3. CASE ClientRead
  <2>1. peer' = peer /\ tx # <<>>
    BY <1>3 DEF ClientRead
  <2>2. peer # "fin"
    BY <1>0, <2>1 DEF Careful, Gentle
  <2> QED
    BY <1>0, <1>1, <2>1, <2>2 DEF Careful, Gentle
<1>4. CASE ClientClose
  <2>1. peer = "open" /\ peer' = "fin" /\ UNCHANGED <<delivered, tx>> /\ Len(delivered) = 2 * Commands
    BY <1>0, <1>4 DEF ClientClose, Gentle
  <2>2. registered
    BY <1>0, <2>1 DEF Careful, Gentle
  <2>3. tx = <<>>
    BY <1>0, <2>1, <2>2, GentleIsWhole, AllHeard
  <2> QED
    BY <1>0, <1>1, <2>1, <2>3 DEF Careful, Gentle
<1>5. CASE ClientAbort
  BY <1>0, <1>5 DEF ClientAbort, Gentle
<1> QED
  BY <1>2, <1>3, <1>4, <1>5 DEF Client

LEMMA ReadCareful ==
    ASSUME TypeOK, Input, Output, Events, Careful, up, UNCHANGED setting,
           EpollWait \/ Recv \/ RecvAgain \/ RecvEnd \/ DanglingCall
    PROVE  Careful'
<1> SUFFICES ASSUME Gentle'
             PROVE  Careful'
  BY DEF Careful, Gentle
<1>0. Gentle
  BY DEF Gentle, Roomy, SndBuf
<1>c. /\ up /\ peer # "rst" /\ "ERR" \notin revents /\ pc # "error"
      /\ peer = "open" => registered
      /\ peer = "fin" => Len(delivered) = 2 * Commands /\ tx = <<>>
      /\ registered /\ "OUT" \in mask => send_queue # <<>>
      /\ pc \in {"read", "write"} /\ "OUT" \in revents => send_queue # <<>>
      /\ pc # "wait" => registered
      /\ pc = "write" => "OUT" \in revents
      /\ pc = "send" => response # <<>>
  BY <1>0 DEF Careful, Gentle
<1>1. CASE EpollWait
  <2> DEFINE found == Polled(rx, tx, peer) \cap Wanted(mask)
  <2>1. /\ ready /\ pc = "wait" /\ revents' = found
        /\ pc' = IF "IN" \in found THEN "read" ELSE IF "OUT" \in found THEN "write" ELSE "wait"
        /\ UNCHANGED <<delivered, tx, peer, mask, registered, send_queue, response, up>>
    BY <1>1 DEF EpollWait, client, object
  <2>2. "ERR" \notin found
    BY <1>c DEF Polled
  <2>3. "OUT" \in found => "OUT" \in mask
    BY DEF Wanted
  <2>4. registered
    BY <2>1 DEF Events
  <2> HIDE DEF found
  <2>5. pc' # "error" /\ pc' # "send" /\ (pc' = "write" => "OUT" \in found)
    BY <2>1
  <2>6. "OUT" \in found => send_queue # <<>>
    BY <1>c, <2>3, <2>4
  <2> QED
    BY <1>c, <2>1, <2>2, <2>4, <2>5, <2>6 DEF Careful
<1>2. CASE Recv
  <2>1. pc = "read" /\ UNCHANGED <<delivered, tx, peer, pc, revents, response, up>>
    BY <1>2 DEF Recv, client
  <2>2. registered
    BY <1>c, <2>1
  <2>3. \/ send_queue' = send_queue /\ mask' = mask /\ registered' = registered
        \/ send_queue' # <<>> /\ registered' = registered
    BY <1>2, RecvQueue DEF Modify, epoll
  <2> QED
    BY <1>c, <2>1, <2>2, <2>3 DEF Careful
<1>3. CASE RecvAgain
  <2>1. pc = "read" /\ UNCHANGED <<delivered, tx, peer, mask, registered, send_queue, revents, response, up>>
        /\ pc' = IF "OUT" \in revents THEN "write" ELSE IF "ERR" \in revents THEN "error" ELSE "wait"
    BY <1>3 DEF RecvAgain, AfterRead, AfterWrite, client, epoll, object
  <2> QED
    BY <1>c, <2>1 DEF Careful
<1>4. CASE RecvEnd
  <2>1. pc = "read" /\ peer # "open" /\ registered' = FALSE
        /\ UNCHANGED <<delivered, tx, peer, mask, send_queue, revents, response, up>>
        /\ pc' = IF "OUT" \in revents THEN "write" ELSE IF "ERR" \in revents THEN "error" ELSE "wait"
    BY <1>4 DEF RecvEnd, Unregister, AfterRead, AfterWrite, client, object
  <2>2. registered /\ peer = "fin"
    BY <1>c, <2>1 DEF TypeOK
  <2>3. send_queue = <<>>
    BY <1>0, <1>c, <2>2, GentleIsWhole, AllHeard
  <2>4. "OUT" \notin revents
    BY <1>c, <2>1, <2>3
  <2>5. pc' = "wait"
    BY <1>c, <2>1, <2>4
  <2> QED
    BY <1>c, <2>1, <2>2, <2>5 DEF Careful
<1>5. CASE DanglingCall
  BY <1>c, <1>5 DEF DanglingCall
<1> QED
  BY <1>1, <1>2, <1>3, <1>4, <1>5

LEMMA SendCareful ==
    ASSUME TypeOK, Input, Output, Events, Careful, up, UNCHANGED setting,
           Take \/ Send \/ SendAgain \/ SendEnd
    PROVE  Careful'
<1> SUFFICES ASSUME Gentle'
             PROVE  Careful'
  BY DEF Careful, Gentle
<1>0. Gentle
  BY DEF Gentle, Roomy, SndBuf
<1>c. /\ up /\ peer # "rst" /\ "ERR" \notin revents /\ pc # "error"
      /\ peer = "open" => registered
      /\ peer = "fin" => Len(delivered) = 2 * Commands /\ tx = <<>>
      /\ registered /\ "OUT" \in mask => send_queue # <<>>
      /\ pc \in {"read", "write"} /\ "OUT" \in revents => send_queue # <<>>
      /\ pc # "wait" => registered
      /\ pc = "write" => "OUT" \in revents
      /\ pc = "send" => response # <<>>
  BY <1>0 DEF Careful, Gentle
<1>w. pc # "wait" => Whole
  BY <1>0, <1>c, GentleIsWhole
<1>1. CASE Take
  <2>1. pc = "write" /\ pc' = "send" /\ mask' = {"IN"} /\ registered' = registered
        /\ UNCHANGED <<delivered, tx, peer, revents, up>>
    BY <1>1 DEF Take, client, Modify
  <2>2. response' # <<>>
    BY <1>1, <1>c, <2>1, TakeOutput
  <2> QED
    BY <1>c, <2>1, <2>2 DEF Careful
<1>2. CASE Send
  <2>1. pc = "send" /\ UNCHANGED <<delivered, peer, mask, registered, send_queue, revents, up>>
        /\ pc' = IF "ERR" \in revents THEN "error" ELSE "wait"
    BY <1>2 DEF Send, AfterWrite, client, epoll, object
  <2>2. pc' = "wait"
    BY <1>c, <2>1
  <2>3. peer # "fin"
    BY <1>c, <1>w, <2>1, AllHeard
  <2> QED
    BY <1>c, <2>1, <2>2, <2>3 DEF Careful
<1>3. CASE SendAgain
  <2>1. pc = "send" /\ UNCHANGED <<peer, registered, up>>
    BY <1>3 DEF SendAgain, client, Modify
  <2>2. Whole'
    BY <1>w, <2>1 DEF Whole, Roomy, SndBuf
  <2> QED
    BY <1>3, <2>2, SendAgainOutput
<1>4. CASE SendEnd
  BY <1>c, <1>4 DEF SendEnd
<1> QED
  BY <1>1, <1>2, <1>3, <1>4

-------------------------------------------------------------------------------
LEMMA ClientTypes ==
    ASSUME TypeOK, Input, Client, UNCHANGED setting
    PROVE  TypeOK'
<1>1. UNCHANGED <<mask, registered, pc, revents, object, response, up>> /\ SndBuf' = SndBuf
  BY DEF Client, ClientWrite, ClientRead, ClientClose, ClientAbort, SndBuf
<1>2. ready' \in BOOLEAN
  <2>1. \A e : Edge(e) => ready' \in BOOLEAN
    BY Zenon DEF Edge
  <2>2. ready \in BOOLEAN
    BY DEF TypeOK
  <2> QED
    BY <2>1, <2>2 DEF Client, ClientWrite, ClientRead, ClientClose, ClientAbort
<1>3. CASE ClientWrite
  <2>1. UNCHANGED <<peer, delivered, tx>>
    BY <1>3 DEF ClientWrite
  <2>2. rx' \in Seq(Byte) /\ written' \in 0 .. 2 * Commands
    BY <1>3, WriteInput
  <2> QED
    BY <1>1, <1>2, <2>1, <2>2 DEF TypeOK, object
<1>4. CASE ClientRead
  <2>1. UNCHANGED <<written, peer, rx>>
    BY <1>4 DEF ClientRead
  <2>2. delivered' \in Seq(Byte) /\ tx' \in Seq(Byte)
    BY <1>4, ReadTypes
  <2>3. Len(tx') <= SndBuf
    <3>1. Len(tx') <= Len(tx) /\ Len(tx) <= SndBuf /\ Len(tx') \in Nat /\ Len(tx) \in Nat /\ SndBuf \in Nat
      BY <1>4, ReadTypes, SettingIs DEF TypeOK
    <3> QED
      BY <3>1
  <2> QED
    BY <1>1, <1>2, <2>1, <2>2, <2>3 DEF TypeOK, object
<1>5. CASE ClientClose
  <2>1. UNCHANGED <<written, delivered, rx, tx>> /\ peer' = "fin"
    BY <1>5 DEF ClientClose
  <2> QED
    BY <1>1, <1>2, <2>1 DEF TypeOK, object
<1>6. CASE ClientAbort
  <2>1. UNCHANGED <<written, delivered, rx>> /\ peer' = "rst" /\ tx' = <<>>
    BY <1>6 DEF ClientAbort
  <2>2. tx' \in Seq(Byte) /\ Len(tx') <= SndBuf
    BY <2>1, SettingIs
  <2> QED
    BY <1>1, <1>2, <2>1, <2>2 DEF TypeOK, object
<1> QED
  BY <1>3, <1>4, <1>5, <1>6 DEF Client

LEMMA ModifyTypes ==
    ASSUME TypeOK, NEW m \in {{"IN"}, {"IN", "OUT"}}, NEW received, NEW unsent,
           Modify(m, received, unsent)
    PROVE  /\ mask' \in {{"IN"}, {"IN", "OUT"}}
           /\ ready' \in BOOLEAN /\ registered' \in BOOLEAN
<1>1. ready' \in BOOLEAN
  BY Zenon DEF Modify
<1>2. registered' \in BOOLEAN
  BY DEF Modify, TypeOK
<1> QED
  BY <1>1, <1>2 DEF Modify

LEMMA LoopTypes ==
    ASSUME TypeOK, Input, Output, Loop, UNCHANGED setting
    PROVE  TypeOK'
<1>1. UNCHANGED client /\ SndBuf' = SndBuf
  BY DEF Loop, EpollWait, Recv, RecvAgain, RecvEnd, DanglingCall, Take, Send, SendAgain, SendEnd, SndBuf
<1>2. CASE EpollWait
  <2> DEFINE found == Polled(rx, tx, peer) \cap Wanted(mask)
  <2>1. /\ ready' = FALSE /\ revents' = found
        /\ pc' = IF "IN" \in found THEN "read" ELSE IF "OUT" \in found THEN "write" ELSE "wait"
        /\ UNCHANGED <<rx, tx, mask, registered, object, response, up>>
    BY <1>2 DEF EpollWait
  <2>2. found \subseteq {"IN", "OUT", "ERR"}
    BY DEF Polled
  <2> HIDE DEF found
  <2>3. pc' \in {"wait", "read", "write", "send", "error"}
    BY <2>1
  <2> QED
    BY <1>1, <2>1, <2>2, <2>3 DEF TypeOK, client, object
<1>3. CASE Recv
  <2>1. UNCHANGED <<tx, pc, revents, response, up>>
    BY <1>3 DEF Recv
  <2>2. rx' \in Seq(Byte) /\ r_buf' \in Seq(Byte) /\ executed' \in Seq(0 .. Commands)
        /\ send_queue' \in Seq(0 .. Commands)
    BY <1>3, RecvInput, RecvOutput
  <2>3. mask' \in {{"IN"}, {"IN", "OUT"}} /\ ready' \in BOOLEAN /\ registered' \in BOOLEAN
    <3>1. CASE UNCHANGED epoll
      BY <3>1 DEF epoll, TypeOK
    <3>2. CASE Modify({"IN", "OUT"}, rx', tx)
      BY <3>2, ModifyTypes
    <3> QED
      BY <1>3, <3>1, <3>2, RecvQueue
  <2> QED
    BY <1>1, <2>1, <2>2, <2>3 DEF TypeOK, client
<1>4. CASE RecvAgain \/ RecvEnd
  <2>1. UNCHANGED <<rx, tx, mask, revents, object, response, up>>
    BY <1>4 DEF RecvAgain, RecvEnd, epoll, Unregister
  <2>2. ready' \in BOOLEAN /\ registered' \in BOOLEAN
    BY <1>4 DEF RecvAgain, RecvEnd, epoll, Unregister, TypeOK
  <2>3. pc' \in {"wait", "read", "write", "send", "error"}
    BY <1>4 DEF RecvAgain, RecvEnd, AfterRead, AfterWrite
  <2> QED
    BY <1>1, <2>1, <2>2, <2>3 DEF TypeOK, client, object
<1>5. CASE DanglingCall \/ SendEnd
  <2>1. UNCHANGED <<rx, tx, mask, pc, revents, object, response>> /\ up' = FALSE
    BY <1>5 DEF DanglingCall, SendEnd, epoll, Unregister
  <2>2. ready' \in BOOLEAN /\ registered' \in BOOLEAN
    BY <1>5 DEF DanglingCall, SendEnd, epoll, Unregister, TypeOK
  <2> QED
    BY <1>1, <2>1, <2>2 DEF TypeOK, client, object
<1>6. CASE Take
  <2>1. UNCHANGED <<rx, tx, revents, r_buf, executed, up>> /\ pc' = "send" /\ send_queue' = <<>>
    BY <1>6 DEF Take
  <2>2. response' \in Seq(Byte)
    BY <1>6, TakeOutput
  <2>3. mask' \in {{"IN"}, {"IN", "OUT"}} /\ ready' \in BOOLEAN /\ registered' \in BOOLEAN
    BY <1>6, ModifyTypes DEF Take
  <2>4. send_queue' \in Seq(0 .. Commands)
    BY <2>1
  <2> QED
    BY <1>1, <2>1, <2>2, <2>3, <2>4 DEF TypeOK, client
<1>7. CASE Send
  <2>1. UNCHANGED <<rx, epoll, revents, object, up>> /\ response' = <<>>
        /\ pc' \in {"wait", "read", "write", "send", "error"}
    BY <1>7 DEF Send, AfterWrite
  <2>2. tx' \in Seq(Byte) /\ Len(tx') <= SndBuf
    BY <1>7, SendOutput
  <2>3. response' \in Seq(Byte)
    BY <2>1
  <2> QED
    BY <1>1, <2>1, <2>2, <2>3 DEF TypeOK, client, object, epoll
<1>8. CASE SendAgain
  <2>1. UNCHANGED <<rx, tx, revents, object, up>> /\ response' = <<>>
        /\ pc' \in {"wait", "read", "write", "send", "error"}
    BY <1>8 DEF SendAgain, AfterWrite
  <2>2. mask' \in {{"IN"}, {"IN", "OUT"}} /\ ready' \in BOOLEAN /\ registered' \in BOOLEAN
    BY <1>8, ModifyTypes DEF SendAgain
  <2>3. response' \in Seq(Byte)
    BY <2>1
  <2> QED
    BY <1>1, <2>1, <2>2, <2>3 DEF TypeOK, client, object
<1> QED
  BY <1>2, <1>3, <1>4, <1>5, <1>6, <1>7, <1>8 DEF Loop

-------------------------------------------------------------------------------
LEMMA InitInv == Init => Inv
<1> SUFFICES ASSUME Init
             PROVE  Inv
  OBVIOUS
<1>1. /\ SndBuf \in Nat \ {0} /\ Commands \in Nat /\ 2 * Commands \in Nat
      /\ setting.refusing \in BOOLEAN /\ setting.polite \in BOOLEAN
  <2>1. setting \in [room : Nat \ {0}, refusing : BOOLEAN, polite : BOOLEAN]
    BY SettingsAssumption DEF Init
  <2>2. setting.refusing \in BOOLEAN /\ setting.polite \in BOOLEAN
    BY <2>1, Zenon
  <2> QED
    BY <2>1, <2>2, CommandsAssumption DEF SndBuf
<1>2. Cmds(0, 0) = <<>> /\ Bytes(0, 0) = <<>> /\ 2 * 0 = 0
  <2>1. 0 \in Nat /\ 0 <= 0
    OBVIOUS
  <2>2. Cmds(0, 0) = <<>>
    BY <2>1, CmdsAre
  <2>3. Bytes(0, 0) = <<>>
    BY <2>1, BytesAre
  <2> QED
    BY <2>2, <2>3
<1>3. TypeOK
  <2>1. <<>> \in Seq(Byte) /\ <<>> \in Seq(0 .. Commands) /\ Len(<<>>) = 0
    OBVIOUS
  <2>2. setting \in Settings /\ written = 0 /\ peer = "open" /\ delivered = <<>> /\ rx = <<>> /\ tx = <<>>
    BY DEF Init
  <2>3. 0 \in 0 .. 2 * Commands /\ Len(tx) <= SndBuf
    BY <1>1, <2>1, <2>2
  <2> QED
    BY <2>1, <2>2, <2>3 DEF Init, TypeOK
<1>4. Input
  <2>1. Len(executed) = 0 /\ Len(r_buf) = 0 /\ Received = 0
    BY DEF Init, Received
  <2>2. executed = <<>> /\ r_buf = <<>> /\ rx = <<>> /\ written = 0
    BY DEF Init
  <2> QED
    BY <1>2, <2>1, <2>2 DEF Input
<1>5. Output
  <2>1. Len(executed) = 0 /\ pc # "send" /\ send_queue = <<>> /\ response = <<>>
    BY DEF Init
  <2>2. delivered \o tx = <<>> /\ Len(delivered \o tx) = 0
    BY DEF Init
  <2>3. Ascends(delivered \o tx, 2 * 0)
    BY <2>2 DEF Ascends
  <2>4. Sent(0, 0)
    BY <1>2, <2>1, <2>2, <2>3 DEF Sent
  <2>5. 0 \in 0 .. Commands
    BY <1>1
  <2> QED
    BY <2>4, <2>5 DEF Output
<1>6. Events /\ Careful
  BY DEF Init, Events, Careful
<1> QED
  BY <1>3, <1>4, <1>5, <1>6 DEF Inv

LEMMA NextInv == Inv /\ [Next]_vars => Inv'
<1> SUFFICES ASSUME Inv, [Next]_vars
             PROVE  Inv'
  OBVIOUS
<1>1. TypeOK /\ Input /\ Output /\ Events /\ Careful
  BY DEF Inv
<1>2. CASE UNCHANGED vars
  <2>1. TypeOK'
    BY <1>1, <1>2 DEF vars, client, epoll, object, TypeOK, SndBuf
  <2>2. Input'
    BY <1>1, <1>2, SameInput DEF vars, client, object
  <2>3. Whole' => Whole
    BY <1>2 DEF vars, client, epoll, Whole, Roomy, SndBuf
  <2>4. Output'
    BY <1>1, <1>2, <2>3, SameOutput DEF vars, client, object
  <2>5. Events' /\ Careful'
    BY <1>1, <1>2 DEF vars, client, epoll, object, Events, Careful, Roomy, SndBuf
  <2> QED
    BY <2>1, <2>2, <2>4, <2>5 DEF Inv
<1>3. CASE Next
  <2>1. up /\ (Client \/ Loop) /\ UNCHANGED setting
    BY <1>3 DEF Next
  <2>2. TypeOK'
    BY <1>1, <2>1, ClientTypes, LoopTypes
  <2>3. Input'
    <3>1. CASE ClientWrite
      BY <1>1, <3>1, WriteInput
    <3>2. CASE Recv
      BY <1>1, <3>2, RecvInput
    <3>3. CASE ~ClientWrite /\ ~Recv
      <4>1. UNCHANGED <<rx, r_buf, executed, written>>
        BY <2>1, <3>3 DEF Client, Loop, ClientRead, ClientClose, ClientAbort, EpollWait, RecvAgain,
             RecvEnd, DanglingCall, Take, Send, SendAgain, SendEnd, client, object
      <4> QED
        BY <1>1, <4>1, SameInput
    <3> QED
      BY <3>1, <3>2, <3>3
  <2>4. Output'
    <3>1. CASE ClientAbort
      BY <1>1, <3>1, AbortOutput
    <3>2. CASE Recv
      BY <1>1, <2>1, <3>2, RecvOutput
    <3>3. CASE Take
      BY <1>1, <2>1, <3>3, TakeOutput
    <3>4. CASE Send
      BY <1>1, <2>1, <3>4, SendOutput
    <3>5. CASE SendAgain
      BY <1>1, <2>1, <3>5, SendAgainOutput
    <3>6. CASE ClientWrite \/ ClientRead \/ ClientClose \/ EpollWait \/ RecvAgain \/ RecvEnd
                 \/ DanglingCall \/ SendEnd
      BY <1>1, <2>1, <3>6, OthersKeepOutput
    <3> QED
      BY <2>1, <3>1, <3>2, <3>3, <3>4, <3>5, <3>6 DEF Client, Loop
  <2>5. Events'
    BY <1>1, <2>1, ClientEvents, WaitEvents, ReadEvents, SendEvents DEF Loop
  <2>6. Careful'
    BY <1>1, <2>1, ClientCareful, ReadCareful, SendCareful DEF Loop
  <2> QED
    BY <2>2, <2>3, <2>4, <2>5, <2>6 DEF Inv
<1> QED
  BY <1>2, <1>3

LEMMA Invariance == Spec => []Inv
BY InitInv, NextInv, PTL DEF Spec

-------------------------------------------------------------------------------
\* For any clients and kernels every variable keeps its type: the socket never
\* holds more than its buffer and EPOLLIN stays armed.
THEOREM TypeCorrect == Spec => []TypeOK
<1>1. Inv => TypeOK
  BY DEF Inv
<1> QED
  BY <1>1, Invariance, PTL

\* Whatever the segments, the commands are executed as they were written, each
\* whole and once.
THEOREM CommandsInOrder == Spec => []ExecutedInOrder
<1>1. Inv => ExecutedInOrder
  <2> SUFFICES ASSUME Inv
               PROVE  ExecutedInOrder
    OBVIOUS
  <2>1. TypeOK /\ Input
    BY DEF Inv
  <2> DEFINE k == Len(executed)
  <2>2. k \in Nat /\ 2 * k <= written /\ written \in Nat /\ executed = Cmds(0, k)
    BY <2>1, InputIs, SettingIs DEF Input
  <2> HIDE DEF k
  <2>3. k <= written \div 2
    BY <2>2, Halves
  <2>4. DOMAIN Cmds(0, k) = 1 .. k /\ \A n \in 1 .. k : Cmds(0, k)[n] = n
    <3>1. 0 \in Nat /\ 0 <= k /\ k - 0 = k /\ \A n \in 1 .. k : 0 + n = n
      BY <2>2
    <3> QED
      BY <2>2, <3>1, CmdsAre
  <2> QED
    BY <2>2, <2>3, <2>4 DEF ExecutedInOrder, k
<1> QED
  BY <1>1, Invariance, PTL

\* The edge-triggered loop never sleeps on input, on a hang-up or on an answer
\* that it has been told about.
THEOREM NothingSleeps == Spec => []NothingStranded
<1>1. Inv => NothingStranded
  <2> SUFFICES ASSUME Inv, registered, up, pc = "wait", ~ready
               PROVE  /\ rx = <<>> /\ peer = "open"
                      /\ LastNewline(r_buf) = 0
                      /\ send_queue # <<>> => "OUT" \in mask /\ Free = 0
    BY DEF NothingStranded
  <2>1. TypeOK /\ Input /\ Events
    BY DEF Inv
  <2>2. rx = <<>> /\ peer = "open"
    BY <2>1 DEF Events
  <2>3. LastNewline(r_buf) = 0
    <3> DEFINE k == Len(executed)
    <3>1. k \in Nat /\ Received \in {2 * k, 2 * k + 1} /\ r_buf = Bytes(2 * k, Received)
      BY <2>1, InputIs DEF Input
    <3> HIDE DEF k
    <3>2. LastNewline(Bytes(2 * k, Received)) = 2 * k - 2 * k
      <4>1. k <= k
        BY <3>1
      <4> QED
        BY <3>1, <4>1, LastNewlineIs
    <3> QED
      BY <3>1, <3>2
  <2>4. send_queue # <<>> => "OUT" \in mask /\ ~(Len(tx) < SndBuf)
    BY <2>1 DEF Events
  <2>5. Len(tx) <= SndBuf /\ Len(tx) \in Nat /\ SndBuf \in Nat
    BY <2>1, SettingIs DEF TypeOK
  <2> QED
    BY <2>2, <2>3, <2>4, <2>5 DEF Free
<1> QED
  BY <1>1, Invariance, PTL

\* The bytes on the way: what was sent, then the string, then the queue.
LEMMA OnTheWay ==
    ASSUME TypeOK, Input, NEW p \in 0 .. Commands, NEW q \in 0 .. Commands, Sent(p, q)
    PROVE  delivered \o tx \o response \o Stream(send_queue)
             = (delivered \o tx) \o Bytes(2 * p, 2 * q) \o Bytes(2 * q, 2 * Len(executed))
<1>1. q \in Nat /\ Len(executed) \in Nat /\ q <= Len(executed)
  BY SentIs
<1>2. Stream(send_queue) = Bytes(2 * q, 2 * Len(executed))
  BY <1>1, StreamOfCmds DEF Sent
<1> QED
  BY <1>2 DEF Sent

\* Whatever is dropped, answers reach the client in order and none twice.
THEOREM AnswersStayInOrder == Spec => []AnswersInOrder
<1>1. Inv => AnswersInOrder
  <2> SUFFICES ASSUME Inv
               PROVE  AnswersInOrder
    OBVIOUS
  <2>1. TypeOK /\ Input /\ Output
    BY DEF Inv
  <2>2. PICK p, q \in 0 .. Commands : Sent(p, q)
    BY <2>1 DEF Output
  <2> DEFINE k == Len(executed)
  <2> DEFINE sent == delivered \o tx
  <2>3. p \in Nat /\ q \in Nat /\ k \in Nat /\ p <= q /\ q <= k /\ k <= Commands /\ Commands \in Nat
        /\ sent \in Seq(Byte)
    BY <2>1, <2>2, SentIs
  <2>4. Ascends(sent, 2 * p)
    BY <2>2 DEF Sent
  <2> DEFINE bytes == delivered \o tx \o response \o Stream(send_queue)
  <2>5. bytes = sent \o Bytes(2 * p, 2 * q) \o Bytes(2 * q, 2 * k)
    BY <2>1, <2>2, OnTheWay
  <2> HIDE DEF k, sent, bytes
  <2>6. 2 * p \in Nat /\ 2 * q \in Nat /\ 2 * k \in Nat
        /\ 2 * p <= 2 * q /\ 2 * q <= 2 * k /\ 2 * q <= 2 * Commands /\ 2 * k <= 2 * Commands
    BY <2>3
  <2> DEFINE more == sent \o Bytes(2 * p, 2 * q)
  <2>7. Ascends(more, 2 * q)
    BY <2>3, <2>4, <2>6, AscendsMore
  <2>8. more \in Seq(Byte)
    <3>1. Bytes(2 * p, 2 * q) \in Seq(Byte)
      BY <2>6, BytesTyped
    <3> QED
      BY <2>3, <3>1, ConcatProperties
  <2>9. Bytes(2 * q, 2 * k) \in Seq(Byte)
    BY <2>6, BytesTyped
  <2>10. bytes = more \o Bytes(2 * q, 2 * k)
    BY <2>5
  <2> HIDE DEF more
  <2>11. Ascends(bytes, 2 * k)
    BY <2>6, <2>7, <2>8, <2>10, AscendsMore
  <2>12. bytes \in Seq(Byte)
    BY <2>8, <2>9, <2>10, ConcatProperties
  <2>13. Len(bytes) \in Nat
    BY <2>12
  <2>14. \A i \in 1 .. Len(bytes) - 1 :
              \/ bytes[i][1] < bytes[i + 1][1]
              \/ bytes[i][1] = bytes[i + 1][1] /\ bytes[i][2] < bytes[i + 1][2]
    BY <2>6, <2>11, <2>13, AscendingInOrder
  <2> QED
    BY <2>14 DEF AnswersInOrder, bytes
<1> QED
  BY <1>1, Invariance, PTL

\* The kernel does not run out of memory for a socket that has room.
Obliging == \A s \in Settings : s.room >= 2 * Commands => ~s.refusing

LEMMA RoomyIsObliged ==
    ASSUME Obliging, TypeOK, Roomy
    PROVE  ~setting.refusing
BY DEF Obliging, TypeOK, Roomy, SndBuf

\* If a kernel with room for the answers accepts them, no answer is lost,
\* repeated or reordered while the connection stands.
THEOREM NoAnswerIsLost == ASSUME Obliging PROVE Spec => []NothingLost
<1>1. Inv => NothingLost
  <2> SUFFICES ASSUME Inv, Roomy, registered, up, peer # "rst"
               PROVE  Stream(executed) = delivered \o tx \o response \o Stream(send_queue)
    BY DEF NothingLost
  <2>1. TypeOK /\ Input /\ Output
    BY DEF Inv
  <2>2. PICK p, q \in 0 .. Commands : Sent(p, q)
    BY <2>1 DEF Output
  <2> DEFINE k == Len(executed)
  <2>3. p \in Nat /\ q \in Nat /\ k \in Nat /\ p <= q /\ q <= k
    BY <2>1, <2>2, SentIs
  <2>4. Whole
    BY <2>1, RoomyIsObliged DEF Whole
  <2>5. delivered \o tx = Bytes(0, 2 * p)
    BY <2>2, <2>4 DEF Sent
  <2>6. executed = Cmds(0, k)
    BY <2>1 DEF Input
  <2>7. delivered \o tx \o response \o Stream(send_queue)
          = Bytes(0, 2 * p) \o Bytes(2 * p, 2 * q) \o Bytes(2 * q, 2 * k)
    BY <2>1, <2>2, <2>5, OnTheWay
  <2> HIDE DEF k
  <2>8. 0 \in Nat /\ 2 * p \in Nat /\ 2 * q \in Nat /\ 2 * k \in Nat
        /\ 0 <= 2 * p /\ 2 * p <= 2 * q /\ 2 * q <= 2 * k /\ 0 <= 2 * q /\ 0 <= k /\ 2 * 0 = 0
    BY <2>3
  <2>9. Bytes(0, 2 * p) \o Bytes(2 * p, 2 * q) = Bytes(0, 2 * q)
    BY <2>8, BytesJoin
  <2>10. Bytes(0, 2 * q) \o Bytes(2 * q, 2 * k) = Bytes(0, 2 * k)
    BY <2>8, BytesJoin
  <2>11. Stream(executed) = Bytes(0, 2 * k)
    <3>1. Stream(Cmds(0, k)) = Bytes(2 * 0, 2 * k)
      BY <2>3, <2>8, StreamOfCmds
    <3> QED
      BY <2>6, <2>8, <3>1
  <2> QED
    BY <2>7, <2>9, <2>10, <2>11
<1> QED
  BY <1>1, Invariance, PTL

\* A client that closes after its last answer never makes the loop call a
\* member of the destroyed connection.
THEOREM CloseIsSafe == ASSUME Obliging PROVE Spec => []NoDanglingCall
<1>1. Inv => NoDanglingCall
  <2> SUFFICES ASSUME Inv, Roomy, setting.polite
               PROVE  up
    BY DEF NoDanglingCall
  <2>1. ~setting.refusing
    BY RoomyIsObliged DEF Inv
  <2> QED
    BY <2>1 DEF Inv, Careful
<1> QED
  BY <1>1, Invariance, PTL

-------------------------------------------------------------------------------
\* The connection object is given up for a client that has gone, or by the call
\* that ends the process.
Standing == up /\ peer = "open" => registered

LEMMA StandingStays ==
    ASSUME Standing, [Next]_vars
    PROVE  Standing'
<1>1. CASE UNCHANGED vars
  BY <1>1 DEF Standing, vars, client, epoll
<1>2. CASE Next
  <2>1. up /\ (Client \/ Loop)
    BY <1>2 DEF Next
  <2>2. CASE Client
    BY <2>1, <2>2 DEF Client, ClientWrite, ClientRead, ClientClose, ClientAbort, Standing
  <2>3. CASE Recv
    <3>1. UNCHANGED <<peer, up>> /\ registered' = registered
      BY <2>3 DEF Recv, Process, Modify, client, epoll
    <3> QED
      BY <3>1 DEF Standing
  <2>4. CASE EpollWait \/ RecvAgain \/ RecvEnd \/ DanglingCall
    BY <2>1, <2>4 DEF EpollWait, RecvAgain, RecvEnd, DanglingCall, Unregister, client, epoll, Standing
  <2>5. CASE Take \/ Send \/ SendAgain \/ SendEnd
    BY <2>1, <2>5 DEF Take, Send, SendAgain, SendEnd, Modify, Unregister, client, epoll, Standing
  <2> QED
    BY <2>1, <2>2, <2>3, <2>4, <2>5 DEF Loop
<1> QED
  BY <1>1, <1>2

\* With room, what a client that stays has read and what is on its way to it
\* are the first bytes of the answers.
LEMMA ReadIsPrefix ==
    ASSUME Obliging, TypeOK, Input, Output, Standing, up, Roomy, peer = "open"
    PROVE  \E p \in Nat : delivered \o tx = Bytes(0, 2 * p) /\ 2 * p <= 2 * (written \div 2)
<1>1. PICK p, q \in 0 .. Commands : Sent(p, q)
  BY DEF Output
<1>2. Whole
  BY RoomyIsObliged DEF Whole, Standing
<1>3. delivered \o tx = Bytes(0, 2 * p)
  BY <1>1, <1>2 DEF Sent
<1>4. p \in Nat /\ p <= Len(executed) /\ Len(executed) \in Nat
  BY <1>1, SentIs
<1>5. 2 * Len(executed) <= written /\ written \in Nat
  BY InputIs
<1>6. p <= written \div 2 /\ written \div 2 \in Nat
  BY <1>4, <1>5, Halves
<1> QED
  BY <1>3, <1>4, <1>6

LEMMA FirstBytes ==
    ASSUME NEW n \in Nat
    PROVE  /\ Len(Bytes(0, n)) = n
           /\ Bytes(0, n) \in Seq({Nth(i) : i \in Nat})
           /\ \A i \in 1 .. n : Bytes(0, n)[i] = Nth(i)
<1>1. 0 \in Nat /\ 0 <= n /\ n - 0 = n
  OBVIOUS
<1>2. /\ Len(Bytes(0, n)) = n - 0
      /\ Bytes(0, n) \in Seq({Nth(i) : i \in Nat})
      /\ \A i \in 1 .. n - 0 : Bytes(0, n)[i] = Nth(0 + i)
  BY <1>1, BytesAre
<1>3. \A i \in 1 .. n : 0 + i = i
  OBVIOUS
<1> QED
  BY <1>1, <1>2, <1>3

\* The first part of a sequence that is known to be bytes 1 .. h.
LEMMA FirstPart ==
    ASSUME NEW s \in Seq(Byte), NEW t \in Seq(Byte), NEW h \in Nat, s \o t = Bytes(0, h)
    PROVE  s = Bytes(0, Len(s)) /\ Len(s) + Len(t) = h
<1>1. Len(s \o t) = Len(s) + Len(t) /\ Len(s) \in Nat /\ Len(t) \in Nat
  BY ConcatProperties
<1>2. Len(Bytes(0, h)) = h /\ \A i \in 1 .. h : Bytes(0, h)[i] = Nth(i)
  BY FirstBytes
<1>3. Len(s) + Len(t) = h
  BY <1>1, <1>2
<1>4. \A i \in 1 .. Len(s) : (s \o t)[i] = s[i]
  BY ConcatProperties
<1>5. Len(s) <= h
  BY <1>1, <1>3
<1>6. /\ Len(Bytes(0, Len(s))) = Len(s)
      /\ Bytes(0, Len(s)) \in Seq({Nth(i) : i \in Nat})
      /\ \A i \in 1 .. Len(s) : Bytes(0, Len(s))[i] = Nth(i)
  BY <1>1, FirstBytes
<1> DEFINE u == Bytes(0, Len(s))
<1>8. \A i \in 1 .. Len(s) : u[i] = s[i]
  <2> TAKE i \in 1 .. Len(s)
  <2>1. i \in 1 .. h
    BY <1>1, <1>5
  <2> QED
    BY <1>2, <1>4, <1>6, <2>1
<1>9. u = s
  <2>1. u \in Seq({Nth(i) : i \in Nat}) /\ Len(u) = Len(s)
    BY <1>6
  <2> HIDE DEF u
  <2>2. u = [i \in 1 .. Len(s) |-> u[i]] /\ s = [i \in 1 .. Len(s) |-> s[i]]
    BY <2>1
  <2> QED
    BY <1>8, <2>2
<1> QED
  BY <1>3, <1>9

\* What a read adds to what the client has heard.
LEMMA ReadHears ==
    ASSUME Obliging, TypeOK, Input, Output, Standing, up, Roomy, peer = "open", ClientRead
    PROVE  /\ Len(delivered) \in Nat /\ Len(delivered') \in Nat
           /\ Len(delivered) < Len(delivered') /\ Len(delivered') <= 2 * (written \div 2)
           /\ delivered' = Bytes(0, Len(delivered'))
<1>1. PICK p \in Nat : delivered \o tx = Bytes(0, 2 * p) /\ 2 * p <= 2 * (written \div 2)
  BY ReadIsPrefix
<1>2. delivered' \o tx' = Bytes(0, 2 * p)
  BY <1>1, ReadKeepsStream
<1>3. delivered \in Seq(Byte) /\ tx \in Seq(Byte)
  BY DEF TypeOK
<1>4. PICK n \in 1 .. Len(tx) : delivered' = delivered \o SubSeq(tx, 1, n)
                                /\ tx' = SubSeq(tx, n + 1, Len(tx))
  BY DEF ClientRead
<1>5. n \in Nat /\ n >= 1 /\ n <= Len(tx) /\ Len(tx) \in Nat
  BY <1>3
<1>6. /\ SubSeq(tx, 1, n) \in Seq(Byte) /\ Len(SubSeq(tx, 1, n)) = n
      /\ SubSeq(tx, n + 1, Len(tx)) \in Seq(Byte)
  BY <1>3, <1>5
<1>7. delivered' \in Seq(Byte) /\ tx' \in Seq(Byte) /\ Len(delivered') = Len(delivered) + n
  BY <1>3, <1>4, <1>6, ConcatProperties
<1>8. 2 * p \in Nat
  BY <1>1
<1>9. delivered' = Bytes(0, Len(delivered')) /\ Len(delivered') + Len(tx') = 2 * p
  BY <1>2, <1>7, <1>8, FirstPart
<1>10. Len(delivered) \in Nat /\ Len(tx') \in Nat /\ written \div 2 \in Nat
  BY <1>3, <1>7, InputIs, Halves
<1> QED
  BY <1>1, <1>5, <1>7, <1>8, <1>9, <1>10

\* The first m bytes of the first n answers.
LEMMA AnswersAre ==
    ASSUME NEW n \in Nat, NEW m \in Nat, m <= 2 * n
    PROVE  /\ SubSeq(Stream([c \in 1 .. n |-> c]), 1, m) = Bytes(0, m)
           /\ Len(Stream([c \in 1 .. n |-> c])) = 2 * n
<1>1. Cmds(0, n) = [c \in 1 .. n |-> c]
  BY DEF Cmds
<1>2. Stream(Cmds(0, n)) = Bytes(0, 2 * n)
  <2>1. 0 <= n /\ 2 * 0 = 0
    OBVIOUS
  <2>2. Stream(Cmds(0, n)) = Bytes(2 * 0, 2 * n)
    BY <2>1, StreamOfCmds
  <2> QED
    BY <2>1, <2>2
<1>3. 2 * n \in Nat /\ 0 <= 2 * n /\ 2 * n - 0 = 2 * n /\ 0 + 1 = 1 /\ 0 + m = m /\ 0 + 0 = 0
      /\ 0 \in 0 .. 2 * n /\ m \in 0 .. 2 * n
  OBVIOUS
<1>4. Len(Bytes(0, 2 * n)) = 2 * n
  BY <1>3, BytesAre
<1>5. SubSeq(Bytes(0, 2 * n), 0 + 1, m) = Bytes(0 + 0, 0 + m)
  <2>1. 0 \in Nat /\ 0 \in 0 .. 2 * n - 0 /\ m \in 0 .. 2 * n - 0
    BY <1>3
  <2> QED
    BY <1>3, <2>1, BytesCut
<1> QED
  BY <1>1, <1>2, <1>3, <1>4, <1>5

\* A step of the connection is a step of the service, or none that shows.
LEMMA StepServes ==
    ASSUME Obliging, Inv, Standing, [Next]_vars
    PROVE  [Promised!Next]_(Promised!vars)
<1>1. TypeOK /\ Input /\ Output
  BY DEF Inv
<1>2. CASE UNCHANGED vars
  BY <1>2 DEF vars, client, Promised!vars, Roomy, SndBuf
<1>3. CASE Next
  <2>1. up /\ (Client \/ Loop) /\ UNCHANGED setting
    BY <1>3 DEF Next
  <2>2. CASE ~Roomy' \/ peer' # "open"
    BY <2>2 DEF Promised!Next
  <2>3. CASE Roomy' /\ peer' = "open"
    <3>1. Roomy /\ peer = "open"
      <4>1. Roomy
        BY <2>1, <2>3 DEF Roomy, SndBuf
      <4>2. peer' # peer => peer' # "open"
        BY <2>1 DEF Client, Loop, ClientWrite, ClientRead, ClientClose, ClientAbort, EpollWait, Recv,
             RecvAgain, RecvEnd, DanglingCall, Take, Send, SendAgain, SendEnd, client
      <4> QED
        BY <2>3, <4>1, <4>2
    <3>2. CASE ClientRead
      <4> DEFINE n == written \div 2
      <4> DEFINE m == Len(delivered')
      <4>1. /\ Len(delivered) \in Nat /\ m \in Nat /\ Len(delivered) < m /\ m <= 2 * n
            /\ delivered' = Bytes(0, m)
        BY <1>1, <2>1, <3>1, <3>2, ReadHears
      <4>2. n \in Nat
        BY <1>1, InputIs, Halves
      <4>3. written' = written
        BY <3>2 DEF ClientRead
      <4> HIDE DEF n, m
      <4>4. /\ SubSeq(Stream([c \in 1 .. n |-> c]), 1, m) = Bytes(0, m)
            /\ Len(Stream([c \in 1 .. n |-> c])) = 2 * n
        BY <4>1, <4>2, AnswersAre
      <4>5. m \in Len(delivered) + 1 .. Len(Stream([c \in 1 .. n |-> c]))
        BY <4>1, <4>2, <4>4
      <4>6. Promised!Hear
        BY <4>1, <4>3, <4>4, <4>5 DEF Promised!Hear, n
      <4> QED
        BY <2>3, <3>1, <4>6 DEF Promised!Next
    <3>3. CASE ClientWrite
      <4>1. written' = written + 1 /\ written < 2 * Commands /\ delivered' = delivered
        BY <3>3 DEF ClientWrite
      <4>2. written \in Nat /\ Commands \in Nat
        BY <1>1, InputIs, SettingIs
      <4>3. written \div 2 < Commands
        BY <4>1, <4>2, Halves
      <4>4. written' \div 2 = written \div 2 \/ written' \div 2 = written \div 2 + 1
        <5>1. written' \in Nat
          BY <4>1, <4>2
        <5> QED
          BY <4>1, <4>2, <5>1, Halves
      <4>5. CASE written' \div 2 = written \div 2
        BY <2>3, <3>1, <4>1, <4>5 DEF Promised!vars
      <4>6. CASE written' \div 2 = written \div 2 + 1
        BY <2>3, <3>1, <4>1, <4>3, <4>6 DEF Promised!Next, Promised!Ask
      <4> QED
        BY <4>4, <4>5, <4>6
    <3>4. CASE ~ClientRead /\ ~ClientWrite
      <4>1. UNCHANGED <<written, delivered>>
        BY <2>1, <3>4 DEF Client, Loop, ClientClose, ClientAbort, EpollWait, Recv,
             RecvAgain, RecvEnd, DanglingCall, Take, Send, SendAgain, SendEnd, client
      <4> QED
        BY <2>3, <3>1, <4>1 DEF Promised!vars
    <3> QED
      BY <3>2, <3>3, <3>4
  <2> QED
    BY <2>2, <2>3
<1> QED
  BY <1>2, <1>3

\* What the connection promises its client, as an abstract specification: if a
\* kernel with room for the answers accepts them, the commands are answered in
\* order, each once, in full, and never before they are asked, for as long as
\* the client stays.  That an answer does come at last is left to the run.
THEOREM ConnectionServes == ASSUME Obliging PROVE Spec => Promised!Spec
<1>1. Init => Promised!Init
  BY DEF Init, Promised!Init, Roomy
<1>2. Init => Standing
  BY DEF Init, Standing
<1>3. Inv /\ Standing /\ [Next]_vars => [Promised!Next]_(Promised!vars)
  BY StepServes
<1>4. Standing /\ [Next]_vars => Standing'
  BY StandingStays
<1> QED
  BY <1>1, <1>2, <1>3, <1>4, Invariance, PTL DEF Spec, Promised!Spec
===============================================================================
