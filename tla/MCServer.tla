-------------------------------- MODULE MCServer --------------------------------
\* Two clients with the lines of Lines: "OD" is a key that the stale tokens of an
\* HMOD without words read, LineMax cuts the longest line, and the four engines
\* share the commands.  A constant is given its value through a second name, so
\* that TLC computes it once.
EXTENDS Server

CONSTANTS c1, c2

MCSize(w) == Len(w)
MCFront(w, n) == SubSeq(w, 1, IF n < Len(w) THEN n ELSE Len(w))
\* A bound: a pointer into a word reads all of it, its last two characters or
\* nothing.
MCSuffixes(w) == {SubSeq(w, i, Len(w)) : i \in {1, Len(w) - 1, Len(w) + 1} \cap 1 .. Len(w) + 1}

MCClient == {c1, c2}

Lines == [c \in MCClient |->
    IF c = c1
    THEN {<<"HSET", "OD", "b">>, <<"HMOD">>}
    ELSE {<<"HSET", "OD", "bbbbbb">>, <<"HDEL", "OD">>, <<"HLOAD", "f">>, <<"GETHASH">>,
          <<"SYNC", "h", "9">>, <<"RSYNC", "h", "x">>, <<"RSAVE", "f">>, <<"SRANGE", "a", "b">>, <<"ECHO">>}]

MCLine == Lines

MCElsewhere == {<<"OD", "zz">>}

MCMaxLines == [c \in MCClient |-> IF c = c1 THEN 2 ELSE 1]

Written == UNION {UNION {{line[i] : i \in DOMAIN line} : line \in Lines[c]} : c \in MCClient}
Fronts == {MCFront(w, n) : w \in Written \cup {"9", "zz"}, n \in 0 .. 7}
Words == {SubSeq(w, i, Len(w)) : w \in Fronts, i \in 1 .. 8}
MCWord == Words
===============================================================================
