--------------------------------- MODULE MCHash ---------------------------------
\* Two slots, with three of the four keys colliding: a chain of three nodes has
\* a head, an inner node and a tail.
EXTENDS KVHash

MCKey == 1 .. 4
MCTime == {0, 1}
MCHashOf == [k \in MCKey |-> IF k = 4 THEN 1 ELSE 0]

\* No command reads the last answer.
MCView == <<table, count, up, degraded>>
===============================================================================
