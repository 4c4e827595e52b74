------------------------------- MODULE MCSkiptable -------------------------------
\* Nodes on up to three levels: a node can be the only one on a level, share it,
\* and stand before or behind the node that is deleted.
EXTENDS KVSkiptable

MCKey == 1 .. 4
MCTime == {0, 1}

\* Key 3 has 255 bytes, and key 4 begins with them.
MCKept == [k \in MCKey |-> IF k = 4 THEN 3 ELSE k]

NULL == -1

\* No command reads the last answer.
MCView == <<node, level, size, degraded>>
===============================================================================
