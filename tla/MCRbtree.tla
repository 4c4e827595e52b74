-------------------------------- MODULE MCRbtree --------------------------------
\* Enough keys to reach every case of the two fix-up loops on both sides.
EXTENDS KVRbtree

CONSTANTS v1, v2

MCKey == 1 .. 6
MCKey3 == 1 .. 3
MCTime == {0, 1}

\* Bound: odd keys keep one value and even keys another, so that a key that gets
\* another key's value is seen, at the price of one value per key.
ValueByParity ==
    \A x \in Live : item[x].value # Null => item[x].value = IF item[x].key % 2 = 1 THEN v1 ELSE v2

\* No command reads the last answer, and none depends on which address a node
\* got: two trees are the same if they are drawn the same.
KeyAt(x) == IF x \in Live THEN item[x].key ELSE nil
Drawn(x) == <<item[x], T.color[x], KeyAt(T.parent[x]), [s \in Side |-> KeyAt(T.child[s][x])]>>
MCView == <<{Drawn(x) : x \in Live}, KeyAt(T.root), T.color[nil], up, degraded>>
===============================================================================
