--------------------------------- MODULE MCSync ---------------------------------
\* Two servers, one or two keys: a write of the same key on both servers, or of
\* different keys, before, during and after a SYNC.
EXTENDS Sync

CONSTANTS n1, n2

MCPieces1 == [k \in {1} |-> {Junk}]
MCPieces2 == [k \in {1, 2} |-> IF k = 2 THEN {1, Junk} ELSE {Junk}]

\* Who synchronizes from whom.
Mutual == {<<n1, n2>>, <<n2, n1>>}
===============================================================================
