-------------------------------- MODULE MCArray --------------------------------
\* A small array engine: a few keys, so that a DEL can hit the first, a middle
\* and the last slot of a table of Size slots.
EXTENDS KVArray

MCKey == 1 .. 4
MCTime == {0, 1}

\* No command reads the last answer.
MCView == <<table, total, up, degraded>>
===============================================================================
