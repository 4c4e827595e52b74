--------------------------------- MODULE MCSave ---------------------------------
\* An array with room for one item, a tree with up to three, and snapshots that are
\* killed, cut short, torn, and loaded over other items. The keys are symmetric;
\* what is read out of step is none of them.
EXTENDS KVSave

CONSTANTS k1, k2, k3

Keys == {k1, k2, k3}
MCMaxItems == [array |-> 2, rbtree |-> 3, hash |-> 2, skiptable |-> 2]

Symmetry == Permutations(Keys)

\* reply is what the properties observe; no action reads it.
MCView == <<engine, store, file, put, saving, trouble>>
===============================================================================
