-------------------------------- MODULE MCEpoll --------------------------------
\* Four commands: an answer can be under way while the next command is half
\* read and the ones after it not yet written.
EXTENDS EpollConn

Setting(room, refusing, polite) == [room |-> room, refusing |-> refusing, polite |-> polite]

\* Room for all the answers, with a client that waits for them and with one that
\* closes or aborts at any time; a small send buffer and a kernel short of memory.
MCSettings == {Setting(8, FALSE, TRUE), Setting(8, FALSE, FALSE), Setting(3, TRUE, FALSE)}

\* Room for all the answers, but a kernel short of memory.
MCRefusing == {Setting(4, TRUE, TRUE)}
===============================================================================
