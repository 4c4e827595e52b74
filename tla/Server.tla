--------------------------------- MODULE Server ---------------------------------
(*************************************************************************)
(* The whole process as its clients meet it: the acceptor (IAcceptor,    *)
(* KVStoreEpollAcceptor), the event loop over many descriptors           *)
(* (Reactor::run), the cutting of a line into tokens (process_command)   *)
(* and the switch over the commands of the four engines                  *)
(* (parse_protocol_to_string).                                           *)
(*                                                                       *)
(* It rests on what the other modules show: a connection hands over      *)
(* whole lines in their order and sends its answers (EpollConn); an      *)
(* engine is a set of items with one item for a key (KVStore;            *)
(* timestamps, the bytes of answers, a MOD that finds no memory and the  *)
(* cutting of long keys by the skip list are left to the engines'        *)
(* modules); LOAD and SYNC bring items from elsewhere (KVSave, Sync).    *)
(* The words of a line are separated by one space, epoll_wait has room   *)
(* for every event, and what C++ itself allocates is there.              *)
(*************************************************************************)
EXTENDS Integers, FiniteSets, Sequences

CONSTANTS
    Client,
    Acceptor,     \* the listening socket's handler
    Nobody,
    Word,         \* strings without spaces, the empty one included
    Size(_),      \* strlen
    Front(_, _),  \* the first characters of a word
    Suffixes(_),  \* what a pointer into a word reads
    Line,         \* the lines each client may write: sequences of words
    LineMax,      \* sizeof(command_buf) - 1
    Number,       \* the words std::stoi accepts
    Garbage,      \* the words a pointer that was never set may point at
    Elsewhere,    \* the items, <<key, value>>, of snapshots and other servers
    Limits,       \* how many descriptors there may be for clients
    MaxLines,     \* bound: how many lines each client writes
    MaxVisits,    \* bound: the connections they make, all together
    MaxFaults     \* bound: the resets, and the send()s that find no memory

ASSUME ClientAssumption ==
    /\ IsFiniteSet(Client)
    /\ {Acceptor, Nobody} \cap Client = {} /\ Acceptor # Nobody
ASSUME WordAssumption ==
    /\ "" \in Word
    /\ \A w \in Word : Suffixes(w) \subseteq Word
    /\ \A w \in Word, n \in 1 .. LineMax : Front(w, n) \in Word
ASSUME LineAssumption == (\A c \in Client : Line[c] \subseteq Seq(Word)) /\ LineMax \in Nat
ASSUME SourcesAssumption ==
    /\ Number \subseteq Word
    /\ Garbage \subseteq Word /\ Garbage # {}
    /\ Elsewhere \subseteq Word \X Word
ASSUME BoundsAssumption == Limits \subseteq Nat /\ MaxLines \in [Client -> Nat]
    /\ MaxVisits \in Nat /\ MaxFaults \in Nat

VARIABLES
    stores,       \* the items of each engine
    words,        \* how many of tokens[0 .. 2] each connection has ever set
    reply,        \* the answer to the line executed last in this turn
    end,          \* what ended the process, "" while it runs
    conn,         \* "away", "backlog" (not accepted yet) or "open"
    gone,         \* the connected clients that have closed their end
    aborted,      \* those whose connection was reset
    lines,        \* the lines written and not yet executed
    queued,       \* the connections whose send_queue has answers
    armed,        \* those with EPOLLOUT armed
    full,         \* those whose socket has no room for more answers
    ready,        \* epoll's ready list
    batch,        \* whose events of the last epoll_wait are still to be handled
    ins, outs, errs, \* the connections for which it has reported EPOLLIN, EPOLLOUT
                  \* and EPOLLERR, until they are handled
    serving,      \* whose handle_event is running
    fds,          \* descriptors in use for clients
    limit,        \* descriptors there are for them
    written,      \* bounds
    visits,
    executed,     \* history: the lines executed, whether they had success, and
                  \* whether they read what was never set
    rude,         \* history: TRUE once a client left before its last answer was
                  \* sent, or its connection was reset
    faults        \* history: how many resets and refused send()s there were

engines == <<stores, words, reply>>
clients == <<gone, aborted, visits, written, rude>>
answers == <<queued, armed, full, faults>>
events == <<ins, outs, errs>>
loop == <<ready, batch, events, serving>>
descriptors == <<fds, limit>>
vars == <<engines, end, conn, clients, lines, answers, loop, descriptors, executed>>

Engine == {"array", "rbtree", "hash", "skiptable"}

\* enum Command and its names; GETARRAY and its like are DUMP here.
Op == {"SET", "GET", "DEL", "MOD", "EXIST", "SAVE", "LOAD", "RANGE", "SYNC", "DUMP"}
commands == [
    array |-> [SET |-> "SET", GET |-> "GET", DEL |-> "DEL", MOD |-> "MOD", EXIST |-> "EXIST",
        SAVE |-> "SAVE", LOAD |-> "LOAD", RANGE |-> "RANGE", SYNC |-> "SYNC", DUMP |-> "GETARRAY"],
    rbtree |-> [SET |-> "RSET", GET |-> "RGET", DEL |-> "RDEL", MOD |-> "RMOD", EXIST |-> "REXIST",
        SAVE |-> "RSAVE", LOAD |-> "RLOAD", RANGE |-> "RRANGE", SYNC |-> "RSYNC", DUMP |-> "GETRBTREE"],
    hash |-> [SET |-> "HSET", GET |-> "HGET", DEL |-> "HDEL", MOD |-> "HMOD", EXIST |-> "HEXIST",
        SAVE |-> "HSAVE", LOAD |-> "HLOAD", RANGE |-> "HRANGE", SYNC |-> "HSYNC", DUMP |-> "GETHASH"],
    skiptable |-> [SET |-> "SSET", GET |-> "SGET", DEL |-> "SDEL", MOD |-> "SMOD", EXIST |-> "SEXIST",
        SAVE |-> "SSAVE", LOAD |-> "SLOAD", RANGE |-> "SRANGE", SYNC |-> "SSYNC", DUMP |-> "GETSKIPTABLE"]]

\* The line in command_buf is command op of engine e.
Asks(buf, e, op) == buf # <<>> /\ buf[1] = commands[e][op]

-------------------------------------------------------------------------------
\* strncpy into command_buf cuts a long line; strtok takes it apart.  (Words
\* after the third are never read, so that MAX_TOKENS cuts nothing off.)
Kept == [line \in UNION {Line[c] : c \in Client} |->
    LET End[i \in 0 .. Len(line)] == IF i = 0 THEN -1 ELSE End[i - 1] + 1 + Size(line[i])
        whole == Cardinality({i \in 1 .. Len(line) : End[i] <= LineMax})
        room == LineMax - End[whole] - 1
    IN  IF whole < Len(line) /\ room \in 1 .. LineMax
        THEN Append(SubSeq(line, 1, whole), Front(line[whole + 1], room))
        ELSE SubSeq(line, 1, whole)]

\* What a token of an earlier line reads: it points into the buffer, and the
\* buffer holds another line now, followed by zeros.
Leftovers(buf) == {""} \cup UNION {Suffixes(buf[i]) : i \in DOMAIN buf}

\* How many tokens a command of n words reads.
Reads(op, n) ==
    CASE op \in {"SET", "SYNC"} -> IF n < 3 THEN 1 ELSE 3
      [] op \in {"MOD", "RANGE"} -> 3
      [] op \in {"GET", "DEL", "EXIST", "SAVE", "LOAD"} -> 2
      [] OTHER -> 1

Larger(a, b) == IF a > b THEN a ELSE b
Smaller(a, b) == IF a < b THEN a ELSE b

\* The tokens of connection c that are set when it has cut up a line of n words.
Known(c, n) == Larger(words[c], Smaller(n, 3))

\* A line that is not empty and no command.
Unknown(buf) == buf # <<>> /\ \A e \in Engine, op \in Op : ~Asks(buf, e, op)

\* The command reads a token that this connection never set.
Undefined(c, buf) ==
    \E e \in Engine, op \in Op : Asks(buf, e, op) /\ Reads(op, Len(buf)) > Known(c, Len(buf))

\* Mutant: the buffer outlives the call, so that a token keeps its text.
TokenRemembered(c, buf, n, i) ==
    IF i <= n THEN {buf[i]}
    ELSE IF i <= words[c] THEN {r.line[i] : r \in {q \in executed : Len(q.line) >= i}}
    ELSE Garbage

\* What tokens[i - 1] may read while buf is in command_buf.
Token(c, buf, n, i) ==
    IF i <= n THEN {buf[i]}
    ELSE IF i <= words[c] THEN Leftovers(buf)
    ELSE Garbage

-------------------------------------------------------------------------------
Keys(e) == {item[1] : item \in stores[e]}

Answer(status) == reply' = status
Refuse(status) == Answer(status) /\ UNCHANGED stores

\* The items of s, but those with a key of S, and S.
Overlaid(s, S) == {item \in s : \A new \in S : item[1] # new[1]} \cup S

OnePerKey(S) == \A x, y \in S : x[1] = y[1] => x = y

\* SET checks the number of words; the other commands, SYNC excepted, do not.
Set(e, n, k, v, short) ==
    \/ n < 3 /\ Refuse(short)
    \/ n >= 3 /\ k \in Keys(e) /\ Refuse("EXIST")
    \/ n >= 3 /\ Refuse("ERROR")
    \/ /\ n >= 3 /\ k \notin Keys(e)
       /\ stores' = [stores EXCEPT ![e] = @ \cup {<<k, v>>}]
       /\ Answer("SUCCESS")

Get(e, k) == Refuse(IF k \in Keys(e) THEN "VALUE" ELSE "NO EXIST")

Del(e, k) ==
    \/ k \notin Keys(e) /\ \E r \in {"ERROR", "NO EXIST"} : Refuse(r)
    \/ k \notin Keys(e) /\ e = "hash" /\ Refuse("SUCCESS")
    \/ /\ k \in Keys(e)
       /\ stores' = [stores EXCEPT ![e] = {item \in @ : item[1] # k}]
       /\ Answer("SUCCESS")

Mod(e, k, v) ==
    \/ k \notin Keys(e) /\ \E r \in {"ERROR", "NO EXIST"} : Refuse(r)
    \/ /\ k \in Keys(e)
       /\ stores' = [stores EXCEPT ![e] = Overlaid(@, {<<k, v>>})]
       /\ Answer("SUCCESS")

Exist(e, k) == Refuse(IF k \in Keys(e) THEN "EXIST" ELSE "NO EXIST")

\* A file takes a descriptor.
Save == \E r \in {"SUCCESS", "ERROR"} : (r = "SUCCESS" => fds < limit) /\ Refuse(r)

\* Items of a snapshot whose keys are absent; cut short, full or not a snapshot
\* at all, the file brings fewer.
Load(e) ==
    \/ Refuse("ERROR")
    \/ /\ fds < limit
       /\ \E S \in SUBSET {item \in Elsewhere : item[1] \notin Keys(e)} :
             OnePerKey(S) /\ stores' = [stores EXCEPT ![e] = @ \cup S]
       /\ \E r \in {"SUCCESS", "ERROR"} : Answer(r)

RangeQuery(e) ==
    \/ \E r \in {"ERROR", "EMPTY"} : Refuse(r)
    \/ stores[e] # {} /\ Refuse("ITEMS")

Cases(e, op, n, k, v, short) ==
    \/ op = "SET" /\ Set(e, n, k, v, short)
    \/ op = "GET" /\ Get(e, k)
    \/ op = "DEL" /\ Del(e, k)
    \/ op = "MOD" /\ Mod(e, k, v)
    \/ op = "EXIST" /\ Exist(e, k)
    \/ op = "SAVE" /\ Save
    \/ op = "LOAD" /\ Load(e)
    \/ op = "RANGE" /\ RangeQuery(e)

\* A SYNC that does not reach the other server, is cut short or finds no room
\* merges fewer items.  It takes a descriptor.
Synchronize(e, n) ==
    \/ Refuse("FAILED")
    \/ /\ n >= 3 /\ fds < limit
       /\ \E S \in SUBSET Elsewhere :
             OnePerKey(S) /\ stores' = [stores EXCEPT ![e] = Overlaid(@, S)]
       /\ \E r \in {"SUCCESS", "FAILED"} : Answer(r)

\* A dump that finds no memory is an empty one.
Dump(e) == Refuse("EMPTY") \/ (stores[e] # {} /\ Refuse("ITEMS"))

\* The four blocks of the switch.
ArrayCases(op, n, k, v) == Cases("array", op, n, k, v, "FAILED, and an empty line")
ArraySync(op, n) == op = "SYNC" /\ Synchronize("array", n)
ArrayDump(op) == op = "DUMP" /\ Dump("array")
RbtreeCases(op, n, k, v) == Cases("rbtree", op, n, k, v, "FAILED")
RbtreeSync(op, n) == op = "SYNC" /\ Synchronize("rbtree", n)
RbtreeDump(op) == op = "DUMP" /\ Dump("rbtree")
\* Mutant: the cases of another block, copied.
HashCasesOfArray(op, n, k, v) == Cases("array", op, n, k, v, "FAILED")
HashCases(op, n, k, v) == Cases("hash", op, n, k, v, "FAILED")
HashSync(op, n) == op = "SYNC" /\ Synchronize("hash", n)
HashDump(op) == op = "DUMP" /\ Dump("hash")
SkiptableCases(op, n, k, v) == Cases("skiptable", op, n, k, v, "FAILED")
SkiptableSync(op, n) == op = "SYNC" /\ Synchronize("skiptable", n)
SkiptableDump(op) == op = "DUMP" /\ Dump("skiptable")

\* parse_protocol_to_string, the cases that come back from the engines.
Command(buf, n, k, v) ==
    \E op \in Op :
        \/ /\ Asks(buf, "array", op)
           /\ ArrayCases(op, n, k, v) \/ ArraySync(op, n) \/ ArrayDump(op)
        \/ /\ Asks(buf, "rbtree", op)
           /\ RbtreeCases(op, n, k, v) \/ RbtreeSync(op, n) \/ RbtreeDump(op)
        \/ /\ Asks(buf, "hash", op)
           /\ HashCases(op, n, k, v) \/ HashSync(op, n) \/ HashDump(op)
        \/ /\ Asks(buf, "skiptable", op)
           /\ SkiptableCases(op, n, k, v) \/ SkiptableSync(op, n) \/ SkiptableDump(op)

-------------------------------------------------------------------------------
\* init_kv_engine, and an acceptor with nobody waiting.
Init ==
    /\ stores = [e \in Engine |-> {}]
    /\ words = [c \in Client |-> 0]
    /\ reply = "NONE" /\ end = ""
    /\ conn = [c \in Client |-> "away"] /\ gone = {} /\ aborted = {}
    /\ lines = [c \in Client |-> <<>>]
    /\ queued = {} /\ armed = {} /\ full = {}
    /\ ready = {} /\ batch = {} /\ ins = {} /\ outs = {} /\ errs = {} /\ serving = Nobody
    /\ fds = 0 /\ limit \in Limits
    /\ written = [c \in Client |-> 0] /\ visits = 0
    /\ executed = {} /\ rude = FALSE /\ faults = 0

Running == end = ""

\* What poll() says of a connection's socket.
Readable(c) == lines[c] # <<>> \/ c \in gone \cup aborted
Writable(c) == c \notin full \/ c \in aborted

Connect(c) ==
    /\ Running /\ conn[c] = "away" /\ visits < MaxVisits
    /\ conn' = [conn EXCEPT ![c] = "backlog"]
    /\ visits' = visits + 1
    /\ ready' = ready \cup {Acceptor}
    /\ UNCHANGED <<engines, end, gone, aborted, written, rude, lines, answers, batch, events,
                   serving, descriptors, executed>>

\* A registered descriptor with an event it is armed for goes on the ready list.
Notify(c) == ready' = IF conn[c] = "open" THEN ready \cup {c} ELSE ready

Write(c, line) ==
    /\ Running /\ conn[c] # "away" /\ c \notin gone \cup aborted /\ written[c] < MaxLines[c]
    /\ lines' = [lines EXCEPT ![c] = Append(@, line)]
    /\ written' = [written EXCEPT ![c] = @ + 1]
    /\ Notify(c)
    /\ UNCHANGED <<engines, end, conn, gone, aborted, visits, rude, answers, batch, events,
                   serving, descriptors, executed>>

\* The client reads its answers: its socket has room again.
Read(c) ==
    /\ Running /\ c \in full \ aborted
    /\ full' = full \ {c}
    /\ ready' = IF c \in armed THEN ready \cup {c} ELSE ready
    /\ UNCHANGED <<engines, end, conn, clients, lines, queued, armed, faults, batch, events,
                   serving, descriptors, executed>>

Leave(c) ==
    /\ Running /\ conn[c] # "away" /\ c \notin gone \cup aborted
    /\ gone' = gone \cup {c}
    /\ rude' = (rude \/ c \in queued \/ lines[c] # <<>>)
    /\ Notify(c)
    /\ UNCHANGED <<engines, end, conn, aborted, visits, written, lines, answers, batch, events,
                   serving, descriptors, executed>>

\* The connection is reset.  What has arrived can still be read.
Abort(c) ==
    /\ Running /\ conn[c] # "away" /\ c \notin aborted
    /\ faults < MaxFaults /\ faults' = faults + 1
    /\ aborted' = aborted \cup {c}
    /\ rude' = TRUE
    /\ Notify(c)
    /\ UNCHANGED <<engines, end, conn, gone, visits, written, lines, queued, armed, full, batch,
                   events, serving, descriptors, executed>>

-------------------------------------------------------------------------------
\* What epoll_wait reports: the ready descriptors that poll() has an event for.
Reported ==
    {x \in ready :
        IF x = Acceptor THEN \E c \in Client : conn[c] = "backlog"
        ELSE Readable(x) \/ (x \in armed /\ Writable(x))}

\* Reactor::run: a handler is called for each event of the last epoll_wait; when
\* none is left, epoll_wait takes the whole ready list.
HandleEvent(x) ==
    /\ Running /\ serving = Nobody
    /\ IF batch = {}
       THEN /\ x \in Reported
            /\ batch' = Reported \ {x} /\ ready' = {}
            /\ ins' = {c \in Reported \cap Client : Readable(c)}
            /\ outs' = {c \in Reported \cap armed : Writable(c)}
            /\ errs' = Reported \cap aborted
       ELSE /\ x \in batch
            /\ batch' = batch \ {x} /\ UNCHANGED <<events, ready>>
    /\ serving' = x
    /\ UNCHANGED <<engines, end, conn, clients, lines, answers, descriptors, executed>>

\* Mutant: what arrived before the socket was registered raises no event.
AcceptUnpolled(c) ==
    /\ Running /\ serving = Acceptor /\ conn[c] = "backlog" /\ fds < limit
    /\ conn' = [conn EXCEPT ![c] = "open"]
    /\ fds' = fds + 1
    /\ words' = [words EXCEPT ![c] = 0]
    /\ UNCHANGED <<stores, reply, end, clients, lines, answers, loop, limit, executed>>

\* accept_connections and on_new_connection; epoll_ctl polls the new socket.
Accept(c) ==
    /\ Running /\ serving = Acceptor /\ conn[c] = "backlog" /\ fds < limit
    /\ conn' = [conn EXCEPT ![c] = "open"]
    /\ fds' = fds + 1
    /\ words' = [words EXCEPT ![c] = 0]
    /\ ready' = IF Readable(c) THEN ready \cup {c} ELSE ready
    /\ UNCHANGED <<stores, reply, end, clients, lines, answers, batch, events, serving, limit, executed>>

\* Any error of accept() but EAGAIN ends the process.  A kernel may look for a
\* descriptor first, so that accept() fails although nobody waits; it may report
\* the reset of a connection that waits.
AcceptFails ==
    /\ Running /\ serving = Acceptor
    /\ fds >= limit \/ \E c \in aborted : conn[c] = "backlog"
    /\ end' = "accept"
    /\ UNCHANGED <<engines, conn, clients, lines, answers, loop, descriptors, executed>>

AcceptAgain ==
    /\ Running /\ serving = Acceptor
    /\ \A c \in Client : conn[c] # "backlog"
    /\ serving' = Nobody
    /\ UNCHANGED <<engines, end, conn, clients, lines, answers, ready, batch, events, descriptors, executed>>

\* std::stoi will throw.
NoNumber(buf) == Len(buf) >= 3 /\ buf[3] \notin Number /\ \E e \in Engine : Asks(buf, e, "SYNC")

IsCommand(buf) == \E e \in Engine, op \in Op : Asks(buf, e, op)

\* What a line may do to the engines and to the process: std::stoi throws, the
\* engine uses a pointer that is NULL for lack of memory, or a slot that a key
\* with bytes above 127 does not have, what is read is no string (a token that
\* was never set, or r_buf of an unknown command, which has no NUL), the line is
\* no command, or it is one.
Parsed(c, buf) ==
    LET n == Len(buf)
    IN  \/ /\ NoNumber(buf)
           /\ end' = "sync" /\ Refuse("NONE")
        \/ /\ IsCommand(buf)
           /\ end' = "engine" /\ Refuse("NONE")
        \/ /\ Undefined(c, buf) \/ Unknown(buf)
           /\ end' = "wild" /\ Refuse("NONE")
        \/ /\ buf = <<>> \/ Unknown(buf)
           /\ Refuse("") /\ UNCHANGED end
        \/ /\ ~NoNumber(buf)
           /\ \E k \in Token(c, buf, n, 2), v \in Token(c, buf, n, 3) :
                 Command(buf, n, k, v)
           /\ UNCHANGED end

\* handle_read, process_received_data, process_command: one line of a turn.
\* EPOLLOUT is armed, and epoll_ctl polls the socket.
Execute(c) ==
    /\ Running /\ serving = c /\ c \in ins /\ lines[c] # <<>>
    /\ LET buf == Kept[Head(lines[c])]
       IN  /\ Parsed(c, buf)
           /\ words' = [words EXCEPT ![c] = Known(c, Len(buf))]
           /\ executed' = executed \cup {[line |-> buf, success |-> reply' = "SUCCESS",
                                                 undefined |-> Undefined(c, buf) \/ Unknown(buf)]}
    /\ lines' = [lines EXCEPT ![c] = Tail(@)]
    /\ queued' = queued \cup {c} /\ armed' = armed \cup {c}
    /\ ready' = IF Writable(c) THEN ready \cup {c} ELSE ready
    /\ UNCHANGED <<conn, clients, full, faults, batch, events, serving, descriptors>>

\* recv() finds nothing more (EAGAIN): handle_event goes on with EPOLLOUT if that
\* was reported too.
ReadAll(c) ==
    /\ Running /\ serving = c /\ c \in ins /\ ~Readable(c)
    /\ ins' = ins \ {c}
    /\ serving' = IF c \in outs THEN c ELSE Nobody
    /\ reply' = "NONE"
    /\ UNCHANGED <<stores, words, end, conn, clients, lines, answers, ready, batch, outs, errs,
                   descriptors, executed>>

\* Mutant: the destructor does not close the descriptor.
DestroyedLeaking(c) ==
    /\ conn' = [conn EXCEPT ![c] = "away"] /\ gone' = gone \ {c} /\ aborted' = aborted \ {c}
    /\ fds' = fds
    /\ lines' = [lines EXCEPT ![c] = <<>>]
    /\ queued' = queued \ {c} /\ armed' = armed \ {c} /\ full' = full \ {c}
    /\ ready' = ready \ {c} /\ ins' = ins \ {c} /\ outs' = outs \ {c} /\ errs' = errs \ {c}

\* Mutant: the descriptor is closed twice.
DestroyedClosingTwice(c) ==
    /\ conn' = [conn EXCEPT ![c] = "away"] /\ gone' = gone \ {c} /\ aborted' = aborted \ {c}
    /\ fds' = fds - 2
    /\ lines' = [lines EXCEPT ![c] = <<>>]
    /\ queued' = queued \ {c} /\ armed' = armed \ {c} /\ full' = full \ {c}
    /\ ready' = ready \ {c} /\ ins' = ins \ {c} /\ outs' = outs \ {c} /\ errs' = errs \ {c}

\* unregister_handler drops the last reference: the connection is destroyed, and
\* its descriptor closed.  What was received or queued is lost.
Destroyed(c) ==
    /\ conn' = [conn EXCEPT ![c] = "away"] /\ gone' = gone \ {c} /\ aborted' = aborted \ {c}
    /\ fds' = fds - 1
    /\ lines' = [lines EXCEPT ![c] = <<>>]
    /\ queued' = queued \ {c} /\ armed' = armed \ {c} /\ full' = full \ {c}
    /\ ready' = ready \ {c} /\ ins' = ins \ {c} /\ outs' = outs \ {c} /\ errs' = errs \ {c}

\* recv() returns 0 or fails.  The handlers of the other events that were reported
\* are called on what is left of the connection.
Forget(c) ==
    /\ Running /\ serving = c /\ c \in ins /\ lines[c] = <<>> /\ c \in gone \cup aborted
    /\ Destroyed(c)
    /\ \/ UNCHANGED end
       \/ c \in outs \cup errs /\ end' = "dangling"
    /\ serving' = Nobody /\ reply' = "NONE"
    /\ UNCHANGED <<stores, words, visits, written, rude, faults, batch, limit, executed>>

\* handle_write: the queue is emptied, EPOLLOUT disarmed and everything sent.
Send(c) ==
    /\ Running /\ serving = c /\ c \in outs \ ins /\ c \in queued \ aborted
    /\ queued' = queued \ {c} /\ armed' = armed \ {c}
    /\ full' \in {full, full \cup {c}}
    /\ outs' = outs \ {c} /\ serving' = Nobody
    /\ UNCHANGED <<engines, end, conn, clients, lines, faults, ready, batch, ins, errs,
                   descriptors, executed>>

\* handle_write, EAGAIN: the answers are dropped, EPOLLOUT is armed again and the
\* socket polled.
SendRefused(c) ==
    /\ Running /\ serving = c /\ c \in outs \ ins /\ c \in queued \ aborted
    /\ faults < MaxFaults /\ faults' = faults + 1
    /\ queued' = queued \ {c}
    /\ ready' = IF Writable(c) THEN ready \cup {c} ELSE ready
    /\ outs' = outs \ {c} /\ serving' = Nobody
    /\ UNCHANGED <<engines, end, conn, clients, lines, armed, full, batch, ins, errs,
                   descriptors, executed>>

\* handle_write, send() fails, or returns 0 because the queue was empty: the
\* connection is destroyed, and close(fd_) reads what is left of it.  On a
\* connection that was reset send() may also raise SIGPIPE, which nobody ignores.
SendFails(c) ==
    /\ Running /\ serving = c /\ c \in outs \ ins /\ (c \in aborted \/ c \notin queued)
    /\ Destroyed(c)
    /\ \/ UNCHANGED end
       \/ end' = "dangling"
       \/ c \in aborted /\ end' = "signal"
    /\ serving' = Nobody
    /\ UNCHANGED <<engines, visits, written, rude, faults, batch, limit, executed>>

Clients ==
    \E c \in Client :
        \/ Connect(c) \/ Read(c) \/ Leave(c) \/ Abort(c)
        \/ \E line \in Line[c] : Write(c, line)
Loop ==
    \/ \E x \in Client \cup {Acceptor} : HandleEvent(x)
    \/ AcceptFails \/ AcceptAgain
    \/ \E c \in Client :
          \/ Accept(c) \/ Execute(c) \/ ReadAll(c) \/ Forget(c)
          \/ Send(c) \/ SendRefused(c) \/ SendFails(c)
Next == Clients \/ Loop

Spec == Init /\ [][Next]_vars

-------------------------------------------------------------------------------
\* The type invariant.
TypeOK ==
    /\ stores \in [Engine -> SUBSET (Word \X Word)]
    /\ words \in [Client -> 0 .. 3]
    /\ end \in {"", "accept", "sync", "engine", "wild", "dangling", "signal"}
    /\ conn \in [Client -> {"away", "backlog", "open"}] /\ written \in [Client -> Nat]
    /\ lines \in [Client -> Seq(Seq(Word))] /\ \A c \in Client : lines[c] \in Seq(Line[c])
    /\ gone \subseteq Client /\ aborted \subseteq Client
    /\ queued \subseteq armed /\ armed \subseteq Client /\ full \subseteq Client
    /\ ins \subseteq Client /\ outs \subseteq Client /\ errs \subseteq Client
    /\ ready \subseteq Client \cup {Acceptor} /\ batch \subseteq Client \cup {Acceptor}
    /\ serving \in Client \cup {Acceptor, Nobody}
    /\ limit \in Limits /\ fds \in 0 .. limit
    /\ rude \in BOOLEAN /\ faults \in Nat

\* What a command reads for token i of a line: the word itself, or, for a word
\* the line does not have, some text of this very line.
Given(buf, i) == IF i <= Len(buf) THEN {buf[i]} ELSE Leftovers(buf)

\* The line may have stored the item.
Gave(r, e, item) ==
    /\ r.success
    /\ \/ /\ Asks(r.line, e, "SET") /\ Len(r.line) >= 3
          /\ item = <<r.line[2], r.line[3]>>
       \/ /\ Asks(r.line, e, "MOD")
          /\ r.undefined \/ (item[1] \in Given(r.line, 2) /\ item[2] \in Given(r.line, 3))

\* Every item of an engine was given, key and value together, by one line that
\* some client sent to that engine and that had success, or came from a snapshot
\* or another server; never a key of one line with the value of another, whoever
\* sent them, and although tokens[] keeps pointers into the buffer of earlier
\* lines (kv_store_epoll.hpp:242-252, 1215).
ItemsWereSent ==
    \A e \in Engine : \A item \in stores[e] :
        item \in Elsewhere \/ \E r \in executed : Gave(r, e, item)

\* An item changes or goes only by a line that is a command of its engine and
\* contains its key, and whose answer is SUCCESS.  Excepted are LOAD and SYNC,
\* and a command that reads a token its connection never set.
OnlyItsOwnItem ==
    [][\A e \in Engine : \A item \in (stores'[e] \ stores[e]) \cup (stores[e] \ stores'[e]) :
          LET buf == Kept[Head(lines[serving])]
              Is(ops) == \E op \in ops : Asks(buf, e, op)
          IN  \/ Is({"LOAD", "SYNC"}) \/ Undefined(serving, buf)
              \/ /\ Is({"SET", "DEL", "MOD"})
                 /\ item[1] \in Given(buf, 2)
                 /\ reply' = "SUCCESS"]_vars

\* The process ends only when all its descriptors are in use by clients or a
\* client that waits to be accepted was reset, when a SYNC names no number, when
\* a line reads what was never set, on a command whose engine lacks memory or a
\* slot for the key, or in the handler of a connection: then a client left
\* before its last answer was sent, a connection was reset, or send() found no
\* memory.  Clients that do none of this do not end it, in whatever order they
\* come, write, read and leave and however often they come back
\* (reactor.hpp:270-274, 387-396, 967-981; kv_store_epoll.hpp:425, 1106-1154).
EndsForCause ==
    /\ end = "accept" =>
          \/ Cardinality({c \in Client : conn[c] = "open"}) = limit
          \/ \E c \in aborted : conn[c] = "backlog"
    /\ end = "sync" => \E r \in executed : NoNumber(r.line)
    /\ end = "engine" => \E r \in executed : IsCommand(r.line)
    /\ end = "wild" => \E r \in executed : r.undefined
    /\ end = "dangling" => rude \/ faults > 0
    /\ end = "signal" => rude

\* Whatever waits has its event coming, although an edge is reported once: a
\* connection that waits to be accepted; lines, the end of a client and a reset
\* that wait to be read; answers that wait to be sent, if the socket has room
\* (reactor.hpp:279-289).
NoEventIsLost ==
    \A c \in Client :
        LET Coming(x) == x \in batch \/ x = serving
        IN  /\ conn[c] = "backlog" => Acceptor \in ready \/ Coming(Acceptor)
            /\ conn[c] = "open" /\ Readable(c) => c \in ready \/ (c \in ins /\ Coming(c))
            /\ c \in armed /\ Writable(c) => c \in ready \/ (c \in outs /\ Coming(c))
===============================================================================
