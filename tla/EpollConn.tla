------------------------------- MODULE EpollConn -------------------------------
(***************************************************************************)
(* One client connection under the edge-triggered reactor: the epoll       *)
(* instance and its loop (Reactor, IConnection in reactor.hpp), the        *)
(* handlers of KVStoreEpollConnection (kv_store_epoll.hpp), the two        *)
(* directions of the socket, and the client at the other end.              *)
(*                                                                         *)
(* A byte is <<c, i>>: byte i of command c or of its answer.  Both take    *)
(* two bytes, the second being the '\n', so that commands and answers can  *)
(* be split.  What a command does to the engines is in their modules.      *)
(***************************************************************************)
EXTENDS Integers, FiniteSets, Sequences

CONSTANTS
    Commands,         \* bound: the client writes commands 1 .. Commands
    ReadMax,          \* sizeof(temp_buf)
    Settings          \* the kernels and clients the server may meet, as records:
                      \* room (capacity of the socket's send buffer), refusing
                      \* (TRUE if send() may fail with EAGAIN for lack of memory)
                      \* and polite (the client closes after its last answer)

ASSUME CommandsAssumption == Commands \in Nat
ASSUME ReadMaxAssumption == ReadMax \in Nat \ {0}
ASSUME SettingsAssumption ==
    Settings \subseteq [room : Nat \ {0}, refusing : BOOLEAN, polite : BOOLEAN]

VARIABLES
    setting,      \* the one it meets
    written,      \* bytes the client has written
    peer,         \* the client's end: "open", "fin" (closed), "rst" (aborted)
    delivered,    \* bytes the client has read
    rx, tx,       \* the socket's receive and send buffers
    mask,         \* the events asked for, besides EPOLLET
    ready,        \* TRUE if the socket is on epoll's ready list
    registered,   \* TRUE while handlers_ owns the connection object
    pc,           \* where the event loop is
    revents,      \* the events epoll_wait returned
    r_buf,        \* bytes received and not yet parsed
    executed,     \* the commands executed, in order
    send_queue,   \* answers not yet taken by handle_write
    response,     \* handle_write's local string
    up            \* FALSE once a destroyed object was used

client == <<written, peer, delivered>>
epoll == <<mask, ready, registered>>
object == <<r_buf, executed, send_queue>>
vars == <<setting, client, rx, tx, epoll, pc, revents, object, response, up>>

Byte == (0 .. Commands) \X {1, 2}
Newline(b) == b[2] = 2

\* The bytes of command c; of its answer; of the answers to a sequence of them.
Line(c) == <<<<c, 1>>, <<c, 2>>>>
Stream(cs) == [i \in 1 .. 2 * Len(cs) |-> Line(cs[(i + 1) \div 2])[IF i % 2 = 1 THEN 1 ELSE 2]]

SndBuf == setting.room

\* There is room for all the answers.
Roomy == SndBuf >= 2 * Commands

Free == SndBuf - Len(tx)

\* What poll() says of a socket: tcp_poll.
Polled(received, unsent, end) ==
    (IF received # <<>> \/ end # "open" THEN {"IN"} ELSE {})
        \cup (IF Len(unsent) < SndBuf \/ end = "rst" THEN {"OUT"} ELSE {})
        \cup (IF end = "rst" THEN {"ERR"} ELSE {})

Wanted(m) == m \cup {"ERR"}

-------------------------------------------------------------------------------
\* on_new_connection: registered for reading, edge-triggered.
Init ==
    /\ setting \in Settings
    /\ written = 0 /\ peer = "open" /\ delivered = <<>>
    /\ rx = <<>> /\ tx = <<>>
    /\ mask = {"IN"} /\ ready = FALSE /\ registered = TRUE
    /\ pc = "wait" /\ revents = {}
    /\ r_buf = <<>> /\ executed = <<>> /\ send_queue = <<>>
    /\ response = <<>>
    /\ up = TRUE

\* The kernel puts a socket on the ready list when an event it is armed for
\* happens: an edge.
Edge(e) == ready' = (ready \/ (registered /\ e \cap Wanted(mask) # {}))

ClientWrite ==
    /\ peer = "open" /\ registered
    /\ written < 2 * Commands
    /\ written' = written + 1
    /\ rx' = Append(rx, Line(written \div 2 + 1)[(written % 2) + 1])
    /\ Edge({"IN"})
    /\ UNCHANGED <<peer, delivered, tx, mask, registered, pc, revents, object, response, up>>

\* Reading frees room; the first room in a full buffer is an edge.
ClientRead ==
    /\ peer # "rst" /\ tx # <<>>
    /\ \E n \in 1 .. Len(tx) :
          /\ delivered' = delivered \o SubSeq(tx, 1, n)
          /\ tx' = SubSeq(tx, n + 1, Len(tx))
    /\ IF Free = 0 THEN Edge({"OUT"}) ELSE UNCHANGED ready
    /\ UNCHANGED <<written, peer, rx, mask, registered, pc, revents, object, response, up>>

ClientClose ==
    /\ peer = "open"
    /\ setting.polite => Len(delivered) = 2 * Commands
    /\ peer' = "fin"
    /\ Edge({"IN"})
    /\ UNCHANGED <<written, delivered, rx, tx, mask, registered, pc, revents, object, response, up>>

ClientAbort ==
    /\ peer # "rst" /\ ~setting.polite
    /\ peer' = "rst" /\ tx' = <<>>
    /\ Edge({"IN", "OUT", "ERR"})
    /\ UNCHANGED <<written, delivered, rx, mask, registered, pc, revents, object, response, up>>

-------------------------------------------------------------------------------
\* Where IConnection::handle_event goes on to with the captured events.
AfterWrite == IF "ERR" \in revents THEN "error" ELSE "wait"
AfterRead == IF "OUT" \in revents THEN "write" ELSE AfterWrite

\* Reactor::modify_handler: EPOLL_CTL_MOD polls the socket anew and puts it on
\* the ready list if it has an event of the new mask.
Modify(m, received, unsent) ==
    /\ mask' = m
    /\ ready' = (ready \/ Polled(received, unsent, peer) \cap Wanted(m) # {})
    /\ UNCHANGED registered

\* Reactor::unregister_handler: the object's last owner goes, and the
\* destructor closes the socket.
Unregister == registered' = FALSE /\ ready' = FALSE /\ UNCHANGED mask

\* Reactor::run.  An edge-triggered entry leaves the ready list when it is
\* reported, and also when poll() finds nothing to report.
EpollWait ==
    /\ pc = "wait" /\ ready
    /\ LET found == Polled(rx, tx, peer) \cap Wanted(mask)
       IN  /\ revents' = found
           /\ pc' = IF "IN" \in found THEN "read" ELSE IF "OUT" \in found THEN "write" ELSE "wait"
    /\ ready' = FALSE
    /\ UNCHANGED <<client, rx, tx, mask, registered, object, response, up>>

LastNewline(s) ==
    CHOOSE i \in 0 .. Len(s) :
        /\ i = 0 \/ Newline(s[i])
        /\ \A j \in i + 1 .. Len(s) : ~Newline(s[j])

\* The commands in a sequence of complete lines; 0 is a line that is no
\* command the client wrote.
Parse(lines) ==
    LET ends == {i \in DOMAIN lines : Newline(lines[i])}
        EndOf(n) == CHOOSE i \in ends : Cardinality({j \in ends : j <= i}) = n
    IN  [n \in 1 .. Cardinality(ends) |->
            LET e == EndOf(n)
                b == IF n = 1 THEN 1 ELSE EndOf(n - 1) + 1
            IN  IF SubSeq(lines, b, e) = Line(lines[e][1]) THEN lines[e][1] ELSE 0]

\* Mutant: what follows the last line is thrown away with it.
ProcessClearing(buf, rest) ==
    LET last == LastNewline(buf)
        commands == Parse(SubSeq(buf, 1, last))
    IN  /\ r_buf' = IF last = 0 THEN buf ELSE <<>>
        /\ executed' = executed \o commands
        /\ send_queue' = send_queue \o commands
        /\ IF last = 0 THEN UNCHANGED epoll ELSE Modify({"IN", "OUT"}, rest, tx)

\* Mutant: one line is parsed for each recv().
ProcessFirst(buf, rest) ==
    LET first == IF LastNewline(buf) = 0 THEN 0
                 ELSE CHOOSE i \in DOMAIN buf :
                        Newline(buf[i]) /\ LastNewline(SubSeq(buf, 1, i - 1)) = 0
        commands == Parse(SubSeq(buf, 1, first))
    IN  /\ r_buf' = SubSeq(buf, first + 1, Len(buf))
        /\ executed' = executed \o commands
        /\ send_queue' = send_queue \o commands
        /\ IF first = 0 THEN UNCHANGED epoll ELSE Modify({"IN", "OUT"}, rest, tx)

\* Mutant: EPOLLIN is missing from the re-armed events.
ProcessArmingOut(buf, rest) ==
    LET last == LastNewline(buf)
        commands == Parse(SubSeq(buf, 1, last))
    IN  /\ r_buf' = SubSeq(buf, last + 1, Len(buf))
        /\ executed' = executed \o commands
        /\ send_queue' = send_queue \o commands
        /\ IF last = 0 THEN UNCHANGED epoll ELSE Modify({"OUT"}, rest, tx)

\* process_received_data: every complete line is executed and its answer
\* queued; EPOLLOUT is armed if there was one.
Process(buf, rest) ==
    LET last == LastNewline(buf)
        commands == Parse(SubSeq(buf, 1, last))
    IN  /\ r_buf' = SubSeq(buf, last + 1, Len(buf))
        /\ executed' = executed \o commands
        /\ send_queue' = send_queue \o commands
        /\ IF last = 0 THEN UNCHANGED epoll ELSE Modify({"IN", "OUT"}, rest, tx)

Smaller(a, b) == IF a < b THEN a ELSE b

\* Mutant: one recv() per event, as if the trigger were by level.
RecvOnce ==
    /\ pc = "read" /\ rx # <<>>
    /\ LET n == Smaller(ReadMax, Len(rx))
           rest == SubSeq(rx, n + 1, Len(rx))
       IN  rx' = rest /\ Process(r_buf \o SubSeq(rx, 1, n), rest)
    /\ pc' = AfterRead
    /\ UNCHANGED <<client, tx, revents, response, up>>

\* handle_read, recv() > 0: and the loop goes on.
Recv ==
    /\ pc = "read" /\ rx # <<>>
    /\ LET n == Smaller(ReadMax, Len(rx))
           rest == SubSeq(rx, n + 1, Len(rx))
       IN  rx' = rest /\ Process(r_buf \o SubSeq(rx, 1, n), rest)
    /\ UNCHANGED <<client, tx, pc, revents, response, up>>

\* handle_read, recv() fails with EAGAIN: the socket is empty.
RecvAgain ==
    /\ pc = "read" /\ rx = <<>> /\ peer = "open"
    /\ pc' = AfterRead
    /\ UNCHANGED <<client, rx, tx, epoll, revents, object, response, up>>

\* Mutant: end of file only ends the loop.
RecvEndIgnored ==
    /\ pc = "read" /\ rx = <<>> /\ peer # "open"
    /\ pc' = AfterRead
    /\ UNCHANGED <<client, rx, tx, epoll, revents, object, response, up>>

\* handle_read, recv() returns 0 or fails: the object is gone, and handle_event
\* still calls what the captured events ask for.
RecvEnd ==
    /\ pc = "read" /\ rx = <<>> /\ peer # "open"
    /\ Unregister
    /\ pc' = AfterRead
    /\ UNCHANGED <<client, rx, tx, revents, object, response, up>>

\* A member function called on the destroyed object.
DanglingCall ==
    /\ pc \in {"write", "error"} /\ ~registered
    /\ up' = FALSE
    /\ UNCHANGED <<client, rx, tx, epoll, pc, revents, object, response>>

\* Mutant: EPOLLOUT stays armed.
TakeStayingArmed ==
    /\ pc = "write" /\ registered
    /\ response' = Stream(send_queue)
    /\ send_queue' = <<>>
    /\ UNCHANGED epoll
    /\ pc' = "send"
    /\ UNCHANGED <<client, rx, tx, revents, r_buf, executed, up>>

\* Mutant: the first answer is taken, and the queue is emptied.
TakeFirst ==
    /\ pc = "write" /\ registered
    /\ response' = Stream(SubSeq(send_queue, 1, Smaller(1, Len(send_queue))))
    /\ send_queue' = <<>>
    /\ Modify({"IN"}, rx, tx)
    /\ pc' = "send"
    /\ UNCHANGED <<client, rx, tx, revents, r_buf, executed, up>>

\* handle_write's loop: the queue is taken whole, then EPOLLOUT is disarmed.
Take ==
    /\ pc = "write" /\ registered
    /\ response' = Stream(send_queue)
    /\ send_queue' = <<>>
    /\ Modify({"IN"}, rx, tx)
    /\ pc' = "send"
    /\ UNCHANGED <<client, rx, tx, revents, r_buf, executed, up>>

\* Mutant: a string that did not fit goes back to the queue whole.
SendRequeueing ==
    /\ pc = "send" /\ peer # "rst" /\ response # <<>> /\ Free > 0
    /\ tx' = tx \o SubSeq(response, 1, Smaller(Len(response), Free))
    /\ response' = <<>>
    /\ IF Len(response) > Free
       THEN /\ send_queue' = [i \in 1 .. Len(response) \div 2 |-> response[2 * i][1]]
            /\ Modify({"IN", "OUT"}, rx, tx')
       ELSE UNCHANGED <<send_queue, epoll>>
    /\ pc' = AfterWrite
    /\ UNCHANGED <<client, rx, revents, r_buf, executed, up>>

\* handle_write, send() > 0.  What does not fit is dropped with the string.
Send ==
    /\ pc = "send" /\ peer # "rst" /\ response # <<>> /\ Free > 0
    /\ tx' = tx \o SubSeq(response, 1, Smaller(Len(response), Free))
    /\ response' = <<>>
    /\ pc' = AfterWrite
    /\ UNCHANGED <<client, rx, epoll, revents, object, up>>

\* handle_write, EAGAIN: the answers are dropped, EPOLLOUT is armed again.
SendAgain ==
    /\ pc = "send" /\ peer # "rst" /\ response # <<>>
    /\ Free = 0 \/ setting.refusing
    /\ response' = <<>>
    /\ Modify({"IN", "OUT"}, rx, tx)
    /\ pc' = AfterWrite
    /\ UNCHANGED <<client, rx, tx, revents, object, up>>

\* handle_write, send() fails, or returns 0 because the string is empty: the
\* object is destroyed by unregister_handler, and close(fd_) reads it.
SendEnd ==
    /\ pc = "send" /\ (peer = "rst" \/ response = <<>>)
    /\ Unregister
    /\ up' = FALSE
    /\ UNCHANGED <<client, rx, tx, pc, revents, object, response>>

Client == ClientWrite \/ ClientRead \/ ClientClose \/ ClientAbort
Loop ==
    \/ EpollWait \/ Recv \/ RecvAgain \/ RecvEnd \/ DanglingCall
    \/ Take \/ Send \/ SendAgain \/ SendEnd
Next == up /\ (Client \/ Loop) /\ UNCHANGED setting

Spec == Init /\ [][Next]_vars

\* The event loop never stops while it has something to do, and the client
\* reads what has arrived.  Nothing obliges the client to write or to close.
FairSpec ==
    /\ Spec
    /\ WF_vars(up /\ Loop /\ UNCHANGED setting)
    /\ WF_vars(up /\ ClientRead /\ UNCHANGED setting)

-------------------------------------------------------------------------------
\* The type invariant.  EPOLLIN is never disarmed (kv_store_epoll.hpp:1092,
\* 1128, 1148).
TypeOK ==
    /\ setting \in Settings
    /\ written \in 0 .. 2 * Commands
    /\ peer \in {"open", "fin", "rst"}
    /\ delivered \in Seq(Byte) /\ rx \in Seq(Byte) /\ tx \in Seq(Byte)
    /\ r_buf \in Seq(Byte) /\ response \in Seq(Byte)
    /\ Len(tx) <= SndBuf
    /\ mask \in {{"IN"}, {"IN", "OUT"}}
    /\ ready \in BOOLEAN /\ registered \in BOOLEAN /\ up \in BOOLEAN
    /\ pc \in {"wait", "read", "write", "send", "error"}
    /\ revents \subseteq {"IN", "OUT", "ERR"}
    /\ executed \in Seq(0 .. Commands) /\ send_queue \in Seq(0 .. Commands)

\* With room in the send buffer, while the connection stands, what the client
\* has read, followed by what is on its way, is the answers to the executed
\* commands, in their order: each answer exactly once.
NothingLost ==
    Roomy /\ registered /\ up /\ peer # "rst" =>
        Stream(executed) = delivered \o tx \o response \o Stream(send_queue)

\* Whatever is dropped, no answer comes twice or out of order: the bytes that
\* reach the client are a subsequence of the answers to its commands.
AnswersInOrder ==
    LET bytes == delivered \o tx \o response \o Stream(send_queue)
    IN  \A i \in 1 .. Len(bytes) - 1 :
            \/ bytes[i][1] < bytes[i + 1][1]
            \/ bytes[i][1] = bytes[i + 1][1] /\ bytes[i][2] < bytes[i + 1][2]

\* Commands are executed in the order they were written, none twice and none
\* made of pieces of two lines, whatever the segments they arrive in.
ExecutedInOrder ==
    /\ Len(executed) <= written \div 2
    /\ \A n \in DOMAIN executed : executed[n] = n

\* The hazard of an edge-triggered loop: it never sleeps on work it has
\* already been told about.  Asleep, it has read everything, parsed every
\* complete line, noticed the client's end, and an answer that waits is armed.
NothingStranded ==
    registered /\ up /\ pc = "wait" /\ ~ready =>
        /\ rx = <<>> /\ peer = "open"
        /\ LastNewline(r_buf) = 0
        /\ send_queue # <<>> => "OUT" \in mask /\ Free = 0

\* handle_event goes on with the events it captured even if the first handler
\* destroyed the object (reactor.hpp:387-397).  A client that closes after its
\* last answer never makes it do so, if there was room for the answers, because
\* EPOLLOUT is disarmed before the answers are sent (kv_store_epoll.hpp:1128).
NoDanglingCall == Roomy /\ setting.polite => up

\* A client that has gone is eventually forgotten.
CloseIsNoticed == peer # "open" ~> ~registered

Promised == INSTANCE Service WITH
    excused <- ~Roomy \/ peer # "open",
    asked <- written \div 2,
    heard <- delivered,
    Answers <- LAMBDA n : Stream([c \in 1 .. n |-> c])

\* With room for the answers in the send buffer, the connection implements the
\* service for as long as the client stays, progress included: every command is
\* answered, in order and in full.
ImplementsService == Promised!FairSpec
===============================================================================
