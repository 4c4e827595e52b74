# TLA+ models of z2w-kv_store

z2w-kv_store is a key-value server. One thread runs an epoll loop, reads
commands from its clients, executes them in one of four storage engines and
sends the answers; a server can save an engine to a file, load it again, and
synchronize an engine with another server's. The modules here model that
program as it is built: `USE_TIMESTAMP=1`, `ENABLE_KEY_CHAR=1`, the four
engines, the epoll network.

## The system

| Component | State | Operations | Hard behaviour | What makes it correct |
|---|---|---|---|---|
| Array engine (`kv_store_array.c`) | table of slots, `total` | SET GET DEL MOD EXIST RANGE GETARRAY | DEL moves the last item, MOD frees before it allocates, a full table | it behaves as a map; slots in use are contiguous; no key twice, none lost |
| Hash engine (`kv_store_hash.c`) | chains, `count` | HSET ... GETHASH | unlinking, a counter kept apart from the chains, cleanup after failed allocations | map; exact counter; each key once and where its hash says |
| Skip list (`kv_store_skiptable.c`) | nodes, levels, `size` | SSET ... GETSKIPTABLE | random levels, links above the current level, keys of more than 255 bytes | map; lanes nest; level is tight |
| Red-black tree (`kv_store_rbtree.c`) | nodes, shared `nil` | RSET ... GETRBTREE | two fix-up loops, successor swap in DEL | map; links agree; red-black rules |
| Event loop, connections (`reactor.hpp`, `kv_store_epoll.hpp`) | interest mask, `r_buf`, `send_queue_` | read, write, close | edge-triggered readiness, partial reads and writes, clients that leave or are reset, sends that fail | every command executed once, in order, and answered |
| Acceptor (`reactor.hpp`, `kv_store_epoll.hpp`) | the backlog, descriptors in use | accept, register, forget | a client that writes before its socket is registered, no descriptor left | nobody waits without an event; the destructor gives each descriptor back, once per connection |
| Parser and dispatcher (`kv_store_epoll.hpp`) | `tokens[]`, pointers into a buffer on the stack | four blocks of ten commands | lines with too few words, cut lines, tokens of an earlier line, words that are no number | a line changes only the item it names, in the engine it names |
| Replication (`kv_store_sync_client.hpp`) | a socket in the middle of a command | SYNC RSYNC HSYNC SSYNC | dumps cut short, servers waiting for each other, clocks, restarts | nothing lost, invented or rolled back; SYNCs end; servers converge |
| Snapshots (`kv_save.c`) | a file | SAVE LOAD and siblings | a kill during SAVE, a full disk, a hole in the file, a file that cannot be opened or read, loading over other items | a cut file is not taken for a whole one |

The connection handler calls an engine through `parse_protocol_to_string` and
turns the integer it returns into the answer's text. A SYNC branch opens a
blocking connection from inside that handler: the whole server stands still
until the other server answers or closes. A SAVE or LOAD branch opens a file in
the same way. The locks of
`kv_store_epoll.hpp:21-27` are commented out; with one thread the commands are
atomic with respect to each other, and the interleavings are those of clients,
the kernel, other servers and kills.

## The modules

The bottom layer is the abstract store and the four engines that implement it:

* `Protocol` -- the answers as functions of an engine's result, and the order
  in which RANGE returns items. The four engines' branches repeat these rules.
* `KVStore` -- the abstract store: a finite map from keys to timestamped
  values and the truthful answers to every command. `broken` ends its promise.
* `KVArray`, `KVHash`, `KVSkiptable`, `KVRbtree` -- the engines, one action per
  operation, with the state of the C structures: slots and `total`; chains and
  `count`; nodes with forward pointers, `level` and `size`; nodes with parent,
  child and colour, the shared `nil` included. malloc may fail in any call. The
  loops of the C code are recursive functions: over the nodes where the code
  walks along pointers, over the number of rounds in the tree's fix-ups (a round
  climbs or is the last one, so `MaxNodes` rounds are enough; the proofs show it).
  `up = FALSE` stands for undefined behaviour that ends the process. `degraded`
  is a history variable: it becomes TRUE when a MOD or a query ran out of
  memory (or, in the skip list, a key was cut), from where on the code no longer
  promises a map. Each engine implements `KVStore` by `StoreMap`, with
  `broken <- degraded`.

Above it are the connection and the process:

* `Service` -- what a connection promises its client: the answers as one byte
  stream, in the order of the commands, each once and in full.
* `EpollConn` -- one connection: client, socket buffers, epoll's ready list,
  and the handlers step by step between two system calls. A command is two
  bytes, the last being its newline, so it can arrive in pieces; an answer is
  two bytes, so it can be sent in pieces. A behaviour begins by choosing a
  `setting`: how much the send buffer holds (`room`), whether send() may fail
  with EAGAIN for lack of memory (`refusing`), whether the client closes only
  after its last answer (`polite`). It implements `Service`.
* `Server` -- the process with many clients: the acceptor, the loop over the
  ready list, the cutting of a line into `tokens`, the four blocks of the
  switch over four engines (sets of items here), descriptors that run out. It
  takes from `EpollConn` that a connection hands over whole lines in order,
  from `KVStore` what an engine does with a command, and from `KVSave` and
  `Sync` that LOAD and SYNC bring items from elsewhere. A turn of `handle_event`
  is HandleEvent, then for EPOLLIN Execute for each line and ReadAll (EAGAIN) or
  Forget (recv() returns 0 or an error, and the connection is destroyed), then
  for EPOLLOUT Send, SendRefused (EAGAIN: the queue is empty by then and EPOLLOUT
  armed again) or SendFails (an error, or the 0 that sending an empty queue
  returns). Clients write, read, leave and are reset in between; a socket whose
  client does not read becomes full. `end` names what ended the process: an error
  of accept(), std::stoi, an engine that lacks memory or a slot for the key
  (their modules say when), text that is no string, SIGPIPE, or a
  destroyed connection that is used. The last has two places: `handle_event` goes
  on with the other events it was called with (`reactor.hpp:387-396`), and
  `handle_write` calls `close(fd_)` after `unregister_handler`
  (`kv_store_epoll.hpp:1142-1143`, `1151-1152`). `fd_` is read from freed memory
  there: it is -1, as the destructor left it, or anything (`dangling`). If it
  were still the number, that descriptor would be closed a second time, with
  nothing opened in between.

Beside them are the two ways in which data leaves a server and comes back:

* `Sync` -- several servers, each an engine and what its event loop is doing
  (`idle`, `asked`, `answered`, `closed`). A SYNC is StartSync, Serve (by the
  source) and Merge; clients write and delete in between, servers are killed
  and restarted. A dump is lines; `Parsed` says what `parse_remote_data_str`
  makes of them. A line with an empty value (`Blank`) has two spaces in a row:
  its timestamp is taken for the value (`Shard`), and the timestamp is whatever
  the uninitialized variable held. It is written for the array engine's branch. The
  other three have the same steps with other names, but not the same engines:
  only the array refuses an item when it is full, and the tree's DEL moves a
  timestamp to another item (`rbtree_stamps`), after which RSYNC compares the
  wrong one; `NothingInvented` does not speak for it.
* `KVSave` -- one engine, any of the four, and one file. A SAVE is Open, one Put
  for the number of items and for each string, and Close, or PutFails at any of
  them; for the red-black tree a write can also fail in a left subtree and the
  SAVE go on (`LeftSubtreeFails`). The hole that leaves begins and ends anywhere:
  length and bytes of a string are written apart, so the last string before it
  may be cut short (`CutShort`), and the flush that failed may have held
  everything from the number of items on (`headless`). From a string that is cut
  short on, LOAD is out of step and takes for lengths and strings what are not
  (`Garbled`, `Garbage`). Nobody reads the file during a SAVE, so how
  much of the stdio buffer has reached it is settled where the SAVE ends, by
  Close, PutFails or Kill (`disk`). LOAD is one step, because nothing can come
  between two of its reads but a kill, which loses the engine anyway. It may fail
  to open the file or to read it (`LoadNothing`, `LoadItems`); `reply.lacked`
  says so, and whether a set found no memory, which the code does not notice.

Theorems are in modules of their own: `KVArrayProofs`, `KVHashProofs`,
`KVSkiptableProofs`, `KVRbtreeProofs`, `EpollProofs`, `ServerProofs`,
`SyncProofs`, `KVSaveProofs`.
`MC...` modules give values for TLC, and views that leave `reply` out where no
action reads it.

Mutants (operators named in a comment "Mutant: ...") stand before the
definition they change; they are wrong on purpose and no specification uses them.

## The runs

| Run | Checks | What it shows |
|---|---|---|
| `array` | `TypeOK` `NoHoles` `UniqueKeys` `KeyLossOnlyByDel` `ImplementsStore` | map semantics, contiguous slots and unique keys until memory fails; after that too, a key is lost only to its own DEL |
| `hash` | `TypeOK` `CountIsExact` `ChainsAreSound` `ImplementsStore` | the same with chains; counter and chains stay sound through failed allocations |
| `skiptable` | `TypeOK` `LanesNest` `LevelIsTight` `ImplementsStore` | the same whatever levels the coin gives; every lane is a part of the one below, `level` is the highest in use |
| `rbtree` | `TypeOK` `LinksAgree` `RedBlack` `ImplementsStore` | links, order, red-black rules and map semantics for every history on six keys |
| `rbtree_stamps` | `DelTouchesNoOther`: violated | DEL gives another item the deleted item's timestamp |
| `epoll` | `TypeOK` `NothingLost` `AnswersInOrder` `ExecutedInOrder` `NothingStranded` `NoDanglingCall` `CloseIsNoticed` `ImplementsService` | pipelined commands are executed once and in order; with room they are answered in full; whatever client and kernel do, no answer comes twice or out of order, nothing that waits is slept on, and a client's end is noticed |
| `epoll_refused` | `NothingLost`: violated | a send refused with EAGAIN loses the answers |
| `server` | `TypeOK` `ItemsWereSent` `OnlyItsOwnItem` `EndsForCause` `NoEventIsLost` | with stale tokens and cut lines too, an item comes whole from one line, and changes only by a line that contains its key; through resets, full sockets and sends that fail the process ends only for a named cause, and no client waits without an event |
| `sync` | `TypeOK` `NothingInvented` `SyncIsComplete` `MergeNeverRollsBack` `SyncEnds` `Converge` | SYNCs end and leave every item of the dump, a newer one or a tie; they invent nothing, roll nothing back; servers converge |
| `sync_mutual` | `SyncEnds`: violated | two servers that SYNC from each other at the same time hang |
| `sync_cut` | `SyncIsComplete`: violated | a dump cut short by the timeout is merged and answered SUCCESS |
| `save` | `TypeOK` `LoadIsWhole` `LoadOnlyAdds` `AckedSaveLoads` | a cut or holed file is never loaded as a whole one, LOAD changes nothing that is there, an acknowledged snapshot stays loadable |

`LoadIsWhole` excepts the skip list: kvs_skiptable_save leaves out the NUL that
kvs_skiptable_load relies on, so that a string may come back longer than it was
saved. The test at `test_kv.c:1354-1371` expects SLOAD to bring every value back.
It will, if the allocator happens to leave a 0 behind each string; what is there
is undefined, and the model can only say that both may happen.

### Bounds

* Array: 4 keys for 3 slots. A DEL hits the first, a middle and the last slot,
  the table fills up, and there is a key too many. Keys are integers because
  RANGE compares them.
* Hash: 2 slots, 3 of 4 keys in one chain: a head, an inner node and a tail.
* Skip list: levels 0..2, 3 nodes (`MaxNodes`); key 4 is cut to key 3.
* Red-black tree: 6 keys, the fewest with which every case of both fix-up
  loops occurs on both sides. Two trees are the same state if they are drawn
  the same (`MCView`). `ValueByParity` bounds the values to one per key, two in
  all, so that a value that goes to another key is seen. `rbtree` has one
  timestamp, since the tree loses timestamps (`rbtree_stamps`).
* Connection (`epoll`): 4 commands and a read buffer of 3 bytes, so that reads
  cut lines and answers wait while commands arrive. Three settings: room for all
  the answers with a polite client and with one that closes or aborts at any
  time, and a send buffer of 3 bytes, smaller than the answers, with a kernel
  that may refuse. `epoll_refused` needs 2 commands only.
* Server: 2 clients who share one or two descriptors (`Limits`) over two
  connections (`MaxVisits`); one writes two of its lines, the other one
  (`MaxLines`). One reset or one refused send (`MaxFaults`), at any point. The
  lines are chosen for their words: the same key for the same engine, an HMOD
  without words, a key (`OD`) that is a suffix of `HMOD` and is thus what a stale
  token may read (`MCSuffixes` lets it read a whole word, its last two characters
  or nothing), a line longer than `LineMax` (10 here), a SYNC whose port is no
  number, a line that is no command, and commands of all four blocks.
* Sync: 2 servers, 2 keys, 2 values, 2 timestamps, room for 2 items,
  `MaxWrites` 2, `MaxFaults` 1 (a restart or a DEL). Two writes make the
  same key on both sides, a newer one after the dump, or a tie; the item an
  empty source leaves behind (`Junk`) fills an engine up, and is sent on in its turn.
* Save: 3 keys, interchangeable (`Symmetry`); an array with room for one item, a
  tree with up to three (a node, its left subtree and its right one), two in the
  other engines (`MaxItems`). A snapshot is loaded over other items, into a full
  array and into an engine whose keys were partly deleted.

### What is assumed

* `FairSpec` of `EpollConn`: the loop takes its next step when it can, and the
  client reads what has arrived. The loop has no other work than its ready
  list.
* `NothingLost` and `ImplementsService` ask for room for the answers in the send
  buffer (`Roomy`), `NoDanglingCall` for a polite client as well; they are
  conditions in the properties, so that the other settings run beside them. In
  `epoll` a kernel refuses answers only where room is short; `epoll_refused`
  shows what happens if it refuses them with room.
* `Server` has no fairness. `NoEventIsLost` is the safety half of "everybody is
  served": whoever waits is on the ready list or in the batch of the loop; answers
  for a socket that is full wait for the client to read.
* `OnlyItsOwnItem` excepts LOAD and SYNC, which bring items in bulk, and a
  command that reads a token its connection never set (an uninitialized
  pointer). `EndsForCause` names those causes instead of excluding them. A
  connection's handler ends the process only if a client left before its last
  answer was sent or was reset (`rude`), or a send() found no memory (`faults`). What
  C++ itself allocates (strings, queues, handlers) is there.
* `FairSpec` of `Sync`: an idle server serves a waiting request, strongly fair
  because epoll's ready list is a queue; a server goes on with a SYNC whose
  answer has come, or whose source is gone. `DiligentSpec` adds an operator
  who orders every SYNC again and again; only `Converge` needs it.
* `SourcesIdle`: no SYNC is ordered from a server that itself waits for one
  (dropped in `sync_mutual`). `MayCut`: dumps may arrive cut (only `sync_cut`).
* `SyncIsComplete` and `NothingInvented` except, by its key, the item that is made
  of the answer EMPTY of an empty source (`Junk`): it has no value, and once it is
  sent on its timestamp is arbitrary. Clients write no empty values; only a MOD
  with a word missing, which reads a stale token, could store one.
* `Converge` excepts ties and engines without room: in both cases the merge
  keeps what it has (`kv_store_sync_client.hpp:270`, `287`). A deleted key
  comes back; that is convergence too.
* In `KVSave`, `trouble` records what the process and the disk lacked; each
  property names the parts of it that excuse it: `AckedSaveLoads` any write that
  failed, `LoadIsWhole` only a lost number of items, `LoadOnlyAdds` a string or an
  item torn in two. A LOAD that could not open or read the file, or found no
  memory (`reply.lacked`), is excused for itself. Strings are ASCII and have no
  spaces, as the parser delivers them; `Blank` (an empty value) comes from a
  merge only.
* Keys are ASCII (`HashAssumption`), values shorter than 256 bytes in the skip list.

## What is proved

Each theorem holds for every value of the constants, under the assumptions named
in the module it is about. The temporal step is always the same: an inductive
invariant, or one step of it, and PTL.

`KVArrayProofs`, for every set of keys, values and timestamps and every table
size (the NULL pointer is no key and no value, keys and timestamps are integers,
0 is a timestamp, the table has a slot):

* `TypeCorrect`: `Spec => []TypeOK` -- no slot outside the table is written.
* `Contiguous`: `Spec => []NoHoles`.
* `KeysAreUnique`: `Spec => []UniqueKeys` -- no key twice until memory fails.
* `KeysAreKept`: `Spec => KeyLossOnlyByDel`, failed allocations included.

None of the first three is inductive. `UniqueKeys` needs that the items have
values, because SET takes a key with a NULL value for an absent one and stores
it again; it needs `NoHoles`, because SET increments `total` even when it fills
a hole. The invariant `Inv` is `TypeOK`, `NoHoles`, `ValuesPresent` and
`UniqueKeys`; `InitInv` and `NextInv` (from `SetInv`, `DelInv`, `ModInv`) show
that it is inductive. `DelInv` maps each slot in use after a DEL to the slot
its item had before, a one-to-one map. `KeysAreKept` follows from `Inv` step by
step (`SetKeeps`, `ModKeeps`, `DelKeeps`).

* `ArrayImplementsStore`: `Spec => ImplementsStore`.

The last says that the table answers and changes as a map, RANGE and GETARRAY
included, until an allocation fails. `MapOf` is the map that a table with distinct keys stands for;
`MapWithOneMore`, `MapWithAnother` and `MapWithout` say what SET, MOD and DEL do
to it; `RangeIsBetween` that RANGE copies what lies between its bounds. The
order of a RANGE is one definition on both sides.

`KVHashProofs`, for every hash function, number of slots and set of keys:

* `TypeCorrect`: `Spec => []TypeOK`.
* `CountsAreExact`: `Spec => []CountIsExact`.
* `ChainsStaySound`: `Spec => []ChainsAreSound`.

`CountIsExact` speaks of a cardinality, and the nodes behind one that is linked
or unlinked change their positions. The proofs count the places (slot, position)
that are taken: `Linking` and `Unlinking` show that they become one more or one
less, `Replacing` that they stay. That an unlink lowers the counter by exactly
one needs `ChainsAreSound`: DEL finds the key once.

* `HashImplementsStore`: `Spec => ImplementsStore`.

For the last, whatever the keys hash to, the chains answer and change as a map, until an allocation
fails in MOD, RANGE or GETHASH; only DEL may claim success for an absent key.
The map is that of the set of linked nodes (`NodesIn`), in which places no longer
matter: `LinkPuts`, `UnlinkRemoves` and `ChangePuts` say what a step does to it.
`PresentIsFound` needs `ChainsAreSound`: a search looks into one chain only. The
invariant gains `Healthy`, that no node has a freed value until a promise is
broken; RANGE and GETHASH would read it.

`KVSkiptableProofs`, for every number of levels, every way the coin falls, every
set of keys (and every cut of them that keeps their order, `KeptAssumption`:
strncpy keeps a beginning of the key) and every bound on the nodes:

* `TypeCorrect`: `Spec => []TypeOK` -- no pointer leads to a freed node or to one
  that does not reach the pointer's level.
* `LevelStaysTight`: `Spec => []LevelIsTight`.
* `LanesStayNested`: `Spec => []LanesNest`.
* `SkiptableImplementsStore`: `Spec => ImplementsStore`.

`LanesNest` says that each level, taken by itself, is the sorted list of the nodes
that reach it, and is not inductive: a search changes levels in the middle, and
must know that what it passed above it would have passed below. The invariant
`Inv` says that there is one order of all nodes (`Ordered`: a place for each, no two
the same, keys not decreasing) and that a pointer on level i leads to the next
node, in that order, of those that reach level i. Then a walk stops at the last
node before the key (`WalkStops`, `UpdateStops`), wherever it came in; SET finds room
for a place between two others by shifting (`ShiftedPlaces`), DEL keeps the places
of the rest. Keys are only "not decreasing" because two of them may be cut to the
same bytes; the order among those is that of their places. RANGE and the dump list
places in order (`ListedInOrder`), so that there is nothing to sort.

`KVRbtreeProofs`, for every set of keys, values and timestamps and every bound on
the nodes, hence for trees of every depth:

* `TypeCorrect`: `Spec => []TypeOK` -- no pointer leads to a freed node.
* `StaysBalanced`: `Spec => []RedBlack`.
* `LinksStayAgreed`: `Spec => []LinksAgree`.
* `RbtreeImplementsStore`: `Spec => ImplementsStore`, if no two timestamps differ;
  `rbtree_stamps` shows a DEL for which it fails if they do.

The invariant is a tree at rest and no links anywhere else (`Rests`). At rest
(`Settled`) means that there are witnesses `under` and `h`: `Shape`, in which
`under[x]` is the set of nodes of the subtree at x -- x and those of its two
children, on the right sides of its key -- and parents answer children; and
`Balanced`, in which the height `h[x]` is the same by both children. Each is local:
what a rotation does to it can be computed at the nodes it touches
(`TurnedShape`, `TurnedBalanced`, one proof for both sides, since a rotation has its side
as a parameter). The loops have invariants of their own: `Growing`, where one red
node may have a red parent, and `Shrinking`, where one black node is missing under
one node. One lemma for each case of a round (`RedUncle`, `Straightened`,
`LastRound`; `RedSibling`, `BlackNephews`, `RedInnerNephew`, `RedOuterNephew`) shows that the round keeps
it or ends the loop; if it goes on, the subtree at hand has become larger, so
there are at most `MaxNodes` rounds (`InsertFixupSettles`, `DeleteFixupSettles`).
Linking a node in and splicing one out lead from `Settled` to these
(`LinkedGrows`, `SplicedSettles`), and exchanging the items of a node and its
successor keeps the order (`Rekeyed`).

Searches and walks are recursive functions. That the defining equation has a
solution is `Recursion`: it has if the argument's rank (the size of the subtree,
or the number of larger keys) goes down; what the solution is follows from a
least counterexample (`LeastRank`, `Lowest`). `NextIs` is what a walk by successor
rests on: in either of its ways rbtree_successor finds the next key, so that RANGE
lists what lies between its bounds, in order (`FromIs`, `LowerBoundIs`), and the
dump everything (`InOrderIs`). For the refinement the invariant gains `Intact`: no
value is NULL until a MOD has failed.

`EpollProofs`, for every number of commands, size of the read buffer, set of
settings:

* `TypeCorrect`, `CommandsInOrder` (`ExecutedInOrder`), `NothingSleeps`
  (`NothingStranded`), `AnswersStayInOrder` (`AnswersInOrder`).
* `NoAnswerIsLost` (`NothingLost`) and `CloseIsSafe` (`NoDanglingCall`), from
  `Obliging` in addition: a kernel with room for all the answers does not refuse
  them. Without it `epoll_refused` refutes the first.
* `ConnectionServes`, from `Obliging`: `Spec` implements `Service` without its
  fairness -- the answers are a beginning of the promised stream, never ahead of
  the commands, each action of the connection one of the service or a stutter.

The invariant `Inv` numbers the bytes of all commands, and of all answers, from
one end of the conversation to the other. `Input` says that what is executed,
what is in `r_buf` and what is in `rx` are three consecutive intervals of the
first numbering; `Output` says the same of what was sent, the local string and
the queue, with gaps where something was dropped, and none while `Whole` holds.
Appending, cutting and parsing are then arithmetic on the ends of intervals
(`Bytes`, `Cmds`), and `Ascends` survives any gap. `Events` says where the event
is that will wake the loop: on the ready list, or among those captured by the
handler that is running; sleeping on work contradicts it. `Careful` relates
`EPOLLOUT`, asked for or captured, to a queue that is not empty; without that, a
write event could find nothing to send, which destroys the connection.

`ServerProofs`, for any number of clients, any lines, any number of descriptors:

* `TypeCorrect`: `Spec => [](TypeOK /\ Counted)` -- descriptors in use are the
  open connections, and only open connections have events or answers waiting.
* `NoEventIsEverLost`: `Spec => []NoEventIsLost`, inductive beside `TypeOK` and
  `Counted`.
* `ProcessEndsForCause`: `Spec => []EndsForCause`, with `Polite`: who has gone
  and still has work, or was reset, was rude; EPOLLOUT is armed with an empty
  queue only after a send() that found no memory.
* `ItemsAreSent`: `Spec => []ItemsWereSent`.
* `CommandsKeepToTheirItem`: `Spec => OnlyItsOwnItem`.

The last two rest on `Effect`, which sums up the forty commands: each either
leaves its engine alone, or does one of four things to it; and on
`TokensAreGiven`: unless undefined, a token reads a word of the line or some
text of it.

`SyncProofs`, for any number of servers, keys, values and clocks, any bound on
writes and faults (finitely many keys -- a command has at most 1023 bytes --,
timestamps are naturals, the capacity is a natural, no client writes `Junk` or
`Blank`):

* `TypeCorrect`: `Spec => []TypeOK` -- no engine exceeds its room.
* `NothingIsInvented`: if dumps arrive whole, `Spec => []NothingInvented`.
* `MergesNeverRollBack`: `Spec => MergeNeverRollsBack`, cut dumps included.
* `SyncsAreComplete`: if dumps arrive whole, `Spec => SyncIsComplete`: for every
  item of the dump, `Junk` excepted, the server has that very item, a strictly newer
  one, or its own of the same timestamp (`Has`). Without the condition `sync_cut`
  refutes it.

`NothingInvented` is not inductive: a merge takes what it was sent, so the
invariant `Inv` says of every dump on its way, too, that it has one entry per
key and only entries that clients wrote. One entry per key is also what the
action properties need: with two, `Join` could take the older one. What is parsed of a
dump has the dump's entries but those without a value (`ParsedIsSound`,
`ParsedIsGenuine`). The argument
rests on lemmas about one engine and one set of entries (`JoinIsStore`,
`JoinAt`, `JoinKeepsOrAdvances`, `JoinCovers`, `JoinIsWritten`), lifted to
`Merged`; a failed merge joins a part of the dump, which is sound because a
part of a dump is. `OnlyMergeFinishes` shows that no other action answers a
server that has its dump.

`KVSaveProofs`, for every engine, set of keys and values, table size and number
of items:

* `TypeCorrect`: `Spec => []TypeOK`.
* `SnapshotsLoad`: `Spec => AckedSaveLoads`: no write failed, and this LOAD can
  open and read the file and has memory.
* `LoadsOnlyAdd`: `Spec => LoadOnlyAdds`.
* `LoadsAreWhole`: `Spec => LoadIsWhole`, the skip list and a lost number of items
  excepted.

The invariant is `TypeOK` and three more. `Stream`: the strings are those of the
items, or fewer; as long as nothing was torn within an item they are keys and
values in turn, of items that were saved -- which a failed left subtree keeps,
because it leaves out whole pairs (`TornStream`) -- and a string that was cut short
leaves LOAD out of step for good, so that it finds fewer than there were
(`Spliced`, `Reach`). `Whole`: an acknowledged
snapshot is all there unless a write failed. `Unanswered`: a SAVE under way has
no answer. What a LOAD makes of the engine is a recursive function of the items
it reads; `RestoredGrows` and `RestoredCovers` follow it by a least
counterexample (`Smallest`): the first item after which the engine would be
wrong cannot exist.

Only model-checked: what must happen at last -- `CloseIsNoticed`, `SyncEnds`,
`Converge`, and the progress that `ImplementsService` adds to what
`ConnectionServes` states. These need fairness, and liveness is out of the prover's
reach. Every invariant and every action property of the runs that pass is
a theorem.

## What is not modelled

* The HTTP server in `reactor.hpp` (`HttpConnection`, `HttpParser` and their
  acceptors): the key-value server does not use it.
* The NtyCo and io_uring networks: compiled out. The B-tree: vendored, with its
  own test program, linked into nothing.
* The clock, the allocator and the log: arguments and choices of the actions.
* `destroy_kv_engine` and the destroy functions of the engines: `Reactor::run`
  does not return, so nothing reaches them.
* In snapshots: power failures (nothing is fsync'ed), and the file of one engine
  loaded by another.
* Keys with bytes above 127, whose hash may be negative, and values of 256 bytes
  or more in the skip list.
* C++ allocations that fail (std::bad_alloc), in `Server` and `EpollConn`.
* After undefined behaviour, nothing.

## The plan

Done: the abstract store and the four engines, the connection, the process with
many clients, replication and snapshots; theorems about each of them, with the
refinements of the four engines and of the connection. What would come next:

1. `KVSave` and `Sync` together: LOAD stamps items with the time of the LOAD,
   so an old value can win over a newer remote one.
2. The other three branches of SYNC, whose engines differ in what they do when
   they are full, and whose tree moves timestamps.
