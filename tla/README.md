# A verification of redis-like

redis-like is a small key-value server in C++: one thread, one `poll` loop, strings and sorted
sets in memory, and a client for the terminal. This directory holds a TLA+ model of it, the TLC
runs that check the model on small instances, and TLAPS proofs of what matters most for every
instance. Paths below are relative to the repository; `src/` in front of a path of
`PROJECT.json` is the repository itself.

## 1. The system

| Component | Code | State | Operations | Talks to |
|---|---|---|---|---|
| Hash table | `server/src/data_structures/hashTable.{h,cpp}` | `HTab`: array of chains, `mask`, `size`; `HMap`: `newTab`, `oldTab`, `migrate_pos` | `h_insert`, `h_lookup`, `h_detach`; `hm_lookup`, `hm_insert`, `hm_delete`, `hm_size`, each but the last with a round of `hm_help_rehashing` | called by string entries, the keyspace and sorted sets; nodes are embedded in the entries |
| String entries | `.../string.{h,cpp}` | `Entry_str` (key, value, node) | `get`, `set`, `del` | `HMap` of the keyspace |
| AVL tree | `.../avl.{h,cpp}` | `root`; per node `parent`, `left`, `right`, `height`, `cnt` | `avl_insert`, `avl_find`, `avl_delete`, `avl_delete_`, `avl_rank`, `avl_range_by_rank`, `avl_inorder`, `avl_offset` | called by sorted sets; nodes are embedded in the entries |
| Sorted set | `.../zset.{h,cpp}` | `Value`: an `HMap` and an `AVLTree` over the same `Entry_zset`s | `zadd`, `zrem`, `zscore`, `zrank`, `zcard`, `zrange`, `zall`, `zdel`; `create`, `exsit` in the keyspace | `HMap`, `AVLTree` |
| Keyspace, dispatcher | `server/src/command/*` | the global `HMap_string` (strings and sorted sets), the command registry | `execute_command`, one handler per command | string entries, sorted sets |
| Protocol | `server/src/protocol/*` | cursor of the parser | `parser_req`, `serialize` | connection, dispatcher |
| Connection | `server/src/network/connection.{h,cpp}`, `utils/buffer` | `read_buffer`, `write_buffer`, `is_read`, `is_write`, `is_close` | `handle_read`, `handle_write`, `try_one_request` | socket, parser, dispatcher, serializer |
| Server | `server/src/network/server.{h,cpp}` | listening descriptor, `conn_pool` by descriptor | `run`, `handle_accept` | poll, connections |
| Client | `client/*` | one socket; cursor of the deserializer | `send_req`, `read_res`, `Deserializer::parse` | the server |
| Logger | `server/src/utils/logger/*` | an open file | `log` | nobody reads it |

A request travels socket -> `read_buffer` -> `Parser` -> `CommandDispatcher` -> entry class ->
`HMap` / `AVLTree`, and back through `Serializer` -> `write_buffer` -> socket, all in the one
thread; a command runs alone from its first lookup to its reply. The concurrency of the system is
therefore between the clients and the server, and, inside a connection, between the arrival of
bytes and the turns of the loop. Inside the data structures the hard part is not concurrency but
length: an incremental rehash spreads over many commands, and the shape of a tree is the sum of
all insertions and deletions before.

What is hard, and what makes each component correct:

* **Hash table.** Two tables are one map while keys move between them: no key lost, doubled or in
  a wrong slot; counters equal to the chains; cursor inside the array; a new rehash never due
  before the last one is over; the migration loop ends.
* **AVL tree.** Pointers in both directions agree after every rotation and replacement; order,
  stored heights and counts, rank queries and balance survive every sequence of updates.
* **Sorted set.** Two structures over the same nodes agree; the sort key of a node changes only
  while it is out of the tree; answers are those of one sorted sequence.
* **Keyspace.** A command that fails leaves nothing behind that another can see; queries change
  nothing; strings and sets under one key do not disturb each other; the text of a reply tells the
  client what the command did.
* **Connection.** Every request is executed once, in order, and answered, however it is cut into
  pieces; partial writes; flags that fit the buffers.
* **Server.** No connection starves, none leaks; descriptors lead to the right connection although
  they are given out again; answers go out in parts without loss; a client that leaves at the
  wrong moment harms nobody else.
* **Client.** Each reply is matched with its request, also behind a reply over the limit.

The list of hazards, each at its line and with the properties that cover it, is in
`PROJECT.json`.

## 2. The modules

| Module | Models | EXTENDS / INSTANCE |
|---|---|---|
| `KVMap` | abstract: a map on which GET, SET and DEL act atomically between call and return | |
| `HTab` | class `HTab`: operators on a table record | |
| `HMap` | class `HMap` and `StringEntry::get/set/del` | `HTab`; `KVMap` as `Abstract` |
| `HMapProofs` | lemmas about `HTab`, inductive invariant and theorems of `HMap` | `HMap`, `TLAPS` |
| `Avl` | class `AVLTree`: operators on a tree record | |
| `AvlTree` | a tree under insertions and deletions in any order | `Avl` |
| `SortedSet` | abstract: members with scores, ranked by score and name | |
| `ZSet` | struct `Value`, class `ZsetEntry`, `Zset::zdel` | `Avl`; `SortedSet` as `Abstract` |
| `Cuts` | the two parts of a buffer or a string that is cut | |
| `DataLemmas` | induction and recursion as facts about sets and functions; facts about sequences | `Cuts`, `TLAPS` |
| `AvlProofs` | what rotations, the way up of `avl_fix`, insertion and deletion do to a well-formed tree; walks, ranks and ranges of a search tree | `Avl`, `DataLemmas` |
| `AvlTreeProofs` | inductive invariant and theorems of `AvlTree` | `AvlTree`, `AvlProofs` |
| `ZSetProofs` | inductive invariant and theorems of `ZSet` | `ZSet`, `AvlProofs` |
| `Wire` | the format of a request: `send_req` and class `Parser`, as operators | |
| `Service` | abstract: requests executed and answered once each, in the order sent | |
| `Connection` | class `Conntion`, its turn of the loop of `Server::run`, `bufferPool`, and `send_req` and `read_res` of the client | `Wire`; `Service` as `Abstract` |
| `ConnectionProofs` | inductive invariants and theorems of `Connection`, and the round trip of `Wire` | `Connection`, `DataLemmas` |
| `Resp` | the format of a reply: class `Serializer` and class `Deserializer`, as operators | |
| `Store` | abstract: strings and sorted sets in two name spaces, each command atomic, with the answer the client reads | `Resp`; `SortedSet` |
| `Keyspace` | class `CommandDispatcher`, `HMap_string`, `Zset::create` and `exsit`, from the strings of a request to the reply as the client parses it | `Resp`; `SortedSet`; `Store` as `Abstract` |
| `KeyspaceProofs` | round trip of `Resp`; inductive invariant, theorems and refinement of `Keyspace` | `Keyspace`, `DataLemmas` |
| `Server` | class `Server` with all its connections, and clients that connect, ask and leave | |
| `ServerProofs` | inductive invariant and theorems of `Server` | `Server`, `TLAPS` |
| `MCHMap`, `MCAvlTree`, `MCZSet`, `MCConnection`, `MCKeyspace` | values of the constants for TLC | |

### HTab and HMap

A table is a record `[tab, mask, size]`; a chain is the sequence of the entries linked from its
slot, head first; an entry is a key and a value, and `hcode` is any function from keys to
naturals. `hcode & mask` is written `hcode % (mask + 1)`: the sizes are powers of two, because
`init_size` is one, `hm_trigger_rehashing` doubles, and the constructor throws otherwise.

`HMap` is a machine with a program counter, since the interesting steps are inside one command:

| Code | Action |
|---|---|
| constructing the `StringEntry`, entering `hm_lookup` / `hm_delete` | `Call` |
| one iteration of the loop of `hm_help_rehashing` | `SkipEmptySlot` or `MoveHead` |
| the end of `hm_help_rehashing`, which frees an empty old table | `HelpReturns` |
| the rest of `hm_lookup` and what `get` does with the node | `Get` |
| the rest of `hm_lookup` and the update of a node that `set` found | `SetExisting` |
| `hm_insert` with `hm_trigger_rehashing`, up to its own `hm_help_rehashing` | `SetNew` |
| the rest of `hm_delete` | `Del` |
| the return to the dispatcher | `Return` |

`migrate_pos` has no upper bound in the model, as it has none in the code: reading outside the
array would make TLC stop with an error, and `MigrationInBounds` says that it cannot happen. The
early return of `hm_trigger_rehashing` needs no action: its only caller tests the same condition
first. The widths of the counters are left out: they would wrap at 2^32 nodes.

### Avl and AvlTree

A tree is a record of `root` and one function per field of `AVLNode`. All pointer assignments are
kept, in the order of the code where it matters (`avl_fix` saves the parent before it rotates;
`avl_delete_` reads the fields of the node after the successor was deleted). The loop that climbs
is a recursive function over the path to the root, which no rotation on the way changes; the
descents are recursive functions too. What the code leaves behind in a deleted node is kept too: `cnt` is not
reset, which matters when ZADD inserts the node again. The operators were compared with the
compiled C++ on random sequences of operations while they were written.

`AvlTree` inserts nodes that are not in the tree and deletes nodes that are, as the sorted set,
which asks its hash map first, does. `avl_delete`, which searches the tree itself and which no
command uses, is called for any node, and a node deleted by it is freed: it leaves the pointers of
a node with two children as they were, so such a node must not be inserted again. `MaxOutside` bounds how many deleted nodes
keep an old height and count at once (`zadd` keeps one, between its `avl_delete_` and its
`avl_insert`). Nodes are numbers ordered by `<`.

### ZSet

One sorted set. Its names are the nodes of `Avl` (an `Entry_zset` is allocated per name), its hash
map is the set of the names it finds: `HMap` shows that an `HMap` is a map, whatever is being
rehashed. A command is one action; inside it tree and hash map are changed by the operators of
`Avl` in the order of the code, with `less` reading the scores of that moment. `Zdel` deletes node
by node along the list collected first (the recursive function `emptied`). Scores are integers, plus `NaN`, which compares false
with everything; names are numbers, for their order. A key that does not exist is an empty set
here, since each command creates the set it does not find.

### Wire and Connection

Data is a sequence of units of four bytes: a 32-bit number, or four characters of a string. Strings
are therefore multiples of four bytes, and data is cut between units, never inside a number; a
number that is cut is treated by the code like one that is missing (`read_buffer.size() < 4`).
Characters that the server takes for a length make one over every limit. The loop of
`parser_req` is a recursive function over the number of strings read, and `Failed` stays `Failed`.

`Connection` is one client, one connection, and the two streams of the socket between them, each
with room for `SocketSize` units. The server thread runs in the order of the code; `pc` says where
it is, and every system call is a step, since the client runs between two of them:

| Code | Action |
|---|---|
| setting up `pollfd_args` from the flags, `poll` | `Poll` |
| `read` in `handle_read`, `buffer_append` | `handle_read` |
| `try_one_request` that returns true | `ExecuteRequest` |
| `try_one_request` that returns false, the end of the loop | `LeaveLoop` |
| the end of `handle_read`: the flags, and its own call of `handle_write` | `Reply` |
| `handle_write` called for POLLOUT | `handle_write` |
| `send_req` up to `write_all` | `Send` |
| one `write` of `write_all` | `ClientWrite` |
| one `read` of `read_full`, of the length of an answer or of its text | `ReadLength`, `ReadAnswer` |

Four details of the code are kept because the behaviour depends on them:

* `is_write` is read before anything has written it: `Init` lets it be either value.
* What `poll` reported of POLLOUT is used after `handle_read` has run (`pollout`).
* `request_data` points into `read_buffer`, and the request is parsed through it after
  `buffer_consume` has moved what was behind the request to the front. The operator
  `request_data` is the memory the pointer sees at that moment.
* A request that is too long is left in the buffer; one that does not parse is consumed without a
  reply, and ends the loop either way.

An answer is text that names its command, preceded by its length. `Window` is the number of answers
a client lets be due: 1 for `client/main.cpp`, more for one that pipelines. The commands of
`Listing` are answered at a length that may be over `client_max_msg`: then `read_res` gives up
behind the length, leaves the text in the stream, and the main loop goes on. From then on
(`GaveUp`) it takes left-over text for a length. What that says depends on how the bytes of the
text, of line breaks and of the next length fall together, so it is any number that the limit tells
apart (`LengthsRead`): the client may give up again, read any amount as an answer, or nothing, and
then send ahead of the real answers. `want` is the length it read, `ahead` says
that it has sent ahead of an answer. Text units are kept apart from numbers. Errors, end of file and other connections are in `Server`.

### Resp and Keyspace

In `Resp` data is a sequence of units: a type character, a number in decimal, a line break, or a
piece of text. Lengths count units, and data is cut between units. A text may hold line breaks,
which is what can break the format. `parse` returns a response and what is left, or `Incomplete`
(the code returns false) or `Invalid` (the code throws). The dispatcher builds no array in an
array, so that an element is no array and nothing is recursive.

`Keyspace` is one action per handler. Map and sets are taken for what `HMap` and `ZSet` show them
to be, and two keys do not share a hash code. Four things are kept as the code has them:

* A key has up to two nodes, an `Entry_str` and a `ZsetNode`, because each kind of lookup looks for
  its own. A sorted set lookup that meets an `Entry_str` reads the string's buffer and the address
  of the value as pointer and length of a key, and finds them unequal. A string lookup that meets
  a `ZsetNode` reads the 24 bytes in front of the node, whatever is there: `Misread`, after which
  the model stops (`undefined`).
* Every sorted set command but ZDEL creates the set that it does not find (`Created`), ZADD and
  ZRANGE before `std::stod` and `std::stoi` may throw; `stoi` is applied to both bounds.
* `std::stod` accepts "nan" and "inf". An infinite score is a number greater than all others. With a NaN
  `less` is no order, and what order the tree has the members in depends on the history of
  insertions: `disordered` holds the keys whose tree a NaN has been in since it was created, and a query of
  such a set sees any arrangement of the members (`Rankings`; each query anew, which is more than a tree can
  do). `ZSet` shows what still holds then: the set of entries, and that nothing crashes. The sign of a
  NaN is left out.
* `std::to_string` prints six decimals: scores are counted in units of 1e-7 and rounded.

`zrem` and `zdel` answer as if they had found something when they have not, and `Store` says so, too,
because it is what a client sees. `Store` leaves open which of two equally near decimals is told, and
the type of the response to a request that fails: the code answers all but "nil()" with simple strings
(command_dispatcher.cpp:97), README.md:135 says "-Error message". The run `errors` is about that.

README.md:169 shows `ZRANGE myset 0 -1`, which lists a whole set in Redis. Here ranks begin
with 1 and a negative bound is below all of them (`avl_range_by_rank`): the example lists nothing, and
`ZSet`, `Keyspace` and their abstract modules have it so.

*Refinement mapping* to `Store`: a key without a `ZsetNode` is an empty set; the answer is what the
parser of the client makes of the serialised reply. So `Refines` is a statement about the handlers,
the serializer and the deserializer together.

### Server

`Connection` looks into one connection; `Server` has all of them, and the loop around them. A
request is one unit; its answer has `AnswerSize` pieces, or `ListingSize` when it is over the limit of the
client, and a socket holds `SocketSize` pieces. Clients are
numbered in the order in which they connect; a client is one run of the program.

| Code | Action |
|---|---|
| `connect`, `send_req`, one `read` of `read_res` | `Connect`, `Ask`, `ReadAnswer` |
| `quit`, the end of input, an error, an interrupt: `close(fd)` | `Leave` |
| the loop over `conn_pool`, and `poll` | `Poll` |
| `handle_accept` and the entry in `conn_pool` | `handle_accept` |
| `handle_accept` that returns NULL, and `continue` | `AcceptFails` |
| `handle_read` that executes a request and writes | `ReadRequest` |
| `handle_read` that finds the end of the data or an error | `ReadClosed` |
| `handle_write` on POLLOUT | `handle_write` |
| `close` and `delete` on POLLERR | `CloseOnError` |

`revents` holds what `poll` has reported and the loop has not handled: the events of a descriptor
are handled in the order read, write, close, and the descriptors in ascending order (`conn_pool`
is indexed by them), while the clients go on. What a socket does is external and was tried out on
loopback sockets while the module was written:

* A client that closes with unread data resets the connection; else the server reads an end of
  data. Both are readable events; only a reset, or the answer to a write, is POLLERR.
* The error of a reset is pending until `poll` reports it to be closed upon, or until a `read` or a
  `write` has returned it: then it is gone, and POLLERR with it. A write to a socket whose client
  has left is taken and makes it reset; a write after that ends the program by SIGPIPE, which
  nothing ignores.
* `accept` gives the lowest free descriptor, and fails when there is none.

A client that has read the length of an answer over its limit goes on to its next request with the
text unread (`GiveUp`; main.cpp:113-117 and 235), and then takes text for lengths (`ReadLeftOver`): a read
may take a piece or no whole one and may be the last for its request or not. Then it sends
ahead, and pieces of several answers are under way. One request per client may be in the socket at a time,
a bound of the model: what the server makes of several is `Connection`'s matter.

`is_close` is set by the code and read by nothing (server.cpp:101), so it is no variable.

## 3. What the runs check

| Run | Bounds | Result |
|---|---|---|
| `hmap` | 4 keys with hashes 1, 5, 2, 4; first table of 2 slots; load factor 1; 1 node moved per round; values `empty`, `v` | pass, 106,928 states |
| `avl_tree` | 8 nodes, `MaxOutside` 2 | pass, 62,736 states |
| `avl_balance` | 8 nodes | `Balanced` violated |
| `zset` | 4 names, scores 1 and 2, ranks -1, 1, 2, 3, 5 | pass, 5,729 states |
| `zset_nan` | 4 names, scores 1, 2 and NaN | `ListedByScore` violated |
| `connection` | 3 answers due at most, 3 requests of 3 kinds and shapes (one rejected, one with an answer over the limit of the client), `k_read` 8, streams of 6 units | pass, 243,214 states |
| `pipeline_order` | 2 answers due at most, 2 requests | `ExecutedAsSent` violated |
| `long_request` | 1 answer due at most, 1 request, acceptable or of 2 strings | `EveryAnswered` violated |
| `keyspace` | 2 keys, 2 names, scores 7e-7, infinity and NaN, a text with a line break, rank 2 | pass, 61,647 states (keys symmetric) |
| `errors` | the same | `ErrorsAreErrors` violated |
| `server` | 3 clients, 2 descriptors, answers of 2 pieces and, over the limit, of 3, sockets of 1 | pass, 203,755 states |
| `descriptors` | the same | `AcceptedServed` violated |

**hmap.** Invariants `TypeOK`, `OnePlacePerKey`, `InItsSlot`, `SizeIsExact`, `MigrationInBounds`,
`LoadBounded`; `Refines` (the machine implements `KVMap`) and `Terminates`. With two slots and load
factor 1 the second key starts a rehash, the fourth another one; with one node per round a
rehash spans several commands, so that every command meets it at every stage. The hashes keep two
keys in one chain in every table of at most four slots and part the others as the table grows,
and one is in the first slot of both old tables, so that the second rehash has a node where the
cursor of the first has passed. TLC fires all
actions and both branches of `SetNew`. The real constants (8, 8, 128) would need 64 keys before
anything happens; the proofs cover them.

*Refinement mapping*: `store[k]` is what the tables hold for `k`, the new one first; a command is
`called` until its lookup has been done, then `done`. So the lookup is the linearisation point, and
all migration stutters.

*Fairness*: `WF_vars(Execute)`: the single thread keeps running a command it has begun. Nothing
obliges a client to call.

**avl_tree.** `LinksAgree`, `InOrder`, `SizesAreExact`, `RanksAgree`, `OffsetForward` for every
tree that insertions and deletions of eight nodes reach, which includes every rotation, deletions
whose successor is the right child or deeper, rebalancing that changes the node being deleted, and the
unbalanced trees of `avl_balance`: the five do not depend on balance. `InsertKeepsBalanced`: no insertion
into a balanced tree unbalances it, whatever the deletions behind it have left.
`OffsetForward` is about offsets that are not negative. With a negative one `avl_offset` compares a
signed number with an unsigned one (avl.cpp:140): from a node without a left child it follows the
null pointer, even if the node it looks for exists, although its comment promises NULL outside the
tree (avl.cpp:126). No command calls it.

**avl_balance.** The flaw in `rot_right_left`, which takes eight nodes: when both
grandchildren are equally high, which only a deletion can bring about, the code takes the double
rotation (`>=`, avl.cpp:276, and `<=`, avl.cpp:266) and leaves the subtree unbalanced. Inserting
1,2,3,6,7,5,4,8 and deleting 1 is the shortest case. As `avl_fix` repairs only a difference of exactly two, larger
ones remain. `LinksAgree`, `InOrder`, `SizesAreExact` and `RanksAgree` do not depend on balance:
only the time bounds of `README.md` do.

**zset.** `SameEntries` (tree and hash map hold the same allocated entries), `Refines` (every
answer is that of `SortedSet`) and `TypeOK`, which says of the answers that none is made from an entry that
is not allocated. Two scores for four names give ties broken by name, moves to
both ends and moves that change nothing; the ranks lie before, inside and behind the set.

**zset_nan.** `std::stod` accepts "nan", and `less` is no order with such a score; then ZALL lists
the other members out of order.

**connection.** A client that waits or sends ahead as it likes, with up to three requests and answers
under way in any mixture of kinds: one of a short string, one of a longer string whose answer is
over the limit of the client, one of two strings, which the parser rejects. A frame takes 2 to 4
units, an answer 3 or 6, and a stream holds 6: requests and answers are cut in all ways, and several
requests are in the read buffer together, also behind a rejected one.

* `FlagsFitBuffers` through partial writes.
* `FramesAligned`: what is on its way are the messages of the last requests, whole, and no two commands come
  from one message - also behind a rejected request, and when a request was read as the one behind it,
  which with mixed shapes may fail to parse and is dropped. While all requests are alike (`OneShape`: within
  the limits, and of strings of the same lengths), each message that is gone was executed.
* `AnswersAligned` counts what the client has read: a whole answer for each one it was
  told, and the bare length of one that was over its limit, whose text then precedes every later
  answer. That is the hazard of client/main.cpp:113; the later answers are read wrong, and the
  formula says only where the text is.
* `Answered`: again and again every request has its answer, while requests are alike and the client has
  not given up on an answer.
* `Refines`: until the client sends ahead of an answer, or gives up on one, every step is one of `Service`:
  executed and answered once, in order, rejected requests never. (The step that does either is free, and so
  is everything after it.) *Refinement mapping*: `sent`, `executed` and `received` are
  variables of both modules; the streams and the buffers are hidden.

The room in the streams is a bound with a meaning. With 4 units instead of 6 TLC finds `Answered`
violated: a client that sends ahead writes a request while the server, with an answer it cannot get rid
of, does not read (connection.cpp:80), and both wait for ever. The client of this repository writes a
request and then reads until it is answered, and cannot bring this about; one that pipelines must not have
more under way than the sockets hold.

A request over `k_max_msg` stays in the buffer and blocks the connection. The client's limit of 4096 bytes is
far below the server's 32 MB, so that no client of the repository sends one: no run has any, but `Send`
only asks for the limit of the client, and the proofs cover the branch.

**pipeline_order.** That is shown here: two requests that arrive together are executed as the
second one twice, and the first one never.

**long_request.** `EveryAnswered`, without the exceptions of `Answered`: a request the parser rejects gets no
answer, and the client, which reads one after every request, waits for ever; the violation is under the
fairness below.

**keyspace.** `Refines` (the dispatcher implements `Store`), `OneResponse` and `TypeOK`. Two keys show
that no command touches the other key, two names are enough for ties and order (ranges are the matter of
`zset`; here either bound or both may be no number); a score that is rounded up, an infinite one and NaN meet in one set, which has no order from then on until
it is deleted. The text with a line break
inside comes back whole from GET, because a bulk string has a length; in the name of an unknown
command it ends the reply early, which `OneResponse` excepts and `Store` shows as what the client
reads. `Refines` ends where a string command meets the node of a set: what a build does then is
anything. A set left behind by a query or a failed ZADD is in the state (`zsets[k]` is `NewSet`, not
`NoSet`), and the refinement shows that no sorted set command can tell. It is not harmless, though:
it is such a node that a later GET of the same key misreads.

**errors.** `ErrorsAreErrors`: a request that fails - no such command, a wrong number of strings, text for a
number - is answered by an error. The code answers with a simple string, so that a client cannot tell the
message from a value.

**server.** `PoolMatches`, `NothingLost`, `EndsOnlyAmidAnswer`, `ClosesOnlyLeft` (and `TypeOK`); `Served` and
`Reclaimed`. Answers are larger than a socket, so every answer is written in two turns at least and
a client can leave before, between and behind its pieces; answers over the limit of the client let it go on
with pieces unread, ask ahead, and have pieces of two answers under way. Three clients and two
descriptors let a descriptor be given out again while another connection is under way, and let descriptors
run out while one connection still works. `NothingLost`: the pieces in the socket and in `write_buffer` are
those due; until a client has given up on an answer, what it has read and what is due is one whole
answer, and nothing is anywhere when it is idle. `EndsOnlyAmidAnswer` states the one way in which the program
ends: the client has left, its socket is reset, and the rest of its answer is written there. `Served` and
`Reclaimed` hold up to `Stuck`: the server has ended, or has a connection to accept and no descriptor.
`Served` says nothing of a client that has gone on behind left-over text, which may wait for more than
is sent.

**descriptors.** Without that exception `Served` fails, even for clients whose connection was accepted
long ago: a client that leaves after it has read its answer sends an end of data, which sets
`is_close` and nothing else, so its descriptor is never free again. When none is left, `accept` fails,
the loop begins again without serving anybody (server.cpp:82), and `poll` reports the pending
connection at once. TLC shows the loop with two descriptors, under the fairness of `server`: a client that
has left still has one of them, the client that waits for its answer has the other, and a third connection waits to
be accepted.

*Fairness* of `server` and `descriptors`: `WF(run)`, as the loop never waits while `poll` has something to
report; `WF(ReadAnswer(c))`, as `read_res` reads until it has its answer, unless the client leaves.
Nobody has to connect, to ask or to leave. Their cfgs say `CHECK_DEADLOCK FALSE` because the server
may have ended, or all clients have left; those of `keyspace` and `errors` because nothing follows a misread.

*Fairness* of `connection` and `long_request`: `WF(Server)`, since the loop goes on whenever `poll` has
something to report; `WF(ClientWrite)` and `WF(ClientRead)`, since `write_all` and `read_full`
repeat their system call until all is done. `Send` has none: nobody has to ask. The three cfgs of `Connection` say
`CHECK_DEADLOCK FALSE` because a client may stop asking (in the model after `MaxRequests`, a bound
of TLC) and the server then waits in `poll`.

Each property of a passing run has a mutant in `PROJECT.json`: a plausible slip in one mapped
definition with which TLC finds the property violated. Mutants stand before the definition they
replace, commented `Mutant:`, and are used by nothing.

## 4. What is proved

Every theorem is for all values of the constants that satisfy the assumptions named with them,
where TLC visits one small instance; what a theorem assumes beyond those is in its statement.

### The hash table (`HMapProofs`)

Assumptions: hashes are naturals, the empty string is a value, the three tuning constants are
positive.

* `InductiveInvariant`: `Spec => []IInv`
* `TypeCorrect`, `KeysAreUnique`, `NodesArePlaced`, `SizesAreExact`, `CursorInBounds`,
  `LoadStaysBounded`: the six invariants of the run `hmap`.
* `ImplementsKVMap`: `Spec => Refines`, two tables with keys moving between them are one map on
  which every command acts at once.

None of the six invariants is inductive alone. Uniqueness of keys needs the placement of nodes (a lookup that
misses one would insert a second copy); the cursor's bound needs exact counters (while the counter
is positive some node exists, and it is not before the cursor); the load bound needs to know that
a rehash starts only at the limit and moves a node before the next command. `IInv` therefore is

    TypeOK /\ ControlOK /\ TablesOK /\ CursorOK /\ LoadOK

where `TablesOK` says that both tables are `WellFormed` (type, unique keys, placement, counter) and
share no key, `CursorOK` that slots before the cursor are empty, and `LoadOK` that
`newTab.size + 2 * oldTab.size`, which moving a node lowers and inserting one raises by one, stays
at most `slots * load factor`, with equality only between `hm_insert` and the first move of its
round. The last part is the reason why `hm_trigger_rehashing` is never called in vain, and it needs no
relation between the tuning constants other than that they are positive: every insertion is
followed by at least one move.

The argument is one lemma per action. Each rests on facts about one table, stated once:
`InsertKeeps`, `DetachKeeps`, `WriteKeeps` (the three writes keep a table well
formed, and what they do to its set of keys), `LookupFinds`, `FreshTable`, `NullTable`, and below
them `LinkInFront` and `Unlink` about sequences and `Inserted`, `Detached` about chains. The
refinement rests on what the same writes do to the set of entries (`InsertEntries`,
`DetachEntries`, `WriteEntries`): a key has at most one entry in the two tables, so the store of the
refinement mapping is a function of their union (`StoreOfKeys`), and moving an entry leaves
the union alone (`MigrationStutters`).

### The AVL tree (`AvlProofs`, `AvlTreeProofs`)

Assumptions: the null pointer is no node, nodes are naturals.

* `TreeTypeOK`, `PointersAgree`, `SizesExact`, `TreeInOrder`, `RanksArePositions`,
  `OffsetsForward`: the invariants of the run `avl_tree`.
* `InsertionsKeepBalance`: an insertion into a balanced tree leaves it balanced, whatever was deleted
  before (`InsertKeepsBalanced`); and `GrowingBalanced`: a tree to which nodes are only added is
  balanced at all times. Deletions have no such theorem: the run `avl_balance` shows one that breaks it.

The inductive invariant is

    Shape(tree, members, Before, Node) /\ ExactOff(tree, members, {}) /\ Clean(tree, members)

`Shape` says that the pointers agree in both directions, that some rank grows along every way down
(there is no cycle), and that for each node there is a set of what a search that has come to it
may still be looking for, which is cut in two at every step (the order). The rank and the sets
are existentially quantified, so the invariant speaks only of what is in the tree. `ExactOff` says that heights and counts
are the ones the children give, but for a set of nodes: `avl_fix` is called with the sizes of one
path to be repaired, and each iteration takes one node out of that set. Balance is no part of the
invariant, as the code does not keep it; nothing else depends on it.

A tree is described field by field, so that one proof about "one child" and "the other child" stands for
a rotation and its mirror image (`TurnLinked`, `TurnRanked`, `TurnSided`, `TurnExact`; `RotateLeft`,
`RotateRight`); the double rotations are two of them (`LeftHeavy`, `RightHeavy`). Then come
the edits: `InsertKeeps` (the descent ends at the one place where the node belongs), `BypassKeeps`
(a node with at most one child is taken out) and `DeleteKeeps` (a node with two children is
replaced by its successor, which `SuccessorIsNext` shows to be the next in order). These hold for
any order on any set of nodes, which is what the sorted set needs.

`DataLemmas` makes recursion provable: `RankInduction` is induction along a bounded rank, with the
property given as the set of what has it, and `Recursion` says that an equation whose right-hand
side depends on lower ranks only has a solution. From the two follow what the recursive functions
of `Avl` compute: `PathClimbs` and `FixRepairs` for the loop of `avl_fix`, `FindFinds` for the descents, `WalkLists`
(the walk in order lists the members in ascending order, each once), `RankIsPosition` and
`RangeIsCut` for the queries.

That insertions keep the balance is shown along the passes of `avl_fix`, whose trees `FixRepairs`
names. `Rising` at node `n` says that every other node is `Sound` (its height is exact, its sides
differ by at most one), while one side of `n` may be a level higher than when the height of `n` was
stored, and then the child there leans to one side, unless it is the new node. A pass at `n` leaves
`Rising` at its parent (`FixAtRises`). Either the new height of `n` makes it sound (`UpdateRises`), or
its sides now differ by two, and one rotation repairs it if the higher child leans outward, two if it
leans inward (`TurnBalances`, `DoubleBalances`); then the subtree is as high as it was before the
insertion. The rotations are those of the code by `RotLeftRightForm` and `RotRightLeftForm`. Because
the higher child leans to one side, the equality that `<=` and `>=` send into the double rotation
(avl.cpp:266 and 276) does not arise; after a deletion it can.

`avl_offset` goes up and down, and with a negative offset its loop need not end where a rank says, so
`LoopExists` gives its function without one: the least relation that holds the result where the loop
stops and what the next pass returns elsewhere is a function. `OffsetFinds` then rests on the spans that
the subtrees take up in the walk (`SpansExist`): the climb from position `i` to `j` stays at nodes whose
span holds `i` (`SeekClimbs`), so the sum that the code compares as unsigned is the distance of
the span's end from `i`, never negative although `pos` may be; once the span holds `j` as well, the
descent stays in spans that begin behind `i` and hold `j` (`SeekDescends`), where no distance is negative.

### The sorted set (`ZSetProofs`)

Assumptions: names are naturals, ranks integers, scores integers or NaN, and no score means "not a
member".

* `SetTypeOK`, `OneSetOfEntries`: hash map and tree hold the same allocated entries, after any
  commands and with any scores, NaN included.
* `ImplementsSortedSet`, for scores that are numbers: every answer is the one of `SortedSet`.

A tree that is searched with an order that is none could lose an entry: a deletion does not search, but an
insertion descends. `SearchTree` therefore says that the tree is a search tree for *some* order,
which is the one of `less` if no score is NaN. An insertion with any outcome of its comparisons
puts the node at some place, and the order is changed so that this place is right
(`InsertAnywhere`, `SqueezedOrder`). This shows exactly what a NaN breaks: the order, not the
structure. The refinement then follows from the walk of the tree: it is an enumeration of the
members ascending by `less`, there is only one such (`OneList`), so it is the `Ranking` of
`SortedSet` (`RankingIsWalk`), of which ranks and ranges are read.

### The connection (`ConnectionProofs`)

Assumptions: `SizeAssumption` (sizes are naturals, reads, streams and the window positive),
`ArgsAssumption`, `RequestAssumption` (a command is a sequence of sequences), `TextAssumption` (what
the client makes of an answer over its limit is no text).

* `FlagsFit` for the property `FlagsFitBuffers`, and `AnswersInOrder` for `AnswersAligned`: for every
  client, however far it sends ahead.
* `ConnectionTypeOK` for `TypeOK`.
* `RoundTrip`: the parser gives back each command as `send_req` wrote it, and rejects those with
  more than `k_max_args` strings, and no others.
* `ImplementsService` (`Refines`) and `InOrderForOne`: until the client sends ahead of an answer or gives
  up on one over its limit (`~ahead /\ ~GaveUp`), the connection is `Service`, and the commands executed are
  those sent, in that order. Without the first condition the run `pipeline_order` refutes the conclusion.
  The second one is needed for the client of the repository: it reads one answer behind each request,
  but behind an answer over its limit it reads left-over text as answers, and so sends ahead.
* `FramesWhole`, the first half of `FramesAligned`, for every client and every kind of request: the place of
  the server in the stream of requests is always between two of them.
* `FramesKept`, under the two conditions and for requests the parser accepts: that place is
  right behind the requests executed. A request that is rejected is consumed without being executed, and for
  a client that sends ahead one that was read wrong may be, so there this is false.

`FlagsFitBuffers` speaks mostly of the moment before `poll`; its invariant

    FlagsOK /\ AnswersOK

says what holds on the way there. `FlagsOK` has one part for the states between two turns
(`Settled`) and one for those inside `handle_read` (`Reading`), which knows that the function runs
only with `is_read` set and that a request executed in this turn has left its answer in the
buffer: that is why the flags are turned although `is_write` may have started as anything. `AnswersOK`
says that the stream never holds more than it has room for, without which the amount of a write
would not be a number of units.

`Conveyed` is the invariant of the answers: what is on its way is the stream of all answers to
the executed commands less what the client has taken. Every action moves the cut between two of
the three parts (`WriteConveys`), puts an answer behind them (`ExecuteConveys`) or takes from the front
(`ReadLengthConveys`, `ReadAnswerConveys`). The stream is `FlattenSeq` of a sequence, whose recursive
definition `FlattenIs` turns into one that grows by an element (`Grows`), and the
same is done for `Taken`.

`Serving` is the invariant of a client while it waits; `Waiting` says that it holds for as long as
`~ahead /\ ~GaveUp`, which is never true again once it was false. The connection is `Idle` (nothing on its way), `Asking`
(one request, somewhere between the client's buffer and the server's, or rejected and gone) or
`Answering` (the answer, likewise). With one request in the buffer `request_data` is that request (`AskedIs`): what the consumed
memory holds is what it held before. `WholeRequest` shows that `HasRequest` is true only of a whole one, and
`RoundTrip` that it is the command that was sent.

`Framed` is the invariant of the requests for every client: for some `n`, what is in the two buffers and the
stream between them are the messages behind the first `n`, and `n` is at least the number of commands executed. A write or a
read moves a cut; `Send` puts a message behind the others (`RestLast`); a request consumed takes the first
message off, whatever was made of it (`ConsumesOne`): `HasRequest` reads the length that stands in front of that
message, because the server is between two of them.

### Replies and the keyspace (`KeyspaceProofs`)

Assumptions: `RequestsAssumption` (malformed requests name a command, unknown ones do not); names
are naturals (in the order of their strings), scores integers between minus and plus `Infinity` or NaN, ranks
integers, and no score means "not a member"; a value is a sequence, `NoSet` is no set. There may be infinitely many keys, values and
names: that a set has only finitely many members is part of the invariant.

* `ReplyRead`: `parse(serialize(r))` is `r` with nothing left, for every response that is a simple
  string or an error in one line, a number, a bulk string of any text, a null, or an array of such
  elements; and no proper prefix of the text is parsed to a response (`parse` returns false or
  throws), so that a part of a reply is never taken for a shorter one.
* `KeyspaceTypeOK`, `EveryReplyIsOneResponse` (`OneResponse`).
* `ImplementsStore` (`Refines`): every action is the action of `Store` with its answer, up to a
  `Misread`. For scores that may be infinite or NaN; of a set that has been given a NaN `Store` says which
  members and scores are listed, not in which order, and of a request that fails that it is refused, not
  by which type of response.

`ReplyRead` goes by the shape of a text: an opening (type, line, break) and, behind that of a bulk
string, as many units as its line says (`Written`). `ScalarRead` and `ScalarCut` are its two halves
for one response: whole with anything behind it, and cut. An array needs both at once, since a cut
may fall into any of its elements: `Sofar` says what `ParseArray` has after `i` elements when `n`
units have come, `OneElement` moves it by one, and `ArrayRead` is the induction. That the texts of
the elements, joined by `FlattenSeq`, are the text read so far and the rest is `BehindsExist`.

The invariant of the keyspace is

    KInv == Nodes /\ undefined \in BOOLEAN    (and OneResponse beside it)

where `Nodes` adds to the types that every set is finite, and that the scores of a set that is not
`disordered` are numbers. Without the first there need be no `Ranking`,
which `SortedSet` takes with CHOOSE: `RankedExists` shows by induction over the size of the set that
a finite set with a total order has one, and `MembersRanked` that score and name give that order.
The sets seen through the refinement are `Shown`; a command that creates an empty set leaves `Shown`
as it was (`LookedShown`). There is one lemma per command, `GetDone` to `MisreadDone`: its reply is
a response in the sense of `ReplyRead`, so the client's answer is that response, which is the one of
`Store`. `UnknownDone` is the exception that `OneResponse` makes: a name with a break in it ends the
line early (`Broken`), and the client reads the first part as the response, as `Store` says.

### The server (`ServerProofs`)

Assumptions: descriptors are a finite set of naturals, clients are naturals, sizes are positive.

`TypeCorrect`, `PoolMatching`, `PiecesAccounted`, `EndsOnly` and `ClosingOnlyLeft`: the five properties of the
run `server` that are not liveness. The invariant is

    TypeOK /\ PoolMatches /\ NothingLost /\ EndsOnlyAmidAnswer /\ Queued /\ Leaving /\ Asking

`Queued` says that a client waits to be accepted once and has no descriptor yet; without it two
descriptors could lead to one client, and `PoolMatches` would not be kept by `handle_accept`. `Leaving`
ties what the server sees of a socket to whether the client has left, so that an event reported
earlier in the turn still means the same when it is handled. `Asking` says
that a client which has left no text behind waits when its request is in the socket, and has not been
answered yet: that is what `NothingLost` needs when `ReadRequest` begins an answer. Of a client that has
gone on behind left-over text it says nothing: pieces of several answers may be under way, and only the sum
of `NothingLost` holds. The two actions that
write share the lemmas `WriteFacts` (how the pieces are divided, and when the program ends) and
`WriteKeeps`.

### Only model-checked

* Liveness under fairness, which is out of the prover's reach: `Terminates` of `HMap`, `Answered` of
  `Connection`, `Served` and `Reclaimed` of `Server`.
* `Balanced` of `AvlTree` as an invariant: it is false in general (run `avl_balance`), so only its
  preservation by insertions is proved.
* The second half of `FramesAligned` of `Connection`: while all requests of a client that sends ahead have one
  shape, each message consumed was executed. The first half is proved (`FramesWhole`).
* What `Server` does when more than one request of a client is in its socket: there `Connection` has the
  details, for one client.

## 5. What is not modelled

Left out for good: the logger (output only), `base.cpp` (empty), destructors (the server never ends
but by a signal), failing allocations, the wording of messages, the printing of parsed replies; the
functions that nothing calls, `Serializer::ok`, `nil` and the like (serializer.cpp:104-137) and the
streaming interface of `Deserializer` (`append_data`, and `pos_ = 0` of its error path,
deserializer.cpp:98, which matters only to a caller that tries again); a failing `socket`, `bind`,
`listen` or `poll`, after which the code logs and goes on with a descriptor of -1.

A request of no strings passes the parser, and `execute_command` reads `args[0]` of an empty vector
(command_dispatcher.cpp:59). The client sends none, so no module has one.

Composition: `HMap` and `ZSet` stand in `Keyspace` for the maps they implement, and `Keyspace` in
`Connection` for a command that is answered; `Server` has `Connection` as one request and one answer in
pieces. These steps are arguments of this text, not refinements that TLC has checked; to check
them, `Connection` would need errors and an end of its streams, and `Server` the data of `Connection`,
which together are more states than TLC can visit.

## 6. Running

    tlc -workers 2 -config HMap.cfg MCHMap.tla
    tlc -workers 2 -config AvlTree.cfg MCAvlTree.tla
    tlc -workers 2 -config AvlBalance.cfg MCAvlTree.tla
    tlc -workers 2 -config ZSet.cfg MCZSet.tla
    tlc -workers 2 -config ZSetNaN.cfg MCZSet.tla
    tlc -workers 2 -config Connection.cfg MCConnection.tla
    tlc -workers 2 -config PipelineOrder.cfg MCConnection.tla
    tlc -workers 2 -config LongRequest.cfg MCConnection.tla
    tlc -workers 2 -config Keyspace.cfg MCKeyspace.tla
    tlc -workers 2 -config Errors.cfg MCKeyspace.tla
    tlc -workers 2 -config Server.cfg Server.tla
    tlc -workers 2 -config Descriptors.cfg Server.tla
    tlapm DataLemmas.tla
    tlapm HMapProofs.tla
    tlapm AvlProofs.tla
    tlapm AvlTreeProofs.tla
    tlapm ZSetProofs.tla
    tlapm ConnectionProofs.tla
    tlapm KeyspaceProofs.tla
    tlapm ServerProofs.tla
