# Verification of kvs

TLA+ models of kvs, a small redis-like key-value server written in C: model-checking
runs for TLC, and theorems whose proofs TLAPS checks. Paths below are those of the
repository (`kvs_hash.c` is the file `src/src/kvs_hash.c` of this tree).

## 1. The system

One process, one thread. `main` (kvs_server.c) opens a listening socket, makes an event
loop of 100 descriptors over select, a hash table for the data and one for the commands,
and runs the loop for ever. A round of the loop asks select for the ready descriptors
and calls, for each, the callback registered for it: `accept_fd` for the listening
socket, `kvs_net_read` and `kvs_net_write` for a client. A read appends what has arrived
to the client's buffer, parses it, carries out a command on the table and leaves the
answer in the client's `wbuf`; the descriptor is then registered for writing too, until
the answer has been written. The command line client is a program of its own.

| component | files | state | operations |
|---|---|---|---|
| hash table | kvs_hash.c/.h | two bucket arrays with use counters, the migration index, chains | new, add, find, del, free; every one of add, find, del first moves a few buckets |
| connections and protocol | kvs_net.c/.h, kvs_common.h | per client: receive buffer, argv/argc, words still expected, flag, answer buffer | read, parse, write, new, free, reset |
| commands | kvs_command.c/.h | the command table; values in the hash table | set, get, del, append; seven list commands that only log |
| event loop | kvs_ev.c/.h | cache (mask, callbacks, user data per descriptor), the array of active entries, maxfd | new, add, del, cycle, resize, free |
| select and epoll backends | kvs_ev_select.c, kvs_ev_epoll.c | descriptor sets; the kernel's interest list and the array of events | new, add, del, cycle, resize, free |
| server start, accept | kvs_server.c, kvs_sock.c | listening descriptor | init, accept_fd |
| strings and buffers | kvs_str.c/.h | growing buffers, splitting of a line | append, sprintf, setrange, truncate, getrange, split |
| objects, lists | kvs_obj.c/.h, kvs_list.c/.h | typed values; a doubly linked list | new, free; add, add_tail, del, two loops |
| min-heap | kvs_minheap4.c/.h | array heap of arity 4 | new, add, del, free; not compiled, meant for timeouts |
| command line client | kvs_cli.c/.h | one connection, the arrays for a line and an answer | cut a line, format and send it, print the answer |
| log | kvs_log.c/.h | a file, a lock | write a line |

How they meet. The loop owns the descriptors and calls the callbacks; the callbacks call
back into `kvs_ev_add` and `kvs_ev_del` in the middle of a round, close descriptors, and
the kernel gives the same numbers to new connections. The parser keeps part of its state
in the connection and part in local variables. The commands share one table between all
clients, drive its migration, and hand the values of requests over to it.

What is hard here, and what makes each part correct:

* *Hash table.* The migration is spread over later operations and is driven by counters
  that three functions maintain. Correct: a dictionary at every moment; no key is lost
  by a swap; the migration ends before the new table is overfull.
* *Connections.* TCP cuts and joins requests; clients leave at any moment; sockets take
  part of an answer. Correct: the commands carried out are those sent, in order, each
  answered to its sender.
* *Event loop.* What select found may be out of date when its turn comes, because an
  earlier callback of the round closed, opened or registered something. Correct: a
  callback runs only for the connection that has the descriptor now, and no ready
  descriptor is passed over for ever.
* *Arrays and blocks.* Buffers, the heap and the arrays of the loop believe sizes that
  are not always those of their blocks. Correct: nothing outside a block is touched, and
  where that cannot be had, only the calls that are named bring it about.
* *Values and nodes.* A value passes through four owners and a node can be freed while a
  loop is at it. Correct: freed once, not used afterwards, not forgotten.
* *Client and log.* Arrays are not cleared between lines, reads may take a part of an
  answer, and threads share the log's descriptor.

PROJECT.json lists these as hazards, each at its line with the properties about it.

## 2. The modules

| module | models | abstract view |
|---|---|---|
| KvsMap | what kvs_hash.h promises: a dictionary | |
| KvsHash, KvsHashHistory | kvs_hash.c; the same with the keys its callers have stored | implements KvsMap |
| KvsProtocol, KvsCommand | the request format, `kvs_net_parse` and the commands (operators) | |
| KvsKv | what a client is promised: requests carried out atomically, answered to the sender | |
| KvsServer | clients, streams, connections, callbacks | implements KvsKv |
| KvsEv | the event loop, select and epoll, accept | |
| KvsEvSize | the arrays of the loop, `kvs_ev_resize`, and rounds whose callbacks make any calls | |
| KvsObj | who owns the values, from the request to the table and out of it | |
| KvsText | what a buffer of kvs_str.h is: a text | |
| KvsStr, KvsBuf | the calls on the buffers (operators); one buffer and its users | implements KvsText |
| KvsSplit | the client's line and `kvs_strs_split` | |
| KvsMarshal | `marshal`, the client's request, over KvsStr | |
| KvsCli | the client's conversation: send, one read, print | |
| KvsLog | `kvs_log` called by several threads | |
| KvsTexts | KvsBuf, KvsSplit, KvsMarshal, KvsCli and KvsLog side by side | |
| KvsQueue | what the min-heap is: a bag from which the least is taken | |
| KvsMinheap | kvs_minheap4.c | implements KvsQueue |
| KvsSequence | what the list is: a sequence | |
| KvsList | kvs_list.c and the loops of kvs_list.h | implements KvsSequence |
| *Proofs | the theorems, see section 4 | |
| MC* | values of the constants for TLC | |

The state machines compose by assumption and guarantee. KvsServer keeps the values in a
dictionary, which is what KvsHash is shown to implement, and leaves out who frees them,
which is KvsObj. KvsServer lets any callback whose descriptor is ready run next, and
assumes that none waits for ever, which is what KvsEv shows of the loop. KvsEv reduces
the callbacks to what they do to descriptors, and keeps the size fixed; KvsEvSize changes
it. KvsMarshal is built from the very operators of KvsStr that KvsBuf is checked with.

### KvsHash

`h` is `kvs_hash_t`. A node is named by its key, since an insertion follows a search of
both tables; `at[k]` says in which table's chain the node is, `rank[k]` its place in the
chain (nodes are linked at the head), `val[k]` its value. `buckets` and `expand_buckets`
keep size and use counter. `index` is the migration index, -1 (`KVS_UNUSED`) at rest.

`kvs_hash_rehash` moves the nodes of a bucket one by one to the new table but does not
clear the bucket's head. That head is stale from then on: it points to what is now a
node of a chain of the new table, and a search of the old table walks from there.
`stale` is the set of nodes such heads point to. A node found that way is reported as
found in the old table, so `kvs_hash_del` takes one off the old table's counter for a
node of the new table. `dangling` holds nodes freed while a stale head still reaches
them. The history variable `aliased` records that an operation went through a stale head.

An operation is one action and contains all it calls: resize, rehash, both searches, the
insertion or removal, the failing allocations (`AllocFails`). `Fault` is the use of freed
memory and the walk round a cycle. With `AliasedOps = FALSE` callers never delete through
a stale head, which is the condition under which the table is a dictionary; with
`AliasedOps = TRUE` it is the code as it is.

### KvsProtocol, KvsCommand, KvsServer

A stream is a sequence of pieces: `*n`, `$n`, CRLF, a word. `Parsed(c)` is the set of
connections `kvs_net_parse` may leave. It is a set because the parser copies a word as
soon as its length has arrived, and when the word's bytes, or the CRLF behind it, have
not, it goes on in bytes that an older request left in the buffer: these may read as any
word of `Leftover`, or stop the parser.

`conn[c]` is the `kvs_client_t`: `rbuf`, `nargs`, `argv`, `argc`, the flag `ok`, `wbuf`
(NoReply while `wpos` is 0), `open` and `want` for the registrations for reading and
writing. `Read` is `kvs_net_read` as a whole: everything that has arrived, then EAGAIN,
the end of file, or the error of a reset connection; the parser; the command; the
clearing of buffer and argc; and the closing. `Write`, `WritePart` and `WriteFails` are
`kvs_net_write`. `Send`, `Receive` and `Leave` are the client. A client that leaves with
an answer unread resets the connection; the second write to a reset connection raises
SIGPIPE and ends the process (status `killed`). Reading an element of argv that nobody
filled is undefined behaviour (status `fault`).

`net` is chosen in Init and says what clients and network of a behaviour are like: who
connects, what they send, how many requests may be without an answer, whose requests
arrive in parts, and whether a socket may take part of an answer. A net is `Orderly` when
requests arrive whole, with the words their commands look at, one at a time; the
promises of KvsKv are about such nets, the other properties about all. `cut[c]` records
that a read found anything but exactly one request, or that a write was cut short.

### KvsEv and KvsEvSize

`ev` is `kvs_ev_t` with what the backend `ev.api` watches; `active`, `n`, `i` and `pc` are
the state of `kvs_ev_cycle`: between rounds, before the callback for reading, before the
one for writing. `file` is the kernel's descriptor table: accept gives the lowest free
descriptor. The masks of `active` only grow, and with select `n` counts events while
entries are filled per descriptor, so old entries are visited again: both are modelled as
they are. An entry beyond the array, or one whose descriptor was never stored (`Wild`),
ends in `fault`; a callback called for a connection that does not have the descriptor
ends in `astray`.

`BackendAdd` and `BackendDel` are the two backends. `kvs_ev_epoll_del`, when one of two
events remains, gives epoll the event that is to go: a connection whose answer was written
is from then on watched for writing only. This is the case `Deaf` in `CacheMatchesKernel`
and the exception in `InputIsHandled`. The server asks for select, which has no such case.

KvsEvSize keeps, for each array, the entries the code believes it has (`size`) and the
entries it has (`room`), and lets every malloc and realloc fail. `kvs_ev_epoll_resize`
gives realloc a number of events as a number of bytes; `kvs_ev_resize` may fail between
cache and active (`torn`); the masks of entries added to active get no value (`raw`).
A round is a `Round` of the backend and a `Visit` and a `VisitSecond` per entry; its
callbacks may add, delete and resize between the steps. `n` is what select or epoll_wait
returned: select counts a descriptor that is ready for both events twice while one entry is
stored for it (`twice`), so a visit may be of an entry beyond `active` (status `overrun`), or
of one whose descriptor malloc left as it was (`wild`). `moved` says that the callback for
reading had the array moved into which `kvs_ev_cycle` still has a pointer (`stale`). An
fd_set has 8 * `SetBytes` bits, and nothing in `kvs_ev_select_add` looks for its end.

### KvsObj

An object is the `kvs_obj_t`, its `kvs_buf_t` and the bytes; `held` says which of these
blocks are allocated. `table` is the pointer under each key and `argv2` what `argv[2]` of
each client points to. A command is one action with the request that brought its value.
`kvs_hash_add` and `kvs_buf_append` may fail for want of memory and the commands answer OK
all the same: `starved` are the keys this happened to. `kvs_obj_free` never frees the
`kvs_buf_t`, so what remains of a value that is gone is exactly that block.

### KvsStr, KvsBuf, KvsMarshal

A buffer is `p`, `len`, `alloc` as in the code, and `mem`, the block itself, whose size
may differ from `alloc`. The operators of KvsStr are the calls, whole, with the failing
allocation as a parameter. `kvs_buf_append_sprintf` compares the length of the text with
`alloc` and not with the room left, and counts a text that was cut in full: `Spoils` is
this case, and the one in which a block could not grow. KvsBuf stops there; KvsMarshal
goes on, because the client does, with requests whose pieces meet the end of the 64-byte
array and of every block that follows it. There a negative room is taken for a huge one.

### KvsSplit, KvsCli, KvsLog

KvsSplit has the client's array byte by byte, with the rest of an older line behind the
terminator of a shorter one, and `kvs_strs_t` with the elements its block really has: the
recorded capacity starts at 0 and is only ever doubled, so every word asks for a block of
one element, and each word behind the first is stored behind the block. The separators to
skip are counted at the start of the line for every word.

KvsCli has the array `val`, where a byte is known by the request it answers: a byte of an
older answer in what is printed is told apart; a number is one byte. The read may take all,
what fits, or what has come; `late` says whether a read has left a part of an answer: never,
in the read just made, or before it. KvsLog has one action per system call or loop round of a thread, and the output
as pieces of lines; a line is the length of its title and that of its text. The program starts
no threads of its own: the threads are the callers that KVS_LOG_ATOMIC is there for.

### KvsMinheap, KvsList

`kvs_minheap_add` and `_del` are one step up to their loops and one step per turn of a
loop. `nalloc` is what the code takes for the size of the array, `slots` what realloc was
given: the same number, as bytes. `Children` and `BestChild` are the comparisons by pairs.

KvsList has `next` and `prev`, the allocated nodes, and one loop at a time, `each` or
`safe`, whose body may add, delete and free. `Walk` is the list as a sequence: the nodes
along `next`, from the first up to the first return to the list itself. `tame` says that the body took out only the
node it was at, and freed it only in the safe loop, as kvs_list_tst.c does.

## 3. The runs

| run | question | bounds | distinct states |
|---|---|---|---|
| hash_is_a_map | is the table a dictionary that loses no key, if no deletion goes through a stale head? | 5 keys on sizes 1, 2, 4; one bucket moved per operation; allocations fail | 73 997 |
| hash_as_it_is | do counters stay exact, memory sound and expansions timely until a stale head is used? | 6 keys, sizes 2 to 8, two buckets per operation | 6 075 |
| hash_loses_keys | violated: does del say "absent" of absent keys only? | 5 keys, sizes 1 to 8 | |
| server_serves | do clients see an atomic store and get their answers, and what holds when requests are cut, joined or malformed? | 2 orderly clients sharing a key, or one client cut anywhere; 2 requests each | 116 295 |
| server_argv | violated: does argv hold the words that were sent? | 1 client, 1 request | |
| ev_loop | do cache, kernel and open descriptors stay in step? | select and epoll, 3 entries, 4 descriptors, 3 connections | 776 991 |
| ev_serves | is every ready descriptor visited, every connection accepted? | select and epoll, 2 connections, interrupted selects | 29 715 |
| texts_in_arrays | are buffers texts, lines their words, requests as formatted, answers as sent, log lines whole? | see below | 282 712 |
| heap_is_a_queue | does the least item come out, and is the heap a bag? | an array of 8, items 1 to 3 | 264 089 |
| loops_over_lists | is the list a sequence, and do loops over it survive their bodies? | 3 nodes, loops of up to 4 nodes | 1 037 002 |
| values_have_owners | is every value freed once and not used afterwards? | 2 clients, 2 keys, 5 values, up to symmetry | 542 |
| ev_arrays | does the loop stay in its arrays, across resizes and in rounds whose callbacks resize? | sizes 0, 1, 2, 3, 26; 3 descriptors; an fd_set of 3 bytes | 415 999 |

`texts_in_arrays` checks KvsTexts, five components side by side that share no state: `part`
says which one a behaviour is about. Buffers: an array of 2, texts of up to 3 bytes, offsets -2 to 1,
a failing allocation anywhere. Lines: every line of up to five bytes over an array of 8,
one after the other. Requests: the code's array of 64 bytes, two and three words, every
length around the places where a piece meets the end of the array, of the doubled block
or of a block made to measure. Answers: an array of 8, answers shorter, as long as it with
and without their terminator, longer, nil, and none. Log: two threads, an array of 4,
titles that leave room, fill the array, or do not fit.

Why the bounds are enough. *Hash*: keys hash to themselves, chosen so that chains of two
and three nodes form, a migration takes several operations, a second expansion follows
the first, and a stale head points into a chain with nodes in front of it and behind it.
Moving 1 or 2 buckets per operation instead of 10 only lengthens the migration relative to
the table. *Server*: a request of three words has 14 pieces, every prefix of it is a
possible arrival; two requests are what it takes for a leftover of one to meet the other;
two clients for one to disturb the other. *Loop*: with three entries both clients below
the size and one above it occur, a round may count more events than there are entries, and
descriptors are closed and used again within a round; in ev_serves the size is 5, so that
no round leaves the array and every behaviour goes on. *Heap*: eight slots are three levels,
the last parent has fewer than four children at most fillings, growing (at 8) and shrinking
(at 4) both occur. *List*: three nodes give a node on either side of the one deleted.
*Values*: five values fill both keys, replace both and leave one in a request. *Arrays*:
26 bytes hold two events, so a loop of 26 that was resized has room for fewer than it believes; 26
is also beyond an fd_set of three bytes, as a descriptor of 24 is, which both are in the
code from 129 and 1024 on. Three descriptors, two of them below every size but 0 and 1, are
ready for both events in a loop of 1, 2 and 3 entries.

Fairness. `KeepsCalling` (KvsHash): operations keep coming, since only operations drive a
migration; nothing is promised of a server without commands. KvsServer: weak fairness of
reading, writing and receiving for every client; the loop visits every ready descriptor
(ev_serves), sockets are level-triggered, and a client waits for its answer. KvsEv: the
process runs, and select is not interrupted for ever; weak fairness is enough, since
nothing but the loop itself disables its steps. KvsCli: the server answers what it has
read, and a client with something to read reads it.

CHECK_DEADLOCK is FALSE throughout: a freed table, clients that have finished or wait for
an answer that never comes, and a process that has died do nothing more.

### What the violated runs show

*hash_loses_keys.* `kvs_hash.c:279` says -1 means that the key was not found. With a stale
head: expand, let one bucket move, delete a moved key that its old head still points to.
The old table's counter (line 293) reaches zero while a node is still in it, the next
operation frees the old table (line 141), and deleting that node's key returns -1.

*server_argv.* `README.md:20-21` says that a client's command is found in argv, and argc
counts its arguments. `kvs_net_read` passes the words of one parser call to
`kvs_command_process`, which refuses an incomplete request; it then sets argc to 0 and
empties the buffer all the same (lines 191-195), while `nargs` remembers how many words
are missing. `set k get` in two parts, cut behind `set`, is carried out as the command `k`.

### What the conditions of the passing properties say

Many properties hold up to a named event, and the event is the interesting part. Each one
really happens in the run that checks the property.

* `SentUnlessSpoilt`: a request of 64 bytes or more may go out with a piece missing, or
  with bytes nobody wrote, because the formatted pieces do not look at the room left.
* `WordsAreTheLine`: no line of more than one word is cut without a store behind the block;
  with separators in front of a line, words are skipped and the loop
  runs on into the rest of an older line; every word but the first is stored behind the
  block of one element, which may end the client (then nothing is promised).
* `ShownIsAnswer`: the first read that takes a part of an answer prints no more than the answer
  has, though bytes of an older one may stand at the end of it; from then on every answer is
  shifted and nothing is promised. An answer as long as the array is terminated behind it.
  That a number is one byte hides the parts cut inside a number.
* `Prompted`: a list command has no answer; the client waits for ever, and the server for it
  (`BothWait`). Nothing else brings them there, not even answers cut anywhere: behind a
  byte that was left, no read waits (`BothWaitOnlyUnanswered`, a theorem).
* `AnswerIsScheduled`: an answer that a socket took in part stays registered, and the
  next write sends it again from its start: the client sees more bytes than the answer has.
* `ImplementsQueue`: growing cuts the array to an eighth of what was asked for; the
  promise ends with the first change of size.
* `FaultsAreEarned`, `FaultNeedsCrowd`: when the loop leaves its arrays, or
  goes by a descriptor or mask nobody stored. In the server,
  which never resizes and has 100 entries, it takes about fifty clients, or one that is ready
  for both events while an entry of `active` still holds what malloc left there.
* `ServedUnlessTooHigh`: the descriptor of a client beyond the array stays open, unserved.
* `StaysUp`: a client that pipelines and leaves can end the process by SIGPIPE; one that
  sends too few words makes a command read an argv element nobody filled.

## 4. The proofs

Eight modules. Every theorem holds for every value of the constants that satisfies the
named assumptions of its module and the hypotheses it states, and every safety property
and every refinement of the passing runs is a theorem. Each module has an inductive
invariant (`IInv`, or one for each part), a lemma per action that it is kept, and the
theorems that follow from it.

**KvsHashProofs** (any keys, values, hash function, family of sizes that divide each
other, step). `TypeCorrectness`; `CountersAreExact`, `PassedBucketsAreEmpty` and
`FaultsNeedAliasing` are the invariants of the runs; `ImplementsDictionary` and
`NoKeyIsLost` are `ImplementsMap` and `NothingLost` under `AliasedOps = FALSE`. The
condition is needed: hash_loses_keys refutes the same without it. None of the invariants is
inductive. The swap (line 141) frees the old table when its counter is zero, so that no key
is lost needs the counter to be exact (`Exact`). Exactness fails as soon as a node is found
in the wrong table, so the migration must leave nothing behind it: buckets above the index
hold no node (`Passed`), also after the index has run down to -1, which is the mark of a
table at rest too; the two cases are told apart by the stale heads, which only exist behind
the index (`StaleArePassed`). Then a rehash never meets a stale head, which is why no fault
comes from it, and a search that starts at one is an operation through a stale head,
recorded in `aliased`. That a node has a value exactly when it is in a table (`Valued`)
gives the mapping to the dictionary.

`LoadStaysBounded` is about pace. A call inserts one node at most and moves `Step` buckets.
`TimelyFor(s, n)` says that twice the nodes added since the expansion began are no more
than the buckets passed since, with `n` nodes still to come; a call moves first and
inserts then, so a migration of two buckets a call pays for its node, and is through before
the new table, of twice the size, holds more nodes than it has buckets. Hypotheses
(`PaceAssumed`): memory is not refused, the step is 2 or more (10 in the code), sizes are 2
or more (8 at first), and there is a size of twice any size smaller than the number of
keys (the code doubles).

**KvsServerProofs** (any clients, words, requests, networks and bounds). `ShapeHolds` is
the type invariant; the sequences of a stream hold pieces of several kinds, and are taken as
sequences over their own elements (`IsSeq`). `AnswersAreScheduled` follows from it, but for
an answer of which a part was taken: that the last piece on its way back is a part only
while the connection waits for writing is kept by every action (`Kept`), since no reply is
itself a part.
`NoAnswerTwice` counts whole answers: those received, on their way and in `wbuf` are never
more than the commands carried out for the client (`Earned`). `LostPlaceIsLost` is `StuckForGood`: with no
count and nothing but pieces that are no header the parser consumes nothing, and never will.
`RunsWhatWasSent` is about a client whose reads found one whole request each, beside any
others: `Lines` says that the stream still is the pieces of the requests not yet carried
out, with a place where each of them ends (`Ends`), unless a reset lost them; so a read that
finds one request takes the pieces up to the next such place, and the parser gives the words
that were sent. `ServerStaysUp` and
`ServerImplementsKv` need more of the orderly nets (`AllTidy`): at most one request of a
client is without an answer, and it is on its way, or its answer waits in `wbuf`, or is on
its way back. This is why no answer is overwritten, no second write meets a reset
connection, and the parser never meets leftovers. In the refinement accept, send, the read
that carries out a command, receive and leave are KvsKv's Come, Ask, Do, Take and Go; other
steps stutter.

**KvsEvProofs** (any size, number of descriptors and connections, either backend).
`KernelAgrees`, `ClientsAreOwn`, `NoneAstray`, `AllServed`, `CrowdsAtFault`. The invariant
has two halves. `Sound` speaks of the registrations and the open descriptors, entry by
entry: cache and kernel agree, or epoll has made the entry deaf; an entry with events is
an open descriptor with its own client. Only accept and the callbacks change it, one
descriptor at a time, so it is enough to follow one entry (`Entered`). `Round` speaks of
the array `active`: which entries were ever filled, how many visits a round has left
(twice the descriptors up to `maxfd` at the most), and that a fault needs an entry beyond
the array or never filled. That nobody is visited astray needs both halves: what select
found may be out of date, but an entry whose descriptor was closed, or opened again, has
the events of the present connection in the cache, and the callback is taken from there.

**KvsTextsProofs** (any array, texts, lines, words, answers, threads). One invariant for
each of the five components, and at the end the theorems of `PartsSpec`, where the
components are side by side.

* *Log.* `LinesOfTheLog`. The pieces of the line being written are the last of the output,
  which only the holder of the lock adds to; a line's room is the array, or a block made
  to measure.
* *Buffers.* `TextStaysInBlock` and `BufferImplementsText`, for texts over any set of
  characters (`TextsAssumed`). The invariant is `Sound => Good(b)`: `alloc` is the size of
  the block, the text ends before it and a NUL follows. The NUL is needed because
  `kvs_buf_truncate` does not move it. Inside a call the text of the buffer is for a moment
  longer or shorter than `len` says; `Opened` is what holds there.
* *Answers.* `AnswersOfTheClient`, `WaitsOfTheClient`. While no read left a part behind, there
  is one request or one answer on its way (`OnTheWay`); what the array holds is older than the
  answer that is awaited, and its last byte is a terminator (`ValHeld`), which ends the text
  of a first part (`PartPrints`). For the second theorem no such condition is needed: behind
  the last line there is its request, some byte, or no answer to come (`WaitInv`).
* *Words.* `WordsOfTheClient`. What was cut so far, put together again, is the line up to
  the separator in front of the place the cutting is at (`CutTo`). The words lie in the
  array, so that it holds only until the next line is read, and only while the line does
  not begin with a separator.
* *Requests.* `RequestsOfTheClient`. What the buffer holds is the request up to the step
  that marshal is at (`Sofar`), as long as no word was refused memory; then it is shorter.
  A formatted piece has 7 bytes at most and always passes the comparison with `alloc`, so
  that it is cut only when the text and the piece fill the block, which is never smaller
  than the array. That words have less than 10 000 bytes is all that is assumed of them
  beside the size of the array (`MarshalAssumption`); a line has 1023.

The last two join sequences with `FlattenSeq`, a recursive function, and the provers know
of such a function only that it is chosen among those that fulfil its equation. That there
is one is shown by a least counterexample (`JoinsExists`), and that two agree as far as
their arguments do in the same way (`JoinsOne`); one more sequence at the end is then put
behind the rest (`JoinedMore`).

**KvsMinheapProofs** (any KVS_MIN_SIZE and items). `OrderIsKept`: between calls no item is
less than its parent; `LeastIsTaken`: what is given back is the least of all items, the
property `LeastGoesFirst` of the run; `FaultsAreEarned`: without a change of size the heap
stays in its array. While an item rises or sinks the order is broken at that item only, and
its parent could take its place above (below) its neighbours: `UpOrder` and `DownOrder`
say this, and make the order inductive. That the root is the least item is an induction
along the parents, done by a least counterexample (`LeastNat`, from the library's well-founded
order of the naturals). `HeapImplementsQueue` is the refinement: the items of the array,
counted by value, are the bag. A call that exchanges two places changes no count; while an
item sinks, the copy of it that the call left behind the last item is not counted
(`Copy`); and a heap that left its array is never whole again, and was resized.

**KvsListProofs** (any nodes; the last two: finitely many). `DirectionsAgree`,
`LoopsTouchTheLiving`. That the two directions agree at every member does not exclude a
second circle of members beside the list, in which a loop could be left; the invariant has
a number for each node that grows along `next` (`Ordered`), and where the loops may be
(`Placed`). `ListImplementsSequence` and `LoopsVisitAll` speak of `Walk`, a recursive
function again, and its first return to the list: with finitely many members there is one,
and nodes before it are distinct, since `next` is one to one. An insertion or deletion
then changes the walk at one place. For the loop, what is still to come lies without a gap
from its next node on to the end.

**KvsObjProofs** (any clients, keys, values). `ValuesHaveOneOwner`, `ValuesAreNotMisused`,
`AnswersAreStored`, `ReplacedAreFreed`. They are inductive together with one fact
about the connections, that what `argv[2]` points to was made (`ArgvMade`): otherwise a
freed value could come into the table a second time.

**KvsEvSizeProofs** (any sizes, descriptors, fd_set and events). `EntriesAreKept`,
`VisitsAreInside`, `EarnsItsFaults`. `Roomy` says which arrays have how many entries while the
loop is in order, torn, or resized over epoll, and that no descriptor registered or stored is
above `maxfd`, which no resize goes below; `Clean` where masks nobody set may be. `Rounds`
speaks of the round: unless a descriptor is counted twice, `n` is at most `maxfd` + 1, with
an entry stored for each, so that a callback that resizes cannot cut off what is yet to be
visited. That the count of a round is so bounded is from the cardinalities of the library's
finite sets (`FewReady`): select counts the two sets apart, epoll their union.

Only model-checked: the liveness properties `ExpansionCompletes`, `Answered`,
`InputIsHandled`, `WaitingIsAccepted` and `Prompted`. They need fairness and ENABLED, which
the provers do not treat. That the parser and the commands, which are operators, do
what the code does is a matter of reading them beside it.

## 5. Not modelled, and why

* Bytes inside a piece, and what log lines say: no property depends on them. A word that
  begins with `*` or `$` is a word like others; on a connection that has lost its place, where
  the code might take it for a header, KvsServer does not (`StuckForGood`).
* Requests of too few words in KvsObj: after an append `argv[2]` still points to the value of
  the request, and such a request could hand it in again. It is whole then, and handed over once.
* The client_t and argv that `kvs_net_read` and the parser leak: nothing reads them again.
  Failing allocations in kvs_net.c.
* `kvs_ev_stop`: it sets a field that nothing reads.
* The masks of `cache` and `maxfd`, which come from malloc without a value: taken to be zero.
* The length that `accept_fd` gives to accept and never sets (kvs_server.c:45): where it
  reads as a negative number accept fails and the client is not served. Every accept is
  taken to succeed.
* `kvs_str_new` and `_free`, `kvs_strs_new` and `_free` and the copying form of
  `kvs_strs_split`: only a test program calls them. Objects that hold a list: no command
  makes one. `kvs_list_new` returns NULL whatever it allocated, `kvs_list_free` is empty.
* kqueue: not compiled. Sockets, names and ports (kvs_sock.c): calls of the system only.
* The test programs and the build script.

## 6. The plan

Done: every component of section 1 but those of section 5, with its abstract view where
it has one, and the proofs of all their safety properties. Left, in this order:

1. The composition of KvsSplit with KvsMarshal, from the line to the request: with the
   theorems on both, what the client sends is its line, or the request was longer than the
   array.
2. The composition of KvsServer with KvsHash in place of the dictionary, on a small table.
