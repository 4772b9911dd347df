# A TLA+ development of memuncached

memuncached is a small in-memory cache server in C. A client connects over
TCP and sends command lines; the server keeps one hash table for all clients
and runs one detached POSIX thread for each connection. This directory holds
TLA+ modules of the parts that carry the server's logic, TLC configurations
that check them on small instances, and proofs, checked by TLAPS, of what
holds for every instance.

Line references such as `connection.c:448` are to the files in `src/`.

## The system

| Component | State it keeps | Operations | Used by |
|---|---|---|---|
| Cache table (`hash_table.c`) | 1024 slots, each NULL or one cell (key, type, pointer to a value); a count of the cells in use | create, get, set, inc, dec, del, destroy | the handlers |
| Command handlers (`connection.c:149-481`) | none of their own | GET SET ADD DEL INC DEC STT VER BYE | the session |
| Connection session (`connection.c:12-133`) | receive buffer, command buffer, the connection's struct | receive, assemble a line, dispatch, clean up | one thread each |
| Server lifecycle (`server.c`) | `is_running`, the listening socket | accept, spawn, register, SIGINT, shut down | main |
| Client registry (`vector.c`) | array of connections, size, count, a mutex | insert, remove, lock, timed lock | main and sessions |
| Client library (`libmemuncached.c`) | a socket, a growing line buffer | one call per command, parse a reply | programs |
| Argument syntax (`utils.h`) | none | tests for decimal and real text, escaping | handlers |
| Hash (`fnv.c`), logging, build, demo | none | | |

How they interact. Main and all sessions share four globals: the flag
`is_running`, the registry `clients` (which has a lock), the cache `table`
(which has none), and the C heap. A connection's struct is allocated by main,
passed to the new thread and *then* inserted in the registry; it is freed by
the thread, or by main at shutdown, whoever comes first. `is_running` is cleared by a
signal handler; each session also has a flag `is_thread_running`, cleared by BYE.

What is hard here:

- the table has no lock, so handlers of different threads interleave
  statement by statement: pointers may be followed after they were freed, or
  before they were set, and counter updates can be lost;
- the table compares no keys: two keys of one slot are one key;
- a handler is several steps (delete, test TYPE, insert), and each step can be
  the last one;
- the numbers convert between `int64_t` and `double` at several places;
- a connection's struct has two owners during accept and during shutdown, and
  is looked up by a thread id the system uses again;
- the only wait with a time limit (the registry's lock) gives up silently;
- a connection that has ended must be noticed; a shutdown must end;
- TCP cuts the stream anywhere, and both ends parse in place, in buffers that
  grow: where a payload begins, which bytes of a line are payload, and whether a
  string has its zero depend on the cut.

What makes each component correct:

- *Table and handlers, one client at a time*: a key-value store in which each
  command takes effect at one moment and for its own slot; the count is the
  number of cells; a refused command changes nothing; a DECIMAL is whole.
- *Handlers on threads*: no undefined behaviour, no leak, and each command still
  atomic, when clients stay off each other's slots; nothing of the kind when
  they do not.
- *Registry and lifecycle*: each thread works on an allocated connection of its
  own; the registry lists exactly the connections there are; BYE ends the
  thread, and SIGINT the server.
- *Session*: commands and payloads come out as they were sent, however TCP cuts
  the stream; a request that does not arrive whole does nothing; no chunk lands
  outside its buffer.
- *Library*: a call returns, and returns what the reply to this call says; request
  and reply stay in step. *Both together*: the program sees a key-value store.

## The modules

| Module | What it is |
|---|---|
| `Protocol` | values, requests, replies; the conversions of `memuncached_set`, `_inc`, `_dec` |
| `KeyValueStore` | abstract: what the cache promises clients |
| `Cache` | `hash_table.c` and the handlers, each handler one step |
| `CacheThreads` | the same handlers, one access to shared memory per step, on an explicit heap |
| `Vector` | `vector.c`, as operators on the struct |
| `Server` | main, the threads' lives, the registry and its lock, SIGINT and SIGPIPE |
| `Wire` | one connection as bytes; replies as written; `utils.h` on a word |
| `Session` | the server's side of a connection, byte by byte: `connection.c:31-114`, and the parsing and payload loop of `handle_command` and `memuncached_set` |
| `Library` | `libmemuncached.c`: requests, the greeting, `memuncached_recv` |
| `Link` | `Session` and `Library` composed over TCP; a program may die, a server stop |
| `ProtocolProofs` | lemmas about the values and conversions of `Protocol` |
| `CacheProofs` | theorems about `Cache` |
| `ThreadsProofs` | theorems about `CacheThreads`, however its threads share keys |
| `OwnersProofs` | theorems about `CacheThreads` when no two threads share a slot |
| `VectorProofs`, `ServerProofs` | lemmas about `Vector`, theorems about `Server` |
| `LinkProofs` | theorems about `Link`: types and buffers |
| `ExchangeProofs` | theorems about `Link`: a call, its request and its reply |
| `MCCache`, `MCThreads`, `MCLink` | instances for TLC (`Server` needs none) |

**Protocol.** Keys and texts are model values. A number is counted in halves
(`Unit = 2`), so that 1.5 is 3: one fractional digit is enough to see where the
code truncates. A text that is no number (`Word`) reads as zero, as `atoll` and
`atof` read it. A numeral such as INITIAL also records the place of its decimal
point, since `connection.c:369` decides DECIMAL or REAL by the second character.
TYPE is its first character. Integers are unbounded: `int64_t` overflow and the
rounding of `double` above 2^53 are outside the module.

**Cache.** The table is a function from slots to a cell or NULL, with the count
beside it. `Hash` is a constant, any function from keys to slots. There is an
operator per C function, with the C function's name, and an action per command;
`Send` is the arrival of a command line with its payload, `ReadFailed` a `recv`
error while the payload is read (`connection.c:436-446`).

**CacheThreads.** `slot`, `cell` and `block` are the memory; `malloc` picks any
free cell or block, so memory is used again at once; fresh memory holds `Junk`.
`reg` is a thread's local variables. `count++` is a load and a store. A
dereference of a null, junk or freed pointer, a double free, or the use of a
string as a number sets `fault`, and the model stops: the C standard promises
nothing after it. `before` is a history variable that only the refinement
mapping reads.

**Vector and Server.** The array of a `Vector` has the domain that is really
allocated: `vector.c:48` doubles `size` before it knows whether `realloc`
succeeds, so `size` may claim more than there is (`Overstated`). In `Server`,
`main` is where main stands and the connection in its hand; `thread[t]` the
same for a thread; `client` the structs, which are reused like memory and like
thread ids; `sock` the connection's socket together with what waits to be read.
A received line is either BYE or some other command: what the latter does is the
business of `Cache`. `astray` is a history variable, set when a thread's clean-up
(`connection.c:116-130`) finds no entry for its connection, another's, or its
own while main has yet to finish with the struct. Closing: main frees every
registered struct under the lock, destroys the table and then the registry, and
returns, which ends the threads wherever they are.

System calls are modelled by what the callers can see: `accept` and
`pthread_create` may fail; `recv` blocks while the peer is silent; a write to a
peer that has gone may raise SIGPIPE, which is not caught and ends the
process (`Sigpipe`); `server.c` asks for XSI `signal` semantics, so the SIGINT
handler is in place once, does not restart `accept`, and a second SIGINT kills
(`Sigint`). A SIGINT between main's test of `is_running` and `accept` leaves main
waiting for one more connection; the model has that behaviour, and no
property says it ends.

**Wire, Session, Library and Link.** These are about one connection, and about
bytes. A byte is a natural number; every word (a command, a key, a number, a
reply's code) is one byte long where the program is right, and what the code
tells apart is kept: blank, carriage return, line feed, the zero at the end
of a string, signs, digits, and `JUNK` for memory that nobody wrote. Numbers
are single digits. `inbox` and `outbox` are the two directions of the connection;
`recv` returns any non-empty beginning of them, up to what was asked for.

In `Session`, `Recv` is one turn of the loop at `connection.c:39-87`: the chunk is
appended, the buffer doubled when no byte is left free, and with a line feed
the line is trimmed and handed to `handle_command`. `Line` finds the words as
`put_null_terminator_unknown_size` does, `Acceptable` is the checks of
`handle_command`, one disjunct for each command; `StartPut`, `RecvPayload`,
`PayloadFails` and `memuncached_set` are the payload's loop and what follows.
Undefined behaviour is a value of `fault`: "unterminated" (no zero in the command
buffer), "underread" (the trimming of an empty line), "overread" and "overflow"
(the payload's first bytes are taken from, or copied to, beyond a buffer).
The store here holds values under keys: hashing and other threads are the
business of `Cache` and `CacheThreads`.

In `Library`, `Begin` writes the request; each turn of `memuncached_recv` takes a
chunk, looks for a line (`StatusLine`, then `LengthLine`), counts the payload,
and returns, grows or goes on. `rx.start` is `line_start`, kept as an index and
marked `stale` once `realloc` moved the buffer; using it then is the fault "stale".
`room` is what is allocated, `buffer_size` what the code takes it to be: they
part when `realloc` fails. "underrun" is a zero written before the buffer.

`Link` adds the world: the program dies (`HangUp`, and any part of what it wrote
still arrives), the server's process ends (`ServerStops`), the peer's reset makes
`recv` fail in the middle of a payload (`Reset`), the server is out of memory
(`Shortage`), the library is (`Grow`). Three history variables serve the
properties: `odd`, the incidents after which less is promised; `torn`, whether a
request arrived in part only; `answered`, the last reply.

## The runs

Passing runs:

| Run | Question | Instance |
|---|---|---|
| `cache_slots` | Is the cache, a command at a time, a store of slots? Is the count exact, are DECIMALs whole, do failures change nothing, is every request answered? | 2 clients, 3 keys on 2 slots (two share one), every command with accepted and refused arguments |
| `threads_alone` | Do the statement-level handlers of one thread implement the store and return? | 1 thread, 2 keys, every command but VER |
| `threads_owners` | Two threads on different slots share only allocator and counter: do they disturb each other, and does each LENGTH measure the number that is then written? | 2 threads, 1 key each, every kind of command on it |
| `threads_counters` | What is safe on one key? GET, INC, DEC and ADD of a key that holds a number | 2 threads, 1 key |
| `link_calls` | Do calls come back with the reply to this very call, and mean what they say, however TCP cuts the stream; where do they not? What becomes of a request cut short by the program's death? | 1 program, 1 connection; every command; payloads empty, of blanks, ending in a line feed, that read as a command; keys with blanks in them |
| `server_life` | Do connections keep to themselves, is the registry exact, do BYE and shutdown end, and what are the causes of undefined behaviour? | 2 connections, 2 thread ids, a registry of initial size 1 |

Runs that refute what the repository says:

| Run | Sentence | What TLC shows |
|---|---|---|
| `cache_collision` | `hash_table.h:72`: get returns NULL "if not found" | it finds another key's cell |
| `cache_initial` | `README.md:183`: "INITIAL value will be inserted" | 10.5 is stored as 10 |
| `threads_unsafe` | `README.md:52`: "Thread-safe hash table" | GET reads what DEL has freed |
| `threads_count` | `README.md:186`: STT gives the "total key count" | an update of the count is lost for good |
| `threads_add` | `README.md:179`: ADD "fails if key exists" | two ADDs of one key both succeed |
| `server_disconnect` | `connection.c:39`: "client disconnected." | the branch is inside a loop entered only when `recv` is positive; the thread spins |

The bounds, by name:

- `MaxNumber` (Cache, CacheThreads): clients stop counting once a number is this
  big. Nothing in the code depends on a number's size but overflow, which is
  left out; both signs and a fraction occur.
- `MaxDrift` (CacheThreads): no further change of a key once `count` is this
  far off what is allocated between commands. It keeps runs finite in which
  updates of `count` are lost. With 0 the runs still contain the first loss.
- `Cells`, `Blocks`: the heap. As many as the threads can hold at once, so that
  `malloc` gives out the same memory again and again and yet never runs dry; the
  deadlock check of `threads_alone`, `threads_owners` and `threads_counters` would
  show it if it did.
- `Preset`: what an earlier client left in the table, to spare TLC the way there.
- `Conns`, `Tids`: structs and thread ids, 2 of each, freed and reused
  without end. The entry a thread removes can be a third party's only with 3
  structs; TLC cannot finish that instance, and the proof covers it.
- `InitialSize`, `MaxCount`: the registry starts at 1 instead of 10, so that the
  second insertion must grow it and can fail to; no connection arrives once
  `MaxCount` are listed.

- `RecvLength` 3, `InitialBuffer` 4, `WelcomeRoom` 3 (Link), in the code 10, 10 and
  100: small beside the requests and replies of the instance (5 to 13 bytes), so
  that every line takes several chunks, both buffers grow more than once and
  chunks end at, before and behind every line end. The greeting is three bytes
  and so fits `WelcomeRoom`, as it does in the code.
- `MaxNumber` (Link): INC and DEC are called while the number is between 1 and this,
  so that it remains a digit; that a number is negative or long changes only how
  many bytes a word has.
- `LateCalls` (Link): once requests and replies are out of step (`Skewed`), one more
  call, of this set, is made; it is enough to see the wrong reply taken, and no
  property promises anything from there on. `Shortage` happens in step and on an
  empty store only: the buffer it is about does not depend on the store.
- `ArgLists` (Link): what ints passed to INC may turn into (`libmemuncached.c:266`);
  any double really, here one that reads well and none at all.

`CHECK_DEADLOCK FALSE` is used where the system really stops: in `threads_add`
after a fault (nothing is defined any more), in the `Server` runs after a fault or
once the process has exited, in `link_calls` after a fault or once the program or
the server has gone. All other runs check for deadlock.
`SYMMETRY` permutes cells and blocks only, in runs without liveness.

Fairness. The operating system schedules every thread: weak fairness of each
connection's `handle_command` (Cache), of each thread's steps (CacheThreads,
Server) and of main's own steps (Server). In `Link`, weak fairness of the session's
steps and of the library's inside a call: both are threads the system schedules,
and TCP delivers what was written on a connection that stands. Nothing is
assumed of the program calling, living or dying, of the server stopping, or of
`realloc` succeeding. A lock is never assumed to be granted
fairly. Nothing is assumed of peers, of SIGINT, of `accept` returning, or of a
`recv` on a silent connection. `server_disconnect` refutes its property under
this same fairness: the thread does run, round and round.

Each property has a mutant: a named variation of one definition (in the modules,
marked "Mutant of") under which TLC finds the property violated.

## What is proved

For every hash, table size, set of clients and of requests:

- `CacheTypeOK`, `CacheCountIsOccupancy`, `CacheDecimalsAreWhole`. The inductive
  invariant is `TypeOK` together with the count and wholeness of the table;
  wholeness and the count do not hold by type, and each needs a lemma for every
  operation of the table, given as what `hash_table_set`, `_del` and `_shift` do
  to a good table. The count needs `Slots` finite.
- `CacheFailureLeavesTable`, an action property, from the same invariant.
- `CacheImplementsSlotStore`: `Cache` refines `KeyValueStore` with slots for
  keys. Each handler is one step of the store, STT's Key-Count included (which
  is where `CountIsOccupancy` is needed).
- `CacheImplementsKeyStore`, under `OneKeyPerSlot`: if no two of the keys in use share
  a slot, the cache is the key-value store its README describes, with keys for
  keys. Each step of the store of slots is then one of the store of keys; that Key-Count
  counts keys takes one more invariant, `InPlace`: every cell is in the slot of
  the key it was written under. `CacheGetFindsOwnKey` follows from it at once. Without the
  hypothesis both are false: `cache_collision` is an instance with two keys on a slot. The
  runs of `Cache` all have such keys, so none of them states `ImplementsKeyStore`.

For every number of threads, slots, cells and blocks (`CacheThreads`):

- `ThreadsTypeOK`, whatever keys the threads share. The inductive invariant `TypeInv`
  adds which command may be where in its handler, that a number loaded is one,
  and that a block's value fits what the block was allocated for.
- `CountersNoFault` and `CountersNeverMissing`, under `OnlyCounting`: clients send only
  GET, ADD, INC and DEC of keys that hold a number, and STT (the run
  `threads_counters`). Any number of threads may share a key. No step frees, links
  or unlinks anything then, so what a thread has found of its slot stays so.
- `OneWriterCounts`, under `OneWriter`: one thread may change the table, the others
  only look (`threads_alone` is the case of no others; `threads_count` shows that two
  do not do). `WriterInv` says how far `count` is from the number of cells at each
  place of `hash_table_set` and `hash_table_del` (`Owed`), and that occupied
  slots have cells of their own, allocated but for the one about to be unlinked:
  without that, `malloc` could give out a cell that is still linked. It holds though
  the readers may follow pointers the writer has freed.
- `OwnersNoFault`, `OwnersNoLeak`, `OwnersLengthMatches`, under `OwnSlots`: no two threads
  are sent requests for keys of one slot (`threads_owners`). The allocator and the
  counter are shared, and whatever one thread frees another may be given at once.
  None of the three is inductive. `OwnersInv` says which slot owns which cell and
  block (`OwnsCell`, `OwnsBlock`), that what is allocated has exactly one owner, and
  what a thread finds in its slot at each place of its handler (`Place`). A step of
  one thread changes no memory another slot owns (`OwnStep`), so only its own
  slot is to be looked at.
- `ThreadsImplementStore`, under `OwnKeys` (as `OwnSlots`, the hash injective, and no
  STT, whose answer the lost updates of the counter spoil) and from an empty
  table, as in `threads_owners`: the threads refine `KeyValueStore`. `before` records what the slot held when
  the request came; `HistoryInv` says what it holds now, compared with that, at
  each place. The mapping shows a key as it was until its handler returns (`Shown`)
  and an answer from then on (`Told`), so the last step of each handler is the
  store's step and every other one a stutter.

For every number of connections, threads and registry entries:

- `ServerTypeOK`, `ServerThreadsOwnClients`, `ServerRegistryExact`,
  `ServerFaultHasCause`. None is inductive. The invariant `IInv` of
  `ServerProofs` adds: a thread has a connection exactly while it runs; only the
  lock's holder is in the registry; what main has in hand at each point of
  the accept loop, whether it is shared with a thread, and whether it is
  registered yet; the entry a thread is about to remove is its own unless it
  went astray; and main frees or destroys only after SIGINT. The argument
  about `vector_remove_unsafe`, which fills the gap with the last entry, rests on
  `VectorRemoved` and `RemovedEntries` (`VectorProofs`): from distinct entries,
  exactly one goes.

For every `RecvLength`, every size of the buffers, every set of calls, keys and
payloads:

- `LinkTypeOK`, `LinkChunksFit`, `LinkReplyFits`: no chunk is written outside the
  command buffer or the payload's, and the library never asks `recv` for nothing
  nor, unless a `realloc` failed, for more than its buffer holds. The inductive
  invariant of `LinkProofs` is a conjunction by component (`WireOK`, `SessionOK`,
  `LibraryOK`). The command buffer's part (`CommandOK`) adds that it is never
  shorter than `RecvLength`, which is why doubling it once per chunk is enough;
  the payload's, that its buffer has the two bytes of the line end. The library's
  (`ParseOK`) ties `rx.start`, `rx.body` and the count of payload bytes to what was
  received. `First` and the search for words are CHOOSEs; that what they choose
  exists is proved from the least element of a set of naturals.
- `LinkInStep`, `LinkSameReply`, `LinkPayloadIntact`, `LinkFaultHasCause` and
  `LinkTornDoesNothing` (`ExchangeProofs`): while nothing has skewed requests and
  replies (`Skewed`), a call comes back with what the server answered to this
  call and leaves nothing behind; a value is stored as sent unless `Eaten`; a request cut
  short by the program's death does nothing; and undefined behaviour has one of three causes.
  None is inductive: each speaks of a moment, and what makes it true is the bytes
  under way before. `StepInv` adds `Flow`, the places where a call can be:
  `Greeting`, `Resting` between calls, `Asking`, `Replying`, and `Leaving` once the program is gone.
  - In `Asking` some `n` bytes of the request were taken and the wire holds those behind
    them (`OnTheWay`; all of them, unless `torn`). What the session did with the `n` is
    `Gathering` (the buffer begins with them and, until it grows, is zero beyond),
    `Gathered` (with the line feed, and line ends at the end cleared) or `Putting`
    (of the payload, what came after the line is in its place; what came with it is
    so exactly if not `Eaten`). `Gathered` implies that the words the session finds
    are those the library wrote.
  - In `Replying` the bytes received and those on the wire make up the reply as
    written (`Coming`), and the parser's line, code, LENGTH and TYPE are those of
    the lines seen so far (`Reading`): a lemma for each of its steps
    says so, wherever the chunk ends.
  - A body is at most 9 bytes long (`ShortIn`), for LENGTH is one digit here. A
    line read at a stale place implies a small buffer, since all lines of a reply
    come before byte `MaxHeader`.
  - `TornDoesNothing` holds because every change of the store takes the last
    byte of a request, which a torn one lacks.

Assumptions. The constants' assumptions say that markers (NULL, Junk, NoArg,
Bad, Word) are distinct from data, that `Hash` maps keys to slots, of which there
are finitely many, that what an earlier client left in slots are values, that
requests and calls are well formed, and that the initial sizes of registry and
buffers are positive. Well formed is, of a call in `Link`: its key is a C string
(no zero in it), its numbers and the length of its payload are one digit, as every
number in `Wire` is, and so are the numbers that ints turn into. TLC evaluates
the assumptions in the runs. `OneKeyPerSlot`, `OnlyCounting`, `OneWriter`, `OwnSlots` and
`OwnKeys` are hypotheses of their theorems, not assumptions: they say what clients do,
and the runs that refute `GetFindsOwnKey`, `NoFault` and `CountWhenQuiet` are instances
in which they do otherwise. The provers are Z3, Zenon and LS4.

Only model-checked: all liveness (that requests are answered, that BYE ends a
thread, that shutdown ends, that calls return), since the prover does not handle
fairness (of `ImplementsLiveStore` the safety part is proved
where nobody sends STT); and of `Link` the refinement `ImplementsStore`. It is not
true of every instance: INC, DEC and STT's Key-Count write a number as one digit, which it is only
under `MaxNumber` and with few keys. What is proved is the protocol's half of it: that a call
returns the answer given to it, and that payloads arrive; that handlers
do to a store what their request says is proved of `Cache` and `CacheThreads`.

## What the code does that a reader may not expect

- Keys that share one of 1024 slots overwrite, count with and delete each other.
- A fractional OFFSET on a DECIMAL is truncated toward zero: INC by 0.5 of 1 is 1.
- The TYPE line of a reply is written from the cell as it is then, and its text
  after: with another thread at the key the two may not belong together. `TypeOK`
  of `CacheThreads` has to allow it.
- INC or DEC of a STRING replaces it by INITIAL.
- SET with a TYPE other than 0, 1, 2 is refused, after it has deleted the key.
- Two threads on one key: lost updates, a LENGTH that does not match its
  payload, use of freed memory as soon as one of them deletes or overwrites.
- A thread that ends before main has registered it leaves a dangling entry in
  the registry; every later search of the registry reads it.
- After SIGINT, threads still running use what main has freed. These are the
  causes named in `FaultHasCause`.
- The time-out of the registry's lock leaves the connection open and
  registered: its peer waits, its entry stays.

- A payload's first bytes, when they come in the chunk that ends the command
  line, lose their leading blanks and line ends (the search for a fourth word
  skips them), and a line end at the end of that chunk becomes zeros (the
  trimming). `Eaten` says when; when the skipping runs past the buffer, "overread".
- A chunk that ends a long line and brings payload may fill the fresh half of the
  command buffer, which `realloc` does not clear: then no zero ends the line.
- A line of line ends only is trimmed from the byte before the buffer on.
- A refused SET leaves its payload on the stream, to be read as commands; so does
  a line that was split when `realloc` failed. From there on each call takes
  the reply to an earlier command for its own.
- If the greeting comes in two pieces, the second becomes part of the first reply.
- `libmemuncached.c:266` assigns where it should compare: INC with ints sends whatever
  bits are where doubles would be.
- The library's `line_start` points into the old buffer after `realloc` moved it
  within the header; and after a failed `realloc` the client's `buffer_size` is
  twice what it has, which the next call that gets so far writes beyond.
- A program that dies during a SET leaves its thread in the payload loop for ever
  (`recv` returns 0), or, after a reset, frees it; the value is never stored.

## What is not modelled, and why

- Machine numbers: overflow and rounding. The hazards list names the lines.
- The texts of replies, and logging: wording, not behaviour. STT's Client-Count
  is a plain read of the registry's count.
- Failing `malloc` and `calloc` (the code does not test them), and the set-up of
  the listening socket (it exits on failure before any thread exists).
- Set-up calls of `memuncached_connect` that fail before a connection exists, and
  what `memuncached_value_result_clean` frees: no state is shared.
- `str_escape`, which serves the log. The tests for decimal and real text are in
  `Wire`, on words of one byte, with their sign and their point.
- `fnv1a`'s arithmetic: only which keys share a slot matters.
- The demo program, a script of calls: `MCLink` takes its calls from it.
- `vector_at` and `vector_remove`: no caller.

## Plan

Done: (1) `Protocol`, `KeyValueStore`, `Cache` and their proofs; (2)
`CacheThreads` and its proofs; (3) `Vector`, `Server` and their proofs; (4) `Wire` and `Session`,
(5) `Library`, and `Link`, which composes them, and their proofs. Left:

6. Argument syntax on texts of several bytes, against reference definitions:
   numbers with more than one point, signs alone.
7. `Link`: `ImplementsStore` as a theorem, with numbers of several digits in `Wire`.

Hazards that no property covers (PROJECT.json says why for each): INC and DEC that
lose updates when threads share a key (`LengthMatches`, too, holds only while they
do not);
`int64_t` at its ends; a SIGINT between main's test and `accept`, and SIGPIPE, of
which the model has the behaviour and nobody promises anything.
