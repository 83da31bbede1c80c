# Formal model of sample-sds-storage

TLA+ modules, TLC runs and machine-checked proofs about the storage server in
`src/src/server`, the code it shares with its client in `src/src/common`, and
the client in `src/src/client`. Paths below are relative to `src/src`.

## 1. The system

A client opens a connection, sends one request and reads one acknowledgement. The
server is one process. Its libev loop thread accepts connections
(`server/netsocket.c`, `accept_cb`); a short-lived thread per connection registers a
read watcher with the same loop (`netsocket_do_request`); the loop then calls `read_cb`,
which reads the request, changes the store, answers, and stops the watcher. The store
is a vector of *bucket sets*; each set has a fixed number of *buckets*; each bucket has
one data file in the data directory, an interval of hashes, an offset, and a cache.
Nothing but the data files survives the process.

### Components

| component | state | operations | talks to | what makes it correct |
|---|---|---|---|---|
| request handling, `netsocket.c read_cb` | the watcher, a 4 MB buffer per call | put object, put bucketset, default | recv/send; registry; buckets | one answer per connection; what the answer says is true |
| accept path, `netsocket.c accept_cb`, `netsocket_do_request` | `ev_thread`, `ev_io` on the heap | accept, spawn, register | the loop, from another thread | the watcher lives as long as it is registered |
| registry, `sds_store.c` + scans in `read_cb` | `sds_store.sets` (vector) | scan by name prefix, push back | bucket sets | a set is never hidden; a name never changes hands |
| routing, `bucketset.c` | `bucket_range_count`, bounds | round, search | buckets | every accepted object has one bucket |
| buckets and files, `bucket.c`, `bucket_store.c`, `bucket_object.c` | fd, `current_offset`, lengths, cache; data files | create, put | file system, the client's socket | objects never overlap in a file, over restarts too; offsets account for what was accepted |
| vector, list, slice, hash, md5 (`common/`) | tables, links, bytes | containers and digests | all of the above | container invariants |
| client and request construction (`client/`, `common/request.c`) | socket, file | create a set, put an object | server | both sides finish |
| `read_n`, `write_n` (`common/utils.c`) | none | transfer n bytes | sockets, files | all bytes, or the caller knows |
| configuration (`server/conf.c`) | `conf` | parse | everything | fields mean what their keys say |
| log (`server/log.c`) | log file, a line's buffer | write; FATAL aborts; reopen | everything | a line stays in its buffer, goes to the log, and shows the numbers it was given |

### What is hard here

- *Order of requests.* Names are compared over the length of the **existing** set's
  name, so a set answers for every longer name. Whether an object stays findable depends
  on the order in which sets were created, over the life of a process.
- *Crashes and restarts.* `log_fatal*` aborts, `assert` aborts, and the code dereferences
  null pointers. The next process finds data files and no memory; `bucket_create_data_fd`
  opens a file only if it does not exist.
- *Partial failure.* Results of `vector_push_back`, `bucket_put` and `read_n` are ignored.
- *Boundaries.* Strict `<` against an inclusive `max_rank`, a length of 0, a count of 0,
  an `int` in the rounding loop, an offset that wraps.
- *Clients that go.* The acknowledgement is sent without a look at whether anybody is there.
- *Resources.* The 4 MB buffer and the descriptor of each connection are never released.
- *Threads.* The handoff thread registers and frees the watcher under the loop's feet.
- *Blocking.* `read_n` on the loop thread stops everybody.

`PROJECT.json` lists each at its line, with the properties that would notice.

## 2. Modules

| module | what it is |
|---|---|
| `BucketRouting` | operators: `bucketset_hash_range_round`, `MinRank`/`MaxRank`, `bucketset_search_bucket` |
| `SetDirectory` | abstract specification: a name is unresolved or belongs to one set; creating a set never moves a name |
| `SdsStore` | the server behind its socket: requests, registry, buckets, files, crash and restart |
| `MCSdsStore` | instances for TLC |
| `BucketRoutingProofs` | theorems about the routing operators |
| `SdsStoreProofs` | theorems about `SdsStore`, and that it implements `SetDirectory` |
| `Exchange` | clients and server over blocking sockets, one system call a step |
| `MCExchange` | instances for TLC |
| `ExchangeProofs` | theorems about `Exchange` |
| `SetSums` | theorems about sums over finite sets, which the two modules before it use |
| `Handoff`, `MCHandoff` | from `accept_cb` to `read_cb`: the loop thread, and the thread of each connection line by line |
| `Md5`, `HashFn` | which bytes the digest and the hash take |
| `Log`, `LogFormat` | the logger's descriptor and a line's buffer; the integer conversions of `_safe_vsnprintf` |
| `Slice` | texts inline or on the heap |
| `ItemSequence`, `Vector` | abstract sequence, and the table that implements it |
| `StoreAdd` | `Vector` as `read_cb` and `sds_store_add` share it |
| `List` | links, and the walk of `list_destroy` |
| `Conf`, `ClientMain` | the start of both programs from their files; the client's `main` on a command line |
| `MCLibraries` | instance of the modules from `Md5` on: a behaviour runs one of them |
| `HandoffProofs` | theorems about `Handoff` |
| `ContainerProofs` | theorems about `Vector` (which implements `ItemSequence`), `StoreAdd` and `List` |
| `SliceProofs` | theorems about `Slice` |
| `LibraryProofs` | theorems about `Md5`, `HashFn`, `LogFormat`, `Log`, `Conf`, `ClientMain`, and about `MCLibraries` as a whole |

### `SdsStore`: state

| variable | code |
|---|---|
| `up`, `epoch` | the process runs; how many times `main` was started |
| `conn[c]` | `new` until accepted, `watched` while the `ev_io` is active, `closed` after `ev_io_stop` or the end of the process |
| `ack[c]` | the `response_ack` sent on `c`; `Unset` stands for a field no statement assigned |
| `buffers` | calls of `read_cb` in this process whose 4 MB buffer was allocated (none is freed) |
| `sets` | `sds_store.sets`: names, and per bucket `open` (fd is not -1), `current_offset`, `slot` (the list in slot 0 of `cache`) |
| `disk` | data files that exist |
| `stored` | history: one entry per object that `bucket_put` accepted |

`name` and `data_dir` of a set, ids, logging and file contents are left out.
`write_bucket_object` reads into a null buffer, so `read` fails with `EFAULT`, nothing is
written, and the function returns 0 for every positive length: contents have nothing to
say. A bucket's `obj_hash` is always 0, hence one cache slot.

### `SdsStore`: actions

One action is one whole call of `read_cb` (up to its answer or the end of the process),
because the loop thread runs one call at a time: `PutObjectUnknownSet`,
`PutObjectUnrouted` (null bucket), `PutObjectSwitchFails` (`bucket_check_data_fd`),
`PutObjectRefused`, `PutObjectStored`; `PutBucketsetExists`, `...Created`, `...NotKept`
(push back failed), `...Aborts` (`fallocate` failed at some bucket, the files before it
stay); `OtherRequest`; `ReadRejected` (the branch after `recv`: no answer, watcher still
active), `ReadError`, `BufferAllocFails`. `Accepted` is the accept path in one step.
`Crash` is every other end of the process, at any moment; it includes the outcomes of
undefined behaviour in the accept path that end the process, such as a freed watcher or
the read of `ctx` behind a plain `ev_io` (`netsocket.c:80-84,127-128`), and SIGPIPE on an
acknowledgement. Other outcomes of that undefined behaviour (memory silently overwritten, or a
`ctx` that happens to be readable and is not the store) have no model; the claims below are
about executions without them. `Restart` starts the next process over the same `disk`.

`current_offset` is a `uint64_t` and wraps (`Accept`). A request's data length is one too:
`write_bucket_object` reads it as signed (`SignedLen`), so lengths below 2^63 are accepted, and
nothing compares them or the offset with the length of the data file. `OffsetValues` is 2^64;
the `store` run has 256, with objects of 173 and 83 bytes that fill the room exactly or go
over its end after one, two or three puts, and a length that is negative when signed.

`RecvRejected` is the set of results of `recv` that `read_cb` calls an error. The code
compares `read > 0` (`netsocket.c:143`), which is `{1}`: a byte received is an error, and
the run `store_shipped` and the theorem `InertCorrect` say what follows. The message of
that branch ("read error") fits `{-1, 0}`; the other runs use that value, since it is the
one under which the storage code behind the branch runs at all. Theorems hold for every
value of the constant.

A request is any set name and any object of the constants, whatever the client
meant: `req_object` and `req_bucketset` are not initialised and short reads go unnoticed.

`conf_create` never assigns `bucket_size` or `set_hash_range` (they stay 0 from `calloc`).
The runs use two buckets, the number that makes routing meaningful; the theorems hold for
every count, 0 included.

### `Exchange`: state and actions

`SdsStore` takes a call of `read_cb` as one step whose reads return. `Exchange` opens that
step: it keeps what decides whether a read returns, and of the store only whether a set
exists (`created`).

| variable | code |
|---|---|
| `pc[c]`, `left[c]` | the call of `write_n` or `read_n` the client is in, and the bytes it still wants |
| `pieces[c]`, `result[c]` | what is left of the object's file; what the request function returned |
| `conn[c]` | `pending` in the listen queue, `watched` by the loop, `stopped` after `ev_io_stop` (the descriptor stays open) |
| `in[c]`, `back[c]` | bytes in flight towards the server (bounded, `send` blocks) and towards the client |
| `serving`, `phase`, `want`, `type` | whose `read_cb` the loop thread is in, in which read, what it still wants, `req_type` |
| `up`, `buffers` | the server runs; calls of `read_cb`, 4 MB each |

Clients come in three kinds. Those of `SetClients` run `request_put_bucketset_init`: the
type byte, then `read_n` of the request (`AfterType`, `Read`, `ReadReturns`, `ReadEnds`).
Those of `ObjectClients` run `request_put_object_init`: type, request, then per piece of
the file a `write_n` of 4 MB from the request's address (`NextPiece`), which the kernel
takes up to the first unmapped page: any amount; then -1 (`PutObjectEnds`). Those of
`PeerClients` are external: they send what `read_cb` reads, and stand for anyone else who
needs the server. `Kill` is the user, or `main` that exits on an argument after it has
connected. `main` does not call `request_put_object_init` yet; the model runs it as it is.

On the server, `recv` returns 1 and a byte, or, once the client has gone and its bytes are used
up, 0 or -1 (`Received`), each of which the comparison treats as it is (`Rejects`, `RecvIsError`).
`RecvGoesOn` is `read_cb` up to `read_n` of the request, which is
`ServerReads` byte by byte until `RequestRead`: everything is there, or the client has
closed. The loop is idle again only after `Reply`, so while `phase` is not `idle` nobody else
is called. `PutObject` is the read into a null buffer: it waits for a byte or the end,
fails on the buffer, and leaves the byte (`PutObjectReturns`).

From the end of the read of a request to the return to the loop the server may end instead
(`RequestEndsServer`): `read_cb` takes the store from behind the `ev_io` that was allocated
(lines 127, 158), measures texts that nobody wrote (156, 194), may find no bucket or data file, and
sends to a client that may have gone (195, SIGPIPE). So no property says that the server
survives a request; they say what it can take for the server to end, and that otherwise
the loop thread comes back. `Exchange` starts from an accepted connection that is watched;
how far the handoff keeps that is in `Handoff`.

### `Handoff`: state and actions

| variable | code |
|---|---|
| `phase`, `events`, `changes`, `applying`, `polled` | libev: apply the changes, poll, call back; what is to be polled from the next turn on (`fdchanges`) |
| `e_thd` | the place on the loop thread's stack where `accept_cb` has its variable, whatever is in it now |
| `ev_thread[c]`, `mine[c]` | the `ev_thread` of a connection, and the one its thread has taken |
| `pc[c]` | the next line of `netsocket_do_request` |
| `watcher[c]`, `holds[c]`, `list[c]` | the `ev_io` its thread allocated, the descriptor in that memory, the descriptor in whose list of watchers it hangs |
| `called`, `stopped`, `crossed`, `crowded`, `lost` | history |

`AcceptCb` creates the `ev_thread` and leaves its address in a place that the next call from
the loop may reuse (`StackReused`): null, garbage, or the next connection's may be there. Whether
`pthread_create` made the thread is not looked at, so there may be none (`AcceptCb` with the
thread at its end). `EventError` is the branch of `EV_ERROR`, after libev has dropped a
descriptor's watchers. The thread is `FindsNull` or `Finds`, `Loads` or `Strays` (it takes
garbage for an `ev_thread`, and watches nothing if that does not end the process), `Allocates`,
`Starts` (`ev_io_start`, unlocked), `Drops` (`ev_thread_destroy` of what the place holds then)
and `FreesWatcher`. Freed memory is read as it was, as something useless, or ends the
process (`FreedReadFaults`); it may also be given to the next thread that allocates. libev's own
part is external, modelled from its documented order of work.

### The library modules

- `Md5`. A byte is its position in the stream of message, padding and length, so blocks of
  positions stand for blocks of every message. `md5_update`, `md5_final`, `md5_string` and
  the loop of `md5_file` are translated; `md5_transform` is a function of the block and left
  out. `Word` scales 2^32 down, `ReadSize` is the size of a read. For a string within 64 bytes of
  what an `unsigned int` can count, `i + 64 <= inputlen` wraps: `StringLoops`.
- `HashFn`. One access of `gfs_hashfn` a step: words of the full quads, then words, then the
  bytes that are left.
- `Log`. Descriptors are the lowest free ones, as `open` and `accept` give them; a line is the
  lengths of its pieces. `LogFormat` has the digits of a number as they are written, with
  16 digits of a long scaled down. `%03ld`, of the milliseconds of a safe line, is a conversion
  that no case takes (`Unmatched`); the least long, whose negation overflows in decimal and in
  hexadecimal, is `Undefined`.
- `Slice`. The buffer and the pointer are one union, so writing one spoils the other. Local
  slices start as garbage, blocks of the heap are counted. `slice_copy` of a slice to itself is
  there (`ValueFor`); no caller gives `slice_repace_value` the text of the slice itself, and that
  is left out. A `slice_create` whose `calloc` fails returns NULL or ends the process.
  `slice_strncpy` is there with what it writes outside; a slice that was given to it is outside the properties.
- `Vector` has the memory after its table, since neither a capacity of 0 nor an insert past the
  size is refused. `StoreAdd` runs `read_cb`'s pushes and `sds_store_add` on one vector.
- `List` has the nodes as memory that is new, live or freed.
- `Conf` starts a server and a client: an entry of a file is what jansson's two readers make of
  it. The key past the end of `conf_keys` is any entry of the file or none. `htons` keeps 16 bits
  of a port; when they are 0, `bind` takes a port of the system's choice, one of `Ephemeral`.
- `ClientMain` is `main` on a sequence of options; words are syllables, because the resource
  is compared over its own length.

## 3. Runs

### Store

These runs are of `MCSdsStore`. `CHECK_DEADLOCK` is off in every one: the server does stop
once each connection was used and each start of the process is spent. That bound is the
model's; nothing in these runs is about progress.

| run | constants | shows |
|---|---|---|
| `store` | 4 connections (symmetric), names `a`, `ab` (prefix), `b`, 2 buckets of 512, `MaxSet` 1, 5 buffers, 3 starts, offsets of 256 values | `TypeOK LookupExact Retrievable NoOverlapInFile SpaceAccounted PlacedInOneBucket OpenFilesAreFresh OneAckPerConnection CreatedIsKnown ImplementsDirectory` hold |
| `store_shipped` | `RecvRejected = {1}`, 2 buffers, 2 starts | `InertWhenByteRejected`, `AnswersPerLife` hold |
| `store_zero_length` | `DataLength = 0`, 4 starts | `OneFilePerLife`, `SetTakesStarts` hold |

Why the bounds are enough. Three names give all relations two names can have: equal,
prefix in one direction, unrelated. Hashes 0, 510, 511, 512 are the inside and both edges
of a bucket. Four connections are enough to create a set, put two objects in one bucket
and do something else, or to create a set, put an object, restart, create it again and put
over it. `MaxSet = 1` makes the registry grow at the second set, so that a failing push
back happens. Three starts let a half-made set be found by a second process and used by a
third. In `store_shipped` two buffers and four connections let the buffers run out; in
`store_zero_length` two buckets and four starts let a set be completed in the third, and used.

What the storage properties say. `SpaceAccounted`: an offset is the sum of the sizes of what
the bucket has accepted in this life, modulo the values of an offset. `NoOverlapInFile`: two
objects in one file do not overlap, unless the objects of that bucket's life together take
more room than an offset counts; then they do (three lengths near 2^63 are enough), and
that exception is the one TLC shows to be needed. `OpenFilesAreFresh` is why a
restart, whose offsets start at 0 again, overwrites nothing. `CreatedIsKnown`: who is told of a
success can use the name, though not necessarily a set of that name (a prefix of it answers,
netsocket.c:178), unless the registry was full, when the ignored result of
`vector_push_back` may have been a failure. `SetTakesStarts`: without room in a data file
`fallocate` ends the process at each new file, so a set of n buckets exists from start n + 1 on,
with none of its files open.

No fairness is assumed: these runs state no liveness.

### Exchange

These runs are of `MCExchange`: one client of each kind. `CHECK_DEADLOCK` is off: clients
end, and clients and server wait for each other, which is what the properties are about.

| run | constants | shows |
|---|---|---|
| `exchange_shipped` | `RecvRejected = {1}`, 14 buffers | `EndsOnlyByHangup LoopReturns HangupsSettled PutsReturn` hold |
| `exchange_meant` | `RecvRejected = {-1, 0}`, 6 buffers | `TypeOK SilentCreate NoLiveCreateAnswered OnlyAKillFrees HangupFreesTheLoop` hold |
| `exchange_create` | as `exchange_shipped` | **violation** of `CreateReturns` |
| `exchange_answer` | as `exchange_shipped` | **violation** of `PeersAnswered` |

Bounds. A set's request is 2 units and an acknowledgement 3, in the order of the 255 and
260 bytes of `request.h`: the answer to one would satisfy the read of the other. An object's
request is 2 units and its file 2 pieces of at most 2, while a socket holds 2: a sender
does block on a full socket, also after its watcher has been stopped. One client of each
kind is enough for the questions, which are about two parties and a third who waits; the
theorems hold for any number. 14 buffers are exactly the calls the three clients can
cause under the shipped comparison, so that `EndsOnlyByHangup` is about the code and not about the
bound; 6 let the buffers run out under the other one, where a closed connection is reported
as readable again and again.

Fairness is weak, and on what the operating system and libev schedule: each client process
while a call of its can go on, the loop thread inside `read_cb` while its call can go on,
and, once the loop is idle, the callback of each descriptor that stays ready (libev calls
all that `epoll` reports, level-triggered). There is none on `Kill`. A blocked call is a
disabled action, so nothing forces it.

What the runs say together. With the shipped comparison the loop thread is never blocked, since
a received byte never leads to a read of a request; a put always ends (as a failure; its
data is dropped byte by byte, each costing 4 MB of the server); every hang-up is settled; and
as long as there are buffers, no client that is there can end the server: what can is
the call for one that has gone, which goes past the comparison because it received nothing
(`EndsOnlyByHangup`). The price is that nobody is answered: `exchange_answer` has a client that
sends just what `read_cb` reads, and waits for good. With the comparison as its message has
it, the creating client and the server wait for each other (`Embrace`), only that client's end
frees them, and a client is answered for its creation only after it has gone. `PutsReturn`
is not stated there: an object larger than the socket's buffer leaves its sender blocked,
because the server stops reading it.

### Handoff

| run | constants | shows |
|---|---|---|
| `handoff` | 3 connections, 2 descriptors | `AloneIsItself AloneIsServed` hold |

The handoff is not synchronised, so what can be promised is about a connection that had nobody
beside it between `accept` and the stop of its watcher (it is not in `crowded`). It reaches
`read_cb` as itself or not at all (`AloneIsItself`): its thread may find null in the reused
place on the stack, or garbage, or may never have been made, and then nobody serves it while
the server stays up; but it is never taken for another one. Once its thread has taken
it, `read_cb` is called on it when it has sent something (`AloneIsServed`), unless the
loop lost its registration in the middle of applying changes or was refused it by the system
(`EventError`), or the freed watcher was spoilt before the loop came to it, or the process
ended. These exceptions are the ones TLC shows to be needed. That the registration is noticed at
all is the timer's doing.

Two connections are crowded in every way two can be, and a third finds the memory of either;
two descriptors let the limit be reached (`AcceptFails`). Fairness is weak, on the loop
and on each thread, which the system schedules; none on clients. `CHECK_DEADLOCK` is off because the process may
have ended and clients need not come.

### Libraries

| run | constants | shows |
|---|---|---|
| `libraries` | see `libraries.cfg` | 13 invariants and the refinement `ShowsTheSequence` hold |
| `log_millis` | as `libraries` | **violation** of `MillisecondsShown` |
| `conf_data_dir` | the file is `test_server_conf.json` | **violation** of `ConfHonoured` |
| `client_usage` | as `libraries` | **violation** of `UsageWorks` |

Each part ends or fills up its bounds, so `CHECK_DEADLOCK` is off; no fairness is assumed.
What the properties say, and why the bounds reach it:

- `BlocksInOrder`, `DigestOfWhole`: lengths on both sides of the end of a block (55, 56, 63, 64,
  65, 119 to 128), of a read (100, 200), and of the low word of the count (1024 bits, so that it
  carries at 128 bytes), and of the wrap of the index (960 to 1023 of 1024).
- `HashTakesAll`: every remainder by 4 and by 16, one and two quads.
- `ConversionExact`: the least and greatest int and long, both sides of each power of the base;
  it is of `d`, `u`, `x` and `p`, and of every argument but the least long.
- `LineInBuffer`: pieces that are empty, that fit, and that are longer than the whole buffer.
- `LinesReachTheLog`: five descriptors, so that closed ones are taken by others.
- `SliceHolds`, `BlocksAccounted`: a local and a heap slice, texts of 0, 3 and 16 characters,
  two blocks and an allocation that may fail.
- `MeetAtPort`: ports below 1024, usual ones, ones that lose bits in `htons` or in `int`, and 65536,
  of which `htons` leaves 0; the system may choose the default port for it, or another.
- `ShowsTheSequence`, `StoreScansMeetSets`: capacities 0, 1 and 2, which double up to twice.
- `WalksAgree`, `DestroyNeedsAMiddle`: up to five nodes, both parities, any of them deleted.
- `OnlyLongOptions`: up to three options in any order, repeated or missing.

### Mutants

Each property has a mutant: a definition changed as a plausible bug would change it
(`..._Swapped`, `..._NoBreak`, `..._Reopen` and so on, each next to the definition it
mutates), under which the run must fail.

### Findings

- `exchange_answer`: `read > 0` at `netsocket.c:143` is the branch of an error, with the message
  "read error,errno:%d", and is taken when the type byte of a request was received. A client
  that does all that `read_cb` expects is never answered.
- `exchange_create`: `request_put_bucketset_init` calls `read_n` where it should call
  `write_n`, so `sds_cli -r bucketset -t create` never returns. (As spelled in the usage
  comment, the options do not get that far: `"rtd:"` gives `-r` and `-t` no argument, and
  `main` compares with `buckset`. Under the long names the request is reached.)
- `log_millis`: `_safe_vsnprintf` has no case for the `0` of `%03ld` (`log.c:147`), so each line of
  `_log_safe` has the letters `3ld` where the lines of `_log` (`log.c:542`) have the milliseconds.
- `conf_data_dir`: because of a missing comma `conf_create` reads the backlog, the data
  directory and the data length from other entries than the ones the file of the tests has.
- `client_usage`: `sds_cli -r bucketset -t create -d test_set`, the usage comment, ends the
  client at `-r`, which has no argument in `"rtd:"`.

Some consequences of the code are stated as properties that hold rather than as violations,
because no document says otherwise: with the shipped comparison the store is inert, and a
process answers at most as many connections as it can allocate buffers. Two more are in the
model without a property: a bucket's cache keeps only the list of the last object, since
`vector_insert` moves no size (`Accept`; nothing reads the list back), and a request to create
a set whose name extends an existing one is told of a success (`PutBucketsetExists`).
Behind the shipped comparison neither is reached.

## 4. Proofs

`BucketRoutingProofs`: for every base, bucket count, range and hash, the rounding is the
least multiple of 512 strictly above the base (`RoundingExact`), the bucket found is the
only one whose closed interval has the hash (`SearchSound`), and the search fails for
exactly the last hash of each bucket and those past the last bucket
(`SearchFailsExactlyAt`).

`SdsStoreProofs`, for every value of the constants that meets `StoreAssumption` (prefixes
are a reflexive relation, `None` is not a name, counts and lengths have their types, an offset
has an even number of values, of which a name's length and a header take at most half,
and `SetHashRange` stays below the overflow of the rounding loop):

- `TypeCorrect`: by induction, one lemma per way a step changes `sets` (`StoredStepType`,
  `RefusedStepType`, `CreatedStepType`) or leaves it.
- `StorageCorrect`: `StorageInv` is inductive relative to `TypeOK`. `OpenFilesAreFresh` is not
  inductive alone: after a restart it rests on the bucket being closed whenever the
  file was used before (`StoredKnown`, `OpenFilesExist`), and it needs a bucket to be reached
  through one set only, which is `LookupExact`; `Retrievable` needs the scan to be stable when
  a set is appended (`LookupAfterAppend`). Nothing in it depends on the width of an offset.
- `LookupExactCorrect`, `RetrievableCorrect`, `OpenFilesCorrect` are its parts.
- `PlacementCorrect` uses `HistoryStep`: `stored` changes in `PutObjectStored` only; and
  `SearchSound`.
- `InertCorrect`: no action past `Dispatched` on a real request is enabled.
- `OneAckCorrect`: an answered connection is closed (`AnsweredClosed`), and a closed one
  is never dispatched.
- `CreatedCorrect` goes through the actions: a success is told where the scan found a set, where
  one was appended, which the scan then finds, or where the registry was full (`CreatedStep`).
- `AnswersCorrect`: a history of cardinalities. The answers of all lives are at most
  `MaxBuffers` per life before this one, plus the buffers of this one (`AnswersBound`),
  because each step that answers takes a buffer and answers one connection (`AnswerStep`).
- `OneFileCorrect`: with a data length of 0 `bucket_create_data_fd` makes its file and aborts,
  so a step that makes a file ends the life in which it was made.
- `SetTakesStartsCorrect`: by `ClosedInvariant`, with a data length of 0 a set's files were all
  there before it was created, so none is open; `FilesInvariant` counts the lives they took.
- `SpaceCorrect`, `NoOverlapCorrect`: `SpaceInv` (`SpaceInvariant`) says that every offset is the
  room taken modulo `OffsetValues`, and that each object ends within the room taken so far and
  beside every other of its file, until that room is more than an offset counts; it adds that the
  history is finite and each object that was accepted takes room, so that one more is new
  in the set of entries and adds exactly its size. `Wrapping` has the facts about the modulus
  (one subtraction is enough for two summands below it); `SetSums` has the sums.
- `DirectoryImplemented`: with `owner` mapped to the set each name resolves to, every step
  of the store is `Create`, `Lose` or a stutter of `SetDirectory`.

`SetSums`: `MapThenSumSet` is a fold, defined by recursion over the subsets of a set. The library's
induction rules are out of reach, so each statement is proved from a smallest set
for which it fails (`SmallestSubset`, from the well-foundedness of the strict subsets of
a finite set): that the recursion defines a function (`FoldingUnfolds`), that any element can be
taken out first (`SumRemoves`), what one more adds (`SumAdds`), `SumOfNone`, `SumOfNaturals`.

`ExchangeProofs`, for every finite set of clients, all lengths, and every set of results of
`recv` taken for errors (`ExchangeAssumption`; the kernel has finitely many processes):

- `ExchangeTypes`: by induction, one lemma for the steps of a client, one for those of the
  server.
- `SilentCreateCorrect`: `NoLiveCreateAnswered` is not inductive. `Silent` adds why no answer
  can come: such a client sends one byte, and once the server has taken it, its `read_n`
  wants the whole request with nothing in flight and the client still there. Steps of other
  clients leave it alone (`OtherClient`).
- `NoLiveCreateCorrect` follows; `EmbraceLasts` (the action property `OnlyAKillFrees`) goes
  through the actions again from `TypeOK`.
- `EndsCorrect`: `Survival` counts (`SurvivalInvariant`). `Causes[c]` is how many calls of
  `read_cb` client `c` can still bring about: units it has not sent, units in flight, and its
  end. Under the shipped comparison each call takes a unit, or is for a client that has gone and
  whose watcher it stops or with which the server ends (`ServedOnlyGone`), so the buffers and
  the total of `Causes` never exceed the sum of `CallsFor`, with which they start (`CausesLeft`).
  So a buffer is always there for a client that is, and only the call for one that has gone gets
  past `recv`. A total of a function of clients is the sum over its pairs (`Total`), since
  a weight in `SetSums` may not depend on the state.

`HandoffProofs`, for every number of connections and every limit of descriptors:

- `HandoffCorrect`: types, and `IInv`, which TLC also checks, on the constants of the
  `handoff` run. `AloneIsItself` speaks of one
  connection; why a thread of an earlier one cannot take its `ev_thread`, or spoil its
  watcher, needs the state of all: connections are accepted in order and the variable of
  `accept_cb` has the latest or none (`InOrder`), what a thread has done to its watcher
  follows from its line (`ThreadInv`), whatever is in memory or in a list was
  taken by some thread (`FromThreads`). Either each thread has its own connection (`Tidy`),
  or some connection was left behind that nobody will ever stop (`Doomed`), and then
  no later one finds all others stopped, which is what not being crowded takes.
- `AloneCorrect` follows.

`ContainerProofs`, for every set of items and nodes, every capacity and every length:

- `VectorImplements`: `VectorSpec` implements `ItemSequence` under the mapping of the run.
  `ExpandKeeps` says that an expansion moves all that `vector_at` shows.
- `StoreAddCorrect`: by `StoreAddInv`, a list can only be in the second place, and is there
  only before a set is, since `sds_store_add` inserts without moving the size.
- `ListCorrect`, `WalksCorrect`, `DestroyCorrect`: links are those of `order` (`Live`), for
  which `WithoutProperties` says what deleting one place does to its neighbours; under
  `list_destroy` as many nodes are freed from the front as from the back (`Destroying`), so that
  the two meet in a middle or not at all.

`SliceProofs`, for every number of slices, blocks and texts of any length: `SliceInv` says which
side of the union is in use and that a block has one owner at most (`Owns`); slices that
were given to `slice_strncpy` or initialised twice are outside. `HoldsCorrect` and
`BlocksCorrect` follow.

`LibraryProofs`, for all constants under the modules' assumptions:

- `HashInvariant`: words and bytes taken, and those left, make the message; the first loop leaves
  less than a quad. `HashCorrect` follows.
- `FormatCorrect`: while digits are written, the text read on from what is left to write is the
  number (`DigitsOK`); what is left of a negative hexadecimal stays below half of what its
  remaining digits can show, so the text fits and its first digit is below 8. The complement of
  a text, filled to a length, reads as the largest number of that length minus the text's
  (`ComplementReads`), and no zero can come to its front. `ReadOn`, what a text reads as, is a
  function over its places; the lemmas show that function to exist (`ReadingsExist`, over a
  smallest place where it does not) before they reason about it. It holds for every width
  of an `int`, so of 8 digits too; the least long is undefined and stays outside.
- `LogCorrect`: unless a descriptor was closed under the logger, its descriptor is what it was told
  (`LogInv`). `BufferCorrect` (every length of a piece), `LinesCorrect`.
- `PortsCorrect`: `ConfInv` follows the file's port into the server's configuration and socket, and
  into the client's, for every file and width of an `int`; `Ports` is above the default port
  (it is 2^16), and nothing is said of the port the system chooses.
- `OptionsCorrect`: `ClientInv`, for command lines of any length.
- `Md5Correct`: the two words of the count are the bits given so far, the buffer's index is
  the bytes given modulo 64, and what was transformed and what is buffered is the
  stream (`InBlocks`); `TransformCorrect` and `DigestCorrect` follow, for every length of
  message, of a read (`ReadSize`, less than the index can count) and every word that blocks divide; a
  string whose index wraps is a job that never ends, outside of both.
- `LibraryParts`: a step of the libraries is a step of a part and leaves the others, so the
  theorems hold of the specification of the run: `StoreScansCorrect`,
  `LibraryVectorCorrect`, and `LibrariesCorrect` for the run's invariants.

Every invariant and every safety property of the passing runs is so proved.
All liveness is only model-checked (`LoopReturns`, `HangupsSettled`,
`PutsReturn`, `HangupFreesTheLoop`, `AloneIsServed`): fairness and `ENABLED`
are out of the prover's reach.

## 5. Not modelled, and plan

Not modelled:

- what `md5_transform` and `dm_round` compute (functions of a block: the only statement would
  be the definition), and texts: log messages, `conf_dump`, `slice_print`, hexadecimal digests;
- `parse_file_name` and `fetch_sock_addr_info` (`common/utils.c`), which keep no state;
- functions that are declared and have no body (`bucket_get`, `bucket_del`, ...), and
  `netsocket_deinit`, which is never reached because nothing breaks the loop;
- memory that is silently overwritten: after it the code may do anything, and a model of that
  has no property to state. `Handoff`, `Slice` and `Vector` say where it begins;
- the Makefiles.

Left for later: in `Exchange`, a configuration the client cannot read, and a file of an object
that cannot be opened (the loop over it never ends).
