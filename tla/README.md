# TLA+ models of the gateway

The gateway is two programs and a storage between them. `gwfront` takes
messages over HTTP, checks them and puts them into Redis (a stream) or Postgres
(a table). `gwback` takes them out again in chunks and saves them to files.
This directory models both halves, checks them with TLC on small instances and
proves the central facts with TLAPS.

## The system

| part | state | operations | talks to |
|---|---|---|---|
| `HttpServer`, `HttpSession` (`gwfront/src/http`) | acceptor, `stopping_`, workers; per session the stream, request, response, deadline | start, stop, accept, onAccept, read, onRead, handleRequest, onWrite, close | calls the handler |
| `UniversalHandler` (`gwfront/src/handler`) | none | check, write, translate the error | checker, writer |
| `JsonChecker`, `FlatbuffersChecker` | none | check | - |
| `RedisWriter` | `connections_` (one hiredis context per thread), `mutex_` | write, findConnection, createConnection, reconnect, authenticate | Redis |
| `PostgresWriter` | `connections_` (one pqxx connection per thread), `mutex_` | write, findConnection | Postgres |
| run loop and `main` (`gwback/src/main.cpp`) | `run`, the chunk in hand | getNext, consumer, markConsumed, pause; signal, join, exit | producer, consumer |
| `RedisProducer`, `PostgresProducer` | one connection | getNext, markConsumed, reconnect | storage |
| `MessageConsumer` | `buffer_`, detached threads, the output folder | operator(), flushBuffer, saveMessages, destructor | file system |
| configuration, `initLog`, `resolveHost` (`common/utils`, both `utils/config.cpp`) | the `Config` of each program | parse and check the tables, filter the log, resolve the Redis host | file, DNS |
| `waitSignal` (`common/utils`) | the mask of signals | block, wait | both `main` |

What is hard: the workers of `gwfront` share a pool and retry writes whose
effect they do not know; `gwback` deletes messages from the storage as soon as
they are in memory, saves them in threads nobody waits for, names files in a way
that lets two batches meet in one file, receives messages again after a failed
deletion, and can be stopped or killed at any point. The list of hazards with
their lines is in `PROJECT.json`.

What makes the parts correct:

* a message leaves the storage only after the process that deletes it took it;
* nothing that was accepted disappears, as far as the code means to keep it;
* without failures each message is handed over once and in stream order;
* the storage is drained, batches reach their files, a stop ends the process;
* `write()` reports OK only for a stored message, stores a bounded number of
  copies, hides a connection that broke while idle, and always returns;
* connections are never shared between threads and never leaked;
* the accept chain never breaks or forks, every request is served by one worker
  and answered truthfully, silent connections are closed, `stop()` returns;
* the checkers accept exactly the instruments that are complete, and say what
  the first defect is;
* a program that starts has numbers that were not cut and a storage that is set,
  and both programs use the same one;
* end to end: what a client was told is stored reaches `gwback`, and resending
  makes one duplicate per fault at most.

## Modules

* `MessageConsumer` - `buffer_`, the calls of `saveMessages` in detached threads
  (`savers`) and the folder (`files`, keyed by the pair of ids in the name). It
  defines parts of actions. A message is its id and a length (`Length`). Each
  stream writes at its own byte (`at`), also where two have one file open; a file
  is the set of the messages that are whole in it, with the bytes they begin at, and
  a write destroys every message it touches and does not repeat (`WrittenOver`). A
  message is written in one step; `std::ofstream` writes in blocks, that is several
  such steps at once, or a part of a long message now and the rest later. The latter
  is left out: it makes no difference while a file has one saver, or several that
  have the same bytes for a message in the same place, and those are the cases
  `NothingLost` is about. A failing write may leave a part of a message.
* `GwBack` - extends it with the run loop, `main`, the storage and the faults:
  `GetNext`, `Consume` (one iteration of `operator()`), `MarkConsumed`, their
  throwing forms, `Wake`, `LeaveLoop`; the savers; `Signal`, `Join` (with the
  destructor's save, the last saver), `Exit`, `Crash`, `Start`. `Ordered`
  tells a Redis stream (ids appear in increasing order) from a `BIGSERIAL`
  column (ids appear when their transactions commit). A producer is what its two
  calls do to the storage, or an exception; a deletion that throws may or may not
  have happened. `stream` and `produced` are history variables. `Chunking` is
  the part of a producer that `GwBack` shares with the modules below: the
  smallest ids of the storage, ascending, at most `chunkSize` of them.
* `AtLeastOnce` - the abstract promise of the back half: pending, accepted,
  taken. `GwBack` implements it with `pending <- stored`, `accepted <- produced`,
  `taken <- Range(stream)`.
* `MCGwBack` - the sets of ids and budgets of events for TLC.
* `Hiredis` - external: contexts with a sticky error, and what a `redisCommand`
  may leave behind.
* `RedisWriter` - `write()` of all worker threads step by step: search, connect,
  AUTH, push, XADD, reconnect, AUTH, XADD. The critical sections of `mutex_` are
  single steps. `copies` counts what the server really added.
* `Pqxx` - external: a libpqxx 6 connection goes through good, stale, bad, null:
  a statement fails, then the activation fails and drops the handle, then it
  connects again. A connection lost under COMMIT throws `in_doubt_error`.
* `PostgresWriter` - `write()` with `RECONNECT_RETRIES`, `findConnection` with
  the exclusive lock held while connecting; `in_doubt_error` is reported as
  GENERIC and not retried.
* `PostgresProducer` - `getNext` and `markConsumed` statement by statement on the
  one `connection_`, which is made by the first call that can and then kept;
  nothing is retried here, the run loop comes back.
* `RedisProducer` - `getNext` and `markConsumed` command by command on the one
  context: connect, AUTH, XRANGE or XDEL, reconnect, AUTH, and the command again.
  An entry is a pair of timestamp and sequence number, a message is the packed
  id of `MessageId`, where shift and width are parameters; for a sequence number
  under the mask (`Fits`) the bitwise or of the code is a sum. `Producer` is the
  abstract promise (a chunk or an exception; a failed deletion happened or did
  not; nothing else leaves the storage), with exactly the outcomes that
  `GwBack` gives its producer; both producers implement it. `MCRedisProducer` is
  the instance of the first.
* `HttpServer` - `main`, `start` and `stop` of gwfront, the workers of the
  `io_context` and the sessions. A worker runs one completion handler at a time;
  `onAccept` is three steps (session, test of `stopping_`, `accept()`), a request
  is taken in one step and answered in another. Operations of Boost complete or
  fail by actions of the network, the client and the clock; `late` says that the
  deadline of the last `read()` has passed, `gone` that the client left. The
  handler is its set of results: BAD_DATA for an invalid body, otherwise what
  the writer promises. Two races of the code are choices of the model: `accept()`
  against `close()` of the acceptor, and `stop()` on a lock-free `io_context`.
  `MCHttpServer` holds the instances.
* `StorageWriter` - the abstract writer: a call ends with an error and a number of
  copies that `Promise` allows together. Both writers implement it, each with
  its own promise.
* `Gateway` - the composition: `HttpServer` (an instance, with its own state),
  killed or stopped at any time and started again, the storage, and `gwback` as
  `AtLeastOnce`, with clients that each send one message until it is answered
  with 202 or refused. Faults are counted: a mishap in front, a result other than
  OK, a second copy, a kill, a `gwback` that starts over. A kill of a `gwfront` that
  no longer accepts is free, since somebody has to notice it. `MCGateway` is its
  instance.
* `Checkers` - both `check()` functions, one step per field. A body is a value for
  each of the 44 fields of `instrument.fbs`; the JSON parser and the flatbuffers
  verifier say yes or no. The number of fields of each kind is a parameter.
* `Startup` - extends it with the start of both programs on one file: arguments,
  `fillConfig` table by table in the order of each program, `initLog`,
  `makeHandler` and the choice of the producer, the Postgres connection string (its
  five words) and how libpq reads it word by word (external: blanks, backslashes and
  quotes are what `Lexed` says of a string), `resolveHost`. `Rule` is the table of all
  parameters with type, bounds, cast and default; a value of another TOML type
  counts as absent. The started `gwfront` has the checker its file chooses and
  checks one body. `MCStartup` is its instance.
* `GwBackProofs` (for `MessageConsumer` too), `PostgresWriterProofs`,
  `PostgresProducerProofs`, `RedisWriterProofs`, `RedisProducerProofs`,
  `HttpServerProofs`, `GatewayProofs`, `StartupProofs` (for `Checkers` too) - the
  theorems, each about the module it is named after. Both Postgres modules begin with
  the lemmas about libpqxx, both Redis modules with those about hiredis.

Definitions marked "Mutant" are deliberately wrong variants of the definition
they precede; no specification uses them. They show that each property notices
a plausible mistake.

## Runs

| run | instance | checks |
|---|---|---|
| `gwback_redis` | 4 ids of one length, chunks of 3, ordered, 1 failing fetch, 3 failing deletions, 1 failing file | `TypeOK`, `NothingLost`, `InOrder`, `NamesCoverContents` |
| `gwback_postgres` | 3 ids, one longer, chunks of 2, unordered, one of every event | `NoRedelivery`, `ChunkInHand`, `NothingLost`, `AtLeastOnceSpec` |
| `gwback_live` | 3 ids, one longer, chunks of 2, ordered, 1 failing fetch and deletion, 1 stop | `Drained`, `QuietTail`, `EventuallySaved`, `StopTerminates` |
| `gwback_postgres_loss` | 3 ids of one length, chunks of 3, unordered, storage faults | `PersistentState`, violated |
| `redis_writer` | 2 threads, 3 contexts, 3 faults | `TypeOK`, `Exclusive`, `NoLeak`, `LossMasked`, `WriterSpec` |
| `postgres_writer` | 2 threads, 4 faults | `TypeOK`, `LossMasked`, `WriterSpec`, `WriteReturns` |
| `redis_producer` | 3 entries, chunks of 2, 5-bit ids with a shift of 2, 4 faults | `LossMasked`, `ProducerSpec`, `Drained` |
| `postgres_producer` | 3 ids, chunks of 2, 4 faults | `TypeOK`, `TwoThrows`, `ProducerSpec`, `Drained` |
| `http_server` | 2 workers, 2 clients, 5 kinds of request, symmetric | `TypeOK`, `StatusTruthful`, `AcceptChain` |
| `http_live` | 1 worker, 2 clients, 1 kind of request | `Served`, `StopReturns` |
| `startup` | every file two changes or fewer away from the shipped one; every body with at most two wrong fields, either type | `Prepared`, `SameStorage`, `AsConfigured`, `Verdict` |
| `gateway` | 1 worker, 2 clients, 3 attempts, 2 faults | `AnsweredKept`, `OneDuplicatePerFault`, `EventuallyDelivered` |

Why the bounds are enough. Two batches meet in one file only after redelivery;
with chunks of three, three failing deletions and four ids the buffer boundary
and the chunk boundary shift against each other in every way, and all pairs of
equal names of that size occur (smaller bounds find the loss with `Ordered = FALSE`,
and with one message that is longer than the others). A length of two lets a write
fail in the middle of a message, lengths of one and two let a write fall across the
end of another. Three ids and chunks of two are enough for the liveness run to have a full
buffer, a part-filled one and a redelivered one; its stream is ordered, because
over a table two batches may share a file and then neither the tail nor anything
else is certain. For the writers, three faults
allow a lost reply, a lost reconnect and a further loss in the next call; one
context more than threads would let a leak show. The entries of `redis_producer`
include the largest timestamp and sequence number that fit, and two chunks.
Clients of `HttpServer` connect, send and leave again and again, so its runs
have no bound but the numbers of threads and clients; one worker between two
clients is the scarcest case. In `startup` the changes put every number on both
sides of its bounds and of the width of its cast, make every parameter absent, empty
or of another type, and take tables away; a host and a password also have a blank, a
backslash or a quote where libpq minds them (`Lexed` lists such strings with what
libpq makes of each). `Uint32` is 2^20 for TLC, which has no larger
integers than 2^31 - 1; the proofs have any that is above `MAX_CHUNK`. Two changes are what it takes to set one parameter
wrong in one storage and remove the other. A verdict about a body depends on the
fields before the first defect, so two wrong fields are enough. In `gateway` one
attempt more than there are faults is the assumption of `EventuallyDelivered`; two
faults allow a lost answer and a kill after it. Deadlock is checked in every run
but `startup`, whose programs start and whose checker returns, and `http_live`:
with one worker the stop may be missed (`server.cpp:10` builds
the `io_context` without locks, `stop()` uses it from another thread), and then
`joinWorkers()` really waits for ever.

`NothingLost` was, before it was proved, also explored with three ids and five failing deletions
(chunks of 3/3 and 4/3) and four ids and four failing deletions (4/4 and 3/2).

What the violated run shows. README.md of the repository promises a gateway
"with persistent state". `saveMessages` names a file after the smallest and the
last id of its batch (it computes `maxId` from `minId`), and after a failed deletion
two different batches can have one name. Over Postgres these are 1,1,3
and 1,2,3 (ids committed out of order), and the
detached savers may run in the wrong order: message 2 is gone. A true maximum would
not help here, both would still be called 1-3. The same run with `Ordered` TRUE and
`ThirdLonger` for the lengths shows that a Redis stream is not safe either: there
the batches are 1,1,2 and 3,1,2
after two deletions without effect, both called 1-2. If message 3 is longer than
the others, the bytes of the two do not line up: the late write of 2 by the first
saver falls on the second's copy of 1, whose other copies the second's truncation
destroyed, and message 1 is in no file. `NothingLost` shows that this takes both, a
failed deletion and either an unordered storage or messages of different lengths,
and `NothingLostAlways` that it does in any bounds; what it lets go are the messages of
a batch whose file could not be written.

What the code does not handle, and the properties therefore count out:

* a batch in a detached thread is already deleted from the storage; a plain stop
  ends the process without waiting for that thread (`consumer.cpp:79`);
* the last messages of a quiet period, fewer than a batch, stay in memory
  (`QuietTail` bounds them);
* a failed accept ends the service, and one worker may miss the stop;
* an AUTH refused on a reconnect leaves a context on which all commands fail until
  the server closes it, and an error of hiredis other than EOF and IO, which a failed
  `redisReconnect` can leave too, one on which they fail for ever (`Stuck`);
* `resolveHost` reads the first address as IPv4 whatever it is: a host whose first
  address is IPv6 becomes `0.0.0.0`;
* a Postgres parameter with a blank or a backslash in it, or with a single quote in
  front, is read by libpq as something else or refused (`connectionString` quotes
  nothing), after a start that looks right.

Fairness. `gwback_live` assumes weak fairness of the run loop, of `main` after
the signal and of the detached threads: they are plain OS threads that block
only in `join` or in a pause of one second. Nothing is assumed about new
messages, signals, kills or restarts. Faults are bounded, so a storage that
fails for ever is not considered. `postgres_writer` assumes weak fairness of each
worker inside `write()`; the shared holders of `mutex_` are single steps, so
starvation of a writer by readers is not considered. `redis_producer` assumes
weak fairness of the run loop, and so does `postgres_producer`. `gateway` assumes
only that something happens while something can: weak fairness of one action, the
disjunction of all steps that are no faults. Restarts and clients that try again
are part of it; both are outside this code, and are what the claim is about.
`http_live` assumes that threads run and time passes (weak fairness), and strong fairness of accepting a waiting
connection and of running a queued handler: the backlog of the kernel and the
queue of the `io_context` are first in first out. Nothing is assumed about
what clients do.

## Proofs

Every theorem holds for all values of the constants: any number of threads,
clients, ids, contexts and fields, any chunk size, any number of faults and
attempts. What is assumed of the constants stands as an ASSUME in the module that
declares them, and TLC evaluates it in the runs:

* ids are naturals (positive and below `IdMax` in `GwBack`), chunk sizes are
  positive (`Prepared`: the configuration rejects 0);
* `RECONNECT_RETRIES` is at least 2, and the code has just 2 (`postgres_writer.cpp:11`): with
  1 a connection that broke while idle would use up its retries and `LossMasked` fail;
* what the server assumes of a writer (`Promise`): OK comes with at least one
  copy. This is not left open, both writers are proved to keep it (`WriterSpec`);
* there is a worker, the workers are finitely many, and no client is called like
  one of the words for what a worker does;
* an entry of the Redis stream fits into the packed id: its sequence number is under
  `SEQUENCE_MASK` and its timestamp in the bits above (22 of 64 bits in the code);
* a message takes at least one byte of its file (the newline);
* an integer of a configuration file is an integer; `Uint32` is above `MAX_CHUNK`, and
  no string libpq minds is empty.

Each property is proved from an inductive invariant, `Inv` or the lemmas in front
of its theorem. What is in them beyond the property, and why:

* `GwBackProofs`. `TypeCorrect`: `TypeOK` is inductive; its one non-type part says
  that a chunk being consumed is not exhausted. `ChunkInHandAlways`: while a chunk
  is consumed it is stored, and its first `pos - 1` messages were handed over; only
  the run loop deletes, and it does so only at "mark". `ImplementsAtLeastOnce`:
  `Produce` maps to Accept, both forms of `Consume` to Take (the message is pending
  because the chunk in hand is stored), both forms of `MarkConsumed` to Acknowledge or
  a stutter, `Start` to NewReceiver, everything else to a stutter.
  `NoRedeliveryAlways` needs that between chunks nothing that was handed over is
  still stored, which a failed deletion or flush breaks. `InOrderAlways` is for
  `Ordered` storages, with the hypothesis stated: whatever is stored and not yet
  handed over is larger than everything that was. Over a table it is false.
  Both theorems about files rest on `NameOfBatch`: the loop of `saveMessages` names
  a file after the smallest and the last id of its batch. `FileName` is a recursive
  function; that it has a value is shown by giving it, that the value is the only one
  by the least index at which another could differ.
  `NamesCoverContentsAlways` (`Ordered`): while nothing is handed over again, batches
  and buffer are ascending, so that first and last id bound them (`CoverInv`).
  `NothingLostAlways` (`LostInv`) has two halves. While no deletion has failed,
  nothing is handed over twice, so that no two batches share a file (`OwnFile`), and
  what a saver has written stays there, whatever the lengths (`AloneKept`). The other
  half, for an `Ordered` storage and `EqualLengths`, is the longest argument, in four
  parts. What leaves the storage is older than what stays (`OldestFirst`), and after a
  deletion without effect the next chunk begins with the last one (`ChunkExtends`).
  So what is handed over again was handed over before in the same order
  (`Redelivery`), and once a message is deleted, all that follows its last position
  in the stream is younger, and a message that stood both before and after that
  position stood at the same distance from it (`SettledOrder`). The batches are the
  stream cut at multiples of the chunk size (`Cut`). Hence every
  batch with the name of the one that has a deleted message at its last position has
  that message in the same slot; and a slot that all batches of a file agree on is in the file
  unless one of them has yet to write it or failed (`SlotsKept`, where slot k begins
  at (k - 1) times the one length). Over a table the
  second step fails, with different lengths the last.
* `PostgresWriterProofs`. The row of a call becomes visible in the step that ends
  the call, so that a call in progress has inserted nothing; a call that has to hide
  a loss has a retry left for each exception libpqxx still throws on account of it
  (two when the connection is stale, one when it is bad). `LossIsMasked`, and the
  refinement `PostgresWriterRefines`, follow. `TypeOK` has the mutual exclusion
  of `mutex_` in it.
* `PostgresProducerProofs`. How often a connection has thrown is bounded by what
  libpqxx has noticed of its loss: `AtMostTwoThrows`. `PostgresProducerRefines` maps
  `getNext` and `markConsumed` to the outcomes `GwBack` gives its producer.
* `RedisProducerProofs`. `LossMaskedAlways`: while `getNext()` has a loss to hide, a
  new context is as the server made it, the first XRANGE meets no error but the lost
  connection, the second none (`Maskable`). `RedisProducerRefines` rests on the
  arithmetic of packed ids: `entryId` undoes `messageIdFromReply` (`Unpacks`), which
  keeps the order of the stream (`PacksInOrder`), so that an XRANGE is a chunk and an
  XDEL deletes the chunk and nothing else, for every shift and width.
* `RedisWriterProofs`. `Exclusive` and `NoLeak` are inductive only together and with
  `OwnContext`: a context between its creation and the `push_back` belongs to one
  thread and is not in the pool, and afterwards its entry is that thread's.
  `LossIsMasked` follows what a call knows of its context at every place (`MaskOf`),
  `RedisWriterRefines` counts the copies it can have stored by then (`CopiesSoFar`).
* `HttpServerProofs`. For `AcceptChainAlways`, `Chain` tells what `start()` builds up
  step by step, and that exactly one thing, the pending operation or one worker
  inside `onAccept`, stands for the chain. `OneHandler` says that of a session and
  the workers, which turns the cardinalities of `TypeOK` into identities.
* `GatewayProofs` takes the invariant of the server over by instantiating its
  proofs: every step of the composition but a kill and a restart is one of
  `HttpServer`. `AnsweredKeptAlways` needs the response under way: a 202 that is
  still being written already has its copy. `OneDuplicatePerFaultAlways` needs a
  ledger for each client (`Ledger`): as long as it will send again, its copies plus
  the faults that are counted and may still cost it a response are at most the
  faults, with one more copy while a 202 is under way. The point is the order: a
  fault is counted when a client leaves, a deadline passes, an accept fails or a stop
  is asked for, and the response is lost later, so the ledger has to remember who
  may lose one (`Own` for the client's own session, `Doomed` for the process).
* `StartupProofs`. Each `Config` is, table by table, what the file says or the
  defaults (`Faithful`), and a program past an entry of its list has done it
  (`Behind`). `PreparedAlways` adds that every number has a least value of 1 and a
  greatest that fits in the type it is cast to, of 16 or 32 bits; `SameStorageAlways` that the two
  lists, though in another order, both have the two storages before their end;
  `AsConfiguredAlways` that what a started program made of its tables is what the file
  asks for (`ReadAsAsked`), with the five words of
  the connection string followed through libpq one by one (`ReadAsGiven`), none of them
  a string libpq minds;
  `VerdictAlways` that all fields behind the one being looked at are right
  (`Checking`).

The provers' part ends where TLC's goes on alone: with the liveness properties
`Drained`, `QuietTail`, `EventuallySaved`, `StopTerminates`, `WriteReturns`,
`Served`, `StopReturns` and `EventuallyDelivered`, which need fairness
and ENABLED. Every invariant, action property and refinement that a passing run
checks is a theorem.

## Plan

Every part with state is modelled, and every safety property is proved. Left: shorter
proofs where a lemma of `GatewayProofs` about one session repeats one of
`HttpServerProofs`.

## Not modelled

The format and the sink of the log (pure I/O); boost::program_options, toml++,
the JSON parser, the flatbuffers verifier, hiredis, libpqxx, libpq, Boost.Asio and
Beast beyond what the code sees of them; the limit of open connections (any
connect may fail instead); the strand the stream lacks (either outcome of the
timer wins); sequence numbers of a Redis stream beyond the 22 bits; the
contents of messages beyond their validity.
