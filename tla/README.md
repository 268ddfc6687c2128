# Verification of tokensrv

TLA+ models of tokensrv, a tokenization service (HTTP front end, thread pool,
PostgreSQL), checked with TLC on small instances and proved with TLAPS for
every value of the constants. `PROJECT.json` lists the components, runs,
mutants, the lines each definition models, the findings, the hazards and the
theorems. Paths below are relative to the repository.

    tlc -config Executor.cfg MCExecutor     # any pair of runs in PROJECT.json
    tlapm ExecutorProofs.tla                # any module *Proofs

## 1. The system and its parts

| part | state | operations | module |
|---|---|---|---|
| `async::Executor` (`include/executor.hh`) | queue, `done`, threads, mutex, condition variable | `add`, worker loop, `halt` | `Executor`, abstractly `TaskPool` |
| Rate limit (`src/ratelimit-1.sql`, `rate_limit` in `src/authdb.cc`) | `user_limits`, row locks, transactions | `user_limit` with commit and rollback | `RateLimit`, abstractly `Quota` |
| Request handlers (`src/include/tokenization.hh`) | per request: limit, results; shared: metrics, quota | six routes, `preliminary`, `authorized`, `response_set`, trackers | `Handlers` |
| HTTP session (`session/basic.hh`, `plain.hh`) | buffer, operation under way, strand | `perform_read`, `on_read`, `perform`, `perform_write`, `on_write` | `Sessions` |
| Connections (`listener.hh`, `session/detect.hh`, `session/secure.hh`) | accept loop, bytes received, `target_length` | accept, detect, handshake | `Detection` |
| Users, vaults, grants, limits (`src/authdb.cc`) and the command line that fills them (`processVaultCmd`, `processUserCmd`, `options.hh`) | five tables and the vaults' own | `init`, `create_user`, `createVault`, `grant_user`, `limit_user`; `accessible`, `user_limit`'s join | `AuthDB` |
| JSON and tokens (`marshal.hh`, `types/`, `marshal_json.hh`) and routes (`route_config.hh`) | a marshaller's state; the manager's entries | getters and setters, dates; registration, `getRoute` | `Tokens`, abstractly `TokenMap` |
| Service (`service.hh`), `--start` and `--stop` (`processStartCmd`, `processStopCmd`) | `running`, threads, the port; processes, the pipe from `ps` | `addListener`, `start`, `thread_main`, `join`; fork, match, kill | `Lifecycle` |
| OpenSSL provider (`opensslprovider.hh`) | its key | encrypt, decrypt, hmac | not modelled |
| Configuration, `main`, logging, build, deployment | values | parsing, set-up | not modelled |
| libtoken, dbcpp, Boost, OpenSSL, PostgreSQL, the operating system, clients | | | external, by how they are used |

How they interact. The listener accepts a connection and starts a session; a
`DetectSession` peeks at the first bytes and hands socket and buffer to a plain
or a TLS session. A session reads one request, `add()`s a job to the executor
and waits; a thread of the executor finds the route and calls the handler,
which asks `AuthTokenDB` (one pooled connection for each call), converts the
body with a marshaller, calls the token manager, and then starts the write of
the response. That the response is written is told to the session's strand, and
the session reads again. Command lines (`--create-vault`, `--create-user --grant
--limit`) are other processes on the same database; `--start` and `--stop` are
processes that find the server by its name in the output of `ps`.

What is hard about it:

* *interleavings*: `add()` tests `running()` without the mutex (`executor.hh:98`);
  a worker calls a job after it released the mutex (`executor.hh:57`);
  an executor thread starts a write outside the strand (`basic.hh:283`); several
  servers and commands work on the same tables with check-then-write
  (`ratelimit-1.sql:29`, `authdb.cc:14, 234`); pids are used again between `ps`
  and `kill` (`tokenization.hh:195`);
* *failures*: exceptions leave handlers half-way (`tokenization.hh:481, 548`);
  `rate_limit` answers -1, no limit, when the database fails (`authdb.cc:210`),
  and throws when there is no connection or the rollback fails (`authdb.cc:211, 224`);
  a command may die between its transactions;
* *ordering*: pipelined requests; `now()` of a transaction that waited for a lock
  (`ratelimit-1.sql:48`); bytes that trickle in one by one (`detect.hh`);
  connections that arrive before the service has a thread (`service.hh:72`);
* *termination*: `halt()` joins all workers; lock waits and deadlocks in the
  database; `read_completion` ignores its error code (`detect.hh:145`); `ps` and
  its reader wait for each other (`tokenization.hh:164`);
* *data*: one marshaller holds first the request and then the answer
  (`marshal.hh:141`); dates are read as local time, whatever their offset and
  however much of them could be read, and written as UTC (`types/token.hh:22`).

`PROJECT.json` lists these as hazards, each at its line, with the properties that cover it.

What makes each part correct. *Executor*: no job lost, duplicated or run twice,
no lost wake-up, `halt()` returns and afterwards nothing runs. *Rate limit*:
concurrent calls are answered as if one at a time and never beyond the quota.
*Handlers*: work is covered by the charge, batch answers match their items,
metrics match the requests. *Sessions*: answers in order, one user of the stream,
each request answered, sessions end. *Connections*: no byte lost, the right kind
of session, accepting never stops. *AuthDB*: entries and tables whole and unique,
grants and limits effective. *Tokens*: the right handler with the right
parameters, a token holds what its client last asked for, answers tell that and
belong to their items. *Lifecycle*: a `--stop` misses nobody and ends, early
connections are accepted.

## 2. Modules and how they correspond to the code

**Executor** has one action per critical section and per unguarded read of
`done`: `AddTest`/`AddPush` are `add()`, split at the place where anything may
happen between the test and the mutex; `WorkerTake`, `WorkerSleep`, `WorkerExit`
are the outcomes of the predicate under the mutex; `WorkerCall` is the call of
the job after the mutex was released, so that `halt()` may set `done` in
between; `WorkerReturn` and `WorkerTest` are the end of the job and the loop
condition; `HaltTest`, `HaltClear`,
`HaltJoined` are `halt()`. Spurious wake-ups are a step. `Init` chooses which of
`Workers` the executor was given; with none it calls the job in `add()`.
`job[j]` records how far the call and the job are; `queue`, `done` and `held`
are the code's. That `done` is a plain `bool` is modelled by reading its current
value at each read; reordering by the compiler is not.

**TaskPool** is what the users of the executor rely on, without its mechanics.
`Executor` implements it (`ImplementsTaskPool`) under the mapping `PoolStatus`:
in particular a job that reaches the queue after `halt()` cleared it, which the
code allows, counts as dropped: nobody will take it.

**RateLimit** is one configuration row of `user_limits_config`, the rows of
`user_limits` that belong to it, and callers that each run one transaction:
`Begin`, `SelectNothing` or `SelectRow`, `LockRow`, `Insert` or `Update`,
`Commit`. It starts with the row in place, at any point of a window, or with an
empty table, and then with or without a configuration: before `Configure` calls
are not limited (`SelectNoConfig`). PostgreSQL at READ COMMITTED is external: row locks are held to the
end of the transaction, a locking read that waited sees the row as committed
last, `now()` is the start of the transaction, a cycle of waits aborts one
transaction. The failures are those `rate_limit` tells apart: of a statement,
of the commit (the answer is already set), of the whole server; without a
connection, or when the rollback fails too, the call ends by an exception
(`RateLimitThrows`). `ends` and
`spent` are history: the end of the open window and what was handed out in it.

**Quota** is the serial meaning of `rate_limit`: at one moment between call and
return the call takes what is available. `RateLimit` with its row in place
(`Seeded`) implements it; calls that failed after they computed their answer
are `ServeUnrecorded`, and those answered -1 `FailOpen`.

**Handlers** follows requests through `preliminary` (authorization, charge), the
items of the body, `response_set` and the destructors of the trackers. A call
of the database or the manager is a step; an exception goes to `Throw`
wherever the code has no `try`: from authorization, the charge (`ChargeThrows`),
the manager, or the response (`RespondThrows`, text that is not UTF-8).
`rate_limit` is one step here because `RateLimit` implements `Quota`. Bodies are sequences of outcomes, for all that
matters of an item here is whether it succeeds, yields an error entry or throws.

**Tokens** is the other half of the handlers: what becomes of the data. `Send`
is `getRoute` on a path (a sequence of segments, `Clean` dropping the empty
ones) with `Route` binding its parameters; each call of the manager is one
action (`Tokenize`, `Detokenize`, `Remove`, `Query`, `Status`) together with the
conversions before and after it, and its exceptions are actions of their own
(`TokenizeFails`, `LookupFails`, `Throw`). Properties with an entry that lacks
its name or value are read by `operator[]` of a const object, which is undefined
(`marshal_json.hh:43-46`): the getter throws, the process ends and is started
again (`Abort`), or something is read. A JSON object, a marshaller's state
and a `TokenEntry` are functions from the fields they have, so that `Set`, which
calls a setter for each field that is there, is a union of functions. Dates are
what `strptime` reads of a clock (`Unparsed` if it reads nothing) and any offset
or none; `ToTime` and `FromTime` are what `mktime` and `gmtime_r` make of them in
the time zone `Zone`. Clients compose bodies or send back an object they were
served (`seen`). `Braced` is the set of the segments that begin with a brace. The
requests are those `preliminary`
let pass with a full grant; `Handlers` has the others. The manager keeps
`vault`; `asked` is history: the body that set each token last.

**TokenMap** is what a client may believe: a map from tokens to data, of which
each answer tells what it holds. `Tokens` implements it with the data of `vault`
for the map and those of the answers for what was told; that the vault holds
what clients asked for is `StoredAsAsked`.

**Sessions** composes sessions with `TaskPool` (`INSTANCE`): `OnRead` accepts or
drops a job, `Perform` runs inside a job that was taken and starts the write,
`PerformReturns` may come long after, when the session may be several requests
ahead. `threads`, chosen at the start, tells an executor with threads from one
that runs jobs inside `on_read`. The client may pipeline, half-close or reset.
`alive` turns FALSE where an exception leaves `ioc.run()` (`remote_endpoint()`
of a connection that was reset, `basic.hh:91`): `std::terminate`.

**Detection** models the accept loop and the composed `async_read` with
`read_completion`, some bytes at a time, `is_handshake` with its changing
`target_length`, the hand-over and the handshake, which may fail at once, for
detection looks at no more than a header. Of the bytes only their
number, whether the first is 22, and the record length are kept.

**AuthDB** models commands as processes on one database: `FindTables`,
`CreateTables`, `CommitTables` are `init()`; `CreateUser`, `Grant`, `Limit` one
transaction each; `FindVault`, `CreateTable`, `InsertVault` the single one of
`createVault`. `new[p]` is what `p` wrote and did not commit; a statement that
would break a UNIQUE constraint waits for an uncommitted rival. Serial ids
advance also when the transaction fails, which is what makes the ids of
different tables drift apart. `Accessible` and `ConfigsOf` are the two queries
of the service on these tables.

**Lifecycle** models commands as processes on a small set of pids: `Launch`,
`Fork` (with `setsid`, which may or may not leave the terminal), `Bind`
(`addListener`) or `BindFails`, `SetRunning` and `Spawn` (`start()`), `Enter`
(`thread_main` reading `running`), `Accept`, `AcceptThrows` (the exception that
leaves `ioc.run()`, `basic.hh:91` and `service.hh:33-37`, and ends the server);
and a `--stop` that starts `ps` (`Ps`), waits until it has written its lines into
the pipe, which has room for a number of them from `Rooms` (lines differ in
length; `PsWrites`, `PsEnds`), and reads these
in the order of pids: `Skip`, `Kill`, `KillFails`, `NoLine`. The operating system
is external: a process that ends frees its pid, its port and its threads at
once, a signal reaches whoever has the pid by then, and a `ps` blocks when the
pipe is full. `spared` is history: who was listed and did not die since.

The **MC** modules make the instances; a mutant (a definition with the comment
`Mutant`, or named in `PROJECT.json`) is a plausible bug that its property
must catch.

## 3. The runs, their bounds and what they show

| run | instance | shows |
|---|---|---|
| `executor` | any subset of 2 workers, 3 jobs, 1 `halt` | all safety and liveness of the pool, with threads and without; refinement of `TaskPool` |
| `ratelimit` | 2 callers, quota 2, requests of 1 or 3, clock to 2, all failures, from a row and from an empty table, with and before a configuration | quota, monotone windows, serializability, every call returns |
| `ratelimit_first_row` | 2 callers, quota 2, no failures | *violation*: two first calls both insert |
| `handlers` | 2 requests of every kind, up to 3 items, quota 2, all failures | metrics, quota, batches, counters |
| `tokens` | 2 requests of every kind, 11 paths, 4 bodies and what was served, batches up to 2, 1 token the manager makes up and 1 the clients name, a server one off UTC | routes, storage, answers; refinement of `TokenMap` |
| `tokens_put` | the same | *violation*: a PUT does not use the token of its path |
| `sessions` | 1 connection, 3 requests, with and without threads, `halt` | order, exclusive stream, nothing after a close, answers, endings |
| `detection` | 2 connections, records of length 0 and 2, 8 bytes | bytes, kind of session, who keeps a read spinning, accepting goes on |
| `authdb` | 2 processes, 3 command lines, 2 users, 1 vault | whole and unique entries, grants as asked, commands end |
| `authdb_access` | 1 process, 2 command lines | *violation*: a granted vault is not accessible |
| `authdb_limit` | 1 process, 2 vaults, 3 command lines | *violation*: a limit is not found for its vault |
| `lifecycle` | 3 pids, 1 terminal, 2 threads, 3 commands, a pipe for 2 or 3 lines | `--stop` misses nobody and ends exactly if the output of `ps` fits, early connections are accepted |

Why the bounds are enough. Two workers and three jobs give a job to each and
one that waits, so that a wake-up can go to the wrong or to no worker. Two
callers race for a row, and one may begin before and lock after a window ended;
a quota of 2 with requests up to 3 has calls below and above the rest; the
proofs cover any number of callers. Two requests share a quota smaller than one
batch. Two token requests meet on one token between any two calls of the
manager; a body with every field, one with a token of the client's choice, one
with a gap in its properties, one that the getter refuses and the served object
are the kinds that the conversions tell apart; their dates are in the server's
time (and the epoch), of another offset, unreadable, and served ones sent back;
and the paths hold doubled and trailing slashes, segments that look
like placeholders and a path one segment too long. Sessions share nothing but the
executor, so one with three requests shows pipelining beyond a close. Eight
bytes are one more than the longest record, header included. Two processes
suffice for every check-then-write race in `AuthDB`. Three pids hold a server, a
`--stop` and a third process that takes over a pid in between.

`MaxTime`, `MaxRequests`, `MaxItems`, `MaxBytes`, `MaxCommands` and
`MaxLaunches` bound clocks and counters that the code leaves open; `Clocks`
bounds the dates that clients send back, since each round moves them, and a
client keeps one object to send back; `UserLines` selects the combinations of
options on a command line. With three pids `ps` shows up to three lines, which
fit into a pipe with room for three, so that a failed kill has a next line to
come to, and not into one with room for two. `Unlimited` stands for
the code's -1, no limit. Deadlock checking is off where a system may rightly
stop: nobody calls, every client is silent, every request was handled.

Fairness. Threads, processes and io_context handlers are scheduled: weak
fairness of each worker, each call of `add()`, of `halt()` once called, of each
operation that can complete, of each statement that need not wait, of each
process of `Lifecycle` and its threads; and strong fairness of the row lock
(`LockRow`, `Update`), for PostgreSQL queues those who wait for one. Nobody has
to call, send, hang up, launch or fail. In `Sessions` weak fairness of `Take` is
what `Executor` provides by `AcceptedJobRuns`. Liveness that rests
on jobs that end supposes that handlers return.

Findings (each a violation run):

1. `user_limit` takes a SELECT ... FOR UPDATE that finds nothing for a lock:
   two first calls insert two rows and spend the quota twice
   (`ratelimit-1.sql:29`). With one connection in the pool, the default, and one
   server, this cannot happen (`OneConnectionInsertsFirst`).
2. `accessible` compares the id of a vault with its name (`authdb.cc:203`), so
   that a grant by `--grant` never gives access.
3. `user_limit` joins `v.id = uv.id` (`ratelimit-1.sql:15`), so that `--limit`
   works only where a grant and its vault have the same id.
4. The PUT handler calls `setToken()` after it filled the entry
   (`tokenization.hh:496-497`): the token of the path reaches the answer of a
   failure only, and the value is kept under another token.

Others that no run states, since no line of the repository promises more, or
since they are of wording:

* a job `add()`ed during `halt()` is silently lost with its session; `halt()` itself
  is not reached in the program, for the service's threads never return;
* a request left by an exception is in no counter; a PUT of an array is charged
  by its length for one operation, and works on an empty object;
* a client that leaves before its fifth byte keeps `async_read` busy for ever,
  and only such a one does (`OnlyShortClientsSpin`);
* properties are served as an object and accepted only as a list, so that
  sending a served object back with its properties ends in an exception outside
  the `try`, as every unreadable item of a batch does;
* the comment of `marshal.hh:22-31` describes a token response with a "userId"
  and with properties as a list of names and values; on success the code drops
  the "userId" with the state of the request and serves properties as one object
  (`marshal_json.hh:68-70`). `AnswersMatchItems` states what the code serves;
* the offset of a date is parsed and ignored: a date with another offset than the
  server's is kept off by the difference (`StoredAsAsked`), so that in a server
  that is not in UTC a served date that is sent back moves (`ServedDatesMove`);
  a date that cannot be read is kept as one of 1899, and the epoch as none;
* `--stop` sees its own terminal's processes only, ends the first one of this
  program that has not gone, which may be another command, and waits for ever
  when the output of `ps` exceeds the pipe (`FullPipeHoldsStop`); `--start`
  reports success before the port is bound;
* a client that resets its connection before the session asks for its address
  ends the server: the exception leaves `ioc.run()` and nobody catches it.

## 4. What is proved

Each module *Proofs* extends its component's module and proves, for every value
of the constants within the named ASSUMEs (sets are finite where they are
counted, numbers natural, model values distinct, a struct tm of zeros before the
epoch), what the runs show on an instance. The names in
brackets are the runs' properties.

`ExecutorProofs`, for any finite set of workers and any jobs: `TypeCorrect`,
`JobsHaveOneOwner` (`OneOwner`), `HaltWaits` (`HaltedIsQuiet`),
`WakeupsReachWorkers` (`NoLostWakeup`), `ExecutorImplementsTaskPool`, and
`NobodyIsStranded`: while a job is queued some thread is on its way to it, and
while `halt()` waits each thread is on its way out.
The inductive invariant is `TypeOK /\ OneOwner /\ Shutdown`. `HaltedIsQuiet` is
not inductive, for it says nothing of a `halt()` still joining: `Shutdown` adds
that `done` is set by `halt()` alone and that no worker leaves its loop before.
`NoLostWakeup` is proved on top, with lemmas on how the number of awake workers
changes. The refinement is a case per action, each a step of `TaskPool` or a
stutter.

`RateLimitProofs`, for any number of callers, quota, period and sizes, with
failures: `TypeCorrect`; with the row in place `QuotaIsRespected`
(`QuotaRespected`), `RowOnlyMovesOn` (`WindowsOnlyMoveOn`),
`RateLimitImplementsQuota` (`ImplementsQuota`); and from an empty table, if only
one connection exists, `OneConnectionInsertsFirst`. `NobodyIsStuck` needs neither
the row nor its absence: a lock is held by a call past its SELECT, which holds
the row it found (`Holding`), so that a waiting call waits for one that can go on
or that PostgreSQL picks as the victim of a deadlock; with one row there are
none (`OneRowOneWait`). The inductive invariant adds
`RowInv` where `Seeded`: the row stays the only one (`OneRow`); exactly the
transaction that will write it holds its lock (`LockedByWriter`); what that
transaction will write was computed from the row as it still is
(`WriterIsFresh`), which is the point of FOR UPDATE; and the row and the history
add up (`RowIsHistory`). That a limit once configured stays is a lemma of its own
(`ConfiguredStays`). Without `Seeded` the quota does not hold (finding 1).

`HandlersProofs`, for any number of requests, items and quota: `QuotaCovers`
(`QuotaCoversWork`), `ChargesAreUsed`
(`ChargeIsUsed`), `Batches` (`BatchAnswered`), `Metrics`
(`MetricsFollowRequests`), `Typed`. The inductive invariant says for each request
how far it is through its items (`Place`), what of its limit is left (`Grants`)
and which of its results are throttled (`Results`): that a result is throttled
exactly beyond the grant follows only from all three, since the code counts
down one number and appends to one list. The gauge is then a cardinality that
each step changes by one, and so are the counters: `overdraw` is the number of
the requests that were refused, `good` and `bad` together that of those that
were answered by `response_set` (`Counters`). `WorkIsGranted` is about one request; that the work of
all of them together is charged is a statement about a sum, proved without
summing: each unit of the grants is a ticket, a pair of a charged request and a
number up to its grant, each operation of the manager is such a pair (`Done`,
`Operations`), and `Accounts` says that the tickets are as many as the quota has
lost. `HandlersUseQuota` is the converse of `RateLimitImplementsQuota`: what the
handlers see of the quota is a behaviour of `Quota`, so that the one step that
stands for `rate_limit()` in `Handlers` promises them no more than the code of it
gives.

`TokensProofs`, for any requests, bodies, paths and time zone: `Storage`
(`StoredAsAsked`), `Answers` (`AnswersMatchItems`), `Implements`
(`ImplementsTokenMap`), `RightRoutes` (`RightRoute`), `ServedDatesMove`, and the
lemma the routes rest on, `SegmentsAreKept`: `Clean` gives the segments that are
not empty, all of them and in order. `Clean` places each segment by the number of
those before it, and that each place has one is shown with the least position at
which the count is reached, which takes the place of an induction along the
path. Lemmas say field by field what each conversion makes
of an object; the inductive invariant says that answers lie in the places of
their items (`Shape`), that every entry is kept under its own token, and that
dates under way are what `strptime` reads (`Dates`). `Storage` is inductive above
it: an entry keeps what its body asks for (`EntriesKeep`), and its time stands for
the date of the body (`TimesStandFor`). That an answer tells the data of its entry
whatever the time zone (`AnswersAreTrue`) gives the answers and the refinement.

`SessionsProofs`, for any number of connections and pipelined requests: `InOrder`
(`ResponsesInOrder`), `OneUser` (`StreamHasOneUser`), `CloseIsLast`
(`NothingAfterClose`). The inductive invariant counts: which messages the session
has read (`Heard`), that all or all but the last are answered, depending on the
operation under way (`Answered`), and that no job but that of the last request
may still use the stream (`Stream`), even though its thread returns late. On top:
`Typed` (`TypeOK`), for which a response being written must have been chosen by
a `perform()` (`Chosen`); `NoRequestForgotten`, a request that was read has its
response or somebody at work on it unless the connection broke or the executor
was halted, by the two ways in which a session ends early (`Kept`) and the open
pool behind every waiting job (`Waits`); and `SessionsUsePool`, every behaviour of
the sessions is one of `TaskPool` for the executor, which is what entitles them to
what `ExecutorImplementsTaskPool` shows.

`DetectionProofs`, for any clients, lengths and bytes: `NoneLost` (`NoByteLost`),
`Detects` (`RightSession`), `Types`, `SpinsOnlyForShort` (`OnlyShortClientsSpin`),
and `NothingElseAwaited`: all that a read still wants of a client that sent
enough has been sent. The inductive invariant, `Phase`, places each
connection in one of at most two reads, of the header and of the rest of the
record, and says where its bytes are in each stage.

`AuthDBProofs`, for any number of processes and commands: `VaultsAndUsers`
(`VaultsAreWhole`), `Grants` (`GrantsWereAsked`). The inductive invariant says
that what is committed is whole (`Whole`) and was asked for (`Asked`), the same
of what each process wrote (`Writes`, `Place`), and that these rows are disjoint
from one another and from the committed ones where a constraint makes them
unique (`Clear`), which is what the waiting for rivals is for. `NoCircle`: a command
that another one waits for waits for nobody, since `createVault`, the only
transaction that could hold one thing and want another, has the table before it
wants the entry. `NobodyHasAccess` is the universal form of the finding of
`authdb_access`: grants hold ids (`Numbered`), so that nobody is let in as long as
no vault is named by a number, which is the hypothesis.

`LifecycleProofs`, for any pids, terminals, threads and size of the pipe:
`NobodyMissed` (`NobodyIsMissed`), `ThreadsStay`. The
inductive invariant relates the port to the one process that has bound it
(`Holder`), the threads to `running` (`Serving`), and what a `--stop` has still to
read to the processes that were listed and live (`Listed`). `StopMovesOn` adds the
measure of a `--stop`: each of its steps drops a line, or is one of two more
tries, or its last; `FullPipeHoldsStop` that one whose `ps` has more to write
than fits stays there until it is killed.

What is said of PostgreSQL, Boost, libtoken and the operating system in section
2 is part of the models, not proved.

Every invariant and action property that the passing runs check is proved. Only
model-checked: the liveness properties, for temporal proofs with fairness and
ENABLED are beyond the prover; of most of them a theorem above states the safety
half, that whoever waits waits for somebody who can go on, which with the
fairness of section 3 is where the liveness comes from. And the violations,
which are counterexamples. `Clean` is what the community module's `SelectSeq`
computes, which the prover cannot look into: `MCTokens` asserts that they agree
on the paths of the run.

## 5. Not modelled, and why

* `Service::stop()`: nothing in the program calls it. If something did, it would
  not end the service, for it does not stop the io_context.
* `--rekey`: one call of the token manager.
* The check of passwords and authorization tokens: it only reads; `Handlers` has
  its outcomes.
* `start_plain` and `start_tls`: the accept loop of `Detection` without its
  detection; the program opens a dual listener.
* The OpenSSL provider: it has no state but its key, and what it computes is
  OpenSSL's.
* Configuration and options: parsing into values. Those that matter elsewhere
  (threads, connections) are constants or chosen in `Init`.
* `main`, logging, the text of the metrics: set-up and formatting.
* libtoken and dbcpp, which are not part of the repository: their calls succeed,
  fail or throw.
* Timeouts: the code has none.

The order in which the modules were written is that of their importance:
`Executor`, `RateLimit`, `Handlers`, `Sessions`, `Detection`, `AuthDB`, then
`Tokens` and `Lifecycle`, and the proofs of each. What is left to state is small:
the effect of a second `--limit` for one grant, which adds a row and leaves it
to PostgreSQL which one counts (`authdb.cc:144`).
