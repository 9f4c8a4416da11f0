# Verification of goLearn

TLA+ models of the Go program in `src/`: the concurrent CSV ingest (`cmd/ingest`), the
server with its token service (`cmd/api`), and the users both keep. TLC checks the models
on small instances; TLAPS proves the theorems of section 4 for every size.

Paths are relative to `src/` (`internal/pool/pool.go` is `src/internal/pool/pool.go`;
`src/README.md` is the program's own README).

## 1. The system

`cmd/api` serves users over REST (:8080) and users and tokens over gRPC (:9090).
`cmd/ingest` logs a user in, then streams CSV files through a pool of workers; with
`-grpc-addr` it first buys one token per data line from `cmd/api` and gives back
what it did not use. Both commands open the same users file.

    main ── Start, Stop ──────────────► Pool ◄── add, remove ── REPL ── quit ──► root context
      │                                  ▲                       │
      └─ Run ─► Runner: a goroutine per file ◄── CancelFile ─────┘
                 │   │        │ Submit(row)
                 │   │        └──► jobs channel ─► worker ─► handler chain ─► DedupStore, Stats
                 │   └─ range stream ◄── goroutine reading the file
                 └─ BeforeFile, AfterFile ──► gRPC ──► tokens.Store ─► a Bucket per user
    HTTP ─► wrapper ─► middlewares ─► handler ─┐
    gRPC ─► interceptor ─► handler ────────────┴─► user.Service ─► Repository (memory, or a file)

| Component | State | Operations | What is hard | What makes it correct |
|---|---|---|---|---|
| Worker pool (`internal/pool`) | stack of workers with ids and quit channels, channel of jobs, stop channel, WaitGroup, root context | Start, AddWorker, RemoveWorker, Submit, run, Stop | selects without priority between work and four kinds of end; resizing while running; a drain that happens once | an accepted job runs exactly once, a refused one never; no channel is closed twice; Stop returns and leaves nothing; a removed worker leaves |
| Runner (`internal/ingest/runner.go`) | cancel functions by basename, list of finished files, a WaitGroup and two counters per file | Run, runFile, CancelFile | per-file and root cancellation against submission, processing and settlement | the WaitGroup is exact, what is published and settled is final, files are independent, Run returns |
| Record stream (`internal/processor`) | position in the file | Stream and its goroutine | a producer that must not outlive its consumer; reads that fail for ever | it ends whenever its context does |
| Handler chain (`internal/handler`) | counters by outcome and by worker | WithMetrics, WithCancelCheck, WithDedup, WithProcess | a context that ends between two links | each row that reaches a worker is counted once |
| Dedup store (`internal/user/dedup.go`) | set of e-mails | AddIfNew | workers meeting on one e-mail | no e-mail is processed twice |
| Token gate (`cmd/ingest/tokens.go`) | none | BeforeFile, AfterFile | a reservation by lines for work counted in records, to be undone on every way out | a file is billed the rows it handled |
| `cmd/ingest` main and REPL | phase of the run | start, run, stop, summary; add, remove, cancel, quit | Stop's contract; an operator who may do anything at any time | Stop only when nobody submits; the process ends |
| Token bucket (`internal/tokens/bucket.go`) | tokens, time of the last refill | Take, Return, Available | lazy refilling with truncation to whole tokens and whole nanoseconds | the rate limit holds, and no token is lost by asking |
| Token store and configuration (`internal/tokens`) | a bucket per user, in memory | ForUser, Load | first calls that meet; restarts; replies that are lost | one bucket per user; a restart costs one capacity at most |
| Server process (`cmd/api/main.go`) | two listeners, a context | start, serve, drain, shut down | a listener that fails or starts late; a drain without a limit before a shutdown with one | a signal ends the process, and gracefully |
| HTTP server (`internal/transport/httpapi`, `cmd/api/middleware.go`) | requests in progress | five operations behind five middlewares | which layers a rejected request or a panic passes | one answer and one log line per handled request |
| gRPC server (`internal/transport/grpc`, `cmd/api/grpc.go`) | calls in progress | three token calls, GetUser, ListUsers | two locks in turn, a reply that does not arrive | no reply promises what was not taken; both transports agree on errors |
| JSON file repository (`internal/storage/jsonfile`) | users and an index of their e-mails, a file, a temporary file | Add, Get, GetByEmail, Update, Remove, List, load, saveLocked | a save that fails or is cut off anywhere; two processes on one file | memory, index and file agree; a write happens completely or not at all |
| Memory repository (`internal/storage/memory`) | users and an index | the same without saving | listing in map order | e-mails are unique |
| User service (`internal/user/service.go`) | none | Register, AddUser, Login, Get, List, UpdateUser, RemoveUser, DeleteByEmail | read, change and write in separate calls; pages of a list that changes | e-mails are unique, nobody removed comes back, pages cover the list |
| Models, factory, generated code, generator and demo | – | – | – | – |

`PROJECT.json` lists every component with its sources and status, and every hazard
with the line where it bites and the properties that watch it.

## 2. Modules

| Module | Models | Role |
|---|---|---|
| `JobLedger` | – | abstract specification: what a pool of workers promises about each job |
| `WorkerPool` | `internal/pool` | the pool with every caller and cancellation |
| `IngestRun` | `runner.go`, `csv.go`, `middleware.go`, `dedup.go`, `tokens.go`, `main.go`, `repl.go` | one run of `cmd/ingest`; composes the actions of `WorkerPool` |
| `Bucket` | `internal/tokens/bucket.go` | the bucket's methods as functions |
| `TokenBucket` | the same, and `time.Now` | a bucket in time, beside the ideal one it stands for |
| `TokenStore` | `internal/tokens/store.go`, `config.go` | a `Bucket` per user, and its configuration |
| `ErrorMaps` | `internal/model/errors.go`, `statusFor` of both servers | how a call of the service can end, and what each transport answers |
| `HttpChain` | `server.gen.go`, `cmd/api/middleware.go` | the layers of a request, in the order they really have |
| `ApiServer` | `cmd/api`, `internal/transport` | the process: listeners, calls, requests, end and restart; composes the three above |
| `Users` | `internal/storage/memory/user_repo.go` | a directory of users and what each write makes of it |
| `UserDirectory` | – | abstract specification: what a persistent repository promises |
| `UserRepo` | `internal/storage/jsonfile/user_repo.go` | the file repository with failures, crashes and restarts |
| `UserService` | `internal/user/service.go` | concurrent calls of the service on one repository |
| `UserPaging` | ListUsers of both transports, List of both repositories | a client that reads page by page while those calls go on |
| `WorkerPool_proofs`, `IngestRun_proofs`, `TokenBucket_proofs`, `ApiServer_proofs`, `UserRepo_proofs`, `UserService_proofs`, `UserPaging_proofs` | – | the theorems |
| `BasicFacts` | – | lemmas those share: induction on sets and counts, sums, division |
| `MC*` | – | instances for TLC |

### WorkerPool

The variables are the fields of `Pool` (`workers`, `nextID`, `jobs`, `stop`) and
where its goroutines are: `submit[j]` for the call of Submit with job j, `stopPc`
for Stop, `alive` for the loops of run, `running[e]` for the job executor e is in.
Executor 0 is the drain loop of Stop. One action is one atomic step of the code: a
critical section, one case of a select, one channel operation. A select is a
disjunction, so nothing prefers leaving to working. A buffered send is `Enqueue`,
a send on an unbuffered channel is a rendezvous, `Handoff`. `RemoveWorker` pops the
stack and closes the quit channel in one step; in the code the close follows the
unlock, but it needs nothing more and its only effect is to enable an exit that the
worker may postpone anyway.

`Contract` says what the callers of Stop promise: nothing, what the comment on Stop
asks ("call": nobody is inside Submit at the call), or what cmd/ingest does
("closed": nobody starts a Submit later, either).

### IngestRun

Adds main, the goroutine of each file (`pc`), the one that reads it (`src`), the
operator and the handler chain in each executor (`stage`). A row is a job of the
pool; each action that touches the pool conjoins an action of `WorkerPool`, under
a name that says why it happens (`SubmitQueued` is `Pool!Enqueue` seen from runFile).
`jobs.Done` is a step of its own, after the outcome was counted, because
`jobs.Wait` may return in between.

A file is its lines, `Text`: an e-mail stands for a line on which a row starts, `Bad` for a
row that does not parse, `Skip` for a blank line, `More` for a line that goes on with a quoted
field. `countDataRows` counts lines (`DataLines`), the CSV reader makes records of them (`Rows`). A wrong
header is one bad record. In a `Broken` file reads fail after the last line, each
failure is one more bad record, and the loop goes on; these are left out of
parse_err, which would grow for ever. The token service is external here: it charges or
denies a request, its reply may be lost, and a refund may fail before it reached the bucket or after
(`AfterFile`); the code logs such a failure and does not try again (tokens.go:74-77). `lost` holds the files to which
this happened although their context was not done. Calls whose context
is done are not sent, which is what gRPC does, and so the refund of a cancelled
file is not.

### Bucket, TokenBucket and TokenStore

A tick of the clock is a nanosecond, the rate is `Num / Den` tokens per tick, and
quotients are exact and truncated where the code truncates. The rounding of float64 is
not modelled. Each method holds the mutex from reading the clock to its return
and is one step. `granted` counts what the user holds, `level` what a bucket that fills
continuously would hold, in units of 1/Den token, `refills` the truncations so far.
`Honest` restricts Return to what was granted, as the token gate's calls are.

`TokenStore` keeps buckets in `heap` in the order of their creation, and where each
user's is in `store`. `ForUser` holds the lock of the store, the bucket's method its own lock: a
token call of gRPC is two steps with the bucket in hand (`place`) between them. `Load` is a
configuration a process may find: a file, an environment, either of which may be unreadable;
the environment wins over the file, and the file over the defaults.

### ApiServer, HttpChain and ErrorMaps

`life` is where main is: starting, serving, draining (`GracefulStop`, which has no limit), closing
(`srv.Shutdown`, which has one). `serving` holds the listeners that accept, `listener` where the HTTP goroutine
is: it may start late, find that Shutdown was first, or fail, at once or later, and its `cancel()` is a step of its own
(`CancelAfterFailure`). A call of gRPC is opened, waits for its message without a limit, is handled and
answered; its client may go away before the message or lose the reply. `ProcessEnds` is the one way out: clean, at the timeout, after a
failure, or killed; it loses the store and cuts off whatever is in progress, and
the process may be started again. A failed gRPC listen ends the process by `os.Exit`, whatever HTTP is doing.

`Chain` folds the middlewares as the loop in each wrapper of `server.gen.go` does, from
the list `cmd/api/main.go` writes. A request whose parameters do not bind is answered before all of
them. What a request logs and what becomes of a panic follow from the layers it `Enters`.
The user service answers with any outcome of `ServiceOutcomes`, which `ErrorMaps` reads from the service for each operation,
"context" being an error without a code. `held` counts, for each user, tokens granted less tokens
returned over all lives of the process; `known` what its clients know they hold.

### Users, UserRepo, UserService and UserPaging

`Users` gives each write of a repository as a function on directories, with the checks
that allow it. `UserRepo` is the code on a file: the check on memory and index
and the change of both (`Change`), `os.WriteFile` of the temporary file, `os.Rename`, the return.
Each save step may fail, which rolls memory and index back, and the process may
crash anywhere and start again; a crash or a failure while writing leaves a
partial temporary file. The model ends processes, it does not lose what the
operating system has cached. The repository's lock is held from check to return, so
`Unlocked` guards both new writes and reads. `Procs` may hold several processes on one file.
`UserService` runs calls of the service
concurrently on an atomic repository (what `UserRepo` implements); Register and
RemoveUser are one step, UpdateUser and DeleteByEmail are two. `UserPaging` adds a client that asks for
pages, each cut out of a list of its own: ordered by id (`Sorted`, jsonfile), or in
any order (memory).

## 3. Runs

| Run | Instance | Shows |
|---|---|---|
| `pool_live` | 2 jobs, 3 workers, queue of 1, full contract | OnePlace, StackExact, ExecutorExists, StopSettles and ImplementsLedger in every interleaving of Submit, resizing, cancellation and Stop; with fairness, everything started comes to its end |
| `ingest_safe` | 2 files sharing an e-mail, one bad row, 2 workers that may both be removed, cancellation of one file, interrupt | the accounting of rows: WaitGroup, counters, dedup, isolation of files |
| `ingest_gate` | gate on; a file with a row over two lines and a blank e-mail, one with a wrong header over a blank line, one with a header only and the basename of the first; unbuffered, 1 worker; the first may be gone when it is opened, two may be cancelled; any call of the gate may fail; interrupt | billing is exact where nothing was cancelled and no call failed, and never too low; entries of cancels name active files; Stop's full contract is kept |
| `ingest_live` | 2 workers, all of which may be removed; a file of one row, whose reads then fail for ever and that may be cancelled, and one of a row and a bad row; no signal | if a worker is there in the end, the run ends, a cancelled file ends, a broken file holds up no other |
| `bucket_limits` | capacity 3, 3/5 token per tick, 12 ticks, 5 calls | rate limit, and both bounds against the ideal bucket |
| `repo_safe` | 3 ids, 2 spellings of one address and another, 1 process | memory, index and file agree; ImplementsDirectory |
| `service_safe` | 4 calls of any kind on 2 ids, with a paging client: limits 0 and 5 against a maximum of 2, a negative offset | uniqueness, users exist exactly from registration to removal, pages cover who stayed |
| `server_tokens` | 2 concurrent token calls, 2 users, 2 starts, 1 tick, five configurations of which three are refused | one bucket per user, the budget across restarts, no promise of tokens not taken |
| `server_end` | 2 HTTP requests, 1 gRPC call, 1 start | how the process ends, also when the listener fails; what it cuts off or lets in, log lines, panics, both error maps |
| `ingest_hang`, `ingest_refund`, `server_log` | as small as shows it | the disagreements of section 6 |

Why the bounds are enough. The pool has three kinds of parties (submitters, workers,
Stop) and its conflicts are pairwise: two jobs and two workers meet every select
of the code, a third worker lets one overtake a conflict of two others.
The unbuffered channel is a separate code path of the runtime and is that of `ingest_gate`;
for other sizes the safety properties are proved. In IngestRun two files of two rows are
what it takes for a shared e-mail, a row in the queue while another is with a worker, a
reader one row ahead of its runner, and a file that ends while another streams.
The bucket's rate makes tokens take a fraction of a tick, so that both truncations
lose something; 12 ticks fill it more than twice. Three ids allow an
update to collide with either of two others; four calls are two registrations and any two
operations that meet on what those made, and two ids are two pages of one user. Two token calls are what meets
in ForUser, two starts let a client return what another process granted. Two
HTTP requests let one hold up Shutdown while another is answered.

`CHECK_DEADLOCK FALSE` is set where the system really ends: a run whose process
exited, a bucket at the bound of the clock, calls that have all returned, jobs that
are all submitted, a server after its last start.

Each property has a mutant: a wrong version of one definition of the model, kept
in the module beside the code's (marked as mistakes), under which TLC finds the
property violated.

### Fairness

Weak fairness of each goroutine that exists: Go's scheduler runs every runnable
goroutine, and a select with a ready case proceeds. It is given to the goroutine
as a whole, never to one case of its select: a worker told to leave may take
jobs instead as long as there are some. Job functions return, because the
handler chain sleeps for a bounded time. Nothing is assumed of the operator, of
callers who have not called, or of the network beyond that a call returns, with or without success (the context of
the file would end it in the code, so a call that hangs is one that an operator must cancel). `ingest_live` has two
more assumptions. In its properties, that a worker is there in the end (`WorkerStays`): the operator may remove them all, any number of
times, and as long as there is none the program does wait for the operator. In its instance, that no signal comes:
otherwise `ingest_hang` applies.

In `ApiServer` main goes on, the goroutine that listens calls `cancel()` once it failed, the timeout of Shutdown comes,
and handlers of gRPC return, since they wait for nothing but two locks held for a moment. Nothing is assumed of
a client of HTTP or gRPC, nor that a signal comes. `SignalEnds` therefore has a condition, `ClientsMoveOn`: each client
of gRPC again and again has no call that it opened without sending the message, or whose reply it has not taken.
Without it the property is false of the code: the server sets no limit on the arrival of a message, and
GracefulStop (cmd/api/main.go:140) none on the calls it waits for, so that one half-sent call keeps
the process alive after a signal.

## 4. Proofs

The theorems hold for any jobs, files, workers, queue sizes, rates, users, calls and processes, under the
assumptions on constants stated in the modules, which TLC evaluates in the runs, and
these hypotheses, stated in the theorems: `Honest` (TokenBucket: clients return
what they were granted) and `Alone` (UserRepo: one process on the file).
The assumptions ask that what the program counts is finite (files, calls, sources of configuration), that
configurations are integers, that a file is a sequence of lines and does not begin in the middle of a quoted field.
Every safety property and every refinement that a passing run checks is the subject of a theorem.

**BasicFacts.** The induction rules of the libraries take the predicate as an operator, which the provers cannot
instantiate. Here it is a set: `CountInduction` and `SubsetInduction` conclude `n \in G` and `S \in G`
for a set G that is closed under the step, and a proof takes for G the numbers or subsets that have the
property. On these rest the facts about sums over finite sets (`SumTakesOut`,
`SumChanges`, `SumIsMonotone`, `SumCounts`: what splits into disjoint parts has as many members as the parts
together), maxima, and `StepsAreDefined`: a function given by a step from each place to the next exists, so a
recursive function satisfies its equation.

**WorkerPool_proofs.** `TypeCorrect` comes first, and the invariants build on it.
`StackIsExact`: the ids on the stack ascend and stay at or below nextID, so a new id is
new; this is inductive by itself. `RunningHasExecutor`: an executor leaves (Exit,
StopReturn) only at its select. `JobsHaveOnePlace` needs both kinds of uniqueness,
between places and inside the queue and the executors, as one invariant: a job moves
from Submit to the queue or a hand, from the queue to a hand, from a hand to finished,
and each move must find it nowhere else. `StopSettlesAll` rests on `StopIsOrdered`
(under the full contract no Submit is in progress once stop is closed, therefore the
queue only shrinks, therefore what was found drained stays drained) and on `OnePlace`
and `ExecutorExists` (an accepted job that is in neither the queue nor finished is with
a live worker). `ImplementsTheLedger` maps each action to one of JobLedger or a
stutter, under these invariants.

**IngestRun_proofs.** `KeepsTheContract` comes first: a step of the run is a step of the pool
under the full contract, because main reaches Stop only when every file is done and a
file inside Submit is not (`Control`, `Discipline`). The pool's theorems then hold of the
run, by instantiating `WorkerPool_proofs`; `Placed` is what they say here. The
rest is a chain of invariants, each proved under those before it.
`WaitGroupIsExact`: a step makes one row due and adds one, ends one and
subtracts one, or does neither. Hence `NoneDue`: past jobs.Wait no row of a file
is due. Hence an executor is never left with a row of a file that has moved on, and is
never the drain of Stop (`RunnersAreWanted`): that the drain of cmd/ingest finds
nothing is a consequence. `Chained` relates stages and outcomes; `CancellationIsIsolated` uses it with
the fact that contexts only ever end. `PublishedIsSettled`: the counter is the number of
counted rows (`Tally`), and none is due. `RecordsAreAccounted`: each runFile counts the calls of Submit that returned,
and each counter of the run is the number of rows with its outcome (`Sums`); when no row is due, these rows and the
refused ones are all the rows that were streamed, and no row is in two of the sums. `EmailsAreProcessedOnce`: every
key of the store has a row that was admitted with it, and of those that were not
cancelled since, one at most (`Stored`). `NamesAreRight` is inductive by itself, for any basenames: an entry is overwritten by the start
of a file of its name and deleted by the end of any of them (`EntryChanges`). `BillIsNeverLow` and `BillIsExact`: what was charged
at each place of a file (`Bill`), where a difference from what was handled has its cause, a context that is done or a call that failed
(`AfterFileSettles`), and that a row which was read was submitted (`Streaming`); that a file
has no fewer lines than rows is `LinesCoverRows`, by induction on the lines. `ImplementsTheLedger` composes the two levels: the
run keeps the pool's contract, a pool whose contract is kept implements JobLedger, therefore the rows of a run do.

**TokenBucket_proofs**, for an honest client. `BudgetHolds` is the strengthening of the
rate limit: tokens in the bucket and tokens granted belong to the budget of the time
up to lastRefill only, so the time since then is not spent twice. `RateIsLimited` follows with
`lastRefill <= now`. `NeverShortChanged`: the lazy bucket with what it is owed is never
below the ideal one; a refill keeps the sum because the interval it consumes is
truncated, and where the cap cuts, the ideal bucket is capped as well. `LittleIsGiven` is the other
side: a refill leaves less than a token above a full bucket (`RefillIsWorthLittle`), and from there lazy and
ideal bucket move together.

What a reader gets from the rounding term: with the default configuration, 10 000
tokens a minute, a token takes exactly 6 000 000 ns (Num = 1), `Rounding` is 0 and the
rate limit is exact; for other rates it is below one nanosecond's worth of tokens per refill.

**ApiServer_proofs.** `BucketsAreNotShared`: buckets are put on the heap once each, a user's place is
below its length, and a call keeps the place it looked up, which no step of the
same process changes. `EndIsGraceful` needs that calls and requests are only in a process that lives
(`Calls`, `CallsWhereServed`) and that neither the drain of gRPC nor Shutdown can be undone, by a listener that starts late least of all (`Listens`). `TransportsDoAgree` compares the
two error maps at every answer to a request that a client may send. `EachIsLogged` needs to know what a request enters:
the chain is a fold over the list of middlewares, so its layers are derived one by one from the
list (`ChainIsInsideOut`), and every answer then has the log lines of the layers its request passed (`Replies`).

`ClientsDoHoldTheirs`: `Balanced` says of each user that what its clients know and what each call owes it (a
reply that grants, a return under way) add up to no more than `held`. A step changes one call,
so the sum changes by that call's share (`SlotChanges`), which each step pays from `known` or `held`; a reply that is lost and a process that ends
only drop shares. `BudgetIsKept`: `Budgeted` says that a bucket in the heap affords what its
user holds: holdings and balance are within the worth of the starts so far and of the time up to *its* last refill, so that the time since
is not spent twice. A user without a bucket in this process is within the worth of the earlier starts, and the capacity of this
one is what its bucket will be worth. A balance counts as at least 0 (`Pos`), so that a return whose sum wraps around
(bucket.go:73) only lowers what may be granted, and the theorem needs no bound on counts.

**UserRepo_proofs.** `IndexIsExact` and `MemoryIsDistinct` hold for any number of processes, because each
checks and changes its own memory only and loads what is distinct; the invariant is about
the previous state that a rollback goes back to as well as the present one. The
rest is for one process alone: its memory and its file agree between writes
(`Saved`), or differ by the write in progress, and it never meets an id in the file it did not make (`Known`). `ImplementsTheDirectory`
follows: the rename is the step that counts.

**UserService_proofs.** `EmailsAreUnique` and `RegisteredUsersStay`, for any number of calls: what is in the directory and
whatever a call names was generated by a registration that has ended (`IdsAreMade`), and a call between its halves has a user
in hand (`CallsInOrder`). So an update can only change the user it read, and only while it is there.

**UserPaging_proofs.** `PagesDoCover` counts in ranks: the rank of an id is the number of users listed up to it, and in a sorted
list each user stands at the place of its rank (`PlaceIsRank`). While nobody goes, ranks only rise, so who stayed is in
the pages or has a rank beyond the offset (`Behind`), and an empty page means that no rank is. While nobody comes, ranks only fall, so who was given out has a rank
within the offset (`Before`), the next page starts after it, and the pages ascend. The two do not depend on each other, nor on the limit.

**Only model-checked:** liveness, because fairness is beyond the prover (`RunReturns`, `CancelFinishes`, `SignalEnds`,
and those of `pool_live`), and the three disagreements that TLC refutes.

## 5. Not modelled

Parsing and formatting (CSV quoting beyond which lines a record takes, JSON, the REPL's
language, flags); the rounding of float64; password hashing and the rules of validation; the
file walk of discover.go, which is sequential and keeps no state; request ids, the limits on sizes and times
of http.Server, per-worker counters and log texts; accessors and marshalling in
generated code; the generators and the demonstration client. Power loss: neither the temporary file nor its directory is
synced, and a file system may order the two writes either way, after which no
property of the file survives (jsonfile/user_repo.go:226). Two live processes on one
file are modelled, but only `IndexIsExact` and `MemoryIsDistinct` are claimed of them. The user
service is atomic in `ApiServer`, which takes its answers as any of its outcomes; what the answers
are is the matter of `UserService`. The WaitGroup of the pool is the set of live workers: that AddWorker's `wg.Add` (pool.go:92) may run beside
Stop's `wg.Wait` (pool.go:161) at a count of zero, a use that package sync forbids and may panic on, is not shown. New ids are
fresh: the constant id on which generateID falls back (service.go:123-129) when random bytes fail is left out, since from Go 1.24 on, and go.mod asks
for 1.25, rand.Read does not return an error.

## 6. Where code and documentation disagree

Each of the first three is a run that TLC refutes.

1. *An interrupted run may not return* (`ingest_hang`). runner.go:102-104 says Run returns
   when every file has finished. After SIGINT every worker may leave (pool.go:183) with rows in the
   channel, whose closures hold `jobs`; runFile waits for them (runner.go:182), Run for
   runFile, and main does not reach p.Stop, whose drain would release them.
2. *Cancelled rows stay billed* (`ingest_refund`). tokens.go:21-22 promises a refund for cancelled rows;
   AfterFile is called with the file's own context (runner.go:187), which is done, and the
   call is not sent.
3. *A rejected request is not logged* (`server_log`). cmd/api/main.go:9-17 and middleware.go:99 give
   the access log a line for each completed request; the wrappers make the last middleware of the list the
   outermost, so that validation answers before the log is entered.

Noted while modelling, not kept as runs:

- For the same reason the order of the middlewares is the reverse of the documented one: validation,
  body limit, access log, request id, recover. The access log has an empty request id, the body is limited after
  the validator has read it, and a panic of the validator is not recovered. Errors of binding bypass all of them.
- bucket.go:73 adds in int64 before it caps: a sum that wraps is negative and passes the cap, against
  bucket.go:63. `Wrapped` in Bucket models it; clients that return what they were granted cannot reach it.
- service.go:147-150 says a field left empty is unchanged; UpdateUser writes back what it
  read (:172) and may so undo another update of that field.
- proto/user/v1/user.proto:36 and the OpenAPI document promise a listing by id; the memory repository lists in map order
  (memory/user_repo.go:123), so that pages may repeat and miss users. `PagesCover` is about sorted lists.
- cmd/api/main.go:133 calls os.Exit when gRPC cannot listen, while HTTP may be serving. A second signal is
  swallowed during the drain, which has no limit.
- pool.go:114 calls WorkerCount the number of live workers; it is the length of the stack,
  which keeps workers that left on stop or interrupt. The summary prints it after Stop.
- pool.go:98-99 says a removed worker finishes its current job before exiting; its select may
  take any number of others first. That it leaves in the end is `RemovedLeaves`.
- pool.go:148-150 asks callers not to be mid-Submit when Stop is called. A Submit that
  starts later can also leave its job in the channel, because its select may choose
  the send. `KeepsTheContract` shows that cmd/ingest keeps the stronger contract.
- src/README.md:246-247 states ok + dedup + cancelled + parse_err = streamed. A record that Submit
  refused is streamed and in no counter, one that does not parse is in parse_err and not
  streamed. `RecordsAccounted` is the equation that holds.
- Two files with one basename share an entry of `cancels`: the second to start overwrites it, the first to end deletes
  it, and the other can no longer be cancelled although it is active, against runner.go:70-71. `NamesTheRightFile`, checked with a shared
  basename and proved for any, says what is left: an entry is an active file of its name, and an active file is within reach as long as no other of its name
  was started.
- tokens.go:74-77 logs a ReturnTokens that fails and gives up, also where nothing was cancelled, and tokens.go:42-48 skips a file whose
  charge was made and whose reply was lost. Either leaves the file billed more than it handled, against the promise of item 2.
  `BilledExactly` holds of the files that are not in `lost`.
- A gRPC call of which only a part is sent holds up GracefulStop for as long as its client likes (section 3, Fairness).
- src/README.md:201-202 calls cancellations independent; a row cancelled after WithDedup admitted it
  leaves its e-mail taken for other files. `ProcessedOnce` names this case.
- bucket.go:80-81 calls Available read-only; it refills, which can move the time of the next token.
  `NeverShort` and `WithinOneToken` bound the effect.
- src/README.md:446-448 says writes of another process are invisible until a restart; the server's next save
  deletes them from the file.
- src/README.md:443-445 says Repository.Add uses the raw e-mail as written; both repositories index
  it lower-cased and trimmed (jsonfile/user_repo.go:57, memory/user_repo.go:39).

## 7. What could come next

- An account of tokens as an abstract specification, which `ApiServer` and the gate of `IngestRun` composed would
  implement: several runs of one user against a server that restarts in between.
- A file system that loses what was not synced, should the code come to call Sync.
- Termination of main under an interrupt once Run no longer waits for the drain.

## 8. Running

    tlc -config MCWorkerPool_live.cfg MCWorkerPool    # and likewise for each run
    tlapm WorkerPool_proofs.tla                       # and likewise for each *_proofs
