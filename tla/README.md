# A verification project for metrics-and-alerting

TLA+ modules for the metrics server and agent in this repository, the TLC
configurations that check them, and TLAPS proofs of the results that hold for
every value of the parameters.  Paths are relative to `src/`.

## 1. The system

An **agent** scans the machine on every poll tick and reports what it found to a
**server** on every report tick, over one of four protocols.  The server keeps
gauges (the last value) and counters (the sum of the reported deltas) in one of
three back ends and serves them over HTTP and gRPC.

| Component | State | Operations | Where |
|---|---|---|---|
| in-memory store | one slice of metrics, no lock | Find, Upsert, UpsertBatch, Get, GetBatch, Delete | `internal/storage/memstore/memory.go` |
| file storage | a memory store and a JSON file | the same, Flush (truncate, encode, write), Restore | `internal/storage/filestorage/file.go` |
| database storage | a memory store and a table | the same, Flush (a transaction), Restore, migrations | `internal/storage/dbstore/postgres.go` |
| repository | none: the interface of the three | | `internal/storage/repository.go` |
| manager | sign key, flush interval, ticker goroutine | Upsert, UpsertBatch (verify, accumulate, store, flush), Get, GetBatch, Flush | `internal/server/manager.go` |
| handlers | crypto key, trusted subnet | update and value routes, decompress, decrypt, trust | `internal/server/handlers/`, `grpc_server.go`, `http_server.go` |
| server process | | build, restore, serve, stop on a signal | `cmd/server/main.go` |
| agent | a memory store, two ticking goroutines | updateMetrics, reportMetrics, reset of PollCount | `internal/agent/agent.go` |
| scanner | | one batch of runtime metrics, one of workload metrics | `internal/agent/services/scanner/scanner.go` |
| reporter | sign key, public key | reportURL, reportJSON, reportBatchJSON, reportGRPC, Encrypt | `internal/agent/services/reporter/reporter.go` |
| configuration | | defaults, flags, JSON file, environment | `internal/server/config.go`, `internal/agent/config.go` |
| metric, errs | | CreateMetric, Sign, conversions; error to status code | `pkg/metric`, `pkg/errs` |
| staticlint, exitchecker | | a go/analysis pass | `cmd/staticlint`, `pkg/exitchecker` |

How they interact: every HTTP or gRPC request runs on its own goroutine and calls
the manager, which calls the storage; the file and database back ends hold an
in-memory store.  The flush ticker and, in the agent, the scanner and the
reporter are further goroutines over the same slice.  **Nothing in the program
locks anything.**  Requests and the agent's reports meet over the network.

What is hard about it:

* every read-modify-write on the slice (Find then index, append, delete, the
  manager's accumulate) interleaves with every other;
* the file's `Flush` truncates, then encodes and writes: a crash, a failed write, a
  value that does not encode or a second flush may come in between;
* the database's `Flush` is a transaction, which one bad metric, or another
  transaction, may fail, and whose COMMIT may lose its answer;
* what was acknowledged has to survive a stop and a restart, and to be counted
  once by it, also where the start restores twice;
* a report may be applied and its answer lost; PollCount is deleted whatever the
  outcome;
* a batch fails half-way; a metric without a value reaches a dereference;
* a setting may come from four sources, in an order in which a file overrides some flags
  and not others, and only some values are checked;
* what the agent signs, seals and names has to fit what the server asks for, on each
  of four ways to report, and the two are configured apart.

What makes each component correct: the store is a map keyed by (type, id); the
manager counts every accepted delta once and nothing rejected; the file or the
table holds what was acknowledged whenever it should; the agent never counts a scan twice,
keeps each value under its own name, and in the end delivers; what was taken over any
route is what every route that reads shows; a report gets through when the settings of
the two ends agree, and only then, and sealed if the agent was told to seal.

## 2. The modules

| Module | Models | Extends |
|---|---|---|
| `MemStore` | the slice: header, backing arrays, the steps of each call | |
| `Repository` | abstract: an atomic map from (type, id) to a metric | |
| `MetricsManager` | requests through the manager over the slice | `MemStore` |
| `MetricsService` | abstract: what a client that waits for answers is promised: a request is applied item by item, or, if a hash does not match, refused with nothing applied | |
| `FileStorage` | Flush and Restore, step by step, with I/O errors | `MemStore` |
| `FileServer` | the process: boot, restore, serve, ticker, stop, crash | `MetricsManager`, `FileStorage` |
| `DBStore` | Flush as a transaction over the rows, Restore, failed statements | `MemStore` |
| `DBServer` | the process with a database: migration, two restores, serve, stop, crash | `MetricsManager`, `DBStore` |
| `Agent` | scanner and reporter goroutines over one slice, a lossy network | `StoreAsMap` |
| `Settings` | what the two processes make of defaults, flags, file and environment | |
| `Routes` | what each HTTP route and gRPC method takes, stores and answers | |
| `Cipher` | Encrypt and Decrypt of one body, block by block | |
| `Delivery` | an agent and a server with their settings, a report on its whole way, other clients | `Settings`, `Routes`, `Cipher` |
| `StoreAsMap` | the slice as the map of `Repository`: the refinement mapping, `BehavesAsMap` | `MemStore` |
| `ServerAsService` | the server with a file as `MetricsService`: the refinement mapping, `ServedAsPromised` | `FileServer`, `StoreAsMap` |
| `MC*` | instances for TLC | |
| `MemStore_proofs` | lemmas about the store for any callers; for one caller at a time, that it is a map | `StoreAsMap` |
| `MetricsManager_proofs` | the manager's theorems | `MetricsManager`, `MemStore_proofs` |
| `FileServer_proofs`, `DBServer_proofs` | those of the server with a file, and with a database | `ServerAsService`, `DBServer`; `MetricsManager_proofs` |
| `DBDurable_proofs` | what a database keeps of what was acknowledged | `DBServer_proofs` |
| `Agent_proofs` | the agent's theorems | `Agent`, `MemStore_proofs` |
| `Cipher_proofs`, `Delivery_proofs` | bodies and settings | `Cipher`; `Delivery`, `Cipher_proofs` |

**`MemStore`.**  `store.metrics` is a slice header (`hdr`: which array, how many
elements) over backing arrays (`heap`, one per allocation; a Go array outlives the
header that dropped it while a goroutine still holds a copy, so none is freed).
`call[p]` is the storage call goroutine `p` is in.  `Find` has a value receiver, so it walks the
header copied at the call (`at`) while comparing the live elements; `Upsert`
indexes the *current* slice with the index it found (`Update`; outside its range, a
panic); `append` loads the header, then either stores the longer length and the
element (`LoadRoom`, `Extend`, `Fill`), or copies into a larger array and stores the
whole header and the element (`LoadFull`, `Swap`, `Fill`); `Delete` moves the tail
and stores the shorter header (`Shift`, `Shrink`).  Go makes such races undefined in
principle; the model takes the outcomes of the compiled code at word granularity,
with a header, or an element, loaded and stored whole.  One abstraction goes further: the move of the
tail in `Delete` (`memory.go:90`) is a single step, `Shift`, so a walk that meets it half-way is left out.  Past the end of an array
(a length that races have left longer than the array) reads give the zero metric
and writes are dropped.

**Contributions.**  A counter is not an int64 but the formal sum of the
contributions added into it: a function from tags to how often each was added.  A
tag names one reported item (request, position) or one measurement (scan, metric).
The sum determines the int64, wrapping included, and it lets a property say *what*
was counted, twice or not at all.  A gauge is the tag of the measurement.

**`MetricsManager`.**  A request takes a body, a sequence of items that tell their
id, type (or none the server knows), whether the value is there and whether the
hash verifies.  Per item: `Reject`, or `StoreOther` (not a counter), or `AskKnown` (the
manager's `storage.Get`) and `Accumulate` or `NilDelta` (a nil pointer is
dereferenced: `net/http` ends that request only), then the store's steps, then
`NextItem`.  After the last item `AllStored`, the flush, `Reply`.  A single update is a
batch of one.

**`FileStorage`, `FileServer`.**  `flush[p]` is the `Flush` goroutine `p` is in: `OpenTrunc`,
`GetBatch` (the header, not a copy), `Marshal` element by element while others write,
`Write` in one system call.  Two flushes have two descriptors at offset 0, so the
tail of a longer text may stay behind a shorter one (`torn`).  The process restores on
`Boot`, serves, ends by `Shutdown` or `Crash`; requests in flight then get no answer.
`NotFinite` are the gauges that are NaN or infinite: JSON has no such number, and `MarshalFails`
ends the flush of one, after the truncation.  They enter by the URL route (`ParseFloat`) or
gRPC, whose requests carry one metric and no hash: alone, and only where no key is set.

**`DBStore`, `DBServer`.**  `table` has the committed rows, one per *name* (the table's key), with
a type and a column for each type.  `tx[p]` is the Flush goroutine `p` is in: `BeginTx`, `GetBatch` (the
header again, not a copy), then per element `NextMetric` and `Exec`, which writes into the
transaction's own rows (`tx[p].rows`, over `table`) and waits while another open transaction has
written that row; `Commit` publishes them.  `StatementFails` is any statement that fails (the
database down, one of two transactions that wait for each other ended); a COMMIT may
fail after it was carried out.  `Refused` is what fails every time: a name over
50 characters, or a handle that `New` has closed because the migration failed (`New` goes on
with it).  `dbstore.New` restores, and the manager's `New` restores again with `-r`: `srv.passes`
counts what is left; a restore that fails half-way leaves the rows it had.  `Unnamed` is the empty
name, which a JSON body may have and `CreateMetric` refuses: a restart leaves its row out of the memory (`SkipRow`).

**`Agent`.**  `ScanTick`/`ReportTick` are the two tickers.  The reporter walks the header
it got from `GetBatch`; a report fails before or after the server has applied it, and
either way PollCount is deleted.  A task may begin while the other runs (with the default
intervals, 2 s and 10 s, both ticks come at once at every fifth poll): `overlapped`
remembers that it happened, and the properties that need tasks apart ask for `Alone`.

**`Settings`.**  Pure functions.  An operator gives a record of three sources, each from
settings to values or `Absent`.  `ServerSettings` and `AgentSettings` are what
`ParseFlags`, `ReadConfig` and `env.Parse` leave, `ServerParses` and `AgentParses` whether they
return an error.  The file is read *after* the flags that write into the configuration
(`ServerBound`, `AgentBound`) and overwrites them; `-a`, `-crypto-key` and `-t` are kept aside and
win; the environment is last, and is not checked.  `Backend`, `Interval`, `Flushes` are what
`cmd/server/main.go` and the manager make of them.

**`Routes`.**  Pure functions from the stored metrics and a request to a status and the stored
metrics after it, for requests that do not overlap (`MetricsManager` has those that do): the URL and
JSON routes, the two gRPC methods, `Trust`, the error table, `GetAsText`, `GetAsJSON`, the list.  A
hash is the key and what it was made of.

**`Cipher`.**  `job` is a body under way: `Seal`, `SealBlock` and so on are `Encrypt`'s loop, `Arrive`,
`OpenBlock`, `OpenFails` the one of `Decrypt`.  A byte is known by where it comes from: a position of the
text, or a position of the block that seals a given chunk for a given pair.  RSA-OAEP is external:
`Opens` takes a block that is whole and of the right pair, and nothing else.  No key at an
end means that the end does nothing.

**`Delivery`.**  `ServerStart` and `AgentStart` take the settings; the server may be left without
its HTTP port, the agent may find nothing behind the one it was given.  `SendURL`, `SendRPC` and
`SealBody`, `Post`, `CipherWork`, `Handle` are the four reporters; each ends at its first failure.
`OtherRequest` is any client: paths, bodies and calls that are right, wrong or forged.  `taken` has
the metrics of every request that was answered 200.  The network does not fail here and a
request takes effect in one step; `Agent` has the network that fails, `MetricsManager` the steps.

## 3. The runs

| Run | Question | Result |
|---|---|---|
| `manager_lost` | Can overlapping requests lose a counter that was acknowledged? | **yes** |
| `manager_nildelta` | Is a complete update always answered? | **no** |
| `manager_batch` | Is nothing kept of a batch that was refused? | **no** |
| `server_sync` | With interval 0: do overlapping flushes, a failed write, a crash and a restore count anything twice? For requests one at a time: does the file mirror the memory, through a stop, a crash and a restart? Are they served as promised? | no (`CountsOnce`); yes, except in the window of `AcknowledgedSurvives`; refines `MetricsService`, unless a batch is refused late |
| `server_saving` | With a ticker: is what was acknowledged saved in the end? Does the file always decode? | yes |
| `server_stop` | With a ticker: is it saved at a regular stop? | **no** |
| `server_nan` | With interval 0: is what was acknowledged on disk after a regular stop, whatever gauges were sent? | **no** |
| `server_table` | With a database: is anything counted twice by overlapping transactions, a failed statement, a crash, the two restores? Is what was acknowledged in the table, and served after a restart? | no; yes, under the conditions of `Clean` |
| `agent_tasks` | As long as tasks do not overlap: is the slice an atomic map, own values, each scan counted once, the last one not dropped uncounted, values arrive? | yes |
| `agent_overlap` | Tasks that overlap: does each metric keep its own value? | **no** |
| `delivery_settings` | Over the settings of two operators: which is in force, which reports get through, in clear or sealed, what do readers then see? | as the properties say |
| `delivery_agreed` | Is a report never refused if the two operators agree? | **no** |

`MapAlone` and `ServedAsPromised` are refinements (the mapping of the first is in
`StoreAsMap`, with the agent's two goroutines, which upsert and delete, as its
callers; that of the second in `ServerAsService`: each process serves as promised from the end of its restore on, as long as requests
have not overlapped, and no batch has been refused after an item that passed, `NoneRefusedLate`); in both, the last slot does
not count while an append has published it and not filled it, and the abstract step is the write that fills it.
That the manager's requests find such a map too, and keep what they acknowledged (`BehavesAsMap`, `AcknowledgedKept` for clients
that wait), is proved; `server_sync` and `server_table` check what it comes to in the file and the table, and `CountsOnce` there that no item is counted
twice, overlapping requests included.
`AcknowledgedSurvives` and `RestoreLoadsFile` are action properties over a restart.
`CommitSavesAll` is one over the commit: whatever failed before, the flush that commits makes up
for it.  `LastScanCounted` speaks of the delete of PollCount: what it drops of the last scan, the server has
counted, unless a request failed.
In `delivery_settings`, `Agree` is what the two operators have to agree on, as the documentation has it: one sign key where the server
has one, the halves of one pair, an address on the list.  `OutcomeTellsAgreement` says that a report that is answered goes through if they do,
but for the two cases in which the code refuses it all the same, `DropsHash` and `MissesEntry`, and in no other case;
`delivery_agreed` shows these two.  `ReadersSeeTaken` says that text, JSON and list show what was answered 200,
and nothing else, whichever route it came by.
Properties that need requests one at a time ask that they never have
`overlapped`, rather than that the clients cannot overlap them, so the same run covers both.

**The eight disagreements**, two of them in `delivery_agreed`.
`manager_lost`: `accumulateCounter` reads, adds and stores with nothing to keep
another update of the same counter out; and two racing appends keep one of the two
metrics.  `manager_nildelta`: a counter with no `delta` is accepted (no key), stored, and
every later update of that counter dereferences nil; gRPC and HTTP differ only in
what the panic takes down.  `manager_batch`: `.github/workflows/devopstest.yml:289` has data discarded whose hash
does not match; `UpsertBatch` verifies metric by metric, and what stood before the one it refuses is stored and stays.  `server_stop`: `main` never flushes after `Shutdown` and
never calls `Close`.  `server_nan`: one
gauge that JSON cannot hold, answered 200, stays in memory, and from then on every flush truncates
the file and fails; a counter that was on disk before is lost by a regular stop.  `agent_overlap`: the README promises an RWMutex; there is none.  A scan walks the slice while the delete of PollCount
moves its tail down, so it does not find PollCount; its `append` has loaded the header before the shorter one is stored, stores that length plus
one over it, and the element that was moved down is in view twice, the second time with an old value.  (An index found before
the delete and used after it does not last: it is out of range, a panic, or names the next metric of the same scan, which is then written again.)
`delivery_agreed`: the gRPC methods drop the hash of the request, so a server with a key refuses every gRPC report, signed with the same key or not
(`DropsHash`, the trace TLC prints); and in a list from the environment or the file an entry after a space matches no address, so a batch from a
listed address is refused (`MissesEntry`: go on with `-continue`, or leave the GRPC agents out of `MCAgentGiven`).

Further behaviour met while modelling, each against a line of
`.github/workflows/devopstest.yml`, and not given a run of its own: a crash
between truncation and write loses the whole file (198; the window that
`AcknowledgedSurvives` excludes by `Readable`); a one-line file over the Scanner's
64 KiB is restored as empty without an error (200; `ScanLimit` is above the
file's length in every run, and any number in the proofs); PollCount is replaced by 1 at each scan (90).  What a rejected batch
has stored is not flushed until a later request is, and so is what comes before a
counter that panics (`NoHalfBatch` in `FileMirrorsMemory`).  Racing appends may show one metric twice; the file then has it twice, and
Restore merges the two (`RestoreLoadsFile` asks for `~overlapped`).  The flush ticker races them as well:
it may save the slot an append has published and not yet filled, a metric with no name and no type
(`RestoreLoadsFile` asks for `SyncFlush`).  With a database: one stored name over
50 characters fails every later flush; a gauge and a counter of one name share a
row, and a restart brings back the one written last; a restore that fails half-way
lets counters start again from nothing, and the next flush writes that over the row; and so does a restart for a counter with an
empty id, which a JSON body may have where no key is set and `Restore` leaves out (`postgres.go:207-211`).
`Clean` in `DBServer` names these conditions.

Of routes and settings, part of what `delivery_settings` explores and not disagreements by
themselves: `CRYPTO_KEY` is taken for the text of the key,
not the path of its file, so encryption is off without an error (`SealedOnWire` asks that it is not
set).  A list given by `-t` has its spaces removed (`ListHolds`).  `-t` is documented as a CIDR (`server/config.go:96`), and a
CIDR is refused: only addresses parse.  The file's `"database_dsn": ""`, as in the shipped
configuration, erases `-d` (`DSNGiven`).  A negative interval never flushes.  HTTP and gRPC on one
port race for it, and the process ends or goes on without HTTP.  The agent's gRPC client dials
the port of its HTTP address.  A counter without a delta, followed by a complete one over gRPC,
ends the process.  A path that names a metric `update`, or one with a character that is escaped,
is refused, or stored under the escaped name.

**Bounds.**  `Requests`: two (the races the code has are between pairs).  Bodies have up to four items in `server_sync`, long
enough for one request's append to undo the growth of another's, so that
indexes leave the range and requests panic (`Abort` fires), and with a forged item at the end of a long batch.  `Names`: two at most, the second to tell keys apart and give the
slice a second element, and in `server_table` the empty name beside them.  `MaxInFlight` bounds requests open at once, 1 where the
property is about clients that wait.  `MaxExits`, `MaxIOErrors`, `MaxDBErrors`, `MaxFailures` are 0 or 1:
one crash, one failed write or statement, one lost answer, each at every possible
moment.  Two requests are enough for two transactions to overlap, with the restart's
two restores after them; three exceed what can be explored in minutes.  Two
transactions that wait for each other block until the crash or the failed
statement ends one, as PostgreSQL does after its deadlock timeout.  `MaxScans` is 2 and reports are not bounded: a delete needs a report, and what it
hits a scan before it and one around it.  `ScanLimit` is explained above.
In `delivery_settings` each setting is given by one source and then overlaid by another, which is
what an order of sources is about; the settings of the two ends are crossed.  `Lengths` is one text of 4 bytes: with
one pair (5 bytes a block, 2 of them overhead) a full chunk and a short one, with the other (4 and 2) two that
fit.  `MaxReports` is 2, `MaxOthers` 1: another client's request before, between or within the
reports (a counter's two contributions, a metric of the wrong kind before the right one).  Requests are symmetric where no
liveness is checked.  Deadlock is not checked: the bounded clients, ticks and
exits run out in every run, and liveness is stated where it is owed.

**Fairness.**  `FileServer!FairSpec`: weak fairness of boot and restore, of the ticker, of its
flush and of each open request: the Go scheduler runs a goroutine that can run,
and a ticker ticks.  No client has to send, nothing has to crash, an I/O error is
never owed.  `Agent!FairSpec`: weak fairness of the scanner's and the reporter's
goroutines and of the report ticker; scans and failures are not owed.
`Delivery!FairSpec`: weak fairness of `ReporterStep`, the steps of a report that has begun and of
the server that serves it; no report has to begin and no other client to send.

## 4. The proofs

`tlapm` checks, for any numbers of requests, callers, names, metrics, scans, bodies and failures:

| Theorem | States |
|---|---|
| `MemStore_proofs!StoreStepIn` | a store step brings in no metric from outside a set S that has the zero metric and is closed under `Overwrite` |
| `MemStore_proofs!StepOfMap` | if every other goroutine is between calls, a store step is one of `Repository`'s under the mapping, or a stutter |
| `MetricsManager_proofs!ManagerTypeCorrect` | `ManagerSpec => []ManagerTypeOK` |
| `MetricsManager_proofs!ManagerCountsOnce` | `ManagerSpec => []CountedAtMostOnce` |
| `MetricsManager_proofs!AcknowledgedAreKept` | `ManagerSpec => []AcknowledgedKept`, for clients that wait: `MaxInFlight = 1` |
| `MetricsManager_proofs!StoreBehavesAsMap` | `ManagerSpec => BehavesAsMap` for the same clients: the slice implements `Repository` |
| `FileServer_proofs!ServerTypeCorrect` | `Spec => []ServerTypeOK` |
| `FileServer_proofs!ServerCountsOnce` | `Spec => []CountsOnce` |
| `FileServer_proofs!NeverTornByTicks` | `~SyncFlush => (Spec => []NeverTorn)` |
| `FileServer_proofs!FileMirrors` | `Spec => []FileMirrorsMemory` |
| `FileServer_proofs!StopSaves` | `Spec => []SavedAtCleanStop` |
| `FileServer_proofs!RestoreLoads` | `Spec => RestoreLoadsFile`, the action property |
| `FileServer_proofs!AcknowledgedSurvive` | `Spec => AcknowledgedSurvives`, the action property |
| `FileServer_proofs!ServesAsPromised` | `SyncFlush => (Spec => ServedAsPromised)`: while requests are apart, and none is refused late, each process implements `MetricsService` |
| `DBServer_proofs!DBServerTypeCorrect` | `Spec => []DBServerTypeOK` |
| `DBServer_proofs!RowsCountOnceAlways` | `Spec => []RowsCountOnce` |
| `DBServer_proofs!CommitSavesAllAlways` | `Spec => CommitSavesAll`, the action property |
| `DBDurable_proofs!AcknowledgedAreInTable` | `Spec => []AcknowledgedInTable` |
| `DBDurable_proofs!AcknowledgedAreServed` | `Spec => []AcknowledgedServed` |
| `Agent_proofs!AgentTypeCorrect` | `Spec => []AgentTypeOK`, with overlapping tasks |
| `Agent_proofs!OwnValuesAlways` | `Spec => []OwnValuesAlone` |
| `Agent_proofs!CountedOnceAlways` | `Spec => []CountedOnce` |
| `Agent_proofs!LastScanIsCounted` | `Spec => LastScanCounted`, the action property |
| `Agent_proofs!MapForBoth` | `Spec => MapAlone`: with tasks apart the agent's slice implements `Repository`, deletes included |
| `Cipher_proofs!CipherTypeCorrect` | `CipherSpec => []CipherTypeOK` |
| `Cipher_proofs!RoundTripAlways`, `WrongKeyNeverReads` | `CipherSpec => []RoundTrip`, `[]WrongKeyFails` |
| `Delivery_proofs!DeliveryUsesCipher` | `Spec => CipherSpec`: the composition implements its component |
| `Delivery_proofs!DeliveredWhole`, `OthersRefused` | `Spec => []RoundTrip`, `[]WrongKeyFails`, from it |
| `Delivery_proofs!SealedOnWireAlways` | `Spec => []SealedOnWire` |
| `Delivery_proofs!InForceAlways`, `DatabaseFirstAlways` | `Spec => []InForce`, `[]DatabaseFirst` |
| `Delivery_proofs!ListHoldsAlways` | `Spec => []ListHolds` |
| `Delivery_proofs!OutcomeTellsAlways` | `Spec => []OutcomeTellsAgreement` |
| `Delivery_proofs!ReadersSeeTakenAlways` | `Spec => []ReadersSeeTaken` |
| `Delivery_proofs!DeliveryTypeCorrect` | `Spec => []DeliveryTypeOK` |

*Nothing counted twice.*  `CountedAtMostOnce` speaks of the metrics the store shows, and is not
inductive: a stale element past the length, an array dropped by a racing append, or
the argument of a call half-way may come back into view.  The invariant
`ManagerInv` therefore says `Once(m)` of *every* metric in the process: all arrays to their
ends, the argument and the result of every call (`StoreIn(OnceSet, ...)`).  That set
of metrics has `Zero` and is closed under overwriting one field by another's, so
`StoreStepIn` carries it through every store step with no case about who
interleaves with whom.  `Once` allows tag `<<r, i>>` only if request `r` has spent item `i`
(gone past verifying and accumulating it); `Spent` only grows (`MovingOn`), so nothing that
was right becomes wrong; and `Accumulate` adds the item's own tag, not spent
before, to a value that holds spent ones.  `ServerInv` adds the file and what flushes have
read; its counterpart in `DBServer_proofs` adds the table, the rows of every open transaction and
the element each is about to write.  A crash (`ProcessEnds`, shared by both): the memory is gone,
what is saved counts spent items, and ending a request does not unspend one.

*One caller at a time.*  `Orderly(S)` (in `MemStore_proofs`) is what the slice and the calls on it are like as
long as one goroutine at a time is in a call: the elements in use are of S and have each key once, and the call's
copy of the header, its index and the slot an append has opened or a delete has moved are what they should be for the step
the call is at.  `OrderlyStays` keeps it over every store step and `StepOfMap` reads the refinement off it: the
step that fetches, updates, fills the slot or moves the tail is the map's, all others stutter.  The manager, both servers and the agent
cite these two; what is left to each is who may call when.

*What was acknowledged is kept.*  For clients that wait, `TurnsInv` adds `Served` for each request: every counter item
it has gone past is counted by the metric that is held under its key.  `Keeps` survives because a counter
is only ever overwritten by itself plus a contribution (`KeepsGrows`), and metrics are not removed.

*The file decodes.*  `NeverTorn` fails when two flushes overlap, so `TickerInv` says that with a positive
interval only the ticker is ever in a flush, that the file is empty from its truncation to its write,
and is otherwise whole, as long as no open or write has failed.

*A commit saves all.*  `CommitSavesAll` is about the moment of a commit; that what the transaction has gone past by
then is still what memory holds, and is in the rows it wrote, has to be known at every step before.
`Serial` says it, as long as requests have not overlapped: one goroutine at a time calls the store or flushes
(`OneAtATime`); the slice is therefore `Orderly`, during the restores too; and what a transaction sees
holds every metric before the one it is at (`Walked`).  A statement keeps that because the key it writes is not
among those before it: where the name is, the type differs, and `PutHolds` says the row keeps the other column.
Failed statements, refused names and crashes only drop the transaction.

*The file follows memory.*  `Serial(S)` of `FileServer_proofs` has the same order for a server with a file, and says that the file
has each key once, that a flush has copied the metrics it has gone past, and that a start has loaded as many of
the file's. It is proved for any S that the manager's updates stay in, and used for three, since how much a client sends right differs: the
metrics a request can make (`Proper`), those that JSON can hold (`Sane`, if `AllFinite`), and those with the value their type asks for
(`Full`, if nothing panics).  `MirrorInv` then says that file and memory differ only while a request is open that has
stored something and not yet flushed it (`Dirty`), and `SavedInv` that an acknowledged item is in the file, or the
flush is between truncation and write, through the first stop or crash.  `RestoreLoadsFile` and
`AcknowledgedSurvives` follow at the step that ends a start: it has gone past the whole file.

*The service.*  `ServesAsPromised` needs `Serial` once more, for the metrics whose counters have a sum (`Whole`); a sum is added
up two steps before it is stored, so `Pending` says of the request that is served: the item it is at has been verified, and what its upsert
carries is the item added to what is held *now* (`Sums`), as nothing else can move that meanwhile.  The step at which an
upsert lands is then `Apply` (`ItemApplied`), a rejection `Refuse`, the arrival of a body `Submit`, its answer `Accept`;
finding, flushing, ticks and starts leave the service as it is.  The service applies an item only of a request
whose hashes all match, and refuses one before any is applied: `Checked` says that the items gone past are verified (`CheckedNext`), so,
of a batch that is not refused late, an item is stored only if all match (`AllChecked`), and a rejection comes at its first item (`RefusedAtOnce`).  A step into or out of a stop is left out of the statement: what it
does to the memory is the matter of `AcknowledgedSurvives`.

*The table keeps it.*  The table does not lose what the file may: under `Clean` no row holds what memory does not (`Fine`, `Committed`:
a transaction writes held metrics, and commits what covers the row before), a start has loaded each row it has gone past
(`Loading`: `SkipRow` cannot happen, as no held metric has an empty name), and a request is answered after a commit has what it stored (`Committed`).  `Fine` also says that
every metric held has the key of an item some request carried; `Clean` is about those, and thereby
excludes a second type under one name, a long name and an empty one, in memory and in the table.

*The agent.*  With overlapping tasks only types are kept, by `Filled`: what is in the arrays or on its way there is
metrics that can be sent, as `Sign` dereferences a counter's delta.  With tasks apart, `Steady`: `Apart` says which calls there can
be (a scan upserts its n-th metric, only a report that has ended deletes, and a report walks the slice as it
is); `Tallied`, that any held counter has the count of one scan, and if it is yet to be sent, the server has not
counted that scan, also when an answer was lost, since the delete comes before the next report; `Latest`, that the last
scan's PollCount is held and yet to be sent, or counted, if no request failed.  A batch is counted by a recursive
function over its metrics; that it counts each held counter once is shown by a least counterexample among its prefixes.

*Bodies.*  What has been sealed is `b` blocks of the first `b` chunks (`Blocks` in `CipherInv`), so its length
is `b` times the size of the key, and `Decrypt`'s cuts, made from the front by the size of the key,
fall on those blocks if the keys are of one pair, and recover the chunks one after the
other.  With another key the first cut starts with the first byte of a block that key does not open.
`Delivery` only ever moves a body as `CipherSpec` does, which is a refinement with the identity for a mapping, and
has both results from it.

*Settings.*  `AsGiven_` says that the settings in force are the functions of what was given, from the
start of a process to its end; `InForce` and `DatabaseFirst` are then facts about overlaying
(`ServerSettingsAt`, `AgentSettingsAt`).  For `SealedOnWire`, the key in force opens to a public key
(`GivenKeyInForce`), and `ClearInv` says that the text of a body under way is sealed by it; a byte on the wire
is then one of a block.

*What ends a report.*  `OutcomeTellsAgreement` looks at a report that has ended, and rests on all that went before: `ReportInv` says that
the settings in force are those given (`AsGiven_`), that a report goes on only while its agent is up (`Processes`), that a body is under way just when a
report in JSON has one, with the keys of both ends, and is opened only for a client on the list (`BodyOf`), and that
a report past its first metric has met settings that let it through (`ThroughSoFar`), so that the last answer speaks for all of them.
`ThroughIs` says what these are: no hash where none is read, and an address that is first on the list or follows no space.  `URLVerdict`,
`RPCVerdict` and `BodyVerdict` say of each way to report that the answer is 200 exactly under those.

*What readers see.*  `StoreInv` says that the store has the keys of the metrics taken, and under each what they come to (`Faithful`).
An answer is a `GoodAnswer` if the store after it is faithful to the metrics taken before and, if it is 200, the ones it carries.  Each route gives good
answers; a batch does because of `BatchInTurn`, which turns the recursive function `UpsertBatch` into an
equation per metric, and `SumMore`, which does that for the sum; both go by a least counterexample.  A batch refused half-way
leaves a store that is faithful to nothing that was answered (`partly`).

Assumptions: `NilAssumption`, `ManagerAssumption`, `FileAssumption`, `DBAssumption`, the two `ServerAssumption`s, `AgentAssumption`, `CipherAssumption`,
`SettingsAssumption`, `RoutesAssumption` and `DeliveryAssumption` (nil is no metric, delta, tag nor type, requests are callers, tags cover
the items of bodies and the measurements of scans, PollCount is among what `updateRuntime` stores and the one counter of a scan
(`scanner.go:42-141`), the constants have their types, the refused names are names, keys are longer than what OAEP takes of a block, the
two PEM tables lead to known pairs, the environment gives no empty DSN, which counts as none, and no interval; an agent holds at least one metric, all
with a type, a value and a name that a path need not escape, as in `scanner.go:42-141`; a subnet list on the command line is not empty, for an empty one is no list;
requests carry what their route can: a text for a value in a path, a
metric in a call, metrics or what does not decode in a body); TLC
evaluates them on every run.  One more, `ServiceAssumption`, is cited by `ServesAsPromised` alone: the metrics that come have their
values.  Without a key the manager stores one that does not (`manager.go:128`), and then there is no sum to speak of
(`manager_nildelta`).

Only model-checked: liveness (`EventuallySaved`, `GaugesArrive`, `EveryReportEnds`), which is out of the prover's reach, as is
ENABLED.  The library's induction theorems take an operator as a parameter, which the provers cannot instantiate; the
inductions here (over the metrics of a batch and of a sum) go by the least element of a set of numbers instead.
No module uses RECURSIVE operators.

## 5. What is not modelled, and the plan

Left out on purpose:

* the text of metrics and of JSON, and how a text becomes a number: wrong texts are `Garbage`;
* HMAC and RSA-OAEP themselves, which the models have as external functions;
* hashes the manager writes into results, which every reader computes again;
* gzip of bodies and answers, ping and the database's health: stateless, and no other part depends on them;
* the intervals in the environment, parsed by a library that is not in the repository,
  and the agent's intervals; `CONFIG`, which is read after the file would have been;
* Delete, Close and Restore of the manager, which nothing in the server calls;
* logging, the generated gRPC code, key generation, and the static checks: I/O,
  generated code, or a function of a syntax tree.

What could come next:

1. An abstract agent (what is kept of a scan when a report falls into it), which
   `Agent` with tasks apart implements.
2. `ServedAsPromised` for the server with a database, and for a positive interval, when a flush may run beside a request.
3. Larger instances: three overlapping requests in the servers, a third scan in the agent.
