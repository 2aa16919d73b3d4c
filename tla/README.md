# iban-pizza in TLA+

A verification project for `iban-pizza`, a Go server and command line tool that
validates IBANs against bank directories. It holds TLA+ models of the parts of
the program that keep state or run concurrently, TLC configurations that check
them on small instances, and theorems about them checked by TLAPS. All line
numbers below are of the files in the repository.

## 1. The system

| Component | State | Operations | Talks to |
|---|---|---|---|
| Contract of the stores (`bankdata/bankdata.go`) | - | `Repository`: Find, FindByBIC, Search, Stats; `Writer`: Replace | implemented by both stores |
| In-memory store (`bankdata/memory.go`) | two maps of records, a map of sources, an RWMutex | Replace edits the maps in place under the write lock; reads under the read lock | filled by snapshots and loaders, read by the API |
| PostgreSQL store (`bankdata/postgres`) | tables `bank`, `bank_source` | Replace is one transaction of four statements; each read is one statement, Stats two | loaders are separate processes and may overlap |
| Snapshot files (`bankdata/snapshot.go`) | a gzip JSON-lines file | Write, Read, Save (temporary file, rename), CopySources | a store on either side |
| Sources (`internal/sources`) | none | fetch a registry, parse it into a batch, refuse an empty one, Replace | a Writer |
| Commands (`cmd/iban-pizza`) | the snapshot file, the scheme directory | update, import, snapshot, choose a backend | stores, sources, register |
| Server (`cmd/iban-pizza/serve.go`) | listening, draining | serve, graceful shutdown | API |
| SEPA register (`internal/sepa`) | memberships by scheme and BIC, known BICs, a directory of CSV files | Download, SaveDir, LoadDir, Add, Lookup | update and serve |
| API v2, v1 (`internal/api`) | none of its own | validate (several reads of the store per answer), batch, banks, countries, health | Repository, register |
| Rate limiter (`internal/api/middleware.go`) | a window per client address | allow | every request |
| IBAN (`iban`), check digits (`internal/checkdigit`) | none | Parse, Validate, Calculate; Validate by method | API |
| Logos, embedded snapshot, web page, clients | none | presentation, one request per call | - |

Which behaviours are hard:

* **Concurrency in one process**: `MemoryStore.Replace` edits its maps in three
  loops while readers want them; requests race for the limiter's lock.
* **Concurrency between processes**: with `-database-url` loaders are jobs and
  shells that nothing keeps from overlapping, and a server answers a request
  with several reads between which a load can commit.
* **Failure**: a download that fails half way, a crash between two writes of
  `SaveDir` or before the rename of a snapshot, a transaction aborted by the
  server, a batch that repeats a key.
* **Sequences of legal calls**: records are owned by a source *name*, but their
  key is (country, bank code), so ownership moves between names.
* **Boundaries**: limits of searches and windows, remainders modulo 97, 10, 11.

What makes each component correct: a store behaves as if every Replace and
every read were one step, and records, index and catalogue agree (both
backends); a snapshot file is always one whole snapshot; an answer about an
IBAN is the answer of some moment, and in v2 missing data never reads as a failed
check; the limiter refuses nobody who kept the limit and bounds what it admits in a
minute; a scheme without data is not a negative; an IBAN made by
Calculate validates, and one slip in it is noticed; a stop cuts off no request
that could still be answered.

## 2. The plan

1. `BankData`, `BankStore`: vocabulary and abstract contract. **Done, proved.**
2. `MemoryStore`: implements `BankStore`. **Done, proved.**
3. `PgStore`: implements `BankStore` while loads of one source do not overlap.
   **Done, proved.**
4. `RateLimiter`: the fixed window counter with late requests. **Done, proved.**
5. `Validation`: v2 and v1 answers over a `BankStore` that changes. **Done,
   proved.**
6. `SchemeRegister`: download, files, load, lookup. **Done, proved.**
7. `SnapshotFile` and `Loading`: the update, import and snapshot commands with
   crashes and partial failures, over one file and one database. **Done, proved.**
8. `IbanRegistry`, `Iban`, `CheckDigit`, `Entry`: the registry, parsing and
   calculating, the account check digits, and an IBAN from the form to its check.
   **Done, proved.**
9. `Serve`: listen, drain, shutdown, restart, with requests in flight. **Done,
   safety proved.**

Order of composition: `MemoryStore` and `PgStore` refine `BankStore`;
`Validation` runs over `BankStore`, so what it shows holds over both; `Loading`
uses the Replace of `BankStore` as a value (`SnapshotFile!Replaced`) because it
handles several stores at once; `Entry` composes `Iban` with `CheckDigit`.

Every safety and action property the passing runs check is proved, for every
value of the constants. What is left is out of the prover's reach: liveness.

## 3. Modules and the code

Keys are pairs of numbers for the upper-case country and trimmed bank code; a
record is its source, BIC and `edition`, which stands for every other field.
The names of `RateLimiter` and `SchemeRegister` that every module has (Init, Next,
Spec, vars, TypeOK) carry the prefix `Limiter` and `Register`, because their proofs
stand in one module with those of `Validation` and of `Serve`.
Each module's text repeats the order of the code; a definition marked `Faulty`
is not part of any specification but what a plausible bug would make of the
definition after it.

**`BankData`** (`bankdata/bankdata.go`). What records, batches, sources and
answers are: `Clear` is the delete by source name, `Overlay` the insertion of a
batch from its n-th bank on, `InfoOf` the catalogue row. `ByKey`, `ByBIC`,
`ByCountry` and `StatsOf` are the four reads; `Search` returns the first
`MaxLimit` keys of a country in the order the code sorts by. A query by name is
left out, it selects rows and no state depends on it.

**`BankStore`** is the abstract contract: `bank`, `sources` and the last
`answer` of each reader. `Replace(batch)` is one step, `Ask` answers one query
from one moment. `Consistent` says that every record belongs to a listed
source, is of the edition the catalogue dates, and that no source has more
records than counted.

**`MemoryStore`** (`bankdata/memory.go`). `byKey`, `byBIC`, `sources` are the
fields; `holder` and `reading` are the mutex: a writer announces itself
(`Announce`), which keeps new readers out, waits for the readers inside
(`Enter`), edits the maps in the loops of `Replace` (`DeleteOld`, `InsertNext`,
`InsertedAll`, `Count`, `Reindex`) and unlocks. A read is `RLock` and `Read`
(answer and deferred `RUnlock`).

**`PgStore`** (`bankdata/postgres/postgres.go`). `rows` and `catalogue` are what
is committed. A transaction walks through `Begin`, `ClearSource`, `ClearKeys`
(each followed by a `Visit` per row, which waits for a transaction that has deleted
the version of the row standing under the key, `Standing`, and skips a row that is
gone), `CopyRow` or `UniqueViolation`, `Upsert`, `Commit`;
`Abort` is a lost connection and `DeadlockVictim` the server's choice. `gone`,
`added` and `target` are what the transaction has deleted, inserted and still
to visit; `alone` and `apart` are history variables: that no other load overlapped
this one, and that no two loads of one source ever did. What PostgreSQL does is
marked external in the map: it is modelled from the guarantees of READ COMMITTED
these four statements rely on.

**`RateLimiter`** (`internal/api/middleware.go`). `windows` and `last` are the
limiter's fields, `request` is what each goroutine holds between `time.Now()`
and the limiter's mutex, which is where requests overtake each other.
`OpenWindow`, `CountOn` and `Refuse` are the three outcomes of `allow`, each
with the sweep inside; `ClientIP` is the address decision, the first value of the
trusted header's list unless that is `Blank`. `passed` is a history
variable: for each client the requests that got through, as pairs of the time they
arrived and a number that tells requests of one time apart. CORS, recovery,
logging and body limits keep no state.

**`Validation`** (`internal/api/v2.go`, `v1.go`). `call[r]` is the answer a
request has put together. v2 reads the bank, then, if there is none, whether
the country is covered, then the dates; v1 reads the bank up to twice. Any read
can fail, and between reads another process may `Load`. The store is an
instance of `BankStore` (`Store`), whose answers go to the requests. `moments` is a
history variable: the states of the store since the request came.

**`SchemeRegister`** (`internal/sepa`, `cmd/iban-pizza/update.go`, `serve.go`).
`files` is the directory. Update fetches scheme by scheme into `got` (`Fetch`,
`FetchFails`), then writes each file in place (`Truncate`, `Written`); serve loads
them in the order of `AllSchemes` (`LoadScheme`, `SkipScheme`, `LoadFails`, which is
also a file that cannot be read) into `register`, of which `Add` replaces one table
and lets `known` grow, and answers `Lookup`. `Faults` says what may go wrong:
downloads, a crash during a write, a server that loads while update writes. Between
`Truncate` and `Written` the file is `Cut`: a part of the export, or all of it with
the last row short of its leaving date. History variables say what happened: the files
the last write left cut off (`torn`), the schemes loaded from a file cut off or being
written (`dubious`), and what this update has downloaded, since which edition
(`fetched`, `since`).

**`SnapshotFile`** (`bankdata/snapshot.go`). What a file can be (`Absent`,
`Unreadable`, a `Snapshot`), the parcels `CopySources` makes of it (`ParcelOf`,
in the order of `FirstOf`), the limited search `WriteSnapshot` uses for a store
that is no `MemoryStore` (`Searched`), and `Replaced`, what a Replace makes of a
store.

**`Loading`** (`cmd/iban-pizza/update.go`, `import.go`, `main.go`,
`internal/sources`, `bankdata/snapshot.go`). A command goes through the labels of
`pc`: it opens a store (`OpenToLoad`, `OpenToCopy`, `OpenToSnapshot`,
`OpenFails`), puts its sources in one by one (`Fetch`, `FetchFails`, `Store`,
`UpdateStoreFails`, `StoreFails`), and saves (`GoOnToSave`, `ReadStats`, `Write`,
`Rename`, `SaveFails`) or ends; a dry import ends once its file or snapshot has been
read, before a store is opened (`DryRun`), while a dry update goes on into a store of
its own. `Crash` kills it at any step. `mem` is the store
in its memory, `from` the snapshot `import -snapshot` copies, `todo` and `got` the
sources still to do and the one fetched, `tmp` the temporary file. A job is a row
of flags: which store, which sources, `-write-snapshot`, `-dry-run`. `Faults`
says what may go wrong in a behaviour: commands that overlap, failures and
crashes, a file that is unreadable at the start, an import that takes another
source's records or has none (`OddJobs`). Otherwise each source brings the banks of a
country of its own, as the fetchers of `internal/sources` do, and what is there at
the start lists no source without records (`OwnersAssumption`).

**`IbanRegistry`**, **`Iban`** (`iban/registry.go`, `registry_data.go`, `iban.go`,
`calculate.go`). All rows of the registry with structure, bank code and account
fields, over texts that are sequences of characters. `Parse` carries the error of
the first test that fails, in the code's order; `mod97` is the running remainder
the code keeps (`Running`), over the text with its first four characters taken last
(`Turned`); `Calculate` is what v1's calculate returns, its refusal of a country
whose bank code leaves no room for an account included. A text is characters
here and not a model value, because the check digits and the field offsets are
about the characters.

**`CheckDigit`** (`internal/checkdigit`). Each verified method as the digit it
expects and where, or none; the sums, their weights and directions, and the
treatment of the remainders are those of the code.

**`Entry`** composes the two: a customer fills in a form or a bank issues an IBAN,
`handleV1Calculate` makes a text of it, slips happen to the form and the text
(`MistypeAccount`, `Misread`, `Swap`) and so do changes of format (`OmitZero`,
`Separate`, `WriteSmall`), and `accountCheck` and `Accepted` judge it as v2 does.
`Remainder` is the reference definition of the checksum, by powers of ten and not
by a running remainder. A form (`FormTexts`) is of a country of the registry, with any
text as its bank code and an account number in digits and capitals, which is what the
code's `Normalize` leaves of one written with separators or small letters. A BBAN
issued elsewhere has the length and structure of its country's row.

**`Serve`** (`cmd/iban-pizza/serve.go`, `internal/api/health.go`, `v2.go`,
`postgres.go`). `proc` is where `runServe` is, `listener` the goroutine of
`ListenAndServe`, `drain` how long `Shutdown` has waited, `call[c]` the request of a
client with its age. On PostgreSQL the `Stats` that health and readiness call is two
statements: after the first (`EndRead`) a handler is at stage `listing`, and the
second (`EndList`) may still fail. `SelectError` and `SelectSignal` are the two cases
of the select, `Drained` and `Deadline` the two ends of `Shutdown`, `Exit` the
deferred close of the store, which for a pool waits for the connections lent out.
`seen` is a history variable: what the store could have answered since the request
came.

## 4. The runs

| Run | Question | Bounds, and why they suffice |
|---|---|---|
| `memory` | Is the store atomic under the mutex, its index and catalogue exact, the records of other sources safe, and does every Replace return? | 2 writers (they exclude each other, queue), 1 reader (readers share the lock), 3 keys, 5 batches: next edition with a repeated row, other name for the same bank, empty, second country |
| `pg` | Is a load one step of the contract while loads of one source do not overlap, when can it fail, and does each end? | 2 transactions, `MaxReplaces` 3: one before, two that overlap; 1 reader, batches in opposite row order, under another name, with a repeat, empty |
| `pg_stale` | *violated* | as above, without a reader |
| `limiter` | Are bursts bounded, refusals deserved, windows dropped, with and without a proxy? | 2 clients, limit 2, a minute of 2 ticks, 2 goroutines, requests up to `MaxLate` 1 tick late, `Horizon` 5 ticks: two windows and a sweep |
| `validation` | Was every statement of an answer true, and is an outage never an invalid IBAN in v2? | 1 request (requests share nothing but the store), `MaxLoads` 4 loads of 3 batches |
| `validation_first` | *violated* | as above |
| `register` | Are files, statuses and denials right when downloads fail, writes are cut off or overlap a start, and updates are run again? | 2 schemes, 3 BICs, 2 editions: one bank leaves, one joins, one is nowhere; every combination of faults |
| `register_absent` | *violated* | as above, failing downloads only |
| `loading` | Is the file always whole, do catalogue and records stay together, are other countries kept, and does success mean done? | 2 commands (a command meets at most what another leaves or does meanwhile), 14 jobs: every operation with every store it is told apart by, saved and not, dry; 3 names, 4 keys, `MaxLimit` 2 below the records a store can hold, so that the limit of a search bites; 2 editions, the second of which is empty for a country; every combination of faults |
| `loading_oneatatime` | *violated* | as above, 2 imports, no faults |
| `checks` | Is what is made of a form or issued by a bank accepted and read back, and are single slips noticed? | all rows of the registry, a full and a short bank code and account each, with letters where the structure allows them, an issued IBAN per row, the Bundesbank's test numbers with borders of the exempt ranges, `MaxEdits` 1: every single slip at every position |
| `serve` | Does a stop cut off only what is late, is every answer true, does the server stop, does every request end? | 2 clients (one can hold up the stop of the other), `Shutdown` 2 ticks and a response 3, as 20 and 30 seconds in the code; restarts without bound |

The *violated* runs are the disagreements between code and documentation listed
in section 6. `CHECK_DEADLOCK FALSE` stands in the runs of `PgStore`,
`RateLimiter`, `Validation` and `Entry`, whose behaviours end at a bound
(`MaxReplaces`, `Horizon`, `MaxLoads`, `MaxEdits`); elsewhere TLC also shows that
nothing gets stuck (in `Loading`, a behaviour ends when every command has run).

**What the runs show.**

* *Stores.* The in-memory store is linearizable: its `Replace` is one step of
  `BankStore` although it is three loops and the rebuild of the index. The PostgreSQL
  store is that too as long as loads of one source do not overlap; where they do,
  `pg_stale` shows what is left.
* *Commands.* Whatever fails, crashes or overlaps, the snapshot file is replaced
  as a whole (`FileLoads`), and its catalogue belongs to its records unless it is
  written from a database that is loaded meanwhile (`DataConsistent`). Alone, a
  command that starts from the file it writes keeps the other sources
  (`OthersKept`), and one that reports success has done everything
  (`SuccessMeansDone`). `NoSourceLost` needs imports that do not take another
  source's records over: after one that does, the old source stays listed without
  records and the program writes a snapshot its own `CopySources` refuses.
* *Answers.* An answer about an IBAN mixes moments, but each of its statements was
  true at one of them. `MissingNeverFails`: in v2 an outage never reads as invalid.
  In v1 it does (`v1.go:120`): `valid` is false there for an IBAN the store could not
  be asked about, and the property says nothing of v1.
* *Limiter.* Only a client that has used up its limit is refused. `BoundedBurst`
  gives the exact promise: at most twice the limit in any minute when requests are
  decided in the order of their arrival, and in a span shortened by twice the
  lateness when they are not, because a late request can reopen, in the past, a
  window the sweep has dropped.
* *Register.* A file is a published export unless its last write was cut off
  (`FilesStayLoadable`), and an update that runs on repairs what an earlier one left
  cut off (`UpdateRefreshes`). A torn export can load; the statuses of its scheme then
  need not have been published, those of the other schemes still are (`Reliable`).
  Even then `not_participant` is said only of a BIC some export has listed, and
  `unknown` only of one that each scheme loaded whole did not list in some edition
  (`NegativesEarned`). `register_absent`: a failed first download leaves a scheme
  without a file, and its BICs are denied because other schemes list them.
* *IBANs.* For every row the IBAN calculate returns is accepted and gives back the
  bank code and the account number it was made of, and so is one with check digits
  by the reference arithmetic; a slip of one character, or of two neighbours of a
  kind, is noticed. Neighbours of different kinds are not promised: `1B` and `B1`
  can agree modulo 97. Each check digit method accepts exactly one of ten digits,
  or says nothing of any.
* *Server.* A request is cut off only when the listener failed or when it outlasts
  `Shutdown`'s 20 seconds, which a slow client can because a response may take 30;
  the exit status then says so.

**Fairness.** `memory`: a goroutine inside its critical section goes on
(weak fairness; the Go scheduler runs every runnable goroutine), and a waiting
writer gets the mutex even if others get it again and again (strong fairness of
`Announce`: writers queue on a `sync.Mutex`, which hands itself to a goroutine
that has waited for a millisecond). `pg`: the server executes each statement
it can and its deadlock detector runs; no loader is required to call. `serve`:
`runServe` and the handlers are scheduled, time passes, and the database ends every
query, if only by breaking its connection; nothing makes a client read its
response, send one, or a signal come. `Loading` and `SchemeRegister` state no
liveness: a command ends by itself or is killed, and nothing waits for it.

## 5. The proofs

| Theorem | Module | Says |
|---|---|---|
| `ContractConsistent` | `Validation_proofs` | the abstract store keeps records and catalogue typed and consistent |
| `StoreInvariant`, `StoreTypeOK` | `MemoryStore_proofs` | types, exclusion, and the BIC index agrees with the records |
| `StoreAtomic` | `MemoryStore_proofs` | `MemoryStore` implements `BankStore` |
| `StoreConsistent` | `MemoryStore_proofs` | the contract's consistency holds in the maps |
| `StoreIsolation` | `MemoryStore_proofs` | `Replace` leaves the records of other sources alone |
| `PgTypeOK`, `PgNoOrphans` | `PgStore_proofs` | however loads overlap: types, and every committed row's source is in the catalogue |
| `PgFailsOnlyOnRepeats` | `PgStore_proofs` | a load no other overlaps fails on the key only for its own repeats |
| `PgAtomic`, `PgConsistent` | `PgStore_proofs` | while loads of one source do not overlap: `PgStore` implements `BankStore`, and is consistent |
| `LoadingTypeOK`, `LoadingFileLoads` | `Loading_proofs` | types; the file is never half written |
| `LoadingDataConsistent` | `Loading_proofs` | catalogue and records stay together |
| `LoadingNoSourceLost` | `Loading_proofs` | every listed source has records |
| `LoadingOthersKept` | `Loading_proofs` | a save keeps the sources the command was not asked for |
| `LoadingSuccessMeansDone` | `Loading_proofs` | who reports success has done everything |
| `ValidationTypeOK`, `ValidationStatementsHeld` | `Validation_proofs` | each statement of an answer was true at a moment of the request |
| `ValidationMissingNeverFails` | `Validation_proofs` | what the service lacks makes no IBAN invalid in v2 |
| `LimiterTyped`, `LimiterBoundedBurst` | `Validation_proofs` | at most twice the limit in a minute (less twice the lateness) |
| `LimiterRefusedAtLimit` | `Validation_proofs` | who is refused has used up its limit itself |
| `LimiterForgotten` | `Validation_proofs` | windows of clients that have gone are dropped |
| `RegisterTyped`, `RegisterFilesLoadable` | `Serve_proofs` | files that are not being written are published exports |
| `RegisterReliable` | `Serve_proofs` | the statuses given were published |
| `RegisterNegativesEarned` | `Serve_proofs` | a denial rests on what was published |
| `RegisterRefreshes` | `Serve_proofs` | what an update has written is whole and of its own time |
| `ServeTypeOK`, `ServeCutOnlyLate` | `Serve_proofs` | a stop cuts off only what `Shutdown` has waited for |
| `ServeAnswersHeld` | `Serve_proofs` | answers held at a moment of the request |
| `RemainderIs` | `Iban_proofs` | the code's running remainder is that of ISO 7064, for every text of up to 34 digits and capitals |
| `EntryTyped`, `EntryAccepted` | `Entry_proofs` | an IBAN no one has changed is accepted |
| `EntryRecovered` | `Entry_proofs` | bank code and account of the form are found in the IBAN |
| `EntryOneDigit` | `Entry_proofs` | each method accepts one check digit of ten, or says nothing |
| `EntryWrongDigit` | `Entry_proofs` | a wrong digit of an account number is noticed |
| `EntrySlips` | `Entry_proofs` | a misread character or two exchanged neighbours are noticed |
| `EntrySpelling` | `Entry_proofs` | leading zeros, grouping and case change nothing |

Each is `Spec => []P` for an invariant, `Spec => P` for an action property, but for
`RemainderIs`, which is about two operators. They hold for any sets of goroutines,
loaders, clients, requests, commands, jobs, keys, names, schemes, batches, forms and
BBANs, and any number of loads, that satisfy the `ASSUME`s of the modules. These say
what the constants are, and no more:

* `BankData`: the keys are a finite set of pairs of numbers; a batch is a name, an
  edition and a sequence of banks. `MemoryStore`: writers and readers are different.
  `PgStore`, `Validation`: the bounds are numbers.
* `Loading`: the snapshot in the binary, the first file and the first database are
  typed and consistent; what a publisher offers under a name is a batch of that
  name, and something has been offered; `OwnersAssumption`, see section 3.
* `RateLimiter`: the limit and a minute are not zero, and a request is late by a
  minute at most (it waits for a mutex held for the length of a map sweep).
* `SchemeRegister`: the schemes are listed in an order; an edition has an export for
  each, with at least one bank (`ParseCSV` refuses one without).
* `Serve`: the timeouts are numbers, of any size and in either order.
* `Entry`: forms are of the countries of the registry, with account numbers in digits
  and capitals; banks issue BBANs that fit their country's row (`ElsewhereAssumption`:
  an IBAN that does not is not one); the number of edits has any bound. The registry
  itself is no constant: the proofs are about its rows as they stand.

`BankData_proofs` holds the lemmas on the operators: what `Clear`, `Overlay` and
`InfoOf` keep. All proofs have one lemma per action, or per group of actions that
touch the same variables, under an inductive invariant whose parts are named.

**The contract.** `Consistent` with the types is inductive as it stands. The theorem
is about the instance `Store` of `Validation`, in which every question may be asked.
Nothing in its proof is about who asks, so it is the contract's own theorem.

**The in-memory store.** The inductive invariant `Inv` of `MemoryStore` has four
parts: `TypeOK`; `LockInv`, a writer past `Announce` is the `holder`, and nobody
reads once it has entered; `NextInv`, an insertion loop starts at the first bank;
`IndexInv`, the index agrees with the records except between the first insertion
and the rebuild. `Exclusion` and `IndexAgrees` follow, but are not inductive:
`Exclusion` does not say who may enter next, and `IndexAgrees` says nothing of
the writer that is about to leave.

For the refinement, `Outcome` maps the half-edited maps to what the rest of the
method will leave: the abstract step is `Enter`, every later step of the writer
is a stutter. That `Overlay` from the n-th bank equals one insertion followed by
`Overlay` from the next is the lemma the stutter rests on; that nobody reads in
between is `Exclusion`.

**The commands.** `TInv` proves the types and `FileLoads`. What has to be added to
them is what a command has set up before it gets to a step: the temporary file
loads when it is about to be renamed (`TypeOK` says it, and it is what makes
`FileLoads` inductive), the sources still to do are among those the job names, or
among those of the copied snapshot, so that the parcel of each exists. `DInv` adds
what consistency needs: at most one command runs unless they may overlap
(`Solo`), the catalogue `WriteSnapshot` has read still is the store's when the
records are written, because nobody else loads (`Undisturbed`), every store in a
memory and every snapshot being copied is consistent (`Sound`), and so are the
database and the file (`Data`). `ReplacedConsistent` is the lemma under it: a
Replace of one parcel keeps a store consistent.

`OInv` adds where things come from: what a command has fetched is what was offered,
the temporary file is the store it was written from (`Faithful`), and without odd
files a bank is only ever held for the source that owns it (`Owning`). On it rest the
invariants of the three other theorems. `NInv` (`NoSourceLost`): every store, file and
copied snapshot in play lists sources with records only; a parcel takes nothing from
another source because it brings no bank of one. `KInv` (`OthersKept`): from the
moment it has opened its store, a command by itself still has what the file has of the
sources it was not asked for. `SInv` (`SuccessMeansDone`): each source a command was
asked for is still to come, or is fetched, or is in its store as it was wanted
(`Delivering`), unless the command knows that it has failed. `StepMoves` says once what
a step of a command can be, so that these three proofs split into the seven kinds of
step and not into the actions.

**The PostgreSQL store.** `LockInv` is what row locks give: no two loads have deleted
one row or inserted one key, and a key is inserted only where the committed row is
away. `VersionInv`: each load writes a version of its own, so that a row it meant to
delete and finds replaced is not mistaken for the old one. `LoadInv`: what a load has
deleted and has in view is of its source or under its keys, and what it has inserted
are its banks up to `next`. `NoOrphans`, a part of the invariant that TLC is not asked
about, says that the catalogue lists the source of every row, overlaps or not. For
the refinement, `ApartInv` says that, while no two loads of one source overlap, the
rows of the source are in view of the first `DELETE` or gone, and after it gone; at the
commit, what is left with what was inserted is therefore what `Clear` and `Overlay`
make of the table, and `Commit` is the one abstract step. It would not be inductive
without `apart`: that is what `pg_stale` shows. `AloneInv` says the same of the
incoming keys while nobody else loads, and gives `FailsOnlyOnRepeats`.

**The limiter.** `SplitInv` is the argument for the bound: what a client has passed
falls into what its present window counts, what the one before counted, and requests
too old for the span in question. The two windows meet at a time `floor`, and every
request that still waits or is to come arrived at `floor` or later. A window opens
when the present one has expired or was swept; then the present becomes the one
before, and what that counted is old: a minute, less twice the lateness, lies between.
`SweepInv` bounds how far in the past a swept window can be reopened. Counts are
cardinalities, so the lemmas of `FiniteSetTheorems` carry it. `RefusedAtLimit` follows
from the present window's part, `Forgotten` from what a decision does to the windows.

**The register.** `WriteInv`: at most one file is being written, and only in a save.
`GotInv` and `FilesInv` follow an export from the download into its file: what update
holds was published since it started, and what it holds no more is on disk; every
file is a part of an export (`Cut`), and all of it unless its scheme is in `writing`
or `torn`. `LoadedInv` says the same of the register, with `dubious` in place of both,
because a file may be whole again when a server still has what it was. `KnownInv`:
`known` has every BIC of every table, and none that no loaded scheme has listed; it is
kept by `Add` and not by definition, and with `LoadedInv` it is `NegativesEarned`.

**Answers.** `Validation`'s invariant `Sound` says, of the answer a request has put
together so far, what it rests on: `Placed`, which read it is at; `Stated`, that each
part was so at one of the `moments`; `Missing`, that an IBAN right by itself is called
invalid only over a moment with its country covered and one without its bank. A load
only adds a moment, and each part grows with them (`SoundGrows`); so only the reads
themselves are left to look at.

**The server.** `LateInv`: a request in flight is at least as old as `Shutdown` has
waited, because none is accepted after it began, and only the end of the process cuts
one off. `ReturnInv`: `runServe` has returned when it is past the select, without
error only with nothing in flight. `MomentInv` and `FoundInv`: a request in flight has
seen the present state of the store; what the first statement of `Stats` found is
among what it saw, and a reply says (`Told`) only what one of these moments bears out,
or the store was being closed. `AnswersHeld` follows from `FoundInv`.

**IBANs and check digits.** `Iban_proofs` holds the lemmas on the operators,
`Entry_proofs` the invariants. The functions are recursive, over the positions of a text
or the size of a set. `RunExists` shows once that such a function over `0..n` exists and
satisfies its equation; `Induction` is the induction on such positions, stated of a set
of numbers (a set without a least exception is everything), and `BySize` the same for
sums over finite sets. `RegistryIs` is proved from the rows of the registry: a code is
two capitals, and bank code and account lie one behind the other within the length.

`RemainderIs` goes along the text: what the code has when it has read n characters,
times ten to the power of the digits still to come, with the rest of the standard's
sum, is the same remainder for every n. `NumberedFits`: with 98 - m in the place of
two zeros, a text of remainder m has remainder 1. Thus whatever calculate or a bank
made is accepted, and `AsIssued` (a text without edits is the one made of the form,
or of a BBAN), with the types, is inductive.

For a slip, two texts that agree up to it have the same remainder there; behind it the
remainders stay different, because a step multiplies by 10 or 100 and adds the same,
which is one to one modulo 97 (`ShiftInjective`, `StaysDifferent`). Two exchanged
digits change the remainder by 9 times their difference, letters by 99 times. The
fourth and the fifth character are neighbours in the text, but the first and the last
in the order of the count, with all the others between them; there it matters that no
power of ten up to the 67th is 1 (`PowersNotOne`: 10 has order 96 modulo 97).
`Normalize` commutes with concatenation (`NormalizeParts`), so all of it holds of
texts with separators and small letters, which is `EntrySpelling` too.

`EntryRecovered` takes apart the text that was put together (`PartsFound`); that the
account check sees the same digits needs that Germany's row has only digits
(`GermanBBAN`), since calculate accepts nothing else there (`GermanDigits`).

The check digit methods share two properties. `Checks`: the expected digit follows
from the positions read, its own not among them. `Tells`: a change in one of these
changes it, unless it is the 0 that stands for two remainders (`TellsAll`, for
method 00: without exception). Each method has them from its weights, which are
prime to 11, or 1 and 2 with cross sums, which are different for different digits
(`Weights`, `SumsDiffer`). `MethodFits` joins the methods for `EntryOneDigit`, with
the exempt ranges of 99 and the variants of 88 and C1 case by case; `WrongDigit`
does for `EntryWrongDigit`.

**Only model-checked**: liveness (`ReplaceReturns` of both stores, `StopsAfterSignal`,
`RequestsEnd`), which is out of the prover's reach, as `ENABLED` under fairness is.
TLC also checks the invariants and action properties above, on the instances of
section 4 (`NoOrphans` only as what `Atomic` implies of it), so that none is proved of
a specification that does nothing.

## 6. Where code and documentation disagree

* `pg_stale`: two overlapping loads of one source leave a mixture of editions
  (`postgres.go:223`, against `postgres.go:214`).
* `validation_first`: a bank is called unknown while its country is being loaded
  for the first time (`v2.go:195`).
* `register_absent`: a scheme without data answers `not_participant`
  (`sepa.go:158`, against `load.go:62`).
* `loading_oneatatime`: an import with `-write-snapshot` and no `-data-file`, the
  example of `docs/deployment.md:294`, starts from the embedded snapshot and drops
  the countries the file held (`main.go:155`, against `docs/deployment.md:302`).

What else the modelling brought to light, and the models take as the code has it:

* The parsers of the German and Czech registries do not drop repeated keys; such a
  file loads in memory and fails on PostgreSQL (`FailsOnlyOnRepeats`).
* A snapshot of a database holds no more records than one search returns, 1000
  (`snapshot.go:40`), so `SuccessMeansDone` excepts larger databases.
* A `-data-file` that does not load is silently replaced by an empty store
  (`main.go:151`); two commands that overlap on one file lose the changes of one,
  as nothing locks it; a crash leaves the temporary file behind. Nothing says that
  commands may overlap, so `OthersKept` is about commands that do not.
* Generic imports without `-source` share one name, `generic import`, so the second
  removes the records of the first although they are of another country
  (`import.go:72`, `generic.go:12`; `docs/deployment.md:302` promises "every other
  country untouched"). To `OthersKept` the two are one source.
* A load under a new name takes the records of the old one over and leaves its
  catalogue entry (`memory.go:132`). A list imported in place of a registry
  (`docs/deployment.md:329`) and saved makes a snapshot that `CopySources` refuses
  as broken (`snapshot.go:207`); this is what `NoSourceLost` excepts as an odd file.
* In v1 an outage of the store makes `valid` false (`v1.go:120`).
* v2 answers 404 for a bank when the store fails (`v2.go:361`), and readiness fails
  on an outage of the store. `AnswersHeld` states what such answers still mean.
* `pgxpool.Close` waits for lent connections, beyond `Shutdown`'s 20 seconds;
  `StopsAfterSignal` rests on the database ending its queries.
* `Calculate` gives a result only where bank code and account fill the BBAN.

## 7. Not modelled

Left out because no state depends on it: the text formats of the registries and the
decoding of their files (their result, a batch, is an input), name search, the list
endpoints and `/v2/data` (one read each), the age of the data, logos, the web page,
the country names, the clients, CORS, recovery and logging. `Open` is a start that
succeeds or fails (`Serve!Start`); the schema migration runs before anything else
does. `Stats` of the PostgreSQL store is two statements in `Serve` and one step in
`Validation` and `Loading`, which use its list of sources only; that the total and the
list of sources are of one moment is nowhere needed and not shown. Check digit methods
01, 02 and 13 are implemented but not verified, so `Validate` never calls them;
`sepa.Download` has no caller. The read timeouts of `net/http` and a supervisor that
kills a server that stops too slowly are outside `Serve`; grouping for display is
outside `Iban`.
