# SecHub, specified in TLA+

SecHub collects SEC filings: it discovers them in EDGAR's feed and indexes,
fetches and parses them, and stores them with a derived quarter-over-quarter
diff in Postgres, from where an API and a web frontend read. This directory
holds TLA+ specifications of the parts that keep state, TLC instances that check
them, and TLAPS proofs of the central ones. Line references are to the
repository.

## The system

| Component | State it keeps | Operations | Why it is hard |
| --- | --- | --- | --- |
| Ingest pipeline `ingest/pipeline.py` | one transaction per filing on a connection that is reused | `ingest_filing` and its four handlers | sessions of the worker, the backfill, the CLI and the API's background task interleave; every call can end in a rollback |
| Entity resolution `ingest/resolve.py` | `filer`, `security` rows | get-or-create, rename, enrich | check-then-act under unique keys; row locks in any order |
| Diff `ingest/diff.py` | `holding_change` rows of one filer and period | `compute_changes` | depends on the order in which quarters arrive |
| EDGAR client `edgar/client.py` | the limiter's `_next_allowed` and lock, per process | `acquire`, `get` | threads, oversleeping, retries, redirects, several processes |
| Backfill `backfill.py`, `edgar/full_index.py` | `backfill_progress` rows | `run_backfill`, `backfill_quarter`, `_segment` | interrupted and resumed anywhere, beside an index that grows and other jobs |
| Worker `worker.py`, `edgar/feed.py`, `edgar/indexes.py` | `last_backfill`, the shutdown event | cycles: poll, daily catch-up, wait | failures inside a cycle, signals, a feed that shows only the newest filings |
| Migration runner `migrate.py` | `schema_migrations` and the schema | `migrate` | two runners at once, a failure between two files |
| Form parsers, `locate.py`, `header.py` | a cache of 512 listings | text and XML to records | pure text, no state worth a model |
| Read API `api/routers` | a connection per request; the list of a background ingest | filer and holders queries, the feed, `trigger_ingest` | several statements per request and several requests per page over tables that change in between |
| Frontend | per-component React state | poll, search, render | answers that arrive out of order |
| CLI, settings, `db.py` | none | `ingest-filer`, `backfill`, `backfill-history`; environment | the order in which a filer's filings are ingested |
| Deployment `docker-compose.yml` | which containers run | migrate, then serve; restart | the API starts beside the worker and other runners of `migrate` |
| `experiments/go-snake` | a terminal game, unrelated to SecHub | | not part of the system |

The worker, the backfill and the API's background task all discover references
(`FilingRef`s) and pass them to `ingest_filing`; that calls entity resolution, a
handler (which reads EDGAR through the client) and, for a 13F, the diff, all in
one database transaction. The database is the only state shared by processes;
the limiter is the only state shared by threads.

What makes each part correct:

* Pipeline: a filing is ingested at most once and all or nothing; a failed call
  leaves neither locks nor rows on the connection; foreign rows exist; the diff
  of a 13F misses no concurrent filing of the same filer; calls return.
* Diff: the changes replay the previous positions into the current ones, and are
  recomputed when what they are computed from changes (they are not: see
  `HistoryStale`).
* Client: stamped requests are an interval apart whatever the threads do; what
  that is worth on the wire; every `get` returns.
* Backfill: a quarter marked complete has been walked, and all are in the end.
* Worker: it survives failing cycles and stops when told; a filing that left the
  feed is caught by the catch-up.
* Migrations: a version is applied once and recorded exactly when it is.
* Read API: each answer is made of committed rows of the right filer; the newest
  period is the newest; the sections of one page do not contradict each other; the
  holders and the company's trades miss nothing.
* Live feed: what is on the screen belongs to the selected filter; a new filing
  surfaces. Deployment: no query meets a half-migrated schema.

## Modules

```
Diff   Resolve
   \   /
  Filings            what EDGAR offers, what the handlers read
     |
 FilingStore         the promise: one indivisible ingest per filing
     |      \
     |      Api      the queries, and the ingest the API triggers
     |  refinement (Store!StoreSpec)
  Ingest             ingest_filing statement by statement, sessions, crashes

 Migrate   LiveFeed
      \   /
    Deployment       docker-compose: API, worker, browser

 EdgarClient       Backfill       Worker
```

The proofs are beside them: `Sums` (finite sets and sums), `DiffProofs` (lemmas on
`Filings` and `Diff`), `StoreProofs` (`FilingStore`), `IngestProofs` (`Ingest`, the
refinement and identity), `ApiProofs`, `ClientProofs`, `BackfillProofs` and
`DeploymentProofs` (`Migrate`, `LiveFeed`, `Deployment`).

`MCApi`, `MCIngest`, `MCClient`, `MCBackfill`, `MCWorker` and `MCDeployment` are the
instances for TLC. `FilingStore` is checked as part of `Api`, `Migrate` as part of
`Deployment`, which leave their steps as they are. `Backfill`, `Worker` and `Api` take
the ingest of one filing as one step, which the refinement of `FilingStore` by
`Ingest` justifies.

### Diff, Resolve, Filings: the data

A quarter-end is a positive integer in date order, `NoPeriod` is NULL; a security
reference and a security row are functions from the same four identifying
columns, in which `None` is an absent value. `Doc` describes what EDGAR has for
each accession number: the companies it is listed under, the spellings of the
filer's name, form, dates, whether the main document and the information table
can be found, and the lines that parsing yields. `Family` matches form types by
prefix, amendments included, as `_family` does. `Fetched` gives every result
that the handler of a form can have; for a 13D/G one with and one without the
subject's CIK, because a failing read of the SGML header is swallowed
(`header.py:46`). For Forms 3/4/5 one line stands for the issuer's security with
the dates of its transactions, of which there may be none: the security is resolved
all the same. `ComputeChanges` is `compute_changes` as a function of the
filer's filings; of the percentage only the overflow of its column is kept
(`Overflows`).

### FilingStore: the promise

Three variables: `filing` (the committed filings with their child rows),
`latest` (each filer's `latest_filing_at`) and `change`. `StoreIngest` records one
filing in one step. Its own properties: `SharesReplay`, about the rows on record even after
they have gone stale: they describe a move (`Describes`) from the holdings of the
quarter they name as the previous one, in the filings it had at some moment, to
those of all the filings the quarter has by now; `StaleOnlyByLatePrior`; and
`ChangesFresh`, which does not hold.

### Api: the queries beside the ingest

`Api` extends `FilingStore` with the `security` and filer-name rows that an ingest
leaves behind, and reads them as the routers do. A request is a record that goes
from statement to statement: `ResolveFiler`, `ResolvePeriod`, then one action per
query (`Detail`, `Periods`, `Changes`, `FundHoldings`, `StakesHeld`; for the
company side `IssuerActivity`, `InsiderTxns`, `StakesIn`, `TopHolders`; for a
security `ResolveSecurity`, `Holders`). `psycopg` opens a transaction at READ
COMMITTED, so that each statement sees what is committed when it runs; filings are
committed before, between and after them. `page` keeps what the filer page got
first (`page.tsx:30`), and `Follow` sends one of the five requests that it makes
next, with the same period (`page.tsx:59-65`): the queries change nothing, so that
one watched request at a time shows what each of the five can see. `seen`, in the
request, is a history variable: what was committed when it was sent. The database
is filled by `IngestElsewhere` (worker, backfill) and by the background task of
`trigger_ingest`, which is `ingest-filer` of the CLI as well: `TriggerIngest` is the
fetched list, newest first and cut at its limit, then `JobIngests`, `JobSkips`
(`None`) or `JobDies` (an exception ends the task). `Top` is ORDER BY with LIMIT: the
lists are sets, of which `ListLimit` and the order decide what they leave out.
A Form 3/4/5 has a row in `InsiderTxn` for each transaction. Left out: the order
within a list, sums and percentages, the columns that are only passed on; the
response models are the sets that `TypeOK` says the answers are in. External
assumption: the order in which EDGAR lists the filings of one day is free.

### Ingest: the pipeline

One action per SQL statement or EDGAR read, from `already_ingested` to `COMMIT`,
for any set of sessions. The database is modelled as Postgres at READ COMMITTED
(psycopg's default): `db` holds committed rows, `dirty` and `lock` what an open
transaction has written; a read sees `View`, a write waits for `Free`, an INSERT
waits for the transaction that inserted the same key and then raises
`UniqueViolation` (`DuplicateKey`) or succeeds. `FetchFails`, `DiffFails`,
`DeadlockAbort` and `Crash` are the other ways out, each a rollback. The share
locks of foreign keys are left out: no key column is ever updated, so that they
conflict with no statement here. All reads that a handler makes from EDGAR come
before its first write, and are one action, `Fetch`.

`Store == INSTANCE FilingStore WITH ...` maps the committed rows to the store's
variables; `ImplementsStore` says that every commit is one `StoreIngest`.

### EdgarClient: the limiter and `get`

Several threads in several processes. Discrete time; a tick may fall between any
two steps, so that threads are preempted and oversleep anywhere. Instead of the
clock the variables hold distances: how long until `_next_allowed`, how long a
sleep still lasts, how long ago `now` was read. `Enter`, `Wake`, `Stamp` are
`acquire`, with the lock held over the sleep as in the code; `Send`, `Redirect`,
`Fail`, `Retry`, `Finish` are `get`.

### Backfill: the historical walk

A job is a command line (forms, first quarter); it can die between any two
statements and be started again, and other jobs run beside it. The actions are
the statements of `_segment` and `backfill_quarter`, each with its commit.
Ingesting a filing is one step (`Feed`): that is what `PipelineImplementsStore`
justifies. The world moves too: quarters end, EDGAR adds filings to the current
quarter's index, the worker ingests some, listed already or not. An index lists a
filing under every company it concerns, and a ref is one such `Listing`: each is
fed, so that a filing that failed may be stored under its next one, and
`filings_seen` counts them all. External assumption: an index grows
only during its own quarter. Left out: the order of the refs in an index, and the
month arithmetic of `quarters_in_range` except for its result. `fed`, `outage`
and `unread` are history variables for the properties; `started` in a row
is the quarter of its `started_at`.

### Worker: the daily cycle

One worker, its container restarts and the signals it gets, in a world where days
pass, EDGAR accepts filings and publishes each day's index, and the migrations end
at some time. A cycle is `run_forever`'s: `PollForm` for each watched form,
`Due`, `CatchUp`, `Wait`. Dates are replaced by how many days ago something was,
counted up to the catch-up's window, so that time is unbounded. Failures are
those of the code: a feed that cannot be read (`PollFails`, the next form), an
index that cannot be read (`CatchUp` with a smaller `read`: it counts as empty, and
the catch-up still marks its day done), a filing that is not stored
(`IngestNext`), a lost connection or a missing table (`NoConnection`, `NoTable`:
out of the cycle). Two external assumptions are guards of the world: yesterday's
index is published before `SECHUB_BACKFILL_HOUR` (`BackfillHour`; the default is
5 UTC), and a worker that nothing disturbs has begun a day's catch-up by midnight
(`Midnight`: a cycle takes less than the rest of the day). `calm` is a history
flag: after it nothing fails. A stop signal may arrive anywhere; `Loop` is the one
place that looks at it, and `GraceOver` is docker's SIGKILL, as early in the cycle
as the length of the cycle makes it. Left out: the order of the refs and of the
forms.

### Migrate: the migration runner

Runners (the API container's start, an operator) on autocommit connections.
`CREATE TABLE IF NOT EXISTS` is a look and a creation, which two sessions can
interleave; `Pending` reads what is recorded; each file is `Execute`, `Record`,
`Commit` in one transaction. What a file creates can be created once: a second
transaction waits for the first and then raises (`Fails`). `Die` is any other end.

### LiveFeed and Deployment: the system as it is started

`LiveFeed` is the component and the query it polls. A request has a state, the
filter of the effect that sent it, that effect's `active` flag, and the rows the
server read; requests overtake each other because any of them may be answered
next. `Click` runs the effect's cleanup and the new effect in one step, as React
does. `Deployment` puts it on top of `Migrate`: the API answers while the last run
of `migrate` in its container is done (`migrate && uvicorn`), and refuses otherwise;
another runner, an operator, may collide with it; the worker stores filings as
soon as the first file's tables exist (a 13F notice needs no more); containers die, are started again and are redeployed.

## Runs

| Run | Instance and bounds | Shows |
| --- | --- | --- |
| `MCApi` | a filer with three quarters, an amendment, a notice, an undated 13F, a 40-fold position, two fund reports, a 13D listed under two companies and insider trades; seven offers of three or four of them, in every order; lists of at most two (`ListLimit`), an ingest of at most two (`HistoryLimit`) | recorded changes replay the holdings and go stale only when the prior period arrives late; answers keep to their models; the latest period, the quarter selector, the changes, the holders and the company side agree and miss nothing, whatever is committed in between |
| `HistoryStale` (violation) | the same, filled only by a targeted ingest of up to four | newest first, the later quarter's changes are computed before the earlier quarter is there, and stay so |
| `StakesHeld` (violation) | as `MCApi` | a 13D ingested from its subject's listing is shown as a stake of the subject in itself |
| `MCIngest` | two sessions; two quarters naming two securities in opposite orders, one renaming the filer; an amendment, a stake under two filers, an unsupported form | the inductive invariant, clean connections, resolved references, identifiers never lost; the pipeline implements the store; every call returns, deadlocks included |
| `IngestDuplicate` (violation) | as `MCIngest` | a UniqueViolation on the filer or a security drops a filing that nobody ingested |
| `MCClient` | one process, two threads, interval of two ticks, two retries, one redirect, a window of four ticks | stamps are spaced; the bound on requests in a window (reached exactly); every `get` returns |
| `ClientCeiling` (violation) | two threads, no redirects, no retries; 4 requests a second where the ceiling is 5 (8 to 10, as configured) | the requests of one process exceed the ceiling within a second |
| `MCBackfill` | two jobs for the same forms, two filings, two quarters, the first of which ends | the inductive invariant; a quarter marked complete has been walked; the counts are of stored filings; every quarter in range is completed |
| `BackfillDone` (violation) | one job, one of two filings listed twice | an unreadable index is marked complete with a published filing never fed |
| `MCWorker` | a feed of one filing per form, a window of three days, two filings of one form and one of another | what overflowed the feed is caught by the catch-up; a worker that is signalled and not killed leaves the loop |
| `WorkerStop` (violation) | the same | the worker is killed with refs of its cycle left when the grace period ends |
| `MCDeployment` | the API's runner and an operator's, two files, any number of deaths; two filings of different forms, a list of one, two filters, two requests at a time | a file is applied exactly when it is recorded, without gaps; a runner that returns leaves the whole schema; all files are applied in the end; queries find the complete schema; a left filter's answer is ignored; a filing that belongs in the list is shown in the end |

Why the bounds suffice: the conflicts of the pipeline are between two
transactions over a shared row (filer, accession, security), and each kind of
row is contended in `MCIngest`; two securities are the least that give opposite
lock orders. A diff relates a period to the one before it, so three periods show
what a late one does to its successor and not to the others. The limiter's
hazards need one thread that stamps and one that waits; the wire bound adds one
late request per thread, which two threads show. The backfill's hazards are
within a quarter (interrupted, resumed, two jobs) or between an open and a
settled quarter: two quarters, two jobs. The migration runner's are between two
runners at the same file or one file apart, which two files give. That an index
lists a filing twice is in the instance of `BackfillDone`; to a job it is what
resuming is, a filing fed again, and the proofs hold for any listings. The
worker needs a feed that overflows (two filings of a form, `FeedSize = 1`), a form
whose poll fails while another's does not, and the code's own window. `LastQuarter` bounds the calendar and
`Window` the span of time observed. The API's hazards are between one page's
requests and one or two commits: each of `MCOffers` has the few filings
that one of its properties is about, and a company has more trades than
`ListLimit`. Overtaking needs two requests; a feed that
drops a filing needs one more filing than `FeedSize`.

Each property of a passing run has a mutant, an operator defined before the one
it replaces, that breaks it.

### Findings

`HistoryStale`, `StakesHeld`, `IngestDuplicate`, `ClientCeiling`, `BackfillDone`
and `WorkerStop` each find a sentence of the repository's documents
or comments false of the code. `ClientCeiling` is about one process: the limiter
spaces the instants that it stamps, and a thread sends after it has released the
limiter's lock. `BurstBound` is what is left of the claim, and proved. A few more
differences showed up and are described by the models without a run: each process
has a limiter of its own, so that the worker, the API and a backfill together can
exceed the ceiling even if no thread is late (the limiter is modelled
and proved per process); `resolve.py:66` enriches from a row it read earlier, so that
of two concurrent enrichments of one column the later overwrites the earlier
(`IdentityKept` says that nothing identified is lost by it);
a security is known by its ticker and keeps the issuer it was first seen with
(`resolve.py:34`), so that trades in a ticker that passes to another company stay
with the old one, and `CompanySeesTrades` assumes `TickersNameOne`; a resumed
backfill counts from zero (`backfill.py:68`) and writes its own, smaller number over
the one a checkpoint had saved, although the count is persisted "so progress survives
a crash" (`backfill.py:35`): `CountsStored` is a bound from above only; and `client.py:71-73` retries every 4xx although the docstring says 429/5xx.
Two jobs for different forms share a quarter's row, and one can complete it under
the forms the other recorded: `CompletedWasFed` is claimed for jobs with the same
forms only.

### Fairness

* `MCIngest`: strong fairness of each session's own statements (Postgres hands
  a row lock on in the order of the requests, so that a waiting session is not
  overtaken for ever) and weak fairness of the deadlock detector. Nothing makes a
  session call, fail or crash.
* `MCClient`: time passes; a thread that can run does; a request ends (httpx has
  a 30 s timeout); strong fairness of entering `acquire`, because
  `threading.Lock` is not FIFO: the assumption is that the operating system does
  not starve one thread for ever.
* `MCBackfill`: a job's statements are executed, a job that is not running is
  started again (backfill.py:16 tells the operator to), and it is interrupted
  finitely often. A died job has a label of its own, so that the last assumption
  speaks of interruptions and not of runs that end.
* `MCWorker`: days pass (`BackfillHour`, `Midnight`), EDGAR publishes, the worker's
  statements are executed, and its container is restarted (`restart:
  unless-stopped` in docker-compose.yml). Nothing makes the world calm: the
  property is about what was accepted recently enough when it is.
* `MCDeployment`: a runner's statements are executed (a wait for another transaction
  ends when that one does), and a runner that has not finished is started again (what
  a failed deployment is; by hand for the API's container, which has no restart
  policy); requests are answered or refused, and the timer ticks; kills,
  redeployments and broken connections end. The worker need not store and nobody
  needs to click.

## Proofs

All for every value of the constants, under the ASSUMEs of the modules. They type
the constants (`PctLimitAssumption`, `TextAssumption`, `DocAssumption`,
`NoRowAssumption`, `SessionAssumption`, `ClientAssumption`, `BackfillAssumption`,
`NoRowIsNoSegment`, `ApiAssumption`, `MigrateAssumption`, `FeedAssumption`,
`DeploymentAssumption`); the filings EDGAR has (`Accession`), the backfill's filings
and the threads are finite sets, which the sums over them need. One says more:
`OwnershipAssumption`, a Form 3/4/5 line has no CUSIP, because
`parsers/ownership.py:28` builds its reference with `cusip=""`. TLC evaluates all
of them in the runs.

* `Sums`. Positions, budgets and maxima are sums and maxima over finite sets, which
  the library defines by recursion over a CHOOSE; the induction theorems take an
  operator and cannot be used here. `SmallestSet` replaces them: among the subsets
  of a finite set that violate something there is one none of whose proper subsets
  does (the subset relation on a finite set is well-founded). `SumsUnique` and
  `SumsExist` show with it that the recursive definition has one solution, and
  `SumEquation` that it satisfies its equation; from then on a sum is used through
  `SumRemove`, `SumAdd`, `SumChange`, `SumSame`, `SumZeros`, `SumAtLeast`,
  `SumAtMost` and `SumShift` only.
* `DiffProofs`. What a handler reads is well-typed (`FetchedType`); positions are
  sums over holding rows (`PositionsAre`); a filer's changes for a period depend only
  on the filings of that period and of the prior one (`ChangesSame`), so that other
  filers' and other periods' filings disturb nothing.
* `StoreProofs`. `StoreTypeCorrect`; `ChangesReplay` (`SharesReplay`), by an inductive
  argument about the rows on record: when they are computed they describe the move
  from all the filings of the prior quarter (`ComputedDescribe`, from the lemmas on
  sums), and while they stay the filings of their own quarter stay as well, because
  whoever adds one computes them again; the filings the prior quarter had then are
  the witness, and are there for good (`WitnessStays`); `OnlyLatePriorsStale`
  (`StaleOnlyByLatePrior`): an ingest computes its own period's rows from the table
  after it, and for every other period either the prior period is untouched, and then
  `ChangesSame`, or the new filing is of it; `SoldIsGone` (`StoreInv`): recorded rows
  are of reported quarters, and an EXIT's security has no shares in any filing for
  the quarter, however late its amendments come.
* `IngestProofs`. `IndInv` of `Ingest` is inductive (`IndInvariance`): `Owners` (a
  session owns only its own filer's and filing's rows, and only during a call),
  per session `Progress` (where the handler is in its lines), `Resolved` (what it
  resolved is visible to it), `OwnFiling` (its uncommitted filing row is exactly
  what it has inserted so far), `OwnFiler` and `OwnDiff` (from the UPDATE of the
  filer on, its lock keeps every other filing of that filer from being committed,
  so that the diff it computed is still the diff at the commit). The last is why
  the invariant is needed: neither the references nor the diff can be shown from
  the committed state alone. Each action has a lemma; what an action of one
  session leaves of another's part is stated once. From it: `TypeCorrect`,
  `ConnectionClean`, `ReferencesCommitted`.

  `PipelineImplementsStore`: `Spec => Store!StoreSpec`. Only `Commit` moves the
  mapped variables; `OwnFiling` gives the recorded row, `OwnDiff` the changes, and a
  lemma that the filer's committed filings after the commit are those the session
  saw. `PipelineKeepsPromises` then carries the theorems of `StoreProofs` over: with
  the same mapping, `SharesReplay`, `StaleOnlyByLatePrior` and `StoreInv` hold of the
  committed tables between any two statements of any sessions.

  `IdentityNeverLost` (`IdentityKept`), on top of `IndInv`: a session fills in only
  columns that its reference has a value for, and the uncommitted version of a locked
  security row has every column that the committed one has, because the UPDATE runs
  over the row as it is when the lock is granted, and until its commit nobody else
  changes it.
* `ApiProofs`. Four invariants, each on top of the ones before. `ReadsInvariance`
  (`ApiInv`): what a request has seen stays committed and unchanged, as ingest only
  adds filings; what the page shows is in the table for its filer and period; the
  quarter selector asks for the page's filer; a period that was chosen is no older
  than what the request had seen. Every kind of step has a lemma: the database grows
  (`WorldStep`, `GrowthKeepsReads`), a request is sent, a statement reads. Hence
  `SelectorAgrees`, `HoldersMissNobody`, `NewestPeriodShown`; and
  `ApiImplementsStore`, for which the queue of an ingest request holds references that
  EDGAR lists. `StoreHolds` takes `StoreProofs` over. `TablesInvariance` (`TablesInv`):
  through every row that the loop over a filing's lines touches, a security is kept
  under the key of its CUSIP if it has one, and its issuer is one that a filing names
  for that key. A row that an enrichment gives a CUSIP to would break this; it cannot,
  because whoever looks a row up by ticker, issuer or name has no CUSIP to give.
  Hence `CusipsNameOne`. `AnswersInvariance` (`AnswerInv`): which fields of a request
  are set at which statement, of whom, and from which committed rows; with `StoreInv`,
  that no row answered as sold is shown. Hence `TypeCorrect`, `NothingHeldIsSold`,
  and `TradesOnPage`: a trade's security has the issuer that its filing names, under
  `TickersNameOne` (part of the property), so that the query selects it, and what the
  limit cuts off is not newer than what is listed (`TopIs`).
* `ClientProofs`. `LimiterInvariance`: the next request is never allowed before an
  interval after the last stamp (`gap + since >= Interval`), a sleeper holds the
  lock and sleeps long enough, and whoever is about to stamp read a clock that
  was an interval past the last stamp. Hence `StampSpacing`. Two lemmas cover
  steps inside and outside `acquire`.

  `BurstInvariance` is a budget argument. A stamp earns its thread one request and
  its redirects. `Budgeted(p)`: if process p read the clock for its last stamp d
  ticks ago, and `k <= d + m * Interval`, then what p sent in the last k ticks plus
  what its threads may still send on their stamps is at most `1 + MaxRedirects` times
  the number of its threads plus m. A request moves one from what may be sent to what
  was sent; a stamp raises d by an interval (`IndInv`), which pays for what it earns;
  a tick shifts the window and d together. It quantifies over every k and m because
  a window of k + 1 ticks after a tick is one of k before it. At the whole window it
  is `BurstBound` (`BurstsBounded`), with `m = (Window - 1) \div Interval + 1`.
* `BackfillProofs`. Under `SameForms`, `BackfillInvariance` and
  `CompletionMeansFed`: of a settled quarter, everything a job has not fed is in
  its `todo`, which holds when it reads the index and after every interruption,
  because nothing is skipped on the strength of the row's counters. `CountsNeverExceed`
  (`CountsStored`) needs no such hypothesis: a job's count is at most the number of
  the stored filings of its quarter (`CountInv`), as it counts a filing in the step
  that stores it and not under its next listing; rows are written from such counts,
  and neither rows nor stored filings ever go away.
* `DeploymentProofs`. `MigrateInvariance` (its parts are `RecordedIsApplied` and
  `NoGap`) and `DoneMeansComplete`. The applied files are an initial segment
  `1..n`; a runner's pending list is a final segment `m..Files` of which everything
  earlier has been applied, because it was computed from a recorded initial segment
  and shrinks only by a commit; the uncommitted DDL of different runners is
  disjoint, as a transaction waits for the other's. So a commit extends the segment
  by its next file, and an empty pending list means a complete schema.

  `DeploymentInvariance`: `Migrate`'s invariant and `FeedInv` together are inductive,
  by `Migrate`'s step lemma for the containers and one lemma per step of the feed.
  Hence `FeedInvariance`, `LateAnswersIgnored` (an active request's filter is the
  present one, and every click clears the flags) and `AnswersOnCompleteSchema` (only a
  done runner answers, and `DoneIsComplete`).

Only model-checked: liveness (`CallReturns`, `GetReturns`, `QuartersComplete`,
`AllApplied`, `EverythingCaught`, `SignalStops`, `Surfaces`), which is out of the
prover's reach, and so is ENABLED, with which fairness is defined. Every invariant
and action property that a passing run checks is stated by a theorem.

## Not modelled

* The form parsers, the location of documents and the parsing of indexes: text and
  XML to records, without state. The models start from their results, `Doc` and
  `Matching`; a failing read is an outcome of each (`FetchFails`, `Fetched`).
* `list_filers`, `security_detail`, `filing_detail` and `health`: one read each, whose
  answer is a selection of committed rows and is related to nothing else.
* The search box (`FilerSearch.tsx`): an answer to an earlier query may replace a
  later one's; nothing in the repository says that it may not, so that there is
  no property to state. Rendering.
* Settings, which are constants here, and the snake game.

## Plan

1. Done: the store and the pipeline with their refinement; the client, the backfill,
   the migration runner, the worker, the read API beside the ingest, the live feed
   and the deployment; theorems for every safety property that a run checks.
2. `Worker`: its types and the safety half of `EverythingCaught` (a catch-up that ends
   undisturbed leaves nothing of its window unstored), checked in a run and proved
   for every window and every feed.
3. `Index`: `quarters_in_range` and `fetch_recent_days` as functions, checked against
   reference definitions.
