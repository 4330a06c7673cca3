# A TLA+ model of the research engine

The engine turns a survey order into a set of public-record documents.  An API
process creates a *research job* with one row per requested document type and
publishes a Celery task; a worker fetches the documents one after the other,
stores them, and writes a terminal status; a reaper sweeps jobs that stay
behind.  The API, the workers and the reaper share nothing but the database
rows and the broker, and no row is locked or versioned: every actor reads,
decides on its copy, and writes later.  Inside the worker a run is sequential:
it geocodes the address, identifies the parcel, and asks one adapter per
document, of which the clerk's drives a browser; there the hard part is what
remote services answer, late, wrongly or not at all.

## Inventory

| Component | State | Operations | Talks to | Hard behaviour | Correct when |
|---|---|---|---|---|---|
| worker (`engine/worker.py`, `repository.py`, `models.py`) | `research_jobs` and `research_documents` rows; the ORM session's copies | `research_job`, `_fire_callback` | broker, database, document fetcher, callback URL | stale copies, redelivery, overlap, partial commits | cancels are seen at document boundaries; status, counters and errors agree with the documents; no run is abandoned |
| status and counters (`service.py`) | the denormalized counters | `recalc_job_counters`, `resolve_job_terminal_status` | worker | decides on copies | the result is that of the documents |
| API calls (`service.py`) | the job row | `cancel_job`, `mark_reviewed`, `archive_job` | database | guard checked on a copy | a finished job is not reopened; a cancel ends in `cancelled` |
| reaper (`worker.py`) | none | `reaper_research_jobs` | database, broker | races live workers, duplicates messages | only dead runs are failed, no queued job is lost |
| Celery (external) | ready messages, unacknowledged messages | deliver, retry, redeliver, drop | worker | at-least-once; a killed child is acknowledged | |
| job creation (`service.py`) | job and document rows, idempotency key | `create_job`, `retry_job` | database, broker | concurrent creates, crash before publication | one job per key, every job reaches a worker |
| evidence upload (`adapters.py`, `evidence_source.py`, `services/storage.py`) | blobs, `files`, `order_files` rows | `_upload_artifact`, `create_evidence`, `LocalStorage`/`S3Storage` | worker | exists/copy race, a second transaction beside the worker's | rows never outrun the blob, an incomplete blob has a cause; without overlap no blob is overwritten and its writer recorded its digest |
| step pipeline (`orchestration/steps.py`, `sources.py`, `runner.py`, `contracts.py`, `services/downloader.py`, `fema.py`, `ngs.py`) | staging folder, manifest, the cached scrape | `run_research`, `build_steps`, `_run_one`, the adapters, the document fetcher | source clients, worker | an adapter and its fallback both fail; a failed upload after a good fetch | one result per requested step whatever fails; a failure is never evidence |
| property context (`orchestration/context.py`, `services/geocode.py`, `parcel.py`, `clerk.py`) | the context of one run | `resolve_property_context`, the geocoder cascade, `parcel.resolve`, `resolve_by_id`, `_choose`, the related-table join | ArcGIS layers, geocoders | cascades of fallbacks, neighbours in the box, addresses that are the owner's | the parcel used is the one the order names, or is flagged |
| county scraping (`services/clerk_scraper.py`) | browser, captured pages, the result both attempts share | `fetch_documents`, four portal drivers | county portals | late, repeated and missing pages, a dead browser, retry on a half-filled result | what is filed as the deed stands where its reference says, with every page that can be read |
| rate limiter (`core/limiter.py`) | cached storage and window per process, hits per identity | `rate_limit` | API, Redis | cache misses of several threads, Redis going away | no window lets more through than the limit |
| API surface (`router.py`, `dependencies.py`, `mappers.py`, `errors.py`, `order_source.py`) | none of its own | create, get, retry, cancel, list | service, limiter | a row and its documents are read apart, beside a worker | a tenant sees and changes its own jobs only; a refusal changes nothing |
| settings, middleware, logging, reference tables, migrations | read once or write-only | | | | |

## Modules

| Module | Role |
|---|---|
| `JobLifecycle` | one job: its rows, its tasks, the workers, the API calls, the reaper |
| `MCJobLifecycle` | symmetry, and the module the configurations run |
| `JobLifecycleProofs` | theorems about `JobLifecycle`: ownership, cancels, errors |
| `JobRowsProofs` | theorems about `JobLifecycle`: what the row and the payload say of the documents |
| `IdempotentCreate` | abstract: what `POST /jobs` promises for an idempotency key |
| `JobCreation` | concurrent `create_job` and `retry_job` requests of one tenant; implements `IdempotentCreate` |
| `MCJobCreation`, `JobCreationProofs` | instances for TLC; theorems, the refinement among them |
| `EvidenceUpload` | runs that stage one artifact and store it as evidence, on either backend |
| `MCEvidenceUpload`, `EvidenceUploadProofs` | instances for TLC; theorems |
| `PropertyContext` | the search for the parcel, over everything the services may answer |
| `MCPropertyContext`, `PropertyContextProofs` | instance; theorems |
| `ClerkScrape` | `fetch_documents` on the four portals |
| `ClerkScrapeProofs` | theorems about the scrape inside a run of `StepPipeline` |
| `StepPipeline` | the steps of a run and its documents; composes `ClerkScrape` |
| `MCStepPipeline`, `StepPipelineProofs` | instance; theorems |
| `ApiRequest` | requests from the limiter to the answer, beside a worker |
| `MCApiRequest`, `ApiRequestProofs` | instance; theorems |

The modules meet at rows and messages.  `JobCreation` ends where `JobLifecycle`
begins (a committed job, its message published or not) and keeps of the job's
later life only what a retry reads; `ApiRequest` puts the same service calls
behind limiter and authentication and reduces the workers to the reads and commits
that decide what a reader can see.  One call of the document fetcher, the `FetchDone` of
`JobLifecycle`, is `PropertyContext` (phases 1 to 3), then `StepPipeline`
(phase 4, with `ClerkScrape` inside it), then `EvidenceUpload` for each file.
`StepPipeline` takes from `PropertyContext` whether the parcel is trusted,
whether it was met in a widened box, and the roll's references.

### JobLifecycle

One job is enough: jobs share no row and no message, and the reaper treats each
one separately.

*State.*  `job` and `docs` are the committed rows, reduced to the columns the
decisions use (timestamps as null or not null, `error_code` and
`error_message` as one flag).  `ready[k]` counts deliverable messages that
carry `request.retries = k`.  Each worker has a program counter `pc`, the
retry count `tries` of the message it holds, its ORM copies `mjob` and
`mdocs`, the loop's `todo` and `cur`, the rows it has flushed and not committed
(`dirty`) and the callback attempts (`posts`).  `api[c]` is the row an API call
has read; `reaper` stands between the two halves of a sweep.

*Session semantics.*  `SessionLocal` has `expire_on_commit=False`, so a session
keeps what it loaded until `db.expire`.  SQLAlchemy updates the columns whose
value differs from the loaded one: `Column(r, o, n)` is the column of a row
that holds `r` after a flush of value `n` over loaded value `o`, and
`WriteBack` applies it to the job row.  Reads and writes are separate actions.
`created_at` is the transaction's `now()` and therefore equal for all documents
of a job, so the loop's order is open and `ReRead` takes any remaining one.

| Action | Code |
|---|---|
| `Enqueue`, `EnqueueLost` | the call of `enqueue` after the commit in `create_job`, or a crash before it |
| `Receive`, `ReadDocs` | task start: session, job, documents (`worker.py` 133–158) |
| `Drain` | delivery after a cancel (160–171) |
| `Claim` | status `running`, commit (173–176) |
| `ReRead` | `db.expire(job)` and re-read at a document boundary (181–191) |
| `Skip`, `MarkFetching` | the two outcomes of the re-read (192–199) |
| `FetchDone` | fetcher result or exception, commit (201–228) |
| `Finalize` | counters, terminal status, `completed_at`, commit (230–245) |
| `CallbackAccepted`, `CallbackRefused` | `_fire_callback` (254–305) |
| `Fail` | the outer handler: rollback and `self.retry` (247–251) |
| `Crash`, `Kill` | Celery: a lost worker's message is redelivered; a child killed at the hard limit has its message acknowledged |
| `ApiRead`, `ApiWrite` | `cancel_job`, `mark_reviewed`, `archive_job` (`service.py` 242–291) |
| `Age` | time: `created_at` passes the queued cutoff |
| `ReaperRequeue`, `ReaperFailRunning` | the two halves of the sweep (`worker.py` 88–105) |

A soft time limit inside a fetch is an ordinary exception there and becomes
that document's failure; elsewhere it is a `Fail`.  `late` and `overlap` are
history variables that no guard reads.

### JobCreation and IdempotentCreate

A job is named by the request that made it.  `table` and `docs` hold committed
rows; a request that has inserted and not committed is at `inserted` or
`flushed`, where it holds its key's entry in the unique index
(`uq_research_job_idempotency_per_tenant`) and makes another insert of that key
wait.  The route handlers are `async def` around blocking calls, so requests
interleave between API processes, not within one.

| Action | Code |
|---|---|
| `ReadOriginal`, `ReadFailed` | `retry_job`: status guard, failed documents, the caller's selection (`service.py` 210–238) |
| `Validate`, `Reject` | `_resolve_order`, `_validate_doc_types` (295–333) |
| `PreCheck` | look-up by key (157–161) |
| `Insert`, `InsertDocs`, `Commit` | one transaction (163–177) |
| `Recover` | `IntegrityError`: rollback, second look-up, 409 (178–188) |
| `Publish` | `enqueue` and the answer (190–195) |
| `Abort` | the process dies or a call raises: rollback of what is not committed |
| `Reap`, `Start`, `End` | the job's later life: sweep, delivery, end with some documents failed |

`IdempotentCreate` has two variables, the job that owns each key and the answer
to each request.  The mapping takes the owner from `table` and reads both kinds
of refusal as an error; `Commit` of a keyed job is `Claim`, and the three places
that answer with a job are `Answer`.

### EvidenceUpload

A run is one call of the document fetcher for one document type.  Staged pages
carry the time they were made, so a run stands for the bytes it fetched, and
`staged`, `blob`, `seen` and `digest` hold runs.  `store` is the backend of the
run's process: `storage._make` falls back to the local disk when the S3 client
cannot be built, so the processes of one deployment may differ, and an object is
named by backend and order.  Writing the staged file is one step; copying it to
a local disk is two (the target is created under its final name, then filled),
and to S3 two as well (read, then put whole).  A local copy whose source or
target was rewritten meanwhile ends with bytes of any of them or of several; `torn`
holds the runs this happened to and those whose copy was cut short, by an error or
a crash, which leave half a file under the final name.  The next probe takes it
for a complete one.  `wrote` and `overlap` are history variables that no guard reads.

| Action | Code |
|---|---|
| `Stage`, `NoArtifact`, `NotFetched` | outcome of `run_research` (`adapters.py` 87–144) |
| `Probe` | `exists` (145–158); an S3 error counts as absence (`storage.py` 144–149) |
| `CopyStart`, `CopyEnd` | `copy_in` (`storage.py` 107–112, 154–157) |
| `Hash` | digest of the staged file, read again (159, 174) |
| `create_evidence` | `File` and `OrderFile` in a session of their own |
| `UploadFailed` | the `except` of `_upload_artifact` (188–193) |
| `Report` | the worker's commit of the document row (`worker.py` 201–228) |
| `Crash` | the worker dies; the next delivery is another run |

### PropertyContext

A text is a house number and the words of its street part; a parcel record has
fields at positions, each a name and a text.  `KindOf` is what the patterns of
`parcel.py` and `context.py` make of a name: a full or site address, a plain one, a
house number, one of a billing, taxpayer or postal address (which `_compose_situs`
does not tell from the first), street name, mailing, billing, owner, deed, and three
sorts of identifier, since the query by id and the context do not accept the same
names.  "The first field that ..." is the field at the least position, also after
`_out_fields` has left some positions out.  The answer of a layer is a set of
positions in `Parcel`, which stands for the order features come in, cut to
`MaxFeats`.  Distances from the geocoded point are chosen at the start for each
layer; the answers of the services are chosen as they are asked.

A record may hold any identifiers: the search by id finds it by any of them, as
given or stripped of dashes and spaces (`Identifies`).  The related table is joined
by field name.  Every geocoder, Census included, may answer with another address
(`Moved`).  `ContextAssumption` asks of the services only that a geocoder which
answers names an address (a blank `matched` is no answer).

| Action | Code |
|---|---|
| `_census_address`, `_arcgis`, `_nominatim`, `Coordinates` | the cascade of `geocode.py`; each may move or shorten the address; the county of the point may stay unknown |
| `resolve_by_id` | search by parcel id, when there is no address: any identifier field, two forms |
| `_arcgis_layer_url`, `NoLayerLeft` | the next county or state layer, and `_out_fields`, which keeps 40 fields by rank or, when the list cannot be read, all |
| `_candidates`, `QueryFails` | the point, then boxes of 75, 150 and 300 m until a situs matches; `Take` chooses (`_choose`) and joins the related table (`_enrich_one`) |
| `resolve_property_context` | trust (`parcel_ok`), parcel id, hints, links and warnings |

### ClerkScrape and StepPipeline

`Docs` is what the portal holds; a search lists what the portal's index gives
for a number, a book and page, or a name.  `fetch_documents` is a sequence of
tasks per attempt; the second attempt, after a dead browser, goes on with the
result of the first.  NewVision's page loop is modelled click by click: an
answer may bring the next page, one that is there already, or nothing in time.
When the captured images become a PDF, any of them may turn out undecodable and
is left out.  Volusia keeps the last intercepted PDF.  `DocsAssumption` says only that
a document has a page and a place in a book: several documents may be filed under
one book and page, within an index too.  The owner search picks a row of its result
list and then opens by that row's book and page, so it may open another document of
the same page; `RightDocument` says what is left of "the right one" then.

`StepPipeline` walks the twelve steps of `RESIDENTIAL_DOCS`.  What an adapter can
return is a set of `FetchedSource` records, what it can raise a set of
exceptions with their class (`classify_exception`).  Adapters put in place with
`register_source` set every field independently: a file with any status or none,
files they do not log, log entries without a file.  Between the step and the upload
any of its files may be missing on disk (`gone`).  `Row` is what the worker then
writes to the document's row: a file only with `uploaded`, an error only with
`failed`.

| Action | Code |
|---|---|
| `build_steps` | next wanted step (`steps.py` 34–53) |
| `_scrape_documents`, `Scrape` | the clerk search of the first clerk step, cached on the context (`sources.py` 296–345) |
| `_run_one`, `Fallback` | fetch, assemble and log; or classify, fall back and assemble (`steps.py` 56–106) |
| `FetchedDocument`, `Return` | the document fetcher's mapping and upload of each step (`adapters.py` 103–193); the run's end |

### ApiRequest

Dependencies are plain functions that FastAPI runs in threads; the endpoint
bodies are coroutines without an `await`, so a process runs one body at a time
(`Enters`).  `limit` … `hit` are the limiter with its two `lru_cache`s, `auth` the
tenant and actor, the rest the endpoint: each query reads what is committed
then, and each commit is a step.  A deployment (`Load`) says whether a token pool
is configured, where hits are kept, what the clients ask, a job that may be
there already, and which publications the broker loses.  Any query or commit of a
body may fail (`database_error`): rolled back and answered 500.

The tasks of a job are deliveries (`Delivery`), each of which may be repeated after
its end and may overlap with another of the same job.  A worker's `session` is its
copy of row and documents; `deliver` reads both, `start`, `begin`, `fetch`, `finish`
and `skip_rest` commit the columns the session changed, over whatever others wrote,
`drain` is a delivery that meets a cancel, `crash` a worker that dies or an error
that is retried, and `reap` the sweep that fails a running job, whose runs go on.  A
job that has ended is claimed again by the next delivery, as in `worker.py`
154–176.  `again`, a history variable, holds the jobs that were delivered beside a
run or after one.

## Runs

| Run | Instance | Shows |
|---|---|---|
| `sequential` | 1 worker, 2 documents, 1 client, cancels, 1 fault, 1 retry, 2 callback attempts | types, `RunningIsOwned`, `CancelLatency`, `CountersMatchRows`, `StatusMatchesRows` |
| `overlap` | 2 workers, 1 document, 1 fault, 1 retry, a duplicate message from the reaper | `PayloadIsConsistent` and `FailedHasError`, which survive two sessions on one job |
| `live` | 1 worker, 1 document, all API calls, 2 faults, 1 retry, no callback | `QueuedIsTakenUp`, `RunningEnds` |
| `creation` | 4 requests: two with one key, two retries of the first | `JobHasItsDocuments`, `RetryStaysInside`, `OneJobPerKey`, `NoSpuriousConflict`, `Idempotent` (the refinement), `CommittedIsStarted` |
| `evidence_stores` | 3 runs: two deliveries of a job, one of another order's job, one folder, each process on S3 or on its disk | `EvidenceHasBlob`, `FileIdIsCommitted`, `WholeUnlessTorn`, `WriterRecordsItsBlob` and `KeptWhenSequential` (disk) |
| `context` | 3 parcels, 2 layers, 3 registries, 3 orders, any answers | `TrustedIsMatched`, `HouseIsTheParcels`, `FindsTheSubject`, `MovedIsFlagged` |
| `research` | 5 documents at the clerk's, two under one book and page, 4 portals or none, 4 kinds of roll, replaced adapters, unconfirmed parcels, the whole reference set | `RightDocument`, `AllPages` (scrape); `OneStepPerRequest`, `ScrapedOnce`, `UnconfirmedNeverUsed`, `UploadedIsLogged`, `FailureIsNoEvidence`, `FloodIsOfTheCounty`, `RunEnds` (pipeline) |
| `api` | 3 requests, 2 processes, 2 tenants, a job already there, its task delivered twice, once or never | `TenantIsolation`, `RefusedChangesNothing`, `SettledAnswer`, `WindowBound` |
| `uncancel`, `cancelling`, `evidence_foreign`, `border` | the smallest instance that shows it | one statement of the repository's documents or comments each, which the code does not keep |

*Bounds.*  Two documents distinguish "one failed" from "all failed" and "some
boundary left" from "none left".  One worker slot still gives crash, retry,
redelivery and re-runs of a finished job; the second slot is needed only for
overlap, and there one document is enough because the conflict is on columns of
the same rows.  `MaxReady` caps the reaper's duplicates at one waiting message;
without it the queue of duplicates is unbounded, as in the code, but a second
waiting duplicate adds nothing a later sweep does not.  `MaxFaults` bounds
exceptions, crashes, kills and lost publications together; `sequential`
and `overlap` take any one of them at any point, `live` two, which with one retry
is what using up the retries takes.  `overlap` leaves cancels out: what two
sessions do to each other under a cancel is in the proofs of `RunningIsOwned` and
`FailedHasError`, and `PayloadIsConsistent` says nothing of the counts of a
cancelled job.

Two requests of one key give a winner and a loser that conflicts at the insert or
finds the job at the pre-check; the retries are jobs without a key, and run while
the original is run again.  One key is enough: requests with different keys touch
different index entries.  `MaxMessages` caps the messages
the sweep adds.  Three runs of the upload give a crash, its redelivery and a
stranger in the same folder; a fourth adds only another overlap.  The two deliveries
are interchangeable, which `SYMMETRY Deliveries` uses.

`context`: the subject, with a plain address of the house next door; a neighbour
whose owner lives at the subject and is billed there, and whose GEOID is the parcel
number of the third; and a parcel whose only subject-like field is one that a county
may exclude, at distances on and beyond the edges of the boxes.  One order gives its
parcel number with a dash the record lacks.  `MaxFields` and `MaxFeats` are
small enough to cut something off.  `research`: an affidavit under the deed's
book and page, a plat with the same in another index, a newer deed of the same owner on another lot and a newer
mortgage are what each search could confuse; documents of one, two and three
pages, and `MaxRepeats` spare clicks, reach both ends of the page loop.  Portals
and rolls are combined with the deed and plat steps, failing sources and
replaced adapters with the others, since only the clerk steps share state.
`api`: `Limit` is 1, so the second request of an identity is over it; the third
request is another tenant's.  Its loads are three families (creates in the
limiter, creates that share a key, calls about one job): the limiter's state and
the tables do not influence each other.  Two documents with one delivery, and one
document with two, are the smallest instances in which a run stands between
documents and in which runs overlap; either delivery may crash and be repeated any
number of times.  The deliveries are interchangeable (`SYMMETRY Deliveries`).

*Deadlock* is checked in the `JobLifecycle` runs, where the system never stops
because the reaper keeps sweeping, and in `context` and `research`, whose runs
end in an explicit `Done`.  In the other modules requests and runs are finite in
number and all may be done.

*Fairness* (`FairSpec`): a worker that can step does (a fetch ends, at the
latest by `JOB_HARD_TIME_LIMIT`), an API call that has read goes on to write,
Celery Beat keeps scheduling the sweep, and time passes.  Weak fairness is
enough.  Faults and new API calls are never obliged to happen.  `JobCreation`
assumes the same of requests, the sweep and the workers, never of `Abort`.
`StepPipeline` assumes weak fairness of its next-state relation: a run is one
thread, every wait of it has a timeout, and `RunEnds` rests on the counted
attempts and clicks.

### What the violations show

* `uncancel`: the row is read at `worker.py` 154 and written at 176; a cancel
  between the two becomes `running` again.
* `cancelling`: `cancel_job` read `running`, the worker finalized, the cancel
  commits: `cancelling` for ever.
* `evidence_foreign`: two orders with the same street line and no parcel id
  share a staging folder.
* `border`: a county's first layer has no parcel at the point and one within
  300 m; it ends the search unconfirmed, although the next layer holds the
  subject at the point.

The models also have the following behaviours, for which no run is kept: a cancel
that read `queued` writes `cancelled` over `running`, and the drained run resolves
`completed`, because only `cancelling` is mapped to `cancelled` (`service.py` 106);
the drain at delivery skips documents that an earlier delivery uploaded
(`worker.py` 164); the sweep fails a job that a worker is in the middle of, and the
worker finalizes over `failed` (`worker.py` 231; `docs/job-lifecycle.md` 53 calls
terminal states final); two overlapping sessions each write the counters that differ
from their copy; the sweep leaves `completed_at` null (`worker.py` 101), and a cancel that
read a row before it was finalized clears it again; a
successful re-run leaves the error columns of an earlier delivery; two runs that
probe before either copies overwrite each other (`adapters.py` 156, 173); half a
local copy counts as an existing object, and evidence rows are made for it
(`storage.py` 111, `adapters.py` 156); an ok step without a file, or whose files are
missing on disk, is `uploaded` with no `File` row and no error (`adapters.py` 138,
141–144); a run that keeps an
existing object records the digest of its own staged file (`adapters.py` 159,
against `docs/source-contract.md` 106); on S3 any error of the probe counts as
absence and the object is replaced (`storage.py` 148); a `File` row names the key
and not the backend, so a process on the other backend does not find the object;
the first image of a NewVision document may come before its page count, which is
then taken for 1 (`clerk_scraper.py` 162); after a retry `deed_ref` may name the
search of the second attempt for the deed of the first; an answer may say
`completed` with a document `fetching`, when the task was delivered again
(`worker.py` 154–176); a registered adapter that raises a `SourceError` and whose
fallback raises too leaves `build_steps` (`steps.py` 62), against `sources.py` 9
("Failures never escape") and `steps.py` 5, and the document fails with
`INTERNAL_ERROR` (`worker.py` 220); the error of a document whose source failed is
dropped, because its status is `fetched` (`worker.py` 211–219); `parcel.py` 325–327
says "Do NOT truncate" of the answer that line 328 cuts to 400, which is why
`FindsTheSubject` is about boxes that hold no more; `_compose_situs` leaves owner and
mail fields out (`parcel.py` 45–47) but takes the number of a billing, taxpayer or
postal address; an address that Census changed carries no warning (`geocode.py` 36);
a parcel found by id may carry another id in the context, since `_find_parcel_id`
looks at other names; the book-and-page search that refuses to choose among several
documents (`clerk_scraper.py` 460–465) does so on one portal, the others open one
of them, and where a portal has one index a document that is no plat may be filed as
the plat.

Noted while reading, without a run: `docs/job-lifecycle.md` 132 says
`max_retries=1`, `worker.py` 136 has 3; `mark_reviewed` and `archive_job` have no
route in `router.py` and are modelled as the service offers them; `retry_job`
does not pass the original's `callback_url` on; the comment of
`build_document_fetcher` (`adapters.py` 78–79) says that a deed-only retry does not
geocode again, but phases 1 to 3 run always; `contracts.py` 63–64 has `partial` for
a run with failed steps, `run_research` returns `completed`; `context.py` 139–140
says that an unknown county raises, the code goes on without one; `limiter.py` 10–12
promises a fallback when Redis is absent, which holds only while the store
is built, a later error is a 500; `limiter.py` 1 and 47–49 promise a limit per tenant,
but the limiter runs before authentication and counts by the header a client sends,
so any client can use up a tenant's limit; a failed publication is answered 500 with
the job committed, for the sweep to find; `appraiser.fetch` is never reached, its
table of sites is empty.

## Proofs

`JobLifecycleProofs` proves, for every finite set of documents and any workers,
clients and bounds allowed by the four assumptions of `JobLifecycle` (faults, retries, cancels,
sweeps and overlapping runs included):

* `TypeCorrect`: `TypeOK`.  Inductive as it stands; `recalc_job_counters` needs
  `Doc` finite, so that a count is a natural number.
* `RunningOwned`: `RunningIsOwned`.  Not inductive alone: a session whose copy
  already holds the status it resolves to finalizes without writing the status
  column, and would leave `running` behind.  `OwnerInv` therefore names a worker
  before its callback whose own copy says `running`: that one will write.
* `CancelLatencyHolds`: `CancelLatency`.  `LateInv`: a worker's count is at most
  one, and while it is one the row is in the cancel set and the worker is not
  past a boundary with a copy read before the cancel.
* `FailedCarriesError`: `FailedHasError`.  `ErrorInv` adds that a copy which holds
  an error is of a row that holds one: error flags are only ever set, so a write
  that omits the unchanged column loses nothing.

`JobRowsProofs` proves, under the same assumptions:

* `PayloadsAgree`: `PayloadIsConsistent`, for overlapping runs too.  A run decides
  on its own copies, so it is enough that these are settled when the loop ends:
  `LoopInv` says that every document which is not still ahead of a run has an
  outcome in its copy.  `ResolveMeaning` then relates the status to the counts;
  `resolve_job_terminal_status` counts "not failed and not skipped" where the
  payload counts fetched and uploaded, and the two agree on settled documents only.
* `StatusIsOfTheRows`: `StatusMatchesRows`, and `CountersAreOfTheRows`:
  `CountersMatchRows`.  `SoloInv`: while runs never overlapped, at most one session
  is active, a row that says completed or partial is exactly what the counting and
  resolving operators make of the document rows, and a session's copies differ
  from the rows only by what it has flushed (`Looping`).  `Reading` is what keeps
  a re-run honest: a session that met an ended job has read it as ended, so its
  claim does write `running` over it before the documents change.

`JobCreationProofs` proves, for any requests, keys, types and retries allowed by
`CreationAssumption`:

* `CreationTypeCorrect`: `TypeOK`, inductive as it stands.
* `UniqueJob`: `OneJobPerKey`, and `ConflictIsAnswered`: `NoSpuriousConflict`.  The
  inductive invariant `CreateInv` speaks of the index instead of the table: two
  rows of a key that are committed *or held by a transaction* are the same row
  (`UniqueInv`); a request's place tells whether its row is committed and whether
  it was answered (`PlaceInv`); a request in the conflict handler has a committed
  row to find, because rows are never removed (`ConflictInv`).
* `CreateIsIdempotent`: `Idempotent`, that is `Spec => IdempotentCreate!Spec` under
  the mapping.  Each answering place is shown to be the abstract `Answer` (the
  `CHOOSE` of the owner is unique by `OneJobPerKey`), each refusal `Refuse`, the
  commit of a keyed job `Claim`, everything else a stutter.

* `JobsAreComplete`: `JobHasItsDocuments`, and `RetriesStayInside`:
  `RetryStaysInside`, from an invariant on what each place of a request has
  chosen and inserted.

`EvidenceUploadProofs` proves, for any runs, jobs, orders and folders and any mix
of backends:

* `EvidenceTypeCorrect`: `TypeOK`, which no run repeats, like that of creation.
* `EvidenceIsStored`: `EvidenceHasBlob`, and `FileIdsAreCommitted`:
  `FileIdIsCommitted`.  The strengthening `EvidenceInv` says what a run has behind
  it at each place (bytes while copying, an object afterwards, committed rows
  once linked); objects and rows never leave their store.
* `IncompleteIsTorn`: `WholeUnlessTorn`, on both backends and with overlap.  `WholeInv`
  says it of every object, recorded or not, since a later run may record what an
  earlier one left: a run leaves its copy by completing it or by joining `torn`, and
  nobody leaves `torn` (`CopyLeft`).
* `WritersRecordTheirBlob` and `DiskFilesAreKept`: `WriterRecordsItsBlob` and
  `KeptWhenSequential`.  `SeqInv`: while no two runs overlapped, at most one is
  under way, the staged file is its own, and the object it writes did not exist.

`StepPipelineProofs` proves, for any cases, portals and documents:

* `OneScrape`, `UnconfirmedReachesNothing`, `FloodOfTheCounty`.  `PipeInv`: the cache is filled by whoever scraped, once
  (`CacheInv`); without a trusted parcel it holds the empty answer, so no clerk
  step has a file (`NoFiles`); what FEMA's answer was reduced to is of the county
  (`CountyInv`).  The lemma `AdapterReturns` says what each adapter may return.
* `EveryRequestAnswered`: `OneStepPerRequest` (a step for each wanted document, in
  the order of the reference set), `EvidenceIsLogged`: `UploadedIsLogged`, and
  `FailuresShow`: `FailureIsNoEvidence`.  `TrailInv`: at every point the steps are
  those of the wanted documents already passed, as many as there are of them
  (`KeysInv`); a built-in adapter has only files of its own, all in the manifest, and
  none after a failure (`SoundInv`); documents are made
  when all steps are there, each by the upload of its own step (`OutInv`).

`ClerkScrapeProofs` proves, for any records of the portal, several under one book and
page included, and any number of spare clicks:

* `FiledIsRight`: `RightDocument`, and `NoPageMissing`: `AllPages`.  `ScrapeInv`:
  what is filed was right when filed, and the arguments never change (`FileInv`);
  a task is one of the portal's (`TaskInv`); the document in the viewer is the one
  the task looked for, under the reference the result names (`HitInv`); while
  nothing was late the pages seen are exactly those up to the one shown, and the
  clicks are those pages and the repetitions (`PagesInv`), so the loop can run out
  of clicks only when the portal repeated itself more often than it has spares;
  what is saved is then all pages but the undecodable ones.

`PropertyContextProofs` proves, for any parcels, records, registries, layers,
distances and orders allowed by `ContextAssumption`:

* `TrustIsEarned`: `TrustedIsMatched`; `HouseIsOfTheProperty`: `HouseIsTheParcels`;
  `WideningFinds`: `FindsTheSubject`; `MovesAreFlagged`: `MovedIsFlagged`.
  `ResolveInv`: a geocoder that answered named an address (`GeoInv`); no box that
  was passed over held a match among what was kept of its answer (`SearchInv`); a
  parcel that was found has an identifier the order's query accepts, or matched
  before the join, or no box held a match and it is marked as a guess unless the
  join made it one (`ParcelInv`); the context repeats what the parcel says, and
  warns of every geocoder but Census (`ContextInv`).  `Uncut` links the boxes to what
  the layer holds: an answer that holds no more than `MaxFeats` parcels is all of
  them.  The lemmas are about first fields: a field that is picked is a field of the
  record that the county does not exclude (`FieldPicked`, `StreetPicked`), and the
  house number of a situs stands in a site address wherever the record has one, else
  in a plain address or a number (`SitusHouse`).
  `MinOf`, that a set of naturals has a least
  element, comes from the library's well-foundedness of `<`.

`ApiRequestProofs` proves, for any requests, processes, tenants, orders, keys and
loads allowed by `ApiAssumption`:

* `RequestsAreScoped`: `TenantIsolation`, and `RefusalsAreClean`:
  `RefusedChangesNothing`.  `IInv` says of every request that the row it holds is
  its tenant's, that the order it is about to insert on was resolved for its
  tenant, and that nothing is written before the last check; and of every job
  that it is on an order of its own tenant.
* `AnswersAreSettled`: `SettledAnswer`, for any number of deliveries that overlap, crash
  and come again.  `AnswerInv` says of every job that no document is queued which a
  session takes for done, and that what a session has passed is neither queued nor
  being fetched (`Passed`, `Knows`); that the first run of a job is alone and its copy
  is what is stored (`Lone`); and that a row which says completed or partial has no
  queued document and, unless its job is in `again`, is at rest (`EndedRow`, `Calm`:
  no run is going on and a delivery that comes will not be the first).  The same
  holds of the row a request has read (`HeldRow`), because no step queues a document
  again and a job at rest stays so or enters `again` (`Steady`): that is what makes
  reading the row before its documents safe.  The property is about these two
  statuses because the reaper fails a job whose documents are still queued.
* `LimitHolds`: `WindowBound`.  `LimiterInv`: no store ever counts more than the limit
  of one identity in a window, whenever the window ends (`StoreBound`: a new hit is
  the latest, so every window it belongs to was counted when it was let through);
  with Redis there is one store (`OneStore`); a request that found its process's
  limiter uses that one, only one that found none may use another (`HitInv`).
  Without Redis the bound is a sum over the processes: `DealtOut` says that a
  finite set whose members are dealt to `D` with at most `n` each has at most
  `n * Cardinality(D)`.
Only model-checked: `QueuedIsTakenUp`, `RunningEnds`, `CommittedIsStarted` and
`RunEnds`, which need fairness and so `ENABLED` (outside the prover's reach), and
the four statements of the repository that the code does not keep, for which a
counterexample is the result.  Every invariant and action property that a passing
run checks is also a theorem.

## Not modelled

* Soft deletion (`deleted_at` is read and never set), document payload columns,
  `retry_count` (written, never read), log lines and wording.
* The Redis visibility timeout and the countdown of Celery retries.
* More than one artifact per document type in `EvidenceUpload`; `put`, `get`,
  `open` and `delete` of the stores, which the engine does not call.
* The rows of the county and state tables (`data/states`, `county_platforms.py`:
  about a third of the source): data, of which the models take the look-ups.
* HTML, cookies, how a PDF is made of its pages, image stitching and report layout;
  `http.py`'s retries, which end in an answer or an exception that the models have.
* Whether a street of the same name lies in another town: the fetcher geocodes
  only the first address line (`adapters.py` 93), and nothing in a run holds the
  order's city to compare with.
* Settings, middleware, logging, migrations and scripts.

## Plan

1. `JobLifecycle`, `JobCreation`, `EvidenceUpload`, `PropertyContext`, `ClerkScrape`
   with `StepPipeline`, `ApiRequest`: done.
2. Proofs of every invariant and action property of the runs: done.
3. An abstract lifecycle (a job as its users see it), and the refinement as far
   as the code keeps it, proved step by step like that of `IdempotentCreate`.
