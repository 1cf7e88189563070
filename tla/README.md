# Earshot: a verification of the call catalog and of what feeds it

Earshot observes voice agents. Spans and recordings of one conversation reach the server
from several sources, in any order, late or twice; the server gathers them into a *Call* and
publishes numbered *Revisions* of it, stores its recordings in a blob store, analyses and
projects them. Browsers post their observations as numbered drains; recorders keep a crash
journal, upload it live and deliver the closed incident. This directory models these in
TLA+, checks them with TLC and proves with TLAPS every safety property the passing runs check, of the
server's catalog, of browser capture and of the recorder's chain from journal to store. Paths
below are relative to `src/packages/sdk-python/src/earshot/` unless they start with `src/`, `docs/`, `packages/` or `CONTEXT.md`.

To check: `tlc -config closer_safety.cfg MCCallCloser` (each run's module is in
`PROJECT.json`); to prove: `tlapm CallCloserProofs.tla` and so on for each `*Proofs` module.

## 1. The system's parts

"Modelled" parts name their modules; the rest are in the plan (section 7) or left out
(section 8).

### The server

All catalog writes go through `IncidentStore._mutation`: one writer at a time, one
transaction. A transaction is therefore one action in every model; what is hard lies
between transactions, in blob-store calls made outside the lock, and in the memory of a
process that may die.

| Part | State | Operations | What is hard; what makes it correct |
|---|---|---|---|
| Calls and evidence (`storage_calls`, `call_capture`) **CallStore** | the `calls` row, `spans`, `call_traces`, counters | record spans, bind and park traces, promote | cap on Revisions, tail spans, late evidence; no evidence is forgotten, the cap is told |
| Closer (`storage_closer`) **CallCloser** | pending revision, lease, retry delay, `first_revision` marks, `call_revisions` | claim, materialize in a child, finish, fail, abandon, release leases | a lease that expires under its holder, evidence arriving during a build, an answer that failed after its commit; Revisions are exact, new and truthfully labelled |
| Recordings (`storage_recordings`, upload handler of `api`, `blobstore`) **Recordings**, **BlobJournal**; the row in **CallStore** | `recordings`, `pending_blob_deletions`, objects, uploads in flight (memory) | create, begin/finish/end/discard an upload, sweep, drain | requests cancelled while their thread runs on, ambiguous commits, drain against upload; no object leaks, no stored recording loses its object |
| Call purge (`storage_call_purge`) in all three, tombstones in **TraceBinding** | tombstones, generations | delete calls, purge, collect expired tombstones | what a purge journals against what is being written; a purged call is never rebuilt |
| Leased jobs (`leased_jobs`) **LeasedJobs** | state, attempts, lease, token | due, claim, complete, retry, release | expired leases, tokens, retry limits; every job ends |
| Analyses (`storage_analysis`) **AnalysisOutputs** | `audio_analysis`, output reservations | schedule, claim, reserve, put, store, fail, requeue | a runner that outlives its lease and its reservation; derived blobs neither leak nor vanish |
| Recording fetches (`storage_fetches`, `recording_fetcher`) **ProviderFetches**, **LeasedJobs** | `recording_fetches` | claim, stream, settle, fail, retry by a new delivery | an expiring URL, a lease and an upload attempt at once; no pending recording without a live fetch |
| Deliveries (`storage_deliveries`, `connectors`) **ProviderFetches** | `delivery_receipts` | claim, apply, fail, refresh URLs | provider retries while a lease runs; evidence written once |
| Call projections (`storage_call_projections`, `storage_prices`) **CallProjections** | `call_projections`, `projection_seq`, price versions, failures (memory) | stale, snapshot, compute, write, reprice | compare-and-set over an unlocked computation; a projection called current is true |
| Trace binding (`storage_calls`) **TraceBinding** | `call_traces`, generations, tombstones | park, bind, join, promote, discard, drop | a promotion, a binding and a purge of one trace; a trace has one call and a call counts its own spans |
| Project deletion (`storage`) **TraceBinding**; its fence in **CallProjections** | `lifecycle_state` | fence, delete a batch, mark | what goes on between batches; it ends, and marks only an empty project |
| Maintenance (`maintenance`) | the jobs | one loop per job | source of the fairness assumed |
| Capture drains (`capture`, parts of `live` and `api`) **CaptureServer**, **CaptureLog** | sidecar ledger, journal, call and live session (memory), seal | classify, intent, append, commit, undo, rebuild, seal, prune | a crash between ledger, journal and commit; each drain is in the call once |
| Live registry (`live`) **CheckpointUpload**, **CaptureServer** | sessions, frames | accept, seal, drop, expire | batches sent twice, a backend that forgets |
| Incident store, API, materializer, reads, pricing | see `PROJECT.json` | | single transactions or pure functions |

### The clients

| Part | State | What is hard |
|---|---|---|
| Browser transport (`src/packages/browser/src/transport.ts`) **BrowserCapture** | drain sequence, queue, retained exact request, range of losses | exact retries and lost answers against capture drains; no loss goes untold |
| Checkpoint journal (`checkpoint/*`, `recorder`) **CheckpointJournal**, **CheckpointUpload** | journal file, offset marker, uploader | torn frames, lost acknowledgements, a host failure that undoes an unlink |
| Exporter queue and durable spool (`exporter`, `delivery`, `cli`) **IncidentExport** | queue, spool file, the incident stored | accepted but not deleted before a crash, recovery beside delivery |
| Pipeline, adapters; contract, codec, privacy; Node; viewers | | local bookkeeping and pure functions |

### How they interact

Spans from the receiver, deliveries and recordings' rows *make a call dirty and due*. The
closer *claims* it (marks its evidence for the next revision, takes a lease), builds outside
the lock, and *finishes* under it. A finish and a stored analysis *bump `projection_seq`*,
which the projector follows. A finished upload *enqueues an analysis*. Uploads, analyses and
purges *journal blob keys*; the drain deletes what is due and unowned. A purge removes rows
under every one of them. A new process releases all leases before its loops claim anything.

A browser's drain becomes, under the call's transaction lock, an intent in the sidecar, frames
in the journal, and a commit; a restart undoes what was not committed. A seal turns a
finalized journal into an artifact. A recorder's journal is tailed by the uploader, whose
batches make a live session; `close()` finalizes it, submits the incident to the exporter and
releases the journal when the exporter took it; the ingest drops the live session.

## 2. The modules

| Module | Models | Uses |
|---|---|---|
| `CallStore` | one call, its spans, recordings and revisions; the operations that write evidence | |
| `CallCloser` | `CallStore` with the closers, the server process and its crashes; all the properties of a call | `CallStore`, `CallRevisions` |
| `CallRevisions` | the abstract promise: gather, publish, erase | |
| `MCCallCloser` | the instance for TLC | `CallCloser` |
| `TraceBinding`, `MCTraceBinding` | all traces and keys of one project: binding, parking, purge, tombstones, project deletion | |
| `BlobJournal` | objects, deletion journal, deleters | |
| `Recordings` | recordings' rows, upload attempts, sweep, drain, purge, crashes | `BlobJournal` |
| `LeasedJobs` | a table of leased jobs | |
| `AnalysisOutputs` | analyses: jobs, runner, reservations, derived blobs | `LeasedJobs`, `BlobJournal` |
| `ProviderFetches` | deliveries' receipts, fetch jobs, their recordings, purge and tombstone | `LeasedJobs` |
| `CallProjections`, `MCCallProjections` | the projector's passes over the calls of one project | |
| `CaptureLog` | the abstract promise of a browser call: a log | |
| `CaptureServer` | ledger, journal, call and live session of one call; drains, seals, recoveries, crashes | |
| `BrowserCapture`, `MCBrowserCapture` | the transport, the network and the server together | `CaptureServer`, `CaptureLog` |
| `CheckpointJournal` | recorder, crash journal, process and host failures | |
| `IncidentExport` | exporter, ingest, `earshot recover` | `CheckpointJournal` |
| `CheckpointUpload` | uploader, live session, seal; the three together | `IncidentExport` |
| `CallCloserProofs` | the closer's theorems: revisions and evidence; finality, the cap and the refinement | `CallCloser` |
| `TraceBindingProofs`, `RecordingsProofs`, `AnalysisOutputsProofs`, `CallProjectionsProofs`, `ProviderFetchesProofs` | the theorems of each | their component |
| `CheckpointProofs` | the theorems about journal, upload and export | `CheckpointUpload` |
| `CaptureProofs` | the theorems about the browser's drains and the refinement of `CaptureLog` | `BrowserCapture` |

`map` in `PROJECT.json` names the lines each definition stands for. Definitions whose
comment begins with "Slip:" are no part of any specification: they are mistakes the code
does not make, kept to show that a property would notice them (`mutants`).

### A call and its closer

State corresponds column by column: `dirty`, `closeDue` (`close_due_unix_nano`), `latest`,
`pending`, `leaseLeft`, `pastCap` (`evidence_after_latest_revision`), `firstRev`
(`first_revision` of spans and recordings), `revisions` (`call_revisions` with the evidence
each was built from). `inFlight` and `detached` are the process's uploads; `job` is what each
closer's memory holds between its two transactions. One action is one transaction, or one
step between two: `RecordSpans` includes `_add_evidence`, the joined parked spans and the cap
note; `Claim` the marking; `Finish` the marks' check, the row and the outcome.

Abstractions:

- Time is relative: ticks left to a due time or a lease, ticks since an event, counted no
  further than the code tells apart. A tick may come between any two steps.
- The random `lease_token` is `holder`, the closer whose claim wrote it, with the claim of
  its memory; `materialize_attempts` is `retryDelay`, which is what the code makes of it.
- What a build makes of a snapshot is pure, so a revision is its evidence, its finality and
  its close reason. Two closers stand for a second thread or server taking a lease over.
- A batch may name the call and store no new span (its span conflicted with a stored one);
  an end marker may itself be a tail span; spans joined from parked traces count as evidence
  even if they are tail spans. All three are as in the code.
- Left out here: the project's lifecycle checks, the sweep's exemption for recordings with a
  fetch job, and a purged call's key in its next generation (`"purged"` is final here; the
  next generation is another call, and `TraceBinding` has it, as it has promoted calls).

### Traces, keys and their project

`traces`, `bound` and `session` are the rows of `call_traces` and their `call_id` and
`has_session_span`; `calls` maps a row's id to its `span_count`. An id is the key, or the
trace a call was promoted from, with its generation, as `call_id` and `trace_call_id` hash
them. `RecordSpans` is `_record` whole: `Dropped` and `Target` are `_resolve_targets`, the
rest what `_store_spans` writes. Of the keys a trace's spans name in one request only the
first counts (`FirstKeys`); a later request may name another one, also for a span sent
before. `CollectParked` is one batch of the parked-trace job, `PurgeCall` the purge transaction, `ReadExpired` and `DeleteExpired` the two halves of a collection of
tombstones, which is the one operation here that spans two steps. `DeleteBatch` is one
batch of a project's deletion after its incidents are gone: calls, parked traces and, with
none left, generations and then tombstones.

Of a parked trace's `last_span_received` only two things matter: whether `LONG_QUIET` has
passed (`quiet`) and which of two traces is older (`older`). A tombstone is the ticks until
it expires. `purged` and `covered` are histories: what was purged, and how long each key's or
trace's last purge forbids it evidence. Left out: `otlp_resources` and the counters, prices
and the other tables a deletion empties, which nothing here reads.

### Recordings

`rec` and `blobKey` are the row; `request` is how far the upload handler's coroutine got;
`running` holds the calls still running in threads, which go on when the request is
cancelled (`begin_upload` in `api.py`: "A thread cannot be cancelled"). `journal` tells a row
journaled anew from one whose deletion was tried, which is what `finish_blob_deletions` asks
before it removes it. Deadlines and retry delays are abstracted: the sweep may find any
pending recording stale, the drain any row due. A cancellation consumes a fault. One purge
deletes at a time. `cancelled` is a history: the keys whose own request was cancelled during
a commit or a finish. `StorageBusyError` is raised before anything is written, so a retried
transaction never repeats a committed one.

### Analyses

`LeasedJobs` keeps `state`, `attempts`, lease and retry delay; a token is the worker whose
*current* claim drew it. A runner goes `idle -> child -> put -> store`, or reports a failure.
Reserving journals the output key, due a grace after the lease; `Store` needs the claim and
the untouched reservation. One output stands for a claim's outputs. A key may be reused once
nothing names it, standing for a fresh uuid. `outlived` is a history: the keys whose
reservation the drain took while their runner went on.

### Deliveries and fetches

`receipt` is a row of `delivery_receipts` whose lease token is a number drawn by each claim;
`handler` is a request of the hook with the token it claimed. `Apply` is the one
mutation of `DeliveryStore.apply`: evidence, recordings, jobs and URLs, only under its token.
`rec`, `source` and `url` are the rows of a recording and its fetch, and `worker` how far the
runner got. The API's upload of the same recording (`ClientStores`), the purge and the
expiry of the tombstone, which lets the key begin again, are actions of their own. Recording
identities are a function of the provider's call and the track; a delivery names all of
them. One attempt at the object either stores the recording or fails: `Recordings` has the
steps inside it.

### Projections

A row holds what its computation read, its stamps (`seq`, the two price versions, the
computation's version) and its digest. A pass of a projector lists stale calls a batch at a
time, reads a snapshot, computes and writes, each of them a step; the write compares as
`CallProjector.write` does. `failed` is the memory of failures with their retry times.
A *lapsing* projector is the last pass of a server that lost its database lock and has not
noticed yet, which is what makes two passes overlap. Changes to the calls stand for the
closer's finish, analyses (each state change that touches `projection_seq`, and those that do
not), price rows, a new release with its built-in prices, purges and the deletion of the
project.

### Browser capture

The server's `sidecar` (ledger with intent, exact-retry fence and digest ring) and `journal`
are on disk, `call`, `live` and `refusal` in memory. A drain's work is `process` (classify and
write the intent), `append` (frames, which a crash may tear) and `commit`; recovery truncates
the journal and rewrites the ledger, each of which may fail or be cut off. The transport posts
one payload at a time; each of its steps runs from one `await` to the next. The network loses
requests and answers, and delivers a request after the transport stopped waiting for it.
A drain is its sequence, the loss it declares, whether it ends the call and whether it would
overflow the journal; its digest is the drain itself. A reader of the journal judges its
chunks one by one: `Replayable` is what `_capture_journal_entries` accepts and `Recoverable`
what `_rebuild_call` does, so a torn chunk makes the call unavailable until a recovery cuts it
off.

### Checkpoint, upload and export

A journal is the sequence of frames appended; `kept` of them are in the file after a host
failure, `synced` are safe from one, `named` is whether the directory entry is on the disk,
`ghost` a file that a host failure brings back after its removal. `recorder` is the stage of
`close()` with two totals: the facts it admitted and the records they left it with
(`counted`), for a coverage record that says "available" supersedes the one before it and
adds none ("change"). `copy` is the exporter's copy and where it is (queue, temporary file,
spool, set aside). `session` is the backend's frames, offsets count frames, and `flusher`
holds the two `flush()` calls that can overlap. `artifact` is what the store holds under the
bundle id, as final or provisional, with its facts and records. `acked` is a history.

- A directory fsync that fails tells nobody (`checkpoint/writer.py:599`): `OpenJournal` may
  leave a healthy writer whose journal has no durable name, and a host failure may then take
  the file whatever was synced in it. A name found after a host failure is on the disk.
  A release whose fsync or unlink fails leaves the file (`LeftBehind`).
- A replay is compared with the recorder's totals by its number of records alone
  (`CountersAgree`, `_cross_check`), so it does not miss a dropped supersession.
- `earshot recover` takes any journal that exists, one still being written too (`Recover`);
  what it then stores is provisional, and provisional artifacts are not told apart.
- The delivery mode is decided when the incident is submitted: nothing reads it before.
- `Acknowledged` moves the offset and the marker in one step. A crash between the two leaves
  what one before the answer was read does, and a marker that a flush overtaking this one
  wrote first is what a failed write of the marker leaves. Both are behaviours of the model.
- `CloseUploader` only asks: the last pass of `close()` may come, and overlap the thread's
  flush when the join times out, or not come, as without `drain`.

## 3. What the runs check

| Run | Distinct states | Shows |
|---|---|---|
| `closer_safety` | 817 thousand (symmetry) | two closers, leases expiring under each other, crashes, failed builds, a recording, a tail span, an end marker on a tail span, a purge: `CloserInv`, `RevisionsExact`, `NoEvidenceLost`, `EndSignalPending`, `CloseReasonsTrue`, `PastCapTold`, and `ImplementsPromise`, the refinement of `CallRevisions` |
| `closer_liveness` | 22 thousand | `EvidenceShown`, `RecordingSettles` under fairness |
| `binding` | 16 thousand | spans of two traces sent again and renamed, promotion, purge, renewed tombstones, deletion in batches of one row: `BindingInv`, `PurgeHolds`, `ParkedSettles`, `DeletionEnds` |
| `recordings` | 96 thousand | `RecordingsInv` (with it `StoredHasObject`), `NothingLeaks`, `OneOutcome` (of the sweep and the racing finishes one wins), `UnownedDeleted`, `AttemptEnds` |
| `analysis` | 126 thousand | `AnalysisInv`, `DerivedAccounted`, `JobEnds`, `DerivedDeleted` |
| `fetches` | 247 thousand | `FetchesInv` (a delivery writes once, a pending recording has a live fetch, a URL lives no longer than its fetch), `FetchSettles` |
| `projections` | 140 thousand | `ProjectionInv`, `CurrentIsTrue`, `NeverOlder`, `NoneOnceDeleting`, `StaleIsProjected` |
| `capture` | 196 thousand | `CaptureInv`, `LiveIsCommitted`, `LossesDeclared`, `RetrySettles`, and `ImplementsLog`, the refinement of `CaptureLog` |
| `checkpoint` | 960 thousand | `CheckpointInv`, `EvidenceKept`, `FinalIsCounted`, `StreamExtends`, `SpoolSettles`, `StreamCatchesUp` |
| `open_call`, `recordings_cancel`, `analysis_outlived` | | the three disagreements of section 6 |

### Bounds, and why they are enough

- `closer_safety`: a plain span, a tail span, an end marker that is itself a tail span (the
  one of `closer_liveness` and `open_call` is not) and a recording give a first
  revision, a second, the cap of two and the final one past it; two closers are what one
  lease can be taken between; two faults allow a failure inside a failure's retry.
  `LongQuiet`, `LateDebounce`, `UploadHold` and `LeaseTime` are 1 so that all orders of the
  due time and the lease occur; `EndGrace` 0 is another length of the same timer. One upload
  (`MaxUploads`), attempted by a request that may be detached. The closers are
  interchangeable and keep their claims apart, so symmetry is sound for its properties,
  none of which is a liveness property.
- `closer_liveness`: cap 1 so that the cap, the final revision past it and the retry all come
  up; one fault, no symmetry.
- `binding`: a trace with a session span, which can be promoted, and one without, which
  cannot; one key for both, so that they join one call at different times; batches of one, so
  that order decides which trace waits and what goes on between the batches of a
  deletion; two purges, so that the second renews the first one's tombstones while a
  collection has read them. A request that names two different keys needs a second key: that
  case is in the proof only, for a second key makes the run too large (a promoted trace's
  own key is the second one it is renamed from).
- `recordings`: two keys are two attempts, concurrent or one after the other, of one
  recording that may be created again after its purge (`MaxCreates` 2); two faults.
- `analysis`: one job, a lease of 2 and a grace of 1 so that both the lease alone and the
  reservation too can end under the runner; one retry; two keys are a stored result and the
  one that replaces it.
- `fetches`: two deliveries of one call and two requests, so that a delivery is taken over
  and another overtakes it; two workers, a lease of 1; one retry, so that the last attempt
  and the one before it differ; a purge and one fault.
- `projections`: two calls, so that a batch of one leaves a call behind a cursor, with the
  first call's first revision impossible to project; a projector and a lapsing one; two
  tariffs; two changes, one price row, one fault.
- `capture`: three drains, the second possibly too large, a digest ring of two so that the
  oldest digest is forgotten; two attempts, a queue of one, three faults: a crash inside the
  recovery from a failed request.
- `checkpoint`: two facts and a journal of two frames, the header and one fact, so that it
  may fill up at a fact that adds a record, which the cross check notices, or at one that
  supersedes a record, which it does not; the first fact possibly too large for an upload;
  batches of two frames; two faults, so that a directory fsync that failed and a host failure
  meet; both delivery modes.

`MaxFaults`, `MaxUploads`, `MaxCreates`, `MaxSchedules`, `MaxClaims`, `MaxPurges`,
`MaxChanges`, `MaxPrices`, `MaxFacts` and `LastSeq` are bounds of the models, not of the
code; the sets of keys, spans, recordings, calls and deliveries are finite in the runs only.
The theorems hold for any values of all of them. Deadlock checking is off in `recordings`,
`analysis`, `fetches`, `capture` and `checkpoint`: once clients stop sending, nothing is
due and the bounds are used, nothing has to happen. With the keys all in use, `Reserve`
cannot happen and the attempt ends by a failure; that is an effect of the bound.

### Fairness, and why the code justifies it

- The maintenance loop runs each job again and again, a second after the last run, whatever
  the job raised (`maintenance.py`, `_run_job_until`): weak fairness of claiming, of the
  drain, of the sweep, of the projector's steps and of the start steps.
- A build has a deadline and its child is killed (`storage_closer.py`), an analysis child has
  a timeout, a fetch a timeout for each of its waits, blob calls return: weak fairness of the
  steps between a claim and its outcome.
- The API ends every upload by an idle and a total timeout: weak fairness of its end.
- A dead server is started again, and time passes. In `projections` time is strongly fair: a
  minute passes however often the job finds work in between.
- `capture`: a host flushes while a retry is pending, which `packages/browser/README.md:74`
  asks of it; a request on its way arrives or its attempt ends; the server serves what
  reaches it. Sends, seals and expiries are owed by nobody.
- `checkpoint`: the exporter's worker and the uploader's thread loop (weak fairness of
  `ThreadStep`; the pass of `close()` is owed by nobody); a producer with a spool is started
  again; an ingest that has committed drops the session. Recovering and sealing
  are an operator's decision and owed by nobody.
- `binding`: the parked-trace job is a maintenance job (weak fairness of `CollectParked`); the
  client of a deletion repeats its request while the answer is 202 with `Retry-After`
  (`api.py:6796`): weak fairness of the batches and of the mark. Sends, purges and
  collections of tombstones are owed by nobody, and sends may go on for ever.
- Otherwise nothing is assumed of clients, purges or faults. Faults are finite in number; a fault at
  every step for ever would of course stop any progress.

## 4. What is proved

Proofs hold for any number of spans, traces, recordings, closers, keys, jobs, workers, deliveries,
calls, projectors, facts, records, frames of a batch, drains, digests, attempts, queue lengths
and faults and any timings, from the
named `ASSUME`s only: keys and traces differ, the spans sent are finitely many; end markers and
tail spans are spans, spans and recordings differ, the cap is positive, the bounds are
naturals (`StoreAssumption` and those next to it); `Deleters` are the drain and the purge;
the grace is at least a tick; calls are numbered and the retry times are not empty; a journal
has room for a record and a batch for a frame; a drain declares a loss only up to the sequence
before its own, rings, attempts and queues are not empty, and what `prepareResync` makes of a
drain is a drain (`ServerAssumption`, `ClientAssumption`).

**Closer, revisions and evidence** (`CallCloserProofs`). `RevisionsExact` is not inductive:
nothing in it says that a claim's snapshot is still what the row's marks say when it
finishes. `Numbering`, the first part of `CloserInv`, adds

- `SnapshotHeld`: the claim that still holds the call has exactly the marked evidence in its
  snapshot. Every transaction that marks is a claim, which takes the lease from the others;
- `RowsNumbered`, `MarksBounded`, `RowsShowMarks`: the pending revision is the next one, marks
  never exceed it, and stored rows show the marks up to their number;
- `MarksNew`: every number after the first is on some evidence, a dirty call has unmarked
  evidence for its next revision;
- `UnmarkedDirty`: unmarked evidence, tail spans aside, keeps the call dirty, and a marked but
  unpublished one keeps it dirty or pending;
- `NoRow`: nothing outlives the row.

From it: `RevisionsExactAlways`, `NeverSetAsideAlways` (the code's "cannot happen" branch is
indeed unreachable), `EveryRevisionHasNewsAlways`, `NoEvidenceLostAlways`. `NeverSetAside` and
`EveryRevisionHasNews` follow from what the runs check and are not checked on their own; nor
are `RevisionLimit`, which the abstract Call states, `StoredPeaksExist`, which `AnalysisInv`
contains, and `StoredHasObject`, which `RecordingsInv` contains. `TypeCorrect` is proved first.

**Closer, finality and the cap** (`CallCloserProofs`). The other parts of `CloserInv`, each
resting on those before it: `EndKnown` (an end marker no final revision shows keeps the call
ended and dirty or pending, even when the marker is itself a tail span), `ClaimsTrue` (what a
claim decided of finality and close reason stays true of the row while it holds the call:
only its own finish may publish in between), `CapCounted` (the revisions that are not final
number at most the cap, and evidence past it is noted). `CloserInvariant` proves the
conjunction; `EndSignalPendingAlways`, `CloseReasonsTrueAlways`, `RevisionLimitAlways` and
`PastCapToldAlways` follow.

**Closer, the refinement** (`CallCloserProofs`). `ImplementsPromiseAlways`: every step of the
closer's specification is a step of `CallRevisions` or leaves its variables alone. A
transaction of the store gathers or is unseen, a purge erases, a finish that stores its row
publishes exactly what was gathered since the last, and marks, leases, failures, crashes and
time are unseen.

**Traces and keys** (`TraceBindingProofs`). `PurgeHolds` is not inductive: that nothing covered
by a purge is stored does not yet say what keeps it out. `BindingInv` does. `BindingTrue`: a
trace's call exists, and a call promoted from a trace has that trace and no other, so that
the call of a parked trace is always free to insert. `SpansTrue` and `CountsTrue`: rows,
flags and counts are those of the stored spans. `KeysTrue`: a call is of its key's current
generation, and no call and no stored trace is under a live tombstone. `TombstonesTrue`: a
purged call's generation has passed, and while its purge holds a tombstone of it outlives it;
both until a deletion has nothing left, after which nothing comes back, since whatever could
still write (promotion and purge) needs a trace or a call. The proof of `RecordSpans` splits
the traces of a request into those dropped, bound, joining and new, and counts a call's spans
as the disjoint union of what it had and what it was credited; a purge and a batch of a
deletion share one lemma (`EvidenceGoes`). `BindingAlways`, `PurgeHoldsAlways`.

**Recordings** (`RecordingsProofs`). `RecordingsInv` says where each attempt stands: a key not
yet taken is nowhere; an attempt is in flight exactly while its handler runs, and deleters
hold only keys of ended attempts; but for cancelled requests, a commit or a finish runs only
while its handler awaits it, and until it ends its key is journaled and, for a finish, its
object there; what is about to be deleted is unowned. `NothingLeaksAlways` and
`StoredHasObjectAlways` follow; `OneOutcomeAlways` needs of it only the types.

**Analyses** (`AnalysisOutputsProofs`). The drain never asks what an analysis owns, so that it
deletes nothing owned rests on time: a reservation untouched at `Store` has never been
claimed by the drain. `AnalysisInv` gives every key one place (a row, a runner, a purge's
deletion), keeps reservations fresh and unclaimed unless outlived, and what was deleted gone
unless its runner wrote it again. The proof treats jobs, clock and places separately.
`DerivedAccountedAlways` and `StoredPeaksExistAlways` follow.

**Projections** (`CallProjectionsProofs`). `CurrentIsTrue` says nothing of a projection being
computed, nor of one that is stale now and that a counter might bring back. `ProjectionInv`
says of every row and of every snapshot about to be written that it is true of what its
stamps name and that no stamp is ahead of its counter. The proof shows that every step but
the write is *quiet*: counters only grow, and they grow whenever what they count changes. The
write itself compares sequence, revision and digest, and a reprice keeps everything but the
cost of what its digest names. `ProjectionsTrueAlways`, `CurrentIsTrueAlways`,
`NeverOlderAlways`, `NoneOnceDeletingAlways`.

**Deliveries and fetches** (`ProviderFetchesProofs`). `FetchesInv` falls into what receipts and
requests keep (`ReceiptsOK`) and what fetches, recordings and workers keep (`FetchesOK`);
applying a delivery is the only step that both take part in. Tokens only grow, so a request
whose receipt was taken over can no longer match; a worker that reports its upload stored
while it holds the job did store it, since whoever purged the recording took the job from it.
`FetchesAlways`.

**Checkpoints** (`CheckpointProofs`). `EvidenceKept` is a promise about places and says
nothing of why the journal may go, and `StreamExtends` nothing of the batches on their way.
`CheckpointInv` is inductive in three parts. *The writer* (`JournalEnds`, `WriterTrue`): only
the finalize frame follows the full journal's marker and nothing follows it; the file is
whole while its recorder lives; what is declared finalized was synced, so that a host failure
cuts off nothing of it. Of its name nothing is claimed: where a property needs it, it says so
(`journal.named`). Each write is reduced to its four outcomes (`PutDoes`) and the writer's
steps to one lemma (`WriteKeeps`). *The stream* (`StreamTrue`), which needs of the journal
only that it grows: the session and every batch under way are prefixes of the frames, so that
a batch accepted from within the session makes it the longer of two prefixes
(`PrefixAccepts`), whichever flusher sent it. *The closed incident* (`ClosedTrue`): nothing
final is stored of an open recorder, a finalized journal whose name is on the disk is gone
only after an answer that counts as delivered, a spooled copy leaves the spool only for the
store, and the three ways into the store agree on what final means: the artifact `close()`
built, or, after a journal that was full, one with as many records. For a journal that was
never full the replay *is* that artifact (`JournalEnds`), which is what makes the journal a
whole copy. `CheckpointAlways`, `EvidenceKeptAlways`, `FinalIsCountedAlways`,
`StreamExtendsAlways`.

What these promise is bounded by the code's own: `EvidenceKept` begins once the incident is in
the spool, or in a finalized journal that was never full and whose directory entry is on the
disk; and it ends when the memory queue has taken the incident or `submit` has raised, after
which the recorder lets its journal go.

**Browser capture** (`CaptureProofs`). What the runs check is not inductive: `CaptureInv`
says that ledger, journal and call agree, not what a drain under way or a half-done recovery
may still change, and `LossesDeclared` says nothing of a payload still queued or retained.
The proof speaks of `Held`, the frames a commit marker covers, wherever they are: in the
journal, or in the artifact once the journal is gone. `IInv` has three parts.

- *The server* (`ServerInv`). `LedgerInv`: `Held` is a log that leaves out no number, the
  ledger's position, digests and finality are those of `Held`, an intent or a fence is for a
  later drain, and an artifact is the whole closed call. `MemoryInv`: the call in memory and
  the live session are those of `Held`. `WorkInv`: what each stage of a drain and of a
  recovery may rely on; in particular the drain that goes on to its commit still follows
  `Held`, and what is truncated is exactly what it or its predecessor appended. `SealInv`: a
  seal's snapshot is of a closed call, which nothing extends. One lemma per action; each
  action changes `Held` not at all or, a commit, by one chunk that follows it (`Grows`).
- *The answer* (`AnswerInv`). The request being served is the one the transport waits for, and
  a drain answered "ok" or seen accepted is in `Held`. It survives every server step because
  `Held` only grows.
- *The client* (`ClientInv`). Every sequence the recorder gave out is settled (accepted or
  given up), outstanding (retained, under delivery or waiting behind an exact retry) or queued
  (`QueueInv`, `DeliveryInv`, `AccountInv`); the resync range covers all that is settled and
  past the log (`ResyncInv`), and what is posted connects to the log or declares the rest
  (`Declared`). The steps are those of `transport.ts` from one `await` to the next; `GivenUp`,
  `Posted` and `WidenedByAllRanges` are the lemmas they share.

The two halves meet in `ClientGrows`: the server may only make the client's obligations
easier. `CaptureInvAlways`, `LiveIsCommittedAlways`, `LossesDeclaredAlways` follow, the last
with `NoGap`: a declared payload is never classified as a gap. `ImplementsLogAlways` maps a
commit to `Apply` (with `Follows` giving exactly the lost numbers), an answer to
`Acknowledge`, and everything else to a stutter. TLC checked each part of `IInv` on the
instance of `capture` and on one of four drains and a queue of two before it was proved.

## 5. What is only model-checked

Every invariant, every box-action property and both refinements (`ImplementsPromise`,
`ImplementsLog`) that a passing run checks have a theorem above. What TLC alone shows:

- Liveness (`EvidenceShown`, `RecordingSettles`, `ParkedSettles`, `DeletionEnds`,
  `UnownedDeleted`, `AttemptEnds`, `JobEnds`, `DerivedDeleted`, `FetchSettles`, `StaleIsProjected`, `RetrySettles`, `SpoolSettles`,
  `StreamCatchesUp`): the prover does not treat fairness.
- The three runs of section 6 are behaviours TLC found, not theorems.

## 6. Where the code and its words differ

- **Open call** (`open_call`): `CONTEXT.md:54` says a call closes after an end marker or a
  quiet period. One that receives only tail spans is created open, clean and without a due
  time (`storage_calls.py:745`), so it never closes.
- **Cancelled finish** (`recordings_cancel`): `storage_recordings.py:25` says `discard_upload`
  never deletes an object a stored recording names. It checks under the lock and deletes
  outside it (`:537`); a request cancelled during its finish lets the finish come between.
  `StoredHasObject` and `NothingLeaks` except exactly these keys.
- **Outlived reservation** (`analysis_outlived`): `storage_analysis.py:834` says a failure
  leaves reserved keys journaled. After the lease and the grace the drain may take the
  reservation while the object is still being written; an attempt that then fails leaves an
  object no row names (`:862`). `DerivedAccounted` excepts exactly these keys.

### Further observations

Noted while modelling. Where a model covers the code, it contains the behaviour; no run of
its own shows it.

- `docs/otlp-quickstart.md:207` says a closed call is revised no sooner than the debounce
  after late evidence. A pending revision is claimed again when its lease ends whatever is
  due, and `fail` overwrites the due time (`storage_closer.py:851`).
- `storage_calls.py:1156`: `collect_parked_traces` looks for a tombstone of a trace it is
  about to promote. `KeysTrue` says it never finds one: a stored trace has none.
- `storage_calls.py:607`: a request's resources are stored for every span of it, also for one
  whose payload conflicts with the stored span. A resource only such a span names is
  referenced by no stored span, and a call purge deletes what the deleted spans referenced
  (`storage_call_purge.py:190`), while its comment speaks of the resources "no span
  references any more". It stays until the project is deleted. Resources are not modelled.

- `src/packages/browser/src/transport.ts:534`: when a drain was interrupted on the server and
  left its retry fence, a non-retryable answer to the exact retry (a proxy's 4xx, say) makes
  the transport declare the drain lost; the server refuses every later drain with 409 until
  that fence is met, so the call takes nothing more.
- `recorder.py:2035`, `exporter.py:383`: with delivery mode "async", `close()` releases the
  finalized journal once the incident is in the exporter's memory queue.
  `checkpoint/writer.py:467`, `docs/sdk.md:341` and `docs/privacy.md:469` let it go only when a
  durable successor has it. A submit that raises counts as delivered too. `EvidenceKept`
  excepts exactly these two.
- `docs/sdk.md:324` says that a journal with the recorder's finalize record reconstructs an
  artifact "byte-identical to the one `close()` produced". A coverage record that supersedes
  another (`recorder.py:1206`) is a frame of its own and changes no count. When the journal is
  full it is dropped (`checkpoint/writer.py:547`), the finalize frame is still written past
  the cap (`:458`), and `_cross_check` (`checkpoint/assembler.py:458`) compares counts only: a
  recovery or a seal stores a final artifact without it. That the journal was exhausted is
  reported (`journal_complete`) and refuses nothing. `FinalIsCounted` excepts exactly this: a
  final artifact that is not the one `close()` built comes from a journal that was full, and
  still holds every record.
- `checkpoint/writer.py:599`: with a directory fsync that failed when the journal was opened,
  which the writer says it tolerates, a host failure after `close()` has finalized and before
  the incident is spooled may lose it, though it was synced. `EvidenceKept` excepts it by
  asking for `journal.named`.
- A degraded journal of an incident that was delivered recovers to a provisional artifact of
  the same bundle id: whichever comes second is refused.
- `api.py:6205`: a batch in flight while its incident is ingested creates the live session
  again after the drop; an expiry ends it.
- `checkpoint/uploader.py`: `close(drain=True)` sends one batch, not all that is left.
- `storage_fetches.py:27` says a fetch is retried after 1, 4 and 16 minutes and then failed.
  `claim` takes over an expired lease without counting an attempt, and `run_next` counts
  `FetchError`s only, so another error that persists repeats every lease for ever.
  `FetchSettles` holds because such errors are among the bounded faults.
- `storage_fetches.py:335`: `fail` judges whether the URL is over by the URL of its claim, not
  by one a delivery has refreshed meanwhile.
- `storage_analysis.py:242`: `claim` and `retry` change an analysis state that a call's media
  list shows without touching `projection_seq`; `ShowsCall` compares pending and running as
  the call's summary does.

## 7. What could follow

1. Renditions of analyses: the two jobs of a mono pair and the row they share.
2. The other batches of a project's deletion (incidents, objects, captures, live tails), and
   the retention schedule that picks the calls to purge.

Bounds would follow the pattern above: two actors for whatever one lock, lease or key can be
contested by, one or two faults, and the smallest limits that still overflow.

## 8. What is not modelled, and why

- What builds, analyses and projections compute, the wire contract, validation, privacy
  filters, encryption: pure functions, better served by the repository's own tests.
- Routing, authentication, configuration, viewers: input and output.
- SQL and the two databases: transactions are taken as atomic and serialised, which
  `_mutation`'s lock and the drivers provide; `StorageBusyError` writes nothing.
- The recorder's bookkeeping of each admission, pipeline and host adapters: wide bookkeeping
  over third-party callbacks with little state shared between actors.
- Trace binding and project deletion: rows of resources and counters, prices, the incidents
  and objects a deletion takes first, captures and live tails. In `CallStore` a call's traces
  are bound as its spans arrive; the two modules are not composed.
- Capture: the memory-only mode, capacities and saturation, the hosted inventory, legacy
  metadata, several sessions of one transport, a changed authentication context, and the first
  capture version.
- Checkpoints: fsync modes "always" and "never", encryption, synchronous delivery, the
  rejection policy "delete", `--best-effort`, `keep_finalized`, several journals of one
  session id, the server's own writer, the tail of a local directory.
- Fetches: presets other than "full", disabled connectors, the limit of recordings per call,
  a delivery key reused with another content.

The bulk of the repository by lines is in these: the contract and its validation, the
recorder, pipeline and adapters, the reads, dashboards and viewers, and the routing of the
API.
