# TLA+ verification of the Ziffer billing system

The program turns time tracked in Teamwork into billing drafts, lets several
people edit a draft in their browsers, sends it to Xero as an invoice or quote,
and keeps the hours clients have prepaid. One Node process serves the browsers
from one PostgreSQL database; three cron jobs run the same code in processes of
their own (Teamwork synchronisation, Xero reconciliation, monitoring).

This directory models the parts where several of these act on the same rows.
Paths below are relative to the repository.

## Inventory

| Component | State it keeps | Operations | Interacts with | What is hard | What makes it correct |
|---|---|---|---|---|---|
| Quote draft lifecycle and lock (`server/quotePreviewRepository.js`) | `quote_previews` rows: status, version, archived, lock holder and expiry, send state | create, acquire, renew, edit metadata, lines and time entries, archive, restore, logout | browsers, sending | every handler is a transaction, but they interleave with expiring locks and with logouts | one editor at a time; a version names a content |
| Browser draft client (`src/client/App.jsx`) | next version to send, what is shown, save queue, kept operation, conflict banner | edit, save, retry, reload, reacquire, preview | draft handlers | answers come late and out of order, the lock is lost behind the queue | what is sent and shown belong together; nobody's edit is replaced unseen |
| Sending to Xero and reconciliation (`quotePreviewRepository.js`, `xeroClient.js`) | `xero_send_attempts`, `xero_quotes`, send state, prepaid hours, documents at Xero | send, record, undo, reconcile by hand, scheduled reconciliation | draft handlers, Xero | two transactions around a call whose outcome may stay unknown, crashes between statements, two reconcilers at once | one document per draft, billed as it was when sent, never stuck |
| Teamwork synchronisation (`reportingService.js`, `teamworkRepository.js`, `teamworkStore.js`) | `teamwork_sync_runs`, time entries, the JSON store and its copy in memory | sync, refresh, restore from the database | Teamwork, reporting | two processes, an advisory lock, partial answers, crashes | one sync at a time; what reports show is what the last complete run covered |
| Billable push (`teamworkBillableSync.js`) | none of its own | push a switch to Teamwork, then to the stored rows | drafts, Teamwork, sync | runs in the background, unordered | the stored state agrees with Teamwork |
| Annual prepaid hours (`annualInvoiceRepository.js`, `AnnualInvoicesView` of `App.jsx`, `src/shared/annualServicePeriods.js`, two scripts) | `annual_invoice_usage`, the inputs of the page with their timers and versions | autosave, blur, load a year; rows a draft sets up; bookings; import, reconcile | sending, drafts | autosaves and answers pass each other, a save meets a booking, dated and calendar rows share a table | what is typed is not replaced, a prepared draft can be booked, hours leave only by hand |
| Draft lines (`src/shared/quoteDrafts.js`, `quotePreviewRepository.js`) | `quote_lines` with the snapshots of their entries, override events | group entries, split annual coverage, switch, rate, edit, reassign, remove, add by hand, rebuild | drafts, annual hours | every edit rebuilds the draft from its own lines, while other drafts use up the allowance | no hour is lost or billed twice, what was typed stays |
| Xero connection (`xeroClient.js`) | `xero_connections`, tokens at Xero, requests that renew them | ask for access, renew, store, call back, disconnect | sending, poller, reference data | a refresh token works once; a renewal under way while somebody connects or disconnects; lost answers | a connection is not lost by a race |
| Xero reference data (`xeroReferenceRepository.js`) | tables of contacts, tax rates, accounts, items | synchronise, serve from the cache | Xero connection | each page of each collection asks for the connection anew; parts may come without the rest | a fresh cache is whole; what a synchronisation left is what Xero lists |
| Status poller and incidents (`billingQuoteRepository.js`, `operationsRepository.js`) | status of sent documents, runs, incidents | poll by timer or request, record, open and resolve incidents | Xero, reporting | overlapping polls, three scheduled runs without success in a row | a failing poller leaves an incident, documents are shown as they stand |
| Reporting (`reportingClassificationRepository.js`, `src/shared/reportingClassification.js`) | `reporting_time_allocations` | classify the hours of a period, write off on sending | drafts, sending, poller | one entry is estimated, billed, prepaid or written off by queries of their own | every hour of an invoice's period is billed or written off |
| Sign-in (`auth.js`), AI task names, billing clients, document numbers, audit, configuration | see `PROJECT.json` | | | | |

`PROJECT.json` lists every component with its files, and what is left out with
the reason. Its hazards name the lines where the code could go wrong in a way a
test would hardly reach, and the properties that watch each of them.

## Modules

| Module | Models |
|---|---|
| `QuoteDraft` | a `quote_previews` row and its handlers |
| `DraftClient` | browser tabs on one draft; EXTENDS `QuoteDraft`, whose actions its requests take |
| `XeroSend` | sending and reconciling; EXTENDS `QuoteDraft`, whose actions the editors take past the advisory lock |
| `DraftLines` | the lines of a draft, the allowances applied to them and their rebuilds |
| `TeamworkSync` | the copy of Teamwork's time entries: synchronisation, stores, pushes |
| `BillingLedger` | the abstract promise of sending, which `XeroSend` implements |
| `AnnualCells`, `AnnualUsage` | keys, periods and workbooks of the annual invoices; the table and everybody who writes it, EXTENDS `AnnualCells` |
| `XeroConnection`, `XeroReference` | the connection to Xero; the reference data fetched through it, EXTENDS `XeroConnection` |
| `DocumentStatus`, `Reporting` | polls of sent documents and their incident; drafts, sends and reports over them, EXTENDS `DocumentStatus` |
| `SumTheorems` | lemmas on sums over finite sets, induction over sets of numbers, and finite images, which the proofs share |
| `DraftClientProofs` (with those of `QuoteDraft`), `DraftLinesProofs`, `XeroSendProofs`, `TeamworkSyncProofs`, `XeroReferenceProofs`, `ReportingProofs`, `AnnualUsageProofs` | theorems |
| `MC...` | the instances for TLC |

### QuoteDraft

`draft[d]` is the row. A session stands for the pair of user and editor session
id that the code always compares together. The lock is `holder` and `ttl`, the
clock periods left of its ten minutes; `LockAges` lets them pass. Lines and
metadata are one number, `content`, that every edit increments. A handler is one
transaction under the draft's advisory lock, so it is one action; `RenewLock` is
one UPDATE without that lock. A logout is two steps, as in the code: it reads
the drafts the session holds, then releases them, and whatever it holds by then.

| Action | Code in `quotePreviewRepository.js` |
|---|---|
| `AcquireLock`, `RenewLock` | `acquireQuoteDraftLock`, `renewQuoteDraftLock` |
| `UpdateMetadata`, `UpdateTimeEntries` | `updateQuotePreviewMetadata`, `updateQuotePreviewTimeEntryOverrides` |
| `Archive`, `Restore` | `archiveQuoteDraft`, `restoreQuoteDraft` |
| `LogoutSelects`, `LogoutReleases` | `releaseQuoteDraftLocksForSession` |
| `MayMutate` | `assertDraftMutation` |

### DraftClient

A tab has `version` (`versionRef`, what the next request will send), `shown` and
`content` (`currentDraft`), the operation at the head of its save queue with the
content it was composed on, and the operation kept for the Retry button. Its
steps are those of `runDraftMutation`: the request commits, is refused for the
version (banner) or for the lock (reacquire and send again once), or fails; its
answer arrives later or never. Keys and pointer events renew the lock or
reacquire it in the background (`inbox`), and a Xero preview answers whenever it
does (`previews`). The queue holds one operation; a second one would be sent
right after it, which composing it later also does.

### XeroSend

A send (`sender[d]`) is: the transaction that checks the draft and writes the
attempt, the request, its answer, and the transaction that records the document
or the one that records the failure. The code holds the draft's session-level
advisory lock across all of it, and every editor's transaction waits for that
lock, hence `AdvisoryFree`. When the recording transaction is refused the catch
block undoes attempt and draft in two autocommitted statements. A reconciliation
(`recon[r]`) takes the advisory lock only in its first transaction; its lookup
and its two updates run unlocked. The job is a session of its own: it picks an
old attempt, takes the draft's lock from whoever holds it, reconciles, and gives
the lock back. `wire` and `docs` are Xero: it keeps one document per idempotency
key (draft and document type) and refuses a number another document of that type
has. A crash ends a call anywhere; the database releases its advisory lock.

`BillingLedger` says what all this is for: a draft is open, sending, doubtful or
billed; it is revised only while open, billed once, with the content it was sent
with, and the prepaid hours are booked in the same step and never exceeded.
`Ledger` in `XeroSend` gives the refinement mapping.

### DraftLines

An entry is its place in the order of date and id, in which the code goes
through entries; `Imported` is what was stored of it. A key is a service and a
year; `Allowance[key] - used[key]` is what a usage row has left. `lines` are the
`quote_lines`: each has the hours of its entries (its snapshot), the key they
are covered by or `NoKey`, and quantity, unit, service and year with the source
of the rate. `overrides` is the last of the draft's events for each entry:
billable, rate, assigned service. Hours and rates are whole numbers; texts,
discounts and the dated periods of corporate records are left out, and amounts
but for the order they give to lines.

| Definition | Code |
|---|---|
| `ServiceOf`, `KeyOf`, `Left`, `Drawn`, `Parts` | `serviceForEntry`, `annualCoverageForEntry`, `splitEntryForAnnualCoverage` |
| `GroupOf`, `LineOf`, `AverageRate`, `LinesOf`, `Place`, `InOrder`, `Sorted`, `Aggregated` | `taskLineKey`, `buildAggregatedQuotePreview` |
| `From`, `StoredHours`, `Manual` | `storedDraftSourceEntries`, `storedManualDraftLines` |
| `SavedFor`, `KeepsQuantity`, `RateFromEntries`, `WithSettings` | `applyExistingLineSettings` |
| `Rebuilt` | `rebuildStoredDraftPreview` |
| `SetBillable`, `SetRate` | `updateQuotePreviewTimeEntryOverrides`, `updateQuotePreviewTimeEntryRates` |
| `UpdateLine`, `RemoveLine`, `AddManualLine` | the branches of `updateQuotePreviewMetadata` |
| `UsageChanges` | bookings of other drafts and edits of the usage row (`applyAnnualUsageDeltas`) |

Who may edit and the version of the row are `QuoteDraft`'s; each edit here is
one of its revisions. The walk over the entries is a recursive function
(`Drawn`), so that the module can be proved about; the stable sort and the
filters of lines are enumerations of a set by how many of its elements come
before each (`InOrder`).

### TeamworkSync

Callers are requests of the web process and the nightly job, a process of its
own (`ops/sync-teamwork-daily.sh` runs it in a second container that mounts the
same `data` volume). `tw` is Teamwork, `rows` the table, `file` the JSON store
and `memory` the `memoryStore` of the web process; what the job remembers dies
with it. A synchronisation takes the advisory lock and inserts its run, fetches
its windows one after the other (a refresh everything at once, the job a month
at a time), persists rows and run in one transaction, reads them back and writes
the store. A window is read in numbered pages of `PageSize` entries, in the
order of `Rank`, each cut from what Teamwork has when it is asked for, and
`MaxPages` at most. All processes write the store to one temporary file, `tmp`,
and rename it in a second step; the text is written in one step, so that two
writers' texts do not mix and nobody reads half of one. `Fails` ends it at any
step, a partial answer at the last window at the latest: the run is marked
failed, whatever it was, and the lock released. `Dies` ends it without either;
PostgreSQL frees the lock, the run stays `running`. A report with nothing in
memory waits for the file, then for the rows, which it writes back into the
file, and else synchronises. A push reaches Teamwork, is mirrored in the row, or
fails, in steps of its own behind the answer that queued it.
`runs[r].throughout`, `runs[r].slipped` and `quiet` are history: the entries
that were at Teamwork all through a run, those that a deletion moved from the
page to be read next onto one that was read, and whether nothing has changed
since a synchronisation began.

| Action | Code |
|---|---|
| `Begin`, `Blocked` | `syncTeamworkStore`, `acquireTeamworkSyncLock`, `createTeamworkSyncRun` |
| `FetchPage`, `Whole` | `fetchReconciliationData`, `fetchAllPages` |
| `Persist`, `ReadBack`, `WriteStore`, `RenameStore`, `Fails` | `persistTeamworkStoreToDatabase`, `readTeamworkStoreFromDatabase`, `writeTeamworkStore`, `failTeamworkSyncRun` |
| `ReadFile`, `FileIsRead`, `ReadRows`, `RestoreStore` (`WriteRestored`, `RenameRestored`, `RestoreFails`), `ReportNeedsSync` | `readTeamworkStore`, `ensureStoredData` |
| `Refresh`, `Nightly` | `refreshStoredReportingSummary`, `runScheduledTeamworkSync` |
| `QueuePush`, `PushReaches`, `PushFails`, `PushIsMirrored` | `queueBillableStateSyncToTeamwork`, `syncBillableStateToTeamwork` |

The module takes the default start date for the first of the year and a
configured database for granted. `runIncrementalTeamworkSync` has no caller and
is left out; the retries of the nightly job are further synchronisations.

### AnnualCells and AnnualUsage

A key is a client, a service, and a year or a period of coverage. `rows` are the
active rows of `annual_invoice_usage`; `at` orders them as `updated_at` does. The
page keeps what it last loaded or saved (`usage`), what stands in its inputs
(`shown`, `dated`), a version per cell and the autosaves that are due. Its
requests and their answers travel in `net`, are taken in any order, and may be
lost; each handler is one transaction on the client's rows, hence one step. A
script is one transaction too, but READ COMMITTED and without the client's lock:
it looks its cells up one after the other, locks the rows it finds and writes,
while pages and drafts go on beside it; they wait only for the rows it holds
(`Locked`, `Held`), and see what it wrote when it commits. `plan` is
what the draft at hand takes from an allowance. `Detected` are the periods that
tasks of Teamwork name, which the page lists before there is a row. Workbooks are
sheets of names, services, years and hours: how a label is recognised is a field
of its title.

| Definition | Code |
|---|---|
| `TitlePeriod`, `Overlaps`, `DatedKey` | `parseMaintainCorporateRecordsPeriod`, `annualServicePeriods.js` |
| `ImportClient`, `MatrixImport`, `RowImport`, `Import` | `import-annual-invoices.mjs` |
| `ReconcileClient`, `ReconciledCells`, `Reconcile` | `annualReconciliation.js`, its script |
| `ScriptTakes`, `Written`, `ScriptCommits`, `ScriptFails` | `upsertCells`, `applyCells` |
| `ServerLists`, `ServerSaves` | `listAnnualInvoices`, `updateAnnualInvoiceUsage` |
| `Type`, `TimerFires`, `Blur`, `BlurDated`, `PageShows`, `PageSaved`, `PageSavedDated`, `OpenTab` | `AnnualInvoicesView` |
| `Prepare`, `Booking` | `loadAnnualUsage` with its insertion, `applyAnnualUsageDeltas` |

### XeroConnection and XeroReference

`rows` are the connections, a row for a tenant, of which `latest` is the one the
code picks. A refresh token is a number; `usable` are those Xero takes. A caller
asks (`Access`), is ready, has failed, only prepares, or renews: it sends the
token it read, Xero answers with a successor (`XeroRotates`), without one
(`XeroKeeps`), refuses, or answers into the void (`RefreshAnswerLost`), and the
answer is stored in a later step, over whatever the row is by then. `orphaned`
are tokens spent for a successor nobody kept. `Exchange` is the callback of an
authorization. `XeroReference` fetches its collections by callers of its own,
contacts first, then all others at once, page by page (`Fetches`, `NotFetched`),
and stores what came in one transaction. A collection that met no connection
counts as empty, and one with more than `MaxPages` pages (two hundred) as whole
with what came. Kinds of entry in `Unlisted` (accounts that are not ACTIVE) are
stored and not shown (`Shown`, `xeroReferenceRepository.js:363`); a collection
without pages is fetched in one step.

### DocumentStatus and Reporting

Polls of the timer, which waits for no earlier one (`Timers` are those under way
at once), and of a user run side by side: each takes its documents one by one,
waits for Xero, then for the database (`Fetch`, `StoreStatus`), records its run
and, by the outcome, resolves the incident or looks back on the last runs and
opens it (`RecordRun`, `Resolve`, `LookBack`, `OpenIncident`). A poll of the
timer that the database refuses (`PollBreaks`) leaves two calls that nobody
waits for, which come in any order (`FailureRecorded`, `FailureAlerted`); the
database may refuse any of the calls at the end of a poll (`CallRefused`).
`excused` is history: since the last run without success was recorded somebody
resolved the incident, or an exit or the database kept the poll from opening it.
`Reporting` adds where hours come from: `table` are the time entries, `drafts`
the lines of each draft from its generation on, `writeOffs` what a send wrote
off. `Send` is the last transaction of a send only; how it gets there is
`XeroSend`'s. `Prepaid` are the prepaid hours of a report: confirmed by
invoices, or estimated for entries that no allocation and no write-off accounts
for.

| Definition | Code |
|---|---|
| `TimerPolls`, `PagePolls`, `Fetch`, `StoreStatus` | `startXeroStatusPoller`, `syncXeroDocumentStatuses` |
| `RecordRun`, `Resolve`, `OpenIncident`, `FailureRecorded`, `FailureAlerted` | `recordOperationRun`, `resolveAlertIncident`, `openAlertIncident` |
| `Generate`, `LinesOf` | `createQuotePreview`, `buildAggregatedQuotePreview` |
| `Represented`, `WrittenOff` | `recordInvoiceWriteOffAllocations` |
| `Allocations`, `WriteOffs` | the queries of `reportingClassificationRepository.js` |
| `Prepaid` | `buildReportingClassifications` |

## Runs

| Run | Instance | What it shows |
|---|---|---|
| `draft_client` | 1 draft, 2 tabs, 3 versions, 1 preview on its way | a version a tab sends names the content it shows; nothing older is painted |
| `xero_send_editors` | 1 draft, 2 editors, 2 types, no job; one send and one reconciliation may die | types; an archived draft has no editor, no lock is stolen, contents change with the version under one holder; an uncertain send keeps the draft closed; `not found' is right; a send finds the draft it read; the ledger is implemented |
| `xero_send_job` | 1 draft, 1 editor, the job; one send may die; Xero may get requests late | an unresolved draft has an attempt a reconciliation accepts, and is settled in the end, while its hours are not used up; the ledger is implemented |
| `xero_send_books` | 2 drafts of one number, 1 editor and the job, prepaid hours for one; one send may die | the books balance, also when the hours are refused after Xero accepted the document |
| `draft_lines` | 3 entries of 2 tasks, 2 prepaid hours, 3 edits, 1 manual line | snapshots keep every hour until a line is removed and never bring it back; allowances are applied in order; untyped rates are averages; typed settings survive rebuilds |
| `teamwork_sync` | 3 entries in 2 months, pages of 1 and at most 2, 1 request and the job, 2 synchronisations, 1 change, 1 death | one synchronisation at a time; a store, however it came about, has all it claims to cover but for what slipped between two pages; an undisturbed synchronisation leaves rows, file and memory as Teamwork has them; the lock comes free |
| `annual_usage` | 2 clients, 2 services, 2 years, a period over half of both; 2 changes typed, 3 requests, 2 drafts, sends and scripts | what is typed is not replaced by the answer to an earlier save; a covered draft can be booked while its row is as it saw it; used hours leave only by a save that finds their row or by a script; a script that commits with no rows added beside it restates its cells, whatever was there, and changes nothing when it is run again |
| `xero_connection` | 2 tenants, a send and 2 collections, 2 pages of 1, an archived account, 3 tokens, 1 synchronisation, 1 exit, 1 change | no renewal overwrites a live refresh token with a spent one, and none is sent empty; a fresh cache was fetched to the last page asked for; an undisturbed synchronisation shows Xero |
| `reporting` | 4 entries on 2 days, 2 drafts, 6 prepaid hours; 2 edits, or 1 or 2 sent documents polled by 2 polls of the timer through 2 moves, 1 request, 1 outage, 2 refusals of the database or 1 exit | three scheduled runs without success leave an incident; documents catch up with Xero; billed and written off come to the hours of an entry |

`TypeOK`, `ArchivedHasNoEditor`, `LockIsNotStolen`, `EditingPausedInDoubt` and
`NotFoundMeansNotSent` are checked of editors only, in the run without the job,
and three of them do not hold with it: the job replaces a holder of the editing
lock (`quotePreviewRepository.js:3954`), and its reconciliation may overlap an
editor's and a later send. `NotFoundMeansNotSent` supposes besides that Xero
gets no request after its time ran out (`LateDelivery = FALSE`).
`UnresolvedGetsSettled` excepts drafts whose hours other documents have used up,
which the single draft of `xero_send_job` never meets: such a draft is not
settled, as told below.

Three runs check what the repository says and the code does not do; TLC finds
each violated, and `findings` quotes both sides.

| Run | What TLC finds |
|---|---|
| `client_overwrite` | a save refused for the lock is sent again with the version the reacquisition brought, and replaces an edit its tab never showed |
| `send_duplicate` | a draft whose document was found is editable before it is recorded; a change of its type makes a second document |
| `draft_lines_hours` | a rebuild keeps the quantity of a line nobody typed although the split over the allowance moved, so that hours are billed twice or not at all |

### More disagreements

These show with other constants or a property that a module states and no run
checks, or are steps of a model that its properties except.

Drafts, sending, synchronisation:

- A reconciliation that dies between its two updates
  (`quotePreviewRepository.js:3876`, `:3887`) leaves a draft that is unknown with
  a failed attempt, which nobody can edit or reconcile, although the comment at
  `:3803` has the record closed with it: `MaxReconcileCrashes = 1` with the job
  in `XeroSendJob.cfg`, `UnresolvedIsReconcilable`.
- After the nightly job the web process still reports the store it remembers
  (`teamworkStore.js:17`), beside the job's time of success (`App.jsx:1516`);
  `INVOICE_INTEGRATION_PLAN.md` has the dashboard read the file.
  `ShownIsLastSynced` of `TeamworkSync` states it.
- Two drafts of one number (`CHANGELOG.md:60` lets unsent drafts share one): the
  lookup goes by number and type (`quotePreviewRepository.js:3868`), so the
  reconciliation of a send that never reached Xero finds the document of the
  other draft and records it. `LedgerNamesOwnDocument`, `Allowance = 2` and
  `JobRuns = FALSE` in `XeroSendBooks.cfg`.
- A request with a document type of its own is looked up under the draft's
  (`quotePreviewRepository.js:3870`), nothing is found, and the editor is told
  so: `TypeOverride = TRUE` in `XeroSendDuplicate.cfg` and `NotFoundMeansNotSent`.
  A request that Xero gets after the lookup has the same effect
  (`LateDelivery = TRUE`).
- An editor and the job may reconcile one draft at once: the slower one's two
  updates unlock a draft that was sent again meanwhile
  (`quotePreviewRepository.js:3888`), although "Editing is paused until
  reconciliation confirms whether the remote document exists" (`App.jsx:3962`):
  `JobRuns = TRUE` in `XeroSendDuplicate.cfg` and `EditingPausedInDoubt`.
- The annual hours are checked after Xero accepted the document
  (`quotePreviewRepository.js:3618`). When another document has used them up by
  then, a reconciliation finds the document, its record is refused
  (`:2132`), the attempt is unknown again, and the job starts over every five
  minutes, without end and with editing paused: `PauseEnds` under `FairSendSpec`
  with `Number <- OwnNumber` and no crashes in `XeroSendBooks.cfg`.
- An entry deleted at Teamwork while the pages of a window are read moves the first
  one of the next page onto the page that was read: it is missing from rows and
  store, and the run counts as complete, since `partial` looks at the number of
  pages alone (`teamworkClient.js:131`). `StoreHasAllOfItsRun` in
  `TeamworkSync.cfg`.
- A manual covered line takes the allowance as the books have it and ignores
  what the draft's other lines cover (`quotePreviewRepository.js:2678`); those of
  corporate records have no period in their snapshot (`:2697`).
- A synchronisation that fetched an entry before a push reached Teamwork and
  persists it after the push was mirrored undoes the mirror until the next one
  (`teamworkRepository.js:334`); two pushes of one entry may end in different
  orders at Teamwork and in the row (`index.js:86`).
- A synchronisation that fails after its transaction (`reportingService.js:403`)
  marks a completed run as failed; a store restored from it meanwhile stays. One
  cause is the temporary file all writers share (`teamworkStore.js:33`): another
  may have renamed it.
- A report waiting for the file assigns `memoryStore` after a refresh did
  (`teamworkStore.js:18`), and one that restores from rows may replace the file
  of a later run.
- A refresh whose range ends in the past makes the coverage of later reports end
  there until the next synchronisation (`reportingService.js:531`). Entries
  deleted at Teamwork keep their rows.
- `PreviewAnswered` sets the version of a tab back (`App.jsx:3789`): a tab that
  shows the latest draft is then told, on its next save, that it changed in
  another tab.

Annual hours:

- Leaving an input of a dated allowance always saves, also hours it was loaded
  with before a send booked others (`annualInvoiceRepository.js:298`), and for
  the year of the tab.
- A save of a calendar cell asks for no empty coverage when it looks for its row
  (`annualInvoiceRepository.js:267`): it may take a dated one that a draft set up
  since the page was loaded, write its own hours and clear the period (`:298`),
  and the next draft then sets the dated allowance up again, with nothing used
  (`CHANGELOG.md:88` has the two kept apart). `PeriodsKeepTheirHours` in
  `AnnualUsage.cfg`; `HoursLeaveByHand` excepts it as `OverwrittenByYear`.
- A page or a draft that adds a row to a cell the import has found empty leaves two
  rows of the cell (`import-annual-invoices.mjs:500`), which `ScriptsRestate`
  excepts (`Undisturbed`). Of two dated rows of one year the import deactivates
  one, with its used hours.
- Autosaves are unordered at the server, so the last one typed need not be the
  last one stored; typing a saved value back while another save is under way is
  skipped as saved. The answer to a dated cell, and the list of a load, replace
  what was typed since; two loads of different years under way take turns with
  the tab.
- The form of a client without dated rows shows twelve hours and saves none.
- Of several calendar rows of a cell the page and a draft keep an unspecified
  one, while a booking takes the newest.
- Import and reconciliation match names differently (`ImportClient`,
  `ReconcileClient`); the hours the reconciliation starts from include those of
  drafts not yet sent.

Xero:

- A renewal under way while somebody disconnects sets the row to connected again;
  without a new token it leaves a connected row that has none. One of a former
  tenant makes it the latest again after another was connected.
- The slower of two renewals is refused and its call fails; the connection
  survives (`RowIsAlive`). A successor that is lost on its way ends the
  connection until somebody connects again.
- A synchronisation during which the tenant changes stores a mixture, and nothing
  removes what another tenant listed, or what vanished at Xero. A cache that is
  fresh shows the former tenant until its TTL passes.
- A collection of more than two hundred pages is stored as whole
  (`xeroClient.js:541`), and the synchronisation says it succeeded; what is behind
  stays as an earlier one left it.
- `tenant_id` is not unique: two callbacks at once may insert two rows.

Documents and reports:

- Nothing keeps two drafts from billing the same entries, which
  `INVOICE_INTEGRATION_PLAN.md:148` and `:254` want to be warned about; a report
  counts them in both. So does one written off with an invoice and billed by
  another.
- A send writes off hours that were logged after its draft was generated, and
  entries with an invoice of Teamwork's.
- A report gives a service no used hours
  (`reportingClassificationRepository.js:171`) and lets entries no invoice accounts
  for draw on the whole allowance, whatever invoices have drawn for later ones: six
  hours are shown as twelve, "Billable time covered by a prepaid allowance"
  (`App.jsx:430`). `PrepaidIsCovered` in `Reporting.cfg`.
- When an invoice is voided its hours are no longer confirmed but its write-offs
  stay, and an entry with one is not estimated again.
- A line with entries inside and outside the range of a report goes to those
  inside as a whole: months do not add up to their quarter. A voided document,
  and the source hours of a line of quantity zero, stay in the document aggregates.
- A user's poll of all documents counts as a scheduled run; one that finds no
  connection skips everything, is complete and resolves the incident, as does a
  successful poll of a single document.

### Bounds

`MaxVersion` ends the edits of a draft, `LockTtl` is the number of clock periods
of a lock (1: a lock is fresh or gone). `MaxSends`, `MaxSendCrashes` and
`MaxReconcileCrashes` bound how often an editor sends and how many calls die,
`MaxPreviews` the previews on their way, `MaxEdits` and `MaxManual` the edits
and manual lines of `DraftLines`, `MaxRuns`, `MaxChanges` and `MaxCrashes` the
synchronisations, the edits and pushes at Teamwork, and the processes that die.
`PageSize` and `MaxPages` are a hundred (or more) and two hundred in the code;
with one and two an entry may slip between two pages, and the third of a window
is cut off.

In `AnnualUsage`, `MaxTyped`, `MaxRequests` and `MaxRuns` bound what is typed, the
requests of the page, and the drafts, bookings and scripts together; in
`XeroConnection` `MaxTokens` and `MaxRestarts` the tokens Xero issues and the
exits; in `XeroReference` `MaxSyncs` and `MaxChanges`. `left` gives `Reporting` a
budget for each thing that may happen: `MCReporting` spends it on edits of drafts
while nothing polls, or on polls of two documents already sent, because reports
do not read incidents and polls do not read drafts; what they share, the standing
of a document, changes in the second.

Two versions are enough for an edit between two steps of a send, three for an
edit of each of two tabs; two drafts for two of them to compete for hours or
numbers; two sends for a stale call to meet a later one. Three edits are enough
to split a line, type on a part and merge again; two synchronisations for one to
be refused, failed or overtaken by the other, with an entry at the end of a
month and one at the start of the next for the windows. Three requests let a
save and its answer pass a load and another save; two runs a script beside a
draft, a draft and its booking, or a script run again. Three tokens are the
first of a tenant, its successor, and one more by a second renewal or another
tenant; a contact to a page makes the contacts come in two pages, and cuts a
third off. Three `Cycles` are the code's. Entries start billable or absent
(`Initial`), as no step tells the two billable states apart. Symmetry is used
over sessions (and drafts) that the instance does not tell apart, in runs
without liveness. `VIEW WithoutHistory` drops from the states of `draft_client`
the content an edit was composed on, which no step and no property of that run
reads.

### Fairness

`SendFairness` is weak fairness of each step of a call that is under way (a
running process goes on; the request or lookup is answered or times out) and of
ageing, and it asks for the job's picking: cron runs it every five minutes
(`docs/OPERATIONS_RUNBOOK.md:35`). Strong fairness of a lookup says Xero answers
a reconciliation that is tried again and again; strong fairness of the job's
first transaction says it is reached at some time within the ten minutes of the
lock it has just taken. `TeamworkSync` asks weak fairness of `SyncStep`: a
synchronisation under way goes on, its requests being answered or timing out and
its statements ending. `StatusFairness` asks the same of
the timer, which fires as long as an interval is configured, and of each poll under
way, whose requests and statements end or are refused; that Xero answers from
some time on is a premise of `StatusCatchesUp`, not an assumption. No fairness is
asked of editors, of acceptance, of crashes, or of anything a property does not
need.

## Proofs

All theorems hold for every value of the constants that satisfies the named
assumptions; tlapm checks every leaf. Two of sending have a hypothesis besides,
given in the table, and each is needed: "More disagreements" has the constants
that break the property without it. The inductive invariants were checked with TLC on
the instances of the runs before they were proved.

| Theorem | Statement | Argument |
|---|---|---|
| `DraftClientProofs!TypeCorrect` | `Spec => []TypeOK` | inductive as it stands; one lemma for each way a row is written |
| `ArchivedDraftsHaveNoEditor` | `Spec => []ArchivedHasNoEditor` | inductive with `TypeOK`: archiving releases, granting needs an unarchived row |
| `LocksAreNotStolen` | `Spec => LockIsNotStolen` | each action that grants requires the row unlocked or held by the caller; ageing and releasing only end locks |
| `RevisionsGetVersions` | `Spec => RevisionsAreVersioned` | only `Revised` changes the content, under `MayMutate` |
| `ClientTypeCorrect`, `VersionsNameContents`, `TabsNeverGoBack` | `ClientSpec => []ClientTypeOK`, `ClientSpec => []SameVersionSameContent`, `ClientSpec => NeverRepaintsOlder` | from `ClientInv`, below |
| `DraftLinesProofs!DraftLinesTyped`, `SnapshotsKeepHours`, `EntriesRatesAreAverages` | `Spec => []TypeOK`, `Spec => []SnapshotKeepsHours`, `Spec => []EntriesRateIsAverage` | from `LineInv`, below |
| `RemovedHoursAreGone`, `AllowancesGoInOrder`, `TypedSettingsStay` | `Spec => RemovedHoursStayRemoved`, `Spec => AllowanceGoesInOrder`, `Spec => TypedSettingsSurvive` | from `LineInv` and what a rebuild makes of any lines, below |
| `XeroSendProofs!SendTypeCorrect` | `SendSpec => []SendTypeOK` | one lemma per group of actions |
| `SendsAreFrozen` | `SendSpec => []FrozenWhileSending` | inductive with `SendTypeOK`: what changes a draft's version, content, archive flag or status needs `AdvisoryFree` or is the send itself; reconciliations and the job touch only lock and send state |
| `SendingImplementsLedger` | `SendSpec => ImplementsLedger`, the refinement of `BillingLedger` | step simulation from `SendTypeOK`, `FrozenWhileSending` and `BilledIsFinal`, below |
| `BooksAddUp` | `SendSpec => []BooksBalance` | `BooksInv`: each ledger step that bills adds one draft to the sum |
| `UnresolvedCanBeReconciled` | `SendSpec => []UnresolvedIsReconcilable`, if no reconciliation dies half-way (`MaxReconcileCrashes = 0`) | `NamesAttempt`: an unresolved draft's attempt is open, or a reconciliation is about to settle the draft |
| `EditingIsPausedInDoubt` | `SendSpec /\ []OneAtATime => []EditingPausedInDoubt`, with or without the job: no two calls reconcile one draft at once | `PauseInv`, below |
| `TeamworkSyncProofs!SyncTypeCorrect` | `Spec => []TypeOK` | from `SyncInv`, below |
| `StoresCoverTheirRuns` | `Spec => []StoreCoversItsRun` | from `SyncInv`, below |
| `QuietSyncsShowTeamwork` | `Spec => QuietSyncShowsTeamwork` | `QuietOK` with `SyncInv`, below |
| `XeroReferenceProofs!ConnectionIsTyped`, `ConnectionStaysAlive` | `Spec => []ConnectionTypeOK`, `Spec => []RowIsAlive` | from `ConnectionInv`, below |
| `QuietSyncsShowXero` | `Spec => QuietSyncShowsXero` | `FetchInv`, below |
| `FreshCacheIsRecent` | `Spec => []FreshIsRecent` | `CacheInv`: a recent row was stored with its whole collection, and a collection that met no connection has no items; `StoredAssumption`: what was there at first is old |
| `ReportingProofs!AlertComes` | `Spec => []AlertAfterThree`, for any `Cycles` | `AlertInv`: runs that call for an alert have one, are excused, or some poll is about to look or to open it; the latest run is the first looked at |
| `InvoicesAccountForHours` | `Spec => HoursAreAccountedFor` | `ReportInv`, below |
| `AnnualUsageProofs!TypingIsKept` | `Spec => TypedIsKept` | `TypedInv`: an autosave that is due has the latest version of its cell, and every save under way an earlier one; `DetectedAssumption`: periods that tasks name are periods |
| `TableIsSound`, `PreparedDraftsBook`, `ScriptsLeaveOneRow`, `UsedHoursStay` | `Spec => []UsageTypeOK`, `Spec => []PreparedIsBookable`, `Spec => []ScriptsRestate`, `Spec => HoursLeaveByHand` | `UsageInv`, below |

The refinement goes through what a step may do to what the ledger
looks at: status, content and send state of the row, the ledger entry, whether a
send is past the advisory lock, and the hours used (`LedgerStep`: one draft is
edited, begins, ends, is settled or billed, the others stand still). One lemma
per group of actions shows that every step of `SendNext` is one of these; from
there the steps of the ledger follow without looking at an action again. Three
facts are needed of the state: that an editable draft has no ledger entry
(`BilledDraftsAreFinal`, itself by `LedgerStep`), so that an edit is one of an open
draft; that a draft under way is still what the send read (`SendsAreFrozen`), so
that what is billed is what the draft shows; and the types. `BooksInv` follows
from the same steps.

The sums of the community modules are folds, and the folds recursive functions.
`SumTheorems` shows that such a function exists, by well-foundedness of the
inclusion of finite sets, and from it that a sum is a number, that one more index
adds its value, that sums of smaller functions are smaller, and that a sum is one
of sums over the parts of its set; the induction over
a set of numbers is stated for the set of numbers at which a claim holds, which
needs no operator as a parameter. `GreatestNatural` gives the maxima and
`ImageFinite` the finiteness of images.

`PauseInv` says why nobody can edit while a request is in doubt although a
reconciliation writes its two updates without the advisory lock. One that is yet
to settle its draft relies on the draft being unresolved, on no send under way
and on the attempt being the one it read (`Relies`): what unlocks the draft is that
reconciliation itself, since by hypothesis there is no other, and nobody edits,
archives or sends an unresolved draft.

`SyncInv` strengthens the two of `TeamworkSync`. What a store covers depends on
the rows and runs it was read from, and these on what had been fetched, so the
invariant follows an entry all the way: a synchronisation not marked partial has
what was there throughout for every window fetched, and of the window at hand
what is on the pages read, unless it slipped (`FetchOK`, by the position of an
entry among those of its window: a deletion moves those after it forward by one,
so only the first of the next page gets onto one that was read, and that is what
`slipped` collects; what is added moves others back); every completed run has
left rows for its entries (`RowsOK`), which later merges and mirrored pushes
never remove; and every store in file, temporary file, memory or the hands of a
caller is good for the run it names (`StoresOK`), because the latest complete
run is a complete one (`LatestRunIsComplete`, by well-foundedness, as the
maximum of a set is not defined by recursion). `ShapeOK` gives each caller the
record of its step. Runs only lose entries from `throughout` (`Evolves`), so a
store that is good stays good.

`QuietOK` follows a synchronisation during which nothing changed: its pages have
what Teamwork has, its run is the newest once complete (`NewestRun`), and so what
it reads back and stores is what it persisted (`UpToDate`).

`ClientInv` adds to the types of `DraftClient` what the property leaves out: a tab
sends no version above the one it shows, nor does a preview it waits for answer
with one, and a closed tab waits for nothing (`ClientFits`). Without the bound on
previews, an answer could lift `version` to the row's while the tab shows older
content. The row moves only forward and takes each content under one version
(`RowMoves`, from `StepsAreRowSteps`), so that what was
exact stays so, and merging never lowers what is shown (`MergedFits`).

`ConnectionInv` is needed because a stored answer overwrites a row that others
changed meanwhile. That its token is good rests on who else may know it: a new
token is usable, in no row, and nobody else has it or sent it (`NewIsUnknown`);
tenants' rows differ (`RowsDiffer`); and what an agent sent is in no row but the
one it was read from (`SentIsOwn`), so that when it stores the successor no other
row is left with a spent token. A row that is disconnected has none (`RowsHold`).

`FetchInv`: as long as nothing changes, what a collection has fetched is a
prefix of what Xero lists for the connected tenant (`PageExtends`: a full page
continues it, another ends it, and so does the last one asked for), whoever's
token its next page goes out with; a collection is being asked for only in its
phase, so that nothing is fetched after it was stored; and without a connection
there is nobody to show. `ListsAssumption`: Xero lists an id once, and none of
the sheet's, which begin with `sheet:` (`xeroReferenceRepository.js:136`,
`:307`).

`ReportInv` keeps the lines of a draft sound from its generation through its edits:
each has hours of entries that were there, and its covered part no more than its
hours. That a send accounts for an hour exactly is then a matter of sums
(`SumByGroup`: the hours of the entries of a draft are those of its lines). The
assumptions say that entries and drafts are finite and hours numbers.

`UsageInv` is `TypedInv` with the table, the page and the plan. Rows carry the
time of their writing and the newest of several exists because none is later
than `now`; a dated row belongs to corporate records and is the only one of its
allowance, since every handler that inserts one has looked for it first; an
import keeps only the coverage of a row it removes, and no two of its cells
remove the same one; what a script has found for a cell stays in the table until
it commits, and where it has found or adds a dated row nobody else adds one
(`ScriptInv`); no column of a matrix is taken for corporate records (`IsMatrix`,
`matrixServiceKey` knows none); what the page holds or has on its way names
cells there can be. A plan takes no more hours than it saw (`PlanInv`). The
assumptions give years, clients, workbooks and typed values their types.

`LineInv` says of every line that it may be in a draft (`MayHave`: its hours are
hours of entries, none zero, and only billable lines are covered), that it agrees
with the overrides of its entries (`Agrees`) and has their average rate unless one
was typed (`RateIsAverage`); and the lines together keep the hours. The properties
of a rebuild follow from what an aggregation is. The walk over the entries has
drawn, at each, the smaller of what was asked for so far and what the books leave
(`DrawnIsMin`), so the parts of an entry add up to its hours and the covered ones
to the allowance. The sort puts every line made in exactly one place
(`AggregatedEnumerates`, because no two lines have the same `Place`, whose last
components are the first entry and whether it is covered). Hence every part is on
one line of its key and state (`Spreads`), and what a rebuild takes from the
lines it starts from is the sum of their snapshots (`StoredIs`). For typed
settings, a new line all of whose entries come from one line finds that line
(`SavedForIs`), by its key or as the only one that shares entries. The assumptions
type entries, allowances and edits: an entry has hours (one logged with none, whose
empty line the code keeps where nothing covers it, is left out), a key is a prepaid
service with a year, and an edit of a service carries the year it takes effect with,
which is the line's own where the request names none.

The safety and action properties of all passing runs are proved but for
`NotFoundMeansNotSent`, which is only model-checked, in the run of editors.
`HoursConserved` and the properties of the two other runs that find a violation
are false and stay findings. Liveness (`SyncsEnd`, `UnresolvedGetsSettled`,
`StatusCatchesUp`) is out of the prover's reach and stays with TLC.

## Plan

1. The incidents of the other monitors with their reminders, over
   `DocumentStatus`; sessions and the login limit of `auth.js`.

## Not modelled

In the components above: amounts, discounts and texts; the proof of an
authorization (cookie and state), of which one is under way at a time; a second
synchronisation of the reference data at once, and the pattern item codes have to
match; texts of two writers that mix in the temporary file of the store; an
order of rows by `created_at` where `updated_at` ties;
several projects and prepaid services in a report, and shares of a line that are
no whole units; the document aggregates; the overview of operations and
`ops/*.sh`, which read or wrap the rest.

Not planned at all: rendering, formatting, configuration, mail, migrations, deployment
and the other scripts of operations (the import and the reconciliation of annual
invoices are in `AnnualUsage`), and the audit trail, which nothing reads back.
