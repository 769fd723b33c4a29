# A TLA+ model of golieipp

golieipp is an IPP proxy: clients print to its queues, it forwards every job to
the queue's real printer, and it keeps a durable registry that ties its own job
numbers to the printers'. This directory holds the TLA+ development of that
program: modules, TLC configurations, and machine-checked proofs. `PROJECT.json`
maps every definition to the lines of Go it stands for, and lists the runs, the
mutants that show each property can fail, the hazards and the theorems.

## 1. Inventory

### Job registry (`internal/store/store.go`)

State: one SQLite table `jobs` behind a pool of one connection, so every method
is atomic. A row is `reserved`, `mapped`, `uncertain` or terminal; it carries the
queue, the requesting user and job name, the printer's job number and URI, the
document count, the last state observed at the printer, a retention stamp and two
reconciliation clocks.
Operations: `Reserve*`, `MarkMapped`, `MarkUncertain`, `MarkTerminal`,
`UpdateState`, `UpdateObserved`, `UpdatePayloadMetadata*`,
`ReconciliationCandidates`, `MarkReconcileAttempt`, `CleanupExpired`, the lookups
and lists.
What makes it correct: a printer job belongs to at most one remembered job of its
queue; a mapping never changes; terminal is final and its retention period is not
restarted; a row is scheduled for reconciliation exactly while it is uncertain;
the backoff stays in bounds; only terminal rows past retention are deleted.

### IPP job handlers (`internal/proxy/service.go`)

State: none beyond the request, but a handler reads a row, exchanges messages with
the printer for up to ten minutes, and then writes to whatever the row has become.
Operations: Print-Job, Create-Job, Send-Document, Get-Job-Attributes, Cancel-Job,
Close-Job, Get-Jobs, Cancel-My-Jobs.
Hard: concurrent requests on one job, an exchange that fails after the printer
acted, a request that arrives after the proxy gave up, a registry write that fails,
a process death at any point.
What makes it correct: a job is attached to the printer job submitted for it; no
reservation is left without an owner; an accepted job is never recorded as
rejected; a job is reported finished only when the printer is done with it.

### Payload slots and staging (`service.go`, `payload.go`)

State: a counter per queue. A payload handler that finds no free slot is answered
"busy". Correct when every return path gives the slot back.

### Maintenance and reconciliation (`service.go`, `StartMaintenanceLoop`)

State: one goroutine with a ticker. A pass sweeps expired rows, reads a page of at
most 100 due uncertain rows, the mapped rows and the recent cancellations, asks
each of their queues for its jobs once, and applies the answer row by row.
Hard: it works from a snapshot while handlers run; it identifies a job it has no
number for by name and user; its page is bounded.
Correct when it attaches no job to another's printer job, brings back no terminal
row, and gives every due row its turn.

### Capability refresh and readiness (`service.go`, `refreshOne`, `readyz`)

State per queue: a refreshing flag, the last capabilities and model, health, the
configuration epoch. Correct when one refresh per queue runs at a time, the epoch
only grows, and a queue is published exactly while it is ready.

### DNS-SD publication (`internal/dnssd`, `syncDNSPublication` and the retries)

State: the entry group at the Avahi daemon, the records it was made from, a retry
flag per queue, two kinds of retry goroutine, the closing flag.
Hard: the daemon restarts and object paths become stale; a withdrawal retry does not
look at readiness again; both kinds of retry share one flag; shutdown waits for all.
Correct when the announcement eventually follows readiness, the publisher's snapshot
is what the daemon announces, and the group is gone after `Close`.

### Statistics (`internal/stats`)

State: a bounded channel to one writer goroutine, batches retried three times,
checkpoints and rollups per job, leases on buffers and files.
Hard: senders race with `Close`, observations arrive out of order, a batch is retried.
Correct when each record is written or counted as dropped, once, and the rollups
are the sum of the jobs' contributions.

### URF translator (`internal/urf`, `translatePayload`)

A streaming decoder with limits, which writes to a staging file and patches it at
the end, and charges what it holds to a span and its parent.
Correct when rows and repeats fill each page exactly, limits hold at their boundary,
a file with the PWG marker is complete, an error leaves no file, and nothing stays
charged.

### Capability model, routing and normalisation (`capabilities.go`, `profiles.go`, `routing.go`, `normalizer.go`, `airprint.go`)

Pure functions of one answer of the printer and one queue policy. State: the model a
refresh commits per queue, and the route that is stored with a created job.
Hard: a request takes the service's read lock several times (format check, route,
policy, attributes), and a refresh may commit another model between any two of them;
the document of a created job comes later still. Advertisement and routes are
computed by different functions from the same input.
Correct when nothing of a client's request gets past the policy at any depth, what is
advertised can be printed, and a document is translated for its own job.

### The rest

Protocol validation, DNS-SD records, configuration, identity, diagnostics, reports:
stateless or written once at start. `PROJECT.json` says of each why it is left out.

### How the parts interact

Handlers and the maintenance goroutine share the registry and nothing else; they
never hold a lock across a printer exchange. Handlers share the slot counters. The
refresh loop calls the DNS-SD publisher outside its lock; retries call it from
goroutines of their own. Every handler sends observations to the statistics
collector and never waits for it.

## 2. Modules

| Module | What it is |
|---|---|
| `JobStore` | the registry's methods as pure operators over the table |
| `JobLedger` | abstract: the life of a client-visible job |
| `JobRegistry` | the registry under any order of calls; implements `JobLedger` |
| `JobStoreProofs` | lemmas about the registry's methods, for the two modules that use them |
| `JobRegistryProofs` | the proofs about `JobRegistry` |
| `JobLifecycle` | handlers, registry, printers, network, slots, maintenance, process death; implements `JobLedger` |
| `JobLifecycleProofs` | the proofs about `JobLifecycle` |
| `ReconcileSchedule` | who gets a turn in the bounded page, over passes without end |
| `ReconcileScheduleProofs` | the proofs about it |
| `DNSPublication` | refresh, retries, the Avahi publisher, the daemon, shutdown |
| `DNSPublicationProofs` | the proofs about it |
| `JobAccounting` | what the statistics know of a job and what it adds to a day's totals, as operators; the totals' reference definition |
| `StatsCollector` | senders, the bounded queue, the writer with its retries, retention, `Close`, restart; uses `JobAccounting` |
| `StatsCollectorProofs` | the proofs about it |
| `SpanResources` | leases and peaks along a chain of spans, as operators |
| `URFTranslate` | `translatePayload` and `Translate`, byte by byte; uses `SpanResources` |
| `URFTranslateProofs` | the proofs about it |
| `CapabilityModel` | media catalog, policy projection, routes, advertised formats, profiles, as operators |
| `RequestNormalizer` | `NormalizeJobAttrsWithOptions` as operators over `CapabilityModel` |
| `JobRouting` | requests, refreshes and stored routes; composes the two |
| `JobRoutingProofs` | the proofs about the three |
| `MC*` | instances for TLC |

**JobStore.** A method `M` that returns an error is two operators: `MOK(rows, ...)`
(it returned nil) and `M(rows, ...)` (the table afterwards). Guards are the
`WHERE` clauses and early returns. `UpdateState` is modelled in the branch its only
remaining caller takes (the state "failed"). The `observed` column holds the printer's
job state, where "active" stands for all that are not terminal, or the status of a
rejected submission ("rejected" for all of them). Timestamps are integers. The table
is a function on 1..MaxJobs; "absent" marks a number without a row, and numbers
are not reused because the column is AUTOINCREMENT.

**JobRegistry.** One action per method the running service calls, arguments over
everything the service may pass. It does not know the handlers, so its properties
hold for any handlers, and the proofs need no invariant about requests.

**JobLifecycle.** A handler is split where another goroutine can run: at
`upstream.Do` and between two registry calls. `req[c]` holds what the handler
remembers across the split and where it is:

| `pc` | in the code |
|---|---|
| `staging` | slot taken, body read and perhaps translated |
| `sent` | in `upstream.Do` |
| `answered` | `upstream.Do` returned a usable response |
| `recorder` | the payload recorder could not be made |
| `unmapped` | `MarkMapped` failed or the printer named no job |
| `document` | about to count the document |
| `doubt` | the exchange failed, or the document could not be counted |
| `joining` | in the loop over the printer's job list |

The printers are external: `Accepts` says what a printer may do and answer, to a
submission (`Submitted`) as to a request about a job it has (`Served`).
`DoFails` may happen before the printer acted, after it, or with the request still
on its way (`late`). A maintenance pass is split at its registry calls and at its
query of each queue, and keeps snapshots as the code does: sets of rows, which the pass
works through in the order `Before`. For an uncertain row the attempt is recorded in one
step (`MaintenanceAttempts`) and the match applied in another (`MaintenanceMatches`),
because a handler may come between the two. The sweep and the read of
the candidates are one step: the sweep touches terminal rows only, the read uncertain
ones. The page's limit of 100 is left to `ReconcileSchedule`.
A crash loses everything but the registry, the printers, and requests on their way.

Assumed of printers: they do not reuse a job number, they report the name and user
they were given, and a printer that accepts a cancellation is done with the job.
Two variables are history: `lost` (jobs whose handler died or could not write) and
`crashes`.

**ReconcileSchedule.** The due rows in the order of their due time as a sequence, the
others with the ticks they have left. Keeping differences in place of times makes the
state space finite without bounding the clock, so fairness over endless passes can be
checked. `InOrder` and `Without` stand for the query's ORDER BY and its WHERE clause. A
request that was in flight when its row became uncertain may mark it again
(`MaxInFlight` bounds how many); Cancel-My-Jobs on a row already uncertain is left out
here (`JobLifecycle` has it).

**DNSPublication.** One queue that is configured for DNS-SD. A publication is a pair: the
subtypes and endpoint that need a new entry group when they change (`topology`), and the
TXT data that does not; `Nothing` stands for a queue that is not ready. `proc` is where
the refresh and the retry goroutine are and what they are about to publish. There is one
of each: the refreshes at start are over before the loop begins, and `dnsRetrying` admits
one retry of either kind. The publisher holds its mutex for a whole call, so `op` is the
call in progress, and each of its D-Bus calls is a step:

| `op.step` | in the code |
|---|---|
| `free` | `freeGroupBounded` in `Withdraw`, or before a rebuild |
| `connect` | `ensureBus` |
| `create`, `release` | `createGroup`, over the candidate names, and its deferred release of a group it gives up |
| `txt`, `rollback`, `discard` | `updateGroupTXT`: the update, `rollbackTXT`, the release of a group that could not be restored |
| `check`, `cleanup` | `Update` after a failed TXT update: `GetState`, and the release that may follow |

A call may fail with or without effect, at the price of one of `MaxFaults` faults; calls
under the caller's context fail for free once the service is closing. A restart of the
daemon or a collision costs a fault too. A call on a group the daemon has forgotten is
recognised as stale, and so is any later error of the same update, since
`isStaleEntryGroupError` looks at the text of the joined errors. `bus` is the connection:
once `BusLost` took it every call fails, and not as stale, until `ensureBus` makes a new
one, which `Free` does not ask for; the daemon frees the groups of a client that is gone.
`orphans` are the groups `createGroup` gave up and could not free, since it ignores the
error of that release; the publisher knows nothing of them. An update keeps the location
of the present publication and builds its records again (`Begin`), which may fail with an
error of its own. `Unfit` TXT data and locations are what
`BuildRecordsForProfiles` refuses. `torn` is history: an update of the present group
could be neither undone nor discarded. The signal context and the lifecycle context are one:
both end when the service stops. A refresh the printer does not answer changes nothing
here and is not a step. Left out: the branches of `Update` for DNS-SD switched off (the
service calls `Withdraw` instead) and the input error for an invalid public URI (fixed at
start).

**StatsCollector.** A record is an action or a snapshot of a job. A sender's call is
two steps, the check of `closed` under the read lock and the send, because `Close`
may want the write lock in between. The writer's loop is split at each attempt to write a batch:
`BatchCommitted` with its result lost is a commit the writer retries, `BatchFails` one
that left nothing. A transaction is one step; `healthRow` is the one row of counters it
writes beside the tables of `db`. Time is `today` and the number of records
made; a day is longer than all of them, and retention is counted in those units, so
a job can outlive its detail or its day's totals. Midnight comes between records, not
while one is in flight. A snapshot keeps one field for each group of columns that
`mergeJob` treats alike (the head of `JobAccounting` lists them). `written`, `dropped`,
`refused`, `lost` and `ledger` are history: which records ended where, and each job
merged from its snapshots. `persistAll` writes the records of a batch one after the other;
`Total` is the sum the totals of a day are compared with. `RetentionAssumption` asks that
detail is kept for ever or at least as long as a record can be on its way, in the model's
units a day: `Cleanup` would otherwise take the row by which `persistAction` recognises the
record of a batch that is tried again, and it would count twice. The default is 90 days and
retries take seconds; the configuration refuses only a negative value. `JobsAssumption` says what
`statsSnapshot` can put into a snapshot.

**URFTranslate.** One document from the request's staging to its `Close`. A read may
give everything, end early, fail or meet the input limit; a write may fail with or
without effect or meet the output limit; a cancellation is seen at each `checkContext`.
Bytes are counted, their content is kept only where the decoder looks at it: page
headers, repeat bytes and control bytes. The destination is its marker and its list of headers, each
with the offset it was written at, so that a page count patched at the wrong offset
is seen. A span's `chain` is the smallest set that holds the span and its members'
parents. A lease that the code releases with `defer` is released where the function
returns. Sizes wrap at `MaxUint64`, which is small. `appendCap` stands for the growth of a Go slice.

**CapabilityModel, RequestNormalizer, JobRouting.** An answer of the printer is a record
with None for an attribute it left out; names are short strings and compared as such (the
code ignores case). The four margins are one. An override is the set of the paths to its
attributes, of any depth, which is all that the recursive `dropNestedPolicyAttrs` tells
apart. The branch of `routeForRequest` for a queue without a capability model is left out,
for no request gets there: `ServeHTTP` refuses a queue without capabilities, and
`refreshOne` stores both under one lock and never deletes them. A handler is split at every lock it takes:

| `pc` | in the code |
|---|---|
| `format` | `validatePayloadDocumentFormat` of a Print-Job |
| `route` | `clientRoute`: before the normalisation in Print-Job, after it in the others |
| `policy`, `normalize` | the two locks of `normalizeJobRequest` |
| `submit` | `routePageSettings` with the attributes of that moment, then the request |

A row stores the kind of its route and its page settings, not the resolutions, which is
what `routeToStore` and `routeFromStore` do. `sent` is what reached the printer. The row's
own life, slots and failures are in `JobLifecycle`, the translation in `URFTranslate`.
Handlers touch each other only through rows, so one client beside the refresh loop is enough.

The catalog keeps the instances of all media as a family with an index (medium, instance),
which is the order the code appends them in. `matchingInstances` is the loop over the
printer's collections, `Picked` the filtering of a list, both recursive functions.
`forcedAttrs` is what the normalisation adds; it comes `Over` what is left of the request.
`KeepsPolicy` says of a job's attributes what the policy allows: of the names it controls or the
queue drops only those it adds, with its values, and nothing below an override.
`SizesOf` a medium are the size its name spells out and those of the collections
that give its name, which take precedence in the code; `PageFollows` compares page settings with
a job's attributes up to that choice. The policies are those a configuration can hold:
`applyMediaDefaults` promotes the old single `media` to a list of one, validation refuses an
empty list, a default that is not in it and an empty colour mode (`config.go`, lines 386,
430 to 450, 565 and 691 to 731), which is all that `PoliciesAssumption` asks.
`UpstreamsAssumption` and `NoneAssumption` only say that lists are lists and that None is
neither a medium nor a route.

## 3. Runs

The passing runs take from some seconds to about two minutes each with two workers.

| Run | Instance | Shows |
|---|---|---|
| `registry` | 1 queue, 2 jobs, 2 printer numbers, clock to 2 | the registry's invariants and action properties and that it implements the ledger, for every order of calls |
| `submit` | 2 queues with equal job numbers, 2 clients, 2 Print-Jobs, one of them without a name, late delivery, 1 crash, maintenance | jobs are attached to their own printer job or to one their name and user do not tell from it; a number is refused in that case only |
| `documents` | 2 clients on 1 job, 2 slots: create, send, cancel, close, get, Get-Jobs, Cancel-My-Jobs | reports applied late or row by row stay true; the ledger is implemented |
| `failures` | 2 clients on 1 job, 1 slot, failing writes, unnamed jobs, late delivery, 1 crash, fair | no orphaned reservation except where the outcome could not be written, accepted is not rejected; slots are given back and a queue out of slots gets one |
| `schedule` | 3 rows, 2 queues, one candidate per pass, fair | no row overtakes a due one, each pass brings its turn nearer, and every due row of an answering queue gets its turn |
| `dns` | 5 publications, 1 of them at another location, 2 changes of the printer, 2 faults of daemon or bus, 2 attempts, fair | record and announcement agree, the announcement follows the printer in the end unless a lost connection strands it, `Close` ends and leaves the publisher no group |
| `stats` | 2 senders, 1 job, 3 records, queue and batch of 2, 2 attempts, 2 faults of which 1 restart, 1 midnight, fair | each record is written once or counted as dropped, the totals of a day are those of its jobs, what is known of a job only grows and its state changes with later snapshots only, drops are in the database after `Close`, no record stays in the queue |
| `urf` | up to 3 pages of 2 by 1 pixels, 5 settings, 30 page headers, header sizes of a few bytes | no page decodes and no file grows past its limit, the marker means complete, leases match what is held |
| `routing` | 5 answers of the printer, 5 policies, 10 requests, 2 requests that reach the printer | nothing gets past the policy at any depth of an override, what is advertised can be printed but for the stated cases, documents are translated for their job |

Deadlock is not checked in the job runs, whose bounded instance stops when its job
numbers and clock are used up, nor in `dns` and `stats`, which end with `Close`, `urf`, which ends with its document, and `routing`, which stops at `MaxSent`. `schedule` checks it.

**Bounds.** Two clients are enough for each pair of handlers to interleave; the
maintenance pass is a third actor in every run. Two jobs and two numbers are needed
for a mapping to be wrong, one for everything that happens to a single row. In `submit` the
job without a name is told from no other by its user, the named one from every other: wrong
attachments happen, in one direction. A clock of
2 with `Retention` 1 lets a row expire; backoffs 1..3 double once and hit the cap, which
is not a power of two times the start. A page of 1 among 3 rows has the contention
that 100 among many has. In `dns`, two changes are what it takes for a queue to be
published, withdrawn and published again while an old retry is still on its way; two
faults let an update and its repair fail. In `stats`, three records are one more than
the queue and a batch hold, so a record can be waiting, in a batch and refused at once; two
attempts (the code makes three) are a retry and a last failure. In `urf`, the limits are
set so that a stream of three pages can meet each of them, and so that the sum of two
pages can pass `MaxUint64`. In `routing`, a creation and its document are the two
requests, with refreshes anywhere between their steps; the answers differ in whether
AirPrint is native, emulated or impossible, in colour, trays and media. Symmetry over clients is used in safety runs only; clients
do not occur in the ledger mapping.

**Fairness.** `failures`: a handler step is that of a running goroutine, and
`upstream.Do` returns within its 10 minutes (`upstream.go`, the client's `Timeout`).
A handler that reads its client's body (`staging`) gets no fairness: the server limits the
time for a request's header and not for what follows it, so a client may hold a slot as long
as it likes. `BusyEnds` says that nothing else can: a queue out of slots gets one back, or
all of its slots wait for such clients. Printers and maintenance get no fairness there. `schedule`: the ticker of `StartMaintenanceLoop`
runs as long as the process, and time passes. Rows are never assumed to settle. `stats`:
the writer goroutine runs, its ticker fires and an attempt to write ends (an SQLite
statement returns, if with an error, once the busy timeout of 250 ms is over); a sender that holds the read lock goes on. Nobody is assumed to
call `Close`. `dns`:
the refresh ticker and the retry timers fire and the printer answers; D-Bus calls return or run into their
timeouts; Go's mutex does not starve a waiter, so `Begin` is strongly fair; `Close`
proceeds once its wait groups are empty. That faults and changes of the printer end is
the bound's doing, and `AnnouncementFollows` is about what happens once they have.

### What the code does differently from what is said of it

Three runs expect a violation; each is a statement from the repository.

- `second_document`: README "A second document is rejected". Two Send-Document
  requests both read the row before either has counted its document; with the
  default of two slots both reach the printer.
- `canceled_follow_up`: `service.go` "Give recent cancellations two normal
  maintenance intervals". The pass filters on the lifecycle state `canceled`; an
  accepted cancellation is stored as `terminal` with the observed state `canceled`,
  so none is selected.
- `dead_queue`: IMPLEMENTATION_REVIEW "an old batch cannot starve newer uncertain
  rows". Rows of a queue that does not answer are skipped before their attempt is
  recorded, keep their due time and can fill the page.

Met while modelling, and stated here without a run:

- IMPLEMENTATION_REVIEW says that uncertain jobs are reconciled "only on a unique identity
  match". It is unique among the printer's jobs, not among the rows: when a user prints the
  same file twice and only one submission reached the printer, the other's uncertain row is
  attached to it, and if the printer's answer to that one is still on its way its own row
  finds the number taken. `MappedToAlike` and `CollisionsAreAlike` say that this is the only
  way to a wrong attachment or a refused number, for any names.
- `publisher_avahi.go` says "A partially restored EntryGroup must never be retained as the
  current publication". When rollback and release both fail, `Update` asks for the group's
  state and keeps the group because it is established, with old TXT data, new or both. It
  takes three faults in one update, so no run of two faults meets it, and no proof for any
  number of faults can pass over it: `torn` records the case, `CurrentIsAnnounced` excepts
  its TXT data, and the theorem shows that it is the only exception and that the group's
  structure agrees even then. The next successful update mends it. A lost connection makes
  the calls after it fail for free, so one loss is enough; the group is then gone as well.
- `publisher_avahi.go` says that an update whose cleanup fails keeps its snapshot so that "no
  object path is silently leaked". `createGroup` takes no such care: its deferred release ignores its own error, so a committed group may stay announced, and `Close` returns
  without an error. `ClosedIsSilent` is about the publisher's own group; `orphans` keeps the others.
- A withdrawal or rebuild after the connection was lost calls `Free` on the old connection
  without `ensureBus` before it, and fails so at every retry: the publication is `Stranded`
  until the printer's offer is of the old structure again. `AnnouncementFollows` excepts it. The
  announcement itself is gone by then; `Withdraw` reports an error, and a rebuild never comes.
- `Update` copies the location of the present publication into its input; the comparison of
  LOC records its comment announces "below" can therefore never find a difference.
- With `use_media_col` the normalised `media-col` carries no `media-size-name`, so
  `routePageSettings`, whose comment says it retains the named size "so a pinned route
  carries the same physical media", never finds one: the document is translated for the
  queue's default medium, and pages of another medium are refused as a settings mismatch.
  The same happens to a medium whose name does not spell out its size when the printer
  describes no collection for it. `TranslatedAsForwarded` is stated for the other jobs.
- `applyRouteCapabilities` is said to make the format attributes "agree with the committed
  routes". When the printer's URF family is valid but fits no policy (a colour queue before a
  printer with grey URF only), `image/urf` may stay the advertised default or preferred
  format, and without any route the whole list stays. `AdvertisedIsHonoured` excepts that case.
- A detail retention shorter than the retries of a batch, which the configuration accepts,
  lets `Cleanup` remove an action's row between a commit with a lost result and its retry: the
  action counts twice. `RetentionAssumption` excludes it.
- `statsJob` stamps a snapshot after the row was read. A snapshot of a row read before it
  failed may so be stamped after that of the failure, and the job's outcome goes from rejected
  back to unresolved. The model makes a snapshot in one step; `JobFactsOnlyGrow` is about the
  stamps: no snapshot changes the state of a job that has one stamped later or alike.
- A `media-col` that gives only a size is ambiguous when two trays carry it, and falls back
  to the default medium.
- The statistics writer notes the health counters as saved after its commit, so a record
  dropped during a write reaches the database with the next batch or at the end of the run,
  and not at all if the process dies first.

`NoStarvation` holds under the condition that the queues answer (`schedule`).

## 4. Proofs

Each theorem is for every value of the constants that satisfies the named assumptions of
its module, which the runs of that component evaluate. Each component has an inductive
invariant `IInv` (the statistics also `BInv`), which was model-checked on its component's
instance as well, apart from the listed runs. The theorems `Invariance` (for routing
`RoutingInvariant`, for the books `BooksAreKept`) state it, the others follow from it.

**Registry** (`JobRegistryProofs`). `TypeCorrect`, `MappingsAreUnique`, `ClocksCorrect`,
`StampsCorrect`, `BackoffCorrect`, `TerminalFinality`, `MappingStability`, and `Refinement`
(`JobRegistry` implements `JobLedger`). `IInv` is the types, `Bookkeeping`, and
`UniqueMapping`. `Bookkeeping` says of each row that clocks go with uncertainty and the
stamp with termination, that an absent row is empty and the delay is in bounds, and that
only numbers already handed out have rows. The last is what makes `Reserve` write to a
fresh row; that an absent row is empty is what makes `Forget` and the ledger's `Submit`
match. None of the properties is inductive alone: the stamps need the clocks' guards,
unique mappings need that a reserved row has none. `StepShape` shows that every step is one
of a few shapes (a reservation, one row replaced by a row that binds, doubts, closes or
merely notes, a sweep, or nothing), so the cases of the code are looked at once and the
properties are proved over the shapes.

**Job life cycle** (`JobLifecycleProofs`). `TypeCorrect`, `ReservationsAreOwned`,
`AcceptedStaysAccepted`, `FinishedIsFinished`, `MappingsAreAlike`, `OnlyAlikeCollide`,
`SlotsAreCounted`, and `ProxyImplementsLedger`, for any number of clients,
queues, jobs and crashes and with every failure the model has. What a handler or the
maintenance pass has read is stale when it is used; the proof is that what they rely on is
stable. `Stable` says what no step may undo: a number is not reserved twice, a row keeps its
queue and its mapping and is not reserved again, a printer job keeps its origin, and a
printer that is done with a job stays done. The parts of `IInv` say of each holder of old
knowledge (a row, a printer job, a handler at each `pc`, a late request, a snapshot of the
maintenance pass, an answer it has not yet applied) what of it must still be true, in terms
that survive every stable step. So each action has to be shown stable and to establish only
the facts of the one actor that moved. A submission in progress needs more, since its
own row is still to change: only its own handler touches a reserved row or adds a printer
job with its origin (`Spares`, `OneSubmitter`).
- `MappingsAreAlike` and `OnlyAlikeCollide` make no assumption on names and users. A mapping
  made by the reconciliation rests on them, so the origin of the printer job is `Alike` and no
  more; a number an answer brings can be taken only by such a mapping, because the printer job
  has one submission as its origin and a row of another queue has another key.
- `SlotsAreCounted`: the invariant is that each counter is the cardinality of the set of
  payload handlers of its queue; entering adds one element, each return takes one away.
- `ProxyImplementsLedger`: every action changes at most the rows the ledger lets change, by
  the same lemmas about the registry's methods that the registry's refinement uses.

**Schedule** (`ReconcileScheduleProofs`). `TypeCorrect` and
`NeverOvertaken` (`TurnComesNearer`): no step puts a row ahead of a row that is due and stays
due, unless a request in flight marks that one uncertain again, and a pass whose first
candidate's queue answers takes one of the rows ahead away. That is the safety half of
`NoStarvation`: the rows ahead of a due row bound the passes it waits for. The invariant adds
to the types that no row stands twice in the model's sequence of due rows. The lemmas say
that `InOrder` lists a finite set of numbers, each at its place, and that `Without` keeps the
rest of a sequence and its order.

**DNS-SD** (`DNSPublicationProofs`). `TypeCorrect`, `AnnouncedIsRecorded`,
`SilentAfterClose` and `OneCallAtATime`, for any number of changes, faults and attempts.
`IInv` ties the publisher's mutex to the goroutine that is in a call, says what the daemon may
announce at each step of a call (in a rollback anything with the right structure, otherwise
what is recorded), that the daemon has no group of the publisher's that is not recorded except
between a failed creation and its release (`NoStray`), that an update's input is a publication
(`Inputs`, so that a recorded publication is told from none), and that both goroutines are idle
once `Close` has returned. The last is why nothing can be announced again. `SilentAfterClose`
says nothing of `orphans`, the groups that a failed release left behind.

**URF** (`URFTranslateProofs`). `TypeCorrect`, `LimitsHold`, `MarkedIsComplete` and
`LeasesAreCharged`, for any source, request and limits. `IInv` says by phase how many headers
are in the file and which of their page counts are still to be patched: the pending
offsets are those of the last headers, in order, and the patched ones hold the
final count. Rows stay cut at whole pixels, which keeps the remaining bytes of a row from
going negative, and every span of the chain carries the sum of the leases. The accounting
saturates; `LimitsAssumption` says that it has room for the default limits (a gigabyte and
1024 pages in the code, against 2^63).

**Statistics** (`StatsCollectorProofs`). `RecordsAreAccounted`, `DropsAreSaved` and
`BuffersAreBounded`, for any number of senders, sizes, attempts and restarts: a record is in
one place only, `Close` waits until no sender is between its check and its send, and the drop
counter is the cardinality of the dropped records as long as no process died. About one record
and any database: `WrittenAgain` (writing it a second time changes nothing, which is what makes
the retry of a commit with a lost result safe) and `FactsAreKept` (`persistJob` keeps acceptance,
times, counters, settings and an outcome the printer reported, and a snapshot older than the row
leaves its state and observation alone: the step of `JobFactsOnlyGrow`).

About the database over whole histories: `TypesAreKept`, `ActionsCountOnce`, `TotalsMatchJobs`
and `FactsNeverShrink`, from `BooksAreKept`. Its invariant `BInv` adds to `IInv` the clock, the
types of the tables with no total below zero, and two sets of books. `JobBooks`: a checkpoint is the
job's last merged state, a job without an outcome has one, and the totals of a kept day are
those of its jobs. `ActionBooks`: no action counts without having been written, and none
of a kept day is missing. `Latest`: no row is from the future, and one stamped like a record
still on its way agrees with it, so that a retry changes no state. None of them survives a retry alone. What makes it safe is a fact about records still
on their way (`FindsRow`): one whose commit took effect finds its row again, because `Cleanup` cannot
have removed it yet; this is where `RetentionAssumption` is used. The totals are compared by
lemmas about `Total` (changing one term changes the sum by the difference) and about the
maximum columns, which hold because merging never lowers a contribution to them. A batch is an
induction over its records: a set of positions that has 0 and with each the next has them
all (`Climb`), which follows from the library's well-foundedness of the naturals, and a
function defined by recursion exists (`RecursionExists`).

**Routing** (`JobRoutingProofs`). `RoutingTypes`, `PolicyReachesPrinter`, `AdvertisedHolds` and
`DocumentsFollowJobs`, from `RoutingInvariant`, for any clients, requests, answers of the
printer and policies. The invariant says where each value that is held across a lock came from:
the committed model is that of some answer, a policy that was read is a projection of
the configured one, a route is one of some model, attributes keep the policy once they are
normalised, and a row's page settings follow the row's attributes. Values of different models may so
meet in one request, and the theorems hold all the same. The larger part is about the
operators: `PickedFacts` and `InstancesFacts` (what the two walks over lists return),
`ProjectedPolicy` (a projection changes nothing that is enforced), `NormalizedKeeps` (whatever
the request and the catalog, the normalised attributes keep the policy, at every depth),
`SnapshotFacts` (each route's mapping fits the queue's colour mode), `ModelHonours`
(advertisement and routes, computed by different functions, agree, with the two exceptions of
section 3, which `AdvertisedHolds` shares), and `PageSettingsFollow`.

**Model-checked only.** Every invariant and every action property of the passing runs is the
statement of a theorem, and so are the two refinements. Liveness under fairness
(`BusyEnds`, `NoStarvation`, `AnnouncementFollows`, `CloseReturns`, `RecordsSettle`) is outside
what the prover can do and rests on TLC.

## 5. Plan

1. Done: all modules of section 2 and their runs; a theorem for each safety property of
   section 3.
2. To model: the ready media a queue advertises; how `fitProfileTXT` drops TXT keys until
   a record fits; printers that restart their numbering; the configuration epoch and `readyz`.

## 6. Not modelled

Schema migration and the registry's entry points that no caller uses; HTTP and IPP
encoding; message validation that changes no state; PDF page counts; configuration
files; identity and discovery of printers; diagnostics, dumps and reports; printer
attributes that are copied or formatted; the choice of TXT keys. They are
parsing, formatting or read-only, or run once at start. Clock adjustments are not
modelled either: the model's clock never runs backwards.
