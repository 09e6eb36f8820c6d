# A verification project for hp-scan-macos (SOAPHT scanners on macOS)

The repository lets macOS use HP scanners whose HPLIP scan type is 5 ("SOAPHT").
It consists of a SANE back-end plugin in C that speaks WS-Scan SOAP in HTTP over a
USB channel, a command-line wrapper, and a Go bridge that offers the scanner to
Apple's AirScan clients as a local eSCL server. This directory holds TLA+ modules that
model those programs, the TLC configurations that check them, and proofs that the
TLA+ proof system checks. Paths below are relative to `src/`.

## 1. The system and its parts

| Part | Source | State | Operations | Hard behaviour |
|------|--------|-------|------------|----------------|
| Bridge: jobs | `airscan-bridge/main.go` | table of jobs, the active job, scanner status, one mutex | create, GET, DELETE, NextDocument, status; worker, watchdog, reaper, shutdown | goroutines interleave between critical sections; timers race notifications; removal shared by three parties |
| Bridge: WSD client | `airscan-bridge/wsd.go` | one conversation per job | status, GetActiveJobs, CreateScanJob, RetrieveImage, CancelJob | lost and late answers, deadlines, jobs of other clients, death of the bridge |
| Bridge: capabilities, settings | `capabilities.go`, `settings.go`, `device` and `wsdTicket` in `wsd.go` | what it knows of the scanner's sources; the settings of a job | parse a listing or a configuration, check a request, make arguments of `scanimage` or a ticket | three units of length with a rounding at each border; the order in which the arguments take effect in the plugin |
| Plugin: session | `soapht-macos/bb_soapht_macos.c`, `patches/04-*.patch` | one `bb_state` per device, SANE session flags | open, start_scan, get_image_data, end_page, end_scan, close; asynchronous cancel | a signal between two steps, a device job that outlives a call, a lagging feeder sensor |
| Plugin: options and ticket | `soapht-macos/soapht_capabilities.h`, `bb_soapht_macos.c`, `patches/04-*.patch` | capabilities of both sources, the options and ranges offered, the ticket of the job kept | read the capability document, set an option, make a ticket, announce parameters | unit conversions, options chosen for another source, two copies of one rule |
| Plugin: image | `bb_soapht_macos.c` | the reply so far, the image, the buffer handed to the image processor | decode chunks and DIME records, fill and empty the buffer | reads that cut a reply anywhere, an image that ends early, input not yet consumed |
| Plugin: transport | `bb_soapht_macos.c` | a deadline; what is left unread on the USB channel | write, read a response, cancel after it | partial transfers, late replies of an earlier transaction, integer timeouts |
| Probe and recovery helper | `tools/` | none | drain, query | owns the device while it runs |
| hp-scan | `bin/hp-scan` | temporary directory, pages | option query, single scan, batch, merge | partial batches |
| Build, service, app, stubs | `build.sh`, `service.sh`, `app/`, `stubs/` | none | installation | none |

Bridge and plugin interact through processes. The bridge starts `scanimage`, which loads the
plugin, and interrupts it with SIGINT, from which the plugin learns only through
`sane_cancel`; it reads page names from standard output and the reason of a failure from
standard error. It runs the probe helper for status queries and, after an unsuccessful
acquisition, the recovery helper, which empties the USB channel before it asks. Inside the
plugin a session call is a series of transport transactions: the capability document that
opens a device decides which options the front end may set, the options make the ticket of
CreateScanJob, and the reply to RetrieveImage is decoded into the image that the session
hands to HPLIP's image processor. With a network scanner the WSD client takes the place of
both processes.

What makes each part correct:

- Jobs: the scanner has one user at a time; a page is delivered once, in order; no wakeup
  is lost; a job ends as what happened to it; spools and processes do not outlive it.
- WSD client: it acts only on its own job, by whatever identity it learned of it, leaves
  none behind that it could know of, and does not pass off a part of a batch as the whole.
- Session: no scanner job is forgotten; a failed call is followed by its cleanup; a
  batch has no gaps; no image is asked for without a sheet.
- Transport: one request never gets the answer to another; a cancelled create leaves no
  job; every transaction keeps its budget.
- Capabilities and settings: what was accepted is taken by everything behind it; the ticket is
  the area the client asked for, although three programs convert it.
- Options and ticket: what was offered is accepted as it is; the area asked for survives
  every conversion and lies inside the source; what is announced is what is requested.
- Image: the whole image arrives, in order, and part of one never passes for it.

## 2. Modules

| Module | Models |
|--------|--------|
| `ScanService` | abstract: what the bridge promises its clients |
| `ClientJob` | abstract: what a client is promised of a job on a network scanner |
| `PageStream` | abstract: what the image processor may rely on during a page |
| `Bridge` | `main.go`: table, handlers, workers, watchdog, reaper, shutdown; the frame of `runWSD` |
| `WsdWorker` | `wsd.go`: every call of `runWSD` and the scanner's side of it |
| `SoaphtSession` | a SANE handle: `sane_start`, `sane_read`, `sane_close`, `sane_cancel` and the `bb_` functions |
| `SoaphtTicket` | `parse_capabilities`, the option handlers, the ticket of `bb_start_scan`, `bb_get_parameters` |
| `EsclSettings` | `detectDevice`, `applyMinimums`, `device`, `parseSettings`, `args`, `wsdTicket`, `wsdPageBounds`; composed with `SoaphtTicket` |
| `SoaphtReply` | external: how a scanner makes its answer to RetrieveImage of an image |
| `SoaphtImage` | `dechunk_try`, `extract_dime_jpeg`, `fetch_jpeg`, the buffer of `bb_get_image_data` |
| `SoaphtTransport` | `soap_transaction_mode`, `write_all`, `read_http_response`, `remaining_timeout`; the recovery drain |

For each module `M`: `MProps` states the properties, `MCM` and its `.cfg` files
instantiate it, `MProofs` holds the theorems. `SoaphtTicket`, `EsclSettings` and `SoaphtImage`
share `MCSoaphtPage`, and `SoaphtTicketProofs` is about the first two; the bridge has three
proof modules, each extending the one before: `BridgeProofs`, `BridgeServeProofs`,
`BridgeServiceProofs`. Definitions commented "Mutant" are plausible mistakes in the code; no
action uses them. They show that a property would notice the mistake.

### Bridge

One action is one critical section of `Bridge.mu` or one step a goroutine takes outside
it. `pc[j]` is the place of the worker of job `j` in `runJob`/`runWSD`, `proc[j]` its
`scanimage` or helper process, `watchdog[j]` its watchdog, `req[r]` a NextDocument request,
`main` the shutdown sequence. A boolean field of `Job` is the set of jobs that have it.
`backend` is chosen once, at the start, from `Backends`: `scanimage` for a USB scanner or the
WSD client; handlers, reaper and shutdown are the same code for both.
The status handler keeps the mutex across a slow call: `probing` stands for that, and
`Lock` for the mutex being free. A channel close (`Changed`, `Done`) is `Notify`, which
moves every waiting request. Times are abstract: a timer may fire at any moment after it
is armed. `ScanService` is implemented under a mapping that forgets mutex, processes and
requests (`ImplementsService`).

### WsdWorker

A job has a JobName, which the bridge chooses and which is its number here, and a JobId, which
the scanner gives it (`Creates`). The bridge learns the JobId from the answer to CreateScanJob
or, when that is lost or lacks it, from the job of its name in the list of GetActiveJobs
(`Named`, `Found`); `Known` and `WithoutJob` are the scanner's side of RetrieveImage and
CancelJob, which name a job by JobId alone. `ActsOnOwnJob` says that what was learned in
either way never is the JobId of somebody else's job, although other clients' jobs and earlier
ones of the bridge may be in the list, and JobIds begin and end while the bridge holds one.
Each HTTP call is one action whose outcome may be an answer, a refusal, a lost answer after execution, or, for
CreateScanJob, execution later (`wire`, `LateCreate`). `Surroundings` are cancellation,
the end of the context, death and restart of the bridge, other clients, and the feeder.
`late` and `abandoned` are history: jobs executed after they had been looked for, and
jobs whose cleanup failed or never ran.

`ClientJob` is what remains of this for the client: images taken and listed one after the
other until the job ends in one of three ways or the bridge dies. `WsdWorker` implements it
under a mapping that forgets calls, jobs of the scanner and the context
(`ImplementsClientJob`). It joins facts that the single invariants do not: no image is asked
for while one has not been listed, unless the job was canceled, nor beyond those wanted.

### SoaphtSession

`pc` names the step between two looks at `user_cancel` or two transactions, so that a
signal can arrive between any two. `job_id`, `job_active`, `cancel_pending`, `job_is_adf`
are the fields of `bb_state`; `jobs`, `feeder`, `images`, `lag` belong to the scanner. A
SOAP transaction succeeds, is refused, or fails with or without having been executed.
`lag` is the number of queries for which the feeder sensor may still report the last
sheet (`SensorLag`); `Polls` is the number of queries between two pages.

### SoaphtTicket

A call of the front end is one step here; what can interrupt it belongs to `SoaphtSession`.
The capability document is a record of what libxml2 delivers: an element is missing, is no
boolean, or has a value; 0 stands for a length that `node_positive` refuses. Both units of
length are exact: thousandths of an inch, and SANE_Fixed millimetres (`ThouToFixed`,
`FixedToThou` with the truncation and the rounding of the C expressions). The four corners
of the area are set in one step (`SetRegion`) to values within the ranges; `AutoBottom`
is the automatic value of the bottom edge. `Estimate` follows `bb_get_parameters` and
`NewTicket` follows `bb_start_scan`: the rule is in the code twice, so it is here twice.
`Measured` is what a scanner may announce for a ticket.

### EsclSettings

The way of a client's settings to the scanner, with all three programs on it. `StartUsb` and
`StartWsd` are `main` up to the advertisement: a scanner that is not understood is refused, and
`device` is what the bridge believes of the others. `Post` is the look `create` takes at
a request (`Accepted` has every check of `parseSettings`, `Parsed` its defaults). A USB job then
opens the plugin and sets source, mode, resolution and area with the actions of
`SoaphtTicket`, one argument after the other, and starts; a WSD job sends `WsdTicket`.
What a page then meets is in `Bridge`, `SoaphtSession` and `WsdWorker`.

Lengths are exact integers in the units of each program: thousandths of an inch, 1/300 inch,
SANE_Fixed. `scanimage` is external: it prints the upper ends of the ranges with six significant
digits (`Printed`; this is what the 0.001 of `parseSource` is for), and what it reads back of
the ten decimals it is given is the same number or one unit of SANE_Fixed less (`ReadBack`:
`SANE_FIX` truncates a product of floating-point numbers). It adds offset and size
(`AskedRegions`). All these outcomes are explored, and the theorems cover them.

### SoaphtImage

A reply is a sequence of cells: a chunk-size line, a CRLF, a DIME record header, a unit of
data. Reads may cut it between any two of them. `Dechunk` and `ExtractImage` are recursive
functions over that sequence; `Dechunk` starts at the beginning after every read, as
`dechunk_try` does. `buf` is `ps->buf` between `index` and `cnt`; the image processor takes
any part of it (`Take`).

What the scanner means by a reply is history in it: the image, the body of DIME records, and
marks where records and chunks begin. `SoaphtReply` says how these belong together
(`FromScanner`). A record of the image, at a mark `<<p, i>>`, holds the next units of it after
the first `i`, and the mark where it is continued is there too; a chunk likewise, with the
body. A reply to which nothing happened (`intact`) has all of this. Of another one a line or a
header may not be what it was, and any part may end early, inside a complete reply when the
feeder jams; what is there is still the scanner's. The code fixes none of this, it is a
property of the scanner; `ScannerAssumption` states it of the constant `Replies`, and TLC
evaluates it for every reply of the run.

`PageStream` is the transfer of a page as the image processor sees it: asked for, opened with
one image, given in growing beginnings of it, complete only with the whole. `SoaphtImage`
implements it with `reply.image` as the page and `taken` as what was given
(`ImplementsStream`).

`SoaphtImage` shares no variable with `SoaphtTicket` and `EsclSettings`. `MCSoaphtPage`
explores each while the others are at rest.

### SoaphtTransport

The channel towards the host is a queue of units (header, chunks, last chunk) that
neither open nor close empties. A request is written in four parts of `Pieces` writes
each. The scanner answers requests in order, at any speed or never. `elapsed` counts half
seconds, so that the rounding of HPMUD's integer timeouts is visible. `broken` is history:
a transfer failed or was too late since the channel was last known to be clean.
`UserClear` and the order of requests belong to the session and are left free here.

## 3. Runs

| Run | Configuration | Bounds | What it shows |
|-----|---------------|--------|---------------|
| `pages` | `MCBridgePages` | 1 job, 2 requests, 2 pages, both backends, both sources | delivery order, wakeups, removal, spool, final states, refinement of `ScanService` |
| `jobs` | `MCBridgeJobs` | 2 jobs, no requests, both backends | one user of the scanner, no start after cancel or shutdown, a clean exit |
| `live` | `MCBridgeLive` | 1 USB job, 1 request, fairness | jobs end, abandoned jobs are collected, shutdown completes |
| `session` | `MCSoaphtSession` | 3 sheets, 3 images, 2 scanner jobs, 2 polls, lag 1, fairness | no job forgotten, failed calls clean up, batches without gaps, no image without a sheet, every call returns |
| `page` | `MCSoaphtPage` | 18 capability documents, 5 areas; 8 WSD configurations, 135 requests; replies with images of 2 and 5 units in up to 3 chunks, reads of up to 3 cells, replies of up to 16, a buffer of 3 | offers are accepted, areas kept, announcements true; what the bridge accepts is taken by the plugin and becomes the ticket that was asked for, over USB and WSD; replies read to their end, the image whole and in order, refinement of `PageStream` |
| `wsd_worker` | `MCWsdWorker` | 2 acquisitions, a limit of 2 pages, page count none or 2, 2 sheets, 3 JobIds, fairness | own jobs only, nothing left behind, no overlap, no page lost silently, no whole job called failed, every acquisition ends, refinement of `ClientJob` |
| `transport` | `MCSoaphtTransport` | 2 transactions, 2 writes a part, 2/1/2 seconds, fairness | replies matched, channel clean, budget kept, no unknown job, every transaction ends |
| `busy_failure`, `aborted`, `query`, `session_cancel`, `wsd_others` | | smallest that show it | section 5 |

Why the bounds suffice. Requests race pairwise over one job (one `Reading` flag, one
notification), and handlers of different jobs meet only in `Active`, the mutex and the
scanner, which `jobs` covers; two pages give a page before and after any event, a third
image in `session` is needed for a gap that is followed by a page. Two WSD acquisitions are
one and its successor, which is what overlap, leftovers and mistaken identity are about; three
JobIds are enough for a job of each and one of another client, in any order. With a limit of
2 pages the counted end, which then is at the limit, the limit without a count and the empty
feeder occur. Two transactions are one
and the next, with drains in between; the cancel budget is shorter than the first write's
limit there, as in the code (5 and 45 s). Eight of the documents in `page` describe scanners
(the M127fn of `tests/fixtures`, without a feeder, without a platen, with modes or
resolutions that only one source has, the largest and the smallest area, limits that are no
whole 1/300 inch), ten are refused, one for each reason; the areas are a legal sheet, a
crop, edges next to the rounding boundary, an edge in the far corner where offset and size
are both rounded up, and an area below the minimum. The requests are the whole bed, crops
that touch or begin next to its far edges, the smallest area and one below it, lengths of a
few units, and areas outside, from each source; every resolution and mode; and one request
for each other reason to refuse one. Three WSD configurations are accepted, five refused,
one for each reason. The replies are every cut of every body into up to three chunks, with
and without a record before the image, continued after every unit or in one record, then
every truncation of body and image, and every damaged size line; the longest pass the limit
of 16 cells. Those numbers meet each branch of the two decoders. The safety theorems of
section 4 hold for all these parameters. Job and request symmetry is used only in runs
without liveness.

Deadlock is checked for the transport. The other runs say `CHECK_DEADLOCK FALSE`: the
bridge exits, and numbers of jobs, images and acquisitions are bounded, so these systems
do stop. Getting stuck halfway is what the liveness properties exclude.

Fairness:

- Bridge: weak fairness of workers and watchdogs, because Go runs every runnable goroutine
  and a timer fires; strong fairness of request handlers and the reaper, because a
  stream of status probes takes the mutex in between and `sync.Mutex` hands it to a
  waiter that starves; a status helper answers or is killed at its timeout. A client takes
  its page or hangs up: the server sets no write timeout, and one that stalls for ever
  would keep its job for ever. No fairness for clients, for a process exiting by
  itself, or for the shutdown timer.
- WSD worker, session, transport: weak fairness of the thread's own steps, because
  every call it makes has a deadline (HTTP client timeout and contexts; 45, 300, 5 s);
  HPMUD's open and close have none and are assumed to return (`docs/BUILD_AND_TEST.md:199`).
  Nothing is assumed of the scanner, the user, or other clients.

## 4. Theorems

All proofs are for every value of the constants that the named assumption of the module
allows, and by invariance: `Init` implies the invariant, every action preserves it.

- `BridgeProofs`: `TypeCorrect`; `AcquisitionCorrect`; `DeviceIsExclusive`;
  `CanceledStaysCanceled`; `FailureIsFinal`. Device exclusion is not inductive: it needs
  that `Active` is exactly the job whose worker has not closed `Done`, that a process
  lives only while its worker waits for it, and that a probe excludes an active job
  (`Acquisition`). The two theorems about outcomes add when a worker may still change the
  state of a canceled or failed job (`Outcome`).
- `BridgeServeProofs`: `SpoolsFollowJobs`, `DeletedJobsGo`, `PagesInOrder`,
  `NoWakeupIsLost`. The key is `Serving`: a request inside the handler holds its job by
  `Reading`, at most one request holds a job, and every removal spares jobs that are held.
  From it follows that the page a request copies is still the next one when it has been
  sent (`Copying`), and that nothing but a step that notifies can give a waiting request
  something to report (`Undisturbed`, with `Outcome` for jobs that are canceled twice).
- `BridgeServiceProofs`: `OnlyWantedStarts`, `ExitIsClean`, `BridgeImplementsService`. The
  unfinished job is in the table and, once the shutdown has begun, canceled (`Ordered`).
  The refinement has one lemma per group of actions: each is an `Accept`, `Publish`,
  `Deliver`, `End`, `Forget` or `Close` of `ScanService`, or changes nothing that it sees.
- `SoaphtSessionProofs`: `TypeCorrect`, `NoJobForgotten`, `FetchesAreReady`,
  `FailuresCleanUp`, `NoPhantomPage`, `BatchesAreGapless`. The invariant is
  `SessionInvariant` = `Ownership` (where a job exists and may be pending), `Settling`
  (each positive answer without a sheet uses up lag, and a batch asks more often than there
  is lag; this is where `SensorLag < Polls` is used) and `Sequencing` (the image held
  is the last one taken, or the call is on its way to `bb_end_scan`).
- `SoaphtTicketProofs`: `TicketTypeCorrect`, `OffersAccepted`, `RegionIsKept`,
  `AnnouncedRequested`, `RoundTrip`. The invariant (`Offered`) says that source, mode,
  resolution and area come from the source selected; the rest is arithmetic: `ThouBounds`
  and `FixedBounds` enclose the two conversions, `AxisCovered` carries one axis through
  rounding and clipping. Nothing is assumed of the documents but their types; the twenty
  inches of the parser are what makes the rounding bound hold.
  In the same module, about `EsclSettings`: `SettingsTypeCorrect`, `AcceptedScannable`,
  `TicketsAsRequested`, `WsdTicketsFit`. The invariant (`EInv`) adds to that of the plugin
  which step of the job has set which option (`Wired`). The arithmetic is per axis:
  `AxisFits` says that an offset and a size that fit in 1/300 inch fit in the printed and
  re-read range, `AxisAsked` that they come back as the nearest thousandths and above the
  minimum, `UnitsWithin` that the bridge never believes a source larger than it is.
- `SoaphtImageProofs`: `EarlyVerdictsStand`, `ImageTypeCorrect`, `BufferedOrder`. The decoders
  are recursive functions; that they exist and what they return is derived from a lemma
  about downward induction on a set of positions (`Downward`, `RecursionExists`).
  `EarlyVerdictsStand` is the reason why a reply may be cut anywhere: a verdict on a
  beginning of it, other than incomplete, is the verdict on all that follows.
  `RepliesReadToTheEnd`, `PagesAreImages` and `ImageImplementsStream` relate what the plugin
  computes to what the scanner meant. `ContinuedIsRest` and `FirstImageIsImage` go down the
  records, from each mark to the next: what `Continued` collects is the rest of the image, and
  less than all of it only in a damaged reply, where it does not end with the end marker,
  because a JPEG has that nowhere else; so `WholeImage` lets nothing pass but the image
  (`ExtractedIsImage`). `ChunksCarry` does the same for the chunks of every beginning of a
  reply. The invariant is `TheImageHeld`: an image held is the scanner's, read to the last
  cell, and what was taken is a beginning of it, which follows from `BufferedInOrder`. The
  refinement needs it before and after a step: `NoMore` is `Complete` only because all
  has been taken, `Take` is `Give` because both beginnings are of one image.
- `WsdWorkerProofs`: `TypeCorrect`, `WorkerCorrect`, `OnlyOwnJob`, `ScannerIsLeftClean`,
  `NoSelfOverlap`, `PagesAreConsecutive`, `NothingMissing`, `CanceledGetsNothing` (an
  action property). The invariant `WorkerInvariant` = `Held` ∧ `Identified` ∧ `Accounted` ∧
  `Behind` ∧ `Paged` ∧ `Whole`. `Identified` adds to `ActsOnOwnJob` what it rests on: a
  JobId names one job; so does a JobName of the bridge, because a create is sent once and is
  on the wire or executed, never both; and while a JobId is held the request is not on the
  wire, so no second job of the name can come. `IdentifiedStep` needs from `IdsOK` that the
  JobId held was given earlier than any still to come. `Behind` is about jobs still on the
  wire too, without which the step that executes a late create could not be carried. `WorkerImplementsClientJob` is
  the refinement, with one step per action: most are invisible to the client, the image that
  arrives or is lost is a `Take` (`ClientTakes`, from `Paged`), a stored page a `List`
  unless the job is canceled, and an end as Completed an `End` by `Whole` of the next state.
- `SoaphtTransportProofs`: `TypeCorrect`, `BudgetIsKept`, `NoUnknownJob`,
  `ChannelIsClean`, `AnswersMatch`. The invariant `InStep` says that what was received,
  what is on the channel and what the scanner owes make up exactly one reply while no
  transfer failed; `Budgeted` that one rounding is never followed by another.

Assumptions that are not about constants' types: `SensorLag < Polls` (the six status
queries between two pages outlast the sensor); built into `WsdWorker`, that a scanner does
not give a JobId twice (one that counted from the beginning again after a restart could give
the JobId held to another client's job, and nothing in `runWSD` would notice); and, built
into the models, that a SANE front end calls `sane_start`, `sane_read`, `sane_cancel`,
`sane_close` in the order the SANE standard asks for, that upstream `sane_start` ends the
scan on its error path, that HPMUD calls return within the timeout they are given, and that
the scanner completes the replies it begins. About images, `ScannerAssumption`: a JPEG has its end marker
at its end only, records and chunks carry it in order, and damage makes a reply shorter or a
header or line unreadable. A unit of data that was altered is not in it, and the plugin would
not notice one: it looks at the two markers and nothing between them.

Only model-checked: liveness (`EveryJobEnds`, `AbandonedExpires`, `ShutdownDrains`,
`CallsReturn`, `AcquisitionEnds`, `TransactionEnds`), which the proof system does not handle
under fairness. Every other property of a passing run is a theorem. The other way round,
what follows from the properties that are run, or supports them, is proved and not run any
more: `Acquisition`, `SessionInvariant`, `WorkerInvariant`, `TheImageHeld`, `RetrieveReady`,
`NoPageAfterCancel`, which `ClientJob` contains, and all type invariants.

## 5. What the code does not keep

Each of these runs ends in a counterexample.

- `busy_failure` (`FailureNeverBusy`): a NextDocument request whose two-second timer and
  notification are both ready may answer "busy" for a job that has failed
  (`main.go:585`; `docs/AIRSCAN.md:105`).
- `aborted` (`AbortedNeverCompleted`): a DELETE after the end of a failed job turns Aborted
  into Canceled, and the page being copied makes it Completed (`main.go:557`;
  `docs/AIRSCAN.md:106`, `main_test.go:495`).
- `query` (`FailedQueryNotHealthy`): after a canceled acquisition whose recovery query failed
  an old Idle/Empty stays advertised (`main.go:392`; `docs/AIRSCAN.md:109`).
- `session_cancel` (`CancelHonoured`): a `sane_cancel` between the test of `user_cancel` in
  `sane_start` and its clearing is lost (`patches/04-soapht-macos-plugin.patch:406`;
  `docs/TROUBLESHOOTING.md:73`).
- `wsd_others` (`OthersBlockScan`): another client may start a job between GetActiveJobs and
  CreateScanJob (`wsd.go:507`; `docs/WSD_NETWORK.md:65`).

Met while modelling, without a run of their own:

- The mode may be changed between two pages of a feeder job that is kept. The job goes on
  with the old mode, while `bb_get_parameters` computes bytes per line from the new one
  (`bb_soapht_macos.c:557`). No text of the repository says whether a front end may do that
  (`NextPage` after `SetMode` in `SoaphtTicket`).
- After a page, and until the job is replaced, `bb_get_parameters` reports the numbers of the
  job that is kept, also for the flatbed, whose next page is a new job with the area then
  selected; `docs/COMPATIBILITY.md:36` says "Pre-start SANE raster estimates now use the
  requested geometry." `AnnouncedIsRequested` is therefore stated for a device without a job.
- The ordinary feeder height of 11.689 inches is used even if a feeder's own minimum is
  larger; no check relates the two.
- The estimate clips the size by the offset a second time. For the numbers announced it makes
  no difference, as the proof of `AnnouncedRequested` shows.

## 6. What is not modelled

- Durations in the bridge: the 3-second probe throttle (`main.go:73`; in the model a probe may
  come at any time), the watchdog's grace and the recovery against the 390 seconds of the
  shutdown (`main.go:748`), and that the fifteen minutes of a WSD batch are tested after its
  cleanup (`wsd.go:617`). The models let every timer fire at any moment after it is armed, so
  their safety does not depend on these numbers; what the numbers themselves should be is
  a question about seconds, not about states.
- The rest of a reply beyond 16 MiB (`bb_soapht_macos.c:243`) stays on the channel like that of
  any failed transfer, which `SoaphtTransport` has.
- Of `capabilities.go`: the text of the capability document for clients, the regular
  expressions over the listing of `scanimage`, and the choice among several scanners. What is
  read from the listing and what is advertised are in `EsclSettings` as values.
- `bin/hp-scan`: a shell script whose behaviour is that of `scanimage` and of the PDF and image
  tools it calls, none of which is in the repository.
- XML, BMP and JPEG at the level of bytes: an element, an image succeeds, fails or is
  incomplete. Chunk-size lines and DIME headers are single cells.
- The startup wait for a WSD scanner (a loop before the bridge exists), Bonjour advertisement
  (a restarted child process without effect on jobs), `patches/02` (musb: its unpatched
  code is not here; a channel's transfers, timeouts and failures are in the transport),
  other patches (headers, an uninitialised variable), stubs that always fail, build, service
  and application scripts, and the superseded sources kept beside the current ones
  (`bb_soapht_macos.v0.2.2.backup.c`, `.old`, `.previous`), which no build uses.

## 7. Plan

Built, in this order: `Bridge` with `ScanService`; `SoaphtSession`; `WsdWorker`;
`SoaphtTransport`; `SoaphtTicket` and `SoaphtImage`; a proof module for each; then the
bridge's serving invariant and the refinement of `ScanService`; `EsclSettings`, which
joins the bridge to the plugin; last `SoaphtReply`, with the proofs about images, and the two
specifications `PageStream` and `ClientJob`.

What would come next: an abstract specification of a batch as a front end sees it, implemented
by `SoaphtSession` apart from the lost `sane_cancel` of section 5; and the startup wait as a
first phase of `WsdWorker`.
