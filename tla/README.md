# A verification development of CryptoVeil v2

CryptoVeil collects observations of a browser extension and of host sensors,
keeps them in a local tamper-evident ledger and reports them by day. These
modules model the parts on which its claims rest: that what is acknowledged is
kept, that what is kept verifies, that nothing on the way is lost or counted
twice, that the sensors' record is true and what is suspicious in it is found,
that an open dashboard shows it, and that every day is reported. TLC checks each
module on small instances; TLAPS proves every safety property of all of them for
every size. `PROJECT.json` maps each definition to the lines it stands for and
lists runs, mutants, hazards, findings and theorems.

Paths below are relative to `src/`.

## 1. The system

| Component | State it keeps | Operations | Modelled in |
| --- | --- | --- | --- |
| Evidence writer `agent/forensics/audit_logger.py` | log, checkpoints, marker, keys; in memory seq, last hash, pending batch, checkpoints, ids, known head, pause | start-up and import, `record`, `_checkpoint`, `seal`, `verify_chain`, `get_proof`, `verify_proof` | EvidenceLedger, MerkleTree |
| Archive and durable writes `evidence_archive.py`, `storage.py` | a file per event and per checkpoint, the signed head, the directory lock | `store_*`, `retrieve_*`, `immutable_write`, `atomic_write` | EvidenceLedger |
| Merkle tree `merkle_tree.py` | leaves | `root`, `get_inclusion_proof`, `verify_inclusion_proof` | MerkleTree |
| Event broker `agent/bus/event_bus.py` | subscribers, dead letters, futures of threads, closing | `publish`, `publish_threadsafe`, `drain` | EventBus |
| App life cycle `agent/server/main.py` | the composed app | start, monitor, shutdown | EventBus; starts and crashes in the others |
| Extension worker `extension/background.js` | `chrome.storage`: queue, gap counters, configuration; in memory configuration, `flushing` | observe, flush, pair, heartbeat | BrowserDelivery |
| Routes and pairing `routes.py`, `security.py` | paired clients and their file, pairing code, attempts | telemetry, heartbeat, pair, revoke | BrowserDelivery |
| Reports `agent/reports/scheduler.py`, `store.py`, `report_generator.py` | versions of each day's report; last day and count | `catch_up`, refresh, `generate_now`, `save`, `verify`, `stop` | DailyReports |
| Process watcher `process_watcher.py`, `windows_process_events.py` | the processes it knows, a snapshot in hand; a thread with the start it was told of | `_poll_once`, the WMI callback, their publications under one lock | Host, ProcessWatcher |
| Network engine `network_engine.py` | active connections, contact histories, alert times | `_poll_once` | Host, NetworkEngine |
| Correlation engine `correlation_engine.py` | recent observations, keys already emitted | `on_event` | CorrelationEngine |
| MITRE engine `mitre_engine.py` | the process graph; its rules keep no state | `_on_spawn`, `_on_terminate` | ProcessWatcher (the graph) |
| Live updates `live.py`, `/api/live` in `routes.py` | a revision, a queue of one place per stream | `notify`, `subscribe`, `frames` | LiveUpdates |
| Dashboard `dashboard/js/dashboard.js` | what it has loaded, a stream, a timer, `polling` | `poll`, `connectLive`, the interval | LiveUpdates |
| Entropy and clipboard watchers | their own histories | publish what they find | EventBus (their ways to publish) |
| Classification of sites, export, content script, popup, desktop shell | | | not modelled, section 7 |

How they interact:

- A publisher (a route, an async sensor, a filesystem thread, an engine) calls
  the broker. `publish` has the evidence writer record the event on a thread of
  the executor, and only then tells the other subscribers: engines, which may
  publish findings of their own, and the live notifications.
- All methods of the evidence writer take one lock. The scheduler and the store
  each have their own, and call the writer under it.
- Native starts come on a thread of their own and meet the polls of the process
  watcher at its lock; both have read the machine before they get it.
- The broker calls the correlation engine for each event, several at once. A call
  that finds a pair waits for the publication of the finding, and others run
  meanwhile. Findings are published like any event.
- Each stored event, each heartbeat and each revoked client wakes the streams of the
  dashboards; a page answers a frame by loading the status again, and the activity if
  that is the view it shows.
- The extension posts the oldest event of its queue, removes it when a receipt
  comes back, and keeps its configuration in `chrome.storage`; the app keeps
  its clients in a file. Either side may die between any two steps.
- At shutdown `lifespan` stops the sensors, drains the broker, saves a last
  report, makes a last checkpoint and releases the directory lock, in this order.

What is hard about it: crashes and failed writes between the four writes of one
record; retries of events whose receipt was lost; a worker the browser kills at
any time and requests it no longer waits for; tokens that change under a
delivery; threads, tasks and the event loop during the shutdown; midnight between
any two steps of a report; pids that are free, or another's, by the time a
snapshot is worked off; findings that are on their way while the next observation
comes; a stream that is slow, refused or broken while changes go on.
`PROJECT.json` lists these hazards at their lines with the properties that cover
them, and says where no property does.

## 2. The modules

### EvidencePromise, EvidenceLedger

`EvidencePromise` is what publishers rely on: a ledger that only grows, no
`event_id` twice, receipts that name a place of the ledger and what is there.

`EvidenceLedger` is the code. `pc` is the place inside the writer's lock, so one
`record` is `RecordNew`, `StoreEvent`, `AppendEvent`, then `StoreCheckpoint` and
`AppendCheckpoint` when a batch is full, then `WriteHead` and `Reply`: one action
per durable write. `WriteFails` and `Crash` may replace any of them and may leave
a torn file or line (`PartialWrite`). `Start` to `WriteMarker` are the first start
and every later one, including the import of a version 2.0 log. `Found` is a
directory the first start may meet: empty, or such a log with or without its
archive. `VerifyOK` is `verify_chain`, conjunct by conjunct.

`Damage` is what somebody else may do to the files, at most `MaxDamage` times. One
damage puts any lines in the place of a log, any finite set of files in that of an
archive, a head that is absent, unreadable or any the agent ever signed (`heads`) in
that of the head, or loses the marker or a key. What the other lines and files may be
is a parameter (`OtherLogs`, `OtherArchives`, `OtherCheckpointLogs`,
`OtherCheckpointArchives`). The proofs take it as it comes; for TLC MCEvidenceLedger
offers what `tests/test_evidence_integrity.py` does to the files: lines lost at the end
or inside, exchanged, duplicated, altered under their old hash, under a new one, and
whole histories of other, missing or additional events with every hash computed anew.
Its event ids and contents are interchangeable, and an invariant is all that is checked
there, so its symmetry is sound.

SHA-256 is injective: a hash is the sequence of events it binds. The Merkle root
of a checkpoint is the sequence of its leaves, which MerkleTree justifies for the
real tree of any size (`RootCommitsToLeaves`). A signature that fails is the value
`Damaged`.

### MerkleTree

Trees over symbolic hashes with the domain separation of the code, the split at
the largest power of two, audit paths, and the verification of a proof: its header of
each schema (3, 2, and 0 for the checkpoints of version 2.0, which name none), its
position, size and path, and its signature, a term for what was signed. `get_proof`
hands out proofs of checkpoints of every schema; `verify_proof` refuses those of version
2.0 (`audit_logger.py:706`), whose metadata no signature covers, and the dashboard says
so (`dashboard.js:736`). `ProofsVerifyUnlessLegacy` excepts these. Behaviours only grow a tree leaf by leaf. The
recursions of the code are recursive functions on sequences of leaves and on sizes,
each application of them one call.

### BrowserDelivery

The worker, the routes, the pairing manager and the ledger. The ledger is
`EvidencePromise`, by INSTANCE: EvidenceLedger is shown to implement it, so the
two compose. `flush` is the place inside `flushQueue`; sections under `locked()`
are single steps, except pairing, which keeps the lock over its request. A
request that times out or whose worker dies becomes a stray that the app may
still serve, at any later time and in any order.

### DailyReports

The loop's `catch_up` and refresh, a request of the dashboard and the last report
of the shutdown are three workers that run `generate_now` on threads of their
own. The check and the ledger snapshot, the dating of the report and its first
file, and the manifest are separate steps; midnight and new events may come
between all of them. A version is whole or not; an unfinished one is what a
crash or a full disk leaves.

### EventBus

Publications with the place each has reached (`pc` of `Call`), filesystem threads
in `publish_threadsafe`, async sensors, routes, and the steps of the shutdown. A
cancelled task leaves its record running on a thread (`orphaned`). The code keeps the
last hundred dead letters (`event_bus.py:26`); here the set has all that were ever
written, which is what `NothingDropped` is about.

### Host, ProcessWatcher, NetworkEngine, HostSensors

`Host` is the machine: processes that start, end and leave their pid to another,
and connections. A process is its place in the order of starts, which is what its
creation time tells apart. `ProcessWatcher` polls it (`TakeSnapshot`, `PollLock`,
then one action for each end and start it publishes) and, under WMI, handles
starts on a thread that may be late by any amount (`OnNative`). A trace has another
creation time than psutil gives for the same process; that is what makes a poll
replace a process it knows. The code takes two creation times for one if they differ
by no more than 0.05 s (`process_watcher.py:166`); the model takes them for one exactly
if they are of one process, which assumes that the two sources agree to 0.05 s and that
no pid is taken over within that time. `graph` is what the MITRE engine's handlers make of what
is published; they run within the publication, hence in its action. `NetworkEngine` samples in two readings, with processes ending
between them; histories, their limits, the intervals and the alert are the code's.
`HostSensors` puts both over one machine. `setup` says which sensor a behaviour
looks at, since they share nothing else, and bounds the machine for it.

### CorrelationEngine, LiveUpdates, Detection

`CorrelationEngine` is `on_event` with its calls overlapping wherever one waits for
a finding to be published; `recent`, `emitted` and their limits are the code's, the
window and the eviction with them. `LiveUpdates` is the way of a change to a page:
`notify`, the stream with its queue of one place, its pause and its disconnection,
the page's `EventSource`, its refresh timer, its interval and `poll`, which drops a
call while another runs. The app notices only after a while that a page is gone; until
then its stream is `stale` and counts against the limit, also when the same page comes
back. `Detection` composes them: observations and findings are
stored, and everything stored is a change, as are heartbeats and revocations. `setup` bounds the events, the
observations and the dashboards that are looked at. Where there are no dashboards
the changes are not counted; where there are some no time passes for the engine.

## 3. Runs

| Run | Instance | What it shows |
| --- | --- | --- |
| `ledger_faults` | 3 ids, 2 contents, checkpoint every 2; empty or version 2.0 directory; no damage, any crashes and failed writes | Receipts are durable and agree, undamaged evidence verifies, memory mirrors disk, evidence only grows, the promise is implemented, offers are answered |
| `ledger_damage` | 2 ids, 2 contents, 2 damages of the kinds in section 2 | A passing verification means no acknowledged entry is missing |
| `merkle` | up to 6 leaves over 2 values, schemas 0, 2 and 3, every proof of at most 3 siblings made of the tree's hashes | Proofs handed out verify but for those of version 2.0, a root commits to its leaves, accepted proofs are true |
| `delivery_queue` | 3 observations, queue of 2, 1 pairing, 2 faults | Gaps are counted once, what is queued is recorded |
| `delivery_pairing` | 2 observations, 2 codes, 3 tries, 1 fault | Nothing is lost and evidence keeps its order over re-pairing, one client per code, pairings and revocations survive |
| `reports_versions` | 2 days, 2 events up to a day late, 1 request, 1 stop or crash, 1 unfinished version | Versions stay and grow, nothing covers an unfinished one |
| `reports_liveness` | 3 days, 1 event, 1 stop or crash | Days with evidence are finished |
| `reports_torn` | 4 days, 2 events, 1 unfinished version | Finding 1 |
| `bus` | 1 thread, 1 sensor, 2 requests, 2 events, 3 publications | Told once, nothing dropped without a trace, what drain covers; the shutdown ends |
| `bus_drain` | the same without requests, 2 publications | Finding 2 |
| `sensors` | process watcher: 3 processes on 2 pids, with and without WMI; network engine: 2 processes on 1 pid, 3 connections on 2 ports, alerts from 3 samples | Recorded starts and ends alternate and are true, polling alone is exact, the record catches up with a quiet machine, an alert rests on reconnections of one process |
| `detection` | engine: 4 observations of every kind, or 3 with stale ones, window 2, 3 recent, 2 keys; dashboards: 1 or 2 under a limit of 1 or 2, 2 disturbances | One finding for a key and window, none missing, no change missed by a stream, an open page comes to show everything |

Every property of a passing run has a mutant: a change of one mapped definition,
as a plausible bug would make it, that TLC refutes under the same configuration.
The mutated forms stand beside the definitions they replace, marked `Mutant`.

Why the bounds are enough. In the ledger, two entries fill a batch and a third is
pending behind a checkpoint; a retry, a conflict and a new event can follow each
other, and a damage can hit the part that is sealed and the part that is not. One
artifact lost together with its witness is what two damages allow; `MaxDamage` is a
premise of `VerifiedMeansComplete` and no mere bound of the search, since with enough
damages everything can be rolled back together. Six leaves
include full, lopsided and one-leaf subtrees on both sides, and no path in such a tree
is longer than the 3 siblings of `MaxPath`. A queue of two with a
third observation overflows, reports the gap and overflows around it. Two
codes give a delivery under an old and a new token. Three days give one day
missed and one after it; a fourth is needed for a day after an unfinished one to
be overdue. Three publications are a repetition that overlaps and one in the way.
Three processes on two pids are a parent, a child and one that takes over the pid
of either; the process watcher has no state across pids but the parent's. Two
processes on one pid with three connections give a series that a new owner
interrupts, and an alert of exactly `MIN_BEACON_SAMPLES`; the histories' length
and number are reached too. The clock of that run stops before an hour is over, so that
no history expires and no alert is repeated in it (with an hour of 6 in 8 units the run
takes as long as all others together and finds nothing); `AlertsAreReconnections` is
proved for every `Hour`. Two observations make a pair, a third finds its key
emitted or the window over, a fourth comes when `recent` and `emitted` are full.
One stream beside the limit is refused, and two changes with one place in the
queue collapse.

Deadlock is checked in the runs of the ledger and of the delivery, which always
have a next step. It is not where the system, or what the bounds leave of it, ends:
a Merkle tree is grown to `MaxLeaves`, the last modelled day has nothing left to
report, the app of EventBus is shut down for good, and in Detection no event is
left to come. In HostSensors a machine that has used up its processes and its
clock may leave nothing to do for the sensor looked at.

## 4. Fairness

- EvidenceLedger: what has the lock goes on, as each operation runs on a thread
  of its own and every step is a bounded file operation; the app is started
  again; an event without a receipt is offered again (the extension's
  `cv_delivery` alarm). Crashes, failures and damage are never required.
- BrowserDelivery: the worker's flush goes on, the alarm starts a worker and
  flush again, the app is restarted, requests are served.
- DailyReports: the loop wakes every minute, threads run to their end, the app is
  restarted. Midnight is not required to come.
- EventBus: the loop, the executor and the filesystem threads run. A thread's
  wait ends after 30 seconds at the latest, so giving up is a step that is always
  possible there. The shutdown is never required to begin.

- HostSensors: `_run` polls again each second (weak fairness). The thread of the
  WMI source has strong fairness for its turn at the lock: polls take it again and
  again, but asyncio.Lock is first come, first served. The machine is required to
  do nothing, and `RecordIsCurrent` is about one that is quiet.
- Detection: the page's interval and timer fire and its loads end, in success or
  failure. Nothing is required of the streams: a page must catch up without them.

`QueuedIsRecorded` excepts the states in which only a person can help
(`NeedsHelp`): no token, the wrong address, a paused collection.
`DaysAreFinished` excepts the case it names (`Unlucky`): every `catch_up` since
was taken for done because another report of the new day came first.

## 5. Proofs

Each proof is by an invariant that every step keeps, and rests on nothing but the
assumptions its module names for the constants. The bounds that make a model finite
for TLC are constants too: the theorems hold for every value of them.

**EvidenceLedgerProofs** (`BoundsAssumption`, `LegacyAssumption`,
`MarkersAssumption`): for any publishers, contents, interval, installations and any
number of crashes and failed writes, `TypeCorrect`, `ReceiptsAreDurable` and
`RetriesAgree`. `TypeOK` is not inductive: at `Reply` the entry in hand must be an
entry, and between operations there is none. `TypeInv` adds `InHand`, what the
process holds at each place of the lock. `ReceiptsDurable` needs `EvidenceInv`:
`TypeInv`, `Places` (which places a pause excludes), and, while nothing is damaged,
`LogSound` (each line is at its place and has an identifier of its own),
`ArchiveSound` (an archived file holds the line of its number or is torn),
`ReceiptsSound` (receipts are recorded and signed for), `MemorySound` (a collecting
process mirrors the log, and knows a head) and `EntrySound` (how far the entry in
hand has come). The heart of the argument is the log line that comes after the
archived copy: `ArchiveSound` makes an existing file of that number the same copy,
`MemorySound` makes its identifier new, and `HeadRenewed` shows that a head written
afterwards counts every earlier receipt. `RetriesAgree` then follows from `LogSound`.

To `EvidenceInv`, `WriterImplementsPromise` adds `TornLast`: only the last line of the
log is ever torn. It says that EvidenceLedger implements EvidencePromise if nobody else
writes to the directory (`MaxDamage = 0`): `AppendEvent` with a whole line is `Accept`,
`Reply` and the repeated `record` are `Acknowledge`, all else is a stutter.
BrowserDelivery is built on EvidencePromise, so this is what joins the two models for
every size.

Its second part goes on from there. `EvidenceIsKept` needs `HeadBehind`: the head
never counts more than the log has, so one that counts the whole log does not decrease.
`MemoryIsTrue` needs `Mirror`: in a collecting process the checkpoints, the head and the
pending batch are those of the files; a write that failed leaves no process that
collects, and a start takes memory from what it verified. `NobodyCriesWolf` is about
every conjunct of `verify_chain` at once, and `NoFalseAlarm` says nothing of the middle of
an operation, where it is made true. `IntactInv` (checked by TLC first) is what each
comparison rests on at every step: every line is linked to the one before (`Linked`),
every checkpoint seals the lines it spans (`Sealed`), the entry and the batch in hand
continue them (`InMemory`), and the archive and the head hold what the log holds but for
the one write under way (`Imported`), or have yet to be made from the log that was found
(`Unimported`). Between two operations nothing is under way and `VerifyOK` follows
conjunct by conjunct; the archive is compared by number and content, so it comes down to
the log's lines having files of their own (`FilesCounted`).

The third part is about damage. `TwoDamagesAreSeen` says of any `MaxDamage` that a
verification that passes finds every receipt in the log and in the archive while at most
two artifacts were damaged; `VerifiedIsComplete` is the form the run checks. Nothing is
assumed of the four parameters that say what damaged files hold: they may offer every
sequence of lines and every finite set of files there is, checkpoints that were never
signed among them; nor does the argument use more of a damaged head than that it reads
as one. Two damages are too few to need the signatures. A receipt is
held in three places: the log has its line, the archive its file, the signed head a hash
that binds it. The fourth is the pinned key, without which a lost head is not missed.
`Lost` names the places that do not hold all receipts, and `CompleteInv` (checked by TLC
first) says that there are no more of them than damages: one damage spoils one place at
most (`DamageSpoilsOne`), and no step of the program spoils any (`ProgramKeeps`,
`KeyKeeps`). The latter is where damage under a running process counts. `MemoryTrue`
never looks at the files: what a collecting process holds in memory binds every receipt,
so the head it writes restores a head that was damaged before, and a process that starts
takes its memory from files that passed the same verification. A verification compares
log, archive and head with each other, so each of the three that still holds brings the
receipt back into the log, and two damages cannot spoil all three
(`VerifiedFindsReceipts`); where there is no anchor, key and head are the two.

**BrowserDeliveryProofs** (`LimitsAssumption`). `OneClientPerCode`, `PairingsLast`,
`RevocationsLast` and `DeliveryTypes`: in `PairingInv` codes grow, each client was
paired with a later code than the one before it, and the code that is good has made
nobody a client; hence no more clients than codes, which the types need as well.
`Numbers` keeps room for the gap report that is owed. `QueueLosesNothing` and
`EvidenceInOrder`: `DeliveryInv` has a sorted queue, a flush that delivers its head until
it is removed (`Underway`), and `RequestsInTurn`: each request, of the worker or
abandoned, delivers an event only after all events before it are evidence, and says
"stored" only when its own is. An abandoned request that is served late can for this
reason only repeat. `GapsAreAccounted`: the dropped observations are a set (`Told`), so
that a sum over queue and ledger becomes a cardinality; `GapInv` says that each number
was given to one event (`EventsOnce`) and that a request delivers one of those
(`RequestsKnown`). Then a gap report enters the set once, when it is made, and neither its
delivery nor a second copy of it changes the set.

**EventBusProofs** (`CallBound`, `ClassesAssumption`): `BusTypes`, `ToldOnce`,
`NothingDropped`, `DrainCovers`, from `BusInv`: who is told of an event is decided by
the one publication that recorded it (`Announced`), a thread lets go of a publication
only when it is done or a dead letter (`Traced`), and each step of the shutdown
leaves certain publishers silent (`Quiet`).

**DailyReportsProofs** (`ReportBounds`): `NothingCoversUnfinished`, `ReportsGrow`,
`ReportsStay`, from `ReportsInv`: one worker at a time is between check and save
(`OneSaver`), what it has checked and read still holds when it saves (`Ready`), and
no version shows more than the ledger has (`Backed`). `ReportTypes` adds what `TypeOK`
says of numbers: no more is stored of a day than was created and no report is of a
day to come; the total is again the cardinality of a set (`EventsIn`).

**DetectionProofs** (`WindowAssumption`, `SetupsAssumption`): `StreamsMissNothing`,
`OneFindingEach`, `PairsLeadToFindings`, `DetectionTypes`. `OneFindingEach` needs
`FindingsRemembered`: the table knows each finding's key until the observation behind it
is a window old or the key is evicted, also between the two halves of a call that waits
for its publication. `PairsLeadToFindings` needs the other direction, `MarkedAnswers`
(the finding of a key in the table answers for every observation so far) and
`RecentKept`: what entered `recent` within the window, with fewer than its limit behind
it, is still there.

**HostSensorsProofs** (`HostAssumption`, `NetworkAssumption`, `SetupsAssumption`).
`MachineInv` is the machine: a pid is given away only when its process has ended, and a
parent is the last to have had its pid when its child starts. On it rest

- `EndsAreRecordedTruly`, from `WatchInv`. `EndsAreTrue` looks back over the whole record
  at each of its entries. `RecordInv` ties that to the present: the record alternates,
  and what is open in it for a pid is what the watcher knows (`Consistent`). The other
  parts say what a step relies on when it gets the lock: what is known or in hand was
  observed, and if by a trace it has ended (`KnownInv`, `HandInv`); a snapshot taken
  before the lock has everyone who started before the poll and still runs
  (`SnapshotInv`), so that who is missing in it is over; and edges lead to processes that
  are known (`GraphInv`).
- `PollingRecordsExactly`, from `PollingInv` under `native = "none"`. `SnapshotExact` is
  the point: nobody held the pid of one in the snapshot from its start to the start of
  the youngest in it, so a parent found in the snapshot by pid is the true one, or is
  younger than its child and dropped; what is known of a pid is never younger than the
  snapshot's holder, so no process is recorded twice.
- `AlertsAreReconnections`, from `NetworkInv` (checked by TLC first). A sample has two
  readings, and an owner may end and its pid be taken over between them. `SeenInv`: a
  connection in a history is known by its true identity as long as it is open or in the
  sample, and its key names its true owner, so it is not taken for new. `TakenInv`: who
  took over a pid during the sample has no history yet under that pid, so a connection
  read with the wrong owner can only be the first of a history. `ContactsInv` carries the
  conclusion, entry by entry, through the histories' limits. `MaxContacts` is kept
  without counting evictions one by one: the keys that stay are a subset of that size.
- `SensorTypes`, from all of these.

**MerkleTreeProofs** (`TreeAssumption`): `RootCommitsToLeaves`, `ProofsVerify`,
`AcceptedAreTrue`, and `NoAcceptedProofLies`, where the siblings of the claimed path are
any values at all. Of the states they need no more than that the leaves are leaf data;
the work is in the functions of the tree, and there in two places.

- That they satisfy their equations (`MthUnfolds`, `AuditUnfolds`, `LengthUnfolds`,
  `RebuildUnfolds`). A recursive function is the choice of a solution of its equation,
  and says nothing until there is one. The equation of a tree asks only for its halves,
  and both are smaller (`SplitWithin`, `Halves`), so a solution for all trees below a
  size extends to that size, and the solutions for all sizes agree. There is no induction
  in it: the least size without a solution is led to a contradiction.
- What follows from them, each time for the least tree that would refute it. Two trees
  with one root are of one kind, as leaves, nodes and the empty tree hash apart, and
  their halves have the same roots (`RootsDiffer`). A root rebuilt from any siblings is
  the root of the tree only if the half the position lies in is rebuilt to that half's
  root, and so down to the leaf (`RebuiltShows`). A path handed out is the path of the
  half plus one sibling, and a verifier that reads it from its end uses it in that order
  (`AllPathsGood`).

They rest on the hashes being terms, so that a hash tells what was hashed.

**SetLemmas** has what several of them need of sets of numbers: a non-empty one has a
least element, a finite one a greatest, and the image of 1..n is finite and has n
members if no two are equal. The first is from the library's well-founded order of the
naturals, which takes the place of an induction here.

Where a theorem states a property of a run, TLC meets its small instances there.

Only model-checked is liveness, everywhere: `OffersAreAnswered`, `QueuedIsRecorded`,
`DaysAreFinished`, `ShutdownEnds`, `RecordCatchesUp` and `DashboardCatchesUp`. Fairness
and ENABLED are out of this prover's reach.

`VerifiedMeansComplete` has the one premise about the number of damages, and cannot do
without: with three, TLC finds the last entry taken from the log and from the archive
and the head put back to an earlier one.

## 6. Findings

1. `MissingDaysAreFilled` (`reports_torn`). `README.md:135-136`: the scheduler
   "back-fills missing days after restart". The first day whose report does not
   verify ends every `catch_up`; later days without a report stay without one.
2. `DrainedBeforeReport` (`bus_drain`). `scheduler.py:54`: "All ledger publishers
   have already been drained by app shutdown." A write that its thread gave up,
   or whose task was cancelled, is not among them. It may come after the last
   report, the last checkpoint and the release of the directory lock.
   `DrainCoversTheRest` says what is left if these are excepted.

Seen while modelling, without a run of their own:

- `audit_logger.py:513-514` calls the import "One-time ... Never used after v2
  initialization". The marker is written right after the first head, and only in
  that start (`audit_logger.py:235-236`). A crash between them leaves an installation
  that never gets a marker. Should it later lose its head and public key, it goes
  through the import again and the log it finds becomes the baseline.
- `README.md:23`: "Retries are idempotent by `event_id`." The evidence's identifier
  contains the client's (`routes.py:176`), so a retry after pairing again
  (`background.js:560-568`) is a second record. `InOrder` and `NothingLost` count both
  as one observation.
- A report of the new day requested just after midnight marks the day as caught up
  before the loop has looked (`scheduler.py:72-75,112`).
- `generated_at` is read after the ledger snapshot (`report_generator.py:81,124`), so
  a snapshot of an unfinished day can be dated after its end and is then never
  completed.
- With WMI, the parent is looked up by pid in what the watcher knows
  (`process_watcher.py:174`), which may be an earlier holder of that pid. And an edge
  of the graph starts at a pid whatever it stands for by now (`mitre_engine.py:103`),
  so between recycled pids it may join unrelated processes. `EndsAreTrue` demands of an
  edge that its child is on record and that it starts at that child's own parent pid.

## 7. What is not modelled

- What an observation is: classification of sites, trust scores, MITRE rules,
  anti-forensic command lines, entropy, clipboard addresses. These are functions of
  one input, or numeric, and have unit tests; their results enter the models as
  events. The statistics behind a beacon alert are modelled, in poll intervals.
- The burst detection of the entropy watcher. Its tables are touched by one thread
  alone and change with the clock only; what is hard about it, the way of its events
  to the broker, is in EventBus. `handle` skips a file that it read less than half a
  second ago, so the last of several quick writes may never be read
  (`entropy_watcher.py:118`).
- Sensors that cannot read what they look at: a process that is unreadable, a
  listing that fails, and a publication that fails in the middle of a poll. The
  last pauses collection until the app, and the sensor with it, is started again.
- Layout and wording of reports, exports, dashboard, content script and popup. Of
  the dashboard only what keeps it up to date is modelled.
- Cryptography: hashes are injective, signatures cannot be made without the key,
  and all of it is taken from the library. A damage that exchanges a key for another
  is not modelled.
- Real time: timeouts are steps that may come at any moment, days are numbers, the
  clocks of the engines count units.
- Rate limits, header checks and validation of request bodies: a request whose
  content is refused is not an input of BrowserDelivery. The import of a version
  1 queue of the extension is left out too.
- A roll-back of all artifacts to an earlier consistent state. The repository
  says that it cannot be seen without an independent copy.

## 8. Plan

Done: EvidenceLedger with its promise and the refinement, MerkleTree,
BrowserDelivery, DailyReports, EventBus, the sensors over one machine, detection
from the engine to the dashboard, and the proofs of section 5.

What would come next:

1. The burst detection of the entropy watcher: its window, its alerts and what its
   half second of silence may hide.
2. The composition of BrowserDelivery with EventBus, so that a delivery meets the
   shutdown.
