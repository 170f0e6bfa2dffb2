# SakuraDrive: specifications, model checking and proofs

SakuraDrive watches over a pool of disks on a Windows host: it catalogues every
file, hashes them to find bit rot, benchmarks the disks, verifies backups and
raises alerts. A TypeScript server (`packages/server`) runs in a container; a
PowerShell agent (`agent/`) runs on the host and does the reading, because the
container cannot see a disk without a drive letter. This directory holds TLA+
specifications of the parts whose correctness depends on order, failure and
time, the TLC runs that check them and the TLAPS proofs about them.

Paths below are relative to the repository; `server/` stands for
`packages/server/src/`.

## 1. Inventory

| Component | State it keeps | Operations | Interacts with |
|---|---|---|---|
| Workflow engine, `server/workflows/engine.ts` | `workflow_runs` rows, the in-memory `active` map, `stopReason` of each run, `ticking` | `start`, `stop`, `stopAll`, `tick`, `execute`, `finishRun`, `recoverInterruptedRuns` | every workflow (callbacks `run`, `hasWork`, `shouldContinue`), the interface, the schedule |
| Catalog scan, `server/workflows/catalog-scan.ts` | the cursor in the run's row: root index, catalog run, worklist, dirty pools | `run`, `runAgentScan`, `finishRoot`, `rebuildDirtyPools` | engine, job queue, catalog service, settings, alerts |
| Agent job queue, `server/services/agent-job-service.ts` | `agent_jobs` rows | `enqueue`, `claim`, `heartbeat`, `requestCancel`, `cancel`, `finish`, `reclaimAbandoned` | workflows on one side, agent routes on the other |
| Agent routes, `server/routes/agent.ts` | none; each request reads and writes rows | claim, batch, finish, cancel, report | agent over HTTP, job queue, catalog |
| Agent, `agent/SakuraDriveAgent.ps1`, `agent/SakuraDrive.Agent.psm1` | the worklist of the walk in progress | `Invoke-AgentJobs`, `Invoke-CatalogScanJob`, `Get-CatalogBatch` | routes |
| Catalog service, `server/services/catalog-service.ts` | `files`, `catalog_runs`, `catalog_changes`, rollups | `beginRun`, `recordFiles`, the deletion sweep, `finishRun`, rollups, hash queue | scan, hash and duplication workflows |
| Bit-rot scan, `server/workflows/catalog-hash.ts`, `server/services/hash-ingest.ts`, `bitrot-service.ts` | hashes of the files, findings | hash queue, `applyAgentHashes`, findings | job queue, alerts |
| Duplication, `server/workflows/catalog-duplication.ts`, `packages/shared/src/duplication.ts` | levels of the files, the shortfall table, the pool rollup | refresh of the levels, rollup, sweep of the shortfalls | catalog, rules, alerts |
| Benchmark, `server/workflows/perf-benchmark.ts`, `server/services/perf-service.ts` | `perf_results`, a job | measure, resume, judge | job queue, agent, alerts |
| Backups, `server/workflows/backup-verify.ts`, `server/services/backup-service.ts`, `kopia-client.ts` | `backup_runs`, issues, the listed files | list, compare, alert | Kopia, catalog, alerts |
| Exports, `server/workflows/export-backup.ts`, `server/services/export-service.ts` | bundles in the data directory and at the destinations | write, copy, verify, prune, import | settings, destinations |
| Alerts and notifications, `server/services/alert-service.ts`, `discord-notifier.ts` | `alerts`, the `notifications` outbox | `raise`, `resolve`, `reconcile`, `flush` | everything that finds a problem |
| Reports and inventory, `server/services/agent-service.ts`, `root-detection.ts` | drives, volumes, pools, their parts | ingest of reports, alert rules, adoption of roots | alerts, settings |
| Settings, `server/services/settings-service.ts`, `packages/shared/src/settings.ts` | one document | update, replace, masking | six writers: two reports' handlers, four pages |
| Agent distribution and self-update, `server/services/agent-dist.ts`, the end of `SakuraDriveAgent.ps1` | files on the host and a state file | install, probation, rollback | agent |
| Schedule, paths, globs, `packages/shared/src` | none | pure functions | everything |
| Authentication, database, web interface | see `PROJECT.json`, "components" | | |

The behaviours that are hard to test, each at its line, are the "hazards" of
`PROJECT.json`. They are of five kinds: requests and a scheduler pass that
interleave at an `await`; a cursor that outlives what it refers to; a job that
two sides believe they own; a batch, reply or process lost at the worst moment;
and work that must eventually be given the disks.

What makes each component correct:

* **Engine.** One workflow per concurrency group; the map and the rows agree; a
  run once begun is never forgotten; a hand-started run is not stopped by the
  window or by preemption; the window, preemption and resumption are obeyed in
  the end.
* **Scan.** A file is marked deleted only if it was missing at some moment of
  the catalog run that marks it (or the walk came back to its directory by a place
  from which a removal had shifted it), and a finished root holds no file that was
  missing throughout; a pass, however cut up, deals with each root.
* **Jobs.** One outstanding job per root, and the workflow polls it; an agent
  that vanishes does not hold the disks for ever.
* **Bit rot.** A change of content that leaves size and mtime alone is reported,
  and nothing else is; what is reported is alerted; the hashes catch up with the
  files.
* **Alerts and outbox.** A condition is open exactly while the last word about it
  is bad; what counts as sent was shown or counted in a message, and so is in the
  end whatever is queued.
* **Self-update.** A rollback ends at whole files of one version that has worked,
  and a rejected version is not installed again; a host ends up with what is shipped.
* **Exports, backups, benchmarks.** A destination that had a whole bundle has one
  still; the verdict on a backup is right once troubles are over; every measurement
  is judged, and the alerts say what the newest row says.
* **Pool figures and history.** Each file is counted once, with the disks it is on;
  a shortfall is alerted when it lasted; the log of a file is one story; the loss
  foretold for a disk is what only that disk has.
* **Pool members, settings, timetable.** A disk has one root and a folder the
  copies DrivePool keeps; what was set on purpose stays unless an older copy is
  saved over it; the window turns when the dashboard says so.

## 2. Modules

| Module | Models | Used by |
|---|---|---|
| `WorkflowPromise` | abstract: workflows that take turns, idle, begun or busy | `WorkflowEngine` (refinement) |
| `WorkflowEngine` | `engine.ts` | `MCWorkflowEngine`, `WorkflowEngineProofs` |
| `WorkflowEngineProofs` | theorems about `WorkflowEngine` | |
| `AgentScanProofs`, `ScanRootsProofs`, `HashScanProofs` | theorems about the three scans | |
| `AlertsProofs` | theorems about `Delivery` and `Reports` | |
| `UpkeepProofs` | theorems about `SelfUpdate`, `Exports` and `BackupVerify` | |
| `ConfigurationProofs` | theorems about `Configuration`, `PoolMembers` and `Schedule` | |
| `RecordsProofs` | theorems about `PoolFigures`, `CatalogHistory` and `Benchmark` | |
| `AgentScan` | the scan of one root on both sides of the process boundary | `MCAgentScan` |
| `ScanRoots` | a pass over all roots; the agent's part of a root is one step | `MCScanRoots`, `MCServices` |
| `HashScan` | the bit-rot scan of one root, both sides, with its findings and their alert | `MCHashScan` |
| `Alerts` | the alert rows and what raising, resolving and reconciling makes of them | `Reports`, `Delivery` |
| `Reports` | an agent's reports, the rules over them, and the alerts that follow | `MCServices` |
| `Delivery` | from an alert to Discord: outbox, overlapping flushes, retries | `MCServices` |
| `SelfUpdate` | the agent that replaces itself | `MCServices` |
| `Exports`, `BackupVerify`, `Benchmark` | the three workflows of these names | `MCServices` |
| `PoolFigures` | the pool rollup and the duplication check beside the scans | `MCServices` |
| `CatalogHistory` | the log of changes, the cached figures, mass deletion, the loss of a disk | `MCServices` |
| `PoolMembers` | the pool's parts and levels, from dpcmd to the roots and rules | `MCServices` |
| `Configuration` | the settings document and everything that writes it | `MCServices` |
| `Schedule` | the timetable and the minutes until the window turns | `MCServices` |

`MCServices` takes `ScanRoots` and the eleven that follow it together: their
variables are disjoint, a behaviour picks one of them (`component`) and the others
stand still. It saves starting TLC twelve times and says nothing about how they
interact; where two of them touch the same code (alerts, catalog rows, settings)
the module that states the property has the other's effect as an action.

Definitions named "Mutant of X" change one definition as a plausible mistake
would; `PROJECT.json` says which property each must break.

### WorkflowEngine

The server is a single event loop, so an action is the code between two awaits.
A run is `<<workflow, row>>`; `rows` holds what `workflow_runs` says of it,
`active` the row each map entry points to, `stop` the `stopReason` of each
execution, `starter` the `start()` calls that are waiting, and `tick` the pass
in progress with the values it read before its awaits. `RunNowWaits`,
`KeepWaiting` and `RunNowResumes` are the loop at engine.ts:208-221 cut at its
`await run.promise`: the first one stops a member of the group and waits, the
last one begins the run *without looking again*, as the code does. `Ends` is the
`finally` that deletes the map's entry and wakes the waiters. `TickBegins`,
`TickPreempts`, `TickVisits`, `TickFresh` and `TickEnds` are `tick()` cut at
`await hasWork()`. `Quiet` says when other events can run: a continuation that
is ready runs before any of them, and with the definitions registered today,
which answer `hasWork` at once, so does the rest of a pass. With `TickYields`
the pass is cut for real, as the interface `boolean | Promise<boolean>` permits.

Left out: progress, statistics and logs, `status()` (its minutes are in
`Schedule`), `pruneRuns` (it deletes rows that nothing reads again). Cursors are "present or not".

### AgentScan

One root. `Begin` is the choice of the catalog run and `enqueue`; `PollQueued`
to `PollFailed` are the branches of the poll loop at catalog-scan.ts:270-342;
`SweepBatch`, `SweepEnds` and `FinishRoot` are `finishRoot`. `Claim`, the batch
actions and `Finish` are the routes; a batch is a request that is sent, accepted
or rejected, recorded a page per action, and answered. `PostBatch` is
`Get-CatalogBatch` followed by the post. The faults are a lost request, a lost
reply (`LosesCall`), an agent that dies and a service that restarts.

A worklist is a set of pairs of a directory and a place in it (`dir|n` in the
code), because no property depends on the order in which directories are taken. The
place is a number, applied to whatever the directory lists when the walk comes back
(`Listing`, `Place`): `Taken` is what a batch goes through from there until it is
full, directories included, and `Continuation` the place of the entry that did not
fit. `Rank` is the order of a listing, taken to be the same at every look (NTFS lists by
name). A file that comes or goes moves the places of those after it, and
`Shifted` names what a removal takes out of the way of a worklist: the entry that a
walk would have come to next, with all that is below it if it is a directory. Time is
a choice ("the claim timeout has passed", "the agent has been silent for five
minutes") instead of a clock. `span` is a ghost: for each file, whether it has
been there, has been missing and has been shifted since the catalog run began. Alerts,
statistics and the contents of files are left out.

`InTime` says that nobody is slower than the code expects: an agent that is
alive is heard from within five minutes, and a batch has been recorded before the
next scan of its root begins. `RootStays` says that the root is not removed from
the settings meanwhile. The safety run assumes both; `ScanSlowAgent` shows what
becomes of the promise without the first, `ScanEnds` does without the second.

### ScanRoots

The whole pass: `pass` is the execution with its own copy of the enabled roots
and of the cursor, `saved` the cursor in the row. A root's files are in two
parts, those a walk reaches before it is paused and after. Parts may be removed
from the disks and none are added, so a part that is on its disk has been there
throughout and the sweep has no business marking it. The two are in directories of
their own: what a removal does to a place in a directory is the business of
`AgentScan`.

### HashScan

One root. A file is a stamp (its size and mtime) and its bytes (its content, and
the hash of it); `rows` keeps of a `files` row the stamp the last scan saw, the
hash and the stamp it was taken under (`at`), whether the hash is older than
`rehashIntervalDays` (`aged`) and whether there is a `hash_error`. `Due` is the
WHERE clause of `hashQueue`, `Batches` its ORDER BY and LIMIT. `Begin`, `Ask`,
`PollQueued`, `PollClaimed`, `PollDone` and `Ends` are `run()` and
`hashViaAgent()`; `Claim`, `Reclaim` and `Finish` the job row; `Stat`, `Read` and
`Replied` the agent, which looks at size and mtime first and reads the content
after; `BatchArrives`, `RecordFinding`, `RecordHash` and `BatchDone` one batch.
The batch route has no `await`, so no other request comes in between, but also no
transaction, so the service may die between any two of its statements: each is a
step, `ServerFree` keeps everybody else out meanwhile, and `Restart` may come at
any of them. `SetStatus` is the operator who closes findings or reopens them.

`Write` gives a file new content and a new stamp, `Rot` new content under the
old stamp; the ghost `was` remembers what each file has been. Which content a file
starts with is immaterial, because every property treats the contents alike.
Nothing is hashed twice in one read and a batch's results may be applied in any
order, as they concern different files.

A batch may outlive its run: a job put back on the queue and claimed again is
still claimed when a restart ends the run it belonged to. A restart in the middle of
such a batch leaves a finding that neither an alert nor a run answers for until the
next run begins; the ghost `cutOff` marks these states.

`FreshList` says that nobody writes to a file between its last scan and the end
of its hashing. It hides two things, both below: a write that straddles the look
at the stamp and the read (`HashStraddle`), and a file that changed after its scan
and is hashed over and over. The safety run assumes it.

Left out: the loop over roots, a changed algorithm, a tolerance on mtimes
(`mtimeToleranceMs` is 0 unless configured), and `verified`, which the agent never
sends: a finding is `open` until a person says otherwise.

### Alerts, Reports, Delivery

A row is its state, its severity and what has been announced of it. `Reports` has
ten keys of five categories, each with the collector that can see it; a report is a
record of sections, any of which may be `Missing` because the collector failed.
`Ingest` is the report route with all it calls: rules, raises, then the
reconciliation of the scopes of `reconcileScopes`, of the pools and of the cache.
`said` is a ghost: the severity in the last word about each condition. A section
that covers an entity may lack a value: a drive that smartctl did not read and
Windows' counters did has no attributes and perhaps no temperature, and `fsutil` may
not tell the dirty bit of a volume. No value is no word; the ghost `unread` holds the
conditions that were bad and lost their value that way.
`Delivery` cuts `flush` at its webhook: `FlushBegins` selects and posts, `FlushSent`
and `MarkRetry` apply the answer to the same rows whatever has become of them since.
A message shows its first `Embeds` rows (nine) and says how many more there are
(`ShownOf`); all of them are marked sent. The ghosts `heard` and `counted` are what
Discord has been shown and what it has only had counted.
Rate limits and refusals are one case. `Outage` is smaller than `MaxAttempts`,
which is the assumption under which nothing is dropped.

### SelfUpdate

One run of the scheduled task: `Resolve-AgentUpdateState`, the cycle, the check for
an update, the copies aside, the swap, the state file. Files go one at a time, so that
`Killed` may come between any two: `RemovesAside` empties `.previous`, `CopiesAside`
fills it, `Swaps` brings the new files, `Restores` puts the old ones back, and
`RestoreEnds` writes the state that says so. The state file itself is written in one
step. A version `works`, `throws` in its cycle or `dies` in it; one that dies does so
before it looks for an update.

### Exports, BackupVerify, Benchmark

A bundle is whole or cut, which only reading it back tells. A listing is a set that
grows, may be cut short, and is compared in one step, as the code does without an
`await`. A snapshot holds expected files, other files and directories, all of which
count towards `MaxEntries`, which cuts every listing of a snapshot that has more;
what it has listed then differs from time to time, but that it is too short does not. In `Benchmark` a job has its run and its targets, an agent what it has left
of them, and speeds are whole numbers; `bench.done` is what the run had measured when
it began or was resumed, which is looked up once and used after two awaits;
`Evaluated` is the loop of `evaluateRun`, a recursive function of the rows, and `Nth`
the sorting in `median`.

### PoolFigures, CatalogHistory

`roller` is one rollup of `rebuildPoolDirStatsYielding`, a row per page, of which a
scan and the check may have one each; `dupCheck` the four phases of the check;
`untrusted` the paths that changed since the stored rollup began, of which nothing is
promised. `CatalogHistory` has whole files with two stamps, so that "modified"
differs from "restored", the runs of each member with their states, the log of changes
by SQLite's row ids, and the scan cut at its sweep; `cutShort` marks the members whose
sweep a restart cut in two. `CopiesListed` counts the disks that hold a file, as the
storage view does, and `CopiesFound` its rows, as the search does.

### PoolMembers, Configuration, Schedule

`PoolMembers` has DrivePool itself (`setLevel`, inherited downwards), the probe that
asks folder by folder and descends where the answers differ, the rules it sends, and
`ResolvedLevel` of a folder from those and the rules by hand. A folder is the sequence
of the names on its path. The ghost `learned` is what the last accepted report was made
from; while nothing is set during a probe (`fresh`) it must be what DrivePool has. `Configuration` counts versions: each
part of the document has the number of the write it holds, and `meant` the number of
the last write on purpose. An open page has a copy and what was edited in it; saving
sends all of the copy. `undone` are the parts an older copy has overwritten.
`Schedule` takes the minutes as they pass and holds the dashboard to what it said;
`Later` is the cursor of the two loops.

## 3. Runs

| Run | Instance | Shows |
|---|---|---|
| EngineSafety | hash, perf (io group, scheduled) and prune (neither); 2 rows each, 1 failure, 1 waiting request | all safety properties of the engine, and the refinement |
| EngineRunNow | scan, hash, perf; two waiting requests; Run now only | map entries are never orphaned, nobody parks on a run that has ended |
| EngineScheduling | scan, perf; everything, with fairness | the four liveness properties |
| EngineTwoRequests | as EngineRunNow | **violation**: two runs of one group |
| ScanSafety | a root that lists a volatile file, a directory with a file in it, and a file; batches of up to 2; two agents; 2 catalog runs, 2 job rows, 1 fault | the safety of the scan |
| ScanEnds | two directories, two files in the lower one; batches of 1; one agent; 2 faults; the root may go | the workflow always gives the disks back |
| ScanSlowAgent | as ScanEnds, two agents, slow | **violation**: a false deletion |
| ScanUnreadable | one directory may be unreadable | **violation**: a false deletion |
| RootsEdited | the enabled roots may be `<d1,d2>`, `<d2,d1>` or `<d2>` | **violation**: the files of a root are marked deleted |
| HashSafety | two files, one of which is written to once and rots; two agents, posts of one file, 2 job rows, 1 fault | no false alarm, no rot missed, findings alerted; hashes catch up, runs end |
| HashStraddle | the same without `FreshList` | **violation**: a false alarm |
| Services | the twelve components of `MCServices`, below | their safety, and the liveness of delivery, self-update and verification |

What `Services` gives each component, and the property it checks:

| Component | Instance | Property |
|---|---|---|
| roots | two roots, one in a pool; 4 catalog runs, 2 restarts | `PassLeavesNothingBehind`, `PassVisitsEveryRoot` |
| reports | five sets of keys, one per behaviour; raw values 0 to 2, a window of 2 samples | `AlertsFollowTheLastWord` |
| delivery | one condition, severities 1 to 3; messages of 2 rows that show 1, 2 flushes at once, 1 refusal of 2 attempts, 1 restart | `OutboxTellsTheTruth`, `OutboxDrains` |
| update | four versions (works, throws, dies, works); 2 faults | `RollbackIsSafe`, `HostCatchesUp` |
| exports | two destinations that keep one bundle; 2 mishaps | `DestinationsAreHonest` |
| verify | two expected files, another one and a directory, a limit of 3 entries; 1 change, 2 troubles | `VerdictCatchesUp` |
| bench | three disks, two agents, two runs, 1 upset | `MeasurementsAreJudged` |
| figures | two parts on one disk, two paths; a scan and a check; 3 days, 2 writes | `FiguresMatchTheCatalog` |
| history | three members on two disks, one file; 3 catalog runs, 2 changes | `CatalogAnswersTruly` |
| members | five folders, three of them one in the other, probed two deep; one disk; 2 reports, 2 edits | `PoolIsKnown` |
| settings | two settings pages, two performance pages, two volumes; 2 edits | `SettingsAreAsMeant` |
| schedule | weeks of 2 days of 3 hours of 2 minutes; 2 changes, 1 shift | `WindowTurnsWhenTold` |

Bounds. `MaxRows` rows per workflow: two are enough to tell "continue the row"
from "make another one", and the interesting states (a paused row and a running
one) need no more. `MaxFailures`, `MaxFaults` and `MaxCrashes` bound ghosts that
count events which otherwise could go on for ever; each property needs one such
event to be put at risk, and each has a mutant that the bound lets TLC find.
`MaxRuns` catalog runs: the second is needed for "the next scan". `MaxJobs` job
rows: a row that nothing refers to is reused, so two cover a job and its
predecessor an agent still believes in. The tree of `ScanSafety` is the smallest in
which a directory is cut in front of a directory, of a file and of both, with an entry
before the cut that may go and come back. In `HashScan` a file rots only into
content it has not had (otherwise it could rot back and forth for ever), a hash
ages only while no run executes (a run is short beside `rehashIntervalDays`),
`PostSize` is 1 instead of 25 so that one job takes several posts, and `MaxStamp`
2 is one write. `Starters` is the number of requests that
wait at the same time.

In `Services` a fault budget of two is the least with which one fault can meet the
recovery from another, and two editors the least with which one can be stale; a
third member of the pool on a disk of its own is what tells "on another disk" from
"on another member". A batch of two of which one is shown is the least in which a row
counts as sent that was not; four entries under a limit of three the least snapshot
that is beyond it, and three of them one that is not. Hours and days are few because the loops of `Schedule` only
compare an hour with its successor: what matters is a midnight, the end of the week
and gaps on both sides. Changes and faults do not recur, so the components come to
rest and the run has `CHECK_DEADLOCK FALSE`.

Fairness. A scheduler pass goes on (its timer fires for ever); a run that was
asked to stop winds down, because it polls `shouldContinue()` between units of
work; a promise that has resolved continues its waiters. For `ScanEnds`: the poll
loop and the sweep run on, a live agent gets on with its walk and is served,
`maintenance.prune` reclaims, and time passes. For `HashSafety`: the scheduler
begins a run when the queue is not empty or a run is half done, the poll loop runs
on, agents ask for work, do it and get served, a job nobody works on is reclaimed,
and catalog scans recur; windows that close and calls that fail count as faults,
so there are finitely many of them, without which nothing would have to be read
at all. For `Services`: the scheduled task fires and a run of the agent
proceeds (Task Scheduler; kills count as faults); the notifier's timer goes on, a
webhook call returns or fails (fetch gives up in the end), and a retry's delay passes; a
verification proceeds and its interval passes. Nothing obliges an operator to act,
an agent to ask for a scan, a window to turn, or a run to end that nobody has
stopped. `RunsEnd`, a premise of `HalfDoneIsTakenUp` only, says that a run that is
resumed again and again reaches its end.

Symmetry (of agents, of requests) is used in safety runs only. Deadlock is
checked everywhere but in `Services`.

## 4. Findings

* **Two Run-now requests** (EngineTwoRequests). Both wait for the run that holds
  the disks, and both begin when it ends: start() looks at the group before its
  `await` and not after. Two requests for the same workflow make two executions of
  it, the first of which to end deletes the other's map entry. With one request
  inside `start()` at a time the exclusion holds; that is what is proved.
* **A slow last batch** (ScanSlowAgent). A job reclaimed while its agent is still
  reading is rejected the batch; the agent does not look at the reply to a
  finished batch and reports `completed`; `finish()` takes any state for any row;
  the sweep then marks what the lost batch held. Removing the root during the
  last batch has the same effect.
* **An unreadable directory** (ScanUnreadable) is logged, and its files marked
  deleted at the end of the walk.
* **Edited roots** (RootsEdited). The cursor names a root by position.
* **A write under the reader** (HashStraddle). The agent's comment says that size
  and mtime come from the handle the hash is computed from; the code asks the path
  first and opens the file, shared with writers, after. New content is recorded
  under the old stamp, and the file is reported as rotten.

Met while modelling, and not kept as runs:

* "A half-walked tree is never read as deletions" (ARCHITECTURE.md:259) does not hold of a
  directory that takes more than one batch. The walk comes back to it with the number
  of entries to pass over (SakuraDrive.Agent.psm1:1427), counted in the listing of that
  moment: when one of those passed has been removed meanwhile, the first of the rest is
  passed over too, never posted, and marked deleted by the sweep, with everything below
  it if it is a directory, until the next scan brings it back. Between two batches that
  is seconds, between two windows a day. `NoFalseDeletion` and `CursorCovers` except
  the files this happened to (`"skipped"` in `span`) and hold of all others.
* A job put back on the queue is cancelled by the next poll once the claim timeout
  has passed since the row was *created* (catalog-scan.ts:278), however recently it
  came back; ARCHITECTURE.md:255 says it is picked up when the agent returns.
* A file written to after its last scan is hashed over and over: `recordHash` keeps
  the stamp the agent saw, `hashQueue` compares it with the stamp of the last scan,
  and that scan cannot run while `catalog.hash` has the disks. With `FreshList`
  false, TLC finds `HashRunEnds` violated. The window ends it in practice.
* A file that could not be read is never tried again: the alert says "until the
  next catalog scan clears the error" (catalog-hash.ts:120), and
  `clearHashErrors()` is called only by a test.
* No agent re-reads a file whose hash disagrees, which ARCHITECTURE.md:233 and
  hash-ingest.ts:43 count on, so nothing is ever confirmed by re-reading.
* A finding that was resolved and comes back stays resolved, with no alert
  (bitrot-service.ts:84).
* A batch that is posted after its run has ended records its findings, and the
  alert follows at its end only (routes/agent.ts:220). A service that dies in
  between leaves a finding with no alert and no run that would raise it, until the
  next bit-rot scan (`cutOff`). It takes three faults, one more than TLC is given in
  `HashSafety`; the attempt to prove `FindingsAreAlerted` found it.

Met in the components of `Services`. Where a property would be violated it states
the exception as a ghost, so that the rest of it is checked; none has a run of its
own.

* *Self-update.* An update may replace a version that is still on probation, and
  `.previous` then holds one that never worked (`hasty`; SakuraDrive.Agent.psm1:2310).
  To make room for it `.previous` is removed first and filled again file by file
  (psm1:2332-2342): killed in between, the host has neither the version that worked nor
  a whole one laid aside, and a rollback puts back part of one that failed, or finds
  nothing to put back (`bereft`). A run killed between the first file of a swap and the
  state file leaves files of two versions with nothing to roll them back (`torn`). A
  rollback that is cut is simply done again, because its state file is written last. Two reports lost to the network right after
  an update block a good version.
* *Notifications.* discord-notifier.ts:50 says that no message is dropped; one is,
  after eight attempts. Of a batch of up to 25 rows the message shows nine and counts
  the others (discord-notifier.ts:341), all of which are marked sent: a critical alert
  may be one of "16 more", and since it counts as announced nothing says it again until
  the re-notification period is over. The properties of `Delivery` therefore say shown
  or counted. A flush that overlaps another sends its rows again, and its
  late failure puts delivered rows back or marks them failed. A retry's delay lets
  "Resolved" overtake the alert. An alert that comes back within the re-notification
  period is not announced, counted from queueing and not from delivery.
* *Alerts.* A report that covers an entity clears its alerts also where it has no value
  for the condition (`unread`). When smartctl fails on a drive and Windows' counters
  fill in, the alerts on its attributes are resolved although nobody looked at them,
  and the one on its temperature too if the counters lack it; agent-service.ts:146 says
  that a failed poll must not do this, and it does not only if the drive is in no
  section at all. A dirty bit that fsutil would not tell clears its alert the same way.
  `checkRootsReachable` asks rows of volumes that never go
  away, so a disk that is gone is not reported (maintenance-prune.ts:94).
  `agentStaleMinutes` is 60, but only maintenance looks, every twelve hours.
  Turning performance checks off leaves their alerts open. A severity that falls
  silently and rises again reopens an acknowledged alert.
* *Exports.* A stopped export leaves a cut bundle under its final name. A failed
  destination waits for the next day; a run that crosses midnight skips one. The
  import is not atomic. The page's "also import settings" is sent as the text
  `false`, which `z.coerce.boolean()` (routes/exports.ts:88) takes for true: every
  import from the page replaces the settings, with `__REDACTED__` for the
  credentials of a redacted bundle.
* *Backups.* The exit code of `kopia ls` is ignored and a stop during the listing
  ends it early; either is compared as if it were complete. So is a listing that reached
  `maxEntriesPerSnapshot` (kopia-client.ts:241): a snapshot beyond the limit has its
  remaining files reported missing, critically, by every run for as long as it is so
  big, which is why `VerdictCatchesUp` is exact up to the limit only. An interrupted run's row
  is the newest, and the page shows nothing missing. A disabled expectation leaves
  its alerts open.
* *Benchmark.* A failed or unavailable job counts as a completed benchmark. A run
  resumed and judged while its job is outstanding leaves rows nobody judges
  (`orphaned`). A disk that is removed keeps its alerts.
* *Pool figures.* The figures a page reads are forgotten at the start of a rebuild
  that yields, so a request in the middle keeps old ones for five seconds. Of two
  concurrent rebuilds the last to end wins. A disabled root's files keep their
  levels.
* *History.* A restart in the middle of a sweep splits the count of the
  mass-deletion alert (`cutShort`). A search counts the rows of a file
  (catalog-service.ts:1575) where the storage view counts its disks, which
  catalog-service.ts:1446 calls the honest figure: with two members of a pool on one
  disk the search shows a copy too many, and the property holds it to the number of
  disks only where no two members that hold the file share one. `totals()` leaves out the roots not rolled up
  yet. The disk of a root is found by its volume's label. Rows of disabled roots
  count as surviving copies.
* *Pool members.* A disk that gains or loses its letter changes its path and gets a
  second root, against root-detection.ts:40 (`moved`); rows of parts are never
  removed, so that a disk which left the pool is still offered. A report without
  rules leaves the old ones. Without dpcmd `Get-PoolInventory` returns before the
  discovery its help describes.
* *Settings.* Settings.tsx:75 sends the whole draft; what anyone else wrote since it
  was loaded is undone (`undone`). The performance page loses one of two overlapping
  clicks. Edits made while the refetch after a save is outstanding are discarded.
* *Timetable.* A full timetable is said to close in a week. Cells dragged over
  faster than the grid is drawn are lost: each is applied to the grid of the last
  render.
* *Streaming JSON.* A closing bracket too many makes the depth negative, and what
  follows is lost.

## 5. Proofs

Every theorem holds for all values of the constants that the named assumptions of
the modules admit: sets of workflows, files, agents, roots, destinations and pages
of any size, and any bound on rows, runs, faults and edits. Where a hypothesis is
needed beyond those it is part of the theorem and named here. Before each proof TLC
checked the inductive invariant on an instance.

**Engine** (`WorkflowEngineProofs`), whether or not `hasWork` yields:

* `TypeCorrect`: the type invariant. It is inductive as it stands.
* `GroupExclusion`: with one request inside `start()` at a time (`OneStarter`,
  the negation of which the violation above exploits), one run per group, and the
  map agrees with the rows. Neither is inductive: a request that is about to begin
  holds no entry in the map. `Exclusion` adds what the waiting requests know: a
  starter that was woken finds its group empty, and one that waits does so for the
  only member there is.
* `OneRequestAgrees`: with `OneStarter`, `MapAgreesWithRows`. To `Exclusion` it adds
  `Unforked`: a workflow has one live row at most and a failed row keeps its cursor.
* `ForcedRunsAreLeftAlone`: no pass asks a hand-started run to stop, also when any
  number of requests collide. `AskedForced` (a run begun by Run now carries the
  force flag while it runs) is the invariant it needs.
* `NobodyIsOrphaned`: `NoRequestIsOrphaned` however many requests collide, from
  `Awaited`: who was not woken waits for something that runs.
* `ProgressIsKept`: a cursor goes only with the completion of its run.
* `WindowIsObeyed`: no scheduled run that nobody forced begins outside the window,
  however old the pass's own reading of the clock.
* `EngineKeepsPromise`: each step of the engine is a step of `WorkflowPromise` or
  a stutter, from the invariant of `GroupExclusion`.

**Scan of a root** (`AgentScanProofs`). The invariant is built in layers, each of
which uses those before it:

* `TypeCorrect` and `OneJobAtATime`, for every interleaving and fault. `Referred`
  (what a call, an agent or the workflow names exists and is in use) and `OneRun`
  are what makes `OneOutstandingJob` inductive.
* `WhatIsKeptWasThere`, with `InTime`: what a finished root leaves in the catalog was
  there at some moment of its run. `Timely` says that a batch still being recorded
  belongs to the run in progress and holds what was seen in it.
* `EveryCursorCovers` and `NothingIsSweptByMistake`, with `InTime`, `RootStays` and
  `Unreadable = {}`: every worklist leads, by the listings of the moment, to every file
  not recorded yet, so that the sweep marks nothing that was there all the time and was
  never shifted. The places are counted: a file that comes or goes before an entry moves
  it by one (`PlaceGrows` and the lemmas after it), what was to come is still to come
  when an earlier entry appears, and when one goes it is still to come unless it was
  the very next (`Shifted`). `Continuation` passes nothing that was not taken. `OneWorker` (an outstanding
  job has one agent, and what that agent waits for is its own) excludes that a
  slower agent puts back an older cursor; `Covered` states the reach of all the
  worklists in flight: of the saved cursor, the jobs, the agents and the posts. These
  hypotheses are the constants of `ScanSafety`; `ScanSlowAgent` and `ScanUnreadable`
  show what happens without the first and the third. `TreeAssumption` says what the
  proof uses of a tree: each file is under the top, and a listing has one order.

**Pass over the roots** (`ScanRootsProofs`). `TypeCorrect` without hypotheses.
`NothingIsLeftBehind` and `EveryRootIsVisited` with `RootsStay` (nobody edits the
roots; `RootsEdited` shows why). The invariant `InOrder` relates the pass in memory to
the cursor in the row, which is behind by one root at most: `Resumable` (what a
cursor skips was seen in the run it names), `WalkedBeforeSwept`, `OpenRunsAhead` (a
run in progress is of the root the pass is at, or of the next one while it repeats
what a restart cost), `PoolsRemembered`, `VisitedBehind`.

**Bit rot** (`HashScanProofs`). `TypeCorrect`, `BaselineIsKept` and
`NobodyIsLeftUntold` without hypotheses; `OnlyRotIsReported` with `FreshList`
(`HashStraddle` shows why). `OneHandler` (one batch is being applied, or none),
`FoundIsOnRecord` (a batch between its finding and its hash has the finding on
record), `AlertOwed` (a finding without its alert is owed one by a batch being
applied or a run in progress) and `PairsAreTrue` (each stamp with a hash, in a row, an
agent, a post or a finding, was true of the file).

**Alerts** (`AlertsProofs`). `AlertsAreCurrent`: for every set of conditions, alerts
and last words agree, apart from the conditions in `unread`; it takes in addition that
those were bad when last seen (`UnreadIsBad`: the word that a report gives again takes
them out of it) and that no agent that never reported counts as stale. `SentMeansHeard`
without hypotheses, `OutboxIsTruthful` with `OutageIsShort`
(outages are shorter than the retries cover): `StillToCome` says that a row which was
neither shown nor counted is still pending and has been refused no more often than the
outage had posts, `Noticed` that an alert which counts as announced has a row or was
shown or counted. Both rest on `ArrivesTells`: a message that arrives shows or counts
each of its rows.
`DeliveryTypeCorrect` is the type invariant of the tables and the flushes,
`ReportsTypeCorrect` that of what the reports leave behind (`RowsTyped`).

**Upkeep** (`UpkeepProofs`). `RollbacksAreSafe`: the invariant holds while neither a
swap nor a second laying aside was cut in two (`Clean`: not `torn`, not `bereft`) and
speaks of `Base`, the version the host is at: what is installed, in a swap what was laid
aside, and while a rollback puts files back, which may take several runs
(`Reverting`), the one that goes (`Current`: each file is then of one of the two). What
is brought in was not rejected and is something else (`Incoming`), a version on
probation has another one laid aside that was reported from, except while it is itself
laid aside for the next (`Remaking`; `Fallback`, `Reported`), and if the shipped
version has been rejected the state file blocks it (`OnRecord`). `UpdateTypeCorrect`
is its type invariant. `DestinationsStayHonest`: the newest bundle is whole whenever
bundles are pruned, and `Told` says who answers for a newest bundle that is not
whole: the alert, or a run that has the destination before it or will be resumed.
`ExportsTypeCorrect` bounds the files: `Counted` charges each one beyond what is
retained to a mishap, or to the copy that is being read back (`Fits`, `StagingFits`),
although a failed copy is never pruned by itself. `VerifyTypeCorrect` says that a
verification lists entries of a snapshot only, none of them twice, for any limit.

**Settings** (`ConfigurationProofs`). `SettingsAreKept`: `Fresh` says that an open
page's copy is what is stored but for the parts written since, that what it shows of
the webhook stands for the stored one, and the same of a click that has read the list.
`ConfigurationTypeCorrect`: no part, copy or bundle holds a version that nobody made;
`PartNumbered` counts what was meant of a part together with the pages that have still
to save it (`Editing`).

**Members of a pool** (`ConfigurationProofs`). `PoolIsAlwaysKnown`, with
`MembersTypeCorrect`, for every finite set of folders that holds those above its own,
every set of levels and every depth of the probe, down to no descent at all. `ProbeIsTrue`
is the argument: unless a level is set during a probe, what was read is DrivePool's
level, and of each folder that is covered something was read that is the folder itself,
or lies above it and differs nowhere below, because the descent stops only there.
`RulesAreTold` says that the rules stored are the levels the last report had, less
those that only repeat the folder above (`Changed`), and `RootsHaveParts` that a part
that is not missing names its disk by the path it has, as does a root, and that there
are roots once a part that is not missing is in the table, unless they were taken away.
That a pruned rule loses nothing is the lemma that needs the folders
of a path to be linearly ordered (`Deepest`).

**Timetable** (`ConfigurationProofs`). `WindowAlwaysTurnsWhenTold`, with
`ScheduleTypeCorrect`, for weeks of any number of days, hours and minutes. `ToldIsTrue`
says of what the dashboard said that the window stays until the minute named and turns
in it (`TurnsIn`), counted from now. The loops over the hours wrap round days and weeks
separately; the lemmas about quotients and remainders show that they visit the hour of
the week that is so many hours on (`MinuteOn`, `TurnsOn`). `OneStretch` is the lemma
behind the list of windows: an enabled hour lies in one maximal stretch of its day.

**Figures of a pool** (`RecordsProofs`). `FiguresAreTrue`, with the type invariant
`FiguresTypeCorrect`, for any parts, paths and days and any copies asked for.
`RollupIsSound` says of a rollup what its cursor means: the paths before it are
counted, each once and by their disks, of the path at it the disks read so far are
known, and nothing is claimed of a path that changed meanwhile. `TableTellsSince`
ties each row of the table of shortfalls to the sweeps that have left it there;
`CheckIsUnderWay` says who may have marked a row today and `AlertIsDue` what a finished
check has made of the table. `FiguresAssumption` asks that parts, first rows and
copies are of the pool's own parts and paths, and no more. `LeastIs` (a set of numbers
has a least one, the first file a page may begin with) is proved by counting: the
induction theorems of the library take an operator, which the provers cannot supply.

**History of the catalog** (`RecordsProofs`). `HistoryIsTrue`, with
`HistoryTypeCorrect`, for any finite sets of members and files, any placing of members
on disks and any number of scans and edits. `StoriesHold` keeps of each file and each
two neighbours in its log that the later follows from the earlier, and of the last that
the row stands where it says; pruning takes a beginning of the log and purging all of
it, which is why neither breaks the story. `RunsInOrder` and `ChangesHaveRuns` say that
runs and changes are numbered as they come, so that what the last run has deleted can be
counted; `LossIsCounted` says that while a sweep is under way its count is that of the
changes it has logged, unless a restart cut it in two, which is what makes the
mass-deletion alert right in both directions. `StatsAreKept` and `RolledUp` tie
the cached figures to the rows they were counted from.

**Benchmark** (`RecordsProofs`). `MeasurementsAreAlwaysJudged`, with `BenchTypeCorrect`,
for any list of disks, any agents, runs and upsets. Each step adds rows to the run in
progress, or judges the run, or begins one (`Grows`, `Judges`, `Opens`), and
`EveryStepSteady` shows that there is no other kind: `JobBelongs` (a job that may still
bring rows is of the run in progress, unless `orphaned`) is what excludes a row of a run
that was judged. `RowsInOrder` and `RowsAreRead` say that the rows not read yet are those
of the run in progress and come last, and `AlertsTell` that the alerts on a disk are
those its newest row that was read calls for. That stays so because the peers and the
past of a row that was read do not change (`SlowStays`). What the loop of `evaluateRun`
leaves for a disk is shown by an induction over its turns that is written out
(`LoopRuns`, `EvaluatedTells`); the median needs no lemma, because nothing depends on
which of the speeds it is.

Model-checked only:

* Liveness, which needs fairness and ENABLED: the four properties of
  `EngineScheduling`, the one of `ScanEnds`, `HashesCatchUp`, `HashRunEnds`, `OutboxDrains`, `HostCatchesUp`, `VerdictCatchesUp`.
* `ServicesTypeOK`, which is no more than the type invariants of the twelve components
  together. Each of these is a theorem of its component's own specification, so that
  the conjunction has no proof of its own.

Every other invariant and every safety property of the passing runs is stated by a
theorem.

## 6. Not modelled

* SMART decoding, the collectors of the agent and the reading and writing of the
  benchmark: look-up tables and I/O on the host.
* The Kopia client beyond what it may answer; the validation of documents by zod,
  which refuses and changes nothing; the tables of an import.
* Listing, search, charts and the tree map: SQL reads and geometry.
* Authentication, migrations, SQLite: synchronous look-ups, code that runs once, and
  a library taken as correct.
* The scanner of streamed JSON and glob matching: characters, one at a time.
* Two kinds of job outstanding for one root at a time: each is modelled without the
  other.

## 7. Plan

1. `AgentJobs`: the job queue as an abstract specification that `AgentScan`,
   `HashScan` and `Benchmark` implement.
2. Larger instances of the members and figures of a pool, one component per run.
