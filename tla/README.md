# RSS-Zen: a TLA+ model of the digest pipeline

This directory holds TLA+ modules that describe how RSS-Zen (`src/src/rss_zen`) behaves when its
processes overlap, die and are restarted, TLC configurations that check the modules on small
instances, and TLAPS proofs for every value of the constants. Paths below are relative to
`src/src/rss_zen` unless they start with `src/`.

## 1. The system

RSS-Zen polls feeds, translates articles, and once a day freezes, renders and delivers one digest
("edition") per topic to a Feishu chat. It has no server process that owns the data: several
processes share one SQLite database in WAL mode and a directory of artifacts.

| Process | Started by | Lock | Works on |
|---|---|---|---|
| `serve` | systemd service | instance lock, against a second `serve` only | feeds, articles, translations; APScheduler runs one job per feed and one retry job in a thread pool |
| `deadline-run` | timer, every minute | none | topic versions, editions up to `queued` |
| `delivery-run` | timer, every minute | none | outbox rows, with leases |
| `sync`, `translate`, `extract`, `edition-build`, `edition-redeliver`, `feed-*`, `topic-apply`, `backup`, `retention`, ... | operator, agent, timer | none | whatever they name; most begin with the migrations and the configured feeds |

Every repository method of `Database` opens a connection of its own and is one transaction (or one
read followed by one transaction, where it does not say `BEGIN IMMEDIATE`). **This is the grain of
the models: a repository call or an external effect is one action, and everything else a process
knows is local state that may be stale.**

### Components, state, operations and what makes them correct

| Component | State | Operations | Correct when |
|---|---|---|---|
| Edition lifecycle (`db.py` 665-677, 879-950) | `edition_runs.status` | transitions, redelivery | only the table's transitions happen, and every edition gets somewhere |
| Edition builder (`edition.py`) | run, frozen items, artifact file, digest | create, select, freeze, render, write, commit, enqueue, reconstruct | decided once; what is queued is what was recorded; a restart continues |
| Editorial (`editorial.py`) | `edition_editorial_results` | begin, call Pi, finish, interrupted fallback | Pi runs once; its absence never blocks |
| Delivery outbox and worker (`delivery.py`, `db.py` 1118-1451) | `delivery_outbox`, leases, backoff | enqueue, claim, send, record success/retry/terminal, redeliver | the two tables agree; leases protect a claim; the retry budget is kept |
| Feishu client (`feishu.py`) | access token | card, file | delivered means both accepted |
| Deadline coordinator (`coordinator.py`), topics (`topics.py`) | `topic_profiles`, `edition_runs` | reconcile, decide the window, build each topic, apply, build by hand | only stored versions are worked on; a topic that is due gets its edition |
| Feed sync (`sync.py`), article identity (`db.py` 1640-1702, 2654-2676) | `feeds`, `articles` | fetch, match, store, record | a recorded success means the rows are that version; no feed starves another |
| Translation (`translation.py`) | `translations` | begin, provider chain, save, retry due | a begun translation is decided; a row shows the text it names |
| Budgets (`budget.py`, `db.py` 2287-2337) | `usage_daily`, memory | reserve | nothing is sent beyond the ceilings |
| Batch runs and extraction (`db.py` 2498-2619, `cli.py` 463-812, `extraction.py`) | `batch_runs`, `batch_run_items`, `extractions` | create, search, translate, checkpoint, skip, tally, resume | checkpoints are true; a resumed run completes |
| Scheduler (`scheduler.py`) | jobs | schedule, run, retry, shutdown | polls and retries go on |
| Feed control (`control.py`, `feeds.py`) | probe tokens, `feeds`, audit | probe, add, disable, reconcile, import | a token is used once, every change has an audit, the configuration wins |
| Retention, backup, migrations (`db.py`, `backup.py`) | the whole database | migrate behind a snapshot, back up, prune, delete | deletes only what a backup has; the old schema stays restorable; a crash leaves a startable database |
| Export, configuration, status and doctor, deployment | little or none | | not modelled (section 8) |

### How they interact

    configuration file --> feeds --sync--> articles --translate--> translations --retry job--+
           |                 ^                |  ^                      |  ^                 |
           |        agents --+                |  +-- retention          |  usage_daily <-----+
           v                                  v                         v
    topic versions --> deadline-run --> edition_runs --> items --> Pi --> artifact --> delivery_outbox
           ^                                  ^                                         |        |
           +-- agents                         +------------- edition-redeliver ---------+        |
                                                              Feishu <-- delivery-run (leases) --+

The hard behaviours are where two of these processes meet: two builders of one edition, a
translation that changes while its edition is rendered, a delivery whose lease runs out, the retry
job picking up a translation in flight, agents who change what a command has just read, commands
that migrate or prune at once, and every crash between two transactions. `PROJECT.json` lists them
line by line under `hazards`.

## 2. The modules

| Module | Models | Kind |
|---|---|---|
| `EditionLifecycle` | what an edition's status promises: `_EDITION_TRANSITIONS` and redelivery | abstract specification |
| `DeliveryOutbox` | outbox rows, workers, Feishu, redelivery, minutes | detailed, implements `EditionLifecycle` |
| `EditionBuild` | `EditionBuilder.build` by several processes, with Pi, drift, crashes and a lost file | detailed, implements `EditionLifecycle` |
| `Coordinator` | `deadline-run` over the topics of a configuration that is edited, `topic-apply`, `edition-build` | detailed; a build is one action |
| `UsageLedger` | what `reserve_usage` promises to its callers | abstract specification |
| `TranslationWork` | one article and its translation row under syncs, retries and commands | detailed, EXTENDS and implements `UsageLedger` |
| `FeedSync` | rounds over several feeds of several entries, their articles, freezing and retention | detailed |
| `FeedControl` | the `feeds` table under agents, reconciling commands, an OPML import and `serve` | detailed |
| `BatchRun` | one checkpointed batch, of translations or extractions, and the commands that resume it | detailed |
| `Maintenance` | migrations, snapshots, backups and deletion by several commands | detailed |
| `<module>Proofs` | theorems about eight of them (section 5) | proofs |
| `MC<module>` and its `.cfg` files | instances for TLC | model checking |

A definition that ends like `...Unchecked`, `...OnlyX` or `...Any` and stands just before the
definition it resembles is a mutated form of it: `PROJECT.json` pairs each checked property with
one, and the property must fail when the mutated form is used.

### `DeliveryOutbox`

`edition`, `outbox`, `attempts`, `owner`, `errorCode` are the columns of the same meaning;
`leaseLeft` and `waitLeft` are the minutes until `lease_expires_at` and `next_attempt_at`; `pc`,
`snapshot`, `current`, `outcome`, `elapsed` are the locals of `DeliveryWorker.run_once`, `accepted`
is what Feishu has taken. `Claim`, `RecordSuccess`, `RecordRetry`, `RecordTerminal`, `Redeliver` and
`Enqueue` are the repository methods; `StartDelivery` is `record_usage`; `SendCard`, `SendFile`
and `DeliverFails` are `FeishuClient.deliver`, whose answers may be lost; `LeaseLost` is the
`ValueError` that ends `run_once`. `IdOf` gives each process its worker id: the command line passes
the same one from every process (`cli.py` 1356), both runs do so, and the theorems hold for any. Two
histories count, for each edition, the leases that ran out and were taken over (`lapses`) and the
redeliveries.

### `EditionBuild`

One action per repository call of `build` (the steps of `pc`), `seen` being the edition record the
builder holds and `draft` the rendering it has made. A rendering is a record of the sections shown
(article, frozen source, which version of title and body), whether it says degraded and whether Pi
edited it; the digest is the rendering itself. Articles and translations change underneath by the
actions `ArticleChanges`, `TranslationBegins` and `TranslationSucceeds`; `overlapped` remembers that
two builders have been at work at once.

### `Coordinator`

`config` is the file, `profiles` the stored versions of each topic, `editions` one row per topic,
version and local day, `job` what a process has read. A run reads the file (`conf`), reconciles it
topic by topic (`Inserted` and the clash that raises), and then visits the topics in the order of
the file: not due, absent, open, built. Contents are model values; the schedule that the code reads
out of them (time zone, deadline, preparation, enabled) are functions of a content, and instants
and local days are computed from them with the division the time zone implies. `EditionBuild` is one
action here, which queues the edition or raises (`broken`); a raise ends the loop, as in
`coordinator.py` 63-103. A dry run (`Rehearse`, then `Validate` for one topic after the other) reads
the same file and tables and writes nothing; `verdict` is what it last said of a topic as configured.

### `UsageLedger` and `TranslationWork`

`UsageLedger` has two actions: `Reserve` (one transaction) and `Call` (what crosses to the provider
uses up a reservation). `TranslationWork` follows one article through `sync_feed` (fetch, match,
store, feed done) and `translate_article` (detect, latest, begin, reserve, send, save), run by
syncs, retries and forced orders at once. A text is a version number; `row` is the `translations`
row and its `shows` the version that was really translated. `Crosses` records a call whether or not
the ledger would allow it, so that the refinement says something. Providers, chunks and attempts
are kept, language detection and the texts are not.

### `FeedSync`

`rows` is a feed's part of `articles` (an id, GUID, URL, text, and whether retention finds it old),
`etag` and `failing` the columns of `feeds`, `published` what the server would answer. Any number of
rounds may overlap. A round lists the feeds with their validators once, fetches with up to
`MaxAttempts` requests, keeps the first `MaxEntries` entries of the answer (`Kept`, as
`_parse_entries` does), and takes them one at a time: `_find_article`
by GUID and then URL is one step, the INSERT or UPDATE another, and the one that breaks
a unique key ends the whole round (`Violation`). `Freeze` is the builder's, `Purge`
retention's: SQLite gives the id of a deleted article to a later one, and the model does too. Of the
histories, `settled` is the version whose success was recorded last, `alone` says whether the rounds
that stored it met another one in the feed, `reused` whether an id was given out under a round.

### `FeedControl`

`feed` keeps who wrote a row last and whether it is enabled; `token` and `audits` are the tables of
the same meaning. `feed-add` is three steps (consume the token, upsert, audit), `feed-disable` two;
reconciliation and the OPML import go row by row; `serve` reconciles, schedules what was enabled
then, and polls until it is stopped.

### `BatchRun`

`item` and `run` are the two status columns, `stored` the latest result of an article, `job` the
locals of each command, `done` counts real work, `overlaps` the commands that began while another was
at work, which nothing prevents. An extraction pays for a search and for the
translation of what it found; a translation is one call. The checkpoint of an item, the skips after
a spent budget and the status of the run are separate steps, as they are separate transactions in
`cli.py` 562-613 and 749-802.

### `Maintenance`

`tables` and `recorded` are what the migrations made and what `schema_migrations` says; `snapshots`
the pre-migration files in the order of their names, `backups` and `tmp` the backup and temporary
file of each second, each with its contents. A command migrates (snapshot, prune, apply one version
at a time), then may back up (copy, publish, list, unlink) and delete what it counted before. `Count`
is the number of backups each command keeps, by the configuration it read (`models.py` 63: one or
more). `PruneRaces` is two commands that unlink the same snapshots, of which one ends with
`FileNotFoundError`. Two backups in one second share the temporary file: `PublishStolen` is the
verification that opens a name that is gone, and so publishes an empty database.

## 3. What TLC checks

| Run | Instance | Shows |
|---|---|---|
| `delivery_shared` | 2 editions, 2 workers with one id, 2 attempts, 1-minute leases that run out under them, 1 crash or redelivery | the tables agree, delivered means accepted, a further holder or claim of an edition has cost a lease, usage covers calls; implements `EditionLifecycle` |
| `delivery_live` | the same with batch size 1 and workers that finish within their lease | every queued edition ends delivered or terminal |
| `build_rivals` | 2 builders, 2 articles, Pi, 2 changes, 1 crash | frozen once, queued what was recorded, degraded is reported, only frozen articles shown, Pi once, the file the recorded one while nothing changes; implements `EditionLifecycle` |
| `build_live` | 1 builder, Pi on or off, 2 changes, 2 faults | the edition is queued when nothing moves, a lost file comes back |
| `coordinator` | 2 topics of 3 contents, days of 3 ticks, 1 `deadline-run` after the other, 1 operator with dry runs and builds by hand, 2 interventions | only stored versions are worked on, an edition keeps the schedule of its version, what a dry run said holds until somebody changes it, an open window gets its edition |
| `work_serve` | feed job and retry job, 2 texts, 2 days, 2 chunks, 2 attempts, 1 crash | implements `UsageLedger`; begun work is decided, the last text stored, translated when the text is quiet |
| `work_commands` | `serve`, `sync` and `translate` on one article, 2 providers | types, and a row shows the text it names |
| `feed_sync` | 2 overlapping rounds over 2 feeds (an unreadable one, then one that edits and adds entries), 2 entries kept of each version, 2 crashes or failed fetches, 1 retention run, 1 frozen article | a recorded success is stored entry by entry up to the limit, the articles of editions stay, a feed is synchronized whatever fails before it |
| `feed_isolated` (violation) | a feed that exchanges links ahead of one that is in order | the second is never synchronized by a round |
| `feed_control` | 2 agents with one token, 1 command after the other, `serve`, 2 feeds | one add per token, an audit for every change, the configuration wins |
| `batch_run` | 3 articles, 2 per command and per budget, 2 commands that overlap once, 1 crash, `translate` or `extract` | checkpoints are true, success is repeated only for a crash or an overlap, everything gets done |
| `maintenance` | 2 commands at once, one keeping 1 backup and the other 2, 2 migrations, 1 item, 2 dates, 1 crash | the old schema stays restorable, nothing is deleted without a backup of it, the upgrade completes |

**Bounds.** Two processes are what the hazards need: each is a race of two, or of one and its own
earlier self. Two articles let an order differ and one be translated while the other is not; two
topics let one stop or overtake the other; two attempts separate "retry" from "last attempt"; a
lease of one minute lets it run out at any step; two chunks let an attempt stop half-way through
its budget; two migrations let a crash fall between them; three contents let a topic be early, due
on another local day, and disabled. `MaxClaims`, `MaxInterventions`, `MaxDrift`, `MaxFaults`,
`MaxTexts`, `MaxCrashes`, `MaxOverlaps`, `MaxOrders`, `MaxPurges`, `MaxFrozen`, `MaxChanges`,
`Horizon` and `MaxNow` bound only the environment (`MaxEntries` is a setting of the program); no step of the program is cut off by them except `Claim` at `MaxClaims`,
which is above the attempts plus the interventions that the liveness run allows.
`CHECK_DEADLOCK FALSE` is used where the work may be finished (`batch_run`, where nobody starts a
command for a completed run). `EditionSymmetry` is used in a run without liveness only.

**Processes.** No safety property assumes that a process is the only one of its kind, as the code has
nothing that keeps a second one away. What two of a kind do break is excluded where it happens, by a
history variable that names it. The liveness of `build_live` and `EventuallyStored` are checked with
one builder and one sync.

**Conditions in the properties.** Each condition excludes something that the code does or that may
happen to it, not something the model cannot do; most are listed again in section 6.

- `LeaseExcludes` and `RetryBudget` count: one more process may have an edition in hand, and one more
  claim of it be made, for each lease that ran out.
- `ArtifactIntact`: the file is the recorded rendering while no article or translation has changed, or
  no two builders have overlapped. That it shows the frozen articles is unconditional.
- `QueuedWhenSettled` excludes the three ways in which an edition is known not to be queued: articles
  that change between a commit and its retry, a crash after Pi has decided, and an editorial title
  without room.
- `TranslatedWhenQuiet` excludes crashes and changing texts (a lost trigger, and a slow save of an
  older text).
- `DryRunAgrees`: an acceptance ends when the topic is edited, or when somebody stores another content
  of the same version or a later version.
- `EventuallyBuilt` is conditional on a configuration that reconciles and on no topic ahead raising.
- `SettledIsStored` is about the entries within `MaxEntries`. Each has its article if the feed's GUIDs
  and links go together (`StableLinks`) and no id was reused under a round; with the text of that
  version, if the rounds that stored it met no other in the feed (`alone`) and no two entries of it are
  one article (`WellFormed`).
- `EditionArticlesStay`: that the article is there is unconditional; that it is the same one needs
  `StableLinks` and no id reused.
- `EventuallySynced`: no feed up to it moves its links.
- `CheckpointsAreTrue`: that what is marked has been done is unconditional; that its result is stored,
  and that a run called succeeded has nothing left, holds while no two commands have overlapped.
- `SuccessOnce` counts: one more success for each crash and for each overlap.
- `BackedUpBeforeDeletion`: no two backups in one second (`collided`), and no command that keeps one
  backup has removed the newer one of another (`robbed`).
- `AuditedUnlessKilled`: no agent has died between its change and its record.

## 4. Fairness

`delivery_live`, `build_live` and `coordinator` use weak fairness of the processes: the timers start
one every minute (`src/deploy/systemd/rss-zen-delivery.timer`, `...-deadline.timer`) and a started
process runs on or dies; deaths are bounded. `coordinator` adds weak fairness of time. `work_serve`
uses weak fairness of each job, which `scheduler.py` 76-94 registers as repeating intervals, and of
the end of a backoff; `feed_sync` weak fairness of rounds, for the same reason. `feed_control` lets
nobody be obliged to start a command: started commands go on, and systemd restarts `serve`
(`ConfigurationWins` says so in its premise). `maintenance` uses weak fairness of each command,
started again by timers and systemd. `batch_run` assumes an operator who resumes a run that has
something left, and (strong fairness of `Search` and `Succeeds`) that no article fails for ever.
Nothing assumes that a feed publishes or that a translation succeeds.

## 5. What is proved

All proofs are for any value of the constants that satisfies the module's own assumptions
(`WorkerAssumption`, `BatchAssumption`, ...); further conditions are in the theorem.

- **`DeliveryOutboxProofs`**: `TypeCorrect`, then `OutboxAgreesAlways`, `LeaseFieldsMatchAlways`,
  `DeliveredWasAcceptedAlways` and `FinalStatusAlways`, whatever ids the workers have;
  `LeaseExcludesAlways` and `RetryBudgetAlways`, for any finite number of workers under one id or
  several. The first is inductive once a worker's batch is read as the rows it has a count of (`HeldOK`).
  The second needs `SpentOK`: once a row has had `max_attempts` claims, the further ones, together with
  those the workers in hand of a younger claim may still allow and the one a waiting row is owed, are
  within the leases and redeliveries. A stale worker can spend its own claim's leave to retry once only.
  `UsageCoversCallsAlways`, for finite sets: the ledger's count is the size of a set of claims, each
  claim a row and a value of its `attempt_count`. Inductive (`ChargeOK`, `CallsOK`) is that no claim
  still waiting in a batch is in that set, that no two workers remember one claim, and that a worker
  between `record_usage` and its first answer is paid for beside the editions that reached the chat.
  `ImplementsLifecycle`: each step maps to a step of `EditionLifecycle` or to a stutter.
- **`EditionBuildProofs`**: `TypeCorrect` and `ImplementsLifecycle` for any number of builders;
  `PiOnceAlways`, from who may be about to call Pi while the result is recorded as running;
  `QueuedIsRecordedAlways` and `FrozenForGoodAlways`, whose invariants tie what each builder holds to the record at the moment it
  may still commit it; `DegradedIsReportedAlways`, from what every builder has in hand: a rendering
  that is translated throughout unless it is marked as degraded, of the frozen articles as long as
  Pi has not been heard, and marked if the editorial fell back (`BuilderOK`, `EditionOK`);
  `ShowsFrozenArticlesAlways`, from the same invariant with the lists themselves: what a builder has
  in hand shows each frozen article once, in the frozen order or in Pi's; and `ArtifactIntactAlways`
  for any number of builders: while nothing changes, whatever any of them may still commit or write is
  the one rendering of what is frozen; while none overlap, the draft in hand is what the file holds
  between writing it and recording its digest. `TypeCorrect` and all that follow it here assume
  `~IsRendering(NoRendering)`: the absence of a draft is no draft.
- **`CoordinatorProofs`**: `TypeCorrect` (with the arithmetic of local days in it),
  `WorksOnStoredVersionsAlways` and `KeepsItsScheduleAlways`. The invariant says, step by step of a
  process, which versions it has made sure are stored; it is kept because a stored version never
  changes. `KeepsItsScheduleAlways` rests on the arithmetic of `DeadlineAt`: its instant has the local date
  and time it was made of, for every offset. `DryRunAgreesAlways` says what each action does to an
  earlier verdict: a refusal can only be lifted by an edit, since versions only grow and never change,
  and an acceptance ends exactly with the writes that the property names (`Supersedes`).
- **`TranslationWorkProofs`**: about `UsageLedger`, `LedgerTypeCorrect`, `WithinCeilingAlways` (a call
  needs a reservation, a reservation needs room) and `NeverRefundedAlways`. About `TranslationWork`,
  `TypeCorrect`, `AttributedAlways` (every write of the row takes text and hash from the same article
  record) and `ImplementsLedger`, so that the ceilings hold of it (`CallsWithinCeilingAlways`). The
  refinement needs that what has been sent, and what the processes hold unsent, is within what was
  reserved (`CallsReserved`). The sum over the processes is not a fold but a measure on sets of them
  that is additive over one process (`IsMeasure`, `Covered`), which exists for the empty holding and is
  carried along each step, so no induction over the set is needed.
- **`FeedControlProofs`**: `TypeCorrect`, `ProbedOnceAlways` (strengthened by what an agent holds
  between consuming a token and adding the feed) and `AuditedUnlessKilledAlways`.
- **`BatchRunProofs`**: `TypeCorrect`, `CheckpointsAreTrueAlways` and `SuccessOnceAlways`, for any
  number of commands at once (the last one for finitely many). The invariant says that, while none
  has overlapped, nothing on a command's list is checkpointed as succeeded and what it is about to mark
  is stored; and that the successes of an article, with the commands that may still add one, are within
  the crashes and overlaps so far, and one more while it is checkpointed as succeeded, about to be, or
  on somebody's list (`Counted`).
- **`FeedSyncProofs`**: `TypeCorrect` for any number of rounds at once (rows have unique ids and the
  identity of an entry, what a round has left is the end of the kept part of one version, the article
  of an edition exists), and, for as many rounds, `SettledIsStoredAlways` and
  `EditionArticlesStayAlways`. Their invariants say that what a round found is still that article when
  it writes, unless retention deleted it and the id went to another, and that every entry a round has
  passed has its article, too young for retention, and its text as long as it met no other round: a
  later entry replaces a row only if it has its GUID or its link.
- **`MaintenanceProofs`**, for any number of commands: `TypeCorrect`; `MigrationsInOrder` (the versions
  recorded have no gap, and each one's tables are there exactly if it is);
  `UpgradeCanBeUndoneAlways`, whose invariant `UndoOK` numbers the snapshots of later schemas: they are
  at most as many as were taken since the upgrade began, so that pruning to `Keep` does not reach the
  one before it; and `BackedUpBeforeDeletionAlways`, for any retention counts. Its invariant (`NamesOK`,
  `BackupOK`) says that, until two backups collide or a newer file is robbed, every
  file of a backing command's second or later holds everything expired as it is (`Good`), that one
  such file is there until the command has deleted, and that each file about to be unlinked has a
  later one: another command's pruning may take the command's own file, but never the last of those.

Every invariant and every action property of the runs is proved, and so are the three refinements.
Only model-checked are the liveness properties, as fairness and `ENABLED` are out of the prover's
reach: `EventuallyResolved`, `QueuedWhenSettled`, `ArtifactRestored`, `EventuallyBuilt`,
`EventuallyDecided`, `EventuallyStored`, `TranslatedWhenQuiet`, `EventuallySynced`, `ConfigurationWins`,
`EventuallyDone` and `EventuallyUpgraded`.

## 6. Disagreements found

As a run and a finding: `src/README.md` 122 says that a feed failure is isolated. A feed that moves
links between its entries raises `sqlite3.IntegrityError` in `reconcile_article`, `sync_all` catches
`AppError` only, and the feeds after it are not reached by this round or any later one
(`feed_isolated`).

The following are stated in the modules, or hold only under the conditions above; TLC refuted them
while the modules were written, and no run repeats it:

- `RecorderHoldsCurrentLease` (`DeliveryOutbox`): with the worker id all `delivery-run` processes
  share, a worker whose lease ran out records on another one's (`db.py` 1374 says "while holding the
  current lease"; the statements compare ids). Its decision is that of its own, earlier
  claim, so that a row may wait for a retry with more claims than `max_attempts`.
- The artifact of an edition may be another rendering than the recorded one, if translations change
  while two builders overlap: each writes the file before its transition is compared (`edition.py` 212).
  The delivery then refuses the file by its digest (`feishu.py` 216).
- `EventuallyQueued` (`EditionBuild`): an edition whose builder dies after Pi has decided may render
  to another digest on every retry, and reaches neither delivery nor a terminal state
  (`edition.py` 147).
- `EventuallyTranslated` (`TranslationWork`): a sync that dies between storing an article and
  translating it is not made up for: the next answer is 304, or finds the text unchanged
  (`sync.py` 107).
- `ExhaustionIsRetryable` (`TranslationWork`): at the last attempt a spent daily budget makes a
  translation terminal (`translation.py` 372).
- `EventuallySucceeded` (`BatchRun`): a command that dies between the last checkpoint and the status
  leaves a finished run `running`, and there is nothing to resume (`cli.py` 609).
- Two commands on one batch run replace each other's results under a checkpoint that says succeeded,
  and one may call the run succeeded after the other has skipped an article (`cli.py` 514); an extraction with a run budget of one call never progresses, as each resume pays
  for the search again.
- Two rounds at once may store an older text last under the newer ETag (`sync.py` 73). If retention
  deletes an article between a round's match and its update, and the other round's insert is given the
  same id, the update overwrites that article (`db.py` 1645).
- The entries past `max_entries_per_feed` are cut before they are stored, and the validator of the answer
  is recorded as if it had been taken whole: a 304 then keeps them away until the feed changes
  (`sync.py` 95, 120, 149).
- An article that is deleted by retention while its feed answers 304 is gone until the feed changes
  (`sync.py` 91).
- `backup.py` 25 says "The just-created snapshot is always retained". With a retention count of 1 a
  command also removes the newer file another one has just made, and the other's retention then deletes
  what no file has. Two in the same second share the temporary file, and one may publish an empty
  database (`backup.py` 65).
- Two commands that prune pre-migration snapshots at once unlink the same file, and the second one ends
  with `FileNotFoundError` before it has migrated (`db.py` 2704).
- Retention deletes nothing once an expired article belongs to an edition: the foreign key refuses
  the whole statement (`db.py` 583).
- `topic-apply` commits a version before its audit record (`cli.py` 1137).

## 7. Plan

Done: the modules and proofs above. Left, in this order:

1. `EditionBuild` inside `Coordinator`, in place of its one-step build, on an instance small enough.
2. Export (`export.py`) and its log of runs, once it has a second writer.
3. Pure algorithms with reference definitions: chunking of text, title deduplication, backoff.

## 8. Not modelled

Parsing and network input and output (`http_client.py`, `network.py`, feed parsing): their outcomes
are the choices of the actions; of `get_feed` the attempts are in `FeedSync`, the waits, redirects
and URL checks are not. Rendering of Markdown and escaping: layout. `config.py` and `models.py`:
validation, which becomes assumptions on the constants. `export.py`, `status`, `doctor`, reports:
reads of the database. Restoring a backup: done by hand. Logging. The deployment scripts and the
project tracker under `src/.pi`. The Feishu access token and upload: steps before the card with no
effect of their own. Usage counters other than the translation budget and the delivery attempts:
they are counted, nothing reads them to decide.
