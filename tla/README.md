# A TLA+ verification of Xray Checker

Xray Checker is a Go service that keeps a set of proxy nodes under observation.
It reads subscriptions, runs one Xray process with an inbound per node, checks
every node periodically, measures speed, keeps an archive of what it saw, sends
Telegram alerts, publishes an announce text to a Remnawave panel, and can ask
remote probe agents for a second opinion. Its web pages translate themselves in
the browser. This directory models the parts of it
whose correctness depends on order, concurrency or failure, checks them with TLC
and proves the central results with TLAPS.

`PROJECT.json` is the index: components, runs, mutants, the map from definitions
to source lines, findings, hazards and theorems. This file explains them.

## 1. The system

Source paths are relative to the repository's root.

| Component | State it keeps | Operations | Interacts with | What is hard about it |
|---|---|---|---|---|
| startup transactions (`backup/restore.go`, `nodemerge/`, `main.go`) | staged, applied and rollback directories under `data/`, commit marker | stage an archive or a merge; at startup recover, install, load, commit or roll back | every owner of a state file, which loads between installation and commit | crashes between any two renames, failing file operations, two kinds of transaction over the same files |
| diagnostic session manager (`diagnostics/manager.go`) | sessions, one job per requested agent, accepted observations | create, register job, dispatch, accept, cancel, delete, list, expire | controller | the clock is read before the lock, late answers, a full table |
| remote probe controller (`remoteprobe/controller.go`, `web/remote_diagnostics.go`) | assignments, waiter channels, refused jobs | create (admin, sweep, automation), long poll and claim, accept, cancel, delete, clear | manager, checker, agents over HTTP | two locks one after the other, lost replies, wake-ups |
| probe agent (`probeagent/client.go`, `cmd/probe-agent`) | the job at work, refused jobs | poll, probe, submit, restart | controller | redelivery, process restarts |
| probe agent registry (`probeagent/registry.go`) | agents, keys, sequence numbers, enrolment tokens | enrol, heartbeat, request check, rename, revoke | web handlers | replays, rotation of keys |
| checker (`checker/`) | proxies, status per node with its timers, active run, maintenance modes | full, recovery and manual runs, cancel, host diagnostics, maintenance, refresh | archive, metrics, Telegram, announce | runs against mode switches, several writers of one status |
| node archive (`nodearchive/store.go`) | records with downtime, proxy failure, incidents, history | sync, record availability, maintenance, project pause, delete, merge | checker, main | accounting outside the lifecycle lock, list read before the lock |
| workflows of `main.go` (`projectmaintenance/`, `observation/`) | lifecycle lock, project flag, source policies | node maintenance, project maintenance, refresh, check iteration, recovery loop | all of the above | writer-preferring lock, partial failure of a multi-step switch |
| Remnawave announce (`remnawave/`) | policy, ownership of the remote text, recovery timers, conflicts | sync, reconcile, adopt or forget a base, settings, project pause | checker, archive, the panel's HTTP API, Telegram | the remote text has two writers; crash between PATCH and save; lost answers |
| speed tests (`speedtest/`) | active run, schedule, results, probes taken in maintenance, reserve endpoints | run, schedule, cancel, settings, delete history | checker, lifecycle lock, Telegram, agents | one run at a time under the lifecycle lock, cancellation at any moment |
| speed reports (`telegram/speedalerts.go`) | pending confirmations, their entries and timers, `node_alert_state.json` | report, schedule a confirmation, confirm, postpone, clear, restore | speed tests, workflows of `main.go` | two locks taken in two orders, timers against clears, restarts |
| agent automation (`agentautomation/`) | tasks per node, cooldowns | observe failures and speed results, dispatch diagnostics | controller, speed tests | duplicate triggers, retries after busy agents |
| reachability (`reachability/`) | matrix of node and agent with hysteresis, sweep | sweep, confirm, merge results | controller, checker | stale sweeps, confirmation counts |
| Telegram (the rest of `telegram/`) | alert states, reminders, mutes, drafts | alert, remind, resolve, digest, commands | checker, archive, speed tests | failed sends, duplicated alerts, restarts |
| subscription and Xray (`subscription/`, `xray/`, `subsource/`) | proxy list, Xray process, sources | parse, refresh, restart with rollback | main | suspicious refresh, failed restart |
| small stores (`verdictlog/`, `backup/automatic.go`, `pathquality/`, `paneltelemetry/`) | journals and caches | append, rotate, load | web | limits and rotation |
| page localizer (`web/static/localization.js`) | language, saved language, per text node and attribute the source seen and the output written | start, switch the language, translate what the page changes | the scripts of the pages, `MutationObserver`, `localStorage`, other tabs | it hears its own writes; a dictionary whose translations may be keys again; a memory that outlives the text it is of |
| web handlers, metrics, logger, docs | none of their own | presentation | everything | - |

What makes each part correct: state files change only by whole commits
(startup); a job is executed once unless something was lost and an ended session
stays ended (remote probes); a status says what was observed in the mode it was
observed in, and the archive accounts exactly what is not paused (checker,
archive); the operator's text survives and the status line is true in the end
(announce); a stored result is a whole measurement of a monitored node, and a
slow one is either reported or sure to be confirmed (speed tests); every text of
a page is the current language's form of what the page wrote last, and the
localizer comes to rest (localizer). `PROJECT.json` lists the hazards of the code
at their lines, with the property that would catch each of them.

## 2. Modules

| Module | Models | Kind |
|---|---|---|
| `AtomicStateStore` | what the startup transactions promise: the durable state changes by whole transactions | abstract specification |
| `StateTransactions` | `backup/restore.go`, `nodemerge/transaction.go`, `nodemerge/merge.go`, the startup sequence of `main.go` | detailed specification |
| `StateTransactionsInv` | its inductive invariants | invariant |
| `StateTransactionsProofs` | theorems and proofs | proofs |
| `DiagnosticSessions` | `diagnostics/manager.go` | specification |
| `DiagnosticSessionsProofs` | its inductive invariant, theorems and proofs | proofs |
| `RemoteProbe` | controller, HTTP handlers and agents' job loops on top of `DiagnosticSessions` | composition |
| `RemoteProbeProofs` | that it implements `DiagnosticSessions`, its inductive invariants, theorems and proofs | proofs |
| `Availability` | checker, archive accounting and the workflows of `main.go` | composition |
| `AvailabilityProofs` | its inductive invariant, theorems and proofs | proofs |
| `Announce` | `remnawave/` for one External Squad | specification |
| `AnnounceProofs` | its inductive invariant, theorems and proofs | proofs |
| `AnnounceTextProofs` | what happens to the operator's text: lemmas about texts, invariant, theorems and proofs | proofs |
| `SpeedTests` | `speedtest/`: Run, the run's phases, cancellation, results | specification |
| `SpeedConfirmation` | `telegram/speedalerts.go` and the workflows of `main.go` on top of `SpeedTests` | composition |
| `SpeedConfirmationProofs` | its inductive invariant, theorems and proofs | proofs |
| `LocalizationDictionary` | the dictionary and the patterns of `web/static/localization.js`, and `translate` | pure functions |
| `Localization` | the localizer on a page that changes under it | specification |
| `LocalizationProofs` | its invariant, theorems and proofs | proofs |
| `MC*` | constants for TLC | model checking |

Mutants (definitions commented `Mutant:`) stand before the definition they
replace and are used nowhere else: for every property of every passing run one of
them, put in the place of the modelled code, makes TLC find the property
violated.

### 2.1 Startup transactions

Every rename, removal and marker write is one action, and `Crash` may happen
between any two. A file is abstracted to its origin (the number of the
transaction that made it, `Fresh`, `Absent`), which is all that atomicity tells
apart. `pc` is the position in the startup sequence: recover the merge, recover
the restore, apply a pending restore, apply a pending merge, load every owner
(who may write files of its own), confirm. `IOError` variants of the file
operations take the code's error paths, undo loops included.
`AtomicStateStore` knows one durable state; the refinement mapping computes it
from the directories: what a start would settle on. Its steps are the commit of
a restore, the commit of a merge, and an owner's first write of its file.

### 2.2 Remote diagnostics

`DiagnosticSessions` has one action per exported operation of the manager. Each
runs with a time `t` that may be `LockWait` old, expires what is due at `t`,
acts, and derives the session's state again, as the code does under its lock.
`RemoteProbe` adds the controller: an operation that takes the manager's lock
and then `c.mu` (or the other way round) is split into steps at the place where
it holds neither (a listing of sessions too: `ListSessions` is the manager's half and
`ListDropsExpired` the controller's, which depends on nothing of the first); `holder` is
`c.mu` where the code keeps it over a call into
the manager. A long poll is a process that sleeps on its agent's waiter channel
(`token`, capacity one). An agent's loop polls, probes, submits; `Disconnect`
loses a reply in flight, `AgentRestart` the agent's memory.

### 2.3 Availability

The readers of the lifecycle lock are the check runs, the writers the three
workflows; Go's `RWMutex` prefers a waiting writer, and the model's lock does.
A run takes the gate, snapshots candidates, checks hosts or proxies node by
node (`Probe`, then `Diagnose` for a failure), may be cancelled at any point, and
leaves its caller an accounting pass. Accounting reads the list of proxies
(`list`) and takes the store's lock later. Telegram's
`RefreshHostDiagnosticsByStableID` runs beside all of it. One regular iteration,
one recovery run and one manual run exist at a time, as in the code. Left out:
latency, failure causes, mass incidents, history samples, and the checker's
generation counter (`RunSeesOneConfiguration` shows that it cannot change inside
a run).

### 2.4 Announce

A text is the sequence of its lines; a status line is the set of parts (rule and
labels) that rendered it, so two messages are equal exactly when their inputs
are. `evaluateLocations`, `computeDesired` and `Plan` are the pure decisions of
the code; `Fetch` reads the panel and decides, `Write` is the PATCH, `Persist`
writes the ownership file; `WriteFails` is a refused request or one whose answer
is lost after the panel took it; `PersistFails` and `Restart` lose the file or
the memory. `asked` stands for the loop's tickers, its trigger and the admin
page's sync: each looks at the project flag and then waits for `operationMu`.
The history variables `own` (what the operator typed of the text in the panel),
`author` (who wrote last), `lost` (the checker lost knowledge of what it wrote) and
`given` (the most status lines in a text the operator adopted as his base) exist for
the properties only. A status line that the checker does not recognize any more can be
adopted with the text before it and is then part of the base; it is counted in `given`
and not in `own`, and no longer expected in the panel once the base is forgotten. An adopted
base is a prefix of lines here and of bytes in the code (`strings.HasPrefix`,
`remnawave/service.go:611`), so a base that ends inside a line, or a text that goes on
in the base's last line, is not covered. Left out: other headers, several squads, a squad that is
deleted, the template texts and their length fallbacks, migrations.

### 2.5 Speed tests and confirmations

`caller` holds one call of `Run` per kind of caller (panel, schedule, the
confirmation timer); `TakeGate` is the rest of `Run`, from the read lock to the
answer, since a refusal releases the lock at once and a start hands it to the
run. `run.stage` takes every node through the primary attempt, the queue for the
reserve endpoints and the reading of its result; `Cancel` may come between any
two. A measurement is its verdict. `Notify...` are the steps of
`NotifySpeedTest` between which it holds no lock, one goroutine per report, so
reports overtake each other, switches and runs. The end of a run is three steps, as
the code has it: `EndRun` makes the manager free under `m.mu`, `persistResults` saves
what the manager has by then, and `ReportRun` hands the report on and releases the
gate; another run may start in between, so `readers` counts the run in progress and
the runs that still save. A confirmation is an entry with
its timer; `armed` is the copy of the targets that the timer's closure keeps, so
a timer that has fired goes on although its entry was cleared. `retryMu` is the
goroutine that keeps `speedRetryMu` while it calls `Run`; everybody else's use of
that mutex is one step. A save is two (`SaveBegins` takes `stateSaveMu` and reads the
active nodes, `SaveEnds` reads the confirmations under `speedRetryMu` and writes), and
one save runs at a time (`saver`). `SwitchAsk` waits for the write lock, and what was
asked for shows when the lock is there; a switch then acts or returns early
(`NothingToSwitch`), and, for a pause, clears the confirmations with the lock held. A
refresh releases the lock and prunes in three steps (`prune`): it reads the active
nodes, collects the others that wait, and clears them, and each may find what the
step before it has seen changed. One switch is under way at a time. The nodes of the model are
the ones followed: a refresh may remove all of them, and a run of all nodes may
measure none of them. `touched` and `orphaned` are history. Left out: the
deadlines of the schedule and of the timers, muting, several nodes' competition
for slots in the run (the module has it, the instance has one node), history
and settings, agents' diagnostics (`AwaitIdleNodes` is part of the wait for the
gate), a failing write of the state files, and saves that other parts of Telegram cause
(alerts, mutes).

### 2.6 The page localizer

A slot is a place that holds one text: a text node or an attribute. `shown` is
the document, `memo` the two `WeakMap`s, `dirty` and `echo` the records the
observer has not been given yet, told apart by who made the change. JavaScript
runs to completion, so `init`, `setLanguage` and the observer's callback
(`Deliver`) are one step each; `apply` is the pass they share, with the early
returns of `translateTextNode` and `translateElementAttributes` in `Touches`. Around
it the page does what the scripts of `web/templates/admin.html` do: it renders new
nodes, some of them with texts it had translated by `tr`, sets labels of elements
that stay, moves and removes elements, and is loaded anew; another tab saves a
language; `localStorage` may refuse to be read or written. `inserted` and `asked`
are history: what the page put into a slot, and what it asked `tr` for.

`Localization` takes the translation as a constant function, so that the proofs
hold for every dictionary. `LocalizationDictionary` is the one of the code: a text
is a wording, an argument and its white space; `ru` merges the sections of the
literal so that the later of two entries counts, `patterns` is the ordered list
with neighbours that accept no common text taken together, and `translate` looks
up, then tries the patterns in order. Of the 837 entries it has those that
behave in a way of their own (left as they are, translated to another key, given
twice, accepted by a pattern too, sharing a translation) and one or two that stand
for the rest.

The assumptions are facts of the pages: white space is no key, and no attribute
is set to two texts of which one is the Russian of the other
(`UnconfusableAssumption`). The dictionary does hold such pairs ("Muted" and
"Mute", "Speed test" and "Speedtest", "Low Mbps" and "Low-speed threshold, Mbps");
a label that alternated between the two would be left in the wrong language.

## 3. Runs

Times are for two workers. Bounds are named in the modules.

| Run | Checks | Bounds and why they are enough |
|---|---|---|
| `state_atomic` | `CleanWhenRunning`, `RefusalsExplained`, the inductive invariant `IInv` (which contains `TypeOK` and `Exclusive`), refinement `AtomicStore`, `PendingKept`, liveness `StartupSettles` | three files (two of them a merge replaces, one of those is written by its owner), three archives with and without the owner's file, two transactions, two crashes, one I/O error: a second transaction meets the leftovers of the first, and a crash can hit the recovery from a crash |
| `state_double_fault` | `OriginalsKept` | two I/O errors: the second hits the undo of the first. Atomicity does not hold then (the code reports the failure and leaves the rollback directory), so only what still holds is claimed |
| `state_unfinished` (violation) | `NextStartupSettlesIt` | see Findings |
| `sessions` | `EndedSessionsAreSettled`, `AtMostOneObservation`, `EndedSessionsStayEnded`, `AcceptedInTime` | two sessions, two agents, a table of one: every creation meets a full table; clock 0..4 with `LockWait` 1: an operation may run with a time before a deadline that has passed |
| `probe_redelivery` | `AssignmentsAreBacked`, `ProbedAgainOnlyAfterLoss` | one agent with two overlapping polls, lost replies, an agent restart, Clear and maintenance |
| `probe_liveness` | `NoLostWakeUp`, `OneSessionPerPair`, `SubmissionsAnswered`, `AssignmentsLeave` | two nodes and two sessions over one agent, so that a job can starve behind another; no losses, because the liveness claims are about a connected agent |
| `availability` | seven properties | one node, two runs, five events (1.5 million states): nodes do not interact in the code but through the lock and the run, and five events let a switch, a refresh and a cancellation meet two runs |
| `availability_offline` (violation) | `OfflineMeansNoAnswer` | see Findings |
| `announce` | seven properties | two locations, one of them with two servers and one server with two transports; three operator texts (one extends another, one without the prefix); four events of changes, edits, requests and faults, and any number of passes between them; a start with a remembered restoration too |
| `speed` | `ProbesOfThisWindow`, `StoredIsMeasured`, `ConfirmationAlive`, `WaitingIsSaved` | one node, one manual and one scheduled call, two confirmations, two switches (a window of maintenance and its end), one crash; verdicts `ok` and `low` (4.1 million states): the second call makes the manager busy for a confirmation, one run can start while another still saves, and two reports can be under way |
| `speed_deadlock` (violation) | `SwitchesEnd` | one scheduled run, one confirmation, one pause |
| `localization` | `ShownIsTranslated`, `TranslatedOnceOrTwice`, `NoEcho`, `SwitchIsComplete`, `Settles` | four slots, one of each kind the code tells apart: a text node of the HTML, one filled through `tr`, an attribute set anew, one the localizer must leave alone; nine texts, among them a padded one whose Russian is a key again, one broken over two lines, a name that reads like a pattern, one with two entries, and white space; four writes or reloads, any number of switches, moves, removals and callbacks (100,000 states): slots do not interact but through the language and the batch of records, and four writes give one slot two generations of text in each language |

`Availability` keeps its type invariant in the run, since it ties the lifecycle
lock to the steps of its holders. The other modules' type invariants are not among
the runs' properties: those of `DiagnosticSessions`, `Announce`, `SpeedConfirmation`
and `Localization` are proved.

What each property means stands above its definition. The ones that carry most:

* `AtomicStore` - the detailed startup implements `AtomicStateStore`.
* `RefusalsExplained` - a start that refuses does so over one of three known
  leftovers, and nothing else can make the service refuse to start for good.
* `EndedSessionsStayEnded`, `AcceptedInTime` - although every operation may work
  with an old time.
* `ProbedAgainOnlyAfterLoss` - at-least-once delivery executes twice only when
  something was lost.
* `ModeBoundary` - no status outlives the mode (live, paused, project) in which
  it was observed.
* `AccountingAgrees`, `PausedNotAccounted` - downtime and incidents follow the
  checker's status and never a paused node.
* `OperatorTextKept`, `NoSelfLock`, `Converges` - the announce keeps the operator's
  text, does not refuse its own, and ends up telling what the checks say.
* `ShownIsTranslated`, `NoEcho` - the page reads right once the observer is done,
  and the localizer does not translate its own translations.
* `ConfirmationAlive`, `WaitingIsSaved` - a slow result that is held back for its
  confirmation is not forgotten, by a busy manager, a clear or a restart.

### Fairness

`StartupSettles` needs `WF(Startup)`: a process that was started goes on; crashes
and errors are bounded, not fair. `ProbeFairSpec`: handlers and agents run on,
agents poll again, and time passes; nobody is obliged to create or cancel.
`Announce`: the loop's tickers fire for ever (`WF(Ask)`), a waiting request gets
the mutex (`WF(Served)`; Go's mutex hands over after a millisecond of
starvation), the topology ticker is not ignored for ever by `select`
(`SF(Synced)`), requests end by their timeout (`WF(Write)`, `WF(Persist)`), and
clocks go on (`SF` of the two delays). Faults, edits, and operators' requests have
no fairness; `Converges` speaks of what happens when they stop.
`SpeedConfirmation`: every goroutine that can go on does (`WF` of the run, of each
call, of the reports, of timers and their goroutines, of the switch); requests,
cancels and crashes are not fair. The deadlock of `speed_deadlock` is a state in
which none of these can move. `Localization`: the browser fires `DOMContentLoaded`
(`WF(init)`) and runs the observer's microtask (`WF(Deliver)`); nobody is obliged
to write or to click.

## 4. Findings

* **A blocked rollback** (`state_unfinished`). The documentation promises that a
  cut-off transaction is finished or rolled back at the next start. When an owner
  has written a file of its own that the archive does not hold, and a later loader
  rejects the restore, the rollback stops over that file, at every later start.
* **Interrupted diagnostics look like a dead host** (`availability_offline`).
* **A pause and a confirmation wait for each other** (`speed_deadlock`). The
  confirmation timer calls `Run` with `speedRetryMu` held and waits for the
  lifecycle lock; the pause holds the lifecycle lock and waits for `speedRetryMu`.
* **Clear races a creation.** `Clear` deletes sessions and then drops the
  assignments of the nodes it cleared, those of a session created in between too,
  although `PROJECT_CONTEXT.md:105` promises one active session per node and agent.
  No run of its own: `ProbeLiveness.cfg` with `ClearScopes <- ClearAll` ends in the
  counterexample.

`PROJECT.json` quotes the lines of the first three. More things the models show without a run of
their own are notes at their hazards: an accounting pass between `UpdateProxies`
and `SyncProxies` leaves the incident of a removed node active; two I/O
errors in one undo leave a restore half undone (reported, not silent); a
confirmation run that is cancelled settles nothing, so its nodes stay silent
until a restart or a good manual result; a report that overtakes a pause schedules a
confirmation for the paused node; a reconcile that waited behind a pause of the
project has looked at the project flag before it waited, does not look again, and
writes the panel in maintenance. Read in the code and not in a model: a manual
measurement in project maintenance is not shown, since `Snapshot`
(`speedtest/manager.go:636`) skips probes of nodes that are not paused themselves,
while `README.md:422` calls it visible; and a cancelled run counts reserve
attempts that the cancellation broke off as failures of the endpoint
(`speedtest/fallback.go:303`).

Hazards the models contain and no property can claim to exclude: an operator's
edit of the header between reading it and the PATCH is overwritten, since the API
has no precondition (`remnawave/service.go:504`; `OwnAfter` in `Announce`); the
configuration may be refreshed between the comparison of the generation and the
acceptance of an observation (`remoteprobe/controller.go:721`; the manager compares
again, with the session's own generation); and the late reconcile above
(`remnawave/service.go:429`).

About the pages: a text made by `tr` in Russian stays Russian after a switch to
English until the page renders it again, since nobody listens to
`xray-language-changed` (`TranslatedOnceOrTwice` speaks of Russian only);
`PROJECT_CONTEXT.md:269` says that operators' data are not translated, and only a
few elements carry `data-i18n-skip`, so a node called "load balancer" is shown
with the pattern for the load applied (the model has such a text); a click on the
language that is already active saves nothing, so the choice of another tab wins
at the next reload; of eleven texts with two entries five have two different
translations ("All", "Concurrency", "Last seen", "Disabled" and one sentence), and
the later one is shown everywhere.

## 5. Proofs

All theorems hold for every value of the constants that the modules' named
assumptions allow: any sets of files, sessions, agents, nodes, members, texts, and
any bounds. Besides those, a theorem assumes only what its row says. Each of the
inductive invariants below was checked by TLC on the instance of its run before it
was proved.

### 5.1 Startup transactions (`StateTransactionsProofs`)

| Theorem | Statement | Assumes |
|---|---|---|
| `TypeCorrect` | `Spec => []TypeOK` | - |
| `Invariance` | `Spec => []IInv` | `MaxIOErrors <= 1` |
| `MutualExclusion` | `Spec => []Exclusive` | - |
| `OriginalsAreKept` | `Spec => OriginalsKept` | - |
| `RunsClean` | `Spec => []CleanWhenRunning` | `MaxIOErrors <= 1` |
| `RefusalsAreExplained` | `Spec => []RefusalsExplained` | `MaxIOErrors <= 1` |
| `PendingIsKept` | `Spec => PendingKept` | `MaxIOErrors <= 1` |
| `Atomicity` | `Spec => AtomicStore` | `MaxIOErrors <= 1` |

None of the safety properties is inductive: that a crash in the middle of the
install loop is harmless depends on which files are staged, installed and moved
aside, and on the marker. `IInv` says so phase by phase: `DiskOK` relates the
directories, `NumbersOK` orders the transactions, `RestoreContents` and
`MergeContents` say where every file of an uncommitted transaction is, and
`InstallPhase`, `RollbackPhase`, `CommitPhase`, `IdlePhase` say what holds at each
`pc`. TLC checks it in `state_atomic` first. Every action has a step per conjunct
it can disturb. `Atomicity` shows that the mapping of the initial state is
initial, and that each action is a commit, an owner's write or a stutter of the
abstract store. With two I/O errors the statement is false (the
undo itself can fail), hence the assumption.

What holds with any number of I/O errors needs an invariant that does not say where
the files are: `CommitInv` relates only the marker, the phase and the applied
transaction. From it follow `MutualExclusion` and `OriginalsAreKept`: even an undo
that fails half way never destroys a file it had moved aside. `RefusalsAreExplained`
adds `MovedAside` to `IInv`: what can be in the place of a file a restore has moved
aside, which leaves the file of an owner as the only obstacle to a rollback.

### 5.2 Remote diagnostics (`DiagnosticSessionsProofs`, `RemoteProbeProofs`)

| Theorem | Statement | Assumes |
|---|---|---|
| `ManagerTyped` | `ManagerSpec => []ManagerTypeOK` | - |
| `SessionsSettle` | `ManagerSpec => []EndedSessionsAreSettled` | - |
| `OneObservation` | `ManagerSpec => []AtMostOneObservation` | - |
| `SessionsStayEnded` | `ManagerSpec => EndedSessionsStayEnded` | - |
| `ObservationsInTime` | `ManagerSpec => AcceptedInTime` | - |
| `ProbeRefinesManager` | `ProbeSpec => ManagerSpec` | - |
| `DiagnosticsKeepPromises` | the first two invariants, of `ProbeSpec` | - |
| `AssignmentsBacked` | `ProbeSpec => []AssignmentsAreBacked` | - |
| `WakeUpsKept` | `ProbeSpec => []NoLostWakeUp` | one poll per agent |
| `PairsHaveOneSession` | `ProbeSpec => []OneSessionPerPair` | `ClearScopes = {}` |
| `ProbedOnceWithoutLoss` | `ProbeSpec => []ProbedAgainOnlyAfterLoss` | no more sessions than `RefusedCap` |

`ManagerInv` says which rows of jobs go with which state of a session
(`Consistent`). The lemmas about `expireLocked` and `deriveSessionStateLocked` show
that the pair of them restores it whatever time the operation has read; an old time
can only leave a session open for longer, never open it again.

`ProbeInv` adds what the two locks share: a session has one agent and its job
expires with it (`SoloSessions`), the creator between the manager's lock and `c.mu`
is the one that holds the latter (`LockIsRegistering`), an agent submits and works on
sessions of its own, and `AssignmentsAreBacked` itself. Every step of the composed
system is then a step of the manager or leaves it alone, which gives
`ProbeRefinesManager`.

The hypotheses are the conditions under which the code keeps the promise, and TLC
finds a counterexample when one of them is dropped. The waiter channel holds one
token: of two overlapping polls of one agent, the one whose connection is gone already
and that the server has not noticed yet may take it, while the live one sleeps on
(`WakeUpsKept`; `ProbeLiveness.cfg` with `TwoPolls` and one loss). `Clear` drops the
assignment of a session created while it runs (`PairsHaveOneSession`, see Findings);
`WaitingIsQueued` is why looking at the queue is otherwise enough. An agent that has
been refused more jobs than `refusedJobs` holds forgets all of them
(`ProbedOnceWithoutLoss`). The hypothesis counts every session there ever is; the code
relies on jobs expiring within minutes, long before the 256th refusal, and its table
holds 100 sessions. `RunsAreSpent` says where a job is that was executed as often as
the losses allow.

### 5.3 Availability (`AvailabilityProofs`)

| Theorem | Statement |
|---|---|
| `AvailabilityTyped` | `Spec => []TypeOK` |
| `StatusesOfTheMode` | `Spec => []ModeBoundary` |
| `TimersAgree` | `Spec => []TimersMatchState` |
| `PausedStayClosed` | `Spec => []PausedNotAccounted` |
| `RegistryAgreesWithJournal` | `Spec => []AccountingAgrees` |
| `FailureClocksKept` | `Spec => FailureClockKept` |
| `OneConfigurationPerRun` | `Spec => RunSeesOneConfiguration` |

`AvailabilityInv` has three parts. `GateInv`: the readers of the lifecycle lock are
the runs past the gate, one run is active, and it works in the mode its nodes are
in, since a writer would have had to wait for it. `StatusInv`: every status has its
timers and its mode even while a writer is at work, which is stronger than
`ModeBoundary`. `ArchiveInv`: one record, its incident and its source
(`Accounted`). The three writers of a status (run, host diagnostics, workflow) share
the lemmas about a single status.

### 5.4 Announce (`AnnounceProofs`, `AnnounceTextProofs`)

| Theorem | Statement |
|---|---|
| `AnnounceInvariant` | `Spec => []AnnounceInv` |
| `NeverLocksItself` | `Spec => []NoSelfLock` |
| `OutagesAreHeld` | `Spec => RecoveryHeld` |
| `EvaluatedAsDocumented` | `Spec => []EvaluationAsDocumented` |
| `AnnouncedInOneWay` | `Spec => []TypeOK` |
| `TextInvariant` | `Spec => []TextInv` |
| `OperatorTextIsKept` | `Spec => []OperatorTextKept` |
| `OperatorTextIsAdopted` | `Spec => AdoptsOperatorText` |

A pass decides when it reads the panel and acts later, so the invariant speaks of
the ownerships it may end with (`Ends`, with and without the write): each is valid
and withdraws only outages that may be withdrawn (`OwnersValid`), and what will be
written is what the new ownership vouches for (`PassShape`). `WriterKnows` is the
argument against self-locking: while the checker wrote last and has lost nothing, the
panel shows what the current ownership vouches for, its own value or the text it has
put back (`Known`). A pass about to write has then nothing to forget, so a failed
request leaves the ownership as it was (`BeforeWriting`); an unanswered request or a
restart with an older file sets `lost`. `PlanFacts` says what follows from each
branch of `reconcileLocked`; `DesiredHeld` what `computeDesiredAnnouncements` may
withdraw. `EvaluatedAsDocumented` is about the pure functions alone, for every
assignment of conditions. The guard `events = 0` of the property keeps TLC from
evaluating it in every state; the proof does not use it. `Typing` adds to `TypeOK` what
a pass carries to its end; `DesiredOnce` is why a location is announced in one way.

The other module is about sequences of lines. A `Text` is typed lines followed by
status lines, and there is one place only where it splits (`TypedIs`); appending a
status line (`AppendStatus`) and taking one off (`FrontOfStatus`) keep what was typed.
`TextInv` is relative to `AnnounceInv` and has four parts:

* `TextsGood`, `PassGood`: the panel, the topology, the adopted base and every
  ownership that is or may become current hold texts; the base of an ownership has no
  more status lines than the operator adopted, or is a single line (`GoodBase`). The
  single line is what `isAppendableBaseAnnounce` lets in without knowing it: a
  forgotten status line with nothing before it.
* `WriteKeeps`: what a pass is about to write begins with what was typed in the text
  it has read, unless it follows a shorter adopted base; without a loss its base has
  no line too many. `BaseText` shows it for each of the bases `ForeignBase` may find.
* `LinesCounted`: how many status lines the panel can show, by who wrote it last. A
  text the operator left has at most one, and then something typed before it, which
  is why no status line is taken for a base while nothing is lost; one the checker
  withdrew its message from has only adopted ones.

`OperatorTextKept` allows one line beside the adopted ones, and one forgotten line more
only after a loss and when nothing was typed, which is the single line above: the text
does not grow from pass to pass, however often an answer is lost. The bound and the
exception are exact; TLC reaches both.

### 5.5 Speed tests and confirmations (`SpeedConfirmationProofs`)

| Theorem | Statement |
|---|---|
| `SpeedInvariant` | `Spec => []SpeedInv` |
| `SpeedTyped` | `Spec => []TypeOK` |
| `ProbesStayInTheirWindow` | `Spec => []ProbesOfThisWindow` |
| `MeasuredIsStored` | `Spec => StoredIsMeasured` |
| `ConfirmationsAreAlive` | `Spec => []ConfirmationAlive` |
| `WaitingSurvives` | `Spec => []WaitingIsSaved` |

`SpeedInv` has two parts. `TestInv`: the readers of the lifecycle lock are the run in
progress and the runs that have ended and not yet released it (`ReadersCounted`, so a
switch, which needs none, meets neither), and a run goes on in the mode in which it
has selected its nodes (`RunInMode`). `RetryInv`: everything that waits has a timer, a closure that has
taken it, a run that was asked for it, that run's report, or a clear on its way
(`Alive`, the strengthening of `ConfirmationAlive` that follows a target from hand to
hand); the goroutine with `speedRetryMu` is the one that calls `Run` (`Calling`), and
when its call has started a run, that run answers for what it tried (`Handed`).
`WaitingIsSaved` holds because whoever changes the entries still has the save before
it (`Saving \/ OnDisk`), and because a save under way has found every node active that
was never switched (`SaverSees`), although it read the nodes earlier than the entries.

### 5.6 The page localizer (`LocalizationProofs`)

For every set of slots and texts and every dictionary that meets the assumptions of
`Localization`:

| Theorem | Statement | Assumes besides |
|---|---|---|
| `Invariance` | `Spec => []IInv` | - |
| `TypeCorrect` | `Spec => []TypeOK` | - |
| `ShownIsTranslatedHolds` | `Spec => []ShownIsTranslated` | - |
| `NoEchoHolds` | `Spec => NoEcho` | - |
| `SwitchIsCompleteHolds` | `Spec => SwitchIsComplete` | - |
| `TranslatedOnceOrTwiceHolds` | `Spec => []TranslatedOnceOrTwice` | a second translation leaves the Russian of the texts given to `tr` alone |

What a slot shows is not inductive by itself: the localizer decides by comparing
the text with the output it remembers, so the argument is about the memory. Under
`IInv` a slot is `Settled` (the memory names the text the page wrote and the form
that is shown) or `Raw` (it shows the page's text, which the remembered output
differs from) with `init` or the observer still to come. The step that could
break it is `Assign`, which leaves the memory of the earlier label in place: if
the new label equals the remembered output, the two labels are a text and its
translation, and `UnconfusableAssumption` makes them one. A text node never has a
memory of another text, so white space, which no pass touches, is raw with no
memory. `ApplySettles` says that a pass settles every slot it visits, whatever the
state; the three theorems about the observer and the switch follow from it.
`Settles` is left to TLC.

### 5.7 Only model-checked

Not in reach of the prover, and left to TLC: liveness and `ENABLED`
(`StartupSettles`, `SubmissionsAnswered`, `AssignmentsLeave`, `Converges`,
`BlockedIsReported`, `Settles`); induction over data; anything about `RECURSIVE`
operators (none is used here). Every invariant and every action property
of the passing runs is stated by a theorem. The properties of the runs that expect a
violation are false of the code and have counterexamples instead.

## 6. What is not modelled, and the plan

Modelled: startup transactions, remote diagnostics, availability, the announce,
speed tests with their confirmations, the page localizer. Not modelled:

* agent automation, reachability and the agent registry: each is a store behind
  one mutex whose effects on the other components enter the models as steps they
  may take at any time (a session is created, a request is authentic or not);
* Telegram's node alerts, muting, commands and texts: policy over the statuses of
  `Availability`;
* parsing of subscriptions and archives and the generation of the Xray
  configuration: data, out of TLC's reach; what a refresh does to the running
  system is in `Availability` and `SpeedConfirmation`;
* the journals and automatic backups: single files that are written whole;
* network I/O of a single probe, web handlers, metrics, logs and the rendering of
  the pages: presentation and I/O over the state of the other components;
* `docs/astro.config.mjs` and `docs/src/content.config.ts`, constants of the
  documentation site; `country-flag-emoji-polyfill.js` and
  `swagger-ui-bundle.js`, third-party bundles.

Worth doing next: several squads and other headers in `Announce`, which share
`operationMu` and the ownership file; the agent registry as a module of its own, in
place of the steps it takes in `RemoteProbe`. What the prover leaves to TLC (5.7) needs
larger instances rather than proofs.
