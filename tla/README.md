# BeaconOps verification

TLA+ models of the BeaconOps monitor (the Rust daemon `beaconops-daemon`, its
library `beaconops-core` and the desktop application around them), the TLC
configurations that check them, and TLAPS proofs of the main safety results.
Paths below are relative to the repository; `src/` in `PROJECT.json` is the
repository's root.

## 1. The system

An operator runs one daemon. It polls Beacon API and execution RPC endpoints,
keeps what it learns in SQLite, sends alerts to Telegram, and serves a local HTTP
API to a Tauri desktop application.

| component | state it keeps | operations | talks to |
|---|---|---|---|
| Monitor engine (`monitor.rs`) | `targets`, `tracked`, `payload` behind RwLocks | bootstrap, tick, import, reset, duties/rewards queries, BLS change, exit, execution actions | RPC pools, storage |
| Validator inventory (part of the engine) | the target list, the resolved indices, `app_state['tracked_targets']`, `validator_registry` | import, persist, resolve, load | Beacon API, storage |
| Alert engine (`alerts.rs`) | `queued_digest` in memory; `alerts_sent`, heartbeat and digest keys in SQLite | process: incidents, heartbeat, digest | Telegram, storage |
| RPC pool (`rpc.rs`) | score, counters, latency and last error per endpoint | get, post, JSON-RPC with failover; mark success/failure; restore and snapshot of health | the endpoints |
| JSON cache (`cache.rs`) | entries with expiry, hit and miss counters | get, put, clear | |
| Storage (`storage.rs`) | the SQLite tables | one transaction per call, behind a mutex | |
| Configuration (`config.rs`) | | load, validate, classify validator ids | |
| Keymanager client (`keymanager.rs`) | configured endpoints | list, import, delete of local and remote keys, one endpoint after another | validator clients |
| Daemon (`beaconops-daemon/src/main.rs`) | the tick lock, the router | the monitor loop, `spawn_tick`, one handler per route | all of the above |
| Daemon manager (`src-tauri/src/main.rs`) | the child process, its log, the gate windows | ensure running, stop, restart, status, lock, unlock | daemon process, port |
| Access gate (`AccessGate.tsx`, `lib/auth.ts`) | stage, attempts, access profile (also in `localStorage`) | startup checks, resolve, setup, unlock, reset | HTTP API, public beacon nodes, Tauri commands |
| Main shell (`App.tsx`, `hooks`, `lib/api.ts`) | query cache, selected validator, profile-sync reference | poll, refresh, switch, import, retry, profile sync, auto-lock | HTTP API, Tauri commands |
| Action center (`OperationsPage.tsx`, `lib/eligibility.ts`) | forms, busy flags, results | BLS change, batch, exit, execution actions, key generation; local preflight | HTTP API |
| Key management page (`KeyManagementPage.tsx`) | selected endpoint, lists, forms | refresh, import, delete | HTTP API |
| Settings page (`SettingsPage.tsx`, `lib/tauri.ts`) | launch settings (also in `localStorage`), busy action, feedback | save, start, stop, restart, status | Tauri commands |
| Read-only pages, crash boundary, launch screen, help | sorting, filters | render | the shell's data |

How they interact. The monitor loop and every task of `spawn_tick` take the *tick
lock*, run `tick` under a *tick timeout*, and hand the incidents of a completed tick
to `AlertEngine::process` while they still hold the lock. HTTP handlers run on
tasks of their own. `POST /import` changes the target list **without** the tick
lock, then spawns a tick. All tasks share the RPC pools and their cache.

The desktop application has two windows with one script each: the gate and the main
shell. They share `localStorage`, reach the daemon over HTTP with a client-side timeout
and its process through Tauri commands. Only `focus` and `storage` events tell one
window what the other has done.

What is hard. Imports interleave with ticks and with each other between two lock
acquisitions. A tick can be cut off at any await. Four storage calls, the payload
and the alerts follow one another and each can fail. An alert is sent before it is
recorded. The liveness checkpoint is stored before the incidents of its epoch.
Health scores are read, changed and written back in separate steps. Endpoints fail
by refusing, hanging, answering slowly or answering nonsense, and the daemon can
die between any two of these steps. In the client, a handler that awaits goes on with
what it captured, whatever the operator does meanwhile: answers arrive out of order,
after a timeout, after a reset or after the page was left. A batch is checked item by
item while the chain moves. A fan-out over validator clients stops half-way.

What makes each part correct:

* inventory: an acknowledged import survives restarts, is polled and is shown;
* tick: a missed attestation is reported once; what was shown stays shown; an outage
  becomes visible, and so does its end; what is alerted is stored;
* alerts: no fingerprint twice in the anti-spam window, one digest a day, nothing
  deferred is forgotten, no incident left out unsent, a refused alert sent again;
* RPC pool: a request fails only when no endpoint works; a broken endpoint is not
  preferred for ever; outages and recoveries show in the scores;
* cache: answers are at most so old, also after a reset and compared with what was
  seen before;
* submissions: nothing reaches the chain but what was asked for, a batch as a whole,
  and nothing is sent again after a success; what a form reports is true; the local rules
  do not withhold what the daemon would accept;
* keymanager: the lists are those of the selected clients, and a success is shown with
  the answer of every client, which is true;
* access gate: a reset is final, a lock is always coming, a window comes back, nobody is
  locked out;
* main shell: an import stays selected, the profile's validator is imported in the end,
  the dashboard catches up with the daemon;
* daemon manager: no spawned daemon gets out of its hands, and the settings page tells
  the truth about it;
* analytics: see the plan.

## 2. Modules

Each component has a specification, an `MC…` module with the instance for TLC and a
`…Proofs` module; the proofs about AlertDelivery are in `MonitorTickProofs`, those about
JsonCache in `RpcPoolProofs`. `PROJECT.json` maps every definition to the lines it models.

### ValidatorTargets

`targets`, `tracked`, `payload` are the three RwLocks; `saved` is what a start-up
loads (the stored list, or the configured one when nothing has been stored),
`registry` the rows of `validator_registry`. A process (`pc`, `req`, `buf`, `found`)
is one `POST /import` or the bootstrap; every lock acquisition is one step:
`ImportUpdate` (edit of the list under the write lock), `PersistRead` and
`PersistWrite`/`PersistFail` (copy under the read lock, then `set_state`),
`ResolveRead`, `ResolveOne` per target, `ResolveInvalid`, `ResolveWrite`, and
`ImportPublish` (the handler's own payload update and `spawn_tick`). `TickStart`,
`TickStore`, `TickPublish` and `TickFail` are the parts of a tick that touch this
state; `Retry` is the manual retry; `Crash`, `BootLoad`, `BootPublish` are a
restart. Ids fall into the classes `from_input` distinguishes; the order of the
lists and the labels, except whether they mark the sample target, are dropped.
`alone`, `acked` and `solo` are history.

### AlertDelivery

One run of `process` at a time (its caller holds the tick lock): its position `at`, the
incidents still `pending`, the digest `queue`, and the rows and keys in SQLite. Time
passes at every moment. A send is *accepted* by Telegram in one step and
*recorded* in another, so that the answer, the process or the database can fail in
between; `SendHangs` is a connection that never answers, which the client, built
without a timeout, waits for. `refused` holds the fingerprints whose last send failed. The `…Blindly` actions are storage reads whose errors
the code turns into "not sent". History records what Telegram accepted and which
fingerprints or days lost a row (`tainted`, `digestTainted`).

### MonitorTick

The sequence of one tick: head, execution head, proposer duties, sync committees,
liveness of the previous epoch, one snapshot per validator, degradation,
`upsert_registry`/`insert_snapshots`/`insert_incidents`, payload. Every network step
has its own timeout, the whole has `TickTimeout`; time is what the steps cost in
seconds given the condition of the API (up, slow, refusing, hanging), the pool's
request timeout and the number of endpoints. `EndTick` drops the tick's locals, as
the dropped future does. The environment changes the APIs, the epoch and the
tracked list (what an import does) and clears the cache; `Failure` holds storage
errors and restarts.

### RpcPool

The request loop shared by `beacon_get_value`, `beacon_post_value` and
`execution_value`, run by several callers at once: `Begin` ranks the endpoints,
`Succeeds`/`Fails` is an answer, `MarkRead` and `MarkSuccess`/`MarkFailure` are the
get and the insert of `mark_*` on the shared map, `BodyUnusable` the `?` on an
undecodable success, `Dropped` a future that its caller gives up. Scores are natural
numbers of units, gains any member of `Gains`, ties arbitrary. A restart restores
stored scores, so every assignment of scores is an initial state; that adds no
reachable state to the run, because late inserts produce every combination anyway
(TLC counts the same number of states from the default scores alone).

### JsonCache

`beacon_get` with one cached path: `Ask` (get takes the time), `Hit`/`Miss` (reads the
entry), `Remove` (drops an expired one, also if it has just been replaced), `Send`
(a request, again for every endpoint of the failover), `Put`, `FetchFails`, and
`Clear`, the reset-state handler. A value is the time at which the endpoint produced
it, so its age is visible.

### AccessGate

Both windows: `stored` is the profile in `localStorage`, `profile` and `mainProfile` the
copies in the gate and in the shell, `stage` … `checksCompleted` the gate's React state,
`armed` the shell's auto-lock timer, `syncDue` an event the browser has not delivered
yet. A form that awaits is a record in `tasks` with what its handler captured
(`Resolving`, `SettingUp`, `Unlocking`); `Continue` holds what can happen to it.
`ShowMain` shows the main window and asks for the gate to be closed (`gate` is then
"closing", and its handlers go on); the event loop does so in `GateCloses`, which ends the
page and its tasks. `ShowGate` hides the main window and brings a gate that exists to the
front, closing or not, or loads a new one: a lock between the request and the close leaves
no window. A password fits a profile iff it is the one it was built with. Each wrong password
sets `attempts` to one more than what the render that submitted it showed. History: `cleared`
is a reset, `raced` whether it met a setup or unlock under way, `streak` the wrong passwords in
a row that were each verified before the next was typed.

### ValidatorShell

`data` is the entry of the query cache, `fetch` the query's one live request, and `tasks`
the handlers that await: `importValidatorFromInput`, the profile synchronisation,
`refreshAll`, `retryMonitor`, each at the request it waits for (`phase`). An answer is
taken from the daemon in one step (`FetchServed`, `WaitServed`) and applied in another
(`FetchApplied`, `WaitLooks`). `SelectEffect`, `SyncEffectSkips` and `SyncEffectStarts` are
effects of the shell. The daemon is reduced to what `ValidatorTargets` shows of it: its
list grows, an import publishes it, a tick publishes the list it read when it began.

### Operations and SubmissionPromise

One request is an element of `work`: the form it came from, its items, those read so far
and its phase. `Check` reads and judges one item (`BlsAccepts`, `ExitAccepts`, `Eligible`),
`Post` sends all and gets a success; `Resend` is an error or an answer lost, whether the node
has taken the body or not, after which the same body goes to the next endpoint or round, up
to `MaxSends` times; `Undecodable` is a success that ends in an error; `Fail` ends a request
before its first send. `Answer` and `TimesOut` end the page's wait, `LeavePage` makes all requests
unheard, `Dropped` is a handler whose client is gone. `ChainStep` changes a record at any
moment. `deriveLifecycle`, `LocalEligible` and `Preflight` are the client's rules.
`SubmissionPromise` is the abstract specification, over the requests asked for, the items
taken by a node, with the number of the send, and the requests confirmed: a request is
asked for, and a send of it is taken or not, all items in one step, if it was no dry run,
all its items name one validator each, and no success has been answered for it yet.
`Operations` implements it (`KeepsPromise`): the checks, the moving chain, timeouts and the
page are stutters. "Once per click" is not promised: the code repeats a body whose answer it
did not get (`rpc.rs:269`), and a node may take both.

### DaemonControl

`calls` are the commands the windows have invoked, in order of arrival; Tauri runs plain
commands one after the other on its main thread (`Turn`), but the manager's mutex is free
while a daemon is spawned and awaited, so `EnsureLooks`, `EnsureSpawns`, `EnsureStores` and
the wait are separate steps. `answers` are results the scripts have not seen. Daemon
processes start, exit and share a port; one of them the operator runs by hand.
`GateEnsures`, `ShellMounts`, `OpenSettings`, `PollTimer`, `Click`, `SaveSettings` and `Resume`
are the windows, `GateReset` the gate's RESET, which removes the stored launch settings
(`AccessGate.tsx:603`; `Unset` is what loading then yields, `wiped` remembers it) and leaves
the shell its copy, `Relaunch` a new launch of the application, which leaves daemons behind.
Executable paths are empty, the operator's own, one inside an AppImage mount (gone at
the next launch) or the bundled one.

### KeyManagement

`keys` is what each validator client holds, a job one mutation the daemon is serving:
`FanOut` is the next client's 2xx answer, which says of the key that it is done or that it is
not, and goes on in both cases; `ClientFails` is its failure (applied or not), which ends the
job. `report` is what the page shows of the last success. `Edit` is text typed while a job is
served, which `MutationEnds` empties too. A refresh is bound to the selection of its beginning and shows both lists
at once. `crossed` and `overlapped` are history: the last refresh was begun beside another
one or beside a job, two jobs were served at once.

## 3. Runs

Run with `tlc -workers 2 -config <cfg> <module>`; each ends within three minutes on two
workers.

| run | instance | shows |
|---|---|---|
| `targets_overlap` | two imports (an index, a public key), a tick, one waiting tick task more, one fault | `SoloImportDurable`, `SoloIndexTracked`: an import that overlapped no other is stored and polled for good; `StalePayloadHasTickDue`: a stale dashboard has a tick coming; `SoloPubkeyTrackedWithoutFaults` |
| `targets_shown` | one import at a time of an index, an address, the sample id or a malformed id, one fault | `SoloIndexShown`: the import reaches the dashboard although a running tick may overwrite it with an older list |
| `alerts_delivery` | three fingerprints, days of three hours with quiet hours over midnight, digest in the last quiet hour as in the default configuration, clock up to the second digest, two faults | `AntiSpam`, `OneDigestPerDay`, `DeferredUntilDigest`; `NothingSkippedUnsent`: an incident leaves the loop sent, refused, queued, or kept back by an alert Telegram accepted; `RefusedIsRetried`: a refused alert that goes on being reported is sent again or deferred |
| `tick_incidents` | one validator, imported at any moment, three epochs, an API that may hang, one fault | `MissedOnce`, `AlertsAreStored`; `LastKnownDataStay`: what was shown is not lost to failed fetches |
| `tick_outage` | one validator, two completed epochs, refusing Beacon API, hanging execution RPC | `RefusedOutageDegrades`, `RecoveryIsShown`, `LivenessCatchesUp` |
| `rpc_failover` | two endpoints, two callers | `FailedMeansNoneGood`, `FailoverSettles`; `FullOutageShowsInScores`: scores fall below the threshold for good as long as a mark gets through now and then, whoever else is cut off; `RecoveryIsSeen` |
| `cache_reads` | three callers, TTL and timeout of two units | `HitsAreFresh`, `ResetForgets`, `NeverFarBack` |
| `gate_access` | two forms under way at once, two passwords, reset prompt after two, two typed in a row, a gate that closes late | `QuietResetIsFinal`; `LockIsComing` and `WindowComesBack`: no application with a profile stays unlocked or without a window; `UnlockIsPossible`; `AutoLockComesBack` |
| `shell_sync` | two validators, one known from earlier, one handler under way, one move of the operator | `ImportKeepsSelection`, `ProfileIsTracked`, `DashboardCatchesUp` |
| `operations_submit` | three validators, one compounding; right and mixed-up items, a batch of each kind; two requests, each sent up to twice, one change of the chain | `KeepsPromise` (the refinement), `ReportIsTrue`, `PreflightNeverBlocks` |
| `daemon_control` | two spawned daemons and one run by hand, three commands or answers under way, three moves | `NoDaemonLost`, `PendingIsPending`, `SettingsAgree`, `StatusCatchesUp` |
| `keys_fanout` | two clients, one key or a malformed input, two refreshes and two jobs at once, three moves | `ListIsCurrent`; `SuccessIsReported`: a success shows an answer of every selected client, and those that say done have done it |

**Statements the code does not keep.** The modules also state sentences that the
documentation, a text of the interface or a reader would claim. TLC refutes each of them in
the instance given here; no listed run repeats it.

| definition | instance | claim | counterexample |
|---|---|---|---|
| `NoDuplicateInWindow` | `alerts_delivery` | `docs/failure-scenarios.md:31` | the daemon dies after Telegram accepted the alert and before `record_alert_sent`; the next tick sends it again |
| `MonitoringContinues` | `alerts_delivery` | `docs/failure-scenarios.md:38` | the Telegram client has no timeout and `process` holds the tick lock |
| `HangingOutageDegrades` | `tick_outage` with `BeaconModes = {"up", "hanging"}` | `docs/failure-scenarios.md:7-8` | head, duties, committees and the first snapshot exceed the tick timeout, which drops the incidents of every tick |
| `OutageIsReported` | `rpc_failover` with the mode `down` | `docs/failure-scenarios.md:15-17` | a full score survives the one failure that demotes the endpoint; it is not called again |
| `ResumesFromCheckpoint` | `tick_incidents` with `MaxEpoch = 3` | `docs/failure-scenarios.md:32` | only the previous epoch is checked |
| `ResetNeedsOnboarding` | `gate_access` | the confirmation text in `AccessGate.tsx:594` | a setup or unlock under way when access is reset saves the profile again or shows the main window |
| `WithdrawalKeyIsAccepted` | `operations_submit` with `Item <- KeyItem` | `HelpCenter.tsx:240` | the daemon compares the signer of a BLS change with the validator's signing key (`monitor.rs:745`) and refuses the withdrawal key |
| `SomeWindow` | `gate_access` | | the auto-lock timer runs out after `unlock_and_show_main` has asked for the gate to be closed and before it is: the main window is hidden and no gate opened (`main.rs:611`, `623`) |
| `CountNeverFalls` | `gate_access` | | verifications under way at once each count from the render that submitted them, and one sets the counter back (`AccessGate.tsx:569`) |
| `SettingsAlwaysAgree` | `daemon_control` | | RESET in the gate removes the stored launch settings, the running shell goes on with its copy |
| `FormStaysUntilDone` | `keys_fanout` | | a client answers 200 with the status "error" for the key (`keymanager.rs:187`), or the text was typed after the submission; the form is emptied (`KeyManagementPage.tsx:88`) |
| `ListIsOfSelected` | `keys_fanout` | the page's header | the answer for the earlier selection comes last and is shown |
| `AckedImportDurable` | `targets_overlap` | | two imports overlap in `persist_targets`; the older copy is stored last |
| `OutageKeepsPubkeys` | `targets_overlap` | | an import during a failing lookup drops another validator's public key from the polled list |
| `RestartSucceeds` | `targets_shown` | | a malformed id is stored before it is rejected, and bootstrap fails on it at every start |
| `WithdrawalTargetComplete` | `targets_shown` with `Requests <- ReqIndexAddress` | | one registry row of an address is taken for the whole address |
| `FailedSendIsRetried` | `alerts_delivery` with `Batches <- MissedBatches` | | a missed attestation is in one tick's batch only |
| `DeferredIsListed` | `alerts_delivery` with `Batches <- QuietBatches` | | a digest lists its first lines and clears the whole queue |
| `MissedIsReported` | `tick_outage` with `BeaconModes = {"up", "slow"}` | | the tick is cut off after the checkpoint and before the incidents are stored |

Two smaller things met on the way: `deriveLifecycle` shows an `exited_unslashed` validator as
slashed, because the status contains the word (`eligibility.ts:60`), and a start or restart
answers "Daemon started" also when the daemon that answers is one the operator runs by hand.

**Bounds.** `MaxFaults` (1) allows one crash, storage error or failed lookup at any step,
`MaxAlertFaults` (2) a refused send and another fault after it; the invariants are proved for
any number. `MaxSpawned` bounds
tick tasks that wait for the lock; a second one finds nothing new. `MaxTime`,
`DayLen` and `MaxQueue` let the clock pass a full anti-spam window, a night and two
digests. `MaxEpoch` 2 gives two completed epochs, so that one can be missed, checked
and followed by another; heads go back where a tick falls back to the last payload's
(`MaxLag` 0: no endpoint lags for ever, which would keep `LivenessCatchesUp` from holding). Timeouts in `MonitorTick` are the default configuration's
in seconds (request 3, two endpoints, tick 20). A score unit in `RpcPool` is 25
points, which keeps the order of the default score, penalties and threshold; the mode
`down` is left out of the passing run because `errors` includes its penalty.

In the desktop modules, `Slot`, `Slots` and `MaxCalls` bound what awaits at once: two are
enough for one handler to overtake another. `shell_sync` has one slot, because its
liveness properties are out of TLC's reach with two (the query is concurrent with the
handler in any case); `ImportKeepsSelection` was checked by itself with two slots, with one
move (804 thousand states) and two moves (9.3 million). `MaxMoves` counts what only the operator
does. `MaxRequests` 2 gives a request and the next of the same form, `MaxSends` 2 a send whose
answer is lost and the next (endpoints times rounds in the code), `MaxChain` 1 a record
that changes between check and post. `MaxTyped` 2 is enough for two verifications at once.
`keys_fanout` also passes with four moves (11.2 million states). `MaxSpawns` 2 is one daemon per window.
`alerts_delivery`, `daemon_control` and `keys_fanout` end in states without a successor (the
bounds of clock and moves), so they do not check for deadlock.

**Fairness.** Weak fairness of the steps of a task that is under way: Tokio polls
ready tasks, and network steps have timeouts, except sends to Telegram, whose hang
is a step of its own. Weak fairness of the next tick: the monitor loop never ends. Of
a `POST`, a retry, a clock step, a change of an endpoint, a fault or a drop nothing is
assumed. `FailoverSettles` and `RecoveryIsSeen` exclude callers that give up for ever;
`FullOutageShowsInScores` only asks that marks go on. The properties of ticks and inventory
are about behaviours in which every send to Telegram ends, because a hanging one keeps the
tick lock (`MonitoringContinues`).

In the desktop modules: the browser delivers events and timers, promises settle
(requests have timeouts), commands run, the event loop serves the close of a window, and the
auto-lock timer of a *hidden* shell, which no activity can prolong, runs out. The conditions in `ValidatorShell` are strong for what
is repeated for ever (serving and applying a dashboard, an import that is tried again): it
does not fail for ever, and an answer now and then follows a tick. Nothing is assumed of
the operator; `StatusCatchesUp` is about one who stays on the settings page.

## 4. Proofs

`tlapm <module>` checks the `…Proofs` modules. All results hold for every value of the
constants that the named assumptions allow, so for any number of imports, validators,
callers, endpoints, requests and faults.

* **ValidatorTargetsProofs**: `TypeCorrect`, `SoloImportsAreDurable`,
  `SoloIndicesStayTracked`, `StalePayloadIsTransient`, `SoloPubkeysStayTracked`. Durability is not inductive by
  itself: a later import stores a *copy* of the list. `Scheduling` says that an import
  marked `alone` has no company at its steps, `DurableInv` that the list in memory and
  every copy on its way to the database contain each solo id. `TrackedInv` does the
  same for copies being resolved, and `PayloadInv` relates the payload to what the
  running tick has read. A public key needs its lookup to succeed, so `PubkeyInv` is about
  behaviours without faults; `Followed` carries a key through every resolution under way,
  which still has it in its copy of the list or has found its validators already.
* **MonitorTickProofs**: `TypeCorrect`, `MissedIsStoredOnce`, `AlertedIsStored`,
  `ShownStaysShown`, `ShownHeadStays`. `OnceInv` orders checkpoint, heads and the
  epochs of stored and pending misses; `KeptInv` says that what is kept is in the
  running tick's copy of the list, without which `merge_snapshots_with_previous`
  would lose it; `PublishInv` that what is about to be published is stored and has a
  head if the dashboard has one. About the alert engine: `AlertTypeCorrect`,
  `AlertsRespectWindow`, `DigestsAreDaily`, `DeferredStaysQueued`, `SkippedWereSent`.
  `AlertInv` ties the last delivery to the stored row, except for the alert that is
  between the two, and remembers that an alert on its way passed the check when the
  clock had left the window; `DigestInv` is its counterpart for the day's key. `QueueStep`
  lists what any step can do to the digest queue; `RowInv` says that behind a row there is an
  alert Telegram accepted.
* **RpcPoolProofs**: `TypeCorrect`, `FailoverTriesAll`. `LoopInv` says that the ranking
  of a running request covers all endpoints and that those before its position failed
  since it began; `GoodInv` that a good endpoint is good now. About the cache:
  `CacheTypeCorrect`, `CachedIsFresh`, `ResetIsEffective`, `BoundedSetback`. `EntryInv`
  orders the moment of the put between the reset and everything returned on one side and
  value plus timeout on the other.
* **OperationsProofs**: `TypeCorrect`, `ImplementsPromise`, `ReportsAreTrue`,
  `PreflightIsHarmless`. For the refinement, `AskedInv` says that ids are given out in order
  and once, `WorkInv` that a request in `work` is one of those asked, that only one element
  of `work` has its id and that what it has read is acceptable (index and keys of one
  validator never change, whatever the chain does) and that a request still being sent has no
  success answered and no send on the chain that it has not made, `PostedInv` that what is on
  the chain was asked for, and not as a dry run. `ReportsAreTrue` adds `WaitInv` (a form has at most one
  request it listens to, and is busy then) and `ShownInv` (an outcome shown belongs to a
  request asked before the one being awaited). `PreflightIsHarmless` needs `SlashedIsMarked`: a
  record with a slashed status has the slashed flag, on the chain and so in every copy.
* **AccessGateProofs**: `TypeCorrect`, `LockIsAlwaysComing`, `UnlockIsNoDeadEnd`,
  `QuietResetsAreFinal`. `ResetInv` says why a quiet reset is final: the gate has no copy of
  the profile, no unlock form is open, and nothing that shows the main window is under way.
  `UnlockInv` says that an unlock form has a profile and that a counter at its limit has raised
  the prompt; the counter loses passwords verified at once, so `CountInv` compares it, and the
  count each verification started from, with the passwords verified one at a time. `TimerInv`
  adds to `LockIsComing` that the shell's copy of the profile is the stored one or an event is on
  its way (`CopyInv`): a timer that was not armed for lack of a profile is armed by that event.
* **ValidatorShellProofs**: `TypeCorrect`, `ImportsKeepSelection`, for any number of handlers
  under way. `RacedInv` says that a shown validator which a dashboard on its way lacks is
  marked, so that an unmarked one survives every answer; `DoneInv` that an import in its last
  refresh has its validator shown; `KeptInv` that the last import is selected *and* listed,
  which is what keeps the selection effect from moving. `StepOK` is what each step does to
  data, tasks and selection, and `StepKeeps` that this preserves the three.

* **KeyManagementProofs**: `TypeCorrect`, `ListsAreCurrent`, `SuccessesAreReported`, for any
  number of clients, keys, jobs and refreshes. `ListIsCurrent` speaks of a page at rest, so
  `PageInv` says what holds on the way there. `BusyInv`: the busy mark belongs to one
  mutation, the job the page awaits or the refresh after it.
  `ErrorInv`: a job that goes on unheard has left its error on display, until the page
  awaits another. `RefreshInv`: a refresh begun alone stays alone, and the page is loading.
  `CalmInv`: with no job and no error, what is shown, or what the one refresh has gathered,
  is what the selected clients hold. `JobInv`: a job has an answer of each client it has passed, and one served alone has
  been carried out by those that said so, which is what its last answer needs.
* **DaemonControlProofs**: `TypeCorrect`, `NoDaemonIsLost`, `SettingsStayAgreed`,
  `PendingActionsAreReal`, for any number of spawns, commands, moves and relaunches. That no
  daemon is lost rests on Tauri's order: `QueueInv` says that only the first command of the
  line has begun, and that none is on its way to spawn or store a daemon while the manager
  holds a child; with it `NoDaemonLost` is inductive (`DaemonInv`). `SettingsAgree` is inductive as
  it stands, with the removal by RESET remembered until the next save or launch. `PendingInv` finds the
  command the page waits for in the line or among the answers; a step moves it from one to
  the other (`LineGrows`, `FirstRemoved`) or ends the page's wait.

`MonitorTick` and `AlertDelivery`, and `RpcPool` and `JsonCache`, have no name in common,
so that one proof module extends both and so can a module that composes them.
`KeyManagementAssumption` and `ControlAssumption` say that `None` differs from keys,
clients and process numbers, as `null` and `Option::None` do in the code.

Type invariants are proved, so the runs of these modules do not repeat them; nor does a run
repeat `HeadStays`, which `ShownHeadStays` proves.

Every safety property of the runs, and the refinement, is a theorem. Only model-checked:
the liveness properties, because the prover has no rule for fairness (`SoloIndexShown`,
`RefusedIsRetried`, `RefusedOutageDegrades`, `RecoveryIsShown`,
`LivenessCatchesUp`, `FailoverSettles`, `FullOutageShowsInScores`, `RecoveryIsSeen`,
`WindowComesBack`, `AutoLockComesBack`, `ProfileIsTracked`, `DashboardCatchesUp`,
`StatusCatchesUp`). The statements that do not hold are refuted by TLC.

## 5. Not modelled

* Duties and rewards analytics (`duties_payload`, `rewards_payload`, their SQL queries, the
  pages that show them): pure transformations of rows; planned, section 6.
* The read-only pages (dashboard, health, incidents, validator table): they render what
  `ValidatorShell` keeps; sorting and filtering only.
* Of the daemon manager: the search for executable and configuration (its result is a
  constant), the log, diagnostics and file commands.
* Cryptography, JSON and SQL encodings, migrations: trusted.
* The order in which SQLite and the file system persist: a storage call is atomic and
  durable (WAL, one transaction per call). Writes to `localStorage` succeed.
* A wall clock that is set back; `Utc::now()` is monotonic here.
* Crash boundary, launch screen, logger, theme, texts, styles, help pages, packaging
  scripts.

External, modelled from how the code uses it: the chain's records, validator clients,
daemon processes as the operating system sees them, Tauri's order of plain commands and
their answers, its event loop closing a window on request, axum's dropping of a handler
whose client has gone.

## 6. Plan

Done: inventory, alerts, tick, RPC pool and cache; submissions with their abstract
specification and the proved refinement; keymanager, access gate, main shell and daemon
manager; a theorem for each of their safety properties. Left, in this order:

1. **Theorems**: the safety half of the liveness properties (what a step on the way to the
   goal may not undo), such as the scores of a failing endpoint, which only fall.
2. **Compositions**: MonitorTick with AlertDelivery (tick lock, batches that really come
   from ticks: which missed attestations are never delivered), MonitorTick with
   ValidatorTargets (its `SetTracked` implemented by imports), ValidatorShell's daemon
   implemented by ValidatorTargets, RpcPool under JsonCache.
3. **Analytics** as pure functions against reference definitions: streaks and counts of
   missed attestations, next duties (`monitor.rs:1533`: a past proposer slot of the current
   epoch may hide a coming one), rewards windows, URL joining.

Runs stay few: one for each question. A new component's run takes the place of one
that repeats an established result.
